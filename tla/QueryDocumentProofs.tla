------------------------- MODULE QueryDocumentProofs -------------------------
(* Proofs of the safety of QueryDocument for documents of any nesting and   *)
(* any commands.                                                            *)
EXTENDS QueryDocument, SequenceTheorems, TLAPS

(* Nothing has been replied exactly as long as the socket is open.          *)
ReplyInv ==
  /\ sd = "open" <=> replies = <<>>
  /\ Len(replies) <= 1

(* The depth is at least that of the document, but for the start tags       *)
(* before <query>; it is larger after an element that was not counted out.  *)
DepthInv ==
  /\ depth <= Len(open) + 2
  /\ parser # "crashed" => depth + ignored >= Len(open)

(* The document and the callbacks' state at its beginning.                  *)
RootInv ==
  /\ root = "none" =>
       /\ open = <<>> /\ state = "WAIT_ROOT_EL"
       /\ depth = 0 /\ ignored = 0 /\ executed = 0
  /\ open # <<>> => open[1] = root

(* A document with the root <query> agrees with the depth until an action   *)
(* element is refused or fails, and has then been replied to.               *)
QueryInv ==
  root = "query" =>
    /\ ignored = 0
    /\ executed <= 1
    /\ state # "WAIT_ROOT_EL"
    /\ parser # "crashed" =>
         /\ state = "READING_DATA" => depth = Len(open) /\ Len(open) <= 1
         /\ state = "WAIT_PARAMS" /\ depth = Len(open) => Len(open) >= 2
         /\ depth > Len(open) \/ state = "FINISHING" => replies # <<>>
         /\ state # "FINISHING" /\ depth = Len(open) => executed = 0

IInv == TypeOK /\ ReplyInv /\ DepthInv /\ RootInv /\ QueryInv

-----------------------------------------------------------------------------
(* An element that starts is appended to the open ones, of which the first  *)
(* is the root.                                                             *)
LEMMA Opening ==
  ASSUME TypeOK, RootInv, NEW n \in Names, MayOpen(n)
  PROVE  /\ open' \in Seq(Names)
         /\ Len(open') = Len(open) + 1 /\ Len(open') <= MaxNesting
         /\ open' # <<>> /\ open'[1] = root'
         /\ root' \in Names /\ root' # "none"
         /\ root # "none" => root' = root /\ Len(open) >= 1
         /\ root = "none" => root' = n
BY DocumentAssumption DEF TypeOK, RootInv, MayOpen

(* A sequence without its last element.                                     *)
LEMMA WithoutLast ==
  ASSUME NEW S, NEW s \in Seq(S), s # <<>>
  PROVE  /\ Len(s) \in Nat /\ Len(s) >= 1 /\ s[Len(s)] \in S
         /\ SubSeq(s, 1, Len(s) - 1) \in Seq(S)
         /\ Len(SubSeq(s, 1, Len(s) - 1)) = Len(s) - 1
         /\ Len(s) > 1 => SubSeq(s, 1, Len(s) - 1)[1] = s[1]
<1>1. Len(s) \in Nat /\ Len(s) >= 1
  OBVIOUS
<1>2. s[Len(s)] \in S
  BY <1>1
<1>3. Len(s) - 1 \in Int /\ \A i \in 1..Len(s) - 1 : s[i] \in S
  BY <1>1
<1> DEFINE t == SubSeq(s, 1, Len(s) - 1)
<1>4. /\ t \in Seq(S)
      /\ Len(t) = IF 1 <= Len(s) - 1 THEN Len(s) - 1 - 1 + 1 ELSE 0
      /\ \A i \in 1..Len(s) - 1 - 1 + 1 : t[i] = s[1 + i - 1]
  BY <1>3, SubSeqProperties, SMT
<1>5. Len(t) = Len(s) - 1 /\ (Len(s) > 1 => t[1] = s[1])
  <2> HIDE DEF t
  <2>1. Len(t) = Len(s) - 1
    <3> DEFINE k == Len(s)
               l == Len(t)
    <3>1. k \in Nat /\ k >= 1 /\ l = IF 1 <= k - 1 THEN k - 1 - 1 + 1 ELSE 0
      BY <1>1, <1>4
    <3> HIDE DEF k, l
    <3>2. l = k - 1
      BY <3>1
    <3>3. QED
      BY <3>2 DEF k, l
  <2>2. ASSUME Len(s) > 1 PROVE t[1] = s[1]
    <3>1. 1 \in 1..Len(s) - 1 - 1 + 1 /\ 1 + 1 - 1 = 1
      BY <1>1, <2>2
    <3>2. QED
      BY <1>4, <3>1
  <2>3. QED
    BY <2>1, <2>2
<1>6. QED
  BY <1>1, <1>2, <1>4, <1>5

(* An element that ends is the last of the open ones.                       *)
LEMMA Closing ==
  ASSUME TypeOK, RootInv, MayClose
  PROVE  /\ open' \in Seq(Names)
         /\ Len(open) \in Nat /\ Len(open) >= 1 /\ Len(open') = Len(open) - 1
         /\ open' # <<>> => open'[1] = root'
         /\ root # "none" /\ root' = root
         /\ Name \in Names /\ (Len(open) = 1 => Name = root)
<1>1. open \in Seq(Names) /\ open # <<>> /\ open[1] = root /\ root # "none"
  BY DEF TypeOK, RootInv, MayClose
<1>2. open' = SubSeq(open, 1, Len(open) - 1) /\ root' = root
  BY DEF MayClose
<1>3. open' \in Seq(Names) /\ Len(open') = Len(open) - 1 /\ Len(open) \in Nat
      /\ Len(open) >= 1 /\ Name \in Names
  BY <1>1, <1>2, WithoutLast DEF Name
<1>4. ASSUME open' # <<>> PROVE open'[1] = root'
  <2>1. Len(open) > 1
    BY <1>3, <1>4
  <2>2. QED
    BY <1>1, <1>2, <2>1, WithoutLast
<1>5. QED
  BY <1>1, <1>2, <1>3, <1>4 DEF Name

(* A reply is delivered on an open socket only, and the socket is not open  *)
(* afterwards.                                                              *)
LEMMA Replying ==
  ASSUME TypeOK, ReplyInv, NEW text \in {"result", "error"},
         replies' = Deliver(text),
         sd' \in {"shut", "closed"} \/ (sd' = sd /\ sd # "open")
  PROVE  /\ sd' \in {"open", "shut", "closed"} /\ replies' \in Seq({"result", "error"})
         /\ ReplyInv' /\ replies' # <<>>
<1>1. CASE sd = "open"
  <2>1. replies' = <<text>> /\ sd' # "open"
    BY <1>1 DEF ReplyInv, Deliver
  <2>2. QED
    BY <2>1 DEF TypeOK, ReplyInv
<1>2. CASE sd # "open"
  BY <1>2 DEF TypeOK, ReplyInv, Deliver
<1>3. QED
  BY <1>1, <1>2

-----------------------------------------------------------------------------
(* The invariant holds initially.  *)
LEMMA InitIInv == Init => IInv
BY DocumentAssumption
   DEF Init, IInv, TypeOK, ReplyInv, DepthInv, RootInv, QueryInv, States, Names

(* Every start tag preserves the invariant.  *)
LEMMA StartIInv ==
  ASSUME IInv, NEW n \in Names,
         StartElement(n) \/ (n = "query" /\ StartRoot)
  PROVE  IInv'
<1>1. MayOpen(n)
  BY DEF StartElement, StartIgnored, StartAction, StartActionBare, StartInner, StartRoot
<1>2. /\ open \in Seq(Names) /\ Len(open) \in Nat
      /\ open' \in Seq(Names) /\ Len(open') = Len(open) + 1 /\ Len(open') <= MaxNesting
      /\ open' # <<>> /\ open'[1] = root'
      /\ root' \in Names /\ root' # "none"
      /\ root # "none" => root' = root /\ Len(open) >= 1
      /\ root = "none" => root' = n /\ Len(open) = 0
  BY <1>1, Opening DEF IInv, TypeOK, RootInv
<1>3. parser = "on" /\ sd' = sd /\ executed' = executed /\ replies' = replies
  BY DEF MayOpen, StartElement, StartIgnored, StartAction, StartActionBare, StartInner,
         StartRoot
<1>4. ReplyInv' /\ RootInv'
  BY <1>2, <1>3 DEF IInv, ReplyInv, RootInv
<1>5. /\ state \in States /\ depth \in Int /\ ignored \in 0..MaxIgnored
      /\ MaxIgnored \in Nat /\ MaxNesting \in Nat /\ executed \in Nat
      /\ replies \in Seq({"result", "error"}) /\ sd \in {"open", "shut", "closed"}
      /\ depth \in -MaxIgnored..MaxNesting + 2
  BY DocumentAssumption DEF IInv, TypeOK
<1> DEFINE Counted == depth' = depth + 1 /\ ignored' = ignored /\ parser' = "on"
           Skipped == depth' = depth /\ ignored' = ignored + 1 /\ ignored < MaxIgnored
                      /\ state' = state /\ state = "WAIT_ROOT_EL" /\ n # "query"
                      /\ parser' = "on"
           Crashed == depth' = depth /\ ignored' = ignored /\ parser' = "crashed"
                      /\ state' = state /\ state = "READING_DATA"
<1>6. \/ Skipped
      \/ Crashed
      \/ Counted /\ \/ state = "WAIT_ROOT_EL" /\ state' = "READING_DATA"
                    \/ state = "READING_DATA" /\ state' = "WAIT_PARAMS"
                    \/ state \in {"WAIT_PARAMS", "FINISHING"} /\ state' = state
  BY <1>3 DEF StartElement, StartIgnored, StartAction, StartActionBare, StartInner, StartRoot
<1>7. TypeOK' /\ DepthInv'
  <2>1. depth <= Len(open) + 2 /\ depth + ignored >= Len(open)
    BY <1>3 DEF IInv, DepthInv
  <2>2. depth \in Int /\ ignored \in Nat
    BY <1>5
  <2>3. DepthInv'
    BY <1>2, <1>6, <2>1, <2>2 DEF DepthInv
  <2>4. depth' \in -MaxIgnored..MaxNesting + 2 /\ ignored' \in 0..MaxIgnored
    BY <1>2, <1>5, <1>6, <2>1
  <2>5. state' \in States /\ parser' \in {"on", "off", "crashed"}
    BY <1>5, <1>6 DEF States
  <2>6. QED
    BY <1>2, <1>3, <1>5, <2>3, <2>4, <2>5 DEF TypeOK
<1>8. QueryInv'
  <2>1. SUFFICES ASSUME root' = "query" PROVE QueryInv'
    BY DEF QueryInv
  <2>2. CASE root = "none"
    <3>1. state = "WAIT_ROOT_EL" /\ depth = 0 /\ ignored = 0 /\ executed = 0 /\ n = "query"
      BY <1>2, <2>1, <2>2 DEF IInv, RootInv
    <3>2. state' = "READING_DATA" /\ depth' = 1 /\ ignored' = 0 /\ executed' = 0
          /\ Len(open') = 1
      BY <1>2, <1>3, <1>6, <2>2, <3>1
    <3>3. QED
      BY <3>2 DEF QueryInv
  <2>3. CASE root = "query"
    <3>1. ignored = 0 /\ executed <= 1 /\ state # "WAIT_ROOT_EL" /\ Len(open) >= 1
      BY <1>2, <2>3 DEF IInv, QueryInv
    <3>2. CASE Crashed
      BY <1>3, <3>1, <3>2 DEF QueryInv
    <3>3. CASE Counted
      <4>1. depth' = depth + 1 /\ Len(open') = Len(open) + 1 /\ Len(open) \in Nat /\ depth \in Int
            /\ depth >= Len(open)
        BY <1>2, <1>3, <1>5, <3>1, <3>3 DEF IInv, DepthInv
      <4>2. \/ state = "READING_DATA" /\ state' = "WAIT_PARAMS"
            \/ state \in {"WAIT_PARAMS", "FINISHING"} /\ state' = state
        BY <1>6, <3>1, <3>3
      <4>3. /\ state = "READING_DATA" => depth = Len(open) /\ Len(open) <= 1
            /\ state = "WAIT_PARAMS" /\ depth = Len(open) => Len(open) >= 2
            /\ depth > Len(open) \/ state = "FINISHING" => replies # <<>>
            /\ state # "FINISHING" /\ depth = Len(open) => executed = 0
        BY <1>3, <2>3 DEF IInv, QueryInv
      <4>4. QED
        BY <1>3, <3>1, <3>3, <4>1, <4>2, <4>3 DEF QueryInv
    <3>4. QED
      BY <1>6, <3>1, <3>2, <3>3
  <2>4. QED
    BY <1>2, <2>1, <2>2, <2>3
<1>9. QED
  BY <1>4, <1>7, <1>8 DEF IInv

(* In a document with the root <query>, the element at which a command is   *)
(* executed is a child of the root, and none was executed before.           *)
LEMMA AtChildOfRoot ==
  ASSUME IInv, MayClose, AtAction, Name \in Commands, root = "query"
  PROVE  Len(open) = 2 /\ executed = 0
<1>1. depth = 2 /\ state = "WAIT_PARAMS" /\ parser = "on" /\ ignored = 0
  BY DEF AtAction, ActionDepth, MayClose, IInv, QueryInv
<1>2. Len(open) \in Nat /\ Len(open) >= 1 /\ (Len(open) = 1 => Name = root)
  BY Closing DEF IInv
<1>3. Name # "query"
  BY DocumentAssumption
<1>4. Len(open) = 2
  <2>1. Len(open) # 1
    BY <1>2, <1>3
  <2>2. Len(open) <= 2
    BY <1>1, <1>2 DEF IInv, DepthInv
  <2>3. QED
    BY <1>2, <2>1, <2>2
<1>5. QED
  BY <1>1, <1>4 DEF IInv, QueryInv

(* Every end tag preserves the invariant.  *)
LEMMA EndIInv ==
  ASSUME IInv,
         EndElement \/ ExecuteCommand \/ CommandThrows \/ CommandThrowsAndFails
         \/ RefuseCommand
  PROVE  IInv'
<1> DEFINE Counted  == depth' = depth - 1 /\ executed' = executed /\ state' = state
                       /\ sd' = sd /\ replies' = replies /\ ~AtAction
           Finished == depth' = depth - 1 /\ executed' = executed + 1 /\ state' = "FINISHING"
                       /\ AtAction /\ Name \in Commands /\ replies' # <<>>
           Failed   == depth' = depth /\ executed' = executed + 1 /\ state' = state
                       /\ AtAction /\ Name \in Commands /\ replies' # <<>>
           Refused  == depth' = depth /\ executed' = executed /\ state' = state
                       /\ AtAction /\ replies' # <<>>
<1>1. MayClose
  BY DEF EndElement, ExecuteCommand, CommandThrows, CommandThrowsAndFails, RefuseCommand
<1>2. /\ open' \in Seq(Names)
      /\ Len(open) \in Nat /\ Len(open) >= 1 /\ Len(open') = Len(open) - 1
      /\ open' # <<>> => open'[1] = root'
      /\ root # "none" /\ root' = root
  BY <1>1, Closing DEF IInv
<1>3. parser = "on" /\ parser' = "on" /\ ignored' = ignored
  BY <1>1 DEF MayClose
<1>4. /\ sd' \in {"open", "shut", "closed"} /\ replies' \in Seq({"result", "error"})
      /\ ReplyInv'
      /\ Counted \/ Finished \/ Failed \/ Refused
  <2>1. CASE EndElement
    BY <2>1 DEF EndElement, Decrement, IInv, TypeOK, ReplyInv
  <2>2. CASE ExecuteCommand
    <3>1. replies' = Deliver("result")
          /\ (sd' \in {"shut", "closed"} \/ (sd' = sd /\ sd # "open"))
      BY <2>2 DEF ExecuteCommand, sendString, Deliver
    <3>2. QED
      BY <2>2, <3>1, Replying DEF ExecuteCommand, Finishing, Decrement, IInv
  <2>3. CASE CommandThrows
    <3>1. replies' = Deliver("error")
          /\ (sd' \in {"shut", "closed"} \/ (sd' = sd /\ sd # "open"))
      BY <2>3 DEF CommandThrows, sendString, Deliver
    <3>2. QED
      BY <2>3, <3>1, Replying DEF CommandThrows, Finishing, Decrement, IInv
  <2>4. CASE CommandThrowsAndFails
    BY <2>4, Replying DEF CommandThrowsAndFails, IInv
  <2>5. CASE RefuseCommand
    BY <2>5, Replying DEF RefuseCommand, error, IInv
  <2>6. QED
    BY <2>1, <2>2, <2>3, <2>4, <2>5
<1>5. /\ depth \in Int /\ depth >= -MaxIgnored /\ depth <= MaxNesting + 2
      /\ ignored \in Nat /\ ignored <= MaxIgnored /\ MaxIgnored \in Nat /\ MaxNesting \in Nat
      /\ executed \in Nat /\ state \in States /\ Len(open) <= MaxNesting
      /\ depth <= Len(open) + 2 /\ depth + ignored >= Len(open)
      /\ AtAction => depth = 2 /\ state = "WAIT_PARAMS"
  BY <1>3, DocumentAssumption DEF IInv, TypeOK, DepthInv, AtAction, ActionDepth
<1>6. DepthInv'
  BY <1>2, <1>3, <1>4, <1>5 DEF DepthInv
<1>7. TypeOK'
  <2>1. depth' \in -MaxIgnored..MaxNesting + 2
    BY <1>2, <1>4, <1>5
  <2>2. executed' \in Nat /\ state' \in States
    BY <1>4, <1>5 DEF States
  <2>3. root' \in Names \cup {"none"} /\ ignored' \in 0..MaxIgnored
    BY <1>2, <1>3 DEF IInv, TypeOK
  <2>4. QED
    BY <1>2, <1>3, <1>4, <1>5, <2>1, <2>2, <2>3 DEF TypeOK
<1>8. RootInv'
  BY <1>2 DEF RootInv
<1>9. QueryInv'
  <2>1. SUFFICES ASSUME root = "query" PROVE QueryInv'
    BY <1>2 DEF QueryInv
  <2>2. ignored = 0 /\ executed <= 1 /\ state # "WAIT_ROOT_EL"
    BY <2>1 DEF IInv, QueryInv
  <2>3. /\ state = "READING_DATA" => depth = Len(open) /\ Len(open) <= 1
        /\ state = "WAIT_PARAMS" /\ depth = Len(open) => Len(open) >= 2
        /\ depth > Len(open) \/ state = "FINISHING" => replies # <<>>
        /\ state # "FINISHING" /\ depth = Len(open) => executed = 0
    BY <1>3, <2>1 DEF IInv, QueryInv
  <2>4. CASE Counted
    <3>1. state = "WAIT_PARAMS" => depth # 2
      BY <2>4 DEF AtAction, ActionDepth
    <3>2. QED
      BY <1>2, <1>3, <1>5, <2>2, <2>3, <2>4, <3>1 DEF QueryInv
  <2>5. CASE Finished \/ Failed
    <3>1. Len(open) = 2 /\ executed = 0
      BY <1>1, <2>1, <2>5, AtChildOfRoot
    <3>2. QED
      BY <1>2, <1>3, <1>5, <2>2, <2>5, <3>1 DEF QueryInv
  <2>6. CASE Refused
    BY <1>2, <1>3, <1>5, <2>2, <2>6 DEF QueryInv
  <2>7. QED
    BY <1>4, <2>4, <2>5, <2>6
<1>10. QED
  BY <1>4, <1>6, <1>7, <1>8, <1>9 DEF IInv

(* So do errors of the parser and the end of the input.  *)
LEMMA OtherIInv == ASSUME IInv, ParserError \/ EndOfInput \/ UNCHANGED vars PROVE IInv'
<1>1. CASE ParserError
  <2>1. /\ sd' \in {"open", "shut", "closed"} /\ replies' \in Seq({"result", "error"})
        /\ ReplyInv' /\ replies' # <<>>
    BY <1>1, Replying DEF ParserError, error, IInv
  <2>2. QED
    BY <1>1, <2>1 DEF ParserError, document, IInv, TypeOK, DepthInv, RootInv, QueryInv
<1>2. CASE EndOfInput
  BY <1>2 DEF EndOfInput, document, IInv, TypeOK, ReplyInv, DepthInv, RootInv, QueryInv
<1>3. CASE UNCHANGED vars
  BY <1>3 DEF vars, document, IInv, TypeOK, ReplyInv, DepthInv, RootInv, QueryInv
<1>4. QED
  BY <1>1, <1>2, <1>3

(* The invariant holds in every reachable state.  *)
LEMMA Invariance == Spec => []IInv
<1>1. "query" \in Names
  BY DEF Names
<1>2. IInv /\ [Next]_vars => IInv'
  BY <1>1, StartIInv, EndIInv, OtherIInv DEF Next
<1>3. QED
  BY InitIInv, <1>2, PTL DEF Spec

-----------------------------------------------------------------------------
(* The variables keep their types; the depth leaves its range neither       *)
(* upwards nor downwards.                                                   *)
THEOREM TypeCorrect == Spec => []TypeOK
<1>1. IInv => TypeOK
  BY DEF IInv
<1>2. QED
  BY <1>1, Invariance, PTL

(* A document with the root <query> executes at most one command, however   *)
(* it is nested and whatever the command's outcome.                         *)
THEOREM OneCommand == Spec => []AtMostOneCommand
<1>1. IInv => AtMostOneCommand
  BY DEF IInv, QueryInv, AtMostOneCommand
<1>2. QED
  BY <1>1, Invariance, PTL

(* The client receives at most one reply to any document.                   *)
THEOREM OneReply == Spec => []AtMostOneReply
<1>1. IInv => AtMostOneReply
  BY DEF IInv, ReplyInv, AtMostOneReply
<1>2. QED
  BY <1>1, Invariance, PTL

(* A complete document with the root <query> and an action is answered.     *)
THEOREM QueryIsAnswered == Spec => []QueryAnswered
<1>1. ASSUME IInv, parser = "on", open = <<>>, root = "query",
             state \in {"WAIT_PARAMS", "FINISHING"}
      PROVE  replies # <<>>
  <2>1. Len(open) = 0
    BY <1>1
  <2>2. depth \in Int /\ depth >= 0
    BY <1>1, <2>1 DEF IInv, TypeOK, DepthInv, QueryInv
  <2>3. QED
    BY <1>1, <2>1, <2>2 DEF IInv, QueryInv
<1>2. IInv => QueryAnswered
  BY <1>1 DEF QueryAnswered
<1>3. QED
  BY <1>2, Invariance, PTL

(* In a document with the root <query> only a child of the root is executed. *)
THEOREM OnlyChildrenOfRoot == Spec => CommandIsChildOfRoot
<1>1. ASSUME IInv, [Next]_vars, executed' > executed, root = "query"
      PROVE  Len(open) = 2
  <2>1. executed \in Nat
    BY <1>1 DEF IInv, TypeOK
  <2>2. MayClose /\ AtAction /\ Name \in Commands
    BY <1>1, <2>1
       DEF Next, vars, StartRoot, StartElement, StartIgnored, StartAction, StartActionBare,
           StartInner, EndElement, ExecuteCommand, CommandThrows, CommandThrowsAndFails,
           RefuseCommand, ParserError, EndOfInput
  <2>3. QED
    BY <1>1, <2>2, AtChildOfRoot
<1>2. IInv /\ [Next]_vars => (executed' > executed /\ root = "query" => Len(open) = 2)
  BY <1>1
<1>3. IInv /\ [Next]_vars => [executed' > executed /\ root = "query" => Len(open) = 2]_vars
  BY <1>2
<1>4. QED
  BY <1>3, Invariance, PTL DEF Spec, CommandIsChildOfRoot
=============================================================================
