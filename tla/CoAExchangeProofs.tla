-------------------------- MODULE CoAExchangeProofs --------------------------
(* Proofs of the safety of CoAExchange for any number of dispatchers and of *)
(* identifiers.                                                             *)
EXTENDS CoAExchange, TLAPS

(* The mutex is held in the two steps that use the sequence, whose value    *)
(* the holder has read; before them a worker has still to draw.             *)
MutexInv ==
  \A w \in Workers :
    /\ mutex = w <=> pc[w] \in {"draw", "advance"}
    /\ pc[w] = "advance" => temp[w] = sequence
    /\ pc[w] \in {"idle", "number", "draw", "advance"} => draws[w] # 0
    /\ draws[w] = 2 <=> since[w] = 0
    /\ pc[w] = "idle" => draws[w] = 2

(* What says "ack" comes from a NAS that has executed the command.          *)
AckInv ==
  \A w \in Workers :
    /\ replies[w]["ack"] > 0 => w \in executed
    /\ pc[w] = "ack" => w \in executed
    /\ pc[w] # "wait" => replies[w] = NoReply

(* The identifier of a worker is the sequence as it was since[w] draws ago, *)
(* and no two workers drew at once.                                         *)
NumberInv ==
  /\ \A w \in Workers : since[w] \in 1..IdSpace
                         => requestId[w] = (sequence - since[w]) % IdSpace
  /\ \A v, w \in Workers : v # w /\ since[v] \in 1..IdSpace => since[v] # since[w]

IInv == TypeOK /\ MutexInv /\ AckInv /\ AckedMeansDone

-----------------------------------------------------------------------------
(* The quotient and the remainder.                                          *)
LEMMA DivMod ==
  ASSUME NEW n \in Int, n > 0, NEW a \in Int
  PROVE  a % n = a - (a \div n) * n /\ a \div n \in Int
BY SMTT(20)

(* Two numbers less than n apart differ modulo n.                           *)
LEMMA ModDistinct ==
  ASSUME NEW n \in Int, n > 0, NEW a \in Int, NEW b \in Int, a < b, b < a + n
  PROVE  a % n # b % n
<1> SUFFICES ASSUME a % n = b % n PROVE FALSE
  OBVIOUS
<1> DEFINE p == a \div n
           q == b \div n
<1>1. a % n = a - p * n /\ b % n = b - q * n /\ p \in Int /\ q \in Int
  BY DivMod
<1> HIDE DEF p, q
<1>2. b - a = (q - p) * n
  BY <1>1
<1>3. (q - p) * n > 0 /\ (q - p) * n < n
  BY <1>2
<1>4. q - p >= 1
  BY <1>1, <1>3
<1>5. QED
  BY <1>1, <1>3, <1>4

(* Remainders are identifiers, also that of the next number.                *)
LEMMA ModRange == ASSUME NEW a \in Int PROVE a % IdSpace \in 0..IdSpace - 1
BY CoAAssumption

(* Taking the remainder of a summand first does not change the remainder.   *)
LEMMA ModMod ==
  ASSUME NEW a \in Int, NEW k \in Int PROVE ((a % IdSpace) - k) % IdSpace = (a - k) % IdSpace
<1>0. IdSpace \in Int /\ IdSpace > 0
  BY CoAAssumption
<1> DEFINE p == a \div IdSpace
           r == a % IdSpace
           x == r - k
           y == a - k
           f == x \div IdSpace
           g == y \div IdSpace
<1>1. r = a - p * IdSpace /\ p \in Int /\ r \in Int
  BY <1>0, DivMod
<1>2. x \in Int /\ y \in Int /\ y = x + p * IdSpace
  BY <1>0, <1>1
<1> HIDE DEF p, r
<1>3. /\ x % IdSpace = x - f * IdSpace /\ f \in Int
      /\ y % IdSpace = y - g * IdSpace /\ g \in Int
  BY <1>0, <1>2, DivMod
<1>4. x % IdSpace \in 0..IdSpace - 1 /\ y % IdSpace \in 0..IdSpace - 1
  BY <1>0, <1>2, ModRange
<1> HIDE DEF x, y, f, g
<1>5. (x % IdSpace) - (y % IdSpace) = (g - f - p) * IdSpace
  BY <1>0, <1>1, <1>2, <1>3
<1> DEFINE m == g - f - p
<1>6. m \in Int /\ (x % IdSpace) - (y % IdSpace) = m * IdSpace
  BY <1>1, <1>3, <1>5
<1> HIDE DEF m
<1>7. m < 1 /\ m > -1
  BY <1>0, <1>4, <1>6
<1>8. m = 0
  BY <1>6, <1>7
<1>9. x % IdSpace = y % IdSpace
  BY <1>0, <1>4, <1>6, <1>8
<1>10. QED
  BY <1>9 DEF x, y, r

(* The step of the sequence keeps its distance to an earlier value.         *)
LEMMA ModStep ==
  ASSUME NEW s \in Int, NEW k \in Int
  PROVE  (((s + 1) % IdSpace) - (k + 1)) % IdSpace = (s - k) % IdSpace
<1> DEFINE a == s + 1
           b == k + 1
<1>1. a \in Int /\ b \in Int /\ a - b = s - k
  OBVIOUS
<1> HIDE DEF a, b
<1>2. ((a % IdSpace) - b) % IdSpace = (a - b) % IdSpace
  BY <1>1, ModMod
<1>3. QED
  BY <1>1, <1>2 DEF a, b

-----------------------------------------------------------------------------
(* The invariant holds initially.  *)
LEMMA InitIInv == Init => IInv
BY CoAAssumption
   DEF Init, IInv, TypeOK, MutexInv, AckInv, AckedMeansDone, PCs, NoReply, Codes

(* The wait ends, the socket is closed; only an executed command has "ack". *)
LEMMA WaitEnds ==
  ASSUME IInv, NEW w \in Workers, NEW to \in {"ack", "nak", "odd", "empty", "done", "stuck"},
         to = "ack" => w \in executed,
         Go(w, "wait", to), Close(w),
         UNCHANGED <<cmd, numberVars, requests, told, executed>>
  PROVE  IInv'
<1>1. /\ TypeOK /\ MutexInv /\ AckInv /\ AckedMeansDone
      /\ cmd' = cmd /\ mutex' = mutex /\ sequence' = sequence /\ temp' = temp
      /\ draws' = draws /\ requestId' = requestId /\ since' = since
      /\ requests' = requests /\ told' = told /\ executed' = executed
  BY DEF IInv, numberVars
<1>2. pc[w] = "wait" /\ pc' = [pc EXCEPT ![w] = to]
  BY DEF Go
<1>3. replies' = [replies EXCEPT ![w] = NoReply]
  BY DEF Close
<1>4. pc \in [Workers -> PCs] /\ replies \in [Workers -> [Codes -> 0..MaxCopies]]
  BY <1>1 DEF TypeOK
<1>5. /\ to \in PCs /\ NoReply \in [Codes -> 0..MaxCopies]
      /\ "ack" \in Codes /\ ~(NoReply["ack"] > 0)
  BY CoAAssumption DEF PCs, NoReply, Codes
<1>6. /\ pc' \in [Workers -> PCs] /\ replies' \in [Workers -> [Codes -> 0..MaxCopies]]
      /\ pc'[w] = to /\ replies'[w] = NoReply
      /\ \A v \in Workers \ {w} : pc'[v] = pc[v] /\ replies'[v] = replies[v]
  BY <1>2, <1>3, <1>4, <1>5, Zenon
<1>7. TypeOK'
  BY <1>1, <1>6 DEF TypeOK
<1>8. MutexInv'
  <2> SUFFICES ASSUME NEW v \in Workers
               PROVE  /\ mutex = v <=> pc'[v] \in {"draw", "advance"}
                      /\ pc'[v] = "advance" => temp[v] = sequence
                      /\ pc'[v] \in {"idle", "number", "draw", "advance"} => draws[v] # 0
                      /\ draws[v] = 2 <=> since[v] = 0
                      /\ pc'[v] = "idle" => draws[v] = 2
    BY <1>1 DEF MutexInv
  <2>1. CASE v = w
    BY <1>1, <1>2, <1>6, <2>1 DEF MutexInv
  <2>2. CASE v # w
    BY <1>1, <1>6, <2>2 DEF MutexInv
  <2>3. QED
    BY <2>1, <2>2
<1>9. AckInv'
  <2> SUFFICES ASSUME NEW v \in Workers
               PROVE  /\ replies'[v]["ack"] > 0 => v \in executed
                      /\ pc'[v] = "ack" => v \in executed
                      /\ pc'[v] # "wait" => replies'[v] = NoReply
    BY <1>1 DEF AckInv
  <2>1. CASE v = w
    BY <1>5, <1>6, <2>1
  <2>2. CASE v # w
    BY <1>1, <1>6, <2>2 DEF AckInv
  <2>3. QED
    BY <2>1, <2>2
<1>10. AckedMeansDone'
  BY <1>1 DEF AckedMeansDone
<1>11. QED
  BY <1>7, <1>8, <1>9, <1>10 DEF IInv

LEMMA ReplyRead == ASSUME IInv, NEW w \in Workers, NEW c \in Codes, ReadReply(w, c) PROVE IInv'
<1>1. replies[w][c] > 0 /\ Go(w, "wait", After(w, c))
  BY DEF ReadReply
<1>2. /\ After(w, c) \in {"ack", "nak", "odd", "empty", "done", "stuck"}
      /\ After(w, c) = "ack" => c = "ack"
  BY DEF After, Codes
<1>3. After(w, c) = "ack" => w \in executed
  BY <1>1, <1>2 DEF IInv, AckInv
<1>4. Close(w) /\ UNCHANGED <<cmd, numberVars, requests, told, executed>>
  BY DEF ReadReply
<1>5. QED
  BY <1>1, <1>2, <1>3, <1>4, WaitEnds

LEMMA FailureIsNoAck ==
  ASSUME NEW w
  PROVE  /\ After(w, Failure) \in {"ack", "nak", "odd", "empty", "done", "stuck"}
         /\ After(w, Failure) # "ack"
BY DEF After, Failure

LEMMA SeveralRead == ASSUME IInv, NEW w \in Workers, ReadSeveral(w) PROVE IInv'
<1>1. Close(w) /\ UNCHANGED <<cmd, numberVars, requests, told, executed>>
  BY DEF ReadSeveral
<1>2. CASE Go(w, "wait", After(w, Failure))
  BY <1>1, <1>2, FailureIsNoAck, WaitEnds
<1>3. CASE Go(w, "wait", "stuck")
  BY <1>1, <1>3, WaitEnds
<1>4. QED
  BY <1>2, <1>3 DEF ReadSeveral

LEMMA ReadGivenUp == ASSUME IInv, NEW w \in Workers, ReadFails(w) PROVE IInv'
<1>1. /\ Go(w, "wait", After(w, Failure))
      /\ Close(w) /\ UNCHANGED <<cmd, numberVars, requests, told, executed>>
  BY DEF ReadFails
<1>2. QED
  BY <1>1, FailureIsNoAck, WaitEnds

(* Every step of a worker preserves the invariant.  *)
LEMMA StepIInv == ASSUME IInv, NEW w \in Workers, Step(w) PROVE IInv'
<1> USE CoAAssumption
    DEF IInv, TypeOK, MutexInv, AckInv, AckedMeansDone, Go, PCs, Codes, NoReply, numberVars, netVars
<1>1. CASE Begin(w)
  BY <1>1 DEF Begin
<1>2. CASE LockForId(w)
  BY <1>2 DEF LockForId, Lock
<1>3. CASE ReadSequence(w)
  BY <1>3 DEF ReadSequence
<1>4. CASE AdvanceSequence(w)
  <2>1. (temp[w] + 1) % IdSpace \in 0..IdSpace - 1 /\ 0 \in 0..IdSpace - 1
    BY ModRange
  <2>2. \A k \in 0..IdSpace + 1 : Counted(k) \in 0..IdSpace + 1 /\ (Counted(k) = 0 <=> k = 0)
    BY DEF Counted
  <2>3. since' \in [Workers -> 0..IdSpace + 1]
    BY <1>4, <2>2 DEF AdvanceSequence
  <2>4. TypeOK'
    BY <1>4, <2>1, <2>3 DEF AdvanceSequence
  <2>5. MutexInv'
    BY <1>4, <2>2, <2>3 DEF AdvanceSequence
  <2>6. AckInv' /\ AckedMeansDone'
    BY <1>4 DEF AdvanceSequence
  <2>7. QED
    BY <2>4, <2>5, <2>6
<1>5. CASE AnswerLogout(w)
  BY <1>5 DEF AnswerLogout
<1>6. CASE WakeUp(w)
  BY <1>6 DEF WakeUp
<1>7. CASE BuildRequest(w)
  BY <1>7 DEF BuildRequest
<1>8. CASE SendRequest(w)
  BY <1>8 DEF SendRequest
<1>9. CASE SendFails(w)
  BY <1>9 DEF SendFails, After, Failure
<1>10. ASSUME NEW c \in Codes, ReadReply(w, c) PROVE IInv'
  BY <1>10, ReplyRead
<1>11. CASE ReadFails(w)
  BY <1>11, ReadGivenUp
<1>12. CASE Answer(w)
  BY <1>12 DEF Answer, Told
<1>13. CASE ReadSeveral(w)
  BY <1>13, SeveralRead
<1>14. CASE Again(w)
  BY <1>14 DEF Again
<1>15. QED
  BY <1>1, <1>2, <1>3, <1>4, <1>5, <1>6, <1>7, <1>8, <1>9, <1>10, <1>11, <1>12,
     <1>13, <1>14 DEF Step

(* So does every step of the NAS and of the network.  *)
LEMMA OtherIInv ==
  ASSUME IInv, (\E w \in Workers : Executes(w) \/ Refuses(w)) \/ Lose \/ UNCHANGED vars
  PROVE  IInv'
<1> USE CoAAssumption
    DEF IInv, TypeOK, MutexInv, AckInv, AckedMeansDone, PCs, Codes, NoReply, numberVars, netVars
<1> DEFINE Same == UNCHANGED <<pc, cmd, mutex, sequence, temp, draws, requestId, since, told>>
<1>1. ASSUME NEW w \in Workers, Executes(w) PROVE IInv'
  <2>1. requests' \subseteq Workers /\ executed' = executed \cup {w} /\ Same
    BY <1>1 DEF Executes, Receives
  <2>2. \/ UNCHANGED replies
        \/ pc[w] = "wait" /\ replies[w]["ack"] < MaxCopies
           /\ replies' = [replies EXCEPT ![w]["ack"] = @ + 1]
    BY <1>1 DEF Executes, Reply
  <2>3. replies' \in [Workers -> [Codes -> 0..MaxCopies]]
    BY <2>2
  <2>4. \A v \in Workers : v # w \/ pc[w] # "wait" => replies'[v] = replies[v]
    BY <2>2
  <2>5. TypeOK' /\ MutexInv' /\ AckedMeansDone'
    BY <2>1, <2>3
  <2>6. AckInv'
    BY <2>1, <2>4
  <2>7. QED
    BY <2>5, <2>6
<1>2. ASSUME NEW w \in Workers, Refuses(w) PROVE IInv'
  <2>1. requests' \subseteq Workers /\ UNCHANGED executed /\ Same
    BY <1>2 DEF Refuses, Receives
  <2>2. PICK c \in {"nak", "odd"} :
        \/ UNCHANGED replies
        \/ pc[w] = "wait" /\ replies[w][c] < MaxCopies
           /\ replies' = [replies EXCEPT ![w][c] = @ + 1]
    BY <1>2 DEF Refuses, Reply
  <2>3. replies' \in [Workers -> [Codes -> 0..MaxCopies]]
    BY <2>2
  <2>4. /\ \A v \in Workers : v # w \/ pc[w] # "wait" => replies'[v] = replies[v]
        /\ replies'[w]["ack"] = replies[w]["ack"]
    BY <2>2
  <2>5. TypeOK' /\ MutexInv' /\ AckedMeansDone'
    BY <2>1, <2>3
  <2>6. AckInv'
    BY <2>1, <2>4
  <2>7. QED
    BY <2>5, <2>6
<1>3. CASE Lose
  <2>1. CASE \E w \in requests : requests' = requests \ {w} /\ UNCHANGED replies
    BY <1>3, <2>1 DEF Lose
  <2>2. ASSUME NEW w \in Workers, NEW c \in Codes, replies[w][c] > 0,
               replies' = [replies EXCEPT ![w][c] = @ - 1], UNCHANGED requests
        PROVE  IInv'
    <3>1. Same /\ UNCHANGED executed
      BY <1>3 DEF Lose
    <3>2. replies' \in [Workers -> [Codes -> 0..MaxCopies]]
      BY <2>2
    <3>3. /\ \A v \in Workers : v # w => replies'[v] = replies[v]
          /\ replies'[w]["ack"] > 0 => replies[w]["ack"] > 0
          /\ replies[w] # NoReply
      BY <2>2
    <3>4. TypeOK' /\ MutexInv' /\ AckedMeansDone'
      BY <2>2, <3>1, <3>2
    <3>5. AckInv'
      BY <3>1, <3>3
    <3>6. QED
      BY <3>4, <3>5
  <2>3. QED
    BY <1>3, <2>1, <2>2 DEF Lose
<1>4. CASE UNCHANGED vars
  BY <1>4 DEF vars
<1>5. QED
  BY <1>1, <1>2, <1>3, <1>4

(* The invariant holds in every reachable state.  *)
LEMMA Invariance == Spec => []IInv
<1>1. IInv /\ [Next]_vars => IInv'
  BY StepIInv, OtherIInv DEF Next
<1>2. QED
  BY InitIInv, <1>1, PTL DEF Spec

-----------------------------------------------------------------------------
(* Nothing is drawn initially.  *)
LEMMA InitNumber == Init => NumberInv
BY CoAAssumption DEF Init, NumberInv

(* A draw moves the sequence and all counts on by one.  *)
LEMMA AdvanceNumber ==
  ASSUME IInv, NumberInv, NEW w \in Workers, AdvanceSequence(w)
  PROVE  NumberInv'
<1>1. /\ temp[w] = sequence /\ sequence \in 0..IdSpace - 1
      /\ draws[w] \in {1, 2} /\ requestId \in [Workers -> 0..IdSpace - 1]
      /\ since \in [Workers -> 0..IdSpace + 1]
      /\ draws[w] = 2 <=> since[w] = 0
      /\ IdSpace \in Nat /\ IdSpace > 0
  BY CoAAssumption DEF AdvanceSequence, Go, IInv, MutexInv, TypeOK
<1>2. /\ sequence' = (sequence + 1) % IdSpace
      /\ requestId' = [requestId EXCEPT ![w] = IF draws[w] = 2 THEN sequence ELSE @]
      /\ since' = [v \in Workers |-> IF v = w /\ draws[w] = 2 THEN 1 ELSE Counted(since[v])]
  BY <1>1 DEF AdvanceSequence
<1>3. /\ \A v \in Workers : since[v] \in 1..IdSpace
                           => requestId[v] = (sequence - since[v]) % IdSpace
      /\ \A u, v \in Workers : u # v /\ since[u] \in 1..IdSpace => since[u] # since[v]
  BY DEF NumberInv
<1>4. ASSUME NEW v \in Workers, ~(v = w /\ draws[w] = 2), since'[v] \in 1..IdSpace
      PROVE  since[v] \in 1..IdSpace - 1 /\ since'[v] = since[v] + 1
             /\ requestId'[v] = requestId[v]
  BY <1>1, <1>2, <1>4 DEF Counted
<1>5. ASSUME NEW v \in Workers, since'[v] \in 1..IdSpace
      PROVE  requestId'[v] = (sequence' - since'[v]) % IdSpace
  <2>1. CASE v = w /\ draws[w] = 2
    <3>1. requestId'[v] = sequence /\ since'[v] = 1
      BY <1>1, <1>2, <2>1
    <3>2. sequence \in Int /\ 0 \in Int
      BY <1>1
    <3>3. (((sequence + 1) % IdSpace) - (0 + 1)) % IdSpace = (sequence - 0) % IdSpace
      BY <3>2, ModStep
    <3>4. (sequence - 0) % IdSpace = sequence /\ 0 + 1 = 1
      BY <1>1
    <3>5. QED
      BY <1>2, <3>1, <3>3, <3>4
  <2>2. CASE ~(v = w /\ draws[w] = 2)
    <3>1. since[v] \in 1..IdSpace - 1 /\ since'[v] = since[v] + 1 /\ requestId'[v] = requestId[v]
      BY <1>4, <1>5, <2>2
    <3>2. requestId[v] = (sequence - since[v]) % IdSpace
      BY <1>1, <1>3, <3>1
    <3>3. sequence \in Int /\ since[v] \in Int
      BY <1>1, <3>1
    <3>4. (((sequence + 1) % IdSpace) - (since[v] + 1)) % IdSpace = (sequence - since[v]) % IdSpace
      BY <3>3, ModStep
    <3>5. QED
      BY <1>2, <3>1, <3>2, <3>4
  <2>3. QED
    BY <2>1, <2>2
<1>6. ASSUME NEW u \in Workers, NEW v \in Workers, u # v, since'[u] \in 1..IdSpace
      PROVE  since'[u] # since'[v]
  <2>1. SUFFICES ASSUME since'[u] = since'[v] PROVE FALSE
    OBVIOUS
  <2>2. since'[v] \in 1..IdSpace
    BY <1>6, <2>1
  <2>3. CASE u = w /\ draws[w] = 2
    BY <1>1, <1>2, <1>4, <1>6, <2>1, <2>2, <2>3
  <2>4. CASE v = w /\ draws[w] = 2
    BY <1>1, <1>2, <1>4, <1>6, <2>1, <2>2, <2>4
  <2>5. CASE ~(u = w /\ draws[w] = 2) /\ ~(v = w /\ draws[w] = 2)
    BY <1>1, <1>3, <1>4, <1>6, <2>1, <2>2, <2>5
  <2>6. QED
    BY <2>3, <2>4, <2>5
<1>7. QED
  BY <1>5, <1>6 DEF NumberInv

(* No other step draws; a new command has no identifier.  *)
LEMMA StepNumber ==
  ASSUME IInv, NumberInv, [Next]_vars
  PROVE  NumberInv'
<1>1. ASSUME NEW w \in Workers, AdvanceSequence(w) PROVE NumberInv'
  BY <1>1, AdvanceNumber
<1>2. CASE UNCHANGED <<sequence, requestId, since>>
  BY <1>2 DEF NumberInv
<1>3. ASSUME NEW w \in Workers, Again(w) PROVE NumberInv'
  <2>1. /\ UNCHANGED sequence
        /\ since \in [Workers -> 0..IdSpace + 1] /\ since' = [since EXCEPT ![w] = 0]
        /\ requestId \in [Workers -> 0..IdSpace - 1]
        /\ requestId' = [requestId EXCEPT ![w] = 0]
    BY <1>3 DEF Again, IInv, TypeOK
  <2>2. since'[w] = 0
    BY <2>1
  <2>3. \A v \in Workers : v # w => since'[v] = since[v] /\ requestId'[v] = requestId[v]
    BY <2>1
  <2>4. 0 \notin 1..IdSpace
    BY CoAAssumption
  <2>5. QED
    BY <2>1, <2>2, <2>3, <2>4 DEF NumberInv
<1>4. ASSUME NEW w \in Workers, Step(w), ~AdvanceSequence(w), ~Again(w)
      PROVE  UNCHANGED <<sequence, requestId, since>>
  BY <1>4
     DEF Step, Begin, LockForId, ReadSequence, AnswerLogout, WakeUp, BuildRequest,
         SendRequest, SendFails, ReadReply, ReadSeveral, ReadFails, Answer, numberVars
<1>5. ASSUME NEW w \in Workers, Executes(w) \/ Refuses(w)
      PROVE  UNCHANGED <<sequence, requestId, since>>
  BY <1>5 DEF Executes, Refuses, numberVars
<1>6. ASSUME Lose \/ UNCHANGED vars PROVE UNCHANGED <<sequence, requestId, since>>
  BY <1>6 DEF Lose, vars, numberVars
<1>7. QED
  BY <1>1, <1>2, <1>3, <1>4, <1>5, <1>6 DEF Next

(* Numbers drawn at most IdSpace draws ago lie less than IdSpace apart.  *)
LEMMA Distinct == NumberInv /\ IInv => RequestIdsDistinct
<1> SUFFICES ASSUME NumberInv, IInv, NEW v \in Workers, NEW w \in Workers, v # w,
                    since[v] \in 1..IdSpace, since[w] \in 1..IdSpace
             PROVE  requestId[v] # requestId[w]
  BY DEF RequestIdsDistinct
<1>1. /\ since[v] # since[w]
      /\ requestId[v] = (sequence - since[v]) % IdSpace
      /\ requestId[w] = (sequence - since[w]) % IdSpace
  BY DEF NumberInv
<1>2. sequence \in Int /\ IdSpace \in Int /\ IdSpace > 0 /\ since[v] \in Int /\ since[w] \in Int
  BY CoAAssumption DEF IInv, TypeOK
<1>3. \A a, b \in Int : a < b /\ b < a + IdSpace => a % IdSpace # b % IdSpace
  BY <1>2, ModDistinct
<1>4. sequence - since[v] \in Int /\ sequence - since[w] \in Int
  BY <1>2
<1>5. CASE since[v] < since[w]
  <2>1. /\ sequence - since[w] < sequence - since[v]
        /\ sequence - since[v] < sequence - since[w] + IdSpace
    BY <1>2, <1>5
  <2>2. QED
    BY <1>1, <1>3, <1>4, <2>1
<1>6. CASE since[w] < since[v]
  <2>1. /\ sequence - since[v] < sequence - since[w]
        /\ sequence - since[w] < sequence - since[v] + IdSpace
    BY <1>2, <1>6
  <2>2. QED
    BY <1>1, <1>3, <1>4, <2>1
<1>7. QED
  BY <1>1, <1>2, <1>5, <1>6

-----------------------------------------------------------------------------
(* The variables keep their types.                                          *)
THEOREM TypeCorrect == Spec => []TypeOK
<1>1. IInv => TypeOK
  BY DEF IInv
<1>2. QED
  BY <1>1, Invariance, PTL

(* A command other than isg_logout is reported as acknowledged only after   *)
(* the NAS has executed it, for any number of commands and any loss, delay  *)
(* and duplication.                                                         *)
THEOREM AckedIsDone == Spec => []AckedMeansDone
<1>1. IInv => AckedMeansDone
  BY DEF IInv
<1>2. QED
  BY <1>1, Invariance, PTL

(* The identifier of a command is given to no other before IdSpace numbers  *)
(* were drawn, however many commands begin, end and overlap meanwhile.      *)
THEOREM IdsAreDistinct == Spec => []RequestIdsDistinct
<1>1. Init => NumberInv
  BY InitNumber
<1>2. IInv /\ NumberInv /\ [Next]_vars => NumberInv'
  BY StepNumber
<1>3. Spec => []NumberInv
  BY <1>1, <1>2, Invariance, PTL DEF Spec
<1>4. QED
  BY <1>3, Invariance, Distinct, PTL
=============================================================================
