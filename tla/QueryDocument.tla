--------------------------- MODULE QueryDocument ---------------------------
(***************************************************************************)
(* How one connection's XML document drives its Dispatcher.  libxml2 calls *)
(* parserStartElement and parserEndElement for the elements of the         *)
(* document and parserError when it is not well formed; the callbacks keep *)
(* a state and a depth, and execute the command when the element at depth  *)
(* 2 ends.  A client is expected to send                                   *)
(*                                                                         *)
(*     <query><command name=value> <param name= value=/> </command></query> *)
(*                                                                         *)
(* but may send any document.  A command either succeeds, or throws: then  *)
(* the result of processQuery is an uninitialised bool.                    *)
(***************************************************************************)
EXTENDS Integers, Sequences

CONSTANTS
  Commands,    \* names processQuery knows
  Others,      \* element names it does not know
  MaxNesting,  \* bound on the nesting of elements
  MaxIgnored   \* bound on the start tags before <query>

Names == Commands \cup Others \cup {"query", "param"}

ASSUME DocumentAssumption ==
  /\ MaxNesting \in Nat /\ MaxIgnored \in Nat
  /\ Commands \cap ({"query", "param"} \cup Others) = {}
  /\ "none" \notin Names

VARIABLES
  parser,     \* "on", "off" (no more callbacks) or "crashed"
  open,       \* names of the open elements, outermost first
  root,       \* name of the root element, or "none"
  ignored,    \* start tags met before <query>
  state,      \* Dispatcher::_state
  depth,      \* Dispatcher::_depth
  sd,         \* the socket
  executed,   \* number of commands executed
  replies     \* replies the client receives
document == <<open, root, ignored>>
vars == <<parser, document, state, depth, sd, executed, replies>>

States == {"WAIT_ROOT_EL", "READING_DATA", "WAIT_PARAMS", "FINISHING"}

TypeOK ==
  /\ parser \in {"on", "off", "crashed"}
  /\ open \in Seq(Names) /\ Len(open) <= MaxNesting
  /\ root \in Names \cup {"none"}
  /\ ignored \in 0..MaxIgnored
  /\ state \in States
  /\ depth \in -MaxIgnored..MaxNesting + 2
  /\ sd \in {"open", "shut", "closed"}
  /\ executed \in Nat
  /\ replies \in Seq({"result", "error"})

Init ==
  /\ parser = "on"
  /\ open = <<>>
  /\ root = "none"
  /\ ignored = 0
  /\ state = "WAIT_ROOT_EL"
  /\ depth = 0
  /\ sd = "open"
  /\ executed = 0
  /\ replies = <<>>

-----------------------------------------------------------------------------
(* Replies.  sendString sends and shuts the socket down, error() sends and *)
(* closes it; what is sent on a socket already shut or closed is lost.     *)
(* The faulty variant of sendString does not shut down.                    *)

Deliver(text) == IF sd = "open" THEN Append(replies, text) ELSE replies

sendOnly(text) == replies' = Deliver(text) /\ UNCHANGED sd

sendString(text) == replies' = Deliver(text) /\ sd' = IF sd = "open" THEN "shut" ELSE sd

error == replies' = Deliver("error") /\ sd' = "closed"

-----------------------------------------------------------------------------
(* parserStartElement.                                                     *)

MayOpen(n) ==
  /\ parser = "on"
  /\ Len(open) < MaxNesting
  /\ open = <<>> => root = "none"
  /\ open' = Append(open, n)
  /\ root' = IF root = "none" THEN n ELSE root

StartIgnored(n) ==
  /\ MayOpen(n)
  /\ state = "WAIT_ROOT_EL"
  /\ n # "query"
  /\ ignored < MaxIgnored
  /\ ignored' = ignored + 1
  /\ UNCHANGED <<parser, state, depth, sd, executed, replies>>

StartRoot ==
  /\ MayOpen("query")
  /\ state = "WAIT_ROOT_EL"
  /\ state' = "READING_DATA"
  /\ depth' = depth + 1
  /\ UNCHANGED <<parser, ignored, sd, executed, replies>>

(* The element after <query>: its attributes become parameters.  libxml2   *)
(* passes a null list when there are none, and the loop dereferences it.   *)
StartAction(n) ==
  /\ MayOpen(n)
  /\ state = "READING_DATA"
  /\ state' = "WAIT_PARAMS"
  /\ depth' = depth + 1
  /\ UNCHANGED <<parser, ignored, sd, executed, replies>>

StartActionBare(n) ==
  /\ MayOpen(n)
  /\ state = "READING_DATA"
  /\ parser' = "crashed"
  /\ UNCHANGED <<ignored, state, depth, sd, executed, replies>>

StartInner(n) ==
  /\ MayOpen(n)
  /\ state \in {"WAIT_PARAMS", "FINISHING"}
  /\ depth' = depth + 1
  /\ UNCHANGED <<parser, ignored, state, sd, executed, replies>>

-----------------------------------------------------------------------------
(* parserEndElement.                                                       *)

ActionDepthLate == 3  \* faulty variant

ActionDepth == 2

StillWaiting == state' = state  \* faulty variant: the state is not advanced

Finishing == state' = "FINISHING"

MayClose ==
  /\ parser = "on"
  /\ open # <<>>
  /\ open' = SubSeq(open, 1, Len(open) - 1)
  /\ UNCHANGED <<parser, root, ignored>>

AtAction == depth = ActionDepth /\ state = "WAIT_PARAMS"

Name == open[Len(open)]

NoDecrement == depth' = depth  \* faulty variant

Decrement == depth' = depth - 1

EndElement ==
  /\ MayClose
  /\ ~AtAction
  /\ Decrement
  /\ UNCHANGED <<state, sd, executed, replies>>

(* processQuery returns true.                                              *)
ExecuteCommand ==
  /\ MayClose
  /\ AtAction
  /\ Name \in Commands
  /\ executed' = executed + 1
  /\ sendString("result")
  /\ Finishing
  /\ Decrement

(* The command threw and the uninitialised result happens to be true.      *)
CommandThrows ==
  /\ MayClose
  /\ AtAction
  /\ Name \in Commands
  /\ executed' = executed + 1
  /\ sendString("error")
  /\ Finishing
  /\ Decrement

(* It happens to be false: the error is reported again, on a socket that   *)
(* is shut down, and closed.                                               *)
CommandThrowsAndFails ==
  /\ MayClose
  /\ AtAction
  /\ Name \in Commands
  /\ executed' = executed + 1
  /\ replies' = Deliver("error")
  /\ sd' = "closed"
  /\ UNCHANGED <<state, depth>>

(* processQuery knows no such command: the handler returns before the      *)
(* decrement.  The faulty variant reports nothing.                         *)
RefuseSilently ==
  /\ MayClose
  /\ AtAction
  /\ Name \notin Commands
  /\ UNCHANGED <<state, depth, sd, executed, replies>>

RefuseCommand ==
  /\ MayClose
  /\ AtAction
  /\ Name \notin Commands
  /\ error
  /\ UNCHANGED <<state, depth, executed>>

-----------------------------------------------------------------------------
(* parserError: libxml2 stops calling back after a fatal error and goes on *)
(* after a recoverable one.                                                *)
ParserError ==
  /\ parser = "on"
  /\ error
  /\ parser' \in {"on", "off"}
  /\ UNCHANGED <<document, state, depth, executed>>

(* The loop of mainloop ends: the client went away, or the socket is shut  *)
(* or closed.  The rest of a chunk may be parsed before.                   *)
EndOfInput ==
  /\ parser = "on"
  /\ parser' = "off"
  /\ UNCHANGED <<document, state, depth, sd, executed, replies>>

StartElement(n) ==
  StartIgnored(n) \/ StartAction(n) \/ StartActionBare(n) \/ StartInner(n)

Next ==
  \/ StartRoot
  \/ \E n \in Names : StartElement(n)
  \/ EndElement \/ ExecuteCommand \/ CommandThrows \/ CommandThrowsAndFails
  \/ RefuseCommand \/ ParserError \/ EndOfInput

Spec == Init /\ [][Next]_vars

-----------------------------------------------------------------------------
(* A document with the root <query> executes at most one command, whether  *)
(* it succeeds, throws or is followed by others.  (parserEndElement; the   *)
(* parameters, the socket and _bi are good for one command only)           *)
AtMostOneCommand == root = "query" => executed <= 1

(* The client receives at most one reply: the command's, or one error.     *)
AtMostOneReply == Len(replies) <= 1

(* In a document with the root <query>, only a child of the root is ever   *)
(* executed, never a parameter or an element below it, though the depth    *)
(* is not restored after a refused element.                                *)
CommandIsChildOfRoot ==
  [][executed' > executed /\ root = "query" => Len(open) = 2]_vars

(* A complete document with the root <query> and an action element is      *)
(* always answered.                                                        *)
QueryAnswered ==
  parser = "on" /\ open = <<>> /\ root = "query"
    /\ state \in {"WAIT_PARAMS", "FINISHING"} => replies # <<>>
=============================================================================
