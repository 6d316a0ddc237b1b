----------------------------- MODULE CoAExchange -----------------------------
(***************************************************************************)
(* The isg_* commands (class DispatcherCOA): each sends one RADIUS CoA     *)
(* request over a UDP socket of its own (class RadClient), waits for one   *)
(* reply or two seconds, never sends again, and answers the client.        *)
(* isg_logout is the exception: it answers "CoA-ACK" first and sends a     *)
(* second later.  A worker is the thread of one dispatcher, which executes *)
(* one command; when it has ended, a later dispatcher takes its place.     *)
(*                                                                         *)
(* A request carries an identifier drawn from the sequence of the Listener *)
(* under its mutex.  Neither the identifier nor the authenticator of the   *)
(* reply is looked at: what is read from the socket is the reply, and all  *)
(* datagrams that are queued are read as one.  The                         *)
(* kernel delivers to a socket what was sent to it and to no earlier owner *)
(* of its port.  The network delays, loses and duplicates datagrams.       *)
(***************************************************************************)
EXTENDS Integers

CONSTANTS
  Workers,   \* dispatcher threads that execute isg_* commands at a time
  IdSpace,   \* number of RADIUS identifiers (256)
  MaxCopies  \* bound on the copies of a reply that are under way

ASSUME CoAAssumption ==
  /\ IdSpace \in Nat \ {0} /\ MaxCopies \in Nat
  /\ "free" \notin Workers

VARIABLES
  pc, cmd,    \* control state and command of each worker
  mutex,      \* holder of Listener::_mutex among the workers
  sequence,   \* Listener::_sequence, of which only the octet is ever used
  temp,       \* the local of getNextId (0 outside)
  draws,      \* packets each worker has still to number
  requestId,  \* identifier of each request
  since,      \* history: numbers drawn since a worker drew its identifier,
              \* its own included (0: has none, IdSpace + 1: more than IdSpace)
  requests,   \* workers whose request is on its way to the NAS
  replies,    \* copies of each reply on their way, or queued by a socket
  told,       \* what each client was told
  executed    \* workers whose command the NAS has executed

numberVars == <<mutex, sequence, temp, draws, requestId, since>>
netVars    == <<requests, replies>>
vars == <<pc, cmd, numberVars, netVars, told, executed>>

PCs   == {"idle", "number", "draw", "advance", "build", "sleep", "send",
          "wait", "ack", "nak", "odd", "empty", "done", "stuck"}
Codes == {"ack", "nak", "odd"}  \* "odd": a code the dictionary does not name

NoReply == [c \in Codes |-> 0]

TypeOK ==
  /\ pc \in [Workers -> PCs]
  /\ cmd \in [Workers -> {"logout", "other"}]
  /\ mutex \in Workers \cup {"free"}
  /\ sequence \in 0..IdSpace - 1
  /\ temp \in [Workers -> 0..IdSpace - 1]
  /\ draws \in [Workers -> 0..2]
  /\ requestId \in [Workers -> 0..IdSpace - 1]
  /\ since \in [Workers -> 0..IdSpace + 1]
  /\ requests \subseteq Workers
  /\ replies \in [Workers -> [Codes -> 0..MaxCopies]]
  /\ told \in [Workers -> {"nothing", "ack", "nak", "empty", "error"}]
  /\ executed \subseteq Workers

(* The daemon may have been running: the sequence starts anywhere.         *)
Init ==
  /\ pc = [w \in Workers |-> "idle"]
  /\ cmd \in [Workers -> {"logout", "other"}]
  /\ mutex = "free"
  /\ sequence \in 0..IdSpace - 1
  /\ temp = [w \in Workers |-> 0]
  /\ draws = [w \in Workers |-> 2]
  /\ requestId = [w \in Workers |-> 0]
  /\ since = [w \in Workers |-> 0]
  /\ requests = {}
  /\ replies = [w \in Workers |-> NoReply]
  /\ told = [w \in Workers |-> "nothing"]
  /\ executed = {}

Go(w, from, to) == pc[w] = from /\ pc' = [pc EXCEPT ![w] = to]

-----------------------------------------------------------------------------
(* genRadiusPacket is called for the request and for the reply: two draws  *)
(* of getNextId, of which the first numbers the request.                   *)

NoLock(w) == mutex' = w  \* faulty variant: does not wait for the holder

Lock(w) == mutex = "free" /\ mutex' = w

Begin(w) ==
  /\ Go(w, "idle", "number")
  /\ UNCHANGED <<cmd, numberVars, netVars, told, executed>>

LockForId(w) ==
  /\ Go(w, "number", "draw")
  /\ Lock(w)
  /\ UNCHANGED <<cmd, sequence, temp, draws, requestId, since, netVars, told, executed>>

ReadSequence(w) ==
  /\ Go(w, "draw", "advance")
  /\ temp' = [temp EXCEPT ![w] = sequence]
  /\ UNCHANGED <<cmd, mutex, sequence, draws, requestId, since, netVars, told, executed>>

(* The request is numbered by the first draw; the second is the reply's.   *)
Counted(k) == IF k = 0 \/ k > IdSpace THEN k ELSE k + 1

AdvanceSequence(w) ==
  /\ Go(w, "advance", IF draws[w] = 2 THEN "number" ELSE "build")
  /\ sequence' = (temp[w] + 1) % IdSpace
  /\ temp' = [temp EXCEPT ![w] = 0]
  /\ draws' = [draws EXCEPT ![w] = @ - 1]
  /\ requestId' = [requestId EXCEPT ![w] = IF draws[w] = 2 THEN temp[w] ELSE @]
  /\ since' = [v \in Workers |-> IF v = w /\ draws[w] = 2 THEN 1 ELSE Counted(since[v])]
  /\ mutex' = "free"
  /\ UNCHANGED <<cmd, netVars, told, executed>>

-----------------------------------------------------------------------------
(* The exchange.                                                           *)

(* What the client is told of the outcome of an exchange; wrapRadiusPacket *)
(* dumps the packet, which throws for a code without a name (not in the    *)
(* faulty variant).                                                        *)
ToldVerbatim(outcome) == outcome

Told(outcome) == IF outcome = "odd" THEN "error" ELSE outcome

(* After the exchange the outcome is answered; isg_logout has answered.    *)
After(w, outcome) == IF cmd[w] = "logout" THEN "done" ELSE outcome

(* isg_logout: sendResult with CODE=CoA-ACK, then select() for a second.   *)
AnswerLogout(w) ==
  /\ cmd[w] = "logout"
  /\ Go(w, "build", "sleep")
  /\ told' = [told EXCEPT ![w] = "ack"]
  /\ UNCHANGED <<cmd, numberVars, netVars, executed>>

WakeUp(w) ==
  /\ Go(w, "sleep", "send")
  /\ UNCHANGED <<cmd, numberVars, netVars, told, executed>>

BuildRequest(w) ==
  /\ cmd[w] # "logout"
  /\ Go(w, "build", "send")
  /\ UNCHANGED <<cmd, numberVars, netVars, told, executed>>

SendRequest(w) ==
  /\ Go(w, "send", "wait")
  /\ requests' = requests \cup {w}
  /\ UNCHANGED <<cmd, numberVars, replies, told, executed>>

(* What an exchange that failed leaves; in the faulty variant the caller   *)
(* does not test for -1.                                                   *)
FailureIgnored == "ack"

Failure == "empty"

SendFails(w) ==
  /\ Go(w, "send", After(w, Failure))
  /\ UNCHANGED <<cmd, numberVars, netVars, told, executed>>

(* The end of the wait closes the socket, and what was sent to it is lost. *)
Close(w) == replies' = [replies EXCEPT ![w] = NoReply]

ReadReply(w, c) ==
  /\ replies[w][c] > 0
  /\ Go(w, "wait", After(w, c))
  /\ Close(w)
  /\ UNCHANGED <<cmd, numberVars, requests, told, executed>>

(* Several replies are queued and read as one packet.  The first is found  *)
(* at its front; behind it unpack() reads the header of the next one as    *)
(* attributes, which may end well, throw, or keep the loop in its place    *)
(* for ever.                                                               *)
Several(w) ==
  \/ \E c \in Codes : replies[w][c] > 1
  \/ \E c, d \in Codes : c # d /\ replies[w][c] > 0 /\ replies[w][d] > 0

ReadSeveral(w) ==
  /\ Several(w)
  /\ \/ Go(w, "wait", After(w, Failure))
     \/ Go(w, "wait", "stuck")
  /\ Close(w)
  /\ UNCHANGED <<cmd, numberVars, requests, told, executed>>

(* select() ends after two seconds, or at once by a signal or an ICMP      *)
(* error; or the reply cannot be unpacked.  The faulty variant waits for   *)
(* a reply only.                                                           *)
WaitForEver(w) == replies[w]["ack"] > 0

GivesUp(w) == pc[w] = "wait"

ReadFails(w) ==
  /\ GivesUp(w)
  /\ Go(w, "wait", After(w, Failure))
  /\ Close(w)
  /\ UNCHANGED <<cmd, numberVars, requests, told, executed>>

Answer(w) ==
  /\ pc[w] \in Codes \cup {"empty"}
  /\ told' = [told EXCEPT ![w] = Told(pc[w])]
  /\ pc' = [pc EXCEPT ![w] = "done"]
  /\ UNCHANGED <<cmd, numberVars, netVars, executed>>

(* The thread ends and that of a new dispatcher takes its place in the     *)
(* model.  Copies of the old request may still reach the NAS; nobody hears *)
(* of it.                                                                  *)
Again(w) ==
  /\ Go(w, "done", "idle")
  /\ \E c \in {"logout", "other"} : cmd' = [cmd EXCEPT ![w] = c]
  /\ draws' = [draws EXCEPT ![w] = 2]
  /\ requestId' = [requestId EXCEPT ![w] = 0]
  /\ since' = [since EXCEPT ![w] = 0]
  /\ requests' = requests \ {w}
  /\ told' = [told EXCEPT ![w] = "nothing"]
  /\ executed' = executed \ {w}
  /\ UNCHANGED <<mutex, sequence, temp, replies>>

-----------------------------------------------------------------------------
(* The NAS and the network.                                                *)

(* A copy of the request may still be on its way: the network duplicates.  *)
Receives(w) == w \in requests /\ requests' \in {requests, requests \ {w}}

Reply(w, code) ==
  replies' = IF pc[w] = "wait" /\ replies[w][code] < MaxCopies
             THEN [replies EXCEPT ![w][code] = @ + 1] ELSE replies

Executes(w) ==
  /\ Receives(w)
  /\ executed' = executed \cup {w}
  /\ Reply(w, "ack")
  /\ UNCHANGED <<pc, cmd, numberVars, told>>

Refuses(w) ==
  /\ Receives(w)
  /\ \E c \in {"nak", "odd"} : Reply(w, c)
  /\ UNCHANGED <<pc, cmd, numberVars, told, executed>>

Lose ==
  /\ \/ \E w \in requests : requests' = requests \ {w} /\ UNCHANGED replies
     \/ \E w \in Workers, c \in Codes :
          /\ replies[w][c] > 0
          /\ replies' = [replies EXCEPT ![w][c] = @ - 1]
          /\ UNCHANGED requests
  /\ UNCHANGED <<pc, cmd, numberVars, told, executed>>

-----------------------------------------------------------------------------
Step(w) ==
  \/ Begin(w) \/ LockForId(w) \/ ReadSequence(w) \/ AdvanceSequence(w)
  \/ AnswerLogout(w) \/ WakeUp(w) \/ BuildRequest(w) \/ SendRequest(w)
  \/ SendFails(w) \/ (\E c \in Codes : ReadReply(w, c)) \/ ReadSeveral(w)
  \/ ReadFails(w) \/ Answer(w) \/ Again(w)

Next == \/ \E w \in Workers : Step(w) \/ Executes(w) \/ Refuses(w)
        \/ Lose

Spec == Init /\ [][Next]_vars

(***************************************************************************)
(* Fairness.  A worker goes on whenever it can; the blocking lock of       *)
(* getNextId is strongly fair.  Nothing is assumed of the NAS and of the   *)
(* network: the wait ends by its time limit.                               *)
(***************************************************************************)
Fairness ==
  \A w \in Workers :
    /\ SF_vars(LockForId(w))
    /\ WF_vars(ReadSequence(w) \/ AdvanceSequence(w) \/ AnswerLogout(w)
               \/ WakeUp(w) \/ BuildRequest(w) \/ SendRequest(w)
               \/ SendFails(w) \/ ReadFails(w) \/ Answer(w))

FairSpec == Spec /\ Fairness

-----------------------------------------------------------------------------
(* An identifier is given to no other command before all IdSpace numbers   *)
(* have been drawn once more, at any point of the sequence and however     *)
(* many commands begin and end meanwhile.  (getNextId under the mutex; a   *)
(* command draws two numbers, so 127 others may draw theirs beside one     *)
(* that waits, and the 128th repeats its identifier.)                      *)
RequestIdsDistinct ==
  \A v, w \in Workers :
    v # w /\ since[v] \in 1..IdSpace /\ since[w] \in 1..IdSpace
      => requestId[v] # requestId[w]

(* A command other than isg_logout is reported as acknowledged only after  *)
(* the NAS has executed it, however replies are delayed, lost or late.     *)
AckedMeansDone ==
  \A w \in Workers : cmd[w] # "logout" /\ told[w] = "ack" => w \in executed

(* Every command that has begun is answered and its thread comes to an     *)
(* end, even if the NAS is silent, unless it reads several replies at      *)
(* once: then unpack() may never return.                                   *)
Answered ==
  \A w \in Workers :
    pc[w] = "number" ~> ((pc[w] = "done" /\ told[w] # "nothing") \/ pc[w] = "stuck")
=============================================================================
