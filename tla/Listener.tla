------------------------------ MODULE Listener ------------------------------
(***************************************************************************)
(* Life cycle of the connections of the daemon.  Three kinds of threads    *)
(* share the list Listener::_children and the objects it points to:        *)
(*                                                                         *)
(*   - the accept loop of Listener::start, which creates a Dispatcher for  *)
(*     every connection, starts its thread and lists it;                   *)
(*   - the warehouse thread, which once a second deletes the listed        *)
(*     dispatchers that are done and calls timeout() on the old ones;      *)
(*   - one detached thread per Dispatcher, which reads and answers one     *)
(*     command and then tries to remove and delete its own object.         *)
(*                                                                         *)
(* The list is a set here: each object is pushed once and the scan deletes *)
(* or interrupts elements independently of each other.  The descriptor     *)
(* and the flags of a Dispatcher are functions of the object.  An object   *)
(* accessed after it was deleted may still hold its old contents or may    *)
(* not; in the second case the behaviour of the process is not modelled    *)
(* any further (status "undefined").                                       *)
(***************************************************************************)
EXTENDS Naturals, FiniteSets

CONSTANTS
  Dispatchers,  \* the Dispatcher objects a run may create, one per connection
  ChildLimit    \* listed children above which a connection is reset (2046)

ASSUME ListenerAssumption ==
  /\ ChildLimit \in Nat
  /\ Dispatchers \cap {"free", "acceptor", "warehouse", "none"} = {}

VARIABLES
  status,       \* the process: "up", "down" (exited) or "undefined"
  mutex,        \* holder of Listener::_mutex
  apc,          \* control state of the accept loop
  ad,           \* the accept loop's local d
  children,     \* Listener::_children
  todo,         \* children the warehouse has still to visit in this scan
  thread,       \* control state of each dispatcher's thread
  failed,       \* dispatchers for which error() was called: _is_done, _sd = -1
  ids,          \* getNextId calls the current command has still to make
  sd,           \* the socket of each dispatcher
  deleted,      \* how many times each object was deleted
  aged,         \* dispatchers constructed more than 10 s ago
  interrupted   \* dispatchers whose running command timeout() interrupted

acceptorVars == <<apc, ad>>
listVars     == <<children, todo>>
threadVars   == <<thread, failed, ids>>
objectVars   == <<sd, deleted>>
clockVars    == <<aged, interrupted>>
vars == <<status, mutex, acceptorVars, listVars, threadVars, objectVars,
          clockVars>>

ThreadStates == {"unborn",     \* object not constructed
                 "new",        \* constructed, no thread runs it
                 "recv",       \* in mainloop, a command may still come
                 "query",      \* in processQuery, outside the database
                 "numbering",  \* in processQuery, inside getNextId
                 "billing",    \* in processQuery, before its connection
                 "connected",  \* in processQuery, _bi and its _conn set
                 "answered",   \* in mainloop after the command (FINISHING)
                 "finished",   \* mainloop returned
                 "removing",   \* in remove_child with the mutex
                 "exited"}     \* the thread is gone
SocketStates == {"open", "eof", "shut", "closed"}

TypeOK ==
  /\ status \in {"up", "down", "undefined"}
  /\ mutex \in Dispatchers \cup {"free", "acceptor", "warehouse"}
  /\ apc \in {"accept", "lock", "start", "push"}
  /\ ad \in Dispatchers \cup {"none"}
  /\ children \subseteq Dispatchers
  /\ todo \subseteq children
  /\ thread \in [Dispatchers -> ThreadStates]
  /\ failed \subseteq Dispatchers
  /\ ids \in [Dispatchers -> 0..2]
  /\ sd \in [Dispatchers -> SocketStates]
  /\ deleted \in [Dispatchers -> 0..2]
  /\ aged \subseteq Dispatchers
  /\ interrupted \subseteq aged

Init ==
  /\ status = "up"
  /\ mutex = "free"
  /\ apc = "accept"
  /\ ad = "none"
  /\ children = {}
  /\ todo = {}
  /\ thread = [d \in Dispatchers |-> "unborn"]
  /\ failed = {}
  /\ ids = [d \in Dispatchers |-> 0]
  /\ sd = [d \in Dispatchers |-> "open"]
  /\ deleted = [d \in Dispatchers |-> 0]
  /\ aged = {}
  /\ interrupted = {}

-----------------------------------------------------------------------------
(* The flags of a Dispatcher.  error() sets _is_done while the thread still *)
(* parses the rest of its buffer; the faulty variant takes a shut socket   *)
(* for the end of the object as well.                                      *)

is_done_when_shut(d) ==
  \/ d \in failed \/ sd[d] # "open"
  \/ thread[d] \in {"finished", "removing", "exited"}

is_done(d) == d \in failed \/ thread[d] \in {"finished", "removing", "exited"}

is_processing(d) == thread[d] \in {"query", "numbering", "billing", "connected"}

(* The condition that makes the accept loop reset a connection, and the    *)
(* warehouse's test of an age above 10 s, each with a faulty variant.      *)

TooManyOffByOne == Cardinality(children) > ChildLimit + 1

TooMany == Cardinality(children) > ChildLimit

too_old_always(d) == TRUE

too_old(d) == d \in aged

(* Steps of a live process: one that touches no Dispatcher, one that reads *)
(* or writes d, whose memory may still hold the object if it was deleted,  *)
(* and one that deletes d, which has no defined outcome the second time.   *)

Intact    == status = "up" /\ UNCHANGED status
Touch(d)  == /\ status = "up"
             /\ status' \in (IF deleted[d] > 0 THEN {"up", "undefined"} ELSE {"up"})
Free(d)   == /\ deleted' = [deleted EXCEPT ![d] = @ + 1]
             /\ sd' = [sd EXCEPT ![d] = "closed"]
Delete(d) == /\ status = "up"
             /\ status' = IF deleted[d] > 0 THEN "undefined" ELSE "up"
             /\ Free(d)

Lock(holder) == mutex = "free" /\ mutex' = holder
Unlock       == mutex' = "free"

EnlistIfRunning(d) ==  \* faulty variant: a thread that is done is not listed
  children' = IF is_done(d) THEN children ELSE children \cup {d}

Enlist(d) == children' = children \cup {d}

UnlistNothing(d) == children' = children  \* faulty variant

Unlist(d) == children' = children \ {d}

Go(d, state) == thread' = [thread EXCEPT ![d] = state]

-----------------------------------------------------------------------------
(* The accept loop.                                                        *)

Accept(d) ==
  /\ apc = "accept"
  /\ thread[d] = "unborn"
  /\ Go(d, "new")
  /\ apc' = "lock"
  /\ ad' = d
  /\ Intact /\ UNCHANGED <<mutex, listVars, failed, ids, objectVars, clockVars>>

AcceptLock ==
  /\ apc = "lock"
  /\ Lock("acceptor")
  /\ apc' = "start"
  /\ Intact /\ UNCHANGED <<ad, listVars, threadVars, objectVars, clockVars>>

BackToAccept == Unlock /\ apc' = "accept" /\ ad' = "none"

(* The connection is closed; the object has no owner any more.             *)
AcceptReset ==
  /\ apc = "start"
  /\ TooMany
  /\ sd' = [sd EXCEPT ![ad] = "closed"]
  /\ BackToAccept
  /\ Intact /\ UNCHANGED <<listVars, threadVars, deleted, clockVars>>

(* pthread_create succeeds: from here the thread runs beside this one.     *)
AcceptStart ==
  /\ apc = "start"
  /\ ~TooMany
  /\ Go(ad, "recv")
  /\ apc' = "push"
  /\ Intact /\ UNCHANGED <<mutex, ad, listVars, failed, ids, objectVars, clockVars>>

AcceptStartFails ==
  /\ apc = "start"
  /\ ~TooMany
  /\ Delete(ad)
  /\ BackToAccept
  /\ UNCHANGED <<listVars, threadVars, clockVars>>

AcceptPush ==
  /\ apc = "push"
  /\ Enlist(ad)
  /\ BackToAccept
  /\ Intact /\ UNCHANGED <<todo, threadVars, objectVars, clockVars>>

(* accept(2) fails with an error the loop does not retry: start() returns, *)
(* main returns, and the process ends with every thread in it.             *)
AcceptFatal ==
  /\ apc = "accept"
  /\ status = "up"
  /\ status' = "down"
  /\ UNCHANGED <<mutex, acceptorVars, listVars, threadVars, objectVars, clockVars>>

-----------------------------------------------------------------------------
(* The thread of dispatcher d.                                             *)

(* The end of an element that is taken for the action arrives.  An isg_*   *)
(* command draws two identifiers from the Listener; store, restore and a   *)
(* command nobody knows draw none; the other commands may use the database. *)
(* error() does not stop the parser, so this may happen after it, too.     *)
BeginQuery(d) ==
  /\ thread[d] = "recv"
  /\ \/ Go(d, "query") /\ \E n \in {0, 2} : ids' = [ids EXCEPT ![d] = n]
     \/ Go(d, "billing") /\ UNCHANGED ids
  /\ Touch(d)
  /\ UNCHANGED <<mutex, acceptorVars, listVars, failed, objectVars, clockVars>>

LockForId(d) ==
  /\ thread[d] = "query"
  /\ ids[d] > 0
  /\ Lock(d)
  /\ Go(d, "numbering")
  /\ Touch(d)
  /\ UNCHANGED <<acceptorVars, listVars, failed, ids, objectVars, clockVars>>

GetNextId(d) ==
  /\ thread[d] = "numbering"
  /\ Unlock
  /\ Go(d, "query")
  /\ ids' = [ids EXCEPT ![d] = @ - 1]
  /\ Touch(d)
  /\ UNCHANGED <<acceptorVars, listVars, failed, objectVars, clockVars>>

(* The billing command has a connection, and later has it no more.         *)
Connect(d) ==
  /\ thread[d] = "billing"
  /\ Go(d, "connected")
  /\ Touch(d)
  /\ UNCHANGED <<mutex, acceptorVars, listVars, failed, ids, objectVars, clockVars>>

Disconnect(d) ==
  /\ thread[d] = "connected"
  /\ Go(d, "query")
  /\ Touch(d)
  /\ UNCHANGED <<mutex, acceptorVars, listVars, failed, ids, objectVars, clockVars>>

(* The command was known: its answer was sent and the socket shut down.    *)
EndQuery(d) ==
  /\ thread[d] \in {"query", "billing"}
  /\ ids[d] = 0
  /\ Go(d, "answered")
  /\ sd' = [sd EXCEPT ![d] = IF @ = "closed" THEN @ ELSE "shut"]
  /\ Touch(d)
  /\ UNCHANGED <<mutex, acceptorVars, listVars, failed, ids, deleted, clockVars>>

(* error(): an unknown command, or a document that is not well formed.     *)
(* The socket is closed and _is_done set, and the thread goes on with the  *)
(* rest of the buffer: a later element may be its command.                 *)
Error(d) ==
  /\ thread[d] \in {"recv", "answered", "query", "billing"}
  /\ ids[d] = 0
  /\ Go(d, IF thread[d] = "answered" THEN "answered" ELSE "recv")
  /\ failed' = failed \cup {d}
  /\ sd' = [sd EXCEPT ![d] = "closed"]
  /\ Touch(d)
  /\ UNCHANGED <<mutex, acceptorVars, listVars, ids, deleted, clockVars>>

(* recv returns 0 or _sd is -1: mainloop sets _is_done and returns.        *)
FinishLoop(d) ==
  /\ thread[d] \in {"recv", "answered"}
  /\ sd[d] \in {"eof", "shut", "closed"}
  /\ Go(d, "finished")
  /\ Touch(d)
  /\ UNCHANGED <<mutex, acceptorVars, listVars, failed, ids, objectVars, clockVars>>

(* recv returns -1, as it may when the client has closed its end without   *)
(* reading all of the answer.  Kept in a size_t this is more than 0: a byte *)
(* outside the buffer is written.  If that does no harm the loop goes on.  *)
RecvFails(d) ==
  /\ thread[d] \in {"recv", "answered"}
  /\ sd[d] \in {"eof", "shut"}
  /\ status = "up" /\ status' \in {"up", "undefined"}
  /\ UNCHANGED <<mutex, acceptorVars, listVars, threadVars, objectVars, clockVars>>

(* remove_child: the mutex is tried once; when it is busy the object is    *)
(* left to the warehouse.                                                  *)
TryRemove(d) ==
  /\ thread[d] = "finished"
  /\ Lock(d)
  /\ Go(d, "removing")
  /\ Intact /\ UNCHANGED <<acceptorVars, listVars, failed, ids, objectVars, clockVars>>

LeaveToWarehouse(d) ==
  /\ thread[d] = "finished"
  /\ mutex # "free"
  /\ Go(d, "exited")
  /\ Intact /\ UNCHANGED <<mutex, acceptorVars, listVars, failed, ids, objectVars, clockVars>>

RemoveChild(d) ==
  /\ thread[d] = "removing"
  /\ Unlist(d)
  /\ Delete(d)
  /\ Unlock
  /\ Go(d, "exited")
  /\ UNCHANGED <<acceptorVars, todo, failed, ids, clockVars>>

-----------------------------------------------------------------------------
(* The warehouse thread.                                                   *)

WarehouseLock ==
  /\ Lock("warehouse")
  /\ todo' = children
  /\ Intact /\ UNCHANGED <<acceptorVars, children, threadVars, objectVars, clockVars>>

Visit(d) ==
  /\ mutex = "warehouse"
  /\ d \in todo
  /\ todo' = todo \ {d}

(* The node of the list is erased before it is read once more for the      *)
(* pointer to delete: if its memory does not hold the pointer any longer,  *)
(* something else is deleted.                                              *)
Reap(d) ==
  /\ Visit(d)
  /\ is_done(d)
  /\ Unlist(d)
  /\ Free(d)
  /\ status = "up"
  /\ status' \in {"undefined"} \cup (IF deleted[d] = 0 THEN {"up"} ELSE {})
  /\ UNCHANGED <<mutex, acceptorVars, threadVars, clockVars>>

(* timeout() breaks the call of a billing command that has a connection.   *)
(* It does nothing for the others (DispatcherCOA::timeout is empty); the    *)
(* faulty variant has it the other way.                                    *)
InterruptOthers(d) ==
  interrupted' = interrupted \cup (IF thread[d] = "connected" THEN {} ELSE {d})

Interrupt(d) ==
  interrupted' = interrupted \cup
    (IF is_processing(d) /\ thread[d] = "connected" THEN {d} ELSE {})

(* _bi is a wild pointer before the first BillingInstance is made, and     *)
(* points to a deleted one before it is cleared.                           *)
Timeout(d) ==
  /\ Visit(d)
  /\ ~is_done(d)
  /\ too_old(d)
  /\ Interrupt(d)
  /\ status = "up"
  /\ status' \in {"up"} \cup (IF is_processing(d) /\ thread[d] # "connected"
                              THEN {"undefined"} ELSE {})
  /\ UNCHANGED <<mutex, acceptorVars, children, threadVars, objectVars, aged>>

Skip(d) ==
  /\ Visit(d)
  /\ ~is_done(d)
  /\ ~too_old(d)
  /\ Touch(d)
  /\ UNCHANGED <<mutex, acceptorVars, children, threadVars, objectVars, clockVars>>

WarehouseUnlock ==
  /\ mutex = "warehouse"
  /\ todo = {}
  /\ Unlock
  /\ Intact /\ UNCHANGED <<acceptorVars, listVars, threadVars, objectVars, clockVars>>

-----------------------------------------------------------------------------
(* The clients and the clock.                                              *)

HangUp(d) ==
  /\ thread[d] # "unborn"
  /\ sd[d] = "open"
  /\ sd' = [sd EXCEPT ![d] = "eof"]
  /\ Intact /\ UNCHANGED <<mutex, acceptorVars, listVars, threadVars, deleted, clockVars>>

(* Ten seconds after the construction.                                     *)
Age(d) ==
  /\ thread[d] # "unborn"
  /\ aged' = aged \cup {d}
  /\ Intact /\ UNCHANGED <<mutex, acceptorVars, listVars, threadVars, objectVars,
                           interrupted>>

-----------------------------------------------------------------------------
AcceptorNext ==
  \/ \E d \in Dispatchers : Accept(d)
  \/ AcceptLock \/ AcceptReset \/ AcceptStart \/ AcceptStartFails
  \/ AcceptPush \/ AcceptFatal

ThreadNext(d) ==
  \/ BeginQuery(d) \/ LockForId(d) \/ GetNextId(d) \/ Connect(d) \/ Disconnect(d)
  \/ EndQuery(d) \/ Error(d)
  \/ FinishLoop(d) \/ RecvFails(d) \/ TryRemove(d) \/ LeaveToWarehouse(d) \/ RemoveChild(d)

ScanStep == \/ \E d \in Dispatchers : Reap(d) \/ Timeout(d) \/ Skip(d)
            \/ WarehouseUnlock

EnvironmentNext(d) == HangUp(d) \/ Age(d)

Next ==
  \/ AcceptorNext
  \/ WarehouseLock
  \/ ScanStep
  \/ \E d \in Dispatchers : ThreadNext(d) \/ EnvironmentNext(d)

Spec == Init /\ [][Next]_vars

(***************************************************************************)
(* Fairness.  The accept loop and the warehouse are loops without exit, so *)
(* their steps inside the critical section are weakly fair; the blocking   *)
(* pthread_mutex_lock of the warehouse is strongly fair, since the mutex   *)
(* is released again and again and every other holder keeps it for a few   *)
(* instructions.  A thread whose next step does not wait for the client or *)
(* the database takes it.  Time passes.  Nothing is assumed of clients     *)
(* (they may stay connected for ever) nor of the commands (a query may run *)
(* until it is interrupted).                                               *)
(***************************************************************************)
Fairness ==
  /\ WF_vars(AcceptReset \/ AcceptStart \/ AcceptStartFails \/ AcceptPush)
  /\ SF_vars(WarehouseLock)
  /\ WF_vars(ScanStep)
  /\ \A d \in Dispatchers :
       /\ WF_vars(GetNextId(d) \/ RemoveChild(d))
       /\ WF_vars(FinishLoop(d))
       /\ WF_vars(TryRemove(d) \/ LeaveToWarehouse(d))
       /\ WF_vars(Age(d))

FairSpec == Spec /\ Fairness

-----------------------------------------------------------------------------
(***************************************************************************)
(* Safety.                                                                 *)
(***************************************************************************)

Started(d) == thread[d] \notin {"unborn", "new"}

(* The list neither loses nor keeps a pointer: it holds exactly the        *)
(* dispatchers that were started and not deleted, but for the one that the *)
(* accept loop is about to push.  (Listener::start, warehouse and          *)
(* remove_child all update _children and delete objects; a pointer left    *)
(* behind is scanned after its deletion, a lost one is never deleted.)     *)
ChildrenExact ==
  children = {d \in Dispatchers : Started(d) /\ deleted[d] = 0
                                  /\ ~(apc = "push" /\ d = ad)}

(* The test of the accept loop is made before the push and under the same  *)
(* lock, so the list never holds more than one child above the limit.      *)
LimitRespected == Cardinality(children) <= ChildLimit + 1

(* The age of a dispatcher, its socket and its answer are no licence to    *)
(* delete it: an object is deleted while its thread still reads, parses or *)
(* processes only after error() said too early that it is done.  (After    *)
(* that it may happen even while a command runs: the parser goes on.)      *)
InMainloop(d) == is_processing(d) \/ thread[d] \in {"recv", "answered"}

OnlyErrorDeletesInService ==
  \A d \in Dispatchers : deleted[d] > 0 /\ InMainloop(d) => d \in failed

(* "Removing child upon finish of the dispatcher": an object goes only     *)
(* when its thread uses it no more, or when no thread was ever started.    *)
(* (is_done, the warehouse's licence to delete, and remove_child)          *)
NotDeletedInUse ==
  \A d \in Dispatchers : deleted[d] > 0 => thread[d] \in {"new", "exited"}

(***************************************************************************)
(* Liveness.                                                               *)
(***************************************************************************)

(* Every dispatcher that is done is deleted in the end, by its own thread  *)
(* or by the warehouse, although the thread tries the mutex only once and  *)
(* may do so before the accept loop has listed the object.                 *)
Reclaimed ==
  \A d \in Dispatchers :
    is_done(d) ~> (deleted[d] > 0 \/ status # "up")

(* A billing command that still has its connection ten seconds after its  *)
(* client was accepted is interrupted by the warehouse, unless it gives    *)
(* the connection back by itself.  (The warehouse passes it, whatever it   *)
(* finds in its list before it.  The isg_* commands are not interrupted,   *)
(* nor is one that error() made look done: it is deleted.)                 *)
LongQueryInterrupted ==
  \A d \in Dispatchers :
    (thread[d] = "connected" /\ d \in aged)
      ~> (d \in interrupted \/ thread[d] # "connected" \/ deleted[d] > 0
          \/ status # "up")
=============================================================================
