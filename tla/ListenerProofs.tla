--------------------------- MODULE ListenerProofs ---------------------------
(* Proofs of the safety of Listener for any set of connections and any      *)
(* limit of the list of children.                                           *)
EXTENDS Listener, FiniteSetTheorems, TLAPS

(***************************************************************************)
(* The inductive invariant.                                                *)
(***************************************************************************)

(* Who holds the mutex is where its control state says.                    *)
MutexInv ==
  /\ mutex = "acceptor" <=> apc \in {"start", "push"}
  /\ \A d \in Dispatchers : mutex = d <=> thread[d] \in {"removing", "numbering"}
  /\ todo # {} => mutex = "warehouse"

(* What the accept loop knows of the object it has constructed.            *)
AcceptorInv ==
  /\ apc # "accept" => ad \in Dispatchers
  /\ apc \in {"lock", "start"} => thread[ad] = "new" /\ deleted[ad] = 0
  /\ apc = "push" => Started(ad) /\ deleted[ad] = 0

(* How often an object can have been deleted in each state of its thread.  *)
DeletedInv ==
  \A d \in Dispatchers :
    /\ InMainloop(d) /\ deleted[d] > 0 => d \in failed
    /\ thread[d] = "unborn" => deleted[d] = 0
    /\ d \in failed => Started(d)
    /\ thread[d] # "exited" => deleted[d] <= 1
    /\ thread[d] = "numbering" => ids[d] > 0

(* ChildrenExact, one element at a time.                                   *)
ListInv ==
  \A d \in Dispatchers :
    d \in children <=> Started(d) /\ deleted[d] = 0 /\ ~(apc = "push" /\ d = ad)

(* The list is finite, and below its limit while a push is pending.        *)
SizeInv ==
  /\ IsFiniteSet(children)
  /\ Cardinality(children) <= ChildLimit + 1
  /\ apc = "push" => Cardinality(children) <= ChildLimit

IInv == TypeOK /\ MutexInv /\ AcceptorInv /\ DeletedInv /\ ListInv

(* The invariant holds initially.  *)
LEMMA InitIInv == Init => IInv
BY ListenerAssumption
   DEF Init, IInv, TypeOK, MutexInv, AcceptorInv, DeletedInv, ListInv, Started,
       InMainloop, is_processing, ThreadStates, SocketStates

(* Every step of the accept loop preserves the invariant.  *)
LEMMA AcceptorIInv == IInv /\ AcceptorNext => IInv'
<1> SUFFICES ASSUME IInv, AcceptorNext PROVE IInv'
  OBVIOUS
<1> USE ListenerAssumption
    DEF IInv, TypeOK, MutexInv, AcceptorInv, DeletedInv, ListInv, Started,
        InMainloop, is_processing, ThreadStates, SocketStates, acceptorVars, listVars, threadVars,
        objectVars, clockVars, Intact, Lock, Unlock, Go, BackToAccept
<1>1. CASE \E d \in Dispatchers : Accept(d)
  BY <1>1 DEF Accept
<1>2. CASE AcceptLock
  BY <1>2 DEF AcceptLock
<1>3. CASE AcceptReset
  BY <1>3 DEF AcceptReset
<1>4. CASE AcceptStart
  BY <1>4 DEF AcceptStart
<1>5. CASE AcceptStartFails
  BY <1>5 DEF AcceptStartFails, Delete, Free
<1>6. CASE AcceptPush
  BY <1>6 DEF AcceptPush, Enlist
<1>7. CASE AcceptFatal
  BY <1>7 DEF AcceptFatal
<1>8. QED
  BY <1>1, <1>2, <1>3, <1>4, <1>5, <1>6, <1>7 DEF AcceptorNext

(* Every step of a dispatcher's thread preserves the invariant.  *)
LEMMA ThreadIInv ==
  ASSUME NEW d \in Dispatchers PROVE IInv /\ ThreadNext(d) => IInv'
<1> SUFFICES ASSUME IInv, ThreadNext(d) PROVE IInv'
  OBVIOUS
<1> USE ListenerAssumption
    DEF IInv, TypeOK, MutexInv, AcceptorInv, DeletedInv, ListInv, Started,
        InMainloop, is_processing, ThreadStates, SocketStates, acceptorVars, listVars, threadVars,
        objectVars, clockVars, Intact, Touch, Lock, Unlock, Go
<1>1. CASE BeginQuery(d)
  BY <1>1 DEF BeginQuery
<1>2. CASE LockForId(d)
  BY <1>2 DEF LockForId
<1>3. CASE GetNextId(d)
  BY <1>3 DEF GetNextId
<1>4. CASE EndQuery(d)
  BY <1>4 DEF EndQuery
<1>5. CASE Error(d)
  BY <1>5 DEF Error
<1>6. CASE FinishLoop(d)
  BY <1>6 DEF FinishLoop
<1>7. CASE TryRemove(d)
  BY <1>7 DEF TryRemove
<1>8. CASE LeaveToWarehouse(d)
  BY <1>8 DEF LeaveToWarehouse
<1>9. CASE RemoveChild(d)
  BY <1>9 DEF RemoveChild, Unlist, Delete, Free
<1>10. CASE RecvFails(d)
  BY <1>10 DEF RecvFails
<1>11. CASE Connect(d)
  BY <1>11 DEF Connect
<1>12. CASE Disconnect(d)
  BY <1>12 DEF Disconnect
<1>13. QED
  BY <1>1, <1>2, <1>3, <1>4, <1>5, <1>6, <1>7, <1>8, <1>9, <1>10, <1>11, <1>12
     DEF ThreadNext

(* So does every step of the warehouse.  *)
LEMMA WarehouseIInv == IInv /\ (WarehouseLock \/ ScanStep) => IInv'
<1> SUFFICES ASSUME IInv, WarehouseLock \/ ScanStep PROVE IInv'
  OBVIOUS
<1> USE ListenerAssumption
    DEF IInv, TypeOK, MutexInv, AcceptorInv, DeletedInv, ListInv, Started,
        InMainloop, is_processing, ThreadStates, SocketStates, acceptorVars, listVars, threadVars,
        objectVars, clockVars, Intact, Touch, Lock, Unlock, Visit, is_done
<1>1. CASE WarehouseLock
  BY <1>1 DEF WarehouseLock
<1>2. ASSUME NEW d \in Dispatchers, Reap(d) PROVE IInv'
  BY <1>2 DEF Reap, Unlist, Free
<1>3. ASSUME NEW d \in Dispatchers, Timeout(d) PROVE IInv'
  BY <1>3 DEF Timeout, Interrupt, too_old
<1>4. ASSUME NEW d \in Dispatchers, Skip(d) PROVE IInv'
  BY <1>4 DEF Skip
<1>5. CASE WarehouseUnlock
  BY <1>5 DEF WarehouseUnlock
<1>6. QED
  BY <1>1, <1>2, <1>3, <1>4, <1>5 DEF ScanStep

(* So does every step of a client and of the clock.  *)
LEMMA EnvironmentIInv ==
  ASSUME NEW d \in Dispatchers PROVE IInv /\ EnvironmentNext(d) => IInv'
<1> SUFFICES ASSUME IInv, EnvironmentNext(d) PROVE IInv'
  OBVIOUS
<1> USE ListenerAssumption
    DEF IInv, TypeOK, MutexInv, AcceptorInv, DeletedInv, ListInv, Started,
        InMainloop, is_processing, ThreadStates, SocketStates, acceptorVars, listVars, threadVars,
        objectVars, clockVars, Intact
<1>1. CASE HangUp(d)
  BY <1>1 DEF HangUp
<1>2. CASE Age(d)
  BY <1>2 DEF Age
<1>3. QED
  BY <1>1, <1>2 DEF EnvironmentNext

(* The conjunction is inductive.  *)
LEMMA NextIInv == IInv /\ [Next]_vars => IInv'
<1> SUFFICES ASSUME IInv, [Next]_vars PROVE IInv'
  OBVIOUS
<1>1. CASE UNCHANGED vars
  BY <1>1 DEF IInv, TypeOK, MutexInv, AcceptorInv, DeletedInv, ListInv, Started,
              InMainloop, is_processing, vars, acceptorVars, listVars, threadVars, objectVars, clockVars
<1>2. CASE Next
  BY <1>2, AcceptorIInv, WarehouseIInv, ThreadIInv, EnvironmentIInv DEF Next
<1>3. QED
  BY <1>1, <1>2

(* The invariant holds in every reachable state.  *)
LEMMA Invariance == Spec => []IInv
<1>1. QED
  BY InitIInv, NextIInv, PTL DEF Spec

(***************************************************************************)
(* The theorems.                                                           *)
(***************************************************************************)

(* The variables keep their types; in particular no object is deleted a    *)
(* third time, and the scan visits only listed dispatchers.                *)
THEOREM TypeCorrect == Spec => []TypeOK
<1>1. IInv => TypeOK
  BY DEF IInv
<1>2. QED
  BY <1>1, Invariance, PTL

(* _children lists exactly the started dispatchers that were not deleted.  *)
THEOREM ChildrenAreExact == Spec => []ChildrenExact
<1>1. IInv => ChildrenExact
  BY DEF IInv, ListInv, TypeOK, ChildrenExact
<1>2. QED
  BY <1>1, Invariance, PTL

(* A dispatcher is deleted while its thread is in mainloop only when        *)
(* error() was called for it.                                               *)
THEOREM InServiceDeletedByError == Spec => []OnlyErrorDeletesInService
<1>1. IInv => OnlyErrorDeletesInService
  BY DEF IInv, DeletedInv, OnlyErrorDeletesInService
<1>2. QED
  BY <1>1, Invariance, PTL

(***************************************************************************)
(* The bound of the list.  Only the push of the accept loop adds a child,  *)
(* after the test made under the same lock, which nobody else can take     *)
(* meanwhile (MutexInv).                                                   *)
(***************************************************************************)
(* The bound is inductive relative to IInv.  *)
LEMMA NextSizeInv == IInv /\ SizeInv /\ [Next]_vars => SizeInv'
<1> SUFFICES ASSUME IInv, SizeInv, [Next]_vars PROVE SizeInv'
  OBVIOUS
<1>0. Cardinality(children) \in Nat /\ ChildLimit \in Nat
  BY FS_CardinalityType, ListenerAssumption DEF SizeInv
<1>1. CASE AcceptStart
  BY <1>0, <1>1 DEF AcceptStart, TooMany, SizeInv, listVars
<1>2. CASE AcceptPush
  <2>1. /\ children' = children \cup {ad}
        /\ apc' = "accept"
        /\ Cardinality(children) <= ChildLimit
    BY <1>2 DEF AcceptPush, Enlist, BackToAccept, SizeInv
  <2>2. /\ IsFiniteSet(children')
        /\ Cardinality(children') <= Cardinality(children) + 1
    BY <1>0, <2>1, FS_AddElement DEF SizeInv
  <2>3. QED
    BY <1>0, <2>1, <2>2, FS_CardinalityType DEF SizeInv
<1>3. ASSUME NEW d \in Dispatchers, RemoveChild(d) \/ Reap(d) PROVE SizeInv'
  <2>1. children' = children \ {d} /\ apc' = apc
    BY <1>3 DEF RemoveChild, Reap, Unlist, acceptorVars
  <2>2. /\ IsFiniteSet(children')
        /\ Cardinality(children') <= Cardinality(children)
    BY <1>0, <2>1, FS_RemoveElement DEF SizeInv
  <2>3. QED
    BY <1>0, <2>1, <2>2, FS_CardinalityType DEF SizeInv
<1>4. CASE children' = children /\ (apc' = "push" => apc = "push")
  BY <1>4 DEF SizeInv
<1>5. AcceptStart \/ AcceptPush
      \/ (\E d \in Dispatchers : RemoveChild(d) \/ Reap(d))
      \/ (children' = children /\ (apc' = "push" => apc = "push"))
  BY DEF Next, AcceptorNext, ScanStep, ThreadNext, EnvironmentNext, Accept,
         AcceptLock, AcceptReset, AcceptStartFails, AcceptFatal, BeginQuery,
         LockForId, GetNextId, Connect, Disconnect, EndQuery, Error, FinishLoop, RecvFails, TryRemove,
         LeaveToWarehouse, WarehouseLock, Timeout, Skip, WarehouseUnlock,
         HangUp, Age, BackToAccept, vars, acceptorVars, listVars
<1>6. QED
  BY <1>1, <1>2, <1>3, <1>4, <1>5

(* At most ChildLimit + 1 connections are ever listed.  *)
THEOREM ChildrenLimited == Spec => []LimitRespected
<1>1. Init => SizeInv
  BY FS_EmptySet, ListenerAssumption DEF Init, SizeInv
<1>2. SizeInv => LimitRespected
  BY DEF SizeInv, LimitRespected
<1>3. QED
  BY <1>1, <1>2, Invariance, NextSizeInv, PTL DEF Spec
=============================================================================
