-------------------------- MODULE OracleQueryProofs --------------------------
(* Proofs of the safety of OracleQuery for any workers, any pool and any    *)
(* database.                                                                *)
EXTENDS OracleQuery, TLAPS

(* The pool mutex is held while the pool is used.                           *)
MutexInv ==
  \A w \in Workers : poolMutex = w <=> pc[w] \in {"getting", "releasing", "hung"}

(* Where a worker can have a connection, and where it must have one.        *)
HeldInv ==
  \A w \in Workers :
    /\ held[w] # "none" => pc[w] \notin {"idle", "new", "getting", "freed", "store"}
    /\ pc[w] = "releasing" => held[w] # "none"
    /\ pc[w] \in {"send", "done"} /\ held[w] # "none" => Throws(kind[w])

(* What a bypassing command has read from the database is at least as new   *)
(* as its beginning.                                                        *)
FreshInv ==
  \A w \in Workers :
    /\ started[w] <= db
    /\ kind[w] \in {"forced", "raw"} => rv[w] = Degraded \/ rv[w] >= started[w]
    /\ pc[w] = "idle" => rv[w] = Degraded

IInv == TypeOK /\ MutexInv /\ HeldInv /\ FreshInv /\ ConnectionsAccounted

(* The invariant holds initially.  *)
LEMMA InitIInv == Init => IInv
BY OracleAssumption
   DEF Init, IInv, TypeOK, MutexInv, HeldInv, FreshInv, ConnectionsAccounted,
       Answers, Degraded, PCs

(* Every step of a worker preserves the invariant.                          *)
LEMMA StepIInv == ASSUME NEW w \in Workers PROVE IInv /\ Step(w) => IInv'
<1> SUFFICES ASSUME IInv, Step(w) PROVE IInv'
  OBVIOUS
<1> USE OracleAssumption
    DEF IInv, TypeOK, MutexInv, HeldInv, FreshInv, ConnectionsAccounted, Answers,
        Degraded, Miss, PCs, Kinds, Go, Up, poolVars, cacheVars, cancelVars
<1>1. CASE CacheHit(w)
  BY <1>1 DEF CacheHit, Hit, Looks, C!Lookup, C!Cached
<1>2. CASE ReadFromSource(w)
  BY <1>2 DEF ReadFromSource
<1>3. CASE PoolBusy(w)
  BY <1>3 DEF PoolBusy
<1>4. CASE TryLockPool(w)
  BY <1>4 DEF TryLockPool
<1>5. CASE YieldConnection(w)
  BY <1>5 DEF YieldConnection
<1>6. CASE NoConnection(w)
  BY <1>6 DEF NoConnection
<1>7. CASE QueryAnswers(w)
  BY <1>7 DEF QueryAnswers
<1>8. CASE QueryFails(w)
  BY <1>8 DEF QueryFails, AfterError, Throws
<1>9. CASE DeleteEmpty(w)
  BY <1>9 DEF DeleteEmpty
<1>10. CASE LockPool(w)
  <2>1. /\ held[w] # "none" /\ pc[w] = "close" /\ poolMutex = "free"
        /\ poolMutex' = w
        /\ pc' = [pc EXCEPT ![w] = "releasing"]
        /\ UNCHANGED <<status, kind, rv, bi, started, idle, lost, held, db,
                       breaking, targeted, interrupted, minicache, now>>
    BY <1>10 DEF LockPool
  <2>2. TypeOK'
    BY <2>1
  <2>3. MutexInv'
    BY <2>1
  <2>4. HeldInv'
    BY <2>1
  <2>5. FreshInv'
    BY <2>1
  <2>6. ConnectionsAccounted'
    BY <2>1
  <2>7. QED
    BY <2>2, <2>3, <2>4, <2>5, <2>6
<1>11. CASE ReleaseConnection(w)
  BY <1>11 DEF ReleaseConnection, GivesBack
<1>12. CASE ClearBi(w)
  BY <1>12 DEF ClearBi
<1>13. CASE Store(w)
  BY <1>13 DEF Store, C!Assign, C!Cached
<1>14. CASE Send(w)
  BY <1>14 DEF Send
<1>15. CASE PoolHangs(w)
  BY <1>15 DEF PoolHangs
<1>16. QED
  BY <1>1, <1>2, <1>3, <1>4, <1>5, <1>6, <1>7, <1>8, <1>9, <1>10, <1>11,
     <1>12, <1>13, <1>14, <1>15 DEF Step

(* So does every step of the warehouse, of the database and of the clock.   *)
LEMMA OtherIInv ==
  ASSUME IInv,
         \/ \E w \in Workers : CancelLoad(w) \/ CancelUnset(w) \/ CancelDeleted(w)
         \/ CancelBreak \/ Sweep \/ Change \/ Tick \/ UNCHANGED vars
  PROVE  IInv'
<1> USE OracleAssumption
    DEF IInv, TypeOK, MutexInv, HeldInv, FreshInv, ConnectionsAccounted, Answers,
        Degraded, Up, poolVars, cacheVars, cancelVars
<1>1. ASSUME NEW w \in Workers, CancelLoad(w) PROVE IInv'
  <2>1. TypeOK'
    BY <1>1 DEF CancelLoad
  <2>2. UNCHANGED <<pc, kind, rv, bi, started, idle, lost, poolMutex, held, db>>
    BY <1>1 DEF CancelLoad
  <2>3. QED
    BY <2>1, <2>2
<1>2. ASSUME NEW w \in Workers, CancelUnset(w) PROVE IInv'
  <2>1. TypeOK'
    BY <1>2 DEF CancelUnset
  <2>2. UNCHANGED <<pc, kind, rv, bi, started, idle, lost, poolMutex, held, db>>
    BY <1>2 DEF CancelUnset
  <2>3. QED
    BY <2>1, <2>2
<1>3. ASSUME NEW w \in Workers, CancelDeleted(w) PROVE IInv'
  <2>1. TypeOK'
    BY <1>3 DEF CancelDeleted
  <2>2. UNCHANGED <<pc, kind, rv, bi, started, idle, lost, poolMutex, held, db>>
    BY <1>3 DEF CancelDeleted
  <2>3. QED
    BY <2>1, <2>2
<1>4. CASE CancelBreak
  BY <1>4 DEF CancelBreak, BreakUsers
<1>5. CASE Sweep
  BY <1>5 DEF Sweep, C!EraseExpired, C!Fresh, C!Cached
<1>6. CASE Change
  BY <1>6 DEF Change
<1>7. CASE Tick
  BY <1>7 DEF Tick
<1>8. CASE UNCHANGED vars
  BY <1>8 DEF vars
<1>9. QED
  BY <1>1, <1>2, <1>3, <1>4, <1>5, <1>6, <1>7, <1>8

(* The invariant holds in every reachable state.  *)
LEMMA Invariance == Spec => []IInv
<1>1. IInv /\ [Next]_vars => IInv'
  BY StepIInv, OtherIInv DEF Next
<1>2. QED
  BY InitIInv, <1>1, PTL DEF Spec

(* The variables keep their types.                                          *)
THEOREM TypeCorrect == Spec => []TypeOK
<1>1. IInv => TypeOK
  BY DEF IInv
<1>2. QED
  BY <1>1, Invariance, PTL

(* Every connection is in the pool, with one worker, or was refused by the  *)
(* pool, whatever the size of the pool and the number of threads.           *)
THEOREM ConnectionsAreAccounted == Spec => []ConnectionsAccounted
<1>1. IInv => ConnectionsAccounted
  BY DEF IInv
<1>2. QED
  BY <1>1, Invariance, PTL

(* A finished command holds a connection only if its query may throw.       *)
THEOREM LeaksNeedThrow == Spec => []OnlyThrowLeaks
<1>1. IInv => OnlyThrowLeaks
  BY DEF IInv, HeldInv, OnlyThrowLeaks
<1>2. QED
  BY <1>1, Invariance, PTL

(* Forced status and raw SQL answer from the database as it was when they   *)
(* began, or later.                                                         *)
THEOREM BypassAlwaysFresh == Spec => []BypassIsFresh
<1>1. IInv => BypassIsFresh
  BY DEF IInv, FreshInv, BypassIsFresh
<1>2. QED
  BY <1>1, Invariance, PTL
=============================================================================
