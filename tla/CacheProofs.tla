----------------------------- MODULE CacheProofs -----------------------------
(* Proofs about Cache for any keys, values, times to live and clock.        *)
EXTENDS Cache, TLAPS

(* What an expiry kept in an int can be.  *)
LEMMA ToIntRange ==
  ASSUME NEW t \in 0..MaxTime, NEW e \in Ttls
  PROVE  ToInt(t + e) \in (-IntMax - 1)..IntMax
BY CacheAssumption DEF ToInt

(* The entries are well formed, and each expiry is the intended one         *)
(* converted to int.                                                        *)
IInv ==
  /\ TypeOK
  /\ \A k \in Cached : \E t \in 0..MaxTime, e \in Ttls :
       due[k] = t + e /\ minicache[k].expires = ToInt(t + e)

(* The invariant holds initially.  *)
LEMMA InitIInv == Init => IInv
BY CacheAssumption DEF Init, IInv, TypeOK, Cached

(* Every operation preserves it.  *)
LEMMA NextIInv == IInv /\ [Next]_vars => IInv'
<1> SUFFICES ASSUME IInv, [Next]_vars PROVE IInv'
  OBVIOUS
<1> USE DEF IInv, TypeOK, Cached
<1>1. ASSUME NEW k \in Keys, getValue(k) PROVE IInv'
  BY <1>1, CacheAssumption DEF getValue, Lookup
<1>2. ASSUME NEW k \in Keys, NEW v \in Values, NEW e \in Ttls, setValue(k, v, e)
      PROVE  IInv'
  <2>1. ToInt(now + e) \in (-IntMax - 1)..IntMax
    BY ToIntRange
  <2>2. now + e \in Int
    BY CacheAssumption
  <2>3. TypeOK'
    BY <1>2, <2>1, <2>2 DEF setValue, Assign
  <2>4. QED
    BY <1>2, <2>3 DEF setValue, Assign
<1>3. CASE warehouse
  BY <1>3 DEF warehouse, EraseExpired, Fresh
<1>4. CASE Tick
  BY <1>4, CacheAssumption DEF Tick
<1>5. CASE UNCHANGED vars
  BY <1>5 DEF vars
<1>6. QED
  BY <1>1, <1>2, <1>3, <1>4, <1>5 DEF Next

(* The invariant holds in every reachable state.  *)
LEMMA Invariance == Spec => []IInv
BY InitIInv, NextIInv, PTL DEF Spec

(* The map holds well-formed entries of the keys, and expiries fit an int.  *)
THEOREM TypeCorrect == Spec => []TypeOK
<1>1. IInv => TypeOK
  BY DEF IInv
<1>2. QED
  BY <1>1, Invariance, PTL

(***************************************************************************)
(* Refinement.  As long as the clock and the times to live add up to an    *)
(* int, expiry and intention agree, and each operation is one of the       *)
(* store's.                                                                *)
(***************************************************************************)
NoOverflow == \A e \in Ttls : MaxTime + e <= IntMax

(* Without overflow the stored expiry is the second the user meant.  *)
LEMMA ExpiryIsDue ==
  ASSUME NoOverflow, IInv, NEW k \in Cached
  PROVE  minicache[k].expires = due[k]
BY CacheAssumption DEF NoOverflow, IInv, ToInt

(* The refinement mapping takes initial states to initial states.  *)
LEMMA StoreInit == Init => Store!Init
BY DEF Init, Store!Init, Cached

(* It takes every step of the cache to a step of the store or a stutter.  *)
LEMMA StoreStep == NoOverflow /\ IInv /\ [Next]_vars => [Store!Next]_(Store!vars)
<1> SUFFICES ASSUME NoOverflow, IInv, [Next]_vars
             PROVE  Store!Next \/ UNCHANGED Store!vars
  OBVIOUS
<1> USE DEF Cached
<1>1. ASSUME NEW k \in Keys, getValue(k) PROVE Store!Get(k)
  BY <1>1 DEF getValue, Lookup, Store!Get, Store!Held
<1>2. ASSUME NEW k \in Keys, NEW v \in Values, NEW e \in Ttls, setValue(k, v, e)
      PROVE  Store!Put(k, v, e)
  BY <1>2 DEF setValue, Assign, Store!Put, Store!Held
<1>3. ASSUME warehouse PROVE \E S \in SUBSET Store!Held : Store!Forget(S)
  <2> DEFINE Gone == Cached \ Fresh
  <2>1. Gone \in SUBSET Store!Held
    BY DEF Store!Held
  <2>2. \A k \in Gone : now >= due[k]
    BY ExpiryIsDue DEF Fresh, IsExpired
  <2>3. Store!Forget(Gone)
    BY <1>3, <2>2 DEF warehouse, EraseExpired, Fresh, Store!Forget, Store!Held
  <2> HIDE DEF Gone
  <2>4. QED
    BY <2>1, <2>3 DEF Store!Forget, Store!Held
<1>4. ASSUME Tick PROVE Store!Tick
  BY <1>4 DEF Tick, Store!Tick
<1>5. ASSUME UNCHANGED vars PROVE UNCHANGED Store!vars
  BY <1>5 DEF vars, Store!vars
<1>6. QED
  BY <1>1, <1>2, <1>3, <1>4, <1>5 DEF Next, Store!Next

(* The cache implements the store it is used as.  *)
THEOREM CacheIsExpiringStore == ASSUME NoOverflow PROVE Spec => IsExpiringStore
<1>1. QED
  BY NoOverflow, StoreInit, StoreStep, Invariance, PTL
  DEF Spec, IsExpiringStore, Store!Spec
=============================================================================
