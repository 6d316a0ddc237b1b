---------------------------- MODULE ExpiringStore ----------------------------
(***************************************************************************)
(* What the users of the cache rely on: a value put with a time to live is *)
(* returned by every later read, until a newer value replaces it or its    *)
(* time is over; only then may it be forgotten, at once or later.          *)
(***************************************************************************)
EXTENDS Integers

CONSTANTS Keys, Values, Ttls, MaxTime, Empty

VARIABLES
  store,   \* the values held, with the second each is due to be forgotten
  now,     \* the clock, in seconds
  answer   \* the result of the last read
vars == <<store, now, answer>>

Entry == [due : Int, value : Values]
Held  == DOMAIN store

Init ==
  /\ store = [k \in {} |-> Empty]
  /\ now = 0
  /\ answer = Empty

Put(k, v, ttl) ==
  /\ store' = [x \in Held \cup {k} |->
                 IF x = k THEN [due |-> now + ttl, value |-> v] ELSE store[x]]
  /\ UNCHANGED <<now, answer>>

Get(k) ==
  /\ answer' = IF k \in Held THEN store[k].value ELSE Empty
  /\ UNCHANGED <<store, now>>

Forget(S) ==
  /\ \A k \in S : now >= store[k].due
  /\ store' = [k \in Held \ S |-> store[k]]
  /\ UNCHANGED <<now, answer>>

Tick ==
  /\ now < MaxTime
  /\ now' = now + 1
  /\ UNCHANGED <<store, answer>>

Next ==
  \/ \E k \in Keys, v \in Values, ttl \in Ttls : Put(k, v, ttl)
  \/ \E k \in Keys : Get(k)
  \/ \E S \in SUBSET Held : Forget(S)
  \/ Tick

Spec == Init /\ [][Next]_vars
=============================================================================
