-------------------------------- MODULE Cache --------------------------------
(***************************************************************************)
(* The in-process cache of the daemon (class Cache, the build without      *)
(* memcached): one map under one mutex.  Every operation holds the mutex   *)
(* from its first access to its last and reads the clock at most once, so  *)
(* each is one action.  The expiry of an entry is a time_t sum kept in an  *)
(* int; getValue does not look at it, the warehouse's sweep does.          *)
(***************************************************************************)
EXTENDS Integers

CONSTANTS
  Keys,     \* cache keys
  Values,   \* texts that may be cached, the empty one included
  Ttls,     \* the values "expire" takes: any int
  MaxTime,  \* bound on the clock
  IntMax,   \* largest int (2147483647)
  Empty     \* the empty string, getValue's answer for an absent key

ASSUME CacheAssumption ==
  /\ MaxTime \in Nat
  /\ IntMax \in Nat
  /\ MaxTime <= 2 * IntMax
  /\ Ttls \subseteq (-IntMax - 1)..IntMax
  /\ Empty \in Values

VARIABLES
  minicache,  \* Cache::__minicache
  now,        \* time(NULL)
  answer,     \* what the last getValue returned
  due         \* history: the second each entry was meant to expire
vars == <<minicache, now, answer, due>>

Cached == DOMAIN minicache

TypeOK ==
  /\ Cached \subseteq Keys
  /\ minicache \in [Cached -> [expires : (-IntMax - 1)..IntMax, value : Values]]
  /\ now \in 0..MaxTime
  /\ answer \in Values
  /\ due \in [Cached -> Int]

Init ==
  /\ minicache = [k \in {} |-> Empty]
  /\ now = 0
  /\ answer = Empty
  /\ due = [k \in {} |-> 0]

(* time_t to int; the sum of a clock and an int overflows at most once.    *)
ToInt(n) == IF n > IntMax THEN n - 2 * (IntMax + 1) ELSE n

(* The warehouse's test, with the variants a slip would give.              *)
IsExpiredEarly(k) == now + 1 >= minicache[k].expires
IsExpiredExactly(k) == now = minicache[k].expires

IsExpired(k) == now >= minicache[k].expires

Lookup(k) == IF k \in Cached THEN minicache[k].value ELSE Empty

getValue(k) ==
  /\ answer' = Lookup(k)
  /\ UNCHANGED <<minicache, now, due>>

Assign(k, v, expire) ==
  minicache' = [x \in Cached \cup {k} |->
                  IF x = k THEN [expires |-> ToInt(now + expire), value |-> v]
                           ELSE minicache[x]]

setValue(k, v, expire) ==
  /\ Assign(k, v, expire)
  /\ due' = [x \in Cached \cup {k} |-> IF x = k THEN now + expire ELSE due[x]]
  /\ UNCHANGED <<now, answer>>

Fresh == {k \in Cached : ~IsExpired(k)}

KeepExpired == minicache' = minicache  \* faulty variant

EraseExpired == minicache' = [k \in Fresh |-> minicache[k]]

warehouse ==
  /\ EraseExpired
  /\ due' = [k \in Fresh |-> due[k]]
  /\ UNCHANGED <<now, answer>>

Tick ==
  /\ now < MaxTime
  /\ now' = now + 1
  /\ UNCHANGED <<minicache, answer, due>>

Next ==
  \/ \E k \in Keys : getValue(k)
  \/ \E k \in Keys, v \in Values, expire \in Ttls : setValue(k, v, expire)
  \/ warehouse
  \/ Tick

Spec == Init /\ [][Next]_vars

(* The warehouse thread sweeps in an endless loop (Listener::warehouse).   *)
FairSpec == Spec /\ WF_vars(warehouse)

-----------------------------------------------------------------------------
(* The cache is an ExpiringStore, as long as no expiry overflows its int:  *)
(* it loses a value only when its time to live is over, and serves the     *)
(* newest one until then.                                                  *)
Store == INSTANCE ExpiringStore WITH
  store <- [k \in Cached |-> [due |-> due[k], value |-> minicache[k].value]]

IsExpiringStore == Store!Spec

(* What is overdue does not stay: getValue would serve it for ever.  An    *)
(* entry that is not replaced disappears after its time.                   *)
OverdueForgotten ==
  \A k \in Keys :
    (k \in Cached /\ now >= minicache[k].expires)
      ~> (k \notin Cached \/ now < minicache[k].expires)
=============================================================================
