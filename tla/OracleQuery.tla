----------------------------- MODULE OracleQuery -----------------------------
(***************************************************************************)
(* Commands answered from the billing database (class DispatcherOracle)    *)
(* over the stateless connection pool (class Billing), the cache, and the  *)
(* warehouse's cancelRequest.  Every worker is the thread of one           *)
(* dispatcher, which executes one command:                                 *)
(*                                                                         *)
(*   look into the cache -> new BillingInstance (a connection, or NULL) -> *)
(*   query -> delete _bi -> _bi = NULL -> store in the cache -> send       *)
(*                                                                         *)
(* The database is a version number; an answer is the version it shows, or *)
(* the empty result that stands for "no connection" and for an SQL error   *)
(* alike.  The warehouse thread may call timeout() on a worker at any time *)
(* while it processes: the age it tests is that of the connection to the   *)
(* client, not of the query.                                               *)
(***************************************************************************)
EXTENDS Integers, FiniteSets

CONSTANTS
  Workers,     \* dispatcher threads
  Conns,       \* database connections the pool may open (15)
  MaxVersion,  \* bound on the changes of the database
  MaxTime,     \* bound on the clock of the cache
  IntMax       \* largest int, for the cache's expiries

ASSUME OracleAssumption ==
  /\ MaxVersion \in Nat
  /\ Workers \cap {"free", "none"} = {}
  /\ "none" \notin Conns

VARIABLES
  status,       \* "up", or "undefined" after a use of freed or wild memory
  pc, kind,     \* control state and command of each worker
  rv,           \* the answer each worker holds
  bi,           \* DispatcherOracle::_bi of each worker
  held,         \* BillingInstance::_conn of each worker
  started,      \* history: the database version when the command began
  idle,         \* connections in the pool
  lost,         \* history: connections the pool refused to take back
  poolMutex,    \* holder of Billing::__mutex
  db,           \* version of the database
  breaking,     \* connection whose call the warehouse is about to break
  targeted,     \* workers the warehouse wanted to interrupt
  interrupted,  \* workers whose query was broken
  minicache, now

poolVars   == <<idle, lost, poolMutex, held>>
cacheVars  == <<minicache, now>>
cancelVars == <<breaking, targeted, interrupted>>
vars == <<status, pc, kind, rv, bi, started, poolVars, db, cancelVars, cacheVars>>

Kinds == {"status", "forced", "check", "description", "raw"}
PCs   == {"idle", "new", "getting", "query", "close", "releasing", "freed",
          "store", "send", "done", "hung"}

Degraded == -1  \* an empty result set, or an error
Miss     == -2  \* the empty string
Answers  == 0..MaxVersion \cup {Degraded}

-----------------------------------------------------------------------------
(* What distinguishes the commands.  "status" stands for every command     *)
(* that reads the cache first and whose query catches all SQL errors,      *)
(* "forced" for status with the force parameter, "check" for               *)
(* check_initial_subscriber, which catches the errors of its query but not *)
(* that of terminateStatement, "description" for                           *)
(* get_status_description and "raw" for raw_sql, whose errors are thrown.  *)

AnyLooks(k) == k # "raw"  \* faulty variant: force is ignored

Looks(k) == k \in {"status", "check", "description"}

Stores(k) == k # "raw"

Throws(k) == k \in {"check", "description", "raw"}

Key(k) == CASE k = "check"       -> "INITIAL_SUBSCRIBER"
            [] k = "description" -> "STATUS_DESCRIPTION"
            [] OTHER             -> "STATUS"
Ttl(k) == IF k \in {"check", "description"} THEN 2 ELSE 1  \* 3600 s and 20 s

C == INSTANCE Cache WITH
  Keys <- {"STATUS", "STATUS_DESCRIPTION", "INITIAL_SUBSCRIBER"}, Values <- Answers \cup {Miss},
  Ttls <- {1, 2}, Empty <- Miss, answer <- Miss,
  due <- [k \in DOMAIN minicache |-> minicache[k].expires]

-----------------------------------------------------------------------------
TypeOK ==
  /\ status \in {"up", "undefined"}
  /\ pc \in [Workers -> PCs]
  /\ kind \in [Workers -> Kinds]
  /\ rv \in [Workers -> Answers]
  /\ bi \in [Workers -> {"garbage", "live", "freed", "null"}]
  /\ held \in [Workers -> Conns \cup {"none"}]
  /\ started \in [Workers -> 0..MaxVersion]
  /\ idle \subseteq Conns
  /\ lost \subseteq Conns
  /\ poolMutex \in Workers \cup {"free"}
  /\ db \in 0..MaxVersion
  /\ breaking \in Conns \cup {"none"}
  /\ interrupted \subseteq Workers
  /\ targeted \subseteq Workers
  /\ \A k \in DOMAIN minicache : minicache[k].value \in Answers

(* _bi is not initialised by the constructor.                              *)
Init ==
  /\ status = "up"
  /\ pc = [w \in Workers |-> "idle"]
  /\ kind \in [Workers -> Kinds]
  /\ rv = [w \in Workers |-> Degraded]
  /\ bi = [w \in Workers |-> "garbage"]
  /\ held = [w \in Workers |-> "none"]
  /\ started = [w \in Workers |-> 0]
  /\ idle = Conns
  /\ lost = {}
  /\ poolMutex = "free"
  /\ db = 0
  /\ breaking = "none"
  /\ targeted = {}
  /\ interrupted = {}
  /\ minicache = [k \in {} |-> Miss]
  /\ now = 0

Up == status = "up" /\ UNCHANGED status

Go(w, from, to) == pc[w] = from /\ pc' = [pc EXCEPT ![w] = to]

-----------------------------------------------------------------------------
(* The steps of a command.                                                 *)

(* A hit is a value that is not empty; the faulty variant does not test.   *)
HitOrMiss(w) == Looks(kind[w])

Hit(w) == Looks(kind[w]) /\ C!Lookup(Key(kind[w])) # Miss

CacheHit(w) ==
  /\ Hit(w)
  /\ Go(w, "idle", "send")
  /\ rv' = [rv EXCEPT ![w] = C!Lookup(Key(kind[w]))]
  /\ started' = [started EXCEPT ![w] = db]
  /\ Up /\ UNCHANGED <<kind, bi, poolVars, db, cancelVars, cacheVars>>

ReadFromSource(w) ==
  /\ ~Hit(w)
  /\ Go(w, "idle", "new")
  /\ started' = [started EXCEPT ![w] = db]
  /\ Up /\ UNCHANGED <<kind, rv, bi, poolVars, db, cancelVars, cacheVars>>

(* yieldConnection: a busy mutex gives no connection.                      *)
PoolBusy(w) ==
  /\ poolMutex # "free"
  /\ Go(w, "new", "query")
  /\ bi' = [bi EXCEPT ![w] = "live"]
  /\ Up /\ UNCHANGED <<kind, rv, started, poolVars, db, cancelVars, cacheVars>>

TryLockPool(w) ==
  /\ poolMutex = "free"
  /\ poolMutex' = w
  /\ Go(w, "new", "getting")
  /\ Up /\ UNCHANGED <<kind, rv, bi, started, idle, lost, held, db, cancelVars, cacheVars>>

(* getConnection, which may throw even if the pool is not empty.           *)
YieldConnection(w) ==
  /\ Go(w, "getting", "query")
  /\ \/ \E c \in idle : idle' = idle \ {c} /\ held' = [held EXCEPT ![w] = c]
     \/ UNCHANGED <<held, idle>>
  /\ poolMutex' = "free"
  /\ bi' = [bi EXCEPT ![w] = "live"]
  /\ Up /\ UNCHANGED <<kind, rv, started, lost, db, cancelVars, cacheVars>>

NoConnection(w) ==
  /\ held[w] = "none"
  /\ Go(w, "query", "close")
  /\ rv' = [rv EXCEPT ![w] = Degraded]
  /\ Up /\ UNCHANGED <<kind, bi, started, poolVars, db, cancelVars, cacheVars>>

QueryAnswers(w) ==
  /\ held[w] # "none"
  /\ Go(w, "query", "close")
  /\ rv' = [rv EXCEPT ![w] = db]
  /\ Up /\ UNCHANGED <<kind, bi, started, poolVars, db, cancelVars, cacheVars>>

(* An SQL error: a caught one is followed by the rows read so far; a       *)
(* thrown one leaves over the heads of "delete _bi" and the store.  In the *)
(* faulty variant no query catches it.                                     *)
AfterErrorAlways(w) == {"send"}

AfterError(w) == {"close"} \cup (IF Throws(kind[w]) THEN {"send"} ELSE {})

QueryFails(w) ==
  /\ held[w] # "none"
  /\ \E next \in AfterError(w) : Go(w, "query", next)
  /\ rv' = [rv EXCEPT ![w] = Degraded]
  /\ Up /\ UNCHANGED <<kind, bi, started, poolVars, db, cancelVars, cacheVars>>

(* delete _bi: the destructor returns the connection, if there is one.     *)
DeleteEmpty(w) ==
  /\ held[w] = "none"
  /\ Go(w, "close", "freed")
  /\ bi' = [bi EXCEPT ![w] = "freed"]
  /\ Up /\ UNCHANGED <<kind, rv, started, poolVars, db, cancelVars, cacheVars>>

LockPool(w) ==
  /\ held[w] # "none"
  /\ poolMutex = "free"
  /\ poolMutex' = w
  /\ Go(w, "close", "releasing")
  /\ Up /\ UNCHANGED <<kind, rv, bi, started, idle, lost, held, db, cancelVars, cacheVars>>

(* The pool takes the connection back, or throws; the error is caught, the *)
(* instance is deleted all the same, and nobody knows the connection any   *)
(* more.  In the faulty variant the destructor does not call the pool.     *)
GivesNothing(w) == UNCHANGED <<idle, lost>>

GivesBack(w) ==
  \/ idle' = idle \cup {held[w]} /\ UNCHANGED lost
  \/ lost' = lost \cup {held[w]} /\ UNCHANGED idle

ReleaseConnection(w) ==
  /\ Go(w, "releasing", "freed")
  /\ GivesBack(w)
  /\ held' = [held EXCEPT ![w] = "none"]
  /\ poolMutex' = "free"
  /\ bi' = [bi EXCEPT ![w] = "freed"]
  /\ Up /\ UNCHANGED <<kind, rv, started, db, cancelVars, cacheVars>>

(* The pool's own calls to the database may never return, with its mutex   *)
(* held; no break reaches them.                                            *)
PoolHangs(w) ==
  /\ \/ Go(w, "getting", "hung")
     \/ Go(w, "releasing", "hung")
  /\ Up /\ UNCHANGED <<kind, rv, bi, started, poolVars, db, cancelVars, cacheVars>>

ClearBi(w) ==
  /\ Go(w, "freed", "store")
  /\ bi' = [bi EXCEPT ![w] = "null"]
  /\ Up /\ UNCHANGED <<kind, rv, started, poolVars, db, cancelVars, cacheVars>>

Store(w) ==
  /\ Go(w, "store", "send")
  /\ IF Stores(kind[w]) THEN C!Assign(Key(kind[w]), rv[w], Ttl(kind[w]))
                        ELSE UNCHANGED minicache
  /\ Up /\ UNCHANGED <<kind, rv, bi, started, poolVars, db, cancelVars, now>>

Send(w) ==
  /\ Go(w, "send", "done")
  /\ Up /\ UNCHANGED <<kind, rv, bi, started, poolVars, db, cancelVars, cacheVars>>

-----------------------------------------------------------------------------
(* The warehouse thread.                                                   *)

Processing(w) == pc[w] \notin {"idle", "done"}

(* timeout() on a worker whose _bi points to an instance: it reads the     *)
(* connection of the instance, and nothing keeps the worker from returning *)
(* it meanwhile.                                                           *)
CancelLoad(w) ==
  /\ breaking = "none"
  /\ Processing(w)
  /\ bi[w] = "live"
  /\ held[w] # "none"
  /\ breaking' = held[w]
  /\ targeted' = targeted \cup {w}
  /\ Up /\ UNCHANGED <<pc, kind, rv, bi, started, poolVars, db, interrupted, cacheVars>>

(* timeout() on a worker that has not set _bi yet: the pointer of the new   *)
(* object is whatever the heap held, which may be NULL.                    *)
CancelUnset(w) ==
  /\ breaking = "none"
  /\ Processing(w)
  /\ bi[w] = "garbage"
  /\ targeted' = targeted \cup {w}
  /\ status = "up" /\ status' \in {"up", "undefined"}
  /\ UNCHANGED <<pc, kind, rv, bi, started, poolVars, db, breaking, interrupted, cacheVars>>

(* timeout() on a worker between "delete _bi" and "_bi = NULL": the memory *)
(* of the instance may hold the old connection, be another instance, or    *)
(* hold anything.                                                          *)
CancelDeleted(w) ==
  /\ breaking = "none"
  /\ Processing(w)
  /\ bi[w] = "freed"
  /\ targeted' = targeted \cup {w}
  /\ status = "up"
  /\ \/ status' = "undefined" /\ UNCHANGED breaking
     \/ breaking' \in Conns /\ UNCHANGED status
  /\ UNCHANGED <<pc, kind, rv, bi, started, poolVars, db, interrupted, cacheVars>>

(* OCIBreak and OCIReset: the call running on the connection, whoever      *)
(* made it, will fail.  The faulty variant only prints.                    *)
BreakNobody == interrupted' = interrupted

BreakUsers == interrupted' =
  interrupted \cup {w \in Workers : held[w] = breaking /\ pc[w] = "query"}

CancelBreak ==
  /\ breaking # "none"
  /\ BreakUsers
  /\ breaking' = "none"
  /\ Up /\ UNCHANGED <<pc, kind, rv, bi, started, poolVars, db, targeted, cacheVars>>

Sweep ==
  /\ C!EraseExpired
  /\ Up /\ UNCHANGED <<pc, kind, rv, bi, started, poolVars, db, cancelVars, now>>

-----------------------------------------------------------------------------
(* The database and the clock.                                             *)

Change ==
  /\ db < MaxVersion
  /\ db' = db + 1
  /\ Up /\ UNCHANGED <<pc, kind, rv, bi, started, poolVars, cancelVars, cacheVars>>

Tick ==
  /\ now < MaxTime
  /\ now' = now + 1
  /\ Up /\ UNCHANGED <<pc, kind, rv, bi, started, poolVars, db, cancelVars, minicache>>

-----------------------------------------------------------------------------
Step(w) ==
  \/ CacheHit(w) \/ ReadFromSource(w) \/ PoolBusy(w) \/ TryLockPool(w)
  \/ YieldConnection(w) \/ NoConnection(w) \/ QueryAnswers(w) \/ QueryFails(w)
  \/ DeleteEmpty(w) \/ LockPool(w) \/ ReleaseConnection(w)
  \/ PoolHangs(w) \/ ClearBi(w)
  \/ Store(w) \/ Send(w)

Next ==
  \/ \E w \in Workers : Step(w) \/ CancelLoad(w) \/ CancelUnset(w) \/ CancelDeleted(w)
  \/ CancelBreak \/ Sweep \/ Change \/ Tick

Spec == Init /\ [][Next]_vars

(***************************************************************************)
(* Fairness.  A worker takes every step that waits for nobody; the         *)
(* blocking lock of releaseConnection is strongly fair.  Nothing is        *)
(* assumed of the database: a running query ends only if it likes to, or   *)
(* after a break, and a call of the pool returns or hangs (PoolHangs).     *)
(* The warehouse visits every dispatcher once a second.                    *)
(***************************************************************************)
Fairness ==
  /\ WF_vars(CancelBreak)
  /\ \A w \in Workers :
       /\ WF_vars(PoolBusy(w) \/ TryLockPool(w))
       /\ WF_vars(YieldConnection(w) \/ ReleaseConnection(w) \/ PoolHangs(w))
       /\ WF_vars(NoConnection(w) \/ DeleteEmpty(w) \/ ClearBi(w) \/ Store(w) \/ Send(w))
       /\ SF_vars(LockPool(w))
       /\ WF_vars(w \in interrupted /\ QueryFails(w))
       /\ SF_vars(CancelLoad(w))

FairSpec == Spec /\ Fairness

-----------------------------------------------------------------------------
(***************************************************************************)
(* Safety.                                                                 *)
(***************************************************************************)

(* Every connection is in exactly one place: in the pool, with one worker, *)
(* or lost because the pool refused to take it back.  None is shared by    *)
(* two queries, and none vanishes in any other way.  (yieldConnection and  *)
(* releaseConnection under the pool mutex, the BillingInstance in between.) *)
ConnectionsAccounted ==
  \A c \in Conns :
    /\ c \in idle => c \notin lost
    /\ c \in idle \cup lost => \A w \in Workers : held[w] # c
    /\ c \notin idle \cup lost => \E w \in Workers : held[w] = c
    /\ \A v, w \in Workers : held[v] = c /\ held[w] = c => v = w

(* A worker that has answered keeps its connection only if its query may   *)
(* throw: raw_sql, get_status_description, and check_initial_subscriber,   *)
(* whose terminateStatement is outside its try.  The other commands catch  *)
(* every error and return the connection.  (the paths through delete _bi)  *)
OnlyThrowLeaks ==
  \A w \in Workers : pc[w] = "done" /\ held[w] # "none" => Throws(kind[w])

(* A forced status, and raw SQL, never answer with less than what the      *)
(* database held when the command began, whatever the cache holds and      *)
(* whoever stores in it meanwhile.  (getOnlineData's force, querySQL)      *)
BypassIsFresh ==
  \A w \in Workers :
    kind[w] \in {"forced", "raw"} /\ pc[w] \in {"send", "done"}
      => rv[w] = Degraded \/ rv[w] >= started[w]

(* "Long running thread should be killed at ...": the query that is broken *)
(* belongs to the dispatcher the warehouse names.                          *)
BreakHitsTarget == interrupted \subseteq targeted

(***************************************************************************)
(* Liveness.                                                               *)
(***************************************************************************)

(* Every command that has begun is answered even if the database never     *)
(* answers its query, since the warehouse breaks it, and no order of the   *)
(* pool's trylocks and locks makes a worker wait for ever.  Two are left   *)
(* out: the one that hangs in the pool itself, and behind it those that    *)
(* have a connection to return.  A worker that has none is answered even   *)
(* then, since yieldConnection only tries the mutex.                       *)
BehindHung(w) ==
  pc[w] = "close" /\ held[w] # "none" /\ \E v \in Workers : pc[v] = "hung"

Answered ==
  \A w \in Workers :
    Processing(w) ~> (pc[w] \in {"done", "hung"} \/ BehindHung(w) \/ status # "up")
=============================================================================
