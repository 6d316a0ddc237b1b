----------------------------- MODULE DaemonProofs -----------------------------
(* Proofs about Daemon: the descriptors and the log, for any threads, any   *)
(* number of rotations and any size of the table; the configuration and the *)
(* dictionary, for any files that include each other without a circle.      *)
EXTENDS Daemon, FiniteSetTheorems, SequenceTheorems, NaturalsInduction, TLAPS

Contents == {FreeFd, Terminal} \cup {LogFile(n) : n \in Nat} \cup {Socket(o) : o \in Owners}

FdsOK ==
  /\ table \in [Fds -> Contents]
  /\ own \in [Owners -> Fds \cup {-1}]
  /\ logFd \in [Rotators -> Fds \cup {-1}]
  /\ at = [r \in Rotators |-> at[r]]
  /\ logs \in Nat

(* Between open and close(fd) a call of logrotate() has a descriptor of its *)
(* own, -1 if the log could not be opened.  Unless it is 1 or 2, which      *)
(* another call may close, it refers to a log, and no other call has it.    *)
LogFdInv ==
  \A r \in Rotators : Rotating(r) /\ logFd[r] \notin {-1, 1, 2} =>
    /\ table[logFd[r]].kind = "log"
    /\ \A q \in Rotators \ {r} : Rotating(q) => logFd[q] # logFd[r]

IInv == FdsOK /\ LogFdInv /\ ConnectionsIntact

-----------------------------------------------------------------------------
(* What a descriptor refers to can be told by its kind, a socket by its     *)
(* owner.                                                                   *)
LEMMA Kinds ==
  /\ FreeFd.kind = "free" /\ Terminal.kind = "terminal"
  /\ \A n : LogFile(n).kind = "log"
  /\ \A o : Socket(o).kind = "socket" /\ Socket(o).of = o
BY DEF FreeFd, Terminal, LogFile, Socket

(* The invariant holds initially.  *)
LEMMA InitIInv == Init => IInv
<1> SUFFICES ASSUME Init PROVE IInv
  OBVIOUS
<1>1. at = [r \in Rotators |-> "idle"] /\ own = [o \in Owners |-> -1]
  BY DEF Init
<1>2. FdsOK
  BY DEF Init, FdsOK, Contents
<1>3. LogFdInv /\ ConnectionsIntact
  BY <1>1 DEF LogFdInv, Rotating, ConnectionsIntact
<1>4. QED
  BY <1>2, <1>3 DEF IInv

(* The steps that do not touch the descriptors and the rotations.           *)
LEMMA Apart ==
  ASSUME IInv, UNCHANGED <<table, own, at, logFd, logs>>
  PROVE  IInv'
BY DEF IInv, FdsOK, LogFdInv, ConnectionsIntact, Rotating

(* A rotation that begins holds no descriptor yet.  *)
LEMMA Beginning ==
  ASSUME IInv, NEW r \in Rotators, at' = [at EXCEPT ![r] = "open"],
         UNCHANGED <<table, own, logFd, logs>>
  PROVE  IInv'
<1>1. at = [q \in Rotators |-> at[q]]
  BY DEF IInv, FdsOK
<1>2. \A q \in Rotators : Rotating(q)' => q # r /\ Rotating(q)
  BY <1>1 DEF Rotating
<1>3. LogFdInv'
  BY <1>2 DEF IInv, LogFdInv
<1>4. FdsOK' /\ ConnectionsIntact'
  BY <1>1 DEF IInv, FdsOK, ConnectionsIntact
<1>5. QED
  BY <1>3, <1>4 DEF IInv

(* A descriptor for a socket is taken from those that are free.  *)
LEMMA Opening ==
  ASSUME IInv, NEW o \in Owners, OpenSocket(o), UNCHANGED <<at, logFd, logs>>
  PROVE  IInv'
<1>1. PICK fd \in Fds : /\ table[fd] = FreeFd
                        /\ table' = [table EXCEPT ![fd] = Socket(o)]
                        /\ own' = [own EXCEPT ![o] = fd]
  BY DEF OpenSocket, IsLowest
<1>2. FdsOK'
  BY <1>1 DEF IInv, FdsOK, Contents
<1>3. LogFdInv'
  BY <1>1, Kinds DEF IInv, FdsOK, LogFdInv, Rotating
<1>4. ConnectionsIntact'
  BY <1>1, Kinds DEF IInv, FdsOK, ConnectionsIntact
<1>5. QED
  BY <1>2, <1>3, <1>4 DEF IInv

(* close() on a connection gives back its own descriptor, or 1 or 2.  *)
LEMMA Closing ==
  ASSUME IInv, NEW t \in Threads, Close(t)
  PROVE  IInv'
<1>1. /\ t \in Owners /\ own[t] \in Fds
      /\ table' = [table EXCEPT ![own[t]] = FreeFd]
      /\ own' = [own EXCEPT ![t] = -1]
      /\ UNCHANGED <<at, logFd, logs>>
  BY DEF Close, IInv, FdsOK, Owners, logVars
<1>2. FdsOK'
  BY <1>1 DEF IInv, FdsOK, Contents
<1>3. own[t] \in {1, 2} \/ table[own[t]] = Socket(t)
  BY <1>1, DaemonAssumption DEF IInv, ConnectionsIntact, Fds
<1>4. LogFdInv'
  BY <1>1, <1>3, Kinds DEF IInv, FdsOK, LogFdInv, Rotating
<1>5. ConnectionsIntact'
  BY <1>1, <1>3, Kinds DEF IInv, FdsOK, ConnectionsIntact
<1>6. QED
  BY <1>2, <1>4, <1>5 DEF IInv

-----------------------------------------------------------------------------
(* The steps of logrotate().                                                *)

(* A step moves its own call only.  *)
LEMMA Advancing ==
  ASSUME IInv, NEW r \in Rotators, Advance(r)
  PROVE  /\ at' = [q \in Rotators |-> at'[q]] /\ own' = own
         /\ \A q \in Rotators \ {r} : at'[q] = at[q]
         /\ at'[r] = NextStep(r)
<1>1. at = [q \in Rotators |-> at[q]]
  BY DEF IInv, FdsOK
<1>2. at' = [at EXCEPT ![r] = NextStep(r)] /\ own' = own
  BY DEF Advance
<1>3. QED
  BY <1>1, <1>2

(* Opening the log takes a descriptor that is free.  *)
LEMMA LogOpens == ASSUME IInv, NEW r \in Rotators, OpenLog(r) PROVE IInv'
<1>1. PICK fd \in Fds : /\ table[fd] = FreeFd
                        /\ table' = [table EXCEPT ![fd] = LogFile(logs + 1)]
                        /\ logFd' = [logFd EXCEPT ![r] = fd]
  BY DEF OpenLog, IsLowest
<1>2. logs' = logs + 1 /\ Advance(r)
  BY DEF OpenLog
<1>3. FdsOK'
  <2>1. logs + 1 \in Nat /\ LogFile(logs + 1) \in Contents
    BY DEF IInv, FdsOK, Contents
  <2>2. QED
    BY <1>1, <1>2, <2>1, Advancing DEF IInv, FdsOK
<1>4. LogFdInv'
  BY <1>1, <1>2, Advancing, Kinds DEF IInv, FdsOK, LogFdInv, Rotating
<1>5. ConnectionsIntact'
  BY <1>1, <1>2, Advancing, Kinds DEF IInv, FdsOK, ConnectionsIntact
<1>6. QED
  BY <1>3, <1>4, <1>5 DEF IInv

(* A log that cannot be opened leaves the call without a descriptor.  *)
LEMMA LogFails == ASSUME IInv, NEW r \in Rotators, OpenLogFails(r) PROVE IInv'
<1>1. /\ logFd' = [logFd EXCEPT ![r] = -1]
      /\ UNCHANGED <<table, logs>> /\ Advance(r)
  BY DEF OpenLogFails, NoDescriptor
<1>2. FdsOK' /\ ConnectionsIntact'
  BY <1>1, Advancing DEF IInv, FdsOK, ConnectionsIntact
<1>3. LogFdInv'
  BY <1>1, Advancing DEF IInv, FdsOK, LogFdInv, Rotating
<1>4. QED
  BY <1>2, <1>3 DEF IInv

(* What the calls of close() free is 1, 2 or the call's own descriptor,     *)
(* which is not used by it any more.                                        *)
LEMMA Closes == ASSUME IInv, NEW r \in Rotators, CloseStep(r) PROVE IInv'
<1>1. /\ at[r] \in {"close2", "close1", "closeFd"}
      /\ UNCHANGED <<logFd, logs>> /\ Advance(r)
  BY DEF CloseStep
<1>2. PICK fd : /\ fd \in {1, 2} \/ (fd = logFd[r] /\ at[r] = "closeFd")
                /\ table' = [n \in Fds |-> IF n = fd THEN FreeFd ELSE table[n]]
  BY DEF CloseStep
<1>3. at[r] = "closeFd" => at'[r] = "idle"
  BY <1>1, Advancing DEF NextStep
<1>4. Rotating(r) /\ \A q \in Rotators : Rotating(q)' => Rotating(q)
  BY <1>1, Advancing DEF Rotating
<1>5. FdsOK'
  BY <1>1, <1>2, Advancing DEF IInv, FdsOK, Contents
<1>6. LogFdInv'
  <2>1. \A q \in Rotators : Rotating(q)' /\ logFd[q] \notin {-1, 1, 2} => logFd[q] # fd
    BY <1>2, <1>3, <1>4 DEF IInv, LogFdInv, Rotating
  <2>2. QED
    BY <1>1, <1>2, <1>4, <2>1 DEF IInv, FdsOK, LogFdInv
<1>7. ConnectionsIntact'
  <2>1. fd \in {-1, 1, 2} \/ (fd \in Fds /\ table[fd].kind = "log")
    BY <1>2, <1>4 DEF IInv, FdsOK, LogFdInv
  <2>2. QED
    BY <1>1, <1>2, <2>1, Advancing, Kinds DEF IInv, FdsOK, ConnectionsIntact
<1>8. QED
  BY <1>5, <1>6, <1>7 DEF IInv

(* dup2() changes nothing but 1 or 2.  *)
LEMMA Dups == ASSUME IInv, NEW r \in Rotators, DupStep(r) PROVE IInv'
<1>1. /\ at[r] \in {"dup2", "dup1"} /\ UNCHANGED <<logFd, logs>> /\ Advance(r)
  BY DEF DupStep
<1>2. PICK target \in {1, 2} : table' = Dup(logFd[r], target)
  BY DEF DupStep
<1>3. /\ table' \in [Fds -> Contents]
      /\ \A n \in Fds \ {1, 2} : table'[n] = table[n]
  BY <1>2 DEF Dup, IInv, FdsOK
<1>4. \A q \in Rotators : Rotating(q)' => Rotating(q)
  BY <1>1, Advancing DEF Rotating
<1>5. FdsOK'
  BY <1>1, <1>3, Advancing DEF IInv, FdsOK
<1>6. LogFdInv'
  BY <1>1, <1>3, <1>4 DEF IInv, FdsOK, LogFdInv
<1>7. ConnectionsIntact'
  BY <1>1, <1>3, Advancing DEF IInv, FdsOK, ConnectionsIntact
<1>8. QED
  BY <1>5, <1>6, <1>7 DEF IInv

-----------------------------------------------------------------------------
(* The invariant holds in every reachable state.  *)
LEMMA StepIInv == ASSUME IInv, [Next]_vars PROVE IInv'
<1> USE DEF logVars
<1>1. CASE ParseLine \/ Include \/ IncludeNothing \/ EndOfFile
  BY <1>1, Apart DEF ParseLine, Include, IncludeNothing, EndOfFile
<1>2. CASE ReadLine \/ EndOfConfiguration
  BY <1>2, Apart DEF ReadLine, EndOfConfiguration
<1>3. CASE KeepUser
  BY <1>3, Apart, Beginning DEF KeepUser, Rotators
<1>4. CASE UnknownUser \/ StartFails
  BY <1>4, Apart DEF UnknownUser, StartFails
<1>5. CASE StartService
  BY <1>5, Opening DEF StartService, Owners
<1>6. ASSUME NEW h \in Handlers, Signal(h) PROVE IInv'
  BY <1>6, Beginning DEF Signal, Rotators
<1>7. ASSUME NEW t \in Threads, Accept(t) PROVE IInv'
  BY <1>7, Opening DEF Accept, Owners
<1>8. ASSUME NEW t \in Threads, Close(t) PROVE IInv'
  BY <1>8, Closing
<1>9. ASSUME NEW r \in Rotators, Rotate(r) PROVE IInv'
  BY <1>9, LogOpens, LogFails, Closes, Dups DEF Rotate
<1>10. CASE UNCHANGED vars
  BY <1>10, Apart DEF vars
<1>11. QED
  BY <1>1, <1>2, <1>3, <1>4, <1>5, <1>6, <1>7, <1>8, <1>9, <1>10 DEF Next

(* Whatever the log rotations do, also when they fail or overlap, a         *)
(* connection keeps its socket unless it was given descriptor 1 or 2.       *)
THEOREM ConnectionsStayIntact == Spec => []ConnectionsIntact
<1>1. IInv /\ [Next]_vars => IInv'
  BY StepIInv
<1>2. QED
  BY InitIInv, <1>1, PTL DEF Spec, IInv
-----------------------------------------------------------------------------
(* The log.  As long as nothing of what Daemon calls a mishap happens, one  *)
(* rotation is under way at a time, and the steps it has made can be read   *)
(* off the table.                                                           *)

Settled == \A r \in Rotators : ~Rotating(r)

(* Before the first log standard output and error are the terminal's.       *)
NewestLog == IF logs = 0 THEN Terminal ELSE LogFile(logs)

(* The logs that are open are the newest, on descriptor 1 or 2, and on the  *)
(* descriptor of a rotation that is under way.                              *)
NoOtherLog(fds) == \A fd \in Fds \ fds : table[fd].kind # "log"

RotationInv(r) ==
  /\ logFd[r] \in Fds \ {1, 2}
  /\ table[logFd[r]] = LogFile(logs)
  /\ NoOtherLog({1, 2, logFd[r]})
  /\ at[r] \in {"close1", "dup1", "closeFd"} => table[2] = LogFile(logs)
  /\ at[r] = "closeFd" => table[1] = LogFile(logs)

LogInv ==
  /\ \A r \in Rotators : at[r] \in Range(RotationSteps)
  /\ phase \in {"dictionary", "configuration", "user"} => at["main"] = "idle"
  /\ phase \in {"dictionary", "configuration"} => MainRuns
  /\ mishaps = {} =>
       /\ \A r, q \in Rotators : Rotating(r) /\ Rotating(q) => r = q
       /\ \A o \in Owners : own[o] \notin {1, 2}
       /\ \A r \in Rotators : Rotating(r) => logs > 0 /\ RotationInv(r)
       /\ Settled => table[1] = NewestLog /\ table[2] = NewestLog /\ NoOtherLog({1, 2})

(* The steps of a rotation, in their order.  *)
LEMMA StepOrder ==
  ASSUME NEW r \in Rotators
  PROVE  /\ at[r] = "open" => NextStep(r) = "close2"
         /\ at[r] = "close2" => NextStep(r) = "dup2"
         /\ at[r] = "dup2" => NextStep(r) = "close1"
         /\ at[r] = "close1" => NextStep(r) = "dup1"
         /\ at[r] = "dup1" => NextStep(r) = "closeFd"
         /\ at[r] = "closeFd" => NextStep(r) = "idle"
<1> DEFINE Steps == RotationSteps
<1>1. /\ DOMAIN Steps = 1..7
      /\ Steps[1] = "idle" /\ Steps[2] = "open" /\ Steps[3] = "close2" /\ Steps[4] = "dup2"
      /\ Steps[5] = "close1" /\ Steps[6] = "dup1" /\ Steps[7] = "closeFd"
  BY DEF RotationSteps
<1>2. \A i \in 1..7 : Steps[i] = at[r] => StepOf(r) = i
  <2> SUFFICES ASSUME NEW i \in 1..7, Steps[i] = at[r] PROVE StepOf(r) = i
    OBVIOUS
  <2>1. \A j \in 1..7 : Steps[j] = at[r] => j = i
    BY <1>1
  <2>2. QED
    BY <1>1, <2>1 DEF StepOf
<1>3. QED
  BY <1>1, <1>2 DEF NextStep

(* The values of at.  *)
LEMMA Steps ==
  Range(RotationSteps) = {"idle", "open", "close2", "dup2", "close1", "dup1", "closeFd"}
BY DEF RotationSteps, Range

LEMMA StandardFds == 1 \in Fds /\ 2 \in Fds
<1>1. Cardinality(Threads) \in Nat /\ Cardinality(Handlers) \in Nat
  BY DaemonAssumption, FS_CardinalityType
<1>2. QED
  BY <1>1, DaemonAssumption DEF Fds

LEMMA InitLogInv == Init => LogInv
<1> SUFFICES ASSUME Init PROVE LogInv
  OBVIOUS
<1>1. at = [r \in Rotators |-> "idle"] /\ own = [o \in Owners |-> -1] /\ logs = 0
  BY DEF Init
<1>2. table[1] = Terminal /\ table[2] = Terminal /\ NoOtherLog({1, 2})
  BY StandardFds, Kinds DEF Init, NoOtherLog
<1>3. QED
  BY <1>1, <1>2, Steps DEF LogInv, Rotating, NewestLog, Rotators, MainRuns

(* A step of the daemon that neither touches descriptors nor rotations.     *)
LEMMA LogApart ==
  ASSUME LogInv, UNCHANGED <<table, own, at, logFd, logs, mishaps>>,
         \A ps \in {{"dictionary", "configuration"}, {"dictionary", "configuration", "user"}} :
            phase' \in ps => phase \in ps
  PROVE  LogInv'
BY DEF LogInv, RotationInv, Settled, NoOtherLog, NewestLog, Rotating, MainRuns

(* A rotation that is begun has no descriptor yet.                          *)
LEMMA LogBeginning ==
  ASSUME FdsOK, LogInv, NEW r \in Rotators, at[r] = "idle", at' = [at EXCEPT ![r] = "open"],
         UNCHANGED <<table, own, logFd, logs, mishaps>>,
         phase' \in {"dictionary", "configuration", "user"} =>
           r # "main" /\ phase = "user" /\ phase' = "user"
  PROVE  LogInv'
<1>1. at = [q \in Rotators |-> at[q]] /\ "main" \in Rotators
  BY DEF FdsOK, Rotators
<1>2. \A q \in Rotators : Rotating(q)' <=> Rotating(q)
  BY <1>1 DEF Rotating
<1>3. \A q \in Rotators : at'[q] \in Range(RotationSteps)
  BY <1>1, Steps DEF LogInv
<1>4. \A q \in Rotators : Rotating(q) => at'[q] = at[q]
  BY <1>1 DEF Rotating
<1>5. \A q \in Rotators : Rotating(q) /\ RotationInv(q) => RotationInv(q)'
  BY <1>4 DEF RotationInv, NoOtherLog
<1>6. ASSUME mishaps = {}, NEW p \in Rotators, NEW q \in Rotators, Rotating(p)', Rotating(q)'
      PROVE  p = q
  BY <1>2, <1>6 DEF LogInv
<1>7. /\ phase' \in {"dictionary", "configuration", "user"} => at'["main"] = "idle"
      /\ phase' \notin {"dictionary", "configuration"}
  BY <1>1 DEF LogInv, Rotators
<1>8. QED
  BY <1>2, <1>3, <1>5, <1>6, <1>7 DEF LogInv, Settled, NewestLog, NoOtherLog

(* A socket takes a descriptor that refers to no log; if it is 1 or 2, that *)
(* is a mishap.                                                             *)
LEMMA LogOpening ==
  ASSUME FdsOK, LogInv, NEW o \in Owners, OpenSocket(o), UNCHANGED <<at, logFd, logs>>,
         phase' \notin {"dictionary", "configuration", "user"}
  PROVE  LogInv'
<1>1. PICK fd \in Fds : /\ table[fd] = FreeFd
                        /\ table' = [table EXCEPT ![fd] = Socket(o)]
                        /\ own' = [own EXCEPT ![o] = fd]
                        /\ mishaps' = {} => mishaps = {} /\ fd \notin {1, 2}
  BY DEF OpenSocket, IsLowest
<1>2. \A fds : NoOtherLog(fds) => NoOtherLog(fds)'
  BY <1>1, Kinds DEF FdsOK, NoOtherLog
<1>3. ASSUME mishaps' = {}
      PROVE  /\ table'[1] = table[1] /\ table'[2] = table[2]
             /\ \A p \in Owners : own'[p] \notin {1, 2}
  BY <1>1, <1>3, StandardFds DEF FdsOK, LogInv
<1>4. ASSUME mishaps' = {}, NEW r \in Rotators, Rotating(r) PROVE RotationInv(r)'
  <2>1. RotationInv(r) /\ logFd'[r] = logFd[r] /\ at'[r] = at[r] /\ logs' = logs
    BY <1>1, <1>4 DEF LogInv
  <2>2. table'[logFd[r]] = LogFile(logs)
    BY <1>1, <2>1, Kinds DEF FdsOK, RotationInv
  <2>3. NoOtherLog({1, 2, logFd[r]})'
    BY <1>2, <2>1 DEF RotationInv, NoOtherLog
  <2>4. QED
    BY <1>3, <1>4, <2>1, <2>2, <2>3 DEF RotationInv
<1>5. QED
  BY <1>1, <1>2, <1>3, <1>4 DEF LogInv, Settled, Rotating, NewestLog

(* Closing a connection frees a descriptor that refers to its socket.       *)
LEMMA LogClosing ==
  ASSUME IInv, LogInv, NEW t \in Threads, Close(t)
  PROVE  LogInv'
<1>1. /\ t \in Owners /\ own[t] \in Fds
      /\ table' = [table EXCEPT ![own[t]] = FreeFd]
      /\ own' = [own EXCEPT ![t] = -1]
      /\ UNCHANGED <<phase, at, logFd, logs, mishaps>>
  BY DEF Close, IInv, FdsOK, Owners, logVars
<1>2. FdsOK
  BY DEF IInv
<1>3. ASSUME mishaps = {} PROVE own[t] \notin {1, 2} /\ table[own[t]] = Socket(t)
  BY <1>1, <1>3 DEF IInv, ConnectionsIntact, LogInv, Fds
<1>4. \A fds : NoOtherLog(fds) => NoOtherLog(fds)'
  BY <1>1, <1>2, Kinds DEF FdsOK, NoOtherLog
<1>5. ASSUME mishaps = {}
      PROVE  /\ table'[1] = table[1] /\ table'[2] = table[2]
             /\ \A p \in Owners : own'[p] \notin {1, 2}
  BY <1>1, <1>2, <1>3, <1>5, StandardFds DEF FdsOK, LogInv
<1>6. ASSUME mishaps = {}, NEW r \in Rotators, Rotating(r) PROVE RotationInv(r)'
  <2>1. RotationInv(r) /\ logFd'[r] = logFd[r] /\ at'[r] = at[r] /\ logs' = logs
    BY <1>1, <1>6 DEF LogInv
  <2>2. table'[logFd[r]] = LogFile(logs)
    BY <1>1, <1>2, <1>3, <1>6, <2>1, Kinds DEF FdsOK, RotationInv
  <2>3. NoOtherLog({1, 2, logFd[r]})'
    BY <1>4, <2>1 DEF RotationInv, NoOtherLog
  <2>4. QED
    BY <1>5, <1>6, <2>1, <2>2, <2>3 DEF RotationInv
<1>7. UNCHANGED <<phase, at, logs, mishaps>> /\ MainRuns' = MainRuns
  BY <1>1 DEF MainRuns
<1>8. QED
  BY <1>4, <1>5, <1>6, <1>7 DEF LogInv, Settled, Rotating, NewestLog

-----------------------------------------------------------------------------
(* What every step of a rotation has in common.                             *)
LEMMA LogAdvancing ==
  ASSUME IInv, LogInv, NEW r \in Rotators, Advance(r), at[r] # "idle",
         mishaps' = {} => \A q \in Rotators \ {r} : ~Rotating(q)
  PROVE  /\ \A q \in Rotators : at'[q] \in Range(RotationSteps)
         /\ phase' \in {"dictionary", "configuration", "user"} => at'["main"] = "idle"
         /\ phase' \notin {"dictionary", "configuration"}
         /\ mishaps' = {} => \A q \in Rotators \ {r} : ~Rotating(q)'
<1>1. /\ \A q \in Rotators \ {r} : at'[q] = at[q]
      /\ at'[r] = NextStep(r)
      /\ phase' \in {phase, "start"}
  BY Advancing DEF Advance
<1>2. at[r] \in {"open", "close2", "dup2", "close1", "dup1", "closeFd"}
  BY Steps DEF LogInv
<1>3. NextStep(r) \in {"close2", "dup2", "close1", "dup1", "closeFd", "idle"}
  BY <1>2, StepOrder
<1>4. \A q \in Rotators : at'[q] \in Range(RotationSteps)
  BY <1>1, <1>3, Steps DEF LogInv
<1>5. /\ phase' \in {"dictionary", "configuration", "user"} => at'["main"] = "idle"
      /\ phase' \notin {"dictionary", "configuration"}
  BY <1>1 DEF LogInv, Rotators, MainRuns
<1>6. ASSUME mishaps' = {} PROVE \A q \in Rotators \ {r} : ~Rotating(q)'
  BY <1>1, <1>6 DEF Rotating
<1>7. QED
  BY <1>4, <1>5, <1>6

(* It is enough to look at the rotation that makes the step.                *)
LEMMA LogStep ==
  ASSUME IInv, LogInv, NEW r \in Rotators, Advance(r), at[r] # "idle",
         mishaps' = {} =>
            mishaps = {} /\ logs' > 0 /\ \A q \in Rotators \ {r} : ~Rotating(q),
         mishaps' = {} /\ NextStep(r) # "idle" => RotationInv(r)',
         mishaps' = {} /\ NextStep(r) = "idle" =>
            /\ table'[1] = LogFile(logs') /\ table'[2] = LogFile(logs')
            /\ NoOtherLog({1, 2})'
  PROVE  LogInv'
<1>1. at'[r] = NextStep(r) /\ own' = own
  BY Advancing
<1>2. NextStep(r) # "open"
  BY Steps, StepOrder DEF LogInv
<1>3. ASSUME mishaps' = {}
      PROVE  \A q \in Rotators : Rotating(q)' => logs' > 0 /\ RotationInv(q)'
  BY <1>1, <1>3, LogAdvancing DEF Rotating
<1>4. ASSUME mishaps' = {}, Settled'
      PROVE  table'[1] = NewestLog' /\ table'[2] = NewestLog' /\ NoOtherLog({1, 2})'
  <2>1. NextStep(r) = "idle"
    BY <1>1, <1>2, <1>4 DEF Settled, Rotating
  <2>2. QED
    BY <1>4, <2>1, IInv DEF NewestLog
<1>5. ASSUME mishaps' = {}, NEW p \in Rotators, NEW q \in Rotators, Rotating(p)', Rotating(q)'
      PROVE  p = q
  BY <1>5, LogAdvancing
<1>6. phase' \in {"dictionary", "configuration"} => MainRuns'
  BY LogAdvancing
<1>7. mishaps' = {} => \A o \in Owners : own'[o] \notin {1, 2}
  BY <1>1 DEF LogInv
<1>8. QED
  BY <1>3, <1>4, <1>5, <1>6, <1>7, LogAdvancing DEF LogInv


(* The log opens on a descriptor above the standard ones, which are both    *)
(* taken while no rotation is under way.                                    *)
LEMMA LogOpensNewest == ASSUME IInv, LogInv, NEW r \in Rotators, OpenLog(r) PROVE LogInv'
<1>1. PICK fd \in Fds : /\ table[fd] = FreeFd
                        /\ table' = [table EXCEPT ![fd] = LogFile(logs + 1)]
                        /\ logFd' = [logFd EXCEPT ![r] = fd]
  BY DEF OpenLog, IsLowest
<1>2. /\ at[r] = "open" /\ logs' = logs + 1 /\ Advance(r)
      /\ mishaps' = {} => mishaps = {} /\ \A q \in Rotators : ~Rotating(q)
  BY DEF OpenLog
<1>3. NextStep(r) = "close2" /\ at'[r] = "close2"
  BY <1>2, StepOrder, Advancing
<1>4. FdsOK /\ logs' > 0
  BY <1>2 DEF IInv, FdsOK
<1>5. ASSUME mishaps' = {} PROVE RotationInv(r)'
  <2>1. mishaps = {} /\ \A q \in Rotators : ~Rotating(q)
    BY <1>2, <1>5
  <2>2. table[1] = NewestLog /\ table[2] = NewestLog /\ NoOtherLog({1, 2})
    BY <2>1 DEF LogInv, Settled
  <2>3. fd \notin {1, 2}
    BY <1>1, <2>2, Kinds DEF NewestLog
  <2>4. logFd'[r] = fd /\ table'[fd] = LogFile(logs')
    BY <1>1, <1>2, <1>4 DEF FdsOK
  <2>5. NoOtherLog({1, 2, fd})'
    BY <1>1, <1>4, <2>2 DEF FdsOK, NoOtherLog
  <2>6. QED
    BY <1>3, <2>3, <2>4, <2>5 DEF RotationInv
<1>6. QED
  BY <1>2, <1>3, <1>4, <1>5, LogStep

(* A log that cannot be opened is a mishap.  *)
LEMMA LogIsMissing == ASSUME IInv, LogInv, NEW r \in Rotators, OpenLogFails(r) PROVE LogInv'
<1>1. at[r] = "open" /\ Advance(r) /\ mishaps' # {}
  BY DEF OpenLogFails
<1>2. QED
  BY <1>1, LogStep

(* What close() frees holds no log but the one on the rotation's own        *)
(* descriptor, which is on 1 and 2 by then.                                 *)
LEMMA LogCloses == ASSUME IInv, LogInv, NEW r \in Rotators, CloseStep(r) PROVE LogInv'
<1>1. /\ at[r] \in {"close2", "close1", "closeFd"} /\ Rotating(r)
      /\ UNCHANGED <<logFd, logs, mishaps>> /\ Advance(r)
  BY DEF CloseStep, Rotating
<1> DEFINE fd == CASE at[r] = "close2" -> 2 [] at[r] = "close1" -> 1 [] OTHER -> logFd[r]
<1>2. table' = [n \in Fds |-> IF n = fd THEN FreeFd ELSE table[n]]
  BY DEF CloseStep
<1>3. /\ at[r] = "close2" => fd = 2 /\ at'[r] = "dup2" /\ NextStep(r) = "dup2"
      /\ at[r] = "close1" => fd = 1 /\ at'[r] = "dup1" /\ NextStep(r) = "dup1"
      /\ at[r] = "closeFd" => fd = logFd[r] /\ NextStep(r) = "idle"
  BY <1>1, StepOrder, Advancing
<1> HIDE DEF fd
<1>4. \A fds : NoOtherLog(fds) => NoOtherLog(fds)'
  BY <1>2, Kinds DEF NoOtherLog
<1>5. ASSUME mishaps = {}
      PROVE  RotationInv(r) /\ logs > 0 /\ \A q \in Rotators \ {r} : ~Rotating(q)
  BY <1>1, <1>5 DEF LogInv
<1>6. ASSUME mishaps = {}, at[r] # "closeFd" PROVE RotationInv(r)'
  <2>1. logFd[r] \in Fds \ {1, 2} /\ table'[logFd[r]] = LogFile(logs)
    BY <1>1, <1>2, <1>3, <1>5, <1>6 DEF RotationInv
  <2>2. at[r] = "close1" => table'[2] = LogFile(logs)
    BY <1>2, <1>3, <1>5, <1>6, StandardFds DEF RotationInv
  <2>3. NoOtherLog({1, 2, logFd[r]})'
    BY <1>1, <1>4, <1>5, <1>6 DEF RotationInv, NoOtherLog
  <2>4. QED
    BY <1>1, <1>3, <1>6, <2>1, <2>2, <2>3 DEF RotationInv, NoOtherLog
<1>7. ASSUME mishaps = {}, at[r] = "closeFd"
      PROVE  /\ table'[1] = LogFile(logs') /\ table'[2] = LogFile(logs')
             /\ NoOtherLog({1, 2})'
  <2>1. table'[1] = LogFile(logs') /\ table'[2] = LogFile(logs')
    BY <1>1, <1>2, <1>3, <1>5, <1>7, StandardFds DEF RotationInv
  <2>2. table'[logFd[r]] = FreeFd
    BY <1>2, <1>3, <1>5, <1>7 DEF RotationInv
  <2>3. NoOtherLog({1, 2, logFd[r]})'
    BY <1>1, <1>4, <1>5, <1>7 DEF RotationInv, NoOtherLog
  <2>4. QED
    BY <1>1, <2>1, <2>2, <2>3, Kinds DEF NoOtherLog
<1>8. logs' = logs /\ mishaps' = mishaps /\ at[r] # "idle"
  BY <1>1
<1>9. NextStep(r) # "idle" => at[r] # "closeFd"
  BY <1>3
<1>10. NextStep(r) = "idle" => at[r] = "closeFd"
  BY <1>1, <1>3
<1>11. QED
  BY <1>1, <1>5, <1>6, <1>7, <1>8, <1>9, <1>10, LogStep

(* dup2() puts the newest log on 2, then on 1.  *)
LEMMA LogDups == ASSUME IInv, LogInv, NEW r \in Rotators, DupStep(r) PROVE LogInv'
<1>1. /\ at[r] \in {"dup2", "dup1"} /\ Rotating(r)
      /\ UNCHANGED <<logFd, logs, mishaps>> /\ Advance(r)
  BY DEF DupStep, Rotating
<1> DEFINE target == IF at[r] = "dup2" THEN 2 ELSE 1
<1>2. table' = Dup(logFd[r], target)
  BY DEF DupStep
<1>3. /\ at[r] = "dup2" => target = 2 /\ at'[r] = "close1" /\ NextStep(r) = "close1"
      /\ at[r] = "dup1" => target = 1 /\ at'[r] = "closeFd" /\ NextStep(r) = "closeFd"
  BY <1>1, StepOrder, Advancing
<1> HIDE DEF target
<1>4. ASSUME mishaps = {} PROVE RotationInv(r)'
  <2>1. RotationInv(r)
    BY <1>1, <1>4 DEF LogInv
  <2>2. target \in {1, 2}
    BY <1>1, <1>3
  <2>3. table' = [table EXCEPT ![target] = LogFile(logs)]
    BY <1>2, <2>1, Kinds DEF Dup, RotationInv
  <2>4. /\ table'[target] = LogFile(logs)
        /\ \A fd \in Fds \ {target} : table'[fd] = table[fd]
    BY <2>2, <2>3, StandardFds DEF IInv, FdsOK
  <2>5. table'[logFd[r]] = LogFile(logs) /\ NoOtherLog({1, 2, logFd[r]})'
    BY <1>1, <2>1, <2>2, <2>4 DEF RotationInv, NoOtherLog
  <2>6. at[r] = "dup1" => table'[2] = LogFile(logs)
    BY <1>3, <2>1, <2>4, StandardFds DEF RotationInv
  <2>7. QED
    BY <1>1, <1>3, <2>1, <2>4, <2>5, <2>6 DEF RotationInv, NoOtherLog
<1>5. NextStep(r) # "idle" /\ at[r] # "idle"
  BY <1>1, <1>3
<1>6. mishaps = {} => logs' > 0 /\ \A q \in Rotators \ {r} : ~Rotating(q)
  BY <1>1 DEF LogInv
<1>7. QED
  BY <1>1, <1>4, <1>5, <1>6, LogStep

-----------------------------------------------------------------------------
LEMMA StepLogInv == ASSUME IInv, LogInv, [Next]_vars PROVE LogInv'
<1> USE DEF logVars
<1>1. CASE ParseLine \/ Include \/ IncludeNothing \/ EndOfFile
  BY <1>1, LogApart DEF ParseLine, Include, IncludeNothing, EndOfFile
<1>2. CASE ReadLine \/ EndOfConfiguration
  BY <1>2, LogApart DEF ReadLine, EndOfConfiguration
<1>3. CASE KeepUser
  <2>1. at["main"] = "idle" /\ phase' \notin {"dictionary", "configuration", "user"}
    BY <1>3 DEF KeepUser, LogInv
  <2>2. CASE Debug
    BY <1>3, <2>1, <2>2, LogApart DEF KeepUser
  <2>3. CASE ~Debug
    BY <1>3, <2>1, <2>3, LogBeginning DEF KeepUser, Rotators, IInv
  <2>4. QED
    BY <2>2, <2>3
<1>4. CASE UnknownUser \/ StartFails
  BY <1>4, LogApart DEF UnknownUser, StartFails
<1>5. CASE StartService
  BY <1>5, LogOpening DEF StartService, Owners, IInv
<1>6. ASSUME NEW h \in Handlers, Signal(h) PROVE LogInv'
  <2>1. /\ at[h] = "idle" /\ at' = [at EXCEPT ![h] = "open"]
        /\ UNCHANGED <<phase, table, own, logFd, logs, mishaps>>
        /\ phase \in {"user", "log", "start", "service"}
    BY <1>6, Zenon DEF Signal
  <2>2. h \in Rotators /\ h # "main" /\ FdsOK
    BY DaemonAssumption DEF Rotators, IInv
  <2>3. QED
    BY <2>1, <2>2, LogBeginning
<1>7. ASSUME NEW t \in Threads, Accept(t) PROVE LogInv'
  BY <1>7, LogOpening DEF Accept, Owners, IInv
<1>8. ASSUME NEW t \in Threads, Close(t) PROVE LogInv'
  BY <1>8, LogClosing
<1>9. ASSUME NEW r \in Rotators, Rotate(r) PROVE LogInv'
  BY <1>9, LogOpensNewest, LogIsMissing, LogCloses, LogDups DEF Rotate
<1>10. CASE UNCHANGED vars
  BY <1>10, LogApart DEF vars
<1>11. QED
  BY <1>1, <1>2, <1>3, <1>4, <1>5, <1>6, <1>7, <1>8, <1>9, <1>10 DEF Next

(* After any number of rotations both standard descriptors are the newest   *)
(* log and no other descriptor keeps a log open, whatever connections come  *)
(* and go meanwhile, unless a log could not be opened, a connection was     *)
(* given 1 or 2, or two rotations were under way at once, be it on top of   *)
(* main()'s own or in two threads.                                          *)
THEOREM LogIsFollowed == Spec => []LogFollowsRotation
<1>1. Init => IInv /\ LogInv
  BY InitIInv, InitLogInv
<1>2. IInv /\ LogInv /\ [Next]_vars => (IInv /\ LogInv)'
  BY StepIInv, StepLogInv
<1>3. LogInv => LogFollowsRotation
  <2> SUFFICES ASSUME LogInv, logs > 0, mishaps = {}, \A r \in Rotators : at[r] = "idle",
                      NEW fd \in Fds
               PROVE  /\ fd \in {1, 2} => table[fd] = LogFile(logs)
                      /\ table[fd].kind = "log" => table[fd] = LogFile(logs)
    BY DEF LogFollowsRotation
  <2>1. Settled /\ NewestLog = LogFile(logs)
    BY DEF Settled, Rotating, NewestLog
  <2>2. QED
    BY <2>1 DEF LogInv, NoOtherLog
<1>4. QED
  BY <1>1, <1>2, <1>3, PTL DEF Spec


-----------------------------------------------------------------------------
(* The configuration.  After any number of lines the values are those of    *)
(* the last line about their key so far.                                    *)

HeadsBefore(lines, n) == {j \in 1..n - 1 : lines[j].kind = "section"}

KeyOf(lines, i) == FullKey(SectionAt(lines, i), lines[i].key)

(* The lines before line n with the key of line i, section included.        *)
SameKey(lines, i, n) ==
  {j \in 1..n - 1 : lines[j].kind = "entry" /\ KeyOf(lines, j) = KeyOf(lines, i)}

KeyInv(lines, values, i, n) ==
  IF SameKey(lines, i, n) = {} THEN KeyOf(lines, i) \notin DOMAIN values
  ELSE \E j \in SameKey(lines, i, n) :
         /\ \A m \in SameKey(lines, i, n) : m <= j
         /\ KeyOf(lines, i) \in DOMAIN values
         /\ values[KeyOf(lines, i)] = ValueOf(lines[j])

ConfInv ==
  /\ conf \in Seq(Range(conf))
  /\ \A k \in 1..Len(conf) - 1 : conf[k].newline
  /\ line \in 1..Len(conf) + 1
  /\ \A k \in 1..line - 1 : conf[k].newline
  /\ section = SectionAt(conf, line)
  /\ \A i \in DOMAIN conf : conf[i].kind = "entry" => KeyInv(conf, data, i, line)
  /\ phase = "user" /\ line \in DOMAIN conf => ~conf[line].newline

(* The greatest element of a set that has one.  *)
LEMMA GreatestIsMax ==
  ASSUME NEW S \in SUBSET Int, NEW x \in S, \A y \in S : y <= x
  PROVE  Max(S) = x
<1>1. x \in S /\ \A y \in S : x >= y
  OBVIOUS
<1>2. \A z \in S : (\A y \in S : z >= y) => z = x
  OBVIOUS
<1>3. Max(S) \in S /\ \A y \in S : Max(S) >= y
  BY <1>1, Zenon DEF Max
<1>4. QED
  BY <1>2, <1>3

LEMMA InitConfInv == Init => ConfInv
<1> SUFFICES ASSUME Init PROVE ConfInv
  OBVIOUS
<1>1. line = 1 /\ section = NoSection /\ data = EmptyConfiguration /\ phase = "dictionary"
  BY DEF Init
<1>2. conf \in Seq(Range(conf)) /\ \A k \in 1..Len(conf) - 1 : conf[k].newline
  BY InstallationAssumption DEF Init
<1>3. 1 \in 1..Len(conf) + 1
  BY <1>2, LenProperties
<1>4. section = SectionAt(conf, 1)
  BY <1>1 DEF SectionAt
<1>5. \A i : SameKey(conf, i, 1) = {}
  BY DEF SameKey
<1>6. DOMAIN data = {}
  BY <1>1 DEF EmptyConfiguration
<1>7. \A i \in DOMAIN conf : KeyInv(conf, data, i, 1)
  BY <1>5, <1>6 DEF KeyInv
<1>8. QED
  BY <1>1, <1>2, <1>3, <1>4, <1>7 DEF ConfInv

(* The section after a line.  *)
LEMMA SectionAfter ==
  ASSUME NEW lines, NEW n \in Nat \ {0}
  PROVE  NextSection(lines[n], SectionAt(lines, n)) = SectionAt(lines, n + 1)
<1>1. HeadsBefore(lines, n + 1)
        = HeadsBefore(lines, n) \cup (IF lines[n].kind = "section" THEN {n} ELSE {})
  BY DEF HeadsBefore
<1>2. \A m \in Nat \ {0} :
        SectionAt(lines, m) = IF HeadsBefore(lines, m) = {} THEN NoSection
                              ELSE lines[Max(HeadsBefore(lines, m))].key
  BY DEF SectionAt, HeadsBefore
<1>3. CASE lines[n].kind = "section"
  <2>1. n \in HeadsBefore(lines, n + 1) /\ HeadsBefore(lines, n + 1) \in SUBSET Int
        /\ \A j \in HeadsBefore(lines, n + 1) : j <= n
    BY <1>1, <1>3 DEF HeadsBefore
  <2>2. Max(HeadsBefore(lines, n + 1)) = n
    BY <2>1, GreatestIsMax
  <2>3. QED
    BY <1>2, <1>3, <2>1, <2>2 DEF NextSection
<1>4. CASE lines[n].kind # "section"
  BY <1>1, <1>2, <1>4 DEF NextSection
<1>5. QED
  BY <1>3, <1>4

(* A line enters its value under its key, and leaves all others alone.      *)
LEMMA KeyEntered ==
  ASSUME NEW lines, NEW values, NEW i, NEW n \in Nat \ {0}, KeyInv(lines, values, i, n)
  PROVE  KeyInv(lines, Entered(values, lines[n], SectionAt(lines, n)), i, n + 1)
<1> DEFINE key == KeyOf(lines, i)
           new == lines[n].kind = "entry" /\ KeyOf(lines, n) = key
           after == Entered(values, lines[n], SectionAt(lines, n))
<1>1. SameKey(lines, i, n + 1) = SameKey(lines, i, n) \cup (IF new THEN {n} ELSE {})
  BY DEF SameKey
<1>2. SameKey(lines, i, n) \in SUBSET Int /\ \A j \in SameKey(lines, i, n) : j <= n
  BY DEF SameKey
<1>3. CASE new
  <2>1. key \in DOMAIN after /\ after[key] = ValueOf(lines[n])
    BY <1>3 DEF Entered, Put, KeyOf
  <2>2. n \in SameKey(lines, i, n + 1) /\ \A j \in SameKey(lines, i, n + 1) : j <= n
    BY <1>1, <1>2, <1>3
  <2>3. QED
    BY <2>1, <2>2 DEF KeyInv
<1>4. CASE ~new
  <2>1. (key \in DOMAIN after <=> key \in DOMAIN values)
        /\ (key \in DOMAIN values => after[key] = values[key])
    BY <1>4 DEF Entered, Put, KeyOf
  <2>2. SameKey(lines, i, n + 1) = SameKey(lines, i, n)
    BY <1>1, <1>4
  <2>3. QED
    BY <2>1, <2>2 DEF KeyInv
<1>5. QED
  BY <1>3, <1>4

LEMMA LineRead == ASSUME ConfInv, ReadLine PROVE ConfInv'
<1>1. /\ line \in DOMAIN conf /\ conf[line].newline
      /\ data' = Entered(data, conf[line], section)
      /\ section' = NextSection(conf[line], section) /\ line' = line + 1
      /\ phase' = phase /\ conf' = conf /\ phase = "configuration"
  BY DEF ReadLine, Good, fileVars
<1>2. /\ Len(conf) \in Nat /\ DOMAIN conf = 1..Len(conf) /\ line \in Nat \ {0}
      /\ section = SectionAt(conf, line)
  BY LenProperties DEF ConfInv
<1>3. section' = SectionAt(conf', line')
  BY <1>1, <1>2, SectionAfter
<1>4. \A i \in DOMAIN conf : conf[i].kind = "entry" => KeyInv(conf', data', i, line')
  BY <1>1, <1>2, KeyEntered DEF ConfInv
<1>5. line' \in 1..Len(conf) + 1 /\ \A k \in 1..line' - 1 : conf[k].newline
  BY <1>1, <1>2 DEF ConfInv
<1>6. QED
  BY <1>1, <1>3, <1>4, <1>5 DEF ConfInv

LEMMA ConfApart ==
  ASSUME ConfInv, UNCHANGED <<conf, line, section, data>>,
         phase' = "user" => phase = "user"
  PROVE  ConfInv'
BY DEF ConfInv

LEMMA StepConfInv == ASSUME ConfInv, [Next]_vars PROVE ConfInv'
<1> USE DEF fileVars, confVars
<1>1. CASE ParseLine \/ Include \/ IncludeNothing \/ EndOfFile
  BY <1>1, ConfApart DEF ParseLine, Include, IncludeNothing, EndOfFile
<1>2. CASE ReadLine
  BY <1>2, LineRead
<1>3. CASE EndOfConfiguration
  BY <1>3 DEF EndOfConfiguration, Good, ConfInv
<1>4. CASE KeepUser \/ UnknownUser \/ StartService \/ StartFails \/ (\E h \in Handlers : Signal(h))
  BY <1>4, ConfApart DEF KeepUser, UnknownUser, StartService, StartFails, Signal
<1>5. ASSUME NEW t \in Threads, Accept(t) \/ Close(t) PROVE ConfInv'
  BY <1>5, ConfApart DEF Accept, Close
<1>6. ASSUME NEW r \in Rotators, Rotate(r) PROVE ConfInv'
  <2>1. Advance(r)
    BY <1>6 DEF Rotate, OpenLog, OpenLogFails, CloseStep, DupStep
  <2>2. QED
    BY <2>1, ConfApart DEF Advance
<1>7. CASE UNCHANGED vars
  BY <1>7, ConfApart DEF vars
<1>8. QED
  BY <1>1, <1>2, <1>3, <1>4, <1>5, <1>6, <1>7 DEF Next

(* For any configuration file, what the daemon finds under a key is what    *)
(* the last of the lines about it that are ended by a newline says, however *)
(* these lines split the key into a section and a rest.                     *)
THEOREM ConfigurationIsAsWritten == Spec => []ConfigurationAsWritten
<1>1. Init => ConfInv
  BY InitConfInv
<1>2. ConfInv /\ [Next]_vars => ConfInv'
  BY StepConfInv
<1>3. ConfInv => ConfigurationAsWritten
  <2> SUFFICES ASSUME ConfInv, phase = "user" PROVE ConfigurationAsWritten
    BY DEF ConfigurationAsWritten
  <2>1. /\ Len(conf) \in Nat /\ DOMAIN conf = 1..Len(conf) /\ line \in 1..Len(conf) + 1
        /\ \A i \in DOMAIN conf : conf[i].kind = "entry" => KeyInv(conf, data, i, line)
        /\ \A j \in DOMAIN conf : conf[j].newline <=> j < line
    BY LenProperties DEF ConfInv
  <2>2. ASSUME NEW i \in DOMAIN conf, conf[i].kind = "entry", NEW same,
               same = {j \in DOMAIN conf :
                         /\ conf[j].kind = "entry" /\ conf[j].newline
                         /\ KeyOf(conf, j) = KeyOf(conf, i)},
               NEW got, got = Get(data, KeyOf(conf, i))
        PROVE  IF same = {} THEN got.text = NoValue
               ELSE /\ got.text = (IF conf[Max(same)].value = NoValue THEN "true"
                                   ELSE conf[Max(same)].value)
                    /\ got.blanks => conf[Max(same)].short
    <3>1. same = SameKey(conf, i, line)
      BY <2>1, <2>2 DEF SameKey
    <3>2. CASE same = {}
      BY <2>1, <2>2, <3>1, <3>2 DEF KeyInv, Get
    <3>3. CASE same # {}
      <4>1. PICK j \in same : /\ \A m \in same : m <= j
                              /\ KeyOf(conf, i) \in DOMAIN data
                              /\ data[KeyOf(conf, i)] = ValueOf(conf[j])
        BY <2>1, <2>2, <3>1, <3>3 DEF KeyInv
      <4>2. Max(same) = j
        <5>1. same \in SUBSET Int
          BY <2>1, <3>1 DEF SameKey
        <5>2. QED
          BY <4>1, <5>1, GreatestIsMax
      <4>3. got = ValueOf(conf[j])
        BY <2>2, <4>1 DEF Get
      <4>4. /\ got.text = (IF conf[j].value = NoValue THEN "true" ELSE conf[j].value)
            /\ got.blanks => conf[j].short
        BY <4>3 DEF ValueOf
      <4>5. QED
        BY <3>3, <4>2, <4>4
    <3>4. QED
      BY <3>2, <3>3
  <2>3. QED
    BY <2>2 DEF ConfigurationAsWritten, KeyOf
<1>4. QED
  BY <1>1, <1>2, <1>3, PTL DEF Spec

-----------------------------------------------------------------------------
(* Types.  The calls of parse() and the attributes keep theirs because the  *)
(* files do.                                                                *)

FilesOK ==
  \A file \in DOMAIN listing :
    /\ listing[file] \in Seq(Range(listing[file]))
    /\ \A l \in Range(listing[file]) :
         l.name \in STRING /\ (l.kw = "ATTRIBUTE" => l.num \in Nat)

Vendors == STRING \cup {NoVendor}

Calls == [file : STRING, next : Nat \ {0}, vendor : Vendors]

AttributeOK(a) ==
  /\ a = [id |-> a.id, type |-> a.type, vendor |-> a.vendor, values |-> a.values]
  /\ a.id \in 0..OctetSize - 1

DictOK(d) ==
  /\ d = [attrs |-> d.attrs, vendors |-> d.vendors]
  /\ \A name \in DOMAIN d.attrs : AttributeOK(d.attrs[name])

ParseInv == FilesOK /\ stack \in Seq(Calls) /\ DictOK(dict)

BoundsInv ==
  /\ phase \in Phases
  /\ logs \in 0..MaxLogs
  /\ mishaps \subseteq {"noLog", "standardFdTaken", "overlap"}

(* Whatever the number of a declaration, what is kept is an octet.          *)
LEMMA OctetKept == ASSUME NEW n \in Nat PROVE KeptId(n) \in 0..OctetSize - 1
BY InstallationAssumption DEF KeptId

LEMMA AddedOK ==
  ASSUME NEW d, DictOK(d), NEW l, l.kw = "ATTRIBUTE" => l.num \in Nat, NEW vendor
  PROVE  DictOK(Added(d, l, vendor))
<1>1. CASE l.kw = "ATTRIBUTE"
  <2>1. Added(d, l, vendor) = AddAttribute(d, l, vendor)
    BY <1>1 DEF Added
  <2>2. KeptId(l.num) \in 0..OctetSize - 1
    BY <1>1, OctetKept
  <2>3. QED
    BY <2>1, <2>2 DEF AddAttribute, AssignAttribute, DictOK, AttributeOK, Put
<1>2. CASE l.kw = "VALUE"
  <2>1. Added(d, l, vendor) = AddValue(d, l)
    BY <1>2 DEF Added
  <2> DEFINE a == IF l.name \in DOMAIN d.attrs THEN d.attrs[l.name]
                  ELSE [id |-> 0, type |-> NoType, vendor |-> NoVendor, values |-> << >>]
  <2>2. 0 \in 0..OctetSize - 1
    BY InstallationAssumption
  <2>3. AttributeOK(a)
    BY <2>2 DEF DictOK, AttributeOK
  <2>4. AttributeOK([a EXCEPT !.values = Put(@, l.value, l.num)])
    <3> HIDE DEF a
    <3>1. QED
      BY <2>3 DEF AttributeOK
  <2>5. Added(d, l, vendor)
          = [d EXCEPT !.attrs = Put(@, l.name, [a EXCEPT !.values = Put(@, l.value, l.num)])]
    BY <2>1, Zenon DEF AddValue
  <2>6. QED
    <3> HIDE DEF a
    <3>1. QED
      BY <2>4, <2>5 DEF DictOK, Put
<1>3. CASE l.kw = "VENDOR"
  BY <1>3 DEF Added, AddVendor, DictOK
<1>4. CASE l.kw \notin {"ATTRIBUTE", "VALUE", "VENDOR"}
  BY <1>4 DEF Added
<1>5. QED
  BY <1>1, <1>2, <1>3, <1>4

LEMMA VendorKept ==
  ASSUME NEW l, l.name \in STRING, NEW vendor \in Vendors
  PROVE  NextVendor(l, vendor) \in Vendors
BY Zenon DEF NextVendor, Vendors

LEMMA InitParseInv == Init => ParseInv /\ BoundsInv
<1> SUFFICES ASSUME Init PROVE ParseInv /\ BoundsInv
  OBVIOUS
<1>1. FilesOK
  BY InstallationAssumption DEF Init, FilesOK
<1>2. NoVendor \in Vendors
  BY DEF Vendors
<1>3. stack \in Seq(Calls)
  BY <1>2, InstallationAssumption DEF Init, Calls
<1>4. DictOK(dict)
  BY DEF Init, EmptyDictionary, DictOK
<1>5. BoundsInv
  BY DaemonAssumption DEF Init, BoundsInv, Phases
<1>6. QED
  BY <1>1, <1>3, <1>4, <1>5 DEF ParseInv

(* The innermost call, and the line it reads.                               *)
LEMMA CallOK ==
  ASSUME ParseInv, stack # << >>
  PROVE  Call \in Calls /\ Front(stack) \in Seq(Calls)
<1>1. stack \in Seq(Calls) /\ Len(stack) \in Nat /\ Len(stack) >= 1
  BY DEF ParseInv
<1>2. \A i \in 1..Len(stack) - 1 : stack[i] \in Calls
  BY <1>1
<1>3. Front(stack) \in Seq(Calls)
  BY <1>1, <1>2, SubSeqProperties DEF Front
<1>4. QED
  BY <1>1, <1>3 DEF Call, Last

LEMMA LineOK ==
  ASSUME ParseInv, stack # << >>, Call.next <= Len(Lines(Call.file))
  PROVE  Current.name \in STRING /\ (Current.kw = "ATTRIBUTE" => Current.num \in Nat)
<1>1. Call.next \in Nat \ {0}
  BY CallOK DEF Calls
<1>2. CASE Call.file \in DOMAIN listing
  <2>1. Lines(Call.file) \in Seq(Range(listing[Call.file]))
    BY <1>2 DEF Lines, ParseInv, FilesOK
  <2>2. Current \in Range(listing[Call.file])
    BY <1>1, <2>1, ElementOfSeq DEF Current
  <2>3. QED
    BY <1>2, <2>2 DEF ParseInv, FilesOK
<1>3. CASE Call.file \notin DOMAIN listing
  BY <1>1, <1>3 DEF Lines
<1>4. QED
  BY <1>2, <1>3

LEMMA LineParsed == ASSUME ParseInv, ParseLine PROVE ParseInv'
<1>1. /\ stack # << >> /\ Call.next <= Len(Lines(Call.file))
      /\ dict' = Added(dict, Current, Call.vendor)
      /\ stack' = Append(Front(stack),
                    [Call EXCEPT !.next = @ + 1, !.vendor = NextVendor(Current, @)])
      /\ listing' = listing
  BY Zenon DEF ParseLine, fileVars
<1>2. Call \in Calls /\ Front(stack) \in Seq(Calls)
  BY <1>1, CallOK
<1>3. NextVendor(Current, Call.vendor) \in Vendors
  BY <1>1, <1>2, LineOK, VendorKept DEF Calls
<1>4. [Call EXCEPT !.next = @ + 1, !.vendor = NextVendor(Current, @)] \in Calls
  <2>1. \A call \in Calls, n \in Nat \ {0}, vendor \in Vendors :
          /\ [call EXCEPT !.next = n] \in Calls
          /\ [call EXCEPT !.vendor = vendor] \in Calls
    BY DEF Calls
  <2>2. Call.next + 1 \in Nat \ {0}
    BY <1>2 DEF Calls
  <2>3. QED
    BY <1>2, <1>3, <2>1, <2>2, Zenon
<1>5. stack' \in Seq(Calls)
  BY <1>1, <1>2, <1>4, AppendProperties
<1>6. DictOK(dict')
  BY <1>1, LineOK, AddedOK DEF ParseInv
<1>7. QED
  BY <1>1, <1>5, <1>6 DEF ParseInv, FilesOK

LEMMA Included == ASSUME ParseInv, Include PROVE ParseInv'
<1>1. /\ stack # << >> /\ Call.next <= Len(Lines(Call.file))
      /\ stack' = Append(Append(Front(stack), [Call EXCEPT !.next = @ + 1]),
                    [file |-> Current.name, next |-> 1, vendor |-> NoVendor])
      /\ dict' = dict /\ listing' = listing
  BY Zenon DEF Include, fileVars
<1>2. Call \in Calls /\ Front(stack) \in Seq(Calls)
  BY <1>1, CallOK
<1>3. [Call EXCEPT !.next = @ + 1] \in Calls
  BY <1>2 DEF Calls
<1>4. NoVendor \in Vendors
  BY DEF Vendors
<1>5. [file |-> Current.name, next |-> 1, vendor |-> NoVendor] \in Calls
  BY <1>1, <1>4, LineOK DEF Calls
<1>6. stack' \in Seq(Calls)
  BY <1>1, <1>2, <1>3, <1>5, AppendProperties
<1>7. QED
  BY <1>1, <1>6 DEF ParseInv, FilesOK

LEMMA CallReturned == ASSUME ParseInv, EndOfFile PROVE ParseInv'
<1>1. /\ stack # << >> /\ dict' = dict /\ listing' = listing
      /\ stack' = IF Front(stack) = << >> THEN << >>
                  ELSE Append(Front(Front(stack)), Last(Front(stack)))
  BY DEF EndOfFile, fileVars, Returned
<1> DEFINE callers == Front(stack)
<1>2. callers \in Seq(Calls)
  BY <1>1, CallOK
<1>3. ASSUME callers # << >> PROVE stack' \in Seq(Calls)
  <2> HIDE DEF callers
  <2>1. Len(callers) \in Nat /\ Len(callers) >= 1 /\ \A i \in 1..Len(callers) : callers[i] \in Calls
    BY <1>2, <1>3
  <2>2. Front(callers) \in Seq(Calls)
    BY <2>1, SubSeqProperties DEF Front
  <2>3. Last(callers) \in Calls
    BY <2>1 DEF Last
  <2>4. stack' = Append(Front(callers), Last(callers))
    BY <1>1, <1>3 DEF callers
  <2>5. QED
    BY <2>2, <2>3, <2>4, AppendProperties
<1>4. stack' \in Seq(Calls)
  BY <1>1, <1>3
<1>5. QED
  BY <1>1, <1>4 DEF ParseInv, FilesOK

LEMMA StepParseInv == ASSUME ParseInv, [Next]_vars PROVE ParseInv'
<1>1. CASE ParseLine \/ Include \/ EndOfFile
  BY <1>1, LineParsed, Included, CallReturned
<1>2. CASE UNCHANGED <<listing, stack, dict>>
  BY <1>2 DEF ParseInv, FilesOK
<1>3. ASSUME NEW t \in Threads, Accept(t) \/ Close(t) PROVE UNCHANGED <<listing, stack, dict>>
  BY <1>3 DEF Accept, Close, fileVars, dictVars
<1>4. ASSUME NEW r \in Rotators, Rotate(r) PROVE UNCHANGED <<listing, stack, dict>>
  <2>1. Advance(r)
    BY <1>4 DEF Rotate, OpenLog, OpenLogFails, CloseStep, DupStep
  <2>2. QED
    BY <2>1 DEF Advance, fileVars, dictVars
<1>5. CASE ReadLine \/ EndOfConfiguration \/ KeepUser \/ UnknownUser \/ StartService
             \/ StartFails \/ IncludeNothing \/ (\E h \in Handlers : Signal(h)) \/ UNCHANGED vars
  <2>1. UNCHANGED <<listing, stack, dict>>
    BY <1>5, Zenon DEF ReadLine, EndOfConfiguration, KeepUser, UnknownUser, StartService,
      StartFails, IncludeNothing, Signal, vars, fileVars, dictVars
  <2>2. QED
    BY <1>2, <2>1
<1>6. QED
  BY <1>1, <1>2, <1>3, <1>4, <1>5, Zenon DEF Next

LEMMA StepBoundsInv == ASSUME BoundsInv, [Next]_vars PROVE BoundsInv'
<1> USE DEF BoundsInv, Phases
<1>1. CASE ParseLine \/ Include
  <2>1. UNCHANGED <<phase, logs, mishaps>>
    BY <1>1, Zenon DEF ParseLine, Include, logVars
  <2>2. QED
    BY <2>1
<1>2. CASE EndOfFile \/ ReadLine \/ EndOfConfiguration \/ KeepUser
  BY <1>2 DEF EndOfFile, ReadLine, EndOfConfiguration, KeepUser, logVars
<1>3. CASE UnknownUser \/ StartFails \/ IncludeNothing
  BY <1>3 DEF UnknownUser, StartFails, IncludeNothing, logVars
<1>4. CASE StartService
  BY <1>4 DEF StartService, OpenSocket
<1>5. ASSUME NEW h \in Handlers, Signal(h) PROVE BoundsInv'
  BY <1>5 DEF Signal
<1>6. ASSUME NEW t \in Threads, Accept(t) \/ Close(t) PROVE BoundsInv'
  BY <1>6 DEF Accept, OpenSocket, Close, logVars
<1>7. ASSUME NEW r \in Rotators, Rotate(r) PROVE BoundsInv'
  <2>1. Advance(r) /\ (logs' = logs \/ (logs < MaxLogs /\ logs' = logs + 1))
        /\ mishaps' \subseteq mishaps \cup {"noLog", "overlap"}
    BY <1>7 DEF Rotate, OpenLog, OpenLogFails, CloseStep, DupStep
  <2>2. phase' \in Phases
    BY <2>1 DEF Advance
  <2>3. QED
    BY <2>1, <2>2, DaemonAssumption
<1>8. CASE UNCHANGED vars
  BY <1>8 DEF vars, logVars
<1>9. QED
  BY <1>1, <1>2, <1>3, <1>4, <1>5, <1>6, <1>7, <1>8 DEF Next

(* The state keeps its types for any files, any threads and any number of   *)
(* rotations; in particular an attribute's number is an octet.              *)
THEOREM TypeCorrect == Spec => []TypeOK
<1>1. Init => IInv /\ LogInv /\ ConfInv /\ ParseInv /\ BoundsInv
  BY InitIInv, InitLogInv, InitConfInv, InitParseInv
<1>2. IInv /\ LogInv /\ ConfInv /\ ParseInv /\ BoundsInv /\ [Next]_vars
        => (IInv /\ LogInv /\ ConfInv /\ ParseInv /\ BoundsInv)'
  BY StepIInv, StepLogInv, StepConfInv, StepParseInv, StepBoundsInv
<1>3. IInv /\ LogInv /\ ConfInv /\ ParseInv /\ BoundsInv => TypeOK
  <2> SUFFICES ASSUME IInv, LogInv, ConfInv, ParseInv, BoundsInv PROVE TypeOK
    OBVIOUS
  <2>1. \A i \in DOMAIN stack : stack[i].file \in STRING /\ stack[i].next \in Nat
    <3>1. DOMAIN stack = 1..Len(stack) /\ \A i \in 1..Len(stack) : stack[i] \in Calls
      BY DEF ParseInv
    <3>2. QED
      BY <3>1 DEF Calls
  <2>2. line \in Nat
    BY LenProperties DEF ConfInv
  <2>3. \A fd \in Fds : table[fd].kind \in {"free", "terminal", "log", "socket"}
    BY Kinds DEF IInv, FdsOK, Contents
  <2>4. at \in [Rotators -> Range(RotationSteps)]
    BY DEF IInv, FdsOK, LogInv
  <2>5. \A a \in DOMAIN dict.attrs : dict.attrs[a].id \in 0..OctetSize - 1
    BY DEF ParseInv, DictOK, AttributeOK
  <2>6. QED
    BY <2>1, <2>2, <2>3, <2>4, <2>5 DEF IInv, FdsOK, BoundsInv, TypeOK
<1>4. QED
  BY <1>1, <1>2, <1>3, PTL DEF Spec

-----------------------------------------------------------------------------
(* The dictionary.  What is left to parse is, call by call from the         *)
(* innermost on, what each file brings from its next line on.               *)

LEMMA LeastNat == ASSUME NEW T \in SUBSET Nat, T # {} PROVE \E x \in T : \A y \in T : x <= y
<1>1. IsWellFoundedOn(OpToRel(<,Nat), Nat)
  BY NatLessThanWellFounded
<1>2. PICK x \in T : \A y \in T : ~ (<<y, x>> \in OpToRel(<,Nat))
  BY <1>1, WFMin, Zenon
<1>3. \A y \in T : ~(<<y, x>> \in {ss \in Nat \X Nat : ss[1] < ss[2]})
  BY <1>2 DEF OpToRel
<1>4. \A y \in T : ~(y < x)
  BY <1>3
<1>5. QED
  BY <1>4

(* Induction up to a number.                                                *)
LEMMA UpTo ==
  ASSUME NEW n \in Nat, NEW T, 0 \in T, \A k \in 1..n : k - 1 \in T => k \in T
  PROVE  0..n \subseteq T
<1> DEFINE out == {k \in 0..n : k \notin T}
<1>1. CASE out = {}
  BY <1>1
<1>2. CASE out # {}
  <2>1. PICK x \in out : \A y \in out : x <= y
    <3> out \subseteq Nat
      OBVIOUS
    <3> HIDE DEF out
    <3>1. QED
      BY <1>2, LeastNat
  <2>2. x \in 1..n /\ x - 1 \in 0..n /\ x - 1 \notin out
    BY <2>1
  <2>3. QED
    BY <2>1, <2>2
<1>3. QED
  BY <1>1, <1>2

(* A file's own lines, joined from the last to the first.                   *)
Joins(h, S, m, n, part) ==
  /\ h \in [m..n + 1 -> Seq(S)]
  /\ h[n + 1] = << >>
  /\ \A j \in m..n : h[j] = part[j] \o h[j + 1]

LEMMA JoinExists ==
  ASSUME NEW S, NEW n \in Nat, NEW part, \A j \in 1..n : part[j] \in Seq(S)
  PROVE  \E h : Joins(h, S, 1, n, part)
<1> DEFINE Q == Seq(S)
           T == {k \in 0..n : \E h : Joins(h, S, n + 1 - k, n, part)}
<1>1. << >> \in Q /\ \A x, y \in Q : x \o y \in Q
  OBVIOUS
<1> HIDE DEF Q
<1>2. 0 \in T
  <2> DEFINE h == [j \in n + 1..n + 1 |-> << >>]
  <2>1. h \in [n + 1..n + 1 -> Q] /\ h[n + 1] = << >>
    BY <1>1
  <2>2. \A j \in n + 1..n : h[j] = part[j] \o h[j + 1]
    OBVIOUS
  <2> HIDE DEF h
  <2>3. Joins(h, S, n + 1, n, part)
    BY <2>1, <2>2 DEF Joins, Q
  <2>4. n + 1 - 0 = n + 1 /\ 0 \in 0..n
    OBVIOUS
  <2>5. QED
    BY <2>3, <2>4
<1>3. ASSUME NEW k \in 1..n, k - 1 \in T PROVE k \in T
  <2> DEFINE m == n + 1 - k
  <2>1. m \in 1..n /\ n + 1 - (k - 1) = m + 1
    OBVIOUS
  <2>2. PICK h : Joins(h, S, m + 1, n, part)
    BY <1>3, <2>1
  <2> HIDE DEF m
  <2>3. /\ h \in [m + 1..n + 1 -> Q] /\ h[n + 1] = << >>
        /\ \A j \in m + 1..n : h[j] = part[j] \o h[j + 1]
    BY <2>2 DEF Joins, Q
  <2> DEFINE g == [j \in m..n + 1 |-> IF j = m THEN part[m] \o h[m + 1] ELSE h[j]]
  <2>4. part[m] \in Q /\ h[m + 1] \in Q
    BY <2>1, <2>3 DEF Q
  <2>5. g \in [m..n + 1 -> Q]
    BY <1>1, <2>1, <2>3, <2>4
  <2>6. g[m] = part[m] \o h[m + 1] /\ \A j \in m + 1..n + 1 : g[j] = h[j]
    <3>1. m \in m..n + 1 /\ \A j \in m + 1..n + 1 : j \in m..n + 1 /\ j # m
      BY <2>1
    <3>2. QED
      BY <3>1, Zenon
  <2> HIDE DEF g
  <2>9. g[n + 1] = << >>
    BY <2>1, <2>3, <2>6
  <2>10. ASSUME NEW j \in m..n PROVE g[j] = part[j] \o g[j + 1]
    <3>1. j + 1 \in m + 1..n + 1 /\ (j = m \/ (j \in m + 1..n /\ j \in m + 1..n + 1))
      BY <2>1
    <3>2. g[j + 1] = h[j + 1]
      BY <2>6, <3>1
    <3>3. QED
      BY <2>3, <2>6, <3>1, <3>2
  <2>7. Joins(g, S, m, n, part)
    BY <2>5, <2>9, <2>10 DEF Joins, Q
  <2>8. QED
    BY <2>7 DEF m
<1>4. 0..n \subseteq T
  <2> HIDE DEF T
  <2>1. QED
    BY <1>2, <1>3, UpTo
<1>5. n + 1 - n = 1 /\ n \in 0..n
  OBVIOUS
<1>6. QED
  BY <1>4, <1>5

(* What one line brings, what a file brings from a line on, and how the     *)
(* latter is defined.                                                       *)
Entry(file, n) == [line |-> Lines(file)[n], vendor |-> VendorBlock(file, n)]

Rest(from, file, n) == IF file \in DOMAIN listing THEN from[<<file, n>>] ELSE << >>

Brings(from, file, n) ==
  IF Lines(file)[n].kw # "$INCLUDE" THEN <<Entry(file, n)>> ELSE Rest(from, Lines(file)[n].name, 1)

Follows(from, p) ==
  IF p[2] > Len(Lines(p[1])) THEN << >>
  ELSE Brings(from, p[1], p[2]) \o from[<<p[1], p[2] + 1>>]

Entries == {Entry(p[1], p[2]) : p \in Places}

LEMMA LinesFromIs ==
  ASSUME NEW g, g = [p \in Places |-> Follows(g, p)]
  PROVE  LinesFrom = [p \in Places |-> Follows(LinesFrom, p)]
BY DEF LinesFrom, Follows, Brings, Rest, Entry

LEMMA PlacesAre ==
  /\ \A p \in Places : /\ p[1] \in DOMAIN listing /\ p[2] \in 1..Len(Lines(p[1])) + 1
                       /\ p = <<p[1], p[2]>>
  /\ \A file \in DOMAIN listing : \A n \in 1..Len(Lines(file)) + 1 : <<file, n>> \in Places
BY DEF Places, Lines

(* No circle of includes: every file has a depth, and includes files of a   *)
(* lesser one.                                                              *)
Depths(depth, n) ==
  /\ n \in Nat /\ depth \in [DOMAIN listing -> 0..n]
  /\ \A file \in DOMAIN listing : \A k \in 1..Len(Lines(file)) :
       LET l == Lines(file)[k]
       IN  l.kw = "$INCLUDE" /\ l.name \in DOMAIN listing => depth[l.name] < depth[file]

LEMMA FileLines ==
  ASSUME FilesOK, NEW file \in DOMAIN listing
  PROVE  /\ Lines(file) = listing[file] /\ Len(Lines(file)) \in Nat
         /\ \A k \in 1..Len(Lines(file)) : Lines(file)[k] \in Range(listing[file])
<1>1. Lines(file) = listing[file] /\ listing[file] \in Seq(Range(listing[file]))
  BY DEF Lines, FilesOK
<1>2. QED
  BY <1>1, ElementOfSeq

(* What a line brings has been defined when the files of lesser depth are.  *)
LEMMA BringsOK ==
  ASSUME FilesOK, NEW depth, NEW m \in Nat, Depths(depth, m), NEW n \in Nat, NEW f,
         \A p \in Places : depth[p[1]] < n => f[p] \in Seq(Entries),
         NEW file \in DOMAIN listing, depth[file] <= n, NEW k \in 1..Len(Lines(file))
  PROVE  Brings(f, file, k) \in Seq(Entries)
<1> DEFINE l == Lines(file)[k]
<1>1. CASE l.kw # "$INCLUDE"
  <2>1. k \in 1..Len(Lines(file)) + 1
    BY FileLines
  <2>2. Entry(file, k) \in Entries
    BY <2>1, PlacesAre DEF Entries
  <2>3. QED
    BY <1>1, <2>2 DEF Brings
<1>2. CASE l.kw = "$INCLUDE" /\ l.name \in DOMAIN listing
  <2>1. depth[l.name] < depth[file] /\ depth[l.name] \in Nat /\ depth[file] \in Nat
    BY <1>2 DEF Depths
  <2>2. 1 \in 1..Len(Lines(l.name)) + 1
    BY <1>2, FileLines
  <2>3. <<l.name, 1>> \in Places
    BY <1>2, <2>2, PlacesAre
  <2> HIDE DEF l
  <2>4. f[<<l.name, 1>>] \in Seq(Entries)
    BY <2>1, <2>3
  <2>5. QED
    BY <1>2, <2>4 DEF Brings, Rest, l
<1>3. CASE l.kw = "$INCLUDE" /\ l.name \notin DOMAIN listing
  <2>1. Brings(f, file, k) = << >>
    BY <1>3 DEF Brings, Rest
  <2>2. << >> \in Seq(Entries)
    OBVIOUS
  <2>3. QED
    BY <2>1, <2>2
<1>4. QED
  BY <1>1, <1>2, <1>3

(* It is not changed by what is defined for files of the same depth.        *)
SameBelow(f, g, depth, n) == \A p \in Places : depth[p[1]] < n => f[p] = g[p]

LEMMA BringsSame ==
  ASSUME FilesOK, NEW depth, NEW m \in Nat, Depths(depth, m), NEW n \in Nat, NEW f, NEW g,
         SameBelow(f, g, depth, n),
         NEW file \in DOMAIN listing, depth[file] <= n, NEW k \in 1..Len(Lines(file))
  PROVE  Brings(f, file, k) = Brings(g, file, k)
<1> DEFINE l == Lines(file)[k]
<1>1. CASE l.kw = "$INCLUDE" /\ l.name \in DOMAIN listing
  <2>1. depth[l.name] < depth[file] /\ depth[l.name] \in Nat /\ depth[file] \in Nat
    BY <1>1 DEF Depths
  <2>2. 1 \in 1..Len(Lines(l.name)) + 1
    BY <1>1, FileLines
  <2>3. <<l.name, 1>> \in Places
    BY <1>1, <2>2, PlacesAre
  <2> HIDE DEF l
  <2>4. f[<<l.name, 1>>] = g[<<l.name, 1>>]
    BY <2>1, <2>3 DEF SameBelow
  <2>5. QED
    BY <1>1, <2>4 DEF Brings, Rest, l
<1>2. CASE ~(l.kw = "$INCLUDE" /\ l.name \in DOMAIN listing)
  BY <1>2 DEF Brings, Rest
<1>3. QED
  BY <1>1, <1>2

Defined(f, depth, n) ==
  /\ f \in [Places -> Seq(Entries)]
  /\ \A p \in Places : depth[p[1]] < n => f[p] = Follows(f, p)

LEMMA DefinedNext ==
  ASSUME FilesOK, NEW depth, NEW m \in Nat, Depths(depth, m), NEW n \in Nat, NEW f, Defined(f, depth, n)
  PROVE  \E g : Defined(g, depth, n + 1)
<1> DEFINE S == Entries
           Part(file) == [k \in 1..Len(Lines(file)) |-> Brings(f, file, k)]
           IsH(h, file) == Joins(h, S, 1, Len(Lines(file)), Part(file))
           H == [file \in DOMAIN listing |-> CHOOSE h : IsH(h, file)]
           g == [p \in Places |-> IF depth[p[1]] = n THEN H[p[1]][p[2]] ELSE f[p]]
<1>1. f \in [Places -> Seq(S)] /\ \A p \in Places : depth[p[1]] < n => f[p] = Follows(f, p)
  BY DEF Defined
<1>2. ASSUME NEW file \in DOMAIN listing, depth[file] = n PROVE IsH(H[file], file)
  <2>1. Len(Lines(file)) \in Nat
    BY FileLines
  <2>2. \A k \in 1..Len(Lines(file)) : Part(file)[k] \in Seq(S)
    <3>1. ASSUME NEW k \in 1..Len(Lines(file)) PROVE Brings(f, file, k) \in Seq(S)
      <4>1. depth[file] <= n
        BY <1>2
      <4>2. QED
        BY <1>1, <4>1, BringsOK
    <3>2. QED
      BY <3>1
  <2> HIDE DEF Part
  <2>3. \E h : IsH(h, file)
    BY <2>1, <2>2, JoinExists
  <2>4. H[file] = CHOOSE h : IsH(h, file)
    OBVIOUS
  <2> HIDE DEF IsH, H
  <2>5. QED
    BY <2>3, <2>4
<1> HIDE DEF H
<1>3. ASSUME NEW file \in DOMAIN listing, depth[file] = n
      PROVE  /\ \A k \in 1..Len(Lines(file)) + 1 : H[file][k] \in Seq(S)
             /\ H[file][Len(Lines(file)) + 1] = << >>
             /\ \A k \in 1..Len(Lines(file)) : H[file][k] = Brings(f, file, k) \o H[file][k + 1]
  BY <1>2, <1>3 DEF Joins
<1>4. g \in [Places -> Seq(S)]
  BY <1>1, <1>3, PlacesAre
<1>5. \A p \in Places : g[p] = IF depth[p[1]] = n THEN H[p[1]][p[2]] ELSE f[p]
  OBVIOUS
<1> HIDE DEF g
<1>6. \A p \in Places : depth[p[1]] < n => f[p] = g[p]
  BY <1>5
<1>11. SameBelow(f, g, depth, n)
  BY <1>6 DEF SameBelow
<1>10. ASSUME NEW file \in DOMAIN listing, depth[file] <= n, NEW k \in 1..Len(Lines(file))
       PROVE  Brings(f, file, k) = Brings(g, file, k)
  BY <1>10, <1>11, BringsSame
<1>7. ASSUME NEW p \in Places, depth[p[1]] < n + 1 PROVE g[p] = Follows(g, p)
  <2> DEFINE file == p[1]
             k == p[2]
             q == <<file, k + 1>>
  <2>1. file \in DOMAIN listing /\ k \in 1..Len(Lines(file)) + 1 /\ p = <<file, k>>
        /\ Len(Lines(file)) \in Nat
    BY PlacesAre, FileLines
  <2>2. depth[file] \in Nat /\ depth[file] <= n /\ (depth[file] = n \/ depth[file] < n)
    BY <1>7, <2>1 DEF Depths
  <2>3. CASE k > Len(Lines(file))
    <3>1. k = Len(Lines(file)) + 1 /\ Follows(g, p) = << >>
      BY <2>1, <2>3 DEF Follows
    <3>2. CASE depth[file] = n
      BY <1>3, <1>5, <2>1, <3>1, <3>2
    <3>3. CASE depth[file] < n
      <4>1. Follows(f, p) = << >>
        BY <2>3 DEF Follows
      <4>2. QED
        BY <1>1, <1>6, <3>1, <3>3, <4>1
    <3>4. QED
      BY <2>2, <3>2, <3>3
  <2>4. CASE k <= Len(Lines(file))
    <3>1. k \in 1..Len(Lines(file)) /\ q \in Places
      BY <2>1, <2>4, PlacesAre
    <3>2. Brings(g, file, k) = Brings(f, file, k)
      BY <1>10, <2>1, <2>2, <3>1
    <3>3. Follows(g, p) = Brings(f, file, k) \o g[q]
      BY <2>1, <2>4, <3>2 DEF Follows
    <3>4. CASE depth[file] = n
      <4>1. g[p] = H[file][k]
        BY <1>5, <3>4
      <4>2. q[1] = file /\ q[2] = k + 1
        OBVIOUS
      <4> HIDE DEF q
      <4>3. g[q] = H[file][k + 1]
        BY <1>5, <3>1, <3>4, <4>2
      <4>4. H[file][k] = Brings(f, file, k) \o H[file][k + 1]
        BY <1>3, <2>1, <3>1, <3>4
      <4>5. QED
        BY <3>3, <4>1, <4>3, <4>4
    <3>5. CASE depth[file] < n
      <4>1. q[1] = file
        OBVIOUS
      <4>2. Follows(f, p) = Brings(f, file, k) \o f[q]
        BY <2>1, <2>4 DEF Follows
      <4> HIDE DEF q
      <4>3. g[q] = f[q]
        BY <1>6, <3>1, <3>5, <4>1
      <4>4. QED
        BY <1>1, <1>6, <3>3, <3>5, <4>2, <4>3
    <3>6. QED
      BY <2>2, <3>4, <3>5
  <2>5. QED
    BY <2>1, <2>3, <2>4
<1>8. Defined(g, depth, n + 1)
  BY <1>4, <1>7 DEF Defined
<1>9. QED
  BY <1>8

NoCircle == FilesOK /\ \E n \in Nat : \E depth : Depths(depth, n)

LEMMA AllDefined ==
  ASSUME FilesOK, NEW depth, NEW m \in Nat, Depths(depth, m)
  PROVE  \E f : Defined(f, depth, m + 1)
<1> DEFINE T == {n \in 0..m + 1 : \E f : Defined(f, depth, n)}
<1>1. 0 \in T
  <2> DEFINE f == [p \in Places |-> << >>]
  <2>1. f \in [Places -> Seq(Entries)]
    OBVIOUS
  <2>2. \A p \in Places : depth[p[1]] \in Nat
    BY PlacesAre DEF Depths
  <2> HIDE DEF f
  <2>3. Defined(f, depth, 0)
    BY <2>1, <2>2 DEF Defined
  <2>4. 0 \in 0..m + 1
    OBVIOUS
  <2>5. QED
    BY <2>3, <2>4
<1>2. ASSUME NEW n \in 1..m + 1, n - 1 \in T PROVE n \in T
  <2>1. PICK f : Defined(f, depth, n - 1)
    BY <1>2
  <2> DEFINE k == n - 1
  <2>2. k \in Nat /\ k + 1 = n /\ n \in 0..m + 1
    OBVIOUS
  <2>3. Defined(f, depth, k)
    BY <2>1
  <2> HIDE DEF k
  <2>4. \E g : Defined(g, depth, k + 1)
    BY <2>2, <2>3, DefinedNext
  <2>5. QED
    BY <2>2, <2>4
<1>3. m + 1 \in Nat /\ m + 1 \in 0..m + 1
  OBVIOUS
<1>4. 0..m + 1 \subseteq T
  <2> DEFINE k == m + 1
  <2>1. k \in Nat /\ \A n \in 1..k : n - 1 \in T => n \in T
    BY <1>2
  <2> HIDE DEF T, k
  <2>2. 0..k \subseteq T
    BY <1>1, <2>1, UpTo
  <2>3. QED
    BY <2>2 DEF k
<1>5. QED
  BY <1>3, <1>4

(* The definition has a meaning.                                            *)
LEMMA LinesFromOK ==
  ASSUME NoCircle PROVE LinesFrom = [p \in Places |-> Follows(LinesFrom, p)]
<1>1. PICK m \in Nat : \E depth : Depths(depth, m)
  BY DEF NoCircle
<1>2. PICK depth : Depths(depth, m)
  BY <1>1
<1>3. PICK f : Defined(f, depth, m + 1)
  BY <1>2, AllDefined DEF NoCircle
<1>4. \A p \in Places : depth[p[1]] < m + 1
  BY <1>1, <1>2, PlacesAre DEF Depths
<1>5. f = [p \in Places |-> f[p]] /\ \A p \in Places : f[p] = Follows(f, p)
  BY <1>3, <1>4 DEF Defined
<1>6. f = [p \in Places |-> Follows(f, p)]
  BY <1>5, Zenon
<1>7. QED
  BY <1>6, LinesFromIs

LEMMA FileTyped ==
  ASSUME NoCircle, NEW depth, NEW m \in Nat, Depths(depth, m), NEW n \in Nat,
         \A p \in Places : depth[p[1]] < n => LinesFrom[p] \in Seq(Entries),
         NEW file \in DOMAIN listing, depth[file] <= n
  PROVE  \A k \in 1..Len(Lines(file)) + 1 : LinesFrom[<<file, k>>] \in Seq(Entries)
<1> DEFINE len == Len(Lines(file))
           From(k) == LinesFrom[<<file, k>>]
           T == {j \in 0..len : From(len + 1 - j) \in Seq(Entries)}
<1>1. len \in Nat
  BY FileLines DEF NoCircle
<1>2. ASSUME NEW k \in 1..len + 1 PROVE From(k) = Follows(LinesFrom, <<file, k>>)
  <2>1. <<file, k>> \in Places
    BY PlacesAre
  <2>2. QED
    BY <2>1, LinesFromOK
<1>3. From(len + 1) = << >>
  <2>1. len + 1 \in 1..len + 1 /\ len + 1 > len
    BY <1>1
  <2>2. Follows(LinesFrom, <<file, len + 1>>) = << >>
    BY <2>1 DEF Follows
  <2>3. QED
    BY <1>2, <2>1, <2>2
<1>4. ASSUME NEW k \in 1..len PROVE From(k) = Brings(LinesFrom, file, k) \o From(k + 1)
  <2>1. k \in 1..len + 1 /\ ~(k > len)
    BY <1>1
  <2>2. Follows(LinesFrom, <<file, k>>) = Brings(LinesFrom, file, k) \o From(k + 1)
    BY <2>1 DEF Follows
  <2>3. QED
    BY <1>2, <2>1, <2>2
<1>5. ASSUME NEW k \in 1..len PROVE Brings(LinesFrom, file, k) \in Seq(Entries)
  BY BringsOK DEF NoCircle
<1> HIDE DEF From, len
<1>6. 0 \in T
  <2>1. len + 1 - 0 = len + 1 /\ 0 \in 0..len /\ << >> \in Seq(Entries)
    BY <1>1
  <2>2. QED
    BY <1>3, <2>1
<1>7. ASSUME NEW j \in 1..len, j - 1 \in T PROVE j \in T
  <2> DEFINE k == len + 1 - j
  <2>1. k \in 1..len /\ len + 1 - (j - 1) = k + 1 /\ j \in 0..len
    BY <1>1
  <2>2. From(k + 1) \in Seq(Entries)
    BY <1>7, <2>1
  <2> HIDE DEF k
  <2>3. \A a, b \in Seq(Entries) : a \o b \in Seq(Entries)
    OBVIOUS
  <2>4. From(k) \in Seq(Entries)
    BY <1>4, <1>5, <2>1, <2>2, <2>3
  <2>5. QED
    BY <2>1, <2>4 DEF k
<1>8. 0..len \subseteq T
  <2> HIDE DEF T
  <2>1. QED
    BY <1>1, <1>6, <1>7, UpTo
<1>9. ASSUME NEW k \in 1..len + 1 PROVE From(k) \in Seq(Entries)
  <2>1. len + 1 - k \in 0..len /\ len + 1 - (len + 1 - k) = k
    BY <1>1
  <2>2. QED
    BY <1>8, <2>1
<1>10. QED
  BY <1>9 DEF From, len

LEMMA LinesTyped ==
  ASSUME NoCircle PROVE \A p \in Places : LinesFrom[p] \in Seq(Entries)
<1>1. PICK m \in Nat : \E depth : Depths(depth, m)
  BY DEF NoCircle
<1>2. PICK depth : Depths(depth, m)
  BY <1>1
<1> DEFINE Typed(n) == \A p \in Places : depth[p[1]] < n => LinesFrom[p] \in Seq(Entries)
           top == m + 1
           T == {n \in 0..top : Typed(n)}
<1>3. \A p \in Places : depth[p[1]] \in 0..m
  BY <1>2, PlacesAre DEF Depths
<1>4. top \in Nat /\ 0 \in 0..top /\ top \in 0..top
  BY <1>1
<1>5. 0 \in T
  BY <1>3, <1>4
<1> HIDE DEF top
<1>6. ASSUME NEW n \in 1..top, n - 1 \in T PROVE n \in T
  <2> DEFINE k == n - 1
  <2>1. k \in Nat /\ k + 1 = n /\ n \in 0..top
    BY <1>4
  <2>2. Typed(k)
    BY <1>6
  <2> HIDE DEF k
  <2>3. ASSUME NEW p \in Places, depth[p[1]] < n PROVE LinesFrom[p] \in Seq(Entries)
    <3>1. p[1] \in DOMAIN listing /\ p[2] \in 1..Len(Lines(p[1])) + 1 /\ p = <<p[1], p[2]>>
      BY PlacesAre
    <3>2. depth[p[1]] <= k
      BY <1>3, <2>1, <2>3
    <3>3. \A j \in 1..Len(Lines(p[1])) + 1 : LinesFrom[<<p[1], j>>] \in Seq(Entries)
      BY <1>2, <2>1, <2>2, <3>1, <3>2, FileTyped
    <3>4. QED
      BY <3>1, <3>3
  <2>4. QED
    BY <2>1, <2>3
<1>7. 0..top \subseteq T
  <2> HIDE DEF T
  <2>1. QED
    BY <1>4, <1>5, <1>6, UpTo
<1>8. Typed(top)
  BY <1>4, <1>7
<1>9. QED
  BY <1>1, <1>3, <1>8 DEF top

Chunks == Seq(Entries)

Stacks == Seq(Calls)

(* What is left of a file, line by line.                                    *)
LEMMA RestIs ==
  ASSUME NoCircle, NEW file, NEW n \in 1..Len(Lines(file)) + 1, NEW rest, rest = Rest(LinesFrom, file, n)
  PROVE  /\ rest \in Chunks
         /\ n > Len(Lines(file)) => rest = << >>
         /\ n <= Len(Lines(file)) =>
              /\ rest = Brings(LinesFrom, file, n) \o Rest(LinesFrom, file, n + 1)
              /\ n + 1 \in 1..Len(Lines(file)) + 1
<1>1. CASE file \in DOMAIN listing
  <2>1. <<file, n>> \in Places /\ Len(Lines(file)) \in Nat
    BY <1>1, PlacesAre, FileLines DEF NoCircle
  <2>2. rest = LinesFrom[<<file, n>>] /\ Rest(LinesFrom, file, n + 1) = LinesFrom[<<file, n + 1>>]
    BY <1>1 DEF Rest
  <2>3. rest = Follows(LinesFrom, <<file, n>>) /\ rest \in Chunks
    BY <2>1, <2>2, LinesFromOK, LinesTyped DEF Chunks
  <2>4. Follows(LinesFrom, <<file, n>>)
          = IF n > Len(Lines(file)) THEN << >>
            ELSE Brings(LinesFrom, file, n) \o LinesFrom[<<file, n + 1>>]
    BY DEF Follows
  <2>5. n <= Len(Lines(file)) => n + 1 \in 1..Len(Lines(file)) + 1 /\ ~(n > Len(Lines(file)))
    BY <2>1
  <2>6. QED
    BY <2>2, <2>3, <2>4, <2>5
<1>2. CASE file \notin DOMAIN listing
  <2>1. Len(Lines(file)) = 0 /\ rest = << >>
    BY <1>2 DEF Lines, Rest
  <2>2. << >> \in Chunks
    BY DEF Chunks
  <2>3. n = 1
    BY <2>1
  <2>4. QED
    BY <2>1, <2>2, <2>3
<1>3. QED
  BY <1>1, <1>2

MarksBefore(file, n) == {j \in 1..n - 1 : Lines(file)[j].kw \in {"BEGIN-VENDOR", "END-VENDOR"}}

(* The vendor block after a line.                                           *)
LEMMA VendorAfter ==
  ASSUME NEW file, NEW n \in Nat \ {0}
  PROVE  NextVendor(Lines(file)[n], VendorBlock(file, n)) = VendorBlock(file, n + 1)
<1> DEFINE l == Lines(file)[n]
           mark == l.kw \in {"BEGIN-VENDOR", "END-VENDOR"}
<1>1. MarksBefore(file, n + 1) = MarksBefore(file, n) \cup (IF mark THEN {n} ELSE {})
  BY DEF MarksBefore
<1>2. \A k \in Nat \ {0} :
        VendorBlock(file, k)
          = IF MarksBefore(file, k) = {} \/ Lines(file)[Max(MarksBefore(file, k))].kw = "END-VENDOR"
            THEN NoVendor ELSE Lines(file)[Max(MarksBefore(file, k))].name
  BY DEF VendorBlock, MarksBefore
<1>3. CASE mark
  <2>1. n \in MarksBefore(file, n + 1) /\ MarksBefore(file, n + 1) \in SUBSET Int
        /\ \A j \in MarksBefore(file, n + 1) : j <= n
    BY <1>1, <1>3 DEF MarksBefore
  <2>2. Max(MarksBefore(file, n + 1)) = n
    BY <2>1, GreatestIsMax
  <2>3. n + 1 \in Nat \ {0}
    OBVIOUS
  <2>4. VendorBlock(file, n + 1) = IF l.kw = "END-VENDOR" THEN NoVendor ELSE l.name
    BY <1>2, <2>1, <2>2, <2>3
  <2>5. QED
    BY <1>3, <2>4 DEF NextVendor
<1>4. CASE ~mark
  <2>1. n + 1 \in Nat \ {0} /\ MarksBefore(file, n + 1) = MarksBefore(file, n)
    BY <1>1, <1>4
  <2>2. VendorBlock(file, n + 1) = VendorBlock(file, n)
    BY <1>2, <2>1
  <2>3. QED
    BY <1>4, <2>2 DEF NextVendor
<1>5. QED
  BY <1>3, <1>4

(* What is parsed so far is in the dictionary: every name is one of a line, *)
(* and an attribute is what the first line of its name declares.            *)
About(l, name) == l.kw \in {"ATTRIBUTE", "VALUE"} /\ l.name = name

DeclaredAs(d, l, vendor) ==
  /\ HasAttribute(d, l.name)
  /\ GetAttribute(d, l.name).id = l.num % OctetSize
  /\ GetAttribute(d, l.name).type = l.type
  /\ GetAttribute(d, l.name).vendor = IF l.vendor # NoVendor THEN l.vendor ELSE vendor

FirstAbout(done, k) ==
  done[k].line.kw = "ATTRIBUTE" /\ \A j \in 1..k - 1 : ~About(done[j].line, done[k].line.name)

Declared(done, d) ==
  /\ \A name \in DOMAIN d.attrs : \E j \in 1..Len(done) : About(done[j].line, name)
  /\ \A k \in 1..Len(done) : FirstAbout(done, k) => DeclaredAs(d, done[k].line, done[k].vendor)

(* A line adds its name, and leaves what other lines declared.              *)
LEMMA AddedNames ==
  ASSUME NEW d, DictOK(d), NEW l, NEW vendor, NEW e, e = Added(d, l, vendor)
  PROVE  /\ \A name \in DOMAIN e.attrs : name \in DOMAIN d.attrs \/ About(l, name)
         /\ \A name \in DOMAIN d.attrs :
              /\ name \in DOMAIN e.attrs
              /\ e.attrs[name].id = d.attrs[name].id
              /\ e.attrs[name].type = d.attrs[name].type
              /\ e.attrs[name].vendor = d.attrs[name].vendor
<1>1. CASE l.kw = "ATTRIBUTE"
  BY <1>1 DEF Added, AddAttribute, AssignAttribute, DictOK, Put, About
<1>2. CASE l.kw = "VALUE"
  <2> DEFINE a == IF l.name \in DOMAIN d.attrs THEN d.attrs[l.name]
                  ELSE [id |-> 0, type |-> NoType, vendor |-> NoVendor, values |-> << >>]
             b == [a EXCEPT !.values = Put(@, l.value, l.num)]
  <2>1. e = [d EXCEPT !.attrs = Put(@, l.name, b)]
    BY <1>2, Zenon DEF Added, AddValue
  <2>2. l.name \in DOMAIN d.attrs =>
          /\ b.id = d.attrs[l.name].id /\ b.type = d.attrs[l.name].type
          /\ b.vendor = d.attrs[l.name].vendor
    <3>1. CASE l.name \in DOMAIN d.attrs
      <4>1. AttributeOK(a) /\ a = d.attrs[l.name]
        BY <3>1 DEF DictOK
      <4> HIDE DEF a
      <4>2. b.id = a.id /\ b.type = a.type /\ b.vendor = a.vendor
        BY <4>1 DEF AttributeOK
      <4>3. QED
        BY <4>1, <4>2
    <3>2. QED
      BY <3>1
  <2> HIDE DEF b
  <2>3. e.attrs = Put(d.attrs, l.name, b)
    BY <2>1 DEF DictOK
  <2>4. QED
    BY <1>2, <2>2, <2>3 DEF Put, About
<1>3. CASE l.kw = "VENDOR"
  BY <1>3 DEF Added, AddVendor, DictOK
<1>4. CASE l.kw \notin {"ATTRIBUTE", "VALUE", "VENDOR"}
  BY <1>4 DEF Added
<1>5. QED
  BY <1>1, <1>2, <1>3, <1>4

LEMMA AddedFirst ==
  ASSUME NEW d, DictOK(d), NEW l, l.kw = "ATTRIBUTE", l.name \notin DOMAIN d.attrs, NEW vendor
  PROVE  DeclaredAs(Added(d, l, vendor), l, vendor)
BY DEF Added, AddAttribute, AssignAttribute, DictOK, Put, DeclaredAs, HasAttribute, GetAttribute,
       KeptId, VendorOf

LEMMA DeclaredNext ==
  ASSUME NEW done \in Chunks, NEW d, DictOK(d), Declared(done, d), NEW x \in Entries,
         NEW e, e = Added(d, x.line, x.vendor), NEW more, more = Append(done, x)
  PROVE  Declared(more, e)
<1> DEFINE n == Len(done)
           l == x.line
<1>1. /\ n \in Nat /\ Len(more) = n + 1 /\ more[n + 1] = x
      /\ \A j \in 1..n : more[j] = done[j]
  OBVIOUS
<1>2. /\ \A name \in DOMAIN d.attrs : \E j \in 1..n : About(done[j].line, name)
      /\ \A k \in 1..n : FirstAbout(done, k) => DeclaredAs(d, done[k].line, done[k].vendor)
  BY DEF Declared
<1> HIDE DEF n
<1>3. /\ \A name \in DOMAIN e.attrs : name \in DOMAIN d.attrs \/ About(l, name)
      /\ \A name \in DOMAIN d.attrs :
           /\ name \in DOMAIN e.attrs
           /\ e.attrs[name].id = d.attrs[name].id
           /\ e.attrs[name].type = d.attrs[name].type
           /\ e.attrs[name].vendor = d.attrs[name].vendor
  BY AddedNames
<1>4. ASSUME NEW name \in DOMAIN e.attrs PROVE \E j \in 1..n + 1 : About(more[j].line, name)
  <2>1. CASE name \in DOMAIN d.attrs
    <3>1. PICK j \in 1..n : About(done[j].line, name)
      BY <1>2, <2>1
    <3>2. j \in 1..n + 1 /\ more[j] = done[j]
      BY <1>1
    <3>3. QED
      BY <3>1, <3>2
  <2>2. CASE About(l, name)
    <3>1. n + 1 \in 1..n + 1
      BY <1>1
    <3>2. QED
      BY <1>1, <2>2, <3>1
  <2>3. QED
    BY <1>3, <2>1, <2>2
<1>5. ASSUME NEW k \in 1..n + 1, FirstAbout(more, k)
      PROVE  DeclaredAs(e, more[k].line, more[k].vendor)
  <2>1. CASE k \in 1..n
    <3>1. more[k] = done[k] /\ \A j \in 1..k - 1 : more[j] = done[j]
      BY <1>1, <2>1
    <3>2. FirstAbout(done, k)
      BY <1>5, <3>1 DEF FirstAbout
    <3>3. DeclaredAs(d, done[k].line, done[k].vendor)
      BY <1>2, <2>1, <3>2
    <3>4. QED
      BY <1>3, <3>1, <3>3 DEF DeclaredAs, HasAttribute, GetAttribute
  <2>2. CASE k = n + 1
    <3>1. more[k] = x /\ k - 1 = n
      BY <1>1, <2>2
    <3>2. l.kw = "ATTRIBUTE" /\ \A j \in 1..n : ~About(done[j].line, l.name)
      BY <1>1, <1>5, <3>1 DEF FirstAbout
    <3>3. l.name \notin DOMAIN d.attrs
      BY <1>2, <3>2
    <3>4. QED
      BY <3>1, <3>2, <3>3, AddedFirst
  <2>3. QED
    BY <1>1, <2>1, <2>2
<1>6. QED
  BY <1>1, <1>4, <1>5 DEF Declared

(* What is left for a list of calls.                                        *)
Standing(call) ==
  /\ call.next \in 1..Len(Lines(call.file)) + 1
  /\ call.vendor = VendorBlock(call.file, call.next)

RestOf(call) == Rest(LinesFrom, call.file, call.next)

Joined(x, y) == x \o y

Left(left, calls) ==
  /\ left \in [0..Len(calls) -> Chunks]
  /\ left[0] = << >>
  /\ \A k \in 1..Len(calls) : Standing(calls[k]) /\ left[k] = Joined(RestOf(calls[k]), left[k - 1])

Parsed(calls, d) ==
  \E done \in Chunks : \E left :
    Left(left, calls) /\ AllLines = Joined(done, left[Len(calls)]) /\ Declared(done, d)

(* Concatenation, for the provers a name only.                              *)
LEMMA Regrouped ==
  /\ \A x, y \in Chunks : Joined(x, y) \in Chunks
  /\ \A x, y, z \in Chunks : Joined(Joined(x, y), z) = Joined(x, Joined(y, z))
<1>1. ASSUME NEW x \in Chunks, NEW y \in Chunks, NEW z \in Chunks
      PROVE  x \o y \in Chunks /\ (x \o y) \o z = x \o (y \o z)
  BY ConcatProperties DEF Chunks
<1>2. QED
  BY <1>1 DEF Joined

LEMMA Pushed ==
  ASSUME NoCircle, NEW calls \in Stacks, NEW left, Left(left, calls), NEW call \in Calls, Standing(call),
         NEW more, more = Append(calls, call)
  PROVE  \E now : /\ Left(now, more) /\ Len(more) = Len(calls) + 1
                  /\ now[Len(more)] = Joined(RestOf(call), left[Len(calls)])
<1> DEFINE n == Len(calls)
<1>1. /\ n \in Nat /\ Len(more) = n + 1 /\ more[n + 1] = call
      /\ \A k \in 1..n : more[k] = calls[k]
  OBVIOUS
<1>2. \A x, y \in Chunks : Joined(x, y) \in Chunks
  BY Regrouped
<1> HIDE DEF n
<1>3. /\ left \in [0..n -> Chunks] /\ left[0] = << >>
      /\ \A k \in 1..n : Standing(calls[k]) /\ left[k] = Joined(RestOf(calls[k]), left[k - 1])
  BY DEF Left, n
<1>4. RestOf(call) \in Chunks
  BY RestIs DEF Standing, RestOf
<1> DEFINE top == Joined(RestOf(call), left[n])
           now == [k \in 0..n + 1 |-> IF k = n + 1 THEN top ELSE left[k]]
<1>5. top \in Chunks
  BY <1>1, <1>2, <1>3, <1>4
<1>6. top = Joined(RestOf(call), left[n])
  OBVIOUS
<1> HIDE DEF top
<1>7. now \in [0..n + 1 -> Chunks] /\ now[n + 1] = top /\ \A k \in 0..n : now[k] = left[k]
  BY <1>1, <1>3, <1>5
<1> HIDE DEF now
<1>8. ASSUME NEW k \in 1..n + 1
      PROVE  Standing(more[k]) /\ now[k] = Joined(RestOf(more[k]), now[k - 1])
  <2>1. CASE k \in 1..n
    <3>1. k \in 0..n /\ k - 1 \in 0..n /\ more[k] = calls[k]
      BY <1>1, <2>1
    <3>2. now[k] = left[k] /\ now[k - 1] = left[k - 1]
      BY <1>7, <3>1
    <3>3. QED
      BY <1>3, <2>1, <3>1, <3>2
  <2>2. CASE k = n + 1
    <3>1. k - 1 = n /\ n \in 0..n
      BY <1>1, <2>2
    <3>2. now[k - 1] = left[n] /\ now[k] = top /\ more[k] = call
      BY <1>1, <1>7, <2>2, <3>1
    <3>3. QED
      BY <1>6, <3>2
  <2>3. k \in 1..n \/ k = n + 1
    BY <1>1
  <2>4. QED
    BY <2>1, <2>2, <2>3
<1>9. now[0] = << >>
  BY <1>1, <1>3, <1>7
<1>10. Left(now, more)
  BY <1>1, <1>7, <1>8, <1>9 DEF Left
<1>11. QED
  BY <1>1, <1>6, <1>7, <1>10 DEF n

LEMMA Popped ==
  ASSUME NEW calls \in Stacks, calls # << >>, NEW left, Left(left, calls),
         NEW call, call = Last(calls), NEW rest, rest = Front(calls)
  PROVE  /\ rest \in Stacks /\ Standing(call) /\ Len(calls) = Len(rest) + 1
         /\ \E now : Left(now, rest) /\ left[Len(calls)] = Joined(RestOf(call), now[Len(rest)])
                     /\ now[Len(rest)] \in Chunks
<1> DEFINE m == Len(calls)
           n == m - 1
<1>1. m \in Nat /\ m >= 1 /\ call = calls[m] /\ \A k \in 1..m : calls[k] \in Calls
  BY DEF Last, Stacks
<1>2. rest = SubSeq(calls, 1, n)
  BY DEF Front
<1>4. n \in Nat /\ m = n + 1
  BY <1>1
<1>5. /\ left \in [0..m -> Chunks] /\ left[0] = << >>
      /\ \A k \in 1..m : Standing(calls[k]) /\ left[k] = Joined(RestOf(calls[k]), left[k - 1])
  BY DEF Left
<1> HIDE DEF m, n
<1>3. rest \in Stacks /\ Len(rest) = n /\ \A k \in 1..n : rest[k] = calls[k]
  <2>1. \A k \in 1..n : calls[k] \in Calls
    BY <1>1, <1>4
  <2>2. /\ SubSeq(calls, 1, n) \in Seq(Calls)
        /\ Len(SubSeq(calls, 1, n)) = (IF 1 <= n THEN n - 1 + 1 ELSE 0)
        /\ \A k \in 1..n - 1 + 1 : SubSeq(calls, 1, n)[k] = calls[1 + k - 1]
    BY <1>4, <2>1, SubSeqProperties
  <2>3. n - 1 + 1 = n /\ (IF 1 <= n THEN n - 1 + 1 ELSE 0) = n /\ \A k \in 1..n : 1 + k - 1 = k
    BY <1>4
  <2>4. QED
    BY <1>2, <2>2, <2>3 DEF Stacks
<1> DEFINE now == [k \in 0..n |-> left[k]]
<1>6. now \in [0..n -> Chunks] /\ \A k \in 0..n : now[k] = left[k]
  BY <1>4, <1>5
<1> HIDE DEF now
<1>7. ASSUME NEW k \in 1..n
      PROVE  Standing(rest[k]) /\ now[k] = Joined(RestOf(rest[k]), now[k - 1])
  <2>1. k \in 0..n /\ k - 1 \in 0..n /\ k \in 1..m /\ rest[k] = calls[k]
    BY <1>3, <1>4
  <2>2. now[k] = left[k] /\ now[k - 1] = left[k - 1]
    BY <1>6, <2>1
  <2>3. QED
    BY <1>5, <2>1, <2>2
<1>8. now[0] = << >>
  BY <1>4, <1>5, <1>6
<1>9. Left(now, rest)
  BY <1>3, <1>6, <1>7, <1>8 DEF Left
<1>10. left[m] = Joined(RestOf(call), now[n]) /\ now[n] \in Chunks /\ Standing(call)
  <2>1. m \in 1..m /\ m - 1 = n /\ n \in 0..n
    BY <1>1, <1>4
  <2>2. QED
    BY <1>1, <1>5, <1>6, <2>1
<1>11. QED
  BY <1>3, <1>4, <1>9, <1>10 DEF m

(* The line that is read.                                                   *)
LEMMA CurrentIs ==
  ASSUME NoCircle, NEW call \in Calls, Standing(call), call.next <= Len(Lines(call.file))
  PROVE  /\ call.file \in DOMAIN listing /\ <<call.file, call.next>> \in Places
         /\ Entry(call.file, call.next) \in Entries
<1>1. call.file \in DOMAIN listing
  <2>1. CASE call.file \notin DOMAIN listing
    BY <2>1 DEF Lines, Standing
  <2>2. QED
    BY <2>1
<1>2. <<call.file, call.next>> \in Places
  BY <1>1, PlacesAre DEF Standing
<1>3. Entry(call.file, call.next) \in Entries
  BY <1>2 DEF Entries
<1>4. QED
  BY <1>1, <1>2, <1>3

(* The call goes on to the next line.                                       *)
LEMMA MovedOn ==
  ASSUME NoCircle, ParseInv, NEW call \in Calls, Standing(call), call.next <= Len(Lines(call.file)),
         NEW next, next = [call EXCEPT !.next = @ + 1, !.vendor = NextVendor(Lines(call.file)[call.next], @)]
  PROVE  /\ next \in Calls /\ Standing(next) /\ RestOf(next) \in Chunks
         /\ next.file = call.file /\ next.next = call.next + 1
         /\ RestOf(call) = Joined(Brings(LinesFrom, call.file, call.next), RestOf(next))
<1> DEFINE l == Lines(call.file)[call.next]
           n == call.next + 1
<1>1. next \in Calls
  <2>1. call.file \in DOMAIN listing
    BY CurrentIs
  <2>2. l.name \in STRING
    <3>1. call.next \in 1..Len(Lines(call.file))
      BY DEF Calls
    <3>2. l \in Range(listing[call.file])
      BY <2>1, <3>1, FileLines DEF NoCircle
    <3>3. QED
      BY <2>1, <3>2 DEF NoCircle, FilesOK
  <2>3. NextVendor(l, call.vendor) \in Vendors /\ call.next + 1 \in Nat \ {0}
    BY <2>2, VendorKept DEF Calls
  <2>4. QED
    BY <2>3 DEF Calls
<1>2. /\ next.file = call.file /\ next.next = n
      /\ next.vendor = NextVendor(l, call.vendor)
  BY DEF Calls
<1>3. call.next \in 1..Len(Lines(call.file)) + 1 /\ call.vendor = VendorBlock(call.file, call.next)
  BY DEF Standing
<1>4. RestOf(call) = Rest(LinesFrom, call.file, call.next) /\ RestOf(next) = Rest(LinesFrom, call.file, n)
  BY <1>2 DEF RestOf
<1>5. /\ RestOf(call) = Brings(LinesFrom, call.file, call.next) \o Rest(LinesFrom, call.file, call.next + 1)
      /\ call.next + 1 \in 1..Len(Lines(call.file)) + 1
  BY <1>3, <1>4, RestIs
<1>6. n \in 1..Len(Lines(call.file)) + 1
  BY <1>5
<1>7. RestOf(next) \in Chunks
  <2> HIDE DEF n
  <2>1. QED
    BY <1>4, <1>6, RestIs
<1>8. next.vendor = VendorBlock(call.file, n)
  BY <1>2, <1>3, VendorAfter DEF Calls
<1>9. Standing(next)
  BY <1>2, <1>6, <1>8 DEF Standing
<1>10. RestOf(call) = Joined(Brings(LinesFrom, call.file, call.next), RestOf(next))
  BY <1>4, <1>5 DEF Joined
<1>11. QED
  BY <1>1, <1>2, <1>7, <1>9, <1>10

LEMMA ParsedLine == ASSUME NoCircle, ParseInv, Parsed(stack, dict), ParseLine PROVE Parsed(stack', dict')
<1>0. PICK done \in Chunks : \E left :
        Left(left, stack) /\ AllLines = Joined(done, left[Len(stack)]) /\ Declared(done, dict)
  BY DEF Parsed
<1>1. PICK left : Left(left, stack) /\ AllLines = Joined(done, left[Len(stack)]) /\ Declared(done, dict)
  BY <1>0
<1> DEFINE call == Last(stack)
           rest == Front(stack)
           l == Lines(call.file)[call.next]
           x == Entry(call.file, call.next)
           next == [call EXCEPT !.next = @ + 1, !.vendor = NextVendor(l, @)]
<1>2. /\ stack # << >> /\ call.next <= Len(Lines(call.file)) /\ l.kw # "$INCLUDE"
      /\ dict' = Added(dict, l, call.vendor) /\ stack' = Append(rest, next)
  BY Zenon DEF ParseLine, Current, Call
<1>3. stack \in Stacks /\ call \in Calls
  BY <1>2, CallOK DEF Call, ParseInv, Stacks
<1>4. /\ rest \in Stacks /\ Standing(call) /\ Len(stack) = Len(rest) + 1
      /\ \E now : Left(now, rest) /\ left[Len(stack)] = Joined(RestOf(call), now[Len(rest)])
                  /\ now[Len(rest)] \in Chunks
  <2>1. rest = Front(stack) /\ call = Last(stack) /\ stack # << >> /\ stack \in Stacks
        /\ Left(left, stack)
    BY <1>1, <1>2, <1>3
  <2> HIDE DEF rest, call
  <2>2. QED
    BY <2>1, Popped
<1>5. PICK now : Left(now, rest) /\ left[Len(stack)] = Joined(RestOf(call), now[Len(rest)])
                 /\ now[Len(rest)] \in Chunks
  BY <1>4
<1>6. /\ next \in Calls /\ Standing(next) /\ RestOf(next) \in Chunks
      /\ RestOf(call) = Joined(Brings(LinesFrom, call.file, call.next), RestOf(next))
  <2>1. next = [call EXCEPT !.next = @ + 1, !.vendor = NextVendor(Lines(call.file)[call.next], @)]
    OBVIOUS
  <2> HIDE DEF next
  <2>2. QED
    BY <1>2, <1>3, <1>4, <2>1, MovedOn
<1>7. x \in Entries /\ x.line = l /\ x.vendor = call.vendor
  BY <1>2, <1>3, <1>4, CurrentIs DEF Entry, Standing
<1> DEFINE y == <<x>>
           s == RestOf(next)
           t == now[Len(rest)]
           more == Append(done, x)
<1>8. RestOf(call) = Joined(y, s)
  BY <1>2, <1>6 DEF Brings
<1>9. \E after : /\ Left(after, stack') /\ Len(stack') = Len(rest) + 1
                 /\ after[Len(stack')] = Joined(s, t)
  <2>1. /\ stack' = Append(rest, next) /\ rest \in Stacks /\ next \in Calls
        /\ Left(now, rest) /\ Standing(next)
    BY <1>2, <1>4, <1>5, <1>6
  <2> HIDE DEF next, rest
  <2>2. QED
    BY <2>1, Pushed
<1>10. PICK after : /\ Left(after, stack') /\ Len(stack') = Len(rest) + 1
                    /\ after[Len(stack')] = Joined(s, t)
  BY <1>9
<1>11. more = Joined(done, y) /\ more \in Chunks /\ y \in Chunks
  <2> HIDE DEF x
  <2>1. QED
    BY <1>7, AppendIsConcat, AppendProperties DEF Chunks, Joined
<1>12. AllLines = Joined(more, after[Len(stack')])
  <2>1. AllLines = Joined(done, Joined(Joined(y, s), t))
    BY <1>1, <1>5, <1>8
  <2>2. s \in Chunks /\ t \in Chunks /\ y \in Chunks /\ done \in Chunks
    BY <1>5, <1>6, <1>11
  <2> HIDE DEF t, s, y, more
  <2>3. Joined(done, Joined(Joined(y, s), t)) = Joined(Joined(done, y), Joined(s, t))
    BY <2>2, Regrouped
  <2>4. QED
    BY <1>10, <1>11, <2>1, <2>3
<1>13. Declared(more, dict')
  <2>1. DictOK(dict) /\ dict' = Added(dict, x.line, x.vendor)
    BY <1>2, <1>7 DEF ParseInv
  <2> HIDE DEF x
  <2>2. QED
    BY <1>1, <1>7, <2>1, DeclaredNext
<1>14. QED
  BY <1>10, <1>11, <1>12, <1>13 DEF Parsed

LEMMA ParsedInclude == ASSUME NoCircle, ParseInv, Parsed(stack, dict), Include PROVE Parsed(stack', dict')
<1>0. PICK done \in Chunks : \E left :
        Left(left, stack) /\ AllLines = Joined(done, left[Len(stack)]) /\ Declared(done, dict)
  BY DEF Parsed
<1>1. PICK left : Left(left, stack) /\ AllLines = Joined(done, left[Len(stack)]) /\ Declared(done, dict)
  BY <1>0
<1> DEFINE call == Last(stack)
           rest == Front(stack)
           l == Lines(call.file)[call.next]
           next == [call EXCEPT !.next = @ + 1]
           new == [file |-> l.name, next |-> 1, vendor |-> NoVendor]
<1>2. /\ stack # << >> /\ call.next <= Len(Lines(call.file)) /\ l.kw = "$INCLUDE"
      /\ dict' = dict /\ stack' = Append(Append(rest, next), new)
  BY Zenon DEF Include, Current, Call
<1>3. stack \in Stacks /\ call \in Calls
  BY <1>2, CallOK DEF Call, ParseInv, Stacks
<1>4. /\ rest \in Stacks /\ Standing(call) /\ Len(stack) = Len(rest) + 1
      /\ \E now : Left(now, rest) /\ left[Len(stack)] = Joined(RestOf(call), now[Len(rest)])
                  /\ now[Len(rest)] \in Chunks
  <2>1. rest = Front(stack) /\ call = Last(stack) /\ stack # << >> /\ stack \in Stacks
        /\ Left(left, stack)
    BY <1>1, <1>2, <1>3
  <2> HIDE DEF rest, call
  <2>2. QED
    BY <2>1, Popped
<1>5. PICK now : Left(now, rest) /\ left[Len(stack)] = Joined(RestOf(call), now[Len(rest)])
                 /\ now[Len(rest)] \in Chunks
  BY <1>4
<1>6. /\ next \in Calls /\ Standing(next) /\ RestOf(next) \in Chunks
      /\ RestOf(call) = Joined(Brings(LinesFrom, call.file, call.next), RestOf(next))
  <2>1. next = [call EXCEPT !.next = @ + 1, !.vendor = NextVendor(Lines(call.file)[call.next], @)]
    BY <1>2, <1>3 DEF Calls, NextVendor
  <2> HIDE DEF next
  <2>2. QED
    BY <1>2, <1>3, <1>4, <2>1, MovedOn
<1>7. new \in Calls /\ Standing(new)
  <2>1. l.name \in STRING
    BY <1>2, LineOK DEF Current, Call
  <2>2. NoVendor \in Vendors
    BY DEF Vendors
  <2>3. VendorBlock(l.name, 1) = NoVendor
    <3>1. 1..1 - 1 = {}
      OBVIOUS
    <3>2. QED
      BY <3>1 DEF VendorBlock
  <2>4. 1 \in 1..Len(Lines(l.name)) + 1
    BY FileLines DEF NoCircle, Lines
  <2>5. QED
    BY <2>1, <2>2, <2>3, <2>4 DEF Calls, Standing
<1> DEFINE y == RestOf(new)
           s == RestOf(next)
           t == now[Len(rest)]
           below == Append(rest, next)
<1>8. RestOf(call) = Joined(y, s)
  BY <1>2, <1>6 DEF Brings, RestOf
<1>9. y \in Chunks
  <2>1. new.next \in 1..Len(Lines(new.file)) + 1 /\ y = Rest(LinesFrom, new.file, new.next)
    BY <1>7 DEF Standing, RestOf
  <2> HIDE DEF new, y
  <2>2. QED
    BY <2>1, RestIs
<1>10. \E mid : Left(mid, below) /\ Len(below) = Len(rest) + 1 /\ mid[Len(below)] = Joined(s, t)
  <2>1. below = Append(rest, next) /\ rest \in Stacks /\ next \in Calls /\ Left(now, rest) /\ Standing(next)
    BY <1>4, <1>5, <1>6
  <2> HIDE DEF next, rest, below
  <2>2. QED
    BY <2>1, Pushed
<1>11. PICK mid : Left(mid, below) /\ Len(below) = Len(rest) + 1 /\ mid[Len(below)] = Joined(s, t)
  BY <1>10
<1>12. below \in Stacks
  BY <1>4, <1>6, AppendProperties DEF Stacks
<1>13. \E after : Left(after, stack') /\ after[Len(stack')] = Joined(y, mid[Len(below)])
  <2>1. stack' = Append(below, new) /\ below \in Stacks /\ new \in Calls /\ Left(mid, below) /\ Standing(new)
    BY <1>2, <1>7, <1>11, <1>12
  <2> HIDE DEF new, below
  <2>2. QED
    BY <2>1, Pushed
<1>14. PICK after : Left(after, stack') /\ after[Len(stack')] = Joined(y, mid[Len(below)])
  BY <1>13
<1>15. AllLines = Joined(done, after[Len(stack')])
  <2>1. AllLines = Joined(done, Joined(Joined(y, s), t)) /\ after[Len(stack')] = Joined(y, Joined(s, t))
    BY <1>1, <1>5, <1>8, <1>11, <1>14
  <2>2. s \in Chunks /\ t \in Chunks /\ y \in Chunks
    BY <1>5, <1>6, <1>9
  <2> HIDE DEF t, s, y
  <2>3. Joined(Joined(y, s), t) = Joined(y, Joined(s, t))
    BY <2>2, Regrouped
  <2>4. QED
    BY <2>1, <2>3
<1>16. QED
  BY <1>1, <1>2, <1>14, <1>15 DEF Parsed
LEMMA FrontLast == ASSUME NEW calls \in Stacks, calls # << >> PROVE Append(Front(calls), Last(calls)) = calls
<1> DEFINE m == Len(calls)
           n == m - 1
           front == SubSeq(calls, 1, n)
<1>1. m \in Nat /\ m >= 1 /\ Last(calls) = calls[m] /\ \A k \in 1..m : calls[k] \in Calls
  BY DEF Last, Stacks
<1>2. Front(calls) = front /\ n \in Nat /\ m = n + 1
  BY <1>1 DEF Front
<1>3. calls = [k \in 1..m |-> calls[k]]
  BY DEF Stacks
<1> HIDE DEF m, n
<1>4. front \in Seq(Calls) /\ Len(front) = n /\ \A k \in 1..n : front[k] = calls[k]
  <2>1. \A k \in 1..n : calls[k] \in Calls
    BY <1>1, <1>2
  <2>2. /\ front \in Seq(Calls)
        /\ Len(front) = (IF 1 <= n THEN n - 1 + 1 ELSE 0)
        /\ \A k \in 1..n - 1 + 1 : front[k] = calls[1 + k - 1]
    BY <1>2, <2>1, SubSeqProperties
  <2>3. n - 1 + 1 = n /\ (IF 1 <= n THEN n - 1 + 1 ELSE 0) = n /\ \A k \in 1..n : 1 + k - 1 = k
    BY <1>2
  <2>4. QED
    BY <2>2, <2>3
<1> DEFINE all == Append(front, calls[m])
<1> HIDE DEF front
<1>5. all \in Seq(Calls) /\ Len(all) = m /\ \A k \in 1..m : all[k] = calls[k]
  <2>1. calls[m] \in Calls
    BY <1>1
  <2>2. /\ all \in Seq(Calls) /\ Len(all) = n + 1 /\ all[n + 1] = calls[m]
        /\ \A k \in 1..n : all[k] = front[k]
    BY <1>4, <2>1
  <2>3. QED
    BY <1>2, <1>4, <2>2
<1>6. all = [k \in 1..m |-> all[k]]
  BY <1>5
<1> HIDE DEF all
<1>7. all = calls
  BY <1>3, <1>5, <1>6
<1>8. QED
  BY <1>1, <1>2, <1>7 DEF all

LEMMA ParsedReturn ==
  ASSUME NoCircle, ParseInv, Parsed(stack, dict), EndOfFile
  PROVE  Parsed(stack', dict') /\ (Len(stack) = 1 => stack' = << >>)
<1>0. PICK done \in Chunks : \E left :
        Left(left, stack) /\ AllLines = Joined(done, left[Len(stack)]) /\ Declared(done, dict)
  BY DEF Parsed
<1>1. PICK left : Left(left, stack) /\ AllLines = Joined(done, left[Len(stack)]) /\ Declared(done, dict)
  BY <1>0
<1> DEFINE call == Last(stack)
           rest == Front(stack)
<1>2. /\ stack # << >> /\ call.next > Len(Lines(call.file)) /\ dict' = dict
      /\ stack' = IF rest = << >> THEN << >> ELSE Append(Front(rest), Last(rest))
  BY DEF EndOfFile, Call, Returned
<1>3. stack \in Stacks /\ call \in Calls
  BY <1>2, CallOK DEF Call, ParseInv, Stacks
<1>4. /\ rest \in Stacks /\ Standing(call) /\ Len(stack) = Len(rest) + 1
      /\ \E now : Left(now, rest) /\ left[Len(stack)] = Joined(RestOf(call), now[Len(rest)])
                  /\ now[Len(rest)] \in Chunks
  <2>1. rest = Front(stack) /\ call = Last(stack) /\ stack # << >> /\ stack \in Stacks
        /\ Left(left, stack)
    BY <1>1, <1>2, <1>3
  <2> HIDE DEF rest, call
  <2>2. QED
    BY <2>1, Popped
<1>5. PICK now : Left(now, rest) /\ left[Len(stack)] = Joined(RestOf(call), now[Len(rest)])
                 /\ now[Len(rest)] \in Chunks
  BY <1>4
<1>6. RestOf(call) = << >>
  <2>1. call.next \in 1..Len(Lines(call.file)) + 1 /\ RestOf(call) = Rest(LinesFrom, call.file, call.next)
    BY <1>4 DEF Standing, RestOf
  <2> HIDE DEF call
  <2>2. QED
    BY <1>2, <2>1, RestIs
<1>7. left[Len(stack)] = now[Len(rest)]
  <2> DEFINE t == now[Len(rest)]
  <2>1. t \in Seq(Entries) /\ left[Len(stack)] = << >> \o t
    BY <1>5, <1>6 DEF Joined, Chunks
  <2> HIDE DEF t
  <2>2. << >> \o t = t
    BY <2>1
  <2>3. QED
    BY <2>1, <2>2 DEF t
<1>8. stack' = rest
  <2> HIDE DEF rest
  <2>1. QED
    BY <1>2, <1>4, FrontLast
<1>9. Parsed(stack', dict')
  BY <1>1, <1>2, <1>5, <1>7, <1>8 DEF Parsed
<1>10. ASSUME Len(stack) = 1 PROVE stack' = << >>
  <2> HIDE DEF rest
  <2>1. rest \in Seq(Calls) /\ Len(rest) = 0
    <3>1. rest \in Seq(Calls) /\ 1 = Len(rest) + 1
      BY <1>4, <1>10 DEF Stacks
    <3>2. QED
      BY <3>1
  <2>2. rest = << >>
    BY <2>1
  <2>3. QED
    BY <1>8, <2>2
<1>11. QED
  BY <1>9, <1>10
(* The files stay as they are.                                              *)
LEMMA SameFiles ==
  ASSUME listing' = listing
  PROVE  /\ NoCircle => NoCircle'
         /\ Parsed(stack', dict') => Parsed(stack, dict)'
<1>1. \A file : Lines(file)' = Lines(file)
  BY DEF Lines
<1>2. \A file, n : VendorBlock(file, n)' = VendorBlock(file, n)
  BY <1>1 DEF VendorBlock
<1>3. Places' = Places
  BY DEF Places
<1>4. LinesFrom' = LinesFrom
  BY <1>1, <1>2, <1>3 DEF LinesFrom
<1>5. AllLines' = AllLines
  BY <1>4 DEF AllLines
<1>6. Chunks' = Chunks
  BY <1>1, <1>2, <1>3 DEF Chunks, Entries, Entry
<1>7. ASSUME Parsed(stack', dict') PROVE Parsed(stack, dict)'
  <2>1. PICK done \in Chunks : \E left :
          /\ Left(left, stack') /\ AllLines = Joined(done, left[Len(stack')]) /\ Declared(done, dict')
    BY <1>7 DEF Parsed
  <2>2. PICK left : /\ Left(left, stack') /\ AllLines = Joined(done, left[Len(stack')])
                    /\ Declared(done, dict')
    BY <2>1
  <2>3. \A call : Standing(call) <=> /\ call.next \in 1..Len(Lines(call.file)') + 1
                                     /\ call.vendor = VendorBlock(call.file, call.next)'
    BY <1>1, <1>2 DEF Standing
  <2>4. \A call : RestOf(call) = IF call.file \in DOMAIN listing' THEN LinesFrom'[<<call.file, call.next>>]
                                 ELSE << >>
    BY <1>4 DEF RestOf, Rest
  <2>5. Left(left, stack)'
    BY <1>6, <2>2, <2>3, <2>4 DEF Left, Standing, RestOf, Rest
  <2>6. QED
    BY <1>5, <1>6, <2>2, <2>5 DEF Parsed
<1>8. ASSUME NoCircle PROVE NoCircle'
  BY <1>1, <1>8 DEF NoCircle, FilesOK, Depths
<1>9. QED
  BY <1>7, <1>8

DictInv ==
  /\ NoCircle
  /\ phase = "dictionary" => Parsed(stack, dict)
  /\ phase = "configuration" => stack = << >> /\ Parsed(stack, dict)

(* At first everything is left, to the call for the root file.              *)
LEMMA InitDictInv == Init => DictInv
<1> SUFFICES ASSUME Init PROVE DictInv
  OBVIOUS
<1>1. ParseInv /\ phase = "dictionary"
  BY InitParseInv DEF Init
<1>2. NoCircle
  <2>1. PICK i \in Installations : listing = i.listing
    BY DEF Init
  <2>2. PICK depth \in [DOMAIN listing -> 0..Cardinality(DOMAIN listing)] :
          \A file \in DOMAIN listing : \A l \in Range(listing[file]) :
            l.kw = "$INCLUDE" /\ l.name \in DOMAIN listing => depth[l.name] < depth[file]
    BY <2>1, InstallationAssumption
  <2> DEFINE n == Cardinality(DOMAIN listing)
  <2>3. n \in Nat
    BY <2>1, InstallationAssumption, FS_CardinalityType
  <2> HIDE DEF n
  <2>4. FilesOK
    BY <1>1 DEF ParseInv
  <2>5. Depths(depth, n)
    <3>1. \A file \in DOMAIN listing : \A k \in 1..Len(Lines(file)) :
            Lines(file)[k] \in Range(listing[file])
      BY <2>4, FileLines
    <3>2. QED
      BY <2>2, <2>3, <3>1 DEF Depths, n
  <2>6. QED
    BY <2>3, <2>4, <2>5 DEF NoCircle
<1> DEFINE call == [file |-> RootFile, next |-> 1, vendor |-> NoVendor]
           none == [k \in 0..0 |-> << >>]
           nil == << >>
<1>3. stack = Append(nil, call) /\ dict = EmptyDictionary
  BY DEF Init
<1>4. nil \in Stacks /\ nil \in Chunks
  BY DEF Stacks, Chunks
<1>5. call \in Calls
  <2>1. NoVendor \in Vendors
    BY DEF Vendors
  <2>2. QED
    BY <2>1, InstallationAssumption DEF Calls
<1>6. Standing(call)
  <2>1. VendorBlock(RootFile, 1) = NoVendor
    <3>1. 1..1 - 1 = {}
      OBVIOUS
    <3>2. QED
      BY <3>1 DEF VendorBlock
  <2>2. 1 \in 1..Len(Lines(RootFile)) + 1
    BY <1>2, FileLines DEF NoCircle, Lines
  <2>3. QED
    BY <2>1, <2>2 DEF Standing
<1>7. Left(none, nil) /\ none[Len(nil)] = nil
  <2>1. Len(nil) = 0 /\ none \in [0..0 -> Chunks] /\ none[0] = << >>
    BY <1>4
  <2>2. QED
    BY <2>1 DEF Left
<1>8. \E left : Left(left, stack) /\ left[Len(stack)] = Joined(RestOf(call), nil)
  <2> HIDE DEF call, none, nil
  <2>1. \E now : Left(now, stack) /\ Len(stack) = Len(nil) + 1
                 /\ now[Len(stack)] = Joined(RestOf(call), none[Len(nil)])
    <3>1. /\ stack = Append(nil, call) /\ nil \in Stacks /\ call \in Calls
          /\ Left(none, nil) /\ Standing(call)
      BY <1>3, <1>4, <1>5, <1>6, <1>7
    <3>2. QED
      BY <1>2, <3>1, Pushed
  <2>2. QED
    BY <1>7, <2>1
<1>9. PICK left : Left(left, stack) /\ left[Len(stack)] = Joined(RestOf(call), nil)
  BY <1>8
<1>10. AllLines = RestOf(call)
  BY DEF AllLines, RestOf, Rest
<1>11. RestOf(call) \in Chunks
  <2>1. call.next \in 1..Len(Lines(call.file)) + 1 /\ RestOf(call) = Rest(LinesFrom, call.file, call.next)
    BY <1>6 DEF Standing, RestOf
  <2> HIDE DEF call
  <2>2. QED
    BY <1>2, <2>1, RestIs
<1>12. AllLines = Joined(nil, left[Len(stack)])
  <2> DEFINE r == RestOf(call)
  <2>1. r \in Seq(Entries) /\ AllLines = r /\ left[Len(stack)] = r \o << >>
    BY <1>9, <1>10, <1>11 DEF Joined, Chunks
  <2> HIDE DEF r
  <2>2. << >> \o (r \o << >>) = r
    BY <2>1
  <2>3. QED
    BY <2>1, <2>2 DEF Joined
<1>13. Declared(nil, dict)
  BY <1>3 DEF Declared, EmptyDictionary
<1>14. Parsed(stack, dict)
  <2> HIDE DEF nil
  <2>1. QED
    BY <1>4, <1>9, <1>12, <1>13 DEF Parsed
<1>15. QED
  BY <1>1, <1>2, <1>14 DEF DictInv

LEMMA StepDictInv == ASSUME ParseInv, DictInv, [Next]_vars PROVE DictInv'
<1>1. CASE ParseLine \/ Include \/ EndOfFile
  <2>1. NoCircle /\ Parsed(stack, dict)
    BY <1>1, Zenon DEF DictInv, ParseLine, Include, EndOfFile
  <2>2. listing' = listing
    BY <1>1, Zenon DEF ParseLine, Include, EndOfFile, fileVars
  <2>3. Parsed(stack', dict')
    BY <1>1, <2>1, ParsedLine, ParsedInclude, ParsedReturn
  <2>4. NoCircle' /\ Parsed(stack, dict)'
    BY <2>1, <2>2, <2>3, SameFiles
  <2>5. phase' = "dictionary" \/ (phase' = "configuration" /\ stack' = << >>)
    <3>1. CASE ParseLine \/ Include
      BY <3>1, Zenon DEF ParseLine, Include
    <3>2. CASE EndOfFile
      <4>1. phase' = IF Len(stack) = 1 THEN "configuration" ELSE "dictionary"
        BY <3>2 DEF EndOfFile
      <4>2. Len(stack) = 1 => stack' = << >>
        BY <2>1, <3>2, ParsedReturn
      <4>3. QED
        BY <4>1, <4>2
    <3>3. QED
      BY <1>1, <3>1, <3>2
  <2>6. QED
    BY <2>4, <2>5 DEF DictInv
<1>2. ASSUME UNCHANGED <<listing, stack, dict>>, phase' \in {"dictionary", "configuration"} => phase' = phase
      PROVE  DictInv'
  <2>1. NoCircle'
    BY <1>2, SameFiles DEF DictInv
  <2>2. Parsed(stack, dict) => Parsed(stack, dict)'
    BY <1>2, SameFiles
  <2>3. QED
    BY <1>2, <2>1, <2>2 DEF DictInv
<1>3. ASSUME NEW t \in Threads, Accept(t) \/ Close(t)
      PROVE  UNCHANGED <<listing, stack, dict, phase>>
  BY <1>3 DEF Accept, Close, fileVars, dictVars
<1>4. ASSUME NEW r \in Rotators, Rotate(r)
      PROVE  /\ UNCHANGED <<listing, stack, dict>>
             /\ phase' \in {"dictionary", "configuration"} => phase' = phase
  <2>1. Advance(r)
    BY <1>4 DEF Rotate, OpenLog, OpenLogFails, CloseStep, DupStep
  <2>2. QED
    BY <2>1 DEF Advance, fileVars, dictVars
<1>5. CASE ReadLine \/ EndOfConfiguration \/ KeepUser \/ UnknownUser \/ StartService
             \/ StartFails \/ IncludeNothing \/ (\E h \in Handlers : Signal(h)) \/ UNCHANGED vars
  <2>1. UNCHANGED <<listing, stack, dict>>
    BY <1>5, Zenon DEF ReadLine, EndOfConfiguration, KeepUser, UnknownUser, StartService,
      StartFails, IncludeNothing, Signal, vars, fileVars, dictVars
  <2>2. phase' = phase \/ phase' \in {"user", "start", "log", "stopped", "service"}
    BY <1>5, Zenon DEF ReadLine, EndOfConfiguration, KeepUser, UnknownUser, StartService,
      StartFails, IncludeNothing, Signal, vars
  <2>3. QED
    BY <1>2, <2>1, <2>2
<1>6. QED
  BY <1>1, <1>2, <1>3, <1>4, <1>5, Zenon DEF Next

LEMMA LeastIsMin ==
  ASSUME NEW S \in SUBSET Int, NEW x \in S, \A y \in S : x <= y
  PROVE  Min(S) = x
<1>1. x \in S /\ \A y \in S : x <= y
  OBVIOUS
<1>2. \A z \in S : (\A y \in S : z <= y) => z = x
  OBVIOUS
<1>3. Min(S) \in S /\ \A y \in S : Min(S) <= y
  BY <1>1, Zenon DEF Min
<1>4. QED
  BY <1>2, <1>3

(* When parse() has returned, nothing is left.                              *)
LEMMA AllParsed == ASSUME DictInv PROVE DictionaryAsDeclared
<1> SUFFICES ASSUME phase = "configuration" PROVE DictionaryAsDeclared
  BY DEF DictionaryAsDeclared
<1>1. stack = << >> /\ Parsed(stack, dict)
  BY DEF DictInv
<1>2. PICK done \in Chunks : \E left :
        Left(left, stack) /\ AllLines = Joined(done, left[Len(stack)]) /\ Declared(done, dict)
  BY <1>1 DEF Parsed
<1>3. PICK left :
        Left(left, stack) /\ AllLines = Joined(done, left[Len(stack)]) /\ Declared(done, dict)
  BY <1>2
<1>4. AllLines = done /\ DOMAIN done = 1..Len(done) /\ Len(done) \in Nat
  <2>1. Len(stack) = 0 /\ left[0] = << >>
    BY <1>1, <1>3 DEF Left
  <2>2. done \in Seq(Entries) /\ AllLines = done \o << >>
    BY <1>3, <2>1 DEF Joined, Chunks
  <2>3. done \o << >> = done /\ DOMAIN done = 1..Len(done) /\ Len(done) \in Nat
    BY <2>2
  <2>4. QED
    BY <2>2, <2>3
<1> DEFINE about(name) == {j \in DOMAIN AllLines : /\ AllLines[j].line.kw \in {"ATTRIBUTE", "VALUE"}
                                                   /\ AllLines[j].line.name = name}
<1>5. ASSUME NEW i \in DOMAIN AllLines, AllLines[i].line.kw = "ATTRIBUTE",
             i = Min(about(AllLines[i].line.name))
      PROVE  DeclaredAs(dict, AllLines[i].line, AllLines[i].vendor)
  <2> DEFINE same == about(done[i].line.name)
  <2>1. i \in 1..Len(done) /\ done[i].line.kw = "ATTRIBUTE" /\ i = Min(same)
    BY <1>4, <1>5
  <2>2. same = {j \in 1..Len(done) : About(done[j].line, done[i].line.name)}
    BY <1>4 DEF About
  <2> HIDE DEF same
  <2>3. i \in same /\ same \in SUBSET Nat /\ same \in SUBSET Int
    <3>1. i \in same
      BY <2>1, <2>2 DEF About
    <3>2. same \subseteq 1..Len(done)
      BY <2>2
    <3>3. 1..Len(done) \subseteq Nat /\ Nat \subseteq Int
      BY <1>4
    <3>4. QED
      BY <3>1, <3>2, <3>3
  <2>4. PICK x \in same : \A y \in same : x <= y
    BY <2>3, LeastNat
  <2>5. i = x
    BY <2>1, <2>3, <2>4, LeastIsMin
  <2>6. \A j \in 1..i - 1 : j \notin same /\ j \in 1..Len(done)
    BY <1>4, <2>1, <2>3, <2>4, <2>5
  <2>7. FirstAbout(done, i)
    BY <2>1, <2>2, <2>6 DEF FirstAbout
  <2>8. QED
    BY <1>3, <1>4, <2>1, <2>7 DEF Declared
<1>6. QED
  BY <1>5 DEF DictionaryAsDeclared, DeclaredAs

(* The dictionary is what a reader of the files expects, for any files that *)
(* include each other without a circle: an attribute is what its first      *)
(* declaration says, in the vendor block of its own file.  (parse() and its *)
(* local currentVendor, attrs.insert)                                       *)
THEOREM DictionaryIsAsDeclared == Spec => []DictionaryAsDeclared
<1>1. Init => ParseInv /\ DictInv
  BY InitParseInv, InitDictInv
<1>2. ParseInv /\ DictInv /\ [Next]_vars => (ParseInv /\ DictInv)'
  BY StepParseInv, StepDictInv
<1>3. DictInv => DictionaryAsDeclared
  BY AllParsed
<1>4. QED
  BY <1>1, <1>2, <1>3, PTL DEF Spec
=============================================================================
