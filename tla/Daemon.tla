------------------------------- MODULE Daemon -------------------------------
(***************************************************************************)
(* The life of the daemon outside its connections: main() constructs the   *)
(* Listener, which reads the RADIUS dictionary and then the configuration; *)
(* main() installs the signal handler, changes the user, opens the log and *)
(* starts the service; then SIGUSR1 rotates the log in whatever thread the *)
(* kernel picks, while others open and close connections.                  *)
(*                                                                         *)
(* The table of descriptors is what they share: every call that opens one  *)
(* takes the lowest that is free, in the daemon as in logrotate().         *)
(***************************************************************************)
EXTENDS Dictionary, Configuration, Integers, FiniteSetsExt, SequencesExt

CONSTANTS
  Installations,   \* possible files: the dictionary's listing, a function from
                   \* file names to lines, and the configuration's lines
  RootFile,        \* DATADIR "/isg_cached/radius/dictionary"
  Threads,         \* threads that own a descriptor while they serve a client
  Handlers,        \* threads that may handle a SIGUSR1 at the same time
  MaxLogs,         \* bound on the rotations
  MaxFd            \* bound on the descriptors

ASSUME DaemonAssumption ==
  /\ IsFiniteSet(Threads) /\ IsFiniteSet(Handlers)
  /\ MaxFd \in Nat /\ MaxFd > Cardinality(Threads) + Cardinality(Handlers) + 4
  /\ "listen" \notin Threads /\ "main" \notin Handlers
  /\ MaxLogs \in Nat

(* Files are sequences of lines.  Names are strings, the numbers of        *)
(* attributes are natural; only the last line of a file may lack the       *)
(* newline.  No file includes itself, directly or through others: parse()  *)
(* would go deeper until the process can open no more files, a limit that  *)
(* is not modelled.                                                        *)
ASSUME InstallationAssumption ==
  /\ RootFile \in STRING /\ OctetSize \in Nat \ {0}
  /\ \A i \in Installations :
       /\ IsFiniteSet(DOMAIN i.listing)
       /\ \E depth \in [DOMAIN i.listing -> 0..Cardinality(DOMAIN i.listing)] :
            \A file \in DOMAIN i.listing : \A l \in Range(i.listing[file]) :
              l.kw = "$INCLUDE" /\ l.name \in DOMAIN i.listing => depth[l.name] < depth[file]
       /\ \A file \in DOMAIN i.listing :
            /\ i.listing[file] \in Seq(Range(i.listing[file]))
            /\ \A l \in Range(i.listing[file]) :
                 l.name \in STRING /\ (l.kw = "ATTRIBUTE" => l.num \in Nat)
       /\ i.conf \in Seq(Range(i.conf))
       /\ \A k \in 1..Len(i.conf) - 1 : i.conf[k].newline

VARIABLES
  phase,            \* where main() is
  listing, conf,    \* the files
  stack,            \* the calls of parse(): file, next line, currentVendor
  dict,             \* Listener::dict
  line, section, data,  \* Configuration::load and __data
  table,            \* what every descriptor refers to
  own,              \* the descriptor each owner believes to have, or -1
  at,               \* control state of each call of logrotate()
  logFd,            \* its local fd
  logs,             \* number of log files opened so far
  mishaps           \* history: what went wrong around the rotations

fileVars == <<listing, conf>>
dictVars == <<stack, dict>>
confVars == <<line, section, data>>
logVars  == <<at, logFd, logs, mishaps>>
vars == <<phase, fileVars, dictVars, confVars, table, own, logVars>>

Rotators == Handlers \cup {"main"}
Owners   == Threads \cup {"listen"}
Fds      == 0..MaxFd
RotationSteps == <<"idle", "open", "close2", "dup2", "close1", "dup1", "closeFd">>
Phases == {"dictionary", "configuration", "user", "log", "start", "service", "stopped"}

FreeFd     == [kind |-> "free", of |-> 0]
Terminal   == [kind |-> "terminal", of |-> 0]
LogFile(n) == [kind |-> "log", of |-> n]
Socket(o)  == [kind |-> "socket", of |-> o]

Init ==
  /\ phase = "dictionary"
  /\ \E i \in Installations : listing = i.listing /\ conf = i.conf
  /\ stack = <<[file |-> RootFile, next |-> 1, vendor |-> NoVendor]>>
  /\ dict = EmptyDictionary
  /\ line = 1 /\ section = NoSection /\ data = EmptyConfiguration
  /\ table = [fd \in Fds |-> IF fd <= 2 THEN Terminal ELSE FreeFd]
  /\ own = [o \in Owners |-> -1]
  /\ at = [r \in Rotators |-> "idle"]
  /\ logFd = [r \in Rotators |-> -1]
  /\ logs = 0
  /\ mishaps = {}

-----------------------------------------------------------------------------
(* RadiusDictionary::parse, which calls itself for every $INCLUDE.         *)

Call == Last(stack)
Lines(file) == IF file \in DOMAIN listing THEN listing[file] ELSE << >>
Current == Lines(Call.file)[Call.next]

(* currentVendor is a local of the call: a file that is included starts    *)
(* without a vendor and leaves the vendor of the including file alone.  In *)
(* the faulty variant it is a member of the object.                        *)
SharedVendor(caller, vendor) == [caller EXCEPT !.vendor = vendor]

Returned(caller, vendor) == caller

ParseLine ==
  /\ phase = "dictionary" /\ stack # << >>
  /\ Call.next <= Len(Lines(Call.file))
  /\ Current.kw # "$INCLUDE"
  /\ dict' = Added(dict, Current, Call.vendor)
  /\ stack' = Append(Front(stack),
                [Call EXCEPT !.next = @ + 1, !.vendor = NextVendor(Current, @)])
  /\ UNCHANGED <<phase, fileVars, confVars, table, own, logVars>>

Include ==
  /\ phase = "dictionary" /\ stack # << >>
  /\ Call.next <= Len(Lines(Call.file))
  /\ Current.kw = "$INCLUDE" /\ Current.name # NoFile
  /\ stack' = Append(Append(Front(stack), [Call EXCEPT !.next = @ + 1]),
                [file |-> Current.name, next |-> 1, vendor |-> NoVendor])
  /\ UNCHANGED <<phase, fileVars, dict, confVars, table, own, logVars>>

(* fields.at(1) throws out_of_range out of the constructor of the Listener, *)
(* and main() returns.                                                     *)
IncludeNothing ==
  /\ phase = "dictionary" /\ stack # << >>
  /\ Call.next <= Len(Lines(Call.file))
  /\ Current.kw = "$INCLUDE" /\ Current.name = NoFile
  /\ phase' = "stopped"
  /\ UNCHANGED <<fileVars, dictVars, confVars, table, own, logVars>>

(* The end of the file, or a file that cannot be opened: the call returns. *)
EndOfFile ==
  /\ phase = "dictionary" /\ stack # << >>
  /\ Call.next > Len(Lines(Call.file))
  /\ LET callers == Front(stack)
     IN  stack' = IF callers = << >> THEN << >>
                  ELSE Append(Front(callers), Returned(Last(callers), Call.vendor))
  /\ phase' = IF Len(stack) = 1 THEN "configuration" ELSE phase
  /\ UNCHANGED <<fileVars, dict, confVars, table, own, logVars>>

(* Configuration::load.                                                    *)
ReadLine ==
  /\ phase = "configuration"
  /\ line \in DOMAIN conf /\ Good(conf[line])
  /\ data' = Entered(data, conf[line], section)
  /\ section' = NextSection(conf[line], section)
  /\ line' = line + 1
  /\ UNCHANGED <<phase, fileVars, dictVars, table, own, logVars>>

EndOfConfiguration ==
  /\ phase = "configuration"
  /\ line \in DOMAIN conf => ~Good(conf[line])
  /\ phase' = "user"
  /\ UNCHANGED <<fileVars, dictVars, confVars, table, own, logVars>>

-----------------------------------------------------------------------------
(* main() after the constructor.  Until the service runs its thread is the *)
(* only one, and a handler runs on top of it.                              *)
MainRuns == \A h \in Handlers : at[h] = "idle"

Debug == Get(data, <<"MAIN", "debug">>) = [text |-> "true", blanks |-> FALSE]

KeepUser ==
  /\ phase = "user" /\ MainRuns
  /\ phase' = IF Debug THEN "start" ELSE "log"
  /\ at' = IF Debug THEN at ELSE [at EXCEPT !["main"] = "open"]
  /\ UNCHANGED <<fileVars, dictVars, confVars, table, own, logFd, logs, mishaps>>

(* getpwnam knows no such user: main() returns.                            *)
UnknownUser ==
  /\ phase = "user" /\ MainRuns /\ ~Debug
  /\ Get(data, <<"MAIN", "userid">>).text # NoValue
  /\ phase' = "stopped"
  /\ UNCHANGED <<fileVars, dictVars, confVars, table, own, logVars>>

(* Listener::start: the socket, then the loop; or an error and return.     *)
IsLowest(fd) == table[fd] = FreeFd /\ \A n \in Fds : n < fd => table[n] # FreeFd

OpenSocket(o) ==
  \E fd \in Fds :
    /\ IsLowest(fd)
    /\ table' = [table EXCEPT ![fd] = Socket(o)]
    /\ own' = [own EXCEPT ![o] = fd]
    /\ mishaps' = IF fd \in {1, 2} THEN mishaps \cup {"standardFdTaken"}
                  ELSE mishaps

StartService ==
  /\ phase = "start" /\ MainRuns
  /\ OpenSocket("listen")
  /\ phase' = "service"
  /\ UNCHANGED <<fileVars, dictVars, confVars, at, logFd, logs>>

StartFails ==
  /\ phase = "start" /\ MainRuns
  /\ phase' = "stopped"
  /\ UNCHANGED <<fileVars, dictVars, confVars, table, own, logVars>>

-----------------------------------------------------------------------------
(* The connections: accept() and socket() take a descriptor, close() gives *)
(* back whatever it refers to by then.                                     *)

Accept(t) ==
  /\ phase = "service" /\ own[t] = -1
  /\ OpenSocket(t)
  /\ UNCHANGED <<phase, fileVars, dictVars, confVars, at, logFd, logs>>

Close(t) ==
  /\ phase = "service" /\ own[t] # -1
  /\ table' = [table EXCEPT ![own[t]] = FreeFd]
  /\ own' = [own EXCEPT ![t] = -1]
  /\ UNCHANGED <<phase, fileVars, dictVars, confVars, logVars>>

-----------------------------------------------------------------------------
(* logrotate(), called by main() and by the handler of SIGUSR1.            *)

(* SIGUSR1 is blocked in the thread that handles it and in no other: once  *)
(* the service runs, the next one is handled beside it.                    *)
Signal(h) ==
  /\ phase \in {"user", "log", "start", "service"}
  /\ phase = "service" \/ MainRuns
  /\ at[h] = "idle" /\ logs < MaxLogs
  /\ at' = [at EXCEPT ![h] = "open"]
  /\ UNCHANGED <<phase, fileVars, dictVars, confVars, table, own, logFd, logs, mishaps>>

StepOf(r) == CHOOSE i \in DOMAIN RotationSteps : RotationSteps[i] = at[r]

(* The last step of the main() call leads on to the service.  The faulty   *)
(* variant leaves out the last call, close(fd).                            *)
ForgetsClose(r) == IF at[r] = "dup1" THEN "idle" ELSE RotationSteps[StepOf(r) + 1]

NextStep(r) == IF at[r] = "closeFd" THEN "idle" ELSE RotationSteps[StepOf(r) + 1]

Advance(r) ==
  /\ r = "main" => MainRuns
  /\ at' = [at EXCEPT ![r] = NextStep(r)]
  /\ phase' = IF r = "main" /\ at'[r] = "idle" THEN "start" ELSE phase
  /\ UNCHANGED <<fileVars, dictVars, confVars, own>>

Rotating(r) == at[r] \notin {"idle", "open"}

(* The name is MAIN:logfile, even if it is not configured: open fails, and *)
(* fd is -1.  Otherwise the file counts as a new one: the old was moved    *)
(* away before the signal.                                                 *)
OpenLog(r) ==
  /\ at[r] = "open" /\ logs < MaxLogs
  /\ Get(data, <<"MAIN", "logfile">>).text # NoValue
  /\ \E fd \in Fds : /\ IsLowest(fd)
                    /\ table' = [table EXCEPT ![fd] = LogFile(logs + 1)]
                    /\ logFd' = [logFd EXCEPT ![r] = fd]
  /\ logs' = logs + 1
  /\ mishaps' = IF \E q \in Rotators : Rotating(q) THEN mishaps \cup {"overlap"}
                ELSE mishaps
  /\ Advance(r)

(* fd is a local of the call.  In the faulty variant it outlives the call, *)
(* and open's -1 is not kept: the descriptor of the rotation before is     *)
(* used again.                                                             *)
OldDescriptor(r) == UNCHANGED logFd

NoDescriptor(r) == logFd' = [logFd EXCEPT ![r] = -1]

OpenLogFails(r) ==
  /\ at[r] = "open"
  /\ NoDescriptor(r)
  /\ mishaps' = mishaps \cup {"noLog"}
  /\ UNCHANGED <<table, logs>>
  /\ Advance(r)

(* close(2), close(1), close(fd): an error if the descriptor is not open.  *)
CloseStep(r) ==
  /\ at[r] \in {"close2", "close1", "closeFd"}
  /\ LET fd == CASE at[r] = "close2" -> 2 [] at[r] = "close1" -> 1 [] OTHER -> logFd[r]
     IN  table' = [n \in Fds |-> IF n = fd THEN FreeFd ELSE table[n]]
  /\ UNCHANGED <<logFd, logs, mishaps>>
  /\ Advance(r)

(* dup2(fd, target): closes what target refers to, unless fd is not open.  *)
Dup(fd, target) ==
  IF fd \in Fds /\ table[fd] # FreeFd THEN [table EXCEPT ![target] = table[fd]] ELSE table

DupStep(r) ==
  /\ at[r] \in {"dup2", "dup1"}
  /\ table' = Dup(logFd[r], IF at[r] = "dup2" THEN 2 ELSE 1)
  /\ UNCHANGED <<logFd, logs, mishaps>>
  /\ Advance(r)

Rotate(r) == OpenLog(r) \/ OpenLogFails(r) \/ CloseStep(r) \/ DupStep(r)

-----------------------------------------------------------------------------
Next ==
  \/ ParseLine \/ Include \/ IncludeNothing \/ EndOfFile
  \/ ReadLine \/ EndOfConfiguration
  \/ KeepUser \/ UnknownUser \/ StartService \/ StartFails
  \/ \E h \in Handlers : Signal(h)
  \/ \E t \in Threads : Accept(t) \/ Close(t)
  \/ \E r \in Rotators : Rotate(r)

Spec == Init /\ [][Next]_vars

-----------------------------------------------------------------------------
TypeOK ==
  /\ phase \in Phases
  /\ \A i \in DOMAIN stack : stack[i].file \in STRING /\ stack[i].next \in Nat
  /\ \A a \in DOMAIN dict.attrs : dict.attrs[a].id \in 0..OctetSize - 1
  /\ line \in Nat
  /\ \A fd \in Fds : table[fd].kind \in {"free", "terminal", "log", "socket"}
  /\ own \in [Owners -> Fds \cup {-1}]
  /\ at \in [Rotators -> Range(RotationSteps)]
  /\ logFd \in [Rotators -> Fds \cup {-1}]
  /\ logs \in 0..MaxLogs
  /\ mishaps \subseteq {"noLog", "standardFdTaken", "overlap"}

(* The dictionary as a reader of the files sees it: all lines in the order *)
(* in which the includes bring them, each with the vendor block of its own *)
(* file it stands in.                                                      *)
VendorBlock(file, i) ==
  LET marks == {j \in 1..i - 1 : Lines(file)[j].kw \in {"BEGIN-VENDOR", "END-VENDOR"}}
  IN  IF marks = {} \/ Lines(file)[Max(marks)].kw = "END-VENDOR" THEN NoVendor
      ELSE Lines(file)[Max(marks)].name

Places == UNION {{file} \X (1..Len(listing[file]) + 1) : file \in DOMAIN listing}

(* All that a file brings from a line of it on.                            *)
LinesFrom ==
  LET from[p \in Places] ==
        LET file == p[1]
            l    == Lines(file)[p[2]]
        IN  IF p[2] > Len(Lines(file)) THEN << >>
            ELSE (IF l.kw # "$INCLUDE" THEN <<[line |-> l, vendor |-> VendorBlock(file, p[2])]>>
                  ELSE IF l.name \in DOMAIN listing THEN from[<<l.name, 1>>] ELSE << >>)
                   \o from[<<file, p[2] + 1>>]
  IN  from

AllLines == IF RootFile \in DOMAIN listing THEN LinesFrom[<<RootFile, 1>>] ELSE << >>

(* An attribute is what its first declaration says, in the vendor block of *)
(* the file that declares it, whatever is included in between and declared *)
(* again later; only a VALUE line ahead of the declaration hides it.  (the *)
(* recursion of parse() with a local currentVendor, attrs.insert)          *)
DictionaryAsDeclared ==
  phase = "configuration" =>
    LET all == AllLines IN
    \A i \in DOMAIN all :
      LET l == all[i].line
          about == {j \in DOMAIN all : /\ all[j].line.kw \in {"ATTRIBUTE", "VALUE"}
                                      /\ all[j].line.name = l.name}
      IN  l.kw = "ATTRIBUTE" /\ i = Min(about) =>
            /\ HasAttribute(dict, l.name)
            /\ GetAttribute(dict, l.name).id = l.num % OctetSize
            /\ GetAttribute(dict, l.name).type = l.type
            /\ GetAttribute(dict, l.name).vendor =
                 IF l.vendor # NoVendor THEN l.vendor ELSE all[i].vendor

(* A key, the section a line stands in before it, has the value of the     *)
(* last line that writes it, without the blanks around it unless it is a   *)
(* single character, whichever way that line splits it into section and    *)
(* key; a line that is not ended by a newline counts for nothing.          *)
(* (Configuration::load)                                                   *)
SectionAt(lines, i) ==
  LET heads == {j \in 1..i - 1 : lines[j].kind = "section"}
  IN  IF heads = {} THEN NoSection ELSE lines[Max(heads)].key

ConfigurationAsWritten ==
  phase = "user" =>
    \A i \in DOMAIN conf :
      LET key(j) == FullKey(SectionAt(conf, j), conf[j].key)
          same == {j \in DOMAIN conf : /\ conf[j].kind = "entry" /\ conf[j].newline
                                      /\ key(j) = key(i)}
          got  == Get(data, key(i))
      IN  conf[i].kind = "entry" =>
            IF same = {} THEN got.text = NoValue
            ELSE LET l == conf[Max(same)]
                 IN  /\ got.text = (IF l.value = NoValue THEN "true" ELSE l.value)
                     /\ got.blanks => l.short

-----------------------------------------------------------------------------
(* When no rotation is going on, standard output and error are the newest  *)
(* log, and no descriptor keeps an older one open, over any number of      *)
(* rotations, whatever the connections do.  Three things, and no other,    *)
(* undo this: a log that cannot be opened, a connection that was given     *)
(* descriptor 1 or 2 while it was closed, and a rotation that begins while *)
(* another is under way, main()'s own or that of a SIGUSR1 in another      *)
(* thread.  (logrotate, isg_cached.cpp)                                    *)
LogFollowsRotation ==
  logs > 0 /\ mishaps = {} /\ (\A r \in Rotators : at[r] = "idle") =>
    \A fd \in Fds :
      /\ fd \in {1, 2} => table[fd] = LogFile(logs)
      /\ table[fd].kind = "log" => table[fd] = LogFile(logs)

(* A rotation disturbs no connection but one that was given descriptor 1   *)
(* or 2: every other owner finds its own socket behind its descriptor,     *)
(* even while rotations fail or overlap.  (close and dup2 in logrotate     *)
(* against accept and socket in the other threads)                         *)
ConnectionsIntact ==
  \A o \in Owners : own[o] \notin {-1, 1, 2} => table[own[o]] = Socket(o)
=============================================================================
