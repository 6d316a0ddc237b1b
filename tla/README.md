# A TLA+ model of the ISG cache daemon

The daemon (`src/src`) accepts XML queries on a Unix socket, answers them from an
Oracle billing database through a cache, and translates `isg_*` commands to RADIUS
CoA requests. This directory holds TLA+ modules of its parts, TLC configurations
that check them on small instances, and TLAPS proofs for all instances.
Line numbers refer to the files under `src/src` (`listener.cpp`, `Cache.cpp`,
`dispatcher/…`, `oracle/…`, `radius/…`).

## The system

### Components, their state and their operations

| component | state | operations | hard behaviour |
|---|---|---|---|
| `Listener` (`listener.cpp`) | `_children`, `_mutex`, `_sequence`, listening socket | `start` (accept loop), `warehouse` (once a second), `remove_child`, `getNextId` | three kinds of threads change one list and delete what it points to |
| `Dispatcher` (`dispatcher/dispatcher.cpp`) | `_sd`, `_is_done`, `_is_processing`, `_ts`, `_state`, `_depth`, parameters | `mainloop`, SAX callbacks, `processQuery`, `error`, `sendString`, `timeout` | its object is deleted by its own thread or by the warehouse; any document may arrive |
| `Cache` (`Cache.cpp`) | `__minicache` under one mutex | `getValue`, `setValue`, `warehouse` | expiries in an `int`, tested only by the sweep |
| `DispatcherOracle` (`dispatcher/oracle.cpp`) | `_bi` | `status`, `get_isg_services`, `get_static_ip`, `check_initial_subscriber`, `get_status_description`, `raw_sql`, `timeout` | `_bi` is used by the warehouse without a lock; exceptions skip the clean-up |
| `Billing`, `BillingInstance` (`oracle/billing.cpp`) | OCCI connection pool (15, NOWAIT), its mutex, `_conn` | `yieldConnection` (trylock), `releaseConnection` (lock), queries, `cancelRequest` (OCIBreak) | connections change hands between threads |
| `DispatcherCOA`, `RadClient` (`dispatcher/coa.cpp`, `radius/radclient.cpp`) | a UDP socket per exchange | `isg_ping`, `isg_logon`, `isg_logout`, `isg_service_on/off` | lost and late datagrams, identifiers modulo 256, logout acknowledged in advance |
| `RadPacket`, `RadPacketCoA`, `RadiusDictionary` (`radius/`) | attribute lists, dictionary maps | `pack`, `unpack`, lookups | length bytes, loops over foreign data, lookups that ignore the vendor |
| `Configuration` (`configuration.cpp`) | `__data` | `load`, `get` | last line, `get` that writes, called in a signal handler |
| `queryResult` (`oracle/queryresult.cpp`) | rows and binds | `to_xml`, `add_bind` | formatting |
| `isg_cached.cpp` | file descriptors, signals | `main`, `logrotate` | signals interrupt system calls |
| clients (`web/*.php`, `web/Cached.pm`, `../test`) | socket, reply parser | `query`, `connect`, `disconnect` | state left from one query to the next |

### Interactions

    client --XML--> Dispatcher thread --command--> DispatcherOracle --> Cache, Billing pool --> Oracle
                         ^      |                \-> DispatcherCOA --> getNextId, RadClient --UDP--> NAS
       accept loop ------+      +--remove_child--> Listener::_children
       warehouse: sweeps the Cache, deletes done Dispatchers, calls timeout() on old ones (OCIBreak)

`Listener::_mutex` protects the list and the sequence; `Billing::__mutex` the pool;
`Cache::_mutex` the map. `_is_done`, `_is_processing`, `_sd` and `_bi` are read by the
warehouse and written by the dispatcher's thread without a common lock.

### What makes each part correct

* Listener and Dispatcher: the list is exact and bounded, an object is not deleted
  while in use, what is done is reclaimed, a long billing command is interrupted.
* Query document: one command and one reply per connection, only the child of
  `<query>` is a command, a complete query is answered.
* Cache: it is an expiring store, and it forgets.
* Billing commands: connections are accounted for and returned, commands that bypass the
  cache are fresh, a cancellation hits the query it is meant for, every query ends.
* CoA: identifiers repeat as late as they can, an acknowledgement is true, every command ends; what a
  command means arrives at the NAS, and what the NAS says arrives at the client.
* Codec, dictionary, configuration: agreement with a reference definition, loops that end.
* `querySQL`: the statement is executed with the values of the document, all rows come
  back, what was allocated is released.
* Log rotation: output goes to the newest log, and connections keep their sockets.

The hazards, line by line, are in `PROJECT.json`.

## Modules

| module | models | checked by | proofs |
|---|---|---|---|
| `Listener` | accept loop, warehouse, dispatcher threads, their objects | `MCListener` | `ListenerProofs` |
| `ExpiringStore` | abstract: what users of the cache rely on | as a property of `MCCache` | `CacheProofs` |
| `Cache` | the in-process cache | `MCCache` | `CacheProofs` |
| `OracleQuery` | billing commands, pool, cancellation; contains an instance of `Cache` | `MCOracleQuery` | `OracleQueryProofs` |
| `QuerySQL` | one `querySQL`: binds, columns, rows, out-variables, XML | `MCQuerySQL` | `QuerySQLProofs` |
| `QueryDocument` | one connection's document, SAX callbacks, replies | `MCQueryDocument` | `QueryDocumentProofs` |
| `CoAExchange` | identifiers, RADIUS exchanges, NAS and network | `MCCoAExchange` | `CoAExchangeProofs` |
| `RadiusPacket` | requests, their octets, conversions of a reply's values (operators) | `MCCoACommand` | |
| `CoACommand` | one command from its key to the client's answer, octet by octet; extends `RadiusPacket` | `MCCoACommand` | `CoACommandProofs` |
| `StdMap` | assignment to a key of a `std::map` (operator) | `MCQuerySQL`, `MCDaemon` | |
| `Dictionary` | tables and lookups of the RADIUS dictionary (operators) | `MCDaemon`, `MCCoACommand` | |
| `Configuration` | lines, entries and `get` of the configuration (operators) | `MCDaemon` | |
| `Daemon` | `main()`, the two parsers at work, the table of descriptors, `logrotate()`; extends `Dictionary` and `Configuration` | `MCDaemon` | `DaemonProofs` |

Next to a definition some modules keep a *faulty variant* of it (`UnlistNothing`,
`TooManyOffByOne`, …): the slip a property is there to catch. `PROJECT.json` names for
every property the variant that breaks it.

### Listener

`mutex` is `Listener::_mutex`; `children` is the list, a set here because an object is
pushed once and the scan treats elements independently; `todo` is what the running scan
has still to visit. `apc` and `ad` are the accept loop's position and its `d`; `thread`
is the position of a dispatcher's thread and `sd` its socket. `is_done` and
`is_processing` are functions of the position, because the code sets these flags exactly
where the position changes. `aged` holds the objects constructed more than ten seconds
ago: `last_activity()` returns the time of construction.

One action is one step between two points at which another thread can interfere: a lock,
an unlock, a write to `_is_done`, the start of a thread, one element of the scan. A
command is in "query" or, from the start of a billing command, in "billing"; between
`Connect` and `Disconnect` it has a `BillingInstance` with a connection ("connected"), and
only there `timeout()` interrupts anything: `DispatcherCOA::timeout` is empty, and
`DispatcherOracle::timeout` without an instance does nothing or, since `_bi` is not
initialised and not cleared in the same step as it is deleted, has no defined outcome.

`failed` holds the dispatchers for which `error()` was called. It closes the socket and
sets `_is_done`, but libxml2 goes on with the rest of the buffer: the thread is back in
"recv", and a later element may still be executed (`BeginQuery`), while the warehouse is
free to delete the object. `deleted` counts deletions. An access to a deleted object may
find the old contents or anything (`Touch`); a second deletion has no defined outcome, nor
has reading the pointer from the list's node after it was erased (`Reap`,
`listener.cpp:178-179`), unless the memory still holds it. The model ends there
(`status = "undefined"`).

`RecvFails` is the error of `recv`: -1 kept in a `size_t` passes the test `> 0`, and
`buff[-1]` is written and a huge size handed to libxml2, which has no defined outcome.

Left out: the sleeps after `EMFILE` and network errors (they only delay). Binding the
socket is in `Daemon`.

### Cache

Every operation is one action, since it holds the mutex throughout. `ToInt` is the
conversion of the `time_t` sum to the `int` in the map. `due` is a history variable: the
second the user meant. The memcached branch is left out: nothing in the build defines
`ENABLE_LIBMEMCACHE`.

### OracleQuery

A worker executes one command. The kinds are what the commands differ in: `status`
stands for every command that reads the cache first and swallows SQL errors
(`status`, `get_isg_services`, `get_static_ip`), `forced` for `status` with `force`,
`check` for `check_initial_subscriber`, which swallows them too but calls
`terminateStatement` outside its `try` (`billing.cpp:345-347`), `description` for `get_status_description`, which goes through
`querySQL` and may throw, `raw` for `raw_sql`, which does not touch the cache. An answer
is the version of the database it shows; `Degraded` is the empty result, which a missing
connection, an SQL error and an empty table all give. `bi` is `_bi`: garbage until the
first assignment, live, freed between `delete` and `= NULL`, null; after a throw it stays
live. `CancelLoad` and `CancelBreak` are the two halves of `cancelRequest`, with the
worker free to move in between. `CancelUnset` and `CancelDeleted` are `timeout()` on a
wild pointer.

The connection of a worker is the one its `BillingInstance` holds. `getConnection` may
fail although the pool has an idle connection. `releaseConnection` of the pool may fail,
too; the exception is swallowed and the instance deleted, so that nobody knows the
connection any more (`lost`, a history variable). Both calls may talk to the database with
`__mutex` held, and may not return (`PoolHangs`, the position "hung").
`terminateStatement` after an error is part of `QueryFails`. Three keys stand for the key
space, one per command. The cache is instance `C` of
`Cache`; `Store` and `Sweep` use its `Assign` and `EraseExpired`.

### QueryDocument

`open`, `root` and `ignored` describe the document; the callbacks see only the element
name. `state` and `depth` are `_state` and `_depth`. `sd` tells an open socket from one
that was shut down (`sendString`) or closed (`error`); a reply counts when the socket was
open. A command that throws leaves `res` uninitialised: `CommandThrows` and
`CommandThrowsAndFails` are its two values. An action element without attributes crashes
the process (null attribute list). `ParserError` may or may not stop libxml2.

With another root than `<query>` two commands may be executed in one document: the
element `<store>` around an inner `<query>` ends at depth 2 as well when the inner
command threw. `AtMostOneCommand` and `CommandIsChildOfRoot` are therefore about
documents with the right root.

### CoAExchange

A worker executes one command after another (`Again`: the thread ends and that of a later
dispatcher takes its place). For each it draws two identifiers (`genRadiusPacket` is called for
the request and for the reply) with the read and the increment of `_sequence` as separate
steps under the mutex, then sends, waits and answers. `isg_logout` answers, sleeps and
sends. `since` is a history variable: how many numbers were drawn since a worker drew that
of its request, counted to `IdSpace + 1` at most. `sequence` starts anywhere, as in a daemon that has been running; the width of the
`int` is not modelled. The NAS executes or refuses a request; `odd` is a reply whose code
the dictionary does not name, for which `dump()` throws and the client gets an error.
`ReadFails` is the time limit, a signal, an ICMP error and a reply that cannot be
unpacked. All datagrams that are queued are read as one packet: with several of them
`unpack()` finds the first (`ReadReply`), throws, or never returns (`ReadSeveral`, the
position "stuck"; `CoACommand` has the octets of it). The network loses, delays and
duplicates in both directions (`Lose`, `Receives`; `replies` counts the copies). The end
of the wait closes the socket, and what is sent to it later is lost (`Close`, `Reply`).
The model assumes that a port is not reused while datagrams for its former owner are
under way: the code compares neither identifier nor authenticator, so without it a reply
could be taken for another.

### RadiusPacket and CoACommand

`RadiusPacket` translates the packet classes into operators. An octet is a number below
`OctetSize`, a text a sequence of octets in which digits are their values and the letters
that the code looks for are constants; the MD5 digest and the exclusive or of two octets
are constant operators. The builders
(`SessionRequest`, `LoggonRequest`) choose session id or account by the key; `Packed`
is `pack()`, with its peculiarity that only the last plain attribute is appended.

`CoACommand` runs one command: `Build`, `Send`, the reply of the NAS (any of a set, one or
two copies in the buffer), then `unpack()` one round of a loop per action, and
`wrapRadiusPacket`. The loops work on octets that they shorten: `_unpackAttributes` passes
over a vendor specific attribute and cuts out any other without moving on, exactly as the
source does; `_unpackVSAttributes` passes over what is not vendor specific, which it meets
only behind a second copy. A vendor specific attribute may have several attributes in it:
an item is its first, with the size octet `first`, and everything behind. The code does
not look at that size (`radpacket.cpp:207-208`) and takes all of it for the value of the
first; `ReplyReachesClient` says so. `CommandArrives` reads the octets of the request by the rules of RFC 2865,
not by those of the code. It says so of what it calls `Regular`: values that the size
octets can count, a dictionary that gives "CoA-Request" a code and declares the vendor and
the attributes of the request as texts, a session whose NAS is known, a logon by account.

### QuerySQL

One execution of `querySQL` and what surrounds it: `ReadParam` is the part of
`parserStartElement` that collects parameters, then a connection, the statement, the
binding, the execution, one action per column, `FetchRow`, `InsertColumn` and `PushRow`
for the multimap `tmp` of a row, and `Report` with `add_bind` and `to_xml`. A value is a sequence of characters, of which only the ampersand matters.
`BoundLength` and `RoomFor` keep the widths of an `ub2` (`Width`). The name of a column is
read without its length (`billing.cpp:496,509`): `NamesRead` puts one of `Tails` behind
it, the octets up to the next zero in memory. `kept` is what has been allocated and not
released: the two handles, the buffers of the variables, and how many values and
indicators of columns. `CleanedUp` deletes what each of the loops at the end of `querySQL`
runs over, `binds` and the columns that were defined; an error leaves before that, with
what there is by then. `fetch` says how the fetching went, "noConnection" if it never began. What the database does with a variable whose length and
terminator disagree is left open (`DatabaseReads`).

### Dictionary, Configuration, Daemon

`Daemon` is the process: `phase` is the position of `main()`. `stack` holds the calls of
`RadiusDictionary::parse`, which calls itself for `$INCLUDE` with a `currentVendor` of its
own; a line is a record of its fields. `DictionaryAsDeclared` compares the result with
`AllLines`, all lines in the order in which the includes bring them. `ReadLine` is one round of
`Configuration::load`; a line is what `load` distinguishes: a section, an entry, its
blanks, whether a newline ends it. `$INCLUDE` without a name throws out of `main()`
(`IncludeNothing`).

An entry of `__data` has the string `section:key`, so that `MAIN:debug` in no section and
`debug` in `[MAIN]` are one key. A name is therefore the sequence of the parts between its
colons, and `FullKey` joins two of them. `ConfigurationAsWritten` is about these full keys.

`table` is the table of descriptors. `accept`, `socket` and `open` take the lowest free
one, `close` gives it back, `dup2` replaces one. The six system calls of `logrotate()`
are six actions with the connections free to move in between; `at` is the position of
the call made by `main()` and of each in a handler of SIGUSR1 (`Handlers`, the threads
that may be in one). The signal is blocked only in the thread that handles it: once the
service runs, any number of handlers rotate beside each other. Before that `main()` is the
only thread and goes on when the handler has returned (`MainRuns`). `mishaps` is a history
of the three events after which the log may not follow: a log that cannot be opened, a
connection that is given descriptor 1 or 2, and a log opened while another rotation is
under way (`Rotating`).

## Runs

| run | cfg | shows |
|---|---|---|
| `listener` | `MCListener.cfg` | `TypeOK`, `ChildrenExact`, `LimitRespected`, `OnlyErrorDeletesInService` |
| `listener_live` | `MCListenerLive.cfg` | `Reclaimed`, `LongQueryInterrupted` |
| `cache` | `MCCache.cfg` | `TypeOK`, refinement of `ExpiringStore`, `OverdueForgotten` |
| `oracle` | `MCOracleQuery.cfg` | `TypeOK`, `ConnectionsAccounted`, `OnlyThrowLeaks`, `BypassIsFresh` |
| `oracle_live` | `MCOracleQueryLive.cfg` | `Answered` |
| `sql` | `MCQuerySQL.cfg` | `TypeOK`, `VariablesGiven`, `RowsReachClient`, `ChangesReachClient`, `OnlyFailuresLeak` |
| `document` | `MCQueryDocument.cfg` | `TypeOK`, `AtMostOneCommand`, `AtMostOneReply`, `QueryAnswered`, `CommandIsChildOfRoot` |
| `coa` | `MCCoAExchange.cfg` | `TypeOK`, `RequestIdsDistinct`, `AckedMeansDone`, `Answered` |
| `radius` | `MCCoACommand.cfg` | `TypeOK`, `CommandArrives`, `ReplyReachesClient`, `UnpackEnds` |
| `daemon` | `MCDaemon.cfg` | `TypeOK`, `DictionaryAsDeclared`, `ConfigurationAsWritten`, `LogFollowsRotation`, `ConnectionsIntact` |

Runs that end in a counterexample, each a place where the code does not do what it says:

| run | property | what happens |
|---|---|---|
| `listener_in_use` | `NotDeletedInUse` | `_is_done` is set by `error()` inside `mainloop` and by `mainloop` before `remove_child`: the warehouse deletes the object while its thread uses it, or both delete it |
| `oracle_break` | `BreakHitsTarget` | the connection changes hands between its load and `OCIBreak`, or is read from a deleted instance: another dispatcher's query is broken |

Seen while modelling, and visible in the models though no run is devoted to them:

* Listener: a dispatcher refused by the limit is never deleted; an idle connection is
  never closed, although the warehouse logs every second that it should be killed; the
  age that lets a command be interrupted is that of the connection, and an `isg_*` command
  is never interrupted. After `error()` a later element of the document may be executed
  while the warehouse deletes the dispatcher. The warehouse reads the pointer to delete
  from a node it has erased.
* Documents: after "root element is not query" a deeper `<query>` is accepted and its
  command executed, and the client gets no reply to the error; an action element without
  attributes dereferences a null list.
* Billing: an SQL error thrown by `querySQL` skips `delete _bi`, so that after fifteen
  failing `raw_sql` the pool is empty; an error of `terminateStatement` does so for
  `check_initial_subscriber`. A connection that the pool refuses to take back is forgotten,
  and a call of the pool that hangs keeps its mutex, so that nobody can return a
  connection. An empty result due to a busy pool, and the rows
  fetched before an error or a break, are taken for the answer. `return(-1)` for a column
  is, too. An expiry beyond 2038, which a large `timeout` of the `store` command gives
  today, wraps to the past and is erased by the next sweep.
* `querySQL`: a value of 65535 characters or more is bound with a length that disagrees
  with its buffer; a column wider than 10922, or of size 0, has too little room, and the
  first value that does not fit ends the rows without an error; a value is cut behind an
  ampersand; more than 256 variables are not bound at all. The length of a column's name is
  not used. A missing connection gives the same answer as a table without rows.
* CoA: `isg_logout` tells the client `CoA-ACK` before the request is sent. A key of a
  session without a NAS sends a request without attributes to the default server. Two
  copies of a reply in the buffer are parsed as one packet: the second's header is read
  as attributes, which may throw, and a size of 0 there makes the loop endless. Several
  attributes in a vendor specific one are read as one. Sizes are cut to an octet. An
  identifier is repeated while its command still waits if 128 others draw theirs meanwhile.
* Start-up: a last line without a newline is lost; a value of one character keeps its
  blanks; `VALUE` ahead of `ATTRIBUTE` leaves the attribute with number 0; `$INCLUDE` without a name
  stops the daemon; a key with a colon may be that of a section.
* Log rotation: a log that cannot be opened, a connection accepted between `close(2)` and
  `dup2`, and a second rotation during a first, `main()`'s own or that of another thread,
  each leave output and connections mixed up.

### Bounds

* `listener`: three dispatchers and a limit of one child. Two are in the list while a
  third is refused, or started after one was removed; races are between a dispatcher, the
  warehouse and the accept loop, so more of them add no new kind of race. The proofs
  cover any number. `listener_live` has two dispatchers. Dispatchers are symmetric, which
  is used in the safety run only.
* `cache`: two keys, two values and the empty one, a clock of five seconds, times to live
  from -1 to 2, so that entries expire, are replaced before and after, and are born
  expired.
* `oracle`: two workers, two connections, one change of the database, a clock of one
  second: an entry with the short time to live can expire. The pool runs empty because of a
  leak, a lost connection or refusals of `getConnection`.
  `oracle_live` has one connection, so that the workers compete for it, and neither
  changes nor a clock. In `OracleQuery` times to live are 1 and 2 seconds for 20 and 3600.
* `document`: elements nested to depth four (one below a parameter), three start tags
  before `<query>`, two known commands and one unknown name.
* `coa`: two workers, each with any number of commands, and three identifiers, so that the
  commands of one worker soon repeat the identifier of a command for which the other
  waits: `since` passes `IdSpace` with the identifiers equal, and stays below it with the
  sequence wrapped. One copy of each reply may be under way (`MaxCopies`): a command that
  is executed and refused, from two copies of the request, has two in its queue.
* `radius`: octets below 32 (`OctetSize`), words of two octets and digests of three, so
  that a service name can exceed what a size octet counts and a password can fill a block
  exactly, or need two. `MaxRead` = 6 attributes bounds
  the endless loop behind a second copy. The commands, keys and replies of `MCCoACommand`
  contain every command, every form of key, unknown attributes and vendors before and
  after known ones, a vendor specific attribute with two attributes in it, empty values and
  a code without a name.
* `sql`: `Width` is 16 for the 65536 of an `ub2`, `MaxVariables` 3 for 256; the requests
  of `MCQuerySQL` have values just below, at and above the width, a variable that occurs
  twice, more variables than fit, columns that share a name, columns of size 0 and wide
  ones, nulls and ampersands. Behind a column's name may be nothing or one more character
  (`Tails`), so that columns of one name may come apart.
* `daemon`: two threads, two handlers, three logs and descriptors up to nine: enough for both
  threads to hold a descriptor while two handlers rotate, or one within `main()`'s own
  rotation. Threads are symmetric, and handlers. The
  installations of `MCDaemon` have includes within a vendor block and without a name, files
  that are missing, repeated declarations, and configurations with and without the log's
  name and with a key spelt in two ways.

`CHECK_DEADLOCK FALSE` everywhere: the instances create finitely many objects or commands
and then rest, and a process that exited or became undefined does nothing.

### Fairness

* Loops without exit are fair: the accept loop inside its critical section, the warehouse.
  `accept` itself is not: clients need not come.
* `pthread_mutex_lock` is strongly fair where the mutex is released again and again by
  holders that keep it for a few instructions (warehouse, `releaseConnection`,
  `getNextId`). POSIX does not promise it; the default futex mutex gives it in practice
  because waiters are woken and the holders sleep or block elsewhere between two locks.
* A dispatcher's thread takes every step that waits for nobody. Commands need not end:
  a query is fair only after it was broken (`OCIBreak` makes it fail). In `OracleQuery`
  the warehouse's cancellation of a running query is strongly fair: it visits each
  dispatcher once a second and a query that does not end stays cancellable. A call of the
  pool returns or hangs, which is a step of its own: `Answered` leaves out the worker that
  hangs and those behind it that have a connection to return, and no other.
* The NAS and the network owe nothing; the time limit of `select` ends the wait. What
  `Answered` of `CoAExchange` leaves out is the thread that read several replies at once. In
  `CoACommand` only the thread that has a reply goes on (`Unpack`, `Wrap`).

### What is assumed of the environment

libxml2 calls start and end tags in their proper nesting. The kernel hands out the lowest
free descriptor and blocks SIGUSR1 in a thread that handles it. The log file was moved away
before each signal, so that `open` makes a new one. A reply of the NAS conforms to
RFC 2865: its sizes fit, those of the attributes in a vendor specific one included, and an
address has the octets of a word (`ReplyOK`, `AddressesOK`).
The dictionary declares what `wrapRadiusPacket` looks for as text or address, and no other
name of the same number comes first; the number of the vendor Cisco is not 0
(`NamesFound`). The database gives each column of a row a value or null, and no more bytes
than it says the column has, at six to a character; a size of 0 says nothing
(`RequestsAssumption`). What a procedure assigns fits into the buffer of the variable.
Numbers in dictionary files are not negative, and only the last line of a file may lack
its newline; no dictionary file includes itself through others, since `parse` would then
nest until the process can open no more files (`InstallationAssumption`). There are more descriptors than the threads, the
handlers and the daemon itself use at once (`DaemonAssumption`): `open` fails for other reasons.

## Proofs

All theorems hold for every value of the constants that satisfies the modules' `ASSUME`s.

* `ListenerProofs`. `ChildrenExact` is not inductive. The invariant `IInv` adds who
  holds the mutex at each position of the accept loop and of a thread (`MutexInv`), that
  the accept loop's `ad` is a fresh object (`AcceptorInv`) and which positions a deleted
  object can be in (`DeletedInv`: in `mainloop` only after `error()`). From it follow
  `TypeCorrect`, `ChildrenAreExact` and `InServiceDeletedByError`. `ChildrenLimited` needs in addition that the list is finite and
  at most `ChildLimit` long when the accept loop is about to push, which nobody can spoil
  because it holds the mutex.
* `CacheProofs`. `TypeCorrect`: expiries fit the `int`. `CacheIsExpiringStore`: under
  `NoOverflow` (no clock plus time to live exceeds `IntMax`) the invariant that the stored
  expiry equals `due` makes each sweep a `Forget` of overdue entries, so the cache
  implements the store. Without `NoOverflow` it does not.
* `OracleQueryProofs`. The invariant says who may hold the pool mutex, at which positions
  a worker may hold a connection, and that what a bypassing worker holds is at least
  as new as its start. `ConnectionsAreAccounted`, `LeaksNeedThrow`, `BypassAlwaysFresh`
  follow. No theorem says that connections are never lost: they are, when the pool refuses
  one (`lost`) and when a query throws.
* `QueryDocumentProofs`. None of the document properties is inductive: that only a child
  of the root is executed rests on the callbacks' depth, which is wrong after a refused
  or failed element. The invariant bounds the error from both sides (`DepthInv`), says
  that the first open element is the root (`RootInv`) and, for a document with the root
  `<query>`, that depth and nesting agree until something was replied (`QueryInv`), so
  that a command is executed only while they agree (`AtChildOfRoot`). `ReplyInv` ties
  the replies to the socket. `OneCommand`, `OneReply`, `QueryIsAnswered` and the action
  property `OnlyChildrenOfRoot` follow, for documents of any nesting.
* `CoAExchangeProofs`. `AckedIsDone`: every datagram or position that says "ack" belongs to
  a command that was executed (`AckInv`), which neither loss nor duplication spoils.
  `IdsAreDistinct` is a counting argument: the invariant `NumberInv` says that the
  identifier of a command is the sequence less the draws since (`since`) modulo `IdSpace`,
  as long as these are counted, and that no two commands have the same number of draws
  behind them. So two that are both counted lie less than `IdSpace` apart, and
  `ModDistinct` gives the rest. It holds for any number of threads and commands, since it
  is about draws and not about commands: one that waits long enough is counted no more.
* `DaemonProofs`. `ConnectionsStayIntact`: the invariant `LogFdInv` says that the descriptor
  a rotation has opened refers to a log and differs from those of the other rotations, unless it
  is 1 or 2; so nothing a rotation closes or replaces can be a connection's, and nothing
  a connection closes can be a rotation's.

  `LogIsFollowed` needs to know what both standard descriptors are at each of the seven
  positions of a rotation. `LogInv` says so (`RotationInv`): from which position on each is
  the new log, and that no descriptor but these and the rotation's own refers to an older
  one. As long as nothing of `mishaps` has happened,
  at most one rotation is past its `open`, no connection has descriptor 1 or 2, and
  so the lowest free descriptor that `open` takes cannot be one of them. A handler that was
  called and has not opened its log yet does no harm.

  `ConfigurationIsAsWritten`: `ConfInv` says, at every line of `load()`, that `section` is
  the head of the section the line stands in, and for each full key of the file that the entry
  in `data` is that of the last of the lines read so far that give it (`KeyInv`). That
  property is about the greatest index of a set, which the step from `line` to `line + 1`
  either leaves alone or moves to `line`.

  `DictionaryIsAsDeclared`: what is left to parse is, from the innermost call outwards, what
  each call's file brings from its next line on (`Left`), and each call's `currentVendor`
  is the vendor block of its place (`Standing`). `Parsed` says that all lines are those
  parsed so far followed by what is left, and that the dictionary is what the lines so far
  declare: every name in it is one of a line, and an attribute is what the first line of
  its name says (`Declared`). A line moves from the second part to the first, an `$INCLUDE`
  is replaced by what its file brings and a return has nothing left, so both leave the
  whole as it is. That `AllLines` has a meaning at all rests on the depth which
  `InstallationAssumption` gives every file: `LinesFrom` is defined for the files of depth
  0, then for those that include them (`DefinedNext`), within a file from the last line to
  the first (`JoinExists`).

  `TypeCorrect`: `ParseInv` keeps every call on the parser's stack within its file and
  every number within an octet, `BoundsInv` the rest.
* `CoACommandProofs`. `TypeCorrect`: `TypeInv` follows the octets through every conversion:
  what the key, the dictionary and the digest give are octets, so is what `pack()` makes of
  them, also where a size is cut; a conforming reply is one, and cutting an attribute out of
  octets leaves octets; every value that is kept belongs to a name of the dictionary.
  All three theorems have the hypothesis `Md5OK`, that a digest is a block of octets for any of the
  infinitely many texts; an `ASSUME` of it is beyond TLC. Exclusive or and the sizes are
  constrained by `RadiusAssumption`.

  `ReplyReachesTheClient` is about the loops that shorten what they walk over. `ReadInv` says
  what `octets` and `i` are after any number of rounds, for a reply of any length. In
  `_unpackAttributes` there is a number `j` of items such that `octets` is the vendor
  specific ones of the first `j` (`Kept`), then all the others (`Rest`), then what stands
  behind the reply; `i` is the length of the first part; and the values found under the
  names that `wrapRadiusPacket` asks for are those the first `j` items say
  (`AmongItems`). In `_unpackVSAttributes` what is left starts with the vendor specific
  items behind the first `j` (`AtVsas`). A round moves `j` to `j + 1`, or leaves it for
  the next item of a vendor. If there is nothing behind the reply, the end of the octets
  is the end of the items. If a second datagram is, the loops go on into it with the
  invariant that what was found starts with what the reply says (`PlainHas`, `CiscoHas`).
  The proof rests on lemmas about octets and their parts (`ItemFound` and `VsaFound`: an
  item in the middle of octets is read as what it is and cut out whole), about numbers
  written in octets (`NumberOfDigits`), about flattened sequences (`FlattenAppend`,
  `BeforeNext`, `AfterNext`), and on `NamesFound`: without it another name of the same
  number hides the one that is asked for. The folds and recursive functions are reached
  through the step from `n` to `n + 1` that `StepsExist` gives, by taking a least
  counterexample (`LeastNat`).

  `RequestArrives` states `CommandArrives`. Its invariant is short: until the NAS has the
  packet it is the one that was built for the key, and `wire` is what `pack()` made of it
  (`ArriveInv`). The work is in the encoding. `Packed` puts the sizes, the authenticator
  and at most four attributes together (`RequestParts`, `RequestAuthentic`); a reader by the
  rules of the RFC finds exactly these, one after the other (`ReadsNext`, `ReadsLast`), for
  any values that fit. `SessionPacket` and `LoggonPacket` say what the builders put in for
  each form of the key, `NamedSession` that the octets of the session id write the number
  the key writes, and `PasswordUnmasked` that undoing the exclusive or block by block, with the
  digest of the block before, gives back a password of any length that fits.
* `QuerySQLProofs`. `LeaksNeedFailure`: `KeptInv` says at every position what is allocated,
  a buffer for each variable in `binds` and a value and an indicator for each of the columns
  defined so far, so that the loops of the clean-up run over exactly what is there; every
  other way out is an error or gives the columns up. The other four theorems share the invariant
  `SQLInv`, one part per stage of the function.
  `ParamsInv`: the first value under a name is that of the first of the parameters read so
  far that have it. `CallInv`: each variable is bound to that, the database has read what
  it was bound to, and the buffer has that or what the procedure assigned. `RowInv`: the
  rooms are those of the columns defined so far, the rows are the first rows of the
  database, and the multimap of the row under way has, for each name, the values of the
  columns inserted so far, the n-th of them at position n, under the names as they were read
  (`Holds`). `VariablesAreGiven`
  follows from the first two, `ChangesReachTheClient` from all that and what `Report` puts
  into the answer, `RowsReachTheClient` from `RowInv` and from `RequestsAssumption`: a
  value fits its column unless the width of the room was exceeded, so only a wide column
  or one of size 0 can end the rows early. `TypeCorrect` needs `Width > 0` only.

Only model-checked:

* all liveness (`Reclaimed`, `LongQueryInterrupted`, `OverdueForgotten`, both `Answered`,
  `UnpackEnds`), which TLAPS cannot prove under fairness.

Every invariant of a passing run is stated by a theorem. Where an invariant is about a
recursive function (`AttributesOf`, `LinesFrom`), the induction over its argument is done by
hand, from the well-foundedness of the natural numbers: a set of numbers that is not
empty has a least member (`LeastNat`).

## Not modelled

* `src/src/main.cpp` is an older stand-alone test program for the RADIUS library.
* The clients (`web/*.php`, `web/Cached.pm`, `../test`) run elsewhere; the modules have the
  protocol's other end.
* The texts of SQL statements, the layout of the XML and the log messages are formatting.
* The memcached branch of the cache is not compiled. `change()` and `replaceAttribute()` of
  the packet classes, `save()` and `set()` of the configuration are never called or empty;
  `__code` and `__info` of a result are never set.
* `Configuration::get` inserts missing keys. After the start only the signal handler calls
  it, with a key that is inserted at the first call; that two handlers, or one and `main()`,
  are inside it at once is not modelled, since it is one step in `Daemon`.
* Several `int` functions of `DispatcherOracle` and `DispatcherCOA` end without `return`;
  their values are never used and the models take them to return.
* The change of user has no state the daemon works on.
* `sig` calls functions that are not safe in a handler (`std::cerr`, `operator new`); the
  models take them to return.

## Plan

Done: all modules of the table above and the proofs named there.

What remains worthwhile:

1. A composition of `Listener` and `CoAExchange` over the shared mutex.
2. The lost update of two commands for one key that miss together (`oracle.cpp:59`), as a
   property of `OracleQuery` with a shared key.
3. Reuse of a port by two exchanges, for which `CoAExchange` needs identifiers in replies.
