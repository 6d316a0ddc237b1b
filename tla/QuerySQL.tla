------------------------------ MODULE QuerySQL ------------------------------
(***************************************************************************)
(* One raw_sql command: the parameters its document gives, the variables   *)
(* of the statement they are bound to, the execution, the columns and rows *)
(* that are fetched, and the result in XML.  (OracleQuery has the          *)
(* connection's way through the pool and the cache around it.)             *)
(*                                                                         *)
(* A value is a sequence of characters.  The database is not under src/.   *)
(***************************************************************************)
EXTENDS Integers, SequencesExt, FiniteSetsExt, StdMap

CONSTANTS
  Requests,     \* statements with the parameters of their documents, and the
                \* columns and rows the database has for them
  Effects,      \* values that a procedure may assign to a variable
  Tails,        \* what may follow the name of a column in memory
  Lower(_),     \* tolower on the name of a variable
  Width,        \* 65536: values of an ub2, and BINDABLE_BUFFER_SIZE
  MaxVariables  \* 256: variables that OCIStmtGetBindInfo has room for

ASSUME QuerySQLAssumption == Width \in Nat \ {0} /\ MaxVariables \in Nat

Null    == <<"null">>
Missing == <<"missing">>  \* a param element without a value
Ampersand == "&"
Values == Seq(STRING \ {"null", "missing"})

(* The database gives a value for each column of a row, of as many bytes   *)
(* as it says the column has, at six to a character; a size of 0 says      *)
(* nothing.  A value it assigns fits into the buffer of the variable.      *)
ASSUME RequestsAssumption ==
  /\ \A r \in Requests :
       /\ r.document \in Seq([name : STRING, value : Values \cup {Missing}])
       /\ r.variables \in Seq(STRING)
       /\ r.columns \in Seq([name : STRING, size : Nat])
       /\ r.rows \in Seq(Seq(Values \cup {Null}))
       /\ r.columns = << >> => r.rows = << >>
       /\ \A i \in DOMAIN r.rows :
            /\ DOMAIN r.rows[i] = DOMAIN r.columns
            /\ \A k \in DOMAIN r.columns :
                 r.rows[i][k] # Null /\ r.columns[k].size # 0
                   => Len(r.rows[i][k]) <= r.columns[k].size * 6
  /\ \A value \in Effects : value \in Values /\ Len(value) < Width

VARIABLES
  request, phase,
  next,      \* the next parameter, column or row
  params,    \* Dispatcher::_named_params: the values of each name
  binds,     \* _buffer, alenp and indp of each variable that is bound
  given,     \* history: what the database read of each variable
  changed,   \* history: what the database assigned to variables
  columns,   \* defs: room for the value of each column
  colnames,  \* the name of each column, as it was read
  row, column,  \* tmp and i: the row under way, and its next column
  fetch,     \* how the fetching went
  kept,      \* what the command has allocated
  result,    \* _rv: its rows
  told       \* what the client is told

callVars == <<binds, given, changed>>
rowVars  == <<columns, colnames, row, column, fetch, result>>
vars == <<request, phase, next, params, callVars, rowVars, kept, told>>

(* Statement and error handle, a buffer for each variable, a value and an  *)
(* indicator for each column.                                              *)
Nothing == [handles |-> {}, buffers |-> {}, defs |-> 0, indps |-> 0]

Init ==
  /\ request \in Requests
  /\ phase = "params" /\ next = 1
  /\ params = << >>
  /\ binds = << >> /\ given = << >> /\ changed = << >>
  /\ columns = << >> /\ colnames = << >> /\ row = << >> /\ column = 1
  /\ fetch = "notYet" /\ result = << >>
  /\ kept = Nothing
  /\ told = [as |-> "nothing"]

Cut(value, n) == SubSeq(value, 1, Min({n, Len(value)}))

(* One more value under a name.                                            *)
ValuesOf(map, name) == IF name \in DOMAIN map THEN map[name] ELSE << >>

WithValue(map, name, value) == Put(map, name, Append(ValuesOf(map, name), value))

-----------------------------------------------------------------------------
(* The document.                                                           *)

(* parserStartElement appends the value of a param to those of its name.   *)
ReadParam ==
  /\ phase = "params" /\ next <= Len(request.document)
  /\ LET p == request.document[next]
     IN  params' = IF p.value = Missing THEN params ELSE WithValue(params, p.name, p.value)
  /\ next' = next + 1
  /\ UNCHANGED <<request, phase, callVars, rowVars, kept, told>>

-----------------------------------------------------------------------------
(* querySQL, from its beginning to the execution.                          *)

EmptyResult == [as |-> "result", rows |-> << >>, binds |-> << >>]

ToldError == phase' = "told" /\ told' = [as |-> "error"]

Begins == phase = "params" /\ next > Len(request.document)

(* A busy pool: an empty result that does not differ from an answer.       *)
NoConnection ==
  /\ Begins
  /\ fetch' = "noConnection"
  /\ phase' = "told" /\ told' = EmptyResult
  /\ UNCHANGED <<request, next, params, callVars, columns, colnames, row, column, result, kept>>

CreateStatement ==
  /\ Begins
  /\ kept' = [kept EXCEPT !.handles = {"statement", "error"}]
  /\ phase' = "bind"
  /\ UNCHANGED <<request, next, params, callVars, rowVars, told>>

(* createStatement throws, or what comes after it.                         *)
CreateFails ==
  /\ Begins
  /\ kept' \in {kept, [kept EXCEPT !.handles = {"statement"}]}
  /\ ToldError
  /\ UNCHANGED <<request, next, params, callVars, rowVars>>

(* The length with the terminator, in an ub2; the faulty variants forget   *)
(* the terminator and the width.                                           *)
BareLength(value)  == Len(value) % Width
WholeLength(value) == Len(value) + 1

BoundLength(value) == (Len(value) + 1) % Width

Bound(name) ==
  IF name \in DOMAIN params
  THEN [text |-> Cut(params[name][1], Width - 1), length |-> BoundLength(params[name][1]),
        null |-> FALSE]
  ELSE [text |-> << >>, length |-> 0, null |-> TRUE]

(* A name that occurs twice is bound once.  When there are too many the    *)
(* number found is negative and nothing is bound.                          *)
Bind ==
  /\ phase = "bind"
  /\ binds' = IF Len(request.variables) > MaxVariables THEN << >>
              ELSE [v \in Range(request.variables) |-> Bound(Lower(v))]
  /\ kept' = [kept EXCEPT !.buffers = DOMAIN binds']
  /\ phase' = "execute"
  /\ UNCHANGED <<request, next, params, given, changed, rowVars, told>>

(* Where the terminator and the length disagree the database may go by     *)
(* either.                                                                 *)
DatabaseReads(b) ==
  IF b.null THEN {Null}
  ELSE {b.text, IF b.length = 0 THEN Null ELSE Cut(b.text, b.length - 1)}

AllBound == Range(request.variables) \subseteq DOMAIN binds

(* A procedure may assign to variables; the buffer of one that becomes     *)
(* null keeps its text.                                                    *)
Assigned(b, value) ==
  IF value = Null THEN [b EXCEPT !.null = TRUE]
  ELSE [b EXCEPT !.text = value, !.length = BoundLength(value), !.null = FALSE]

Execute ==
  /\ phase = "execute" /\ AllBound
  /\ given' \in {g \in [DOMAIN binds -> UNION {DatabaseReads(binds[v]) : v \in DOMAIN binds}] :
                   \A v \in DOMAIN binds : g[v] \in DatabaseReads(binds[v])}
  /\ \E vs \in (IF request.type = "call" THEN SUBSET DOMAIN binds ELSE {{}}) :
       changed' \in [vs -> Effects \cup {Null}]
  /\ binds' = [v \in DOMAIN binds |->
                IF v \in DOMAIN changed' THEN Assigned(binds[v], changed'[v]) ELSE binds[v]]
  /\ phase' = "describe" /\ next' = 1
  /\ UNCHANGED <<request, params, rowVars, kept, told>>

(* An error of the statement, or the warehouse's OCIBreak; always, if a    *)
(* variable is not bound.  checkerr throws past the end of the function.   *)
ExecuteFails ==
  /\ phase = "execute"
  /\ ToldError
  /\ UNCHANGED <<request, next, params, callVars, rowVars, kept>>

-----------------------------------------------------------------------------
(* The columns and the rows.                                               *)

(* Six bytes to a character and a terminator, in an ub2.                   *)
RoomFor(c) == (c.size * 6 + 1) % Width

(* The attribute is a pointer and a length, which is not looked at: the    *)
(* name goes on to the next zero in memory.                                *)
NamesRead(c) == {c.name} \X Tails

OneColumnMore ==
  [handles |-> kept.handles, buffers |-> kept.buffers,
   defs |-> kept.defs + 1, indps |-> kept.indps + 1]

DefineColumn ==
  /\ phase = "describe" /\ next <= Len(request.columns)
  /\ columns' = Append(columns, RoomFor(request.columns[next]))
  /\ \E name \in NamesRead(request.columns[next]) : colnames' = Append(colnames, name)
  /\ kept' = OneColumnMore
  /\ next' = next + 1
  /\ UNCHANGED <<request, phase, params, callVars, row, column, fetch, result, told>>

(* An attribute cannot be read, or the column cannot be defined: by then   *)
(* its buffers are in the lists.                                           *)
DefineFails ==
  /\ phase = "describe" /\ next <= Len(request.columns)
  /\ kept' \in {kept, OneColumnMore}
  /\ ToldError
  /\ UNCHANGED <<request, next, params, callVars, rowVars>>

(* Success with information is not a success for the test and not an error *)
(* for checkerr: return(-1), which the caller does not look at.            *)
DefineInforms ==
  /\ phase = "describe" /\ next <= Len(request.columns)
  /\ kept' = OneColumnMore
  /\ fetch' = "givenUp"
  /\ phase' = "told" /\ told' = EmptyResult
  /\ UNCHANGED <<request, next, params, callVars, columns, colnames, row, column, result>>

ColumnsDefined ==
  /\ phase = "describe" /\ next > Len(request.columns)
  /\ phase' = IF columns = << >> THEN "report" ELSE "fetch"
  /\ next' = 1
  /\ UNCHANGED <<request, params, callVars, rowVars, kept, told>>

Fits(values) == \A k \in DOMAIN columns : values[k] = Null \/ Len(values[k]) < columns[k]

FetchRow ==
  /\ phase = "fetch" /\ next <= Len(request.rows) /\ Fits(request.rows[next])
  /\ phase' = "row" /\ row' = << >> /\ column' = 1
  /\ UNCHANGED <<request, next, params, callVars, columns, colnames, fetch, result, kept, told>>

(* tmp is a multimap: columns that share a name keep their values, in the  *)
(* order of their insertion.  The faulty variant has a map.                *)
InsertedInMap(map, name, value) == Put(map, name, <<value>>)

Inserted(map, name, value) == WithValue(map, name, value)

Fetched(value) == IF value = Null THEN << >> ELSE value

InsertColumn ==
  /\ phase = "row" /\ column <= Len(columns)
  /\ row' = Inserted(row, colnames[column], Fetched(request.rows[next][column]))
  /\ column' = column + 1
  /\ UNCHANGED <<request, phase, next, params, callVars, columns, colnames, fetch, result,
                 kept, told>>

PushRow ==
  /\ phase = "row" /\ column > Len(columns)
  /\ result' = Append(result, row)
  /\ next' = next + 1 /\ phase' = "fetch"
  /\ UNCHANGED <<request, params, callVars, columns, colnames, row, column, fetch, kept, told>>

(* Anything but a plain success ends the loop: no more rows, a value that  *)
(* is cut, an error, a break.                                              *)
FetchEnds ==
  /\ phase = "fetch"
  /\ fetch' = IF next > Len(request.rows) THEN "complete"
              ELSE IF ~Fits(request.rows[next]) THEN "cut" ELSE "failed"
  /\ phase' = "report"
  /\ UNCHANGED <<request, next, params, callVars, columns, colnames, row, column, kept, result,
                 told>>

-----------------------------------------------------------------------------
(* The result.                                                             *)

(* A variable that still has the value of its parameter is not reported;   *)
(* in the faulty variant none that has a parameter is.                     *)
HasParameter(v) == Lower(v) \in DOMAIN params

StillAsGiven(v) ==
  HasParameter(v) /\ binds[v].text = params[Lower(v)][1] /\ ~binds[v].null

(* xmlNewChild takes what follows an ampersand for a reference to an       *)
(* entity; without an end of the name the rest is dropped.                 *)
Xml(value) ==
  LET at == {k \in DOMAIN value : value[k] = Ampersand}
  IN  IF at = {} THEN value ELSE Cut(value, Min(at) - 1)

XmlRow(map) == [name \in DOMAIN map |-> [j \in DOMAIN map[name] |-> Xml(map[name][j])]]

(* add_bind for every other variable, and to_xml, which leaves out nulls.  *)
Reported == {v \in DOMAIN binds : ~StillAsGiven(v)}

XmlBinds == [v \in {u \in Reported : ~binds[u].null} |-> Xml(binds[v].text)]

(* The error handle goes first; then the statement, the buffers and, with  *)
(* a loop over each list, the values and the indicators of the columns.    *)
(* The faulty variant has no loop over the indicators.                     *)
Deleted(indicators) ==
  [handles |-> kept.handles \ {"error", "statement"}, buffers |-> kept.buffers \ DOMAIN binds,
   defs |-> kept.defs - Len(columns), indps |-> kept.indps - indicators]

NoIndicators == Deleted(0)

CleanedUp == Deleted(Len(columns))

Report ==
  /\ phase = "report"
  /\ kept' = CleanedUp
  /\ told' = [as |-> "result", rows |-> [k \in DOMAIN result |-> XmlRow(result[k])],
              binds |-> XmlBinds]
  /\ phase' = "told"
  /\ UNCHANGED <<request, next, params, callVars, rowVars>>

(* terminateStatement is outside the try block.                            *)
TerminateFails ==
  /\ phase = "report"
  /\ kept' = [kept EXCEPT !.handles = @ \ {"error"}]
  /\ ToldError
  /\ UNCHANGED <<request, next, params, callVars, rowVars>>

-----------------------------------------------------------------------------
Define == DefineColumn \/ DefineFails \/ DefineInforms \/ ColumnsDefined

Next ==
  \/ ReadParam
  \/ NoConnection \/ CreateStatement \/ CreateFails
  \/ Bind \/ Execute \/ ExecuteFails
  \/ Define \/ FetchRow \/ InsertColumn \/ PushRow \/ FetchEnds
  \/ Report \/ TerminateFails

Spec == Init /\ [][Next]_vars

-----------------------------------------------------------------------------
TypeOK ==
  /\ phase \in {"params", "bind", "execute", "describe", "fetch", "row", "report", "told"}
  /\ next \in Nat \ {0} /\ column \in Nat \ {0}
  /\ \A n \in DOMAIN params : params[n] # << >>
  /\ \A v \in DOMAIN binds : binds[v].length \in 0..Width - 1 /\ Len(binds[v].text) < Width
  /\ DOMAIN given \subseteq DOMAIN binds /\ DOMAIN changed \subseteq DOMAIN binds
  /\ \A k \in DOMAIN columns : columns[k] \in 0..Width - 1
  /\ fetch \in {"notYet", "complete", "cut", "failed", "givenUp", "noConnection"}
  /\ kept \in [handles : SUBSET {"statement", "error"}, buffers : SUBSET Range(request.variables),
               defs : Nat, indps : Nat]
  /\ told.as \in {"nothing", "error", "result"}

(* What the document gives for a variable: the first value of its name in  *)
(* lower case, or nothing.                                                 *)
ParamsFor(v) ==
  {k \in DOMAIN request.document : /\ request.document[k].name = Lower(v)
                                   /\ request.document[k].value # Missing}

GivenFor(v) ==
  IF ParamsFor(v) = {} THEN Null ELSE request.document[Min(ParamsFor(v))].value

FitsBuffer(value) == Len(value) + 1 < Width

(* A statement is only executed with a value for each of its variables:    *)
(* the first value that the document has for its name, or null, however    *)
(* often the variable and the name occur; and every character of it, if    *)
(* it fits into the buffer with its terminator, the length of which must   *)
(* fit an ub2.  (parserStartElement's lists of values, the loop over       *)
(* OCIStmtGetBindInfo's names)                                             *)
VariablesGiven ==
  phase \in {"describe", "fetch", "row", "report"} =>
    \A v \in Range(request.variables) :
      /\ v \in DOMAIN given
      /\ FitsBuffer(GivenFor(v)) => given[v] = GivenFor(v)

Plain(value) == Ampersand \notin Range(value)

PlainRow(values) == \A k \in DOMAIN values : Plain(values[k])

(* A row as the client finds it: the values of the columns of each name,   *)
(* as the name was read.                                                   *)
ShowsRow(shown, values) ==
  /\ DOMAIN shown = {colnames[k] : k \in DOMAIN request.columns}
  /\ \A name \in DOMAIN shown :
       LET ks == {k \in DOMAIN request.columns : colnames[k] = name}
       IN  /\ Len(shown[name]) = Cardinality(ks)
           /\ \A k \in ks :
                shown[name][Cardinality({j \in ks : j <= k})] =
                  IF values[k] = Null THEN << >> ELSE values[k]

(* The rows of an answer are the first rows of the database, each with a   *)
(* value for every column, also for columns that share a name, under the   *)
(* name that was read for the column; and all of them, unless there was no *)
(* connection, a fetch was broken or cut a value, or the columns were      *)
(* given up.  A value is only cut in a column whose size is unknown or too *)
(* great.  The client cannot tell such an answer from a whole one.  (the   *)
(* fetch loop, to_xml; no values with ampersands)                          *)
RowsReachClient ==
  told.as = "result" =>
    /\ Len(told.rows) <= Len(request.rows)
    /\ \A k \in DOMAIN told.rows :
         PlainRow(request.rows[k]) => ShowsRow(told.rows[k], request.rows[k])
    /\ fetch \notin {"noConnection", "failed", "cut", "givenUp"} =>
         Len(told.rows) = Len(request.rows)
    /\ fetch = "cut" => \E c \in Range(request.columns) : c.size = 0 \/ c.size * 6 + 1 >= Width

(* The client is shown the variables that the procedure gave a value other *)
(* than the one it was given, and no others, unless the parameter was too  *)
(* long to be bound whole; it is not told of a variable that became null.  *)
(* (the loop over _buffer, add_bind, to_xml)                               *)
ChangesReachClient ==
  phase = "told" /\ told.as = "result" /\ fetch # "givenUp" =>
    LET news == {v \in DOMAIN changed : changed[v] \notin {Null, GivenFor(v)}}
    IN  /\ news \subseteq DOMAIN told.binds
        /\ \A v \in DOMAIN told.binds \ news : ~FitsBuffer(GivenFor(v))
        /\ \A v \in news : Plain(changed[v]) => told.binds[v] = changed[v]

(* What a command has allocated for its statement, for however many        *)
(* variables and columns, is gone when it returns; only an error, or       *)
(* columns that are given up, leave some of it behind.  (the allocations   *)
(* in the loops of querySQL against the clean-up that follows them)        *)
OnlyFailuresLeak ==
  phase = "told" /\ kept # Nothing => told.as = "error" \/ fetch = "givenUp"
=============================================================================
