---------------------------- MODULE QuerySQLProofs ----------------------------
(* Proofs about QuerySQL for any statements, parameters, rows and effects.  *)
EXTENDS QuerySQL, FiniteSetTheorems, SequenceTheorems, TLAPS

-----------------------------------------------------------------------------
(* Arithmetic and cuts.                                                     *)

LEMMA SmallRemainder == ASSUME NEW n \in Nat, n < Width PROVE n % Width = n
BY QuerySQLAssumption

LEMMA Remainder == ASSUME NEW n \in Nat PROVE n % Width \in 0..Width - 1
BY QuerySQLAssumption

(* The least element of a set that has one.                                 *)
LEMMA LeastIsMin ==
  ASSUME NEW S \in SUBSET Int, NEW x \in S, \A y \in S : x <= y
  PROVE  Min(S) = x
<1>1. x \in S /\ \A y \in S : x <= y
  OBVIOUS
<1>2. \A z \in S : (\A y \in S : z <= y) => z = x
  OBVIOUS
<1>3. Min(S) \in S /\ \A y \in S : Min(S) <= y
  BY <1>1, Zenon DEF Min
<1>4. QED
  BY <1>2, <1>3

(* What strncpy copies is short enough, and all of a short value.           *)
LEMMA CutShort ==
  ASSUME NEW S, NEW value \in Seq(S), NEW n \in Nat
  PROVE  /\ Cut(value, n) \in Seq(S)
         /\ Len(Cut(value, n)) <= n
         /\ Len(value) <= n => Cut(value, n) = value
<1> DEFINE least == Min({n, Len(value)})
<1>1. Len(value) \in Nat /\ \A i \in 1..Len(value) : value[i] \in S
  BY LenProperties
<1>2. least = IF n <= Len(value) THEN n ELSE Len(value)
  <2> DEFINE l == Len(value)
             m == IF n <= l THEN n ELSE l
  <2>1. l \in Nat
    BY <1>1
  <2> HIDE DEF l
  <2>2. {n, l} \in SUBSET Int /\ m \in {n, l} /\ \A y \in {n, l} : m <= y
    BY <2>1
  <2> HIDE DEF m
  <2>3. Min({n, l}) = m
    BY <2>2, LeastIsMin
  <2>4. QED
    BY <2>3 DEF l, m
<1>3. Cut(value, n) = SubSeq(value, 1, least)
  BY DEF Cut
<1> HIDE DEF least
<1>4. least \in Nat /\ least <= n /\ least <= Len(value)
  BY <1>1, <1>2
<1>5. /\ SubSeq(value, 1, least) \in Seq(S)
      /\ Len(SubSeq(value, 1, least)) = IF 1 <= least THEN least - 1 + 1 ELSE 0
  BY <1>1, <1>4, SubSeqProperties
<1>6. Len(value) <= n => SubSeq(value, 1, least) = value
  BY <1>1, <1>2, SubSeqFull
<1>7. QED
  BY <1>3, <1>4, <1>5, <1>6

-----------------------------------------------------------------------------
(* What RequestsAssumption says of the request at hand.                     *)
LEMMA RequestOK ==
  ASSUME request \in Requests
  PROVE  /\ request.document \in Seq([name : STRING, value : Values \cup {Missing}])
         /\ Len(request.document) \in Nat /\ DOMAIN request.document = 1..Len(request.document)
         /\ request.columns \in Seq([name : STRING, size : Nat])
         /\ Len(request.columns) \in Nat /\ DOMAIN request.columns = 1..Len(request.columns)
         /\ request.rows \in Seq(Seq(Values \cup {Null}))
         /\ Len(request.rows) \in Nat /\ DOMAIN request.rows = 1..Len(request.rows)
         /\ request.columns = << >> => request.rows = << >>
         /\ \A i \in DOMAIN request.rows :
              /\ DOMAIN request.rows[i] = DOMAIN request.columns
              /\ \A k \in DOMAIN request.columns :
                   request.rows[i][k] # Null /\ request.columns[k].size # 0
                     => Len(request.rows[i][k]) <= request.columns[k].size * 6
<1>1. /\ request.document \in Seq([name : STRING, value : Values \cup {Missing}])
      /\ request.columns \in Seq([name : STRING, size : Nat])
      /\ request.rows \in Seq(Seq(Values \cup {Null}))
      /\ request.columns = << >> => request.rows = << >>
      /\ \A i \in DOMAIN request.rows :
           /\ DOMAIN request.rows[i] = DOMAIN request.columns
           /\ \A k \in DOMAIN request.columns :
                request.rows[i][k] # Null /\ request.columns[k].size # 0
                  => Len(request.rows[i][k]) <= request.columns[k].size * 6
  BY RequestsAssumption, Zenon
<1>2. QED
  BY <1>1, LenProperties

(* The parameters: after any number of param elements the values of a name  *)
(* begin with the first one that the document gives.                        *)

ParamsOf(document, name, n) ==
  {k \in DOMAIN document : /\ k < n /\ document[k].name = name
                           /\ document[k].value # Missing}

FirstParam(document, map, name, n) ==
  IF ParamsOf(document, name, n) = {} THEN name \notin DOMAIN map
  ELSE /\ name \in DOMAIN map
       /\ map[name] \in Seq(Values) /\ map[name] # << >>
       /\ \E k \in ParamsOf(document, name, n) :
            /\ \A j \in ParamsOf(document, name, n) : k <= j
            /\ map[name][1] = document[k].value

(* The names that the statement asks for.                                   *)
Asked(r) == {Lower(v) : v \in Range(r.variables)}

ParamsRead == IF phase = "params" THEN next ELSE Len(request.document) + 1

ParamsInv ==
  /\ request \in Requests
  /\ phase = "params" => next \in 1..Len(request.document) + 1
  /\ \A name \in DOMAIN params : params[name] \in Seq(Values) /\ params[name] # << >>
  /\ \A name \in Asked(request) : FirstParam(request.document, params, name, ParamsRead)

(* One more value under a name: the others stay as they are.                *)
OneMore(S, map, after, name, value) ==
  /\ DOMAIN after = DOMAIN map \cup {name}
  /\ after[name] \in Seq(S)
  /\ Len(after[name]) = Len(ValuesOf(map, name)) + 1
  /\ \A i \in 1..Len(ValuesOf(map, name)) : after[name][i] = ValuesOf(map, name)[i]
  /\ after[name][Len(ValuesOf(map, name)) + 1] = value
  /\ \A other \in DOMAIN map : other # name => after[other] = map[other]

LEMMA ValueAdded ==
  ASSUME NEW S, NEW map, NEW name, NEW value \in S, ValuesOf(map, name) \in Seq(S)
  PROVE  OneMore(S, map, WithValue(map, name, value), name, value)
<1> DEFINE before == ValuesOf(map, name)
<1>1. before \in Seq(S)
  OBVIOUS
<1>2. WithValue(map, name, value) = Put(map, name, Append(before, value))
  BY DEF WithValue
<1> HIDE DEF before
<1>3. /\ Append(before, value) \in Seq(S) /\ Len(Append(before, value)) = Len(before) + 1
      /\ \A i \in 1..Len(before) : Append(before, value)[i] = before[i]
      /\ Append(before, value)[Len(before) + 1] = value
  BY <1>1, AppendProperties
<1>4. /\ DOMAIN WithValue(map, name, value) = DOMAIN map \cup {name}
      /\ WithValue(map, name, value)[name] = Append(before, value)
      /\ \A other \in DOMAIN map : other # name => WithValue(map, name, value)[other] = map[other]
  BY <1>2 DEF Put
<1>5. QED
  BY <1>1, <1>3, <1>4 DEF before, OneMore

LEMMA FirstParamRead ==
  ASSUME NEW document \in Seq([name : STRING, value : Values \cup {Missing}]),
         NEW n \in 1..Len(document), NEW map, NEW name, FirstParam(document, map, name, n)
  PROVE  FirstParam(document,
           IF document[n].value = Missing THEN map
           ELSE WithValue(map, document[n].name, document[n].value), name, n + 1)
<1> DEFINE p == document[n]
           after == IF p.value = Missing THEN map ELSE WithValue(map, p.name, p.value)
           new == p.name = name /\ p.value # Missing
<1>1. Len(document) \in Nat /\ DOMAIN document = 1..Len(document)
  BY LenProperties
<1>2. p.value \in Values \cup {Missing}
  <2>1. p \in [name : STRING, value : Values \cup {Missing}]
    BY ElementOfSeq
  <2> HIDE DEF p
  <2>2. QED
    BY <2>1
<1>3. ParamsOf(document, name, n + 1)
        = ParamsOf(document, name, n) \cup (IF new THEN {n} ELSE {})
  BY <1>1 DEF ParamsOf
<1>4. CASE ~new
  <2>1. /\ name \in DOMAIN after <=> name \in DOMAIN map
        /\ name \in DOMAIN map => after[name] = map[name]
    BY <1>4 DEF WithValue, Put
  <2>2. ParamsOf(document, name, n + 1) = ParamsOf(document, name, n)
    BY <1>3, <1>4
  <2> HIDE DEF after
  <2>3. FirstParam(document, after, name, n + 1)
    BY <2>1, <2>2 DEF FirstParam
  <2>4. QED
    BY <2>3 DEF after
<1>5. CASE new
  <2> DEFINE before == ValuesOf(map, name)
  <2>1. name \in DOMAIN map => map[name] \in Seq(Values)
    BY DEF FirstParam
  <2> DEFINE v == p.value
             with == WithValue(map, name, v)
  <2>2. v \in Values /\ after = with
    BY <1>2, <1>5
  <2>3. before \in Seq(Values)
    BY <2>1, EmptySeq DEF ValuesOf
  <2> HIDE DEF after, p, v
  <2>4. OneMore(Values, map, with, name, v)
    BY <2>2, <2>3, ValueAdded
  <2> HIDE DEF with, before
  <2>5. /\ name \in DOMAIN after /\ before \in Seq(Values)
        /\ after[name] \in Seq(Values) /\ Len(after[name]) = Len(before) + 1
        /\ \A i \in 1..Len(before) : after[name][i] = before[i]
        /\ after[name][Len(before) + 1] = p.value
    BY <2>2, <2>4, <2>3 DEF v, before, OneMore
  <2>6. Len(before) \in Nat
    BY <2>5
  <2>7. after[name] # << >>
    BY <2>5, <2>6
  <2>8. CASE ParamsOf(document, name, n) = {}
    <3>1. before = << >>
      BY <2>8 DEF FirstParam, ValuesOf, before
    <3>2. after[name][1] = p.value
      BY <2>5, <3>1
    <3>3. ParamsOf(document, name, n + 1) = {n}
      BY <1>3, <1>5, <2>8
    <3>4. n \in ParamsOf(document, name, n + 1) /\ \A j \in ParamsOf(document, name, n + 1) : n <= j
      BY <1>1, <3>3
    <3>5. FirstParam(document, after, name, n + 1)
      BY <2>5, <2>7, <3>2, <3>4 DEF FirstParam, p
    <3>6. QED
      BY <3>5 DEF after, p
  <2>9. CASE ParamsOf(document, name, n) # {}
    <3>1. PICK k \in ParamsOf(document, name, n) :
            /\ \A j \in ParamsOf(document, name, n) : k <= j
            /\ map[name][1] = document[k].value
      BY <2>9 DEF FirstParam
    <3>2. before = map[name] /\ before # << >>
      BY <2>9 DEF FirstParam, ValuesOf, before
    <3>3. Len(before) >= 1
      BY <2>5, <3>2
    <3>4. after[name][1] = document[k].value
      BY <2>5, <2>6, <3>1, <3>2, <3>3
    <3>5. k <= n
      BY <1>1 DEF ParamsOf
    <3>6. k \in ParamsOf(document, name, n + 1) /\ \A j \in ParamsOf(document, name, n + 1) : k <= j
      BY <1>3, <3>1, <3>5
    <3>7. FirstParam(document, after, name, n + 1)
      BY <2>5, <2>7, <3>4, <3>6 DEF FirstParam
    <3>8. QED
      BY <3>7 DEF after, p
  <2>10. QED
    BY <2>8, <2>9
<1>6. QED
  BY <1>4, <1>5

(* No name is without a value.                                              *)
LEMMA ValueAddedOK ==
  ASSUME NEW map, NEW name, NEW value \in Values,
         \A n \in DOMAIN map : map[n] \in Seq(Values) /\ map[n] # << >>
  PROVE  \A n \in DOMAIN WithValue(map, name, value) :
           WithValue(map, name, value)[n] \in Seq(Values) /\ WithValue(map, name, value)[n] # << >>
<1> DEFINE after == WithValue(map, name, value)
           before == ValuesOf(map, name)
<1>1. before \in Seq(Values)
  BY EmptySeq DEF ValuesOf
<1>2. OneMore(Values, map, after, name, value)
  BY <1>1, ValueAdded
<1> HIDE DEF after, before
<1>3. Len(before) \in Nat
  BY <1>1
<1>4. after[name] \in Seq(Values) /\ Len(after[name]) # 0
  BY <1>2, <1>3 DEF OneMore, before
<1>5. after[name] # << >>
  BY <1>4
<1>6. \A n \in DOMAIN after : after[n] \in Seq(Values) /\ after[n] # << >>
  BY <1>2, <1>4, <1>5 DEF OneMore
<1>7. QED
  BY <1>6 DEF after

LEMMA ParamRead == ASSUME ParamsInv, ReadParam PROVE ParamsInv'
<1>1. /\ phase = "params" /\ phase' = phase /\ next' = next + 1 /\ request' = request
      /\ next <= Len(request.document)
      /\ params' = IF request.document[next].value = Missing THEN params
                   ELSE WithValue(params, request.document[next].name, request.document[next].value)
  BY DEF ReadParam
<1>2. /\ request.document \in Seq([name : STRING, value : Values \cup {Missing}])
      /\ next \in 1..Len(request.document) /\ Len(request.document) \in Nat
  BY <1>1, RequestOK DEF ParamsInv
<1>3. \A name \in Asked(request) : FirstParam(request.document, params', name, next + 1)
  BY <1>1, <1>2, FirstParamRead DEF ParamsInv, ParamsRead
<1>4. next' \in 1..Len(request.document) + 1
  BY <1>1, <1>2
<1>5. \A name \in DOMAIN params' : params'[name] \in Seq(Values) /\ params'[name] # << >>
  <2> DEFINE p == request.document[next]
  <2>1. p \in [name : STRING, value : Values \cup {Missing}]
    BY <1>2, ElementOfSeq
  <2>2. params' = IF p.value = Missing THEN params ELSE WithValue(params, p.name, p.value)
    BY <1>1
  <2> HIDE DEF p
  <2>3. p.value \in Values \cup {Missing}
    BY <2>1
  <2>4. \A n \in DOMAIN params : params[n] \in Seq(Values) /\ params[n] # << >>
    BY DEF ParamsInv
  <2>5. CASE p.value = Missing
    BY <2>2, <2>4, <2>5
  <2>6. CASE p.value \in Values /\ p.value # Missing
    BY <2>2, <2>4, <2>6, ValueAddedOK
  <2>7. QED
    BY <2>3, <2>5, <2>6
<1>6. QED
  BY <1>1, <1>3, <1>4, <1>5 DEF ParamsInv, ParamsRead

(* Once the document is read its parameters stay.                           *)
LEMMA ParamsKept ==
  ASSUME ParamsInv, UNCHANGED <<request, params>>,
         \/ phase' # "params" /\ (phase = "params" => next > Len(request.document))
         \/ UNCHANGED <<phase, next>>
  PROVE  ParamsInv'
<1>1. CASE UNCHANGED <<phase, next>>
  BY <1>1 DEF ParamsInv, ParamsRead
<1>2. CASE phase' # "params" /\ (phase = "params" => next > Len(request.document))
  <2>1. Len(request.document) \in Nat
    BY RequestOK DEF ParamsInv
  <2>2. phase = "params" => next = Len(request.document) + 1
    BY <1>2, <2>1 DEF ParamsInv
  <2>3. ParamsRead' = ParamsRead
    BY <1>2, <2>2 DEF ParamsRead
  <2>4. QED
    BY <1>2, <2>3 DEF ParamsInv
<1>3. QED
  BY <1>1, <1>2

-----------------------------------------------------------------------------
(* The variables: what is bound to them, what the database reads, and what  *)
(* it leaves in their buffers.                                              *)

CallInv ==
  /\ phase \in {"params", "bind", "execute"} => given = << >> /\ changed = << >>
  /\ phase \in {"params", "bind"} => binds = << >>
  /\ phase = "execute" =>
       \A v \in DOMAIN binds : v \in Range(request.variables) /\ binds[v] = Bound(Lower(v))
  /\ phase \in {"describe", "fetch", "row", "report"} =>
       /\ DOMAIN binds = Range(request.variables) /\ DOMAIN given = DOMAIN binds
       /\ DOMAIN changed \subseteq DOMAIN binds
       /\ \A v \in DOMAIN changed : changed[v] \in Effects \cup {Null}
       /\ \A v \in DOMAIN binds :
            /\ given[v] \in DatabaseReads(Bound(Lower(v)))
            /\ binds[v] = IF v \in DOMAIN changed THEN Assigned(Bound(Lower(v)), changed[v])
                          ELSE Bound(Lower(v))

(* The parameter of a variable is the one the document gives first.         *)
LEMMA GivenIsFirst ==
  ASSUME ParamsInv, phase # "params", NEW v \in Range(request.variables)
  PROVE  /\ Lower(v) \in DOMAIN params =>
              GivenFor(v) = params[Lower(v)][1] /\ params[Lower(v)][1] \in Values
         /\ Lower(v) \notin DOMAIN params => GivenFor(v) = Null
<1> DEFINE ks == ParamsOf(request.document, Lower(v), Len(request.document) + 1)
<1>1. FirstParam(request.document, params, Lower(v), Len(request.document) + 1)
  BY DEF ParamsInv, ParamsRead, Asked
<1>2. ks = ParamsFor(v)
  BY RequestOK DEF ParamsInv, ParamsOf, ParamsFor
<1>3. ks \in SUBSET Int
  BY RequestOK DEF ParamsInv, ParamsOf
<1>4. CASE ks = {}
  BY <1>1, <1>2, <1>4 DEF FirstParam, GivenFor
<1>5. CASE ks # {}
  <2>1. PICK k \in ks : /\ \A j \in ks : k <= j
                        /\ params[Lower(v)][1] = request.document[k].value
    BY <1>1, <1>5 DEF FirstParam
  <2>2. Lower(v) \in DOMAIN params
        /\ params[Lower(v)] \in Seq(Values) /\ params[Lower(v)] # << >>
    BY <1>1, <1>5 DEF FirstParam
  <2>3. params[Lower(v)][1] \in Values
    BY <2>2, EmptySeq, ElementOfSeq
  <2> HIDE DEF ks
  <2>4. Min(ks) = k
    BY <1>3, <2>1, LeastIsMin
  <2>5. QED
    BY <1>2, <1>5, <2>1, <2>2, <2>3, <2>4 DEF GivenFor
<1>6. QED
  BY <1>4, <1>5

(* A value that fits is bound and read whole.                               *)
LEMMA WholeValue ==
  ASSUME NEW value \in Values
  PROVE  /\ BoundLength(value) \in 0..Width - 1
         /\ Len(Cut(value, Width - 1)) < Width
         /\ FitsBuffer(value) =>
              /\ Cut(value, Width - 1) = value
              /\ BoundLength(value) # 0 /\ Cut(value, BoundLength(value) - 1) = value
<1>1. Len(value) \in Nat /\ value \in Seq(STRING \ {"null", "missing"})
  BY LenProperties DEF Values
<1>2. Width - 1 \in Nat
  BY QuerySQLAssumption
<1>3. BoundLength(value) \in 0..Width - 1
  BY <1>1, Remainder DEF BoundLength
<1>4. /\ Len(Cut(value, Width - 1)) \in Nat /\ Len(Cut(value, Width - 1)) <= Width - 1
      /\ Len(value) <= Width - 1 => Cut(value, Width - 1) = value
  BY <1>1, <1>2, CutShort, LenProperties
<1>5. ASSUME FitsBuffer(value)
      PROVE  /\ Cut(value, Width - 1) = value
             /\ BoundLength(value) # 0 /\ Cut(value, BoundLength(value) - 1) = value
  <2>1. Len(value) + 1 < Width
    BY <1>5 DEF FitsBuffer
  <2>2. BoundLength(value) = Len(value) + 1
    BY <1>1, <2>1, SmallRemainder DEF BoundLength
  <2>3. BoundLength(value) - 1 = Len(value)
    BY <1>1, <2>2
  <2>4. Cut(value, Len(value)) = value
    BY <1>1, CutShort
  <2>5. QED
    BY <1>1, <1>2, <1>4, <2>1, <2>2, <2>3, <2>4, QuerySQLAssumption
<1>6. QED
  BY <1>2, <1>3, <1>4, <1>5, QuerySQLAssumption

LEMMA BoundOK ==
  ASSUME ParamsInv, phase # "params", NEW v \in Range(request.variables)
  PROVE  LET b == Bound(Lower(v)) IN
         /\ b = [text |-> b.text, length |-> b.length, null |-> b.null]
         /\ b.length \in 0..Width - 1 /\ Len(b.text) < Width
         /\ b.null \in BOOLEAN /\ (b.null <=> Lower(v) \notin DOMAIN params)
         /\ b.null => b.text = << >>
         /\ ~b.null => b.text = Cut(params[Lower(v)][1], Width - 1)
<1>1. CASE Lower(v) \in DOMAIN params
  BY <1>1, GivenIsFirst, WholeValue DEF Bound
<1>2. CASE Lower(v) \notin DOMAIN params
  BY <1>2, QuerySQLAssumption DEF Bound
<1>3. QED
  BY <1>1, <1>2

(* What the database reads is what the document gives, if it fits.          *)
LEMMA ReadsGiven ==
  ASSUME ParamsInv, phase # "params", NEW v \in Range(request.variables),
         NEW g \in DatabaseReads(Bound(Lower(v))), FitsBuffer(GivenFor(v))
  PROVE  g = GivenFor(v)
<1>1. CASE Lower(v) \in DOMAIN params
  <2> DEFINE w == params[Lower(v)][1]
  <2>1. GivenFor(v) = w /\ w \in Values
    BY <1>1, GivenIsFirst
  <2>2. Bound(Lower(v)) = [text |-> Cut(w, Width - 1), length |-> BoundLength(w), null |-> FALSE]
    BY <1>1 DEF Bound
  <2> HIDE DEF w
  <2>3. Cut(w, Width - 1) = w /\ BoundLength(w) # 0 /\ Cut(w, BoundLength(w) - 1) = w
    BY <2>1, WholeValue
  <2>4. DatabaseReads(Bound(Lower(v))) = {w}
    BY <2>2, <2>3 DEF DatabaseReads
  <2>5. QED
    BY <2>1, <2>4
<1>2. CASE Lower(v) \notin DOMAIN params
  <2>1. DatabaseReads(Bound(Lower(v))) = {Null}
    BY <1>2 DEF Bound, DatabaseReads
  <2>2. QED
    BY <1>2, <2>1, GivenIsFirst
<1>3. QED
  BY <1>1, <1>2

LEMMA BindCallInv == ASSUME CallInv, Bind PROVE CallInv'
<1>1. /\ phase = "bind" /\ phase' = "execute" /\ UNCHANGED <<request, params, given, changed>>
      /\ binds' = IF Len(request.variables) > MaxVariables THEN << >>
                  ELSE [v \in Range(request.variables) |-> Bound(Lower(v))]
  BY DEF Bind
<1>2. \A v \in DOMAIN binds' : v \in Range(request.variables) /\ binds'[v] = Bound(Lower(v))
  BY <1>1
<1>3. \A v \in DOMAIN binds' : Bound(Lower(v))' = Bound(Lower(v))
  BY <1>1 DEF Bound
<1>4. QED
  BY <1>1, <1>2, <1>3 DEF CallInv

LEMMA ExecuteCallInv == ASSUME CallInv, Execute PROVE CallInv'
<1>1. /\ phase = "execute" /\ phase' = "describe" /\ UNCHANGED <<request, params>>
      /\ Range(request.variables) \subseteq DOMAIN binds
      /\ DOMAIN given' = DOMAIN binds
      /\ \A v \in DOMAIN binds : given'[v] \in DatabaseReads(binds[v])
      /\ binds' = [v \in DOMAIN binds |->
                    IF v \in DOMAIN changed' THEN Assigned(binds[v], changed'[v]) ELSE binds[v]]
  BY DEF Execute, AllBound
<1>2. DOMAIN changed' \subseteq DOMAIN binds
      /\ \A v \in DOMAIN changed' : changed'[v] \in Effects \cup {Null}
  BY DEF Execute
<1>3. \A v \in DOMAIN binds : v \in Range(request.variables) /\ binds[v] = Bound(Lower(v))
  BY <1>1 DEF CallInv
<1>4. \A v \in DOMAIN binds : Bound(Lower(v))' = Bound(Lower(v))
  BY <1>1 DEF Bound
<1>5. DOMAIN binds' = DOMAIN binds /\ DOMAIN binds = Range(request.variables)
  BY <1>1, <1>3
<1>6. \A v \in DOMAIN binds' :
        /\ given'[v] \in DatabaseReads(Bound(Lower(v))')
        /\ binds'[v] = IF v \in DOMAIN changed' THEN Assigned(Bound(Lower(v))', changed'[v])
                       ELSE Bound(Lower(v))'
  BY <1>1, <1>3, <1>4
<1>7. QED
  BY <1>1, <1>2, <1>5, <1>6 DEF CallInv

(* The other steps leave the variables alone.                               *)
LEMMA CallApart ==
  ASSUME CallInv, UNCHANGED <<request, binds, given, changed>>,
         \/ UNCHANGED params /\ phase \in {"describe", "fetch", "row", "report"}
              /\ phase' \in {"describe", "fetch", "row", "report", "told"}
         \/ phase' = "told"
         \/ phase = "params" /\ phase' \in {"params", "bind"}
         \/ UNCHANGED <<phase, params>>
  PROVE  CallInv'
<1>1. CASE UNCHANGED params
  <2>1. \A v : Bound(Lower(v))' = Bound(Lower(v))
    BY <1>1 DEF Bound
  <2>2. QED
    BY <1>1, <2>1 DEF CallInv
<1>2. CASE phase' = "told" \/ (phase = "params" /\ phase' \in {"params", "bind"})
  BY <1>2 DEF CallInv
<1>3. QED
  BY <1>1, <1>2

-----------------------------------------------------------------------------
(* What the client is told of the variables.                                *)

LEMMA PlainIsWhole == ASSUME NEW value, Plain(value) PROVE Xml(value) = value
BY DEF Plain, Xml, Range

LEMMA ReportTellsChanges ==
  ASSUME ParamsInv, CallInv, phase = "report", told'.binds = XmlBinds,
         UNCHANGED <<request, params, binds, changed>>
  PROVE  ChangesReachClient'
<1> DEFINE news == {v \in DOMAIN changed : changed[v] \notin {Null, GivenFor(v)}}
           shown == XmlBinds
<1>1. /\ DOMAIN binds = Range(request.variables) /\ DOMAIN changed \subseteq DOMAIN binds
      /\ \A v \in DOMAIN changed : changed[v] \in Effects \cup {Null}
      /\ \A v \in DOMAIN binds :
           binds[v] = IF v \in DOMAIN changed THEN Assigned(Bound(Lower(v)), changed[v])
                      ELSE Bound(Lower(v))
  BY DEF CallInv
<1>2. /\ DOMAIN shown = {v \in DOMAIN binds : ~StillAsGiven(v) /\ ~binds[v].null}
      /\ \A v \in DOMAIN shown : shown[v] = Xml(binds[v].text)
  BY DEF XmlBinds, Reported
<1>3. ASSUME NEW v \in DOMAIN changed
      PROVE  IF changed[v] = Null THEN binds[v].null
             ELSE binds[v].text = changed[v] /\ binds[v].null = FALSE
  <2>1. v \in Range(request.variables) /\ binds[v] = Assigned(Bound(Lower(v)), changed[v])
    BY <1>1
  <2>2. Bound(Lower(v)) = [text |-> Bound(Lower(v)).text, length |-> Bound(Lower(v)).length,
                           null |-> Bound(Lower(v)).null]
    BY <2>1, BoundOK
  <2>3. \A b, value : b = [text |-> b.text, length |-> b.length, null |-> b.null] =>
          IF value = Null THEN Assigned(b, value).null
          ELSE Assigned(b, value).text = value /\ Assigned(b, value).null = FALSE
    BY DEF Assigned
  <2>4. QED
    BY <2>1, <2>2, <2>3
<1>4. ASSUME NEW v \in DOMAIN binds
      PROVE  /\ StillAsGiven(v) <=> /\ Lower(v) \in DOMAIN params /\ ~binds[v].null
                                    /\ binds[v].text = GivenFor(v)
             /\ Lower(v) \notin DOMAIN params => GivenFor(v) = Null
  BY <1>1, GivenIsFirst DEF StillAsGiven, HasParameter
<1> HIDE DEF shown
<1>5. ASSUME NEW v \in news PROVE v \in DOMAIN shown /\ (Plain(changed[v]) => shown[v] = changed[v])
  <2>1. v \in DOMAIN binds /\ binds[v].text = changed[v] /\ ~binds[v].null
        /\ changed[v] # GivenFor(v)
    BY <1>1, <1>3
  <2>2. v \in DOMAIN shown /\ shown[v] = Xml(changed[v])
    BY <1>2, <1>4, <2>1
  <2>3. QED
    BY <2>2, PlainIsWhole
<1>6. ASSUME NEW v \in DOMAIN shown \ news PROVE ~FitsBuffer(GivenFor(v))
  <2>1. v \in DOMAIN binds /\ ~binds[v].null /\ ~StillAsGiven(v)
    BY <1>2
  <2>2. v \notin DOMAIN changed
    BY <1>3, <1>4, <2>1
  <2>3. binds[v] = Bound(Lower(v)) /\ v \in Range(request.variables)
    BY <1>1, <2>1, <2>2
  <2>4. Lower(v) \in DOMAIN params /\ binds[v].text = Cut(params[Lower(v)][1], Width - 1)
    BY <2>1, <2>3, BoundOK
  <2>5. params[Lower(v)][1] = GivenFor(v) /\ GivenFor(v) \in Values
    BY <2>3, <2>4, GivenIsFirst
  <2>6. QED
    BY <1>4, <2>1, <2>4, <2>5, WholeValue
<1>7. news' = news /\ \A v : GivenFor(v)' = GivenFor(v)
  BY DEF GivenFor, ParamsFor
<1>8. told'.binds = shown
  BY DEF shown
<1> HIDE DEF news
<1>9. QED
  BY <1>5, <1>6, <1>7, <1>8 DEF ChangesReachClient, news

-----------------------------------------------------------------------------
(* The rows.                                                                *)

(* The first n columns that have a name, and the rank of one of them.       *)
Namesakes(names, name, n) == {k \in 1..n : names[k] = name}

RankIn(ks, k) == Cardinality({j \in ks : j <= k})

(* The values of the first n columns of a row are under their names.        *)
Holds(names, map, values, n) ==
  /\ DOMAIN map = {names[k] : k \in 1..n}
  /\ \A name \in DOMAIN map :
       /\ map[name] \in Seq(Values)
       /\ Len(map[name]) = Cardinality(Namesakes(names, name, n))
       /\ \A k \in Namesakes(names, name, n) :
            map[name][RankIn(Namesakes(names, name, n), k)] = Fetched(values[k])

LEMMA NamesakesFinite ==
  ASSUME NEW names, NEW name, NEW n \in Nat
  PROVE  /\ IsFiniteSet(Namesakes(names, name, n))
         /\ Cardinality(Namesakes(names, name, n)) \in Nat
         /\ \A k \in Namesakes(names, name, n) :
              RankIn(Namesakes(names, name, n), k) \in 1..Cardinality(Namesakes(names, name, n))
<1> DEFINE ks == Namesakes(names, name, n)
<1>1. ks \in SUBSET (1..n) /\ IsFiniteSet(1..n)
  BY FS_Interval DEF Namesakes
<1> HIDE DEF ks
<1>2. IsFiniteSet(ks)
  BY <1>1, FS_Subset
<1>3. Cardinality(ks) \in Nat
  BY <1>2, FS_CardinalityType
<1>4. ASSUME NEW k \in ks PROVE RankIn(ks, k) \in 1..Cardinality(ks)
  <2> DEFINE js == {j \in ks : j <= k}
  <2>1. js \in SUBSET ks /\ k \in js
    BY <1>1
  <2> HIDE DEF js
  <2>2. IsFiniteSet(js) /\ Cardinality(js) \in Nat /\ Cardinality(js) <= Cardinality(ks)
    BY <1>2, <2>1, FS_Subset, FS_CardinalityType
  <2>3. Cardinality(js) # 0
    BY <2>1, <2>2, FS_EmptySet
  <2>4. Cardinality(js) \in 1..Cardinality(ks)
    BY <1>3, <2>2, <2>3
  <2>5. QED
    BY <2>4 DEF js, RankIn
<1>5. QED
  BY <1>2, <1>3, <1>4 DEF ks

(* Inserting one more column.                                               *)
LEMMA ColumnInserted ==
  ASSUME NEW names, NEW map, NEW values, NEW n \in Nat, Holds(names, map, values, n),
         Fetched(values[n + 1]) \in Values
  PROVE  Holds(names, Inserted(map, names[n + 1], Fetched(values[n + 1])), values, n + 1)
<1> DEFINE new == names[n + 1]
           value == Fetched(values[n + 1])
           after == WithValue(map, new, value)
<1>1. after = Inserted(map, new, value)
  BY DEF Inserted
<1>2. \A name : Namesakes(names, name, n + 1)
                  = Namesakes(names, name, n) \cup (IF name = new THEN {n + 1} ELSE {})
  BY DEF Namesakes
<1>3. new \notin DOMAIN map => Namesakes(names, new, n) = {}
  BY DEF Holds, Namesakes
<1>4. ValuesOf(map, new) \in Seq(Values)
      /\ Len(ValuesOf(map, new)) = Cardinality(Namesakes(names, new, n))
  <2>1. CASE new \in DOMAIN map
    BY <2>1 DEF Holds, ValuesOf
  <2>2. CASE new \notin DOMAIN map
    BY <1>3, <2>2, EmptySeq, FS_EmptySet DEF ValuesOf
  <2>3. QED
    BY <2>1, <2>2
<1> HIDE DEF new, value
<1>5. OneMore(Values, map, after, new, value)
  BY <1>4, ValueAdded DEF value
<1> HIDE DEF after
<1>6. DOMAIN after = {names[k] : k \in 1..n + 1}
  <2>1. {names[k] : k \in 1..n + 1} = {names[k] : k \in 1..n} \cup {new}
    BY DEF new
  <2>2. QED
    BY <1>5, <2>1 DEF Holds, OneMore
<1>7. ASSUME NEW name \in DOMAIN after, name # new
      PROVE  /\ after[name] \in Seq(Values)
             /\ Len(after[name]) = Cardinality(Namesakes(names, name, n + 1))
             /\ \A k \in Namesakes(names, name, n + 1) :
                  after[name][RankIn(Namesakes(names, name, n + 1), k)] = Fetched(values[k])
  <2>1. name \in DOMAIN map /\ after[name] = map[name]
    BY <1>5, <1>7 DEF OneMore
  <2>2. Namesakes(names, name, n + 1) = Namesakes(names, name, n)
    BY <1>2, <1>7
  <2>3. QED
    BY <2>1, <2>2 DEF Holds
<1>8. /\ after[new] \in Seq(Values)
      /\ Len(after[new]) = Cardinality(Namesakes(names, new, n + 1))
      /\ \A k \in Namesakes(names, new, n + 1) :
           after[new][RankIn(Namesakes(names, new, n + 1), k)] = Fetched(values[k])
  <2> DEFINE ks == Namesakes(names, new, n)
             c == Cardinality(ks)
  <2>1. /\ IsFiniteSet(ks) /\ c \in Nat
        /\ \A k \in ks : RankIn(ks, k) \in 1..c
    BY NamesakesFinite
  <2>2. Namesakes(names, new, n + 1) = ks \cup {n + 1} /\ \A k \in ks : k \in 1..n
    BY <1>2 DEF Namesakes
  <2>3. Cardinality(ks \cup {n + 1}) = c + 1
    <3>1. n + 1 \notin ks
      BY <2>2
    <3> HIDE DEF ks
    <3>2. QED
      BY <2>1, <3>1, FS_AddElement DEF c
  <2>4. RankIn(ks \cup {n + 1}, n + 1) = c + 1
    <3>1. {j \in ks \cup {n + 1} : j <= n + 1} = ks \cup {n + 1}
      BY <2>2
    <3>2. QED
      BY <2>3, <3>1 DEF RankIn
  <2>5. ASSUME NEW k \in ks PROVE RankIn(ks \cup {n + 1}, k) = RankIn(ks, k)
    <3>1. {j \in ks \cup {n + 1} : j <= k} = {j \in ks : j <= k}
      BY <2>2
    <3>2. QED
      BY <3>1 DEF RankIn
  <2>6. /\ after[new] \in Seq(Values) /\ Len(after[new]) = c + 1
        /\ \A i \in 1..c : after[new][i] = ValuesOf(map, new)[i]
        /\ after[new][c + 1] = value
    BY <1>4, <1>5 DEF OneMore
  <2>7. ASSUME NEW k \in ks PROVE ValuesOf(map, new)[RankIn(ks, k)] = Fetched(values[k])
    BY <1>3 DEF Holds, ValuesOf
  <2> HIDE DEF ks, c
  <2>8. \A k \in ks : after[new][RankIn(ks \cup {n + 1}, k)] = Fetched(values[k])
    BY <2>1, <2>5, <2>6, <2>7
  <2>9. after[new][RankIn(ks \cup {n + 1}, n + 1)] = Fetched(values[n + 1])
    BY <2>4, <2>6 DEF value
  <2>10. QED
    BY <2>2, <2>3, <2>6, <2>8, <2>9 DEF c
<1>9. Holds(names, after, values, n + 1)
  BY <1>6, <1>7, <1>8 DEF Holds
<1>10. QED
  BY <1>1, <1>9 DEF new, value

(* The rows fetched so far are the first ones of the database, and the row  *)
(* under way has the values of its first columns.                           *)
RoomsOK ==
  /\ columns \in Seq(Nat) /\ Len(columns) <= Len(request.columns)
  /\ \A k \in 1..Len(columns) : columns[k] = RoomFor(request.columns[k])

RowsOK ==
  /\ result \in Seq(Range(result)) /\ Len(result) <= Len(request.rows)
  /\ \A i \in 1..Len(result) :
       Holds(colnames, result[i], request.rows[i], Len(request.columns))

WideColumn == \E c \in Range(request.columns) : c.size = 0 \/ c.size * 6 + 1 >= Width

RowInv ==
  /\ phase # "told" => RoomsOK /\ RowsOK
  /\ phase \notin {"report", "told"} => fetch = "notYet"
  /\ phase \in {"params", "bind", "execute"} => columns = << >>
  /\ phase \in {"params", "bind", "execute", "describe"} => result = << >>
  /\ phase = "describe" => next = Len(columns) + 1
  /\ phase \in {"fetch", "row"} => next = Len(result) + 1 /\ Len(columns) = Len(request.columns)
  /\ phase = "row" =>
       /\ next <= Len(request.rows) /\ column \in 1..Len(columns) + 1
       /\ Holds(colnames, row, request.rows[next], column - 1)
  /\ phase = "report" =>
       /\ fetch \in {"notYet", "complete"} => Len(result) = Len(request.rows)
       /\ fetch = "cut" => WideColumn
       /\ fetch \in {"notYet", "complete", "cut", "failed"}

LEMMA RowApart ==
  ASSUME RowInv, UNCHANGED <<request, columns, colnames, row, column, fetch, result>>,
         \/ phase' = "told"
         \/ phase \in {"params", "bind", "execute"}
              /\ phase' \in {"params", "bind", "execute"}
         \/ phase = "execute" /\ phase' = "describe" /\ next' = 1
         \/ UNCHANGED <<phase, next>>
  PROVE  RowInv'
BY DEF RowInv, RoomsOK, RowsOK, WideColumn

LEMMA ColumnDefined == ASSUME request \in Requests, RowInv, DefineColumn PROVE RowInv'
<1>1. /\ phase = "describe" /\ phase' = phase /\ next <= Len(request.columns)
      /\ columns' = Append(columns, RoomFor(request.columns[next])) /\ next' = next + 1
      /\ UNCHANGED <<request, fetch, result>>
  BY DEF DefineColumn
<1>2. next = Len(columns) + 1 /\ RoomsOK /\ RowsOK /\ result = << >> /\ fetch = "notYet"
  BY <1>1 DEF RowInv
<1>3. columns \in Seq(Nat) /\ Len(columns) \in Nat /\ Len(request.columns) \in Nat
  BY <1>2, RequestOK, LenProperties DEF RoomsOK
<1> DEFINE room == RoomFor(request.columns[next])
<1>4. room \in Nat
  <2>0. next \in 1..Len(request.columns)
    BY <1>1, <1>2, <1>3
  <2>1. request.columns[next] \in [name : STRING, size : Nat]
    BY <2>0, RequestOK, ElementOfSeq
  <2>2. request.columns[next].size \in Nat
    BY <2>1
  <2>3. request.columns[next].size * 6 + 1 \in Nat
    BY <2>2
  <2>4. QED
    BY <2>3, Remainder DEF RoomFor
<1> HIDE DEF room
<1>5. /\ Append(columns, room) \in Seq(Nat) /\ Len(Append(columns, room)) = Len(columns) + 1
      /\ \A i \in 1..Len(columns) : Append(columns, room)[i] = columns[i]
      /\ Append(columns, room)[Len(columns) + 1] = room
  BY <1>3, <1>4, AppendProperties
<1>6. columns' = Append(columns, room)
  BY <1>1 DEF room
<1>7. RoomsOK'
  <2>1. \A k \in 1..Len(columns') : columns'[k] = RoomFor(request.columns[k])
    BY <1>2, <1>3, <1>5, <1>6 DEF RoomsOK, room
  <2>2. QED
    BY <1>1, <1>2, <1>3, <1>5, <1>6, <2>1 DEF RoomsOK
<1>8. RowsOK'
  BY <1>1, <1>2 DEF RowsOK
<1>9. next' = Len(columns') + 1
  BY <1>1, <1>2, <1>5, <1>6
<1>10. QED
  BY <1>1, <1>2, <1>7, <1>8, <1>9 DEF RowInv

LEMMA DefinedRowInv == ASSUME request \in Requests, RowInv, ColumnsDefined PROVE RowInv'
<1>1. /\ phase = "describe" /\ next > Len(request.columns) /\ next' = 1
      /\ phase' = IF columns = << >> THEN "report" ELSE "fetch"
      /\ UNCHANGED <<request, columns, colnames, fetch, result>>
  BY DEF ColumnsDefined, rowVars
<1>2. next = Len(columns) + 1 /\ RoomsOK /\ RowsOK /\ result = << >> /\ fetch = "notYet"
  BY <1>1 DEF RowInv
<1>3. Len(columns) = Len(request.columns)
  BY <1>1, <1>2, RequestOK, LenProperties DEF RoomsOK
<1>4. RoomsOK' /\ RowsOK'
  BY <1>1, <1>2 DEF RoomsOK, RowsOK
<1>5. phase' = "report" => Len(result') = Len(request'.rows)
  <2>1. columns = << >> => request.columns = << >>
    BY <1>3, RequestOK, EmptySeq
  <2>2. request.columns = << >> => request.rows = << >>
    BY RequestOK
  <2>3. QED
    BY <1>1, <1>2, <2>1, <2>2
<1>6. QED
  BY <1>1, <1>2, <1>3, <1>4, <1>5, EmptySeq DEF RowInv

LEMMA RowFetched == ASSUME request \in Requests, RowInv, FetchRow PROVE RowInv'
<1>1. /\ phase = "fetch" /\ phase' = "row" /\ next <= Len(request.rows)
      /\ row' = << >> /\ column' = 1
      /\ UNCHANGED <<request, next, columns, colnames, fetch, result>>
  BY DEF FetchRow
<1>2. RoomsOK' /\ RowsOK' /\ Len(columns) \in Nat
  BY <1>1, LenProperties DEF RowInv, RoomsOK, RowsOK
<1>3. \A names, values : Holds(names, << >>, values, 0)
  BY DEF Holds
<1>4. Holds(colnames, row', request.rows[next], column' - 1)
  <2>1. row' = << >> /\ column' - 1 = 0
    BY <1>1
  <2>2. QED
    BY <1>3, <2>1
<1>5. QED
  BY <1>1, <1>2, <1>4 DEF RowInv

LEMMA ColumnInsertedRowInv == ASSUME request \in Requests, RowInv, InsertColumn PROVE RowInv'
<1>1. /\ phase = "row" /\ phase' = phase /\ column <= Len(columns) /\ column' = column + 1
      /\ row' = Inserted(row, colnames[column], Fetched(request.rows[next][column]))
      /\ UNCHANGED <<request, next, columns, colnames, fetch, result>>
  BY DEF InsertColumn
<1>2. /\ next <= Len(request.rows) /\ column \in 1..Len(columns) + 1
      /\ Holds(colnames, row, request.rows[next], column - 1)
      /\ next = Len(result) + 1 /\ Len(columns) = Len(request.columns)
      /\ RoomsOK /\ RowsOK
  BY <1>1 DEF RowInv
<1>3. Len(columns) \in Nat /\ Len(result) \in Nat
  BY <1>2, LenProperties DEF RoomsOK, RowsOK
<1>4. column - 1 \in Nat /\ column - 1 + 1 = column /\ column' \in 1..Len(columns) + 1
  BY <1>1, <1>2, <1>3
<1>5. Fetched(request.rows[next][column]) \in Values
  <2>1. next \in 1..Len(request.rows) /\ column \in 1..Len(request.columns)
    BY <1>1, <1>2, <1>3, RequestOK
  <2>2. request.rows[next] \in Seq(Values \cup {Null}) /\ DOMAIN request.rows[next] = 1..Len(request.columns)
    BY <2>1, RequestOK, ElementOfSeq
  <2>3. request.rows[next][column] \in Values \cup {Null}
    BY <2>1, <2>2
  <2>4. << >> \in Values
    BY EmptySeq DEF Values
  <2>5. QED
    BY <2>3, <2>4 DEF Fetched
<1>6. Holds(colnames, row', request.rows[next], column - 1 + 1)
  BY <1>1, <1>2, <1>4, <1>5, ColumnInserted
<1>7. column' - 1 = column - 1 + 1
  BY <1>1, <1>4
<1>8. Holds(colnames, row', request.rows[next], column' - 1)
  BY <1>6, <1>7
<1>9. RoomsOK' /\ RowsOK'
  BY <1>1, <1>2 DEF RoomsOK, RowsOK
<1>10. QED
  BY <1>1, <1>2, <1>4, <1>8, <1>9 DEF RowInv

(* A sequence with one more element.                                        *)
LEMMA AppendRange ==
  ASSUME NEW s, s \in Seq(Range(s)), NEW e
  PROVE  /\ Append(s, e) \in Seq(Range(Append(s, e)))
         /\ Len(Append(s, e)) = Len(s) + 1
         /\ \A i \in 1..Len(s) : Append(s, e)[i] = s[i]
         /\ Append(s, e)[Len(s) + 1] = e
<1> DEFINE S == Range(s) \cup {e}
           t == Append(s, e)
<1>1. s \in Seq(S)
  BY SeqMonotonic
<1> HIDE DEF S
<1>2. e \in S
  BY DEF S
<1>3. /\ t \in Seq(S) /\ Len(t) = Len(s) + 1
      /\ \A i \in 1..Len(s) : t[i] = s[i]
      /\ t[Len(s) + 1] = e
  BY <1>1, <1>2, AppendProperties
<1> HIDE DEF t
<1>4. Len(t) \in Nat /\ DOMAIN t = 1..Len(t) /\ t \in [1..Len(t) -> S]
  BY <1>3, LenProperties
<1>5. \A i \in 1..Len(t) : t[i] \in Range(t)
  BY <1>4 DEF Range
<1>6. t \in Seq(Range(t))
  BY <1>4, <1>5
<1>7. QED
  BY <1>3, <1>6 DEF t

LEMMA RowPushed == ASSUME request \in Requests, RowInv, PushRow PROVE RowInv'
<1>1. /\ phase = "row" /\ phase' = "fetch" /\ column > Len(columns) /\ next' = next + 1
      /\ result' = Append(result, row) /\ UNCHANGED <<request, columns, colnames, fetch>>
  BY DEF PushRow
<1>2. /\ next <= Len(request.rows) /\ column \in 1..Len(columns) + 1
      /\ Holds(colnames, row, request.rows[next], column - 1)
      /\ next = Len(result) + 1 /\ Len(columns) = Len(request.columns)
      /\ RoomsOK /\ RowsOK /\ fetch = "notYet"
  BY <1>1 DEF RowInv
<1>3. Len(columns) \in Nat /\ Len(result) \in Nat /\ Len(request.rows) \in Nat
  BY <1>2, LenProperties, RequestOK DEF RoomsOK, RowsOK
<1>4. column - 1 = Len(request.columns)
  BY <1>1, <1>2, <1>3
<1>5. Holds(colnames, row, request.rows[Len(result) + 1], Len(request.columns))
  BY <1>2, <1>4
<1>6. /\ result' \in Seq(Range(result')) /\ Len(result') = Len(result) + 1
      /\ \A i \in 1..Len(result) : result'[i] = result[i]
      /\ result'[Len(result) + 1] = row
  BY <1>1, <1>2, AppendRange DEF RowsOK
<1>7. \A i \in 1..Len(result') :
        Holds(colnames, result'[i], request.rows[i], Len(request.columns))
  <2> SUFFICES ASSUME NEW i \in 1..Len(result')
               PROVE  Holds(colnames, result'[i], request.rows[i], Len(request.columns))
    OBVIOUS
  <2>1. i \in 1..Len(result) \/ i = Len(result) + 1
    BY <1>3, <1>6
  <2>2. QED
    BY <1>2, <1>5, <1>6, <2>1 DEF RowsOK
<1>8. RowsOK' /\ RoomsOK'
  BY <1>1, <1>2, <1>3, <1>6, <1>7 DEF RowsOK, RoomsOK
<1>9. next' = Len(result') + 1
  BY <1>1, <1>2, <1>6
<1>10. QED
  BY <1>1, <1>2, <1>8, <1>9 DEF RowInv

(* A value that does not fit belongs to a column that is too wide for the   *)
(* size of its buffer, or to one without a size.                            *)
LEMMA CutNeedsWideColumn ==
  ASSUME request \in Requests, RoomsOK, Len(columns) = Len(request.columns),
         NEW i \in 1..Len(request.rows), ~Fits(request.rows[i])
  PROVE  WideColumn
<1>1. DOMAIN columns = 1..Len(request.columns)
  BY LenProperties DEF RoomsOK
<1>2. PICK k \in 1..Len(request.columns) :
        request.rows[i][k] # Null /\ ~(Len(request.rows[i][k]) < columns[k])
  BY <1>1 DEF Fits
<1> DEFINE c == request.columns[k]
           l == Len(request.rows[i][k])
<1>3. c \in [name : STRING, size : Nat]
  BY RequestOK, ElementOfSeq
<1>4. c \in Range(request.columns)
  BY RequestOK DEF Range
<1>5. c.size # 0 => l <= c.size * 6
  BY <1>2, RequestOK
<1>6. l \in Nat
  <2>1. request.rows[i] \in Seq(Values \cup {Null})
    BY RequestOK, ElementOfSeq
  <2>2. k \in 1..Len(request.rows[i])
    BY <2>1, RequestOK, LenProperties
  <2>3. request.rows[i][k] \in Values
    BY <1>2, <2>1, <2>2, ElementOfSeq
  <2>4. QED
    BY <2>3, LenProperties DEF Values
<1>7. ~(l < columns[k]) /\ columns[k] = RoomFor(c)
  BY <1>2 DEF RoomsOK
<1>8. c.size \in Nat /\ c.size * 6 + 1 \in Nat
  BY <1>3
<1> HIDE DEF l, c
<1>9. ASSUME c.size # 0, c.size * 6 + 1 < Width PROVE FALSE
  <2>1. RoomFor(c) = c.size * 6 + 1
    BY <1>8, <1>9, SmallRemainder DEF RoomFor
  <2>2. QED
    BY <1>5, <1>6, <1>7, <1>8, <1>9, <2>1
<1>10. QED
  BY <1>4, <1>8, <1>9, QuerySQLAssumption DEF WideColumn

LEMMA FetchEnded == ASSUME request \in Requests, RowInv, FetchEnds PROVE RowInv'
<1>1. /\ phase = "fetch" /\ phase' = "report"
      /\ fetch' = IF next > Len(request.rows) THEN "complete"
                  ELSE IF ~Fits(request.rows[next]) THEN "cut" ELSE "failed"
      /\ UNCHANGED <<request, next, columns, colnames, result>>
  BY DEF FetchEnds
<1>2. /\ next = Len(result) + 1 /\ Len(columns) = Len(request.columns)
      /\ RoomsOK /\ RowsOK
  BY <1>1 DEF RowInv
<1>3. Len(result) \in Nat /\ Len(request.rows) \in Nat /\ Len(result) <= Len(request.rows)
  BY <1>2, LenProperties, RequestOK DEF RowsOK
<1>4. fetch' = "complete" => Len(result') = Len(request'.rows)
  BY <1>1, <1>2, <1>3
<1>5. fetch' = "cut" => WideColumn
  <2>1. CASE next > Len(request.rows)
    BY <1>1, <2>1
  <2>2. CASE ~(next > Len(request.rows)) /\ ~Fits(request.rows[next])
    BY <1>2, <1>3, <2>2, CutNeedsWideColumn
  <2>3. CASE ~(next > Len(request.rows)) /\ Fits(request.rows[next])
    BY <1>1, <2>3
  <2>4. QED
    BY <2>1, <2>2, <2>3
<1>6. RoomsOK' /\ RowsOK' /\ WideColumn' = WideColumn
  BY <1>1, <1>2 DEF RoomsOK, RowsOK, WideColumn
<1>7. QED
  BY <1>1, <1>4, <1>5, <1>6 DEF RowInv

-----------------------------------------------------------------------------
(* What the client is told of the rows.                                     *)

LEMMA RowShown ==
  ASSUME NEW map, NEW values, request \in Requests,
         Holds(colnames, map, values, Len(request.columns)),
         PlainRow(values), DOMAIN values = DOMAIN request.columns
  PROVE  ShowsRow(XmlRow(map), values)
<1> DEFINE shown == XmlRow(map)
           ks(name) == Namesakes(colnames, name, Len(request.columns))
<1>1. DOMAIN request.columns = 1..Len(request.columns) /\ Len(request.columns) \in Nat
  BY RequestOK
<1>2. \A name : ks(name) = {k \in DOMAIN request.columns : colnames[k] = name}
  BY <1>1 DEF Namesakes
<1>3. DOMAIN shown = DOMAIN map
      /\ DOMAIN shown = {colnames[k] : k \in DOMAIN request.columns}
  BY <1>1 DEF XmlRow, Holds
<1>4. ASSUME NEW name \in DOMAIN shown
      PROVE  /\ Len(shown[name]) = Cardinality(ks(name))
             /\ \A k \in ks(name) :
                  shown[name][RankIn(ks(name), k)] =
                    IF values[k] = Null THEN << >> ELSE values[k]
  <2>1. /\ map[name] \in Seq(Values) /\ Len(map[name]) = Cardinality(ks(name))
        /\ \A k \in ks(name) : map[name][RankIn(ks(name), k)] = Fetched(values[k])
    BY <1>3 DEF Holds
  <2>2. DOMAIN map[name] = 1..Len(map[name]) /\ Len(map[name]) \in Nat
    BY <2>1, LenProperties
  <2>3. shown[name] = [j \in 1..Len(map[name]) |-> Xml(map[name][j])]
    BY <1>3, <2>2 DEF XmlRow
  <2>4. ASSUME NEW k \in ks(name)
        PROVE  shown[name][RankIn(ks(name), k)] = IF values[k] = Null THEN << >> ELSE values[k]
    <3>1. RankIn(ks(name), k) \in 1..Len(map[name])
      BY <1>1, <2>1, NamesakesFinite
    <3>2. shown[name][RankIn(ks(name), k)] = Xml(Fetched(values[k]))
      BY <2>1, <2>3, <3>1
    <3>3. Plain(values[k])
      BY <1>1, <1>2 DEF PlainRow
    <3>4. Plain(<< >>)
      BY DEF Plain, Range
    <3>5. QED
      BY <3>2, <3>3, <3>4, PlainIsWhole DEF Fetched
  <2>5. Len(shown[name]) = Cardinality(ks(name))
    BY <2>1, <2>2, <2>3
  <2>6. QED
    BY <2>4, <2>5
<1>5. ASSUME NEW name \in DOMAIN shown,
             NEW qs, qs = {k \in DOMAIN request.columns : colnames[k] = name}
      PROVE  /\ Len(shown[name]) = Cardinality(qs)
             /\ \A k \in qs :
                  shown[name][Cardinality({j \in qs : j <= k})] =
                    IF values[k] = Null THEN << >> ELSE values[k]
  <2>1. qs = ks(name)
    BY <1>2, <1>5
  <2>2. QED
    BY <1>4, <2>1 DEF RankIn
<1> HIDE DEF shown
<1>6. ShowsRow(shown, values)
  BY <1>3, <1>5 DEF ShowsRow
<1>7. QED
  BY <1>6 DEF shown

LEMMA ReportTellsRows ==
  ASSUME request \in Requests, RowInv, phase = "report",
         told'.rows = [k \in DOMAIN result |-> XmlRow(result[k])],
         UNCHANGED <<request, colnames, fetch>>
  PROVE  RowsReachClient'
<1> DEFINE rows == [k \in DOMAIN result |-> XmlRow(result[k])]
<1>1. /\ RowsOK
      /\ fetch \in {"notYet", "complete"} => Len(result) = Len(request.rows)
      /\ fetch = "cut" => WideColumn
      /\ fetch \in {"notYet", "complete", "cut", "failed"}
  BY DEF RowInv
<1>2. DOMAIN result = 1..Len(result) /\ Len(result) \in Nat
      /\ Len(result) <= Len(request.rows)
  BY <1>1, LenProperties DEF RowsOK
<1>3. Len(rows) = Len(result) /\ DOMAIN rows = 1..Len(result)
  BY <1>2
<1>4. ASSUME NEW k \in DOMAIN rows, PlainRow(request.rows[k])
      PROVE  ShowsRow(rows[k], request.rows[k])
  <2>1. rows[k] = XmlRow(result[k]) /\ k \in 1..Len(result) /\ k \in 1..Len(request.rows)
    BY <1>2, <1>3, RequestOK
  <2>2. Holds(colnames, result[k], request.rows[k], Len(request.columns))
    BY <1>1, <2>1 DEF RowsOK
  <2>3. DOMAIN request.rows[k] = DOMAIN request.columns
    BY <2>1, RequestOK
  <2>4. QED
    BY <1>4, <2>1, <2>2, <2>3, RowShown
<1> HIDE DEF rows
<1>5. told'.rows = rows /\ fetch' = fetch /\ request' = request /\ colnames' = colnames
  BY DEF rows
<1>6. \A shown, values : ShowsRow(shown, values)' <=> ShowsRow(shown, values)
  BY DEF ShowsRow
<1>7. /\ Len(rows) <= Len(request.rows)
      /\ fetch \notin {"noConnection", "failed", "cut", "givenUp"} =>
           Len(rows) = Len(request.rows)
  BY <1>1, <1>2, <1>3
<1>8. QED
  BY <1>1, <1>4, <1>5, <1>6, <1>7 DEF RowsReachClient, WideColumn, PlainRow, Plain

-----------------------------------------------------------------------------
(* The invariant.                                                           *)

KeptTyped ==
  kept \in [handles : SUBSET {"statement", "error"}, buffers : SUBSET Range(request.variables),
            defs : Nat, indps : Nat]

SQLInv ==
  /\ ParamsInv /\ CallInv /\ RowInv
  /\ told.as = "result" => phase = "told"

LEMMA InitSQLInv == Init => SQLInv /\ TypeOK /\ RowsReachClient /\ ChangesReachClient
<1> SUFFICES ASSUME Init PROVE SQLInv /\ TypeOK /\ RowsReachClient /\ ChangesReachClient
  OBVIOUS
<1>1. /\ request \in Requests /\ phase = "params" /\ next = 1 /\ params = << >>
      /\ binds = << >> /\ given = << >> /\ changed = << >> /\ columns = << >>
      /\ fetch = "notYet" /\ result = << >> /\ kept = Nothing /\ told.as = "nothing" /\ column = 1
  BY DEF Init
<1>2. \A name : ParamsOf(request.document, name, 1) = {}
  BY <1>1, RequestOK DEF ParamsOf
<1>3. ParamsInv
  BY <1>1, <1>2, RequestOK DEF ParamsInv, ParamsRead, FirstParam
<1>4. CallInv
  BY <1>1 DEF CallInv
<1>5. RowInv
  BY <1>1, RequestOK DEF RowInv, RoomsOK, RowsOK
<1>6. TypeOK
  BY <1>1 DEF TypeOK, Nothing
<1>7. QED
  BY <1>1, <1>3, <1>4, <1>5, <1>6 DEF SQLInv, RowsReachClient, ChangesReachClient

(* The empty result tells of no row and of no variable.                     *)
LEMMA NothingTold ==
  ASSUME told' = EmptyResult, request' \in Requests, fetch' \in {"noConnection", "givenUp"},
         changed' = << >> \/ fetch' = "givenUp"
  PROVE  RowsReachClient' /\ ChangesReachClient'
<1>1. told'.rows = << >> /\ told'.binds = << >>
  BY DEF EmptyResult
<1>2. RowsReachClient'
  <2>1. request'.rows \in Seq(Seq(Values \cup {Null}))
    BY RequestsAssumption
  <2>2. QED
    BY <1>1, <2>1 DEF RowsReachClient
<1>3. ChangesReachClient'
  BY <1>1 DEF ChangesReachClient
<1>4. QED
  BY <1>2, <1>3

(* What a procedure leaves in a variable fits its buffer.                   *)
LEMMA AssignedOK ==
  ASSUME NEW b, b = [text |-> b.text, length |-> b.length, null |-> b.null],
         b.length \in 0..Width - 1, Len(b.text) < Width,
         NEW value \in Effects \cup {Null}
  PROVE  Assigned(b, value).length \in 0..Width - 1 /\ Len(Assigned(b, value).text) < Width
<1>1. CASE value = Null
  BY <1>1 DEF Assigned
<1>2. CASE value # Null
  <2>1. value \in Values /\ Len(value) < Width
    BY <1>2, RequestsAssumption
  <2>2. BoundLength(value) \in 0..Width - 1
    BY <2>1, WholeValue
  <2>3. Assigned(b, value) = [b EXCEPT !.text = value, !.length = BoundLength(value), !.null = FALSE]
    BY <1>2 DEF Assigned
  <2>4. Assigned(b, value).length = BoundLength(value) /\ Assigned(b, value).text = value
    BY <2>3
  <2>5. QED
    BY <2>1, <2>2, <2>4
<1>3. QED
  BY <1>1, <1>2

LEMMA ExecuteTypes ==
  ASSUME ParamsInv, CallInv, Execute
  PROVE  /\ \A v \in DOMAIN binds' :
              binds'[v].length \in 0..Width - 1 /\ Len(binds'[v].text) < Width
         /\ DOMAIN given' \subseteq DOMAIN binds' /\ DOMAIN changed' \subseteq DOMAIN binds'
<1>1. /\ phase = "execute"
      /\ DOMAIN given' = DOMAIN binds
      /\ binds' = [v \in DOMAIN binds |->
                    IF v \in DOMAIN changed' THEN Assigned(binds[v], changed'[v]) ELSE binds[v]]
  BY DEF Execute
<1>2. DOMAIN changed' \subseteq DOMAIN binds
      /\ \A v \in DOMAIN changed' : changed'[v] \in Effects \cup {Null}
  BY DEF Execute
<1>3. \A v \in DOMAIN binds : v \in Range(request.variables) /\ binds[v] = Bound(Lower(v))
  BY <1>1 DEF CallInv
<1>4. ASSUME NEW v \in DOMAIN binds
      PROVE  binds'[v].length \in 0..Width - 1 /\ Len(binds'[v].text) < Width
  <2>1. /\ binds[v] = [text |-> binds[v].text, length |-> binds[v].length, null |-> binds[v].null]
        /\ binds[v].length \in 0..Width - 1 /\ Len(binds[v].text) < Width
    BY <1>1, <1>3, BoundOK
  <2>2. CASE v \in DOMAIN changed'
    BY <1>1, <1>2, <2>1, <2>2, AssignedOK
  <2>3. CASE v \notin DOMAIN changed'
    BY <1>1, <2>1, <2>3
  <2>4. QED
    BY <2>2, <2>3
<1>5. QED
  BY <1>1, <1>2, <1>4

(* The steps that leave the parameters, the variables and the columns.      *)
LEMMA TypesApart ==
  ASSUME TypeOK, UNCHANGED <<params, binds, given, changed, columns>>,
         phase' \in {"params", "bind", "execute", "describe", "fetch", "row", "report", "told"},
         next' = next \/ next' = next + 1 \/ next' = 1,
         column' = column \/ column' = column + 1 \/ column' = 1, KeptTyped',
         fetch' \in {"complete", "cut", "failed", "givenUp", "noConnection"} \/ fetch' = fetch,
         told'.as \in {"error", "result"} \/ told' = told
  PROVE  TypeOK'
BY DEF TypeOK, KeptTyped

LEMMA TypesKept == ASSUME SQLInv, KeptTyped', TypeOK, [Next]_vars PROVE TypeOK'
<1> USE DEF TypeOK, KeptTyped
<1>1. CASE ReadParam
  <2>1. /\ phase' = phase /\ next' = next + 1
        /\ UNCHANGED <<binds, given, changed, columns, column, fetch, told>>
    BY <1>1 DEF ReadParam, callVars, rowVars
  <2>2. \A n \in DOMAIN params' : params'[n] # << >>
    BY <1>1, ParamRead DEF SQLInv, ParamsInv
  <2>3. QED
    BY <2>1, <2>2
<1>2. CASE NoConnection \/ CreateStatement \/ CreateFails \/ ExecuteFails
  <2>1. CASE NoConnection \/ CreateStatement
    BY <2>1, TypesApart DEF NoConnection, CreateStatement, EmptyResult, callVars, rowVars
  <2>2. CASE CreateFails \/ ExecuteFails
    BY <2>2, TypesApart DEF CreateFails, ExecuteFails, ToldError, callVars, rowVars
  <2>3. QED
    BY <1>2, <2>1, <2>2
<1>3. CASE Bind
  <2>1. /\ phase = "bind" /\ phase' = "execute"
        /\ UNCHANGED <<next, params, given, changed, columns, column, fetch, told>>
    BY <1>3 DEF Bind, rowVars
  <2>2. /\ given' = << >> /\ changed' = << >>
        /\ \A v \in DOMAIN binds' : v \in Range(request.variables) /\ binds'[v] = Bound(Lower(v))
    BY <1>3, <2>1 DEF Bind, SQLInv, CallInv
  <2>3. \A v \in DOMAIN binds' :
          binds'[v].length \in 0..Width - 1 /\ Len(binds'[v].text) < Width
    BY <2>1, <2>2, BoundOK DEF SQLInv
  <2>4. QED
    BY <2>1, <2>2, <2>3
<1>4. CASE Execute
  <2>1. phase' = "describe" /\ next' = 1
        /\ UNCHANGED <<params, columns, column, fetch, told>>
    BY <1>4 DEF Execute, rowVars
  <2>2. QED
    BY <1>4, <2>1, ExecuteTypes DEF SQLInv
<1>5. CASE DefineColumn
  <2>1. /\ columns' = Append(columns, RoomFor(request.columns[next])) /\ next' = next + 1
        /\ phase' = phase
        /\ UNCHANGED <<params, binds, given, changed, column, fetch, told>>
    BY <1>5 DEF DefineColumn, callVars
  <2>2. RoomsOK'
    BY <1>5, ColumnDefined DEF SQLInv, ParamsInv, RowInv, DefineColumn
  <2>3. request' = request /\ request \in Requests
    BY <1>5 DEF DefineColumn, SQLInv, ParamsInv
  <2>4. ASSUME NEW k \in DOMAIN columns' PROVE columns'[k] \in 0..Width - 1
    <3>1. k \in 1..Len(columns') /\ Len(columns') <= Len(request.columns)
          /\ Len(columns') \in Nat
      BY <2>2, <2>3, LenProperties DEF RoomsOK
    <3>2. k \in 1..Len(request.columns) /\ columns'[k] = RoomFor(request.columns[k])
      <4>1. Len(request.columns) \in Nat
        BY <2>3, RequestOK
      <4>2. \A j \in 1..Len(columns') : columns'[j] = RoomFor(request.columns[j])
        BY <2>2, <2>3 DEF RoomsOK
      <4>3. QED
        BY <3>1, <4>1, <4>2
    <3>3. request.columns[k] \in [name : STRING, size : Nat]
      BY <2>3, <3>2, RequestOK, ElementOfSeq
    <3>4. request.columns[k].size * 6 + 1 \in Nat
      BY <3>3
    <3>5. QED
      BY <3>2, <3>4, Remainder DEF RoomFor
  <2>5. QED
    BY <2>1, <2>4
<1>6. CASE DefineFails \/ DefineInforms \/ ColumnsDefined
  <2>1. CASE DefineFails \/ DefineInforms
    BY <2>1, TypesApart DEF DefineFails, DefineInforms, ToldError, EmptyResult, callVars, rowVars
  <2>2. CASE ColumnsDefined
    BY <2>2, TypesApart DEF ColumnsDefined, callVars, rowVars
  <2>3. QED
    BY <1>6, <2>1, <2>2
<1>7. CASE FetchRow \/ InsertColumn \/ PushRow \/ FetchEnds
  BY <1>7, TypesApart DEF FetchRow, InsertColumn, PushRow, FetchEnds, callVars
<1>8. CASE Report \/ TerminateFails
  <2>1. CASE Report
    BY <2>1, TypesApart DEF Report, callVars, rowVars
  <2>2. CASE TerminateFails
    BY <2>2, TypesApart DEF TerminateFails, ToldError, callVars, rowVars
  <2>3. QED
    BY <1>8, <2>1, <2>2
<1>9. CASE UNCHANGED vars
  BY <1>9 DEF vars, callVars, rowVars
<1>10. QED
  BY <1>1, <1>2, <1>3, <1>4, <1>5, <1>6, <1>7, <1>8, <1>9 DEF Next, Define

(* Steps that tell the client nothing leave what it was told.               *)
LEMMA NothingNewTold ==
  ASSUME SQLInv, phase # "told", told' = told \/ ToldError
  PROVE  told'.as # "result" /\ RowsReachClient' /\ ChangesReachClient'
<1>1. told'.as # "result"
  BY DEF SQLInv, ToldError
<1>2. QED
  BY <1>1 DEF RowsReachClient, ChangesReachClient

(* The properties of the answer are established by the step that gives it.  *)
LEMMA StepSQLInv ==
  ASSUME SQLInv, RowsReachClient, ChangesReachClient, [Next]_vars
  PROVE  (SQLInv /\ RowsReachClient /\ ChangesReachClient)'
<1>0. request \in Requests /\ (told.as = "result" => phase = "told")
  BY DEF SQLInv, ParamsInv
<1> USE DEF SQLInv
<1>1. CASE ReadParam
  <2>1. /\ phase = "params" /\ phase' = phase /\ told' = told
        /\ UNCHANGED <<request, binds, given, changed, columns, colnames, row, column, fetch, result>>
    BY <1>1 DEF ReadParam, callVars, rowVars
  <2>2. ParamsInv'
    BY <1>1, ParamRead
  <2>3. CallInv'
    BY <2>1, CallApart
  <2>4. RowInv'
    BY <2>1, RowApart
  <2>5. QED
    BY <1>0, <2>1, <2>2, <2>3, <2>4, NothingNewTold
<1>2. CASE NoConnection
  <2>1. /\ phase = "params" /\ next > Len(request.document) /\ phase' = "told"
        /\ told' = EmptyResult
        /\ UNCHANGED <<request, params, binds, given, changed>> /\ fetch' = "noConnection"
    BY <1>2 DEF NoConnection, Begins, callVars
  <2>2. ParamsInv' /\ CallInv' /\ RowInv'
    BY <2>1, ParamsKept, CallApart DEF RowInv
  <2>3. changed' = << >> /\ request' \in Requests
    BY <1>0, <2>1 DEF CallInv
  <2>4. QED
    BY <2>1, <2>2, <2>3, NothingTold
<1>3. CASE CreateStatement
  <2>1. /\ phase = "params" /\ next > Len(request.document) /\ phase' = "bind" /\ told' = told
        /\ UNCHANGED <<request, params, binds, given, changed, columns, colnames, row, column, fetch, result>>
    BY <1>3 DEF CreateStatement, Begins, callVars, rowVars
  <2>2. ParamsInv' /\ CallInv' /\ RowInv'
    BY <2>1, ParamsKept, CallApart, RowApart
  <2>3. QED
    BY <1>0, <2>1, <2>2, NothingNewTold
<1>4. CASE CreateFails \/ ExecuteFails \/ DefineFails \/ TerminateFails
  <2>1. /\ ToldError /\ phase' = "told" /\ phase # "told"
        /\ phase = "params" => next > Len(request.document)
        /\ UNCHANGED <<request, params, binds, given, changed, columns, colnames, row, column, fetch, result>>
    BY <1>4 DEF CreateFails, ExecuteFails, DefineFails, TerminateFails, Begins, ToldError,
      callVars, rowVars
  <2>2. ParamsInv' /\ CallInv' /\ RowInv'
    BY <2>1, ParamsKept, CallApart, RowApart
  <2>3. QED
    BY <2>1, <2>2, NothingNewTold
<1>5. CASE Bind
  <2>1. /\ phase = "bind" /\ phase' = "execute" /\ told' = told
        /\ UNCHANGED <<request, params, columns, colnames, row, column, fetch, result>>
    BY <1>5 DEF Bind, rowVars
  <2>2. ParamsInv' /\ CallInv' /\ RowInv'
    BY <1>5, <2>1, ParamsKept, BindCallInv, RowApart
  <2>3. QED
    BY <1>0, <2>1, <2>2, NothingNewTold
<1>6. CASE Execute
  <2>1. /\ phase = "execute" /\ phase' = "describe" /\ next' = 1 /\ told' = told
        /\ UNCHANGED <<request, params, columns, colnames, row, column, fetch, result>>
    BY <1>6 DEF Execute, rowVars
  <2>2. ParamsInv' /\ CallInv' /\ RowInv'
    BY <1>6, <2>1, ParamsKept, ExecuteCallInv, RowApart
  <2>3. QED
    BY <1>0, <2>1, <2>2, NothingNewTold
<1>7. CASE DefineColumn \/ ColumnsDefined \/ FetchRow \/ InsertColumn \/ PushRow \/ FetchEnds
  <2>1. /\ phase \in {"describe", "fetch", "row"}
        /\ phase' \in {"describe", "fetch", "row", "report"}
        /\ told' = told
        /\ UNCHANGED <<request, params, binds, given, changed>>
    BY <1>7 DEF DefineColumn, ColumnsDefined, FetchRow, InsertColumn, PushRow, FetchEnds,
      callVars, rowVars
  <2>2. ParamsInv' /\ CallInv'
    BY <2>1, ParamsKept, CallApart
  <2>3. RowInv'
    BY <1>0, <1>7, ColumnDefined, DefinedRowInv, RowFetched, ColumnInsertedRowInv, RowPushed,
      FetchEnded
  <2>4. QED
    BY <1>0, <2>1, <2>2, <2>3, NothingNewTold
<1>8. CASE DefineInforms
  <2>1. /\ phase = "describe" /\ phase' = "told" /\ told' = EmptyResult /\ fetch' = "givenUp"
        /\ UNCHANGED <<request, params, binds, given, changed>>
    BY <1>8 DEF DefineInforms, callVars
  <2>2. ParamsInv' /\ CallInv' /\ RowInv'
    BY <2>1, ParamsKept, CallApart DEF RowInv
  <2>3. QED
    BY <1>0, <2>1, <2>2, NothingTold
<1>9. CASE Report
  <2>1. /\ phase = "report" /\ phase' = "told"
        /\ told'.rows = [k \in DOMAIN result |-> XmlRow(result[k])] /\ told'.binds = XmlBinds
        /\ UNCHANGED <<request, params, binds, given, changed, columns, colnames, row, column, fetch, result>>
    BY <1>9 DEF Report, callVars, rowVars
  <2>2. ParamsInv' /\ CallInv' /\ RowInv'
    BY <2>1, ParamsKept, CallApart, RowApart
  <2>3. RowsReachClient' /\ ChangesReachClient'
    BY <1>0, <2>1, ReportTellsRows, ReportTellsChanges
  <2>4. QED
    BY <2>1, <2>2, <2>3
<1>10. CASE UNCHANGED vars
  <2>1. UNCHANGED <<phase, next, request, params, binds, given, changed, columns, colnames, row,
                    column, fetch, result, told>>
    BY <1>10 DEF vars, callVars, rowVars
  <2>2. ParamsInv' /\ CallInv' /\ RowInv'
    BY <2>1, ParamsKept, CallApart, RowApart
  <2>3. RowsReachClient' /\ ChangesReachClient'
    <3>1. \A shown, values : ShowsRow(shown, values)' <=> ShowsRow(shown, values)
      BY <2>1 DEF ShowsRow
    <3>2. \A v : GivenFor(v)' = GivenFor(v)
      BY <2>1 DEF GivenFor, ParamsFor
    <3>3. RowsReachClient'
      BY <2>1, <3>1 DEF RowsReachClient, PlainRow, Plain
    <3>4. ChangesReachClient'
      BY <2>1, <3>2 DEF ChangesReachClient
    <3>5. QED
      BY <3>3, <3>4
  <2>4. QED
    BY <1>0, <2>1, <2>2, <2>3
<1>11. QED
  BY <1>1, <1>2, <1>3, <1>4, <1>5, <1>6, <1>7, <1>8, <1>9, <1>10 DEF Next, Define

(* What is allocated, step by step: the handles first, a buffer for each    *)
(* variable that is bound, a value and an indicator for each column.        *)
KeptAre(handles, buffers, n) ==
  kept = [handles |-> handles, buffers |-> buffers, defs |-> n, indps |-> n]

BothHandles == {"statement", "error"}

KeptInv ==
  /\ KeptTyped
  /\ phase = "params" => kept = Nothing
  /\ phase = "bind" => KeptAre(BothHandles, {}, 0)
  /\ phase = "execute" => KeptAre(BothHandles, DOMAIN binds, 0)
  /\ phase \in {"describe", "fetch", "row", "report"} =>
       KeptAre(BothHandles, DOMAIN binds, Len(columns))
  /\ phase = "told" /\ kept # Nothing => told.as = "error" \/ fetch = "givenUp"

LEMMA InitKeptInv == Init => KeptInv
BY DEF Init, KeptInv, KeptTyped, Nothing

(* One column more; and the clean-up takes away what there is.              *)
LEMMA ColumnKept ==
  ASSUME KeptTyped
  PROVE  /\ OneColumnMore = [handles |-> kept.handles, buffers |-> kept.buffers,
                             defs |-> kept.defs + 1, indps |-> kept.indps + 1]
         /\ OneColumnMore \in [handles : SUBSET BothHandles, buffers : SUBSET Range(request.variables),
                               defs : Nat, indps : Nat]
<1>1. /\ kept.handles \in SUBSET BothHandles /\ kept.buffers \in SUBSET Range(request.variables)
      /\ kept.defs \in Nat /\ kept.indps \in Nat
      /\ kept = [handles |-> kept.handles, buffers |-> kept.buffers, defs |-> kept.defs,
                 indps |-> kept.indps]
  BY DEF KeptTyped, BothHandles
<1>2. OneColumnMore = [handles |-> kept.handles, buffers |-> kept.buffers,
                       defs |-> kept.defs + 1, indps |-> kept.indps + 1]
  BY DEF OneColumnMore
<1>3. kept.defs + 1 \in Nat /\ kept.indps + 1 \in Nat
  BY <1>1
<1>4. QED
  BY <1>1, <1>2, <1>3

LEMMA AllDeleted ==
  ASSUME NEW vs, NEW n \in Nat, KeptAre(BothHandles, vs, n), vs = DOMAIN binds, n = Len(columns)
  PROVE  CleanedUp = Nothing
<1>1. /\ kept.handles = BothHandles /\ kept.buffers = DOMAIN binds
      /\ kept.defs = n /\ kept.indps = n
  BY DEF KeptAre
<1>2. /\ kept.handles \ {"error", "statement"} = {} /\ kept.buffers \ DOMAIN binds = {}
  BY <1>1 DEF BothHandles
<1>3. kept.defs - Len(columns) = 0 /\ kept.indps - Len(columns) = 0
  BY <1>1
<1>4. QED
  BY <1>2, <1>3 DEF CleanedUp, Deleted, Nothing

LEMMA StepKeptInv ==
  ASSUME SQLInv, KeptInv, SQLInv', [Next]_vars
  PROVE  KeptInv'
<1> USE DEF KeptInv, KeptTyped, KeptAre, BothHandles, Nothing
<1>1. CASE ReadParam
  BY <1>1 DEF ReadParam
<1>2. CASE NoConnection \/ CreateStatement \/ CreateFails
  BY <1>2 DEF NoConnection, CreateStatement, CreateFails, Begins, ToldError, EmptyResult
<1>3. CASE Bind
  <2>1. /\ phase = "bind" /\ phase' = "execute" /\ kept' = [kept EXCEPT !.buffers = DOMAIN binds']
        /\ request' = request
    BY <1>3 DEF Bind
  <2>2. DOMAIN binds' \subseteq Range(request.variables)
    BY <2>1 DEF SQLInv, CallInv
  <2>3. QED
    BY <2>1, <2>2
<1>4. CASE Execute
  <2>1. /\ phase = "execute" /\ phase' = "describe" /\ DOMAIN binds' = DOMAIN binds
        /\ UNCHANGED <<kept, request, columns>>
    BY <1>4 DEF Execute, rowVars
  <2>2. Len(columns) = 0
    BY <2>1 DEF SQLInv, RowInv
  <2>3. QED
    BY <2>1, <2>2
<1>5. CASE ExecuteFails \/ TerminateFails
  <2>1. ToldError /\ request' = request /\ kept'.handles \in SUBSET {"statement", "error"}
        /\ kept' = [kept EXCEPT !.handles = kept'.handles]
    BY <1>5 DEF ExecuteFails, TerminateFails
  <2>2. QED
    BY <2>1 DEF ToldError
<1>6. CASE DefineFails
  <2>1. ToldError /\ request' = request /\ kept' \in {kept, OneColumnMore}
    BY <1>6 DEF DefineFails
  <2>2. KeptTyped'
    BY <2>1, ColumnKept
  <2>3. QED
    BY <2>1, <2>2 DEF ToldError
<1>7. CASE DefineInforms
  <2>1. /\ phase' = "told" /\ fetch' = "givenUp" /\ request' = request /\ kept' = OneColumnMore
    BY <1>7 DEF DefineInforms
  <2>2. KeptTyped'
    BY <2>1, ColumnKept
  <2>3. QED
    BY <2>1, <2>2
<1>8. CASE DefineColumn
  <2>1. /\ phase = "describe" /\ phase' = phase /\ kept' = OneColumnMore
        /\ columns' = Append(columns, RoomFor(request.columns[next]))
        /\ UNCHANGED <<request, binds>>
    BY <1>8 DEF DefineColumn, callVars
  <2>2. RoomsOK /\ RoomsOK'
    BY <2>1 DEF SQLInv, RowInv
  <2>3. Len(columns') = Len(columns) + 1 /\ Len(columns) \in Nat
    <3>1. columns \in Seq(Nat) /\ columns' \in Seq(Nat)
      BY <2>2 DEF RoomsOK
    <3>2. QED
      BY <2>1, <3>1, LenProperties
  <2>4. KeptTyped' /\ kept' = [handles |-> kept.handles, buffers |-> kept.buffers,
                                 defs |-> kept.defs + 1, indps |-> kept.indps + 1]
    BY <2>1, ColumnKept
  <2>5. kept.handles = BothHandles /\ kept.buffers = DOMAIN binds
        /\ kept.defs = Len(columns) /\ kept.indps = Len(columns)
    BY <2>1
  <2>6. KeptAre(BothHandles, DOMAIN binds, Len(columns))'
    BY <2>1, <2>3, <2>4, <2>5
  <2>7. QED
    BY <2>1, <2>4, <2>6
<1>9. CASE ColumnsDefined \/ FetchRow \/ InsertColumn \/ PushRow \/ FetchEnds
  <2>1. /\ UNCHANGED <<kept, request, binds, columns>>
        /\ phase \in {"describe", "fetch", "row", "report"}
        /\ phase' \in {"describe", "fetch", "row", "report"}
    BY <1>9 DEF ColumnsDefined, FetchRow, InsertColumn, PushRow, FetchEnds, callVars, rowVars
  <2>2. QED
    BY <2>1
<1>10. CASE Report
  <2>1. phase = "report" /\ phase' = "told" /\ kept' = CleanedUp /\ request' = request
    BY <1>10 DEF Report
  <2>2. Len(columns) \in Nat
    BY <2>1, LenProperties DEF SQLInv, RowInv, RoomsOK
  <2>3. kept' = Nothing
    BY <2>1, <2>2, AllDeleted
  <2>4. QED
    BY <2>1, <2>3
<1>11. CASE UNCHANGED vars
  BY <1>11 DEF vars, rowVars, callVars
<1>12. QED
  BY <1>1, <1>2, <1>3, <1>4, <1>5, <1>6, <1>7, <1>8, <1>9, <1>10, <1>11 DEF Next, Define

(* The properties for any requests, any widths and any number of variables. *)
LEMMA Invariance == Spec => [](SQLInv /\ KeptInv /\ TypeOK /\ RowsReachClient /\ ChangesReachClient)
<1>1. Init => SQLInv /\ KeptInv /\ TypeOK /\ RowsReachClient /\ ChangesReachClient
  BY InitSQLInv, InitKeptInv
<1>2. SQLInv /\ KeptInv /\ TypeOK /\ RowsReachClient /\ ChangesReachClient /\ [Next]_vars
        => (SQLInv /\ KeptInv /\ TypeOK /\ RowsReachClient /\ ChangesReachClient)'
  <2>1. ASSUME SQLInv, KeptInv, TypeOK, RowsReachClient, ChangesReachClient, [Next]_vars
        PROVE  (SQLInv /\ KeptInv /\ TypeOK /\ RowsReachClient /\ ChangesReachClient)'
    <3>1. (SQLInv /\ RowsReachClient /\ ChangesReachClient)'
      BY <2>1, StepSQLInv
    <3>2. KeptInv'
      BY <2>1, <3>1, StepKeptInv
    <3>3. KeptTyped'
      BY <3>2 DEF KeptInv
    <3>4. TypeOK'
      BY <2>1, <3>3, TypesKept
    <3>5. QED
      BY <3>1, <3>2, <3>4
  <2>2. QED
    BY <2>1
<1>3. QED
  BY <1>1, <1>2, PTL DEF Spec

(* What a command has allocated is gone when it returns, unless it failed,  *)
(* whatever its statement and however many its variables and columns.       *)
THEOREM LeaksNeedFailure == Spec => []OnlyFailuresLeak
<1>1. KeptInv => OnlyFailuresLeak
  BY DEF KeptInv, OnlyFailuresLeak
<1>2. QED
  BY <1>1, Invariance, PTL

(* All lengths stay within two bytes, whatever the values and the columns.  *)
THEOREM TypeCorrect == Spec => []TypeOK
BY Invariance, PTL

(* A statement is executed with the first value that the document has for   *)
(* each of its variables, and all of it if it fits.                         *)
THEOREM VariablesAreGiven == Spec => []VariablesGiven
<1>1. SQLInv => VariablesGiven
  <2> SUFFICES ASSUME SQLInv, phase \in {"describe", "fetch", "row", "report"},
                      NEW v \in Range(request.variables)
               PROVE  /\ v \in DOMAIN given
                      /\ FitsBuffer(GivenFor(v)) => given[v] = GivenFor(v)
    BY DEF VariablesGiven
  <2>1. v \in DOMAIN given /\ given[v] \in DatabaseReads(Bound(Lower(v)))
    BY DEF SQLInv, CallInv
  <2>2. QED
    BY <2>1, ReadsGiven DEF SQLInv
<1>2. QED
  BY <1>1, Invariance, PTL

(* An answer has the first rows of the database, each with a value for      *)
(* every column; no row is lost but for want of a connection, by a fetch    *)
(* that broke or cut a value, or with columns that were given up.           *)
THEOREM RowsReachTheClient == Spec => []RowsReachClient
BY Invariance, PTL

(* The client is shown exactly the variables that the procedure changed,    *)
(* except for parameters that were too long to be bound whole.              *)
THEOREM ChangesReachTheClient == Spec => []ChangesReachClient
BY Invariance, PTL
=============================================================================
