----------------------------- MODULE MCQuerySQL -----------------------------
(* Instances of QuerySQL for TLC: values of an ub2 below 16, and room for  *)
(* three variables.                                                        *)
EXTENDS QuerySQL

MCLower(v) == CASE v = "A" -> "a" [] v = "B" -> "b" [] v = "C" -> "c" [] OTHER -> "d"

X(n) == [k \in 1..n |-> "x"]

MCEffects == {<<"x">>, <<"y", Ampersand, "x">>}

Param(name, value) == [name |-> name, value |-> value]

(* Parameters: absent, twice, without a value, under a name that is never  *)
(* looked for, of every length around the size of the buffer.              *)
Documents ==
  {<< >>, <<Param("a", << >>)>>, <<Param("A", <<"x">>)>>,
   <<Param("a", Missing), Param("b", <<"y">>)>>,
   <<Param("b", <<"x">>), Param("a", <<"y">>), Param("a", <<"x">>)>>}
  \cup {<<Param("a", X(n)), Param("b", <<"x">>)>> : n \in {1, 14, 15, 16, 17}}

Variables == {<< >>, <<"A">>, <<"B", "A">>, <<"A", "B", "A">>, <<"A", "B", "C", "D">>}

(* Columns of sizes whose room just fits an ub2 and just does not; 0 for a *)
(* type without a size.                                                    *)
Column(name, size) == [name |-> name, size |-> size]

Rows(n, values) == UNION {[1..m -> values] : m \in 0..n}

One(size, values) ==
  [columns : {<<Column("ID", size)>>}, rows : Rows(3, {<<v>> : v \in values})]

Tables ==
  One(1, {<<"x">>, Null, <<"y", Ampersand, "x">>}) \cup One(2, {<<"x">>, X(12)})
  \cup One(3, {<<"x">>, X(3)}) \cup One(0, {Null, <<"x">>})
  \cup [columns : {<<Column("ID", 1), Column("NAME", 1), Column("ID", 1)>>},
        rows : Rows(2, {<<<<"x">>, <<"y">>, Null>>, <<Null, Null, <<"y">>>>, <<X(6), X(1), X(2)>>})]

MCRequests ==
  {[document |-> d, variables |-> vs, type |-> "call", columns |-> << >>, rows |-> << >>] :
     d \in Documents, vs \in Variables}
  \cup {[document |-> <<Param("a", <<"x">>)>>, variables |-> <<"A">>, type |-> "select",
         columns |-> t.columns, rows |-> t.rows] : t \in Tables}
=============================================================================
