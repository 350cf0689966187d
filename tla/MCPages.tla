------------------------------- MODULE MCPages -------------------------------
(***************************************************************************)
(* Instances of IndexPage and TableAccess for TLC: a behaviour writes and  *)
(* reads one index page, or works on one table.                            *)
(***************************************************************************)
EXTENDS IndexPage, TableAccess

Keys == {<<>>, <<1>>, <<2, 1>>}

\* Up to three keys, in every order
IndexNodes ==
  {[is_leaf |-> leaf, keys |-> k, flags |-> 0, next |-> 2, rightmost_ptr |-> 3,
    values |-> [i \in DOMAIN k |-> IF leaf THEN [pid |-> i, slot_num |-> s] ELSE 16 * i + s]] :
     leaf \in BOOLEAN, k \in UNION {[1 .. n -> Keys] : n \in 0 .. 3}, s \in {0, 17}}

Types(n) == [1 .. n -> ColumnType]

\* The j-th column's name is the digit j, repeated.
ColumnOf(j, length, type) == [name |-> [i \in 1 .. length |-> j], type |-> type]

RowValue(j, type) ==
  CASE type = "STRING" -> <<j, j>>
    [] type = "INTEGER" -> IF j = 2 THEN <<-5>> ELSE <<1000 * (3 - j)>>
    [] type = "DECIMAL" -> [i \in 1 .. 8 |-> IF i = 5 THEN j - 1 ELSE 0]
    [] type = "BOOLEAN" -> <<j % 2>>

Table(lengths, types) ==
  [cols |-> [j \in DOMAIN types |-> ColumnOf(j, lengths[j], types[j])],
   row |-> [j \in DOMAIN types |-> RowValue(j, types[j])]]

\* Names of every length with INTEGERs, and every type with short names
SomeTables ==
  {Table(l, [j \in DOMAIN l |-> "INTEGER"]) : l \in UNION {[1 .. n -> {1, 3, 12}] : n \in 0 .. 4}}
    \cup {Table([j \in DOMAIN t |-> 2], t) : t \in UNION {Types(n) : n \in 1 .. 3}}

Init == \/ IndexInit /\ TableIdle
        \/ TableInit /\ IndexIdle
Next == \/ IndexNext /\ UNCHANGED tablevars
        \/ TableNext /\ UNCHANGED indexvars
vars == <<indexvars, tablevars>>

\* The loop of the constructor keeps running.
Spec == Init /\ [][Next]_vars /\ WF_indexvars(IndexNext)
=============================================================================
