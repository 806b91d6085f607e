----------------------------- MODULE MCRuleRun -----------------------------
(***************************************************************************)
(* Every rule of run_rules on every small table, with the commits of other *)
(* sessions at every point of the check.                                   *)
(***************************************************************************)
EXTENDS RuleRun

CONSTANT Everything     \* FALSE: only the rule named Only
CONSTANT Only

\* Values 1 and 2 in the checked column, a NULL, and a duplicate pair.
MCRows == {<<1, 1>>, <<2, 1>>, <<2, 2>>, <<Null, 1>>}
MCLength == <<1, 2>>
MCKeySets == {NoTable, {}, {1}, {1, Null}}

\* The texts "1" and "2" of the values, "1,2", " 1", "'1'", "" and "'", which
\* are the text of no value of the column.
Both == 3
Blank == 4
Quoted == 5
MCEmpty == 6
Quote == 7
MCSplit == <<{1}, {2}, {1, 2}, {Blank}, {Quoted}, {MCEmpty}, {Quote}>>
MCTrim == <<1, 2, Both, 1, Quoted, MCEmpty, Quote>>
MCUnquote == <<1, 2, Both, Blank, 1, MCEmpty, MCEmpty>>

Tables == [exists : {TRUE}, rows : SeqOf(MCRows, MaxRows), type : {"INTEGER"},
           columns : {2}, keys : {{1}}, elsewhere : {NoTable}]
Missing == [exists : {FALSE}, rows : {<<>>}, type : {"INTEGER"}, columns : {2},
            keys : {{1}}, elsewhere : {NoTable}]
Referring == [exists : {TRUE}, rows : SeqOf(MCRows, 2), type : {"INTEGER"},
              columns : {2}, keys : MCKeySets, elsewhere : {NoTable}]
Shadowed == [exists : BOOLEAN, rows : {<<>>}, type : {"INTEGER"}, columns : {2}, keys : {{1}},
             elsewhere : [columns : {1}, type : {"INTEGER", "VARCHAR"}, first : BOOLEAN]]

I(n) == <<"int", n>>
Plain(name) == [name |-> name, min |-> NoBound, max |-> NoBound, value |-> NoBound,
                list |-> {<<"string", 1>>}, values |-> {1}, raw |-> {1}, agg |-> "", type |-> "INTEGER",
                quantile |-> <<1, 2>>, arity |-> 2, descending |-> FALSE]
From(name, lo) == [Plain(name) EXCEPT !.min = I(lo)]
To(name, hi) == [Plain(name) EXCEPT !.max = I(hi)]
Between(name, lo, hi) == [From(name, lo) EXCEPT !.max = I(hi)]
Metric(agg, lo, hi) == [Between("metric_between", lo, hi) EXCEPT !.agg = agg]

Listing(name, list) == [Plain(name) EXCEPT !.list = list]
Lists == {{}, {<<"number", 1>>}, {<<"string", 1>>, <<"number", 2>>}}
           \cup {{<<"string", t>>} : t \in {Both, Blank, Quoted, MCEmpty, Quote}}

MCRules ==
  {Plain(name) : name \in TwoStatements} \cup
  {Listing(name, list) : name \in {"in_set", "not_in_set"}, list \in Lists} \cup
  {[Plain("match_regex") EXCEPT !.raw = raw] : raw \in {{1, 2}, NoAnswer}} \cup
  {Between("in_range", 1, 1), From("in_range", 2),
   [Plain("in_range") EXCEPT !.min = <<"float", 2>>],
   Between("row_count_between", 1, 2), To("row_count_between", 1),
   [Plain("row_count_between") EXCEPT !.min = <<"float", 1>>, !.max = I(2)],
   Between("column_count_between", 1, 2), To("column_count_between", 2),
   Metric("min", 2, 2), Metric("max", 1, 1), Metric("sum", 2, 3),
   Metric("mean", 1, 1), Metric("stddev", 0, 0), Metric("distinct_count", 1, 1),
   Plain("of_type"), [Plain("of_type") EXCEPT !.type = "VARCHAR"],
   [Between("proportion_between", 0, 0) EXCEPT !.agg = "null"],
   [Between("proportion_between", 1, 1) EXCEPT !.agg = "unique"],
   [Between("quantile_between", 2, 2) EXCEPT !.quantile = <<2, 3>>],
   Between("median_between", 1, 1),
   Plain("unique_together"), [Plain("unique_together") EXCEPT !.arity = 1],
   Between("lengths_between", 2, 2), Between("null_count_between", 1, 1),
   [Plain("row_count_to_equal") EXCEPT !.value = I(2)],
   Plain("sorted"), [Plain("sorted") EXCEPT !.descending = TRUE]}

MCCases ==
  LET rules == {r \in MCRules : Everything \/ r.name = Only}
  IN (rules \X (Tables \cup Missing))
       \cup ({r \in rules : r.name = "relationship"} \X Referring)
       \cup ({r \in rules : r.name \in CatalogRules} \X Shadowed)
=============================================================================
