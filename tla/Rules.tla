-------------------------------- MODULE Rules --------------------------------
(***************************************************************************)
(* The rules of validate.rs (the arms of run_rules) and of lib.rs (the     *)
(* expect_* table functions): what each reports about the checked table.   *)
(*                                                                         *)
(* A rule runs one statement, or two when it counts all the rows first.    *)
(* Each statement sees the committed contents at its own instant, so a     *)
(* verdict is a function of two contents, s1 and s2; a rule of one         *)
(* statement looks at s1 only.  Contents are records                       *)
(*   [exists, rows, type, columns, keys, elsewhere]:                       *)
(* whether the checked table exists, its rows, the type of the checked     *)
(* column, the number of columns, the key column of the table a            *)
(* relationship refers to (a set of cells; NoTable when it is missing),    *)
(* and a table of the same name in another schema (NoTable when there is   *)
(* none), which the catalog lists beside the checked one.                  *)
(*                                                                         *)
(* The code takes every error of a statement in the same way, whatever its *)
(* cause: no table, no such column, a cast or a pattern refused, no        *)
(* connection.  Contents in place of which the engine has answered with an *)
(* error have no table, and NoAnswer elsewhere: see Unanswered in RuleRun. *)
(***************************************************************************)
EXTENDS Sql

CONSTANTS Length,       \* Length[v]: LENGTH of the text of v
          NoTable,      \* in place of a table that is missing
          NoAnswer,     \* in place of an answer: the statement has failed
          NoBound,      \* a JSON member that is absent
          Big           \* i64::MAX and f64::MAX; -Big for the minima

ASSUME BigAssumption == Big \in Nat

(* AssertionResult: `error' says whether the text is non-empty. *)
Result(passed, rows, failed, error) ==
  [passed |-> passed, row_count |-> rows, failed_count |-> failed, error |-> error]
\* Faulty variant: a failed statement is reported as -1 rows.
ErroredUnknown == Result(FALSE, -1, 0, TRUE)

Errored == Result(FALSE, 0, 0, TRUE)

\* JSON numbers are <<"int", n>> or <<"float", n>>: as_i64 refuses the second
\* and the default is taken; as_f64 takes both.
AsI64(json, default) ==
  IF json # NoBound /\ json[1] = "int" THEN json[2] ELSE default
AsF64(json, default) == IF json # NoBound THEN json[2] ELSE default

Within(n, lo, hi) == lo <= n /\ n <= hi
\* val is not NaN and lo <= val <= hi; a NULL aggregate is parsed as NaN.
AggWithin(agg, lo, hi) ==
  agg # Null /\ lo * agg[2] <= agg[1] /\ agg[1] <= hi * agg[2]
\* The same for the square root of agg.
RootWithin(agg, lo, hi) ==
  /\ agg # Null
  /\ lo <= 0 \/ lo * lo * agg[2] <= agg[1]
  /\ hi >= 0 /\ agg[1] <= hi * hi * agg[2]

---------------------------------------------------------------------------
(* The shapes of a verdict *)

\* count_rows, and the arms built on it: the total from s1, the offending rows
\* from s2.
Counted(s1, s2, Where(_)) ==
  IF s1.exists /\ s2.exists
  THEN LET matched == CountWhere(s2.rows, Where)
       IN Result(matched = 0, Len(s1.rows), matched, FALSE)
  ELSE Errored

\* Some arms also describe the failure in the error column.
Described(r) == [r EXCEPT !.error = r.error \/ r.failed_count > 0]

\* A measure of one statement, and whether it is in range.
Measured(s, rows, within) ==
  IF s.exists THEN Result(within, rows, IF within THEN 0 ELSE 1, FALSE) ELSE Errored
DescribedMeasure(r) == [r EXCEPT !.error = ~ r.passed]

\* Which rules run a second statement, as long as the first is answered.
TwoStatements == {"not_null", "unique", "in_range", "match_regex", "to_match_regex",
                  "in_set", "relationship", "custom_sql", "not_in_set", "not_match_regex",
                  "strftime_format"}

---------------------------------------------------------------------------
(* The arms of run_rules; p is the JSON object of the rule *)

RowCountBetween(p, s) ==
  Measured(s, Len(s.rows), Within(Len(s.rows), AsI64(p.min, 0), AsI64(p.max, Big)))

ValuesNotNull(p, s1, s2) == Counted(s1, s2, LAMBDA v : IsNull(v))

\* Faulty variant: the distinct values are reported as the rows.
ValuesUniqueOfDistinct(p, s1, s2) ==
  LET distinct == Cardinality(Distinct(s2.rows))
      dupes == Len(s1.rows) - distinct
  IN IF s1.exists THEN Result(dupes = 0, distinct, dupes, FALSE) ELSE Errored

\* Two statements, neither of them count_rows: when the second fails or the
\* table has gone, dupes is -1 and no error is reported.
ValuesUnique(p, s1, s2) ==
  LET dupes == IF s2.exists THEN Len(s1.rows) - Cardinality(Distinct(s2.rows)) ELSE -1
  IN IF s1.exists THEN Result(dupes = 0, Len(s1.rows), dupes, FALSE) ELSE Errored

\* Faulty variant: IS NULL is left out of the condition.
ValuesInRangeOrNull(p, s1, s2) ==
  Counted(s1, s2, LAMBDA v : Or3(Less(v, AsF64(p.min, -Big)), Less(AsF64(p.max, Big), v)))

ValuesInRange(p, s1, s2) ==
  Counted(s1, s2, LAMBDA v : Or3(IsNull(v), Or3(Less(v, AsF64(p.min, -Big)),
                                                 Less(AsF64(p.max, Big), v))))

\* expect_column_values_match_regex puts the pattern into the statement as it
\* is: its quotes, which are not doubled, end the text or are halved, and the
\* values in p.raw match what is left.  It is NoAnswer when no SQL is left.
ValuesMatchRegex(p, s1, s2) ==
  IF p.raw = NoAnswer THEN Errored
  ELSE Counted(s1, s2, LAMBDA v : Or3(IsNull(v), Not3(Satisfies(v, p.raw))))

\* expect_column_values_to_match_regex doubles them: the values in p.values
\* match the pattern as it was written.
ValuesToMatchRegex(p, s1, s2) ==
  Counted(s1, s2, LAMBDA v : Or3(IsNull(v), Not3(Satisfies(v, p.values))))

\* A JSON array of items <<"string", text>> and <<"number", text>>: as_str
\* drops the second.  A text is an integer, the value it is the text of.
Strings(list) == {item[2] : item \in {i \in list : i[1] = "string"}}

ValuesInSet(p, s1, s2) ==
  IF Strings(p.list) = {} THEN Errored
  ELSE Counted(s1, s2, LAMBDA v : Or3(IsNull(v), Not3(In(v, Strings(p.list)))))

\* NOT IN (SELECT to_col FROM to_table), in the second statement.
Relationship(p, s1, s2) ==
  IF s2.keys = NoTable THEN Errored
  ELSE Counted(s1, s2, LAMBDA v : And3(Not3(IsNull(v)), Not3(In(v, s2.keys))))

\* The user's WHERE clause is true of the cells in p.values.
CustomSql(p, s1, s2) == Counted(s1, s2, LAMBDA v : Holds(v \in p.values))

\* Faulty variant: no answer is taken for no columns.
ColumnCountAnyway(p, s) ==
  LET n == IF s.exists THEN s.columns ELSE 0
      within == Within(n, AsI64(p.min, 0), AsI64(p.max, Big))
  IN Result(within, n, IF within THEN 0 ELSE 1, FALSE)

\* duckdb_columns() lists the columns of every table of that name, whatever its
\* schema, and none for a missing one, which is not an error.
ColumnsListed(s) == (IF s.exists THEN s.columns ELSE 0)
                      + (IF s.elsewhere = NoTable THEN 0 ELSE s.elsewhere.columns)
ColumnCountBetween(p, s) ==
  LET within == Within(ColumnsListed(s), AsI64(p.min, 0), AsI64(p.max, Big))
  IN IF s.elsewhere = NoAnswer THEN Errored
     ELSE Result(within, ColumnsListed(s), IF within THEN 0 ELSE 1, FALSE)

Aggregate(agg, rows) ==
  CASE agg = "min" -> MinAgg(rows)
    [] agg = "max" -> MaxAgg(rows)
    [] agg = "mean" -> AvgAgg(rows)
    [] agg = "sum" -> SumAgg(rows)
    [] agg = "stddev" -> VarianceAgg(rows)
    [] OTHER -> DistinctAgg(rows)

MetricWithin(agg, rows, lo, hi) ==
  IF agg = "stddev" THEN RootWithin(Aggregate(agg, rows), lo, hi)
  ELSE AggWithin(Aggregate(agg, rows), lo, hi)

MetricBetween(p, s) ==
  Measured(s, Len(s.rows),
           MetricWithin(p.agg, s.rows, AsF64(p.min, -Big), AsF64(p.max, Big)))

\* The first row of duckdb_columns() for that table and column name.
NoColumn(s) == s.elsewhere = NoAnswer \/ (s.elsewhere = NoTable /\ ~ s.exists)
TypeListed(s) == IF s.elsewhere = NoTable \/ (s.exists /\ ~ s.elsewhere.first)
                 THEN s.type ELSE s.elsewhere.type

\* A column that is not found is an error; a wrong type is described as one.
Typed(s, type) ==
  LET same == TypeListed(s) = type
  IN IF NoColumn(s) THEN Errored
     ELSE DescribedMeasure(Result(same, 0, IF same THEN 0 ELSE 1, FALSE))
OfType(p, s) == Typed(s, p.type)

ProportionBetween(p, s) ==
  LET ratio == IF p.agg = "null" THEN NullProportion(s.rows) ELSE UniqueProportion(s.rows)
  IN Measured(s, Len(s.rows), AggWithin(ratio, AsF64(p.min, -Big), AsF64(p.max, Big)))

QuantileBetween(p, s) ==
  Measured(s, Len(s.rows),
           AggWithin(QuantileAgg(s.rows, p.quantile), AsF64(p.min, -Big), AsF64(p.max, Big)))

\* COUNT(DISTINCT (a, b)::VARCHAR): the text of a row is never NULL.
RowsDistinct(s) ==
  LET dupes == Len(s.rows) - Cardinality(DistinctRows(s.rows))
  IN IF s.exists THEN Result(dupes = 0, Len(s.rows), dupes, FALSE) ELSE Errored
UniqueTogether(p, s) == IF p.arity < 2 THEN Errored ELSE RowsDistinct(s)

\* MIN(LENGTH) and MAX(LENGTH); on no values they are i64::MAX and i64::MIN.
Lengths(rows) == {Length[v] : v \in Distinct(rows)}
Shortest(rows) == IF Lengths(rows) = {} THEN Big
                  ELSE CHOOSE n \in Lengths(rows) : \A m \in Lengths(rows) : n <= m
Longest(rows) == IF Lengths(rows) = {} THEN -Big
                 ELSE CHOOSE n \in Lengths(rows) : \A m \in Lengths(rows) : n >= m
LengthsWithin(rows, lo, hi) == lo <= Shortest(rows) /\ Longest(rows) <= hi

ValueLengthsBetween(p, s) ==
  DescribedMeasure(Measured(s, Len(s.rows),
                            LengthsWithin(s.rows, AsI64(p.min, 0), AsI64(p.max, Big))))

\* The number of NULLs is reported as failed_count, also when there are too few.
NullCountBetween(p, s) ==
  LET nulls == Len(s.rows) - Cardinality(Present(s.rows))
      within == Within(nulls, AsI64(p.min, 0), AsI64(p.max, Big))
  IN IF s.exists
     THEN Result(within, Len(s.rows), IF within THEN 0 ELSE nulls, ~ within)
     ELSE Errored

RowCountToEqual(p, s) ==
  DescribedMeasure(Measured(s, Len(s.rows), Len(s.rows) = AsI64(p.value, -1)))

ValuesNotInSet(p, s1, s2) ==
  IF Strings(p.list) = {} THEN Errored
  ELSE Described(Counted(s1, s2, LAMBDA v : In(v, Strings(p.list))))

ValuesNotMatchRegex(p, s1, s2) ==
  Described(Counted(s1, s2, LAMBDA v : Satisfies(v, p.values)))

\* Faulty variant: IS NOT NULL is left out of the condition.
ValuesMatchStrftimeOrNull(p, s1, s2) ==
  Described(Counted(s1, s2, LAMBDA v : Holds(v = Null \/ v \notin p.values)))

\* try_strptime is NULL on NULL and on text that does not parse.
ValuesMatchStrftime(p, s1, s2) ==
  Described(Counted(s1, s2, LAMBDA v : And3(Not3(IsNull(v)),
                                            Holds(v = Null \/ v \notin p.values))))

ValuesSorted(p, s) ==
  LET Bad(v, prev) == IF p.descending THEN Less(prev, v) ELSE Less(v, prev)
      bad == Inversions(s.rows, Bad)
  IN IF s.exists THEN Described(Result(bad = 0, Len(s.rows), bad, FALSE)) ELSE Errored

MedianBetween(p, s) ==
  DescribedMeasure(Measured(s, Len(s.rows), AggWithin(MedianAgg(s.rows), AsF64(p.min, -Big),
                                                      AsF64(p.max, Big))))

\* match rule.as_str()
Verdict(rule, s1, s2) ==
  CASE rule.name = "row_count_between" -> RowCountBetween(rule, s1)
    [] rule.name = "not_null" -> ValuesNotNull(rule, s1, s2)
    [] rule.name = "unique" -> ValuesUnique(rule, s1, s2)
    [] rule.name = "in_range" -> ValuesInRange(rule, s1, s2)
    [] rule.name = "match_regex" -> ValuesMatchRegex(rule, s1, s2)
    [] rule.name = "to_match_regex" -> ValuesToMatchRegex(rule, s1, s2)
    [] rule.name = "in_set" -> ValuesInSet(rule, s1, s2)
    [] rule.name = "relationship" -> Relationship(rule, s1, s2)
    [] rule.name = "custom_sql" -> CustomSql(rule, s1, s2)
    [] rule.name = "column_count_between" -> ColumnCountBetween(rule, s1)
    [] rule.name = "metric_between" -> MetricBetween(rule, s1)
    [] rule.name = "of_type" -> OfType(rule, s1)
    [] rule.name = "proportion_between" -> ProportionBetween(rule, s1)
    [] rule.name = "quantile_between" -> QuantileBetween(rule, s1)
    [] rule.name = "unique_together" -> UniqueTogether(rule, s1)
    [] rule.name = "lengths_between" -> ValueLengthsBetween(rule, s1)
    [] rule.name = "null_count_between" -> NullCountBetween(rule, s1)
    [] rule.name = "row_count_to_equal" -> RowCountToEqual(rule, s1)
    [] rule.name = "not_in_set" -> ValuesNotInSet(rule, s1, s2)
    [] rule.name = "not_match_regex" -> ValuesNotMatchRegex(rule, s1, s2)
    [] rule.name = "strftime_format" -> ValuesMatchStrftime(rule, s1, s2)
    [] rule.name = "sorted" -> ValuesSorted(rule, s1)
    [] rule.name = "median_between" -> MedianBetween(rule, s1)
    [] OTHER -> Errored
=============================================================================
