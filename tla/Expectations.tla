---------------------------- MODULE Expectations ----------------------------
(***************************************************************************)
(* The expect_* table functions of lib.rs.  Each bind runs its statements  *)
(* at once and keeps one AssertionResult for the scan.  The shapes of the  *)
(* verdicts, and most of the SQL, are those of the arms of run_rules; the  *)
(* arguments come typed from SQL, so bounds are plain numbers here.  A     *)
(* list is one text, its members with commas between them, that is cut at  *)
(* every comma and cleaned; a pattern has its quotes doubled.              *)
(***************************************************************************)
EXTENDS Rules

CONSTANTS Split,        \* Split[t]: the pieces of the text t between its commas
          Trim,         \* Trim[t]: t without the blanks around it
          Unquote,      \* Unquote[t]: t without the quotes around it
          Empty         \* the empty text

Texts == DOMAIN Trim
ASSUME TextsAssumption == /\ Texts \subseteq Int /\ Empty \in Texts
                          /\ Split \in [Texts -> SUBSET Texts]
                          /\ Trim \in [Texts -> Texts] /\ Unquote \in [Texts -> Texts]

ExpectNotNull(s1, s2) == Counted(s1, s2, LAMBDA v : IsNull(v))

ExpectUnique(s1, s2) ==
  LET dupes == IF s2.exists THEN Len(s1.rows) - Cardinality(Distinct(s2.rows)) ELSE -1
  IN IF s1.exists THEN Result(dupes = 0, Len(s1.rows), dupes, FALSE) ELSE Errored

\* Faulty variant: the bounds themselves are out of range.
ExpectInRangeStrictly(lo, hi, s1, s2) ==
  Counted(s1, s2, LAMBDA v : Or3(IsNull(v), Not3(And3(Less(lo, v), Less(v, hi)))))

ExpectInRange(lo, hi, s1, s2) ==
  Counted(s1, s2, LAMBDA v : Or3(IsNull(v), Or3(Less(v, lo), Less(hi, v))))

ExpectRowCountBetween(lo, hi, s) == Measured(s, Len(s.rows), Within(Len(s.rows), lo, hi))

\* The values of expect_accepted_values, and of expect_not_in_set, when the
\* members of a list are handed over with commas between them.
Pieces(list) == UNION {Split[item[2]] : item \in list}
Accepted(list) == {Trim[t] : t \in Pieces(list)} \ {Empty}
Forbidden(list) == {Unquote[Trim[t]] : t \in Pieces(list)} \ {Empty}

ExpectAcceptedValues(list, s1, s2) ==
  IF Accepted(list) = {} THEN Errored
  ELSE Counted(s1, s2, LAMBDA v : Or3(IsNull(v), Not3(In(v, Accepted(list)))))

ExpectMatchRegex(matching, s1, s2) ==
  Counted(s1, s2, LAMBDA v : Or3(IsNull(v), Not3(Satisfies(v, matching))))

ExpectRelationship(s1, s2) ==
  IF s2.keys = NoTable THEN Errored
  ELSE Counted(s1, s2, LAMBDA v : And3(Not3(IsNull(v)), Not3(In(v, s2.keys))))

ExpectMetricBetween(agg, lo, hi, s) ==
  Measured(s, Len(s.rows), MetricWithin(agg, s.rows, lo, hi))

ExpectColumnType(type, s) == Typed(s, type)

ExpectTableColumnCountBetween(lo, hi, s) ==
  LET within == Within(ColumnsListed(s), lo, hi)
  IN IF s.elsewhere = NoAnswer THEN Errored
     ELSE Result(within, ColumnsListed(s), IF within THEN 0 ELSE 1, FALSE)

ExpectRatioBetween(isNull, lo, hi, s) ==
  LET ratio == IF isNull THEN NullProportion(s.rows) ELSE UniqueProportion(s.rows)
  IN Measured(s, Len(s.rows), AggWithin(ratio, lo, hi))

ExpectQuantileBetween(q, lo, hi, s) ==
  Measured(s, Len(s.rows), AggWithin(QuantileAgg(s.rows, q), lo, hi))

\* Registered with two columns, so there is no arity to check.
ExpectColumnsUniqueTogether(s) == RowsDistinct(s)

\* failed_count is the sum of the lengths that are out of range, not a count of rows.
ExpectColumnLengthBetween(lo, hi, s) ==
  LET r == DescribedMeasure(Measured(s, Len(s.rows), LengthsWithin(s.rows, lo, hi)))
      short == IF LengthsWithin(s.rows, lo, Big) THEN 0 ELSE Shortest(s.rows)
      long == IF LengthsWithin(s.rows, -Big, hi) THEN 0 ELSE Longest(s.rows)
  IN IF s.exists THEN [r EXCEPT !.failed_count = short + long] ELSE r

ExpectNullCountBetween(lo, hi, s) ==
  LET nulls == Len(s.rows) - Cardinality(Present(s.rows))
  IN IF s.exists
     THEN Result(Within(nulls, lo, hi), Len(s.rows),
                 IF Within(nulls, lo, hi) THEN 0 ELSE nulls, ~ Within(nulls, lo, hi))
     ELSE Errored

ExpectRowCountToEqual(n, s) == DescribedMeasure(Measured(s, Len(s.rows), Len(s.rows) = n))

ExpectCustomSql(where, s1, s2) == Counted(s1, s2, LAMBDA v : Holds(v \in where))

ExpectNotInSet(list, s1, s2) ==
  IF Forbidden(list) = {} THEN Errored
  ELSE Described(Counted(s1, s2, LAMBDA v : In(v, Forbidden(list))))

ExpectNotMatchRegex(matching, s1, s2) ==
  Described(Counted(s1, s2, LAMBDA v : Satisfies(v, matching)))

ExpectMatchDateFormat(parsing, s1, s2) ==
  Described(Counted(s1, s2, LAMBDA v : And3(Not3(IsNull(v)),
                                            Holds(v = Null \/ v \notin parsing))))

ExpectSorted(direction, s) ==
  LET Bad(v, prev) == IF direction = "asc" THEN Less(v, prev) ELSE Less(prev, v)
      bad == Inversions(s.rows, Bad)
  IN IF direction \notin {"asc", "desc"} \/ ~ s.exists THEN Errored
     ELSE Described(Result(bad = 0, Len(s.rows), bad, FALSE))

ExpectMedianBetween(lo, hi, s) ==
  DescribedMeasure(Measured(s, Len(s.rows), AggWithin(MedianAgg(s.rows), lo, hi)))

\* An argument that is NULL takes the default, as a JSON member that is absent.
Argument(json, default) == IF json = NoBound THEN default ELSE json[2]

\* The table function that corresponds to a rule of validate_expectations.
Standalone(rule, s1, s2) ==
  LET lo == Argument(rule.min, -Big)
      from == Argument(rule.min, 0)
      hi == Argument(rule.max, Big)
  IN CASE rule.name = "not_null" -> ExpectNotNull(s1, s2)
       [] rule.name = "unique" -> ExpectUnique(s1, s2)
       [] rule.name = "in_range" -> ExpectInRange(lo, hi, s1, s2)
       [] rule.name = "row_count_between" -> ExpectRowCountBetween(from, hi, s1)
       [] rule.name = "in_set" -> ExpectAcceptedValues(rule.list, s1, s2)
       [] rule.name \in {"match_regex", "to_match_regex"} ->
              ExpectMatchRegex(rule.values, s1, s2)
       [] rule.name = "relationship" -> ExpectRelationship(s1, s2)
       [] rule.name = "metric_between" -> ExpectMetricBetween(rule.agg, lo, hi, s1)
       [] rule.name = "of_type" -> ExpectColumnType(rule.type, s1)
       [] rule.name = "column_count_between" -> ExpectTableColumnCountBetween(from, hi, s1)
       [] rule.name = "proportion_between" -> ExpectRatioBetween(rule.agg = "null", lo, hi, s1)
       [] rule.name = "quantile_between" -> ExpectQuantileBetween(rule.quantile, lo, hi, s1)
       [] rule.name = "unique_together" -> ExpectColumnsUniqueTogether(s1)
       [] rule.name = "lengths_between" -> ExpectColumnLengthBetween(from, hi, s1)
       [] rule.name = "null_count_between" -> ExpectNullCountBetween(from, hi, s1)
       [] rule.name = "row_count_to_equal" -> ExpectRowCountToEqual(Argument(rule.value, -1), s1)
       [] rule.name = "custom_sql" -> ExpectCustomSql(rule.values, s1, s2)
       [] rule.name = "not_in_set" -> ExpectNotInSet(rule.list, s1, s2)
       [] rule.name = "not_match_regex" -> ExpectNotMatchRegex(rule.values, s1, s2)
       [] rule.name = "strftime_format" -> ExpectMatchDateFormat(rule.values, s1, s2)
       [] rule.name = "sorted" -> ExpectSorted(IF rule.descending THEN "desc" ELSE "asc", s1)
       [] rule.name = "median_between" -> ExpectMedianBetween(lo, hi, s1)
=============================================================================
