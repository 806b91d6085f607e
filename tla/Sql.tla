--------------------------------- MODULE Sql ---------------------------------
(***************************************************************************)
(* What the assertion statements ask of DuckDB (external): three-valued    *)
(* conditions, WHERE counts and aggregates over one checked column.  A     *)
(* cell is Null or an integer standing for a value; a row is a pair of     *)
(* cells, the checked column and a companion column used by the            *)
(* composite-uniqueness rule only.  An aggregate is Null or a fraction     *)
(* <<n, d>> with d > 0, so that means and quantiles stay exact.            *)
(***************************************************************************)
EXTENDS Integers, Sequences, FiniteSetsExt

CONSTANT Null       \* the SQL NULL

(* Conditions evaluate to "true", "false" or "unknown". *)
Holds(p) == IF p THEN "true" ELSE "false"
Not3(x) == CASE x = "true" -> "false" [] x = "false" -> "true" [] OTHER -> "unknown"
And3(x, y) == CASE x = "false" \/ y = "false" -> "false"
                [] x = "true" /\ y = "true" -> "true"
                [] OTHER -> "unknown"
Or3(x, y) == Not3(And3(Not3(x), Not3(y)))

IsNull(v) == Holds(v = Null)
Less(v, w) == IF v = Null \/ w = Null THEN "unknown" ELSE Holds(v < w)

\* v IN (S): unknown unless v is found, when v or an element of S is Null.
In(v, S) == CASE S = {} -> "false"
              [] v # Null /\ v \in S -> "true"
              [] v = Null \/ Null \in S -> "unknown"
              [] OTHER -> "false"

\* A function of the text of v that is NULL on NULL, such as regexp_matches.
Satisfies(v, S) == IF v = Null THEN "unknown" ELSE Holds(v \in S)

(* The checked column of a sequence of rows. *)
Cell(rows, i) == rows[i][1]
Present(rows) == {i \in DOMAIN rows : Cell(rows, i) # Null}
Distinct(rows) == {Cell(rows, i) : i \in Present(rows)}
DistinctRows(rows) == {rows[i] : i \in DOMAIN rows}

\* SELECT COUNT(*) WHERE keeps the rows on which the condition is true.
Kept(rows, Where(_)) == {i \in DOMAIN rows : Where(Cell(rows, i)) = "true"}
CountWhere(rows, Where(_)) == Cardinality(Kept(rows, Where))

(* Aggregates ignore NULL and are NULL on no values. *)
Fraction(n) == <<n, 1>>
SumOf(rows, Of(_)) == SumFunction([i \in Present(rows) |-> Of(Cell(rows, i))])
IfAny(rows, agg) == IF Present(rows) = {} THEN Null ELSE agg

MinAgg(rows) == IfAny(rows, Fraction(Min(Distinct(rows))))
MaxAgg(rows) == IfAny(rows, Fraction(Max(Distinct(rows))))
SumAgg(rows) == IfAny(rows, Fraction(SumOf(rows, LAMBDA v : v)))
AvgAgg(rows) == IfAny(rows, <<SumOf(rows, LAMBDA v : v), Cardinality(Present(rows))>>)
DistinctAgg(rows) == Fraction(Cardinality(Distinct(rows)))

\* The square of STDDEV (of a sample: NULL on fewer than two values).
VarianceAgg(rows) ==
  LET n == Cardinality(Present(rows))
      sum == SumOf(rows, LAMBDA v : v)
  IN IF n < 2 THEN Null
     ELSE <<n * SumOf(rows, LAMBDA v : v * v) - sum * sum, n * (n - 1)>>

\* A ratio to COUNT( * ): NULL or NaN on an empty table.
Proportion(n, rows) == IF rows = <<>> THEN Null ELSE <<n, Len(rows)>>
NullProportion(rows) == Proportion(Len(rows) - Cardinality(Present(rows)), rows)
UniqueProportion(rows) == Proportion(Cardinality(Distinct(rows)), rows)

\* The k-th smallest value, from 0.
Ranked(rows, k) ==
  LET Below(v) == Cardinality({i \in Present(rows) : Cell(rows, i) < v})
      UpTo(v) == Cardinality({i \in Present(rows) : Cell(rows, i) <= v})
  IN CHOOSE v \in Distinct(rows) : Below(v) <= k /\ k < UpTo(v)

\* quantile_cont(column, a/b): linear interpolation between neighbours.
QuantileAgg(rows, q) ==
  LET last == Cardinality(Present(rows)) - 1
      k == (q[1] * last) \div q[2]
      rest == (q[1] * last) % q[2]
      next == IF rest = 0 THEN k ELSE k + 1
  IN IfAny(rows, <<Ranked(rows, k) * (q[2] - rest) + Ranked(rows, next) * rest, q[2]>>)
MedianAgg(rows) == QuantileAgg(rows, <<1, 2>>)

\* LAG over the physical order: i and i - 1 are compared, NULL with nothing.
Inversions(rows, Bad(_, _)) ==
  Cardinality({i \in 2..Len(rows) : Bad(Cell(rows, i), Cell(rows, i - 1)) = "true"})
=============================================================================
