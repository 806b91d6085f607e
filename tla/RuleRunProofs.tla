---------------------------- MODULE RuleRunProofs ----------------------------
(***************************************************************************)
(* Theorems about RuleRun for any cases, rows, keys and commits of other   *)
(* sessions, and any failures of the statements: the types of a verdict,   *)
(* that no failed statement is taken for an answer, the counts a verdict   *)
(* reports, what uniqueness tells of a table that does not change, the     *)
(* agreement of the two implementations of each rule, and that a verdict   *)
(* of any other rule is one the contents it read deserved.                 *)
(***************************************************************************)
EXTENDS RuleRun, InductionLemmas

---------------------------------------------------------------------------
(* The replies *)

\* What a statement may be answered from: contents, or an error in their place.
Snapshots == {s \in [exists : BOOLEAN, rows : Seq(Rows), type : STRING, columns : Nat,
                     keys : KeySets, elsewhere : Elsewhere \cup {NoAnswer}] :
                s.exists => Answered(s)}

LEMMA RepliesType ==
  ASSUME NEW d \in Contents
  PROVE  /\ d \in Snapshots /\ Answered(d)
         /\ \A s \in Replies(d) : s \in Snapshots /\ (Answered(s) => s = d)
<1>1. d \in Snapshots /\ Answered(d)
  BY NoAnswerAssumption DEF Contents, Snapshots, Answered
<1>2. Unanswered(d) \in Snapshots /\ ~ Answered(Unanswered(d))
  BY DEF Contents, Snapshots, Answered, Unanswered
<1>. QED
  BY <1>1, <1>2 DEF Replies

---------------------------------------------------------------------------
(* The arms *)

\* match rule.as_str(): the arm of each name.
LEMMA Arms ==
  ASSUME NEW p, NEW s1, NEW s2
  PROVE  /\ p.name = "row_count_between" => Verdict(p, s1, s2) = RowCountBetween(p, s1)
         /\ p.name = "not_null" => Verdict(p, s1, s2) = ValuesNotNull(p, s1, s2)
         /\ p.name = "unique" => Verdict(p, s1, s2) = ValuesUnique(p, s1, s2)
         /\ p.name = "in_range" => Verdict(p, s1, s2) = ValuesInRange(p, s1, s2)
         /\ p.name = "match_regex" => Verdict(p, s1, s2) = ValuesMatchRegex(p, s1, s2)
         /\ p.name = "to_match_regex" => Verdict(p, s1, s2) = ValuesToMatchRegex(p, s1, s2)
         /\ p.name = "in_set" => Verdict(p, s1, s2) = ValuesInSet(p, s1, s2)
         /\ p.name = "relationship" => Verdict(p, s1, s2) = Relationship(p, s1, s2)
         /\ p.name = "custom_sql" => Verdict(p, s1, s2) = CustomSql(p, s1, s2)
         /\ p.name = "column_count_between" => Verdict(p, s1, s2) = ColumnCountBetween(p, s1)
         /\ p.name = "metric_between" => Verdict(p, s1, s2) = MetricBetween(p, s1)
         /\ p.name = "of_type" => Verdict(p, s1, s2) = OfType(p, s1)
         /\ p.name = "proportion_between" => Verdict(p, s1, s2) = ProportionBetween(p, s1)
         /\ p.name = "quantile_between" => Verdict(p, s1, s2) = QuantileBetween(p, s1)
         /\ p.name = "unique_together" => Verdict(p, s1, s2) = UniqueTogether(p, s1)
         /\ p.name = "lengths_between" => Verdict(p, s1, s2) = ValueLengthsBetween(p, s1)
         /\ p.name = "null_count_between" => Verdict(p, s1, s2) = NullCountBetween(p, s1)
         /\ p.name = "row_count_to_equal" => Verdict(p, s1, s2) = RowCountToEqual(p, s1)
         /\ p.name = "not_in_set" => Verdict(p, s1, s2) = ValuesNotInSet(p, s1, s2)
         /\ p.name = "not_match_regex" => Verdict(p, s1, s2) = ValuesNotMatchRegex(p, s1, s2)
         /\ p.name = "strftime_format" => Verdict(p, s1, s2) = ValuesMatchStrftime(p, s1, s2)
         /\ p.name = "sorted" => Verdict(p, s1, s2) = ValuesSorted(p, s1)
         /\ p.name = "median_between" => Verdict(p, s1, s2) = MedianBetween(p, s1)
  BY DEF Verdict

---------------------------------------------------------------------------
(* The types of a verdict *)

Verdicts == [passed : BOOLEAN, row_count : Nat, failed_count : Int, error : BOOLEAN]

LEMMA ResultType ==
  ASSUME NEW b \in BOOLEAN, NEW n \in Nat, NEW f \in Int, NEW e \in BOOLEAN
  PROVE  /\ Result(b, n, f, e) \in Verdicts
         /\ Result(b, n, f, e).passed = b
         /\ Result(b, n, f, e).row_count = n
         /\ Result(b, n, f, e).failed_count = f
         /\ Result(b, n, f, e).error = e
  BY DEF Result, Verdicts

LEMMA ErroredType ==
  /\ Errored \in Verdicts /\ Errored.passed = FALSE /\ Errored.error = TRUE
  /\ Described(Errored) = Errored /\ DescribedMeasure(Errored) = Errored
<1>. DEFINE b == Errored.error \/ Errored.failed_count > 0
            c == ~ Errored.passed
<1>1. Errored \in Verdicts /\ Errored.passed = FALSE /\ Errored.error = TRUE
  BY DEF Errored, Result, Verdicts
<1>2. Described(Errored) = [Errored EXCEPT !.error = b]
  BY DEF Described
<1>3. DescribedMeasure(Errored) = [Errored EXCEPT !.error = c]
  BY DEF DescribedMeasure
<1>4. b = TRUE /\ c = TRUE
  BY <1>1
<1>. HIDE DEF b, c
<1>. QED
  BY <1>1, <1>2, <1>3, <1>4 DEF Verdicts

\* Describing a failure in the error column changes nothing else.
LEMMA DescribedType ==
  ASSUME NEW r \in Verdicts
  PROVE  /\ Described(r) \in Verdicts
         /\ Described(r).passed = r.passed
         /\ Described(r).row_count = r.row_count
         /\ Described(r).failed_count = r.failed_count
<1>. DEFINE b == r.error \/ r.failed_count > 0
<1>1. Described(r) = [r EXCEPT !.error = b]
  BY DEF Described
<1>2. b \in BOOLEAN
  OBVIOUS
<1>. HIDE DEF b
<1>. QED
  BY <1>1, <1>2 DEF Verdicts

LEMMA DescribedMeasureType ==
  ASSUME NEW r \in Verdicts
  PROVE  DescribedMeasure(r) \in Verdicts /\ DescribedMeasure(r).passed = r.passed
<1>. DEFINE b == ~ r.passed
<1>1. DescribedMeasure(r) = [r EXCEPT !.error = b]
  BY DEF DescribedMeasure
<1>2. b \in BOOLEAN
  OBVIOUS
<1>. HIDE DEF b
<1>. QED
  BY <1>1, <1>2 DEF Verdicts

LEMMA MeasuredType ==
  ASSUME NEW s, NEW n \in Nat, NEW b \in BOOLEAN
  PROVE  /\ Measured(s, n, b) \in Verdicts
         /\ ~ s.exists => Measured(s, n, b) = Errored
<1>. DEFINE f == IF b THEN 0 ELSE 1
<1>1. f \in Int
  OBVIOUS
<1>2. Measured(s, n, b) = IF s.exists THEN Result(b, n, f, FALSE) ELSE Errored
  BY DEF Measured
<1>. HIDE DEF f
<1>3. Result(b, n, f, FALSE) \in Verdicts
  BY <1>1, ResultType
<1>. QED
  BY <1>2, <1>3, ErroredType

\* A count of rows: T are the rows the second statement keeps.
Tally(s1, s2, T) ==
  IF s1.exists /\ s2.exists
  THEN Result(Cardinality(T) = 0, Len(s1.rows), Cardinality(T), FALSE)
  ELSE Errored

LEMMA RowSetsAreFinite ==
  ASSUME NEW s \in Snapshots, NEW T \in SUBSET DOMAIN s.rows
  PROVE  /\ IsFiniteSet(T) /\ Cardinality(T) \in Nat
         /\ Cardinality(T) <= Len(s.rows) /\ Len(s.rows) \in Nat
         /\ Cardinality(T) = Len(s.rows) => T = DOMAIN s.rows
         /\ IsFiniteSet(DOMAIN s.rows) /\ Cardinality(DOMAIN s.rows) = Len(s.rows)
<1>1. Len(s.rows) \in Nat /\ DOMAIN s.rows = 1..Len(s.rows)
  BY DEF Snapshots
<1>2. IsFiniteSet(1..Len(s.rows)) /\ Cardinality(1..Len(s.rows)) = Len(s.rows)
  <2>1. /\ IsFiniteSet(1..Len(s.rows))
        /\ Cardinality(1..Len(s.rows)) = IF 1 > Len(s.rows) THEN 0 ELSE Len(s.rows) - 1 + 1
    BY <1>1, FS_Interval
  <2>. QED
    BY <1>1, <2>1
<1>3. T \in SUBSET (1..Len(s.rows))
  BY <1>1
<1>4. /\ IsFiniteSet(T) /\ Cardinality(T) <= Cardinality(1..Len(s.rows))
      /\ Cardinality(1..Len(s.rows)) = Cardinality(T) => 1..Len(s.rows) = T
  BY <1>2, <1>3, FS_Subset
<1>. QED
  BY <1>1, <1>2, <1>4, FS_CardinalityType

LEMMA TallyType ==
  ASSUME NEW s1 \in Snapshots, NEW s2 \in Snapshots, NEW T \in SUBSET DOMAIN s2.rows
  PROVE  /\ Tally(s1, s2, T) \in Verdicts
         /\ ~ s1.exists \/ ~ s2.exists => Tally(s1, s2, T) = Errored
         /\ s1.exists /\ s2.exists =>
              /\ Tally(s1, s2, T).row_count = Len(s1.rows)
              /\ Tally(s1, s2, T).failed_count = Cardinality(T)
<1>. DEFINE b == Cardinality(T) = 0
            n == Cardinality(T)
<1>1. b \in BOOLEAN /\ n \in Nat /\ Len(s1.rows) \in Nat
  BY RowSetsAreFinite DEF Snapshots
<1>2. Tally(s1, s2, T) = IF s1.exists /\ s2.exists
                         THEN Result(b, Len(s1.rows), n, FALSE) ELSE Errored
  BY DEF Tally
<1>. HIDE DEF b, n
<1>. DEFINE l == Len(s1.rows)
<1>3. l \in Nat /\ n \in Int
  BY <1>1
<1>. HIDE DEF l
<1>4. /\ Result(b, l, n, FALSE) \in Verdicts
      /\ Result(b, l, n, FALSE).row_count = l
      /\ Result(b, l, n, FALSE).failed_count = n
  BY <1>1, <1>3, ResultType
<1>. QED
  BY <1>2, <1>4, ErroredType DEF n, l
---------------------------------------------------------------------------
(* The rules that judge one row at a time *)

\* The conditions the statements put into WHERE, on a cell that may be NULL.
LEMMA Conditions ==
  ASSUME NEW v \in Values, NEW S, NEW lo \in Int, NEW hi \in Int
  PROVE  /\ IsNull(v) = "true" <=> v = Null
         /\ Or3(IsNull(v), Or3(Less(v, lo), Less(hi, v))) = "true"
              <=> (v = Null \/ ~ Bounded(v, lo, hi))
         /\ Or3(IsNull(v), Not3(Satisfies(v, S))) = "true" <=> (v = Null \/ v \notin S)
         /\ Null \notin S =>
              /\ Or3(IsNull(v), Not3(In(v, S))) = "true" <=> (v = Null \/ v \notin S)
              /\ And3(Not3(IsNull(v)), Not3(In(v, S))) = "true" <=> (v # Null /\ v \notin S)
              /\ In(v, S) = "true" <=> v \in S
              /\ Satisfies(v, S) = "true" <=> v \in S
         /\ Holds(v \in S) = "true" <=> v \in S
         /\ And3(Not3(IsNull(v)), Holds(v = Null \/ v \notin S)) = "true"
              <=> (v # Null /\ v \notin S)
<1>. USE DEF IsNull, Holds, Not3
<1>1. IsNull(v) = "true" <=> v = Null
  OBVIOUS
<1>2. Or3(IsNull(v), Or3(Less(v, lo), Less(hi, v))) = "true"
        <=> (v = Null \/ ~ Bounded(v, lo, hi))
  <2>1. CASE v = Null
    BY <2>1 DEF Or3, And3, Less
  <2>2. CASE v # Null
    BY <2>2, ValuesAssumption DEF Or3, And3, Less, Bounded, Values
  <2>. QED
    BY <2>1, <2>2
<1>3. Or3(IsNull(v), Not3(Satisfies(v, S))) = "true" <=> (v = Null \/ v \notin S)
  BY DEF Or3, And3, Satisfies
<1>4. ASSUME Null \notin S
      PROVE  /\ Or3(IsNull(v), Not3(In(v, S))) = "true" <=> (v = Null \/ v \notin S)
             /\ And3(Not3(IsNull(v)), Not3(In(v, S))) = "true" <=> (v # Null /\ v \notin S)
             /\ In(v, S) = "true" <=> v \in S
             /\ Satisfies(v, S) = "true" <=> v \in S
  <2>1. In(v, S) = "true" <=> v \in S
    BY <1>4 DEF In
  <2>2. v # Null => (In(v, S) = "false" <=> v \notin S)
    BY <1>4 DEF In
  <2>3. Satisfies(v, S) = "true" <=> v \in S
    BY <1>4 DEF Satisfies
  <2>. QED
    BY <2>1, <2>2, <2>3 DEF Or3, And3
<1>5. Holds(v \in S) = "true" <=> v \in S
  OBVIOUS
<1>6. And3(Not3(IsNull(v)), Holds(v = Null \/ v \notin S)) = "true"
        <=> (v # Null /\ v \notin S)
  BY DEF And3
<1>. QED
  BY <1>1, <1>2, <1>3, <1>4, <1>5, <1>6, Zenon

\* Offends, name by name.
LEMMA OffendsArms ==
  ASSUME NEW d, NEW v
  PROVE  /\ rule.name = "not_null" => (Offends(d, v) <=> v = Null)
         /\ rule.name = "in_range" =>
              (Offends(d, v) <=> (v = Null \/ ~ Bounded(v, Lower, Upper)))
         /\ rule.name \in {"match_regex", "to_match_regex"} =>
              (Offends(d, v) <=> (v = Null \/ v \notin rule.values))
         /\ rule.name = "in_set" => (Offends(d, v) <=> (v = Null \/ v \notin Listed))
         /\ rule.name = "not_in_set" => (Offends(d, v) <=> v \in Listed)
         /\ rule.name \in {"custom_sql", "not_match_regex"} =>
              (Offends(d, v) <=> v \in rule.values)
         /\ rule.name = "strftime_format" =>
              (Offends(d, v) <=> (v # Null /\ v \notin rule.values))
         /\ rule.name = "relationship" =>
              (Offends(d, v) <=> (v # Null /\ (d.keys = NoTable \/ v \notin d.keys)))
  BY DEF Offends

LEMMA CellTypes ==
  ASSUME NEW d \in Snapshots, NEW i \in DOMAIN d.rows
  PROVE  Cell(d.rows, i) \in Values /\ Cells(d)[i] = Cell(d.rows, i)
<1>1. d.rows[i] \in Rows
  BY DEF Snapshots
<1>2. d.rows[i] \in Values \X Values
  BY <1>1, ValuesAssumption
<1>. QED
  BY <1>2 DEF Cell, Cells

LEMMA BoundTypes ==
  ASSUME rule \in RuleObjects
  PROVE  /\ Lower = AsF64(rule.min, -Big) /\ Upper = AsF64(rule.max, Big)
         /\ Lower \in Int /\ Upper \in Int
         /\ IntLower \in Int /\ IntUpper \in Int
         /\ Null \notin rule.values /\ Null \notin Strings(rule.list)
<1>1. /\ rule.min \in Numbers /\ rule.max \in Numbers /\ rule.values \in SUBSET Int
      /\ rule.list \in SUBSET ({"string", "number"} \X Texts)
  BY DEF RuleObjects
<1>2. \A item \in rule.list : item[2] \in Int
  BY <1>1, TextsAssumption
<1>3. Null \notin Strings(rule.list)
  BY <1>2, ValuesAssumption DEF Strings
<1>. QED
  BY <1>1, <1>3, BigAssumption, ValuesAssumption
  DEF Lower, Upper, Argument, AsF64, IntLower, IntUpper, AsI64, Numbers

\* What is written in a rule that is not misread is what its arm takes from it.
LEMMA ReadAsWritten ==
  ASSUME rule \in RuleObjects, ~ Misread
  PROVE  /\ rule.name \in {"in_set", "not_in_set"} => Strings(rule.list) = Listed
         /\ rule.name = "match_regex" => rule.raw = rule.values /\ rule.raw # NoAnswer
  BY DEF Misread, Strings, Listed, RuleObjects

\* The verdict of such a rule counts the rows its statement keeps, and those
\* are the offending ones unless a NULL key has switched it off.
RowVerdict(s1, s2, T) ==
  /\ T \in SUBSET DOMAIN s2.rows
  /\ \/ Verdict(rule, s1, s2) = Errored /\ (Unanswerable(s2) \/ Misread)
     \/ Verdict(rule, s1, s2) = Tally(s1, s2, T)
     \/ Verdict(rule, s1, s2) = Described(Tally(s1, s2, T))
  /\ ~ Disabled(s2) /\ ~ Unanswerable(s2) /\ ~ Misread => T = Offenders(s2)

LEMMA NotNullTallies ==
  ASSUME rule \in RuleObjects, rule.name = "not_null", NEW s1 \in Snapshots, NEW s2 \in Snapshots
  PROVE  \E T : RowVerdict(s1, s2, T)
<1>. DEFINE Where(v) == IsNull(v)
            T == {i \in DOMAIN s2.rows : Where(Cell(s2.rows, i)) = "true"}
<1>1. Verdict(rule, s1, s2) = Tally(s1, s2, T)
  BY Arms DEF ValuesNotNull, Counted, CountWhere, Kept, Tally
<1>2. ASSUME NEW i \in DOMAIN s2.rows
      PROVE  Where(Cell(s2.rows, i)) = "true" <=> Offends(s2, Cells(s2)[i])
  <2>. DEFINE v == Cell(s2.rows, i)
  <2>1. v \in Values /\ Cells(s2)[i] = v
    BY CellTypes
  <2>. HIDE DEF v
  <2>2. Where(v) = "true" <=> Offends(s2, v)
    BY <2>1, BoundTypes, Conditions, OffendsArms
  <2>. QED
    BY <2>1, <2>2 DEF v
<1>. HIDE DEF Where
<1>3. ~ Disabled(s2) /\ ~ Unanswerable(s2) /\ ~ Misread => T = Offenders(s2)
  BY <1>2 DEF Offenders
<1>. QED
  BY <1>1, <1>3 DEF RowVerdict, Unanswerable, NoValues

LEMMA InRangeTallies ==
  ASSUME rule \in RuleObjects, rule.name = "in_range", NEW s1 \in Snapshots, NEW s2 \in Snapshots
  PROVE  \E T : RowVerdict(s1, s2, T)
<1>. DEFINE Where(v) == Or3(IsNull(v), Or3(Less(v, AsF64(rule.min, -Big)),
                              Less(AsF64(rule.max, Big), v)))
            T == {i \in DOMAIN s2.rows : Where(Cell(s2.rows, i)) = "true"}
<1>1. Verdict(rule, s1, s2) = Tally(s1, s2, T)
  BY Arms DEF ValuesInRange, Counted, CountWhere, Kept, Tally
<1>2. ASSUME NEW i \in DOMAIN s2.rows
      PROVE  Where(Cell(s2.rows, i)) = "true" <=> Offends(s2, Cells(s2)[i])
  <2>. DEFINE v == Cell(s2.rows, i)
  <2>1. v \in Values /\ Cells(s2)[i] = v
    BY CellTypes
  <2>. HIDE DEF v
  <2>2. Where(v) = "true" <=> Offends(s2, v)
    BY <2>1, BoundTypes, Conditions, OffendsArms
  <2>. QED
    BY <2>1, <2>2 DEF v
<1>. HIDE DEF Where
<1>3. ~ Disabled(s2) /\ ~ Unanswerable(s2) /\ ~ Misread => T = Offenders(s2)
  BY <1>2 DEF Offenders
<1>. QED
  BY <1>1, <1>3 DEF RowVerdict, Unanswerable, NoValues

LEMMA MatchRegexTallies ==
  ASSUME rule \in RuleObjects, rule.name = "match_regex", NEW s1 \in Snapshots, NEW s2 \in Snapshots
  PROVE  \E T : RowVerdict(s1, s2, T)
<1>. DEFINE Where(v) == Or3(IsNull(v), Not3(Satisfies(v, rule.raw)))
            T == {i \in DOMAIN s2.rows : Where(Cell(s2.rows, i)) = "true"}
<1>1. Verdict(rule, s1, s2) = IF rule.raw = NoAnswer THEN Errored ELSE Tally(s1, s2, T)
  BY Arms DEF ValuesMatchRegex, Counted, CountWhere, Kept, Tally
<1>2. ASSUME ~ Misread, NEW i \in DOMAIN s2.rows
      PROVE  Where(Cell(s2.rows, i)) = "true" <=> Offends(s2, Cells(s2)[i])
  <2>. DEFINE v == Cell(s2.rows, i)
  <2>1. v \in Values /\ Cells(s2)[i] = v
    BY CellTypes
  <2>. HIDE DEF v
  <2>2. Where(v) = "true" <=> Offends(s2, v)
    BY <1>2, <2>1, BoundTypes, ReadAsWritten, Conditions, OffendsArms
  <2>. QED
    BY <2>1, <2>2 DEF v
<1>. HIDE DEF Where
<1>3. ~ Disabled(s2) /\ ~ Unanswerable(s2) /\ ~ Misread => T = Offenders(s2)
  BY <1>2 DEF Offenders
<1>. QED
  BY <1>1, <1>3, ReadAsWritten DEF RowVerdict, Unanswerable, NoValues

LEMMA ToMatchRegexTallies ==
  ASSUME rule \in RuleObjects, rule.name = "to_match_regex",
         NEW s1 \in Snapshots, NEW s2 \in Snapshots
  PROVE  \E T : RowVerdict(s1, s2, T)
<1>. DEFINE Where(v) == Or3(IsNull(v), Not3(Satisfies(v, rule.values)))
            T == {i \in DOMAIN s2.rows : Where(Cell(s2.rows, i)) = "true"}
<1>1. Verdict(rule, s1, s2) = Tally(s1, s2, T)
  BY Arms DEF ValuesToMatchRegex, Counted, CountWhere, Kept, Tally
<1>2. ASSUME NEW i \in DOMAIN s2.rows
      PROVE  Where(Cell(s2.rows, i)) = "true" <=> Offends(s2, Cells(s2)[i])
  <2>. DEFINE v == Cell(s2.rows, i)
  <2>1. v \in Values /\ Cells(s2)[i] = v
    BY CellTypes
  <2>. HIDE DEF v
  <2>2. Where(v) = "true" <=> Offends(s2, v)
    BY <2>1, BoundTypes, Conditions, OffendsArms
  <2>. QED
    BY <2>1, <2>2 DEF v
<1>. HIDE DEF Where
<1>3. ~ Disabled(s2) /\ ~ Unanswerable(s2) /\ ~ Misread => T = Offenders(s2)
  BY <1>2 DEF Offenders
<1>. QED
  BY <1>1, <1>3 DEF RowVerdict, Unanswerable, NoValues

LEMMA InSetTallies ==
  ASSUME rule \in RuleObjects, rule.name = "in_set", NEW s1 \in Snapshots, NEW s2 \in Snapshots
  PROVE  \E T : RowVerdict(s1, s2, T)
<1>. DEFINE Where(v) == Or3(IsNull(v), Not3(In(v, Strings(rule.list))))
            T == {i \in DOMAIN s2.rows : Where(Cell(s2.rows, i)) = "true"}
<1>1. Verdict(rule, s1, s2) = IF Strings(rule.list) = {} THEN Errored ELSE Tally(s1, s2, T)
  BY Arms DEF ValuesInSet, Counted, CountWhere, Kept, Tally
<1>2. ASSUME ~ Misread, NEW i \in DOMAIN s2.rows
      PROVE  Where(Cell(s2.rows, i)) = "true" <=> Offends(s2, Cells(s2)[i])
  <2>. DEFINE v == Cell(s2.rows, i)
  <2>1. v \in Values /\ Cells(s2)[i] = v
    BY CellTypes
  <2>. HIDE DEF v
  <2>2. Where(v) = "true" <=> Offends(s2, v)
    BY <1>2, <2>1, BoundTypes, ReadAsWritten, Conditions, OffendsArms
  <2>. QED
    BY <2>1, <2>2 DEF v
<1>. HIDE DEF Where
<1>3. ~ Disabled(s2) /\ ~ Unanswerable(s2) /\ ~ Misread => T = Offenders(s2)
  BY <1>2 DEF Offenders
<1>. QED
  BY <1>1, <1>3 DEF RowVerdict, Unanswerable, NoValues

LEMMA RelationshipTallies ==
  ASSUME rule \in RuleObjects, rule.name = "relationship", NEW s1 \in Snapshots, NEW s2 \in Snapshots
  PROVE  \E T : RowVerdict(s1, s2, T)
<1>. DEFINE Where(v) == And3(Not3(IsNull(v)), Not3(In(v, s2.keys)))
            T == {i \in DOMAIN s2.rows : Where(Cell(s2.rows, i)) = "true"}
<1>1. Verdict(rule, s1, s2) = IF s2.keys = NoTable THEN Errored ELSE Tally(s1, s2, T)
  BY Arms DEF Relationship, Counted, CountWhere, Kept, Tally
<1>2. ASSUME ~ Disabled(s2), ~ Unanswerable(s2), NEW i \in DOMAIN s2.rows
      PROVE  Where(Cell(s2.rows, i)) = "true" <=> Offends(s2, Cells(s2)[i])
  <2>1. s2.keys # NoTable /\ Null \notin s2.keys
    BY <1>2 DEF Disabled, Unanswerable
  <2>. DEFINE v == Cell(s2.rows, i)
  <2>2. v \in Values /\ Cells(s2)[i] = v
    BY CellTypes
  <2>. HIDE DEF v
  <2>3. Where(v) = "true" <=> (v # Null /\ v \notin s2.keys)
    BY <2>1, <2>2, BoundTypes, Conditions
  <2>. QED
    BY <2>1, <2>2, <2>3, OffendsArms DEF v
<1>. HIDE DEF Where
<1>3. ~ Disabled(s2) /\ ~ Unanswerable(s2) /\ ~ Misread => T = Offenders(s2)
  BY <1>2 DEF Offenders
<1>. QED
  BY <1>1, <1>3 DEF RowVerdict, Unanswerable, NoValues

LEMMA CustomSqlTallies ==
  ASSUME rule \in RuleObjects, rule.name = "custom_sql", NEW s1 \in Snapshots, NEW s2 \in Snapshots
  PROVE  \E T : RowVerdict(s1, s2, T)
<1>. DEFINE Where(v) == Holds(v \in rule.values)
            T == {i \in DOMAIN s2.rows : Where(Cell(s2.rows, i)) = "true"}
<1>1. Verdict(rule, s1, s2) = Tally(s1, s2, T)
  BY Arms DEF CustomSql, Counted, CountWhere, Kept, Tally
<1>2. ASSUME NEW i \in DOMAIN s2.rows
      PROVE  Where(Cell(s2.rows, i)) = "true" <=> Offends(s2, Cells(s2)[i])
  <2>. DEFINE v == Cell(s2.rows, i)
  <2>1. v \in Values /\ Cells(s2)[i] = v
    BY CellTypes
  <2>. HIDE DEF v
  <2>2. Where(v) = "true" <=> Offends(s2, v)
    BY <2>1, BoundTypes, Conditions, OffendsArms
  <2>. QED
    BY <2>1, <2>2 DEF v
<1>. HIDE DEF Where
<1>3. ~ Disabled(s2) /\ ~ Unanswerable(s2) /\ ~ Misread => T = Offenders(s2)
  BY <1>2 DEF Offenders
<1>. QED
  BY <1>1, <1>3 DEF RowVerdict, Unanswerable, NoValues

LEMMA NotInSetTallies ==
  ASSUME rule \in RuleObjects, rule.name = "not_in_set", NEW s1 \in Snapshots, NEW s2 \in Snapshots
  PROVE  \E T : RowVerdict(s1, s2, T)
<1>. DEFINE Where(v) == In(v, Strings(rule.list))
            T == {i \in DOMAIN s2.rows : Where(Cell(s2.rows, i)) = "true"}
<1>1. Verdict(rule, s1, s2) = IF Strings(rule.list) = {} THEN Errored ELSE Described(Tally(s1, s2, T))
  BY Arms DEF ValuesNotInSet, Counted, CountWhere, Kept, Tally
<1>2. ASSUME ~ Misread, NEW i \in DOMAIN s2.rows
      PROVE  Where(Cell(s2.rows, i)) = "true" <=> Offends(s2, Cells(s2)[i])
  <2>. DEFINE v == Cell(s2.rows, i)
  <2>1. v \in Values /\ Cells(s2)[i] = v
    BY CellTypes
  <2>. HIDE DEF v
  <2>2. Where(v) = "true" <=> Offends(s2, v)
    BY <1>2, <2>1, BoundTypes, ReadAsWritten, Conditions, OffendsArms
  <2>. QED
    BY <2>1, <2>2 DEF v
<1>. HIDE DEF Where
<1>3. ~ Disabled(s2) /\ ~ Unanswerable(s2) /\ ~ Misread => T = Offenders(s2)
  BY <1>2 DEF Offenders
<1>. QED
  BY <1>1, <1>3 DEF RowVerdict, Unanswerable, NoValues

LEMMA NotMatchRegexTallies ==
  ASSUME rule \in RuleObjects, rule.name = "not_match_regex", NEW s1 \in Snapshots, NEW s2 \in Snapshots
  PROVE  \E T : RowVerdict(s1, s2, T)
<1>. DEFINE Where(v) == Satisfies(v, rule.values)
            T == {i \in DOMAIN s2.rows : Where(Cell(s2.rows, i)) = "true"}
<1>1. Verdict(rule, s1, s2) = Described(Tally(s1, s2, T))
  BY Arms DEF ValuesNotMatchRegex, Counted, CountWhere, Kept, Tally
<1>2. ASSUME NEW i \in DOMAIN s2.rows
      PROVE  Where(Cell(s2.rows, i)) = "true" <=> Offends(s2, Cells(s2)[i])
  <2>. DEFINE v == Cell(s2.rows, i)
  <2>1. v \in Values /\ Cells(s2)[i] = v
    BY CellTypes
  <2>. HIDE DEF v
  <2>2. Where(v) = "true" <=> Offends(s2, v)
    BY <2>1, BoundTypes, Conditions, OffendsArms
  <2>. QED
    BY <2>1, <2>2 DEF v
<1>. HIDE DEF Where
<1>3. ~ Disabled(s2) /\ ~ Unanswerable(s2) /\ ~ Misread => T = Offenders(s2)
  BY <1>2 DEF Offenders
<1>. QED
  BY <1>1, <1>3 DEF RowVerdict, Unanswerable, NoValues

LEMMA StrftimeFormatTallies ==
  ASSUME rule \in RuleObjects, rule.name = "strftime_format", NEW s1 \in Snapshots, NEW s2 \in Snapshots
  PROVE  \E T : RowVerdict(s1, s2, T)
<1>. DEFINE Where(v) == And3(Not3(IsNull(v)),
             Holds(v = Null \/ v \notin rule.values))
            T == {i \in DOMAIN s2.rows : Where(Cell(s2.rows, i)) = "true"}
<1>1. Verdict(rule, s1, s2) = Described(Tally(s1, s2, T))
  BY Arms DEF ValuesMatchStrftime, Counted, CountWhere, Kept, Tally
<1>2. ASSUME NEW i \in DOMAIN s2.rows
      PROVE  Where(Cell(s2.rows, i)) = "true" <=> Offends(s2, Cells(s2)[i])
  <2>. DEFINE v == Cell(s2.rows, i)
  <2>1. v \in Values /\ Cells(s2)[i] = v
    BY CellTypes
  <2>. HIDE DEF v
  <2>2. Where(v) = "true" <=> Offends(s2, v)
    BY <2>1, BoundTypes, Conditions, OffendsArms
  <2>. QED
    BY <2>1, <2>2 DEF v
<1>. HIDE DEF Where
<1>3. ~ Disabled(s2) /\ ~ Unanswerable(s2) /\ ~ Misread => T = Offenders(s2)
  BY <1>2 DEF Offenders
<1>. QED
  BY <1>1, <1>3 DEF RowVerdict, Unanswerable, NoValues

---------------------------------------------------------------------------
(* Counts of values *)

\* The cells of a set of rows: no more than the rows, and as many only when
\* they are all different.
LEMMA ImageSize ==
  ASSUME NEW S, IsFiniteSet(S), NEW f, S \subseteq DOMAIN f
  PROVE  LET T == {f[i] : i \in S}
         IN /\ IsFiniteSet(T) /\ Cardinality(T) \in Nat /\ Cardinality(T) <= Cardinality(S)
            /\ Cardinality(T) = Cardinality(S) <=> \A i, j \in S : i # j => f[i] # f[j]
<1>. DEFINE T == {f[i] : i \in S}
            g == [i \in S |-> f[i]]
<1>1. g \in Surjection(S, T)
  BY DEF Surjection
<1>2. /\ IsFiniteSet(T) /\ Cardinality(T) <= Cardinality(S)
      /\ Cardinality(T) = Cardinality(S) <=> g \in Injection(S, T)
  BY <1>1, FS_Surjection
<1>3. g \in Injection(S, T) <=> \A i, j \in S : i # j => f[i] # f[j]
  BY <1>1 DEF Injection, IsInjective, Surjection
<1>. QED
  BY <1>2, <1>3, FS_CardinalityType

LEMMA DistinctSizes ==
  ASSUME NEW s \in Snapshots
  PROVE  /\ Cardinality(Present(s.rows)) \in Nat /\ IsFiniteSet(Present(s.rows))
         /\ Cardinality(Present(s.rows)) <= Len(s.rows)
         /\ Cardinality(Distinct(s.rows)) \in Nat
         /\ Cardinality(Distinct(s.rows)) <= Cardinality(Present(s.rows))
         /\ Cardinality(DistinctRows(s.rows)) \in Nat
<1>. DEFINE P == Present(s.rows)
<1>1. P \in SUBSET DOMAIN s.rows
  BY DEF Present
<1>2. /\ IsFiniteSet(P) /\ Cardinality(P) \in Nat /\ Cardinality(P) <= Len(s.rows)
      /\ IsFiniteSet(DOMAIN s.rows)
  BY <1>1, RowSetsAreFinite
<1>3. Distinct(s.rows) = {Cells(s)[i] : i \in P}
  BY <1>1, CellTypes DEF Distinct
<1>4. DOMAIN Cells(s) = DOMAIN s.rows
  BY DEF Cells
<1>. HIDE DEF P
<1>5. /\ Cardinality({Cells(s)[i] : i \in P}) \in Nat
      /\ Cardinality({Cells(s)[i] : i \in P}) <= Cardinality(P)
  BY <1>1, <1>2, <1>4, ImageSize
<1>6. Cardinality({s.rows[i] : i \in DOMAIN s.rows}) \in Nat
  BY <1>2, ImageSize
<1>. QED
  BY <1>2, <1>3, <1>5, <1>6 DEF P, DistinctRows

\* The column in the terms of the statements and in those of the rules.
LEMMA ColumnFacts ==
  ASSUME NEW d \in Snapshots
  PROVE  /\ Full(d) = Present(d.rows) /\ IsFiniteSet(Full(d)) /\ Cardinality(Full(d)) \in Nat
         /\ Full(d) \subseteq DOMAIN d.rows
         /\ \A i \in Full(d) : Cells(d)[i] \in Int /\ Cells(d)[i] = Cell(d.rows, i)
         /\ Distinct(d.rows) = {Cells(d)[i] : i \in Full(d)}
         /\ IsFiniteSet(Distinct(d.rows)) /\ Cardinality(Distinct(d.rows)) \in Nat
         /\ Len(d.rows) \in Nat /\ DOMAIN d.rows = 1..Len(d.rows)
         /\ Cardinality(NullCells(d)) = Len(d.rows) - Cardinality(Full(d))
         /\ Cardinality(NullCells(d)) \in Nat
<1>1. Full(d) = Present(d.rows) /\ Full(d) \subseteq DOMAIN d.rows
  BY CellTypes DEF Full, NullCells, Present
<1>2. IsFiniteSet(Full(d)) /\ Cardinality(Full(d)) \in Nat /\ IsFiniteSet(DOMAIN d.rows)
      /\ Cardinality(DOMAIN d.rows) = Len(d.rows)
  BY <1>1, RowSetsAreFinite
<1>3. ASSUME NEW i \in Full(d) PROVE Cells(d)[i] \in Int /\ Cells(d)[i] = Cell(d.rows, i)
  <2>1. Cell(d.rows, i) # Null
    BY <1>1 DEF Present
  <2>. QED
    BY <1>1, <2>1, CellTypes DEF Values
<1>4. Distinct(d.rows) = {Cells(d)[i] : i \in Full(d)}
  BY <1>1, <1>3 DEF Distinct
<1>5. IsFiniteSet(Distinct(d.rows)) /\ Cardinality(Distinct(d.rows)) \in Nat
  <2>1. Full(d) \subseteq DOMAIN Cells(d)
    BY <1>1 DEF Cells
  <2>. QED
    BY <1>2, <1>4, <2>1, ImageSize
<1>6. Len(d.rows) \in Nat /\ DOMAIN d.rows = 1..Len(d.rows)
  BY DEF Snapshots
<1>7. Cardinality(NullCells(d)) = Len(d.rows) - Cardinality(Full(d))
      /\ Cardinality(NullCells(d)) \in Nat
  <2>1. NullCells(d) = DOMAIN d.rows \ Full(d) /\ NullCells(d) \in SUBSET DOMAIN d.rows
    BY DEF Full, NullCells
  <2>2. Cardinality(NullCells(d)) = Cardinality(DOMAIN d.rows) - Cardinality(DOMAIN d.rows \cap Full(d))
    BY <1>2, <2>1, FS_Difference
  <2>3. DOMAIN d.rows \cap Full(d) = Full(d)
    BY <1>1
  <2>. QED
    BY <1>2, <2>1, <2>2, <2>3, RowSetsAreFinite
<1>. QED
  BY <1>1, <1>2, <1>3, <1>4, <1>5, <1>6, <1>7

---------------------------------------------------------------------------
(* The types of a verdict, arm by arm *)

LEMMA MeasuredRows ==
  ASSUME NEW s \in Snapshots, NEW b \in BOOLEAN
  PROVE  /\ Measured(s, Len(s.rows), b) \in Verdicts
         /\ DescribedMeasure(Measured(s, Len(s.rows), b)) \in Verdicts
         /\ ~ s.exists =>
              /\ Measured(s, Len(s.rows), b) = Errored
              /\ DescribedMeasure(Measured(s, Len(s.rows), b)) = Errored
<1>. DEFINE l == Len(s.rows)
<1>1. l \in Nat
  BY DEF Snapshots
<1>. HIDE DEF l
<1>2. Measured(s, l, b) \in Verdicts /\ (~ s.exists => Measured(s, l, b) = Errored)
  BY <1>1, MeasuredType
<1>3. /\ DescribedMeasure(Measured(s, l, b)) \in Verdicts
      /\ DescribedMeasure(Measured(s, l, b)).passed = Measured(s, l, b).passed
  BY <1>2, DescribedMeasureType
<1>. QED
  BY <1>2, <1>3, ErroredType DEF l

LEMMA CountedRows ==
  ASSUME NEW s \in Snapshots, NEW n \in Int
  PROVE  /\ Result(n = 0, Len(s.rows), n, FALSE) \in Verdicts
         /\ Result(n = 0, Len(s.rows), n, FALSE).row_count = Len(s.rows)
         /\ Result(n = 0, Len(s.rows), n, FALSE).failed_count = n
         /\ Result(n = 0, Len(s.rows), n, FALSE).passed <=> n = 0
<1>. DEFINE l == Len(s.rows)
            b == n = 0
<1>1. l \in Nat /\ b \in BOOLEAN
  BY DEF Snapshots
<1>0. b <=> n = 0
  OBVIOUS
<1>. HIDE DEF l, b
<1>2. /\ Result(b, l, n, FALSE) \in Verdicts
      /\ Result(b, l, n, FALSE).row_count = l
      /\ Result(b, l, n, FALSE).failed_count = n
      /\ Result(b, l, n, FALSE).passed = b
  BY <1>1, ResultType
<1>3. Result(b, l, n, FALSE).passed <=> n = 0
  BY <1>0, <1>2, Zenon
<1>. QED
  BY <1>2, <1>3, Zenon DEF l, b

\* An assertion that finds no table, or has no answer from the catalog.
Sound(p, s1, s2) ==
  /\ Verdict(p, s1, s2) \in Verdicts
  /\ ~ s1.exists /\ (p.name \in CatalogRules => ~ Answered(s1)) => Verdict(p, s1, s2) = Errored

\* The rules that measure the table in one statement.
LEMMA MeasuresAreSound ==
  ASSUME NEW p, NEW s1 \in Snapshots, NEW s2,
         p.name \in {"row_count_between", "metric_between", "proportion_between",
                     "quantile_between", "lengths_between", "row_count_to_equal",
                     "median_between"}
  PROVE  Sound(p, s1, s2)
<1>1. CASE p.name = "row_count_between"
  <2>. DEFINE b == Within(Len(s1.rows), AsI64(p.min, 0), AsI64(p.max, Big))
  <2>1. b \in BOOLEAN
    BY DEF Within
  <2>2. Verdict(p, s1, s2) = Measured(s1, Len(s1.rows), b)
    BY <1>1, Arms DEF RowCountBetween
  <2>. HIDE DEF b
  <2>. QED
    BY <2>1, <2>2, MeasuredRows DEF Sound, CatalogRules
<1>2. CASE p.name = "metric_between"
  <2>. DEFINE b == MetricWithin(p.agg, s1.rows, AsF64(p.min, -Big), AsF64(p.max, Big))
  <2>1. b \in BOOLEAN
    BY DEF MetricWithin, AggWithin, RootWithin
  <2>2. Verdict(p, s1, s2) = Measured(s1, Len(s1.rows), b)
    BY <1>2, Arms DEF MetricBetween
  <2>. HIDE DEF b
  <2>. QED
    BY <2>1, <2>2, MeasuredRows DEF Sound, CatalogRules
<1>3. CASE p.name = "proportion_between"
  <2>. DEFINE b == AggWithin(IF p.agg = "null" THEN NullProportion(s1.rows)
                         ELSE UniqueProportion(s1.rows), AsF64(p.min, -Big), AsF64(p.max, Big))
  <2>1. b \in BOOLEAN
    BY DEF AggWithin
  <2>2. Verdict(p, s1, s2) = Measured(s1, Len(s1.rows), b)
    BY <1>3, Arms DEF ProportionBetween
  <2>. HIDE DEF b
  <2>. QED
    BY <2>1, <2>2, MeasuredRows DEF Sound, CatalogRules
<1>4. CASE p.name = "quantile_between"
  <2>. DEFINE b == AggWithin(QuantileAgg(s1.rows, p.quantile), AsF64(p.min, -Big), AsF64(p.max, Big))
  <2>1. b \in BOOLEAN
    BY DEF AggWithin
  <2>2. Verdict(p, s1, s2) = Measured(s1, Len(s1.rows), b)
    BY <1>4, Arms DEF QuantileBetween
  <2>. HIDE DEF b
  <2>. QED
    BY <2>1, <2>2, MeasuredRows DEF Sound, CatalogRules
<1>5. CASE p.name = "lengths_between"
  <2>. DEFINE b == LengthsWithin(s1.rows, AsI64(p.min, 0), AsI64(p.max, Big))
  <2>1. b \in BOOLEAN
    BY DEF LengthsWithin
  <2>2. Verdict(p, s1, s2) = DescribedMeasure(Measured(s1, Len(s1.rows), b))
    BY <1>5, Arms DEF ValueLengthsBetween
  <2>. HIDE DEF b
  <2>. QED
    BY <2>1, <2>2, MeasuredRows DEF Sound, CatalogRules
<1>6. CASE p.name = "row_count_to_equal"
  <2>. DEFINE b == Len(s1.rows) = AsI64(p.value, -1)
  <2>1. b \in BOOLEAN
    OBVIOUS
  <2>2. Verdict(p, s1, s2) = DescribedMeasure(Measured(s1, Len(s1.rows), b))
    BY <1>6, Arms DEF RowCountToEqual
  <2>. HIDE DEF b
  <2>. QED
    BY <2>1, <2>2, MeasuredRows DEF Sound, CatalogRules
<1>7. CASE p.name = "median_between"
  <2>. DEFINE b == AggWithin(MedianAgg(s1.rows), AsF64(p.min, -Big), AsF64(p.max, Big))
  <2>1. b \in BOOLEAN
    BY DEF AggWithin
  <2>2. Verdict(p, s1, s2) = DescribedMeasure(Measured(s1, Len(s1.rows), b))
    BY <1>7, Arms DEF MedianBetween
  <2>. HIDE DEF b
  <2>. QED
    BY <2>1, <2>2, MeasuredRows DEF Sound, CatalogRules
<1>. QED
  BY <1>1, <1>2, <1>3, <1>4, <1>5, <1>6, <1>7

\* The rules that look at the catalog.
LEMMA ColumnsListedType ==
  ASSUME NEW s \in Snapshots, Answered(s)
  PROVE  ColumnsListed(s) \in Nat
<1>1. s.elsewhere = NoTable \/ s.elsewhere.columns \in Nat
  BY DEF Snapshots, Answered, Elsewhere
<1>2. s.columns \in Nat
  BY DEF Snapshots
<1>. QED
  BY <1>1, <1>2 DEF ColumnsListed

LEMMA CatalogRulesAreSound ==
  ASSUME NEW p, NEW s1 \in Snapshots, NEW s2, p.name \in CatalogRules
  PROVE  Sound(p, s1, s2)
<1>1. CASE p.name = "column_count_between"
  <2>. DEFINE n == ColumnsListed(s1)
              b == Within(n, AsI64(p.min, 0), AsI64(p.max, Big))
              f == IF b THEN 0 ELSE 1
  <2>1. Answered(s1) => n \in Nat
    BY ColumnsListedType
  <2>2. b \in BOOLEAN /\ f \in Int
    BY DEF Within
  <2>3. Verdict(p, s1, s2) = IF Answered(s1) THEN Result(b, n, f, FALSE) ELSE Errored
    BY <1>1, Arms DEF ColumnCountBetween, Answered
  <2>. HIDE DEF n, b, f
  <2>4. Answered(s1) => Result(b, n, f, FALSE) \in Verdicts
    BY <2>1, <2>2, ResultType
  <2>. QED
    BY <2>3, <2>4, ErroredType DEF Sound
<1>2. CASE p.name = "of_type"
  <2>. DEFINE b == TypeListed(s1) = p.type
              f == IF b THEN 0 ELSE 1
  <2>1. b \in BOOLEAN /\ f \in Int
    OBVIOUS
  <2>2. Verdict(p, s1, s2)
          = IF NoColumn(s1) THEN Errored ELSE DescribedMeasure(Result(b, 0, f, FALSE))
    BY <1>2, Arms DEF OfType, Typed
  <2>. HIDE DEF b, f
  <2>3. Result(b, 0, f, FALSE) \in Verdicts
    BY <2>1, ResultType
  <2>4. DescribedMeasure(Result(b, 0, f, FALSE)) \in Verdicts
    BY <2>3, DescribedMeasureType
  <2>5. ~ Answered(s1) => NoColumn(s1)
    BY DEF Answered, NoColumn
  <2>. QED
    BY <2>2, <2>4, <2>5, ErroredType DEF Sound, CatalogRules
<1>. QED
  BY <1>1, <1>2 DEF CatalogRules

\* The rules that count duplicates, NULLs and inversions.
LEMMA CountsAreSound ==
  ASSUME NEW p, NEW s1 \in Snapshots, NEW s2 \in Snapshots,
         p.name \in {"unique", "unique_together", "null_count_between", "sorted"}
  PROVE  Sound(p, s1, s2)
<1>1. CASE p.name = "unique"
  <2>. DEFINE n == IF s2.exists THEN Len(s1.rows) - Cardinality(Distinct(s2.rows)) ELSE -1
  <2>1. n \in Int
    BY DistinctSizes, RowSetsAreFinite
  <2>2. Verdict(p, s1, s2)
          = IF s1.exists THEN Result(n = 0, Len(s1.rows), n, FALSE) ELSE Errored
    BY <1>1, Arms DEF ValuesUnique
  <2>. HIDE DEF n
  <2>. QED
    BY <2>1, <2>2, CountedRows, ErroredType DEF Sound, CatalogRules
<1>2. CASE p.name = "unique_together"
  <2>. DEFINE n == Len(s1.rows) - Cardinality(DistinctRows(s1.rows))
  <2>1. n \in Int
    BY DistinctSizes, RowSetsAreFinite
  <2>2. \/ Verdict(p, s1, s2)
              = IF s1.exists THEN Result(n = 0, Len(s1.rows), n, FALSE) ELSE Errored
        \/ Verdict(p, s1, s2) = Errored
    BY <1>2, Arms DEF UniqueTogether, RowsDistinct
  <2>. HIDE DEF n
  <2>. QED
    BY <2>1, <2>2, CountedRows, ErroredType DEF Sound, CatalogRules
<1>3. CASE p.name = "null_count_between"
  <2>. DEFINE nulls == Len(s1.rows) - Cardinality(Present(s1.rows))
              b == Within(nulls, AsI64(p.min, 0), AsI64(p.max, Big))
              c == ~ b
              f == IF b THEN 0 ELSE nulls
              l == Len(s1.rows)
  <2>1. nulls \in Int /\ l \in Nat
    BY DistinctSizes, RowSetsAreFinite
  <2>2. b \in BOOLEAN /\ c \in BOOLEAN /\ f \in Int
    BY <2>1 DEF Within
  <2>3. Verdict(p, s1, s2) = IF s1.exists THEN Result(b, l, f, c) ELSE Errored
    BY <1>3, Arms DEF NullCountBetween
  <2>. HIDE DEF nulls, b, c, f, l
  <2>. QED
    BY <2>1, <2>2, <2>3, ResultType, ErroredType DEF Sound, CatalogRules
<1>4. CASE p.name = "sorted"
  <2>. DEFINE Bad(v, prev) == IF p.descending THEN Less(prev, v) ELSE Less(v, prev)
              I == {i \in 2..Len(s1.rows) : Bad(Cell(s1.rows, i), Cell(s1.rows, i - 1)) = "true"}
              n == Cardinality(I)
  <2>1. I \in SUBSET DOMAIN s1.rows
    BY DEF Snapshots
  <2>2. n \in Int
    BY <2>1, RowSetsAreFinite
  <2>3. Verdict(p, s1, s2)
          = IF s1.exists THEN Described(Result(n = 0, Len(s1.rows), n, FALSE)) ELSE Errored
    BY <1>4, Arms DEF ValuesSorted, Inversions
  <2>. HIDE DEF n
  <2>4. Result(n = 0, Len(s1.rows), n, FALSE) \in Verdicts
    BY <2>2, CountedRows
  <2>5. Described(Result(n = 0, Len(s1.rows), n, FALSE)) \in Verdicts
    BY <2>4, DescribedType
  <2>. QED
    BY <1>4, <2>3, <2>5, ErroredType DEF Sound, CatalogRules
<1>. QED
  BY <1>1, <1>2, <1>3, <1>4

LEMMA RowRulesTally ==
  ASSUME rule \in RuleObjects, rule.name \in RowRules, NEW s1 \in Snapshots, NEW s2 \in Snapshots
  PROVE  \E T : RowVerdict(s1, s2, T)
  BY NotNullTallies, InRangeTallies, MatchRegexTallies, ToMatchRegexTallies, InSetTallies,
     RelationshipTallies, CustomSqlTallies, NotInSetTallies, NotMatchRegexTallies, StrftimeFormatTallies
  DEF RowRules

\* Whatever its rule, a verdict has its type, and a table that is missing when
\* the first statement runs is an error.
LEMMA VerdictsAreSound ==
  ASSUME rule \in RuleObjects, NEW s1 \in Snapshots, NEW s2 \in Snapshots
  PROVE  Sound(rule, s1, s2)
<1>1. CASE rule.name \in RowRules
  <2>1. PICK T : RowVerdict(s1, s2, T)
    BY <1>1, RowRulesTally
  <2>2. /\ Tally(s1, s2, T) \in Verdicts
        /\ ~ s1.exists => Tally(s1, s2, T) = Errored
    BY <2>1, TallyType DEF RowVerdict
  <2>3. Described(Tally(s1, s2, T)) \in Verdicts
    BY <2>2, DescribedType
  <2>. QED
    BY <2>1, <2>2, <2>3, ErroredType DEF RowVerdict, Sound
<1>2. CASE rule.name \notin RowRules
  <2>1. rule.name \in RuleNames
    BY DEF RuleObjects
  <2>2. rule.name \in {"row_count_between", "metric_between", "proportion_between",
                       "quantile_between", "lengths_between", "row_count_to_equal",
                       "median_between", "column_count_between", "of_type", "unique",
                       "unique_together", "null_count_between", "sorted"}
    BY <1>2, <2>1 DEF RuleNames, RowRules, TwoStatements
  <2>. QED
    BY <2>2, MeasuresAreSound, CatalogRulesAreSound, CountsAreSound DEF CatalogRules
<1>. QED
  BY <1>1, <1>2

---------------------------------------------------------------------------
(* The check and the commits around it *)

\* What the statements of a check may have been told.
Heard == UNION {Replies(d) : d \in seen}

\* A check that is done has its verdict from the replies it has had; only an
\* answered statement is followed by a second one.
Progress ==
  \/ pc = "first" /\ snap = <<>> /\ seen = {}
  \/ /\ pc = "second" /\ snap \in Seq(Heard) /\ Len(snap) = 1 /\ db \in seen
     /\ snap[1].exists /\ rule.name \in TwoStatements
  \/ /\ pc = "done" /\ snap \in Seq(Heard) /\ Len(snap) \in 1..2
     /\ Len(snap) = 2 => snap[1].exists /\ rule.name \in TwoStatements
     /\ verdict = Verdict(rule, snap[1], snap[Len(snap)])

\* The inductive invariant.
RInv == /\ db \in Contents /\ seen \subseteq Contents /\ rule \in RuleObjects
        /\ commits \in 0..MaxCommits /\ verdict \in Verdicts
        /\ Progress

LEMMA InitRInv == ASSUME Init PROVE RInv
<1>1. rule \in RuleObjects /\ db \in Contents
  BY CasesAssumption DEF Init
<1>. QED
  BY <1>1, ErroredType, BoundAssumption DEF Init, RInv, Progress

LEMMA FirstStatementRInv == ASSUME RInv, FirstStatement PROVE RInv'
<1>1. PICK s \in Replies(db) :
        /\ snap' = <<s>>
        /\ \/ pc' = "second" /\ UNCHANGED verdict /\ s.exists /\ rule.name \in TwoStatements
           \/ pc' = "done" /\ verdict' = Verdict(rule, s, s)
  BY DEF FirstStatement
<1>2. UNCHANGED <<db, rule, commits>> /\ seen' = {db}
  BY DEF FirstStatement
<1>3. Verdict(rule, s, s) \in Verdicts
  <2>1. s \in Snapshots
    BY RepliesType DEF RInv
  <2>. QED
    BY <2>1, VerdictsAreSound DEF RInv, Sound
<1>4. snap' \in Seq(Heard') /\ Len(snap') = 1 /\ snap'[1] = s /\ db' \in seen'
  <2>1. s \in Heard'
    BY <1>2 DEF Heard
  <2>. HIDE DEF Heard
  <2>. QED
    BY <1>1, <1>2, <2>1
<1>5. Progress'
  <2>1. CASE pc' = "second" /\ s.exists /\ rule.name \in TwoStatements
    BY <1>2, <1>4, <2>1 DEF Progress
  <2>2. CASE pc' = "done" /\ verdict' = Verdict(rule, s, s)
    <3>1. snap'[1] = s /\ snap'[Len(snap')] = s /\ rule' = rule
      BY <1>2, <1>4
    <3>2. verdict' = Verdict(rule', snap'[1], snap'[Len(snap')])
      BY <2>2, <3>1, Zenon
    <3>3. Len(snap') \in 1..2 /\ Len(snap') # 2
      BY <1>4
    <3>. QED
      BY <1>4, <2>2, <3>2, <3>3, Zenon DEF Progress
  <2>. QED
    BY <1>1, <2>1, <2>2
<1>. QED
  BY <1>1, <1>2, <1>3, <1>5 DEF RInv

LEMMA SecondStatementRInv == ASSUME RInv, SecondStatement PROVE RInv'
<1>1. PICK s \in Replies(db) : snap' = Append(snap, s) /\ verdict' = Verdict(rule, snap[1], s)
  BY DEF SecondStatement
<1>2. pc = "second" /\ pc' = "done" /\ UNCHANGED <<db, rule, seen, commits>>
  BY DEF SecondStatement
<1>3. /\ snap \in Seq(Heard) /\ Len(snap) = 1 /\ db \in seen
      /\ snap[1].exists /\ rule.name \in TwoStatements
  BY <1>2 DEF RInv, Progress
<1>4. s \in Heard /\ Heard' = Heard
  BY <1>2, <1>3 DEF Heard
<1>5. /\ snap' \in Seq(Heard') /\ Len(snap') = 2
      /\ snap'[1] = snap[1] /\ snap'[Len(snap')] = s
  <2>1. \A q \in Seq(Heard), d \in Heard :
          /\ Append(q, d) \in Seq(Heard) /\ Len(Append(q, d)) = Len(q) + 1
          /\ Append(q, d)[Len(q) + 1] = d
          /\ \A i \in 1..Len(q) : Append(q, d)[i] = q[i]
    OBVIOUS
  <2>2. 1 \in 1..Len(snap)
    BY <1>3
  <2>. DEFINE t == Append(snap, s)
  <2>3. /\ t \in Seq(Heard) /\ Len(t) = Len(snap) + 1
        /\ t[1] = snap[1] /\ t[Len(snap) + 1] = s
    BY <1>3, <1>4, <2>1, <2>2, Zenon
  <2>. HIDE DEF t
  <2>4. t \in Seq(Heard) /\ Len(t) = 2 /\ t[1] = snap[1] /\ t[2] = s
    BY <1>3, <2>3
  <2>5. snap' = t
    BY <1>1 DEF t
  <2>. QED
    BY <1>4, <2>4, <2>5
<1>6. verdict' \in Verdicts
  <2>0. \A q \in Seq(Heard) : \A i \in 1..Len(q) : q[i] \in Heard
    OBVIOUS
  <2>1. snap[1] \in Heard
    <3>1. 1 \in 1..Len(snap)
      BY <1>3
    <3>. QED
      BY <1>3, <2>0, <3>1, Zenon
  <2>2. snap[1] \in Snapshots /\ s \in Snapshots
    BY <1>4, <2>1, RepliesType DEF RInv, Heard
  <2>. QED
    BY <1>1, <2>2, VerdictsAreSound DEF RInv, Sound
<1>7. Progress'
  <2>1. rule' = rule
    BY <1>2
  <2>2. verdict' = Verdict(rule', snap'[1], snap'[Len(snap')])
    BY <1>1, <1>5, <2>1, Zenon
  <2>3. Len(snap') \in 1..2 /\ snap'[1].exists /\ rule'.name \in TwoStatements
    BY <1>3, <1>5, <2>1
  <2>. QED
    BY <1>2, <1>5, <2>2, <2>3, Zenon DEF Progress
<1>. QED
  BY <1>2, <1>6, <1>7 DEF RInv

\* Other sessions change rows and keys, and drop the table.
LEMMA CommitRInv ==
  ASSUME RInv, NEW new \in Contents, Commit(new)
  PROVE  RInv'
<1>1. /\ UNCHANGED <<rule, pc, snap, verdict>> /\ db' = new
      /\ commits' = commits + 1 /\ commits < MaxCommits
      /\ seen' = IF pc = "second" THEN seen \cup {new} ELSE seen
  BY DEF Commit
<1>2. commits' \in 0..MaxCommits
  BY <1>1, BoundAssumption DEF RInv
<1>3. seen' \subseteq Contents
  BY <1>1 DEF RInv
<1>4. Progress'
  <2>1. CASE pc = "second"
    <3>1. snap \in Seq(Heard) /\ seen' = seen \cup {new}
      BY <1>1, <2>1 DEF RInv, Progress
    <3>2. Heard \subseteq Heard'
      BY <3>1 DEF Heard
    <3>3. snap \in Seq(Heard')
      BY <3>1, <3>2
    <3>. QED
      BY <1>1, <2>1, <3>1, <3>3 DEF RInv, Progress
  <2>2. CASE pc = "first"
    BY <1>1, <2>2 DEF RInv, Progress
  <2>3. CASE pc = "done"
    <3>1. UNCHANGED <<rule, pc, snap, verdict, seen>>
      BY <1>1, <2>3
    <3>2. Heard' = Heard
      BY <3>1 DEF Heard
    <3>. QED
      BY <2>3, <3>1, <3>2 DEF RInv, Progress
  <2>. QED
    BY <2>1, <2>2, <2>3 DEF RInv, Progress
<1>. QED
  BY <1>1, <1>2, <1>3, <1>4 DEF RInv

LEMMA OtherSessionRInv == ASSUME RInv, OtherSession PROVE RInv'
<1>. USE DEF Contents
<1>1. db \in Contents
  BY DEF RInv
<1>2. ASSUME NEW r \in Rows, Insert(r) PROVE RInv'
  <2>. DEFINE new == [db EXCEPT !.rows = Append(@, r)]
  <2>1. new \in Contents
    BY <1>1
  <2>. QED
    BY <1>2, <2>1, CommitRInv DEF Insert
<1>3. ASSUME NEW i \in DOMAIN db.rows, Delete(i) PROVE RInv'
  <2>. DEFINE new == [db EXCEPT !.rows = RemoveAt(@, i)]
  <2>1. RemoveAt(db.rows, i) \in Seq(Rows)
    BY <1>1 DEF RemoveAt
  <2>2. new \in Contents
    BY <1>1, <2>1
  <2>. QED
    BY <1>3, <2>2, CommitRInv DEF Delete
<1>4. ASSUME NEW keys \in KeySets, ChangeKeys(keys) PROVE RInv'
  <2>. DEFINE new == [db EXCEPT !.keys = keys]
  <2>1. new \in Contents
    BY <1>1
  <2>. QED
    BY <1>4, <2>1, CommitRInv DEF ChangeKeys
<1>5. ASSUME Drop PROVE RInv'
  <2>. DEFINE new == [db EXCEPT !.exists = FALSE]
  <2>1. new \in Contents
    BY <1>1
  <2>. QED
    BY <1>5, <2>1, CommitRInv DEF Drop
<1>. QED
  BY <1>2, <1>3, <1>4, <1>5 DEF OtherSession

LEMMA StepRInv == ASSUME RInv, [Next]_vars PROVE RInv'
<1>1. CASE FirstStatement
  BY <1>1, FirstStatementRInv
<1>2. CASE SecondStatement
  BY <1>2, SecondStatementRInv
<1>3. CASE OtherSession
  BY <1>3, OtherSessionRInv
<1>4. CASE UNCHANGED vars
  <2>1. UNCHANGED <<db, rule, pc, snap, verdict, seen, commits>>
    BY <1>4 DEF vars
  <2>2. Heard' = Heard
    BY <2>1 DEF Heard
  <2>. QED
    BY <2>1, <2>2 DEF RInv, Progress
<1>. QED
  BY <1>1, <1>2, <1>3, <1>4 DEF Next

THEOREM Invariance == Spec => []RInv
<1>1. Init => RInv
  BY InitRInv
<1>2. RInv /\ [Next]_vars => RInv'
  BY StepRInv
<1>. QED
  BY <1>1, <1>2, PTL DEF Spec

\* What a finished check has been told, whatever its rule and the commits.
LEMMA DoneReads ==
  ASSUME RInv, pc = "done"
  PROVE  /\ verdict = Verdict(rule, snap[1], snap[Len(snap)]) /\ rule \in RuleObjects
         /\ Len(snap) \in 1..2 /\ DOMAIN snap = 1..Len(snap)
         /\ Len(snap) = 2 => snap[1].exists /\ rule.name \in TwoStatements
         /\ \A k \in 1..Len(snap) : /\ snap[k] \in Snapshots
                                    /\ Answered(snap[k]) => snap[k] \in seen
                                    /\ snap[k].exists => Answered(snap[k])
<1>1. /\ verdict = Verdict(rule, snap[1], snap[Len(snap)]) /\ rule \in RuleObjects
      /\ snap \in Seq(Heard) /\ Len(snap) \in 1..2
      /\ Len(snap) = 2 => snap[1].exists /\ rule.name \in TwoStatements
  BY DEF RInv, Progress
<1>2. DOMAIN snap = 1..Len(snap)
  BY <1>1
<1>3. ASSUME NEW k \in 1..Len(snap)
      PROVE  /\ snap[k] \in Snapshots
             /\ Answered(snap[k]) => snap[k] \in seen
             /\ snap[k].exists => Answered(snap[k])
  <2>1. snap[k] \in Heard
    BY <1>1
  <2>2. PICK d \in seen : snap[k] \in Replies(d)
    BY <2>1 DEF Heard
  <2>3. snap[k] \in Snapshots /\ (Answered(snap[k]) => snap[k] = d)
    BY <2>2, RepliesType DEF RInv
  <2>. QED
    BY <2>3 DEF Snapshots
<1>. QED
  BY <1>1, <1>2, <1>3

---------------------------------------------------------------------------
(* Theorems *)

\* The state of a check keeps its types, for any rules, contents and commits.
THEOREM TypeCorrect == Spec => []TypeOK
<1>1. ASSUME RInv PROVE TypeOK
  <2>1. pc \in {"first", "second", "done"} /\ Len(snap) \in 0..2 /\ ToSet(snap) \subseteq Heard
    BY <1>1 DEF RInv, Progress, ToSet
  <2>2. /\ verdict.passed \in BOOLEAN /\ verdict.error \in BOOLEAN
        /\ verdict.row_count \in Nat /\ verdict.failed_count \in Int
    BY <1>1 DEF RInv, Verdicts
  <2>. QED
    BY <1>1, <2>1, <2>2 DEF RInv, TypeOK, Heard
<1>. QED
  BY <1>1, Invariance, PTL

\* The catalog has no columns for a missing table, and no type.
LEMMA CatalogAnswers ==
  ASSUME rule.name \in CatalogRules, NEW s \in Snapshots, NEW s2,
         Verdict(rule, s, s2).passed
  PROVE  Answered(s) /\ (s.exists \/ CountsNothing(s) \/ Namesake(s))
<1>1. Answered(s)
  <2>. SUFFICES ASSUME ~ Answered(s) PROVE FALSE
    OBVIOUS
  <2>1. ~ s.exists
    BY DEF Snapshots
  <2>. QED
    BY <2>1, CatalogRulesAreSound, ErroredType DEF Sound
<1>2. CASE s.elsewhere # NoTable
  BY <1>1, <1>2 DEF Namesake
<1>3. CASE s.elsewhere = NoTable /\ ~ s.exists
  <2>1. CASE rule.name = "of_type"
    <3>1. Verdict(rule, s, s2) = Errored
      BY <1>3, <2>1, Arms DEF OfType, Typed, NoColumn
    <3>. QED
      BY <3>1, ErroredType
  <2>2. CASE rule.name = "column_count_between"
    <3>. DEFINE b == Within(0, IntLower, IntUpper)
                f == IF b THEN 0 ELSE 1
    <3>1. ColumnsListed(s) = 0
      BY <1>3 DEF ColumnsListed
    <3>2. Verdict(rule, s, s2) = Result(b, 0, f, FALSE)
      BY <1>1, <2>2, <3>1, Arms DEF ColumnCountBetween, Answered, IntLower, IntUpper
    <3>3. Verdict(rule, s, s2).passed = b
      <4>. HIDE DEF b, f
      <4>. QED
        BY <3>2 DEF Result
    <3>. QED
      BY <1>1, <1>3, <2>2, <3>3 DEF CountsNothing, Within
  <2>. QED
    BY <2>1, <2>2 DEF CatalogRules
<1>. QED
  BY <1>1, <1>2, <1>3

\* A rule that judges rows is an error when the second statement fails.
LEMMA SecondFails ==
  ASSUME rule \in RuleObjects, rule.name \in RowRules,
         NEW s1 \in Snapshots, NEW s2 \in Snapshots, ~ s2.exists
  PROVE  Verdict(rule, s1, s2) = Errored
<1>1. PICK T : RowVerdict(s1, s2, T)
  BY RowRulesTally
<1>2. Tally(s1, s2, T) = Errored
  BY <1>1, TallyType DEF RowVerdict
<1>. QED
  BY <1>1, <1>2, ErroredType DEF RowVerdict

\* Uniqueness tells it by its count.
LEMMA SecondUncounted ==
  ASSUME rule.name = "unique", NEW s1 \in Snapshots, NEW s2, s1.exists, ~ s2.exists
  PROVE  /\ Verdict(rule, s1, s2).passed = FALSE
         /\ Verdict(rule, s1, s2).failed_count = -1
<1>. DEFINE n == -1
<1>1. ValuesUnique(rule, s1, s2) = Result(n = 0, Len(s1.rows), n, FALSE)
  BY DEF ValuesUnique
<1>2. Verdict(rule, s1, s2) = ValuesUnique(rule, s1, s2)
  BY Arms
<1>3. n \in Int /\ ~ n = 0
  OBVIOUS
<1>. HIDE DEF n
<1>4. LET v == Result(n = 0, Len(s1.rows), n, FALSE)
      IN v \in Verdicts /\ v.failed_count = n /\ (v.passed <=> n = 0)
  BY <1>3, CountedRows, Zenon
<1>5. /\ Verdict(rule, s1, s2) \in Verdicts
      /\ Verdict(rule, s1, s2).failed_count = n /\ ~ Verdict(rule, s1, s2).passed
  BY <1>1, <1>2, <1>3, <1>4, Zenon
<1>. QED
  BY <1>5 DEF n, Verdicts

\* An assertion passes only on answers, each of a table that was there, and
\* says so when a statement has failed.
THEOREM PassesAnswered == Spec => []PassesAreAnswered
<1>1. ASSUME RInv PROVE PassesAreAnswered
  <2>. DEFINE s1 == snap[1]
              s2 == snap[Len(snap)]
  <2>. SUFFICES ASSUME pc = "done", NEW k \in DOMAIN snap
                PROVE  /\ verdict.passed =>
                            /\ Answered(snap[k])
                            /\ snap[k].exists \/ CountsNothing(snap[k]) \/ Namesake(snap[k])
                       /\ ~ Answered(snap[k]) =>
                            \/ verdict.error
                            \/ rule.name = "unique" /\ k = 2 /\ verdict.failed_count = -1
    BY DEF PassesAreAnswered
  <2>1. /\ verdict = Verdict(rule, s1, s2) /\ rule \in RuleObjects
        /\ Len(snap) \in 1..2 /\ k \in 1..Len(snap)
        /\ Len(snap) = 2 => s1.exists /\ rule.name \in TwoStatements
        /\ s1 \in Snapshots /\ s2 \in Snapshots
        /\ snap[k].exists => Answered(snap[k])
    BY <1>1, DoneReads
  <2>2. k = 1 \/ (k = 2 /\ Len(snap) = 2)
    BY <2>1
  <2>3. CASE k = 1
    <3>1. snap[k] = s1
      BY <2>3
    <3>. HIDE DEF s1, s2
    <3>2. CASE ~ s1.exists /\ (rule.name \in CatalogRules => ~ Answered(s1))
      BY <2>1, <3>2, VerdictsAreSound, ErroredType DEF Sound
    <3>3. CASE ~ s1.exists /\ rule.name \in CatalogRules /\ Answered(s1)
      BY <2>1, <3>1, <3>3, CatalogAnswers
    <3>. QED
      BY <2>1, <3>1, <3>2, <3>3
  <2>4. CASE k = 2 /\ Len(snap) = 2
    <3>1. snap[k] = s2 /\ s1.exists /\ rule.name \in RowRules \cup {"unique"}
      BY <2>1, <2>4 DEF TwoStatements, RowRules
    <3>. HIDE DEF s1, s2
    <3>2. CASE ~ s2.exists /\ rule.name \in RowRules
      BY <2>1, <3>2, SecondFails, ErroredType
    <3>3. CASE ~ s2.exists /\ rule.name = "unique"
      BY <2>1, <2>4, <3>1, <3>3, SecondUncounted
    <3>. QED
      BY <2>1, <3>1, <3>2, <3>3
  <2>. QED
    BY <2>2, <2>3, <2>4
<1>. QED
  BY <1>1, Invariance, PTL

\* row_count and failed_count of a rule that judges rows are true counts, each
\* of an instant of the check.
THEOREM CountsWitnessed == Spec => []CountsAreWitnessed
<1>1. ASSUME RInv PROVE CountsAreWitnessed
  <2>. DEFINE s1 == snap[1]
              s2 == snap[2]
  <2>. SUFFICES ASSUME pc = "done", rule.name \in RowRules, ~ Misread,
                       Len(snap) = 2, Answered(s2),
                       \A d \in seen : ~ Unanswerable(d) /\ ~ Disabled(d)
                PROVE  /\ \E d \in seen : verdict.row_count = Len(d.rows)
                       /\ \E d \in seen : verdict.failed_count = Cardinality(Offenders(d))
                       /\ seen = {db} => verdict.failed_count <= verdict.row_count
    BY DEF CountsAreWitnessed
  <2>1. /\ verdict = Verdict(rule, s1, s2) /\ s1.exists
        /\ s1 \in Snapshots /\ s1 \in seen /\ s2 \in Snapshots /\ s2 \in seen
    BY <1>1, DoneReads
  <2>. HIDE DEF s1, s2
  <2>2. s2.exists /\ ~ Unanswerable(s2) /\ ~ Disabled(s2)
    BY <2>1 DEF Unanswerable
  <2>3. PICK T : RowVerdict(s1, s2, T)
    BY <1>1, <2>1, RowRulesTally DEF RInv
  <2>4. /\ T \in SUBSET DOMAIN s2.rows /\ T = Offenders(s2)
        /\ \/ Verdict(rule, s1, s2) = Tally(s1, s2, T)
           \/ Verdict(rule, s1, s2) = Described(Tally(s1, s2, T))
    BY <2>2, <2>3 DEF RowVerdict
  <2>5. /\ Tally(s1, s2, T) \in Verdicts
        /\ Tally(s1, s2, T).row_count = Len(s1.rows)
        /\ Tally(s1, s2, T).failed_count = Cardinality(T)
    BY <2>1, <2>2, <2>4, TallyType
  <2>6. /\ Described(Tally(s1, s2, T)).row_count = Tally(s1, s2, T).row_count
        /\ Described(Tally(s1, s2, T)).failed_count = Tally(s1, s2, T).failed_count
    BY <2>5, DescribedType
  <2>7. verdict.row_count = Len(s1.rows) /\ verdict.failed_count = Cardinality(Offenders(s2))
    BY <2>1, <2>4, <2>5, <2>6
  <2>8. Cardinality(T) <= Len(s2.rows)
    BY <2>1, <2>4, RowSetsAreFinite
  <2>9. seen = {db} => s1 = s2
    BY <2>1
  <2>. QED
    BY <2>1, <2>4, <2>7, <2>8, <2>9
<1>. QED
  BY <1>1, Invariance, PTL

\* Every value of a column is that of one row that repeats no earlier one.
LEMMA RepeatsCounted ==
  ASSUME NEW d \in Snapshots
  PROVE  /\ IsFiniteSet(Repeats(d)) /\ Cardinality(Repeats(d)) \in Nat
         /\ Cardinality(Repeats(d)) = Cardinality(Full(d)) - Cardinality(Distinct(d.rows))
<1>. DEFINE P == Full(d)
            R == Repeats(d)
            F == P \ R
            f == Cells(d)
            D == {f[i] : i \in F}
<1>1. /\ IsFiniteSet(P) /\ P \subseteq 1..Len(d.rows) /\ DOMAIN f = 1..Len(d.rows)
      /\ Distinct(d.rows) = {f[i] : i \in P} /\ Cardinality(P) \in Nat
  BY ColumnFacts DEF Cells
<1>2. /\ R \subseteq P
      /\ \A j \in P : j \in R <=> \E i \in P : i < j /\ f[i] = f[j]
  BY DEF Repeats
<1>. HIDE DEF P, R, f
<1>3. /\ IsFiniteSet(R) /\ IsFiniteSet(F) /\ Cardinality(R) \in Nat
      /\ Cardinality(F) = Cardinality(P) - Cardinality(R)
  <2>1. P \cap R = R
    BY <1>2
  <2>2. IsFiniteSet(R)
    BY <1>1, <1>2, FS_Subset
  <2>. QED
    BY <1>1, <2>1, <2>2, FS_Difference, FS_CardinalityType
<1>4. D = Distinct(d.rows)
  <2>1. ASSUME NEW i \in P PROVE f[i] \in D
    <3>. DEFINE S == {j \in P : f[j] = f[i]}
    <3>1. S \in SUBSET Nat /\ i \in S
      BY <1>1
    <3>2. PICK j \in S : \A k \in S : j <= k
      <4>. HIDE DEF S
      <4>. QED
        BY <3>1, LeastNat
    <3>3. j \in P /\ f[j] = f[i] /\ j \in Nat
      BY <3>1, <3>2
    <3>4. ASSUME NEW k \in P, k < j, f[k] = f[j] PROVE FALSE
      <4>1. k \in Nat /\ j <= k
        BY <1>1, <3>2, <3>3, <3>4
      <4>. QED
        BY <3>3, <3>4, <4>1
    <3>5. j \in F
      BY <1>2, <3>3, <3>4
    <3>. QED
      BY <3>3, <3>5
  <2>. QED
    BY <1>1, <2>1
<1>5. ASSUME NEW i \in F, NEW j \in F, i # j PROVE f[i] # f[j]
  <2>1. i \in Nat /\ j \in Nat
    BY <1>1
  <2>2. i < j \/ j < i
    BY <1>5, <2>1
  <2>. QED
    BY <1>2, <1>5, <2>2
<1>6. Cardinality(D) = Cardinality(F)
  <2>1. F \subseteq DOMAIN f
    BY <1>1
  <2>. HIDE DEF F
  <2>. QED
    BY <1>3, <1>5, <2>1, ImageSize
<1>. HIDE DEF D, F
<1>7. Cardinality(R) = Cardinality(P) - Cardinality(Distinct(d.rows))
  BY <1>1, <1>3, <1>4, <1>6
<1>. QED
  BY <1>3, <1>7 DEF P, R

\* Answered from the same contents, the statements of expect_unique tell
\* whether no value comes twice and no cell is NULL, and how many rows repeat
\* an earlier one or are NULL.
THEOREM UniqueWhenQuiet == Spec => []UniqueExactWhenQuiet
<1>1. ASSUME RInv PROVE UniqueExactWhenQuiet
  <2>. DEFINE d == snap[1]
              m == Cardinality(Repeats(d))
              k == Cardinality(NullCells(d))
              l == Len(d.rows)
              n == l - Cardinality(Distinct(d.rows))
  <2>. SUFFICES ASSUME pc = "done", rule.name = "unique",
                       Len(snap) = 2, snap[2] = d, d.exists
                PROVE  /\ verdict.passed <=> Meets(d) /\ NullCells(d) = {}
                       /\ verdict.row_count = l
                       /\ verdict.failed_count = m + k
    BY DEF UniqueExactWhenQuiet
  <2>1. verdict = Verdict(rule, d, d) /\ d \in Snapshots
    BY <1>1, DoneReads
  <2>. HIDE DEF d
  <2>2. n \in Int /\ n = m + k /\ m \in Nat /\ k \in Nat
    BY <2>1, RepeatsCounted, ColumnFacts
  <2>3. (m = 0 <=> Repeats(d) = {}) /\ (k = 0 <=> NullCells(d) = {})
    <3>1. IsFiniteSet(Repeats(d))
      BY <2>1, RepeatsCounted
    <3>2. NullCells(d) \in SUBSET DOMAIN d.rows
      BY DEF NullCells
    <3>3. IsFiniteSet(NullCells(d))
      BY <2>1, <3>2, RowSetsAreFinite
    <3>. QED
      BY <3>1, <3>3, FS_EmptySet
  <2>4. verdict = Result(n = 0, l, n, FALSE)
    <3>1. ValuesUnique(rule, d, d) = Result(n = 0, l, n, FALSE)
      BY DEF ValuesUnique
    <3>2. Verdict(rule, d, d) = ValuesUnique(rule, d, d)
      BY Arms
    <3>. QED
      BY <2>1, <3>1, <3>2
  <2>5. Meets(d) <=> Repeats(d) = {}
    BY DEF Meets, RowRules
  <2>6. n = 0 <=> m = 0 /\ k = 0
    BY <2>2
  <2>. HIDE DEF n, m, k
  <2>7. /\ Result(n = 0, l, n, FALSE).row_count = l
        /\ Result(n = 0, l, n, FALSE).failed_count = n
        /\ Result(n = 0, l, n, FALSE).passed <=> n = 0
    BY <2>1, <2>2, CountedRows, Zenon
  <2>8. verdict.row_count = l /\ verdict.failed_count = n /\ (verdict.passed <=> n = 0)
    BY <2>4, <2>7, Zenon
  <2>. QED
    BY <2>2, <2>3, <2>5, <2>6, <2>8, Zenon
<1>. QED
  BY <1>1, Invariance, PTL

---------------------------------------------------------------------------
(* The two implementations of each rule *)

\* The table function of each rule.
LEMMA StandaloneArms ==
  ASSUME NEW p, NEW s1, NEW s2
  PROVE  /\ p.name = "not_null" =>
              Standalone(p, s1, s2) = ExpectNotNull(s1, s2)
         /\ p.name = "unique" =>
              Standalone(p, s1, s2) = ExpectUnique(s1, s2)
         /\ p.name = "in_range" =>
              Standalone(p, s1, s2) = ExpectInRange(Argument(p.min, -Big), Argument(p.max, Big), s1, s2)
         /\ p.name = "row_count_between" =>
              Standalone(p, s1, s2) = ExpectRowCountBetween(Argument(p.min, 0), Argument(p.max, Big), s1)
         /\ p.name = "in_set" =>
              Standalone(p, s1, s2) = ExpectAcceptedValues(p.list, s1, s2)
         /\ p.name \in {"match_regex", "to_match_regex"} =>
              Standalone(p, s1, s2) = ExpectMatchRegex(p.values, s1, s2)
         /\ p.name = "relationship" =>
              Standalone(p, s1, s2) = ExpectRelationship(s1, s2)
         /\ p.name = "metric_between" =>
              Standalone(p, s1, s2) = ExpectMetricBetween(p.agg, Argument(p.min, -Big), Argument(p.max, Big), s1)
         /\ p.name = "of_type" =>
              Standalone(p, s1, s2) = ExpectColumnType(p.type, s1)
         /\ p.name = "column_count_between" =>
              Standalone(p, s1, s2) = ExpectTableColumnCountBetween(Argument(p.min, 0), Argument(p.max, Big), s1)
         /\ p.name = "proportion_between" =>
              Standalone(p, s1, s2) = ExpectRatioBetween(p.agg = "null", Argument(p.min, -Big), Argument(p.max, Big), s1)
         /\ p.name = "quantile_between" =>
              Standalone(p, s1, s2) = ExpectQuantileBetween(p.quantile, Argument(p.min, -Big), Argument(p.max, Big), s1)
         /\ p.name = "unique_together" =>
              Standalone(p, s1, s2) = ExpectColumnsUniqueTogether(s1)
         /\ p.name = "lengths_between" =>
              Standalone(p, s1, s2) = ExpectColumnLengthBetween(Argument(p.min, 0), Argument(p.max, Big), s1)
         /\ p.name = "null_count_between" =>
              Standalone(p, s1, s2) = ExpectNullCountBetween(Argument(p.min, 0), Argument(p.max, Big), s1)
         /\ p.name = "row_count_to_equal" =>
              Standalone(p, s1, s2) = ExpectRowCountToEqual(Argument(p.value, -1), s1)
         /\ p.name = "custom_sql" =>
              Standalone(p, s1, s2) = ExpectCustomSql(p.values, s1, s2)
         /\ p.name = "not_in_set" =>
              Standalone(p, s1, s2) = ExpectNotInSet(p.list, s1, s2)
         /\ p.name = "not_match_regex" =>
              Standalone(p, s1, s2) = ExpectNotMatchRegex(p.values, s1, s2)
         /\ p.name = "strftime_format" =>
              Standalone(p, s1, s2) = ExpectMatchDateFormat(p.values, s1, s2)
         /\ p.name = "sorted" =>
              Standalone(p, s1, s2) = ExpectSorted(IF p.descending THEN "desc" ELSE "asc", s1)
         /\ p.name = "median_between" =>
              Standalone(p, s1, s2) = ExpectMedianBetween(Argument(p.min, -Big), Argument(p.max, Big), s1)
  BY DEF Standalone

LEMMA AnyBound ==
  ASSUME NEW json, NEW d
  PROVE  AsF64(json, d) = Argument(json, d)
  BY DEF AsF64, Argument

\* The rules whose arguments are no bounds.
LEMMA SameStatements ==
  ASSUME NEW p, NEW s1, NEW s2,
         p.name \in {"not_null", "unique", "in_set", "match_regex", "to_match_regex",
                     "relationship", "of_type", "custom_sql", "not_in_set",
                     "not_match_regex", "strftime_format"},
         p.name = "in_set" => Accepted(p.list) = Strings(p.list),
         p.name = "not_in_set" => Forbidden(p.list) = Strings(p.list),
         p.name = "match_regex" => p.values = p.raw /\ p.raw # NoAnswer
  PROVE  Standalone(p, s1, s2) = Verdict(p, s1, s2)
<1>1. CASE p.name = "not_null"
  <2>1. Standalone(p, s1, s2) = ExpectNotNull(s1, s2)
    BY <1>1, StandaloneArms
  <2>2. Verdict(p, s1, s2) = ValuesNotNull(p, s1, s2)
    BY <1>1, Arms
  <2>3. ExpectNotNull(s1, s2)
          = ValuesNotNull(p, s1, s2)
    BY DEF ExpectNotNull, ValuesNotNull, Counted, CountWhere, Kept
  <2>. QED
    BY <2>1, <2>2, <2>3
<1>2. CASE p.name = "unique"
  <2>1. Standalone(p, s1, s2) = ExpectUnique(s1, s2)
    BY <1>2, StandaloneArms
  <2>2. Verdict(p, s1, s2) = ValuesUnique(p, s1, s2)
    BY <1>2, Arms
  <2>3. ExpectUnique(s1, s2)
          = ValuesUnique(p, s1, s2)
    BY DEF ExpectUnique, ValuesUnique
  <2>. QED
    BY <2>1, <2>2, <2>3
<1>3. CASE p.name = "in_set"
  <2>. DEFINE A == Accepted(p.list)
  <2>1. Standalone(p, s1, s2) = ExpectAcceptedValues(p.list, s1, s2)
    BY <1>3, StandaloneArms
  <2>2. Verdict(p, s1, s2) = ValuesInSet(p, s1, s2)
    BY <1>3, Arms
  <2>3. A = Strings(p.list)
    BY <1>3
  <2>4. ExpectAcceptedValues(p.list, s1, s2)
          = IF A = {} THEN Errored
            ELSE Counted(s1, s2, LAMBDA v : Or3(IsNull(v), Not3(In(v, A))))
    BY DEF ExpectAcceptedValues
  <2>. HIDE DEF A
  <2>5. ValuesInSet(p, s1, s2)
          = IF A = {} THEN Errored
            ELSE Counted(s1, s2, LAMBDA v : Or3(IsNull(v), Not3(In(v, A))))
    BY <2>3 DEF ValuesInSet, Counted, CountWhere, Kept
  <2>. QED
    BY <2>1, <2>2, <2>4, <2>5
<1>4. CASE p.name = "match_regex"
  <2>1. Standalone(p, s1, s2) = ExpectMatchRegex(p.values, s1, s2)
    BY <1>4, StandaloneArms
  <2>2. Verdict(p, s1, s2) = ValuesMatchRegex(p, s1, s2)
    BY <1>4, Arms
  <2>3. p.values = p.raw /\ p.raw # NoAnswer
    BY <1>4
  <2>4. ExpectMatchRegex(p.values, s1, s2)
          = ValuesMatchRegex(p, s1, s2)
    BY <2>3 DEF ExpectMatchRegex, ValuesMatchRegex, Counted, CountWhere, Kept
  <2>. QED
    BY <2>1, <2>2, <2>4
<1>11. CASE p.name = "to_match_regex"
  <2>1. Standalone(p, s1, s2) = ExpectMatchRegex(p.values, s1, s2)
    BY <1>11, StandaloneArms
  <2>2. Verdict(p, s1, s2) = ValuesToMatchRegex(p, s1, s2)
    BY <1>11, Arms
  <2>3. ExpectMatchRegex(p.values, s1, s2)
          = ValuesToMatchRegex(p, s1, s2)
    BY DEF ExpectMatchRegex, ValuesToMatchRegex, Counted, CountWhere, Kept
  <2>. QED
    BY <2>1, <2>2, <2>3
<1>5. CASE p.name = "relationship"
  <2>1. Standalone(p, s1, s2) = ExpectRelationship(s1, s2)
    BY <1>5, StandaloneArms
  <2>2. Verdict(p, s1, s2) = Relationship(p, s1, s2)
    BY <1>5, Arms
  <2>3. ExpectRelationship(s1, s2)
          = Relationship(p, s1, s2)
    BY DEF ExpectRelationship, Relationship, Counted, CountWhere, Kept
  <2>. QED
    BY <2>1, <2>2, <2>3
<1>6. CASE p.name = "of_type"
  <2>1. Standalone(p, s1, s2) = ExpectColumnType(p.type, s1)
    BY <1>6, StandaloneArms
  <2>2. Verdict(p, s1, s2) = OfType(p, s1)
    BY <1>6, Arms
  <2>3. ExpectColumnType(p.type, s1)
          = OfType(p, s1)
    BY DEF ExpectColumnType, OfType
  <2>. QED
    BY <2>1, <2>2, <2>3
<1>7. CASE p.name = "custom_sql"
  <2>1. Standalone(p, s1, s2) = ExpectCustomSql(p.values, s1, s2)
    BY <1>7, StandaloneArms
  <2>2. Verdict(p, s1, s2) = CustomSql(p, s1, s2)
    BY <1>7, Arms
  <2>3. ExpectCustomSql(p.values, s1, s2)
          = CustomSql(p, s1, s2)
    BY DEF ExpectCustomSql, CustomSql, Counted, CountWhere, Kept
  <2>. QED
    BY <2>1, <2>2, <2>3
<1>8. CASE p.name = "not_in_set"
  <2>. DEFINE A == Forbidden(p.list)
  <2>1. Standalone(p, s1, s2) = ExpectNotInSet(p.list, s1, s2)
    BY <1>8, StandaloneArms
  <2>2. Verdict(p, s1, s2) = ValuesNotInSet(p, s1, s2)
    BY <1>8, Arms
  <2>3. A = Strings(p.list)
    BY <1>8
  <2>4. ExpectNotInSet(p.list, s1, s2)
          = IF A = {} THEN Errored
            ELSE Described(Counted(s1, s2, LAMBDA v : In(v, A)))
    BY DEF ExpectNotInSet
  <2>. HIDE DEF A
  <2>5. ValuesNotInSet(p, s1, s2)
          = IF A = {} THEN Errored
            ELSE Described(Counted(s1, s2, LAMBDA v : In(v, A)))
    BY <2>3 DEF ValuesNotInSet, Counted, CountWhere, Kept
  <2>. QED
    BY <2>1, <2>2, <2>4, <2>5
<1>9. CASE p.name = "not_match_regex"
  <2>1. Standalone(p, s1, s2) = ExpectNotMatchRegex(p.values, s1, s2)
    BY <1>9, StandaloneArms
  <2>2. Verdict(p, s1, s2) = ValuesNotMatchRegex(p, s1, s2)
    BY <1>9, Arms
  <2>3. ExpectNotMatchRegex(p.values, s1, s2)
          = ValuesNotMatchRegex(p, s1, s2)
    BY DEF ExpectNotMatchRegex, ValuesNotMatchRegex, Counted, CountWhere, Kept
  <2>. QED
    BY <2>1, <2>2, <2>3
<1>10. CASE p.name = "strftime_format"
  <2>1. Standalone(p, s1, s2) = ExpectMatchDateFormat(p.values, s1, s2)
    BY <1>10, StandaloneArms
  <2>2. Verdict(p, s1, s2) = ValuesMatchStrftime(p, s1, s2)
    BY <1>10, Arms
  <2>3. ExpectMatchDateFormat(p.values, s1, s2)
          = ValuesMatchStrftime(p, s1, s2)
    BY DEF ExpectMatchDateFormat, ValuesMatchStrftime, Counted, CountWhere, Kept
  <2>. QED
    BY <2>1, <2>2, <2>3
<1>. QED
  BY <1>1, <1>2, <1>3, <1>4, <1>5, <1>6, <1>7, <1>8, <1>9, <1>10, <1>11

\* The rules whose bounds are numbers of any kind.
LEMMA SameBounds ==
  ASSUME NEW p, NEW s1, NEW s2,
         p.name \in {"in_range", "metric_between", "proportion_between", "quantile_between",
                     "median_between"}
  PROVE  Standalone(p, s1, s2) = Verdict(p, s1, s2)
<1>1. CASE p.name = "in_range"
  <2>1. Standalone(p, s1, s2) = ExpectInRange(Argument(p.min, -Big), Argument(p.max, Big), s1, s2)
    BY <1>1, StandaloneArms
  <2>2. Verdict(p, s1, s2) = ValuesInRange(p, s1, s2)
    BY <1>1, Arms
  <2>3. ExpectInRange(Argument(p.min, -Big), Argument(p.max, Big), s1, s2)
          = ValuesInRange(p, s1, s2)
    BY AnyBound DEF ExpectInRange, ValuesInRange, Counted, CountWhere, Kept
  <2>. QED
    BY <2>1, <2>2, <2>3
<1>2. CASE p.name = "metric_between"
  <2>1. Standalone(p, s1, s2) = ExpectMetricBetween(p.agg, Argument(p.min, -Big), Argument(p.max, Big), s1)
    BY <1>2, StandaloneArms
  <2>2. Verdict(p, s1, s2) = MetricBetween(p, s1)
    BY <1>2, Arms
  <2>3. ExpectMetricBetween(p.agg, Argument(p.min, -Big), Argument(p.max, Big), s1)
          = MetricBetween(p, s1)
    BY AnyBound DEF ExpectMetricBetween, MetricBetween
  <2>. QED
    BY <2>1, <2>2, <2>3
<1>3. CASE p.name = "proportion_between"
  <2>1. Standalone(p, s1, s2) = ExpectRatioBetween(p.agg = "null", Argument(p.min, -Big), Argument(p.max, Big), s1)
    BY <1>3, StandaloneArms
  <2>2. Verdict(p, s1, s2) = ProportionBetween(p, s1)
    BY <1>3, Arms
  <2>3. ExpectRatioBetween(p.agg = "null", Argument(p.min, -Big), Argument(p.max, Big), s1)
          = ProportionBetween(p, s1)
    BY AnyBound DEF ExpectRatioBetween, ProportionBetween
  <2>. QED
    BY <2>1, <2>2, <2>3
<1>4. CASE p.name = "quantile_between"
  <2>1. Standalone(p, s1, s2) = ExpectQuantileBetween(p.quantile, Argument(p.min, -Big), Argument(p.max, Big), s1)
    BY <1>4, StandaloneArms
  <2>2. Verdict(p, s1, s2) = QuantileBetween(p, s1)
    BY <1>4, Arms
  <2>3. ExpectQuantileBetween(p.quantile, Argument(p.min, -Big), Argument(p.max, Big), s1)
          = QuantileBetween(p, s1)
    BY AnyBound DEF ExpectQuantileBetween, QuantileBetween
  <2>. QED
    BY <2>1, <2>2, <2>3
<1>5. CASE p.name = "median_between"
  <2>1. Standalone(p, s1, s2) = ExpectMedianBetween(Argument(p.min, -Big), Argument(p.max, Big), s1)
    BY <1>5, StandaloneArms
  <2>2. Verdict(p, s1, s2) = MedianBetween(p, s1)
    BY <1>5, Arms
  <2>3. ExpectMedianBetween(Argument(p.min, -Big), Argument(p.max, Big), s1)
          = MedianBetween(p, s1)
    BY AnyBound DEF ExpectMedianBetween, MedianBetween
  <2>. QED
    BY <2>1, <2>2, <2>3
<1>. QED
  BY <1>1, <1>2, <1>3, <1>4, <1>5

\* The rules whose bounds are counts.
LEMMA SameCounts ==
  ASSUME NEW p, NEW s1, NEW s2, AsI64(p.min, 0) = Argument(p.min, 0),
         AsI64(p.max, Big) = Argument(p.max, Big), AsI64(p.value, -1) = Argument(p.value, -1),
         p.name \in {"row_count_between", "column_count_between", "null_count_between",
                     "row_count_to_equal"}
  PROVE  Standalone(p, s1, s2) = Verdict(p, s1, s2)
<1>1. CASE p.name = "row_count_between"
  <2>1. Standalone(p, s1, s2) = ExpectRowCountBetween(Argument(p.min, 0), Argument(p.max, Big), s1)
    BY <1>1, StandaloneArms
  <2>2. Verdict(p, s1, s2) = RowCountBetween(p, s1)
    BY <1>1, Arms
  <2>3. ExpectRowCountBetween(Argument(p.min, 0), Argument(p.max, Big), s1)
          = RowCountBetween(p, s1)
    BY DEF ExpectRowCountBetween, RowCountBetween
  <2>. QED
    BY <2>1, <2>2, <2>3
<1>2. CASE p.name = "column_count_between"
  <2>1. Standalone(p, s1, s2) = ExpectTableColumnCountBetween(Argument(p.min, 0), Argument(p.max, Big), s1)
    BY <1>2, StandaloneArms
  <2>2. Verdict(p, s1, s2) = ColumnCountBetween(p, s1)
    BY <1>2, Arms
  <2>3. ExpectTableColumnCountBetween(Argument(p.min, 0), Argument(p.max, Big), s1)
          = ColumnCountBetween(p, s1)
    BY DEF ExpectTableColumnCountBetween, ColumnCountBetween
  <2>. QED
    BY <2>1, <2>2, <2>3
<1>3. CASE p.name = "null_count_between"
  <2>1. Standalone(p, s1, s2) = ExpectNullCountBetween(Argument(p.min, 0), Argument(p.max, Big), s1)
    BY <1>3, StandaloneArms
  <2>2. Verdict(p, s1, s2) = NullCountBetween(p, s1)
    BY <1>3, Arms
  <2>3. ExpectNullCountBetween(Argument(p.min, 0), Argument(p.max, Big), s1)
          = NullCountBetween(p, s1)
    BY DEF ExpectNullCountBetween, NullCountBetween
  <2>. QED
    BY <2>1, <2>2, <2>3
<1>4. CASE p.name = "row_count_to_equal"
  <2>1. Standalone(p, s1, s2) = ExpectRowCountToEqual(Argument(p.value, -1), s1)
    BY <1>4, StandaloneArms
  <2>2. Verdict(p, s1, s2) = RowCountToEqual(p, s1)
    BY <1>4, Arms
  <2>3. ExpectRowCountToEqual(Argument(p.value, -1), s1)
          = RowCountToEqual(p, s1)
    BY DEF ExpectRowCountToEqual, RowCountToEqual
  <2>. QED
    BY <2>1, <2>2, <2>3
<1>. QED
  BY <1>1, <1>2, <1>3, <1>4

LEMMA SameOrder ==
  ASSUME NEW p \in RuleObjects, NEW s1, NEW s2,
         p.name = "sorted" \/ (p.name = "unique_together" /\ p.arity >= 2)
  PROVE  Standalone(p, s1, s2) = Verdict(p, s1, s2)
<1>1. CASE p.name = "unique_together" /\ p.arity >= 2
  <2>1. p.arity \in Nat
    BY DEF RuleObjects
  <2>2. UniqueTogether(p, s1) = RowsDistinct(s1)
    BY <1>1, <2>1 DEF UniqueTogether
  <2>3. Standalone(p, s1, s2) = RowsDistinct(s1)
    BY <1>1, StandaloneArms DEF ExpectColumnsUniqueTogether
  <2>4. Verdict(p, s1, s2) = UniqueTogether(p, s1)
    BY <1>1, Arms
  <2>. QED
    BY <2>2, <2>3, <2>4
<1>2. CASE p.name = "sorted"
  <2>. DEFINE direction == IF p.descending THEN "desc" ELSE "asc"
              Batch(i) == IF p.descending THEN Less(Cell(s1.rows, i - 1), Cell(s1.rows, i))
                          ELSE Less(Cell(s1.rows, i), Cell(s1.rows, i - 1))
              Alone(i) == IF direction = "asc" THEN Less(Cell(s1.rows, i), Cell(s1.rows, i - 1))
                          ELSE Less(Cell(s1.rows, i - 1), Cell(s1.rows, i))
              n == Cardinality({i \in 2..Len(s1.rows) : Batch(i) = "true"})
              m == Cardinality({i \in 2..Len(s1.rows) : Alone(i) = "true"})
  <2>1. Verdict(p, s1, s2) = ValuesSorted(p, s1)
    BY <1>2, Arms
  <2>2. ValuesSorted(p, s1)
          = IF s1.exists THEN Described(Result(n = 0, Len(s1.rows), n, FALSE)) ELSE Errored
    BY DEF ValuesSorted, Inversions
  <2>3. Standalone(p, s1, s2) = ExpectSorted(direction, s1)
    BY <1>2, StandaloneArms
  <2>4. ExpectSorted(direction, s1)
          = IF s1.exists THEN Described(Result(m = 0, Len(s1.rows), m, FALSE)) ELSE Errored
    BY DEF ExpectSorted, Inversions
  <2>5. \A i : Alone(i) = Batch(i)
    OBVIOUS
  <2>. HIDE DEF Alone, Batch
  <2>6. {i \in 2..Len(s1.rows) : Alone(i) = "true"} = {i \in 2..Len(s1.rows) : Batch(i) = "true"}
    BY <2>5
  <2>7. n = m
    BY <2>6
  <2>. HIDE DEF n, m
  <2>. QED
    BY <2>1, <2>2, <2>3, <2>4, <2>7
<1>. QED
  BY <1>1, <1>2

\* The length rules report the same but for failed_count.
LEMMA SameLengths ==
  ASSUME NEW p, NEW s1 \in Snapshots, NEW s2, p.name = "lengths_between",
         AsI64(p.min, 0) = Argument(p.min, 0), AsI64(p.max, Big) = Argument(p.max, Big)
  PROVE  Standalone(p, s1, s2)
           = [Verdict(p, s1, s2) EXCEPT !.failed_count = Standalone(p, s1, s2).failed_count]
<1>. DEFINE v == Verdict(p, s1, s2)
            short == IF LengthsWithin(s1.rows, Argument(p.min, 0), Big)
                     THEN 0 ELSE Shortest(s1.rows)
            long == IF LengthsWithin(s1.rows, -Big, Argument(p.max, Big))
                    THEN 0 ELSE Longest(s1.rows)
            f == IF s1.exists THEN short + long ELSE v.failed_count
<1>2. v = DescribedMeasure(Measured(s1, Len(s1.rows), LengthsWithin(s1.rows, Argument(p.min, 0),
                                                                    Argument(p.max, Big))))
  BY Arms DEF ValueLengthsBetween
<1>3. Standalone(p, s1, s2) = IF s1.exists THEN [v EXCEPT !.failed_count = short + long] ELSE v
  BY <1>2, StandaloneArms DEF ExpectColumnLengthBetween
<1>4. v \in Verdicts
  <2>. DEFINE b == LengthsWithin(s1.rows, Argument(p.min, 0), Argument(p.max, Big))
  <2>1. b \in BOOLEAN
    BY DEF LengthsWithin
  <2>. HIDE DEF b
  <2>2. DescribedMeasure(Measured(s1, Len(s1.rows), b)) \in Verdicts
    BY <2>1, MeasuredRows
  <2>. QED
    BY <1>2, <2>2 DEF b
<1>. HIDE DEF v, short, long
<1>5. v = [v EXCEPT !.failed_count = v.failed_count]
  BY <1>4 DEF Verdicts
<1>6. \A q : [v EXCEPT !.failed_count = q].failed_count = q
  BY <1>4 DEF Verdicts
<1>7. Standalone(p, s1, s2) = [v EXCEPT !.failed_count = Standalone(p, s1, s2).failed_count]
  BY <1>3, <1>5, <1>6
<1>. QED
  BY <1>7 DEF v

\* What an arm looks at in its rule.
LEMMA SameArm ==
  ASSUME NEW p, NEW q, NEW s1, NEW s2, p.name = q.name, p.name \in RuleNames,
         p.agg = q.agg, p.type = q.type, p.quantile = q.quantile, p.arity = q.arity,
         p.descending = q.descending, p.raw = q.raw, Strings(p.list) = Strings(q.list),
         p.name # "match_regex" => p.values = q.values,
         p.name \in Counts => /\ AsI64(p.min, 0) = AsI64(q.min, 0)
                              /\ AsI64(p.max, Big) = AsI64(q.max, Big)
                              /\ AsI64(p.value, -1) = AsI64(q.value, -1),
         p.name \notin Counts => p.min = q.min /\ p.max = q.max
  PROVE  Verdict(p, s1, s2) = Verdict(q, s1, s2)
<1>. USE DEF Counts
<1>1. CASE p.name = "row_count_between"
  <2>1. RowCountBetween(p, s1) = RowCountBetween(q, s1)
    BY <1>1 DEF RowCountBetween
  <2>2. Verdict(p, s1, s2) = RowCountBetween(p, s1)
    BY <1>1, Arms
  <2>3. Verdict(q, s1, s2) = RowCountBetween(q, s1)
    BY <1>1, Arms
  <2>. QED
    BY <2>1, <2>2, <2>3
<1>2. CASE p.name = "not_null"
  <2>1. ValuesNotNull(p, s1, s2) = ValuesNotNull(q, s1, s2)
    BY <1>2 DEF ValuesNotNull
  <2>2. Verdict(p, s1, s2) = ValuesNotNull(p, s1, s2)
    BY <1>2, Arms
  <2>3. Verdict(q, s1, s2) = ValuesNotNull(q, s1, s2)
    BY <1>2, Arms
  <2>. QED
    BY <2>1, <2>2, <2>3
<1>3. CASE p.name = "unique"
  <2>1. ValuesUnique(p, s1, s2) = ValuesUnique(q, s1, s2)
    BY <1>3 DEF ValuesUnique
  <2>2. Verdict(p, s1, s2) = ValuesUnique(p, s1, s2)
    BY <1>3, Arms
  <2>3. Verdict(q, s1, s2) = ValuesUnique(q, s1, s2)
    BY <1>3, Arms
  <2>. QED
    BY <2>1, <2>2, <2>3
<1>4. CASE p.name = "in_range"
  <2>1. ValuesInRange(p, s1, s2) = ValuesInRange(q, s1, s2)
    BY <1>4 DEF ValuesInRange, Counted, CountWhere, Kept
  <2>2. Verdict(p, s1, s2) = ValuesInRange(p, s1, s2)
    BY <1>4, Arms
  <2>3. Verdict(q, s1, s2) = ValuesInRange(q, s1, s2)
    BY <1>4, Arms
  <2>. QED
    BY <2>1, <2>2, <2>3
<1>5. CASE p.name = "match_regex"
  <2>1. ValuesMatchRegex(p, s1, s2) = ValuesMatchRegex(q, s1, s2)
    BY <1>5 DEF ValuesMatchRegex, Counted, CountWhere, Kept
  <2>2. Verdict(p, s1, s2) = ValuesMatchRegex(p, s1, s2)
    BY <1>5, Arms
  <2>3. Verdict(q, s1, s2) = ValuesMatchRegex(q, s1, s2)
    BY <1>5, Arms
  <2>. QED
    BY <2>1, <2>2, <2>3
<1>6. CASE p.name = "to_match_regex"
  <2>1. ValuesToMatchRegex(p, s1, s2) = ValuesToMatchRegex(q, s1, s2)
    BY <1>6 DEF ValuesToMatchRegex, Counted, CountWhere, Kept
  <2>2. Verdict(p, s1, s2) = ValuesToMatchRegex(p, s1, s2)
    BY <1>6, Arms
  <2>3. Verdict(q, s1, s2) = ValuesToMatchRegex(q, s1, s2)
    BY <1>6, Arms
  <2>. QED
    BY <2>1, <2>2, <2>3
<1>7. CASE p.name = "in_set"
  <2>1. ValuesInSet(p, s1, s2) = ValuesInSet(q, s1, s2)
    BY <1>7 DEF ValuesInSet, Counted, CountWhere, Kept
  <2>2. Verdict(p, s1, s2) = ValuesInSet(p, s1, s2)
    BY <1>7, Arms
  <2>3. Verdict(q, s1, s2) = ValuesInSet(q, s1, s2)
    BY <1>7, Arms
  <2>. QED
    BY <2>1, <2>2, <2>3
<1>8. CASE p.name = "relationship"
  <2>1. Relationship(p, s1, s2) = Relationship(q, s1, s2)
    BY <1>8 DEF Relationship
  <2>2. Verdict(p, s1, s2) = Relationship(p, s1, s2)
    BY <1>8, Arms
  <2>3. Verdict(q, s1, s2) = Relationship(q, s1, s2)
    BY <1>8, Arms
  <2>. QED
    BY <2>1, <2>2, <2>3
<1>9. CASE p.name = "custom_sql"
  <2>1. CustomSql(p, s1, s2) = CustomSql(q, s1, s2)
    BY <1>9 DEF CustomSql, Counted, CountWhere, Kept
  <2>2. Verdict(p, s1, s2) = CustomSql(p, s1, s2)
    BY <1>9, Arms
  <2>3. Verdict(q, s1, s2) = CustomSql(q, s1, s2)
    BY <1>9, Arms
  <2>. QED
    BY <2>1, <2>2, <2>3
<1>10. CASE p.name = "column_count_between"
  <2>1. ColumnCountBetween(p, s1) = ColumnCountBetween(q, s1)
    BY <1>10 DEF ColumnCountBetween
  <2>2. Verdict(p, s1, s2) = ColumnCountBetween(p, s1)
    BY <1>10, Arms
  <2>3. Verdict(q, s1, s2) = ColumnCountBetween(q, s1)
    BY <1>10, Arms
  <2>. QED
    BY <2>1, <2>2, <2>3
<1>11. CASE p.name = "metric_between"
  <2>1. MetricBetween(p, s1) = MetricBetween(q, s1)
    BY <1>11 DEF MetricBetween
  <2>2. Verdict(p, s1, s2) = MetricBetween(p, s1)
    BY <1>11, Arms
  <2>3. Verdict(q, s1, s2) = MetricBetween(q, s1)
    BY <1>11, Arms
  <2>. QED
    BY <2>1, <2>2, <2>3
<1>12. CASE p.name = "of_type"
  <2>1. OfType(p, s1) = OfType(q, s1)
    BY <1>12 DEF OfType
  <2>2. Verdict(p, s1, s2) = OfType(p, s1)
    BY <1>12, Arms
  <2>3. Verdict(q, s1, s2) = OfType(q, s1)
    BY <1>12, Arms
  <2>. QED
    BY <2>1, <2>2, <2>3
<1>13. CASE p.name = "proportion_between"
  <2>1. ProportionBetween(p, s1) = ProportionBetween(q, s1)
    BY <1>13 DEF ProportionBetween
  <2>2. Verdict(p, s1, s2) = ProportionBetween(p, s1)
    BY <1>13, Arms
  <2>3. Verdict(q, s1, s2) = ProportionBetween(q, s1)
    BY <1>13, Arms
  <2>. QED
    BY <2>1, <2>2, <2>3
<1>14. CASE p.name = "quantile_between"
  <2>1. QuantileBetween(p, s1) = QuantileBetween(q, s1)
    BY <1>14 DEF QuantileBetween
  <2>2. Verdict(p, s1, s2) = QuantileBetween(p, s1)
    BY <1>14, Arms
  <2>3. Verdict(q, s1, s2) = QuantileBetween(q, s1)
    BY <1>14, Arms
  <2>. QED
    BY <2>1, <2>2, <2>3
<1>15. CASE p.name = "unique_together"
  <2>1. UniqueTogether(p, s1) = UniqueTogether(q, s1)
    BY <1>15 DEF UniqueTogether
  <2>2. Verdict(p, s1, s2) = UniqueTogether(p, s1)
    BY <1>15, Arms
  <2>3. Verdict(q, s1, s2) = UniqueTogether(q, s1)
    BY <1>15, Arms
  <2>. QED
    BY <2>1, <2>2, <2>3
<1>16. CASE p.name = "lengths_between"
  <2>1. ValueLengthsBetween(p, s1) = ValueLengthsBetween(q, s1)
    BY <1>16 DEF ValueLengthsBetween
  <2>2. Verdict(p, s1, s2) = ValueLengthsBetween(p, s1)
    BY <1>16, Arms
  <2>3. Verdict(q, s1, s2) = ValueLengthsBetween(q, s1)
    BY <1>16, Arms
  <2>. QED
    BY <2>1, <2>2, <2>3
<1>17. CASE p.name = "null_count_between"
  <2>1. NullCountBetween(p, s1) = NullCountBetween(q, s1)
    BY <1>17 DEF NullCountBetween
  <2>2. Verdict(p, s1, s2) = NullCountBetween(p, s1)
    BY <1>17, Arms
  <2>3. Verdict(q, s1, s2) = NullCountBetween(q, s1)
    BY <1>17, Arms
  <2>. QED
    BY <2>1, <2>2, <2>3
<1>18. CASE p.name = "row_count_to_equal"
  <2>1. RowCountToEqual(p, s1) = RowCountToEqual(q, s1)
    BY <1>18 DEF RowCountToEqual
  <2>2. Verdict(p, s1, s2) = RowCountToEqual(p, s1)
    BY <1>18, Arms
  <2>3. Verdict(q, s1, s2) = RowCountToEqual(q, s1)
    BY <1>18, Arms
  <2>. QED
    BY <2>1, <2>2, <2>3
<1>19. CASE p.name = "not_in_set"
  <2>1. ValuesNotInSet(p, s1, s2) = ValuesNotInSet(q, s1, s2)
    BY <1>19 DEF ValuesNotInSet, Counted, CountWhere, Kept
  <2>2. Verdict(p, s1, s2) = ValuesNotInSet(p, s1, s2)
    BY <1>19, Arms
  <2>3. Verdict(q, s1, s2) = ValuesNotInSet(q, s1, s2)
    BY <1>19, Arms
  <2>. QED
    BY <2>1, <2>2, <2>3
<1>20. CASE p.name = "not_match_regex"
  <2>1. ValuesNotMatchRegex(p, s1, s2) = ValuesNotMatchRegex(q, s1, s2)
    BY <1>20 DEF ValuesNotMatchRegex, Counted, CountWhere, Kept
  <2>2. Verdict(p, s1, s2) = ValuesNotMatchRegex(p, s1, s2)
    BY <1>20, Arms
  <2>3. Verdict(q, s1, s2) = ValuesNotMatchRegex(q, s1, s2)
    BY <1>20, Arms
  <2>. QED
    BY <2>1, <2>2, <2>3
<1>21. CASE p.name = "strftime_format"
  <2>1. ValuesMatchStrftime(p, s1, s2) = ValuesMatchStrftime(q, s1, s2)
    BY <1>21 DEF ValuesMatchStrftime, Counted, CountWhere, Kept
  <2>2. Verdict(p, s1, s2) = ValuesMatchStrftime(p, s1, s2)
    BY <1>21, Arms
  <2>3. Verdict(q, s1, s2) = ValuesMatchStrftime(q, s1, s2)
    BY <1>21, Arms
  <2>. QED
    BY <2>1, <2>2, <2>3
<1>22. CASE p.name = "sorted"
  <2>1. ValuesSorted(p, s1) = ValuesSorted(q, s1)
    BY <1>22 DEF ValuesSorted, Inversions
  <2>2. Verdict(p, s1, s2) = ValuesSorted(p, s1)
    BY <1>22, Arms
  <2>3. Verdict(q, s1, s2) = ValuesSorted(q, s1)
    BY <1>22, Arms
  <2>. QED
    BY <2>1, <2>2, <2>3
<1>23. CASE p.name = "median_between"
  <2>1. MedianBetween(p, s1) = MedianBetween(q, s1)
    BY <1>23 DEF MedianBetween
  <2>2. Verdict(p, s1, s2) = MedianBetween(p, s1)
    BY <1>23, Arms
  <2>3. Verdict(q, s1, s2) = MedianBetween(q, s1)
    BY <1>23, Arms
  <2>. QED
    BY <2>1, <2>2, <2>3
<1>. QED
  BY <1>1, <1>2, <1>3, <1>4, <1>5, <1>6, <1>7, <1>8, <1>9, <1>10, <1>11, <1>12,
     <1>13, <1>14, <1>15, <1>16, <1>17, <1>18, <1>19, <1>20, <1>21, <1>22, <1>23
  DEF RuleNames, TwoStatements

\* The rule as it is read, field by field.
LEMMA AsReadFields ==
  ASSUME rule \in RuleObjects, AsRead.values # NoAnswer
  PROVE  LET p == AsRead
         IN /\ p \in RuleObjects
            /\ p.name = rule.name /\ p.agg = rule.agg /\ p.type = rule.type
            /\ p.quantile = rule.quantile /\ p.arity = rule.arity
            /\ p.descending = rule.descending /\ p.raw = rule.raw
            /\ p.list = {item \in rule.list : item[1] = "string"}
            /\ Strings(p.list) = Strings(rule.list)
            /\ p.values = IF rule.name = "match_regex" THEN rule.raw ELSE rule.values
            /\ rule.name \notin Counts =>
                 p.min = rule.min /\ p.max = rule.max /\ p.value = rule.value
            /\ rule.name \in Counts =>
                 /\ \A d : AsI64(p.min, d) = AsI64(rule.min, d) /\ AsI64(p.min, d) = Argument(p.min, d)
                 /\ \A d : AsI64(p.max, d) = AsI64(rule.max, d) /\ AsI64(p.max, d) = Argument(p.max, d)
                 /\ \A d : /\ AsI64(p.value, d) = AsI64(rule.value, d)
                          /\ AsI64(p.value, d) = Argument(p.value, d)
<1>. DEFINE Whole(json) == IF rule.name \in Counts /\ json # NoBound /\ json[1] = "float"
                           THEN NoBound ELSE json
            min == Whole(rule.min)
            max == Whole(rule.max)
            value == Whole(rule.value)
            list == {item \in rule.list : item[1] = "string"}
            values == IF rule.name = "match_regex" THEN rule.raw ELSE rule.values
            p == [rule EXCEPT !.min = min, !.max = max, !.value = value,
                              !.list = list, !.values = values]
<1>1. AsRead = p
  BY DEF AsRead
<1>2. /\ rule.min \in Numbers /\ rule.max \in Numbers /\ rule.value \in Numbers
      /\ rule.values \in SUBSET Int /\ rule.raw \in {NoAnswer} \cup SUBSET Int
      /\ rule.list \in SUBSET ({"string", "number"} \X Texts)
  BY DEF RuleObjects
<1>3. \A json \in Numbers :
        /\ Whole(json) \in Numbers
        /\ rule.name \notin Counts => Whole(json) = json
        /\ rule.name \in Counts =>
             \A d : /\ AsI64(Whole(json), d) = AsI64(json, d)
                   /\ AsI64(Whole(json), d) = Argument(Whole(json), d)
  BY DEF Numbers, AsI64, Argument
<1>. HIDE DEF Whole
<1>4. /\ min \in Numbers /\ max \in Numbers /\ value \in Numbers
      /\ rule.name \notin Counts => min = rule.min /\ max = rule.max /\ value = rule.value
      /\ rule.name \in Counts =>
           /\ \A d : AsI64(min, d) = AsI64(rule.min, d) /\ AsI64(min, d) = Argument(min, d)
           /\ \A d : AsI64(max, d) = AsI64(rule.max, d) /\ AsI64(max, d) = Argument(max, d)
           /\ \A d : AsI64(value, d) = AsI64(rule.value, d) /\ AsI64(value, d) = Argument(value, d)
  BY <1>2, <1>3
<1>5. list \in SUBSET ({"string", "number"} \X Texts) /\ Strings(list) = Strings(rule.list)
  BY <1>2 DEF Strings
<1>. HIDE DEF min, max, value, list, values
<1>6. /\ p.min = min /\ p.max = max /\ p.value = value /\ p.list = list /\ p.values = values
      /\ p.name = rule.name /\ p.agg = rule.agg /\ p.type = rule.type
      /\ p.quantile = rule.quantile /\ p.arity = rule.arity
      /\ p.descending = rule.descending /\ p.raw = rule.raw
  BY DEF RuleObjects
<1>7. values \in (SUBSET Int) \ {NoAnswer}
  <2>1. values # NoAnswer
    BY <1>1, <1>6
  <2>. QED
    BY <1>2, <2>1 DEF values
<1>8. p \in RuleObjects
  BY <1>4, <1>5, <1>7 DEF RuleObjects
<1>. HIDE DEF p
<1>9. /\ p.min = min /\ p.max = max /\ p.value = value
      /\ p.list = {item \in rule.list : item[1] = "string"}
      /\ p.values = IF rule.name = "match_regex" THEN rule.raw ELSE rule.values
  BY <1>6 DEF list, values
<1>10. Strings(p.list) = Strings(rule.list)
  BY <1>5, <1>6
<1>. QED
  BY <1>1, <1>4, <1>6, <1>8, <1>9, <1>10

\* Texts without commas, blanks and quotes survive in a list with commas.
LEMMA SeparableLists ==
  ASSUME Separable, NEW list, list = {item \in rule.list : item[1] = "string"}
  PROVE  Accepted(list) = Strings(list) /\ Forbidden(list) = Strings(list)
<1>1. /\ Strings(list) = {item[2] : item \in list}
      /\ \A item \in list : /\ Split[item[2]] = {item[2]} /\ Trim[item[2]] = item[2]
                            /\ Unquote[item[2]] = item[2] /\ item[2] # Empty
  BY DEF Separable, Strings
<1>2. Pieces(list) = Strings(list)
  BY <1>1 DEF Pieces
<1>3. \A t \in Strings(list) : Trim[t] = t /\ Unquote[t] = t /\ t # Empty
  BY <1>1
<1>. DEFINE S == Strings(list)
<1>4. /\ Accepted(list) = {Trim[t] : t \in S} \ {Empty}
      /\ Forbidden(list) = {Unquote[Trim[t]] : t \in S} \ {Empty}
  BY <1>2 DEF Accepted, Forbidden
<1>. HIDE DEF S
<1>5. \A t \in S : Trim[t] = t /\ Unquote[Trim[t]] = t /\ t # Empty
  BY <1>3 DEF S
<1>6. {Trim[t] : t \in S} = S /\ {Unquote[Trim[t]] : t \in S} = S
  BY <1>5
<1>7. S \ {Empty} = S
  BY <1>5
<1>. QED
  BY <1>4, <1>6, <1>7 DEF S

\* On the same replies an arm of run_rules, and the table function of its rule
\* as it is read, report the same, the length rule's count apart.
THEOREM BatchAgrees == Spec => []BatchAgreesWithStandalone
<1>1. ASSUME RInv PROVE BatchAgreesWithStandalone
  <2>. DEFINE s1 == snap[1]
              s2 == snap[Len(snap)]
              p == AsRead
  <2>. SUFFICES ASSUME pc = "done", rule.arity >= 2, Separable, p.values # NoAnswer
                PROVE  IF rule.name = "lengths_between"
                       THEN Standalone(p, s1, s2)
                              = [verdict EXCEPT !.failed_count = Standalone(p, s1, s2).failed_count]
                       ELSE Standalone(p, s1, s2) = verdict
    BY DEF BatchAgreesWithStandalone
  <2>1. verdict = Verdict(rule, s1, s2) /\ s1 \in Snapshots /\ rule \in RuleObjects
    BY <1>1, DoneReads
  <2>2. /\ p \in RuleObjects /\ p.name = rule.name /\ p.name \in RuleNames
        /\ p.agg = rule.agg /\ p.type = rule.type /\ p.quantile = rule.quantile
        /\ p.arity = rule.arity /\ p.descending = rule.descending /\ p.raw = rule.raw
        /\ p.list = {item \in rule.list : item[1] = "string"}
        /\ Strings(p.list) = Strings(rule.list)
        /\ p.values = IF rule.name = "match_regex" THEN rule.raw ELSE rule.values
        /\ rule.name \notin Counts => p.min = rule.min /\ p.max = rule.max
        /\ rule.name \in Counts =>
             /\ \A d : AsI64(p.min, d) = AsI64(rule.min, d) /\ AsI64(p.min, d) = Argument(p.min, d)
             /\ \A d : AsI64(p.max, d) = AsI64(rule.max, d) /\ AsI64(p.max, d) = Argument(p.max, d)
             /\ \A d : /\ AsI64(p.value, d) = AsI64(rule.value, d)
                      /\ AsI64(p.value, d) = Argument(p.value, d)
    <3>1. rule.name \in RuleNames
      BY <2>1 DEF RuleObjects
    <3>. QED
      BY <2>1, <3>1, AsReadFields
  <2>. HIDE DEF s1, s2, p
  <2>3. Verdict(p, s1, s2) = verdict
    <3>1. /\ p.name = rule.name /\ p.name \in RuleNames
          /\ p.agg = rule.agg /\ p.type = rule.type /\ p.quantile = rule.quantile
          /\ p.arity = rule.arity /\ p.descending = rule.descending /\ p.raw = rule.raw
          /\ Strings(p.list) = Strings(rule.list)
          /\ p.name # "match_regex" => p.values = rule.values
          /\ p.name \in Counts => /\ AsI64(p.min, 0) = AsI64(rule.min, 0)
                                  /\ AsI64(p.max, Big) = AsI64(rule.max, Big)
                                  /\ AsI64(p.value, -1) = AsI64(rule.value, -1)
          /\ p.name \notin Counts => p.min = rule.min /\ p.max = rule.max
      BY <2>2
    <3>2. Verdict(p, s1, s2) = Verdict(rule, s1, s2)
      BY <3>1, SameArm, SMT
    <3>. QED
      BY <2>1, <3>2
  <2>4. CASE rule.name = "lengths_between"
    <3>1. AsI64(p.min, 0) = Argument(p.min, 0) /\ AsI64(p.max, Big) = Argument(p.max, Big)
      BY <2>2, <2>4 DEF Counts
    <3>. QED
      BY <2>1, <2>2, <2>3, <2>4, <3>1, SameLengths
  <2>5. CASE rule.name # "lengths_between"
    <3>1. Accepted(p.list) = Strings(p.list) /\ Forbidden(p.list) = Strings(p.list)
      BY <2>2, SeparableLists
    <3>2. p.name = "match_regex" => p.values = p.raw /\ p.raw # NoAnswer
      BY <2>2
    <3>3. p.name \in {"row_count_between", "column_count_between", "null_count_between",
                      "row_count_to_equal"} =>
            /\ AsI64(p.min, 0) = Argument(p.min, 0) /\ AsI64(p.max, Big) = Argument(p.max, Big)
            /\ AsI64(p.value, -1) = Argument(p.value, -1)
      BY <2>2 DEF Counts
    <3>4. Standalone(p, s1, s2) = Verdict(p, s1, s2)
      <4>1. CASE p.name \in {"not_null", "unique", "in_set", "match_regex", "to_match_regex",
                             "relationship", "of_type", "custom_sql", "not_in_set",
                             "not_match_regex", "strftime_format"}
        BY <3>1, <3>2, <4>1, SameStatements
      <4>2. CASE p.name \in {"in_range", "metric_between", "proportion_between",
                             "quantile_between", "median_between"}
        BY <4>2, SameBounds
      <4>3. CASE p.name \in {"row_count_between", "column_count_between",
                             "null_count_between", "row_count_to_equal"}
        BY <3>3, <4>3, SameCounts
      <4>4. CASE p.name \in {"sorted", "unique_together"}
        BY <2>2, <4>4, SameOrder
      <4>. QED
        BY <2>2, <2>5, <4>1, <4>2, <4>3, <4>4 DEF RuleNames, TwoStatements
    <3>. QED
      BY <2>3, <2>5, <3>4
  <2>. QED
    BY <2>4, <2>5
<1>. QED
  BY <1>1, Invariance, PTL

---------------------------------------------------------------------------
(* What a verdict says of the contents it was taken from *)

\* Meets, name by name.
LEMMA MeetsArms ==
  ASSUME NEW d
  PROVE  /\ rule.name \in RowRules => (Meets(d) <=> Offenders(d) = {})
         /\ rule.name = "unique_together" => (Meets(d) <=> rule.arity >= 2 /\ AllDifferent(d.rows))
         /\ rule.name = "row_count_between" => (Meets(d) <=> Bounded(Len(d.rows), IntLower, IntUpper))
         /\ rule.name = "row_count_to_equal" => (Meets(d) <=> Len(d.rows) = AsI64(rule.value, -1))
         /\ rule.name = "column_count_between" => (Meets(d) <=> Bounded(d.columns, IntLower, IntUpper))
         /\ rule.name = "of_type" => (Meets(d) <=> d.type = rule.type)
         /\ rule.name = "lengths_between" =>
              (Meets(d) <=> \A i \in Full(d) : Bounded(Length[Cells(d)[i]], IntLower, IntUpper))
         /\ rule.name = "null_count_between" =>
              (Meets(d) <=> Bounded(Cardinality(NullCells(d)), IntLower, IntUpper))
         /\ rule.name = "sorted" => (Meets(d) <=> InOrder(d))
         /\ rule.name = "metric_between" => (Meets(d) <=> MetricMeets(d))
         /\ rule.name = "proportion_between" => (Meets(d) <=> ShareMeets(d))
         /\ rule.name = "median_between" => (Meets(d) <=> MedianMeets(d))
         /\ rule.name = "quantile_between" => (Meets(d) <=> QuantileMeets(d))
  BY DEF Meets, RowRules

LEMMA MeasuredPasses ==
  ASSUME NEW s \in Snapshots, NEW b \in BOOLEAN, NEW n \in Nat
  PROVE  /\ Measured(s, n, b).passed <=> s.exists /\ b
         /\ DescribedMeasure(Measured(s, n, b)).passed <=> s.exists /\ b
<1> DEFINE f == IF b THEN 0 ELSE 1
<1>1. s.exists \in BOOLEAN /\ f \in Int
  BY DEF Snapshots
<1>2. Measured(s, n, b) = IF s.exists THEN Result(b, n, f, FALSE) ELSE Errored
  BY DEF Measured
<1>. HIDE DEF f
<1>3. Measured(s, n, b).passed <=> s.exists /\ b
  <2>1. Result(b, n, f, FALSE).passed = b
    BY DEF Result
  <2>2. CASE s.exists
    BY <1>2, <2>1, <2>2
  <2>3. CASE ~ s.exists
    BY <1>2, <2>3, ErroredType
  <2>. QED
    BY <2>2, <2>3
<1>4. Measured(s, n, b) \in Verdicts
  BY MeasuredType
<1>. QED
  BY <1>3, <1>4, DescribedMeasureType

\* The verdict of a rule of one statement is that of the contents it has read.
Judged(s1, s2) == Verdict(rule, s1, s2).passed <=> s1.exists /\ Meets(s1)

LEMMA RowCountJudged ==
  ASSUME rule \in RuleObjects, rule.name \in {"row_count_between", "row_count_to_equal"},
         NEW s1 \in Snapshots, NEW s2
  PROVE  Judged(s1, s2)
<1> DEFINE l == Len(s1.rows)
<1>0. l \in Nat
  BY DEF Snapshots
<1>1. CASE rule.name = "row_count_between"
  <2> DEFINE b == Within(l, IntLower, IntUpper)
  <2>1. b \in BOOLEAN /\ (b <=> Bounded(l, IntLower, IntUpper))
    BY DEF Within, Bounded
  <2>2. Verdict(rule, s1, s2) = Measured(s1, l, b)
    BY <1>1, Arms DEF RowCountBetween, IntLower, IntUpper
  <2>3. Meets(s1) <=> b
    BY <1>1, <2>1, MeetsArms
  <2>. HIDE DEF b, l
  <2>. QED
    BY <1>0, <2>1, <2>2, <2>3, MeasuredPasses DEF Judged
<1>2. CASE rule.name = "row_count_to_equal"
  <2> DEFINE b == l = AsI64(rule.value, -1)
  <2>1. b \in BOOLEAN
    OBVIOUS
  <2>2. Verdict(rule, s1, s2) = DescribedMeasure(Measured(s1, l, b))
    BY <1>2, Arms DEF RowCountToEqual
  <2>3. Meets(s1) <=> b
    BY <1>2, MeetsArms
  <2>. HIDE DEF b, l
  <2>. QED
    BY <1>0, <2>1, <2>2, <2>3, MeasuredPasses DEF Judged
<1>. QED
  BY <1>1, <1>2

\* A type, when no other schema has a table of that name.
LEMMA OfTypeJudged ==
  ASSUME rule.name = "of_type", NEW s1 \in Snapshots, NEW s2,
         Answered(s1), s1.elsewhere = NoTable
  PROVE  Judged(s1, s2)
<1> DEFINE b == s1.type = rule.type
           f == IF b THEN 0 ELSE 1
<1>1. b \in BOOLEAN /\ s1.exists \in BOOLEAN /\ f \in Int
  BY DEF Snapshots
<1>2. Verdict(rule, s1, s2)
        = IF NoColumn(s1) THEN Errored
          ELSE DescribedMeasure(Result(TypeListed(s1) = rule.type, 0,
                                       IF TypeListed(s1) = rule.type THEN 0 ELSE 1, FALSE))
  BY Arms DEF OfType, Typed
<1>3. /\ NoColumn(s1) <=> ~ s1.exists
      /\ s1.exists => TypeListed(s1) = s1.type
  BY <1>1 DEF NoColumn, TypeListed, Answered
<1>4. s1.exists => Verdict(rule, s1, s2) = DescribedMeasure(Result(b, 0, f, FALSE))
  BY <1>2, <1>3
<1>5. ~ s1.exists => Verdict(rule, s1, s2) = Errored
  BY <1>2, <1>3
<1>6. Meets(s1) <=> b
  BY MeetsArms
<1>. HIDE DEF b, f
<1>7. Result(b, 0, f, FALSE) \in Verdicts
  BY <1>1, ResultType
<1>8. Result(b, 0, f, FALSE).passed = b
  BY DEF Result
<1>9. DescribedMeasure(Result(b, 0, f, FALSE)).passed = b
  BY <1>7, <1>8, DescribedMeasureType
<1>. QED
  BY <1>1, <1>4, <1>5, <1>6, <1>9, ErroredType DEF Judged

LEMMA NullCountJudged ==
  ASSUME rule \in RuleObjects, rule.name = "null_count_between", NEW s1 \in Snapshots, NEW s2
  PROVE  Judged(s1, s2)
<1> DEFINE l == Len(s1.rows)
           nulls == l - Cardinality(Present(s1.rows))
           b == Within(nulls, IntLower, IntUpper)
           c == ~ b
           f == IF b THEN 0 ELSE nulls
<1>1. l \in Nat /\ nulls \in Int /\ nulls = Cardinality(NullCells(s1))
  BY ColumnFacts
<1>2. b \in BOOLEAN /\ c \in BOOLEAN /\ f \in Int /\ s1.exists \in BOOLEAN
  BY <1>1 DEF Within, Snapshots
<1>3. Verdict(rule, s1, s2) = IF s1.exists THEN Result(b, l, f, c) ELSE Errored
  BY Arms DEF NullCountBetween, IntLower, IntUpper
<1>4. Meets(s1) <=> b
  BY <1>1, MeetsArms DEF Within, Bounded
<1>. HIDE DEF l, nulls, b, c, f
<1>. QED
  BY <1>1, <1>2, <1>3, <1>4, ResultType, ErroredType DEF Judged

LEMMA TogetherJudged ==
  ASSUME rule \in RuleObjects, rule.name = "unique_together", NEW s1 \in Snapshots, NEW s2
  PROVE  Judged(s1, s2)
<1> DEFINE l == Len(s1.rows)
           n == l - Cardinality(DistinctRows(s1.rows))
<1>1. l \in Nat /\ n \in Int /\ s1.exists \in BOOLEAN /\ rule.arity \in Nat
  BY DistinctSizes DEF Snapshots, RuleObjects
<1>2. Verdict(rule, s1, s2) = IF rule.arity < 2 \/ ~ s1.exists THEN Errored
                              ELSE Result(n = 0, l, n, FALSE)
  BY Arms DEF UniqueTogether, RowsDistinct
<1>3. n = 0 <=> AllDifferent(s1.rows)
  <2>1. IsFiniteSet(DOMAIN s1.rows) /\ Cardinality(DOMAIN s1.rows) = l
    BY RowSetsAreFinite
  <2>2. Cardinality(DistinctRows(s1.rows)) = Cardinality(DOMAIN s1.rows)
          <=> \A i, j \in DOMAIN s1.rows : i # j => s1.rows[i] # s1.rows[j]
    BY <2>1, ImageSize DEF DistinctRows
  <2>3. Cardinality(DistinctRows(s1.rows)) \in Nat
    BY DistinctSizes
  <2>4. n = 0 <=> Cardinality(DistinctRows(s1.rows)) = l
    BY <1>1, <2>3
  <2>. QED
    BY <2>1, <2>2, <2>4 DEF AllDifferent
<1>4. Meets(s1) <=> ~ (rule.arity < 2) /\ n = 0
  BY <1>1, <1>3, MeetsArms
<1>. HIDE DEF n
<1>5. Result(n = 0, l, n, FALSE).passed <=> n = 0
  BY <1>1, CountedRows
<1>. QED
  BY <1>1, <1>2, <1>4, <1>5, ErroredType DEF Judged

LEMMA ShareJudged ==
  ASSUME rule \in RuleObjects, rule.name = "proportion_between", NEW s1 \in Snapshots, NEW s2
  PROVE  Judged(s1, s2)
<1> DEFINE l == Len(s1.rows)
           ratio == IF rule.agg = "null" THEN NullProportion(s1.rows) ELSE UniqueProportion(s1.rows)
           b == AggWithin(ratio, Lower, Upper)
           part == IF rule.agg = "null" THEN Cardinality(NullCells(s1))
                   ELSE Cardinality({Cells(s1)[i] : i \in Full(s1)})
<1>1. l \in Nat /\ part \in Nat /\ Lower \in Int /\ Upper \in Int
  BY ColumnFacts, BoundTypes
<1>2. Verdict(rule, s1, s2) = Measured(s1, l, b)
  BY Arms, BoundTypes DEF ProportionBetween
<1>3. b \in BOOLEAN
  BY DEF AggWithin
<1>4. ratio = IF s1.rows = <<>> THEN Null ELSE <<part, l>>
  BY ColumnFacts DEF NullProportion, UniqueProportion, Proportion
<1>5. Meets(s1) <=> s1.rows # <<>> /\ Bounded(part, Lower * l, Upper * l)
  BY MeetsArms DEF ShareMeets
<1>6. Meets(s1) <=> b
  <2>. HIDE DEF part, l, ratio
  <2>1. CASE s1.rows = <<>>
    BY <1>4, <1>5, <2>1 DEF AggWithin
  <2>2. CASE s1.rows # <<>>
    <3>1. ratio = <<part, l>> /\ ratio # Null
      BY <1>1, <1>4, <2>2, ValuesAssumption
    <3>. QED
      BY <1>1, <1>5, <2>2, <3>1 DEF AggWithin, Bounded
  <2>. QED
    BY <2>1, <2>2
<1>. HIDE DEF b, l
<1>. QED
  BY <1>1, <1>2, <1>3, <1>6, MeasuredPasses DEF Judged

\* A least and a greatest element.
LEMMA ExtremesExist ==
  ASSUME NEW T \in SUBSET Int, IsFiniteSet(T), T # {}
  PROVE  (\E n \in T : \A m \in T : n <= m) /\ (\E n \in T : \A m \in T : n >= m)
<1> DEFINE f == [x \in T |-> x]
<1>1. \A x \in T : f[x] \in Int /\ f[x] = x
  OBVIOUS
<1>. HIDE DEF f
<1>2. PICK n \in T : \A m \in T : f[n] <= f[m]
  BY <1>1, LeastValue
<1>3. PICK k \in T : \A m \in T : f[m] <= f[k]
  BY <1>1, GreatestValue
<1>4. \A m \in T : n <= m
  BY <1>1, <1>2
<1>5. \A m \in T : k >= m
  BY <1>1, <1>3
<1>. QED
  BY <1>4, <1>5

LEMMA LengthsJudged ==
  ASSUME rule \in RuleObjects, rule.name = "lengths_between", NEW s1 \in Snapshots, NEW s2
  PROVE  Judged(s1, s2)
<1> DEFINE l == Len(s1.rows)
           b == LengthsWithin(s1.rows, IntLower, IntUpper)
           F == Full(s1)
           g == [i \in F |-> Length[Cells(s1)[i]]]
<1>1. l \in Nat /\ IntLower \in Int /\ IntUpper \in Int /\ IsFiniteSet(F)
  BY ColumnFacts, BoundTypes
<1>2. IntLower <= Big /\ -Big <= IntUpper
  <2>1. rule.min \in Numbers /\ rule.max \in Numbers
    BY DEF RuleObjects
  <2>. QED
    BY <2>1, BigAssumption DEF IntLower, IntUpper, AsI64, Numbers
<1>3. \A i \in F : g[i] \in Int /\ g[i] = Length[Cells(s1)[i]]
  <2>. SUFFICES ASSUME NEW i \in F PROVE Length[Cells(s1)[i]] \in Int
    OBVIOUS
  <2>1. i \in DOMAIN s1.rows /\ Cells(s1)[i] = s1.rows[i][1] /\ Cells(s1)[i] # Null
    BY ColumnFacts, ValuesAssumption DEF Cell
  <2>2. s1.rows[i] \in Rows
    BY <2>1 DEF Snapshots
  <2>. QED
    BY <2>1, <2>2, LengthAssumption, BigAssumption
<1>4. Lengths(s1.rows) = {g[i] : i \in F}
  <2> DEFINE D == Distinct(s1.rows)
  <2>1. D = {Cells(s1)[i] : i \in F}
    BY ColumnFacts
  <2>2. Lengths(s1.rows) = {Length[v] : v \in D}
    BY DEF Lengths
  <2>. HIDE DEF D, F, g
  <2>. QED
    BY <1>3, <2>1, <2>2
<1>5. Meets(s1) <=> \A i \in F : Bounded(g[i], IntLower, IntUpper)
  BY <1>3, MeetsArms
<1>6. Meets(s1) <=> b
  <2>. HIDE DEF g, F
  <2>1. CASE F = {}
    <3>1. Lengths(s1.rows) = {}
      BY <1>4, <2>1
    <3>2. b
      BY <1>2, <3>1 DEF LengthsWithin, Shortest, Longest
    <3>. QED
      BY <1>5, <2>1, <3>2
  <2>2. CASE F # {}
    <3> DEFINE sh == Shortest(s1.rows)
               lo == Longest(s1.rows)
    <3>1. Lengths(s1.rows) # {}
      BY <1>4, <2>2
    <3> DEFINE T == Lengths(s1.rows)
    <3>2. T \in SUBSET Int /\ IsFiniteSet(T)
      <4>1. T \in SUBSET Int
        BY <1>3, <1>4
      <4>2. F \subseteq DOMAIN g
        BY DEF g
      <4>. QED
        BY <1>1, <1>4, <4>1, <4>2, ImageSize
    <3>3. (\E n \in T : \A m \in T : n <= m) /\ (\E n \in T : \A m \in T : n >= m)
      <4>. HIDE DEF T
      <4>. QED
        BY <3>1, <3>2, ExtremesExist DEF T
    <3>4. sh \in T /\ lo \in T /\ \A m \in T : sh <= m /\ lo >= m
      <4>1. /\ sh = CHOOSE n \in T : \A m \in T : n <= m
            /\ lo = CHOOSE n \in T : \A m \in T : n >= m
        BY <3>1 DEF Shortest, Longest
      <4>. HIDE DEF T, sh, lo
      <4>. QED
        BY <3>3, <4>1
    <3>5. (\E i \in F : sh = g[i]) /\ (\E i \in F : lo = g[i]) /\ \A i \in F : sh <= g[i] /\ lo >= g[i]
      <4>. HIDE DEF sh, lo
      <4>. QED
        BY <1>4, <3>4
    <3>6. b <=> IntLower <= sh /\ lo <= IntUpper
      BY DEF LengthsWithin
    <3>. HIDE DEF sh, lo, b
    <3>. QED
      BY <1>1, <1>3, <1>5, <3>5, <3>6 DEF Bounded
  <2>. QED
    BY <2>1, <2>2
<1>7. Verdict(rule, s1, s2) = DescribedMeasure(Measured(s1, l, b))
  BY Arms DEF ValueLengthsBetween, IntLower, IntUpper
<1>8. b \in BOOLEAN
  BY DEF LengthsWithin
<1>. HIDE DEF b, l
<1>. QED
  BY <1>1, <1>6, <1>7, <1>8, MeasuredPasses DEF Judged

---------------------------------------------------------------------------
(* A column is sorted when no two neighbours go against the order. *)

LEMMA SortedJudged ==
  ASSUME rule \in RuleObjects, rule.name = "sorted", NEW s1 \in Snapshots, NEW s2
  PROVE  Judged(s1, s2)
<1> DEFINE l == Len(s1.rows)
           Bad(v, prev) == IF rule.descending THEN Less(prev, v) ELSE Less(v, prev)
           I == {i \in 2..l : Bad(Cell(s1.rows, i), Cell(s1.rows, i - 1)) = "true"}
           n == Cardinality(I)
           c == Cells(s1)
           Ok(v, w) == IF rule.descending THEN w <= v ELSE v <= w
<1>1. l \in Nat /\ DOMAIN s1.rows = 1..l /\ s1.exists \in BOOLEAN /\ rule.descending \in BOOLEAN
  BY DEF Snapshots, RuleObjects
<1>2. IsFiniteSet(I) /\ n \in Nat /\ (n = 0 <=> I = {})
  <2>1. I \in SUBSET DOMAIN s1.rows
    BY <1>1
  <2>. QED
    BY <2>1, RowSetsAreFinite, FS_EmptySet
<1>3. \A i \in 1..l : /\ c[i] = Cell(s1.rows, i)
                      /\ c[i] = Null \/ c[i] \in Int
                      /\ i \in NullCells(s1) <=> c[i] = Null
  BY <1>1, CellTypes DEF Values, NullCells
<1>4. \A i \in 2..l : i \in I <=> c[i] # Null /\ c[i - 1] # Null /\ ~ Ok(c[i - 1], c[i])
  <2>. SUFFICES ASSUME NEW i \in 2..l
                PROVE  Bad(Cell(s1.rows, i), Cell(s1.rows, i - 1)) = "true"
                         <=> c[i] # Null /\ c[i - 1] # Null /\ ~ Ok(c[i - 1], c[i])
    OBVIOUS
  <2>1. i \in 1..l /\ i - 1 \in 1..l
    BY <1>1
  <2>2. /\ c[i] = Cell(s1.rows, i) /\ (c[i] = Null \/ c[i] \in Int)
        /\ c[i - 1] = Cell(s1.rows, i - 1) /\ (c[i - 1] = Null \/ c[i - 1] \in Int)
    BY <1>3, <2>1
  <2> DEFINE v == c[i]
             w == c[i - 1]
  <2>3. Bad(v, w) = "true" <=> v # Null /\ w # Null /\ ~ Ok(w, v)
    <3>1. (v = Null \/ v \in Int) /\ (w = Null \/ w \in Int)
      BY <2>2
    <3>. HIDE DEF v, w
    <3>. QED
      BY <1>1, <3>1, ValuesAssumption DEF Less, Holds
  <2>. QED
    BY <2>2, <2>3
<1>5. InOrder(s1) <=> \A i, j \in 1..l : i < j /\ i..j \cap NullCells(s1) = {} => Ok(c[i], c[j])
  BY <1>1 DEF InOrder
<1>. HIDE DEF c, l, Bad
<1>6. ASSUME I = {}, NEW i \in 1..l, NEW j \in 1..l, i < j, i..j \cap NullCells(s1) = {}
      PROVE  Ok(c[i], c[j])
  <2> DEFINE m == j - i
             G == {k \in 0..m : Ok(c[i], c[i + k])}
  <2>0. m \in Nat /\ i \in Nat /\ j \in Nat
    BY <1>1, <1>6
  <2>1. \A k \in 0..m : i + k \in 1..l /\ c[i + k] \in Int
    <3>. SUFFICES ASSUME NEW k \in 0..m PROVE i + k \in 1..l /\ c[i + k] \in Int
      OBVIOUS
    <3>1. i + k \in i..j /\ i + k \in 1..l
      BY <1>1, <1>6, <2>0
    <3>2. i + k \notin NullCells(s1)
      BY <1>6, <3>1
    <3>. QED
      BY <1>3, <3>1, <3>2
  <2>2. 0 \in G
    <3>1. 0 \in 0..m /\ i + 0 = i
      BY <2>0
    <3>2. c[i] \in Int
      BY <2>1, <3>1
    <3>. QED
      BY <3>1, <3>2
  <2>3. ASSUME NEW k \in G, k < m PROVE k + 1 \in G
    <3>1. k \in 0..m /\ k + 1 \in 0..m /\ i + k \in Int /\ i + (k + 1) = (i + k) + 1
      BY <2>0, <2>3
    <3>2. c[i] \in Int /\ c[i + k] \in Int /\ c[(i + k) + 1] \in Int
      <4>1. 0 \in 0..m /\ i + 0 = i
        BY <2>0
      <4>. HIDE DEF m
      <4>2. c[i + 0] \in Int /\ c[i + k] \in Int /\ c[i + (k + 1)] \in Int
        BY <2>1, <3>1, <4>1
      <4>. QED
        BY <3>1, <4>1, <4>2
    <3>3. (i + k) + 1 \in 2..l /\ ((i + k) + 1) - 1 = i + k
      <4>1. i + k \in 1..l /\ (i + k) + 1 \in 1..l
        BY <2>1, <3>1
      <4>. QED
        BY <1>1, <4>1
    <3>4. Ok(c[i + k], c[(i + k) + 1])
      <4>1. c[(i + k) + 1] # Null /\ c[i + k] # Null
        BY <3>2, ValuesAssumption
      <4>2. (i + k) + 1 \in I <=> c[(i + k) + 1] # Null /\ c[((i + k) + 1) - 1] # Null
                                    /\ ~ Ok(c[((i + k) + 1) - 1], c[(i + k) + 1])
        <5>. HIDE DEF I, Ok
        <5>. QED
          BY <1>4, <3>3
      <4>3. (i + k) + 1 \notin I
        BY <1>6
      <4>. HIDE DEF I, Ok
      <4>. QED
        BY <3>3, <4>1, <4>2, <4>3
    <3>5. Ok(c[i], c[i + k])
      OBVIOUS
    <3>6. Ok(c[i], c[(i + k) + 1])
      BY <3>2, <3>4, <3>5
    <3>. QED
      BY <3>1, <3>6
  <2>4. G = 0..m
    <3>1. G \in SUBSET (0..m)
      OBVIOUS
    <3>. HIDE DEF G, m
    <3>. QED
      BY <2>0, <2>2, <2>3, <3>1, IntervalGrowth
  <2>5. m \in G /\ i + m = j
    <3>1. m \in 0..m /\ i + m = j
      BY <2>0
    <3>. HIDE DEF G
    <3>. QED
      BY <2>4, <3>1
  <2>. QED
    BY <2>5
<1>7. ASSUME I # {}
      PROVE  \E i, j \in 1..l : i < j /\ i..j \cap NullCells(s1) = {} /\ ~ Ok(c[i], c[j])
  <2>1. PICK k \in I : TRUE
    BY <1>7
  <2>2. k \in 2..l /\ c[k] # Null /\ c[k - 1] # Null /\ ~ Ok(c[k - 1], c[k])
    BY <1>4, <2>1
  <2>3. k - 1 \in 1..l /\ k \in 1..l /\ k - 1 < k /\ \A h \in (k - 1)..k : h = k - 1 \/ h = k
    BY <1>1, <2>2
  <2>4. k \notin NullCells(s1) /\ k - 1 \notin NullCells(s1)
    BY <1>3, <2>2, <2>3
  <2>5. (k - 1)..k \cap NullCells(s1) = {}
    BY <2>3, <2>4
  <2>. HIDE DEF Ok
  <2>. QED
    BY <2>2, <2>3, <2>5
<1>8. Meets(s1) <=> n = 0
  <2>1. InOrder(s1) <=> I = {}
    <3>. HIDE DEF I, Ok
    <3>. QED
      BY <1>5, <1>6, <1>7
  <2>. QED
    BY <1>2, <2>1, MeetsArms
<1>9. Verdict(rule, s1, s2)
          = IF s1.exists THEN Described(Result(n = 0, Len(s1.rows), n, FALSE)) ELSE Errored
  BY Arms DEF ValuesSorted, Inversions, Bad, l
<1>. HIDE DEF n
<1>10. /\ Result(n = 0, Len(s1.rows), n, FALSE) \in Verdicts
       /\ Result(n = 0, Len(s1.rows), n, FALSE).passed <=> n = 0
  <2>1. n \in Int
    BY <1>2
  <2>. QED
    BY <2>1, CountedRows
<1>11. Described(Result(n = 0, Len(s1.rows), n, FALSE)).passed
         = Result(n = 0, Len(s1.rows), n, FALSE).passed
  BY <1>10, DescribedType
<1>. QED
  BY <1>1, <1>8, <1>9, <1>10, <1>11, ErroredType DEF Judged

---------------------------------------------------------------------------
(* The aggregates *)

\* An aggregate that is a fraction is not NULL.
LEMMA FractionWithin ==
  ASSUME NEW a \in Int, NEW b \in Int, NEW lo \in Int, NEW hi \in Int
  PROVE  /\ AggWithin(<<a, b>>, lo, hi) <=> Bounded(a, lo * b, hi * b)
         /\ RootWithin(<<a, b>>, lo, hi) <=> /\ lo <= 0 \/ lo * lo * b <= a
                                             /\ hi >= 0 /\ a <= hi * hi * b
<1>1. <<a, b>> # Null
  BY ValuesAssumption
<1>. QED
  BY <1>1 DEF AggWithin, RootWithin, Bounded

LEMMA NullIsNotWithin ==
  ASSUME NEW lo, NEW hi
  PROVE  ~ AggWithin(Null, lo, hi) /\ ~ RootWithin(Null, lo, hi)
  BY DEF AggWithin, RootWithin

LEMMA Extremes ==
  ASSUME NEW d \in Snapshots, Full(d) # {}
  PROVE  /\ \E i \in Full(d) : Min(Distinct(d.rows)) = Cells(d)[i]
         /\ \E i \in Full(d) : Max(Distinct(d.rows)) = Cells(d)[i]
         /\ \A i \in Full(d) : /\ Min(Distinct(d.rows)) <= Cells(d)[i]
                               /\ Cells(d)[i] <= Max(Distinct(d.rows))
<1> DEFINE T == Distinct(d.rows)
           lo == Min(T)
           hi == Max(T)
<1>1. T = {Cells(d)[i] : i \in Full(d)} /\ \A i \in Full(d) : Cells(d)[i] \in Int
  BY ColumnFacts
<1>2. T \in SUBSET Int /\ IsFiniteSet(T) /\ T # {}
  <2>1. IsFiniteSet(T)
    BY ColumnFacts
  <2>. HIDE DEF T
  <2>. QED
    BY <1>1, <2>1
<1>3. lo \in T /\ hi \in T /\ \A m \in T : lo <= m /\ hi >= m
  <2>. HIDE DEF T
  <2>1. (\E n \in T : \A m \in T : n <= m) /\ (\E n \in T : \A m \in T : n >= m)
    BY <1>2, ExtremesExist
  <2>. QED
    BY <2>1 DEF Min, Max
<1>. HIDE DEF T, lo, hi
<1>4. \A i \in Full(d) : Cells(d)[i] \in T /\ lo <= Cells(d)[i] /\ Cells(d)[i] <= hi
  BY <1>1, <1>2, <1>3
<1>5. (\E i \in Full(d) : lo = Cells(d)[i]) /\ (\E i \in Full(d) : hi = Cells(d)[i])
  BY <1>1, <1>3
<1>. QED
  BY <1>4, <1>5 DEF T, lo, hi

LEMMA ExtremesJudged ==
  ASSUME rule \in RuleObjects, rule.agg \in {"min", "max"}, NEW d \in Snapshots
  PROVE  MetricWithin(rule.agg, d.rows, Lower, Upper) <=> MetricMeets(d)
<1> DEFINE F == Full(d)
           c == Cells(d)
           lo == Min(Distinct(d.rows))
           hi == Max(Distinct(d.rows))
<1>1. Lower \in Int /\ Upper \in Int
  BY BoundTypes
<1>2. \A i \in F : c[i] \in Int
  BY ColumnFacts
<1>3. F # {} => /\ \E i \in F : lo = c[i]
                /\ \E i \in F : hi = c[i]
                /\ \A i \in F : lo <= c[i] /\ c[i] <= hi
  BY Extremes
<1>4. Present(d.rows) = F
  BY ColumnFacts
<1>5. CASE rule.agg = "min"
  <2>1. MetricWithin(rule.agg, d.rows, Lower, Upper)
          <=> AggWithin(IF F = {} THEN Null ELSE <<lo, 1>>, Lower, Upper)
    BY <1>4, <1>5 DEF MetricWithin, Aggregate, MinAgg, IfAny, Fraction
  <2>2. MetricMeets(d) <=> (\A i \in F : Lower <= c[i]) /\ (\E i \in F : c[i] <= Upper)
    BY <1>5 DEF MetricMeets
  <2>. HIDE DEF F, c, lo, hi
  <2>3. CASE F = {}
    BY <2>1, <2>2, <2>3, NullIsNotWithin
  <2>4. CASE F # {}
    <3>1. lo \in Int
      BY <1>2, <1>3, <2>4
    <3>2. AggWithin(<<lo, 1>>, Lower, Upper) <=> Bounded(lo, Lower * 1, Upper * 1)
      BY <1>1, <3>1, FractionWithin
    <3>3. Bounded(lo, Lower * 1, Upper * 1) <=> Lower <= lo /\ lo <= Upper
      BY <1>1, <3>1 DEF Bounded
    <3>4. MetricMeets(d) <=> Lower <= lo /\ lo <= Upper
      BY <1>1, <1>2, <1>3, <2>2, <2>4, <3>1
    <3>. QED
      BY <2>1, <2>4, <3>2, <3>3, <3>4
  <2>. QED
    BY <2>3, <2>4
<1>6. CASE rule.agg = "max"
  <2>1. MetricWithin(rule.agg, d.rows, Lower, Upper)
          <=> AggWithin(IF F = {} THEN Null ELSE <<hi, 1>>, Lower, Upper)
    BY <1>4, <1>6 DEF MetricWithin, Aggregate, MaxAgg, IfAny, Fraction
  <2>2. MetricMeets(d) <=> (\A i \in F : c[i] <= Upper) /\ (\E i \in F : Lower <= c[i])
    BY <1>6 DEF MetricMeets
  <2>. HIDE DEF F, c, lo, hi
  <2>3. CASE F = {}
    BY <2>1, <2>2, <2>3, NullIsNotWithin
  <2>4. CASE F # {}
    <3>1. hi \in Int
      BY <1>2, <1>3, <2>4
    <3>2. AggWithin(<<hi, 1>>, Lower, Upper) <=> Bounded(hi, Lower * 1, Upper * 1)
      BY <1>1, <3>1, FractionWithin
    <3>3. Bounded(hi, Lower * 1, Upper * 1) <=> Lower <= hi /\ hi <= Upper
      BY <1>1, <3>1 DEF Bounded
    <3>4. MetricMeets(d) <=> Lower <= hi /\ hi <= Upper
      BY <1>1, <1>2, <1>3, <2>2, <2>4, <3>1
    <3>. QED
      BY <2>1, <2>4, <3>2, <3>3, <3>4
  <2>. QED
    BY <2>3, <2>4
<1>. QED
  BY <1>5, <1>6

\* The sums of the values and of their squares.
LEMMA Totals ==
  ASSUME NEW d \in Snapshots
  PROVE  LET n == Cardinality(Full(d))
             v == [i \in Full(d) |-> Cells(d)[i]]
             W == SumFunctionOnSet(Squares(v, Full(d)), Full(d))
             spread == [i \in Full(d) |-> (n * Cells(d)[i] - Total(d)) * (n * Cells(d)[i] - Total(d))]
         IN /\ Total(d) \in Int /\ W \in Int
            /\ SumFunction([i \in Present(d.rows) |-> Cell(d.rows, i)]) = Total(d)
            /\ SumFunction([i \in Present(d.rows) |-> Cell(d.rows, i) * Cell(d.rows, i)]) = W
            /\ SumFunction(spread) = n * (n * W - Total(d) * Total(d))
<1> DEFINE F == Full(d)
           n == Cardinality(F)
           v == [i \in F |-> Cells(d)[i]]
           W == SumFunctionOnSet(Squares(v, F), F)
           spread == [i \in F |-> (n * Cells(d)[i] - Total(d)) * (n * Cells(d)[i] - Total(d))]
<1>1. /\ IsFiniteSet(F) /\ Present(d.rows) = F
      /\ \A i \in F : Cells(d)[i] \in Int /\ Cells(d)[i] = Cell(d.rows, i)
  BY ColumnFacts
<1>2. \A i \in F : v[i] \in Int /\ v[i] = Cells(d)[i]
  BY <1>1
<1>3. Total(d) = SumFunctionOnSet(v, F)
  <2>. HIDE DEF v
  <2>1. SumFunctionOnSet(Cells(d), F) = SumFunctionOnSet(v, F)
    BY <1>1, <1>2, SumOfSame
  <2>. QED
    BY <2>1 DEF Total
<1>4. [i \in Present(d.rows) |-> Cell(d.rows, i)] = v
  BY <1>1
<1>5. [i \in Present(d.rows) |-> Cell(d.rows, i) * Cell(d.rows, i)] = Squares(v, F)
  BY <1>1, <1>2 DEF Squares
<1>6. spread = SquaresAround(v, n, SumFunctionOnSet(v, F), F)
  <2>. HIDE DEF n
  <2>. QED
    BY <1>2, <1>3 DEF SquaresAround
<1>7. DOMAIN v = F /\ DOMAIN Squares(v, F) = F /\ DOMAIN SquaresAround(v, n, SumFunctionOnSet(v, F), F) = F
  BY DEF Squares, SquaresAround
<1>8. /\ SumFunction(v) = SumFunctionOnSet(v, F)
      /\ SumFunction(Squares(v, F)) = W
      /\ SumFunction(spread) = SumFunctionOnSet(SquaresAround(v, n, SumFunctionOnSet(v, F), F), F)
  <2>. HIDE DEF v, n, F, spread
  <2>. QED
    BY <1>6, <1>7 DEF SumFunction
<1>9. /\ W \in Int /\ SumFunctionOnSet(v, F) \in Int
      /\ SumFunctionOnSet(SquaresAround(v, n, SumFunctionOnSet(v, F), F), F)
           = n * (n * W - SumFunctionOnSet(v, F) * SumFunctionOnSet(v, F))
  <2>. HIDE DEF v, F
  <2>. QED
    BY <1>1, <1>2, Spread
<1>. HIDE DEF v, n, F, spread, W
<1>10. /\ Total(d) \in Int /\ W \in Int
       /\ SumFunction([i \in Present(d.rows) |-> Cell(d.rows, i)]) = Total(d)
       /\ SumFunction([i \in Present(d.rows) |-> Cell(d.rows, i) * Cell(d.rows, i)]) = W
       /\ SumFunction(spread) = n * (n * W - Total(d) * Total(d))
  BY <1>3, <1>4, <1>5, <1>8, <1>9
<1>. QED
  BY <1>10 DEF v, n, F, spread, W

LEMMA SumsJudged ==
  ASSUME rule \in RuleObjects, rule.agg \in {"sum", "mean"}, NEW d \in Snapshots
  PROVE  MetricWithin(rule.agg, d.rows, Lower, Upper) <=> MetricMeets(d)
<1> DEFINE F == Full(d)
           n == Cardinality(F)
           t == Total(d)
<1>1. Lower \in Int /\ Upper \in Int /\ n \in Nat /\ (n > 0 <=> F # {})
  <2>1. IsFiniteSet(F)
    BY ColumnFacts
  <2>. QED
    BY <2>1, BoundTypes, FS_CardinalityType, FS_EmptySet
<1>2. Present(d.rows) = F
  BY ColumnFacts
<1>3. t \in Int /\ SumFunction([i \in Present(d.rows) |-> Cell(d.rows, i)]) = t
  BY Totals
<1>4. CASE rule.agg = "sum"
  <2>1. MetricWithin(rule.agg, d.rows, Lower, Upper)
          <=> AggWithin(IF F = {} THEN Null ELSE <<t, 1>>, Lower, Upper)
    BY <1>2, <1>3, <1>4 DEF MetricWithin, Aggregate, SumAgg, IfAny, Fraction, SumOf
  <2>2. MetricMeets(d) <=> n > 0 /\ Bounded(t, Lower, Upper)
    BY <1>4 DEF MetricMeets
  <2>. HIDE DEF F, n, t
  <2>3. AggWithin(<<t, 1>>, Lower, Upper) <=> Bounded(t, Lower * 1, Upper * 1)
    BY <1>1, <1>3, FractionWithin
  <2>4. Bounded(t, Lower * 1, Upper * 1) <=> Bounded(t, Lower, Upper)
    BY <1>1 DEF Bounded
  <2>. QED
    BY <1>1, <2>1, <2>2, <2>3, <2>4, NullIsNotWithin
<1>5. CASE rule.agg = "mean"
  <2>1. MetricWithin(rule.agg, d.rows, Lower, Upper)
          <=> AggWithin(IF F = {} THEN Null ELSE <<t, n>>, Lower, Upper)
    BY <1>2, <1>3, <1>5 DEF MetricWithin, Aggregate, AvgAgg, IfAny, SumOf
  <2>2. MetricMeets(d) <=> n > 0 /\ Bounded(t, Lower * n, Upper * n)
    BY <1>5 DEF MetricMeets
  <2>. HIDE DEF F, n, t
  <2>3. AggWithin(<<t, n>>, Lower, Upper) <=> Bounded(t, Lower * n, Upper * n)
    BY <1>1, <1>3, FractionWithin
  <2>. QED
    BY <1>1, <2>1, <2>2, <2>3, NullIsNotWithin
<1>. QED
  BY <1>4, <1>5

\* Both sides of an inequality may be multiplied.
LEMMA Multiplied ==
  ASSUME NEW n \in Int, n > 0, NEW p \in Int, NEW q \in Int
  PROVE  p <= q <=> n * p <= n * q
  OBVIOUS

LEMMA StddevJudged ==
  ASSUME rule \in RuleObjects, rule.agg = "stddev", NEW d \in Snapshots
  PROVE  MetricWithin(rule.agg, d.rows, Lower, Upper) <=> MetricMeets(d)
<1> DEFINE n == Cardinality(Full(d))
           t == Total(d)
           W == SumFunctionOnSet(Squares([i \in Full(d) |-> Cells(d)[i]], Full(d)), Full(d))
           spread == [i \in Full(d) |-> (n * Cells(d)[i] - t) * (n * Cells(d)[i] - t)]
           x == n * W - t * t
           y == n * (n - 1)
           u == SumFunction(spread)
<1>1. Lower \in Int /\ Upper \in Int /\ n \in Nat
  BY BoundTypes, ColumnFacts
<1>2. Cardinality(Present(d.rows)) = n
  BY ColumnFacts
<1>3. /\ t \in Int /\ W \in Int
      /\ SumFunction([i \in Present(d.rows) |-> Cell(d.rows, i)]) = t
      /\ SumFunction([i \in Present(d.rows) |-> Cell(d.rows, i) * Cell(d.rows, i)]) = W
      /\ u = n * x
  BY Totals
<1>4. MetricWithin(rule.agg, d.rows, Lower, Upper)
        <=> RootWithin(IF n < 2 THEN Null ELSE <<x, y>>, Lower, Upper)
  <2>. HIDE DEF n, t, W
  <2>. QED
    BY <1>2, <1>3 DEF MetricWithin, Aggregate, VarianceAgg, SumOf
<1>5. MetricMeets(d) <=> /\ n > 1
                         /\ Lower > 0 => Lower * Lower * n * n * (n - 1) <= u
                         /\ Upper >= 0 /\ u <= Upper * Upper * n * n * (n - 1)
  BY DEF MetricMeets
<1>6. x \in Int /\ y \in Int
  <2>. HIDE DEF n, t, W
  <2>. QED
    BY <1>1, <1>3
<1>. HIDE DEF n, t, W, u, x
<1>7. CASE n < 2
  BY <1>1, <1>4, <1>5, <1>7, NullIsNotWithin
<1>8. CASE ~ n < 2
  <2>1. n > 1 /\ n > 0 /\ n \in Int
    BY <1>1, <1>8
  <2>2. \A a \in Int : a * a * n * n * (n - 1) = n * (a * a * y) /\ a * a * y \in Int
    BY <2>1
  <2>3. \A p, q \in Int : p <= q <=> n * p <= n * q
    BY <2>1, Multiplied
  <2>. HIDE DEF y
  <2>4. /\ Lower * Lower * n * n * (n - 1) <= u <=> Lower * Lower * y <= x
        /\ u <= Upper * Upper * n * n * (n - 1) <=> x <= Upper * Upper * y
    BY <1>1, <1>3, <1>6, <2>2, <2>3
  <2>5. RootWithin(<<x, y>>, Lower, Upper) <=> /\ Lower <= 0 \/ Lower * Lower * y <= x
                                               /\ Upper >= 0 /\ x <= Upper * Upper * y
    BY <1>1, <1>6, FractionWithin
  <2>6. Lower <= 0 <=> ~ Lower > 0
    BY <1>1
  <2>. QED
    BY <1>4, <1>5, <1>8, <2>1, <2>4, <2>5, <2>6
<1>. QED
  BY <1>7, <1>8

LEMMA DistinctJudged ==
  ASSUME rule \in RuleObjects, rule.agg \notin {"min", "max", "sum", "mean", "stddev"}, NEW d \in Snapshots
  PROVE  MetricWithin(rule.agg, d.rows, Lower, Upper) <=> MetricMeets(d)
<1> DEFINE k == Cardinality(Distinct(d.rows))
<1>1. Lower \in Int /\ Upper \in Int /\ k \in Nat
  BY BoundTypes, ColumnFacts
<1>2. MetricWithin(rule.agg, d.rows, Lower, Upper) <=> AggWithin(<<k, 1>>, Lower, Upper)
  BY DEF MetricWithin, Aggregate, DistinctAgg, Fraction
<1>3. MetricMeets(d) <=> Bounded(k, Lower, Upper)
  BY ColumnFacts DEF MetricMeets
<1>. HIDE DEF k
<1>4. AggWithin(<<k, 1>>, Lower, Upper) <=> Bounded(k, Lower * 1, Upper * 1)
  BY <1>1, FractionWithin
<1>5. Bounded(k, Lower * 1, Upper * 1) <=> Bounded(k, Lower, Upper)
  BY <1>1 DEF Bounded
<1>. QED
  BY <1>2, <1>3, <1>4, <1>5

LEMMA MetricJudged ==
  ASSUME rule \in RuleObjects, rule.name = "metric_between", NEW s1 \in Snapshots, NEW s2
  PROVE  Judged(s1, s2)
<1> DEFINE l == Len(s1.rows)
           b == MetricWithin(rule.agg, s1.rows, Lower, Upper)
<1>1. b <=> MetricMeets(s1)
  BY ExtremesJudged, SumsJudged, StddevJudged, DistinctJudged
<1>2. Meets(s1) <=> b
  BY <1>1, MeetsArms
<1>3. Verdict(rule, s1, s2) = Measured(s1, l, b)
  BY Arms, BoundTypes DEF MetricBetween
<1>4. b \in BOOLEAN
  BY DEF MetricWithin, AggWithin, RootWithin
<1>5. l \in Nat
  BY DEF Snapshots
<1>. HIDE DEF b, l
<1>. QED
  BY <1>2, <1>3, <1>4, <1>5, MeasuredPasses DEF Judged

---------------------------------------------------------------------------
(* Quantiles *)

LEMMA RankingType ==
  ASSUME NEW d \in Snapshots, NEW r \in Rankings(d)
  PROVE  LET n == Cardinality(Full(d))
         IN /\ r \in [1..n -> Full(d)] /\ DOMAIN r = 1..n
            /\ \A i, j \in 1..n : i # j => r[i] # r[j]
            /\ \A i \in Full(d) : \E k \in 1..n : r[k] = i
            /\ \A j, k \in 1..n : j < k => Cells(d)[r[j]] <= Cells(d)[r[k]]
            /\ \A k \in 1..n : Cells(d)[r[k]] \in Int
<1> DEFINE n == Cardinality(Full(d))
<1>1. r \in Bijection(1..n, Full(d)) /\ \A j, k \in DOMAIN r : j < k => Cells(d)[r[j]] <= Cells(d)[r[k]]
  BY DEF Rankings
<1>2. r \in [1..n -> Full(d)] /\ DOMAIN r = 1..n
  BY <1>1 DEF Bijection, Injection, Surjection
<1>3. \A i, j \in 1..n : i # j => r[i] # r[j]
  BY <1>1, <1>2 DEF Bijection, Injection, IsInjective
<1>4. \A i \in Full(d) : \E k \in 1..n : r[k] = i
  BY <1>1 DEF Bijection, Surjection
<1>5. \A k \in 1..n : Cells(d)[r[k]] \in Int
  BY <1>2, ColumnFacts
<1>. HIDE DEF n
<1>6. \A j, k \in 1..n : j < k => Cells(d)[r[j]] <= Cells(d)[r[k]]
  BY <1>1, <1>2
<1>. QED
  BY <1>2, <1>3, <1>4, <1>5, <1>6 DEF n

LEMMA SomeRanking == ASSUME NEW d \in Snapshots PROVE Rankings(d) # {}
<1>1. IsFiniteSet(Full(d)) /\ \A i \in Full(d) : Cells(d)[i] \in Int
  BY ColumnFacts
<1>2. PICK r : Ranks(r, Full(d), Cells(d))
  BY <1>1, RankingExists
<1>3. r \in Bijection(1..Cardinality(Full(d)), Full(d)) /\ DOMAIN r = 1..Cardinality(Full(d))
  BY <1>2 DEF Ranks, Bijection, Injection
<1>4. r \in Rankings(d)
  BY <1>2, <1>3 DEF Ranks, Rankings
<1>. QED
  BY <1>4

\* The value that DuckDB ranks k, from 0, is that of any ranking.
LEMMA RankedValue ==
  ASSUME NEW d \in Snapshots, NEW r \in Rankings(d), NEW k \in Nat, k < Cardinality(Full(d))
  PROVE  Ranked(d.rows, k) = Cells(d)[r[k + 1]]
<1> DEFINE F == Full(d)
           n == Cardinality(F)
           c == Cells(d)
           Under(v) == {i \in Present(d.rows) : Cell(d.rows, i) < v}
           Upto(v) == {i \in Present(d.rows) : Cell(d.rows, i) <= v}
           x == c[r[k + 1]]
<1>1. /\ r \in [1..n -> F] /\ \A i, j \in 1..n : i # j => r[i] # r[j]
      /\ \A i \in F : \E j \in 1..n : r[j] = i
      /\ \A i, j \in 1..n : i < j => c[r[i]] <= c[r[j]]
      /\ \A j \in 1..n : c[r[j]] \in Int
  BY RankingType
<1>2. /\ IsFiniteSet(F) /\ n \in Nat /\ Present(d.rows) = F
      /\ \A i \in F : c[i] \in Int /\ c[i] = Cell(d.rows, i)
      /\ Distinct(d.rows) = {c[i] : i \in F}
  BY ColumnFacts
<1>3. \A v \in Int : /\ Under(v) = {i \in F : c[i] < v}
                     /\ Upto(v) = {i \in F : c[i] <= v}
                     /\ IsFiniteSet(Under(v)) /\ IsFiniteSet(Upto(v))
                     /\ Cardinality(Under(v)) \in Nat /\ Cardinality(Upto(v)) \in Nat
  <2>. SUFFICES ASSUME NEW v \in Int
                PROVE  /\ Under(v) = {i \in F : c[i] < v}
                       /\ Upto(v) = {i \in F : c[i] <= v}
                       /\ IsFiniteSet(Under(v)) /\ IsFiniteSet(Upto(v))
                       /\ Cardinality(Under(v)) \in Nat /\ Cardinality(Upto(v)) \in Nat
    OBVIOUS
  <2>1. Under(v) = {i \in F : c[i] < v} /\ Upto(v) = {i \in F : c[i] <= v}
    BY <1>2
  <2>2. Under(v) \subseteq F /\ Upto(v) \subseteq F
    BY <2>1
  <2>. HIDE DEF Under, Upto, F
  <2>3. IsFiniteSet(Under(v)) /\ IsFiniteSet(Upto(v))
    BY <1>2, <2>2, FS_Subset
  <2>. QED
    BY <2>1, <2>3, FS_CardinalityType
<1>. HIDE DEF F, n, c
<1>4. k + 1 \in 1..n /\ k \in Nat /\ k + 1 \in Nat
  BY <1>2 DEF F, n
<1>5. x \in Int /\ x \in Distinct(d.rows)
  BY <1>1, <1>2, <1>4
<1>. HIDE DEF x, Under, Upto
<1>6. \A m \in 1..n : LET R == {r[j] : j \in 1..m} IN R \subseteq F /\ IsFiniteSet(R) /\ Cardinality(R) = m
  <2>. SUFFICES ASSUME NEW m \in 1..n
                PROVE  LET R == {r[j] : j \in 1..m} IN R \subseteq F /\ IsFiniteSet(R) /\ Cardinality(R) = m
    OBVIOUS
  <2> DEFINE q == [j \in 1..m |-> r[j]]
  <2>1. m \in Nat /\ \A j \in 1..m : j \in 1..n
    BY <1>2
  <2>2. q \in [1..m -> F] /\ \A i, j \in 1..m : i # j => q[i] # q[j]
    BY <1>1, <2>1
  <2>3. {q[j] : j \in 1..m} = {r[j] : j \in 1..m}
    OBVIOUS
  <2>4. LET R == {q[j] : j \in 1..m} IN R \subseteq F /\ IsFiniteSet(R) /\ Cardinality(R) = m
    <3>. HIDE DEF q
    <3>. QED
      BY <1>2, <2>1, <2>2, RangeSize
  <2>. HIDE DEF q
  <2>. QED
    BY <2>3, <2>4
<1>7. Cardinality(Under(x)) <= k
  <2>1. Under(x) \subseteq {r[j] : j \in 1..k}
    <3>. SUFFICES ASSUME NEW i \in Under(x) PROVE i \in {r[j] : j \in 1..k}
      OBVIOUS
    <3>1. i \in F /\ c[i] < x
      BY <1>3, <1>5
    <3>2. PICK j \in 1..n : r[j] = i
      BY <1>1, <3>1
    <3>3. ~ (j > k)
      <4>. SUFFICES ASSUME j > k PROVE FALSE
        OBVIOUS
      <4>1. j = k + 1 \/ k + 1 < j
        BY <1>2, <1>4
      <4>2. c[r[k + 1]] <= c[r[j]]
        BY <1>1, <1>4, <4>1
      <4>3. c[i] \in Int
        BY <1>2, <3>1
      <4>. QED
        BY <1>5, <3>1, <3>2, <4>2, <4>3 DEF x
    <3>4. j \in 1..k
      BY <1>4, <3>3
    <3>. QED
      BY <3>2, <3>4
  <2>2. CASE k = 0
    <3>1. Under(x) = {}
      BY <2>1, <2>2
    <3>. QED
      BY <2>2, <3>1, FS_EmptySet
  <2>3. CASE k # 0
    <3>1. k \in 1..n
      BY <1>2, <1>4, <2>3
    <3> DEFINE R == {r[j] : j \in 1..k}
    <3>2. IsFiniteSet(R) /\ Cardinality(R) = k
      BY <1>6, <3>1
    <3>. HIDE DEF R
    <3>3. Cardinality(Under(x)) <= Cardinality(R)
      BY <2>1, <3>2, FS_Subset DEF R
    <3>. QED
      BY <3>2, <3>3
  <2>. QED
    BY <2>2, <2>3
<1>8. k < Cardinality(Upto(x))
  <2> DEFINE R == {r[j] : j \in 1..(k + 1)}
  <2>1. R \subseteq F /\ IsFiniteSet(R) /\ Cardinality(R) = k + 1
    BY <1>4, <1>6
  <2>2. R \subseteq Upto(x)
    <3>. SUFFICES ASSUME NEW j \in 1..(k + 1) PROVE r[j] \in Upto(x)
      OBVIOUS
    <3>1. j \in 1..n /\ (j = k + 1 \/ j < k + 1)
      BY <1>2, <1>4
    <3>2. r[j] \in F /\ c[r[j]] \in Int
      BY <1>1, <3>1
    <3>3. c[r[j]] <= x
      BY <1>1, <1>4, <1>5, <3>1, <3>2 DEF x
    <3>. QED
      BY <1>3, <1>5, <3>2, <3>3
  <2>. HIDE DEF R
  <2>3. Cardinality(R) <= Cardinality(Upto(x))
    BY <1>3, <1>5, <2>2, FS_Subset
  <2>. QED
    BY <1>3, <1>4, <1>5, <2>1, <2>3
<1>9. \A v, w \in Int : v < w => Cardinality(Upto(v)) <= Cardinality(Under(w))
  <2>. SUFFICES ASSUME NEW v \in Int, NEW w \in Int, v < w
                PROVE  Cardinality(Upto(v)) <= Cardinality(Under(w))
    OBVIOUS
  <2>1. Upto(v) \subseteq Under(w)
    BY <1>2, <1>3
  <2>. QED
    BY <1>3, <2>1, FS_Subset
<1>10. \A v \in Distinct(d.rows) : v \in Int
  BY <1>2
<1>11. ASSUME NEW v \in Distinct(d.rows), Cardinality(Under(v)) <= k, k < Cardinality(Upto(v))
       PROVE  v = x
  <2>1. v \in Int
    BY <1>10
  <2>2. /\ Cardinality(Under(v)) \in Nat /\ Cardinality(Upto(v)) \in Nat
        /\ Cardinality(Under(x)) \in Nat /\ Cardinality(Upto(x)) \in Nat
    BY <1>3, <1>5, <2>1
  <2>3. ~ (v < x) /\ ~ (x < v)
    BY <1>4, <1>5, <1>7, <1>8, <1>9, <1>11, <2>1, <2>2
  <2>. QED
    BY <1>5, <2>1, <2>3
<1>12. Ranked(d.rows, k) = CHOOSE v \in Distinct(d.rows) : Cardinality(Under(v)) <= k /\ k < Cardinality(Upto(v))
  BY DEF Ranked, Under, Upto
<1>13. Ranked(d.rows, k) = x
  BY <1>5, <1>7, <1>8, <1>11, <1>12
<1>. QED
  BY <1>13 DEF x, c

LEMMA DivisionIsExact ==
  ASSUME NEW a \in Nat, NEW b \in Nat, b > 0
  PROVE  /\ a \div b \in Nat /\ a % b \in Nat /\ a % b < b
         /\ a = b * (a \div b) + (a % b)
  OBVIOUS

\* Where the quantile lies: between the k-th and the next of n values, from 0.
LEMMA Positions ==
  ASSUME NEW q \in Quantiles, NEW n \in Nat, n > 0
  PROVE  LET k == (q[1] * (n - 1)) \div q[2]
             rest == (q[1] * (n - 1)) % q[2]
         IN /\ k \in Nat /\ rest \in Nat /\ rest < q[2] /\ k < n
            /\ rest # 0 => k + 1 < n
            /\ q[1] * (n - 1) - q[2] * k = rest
            /\ \A j \in Int : LET part == q[1] * (n - 1) - q[2] * j
                              IN 0 <= part /\ part < q[2] => j = k
<1> DEFINE a == q[1] * (n - 1)
           b == q[2]
           k == a \div b
           rest == a % b
<1>1. q[1] \in Nat /\ b \in Nat /\ b > 0 /\ q[1] <= b
  BY DEF Quantiles
<1>2. a \in Nat /\ a <= b * (n - 1)
  <2>1. \A i, j, m \in Nat : i <= j => i * m \in Nat /\ i * m <= j * m
    OBVIOUS
  <2>2. n - 1 \in Nat
    OBVIOUS
  <2>. QED
    BY <1>1, <2>1, <2>2
<1>. HIDE DEF a, b
<1>3. k \in Nat /\ rest \in Nat /\ rest < b /\ a = b * k + rest
  BY <1>1, <1>2, DivisionIsExact
<1>. HIDE DEF k, rest
<1>4. \A i, j \in Int : i < j => b * i + b <= b * j
  <2>. SUFFICES ASSUME NEW i \in Int, NEW j \in Int, i < j PROVE b * i + b <= b * j
    OBVIOUS
  <2>1. b * (i + 1) <= b * j
    BY <1>1, Multiplied
  <2>2. b * (i + 1) = b * i + b
    BY <1>1
  <2>. QED
    BY <2>1, <2>2
<1>5. b * k \in Int /\ b * (n - 1) \in Int
  BY <1>1, <1>3
<1>6. ~ (n - 1 < k)
  BY <1>1, <1>2, <1>3, <1>4, <1>5
<1>7. rest # 0 => k # n - 1
  BY <1>2, <1>3, <1>5
<1>8. k < n /\ (rest # 0 => k + 1 < n)
  BY <1>3, <1>6, <1>7
<1>9. ASSUME NEW j \in Int, 0 <= a - b * j, a - b * j < b PROVE j = k
  <2>1. b * j \in Int
    BY <1>1
  <2>2. ~ (j < k)
    BY <1>1, <1>2, <1>3, <1>4, <1>5, <1>9, <2>1
  <2>3. ~ (k < j)
    BY <1>1, <1>2, <1>3, <1>4, <1>5, <1>9, <2>1
  <2>. QED
    BY <1>3, <2>2, <2>3
<1>10. a - b * k = rest
  BY <1>3, <1>5
<1>. QED
  BY <1>3, <1>8, <1>9, <1>10 DEF a, b, k, rest

\* The interpolated value, of any ranking.
LEMMA QuantileValue ==
  ASSUME NEW d \in Snapshots, NEW r \in Rankings(d), NEW q \in Quantiles, Full(d) # {}
  PROVE  LET n == Cardinality(Full(d))
             k == (q[1] * (n - 1)) \div q[2]
             rest == (q[1] * (n - 1)) % q[2]
             next == IF rest = 0 THEN k ELSE k + 1
         IN /\ n \in Nat /\ n > 0
            /\ QuantileAgg(d.rows, q)
                 = <<Cells(d)[r[k + 1]] * (q[2] - rest) + Cells(d)[r[next + 1]] * rest, q[2]>>
<1> DEFINE n == Cardinality(Full(d))
           k == (q[1] * (n - 1)) \div q[2]
           rest == (q[1] * (n - 1)) % q[2]
           next == IF rest = 0 THEN k ELSE k + 1
<1>1. n \in Nat /\ n > 0
  <2>1. IsFiniteSet(Full(d)) /\ n \in Nat
    BY ColumnFacts
  <2>. QED
    BY <2>1, FS_EmptySet
<1>2. Present(d.rows) = Full(d)
  BY ColumnFacts
<1>3. k \in Nat /\ k < n /\ (rest # 0 => k + 1 < n)
  <2>. HIDE DEF n
  <2>. QED
    BY <1>1, Positions
<1>4. next \in Nat /\ next < n
  <2>. HIDE DEF n, k, rest
  <2>. QED
    BY <1>3
<1>5. QuantileAgg(d.rows, q)
        = <<Ranked(d.rows, k) * (q[2] - rest) + Ranked(d.rows, next) * rest, q[2]>>
  BY <1>2 DEF QuantileAgg, IfAny
<1>. HIDE DEF k, rest, next
<1>6. /\ Ranked(d.rows, k) = Cells(d)[r[k + 1]]
      /\ Ranked(d.rows, next) = Cells(d)[r[next + 1]]
  BY <1>3, <1>4, RankedValue
<1>7. QuantileAgg(d.rows, q)
        = <<Cells(d)[r[k + 1]] * (q[2] - rest) + Cells(d)[r[next + 1]] * rest, q[2]>>
  BY <1>5, <1>6
<1>. QED
  BY <1>1, <1>7 DEF k, rest, next

LEMMA NoQuantile ==
  ASSUME NEW d \in Snapshots, NEW q, Full(d) = {}
  PROVE  QuantileAgg(d.rows, q) = Null
  BY ColumnFacts DEF QuantileAgg, IfAny

LEMMA QuantileMeant ==
  ASSUME rule \in RuleObjects, NEW d \in Snapshots
  PROVE  AggWithin(QuantileAgg(d.rows, rule.quantile), Lower, Upper) <=> QuantileMeets(d)
<1> DEFINE n == Cardinality(Full(d))
           q == rule.quantile
           a == q[1]
           b == q[2]
           c == Cells(d)
           k == (a * (n - 1)) \div b
           rest == (a * (n - 1)) % b
           next == IF rest = 0 THEN k ELSE k + 1
           Part(j) == a * (n - 1) - b * (j - 1)
           Rise(r, j) == IF Part(j) = 0 THEN 0 ELSE c[r[j + 1]] - c[r[j]]
           At(r, j) == /\ 0 <= Part(j) /\ Part(j) < b
                       /\ Bounded(b * c[r[j]] + Part(j) * Rise(r, j), b * Lower, b * Upper)
<1>1. Lower \in Int /\ Upper \in Int /\ q \in Quantiles /\ a \in Nat /\ b \in Nat
  BY BoundTypes DEF RuleObjects, Quantiles
<1>2. QuantileMeets(d) <=> \E r \in Rankings(d) : \E j \in DOMAIN r : At(r, j)
  BY DEF QuantileMeets
<1>3. CASE Full(d) = {}
  <2>1. n = 0
    BY <1>3, FS_EmptySet
  <2>2. \A r \in Rankings(d) : DOMAIN r = {}
    BY <2>1, RankingType
  <2>3. ~ QuantileMeets(d)
    <3>. HIDE DEF At
    <3>. QED
      BY <1>2, <2>2
  <2>. QED
    BY <1>3, <2>3, NoQuantile, NullIsNotWithin
<1>4. CASE Full(d) # {}
  <2>1. n \in Nat /\ n > 0
    <3>. HIDE DEF q
    <3>. QED
      BY <1>1, <1>4, SomeRanking, QuantileValue
  <2>2. /\ k \in Nat /\ rest \in Nat /\ rest < b /\ k < n
        /\ rest # 0 => k + 1 < n
        /\ a * (n - 1) - b * k = rest
        /\ \A j \in Int : 0 <= a * (n - 1) - b * j /\ a * (n - 1) - b * j < b => j = k
    <3>. HIDE DEF n, q
    <3>. QED
      BY <1>1, <2>1, Positions
  <2>3. ASSUME NEW r \in Rankings(d)
        PROVE  AggWithin(QuantileAgg(d.rows, q), Lower, Upper) <=> \E j \in DOMAIN r : At(r, j)
    <3> DEFINE A == c[r[k + 1]]
               B == c[r[next + 1]]
    <3>1. QuantileAgg(d.rows, q) = <<A * (b - rest) + B * rest, b>>
      <4>. HIDE DEF q
      <4>. QED
        BY <1>1, <1>4, QuantileValue
    <3>2. DOMAIN r = 1..n /\ \A j \in 1..n : c[r[j]] \in Int
      BY RankingType
    <3>. HIDE DEF n, a, b, c, q, k, rest
    <3>3. k + 1 \in 1..n /\ next + 1 \in 1..n /\ A \in Int /\ B \in Int
      <4>1. k + 1 \in 1..n /\ next + 1 \in 1..n
        BY <2>1, <2>2
      <4>. HIDE DEF next
      <4>. QED
        BY <3>2, <4>1
    <3>4. Part(k + 1) = rest
      BY <2>2
    <3>5. Rise(r, k + 1) = B - A
      <4>1. CASE rest = 0
        <5>1. next = k
          BY <4>1
        <5>2. A = B
          <6>. HIDE DEF next
          <6>. QED
            BY <5>1
        <5>. HIDE DEF A, B, next, Part
        <5>. QED
          BY <3>3, <3>4, <4>1, <5>2
      <4>2. CASE rest # 0
        <5>1. next = k + 1 /\ (k + 1) + 1 = next + 1
          BY <2>2, <4>2
        <5>. HIDE DEF next, Part
        <5>. QED
          BY <3>4, <4>2, <5>1
      <4>. QED
        BY <4>1, <4>2
    <3>6. b * A + rest * (B - A) = A * (b - rest) + B * rest
      <4>1. \A i, j, x, y \in Int : i * x + j * (y - x) = x * (i - j) + y * j
        OBVIOUS
      <4>. HIDE DEF A, B
      <4>. QED
        BY <1>1, <2>2, <3>3, <4>1
    <3>7. At(r, k + 1) <=> Bounded(A * (b - rest) + B * rest, b * Lower, b * Upper)
      <4>. HIDE DEF Part, Rise, next
      <4>. QED
        BY <2>2, <3>4, <3>5, <3>6
    <3>8. ASSUME NEW j \in 1..n, 0 <= Part(j), Part(j) < b PROVE j = k + 1
      <4>1. j - 1 \in Int /\ j \in Int
        BY <2>1
      <4>2. j - 1 = k
        BY <2>2, <3>8, <4>1
      <4>. QED
        BY <2>2, <4>1, <4>2
    <3>9. (\E j \in DOMAIN r : At(r, j)) <=> At(r, k + 1)
      <4>. HIDE DEF Part, Rise
      <4>. QED
        BY <3>2, <3>3, <3>8
    <3>10. AggWithin(<<A * (b - rest) + B * rest, b>>, Lower, Upper)
             <=> Bounded(A * (b - rest) + B * rest, Lower * b, Upper * b)
      <4>1. A * (b - rest) + B * rest \in Int
        <5>. HIDE DEF A, B
        <5>. QED
          BY <1>1, <2>2, <3>3
      <4>. HIDE DEF A, B
      <4>. QED
        BY <1>1, <4>1, FractionWithin
    <3>11. Lower * b = b * Lower /\ Upper * b = b * Upper
      BY <1>1
    <3>. HIDE DEF A, B, At
    <3>. QED
      BY <3>1, <3>7, <3>9, <3>10, <3>11
  <2>4. PICK r \in Rankings(d) : TRUE
    BY SomeRanking
  <2>. HIDE DEF At, q
  <2>. QED
    BY <1>2, <2>3, <2>4 DEF q
<1>. QED
  BY <1>3, <1>4

LEMMA QuantileJudged ==
  ASSUME rule \in RuleObjects, rule.name = "quantile_between", NEW s1 \in Snapshots, NEW s2
  PROVE  Judged(s1, s2)
<1> DEFINE l == Len(s1.rows)
           b == AggWithin(QuantileAgg(s1.rows, rule.quantile), Lower, Upper)
<1>1. Meets(s1) <=> b
  BY QuantileMeant, MeetsArms
<1>2. Verdict(rule, s1, s2) = Measured(s1, l, b)
  BY Arms, BoundTypes DEF QuantileBetween
<1>3. b \in BOOLEAN
  BY DEF AggWithin
<1>4. l \in Nat
  BY DEF Snapshots
<1>. HIDE DEF b, l
<1>. QED
  BY <1>1, <1>2, <1>3, <1>4, MeasuredPasses DEF Judged

\* The median is the quantile 1/2, and half the sum of the two in the middle.
LEMMA MedianMeant ==
  ASSUME rule \in RuleObjects, NEW d \in Snapshots
  PROVE  AggWithin(MedianAgg(d.rows), Lower, Upper) <=> MedianMeets(d)
<1> DEFINE n == Cardinality(Full(d))
           c == Cells(d)
           Middle(r) == c[r[(n + 1) \div 2]] + c[r[(n \div 2) + 1]]
<1>1. Lower \in Int /\ Upper \in Int
  BY BoundTypes
<1>2. MedianMeets(d) <=> \E r \in Rankings(d) : n > 0 /\ Bounded(Middle(r), 2 * Lower, 2 * Upper)
  BY DEF MedianMeets
<1>3. CASE Full(d) = {}
  <2>1. ~ (n > 0)
    BY <1>3, FS_EmptySet
  <2>. HIDE DEF n, Middle
  <2>. QED
    BY <1>2, <1>3, <2>1, NoQuantile, NullIsNotWithin DEF MedianAgg
<1>4. CASE Full(d) # {}
  <2>0. <<1, 2>> \in Quantiles
    BY DEF Quantiles
  <2>1. ASSUME NEW r \in Rankings(d)
        PROVE  n > 0 /\ MedianAgg(d.rows) = <<Middle(r), 2>> /\ Middle(r) \in Int
    <3> DEFINE k == (1 * (n - 1)) \div 2
               rest == (1 * (n - 1)) % 2
               next == IF rest = 0 THEN k ELSE k + 1
               A == c[r[k + 1]]
               B == c[r[next + 1]]
    <3>1. n \in Nat /\ n > 0 /\ MedianAgg(d.rows) = <<A * (2 - rest) + B * rest, 2>>
      <4>1. \A q \in Quantiles :
              LET K == (q[1] * (n - 1)) \div q[2]
                  R == (q[1] * (n - 1)) % q[2]
                  N == IF R = 0 THEN K ELSE K + 1
              IN /\ n \in Nat /\ n > 0
                 /\ QuantileAgg(d.rows, q) = <<c[r[K + 1]] * (q[2] - R) + c[r[N + 1]] * R, q[2]>>
        BY <1>4, QuantileValue
      <4>. QED
        BY <2>0, <4>1 DEF MedianAgg
    <3>2. \A j \in 1..n : c[r[j]] \in Int
      BY RankingType
    <3>. HIDE DEF n, c
    <3>3. /\ k \in Nat /\ rest \in {0, 1} /\ n - 1 = 2 * k + rest
          /\ (n + 1) \div 2 = k + 1
          /\ (n \div 2) + 1 = next + 1
      <4>1. 1 * (n - 1) = n - 1 /\ n - 1 \in Nat
        BY <3>1
      <4>2. k = (n - 1) \div 2 /\ rest = (n - 1) % 2
        BY <4>1
      <4>3. k \in Nat /\ rest \in {0, 1} /\ n - 1 = 2 * k + rest
        <5>1. \A a \in Nat : a \div 2 \in Nat /\ a % 2 \in {0, 1} /\ a = 2 * (a \div 2) + (a % 2)
          OBVIOUS
        <5>. HIDE DEF k, rest
        <5>. QED
          BY <4>1, <4>2, <5>1
      <4>. HIDE DEF k, rest
      <4>4. n + 1 = 2 * (k + 1) + rest /\ (rest = 0 => n = 2 * k + 1) /\ (rest = 1 => n = 2 * (k + 1))
        BY <3>1, <4>3
      <4>5. (n + 1) \div 2 = k + 1
        BY <4>3, <4>4
      <4>6. n \div 2 = next
        BY <4>3, <4>4
      <4>. QED
        BY <4>3, <4>5, <4>6
    <3>4. k + 1 \in 1..n /\ next + 1 \in 1..n
      <4>. HIDE DEF k, rest
      <4>. QED
        BY <3>1, <3>3
    <3>5. Middle(r) = A + B
      <4>. HIDE DEF k, next
      <4>. QED
        BY <3>3
    <3>6. A \in Int /\ B \in Int
      <4>. HIDE DEF k, next
      <4>. QED
        BY <3>2, <3>4
    <3>7. A * (2 - rest) + B * rest = A + B
      <4>1. CASE rest = 0
        <5>1. A = B
          BY <4>1
        <5>. HIDE DEF A, B, rest
        <5>. QED
          BY <3>6, <4>1, <5>1
      <4>2. CASE rest = 1
        <5>. HIDE DEF A, B, rest
        <5>. QED
          BY <3>6, <4>2
      <4>. HIDE DEF rest
      <4>. QED
        BY <3>3, <4>1, <4>2
    <3>. HIDE DEF A, B, rest, Middle
    <3>. QED
      BY <3>1, <3>5, <3>6, <3>7
  <2>2. ASSUME NEW r \in Rankings(d)
        PROVE  AggWithin(MedianAgg(d.rows), Lower, Upper)
                 <=> n > 0 /\ Bounded(Middle(r), 2 * Lower, 2 * Upper)
    <3>1. n > 0 /\ MedianAgg(d.rows) = <<Middle(r), 2>> /\ Middle(r) \in Int
      BY <2>1
    <3>. HIDE DEF Middle, n
    <3>2. AggWithin(<<Middle(r), 2>>, Lower, Upper) <=> Bounded(Middle(r), Lower * 2, Upper * 2)
      BY <1>1, <3>1, FractionWithin
    <3>3. Lower * 2 = 2 * Lower /\ Upper * 2 = 2 * Upper
      BY <1>1
    <3>. QED
      BY <3>1, <3>2, <3>3
  <2>3. PICK r \in Rankings(d) : TRUE
    BY SomeRanking
  <2>. HIDE DEF Middle, n
  <2>. QED
    BY <1>2, <2>2, <2>3
<1>. QED
  BY <1>3, <1>4

LEMMA MedianJudged ==
  ASSUME rule \in RuleObjects, rule.name = "median_between", NEW s1 \in Snapshots, NEW s2
  PROVE  Judged(s1, s2)
<1> DEFINE l == Len(s1.rows)
           b == AggWithin(MedianAgg(s1.rows), Lower, Upper)
<1>1. Meets(s1) <=> b
  BY MedianMeant, MeetsArms
<1>2. Verdict(rule, s1, s2) = DescribedMeasure(Measured(s1, l, b))
  BY Arms, BoundTypes DEF MedianBetween
<1>3. b \in BOOLEAN
  BY DEF AggWithin
<1>4. l \in Nat
  BY DEF Snapshots
<1>. HIDE DEF b, l
<1>. QED
  BY <1>1, <1>2, <1>3, <1>4, MeasuredPasses DEF Judged

---------------------------------------------------------------------------
(* The verdict is witnessed *)

\* It speaks of one of the contents its statements have read.
Witnessed(s1, s2) ==
  IF Verdict(rule, s1, s2).passed
  THEN \E d \in {s1, s2} :
         Answered(d) /\ (Meets(d) \/ Disabled(d) \/ CountsNothing(d) \/ Namesake(d))
  ELSE \E d \in {s1, s2} : ~ Answered(d) \/ Unanswerable(d) \/ ~ Meets(d) \/ Namesake(d)

LEMMA JudgedIsWitnessed ==
  ASSUME NEW s1 \in Snapshots, NEW s2, Judged(s1, s2)
  PROVE  Witnessed(s1, s2)
<1>1. s1.exists => Answered(s1)
  BY DEF Snapshots
<1>. QED
  BY <1>1 DEF Judged, Witnessed, Unanswerable

\* A column count of a table that is missing is zero.
LEMMA ColumnCountWitnessed ==
  ASSUME rule \in RuleObjects, rule.name = "column_count_between",
         NEW s1 \in Snapshots, NEW s2, Answered(s1), s1.elsewhere = NoTable
  PROVE  Witnessed(s1, s2)
<1> DEFINE n == IF s1.exists THEN s1.columns ELSE 0
           b == Within(n, IntLower, IntUpper)
           f == IF b THEN 0 ELSE 1
<1>1. n \in Nat /\ IntLower \in Int /\ IntUpper \in Int /\ s1.exists \in BOOLEAN
  BY BoundTypes DEF Snapshots
<1>2. Verdict(rule, s1, s2) = Result(b, n, f, FALSE)
  <2>1. ColumnsListed(s1) = n
    BY <1>1 DEF ColumnsListed
  <2>. QED
    BY <2>1, Arms DEF ColumnCountBetween, Answered, IntLower, IntUpper
<1>3. Verdict(rule, s1, s2).passed = b
  <2>. HIDE DEF b, n, f
  <2>. QED
    BY <1>2 DEF Result
<1>4. Meets(s1) <=> Bounded(s1.columns, IntLower, IntUpper)
  BY MeetsArms
<1>5. b <=> IntLower <= n /\ n <= IntUpper
  BY DEF Within
<1>6. CASE s1.exists
  <2>1. Meets(s1) <=> b
    BY <1>4, <1>5, <1>6 DEF Bounded
  <2>. HIDE DEF b
  <2>. QED
    BY <1>3, <2>1 DEF Witnessed
<1>7. CASE ~ s1.exists
  <2>1. b => CountsNothing(s1)
    BY <1>1, <1>5, <1>7 DEF CountsNothing
  <2>2. Unanswerable(s1)
    BY <1>7 DEF Unanswerable
  <2>. HIDE DEF b
  <2>. QED
    BY <1>3, <2>1, <2>2 DEF Witnessed
<1>. QED
  BY <1>6, <1>7

\* The rules that look at the catalog.
LEMMA CatalogWitnessed ==
  ASSUME rule \in RuleObjects, rule.name \in CatalogRules, NEW s1 \in Snapshots, NEW s2
  PROVE  Witnessed(s1, s2)
<1>1. CASE ~ Answered(s1)
  <2>1. ~ Verdict(rule, s1, s2).passed
    BY <1>1, CatalogAnswers
  <2>. QED
    BY <1>1, <2>1 DEF Witnessed
<1>2. CASE Answered(s1) /\ s1.elsewhere # NoTable
  BY <1>2 DEF Witnessed, Namesake
<1>3. CASE Answered(s1) /\ s1.elsewhere = NoTable
  BY <1>3, ColumnCountWitnessed, OfTypeJudged, JudgedIsWitnessed DEF CatalogRules
<1>. QED
  BY <1>1, <1>2, <1>3

\* A rule that judges rows passes when its second statement keeps none.
LEMMA TallyPasses ==
  ASSUME NEW s1 \in Snapshots, NEW s2 \in Snapshots, NEW T \in SUBSET DOMAIN s2.rows
  PROVE  /\ Tally(s1, s2, T).passed <=> s1.exists /\ s2.exists /\ T = {}
         /\ Described(Tally(s1, s2, T)).passed <=> s1.exists /\ s2.exists /\ T = {}
<1> DEFINE n == Cardinality(T)
<1>1. IsFiniteSet(T) /\ n \in Nat /\ (n = 0 <=> T = {})
  BY RowSetsAreFinite, FS_EmptySet
<1>2. Tally(s1, s2, T).passed <=> s1.exists /\ s2.exists /\ n = 0
  <2>. HIDE DEF n
  <2>1. Tally(s1, s2, T) = IF s1.exists /\ s2.exists THEN Result(n = 0, Len(s1.rows), n, FALSE) ELSE Errored
    BY DEF Tally, n
  <2>2. Result(n = 0, Len(s1.rows), n, FALSE).passed <=> n = 0
    BY DEF Result
  <2>. QED
    BY <2>1, <2>2, ErroredType
<1>3. Tally(s1, s2, T) \in Verdicts
  BY TallyType
<1>4. Described(Tally(s1, s2, T)).passed = Tally(s1, s2, T).passed
  BY <1>3, DescribedType
<1>. QED
  BY <1>1, <1>2, <1>4

LEMMA UnanswerableFails ==
  ASSUME rule \in RuleObjects, rule.name \in RowRules, NEW s1 \in Snapshots, NEW s2 \in Snapshots,
         Unanswerable(s2)
  PROVE  Verdict(rule, s1, s2).passed = FALSE
<1>1. CASE ~ s2.exists
  BY <1>1, SecondFails, ErroredType
<1>2. CASE rule.name = "relationship" /\ s2.keys = NoTable
  BY <1>2, Arms, ErroredType DEF Relationship
<1>3. CASE NoValues
  BY <1>3, Arms, ErroredType DEF NoValues, ValuesInSet, ValuesNotInSet
<1>. QED
  BY <1>1, <1>2, <1>3 DEF Unanswerable

\* NOT IN a list with a NULL is true of no value.
LEMMA DisabledPasses ==
  ASSUME NEW s1 \in Snapshots, NEW s2 \in Snapshots, Disabled(s2), s1.exists, s2.exists
  PROVE  Verdict(rule, s1, s2).passed
<1> DEFINE Where(v) == And3(Not3(IsNull(v)), Not3(In(v, s2.keys)))
           T == {i \in DOMAIN s2.rows : Where(Cell(s2.rows, i)) = "true"}
<1>1. rule.name = "relationship" /\ s2.keys # NoTable /\ Null \in s2.keys
  BY DEF Disabled
<1>2. Verdict(rule, s1, s2) = Tally(s1, s2, T)
  BY <1>1, Arms DEF Relationship, Counted, CountWhere, Kept, Tally
<1>3. \A v : Where(v) # "true"
  <2>1. \A v : In(v, s2.keys) = "true" \/ In(v, s2.keys) = "unknown"
    BY <1>1 DEF In
  <2>2. \A v : Not3(In(v, s2.keys)) = "false" \/ Not3(In(v, s2.keys)) = "unknown"
    BY <2>1 DEF Not3
  <2>. QED
    BY <2>2 DEF And3
<1>. HIDE DEF Where
<1>4. T = {}
  BY <1>3
<1>. HIDE DEF T
<1>. QED
  BY <1>2, <1>4, TallyPasses

LEMMA RowRulesWitnessed ==
  ASSUME rule \in RuleObjects, rule.name \in RowRules, ~ Misread,
         NEW s1 \in Snapshots, NEW s2 \in Snapshots
  PROVE  Witnessed(s1, s2)
<1>1. PICK T : RowVerdict(s1, s2, T)
  BY RowRulesTally
<1>2. T \in SUBSET DOMAIN s2.rows /\ (s2.exists => Answered(s2))
  BY <1>1 DEF RowVerdict, Snapshots
<1>3. CASE ~ s1.exists
  <2>1. ~ Verdict(rule, s1, s2).passed
    BY <1>3, VerdictsAreSound, ErroredType DEF Sound, RowRules, CatalogRules
  <2>. QED
    BY <1>3, <2>1 DEF Witnessed, Unanswerable
<1>4. CASE Unanswerable(s2)
  BY <1>4, UnanswerableFails DEF Witnessed
<1>5. CASE Disabled(s2) /\ s1.exists /\ ~ Unanswerable(s2)
  BY <1>2, <1>5, DisabledPasses DEF Witnessed, Unanswerable
<1>6. CASE s1.exists /\ ~ Unanswerable(s2) /\ ~ Disabled(s2)
  <2>1. s2.exists /\ T = Offenders(s2)
    BY <1>1, <1>6 DEF RowVerdict, Unanswerable
  <2>2. \/ Verdict(rule, s1, s2) = Tally(s1, s2, T)
        \/ Verdict(rule, s1, s2) = Described(Tally(s1, s2, T))
    BY <1>1, <1>6 DEF RowVerdict
  <2>3. Verdict(rule, s1, s2).passed <=> T = {}
    BY <1>2, <1>6, <2>1, <2>2, TallyPasses
  <2>4. Meets(s2) <=> Offenders(s2) = {}
    BY MeetsArms
  <2>. QED
    BY <1>2, <2>1, <2>3, <2>4 DEF Witnessed
<1>. QED
  BY <1>3, <1>4, <1>5, <1>6

LEMMA VerdictsAreWitnessed ==
  ASSUME rule \in RuleObjects, rule.name # "unique", ~ Misread,
         NEW s1 \in Snapshots, NEW s2 \in Snapshots
  PROVE  Witnessed(s1, s2)
<1>1. rule.name \in RuleNames
  BY DEF RuleObjects
<1>2. \/ rule.name \in RowRules
      \/ rule.name \in CatalogRules
      \/ rule.name \in {"row_count_between", "row_count_to_equal", "null_count_between",
                        "unique_together", "proportion_between", "lengths_between", "sorted",
                        "metric_between", "quantile_between", "median_between"}
  BY <1>1 DEF RuleNames, RowRules, TwoStatements, CatalogRules
<1>3. CASE rule.name \in {"row_count_between", "row_count_to_equal", "null_count_between",
                          "unique_together", "proportion_between", "lengths_between", "sorted",
                          "metric_between", "quantile_between", "median_between"}
  <2>1. Judged(s1, s2)
    BY <1>3, RowCountJudged, NullCountJudged, TogetherJudged, ShareJudged,
       LengthsJudged, SortedJudged, MetricJudged, QuantileJudged, MedianJudged
  <2>. QED
    BY <2>1, JudgedIsWitnessed
<1>. QED
  BY <1>2, <1>3, RowRulesWitnessed, CatalogWitnessed

\* An assertion other than uniqueness, of a rule that is read as it is written,
\* passes only if the rule held of contents committed during the check, and
\* fails only if it did not hold of some, or a statement was not answered.
THEOREM VerdictsWitnessed == Spec => []VerdictIsWitnessed
<1>1. ASSUME RInv PROVE VerdictIsWitnessed
  <2>. DEFINE s1 == snap[1]
              s2 == snap[Len(snap)]
  <2>. SUFFICES ASSUME pc = "done", rule.name # "unique", ~ Misread
                PROVE  IF verdict.passed
                       THEN \E d \in seen :
                              Meets(d) \/ Disabled(d) \/ CountsNothing(d) \/ Namesake(d)
                       ELSE \/ \E k \in DOMAIN snap : ~ Answered(snap[k])
                            \/ \E d \in seen : Unanswerable(d) \/ ~ Meets(d) \/ Namesake(d)
    BY DEF VerdictIsWitnessed
  <2>1. /\ verdict = Verdict(rule, s1, s2) /\ rule \in RuleObjects
        /\ s1 \in Snapshots /\ s2 \in Snapshots
        /\ Answered(s1) => s1 \in seen
        /\ Answered(s2) => s2 \in seen
        /\ (\E k \in DOMAIN snap : ~ Answered(snap[k])) \/ (Answered(s1) /\ Answered(s2))
    BY <1>1, DoneReads
  <2>. HIDE DEF s1, s2
  <2>2. Witnessed(s1, s2)
    BY <2>1, VerdictsAreWitnessed
  <2>. QED
    BY <2>1, <2>2 DEF Witnessed
<1>. QED
  BY <1>1, Invariance, PTL
=============================================================================
