------------------------------- MODULE RuleRun -------------------------------
(***************************************************************************)
(* One assertion while other sessions commit: an arm of run_rules, or an   *)
(* expect_* function, sends one or two statements through the engine.      *)
(* Each statement reads one committed snapshot (QueryService), but nothing *)
(* holds the snapshots of two statements together: no transaction is open  *)
(* on the persistent connection.  Any statement may fail instead: no such  *)
(* column, a cast or a pattern that DuckDB refuses, no connection.         *)
(***************************************************************************)
EXTENDS Expectations, SequencesExt

CONSTANTS Cases,        \* pairs <<rule, contents>> an assertion may start from
          Rows,         \* rows that other sessions insert
          KeySets,      \* contents other sessions give the referenced keys
          MaxRows,      \* bound: rows in the checked table
          MaxCommits    \* bound: commits of other sessions during the check

\* The JSON object of a rule, and the contents a database may have.
RuleNames == TwoStatements \cup
  {"row_count_between", "column_count_between", "metric_between", "of_type",
   "proportion_between", "quantile_between", "unique_together", "lengths_between",
   "null_count_between", "row_count_to_equal", "sorted", "median_between"}
Numbers == {NoBound} \cup ({"int", "float"} \X (-Big..Big))
\* DuckDB refuses a quantile that is not in 0..1.
Quantiles == {q \in Nat \X (Nat \ {0}) : q[1] <= q[2]}
Values == Int \cup {Null}
RuleObjects ==
  [name : RuleNames, min : Numbers, max : Numbers, value : Numbers,
   list : SUBSET ({"string", "number"} \X Texts),
   values : (SUBSET Int) \ {NoAnswer}, raw : {NoAnswer} \cup SUBSET Int,
   agg : STRING, type : STRING, quantile : Quantiles, arity : Nat, descending : BOOLEAN]
Elsewhere == {NoTable} \cup [columns : Nat, type : STRING, first : BOOLEAN]
Contents == [exists : BOOLEAN, rows : Seq(Rows), type : STRING, columns : Nat,
             keys : KeySets, elsewhere : Elsewhere]

ASSUME CasesAssumption == Cases \subseteq RuleObjects \X Contents
ASSUME ValuesAssumption == /\ Null \notin Int \cup (Int \X Int)
                           /\ Rows \subseteq Values \X Values
                           /\ \A keys \in KeySets : keys = NoTable \/ keys \subseteq Values
ASSUME LengthAssumption == \A row \in Rows : row[1] # Null => Length[row[1]] \in 0..Big
ASSUME NoAnswerAssumption == NoAnswer \notin Elsewhere
ASSUME BoundAssumption == MaxRows \in Nat /\ MaxCommits \in Nat

VARIABLES db,           \* committed contents
          rule,         \* the rule being checked
          pc,           \* "first" or "second" statement next, or "done"
          snap,         \* the reply to each executed statement
          verdict,      \* the AssertionResult, once done
          seen,         \* contents committed since the first statement ran
          commits       \* commits so far

vars == <<db, rule, pc, snap, verdict, seen, commits>>

Init == /\ \E case \in Cases : rule = case[1] /\ db = case[2]
        /\ pc = "first"
        /\ snap = <<>>
        /\ verdict = Errored
        /\ seen = {}
        /\ commits = 0

---------------------------------------------------------------------------
(* The check *)

\* A statement is answered from the contents d, or with an error.
Unanswered(d) == [d EXCEPT !.exists = FALSE, !.elsewhere = NoAnswer]
Answered(s) == s.elsewhere # NoAnswer
Replies(d) == {d, Unanswered(d)}

\* A list without a string is refused before any statement is sent.
NoValues == rule.name \in {"in_set", "not_in_set"} /\ Strings(rule.list) = {}

\* A second statement follows an answered first one, in the rules that have one.
FirstStatement ==
  /\ pc = "first"
  /\ \E s \in Replies(db) :
       /\ snap' = <<s>>
       /\ IF rule.name \in TwoStatements /\ s.exists /\ ~ NoValues
          THEN pc' = "second" /\ UNCHANGED verdict
          ELSE pc' = "done" /\ verdict' = Verdict(rule, s, s)
  /\ seen' = {db}
  /\ UNCHANGED <<db, rule, commits>>

SecondStatement ==
  /\ pc = "second"
  /\ \E s \in Replies(db) : /\ snap' = Append(snap, s)
                            /\ verdict' = Verdict(rule, snap[1], s)
  /\ pc' = "done"
  /\ UNCHANGED <<db, rule, seen, commits>>

(* Other sessions (external) *)

Commit(new) ==
  /\ commits < MaxCommits
  /\ db' = new
  /\ commits' = commits + 1
  /\ seen' = IF pc = "second" THEN seen \cup {new} ELSE seen
  /\ UNCHANGED <<rule, pc, snap, verdict>>

Insert(r) == Len(db.rows) < MaxRows /\ Commit([db EXCEPT !.rows = Append(@, r)])
Delete(i) == Commit([db EXCEPT !.rows = RemoveAt(@, i)])
ChangeKeys(keys) == Commit([db EXCEPT !.keys = keys])
Drop == db.exists /\ Commit([db EXCEPT !.exists = FALSE])

OtherSession == \/ \E r \in Rows : Insert(r)
                \/ \E i \in DOMAIN db.rows : Delete(i)
                \/ \E keys \in KeySets : ChangeKeys(keys)
                \/ Drop

Next == FirstStatement \/ SecondStatement \/ OtherSession

Spec == Init /\ [][Next]_vars

---------------------------------------------------------------------------
(* What the rules mean, written from README's table without its SQL *)

Bounded(n, lo, hi) == lo <= n /\ n <= hi
Cells(d) == [i \in DOMAIN d.rows |-> Cell(d.rows, i)]
NullCells(d) == {i \in DOMAIN d.rows : Cells(d)[i] = Null}
Full(d) == DOMAIN d.rows \ NullCells(d)
AllDifferent(f) == \A i, j \in DOMAIN f : i # j => f[i] # f[j]
\* The rows whose value an earlier row has.
Repeats(d) == {j \in Full(d) : \E i \in Full(d) : i < j /\ Cells(d)[i] = Cells(d)[j]}
Lower == Argument(rule.min, -Big)
Upper == Argument(rule.max, Big)

\* The offending rows of a rule that judges one row at a time.
RowRules == {"not_null", "in_range", "match_regex", "to_match_regex", "in_set",
             "custom_sql", "not_in_set", "not_match_regex", "strftime_format", "relationship"}
Listed == {item[2] : item \in rule.list}
Offends(d, v) ==
  CASE rule.name = "not_null" -> v = Null
    [] rule.name = "in_range" -> v = Null \/ ~ Bounded(v, Lower, Upper)
    [] rule.name \in {"match_regex", "to_match_regex"} -> v = Null \/ v \notin rule.values
    [] rule.name = "in_set" -> v = Null \/ v \notin Listed
    [] rule.name = "not_in_set" -> v \in Listed
    [] rule.name \in {"custom_sql", "not_match_regex"} -> v \in rule.values
    [] rule.name = "strftime_format" -> v # Null /\ v \notin rule.values
    [] rule.name = "relationship" -> v # Null /\ (d.keys = NoTable \/ v \notin d.keys)
Offenders(d) == {i \in DOMAIN d.rows : Offends(d, Cells(d)[i])}

\* A column is in order when no value goes against an earlier one, in each
\* stretch of rows without NULL.
InOrder(d) ==
  \A i, j \in DOMAIN d.rows :
    i < j /\ i..j \cap NullCells(d) = {} =>
      IF rule.descending THEN Cells(d)[j] <= Cells(d)[i] ELSE Cells(d)[i] <= Cells(d)[j]

(* Aggregates of the values, "NULL aggregate (empty table) -> fail". *)
Total(d) == SumFunctionOnSet(Cells(d), Full(d))
MetricMeets(d) ==
  LET n == Cardinality(Full(d))
      deviation(i) == n * Cells(d)[i] - Total(d)
      spread == SumFunction([i \in Full(d) |-> deviation(i) * deviation(i)])
  IN CASE rule.agg = "min" -> /\ \A i \in Full(d) : Lower <= Cells(d)[i]
                              /\ \E i \in Full(d) : Cells(d)[i] <= Upper
       [] rule.agg = "max" -> /\ \A i \in Full(d) : Cells(d)[i] <= Upper
                              /\ \E i \in Full(d) : Lower <= Cells(d)[i]
       [] rule.agg = "sum" -> n > 0 /\ Bounded(Total(d), Lower, Upper)
       [] rule.agg = "mean" -> n > 0 /\ Bounded(Total(d), Lower * n, Upper * n)
       [] rule.agg = "stddev" -> \* n^2 (n-1) times the sample variance is the spread
            /\ n > 1
            /\ Lower > 0 => Lower * Lower * n * n * (n - 1) <= spread
            /\ Upper >= 0 /\ spread <= Upper * Upper * n * n * (n - 1)
       [] OTHER -> Bounded(Cardinality({Cells(d)[i] : i \in Full(d)}), Lower, Upper)

\* The rankings of the rows that have a value, by their values.
Rankings(d) ==
  {r \in Bijection(1..Cardinality(Full(d)), Full(d)) :
     \A j, k \in DOMAIN r : j < k => Cells(d)[r[j]] <= Cells(d)[r[k]]}
\* The middle value, or the mean of the two in the middle.
MedianMeets(d) ==
  \E r \in Rankings(d) :
    LET n == Cardinality(Full(d))
        twice == Cells(d)[r[(n + 1) \div 2]] + Cells(d)[r[(n \div 2) + 1]]
    IN n > 0 /\ Bounded(twice, 2 * Lower, 2 * Upper)
\* The value part / q[2] of the way from the k-th to the next, where the whole
\* way from the first to the last is q[1] / q[2].
QuantileMeets(d) ==
  \E r \in Rankings(d) : \E k \in DOMAIN r :
    LET q == rule.quantile
        v == Cells(d)[r[k]]
        part == q[1] * (Cardinality(Full(d)) - 1) - q[2] * (k - 1)
        rise == IF part = 0 THEN 0 ELSE Cells(d)[r[k + 1]] - v
    IN /\ 0 <= part /\ part < q[2]
       /\ Bounded(q[2] * v + part * rise, q[2] * Lower, q[2] * Upper)
ShareMeets(d) ==
  LET part == IF rule.agg = "null" THEN Cardinality(NullCells(d))
              ELSE Cardinality({Cells(d)[i] : i \in Full(d)})
  IN d.rows # <<>> /\ Bounded(part, Lower * Len(d.rows), Upper * Len(d.rows))

\* Bounds on counts and lengths are integers in JSON; others are not read.
IntLower == AsI64(rule.min, 0)
IntUpper == AsI64(rule.max, Big)

\* The table satisfies the rule.
Meets(d) ==
  CASE rule.name \in RowRules -> Offenders(d) = {}
    [] rule.name = "unique" -> Repeats(d) = {}
    [] rule.name = "unique_together" -> rule.arity >= 2 /\ AllDifferent(d.rows)
    [] rule.name = "row_count_between" -> Bounded(Len(d.rows), IntLower, IntUpper)
    [] rule.name = "row_count_to_equal" -> Len(d.rows) = AsI64(rule.value, -1)
    [] rule.name = "column_count_between" -> Bounded(d.columns, IntLower, IntUpper)
    [] rule.name = "of_type" -> d.type = rule.type
    [] rule.name = "lengths_between" ->
         \A i \in Full(d) : Bounded(Length[Cells(d)[i]], IntLower, IntUpper)
    [] rule.name = "null_count_between" ->
         Bounded(Cardinality(NullCells(d)), IntLower, IntUpper)
    [] rule.name = "sorted" -> InOrder(d)
    [] rule.name = "metric_between" -> MetricMeets(d)
    [] rule.name = "proportion_between" -> ShareMeets(d)
    [] rule.name = "median_between" -> MedianMeets(d)
    [] rule.name = "quantile_between" -> QuantileMeets(d)

\* A NULL among the referenced keys switches the relationship check off.
Disabled(d) == rule.name = "relationship" /\ d.keys # NoTable /\ Null \in d.keys

\* The catalog lists no columns for a missing table, and none may be enough.
CountsNothing(d) == /\ rule.name = "column_count_between"
                    /\ ~ d.exists
                    /\ IntLower <= 0

\* The catalog is asked for a name, and lists the tables of other schemas too.
CatalogRules == {"column_count_between", "of_type"}
Namesake(d) == rule.name \in CatalogRules /\ d.elsewhere # NoTable

\* Rules that run_rules does not read as they are written: a number in a list
\* is dropped, and the quotes of a pattern are not doubled.
Misread ==
  \/ rule.name \in {"in_set", "not_in_set"} /\ \E item \in rule.list : item[1] # "string"
  \/ rule.name = "match_regex" /\ rule.raw # rule.values

Unanswerable(d) ==
  \/ ~ d.exists
  \/ rule.name = "relationship" /\ d.keys = NoTable
  \/ NoValues

---------------------------------------------------------------------------
(* Properties *)

TypeOK == /\ db \in Contents /\ seen \subseteq Contents
          /\ rule \in RuleObjects
          /\ pc \in {"first", "second", "done"}
          /\ Len(snap) \in 0..2 /\ ToSet(snap) \subseteq UNION {Replies(d) : d \in seen}
          /\ commits \in 0..MaxCommits
          /\ verdict.passed \in BOOLEAN /\ verdict.error \in BOOLEAN
          /\ verdict.row_count \in Nat /\ verdict.failed_count \in Int

\* README's table of functions: an assertion passes only if its rule held, and
\* fails only if it did not, at some instant between its statements, or if one
\* of them failed.  Excepted by name: what Disabled, CountsNothing, Namesake and
\* Misread describe, and the uniqueness rule, which promises less.
VerdictIsWitnessed ==
  pc = "done" /\ rule.name # "unique" /\ ~ Misread =>
    IF verdict.passed
    THEN \E d \in seen : Meets(d) \/ Disabled(d) \/ CountsNothing(d) \/ Namesake(d)
    ELSE \/ \E k \in DOMAIN snap : ~ Answered(snap[k])
         \/ \E d \in seen : Unanswerable(d) \/ ~ Meets(d) \/ Namesake(d)

\* expect_unique counts rows and distinct values in two statements: only when
\* they are answered from the same contents is its verdict that of the table.
\* README: "Fails if duplicate values in column"; it fails without duplicates,
\* too, when a cell is NULL, and counts that cell as one more.
UniqueExactWhenQuiet ==
  pc = "done" /\ rule.name = "unique"
    /\ Len(snap) = 2 /\ snap[2] = snap[1] /\ snap[1].exists =>
      LET d == snap[1]
      IN /\ verdict.passed <=> Meets(d) /\ NullCells(d) = {}
         /\ verdict.row_count = Len(d.rows)
         /\ verdict.failed_count = Cardinality(Repeats(d)) + Cardinality(NullCells(d))

\* The two counts of a rule that judges rows are true counts, though of two
\* instants: row_count of the first, failed_count of the second.
CountsAreWitnessed ==
  pc = "done" /\ rule.name \in RowRules /\ ~ Misread
    /\ Len(snap) = 2 /\ Answered(snap[2])
    /\ (\A d \in seen : ~ Unanswerable(d) /\ ~ Disabled(d)) =>
      /\ \E d \in seen : verdict.row_count = Len(d.rows)
      /\ \E d \in seen : verdict.failed_count = Cardinality(Offenders(d))
      /\ seen = {db} => verdict.failed_count <= verdict.row_count

\* validate.rs count_rows, "Err(e) => (0, 0, e.to_string())" and its like: an
\* assertion passes only on answers, each of a table that was there (the
\* catalog may find none, or one in another schema), also when the table goes
\* or the connection fails half way; a failed statement is told as an error,
\* except the second one of expect_unique, which is told by a count of -1.
PassesAreAnswered ==
  pc = "done" =>
    \A k \in DOMAIN snap :
      /\ verdict.passed =>
           /\ Answered(snap[k])
           /\ snap[k].exists \/ CountsNothing(snap[k]) \/ Namesake(snap[k])
      /\ ~ Answered(snap[k]) =>
           \/ verdict.error
           \/ rule.name = "unique" /\ k = 2 /\ verdict.failed_count = -1

\* The rule as run_rules reads it: a number that is not whole is not read as a
\* count or a length, an item of a list that is not a string is dropped, and a
\* pattern of expect_column_values_match_regex matches what its quotes leave.
Counts == {"row_count_between", "column_count_between", "lengths_between",
           "null_count_between", "row_count_to_equal"}
AsRead ==
  LET Whole(json) == IF rule.name \in Counts /\ json # NoBound /\ json[1] = "float"
                     THEN NoBound ELSE json
  IN [rule EXCEPT !.min = Whole(@), !.max = Whole(@), !.value = Whole(@),
                  !.list = {item \in @ : item[1] = "string"},
                  !.values = IF rule.name = "match_regex" THEN rule.raw ELSE @]

\* A list that survives as one text with commas between its members.
Separable == \A t \in Strings(rule.list) :
               Split[t] = {t} /\ Trim[t] = t /\ Unquote[t] = t /\ t # Empty

\* validate.rs "Each rule dispatches to the same underlying SQL counting helpers
\* as the standalone expect_* functions": on the same replies the two report the
\* same of the rule as it is read.  Excepted by name: lists that commas, blanks
\* or quotes change, patterns that leave no SQL, one column alone in a
\* composite, and the failed_count of the length rule.
BatchAgreesWithStandalone ==
  pc = "done" /\ rule.arity >= 2 /\ Separable /\ AsRead.values # NoAnswer =>
    LET alone == Standalone(AsRead, snap[1], snap[Len(snap)])
    IN IF rule.name = "lengths_between"
       THEN alone = [verdict EXCEPT !.failed_count = alone.failed_count]
       ELSE alone = verdict

\* README "expect_unique: Fails if duplicate values in column": a pass means
\* that at some instant of the check the column had no duplicate value.
UniqueIsWitnessed ==
  pc = "done" /\ rule.name = "unique" /\ verdict.passed =>
    \E d \in seen : AllDifferent([i \in Full(d) |-> Cells(d)[i]])

\* README "expect_relationship: Fails on orphan values (broken FK)".
NoOrphanPasses ==
  pc = "done" /\ rule.name = "relationship" /\ verdict.passed =>
    \E d \in seen : d.keys # NoTable /\ Offenders(d) = {}
=============================================================================
