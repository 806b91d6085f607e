---------------------------- MODULE SuggestProofs ----------------------------
(***************************************************************************)
(* Theorems about Suggest for any contents of the table, width, error of   *)
(* the estimate, objects handed over and commits: type correctness; that a *)
(* suggested check fails as long as nobody changes the table; and that     *)
(* every member handed over is answered once, and passed only for cause.   *)
(***************************************************************************)
EXTENDS Suggest, InductionLemmas

\* A suggestion that the contents d do not pass.
Fails(s, d) ==
  \/ s.name = "in_set"
  \/ s.name = "row_count_between" /\ Contents[d].rows = << >>
  \/ /\ s.name = "not_null" /\ s.column \in Columns
     /\ \E i \in DOMAIN Contents[d].rows : Contents[d].rows[i][s.column] = Null
  \/ /\ s.name = "unique" /\ s.column \in Columns
     /\ Cardinality(Distinct(Cells(d, s.column))) < Len(Contents[d].rows)

\* Where the call under way is, and what it has collected.
Placed ==
  /\ call = "none" <=> pc = "none"
  /\ pc = "count" => call = "suggest"
  /\ pc = "summarize" => call \in {"suggest", "profile"}
  /\ pc = "rules" => call = "validate"
  /\ call = "validate" => pc = "rules" \/ (pc = "scan" /\ todo = {})
  /\ call = "suggest" => rows \in Seq(Suggestions)
  /\ call = "validate" => rows \in Seq(Reported)
  /\ call # "none" => db \in seen
  /\ pc # "scan" => cursor = 0

\* Between the two statements of a rule: what the first has seen was committed
\* during the call, and is what is committed if nothing has changed.
ReadWell ==
  read # "none" =>
    /\ pc = "rules" /\ todo # {} /\ fed[First].name # "in_set"
    /\ read \in seen /\ Contents[read].exists
    /\ ~ changed => read = db

\* As long as nothing has changed, what was suggested, or is being suggested
\* or handed over, fails.
SuggestionsFail ==
  ~ changed => /\ call # "suggest" => \A i \in DOMAIN offered : Fails(offered[i], db)
               /\ call = "suggest" => \A i \in DOMAIN rows : Fails(rows[i], db)
               /\ call = "validate" => \A i \in DOMAIN fed : Fails(fed[i], db)

\* A check that passed was true of one of the contents S.
Justified(row, S) ==
  row.passed /\ row.name # "unique" =>
    \E d \in S :
      /\ Contents[d].exists
      /\ IF row.name = "row_count_between" THEN Contents[d].rows # << >>
         ELSE \A k \in DOMAIN Contents[d].rows : Contents[d].rows[k][row.column] # Null

\* The rows answer the members that are no longer to check, each once.
Answered ==
  call = "validate" =>
    /\ todo \subseteq Members(fed)
    /\ {rows[i].name : i \in DOMAIN rows} = {fed[j].name : j \in Members(fed) \ todo}
    /\ \A i, j \in DOMAIN rows : i # j => rows[i].name # rows[j].name
    /\ \A i \in DOMAIN rows :
         /\ \E j \in Members(fed) : fed[j].name = rows[i].name /\ fed[j].column = rows[i].column
         /\ Justified(rows[i], seen)

\* The inductive invariant.
IInv == TypeOK /\ Placed /\ ReadWell /\ SuggestionsFail /\ SuggestedChecksFail /\ Answered

---------------------------------------------------------------------------
(* The contents *)

LEMMA ContentsType ==
  ASSUME NEW d \in DOMAIN Contents
  PROVE  /\ Contents[d].exists \in BOOLEAN
         /\ Len(Contents[d].rows) \in Nat
         /\ DOMAIN Contents[d].rows = 1..Len(Contents[d].rows)
         /\ Contents[d].rows = << >> <=> Len(Contents[d].rows) = 0
  BY ContentsAssumption

LEMMA CellsType ==
  ASSUME NEW d \in DOMAIN Contents, NEW c \in Columns
  PROVE  /\ Len(Cells(d, c)) = Len(Contents[d].rows)
         /\ DOMAIN Cells(d, c) = DOMAIN Contents[d].rows
         /\ \A i \in DOMAIN Contents[d].rows : Cell(Cells(d, c), i) = Contents[d].rows[i][c]
<1> DEFINE n == Len(Contents[d].rows)
           cells == [i \in 1..n |-> <<Contents[d].rows[i][c], 0>>]
<1>1. n \in Nat /\ DOMAIN Contents[d].rows = 1..n
  BY ContentsType
<1>2. Cells(d, c) = cells
  BY <1>1 DEF Cells
<1>3. DOMAIN cells = 1..n /\ Len(cells) = n
  BY <1>1
<1>4. \A i \in 1..n : cells[i][1] = Contents[d].rows[i][c]
  OBVIOUS
<1>. QED
  BY <1>1, <1>2, <1>3, <1>4 DEF Cell

\* The rows of a column, those with a value, and the values.
LEMMA Sizes ==
  ASSUME NEW d \in DOMAIN Contents, NEW c \in Columns
  PROVE  /\ IsFiniteSet(Present(Cells(d, c)))
         /\ Cardinality(Present(Cells(d, c))) \in Nat
         /\ Cardinality(Present(Cells(d, c))) <= Len(Contents[d].rows)
         /\ Cardinality(Present(Cells(d, c))) < Len(Contents[d].rows)
              => \E i \in DOMAIN Contents[d].rows : Contents[d].rows[i][c] = Null
         /\ IsFiniteSet(Distinct(Cells(d, c)))
         /\ Cardinality(Distinct(Cells(d, c))) \in Nat
<1> DEFINE n == Len(Contents[d].rows)
           P == Present(Cells(d, c))
<1>1. n \in Nat /\ DOMAIN Contents[d].rows = 1..n
  BY ContentsType
<1>2. P = {i \in 1..n : Contents[d].rows[i][c] # Null}
  BY <1>1, CellsType DEF Present
<1>. HIDE DEF P, n
<1>3. IsFiniteSet(1..n) /\ Cardinality(1..n) = n
  <2>1. /\ IsFiniteSet(1..n)
        /\ Cardinality(1..n) = IF 1 > n THEN 0 ELSE n - 1 + 1
    BY <1>1, FS_Interval
  <2>. QED
    BY <1>1, <2>1
<1>4. P \in SUBSET (1..n)
  BY <1>2
<1>5. /\ IsFiniteSet(P) /\ Cardinality(P) \in Nat /\ Cardinality(P) <= n
      /\ Cardinality(P) = n => P = 1..n
  BY <1>3, <1>4, FS_Subset, FS_CardinalityType
<1>6. Cardinality(P) < n => \E i \in 1..n : i \notin P
  <2>. SUFFICES ASSUME \A i \in 1..n : i \in P, Cardinality(P) < n PROVE FALSE
    OBVIOUS
  <2>1. P = 1..n
    BY <1>4
  <2>. QED
    BY <1>1, <1>3, <2>1
<1>7. Distinct(Cells(d, c)) = {Cell(Cells(d, c), i) : i \in P}
  BY DEF Distinct, P
<1>8. IsFiniteSet(Distinct(Cells(d, c)))
  <2> DEFINE f == [i \in P |-> Cell(Cells(d, c), i)]
             D == {Cell(Cells(d, c), i) : i \in P}
  <2>1. f \in [P -> D] /\ \A v \in D : \E i \in P : f[i] = v
    OBVIOUS
  <2>2. f \in Surjection(P, D)
    BY <2>1 DEF Surjection
  <2>. QED
    BY <1>5, <1>7, <2>2, FS_Surjection
<1>9. Cardinality(Distinct(Cells(d, c))) \in Nat
  BY <1>8, FS_CardinalityType
<1>10. Cardinality(P) < n => \E i \in 1..n : Contents[d].rows[i][c] = Null
  BY <1>2, <1>6
<1>. QED
  BY <1>1, <1>5, <1>8, <1>9, <1>10 DEF P, n

---------------------------------------------------------------------------
(* What run_rules says of a suggestion *)

LEMMA ResultFields ==
  ASSUME NEW b \in BOOLEAN, NEW n, NEW f, NEW e \in BOOLEAN
  PROVE  Result(b, n, f, e).passed = b /\ Result(b, n, f, e).error = e
  BY DEF Result

LEMMA ErroredFields == Errored.passed = FALSE /\ Errored.error = TRUE
  BY DEF Errored, Result

LEMMA RowFields ==
  ASSUME NEW m \in Suggestions, NEW d1, NEW d2, NEW b \in BOOLEAN, NEW e \in BOOLEAN,
         Verdict(Rule(m), ContentsFor(d1, m), ContentsFor(d2, m)).passed = b,
         Verdict(Rule(m), ContentsFor(d1, m), ContentsFor(d2, m)).error = e
  PROVE  /\ Row(m, d1, d2) \in Reported
         /\ Row(m, d1, d2).name = m.name /\ Row(m, d1, d2).column = m.column
         /\ Row(m, d1, d2).passed = b /\ Row(m, d1, d2).error = e
<1> DEFINE v == Verdict(Rule(m), ContentsFor(d1, m), ContentsFor(d2, m))
<1>1. Row(m, d1, d2)
        = [name |-> m.name, column |-> m.column, passed |-> v.passed, error |-> v.error]
  BY DEF Row
<1>2. v.passed = b /\ v.error = e
  OBVIOUS
<1>. HIDE DEF v
<1>3. Row(m, d1, d2) = [name |-> m.name, column |-> m.column, passed |-> b, error |-> e]
  BY <1>1, <1>2
<1>4. m.name \in Names /\ m.column \in 0..Width
  BY WidthAssumption DEF Suggestions, Names, Columns
<1>. QED
  BY <1>3, <1>4 DEF Reported

\* The row of a suggestion with a verdict.
Says(row, m, passed, error) ==
  /\ row \in Reported
  /\ row.name = m.name /\ row.column = m.column
  /\ row.passed = passed /\ row.error = error

LEMMA RowOfResult ==
  ASSUME NEW m \in Suggestions, NEW d1, NEW d2, NEW b \in BOOLEAN, NEW n, NEW f,
         Verdict(Rule(m), ContentsFor(d1, m), ContentsFor(d2, m)) = Result(b, n, f, FALSE)
  PROVE  Says(Row(m, d1, d2), m, b, FALSE)
<1> DEFINE v == Verdict(Rule(m), ContentsFor(d1, m), ContentsFor(d2, m))
<1>1. Result(b, n, f, FALSE).passed = b /\ Result(b, n, f, FALSE).error = FALSE
  BY ResultFields
<1>2. v.passed = b /\ v.error = FALSE
  BY <1>1
<1>. HIDE DEF v
<1>3. FALSE \in BOOLEAN
  OBVIOUS
<1>. QED
  BY <1>2, <1>3, RowFields DEF v, Says

LEMMA RuleFields ==
  ASSUME NEW m \in Suggestions
  PROVE  /\ Rule(m).name = m.name /\ Rule(m).list = {} /\ Rule(m).max = NoBound
         /\ m.name = "row_count_between" => Rule(m).min = <<"int", 1>>
         /\ m.name # "row_count_between" => m.column \in Columns
  BY DEF Rule, Suggestions

LEMMA InSetRow ==
  ASSUME NEW m \in Suggestions, m.name = "in_set", NEW d1, NEW d2
  PROVE  /\ Row(m, d1, d2) \in Reported
         /\ Row(m, d1, d2).name = m.name /\ Row(m, d1, d2).column = m.column
         /\ Row(m, d1, d2).passed = FALSE /\ Row(m, d1, d2).error = TRUE
<1>1. Verdict(Rule(m), ContentsFor(d1, m), ContentsFor(d2, m)) = Errored
  BY RuleFields DEF Verdict, ValuesInSet, Strings
<1>. QED
  BY <1>1, ErroredFields, RowFields

LEMMA RowCountRow ==
  ASSUME NEW m \in Suggestions, m.name = "row_count_between",
         NEW d1 \in DOMAIN Contents, NEW d2
  PROVE  /\ Row(m, d1, d2) \in Reported
         /\ Row(m, d1, d2).name = m.name /\ Row(m, d1, d2).column = m.column
         /\ Row(m, d1, d2).passed => Contents[d1].exists /\ Contents[d1].rows # << >>
<1> DEFINE s == ContentsFor(d1, m)
           n == Len(s.rows)
           b == Within(n, 1, Big)
<1>1. m.column \notin Columns
  BY DEF Suggestions, Columns
<1>2. s.exists = Contents[d1].exists /\ s.rows = Contents[d1].rows
  BY <1>1 DEF ContentsFor
<1>3. AsI64(Rule(m).min, 0) = 1 /\ AsI64(Rule(m).max, Big) = Big
  BY RuleFields, NoBoundAssumption DEF AsI64
<1>4. Verdict(Rule(m), s, ContentsFor(d2, m)) = RowCountBetween(Rule(m), s)
  BY RuleFields DEF Verdict
<1>5. RowCountBetween(Rule(m), s) = Measured(s, n, b)
  BY <1>3 DEF RowCountBetween
<1>6. b \in BOOLEAN /\ (b => Contents[d1].rows # << >>)
  BY <1>2, ContentsType DEF Within
<1>7. Contents[d1].exists \in BOOLEAN
  BY ContentsType
<1>. HIDE DEF s, n, b
<1>8. CASE Contents[d1].exists
  <2>1. Verdict(Rule(m), s, ContentsFor(d2, m)) = Result(b, n, IF b THEN 0 ELSE 1, FALSE)
    BY <1>2, <1>4, <1>5, <1>8 DEF Measured
  <2> DEFINE f == IF b THEN 0 ELSE 1
  <2>. HIDE DEF f
  <2>2. Verdict(Rule(m), s, ContentsFor(d2, m)) = Result(b, n, f, FALSE)
    BY <2>1 DEF f
  <2>3. /\ Row(m, d1, d2) \in Reported
        /\ Row(m, d1, d2).name = m.name /\ Row(m, d1, d2).column = m.column
        /\ Row(m, d1, d2).passed = b
    <3>1. \A n0, f0 : (Verdict(Rule(m), ContentsFor(d1, m), ContentsFor(d2, m)) = Result(b, n0, f0, FALSE)
                         => Says(Row(m, d1, d2), m, b, FALSE))
      BY <1>6, RowOfResult, Zenon
    <3>2. Verdict(Rule(m), ContentsFor(d1, m), ContentsFor(d2, m)) = Result(b, n, f, FALSE)
      BY <2>2 DEF s
    <3>3. Says(Row(m, d1, d2), m, b, FALSE)
      BY <3>1, <3>2, Zenon
    <3>. QED
      BY <3>3 DEF Says
  <2>. QED
    BY <1>6, <1>8, <2>3
<1>9. CASE ~ Contents[d1].exists
  <2>1. Verdict(Rule(m), s, ContentsFor(d2, m)) = Errored
    BY <1>2, <1>4, <1>5, <1>9 DEF Measured
  <2>. QED
    BY <2>1, ErroredFields, RowFields DEF s
<1>. QED
  BY <1>7, <1>8, <1>9

LEMMA NotNullRow ==
  ASSUME NEW m \in Suggestions, m.name = "not_null",
         NEW d1 \in DOMAIN Contents, NEW d2 \in DOMAIN Contents
  PROVE  /\ Row(m, d1, d2) \in Reported
         /\ Row(m, d1, d2).name = m.name /\ Row(m, d1, d2).column = m.column
         /\ Row(m, d1, d2).passed =>
              /\ Contents[d2].exists
              /\ \A k \in DOMAIN Contents[d2].rows : Contents[d2].rows[k][m.column] # Null
<1> DEFINE s1 == ContentsFor(d1, m)
           s2 == ContentsFor(d2, m)
           K == {i \in DOMAIN s2.rows : Cell(s2.rows, i) = Null}
           b == Cardinality(K) = 0
<1>1. m.column \in Columns
  BY RuleFields
<1>2. /\ s1.exists = Contents[d1].exists /\ s2.exists = Contents[d2].exists
      /\ s2.rows = Cells(d2, m.column)
  BY <1>1 DEF ContentsFor
<1>3. Verdict(Rule(m), s1, s2) = ValuesNotNull(Rule(m), s1, s2)
  BY RuleFields DEF Verdict
<1>4. Kept(s2.rows, LAMBDA v : IsNull(v)) = K
  BY DEF Kept, IsNull, Holds
<1>5. K = {i \in DOMAIN Contents[d2].rows : Contents[d2].rows[i][m.column] = Null}
  BY <1>1, <1>2, CellsType
<1>6. IsFiniteSet(K)
  <2>1. DOMAIN Contents[d2].rows = 1..Len(Contents[d2].rows) /\ Len(Contents[d2].rows) \in Nat
    BY ContentsType
  <2>2. IsFiniteSet(1..Len(Contents[d2].rows))
    BY <2>1, FS_Interval
  <2>. QED
    BY <1>5, <2>1, <2>2, FS_Subset
<1>7. b => K = {}
  BY <1>6, FS_EmptySet
<1>8. ValuesNotNull(Rule(m), s1, s2)
        = IF s1.exists /\ s2.exists THEN Result(b, Len(s1.rows), Cardinality(K), FALSE) ELSE Errored
  BY <1>4 DEF ValuesNotNull, Counted, CountWhere
<1>9. b \in BOOLEAN /\ Contents[d1].exists \in BOOLEAN /\ Contents[d2].exists \in BOOLEAN
  BY ContentsType
<1>. HIDE DEF s1, s2, K, b
<1>10. CASE Contents[d1].exists /\ Contents[d2].exists
  <2>1. Verdict(Rule(m), s1, s2) = Result(b, Len(s1.rows), Cardinality(K), FALSE)
    BY <1>2, <1>3, <1>8, <1>10
  <2>2. b => \A k \in DOMAIN Contents[d2].rows : Contents[d2].rows[k][m.column] # Null
    BY <1>5, <1>7
  <2>3. /\ Row(m, d1, d2) \in Reported
        /\ Row(m, d1, d2).name = m.name /\ Row(m, d1, d2).column = m.column
        /\ Row(m, d1, d2).passed = b
    <3>1. \A n0, f0 : (Verdict(Rule(m), ContentsFor(d1, m), ContentsFor(d2, m)) = Result(b, n0, f0, FALSE)
                         => Says(Row(m, d1, d2), m, b, FALSE))
      BY <1>9, RowOfResult, Zenon
    <3>2. Verdict(Rule(m), ContentsFor(d1, m), ContentsFor(d2, m)) = Result(b, Len(s1.rows), Cardinality(K), FALSE)
      BY <2>1 DEF s1, s2
    <3>3. Says(Row(m, d1, d2), m, b, FALSE)
      BY <3>1, <3>2, Zenon
    <3>. QED
      BY <3>3 DEF Says
  <2>. QED
    BY <1>10, <2>2, <2>3
<1>11. CASE ~ (Contents[d1].exists /\ Contents[d2].exists)
  <2>1. Verdict(Rule(m), s1, s2) = Errored
    BY <1>2, <1>3, <1>8, <1>11
  <2>. QED
    BY <2>1, ErroredFields, RowFields DEF s1, s2
<1>. QED
  BY <1>9, <1>10, <1>11

LEMMA UniqueRow ==
  ASSUME NEW m \in Suggestions, m.name = "unique",
         NEW d1 \in DOMAIN Contents, NEW d2 \in DOMAIN Contents
  PROVE  /\ Row(m, d1, d2) \in Reported
         /\ Row(m, d1, d2).name = m.name /\ Row(m, d1, d2).column = m.column
         /\ Row(m, d1, d2).passed =>
              /\ Contents[d1].exists /\ Contents[d2].exists
              /\ Len(Contents[d1].rows) = Cardinality(Distinct(Cells(d2, m.column)))
<1> DEFINE s1 == ContentsFor(d1, m)
           s2 == ContentsFor(d2, m)
           k == Cardinality(Distinct(Cells(d2, m.column)))
           dupes == IF s2.exists THEN Len(s1.rows) - k ELSE -1
           b == dupes = 0
<1>1. m.column \in Columns
  BY RuleFields
<1>2. /\ s1.exists = Contents[d1].exists /\ s2.exists = Contents[d2].exists
      /\ s1.rows = Cells(d1, m.column) /\ s2.rows = Cells(d2, m.column)
  BY <1>1 DEF ContentsFor
<1>3. Verdict(Rule(m), s1, s2) = ValuesUnique(Rule(m), s1, s2)
  BY RuleFields DEF Verdict
<1>4. ValuesUnique(Rule(m), s1, s2)
        = IF s1.exists THEN Result(b, Len(s1.rows), dupes, FALSE) ELSE Errored
  BY <1>2 DEF ValuesUnique
<1>5. Len(s1.rows) = Len(Contents[d1].rows) /\ Len(s1.rows) \in Nat /\ k \in Nat
  BY <1>1, <1>2, CellsType, ContentsType, Sizes
<1>6. Contents[d1].exists \in BOOLEAN /\ Contents[d2].exists \in BOOLEAN
  BY ContentsType
<1>7. b \in BOOLEAN /\ (b => s2.exists /\ Len(Contents[d1].rows) = k)
  <2>. HIDE DEF s1, s2, k
  <2>. QED
    BY <1>2, <1>5, <1>6
<1>. HIDE DEF s1, s2, k, dupes, b
<1>8. CASE Contents[d1].exists
  <2>1. Verdict(Rule(m), s1, s2) = Result(b, Len(s1.rows), dupes, FALSE)
    BY <1>2, <1>3, <1>4, <1>8
  <2>2. /\ Row(m, d1, d2) \in Reported
        /\ Row(m, d1, d2).name = m.name /\ Row(m, d1, d2).column = m.column
        /\ Row(m, d1, d2).passed = b
    <3>1. \A n0, f0 : (Verdict(Rule(m), ContentsFor(d1, m), ContentsFor(d2, m)) = Result(b, n0, f0, FALSE)
                         => Says(Row(m, d1, d2), m, b, FALSE))
      BY <1>7, RowOfResult, Zenon
    <3>2. Verdict(Rule(m), ContentsFor(d1, m), ContentsFor(d2, m)) = Result(b, Len(s1.rows), dupes, FALSE)
      BY <2>1 DEF s1, s2
    <3>3. Says(Row(m, d1, d2), m, b, FALSE)
      BY <3>1, <3>2, Zenon
    <3>. QED
      BY <3>3 DEF Says
  <2>. QED
    BY <1>2, <1>7, <1>8, <2>2 DEF k
<1>9. CASE ~ Contents[d1].exists
  <2>1. Verdict(Rule(m), s1, s2) = Errored
    BY <1>2, <1>3, <1>4, <1>9
  <2>. QED
    BY <2>1, ErroredFields, RowFields DEF s1, s2
<1>. QED
  BY <1>6, <1>8, <1>9

\* The row of a member: what it says, and what it is true of.
LEMMA RowOfMember ==
  ASSUME NEW m \in Suggestions, NEW S,
         NEW d1 \in DOMAIN Contents, NEW d2 \in DOMAIN Contents,
         d1 \in S \cup {Missing}, d2 \in S \cup {Missing}
  PROVE  /\ Row(m, d1, d2) \in Reported
         /\ Row(m, d1, d2).name = m.name /\ Row(m, d1, d2).column = m.column
         /\ Justified(Row(m, d1, d2), S)
<1> DEFINE r == Row(m, d1, d2)
<1>1. m.name \in Names
  BY DEF Suggestions, Names
<1>2. \A d \in {d1, d2} : Contents[d].exists => d \in S
  BY MissingAssumption
<1>3. CASE m.name = "in_set"
  <2>1. r \in Reported /\ r.name = m.name /\ r.column = m.column /\ ~ r.passed /\ r.error
    BY <1>3, InSetRow
  <2>. HIDE DEF r
  <2>. QED
    BY <2>1 DEF Justified, r
<1>4. CASE m.name = "row_count_between"
  <2>1. /\ r \in Reported /\ r.name = m.name /\ r.column = m.column
        /\ r.passed => Contents[d1].exists /\ Contents[d1].rows # << >>
    BY <1>4, RowCountRow
  <2>. HIDE DEF r
  <2>. QED
    BY <1>2, <1>4, <2>1 DEF Justified, r
<1>5. CASE m.name = "not_null"
  <2>1. /\ r \in Reported /\ r.name = m.name /\ r.column = m.column
        /\ r.passed => /\ Contents[d2].exists
                       /\ \A k \in DOMAIN Contents[d2].rows : Contents[d2].rows[k][m.column] # Null
    BY <1>5, NotNullRow
  <2>. HIDE DEF r
  <2>. QED
    BY <1>2, <1>5, <2>1 DEF Justified, r
<1>6. CASE m.name = "unique"
  <2>1. r \in Reported /\ r.name = m.name /\ r.column = m.column
    BY <1>6, UniqueRow
  <2>. HIDE DEF r
  <2>. QED
    BY <1>6, <2>1 DEF Justified, r
<1>. QED
  BY <1>1, <1>3, <1>4, <1>5, <1>6 DEF Names

\* A check that fails on some contents is not passed by statements that see
\* these or cannot be answered.
LEMMA FailingRow ==
  ASSUME NEW m \in Suggestions, NEW d \in DOMAIN Contents, Fails(m, d),
         NEW d1 \in {d, Missing}, NEW d2 \in {d, Missing}
  PROVE  ~ Row(m, d1, d2).passed
<1>1. d1 \in DOMAIN Contents /\ d2 \in DOMAIN Contents /\ ~ Contents[Missing].exists
  BY MissingAssumption
<1>2. CASE m.name = "in_set"
  BY <1>2, InSetRow
<1>3. CASE m.name = "row_count_between"
  <2>1. Row(m, d1, d2).passed => Contents[d1].exists /\ Contents[d1].rows # << >>
    BY <1>1, <1>3, RowCountRow
  <2>2. Contents[d].rows = << >>
    BY <1>3 DEF Fails
  <2>. QED
    BY <1>1, <2>1, <2>2
<1>4. CASE m.name = "not_null"
  <2>1. Row(m, d1, d2).passed =>
          /\ Contents[d2].exists
          /\ \A k \in DOMAIN Contents[d2].rows : Contents[d2].rows[k][m.column] # Null
    BY <1>1, <1>4, NotNullRow
  <2>2. \E k \in DOMAIN Contents[d].rows : Contents[d].rows[k][m.column] = Null
    BY <1>4 DEF Fails
  <2>. QED
    BY <1>1, <2>1, <2>2
<1>5. CASE m.name = "unique"
  <2> DEFINE n == Len(Contents[d].rows)
             k == Cardinality(Distinct(Cells(d, m.column)))
  <2>1. Row(m, d1, d2).passed =>
          /\ Contents[d1].exists /\ Contents[d2].exists
          /\ Len(Contents[d1].rows) = Cardinality(Distinct(Cells(d2, m.column)))
    BY <1>1, <1>5, UniqueRow
  <2>2. m.column \in Columns /\ k < n
    BY <1>5 DEF Fails
  <2>3. n \in Nat /\ k \in Nat
    BY <2>2, ContentsType, Sizes
  <2>4. Row(m, d1, d2).passed => n = k
    BY <1>1, <2>1
  <2>. HIDE DEF n, k
  <2>. QED
    BY <2>2, <2>3, <2>4
<1>. QED
  BY <1>2, <1>3, <1>4, <1>5 DEF Suggestions, Names

---------------------------------------------------------------------------
(* What dq_suggest suggests *)

\* The suggestions that the contents d do not pass.
Failing(d) == {s \in Suggestions : Fails(s, d)}

LEMMA SignalsFail ==
  ASSUME NEW d \in DOMAIN Contents, NEW c \in Columns, NEW k \in Estimates(d, c)
  PROVE  Signals(d, c, k) \in Seq(Failing(d))
<1> DEFINE n == Cardinality(Distinct(Cells(d, c)))
           p == Cardinality(Present(Cells(d, c)))
           count == Len(Cells(d, c))
           If(b, name) == IF b THEN <<Suggestion(name, c)>> ELSE << >>
           A == count > 0 /\ (count - p) * 10 > count
           B == count > 0 /\ k \in 1..2 /\ count >= 5
           C == count > 0 /\ count >= 100 /\ k > 0 /\ k * 100 < count
<1>1. Signals(d, c, k) = If(A, "not_null") \o If(B, "in_set") \o If(C, "unique")
  BY DEF Signals
<1>2. /\ count = Len(Contents[d].rows) /\ count \in Nat /\ n \in Nat /\ p \in Nat
      /\ p < count => \E i \in DOMAIN Contents[d].rows : Contents[d].rows[i][c] = Null
  BY CellsType, ContentsType, Sizes
<1>3. k \in Nat /\ 100 * (k - n) >= - (Inexact * n + 99)
  BY <1>2, InexactAssumption DEF Estimates
<1>4. \A name \in Names \ {"row_count_between"} :
        /\ Suggestion(name, c) \in Suggestions
        /\ Suggestion(name, c).name = name /\ Suggestion(name, c).column = c
  BY DEF Suggestion, Suggestions, Names
<1>5. A => Suggestion("not_null", c) \in Failing(d)
  <2>1. A => p < count
    <3>. HIDE DEF p, count
    <3>. QED
      BY <1>2
  <2>. QED
    BY <1>2, <1>4, <2>1 DEF Failing, Fails, Names
<1>6. Suggestion("in_set", c) \in Failing(d)
  BY <1>4 DEF Failing, Fails, Names
<1>7. C => Suggestion("unique", c) \in Failing(d)
  <2>1. C => n < count
    <3>. HIDE DEF n, count
    <3>1. Inexact * n <= 98 * n
      BY <1>2, InexactAssumption
    <3>2. Inexact * n \in Int
      BY <1>2, InexactAssumption
    <3> DEFINE e == Inexact * n
    <3>. HIDE DEF e
    <3>. QED
      BY <1>2, <1>3, <3>1, <3>2 DEF e
  <2>. QED
    BY <1>2, <1>4, <2>1 DEF Failing, Fails, Names
<1>. HIDE DEF A, B, C
<1>8. \A s \in Failing(d) : <<s>> \in Seq(Failing(d))
  OBVIOUS
<1>9. << >> \in Seq(Failing(d))
  OBVIOUS
<1>10. /\ If(A, "not_null") \in Seq(Failing(d))
       /\ If(B, "in_set") \in Seq(Failing(d))
       /\ If(C, "unique") \in Seq(Failing(d))
  BY <1>5, <1>6, <1>7, <1>8, <1>9
<1>11. \A u, v \in Seq(Failing(d)) : u \o v \in Seq(Failing(d))
  OBVIOUS
<1>. HIDE DEF If
<1>. QED
  BY <1>1, <1>10, <1>11

---------------------------------------------------------------------------
(* The members of an object *)

LEMMA MembersType ==
  ASSUME NEW object \in Seq(Suggestions)
  PROVE  /\ Members(object) \subseteq DOMAIN object
         /\ \A i, j \in Members(object) : object[i].name = object[j].name => i = j
         /\ \A i \in Members(object) : \A k \in DOMAIN object : k > i => object[k].name # object[i].name
         /\ \A i \in DOMAIN object : \E j \in Members(object) : object[j].name = object[i].name
<1>1. \A i, j \in Members(object) : object[i].name = object[j].name => i = j
  <2>. SUFFICES ASSUME NEW i \in Members(object), NEW j \in Members(object), i # j,
                       object[i].name = object[j].name
                PROVE  FALSE
    OBVIOUS
  <2>1. i > j \/ j > i
    BY DEF Members
  <2>. QED
    BY <2>1 DEF Members
<1>2. ASSUME NEW i \in DOMAIN object
      PROVE  \E j \in Members(object) : object[j].name = object[i].name
  <2> DEFINE n == Len(object)
             J == {j \in 1..n : object[j].name = object[i].name}
             K == {n - j : j \in J}
  <2>1. n \in Nat /\ DOMAIN object = 1..n
    OBVIOUS
  <2>2. K \in SUBSET Nat /\ K # {}
    BY <2>1
  <2>3. PICK x \in K : \A y \in K : x <= y
    <3>. HIDE DEF K
    <3>. QED
      BY <2>2, LeastNat
  <2>4. PICK j \in J : x = n - j
    BY <2>3
  <2>5. ASSUME NEW k \in DOMAIN object, k > j PROVE object[k].name # object[j].name
    <3>. SUFFICES ASSUME object[k].name = object[i].name PROVE FALSE
      BY <2>4
    <3>1. k \in J
      BY <2>1
    <3>2. n - j <= n - k
      BY <2>3, <2>4, <3>1
    <3>3. k \in Nat /\ j \in Nat
      BY <2>1, <2>4
    <3>. QED
      BY <2>1, <2>5, <3>2, <3>3
  <2>6. j \in Members(object)
    BY <2>1, <2>4, <2>5 DEF Members
  <2>. QED
    BY <2>4, <2>6
<1>. QED
  BY <1>1, <1>2 DEF Members

\* There is a first member to check.
LEMMA FirstIsIn ==
  ASSUME TypeOK, todo # {}
  PROVE  First \in todo /\ First \in DOMAIN fed /\ fed[First] \in Suggestions
<1> DEFINE R(j) == Order[fed[j].name]
           K == {R(j) : j \in todo}
<1>1. fed \in Seq(Suggestions) /\ todo \subseteq DOMAIN fed
  BY DEF TypeOK
<1>2. \A s \in Suggestions : s.name \in Names
  BY DEF Suggestions, Names
<1>3. \A name \in Names : Order[name] \in Nat
  BY DEF Names, Order
<1>4. \A j \in todo : fed[j] \in Suggestions
  BY <1>1
<1>5. \A j \in todo : R(j) \in Nat
  BY <1>2, <1>3, <1>4
<1>6. K \in SUBSET Nat /\ K # {}
  BY <1>5
<1>7. PICK x \in K : \A y \in K : x <= y
  <2>. HIDE DEF K
  <2>. QED
    BY <1>6, LeastNat
<1>8. \E i \in todo : \A j \in todo : R(i) <= R(j)
  BY <1>7
<1>9. First \in todo
  BY <1>8 DEF First
<1>. QED
  BY <1>1, <1>4, <1>9

---------------------------------------------------------------------------
(* The steps of validate_expectations *)

\* A member is checked by statements that saw d1 and d2.
LEMMA CheckedStep ==
  ASSUME IInv, pc = "rules", todo # {},
         NEW d1 \in DOMAIN Contents, NEW d2 \in DOMAIN Contents,
         {d1, d2} \subseteq seen \cup {Missing},
         ~ changed => {d1, d2} \subseteq {db, Missing},
         Checked(Row(fed[First], d1, d2)),
         UNCHANGED <<call, pc, cursor, total, offered, fed, seen, outside>>
  PROVE  IInv'
<1> DEFINE n == Len(rows)
           m == fed[First]
           r == Row(m, d1, d2)
<1>1. /\ call' = "validate" /\ call = "validate" /\ pc' = pc /\ cursor' = cursor /\ total' = total
      /\ offered' = offered /\ fed' = fed /\ seen' = seen
      /\ db' = db /\ changed' = changed /\ commits' = commits
      /\ rows' = Append(rows, r) /\ todo' = todo \ {First} /\ read' = "none"
  BY DEF IInv, Placed, outside, Checked
<1>2. First \in todo /\ First \in DOMAIN fed /\ m \in Suggestions
  BY FirstIsIn DEF IInv
<1>3. /\ r \in Reported /\ r.name = m.name /\ r.column = m.column
      /\ Justified(r, seen)
  BY <1>2, RowOfMember
<1>4. ~ changed => ~ r.passed
  <2>. SUFFICES ASSUME ~ changed PROVE ~ r.passed
    OBVIOUS
  <2>1. Fails(m, db) /\ db \in DOMAIN Contents
    BY <1>1, <1>2 DEF IInv, SuggestionsFail, TypeOK
  <2>2. d1 \in {db, Missing} /\ d2 \in {db, Missing}
    OBVIOUS
  <2>. HIDE DEF m
  <2>. QED
    BY <1>2, <2>1, <2>2, FailingRow
<1>. HIDE DEF r
<1>5. rows \in Seq(Reported) /\ n \in Nat /\ DOMAIN rows = 1..n
  BY <1>1 DEF IInv, Placed
<1>6. /\ rows' \in Seq(Reported) /\ Len(rows') = n + 1 /\ DOMAIN rows' = 1..(n + 1)
      /\ \A i \in 1..n : rows'[i] = rows[i]
      /\ rows'[n + 1] = r
  BY <1>1, <1>3, <1>5
<1>7. TypeOK'
  <2>1. rows' \in Seq(Suggestions \cup Reported \cup Told)
    BY <1>6
  <2>2. cursor' \in 0..Len(rows')
    BY <1>1, <1>5, <1>6 DEF IInv, TypeOK
  <2>. QED
    BY <1>1, <2>1, <2>2 DEF IInv, TypeOK
<1>8. Placed'
  BY <1>1, <1>6 DEF IInv, Placed
<1>9. ReadWell'
  BY <1>1 DEF ReadWell
<1>10. SuggestionsFail'
  BY <1>1 DEF IInv, SuggestionsFail
<1>11. SuggestedChecksFail'
  <2>1. \A i \in 1..n : rows[i].passed /\ rows[i].name # "in_set" => changed
    BY <1>1, <1>5 DEF IInv, SuggestedChecksFail
  <2>. SUFFICES ASSUME NEW i \in 1..(n + 1)
                PROVE  rows'[i].passed => changed \/ rows'[i].name = "in_set"
    BY <1>1, <1>6 DEF SuggestedChecksFail
  <2>. QED
    BY <1>3, <1>4, <1>5, <1>6, <2>1
<1>12. Answered'
  <2> DEFINE M == Members(fed)
  <2>1. /\ todo \subseteq M
        /\ {rows[i].name : i \in 1..n} = {fed[j].name : j \in M \ todo}
        /\ \A i, j \in 1..n : i # j => rows[i].name # rows[j].name
        /\ \A i \in 1..n :
             /\ \E j \in M : fed[j].name = rows[i].name /\ fed[j].column = rows[i].column
             /\ Justified(rows[i], seen)
    BY <1>1, <1>5 DEF IInv, Answered
  <2>2. \A i, j \in M : fed[i].name = fed[j].name => i = j
    BY MembersType DEF IInv, TypeOK
  <2>. HIDE DEF M
  <2>3. M \ todo' = (M \ todo) \cup {First}
    BY <1>1, <1>2, <2>1
  <2>4. {rows'[i].name : i \in 1..(n + 1)} = {rows[i].name : i \in 1..n} \cup {r.name}
    BY <1>5, <1>6
  <2>5. {rows'[i].name : i \in 1..(n + 1)} = {fed[j].name : j \in M \ todo'}
    <3> DEFINE T == M \ todo
    <3>1. {fed[j].name : j \in T \cup {First}} = {fed[j].name : j \in T} \cup {m.name}
      OBVIOUS
    <3>2. {fed[j].name : j \in T} = {rows[i].name : i \in 1..n} /\ M \ todo' = T \cup {First}
      BY <2>1, <2>3
    <3>. HIDE DEF T
    <3>. QED
      BY <1>3, <2>4, <3>1, <3>2
  <2>6. \A i \in 1..n : rows[i].name # r.name
    BY <1>2, <1>3, <2>1, <2>2
  <2>7. \A i, j \in 1..(n + 1) : i # j => rows'[i].name # rows'[j].name
    BY <1>5, <1>6, <2>1, <2>6
  <2>8. ASSUME NEW i \in 1..(n + 1)
        PROVE  /\ \E j \in M : fed[j].name = rows'[i].name /\ fed[j].column = rows'[i].column
               /\ Justified(rows'[i], seen)
    <3>1. CASE i \in 1..n
      BY <1>6, <2>1, <3>1
    <3>2. CASE i = n + 1
      BY <1>2, <1>3, <1>6, <2>1, <3>2
    <3>. QED
      BY <1>5, <3>1, <3>2
  <2>9. Members(fed') = M
    BY <1>1 DEF M
  <2>10. todo' \subseteq M
    BY <1>1, <2>1
  <2>11. /\ todo' \subseteq Members(fed')
         /\ {rows'[i].name : i \in DOMAIN rows'} = {fed'[j].name : j \in Members(fed') \ todo'}
         /\ \A i, j \in DOMAIN rows' : i # j => rows'[i].name # rows'[j].name
         /\ \A i \in DOMAIN rows' :
              /\ \E j \in Members(fed') : fed'[j].name = rows'[i].name /\ fed'[j].column = rows'[i].column
              /\ Justified(rows'[i], seen')
    <3>1. DOMAIN rows' = 1..(n + 1) /\ fed' = fed /\ seen' = seen
      BY <1>1, <1>6
    <3>2. {rows'[i].name : i \in DOMAIN rows'} = {fed'[j].name : j \in Members(fed') \ todo'}
      BY <2>5, <2>9, <3>1, Zenon
    <3>3. \A i, j \in DOMAIN rows' : i # j => rows'[i].name # rows'[j].name
      BY <2>7, <3>1, Zenon
    <3>4. \A i \in DOMAIN rows' :
            /\ \E j \in Members(fed') : fed'[j].name = rows'[i].name /\ fed'[j].column = rows'[i].column
            /\ Justified(rows'[i], seen')
      BY <2>8, <2>9, <3>1, Zenon
    <3>. QED
      BY <2>9, <2>10, <3>2, <3>3, <3>4
  <2>. QED
    BY <2>11 DEF Answered
<1>. QED
  BY <1>7, <1>8, <1>9, <1>10, <1>11, <1>12 DEF IInv

\* What the rows answer stays answered.
LEMMA AnsweredStays ==
  ASSUME Answered, call' = call, rows' = rows, todo' = todo, fed' = fed, seen \subseteq seen'
  PROVE  Answered'
<1>1. \A row : Justified(row, seen) => Justified(row, seen')
  BY DEF Justified
<1>. SUFFICES ASSUME call = "validate" PROVE Answered'
  BY DEF Answered
<1>2. /\ todo \subseteq Members(fed)
      /\ {rows[i].name : i \in DOMAIN rows} = {fed[j].name : j \in Members(fed) \ todo}
      /\ \A i, j \in DOMAIN rows : i # j => rows[i].name # rows[j].name
      /\ \A i \in DOMAIN rows :
           /\ \E j \in Members(fed) : fed[j].name = rows[i].name /\ fed[j].column = rows[i].column
           /\ Justified(rows[i], seen')
  BY <1>1 DEF Answered
<1>. QED
  BY <1>2 DEF Answered

LEMMA NoStatementStep == IInv /\ NoStatement => IInv'
<1>. SUFFICES ASSUME IInv, NoStatement PROVE IInv'
  OBVIOUS
<1>1. db \in DOMAIN Contents
  BY DEF IInv, TypeOK
<1>2. db \in seen
  BY DEF IInv, Placed, NoStatement
<1>3. pc = "rules" /\ todo # {} /\ Checked(Row(fed[First], db, db))
  BY DEF NoStatement
<1>4. UNCHANGED <<call, pc, cursor, total, offered, fed, seen, outside>>
  BY DEF NoStatement
<1>5. {db, db} \subseteq seen \cup {Missing} /\ {db, db} \subseteq {db, Missing}
  BY <1>2
<1>. QED
  BY <1>1, <1>3, <1>4, <1>5, CheckedStep

\* What a statement of the call sees.
LEMMA AnswersType ==
  ASSUME IInv, call # "none"
  PROVE  Answers \subseteq DOMAIN Contents /\ Answers \subseteq seen \cup {Missing}
  BY MissingAssumption DEF IInv, TypeOK, Placed, Answers

LEMMA AnswersSee == Answers \subseteq {db, Missing}
  BY DEF Answers

LEMMA FirstStatementStep == IInv /\ FirstStatement => IInv'
<1>. SUFFICES ASSUME IInv, FirstStatement PROVE IInv'
  OBVIOUS
<1>1. PICK d \in Answers :
        IF fed[First].name \in TwoStatements /\ Contents[d].exists
        THEN read' = d /\ UNCHANGED <<rows, todo>>
        ELSE Checked(Row(fed[First], d, d))
  BY DEF FirstStatement
<1>2. /\ pc = "rules" /\ todo # {} /\ fed[First].name # "in_set" /\ read = "none"
      /\ UNCHANGED <<call, pc, cursor, total, offered, fed, seen, outside>>
  BY DEF FirstStatement
<1>3. call = "validate"
  BY <1>2 DEF IInv, Placed
<1>4. d \in DOMAIN Contents /\ d \in seen \cup {Missing}
  BY <1>3, AnswersType
<1>5. d \in {db, Missing}
  BY AnswersSee
<1>6. CASE ~ (fed[First].name \in TwoStatements /\ Contents[d].exists)
  <2>1. Checked(Row(fed[First], d, d))
    BY <1>1, <1>6
  <2>2. {d, d} \subseteq seen \cup {Missing} /\ {d, d} \subseteq {db, Missing}
    BY <1>4, <1>5
  <2>. QED
    BY <1>2, <1>4, <2>1, <2>2, CheckedStep
<1>7. CASE fed[First].name \in TwoStatements /\ Contents[d].exists
  <2>1. /\ read' = d /\ rows' = rows /\ todo' = todo
        /\ call' = call /\ pc' = pc /\ cursor' = cursor /\ total' = total
        /\ offered' = offered /\ fed' = fed /\ seen' = seen
        /\ db' = db /\ changed' = changed /\ commits' = commits
    BY <1>1, <1>2, <1>7 DEF outside
  <2>2. TypeOK'
    BY <1>4, <2>1 DEF IInv, TypeOK
  <2>3. Placed'
    BY <2>1 DEF IInv, Placed
  <2>4. ReadWell'
    <3>1. First' = First
      BY <2>1 DEF First
    <3>2. d \in seen /\ d = db
      BY <1>4, <1>5, <1>7, MissingAssumption
    <3>. QED
      BY <1>2, <1>7, <2>1, <3>1, <3>2 DEF ReadWell
  <2>5. SuggestionsFail'
    BY <2>1 DEF IInv, SuggestionsFail
  <2>6. SuggestedChecksFail'
    BY <2>1 DEF IInv, SuggestedChecksFail
  <2>7. Answered'
    BY <2>1, AnsweredStays DEF IInv
  <2>. QED
    BY <2>2, <2>3, <2>4, <2>5, <2>6, <2>7 DEF IInv
<1>. QED
  BY <1>6, <1>7

LEMMA SecondStatementStep == IInv /\ SecondStatement => IInv'
<1>. SUFFICES ASSUME IInv, SecondStatement PROVE IInv'
  OBVIOUS
<1>1. PICK d \in Answers : Checked(Row(fed[First], read, d))
  BY DEF SecondStatement
<1>2. /\ pc = "rules" /\ read # "none"
      /\ UNCHANGED <<call, pc, cursor, total, offered, fed, seen, outside>>
  BY DEF SecondStatement
<1>3. call = "validate"
  BY <1>2 DEF IInv, Placed
<1>4. d \in DOMAIN Contents /\ d \in seen \cup {Missing} /\ d \in {db, Missing}
  BY <1>3, AnswersType, AnswersSee
<1>5. todo # {} /\ read \in seen /\ (~ changed => read = db)
  BY <1>2 DEF IInv, ReadWell
<1>6. read \in DOMAIN Contents
  BY <1>5 DEF IInv, TypeOK
<1>7. {read, d} \subseteq seen \cup {Missing} /\ (~ changed => {read, d} \subseteq {db, Missing})
  BY <1>4, <1>5
<1>. QED
  BY <1>1, <1>2, <1>4, <1>5, <1>6, <1>7, CheckedStep

LEMMA AllCheckedStep == IInv /\ AllChecked => IInv'
<1>. SUFFICES ASSUME IInv, AllChecked PROVE IInv'
  OBVIOUS
<1>1. /\ pc = "rules" /\ todo = {} /\ pc' = "scan"
      /\ read' = read /\ rows' = rows /\ todo' = todo
      /\ call' = call /\ cursor' = cursor /\ total' = total
      /\ offered' = offered /\ fed' = fed /\ seen' = seen
      /\ db' = db /\ changed' = changed /\ commits' = commits
  BY DEF AllChecked, outside
<1>2. call = "validate" /\ read = "none"
  BY <1>1 DEF IInv, Placed, ReadWell
<1>3. TypeOK'
  BY <1>1 DEF IInv, TypeOK
<1>4. Placed'
  BY <1>1, <1>2 DEF IInv, Placed
<1>5. ReadWell'
  BY <1>1, <1>2 DEF ReadWell
<1>6. SuggestionsFail'
  BY <1>1 DEF IInv, SuggestionsFail
<1>7. SuggestedChecksFail'
  BY <1>1 DEF IInv, SuggestedChecksFail
<1>8. Answered'
  BY <1>1, AnsweredStays DEF IInv
<1>. QED
  BY <1>3, <1>4, <1>5, <1>6, <1>7, <1>8 DEF IInv

LEMMA CallValidateStep ==
  ASSUME IInv, NEW object \in SeqOf(ToSet(offered), MaxFed), CallValidate(object)
  PROVE  IInv'
<1>1. /\ call = "none" /\ call' = "validate" /\ pc' = "rules"
      /\ seen' = {db} /\ rows' = << >> /\ cursor' = 0
      /\ fed' = object /\ todo' = Members(object)
      /\ read' = read /\ total' = total /\ offered' = offered
      /\ db' = db /\ changed' = changed /\ commits' = commits
  BY DEF CallValidate, Begin
<1>2. read = "none"
  BY <1>1 DEF IInv, Placed, ReadWell
<1>3. offered \in Seq(Suggestions) /\ db \in DOMAIN Contents
  BY DEF IInv, TypeOK
<1>4. \E m \in 0..MaxFed : object \in [1..m -> ToSet(offered)]
  BY DEF SeqOf
<1>5. object \in Seq(ToSet(offered))
  BY <1>4, BoundsAssumption
<1>6. ToSet(offered) \subseteq Suggestions
  BY <1>3 DEF ToSet
<1>7. object \in Seq(Suggestions) /\ DOMAIN object = 1..Len(object)
  BY <1>5, <1>6
<1>8. \A i \in DOMAIN object : \E k \in DOMAIN offered : object[i] = offered[k]
  BY <1>5 DEF ToSet
<1>9. TypeOK'
  <2>1. Members(object) \subseteq DOMAIN object
    BY <1>7, MembersType
  <2>2. << >> \in Seq(Suggestions \cup Reported \cup Told) /\ 0 \in 0..Len(<< >>)
    OBVIOUS
  <2>. QED
    BY <1>1, <1>3, <1>7, <2>1, <2>2 DEF IInv, TypeOK
<1>10. Placed'
  BY <1>1 DEF Placed
<1>11. ReadWell'
  BY <1>1, <1>2 DEF ReadWell
<1>12. SuggestionsFail'
  BY <1>1, <1>8 DEF IInv, SuggestionsFail
<1>13. SuggestedChecksFail'
  BY <1>1 DEF SuggestedChecksFail
<1>14. Answered'
  <2>1. DOMAIN rows' = {} /\ Members(fed') = todo'
    BY <1>1
  <2>. QED
    BY <2>1 DEF Answered
<1>. QED
  BY <1>9, <1>10, <1>11, <1>12, <1>13, <1>14 DEF IInv

---------------------------------------------------------------------------
(* The steps of the other calls, of the scans and of other sessions *)

\* A call other than validate_expectations has nothing to answer.
LEMMA OtherCalls ==
  ASSUME call' # "validate"
  PROVE  SuggestedChecksFail' /\ Answered'
  BY DEF SuggestedChecksFail, Answered

LEMMA CallSuggestStep == IInv /\ CallSuggest => IInv'
<1>. SUFFICES ASSUME IInv, CallSuggest PROVE IInv'
  OBVIOUS
<1>1. /\ call = "none" /\ call' = "suggest" /\ pc' = "count"
      /\ seen' = {db} /\ rows' = << >> /\ cursor' = 0
      /\ fed' = fed /\ todo' = todo /\ read' = read /\ total' = total /\ offered' = offered
      /\ db' = db /\ changed' = FALSE /\ commits' = commits
  BY DEF CallSuggest, Begin
<1>2. read = "none"
  BY <1>1 DEF IInv, Placed, ReadWell
<1>3. << >> \in Seq(Suggestions \cup Reported \cup Told) /\ 0 \in 0..Len(<< >>)
  OBVIOUS
<1>4. TypeOK'
  BY <1>1, <1>3 DEF IInv, TypeOK
<1>5. Placed'
  BY <1>1 DEF Placed
<1>6. ReadWell'
  BY <1>1, <1>2 DEF ReadWell
<1>7. SuggestionsFail'
  BY <1>1 DEF SuggestionsFail
<1>. QED
  BY <1>1, <1>4, <1>5, <1>6, <1>7, OtherCalls DEF IInv

LEMMA CallProfileStep == IInv /\ CallProfile => IInv'
<1>. SUFFICES ASSUME IInv, CallProfile PROVE IInv'
  OBVIOUS
<1>1. /\ call = "none" /\ call' = "profile" /\ pc' = "summarize"
      /\ seen' = {db} /\ rows' = << >> /\ cursor' = 0
      /\ fed' = fed /\ todo' = todo /\ read' = read /\ total' = total /\ offered' = offered
      /\ db' = db /\ changed' = changed /\ commits' = commits
  BY DEF CallProfile, Begin
<1>2. read = "none"
  BY <1>1 DEF IInv, Placed, ReadWell
<1>3. << >> \in Seq(Suggestions \cup Reported \cup Told) /\ 0 \in 0..Len(<< >>)
  OBVIOUS
<1>4. TypeOK'
  BY <1>1, <1>3 DEF IInv, TypeOK
<1>5. Placed'
  BY <1>1 DEF Placed
<1>6. ReadWell'
  BY <1>1, <1>2 DEF ReadWell
<1>7. SuggestionsFail'
  BY <1>1 DEF IInv, SuggestionsFail
<1>. QED
  BY <1>1, <1>4, <1>5, <1>6, <1>7, OtherCalls DEF IInv

LEMMA CallMalformedStep == IInv /\ CallMalformed => IInv'
<1>. SUFFICES ASSUME IInv, CallMalformed PROVE IInv'
  OBVIOUS
<1>1. /\ call = "none" /\ call' = "malformed" /\ pc' = "scan"
      /\ seen' = {db} /\ rows' = <<Suggestion("ERROR", 0)>> /\ cursor' = 0
      /\ fed' = fed /\ todo' = todo /\ read' = read /\ total' = total /\ offered' = offered
      /\ db' = db /\ changed' = changed /\ commits' = commits
  BY DEF CallMalformed, outside
<1>2. read = "none"
  BY <1>1 DEF IInv, Placed, ReadWell
<1>3. Suggestion("ERROR", 0) \in Told
  BY WidthAssumption DEF Suggestion, Told
<1>4. rows' \in Seq(Suggestions \cup Reported \cup Told) /\ cursor' \in 0..Len(rows')
  BY <1>1, <1>3
<1>5. TypeOK'
  BY <1>1, <1>4 DEF IInv, TypeOK
<1>6. Placed'
  BY <1>1 DEF Placed
<1>7. ReadWell'
  BY <1>1, <1>2 DEF ReadWell
<1>8. SuggestionsFail'
  BY <1>1 DEF IInv, SuggestionsFail
<1>. QED
  BY <1>1, <1>5, <1>6, <1>7, <1>8, OtherCalls DEF IInv

LEMMA CountRowsStep == IInv /\ CountRows => IInv'
<1>. SUFFICES ASSUME IInv, CountRows PROVE IInv'
  OBVIOUS
<1> DEFINE one == Suggestion("row_count_between", 0)
<1>1. PICK d \in Answers :
        /\ total' = IF Contents[d].exists THEN Len(Contents[d].rows) ELSE -1
        /\ rows' = IF total' = 0 THEN <<one>> ELSE << >>
  BY DEF CountRows
<1>2. /\ pc = "count" /\ pc' = "summarize"
      /\ call' = call /\ cursor' = cursor
      /\ fed' = fed /\ todo' = todo /\ read' = read /\ offered' = offered /\ seen' = seen
      /\ db' = db /\ changed' = changed /\ commits' = commits
  BY DEF CountRows, outside
<1>3. call = "suggest" /\ read = "none"
  BY <1>2 DEF IInv, Placed, ReadWell
<1>4. Answers \subseteq DOMAIN Contents
  BY <1>3, AnswersType
<1>5. one \in Suggestions /\ one.name = "row_count_between"
  BY DEF Suggestion, Suggestions
<1>6. total' \in Nat \cup {-1} /\ (total' = 0 => Contents[d].exists /\ Contents[d].rows = << >>)
  BY <1>1, <1>4, ContentsType
<1>. HIDE DEF one
<1>7. rows' \in Seq(Suggestions) /\ rows' \in Seq(Suggestions \cup Reported \cup Told)
  <2>1. rows' = <<one>> \/ rows' = << >>
    BY <1>1
  <2>2. <<one>> \in Seq(Suggestions) /\ << >> \in Seq(Suggestions)
    BY <1>5
  <2>3. rows' \in Seq(Suggestions)
    BY <2>1, <2>2
  <2>. QED
    BY <2>3
<1>8. cursor' \in 0..Len(rows') /\ cursor' = 0
  BY <1>2, <1>7 DEF IInv, Placed
<1>9. TypeOK'
  BY <1>2, <1>6, <1>7, <1>8 DEF IInv, TypeOK
<1>10. Placed'
  BY <1>2, <1>3, <1>7, <1>8 DEF IInv, Placed
<1>11. ReadWell'
  BY <1>2, <1>3 DEF ReadWell
<1>12. SuggestionsFail'
  <2>. SUFFICES ASSUME ~ changed, NEW i \in DOMAIN rows' PROVE Fails(rows'[i], db)
    BY <1>2, <1>3 DEF SuggestionsFail
  <2>1. total' = 0 /\ rows'[i] = one
    BY <1>1
  <2>2. Contents[db].rows = << >>
    BY <1>1, <1>6, <2>1, MissingAssumption, AnswersSee
  <2>. QED
    BY <1>5, <2>1, <2>2 DEF Fails
<1>. QED
  BY <1>2, <1>3, <1>9, <1>10, <1>11, <1>12, OtherCalls DEF IInv

LEMMA SummarizeStep == IInv /\ Summarize => IInv'
<1>. SUFFICES ASSUME IInv, Summarize PROVE IInv'
  OBVIOUS
<1>1. PICK d \in Answers :
        IF Contents[d].exists
        THEN \E distinct \in [Columns -> UNION {Estimates(d, c) : c \in Columns}] :
               /\ \A c \in Columns : distinct[c] \in Estimates(d, c)
               /\ rows' = rows \o FlattenSeq([c \in Columns |-> Signals(d, c, distinct[c])])
        ELSE rows' = rows
  BY DEF Summarize
<1>2. /\ pc = "summarize" /\ pc' = "scan" /\ call = "suggest"
      /\ call' = call /\ cursor' = cursor /\ total' = total
      /\ fed' = fed /\ todo' = todo /\ read' = read /\ offered' = offered /\ seen' = seen
      /\ db' = db /\ changed' = changed /\ commits' = commits
  BY DEF Summarize, outside
<1>3. read = "none" /\ rows \in Seq(Suggestions) /\ cursor = 0
  BY <1>2 DEF IInv, Placed, ReadWell
<1>4. d \in DOMAIN Contents
  BY <1>2, AnswersType
<1>5. \E more \in Seq(Failing(d)) : (rows' = rows \o more /\ (more # << >> => Contents[d].exists))
  <2>1. CASE Contents[d].exists
    <3>1. PICK distinct \in [Columns -> UNION {Estimates(d, c) : c \in Columns}] :
               /\ \A c \in Columns : distinct[c] \in Estimates(d, c)
               /\ rows' = rows \o FlattenSeq([c \in Columns |-> Signals(d, c, distinct[c])])
      BY <1>1, <2>1
    <3> DEFINE parts == [c \in Columns |-> Signals(d, c, distinct[c])]
    <3>2. \A c \in Columns : Signals(d, c, distinct[c]) \in Seq(Failing(d))
      BY <1>4, <3>1, SignalsFail
    <3>3. parts \in Seq(Seq(Failing(d)))
      <4>1. parts \in [1..Width -> Seq(Failing(d))]
        BY <3>2 DEF Columns
      <4>. HIDE DEF parts
      <4>. QED
        BY <4>1, WidthAssumption
    <3>4. rows' = rows \o FlattenSeq(parts)
      BY <3>1
    <3>. HIDE DEF parts
    <3>5. FlattenSeq(parts) \in Seq(Failing(d))
      BY <3>3, FlattenType
    <3>. QED
      BY <2>1, <3>4, <3>5
  <2>2. CASE ~ Contents[d].exists
    <3>1. rows' = rows \o << >> /\ << >> \in Seq(Failing(d))
      BY <1>1, <1>3, <2>2
    <3>. QED
      BY <3>1
  <2>. QED
    BY <2>1, <2>2
<1>6. PICK more \in Seq(Failing(d)) : rows' = rows \o more /\ (more # << >> => Contents[d].exists)
  BY <1>5
<1>7. more \in Seq(Suggestions)
  <2>1. Failing(d) \subseteq Suggestions
    BY DEF Failing
  <2>. QED
    BY <2>1
<1>8. rows' \in Seq(Suggestions) /\ rows' \in Seq(Suggestions \cup Reported \cup Told)
  <2>1. rows' \in Seq(Suggestions)
    BY <1>3, <1>6, <1>7
  <2>. QED
    BY <2>1
<1>9. cursor' \in 0..Len(rows') /\ cursor' = 0
  BY <1>2, <1>3, <1>8
<1>10. TypeOK'
  BY <1>2, <1>8, <1>9 DEF IInv, TypeOK
<1>11. Placed'
  BY <1>2, <1>8 DEF IInv, Placed
<1>12. ReadWell'
  BY <1>2, <1>3 DEF ReadWell
<1>13. SuggestionsFail'
  <2>. SUFFICES ASSUME ~ changed, NEW i \in DOMAIN rows' PROVE Fails(rows'[i], db)
    BY <1>2 DEF SuggestionsFail
  <2>1. \A k \in DOMAIN rows : Fails(rows[k], db)
    BY <1>2 DEF IInv, SuggestionsFail
  <2>2. \A k \in DOMAIN more : more # << >> /\ Fails(more[k], d)
    <3>1. \A k \in DOMAIN more : more # << >> /\ more[k] \in Failing(d)
      OBVIOUS
    <3>. QED
      BY <3>1 DEF Failing
  <2>3. more # << >> => d = db
    BY <1>1, <1>6, MissingAssumption, AnswersSee
  <2>4. (\E k \in DOMAIN rows : rows'[i] = rows[k]) \/ (\E k \in DOMAIN more : rows'[i] = more[k])
    <3>1. i \in 1..(Len(rows) + Len(more)) /\ Len(rows) \in Nat /\ Len(more) \in Nat
      BY <1>3, <1>6, <1>7
    <3>2. CASE i <= Len(rows)
      BY <1>3, <1>6, <1>7, <3>1, <3>2
    <3>3. CASE i > Len(rows)
      <4>1. i - Len(rows) \in 1..Len(more)
        BY <3>1, <3>3
      <4>2. (rows \o more)[i] = more[i - Len(rows)]
        BY <1>3, <1>7, <3>1, <3>3
      <4>3. DOMAIN more = 1..Len(more)
        BY <1>7
      <4>. QED
        BY <1>6, <4>1, <4>2, <4>3, Zenon
    <3>. QED
      BY <3>1, <3>2, <3>3
  <2>. QED
    BY <2>1, <2>2, <2>3, <2>4
<1>. QED
  BY <1>2, <1>10, <1>11, <1>12, <1>13, OtherCalls DEF IInv

LEMMA ProfileStep == IInv /\ Profile => IInv'
<1>. SUFFICES ASSUME IInv, Profile PROVE IInv'
  OBVIOUS
<1> DEFINE columns == [c \in Columns |-> Suggestion("profile", c)]
           failed == Suggestion("ERROR", 0)
<1>1. /\ pc = "summarize" /\ pc' = "scan" /\ call = "profile"
      /\ call' = call /\ cursor' = cursor /\ total' = total
      /\ fed' = fed /\ todo' = todo /\ read' = read /\ offered' = offered /\ seen' = seen
      /\ db' = db /\ changed' = changed /\ commits' = commits
      /\ rows' = columns \/ rows' = <<failed>>
  BY DEF Profile, outside
<1>2. read = "none" /\ cursor = 0
  BY <1>1 DEF IInv, Placed, ReadWell
<1>3. failed \in Told
  BY WidthAssumption DEF Suggestion, Told
<1>4. columns \in [1..Width -> Told]
  BY WidthAssumption DEF Suggestion, Told, Columns
<1>. HIDE DEF columns, failed
<1>5. columns \in Seq(Told) /\ <<failed>> \in Seq(Told)
  BY <1>3, <1>4, WidthAssumption
<1>6. rows' \in Seq(Told)
  BY <1>1, <1>5
<1>7. rows' \in Seq(Suggestions \cup Reported \cup Told) /\ cursor' \in 0..Len(rows')
  BY <1>1, <1>2, <1>6
<1>8. TypeOK'
  BY <1>1, <1>7 DEF IInv, TypeOK
<1>9. Placed'
  BY <1>1 DEF IInv, Placed
<1>10. ReadWell'
  BY <1>1, <1>2 DEF ReadWell
<1>11. SuggestionsFail'
  BY <1>1 DEF IInv, SuggestionsFail
<1>. QED
  BY <1>1, <1>8, <1>9, <1>10, <1>11, OtherCalls DEF IInv

LEMMA WriteStep == IInv /\ Write => IInv'
<1>. SUFFICES ASSUME IInv, Write PROVE IInv'
  OBVIOUS
<1>1. /\ pc = "scan" /\ cursor < Len(rows) /\ cursor' = cursor + 1
      /\ pc' = pc /\ rows' = rows /\ todo' = todo /\ read' = read
      /\ call' = call /\ total' = total
      /\ offered' = offered /\ fed' = fed /\ seen' = seen
      /\ db' = db /\ changed' = changed /\ commits' = commits
  BY DEF Write, outside
<1>2. cursor' \in 0..Len(rows')
  <2>1. rows \in Seq(Suggestions \cup Reported \cup Told) /\ cursor \in 0..Len(rows)
    BY DEF IInv, TypeOK
  <2>2. Len(rows) \in Nat /\ rows' = rows
    BY <1>1, <2>1
  <2>. QED
    BY <1>1, <2>1, <2>2
<1>3. read = "none"
  BY <1>1 DEF IInv, ReadWell
<1>4. TypeOK'
  BY <1>1, <1>2 DEF IInv, TypeOK
<1>5. Placed'
  BY <1>1 DEF IInv, Placed
<1>6. ReadWell'
  BY <1>1, <1>3 DEF ReadWell
<1>7. SuggestionsFail'
  BY <1>1 DEF IInv, SuggestionsFail
<1>8. SuggestedChecksFail'
  BY <1>1 DEF IInv, SuggestedChecksFail
<1>9. Answered'
  BY <1>1, AnsweredStays DEF IInv
<1>. QED
  BY <1>4, <1>5, <1>6, <1>7, <1>8, <1>9 DEF IInv

LEMMA WriteNothingStep == IInv /\ WriteNothing => IInv'
<1>. SUFFICES ASSUME IInv, WriteNothing PROVE IInv'
  OBVIOUS
<1>1. /\ pc = "scan" /\ call' = "none" /\ pc' = "none"
      /\ rows' = << >> /\ cursor' = 0
      /\ offered' = IF call = "suggest" THEN rows ELSE offered
      /\ todo' = todo /\ read' = read /\ total' = total /\ fed' = fed /\ seen' = seen
      /\ db' = db /\ changed' = changed /\ commits' = commits
  BY DEF WriteNothing, outside
<1>2. read = "none"
  BY <1>1 DEF IInv, ReadWell
<1>3. offered' \in Seq(Suggestions)
  BY <1>1 DEF IInv, TypeOK, Placed
<1>4. << >> \in Seq(Suggestions \cup Reported \cup Told) /\ 0 \in 0..Len(<< >>)
  OBVIOUS
<1>5. TypeOK'
  BY <1>1, <1>3, <1>4 DEF IInv, TypeOK
<1>6. Placed'
  BY <1>1 DEF Placed
<1>7. ReadWell'
  BY <1>1, <1>2 DEF ReadWell
<1>8. SuggestionsFail'
  BY <1>1 DEF IInv, SuggestionsFail
<1>. QED
  BY <1>1, <1>5, <1>6, <1>7, <1>8, OtherCalls DEF IInv

LEMMA CommitStep ==
  ASSUME IInv, NEW d \in DOMAIN Contents, Commit(d)
  PROVE  IInv'
<1>1. /\ db' = d /\ seen' = seen \cup {d} /\ changed' = TRUE
      /\ commits < MaxCommits /\ commits' = commits + 1
      /\ call' = call /\ pc' = pc /\ rows' = rows /\ cursor' = cursor /\ total' = total
      /\ todo' = todo /\ read' = read /\ offered' = offered /\ fed' = fed
  BY DEF Commit
<1>2. commits' \in 0..MaxCommits
  BY <1>1, BoundsAssumption DEF IInv, TypeOK
<1>3. TypeOK'
  BY <1>1, <1>2 DEF IInv, TypeOK
<1>4. Placed'
  BY <1>1 DEF IInv, Placed
<1>5. ReadWell'
  <2>1. First' = First
    BY <1>1 DEF First
  <2>. QED
    BY <1>1, <2>1 DEF IInv, ReadWell
<1>6. SuggestionsFail'
  BY <1>1 DEF SuggestionsFail
<1>7. SuggestedChecksFail'
  BY <1>1 DEF IInv, SuggestedChecksFail
<1>8. Answered'
  BY <1>1, AnsweredStays DEF IInv
<1>. QED
  BY <1>3, <1>4, <1>5, <1>6, <1>7, <1>8 DEF IInv

LEMMA StutterStep == IInv /\ UNCHANGED vars => IInv'
<1>. SUFFICES ASSUME IInv, UNCHANGED vars PROVE IInv'
  OBVIOUS
<1>1. /\ call' = call /\ pc' = pc /\ rows' = rows /\ cursor' = cursor /\ total' = total
      /\ todo' = todo /\ read' = read /\ offered' = offered /\ fed' = fed
      /\ db' = db /\ seen' = seen /\ changed' = changed /\ commits' = commits
  BY DEF vars
<1>2. TypeOK'
  BY <1>1 DEF IInv, TypeOK
<1>3. Placed'
  BY <1>1 DEF IInv, Placed
<1>4. ReadWell'
  <2>1. First' = First
    BY <1>1 DEF First
  <2>. QED
    BY <1>1, <2>1 DEF IInv, ReadWell
<1>5. SuggestionsFail'
  BY <1>1 DEF IInv, SuggestionsFail
<1>6. SuggestedChecksFail'
  BY <1>1 DEF IInv, SuggestedChecksFail
<1>7. Answered'
  BY <1>1, AnsweredStays DEF IInv
<1>. QED
  BY <1>2, <1>3, <1>4, <1>5, <1>6, <1>7 DEF IInv

---------------------------------------------------------------------------
(* The theorems *)

LEMMA Initially == Init => IInv
<1>. SUFFICES ASSUME Init PROVE IInv
  OBVIOUS
<1>1. /\ db \in DOMAIN Contents /\ seen = {} /\ call = "none" /\ pc = "none"
      /\ rows = << >> /\ cursor = 0 /\ total = -1 /\ todo = {} /\ read = "none"
      /\ offered = << >> /\ fed = << >> /\ changed = FALSE /\ commits = 0
  BY DEF Init
<1>2. /\ << >> \in Seq(Suggestions) /\ << >> \in Seq(Suggestions \cup Reported \cup Told)
      /\ 0 \in 0..Len(<< >>) /\ 0 \in 0..MaxCommits
  BY BoundsAssumption
<1>3. TypeOK
  BY <1>1, <1>2 DEF TypeOK
<1>4. Placed
  BY <1>1 DEF Placed
<1>5. ReadWell /\ SuggestionsFail
  BY <1>1 DEF ReadWell, SuggestionsFail
<1>6. SuggestedChecksFail /\ Answered
  BY <1>1 DEF SuggestedChecksFail, Answered
<1>. QED
  BY <1>3, <1>4, <1>5, <1>6 DEF IInv

LEMMA Inductive == IInv /\ [Next]_vars => IInv'
<1>. SUFFICES ASSUME IInv, [Next]_vars PROVE IInv'
  OBVIOUS
<1>1. CASE UserCalls
  BY <1>1, CallProfileStep, CallSuggestStep, CallMalformedStep, CallValidateStep DEF UserCalls
<1>2. CASE Work
  BY <1>2, CountRowsStep, SummarizeStep, ProfileStep, NoStatementStep, FirstStatementStep,
     SecondStatementStep, AllCheckedStep, WriteStep, WriteNothingStep DEF Work
<1>3. CASE \E d \in DOMAIN Contents : Commit(d)
  BY <1>3, CommitStep
<1>4. CASE UNCHANGED vars
  BY <1>4, StutterStep
<1>. QED
  BY <1>1, <1>2, <1>3, <1>4 DEF Next

\* The inductive invariant: the way of a suggestion from dq_suggest through the
\* user to run_rules, together with the rows of the call under way.
THEOREM Invariant == Spec => []IInv
  BY Initially, Inductive, PTL DEF Spec

\* Every call collects and writes rows of its own kind, the cursor stays within
\* them, and only suggestions are offered and handed over.
THEOREM TypeCorrect == Spec => []TypeOK
<1>1. IInv => TypeOK
  BY DEF IInv
<1>. QED
  BY <1>1, Invariant, PTL

\* dq_suggest and run_rules: a suggested check that is run passes only if the
\* table has been changed since, for whatever contents and however wrong the
\* estimates, up to 98 percent.
THEOREM SuggestionsFailWhenRun == Spec => []SuggestedChecksFail
<1>1. IInv => SuggestedChecksFail
  BY DEF IInv
<1>. QED
  BY <1>1, Invariant, PTL

\* run_rules: every name handed over is answered once, for the last column handed
\* over with it, and a check passes only if it was true of something committed.
THEOREM EveryMemberIsAnswered == Spec => []MembersAnswered
<1>1. IInv => MembersAnswered
  <2>. SUFFICES ASSUME IInv, call = "validate" PROVE MembersAnswered
    BY DEF MembersAnswered
  <2>1. fed \in Seq(Suggestions)
    BY DEF IInv, TypeOK
  <2>2. /\ {rows[i].name : i \in DOMAIN rows} = {fed[j].name : j \in Members(fed) \ todo}
        /\ \A i, j \in DOMAIN rows : i # j => rows[i].name # rows[j].name
        /\ \A i \in DOMAIN rows :
             /\ \E j \in Members(fed) : fed[j].name = rows[i].name /\ fed[j].column = rows[i].column
             /\ Justified(rows[i], seen)
    BY DEF IInv, Answered
  <2>3. pc = "scan" => todo = {}
    BY DEF IInv, Placed
  <2> DEFINE M == Members(fed)
  <2>4. /\ M \subseteq DOMAIN fed
        /\ \A i \in DOMAIN fed : \E j \in M : fed[j].name = fed[i].name
        /\ \A i \in M : \A k \in DOMAIN fed : k > i => fed[k].name # fed[i].name
    BY <2>1, MembersType
  <2>. HIDE DEF M
  <2>5. {fed[j].name : j \in M} = {fed[i].name : i \in DOMAIN fed}
    BY <2>4
  <2>6. pc = "scan" => {rows[i].name : i \in DOMAIN rows} = {fed[i].name : i \in DOMAIN fed}
    <3>. SUFFICES ASSUME pc = "scan"
                  PROVE  {rows[i].name : i \in DOMAIN rows} = {fed[i].name : i \in DOMAIN fed}
      OBVIOUS
    <3>1. M \ todo = M
      BY <2>3
    <3>. QED
      BY <2>2, <2>5, <3>1 DEF M
  <2>7. ASSUME NEW i \in DOMAIN rows
        PROVE  \E j \in DOMAIN fed :
                 /\ fed[j].name = rows[i].name /\ fed[j].column = rows[i].column
                 /\ \A k \in DOMAIN fed : k > j => fed[k].name # fed[j].name
    BY <2>2, <2>4 DEF M
  <2>8. ASSUME NEW i \in DOMAIN rows
        PROVE  rows[i].passed /\ rows[i].name # "unique" =>
                 \E d \in seen :
                   /\ Contents[d].exists
                   /\ IF rows[i].name = "row_count_between" THEN Contents[d].rows # << >>
                      ELSE \A k \in DOMAIN Contents[d].rows : Contents[d].rows[k][rows[i].column] # Null
    BY <2>2 DEF Justified
  <2>. QED
    BY <2>2, <2>6, <2>7, <2>8 DEF MembersAnswered
<1>. QED
  BY <1>1, Invariant, PTL

=============================================================================
