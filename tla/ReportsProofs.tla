---------------------------- MODULE ReportsProofs ----------------------------
(***************************************************************************)
(* Theorems about Reports for any number of runs, any rule sets, chunks,   *)
(* crashes and drops: type correctness, what the rows of the history say,  *)
(* their order, the listings, the dashboard, and the implementation of     *)
(* ReportLog.                                                              *)
(***************************************************************************)
EXTENDS Reports, FiniteSetTheorems, TLAPS

---------------------------------------------------------------------------
(* Counting outcomes *)

LEMMA PartsAreFinite ==
  ASSUME NEW s \in Seq(Outcomes), NEW T \in SUBSET DOMAIN s
  PROVE  IsFiniteSet(T) /\ Cardinality(T) \in Nat
<1>1. IsFiniteSet(1..Len(s))
  BY FS_Interval
<1>. QED
  BY <1>1, FS_Subset, FS_CardinalityType

LEMMA CountTypes ==
  ASSUME NEW s \in Seq(Outcomes)
  PROVE  Passed(s) \in Nat /\ Failed(s) \in Nat /\ Errors(s) \in Nat
<1>1. Passed(s) \in Nat
  BY PartsAreFinite DEF Passed, Count
<1>2. Failed(s) \in Nat
  BY PartsAreFinite DEF Failed, Count
<1>3. Errors(s) \in Nat
  BY PartsAreFinite DEF Errors, Count
<1>. QED
  BY <1>1, <1>2, <1>3

LEMMA DisjointUnion ==
  ASSUME NEW S, NEW T, IsFiniteSet(S), IsFiniteSet(T), S \cap T = {}
  PROVE  Cardinality(S \cup T) = Cardinality(S) + Cardinality(T)
<1>1. Cardinality(S) \in Nat /\ Cardinality(T) \in Nat
  BY FS_CardinalityType
<1>2. Cardinality({}) = 0
  BY FS_EmptySet
<1>3. Cardinality(S \cup T) = Cardinality(S) + Cardinality(T) - Cardinality({})
  BY FS_Union
<1>. QED
  BY <1>1, <1>2, <1>3

\* The three filters of dq_run_fn put each result in exactly one class.
LEMMA CountsPartition ==
  ASSUME NEW s \in Seq(Outcomes)
  PROVE  /\ Passed(s) + Failed(s) + Errors(s) = Len(s)
         /\ (Failed(s) = 0 /\ Errors(s) = 0) <=> ToSet(s) \subseteq {"pass"}
<1>. DEFINE P == {i \in DOMAIN s : s[i] = "pass"}
            F == {i \in DOMAIN s : ~ HasError(s[i]) /\ s[i] # "pass"}
            E == {i \in DOMAIN s : HasError(s[i])}
<1>1. Passed(s) = Cardinality(P) /\ Failed(s) = Cardinality(F) /\ Errors(s) = Cardinality(E)
  BY DEF Passed, Failed, Errors, Count
<1>2. /\ IsFiniteSet(P) /\ IsFiniteSet(F) /\ IsFiniteSet(E) /\ IsFiniteSet(P \cup F)
      /\ Cardinality(P) \in Nat /\ Cardinality(F) \in Nat /\ Cardinality(E) \in Nat
  BY PartsAreFinite
<1>3. P \cap F = {} /\ (P \cup F) \cap E = {} /\ (P \cup F) \cup E = 1..Len(s)
  BY DEF HasError
<1>4. Len(s) \in Nat /\ Cardinality(1..Len(s)) = Len(s)
  <2>1. Len(s) \in Nat
    OBVIOUS
  <2>2. Cardinality(1..Len(s)) = IF 1 > Len(s) THEN 0 ELSE Len(s) - 1 + 1
    BY <2>1, FS_Interval
  <2>. QED
    BY <2>1, <2>2
<1>. HIDE DEF P, F, E
<1>5. Cardinality(P \cup F) = Cardinality(P) + Cardinality(F)
  BY <1>2, <1>3, DisjointUnion
<1>6. Cardinality((P \cup F) \cup E) = Cardinality(P \cup F) + Cardinality(E)
  BY <1>2, <1>3, DisjointUnion
<1>7. (Cardinality(F) = 0 <=> F = {}) /\ (Cardinality(E) = 0 <=> E = {})
  BY <1>2, FS_EmptySet
<1>8. (F = {} /\ E = {}) <=> ToSet(s) \subseteq {"pass"}
  BY DEF P, F, E, ToSet, HasError
<1>. QED
  BY <1>1, <1>2, <1>3, <1>4, <1>5, <1>6, <1>7, <1>8

Summaries == [total : Nat, passed : Nat, failed : Nat, errors : Nat, all : BOOLEAN]

LEMMA SummaryType == ASSUME NEW s \in Seq(Outcomes) PROVE Summary(s) \in Summaries
  BY CountTypes DEF Summary, Summaries

LEMMA SummaryAll ==
  ASSUME NEW s
  PROVE  Summary(s).all <=> (Failed(s) = 0 /\ Errors(s) = 0)
<1>. DEFINE b == Failed(s) = 0 /\ Errors(s) = 0
<1>1. Summary(s) = [total |-> Len(s), passed |-> Passed(s), failed |-> Failed(s),
                    errors |-> Errors(s), all |-> b]
  BY DEF Summary
<1>2. b \in BOOLEAN
  OBVIOUS
<1>3. b <=> (Failed(s) = 0 /\ Errors(s) = 0)
  OBVIOUS
<1>. HIDE DEF b
<1>4. Summary(s).all = b
  BY <1>1, <1>2
<1>. QED
  BY <1>3, <1>4

LEMMA RowsSummaries ==
  Rows = [run : Runs \cup {None}, at : 0..MaxClock, summary : Summaries]
  BY DEF Rows, Summaries

LEMMA ErrorRowType == ErrorRow \in Rows
<1>1. <<>> \in Seq(Outcomes)
  OBVIOUS
<1>2. Summary(<<>>) \in Summaries
  BY <1>1, SummaryType
<1>. QED
  BY <1>2, RowsSummaries, BoundAssumption DEF ErrorRow

\* The listings of a finite history are sequences of its rows.
LEMMA ListingType ==
  ASSUME NEW s \in Seq(Rows), NEW l \in SetToSeqs(ToSet(s))
  PROVE  l \in Seq(Rows)
<1>1. s \in Surjection(1..Len(s), ToSet(s))
  BY DEF Surjection, ToSet
<1>2. IsFiniteSet(1..Len(s))
  BY FS_Interval
<1>3. Cardinality(ToSet(s)) \in Nat
  BY <1>1, <1>2, FS_Surjection, FS_CardinalityType
<1>4. ToSet(s) \subseteq Rows
  BY DEF ToSet
<1>. QED
  BY <1>3, <1>4 DEF SetToSeqs

LEMMA ReportType ==
  ASSUME TypeOK, NEW r \in Runs
  PROVE  Report(r, clock) \in Rows
<1>1. Summary(results[r]) \in Summaries
  BY SummaryType DEF TypeOK
<1>. QED
  BY <1>1, RowsSummaries DEF Report, TypeOK

---------------------------------------------------------------------------
(* Type correctness *)

LEMMA InitTypeOK == ASSUME Init PROVE TypeOK
<1>1. /\ <<>> \in Seq(Outcomes) /\ <<>> \in Seq(Messages) /\ <<>> \in Seq(Rows)
      /\ 0 \in 0..MaxClock /\ 0 \in 0..MaxCrashes /\ 0 \in 0..MaxDrops
  BY BoundAssumption
<1>2. exists \in BOOLEAN
  BY DEF Init
<1>3. /\ pc \in [Runs -> Locations] /\ left \in [Runs -> Nat]
      /\ results \in [Runs -> Seq(Outcomes)] /\ checked \in [Runs -> 0..MaxClock]
      /\ output \in [Runs -> Seq(Messages)]
  BY <1>1 DEF Init, Locations
<1>. QED
  BY <1>1, <1>2, <1>3 DEF Init, TypeOK

LEMMA CallingTypeOK ==
  ASSUME TypeOK, NEW r \in Runs, Calling(r)
  PROVE  TypeOK'
<1>1. ASSUME NEW k \in 1..MaxChunk, NoInput(r, k) PROVE TypeOK'
  <2>1. [i \in 1..k |-> IF i = 1 THEN "no input" ELSE "unwritten"] \in Seq(Messages)
    BY BoundAssumption DEF Messages
  <2>. QED
    BY <1>1, <2>1 DEF NoInput, Goto, TypeOK, Locations, tableVars, listVars, bounds
<1>2. ASSUME NEW k \in 1..MaxChunk, Malformed(r, k) PROVE TypeOK'
  <2>1. [i \in 1..k |-> "unwritten"] \in Seq(Messages)
    BY BoundAssumption DEF Messages
  <2>2. <<"error">> \in Seq(Outcomes)
    BY DEF Outcomes
  <2>. QED
    BY <1>2, <2>1, <2>2 DEF Malformed, Chunk, Goto, TypeOK, Locations, tableVars,
                            listVars, bounds
<1>3. ASSUME NEW k \in 1..MaxChunk, NEW n \in Sizes[r], Start(r, k, n) PROVE TypeOK'
  <2>1. [i \in 1..k |-> "unwritten"] \in Seq(Messages)
    BY BoundAssumption DEF Messages
  <2>2. n \in Nat
    BY SizesAssumption
  <2>. QED
    BY <1>3, <2>1, <2>2 DEF Start, Chunk, Goto, TypeOK, Locations, tableVars,
                            listVars, bounds
<1>. QED
  BY <1>1, <1>2, <1>3 DEF Calling

\* Filling the first entry of an output vector leaves a vector of messages.
LEMMA FinishType ==
  ASSUME TypeOK, NEW r \in Runs, NEW message \in Messages, Finish(r, message)
  PROVE  pc' \in [Runs -> Locations] /\ output' \in [Runs -> Seq(Messages)]
<1>1. ReplaceAt(output[r], 1, message) \in Seq(Messages)
  <2>1. output[r] \in Seq(Messages)
    BY DEF TypeOK
  <2>2. ASSUME NEW s \in Seq(Messages) PROVE [s EXCEPT ![1] = message] \in Seq(Messages)
    <3>1. s \in [1..Len(s) -> Messages] /\ Len(s) \in Nat
      OBVIOUS
    <3>2. [s EXCEPT ![1] = message] \in [1..Len(s) -> Messages]
      BY <3>1
    <3>. QED
      BY <3>1, <3>2
  <2>. QED
    BY <2>1, <2>2 DEF ReplaceAt
<1>. QED
  BY <1>1 DEF Finish, Goto, TypeOK, Locations

LEMMA RunningTypeOK ==
  ASSUME TypeOK, NEW r \in Runs, Running(r)
  PROVE  TypeOK'
<1>1. CASE Evaluate(r)
  <2>1. left' \in [Runs -> Nat]
    BY <1>1 DEF Evaluate, TypeOK
  <2>2. PICK o \in Outcomes : results' = [results EXCEPT ![r] = Append(@, o)]
    BY <1>1 DEF Evaluate
  <2>3. results' \in [Runs -> Seq(Outcomes)]
    BY <2>2 DEF TypeOK
  <2>. QED
    BY <1>1, <2>1, <2>3 DEF Evaluate, TypeOK, tableVars, listVars, bounds
<1>2. CASE Create(r)
  BY <1>2 DEF Create, Goto, TypeOK, Locations, listVars, bounds
<1>3. CASE CreateFails(r)
  BY <1>3, FinishType DEF CreateFails, Messages, TypeOK, tableVars, listVars, bounds
<1>4. CASE Insert(r)
  <2>1. reports' \in Seq(Rows)
    BY <1>4, ReportType DEF Insert, TypeOK
  <2>. QED
    BY <1>4, <2>1 DEF Insert, Goto, TypeOK, Locations, listVars, bounds
<1>5. CASE InsertFails(r)
  BY <1>5, FinishType DEF InsertFails, Messages, TypeOK, tableVars, listVars, bounds
<1>6. CASE Answer(r)
  BY <1>6, FinishType DEF Answer, Messages, TypeOK, tableVars, listVars, bounds
<1>. QED
  BY <1>1, <1>2, <1>3, <1>4, <1>5, <1>6 DEF Running

LEMMA StepTypeOK == ASSUME TypeOK, [Next]_vars PROVE TypeOK'
<1>1. CASE \E r \in Runs : Calling(r) \/ Running(r)
  BY <1>1, CallingTypeOK, RunningTypeOK
<1>2. CASE BindReports
  <2>1. PICK l \in {<<ErrorRow>>} \cup SetToSeqs(ToSet(reports)) : listing' = l
    BY <1>2 DEF BindReports
  <2>2. l \in Seq(Rows)
    <3>1. reports \in Seq(Rows)
      BY DEF TypeOK
    <3>2. CASE l = <<ErrorRow>>
      BY <3>2, ErrorRowType
    <3>3. CASE l \in SetToSeqs(ToSet(reports))
      BY <3>1, <3>3, ListingType
    <3>. QED
      BY <3>2, <3>3
  <2>3. shown' \in Seq(Rows)
    BY <1>2 DEF BindReports
  <2>. QED
    BY <1>2, <2>1, <2>2, <2>3 DEF BindReports, TypeOK, runVars, tableVars, bounds
<1>3. CASE ScanReports
  <2>1. listing[Len(shown) + 1] \in Rows
    BY <1>3 DEF ScanReports, TypeOK
  <2>2. shown' \in Seq(Rows)
    BY <1>3, <2>1 DEF ScanReports, TypeOK
  <2>. QED
    BY <1>3, <2>2 DEF ScanReports, TypeOK, runVars, tableVars, bounds
<1>4. CASE Tick
  BY <1>4, BoundAssumption DEF Tick, TypeOK, runVars, tableVars, listVars, bounds
<1>5. CASE DropTable
  <2>1. exists' \in BOOLEAN
    BY <1>5 DEF DropTable
  <2>2. reports' \in Seq(Rows) /\ drops' \in 0..MaxDrops
    BY <1>5, BoundAssumption DEF DropTable, TypeOK
  <2>. QED
    BY <1>5, <2>1, <2>2 DEF DropTable, TypeOK, runVars, listVars
<1>6. CASE Crash
  <2>1. pc' \in [Runs -> Locations]
    BY <1>6 DEF Crash, TypeOK, Locations
  <2>2. /\ UNCHANGED <<left, results, checked, output, exists, reports, clock, drops>>
        /\ writer' = None /\ listing' = <<>> /\ shown' = <<>>
    BY <1>6 DEF Crash, tableVars
  <2>3. crashes' \in 0..MaxCrashes
    BY <1>6, BoundAssumption DEF Crash, TypeOK
  <2>. QED
    BY <2>1, <2>2, <2>3 DEF TypeOK
<1>7. CASE UNCHANGED vars
  BY <1>7 DEF vars, TypeOK, runVars, tableVars, listVars, bounds
<1>. QED
  BY <1>1, <1>2, <1>3, <1>4, <1>5, <1>6, <1>7 DEF Next

\* The state of the runs, of the table and of a listing keeps its types through
\* every call, failure, crash and drop.
THEOREM TypeCorrect == Spec => []TypeOK
<1>1. Init => TypeOK
  BY InitTypeOK
<1>2. TypeOK /\ [Next]_vars => TypeOK'
  BY StepTypeOK
<1>. QED
  BY <1>1, <1>2, PTL DEF Spec

---------------------------------------------------------------------------
(* The history *)

Settled == {"saved", "done", "unanswered"}

\* A row belongs to a run that has left its statements behind, tells what that
\* run found, and was stamped between its last check and now.
RowSettled(row) == /\ row.run \in Runs
                   /\ pc[row.run] \in Settled
                   /\ row.summary = Summary(results[row.run])
                   /\ checked[row.run] <= row.at
                   /\ row.at <= clock
RowsSettled == \A i \in DOMAIN reports : RowSettled(reports[i])
RowsOrdered == \A i, j \in DOMAIN reports : i < j => reports[i].at <= reports[j].at
ChecksPast == \A r \in Runs : checked[r] <= clock
OutputReady == \A r \in Runs : pc[r] # "new" => 1 \in DOMAIN output[r]

\* The inductive invariant.
IInv == TypeOK /\ RowsSettled /\ RowsOrdered /\ ChecksPast /\ OutputReady

LEMMA InitIInv == ASSUME Init PROVE IInv
<1>1. TypeOK
  BY InitTypeOK
<1>2. DOMAIN reports = {}
  BY DEF Init
<1>3. ChecksPast /\ OutputReady
  BY DEF Init, ChecksPast, OutputReady
<1>. QED
  BY <1>1, <1>2, <1>3 DEF IInv, RowsSettled, RowsOrdered

\* What a step may do to the runs that have rows: nothing.
Frame == /\ \A r \in Runs : pc[r] \in Settled => /\ pc'[r] \in Settled
                                                /\ results'[r] = results[r]
                                                /\ checked'[r] = checked[r]
         /\ clock' \in Int /\ clock' >= clock

LEMMA FrameKeepsRows ==
  ASSUME IInv, Frame
  PROVE  \A row \in Rows : RowSettled(row) => RowSettled(row)'
<1>. SUFFICES ASSUME NEW row \in Rows, RowSettled(row)
              PROVE  RowSettled(row)'
  OBVIOUS
<1>1. row.run \in Runs /\ pc[row.run] \in Settled
  BY DEF RowSettled
<1>2. /\ pc'[row.run] \in Settled
      /\ results'[row.run] = results[row.run]
      /\ checked'[row.run] = checked[row.run]
  BY <1>1 DEF Frame
<1>3. row.at <= clock'
  <2>1. row.at \in Int /\ clock \in Int /\ clock' \in Int /\ clock' >= clock
    BY RowsSummaries DEF IInv, TypeOK, Frame
  <2>. QED
    BY <2>1 DEF RowSettled
<1>4. row.summary = Summary(results'[row.run])
  BY <1>2 DEF RowSettled
<1>5. checked'[row.run] <= row.at
  BY <1>2 DEF RowSettled
<1>. QED
  BY <1>1, <1>2, <1>3, <1>4, <1>5 DEF RowSettled

LEMMA FrameKeepsHistory ==
  ASSUME IInv, TypeOK', Frame, reports' \in {reports, <<>>}
  PROVE  RowsSettled' /\ RowsOrdered'
<1>1. CASE reports' = reports
  <2>1. \A i \in DOMAIN reports : reports[i] \in Rows /\ RowSettled(reports[i])
    BY DEF IInv, TypeOK, RowsSettled
  <2>2. RowsSettled'
    BY <1>1, <2>1, FrameKeepsRows DEF RowsSettled, RowSettled
  <2>. QED
    BY <1>1, <2>2 DEF IInv, RowsOrdered
<1>2. CASE reports' = <<>>
  BY <1>2 DEF RowsSettled, RowsOrdered
<1>. QED
  BY <1>1, <1>2

\* What is left of IInv' for a step in Frame that moves run r, or none.
LEMMA FrameKeepsIInv ==
  ASSUME IInv, TypeOK', Frame, reports' \in {reports, <<>>}, ChecksPast', OutputReady'
  PROVE  IInv'
BY FrameKeepsHistory DEF IInv

\* A step of one run whose row, if it has one, it does not touch.
LEMMA OneRunFrame ==
  ASSUME IInv, NEW r \in Runs, NEW there, Goto(r, there), clock' = clock,
         \A q \in Runs \ {r} : results'[q] = results[q] /\ checked'[q] = checked[q],
         checked'[r] \in {checked[r], clock},
         pc[r] \in Settled =>
           there \in Settled /\ results'[r] = results[r] /\ checked'[r] = checked[r]
  PROVE  Frame /\ ChecksPast'
<1>1. pc'[r] = there /\ \A q \in Runs \ {r} : pc'[q] = pc[q]
  BY DEF Goto, IInv, TypeOK
<1>2. clock \in Int /\ clock <= clock
  BY DEF IInv, TypeOK
<1>3. Frame
  BY <1>1, <1>2 DEF Frame
<1>4. ChecksPast'
  BY <1>2 DEF IInv, ChecksPast
<1>. QED
  BY <1>3, <1>4

\* A step of one run that gives it an output vector of at least one row.
LEMMA OneRunReady ==
  ASSUME IInv, NEW r \in Runs, NEW there, NEW v, 1 \in DOMAIN v,
         Goto(r, there), output' = [output EXCEPT ![r] = v]
  PROVE  OutputReady'
BY DEF Goto, IInv, TypeOK, OutputReady

LEMMA FinishReady ==
  ASSUME IInv, NEW r \in Runs, NEW message, pc[r] # "new", Finish(r, message)
  PROVE  OutputReady'
<1>1. DOMAIN ReplaceAt(output[r], 1, message) = DOMAIN output[r]
  BY DEF ReplaceAt
<1>2. 1 \in DOMAIN output[r]
  BY DEF IInv, OutputReady
<1>. QED
  BY <1>1, <1>2, OneRunReady DEF Finish

LEMMA CallingIInv ==
  ASSUME IInv, TypeOK', NEW r \in Runs, Calling(r)
  PROVE  IInv'
<1>. USE DEF IInv, TypeOK, tableVars
<1>1. ASSUME NEW k \in 1..MaxChunk, NoInput(r, k) PROVE IInv'
  <2>. DEFINE v == [i \in 1..k |-> IF i = 1 THEN "no input" ELSE "unwritten"]
  <2>1. Frame /\ ChecksPast'
    BY <1>1, OneRunFrame DEF NoInput, Settled
  <2>2. 1 \in DOMAIN v
    BY BoundAssumption
  <2>3. OutputReady'
    BY <1>1, <2>2, OneRunReady DEF NoInput
  <2>. QED
    BY <1>1, <2>1, <2>3, FrameKeepsIInv DEF NoInput
<1>2. ASSUME NEW k \in 1..MaxChunk PROVE 1 \in DOMAIN [i \in 1..k |-> "unwritten"]
  BY BoundAssumption
<1>3. ASSUME NEW k \in 1..MaxChunk, Malformed(r, k) PROVE IInv'
  <2>1. Frame /\ ChecksPast'
    BY <1>3, OneRunFrame DEF Malformed, Settled
  <2>2. OutputReady'
    BY <1>2, <1>3, OneRunReady DEF Malformed, Chunk
  <2>. QED
    BY <1>3, <2>1, <2>2, FrameKeepsIInv DEF Malformed
<1>4. ASSUME NEW k \in 1..MaxChunk, NEW n \in Sizes[r], Start(r, k, n) PROVE IInv'
  <2>1. Frame /\ ChecksPast'
    BY <1>4, OneRunFrame DEF Start, Settled
  <2>2. OutputReady'
    BY <1>2, <1>4, OneRunReady DEF Start, Chunk
  <2>. QED
    BY <1>4, <2>1, <2>2, FrameKeepsIInv DEF Start
<1>. QED
  BY <1>1, <1>3, <1>4 DEF Calling

LEMMA AppendRows ==
  ASSUME NEW s \in Seq(Rows), NEW row \in Rows
  PROVE  LET t == Append(s, row)
         IN /\ \A i \in DOMAIN t : \/ i \in DOMAIN s /\ t[i] = s[i]
                                   \/ i \notin DOMAIN s /\ t[i] = row
            /\ \A i, j \in DOMAIN t : i < j => i \in DOMAIN s
OBVIOUS

\* The new row is settled and, its time being now, the latest.
LEMMA InsertIInv ==
  ASSUME IInv, TypeOK', NEW r \in Runs, Insert(r)
  PROVE  IInv'
<1>. USE DEF IInv, TypeOK
<1>1. Frame /\ ChecksPast'
  BY DEF Insert, Goto, Frame, Settled, ChecksPast
<1>2. OutputReady'
  BY DEF Insert, Goto, OutputReady
<1>3. /\ Report(r, clock) \in Rows
      /\ reports' = Append(reports, Report(r, clock))
  BY ReportType DEF Insert
<1>4. RowSettled(Report(r, clock))'
  <2>1. pc'[r] \in Settled /\ UNCHANGED <<results, checked, clock>>
    BY DEF Insert, Goto, Settled
  <2>2. Report(r, clock).run = r /\ Report(r, clock).at = clock
        /\ Report(r, clock).summary = Summary(results[r])
    BY DEF Report
  <2>3. checked[r] <= clock /\ clock <= clock
    BY DEF ChecksPast
  <2>. QED
    BY <2>1, <2>2, <2>3 DEF RowSettled, Report
<1>5. \A i \in DOMAIN reports : reports[i] \in Rows /\ RowSettled(reports[i])
  <2>1. reports \in Seq(Rows)
    OBVIOUS
  <2>2. \A i \in DOMAIN reports : reports[i] \in Rows
    <3>. HIDE DEF IInv, TypeOK
    <3>. QED
      BY <2>1
  <2>. QED
    BY <2>2, Zenon DEF RowsSettled
<1>6. /\ \A i \in DOMAIN reports' : \/ i \in DOMAIN reports /\ reports'[i] = reports[i]
                                    \/ i \notin DOMAIN reports /\ reports'[i] = Report(r, clock)
      /\ \A i, j \in DOMAIN reports' : i < j => i \in DOMAIN reports
  <2>1. reports \in Seq(Rows)
    OBVIOUS
  <2>. HIDE DEF IInv, TypeOK
  <2>2. LET t == Append(reports, Report(r, clock))
        IN /\ \A i \in DOMAIN t : \/ i \in DOMAIN reports /\ t[i] = reports[i]
                                  \/ i \notin DOMAIN reports /\ t[i] = Report(r, clock)
           /\ \A i, j \in DOMAIN t : i < j => i \in DOMAIN reports
    BY <1>3, <2>1, AppendRows
  <2>. QED
    BY <1>3, <2>2
<1>7. Report(r, clock).at = clock
  BY DEF Report
<1>8. \A row \in Rows : RowSettled(row) => RowSettled(row)'
  BY <1>1, FrameKeepsRows
<1>. HIDE DEF IInv, TypeOK
<1>9. RowsSettled'
  <2>. SUFFICES ASSUME NEW i \in DOMAIN reports'
                PROVE  RowSettled(reports[i])'
    BY DEF RowsSettled
  <2>1. CASE i \in DOMAIN reports
    <3>1. reports'[i] = reports[i] /\ reports[i] \in Rows /\ RowSettled(reports[i])
      BY <1>5, <1>6, <2>1
    <3>. QED
      BY <1>8, <3>1 DEF RowSettled
  <2>2. CASE i \notin DOMAIN reports
    <3>1. reports'[i] = Report(r, clock)
      BY <1>6, <2>2
    <3>2. UNCHANGED clock
      BY DEF Insert
    <3>3. UNCHANGED results
      BY DEF Insert
    <3>. QED
      BY <1>4, <3>1, <3>2, <3>3 DEF RowSettled, Report
  <2>. QED
    BY <2>1, <2>2
<1>10. RowsOrdered'
  <2>. SUFFICES ASSUME NEW i \in DOMAIN reports', NEW j \in DOMAIN reports', i < j
                PROVE  reports'[i].at <= reports'[j].at
    BY DEF RowsOrdered
  <2>1. i \in DOMAIN reports /\ reports'[i] = reports[i]
    BY <1>6
  <2>2. CASE j \in DOMAIN reports
    BY <1>6, <2>1, <2>2 DEF IInv, RowsOrdered
  <2>3. CASE j \notin DOMAIN reports
    <3>1. reports'[j].at = clock
      BY <1>6, <1>7, <2>3
    <3>2. reports[i].at <= clock
      BY <1>5, <2>1 DEF RowSettled
    <3>. QED
      BY <2>1, <3>1, <3>2
  <2>. QED
    BY <2>2, <2>3
<1>. QED
  BY <1>1, <1>2, <1>9, <1>10 DEF IInv

LEMMA RunningIInv ==
  ASSUME IInv, TypeOK', NEW r \in Runs, Running(r)
  PROVE  IInv'
<1>. USE DEF IInv, TypeOK
<1>1. CASE Evaluate(r)
  <2>1. Frame /\ ChecksPast' /\ OutputReady'
    BY <1>1 DEF Evaluate, Frame, Settled, ChecksPast, OutputReady
  <2>. QED
    BY <1>1, <2>1, FrameKeepsIInv DEF Evaluate, tableVars
<1>2. CASE Create(r)
  <2>1. Frame /\ ChecksPast' /\ OutputReady'
    BY <1>2 DEF Create, Evaluated, Goto, Frame, Settled, ChecksPast, OutputReady
  <2>. QED
    BY <1>2, <2>1, FrameKeepsIInv DEF Create
<1>3. CASE CreateFails(r) \/ InsertFails(r) \/ Answer(r)
  <2>1. Frame /\ ChecksPast'
    BY <1>3, OneRunFrame DEF CreateFails, Evaluated, InsertFails, Answer, Finish, Settled
  <2>2. OutputReady'
    BY <1>3, FinishReady DEF CreateFails, Evaluated, InsertFails, Answer
  <2>. QED
    BY <1>3, <2>1, <2>2, FrameKeepsIInv DEF CreateFails, InsertFails, Answer, tableVars
<1>4. CASE Insert(r)
  BY <1>4, InsertIInv
<1>. QED
  BY <1>1, <1>2, <1>3, <1>4 DEF Running

LEMMA StepIInv == ASSUME IInv, [Next]_vars PROVE IInv'
<1>. USE DEF IInv
<1>1. TypeOK'
  BY StepTypeOK
<1>2. CASE \E r \in Runs : Calling(r) \/ Running(r)
  BY <1>1, <1>2, CallingIInv, RunningIInv
<1>3. CASE BindReports \/ ScanReports \/ Tick \/ DropTable \/ UNCHANGED vars
  <2>1. UNCHANGED runVars /\ clock' \in Int /\ clock' >= clock /\ reports' \in {reports, <<>>}
    BY <1>3 DEF BindReports, ScanReports, Tick, DropTable, vars, tableVars, TypeOK
  <2>2. Frame /\ ChecksPast' /\ OutputReady'
    BY <2>1 DEF runVars, Frame, ChecksPast, OutputReady, TypeOK
  <2>. QED
    BY <1>1, <2>1, <2>2, FrameKeepsIInv
<1>4. CASE Crash
  <2>1. Frame /\ ChecksPast' /\ OutputReady'
    BY <1>4 DEF Crash, Settled, Frame, ChecksPast, OutputReady, TypeOK
  <2>. QED
    BY <1>1, <1>4, <2>1, FrameKeepsIInv DEF Crash, tableVars
<1>. QED
  BY <1>2, <1>3, <1>4 DEF Next

THEOREM Invariance == Spec => []IInv
<1>1. Init => IInv
  BY InitIInv
<1>2. IInv /\ [Next]_vars => IInv'
  BY StepIInv
<1>. QED
  BY <1>1, <1>2, PTL DEF Spec

\* The summary of a report accounts for each rule of its run exactly once, and
\* the report says "passed" exactly when every rule was evaluated and passed.
THEOREM ReportsTell == Spec => []ReportsAreTrue
<1>1. ASSUME IInv PROVE ReportsAreTrue
  <2>. SUFFICES ASSUME NEW i \in DOMAIN reports
                PROVE  LET s == reports[i].summary
                           found == results[reports[i].run]
                       IN /\ s.total = Len(found)
                          /\ s.total = s.passed + s.failed + s.errors
                          /\ s.all <=> ToSet(found) \subseteq {"pass"}
    BY DEF ReportsAreTrue
  <2>1. /\ results[reports[i].run] \in Seq(Outcomes)
        /\ reports[i].summary = Summary(results[reports[i].run])
    BY <1>1 DEF IInv, TypeOK, RowsSettled, RowSettled
  <2>. DEFINE found == results[reports[i].run]
  <2>2. /\ Passed(found) + Failed(found) + Errors(found) = Len(found)
        /\ (Failed(found) = 0 /\ Errors(found) = 0) <=> ToSet(found) \subseteq {"pass"}
    BY <2>1, CountsPartition
  <2>3. /\ reports[i].summary.total = Len(found)
        /\ reports[i].summary.passed = Passed(found)
        /\ reports[i].summary.failed = Failed(found)
        /\ reports[i].summary.errors = Errors(found)
        /\ reports[i].summary.all <=> (Failed(found) = 0 /\ Errors(found) = 0)
    <3>1. reports[i].summary = Summary(found)
      BY <2>1
    <3>. HIDE DEF found
    <3>2. /\ reports[i].summary.total = Len(found)
          /\ reports[i].summary.passed = Passed(found)
          /\ reports[i].summary.failed = Failed(found)
          /\ reports[i].summary.errors = Errors(found)
      BY <3>1 DEF Summary
    <3>3. reports[i].summary.all <=> (Failed(found) = 0 /\ Errors(found) = 0)
      BY <3>1, SummaryAll, Zenon
    <3>. QED
      BY <3>2, <3>3
  <2>. QED
    BY <2>2, <2>3
<1>. QED
  BY <1>1, Invariance, PTL

\* The order of run_at is the order of the commits, and no report is stamped
\* before a check it rests on.
THEOREM StampsFollow == Spec => []StampsFollowCommits
<1>1. IInv => StampsFollowCommits
  BY DEF IInv, RowsSettled, RowSettled, RowsOrdered, StampsFollowCommits
<1>. QED
  BY <1>1, Invariance, PTL

---------------------------------------------------------------------------
(* The listing and the dashboard *)

EachRunOnce(s) == \A i, j \in DOMAIN s : s[i].run = s[j].run => i = j

ShownIsBound == /\ Len(shown) <= Len(listing)
                /\ \A i \in DOMAIN shown : shown[i] = listing[i]

\* What makes a listing coherent, beside IInv: no run has two rows, and the
\* rows a scan has emitted are the first ones of what was bound.
ListingInv == /\ EachRunOnce(reports)
              /\ EachRunOnce(listing) /\ NewestFirst(listing)
              /\ ShownIsBound

\* A run inserts while it has no row yet.
LEMMA InsertOnce ==
  ASSUME IInv, EachRunOnce(reports), NEW r \in Runs, Insert(r)
  PROVE  EachRunOnce(reports')
<1>. DEFINE row == Report(r, clock)
<1>1. /\ reports \in Seq(Rows) /\ row \in Rows
  BY ReportType DEF IInv, TypeOK
<1>2. reports' = Append(reports, row) /\ row.run = r /\ pc[r] = "insert"
  BY DEF Insert, Report
<1>3. \A i \in DOMAIN reports : reports[i].run # r
  BY <1>2 DEF IInv, RowsSettled, RowSettled, Settled
<1>4. row.run = r
  BY <1>2
<1>. HIDE DEF row
<1>5. /\ DOMAIN reports' = (DOMAIN reports) \cup {Len(reports) + 1}
      /\ \A i \in DOMAIN reports : reports'[i] = reports[i]
      /\ reports'[Len(reports) + 1] = row
  BY <1>1, <1>2
<1>. QED
  BY <1>3, <1>4, <1>5 DEF EachRunOnce

LEMMA ReportsOnce ==
  ASSUME IInv, EachRunOnce(reports), [Next]_vars
  PROVE  EachRunOnce(reports')
<1>1. CASE \E r \in Runs : Insert(r)
  BY <1>1, InsertOnce
<1>2. CASE UNCHANGED reports
  BY <1>2 DEF EachRunOnce
<1>3. CASE reports' = <<>>
  BY <1>3 DEF EachRunOnce
<1>4. ASSUME NEW r \in Runs, Calling(r) \/ Running(r) PROVE Insert(r) \/ UNCHANGED reports
  BY <1>4 DEF Calling, Running, NoInput, Malformed, Start, Evaluate, Create, CreateFails,
              InsertFails, Answer, tableVars
<1>5. ASSUME BindReports \/ ScanReports \/ Tick \/ Crash \/ UNCHANGED vars PROVE UNCHANGED reports
  BY <1>5 DEF BindReports, ScanReports, Tick, Crash, vars, tableVars
<1>6. ASSUME DropTable PROVE reports' = <<>>
  BY <1>6 DEF DropTable
<1>. QED
  BY <1>1, <1>2, <1>3, <1>4, <1>5, <1>6 DEF Next

\* The query returns each row of the table once.
LEMMA AnswersOnce ==
  ASSUME reports \in Seq(Rows), EachRunOnce(reports), NEW l, Answers(l)
  PROVE  EachRunOnce(l) /\ NewestFirst(l)
<1>1. CASE exists
  <2>1. l \in SetToSeqs(ToSet(reports)) /\ NewestFirst(l)
    BY <1>1 DEF Answers
  <2>2. \A i \in DOMAIN l : \E p \in DOMAIN reports : l[i] = reports[p]
    BY <2>1 DEF SetToSeqs, ToSet
  <2>3. \A i, j \in DOMAIN l : i # j => l[i] # l[j]
    BY <2>1 DEF SetToSeqs
  <2>4. EachRunOnce(l)
    BY <2>2, <2>3 DEF EachRunOnce
  <2>. QED
    BY <2>1, <2>4
<1>2. CASE ~ exists
  <2>1. l = <<ErrorRow>>
    BY <1>2 DEF Answers
  <2>2. ErrorRow.at \in Int
    BY DEF ErrorRow
  <2>. HIDE DEF ErrorRow
  <2>. QED
    BY <2>1, <2>2 DEF EachRunOnce, NewestFirst
<1>. QED
  BY <1>1, <1>2

LEMMA ScanStays ==
  ASSUME TypeOK, ShownIsBound, ScanReports
  PROVE  ShownIsBound'
<1>1. shown \in Seq(Rows) /\ listing \in Seq(Rows) /\ listing' = listing
  BY DEF TypeOK, ScanReports
<1>2. Len(shown) < Len(listing) /\ shown' = Append(shown, listing[Len(shown) + 1])
  BY DEF ScanReports
<1>. QED
  BY <1>1, <1>2 DEF ShownIsBound

LEMMA StepListingInv == ASSUME IInv, ListingInv, [Next]_vars PROVE ListingInv'
<1>1. EachRunOnce(reports')
  BY ReportsOnce DEF ListingInv
<1>. SUFFICES EachRunOnce(listing') /\ NewestFirst(listing') /\ ShownIsBound'
  BY <1>1 DEF ListingInv
<1>2. CASE UNCHANGED listVars
  BY <1>2 DEF ListingInv, ShownIsBound, listVars
<1>3. CASE BindReports
  <2>1. Answers(listing') /\ shown' = <<>>
    BY <1>3 DEF BindReports
  <2>2. EachRunOnce(listing') /\ NewestFirst(listing')
    BY <2>1, AnswersOnce DEF IInv, TypeOK, ListingInv
  <2>3. listing' \in Seq(Rows)
    BY StepTypeOK DEF IInv, TypeOK
  <2>. QED
    BY <2>1, <2>2, <2>3 DEF ShownIsBound
<1>4. CASE ScanReports
  <2>1. UNCHANGED listing
    BY <1>4 DEF ScanReports
  <2>. QED
    BY <1>4, <2>1, ScanStays DEF IInv, ListingInv
<1>5. CASE Crash
  BY <1>5 DEF Crash, EachRunOnce, NewestFirst, ShownIsBound
<1>6. CASE \E r \in Runs : Calling(r) \/ Running(r)
  BY <1>2, <1>6 DEF Calling, Running, NoInput, Malformed, Start, Evaluate, Create, CreateFails,
                    Insert, InsertFails, Answer
<1>7. CASE Tick \/ DropTable \/ UNCHANGED vars
  BY <1>2, <1>7 DEF Tick, DropTable, vars
<1>. QED
  BY <1>3, <1>4, <1>5, <1>6, <1>7 DEF Next

\* A call of dq_reports lists a run at most once and the newest first, though
\* runs persist, tables are dropped and the process dies while it scans.
THEOREM ListingCoheres == Spec => []ListingIsCoherent
<1>1. ASSUME Init PROVE ListingInv
  BY <1>1 DEF Init, ListingInv, EachRunOnce, NewestFirst, ShownIsBound
<1>2. IInv /\ ListingInv /\ [Next]_vars => ListingInv'
  BY StepListingInv
<1>3. ASSUME IInv, ListingInv PROVE ListingIsCoherent
  <2>1. listing \in Seq(Rows) /\ shown \in Seq(Rows)
    BY <1>3 DEF IInv, TypeOK
  <2>2. Len(shown) <= Len(listing) /\ \A i \in DOMAIN shown : shown[i] = listing[i]
    BY <1>3 DEF ListingInv, ShownIsBound
  <2>3. DOMAIN shown \subseteq DOMAIN listing
    BY <2>1, <2>2
  <2>. QED
    BY <1>3, <2>2, <2>3 DEF ListingInv, EachRunOnce, NewestFirst, ListingIsCoherent
<1>. QED
  BY <1>1, <1>2, <1>3, Invariance, PTL DEF Spec

\* The dashboard of a rule set and the report of the same outcomes agree on
\* whether everything passed, whichever of its panels is read.
THEOREM DashboardsAgree == Spec => []DashboardAgrees
<1>1. ASSUME NEW s \in Seq(Outcomes)
      PROVE  /\ Summary(s).all <=> Dashboard(s).failures = {}
             /\ Dashboard(s).failedPanel = Cardinality(Dashboard(s).failures)
             /\ Dashboard(s).passed + Dashboard(s).failedPanel = Dashboard(s).checks
  <2>. DEFINE F == {i \in DOMAIN s : ~ HasError(s[i]) /\ s[i] # "pass"}
              E == {i \in DOMAIN s : HasError(s[i])}
  <2>1. Failed(s) = Cardinality(F) /\ Errors(s) = Cardinality(E)
    BY DEF Failed, Errors, Count
  <2>2. IsFiniteSet(F) /\ IsFiniteSet(E) /\ F \cap E = {}
    BY PartsAreFinite
  <2>3. Dashboard(s).failures = F \cup E
    BY DEF Dashboard
  <2>4. /\ Dashboard(s).checks = Len(s)
        /\ Dashboard(s).passed = Passed(s)
        /\ Dashboard(s).failedPanel = Failed(s) + Errors(s)
    BY DEF Dashboard
  <2>. HIDE DEF F, E
  <2>5. Cardinality(F \cup E) = Cardinality(F) + Cardinality(E)
    BY <2>2, DisjointUnion
  <2>6. (Failed(s) = 0 <=> F = {}) /\ (Errors(s) = 0 <=> E = {})
    BY <2>1, <2>2, FS_EmptySet
  <2>7. Summary(s).all <=> F \cup E = {}
    <3>1. Summary(s).all <=> (Failed(s) = 0 /\ Errors(s) = 0)
      BY SummaryAll
    <3>. QED
      BY <3>1, <2>6, Zenon
  <2>8. Passed(s) + (Failed(s) + Errors(s)) = Len(s)
    BY CountTypes, CountsPartition
  <2>9. Summary(s).all <=> Dashboard(s).failures = {}
    BY <2>3, <2>7, Zenon
  <2>. QED
    BY <2>1, <2>3, <2>4, <2>5, <2>8, <2>9, Zenon
<1>2. TypeOK => DashboardAgrees
  <2>. SUFFICES ASSUME TypeOK, NEW r \in Runs
                PROVE  /\ Summary(results[r]).all <=> Dashboard(results[r]).failures = {}
                       /\ Dashboard(results[r]).failedPanel
                            = Cardinality(Dashboard(results[r]).failures)
                       /\ Dashboard(results[r]).passed + Dashboard(results[r]).failedPanel
                            = Dashboard(results[r]).checks
    BY Zenon DEF DashboardAgrees
  <2>1. results[r] \in Seq(Outcomes)
    BY DEF TypeOK
  <2>. QED
    BY <1>1, <2>1, Zenon
<1>. QED
  BY <1>2, TypeCorrect, PTL

---------------------------------------------------------------------------
(* The implementation of ReportLog *)

LEMMA FateValues ==
  ASSUME NEW there \in Locations, NEW v
  PROVE  /\ there \in {"new", "rules", "insert"} => FateOf(there, v) = "open"
         /\ there \in {"saved", "unanswered"} => FateOf(there, v) = "recorded"
         /\ there = "lost" => FateOf(there, v) = "gone"
         /\ there = "done" => FateOf(there, v) = IF v[1] = "ok" THEN "recorded" ELSE "refused"
BY DEF FateOf, Locations

\* A step of one run decides its own fate and no other.
LEMMA FateMoves ==
  ASSUME TypeOK, NEW r \in Runs, NEW there, NEW v,
         Goto(r, there), output' = [output EXCEPT ![r] = v]
  PROVE  /\ Fate[r] = FateOf(pc[r], output[r])
         /\ Fate' = [Fate EXCEPT ![r] = FateOf(there, v)]
BY DEF Fate, Goto, TypeOK

LEMMA FateStays == ASSUME UNCHANGED <<pc, output>> PROVE UNCHANGED Fate
BY DEF Fate

LEMMA WrittenStays == ASSUME UNCHANGED reports PROVE UNCHANGED Written
BY DEF Written

\* A row more in the table is a run more in the log.
LEMMA WrittenGrows ==
  ASSUME NEW s \in Seq(Rows), NEW row \in Rows
  PROVE  LET t == Append(s, row)
         IN [i \in DOMAIN t |-> t[i].run] = Append([i \in DOMAIN s |-> s[i].run], row.run)
<1>. DEFINE t == Append(s, row)
            a == [i \in DOMAIN s |-> s[i].run]
            b == [i \in DOMAIN t |-> t[i].run]
<1>1. Len(s) \in Nat /\ DOMAIN s = 1..Len(s) /\ DOMAIN t = 1..(Len(s) + 1)
  OBVIOUS
<1>2. \A x \in Rows : x.run \in Runs \cup {None}
  BY RowsSummaries
<1>3. a \in Seq(Runs \cup {None}) /\ Len(a) = Len(s)
  <2>1. a \in [1..Len(s) -> Runs \cup {None}]
    BY <1>1, <1>2
  <2>. HIDE DEF a
  <2>. QED
    BY <1>1, <2>1
<1>4. DOMAIN Append(a, row.run) = 1..(Len(s) + 1)
  BY <1>3
<1>5. \A i \in 1..(Len(s) + 1) : b[i] = Append(a, row.run)[i]
  BY <1>1, <1>3
<1>6. b \in [1..(Len(s) + 1) -> Runs \cup {None}]
  <2>1. \A i \in DOMAIN t : t[i] \in Rows
    OBVIOUS
  <2>. QED
    BY <1>1, <1>2, <2>1
<1>. QED
  BY <1>1, <1>3, <1>4, <1>5, <1>6

LEMMA CallingStutters ==
  ASSUME IInv, NEW r \in Runs, Calling(r)
  PROVE  UNCHANGED Written /\ (UNCHANGED Fate \/ Log!Refuse(r))
<1>. USE DEF IInv
<1>1. pc[r] = "new" /\ UNCHANGED reports
  BY DEF Calling, NoInput, Malformed, Start, tableVars
<1>2. UNCHANGED Written
  BY <1>1, WrittenStays
<1>3. Fate \in [Runs -> {FateOf(pc[q], output[q]) : q \in Runs}]
  BY DEF Fate
<1>4. ASSUME NEW k \in 1..MaxChunk, NoInput(r, k) PROVE Log!Refuse(r)
  <2>. DEFINE v == [i \in 1..k |-> IF i = 1 THEN "no input" ELSE "unwritten"]
  <2>1. 1 \in DOMAIN v /\ v[1] # "ok"
    BY BoundAssumption
  <2>. HIDE DEF v
  <2>2. Goto(r, "done") /\ output' = [output EXCEPT ![r] = v]
    BY <1>4 DEF NoInput, v
  <2>3. Fate[r] = FateOf(pc[r], output[r]) /\ Fate' = [Fate EXCEPT ![r] = FateOf("done", v)]
    BY <2>2, FateMoves
  <2>4. FateOf(pc[r], output[r]) = "open" /\ FateOf("done", v) = "refused"
    BY <1>1, <2>1, FateValues DEF Locations
  <2>. QED
    BY <1>2, <2>3, <2>4 DEF Log!Refuse
<1>5. ASSUME NEW k \in 1..MaxChunk,
             Malformed(r, k) \/ \E n \in Sizes[r] : Start(r, k, n)
      PROVE  UNCHANGED Fate
  <2>. DEFINE v == [i \in 1..k |-> "unwritten"]
  <2>1. Goto(r, "rules") /\ output' = [output EXCEPT ![r] = v]
    BY <1>5 DEF Malformed, Start, Chunk
  <2>. HIDE DEF v
  <2>2. Fate[r] = FateOf(pc[r], output[r]) /\ Fate' = [Fate EXCEPT ![r] = FateOf("rules", v)]
    BY <2>1, FateMoves
  <2>3. FateOf(pc[r], output[r]) = "open" /\ FateOf("rules", v) = "open"
    BY <1>1, FateValues DEF Locations
  <2>. QED
    BY <1>3, <2>2, <2>3
<1>. QED
  BY <1>2, <1>4, <1>5 DEF Calling

LEMMA RunningRefines ==
  ASSUME IInv, NEW r \in Runs, Running(r)
  PROVE  \/ UNCHANGED <<Written, Fate>>
         \/ Log!Record(r) \/ Log!Refuse(r)
<1>. USE DEF IInv
<1>1. Fate \in [Runs -> {FateOf(pc[q], output[q]) : q \in Runs}]
  BY DEF Fate
<1>2. pc[r] \in Locations /\ output = [output EXCEPT ![r] = output[r]]
  BY DEF TypeOK
<1>3. ASSUME NEW message \in Messages, pc[r] # "new", Finish(r, message)
      PROVE  /\ Fate[r] = FateOf(pc[r], output[r])
             /\ Fate' = [Fate EXCEPT ![r] = IF message = "ok" THEN "recorded" ELSE "refused"]
  <2>. DEFINE v == ReplaceAt(output[r], 1, message)
  <2>1. v[1] = message
    BY <1>3 DEF OutputReady, ReplaceAt
  <2>2. Goto(r, "done") /\ output' = [output EXCEPT ![r] = v]
    BY <1>3 DEF Finish
  <2>. HIDE DEF v
  <2>3. FateOf("done", v) = IF message = "ok" THEN "recorded" ELSE "refused"
    BY <2>1, FateValues DEF Locations
  <2>4. Fate[r] = FateOf(pc[r], output[r]) /\ Fate' = [Fate EXCEPT ![r] = FateOf("done", v)]
    BY <2>2, FateMoves
  <2>. QED
    BY <2>3, <2>4
<1>4. CASE Evaluate(r)
  BY <1>4, FateStays, WrittenStays DEF Evaluate, tableVars
<1>5. CASE Create(r)
  <2>1. Goto(r, "insert") /\ pc[r] = "rules" /\ UNCHANGED <<output, reports>>
    BY <1>5 DEF Create, Evaluated
  <2>2. Fate[r] = "open" /\ Fate' = [Fate EXCEPT ![r] = "open"]
    BY <1>2, <2>1, FateMoves, FateValues DEF Locations
  <2>. QED
    BY <1>1, <2>1, <2>2, WrittenStays
<1>6. CASE Insert(r)
  <2>1. /\ Goto(r, "saved") /\ pc[r] = "insert" /\ UNCHANGED output
        /\ reports' = Append(reports, Report(r, clock))
    BY <1>6 DEF Insert
  <2>2. Fate[r] = "open" /\ Fate' = [Fate EXCEPT ![r] = "recorded"]
    BY <1>2, <2>1, FateMoves, FateValues DEF Locations
  <2>3. Written' = Append(Written, r)
    <3>1. reports \in Seq(Rows) /\ Report(r, clock) \in Rows /\ Report(r, clock).run = r
      BY ReportType DEF TypeOK, Report
    <3>. QED
      BY <2>1, <3>1, WrittenGrows DEF Written
  <2>. QED
    BY <2>2, <2>3 DEF Log!Record
<1>7. CASE CreateFails(r) \/ InsertFails(r)
  <2>1. pc[r] \in {"rules", "insert"} /\ Finish(r, "failed") /\ UNCHANGED reports
    BY <1>7 DEF CreateFails, InsertFails, Evaluated, tableVars
  <2>2. Fate[r] = "open" /\ Fate' = [Fate EXCEPT ![r] = "refused"]
    BY <1>2, <1>3, <2>1, FateValues DEF Messages
  <2>. QED
    BY <2>1, <2>2, WrittenStays DEF Log!Refuse
<1>8. CASE Answer(r)
  <2>1. pc[r] = "saved" /\ Finish(r, "ok") /\ UNCHANGED reports
    BY <1>8 DEF Answer, tableVars
  <2>2. Fate[r] = "recorded" /\ Fate' = [Fate EXCEPT ![r] = "recorded"]
    BY <1>2, <1>3, <2>1, FateValues DEF Messages
  <2>. QED
    BY <1>1, <2>1, <2>2, WrittenStays
<1>. QED
  BY <1>4, <1>5, <1>6, <1>7, <1>8 DEF Running

\* A crash takes the runs that were evaluating or had yet to insert.
LEMMA CrashRefines ==
  ASSUME IInv, Crash
  PROVE  Log!Crash
<1>. DEFINE S == {r \in Runs : pc[r] \in {"rules", "insert"}}
<1>1. pc \in [Runs -> Locations] /\ UNCHANGED <<reports, output>>
  BY DEF IInv, TypeOK, Crash, tableVars
<1>2. ASSUME NEW r \in Runs
      PROVE  /\ r \in S => FateOf(pc[r], output[r]) = "open"
             /\ FateOf(pc'[r], output[r]) = IF r \in S THEN "gone" ELSE FateOf(pc[r], output[r])
  <2>1. pc[r] \in Locations
    BY <1>1
  <2>2. CASE r \in S
    <3>1. pc'[r] = "lost"
      BY <2>2 DEF Crash
    <3>. QED
      BY <2>1, <2>2, <3>1, FateValues DEF Locations
  <2>3. CASE pc[r] = "saved"
    <3>1. pc'[r] = "unanswered"
      BY <2>3 DEF Crash
    <3>. QED
      BY <2>3, <3>1, FateValues DEF Locations
  <2>4. CASE r \notin S /\ pc[r] # "saved"
    <3>1. pc'[r] = pc[r]
      BY <2>4 DEF Crash
    <3>. QED
      BY <2>4, <3>1
  <2>. QED
    BY <2>2, <2>3, <2>4
<1>3. S \in SUBSET {r \in Runs : Fate[r] = "open"}
  BY <1>2 DEF Fate
<1>4. Fate' = [r \in Runs |-> IF r \in S THEN "gone" ELSE Fate[r]]
  BY <1>1, <1>2 DEF Fate
<1>5. UNCHANGED Written
  BY <1>1, WrittenStays
<1>. HIDE DEF S
<1>. QED
  BY <1>3, <1>4, <1>5 DEF Log!Crash

LEMMA StepRefines ==
  ASSUME IInv, [Next]_vars
  PROVE  [Log!Next]_Log!lvars
<1>. USE DEF Log!Next, Log!lvars
<1>1. CASE \E r \in Runs : Calling(r) \/ Running(r)
  BY <1>1, CallingStutters, RunningRefines
<1>2. CASE BindReports \/ ScanReports \/ Tick \/ UNCHANGED vars
  <2>1. UNCHANGED <<pc, output, reports>>
    BY <1>2 DEF BindReports, ScanReports, Tick, vars, runVars, tableVars
  <2>. QED
    BY <2>1, FateStays, WrittenStays
<1>3. CASE DropTable
  <2>1. UNCHANGED <<pc, output>> /\ reports' = <<>>
    BY <1>3 DEF DropTable, runVars
  <2>2. Written' = <<>>
    BY <2>1 DEF Written
  <2>. QED
    BY <2>1, <2>2, FateStays DEF Log!Empty
<1>4. CASE Crash
  BY <1>4, CrashRefines
<1>. QED
  BY <1>1, <1>2, <1>3, <1>4 DEF Next

\* dq_run keeps the promise of ReportLog: a caller that reads a summary can rely
\* on the report, one that reads "failed" on its absence, whatever crashes.
THEOREM Implementation == Spec => LogSpec
<1>1. Init => Log!Init
  BY DEF Init, Log!Init, Written, Fate, FateOf
<1>2. IInv /\ [Next]_vars => [Log!Next]_Log!lvars
  BY StepRefines
<1>. QED
  BY <1>1, <1>2, Invariance, PTL DEF Spec, LogSpec, Log!Spec
=============================================================================
