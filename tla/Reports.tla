------------------------------- MODULE Reports -------------------------------
(***************************************************************************)
(* dq_run, dq_reports and dq_dashboard (lib.rs) on a database that several *)
(* sessions use and that may crash.  dq_run evaluates a rule set one rule  *)
(* at a time, each under its own acquisition of the engine's mutex, then   *)
(* persists one report with two statements sent as one: CREATE TABLE IF    *)
(* NOT EXISTS and INSERT commit apart, with the mutex held across both.    *)
(* DuckDB calls it with a chunk of rows.  dq_reports reads the table when  *)
(* it is bound and hands its rows out one scan call at a time.             *)
(*                                                                         *)
(* What a rule finds is left open here; Rules and RuleRun say it.  The     *)
(* database is a file: what is committed outlives a crash.                 *)
(***************************************************************************)
EXTENDS Naturals, FiniteSets, SequencesExt

CONSTANTS Runs,         \* calls of dq_run_fn, each on one chunk
          Sizes,        \* Sizes[r]: how many rules the rule set of r may have
          MaxChunk,     \* bound: rows of a chunk
          MaxClock,     \* bound: what now() reaches
          MaxCrashes,   \* bound: crashes of the process
          MaxDrops,     \* bound: times a session drops dq_reports
          None          \* owner of a free mutex, run of an error row

ASSUME NoneAssumption == None \notin Runs
ASSUME SizesAssumption == Sizes \in [Runs -> SUBSET Nat]
ASSUME BoundAssumption == /\ MaxChunk \in Nat \ {0} /\ MaxClock \in Nat
                          /\ MaxCrashes \in Nat /\ MaxDrops \in Nat

VARIABLES pc,           \* pc[r]: where run r stands in dq_run_fn
          left,         \* left[r]: rules run_rules has still to evaluate
          results,      \* results[r]: outcomes so far
          checked,      \* checked[r]: the time of r's latest check
          output,       \* output[r]: the output vector, one entry per row
          writer,       \* the run inside the run_exec that persists, or None
          exists,       \* the table dq_reports exists
          reports,      \* its rows, in the order of their commits
          clock,        \* what now() returns
          listing,      \* rows the latest dq_reports() has bound
          shown,        \* rows of them its scan has emitted
          crashes, drops

tableVars == <<exists, reports>>
listVars == <<listing, shown>>
bounds == <<crashes, drops>>
runVars == <<pc, left, results, checked, output>>
vars == <<runVars, writer, tableVars, clock, listVars, bounds>>

\* An AssertionResult, by its fields passed and error: "described" is a failed
\* rule whose error field says by how much, "error" one not evaluated.
Outcomes == {"pass", "fail", "described", "error"}
HasError(o) == o \in {"described", "error"}

Count(s, P(_)) == Cardinality({i \in DOMAIN s : P(s[i])})
Passed(s) == Count(s, LAMBDA o : o = "pass")
Failed(s) == Count(s, LAMBDA o : ~ HasError(o) /\ o # "pass")
Errors(s) == Count(s, HasError)

\* Faulty variant: errors do not count against the run.
SummaryForgiving(s) ==
  [total |-> Len(s), passed |-> Passed(s), failed |-> Failed(s),
   errors |-> Errors(s), all |-> Failed(s) = 0]

\* The summary of a report, and passed_all.
Summary(s) ==
  [total |-> Len(s), passed |-> Passed(s), failed |-> Failed(s),
   errors |-> Errors(s), all |-> Failed(s) = 0 /\ Errors(s) = 0]

Report(r, at) == [run |-> r, at |-> at, summary |-> Summary(results[r])]
ErrorRow == [run |-> None, at |-> 0, summary |-> Summary(<<>>)]

\* Faulty variant: the failures panel lists only the rules with an error.
DashboardOfErrors(s) ==
  [checks |-> Len(s), passed |-> Passed(s), failed |-> Failed(s),
   failedPanel |-> Failed(s) + Errors(s),
   failures |-> {i \in DOMAIN s : HasError(s[i])}]

\* The row of dq_dashboard, the panels it draws, and the rules it lists as failures.
Dashboard(s) ==
  [checks |-> Len(s), passed |-> Passed(s), failed |-> Failed(s),
   failedPanel |-> Failed(s) + Errors(s),
   failures |-> {i \in DOMAIN s : s[i] # "pass" \/ HasError(s[i])}]

Locations == {"new", "rules", "insert", "saved", "done", "lost", "unanswered"}
Messages == {"unwritten", "no input", "ok", "failed"}

Init ==
  /\ pc = [r \in Runs |-> "new"]
  /\ left = [r \in Runs |-> 0]
  /\ results = [r \in Runs |-> <<>>]
  /\ checked = [r \in Runs |-> 0]
  /\ output = [r \in Runs |-> <<>>]
  /\ writer = None
  /\ exists = FALSE /\ reports = <<>>
  /\ clock = 0
  /\ listing = <<>> /\ shown = <<>>
  /\ crashes = 0 /\ drops = 0

Goto(r, there) == pc' = [pc EXCEPT ![r] = there]
\* write_str(0, ..): the function fills the first row of its output.
Finish(r, message) ==
  /\ Goto(r, "done")
  /\ output' = [output EXCEPT ![r] = ReplaceAt(@, 1, message)]

---------------------------------------------------------------------------
(* dq_run_fn *)

\* The chunk arrives with k rows, all of the output unwritten.
Chunk(r, k) == output' = [output EXCEPT ![r] = [i \in 1..k |-> "unwritten"]]

\* The first row is NULL in its name.
NoInput(r, k) ==
  /\ pc[r] = "new"
  /\ Goto(r, "done")
  /\ output' = [output EXCEPT ![r] = [i \in 1..k |-> IF i = 1 THEN "no input" ELSE "unwritten"]]
  /\ UNCHANGED <<left, results, checked, writer, tableVars, clock, listVars, bounds>>

\* run_rules on JSON that does not parse, or is no object: one error, no query.
Malformed(r, k) ==
  /\ pc[r] = "new"
  /\ Goto(r, "rules")
  /\ Chunk(r, k)
  /\ results' = [results EXCEPT ![r] = <<"error">>]
  /\ checked' = [checked EXCEPT ![r] = clock]
  /\ UNCHANGED <<left, writer, tableVars, clock, listVars, bounds>>

\* run_rules on an object of n rules.
Start(r, k, n) ==
  /\ pc[r] = "new"
  /\ Goto(r, "rules")
  /\ Chunk(r, k)
  /\ left' = [left EXCEPT ![r] = n]
  /\ checked' = [checked EXCEPT ![r] = clock]
  /\ UNCHANGED <<results, writer, tableVars, clock, listVars, bounds>>

\* Faulty variant: the loop over the rules runs once too often.
EvaluateOneMore(r) ==
  /\ pc[r] = "rules"
  /\ writer = None
  /\ left' = [left EXCEPT ![r] = @ - 1]
  /\ \E o \in Outcomes : results' = [results EXCEPT ![r] = Append(@, o)]
  /\ checked' = [checked EXCEPT ![r] = clock]
  /\ UNCHANGED <<pc, output, writer, tableVars, clock, listVars, bounds>>

\* The next rule, through the engine: while another run persists, it waits.
Evaluate(r) ==
  /\ pc[r] = "rules" /\ left[r] > 0
  /\ writer = None
  /\ left' = [left EXCEPT ![r] = @ - 1]
  /\ \E o \in Outcomes : results' = [results EXCEPT ![r] = Append(@, o)]
  /\ checked' = [checked EXCEPT ![r] = clock]
  /\ UNCHANGED <<pc, output, writer, tableVars, clock, listVars, bounds>>

Evaluated(r) == pc[r] = "rules" /\ left[r] = 0

\* run_exec takes the mutex; CREATE TABLE IF NOT EXISTS commits.
Create(r) ==
  /\ Evaluated(r)
  /\ writer = None
  /\ writer' = r
  /\ exists' = TRUE
  /\ Goto(r, "insert")
  /\ UNCHANGED <<left, results, checked, output, reports, clock, listVars, bounds>>

\* No connection, or the first statement fails: the second is not executed.
CreateFails(r) ==
  /\ Evaluated(r)
  /\ writer = None
  /\ Finish(r, "failed")
  /\ UNCHANGED <<left, results, checked, writer, tableVars, clock, listVars, bounds>>

\* Faulty variant: run_at is the time the rules were evaluated, not now().
InsertStampedEarly(r) ==
  /\ pc[r] = "insert" /\ exists
  /\ reports' = Append(reports, Report(r, checked[r]))
  /\ writer' = None
  /\ Goto(r, "saved")
  /\ UNCHANGED <<left, results, checked, output, exists, clock, listVars, bounds>>

\* INSERT commits, run_at DEFAULT now(), and run_exec returns Ok.
Insert(r) ==
  /\ pc[r] = "insert" /\ exists
  /\ reports' = Append(reports, Report(r, clock))
  /\ writer' = None
  /\ Goto(r, "saved")
  /\ UNCHANGED <<left, results, checked, output, exists, clock, listVars, bounds>>

\* Faulty variant: the result of run_exec is ignored.
InsertFailsUnseen(r) ==
  /\ pc[r] = "insert"
  /\ writer' = None
  /\ Finish(r, "ok")
  /\ UNCHANGED <<left, results, checked, tableVars, clock, listVars, bounds>>

\* Faulty variant: the guard is not dropped when the statement fails.
InsertFailsLocked(r) ==
  /\ pc[r] = "insert"
  /\ Finish(r, "failed")
  /\ UNCHANGED <<left, results, checked, writer, tableVars, clock, listVars, bounds>>

\* INSERT fails: the table is gone again, a conflict, a full disk.
InsertFails(r) ==
  /\ pc[r] = "insert"
  /\ writer' = None
  /\ Finish(r, "failed")
  /\ UNCHANGED <<left, results, checked, tableVars, clock, listVars, bounds>>

Answer(r) ==
  /\ pc[r] = "saved"
  /\ Finish(r, "ok")
  /\ UNCHANGED <<left, results, checked, writer, tableVars, clock, listVars, bounds>>

---------------------------------------------------------------------------
(* dq_reports *)

NewestFirst(s) == \A i, j \in DOMAIN s : i < j => s[i].at >= s[j].at

\* What the query returns: ORDER BY run_at DESC leaves equal times in any order.
Answers(l) == IF exists THEN l \in SetToSeqs(ToSet(reports)) /\ NewestFirst(l)
                        ELSE l = <<ErrorRow>>

\* dq_reports_bind: the whole table, read once.
BindReports ==
  /\ writer = None
  /\ \E l \in {<<ErrorRow>>} \cup SetToSeqs(ToSet(reports)) :
       Answers(l) /\ listing' = l
  /\ shown' = <<>>
  /\ UNCHANGED <<runVars, writer, tableVars, clock, bounds>>

\* Faulty variant: the scan reads the table again for each row.
ScanReportsLive ==
  /\ Len(shown) < Len(listing)
  /\ writer = None
  /\ \E l \in {<<ErrorRow>>} \cup SetToSeqs(ToSet(reports)) :
       /\ Answers(l) /\ Len(shown) < Len(l)
       /\ shown' = Append(shown, l[Len(shown) + 1])
  /\ UNCHANGED <<runVars, writer, tableVars, clock, listing, bounds>>

\* reports_scan: one row of what was bound.
ScanReports ==
  /\ Len(shown) < Len(listing)
  /\ shown' = Append(shown, listing[Len(shown) + 1])
  /\ UNCHANGED <<runVars, writer, tableVars, clock, listing, bounds>>

---------------------------------------------------------------------------
(* Around them (external) *)

Tick == /\ clock < MaxClock
        /\ clock' = clock + 1
        /\ UNCHANGED <<runVars, writer, tableVars, listVars, bounds>>

\* A session drops the table, at any moment: it does not take the mutex.
DropTable ==
  /\ exists /\ drops < MaxDrops
  /\ exists' = FALSE /\ reports' = <<>>
  /\ drops' = drops + 1
  /\ UNCHANGED <<runVars, writer, clock, listVars, crashes>>

\* The process dies and starts again on the same file.
Crash ==
  /\ crashes < MaxCrashes
  /\ crashes' = crashes + 1
  /\ pc' = [r \in Runs |-> CASE pc[r] \in {"rules", "insert"} -> "lost"
                             [] pc[r] = "saved" -> "unanswered"
                             [] OTHER -> pc[r]]
  /\ writer' = None
  /\ listing' = <<>> /\ shown' = <<>>
  /\ UNCHANGED <<left, results, checked, output, tableVars, clock, drops>>

\* What a run does by itself once it has been called.
Running(r) == \/ Evaluate(r) \/ Create(r) \/ CreateFails(r)
              \/ Insert(r) \/ InsertFails(r) \/ Answer(r)

Calling(r) == \E k \in 1..MaxChunk :
                \/ NoInput(r, k) \/ Malformed(r, k)
                \/ \E n \in Sizes[r] : Start(r, k, n)

Next == \/ \E r \in Runs : Calling(r) \/ Running(r)
        \/ BindReports \/ ScanReports
        \/ Tick \/ DropTable \/ Crash

Spec == Init /\ [][Next]_vars

\* A called run is scheduled and its statements are answered.
FairSpec == Spec /\ \A r \in Runs : WF_vars(Running(r))

---------------------------------------------------------------------------
(* Properties *)

Rows == [run : Runs \cup {None}, at : 0..MaxClock,
         summary : [total : Nat, passed : Nat, failed : Nat, errors : Nat, all : BOOLEAN]]
TypeOK ==
  /\ pc \in [Runs -> Locations]
  /\ left \in [Runs -> Nat]
  /\ results \in [Runs -> Seq(Outcomes)]
  /\ checked \in [Runs -> 0..MaxClock]
  /\ output \in [Runs -> Seq(Messages)]
  /\ writer \in Runs \cup {None}
  /\ exists \in BOOLEAN
  /\ reports \in Seq(Rows)
  /\ clock \in 0..MaxClock
  /\ listing \in Seq(Rows) /\ shown \in Seq(Rows)
  /\ crashes \in 0..MaxCrashes /\ drops \in 0..MaxDrops

\* README "Run rule set, persist one report row, return summary": the summary
\* of a report accounts for each rule of its run once, and says that the run
\* passed only when every rule was evaluated and passed.
ReportsAreTrue ==
  \A i \in DOMAIN reports :
    LET s == reports[i].summary
        found == results[reports[i].run]
    IN /\ s.total = Len(found) /\ s.total = s.passed + s.failed + s.errors
       /\ s.all <=> ToSet(found) \subseteq {"pass"}

\* dq_reports orders by run_at: that is the order in which the reports were
\* committed, and no report is older than a check it rests on, though runs
\* evaluate at the same time and finish in any order.
StampsFollowCommits ==
  /\ \A i, j \in DOMAIN reports : i < j => reports[i].at <= reports[j].at
  /\ \A i \in DOMAIN reports : checked[reports[i].run] <= reports[i].at

\* dq_reports "persisted run history": one call lists a run once and the newest
\* first, though runs persist and sessions drop the table while it scans.
ListingIsCoherent ==
  /\ NewestFirst(shown)
  /\ \A i, j \in DOMAIN shown : shown[i].run = shown[j].run => i = j

\* The dashboard of a rule set and the report of the same outcomes agree on
\* whether everything passed, whichever of its panels is read.
DashboardAgrees ==
  \A r \in Runs : Evaluated(r) =>
    LET d == Dashboard(results[r])
    IN /\ Summary(results[r]).all <=> d.failures = {}
       /\ d.failedPanel = Cardinality(d.failures)
       /\ d.passed + d.failedPanel = d.checks

\* dq_run's promise to its callers: see ReportLog.  The caller that reads a
\* summary can rely on the report, the caller that reads "failed" on its absence.
Written == [i \in DOMAIN reports |-> reports[i].run]
FateOf(there, v) ==
  CASE there \in {"new", "rules", "insert"} -> "open"
    [] there \in {"saved", "unanswered"} -> "recorded"
    [] there = "lost" -> "gone"
    [] there = "done" -> IF v[1] = "ok" THEN "recorded" ELSE "refused"
Fate == [r \in Runs |-> FateOf(pc[r], output[r])]
Log == INSTANCE ReportLog WITH written <- Written, fate <- Fate
LogSpec == Log!Spec

\* Every call returns, unless the process dies under it.
RunsReturn == \A r \in Runs : (pc[r] # "new") ~> (pc[r] \in {"done", "lost", "unanswered"})

\* README "dq_run: Run rule set, persist one report row, return summary": a
\* scalar function returns its value for each row it is called on.
EveryRowAnswered ==
  \A r \in Runs : pc[r] = "done" => "unwritten" \notin ToSet(output[r])
=============================================================================
