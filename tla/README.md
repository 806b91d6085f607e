# duckdb_dq in TLA+

duckdb_dq is a DuckDB extension in Rust (`src/src/`): SQL functions that check
the quality of a table (`expect_*`), run a JSON set of such checks
(`validate_expectations`, `dq_run`, `dq_dashboard`, `dq_federated`), keep a
history of runs (`dq_reports`) and propose checks (`profile_table`,
`dq_suggest`). All of them send SQL through one secondary connection. This
directory models the extension in TLA+, checks the models with TLC and proves
theorems about them with TLAPS. Line numbers below are those of
`src/src/{engine,validate,lib}.rs` and `src/src/bm25/*.rs`.

To run it, with this directory as the current one:

    tlc -workers 2 -config engine.cfg MCEngine
    tlapm EngineProofs.tla

## 1. Inventory

### Persistent connection (`engine.rs`)

*State.* Two statics of the process: `DB_STORE`, the database handle, and
`CONN`, a mutex around an optional connection. *Operations.* `init_early`
(once per LOAD, before any function is registered), `with_conn` under
`run_query_rows` and `run_exec`. *Interaction.* Every other component calls it,
from any thread on which DuckDB binds a table function or executes a scalar one.
*Hard.* The mutex is held for a whole statement and is not reentrant; the two
statics are stored apart, and every database of the process shares them; a
failed connect at LOAD is repaired lazily. *Correct when* one caller at a time
uses the connection, `unwrap` never meets `None`, no connection is leaked or
closed, a call returns, and each call is answered from one committed state of
one database.

### Rules (`validate.rs`) and standalone assertions (`lib.rs` 36-891)

*State.* None that is kept: each check sends one or two statements and makes an
`AssertionResult`. *Operations.* The 32 rule names in the arms of `run_rules`, over
the helper `count_rows`; the 28 `expect_*` bind functions, which repeat the same SQL
with typed arguments. *Hard.* Three-valued logic (`NOT IN`, `<`, `OR` with NULL),
empty aggregates parsed as NaN or defaults, statements that fail, lists, patterns
and fractional bounds that the two implementations read differently, a catalog that
lists every table of a name, and above all two statements that see two different
committed states. *Correct when* a verdict is one the table deserved at some instant
of the check, nothing that could not be evaluated passes, the counts are true, and
the two implementations agree.

### `dq_run`, `dq_reports`, `dq_dashboard` (`lib.rs` 1080-1263, 1374-1419)

*State.* The table `dq_reports` in the user's database, and the rows a listing
has bound. *Operations.* Evaluate a rule set, classify the results, `CREATE
TABLE IF NOT EXISTS` and `INSERT`; list the history; draw a dashboard of the
results. *Hard.* The two statements commit apart and on a connection that is
not the caller's; the process may die between or after them, a session may drop
the table; runs overlap; a chunk has many rows. *Correct when* a summary
returned means a report kept and a failure returned means none, the report
tells what the run found, the history is in the order of its commits, and a
listing is coherent.

### `validate_expectations` (1066-1078)

The table function around `run_rules`: binds, then scans the results. *State.* The
rows of the call and a cursor. *Hard.* The rules are the members of a JSON object,
and the parser keeps the last of two equal keys. *Correct when* every name handed
over is answered once, for the column that was kept, and a call ends.

### `dq_federated` (1265-1372)

*State.* One view `dq_fed_<source>` per source, in the main catalog, left behind
after the call; the rows of the call and a cursor. *Operations.* For each source,
create or replace the view and run the rule set on it; scan. *Hard.* Concurrent
calls, and source names that sanitize to the same identifier, replace each other's
views between the CREATE and the checks; a source that fails must not stop the rest.
*Correct when* every source is accounted for, in order, and a row tells of its own
source.

### `profile_table`, `dq_suggest` (893-1064)

`SUMMARIZE`, and thresholds on its output that propose rules with ready-to-run
parameters. *Hard.* The distinct count is an estimate; the row count and the
summary are two statements, and the rule runs later still; a failing statement
gives no row. *Correct when* a suggested rule is one `run_rules` can run, and it
fails on the table it was suggested for.

### Registration (1421-1796)

Declares the parameters of 35 functions; `init_early` comes first.

### BM25 index (`bm25/`)

*State.* Postings, document lengths, counts, texts; two backends (an inverted
index, tantivy) behind one global mutex. *Operations.* index, remove, reset,
stemmer on/off, search, export, import. *Hard.* Counts, lengths and postings are
updated one by one as documents come, are replaced and go; the stemmer can be
switched over a filled index; tantivy deletes by the words of an id, not by the
id; a snapshot of one backend may be read by the other. *Correct when* the
incremental index is the rebuilt one, no count wraps or is lost, search finds
what has a term of the query, and both backends are one index. The modules are
not compiled in this commit: `lib.rs` declares no `mod bm25` and `Cargo.toml` has
none of their dependencies. They are modelled as the library they are, and the
SQL functions that `mod.rs` names are taken to make one call each.

### The rest

SQL scripts under `test/` and at the top, build files, and the vendored
`extension-ci-tools`: no part of the program.

## 2. Modules

| Module | Models | State and actions |
|---|---|---|
| `QueryService` | the abstract engine | versions of the databases, one request and one answer per caller; `Read`/`Write` answer at one instant |
| `Engine` | `engine.rs` | `dbStore`, `conn`, `lock` are the statics; `load`/`fresh` the progress of `init_early`; `pc` the place of each thread in `with_conn`; one action per step between two visible effects |
| `EngineProofs` | | theorems about `Engine` |
| `Sql` | what the statements ask of DuckDB (external) | three-valued conditions, COUNT, aggregates as exact fractions |
| `Rules` | the arms of `run_rules` | one operator per arm: a verdict as a function of the snapshots of its statements |
| `Expectations` | the `expect_*` bind functions | one operator per function, over the shapes of `Rules` |
| `RuleRun` | one check among committing sessions | `FirstStatement`, `SecondStatement`, and the commits of others; a reference definition of each rule |
| `ReportLog` | the abstract report history | the runs written, and the fate of each run |
| `Reports` | `dq_run`, `dq_reports`, `dq_dashboard` | per run its place, outcomes and output vector; the table, the clock, a listing; crashes and drops |
| `ReportsProofs` | | theorems about `Reports` |
| `RuleRunProofs` | | theorems about `RuleRun`, `Rules` and `Expectations` |
| `Federated` | `dq_federated` | per call its place, the sources still to visit, the rules left, its rows; the views of the catalog; one action per statement, answered or failing |
| `FederatedProofs` | | theorems about `Federated` |
| `InductionLemmas` | | induction stated for sets, sums and flattened sequences, for the modules of proofs |
| `Suggest` | `dq_suggest`, `profile_table`, `validate_expectations` | one user, who calls the three in turn and hands suggestions back; `pc` the next step of the call, `rows` and `cursor` its bind data, `todo` the members of the object still to check |
| `SuggestProofs` | | theorems about `Suggest` |
| `Bm25Snapshot` | `bm25/mod.rs` | the snapshot both backends share |
| `Bm25Index` | the abstract index | the text of each id |
| `Handrolled` | `bm25/handrolled.rs` | `index` is the struct without its stemmer; one action per call, import document by document |
| `Tantivy` | `bm25/tantivy.rs` | `live` counts the documents of the tantivy index, `books` is what the struct keeps by hand |
| `Bm25Backends` | both backends under the same calls | the snapshot exported last, by either |
| `HandrolledProofs`, `Bm25Proofs` | | lemmas on snapshots and theorems about the inverted index; about tantivy, and about the two together |
| `MCEngine`, `MCRuleRun`, `MCReports`, `MCFederated`, `MCSuggest`, `MCBm25` | | the instances TLC checks |

`Engine` implements `QueryService`, and `RuleRun` and `Reports` use the engine
through what `QueryService` says of it: a statement is one step, on one
committed snapshot, and consecutive statements are separate steps. `Reports`
keeps the engine's mutex where it spans two visible steps (`writer`, between
CREATE and INSERT). `RuleRun` EXTENDS `Expectations`, which EXTENDS `Rules` and
`Sql`; `Reports` abstracts a rule to its outcome, which `RuleRun` studies.
`Federated` abstracts a rule further, to the table that each of its statements
read, and takes no mutex: each of its statements goes through the engine on its
own. `Suggest` EXTENDS `Rules`, so that a suggestion is judged by the very arms of
`run_rules`. `Bm25Backends` EXTENDS `Handrolled` and `Tantivy`, and each of them
implements `Bm25Index` (for `Tantivy`, on plain ids).
Operators named "Faulty variant" are plausible bugs of the definition that
follows them; no specification uses them. They serve to show that each property
would catch one.

### What is abstracted

- *Engine*: contents of a database are a version number; a connection is its
  position in the list of all connections made; copying cells into strings is left
  out. The null handle the host may pass, a failed connect at LOAD, and a failed
  lazy connect are all possible outcomes.
- *Rules*: a column holds `Null` or small integers that stand for values. A date
  format or a custom WHERE is the set of values it accepts. A list is a set of
  texts, each named by an integer, the value it is the text of; how a text is cut at
  its commas, trimmed and stripped of quotes is a function (`Split`, `Trim`,
  `Unquote`), with texts in the instance that each of them changes. The JSON array
  has items that are strings and items that are not. A pattern is the set of values
  it matches as it was written (`values`), and the set it matches once its quotes
  have been put into the statement undoubled (`raw`), which is `NoAnswer` when no
  SQL is left. A statement may be answered from what is committed, or fail: no such
  table, no such column, a cast or a pattern refused, no connection. The code makes
  no difference between these, nor does the model. The catalog may list a table of
  the same name in another schema (`elsewhere`), before the checked one or after it;
  qualified table names, for which the catalog finds nothing, are not modelled. An
  aggregate is a fraction, compared exactly: rounding of doubles is not modelled,
  and bounds stay within `-Big..Big`. A quantile is in 0..1, outside which DuckDB
  refuses the statement. Quotes that are doubled are not modelled: they come out of
  SQL as they went in. The rowid order of a table is the order of its rows.
- *Federated*: a foreign table is a source and a table name; a statement on a view
  may fail at any time, because the source is remote. The two forms of the first
  argument, a JSON array and a comma-separated text, are one sequence with items
  that are ignored.
- *Suggest*: the table has `Width` columns and one of a few named contents; the
  estimate of the distinct values is off by at most `Inexact` percent of their
  number, rounded up, as one of HyperLogLog is. Severities, reasons and the
  statistics of a profile are left out.
- *BM25*: the terms of a text are given, with the stemmer on and off. A score is
  abstracted to whether it is positive. `len` of a text is its bytes in tantivy and
  its terms in the other backend. Results of the tantivy writer, which the code
  discards with `let _ =`, are successes.
- *Reports*: names, JSON text and message wording are left out. The database is a
  file, so committed data outlives a crash; for an in-memory database a crash also
  empties the table. `now()` never goes back.

## 3. Runs

| Run | Instance | Shows |
|---|---|---|
| `engine` | 2 databases, 3 callers (one whose statement calls a dq function), 2 calls each, 1 commit per database | the invariants and promises below, for every interleaving of two LOADs, calls, failures and commits |
| `rules` | every rule and the variants of its parameters (lists of texts with a comma, a blank, quotes or nothing in them, numbers in lists, patterns that change or break when their quotes are not doubled, fractional bounds), every table of up to 3 rows over values 1, 2 and NULL, missing tables, namesakes in the catalog, four states of the referenced keys, statements that fail, 2 commits of others | what a verdict says of the table (2.0 million states) |
| `reports` | 2 runs (an empty set or two rules; one rule), 1 crash, 1 drop, a clock of two instants | what the history can be trusted for |
| `federated` | 2 calls, of 2 and 2 sources out of `pg-a`, `pg_a` (one view name) and `my`; rules of none, one and two statements; any source or statement fails; 1 view dropped | whose table a row tells of, and that every source is accounted for |
| `bm25` | 2 plain ids and one that is cut into these two, 2 texts (one that stemming changes, one CJK), at most 3 documents, snapshots of at most 2 | bookkeeping of both backends, their agreement, `Bm25Index` |
| `suggest` | 7 contents of the table on both sides of each threshold, an estimate off by 2%, rule sets of at most 2 suggestions, 1 commit of another session, statements that fail | the round trip of a suggestion |
| `engine_one_connection` | two LOADs | violation: see findings |
| `unique_race`, `orphans` | one rule | violations: see findings |
| `reports_chunk` | one run, chunks of 1 or 2 rows | violation: see findings |
| `federated_shared` | the instance of `federated` | violation: see findings |
| `suggest_in_set` | the instance of `suggest`, every statement answered | violation: see findings |

### Engine

`MutualExclusion` is the SAFETY comment of line 25. `UnwrapSucceeds` says that
`guard.as_mut().unwrap()` finds a connection. `HandlesBounded`: at most one
connection per LOAD is ever opened, since the lazy connect only stands in for
a failed early one. `NeverDisconnected` and `SettledConnection`: a connection is never
lost, and is fixed once every LOAD is over. `SelfBlockedIsFinal`: only a thread
whose own statement calls a dq function can wait for itself, and it then keeps
everyone out for good. `CallsReturn` is the liveness promise, conditional on no
thread having blocked itself. `ServiceSpec` is the refinement of `QueryService`.

Two databases are what makes the statics shared, a third caller makes lock
contention and a self-blocked thread coexist, and a second call of the same thread
shows that locks and connections survive a call; a commit per database suffices
to tell a fresh answer from a stale one.

*Fairness.* Weak fairness of each running thread and of each LOAD in progress:
threads are scheduled, and DuckDB answers a statement, with rows or an error. No
fairness for calling, loading or committing. `std::sync::Mutex` promises no
order among waiters; weak fairness suffices because the number of calls is
bounded, so a waiter cannot be overtaken forever.

`CHECK_DEADLOCK FALSE` in the runs whose calls are bounded: nobody has to call,
so the system may stop; a thread that waits for itself is also such a state.
`bm25` and `suggest` check for deadlock, since a call can always be made there.

### Rules

`Meets` and `Offends` in `RuleRun` say what each rule means, from README's table
and not from the SQL: the median, for one, is read off a ranking of the rows.
`VerdictIsWitnessed`: a verdict is one the table deserved at some instant between
the first statement and the last, or one of them failed. What is excepted has a
name: `Disabled` (a NULL among the referenced keys switches the relationship check
off), `CountsNothing` (the columns of a missing table are counted as 0), `Namesake`
(the catalog lists a table of that name in another schema) and `Misread` (an item of
a list that is no string, a pattern whose quotes are not doubled).
`UniqueExactWhenQuiet`: when both statements of the uniqueness rule see the same
contents, it passes exactly on a column in which no value is repeated and none is
NULL, and `failed_count` is the number of rows that repeat a value plus the number of
NULLs. README.md:10 speaks of duplicates only: whether a NULL in a column without
duplicates should fail, as it does, is for its authors to say.
`CountsAreWitnessed`: `row_count` and `failed_count` are true, of possibly different
instants. `PassesAreAnswered`: an assertion passes only on answers, each from a table
that was there (`CountsNothing` and `Namesake` apart); whichever statement fails, for
whatever reason, the result says so, in its error or, for the second statement
of the uniqueness rule, by a count of -1.
`BatchAgreesWithStandalone`: on the same replies, a rule of `run_rules` reports
what the `expect_*` function reports of the rule as `run_rules` reads it. `AsRead` says
how it is read: a fractional bound of a count or a length is dropped, and so is an
item of a list that is no string; a pattern is the one its undoubled quotes leave. The
functions clean a list that they take as one text, and agree only on lists that this
leaves as they are (`Separable`), on patterns that leave some SQL, and on two
columns or more; the length rule differs in `failed_count`. Without these conditions
the two do not agree.

Three rows are the least with a NULL between two values, or a duplicate pair and
one more value; two commits around a two-statement check are the least that change a table
and change it back.

### Reports

`ReportsAreTrue` ties the summary and the passed flag of each row to the outcomes of
its run. `StampsFollowCommits`: `run_at` is nondecreasing in commit order and not
before the run's own last check, so `ORDER BY run_at DESC` is newest first.
`ListingIsCoherent`: a listing shows no run twice and stays in order while runs
persist and the table is dropped under it. `DashboardAgrees`: the failures panel,
the failed number and the report's passed flag are consistent. `LogSpec` refines
`ReportLog`: a summary returned means the report was committed, "failed" means it
never is, reports are only added. `RunsReturn`: a run that started returns unless
the process dies.

*Fairness.* Weak fairness of each started run, for the reasons given for the engine.
The mutex is released after every statement pair and the runs are finite in
number, so a waiting run is not shut out forever.

### Federated

`ForeignReadsAreRaces`: a row tells of a foreign table other than its own only if
that table is one of a call that ran at the same time, over a source of the same
view name. Two namesakes within one call, and views left behind by earlier calls,
never do it. `RowsAccountForSources`: when the bind is over, the rows are, source
by source in the order of the argument, one `connect` row or one row per rule.
`BindsReturn`: the bind ends, whatever fails.

Two calls are what a race needs; one of them visits both namesakes, so that the loop
replaces its own view, and a dropped view is the shortest way to a missing one.
Rules of zero, one and two statements are all there are.

*Fairness.* Weak fairness of the bind of each call: the loop waits for nobody but
the engine, which answers each statement. None for fetching rows.

### BM25

`IncrementalIsRebuilt`: postings, lengths and the document count are those that a
rebuild from the kept texts would give, each text cut with the stemmer of its own
indexing. `FoundAsIndexed` says what this means for a search after a switch of the
stemmer: the query is cut one way and the document another, so a document of the
very words of the query may not be found, until it is indexed again.
`TotalsAreExact`: no `usize` decrement goes below zero, and no saturation of the
tantivy backend hides one. `ScoresArePositive`: each posting list has at least one
and at most `doc_count` documents, so `idf` is positive, and the average length is
not zero. `PlainIdsHoldOnce`, `TantivyIsIndex` and `BackendsAgree` hold for *plain*
ids, which the default tokenizer of the `id` field leaves as they are: `delete_term`
(tantivy.rs:121, 147) deletes the documents whose id contains the *word* it is
given. An id such as `doc-1` or `Doc` is therefore never deleted by its own name,
and is deleted with the id `doc`. The properties say how far that goes: the
documents of plain ids are right whatever is done to the others. `HandrolledIsIndex`
and `TantivyIsIndex` are the refinements of `Bm25Index`, call by call: an `IndexDoc`
must be an `Index` of the same id and text, a switch of the stemmer must show
nothing, and an import is the `Restore` of the whole snapshot at its first step.
`RestoredAsSaved`: whoever wrote the snapshot, both get the documents back.

Three documents and an id that is cut into the two others are the least that
let one deletion hit two documents and miss a third.

### Suggest

`SuggestedChecksFail`: a suggested check that passes proves that the table was
changed since, the in-set suggestion apart, which has no values yet.
`SuggestedChecksRun` demands of every suggestion that it can be run, and is
violated by that one. `MembersAnswered`:
each name handed over is answered once, for the last column handed over with it,
and a passed check was true of contents committed during the call.
`CallsEnd`: every call of the three functions ends.

The contents are exactly 10% and more than 10% NULL, four and five rows of few
values, 100 and 101 rows of one value, none, and no table at all; a rule set of two
is the least with a repeated name.

*Fairness.* Weak fairness of the work of the call that is running, none for
calling or committing. The user fetches the result to its end.

## 4. Findings

1. `engine_one_connection`: a second LOAD in the process replaces the
   connection (engine.rs:41), against "keeps ONE connection ... and reuses it for
   every assertion query" (README.md:96). Assertions of the first database
   are then answered by the second.
2. `unique_race`: `expect_unique` passes although the column had a duplicate at
   every instant, when another session commits between its two statements
   (validate.rs:128, lib.rs:105).
3. `orphans`: `expect_relationship` passes on orphans once the referenced column
   holds a NULL (validate.rs:252, lib.rs:266).
4. `reports_chunk`: `dq_run` over several rows runs and answers only the first
   row of each chunk (lib.rs:1131).
5. `federated_shared`: the views of `dq_federated` are permanent, shared, and
   named after the sanitized source alone (lib.rs:1312), against "For every source a
   temp view ... is created ... and per-source results are emitted" (lib.rs:1268).
   Two calls at the same time over one name read each other's tables.
6. `suggest_in_set`: the in-set suggestion of `dq_suggest` always ends in "values
   list is empty", since it is written with `value_set` (lib.rs:1025) and read with
   `values` (validate.rs:200), against "suggestions feed straight into
   `validate_expectations`" (README.md:43) and "ready-to-run params" (README.md:86).

More disagreements were met that have no run of their own. Nine rules describe an
ordinary failure in the error field (validate.rs:365, 501, 530, 555, 597, 618, 641,
674, 703), and the dashboard does not count them as failed (lib.rs:1163), though
lib.rs:1139 says "rules failed". `expect_unique` counts a NULL as a duplicate, of
which README.md:10 says nothing (`UniqueExactWhenQuiet`). Of two suggestions with
the same rule name, only the last is run (`MembersAnswered`). The comment
at validate.rs:11 says that each rule "dispatches to the same underlying SQL counting
helpers as the standalone expect_* functions"; `AsRead` and `Separable` name what
the two make differently of one argument (`BatchAgreesWithStandalone`).
tantivy.rs:118 says "Index or replace one document by (id, text)": an id that is
not one lower-case word is not replaced (`PlainIdsHoldOnce`).

## 5. Proofs

`EngineProofs` holds for any sets of databases and callers and any bounds, from
the four assumptions of `Engine` (each caller belongs to a database, the
reentrant callers are callers, the bounds are naturals, `None` is neither a
database nor a caller). The inductive invariant `IInv` is the type invariant with
three facts: whoever is between `lock()` and the drop of the guard owns the
lock; `init_early` only stores a connection that was made; a caller about to
query has a connection. The first is needed because `MutualExclusion` alone
does not say that a free lock has no holder; the second because the store of
`init_early` would otherwise be allowed to put `None` into `CONN` under a
caller's feet; the third is `UnwrapSucceeds` itself. From `IInv` follow
`TypeCorrect`, `Exclusion`, `Unwrap`, the two action properties
`ConnectionStays` and `ConnectionSettles`, and `Implementation`: every step of
`Engine` is a step of `QueryService` or leaves its variables alone.
`HandlesStayBounded` needs a count besides: by `Counting`, as many connections are
open as LOADs have connected, or one more that a lazy connect opened for a LOAD
whose own connect failed; it is the one proof that uses that there are
finitely many databases. `SelfBlockingIsFinal` is an action property: a thread
that waits for itself owns the lock, and of the steps of a thread only that of
the owner can release it, so the state of a blocked thread is never left.

`ReportsProofs` holds for any set of runs, any rule sets, chunks and bounds, from
the three assumptions of `Reports` (`NoneAssumption`, `SizesAssumption`,
`BoundAssumption`: `None` is not a run, rule sets have natural sizes, a chunk
has at least one row). `CountsPartition` says that the three filters of
`dq_run_fn` put each outcome in exactly one class. The inductive invariant `IInv` is the
type invariant with four facts. `RowsSettled`: a row belongs to a run that is
past its statements, tells what that run found, and was stamped between its last
check and now; this is what keeps the row true, since such a run evaluates no
more. `RowsOrdered` is the order itself, which needs "not after now" of
`RowsSettled` to survive the next insert. `ChecksPast`: no check is later than
now. `OutputReady`: a called run has a first output row, without which writing
its message would change nothing and its fate would be undefined. Most steps
satisfy `Frame` (they leave the runs that have rows alone), so one lemma serves
them all and only `Insert` needs an argument of its own. From `IInv` follow
`TypeCorrect`, `ReportsTell`, `StampsFollow`, and `Implementation`: `Insert`
is `Record`, the failures and the NULL name are `Refuse`, `Crash` is `Crash` on
the runs still evaluating or about to insert, `DropTable` is `Empty`, every
other step stutters.

`ListingCoheres` rests on
`ListingInv` (no run has two rows, the listing is newest first, what was shown is a
prefix of it), and `DashboardsAgree` on `CountsPartition`.

`RuleRunProofs` holds for any cases, tables, keys and commits, from the assumptions
that the cases are rules with contents of the table, that rows and keys hold
integers and `Null`, that the texts of lists are cleaned into texts, that a failed
statement is no table of the catalog, and that the bounds are naturals. Its invariant
`RInv` is the types, "a table that has gone does not come back", and `Progress`:
each reply is that of contents committed since the check began, or a failure, and
the verdict is `Verdict` of the first and the last of them. From this every property
is one of the operators of `Rules`: the counts of `count_rows` are cardinalities of
sets of rows of their snapshots (`CountsWitnessed`); on one snapshot, the rows less
the distinct values are the rows that repeat a value and those that are NULL, which
goes by induction over the rows (`RepeatsCounted`, `UniqueWhenQuiet`); arm by arm, a
failed statement fails the rule (`PassesAnswered`). `BatchAgrees` compares each arm with
its function on the rule as it is read: a separable list is the set of its strings
after either cleaning (`SeparableLists`), the undoubled pattern is the `values` of
`AsRead`, and a fractional bound takes the default on both sides.

`VerdictsWitnessed` goes through the rules one by one, since each pairs a SQL text
with a meaning of its own. The rules that judge one row at a time offend exactly
where the statement counts, and what their second statement read is one of the
contents seen. For the others there is a lemma (`...Judged`): the rule passes
exactly when its statement found the table and `Meets` holds; for the two rules that
ask the catalog, when no other table has the name. `min` and `max` need the least
and the greatest of a finite set of integers; `sum` and `avg` that the fold over the
cells is the total over the rows; `stddev` that n times the sum of squares less
the square of the sum is the sum of the squared deviations, divided by n
(`Spread`). For `median` and `quantile`, the k-th ranked value as `Sql` defines it, by
counting smaller values, is the k-th of any ranking (`RankedValue`), and a ranking
exists (`RankingExists`). `sorted` compares neighbours only, and the order of
any two values without NULL between them follows by induction along the interval.
Beyond the types it assumes that bounds lie within `-Big..Big`, where "no bound"
is indeed no bound, that a quantile is in 0..1, as DuckDB requires, and that lengths are
naturals up to `Big`.

`FederatedProofs` holds for any calls, sources, rule sets and drops, from the
assumptions that type the constants of `Federated`. The invariant
adds to the types that running calls have met (`RunningHaveMet`), that a call has a
source and a rule where it uses one (`Placed`), and that the view of the
current source of a call, and what a first statement has read, is the call's own, a
rival's or gone (`ViewsAreReadable`); the last is what the rows inherit.
`OwnTablesOnly` concludes that calls over different sanitized names never disturb
one another. `EverySourceIsTold` needs what the rows are in the middle of a bind:
by `Accounted` they are the rows due for the sources already visited, then one for
each rule of the current source that has been checked, so that with no rule and
no source left they are the flattened list of the property.

`HandrolledProofs` proves `RebuiltFrom` inductive: removing a document from the
rebuilt index of some texts gives the rebuilt index of the others, and adding one
that is not held likewise, since a posting depends on one document alone.
`ScoresStayPositive` follows: no posting list of a rebuilt index is empty, each is a
part of the documents, and a document in one has at least one term, which the total
length counts. `Bm25Proofs` proves that a plain id has exactly one document of
tantivy while the books know it (`PlainIdsAreHeldOnce`); calls on other ids leave it
alone, because `delete_term(id)` deletes a document only if `id` is a word of its
id, and a plain id has no word but itself. Then it puts the backends side by side:
the two indexes always hold the same ids and, for plain ones, the same texts, and
the saved snapshot has the texts of its time; an export of either backend keeps this
because it lists a plain id once. `TotalsStayExact` is the books of both backends:
the total is the sum of the lengths of the ids held, so a length that is subtracted
was once added, and neither the unchecked decrement of one nor the saturating one of
the other ever goes below zero. Both refinements are proved for any ids, texts and
snapshots; each backend alone is `HandrolledProofs!ImplementsIndex` and
`Bm25Proofs!TantivyImplementsIndex`.

`SuggestProofs` holds for any contents, any number of columns, objects and
commits, and an estimate of the distinct values that is off by at most 98 percent,
which is as much as the thresholds bear: 100 rows with less than one estimated
value in a hundred must have a value twice. The invariant `IInv` follows a
suggestion on its way. `SuggestionsFail`: as long as nobody has changed the table,
what is being collected by `dq_suggest`, offered to the user or handed over fails
on the contents committed; `SignalsFail` shows it for each threshold and
`FailingRow` draws the consequence, for statements that see those contents or
fail. `ReadWell`: between its two statements a rule has read
something committed during the call. `Answered`: the rows so far answer exactly the
members no longer to check, and a row that passed was true of contents committed
during the call. With no member left this is `MembersAnswered`, since the last of
equal names exists and is the only one kept (`MembersType`).

`InductionLemmas` is what these proofs have in common. The library's induction
theorems take a predicate as a parameter; `NatGrowth` and `SetGrowth` say the same
of a set, "a set of naturals that has 0 and with n also n + 1 is all of them",
which each use instantiates with the set of what has been shown. With it the
folds of the community modules can be unfolded: that the recursive function on the
parts of a finite set exists (`FoldExists`), that it does not depend on the order in
which elements are taken (`SumTakesAny`), and what one more element, or one less,
does to a sum; and likewise for `FlattenSeq`. It also has the least and the greatest
of a finite set of integers, a sorted ranking of finitely many of them, and the two
forms of the spread around a mean.

Every safety property of the passing runs is thereby a theorem. Only model-checked
are the liveness properties (`CallsReturn`, `CallsEnd`,
`RunsReturn`, `BindsReturn`): fairness speaks of what is ENABLED, which the
prover cannot treat.

## 6. Plan

1. `CallsEnd` for several users at a time.
2. A fault model of the tantivy writer, if the module is compiled one day and the
   discarded results are given a meaning.

## 7. Not modelled

The declarations of `register` are glue without state. Quoting of names, and of
values where the code doubles their quotes, the layout of JSON and messages, the
rounding of doubles, the numeric value of a BM25 score, the segmenter and the
stemmers are left out: no property here is about them. A failed commit of the
tantivy writer is ignored by the code, which promises nothing about it. SQL test
scripts and the build and CI files are no part of the program.
