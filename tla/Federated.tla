----------------------------- MODULE Federated -----------------------------
(***************************************************************************)
(* dq_federated (lib.rs): for every source of its argument, a view over    *)
(* universal_foreign_table is created in the main catalog, and the whole   *)
(* rule set is run against that view.  CREATE OR REPLACE VIEW and each     *)
(* statement of each rule go through the engine one at a time, so the      *)
(* calls of several sessions interleave between any two of them.  The name *)
(* of the view is made from the source alone, sanitized: not from the      *)
(* table, nor from the call; and no view is ever dropped.                  *)
(*                                                                         *)
(* What a rule finds is left to Rules and RuleRun: what matters here is    *)
(* which foreign table each of its statements has read.                    *)
(***************************************************************************)
EXTENDS Integers, FiniteSets, SequencesExt

CONSTANTS Calls,        \* calls of dq_federated, each made once
          Sources,      \* names of universal connections
          NoName,       \* an item that is no string, or a blank piece of text
          Argument,     \* Argument[c]: the items of sources_json
          Table,        \* Table[c]: the foreign table
          Rules,        \* Rules[c]: the number of statements of each rule
          Name,         \* Name[s]: sanitize(s)
          Absent,       \* a view that does not exist
          MaxDrops      \* bound: views dropped by sessions

ASSUME NoNameAssumption == NoName \notin Sources
ASSUME ArgumentAssumption == Argument \in [Calls -> Seq(Sources \cup {NoName})]
ASSUME TableAssumption == DOMAIN Table = Calls
\* A rule set that does not parse is answered by one row and no statement.
ASSUME RulesAssumption == Rules \in [Calls -> Seq(0..2)]
ASSUME NameAssumption == DOMAIN Name = Sources
ASSUME BoundAssumption == MaxDrops \in Nat

VARIABLES pc,           \* pc[c]: "new", "sources", "rules", "second" or "done"
          todo,         \* todo[c]: positions of the sources to visit, the current one first
          left,         \* left[c]: rules of the current source to evaluate
          first,        \* first[c]: what the first statement of a rule has read
          rows,         \* rows[c]: FederatedState.rows
          shown,        \* shown[c]: the rows the scan has emitted
          views,        \* views[n]: the foreign table that dq_fed_<n> selects
          met,          \* history: the calls that have run beside c
          drops

callVars == <<pc, todo, left, first, rows, shown>>
vars == <<callVars, views, met, drops>>

Target(c, s) == [source |-> s, table |-> Table[c]]
Targets == {Target(c, s) : c \in Calls, s \in Sources}
ASSUME AbsentAssumption == Absent \notin Targets

\* The array's strings, or the comma-separated names; the rest is ignored.
Strings(c) == {i \in DOMAIN Argument[c] : Argument[c][i] # NoName}
Visited(c) == {Argument[c][i] : i \in Strings(c)}

Current(c) == Argument[c][Min(todo[c])]
Others(c) == todo[c] \ {Min(todo[c])}
View(c) == Name[Current(c)]

\* Faulty variant: the rule is counted after it has been taken off the list.
PositionAfter(c) == Len(Rules[c]) - Len(left[c]) + 2
Position(c) == Len(Rules[c]) - Len(left[c]) + 1

Running(c) == pc[c] \in {"sources", "rules", "second"}
Bound(c) == pc[c] = "sources" /\ todo[c] = {}

Init ==
  /\ pc = [c \in Calls |-> "new"]
  /\ todo = [c \in Calls |-> {}]
  /\ left = [c \in Calls |-> <<>>]
  /\ first = [c \in Calls |-> Absent]
  /\ rows = [c \in Calls |-> <<>>]
  /\ shown = [c \in Calls |-> <<>>]
  /\ views = [n \in {Name[s] : s \in Sources} |-> Absent]
  /\ met = [c \in Calls |-> {}]
  /\ drops = 0

Goto(c, there) == pc' = [pc EXCEPT ![c] = there]
\* rows.push(..): the rule at a position, and the tables its statements read.
Push(c, rule, reads) ==
  rows' = [rows EXCEPT ![c] = Append(@, [source |-> Current(c), rule |-> rule, reads |-> reads])]
\* The verdict of the current rule: on to the next one.
Answer(c, reads) ==
  /\ Push(c, Position(c), reads)
  /\ left' = [left EXCEPT ![c] = Tail(@)]

---------------------------------------------------------------------------
(* dq_federated_bind *)

Start(c) ==
  /\ pc[c] = "new"
  /\ Goto(c, "sources")
  /\ todo' = [todo EXCEPT ![c] = Strings(c)]
  /\ met' = [b \in Calls |-> met[b] \cup IF b = c THEN {a \in Calls \ {c} : Running(a)}
                                       ELSE IF Running(b) THEN {c} ELSE {}]
  /\ UNCHANGED <<left, first, rows, shown, views, drops>>

\* Faulty variant: CREATE VIEW IF NOT EXISTS.
CreateViewOnce(c) ==
  /\ pc[c] = "sources" /\ todo[c] # {}
  /\ views' = [views EXCEPT ![View(c)] = IF @ = Absent THEN Target(c, Current(c)) ELSE @]
  /\ left' = [left EXCEPT ![c] = Rules[c]]
  /\ Goto(c, "rules")
  /\ UNCHANGED <<todo, first, rows, shown, met, drops>>

\* CREATE OR REPLACE VIEW dq_fed_<name>.
CreateView(c) ==
  /\ pc[c] = "sources" /\ todo[c] # {}
  /\ views' = [views EXCEPT ![View(c)] = Target(c, Current(c))]
  /\ left' = [left EXCEPT ![c] = Rules[c]]
  /\ Goto(c, "rules")
  /\ UNCHANGED <<todo, first, rows, shown, met, drops>>

\* Faulty variant: the loop is left at the first source that cannot be bound.
CreateViewFailsAll(c) ==
  /\ pc[c] = "sources" /\ todo[c] # {}
  /\ Push(c, 0, {})
  /\ todo' = [todo EXCEPT ![c] = {}]
  /\ UNCHANGED <<pc, left, first, shown, views, met, drops>>

\* The source cannot be reached or has no such table: one row, `connect'.
CreateViewFails(c) ==
  /\ pc[c] = "sources" /\ todo[c] # {}
  /\ Push(c, 0, {})
  /\ todo' = [todo EXCEPT ![c] = Others(c)]
  /\ UNCHANGED <<pc, left, first, shown, views, met, drops>>

\* Each rule of run_rules: none, one or two statements.
NextRule(c, statements) == /\ pc[c] = "rules" /\ left[c] # <<>>
                           /\ Head(left[c]) \in statements

NoStatement(c) ==
  /\ NextRule(c, {0})
  /\ Answer(c, {})
  /\ UNCHANGED <<pc, todo, first, shown, views, met, drops>>

OnlyStatement(c) ==
  /\ NextRule(c, {1})
  /\ views[View(c)] # Absent
  /\ Answer(c, {views[View(c)]})
  /\ UNCHANGED <<pc, todo, first, shown, views, met, drops>>

FirstStatement(c) ==
  /\ NextRule(c, {2})
  /\ views[View(c)] # Absent
  /\ first' = [first EXCEPT ![c] = views[View(c)]]
  /\ Goto(c, "second")
  /\ UNCHANGED <<todo, left, rows, shown, views, met, drops>>

\* The view is gone, or the source does not answer.
StatementFails(c) ==
  /\ NextRule(c, {1, 2})
  /\ Answer(c, {})
  /\ UNCHANGED <<pc, todo, first, shown, views, met, drops>>

SecondStatement(c) ==
  /\ pc[c] = "second"
  /\ views[View(c)] # Absent
  /\ Answer(c, {first[c], views[View(c)]})
  /\ Goto(c, "rules")
  /\ UNCHANGED <<todo, first, shown, views, met, drops>>

\* Faulty variant: the rule is started again.
SecondStatementRetries(c) ==
  /\ pc[c] = "second"
  /\ Goto(c, "rules")
  /\ UNCHANGED <<todo, left, first, rows, shown, views, met, drops>>

SecondStatementFails(c) ==
  /\ pc[c] = "second"
  /\ Answer(c, {first[c]})
  /\ Goto(c, "rules")
  /\ UNCHANGED <<todo, first, shown, views, met, drops>>

NextSource(c) ==
  /\ pc[c] = "rules" /\ left[c] = <<>>
  /\ todo' = [todo EXCEPT ![c] = Others(c)]
  /\ Goto(c, "sources")
  /\ UNCHANGED <<left, first, rows, shown, views, met, drops>>

---------------------------------------------------------------------------
(* write_federated: one row per call, then none *)

Emit(c) ==
  /\ Bound(c) /\ Len(shown[c]) < Len(rows[c])
  /\ shown' = [shown EXCEPT ![c] = Append(@, rows[c][Len(@) + 1])]
  /\ UNCHANGED <<pc, todo, left, first, rows, views, met, drops>>

EmitNothing(c) ==
  /\ Bound(c) /\ Len(shown[c]) = Len(rows[c])
  /\ Goto(c, "done")
  /\ UNCHANGED <<todo, left, first, rows, shown, views, met, drops>>

\* A session drops a view that a call has left behind (external).
DropView(n) ==
  /\ views[n] # Absent /\ drops < MaxDrops
  /\ views' = [views EXCEPT ![n] = Absent]
  /\ drops' = drops + 1
  /\ UNCHANGED <<callVars, met>>

Bind(c) == \/ CreateView(c) \/ CreateViewFails(c)
           \/ NoStatement(c) \/ OnlyStatement(c) \/ StatementFails(c)
           \/ FirstStatement(c) \/ SecondStatement(c) \/ SecondStatementFails(c)
           \/ NextSource(c)

Next == \/ \E c \in Calls : Start(c) \/ Bind(c) \/ Emit(c) \/ EmitNothing(c)
        \/ \E n \in DOMAIN views : DropView(n)

Spec == Init /\ [][Next]_vars

\* A call that has begun is scheduled and its statements are answered; the
\* session that made it need not fetch its rows.
FairSpec == Spec /\ \A c \in Calls : WF_vars(Bind(c))

---------------------------------------------------------------------------
(* Properties *)

Row(c) == [source : Visited(c), rule : 0..Len(Rules[c]), reads : SUBSET Targets]
TypeOK ==
  /\ pc \in [Calls -> {"new", "sources", "rules", "second", "done"}]
  /\ DOMAIN todo = Calls /\ \A c \in Calls : todo[c] \subseteq Strings(c)
  /\ left \in [Calls -> Seq(0..2)]
  /\ first \in [Calls -> Targets \cup {Absent}]
  /\ \A c \in Calls : rows[c] \in Seq(Row(c)) /\ shown[c] \in Seq(Row(c))
  /\ DOMAIN rows = Calls /\ DOMAIN shown = Calls
  /\ views \in [{Name[s] : s \in Sources} -> Targets \cup {Absent}]
  /\ met \in [Calls -> SUBSET Calls]
  /\ drops \in 0..MaxDrops

\* What another call may have put behind the view that c has made for s.
Rivals(c, s) ==
  UNION {{Target(b, t) : t \in {u \in Visited(b) : Name[u] = Name[s]}} : b \in met[c]}

\* A row tells of another foreign table than its own only because another call
\* ran at the same time and visited a source that sanitizes to the same name:
\* never because of two such sources in one call, nor of a view left behind.
ForeignReadsAreRaces ==
  \A c \in Calls : \A i \in DOMAIN rows[c] :
    LET row == rows[c][i]
    IN row.reads \subseteq {Target(c, row.source)} \cup Rivals(c, row.source)

\* lib.rs "For every source ... per-source results are emitted": the rows tell
\* of each source in turn, one row if it could not be bound and otherwise one
\* for each rule; a source that fails does not stop those after it.
Verdicts(c, s) == [k \in DOMAIN Rules[c] |-> <<s, k>>]
Told(c, failed, i) == LET s == Argument[c][i]
                      IN IF i \notin Strings(c) THEN << >>
                         ELSE IF i \in failed THEN <<<<s, 0>>>> ELSE Verdicts(c, s)
RowsAccountForSources ==
  \A c \in Calls : Bound(c) =>
    \E failed \in SUBSET Strings(c) :
      [i \in DOMAIN rows[c] |-> <<rows[c][i].source, rows[c][i].rule>>]
        = FlattenSeq([i \in DOMAIN Argument[c] |-> Told(c, failed, i)])

\* The bind of a call comes to an end, whatever fails on the way.
BindsReturn == \A c \in Calls : (pc[c] # "new") ~> (Bound(c) \/ pc[c] = "done")

\* lib.rs "For every source a temp view over universal_foreign_table is created,
\* the full rule set runs against it, and per-source results are emitted": the
\* rows of a source tell of that source's table.
EachSourceItsOwn ==
  \A c \in Calls : \A i \in DOMAIN rows[c] :
    rows[c][i].reads \subseteq {Target(c, rows[c][i].source)}
=============================================================================
