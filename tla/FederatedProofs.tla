-------------------------- MODULE FederatedProofs --------------------------
(***************************************************************************)
(* Theorems about Federated for any calls, sources, rule sets and drops:   *)
(* type correctness; that a row tells of a foreign table other than its    *)
(* own only by the doing of a call that ran beside it; and that calls      *)
(* whose sources sanitize to different names never disturb each other.     *)
(***************************************************************************)
EXTENDS Federated, InductionLemmas

\* Two calls that are running have met, and no call meets itself.
RunningHaveMet ==
  /\ \A b, c \in Calls : b # c /\ Running(b) /\ Running(c) => b \in met[c]
  /\ \A c \in Calls : c \notin met[c]

\* A call has a current source while it evaluates rules, and a current rule
\* between the two statements of one.
Placed ==
  \A c \in Calls :
    /\ pc[c] \in {"rules", "second"} => todo[c] # {}
    /\ pc[c] = "second" => left[c] # <<>>
    /\ Len(left[c]) <= Len(Rules[c])

\* The tables a statement of c may read, for the source s.
Readable(c, s) == {Target(c, s)} \cup Rivals(c, s)

\* While c evaluates rules, the view of its current source is its own, a
\* rival's, or gone; and so is what the first statement has read.
ViewsAreReadable ==
  \A c \in Calls :
    /\ pc[c] \in {"rules", "second"} =>
         views[View(c)] \in Readable(c, Current(c)) \cup {Absent}
    /\ pc[c] = "second" => first[c] \in Readable(c, Current(c))

\* The inductive invariant.
IInv == TypeOK /\ RunningHaveMet /\ Placed /\ ViewsAreReadable /\ ForeignReadsAreRaces

---------------------------------------------------------------------------
(* The current source *)

LEMMA MinIsIn ==
  ASSUME NEW S \in SUBSET Nat, S # {}
  PROVE  /\ Min(S) \in S
         /\ \A y \in S : Min(S) <= y
  BY LeastNat DEF Min

LEMMA CurrentIsVisited ==
  ASSUME TypeOK, NEW c \in Calls, todo[c] # {}
  PROVE  /\ Min(todo[c]) \in Strings(c)
         /\ Current(c) \in Visited(c)
         /\ Current(c) \in Sources
         /\ View(c) \in DOMAIN views
         /\ Target(c, Current(c)) \in Targets
<1>1. todo[c] \subseteq Strings(c) /\ Strings(c) \subseteq Nat
  BY ArgumentAssumption DEF TypeOK, Strings
<1>2. Min(todo[c]) \in Strings(c)
  BY <1>1, MinIsIn
<1>3. Current(c) \in Visited(c)
  BY <1>2 DEF Current, Visited
<1>4. Current(c) \in Sources
  BY <1>2, ArgumentAssumption DEF Current, Strings
<1>. QED
  BY <1>2, <1>3, <1>4 DEF View, Targets, TypeOK

\* What is readable for a call is a foreign table, and stays readable.
LEMMA ReadableGrows ==
  ASSUME NEW c \in Calls, NEW s, met[c] \subseteq met'[c]
  PROVE  Readable(c, s) \subseteq {Target(c, s)} \cup Rivals(c, s)'
BY DEF Readable, Rivals, Target

\* Rows are about foreign tables, whatever the history.
LEMMA RowsReadable ==
  ASSUME ForeignReadsAreRaces, NEW c \in Calls, NEW i \in DOMAIN rows[c]
  PROVE  rows[c][i].reads \subseteq Readable(c, rows[c][i].source)
  BY DEF ForeignReadsAreRaces, Readable

---------------------------------------------------------------------------
(* The rows *)

\* A row pushed for the current source keeps the rows in their type.
LEMMA PushType ==
  ASSUME TypeOK, NEW c \in Calls, todo[c] # {},
         NEW k \in 0..Len(Rules[c]), NEW reads \in SUBSET Targets, Push(c, k, reads)
  PROVE  /\ DOMAIN rows' = Calls
         /\ \A b \in Calls : rows'[b] \in Seq(Row(b))
<1> DEFINE row == [source |-> Current(c), rule |-> k, reads |-> reads]
<1>1. row \in Row(c)
  BY CurrentIsVisited DEF Row
<1>2. rows' = [rows EXCEPT ![c] = Append(@, row)]
  BY DEF Push
<1>3. Append(rows[c], row) \in Seq(Row(c))
  BY <1>1 DEF TypeOK
<1>. QED
  BY <1>2, <1>3 DEF TypeOK

\* A row pushed with readable tables keeps the rows free of foreign reads.
LEMMA PushReadable ==
  ASSUME TypeOK, ForeignReadsAreRaces, NEW c \in Calls, UNCHANGED met,
         NEW k, NEW reads, Push(c, k, reads), reads \subseteq Readable(c, Current(c))
  PROVE  ForeignReadsAreRaces'
<1> DEFINE row == [source |-> Current(c), rule |-> k, reads |-> reads]
<1>1. rows' = [rows EXCEPT ![c] = Append(@, row)]
  BY DEF Push
<1>2. SUFFICES ASSUME NEW b \in Calls, NEW i \in DOMAIN rows'[b]
               PROVE  rows'[b][i].reads \subseteq Readable(b, rows'[b][i].source)
  <2>1. \A b \in Calls : \A s : Readable(b, s)' = Readable(b, s)
    BY DEF Readable, Rivals, Target
  <2>. QED
    BY <2>1 DEF ForeignReadsAreRaces, Readable
<1>3. CASE b # c \/ i \in DOMAIN rows[b]
  <2>1. i \in DOMAIN rows[b] /\ rows'[b][i] = rows[b][i]
    BY <1>1, <1>2, <1>3 DEF TypeOK
  <2>. QED
    BY <2>1, RowsReadable
<1>4. CASE b = c /\ i \notin DOMAIN rows[b]
  <2>1. rows'[b][i] = row
    BY <1>1, <1>2, <1>4 DEF TypeOK
  <2>. QED
    BY <2>1, <1>4
<1>. QED
  BY <1>3, <1>4

---------------------------------------------------------------------------
(* Each step keeps the types *)

LEMMA InitIInv == ASSUME Init PROVE IInv
<1>1. TypeOK
  BY BoundAssumption DEF Init, TypeOK
<1>. QED
  BY <1>1, RulesAssumption
     DEF Init, IInv, RunningHaveMet, Running, Placed, ViewsAreReadable, ForeignReadsAreRaces

LEMMA StartTypeOK ==
  ASSUME TypeOK, NEW c \in Calls, Start(c)
  PROVE  TypeOK'
<1>1. pc' \in [Calls -> {"new", "sources", "rules", "second", "done"}]
  BY DEF TypeOK, Start, Goto
<1>2. DOMAIN todo' = Calls /\ \A b \in Calls : todo'[b] \subseteq Strings(b)
  BY DEF TypeOK, Start
<1>3. met' \in [Calls -> SUBSET Calls]
  BY DEF TypeOK, Start
<1>. QED
  BY <1>1, <1>2, <1>3 DEF TypeOK, Start, Row

\* The tables that a statement of the rule under way has read.
LEMMA ReadsAreTargets ==
  ASSUME TypeOK, Placed, NEW c \in Calls, pc[c] \in {"rules", "second"}
  PROVE  /\ todo[c] # {}
         /\ views[View(c)] \in Targets \cup {Absent}
         /\ first[c] \in Targets \cup {Absent}
         /\ left[c] # <<>> => Position(c) \in 0..Len(Rules[c])
         /\ left[c] # <<>> => /\ Tail(left[c]) \in Seq(0..2)
                              /\ Len(Tail(left[c])) <= Len(Rules[c])
<1>1. todo[c] # {}
  BY DEF Placed
<1>2. View(c) \in DOMAIN views
  BY <1>1, CurrentIsVisited
<1>3. left[c] \in Seq(0..2) /\ Len(left[c]) <= Len(Rules[c]) /\ Rules[c] \in Seq(0..2)
  BY RulesAssumption DEF TypeOK, Placed
<1>4. left[c] # <<>> => Len(left[c]) > 0
  BY <1>3
<1>. QED
  BY <1>1, <1>2, <1>3, <1>4 DEF TypeOK, Position

\* A rule answered from readable tables keeps the invariant.
LEMMA AnswerIInv ==
  ASSUME IInv, NEW c \in Calls, pc[c] \in {"rules", "second"}, left[c] # <<>>,
         NEW reads \in SUBSET Targets, reads \subseteq Readable(c, Current(c)),
         Answer(c, reads), pc' = [pc EXCEPT ![c] = "rules"],
         UNCHANGED <<todo, first, shown, views, met, drops>>
  PROVE  IInv'
<1>. USE DEF IInv
<1>1. Push(c, Position(c), reads) /\ left' = [left EXCEPT ![c] = Tail(@)]
  BY DEF Answer
<1>2. DOMAIN rows' = Calls /\ \A b \in Calls : rows'[b] \in Seq(Row(b))
  BY <1>1, ReadsAreTargets, PushType
<1>3. left' \in [Calls -> Seq(0..2)] /\ \A b \in Calls : Len(left'[b]) <= Len(Rules[b])
  BY <1>1, ReadsAreTargets DEF TypeOK, Placed
<1>4. pc' \in [Calls -> {"new", "sources", "rules", "second", "done"}]
  BY DEF TypeOK
<1>5. TypeOK'
  BY <1>2, <1>3, <1>4 DEF TypeOK, Row
<1>6. Placed'
  BY <1>1, <1>3 DEF Placed, TypeOK
<1>7. RunningHaveMet'
  BY DEF RunningHaveMet, Running, TypeOK
<1>8. ViewsAreReadable'
  <2>1. \A b \in Calls : View(b)' = View(b) /\ Readable(b, Current(b))' = Readable(b, Current(b))
    BY DEF View, Current, Readable, Rivals, Target
  <2>2. \A b \in Calls : pc'[b] \in {"rules", "second"} => pc[b] \in {"rules", "second"}
    BY DEF TypeOK
  <2>3. \A b \in Calls : pc'[b] = "second" => pc[b] = "second"
    BY DEF TypeOK
  <2>. QED
    BY <2>1, <2>2, <2>3 DEF ViewsAreReadable
<1>9. ForeignReadsAreRaces'
  BY <1>1, PushReadable
<1>. QED
  BY <1>5, <1>6, <1>7, <1>8, <1>9

\* A step that leaves the views and the rows alone, whatever calls meet.
LEMMA OldRowsReadable ==
  ASSUME ForeignReadsAreRaces, UNCHANGED rows, \A c \in Calls : met[c] \subseteq met'[c]
  PROVE  ForeignReadsAreRaces'
<1>. SUFFICES ASSUME NEW c \in Calls, NEW i \in DOMAIN rows[c], NEW s, s = rows[c][i].source
              PROVE  rows[c][i].reads \subseteq {Target(c, s)} \cup Rivals(c, s)'
  BY DEF ForeignReadsAreRaces, Rivals
<1>1. rows[c][i].reads \subseteq Readable(c, s)
  BY RowsReadable
<1>. QED
  BY <1>1, ReadableGrows

LEMMA StartIInv ==
  ASSUME IInv, NEW c \in Calls, Start(c)
  PROVE  IInv'
<1>. USE DEF IInv
<1>1. TypeOK'
  BY StartTypeOK
<1>2. \A b \in Calls : b # c => pc'[b] = pc[b] /\ todo'[b] = todo[b]
  BY DEF Start, Goto, TypeOK
<1>3. pc'[c] = "sources" /\ pc[c] = "new"
  BY DEF Start, Goto, TypeOK
<1>4. \A b \in Calls : met[b] \subseteq met'[b]
  BY DEF Start, TypeOK
<1>5. RunningHaveMet'
  BY <1>2, <1>3 DEF RunningHaveMet, Running, Start, TypeOK
<1>6. Placed'
  BY <1>2, <1>3 DEF Placed, Start
<1>7. ASSUME NEW b \in Calls, pc'[b] \in {"rules", "second"}
      PROVE  /\ views'[View(b)'] \in Readable(b, Current(b))' \cup {Absent}
             /\ pc'[b] = "second" => first'[b] \in Readable(b, Current(b))'
  <2>1. PICK s : s = Current(b)
    OBVIOUS
  <2>2. pc[b] = pc'[b] /\ todo[b] = todo'[b]
    BY <1>2, <1>3, <1>7
  <2>3. Current(b)' = s /\ View(b)' = View(b)
    BY <2>1, <2>2 DEF Current, View
  <2>4. Readable(b, Current(b))' = {Target(b, s)} \cup Rivals(b, s)'
    BY <2>3 DEF Readable, Rivals, Target
  <2>5. Readable(b, s) \subseteq Readable(b, Current(b))'
    BY <1>4, <2>4, ReadableGrows
  <2>. QED
    BY <1>7, <2>1, <2>2, <2>3, <2>5 DEF ViewsAreReadable, Start
<1>8. ForeignReadsAreRaces'
  BY <1>4, OldRowsReadable DEF Start
<1>. QED
  BY <1>1, <1>5, <1>6, <1>7, <1>8 DEF ViewsAreReadable

LEMMA CreateViewIInv ==
  ASSUME IInv, NEW c \in Calls, CreateView(c)
  PROVE  IInv'
<1>. USE DEF IInv
<1>1. Target(c, Current(c)) \in Targets /\ View(c) \in DOMAIN views
  BY CurrentIsVisited DEF CreateView
<1>2. views' = [views EXCEPT ![View(c)] = Target(c, Current(c))]
  BY DEF CreateView
<1>3. \A b \in Calls : /\ b # c => pc'[b] = pc[b]
                       /\ pc[c] = "sources" /\ pc'[c] = "rules"
  BY DEF CreateView, Goto, TypeOK
<1>4. TypeOK'
  <2>1. views' \in [{Name[s] : s \in Sources} -> Targets \cup {Absent}]
    BY <1>1, <1>2 DEF TypeOK
  <2>2. pc' \in [Calls -> {"new", "sources", "rules", "second", "done"}]
    BY DEF TypeOK, CreateView, Goto
  <2>3. left' \in [Calls -> Seq(0..2)]
    BY RulesAssumption DEF TypeOK, CreateView
  <2>. QED
    BY <2>1, <2>2, <2>3 DEF TypeOK, CreateView, Row
<1>5. RunningHaveMet'
  BY <1>3 DEF RunningHaveMet, Running, CreateView
<1>6. Placed'
  BY <1>3, RulesAssumption DEF Placed, CreateView, TypeOK
<1>7. \A b \in Calls : View(b)' = View(b) /\ Readable(b, Current(b))' = Readable(b, Current(b))
  BY DEF CreateView, View, Current, Readable, Rivals, Target
<1>8. ASSUME NEW b \in Calls, b # c, pc[b] \in {"rules", "second"}
      PROVE  views'[View(b)] \in Readable(b, Current(b)) \cup {Absent}
  <2>1. CASE View(b) # View(c)
    BY <1>2, <1>8, <2>1 DEF ViewsAreReadable, TypeOK
  <2>2. CASE View(b) = View(c)
    <3>1. c \in met[b]
      BY <1>3, <1>8 DEF RunningHaveMet, Running
    <3>2. Current(c) \in Visited(c) /\ Name[Current(c)] = Name[Current(b)]
      BY <2>2, CurrentIsVisited DEF CreateView, View
    <3>3. Target(c, Current(c)) \in Rivals(b, Current(b))
      BY <3>1, <3>2 DEF Rivals
    <3>. QED
      BY <1>1, <1>2, <2>2, <3>3 DEF Readable, TypeOK
  <2>. QED
    BY <2>1, <2>2
<1>9. views'[View(c)] \in Readable(c, Current(c))
  BY <1>1, <1>2 DEF Readable, TypeOK
<1>10. ViewsAreReadable'
  BY <1>3, <1>7, <1>8, <1>9 DEF ViewsAreReadable, CreateView
<1>11. ForeignReadsAreRaces'
  BY OldRowsReadable DEF CreateView
<1>. QED
  BY <1>4, <1>5, <1>6, <1>10, <1>11

\* A source that cannot be bound, and a source whose rules are all answered.
LEMMA LeaveSourceIInv ==
  ASSUME IInv, NEW c \in Calls, CreateViewFails(c) \/ NextSource(c)
  PROVE  IInv'
<1>. USE DEF IInv
<1>1. pc' = [pc EXCEPT ![c] = "sources"] /\ todo' = [todo EXCEPT ![c] = Others(c)]
  BY DEF CreateViewFails, NextSource, Goto, TypeOK
<1>2. UNCHANGED <<left, first, shown, views, met, drops>>
  BY DEF CreateViewFails, NextSource
<1>3. DOMAIN rows' = Calls /\ \A b \in Calls : rows'[b] \in Seq(Row(b))
  <2>1. CASE CreateViewFails(c)
    <3>1. 0 \in 0..Len(Rules[c]) /\ {} \in SUBSET Targets
      BY RulesAssumption
    <3>. QED
      BY <2>1, <3>1, PushType DEF CreateViewFails
  <2>2. CASE NextSource(c)
    BY <2>2 DEF NextSource, TypeOK
  <2>. QED
    BY <2>1, <2>2
<1>4. ForeignReadsAreRaces'
  <2>1. CASE CreateViewFails(c)
    BY <2>1, PushReadable DEF CreateViewFails
  <2>2. CASE NextSource(c)
    BY <2>2, OldRowsReadable DEF NextSource
  <2>. QED
    BY <2>1, <2>2
<1>5. pc' \in [Calls -> {"new", "sources", "rules", "second", "done"}]
  BY <1>1 DEF TypeOK
<1>6. DOMAIN todo' = Calls /\ \A b \in Calls : todo'[b] \subseteq Strings(b)
  BY <1>1 DEF TypeOK, Others
<1>7. TypeOK'
  BY <1>2, <1>3, <1>5, <1>6 DEF TypeOK, Row
<1>8. pc'[c] = "sources" /\ pc[c] \in {"sources", "rules"}
  BY <1>1 DEF CreateViewFails, NextSource, TypeOK
<1>9. \A b \in Calls : b # c => pc'[b] = pc[b] /\ todo'[b] = todo[b]
  BY <1>1 DEF TypeOK
<1>10. RunningHaveMet'
  BY <1>2, <1>8, <1>9 DEF RunningHaveMet, Running
<1>11. Placed'
  BY <1>2, <1>8, <1>9 DEF Placed
<1>12. \A b \in Calls \ {c} : View(b)' = View(b) /\ Readable(b, Current(b))' = Readable(b, Current(b))
  BY <1>2, <1>9 DEF View, Current, Readable, Rivals, Target
<1>13. ViewsAreReadable'
  BY <1>2, <1>8, <1>9, <1>12 DEF ViewsAreReadable
<1>. QED
  BY <1>4, <1>7, <1>10, <1>11, <1>13

\* The statements of a rule.
LEMMA RuleIInv ==
  ASSUME IInv, NEW c \in Calls,
         \/ NoStatement(c) \/ OnlyStatement(c) \/ StatementFails(c)
         \/ SecondStatement(c) \/ SecondStatementFails(c)
  PROVE  IInv'
<1>. USE DEF IInv
<1>1. pc[c] \in {"rules", "second"} /\ left[c] # <<>>
  BY DEF NoStatement, OnlyStatement, StatementFails, NextRule, SecondStatement,
         SecondStatementFails, Placed
<1>2. pc' = [pc EXCEPT ![c] = "rules"] /\ UNCHANGED <<todo, first, shown, views, met, drops>>
  BY DEF NoStatement, OnlyStatement, StatementFails, NextRule, SecondStatement,
         SecondStatementFails, Goto, TypeOK
<1>3. /\ views[View(c)] # Absent => {views[View(c)]} \subseteq Readable(c, Current(c)) \cap Targets
      /\ pc[c] = "second" => {first[c]} \subseteq Readable(c, Current(c))
  BY <1>1, ReadsAreTargets DEF ViewsAreReadable
<1>4. Readable(c, Current(c)) \subseteq Targets
  <2>1. Target(c, Current(c)) \in Targets
    BY <1>1, ReadsAreTargets, CurrentIsVisited
  <2>2. Rivals(c, Current(c)) \subseteq Targets
    BY ArgumentAssumption DEF Rivals, Visited, Strings, Targets, TypeOK
  <2>. QED
    BY <2>1, <2>2 DEF Readable
<1>5. \E reads \in SUBSET Targets :
        reads \subseteq Readable(c, Current(c)) /\ Answer(c, reads)
  BY <1>3, <1>4 DEF NoStatement, OnlyStatement, StatementFails, NextRule, SecondStatement,
                    SecondStatementFails
<1>. QED
  BY <1>1, <1>2, <1>5, AnswerIInv

LEMMA FirstStatementIInv ==
  ASSUME IInv, NEW c \in Calls, FirstStatement(c)
  PROVE  IInv'
<1>. USE DEF IInv
<1>1. /\ pc[c] = "rules" /\ left[c] # <<>> /\ views[View(c)] # Absent
      /\ pc' = [pc EXCEPT ![c] = "second"]
      /\ first' = [first EXCEPT ![c] = views[View(c)]]
      /\ UNCHANGED <<todo, left, rows, shown, views, met, drops>>
  BY DEF FirstStatement, NextRule, Goto
<1>2. todo[c] # {} /\ views[View(c)] \in Targets \cup {Absent}
  BY <1>1, ReadsAreTargets
<1>3. TypeOK'
  BY <1>1, <1>2 DEF TypeOK, Row
<1>4. RunningHaveMet'
  BY <1>1 DEF RunningHaveMet, Running, TypeOK
<1>5. Placed'
  BY <1>1, <1>2 DEF Placed, TypeOK
<1>6. \A b \in Calls : View(b)' = View(b) /\ Readable(b, Current(b))' = Readable(b, Current(b))
  BY <1>1 DEF View, Current, Readable, Rivals, Target
<1>7. ViewsAreReadable'
  BY <1>1, <1>6 DEF ViewsAreReadable, TypeOK
<1>8. ForeignReadsAreRaces'
  BY <1>1, OldRowsReadable
<1>. QED
  BY <1>3, <1>4, <1>5, <1>7, <1>8

\* The scan, and the sessions that drop views.
LEMMA ScanIInv ==
  ASSUME IInv, NEW c \in Calls, Emit(c) \/ EmitNothing(c)
  PROVE  IInv'
<1>. USE DEF IInv
<1>1. UNCHANGED <<todo, left, first, rows, views, met, drops>> /\ pc[c] = "sources"
  BY DEF Emit, EmitNothing, Bound
<1>2. \A b \in Calls : \/ pc'[b] = pc[b]
                       \/ b = c /\ pc'[c] = "done"
  BY DEF Emit, EmitNothing, Goto, TypeOK
<1>3. DOMAIN shown' = Calls /\ \A b \in Calls : shown'[b] \in Seq(Row(b))
  <2>1. CASE Emit(c)
    <3>1. Len(shown[c]) + 1 \in DOMAIN rows[c]
      BY <2>1 DEF Emit, TypeOK
    <3>2. rows[c][Len(shown[c]) + 1] \in Row(c)
      BY <3>1 DEF TypeOK
    <3>. QED
      BY <2>1, <3>2 DEF Emit, TypeOK
  <2>2. CASE EmitNothing(c)
    BY <2>2 DEF EmitNothing, TypeOK
  <2>. QED
    BY <2>1, <2>2
<1>4. pc' \in [Calls -> {"new", "sources", "rules", "second", "done"}]
  BY DEF Emit, EmitNothing, Goto, TypeOK
<1>5. TypeOK'
  BY <1>1, <1>3, <1>4 DEF TypeOK, Row
<1>6. RunningHaveMet' /\ Placed'
  BY <1>1, <1>2 DEF RunningHaveMet, Running, Placed
<1>7. \A b \in Calls : View(b)' = View(b) /\ Readable(b, Current(b))' = Readable(b, Current(b))
  BY <1>1 DEF View, Current, Readable, Rivals, Target
<1>8. ViewsAreReadable'
  BY <1>1, <1>2, <1>7 DEF ViewsAreReadable
<1>9. ForeignReadsAreRaces'
  BY <1>1, OldRowsReadable
<1>. QED
  BY <1>5, <1>6, <1>8, <1>9

LEMMA DropViewIInv ==
  ASSUME IInv, NEW n \in DOMAIN views, DropView(n)
  PROVE  IInv'
<1>. USE DEF IInv
<1>1. UNCHANGED <<callVars, met>> /\ views' = [views EXCEPT ![n] = Absent]
  BY DEF DropView
<1>2. views' \in [{Name[s] : s \in Sources} -> Targets \cup {Absent}]
  BY <1>1 DEF TypeOK
<1>3. drops' \in 0..MaxDrops
  BY BoundAssumption DEF DropView, TypeOK
<1>4. TypeOK'
  BY <1>1, <1>2, <1>3 DEF TypeOK, callVars, Row
<1>5. RunningHaveMet' /\ Placed'
  BY <1>1 DEF RunningHaveMet, Running, Placed, callVars
<1>6. \A b \in Calls : View(b)' = View(b) /\ Readable(b, Current(b))' = Readable(b, Current(b))
  BY <1>1 DEF View, Current, Readable, Rivals, Target, callVars
<1>7. \A m \in DOMAIN views : views'[m] \in {views[m], Absent}
  BY <1>1
<1>8. \A b \in Calls : pc[b] \in {"rules", "second"} => View(b) \in DOMAIN views
  BY CurrentIsVisited DEF Placed
<1>9. ViewsAreReadable'
  BY <1>1, <1>6, <1>7, <1>8 DEF ViewsAreReadable, callVars
<1>10. ForeignReadsAreRaces'
  BY <1>1, OldRowsReadable DEF callVars
<1>. QED
  BY <1>4, <1>5, <1>9, <1>10

---------------------------------------------------------------------------
(* The theorems *)

LEMMA NextIInv == IInv /\ [Next]_vars => IInv'
<1>. SUFFICES ASSUME IInv, [Next]_vars PROVE IInv'
  OBVIOUS
<1>1. ASSUME NEW c \in Calls, Start(c) PROVE IInv'
  BY <1>1, StartIInv
<1>2. ASSUME NEW c \in Calls, Bind(c) PROVE IInv'
  BY <1>2, CreateViewIInv, LeaveSourceIInv, RuleIInv, FirstStatementIInv DEF Bind
<1>3. ASSUME NEW c \in Calls, Emit(c) \/ EmitNothing(c) PROVE IInv'
  BY <1>3, ScanIInv
<1>4. ASSUME NEW n \in DOMAIN views, DropView(n) PROVE IInv'
  BY <1>4, DropViewIInv
<1>5. CASE UNCHANGED vars
  <2>1. \A b \in Calls : View(b)' = View(b) /\ Readable(b, Current(b))' = Readable(b, Current(b))
    BY <1>5 DEF vars, callVars, View, Current, Readable, Rivals, Target
  <2>2. TypeOK' /\ RunningHaveMet' /\ Placed'
    BY <1>5 DEF IInv, vars, callVars, TypeOK, Row, RunningHaveMet, Running, Placed
  <2>3. ViewsAreReadable'
    BY <1>5, <2>1 DEF IInv, ViewsAreReadable, vars, callVars
  <2>4. ForeignReadsAreRaces'
    BY <1>5, OldRowsReadable DEF IInv, vars, callVars
  <2>. QED
    BY <2>2, <2>3, <2>4 DEF IInv
<1>. QED
  BY <1>1, <1>2, <1>3, <1>4, <1>5 DEF Next

LEMMA Invariance == Spec => []IInv
<1>1. Init => IInv
  BY InitIInv
<1>. QED
  BY <1>1, NextIInv, PTL DEF Spec

\* Every variable of dq_federated keeps its type, whatever the calls do.
THEOREM TypeCorrect == Spec => []TypeOK
<1>1. IInv => TypeOK
  BY DEF IInv
<1>. QED
  BY <1>1, Invariance, PTL

\* A foreign read is the doing of a call that ran at the same time.
THEOREM ForeignReads == Spec => []ForeignReadsAreRaces
<1>1. IInv => ForeignReadsAreRaces
  BY DEF IInv
<1>. QED
  BY <1>1, Invariance, PTL

\* No two calls visit sources that sanitize to the same name.
NothingShared ==
  \A b, c \in Calls : \A s \in Visited(b), t \in Visited(c) : Name[s] = Name[t] => b = c

\* Then the rows of each source tell of that source's table alone: what the
\* finding of federated_shared is about needs two sources of one name.
THEOREM OwnTablesOnly ==
  ASSUME NothingShared
  PROVE  Spec => []EachSourceItsOwn
<1>1. ASSUME IInv, NEW c \in Calls, NEW i \in DOMAIN rows[c]
      PROVE  rows[c][i].reads \subseteq {Target(c, rows[c][i].source)}
  <2>1. rows[c][i] \in Row(c)
    BY <1>1 DEF IInv, TypeOK
  <2>2. rows[c][i].source \in Visited(c)
    BY <2>1 DEF Row
  <2>3. met[c] \subseteq Calls \ {c}
    BY <1>1 DEF IInv, TypeOK, RunningHaveMet
  <2>4. Rivals(c, rows[c][i].source) = {}
    BY <2>2, <2>3 DEF Rivals, NothingShared
  <2>. QED
    BY <1>1, <2>4 DEF IInv, ForeignReadsAreRaces
<1>2. IInv => EachSourceItsOwn
  BY <1>1 DEF EachSourceItsOwn
<1>. QED
  BY <1>2, Invariance, PTL

---------------------------------------------------------------------------
(* The rows account for the sources *)

\* What the positions up to p have told, and how far a call has come that has
\* the positions `ahead' to visit.
Before(c, failed, p) == FlattenSeq([i \in 1..p |-> Told(c, failed, i)])
Reached(c, ahead) == IF ahead = {} THEN Len(Argument[c]) ELSE Min(ahead) - 1

\* The rules of the current source that are answered.
Answered(c, ahead, rest) ==
  [k \in 1..(Len(Rules[c]) - Len(rest)) |-> <<Argument[c][Min(ahead)], k>>]

Pairs(list) == [i \in DOMAIN list |-> <<list[i].source, list[i].rule>>]

\* The rows tell of all the positions before the current one, and of the
\* rules answered for it; the positions ahead are all that come after.
Accounts(c, at, ahead, rest, list) ==
  /\ ahead = {i \in Strings(c) : i > Reached(c, ahead)}
  /\ \E failed \in SUBSET Strings(c) :
       Pairs(list) = Before(c, failed, Reached(c, ahead))
                       \o IF at = "sources" THEN << >> ELSE Answered(c, ahead, rest)

Accounted ==
  \A c \in Calls :
    /\ pc[c] = "new" => rows[c] = << >>
    /\ Running(c) => Accounts(c, pc[c], todo[c], left[c], rows[c])

Pair(c) == Visited(c) \X Nat

LEMMA ToldType ==
  ASSUME NEW c \in Calls, NEW failed, NEW i \in 1..Len(Argument[c])
  PROVE  Told(c, failed, i) \in Seq(Pair(c))
<1>1. CASE i \in Strings(c)
  <2> DEFINE s == Argument[c][i]
  <2>1. s \in Visited(c)
    BY <1>1 DEF Visited
  <2>2. Rules[c] \in Seq(0..2)
    BY RulesAssumption
  <2>3. <<<<s, 0>>>> \in Seq(Pair(c)) /\ Verdicts(c, s) \in Seq(Pair(c))
    BY <2>1, <2>2 DEF Pair, Verdicts
  <2>. QED
    BY <1>1, <2>3 DEF Told
<1>2. CASE i \notin Strings(c)
  BY <1>2 DEF Told
<1>. QED
  BY <1>1, <1>2

LEMMA BeforeTheFirst == \A c, failed : Before(c, failed, 0) = << >>
<1>1. \A c, failed : [i \in 1..0 |-> Told(c, failed, i)] = << >>
  OBVIOUS
<1>. QED
  BY <1>1, FlattenOfNone DEF Before

\* One position more tells what it tells after the others.
LEMMA BeforeOneMore ==
  ASSUME NEW c \in Calls, NEW failed, NEW p \in Nat, p + 1 <= Len(Argument[c])
  PROVE  /\ Before(c, failed, p) \in Seq(Pair(c))
         /\ Before(c, failed, p + 1) = Before(c, failed, p) \o Told(c, failed, p + 1)
<1> DEFINE told(n) == [i \in 1..n |-> Told(c, failed, i)]
<1>1. Len(Argument[c]) \in Nat
  BY ArgumentAssumption
<1>2. \A i \in 1..(p + 1) : Told(c, failed, i) \in Seq(Pair(c))
  BY <1>1, ToldType
<1>3. told(p) \in Seq(Seq(Pair(c)))
  BY <1>2
<1>4. Told(c, failed, p + 1) \in Seq(Pair(c))
  BY <1>2
<1>5. told(p + 1) = Append(told(p), Told(c, failed, p + 1))
  OBVIOUS
<1>6. FlattenSeq(told(p + 1)) = FlattenSeq(told(p)) \o Told(c, failed, p + 1)
  BY <1>3, <1>4, <1>5, FlattenOfOneMore
<1>. QED
  BY <1>3, <1>6, FlattenType DEF Before

LEMMA BeforeType ==
  ASSUME NEW c \in Calls, NEW failed, NEW p \in 0..Len(Argument[c])
  PROVE  Before(c, failed, p) \in Seq(Pair(c))
<1>1. Len(Argument[c]) \in Nat
  BY ArgumentAssumption
<1>2. \A i \in 1..p : Told(c, failed, i) \in Seq(Pair(c))
  BY <1>1, ToldType
<1>3. [i \in 1..p |-> Told(c, failed, i)] \in Seq(Seq(Pair(c)))
  BY <1>1, <1>2
<1>. QED
  BY <1>3, FlattenType DEF Before

\* Items that are no strings tell nothing.
LEMMA BeforeNothing ==
  ASSUME NEW c \in Calls, NEW failed, NEW p \in Nat, NEW q \in Nat,
         p <= q, q <= Len(Argument[c]), \A i \in (p + 1)..q : i \notin Strings(c)
  PROVE  Before(c, failed, q) = Before(c, failed, p)
<1> DEFINE N == {n \in 0..(q - p) : Before(c, failed, p + n) = Before(c, failed, p)}
<1>1. q - p \in Nat /\ Len(Argument[c]) \in Nat
  BY ArgumentAssumption
<1>2. 0 \in N
  BY <1>1
<1>3. ASSUME NEW n \in N, n < q - p PROVE n + 1 \in N
  <2>1. /\ n \in Nat /\ n + 1 \in 0..(q - p) /\ p + n \in Nat
        /\ (p + n) + 1 <= Len(Argument[c]) /\ (p + n) + 1 = p + (n + 1)
        /\ p + (n + 1) \in (p + 1)..q
    BY <1>1, <1>3
  <2>2. Told(c, failed, p + (n + 1)) = << >>
    BY <2>1 DEF Told
  <2>3. Before(c, failed, p + n) \in Seq(Pair(c))
    BY <2>1, BeforeOneMore
  <2>4. Before(c, failed, p + (n + 1)) = Before(c, failed, p + n) \o << >>
    BY <2>1, <2>2, BeforeOneMore
  <2>5. Before(c, failed, p + (n + 1)) = Before(c, failed, p + n)
    BY <2>3, <2>4
  <2>. QED
    BY <2>1, <2>5
<1>4. N \in SUBSET (0..(q - p))
  OBVIOUS
<1>5. q - p \in N
  <2>. HIDE DEF N
  <2>1. N = 0..(q - p)
    BY <1>1, <1>2, <1>3, <1>4, IntervalGrowth
  <2>. QED
    BY <1>1, <2>1
<1>6. p + (q - p) = q
  OBVIOUS
<1>. QED
  BY <1>5, <1>6

\* What the positions have told is settled when they are passed.
LEMMA BeforeSame ==
  ASSUME NEW c, NEW p, NEW failed, NEW others, \A i \in 1..p : i \in failed <=> i \in others
  PROVE  Before(c, failed, p) = Before(c, others, p)
<1>1. \A i \in 1..p : Told(c, failed, i) = Told(c, others, i)
  BY DEF Told
<1>2. [i \in 1..p |-> Told(c, failed, i)] = [i \in 1..p |-> Told(c, others, i)]
  BY <1>1
<1>. QED
  BY <1>2 DEF Before

\* The positions ahead, once those up to m are behind.
LEMMA ReachedNext ==
  ASSUME NEW c \in Calls, NEW m \in 0..Len(Argument[c]), NEW ahead,
         ahead = {i \in Strings(c) : i > m}
  PROVE  /\ Reached(c, ahead) \in m..Len(Argument[c])
         /\ ahead = {i \in Strings(c) : i > Reached(c, ahead)}
         /\ \A i \in (m + 1)..Reached(c, ahead) : i \notin Strings(c)
<1>1. Len(Argument[c]) \in Nat /\ Strings(c) \subseteq 1..Len(Argument[c])
  BY ArgumentAssumption DEF Strings
<1>2. CASE ahead = {}
  BY <1>1, <1>2 DEF Reached
<1>3. CASE ahead # {}
  <2>1. ahead \in SUBSET Nat
    BY <1>1
  <2>2. Min(ahead) \in ahead /\ \A y \in ahead : Min(ahead) <= y
    BY <1>3, <2>1, MinIsIn
  <2>3. Reached(c, ahead) = Min(ahead) - 1
    BY <1>3 DEF Reached
  <2> DEFINE k == Min(ahead)
  <2>4. k \in Strings(c) /\ k > m /\ k \in 1..Len(Argument[c])
    BY <1>1, <2>2
  <2>5. k - 1 \in m..Len(Argument[c])
    BY <1>1, <2>4
  <2>6. \A i \in Strings(c) : i > m <=> i > k - 1
    <3>1. \A i \in Strings(c) : i \in Nat /\ (i > m => k <= i)
      BY <1>1, <2>2
    <3>. HIDE DEF k
    <3>. QED
      BY <1>1, <2>4, <3>1
  <2>7. \A i \in (m + 1)..(k - 1) : i \notin Strings(c)
    <3>. HIDE DEF k
    <3>. QED
      BY <1>1, <2>4, <2>6
  <2>. QED
    BY <2>3, <2>5, <2>6, <2>7
<1>. QED
  BY <1>2, <1>3

LEMMA CurrentPosition ==
  ASSUME NEW c \in Calls, NEW ahead \in SUBSET Strings(c), ahead # {}
  PROVE  /\ Min(ahead) \in Strings(c)
         /\ Min(ahead) \in 1..Len(Argument[c])
         /\ Reached(c, ahead) \in Nat
         /\ Reached(c, ahead) + 1 = Min(ahead)
<1>1. Len(Argument[c]) \in Nat /\ Strings(c) \subseteq 1..Len(Argument[c])
  BY ArgumentAssumption DEF Strings
<1>2. ahead \in SUBSET Nat
  BY <1>1
<1>3. Min(ahead) \in ahead
  BY <1>2, MinIsIn
<1>4. Min(ahead) \in Strings(c) /\ Min(ahead) \in 1..Len(Argument[c])
  BY <1>1, <1>3
<1>5. Reached(c, ahead) = Min(ahead) - 1
  BY DEF Reached
<1> DEFINE k == Min(ahead)
<1>. HIDE DEF k
<1>6. k \in Nat /\ k >= 1
  BY <1>1, <1>4 DEF k
<1>7. k - 1 \in Nat /\ (k - 1) + 1 = k
  BY <1>6
<1>. QED
  BY <1>4, <1>5, <1>7 DEF k

LEMMA PairsOfOneMore ==
  ASSUME NEW S, NEW list \in Seq(S), NEW row
  PROVE  Pairs(Append(list, row)) = Append(Pairs(list), <<row.source, row.rule>>)
<1> DEFINE n == Len(list)
           more == Append(list, row)
           pair(x) == <<x.source, x.rule>>
<1>1. n \in Nat /\ DOMAIN list = 1..n /\ DOMAIN more = 1..(n + 1) /\ more[n + 1] = row
      /\ \A i \in 1..n : more[i] = list[i]
  OBVIOUS
<1>. HIDE DEF more, n
<1>2. Pairs(list) = [i \in 1..n |-> pair(list[i])]
      /\ Pairs(more) = [i \in 1..(n + 1) |-> pair(more[i])]
  BY <1>1 DEF Pairs
<1>. HIDE DEF pair
<1>3. \A i \in 1..(n + 1) : i \in 1..n \/ i = n + 1
  BY <1>1
<1>4. Append([i \in 1..n |-> pair(list[i])], pair(row))
        = [i \in 1..(n + 1) |-> IF i = n + 1 THEN pair(row) ELSE pair(list[i])]
  BY <1>1
<1>5. \A i \in 1..(n + 1) : pair(more[i]) = IF i = n + 1 THEN pair(row) ELSE pair(list[i])
  BY <1>1, <1>3
<1>6. Pairs(more) = Append(Pairs(list), pair(row))
  BY <1>2, <1>4, <1>5
<1>. QED
  BY <1>6 DEF more, pair

\* The current source is left when its rows are told.
LEMMA LeaveAccounts ==
  ASSUME NEW c \in Calls, NEW ahead \in SUBSET Strings(c), ahead # {},
         ahead = {i \in Strings(c) : i > Reached(c, ahead)},
         NEW failed \in SUBSET Strings(c), NEW rest, NEW list,
         Pairs(list) = Before(c, failed, Min(ahead))
  PROVE  Accounts(c, "sources", ahead \ {Min(ahead)}, rest, list)
<1> DEFINE m == Min(ahead)
           others == ahead \ {m}
<1>1. /\ Strings(c) \subseteq 1..Len(Argument[c])
      /\ Len(Argument[c]) \in Nat
  BY ArgumentAssumption DEF Strings
<1>2. /\ m \in Strings(c) /\ m \in 1..Len(Argument[c])
      /\ Reached(c, ahead) \in Nat /\ Reached(c, ahead) + 1 = m
  BY CurrentPosition
<1>3. others = {i \in Strings(c) : i > m}
  <2>1. \A i \in Strings(c) : i \in Nat
    BY <1>1
  <2>2. \A i \in Strings(c) : i > Reached(c, ahead) /\ i # m <=> i > m
    <3> DEFINE r == Reached(c, ahead)
    <3>. HIDE DEF r, m
    <3>1. r \in Nat /\ r + 1 = m
      BY <1>2 DEF r
    <3>2. \A i \in Nat : i > r /\ i # m <=> i > m
      BY <3>1
    <3>. QED
      BY <2>1, <3>2 DEF r
  <2>. QED
    BY <2>2
<1>4. m \in 0..Len(Argument[c]) /\ m \in Nat
  BY <1>1, <1>2
<1>5. /\ Reached(c, others) \in m..Len(Argument[c])
      /\ others = {i \in Strings(c) : i > Reached(c, others)}
      /\ \A i \in (m + 1)..Reached(c, others) : i \notin Strings(c)
  <2>. HIDE DEF others, m
  <2>. QED
    BY <1>3, <1>4, ReachedNext
<1>6. Before(c, failed, Reached(c, others)) = Before(c, failed, m)
  <2>1. /\ Reached(c, others) \in Nat
        /\ m <= Reached(c, others) /\ Reached(c, others) <= Len(Argument[c])
    BY <1>1, <1>4, <1>5
  <2>. HIDE DEF others, m
  <2>. QED
    BY <1>4, <1>5, <2>1, BeforeNothing
<1>7. Before(c, failed, m) \o << >> = Before(c, failed, m)
  <2>1. Before(c, failed, m) \in Seq(Pair(c))
    BY <1>4, BeforeType
  <2>. QED
    BY <2>1
<1>. QED
  BY <1>5, <1>6, <1>7 DEF Accounts

\* What the current source adds to what the ones before have told.
LEMMA CurrentTells ==
  ASSUME NEW c \in Calls, NEW ahead \in SUBSET Strings(c), ahead # {},
         NEW failed \in SUBSET Strings(c), NEW others \in SUBSET Strings(c),
         others \ {Min(ahead)} = failed \ {Min(ahead)}
  PROVE  /\ Before(c, failed, Reached(c, ahead)) \in Seq(Pair(c))
         /\ Before(c, others, Min(ahead))
              = Before(c, failed, Reached(c, ahead)) \o Told(c, others, Min(ahead))
<1> DEFINE m == Min(ahead)
           r == Reached(c, ahead)
<1>1. r \in Nat /\ r + 1 = m /\ m \in 1..Len(Argument[c])
  BY CurrentPosition
<1>. HIDE DEF m, r
<1>2. r + 1 <= Len(Argument[c])
  BY <1>1, ArgumentAssumption
<1>3. \A i \in 1..r : i # m
  BY <1>1
<1>4. \A i \in 1..r : i \in failed <=> i \in others
  BY <1>3 DEF m
<1>5. Before(c, failed, r) = Before(c, others, r)
  BY <1>4, BeforeSame
<1>6. /\ Before(c, others, r) \in Seq(Pair(c))
      /\ Before(c, others, r + 1) = Before(c, others, r) \o Told(c, others, r + 1)
  BY <1>1, <1>2, BeforeOneMore
<1>. QED
  BY <1>1, <1>5, <1>6 DEF m, r

\* A source that cannot be bound tells one row.
LEMMA FailAccounts ==
  ASSUME NEW c \in Calls, NEW ahead \in SUBSET Strings(c), ahead # {},
         NEW rest, NEW more, NEW S, NEW list \in Seq(S), NEW row,
         Accounts(c, "sources", ahead, rest, list),
         row.source = Argument[c][Min(ahead)], row.rule = 0
  PROVE  Accounts(c, "sources", ahead \ {Min(ahead)}, more, Append(list, row))
<1> DEFINE m == Min(ahead)
<1>1. PICK failed \in SUBSET Strings(c) :
        Pairs(list) = Before(c, failed, Reached(c, ahead)) \o << >>
  BY DEF Accounts
<1>2. ahead = {i \in Strings(c) : i > Reached(c, ahead)}
  BY DEF Accounts
<1> DEFINE others == failed \cup {m}
<1>3. m \in Strings(c) /\ others \in SUBSET Strings(c) /\ others \ {m} = failed \ {m}
  BY CurrentPosition
<1>4. Told(c, others, m) = <<<<row.source, 0>>>>
  BY <1>3 DEF Told
<1>. HIDE DEF others
<1>5. /\ Before(c, failed, Reached(c, ahead)) \in Seq(Pair(c))
      /\ Before(c, others, m) = Before(c, failed, Reached(c, ahead)) \o Told(c, others, m)
  BY <1>3, CurrentTells
<1>6. Pairs(Append(list, row)) = Append(Pairs(list), <<row.source, 0>>)
  BY PairsOfOneMore
<1>7. \A s \in Seq(Pair(c)) : \A x : Append(s \o << >>, x) = s \o <<x>>
  OBVIOUS
<1>8. Pairs(Append(list, row)) = Before(c, others, m)
  BY <1>1, <1>4, <1>5, <1>6, <1>7
<1>. QED
  BY <1>2, <1>3, <1>8, LeaveAccounts

\* A source whose rules are all answered has told one row for each.
LEMMA NextAccounts ==
  ASSUME NEW c \in Calls, NEW ahead \in SUBSET Strings(c), ahead # {},
         NEW more, NEW list, Accounts(c, "rules", ahead, << >>, list)
  PROVE  Accounts(c, "sources", ahead \ {Min(ahead)}, more, list)
<1> DEFINE m == Min(ahead)
<1>1. PICK failed \in SUBSET Strings(c) :
        Pairs(list) = Before(c, failed, Reached(c, ahead)) \o Answered(c, ahead, << >>)
  BY DEF Accounts
<1>2. ahead = {i \in Strings(c) : i > Reached(c, ahead)}
  BY DEF Accounts
<1> DEFINE others == failed \ {m}
<1>3. m \in Strings(c) /\ others \in SUBSET Strings(c) /\ others \ {m} = failed \ {m}
  BY CurrentPosition
<1>4. Told(c, others, m) = Verdicts(c, Argument[c][m])
  BY <1>3 DEF Told
<1>. HIDE DEF others
<1>5. Before(c, others, m) = Before(c, failed, Reached(c, ahead)) \o Told(c, others, m)
  BY <1>3, CurrentTells
<1>6. Answered(c, ahead, << >>) = Verdicts(c, Argument[c][m])
  <2>1. Rules[c] \in Seq(0..2) /\ Len(<< >>) = 0
    BY RulesAssumption
  <2>2. DOMAIN Rules[c] = 1..(Len(Rules[c]) - 0)
    BY <2>1
  <2>. QED
    BY <2>1, <2>2 DEF Answered, Verdicts
<1>7. Pairs(list) = Before(c, others, m)
  BY <1>1, <1>4, <1>5, <1>6
<1>. QED
  BY <1>2, <1>3, <1>7, LeaveAccounts

\* A source that is bound has no rule answered yet.
LEMMA CreateAccounts ==
  ASSUME NEW c \in Calls, NEW ahead, NEW rest, NEW list,
         Accounts(c, "sources", ahead, rest, list)
  PROVE  Accounts(c, "rules", ahead, Rules[c], list)
<1>1. Len(Rules[c]) \in Nat
  BY RulesAssumption
<1>2. Len(Rules[c]) - Len(Rules[c]) = 0
  BY <1>1
<1>3. Answered(c, ahead, Rules[c]) = << >>
  BY <1>2 DEF Answered
<1>. QED
  BY <1>3 DEF Accounts

\* A rule that is answered adds the row of its position.
LEMMA AnswerAccounts ==
  ASSUME NEW c \in Calls, NEW ahead \in SUBSET Strings(c), ahead # {},
         NEW at, at # "sources", NEW then, then # "sources",
         NEW rest \in Seq(0..2), rest # << >>, Len(rest) <= Len(Rules[c]),
         NEW S, NEW list \in Seq(S), NEW row,
         row.source = Argument[c][Min(ahead)], row.rule = Len(Rules[c]) - Len(rest) + 1,
         Accounts(c, at, ahead, rest, list)
  PROVE  Accounts(c, then, ahead, Tail(rest), Append(list, row))
<1>1. PICK failed \in SUBSET Strings(c) :
        Pairs(list) = Before(c, failed, Reached(c, ahead)) \o Answered(c, ahead, rest)
  BY DEF Accounts
<1>2. Before(c, failed, Reached(c, ahead)) \in Seq(Pair(c))
  BY CurrentTells
<1> DEFINE n == Len(Rules[c]) - Len(rest)
           s == Argument[c][Min(ahead)]
<1>3. n \in Nat /\ Len(Rules[c]) - Len(Tail(rest)) = n + 1
  <2>1. Len(Rules[c]) \in Nat
    BY RulesAssumption
  <2>2. Len(Tail(rest)) = Len(rest) - 1 /\ Len(rest) \in Nat
    OBVIOUS
  <2>. QED
    BY <2>1, <2>2
<1>4. Answered(c, ahead, rest) = [k \in 1..n |-> <<s, k>>]
      /\ Answered(c, ahead, Tail(rest)) = [k \in 1..(n + 1) |-> <<s, k>>]
  BY <1>3 DEF Answered
<1>5. Pairs(Append(list, row)) = Append(Pairs(list), <<s, n + 1>>)
  BY PairsOfOneMore
<1>. HIDE DEF n, s
<1>6. [k \in 1..(n + 1) |-> <<s, k>>] = Append([k \in 1..n |-> <<s, k>>], <<s, n + 1>>)
  BY <1>3
<1>7. [k \in 1..n |-> <<s, k>>] \in Seq({s} \X Nat)
  BY <1>3
<1>8. Append(Before(c, failed, Reached(c, ahead)) \o Answered(c, ahead, rest), <<s, n + 1>>)
        = Before(c, failed, Reached(c, ahead)) \o Answered(c, ahead, Tail(rest))
  <2>1. PICK u \in Seq(Pair(c)) : u = Before(c, failed, Reached(c, ahead))
    BY <1>2
  <2>2. PICK v \in Seq({s} \X Nat) : v = [k \in 1..n |-> <<s, k>>]
    BY <1>7
  <2>3. PICK x \in {s} \X Nat : x = <<s, n + 1>>
    <3>1. n + 1 \in Nat
      BY <1>3
    <3>2. <<s, n + 1>> \in {s} \X Nat
      BY <3>1
    <3>. QED
      BY <3>2
  <2>4. More(After(u, v), x) = After(u, More(v, x))
    BY AppendToBoth
  <2>5. Append(u \o v, x) = u \o Append(v, x)
    BY <2>4, Zenon DEF More, After
  <2>. QED
    BY <1>4, <1>6, <2>1, <2>2, <2>3, <2>5, Zenon
<1>9. Pairs(Append(list, row))
         = Before(c, failed, Reached(c, ahead)) \o Answered(c, ahead, Tail(rest))
  BY <1>1, <1>5, <1>8
<1>. QED
  BY <1>9 DEF Accounts

---------------------------------------------------------------------------
(* Each step keeps the account *)

\* What a call has not changed still accounts for its rows.
LEMMA OldAccounts ==
  ASSUME Accounted, NEW c \in Calls, pc'[c] = pc[c], todo'[c] = todo[c],
         left'[c] = left[c], rows'[c] = rows[c]
  PROVE  /\ pc'[c] = "new" => rows'[c] = << >>
         /\ Running(c)' => Accounts(c, pc'[c], todo'[c], left'[c], rows'[c])
  BY DEF Accounted, Running

\* A row that is pushed is added to the rows of its call.
LEMMA PushedRow ==
  ASSUME TypeOK, NEW c \in Calls, NEW k, NEW reads, Push(c, k, reads)
  PROVE  /\ \A b \in Calls \ {c} : rows'[b] = rows[b]
         /\ \E row : /\ rows'[c] = Append(rows[c], row)
                     /\ row.source = Argument[c][Min(todo[c])] /\ row.rule = k
<1> DEFINE row == [source |-> Current(c), rule |-> k, reads |-> reads]
<1>1. rows' = [rows EXCEPT ![c] = Append(@, row)]
  BY DEF Push
<1>2. row.source = Argument[c][Min(todo[c])] /\ row.rule = k
  BY DEF Current
<1>. HIDE DEF row
<1>3. rows'[c] = Append(rows[c], row) /\ \A b \in Calls \ {c} : rows'[b] = rows[b]
  BY <1>1 DEF TypeOK
<1>. QED
  BY <1>2, <1>3

LEMMA StartAccounted ==
  ASSUME IInv, Accounted, NEW c \in Calls, Start(c)
  PROVE  Accounted'
<1>1. /\ pc'[c] = "sources" /\ todo'[c] = Strings(c) /\ rows'[c] = << >>
      /\ \A b \in Calls \ {c} : pc'[b] = pc[b] /\ todo'[b] = todo[b]
      /\ left' = left /\ rows' = rows
  BY DEF Start, Goto, IInv, TypeOK, Accounted
<1>2. /\ Len(Argument[c]) \in Nat
      /\ Strings(c) = {i \in Strings(c) : i > 0}
  BY ArgumentAssumption DEF Strings
<1>3. /\ Reached(c, Strings(c)) \in 0..Len(Argument[c])
      /\ Strings(c) = {i \in Strings(c) : i > Reached(c, Strings(c))}
      /\ \A i \in (0 + 1)..Reached(c, Strings(c)) : i \notin Strings(c)
  <2>1. 0 \in 0..Len(Argument[c])
    BY <1>2
  <2>. QED
    BY <1>2, <2>1, ReachedNext
<1>4. Before(c, {}, Reached(c, Strings(c))) = << >>
  <2> DEFINE q == Reached(c, Strings(c))
  <2>1. 0 \in Nat /\ q \in Nat /\ 0 <= q /\ q <= Len(Argument[c])
    BY <1>2, <1>3
  <2>2. \A i \in (0 + 1)..q : i \notin Strings(c)
    BY <1>3
  <2>. HIDE DEF q
  <2>3. Before(c, {}, q) = Before(c, {}, 0)
    BY <2>1, <2>2, BeforeNothing
  <2>. QED
    BY <2>3, BeforeTheFirst DEF q
<1>5. Pairs(<< >>) = << >>
  BY DEF Pairs
<1>6. Accounts(c, "sources", Strings(c), left[c], << >>)
  <2>1. << >> \o << >> = << >>
    OBVIOUS
  <2>. QED
    BY <1>3, <1>4, <1>5, <2>1 DEF Accounts
<1>. QED
  BY <1>1, <1>6, OldAccounts DEF Accounted

LEMMA SourceAccounted ==
  ASSUME IInv, Accounted, NEW c \in Calls,
         CreateView(c) \/ CreateViewFails(c) \/ NextSource(c)
  PROVE  Accounted'
<1>1. /\ todo[c] \in SUBSET Strings(c) /\ todo[c] # {}
      /\ rows[c] \in Seq(Row(c))
      /\ Accounts(c, pc[c], todo[c], left[c], rows[c])
  BY DEF CreateView, CreateViewFails, NextSource, IInv, TypeOK, Placed, Accounted, Running
<1>2. ASSUME NEW b \in Calls, b # c
      PROVE  pc'[b] = pc[b] /\ todo'[b] = todo[b] /\ left'[b] = left[b] /\ rows'[b] = rows[b]
  BY <1>2, PushedRow DEF CreateView, CreateViewFails, NextSource, Goto, IInv, TypeOK
<1>3. pc'[c] # "new" /\ Accounts(c, pc'[c], todo'[c], left'[c], rows'[c])
  <2>1. CASE CreateView(c)
    <3>1. /\ pc[c] = "sources" /\ pc'[c] = "rules" /\ left'[c] = Rules[c]
          /\ todo'[c] = todo[c] /\ rows'[c] = rows[c]
      BY <2>1 DEF CreateView, Goto, IInv, TypeOK
    <3>. QED
      BY <1>1, <3>1, CreateAccounts
  <2>2. CASE CreateViewFails(c)
    <3>1. /\ pc[c] = "sources" /\ pc'[c] = "sources"
          /\ todo'[c] = todo[c] \ {Min(todo[c])}
      BY <2>2 DEF CreateViewFails, Others, IInv, TypeOK
    <3>2. PICK row : /\ rows'[c] = Append(rows[c], row)
                     /\ row.source = Argument[c][Min(todo[c])] /\ row.rule = 0
      BY <2>2, PushedRow DEF CreateViewFails, IInv
    <3>. QED
      BY <1>1, <3>1, <3>2, FailAccounts
  <2>3. CASE NextSource(c)
    <3>1. /\ pc[c] = "rules" /\ pc'[c] = "sources" /\ left[c] = << >>
          /\ todo'[c] = todo[c] \ {Min(todo[c])} /\ rows'[c] = rows[c]
      BY <2>3 DEF NextSource, Others, Goto, IInv, TypeOK
    <3>. QED
      BY <1>1, <3>1, NextAccounts
  <2>. QED
    BY <2>1, <2>2, <2>3
<1>. QED
  BY <1>2, <1>3, OldAccounts DEF Accounted

LEMMA RuleAccounted ==
  ASSUME IInv, Accounted, NEW c \in Calls,
         \/ NoStatement(c) \/ OnlyStatement(c) \/ StatementFails(c)
         \/ SecondStatement(c) \/ SecondStatementFails(c)
  PROVE  Accounted'
<1>1. pc[c] \in {"rules", "second"} /\ left[c] # << >>
  BY DEF NoStatement, OnlyStatement, StatementFails, NextRule, SecondStatement,
         SecondStatementFails, IInv, Placed
<1>2. pc' = [pc EXCEPT ![c] = "rules"] /\ todo' = todo
  BY DEF NoStatement, OnlyStatement, StatementFails, NextRule, SecondStatement,
         SecondStatementFails, Goto, IInv, TypeOK
<1>3. \E reads : Answer(c, reads)
  BY DEF NoStatement, OnlyStatement, StatementFails, SecondStatement, SecondStatementFails
<1>4. PICK reads : Push(c, Position(c), reads) /\ left' = [left EXCEPT ![c] = Tail(@)]
  BY <1>3 DEF Answer
<1>5. /\ todo[c] \in SUBSET Strings(c) /\ todo[c] # {}
      /\ rows[c] \in Seq(Row(c)) /\ left[c] \in Seq(0..2)
      /\ Len(left[c]) <= Len(Rules[c])
      /\ Accounts(c, pc[c], todo[c], left[c], rows[c])
  BY <1>1 DEF IInv, TypeOK, Placed, Accounted, Running
<1>6. /\ pc'[c] = "rules" /\ left'[c] = Tail(left[c])
      /\ \A b \in Calls \ {c} : pc'[b] = pc[b] /\ left'[b] = left[b]
  BY <1>2, <1>4 DEF IInv, TypeOK
<1>7. PICK row : /\ rows'[c] = Append(rows[c], row)
                 /\ row.source = Argument[c][Min(todo[c])] /\ row.rule = Position(c)
  BY <1>4, PushedRow DEF IInv
<1>8. \A b \in Calls \ {c} : rows'[b] = rows[b]
  BY <1>4, PushedRow DEF IInv
<1>9. row.rule = Len(Rules[c]) - Len(left[c]) + 1
  BY <1>7 DEF Position
<1>10. Accounts(c, "rules", todo[c], Tail(left[c]), Append(rows[c], row))
  <2>1. pc[c] # "sources" /\ "rules" # "sources"
    BY <1>1
  <2>. QED
    BY <1>1, <1>5, <1>7, <1>9, <2>1, AnswerAccounts
<1>. QED
  BY <1>2, <1>6, <1>7, <1>8, <1>10, OldAccounts DEF Accounted

LEMMA FirstAccounted ==
  ASSUME IInv, Accounted, NEW c \in Calls, FirstStatement(c)
  PROVE  Accounted'
<1>1. /\ pc[c] = "rules" /\ pc'[c] = "second"
      /\ \A b \in Calls \ {c} : pc'[b] = pc[b]
      /\ todo' = todo /\ left' = left /\ rows' = rows
  BY DEF FirstStatement, NextRule, Goto, IInv, TypeOK
<1>2. Accounts(c, "rules", todo[c], left[c], rows[c])
  BY <1>1 DEF Accounted, Running
<1>3. Accounts(c, "second", todo[c], left[c], rows[c])
  BY <1>2 DEF Accounts
<1>. QED
  BY <1>1, <1>3, OldAccounts DEF Accounted

LEMMA NextAccounted == IInv /\ Accounted /\ [Next]_vars => Accounted'
<1>. SUFFICES ASSUME IInv, Accounted, [Next]_vars PROVE Accounted'
  OBVIOUS
<1>1. ASSUME NEW c \in Calls, Start(c) PROVE Accounted'
  BY <1>1, StartAccounted
<1>2. ASSUME NEW c \in Calls, Bind(c) PROVE Accounted'
  BY <1>2, SourceAccounted, RuleAccounted, FirstAccounted DEF Bind
<1>3. ASSUME NEW c \in Calls, Emit(c) \/ EmitNothing(c) PROVE Accounted'
  <2>1. todo' = todo /\ left' = left /\ rows' = rows
    BY <1>3 DEF Emit, EmitNothing
  <2>2. \A b \in Calls : pc'[b] = pc[b] \/ pc'[b] = "done"
    BY <1>3 DEF Emit, EmitNothing, Goto, IInv, TypeOK
  <2>. QED
    BY <2>1, <2>2, OldAccounts DEF Accounted, Running
<1>4. CASE UNCHANGED callVars
  BY <1>4, OldAccounts DEF callVars, Accounted
<1>5. ASSUME NEW n \in DOMAIN views, DropView(n) PROVE Accounted'
  BY <1>4, <1>5 DEF DropView
<1>. QED
  BY <1>1, <1>2, <1>3, <1>4, <1>5 DEF Next, vars

\* The rows of a call that has visited its sources tell of each of them in
\* turn: one row if it could not be bound, and otherwise one for each rule.
THEOREM EverySourceIsTold == Spec => []RowsAccountForSources
<1>1. Init => Accounted
  BY DEF Init, Accounted, Running
<1>2. Accounted /\ IInv => RowsAccountForSources
  <2>. SUFFICES ASSUME Accounted, IInv, NEW c \in Calls, Bound(c)
                PROVE  \E failed \in SUBSET Strings(c) :
                         Pairs(rows[c]) = Before(c, failed, Len(Argument[c]))
    <3>1. \A b \in Calls : \A failed :
            Before(b, failed, Len(Argument[b]))
              = FlattenSeq([i \in DOMAIN Argument[b] |-> Told(b, failed, i)])
      BY ArgumentAssumption DEF Before
    <3>. QED
      BY <3>1 DEF RowsAccountForSources, Pairs
  <2>1. Accounts(c, "sources", {}, left[c], rows[c])
    BY DEF Accounted, Bound, Running
  <2>2. PICK failed \in SUBSET Strings(c) :
          Pairs(rows[c]) = Before(c, failed, Len(Argument[c])) \o << >>
    BY <2>1 DEF Accounts, Reached
  <2>3. Before(c, failed, Len(Argument[c])) \in Seq(Pair(c))
    <3>1. Len(Argument[c]) \in 0..Len(Argument[c])
      BY ArgumentAssumption
    <3>. QED
      BY <3>1, BeforeType
  <2>4. Pairs(rows[c]) = Before(c, failed, Len(Argument[c]))
    BY <2>2, <2>3
  <2>. QED
    BY <2>4
<1>. QED
  BY <1>1, <1>2, Invariance, NextAccounted, PTL DEF Spec
=============================================================================
