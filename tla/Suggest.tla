------------------------------ MODULE Suggest ------------------------------
(***************************************************************************)
(* dq_suggest and profile_table, and the way back of a suggestion: the     *)
(* user picks some of the suggested rules and hands them, as the members   *)
(* of a JSON object, to validate_expectations (lib.rs), which runs them by *)
(* run_rules (validate.rs).  Each call collects its rows while it is bound *)
(* and writes them one by one while it is scanned.  Other sessions commit  *)
(* between any two statements.                                             *)
(*                                                                         *)
(* Contents of the table are known by names, so that they can have as many *)
(* rows as the thresholds of dq_suggest ask for.  A statement that cannot  *)
(* be answered, for whatever reason, is answered as on the missing table.  *)
(* Severities and reasons are left out, and the counts of a verdict, which *)
(* are the subject of RuleRun.                                             *)
(***************************************************************************)
EXTENDS Rules, SequencesExt

CONSTANTS Contents,     \* Contents[name] = [exists, rows]: what may be committed
          Missing,      \* the name of the contents without the table
          Width,        \* columns of the table
          Inexact,      \* how far approx_unique is from the number of values, percent
          Lossy,        \* whether a statement may fail
          MaxFed,       \* bound: members of the JSON object handed over
          MaxCommits    \* bound: commits of other sessions

ASSUME MissingAssumption == Missing \in DOMAIN Contents /\ ~ Contents[Missing].exists
ASSUME ContentsAssumption ==
  /\ \A d \in DOMAIN Contents :
       /\ Contents[d].exists \in BOOLEAN
       /\ Contents[d].rows \in Seq([1..Width -> Int \cup {Null}])
  /\ "none" \notin DOMAIN Contents
\* An absent member is not taken for the number of a suggestion.
ASSUME NoBoundAssumption == NoBound # <<"int", 1>>
ASSUME WidthAssumption == Width \in Nat
\* HyperLogLog is off by a few percent: an estimate that is off by nearly all
\* the values would find duplicates in a column without any.
ASSUME InexactAssumption == Inexact \in 0..98
ASSUME LossyAssumption == Lossy \in BOOLEAN
ASSUME BoundsAssumption == MaxFed \in Nat /\ MaxCommits \in Nat

VARIABLES db,           \* the contents committed
          call,         \* "none", or the function that the user calls
          pc,           \* its next step: "count", "summarize", "rules" or "scan"
          rows,         \* the rows it has collected
          cursor,       \* how many of them it has written
          total,        \* dq_suggest: the row count, or -1
          todo,         \* validate_expectations: positions in fed still to check
          read,         \* what the first statement of a rule has read, or "none"
          offered,      \* what dq_suggest has returned to the user
          fed,          \* the members handed over
          seen,         \* history: contents committed since the call began
          changed,      \* history: a commit since dq_suggest was called
          commits       \* commits so far

vars == <<db, call, pc, rows, cursor, total, todo, read, offered, fed, seen, changed, commits>>
outside == <<db, changed, commits>>

Columns == 1..Width
Cells(d, c) == [i \in DOMAIN Contents[d].rows |-> <<Contents[d].rows[i][c], 0>>]
Answers == IF Lossy THEN {db, Missing} ELSE {db}

Init == /\ db \in DOMAIN Contents
        /\ call = "none" /\ pc = "none"
        /\ rows = <<>> /\ cursor = 0
        /\ total = -1 /\ todo = {} /\ read = "none"
        /\ offered = <<>> /\ fed = <<>>
        /\ seen = {} /\ changed = FALSE /\ commits = 0

Begin(f, step) == /\ call = "none"
                  /\ call' = f /\ pc' = step
                  /\ seen' = {db}
                  /\ rows' = <<>> /\ cursor' = 0
                  /\ UNCHANGED <<db, commits, read>>

---------------------------------------------------------------------------
(* dq_suggest and profile_table *)

\* A suggested rule: its name in validate.rs without the prefix, and the
\* column.  in_set comes with "value_set": [] and row_count_between with "min": 1.
Suggestion(name, c) == [name |-> name, column |-> c]

CallSuggest == /\ Begin("suggest", "count")
               /\ changed' = FALSE
               /\ UNCHANGED <<total, todo, offered, fed>>

CountRows ==
  /\ pc = "count"
  /\ \E d \in Answers :
       /\ total' = IF Contents[d].exists THEN Len(Contents[d].rows) ELSE -1
       /\ rows' = IF total' = 0 THEN <<Suggestion("row_count_between", 0)>> ELSE <<>>
  /\ pc' = "summarize"
  /\ UNCHANGED <<call, cursor, todo, read, offered, fed, seen, outside>>

\* SUMMARIZE counts the rows, NULL or not, and estimates the distinct values:
\* the error is in percent of their number, rounded up.
Estimates(d, c) ==
  LET n == Cardinality(Distinct(Cells(d, c)))
      off == Inexact * n + 99
  IN {k \in 0..(2 * n) : -off <= 100 * (k - n) /\ 100 * (k - n) <= off}

\* Faulty variant: any share of NULLs is enough.
SignalsOfAnyNull(d, c, distinct) ==
  IF Len(Cells(d, c)) = 0 THEN <<>> ELSE <<Suggestion("not_null", c)>>

\* The signals of one column: more than 10% NULL, at most two values in five
\* rows or more, less than 1% distinct in a hundred or more.
Signals(d, c, distinct) ==
  LET count == Len(Cells(d, c))
      nulls == count - Cardinality(Present(Cells(d, c)))
      If(signal, name) == IF count > 0 /\ signal THEN <<Suggestion(name, c)>> ELSE <<>>
  IN If(nulls * 10 > count, "not_null")
       \o If(distinct \in 1..2 /\ count >= 5, "in_set")
       \o If(count >= 100 /\ distinct > 0 /\ distinct * 100 < count, "unique")

Summarize ==
  /\ pc = "summarize" /\ call = "suggest"
  /\ \E d \in Answers :
       IF Contents[d].exists
       THEN \E distinct \in [Columns -> UNION {Estimates(d, c) : c \in Columns}] :
              /\ \A c \in Columns : distinct[c] \in Estimates(d, c)
              /\ rows' = rows \o FlattenSeq([c \in Columns |-> Signals(d, c, distinct[c])])
       ELSE UNCHANGED rows
  /\ pc' = "scan"
  /\ UNCHANGED <<call, cursor, total, todo, read, offered, fed, seen, outside>>

\* profile_table: a row for each column, or one that says ERROR.
CallProfile == /\ Begin("profile", "summarize")
               /\ UNCHANGED <<changed, total, todo, offered, fed>>

Profile ==
  /\ pc = "summarize" /\ call = "profile"
  /\ \E d \in Answers :
       rows' = IF Contents[d].exists THEN [c \in Columns |-> Suggestion("profile", c)]
               ELSE <<Suggestion("ERROR", 0)>>
  /\ pc' = "scan"
  /\ UNCHANGED <<call, cursor, total, todo, read, offered, fed, seen, outside>>

---------------------------------------------------------------------------
(* validate_expectations *)

\* Faulty variant: the first of equal keys stays.
MembersFirst(object) ==
  {i \in DOMAIN object : \A j \in DOMAIN object : j < i => object[j].name # object[i].name}

\* serde_json's map: the last of equal keys stays.
Members(object) ==
  {i \in DOMAIN object : \A j \in DOMAIN object : j > i => object[j].name # object[i].name}

\* run_rules meets the members in the order of their full names.
Order == [not_null |-> 1, in_set |-> 2, unique |-> 3, row_count_between |-> 4]
First == CHOOSE i \in todo : \A j \in todo : Order[fed[i].name] <= Order[fed[j].name]

\* What run_rules makes of the params of a suggestion: it looks for "values",
\* which a suggestion with "value_set" does not have.
Rule(m) == [name |-> m.name, min |-> IF m.name = "row_count_between" THEN <<"int", 1>> ELSE NoBound,
            max |-> NoBound, list |-> {}]
ContentsFor(d, m) ==
  [exists |-> Contents[d].exists,
   rows |-> IF m.column \in Columns THEN Cells(d, m.column) ELSE Contents[d].rows]
Row(m, d1, d2) ==
  LET verdict == Verdict(Rule(m), ContentsFor(d1, m), ContentsFor(d2, m))
  IN [name |-> m.name, column |-> m.column, passed |-> verdict.passed, error |-> verdict.error]

CallValidate(object) ==
  /\ Begin("validate", "rules")
  /\ fed' = object /\ todo' = Members(object)
  /\ UNCHANGED <<changed, total, offered>>

\* Text that is no JSON object: one row that says so.
CallMalformed ==
  /\ call = "none"
  /\ call' = "malformed" /\ pc' = "scan"
  /\ seen' = {db}
  /\ rows' = <<Suggestion("ERROR", 0)>> /\ cursor' = 0
  /\ UNCHANGED <<read, todo, fed, total, offered, outside>>

Checked(row) == /\ rows' = Append(rows, row)
                /\ todo' = todo \ {First}
                /\ read' = "none"

\* in_set finds no values and sends no statement.
NoStatement ==
  /\ pc = "rules" /\ todo # {} /\ fed[First].name = "in_set"
  /\ Checked(Row(fed[First], db, db))
  /\ UNCHANGED <<call, pc, cursor, total, offered, fed, seen, outside>>

FirstStatement ==
  /\ pc = "rules" /\ todo # {} /\ fed[First].name # "in_set" /\ read = "none"
  /\ \E d \in Answers :
       IF fed[First].name \in TwoStatements /\ Contents[d].exists
       THEN read' = d /\ UNCHANGED <<rows, todo>>
       ELSE Checked(Row(fed[First], d, d))
  /\ UNCHANGED <<call, pc, cursor, total, offered, fed, seen, outside>>

SecondStatement ==
  /\ pc = "rules" /\ read # "none"
  /\ \E d \in Answers : Checked(Row(fed[First], read, d))
  /\ UNCHANGED <<call, pc, cursor, total, offered, fed, seen, outside>>

AllChecked == /\ pc = "rules" /\ todo = {}
              /\ pc' = "scan"
              /\ UNCHANGED <<call, rows, cursor, total, todo, read, offered, fed, seen, outside>>

---------------------------------------------------------------------------
(* The scans *)

\* Faulty variant: the cursor is not moved.
WriteAgain == /\ pc = "scan" /\ cursor < Len(rows)
              /\ cursor' = cursor
              /\ UNCHANGED <<call, pc, rows, total, todo, read, offered, fed, seen, outside>>

\* Faulty variant: the cursor is moved before it is compared.
WritePastEnd == /\ pc = "scan" /\ cursor <= Len(rows)
                /\ cursor' = cursor + 1
                /\ UNCHANGED <<call, pc, rows, total, todo, read, offered, fed, seen, outside>>

\* One row in a chunk of one.
Write == /\ pc = "scan" /\ cursor < Len(rows)
         /\ cursor' = cursor + 1
         /\ UNCHANGED <<call, pc, rows, total, todo, read, offered, fed, seen, outside>>

\* An empty chunk: the user has it all.
WriteNothing ==
  /\ pc = "scan" /\ cursor >= Len(rows)
  /\ call' = "none" /\ pc' = "none"
  /\ offered' = IF call = "suggest" THEN rows ELSE offered
  /\ rows' = <<>> /\ cursor' = 0
  /\ UNCHANGED <<total, todo, read, fed, seen, outside>>

(* Other sessions (external) *)
Commit(d) == /\ commits < MaxCommits /\ d # db
             /\ db' = d
             /\ seen' = seen \cup {d} /\ changed' = TRUE /\ commits' = commits + 1
             /\ UNCHANGED <<call, pc, rows, cursor, total, todo, read, offered, fed>>

\* The user calls what the suggestions allow.
UserCalls == \/ CallProfile \/ CallSuggest \/ CallMalformed
             \/ \E object \in SeqOf(ToSet(offered), MaxFed) : CallValidate(object)
Work == \/ CountRows \/ Summarize \/ Profile
        \/ NoStatement \/ FirstStatement \/ SecondStatement \/ AllChecked
        \/ Write \/ WriteNothing
Next == UserCalls \/ Work \/ \E d \in DOMAIN Contents : Commit(d)

Spec == Init /\ [][Next]_vars
\* The thread that is in a call goes on with it.
FairSpec == Spec /\ WF_vars(Work)

---------------------------------------------------------------------------
(* Properties *)

Names == {"row_count_between", "not_null", "in_set", "unique"}
Suggestions == [name : {"row_count_between"}, column : {0}]
                 \cup [name : Names \ {"row_count_between"}, column : Columns]
Reported == [name : Names, column : 0..Width, passed : BOOLEAN, error : BOOLEAN]
Told == [name : {"profile", "ERROR"}, column : 0..Width]
TypeOK ==
  /\ {db} \cup seen \subseteq DOMAIN Contents
  /\ call \in {"none", "suggest", "profile", "validate", "malformed"}
  /\ pc \in {"none", "count", "summarize", "rules", "scan"}
  /\ rows \in Seq(Suggestions \cup Reported \cup Told)
  /\ cursor \in 0..Len(rows)
  /\ total \in Nat \cup {-1}
  /\ {offered, fed} \subseteq Seq(Suggestions)
  /\ todo \subseteq DOMAIN fed
  /\ read \in {"none"} \cup DOMAIN Contents
  /\ changed \in BOOLEAN
  /\ commits \in 0..MaxCommits

\* README "surfaces the checks worth running": a suggested check that is handed
\* back passes only if somebody has changed the table since it was suggested (a
\* set of accepted values, of which none are suggested, apart).
SuggestedChecksFail ==
  call = "validate" =>
    \A i \in DOMAIN rows : rows[i].passed /\ rows[i].name # "in_set" => changed

\* README "suggestions feed straight into validate_expectations", "each with
\* ready-to-run params": a suggested check that is handed back runs, unless
\* somebody has changed the table, when its statements are answered.
SuggestedChecksRun ==
  call = "validate" => \A i \in DOMAIN rows : rows[i].error => changed \/ Lossy

\* run_rules: every name that was handed over is answered once, for the last
\* column handed over with it, and a check that passed was true of contents
\* committed during the call, also when its statements saw different ones.  (A
\* uniqueness check may pass on a duplicate: see RuleRun.)
MembersAnswered ==
  call = "validate" =>
    /\ pc = "scan" => {rows[i].name : i \in DOMAIN rows} = {fed[i].name : i \in DOMAIN fed}
    /\ \A i, j \in DOMAIN rows : i # j => rows[i].name # rows[j].name
    /\ \A i \in DOMAIN rows :
         /\ \E j \in DOMAIN fed :
              /\ fed[j].name = rows[i].name /\ fed[j].column = rows[i].column
              /\ \A k \in DOMAIN fed : k > j => fed[k].name # fed[j].name
         /\ rows[i].passed /\ rows[i].name # "unique" =>
              \E d \in seen :
                /\ Contents[d].exists
                /\ IF rows[i].name = "row_count_between" THEN Contents[d].rows # <<>>
                   ELSE \A k \in DOMAIN Contents[d].rows : Contents[d].rows[k][rows[i].column] # Null

\* lib.rs "feeds straight": every call comes to its end, whatever its statements
\* answer and whatever is committed meanwhile.
CallsEnd == call # "none" ~> call = "none"
=============================================================================
