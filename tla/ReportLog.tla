------------------------------ MODULE ReportLog ------------------------------
(***************************************************************************)
(* What dq_run promises of the report history: a run records at most one   *)
(* report, a run that is refused has recorded none and never will, and     *)
(* reports are only ever added, unless a session empties the table.  A     *)
(* recorded run may or may not live to tell its caller.  Reports           *)
(* implements this module.                                                 *)
(***************************************************************************)
EXTENDS Sequences

CONSTANT Runs           \* calls of dq_run, each made once

VARIABLES written,      \* the runs in the report table, oldest first
          fate          \* fate[r]: "open", "recorded", "refused" or "gone"

lvars == <<written, fate>>

Init == /\ written = <<>>
        /\ fate = [r \in Runs |-> "open"]

\* The report and the decision are one step of the database.
Record(r) == /\ fate[r] = "open"
             /\ fate' = [fate EXCEPT ![r] = "recorded"]
             /\ written' = Append(written, r)

Refuse(r) == /\ fate[r] = "open"
             /\ fate' = [fate EXCEPT ![r] = "refused"]
             /\ UNCHANGED written

\* A crash takes some of the runs that were not decided yet.
Crash == \E S \in SUBSET {r \in Runs : fate[r] = "open"} :
           /\ fate' = [r \in Runs |-> IF r \in S THEN "gone" ELSE fate[r]]
           /\ UNCHANGED written

Empty == written' = <<>> /\ UNCHANGED fate

Next == \/ \E r \in Runs : Record(r) \/ Refuse(r)
        \/ Crash
        \/ Empty

Spec == Init /\ [][Next]_lvars
=============================================================================
