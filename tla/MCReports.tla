------------------------------ MODULE MCReports ------------------------------
(***************************************************************************)
(* Small instances of Reports.                                             *)
(***************************************************************************)
EXTENDS Reports

CONSTANTS r1, r2

\* r1 has an empty rule set or two rules; r2 has one.
MCSizes == [r \in Runs |-> IF r = r1 THEN {0, 2} ELSE {1}]
=============================================================================
