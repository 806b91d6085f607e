------------------------------ MODULE MCEngine ------------------------------
(***************************************************************************)
(* Small instances of Engine.                                              *)
(***************************************************************************)
EXTENDS Engine, TLC

CONSTANTS d1, d2, c1, c2, c3

\* c1 and c2 are threads of sessions of d1; c3 of d2, or of d1 when it is alone.
MCHome == [c \in Callers |-> IF c = c3 /\ d2 \in Databases THEN d2 ELSE d1]
=============================================================================
