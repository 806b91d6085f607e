---------------------------- MODULE MCFederated ----------------------------
(***************************************************************************)
(* Two calls on the sources pg-a, pg_a and my: the first two sanitize to   *)
(* the same view name.                                                     *)
(***************************************************************************)
EXTENDS Federated

CONSTANTS c1, c2, pg, my

MCSources == {"pg-a", "pg_a", "my"}
MCName == [s \in MCSources |-> IF s = "my" THEN my ELSE pg]
\* c1 visits both namesakes and an item that is no string; c2 another table.
MCArgument == (c1 :> <<"pg-a", NoName, "pg_a">>) @@ (c2 :> <<"my", "pg_a">>)
MCTable == (c1 :> "orders") @@ (c2 :> "items")
MCRules == (c1 :> <<1, 2>>) @@ (c2 :> <<2, 0>>)
=============================================================================
