----------------------------- MODULE MCSuggest -----------------------------
(***************************************************************************)
(* Contents on either side of each threshold of dq_suggest.                *)
(***************************************************************************)
EXTENDS Suggest

Of(n, Cell1(_), Cell2(_)) ==
  [exists |-> TRUE, rows |-> [i \in 1..n |-> <<Cell1(i), Cell2(i)>>]]
MCContents ==
  [missing |-> [exists |-> FALSE, rows |-> <<>>],
   empty |-> Of(0, LAMBDA i : i, LAMBDA i : i),
   \* Nothing to suggest: distinct values, exactly 10% NULL, four rows of one value.
   clean |-> Of(10, LAMBDA i : i, LAMBDA i : IF i = 1 THEN Null ELSE i),
   few |-> Of(4, LAMBDA i : i, LAMBDA i : 1),
   \* NULLs in both columns, and two values in one.
   nulls |-> Of(5, LAMBDA i : IF i = 1 THEN Null ELSE i,
                   LAMBDA i : IF i > 2 THEN Null ELSE i),
   \* Less than 1% distinct, and exactly 1%.
   copies |-> Of(101, LAMBDA i : 1, LAMBDA i : i),
   bound |-> Of(100, LAMBDA i : i, LAMBDA i : 1)]
MCLength == [v \in {} |-> 0]
=============================================================================
