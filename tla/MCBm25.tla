------------------------------- MODULE MCBm25 -------------------------------
(***************************************************************************)
(* Plain ids `a' and `b', and an id `a-b' that is cut into these two; an   *)
(* English text that the stemmer changes and a text with CJK characters    *)
(* that it does not, which share a term.                                   *)
(***************************************************************************)
EXTENDS Bm25Backends

MCIds == {"a", "b", "a-b"}
MCWords == [id \in MCIds |-> IF id = "a-b" THEN {"a", "b"} ELSE {id}]
\* "duckdb runs runs" and a CJK text with the word duckdb; "runs" is queried.
MCTexts == {"en", "zh"}
MCTokens ==
  [on \in BOOLEAN |->
     [text \in {"en", "zh", "query"} |->
        CASE text = "zh" -> <<"duckdb">>
          [] text = "en" -> IF on THEN <<"duckdb", "run", "run">> ELSE <<"duckdb", "runs", "runs">>
          [] text = "query" -> IF on THEN <<"run">> ELSE <<"runs">>]]
MCBytes == [text \in MCTexts |-> IF text = "en" THEN 2 ELSE 1]
\* Snapshots of two documents; an index may hold three.
MCSnapshots == SeqOf(MCIds \X MCTexts, 2)
=============================================================================
