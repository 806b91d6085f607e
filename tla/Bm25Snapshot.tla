---------------------------- MODULE Bm25Snapshot ----------------------------
(***************************************************************************)
(* The snapshot that both BM25 backends export and import (bm25/mod.rs):   *)
(* pairs of an id and its raw text.  The lists of ids and the two totals   *)
(* that a snapshot also carries are written and never read.                *)
(***************************************************************************)
EXTENDS Naturals, Sequences

CONSTANTS Ids,          \* document ids
          Texts,        \* texts of documents
          NoText,       \* the text of an id that is not indexed
          Snapshots     \* sequences of <<id, text>> that a snapshot may hold

ASSUME NoTextAssumption == NoText \notin Texts

Occurrences(snap, id) == {i \in DOMAIN snap : snap[i][1] = id}
LastText(snap, id) ==
  IF Occurrences(snap, id) = {} THEN NoText
  ELSE snap[CHOOSE i \in Occurrences(snap, id) :
              \A j \in Occurrences(snap, id) : j <= i][2]
=============================================================================
