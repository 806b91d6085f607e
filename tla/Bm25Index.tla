------------------------------ MODULE Bm25Index ------------------------------
(***************************************************************************)
(* What a BM25 backend promises of its documents: an id has the text it    *)
(* was last indexed with, until it is removed or the index is reset, and a *)
(* restored index has the documents of the snapshot and no other, the last *)
(* text of an id that occurs twice.  Nothing is said of terms or scores.   *)
(* Handrolled implements this module, and Tantivy does for plain ids.      *)
(***************************************************************************)
EXTENDS Bm25Snapshot

VARIABLE content        \* content[id]: its text, or NoText

Init == content = [id \in Ids |-> NoText]

Index(id, text) == content' = [content EXCEPT ![id] = text]
Remove(id) == content' = [content EXCEPT ![id] = NoText]
Reset == content' = [id \in Ids |-> NoText]

Restore(snap) == content' = [id \in Ids |-> LastText(snap, id)]

Next == \/ \E id \in Ids : Remove(id) \/ \E text \in Texts : Index(id, text)
        \/ Reset
        \/ \E snap \in Snapshots : Restore(snap)

Spec == Init /\ [][Next]_content
=============================================================================
