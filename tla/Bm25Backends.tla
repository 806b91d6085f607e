---------------------------- MODULE Bm25Backends ----------------------------
(***************************************************************************)
(* The two BM25 backends side by side: the SQL functions are the same for  *)
(* both (bm25/mod.rs), so each call is made on both, and a snapshot that   *)
(* one of them exports is imported by both.                                *)
(***************************************************************************)
EXTENDS Handrolled, Tantivy

CONSTANT MaxDocs        \* bound: documents in either index, stale ones included

ASSUME EmptySnapshotAssumption == <<>> \in Snapshots

VARIABLES saved,        \* the snapshot exported last
          kept,         \* history: the documents of plain ids then
          restored      \* history: nothing has changed since saved was imported

bvars == <<hvars, tvars, saved, kept, restored>>
saveVars == <<saved, kept>>

Init == HInit /\ TInit /\ saved = <<>> /\ kept = [id \in Plain |-> NoText] /\ restored = FALSE

Room == SumFunction(live) < MaxDocs

IndexDoc(id, text) == /\ Room
                      /\ HIndexDoc(id, text) /\ TIndexDoc(id, text)
                      /\ restored' = FALSE /\ UNCHANGED saveVars
RemoveDoc(id) == /\ HRemoveDoc(id) /\ TRemoveDoc(id)
                 /\ restored' = FALSE /\ UNCHANGED saveVars
Reset == /\ HReset /\ TReset
         /\ restored' = FALSE /\ UNCHANGED saveVars
SetStemmer(on) == /\ HSetStemmer(on) /\ TSetStemmer(on)
                  /\ UNCHANGED <<saveVars, restored>>

\* Either backend writes the snapshot.
Export(snap) ==
  /\ Free /\ Idle
  /\ HExports(snap) \/ TExports(snap)
  /\ saved' = snap
  /\ kept' = TContent
  /\ restored' = FALSE
  /\ UNCHANGED <<hvars, tvars>>

Import == /\ HImport(saved) /\ TImport(saved)
          /\ restored' = TRUE /\ UNCHANGED saveVars
ImportNext == /\ HImportNext /\ TImportNext
              /\ UNCHANGED <<saveVars, restored>>

Next == \/ \E id \in Ids : RemoveDoc(id) \/ \E text \in Texts : IndexDoc(id, text)
        \/ Reset
        \/ \E on \in BOOLEAN : SetStemmer(on)
        \/ \E snap \in Snapshots : Export(snap)
        \/ Import \/ ImportNext

Spec == Init /\ [][Next]_bvars

---------------------------------------------------------------------------
(* Properties *)

TypeOK == HTypeOK /\ TTypeOK

\* The totals that scores, len and the test for an empty index rest on are those
\* of the documents: they are usize, and no decrement goes below zero or is lost
\* in a saturation.
TotalsAreExact ==
  /\ index.total_len = SumFunction(index.docs)
  /\ books.doc_count = Cardinality(books.known)
  /\ books.total_len = SumFunctionOnSet(books.lens, books.known)

\* mod.rs "SQL functions are identical for both": after the same calls the two
\* backends hold the same documents under every plain id, and count the same ids.
BackendsAgree ==
  /\ \A id \in Plain : HContent[id] = TContent[id]
  /\ index.doc_count = books.doc_count /\ DOMAIN index.docs = books.known

\* mod.rs "texts holds (doc_id, raw_text) pairs so the index can be rebuilt on
\* restore": whichever backend wrote the snapshot, importing it gives both the
\* documents of that time back, for every plain id.
RestoredAsSaved ==
  restored => \A id \in Plain : HContent[id] = kept[id] /\ TContent[id] = kept[id]
=============================================================================
