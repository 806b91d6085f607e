----------------------------- MODULE Handrolled -----------------------------
(***************************************************************************)
(* The default BM25 backend (bm25/handrolled.rs): an inverted index kept   *)
(* up to date as documents are indexed, replaced and removed, under one    *)
(* process-wide mutex: a call is one step, except that import is seen      *)
(* document by document.  The stemmer may be switched at any time and the  *)
(* documents indexed before are not cut into terms again.                  *)
(*                                                                         *)
(* The terms of a text are given: Tokens[on][text] with the stemmer on or  *)
(* off.  Text with CJK characters is segmented and never stemmed, so its   *)
(* terms are the same either way.  lib.rs does not declare the module bm25 *)
(* in this commit; the semantic_bm25_* functions that its documentation    *)
(* names (external) are taken to make one call each.                       *)
(***************************************************************************)
EXTENDS Bm25Snapshot, FiniteSets, SequencesExt

CONSTANTS Queries,      \* texts of queries
          Terms,        \* what texts are cut into
          Tokens        \* Tokens[on][text]: its terms, in order

ASSUME SnapshotsAssumption == Snapshots \subseteq Seq(Ids \X Texts)
ASSUME TokensAssumption ==
  Tokens \in [BOOLEAN -> [Texts \cup Queries -> Seq(Terms)]]

VARIABLES index,        \* the fields of Bm25Index but the stemmer
          stemmer,      \* whether a stemmer is set
          how,          \* history: how[id]: the stemmer when id was indexed, if it is
          rest          \* the documents import has still to index

hvars == <<index, stemmer, how, rest>>

(* HashMaps are functions on the keys they hold. *)
Put(map, key, value) ==
  [k \in DOMAIN map \cup {key} |-> IF k = key THEN value ELSE map[k]]

Frequency(tokens, t) == Cardinality({i \in DOMAIN tokens : tokens[i] = t})

Empty == <<>>
EmptyIndex == [inverted |-> Empty, docs |-> Empty, doc_texts |-> Empty,
               doc_count |-> 0, total_len |-> 0]

\* Faulty variant: the postings are not pruned.
RemovedFromDocs(x, id) ==
  [inverted |-> x.inverted,
   docs |-> Restrict(x.docs, DOMAIN x.docs \ {id}),
   doc_texts |-> Restrict(x.doc_texts, DOMAIN x.doc_texts \ {id}),
   doc_count |-> x.doc_count - 1,
   total_len |-> x.total_len - x.docs[id]]

\* Faulty variant: a term stays when its last document goes.
RemovedKeepingTerms(x, id) ==
  [RemovedFromDocs(x, id) EXCEPT
     !.inverted = [t \in DOMAIN x.inverted |->
                     Restrict(x.inverted[t], DOMAIN x.inverted[t] \ {id})]]

\* Without the document, and without the terms that only it had.
Removed(x, id) ==
  LET Pruned(t) == Restrict(x.inverted[t], DOMAIN x.inverted[t] \ {id})
      others == {t \in DOMAIN x.inverted : DOMAIN x.inverted[t] \ {id} # {}}
  IN [inverted |-> [t \in others |-> Pruned(t)],
      docs |-> Restrict(x.docs, DOMAIN x.docs \ {id}),
      doc_texts |-> Restrict(x.doc_texts, DOMAIN x.doc_texts \ {id}),
      doc_count |-> x.doc_count - 1,
      total_len |-> x.total_len - x.docs[id]]

\* remove_doc: an unknown id changes nothing.
WithoutDoc(x, id) == IF id \in DOMAIN x.docs THEN Removed(x, id) ELSE x

\* A document whose id is not held is put.
Added(y, id, text, tokens) ==
  LET Posting(t) == IF t \in DOMAIN y.inverted THEN y.inverted[t] ELSE Empty
  IN [inverted |-> [t \in DOMAIN y.inverted \cup ToSet(tokens) |->
                      IF t \in ToSet(tokens) THEN Put(Posting(t), id, Frequency(tokens, t))
                      ELSE y.inverted[t]],
      docs |-> Put(y.docs, id, Len(tokens)),
      doc_texts |-> Put(y.doc_texts, id, text),
      doc_count |-> y.doc_count + 1,
      total_len |-> y.total_len + Len(tokens)]

\* Faulty variant: the old entry is not removed first.
WithDocOverOld(x, id, text, on) == Added(x, id, text, Tokens[on][text])

\* index_doc: the old entry goes first.
WithDoc(x, id, text, on) == Added(WithoutDoc(x, id), id, text, Tokens[on][text])

Unset == [id \in Ids |-> TRUE]

HInit == /\ index = EmptyIndex
         /\ stemmer = TRUE
         /\ how = Unset
         /\ rest = <<>>

Free == rest = <<>>

HIndexDoc(id, text) ==
  /\ Free
  /\ index' = WithDoc(index, id, text, stemmer)
  /\ how' = [how EXCEPT ![id] = stemmer]
  /\ UNCHANGED <<stemmer, rest>>

HRemoveDoc(id) ==
  /\ Free
  /\ index' = WithoutDoc(index, id)
  /\ how' = [how EXCEPT ![id] = TRUE]
  /\ UNCHANGED <<stemmer, rest>>

\* reset preserves the stemmer setting.
HReset == /\ Free
          /\ index' = EmptyIndex
          /\ how' = Unset
          /\ UNCHANGED <<stemmer, rest>>

\* set_stemmer and clear_stemmer: nothing is indexed again.
HSetStemmer(on) == /\ Free
                   /\ stemmer' = on
                   /\ UNCHANGED <<index, how, rest>>

\* Faulty variant: the documents already there are kept.
HImportMerging(snap) ==
  /\ Free
  /\ rest' = snap
  /\ UNCHANGED <<index, stemmer, how>>

\* import: reset, then index_doc for each document of the snapshot.
HImport(snap) == /\ Free
                 /\ index' = EmptyIndex
                 /\ rest' = snap
                 /\ how' = Unset
                 /\ UNCHANGED stemmer

HImportNext ==
  /\ rest # <<>>
  /\ LET doc == Head(rest) IN
       /\ index' = WithDoc(index, doc[1], doc[2], stemmer)
       /\ how' = [how EXCEPT ![doc[1]] = stemmer]
  /\ rest' = Tail(rest)
  /\ UNCHANGED stemmer

HNext == \/ \E id \in Ids : HRemoveDoc(id) \/ \E text \in Texts : HIndexDoc(id, text)
         \/ HReset
         \/ \E on \in BOOLEAN : HSetStemmer(on)
         \/ \E snap \in Snapshots : HImport(snap)
         \/ HImportNext

HSpec == HInit /\ [][HNext]_hvars

\* export: the documents in the order of a HashMap's keys.
HExports(snap) ==
  /\ Len(snap) = Cardinality(DOMAIN index.docs)
  /\ ToSet(snap) = {<<id, index.doc_texts[id]>> : id \in DOMAIN index.docs}

\* search, before it cuts to the best k: the documents with a term of the query.
Found(query) ==
  {id \in DOMAIN index.docs :
     \E t \in ToSet(Tokens[stemmer][query]) \cap DOMAIN index.inverted :
       id \in DOMAIN index.inverted[t]}

---------------------------------------------------------------------------
(* Properties *)

Holding == DOMAIN index.doc_texts
TermsOf(id) == Tokens[how[id]][index.doc_texts[id]]
HTypeOK ==
  /\ index.doc_texts \in [Holding -> Texts] /\ Holding \subseteq Ids
  /\ stemmer \in BOOLEAN
  /\ how \in [Ids -> BOOLEAN]
  /\ rest \in Seq(Ids \X Texts)

\* The inverted index of some documents, cut with the stemmer as h says.
Cut(texts, h, id) == Tokens[h[id]][texts[id]]
Having(texts, h, t) == {id \in DOMAIN texts : t \in ToSet(Cut(texts, h, id))}
Inverted(texts, h) ==
  [t \in {u \in Terms : Having(texts, h, u) # {}} |->
     [id \in Having(texts, h, t) |-> Frequency(Cut(texts, h, id), t)]]
RebuiltFrom(x, h) ==
  /\ x.inverted = Inverted(x.doc_texts, h)
  /\ x.docs = [id \in DOMAIN x.doc_texts |-> Len(Cut(x.doc_texts, h, id))]
  /\ x.doc_count = Cardinality(DOMAIN x.doc_texts)

\* handrolled.rs "supports incremental add/remove without full rebuild": after
\* any calls the index is what a full rebuild would give, each document cut
\* with the stemmer it was indexed with; no term is left without a document.
IncrementalIsRebuilt == RebuiltFrom(index, how)

\* A score is the sum of idf times a positive weight over the terms found: idf
\* is positive and no length is divided by zero.
ScoresArePositive ==
  \A t \in DOMAIN index.inverted :
    /\ Cardinality(DOMAIN index.inverted[t]) \in 1..index.doc_count
    /\ index.total_len > 0

\* search finds a document exactly if the query, cut as the stemmer is now, has
\* a term of the document as it was cut: after a switch of the stemmer the two
\* need not meet, and a document of the very words of the query is not found.
FoundAsIndexed ==
  \A q \in Queries :
    Found(q) = {id \in Holding : ToSet(Tokens[stemmer][q]) \cap ToSet(TermsOf(id)) # {}}

\* The documents of the index, those that import is about to put included.
HContent ==
  [id \in Ids |->
     IF Occurrences(rest, id) # {} THEN LastText(rest, id)
     ELSE IF id \in Holding THEN index.doc_texts[id] ELSE NoText]
HandrolledIndex == INSTANCE Bm25Index WITH content <- HContent
\* Each call does to the documents what a Bm25Index promises of that call, and
\* switching the stemmer or the work of import shows nothing of itself.
HandrolledIsIndex ==
  /\ HandrolledIndex!Init
  /\ [][/\ \A id \in Ids : HRemoveDoc(id) => HandrolledIndex!Remove(id)
        /\ \A id \in Ids, text \in Texts : HIndexDoc(id, text) => HandrolledIndex!Index(id, text)
        /\ HReset => HandrolledIndex!Reset
        /\ \A snap \in Snapshots : HImport(snap) => HandrolledIndex!Restore(snap)
        /\ \A on \in BOOLEAN : HSetStemmer(on) => UNCHANGED HContent
        /\ HImportNext => UNCHANGED HContent]_hvars
=============================================================================
