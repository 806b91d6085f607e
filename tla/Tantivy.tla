------------------------------ MODULE Tantivy ------------------------------
(***************************************************************************)
(* The other BM25 backend (bm25/tantivy.rs): documents in an in-RAM        *)
(* tantivy index (external), and beside it the ids known, with the lengths *)
(* and totals kept by hand.  tantivy deletes by term: delete_term(id)      *)
(* takes away every document whose id field, cut by the default tokenizer  *)
(* into lower-case words, has the word id.  An id that is one lower-case   *)
(* word is plain; of the others, `doc-1' is cut into doc and 1, and no     *)
(* word of it is `doc-1'.                                                  *)
(*                                                                         *)
(* The results of the writer are discarded in the code; here its calls     *)
(* succeed.  A call is one step, import document by document.              *)
(***************************************************************************)
EXTENDS Bm25Snapshot, FiniteSets, SequencesExt

CONSTANTS Words,        \* Words[id]: the words an id is cut into, as ids
          Bytes         \* Bytes[text]: its length

ASSUME ImportsAssumption == Snapshots \subseteq Seq(Ids \X Texts)
ASSUME WordsAssumption == Words \in [Ids -> SUBSET Ids]
ASSUME BytesAssumption == Bytes \in [Texts -> Nat]

VARIABLES live,         \* live[<<id, text>>]: the documents of tantivy, counted
          books,        \* known, lens, doc_count and total_len
          toImport      \* the documents import has still to index

tvars == <<live, books, toImport>>

Plain == {id \in Ids : Words[id] = {id}}
Minus(a, b) == IF a < b THEN 0 ELSE a - b       \* saturating_sub

NoDocuments == [d \in Ids \X Texts |-> 0]
NoBooks == [known |-> {}, lens |-> [id \in {} |-> 0], doc_count |-> 0, total_len |-> 0]

TInit == live = NoDocuments /\ books = NoBooks /\ toImport = <<>>

\* Faulty variant: the old documents are not deleted.
DeleteNothing(l, id) == l

\* writer.delete_term
DeleteTerm(l, id) == [d \in DOMAIN l |-> IF id \in Words[d[1]] THEN 0 ELSE l[d]]

\* Replace: the old documents go, one is added, and the commit shows both.
Replaced(l, id, text) == [DeleteTerm(l, id) EXCEPT ![<<id, text>>] = @ + 1]

\* Faulty variant: the length of the old text stays in the total.
BooksWithoutOldLength(b, id, text) ==
  [known |-> b.known \cup {id},
   lens |-> [i \in DOMAIN b.lens \cup {id} |-> IF i = id THEN Bytes[text] ELSE b.lens[i]],
   doc_count |-> IF id \in b.known THEN b.doc_count ELSE b.doc_count + 1,
   total_len |-> b.total_len + Bytes[text]]

BooksWith(b, id, text) ==
  LET old == IF id \in b.known /\ id \in DOMAIN b.lens THEN b.lens[id] ELSE 0
  IN [known |-> b.known \cup {id},
      lens |-> [i \in DOMAIN b.lens \cup {id} |-> IF i = id THEN Bytes[text] ELSE b.lens[i]],
      doc_count |-> IF id \in b.known THEN b.doc_count ELSE b.doc_count + 1,
      total_len |-> Minus(b.total_len, old) + Bytes[text]]

\* Faulty variant: the id stays known.
BooksStillKnowing(b, id) ==
  LET old == IF id \in DOMAIN b.lens THEN b.lens[id] ELSE 0
  IN [known |-> b.known,
      lens |-> Restrict(b.lens, DOMAIN b.lens \ {id}),
      doc_count |-> Minus(b.doc_count, 1),
      total_len |-> Minus(b.total_len, old)]

BooksWithout(b, id) ==
  LET old == IF id \in DOMAIN b.lens THEN b.lens[id] ELSE 0
  IN [known |-> b.known \ {id},
      lens |-> Restrict(b.lens, DOMAIN b.lens \ {id}),
      doc_count |-> Minus(b.doc_count, 1),
      total_len |-> Minus(b.total_len, old)]

Idle == toImport = <<>>

TIndexDoc(id, text) ==
  /\ Idle
  /\ live' = Replaced(live, id, text)
  /\ books' = BooksWith(books, id, text)
  /\ UNCHANGED toImport

\* An id that is not known is not looked for.
TRemoveDoc(id) ==
  /\ Idle
  /\ IF id \in books.known
     THEN live' = DeleteTerm(live, id) /\ books' = BooksWithout(books, id)
     ELSE UNCHANGED <<live, books>>
  /\ UNCHANGED toImport

\* Faulty variant: the books are not cleared.
TResetDocuments == /\ Idle
                   /\ live' = NoDocuments
                   /\ UNCHANGED <<books, toImport>>

TReset == /\ Idle
          /\ live' = NoDocuments /\ books' = NoBooks
          /\ UNCHANGED toImport

\* set_stemmer and clear_stemmer do nothing: the chain always stems.
TSetStemmer(on) == Idle /\ UNCHANGED tvars

TImport(snap) == /\ Idle
                 /\ live' = NoDocuments /\ books' = NoBooks
                 /\ toImport' = snap

TImportNext ==
  /\ toImport # <<>>
  /\ LET doc == Head(toImport) IN
       /\ live' = Replaced(live, doc[1], doc[2])
       /\ books' = BooksWith(books, doc[1], doc[2])
  /\ toImport' = Tail(toImport)

TNext == \/ \E id \in Ids : TRemoveDoc(id) \/ \E text \in Texts : TIndexDoc(id, text)
         \/ TReset
         \/ \E on \in BOOLEAN : TSetStemmer(on)
         \/ \E snap \in Snapshots : TImport(snap)
         \/ TImportNext

TSpec == TInit /\ [][TNext]_tvars

\* export: every document of the index, in any order, the ids of stale ones too.
TExports(snap) ==
  \A d \in DOMAIN live : Cardinality({i \in DOMAIN snap : snap[i] = d}) = live[d]

\* The documents a search may return: none at all when no id is known.
Searchable(id) ==
  IF books.doc_count = 0 THEN {} ELSE {text \in Texts : live[<<id, text>>] > 0}

---------------------------------------------------------------------------
(* Properties *)

TTypeOK ==
  /\ live \in [Ids \X Texts -> Nat]
  /\ books.known \subseteq Ids /\ books.lens \in [books.known -> Nat]
  /\ books.total_len \in Nat
  /\ toImport \in Seq(Ids \X Texts)

\* tantivy.rs "Index or replace one document by (id, text)": a plain id has one
\* document while it is known and none when it is not, even beside ids that are
\* not plain.  For the others nothing of the kind holds: a replaced document
\* stays beside the new one, and a removed one is found again as soon as any
\* document is known.
Documents(id) == UNION {{text} \X (1..live[<<id, text>>]) : text \in Texts}
PlainIdsHoldOnce ==
  \A id \in Plain : Cardinality(Documents(id)) = IF id \in books.known THEN 1 ELSE 0

\* The documents of plain ids, those that import is about to put included.
TContent ==
  [id \in Plain |->
     IF Occurrences(toImport, id) # {} THEN LastText(toImport, id)
     ELSE IF Searchable(id) # {} THEN CHOOSE text \in Searchable(id) : TRUE
     ELSE NoText]
TantivyIndex == INSTANCE Bm25Index WITH Ids <- Plain, content <- TContent
\* For plain ids each call does to the documents what a Bm25Index promises of
\* that call; a call on another id, or the work of import, shows nothing.
TantivyIsIndex ==
  /\ TantivyIndex!Init
  /\ [][/\ \A id \in Plain : TRemoveDoc(id) => TantivyIndex!Remove(id)
        /\ \A id \in Plain, text \in Texts : TIndexDoc(id, text) => TantivyIndex!Index(id, text)
        /\ \A id \in Ids \ Plain : TRemoveDoc(id) => UNCHANGED TContent
        /\ \A id \in Ids \ Plain, text \in Texts : TIndexDoc(id, text) => UNCHANGED TContent
        /\ TReset => TantivyIndex!Reset
        /\ \A snap \in Snapshots : TImport(snap) => TantivyIndex!Restore(snap)
        /\ TImportNext => UNCHANGED TContent]_tvars
=============================================================================
