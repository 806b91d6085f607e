----------------------------- MODULE Bm25Proofs -----------------------------
(***************************************************************************)
(* Theorems about the tantivy backend, and about the two BM25 backends     *)
(* side by side, for any ids, texts, terms and snapshots.  A plain id, one *)
(* that is cut into itself, has one document in tantivy while the books    *)
(* know it and none when they do not, so that for plain ids this backend   *)
(* does what Bm25Index promises, whatever is done to other ids; the two    *)
(* agree with each other, keep exact totals, and give back what either of  *)
(* them has exported.                                                      *)
(***************************************************************************)
EXTENDS Bm25Backends, HandrolledProofs

---------------------------------------------------------------------------
(* The tantivy backend *)

\* The only document of id is text; or there is none.
Single(l, id, text) ==
  l[<<id, text>>] = 1 /\ \A other \in Texts \ {text} : l[<<id, other>>] = 0
NoDocument(l, id) == \A text \in Texts : l[<<id, text>>] = 0

BooksOK(b) ==
  /\ b.known \in SUBSET Ids /\ IsFiniteSet(b.known)
  /\ b.lens \in [b.known -> Nat]
  /\ b.doc_count = Cardinality(b.known)
  /\ b.total_len = SumFunction(b.lens)

\* The total, of which the length of a known id is a part.
LEMMA TotalType ==
  ASSUME NEW b, BooksOK(b)
  PROVE  /\ b.total_len \in Nat
         /\ \A id \in b.known : b.lens[id] <= b.total_len
<1> DEFINE ids == b.known
           lens == b.lens
<1>1. IsFiniteSet(ids) /\ lens \in [ids -> Nat] /\ lens \in [ids -> Int]
      /\ b.total_len = SumFunction(lens)
  BY DEF BooksOK
<1>. HIDE DEF ids, lens
<1>2. /\ SumFunctionOnSet(lens, ids) \in Nat
      /\ \A id \in ids : lens[id] <= SumFunctionOnSet(lens, ids)
  BY <1>1, SumOfNats
<1>3. SumFunction(lens) = SumFunctionOnSet(lens, ids)
  BY <1>1, SumOfFunction
<1>. QED
  BY <1>1, <1>2, <1>3 DEF ids, lens

Once(l, b) ==
  /\ l \in [Ids \X Texts -> Nat]
  /\ \A id \in Plain : IF id \in b.known THEN \E text \in Texts : Single(l, id, text)
                       ELSE NoDocument(l, id)

\* The inductive invariant.
TInv == BooksOK(books) /\ Once(live, books) /\ toImport \in Seq(Ids \X Texts)

---------------------------------------------------------------------------
(* The books *)

LEMMA NoBooksOK == BooksOK(NoBooks)
<1>1. NoBooks.known = {} /\ NoBooks.doc_count = 0 /\ NoBooks.total_len = 0
  BY DEF NoBooks
<1>2. NoBooks.lens \in [{} -> Nat]
  BY DEF NoBooks
<1>3. IsFiniteSet({}) /\ Cardinality({}) = 0
  BY FS_EmptySet
<1>4. SumFunction(NoBooks.lens) = 0
  <2>1. DOMAIN NoBooks.lens = {}
    BY <1>2
  <2>. QED
    BY <2>1, SumOfNone DEF SumFunction
<1>. QED
  BY <1>1, <1>2, <1>3, <1>4 DEF BooksOK

LEMMA BooksWithOK ==
  ASSUME NEW b, BooksOK(b), NEW id \in Ids, NEW text \in Texts
  PROVE  BooksOK(BooksWith(b, id, text)) /\ BooksWith(b, id, text).known = b.known \cup {id}
<1> DEFINE c == BooksWith(b, id, text)
           old == IF id \in b.known /\ id \in DOMAIN b.lens THEN b.lens[id] ELSE 0
<1>1. /\ c.known = b.known \cup {id}
      /\ c.lens = [i \in DOMAIN b.lens \cup {id} |-> IF i = id THEN Bytes[text] ELSE b.lens[i]]
      /\ c.doc_count = IF id \in b.known THEN b.doc_count ELSE b.doc_count + 1
      /\ c.total_len = Minus(b.total_len, old) + Bytes[text]
  BY DEF BooksWith
<1>2. /\ b.known \in SUBSET Ids /\ IsFiniteSet(b.known) /\ b.lens \in [b.known -> Nat]
      /\ b.doc_count = Cardinality(b.known) /\ b.total_len = SumFunction(b.lens)
      /\ b.total_len \in Nat
  BY TotalType DEF BooksOK
<1>3. /\ Bytes[text] \in Nat /\ old \in Nat /\ old <= b.total_len
      /\ id \in b.known => old = b.lens[id]
      /\ id \notin b.known => old = 0
  BY <1>2, TotalType, BytesAssumption
<1>. HIDE DEF c, old
<1>4. c.lens \in [c.known -> Nat]
  BY <1>1, <1>2, <1>3
<1>5. c.total_len = SumFunction(c.lens)
  <2> DEFINE ids == b.known
             fewer == [i \in ids \ {id} |-> b.lens[i]]
             v == Bytes[text]
  <2>1. IsFiniteSet(ids \ {id}) /\ fewer \in [ids \ {id} -> Int] /\ v \in Int
    BY <1>2, <1>3, FS_Subset
  <2>2. SumFunction([i \in (ids \ {id}) \cup {id} |-> IF i = id THEN v ELSE fewer[i]])
          = SumFunction(fewer) + v
    <3>. HIDE DEF ids, fewer, v
    <3>. QED
      BY <2>1, SumWith
  <2>3. c.lens = [i \in (ids \ {id}) \cup {id} |-> IF i = id THEN v ELSE fewer[i]]
    BY <1>1, <1>2
  <2>4. SumFunction(fewer) = b.total_len - old
    <3>1. CASE id \in ids
      <4> DEFINE lens == b.lens
      <4>1. SumFunction([i \in ids \ {id} |-> lens[i]]) = SumFunction(lens) - lens[id]
        <5>1. IsFiniteSet(ids) /\ lens \in [ids -> Int]
          BY <1>2
        <5>. HIDE DEF ids, lens
        <5>. QED
          BY <3>1, <5>1, SumWithout
      <4>. QED
        BY <1>2, <1>3, <3>1, <4>1
    <3>2. CASE id \notin ids
      <4>1. fewer = b.lens
        BY <1>2, <3>2
      <4>. QED
        BY <1>2, <1>3, <3>2, <4>1
    <3>. QED
      BY <3>1, <3>2
  <2>5. c.total_len = (b.total_len - old) + v
    BY <1>1, <1>2, <1>3 DEF Minus
  <2>. QED
    BY <2>2, <2>3, <2>4, <2>5
<1>6. IsFiniteSet(c.known) /\ c.doc_count = Cardinality(c.known)
  <2>1. CASE id \in b.known
    <3>1. c.known = b.known
      BY <1>1, <2>1
    <3>. QED
      BY <1>1, <1>2, <2>1, <3>1
  <2>2. CASE id \notin b.known
    <3>1. /\ IsFiniteSet(b.known) /\ c.known = b.known \cup {id}
          /\ c.doc_count = Cardinality(b.known) + 1
      BY <1>1, <1>2, <2>2
    <3>. QED
      BY <2>2, <3>1, FS_AddElement
  <2>. QED
    BY <2>1, <2>2
<1>7. BooksOK(c)
  BY <1>1, <1>2, <1>4, <1>5, <1>6 DEF BooksOK
<1>. QED
  BY <1>1, <1>7 DEF c

LEMMA BooksWithoutOK ==
  ASSUME NEW b, BooksOK(b), NEW id \in b.known
  PROVE  BooksOK(BooksWithout(b, id)) /\ BooksWithout(b, id).known = b.known \ {id}
<1> DEFINE c == BooksWithout(b, id)
           old == IF id \in DOMAIN b.lens THEN b.lens[id] ELSE 0
<1>1. /\ c.known = b.known \ {id}
      /\ c.lens = Restrict(b.lens, DOMAIN b.lens \ {id})
      /\ c.doc_count = Minus(b.doc_count, 1)
      /\ c.total_len = Minus(b.total_len, old)
  BY DEF BooksWithout
<1>2. /\ b.known \in SUBSET Ids /\ IsFiniteSet(b.known) /\ b.lens \in [b.known -> Nat]
      /\ b.doc_count = Cardinality(b.known) /\ b.total_len = SumFunction(b.lens)
      /\ b.total_len \in Nat
  BY TotalType DEF BooksOK
<1>3. old = b.lens[id] /\ old \in Nat /\ old <= b.total_len
  BY <1>2, TotalType
<1>. HIDE DEF c, old
<1>4. c.lens \in [c.known -> Nat]
  BY <1>1, <1>2 DEF Restrict
<1>5. c.total_len = SumFunction(c.lens)
  <2> DEFINE ids == b.known
             lens == b.lens
  <2>1. SumFunction([i \in ids \ {id} |-> lens[i]]) = SumFunction(lens) - lens[id]
    <3>1. IsFiniteSet(ids) /\ lens \in [ids -> Int] /\ id \in ids
      BY <1>2
    <3>. HIDE DEF ids, lens
    <3>. QED
      BY <3>1, SumWithout
  <2>2. c.lens = [i \in ids \ {id} |-> lens[i]]
    BY <1>1, <1>2 DEF Restrict
  <2>3. c.total_len = b.total_len - old
    BY <1>1, <1>2, <1>3 DEF Minus
  <2>. QED
    BY <1>2, <1>3, <2>1, <2>2, <2>3
<1>6. IsFiniteSet(c.known) /\ Cardinality(c.known) = Cardinality(b.known) - 1
      /\ Cardinality(c.known) \in Nat
  BY <1>1, <1>2, FS_RemoveElement, FS_CardinalityType
<1>7. c.doc_count = Cardinality(c.known)
  <2>1. Cardinality(b.known) \in Nat
    BY <1>2, FS_CardinalityType
  <2>. QED
    BY <1>1, <1>2, <1>6, <2>1 DEF Minus
<1>8. BooksOK(c)
  BY <1>1, <1>2, <1>4, <1>5, <1>6, <1>7 DEF BooksOK
<1>. QED
  BY <1>1, <1>8 DEF c

---------------------------------------------------------------------------
(* The documents *)

\* Of a plain id, delete_term takes the documents of just that id.
LEMMA DeletedOfPlain ==
  ASSUME NEW l \in [Ids \X Texts -> Nat], NEW id \in Ids, NEW p \in Plain
  PROVE  /\ p = id => NoDocument(DeleteTerm(l, id), p)
         /\ p # id => \A t \in Texts : DeleteTerm(l, id)[<<p, t>>] = l[<<p, t>>]
<1>1. p \in Ids /\ Words[p] = {p}
  BY DEF Plain
<1>2. \A t \in Texts : <<p, t>> \in Ids \X Texts
  BY <1>1
<1>. QED
  BY <1>1, <1>2 DEF DeleteTerm, NoDocument

LEMMA DeleteType ==
  ASSUME NEW l \in [Ids \X Texts -> Nat], NEW id
  PROVE  DeleteTerm(l, id) \in [Ids \X Texts -> Nat]
  BY DEF DeleteTerm

LEMMA ReplacedOfPlain ==
  ASSUME NEW l \in [Ids \X Texts -> Nat], NEW id \in Ids, NEW text \in Texts, NEW p \in Plain
  PROVE  /\ p = id => Single(Replaced(l, id, text), p, text)
         /\ p # id => \A t \in Texts : Replaced(l, id, text)[<<p, t>>] = l[<<p, t>>]
<1> DEFINE d == DeleteTerm(l, id)
<1>1. d \in [Ids \X Texts -> Nat]
  BY DeleteType
<1>2. Replaced(l, id, text) = [d EXCEPT ![<<id, text>>] = d[<<id, text>>] + 1]
  BY DEF Replaced
<1>3. /\ p = id => NoDocument(d, p)
      /\ p # id => \A t \in Texts : d[<<p, t>>] = l[<<p, t>>]
  BY DeletedOfPlain
<1>4. p \in Ids
  BY DEF Plain
<1>. HIDE DEF d
<1>5. CASE p = id
  <2>1. \A t \in Texts : d[<<p, t>>] = 0
    BY <1>3, <1>5 DEF NoDocument
  <2>2. Replaced(l, id, text)[<<p, text>>] = 1
    BY <1>1, <1>2, <1>4, <1>5, <2>1
  <2>3. \A t \in Texts \ {text} : Replaced(l, id, text)[<<p, t>>] = 0
    BY <1>1, <1>2, <1>4, <1>5, <2>1
  <2>. QED
    BY <1>5, <2>2, <2>3 DEF Single
<1>6. CASE p # id
  BY <1>1, <1>2, <1>3, <1>4, <1>6
<1>. QED
  BY <1>5, <1>6

LEMMA ReplacedType ==
  ASSUME NEW l \in [Ids \X Texts -> Nat], NEW id \in Ids, NEW text \in Texts
  PROVE  Replaced(l, id, text) \in [Ids \X Texts -> Nat]
<1>1. DeleteTerm(l, id) \in [Ids \X Texts -> Nat]
  BY DeleteType
<1>2. <<id, text>> \in Ids \X Texts
  OBVIOUS
<1>. QED
  BY <1>1, <1>2 DEF Replaced

\* A document that is not touched is as it was.
LEMMA SameDocument ==
  ASSUME NEW l, NEW m, NEW p, \A t \in Texts : m[<<p, t>>] = l[<<p, t>>]
  PROVE  /\ NoDocument(m, p) <=> NoDocument(l, p)
         /\ \A t \in Texts : Single(m, p, t) <=> Single(l, p, t)
  BY DEF NoDocument, Single

LEMMA ReplacedOnce ==
  ASSUME NEW l, NEW b, BooksOK(b), Once(l, b), NEW id \in Ids, NEW text \in Texts
  PROVE  Once(Replaced(l, id, text), BooksWith(b, id, text))
<1> DEFINE m == Replaced(l, id, text)
           c == BooksWith(b, id, text)
<1>1. c.known = b.known \cup {id}
  BY BooksWithOK
<1>2. l \in [Ids \X Texts -> Nat]
  BY DEF Once
<1>3. m \in [Ids \X Texts -> Nat]
  BY <1>2, ReplacedType
<1>4. ASSUME NEW p \in Plain
      PROVE  IF p \in c.known THEN \E t \in Texts : Single(m, p, t) ELSE NoDocument(m, p)
  <2>1. /\ p = id => Single(m, p, text)
        /\ p # id => \A t \in Texts : m[<<p, t>>] = l[<<p, t>>]
    BY <1>2, ReplacedOfPlain
  <2>2. IF p \in b.known THEN \E t \in Texts : Single(l, p, t) ELSE NoDocument(l, p)
    BY DEF Once
  <2>. HIDE DEF m, c
  <2>3. CASE p = id
    BY <1>1, <2>1, <2>3
  <2>4. CASE p # id
    BY <1>1, <2>1, <2>2, <2>4, SameDocument
  <2>. QED
    BY <2>3, <2>4
<1>. QED
  BY <1>3, <1>4 DEF Once

LEMMA DeletedOnce ==
  ASSUME NEW l, NEW b, BooksOK(b), Once(l, b), NEW id \in b.known
  PROVE  Once(DeleteTerm(l, id), BooksWithout(b, id))
<1> DEFINE m == DeleteTerm(l, id)
           c == BooksWithout(b, id)
<1>1. c.known = b.known \ {id} /\ id \in Ids
  BY BooksWithoutOK DEF BooksOK
<1>2. l \in [Ids \X Texts -> Nat]
  BY DEF Once
<1>3. m \in [Ids \X Texts -> Nat]
  BY <1>2, DeleteType
<1>4. ASSUME NEW p \in Plain
      PROVE  IF p \in c.known THEN \E t \in Texts : Single(m, p, t) ELSE NoDocument(m, p)
  <2>1. /\ p = id => NoDocument(m, p)
        /\ p # id => \A t \in Texts : m[<<p, t>>] = l[<<p, t>>]
    BY <1>1, <1>2, DeletedOfPlain
  <2>2. IF p \in b.known THEN \E t \in Texts : Single(l, p, t) ELSE NoDocument(l, p)
    BY DEF Once
  <2>. HIDE DEF m, c
  <2>3. CASE p = id
    BY <1>1, <2>1, <2>3
  <2>4. CASE p # id
    BY <1>1, <2>1, <2>2, <2>4, SameDocument
  <2>. QED
    BY <2>3, <2>4
<1>. QED
  BY <1>3, <1>4 DEF Once

LEMMA NothingOnce == Once(NoDocuments, NoBooks)
<1>1. NoDocuments \in [Ids \X Texts -> Nat]
  BY DEF NoDocuments
<1>2. NoBooks.known = {}
  BY DEF NoBooks
<1>3. \A p \in Plain : NoDocument(NoDocuments, p)
  BY DEF NoDocuments, NoDocument, Plain
<1>. QED
  BY <1>1, <1>2, <1>3 DEF Once

---------------------------------------------------------------------------
(* The inductive invariant *)

LEMMA TInitOK == TInit => TInv
<1>. SUFFICES ASSUME TInit PROVE TInv
  OBVIOUS
<1>1. live = NoDocuments /\ books = NoBooks /\ toImport = <<>>
  BY DEF TInit
<1>. QED
  BY <1>1, NoBooksOK, NothingOnce DEF TInv

LEMMA TStepOK == TInv /\ [TNext]_tvars => TInv'
<1>. SUFFICES ASSUME TInv, [TNext]_tvars PROVE TInv'
  OBVIOUS
<1>. USE DEF TInv
<1>1. ASSUME NEW id \in Ids, TRemoveDoc(id)
      PROVE  TInv'
  <2>1. CASE id \in books.known
    <3>1. live' = DeleteTerm(live, id) /\ books' = BooksWithout(books, id) /\ toImport' = toImport
      BY <1>1, <2>1 DEF TRemoveDoc
    <3>. QED
      BY <2>1, <3>1, BooksWithoutOK, DeletedOnce
  <2>2. CASE id \notin books.known
    BY <1>1, <2>2 DEF TRemoveDoc
  <2>. QED
    BY <2>1, <2>2
<1>2. ASSUME NEW id \in Ids, NEW text \in Texts, TIndexDoc(id, text)
      PROVE  TInv'
  <2>1. /\ live' = Replaced(live, id, text) /\ books' = BooksWith(books, id, text)
        /\ toImport' = toImport
    BY <1>2 DEF TIndexDoc
  <2>. QED
    BY <2>1, BooksWithOK, ReplacedOnce
<1>3. CASE TReset
  <2>1. live' = NoDocuments /\ books' = NoBooks /\ toImport' = toImport
    BY <1>3 DEF TReset
  <2>. QED
    BY <2>1, NoBooksOK, NothingOnce
<1>4. ASSUME NEW on \in BOOLEAN, TSetStemmer(on)
      PROVE  TInv'
  BY <1>4 DEF TSetStemmer, tvars
<1>5. ASSUME NEW snap \in Snapshots, TImport(snap)
      PROVE  TInv'
  <2>1. live' = NoDocuments /\ books' = NoBooks /\ toImport' = snap
    BY <1>5 DEF TImport
  <2>. QED
    BY <2>1, NoBooksOK, NothingOnce, ImportsAssumption
<1>6. CASE TImportNext
  <2> DEFINE key == Head(toImport)[1]
             text == Head(toImport)[2]
  <2>1. /\ toImport # <<>> /\ Head(toImport) \in Ids \X Texts
        /\ Tail(toImport) \in Seq(Ids \X Texts)
    BY <1>6 DEF TImportNext
  <2>2. /\ live' = Replaced(live, key, text) /\ books' = BooksWith(books, key, text)
        /\ toImport' = Tail(toImport)
    BY <1>6 DEF TImportNext
  <2>3. key \in Ids /\ text \in Texts
    BY <2>1
  <2>. HIDE DEF key, text
  <2>. QED
    BY <2>1, <2>2, <2>3, BooksWithOK, ReplacedOnce
<1>7. CASE UNCHANGED tvars
  BY <1>7 DEF tvars
<1>. QED
  BY <1>1, <1>2, <1>3, <1>4, <1>5, <1>6, <1>7 DEF TNext

LEMMA AlwaysTInv == TSpec => []TInv
  BY TInitOK, TStepOK, PTL DEF TSpec

---------------------------------------------------------------------------
(* What a search finds under a plain id *)

FoundIn(l, b, id) ==
  IF b.doc_count = 0 THEN {} ELSE {text \in Texts : l[<<id, text>>] > 0}
Held(l, b, id) ==
  IF FoundIn(l, b, id) # {} THEN CHOOSE text \in FoundIn(l, b, id) : TRUE ELSE NoText

LEMMA ContentIsHeld ==
  TContent = [id \in Plain |-> IF Occurrences(toImport, id) # {} THEN LastText(toImport, id)
                               ELSE Held(live, books, id)]
  BY DEF TContent, Held, FoundIn, Searchable

LEMMA HeldIs ==
  ASSUME NEW l, NEW b, BooksOK(b), Once(l, b), NEW p \in Plain
  PROVE  /\ p \notin b.known => Held(l, b, p) = NoText
         /\ \A text \in Texts : p \in b.known /\ Single(l, p, text) => Held(l, b, p) = text
<1>1. l \in [Ids \X Texts -> Nat] /\ p \in Ids
  BY DEF Once, Plain
<1>2. ASSUME p \notin b.known
      PROVE  Held(l, b, p) = NoText
  <2>1. \A text \in Texts : l[<<p, text>>] = 0
    BY <1>2 DEF Once, NoDocument
  <2>2. \A text \in Texts : ~ (l[<<p, text>>] > 0)
    BY <2>1
  <2>3. FoundIn(l, b, p) = {}
    BY <2>2 DEF FoundIn
  <2>. QED
    BY <2>3 DEF Held
<1>3. ASSUME NEW text \in Texts, p \in b.known, Single(l, p, text)
      PROVE  Held(l, b, p) = text
  <2>1. b.doc_count # 0
    <3>1. IsFiniteSet(b.known) /\ b.doc_count = Cardinality(b.known)
      BY DEF BooksOK
    <3>. QED
      BY <1>3, <3>1, FS_EmptySet
  <2>2. {t \in Texts : l[<<p, t>>] > 0} = {text}
    BY <1>3 DEF Single
  <2>3. FoundIn(l, b, p) = {text}
    BY <2>1, <2>2 DEF FoundIn
  <2>. QED
    BY <2>3 DEF Held
<1>. QED
  BY <1>2, <1>3

\* An entry that neither the documents nor the books change is found as before.
LEMMA HeldSame ==
  ASSUME NEW l, NEW b, BooksOK(b), Once(l, b), NEW m, NEW c, BooksOK(c), Once(m, c),
         NEW p \in Plain, p \in c.known <=> p \in b.known,
         \A t \in Texts : m[<<p, t>>] = l[<<p, t>>]
  PROVE  Held(m, c, p) = Held(l, b, p)
<1>1. CASE p \in b.known
  <2>1. PICK t \in Texts : Single(l, p, t)
    BY <1>1 DEF Once
  <2>2. Single(m, p, t)
    BY <2>1, SameDocument
  <2>3. Held(l, b, p) = t
    BY <1>1, <2>1, HeldIs
  <2>4. Held(m, c, p) = t
    BY <1>1, <2>2, HeldIs
  <2>. QED
    BY <2>3, <2>4
<1>2. CASE p \notin b.known
  <2>1. Held(l, b, p) = NoText
    BY <1>2, HeldIs
  <2>2. Held(m, c, p) = NoText
    BY <1>2, HeldIs
  <2>. QED
    BY <2>1, <2>2
<1>. QED
  BY <1>1, <1>2

LEMMA HeldAfterReplaced ==
  ASSUME NEW l, NEW b, BooksOK(b), Once(l, b), NEW id \in Ids, NEW text \in Texts,
         NEW p \in Plain
  PROVE  Held(Replaced(l, id, text), BooksWith(b, id, text), p)
           = IF p = id THEN text ELSE Held(l, b, p)
<1> DEFINE m == Replaced(l, id, text)
           c == BooksWith(b, id, text)
<1>1. BooksOK(c) /\ c.known = b.known \cup {id} /\ Once(m, c)
  BY BooksWithOK, ReplacedOnce
<1>2. /\ p = id => Single(m, p, text)
      /\ p # id => \A t \in Texts : m[<<p, t>>] = l[<<p, t>>]
  BY ReplacedOfPlain DEF Once
<1>. HIDE DEF m, c
<1>3. CASE p = id
  <2>1. Held(m, c, p) = text
    BY <1>1, <1>2, <1>3, HeldIs
  <2>. QED
    BY <1>3, <2>1 DEF m, c
<1>4. CASE p # id
  <2>1. Held(m, c, p) = Held(l, b, p)
    BY <1>1, <1>2, <1>4, HeldSame
  <2>. QED
    BY <1>4, <2>1 DEF m, c
<1>. QED
  BY <1>3, <1>4

LEMMA HeldAfterDeleted ==
  ASSUME NEW l, NEW b, BooksOK(b), Once(l, b), NEW id \in b.known, NEW p \in Plain
  PROVE  Held(DeleteTerm(l, id), BooksWithout(b, id), p)
           = IF p = id THEN NoText ELSE Held(l, b, p)
<1> DEFINE m == DeleteTerm(l, id)
           c == BooksWithout(b, id)
<1>1. BooksOK(c) /\ c.known = b.known \ {id} /\ Once(m, c) /\ id \in Ids
  BY BooksWithoutOK, DeletedOnce DEF BooksOK
<1>2. p # id => \A t \in Texts : m[<<p, t>>] = l[<<p, t>>]
  BY <1>1, DeletedOfPlain DEF Once
<1>. HIDE DEF m, c
<1>3. CASE p = id
  <2>1. Held(m, c, p) = NoText
    BY <1>1, <1>3, HeldIs
  <2>. QED
    BY <1>3, <2>1 DEF m, c
<1>4. CASE p # id
  <2>1. Held(m, c, p) = Held(l, b, p)
    BY <1>1, <1>2, <1>4, HeldSame
  <2>. QED
    BY <1>4, <2>1 DEF m, c
<1>. QED
  BY <1>3, <1>4

LEMMA NothingHeld == \A p \in Plain : Held(NoDocuments, NoBooks, p) = NoText
<1>1. \A p \in Plain : p \notin NoBooks.known
  BY DEF NoBooks
<1>. QED
  BY <1>1, NoBooksOK, NothingOnce, HeldIs

---------------------------------------------------------------------------
(* What a call does to the documents of plain ids *)

LEMMA IdleContent ==
  ASSUME toImport = <<>>
  PROVE  TContent = [p \in Plain |-> Held(live, books, p)]
  BY NoneInEmpty, ContentIsHeld

LEMMA ContentNext ==
  TContent' = [p \in Plain |-> IF Occurrences(toImport', p) # {} THEN LastText(toImport', p)
                               ELSE Held(live', books', p)]
  BY DEF TContent, Held, FoundIn, Searchable

LEMMA TInitContent == TInit => TantivyIndex!Init
<1>. SUFFICES ASSUME TInit PROVE TContent = [p \in Plain |-> NoText]
  BY DEF TantivyIndex!Init
<1>1. live = NoDocuments /\ books = NoBooks /\ toImport = <<>>
  BY DEF TInit
<1>. QED
  BY <1>1, IdleContent, NothingHeld

LEMMA TRemoveContent ==
  ASSUME TInv, NEW id \in Ids, TRemoveDoc(id)
  PROVE  /\ id \in Plain => TantivyIndex!Remove(id)
         /\ id \notin Plain => UNCHANGED TContent
<1>1. toImport = <<>> /\ toImport' = <<>>
  BY DEF TRemoveDoc, Idle
<1>2. TContent' = [p \in Plain |-> Held(live', books', p)]
  BY <1>1, NoneInEmpty, ContentNext
<1>3. TContent = [p \in Plain |-> Held(live, books, p)]
  BY <1>1, IdleContent
<1>4. ASSUME NEW p \in Plain
      PROVE  Held(live', books', p) = IF p = id THEN NoText ELSE Held(live, books, p)
  <2>1. BooksOK(books) /\ Once(live, books)
    BY DEF TInv
  <2>2. CASE id \in books.known
    <3>1. live' = DeleteTerm(live, id) /\ books' = BooksWithout(books, id)
      BY <2>2 DEF TRemoveDoc
    <3>. QED
      BY <2>1, <2>2, <3>1, HeldAfterDeleted
  <2>3. CASE id \notin books.known
    <3>1. live' = live /\ books' = books
      BY <2>3 DEF TRemoveDoc
    <3>2. p = id => Held(live, books, p) = NoText
      BY <2>1, <2>3, HeldIs
    <3>. QED
      BY <3>1, <3>2
  <2>. QED
    BY <2>2, <2>3
<1>5. TContent' = [TContent EXCEPT ![id] = NoText]
  BY <1>2, <1>3, <1>4
<1>6. id \notin Plain => TContent' = TContent
  BY <1>2, <1>3, <1>4
<1>. QED
  BY <1>5, <1>6 DEF TantivyIndex!Remove

LEMMA TIndexContent ==
  ASSUME TInv, NEW id \in Ids, NEW text \in Texts, TIndexDoc(id, text)
  PROVE  /\ id \in Plain => TantivyIndex!Index(id, text)
         /\ id \notin Plain => UNCHANGED TContent
<1>1. /\ toImport = <<>> /\ toImport' = <<>>
      /\ live' = Replaced(live, id, text) /\ books' = BooksWith(books, id, text)
  BY DEF TIndexDoc, Idle
<1>2. TContent' = [p \in Plain |-> Held(live', books', p)]
  BY <1>1, NoneInEmpty, ContentNext
<1>3. TContent = [p \in Plain |-> Held(live, books, p)]
  BY <1>1, IdleContent
<1>4. ASSUME NEW p \in Plain
      PROVE  Held(live', books', p) = IF p = id THEN text ELSE Held(live, books, p)
  <2>1. BooksOK(books) /\ Once(live, books)
    BY DEF TInv
  <2>. QED
    BY <1>1, <2>1, HeldAfterReplaced
<1>5. TContent' = [TContent EXCEPT ![id] = text]
  BY <1>2, <1>3, <1>4
<1>6. id \notin Plain => TContent' = TContent
  BY <1>2, <1>3, <1>4
<1>. QED
  BY <1>5, <1>6 DEF TantivyIndex!Index

LEMMA TResetContent == TReset => TantivyIndex!Reset
<1>. SUFFICES ASSUME TReset PROVE TContent' = [p \in Plain |-> NoText]
  BY DEF TantivyIndex!Reset
<1>1. live' = NoDocuments /\ books' = NoBooks /\ toImport' = <<>>
  BY DEF TReset, Idle
<1>. QED
  BY <1>1, NoneInEmpty, NothingHeld, ContentNext

LEMMA TImportContent ==
  ASSUME NEW snap \in Snapshots, TImport(snap)
  PROVE  TantivyIndex!Restore(snap)
<1>1. live' = NoDocuments /\ books' = NoBooks /\ toImport' = snap
  BY DEF TImport
<1>2. TContent' = [p \in Plain |-> IF Occurrences(snap, p) # {} THEN LastText(snap, p) ELSE NoText]
  BY <1>1, NothingHeld, ContentNext
<1>3. TContent' = [p \in Plain |-> LastText(snap, p)]
  BY <1>2 DEF LastText
<1>. QED
  BY <1>3 DEF TantivyIndex!Restore, TantivyIndex!LastText, TantivyIndex!Occurrences,
              LastText, Occurrences

LEMMA TImportNextContent ==
  ASSUME TInv, TImportNext
  PROVE  UNCHANGED TContent
<1> DEFINE key == Head(toImport)[1]
           text == Head(toImport)[2]
<1>1. /\ toImport \in Seq(Ids \X Texts) /\ toImport # <<>> /\ Head(toImport) \in Ids \X Texts
      /\ toImport' = Tail(toImport)
      /\ live' = Replaced(live, key, text) /\ books' = BooksWith(books, key, text)
  BY DEF TInv, TImportNext
<1>2. key \in Ids /\ text \in Texts
  BY <1>1
<1>. HIDE DEF key, text
<1>3. ASSUME NEW p \in Plain
      PROVE  Held(live', books', p) = IF p = key THEN text ELSE Held(live, books, p)
  <2>1. BooksOK(books) /\ Once(live, books)
    BY DEF TInv
  <2>. QED
    BY <1>1, <1>2, <2>1, HeldAfterReplaced
<1>4. ASSUME NEW p \in Plain
      PROVE  (IF Occurrences(toImport', p) # {} THEN LastText(toImport', p)
              ELSE Held(live', books', p))
             = (IF Occurrences(toImport, p) # {} THEN LastText(toImport, p)
                ELSE Held(live, books, p))
  <2>1. /\ Occurrences(toImport', p) # {} =>
             Occurrences(toImport, p) # {} /\ LastText(toImport, p) = LastText(toImport', p)
        /\ Occurrences(toImport', p) = {} /\ key = p =>
             Occurrences(toImport, p) # {} /\ LastText(toImport, p) = text
        /\ Occurrences(toImport', p) = {} /\ key # p => Occurrences(toImport, p) = {}
    BY <1>1, LastOfTail DEF key, text
  <2>2. CASE Occurrences(toImport', p) # {}
    BY <2>1, <2>2
  <2>3. CASE Occurrences(toImport', p) = {} /\ key = p
    BY <1>3, <2>1, <2>3
  <2>4. CASE Occurrences(toImport', p) = {} /\ key # p
    BY <1>3, <2>1, <2>4
  <2>. QED
    BY <2>2, <2>3, <2>4
<1>. QED
  BY <1>4, ContentIsHeld, ContentNext

\* The ids that are known after a call.
LEMMA KnownNext ==
  ASSUME TInv
  PROVE  /\ \A id \in Ids : TRemoveDoc(id) => books'.known = books.known \ {id}
         /\ \A id \in Ids, text \in Texts :
              TIndexDoc(id, text) => books'.known = books.known \cup {id}
         /\ TReset => books'.known = {}
         /\ \A snap : TImport(snap) => books'.known = {}
         /\ TImportNext => books'.known = books.known \cup {Head(toImport)[1]}
<1>1. \A id \in Ids, text \in Texts : BooksWith(books, id, text).known = books.known \cup {id}
  BY BooksWithOK DEF TInv
<1>2. ASSUME NEW id \in Ids, TRemoveDoc(id)
      PROVE  books'.known = books.known \ {id}
  <2>1. CASE id \in books.known
    BY <1>2, <2>1, BooksWithoutOK DEF TInv, TRemoveDoc
  <2>2. CASE id \notin books.known
    BY <1>2, <2>2 DEF TRemoveDoc
  <2>. QED
    BY <2>1, <2>2
<1>3. NoBooks.known = {}
  BY DEF NoBooks
<1>4. ASSUME TImportNext
      PROVE  books'.known = books.known \cup {Head(toImport)[1]}
  <2>1. toImport \in Seq(Ids \X Texts) /\ toImport # <<>>
    BY <1>4 DEF TInv, TImportNext
  <2>2. Head(toImport) \in Ids \X Texts
    BY <2>1
  <2>3. books' = BooksWith(books, Head(toImport)[1], Head(toImport)[2])
    BY <1>4 DEF TImportNext
  <2>. QED
    BY <1>1, <2>2, <2>3
<1>. QED
  BY <1>1, <1>2, <1>3, <1>4 DEF TIndexDoc, TReset, TImport

---------------------------------------------------------------------------
(* Theorems about the tantivy backend *)

\* bm25/tantivy.rs: the books kept by hand hold the length of every known id,
\* of these and no other, whatever is indexed, removed, reset and imported.
THEOREM BooksTypeCorrect == TSpec => []TTypeOK
<1>1. TInv => TTypeOK
  BY TotalType DEF TInv, BooksOK, Once, TTypeOK
<1>. QED
  BY <1>1, AlwaysTInv, PTL

LEMMA DocumentsAre ==
  ASSUME NEW p \in Plain, live \in [Ids \X Texts -> Nat]
  PROVE  /\ NoDocument(live, p) => Documents(p) = {}
         /\ \A text \in Texts : Single(live, p, text) => Documents(p) = {<<text, 1>>}
<1>1. ASSUME NoDocument(live, p)
      PROVE  Documents(p) = {}
  <2>1. \A t \in Texts : {t} \X (1..live[<<p, t>>]) = {}
    <3>1. \A t \in Texts : 1..live[<<p, t>>] = {}
      BY <1>1 DEF NoDocument
    <3>. QED
      BY <3>1
  <2>. QED
    BY <2>1, Zenon DEF Documents
<1>2. ASSUME NEW text \in Texts, Single(live, p, text)
      PROVE  Documents(p) = {<<text, 1>>}
  <2> DEFINE Copies(t) == {t} \X (1..live[<<p, t>>])
  <2>1. 1..live[<<p, text>>] = {1} /\ \A t \in Texts \ {text} : 1..live[<<p, t>>] = {}
    BY <1>2 DEF Single
  <2>2. Copies(text) = {<<text, 1>>} /\ \A t \in Texts \ {text} : Copies(t) = {}
    BY <2>1
  <2>3. Documents(p) = UNION {Copies(t) : t \in Texts}
    BY DEF Documents
  <2>. HIDE DEF Copies
  <2>4. UNION {Copies(t) : t \in Texts} = Copies(text)
    BY <2>2
  <2>. QED
    BY <2>2, <2>3, <2>4
<1>. QED
  BY <1>1, <1>2

\* bm25/tantivy.rs "Index or replace one document by (id, text)": under a plain
\* id that is known there is one document, under one that is not there is none,
\* whatever is done to ids that are cut into the plain one among other words.
THEOREM PlainIdsAreHeldOnce == TSpec => []PlainIdsHoldOnce
<1>1. ASSUME TInv, NEW p \in Plain
      PROVE  Cardinality(Documents(p)) = IF p \in books.known THEN 1 ELSE 0
  <2>1. live \in [Ids \X Texts -> Nat]
    BY <1>1 DEF TInv, Once
  <2>2. CASE p \in books.known
    <3>1. PICK text \in Texts : Single(live, p, text)
      BY <1>1, <2>2 DEF TInv, Once
    <3>2. Documents(p) = {<<text, 1>>}
      BY <2>1, <3>1, DocumentsAre
    <3>. QED
      BY <2>2, <3>2, FS_Singleton
  <2>3. CASE p \notin books.known
    <3>1. NoDocument(live, p)
      BY <1>1, <2>3 DEF TInv, Once
    <3>2. Documents(p) = {}
      BY <2>1, <3>1, DocumentsAre
    <3>. QED
      BY <2>3, <3>2, FS_EmptySet
  <2>. QED
    BY <2>2, <2>3
<1>2. TInv => PlainIdsHoldOnce
  BY <1>1 DEF PlainIdsHoldOnce
<1>. QED
  BY <1>2, AlwaysTInv, PTL

\* bm25/tantivy.rs "Index or replace one document by (id, text)": for plain ids
\* each call does to the documents what Bm25Index promises of it, and calls on
\* other ids change nothing that is found under a plain one.
THEOREM TantivyImplementsIndex == TSpec => TantivyIsIndex
<1> DEFINE Simulates ==
      /\ \A id \in Plain : TRemoveDoc(id) => TantivyIndex!Remove(id)
      /\ \A id \in Plain, text \in Texts : TIndexDoc(id, text) => TantivyIndex!Index(id, text)
      /\ \A id \in Ids \ Plain : TRemoveDoc(id) => UNCHANGED TContent
      /\ \A id \in Ids \ Plain, text \in Texts : TIndexDoc(id, text) => UNCHANGED TContent
      /\ TReset => TantivyIndex!Reset
      /\ \A snap \in Snapshots : TImport(snap) => TantivyIndex!Restore(snap)
      /\ TImportNext => UNCHANGED TContent
<1>1. TInv /\ [TNext]_tvars => [Simulates]_tvars
  <2>1. Plain \subseteq Ids
    BY DEF Plain
  <2>. QED
    BY <2>1, TRemoveContent, TIndexContent, TResetContent, TImportContent, TImportNextContent
<1>2. TSpec => [][Simulates]_tvars
  <2>. HIDE DEF Simulates
  <2>. QED
    BY <1>1, AlwaysTInv, PTL DEF TSpec
<1>3. TSpec => TantivyIndex!Init
  BY TInitContent DEF TSpec
<1>. QED
  BY <1>2, <1>3 DEF TantivyIsIndex

---------------------------------------------------------------------------
(* The two backends side by side *)

\* The same documents, and saved as they were.
Alike ==
  /\ rest = toImport
  /\ Holding = books.known
  /\ \A p \in Plain : HContent[p] = TContent[p]
  /\ saved \in Snapshots
  /\ \A p \in Plain : LastText(saved, p) = kept[p]
  /\ restored => \A p \in Plain : TContent[p] = kept[p]

\* The inductive invariant.
BothInv == IInv /\ TInv /\ Alike

---------------------------------------------------------------------------
(* Each backend makes a step of its own *)

LEMMA NextOfEach == saved \in Snapshots /\ [Next]_bvars => [HNext]_hvars /\ [TNext]_tvars
  BY DEF Next, bvars, HNext, TNext, RemoveDoc, IndexDoc, Reset, SetStemmer, Export, Import,
         ImportNext

LEMMA PlainAreIds == Plain \subseteq Ids
  BY DEF Plain

LEMMA ContentDomains == DOMAIN HContent = Ids /\ DOMAIN TContent = Plain
  BY DEF HContent, TContent

\* What Bm25Index says a call does, it does to both.
LEMMA IndexBoth ==
  ASSUME \A p \in Plain : HContent[p] = TContent[p], NEW id \in Ids, NEW text,
         HContent' = [HContent EXCEPT ![id] = text],
         id \in Plain => TContent' = [TContent EXCEPT ![id] = text],
         id \notin Plain => TContent' = TContent
  PROVE  (\A p \in Plain : HContent[p] = TContent[p])'
<1>1. \A p \in Plain : HContent'[p] = IF p = id THEN text ELSE HContent[p]
  BY PlainAreIds, ContentDomains
<1>2. CASE id \in Plain
  BY <1>1, <1>2, ContentDomains
<1>3. CASE id \notin Plain
  BY <1>1, <1>3
<1>. QED
  BY <1>2, <1>3

\* The text of an id that occurs in a snapshot with one text only.
LEMMA OnlyText ==
  ASSUME NEW snap \in Seq(Ids \X Texts), NEW p, NEW text, Occurrences(snap, p) # {},
         \A i \in Occurrences(snap, p) : snap[i][2] = text
  PROVE  LastText(snap, p) = text
<1>1. PICK i \in Occurrences(snap, p) : \A j \in Occurrences(snap, p) : j <= i
  BY LastOccurs
<1>. QED
  BY <1>1, LastTextIs

---------------------------------------------------------------------------
(* A snapshot says what was held when it was exported *)

LEMMA HandrolledExports ==
  ASSUME IInv, NEW snap \in Seq(Ids \X Texts), HExports(snap), rest = <<>>, NEW p \in Plain
  PROVE  LastText(snap, p) = HContent[p]
<1>1. ToSet(snap) = {<<id, index.doc_texts[id]>> : id \in Holding}
  BY HoldingNext DEF HExports
<1>2. HContent[p] = IF p \in Holding THEN index.doc_texts[p] ELSE NoText
  BY FreeContent, PlainAreIds
<1>3. \A i \in DOMAIN snap : \E id \in Holding : snap[i] = <<id, index.doc_texts[id]>>
  BY <1>1 DEF ToSet
<1>4. \A i \in Occurrences(snap, p) : p \in Holding /\ snap[i][2] = index.doc_texts[p]
  BY <1>3 DEF Occurrences
<1>5. CASE p \in Holding
  <2>1. <<p, index.doc_texts[p]>> \in ToSet(snap)
    BY <1>1, <1>5
  <2>2. Occurrences(snap, p) # {}
    BY <2>1 DEF ToSet, Occurrences
  <2>. QED
    BY <1>2, <1>4, <1>5, <2>2, OnlyText
<1>6. CASE p \notin Holding
  <2>1. Occurrences(snap, p) = {}
    BY <1>4, <1>6
  <2>. QED
    BY <1>2, <1>6, <2>1 DEF LastText
<1>. QED
  BY <1>5, <1>6

LEMMA TantivyExports ==
  ASSUME TInv, NEW snap \in Seq(Ids \X Texts), TExports(snap), toImport = <<>>, NEW p \in Plain
  PROVE  LastText(snap, p) = TContent[p]
<1> DEFINE At(t) == {i \in DOMAIN snap : snap[i] = <<p, t>>}
<1>1. p \in Ids /\ live \in [Ids \X Texts -> Nat] /\ BooksOK(books) /\ Once(live, books)
  BY PlainAreIds DEF TInv, Once
<1>2. \A t \in Texts : IsFiniteSet(At(t)) /\ Cardinality(At(t)) = live[<<p, t>>]
  <2>1. DOMAIN snap = 1..Len(snap) /\ Len(snap) \in Nat
    OBVIOUS
  <2>2. IsFiniteSet(DOMAIN snap)
    BY <2>1, FS_Interval
  <2>3. \A t : At(t) \subseteq DOMAIN snap
    OBVIOUS
  <2>4. \A t : IsFiniteSet(At(t))
    <3>. HIDE DEF At
    <3>. QED
      BY <2>2, <2>3, FS_Subset
  <2>. QED
    BY <1>1, <2>4 DEF TExports
<1>3. \A i \in Occurrences(snap, p) : \E t \in Texts : i \in At(t) /\ snap[i][2] = t
  BY DEF Occurrences
<1>4. \A t \in Texts : At(t) \subseteq Occurrences(snap, p)
  BY DEF Occurrences
<1>5. \A t \in Texts : At(t) = {} <=> live[<<p, t>>] = 0
  <2>. HIDE DEF At
  <2>. QED
    BY <1>2, FS_EmptySet
<1>6. TContent[p] = Held(live, books, p)
  BY IdleContent
<1>. HIDE DEF At
<1>7. CASE p \in books.known
  <2>1. PICK text \in Texts : Single(live, p, text)
    BY <1>1, <1>7 DEF Once
  <2>2. TContent[p] = text
    BY <1>1, <1>6, <1>7, <2>1, HeldIs
  <2>3. live[<<p, text>>] = 1 /\ \A t \in Texts \ {text} : live[<<p, t>>] = 0
    BY <2>1 DEF Single
  <2>4. Occurrences(snap, p) # {}
    BY <1>4, <1>5, <2>3
  <2>5. \A i \in Occurrences(snap, p) : snap[i][2] = text
    BY <1>3, <1>5, <2>3
  <2>. QED
    BY <2>2, <2>4, <2>5, OnlyText
<1>8. CASE p \notin books.known
  <2>1. TContent[p] = NoText
    BY <1>1, <1>6, <1>8, HeldIs
  <2>2. \A t \in Texts : live[<<p, t>>] = 0
    BY <1>1, <1>8 DEF Once, NoDocument
  <2>3. Occurrences(snap, p) = {}
    BY <1>3, <1>5, <2>2
  <2>. QED
    BY <2>1, <2>3 DEF LastText
<1>. QED
  BY <1>7, <1>8

---------------------------------------------------------------------------
(* The inductive invariant *)

LEMMA BothInit == Init => BothInv
<1>. SUFFICES ASSUME Init PROVE BothInv
  OBVIOUS
<1>1. HInit /\ TInit /\ saved = <<>> /\ kept = [id \in Plain |-> NoText] /\ restored = FALSE
  BY DEF Init
<1>2. IInv /\ TInv
  BY <1>1, InitSound, TInitOK
<1>3. Holding = {} /\ books.known = {} /\ rest = toImport
  BY <1>1, EmptyHolds DEF HInit, TInit, Holding, NoBooks
<1>4. \A p \in Plain : HContent[p] = NoText /\ TContent[p] = NoText
  BY <1>1, InitContent, TInitContent, PlainAreIds DEF HandrolledIndex!Init, TantivyIndex!Init
<1>5. \A p \in Plain : LastText(<<>>, p) = NoText
  BY NoneInEmpty DEF LastText
<1>. QED
  BY <1>1, <1>2, <1>3, <1>4, <1>5, EmptySnapshotAssumption DEF BothInv, Alike

LEMMA BothStep == BothInv /\ [Next]_bvars => BothInv'
<1>. SUFFICES ASSUME BothInv, [Next]_bvars PROVE BothInv'
  OBVIOUS
<1>1. /\ IInv /\ TInv
      /\ rest = toImport /\ Holding = books.known /\ saved \in Snapshots
      /\ \A p \in Plain : HContent[p] = TContent[p]
      /\ \A p \in Plain : LastText(saved, p) = kept[p]
      /\ restored => \A p \in Plain : TContent[p] = kept[p]
  BY DEF BothInv, Alike
<1>2. IInv' /\ TInv'
  BY <1>1, NextOfEach, StepSound, TStepOK
<1>3. SUFFICES Alike'
  BY <1>2 DEF BothInv
<1>4. ASSUME NEW id \in Ids, RemoveDoc(id)
      PROVE  Alike'
  <2>1. /\ HRemoveDoc(id) /\ TRemoveDoc(id)
        /\ restored' = FALSE /\ saved' = saved /\ kept' = kept
    BY <1>4 DEF RemoveDoc, saveVars
  <2>2. HContent' = [HContent EXCEPT ![id] = NoText]
    BY <1>1, <2>1, RemoveContent DEF HandrolledIndex!Remove
  <2>3. /\ id \in Plain => TContent' = [TContent EXCEPT ![id] = NoText]
        /\ id \notin Plain => TContent' = TContent
    BY <1>1, <2>1, TRemoveContent DEF TantivyIndex!Remove
  <2>4. (\A p \in Plain : HContent[p] = TContent[p])'
    BY <1>1, <2>2, <2>3, IndexBoth
  <2>5. Holding' = books'.known
    BY <1>1, <2>1, HoldingNext, KnownNext
  <2>6. rest' = toImport'
    BY <1>1, <2>1 DEF HRemoveDoc, TRemoveDoc
  <2>. QED
    BY <1>1, <2>1, <2>4, <2>5, <2>6 DEF Alike
<1>5. ASSUME NEW id \in Ids, NEW text \in Texts, IndexDoc(id, text)
      PROVE  Alike'
  <2>1. /\ HIndexDoc(id, text) /\ TIndexDoc(id, text)
        /\ restored' = FALSE /\ saved' = saved /\ kept' = kept
    BY <1>5 DEF IndexDoc, saveVars
  <2>2. HContent' = [HContent EXCEPT ![id] = text]
    BY <1>1, <2>1, IndexContent DEF HandrolledIndex!Index
  <2>3. /\ id \in Plain => TContent' = [TContent EXCEPT ![id] = text]
        /\ id \notin Plain => TContent' = TContent
    BY <1>1, <2>1, TIndexContent DEF TantivyIndex!Index
  <2>4. (\A p \in Plain : HContent[p] = TContent[p])'
    BY <1>1, <2>2, <2>3, IndexBoth
  <2>5. Holding' = books'.known
    BY <1>1, <2>1, HoldingNext, KnownNext
  <2>6. rest' = toImport'
    BY <1>1, <2>1 DEF HIndexDoc, TIndexDoc
  <2>. QED
    BY <1>1, <2>1, <2>4, <2>5, <2>6 DEF Alike
<1>6. CASE Reset
  <2>1. /\ HReset /\ TReset
        /\ restored' = FALSE /\ saved' = saved /\ kept' = kept
    BY <1>6 DEF Reset, saveVars
  <2>2. HContent' = [p \in Ids |-> NoText] /\ TContent' = [p \in Plain |-> NoText]
    BY <2>1, ResetContent, TResetContent DEF HandrolledIndex!Reset, TantivyIndex!Reset
  <2>3. Holding' = books'.known
    BY <1>1, <2>1, HoldingNext, KnownNext
  <2>4. rest' = toImport'
    BY <1>1, <2>1 DEF HReset, TReset
  <2>. QED
    BY <1>1, <2>1, <2>2, <2>3, <2>4, PlainAreIds DEF Alike
<1>7. ASSUME UNCHANGED <<rest, toImport, index, books, live, saved, kept, restored>>
      PROVE  Alike'
  <2>1. HContent' = HContent /\ TContent' = TContent /\ Holding' = Holding
    BY <1>7 DEF HContent, TContent, Holding, Searchable
  <2>. QED
    BY <1>1, <1>7, <2>1 DEF Alike
<1>8. ASSUME NEW on \in BOOLEAN, SetStemmer(on)
      PROVE  Alike'
  BY <1>7, <1>8 DEF SetStemmer, HSetStemmer, TSetStemmer, tvars, saveVars
<1>9. ASSUME NEW snap \in Snapshots, Export(snap)
      PROVE  Alike'
  <2>1. /\ rest = <<>> /\ toImport = <<>>
        /\ HExports(snap) \/ TExports(snap)
        /\ saved' = snap /\ kept' = TContent /\ restored' = FALSE
        /\ UNCHANGED <<hvars, tvars>>
    BY <1>9 DEF Export, Free, Idle
  <2>2. snap \in Seq(Ids \X Texts)
    BY SnapshotsAssumption
  <2>3. \A p \in Plain : LastText(snap, p) = TContent[p]
    <3>1. CASE HExports(snap)
      BY <1>1, <2>1, <2>2, <3>1, HandrolledExports
    <3>2. CASE TExports(snap)
      BY <1>1, <2>1, <2>2, <3>2, TantivyExports
    <3>. QED
      BY <2>1, <3>1, <3>2
  <2>4. HContent' = HContent /\ TContent' = TContent /\ Holding' = Holding
    BY <2>1 DEF hvars, tvars, HContent, TContent, Holding, Searchable
  <2>5. rest' = rest /\ toImport' = toImport /\ books' = books
    BY <2>1 DEF hvars, tvars
  <2>. QED
    BY <1>1, <2>1, <2>3, <2>4, <2>5 DEF Alike
<1>10. CASE Import
  <2>1. /\ HImport(saved) /\ TImport(saved)
        /\ restored' = TRUE /\ saved' = saved /\ kept' = kept
    BY <1>10 DEF Import, saveVars
  <2>2. /\ HContent' = [p \in Ids |-> LastText(saved, p)]
        /\ TContent' = [p \in Plain |-> LastText(saved, p)]
    BY <1>1, <2>1, ImportContent, TImportContent
       DEF HandrolledIndex!Restore, HandrolledIndex!LastText, HandrolledIndex!Occurrences,
           TantivyIndex!Restore, TantivyIndex!LastText, TantivyIndex!Occurrences,
           LastText, Occurrences
  <2>3. Holding' = books'.known
    BY <1>1, <2>1, HoldingNext, KnownNext
  <2>4. rest' = toImport'
    BY <2>1 DEF HImport, TImport
  <2>. QED
    BY <1>1, <2>1, <2>2, <2>3, <2>4, PlainAreIds DEF Alike
<1>11. CASE ImportNext
  <2>1. /\ HImportNext /\ TImportNext
        /\ restored' = restored /\ saved' = saved /\ kept' = kept
    BY <1>11 DEF ImportNext, saveVars
  <2>2. HContent' = HContent /\ TContent' = TContent
    BY <1>1, <2>1, ImportNextContent, TImportNextContent
  <2>3. Holding' = books'.known
    BY <1>1, <2>1, HoldingNext, KnownNext
  <2>4. rest' = toImport'
    BY <1>1, <2>1 DEF HImportNext, TImportNext
  <2>. QED
    BY <1>1, <2>1, <2>2, <2>3, <2>4 DEF Alike
<1>12. CASE UNCHANGED bvars
  BY <1>7, <1>12 DEF bvars, hvars, tvars
<1>. QED
  BY <1>4, <1>5, <1>6, <1>8, <1>9, <1>10, <1>11, <1>12 DEF Next

LEMMA AlwaysBoth == Spec => []BothInv
  BY BothInit, BothStep, PTL DEF Spec

LEMMA EachBehaves == Spec => HSpec /\ TSpec
<1>1. Init => HInit /\ TInit
  BY DEF Init
<1>2. BothInv /\ [Next]_bvars => [HNext]_hvars /\ [TNext]_tvars
  BY NextOfEach DEF BothInv, Alike
<1>. QED
  BY <1>1, <1>2, AlwaysBoth, PTL DEF Spec, HSpec, TSpec

---------------------------------------------------------------------------
(* Theorems *)

\* The types of both backends' states; the books hold a length for every known
\* id and for no other.
THEOREM BackendsTypeCorrect == Spec => []TypeOK
<1>1. BothInv => HTypeOK
  BY DEF BothInv, IInv, Sound, HTypeOK, Holding
<1>2. BothInv => TTypeOK
  BY TotalType DEF BothInv, TInv, BooksOK, Once, TTypeOK
<1>. QED
  BY <1>1, <1>2, AlwaysBoth, PTL DEF TypeOK

\* remove_doc, index_doc, reset and import of handrolled.rs, called with any
\* documents and stemmer settings: the index is what a rebuild would give.
THEOREM AlwaysRebuilt == Spec => []IncrementalIsRebuilt
  BY EachBehaves, Rebuilt, PTL

\* search of handrolled.rs finds just the documents that have a term of the
\* query, each as it was cut when it was indexed.
THEOREM AlwaysFound == Spec => []FoundAsIndexed
  BY EachBehaves, FindsAsIndexed, PTL

\* search of handrolled.rs never divides by an average length of zero, and no term
\* it looks up is in more documents than there are.
THEOREM AlwaysPositive == Spec => []ScoresArePositive
  BY EachBehaves, ScoresStayPositive, PTL

\* bm25/tantivy.rs: a plain id has one document while known, and none otherwise.
THEOREM AlwaysHeldOnce == Spec => []PlainIdsHoldOnce
  BY EachBehaves, PlainIdsAreHeldOnce, PTL

\* total_len and doc_count, changed by what each call adds and takes away in both
\* backends, are what adding up and counting the documents would give: nothing
\* is lost in saturating_sub and nothing drops below zero.
THEOREM TotalsStayExact == Spec => []TotalsAreExact
<1>1. BothInv => TotalsAreExact
  <2>. SUFFICES ASSUME BothInv PROVE TotalsAreExact
    OBVIOUS
  <2>1. index.total_len = SumFunction(index.docs)
    BY DEF BothInv, IInv, Sound
  <2>2. BooksOK(books)
    BY DEF BothInv, TInv
  <2>3. /\ books.lens \in [books.known -> Nat] /\ books.total_len = SumFunction(books.lens)
        /\ books.doc_count = Cardinality(books.known)
    BY <2>2 DEF BooksOK
  <2>4. SumFunction(books.lens) = SumFunctionOnSet(books.lens, books.known)
    BY <2>3 DEF SumFunction
  <2>. QED
    BY <2>1, <2>3, <2>4 DEF TotalsAreExact
<1>. QED
  BY <1>1, AlwaysBoth, PTL

\* Each call to either backend does to the documents what Bm25Index promises of
\* it, for tantivy.rs to the documents of plain ids.
THEOREM BothImplementIndex == Spec => HandrolledIsIndex /\ TantivyIsIndex
  BY EachBehaves, ImplementsIndex, TantivyImplementsIndex

\* bm25/mod.rs "SQL functions are identical for both": the same calls leave the
\* two backends with the same documents under plain ids and the same count.
THEOREM AlwaysAgree == Spec => []BackendsAgree
<1>1. BothInv => BackendsAgree
  <2>. SUFFICES ASSUME BothInv PROVE BackendsAgree
    OBVIOUS
  <2>1. DOMAIN index.docs = books.known /\ Holding = books.known
    BY HoldingNext DEF BothInv, Alike
  <2>2. index.doc_count = Cardinality(Holding)
    BY DEF BothInv, IInv, Sound, RebuiltFrom, Holding
  <2>3. books.doc_count = Cardinality(books.known)
    BY DEF BothInv, TInv, BooksOK
  <2>4. \A p \in Plain : HContent[p] = TContent[p]
    BY DEF BothInv, Alike
  <2>. QED
    BY <2>1, <2>2, <2>3, <2>4 DEF BackendsAgree
<1>. QED
  BY <1>1, AlwaysBoth, PTL

\* bm25/mod.rs: a snapshot that either backend exported gives both of them back
\* the documents of plain ids, while import is at work and after it.
THEOREM RestoresWhatWasSaved == Spec => []RestoredAsSaved
<1>1. BothInv => RestoredAsSaved
  BY DEF BothInv, Alike, RestoredAsSaved
<1>. QED
  BY <1>1, AlwaysBoth, PTL
=============================================================================
