-------------------------- MODULE HandrolledProofs --------------------------
(***************************************************************************)
(* Theorems about the default BM25 backend for any ids, texts, terms and   *)
(* snapshots: the index kept up to date call by call is the one a rebuild  *)
(* would give, search finds what it should in it, and each call does to    *)
(* the documents what Bm25Index promises.                                  *)
(***************************************************************************)
EXTENDS Handrolled, InductionLemmas

\* A value of index that tells a set of documents, cut as h says.
Sound(x, h) ==
  /\ x.doc_texts \in [DOMAIN x.doc_texts -> Texts]
  /\ DOMAIN x.doc_texts \subseteq Ids
  /\ IsFiniteSet(DOMAIN x.doc_texts)
  /\ h \in [Ids -> BOOLEAN]
  /\ RebuiltFrom(x, h)
  /\ x.total_len = SumFunction(x.docs)

\* The inductive invariant.
IInv == Sound(index, how) /\ stemmer \in BOOLEAN /\ rest \in Seq(Ids \X Texts)

---------------------------------------------------------------------------
(* Snapshots: what the documents that import has still to index say of an id *)

LEMMA LastOccurs ==
  ASSUME NEW s \in Seq(Ids \X Texts), NEW id, Occurrences(s, id) # {}
  PROVE  \E i \in Occurrences(s, id) : \A j \in Occurrences(s, id) : j <= i
<1> DEFINE Back == {k \in Nat : k <= Len(s) /\ Len(s) - k \in Occurrences(s, id)}
<1>1. Occurrences(s, id) \subseteq 1..Len(s) /\ Len(s) \in Nat
  BY DEF Occurrences
<1>2. Back # {}
  <2>1. PICK i \in Occurrences(s, id) : TRUE
    OBVIOUS
  <2>2. Len(s) - i \in Back
    BY <1>1, <2>1
  <2>. QED
    BY <2>2
<1>3. PICK k \in Back : \A l \in Back : k <= l
  <2>1. Back \in SUBSET Nat
    OBVIOUS
  <2>. HIDE DEF Back
  <2>. QED
    BY <1>2, <2>1, LeastNat
<1>4. ASSUME NEW j \in Occurrences(s, id)
      PROVE  j <= Len(s) - k
  <2>1. Len(s) - j \in Back /\ j \in 1..Len(s)
    BY <1>1
  <2>2. k <= Len(s) - j
    BY <1>3, <2>1
  <2>. QED
    BY <1>1, <2>1, <2>2
<1>. QED
  BY <1>3, <1>4

\* The text at the last occurrence, if there is one.
LEMMA LastTextIs ==
  ASSUME NEW s \in Seq(Ids \X Texts), NEW id, NEW i \in Occurrences(s, id),
         \A j \in Occurrences(s, id) : j <= i
  PROVE  LastText(s, id) = s[i][2]
<1>1. Occurrences(s, id) \subseteq 1..Len(s)
  BY DEF Occurrences
<1>2. \A k \in Occurrences(s, id) : (\A j \in Occurrences(s, id) : j <= k) => k = i
  BY <1>1
<1>. QED
  BY <1>2 DEF LastText

\* The first document of a snapshot is the last of its id only if no other is.
LEMMA LastOfTail ==
  ASSUME NEW s \in Seq(Ids \X Texts), s # <<>>, NEW id
  PROVE  /\ Occurrences(Tail(s), id) # {} =>
              Occurrences(s, id) # {} /\ LastText(s, id) = LastText(Tail(s), id)
         /\ Occurrences(Tail(s), id) = {} /\ Head(s)[1] = id =>
              Occurrences(s, id) # {} /\ LastText(s, id) = Head(s)[2]
         /\ Occurrences(Tail(s), id) = {} /\ Head(s)[1] # id => Occurrences(s, id) = {}
<1> DEFINE t == Tail(s)
<1>1. /\ t \in Seq(Ids \X Texts) /\ Len(s) \in Nat \ {0} /\ Len(t) = Len(s) - 1
      /\ DOMAIN s = 1..Len(s) /\ DOMAIN t = 1..Len(t)
      /\ Head(s) = s[1] /\ \A i \in 1..Len(t) : t[i] = s[i + 1]
  OBVIOUS
<1>. HIDE DEF t
<1>2. \A j : j \in Occurrences(t, id) <=> (j \in 1..Len(t) /\ j + 1 \in Occurrences(s, id))
  BY <1>1 DEF Occurrences
<1>3. \A j \in Occurrences(s, id) : j = 1 \/ j - 1 \in Occurrences(t, id)
  BY <1>1 DEF Occurrences
<1>4. 1 \in Occurrences(s, id) <=> Head(s)[1] = id
  BY <1>1 DEF Occurrences
<1>5. Occurrences(s, id) \subseteq 1..Len(s) /\ Occurrences(t, id) \subseteq 1..Len(t)
  BY <1>1 DEF Occurrences
<1>6. ASSUME Occurrences(t, id) # {}
      PROVE  Occurrences(s, id) # {} /\ LastText(s, id) = LastText(t, id)
  <2>1. PICK i \in Occurrences(t, id) : \A j \in Occurrences(t, id) : j <= i
    BY <1>1, <1>6, LastOccurs
  <2>2. LastText(t, id) = t[i][2]
    BY <1>1, <2>1, LastTextIs
  <2>3. i + 1 \in Occurrences(s, id) /\ i \in 1..Len(t)
    BY <1>2
  <2>4. \A j \in Occurrences(s, id) : j <= i + 1
    BY <1>3, <1>5, <2>1, <2>3
  <2>5. LastText(s, id) = s[i + 1][2]
    BY <2>3, <2>4, LastTextIs
  <2>. QED
    BY <1>1, <2>2, <2>3, <2>5
<1>7. ASSUME Occurrences(t, id) = {}, Head(s)[1] = id
      PROVE  Occurrences(s, id) # {} /\ LastText(s, id) = Head(s)[2]
  <2>1. 1 \in Occurrences(s, id) /\ \A j \in Occurrences(s, id) : j <= 1
    BY <1>3, <1>4, <1>7
  <2>2. LastText(s, id) = s[1][2]
    BY <2>1, LastTextIs
  <2>. QED
    BY <1>1, <2>1, <2>2
<1>8. ASSUME Occurrences(t, id) = {}, Head(s)[1] # id
      PROVE  Occurrences(s, id) = {}
  BY <1>3, <1>4, <1>8
<1>. QED
  BY <1>6, <1>7, <1>8 DEF t

LEMMA NoneInEmpty == \A id : Occurrences(<<>>, id) = {}
  BY DEF Occurrences

---------------------------------------------------------------------------
(* The operations on the index *)

LEMMA EmptySound ==
  ASSUME NEW h \in [Ids -> BOOLEAN]
  PROVE  Sound(EmptyIndex, h)
<1>1. DOMAIN Empty = {}
  BY DEF Empty
<1>2. EmptyIndex.doc_texts = Empty /\ EmptyIndex.docs = Empty /\ EmptyIndex.inverted = Empty
  BY DEF EmptyIndex
<1>3. Inverted(Empty, h) = Empty
  BY <1>1 DEF Inverted, Having, Empty
<1>4. IsFiniteSet({}) /\ Cardinality({}) = 0
  BY FS_EmptySet
<1>5. EmptyIndex.total_len = SumFunction(EmptyIndex.docs)
  <2>1. SumFunction(Empty) = SumFunctionOnSet(Empty, {})
    BY <1>1 DEF SumFunction
  <2>2. EmptyIndex.total_len = 0
    BY DEF EmptyIndex
  <2>. QED
    BY <1>2, <2>1, <2>2, SumOfNone
<1>6. RebuiltFrom(EmptyIndex, h)
  BY <1>1, <1>2, <1>3, <1>4 DEF RebuiltFrom, EmptyIndex, Empty
<1>. QED
  BY <1>1, <1>2, <1>4, <1>5, <1>6 DEF Sound, Empty

\* The lengths that the index keeps are naturals.
LEMMA LengthsType ==
  ASSUME NEW x, NEW h, Sound(x, h)
  PROVE  /\ x.docs \in [DOMAIN x.doc_texts -> Nat]
         /\ x.docs \in [DOMAIN x.doc_texts -> Int]
<1>1. x.docs = [i \in DOMAIN x.doc_texts |-> Len(Cut(x.doc_texts, h, i))]
  BY DEF Sound, RebuiltFrom
<1>2. ASSUME NEW i \in DOMAIN x.doc_texts
      PROVE  Len(Cut(x.doc_texts, h, i)) \in Nat
  <2>1. x.doc_texts[i] \in Texts /\ h[i] \in BOOLEAN
    BY DEF Sound
  <2>2. Cut(x.doc_texts, h, i) \in Seq(Terms)
    BY <2>1, TokensAssumption DEF Cut
  <2>. QED
    BY <2>2
<1>. QED
  BY <1>1, <1>2

LEMMA RemovedSound ==
  ASSUME NEW x, NEW h, NEW g \in [Ids -> BOOLEAN], NEW id \in DOMAIN x.doc_texts,
         Sound(x, h), \A i \in Ids \ {id} : h[i] = g[i]
  PROVE  /\ Sound(Removed(x, id), g)
         /\ Removed(x, id).doc_texts = Restrict(x.doc_texts, DOMAIN x.doc_texts \ {id})
<1> DEFINE texts == x.doc_texts
           fewer == Restrict(texts, DOMAIN texts \ {id})
           y == Removed(x, id)
<1>1. /\ y.inverted = [t \in {u \in DOMAIN x.inverted : DOMAIN x.inverted[u] \ {id} # {}} |->
                         Restrict(x.inverted[t], DOMAIN x.inverted[t] \ {id})]
      /\ y.docs = Restrict(x.docs, DOMAIN x.docs \ {id})
      /\ y.doc_texts = fewer
      /\ y.doc_count = x.doc_count - 1
  BY DEF Removed
<1>2. /\ texts \in [DOMAIN texts -> Texts] /\ DOMAIN texts \subseteq Ids
      /\ IsFiniteSet(DOMAIN texts)
      /\ x.inverted = Inverted(texts, h)
      /\ x.docs = [i \in DOMAIN texts |-> Len(Cut(texts, h, i))]
      /\ x.doc_count = Cardinality(DOMAIN texts)
      /\ id \in DOMAIN texts
  BY DEF Sound, RebuiltFrom
<1>3. fewer = Restrict(texts, DOMAIN texts \ {id})
  OBVIOUS
<1>4. SUFFICES Sound(y, g)
  BY <1>1
<1>. HIDE DEF texts, fewer, y
<1>5. fewer = [i \in DOMAIN texts \ {id} |-> texts[i]]
  BY <1>3 DEF Restrict
<1>6. \A i \in DOMAIN texts \ {id} : h[i] = g[i]
  BY <1>2
<1>7. /\ \A t : Having(fewer, g, t) = Having(texts, h, t) \ {id}
      /\ \A i \in DOMAIN texts \ {id} : Cut(fewer, g, i) = Cut(texts, h, i)
  BY <1>5, <1>6 DEF Having, Cut
<1>8. y.inverted = Inverted(fewer, g)
  <2>1. /\ DOMAIN x.inverted = {u \in Terms : Having(texts, h, u) # {}}
        /\ \A t \in DOMAIN x.inverted :
             x.inverted[t] = [i \in Having(texts, h, t) |-> Frequency(Cut(texts, h, i), t)]
    BY <1>2 DEF Inverted
  <2>2. {u \in DOMAIN x.inverted : DOMAIN x.inverted[u] \ {id} # {}}
          = {u \in Terms : Having(fewer, g, u) # {}}
    BY <1>7, <2>1
  <2>3. ASSUME NEW t \in Terms, Having(fewer, g, t) # {}
        PROVE  Restrict(x.inverted[t], DOMAIN x.inverted[t] \ {id})
                 = [i \in Having(fewer, g, t) |-> Frequency(Cut(fewer, g, i), t)]
    <3>1. t \in DOMAIN x.inverted
      BY <1>7, <2>1, <2>3
    <3>2. DOMAIN x.inverted[t] \ {id} = Having(fewer, g, t)
      BY <1>7, <2>1, <3>1
    <3>3. ASSUME NEW i \in Having(fewer, g, t)
          PROVE  x.inverted[t][i] = Frequency(Cut(fewer, g, i), t)
      <4>1. i \in Having(texts, h, t) /\ i \in DOMAIN texts \ {id}
        BY <1>7 DEF Having
      <4>2. x.inverted[t][i] = Frequency(Cut(texts, h, i), t)
        BY <2>1, <3>1, <4>1
      <4>. QED
        BY <1>7, <4>1, <4>2
    <3>. QED
      BY <3>2, <3>3 DEF Restrict
  <2>. QED
    BY <1>1, <2>2, <2>3 DEF Inverted
<1>9. y.docs = [i \in DOMAIN fewer |-> Len(Cut(fewer, g, i))]
  <2>1. y.docs = [i \in DOMAIN texts \ {id} |-> Len(Cut(texts, h, i))]
    BY <1>1, <1>2 DEF Restrict
  <2>. QED
    BY <1>5, <1>7, <2>1
<1>10. IsFiniteSet(DOMAIN fewer) /\ y.doc_count = Cardinality(DOMAIN fewer)
  BY <1>1, <1>2, <1>5, FS_RemoveElement
<1>11. fewer \in [DOMAIN fewer -> Texts] /\ DOMAIN fewer \subseteq Ids
  BY <1>2, <1>5
<1>12. RebuiltFrom(y, g)
  BY <1>1, <1>8, <1>9, <1>10 DEF RebuiltFrom
<1>13. y.total_len = SumFunction(y.docs)
  <2>1. /\ x.docs \in [DOMAIN texts -> Int] /\ IsFiniteSet(DOMAIN texts) /\ id \in DOMAIN texts
        /\ x.total_len = SumFunction(x.docs)
    BY LengthsType DEF Sound, texts
  <2> DEFINE lens == x.docs
             ids == DOMAIN texts
  <2>2. SumFunction([i \in ids \ {id} |-> lens[i]]) = SumFunction(lens) - lens[id]
    <3>1. lens \in [ids -> Int] /\ IsFiniteSet(ids) /\ id \in ids
      BY <2>1
    <3>. HIDE DEF lens, ids
    <3>. QED
      BY <3>1, SumWithout
  <2>3. y.docs = [i \in DOMAIN texts \ {id} |-> x.docs[i]]
    BY <1>1, <2>1 DEF Restrict
  <2>4. y.total_len = x.total_len - x.docs[id]
    BY DEF Removed, y
  <2>. QED
    BY <2>1, <2>2, <2>3, <2>4
<1>. QED
  BY <1>1, <1>10, <1>11, <1>12, <1>13 DEF Sound

LEMMA WithoutDocSound ==
  ASSUME NEW x, NEW h, NEW g \in [Ids -> BOOLEAN], NEW id \in Ids,
         Sound(x, h), \A i \in Ids \ {id} : h[i] = g[i]
  PROVE  /\ Sound(WithoutDoc(x, id), g)
         /\ WithoutDoc(x, id).doc_texts = Restrict(x.doc_texts, DOMAIN x.doc_texts \ {id})
<1>1. DOMAIN x.docs = DOMAIN x.doc_texts
  BY DEF Sound, RebuiltFrom
<1>2. CASE id \in DOMAIN x.doc_texts
  BY <1>1, <1>2, RemovedSound DEF WithoutDoc
<1>3. CASE id \notin DOMAIN x.doc_texts
  <2>1. WithoutDoc(x, id) = x
    BY <1>1, <1>3 DEF WithoutDoc
  <2>2. Restrict(x.doc_texts, DOMAIN x.doc_texts \ {id}) = x.doc_texts
    BY <1>3 DEF Restrict, Sound
  <2>3. \A i \in DOMAIN x.doc_texts : h[i] = g[i]
    BY <1>3 DEF Sound
  <2>4. /\ \A t : Having(x.doc_texts, g, t) = Having(x.doc_texts, h, t)
        /\ \A i \in DOMAIN x.doc_texts : Cut(x.doc_texts, g, i) = Cut(x.doc_texts, h, i)
    BY <2>3 DEF Having, Cut
  <2>5. Inverted(x.doc_texts, g) = Inverted(x.doc_texts, h)
    BY <2>4 DEF Inverted, Having
  <2>6. RebuiltFrom(x, g)
    BY <2>4, <2>5 DEF Sound, RebuiltFrom
  <2>. QED
    BY <2>1, <2>2, <2>6 DEF Sound
<1>. QED
  BY <1>2, <1>3
LEMMA AddedSound ==
  ASSUME NEW y, NEW g, NEW id \in Ids, NEW text \in Texts, NEW tokens,
         Sound(y, g), id \notin DOMAIN y.doc_texts,
         tokens = Tokens[g[id]][text]
  PROVE  /\ Sound(Added(y, id, text, tokens), g)
         /\ Added(y, id, text, tokens).doc_texts = Put(y.doc_texts, id, text)
<1> DEFINE old == y.doc_texts
           texts == Put(old, id, text)
           z == Added(y, id, text, tokens)
           Posting(t) == IF t \in DOMAIN y.inverted THEN y.inverted[t] ELSE Empty
<1>1. /\ z.inverted = [t \in DOMAIN y.inverted \cup ToSet(tokens) |->
                         IF t \in ToSet(tokens) THEN Put(Posting(t), id, Frequency(tokens, t))
                         ELSE y.inverted[t]]
      /\ z.docs = Put(y.docs, id, Len(tokens))
      /\ z.doc_texts = texts
      /\ z.doc_count = y.doc_count + 1
  BY DEF Added
<1>2. /\ old \in [DOMAIN old -> Texts] /\ DOMAIN old \subseteq Ids
      /\ IsFiniteSet(DOMAIN old)
      /\ g \in [Ids -> BOOLEAN]
      /\ y.inverted = Inverted(old, g)
      /\ y.docs = [i \in DOMAIN old |-> Len(Cut(old, g, i))]
      /\ y.doc_count = Cardinality(DOMAIN old)
      /\ id \notin DOMAIN old
  BY DEF Sound, RebuiltFrom
<1>3. texts = [i \in DOMAIN old \cup {id} |-> IF i = id THEN text ELSE old[i]]
  BY DEF Put
<1>4. SUFFICES Sound(z, g)
  BY <1>1
<1>. HIDE DEF old, texts, z
<1>5. ToSet(tokens) \subseteq Terms
  BY <1>2, TokensAssumption DEF ToSet
<1>6. /\ Cut(texts, g, id) = tokens
      /\ \A i \in DOMAIN old : Cut(texts, g, i) = Cut(old, g, i)
  BY <1>2, <1>3 DEF Cut
<1>7. \A t : Having(texts, g, t) = Having(old, g, t) \cup IF t \in ToSet(tokens) THEN {id} ELSE {}
  BY <1>2, <1>3, <1>6 DEF Having
<1>8. z.inverted = Inverted(texts, g)
  <2>1. /\ DOMAIN y.inverted = {u \in Terms : Having(old, g, u) # {}}
        /\ \A t \in DOMAIN y.inverted :
             y.inverted[t] = [i \in Having(old, g, t) |-> Frequency(Cut(old, g, i), t)]
    BY <1>2 DEF Inverted
  <2>2. DOMAIN y.inverted \cup ToSet(tokens) = {u \in Terms : Having(texts, g, u) # {}}
    BY <1>5, <1>7, <2>1
  <2>3. ASSUME NEW t \in Terms
        PROVE  DOMAIN Posting(t) = Having(old, g, t)
    <3>1. CASE t \in DOMAIN y.inverted
      BY <2>1, <3>1
    <3>2. CASE t \notin DOMAIN y.inverted
      <4>1. Having(old, g, t) = {} /\ Posting(t) = Empty
        BY <2>1, <3>2
      <4>2. DOMAIN Empty = {}
        BY DEF Empty
      <4>. QED
        BY <4>1, <4>2
    <3>. QED
      BY <3>1, <3>2
  <2>4. ASSUME NEW t \in Terms, t \in ToSet(tokens)
        PROVE  Put(Posting(t), id, Frequency(tokens, t))
                 = [i \in Having(texts, g, t) |-> Frequency(Cut(texts, g, i), t)]
    <3>1. DOMAIN Posting(t) \cup {id} = Having(texts, g, t)
      BY <1>7, <2>3, <2>4
    <3>2. ASSUME NEW i \in Having(texts, g, t), i # id
          PROVE  Posting(t)[i] = Frequency(Cut(texts, g, i), t)
      <4>1. i \in Having(old, g, t) /\ i \in DOMAIN old
        BY <1>7, <3>2 DEF Having
      <4>2. t \in DOMAIN y.inverted
        BY <2>1, <4>1
      <4>3. y.inverted[t][i] = Frequency(Cut(old, g, i), t)
        BY <2>1, <4>1, <4>2
      <4>. QED
        BY <1>6, <4>1, <4>2, <4>3
    <3>. QED
      BY <1>6, <3>1, <3>2 DEF Put
  <2>5. ASSUME NEW t \in DOMAIN y.inverted, t \notin ToSet(tokens)
        PROVE  y.inverted[t] = [i \in Having(texts, g, t) |-> Frequency(Cut(texts, g, i), t)]
    <3>1. Having(texts, g, t) = Having(old, g, t) /\ Having(old, g, t) \subseteq DOMAIN old
      BY <1>7, <2>5 DEF Having
    <3>. QED
      BY <1>6, <2>1, <3>1
  <2>. QED
    BY <1>1, <2>1, <2>2, <2>4, <2>5 DEF Inverted
<1>9. z.docs = [i \in DOMAIN texts |-> Len(Cut(texts, g, i))]
  <2>1. z.docs = [i \in DOMAIN old \cup {id} |-> IF i = id THEN Len(tokens) ELSE y.docs[i]]
    BY <1>1, <1>2 DEF Put
  <2>2. DOMAIN texts = DOMAIN old \cup {id}
    BY <1>3
  <2>3. ASSUME NEW i \in DOMAIN texts
        PROVE  (IF i = id THEN Len(tokens) ELSE y.docs[i]) = Len(Cut(texts, g, i))
    BY <1>2, <1>6, <2>2
  <2>. QED
    BY <2>1, <2>2, <2>3
<1>10. IsFiniteSet(DOMAIN texts) /\ z.doc_count = Cardinality(DOMAIN texts)
  BY <1>1, <1>2, <1>3, FS_AddElement
<1>11. texts \in [DOMAIN texts -> Texts] /\ DOMAIN texts \subseteq Ids
  BY <1>2, <1>3
<1>12. RebuiltFrom(z, g)
  BY <1>1, <1>8, <1>9, <1>10 DEF RebuiltFrom
<1>13. z.total_len = SumFunction(z.docs)
  <2>1. /\ y.docs \in [DOMAIN old -> Int] /\ IsFiniteSet(DOMAIN old) /\ id \notin DOMAIN old
        /\ y.total_len = SumFunction(y.docs)
    BY LengthsType DEF Sound, old
  <2>2. Len(tokens) \in Int
    <3>1. g[id] \in BOOLEAN
      BY <1>2
    <3>2. tokens \in Seq(Terms)
      BY <3>1, TokensAssumption
    <3>. QED
      BY <3>2
  <2> DEFINE lens == y.docs
             ids == DOMAIN old
             len == Len(tokens)
  <2>3. SumFunction([i \in ids \cup {id} |-> IF i = id THEN len ELSE lens[i]])
          = SumFunction(lens) + len
    <3>1. lens \in [ids -> Int] /\ IsFiniteSet(ids) /\ id \notin ids /\ len \in Int
      BY <2>1, <2>2
    <3>. HIDE DEF lens, ids, len
    <3>. QED
      BY <3>1, SumWith
  <2>4. z.docs = [i \in DOMAIN old \cup {id} |-> IF i = id THEN Len(tokens) ELSE y.docs[i]]
    BY <1>1, <2>1 DEF Put
  <2>5. z.total_len = y.total_len + Len(tokens)
    BY DEF Added, z
  <2>. QED
    BY <2>1, <2>3, <2>4, <2>5
<1>. QED
  BY <1>1, <1>2, <1>10, <1>11, <1>12, <1>13 DEF Sound

\* index_doc: the document is held with its new text, and the others are as before.
LEMMA WithDocSound ==
  ASSUME NEW x, NEW h, NEW id \in Ids, NEW text \in Texts, NEW on \in BOOLEAN, Sound(x, h)
  PROVE  /\ Sound(WithDoc(x, id, text, on), [h EXCEPT ![id] = on])
         /\ WithDoc(x, id, text, on).doc_texts = Put(x.doc_texts, id, text)
<1> DEFINE g == [h EXCEPT ![id] = on]
           y == WithoutDoc(x, id)
<1>1. g \in [Ids -> BOOLEAN] /\ g[id] = on /\ \A i \in Ids \ {id} : h[i] = g[i]
  BY DEF Sound
<1>2. Sound(y, g) /\ y.doc_texts = Restrict(x.doc_texts, DOMAIN x.doc_texts \ {id})
  BY <1>1, WithoutDocSound
<1>3. WithDoc(x, id, text, on) = Added(y, id, text, Tokens[g[id]][text])
  BY <1>1 DEF WithDoc
<1>. HIDE DEF g, y
<1>4. id \notin DOMAIN y.doc_texts
  BY <1>2 DEF Restrict
<1>5. \A tokens : tokens = Tokens[g[id]][text] =>
        /\ Sound(Added(y, id, text, tokens), g)
        /\ Added(y, id, text, tokens).doc_texts = Put(y.doc_texts, id, text)
  BY <1>2, <1>4, AddedSound
<1>6. Put(y.doc_texts, id, text) = Put(x.doc_texts, id, text)
  BY <1>2 DEF Put, Restrict
<1>7. WithDoc(x, id, text, on).doc_texts = Put(y.doc_texts, id, text)
  BY <1>3, <1>5
<1>8. Sound(WithDoc(x, id, text, on), g)
  BY <1>3, <1>5
<1>. QED
  BY <1>6, <1>7, <1>8 DEF g

---------------------------------------------------------------------------
(* The inductive invariant *)

LEMMA InitSound == HInit => IInv
<1>. SUFFICES ASSUME HInit PROVE IInv
  OBVIOUS
<1>1. Unset \in [Ids -> BOOLEAN]
  BY DEF Unset
<1>2. Sound(EmptyIndex, Unset)
  BY <1>1, EmptySound
<1>. QED
  BY <1>2 DEF HInit, IInv

LEMMA StepSound == IInv /\ [HNext]_hvars => IInv'
<1>. SUFFICES ASSUME IInv, [HNext]_hvars PROVE IInv'
  OBVIOUS
<1>. USE DEF IInv
<1>1. ASSUME NEW id \in Ids, HRemoveDoc(id)
      PROVE  IInv'
  <2>1. [how EXCEPT ![id] = TRUE] \in [Ids -> BOOLEAN]
        /\ \A i \in Ids \ {id} : how[i] = [how EXCEPT ![id] = TRUE][i]
    BY DEF Sound
  <2>2. Sound(WithoutDoc(index, id), [how EXCEPT ![id] = TRUE])
    BY <2>1, WithoutDocSound
  <2>. QED
    BY <1>1, <2>2 DEF HRemoveDoc
<1>2. ASSUME NEW id \in Ids, NEW text \in Texts, HIndexDoc(id, text)
      PROVE  IInv'
  <2>1. Sound(WithDoc(index, id, text, stemmer), [how EXCEPT ![id] = stemmer])
    BY WithDocSound
  <2>. QED
    BY <1>2, <2>1 DEF HIndexDoc
<1>3. ASSUME index' = EmptyIndex, how' = Unset
      PROVE  Sound(index, how)'
  <2>1. Unset \in [Ids -> BOOLEAN]
    BY DEF Unset
  <2>2. Sound(EmptyIndex, Unset)
    BY <2>1, EmptySound
  <2>. QED
    BY <1>3, <2>2
<1>4. CASE HReset
  BY <1>3, <1>4 DEF HReset
<1>5. ASSUME NEW on \in BOOLEAN, HSetStemmer(on)
      PROVE  IInv'
  BY <1>5 DEF HSetStemmer
<1>6. ASSUME NEW snap \in Snapshots, HImport(snap)
      PROVE  IInv'
  BY <1>3, <1>6, SnapshotsAssumption DEF HImport
<1>7. CASE HImportNext
  <2> DEFINE doc == Head(rest)
  <2>1. rest # <<>> /\ doc \in Ids \X Texts /\ Tail(rest) \in Seq(Ids \X Texts)
    BY <1>7 DEF HImportNext
  <2>2. doc[1] \in Ids /\ doc[2] \in Texts
    BY <2>1
  <2>3. /\ index' = WithDoc(index, doc[1], doc[2], stemmer)
        /\ how' = [how EXCEPT ![doc[1]] = stemmer]
        /\ rest' = Tail(rest)
        /\ stemmer' = stemmer
    BY <1>7 DEF HImportNext
  <2>. HIDE DEF doc
  <2>4. Sound(WithDoc(index, doc[1], doc[2], stemmer), [how EXCEPT ![doc[1]] = stemmer])
    BY <2>2, WithDocSound
  <2>. QED
    BY <2>1, <2>3, <2>4
<1>8. CASE UNCHANGED hvars
  BY <1>8 DEF hvars
<1>. QED
  BY <1>1, <1>2, <1>4, <1>5, <1>6, <1>7, <1>8 DEF HNext

LEMMA AlwaysSound == HSpec => []IInv
  BY InitSound, StepSound, PTL DEF HSpec

---------------------------------------------------------------------------
(* Theorems *)

\* remove_doc, index_doc, reset and import (handrolled.rs): after any calls, on
\* any documents and with any stemmer settings, the inverted index and the
\* document count are what a rebuild from the documents held would give.
THEOREM Rebuilt == HSpec => []IncrementalIsRebuilt
<1>1. IInv => IncrementalIsRebuilt
  BY DEF IInv, Sound, IncrementalIsRebuilt
<1>. QED
  BY <1>1, AlwaysSound, PTL

\* search (handrolled.rs): the documents found through the postings are those
\* that have a term of the query, each as it was cut when it was indexed.
THEOREM FindsAsIndexed == HSpec => []FoundAsIndexed
<1>1. IInv => FoundAsIndexed
  <2>. SUFFICES ASSUME IInv, NEW q \in Queries
                PROVE  Found(q) = {id \in Holding :
                                     ToSet(Tokens[stemmer][q]) \cap ToSet(TermsOf(id)) # {}}
    BY DEF FoundAsIndexed
  <2>1. /\ DOMAIN index.docs = Holding
        /\ DOMAIN index.inverted = {u \in Terms : Having(index.doc_texts, how, u) # {}}
        /\ \A t \in DOMAIN index.inverted :
             DOMAIN index.inverted[t] = Having(index.doc_texts, how, t)
    BY DEF IInv, Sound, RebuiltFrom, Inverted, Holding
  <2>2. ToSet(Tokens[stemmer][q]) \subseteq Terms
    BY TokensAssumption DEF IInv, ToSet
  <2>3. \A t : Having(index.doc_texts, how, t) = {id \in Holding : t \in ToSet(TermsOf(id))}
    BY DEF Having, Holding, TermsOf, Cut
  <2>. QED
    BY <2>1, <2>2, <2>3 DEF Found
<1>. QED
  BY <1>1, AlwaysSound, PTL

\* search (handrolled.rs) divides by the average length and takes a logarithm of
\* the number of documents over those with the term: as long as there is a term
\* to look up, neither is zero, whatever was indexed, replaced and removed.
THEOREM ScoresStayPositive == HSpec => []ScoresArePositive
<1>1. ASSUME IInv, NEW t \in DOMAIN index.inverted
      PROVE  /\ Cardinality(DOMAIN index.inverted[t]) \in 1..index.doc_count
             /\ index.total_len > 0
  <2> DEFINE texts == index.doc_texts
             with == Having(texts, how, t)
  <2>1. /\ IsFiniteSet(DOMAIN texts) /\ index.doc_count = Cardinality(DOMAIN texts)
        /\ t \in Terms /\ with # {} /\ DOMAIN index.inverted[t] = with
        /\ with \subseteq DOMAIN texts
        /\ index.docs = [id \in DOMAIN texts |-> Len(Cut(texts, how, id))]
        /\ index.total_len = SumFunction(index.docs)
        /\ index.docs \in [DOMAIN texts -> Nat] /\ index.docs \in [DOMAIN texts -> Int]
    BY <1>1, LengthsType DEF IInv, Sound, RebuiltFrom, Inverted, Having
  <2>2. PICK id \in with : t \in ToSet(Cut(texts, how, id))
    BY <2>1 DEF Having
  <2>. HIDE DEF texts, with
  <2>3. IsFiniteSet(with) /\ Cardinality(with) \in 1..index.doc_count
    <3>1. IsFiniteSet(with) /\ Cardinality(with) <= Cardinality(DOMAIN texts)
      BY <2>1, FS_Subset
    <3>2. Cardinality(with) \in Nat /\ Cardinality(with) # 0 /\ Cardinality(DOMAIN texts) \in Nat
      BY <2>1, <3>1, FS_EmptySet, FS_CardinalityType
    <3>. QED
      BY <2>1, <3>1, <3>2
  <2>4. index.docs[id] \in Nat /\ index.docs[id] # 0
    <3>1. index.docs[id] = Len(Cut(texts, how, id)) /\ index.docs[id] \in Nat
      BY <2>1
    <3>2. Cut(texts, how, id) \in Seq(Terms)
      <4>1. texts[id] \in Texts /\ how[id] \in BOOLEAN
        BY <1>1, <2>1 DEF IInv, Sound, texts
      <4>. QED
        BY <4>1, TokensAssumption DEF Cut
    <3>3. PICK i \in DOMAIN Cut(texts, how, id) : TRUE
      BY <2>2 DEF ToSet
    <3>. QED
      BY <3>1, <3>2, <3>3
  <2>5. /\ SumFunction(index.docs) = SumFunctionOnSet(index.docs, DOMAIN texts)
        /\ SumFunctionOnSet(index.docs, DOMAIN texts) \in Nat
        /\ index.docs[id] <= SumFunctionOnSet(index.docs, DOMAIN texts)
    BY <2>1, SumOfFunction, SumOfNats
  <2>6. index.total_len > 0
    BY <2>1, <2>4, <2>5
  <2>. QED
    BY <2>1, <2>3, <2>6
<1>2. IInv => ScoresArePositive
  BY <1>1 DEF ScoresArePositive
<1>. QED
  BY <1>2, AlwaysSound, PTL

---------------------------------------------------------------------------
(* The documents, and what a call does to them *)

\* Between imports the documents are those of the index.
LEMMA FreeContent ==
  ASSUME rest = <<>>
  PROVE  HContent = [id \in Ids |-> IF id \in Holding THEN index.doc_texts[id] ELSE NoText]
  BY NoneInEmpty DEF HContent

LEMMA EmptyHolds == DOMAIN EmptyIndex.doc_texts = {}
<1>1. EmptyIndex.doc_texts = Empty
  BY DEF EmptyIndex
<1>2. DOMAIN Empty = {}
  BY DEF Empty
<1>. QED
  BY <1>1, <1>2

LEMMA InitContent == HInit => HandrolledIndex!Init
<1>. SUFFICES ASSUME HInit PROVE HContent = [id \in Ids |-> NoText]
  BY DEF HandrolledIndex!Init
<1>1. Holding = {} /\ rest = <<>>
  BY EmptyHolds DEF HInit, Holding
<1>. QED
  BY <1>1, FreeContent

LEMMA RemoveContent ==
  ASSUME IInv, NEW id \in Ids, HRemoveDoc(id)
  PROVE  HandrolledIndex!Remove(id)
<1>1. rest = <<>> /\ rest' = <<>> /\ index' = WithoutDoc(index, id)
  BY DEF HRemoveDoc, Free
<1>2. WithoutDoc(index, id).doc_texts = Restrict(index.doc_texts, Holding \ {id})
  <2>1. how \in [Ids -> BOOLEAN] /\ Sound(index, how)
    BY DEF IInv, Sound
  <2>. QED
    BY <2>1, WithoutDocSound DEF Holding
<1>3. /\ Holding' = Holding \ {id}
      /\ \A i \in Holding \ {id} : index'.doc_texts[i] = index.doc_texts[i]
  BY <1>1, <1>2 DEF Holding, Restrict
<1>4. HContent = [i \in Ids |-> IF i \in Holding THEN index.doc_texts[i] ELSE NoText]
  BY <1>1, FreeContent
<1>5. HContent' = [i \in Ids |-> IF i \in Holding' THEN index'.doc_texts[i] ELSE NoText]
  BY <1>1, NoneInEmpty DEF HContent
<1>6. HContent' = [HContent EXCEPT ![id] = NoText]
  BY <1>3, <1>4, <1>5
<1>. QED
  BY <1>6 DEF HandrolledIndex!Remove

LEMMA IndexContent ==
  ASSUME IInv, NEW id \in Ids, NEW text \in Texts, HIndexDoc(id, text)
  PROVE  HandrolledIndex!Index(id, text)
<1>1. rest = <<>> /\ rest' = <<>> /\ index' = WithDoc(index, id, text, stemmer)
  BY DEF HIndexDoc, Free
<1>2. WithDoc(index, id, text, stemmer).doc_texts = Put(index.doc_texts, id, text)
  <2>1. stemmer \in BOOLEAN /\ Sound(index, how)
    BY DEF IInv
  <2>. QED
    BY <2>1, WithDocSound
<1>3. /\ Holding' = Holding \cup {id}
      /\ \A i \in Holding \cup {id} :
           index'.doc_texts[i] = IF i = id THEN text ELSE index.doc_texts[i]
  BY <1>1, <1>2 DEF Holding, Put
<1>4. HContent = [i \in Ids |-> IF i \in Holding THEN index.doc_texts[i] ELSE NoText]
  BY <1>1, FreeContent
<1>5. HContent' = [i \in Ids |-> IF i \in Holding' THEN index'.doc_texts[i] ELSE NoText]
  BY <1>1, NoneInEmpty DEF HContent
<1>6. HContent' = [HContent EXCEPT ![id] = text]
  BY <1>3, <1>4, <1>5
<1>. QED
  BY <1>6 DEF HandrolledIndex!Index

LEMMA ResetContent == HReset => HandrolledIndex!Reset
<1>. SUFFICES ASSUME HReset PROVE HContent' = [id \in Ids |-> NoText]
  BY DEF HandrolledIndex!Reset
<1>1. Holding' = {} /\ rest' = <<>>
  BY EmptyHolds DEF HReset, Free, Holding
<1>. QED
  BY <1>1, NoneInEmpty DEF HContent

LEMMA ImportContent ==
  ASSUME NEW snap \in Snapshots, HImport(snap)
  PROVE  HandrolledIndex!Restore(snap)
<1>1. Holding' = {} /\ rest' = snap
  BY EmptyHolds DEF HImport, Holding
<1>2. HContent' = [id \in Ids |-> IF Occurrences(snap, id) # {} THEN LastText(snap, id) ELSE NoText]
  BY <1>1 DEF HContent
<1>3. HContent' = [id \in Ids |-> LastText(snap, id)]
  BY <1>2 DEF LastText
<1>. QED
  BY <1>3 DEF HandrolledIndex!Restore, HandrolledIndex!LastText,
              HandrolledIndex!Occurrences, LastText, Occurrences

LEMMA ImportNextContent ==
  ASSUME IInv, HImportNext
  PROVE  UNCHANGED HContent
<1> DEFINE key == Head(rest)[1]
           text == Head(rest)[2]
<1>1. /\ rest \in Seq(Ids \X Texts) /\ rest # <<>> /\ Head(rest) \in Ids \X Texts
      /\ rest' = Tail(rest)
      /\ index' = WithDoc(index, key, text, stemmer)
  BY DEF IInv, HImportNext
<1>2. key \in Ids /\ text \in Texts
  BY <1>1
<1>. HIDE DEF key, text
<1>3. WithDoc(index, key, text, stemmer).doc_texts = Put(index.doc_texts, key, text)
  <2>1. stemmer \in BOOLEAN /\ Sound(index, how)
    BY DEF IInv
  <2>. QED
    BY <1>2, <2>1, WithDocSound
<1>4. /\ Holding' = Holding \cup {key}
      /\ \A i \in Holding \cup {key} :
           index'.doc_texts[i] = IF i = key THEN text ELSE index.doc_texts[i]
  BY <1>1, <1>3 DEF Holding, Put
<1>5. ASSUME NEW id \in Ids
      PROVE  (IF Occurrences(rest', id) # {} THEN LastText(rest', id)
              ELSE IF id \in Holding' THEN index'.doc_texts[id] ELSE NoText)
             = (IF Occurrences(rest, id) # {} THEN LastText(rest, id)
                ELSE IF id \in Holding THEN index.doc_texts[id] ELSE NoText)
  <2>1. /\ Occurrences(rest', id) # {} =>
             Occurrences(rest, id) # {} /\ LastText(rest, id) = LastText(rest', id)
        /\ Occurrences(rest', id) = {} /\ key = id =>
             Occurrences(rest, id) # {} /\ LastText(rest, id) = text
        /\ Occurrences(rest', id) = {} /\ key # id => Occurrences(rest, id) = {}
    BY <1>1, LastOfTail DEF key, text
  <2>2. CASE Occurrences(rest', id) # {}
    BY <2>1, <2>2
  <2>3. CASE Occurrences(rest', id) = {} /\ key = id
    BY <1>4, <2>1, <2>3
  <2>4. CASE Occurrences(rest', id) = {} /\ key # id
    BY <1>4, <2>1, <2>4
  <2>. QED
    BY <2>2, <2>3, <2>4
<1>. QED
  BY <1>5 DEF HContent

\* The ids that are held after a call.
LEMMA HoldingNext ==
  ASSUME IInv
  PROVE  /\ DOMAIN index.docs = Holding
         /\ \A id \in Ids : HRemoveDoc(id) => Holding' = Holding \ {id}
         /\ \A id \in Ids, text \in Texts : HIndexDoc(id, text) => Holding' = Holding \cup {id}
         /\ HReset => Holding' = {}
         /\ \A snap : HImport(snap) => Holding' = {}
         /\ HImportNext => Holding' = Holding \cup {Head(rest)[1]}
<1>1. Sound(index, how) /\ how \in [Ids -> BOOLEAN] /\ stemmer \in BOOLEAN
  BY DEF IInv, Sound
<1>2. DOMAIN index.docs = Holding
  BY <1>1 DEF Sound, RebuiltFrom, Holding
<1>3. ASSUME NEW id \in Ids, HRemoveDoc(id)
      PROVE  Holding' = Holding \ {id}
  <2>1. WithoutDoc(index, id).doc_texts = Restrict(index.doc_texts, Holding \ {id})
    BY <1>1, WithoutDocSound DEF Holding
  <2>. QED
    BY <1>3, <2>1 DEF HRemoveDoc, Holding, Restrict
<1>4. ASSUME NEW id \in Ids, NEW text \in Texts
      PROVE  DOMAIN WithDoc(index, id, text, stemmer).doc_texts = Holding \cup {id}
  <2>1. WithDoc(index, id, text, stemmer).doc_texts = Put(index.doc_texts, id, text)
    BY <1>1, WithDocSound
  <2>. QED
    BY <2>1 DEF Put, Holding
<1>5. ASSUME NEW id \in Ids, NEW text \in Texts, HIndexDoc(id, text)
      PROVE  Holding' = Holding \cup {id}
  BY <1>4, <1>5 DEF HIndexDoc, Holding
<1>6. index' = EmptyIndex => Holding' = {}
  BY EmptyHolds DEF Holding
<1>7. ASSUME HImportNext
      PROVE  Holding' = Holding \cup {Head(rest)[1]}
  <2>1. Head(rest)[1] \in Ids /\ Head(rest)[2] \in Texts
    <3>1. rest \in Seq(Ids \X Texts) /\ rest # <<>>
      BY <1>7 DEF IInv, HImportNext
    <3>2. Head(rest) \in Ids \X Texts
      BY <3>1
    <3>. QED
      BY <3>2
  <2>2. index' = WithDoc(index, Head(rest)[1], Head(rest)[2], stemmer)
    BY <1>7 DEF HImportNext
  <2>. QED
    BY <1>4, <2>1, <2>2 DEF Holding
<1>. QED
  BY <1>2, <1>3, <1>5, <1>6, <1>7 DEF HReset, HImport

\* bm25/handrolled.rs against what mod.rs says of a backend: for any documents,
\* snapshots and stemmer settings, each call does to the documents what
\* Bm25Index promises of it, also when a snapshot holds an id twice.
THEOREM ImplementsIndex == HSpec => HandrolledIsIndex
<1> DEFINE Simulates ==
      /\ \A id \in Ids : HRemoveDoc(id) => HandrolledIndex!Remove(id)
      /\ \A id \in Ids, text \in Texts : HIndexDoc(id, text) => HandrolledIndex!Index(id, text)
      /\ HReset => HandrolledIndex!Reset
      /\ \A snap \in Snapshots : HImport(snap) => HandrolledIndex!Restore(snap)
      /\ \A on \in BOOLEAN : HSetStemmer(on) => UNCHANGED HContent
      /\ HImportNext => UNCHANGED HContent
<1>1. IInv /\ [HNext]_hvars => [Simulates]_hvars
  <2>1. \A on \in BOOLEAN : HSetStemmer(on) => UNCHANGED HContent
    BY DEF HSetStemmer, HContent, Holding
  <2>. QED
    BY <2>1, RemoveContent, IndexContent, ResetContent, ImportContent, ImportNextContent
<1>2. HSpec => [][Simulates]_hvars
  <2>. HIDE DEF Simulates
  <2>. QED
    BY <1>1, AlwaysSound, PTL DEF HSpec
<1>3. HSpec => HandrolledIndex!Init
  BY InitContent DEF HSpec
<1>. QED
  BY <1>2, <1>3 DEF HandrolledIsIndex
=============================================================================
