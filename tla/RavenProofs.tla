------------------------------ MODULE RavenProofs ------------------------------
(***************************************************************************)
(* Proofs about Raven, for any number of devices, slots, entries, keys,    *)
(* configurations and operations.                                          *)
(***************************************************************************)
EXTENDS Raven, TLAPS, FiniteSetTheorems, SequenceTheorems

(***************************************************************************)
(* Sets of numbers and sequences.                                          *)
(***************************************************************************)
\* A set of natural numbers that is not empty has a least element: the loops over
\* slots and entries stop at the first one that fits.
LEMMA MinFact ==
    ASSUME NEW S \in SUBSET Nat, S # {}
    PROVE  Min(S) \in S /\ \A y \in S : Min(S) <= y
<1>1. PICK x \in S : \A y \in S : ~(<<y, x>> \in OpToRel(<, Nat))
  BY WFMin, NatLessThanWellFounded
<1>2. \A y \in S : ~(y < x)
  <2> SUFFICES ASSUME NEW y \in S, y < x PROVE FALSE
    OBVIOUS
  <2>1. <<y, x>> \in Nat \X Nat
    OBVIOUS
  <2>2. <<y, x>>[1] < <<y, x>>[2]
    OBVIOUS
  <2>3. <<y, x>> \in OpToRel(<, Nat)
    BY <2>1, <2>2, Zenon DEF OpToRel
  <2> QED BY <1>1, <2>3, Zenon
<1>3. \A y \in S : x <= y
  BY <1>2
<1> QED BY <1>3 DEF Min

\* A set of numbers up to n has at most n elements, a subset no more, and a subset
\* that misses one fewer.
LEMMA CountFact ==
    ASSUME NEW n \in Nat, NEW T \in SUBSET (1 .. n), NEW S \in SUBSET T
    PROVE  /\ Cardinality(S) \in Nat /\ Cardinality(T) \in Nat
           /\ Cardinality(S) <= Cardinality(T) /\ Cardinality(T) <= n
           /\ S # T => Cardinality(S) < Cardinality(T)
<1>1. IsFiniteSet(1 .. n) /\ Cardinality(1 .. n) = n
  BY FS_Interval
<1>2. IsFiniteSet(T) /\ Cardinality(T) <= n
  BY <1>1, FS_Subset
<1>3. IsFiniteSet(S) /\ Cardinality(S) <= Cardinality(T) /\ (Cardinality(T) = Cardinality(S) => T = S)
  BY <1>2, FS_Subset
<1>4. Cardinality(S) \in Nat /\ Cardinality(T) \in Nat
  BY <1>2, <1>3, FS_CardinalityType
<1> QED BY <1>2, <1>3, <1>4

\* InsertAt moves what stood behind the place by one.
LEMMA InsertFact ==
    ASSUME NEW S, NEW s \in Seq(S), NEW e \in S, NEW k \in 0 .. Len(s)
    PROVE  /\ InsertAt(s, k + 1, e) \in Seq(S)
           /\ Len(InsertAt(s, k + 1, e)) = Len(s) + 1
           /\ \A j \in 1 .. Len(s) + 1 : InsertAt(s, k + 1, e)[j] =
                IF j <= k THEN s[j] ELSE IF j = k + 1 THEN e ELSE s[j - 1]
<1> DEFINE a == SubSeq(s, 1, k)
           b == SubSeq(s, k + 1, Len(s))
<1>1. a \in Seq(S) /\ Len(a) = k /\ \A j \in 1 .. k : a[j] = s[j]
  BY SubSeqProperties
<1>2. b \in Seq(S) /\ Len(b) = Len(s) - k /\ \A j \in 1 .. Len(s) - k : b[j] = s[k + j]
  BY SubSeqProperties
<1>3. InsertAt(s, k + 1, e) = (a \o <<e>>) \o b
  <2>1. (k + 1) - 1 = k OBVIOUS
  <2> QED BY <2>1 DEF InsertAt
<1> HIDE DEF a, b
<1>4. a \o <<e>> \in Seq(S) /\ Len(a \o <<e>>) = k + 1
      /\ \A j \in 1 .. k + 1 : (a \o <<e>>)[j] = IF j <= k THEN s[j] ELSE e
  BY <1>1, ConcatProperties
<1> DEFINE c == a \o <<e>>
<1> HIDE DEF c
<1>5. InsertAt(s, k + 1, e) = c \o b /\ c \in Seq(S) /\ Len(c) = k + 1
      /\ \A j \in 1 .. k + 1 : c[j] = IF j <= k THEN s[j] ELSE e
  BY <1>3, <1>4 DEF c
<1>6. /\ c \o b \in Seq(S)
      /\ Len(c \o b) = Len(c) + Len(b)
      /\ \A j \in 1 .. Len(c) + Len(b) : (c \o b)[j] = IF j <= Len(c) THEN c[j] ELSE b[j - Len(c)]
  BY <1>2, <1>5, ConcatProperties
<1> DEFINE r == c \o b
<1> HIDE DEF r
<1>7. Len(s) \in Nat OBVIOUS
<1>8. /\ r \in Seq(S) /\ Len(r) = Len(s) + 1
      /\ \A j \in 1 .. Len(s) + 1 : r[j] = IF j <= k + 1 THEN c[j] ELSE b[j - (k + 1)]
  BY <1>2, <1>5, <1>6, <1>7 DEF r
<1>9. ASSUME NEW j \in 1 .. Len(s) + 1
      PROVE  r[j] = IF j <= k THEN s[j] ELSE IF j = k + 1 THEN e ELSE s[j - 1]
  <2>1. CASE j <= k + 1 BY <1>5, <1>7, <1>8, <2>1
  <2>2. CASE j > k + 1
    <3>1. j - (k + 1) \in 1 .. Len(s) - k /\ k + (j - (k + 1)) = j - 1 BY <1>7, <2>2
    <3> QED BY <1>2, <1>7, <1>8, <2>2, <3>1
  <2> QED BY <2>1, <2>2
<1>10. InsertAt(s, k + 1, e) = r BY <1>5 DEF r
<1> HIDE DEF c, b
<1> QED BY <1>8, <1>9, <1>10, Zenon

\* RemoveAt moves what stood behind the place back by one.
LEMMA RemoveFact ==
    ASSUME NEW S, NEW s \in Seq(S), NEW i \in 1 .. Len(s)
    PROVE  /\ RemoveAt(s, i) \in Seq(S)
           /\ Len(RemoveAt(s, i)) = Len(s) - 1
           /\ \A j \in 1 .. Len(s) - 1 : RemoveAt(s, i)[j] = IF j < i THEN s[j] ELSE s[j + 1]
<1> DEFINE a == SubSeq(s, 1, i - 1)
           b == SubSeq(s, i + 1, Len(s))
<1>1. a \in Seq(S) /\ Len(a) = i - 1 /\ \A j \in 1 .. i - 1 : a[j] = s[j]
  BY SubSeqProperties
<1>2. b \in Seq(S) /\ Len(b) = Len(s) - i /\ \A j \in 1 .. Len(s) - i : b[j] = s[i + j]
  BY SubSeqProperties
<1>3. RemoveAt(s, i) = a \o b
  BY DEF RemoveAt
<1> HIDE DEF a, b
<1>4. /\ a \o b \in Seq(S)
      /\ Len(a \o b) = Len(a) + Len(b)
      /\ \A j \in 1 .. Len(a) + Len(b) : (a \o b)[j] = IF j <= Len(a) THEN a[j] ELSE b[j - Len(a)]
  BY <1>1, <1>2, ConcatProperties
<1> DEFINE r == a \o b
<1> HIDE DEF r
<1>5. Len(s) \in Nat OBVIOUS
<1>6. /\ r \in Seq(S) /\ Len(r) = Len(s) - 1
      /\ \A j \in 1 .. Len(s) - 1 : r[j] = IF j <= i - 1 THEN a[j] ELSE b[j - (i - 1)]
  BY <1>1, <1>2, <1>4, <1>5 DEF r
<1>7. ASSUME NEW j \in 1 .. Len(s) - 1
      PROVE  r[j] = IF j < i THEN s[j] ELSE s[j + 1]
  <2>1. CASE j < i BY <1>1, <1>5, <1>6, <2>1
  <2>2. CASE j >= i
    <3>1. j - (i - 1) \in 1 .. Len(s) - i /\ i + (j - (i - 1)) = j + 1 BY <1>5, <2>2
    <3> QED BY <1>2, <1>5, <1>6, <2>2, <3>1
  <2> QED BY <2>1, <2>2
<1>8. RemoveAt(s, i) = r BY <1>3 DEF r
<1> QED BY <1>6, <1>7, <1>8, Zenon

\* Without leaves a sequence alone that does not hold the element, and takes it
\* out at a place of it otherwise.
LEMMA WithoutFact ==
    ASSUME NEW S, NEW s \in Seq(S), NEW e
    PROVE  \/ e \notin Range(s) /\ Without(s, e) = s
           \/ \E i \in 1 .. Len(s) : s[i] = e /\ Without(s, e) = RemoveAt(s, i)
<1> DEFINE I == {i \in DOMAIN s : s[i] = e}
<1>0. DOMAIN s = 1 .. Len(s) /\ Len(s) \in Nat OBVIOUS
<1>1. CASE I = {}
  <2>1. e \notin Range(s) BY <1>1 DEF Range
  <2>2. Without(s, e) = s BY <1>1 DEF Without
  <2> QED BY <2>1, <2>2
<1>2. CASE I # {}
  <2>1. I \in SUBSET Nat BY <1>0
  <2>2. Min(I) \in I BY <1>2, <2>1, MinFact
  <2>3. Without(s, e) = RemoveAt(s, Min(I)) BY <1>2 DEF Without
  <2> QED BY <1>0, <2>2, <2>3
<1> QED BY <1>1, <1>2

(***************************************************************************)
(* The tables.                                                             *)
(***************************************************************************)
\* t is s with something new in it, which moved the others back or not at all;
\* s with something taken out, which moved the others to the front or not at all.
Grown(s, t) ==
    \E e : /\ e \notin Range(s) /\ e \in Range(t)
           /\ \A j \in DOMAIN t : t[j] = e \/ \E i \in DOMAIN s : i <= j /\ t[j] = s[i]

Shrunk(s, t) ==
    /\ \E e \in Range(s) : e \notin Range(t)
    /\ \A j \in DOMAIN t : \E i \in DOMAIN s : i >= j /\ t[j] = s[i]

\* raven_table_add puts a new entry somewhere into the walk and moves no other
\* one to the front.
LEMMA WithEntryFact ==
    ASSUME NEW s \in Seq(Entry), IsInjective(s), NEW e \in Entry, e \notin Range(s)
    PROVE  /\ WithEntry(s, e) \in Seq(Entry) /\ IsInjective(WithEntry(s, e))
           /\ Range(WithEntry(s, e)) = Range(s) \cup {e}
           /\ Grown(s, WithEntry(s, e))
<1> DEFINE before == {i \in DOMAIN s : Bucket[EntryId[s[i]]] < Bucket[EntryId[e]]}
           k == Cardinality(before)
           t == InsertAt(s, k + 1, e)
<1>1. WithEntry(s, e) = t BY DEF WithEntry
<1>2. DOMAIN s = 1 .. Len(s) /\ Len(s) \in Nat OBVIOUS
<1>3. k \in 0 .. Len(s)
  <2>1. before \in SUBSET (1 .. Len(s)) BY <1>2
  <2> HIDE DEF before
  <2> QED BY <1>2, <2>1, CountFact
<1> HIDE DEF k
<1>4. /\ t \in Seq(Entry) /\ Len(t) = Len(s) + 1
      /\ \A j \in 1 .. Len(s) + 1 : t[j] = IF j <= k THEN s[j] ELSE IF j = k + 1 THEN e ELSE s[j - 1]
  <2>1. ASSUME NEW m \in 0 .. Len(s)
        PROVE  /\ InsertAt(s, m + 1, e) \in Seq(Entry)
               /\ Len(InsertAt(s, m + 1, e)) = Len(s) + 1
               /\ \A j \in 1 .. Len(s) + 1 : InsertAt(s, m + 1, e)[j] =
                    IF j <= m THEN s[j] ELSE IF j = m + 1 THEN e ELSE s[j - 1]
    BY InsertFact
  <2> QED BY <1>3, <2>1
<1> HIDE DEF t
<1>5. DOMAIN t = 1 .. Len(s) + 1 BY <1>4
<1>6. \A j \in DOMAIN t : t[j] = e \/ \E i \in DOMAIN s : i <= j /\ t[j] = s[i]
  <2> SUFFICES ASSUME NEW j \in 1 .. Len(s) + 1, t[j] # e
               PROVE  \E i \in DOMAIN s : i <= j /\ t[j] = s[i]
    BY <1>5
  <2>1. CASE j <= k BY <1>2, <1>3, <1>4, <2>1
  <2>2. CASE j > k + 1
    <3>1. t[j] = s[j - 1] /\ j - 1 \in 1 .. Len(s) BY <1>2, <1>3, <1>4, <2>2
    <3> QED BY <1>2, <3>1
  <2>3. j # k + 1 BY <1>3, <1>4
  <2> QED BY <1>3, <2>1, <2>2, <2>3
<1>7. t[k + 1] = e /\ k + 1 \in DOMAIN t BY <1>2, <1>3, <1>4, <1>5
<1>8. \A i \in DOMAIN s : \E j \in DOMAIN t : t[j] = s[i]
  <2> SUFFICES ASSUME NEW i \in 1 .. Len(s) PROVE \E j \in DOMAIN t : t[j] = s[i]
    BY <1>2
  <2>1. CASE i <= k
    <3>1. i \in DOMAIN t /\ t[i] = s[i] BY <1>2, <1>3, <1>4, <1>5, <2>1
    <3> QED BY <3>1
  <2>2. CASE i > k
    <3>1. i + 1 \in DOMAIN t /\ t[i + 1] = s[(i + 1) - 1] BY <1>2, <1>3, <1>4, <1>5, <2>2
    <3>2. (i + 1) - 1 = i OBVIOUS
    <3> QED BY <3>1, <3>2
  <2> QED BY <1>3, <2>1, <2>2
<1>9. Range(t) = Range(s) \cup {e} BY <1>6, <1>7, <1>8 DEF Range
<1>10. Grown(s, t) BY <1>6, <1>9 DEF Grown
<1>11. IsInjective(t)
  <2> SUFFICES ASSUME NEW i \in 1 .. Len(s) + 1, NEW j \in 1 .. Len(s) + 1, t[i] = t[j], i < j
               PROVE  FALSE
    <3>1. ASSUME NEW i \in DOMAIN t, NEW j \in DOMAIN t, t[i] = t[j], i # j PROVE FALSE
      BY <1>2, <1>5, <3>1
    <3> QED BY <3>1 DEF IsInjective
  <2>1. \A m \in 1 .. Len(s) : s[m] # e BY <1>2 DEF Range
  <2>2. \A m, n \in 1 .. Len(s) : s[m] = s[n] => m = n BY <1>2 DEF IsInjective
  <2>3. CASE j <= k BY <1>2, <1>3, <1>4, <2>2, <2>3
  <2>4. CASE j = k + 1 BY <1>2, <1>3, <1>4, <2>1, <2>4
  <2>5. CASE j > k + 1
    <3>1. t[j] = s[j - 1] /\ j - 1 \in 1 .. Len(s) BY <1>2, <1>3, <1>4, <2>5
    <3>2. CASE i <= k BY <1>2, <1>3, <1>4, <2>2, <2>5, <3>1, <3>2
    <3>3. CASE i = k + 1 BY <1>2, <1>3, <1>4, <2>1, <3>1, <3>3
    <3>4. CASE i > k + 1
      <4>1. t[i] = s[i - 1] /\ i - 1 \in 1 .. Len(s) BY <1>2, <1>3, <1>4, <3>4
      <4> QED BY <2>2, <3>1, <4>1
    <3> QED BY <1>3, <3>2, <3>3, <3>4
  <2> QED BY <1>3, <2>3, <2>4, <2>5
<1> QED BY <1>1, <1>4, <1>9, <1>10, <1>11

\* raven_table_delete takes out one entry at most and moves no other one back.
LEMMA DeleteFact ==
    ASSUME NEW s \in Seq(Entry), IsInjective(s), NEW e
    PROVE  /\ Without(s, e) \in Seq(Entry) /\ IsInjective(Without(s, e))
           /\ Range(Without(s, e)) \subseteq Range(s)
           /\ Without(s, e) = s \/ Shrunk(s, Without(s, e))
<1> DEFINE t == Without(s, e)
<1>1. CASE t = s BY <1>1
<1>2. CASE t # s
  <2>1. PICK i \in 1 .. Len(s) : s[i] = e /\ t = RemoveAt(s, i) BY <1>2, WithoutFact
  <2>2. DOMAIN s = 1 .. Len(s) /\ Len(s) \in Nat OBVIOUS
  <2>3. /\ t \in Seq(Entry) /\ Len(t) = Len(s) - 1
        /\ \A j \in 1 .. Len(s) - 1 : t[j] = IF j < i THEN s[j] ELSE s[j + 1]
    BY <2>1, RemoveFact
  <2> HIDE DEF t
  <2>4. DOMAIN t = 1 .. Len(s) - 1 BY <2>2, <2>3
  <2>5. ASSUME NEW j \in DOMAIN t
        PROVE  \E m \in DOMAIN s : m >= j /\ m # i /\ t[j] = s[m]
    <3>1. CASE j < i
      <4>1. j \in DOMAIN s /\ t[j] = s[j] BY <2>2, <2>3, <2>4, <3>1
      <4> QED BY <2>4, <3>1, <4>1
    <3>2. CASE j >= i
      <4>1. j + 1 \in DOMAIN s /\ t[j] = s[j + 1] /\ j + 1 >= j /\ j + 1 # i
        BY <2>2, <2>3, <2>4, <3>2
      <4> QED BY <4>1
    <3> QED BY <2>2, <2>4, <3>1, <3>2
  <2>6. Range(t) \subseteq Range(s) BY <2>5 DEF Range
  <2>7. e \notin Range(t) BY <2>1, <2>2, <2>5 DEF Range, IsInjective
  <2>8. Shrunk(s, t) BY <2>1, <2>2, <2>5, <2>7 DEF Shrunk, Range
  <2>9. IsInjective(t)
    <3> SUFFICES ASSUME NEW m \in 1 .. Len(s) - 1, NEW n \in 1 .. Len(s) - 1, t[m] = t[n]
                 PROVE  m = n
      BY <2>4 DEF IsInjective
    <3>1. \A p, q \in 1 .. Len(s) : s[p] = s[q] => p = q BY <2>2 DEF IsInjective
    <3>2. PICK p \in 1 .. Len(s) : t[m] = s[p] /\ p = IF m < i THEN m ELSE m + 1
      BY <2>2, <2>3
    <3>3. PICK q \in 1 .. Len(s) : t[n] = s[q] /\ q = IF n < i THEN n ELSE n + 1
      BY <2>2, <2>3
    <3>4. p = q BY <3>1, <3>2, <3>3
    <3> QED BY <3>2, <3>3, <3>4
  <2> QED BY <2>3, <2>6, <2>8, <2>9 DEF t
<1> QED BY <1>1, <1>2

\* A table that is emptied is as it was or has shrunk.
LEMMA EmptyFact ==
    /\ <<>> \in Seq(Entry) /\ IsInjective(<<>>) /\ Range(<<>>) = {}
    /\ \A s \in Seq(Entry) : s = <<>> \/ Shrunk(s, <<>>)
<1>1. <<>> \in Seq(Entry) /\ DOMAIN <<>> = {} OBVIOUS
<1>2. IsInjective(<<>>) /\ Range(<<>>) = {} BY <1>1 DEF IsInjective, Range
<1>3. ASSUME NEW s \in Seq(Entry), s # <<>> PROVE Shrunk(s, <<>>)
  <2>1. 1 \in DOMAIN s BY <1>3
  <2>2. s[1] \in Range(s) BY <2>1 DEF Range
  <2> QED BY <1>1, <1>2, <2>2 DEF Shrunk
<1> QED BY <1>1, <1>2, <1>3

\* raven_table_find returns an entry of the table, or NULL.
LEMMA FindFact ==
    ASSUME RavenTypeOK, NEW d \in Dev, NEW i
    PROVE  Find(d, i) = NULL \/ Find(d, i) \in Range(tab[d])
<1> DEFINE hits == {j \in DOMAIN tab[d] : EntryId[tab[d][j]] = i}
<1>1. tab[d] \in Seq(Entry) BY DEF RavenTypeOK
<1>2. hits \in SUBSET Nat BY <1>1
<1>3. CASE hits = {} BY <1>3 DEF Find
<1>4. CASE hits # {}
  <2>1. Min(hits) \in hits BY <1>2, <1>4, MinFact
  <2>2. Find(d, i) = tab[d][Min(hits)] BY <1>4 DEF Find
  <2> QED BY <2>1, <2>2 DEF Range
<1> QED BY <1>3, <1>4
(***************************************************************************)
(* The inductive invariant.                                                *)
(***************************************************************************)
\* It holds at the start: any devices in any slots, unused.
LEMMA RavenInitInv == RavenInit => RavenInv
<1> SUFFICES ASSUME RavenInit PROVE RavenInv
  OBVIOUS
<1> USE RavenAssumption, BeforeAssumption DEF RavenInit, NoNl, NoTx
<1>1. RavenTypeOK
  <2>1. link \in [Dev -> LinkState] BY DEF LinkState
  <2>2. tab \in [Dev -> Seq(Entry)] BY EmptyFact
  <2>3. nl \in NlRec BY DEF NlRec, Op
  <2>4. tx \in TxRec BY DEF TxRec
  <2> QED BY <2>1, <2>2, <2>3, <2>4 DEF RavenTypeOK
<1>2. SlotInv BY DEF SlotInv, Registered
<1>3. TableInv BY EmptyFact DEF TableInv
<1>4. NlInv BY DEF NlInv
<1>5. TxInv BY DEF TxInv
<1>6. EntriesMatchConfig BY EmptyFact DEF EntriesMatchConfig
<1>7. PacketEntryLive /\ HarmOnlyByOverlap BY DEF PacketEntryLive, HarmOnlyByOverlap
<1> QED BY <1>1, <1>2, <1>3, <1>4, <1>5, <1>6, <1>7 DEF RavenInv

\* Entries that are deleted stay allocated, and a packet keeps the one it holds.
LEMMA UnlinkFact ==
    ASSUME RavenInv, NEW d \in Dev, NEW t \in Seq(Entry), IsInjective(t),
           Range(t) \subseteq Range(tab[d]), Unlink(d, t), UNCHANGED tx
    PROVE  /\ tab' \in [Dev -> Seq(Entry)] /\ dying' \subseteq Entry
           /\ tab'[d] = t /\ \A c \in Dev : c # d => tab'[c] = tab[c]
           /\ \A c \in Dev : Range(tab'[c]) \subseteq Range(tab[c])
           /\ dying' \subseteq dying \cup Range(tab[d])
           /\ TableInv' /\ PacketEntryLive'
<1> USE DEF RavenInv
<1>1. /\ tab' \in [Dev -> Seq(Entry)]
      /\ tab'[d] = t /\ \A c \in Dev : c # d => tab'[c] = tab[c]
  BY DEF Unlink, RavenTypeOK
<1>2. dying' = dying \cup (Range(tab[d]) \ Range(t)) BY DEF Unlink
<1>3. Range(tab[d]) \subseteq Entry BY DEF RavenTypeOK, Range
<1>4. TableInv' BY <1>1 DEF TableInv
<1>5. PacketEntryLive'
  <2>1. tx.res \in Entry => tx.dev \in Dev
    BY RavenAssumption DEF TxInv, RavenTypeOK, TxRec
  <2> QED BY <1>1, <1>2, <2>1 DEF PacketEntryLive
<1>6. dying' \subseteq Entry BY <1>2, <1>3 DEF RavenTypeOK
<1>7. \A c \in Dev : Range(tab'[c]) \subseteq Range(tab[c]) BY <1>1
<1> QED BY <1>1, <1>2, <1>4, <1>5, <1>6, <1>7

\* raven_newlink and raven_dellink keep the invariant: a device that is created
\* is nobody's, and one that is deleted is out of its slot before it is freed.
LEMMA LinkStep ==
    ASSUME RavenInv, NEW d \in Dev \ Nic,
           Newlink(d) \/ NewlinkRegister(d) \/ Dellink(d) \/ DellinkUnregister(d) \/ DellinkFree(d)
    PROVE  RavenInv'
<1> USE RavenAssumption DEF RavenInv
<1>1. CASE Newlink(d)
  <2> USE <1>1 DEF Newlink, Count
  <2>1. RavenTypeOK' BY EmptyFact DEF RavenTypeOK, LinkState
  <2>2. SlotInv' BY DEF SlotInv, RavenTypeOK
  <2>3. TableInv' /\ EntriesMatchConfig'
    BY EmptyFact DEF TableInv, RavenTypeOK, EntriesMatchConfig
  <2>4. NlInv' BY EmptyFact DEF NlInv, RavenTypeOK
  <2>5. TxInv' BY DEF TxInv, RavenTypeOK
  <2>6. PacketEntryLive' BY DEF PacketEntryLive, TxInv, RavenTypeOK, TxRec
  <2>7. HarmOnlyByOverlap' BY DEF HarmOnlyByOverlap, RavenTypeOK, NlInv
  <2> QED BY <2>1, <2>2, <2>3, <2>4, <2>5, <2>6, <2>7
<1>2. CASE NewlinkRegister(d)
  <2> USE <1>2 DEF NewlinkRegister
  <2>1. RavenTypeOK' BY DEF RavenTypeOK, LinkState
  <2>2. SlotInv'
    <3>1. \A n \in 1 .. N : slot[n] # d BY DEF SlotInv
    <3>2. \A m, n \in FirstFree : m = n BY DEF FirstFree
    <3>3. \A n \in 1 .. N : slot'[n] = IF n \in FirstFree THEN d ELSE slot[n] OBVIOUS
    <3>4. \A e \in Dev : link'[e] = IF e = d THEN "up" ELSE link[e] BY DEF RavenTypeOK
    <3> QED BY <3>1, <3>2, <3>3, <3>4 DEF SlotInv, RavenTypeOK
  <2>3. NlInv' BY DEF NlInv, RavenTypeOK
  <2>4. TxInv' BY DEF TxInv, RavenTypeOK
  <2>5. TableInv' /\ EntriesMatchConfig' /\ PacketEntryLive'
    BY DEF TableInv, EntriesMatchConfig, PacketEntryLive
  <2>6. HarmOnlyByOverlap' BY DEF HarmOnlyByOverlap, RavenTypeOK
  <2> QED BY <2>1, <2>2, <2>3, <2>4, <2>5, <2>6
<1>3. CASE Dellink(d)
  <2> USE <1>3 DEF Dellink, Count
  <2>0. /\ tab' \in [Dev -> Seq(Entry)] /\ dying' \subseteq Entry
        /\ tab'[d] = <<>> /\ \A c \in Dev : c # d => tab'[c] = tab[c]
        /\ \A c \in Dev : Range(tab'[c]) \subseteq Range(tab[c])
        /\ dying' \subseteq dying \cup Range(tab[d])
        /\ TableInv' /\ PacketEntryLive'
    <3>1. Range(<<>>) \subseteq Range(tab[d]) BY EmptyFact
    <3> QED BY <3>1, EmptyFact, UnlinkFact
  <2>1. RavenTypeOK'
    <3>1. link' \in [Dev -> LinkState] BY DEF RavenTypeOK, LinkState
    <3>2. over' \subseteq Dev /\ nops' \in 0 .. MaxOps BY DEF RavenTypeOK
    <3> QED BY <2>0, <3>1, <3>2 DEF RavenTypeOK
  <2>2. SlotInv' BY DEF SlotInv, RavenTypeOK
  <2>3. EntriesMatchConfig' BY <2>0 DEF EntriesMatchConfig
  <2>4. NlInv'
    <3>1. \A c \in Dev : link'[c] = IF c = d THEN "emptied" ELSE link[c] BY DEF RavenTypeOK
    <3>2. nl.dev \notin over' => nl.dev \notin over /\ nl.dev # d OBVIOUS
    <3>3. nl.op = "add" =>
             nl.arg \in Entry \ dying' /\ \A c \in Dev : nl.arg \notin Range(tab'[c])
      BY <2>0 DEF NlInv
    <3>4. nl.ph = "store" => tab'[nl.dev] = <<>> BY <2>0 DEF NlInv
    <3>5. nl.ph = "delete" /\ nl.dev \notin over' => nl.arg \in Range(tab'[nl.dev])
      BY <2>0, <3>2 DEF NlInv
    <3>6. nl.ph # "none" /\ nl.dev \notin over' => link'[nl.dev] \in {"made", "up"}
      BY <3>1, <3>2 DEF NlInv
    <3> QED BY <3>3, <3>4, <3>5, <3>6 DEF NlInv
  <2>5. TxInv' BY DEF TxInv, RavenTypeOK
  <2>6. HarmOnlyByOverlap' BY <2>0 DEF HarmOnlyByOverlap, RavenTypeOK, NlInv
  <2> QED BY <2>0, <2>1, <2>2, <2>3, <2>4, <2>5, <2>6
<1>4. CASE DellinkUnregister(d)
  <2> USE <1>4 DEF DellinkUnregister
  <2>1. RavenTypeOK' BY DEF RavenTypeOK, LinkState
  <2>2. SlotInv' BY DEF SlotInv, RavenTypeOK
  <2>3. NlInv' BY DEF NlInv, RavenTypeOK
  <2>4. TxInv' BY DEF TxInv, RavenTypeOK
  <2>5. TableInv' /\ EntriesMatchConfig' /\ PacketEntryLive'
    BY DEF TableInv, EntriesMatchConfig, PacketEntryLive
  <2>6. HarmOnlyByOverlap' BY DEF HarmOnlyByOverlap, RavenTypeOK, NlInv
  <2> QED BY <2>1, <2>2, <2>3, <2>4, <2>5, <2>6
<1>5. CASE DellinkFree(d)
  <2> USE <1>5 DEF DellinkFree
  <2>1. RavenTypeOK' BY DEF RavenTypeOK, LinkState
  <2>2. SlotInv' BY DEF SlotInv, RavenTypeOK
  <2>3. NlInv' BY DEF NlInv, RavenTypeOK
  <2>4. TxInv' BY DEF TxInv, RavenTypeOK
  <2>5. TableInv' /\ EntriesMatchConfig' /\ PacketEntryLive'
    BY DEF TableInv, EntriesMatchConfig, PacketEntryLive
  <2>6. HarmOnlyByOverlap' BY DEF HarmOnlyByOverlap, RavenTypeOK, NlInv
  <2> QED BY <2>1, <2>2, <2>3, <2>4, <2>5, <2>6
<1> QED BY <1>1, <1>2, <1>3, <1>4, <1>5

\* A command that begins keeps the invariant: the entry it adds is in use nowhere.
LEMMA FindStep ==
    ASSUME RavenInv, Commands
    PROVE  RavenInv'
<1> USE RavenAssumption DEF RavenInv
<1>1. ASSUME NEW op \in {"cfg", "add", "del"}, NEW d \in Dev, NEW a, CmdFind(op, d, a),
             op = "cfg" => a \in Cfg, op = "add" => a \in Entry \ InUse, op = "del" => a \in Id
      PROVE  RavenInv'
  <2> USE <1>1 DEF CmdFind, Count
  <2>1. /\ nl' \in NlRec /\ nl'.op = op /\ nl'.ph = "ops" /\ nl'.dev = d /\ nl'.arg = a
    BY DEF NlRec, Op
  <2>2. RavenTypeOK' BY <2>1 DEF RavenTypeOK
  <2>3. NlInv'
    <3>1. op = "add" => a \in Entry \ dying /\ \A c \in Dev : a \notin Range(tab[c])
      BY DEF InUse
    <3>2. d \notin over' => link[d] \in {"made", "up"}
      BY DEF RavenTypeOK, LinkState
    <3> QED BY <2>1, <3>1, <3>2 DEF NlInv
  <2>4. SlotInv' /\ TableInv' /\ TxInv' /\ EntriesMatchConfig' /\ PacketEntryLive'
    BY DEF SlotInv, TableInv, TxInv, EntriesMatchConfig, PacketEntryLive
  <2>5. HarmOnlyByOverlap' BY DEF HarmOnlyByOverlap
  <2> QED BY <2>2, <2>3, <2>4, <2>5
<1> QED BY <1>1 DEF Commands

\* The driver follows a freed device only if its deletion overlapped the command.
LEMMA TouchFact ==
    ASSUME RavenInv, nl.ph # "none", Touch
    PROVE  harm' \subseteq Dev /\ harm' \subseteq over
BY DEF RavenInv, RavenTypeOK, NlInv, HarmOnlyByOverlap, Touch

\* A command that ends leaves nothing to rely on.
LEMMA NoCommandFact ==
    ASSUME nl' = NoNl
    PROVE  nl' \in NlRec /\ NlInv'
BY DEF NlRec, Op, NoNl, NlInv

\* The steps of a command keep the invariant: it finds what it found before, or
\* the deletion of the device overlapped it.
LEMMA CommandStep ==
    ASSUME RavenInv, Command
    PROVE  RavenInv'
<1> USE RavenAssumption DEF RavenInv
<1>1. CASE CmdOps
  <2> USE <1>1 DEF CmdOps
  <2>1. nl' \in NlRec /\ (nl' = NoNl \/ nl' = [nl EXCEPT !.ph = "call"])
    BY DEF RavenTypeOK, NlRec, NoNl, Op
  <2>2. RavenTypeOK' BY <2>1 DEF RavenTypeOK
  <2>3. NlInv' BY <2>1 DEF NlInv, RavenTypeOK, NlRec, NoNl
  <2>4. SlotInv' /\ TableInv' /\ TxInv' /\ EntriesMatchConfig' /\ PacketEntryLive'
    BY DEF SlotInv, TableInv, TxInv, EntriesMatchConfig, PacketEntryLive
  <2>5. HarmOnlyByOverlap' BY DEF HarmOnlyByOverlap
  <2> QED BY <2>2, <2>3, <2>4, <2>5
<1>2. CASE CfgDestroy
  <2> USE <1>2 DEF CfgDestroy, Call
  <2> DEFINE d == nl.dev
  <2>1. d \in Dev /\ nl.arg \in Cfg /\ nl.op = "cfg" /\ nl.ph = "call" BY DEF NlInv
  <2>2. harm' \subseteq Dev /\ harm' \subseteq over BY <2>1, TouchFact
  <2>3. CASE Changes(d, nl.arg)
    <3>1. Unlink(d, <<>>) /\ nl' = [nl EXCEPT !.ph = "store"] BY <2>3
    <3>2. nl' \in NlRec /\ nl'.op = "cfg" /\ nl'.ph = "store" /\ nl'.dev = d /\ nl'.arg = nl.arg
      BY <2>1, <3>1 DEF RavenTypeOK, NlRec
    <3>3. /\ tab' \in [Dev -> Seq(Entry)] /\ dying' \subseteq Entry
          /\ tab'[d] = <<>> /\ \A c \in Dev : c # d => tab'[c] = tab[c]
          /\ \A c \in Dev : Range(tab'[c]) \subseteq Range(tab[c])
          /\ TableInv' /\ PacketEntryLive'
      <4>1. Range(<<>>) \subseteq Range(tab[d]) BY EmptyFact
      <4> QED BY <2>1, <3>1, <4>1, EmptyFact, UnlinkFact
    <3>4. RavenTypeOK' BY <2>2, <3>2, <3>3 DEF RavenTypeOK
    <3>5. EntriesMatchConfig' BY <3>3 DEF EntriesMatchConfig
    <3>6. NlInv' BY <2>1, <3>2, <3>3 DEF NlInv
    <3>7. SlotInv' /\ TxInv' BY DEF SlotInv, TxInv
    <3>8. HarmOnlyByOverlap' BY <2>2, <3>3 DEF HarmOnlyByOverlap
    <3> QED BY <3>3, <3>4, <3>5, <3>6, <3>7, <3>8
  <2>4. CASE ~Changes(d, nl.arg)
    <3>1. nl' = NoNl /\ UNCHANGED <<tab, dying>> BY <2>4
    <3>2. RavenTypeOK' BY <2>2, <3>1, NoCommandFact DEF RavenTypeOK
    <3>3. NlInv' BY <3>1, NoCommandFact
    <3>4. SlotInv' /\ TableInv' /\ TxInv' /\ EntriesMatchConfig' /\ PacketEntryLive'
      BY <3>1 DEF SlotInv, TableInv, TxInv, EntriesMatchConfig, PacketEntryLive
    <3>5. HarmOnlyByOverlap' BY <2>2, <3>1 DEF HarmOnlyByOverlap
    <3> QED BY <3>2, <3>3, <3>4, <3>5
  <2> QED BY <2>3, <2>4
<1>3. CASE CfgStore
  <2> USE <1>3 DEF CfgStore
  <2> DEFINE d == nl.dev
  <2>1. d \in Dev /\ nl.arg \in Cfg /\ tab[d] = <<>> BY DEF NlInv
  <2>2. RavenTypeOK' BY <2>1, NoCommandFact DEF RavenTypeOK
  <2>3. \A c \in Dev : c # d => oc'[c] = oc[c] BY DEF RavenTypeOK
  <2>4. EntriesMatchConfig' BY <2>1, <2>3, EmptyFact DEF EntriesMatchConfig
  <2>5. NlInv' BY NoCommandFact
  <2>6. TxInv' /\ PacketEntryLive' BY DEF TxInv, PacketEntryLive
  <2>7. SlotInv' /\ TableInv' /\ HarmOnlyByOverlap' BY DEF SlotInv, TableInv, HarmOnlyByOverlap
  <2> QED BY <2>2, <2>4, <2>5, <2>6, <2>7
<1>4. CASE EntryAdd
  <2> USE <1>4 DEF EntryAdd, Call
  <2> DEFINE d == nl.dev
             t == WithEntry(tab[d], nl.arg)
  <2>1. /\ d \in Dev /\ nl.arg \in Entry
        /\ \A c \in Dev : nl.arg \notin Range(tab[c])
        /\ d \notin over => link[d] \in {"made", "up"}
    BY DEF NlInv
  <2>2. t \in Seq(Entry) /\ IsInjective(t) /\ Range(t) = Range(tab[d]) \cup {nl.arg}
    BY <2>1, WithEntryFact DEF RavenTypeOK, TableInv
  <2>3. \/ UNCHANGED <<tab, under>>
        \/ tab' = [tab EXCEPT ![d] = t] /\ under' = [under EXCEPT ![nl.arg] = oc[d]]
    OBVIOUS
  <2> HIDE DEF t
  <2>4. harm' \subseteq Dev /\ harm' \subseteq over BY TouchFact
  <2>5. NlInv' /\ nl' \in NlRec BY NoCommandFact
  <2>6. SlotInv' /\ TxInv' BY DEF SlotInv, TxInv
  <2>7. CASE UNCHANGED <<tab, under>>
    <3>1. RavenTypeOK' BY <2>4, <2>5, <2>7 DEF RavenTypeOK
    <3>2. TableInv' /\ EntriesMatchConfig' /\ PacketEntryLive'
      BY <2>7 DEF TableInv, EntriesMatchConfig, PacketEntryLive
    <3>3. HarmOnlyByOverlap' BY <2>4, <2>7 DEF HarmOnlyByOverlap
    <3> QED BY <2>5, <2>6, <3>1, <3>2, <3>3
  <2>8. CASE tab' = [tab EXCEPT ![d] = t] /\ under' = [under EXCEPT ![nl.arg] = oc[d]]
    <3>1. tab' \in [Dev -> Seq(Entry)] /\ tab'[d] = t /\ \A c \in Dev : c # d => tab'[c] = tab[c]
      BY <2>1, <2>2, <2>8 DEF RavenTypeOK
    <3>2. /\ under' \in [Entry -> Cfg \cup {NULL}] /\ under'[nl.arg] = oc[d]
          /\ \A e \in Entry : e # nl.arg => under'[e] = under[e]
      BY <2>1, <2>8 DEF RavenTypeOK
    <3>3. RavenTypeOK' BY <2>4, <2>5, <3>1, <3>2 DEF RavenTypeOK
    <3>4. TableInv' BY <2>2, <3>1 DEF TableInv
    <3>5. EntriesMatchConfig'
      <4> SUFFICES ASSUME NEW c \in Dev, NEW e \in Range(tab'[c]) PROVE under'[e] = oc[c]
        BY DEF EntriesMatchConfig
      <4>1. CASE e = nl.arg /\ c = d BY <3>2, <4>1
      <4>2. CASE e \in Range(tab[c])
        <5>1. e \in Entry /\ e # nl.arg BY <2>1, <4>2 DEF RavenTypeOK, Range
        <5> QED BY <3>2, <4>2, <5>1 DEF EntriesMatchConfig
      <4> QED BY <2>2, <3>1, <4>1, <4>2
    <3>6. PacketEntryLive'
      <4>1. tx.res \in Entry => tx.dev \in Dev BY DEF TxInv, RavenTypeOK, TxRec
      <4> QED BY <2>2, <3>1, <4>1 DEF PacketEntryLive
    <3>7. HarmOnlyByOverlap' BY <2>1, <2>4, <3>1 DEF HarmOnlyByOverlap
    <3> QED BY <2>5, <2>6, <3>3, <3>4, <3>5, <3>6, <3>7
  <2> QED BY <2>3, <2>7, <2>8
<1>5. CASE EntryDelFind
  <2> USE <1>5 DEF EntryDelFind, Call
  <2> DEFINE e == Find(nl.dev, nl.arg)
  <2>1. nl.dev \in Dev /\ (nl.dev \notin over => link[nl.dev] \in {"made", "up"}) BY DEF NlInv
  <2>2. e = NULL \/ (e \in Range(tab[nl.dev]) /\ e \in Entry)
    BY <2>1, FindFact DEF RavenTypeOK, Range
  <2>3. nl' = IF e = NULL THEN NoNl ELSE [nl EXCEPT !.ph = "delete", !.arg = e] OBVIOUS
  <2> HIDE DEF e
  <2>4. harm' \subseteq Dev /\ harm' \subseteq over BY TouchFact
  <2>5. ASSUME e = NULL PROVE RavenTypeOK' /\ NlInv'
    <3>1. nl' = NoNl BY <2>3, <2>5
    <3>2. RavenTypeOK' BY <2>4, <3>1, NoCommandFact DEF RavenTypeOK
    <3>3. NlInv' BY <3>1, NoCommandFact
    <3> QED BY <3>2, <3>3
  <2>6. ASSUME e # NULL PROVE RavenTypeOK' /\ NlInv'
    <3>1. /\ nl' \in NlRec /\ nl'.op = "del" /\ nl'.ph = "delete"
          /\ nl'.dev = nl.dev /\ nl'.arg = e
      <4>1. nl \in NlRec /\ nl.op = "del" /\ nl' = [nl EXCEPT !.ph = "delete", !.arg = e]
        BY <2>3, <2>6 DEF RavenTypeOK
      <4> QED BY <2>2, <2>6, <4>1 DEF NlRec
    <3>2. RavenTypeOK' BY <2>4, <3>1 DEF RavenTypeOK
    <3>3. NlInv' BY <2>1, <2>2, <2>6, <3>1 DEF NlInv
    <3> QED BY <3>2, <3>3
  <2>7. SlotInv' /\ TableInv' /\ TxInv' /\ EntriesMatchConfig' /\ PacketEntryLive'
    BY DEF SlotInv, TableInv, TxInv, EntriesMatchConfig, PacketEntryLive
  <2>8. HarmOnlyByOverlap' BY <2>4 DEF HarmOnlyByOverlap
  <2> QED BY <2>5, <2>6, <2>7, <2>8
<1>6. CASE EntryDelDelete
  <2> USE <1>6 DEF EntryDelDelete
  <2> DEFINE d == nl.dev
             t == Without(tab[d], nl.arg)
  <2>1. /\ d \in Dev
        /\ d \notin over => link[d] \in {"made", "up"} /\ nl.arg \in Range(tab[d])
    BY DEF NlInv
  <2>2. t \in Seq(Entry) /\ IsInjective(t) /\ Range(t) \subseteq Range(tab[d])
    BY <2>1, DeleteFact DEF RavenTypeOK, TableInv
  <2>3. Unlink(d, t) OBVIOUS
  <2> HIDE DEF t
  <2>4. /\ tab' \in [Dev -> Seq(Entry)] /\ dying' \subseteq Entry
        /\ tab'[d] = t /\ \A c \in Dev : c # d => tab'[c] = tab[c]
        /\ \A c \in Dev : Range(tab'[c]) \subseteq Range(tab[c])
        /\ TableInv' /\ PacketEntryLive'
    BY <2>1, <2>2, <2>3, UnlinkFact
  <2>5. harm' \subseteq Dev /\ harm' \subseteq over BY <2>1 DEF RavenTypeOK, HarmOnlyByOverlap
  <2>6. RavenTypeOK' BY <2>4, <2>5, NoCommandFact DEF RavenTypeOK
  <2>7. EntriesMatchConfig' BY <2>4 DEF EntriesMatchConfig
  <2>8. NlInv' BY NoCommandFact
  <2>9. SlotInv' /\ TxInv' BY DEF SlotInv, TxInv
  <2>10. HarmOnlyByOverlap' BY <2>1, <2>4, <2>5 DEF HarmOnlyByOverlap
  <2> QED BY <2>4, <2>6, <2>7, <2>8, <2>9, <2>10
<1> QED BY <1>1, <1>2, <1>3, <1>4, <1>5, <1>6 DEF Command

\* A packet keeps the invariant: the entry it finds is one of the device's.
LEMMA PacketStep ==
    ASSUME RavenInv, Packets
    PROVE  RavenInv'
<1> USE RavenAssumption DEF RavenInv
<1>0. ASSUME UNCHANGED <<slot, link, oc, tab, dying, under, nl, over, harm, nops>>, tx' \in TxRec
      PROVE  /\ RavenTypeOK' /\ NlInv' /\ SlotInv' /\ TableInv'
             /\ EntriesMatchConfig' /\ HarmOnlyByOverlap'
  <2>1. RavenTypeOK' BY <1>0 DEF RavenTypeOK
  <2>2. NlInv' BY <1>0 DEF NlInv
  <2>3. SlotInv' /\ TableInv' /\ EntriesMatchConfig' /\ HarmOnlyByOverlap'
    BY <1>0 DEF SlotInv, TableInv, EntriesMatchConfig, HarmOnlyByOverlap
  <2> QED BY <2>1, <2>2, <2>3
<1>1. ASSUME NEW d \in Dev \ Nic, XmitExtract(d) PROVE RavenInv'
  <2> USE <1>1 DEF XmitExtract
  <2>1. ExtractId[oc[d]] \in Id BY DEF RavenTypeOK
  <2>2. tx' \in TxRec /\ tx'.dev = d /\ tx'.id \in Id /\ tx'.res = "busy" BY <2>1 DEF TxRec
  <2>3. TxInv' /\ PacketEntryLive' BY <2>2 DEF TxInv, PacketEntryLive
  <2> QED BY <1>0, <2>2, <2>3
<1>2. CASE XmitFind
  <2> USE <1>2 DEF XmitFind
  <2> DEFINE d == tx.dev
             e == IF Find(d, tx.id) # NULL THEN Find(d, tx.id) ELSE Find(d, ZeroId)
  <2>1. d \in Dev /\ d \notin Nic /\ tx.id \in Id /\ link[d] # "none"
    BY DEF TxInv, RavenTypeOK, TxRec
  <2>2. e = NULL \/ (e \in Range(tab[d]) /\ e \in Entry)
    BY <2>1, FindFact DEF RavenTypeOK, Range
  <2>3. tx' = [tx EXCEPT !.res = IF e = NULL THEN "error" ELSE e] OBVIOUS
  <2> HIDE DEF e
  <2>4. /\ tx' \in TxRec /\ tx'.dev = d /\ tx'.id = tx.id
        /\ tx'.res = "error" \/ (tx'.res \in Entry /\ tx'.res \in Range(tab[d]))
    BY <2>2, <2>3 DEF RavenTypeOK, TxRec
  <2>5. TxInv' BY <2>1, <2>4 DEF TxInv
  <2>6. PacketEntryLive' BY <2>1, <2>4 DEF PacketEntryLive
  <2> QED BY <1>0, <2>4, <2>5, <2>6
<1>3. CASE XmitEnd
  <2>1. tx' \in TxRec /\ tx'.dev = NULL /\ tx'.res = "none" BY <1>3 DEF XmitEnd, NoTx, TxRec
  <2>2. TxInv' /\ PacketEntryLive' BY <2>1 DEF TxInv, PacketEntryLive
  <2> QED BY <1>0, <1>3, <2>1, <2>2 DEF XmitEnd
<1> QED BY <1>1, <1>2, <1>3 DEF Packets

\* An entry is freed when no packet can hold it.
LEMMA ReclaimStep ==
    ASSUME RavenInv, Reclaim
    PROVE  RavenInv'
<1> USE RavenAssumption DEF RavenInv
<1>1. PICK e \in Entry : EntryFree(e) BY DEF Reclaim
<1> USE <1>1 DEF EntryFree
<1>2. RavenTypeOK' BY DEF RavenTypeOK
<1>3. NlInv' BY DEF NlInv
<1>4. PacketEntryLive' BY DEF PacketEntryLive, TxInv
<1>5. SlotInv' /\ TableInv' /\ TxInv' /\ EntriesMatchConfig' /\ HarmOnlyByOverlap'
  BY DEF SlotInv, TableInv, TxInv, EntriesMatchConfig, HarmOnlyByOverlap
<1> QED BY <1>2, <1>3, <1>4, <1>5

\* Every step of the threads keeps the invariant.
LEMMA RavenStep ==
    ASSUME RavenInv, Links \/ Commands \/ Command \/ Packets \/ Reclaim
    PROVE  RavenInv'
BY LinkStep, FindStep, CommandStep, PacketStep, ReclaimStep DEF Links

\* What a step does to a slot and to a table: a slot is filled with a device that
\* is in no slot, or cleared; the table of a registered device stays, grows by one
\* entry or shrinks.
LEMMA StepShape ==
    ASSUME RavenInv, Links \/ Commands \/ Command \/ Packets \/ Reclaim
    PROVE  /\ \A n \in 1 .. N : \/ slot'[n] = slot[n]
                                \/ slot'[n] = NULL
                                \/ \A m \in 1 .. N : slot[m] # slot'[n]
           /\ \A n \in 1 .. N : slot[n] \in Dev =>
                LET s == tab[slot[n]]
                    t == tab'[slot[n]]
                IN  t = s \/ Grown(s, t) \/ Shrunk(s, t)
<1> USE RavenAssumption DEF RavenInv
<1> DEFINE SlotShape == \A n \in 1 .. N : \/ slot'[n] = slot[n]
                                         \/ slot'[n] = NULL
                                         \/ \A m \in 1 .. N : slot[m] # slot'[n]
           TabShape(d) == tab'[d] = tab[d] \/ Grown(tab[d], tab'[d]) \/ Shrunk(tab[d], tab'[d])
           Listed == {d \in Dev : \E n \in 1 .. N : slot[n] = d}
<1>1. SlotShape
  <2>1. ASSUME NEW d \in Dev, NewlinkRegister(d) PROVE SlotShape
    BY <2>1 DEF NewlinkRegister, SlotInv
  <2>2. ASSUME NEW d \in Dev, DellinkUnregister(d) PROVE SlotShape
    BY <2>2 DEF DellinkUnregister
  <2>3. CASE slot' = slot BY <2>3
  <2>4. ASSUME NEW d \in Dev, Newlink(d) \/ Dellink(d) \/ DellinkFree(d) PROVE slot' = slot
    BY <2>4 DEF Newlink, Dellink, DellinkFree
  <2>5. ASSUME Commands \/ Command \/ Packets \/ Reclaim PROVE slot' = slot
    BY <2>5 DEF Commands, CmdFind, Command, CmdOps, CfgDestroy, CfgStore, EntryAdd, EntryDelFind,
                EntryDelDelete, Packets, XmitExtract, XmitFind, XmitEnd, Reclaim, EntryFree
  <2> QED BY <2>1, <2>2, <2>3, <2>4, <2>5 DEF Links
<1>2. \A d \in Listed : TabShape(d)
  <2>1. CASE tab' = tab BY <2>1
  <2>2. ASSUME NEW c \in Dev, Newlink(c), NEW d \in Listed PROVE tab'[d] = tab[d]
    BY <2>2 DEF Newlink, SlotInv, RavenTypeOK
  <2>3. ASSUME NEW c \in Dev, tab' = [tab EXCEPT ![c] = <<>>], NEW d \in Dev PROVE TabShape(d)
    BY <2>3, EmptyFact DEF RavenTypeOK
  <2>4. ASSUME NEW c \in Dev, Dellink(c), NEW d \in Dev PROVE TabShape(d)
    BY <2>3, <2>4 DEF Dellink, Unlink
  <2>5. ASSUME CfgDestroy, NEW d \in Dev PROVE TabShape(d)
    <3>1. nl.dev \in Dev BY <2>5 DEF CfgDestroy, Call, NlInv
    <3> QED BY <2>1, <2>3, <2>5, <3>1 DEF CfgDestroy, Unlink
  <2>6. ASSUME EntryAdd, NEW d \in Dev PROVE TabShape(d)
    <3>1. nl.dev \in Dev /\ nl.arg \in Entry /\ nl.arg \notin Range(tab[nl.dev])
      BY <2>6 DEF EntryAdd, Call, NlInv
    <3>2. Grown(tab[nl.dev], WithEntry(tab[nl.dev], nl.arg))
      BY <3>1, WithEntryFact DEF RavenTypeOK, TableInv
    <3>3. tab' = tab \/ tab' = [tab EXCEPT ![nl.dev] = WithEntry(tab[nl.dev], nl.arg)]
      BY <2>6 DEF EntryAdd
    <3> QED BY <3>1, <3>2, <3>3 DEF RavenTypeOK
  <2>7. ASSUME EntryDelDelete, NEW d \in Dev PROVE TabShape(d)
    <3> DEFINE t == Without(tab[nl.dev], nl.arg)
    <3>1. nl.dev \in Dev BY <2>7 DEF EntryDelDelete, NlInv
    <3>2. t = tab[nl.dev] \/ Shrunk(tab[nl.dev], t)
      BY <3>1, DeleteFact DEF RavenTypeOK, TableInv
    <3>3. tab' = [tab EXCEPT ![nl.dev] = t] BY <2>7 DEF EntryDelDelete, Unlink
    <3> HIDE DEF t
    <3> QED BY <3>1, <3>2, <3>3 DEF RavenTypeOK
  <2>8. ASSUME NEW d \in Dev, NewlinkRegister(d) \/ DellinkUnregister(d) \/ DellinkFree(d)
        PROVE  tab' = tab
    BY <2>8 DEF NewlinkRegister, DellinkUnregister, DellinkFree
  <2>9. ASSUME Commands \/ CmdOps \/ CfgStore \/ EntryDelFind \/ Packets \/ Reclaim
        PROVE  tab' = tab
    BY <2>9 DEF Commands, CmdFind, CmdOps, CfgStore, EntryDelFind, Packets, XmitExtract,
                XmitFind, XmitEnd, Reclaim, EntryFree
  <2> HIDE DEF TabShape
  <2>10. CASE Links BY <2>1, <2>2, <2>4, <2>8, <2>10 DEF Links, TabShape
  <2>11. CASE Command BY <2>1, <2>5, <2>6, <2>7, <2>9, <2>11 DEF Command
  <2>12. CASE Commands \/ Packets \/ Reclaim BY <2>1, <2>9, <2>12
  <2> QED BY <2>10, <2>11, <2>12
<1>3. ASSUME NEW n \in 1 .. N, slot[n] \in Dev PROVE TabShape(slot[n])
  BY <1>2, <1>3
<1> QED BY <1>1, <1>3
==============================================================================
