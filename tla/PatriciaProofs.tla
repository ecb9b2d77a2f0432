---------------------------- MODULE PatriciaProofs ----------------------------
(***************************************************************************)
(* Proofs about Patricia: the writer keeps the trie a tree, and a search   *)
(* that runs meanwhile finds what is stored all the time.                  *)
(*                                                                         *)
(* The walks of patricia_lookup and patricia_search_exact end, and where,  *)
(* is shown by induction on the bits that are left.  What a change of the  *)
(* trie does to a tree is stated once for each kind of change (ChildTree,  *)
(* ParentTree, FreeTree, BypassTree); a step of the writer is one of these *)
(* or two of them.                                                         *)
(***************************************************************************)
EXTENDS Patricia, FiniteSetTheorems, NaturalsInduction, SequenceTheorems,
        WellFoundedInduction, TLAPS

(***************************************************************************)
(* Walks.                                                                  *)
(***************************************************************************)

\* Every set of numbers that is not empty has a least one: the induction
\* below argues about the least counterexample.
LEMMA LeastFact ==
    ASSUME NEW S \in SUBSET Nat, S # {}
    PROVE  \E x \in S : \A y \in S : x <= y
<1>1. PICK x \in S : \A y \in S : ~(<<y, x>> \in OpToRel(<, Nat))
  BY WFMin, NatLessThanWellFounded
<1>2. \A y \in S : ~(y < x)
  <2> SUFFICES ASSUME NEW y \in S, y < x PROVE FALSE
    OBVIOUS
  <2>1. <<y, x>> \in Nat \X Nat
    OBVIOUS
  <2>2. <<y, x>>[1] < <<y, x>>[2]
    OBVIOUS
  <2>3. <<y, x>> \in OpToRel(<, Nat)
    BY <2>1, <2>2, Zenon DEF OpToRel
  <2> QED BY <1>1, <2>3, Zenon
<1>3. \A y \in S : x <= y
  BY <1>2
<1> QED BY <1>3

\* A walk along which a rank falls defines a function: where it ends.
LEMMA WalkDef ==
    ASSUME NEW S, NEW next \in [S -> S], NEW K \in Nat, NEW rank \in [S -> 0 .. K],
           \A n \in S : next[n] # n => rank[next[n]] < rank[n]
    PROVE  \E f : f = [n \in S |-> IF next[n] = n THEN n ELSE f[next[n]]]
<1> DEFINE D(k) == {n \in S : rank[n] < k}
           P(k) == \E f : f = [n \in D(k) |-> IF next[n] = n THEN n ELSE f[next[n]]]
           Bad == {k \in Nat : ~P(k)}
<1>1. ASSUME Bad # {} PROVE FALSE
  <2>1. PICK k \in Bad : \A j \in Bad : k <= j
    <3> Bad \in SUBSET Nat OBVIOUS
    <3> HIDE DEF Bad
    <3> QED BY <1>1, LeastFact
  <2>2. k # 0
    <3>1. D(0) = {} OBVIOUS
    <3>2. P(0)
      <4> DEFINE f == [n \in {} |-> n]
      <4>1. f = [n \in D(0) |-> IF next[n] = n THEN n ELSE f[next[n]]] BY <3>1
      <4> HIDE DEF f
      <4> QED BY <4>1
    <3> QED BY <2>1, <3>2
  <2> DEFINE j == k - 1
  <2>3. j \in Nat /\ k = j + 1 /\ ~(k <= j) BY <2>1, <2>2
  <2>4. P(j) BY <2>1, <2>3
  <2> HIDE DEF j
  <2>5. PICK f : f = [n \in D(j) |-> IF next[n] = n THEN n ELSE f[next[n]]] BY <2>4
  <2> DEFINE g == [n \in D(k) |-> IF next[n] = n THEN n ELSE f[next[n]]]
  <2>6. ASSUME NEW n \in D(k) PROVE g[n] = IF next[n] = n THEN n ELSE g[next[n]]
    <3>1. CASE next[n] = n BY <3>1
    <3>2. CASE next[n] # n
      <4>1. next[n] \in D(j) /\ next[n] \in D(k) BY <3>2, <2>3
      <4>2. f[next[n]] = g[next[n]] BY <4>1, <2>5
      <4> QED BY <3>2, <4>2
    <3> QED BY <3>1, <3>2
  <2>7. g = [n \in D(k) |-> IF next[n] = n THEN n ELSE g[next[n]]]
    <3> HIDE DEF D
    <3>1. \A n \in D(k) : g[n] = IF next[n] = n THEN n ELSE g[next[n]] BY <2>6
    <3>2. g = [n \in D(k) |-> g[n]] OBVIOUS
    <3> HIDE DEF g
    <3>3. [n \in D(k) |-> g[n]] = [n \in D(k) |-> IF next[n] = n THEN n ELSE g[next[n]]]
      BY <3>1, Zenon
    <3> QED BY <3>2, <3>3, Zenon
  <2> HIDE DEF g, D
  <2>8. P(k) BY <2>7
  <2> QED BY <2>1, <2>8
<1>2. P(K + 1)
  <2>1. K + 1 \in Nat OBVIOUS
  <2>2. K + 1 \notin Bad
    <3> HIDE DEF Bad
    <3> QED BY <1>1
  <2> HIDE DEF P
  <2> QED BY <2>1, <2>2
<1>3. D(K + 1) = S OBVIOUS
<1> HIDE DEF D
<1> QED BY <1>2, <1>3

\* A walk that starts in I and cannot leave it ends in I, at a node it does not
\* leave.
LEMMA WalkFact ==
    ASSUME NEW S, NEW next \in [S -> S], NEW K \in Nat, NEW rank \in [S -> 0 .. K],
           \A n \in S : next[n] # n => rank[next[n]] < rank[n],
           NEW I \in SUBSET S, \A n \in I : next[n] \in I,
           NEW s \in I
    PROVE  WalkEnd(next, s) \in I /\ next[WalkEnd(next, s)] = WalkEnd(next, s)
<1> DEFINE e == CHOOSE f : f = [n \in S |-> IF next[n] = n THEN n ELSE f[next[n]]]
<1>1. e = [n \in S |-> IF next[n] = n THEN n ELSE e[next[n]]]
  BY WalkDef
<1>2. WalkEnd(next, s) = e[s]
  <2>1. DOMAIN next = S OBVIOUS
  <2> QED BY <2>1 DEF WalkEnd
<1> HIDE DEF e
<1> DEFINE Bad == {k \in Nat : \E n \in I : rank[n] = k /\ ~(e[n] \in I /\ next[e[n]] = e[n])}
<1>3. ASSUME Bad # {} PROVE FALSE
  <2>1. PICK k \in Bad : \A j \in Bad : k <= j
    <3> Bad \in SUBSET Nat OBVIOUS
    <3> HIDE DEF Bad
    <3> QED BY <1>3, LeastFact
  <2>2. PICK n \in I : rank[n] = k /\ ~(e[n] \in I /\ next[e[n]] = e[n]) BY <2>1
  <2>3. next[n] # n BY <2>2, <1>1
  <2>4. e[n] = e[next[n]] /\ next[n] \in I /\ rank[next[n]] < k /\ rank[next[n]] \in Nat
    BY <2>2, <2>3, <1>1
  <2>5. rank[next[n]] \in Bad BY <2>2, <2>4
  <2> QED BY <2>1, <2>4, <2>5
<1>4. rank[s] \in Nat OBVIOUS
<1> QED BY <1>2, <1>3, <1>4

(***************************************************************************)
(* Prefixes.                                                               *)
(***************************************************************************)
\* A prefix is a sequence of at most maxbits bits.
LEMMA BitsFact ==
    ASSUME NEW p \in Bits
    PROVE  /\ p \in Seq(0 .. 1) /\ p \in [1 .. Len(p) -> 0 .. 1]
           /\ Len(p) \in Nat /\ Len(p) <= maxbits
           /\ \A i \in Nat : Bit(p, i) \in 0 .. 1
<1>1. PICK n \in 0 .. maxbits : p \in [1 .. n -> 0 .. 1] BY DEF Bits
<1>2. n \in Nat /\ n <= maxbits BY PrefixAssumption
<1>3. p \in Seq(0 .. 1) /\ Len(p) = n BY <1>1, <1>2
<1> QED BY <1>1, <1>2, <1>3 DEF Bit

\* A sequence of at most maxbits bits is a prefix.
LEMMA BitsIntro ==
    ASSUME NEW n \in Nat, n <= maxbits, NEW p \in [1 .. n -> 0 .. 1]
    PROVE  p \in Bits /\ Len(p) = n
<1>1. n \in 0 .. maxbits BY PrefixAssumption
<1>2. Len(p) = n OBVIOUS
<1> QED BY <1>1, <1>2 DEF Bits

\* The first n bits of a prefix.
LEMMA FrontFact ==
    ASSUME NEW q \in Bits, NEW n \in Nat, n <= Len(q), NEW g, g = SubSeq(q, 1, n)
    PROVE  g \in [1 .. n -> 0 .. 1] /\ \A i \in 1 .. n : g[i] = q[i]
<1>1. q \in [1 .. Len(q) -> 0 .. 1] /\ Len(q) \in Nat BY BitsFact
<1>2. \A i \in 1 .. n : q[i] \in 0 .. 1 BY <1>1
<1>3. g \in Seq(0 .. 1) BY <1>2, SubSeqProperties
<1>4. Len(g) = n /\ \A i \in 1 .. n : g[i] = q[i]
  <2>1. Len(g) = IF 1 <= n THEN n - 1 + 1 ELSE 0 BY <1>2, SubSeqProperties
  <2>2. \A i \in 1 .. n - 1 + 1 : g[i] = q[1 + i - 1] BY <1>2, SubSeqProperties
  <2> QED BY <2>1, <2>2
<1>5. g \in [1 .. Len(g) -> 0 .. 1] BY <1>3, LenProperties, Zenon
<1> QED BY <1>4, <1>5

\* A prefix covers another if the other has the same bits up to its length.
LEMMA CoversFact ==
    ASSUME NEW p \in Bits, NEW q \in Bits
    PROVE  Covers(p, q) <=> Len(p) <= Len(q) /\ \A i \in 1 .. Len(p) : p[i] = q[i]
<1>1. p \in [1 .. Len(p) -> 0 .. 1] /\ q \in Seq(0 .. 1) /\ Len(p) \in Nat /\ Len(q) \in Nat
  BY BitsFact
<1> DEFINE g == SubSeq(q, 1, Len(p))
<1>2. ASSUME Len(p) <= Len(q)
      PROVE  g = p <=> \A i \in 1 .. Len(p) : p[i] = q[i]
  <2>1. g \in [1 .. Len(p) -> 0 .. 1] /\ \A i \in 1 .. Len(p) : g[i] = q[i]
    BY <1>1, <1>2, FrontFact
  <2> HIDE DEF g
  <2> QED BY <1>1, <2>1
<1> QED BY <1>1, <1>2 DEF Covers

\* "Covers" is a partial order in which all that cover a prefix are comparable.
LEMMA CoversOrder ==
    ASSUME NEW p \in Bits, NEW q \in Bits, NEW r \in Bits
    PROVE  /\ Covers(p, p)
           /\ Covers(p, q) => Len(p) <= Len(q)
           /\ Covers(p, q) /\ Covers(q, r) => Covers(p, r)
           /\ Covers(p, q) /\ Len(q) <= Len(p) => p = q
           /\ Covers(p, r) /\ Covers(q, r) /\ Len(p) <= Len(q) => Covers(p, q)
<1>1. /\ p \in [1 .. Len(p) -> 0 .. 1] /\ q \in [1 .. Len(q) -> 0 .. 1]
      /\ Len(p) \in Nat /\ Len(q) \in Nat /\ Len(r) \in Nat
  BY BitsFact
<1>2. Covers(p, p) BY <1>1, CoversFact
<1>3. Covers(p, q) => Len(p) <= Len(q) BY <1>1, CoversFact
<1>4. Covers(p, q) /\ Covers(q, r) => Covers(p, r) BY <1>1, CoversFact
<1>5. Covers(p, q) /\ Len(q) <= Len(p) => p = q
  <2> SUFFICES ASSUME Covers(p, q), Len(q) <= Len(p) PROVE p = q OBVIOUS
  <2>1. \A i \in 1 .. Len(p) : p[i] = q[i] BY CoversFact
  <2>2. Len(p) = Len(q)
    <3>1. Len(p) \in Nat /\ Len(q) \in Nat BY BitsFact
    <3> QED BY <1>3, <3>1
  <2> QED BY <1>1, <2>1, <2>2
<1>6. Covers(p, r) /\ Covers(q, r) /\ Len(p) <= Len(q) => Covers(p, q) BY <1>1, CoversFact
<1> QED BY <1>2, <1>3, <1>4, <1>5, <1>6

\* What covers the same prefix beyond n is on the same way from n.
LEMMA WayFact ==
    ASSUME NEW n \in Bits, NEW p \in Bits, NEW q \in Bits, Covers(p, q), Len(n) < Len(p)
    PROVE  Way(n, p) = Way(n, q)
<1>1. Len(n) \in Nat /\ Len(p) \in Nat /\ Len(q) \in Nat BY BitsFact
<1>2. Len(p) <= Len(q) /\ p[Len(n) + 1] = q[Len(n) + 1] BY <1>1, CoversFact
<1> QED BY <1>1, <1>2 DEF Way, Bit

\* From a node a way leads left or right.
LEMMA WayType == ASSUME NEW n, NEW p PROVE Way(n, p) \in {"l", "r"}
BY DEF Way

\* The first bit in which two prefixes differ.
LEMMA DifferFact ==
    ASSUME NEW p \in Bits, NEW q \in Bits, NEW check \in Nat, check <= Len(p), check <= Len(q)
    PROVE  \E d, g :
              /\ d = DifferBit(p, q, check) /\ g = SubSeq(p, 1, d)
              /\ d \in Nat /\ d <= check
              /\ g \in Bits /\ Len(g) = d /\ Covers(g, p) /\ Covers(g, q)
              /\ d < check => Way(g, p) # Way(g, q)
<1> DEFINE d == DifferBit(p, q, check)
           g == SubSeq(p, 1, d)
           D == {i \in 0 .. check - 1 : Bit(p, i) # Bit(q, i)}
<1>1. /\ p \in [1 .. Len(p) -> 0 .. 1] /\ q \in [1 .. Len(q) -> 0 .. 1] /\ p \in Seq(0 .. 1)
      /\ Len(p) \in Nat /\ Len(q) \in Nat /\ Len(p) <= maxbits /\ Len(q) <= maxbits
  BY BitsFact
<1>2. /\ d \in Nat /\ d <= check
      /\ d < check => Bit(p, d) # Bit(q, d)
      /\ \A i \in 0 .. d - 1 : Bit(p, i) = Bit(q, i)
  <2>1. CASE D = {}
    <3>1. d = check BY <2>1 DEF DifferBit
    <3> QED BY <2>1, <3>1
  <2>2. CASE D # {}
    <3>1. D \in SUBSET Nat OBVIOUS
    <3> DEFINE e == CHOOSE i \in D : \A j \in D : i <= j
    <3>2. d = e BY <2>2 DEF DifferBit
    <3>3. e \in D /\ \A j \in D : e <= j
      <4> HIDE DEF D
      <4>1. \E i \in D : \A j \in D : i <= j BY <2>2, <3>1, LeastFact
      <4> QED BY <4>1
    <3> HIDE DEF e
    <3>4. d \in 0 .. check - 1 /\ Bit(p, d) # Bit(q, d) BY <3>2, <3>3
    <3>5. ASSUME NEW i \in 0 .. d - 1 PROVE Bit(p, i) = Bit(q, i)
      <4>1. i \in 0 .. check - 1 /\ ~(d <= i) BY <3>4
      <4> QED BY <4>1, <3>2, <3>3
    <3> QED BY <3>4, <3>5
  <2> QED BY <2>1, <2>2
<1> HIDE DEF d
<1>3. \A i \in 1 .. d : p[i] = q[i]
  <2> SUFFICES ASSUME NEW i \in 1 .. d PROVE p[i] = q[i] OBVIOUS
  <2>1. i - 1 \in 0 .. d - 1 /\ i - 1 < Len(p) /\ i - 1 < Len(q) /\ (i - 1) + 1 = i BY <1>1, <1>2
  <2>2. Bit(p, i - 1) = Bit(q, i - 1) BY <1>2, <2>1
  <2> QED BY <2>1, <2>2 DEF Bit
<1>4. d \in Nat /\ d <= Len(p) /\ d <= Len(q) /\ d <= maxbits BY <1>1, <1>2, PrefixAssumption
<1>5. g \in [1 .. d -> 0 .. 1] /\ \A i \in 1 .. d : g[i] = p[i]
  <2>1. p \in Bits /\ d \in Nat /\ d <= Len(p) BY <1>4
  <2>2. SubSeq(p, 1, d) \in [1 .. d -> 0 .. 1] /\ \A i \in 1 .. d : SubSeq(p, 1, d)[i] = p[i]
    BY <2>1, FrontFact, Zenon
  <2> QED BY <2>2, Zenon
<1> HIDE DEF g
<1>6. g \in Bits /\ Len(g) = d BY <1>2, <1>4, <1>5, BitsIntro
<1>7. Covers(g, p) /\ Covers(g, q)
  <2>1. Covers(g, p) BY <1>4, <1>5, <1>6, CoversFact
  <2>2. Covers(g, q) BY <1>3, <1>4, <1>5, <1>6, CoversFact
  <2> QED BY <2>1, <2>2
<1>8. d < check => Way(g, p) # Way(g, q)
  <2>1. Bit(p, d) \in 0 .. 1 /\ Bit(q, d) \in 0 .. 1 BY <1>2, BitsFact
  <2> QED BY <1>2, <1>6, <2>1 DEF Way
<1>9. d = DifferBit(p, q, check) /\ g = SubSeq(p, 1, d) BY DEF d, g
<1> QED BY <1>2, <1>6, <1>7, <1>8, <1>9

(***************************************************************************)
(* The trie.  Four changes keep its shape: a new leaf, a new node between  *)
(* a node and its parent, a leaf that goes, a node with one child that     *)
(* goes.                                                                   *)
(***************************************************************************)
\* A node is on one way from what is above it.
LEMMA TreeOrder ==
    ASSUME NEW nd, NEW hd, NEW gone \in SUBSET Bits, DOMAIN nd \subseteq Bits, Links(nd, hd, gone),
           NEW n \in DOMAIN nd, NEW b \in {"l", "r"}, nd[n][b] # NULL
    PROVE  /\ nd[n][b] \in Bits /\ nd[n][b] # n
           /\ Covers(n, nd[n][b]) /\ Len(n) < Len(nd[n][b]) /\ b = Way(n, nd[n][b])
           /\ Len(n) \in Nat /\ Len(nd[n][b]) \in Nat
<1> DEFINE c == nd[n][b]
<1>1. c \in Bits /\ Below(n, b, c) BY DEF Links
<1> HIDE DEF c
<1>2. Len(n) \in Nat /\ Len(c) \in Nat BY <1>1, BitsFact
<1>3. Covers(n, c) /\ Len(n) < Len(c) /\ b = Way(n, c) BY <1>1 DEF Below
<1>4. c # n BY <1>2, <1>3
<1> QED BY <1>1, <1>2, <1>3, <1>4 DEF c

\* A new leaf x at an empty link of t.
LEMMA ChildTree ==
    ASSUME NEW nd, NEW hd, DOMAIN nd \subseteq Bits, Tree(nd, hd, {}, {}),
           NEW t \in DOMAIN nd, NEW x \in Bits, x \notin DOMAIN nd, Covers(t, x),
           nd[t][Way(t, x)] = NULL,
           NEW nw, DOMAIN nw = DOMAIN nd \cup {x},
           \A n \in DOMAIN nd : nw[n].parent = nd[n].parent,
           \A n \in DOMAIN nd, b \in {"l", "r"} :
               nw[n][b] = IF n = t /\ b = Way(t, x) THEN x ELSE nd[n][b],
           nw[x].parent = t, nw[x]["l"] = NULL, nw[x]["r"] = NULL
    PROVE  Tree(nw, hd, {}, {})
<1>1. x # NULL /\ t # NULL /\ t \in Bits /\ t # x BY PrefixAssumption
<1>2. Links(nd, hd, {}) /\ Closed(nd, hd) /\ Parents(nd, hd, {}) BY DEF Tree
<1>3. Len(t) < Len(x) /\ Len(t) \in Nat /\ Len(x) \in Nat
  <2>1. Len(t) \in Nat /\ Len(x) \in Nat BY <1>1, BitsFact
  <2> QED BY <1>1, <2>1, CoversOrder
<1>4. hd \in DOMAIN nd /\ Covers(hd, t) BY <1>2 DEF Links, Closed
<1>5. Links(nw, hd, {})
  <2>1. ASSUME NEW n \in DOMAIN nw, NEW b \in {"l", "r"}, nw[n][b] # NULL
        PROVE  nw[n][b] \in DOMAIN nw /\ Below(n, b, nw[n][b]) /\ nw[nw[n][b]].parent = n
    <3>1. n \in DOMAIN nd BY <2>1
    <3>2. CASE n = t /\ b = Way(t, x)
      <4>1. nw[n][b] = x BY <3>1, <3>2
      <4> QED BY <1>3, <3>2, <4>1 DEF Below
    <3>3. CASE ~(n = t /\ b = Way(t, x))
      <4>1. nw[n][b] = nd[n][b] BY <3>1, <3>3
      <4>2. nd[n][b] \in DOMAIN nd /\ Below(n, b, nd[n][b]) /\ nd[nd[n][b]].parent = n
        BY <1>2, <2>1, <3>1, <4>1 DEF Links
      <4> QED BY <4>1, <4>2
    <3> QED BY <3>2, <3>3
  <2> QED BY <1>4, <2>1 DEF Links
<1>6. Closed(nw, hd)
  <2>1. hd # NULL /\ \A m \in DOMAIN nw : Covers(hd, m)
    <3>1. hd \in Bits /\ hd # NULL BY <1>4, PrefixAssumption
    <3>2. Covers(hd, x) BY <1>1, <1>4, <3>1, CoversOrder
    <3> QED BY <1>2, <3>1, <3>2 DEF Closed
  <2>2. ASSUME NEW n \in DOMAIN nw, NEW m \in DOMAIN nw, Covers(n, m), n # m
        PROVE  nw[n][Way(n, m)] # NULL /\ Covers(nw[n][Way(n, m)], m)
    <3>0. Way(n, m) \in {"l", "r"} /\ n \in Bits /\ m \in Bits BY WayType
    <3>1. CASE n # x /\ m # x
      <4>1. nd[n][Way(n, m)] # NULL /\ Covers(nd[n][Way(n, m)], m) BY <1>2, <2>2, <3>1 DEF Closed
      <4>2. ~(n = t /\ Way(n, m) = Way(t, x)) BY <4>1
      <4> QED BY <3>0, <3>1, <4>1, <4>2
    <3>2. CASE n = x
      <4>1. m \in DOMAIN nd /\ m # t
        <5>1. m \in DOMAIN nd BY <2>2, <3>2
        <5>2. m # t BY <1>3, <2>2, <3>0, <3>2, CoversOrder
        <5> QED BY <5>1, <5>2
      <4>2. Covers(t, m) BY <1>1, <2>2, <3>0, <3>2, CoversOrder
      <4>3. Way(t, m) = Way(t, x) BY <1>1, <1>3, <2>2, <3>0, <3>2, WayFact
      <4>4. nd[t][Way(t, m)] # NULL BY <1>2, <4>1, <4>2 DEF Closed
      <4> QED BY <4>3, <4>4
    <3>3. CASE m = x /\ n # x
      <4>1. n \in DOMAIN nd BY <3>3
      <4>2. Len(n) \in Nat BY <3>0, BitsFact
      <4>3. CASE n = t
        <5>1. nw[n][Way(n, m)] = x BY <3>0, <3>3, <4>3
        <5> QED BY <1>1, <3>3, <5>1, CoversOrder
      <4>4. CASE n # t /\ Len(n) <= Len(t)
        <5>1. Covers(n, t) BY <1>1, <2>2, <3>0, <3>3, <4>4, CoversOrder
        <5>2. Len(n) < Len(t) BY <1>1, <1>3, <3>0, <4>2, <4>4, <5>1, CoversOrder
        <5>3. Way(n, t) = Way(n, x) BY <1>1, <3>0, <5>2, WayFact
        <5> DEFINE c == nd[n][Way(n, x)]
        <5>4. c # NULL /\ Covers(c, t) BY <1>2, <4>1, <4>4, <5>1, <5>3 DEF Closed
        <5>5. c \in Bits BY <1>2, <3>0, <3>3, <4>1, <5>4, TreeOrder
        <5>6. nw[n][Way(n, m)] = c BY <3>0, <3>3, <4>1, <4>4
        <5> HIDE DEF c
        <5>7. Covers(c, x) BY <1>1, <5>4, <5>5, CoversOrder
        <5> QED BY <3>3, <5>4, <5>6, <5>7
      <4>5. CASE Len(t) < Len(n)
        <5>1. Covers(t, n) /\ t # n BY <1>1, <1>3, <2>2, <3>0, <3>3, <4>2, <4>5, CoversOrder
        <5>2. Way(t, n) = Way(t, x) BY <1>1, <2>2, <3>0, <3>3, <4>5, WayFact
        <5>3. nd[t][Way(t, n)] # NULL BY <1>2, <4>1, <5>1 DEF Closed
        <5> QED BY <5>2, <5>3
      <4> QED BY <1>3, <4>2, <4>3, <4>4, <4>5
    <3> QED BY <3>1, <3>2, <3>3
  <2> QED BY <2>1, <2>2 DEF Closed
<1>7. Parents(nw, hd, {})
  <2>1. ASSUME NEW n \in DOMAIN nw PROVE Hangs(nw, hd, nw[n].parent, n)
    <3>1. CASE n = x
      <4>1. nw[t][Way(t, x)] = x /\ hd # x BY <1>4, WayType
      <4> QED BY <1>1, <3>1, <4>1 DEF Hangs
    <3>2. CASE n # x
      <4> DEFINE u == nd[n].parent
      <4>1. n \in DOMAIN nd /\ nw[n].parent = u BY <3>2
      <4>2. Hangs(nd, hd, u, n) BY <1>2, <4>1 DEF Parents
      <4> HIDE DEF u
      <4>3. CASE u = NULL BY <4>1, <4>2, <4>3 DEF Hangs
      <4>4. CASE u # NULL
        <5>1. u \in DOMAIN nd /\ hd # n /\ nd[u][Way(u, n)] = n BY <4>2, <4>4 DEF Hangs
        <5>2. n # NULL BY <4>1, PrefixAssumption
        <5>3. nw[u][Way(u, n)] = n BY <5>1, <5>2, WayType
        <5> QED BY <4>1, <4>4, <5>1, <5>3 DEF Hangs
      <4> QED BY <4>3, <4>4
    <3> QED BY <3>1, <3>2
  <2> QED BY <2>1 DEF Parents
<1> QED BY <1>5, <1>6, <1>7 DEF Tree

\* A new node x between t and its parent u.
LEMMA ParentTree ==
    ASSUME NEW nd, NEW hd, DOMAIN nd \subseteq Bits, Tree(nd, hd, {}, {}),
           NEW t \in DOMAIN nd, NEW x \in Bits, x \notin DOMAIN nd, Covers(x, t),
           NEW u, nd[t].parent = u, u = NULL \/ Len(u) < Len(x),
           NEW nw, DOMAIN nw = DOMAIN nd \cup {x},
           \A n \in DOMAIN nd : nw[n].parent = IF n = t THEN x ELSE nd[n].parent,
           \A n \in DOMAIN nd, b \in {"l", "r"} :
               nw[n][b] = IF n = u /\ b = Way(u, t) THEN x ELSE nd[n][b],
           nw[x].parent = u,
           \A b \in {"l", "r"} : nw[x][b] = IF b = Way(x, t) THEN t ELSE NULL,
           NEW h, h = IF u = NULL THEN x ELSE hd
    PROVE  Tree(nw, h, {}, {})
<1>1. x # NULL /\ t # NULL /\ t \in Bits /\ t # x BY PrefixAssumption
<1>2. Links(nd, hd, {}) /\ Closed(nd, hd) /\ Parents(nd, hd, {}) BY DEF Tree
<1>3. Len(x) < Len(t) /\ Len(t) \in Nat /\ Len(x) \in Nat
  <2>1. Len(t) \in Nat /\ Len(x) \in Nat BY <1>1, BitsFact
  <2> QED BY <1>1, <2>1, CoversOrder
<1>4. hd \in DOMAIN nd /\ Covers(hd, t) BY <1>2 DEF Links, Closed
<1>5. Hangs(nd, hd, u, t) BY <1>2 DEF Parents
<1>6. u = NULL => hd = t BY <1>5 DEF Hangs
<1>7. ASSUME u # NULL
      PROVE  /\ u \in DOMAIN nd /\ u \in Bits /\ hd # t /\ nd[u][Way(u, t)] = t
             /\ Len(u) \in Nat /\ Len(u) < Len(x)
             /\ Covers(u, t) /\ Covers(u, x) /\ Way(u, x) = Way(u, t)
  <2>1. u \in DOMAIN nd /\ u \in Bits /\ hd # t /\ nd[u][Way(u, t)] = t BY <1>5, <1>7 DEF Hangs
  <2>2. Len(u) \in Nat /\ Len(u) < Len(x) BY <1>7, <2>1, BitsFact
  <2>3. Covers(u, t) BY <1>1, <1>2, <2>1, TreeOrder, WayType
  <2>4. Covers(u, x) BY <1>1, <1>3, <2>1, <2>2, <2>3, CoversOrder
  <2>5. Way(u, x) = Way(u, t) BY <1>1, <2>1, <2>2, WayFact
  <2> QED BY <2>1, <2>2, <2>3, <2>4, <2>5
<1>8. ASSUME NEW m \in DOMAIN nd, Covers(x, m)
      PROVE  Covers(t, m) /\ Way(x, m) = Way(x, t)
  <2>0. m \in Bits OBVIOUS
  <2>1. Covers(t, m)
    <3>1. CASE u = NULL BY <1>2, <1>6, <3>1 DEF Closed
    <3>2. CASE u # NULL
      <4>1. Covers(u, m) /\ u # m
        BY <1>3, <1>7, <1>8, <2>0, <3>2, CoversOrder
      <4>2. Way(u, m) = Way(u, t) BY <1>7, <1>8, <2>0, <3>2, WayFact
      <4>3. Covers(nd[u][Way(u, m)], m) BY <1>2, <1>7, <3>2, <4>1 DEF Closed
      <4> QED BY <1>7, <3>2, <4>2, <4>3
    <3> QED BY <3>1, <3>2
  <2>2. Way(x, t) = Way(x, m) BY <1>1, <1>3, <2>0, <2>1, WayFact
  <2> QED BY <2>1, <2>2
<1>9. ASSUME NEW n \in DOMAIN nd, Covers(n, x)
      PROVE  /\ u # NULL /\ nd[n][Way(n, x)] # NULL
             /\ n # u => Covers(nd[n][Way(n, x)], x)
  <2> DEFINE c == nd[n][Way(n, x)]
  <2>0. n \in Bits /\ Len(n) \in Nat /\ Len(n) <= Len(x) /\ n # x BY <1>9, BitsFact, CoversOrder
  <2>1. Covers(n, t) /\ n # t /\ Len(n) < Len(x)
    <3>1. Covers(n, t) BY <1>1, <1>9, <2>0, CoversOrder
    <3>2. Len(n) # Len(x) BY <1>3, <1>9, <2>0, CoversOrder
    <3> QED BY <1>3, <2>0, <3>1, <3>2
  <2>2. Way(n, x) = Way(n, t) BY <1>1, <2>0, <2>1, WayFact
  <2>3. c # NULL /\ Covers(c, t) BY <1>2, <2>1, <2>2 DEF Closed
  <2>4. /\ c \in DOMAIN nd /\ c \in Bits /\ Covers(n, c) /\ Way(n, c) = Way(n, x)
        /\ nd[c].parent = n
    BY <1>2, <2>3, WayType DEF Links, Below
  <2> HIDE DEF c
  <2>5. u # NULL
    <3> SUFFICES ASSUME u = NULL PROVE FALSE OBVIOUS
    <3>1. Covers(t, n) BY <1>2, <1>6 DEF Closed
    <3> QED BY <1>1, <1>3, <2>0, <2>1, <3>1, CoversOrder
  <2>6. ASSUME n # u PROVE Covers(c, x)
    <3>1. c # t BY <2>4, <2>6
    <3>2. Len(c) \in Nat BY <2>4, BitsFact
    <3>3. CASE Len(c) <= Len(u)
      <4>1. Covers(c, u) BY <1>1, <1>7, <2>3, <2>4, <2>5, <3>3, CoversOrder
      <4> QED BY <1>7, <2>4, <2>5, <4>1, CoversOrder
    <3>4. CASE Len(u) < Len(c)
      <4>1. Covers(u, c) /\ u # c BY <1>1, <1>7, <2>3, <2>4, <2>5, <3>2, <3>4, CoversOrder
      <4>2. Way(u, c) = Way(u, t) BY <1>1, <1>7, <2>3, <2>4, <2>5, <3>4, WayFact
      <4>3. Covers(t, c) BY <1>2, <1>7, <2>4, <2>5, <4>1, <4>2 DEF Closed
      <4>4. Len(t) <= Len(c) BY <1>1, <2>4, <4>3, CoversOrder
      <4> QED BY <1>1, <2>3, <2>4, <3>1, <4>4, CoversOrder
    <3> QED BY <1>7, <2>5, <3>2, <3>3, <3>4
  <2> QED BY <2>3, <2>5, <2>6 DEF c
<1>10. Links(nw, h, {})
  <2>1. ASSUME NEW n \in DOMAIN nw, NEW b \in {"l", "r"}, nw[n][b] # NULL
        PROVE  nw[n][b] \in DOMAIN nw /\ Below(n, b, nw[n][b]) /\ nw[nw[n][b]].parent = n
    <3>1. CASE n = x
      <4>1. b = Way(x, t) /\ nw[n][b] = t BY <2>1, <3>1
      <4> QED BY <1>3, <3>1, <4>1 DEF Below
    <3>2. CASE n # x /\ n = u /\ b = Way(u, t)
      <4>1. nw[n][b] = x /\ u # NULL BY <3>2, PrefixAssumption
      <4>2. b = Way(u, x) /\ Len(u) < Len(x) /\ Covers(u, x) BY <1>7, <3>2, <4>1
      <4> QED BY <3>2, <4>1, <4>2 DEF Below
    <3>3. CASE n # x /\ ~(n = u /\ b = Way(u, t))
      <4> DEFINE c == nd[n][b]
      <4>1. n \in DOMAIN nd /\ nw[n][b] = c BY <3>3
      <4>2. c \in DOMAIN nd /\ Below(n, b, c) /\ nd[c].parent = n BY <1>2, <2>1, <4>1 DEF Links
      <4>3. c # t BY <3>3, <4>2 DEF Below
      <4> HIDE DEF c
      <4>4. nw[c].parent = n BY <4>2, <4>3
      <4> QED BY <4>1, <4>2, <4>4
    <3> QED BY <3>1, <3>2, <3>3
  <2>2. h \in DOMAIN nw BY <1>4
  <2> QED BY <2>1, <2>2 DEF Links
<1>11. Closed(nw, h)
  <2>1. h # NULL /\ \A m \in DOMAIN nw : Covers(h, m)
    <3>1. CASE u = NULL
      <4>1. ASSUME NEW m \in DOMAIN nd PROVE Covers(x, m)
        <5>1. Covers(t, m) /\ m \in Bits BY <1>2, <1>6, <3>1 DEF Closed
        <5> QED BY <1>1, <5>1, CoversOrder
      <4>2. Covers(x, x) BY CoversOrder
      <4> QED BY <1>1, <3>1, <4>1, <4>2
    <3>2. CASE u # NULL
      <4>1. hd \in Bits /\ hd # NULL /\ Covers(hd, u) BY <1>2, <1>4, <1>7, <3>2, PrefixAssumption DEF Closed
      <4>2. Covers(hd, x) BY <1>7, <3>2, <4>1, CoversOrder
      <4> QED BY <1>2, <3>2, <4>1, <4>2 DEF Closed
    <3> QED BY <3>1, <3>2
  <2>2. ASSUME NEW n \in DOMAIN nw, NEW m \in DOMAIN nw, Covers(n, m), n # m
        PROVE  nw[n][Way(n, m)] # NULL /\ Covers(nw[n][Way(n, m)], m)
    <3>0. Way(n, m) \in {"l", "r"} /\ n \in Bits /\ m \in Bits BY WayType
    <3>1. CASE n # x /\ m # x
      <4>1. nd[n][Way(n, m)] # NULL /\ Covers(nd[n][Way(n, m)], m) BY <1>2, <2>2, <3>1 DEF Closed
      <4>2. CASE n = u /\ Way(n, m) = Way(u, t)
        <5>1. u # NULL BY <3>0, <4>2, PrefixAssumption
        <5>2. Covers(t, m) BY <1>7, <4>1, <4>2, <5>1
        <5>3. Covers(x, m) BY <1>1, <3>0, <5>2, CoversOrder
        <5>4. nw[n][Way(n, m)] = x BY <3>0, <3>1, <4>2
        <5> QED BY <1>1, <5>3, <5>4
      <4>3. CASE ~(n = u /\ Way(n, m) = Way(u, t)) BY <3>0, <3>1, <4>1, <4>3
      <4> QED BY <4>2, <4>3
    <3>2. CASE n = x
      <4>1. m \in DOMAIN nd BY <2>2, <3>2
      <4>2. Covers(t, m) /\ Way(x, m) = Way(x, t) BY <1>8, <2>2, <3>2, <4>1
      <4>3. nw[n][Way(n, m)] = t BY <3>0, <3>2, <4>2
      <4> QED BY <1>1, <4>2, <4>3
    <3>3. CASE m = x /\ n # x
      <4>1. n \in DOMAIN nd BY <3>3
      <4>2. u # NULL /\ nd[n][Way(n, x)] # NULL /\ (n # u => Covers(nd[n][Way(n, x)], x))
        BY <1>9, <2>2, <3>3, <4>1
      <4>3. CASE n = u
        <5>1. nw[n][Way(n, m)] = x BY <1>7, <3>0, <3>3, <4>1, <4>2, <4>3
        <5> QED BY <1>1, <3>3, <5>1, CoversOrder
      <4>4. CASE n # u
        <5>1. nw[n][Way(n, m)] = nd[n][Way(n, x)] BY <3>0, <3>3, <4>1, <4>4
        <5> QED BY <3>3, <4>2, <4>4, <5>1
      <4> QED BY <4>3, <4>4
    <3> QED BY <3>1, <3>2, <3>3
  <2> QED BY <2>1, <2>2 DEF Closed
<1>12. Parents(nw, h, {})
  <2>1. ASSUME NEW n \in DOMAIN nw PROVE Hangs(nw, h, nw[n].parent, n)
    <3>1. CASE n = x
      <4>1. nw[n].parent = u BY <3>1
      <4>2. CASE u = NULL BY <3>1, <4>1, <4>2 DEF Hangs
      <4>3. CASE u # NULL
        <5>1. nw[u][Way(u, x)] = x /\ u \in DOMAIN nw /\ h # x BY <1>4, <1>7, <4>3, WayType
        <5> QED BY <3>1, <4>1, <4>3, <5>1 DEF Hangs
      <4> QED BY <4>2, <4>3
    <3>2. CASE n = t
      <4>1. nw[n].parent = x /\ nw[x][Way(x, t)] = t BY <3>2, WayType
      <4>2. h # t BY <1>1, <1>7
      <4> QED BY <1>1, <3>2, <4>1, <4>2 DEF Hangs
    <3>3. CASE n # x /\ n # t
      <4> DEFINE v == nd[n].parent
      <4>1. n \in DOMAIN nd /\ nw[n].parent = v BY <3>3
      <4>2. Hangs(nd, hd, v, n) BY <1>2, <4>1 DEF Parents
      <4> HIDE DEF v
      <4>3. CASE v = NULL
        <5>1. hd = n BY <4>2, <4>3 DEF Hangs
        <5>2. u # NULL BY <1>6, <3>3, <5>1
        <5> QED BY <4>1, <4>3, <5>1, <5>2 DEF Hangs
      <4>4. CASE v # NULL
        <5>1. v \in DOMAIN nd /\ hd # n /\ nd[v][Way(v, n)] = n BY <4>2, <4>4 DEF Hangs
        <5>2. ~(v = u /\ Way(v, n) = Way(u, t)) BY <1>7, <3>3, <4>4, <5>1
        <5>3. nw[v][Way(v, n)] = n BY <5>1, <5>2, WayType
        <5>4. h # n BY <3>3, <5>1
        <5> QED BY <4>1, <4>4, <5>1, <5>3, <5>4 DEF Hangs
      <4> QED BY <4>3, <4>4
    <3> QED BY <3>1, <3>2, <3>3
  <2> QED BY <2>1 DEF Parents
<1> QED BY <1>10, <1>11, <1>12 DEF Tree

\* A node x without children, or with the child c alone, is freed; c gets its
\* parent.  What x was linked from still leads to it.
CanFree(nd, hd, x, u, c, nw) ==
    /\ DOMAIN nd \subseteq Bits /\ Tree(nd, hd, {}, {})
    /\ x \in DOMAIN nd /\ nd[x].parent = u
    /\ c = NULL \/ c \in DOMAIN nd
    /\ \A b \in {"l", "r"} : nd[x][b] \in {NULL, c}
    /\ c # NULL => \E b \in {"l", "r"} : nd[x][b] = c
    /\ DOMAIN nw = DOMAIN nd \ {x}
    /\ \A n \in DOMAIN nw : nw[n].parent = IF n = c THEN u ELSE nd[n].parent
    /\ \A n \in DOMAIN nw, b \in {"l", "r"} : nw[n][b] = nd[n][b]

Freed(nw, hd, x, u, c) ==
    /\ Tree(nw, hd, {x}, {c})
    /\ Hangs(nw, hd, u, x)
    /\ \A n \in DOMAIN nw, b \in {"l", "r"} : nw[n][b] = x => n = u
    /\ \A m \in DOMAIN nw : Covers(x, m) => c # NULL /\ Covers(c, m)
    /\ c # NULL => Covers(x, c) /\ c # x

\* What is left is a tree, but for the one link that leads to the freed node.
LEMMA FreeTree ==
    ASSUME NEW nd, NEW hd, NEW x, NEW u, NEW c, NEW nw, CanFree(nd, hd, x, u, c, nw)
    PROVE  Freed(nw, hd, x, u, c)
<1> USE DEF CanFree
<1>1. x \in Bits /\ x # NULL /\ c # x
  <2>1. x \in Bits /\ x # NULL BY PrefixAssumption
  <2>2. ASSUME NEW b \in {"l", "r"}, nd[x][b] = x PROVE FALSE
    BY <2>1, <2>2, TreeOrder DEF Tree
  <2> QED BY <2>1, <2>2
<1>2. Links(nd, hd, {}) /\ Closed(nd, hd) /\ Parents(nd, hd, {}) BY DEF Tree
<1>3. Hangs(nd, hd, u, x) BY <1>2 DEF Parents
<1>4. u # NULL => u \in DOMAIN nd /\ u # x
  <2> SUFFICES ASSUME u # NULL PROVE u \in DOMAIN nd /\ u # x OBVIOUS
  <2>1. u \in DOMAIN nd /\ nd[u][Way(u, x)] = x BY <1>3 DEF Hangs
  <2>2. u # x BY <1>1, <1>2, <2>1, TreeOrder, WayType
  <2> QED BY <2>1, <2>2
<1>5. c # NULL => Covers(x, c) /\ nd[c].parent = x
  BY <1>2, TreeOrder DEF Links
<1>6. ASSUME NEW m \in DOMAIN nw, Covers(x, m) PROVE c # NULL /\ Covers(c, m)
  <2>1. nd[x][Way(x, m)] # NULL /\ Covers(nd[x][Way(x, m)], m) BY <1>2, <1>6 DEF Closed
  <2> QED BY <2>1, WayType
<1>7. ASSUME NEW n \in DOMAIN nw, NEW b \in {"l", "r"}, nw[n][b] # NULL
      PROVE  /\ nw[n][b] \in DOMAIN nw \cup {x} /\ Below(n, b, nw[n][b])
             /\ nw[n][b] = x => n = u
             /\ nw[n][b] # x => nw[nw[n][b]].parent = n
  <2> DEFINE d == nd[n][b]
  <2>1. nw[n][b] = d /\ n \in DOMAIN nd /\ n # x OBVIOUS
  <2>2. d \in DOMAIN nd /\ Below(n, b, d) /\ nd[d].parent = n BY <1>2, <1>7, <2>1 DEF Links
  <2> HIDE DEF d
  <2>3. d # c
    <3> SUFFICES ASSUME d = c PROVE FALSE OBVIOUS
    <3>1. c # NULL BY <2>2, PrefixAssumption
    <3> QED BY <1>5, <2>1, <2>2, <3>1
  <2>4. d # x => d \in DOMAIN nw /\ nw[d].parent = n BY <2>2, <2>3
  <2> QED BY <2>1, <2>2, <2>4
<1>8. Links(nw, hd, {x})
  <2>1. hd \in DOMAIN nw \cup {x} \cup {NULL} BY <1>2 DEF Links
  <2> QED BY <1>7, <2>1 DEF Links
<1>9. Closed(nw, hd)
  <2>1. \A m \in DOMAIN nw : hd # NULL /\ Covers(hd, m) BY <1>2 DEF Closed
  <2>2. ASSUME NEW n \in DOMAIN nw, NEW m \in DOMAIN nw, Covers(n, m), n # m
        PROVE  nw[n][Way(n, m)] # NULL /\ Covers(nw[n][Way(n, m)], m)
    <3>1. nd[n][Way(n, m)] # NULL /\ Covers(nd[n][Way(n, m)], m) BY <1>2, <2>2 DEF Closed
    <3> QED BY <3>1, WayType
  <2> QED BY <2>1, <2>2 DEF Closed
<1>10. Parents(nw, hd, {c})
  <2>1. ASSUME NEW n \in DOMAIN nw \ {c} PROVE Hangs(nw, hd, nw[n].parent, n)
    <3> DEFINE v == nd[n].parent
    <3>1. nw[n].parent = v /\ n \in DOMAIN nd /\ n # x /\ n # NULL BY PrefixAssumption
    <3>2. Hangs(nd, hd, v, n) BY <1>2, <3>1 DEF Parents
    <3> HIDE DEF v
    <3>3. CASE v = NULL BY <3>1, <3>2, <3>3 DEF Hangs
    <3>4. CASE v # NULL
      <4>1. v \in DOMAIN nd /\ hd # n /\ nd[v][Way(v, n)] = n BY <3>2, <3>4 DEF Hangs
      <4>2. v # x BY <3>1, <4>1, WayType
      <4>3. nw[v][Way(v, n)] = n /\ v \in DOMAIN nw BY <4>1, <4>2, WayType
      <4> QED BY <3>1, <3>4, <4>1, <4>3 DEF Hangs
    <3> QED BY <3>3, <3>4
  <2> QED BY <2>1 DEF Parents
<1>11. Hangs(nw, hd, u, x)
  <2>1. CASE u = NULL BY <1>3, <2>1 DEF Hangs
  <2>2. CASE u # NULL
    <3>1. u \in DOMAIN nw /\ hd # x /\ nd[u][Way(u, x)] = x BY <1>3, <1>4, <2>2 DEF Hangs
    <3>2. nw[u][Way(u, x)] = x BY <3>1, WayType
    <3> QED BY <2>2, <3>1, <3>2 DEF Hangs
  <2> QED BY <2>1, <2>2
<1>12. \A n \in DOMAIN nw, b \in {"l", "r"} : nw[n][b] = x => n = u BY <1>1, <1>7
<1> QED BY <1>1, <1>5, <1>6, <1>8, <1>9, <1>10, <1>11, <1>12 DEF Tree, Freed

\* The link to a freed node x leads to its only child c, or nowhere.
CanBypass(nd, hd, x, u, c, nw, h) ==
    /\ DOMAIN nd \subseteq Bits
    /\ x \in Bits /\ x \notin DOMAIN nd
    /\ c = NULL \/ (c \in DOMAIN nd /\ Covers(x, c))
    /\ Tree(nd, hd, {x}, {c})
    /\ Hangs(nd, hd, u, x) /\ (c # NULL => nd[c].parent = u)
    /\ \A n \in DOMAIN nd, b \in {"l", "r"} : nd[n][b] = x => n = u
    /\ \A m \in DOMAIN nd : Covers(x, m) => c # NULL /\ Covers(c, m)
    /\ DOMAIN nw = DOMAIN nd
    /\ \A n \in DOMAIN nd : nw[n].parent = nd[n].parent
    /\ \A n \in DOMAIN nd, b \in {"l", "r"} :
          nw[n][b] = IF n = u /\ b = Way(u, x) THEN c ELSE nd[n][b]
    /\ h = IF u = NULL THEN c ELSE hd

\* Then it is a tree again.
LEMMA BypassTree ==
    ASSUME NEW nd, NEW hd, NEW x, NEW u, NEW c, NEW nw, NEW h, CanBypass(nd, hd, x, u, c, nw, h)
    PROVE  Tree(nw, h, {}, {})
<1> USE DEF CanBypass
<1>1. x # NULL /\ (c # NULL => c \in Bits /\ c # x) BY PrefixAssumption
<1>2. Links(nd, hd, {x}) /\ Closed(nd, hd) /\ Parents(nd, hd, {c}) BY DEF Tree
<1>3. u = NULL => hd = x BY DEF Hangs
<1>4. ASSUME u # NULL
      PROVE  /\ u \in DOMAIN nd /\ u \in Bits /\ hd # x /\ nd[u][Way(u, x)] = x
             /\ Covers(u, x) /\ Len(u) < Len(x) /\ Len(u) \in Nat /\ Len(x) \in Nat
  <2>1. u \in DOMAIN nd /\ u \in Bits /\ hd # x /\ nd[u][Way(u, x)] = x BY <1>4 DEF Hangs
  <2> QED BY <1>1, <1>2, <2>1, TreeOrder, WayType
<1>5. ASSUME u # NULL, c # NULL
      PROVE  Covers(u, c) /\ Len(u) < Len(c) /\ Way(u, c) = Way(u, x) /\ hd # c
  <2>1. Covers(u, c) BY <1>1, <1>4, <1>5, CoversOrder
  <2>2. Way(u, c) = Way(u, x) BY <1>1, <1>4, <1>5, WayFact
  <2>3. Len(x) <= Len(c) /\ Len(c) \in Nat BY <1>1, <1>5, CoversOrder, BitsFact
  <2>4. Len(u) < Len(c) BY <1>4, <1>5, <2>3
  <2>5. hd # c
    <3> SUFFICES ASSUME hd = c PROVE FALSE OBVIOUS
    <3>1. Covers(c, u) BY <1>2, <1>4, <1>5 DEF Closed
    <3>2. Len(c) <= Len(u) BY <1>1, <1>4, <1>5, <3>1, CoversOrder
    <3> QED BY <1>4, <1>5, <2>3, <2>4, <3>2
  <2> QED BY <2>1, <2>2, <2>4, <2>5
<1>6. Links(nw, h, {})
  <2>1. ASSUME NEW n \in DOMAIN nw, NEW b \in {"l", "r"}, nw[n][b] # NULL
        PROVE  nw[n][b] \in DOMAIN nw /\ Below(n, b, nw[n][b]) /\ nw[nw[n][b]].parent = n
    <3>1. CASE n = u /\ b = Way(u, x)
      <4>1. nw[n][b] = c /\ c # NULL /\ u # NULL BY <2>1, <3>1, PrefixAssumption
      <4>2. nw[c].parent = u BY <4>1
      <4>3. Covers(u, c) /\ Len(u) < Len(c) /\ b = Way(u, c) BY <1>5, <3>1, <4>1
      <4> QED BY <3>1, <4>1, <4>2, <4>3 DEF Below
    <3>2. CASE ~(n = u /\ b = Way(u, x))
      <4> DEFINE d == nd[n][b]
      <4>1. nw[n][b] = d BY <3>2
      <4>2. d \in DOMAIN nd \cup {x} /\ Below(n, b, d) /\ (d \in DOMAIN nd => nd[d].parent = n)
        BY <1>2, <2>1, <4>1 DEF Links
      <4>3. d # x
        <5> SUFFICES ASSUME d = x PROVE FALSE OBVIOUS
        <5> QED BY <3>2, <4>2 DEF Below
      <4> HIDE DEF d
      <4> QED BY <4>1, <4>2, <4>3
    <3> QED BY <3>1, <3>2
  <2>2. h \in DOMAIN nw \cup {NULL} BY <1>2, <1>4 DEF Links
  <2> QED BY <2>1, <2>2 DEF Links
<1>7. Closed(nw, h)
  <2>1. ASSUME NEW m \in DOMAIN nw PROVE h # NULL /\ Covers(h, m)
    <3>1. hd # NULL /\ Covers(hd, m) BY <1>2 DEF Closed
    <3> QED BY <1>3, <3>1
  <2>2. ASSUME NEW n \in DOMAIN nw, NEW m \in DOMAIN nw, Covers(n, m), n # m
        PROVE  nw[n][Way(n, m)] # NULL /\ Covers(nw[n][Way(n, m)], m)
    <3>1. nd[n][Way(n, m)] # NULL /\ Covers(nd[n][Way(n, m)], m) BY <1>2, <2>2 DEF Closed
    <3>2. CASE n = u /\ Way(n, m) = Way(u, x)
      <4>1. u # NULL BY <3>2, PrefixAssumption
      <4>2. Covers(x, m) BY <1>4, <3>1, <3>2, <4>1
      <4> QED BY <3>2, <4>2, WayType
    <3>3. CASE ~(n = u /\ Way(n, m) = Way(u, x)) BY <3>1, <3>3, WayType
    <3> QED BY <3>2, <3>3
  <2> QED BY <2>1, <2>2 DEF Closed
<1>8. Parents(nw, h, {})
  <2>1. ASSUME NEW n \in DOMAIN nw PROVE Hangs(nw, h, nw[n].parent, n)
    <3>0. n # NULL /\ n # x BY PrefixAssumption
    <3>1. CASE n = c
      <4>1. nw[n].parent = u BY <3>0, <3>1
      <4>2. CASE u = NULL BY <3>1, <4>1, <4>2 DEF Hangs
      <4>3. CASE u # NULL
        <5>1. nw[u][Way(u, c)] = c /\ u \in DOMAIN nw /\ h # c BY <1>4, <1>5, <3>0, <3>1, <4>3, WayType
        <5> QED BY <3>1, <4>1, <4>3, <5>1 DEF Hangs
      <4> QED BY <4>2, <4>3
    <3>2. CASE n # c
      <4> DEFINE v == nd[n].parent
      <4>1. nw[n].parent = v OBVIOUS
      <4>2. Hangs(nd, hd, v, n) BY <1>2, <3>2 DEF Parents
      <4> HIDE DEF v
      <4>3. CASE v = NULL
        <5>1. hd = n BY <4>2, <4>3 DEF Hangs
        <5>2. u # NULL BY <1>3, <3>0, <5>1
        <5> QED BY <4>1, <4>3, <5>1, <5>2 DEF Hangs
      <4>4. CASE v # NULL
        <5>1. v \in DOMAIN nd /\ hd # n /\ nd[v][Way(v, n)] = n BY <4>2, <4>4 DEF Hangs
        <5>2. ~(v = u /\ Way(v, n) = Way(u, x)) BY <1>4, <3>0, <4>4, <5>1
        <5>3. nw[v][Way(v, n)] = n BY <5>1, <5>2, WayType
        <5>4. h # n BY <3>2, <5>1
        <5> QED BY <4>1, <4>4, <5>1, <5>3, <5>4 DEF Hangs
      <4> QED BY <4>3, <4>4
    <3> QED BY <3>1, <3>2
  <2> QED BY <2>1 DEF Parents
<1> QED BY <1>6, <1>7, <1>8 DEF Tree

(***************************************************************************)
(* The walks.  Between two calls of the writer:                            *)
(***************************************************************************)
Calm == TypeOK /\ NodeInv /\ Tree(node, head, {}, {}) /\ w.op = "idle"

\* What an operation finds that begins when the writer is idle.
LEMMA CalmFact ==
    ASSUME Calm
    PROVE  /\ DOMAIN node \subseteq Bits /\ NULL \notin DOMAIN node
           /\ Links(node, head, {}) /\ Closed(node, head) /\ Parents(node, head, {})
           /\ head # NULL => head \in DOMAIN node
           /\ \A n \in DOMAIN node :
                 /\ Len(n) \in Nat /\ Len(n) <= maxbits
                 /\ node[n].bit = Len(n) /\ node[n].prefix \in {NULL, n}
                 /\ node[n].prefix = NULL => node[n]["l"] # NULL /\ node[n]["r"] # NULL
<1>1. DOMAIN node \subseteq Bits /\ NULL \notin DOMAIN node BY PrefixAssumption DEF Calm, TypeOK
<1>2. Links(node, head, {}) /\ Closed(node, head) /\ Parents(node, head, {}) BY DEF Calm, Tree
<1>3. head # NULL => head \in DOMAIN node BY <1>2 DEF Links
<1>4. \A n \in DOMAIN node : Len(n) \in Nat /\ Len(n) <= maxbits BY <1>1, BitsFact
<1>5. \A n \in DOMAIN node :
         /\ node[n].bit = Len(n) /\ node[n].prefix \in {NULL, n}
         /\ node[n].prefix = NULL => node[n]["l"] # NULL /\ node[n]["r"] # NULL
  BY DEF Calm, NodeInv
<1> QED BY <1>1, <1>2, <1>3, <1>4, <1>5

\* The code takes the link on the way to p.
LEMMA SideFact ==
    ASSUME DOMAIN node \subseteq Bits, NEW n \in DOMAIN node, node[n].bit = Len(n), NEW p \in Bits
    PROVE  Side(n, p) = Way(n, p)
<1>1. Len(n) \in Nat /\ Len(n) <= maxbits /\ Len(p) \in Nat /\ Len(p) <= maxbits BY BitsFact
<1>2. ~(Len(n) < maxbits) => Bit(p, Len(n)) = 0 BY <1>1, PrefixAssumption DEF Bit
<1> QED BY <1>2 DEF Side, Way

\* The node at which patricia_lookup stops has a prefix, and all nodes above it
\* lead towards p.
LEMMA StopFact ==
    ASSUME Calm, head # NULL, NEW p \in Bits, NEW s, s = Stop(p)
    PROVE  /\ s \in DOMAIN node /\ node[s].prefix = s
           /\ \A a \in DOMAIN node : Covers(a, s) /\ a # s => Way(a, s) = Way(a, p)
           /\ Len(p) <= Len(s) \/ node[s][Way(s, p)] = NULL
<1> DEFINE S == DOMAIN node
           goes(n) == (node[n].bit < Len(p) \/ node[n].prefix = NULL) /\ node[n][Side(n, p)] # NULL
           next == [n \in S |-> IF goes(n) THEN node[n][Side(n, p)] ELSE n]
           rank == [n \in S |-> maxbits - Len(n)]
           I == {n \in S : \A a \in S : Covers(a, n) /\ a # n => Way(a, n) = Way(a, p)}
<1>0. Len(p) \in Nat /\ maxbits \in Nat BY BitsFact, PrefixAssumption
<1>1. ASSUME NEW n \in S
      PROVE  /\ n \in Bits /\ Len(n) \in Nat /\ Len(n) <= maxbits /\ node[n].bit = Len(n)
             /\ Side(n, p) = Way(n, p) /\ Way(n, p) \in {"l", "r"}
  BY CalmFact, SideFact, WayType
<1>2. ASSUME NEW n \in S, goes(n)
      PROVE  /\ next[n] = node[n][Way(n, p)] /\ next[n] \in S /\ Covers(n, next[n])
             /\ Len(n) < Len(next[n]) /\ Way(n, next[n]) = Way(n, p) /\ next[n] # n
  <2> DEFINE c == node[n][Way(n, p)]
  <2>1. next[n] = c /\ c # NULL BY <1>1, <1>2
  <2>2. c \in S BY <1>1, <2>1, CalmFact DEF Links
  <2>3. Covers(n, c) /\ Len(n) < Len(c) /\ Way(n, p) = Way(n, c) /\ c # n
    BY <1>1, <2>1, CalmFact, TreeOrder
  <2> HIDE DEF c, next
  <2> QED BY <2>1, <2>2, <2>3 DEF c
<1>3. next \in [S -> S]
  <2>1. ASSUME NEW n \in S PROVE next[n] \in S
    <3>1. CASE goes(n) BY <1>2, <3>1
    <3>2. CASE ~goes(n) BY <3>2
    <3> QED BY <3>1, <3>2
  <2> QED BY <2>1
<1>4. rank \in [S -> 0 .. maxbits] BY <1>0, <1>1
<1>5. ASSUME NEW n \in S, next[n] # n PROVE rank[next[n]] < rank[n]
  <2>1. goes(n) BY <1>5
  <2>2. next[n] \in S /\ Len(n) < Len(next[n]) BY <1>2, <2>1
  <2> HIDE DEF next
  <2> QED BY <1>0, <1>1, <2>2
<1>6. ASSUME NEW n \in I PROVE next[n] \in I
  <2>1. CASE ~goes(n) BY <2>1
  <2>2. CASE goes(n)
    <3> DEFINE c == next[n]
    <3>1. /\ c \in S /\ c = node[n][Way(n, p)] /\ Covers(n, c) /\ Len(n) < Len(c)
          /\ Way(n, c) = Way(n, p)
      BY <1>2, <2>2
    <3> HIDE DEF c
    <3>2. ASSUME NEW a \in S, Covers(a, c), a # c PROVE Way(a, c) = Way(a, p)
      <4>0. a \in Bits /\ n \in Bits /\ c \in Bits /\ Len(a) \in Nat /\ Len(n) \in Nat BY <1>1, <3>1
      <4>1. CASE a = n BY <3>1, <4>1
      <4>2. CASE a # n /\ Len(a) <= Len(n)
        <5>1. Covers(a, n) BY <3>1, <3>2, <4>0, <4>2, CoversOrder
        <5>2. Len(a) < Len(n) BY <4>0, <4>2, <5>1, CoversOrder
        <5>3. Way(a, n) = Way(a, c) BY <3>1, <4>0, <5>2, WayFact
        <5>4. Way(a, n) = Way(a, p) BY <4>2, <5>1
        <5> QED BY <5>3, <5>4
      <4>3. CASE Len(n) < Len(a)
        <5>1. Covers(n, a) /\ n # a BY <3>1, <3>2, <4>0, <4>3, CoversOrder
        <5>2. Way(n, a) = Way(n, c) BY <3>2, <4>0, <4>3, WayFact
        <5>3. Covers(c, a) BY <3>1, <5>1, <5>2, CalmFact DEF Closed
        <5>4. Len(c) <= Len(a) BY <4>0, <5>3, CoversOrder
        <5> QED BY <3>2, <4>0, <5>4, CoversOrder
      <4> QED BY <4>0, <4>1, <4>2, <4>3
    <3>3. c \in I BY <3>1, <3>2
    <3> QED BY <3>3 DEF c
  <2> QED BY <2>1, <2>2
<1>7. head \in I
  <2>1. head \in S /\ head \in Bits BY <1>1, CalmFact
  <2>2. ASSUME NEW a \in S, Covers(a, head), a # head PROVE FALSE
    <3>1. Covers(head, a) /\ a \in Bits BY <1>1, CalmFact DEF Closed
    <3>2. Len(head) <= Len(a) BY <2>1, <3>1, CoversOrder
    <3> QED BY <2>1, <2>2, <3>1, <3>2, CoversOrder
  <2> QED BY <2>1, <2>2
<1>8. s = WalkEnd(next, head) BY DEF Stop
<1> HIDE DEF next, rank, I
<1>9. I \in SUBSET S BY DEF I
<1>10. s \in I /\ next[s] = s
  <2>1. \A n \in S : next[n] # n => rank[next[n]] < rank[n] BY <1>5
  <2>2. \A n \in I : next[n] \in I BY <1>6
  <2>3. WalkEnd(next, head) \in I /\ next[WalkEnd(next, head)] = WalkEnd(next, head)
    <3>1. maxbits \in Nat BY <1>0
    <3> HIDE DEF S
    <3> QED BY <3>1, <1>3, <1>4, <1>7, <1>9, <2>1, <2>2, WalkFact, ZenonT(90)
  <2> QED BY <1>8, <2>3
<1>11. s \in S /\ ~goes(s) BY <1>2, <1>9, <1>10
<1>12. node[s].prefix = s
  <2> SUFFICES ASSUME node[s].prefix = NULL PROVE FALSE BY <1>11, CalmFact
  <2>1. node[s]["l"] # NULL /\ node[s]["r"] # NULL BY <1>11, CalmFact
  <2> QED BY <1>1, <1>11, <2>1
<1>13. Len(p) <= Len(s) \/ node[s][Way(s, p)] = NULL BY <1>0, <1>1, <1>11
<1> QED BY <1>10, <1>11, <1>12, <1>13 DEF I

\* The climb ends at the highest node above s, or s, at or below bit d.
LEMMA ClimbFact ==
    ASSUME Calm, NEW s \in DOMAIN node, NEW d \in Nat, d <= Len(s), NEW t, t = ClimbFrom(s, d)
    PROVE  /\ t \in DOMAIN node /\ Covers(t, s) /\ d <= Len(t)
           /\ node[t].parent = NULL \/ Len(node[t].parent) < d
<1> DEFINE S == DOMAIN node
           goes(n) == node[n].parent # NULL /\ node[node[n].parent].bit >= d
           next == [n \in S |-> IF goes(n) THEN node[n].parent ELSE n]
           rank == [n \in S |-> Len(n)]
           I == {n \in S : Covers(n, s) /\ d <= Len(n)}
<1>0. maxbits \in Nat BY PrefixAssumption
<1>1. ASSUME NEW n \in S PROVE n \in Bits /\ Len(n) \in Nat /\ Len(n) <= maxbits /\ n # NULL
  BY CalmFact
<1>2. ASSUME NEW n \in S, node[n].parent # NULL
      PROVE  /\ node[n].parent \in S /\ node[node[n].parent].bit = Len(node[n].parent)
             /\ Covers(node[n].parent, n) /\ Len(node[n].parent) < Len(n)
  <2> DEFINE u == node[n].parent
  <2>1. u \in S /\ node[u][Way(u, n)] = n
    <3>1. Hangs(node, head, u, n) BY CalmFact DEF Parents
    <3> QED BY <1>2, <3>1 DEF Hangs
  <2> HIDE DEF u
  <2>2. node[u].bit = Len(u) BY <2>1, CalmFact
  <2>3. Covers(u, n) /\ Len(u) < Len(n) BY <1>1, <2>1, CalmFact, TreeOrder, WayType
  <2> QED BY <2>1, <2>2, <2>3 DEF u
<1>3. next \in [S -> S] BY <1>2
<1>4. rank \in [S -> 0 .. maxbits] BY <1>0, <1>1
<1>5. ASSUME NEW n \in S, next[n] # n PROVE rank[next[n]] < rank[n] BY <1>2, <1>5
<1>6. ASSUME NEW n \in I PROVE next[n] \in I
  <2>1. CASE ~goes(n) BY <2>1
  <2>2. CASE goes(n)
    <3> DEFINE u == node[n].parent
    <3>1. next[n] = u BY <2>2
    <3>2. u \in S /\ Covers(u, n) /\ d <= Len(u) BY <1>1, <1>2, <2>2
    <3> HIDE DEF u
    <3>3. Covers(u, s) BY <1>1, <3>2, CoversOrder
    <3> QED BY <3>1, <3>2, <3>3
  <2> QED BY <2>1, <2>2
<1>7. s \in I BY <1>1, CoversOrder
<1>8. t = WalkEnd(next, s) BY DEF ClimbFrom
<1> HIDE DEF next, rank, I
<1>9. I \in SUBSET S BY DEF I
<1>10. t \in I /\ next[t] = t
  <2>1. \A n \in S : next[n] # n => rank[next[n]] < rank[n] BY <1>5
  <2>2. \A n \in I : next[n] \in I BY <1>6
  <2>3. WalkEnd(next, s) \in I /\ next[WalkEnd(next, s)] = WalkEnd(next, s)
    <3> HIDE DEF S
    <3> QED BY <1>0, <1>3, <1>4, <1>7, <1>9, <2>1, <2>2, WalkFact, Zenon
  <2> QED BY <1>8, <2>3
<1>11. t \in S /\ Covers(t, s) /\ d <= Len(t) BY <1>10 DEF I
<1>12. ASSUME node[t].parent # NULL PROVE Len(node[t].parent) < d
  <2> DEFINE u == node[t].parent
  <2>1. u \in S /\ node[u].bit = Len(u) /\ Len(u) < Len(t) BY <1>2, <1>11, <1>12
  <2>2. ~goes(t)
    <3> SUFFICES ASSUME goes(t) PROVE FALSE OBVIOUS
    <3>1. u = t BY <1>10, <1>11 DEF next
    <3> QED BY <1>1, <1>11, <2>1, <3>1
  <2>3. Len(u) \in Nat BY <1>1, <2>1
  <2> QED BY <1>12, <2>1, <2>2, <2>3
<1> QED BY <1>11, <1>12

\* patricia_search_exact finds what is there.
LEMMA ExactFact ==
    ASSUME Calm, NEW p \in Bits
    PROVE  SearchExact(p) = IF p \in DOMAIN node /\ node[p].prefix # NULL THEN p ELSE NULL
<1> DEFINE S == DOMAIN node
           goes(n) == node[n].bit < Len(p) /\ node[n][Side(n, p)] # NULL
           next == [n \in S |-> IF goes(n) THEN node[n][Side(n, p)] ELSE n]
           rank == [n \in S |-> maxbits - Len(n)]
           I == {n \in S : p \in S => Covers(n, p)}
           e == ExactEnd(p)
<1>0. Len(p) \in Nat /\ maxbits \in Nat /\ p # NULL BY BitsFact, PrefixAssumption
<1>1. ASSUME NEW n \in S
      PROVE  /\ n \in Bits /\ Len(n) \in Nat /\ Len(n) <= maxbits /\ node[n].bit = Len(n)
             /\ Side(n, p) = Way(n, p) /\ Way(n, p) \in {"l", "r"}
             /\ node[n].prefix \in {NULL, n} /\ n # NULL
  BY CalmFact, SideFact, WayType
<1>2. CASE head = NULL
  <2>1. S = {} BY <1>2, CalmFact DEF Closed
  <2> QED BY <1>2, <2>1 DEF SearchExact
<1>3. CASE head # NULL
  <2>1. ASSUME NEW n \in S, goes(n)
        PROVE  next[n] = node[n][Way(n, p)] /\ next[n] \in S /\ Len(n) < Len(next[n])
    <3> DEFINE c == node[n][Way(n, p)]
    <3>1. next[n] = c /\ c # NULL BY <1>1, <2>1
    <3>2. c \in S BY <1>1, <3>1, CalmFact DEF Links
    <3>3. Len(n) < Len(c) BY <1>1, <3>1, CalmFact, TreeOrder
    <3> HIDE DEF c, next
    <3> QED BY <3>1, <3>2, <3>3 DEF c
  <2>2. next \in [S -> S]
    <3>1. ASSUME NEW n \in S PROVE next[n] \in S
      <4>1. CASE goes(n) BY <2>1, <4>1
      <4>2. CASE ~goes(n) BY <4>2
      <4> QED BY <4>1, <4>2
    <3> QED BY <3>1
  <2>3. rank \in [S -> 0 .. maxbits] BY <1>0, <1>1
  <2>4. ASSUME NEW n \in S, next[n] # n PROVE rank[next[n]] < rank[n]
    <3>1. goes(n) BY <2>4
    <3>2. next[n] \in S /\ Len(n) < Len(next[n]) BY <2>1, <3>1
    <3> HIDE DEF next
    <3> QED BY <1>0, <1>1, <3>2
  <2>5. ASSUME NEW n \in S, p \in S, Covers(n, p), n # p
        PROVE  node[n][Way(n, p)] # NULL /\ Covers(node[n][Way(n, p)], p)
    BY <2>5, CalmFact DEF Closed
  <2>6. ASSUME NEW n \in I PROVE next[n] \in I
    <3>1. CASE ~goes(n) BY <3>1
    <3>2. CASE goes(n)
      <4> DEFINE c == next[n]
      <4>1. c \in S /\ c = node[n][Way(n, p)] /\ Len(n) < Len(p) BY <1>1, <2>1, <3>2
      <4> HIDE DEF c
      <4>2. p \in S => Covers(c, p) BY <1>1, <2>5, <4>1
      <4>3. c \in I BY <4>1, <4>2
      <4> QED BY <4>3 DEF c
    <3> QED BY <3>1, <3>2
  <2>7. head \in I BY <1>3, CalmFact DEF Closed
  <2>8. e = WalkEnd(next, head) BY DEF ExactEnd
  <2> HIDE DEF next, rank, I, e
  <2>9. I \in SUBSET S BY DEF I
  <2>10. e \in I /\ next[e] = e
    <3>1. \A n \in S : next[n] # n => rank[next[n]] < rank[n] BY <2>4
    <3>2. \A n \in I : next[n] \in I BY <2>6
    <3>3. WalkEnd(next, head) \in I /\ next[WalkEnd(next, head)] = WalkEnd(next, head)
      <4>1. maxbits \in Nat BY <1>0
      <4> HIDE DEF S
      <4> QED BY <4>1, <2>2, <2>3, <2>7, <2>9, <3>1, <3>2, WalkFact, ZenonT(90)
    <3> QED BY <2>8, <3>3
  <2>11. e \in S BY <2>9, <2>10
  <2>12. ~goes(e)
    <3> SUFFICES ASSUME goes(e) PROVE FALSE OBVIOUS
    <3>1. Len(e) < Len(e) BY <2>1, <2>10, <2>11
    <3> QED BY <1>1, <2>11, <3>1
  <2>13. p \in S => e = p
    <3> SUFFICES ASSUME p \in S, e # p PROVE FALSE OBVIOUS
    <3>1. Covers(e, p) BY <2>10 DEF I
    <3>2. Len(e) < Len(p) BY <1>0, <1>1, <2>11, <3>1, CoversOrder
    <3>3. node[e][Way(e, p)] # NULL BY <2>5, <2>11, <3>1
    <3> QED BY <1>1, <2>11, <2>12, <3>2, <3>3
  <2>14. SearchExact(p) = IF node[e].bit = Len(p) /\ node[e].prefix = p THEN e ELSE NULL
    BY <1>3 DEF SearchExact, e
  <2>15. CASE p \in S BY <1>0, <1>1, <2>11, <2>13, <2>14, <2>15
  <2>16. CASE p \notin S
    <3>1. node[e].prefix # p BY <1>0, <1>1, <2>11, <2>16
    <3> QED BY <2>14, <2>16, <3>1
  <2> QED BY <2>15, <2>16
<1> QED BY <1>2, <1>3

(***************************************************************************)
(* Nodes.                                                                  *)
(***************************************************************************)
\* A node of which one link is changed.
LEMMA NodeSet ==
    ASSUME NEW r \in Node, NEW b \in {"l", "r"}, NEW c \in Link, NEW q, q = [r EXCEPT ![b] = c]
    PROVE  /\ q \in Node /\ q.bit = r.bit /\ q.prefix = r.prefix /\ q.parent = r.parent
           /\ q.data = r.data
           /\ \A x \in {"l", "r"} : q[x] = IF x = b THEN c ELSE r[x]
<1>1. CASE b = "l" BY <1>1 DEF Node
<1>2. CASE b = "r" BY <1>2 DEF Node
<1> QED BY <1>1, <1>2

\* A node whose parent is changed.
LEMMA NodeSetParent ==
    ASSUME NEW r \in Node, NEW c \in Link, NEW q, q = [r EXCEPT !.parent = c]
    PROVE  /\ q \in Node /\ q.bit = r.bit /\ q.prefix = r.prefix /\ q.parent = c
           /\ q.data = r.data
           /\ \A x \in {"l", "r"} : q[x] = r[x]
BY DEF Node

\* A new node.
LEMMA NewNodeFact ==
    ASSUME NEW n \in Bits, NEW q \in {NULL, n}, NEW u \in Link, NEW a \in Link, NEW c \in Link,
           NEW r, r = NewNode(n, q, u, a, c)
    PROVE  /\ r \in Node /\ r.bit = Len(n) /\ r.prefix = q /\ r.parent = u /\ r.data = NULL
           /\ r["l"] = a /\ r["r"] = c
<1>1. Len(n) \in 0 .. maxbits BY BitsFact, PrefixAssumption
<1> QED BY <1>1 DEF NewNode, Node, Link

\* Where p leaves the trie: s is the node patricia_lookup stops at, d the first
\* bit in which p differs from it, g the first d bits of p and t the first node
\* at or below that bit.
LEMMA LeaveFact ==
    ASSUME Calm, NEW p \in Bits, NEW s \in DOMAIN node,
           \A a \in DOMAIN node : Covers(a, s) /\ a # s => Way(a, s) = Way(a, p),
           Len(p) <= Len(s) \/ node[s][Way(s, p)] = NULL,
           NEW d \in Nat, d <= Len(p), d <= Len(s),
           NEW g \in Bits, Len(g) = d, Covers(g, p), Covers(g, s),
           d < Len(p) /\ d < Len(s) => Way(g, p) # Way(g, s),
           NEW t \in DOMAIN node, Covers(t, s), d <= Len(t),
           NEW u, node[t].parent = u, u = NULL \/ Len(u) < d
    PROVE  /\ u \in DOMAIN node \cup {NULL} /\ Hangs(node, head, u, t)
           /\ Covers(g, t)
           /\ d = Len(p) => g = p
           /\ Len(t) = d => t = g
           /\ Len(t) = d /\ d < Len(p) => node[t][Way(t, p)] = NULL /\ p \notin DOMAIN node
           /\ d < Len(t) => g \notin DOMAIN node /\ Way(g, s) = Way(g, t)
           /\ d < Len(t) /\ d < Len(p) => p \notin DOMAIN node /\ Way(g, p) # Way(g, t)
<1>2. s \in Bits /\ Len(s) \in Nat /\ Len(p) \in Nat BY CalmFact, BitsFact
<1>9. t \in Bits /\ Len(t) \in Nat /\ Len(t) <= Len(s) BY <1>2, CalmFact, CoversOrder
<1>10. Covers(g, t) BY <1>2, <1>9, CoversOrder
<1>11. Hangs(node, head, u, t) BY CalmFact DEF Parents
<1>12. u = NULL => head = t BY <1>11 DEF Hangs
<1>13. ASSUME u # NULL
       PROVE  /\ u \in DOMAIN node /\ u \in Bits /\ node[u][Way(u, t)] = t
              /\ Len(u) \in Nat /\ Len(u) < d /\ Covers(u, g) /\ Way(u, g) = Way(u, t)
  <2>1. u \in DOMAIN node /\ node[u][Way(u, t)] = t BY <1>11, <1>13 DEF Hangs
  <2>2. u \in Bits /\ Len(u) \in Nat BY <2>1, CalmFact
  <2>3. Len(u) < d BY <1>13
  <2>4. Covers(u, t) BY <2>1, CalmFact, TreeOrder, WayType
  <2>5. Covers(u, g) BY <1>9, <1>10, <2>2, <2>3, <2>4, CoversOrder
  <2>6. Way(u, g) = Way(u, t) BY <1>9, <1>10, <2>2, <2>3, WayFact
  <2> QED BY <2>1, <2>2, <2>3, <2>5, <2>6
<1>14. d = Len(p) => g = p BY <1>2, CoversOrder
<1>15. Len(t) = d => t = g BY <1>9, <1>10, CoversOrder
<1>16. ASSUME NEW m \in DOMAIN node, Covers(g, m), g # m PROVE Covers(t, m)
  <2>1. m \in Bits /\ Len(m) \in Nat BY CalmFact
  <2>2. CASE u = NULL BY <1>12, <2>2, CalmFact DEF Closed
  <2>3. CASE u # NULL
    <3>1. Covers(u, m) BY <1>13, <1>16, <2>1, <2>3, CoversOrder
    <3>2. Len(u) < Len(m) /\ u # m BY <1>13, <1>16, <2>1, <2>3, CoversOrder
    <3>3. Way(u, m) = Way(u, t) BY <1>13, <1>16, <2>1, <2>3, WayFact
    <3>4. Covers(node[u][Way(u, m)], m) BY <1>13, <2>3, <3>1, <3>2, CalmFact DEF Closed
    <3> QED BY <1>13, <2>3, <3>3, <3>4
  <2> QED BY <2>2, <2>3
<1>17. ASSUME Len(t) = d, d < Len(p)
       PROVE  node[t][Way(t, p)] = NULL /\ p \notin DOMAIN node
  <2>1. node[t][Way(t, p)] = NULL
    <3>1. CASE t = s BY <1>2, <1>17, <3>1
    <3>2. CASE t # s
      <4>1. Way(t, s) = Way(t, p) BY <3>2
      <4>2. Len(t) < Len(s) BY <1>2, <1>9, <3>2, CoversOrder
      <4>3. d < Len(p) /\ d < Len(s) BY <1>17, <4>2
      <4> QED BY <1>15, <1>17, <4>1, <4>3
    <3> QED BY <3>1, <3>2
  <2>2. p \notin DOMAIN node
    <3> SUFFICES ASSUME p \in DOMAIN node PROVE FALSE OBVIOUS
    <3>1. Covers(t, p) /\ t # p BY <1>15, <1>17
    <3> QED BY <2>1, <3>1, CalmFact DEF Closed
  <2> QED BY <2>1, <2>2
<1>18. ASSUME d < Len(t)
       PROVE  g \notin DOMAIN node /\ Way(g, s) = Way(g, t)
  <2>1. Way(g, s) = Way(g, t) BY <1>2, <1>9, <1>18, WayFact
  <2>2. g \notin DOMAIN node
    <3> SUFFICES ASSUME g \in DOMAIN node PROVE FALSE OBVIOUS
    <3>1. Covers(t, g)
      <4>1. CASE u = NULL BY <1>12, <4>1, CalmFact DEF Closed
      <4>2. CASE u # NULL
        <5>1. u # g BY <1>13, <4>2
        <5> QED BY <1>13, <4>2, <5>1, CalmFact DEF Closed
      <4> QED BY <4>1, <4>2
    <3>2. Len(t) <= Len(g) BY <1>9, <3>1, CoversOrder
    <3> QED BY <1>9, <1>18, <3>2
  <2> QED BY <2>1, <2>2
<1>19. ASSUME d < Len(t), d < Len(p)
       PROVE  p \notin DOMAIN node /\ Way(g, p) # Way(g, t)
  <2>1. d < Len(p) /\ d < Len(s) BY <1>2, <1>9, <1>19
  <2>2. Way(g, p) # Way(g, t) BY <1>18, <1>19, <2>1
  <2>3. p \notin DOMAIN node
    <3> SUFFICES ASSUME p \in DOMAIN node PROVE FALSE OBVIOUS
    <3>1. g # p BY <1>19
    <3>2. Covers(t, p) BY <1>16, <3>1
    <3>3. Way(g, t) = Way(g, p) BY <1>9, <1>19, <3>2, WayFact
    <3> QED BY <2>2, <3>3
  <2> QED BY <2>2, <2>3
<1>20. u \in DOMAIN node \cup {NULL} BY <1>13
<1> QED BY <1>10, <1>11, <1>14, <1>15, <1>17, <1>18, <1>19, <1>20

\* What patricia_lookup has found when it changes the trie: t is the first node
\* at or below the bit d from which p leaves the trie, g the first d bits of p.
Leaves(p, s, d, t, u, g) ==
    /\ s = Stop(p) /\ d = Differ(p) /\ t = Top(p) /\ u = node[t].parent /\ g = SubSeq(p, 1, d)
    /\ s \in DOMAIN node /\ node[s].prefix = s
    /\ t \in DOMAIN node /\ u \in DOMAIN node \cup {NULL} /\ Hangs(node, head, u, t)
    /\ g \in Bits /\ Len(g) = d /\ Covers(g, p) /\ Covers(g, t)
    /\ d \in Nat /\ d <= Len(p) /\ d <= Len(t)
    /\ u = NULL \/ Len(u) < d
    /\ d = Len(p) => g = p
    /\ Len(t) = d => t = g
    /\ Len(t) = d /\ d < Len(p) => node[t][Way(t, p)] = NULL /\ p \notin DOMAIN node
    /\ d < Len(t) => g \notin DOMAIN node /\ Way(g, s) = Way(g, t)
    /\ d < Len(t) /\ d < Len(p) => p \notin DOMAIN node /\ Way(g, p) # Way(g, t)

\* patricia_lookup finds such a place for every prefix.
LEMMA LookupFact ==
    ASSUME Calm, head # NULL, NEW p \in Bits
    PROVE  \E s, d, t, u, g : Leaves(p, s, d, t, u, g)
<1> DEFINE s == Stop(p)
           check == IF node[s].bit < Len(p) THEN node[s].bit ELSE Len(p)
<1>1. /\ s \in DOMAIN node /\ node[s].prefix = s
      /\ \A a \in DOMAIN node : Covers(a, s) /\ a # s => Way(a, s) = Way(a, p)
      /\ Len(p) <= Len(s) \/ node[s][Way(s, p)] = NULL
  BY StopFact
<1>2. s = Stop(p) OBVIOUS
<1> HIDE DEF s
<1>3. s \in Bits /\ Len(s) \in Nat /\ Len(p) \in Nat /\ node[s].bit = Len(s)
  BY <1>1, CalmFact, BitsFact
<1>4. check \in Nat /\ check <= Len(p) /\ check <= Len(s) /\ (check = Len(p) \/ check = Len(s))
  BY <1>3
<1>5. Differ(p) = DifferBit(p, s, check) BY <1>1, <1>2 DEF Differ
<1> HIDE DEF check
<1>6. PICK d, g : /\ d = DifferBit(p, s, check) /\ g = SubSeq(p, 1, d)
                  /\ d \in Nat /\ d <= check
                  /\ g \in Bits /\ Len(g) = d /\ Covers(g, p) /\ Covers(g, s)
                  /\ d < check => Way(g, p) # Way(g, s)
  BY <1>3, <1>4, DifferFact, Zenon
<1>7. d <= Len(s) /\ d <= Len(p) /\ (d < Len(p) /\ d < Len(s) => Way(g, p) # Way(g, s))
  BY <1>3, <1>4, <1>6
<1> DEFINE t == Top(p)
           u == node[t].parent
<1>8. d \in Nat /\ g \in Bits /\ Len(g) = d /\ Covers(g, p) /\ Covers(g, s) BY <1>6
<1>9. d = Differ(p) /\ g = SubSeq(p, 1, d) BY <1>5, <1>6
<1>10. t = ClimbFrom(s, d) BY <1>2, <1>9 DEF Top
<1>11. /\ t \in DOMAIN node /\ Covers(t, s) /\ d <= Len(t)
       /\ u = NULL \/ Len(u) < d
  <2> HIDE DEF t
  <2> QED BY <1>1, <1>7, <1>8, <1>10, ClimbFact
<1>12. t = Top(p) /\ u = node[t].parent OBVIOUS
<1> HIDE DEF t, u
<1>13. /\ u \in DOMAIN node \cup {NULL} /\ Hangs(node, head, u, t)
       /\ Covers(g, t)
       /\ d = Len(p) => g = p
       /\ Len(t) = d => t = g
       /\ Len(t) = d /\ d < Len(p) => node[t][Way(t, p)] = NULL /\ p \notin DOMAIN node
       /\ d < Len(t) => g \notin DOMAIN node /\ Way(g, s) = Way(g, t)
       /\ d < Len(t) /\ d < Len(p) => p \notin DOMAIN node /\ Way(g, p) # Way(g, t)
  BY <1>1, <1>7, <1>8, <1>11, <1>12, LeaveFact
<1>14. Leaves(p, s, d, t, u, g)
  BY <1>1, <1>2, <1>7, <1>8, <1>9, <1>11, <1>12, <1>13 DEF Leaves
<1> QED BY <1>14

(***************************************************************************)
(* What the writer keeps, apart from the search.                           *)
(***************************************************************************)
NodeOK(n, x) ==
    /\ x \in Node /\ x.bit = Len(n)
    /\ x.prefix \in {NULL, n} /\ x.data \in {NULL, n}
    /\ x.data # NULL => x.prefix # NULL

Full(x) == x.prefix = NULL => x["l"] # NULL /\ x["r"] # NULL

WriteInv ==
    /\ head \in Link /\ w \in Writer
    /\ DOMAIN node \subseteq Bits
    /\ \A n \in DOMAIN node : NodeOK(n, node[n])
    /\ \A n \in DOMAIN node : ~(w.op = "splice" /\ w.pn = n) => Full(node[n])
    /\ routes = {n \in DOMAIN node : node[n].data # NULL} /\ routes \subseteq Prefix
    /\ IsFiniteSet(DOMAIN node) /\ num_active_node = Cardinality(DOMAIN node)
    /\ TreeInv /\ WriterInv
    /\ asserts = TRUE

\* These are the parts of the invariant that speak of the writer.
LEMMA WriteInvFact ==
    WriteInv /\ rd \in Search <=> TypeOK /\ NodeInv /\ TreeInv /\ WriterInv /\ AssertsHold
<1>1. ASSUME WriteInv, rd \in Search PROVE TypeOK /\ NodeInv /\ TreeInv /\ WriterInv /\ AssertsHold
  <2>1. num_active_node \in Nat BY <1>1, FS_CardinalityType DEF WriteInv
  <2>2. TypeOK BY <1>1, <2>1 DEF WriteInv, TypeOK, NodeOK
  <2>3. NodeInv
    <3>1. \A n \in DOMAIN node : node[n] \in Node BY <1>1 DEF WriteInv, NodeOK
    <3> QED BY <1>1, <3>1 DEF WriteInv, NodeInv, NodeOK, Full, Node
  <2> QED BY <1>1, <2>2, <2>3 DEF WriteInv, AssertsHold
<1>2. ASSUME TypeOK, NodeInv, TreeInv, WriterInv, AssertsHold PROVE WriteInv /\ rd \in Search
  <2>1. \A n \in DOMAIN node : NodeOK(n, node[n]) BY <1>2 DEF TypeOK, NodeInv, NodeOK
  <2>2. \A n \in DOMAIN node : ~(w.op = "splice" /\ w.pn = n) => Full(node[n])
    BY <1>2 DEF TypeOK, NodeInv, Full, Node
  <2>3. asserts = TRUE BY <1>2 DEF TypeOK, AssertsHold
  <2>4. /\ routes = {n \in DOMAIN node : node[n].data # NULL}
        /\ IsFiniteSet(DOMAIN node) /\ num_active_node = Cardinality(DOMAIN node)
    BY <1>2, Zenon DEF NodeInv
  <2> QED BY <1>2, <2>1, <2>2, <2>3, <2>4 DEF WriteInv, TypeOK
<1> QED BY <1>1, <1>2

\* An operation begins when the writer is idle.
LEMMA CalmIntro ==
    ASSUME WriteInv, rd \in Search, w.op = "idle"
    PROVE  Calm
<1>1. TypeOK /\ NodeInv /\ TreeInv BY WriteInvFact
<1> QED BY <1>1 DEF Calm, TreeInv

\* A tree is its nodes, their links and their parents.
LEMMA SameTree ==
    ASSUME NEW nd, NEW hd, NEW gone, NEW moved, Tree(nd, hd, gone, moved),
           NEW nw, DOMAIN nw = DOMAIN nd,
           \A n \in DOMAIN nd : nw[n].parent = nd[n].parent,
           \A n \in DOMAIN nd, b \in {"l", "r"} : nw[n][b] = nd[n][b]
    PROVE  Tree(nw, hd, gone, moved)
<1>1. Links(nw, hd, gone) BY DEF Tree, Links
<1>2. Closed(nw, hd)
  <2>1. \A m \in DOMAIN nw : hd # NULL /\ Covers(hd, m) BY DEF Tree, Closed
  <2>2. ASSUME NEW n \in DOMAIN nw, NEW m \in DOMAIN nw, Covers(n, m), n # m
        PROVE  nw[n][Way(n, m)] # NULL /\ Covers(nw[n][Way(n, m)], m)
    <3>1. nw[n][Way(n, m)] = nd[n][Way(n, m)] BY WayType
    <3> QED BY <2>2, <3>1 DEF Tree, Closed
  <2> QED BY <2>1, <2>2 DEF Closed
<1>3. Parents(nw, hd, moved)
  <2> SUFFICES ASSUME NEW n \in DOMAIN nw \ moved PROVE Hangs(nw, hd, nw[n].parent, n) BY DEF Parents
  <2>1. Hangs(nd, hd, nd[n].parent, n) BY DEF Tree, Parents
  <2> QED BY <2>1, WayType DEF Hangs
<1> QED BY <1>1, <1>2, <1>3 DEF Tree

\* The link of u to x becomes a link to c.
LEMMA RelinkFact ==
    ASSUME NEW nd, NULL \notin DOMAIN nd, \A n \in DOMAIN nd : nd[n] \in Node,
           NEW x, NEW c \in Link, NEW u, u # NULL => u \in DOMAIN nd,
           u # NULL => (nd[u]["r"] = x <=> Way(u, x) = "r"),
           NEW nw, nw = Relinked(nd, u, x, c)
    PROVE  /\ DOMAIN nw = DOMAIN nd
           /\ \A n \in DOMAIN nd :
                 /\ nw[n] \in Node /\ nw[n].bit = nd[n].bit /\ nw[n].parent = nd[n].parent
                 /\ nw[n].prefix = nd[n].prefix /\ nw[n].data = nd[n].data
           /\ \A n \in DOMAIN nd, b \in {"l", "r"} :
                 nw[n][b] = IF n = u /\ b = Way(u, x) THEN c ELSE nd[n][b]
           /\ \A n \in DOMAIN nd : n # u => nw[n] = nd[n]
<1>1. CASE u = NULL
  <2>1. nw = nd BY <1>1 DEF Relinked
  <2> QED BY <1>1, <2>1
<1>2. CASE u # NULL
  <2> DEFINE b == Way(u, x)
  <2>1. b \in {"l", "r"} BY WayType
  <2>2. nw = [nd EXCEPT ![u] = [nd[u] EXCEPT ![b] = c]]
    <3>1. CASE b = "r" BY <1>2, <3>1 DEF Relinked
    <3>2. CASE b = "l" BY <1>2, <3>2 DEF Relinked
    <3> QED BY <2>1, <3>1, <3>2
  <2>3. nw[u] = [nd[u] EXCEPT ![b] = c] /\ \A n \in DOMAIN nd : n # u => nw[n] = nd[n]
    BY <1>2, <2>2
  <2> HIDE DEF b
  <2>4. \A n \in DOMAIN nd :
           /\ nw[n] \in Node /\ nw[n].bit = nd[n].bit /\ nw[n].parent = nd[n].parent
           /\ nw[n].prefix = nd[n].prefix /\ nw[n].data = nd[n].data
    BY <1>2, <2>1, <2>3, NodeSet
  <2>5. \A n \in DOMAIN nd, y \in {"l", "r"} : nw[n][y] = IF n = u /\ y = b THEN c ELSE nd[n][y]
    <3> SUFFICES ASSUME NEW n \in DOMAIN nd, NEW y \in {"l", "r"}
                 PROVE  nw[n][y] = IF n = u /\ y = b THEN c ELSE nd[n][y]
      OBVIOUS
    <3>1. CASE n = u BY <1>2, <2>1, <2>3, <3>1, NodeSet
    <3>2. CASE n # u BY <2>3, <3>2
    <3> QED BY <3>1, <3>2
  <2> QED BY <2>2, <2>3, <2>4, <2>5 DEF b
<1> QED BY <1>1, <1>2

(***************************************************************************)
(* The steps of patricia_lookup.                                           *)
(***************************************************************************)
\* No node is freed, and none loses its prefix.
Grows == \A n \in DOMAIN node : n \in DOMAIN node' /\ (node[n].prefix # NULL => node'[n].prefix # NULL)

\* A step that adds the nodes of new and leads to the node of p.
LEMMA InsertIntro ==
    ASSUME WriteInv, NEW p \in Prefix, Insert(p),
           NEW new \in SUBSET Bits, IsFiniteSet(new), new \cap DOMAIN node = {},
           DOMAIN node' = DOMAIN node \cup new,
           num_active_node' = num_active_node + Cardinality(new),
           \A n \in new : NodeOK(n, node'[n]) /\ Full(node'[n]) /\ node'[n].data = NULL,
           \A n \in DOMAIN node :
               /\ NodeOK(n, node'[n]) /\ Full(node'[n]) /\ node'[n].data = node[n].data
               /\ node[n].prefix # NULL => node'[n].prefix # NULL,
           Tree(node', head', {}, {}), head' \in Link,
           p \in DOMAIN node', node'[p].prefix # NULL,
           routes' = routes, asserts' = TRUE
    PROVE  WriteInv' /\ Grows /\ w'.op = "data"
<1>1. /\ w' \in Writer /\ w'.op = "data" /\ w'.pn = p
  BY PrefixAssumption DEF Insert, Idle, Writer, Link
<1>2. DOMAIN node' \subseteq Bits /\ IsFiniteSet(DOMAIN node')
  <2>1. DOMAIN node \subseteq Bits /\ IsFiniteSet(DOMAIN node) BY DEF WriteInv
  <2>2. IsFiniteSet(DOMAIN node \cup new) BY <2>1, FS_Union
  <2> QED BY <2>1, <2>2
<1>3. num_active_node' = Cardinality(DOMAIN node')
  <2>1. Cardinality(DOMAIN node \cup new)
           = Cardinality(DOMAIN node) + Cardinality(new) - Cardinality(DOMAIN node \cap new)
    BY FS_Union DEF WriteInv
  <2>2. Cardinality(DOMAIN node \cap new) = 0 BY FS_EmptySet
  <2>3. Cardinality(DOMAIN node) \in Nat /\ Cardinality(new) \in Nat BY FS_CardinalityType DEF WriteInv
  <2> QED BY <2>1, <2>2, <2>3 DEF WriteInv
<1>4. routes' = {n \in DOMAIN node' : node'[n].data # NULL} /\ routes' \subseteq Prefix
  BY DEF WriteInv
<1>5. TreeInv' BY <1>1 DEF TreeInv
<1>6. WriterInv' BY <1>1 DEF WriterInv
<1>7. \A n \in DOMAIN node' : NodeOK(n, node'[n]) /\ Full(node'[n]) OBVIOUS
<1>8. WriteInv' BY <1>1, <1>2, <1>3, <1>4, <1>5, <1>6, <1>7 DEF WriteInv
<1> QED BY <1>1, <1>8 DEF Grows

\* What an insertion finds when it begins.
LEMMA InsertFact ==
    ASSUME WriteInv, rd \in Search, NEW p \in Prefix, Insert(p)
    PROVE  /\ Calm /\ p \in Bits /\ w.op = "idle"
           /\ DOMAIN node \subseteq Bits /\ NULL \notin DOMAIN node
           /\ \A n \in DOMAIN node : NodeOK(n, node[n]) /\ Full(node[n]) /\ node[n] \in Node
BY CalmIntro, PrefixAssumption DEF WriteInv, Insert, NodeOK

\* The first node of an empty trie.
LEMMA LookupHeadStep ==
    ASSUME WriteInv, rd \in Search, NEW p \in Prefix, LookupHead(p)
    PROVE  WriteInv' /\ Grows /\ w'.op = "data"
<1>1. Insert(p) /\ head = NULL /\ head' = p /\ routes' = routes
      /\ num_active_node' = num_active_node + 1
  BY DEF LookupHead, Watch
<1>2. Calm /\ p \in Bits BY <1>1, InsertFact
<1>3. DOMAIN node = {} BY <1>1, <1>2, CalmFact DEF Closed
<1>4. asserts' = TRUE BY <1>3 DEF LookupHead, Check, WriteInv
<1> DEFINE x == NewNode(p, p, NULL, NULL, NULL)
<1>5. /\ x \in Node /\ x.bit = Len(p) /\ x.prefix = p /\ x.parent = NULL /\ x.data = NULL
      /\ x["l"] = NULL /\ x["r"] = NULL
  <2>1. NULL \in Link BY DEF Link
  <2> HIDE DEF x
  <2>2. x = NewNode(p, p, NULL, NULL, NULL) BY DEF x
  <2> QED BY <1>2, <2>1, <2>2, NewNodeFact
<1>6. DOMAIN node' = {p} /\ node'[p] = x BY <1>3 DEF LookupHead, With
<1> HIDE DEF x
<1>7. NodeOK(p, x) /\ Full(x) /\ x.prefix # NULL
  BY <1>2, <1>5, PrefixAssumption DEF NodeOK, Full
<1>8. Tree(node', p, {}, {})
  <2>1. Links(node', p, {}) BY <1>5, <1>6 DEF Links
  <2>2. Closed(node', p) BY <1>2, <1>6, CoversOrder, PrefixAssumption DEF Closed
  <2>3. Parents(node', p, {}) BY <1>5, <1>6 DEF Parents, Hangs
  <2> QED BY <2>1, <2>2, <2>3 DEF Tree
<1>9. IsFiniteSet({p}) /\ Cardinality({p}) = 1 BY FS_Singleton
<1> QED BY <1>1, <1>2, <1>3, <1>4, <1>5, <1>6, <1>7, <1>8, <1>9, InsertIntro DEF Link

\* The node at which it stops has a prefix.
LEMMA StopHasPrefixFact ==
    ASSUME Calm, head # NULL, NEW p \in Bits
    PROVE  StopHasPrefix(p) = TRUE
<1>1. PICK s : s = Stop(p) OBVIOUS
<1>2. s \in DOMAIN node /\ node[s].prefix = s BY <1>1, StopFact
<1> QED BY <1>1, <1>2, CalmFact, PrefixAssumption DEF StopHasPrefix

\* If the search of patricia_lookup ends at the length of p, p has a node.
LEMMA SameNodeFact ==
    ASSUME Calm, head # NULL, NEW p \in Bits, SameNode(p)
    PROVE  Top(p) = p /\ p \in DOMAIN node
<1>1. PICK s, d, t, u, g : Leaves(p, s, d, t, u, g) BY LookupFact
<1>2. d = Len(p) /\ node[t].bit = Len(p) BY <1>1 DEF Leaves, SameNode
<1>3. t \in DOMAIN node /\ t = Top(p) BY <1>1 DEF Leaves
<1>4. Len(t) = d BY <1>2, <1>3, CalmFact
<1> QED BY <1>1, <1>2, <1>3, <1>4 DEF Leaves

\* The prefix has its node already.
LEMMA LookupFoundStep ==
    ASSUME WriteInv, rd \in Search, NEW p \in Prefix, LookupFound(p)
    PROVE  WriteInv' /\ Grows /\ w'.op = "data"
<1>1. /\ Insert(p) /\ head # NULL /\ SameNode(p) /\ node[Top(p)].prefix # NULL
      /\ head' = head /\ node' = node /\ num_active_node' = num_active_node /\ routes' = routes
  BY DEF LookupFound, trie
<1>2. Calm /\ p \in Bits BY <1>1, InsertFact
<1>3. Top(p) = p /\ p \in DOMAIN node BY <1>1, <1>2, SameNodeFact
<1>4. asserts' = TRUE BY <1>1, <1>2, <1>3, StopHasPrefixFact DEF LookupFound, Check, WriteInv
<1>5. Tree(node', head', {}, {}) BY <1>1, <1>2 DEF Calm
<1>6. IsFiniteSet({}) /\ Cardinality({}) = 0 BY FS_EmptySet
<1>7. \A n \in DOMAIN node : NodeOK(n, node[n]) /\ Full(node[n]) BY <1>1, InsertFact
<1>8. num_active_node \in Nat BY FS_CardinalityType DEF WriteInv
<1>9. head' \in Link BY <1>1 DEF WriteInv
<1> DEFINE new == {}
<1>10. /\ new \in SUBSET Bits /\ new \cap DOMAIN node = {} /\ DOMAIN node' = DOMAIN node \cup new
       /\ IsFiniteSet(new) /\ num_active_node' = num_active_node + Cardinality(new)
  BY <1>1, <1>6, <1>8
<1>11. \A n \in new : NodeOK(n, node'[n]) /\ Full(node'[n]) /\ node'[n].data = NULL OBVIOUS
<1> HIDE DEF new
<1> QED BY <1>1, <1>3, <1>4, <1>5, <1>7, <1>9, <1>10, <1>11, InsertIntro

\* A glue node gets the prefix.
LEMMA LookupGlueModStep ==
    ASSUME WriteInv, rd \in Search, NEW p \in Prefix, LookupGlueMod(p)
    PROVE  WriteInv' /\ Grows /\ w'.op = "data"
<1>1. /\ Insert(p) /\ head # NULL /\ SameNode(p) /\ node[Top(p)].prefix = NULL
      /\ head' = head /\ num_active_node' = num_active_node /\ routes' = routes
  BY DEF LookupGlueMod, Watch
<1>2. Calm /\ p \in Bits BY <1>1, InsertFact
<1>3. Top(p) = p /\ p \in DOMAIN node BY <1>1, <1>2, SameNodeFact
<1>4. NodeOK(p, node[p]) /\ Full(node[p]) /\ node[p].data = NULL
  BY <1>1, <1>3, InsertFact DEF NodeOK
<1>5. asserts' = TRUE BY <1>1, <1>2, <1>3, <1>4, StopHasPrefixFact DEF LookupGlueMod, Check, WriteInv
<1>6. /\ DOMAIN node' = DOMAIN node /\ node'[p] = [node[p] EXCEPT !.prefix = p]
      /\ \A n \in DOMAIN node : n # p => node'[n] = node[n]
  BY <1>3 DEF LookupGlueMod
<1>7. /\ node'[p] \in Node /\ node'[p].bit = node[p].bit /\ node'[p].prefix = p
      /\ node'[p].data = NULL /\ node'[p].parent = node[p].parent
      /\ \A b \in {"l", "r"} : node'[p][b] = node[p][b]
  BY <1>2, <1>4, <1>6 DEF NodeOK, Node, Link
<1>8. p # NULL BY <1>2, PrefixAssumption
<1>9. \A n \in DOMAIN node :
         /\ NodeOK(n, node'[n]) /\ Full(node'[n]) /\ node'[n].data = node[n].data
         /\ node[n].prefix # NULL => node'[n].prefix # NULL
  <2>1. ASSUME NEW n \in DOMAIN node, n # p PROVE NodeOK(n, node'[n]) /\ Full(node'[n])
    BY <1>1, <1>6, <2>1, InsertFact
  <2>2. NodeOK(p, node'[p]) /\ Full(node'[p]) BY <1>4, <1>7, <1>8 DEF NodeOK, Full
  <2> QED BY <1>4, <1>6, <1>7, <1>8, <2>1, <2>2
<1>10. Tree(node', head', {}, {})
  <2>1. Tree(node, head, {}, {}) BY <1>2 DEF Calm
  <2>2. \A n \in DOMAIN node : node'[n].parent = node[n].parent BY <1>6, <1>7
  <2>3. \A n \in DOMAIN node, b \in {"l", "r"} : node'[n][b] = node[n][b] BY <1>6, <1>7
  <2> QED BY <1>1, <1>6, <2>1, <2>2, <2>3, SameTree
<1>11. num_active_node \in Nat BY FS_CardinalityType DEF WriteInv
<1>12. head' \in Link BY <1>1 DEF WriteInv
<1> DEFINE new == {}
<1>13. /\ new \in SUBSET Bits /\ new \cap DOMAIN node = {} /\ DOMAIN node' = DOMAIN node \cup new
       /\ IsFiniteSet(new) /\ num_active_node' = num_active_node + Cardinality(new)
  BY <1>1, <1>6, <1>11, FS_EmptySet
<1>14. \A n \in new : NodeOK(n, node'[n]) /\ Full(node'[n]) /\ node'[n].data = NULL OBVIOUS
<1> HIDE DEF new
<1> QED BY <1>1, <1>3, <1>5, <1>6, <1>7, <1>8, <1>9, <1>10, <1>12, <1>13, <1>14, InsertIntro

\* The new node becomes a child.
LEMMA LookupChildStep ==
    ASSUME WriteInv, rd \in Search, NEW p \in Prefix, LookupChild(p)
    PROVE  WriteInv' /\ Grows /\ w'.op = "data"
<1>1. /\ Insert(p) /\ head # NULL /\ ~SameNode(p) /\ node[Top(p)].bit = Differ(p)
      /\ head' = head /\ num_active_node' = num_active_node + 1 /\ routes' = routes
  BY DEF LookupChild, Watch
<1>2. Calm /\ p \in Bits BY <1>1, InsertFact
<1>3. PICK s, d, t, u, g : Leaves(p, s, d, t, u, g) BY <1>1, <1>2, LookupFact
<1>4. /\ d = Differ(p) /\ t = Top(p) /\ t \in DOMAIN node /\ t \in Bits
      /\ Len(t) = d /\ node[t].bit = Len(t) /\ node[t] \in Node /\ NodeOK(t, node[t]) /\ Full(node[t])
  BY <1>1, <1>2, <1>3, CalmFact, InsertFact DEF Leaves
<1>5. d < Len(p)
  <2>1. d \in Nat /\ d <= Len(p) /\ Len(p) \in Nat BY <1>2, <1>3, BitsFact DEF Leaves
  <2>2. d # Len(p) BY <1>1, <1>4 DEF SameNode
  <2> QED BY <2>1, <2>2
<1>6. Covers(t, p) /\ node[t][Way(t, p)] = NULL /\ p \notin DOMAIN node
  BY <1>3, <1>4, <1>5 DEF Leaves
<1> DEFINE b == Way(t, p)
<1>7. Side(t, p) = b /\ b \in {"l", "r"} BY <1>2, <1>4, CalmFact, SideFact, WayType
<1>8. asserts' = TRUE BY <1>1, <1>2, <1>4, <1>6, <1>7, StopHasPrefixFact DEF LookupChild, Check, WriteInv
<1> DEFINE x == NewNode(p, p, t, NULL, NULL)
<1>9. node' = [With(node, [n \in {p} |-> x]) EXCEPT ![t] = [@ EXCEPT ![b] = p]]
  BY <1>4, <1>7 DEF LookupChild
<1>10. x = NewNode(p, p, t, NULL, NULL) OBVIOUS
<1> HIDE DEF x, b
<1>11. DOMAIN node' = DOMAIN node \cup {p} /\ node'[p] = x /\ node'[t] = [node[t] EXCEPT ![b] = p]
       /\ \A n \in DOMAIN node : n # t => node'[n] = node[n]
  BY <1>4, <1>6, <1>9 DEF With
<1>12. NULL \in Link /\ t \in Link /\ p \in Link /\ p # NULL BY <1>2, <1>4, PrefixAssumption DEF Link
<1>13. /\ x \in Node /\ x.bit = Len(p) /\ x.prefix = p /\ x.parent = t /\ x.data = NULL
       /\ x["l"] = NULL /\ x["r"] = NULL
  BY <1>2, <1>10, <1>12, NewNodeFact
<1>14. /\ node'[t] \in Node /\ node'[t].bit = node[t].bit /\ node'[t].prefix = node[t].prefix
       /\ node'[t].parent = node[t].parent /\ node'[t].data = node[t].data
       /\ \A y \in {"l", "r"} : node'[t][y] = IF y = b THEN p ELSE node[t][y]
  <2>1. node[t] \in Node /\ b \in {"l", "r"} /\ p \in Link BY <1>4, <1>7, <1>12
  <2>2. node'[t] = [node[t] EXCEPT ![b] = p] BY <1>11
  <2>3. CASE b = "l" BY <2>1, <2>2, <2>3 DEF Node
  <2>4. CASE b = "r" BY <2>1, <2>2, <2>4 DEF Node
  <2> QED BY <2>1, <2>3, <2>4
<1>15. NodeOK(p, x) /\ Full(x) BY <1>12, <1>13 DEF NodeOK, Full
<1>16. NodeOK(t, node'[t]) /\ Full(node'[t]) BY <1>4, <1>12, <1>14 DEF NodeOK, Full
<1>17. \A n \in DOMAIN node :
          /\ NodeOK(n, node'[n]) /\ Full(node'[n]) /\ node'[n].data = node[n].data
          /\ node[n].prefix # NULL => node'[n].prefix # NULL
  <2>1. ASSUME NEW n \in DOMAIN node, n # t PROVE NodeOK(n, node'[n]) /\ Full(node'[n])
    BY <1>1, <1>11, <2>1, InsertFact
  <2> QED BY <1>11, <1>14, <1>16, <2>1
<1>18. Tree(node', head', {}, {})
  <2>1. Tree(node, head, {}, {}) /\ DOMAIN node \subseteq Bits BY <1>2, CalmFact DEF Calm
  <2>2. \A n \in DOMAIN node : node'[n].parent = node[n].parent BY <1>11, <1>14
  <2>3. \A n \in DOMAIN node, y \in {"l", "r"} :
           node'[n][y] = IF n = t /\ y = Way(t, p) THEN p ELSE node[n][y]
    BY <1>11, <1>14 DEF b
  <2>4. node'[p].parent = t /\ node'[p]["l"] = NULL /\ node'[p]["r"] = NULL BY <1>11, <1>13
  <2>5. Tree(node', head, {}, {}) BY <1>2, <1>4, <1>6, <1>11, <2>1, <2>2, <2>3, <2>4, ChildTree
  <2> QED BY <1>1, <2>5
<1>19. IsFiniteSet({p}) /\ Cardinality({p}) = 1 BY FS_Singleton
<1>20. head' \in Link BY <1>1 DEF WriteInv
<1> DEFINE new == {p}
<1>21. /\ new \in SUBSET Bits /\ new \cap DOMAIN node = {} /\ DOMAIN node' = DOMAIN node \cup new
       /\ IsFiniteSet(new) /\ num_active_node' = num_active_node + Cardinality(new)
       /\ \A n \in new : NodeOK(n, node'[n]) /\ Full(node'[n]) /\ node'[n].data = NULL
       /\ p \in DOMAIN node' /\ node'[p].prefix # NULL
  BY <1>1, <1>2, <1>6, <1>11, <1>12, <1>13, <1>15, <1>19
<1> HIDE DEF new
<1> QED BY <1>1, <1>8, <1>17, <1>18, <1>20, <1>21, InsertIntro

\* The link of t's parent that leads to t.
LEMMA LinkFact ==
    ASSUME NEW nd, NEW hd, NEW gone \in SUBSET Bits, DOMAIN nd \subseteq Bits, Links(nd, hd, gone),
           NEW t \in Bits, NEW u, Hangs(nd, hd, u, t), u # NULL
    PROVE  /\ u \in DOMAIN nd /\ nd[u][Way(u, t)] = t
           /\ nd[u]["r"] = t <=> Way(u, t) = "r"
<1>1. u \in DOMAIN nd /\ nd[u][Way(u, t)] = t BY DEF Hangs
<1>2. t # NULL BY PrefixAssumption
<1>3. ASSUME nd[u]["r"] = t PROVE Way(u, t) = "r" BY <1>1, <1>2, <1>3, TreeOrder
<1> QED BY <1>1, <1>3

\* The new node becomes the parent of the node it stopped at.
LEMMA LookupParentStep ==
    ASSUME WriteInv, rd \in Search, NEW p \in Prefix, LookupParent(p)
    PROVE  WriteInv' /\ Grows /\ w'.op = "data"
<1>1. /\ Insert(p) /\ head # NULL /\ ~SameNode(p) /\ node[Top(p)].bit # Differ(p)
      /\ Len(p) = Differ(p) /\ num_active_node' = num_active_node + 1 /\ routes' = routes
  BY DEF LookupParent, Watch
<1>2. Calm /\ p \in Bits /\ DOMAIN node \subseteq Bits /\ NULL \notin DOMAIN node BY <1>1, InsertFact
<1>3. PICK s, d, t, u, g : Leaves(p, s, d, t, u, g) BY <1>1, <1>2, LookupFact
<1>4. /\ d = Differ(p) /\ t = Top(p) /\ t \in DOMAIN node /\ t \in Bits /\ u = node[t].parent
      /\ s = Stop(p) /\ node[s].prefix = s
      /\ node[t].bit = Len(t) /\ node[t] \in Node /\ NodeOK(t, node[t]) /\ Full(node[t])
  BY <1>1, <1>2, <1>3, CalmFact, InsertFact DEF Leaves
<1>5. d < Len(t) /\ Len(p) = d /\ Len(t) <= maxbits /\ Len(p) < maxbits
  <2>1. d \in Nat /\ d <= Len(t) /\ Len(t) \in Nat /\ Len(t) <= maxbits
    BY <1>3, <1>4, BitsFact DEF Leaves
  <2>2. d # Len(t) /\ Len(p) = d BY <1>1, <1>4
  <2> QED BY <2>1, <2>2, PrefixAssumption
<1>6. g = p /\ p \notin DOMAIN node /\ Way(p, s) = Way(p, t) /\ Covers(p, t)
      /\ (u = NULL \/ Len(u) < Len(p)) /\ u \in DOMAIN node \cup {NULL} /\ Hangs(node, head, u, t)
  BY <1>3, <1>5 DEF Leaves
<1>7. u = NULL => head = t BY <1>6 DEF Hangs
<1>8. asserts' = TRUE BY <1>1, <1>2, <1>4, <1>6, <1>7, StopHasPrefixFact DEF LookupParent, Check, WriteInv
<1> DEFINE b == Way(p, t)
           x == NewNode(p, p, u, IF b = "r" THEN NULL ELSE t, IF b = "r" THEN t ELSE NULL)
           q == [node[t] EXCEPT !.parent = p]
           nd == [With(node, [n \in {p} |-> x]) EXCEPT ![t].parent = p]
<1>9. b = "r" <=> Len(p) < maxbits /\ Bit(node[Stop(p)].prefix, Len(p)) = 1
  <2>1. b = Way(p, s) BY <1>6
  <2> QED BY <1>4, <1>5, <2>1 DEF Way
<1>10. node' = Relinked(nd, u, t, p) /\ head' = (IF u = NULL THEN p ELSE head)
  <2> HIDE DEF b
  <2> QED BY <1>4, <1>9 DEF LookupParent
<1>11. x = NewNode(p, p, u, IF b = "r" THEN NULL ELSE t, IF b = "r" THEN t ELSE NULL)
       /\ q = [node[t] EXCEPT !.parent = p]
  OBVIOUS
<1>12. b = Way(p, t) /\ b \in {"l", "r"} BY WayType
<1> HIDE DEF x, b
<1>13. DOMAIN nd = DOMAIN node \cup {p} /\ nd[p] = x /\ nd[t] = q
       /\ \A n \in DOMAIN node : n # t => nd[n] = node[n]
  BY <1>4, <1>6 DEF With
<1> HIDE DEF q, nd
<1>14. NULL \in Link /\ t \in Link /\ p \in Link /\ p # NULL /\ t # NULL /\ u \in Link
  BY <1>2, <1>4, <1>6, PrefixAssumption DEF Link
<1>15. /\ x \in Node /\ x.bit = Len(p) /\ x.prefix = p /\ x.parent = u /\ x.data = NULL
       /\ \A y \in {"l", "r"} : x[y] = IF y = b THEN t ELSE NULL
  <2> DEFINE lc == IF b = "r" THEN NULL ELSE t
             rc == IF b = "r" THEN t ELSE NULL
  <2>1. lc \in Link /\ rc \in Link BY <1>14
  <2>2. x = NewNode(p, p, u, lc, rc) BY <1>11
  <2>3. \A y \in {"l", "r"} : (IF y = "l" THEN lc ELSE rc) = IF y = b THEN t ELSE NULL BY <1>12
  <2> HIDE DEF lc, rc
  <2>4. /\ x \in Node /\ x.bit = Len(p) /\ x.prefix = p /\ x.parent = u /\ x.data = NULL
        /\ x["l"] = lc /\ x["r"] = rc
    <3>1. p \in Bits /\ p \in {NULL, p} /\ u \in Link BY <1>2, <1>14
    <3> QED BY <2>1, <2>2, <3>1, NewNodeFact
  <2> QED BY <2>3, <2>4
<1>16. /\ q \in Node /\ q.bit = node[t].bit /\ q.prefix = node[t].prefix
       /\ q.parent = p /\ q.data = node[t].data
       /\ \A y \in {"l", "r"} : q[y] = node[t][y]
  BY <1>4, <1>11, <1>14, NodeSetParent
<1>17. \A n \in DOMAIN node :
          /\ nd[n] \in Node /\ nd[n].bit = node[n].bit /\ nd[n].prefix = node[n].prefix
          /\ nd[n].data = node[n].data /\ nd[n].parent = (IF n = t THEN p ELSE node[n].parent)
          /\ \A y \in {"l", "r"} : nd[n][y] = node[n][y]
  <2>1. \A n \in DOMAIN node : node[n] \in Node BY <1>1, InsertFact
  <2> QED BY <1>13, <1>16, <2>1
<1>18. Links(node, head, {}) /\ Tree(node, head, {}, {}) BY <1>2, CalmFact DEF Calm
<1>19. /\ DOMAIN node' = DOMAIN nd
       /\ \A n \in DOMAIN nd :
             /\ node'[n] \in Node /\ node'[n].bit = nd[n].bit /\ node'[n].parent = nd[n].parent
             /\ node'[n].prefix = nd[n].prefix /\ node'[n].data = nd[n].data
       /\ \A n \in DOMAIN nd, y \in {"l", "r"} :
             node'[n][y] = IF n = u /\ y = Way(u, t) THEN p ELSE nd[n][y]
  <2>1. u # NULL => u \in DOMAIN node /\ (node[u]["r"] = t <=> Way(u, t) = "r")
    BY <1>2, <1>4, <1>6, <1>18, LinkFact
  <2>2. u # NULL => u \in DOMAIN nd /\ (nd[u]["r"] = t <=> Way(u, t) = "r")
    BY <1>13, <1>17, <2>1
  <2>3. NULL \notin DOMAIN nd /\ \A n \in DOMAIN nd : nd[n] \in Node BY <1>2, <1>13, <1>14, <1>15, <1>17
  <2> QED BY <1>10, <1>14, <2>2, <2>3, RelinkFact
<1>20. /\ node'[p].parent = u /\ node'[p].prefix = p /\ node'[p].data = NULL /\ node'[p].bit = Len(p)
       /\ node'[p] \in Node
       /\ \A y \in {"l", "r"} : node'[p][y] = IF y = b THEN t ELSE NULL
  <2>1. p # u BY <1>6, <1>14
  <2> QED BY <1>13, <1>15, <1>19, <2>1
<1>21. \A n \in DOMAIN node :
          /\ node'[n] \in Node /\ node'[n].bit = node[n].bit /\ node'[n].prefix = node[n].prefix
          /\ node'[n].data = node[n].data /\ node'[n].parent = (IF n = t THEN p ELSE node[n].parent)
          /\ \A y \in {"l", "r"} : node'[n][y] = IF n = u /\ y = Way(u, t) THEN p ELSE node[n][y]
  BY <1>13, <1>17, <1>19
<1>22. Tree(node', head', {}, {})
  <2> DEFINE h == head'
  <2>1. DOMAIN node' = DOMAIN node \cup {p} BY <1>13, <1>19
  <2>2. \A y \in {"l", "r"} : node'[p][y] = IF y = Way(p, t) THEN t ELSE NULL BY <1>12, <1>20
  <2>3. h = IF u = NULL THEN p ELSE head BY <1>10
  <2>4. \A n \in DOMAIN node : node'[n].parent = IF n = t THEN p ELSE node[n].parent BY <1>21
  <2>5. \A n \in DOMAIN node, y \in {"l", "r"} :
           node'[n][y] = IF n = u /\ y = Way(u, t) THEN p ELSE node[n][y]
    BY <1>21
  <2> HIDE DEF h
  <2>6. /\ t \in DOMAIN node /\ p \in Bits /\ p \notin DOMAIN node /\ Covers(p, t)
        /\ node[t].parent = u /\ (u = NULL \/ Len(u) < Len(p)) /\ node'[p].parent = u
        /\ DOMAIN node \subseteq Bits /\ Tree(node, head, {}, {})
    BY <1>2, <1>4, <1>6, <1>18, <1>20
  <2>7. Tree(node', h, {}, {}) BY <2>1, <2>2, <2>3, <2>4, <2>5, <2>6, ParentTree
  <2> QED BY <2>7 DEF h
<1>23. \A n \in DOMAIN node :
          /\ NodeOK(n, node'[n]) /\ Full(node'[n]) /\ node'[n].data = node[n].data
          /\ node[n].prefix # NULL => node'[n].prefix # NULL
  <2> TAKE n \in DOMAIN node
  <2>1. NodeOK(n, node[n]) /\ Full(node[n]) BY <1>1, InsertFact
  <2>2. NodeOK(n, node'[n]) BY <1>21, <2>1 DEF NodeOK
  <2>3. Full(node'[n]) BY <1>14, <1>21, <2>1 DEF Full
  <2> QED BY <1>21, <2>2, <2>3
<1>24. NodeOK(p, node'[p]) /\ Full(node'[p]) BY <1>14, <1>20 DEF NodeOK, Full
<1>25. head' \in Link BY <1>10, <1>14 DEF WriteInv
<1> DEFINE new == {p}
<1>26. IsFiniteSet(new) /\ Cardinality(new) = 1 BY FS_Singleton
<1>27. /\ new \in SUBSET Bits /\ new \cap DOMAIN node = {} /\ DOMAIN node' = DOMAIN node \cup new
       /\ num_active_node' = num_active_node + Cardinality(new)
       /\ \A n \in new : NodeOK(n, node'[n]) /\ Full(node'[n]) /\ node'[n].data = NULL
       /\ p \in DOMAIN node' /\ node'[p].prefix # NULL
  BY <1>1, <1>2, <1>6, <1>13, <1>14, <1>19, <1>20, <1>24, <1>26
<1> HIDE DEF new
<1> QED BY <1>1, <1>8, <1>22, <1>23, <1>25, <1>26, <1>27, InsertIntro

\* A glue node becomes the parent of both: first it is put above the node that is
\* there, then the new node becomes its child.
LEMMA LookupGlueStep ==
    ASSUME WriteInv, rd \in Search, NEW p \in Prefix, LookupGlue(p)
    PROVE  WriteInv' /\ Grows /\ w'.op = "data"
<1>1. /\ Insert(p) /\ head # NULL /\ ~SameNode(p) /\ node[Top(p)].bit # Differ(p)
      /\ Len(p) # Differ(p) /\ num_active_node' = num_active_node + 2 /\ routes' = routes
  BY DEF LookupGlue, Watch
<1>2. Calm /\ p \in Bits /\ DOMAIN node \subseteq Bits /\ NULL \notin DOMAIN node BY <1>1, InsertFact
<1>3. PICK s, d, t, u, g : Leaves(p, s, d, t, u, g) BY <1>1, <1>2, LookupFact
<1>4. /\ d = Differ(p) /\ t = Top(p) /\ t \in DOMAIN node /\ t \in Bits /\ u = node[t].parent
      /\ g = SubSeq(p, 1, d) /\ g \in Bits /\ Len(g) = d
      /\ node[t].bit = Len(t) /\ node[t] \in Node /\ NodeOK(t, node[t]) /\ Full(node[t])
  BY <1>1, <1>2, <1>3, CalmFact, InsertFact DEF Leaves
<1>5. d < Len(t) /\ d < Len(p) /\ d < maxbits /\ Len(p) \in Nat
  <2>1. d \in Nat /\ d <= Len(t) /\ Len(t) \in Nat /\ d <= Len(p) /\ Len(p) \in Nat /\ Len(p) <= maxbits
    BY <1>2, <1>3, <1>4, BitsFact DEF Leaves
  <2>2. d # Len(t) /\ Len(p) # d BY <1>1, <1>4
  <2> QED BY <2>1, <2>2, PrefixAssumption
<1>6. /\ g \notin DOMAIN node /\ p \notin DOMAIN node /\ p # g /\ Covers(g, t) /\ Covers(g, p)
      /\ Way(g, p) # Way(g, t)
      /\ (u = NULL \/ Len(u) < Len(g)) /\ u \in DOMAIN node \cup {NULL} /\ Hangs(node, head, u, t)
  BY <1>3, <1>4, <1>5 DEF Leaves
<1>7. u = NULL => head = t BY <1>6 DEF Hangs
<1>8. asserts' = TRUE BY <1>1, <1>2, <1>4, <1>6, <1>7, StopHasPrefixFact DEF LookupGlue, Check, WriteInv
<1> DEFINE b == Way(g, p)
           x == NewNode(p, p, g, NULL, NULL)
           glue == NewNode(g, NULL, u, IF b = "r" THEN t ELSE p, IF b = "r" THEN p ELSE t)
           nd == [With(node, [n \in {p, g} |-> IF n = g THEN glue ELSE x]) EXCEPT ![t].parent = g]
<1>9. b = "r" <=> d < maxbits /\ Bit(p, d) = 1 BY <1>4, <1>5 DEF Way
<1>10. node' = Relinked(nd, u, t, g) /\ head' = (IF u = NULL THEN g ELSE head)
  <2> HIDE DEF b
  <2> QED BY <1>4, <1>9 DEF LookupGlue
<1>11. x = NewNode(p, p, g, NULL, NULL)
       /\ glue = NewNode(g, NULL, u, IF b = "r" THEN t ELSE p, IF b = "r" THEN p ELSE t)
  OBVIOUS
<1>12. b = Way(g, p) /\ b \in {"l", "r"} /\ Way(g, t) \in {"l", "r"} BY WayType
<1> HIDE DEF x, glue, b
<1>13. DOMAIN nd = DOMAIN node \cup {p, g} /\ nd[p] = x /\ nd[g] = glue
       /\ nd[t] = [node[t] EXCEPT !.parent = g]
       /\ \A n \in DOMAIN node : n # t => nd[n] = node[n]
  BY <1>4, <1>6 DEF With
<1> HIDE DEF nd
<1>14. /\ NULL \in Link /\ t \in Link /\ p \in Link /\ g \in Link /\ u \in Link
       /\ p # NULL /\ t # NULL /\ g # NULL
  BY <1>2, <1>4, <1>6, PrefixAssumption DEF Link
<1>15. /\ x \in Node /\ x.bit = Len(p) /\ x.prefix = p /\ x.parent = g /\ x.data = NULL
       /\ x["l"] = NULL /\ x["r"] = NULL
  <2>1. p \in Bits /\ p \in {NULL, p} /\ g \in Link /\ NULL \in Link BY <1>2, <1>14
  <2> QED BY <1>11, <2>1, NewNodeFact
<1>16. /\ glue \in Node /\ glue.bit = Len(g) /\ glue.prefix = NULL /\ glue.parent = u /\ glue.data = NULL
       /\ \A y \in {"l", "r"} : glue[y] = IF y = b THEN p ELSE t
  <2> DEFINE lc == IF b = "r" THEN t ELSE p
             rc == IF b = "r" THEN p ELSE t
  <2>1. lc \in Link /\ rc \in Link BY <1>14
  <2>2. glue = NewNode(g, NULL, u, lc, rc) BY <1>11
  <2>3. \A y \in {"l", "r"} : (IF y = "l" THEN lc ELSE rc) = IF y = b THEN p ELSE t BY <1>12
  <2> HIDE DEF lc, rc
  <2>4. /\ glue \in Node /\ glue.bit = Len(g) /\ glue.prefix = NULL /\ glue.parent = u /\ glue.data = NULL
        /\ glue["l"] = lc /\ glue["r"] = rc
    <3>1. g \in Bits /\ NULL \in {NULL, g} /\ u \in Link BY <1>4, <1>14
    <3> QED BY <2>1, <2>2, <3>1, NewNodeFact
  <2> QED BY <2>3, <2>4
<1>17. \A n \in DOMAIN node :
          /\ nd[n] \in Node /\ nd[n].bit = node[n].bit /\ nd[n].prefix = node[n].prefix
          /\ nd[n].data = node[n].data /\ nd[n].parent = (IF n = t THEN g ELSE node[n].parent)
          /\ \A y \in {"l", "r"} : nd[n][y] = node[n][y]
  <2>1. \A n \in DOMAIN node : node[n] \in Node BY <1>1, InsertFact
  <2>2. /\ nd[t] \in Node /\ nd[t].bit = node[t].bit /\ nd[t].prefix = node[t].prefix
        /\ nd[t].parent = g /\ nd[t].data = node[t].data
        /\ \A y \in {"l", "r"} : nd[t][y] = node[t][y]
    <3>1. nd[t] = [node[t] EXCEPT !.parent = g] /\ node[t] \in Node /\ g \in Link BY <1>4, <1>13, <1>14
    <3> QED BY <3>1 DEF Node
  <2> QED BY <1>13, <2>1, <2>2
<1>18. Links(node, head, {}) /\ Tree(node, head, {}, {}) BY <1>2, CalmFact DEF Calm
<1>19. /\ DOMAIN node' = DOMAIN nd
       /\ \A n \in DOMAIN nd :
             /\ node'[n] \in Node /\ node'[n].bit = nd[n].bit /\ node'[n].parent = nd[n].parent
             /\ node'[n].prefix = nd[n].prefix /\ node'[n].data = nd[n].data
       /\ \A n \in DOMAIN nd, y \in {"l", "r"} :
             node'[n][y] = IF n = u /\ y = Way(u, t) THEN g ELSE nd[n][y]
  <2>1. u # NULL => u \in DOMAIN node /\ (node[u]["r"] = t <=> Way(u, t) = "r")
    BY <1>2, <1>4, <1>6, <1>18, LinkFact
  <2>2. u # NULL => u \in DOMAIN nd /\ (nd[u]["r"] = t <=> Way(u, t) = "r")
    BY <1>13, <1>17, <2>1
  <2>3. NULL \notin DOMAIN nd /\ \A n \in DOMAIN nd : nd[n] \in Node
    BY <1>2, <1>13, <1>14, <1>15, <1>16, <1>17
  <2> QED BY <1>10, <1>14, <2>2, <2>3, RelinkFact
<1>20. /\ node'[p].parent = g /\ node'[p].prefix = p /\ node'[p].data = NULL /\ node'[p].bit = Len(p)
       /\ node'[p] \in Node /\ node'[p]["l"] = NULL /\ node'[p]["r"] = NULL
       /\ node'[g].parent = u /\ node'[g].prefix = NULL /\ node'[g].data = NULL /\ node'[g].bit = Len(g)
       /\ node'[g] \in Node /\ \A y \in {"l", "r"} : node'[g][y] = IF y = b THEN p ELSE t
  <2>1. p # u /\ g # u BY <1>6, <1>14
  <2> QED BY <1>13, <1>15, <1>16, <1>19, <2>1
<1>21. \A n \in DOMAIN node :
          /\ node'[n] \in Node /\ node'[n].bit = node[n].bit /\ node'[n].prefix = node[n].prefix
          /\ node'[n].data = node[n].data /\ node'[n].parent = (IF n = t THEN g ELSE node[n].parent)
          /\ \A y \in {"l", "r"} : node'[n][y] = IF n = u /\ y = Way(u, t) THEN g ELSE node[n][y]
  BY <1>13, <1>17, <1>19
<1>22. Tree(node', head', {}, {})
  <2> DEFINE h == head'
             new1 == [parent |-> u, l |-> IF b = "l" THEN NULL ELSE t, r |-> IF b = "r" THEN NULL ELSE t]
             nd1 == [n \in DOMAIN node \cup {g} |-> IF n = g THEN new1 ELSE node'[n]]
  <2>1. /\ DOMAIN nd1 = DOMAIN node \cup {g} /\ nd1[g] = new1
        /\ \A n \in DOMAIN node : nd1[n] = node'[n]
    BY <1>6
  <2>2. new1.parent = u /\ \A y \in {"l", "r"} : new1[y] = IF y = Way(g, t) THEN t ELSE NULL
    <3>1. \A y \in {"l", "r"} : y = Way(g, t) <=> y # b BY <1>6, <1>12
    <3>2. new1.parent = u /\ new1["l"] = (IF b = "l" THEN NULL ELSE t)
          /\ new1["r"] = IF b = "r" THEN NULL ELSE t
      OBVIOUS
    <3> HIDE DEF new1
    <3> QED BY <1>12, <3>1, <3>2
  <2> HIDE DEF new1, nd1
  <2>3. h = IF u = NULL THEN g ELSE head BY <1>10
  <2>4. \A n \in DOMAIN node : nd1[n].parent = IF n = t THEN g ELSE node[n].parent BY <1>21, <2>1
  <2>5. \A n \in DOMAIN node, y \in {"l", "r"} :
           nd1[n][y] = IF n = u /\ y = Way(u, t) THEN g ELSE node[n][y]
    BY <1>21, <2>1
  <2>6. /\ t \in DOMAIN node /\ g \in Bits /\ g \notin DOMAIN node /\ Covers(g, t)
        /\ node[t].parent = u /\ (u = NULL \/ Len(u) < Len(g)) /\ nd1[g].parent = u
        /\ DOMAIN node \subseteq Bits /\ Tree(node, head, {}, {})
        /\ DOMAIN nd1 = DOMAIN node \cup {g}
    BY <1>2, <1>4, <1>6, <1>18, <2>1, <2>2
  <2>7. \A y \in {"l", "r"} : nd1[g][y] = IF y = Way(g, t) THEN t ELSE NULL BY <2>1, <2>2
  <2> HIDE DEF h
  <2>8. Tree(nd1, h, {}, {}) BY <2>3, <2>4, <2>5, <2>6, <2>7, ParentTree
  <2>9. /\ DOMAIN nd1 \subseteq Bits /\ g \in DOMAIN nd1 /\ p \in Bits /\ p \notin DOMAIN nd1
        /\ Covers(g, p) /\ DOMAIN node' = DOMAIN nd1 \cup {p}
        /\ node'[p].parent = g /\ node'[p]["l"] = NULL /\ node'[p]["r"] = NULL
    BY <1>2, <1>4, <1>6, <1>13, <1>19, <1>20, <2>1
  <2>10. nd1[g][Way(g, p)] = NULL BY <1>6, <1>12, <2>7
  <2>11. \A n \in DOMAIN nd1 : node'[n].parent = nd1[n].parent BY <1>20, <2>1, <2>2
  <2>12. \A n \in DOMAIN nd1, y \in {"l", "r"} :
            node'[n][y] = IF n = g /\ y = Way(g, p) THEN p ELSE nd1[n][y]
    <3> TAKE n \in DOMAIN nd1, y \in {"l", "r"}
    <3>1. CASE n = g
      <4>1. y # b => y = Way(g, t) BY <1>6, <1>12
      <4> QED BY <1>12, <1>20, <2>7, <3>1, <4>1
    <3>2. CASE n # g BY <2>1, <3>2
    <3> QED BY <3>1, <3>2
  <2>13. Tree(node', h, {}, {}) BY <2>8, <2>9, <2>10, <2>11, <2>12, ChildTree
  <2> QED BY <2>13 DEF h
<1>23. \A n \in DOMAIN node :
          /\ NodeOK(n, node'[n]) /\ Full(node'[n]) /\ node'[n].data = node[n].data
          /\ node[n].prefix # NULL => node'[n].prefix # NULL
  <2> TAKE n \in DOMAIN node
  <2>1. NodeOK(n, node[n]) /\ Full(node[n]) BY <1>1, InsertFact
  <2>2. NodeOK(n, node'[n]) BY <1>21, <2>1 DEF NodeOK
  <2>3. Full(node'[n]) BY <1>14, <1>21, <2>1 DEF Full
  <2> QED BY <1>21, <2>2, <2>3
<1>24. NodeOK(p, node'[p]) /\ Full(node'[p]) /\ NodeOK(g, node'[g]) /\ Full(node'[g])
  BY <1>14, <1>20 DEF NodeOK, Full
<1>25. head' \in Link BY <1>10, <1>14 DEF WriteInv
<1> DEFINE new == {p, g}
<1>26. IsFiniteSet(new) /\ Cardinality(new) = 2
  <2>1. IsFiniteSet({p}) /\ Cardinality({p}) = 1 BY FS_Singleton
  <2> DEFINE S == {p}
  <2>2. IsFiniteSet(S) /\ Cardinality(S) = 1 /\ g \notin S /\ new = S \cup {g} BY <1>6, <2>1
  <2> HIDE DEF S, new
  <2>3. IsFiniteSet(S \cup {g}) /\ Cardinality(S \cup {g}) = 1 + 1 BY <2>2, FS_AddElement
  <2> QED BY <2>2, <2>3
<1>27. /\ new \in SUBSET Bits /\ new \cap DOMAIN node = {} /\ DOMAIN node' = DOMAIN node \cup new
       /\ num_active_node' = num_active_node + Cardinality(new)
       /\ \A n \in new : NodeOK(n, node'[n]) /\ Full(node'[n]) /\ node'[n].data = NULL
       /\ p \in DOMAIN node' /\ node'[p].prefix # NULL
  BY <1>1, <1>2, <1>4, <1>6, <1>13, <1>14, <1>19, <1>20, <1>24, <1>26
<1> HIDE DEF new
<1> QED BY <1>1, <1>8, <1>22, <1>23, <1>25, <1>26, <1>27, InsertIntro

\* The rest of sfmc_fib_insert stores the data.
LEMMA InsertDataStep ==
    ASSUME WriteInv, InsertData
    PROVE  WriteInv' /\ Grows /\ w'.op = "idle"
<1>1. /\ w.op = "data" /\ w' = Idle
      /\ head' = head /\ num_active_node' = num_active_node /\ asserts' = asserts
  BY DEF InsertData
<1>2. w.pn \in Prefix /\ w.pn \in DOMAIN node /\ node[w.pn].prefix # NULL
  BY <1>1 DEF WriteInv, WriterInv
<1> DEFINE p == w.pn
<1>3. p \in Bits /\ p # NULL /\ NodeOK(p, node[p]) /\ node[p] \in Node /\ p \in Link
  BY <1>2, PrefixAssumption DEF WriteInv, NodeOK, Link
<1>4. Tree(node, head, {}, {}) BY <1>1 DEF WriteInv, TreeInv
<1>5. w' \in Writer /\ w'.op = "idle" BY <1>1 DEF Idle, Writer, Link
<1>6. WriterInv' BY <1>5 DEF WriterInv
<1>7. \A n \in DOMAIN node : NodeOK(n, node[n]) /\ Full(node[n]) BY <1>1 DEF WriteInv
<1>8. CASE node[p].data # NULL
  <2>1. node' = node /\ routes' = routes BY <1>8 DEF InsertData
  <2>2. TreeInv' BY <1>1, <1>4, <1>5, <2>1 DEF TreeInv
  <2>3. WriteInv' BY <1>1, <1>5, <1>6, <2>1, <2>2, <1>7 DEF WriteInv
  <2> QED BY <1>5, <2>1, <2>3 DEF Grows
<1>9. CASE node[p].data = NULL
  <2>1. node' = [node EXCEPT ![p].data = p] /\ routes' = routes \cup {p}
    BY <1>9 DEF InsertData, Watch
  <2>2. /\ DOMAIN node' = DOMAIN node /\ node'[p] = [node[p] EXCEPT !.data = p]
        /\ \A n \in DOMAIN node : n # p => node'[n] = node[n]
    BY <1>2, <2>1
  <2> HIDE DEF p
  <2>3. /\ node'[p] \in Node /\ node'[p].bit = node[p].bit /\ node'[p].prefix = node[p].prefix
        /\ node'[p].data = p /\ node'[p].parent = node[p].parent
        /\ \A b \in {"l", "r"} : node'[p][b] = node[p][b]
    BY <1>3, <2>2 DEF Node
  <2>4. Tree(node', head, {}, {})
    <3>1. \A n \in DOMAIN node : node'[n].parent = node[n].parent BY <2>2, <2>3
    <3>2. \A n \in DOMAIN node, b \in {"l", "r"} : node'[n][b] = node[n][b] BY <2>2, <2>3
    <3> QED BY <1>4, <2>2, <3>1, <3>2, SameTree
  <2>5. TreeInv' BY <1>1, <1>5, <2>4 DEF TreeInv
  <2>6. p \in Prefix /\ p \in DOMAIN node /\ node[p].prefix # NULL BY <1>2 DEF p
  <2>7. NodeOK(p, node'[p]) /\ Full(node'[p]) BY <1>3, <2>3, <2>6 DEF NodeOK, Full
  <2>8. \A n \in DOMAIN node' : NodeOK(n, node'[n]) /\ Full(node'[n]) BY <1>7, <2>2, <2>7
  <2>9. routes' = {n \in DOMAIN node' : node'[n].data # NULL} /\ routes' \subseteq Prefix
    BY <1>3, <2>1, <2>2, <2>3, <2>6 DEF WriteInv, p
  <2>10. IsFiniteSet(DOMAIN node') /\ num_active_node' = Cardinality(DOMAIN node')
         /\ DOMAIN node' \subseteq Bits /\ head' \in Link /\ asserts' = TRUE
    BY <1>1, <2>2 DEF WriteInv
  <2>11. WriteInv' BY <1>5, <1>6, <2>5, <2>8, <2>9, <2>10 DEF WriteInv
  <2>12. Grows BY <2>2, <2>3 DEF Grows
  <2> QED BY <1>5, <2>11, <2>12
<1> QED BY <1>8, <1>9

(***************************************************************************)
(* The steps of patricia_remove.                                           *)
(***************************************************************************)
\* A removal finds the node of its prefix.
LEMMA RemovesFact ==
    ASSUME WriteInv, rd \in Search, NEW p \in Prefix, Removes(p)
    PROVE  /\ Calm /\ w.op = "idle" /\ SearchExact(p) = p
           /\ p \in DOMAIN node /\ p \in Bits /\ p # NULL
           /\ DOMAIN node \subseteq Bits /\ NULL \notin DOMAIN node
           /\ Tree(node, head, {}, {}) /\ Links(node, head, {})
           /\ \A n \in DOMAIN node : NodeOK(n, node[n]) /\ Full(node[n]) /\ node[n] \in Node
<1>1. Calm /\ w.op = "idle" /\ p \in Bits BY CalmIntro, PrefixAssumption DEF Removes
<1>2. SearchExact(p) = IF p \in DOMAIN node /\ node[p].prefix # NULL THEN p ELSE NULL
  BY <1>1, ExactFact
<1>3. SearchExact(p) # NULL BY DEF Removes, FindExact
<1>4. SearchExact(p) = p /\ p \in DOMAIN node BY <1>2, <1>3
<1>5. \A n \in DOMAIN node : NodeOK(n, node[n]) /\ Full(node[n]) /\ node[n] \in Node
  BY <1>1 DEF WriteInv, NodeOK
<1> QED BY <1>1, <1>4, <1>5, CalmFact, PrefixAssumption DEF Calm

\* A node with two children becomes a glue node.
LEMMA RemoveInnerStep ==
    ASSUME WriteInv, rd \in Search, NEW p \in Prefix, RemoveInner(p)
    PROVE  WriteInv' /\ DOMAIN node' = DOMAIN node
<1>1. /\ Removes(p) /\ head' = head /\ num_active_node' = num_active_node /\ w' = w
      /\ asserts' = asserts /\ routes' = routes \ {p}
  BY DEF RemoveInner, Watch
<1>2. /\ w.op = "idle" /\ SearchExact(p) = p /\ p \in DOMAIN node /\ p \in Bits /\ p # NULL
      /\ Tree(node, head, {}, {})
      /\ \A n \in DOMAIN node : NodeOK(n, node[n]) /\ Full(node[n]) /\ node[n] \in Node
  BY <1>1, RemovesFact
<1>3. node[p]["l"] # NULL /\ node[p]["r"] # NULL BY <1>2 DEF RemoveInner, Node
<1>4. /\ DOMAIN node' = DOMAIN node
      /\ node'[p] = [node[p] EXCEPT !.prefix = NULL, !.data = NULL]
      /\ \A n \in DOMAIN node : n # p => node'[n] = node[n]
  BY <1>2 DEF RemoveInner
<1>5. /\ node'[p] \in Node /\ node'[p].bit = node[p].bit /\ node'[p].prefix = NULL
      /\ node'[p].data = NULL /\ node'[p].parent = node[p].parent
      /\ \A b \in {"l", "r"} : node'[p][b] = node[p][b]
  BY <1>2, <1>4 DEF Node, Link
<1>6. Tree(node', head, {}, {})
  <2>1. \A n \in DOMAIN node : node'[n].parent = node[n].parent BY <1>4, <1>5
  <2>2. \A n \in DOMAIN node, b \in {"l", "r"} : node'[n][b] = node[n][b] BY <1>4, <1>5
  <2> QED BY <1>2, <1>4, <2>1, <2>2, SameTree
<1>7. TreeInv' BY <1>1, <1>2, <1>6 DEF TreeInv
<1>8. WriterInv' BY <1>1, <1>2 DEF WriterInv
<1>9. NodeOK(p, node'[p]) /\ Full(node'[p]) BY <1>2, <1>3, <1>5 DEF NodeOK, Full
<1>10. \A n \in DOMAIN node' : NodeOK(n, node'[n]) /\ Full(node'[n]) BY <1>2, <1>4, <1>9
<1>11. routes' = {n \in DOMAIN node' : node'[n].data # NULL} /\ routes' \subseteq Prefix
  BY <1>1, <1>4, <1>5 DEF WriteInv
<1>12. IsFiniteSet(DOMAIN node') /\ num_active_node' = Cardinality(DOMAIN node')
       /\ DOMAIN node' \subseteq Bits /\ head' \in Link /\ asserts' = TRUE /\ w' \in Writer
  BY <1>1, <1>4 DEF WriteInv
<1> QED BY <1>4, <1>7, <1>8, <1>10, <1>11, <1>12 DEF WriteInv

\* Node p is freed; c, its child if it has one, gets its parent u.
Frees(p, u, c) ==
    /\ node[p].parent = u /\ (c = NULL \/ c \in DOMAIN node)
    /\ \A b \in {"l", "r"} : node[p][b] \in {NULL, c}
    /\ c # NULL => \E b \in {"l", "r"} : node[p][b] = c
    /\ DOMAIN node' = DOMAIN node \ {p}
    /\ \A n \in DOMAIN node' :
          /\ node'[n] \in Node /\ node'[n].bit = node[n].bit /\ node'[n].prefix = node[n].prefix
          /\ node'[n].data = node[n].data /\ node'[n].parent = (IF n = c THEN u ELSE node[n].parent)
          /\ \A b \in {"l", "r"} : node'[n][b] = node[n][b]
    /\ w' = [op |-> IF c = NULL THEN "unlink" ELSE "relink", pn |-> p, up |-> u, child |-> c]
    /\ head' = head /\ asserts' = asserts /\ num_active_node' = num_active_node - 1
    /\ routes' = routes \ {p}

\* What such a step leaves.
LEMMA FreeIntro ==
    ASSUME WriteInv, rd \in Search, NEW p \in Prefix, Removes(p), NEW u, NEW c, Frees(p, u, c)
    PROVE  WriteInv'
<1>1. /\ p \in DOMAIN node /\ p \in Bits /\ p # NULL
      /\ DOMAIN node \subseteq Bits /\ NULL \notin DOMAIN node
      /\ Tree(node, head, {}, {})
      /\ \A n \in DOMAIN node : NodeOK(n, node[n]) /\ Full(node[n]) /\ node[n] \in Node
  BY RemovesFact
<1>2. Freed(node', head, p, u, c)
  <2>1. \A n \in DOMAIN node' : node'[n].parent = IF n = c THEN u ELSE node[n].parent BY DEF Frees
  <2>2. \A n \in DOMAIN node', b \in {"l", "r"} : node'[n][b] = node[n][b] BY DEF Frees
  <2>3. node[p].parent = u BY DEF Frees
  <2>4. c = NULL \/ c \in DOMAIN node BY DEF Frees
  <2>5. DOMAIN node' = DOMAIN node \ {p} BY DEF Frees
  <2>6. \A b \in {"l", "r"} : node[p][b] \in {NULL, c} BY DEF Frees
  <2>7. c # NULL => \E b \in {"l", "r"} : node[p][b] = c BY DEF Frees
  <2>8. p \in DOMAIN node /\ DOMAIN node \subseteq Bits /\ Tree(node, head, {}, {}) BY <1>1
  <2>9. CanFree(node, head, p, u, c, node') BY <2>1, <2>2, <2>3, <2>4, <2>5, <2>6, <2>7, <2>8 DEF CanFree
  <2> QED BY <2>9, FreeTree
<1>3. u \in Link /\ c \in Link /\ p \in Link BY <1>1 DEF Node, Link, Frees
<1>4. /\ w' \in Writer /\ w'.op \in {"unlink", "relink"} /\ w'.pn = p /\ w'.up = u /\ w'.child = c
      /\ w'.op = "unlink" => c = NULL
      /\ w'.op = "relink" => c # NULL
  BY <1>3 DEF Writer, Frees
<1>5. TreeInv' BY <1>2, <1>4 DEF TreeInv, Frees, Freed
<1>6. Loose' BY <1>1, <1>2, <1>4 DEF Loose, Frees, Freed
<1>7. WriterInv' BY <1>4, <1>6 DEF WriterInv
<1>8. \A n \in DOMAIN node' : NodeOK(n, node'[n]) /\ Full(node'[n])
  <2> TAKE n \in DOMAIN node'
  <2>1. NodeOK(n, node[n]) /\ Full(node[n]) BY <1>1 DEF Frees
  <2>2. NodeOK(n, node'[n]) BY <2>1 DEF NodeOK, Frees
  <2>3. Full(node'[n]) BY <2>1 DEF Full, Frees
  <2> QED BY <2>2, <2>3
<1>9. routes' = {n \in DOMAIN node' : node'[n].data # NULL} /\ routes' \subseteq Prefix
  BY DEF WriteInv, Frees
<1>10. IsFiniteSet(DOMAIN node') /\ num_active_node' = Cardinality(DOMAIN node')
  <2> DEFINE S == DOMAIN node
  <2>1. IsFiniteSet(S) /\ num_active_node = Cardinality(S) /\ p \in S BY <1>1 DEF WriteInv
  <2>2. DOMAIN node' = S \ {p} BY DEF Frees
  <2> HIDE DEF S
  <2>3. IsFiniteSet(S \ {p}) /\ Cardinality(S \ {p}) = Cardinality(S) - 1 BY <2>1, FS_RemoveElement
  <2> QED BY <2>1, <2>2, <2>3 DEF Frees
<1>11. DOMAIN node' \subseteq Bits /\ head' \in Link /\ asserts' = TRUE BY <1>1 DEF WriteInv, Frees
<1> QED BY <1>4, <1>5, <1>7, <1>8, <1>9, <1>10, <1>11 DEF WriteInv

\* A leaf is freed; the link to it is still there.
LEMMA RemoveLeafStep ==
    ASSUME WriteInv, rd \in Search, NEW p \in Prefix, RemoveLeaf(p)
    PROVE  WriteInv' /\ DOMAIN node' = DOMAIN node \ {p}
<1>1. Removes(p) /\ head' = head /\ num_active_node' = num_active_node - 1
      /\ asserts' = asserts /\ routes' = routes \ {p}
  BY DEF RemoveLeaf, Watch
<1>2. /\ SearchExact(p) = p /\ p \in DOMAIN node /\ NULL \notin DOMAIN node
      /\ \A n \in DOMAIN node : node[n] \in Node
  BY <1>1, RemovesFact
<1>3. node[p]["l"] = NULL /\ node[p]["r"] = NULL BY <1>2 DEF RemoveLeaf
<1>4. DOMAIN node' = DOMAIN node \ {p} /\ \A n \in DOMAIN node' : node'[n] = node[n]
  BY <1>2 DEF RemoveLeaf, Without
<1> DEFINE u == node[p].parent
           c == NULL
<1>5. w' = [op |-> "unlink", pn |-> p, up |-> u, child |-> c] BY <1>2 DEF RemoveLeaf
<1>6. /\ u = node[p].parent /\ c = NULL /\ \A b \in {"l", "r"} : node[p][b] \in {NULL, c} BY <1>3
<1>7. \A n \in DOMAIN node' :
          /\ node'[n] \in Node /\ node'[n].bit = node[n].bit /\ node'[n].prefix = node[n].prefix
          /\ node'[n].data = node[n].data /\ node'[n].parent = (IF n = c THEN u ELSE node[n].parent)
          /\ \A b \in {"l", "r"} : node'[n][b] = node[n][b]
  BY <1>2, <1>4
<1>8. w' = [op |-> IF c = NULL THEN "unlink" ELSE "relink", pn |-> p, up |-> u, child |-> c] BY <1>5
<1> HIDE DEF u, c
<1>9. Frees(p, u, c) BY <1>1, <1>4, <1>6, <1>7, <1>8 DEF Frees
<1> QED BY <1>1, <1>4, <1>9, FreeIntro

\* A node with one child is freed; the link to it is still there.
LEMMA RemoveChainStep ==
    ASSUME WriteInv, rd \in Search, NEW p \in Prefix, RemoveChain(p)
    PROVE  WriteInv' /\ DOMAIN node' = DOMAIN node \ {p}
<1>1. Removes(p) /\ head' = head /\ num_active_node' = num_active_node - 1
      /\ asserts' = asserts /\ routes' = routes \ {p}
  BY DEF RemoveChain, Watch
<1>2. /\ SearchExact(p) = p /\ p \in DOMAIN node /\ p \in Bits /\ NULL \notin DOMAIN node
      /\ Links(node, head, {}) /\ DOMAIN node \subseteq Bits
      /\ \A n \in DOMAIN node : node[n] \in Node
  BY <1>1, RemovesFact
<1> DEFINE u == node[p].parent
           c == IF node[p]["r"] # NULL THEN node[p]["r"] ELSE node[p]["l"]
           e == IF node[p]["r"] # NULL THEN "r" ELSE "l"
<1>3. (node[p]["l"] = NULL) # (node[p]["r"] = NULL) BY <1>2 DEF RemoveChain
<1>4. e \in {"l", "r"} /\ node[p][e] = c /\ c # NULL /\ \A b \in {"l", "r"} : node[p][b] \in {NULL, c}
  BY <1>3
<1>5. /\ node' = Without([node EXCEPT ![c].parent = u], {p})
      /\ w' = [op |-> "relink", pn |-> p, up |-> u, child |-> c]
  BY <1>2 DEF RemoveChain
<1>6. u = node[p].parent OBVIOUS
<1> HIDE DEF c, e, u
<1>7. c \in DOMAIN node /\ c # p BY <1>2, <1>4, TreeOrder DEF Links
<1>8. /\ DOMAIN node' = DOMAIN node \ {p} /\ node'[c] = [node[c] EXCEPT !.parent = u]
      /\ \A n \in DOMAIN node' : n # c => node'[n] = node[n]
  BY <1>2, <1>5, <1>7 DEF Without
<1>9. u \in Link BY <1>2, <1>6 DEF Node
<1>10. /\ node'[c] \in Node /\ node'[c].bit = node[c].bit /\ node'[c].prefix = node[c].prefix
       /\ node'[c].data = node[c].data /\ node'[c].parent = u
       /\ \A b \in {"l", "r"} : node'[c][b] = node[c][b]
  BY <1>2, <1>7, <1>8, <1>9 DEF Node
<1>11. \A n \in DOMAIN node' :
          /\ node'[n] \in Node /\ node'[n].bit = node[n].bit /\ node'[n].prefix = node[n].prefix
          /\ node'[n].data = node[n].data /\ node'[n].parent = (IF n = c THEN u ELSE node[n].parent)
          /\ \A b \in {"l", "r"} : node'[n][b] = node[n][b]
  BY <1>2, <1>8, <1>10
<1>12. w' = [op |-> IF c = NULL THEN "unlink" ELSE "relink", pn |-> p, up |-> u, child |-> c]
  BY <1>4, <1>5
<1>13. Frees(p, u, c) BY <1>1, <1>4, <1>6, <1>7, <1>8, <1>11, <1>12 DEF Frees
<1> QED BY <1>1, <1>8, <1>13, FreeIntro

\* What the writer knows when it is about to change the link to a freed node.
LEMMA LooseFact ==
    ASSUME WriteInv, w.op \in {"unlink", "relink"}, NEW x, x = w.pn, NEW u, u = w.up, NEW c, c = w.child
    PROVE  /\ x \in Bits /\ x \notin DOMAIN node /\ u \in DOMAIN node \cup {NULL} /\ c \in Link
           /\ DOMAIN node \subseteq Bits /\ NULL \notin DOMAIN node
           /\ \A n \in DOMAIN node : NodeOK(n, node[n]) /\ Full(node[n]) /\ node[n] \in Node
           /\ u = NULL => head = x
           /\ u # NULL => node[u][Way(u, x)] = x /\ (node[u]["r"] = x <=> Way(u, x) = "r")
           /\ Links(node, head, {x})
           /\ c = NULL \/ c \in DOMAIN node
           /\ \A nw, h :
                 /\ DOMAIN nw = DOMAIN node
                 /\ \A n \in DOMAIN node : nw[n].parent = node[n].parent
                 /\ \A n \in DOMAIN node, b \in {"l", "r"} :
                       nw[n][b] = IF n = u /\ b = Way(u, x) THEN c ELSE node[n][b]
                 /\ h = IF u = NULL THEN c ELSE head
                 => CanBypass(node, head, x, u, c, nw, h)
<1>1. Loose /\ Tree(node, head, {x}, {c}) /\ DOMAIN node \subseteq Bits /\ c \in Link
      /\ \A n \in DOMAIN node : NodeOK(n, node[n]) /\ Full(node[n]) /\ node[n] \in Node
  BY DEF WriteInv, WriterInv, TreeInv, Writer, NodeOK
<1>2. /\ x \in Bits /\ x \notin DOMAIN node /\ Hangs(node, head, u, x)
      /\ \A n \in DOMAIN node, b \in {"l", "r"} : node[n][b] = x => n = u
      /\ c = NULL \/ (c \in DOMAIN node /\ Covers(x, c))
      /\ c # NULL => node[c].parent = u
      /\ \A m \in DOMAIN node : Covers(x, m) => c # NULL /\ Covers(c, m)
  <2>1. /\ x \in Bits /\ x \notin DOMAIN node /\ Hangs(node, head, u, x) BY <1>1 DEF Loose
  <2>2. \A n \in DOMAIN node, b \in {"l", "r"} : node[n][b] = x => n = u BY <1>1 DEF Loose
  <2>3. c # NULL => c \in DOMAIN node /\ Covers(x, c) /\ node[c].parent = u BY <1>1 DEF Loose
  <2>4. \A m \in DOMAIN node : Covers(x, m) => c # NULL /\ Covers(c, m) BY <1>1 DEF Loose
  <2> QED BY <2>1, <2>2, <2>3, <2>4
<1>3. Links(node, head, {x}) BY <1>1 DEF Tree
<1>4. u # NULL => u \in DOMAIN node /\ node[u][Way(u, x)] = x /\ (node[u]["r"] = x <=> Way(u, x) = "r")
  BY <1>1, <1>2, <1>3, LinkFact
<1>5. u = NULL => head = x BY <1>2 DEF Hangs
<1>6. NULL \notin DOMAIN node BY <1>1, PrefixAssumption
<1>7. ASSUME NEW nw, NEW h, DOMAIN nw = DOMAIN node,
             \A n \in DOMAIN node : nw[n].parent = node[n].parent,
             \A n \in DOMAIN node, b \in {"l", "r"} :
                 nw[n][b] = IF n = u /\ b = Way(u, x) THEN c ELSE node[n][b],
             h = IF u = NULL THEN c ELSE head
      PROVE  CanBypass(node, head, x, u, c, nw, h)
  BY <1>1, <1>2, <1>7 DEF CanBypass
<1> QED BY <1>1, <1>2, <1>3, <1>4, <1>5, <1>6, <1>7

\* Nodes and what is stored in them stay; only links change.
Keeps ==
    /\ DOMAIN node' = DOMAIN node
    /\ \A n \in DOMAIN node : node'[n].prefix = node[n].prefix /\ node'[n].data = node[n].data

\* Such a step changes neither the routes nor the number of nodes.
LEMMA KeepsFact ==
    ASSUME WriteInv, Keeps, routes' = routes, num_active_node' = num_active_node
    PROVE  /\ routes' = {n \in DOMAIN node' : node'[n].data # NULL} /\ routes' \subseteq Prefix
           /\ IsFiniteSet(DOMAIN node') /\ num_active_node' = Cardinality(DOMAIN node')
           /\ DOMAIN node' \subseteq Bits
BY DEF WriteInv, Keeps

\* The link to the freed node becomes a link to its child.
LEMMA RelinkStep ==
    ASSUME WriteInv, Relink
    PROVE  WriteInv' /\ Keeps /\ w'.op = "idle"
<1>1. w.op = "relink" /\ num_active_node' = num_active_node /\ routes' = routes /\ w' = Idle
  BY DEF Relink
<1> DEFINE x == w.pn
           u == w.up
           c == w.child
<1>2. head' = (IF u = NULL THEN c ELSE head) /\ node' = Relinked(node, u, x, c) BY DEF Relink
<1>3. /\ x \in Bits /\ x \notin DOMAIN node /\ u \in DOMAIN node \cup {NULL} /\ c \in Link
      /\ DOMAIN node \subseteq Bits /\ NULL \notin DOMAIN node
      /\ \A n \in DOMAIN node : NodeOK(n, node[n]) /\ Full(node[n]) /\ node[n] \in Node
      /\ u = NULL => head = x
      /\ u # NULL => node[u][Way(u, x)] = x /\ (node[u]["r"] = x <=> Way(u, x) = "r")
      /\ \A nw, h :
            /\ DOMAIN nw = DOMAIN node
            /\ \A n \in DOMAIN node : nw[n].parent = node[n].parent
            /\ \A n \in DOMAIN node, b \in {"l", "r"} :
                  nw[n][b] = IF n = u /\ b = Way(u, x) THEN c ELSE node[n][b]
            /\ h = IF u = NULL THEN c ELSE head
            => CanBypass(node, head, x, u, c, nw, h)
  BY <1>1, LooseFact
<1>4. c # NULL BY <1>1 DEF WriteInv, WriterInv
<1>5. asserts' = TRUE
  <2>1. u # NULL => x \in {node[u]["l"], node[u]["r"]} BY <1>3, WayType
  <2> QED BY <1>3, <2>1 DEF Relink, Check, WriteInv
<1> HIDE DEF x, u, c
<1>6. /\ DOMAIN node' = DOMAIN node
      /\ \A n \in DOMAIN node :
            /\ node'[n] \in Node /\ node'[n].bit = node[n].bit /\ node'[n].parent = node[n].parent
            /\ node'[n].prefix = node[n].prefix /\ node'[n].data = node[n].data
      /\ \A n \in DOMAIN node, b \in {"l", "r"} :
            node'[n][b] = IF n = u /\ b = Way(u, x) THEN c ELSE node[n][b]
  <2>1. u # NULL => u \in DOMAIN node /\ (node[u]["r"] = x <=> Way(u, x) = "r") BY <1>3
  <2>2. NULL \notin DOMAIN node /\ (\A n \in DOMAIN node : node[n] \in Node) /\ c \in Link BY <1>3
  <2> QED BY <1>2, <2>1, <2>2, RelinkFact
<1>7. Tree(node', head', {}, {})
  <2> DEFINE h == head'
  <2>1. h = IF u = NULL THEN c ELSE head BY <1>2
  <2> HIDE DEF h
  <2>2. CanBypass(node, head, x, u, c, node', h) BY <1>3, <1>6, <2>1
  <2>3. Tree(node', h, {}, {}) BY <2>2, BypassTree
  <2> QED BY <2>3 DEF h
<1>8. w' \in Writer /\ w'.op = "idle" BY <1>1 DEF Idle, Writer, Link
<1>9. TreeInv' /\ WriterInv' BY <1>7, <1>8 DEF TreeInv, WriterInv
<1>10. \A n \in DOMAIN node' : NodeOK(n, node'[n]) /\ Full(node'[n])
  <2> TAKE n \in DOMAIN node'
  <2>1. n \in DOMAIN node /\ NodeOK(n, node[n]) /\ Full(node[n]) BY <1>3, <1>6
  <2>2. NodeOK(n, node'[n]) BY <1>6, <2>1 DEF NodeOK
  <2>3. Full(node'[n]) BY <1>4, <1>6, <2>1 DEF Full
  <2> QED BY <2>2, <2>3
<1>11. Keeps BY <1>6 DEF Keeps
<1>12. head' \in Link BY <1>2, <1>3 DEF WriteInv
<1> QED BY <1>1, <1>5, <1>8, <1>9, <1>10, <1>11, <1>12, KeepsFact DEF WriteInv

\* The link to the freed leaf is cleared; a parent without prefix is to go as well.
LEMMA UnlinkStep ==
    ASSUME WriteInv, Unlink
    PROVE  WriteInv' /\ Keeps
<1>1. w.op = "unlink" /\ num_active_node' = num_active_node /\ routes' = routes
  BY DEF Unlink
<1> DEFINE x == w.pn
           u == w.up
           c == w.child
           b == Way(u, x)
           o == IF b = "r" THEN "l" ELSE "r"
<1>2. /\ x \in Bits /\ x \notin DOMAIN node /\ u \in DOMAIN node \cup {NULL} /\ c \in Link
      /\ DOMAIN node \subseteq Bits /\ NULL \notin DOMAIN node
      /\ \A n \in DOMAIN node : NodeOK(n, node[n]) /\ Full(node[n]) /\ node[n] \in Node
      /\ u = NULL => head = x
      /\ u # NULL => node[u][Way(u, x)] = x /\ (node[u]["r"] = x <=> Way(u, x) = "r")
      /\ Links(node, head, {x})
      /\ \A nw, h :
            /\ DOMAIN nw = DOMAIN node
            /\ \A n \in DOMAIN node : nw[n].parent = node[n].parent
            /\ \A n \in DOMAIN node, y \in {"l", "r"} :
                  nw[n][y] = IF n = u /\ y = Way(u, x) THEN c ELSE node[n][y]
            /\ h = IF u = NULL THEN c ELSE head
            => CanBypass(node, head, x, u, c, nw, h)
  BY <1>1, LooseFact
<1>3. c = NULL BY <1>1 DEF WriteInv, WriterInv
<1>4. b \in {"l", "r"} /\ b = Way(u, x) BY WayType
<1>5. CASE u = NULL
  <2>1. head' = NULL /\ w' = Idle /\ node' = node BY <1>5 DEF Unlink
  <2>2. asserts' = TRUE BY <1>2, <1>5 DEF Unlink, Check, WriteInv
  <2>3. Tree(node', head', {}, {})
    <3> DEFINE h == head'
    <3> HIDE DEF x, u, c, b
    <3>1. h = IF u = NULL THEN c ELSE head BY <1>3, <1>5, <2>1
    <3> HIDE DEF h
    <3>2. CanBypass(node, head, x, u, c, node', h) BY <1>2, <1>5, <2>1, <3>1
    <3>3. Tree(node', h, {}, {}) BY <3>2, BypassTree
    <3> QED BY <3>3 DEF h
  <2>4. w' \in Writer /\ w'.op = "idle" BY <2>1 DEF Idle, Writer, Link
  <2>5. TreeInv' /\ WriterInv' BY <2>3, <2>4 DEF TreeInv, WriterInv
  <2>6. Keeps BY <2>1 DEF Keeps
  <2>7. head' \in Link BY <2>1 DEF Link
  <2>8. \A n \in DOMAIN node' : NodeOK(n, node'[n]) /\ Full(node'[n]) BY <1>2, <2>1
  <2> QED BY <1>1, <2>2, <2>4, <2>5, <2>6, <2>7, <2>8, KeepsFact DEF WriteInv
<1>6. CASE u # NULL
  <2>1. u \in DOMAIN node /\ u \in Bits /\ node[u] \in Node /\ node[u][b] = x BY <1>2, <1>6
  <2>2. (IF node[u]["r"] = x THEN "r" ELSE "l") = b /\ (IF node[u]["r"] = x THEN "l" ELSE "r") = o
    BY <1>2, <1>4, <1>6
  <2>3. /\ node' = [node EXCEPT ![u] = [@ EXCEPT ![b] = NULL]] /\ head' = head
        /\ w' = IF node[u].prefix # NULL THEN Idle
                ELSE [op |-> "splice", pn |-> u, up |-> node[u].parent, child |-> node[u][o]]
        /\ asserts' = (asserts /\ node[u][b] = x)
    BY <1>6, <2>2 DEF Unlink, Useless, Check
  <2>4. asserts' = TRUE BY <2>1, <2>3 DEF WriteInv
  <2>5. o \in {"l", "r"} /\ o # b /\ \A y \in {"l", "r"} : y # b => y = o BY <1>4
  <2> HIDE DEF x, u, c, b, o
  <2>6. /\ DOMAIN node' = DOMAIN node /\ node'[u] = [node[u] EXCEPT ![b] = NULL]
        /\ \A n \in DOMAIN node : n # u => node'[n] = node[n]
    BY <2>1, <2>3
  <2>7. /\ node'[u] \in Node /\ node'[u].bit = node[u].bit /\ node'[u].prefix = node[u].prefix
        /\ node'[u].parent = node[u].parent /\ node'[u].data = node[u].data
        /\ \A y \in {"l", "r"} : node'[u][y] = IF y = b THEN NULL ELSE node[u][y]
    <3>1. NULL \in Link BY DEF Link
    <3>2. CASE b = "l" BY <2>1, <2>6, <3>1, <3>2 DEF Node
    <3>3. CASE b = "r" BY <2>1, <2>6, <3>1, <3>3 DEF Node
    <3> QED BY <1>4, <3>2, <3>3
  <2>8. Tree(node', head', {}, {})
    <3> DEFINE h == head'
    <3>1. h = IF u = NULL THEN c ELSE head BY <1>6, <2>3
    <3> HIDE DEF h
    <3>2. \A n \in DOMAIN node : node'[n].parent = node[n].parent BY <2>6, <2>7
    <3>3. \A n \in DOMAIN node, y \in {"l", "r"} :
             node'[n][y] = IF n = u /\ y = Way(u, x) THEN c ELSE node[n][y]
      BY <1>3, <1>4, <2>6, <2>7
    <3>4. CanBypass(node, head, x, u, c, node', h) BY <1>2, <2>6, <3>1, <3>2, <3>3
    <3>5. Tree(node', h, {}, {}) BY <3>4, BypassTree
    <3> QED BY <3>5 DEF h
  <2>9. Keeps BY <2>6, <2>7 DEF Keeps
  <2>10. \A n \in DOMAIN node' : NodeOK(n, node'[n])
    <3>1. NodeOK(u, node'[u]) BY <1>2, <2>1, <2>7 DEF NodeOK
    <3> QED BY <1>2, <2>6, <3>1
  <2>11. \A n \in DOMAIN node' : n # u => Full(node'[n]) BY <1>2, <2>6
  <2>12. head' \in Link BY <2>3 DEF WriteInv
  <2>13. CASE node[u].prefix # NULL
    <3>1. w' \in Writer /\ w'.op = "idle" BY <2>3, <2>13 DEF Idle, Writer, Link
    <3>2. TreeInv' /\ WriterInv' BY <2>8, <3>1 DEF TreeInv, WriterInv
    <3>3. Full(node'[u]) BY <2>7, <2>13 DEF Full
    <3>4. \A n \in DOMAIN node' : Full(node'[n]) BY <2>11, <3>3
    <3>5. WriteInv'
      BY <1>1, <2>4, <2>9, <2>10, <2>12, <3>1, <3>2, <3>4, KeepsFact DEF WriteInv
    <3> QED BY <2>9, <3>5
  <2>14. CASE node[u].prefix = NULL
    <3> DEFINE k == node[u][o]
    <3>1. k # NULL BY <1>2, <2>1, <2>5, <2>14 DEF Full
    <3>2. k \in DOMAIN node
      <4>1. k \in DOMAIN node \cup {x} /\ o = Way(u, k) BY <1>2, <2>1, <2>5, <3>1 DEF Links, Below
      <4>2. k # x BY <1>4, <2>5, <4>1
      <4> QED BY <4>1, <4>2
    <3>3. /\ w' \in Writer /\ w'.op = "splice" /\ w'.pn = u /\ w'.up = node[u].parent /\ w'.child = k
      <4>1. k \in Link /\ u \in Link /\ node[u].parent \in Link BY <1>2, <2>1, <3>2 DEF Link, Node
      <4>2. w' = [op |-> "splice", pn |-> u, up |-> node[u].parent, child |-> k] BY <2>3, <2>14
      <4> HIDE DEF k
      <4> QED BY <4>1, <4>2 DEF Writer
    <3>4. TreeInv' BY <2>8, <3>3 DEF TreeInv
    <3>5. {node'[u]["l"], node'[u]["r"]} = {NULL, k}
      <4>1. node'[u][b] = NULL /\ node'[u][o] = k BY <1>4, <2>5, <2>7
      <4> HIDE DEF k
      <4>2. CASE b = "l" BY <2>5, <4>1, <4>2
      <4>3. CASE b = "r" BY <2>5, <4>1, <4>3
      <4> QED BY <1>4, <4>2, <4>3
    <3> HIDE DEF k
    <3>6. WriterInv' BY <2>1, <2>6, <2>7, <2>14, <3>2, <3>3, <3>5 DEF WriterInv
    <3>7. \A n \in DOMAIN node' : ~(w'.op = "splice" /\ w'.pn = n) => Full(node'[n]) BY <2>11, <3>3
    <3>8. WriteInv'
      BY <1>1, <2>4, <2>9, <2>10, <2>12, <3>3, <3>4, <3>6, <3>7, KeepsFact DEF WriteInv
    <3> QED BY <2>9, <3>8
  <2> QED BY <2>13, <2>14
<1> QED BY <1>5, <1>6

\* A glue node with one child is bypassed and freed.
LEMMA SpliceStep ==
    ASSUME WriteInv, Splice
    PROVE  WriteInv' /\ DOMAIN node' = DOMAIN node \ {w.pn} /\ w'.op = "idle"
<1>1. /\ w.op = "splice" /\ num_active_node' = num_active_node - 1 /\ routes' = routes /\ w' = Idle
  BY DEF Splice, Watch
<1> DEFINE x == w.pn
           u == w.up
           c == w.child
           nd0 == [node EXCEPT ![c].parent = u]
           nx == Relinked(nd0, u, x, c)
<1>2. head' = (IF u = NULL THEN c ELSE head) /\ node' = Without(nx, {x}) BY DEF Splice
<1>3. /\ x \in DOMAIN node /\ c \in DOMAIN node /\ node[x].prefix = NULL /\ node[x].parent = u
      /\ {node[x]["l"], node[x]["r"]} = {NULL, c}
  BY <1>1 DEF WriteInv, WriterInv
<1>4. /\ DOMAIN node \subseteq Bits /\ Tree(node, head, {}, {})
      /\ \A n \in DOMAIN node : NodeOK(n, node[n]) /\ node[n] \in Node
      /\ \A n \in DOMAIN node : n # x => Full(node[n])
  BY <1>1 DEF WriteInv, TreeInv, NodeOK
<1>5. x = w.pn OBVIOUS
<1>6. asserts' = (asserts /\ (c # NULL /\ IF u = NULL THEN head = x ELSE x \in {node[u].l, node[u].r}))
  BY DEF Splice, Check
<1>7. nd0 = [node EXCEPT ![c].parent = u] /\ nx = Relinked(nd0, u, x, c) OBVIOUS
<1> HIDE DEF x, u, c, nd0, nx
<1>8. NULL \notin DOMAIN node /\ x \in Bits /\ c # NULL /\ x # NULL /\ c \in Link /\ u \in Link
      /\ c \in Bits /\ x \in Link
  BY <1>3, <1>4, PrefixAssumption DEF Link, Node
<1>9. Links(node, head, {}) /\ Parents(node, head, {}) BY <1>4 DEF Tree
<1>10. PICK e \in {"l", "r"} : node[x][e] = c BY <1>3
<1>11. Covers(x, c) /\ c # x BY <1>3, <1>4, <1>8, <1>9, <1>10, TreeOrder
<1>12. Hangs(node, head, u, x) BY <1>3, <1>9 DEF Parents
<1>13. u = NULL => head = x BY <1>12 DEF Hangs
<1>14. ASSUME u # NULL
       PROVE  /\ u \in DOMAIN node /\ u # x /\ node[u][Way(u, x)] = x
              /\ node[u]["r"] = x <=> Way(u, x) = "r"
  <2>1. u \in DOMAIN node /\ node[u][Way(u, x)] = x /\ (node[u]["r"] = x <=> Way(u, x) = "r")
    BY <1>4, <1>8, <1>9, <1>12, <1>14, LinkFact
  <2>2. u # x BY <1>4, <1>8, <1>9, <2>1, TreeOrder, WayType
  <2> QED BY <2>1, <2>2
<1>15. asserts' = TRUE
  <2>1. u # NULL => x \in {node[u].l, node[u].r} BY <1>14, WayType
  <2> QED BY <1>6, <1>8, <1>13, <2>1 DEF WriteInv
<1>16. /\ DOMAIN nd0 = DOMAIN node /\ nd0[c] = [node[c] EXCEPT !.parent = u]
       /\ \A n \in DOMAIN node : n # c => nd0[n] = node[n]
  BY <1>3, <1>7
<1>17. /\ nd0[c] \in Node /\ nd0[c].bit = node[c].bit /\ nd0[c].prefix = node[c].prefix
       /\ nd0[c].data = node[c].data /\ nd0[c].parent = u
       /\ \A b \in {"l", "r"} : nd0[c][b] = node[c][b]
  <2>1. node[c] \in Node BY <1>3, <1>4
  <2> QED BY <1>8, <1>16, <2>1 DEF Node
<1>18. \A n \in DOMAIN node :
          /\ nd0[n] \in Node /\ nd0[n].bit = node[n].bit /\ nd0[n].prefix = node[n].prefix
          /\ nd0[n].data = node[n].data /\ nd0[n].parent = (IF n = c THEN u ELSE node[n].parent)
          /\ \A b \in {"l", "r"} : nd0[n][b] = node[n][b]
  BY <1>4, <1>16, <1>17
<1>19. /\ DOMAIN nx = DOMAIN nd0
       /\ \A n \in DOMAIN nd0 :
             /\ nx[n] \in Node /\ nx[n].bit = nd0[n].bit /\ nx[n].parent = nd0[n].parent
             /\ nx[n].prefix = nd0[n].prefix /\ nx[n].data = nd0[n].data
       /\ \A n \in DOMAIN nd0, b \in {"l", "r"} :
             nx[n][b] = IF n = u /\ b = Way(u, x) THEN c ELSE nd0[n][b]
  <2>1. u # NULL => u \in DOMAIN nd0 /\ (nd0[u]["r"] = x <=> Way(u, x) = "r")
    BY <1>14, <1>16, <1>18
  <2>2. NULL \notin DOMAIN nd0 /\ \A n \in DOMAIN nd0 : nd0[n] \in Node BY <1>8, <1>16, <1>18
  <2> HIDE DEF nx
  <2>3. nx = Relinked(nd0, u, x, c) BY <1>7
  <2> QED BY <1>8, <2>1, <2>2, <2>3, RelinkFact
<1>20. DOMAIN node' = DOMAIN node \ {x} /\ \A n \in DOMAIN node' : node'[n] = nx[n]
  BY <1>2, <1>16, <1>19 DEF Without
<1> DEFINE nd1 == Without(nd0, {x})
<1>21. DOMAIN nd1 = DOMAIN node \ {x} /\ \A n \in DOMAIN nd1 : nd1[n] = nd0[n]
  BY <1>16 DEF Without
<1> HIDE DEF nd1
<1>22. Freed(nd1, head, x, u, c)
  <2>1. \A b \in {"l", "r"} : node[x][b] \in {NULL, c} BY <1>3
  <2>2. \A n \in DOMAIN nd1 : nd1[n].parent = IF n = c THEN u ELSE node[n].parent BY <1>18, <1>21
  <2>3. \A n \in DOMAIN nd1, b \in {"l", "r"} : nd1[n][b] = node[n][b] BY <1>18, <1>21
  <2>4. CanFree(node, head, x, u, c, nd1)
    BY <1>3, <1>4, <1>10, <1>21, <2>1, <2>2, <2>3 DEF CanFree
  <2> QED BY <2>4, FreeTree
<1>23. Tree(node', head', {}, {})
  <2> DEFINE h == head'
  <2>1. h = IF u = NULL THEN c ELSE head BY <1>2
  <2> HIDE DEF h
  <2>2. /\ DOMAIN nd1 \subseteq Bits /\ x \notin DOMAIN nd1 /\ c \in DOMAIN nd1
        /\ DOMAIN node' = DOMAIN nd1
    BY <1>3, <1>4, <1>11, <1>20, <1>21
  <2>3. \A n \in DOMAIN nd1 : node'[n].parent = nd1[n].parent BY <1>16, <1>19, <1>20, <1>21
  <2>4. \A n \in DOMAIN nd1, b \in {"l", "r"} :
           node'[n][b] = IF n = u /\ b = Way(u, x) THEN c ELSE nd1[n][b]
    BY <1>16, <1>19, <1>20, <1>21
  <2>5. nd1[c].parent = u BY <1>17, <1>21, <2>2
  <2>6. CanBypass(nd1, head, x, u, c, node', h)
    BY <1>8, <1>11, <1>22, <2>1, <2>2, <2>3, <2>4, <2>5 DEF CanBypass, Freed
  <2>7. Tree(node', h, {}, {}) BY <2>6, BypassTree
  <2> QED BY <2>7 DEF h
<1>24. \A n \in DOMAIN node' :
          /\ n \in DOMAIN node /\ n # x
          /\ node'[n] \in Node /\ node'[n].bit = node[n].bit /\ node'[n].prefix = node[n].prefix
          /\ node'[n].data = node[n].data
          /\ \A b \in {"l", "r"} : node'[n][b] = IF n = u /\ b = Way(u, x) THEN c ELSE node[n][b]
  BY <1>16, <1>18, <1>19, <1>20
<1>25. \A n \in DOMAIN node' : NodeOK(n, node'[n]) /\ Full(node'[n])
  <2> TAKE n \in DOMAIN node'
  <2>1. NodeOK(n, node[n]) /\ Full(node[n]) BY <1>4, <1>24
  <2>2. NodeOK(n, node'[n]) BY <1>24, <2>1 DEF NodeOK
  <2>3. Full(node'[n]) BY <1>8, <1>24, <2>1 DEF Full
  <2> QED BY <2>2, <2>3
<1>26. w' \in Writer /\ w'.op = "idle" BY <1>1 DEF Idle, Writer, Link
<1>27. TreeInv' /\ WriterInv' BY <1>23, <1>26 DEF TreeInv, WriterInv
<1>28. routes' = {n \in DOMAIN node' : node'[n].data # NULL} /\ routes' \subseteq Prefix
  <2>1. node[x].data = NULL BY <1>3, <1>4 DEF NodeOK
  <2> QED BY <1>1, <1>20, <1>24, <2>1 DEF WriteInv
<1>29. IsFiniteSet(DOMAIN node') /\ num_active_node' = Cardinality(DOMAIN node')
  <2> DEFINE S == DOMAIN node
  <2>1. IsFiniteSet(S) /\ num_active_node = Cardinality(S) /\ x \in S BY <1>3 DEF WriteInv
  <2>2. DOMAIN node' = S \ {x} BY <1>20
  <2> HIDE DEF S
  <2>3. IsFiniteSet(S \ {x}) /\ Cardinality(S \ {x}) = Cardinality(S) - 1 BY <2>1, FS_RemoveElement
  <2> QED BY <1>1, <2>1, <2>2, <2>3
<1>30. DOMAIN node' \subseteq Bits /\ head' \in Link BY <1>2, <1>4, <1>8, <1>20 DEF WriteInv
<1>31. WriteInv' BY <1>15, <1>25, <1>26, <1>27, <1>28, <1>29, <1>30 DEF WriteInv
<1> QED BY <1>5, <1>20, <1>26, <1>31

(***************************************************************************)
(* The search, at the steps of the writer.                                 *)
(***************************************************************************)
SearchPart == SearchInv /\ SearchRegular /\ (rd.pc = "undefined" => rd.removal)

\* The routes that cover an address.
LEMMA CoveringFact ==
    ASSUME NEW rs, NEW a, NEW p
    PROVE  p \in Covering(rs, a) <=> p \in rs /\ Covers(p, a)
BY DEF Covering

\* A search that ended is not disturbed.
LEMMA EndedKept ==
    ASSUME ~Searching, SearchPart, rd' = rd
    PROVE  SearchPart'
<1>1. ~Searching' BY DEF Searching
<1>2. SearchInv' BY <1>1 DEF SearchInv
<1>3. SearchRegular' BY DEF SearchPart, SearchRegular
<1> QED BY <1>2, <1>3 DEF SearchPart

\* A search in progress while the writer leaves the routes rs, frees the nodes
\* of fr and notes it.
LEMMA WatchStep ==
    ASSUME WriteInv, rd \in Search, SearchPart, WriteInv',
           NEW fr \in SUBSET Bits, NEW rem \in BOOLEAN, NEW rs, Watch(rs, node', fr, rem),
           \A n \in DOMAIN node : n \notin fr => n \in DOMAIN node',
           ~rem => fr = {} /\ Grows /\ w'.op \in {"idle", "data"}
    PROVE  rd' \in Search /\ SearchPart'
<1>1. CASE ~Searching
  <2>1. rd' = rd BY <1>1 DEF Watch
  <2> QED BY <1>1, <2>1, EndedKept
<1>2. CASE Searching
  <2> DEFINE a == rd.addr
             sn == rd.seen \cup Covering(rs, a)
             kp == rd.kept \cap rs
             ho == (rd.hole \/ Hole(node', a) \/ Covering(routes \ rs, a) # {})
             fd == rd.freed \cup (fr \cap Held)
             rm == (rd.removal \/ rem)
  <2>1. rd' = [rd EXCEPT !.seen = sn, !.kept = kp, !.hole = ho, !.freed = fd, !.removal = rm]
    BY <1>2 DEF Watch
  <2>2. routes' = rs BY DEF Watch
  <2>3. ho \in BOOLEAN /\ rm \in BOOLEAN OBVIOUS
  <2>4. kp \subseteq rd.kept /\ kp \subseteq rs /\ rd.seen \subseteq sn /\ Covering(rs, a) \subseteq sn
        /\ rd.freed \subseteq fd
    OBVIOUS
  <2>5. \A n \in Held : n \in fr => n \in fd OBVIOUS
  <2>6. (rd.hole => ho) /\ (Hole(node', a) => ho) /\ (Covering(routes \ rs, a) # {} => ho)
        /\ (~rm => ~rd.removal /\ ~rem)
    OBVIOUS
  <2>7. fr = {} => fd = rd.freed OBVIOUS
  <2>8. a = rd.addr OBVIOUS
  <2>9. sn \subseteq Bits /\ kp \subseteq Bits /\ fd \subseteq Bits
    <3>1. rd.seen \subseteq Bits /\ rd.kept \subseteq Bits /\ rd.freed \subseteq Bits BY DEF Search
    <3>2. rs \subseteq Bits BY <2>2, PrefixAssumption DEF WriteInv
    <3>3. Covering(rs, a) \subseteq rs BY CoveringFact
    <3> QED BY <3>1, <3>2, <3>3
  <2> HIDE DEF a, sn, kp, ho, fd, rm
  <2>10. /\ rd' \in Search
         /\ rd'.pc = rd.pc /\ rd'.addr = rd.addr /\ rd'.at = rd.at /\ rd'.stack = rd.stack
         /\ rd'.res = rd.res /\ rd'.seen = sn /\ rd'.kept = kp /\ rd'.hole = ho
         /\ rd'.freed = fd /\ rd'.removal = rm
    BY <2>1, <2>3, <2>9 DEF Search
  <2>11. SearchInv BY DEF SearchPart
  <2>12. Stacked' = Stacked /\ Held' = Held BY <2>10 DEF Stacked, Held
  <2>13. SearchInv'
    <3>1. rd.addr \in Address /\ rd.res = NULL /\ rd.kept \subseteq Covering(routes, rd.addr)
      BY <1>2, <2>11 DEF SearchInv
    <3>2. kp \subseteq Covering(rs, a) BY <2>4, <2>8, <3>1, CoveringFact
    <3>3. Stacked \subseteq DOMAIN node' \cup fd
      <4>1. Stacked \subseteq DOMAIN node \cup rd.freed BY <1>2, <2>11 DEF SearchInv
      <4>2. Stacked \subseteq Held BY DEF Held
      <4> QED BY <2>4, <2>5, <4>1, <4>2
    <3>4. rd.at \in DOMAIN node \cup rd.freed => rd.at \in DOMAIN node' \cup fd
      <4>1. rd.at \in Held BY DEF Held
      <4> QED BY <2>4, <2>5, <4>1
    <3>5. ASSUME rd.pc = "down"
          PROVE  /\ rd.at \in DOMAIN node' \cup fd
                 /\ \A i \in DOMAIN rd.stack : Len(rd.stack[i]) < Len(rd.at)
                 /\ \A k \in kp : k \in Stacked \/ Covers(rd.at, k)
      BY <1>2, <2>4, <2>11, <3>4, <3>5 DEF SearchInv
    <3>6. rd.pc = "pop" => kp \subseteq Stacked BY <1>2, <2>4, <2>11 DEF SearchInv
    <3>7. ASSUME rd.pc = "data"
          PROVE  /\ rd.at \in DOMAIN node' \cup fd
                 /\ Covers(rd.at, rd.addr)
                 /\ \A k \in kp : Len(k) <= Len(rd.at)
                 /\ rd.at \notin fd /\ node'[rd.at].data = NULL => ho
      <4>1. /\ rd.at \in DOMAIN node \cup rd.freed /\ Covers(rd.at, rd.addr)
            /\ \A k \in rd.kept : Len(k) <= Len(rd.at)
            /\ rd.at \notin rd.freed /\ node[rd.at].data = NULL => rd.hole
        BY <1>2, <2>11, <3>7 DEF SearchInv
      <4>2. ASSUME rd.at \notin fd, node'[rd.at].data = NULL PROVE ho
        <5>1. rd.at \in DOMAIN node /\ rd.at \in DOMAIN node' BY <2>4, <3>4, <4>1, <4>2
        <5>2. CASE node[rd.at].data = NULL BY <2>4, <2>6, <4>1, <4>2, <5>2
        <5>3. CASE node[rd.at].data # NULL
          <6>1. rd.at \in routes BY <5>1, <5>3 DEF WriteInv
          <6>2. rd.at \notin rs BY <2>2, <4>2 DEF WriteInv
          <6>3. rd.at \in Covering(routes \ rs, a) BY <2>8, <4>1, <6>1, <6>2, CoveringFact
          <6> QED BY <2>6, <6>3
        <5> QED BY <5>2, <5>3
      <4> QED BY <2>4, <3>4, <4>1, <4>2
    <3>8. ASSUME ~rm
          PROVE  w'.op \in {"idle", "data"} /\ fd = {} /\ \A n \in Stacked : node'[n].prefix # NULL
      <4>1. ~rd.removal /\ ~rem BY <2>6, <3>8
      <4>2. rd.freed = {} /\ (\A n \in Stacked : node[n].prefix # NULL)
            /\ Stacked \subseteq DOMAIN node \cup rd.freed
        BY <1>2, <2>11, <4>1 DEF SearchInv
      <4>3. fr = {} /\ Grows /\ w'.op \in {"idle", "data"} BY <4>1
      <4> QED BY <2>7, <4>2, <4>3 DEF Grows
    <3>9. \A i, j \in DOMAIN rd.stack : i < j => Len(rd.stack[i]) < Len(rd.stack[j])
      BY <1>2, <2>11 DEF SearchInv
    <3> QED BY <2>2, <2>4, <2>6, <2>8, <2>10, <2>12, <3>1, <3>2, <3>3, <3>5, <3>6, <3>7, <3>8, <3>9
         DEF SearchInv
  <2>14. SearchRegular' BY <1>2, <2>10 DEF Searching, SearchRegular
  <2>15. rd'.pc # "undefined" BY <1>2, <2>10 DEF Searching
  <2> QED BY <2>10, <2>13, <2>14, <2>15 DEF SearchPart
<1> QED BY <1>1, <1>2

\* A step of the writer that changes no prefix and no data.
LEMMA StillStep ==
    ASSUME SearchPart, rd \in Search, Keeps, rd' = rd, routes' = routes,
           w.op \in {"idle", "data"} => w'.op \in {"idle", "data"}
    PROVE  rd' \in Search /\ SearchPart'
<1>1. CASE ~Searching BY <1>1, EndedKept
<1>2. CASE Searching
  <2>1. SearchInv BY DEF SearchPart
  <2>2. Stacked' = Stacked /\ Searching' = Searching BY DEF Stacked, Searching
  <2>3. Hole(node', rd.addr) = Hole(node, rd.addr) BY DEF Hole, Keeps
  <2>4. Covering(routes', rd.addr) = Covering(routes, rd.addr) OBVIOUS
  <2>5. \A n \in DOMAIN node : node'[n].prefix = node[n].prefix /\ node'[n].data = node[n].data
    BY DEF Keeps
  <2>6. DOMAIN node' = DOMAIN node BY DEF Keeps
  <2>7. Stacked \subseteq DOMAIN node \cup rd.freed BY <1>2, <2>1 DEF SearchInv
  <2>8. ASSUME ~rd.removal
        PROVE  w'.op \in {"idle", "data"} /\ rd.freed = {} /\ \A n \in Stacked : node'[n].prefix # NULL
    <3>1. w.op \in {"idle", "data"} /\ rd.freed = {} /\ \A n \in Stacked : node[n].prefix # NULL
      BY <1>2, <2>1, <2>8 DEF SearchInv
    <3> QED BY <2>5, <2>7, <3>1
  <2>9. ASSUME rd.pc = "data"
        PROVE  /\ rd.at \in DOMAIN node' \cup rd.freed
               /\ Covers(rd.at, rd.addr)
               /\ \A k \in rd.kept : Len(k) <= Len(rd.at)
               /\ rd.at \notin rd.freed /\ node'[rd.at].data = NULL => rd.hole
    <3>1. /\ rd.at \in DOMAIN node \cup rd.freed
          /\ Covers(rd.at, rd.addr)
          /\ \A k \in rd.kept : Len(k) <= Len(rd.at)
          /\ rd.at \notin rd.freed /\ node[rd.at].data = NULL => rd.hole
      BY <1>2, <2>1, <2>9 DEF SearchInv
    <3> QED BY <2>5, <2>6, <3>1
  <2>10. /\ rd.addr \in Address /\ rd.res = NULL
         /\ rd.kept \subseteq Covering(routes, rd.addr)
         /\ Covering(routes, rd.addr) \subseteq rd.seen
         /\ Hole(node, rd.addr) => rd.hole
         /\ \A i, j \in DOMAIN rd.stack : i < j => Len(rd.stack[i]) < Len(rd.stack[j])
         /\ rd.pc = "down" =>
              /\ rd.at \in DOMAIN node \cup rd.freed
              /\ \A i \in DOMAIN rd.stack : Len(rd.stack[i]) < Len(rd.at)
              /\ \A k \in rd.kept : k \in Stacked \/ Covers(rd.at, k)
         /\ rd.pc = "pop" => rd.kept \subseteq Stacked
    BY <1>2, <2>1 DEF SearchInv
  <2>11. SearchInv'
    BY <2>2, <2>3, <2>4, <2>6, <2>7, <2>8, <2>9, <2>10 DEF SearchInv
  <2>12. SearchRegular' BY DEF SearchPart, SearchRegular
  <2> QED BY <2>11, <2>12 DEF SearchPart
<1> QED BY <1>1, <1>2

(***************************************************************************)
(* The steps of the search.                                                *)
(***************************************************************************)
\* A search writes nothing.
LEMMA ReadKeeps ==
    ASSUME WriteInv, UNCHANGED <<trie, w, routes, asserts>>
    PROVE  WriteInv' /\ node' = node /\ routes' = routes /\ w' = w
<1>1. head' = head /\ node' = node /\ num_active_node' = num_active_node /\ w' = w
      /\ routes' = routes /\ asserts' = asserts
  BY DEF trie
<1>2. TreeInv' BY <1>1 DEF WriteInv, TreeInv
<1>3. Loose' <=> Loose BY <1>1 DEF Loose
<1>4. WriterInv' BY <1>1, <1>3 DEF WriteInv, WriterInv
<1> QED BY <1>1, <1>2, <1>4 DEF WriteInv

\* What a search may rely on at any step of the writer.
LEMMA ReadTree ==
    ASSUME WriteInv
    PROVE  /\ Closed(node, head) /\ DOMAIN node \subseteq Bits /\ NULL \notin DOMAIN node
           /\ w.op \in {"idle", "data"} =>
                 /\ head \in DOMAIN node \cup {NULL}
                 /\ \A n \in DOMAIN node, b \in {"l", "r"} : node[n][b] \in DOMAIN node \cup {NULL}
           /\ \A n \in DOMAIN node, b \in {"l", "r"} :
                 node[n][b] # NULL => node[n][b] \in Bits /\ Len(n) < Len(node[n][b])
<1>1. DOMAIN node \subseteq Bits /\ NULL \notin DOMAIN node BY PrefixAssumption DEF WriteInv
<1>2. CASE w.op \in {"unlink", "relink"}
  <2>1. w.pn \in Bits BY <1>2 DEF WriteInv, WriterInv, Loose
  <2>2. Links(node, head, {w.pn}) /\ Closed(node, head) BY <1>2 DEF WriteInv, TreeInv, Tree
  <2>3. {w.pn} \in SUBSET Bits BY <2>1
  <2>4. \A n \in DOMAIN node, b \in {"l", "r"} :
                 node[n][b] # NULL => node[n][b] \in Bits /\ Len(n) < Len(node[n][b])
    BY <1>1, <2>2, <2>3, TreeOrder
  <2> QED BY <1>1, <1>2, <2>2, <2>4
<1>3. CASE w.op \notin {"unlink", "relink"}
  <2>1. Links(node, head, {}) /\ Closed(node, head) BY <1>3 DEF WriteInv, TreeInv, Tree
  <2>2. \A n \in DOMAIN node, b \in {"l", "r"} :
                 node[n][b] # NULL => node[n][b] \in Bits /\ Len(n) < Len(node[n][b])
    BY <1>1, <2>1, TreeOrder
  <2> QED BY <1>1, <2>1, <2>2 DEF Links
<1> QED BY <1>2, <1>3

\* A route has its node, with prefix and data.
LEMMA RouteFact ==
    ASSUME WriteInv, NEW k \in routes
    PROVE  k \in DOMAIN node /\ node[k].data = k /\ node[k].prefix = k /\ k # NULL /\ k \in Bits
BY PrefixAssumption DEF WriteInv, NodeOK

\* An address is a prefix of full length.
LEMMA AddressFact ==
    ASSUME NEW a \in Address
    PROVE  a \in Bits /\ Len(a) = maxbits /\ a \in Link
BY BitsIntro, PrefixAssumption DEF Link

\* A search begins at the head, even if that is a node just freed.
LEMMA SearchStartStep ==
    ASSUME WriteInv, NEW a \in Address, SearchStart(a)
    PROVE  WriteInv' /\ rd' \in Search /\ SearchPart'
<1>1. WriteInv' /\ node' = node /\ routes' = routes /\ w' = w BY ReadKeeps DEF SearchStart
<1> DEFINE cv == Covering(routes, a)
           ho == Hole(node, a)
           fd == Dangling(head)
           rm == (w.op \in {"unlink", "splice", "relink"})
           pc == IF head = NULL THEN "done" ELSE "down"
<1>2. rd' = [NoSearch EXCEPT !.pc = pc, !.addr = a, !.at = head, !.seen = cv, !.kept = cv,
                             !.hole = ho, !.freed = fd, !.removal = rm]
  BY DEF SearchStart
<1>3. ho \in BOOLEAN /\ rm \in BOOLEAN BY DEF Hole
<1>4. cv \subseteq routes /\ cv = Covering(routes', a) /\ (Hole(node', a) => ho)
  BY <1>1, CoveringFact
<1>5. cv \subseteq Bits /\ fd \subseteq Bits /\ head \in Link /\ a \in Link
  <2>1. head \in Link /\ routes \subseteq Bits BY PrefixAssumption DEF WriteInv
  <2> QED BY <1>4, <2>1, AddressFact DEF Dangling, Link
<1>6. ~rm => w.op \in {"idle", "data"} BY DEF WriteInv, Writer
<1>7. head # NULL => head \in DOMAIN node' \cup fd BY <1>1 DEF Dangling
<1>8. w.op \in {"idle", "data"} => fd = {} BY ReadTree DEF Dangling
<1>9. head # NULL => pc = "down" OBVIOUS
<1>10. head = NULL => pc = "done" OBVIOUS
<1> HIDE DEF cv, ho, fd, rm, pc
<1>11. /\ rd' \in Search
       /\ rd'.pc = pc /\ rd'.addr = a /\ rd'.at = head /\ rd'.stack = <<>>
       /\ rd'.res = NULL /\ rd'.seen = cv /\ rd'.kept = cv /\ rd'.hole = ho
       /\ rd'.freed = fd /\ rd'.removal = rm
  <2> DEFINE st == <<>>
  <2>1. rd' = [pc |-> pc, addr |-> a, at |-> head, stack |-> st, res |-> NULL, freed |-> fd,
               seen |-> cv, kept |-> cv, hole |-> ho, removal |-> rm]
    BY <1>2 DEF NoSearch
  <2>2. st \in Seq(Bits) /\ st = <<>> OBVIOUS
  <2>3. NULL \in Link BY DEF Link
  <2>4. pc \in {"down", "done"} BY <1>9, <1>10
  <2> HIDE DEF st
  <2> QED BY <1>3, <1>5, <2>1, <2>2, <2>3, <2>4 DEF Search
<1>12. Stacked' = {} BY <1>11 DEF Stacked
<1>13. CASE head = NULL
  <2>1. rd'.pc = "done" BY <1>10, <1>11, <1>13
  <2>2. cv = {}
    <3>1. DOMAIN node = {} BY <1>13, ReadTree DEF Closed
    <3> QED BY <1>4, <3>1, RouteFact
  <2>3. SearchInv' BY <2>1 DEF SearchInv, Searching
  <2>4. SearchRegular' BY <1>11, <2>2 DEF SearchRegular
  <2> QED BY <1>1, <1>11, <2>1, <2>3, <2>4 DEF SearchPart
<1>14. CASE head # NULL
  <2>1. rd'.pc = "down" BY <1>9, <1>11, <1>14
  <2>2. \A k \in cv : Covers(head, k) BY <1>4, ReadTree, RouteFact DEF Closed
  <2>3. DOMAIN rd'.stack = {} BY <1>11
  <2>4. SearchInv'
    BY <1>1, <1>4, <1>6, <1>7, <1>8, <1>11, <1>12, <1>14, <2>1, <2>2, <2>3 DEF SearchInv
  <2>5. SearchRegular' BY <2>1 DEF SearchRegular
  <2> QED BY <1>1, <1>11, <2>1, <2>4, <2>5 DEF SearchPart
<1> QED BY <1>13, <1>14

Ordered(s) == \A i, j \in DOMAIN s : i < j => Len(s[i]) < Len(s[j])
Elements(s) == {s[i] : i \in DOMAIN s}

\* A node is pushed.
LEMMA AppendFact ==
    ASSUME NEW s \in Seq(Bits), NEW n \in Bits, Ordered(s), \A i \in DOMAIN s : Len(s[i]) < Len(n),
           NEW q, q = Append(s, n)
    PROVE  /\ q \in Seq(Bits) /\ Elements(q) = Elements(s) \cup {n} /\ Ordered(q)
           /\ \A i \in DOMAIN q : Len(q[i]) <= Len(n)
<1>1. /\ q \in Seq(Bits) /\ Len(s) \in Nat /\ DOMAIN s = 1 .. Len(s) /\ DOMAIN q = 1 .. Len(s) + 1
      /\ \A i \in 1 .. Len(s) : q[i] = s[i]
      /\ q[Len(s) + 1] = n
  OBVIOUS
<1> DEFINE k == Len(s)
<1>2. /\ k \in Nat /\ DOMAIN s = 1 .. k /\ DOMAIN q = 1 .. k + 1
      /\ \A i \in 1 .. k : q[i] = s[i]
      /\ q[k + 1] = n
  BY <1>1
<1> HIDE DEF k
<1>3. Elements(q) = Elements(s) \cup {n}
  <2>1. ASSUME NEW x \in Elements(q) PROVE x \in Elements(s) \cup {n}
    <3>1. PICK i \in 1 .. k + 1 : x = q[i] BY <1>2 DEF Elements
    <3>2. CASE i = k + 1 BY <1>2, <3>1, <3>2
    <3>3. CASE i # k + 1
      <4>1. i \in 1 .. k BY <1>2, <3>3
      <4> QED BY <1>2, <3>1, <4>1 DEF Elements
    <3> QED BY <3>2, <3>3
  <2>2. ASSUME NEW x \in Elements(s) PROVE x \in Elements(q)
    <3>1. PICK i \in 1 .. k : x = s[i] BY <1>2 DEF Elements
    <3>2. i \in 1 .. k + 1 /\ x = q[i] BY <1>2, <3>1
    <3> QED BY <1>2, <3>2 DEF Elements
  <2>3. n \in Elements(q)
    <3>1. k + 1 \in 1 .. k + 1 BY <1>2
    <3> QED BY <1>2, <3>1 DEF Elements
  <2> QED BY <2>1, <2>2, <2>3
<1>4. \A i \in DOMAIN s : s[i] \in Bits /\ Len(s[i]) \in Nat BY BitsFact
<1>5. Len(n) \in Nat BY BitsFact
<1>6. ASSUME NEW i \in DOMAIN q, NEW j \in DOMAIN q, i < j PROVE Len(q[i]) < Len(q[j])
  <2>1. i \in 1 .. k /\ q[i] = s[i] BY <1>2, <1>6
  <2>2. CASE j = k + 1 BY <1>2, <2>1, <2>2
  <2>3. CASE j # k + 1
    <3>1. j \in 1 .. k /\ q[j] = s[j] BY <1>2, <2>3
    <3> QED BY <1>2, <1>6, <2>1, <3>1 DEF Ordered
  <2> QED BY <2>2, <2>3
<1>7. ASSUME NEW i \in DOMAIN q PROVE Len(q[i]) <= Len(n)
  <2>1. CASE i = k + 1 BY <1>2, <1>5, <2>1
  <2>2. CASE i # k + 1
    <3>1. i \in 1 .. k /\ q[i] = s[i] BY <1>2, <2>2
    <3>2. Len(s[i]) < Len(n) /\ Len(s[i]) \in Nat BY <1>2, <1>4, <3>1
    <3> QED BY <1>5, <3>1, <3>2
  <2> QED BY <2>1, <2>2
<1> QED BY <1>1, <1>3, <1>6, <1>7 DEF Ordered

\* A node is popped.
LEMMA PopFact ==
    ASSUME NEW s \in Seq(Bits), s # <<>>, Ordered(s), NEW q, q = SubSeq(s, 1, Len(s) - 1)
    PROVE  /\ q \in Seq(Bits) /\ Elements(q) \subseteq Elements(s) /\ Ordered(q)
           /\ s[Len(s)] \in Elements(s)
           /\ \A x \in Elements(s) : x = s[Len(s)] \/ x \in Elements(q)
           /\ \A x \in Elements(s) : Len(x) <= Len(s[Len(s)])
<1>1. /\ q \in Seq(Bits) /\ Len(s) \in Nat \ {0} /\ DOMAIN s = 1 .. Len(s) /\ DOMAIN q = 1 .. Len(s) - 1
      /\ \A i \in 1 .. Len(s) - 1 : q[i] = s[i]
  OBVIOUS
<1> DEFINE k == Len(s)
<1>2. /\ k \in Nat /\ k # 0 /\ DOMAIN s = 1 .. k /\ DOMAIN q = 1 .. k - 1
      /\ \A i \in 1 .. k - 1 : q[i] = s[i]
  BY <1>1
<1> HIDE DEF k
<1>3. k \in 1 .. k BY <1>2
<1>4. \A i \in 1 .. k - 1 : i \in 1 .. k /\ i < k BY <1>2
<1>5. \A i \in 1 .. k : i = k \/ i \in 1 .. k - 1 BY <1>2
<1>6. \A i \in DOMAIN s : s[i] \in Bits /\ Len(s[i]) \in Nat BY BitsFact
<1>7. Elements(q) \subseteq Elements(s) BY <1>2, <1>4 DEF Elements
<1>8. Ordered(q) BY <1>2, <1>4 DEF Ordered
<1>9. s[k] \in Elements(s) BY <1>2, <1>3 DEF Elements
<1>10. \A x \in Elements(s) : x = s[k] \/ x \in Elements(q) BY <1>2, <1>5 DEF Elements
<1>11. \A x \in Elements(s) : Len(x) <= Len(s[k])
  <2> TAKE x \in Elements(s)
  <2>1. PICK i \in 1 .. k : x = s[i] BY <1>2 DEF Elements
  <2>2. Len(s[i]) \in Nat /\ Len(s[k]) \in Nat BY <1>2, <1>3, <1>6
  <2>3. CASE i = k BY <2>1, <2>2, <2>3
  <2>4. CASE i # k
    <3>1. i < k BY <1>4, <1>5, <2>4
    <3>2. Len(s[i]) < Len(s[k]) BY <1>2, <1>3, <3>1 DEF Ordered
    <3> QED BY <2>1, <2>2, <3>2
  <2> QED BY <2>3, <2>4
<1> QED BY <1>1, <1>7, <1>8, <1>9, <1>10, <1>11 DEF k

\* The nodes on the stack.
LEMMA StackedFact == Stacked = Elements(rd.stack) /\ Stacked' = Elements(rd'.stack)
BY DEF Stacked, Elements

\* A search that follows freed memory was overlapped by a removal.
LEMMA UndefinedStep ==
    ASSUME rd \in Search, rd.removal, rd' = [rd EXCEPT !.pc = "undefined"]
    PROVE  rd' \in Search /\ SearchPart'
<1>1. rd' \in Search /\ rd'.pc = "undefined" /\ rd'.removal = rd.removal BY DEF Search
<1>2. SearchInv' BY <1>1 DEF SearchInv, Searching
<1>3. SearchRegular' BY <1>1 DEF SearchRegular
<1> QED BY <1>1, <1>2, <1>3 DEF SearchPart

\* A step down: a stored route that is not on the stack yet is behind the link the
\* search follows.
LEMMA SearchDownStep ==
    ASSUME WriteInv, rd \in Search, SearchPart, SearchDown
    PROVE  WriteInv' /\ rd' \in Search /\ SearchPart'
<1>1. WriteInv' /\ node' = node /\ routes' = routes /\ w' = w BY ReadKeeps DEF SearchDown
<1> DEFINE n == rd.at
<1>2. rd.pc = "down" /\ Searching BY DEF SearchDown, Searching
<1>3. /\ rd.addr \in Address /\ rd.res = NULL
      /\ rd.kept \subseteq Covering(routes, rd.addr)
      /\ Covering(routes, rd.addr) \subseteq rd.seen
      /\ Hole(node, rd.addr) => rd.hole
      /\ Stacked \subseteq DOMAIN node \cup rd.freed
      /\ Ordered(rd.stack)
      /\ n \in DOMAIN node \cup rd.freed
      /\ \A i \in DOMAIN rd.stack : Len(rd.stack[i]) < Len(n)
      /\ \A k \in rd.kept : k \in Stacked \/ Covers(n, k)
      /\ ~rd.removal =>
            /\ w.op \in {"idle", "data"} /\ rd.freed = {}
            /\ \A m \in Stacked : node[m].prefix # NULL
  BY <1>2 DEF SearchPart, SearchInv, Ordered
<1>4. CASE ~Live(n)
  <2>1. rd' = [rd EXCEPT !.pc = "undefined"] BY <1>4 DEF SearchDown
  <2>2. rd.removal BY <1>3, <1>4 DEF Live, Search
  <2> QED BY <1>1, <2>1, <2>2, UndefinedStep
<1>5. CASE Live(n)
  <2> DEFINE a == rd.addr
             q == Push(n)
             c == node[n][Side(n, a)]
             ng == IF node[n].bit >= Len(a) THEN NULL ELSE c
             pc == IF ng = NULL THEN "pop" ELSE "down"
             fd == rd.freed \cup Dangling(ng)
  <2>1. rd' = [rd EXCEPT !.pc = pc, !.at = ng, !.stack = q, !.freed = fd]
    <3>1. CASE node[n].bit >= Len(a)
      <4>1. ng = NULL /\ pc = "pop" /\ fd = rd.freed BY <3>1 DEF Dangling
      <4>2. rd' = [rd EXCEPT !.pc = "pop", !.at = NULL, !.stack = q] BY <1>5, <3>1 DEF SearchDown
      <4>3. rd = [rd EXCEPT !.freed = rd.freed] BY DEF Search
      <4> HIDE DEF q, ng, pc, fd
      <4> QED BY <4>1, <4>2, <4>3 DEF Search
    <3>2. CASE ~(node[n].bit >= Len(a))
      <4>1. ng = c BY <3>2
      <4> HIDE DEF q
      <4> QED BY <1>5, <3>2, <4>1 DEF SearchDown, q
    <3> QED BY <3>1, <3>2
  <2>2. n \in DOMAIN node /\ n \in Bits /\ NodeOK(n, node[n]) /\ Len(n) \in Nat /\ node[n] \in Node
    <3>1. n \in DOMAIN node /\ n \in Bits BY <1>3, <1>5, ReadTree DEF Live
    <3> QED BY <3>1, BitsFact DEF WriteInv, NodeOK
  <2>3. a \in Bits /\ Len(a) = maxbits /\ Len(a) \in Nat /\ a \in Address
    BY <1>3, AddressFact, PrefixAssumption
  <2>4. node[n].bit = Len(n) /\ Side(n, a) = Way(n, a)
    BY <2>2, <2>3, SideFact DEF WriteInv, NodeOK
  <2>5. /\ q \in Seq(Bits) /\ Ordered(q) /\ \A i \in DOMAIN q : Len(q[i]) <= Len(n)
        /\ Elements(q) = Stacked \cup (IF node[n].prefix # NULL THEN {n} ELSE {})
    <3>1. rd.stack \in Seq(Bits) BY DEF Search
    <3>2. \A i \in DOMAIN rd.stack : rd.stack[i] \in Bits /\ Len(rd.stack[i]) \in Nat BY <3>1, BitsFact
    <3>3. CASE node[n].prefix # NULL
      <4>1. q = Append(rd.stack, n) BY <3>3 DEF Push
      <4> HIDE DEF q, n
      <4> QED BY <1>3, <2>2, <3>1, <3>3, <4>1, AppendFact, StackedFact
    <3>4. CASE node[n].prefix = NULL
      <4>1. q = rd.stack BY <3>4 DEF Push
      <4> HIDE DEF q, n
      <4> QED BY <1>3, <2>2, <3>1, <3>2, <3>4, <4>1, StackedFact
    <3> QED BY <3>3, <3>4
  <2>6. ng # NULL => ng = node[n][Way(n, a)] /\ ng \in Bits /\ Len(n) < Len(ng)
    BY <2>2, <2>4, ReadTree, WayType
  <2>7. ASSUME NEW k \in rd.kept, k \notin Elements(q) PROVE ng # NULL /\ Covers(ng, k)
    <3>1. k \in routes /\ Covers(k, a) BY <1>3, CoveringFact
    <3>2. k \in DOMAIN node /\ node[k].prefix = k /\ k # NULL /\ k \in Bits BY <3>1, RouteFact
    <3>3. Covers(n, k) BY <1>3, <2>5, <2>7
    <3>4. k # n BY <2>5, <2>7, <3>2
    <3>5. Len(n) < Len(k) /\ Len(k) <= Len(a) /\ Len(k) \in Nat
      BY <2>2, <2>3, <3>1, <3>2, <3>3, <3>4, CoversOrder, BitsFact
    <3>6. ng = node[n][Way(n, a)] BY <2>2, <2>3, <2>4, <3>5
    <3>7. Way(n, k) = Way(n, a) BY <2>2, <2>3, <3>1, <3>2, <3>5, WayFact
    <3>8. node[n][Way(n, k)] # NULL /\ Covers(node[n][Way(n, k)], k)
      BY <2>2, <3>2, <3>3, <3>4, ReadTree DEF Closed
    <3> QED BY <3>6, <3>7, <3>8
  <2>8. ng # NULL => ng \in DOMAIN node \cup fd BY DEF Dangling
  <2>9. w.op \in {"idle", "data"} => Dangling(ng) = {}
    <3>1. w.op \in {"idle", "data"} => ng \in DOMAIN node \cup {NULL}
      BY <2>2, <2>4, ReadTree, WayType
    <3> QED BY <3>1 DEF Dangling
  <2>10. ng \in Link /\ fd \subseteq Bits /\ rd.freed \subseteq fd
    <3>1. ng \in Link BY <2>6 DEF Link
    <3>2. rd.freed \subseteq Bits BY DEF Search
    <3> QED BY <3>1, <3>2 DEF Dangling, Link
  <2>11. (ng = NULL => pc = "pop") /\ (ng # NULL => pc = "down") OBVIOUS
  <2>12. w.op \in {"idle", "data"} => fd = rd.freed BY <2>9
  <2>13. Elements(q) \subseteq DOMAIN node \cup fd /\ n = rd.at BY <1>3, <2>2, <2>5, <2>10
  <2> HIDE DEF q, c, ng, pc, fd, n, a
  <2>14. /\ rd' \in Search
         /\ rd'.pc = pc /\ rd'.addr = rd.addr /\ rd'.at = ng /\ rd'.stack = q
         /\ rd'.res = rd.res /\ rd'.seen = rd.seen /\ rd'.kept = rd.kept /\ rd'.hole = rd.hole
         /\ rd'.freed = fd /\ rd'.removal = rd.removal
    <3>1. pc \in {"pop", "down"} BY <2>11
    <3> QED BY <2>1, <2>5, <2>10, <3>1 DEF Search
  <2>15. Stacked' = Elements(q) BY <2>14, StackedFact
  <2>16. ASSUME ~rd.removal
         PROVE  w'.op \in {"idle", "data"} /\ fd = {} /\ \A m \in Elements(q) : node'[m].prefix # NULL
    <3>1. w.op \in {"idle", "data"} /\ rd.freed = {} /\ \A m \in Stacked : node[m].prefix # NULL
      BY <1>3, <2>16
    <3> QED BY <1>1, <2>5, <2>12, <3>1
  <2>17. ASSUME ng # NULL PROVE \A i \in DOMAIN q : Len(q[i]) < Len(ng)
    <3> TAKE i \in DOMAIN q
    <3>1. Len(q[i]) <= Len(n) /\ Len(n) < Len(ng) BY <2>5, <2>6, <2>17
    <3>2. q[i] \in Bits /\ ng \in Bits BY <2>5, <2>6, <2>17
    <3>3. Len(q[i]) \in Nat /\ Len(ng) \in Nat BY <3>2, BitsFact
    <3> QED BY <2>2, <3>1, <3>3
  <2>18. SearchInv'
    <3>1. \A i, j \in DOMAIN q : i < j => Len(q[i]) < Len(q[j]) BY <2>5 DEF Ordered
    <3>2. ng # NULL \/ rd.kept \subseteq Elements(q) BY <2>7
    <3>3. \A k \in rd.kept : k \in Elements(q) \/ Covers(ng, k) BY <2>7
    <3>4. Hole(node', rd.addr) => rd.hole BY <1>1, <1>3
    <3>5. pc \in {"pop", "down"} BY <2>11
    <3> QED BY <1>1, <1>3, <2>8, <2>11, <2>13, <2>14, <2>15, <2>16, <2>17, <3>1, <3>2, <3>3, <3>4, <3>5
         DEF SearchInv
  <2>19. SearchRegular' BY <2>11, <2>14 DEF SearchRegular
  <2>20. rd'.pc # "undefined" BY <2>11, <2>14
  <2> QED BY <1>1, <2>14, <2>18, <2>19, <2>20 DEF SearchPart
<1> QED BY <1>4, <1>5

\* A node is popped: one that does not cover the address is no stored route for it.
LEMMA SearchPopStep ==
    ASSUME WriteInv, rd \in Search, SearchPart, SearchPop
    PROVE  WriteInv' /\ rd' \in Search /\ SearchPart'
<1>1. WriteInv' /\ node' = node /\ routes' = routes /\ w' = w BY ReadKeeps DEF SearchPop
<1> DEFINE n == rd.stack[Len(rd.stack)]
           q == SubSeq(rd.stack, 1, Len(rd.stack) - 1)
<1>2. rd.pc = "pop" /\ Searching BY DEF SearchPop, Searching
<1>3. /\ rd.addr \in Address /\ rd.res = NULL
      /\ rd.kept \subseteq Covering(routes, rd.addr)
      /\ Covering(routes, rd.addr) \subseteq rd.seen
      /\ Hole(node, rd.addr) => rd.hole
      /\ Stacked \subseteq DOMAIN node \cup rd.freed
      /\ Ordered(rd.stack)
      /\ rd.kept \subseteq Stacked
      /\ ~rd.removal =>
            /\ w.op \in {"idle", "data"} /\ rd.freed = {}
            /\ \A m \in Stacked : node[m].prefix # NULL
  BY <1>2 DEF SearchPart, SearchInv, Ordered
<1>4. rd.stack \in Seq(Bits) /\ rd.removal \in BOOLEAN BY DEF Search
<1>5. CASE rd.stack = <<>>
  <2>1. rd' = [rd EXCEPT !.pc = "done"] BY <1>5 DEF SearchPop
  <2>2. rd' \in Search /\ rd'.pc = "done" /\ rd'.res = rd.res /\ rd'.kept = rd.kept BY <2>1 DEF Search
  <2>3. rd.kept = {} BY <1>3, <1>5 DEF Stacked
  <2>4. SearchInv' BY <2>2 DEF SearchInv, Searching
  <2>5. SearchRegular' BY <1>3, <2>2, <2>3 DEF SearchRegular
  <2> QED BY <1>1, <2>2, <2>4, <2>5 DEF SearchPart
<1>6. CASE rd.stack # <<>>
  <2>1. /\ q \in Seq(Bits) /\ Elements(q) \subseteq Stacked /\ Ordered(q) /\ n \in Stacked
        /\ \A x \in Stacked : x = n \/ x \in Elements(q)
        /\ \A x \in Stacked : Len(x) <= Len(n)
    <3> DEFINE s == rd.stack
    <3>1. /\ s \in Seq(Bits) /\ s # <<>> /\ Ordered(s) /\ q = SubSeq(s, 1, Len(s) - 1)
          /\ n = s[Len(s)] /\ Stacked = Elements(s)
      BY <1>3, <1>4, <1>6, StackedFact
    <3> HIDE DEF s, q, n
    <3>2. /\ q \in Seq(Bits) /\ Elements(q) \subseteq Elements(s) /\ Ordered(q)
          /\ s[Len(s)] \in Elements(s)
          /\ \A x \in Elements(s) : x = s[Len(s)] \/ x \in Elements(q)
          /\ \A x \in Elements(s) : Len(x) <= Len(s[Len(s)])
      BY <3>1, PopFact
    <3> QED BY <3>1, <3>2
  <2>2. CASE ~Live(n) \/ node[n].prefix = NULL
    <3>1. rd' = [rd EXCEPT !.pc = "undefined"] BY <1>6, <2>2 DEF SearchPop
    <3>2. rd.removal BY <1>3, <1>4, <2>1, <2>2 DEF Live
    <3> QED BY <1>1, <3>1, <3>2, UndefinedStep
  <2>3. CASE Live(n) /\ node[n].prefix # NULL
    <3>1. n \in DOMAIN node /\ n \in Bits /\ n \notin rd.freed BY <1>3, <2>1, <2>3, ReadTree DEF Live
    <3>2. node[n].prefix = n BY <2>3, <3>1 DEF WriteInv, NodeOK
    <3>3. CASE Covers(n, rd.addr)
      <4> DEFINE st == <<>>
      <4>1. rd' = [rd EXCEPT !.pc = "data", !.at = n, !.stack = st]
        BY <1>6, <2>3, <3>2, <3>3 DEF SearchPop
      <4>2. st \in Seq(Bits) /\ Elements(st) = {} /\ DOMAIN st = {} BY DEF Elements
      <4>3. n \in Link BY <3>1 DEF Link
      <4> HIDE DEF n, st
      <4>4. /\ rd' \in Search
            /\ rd'.pc = "data" /\ rd'.addr = rd.addr /\ rd'.at = n /\ rd'.stack = st
            /\ rd'.res = rd.res /\ rd'.seen = rd.seen /\ rd'.kept = rd.kept /\ rd'.hole = rd.hole
            /\ rd'.freed = rd.freed /\ rd'.removal = rd.removal
        BY <4>1, <4>2, <4>3 DEF Search
      <4>5. Stacked' = {} BY <4>2, <4>4, StackedFact
      <4>6. \A k \in rd.kept : Len(k) <= Len(n) BY <1>3, <2>1
      <4>7. node[n].data = NULL => rd.hole BY <1>3, <2>3, <3>1, <3>3 DEF Hole
      <4>8. SearchInv'
        BY <1>1, <1>3, <3>1, <3>3, <4>2, <4>4, <4>5, <4>6, <4>7 DEF SearchInv
      <4>9. SearchRegular' BY <4>4 DEF SearchRegular
      <4> QED BY <1>1, <4>4, <4>8, <4>9 DEF SearchPart
    <3>4. CASE ~Covers(n, rd.addr)
      <4>1. rd' = [rd EXCEPT !.stack = q] BY <1>6, <2>3, <3>2, <3>4 DEF SearchPop
      <4> HIDE DEF n, q
      <4>2. /\ rd' \in Search
            /\ rd'.pc = "pop" /\ rd'.addr = rd.addr /\ rd'.at = rd.at /\ rd'.stack = q
            /\ rd'.res = rd.res /\ rd'.seen = rd.seen /\ rd'.kept = rd.kept /\ rd'.hole = rd.hole
            /\ rd'.freed = rd.freed /\ rd'.removal = rd.removal
        BY <1>2, <2>1, <4>1 DEF Search
      <4>3. Stacked' = Elements(q) BY <4>2, StackedFact
      <4>4. rd.kept \subseteq Elements(q)
        <5> SUFFICES ASSUME NEW k \in rd.kept PROVE k \in Elements(q) OBVIOUS
        <5>1. Covers(k, rd.addr) BY <1>3, CoveringFact
        <5>2. k # n BY <3>4, <5>1
        <5> QED BY <1>3, <2>1, <5>2
      <4>5. \A i, j \in DOMAIN q : i < j => Len(q[i]) < Len(q[j]) BY <2>1 DEF Ordered
      <4>6. SearchInv'
        BY <1>1, <1>3, <2>1, <4>2, <4>3, <4>4, <4>5 DEF SearchInv
      <4>7. SearchRegular' BY <4>2 DEF SearchRegular
      <4> QED BY <1>1, <4>2, <4>6, <4>7 DEF SearchPart
    <3> QED BY <3>3, <3>4
  <2> QED BY <2>2, <2>3
<1> QED BY <1>5, <1>6

\* The data of the node found.
LEMMA SearchDataStep ==
    ASSUME WriteInv, rd \in Search, SearchPart, SearchData
    PROVE  WriteInv' /\ rd' \in Search /\ SearchPart'
<1>1. WriteInv' BY ReadKeeps DEF SearchData
<1> DEFINE n == rd.at
<1>2. rd.pc = "data" /\ Searching BY DEF SearchData, Searching
<1>3. /\ Covering(routes, rd.addr) \subseteq rd.seen
      /\ n \in DOMAIN node \cup rd.freed
      /\ Covers(n, rd.addr)
      /\ \A k \in rd.kept : Len(k) <= Len(n)
      /\ n \notin rd.freed /\ node[n].data = NULL => rd.hole
      /\ ~rd.removal => rd.freed = {}
  BY <1>2 DEF SearchPart, SearchInv
<1>4. CASE ~Live(n)
  <2>1. rd' = [rd EXCEPT !.pc = "undefined"] BY <1>4 DEF SearchData
  <2>2. rd.removal BY <1>3, <1>4 DEF Live, Search
  <2> QED BY <1>1, <2>1, <2>2, UndefinedStep
<1>5. CASE Live(n)
  <2> DEFINE r == node[n].data
  <2>1. rd' = [rd EXCEPT !.pc = "done", !.res = r, !.at = NULL] BY <1>5 DEF SearchData
  <2>2. n \in DOMAIN node /\ n \notin rd.freed BY <1>3, <1>5 DEF Live
  <2>3. r \in Link /\ (r # NULL => r = n /\ n \in routes) BY <2>2 DEF WriteInv, NodeOK, Node
  <2>4. NULL \in Link BY DEF Link
  <2>5. r = NULL => rd.hole BY <1>3, <2>2
  <2>6. r # NULL => r \in rd.seen /\ \A k \in rd.kept : Len(k) <= Len(r)
    BY <1>3, <2>3, CoveringFact
  <2> HIDE DEF r, n
  <2>7. /\ rd' \in Search /\ rd'.pc = "done" /\ rd'.res = r /\ rd'.seen = rd.seen /\ rd'.kept = rd.kept
        /\ rd'.hole = rd.hole
    BY <2>1, <2>3, <2>4 DEF Search
  <2>8. SearchInv' BY <2>7 DEF SearchInv, Searching
  <2>9. SearchRegular' BY <2>5, <2>6, <2>7 DEF SearchRegular
  <2> QED BY <1>1, <2>7, <2>8, <2>9 DEF SearchPart
<1> QED BY <1>4, <1>5

(***************************************************************************)
(* The invariant.                                                          *)
(***************************************************************************)
\* The invariant is that of the writer and that of the search.
LEMMA IInvFact == IInv <=> WriteInv /\ rd \in Search /\ SearchPart
<1>1. IInv <=> /\ TypeOK /\ NodeInv /\ TreeInv /\ WriterInv /\ AssertsHold /\ SearchPart
  BY DEF IInv, SearchPart
<1> QED BY <1>1, WriteInvFact

\* The same, after a step.
LEMMA IInvPrimed ==
    ASSUME WriteInv', rd' \in Search, SearchPart'
    PROVE  IInv'
<1>1. num_active_node' \in Nat BY FS_CardinalityType DEF WriteInv
<1>2. TypeOK' BY <1>1 DEF WriteInv, TypeOK, NodeOK
<1>3. NodeInv'
  <2>1. \A n \in DOMAIN node' : node'[n] \in Node BY DEF WriteInv, NodeOK
  <2> QED BY <2>1 DEF WriteInv, NodeInv, NodeOK, Full, Node
<1>4. TreeInv' /\ WriterInv' /\ AssertsHold' BY DEF WriteInv, AssertsHold
<1>5. SearchInv' /\ SearchRegular' /\ (rd'.pc = "undefined" => rd'.removal) BY DEF SearchPart
<1> QED BY <1>2, <1>3, <1>4, <1>5 DEF IInv

\* It holds of an empty trie.
LEMMA PatriciaInit == Init => IInv
<1> SUFFICES ASSUME Init PROVE WriteInv /\ rd \in Search /\ SearchPart BY IInvFact
<1>1. /\ head = NULL /\ DOMAIN node = {} /\ num_active_node = 0 /\ w = Idle /\ rd = NoSearch
      /\ routes = {} /\ asserts = TRUE
  BY DEF Init
<1>2. head \in Link /\ w \in Writer /\ w.op = "idle" BY <1>1 DEF Link, Idle, Writer
<1>3. Tree(node, head, {}, {}) BY <1>1 DEF Tree, Links, Closed, Parents
<1>4. TreeInv /\ WriterInv BY <1>2, <1>3 DEF TreeInv, WriterInv
<1>5. IsFiniteSet(DOMAIN node) /\ num_active_node = Cardinality(DOMAIN node) BY <1>1, FS_EmptySet
<1>6. WriteInv BY <1>1, <1>2, <1>4, <1>5 DEF WriteInv
<1>7. rd \in Search /\ rd.pc = "idle"
  <2> DEFINE st == <<>>
  <2>1. rd = [pc |-> "idle", addr |-> NULL, at |-> NULL, stack |-> st, res |-> NULL,
              freed |-> {}, seen |-> {}, kept |-> {}, hole |-> FALSE, removal |-> FALSE]
    BY <1>1 DEF NoSearch
  <2>2. st \in Seq(Bits) /\ NULL \in Link BY DEF Link
  <2> HIDE DEF st
  <2> QED BY <2>1, <2>2 DEF Search
<1>8. SearchPart BY <1>7 DEF SearchPart, SearchInv, Searching, SearchRegular
<1> QED BY <1>6, <1>7, <1>8

\* Every step of the writer and of the search keeps it.
LEMMA PatriciaNext == IInv /\ [Next]_vars => IInv'
<1> SUFFICES ASSUME IInv, [Next]_vars PROVE WriteInv' /\ rd' \in Search /\ SearchPart'
  BY IInvPrimed
<1>1. WriteInv /\ rd \in Search /\ SearchPart BY IInvFact
<1> DEFINE none == {}
<1>2. none \in SUBSET Bits /\ none = {} OBVIOUS
<1> HIDE DEF none
<1>3. ASSUME NEW p \in Prefix,
             LookupHead(p) \/ LookupGlueMod(p) \/ LookupChild(p) \/ LookupParent(p) \/ LookupGlue(p)
      PROVE  WriteInv' /\ rd' \in Search /\ SearchPart'
  <2>1. WriteInv' /\ Grows /\ w'.op = "data"
    BY <1>1, <1>3, LookupHeadStep, LookupGlueModStep, LookupChildStep, LookupParentStep, LookupGlueStep
  <2>2. Watch(routes, node', none, FALSE)
    BY <1>2, <1>3 DEF LookupHead, LookupGlueMod, LookupChild, LookupParent, LookupGlue
  <2>3. \A n \in DOMAIN node : n \notin none => n \in DOMAIN node' BY <2>1 DEF Grows
  <2> QED BY <1>1, <1>2, <2>1, <2>2, <2>3, WatchStep
<1>4. ASSUME NEW p \in Prefix, LookupFound(p) PROVE WriteInv' /\ rd' \in Search /\ SearchPart'
  <2>1. WriteInv' /\ w'.op = "data" BY <1>1, <1>4, LookupFoundStep
  <2>2. rd' = rd /\ routes' = routes /\ Keeps BY <1>4 DEF LookupFound, trie, Keeps
  <2> QED BY <1>1, <2>1, <2>2, StillStep
<1>5. ASSUME InsertData PROVE WriteInv' /\ rd' \in Search /\ SearchPart'
  <2>1. WriteInv' /\ Grows /\ w'.op = "idle" BY <1>1, <1>5, InsertDataStep
  <2>2. CASE node[w.pn].data # NULL
    <3>1. rd' = rd /\ routes' = routes /\ Keeps BY <1>5, <2>2 DEF InsertData, Keeps
    <3> QED BY <1>1, <2>1, <3>1, StillStep
  <2>3. CASE node[w.pn].data = NULL
    <3>1. Watch(routes \cup {w.pn}, node', none, FALSE) BY <1>2, <1>5, <2>3 DEF InsertData
    <3>2. \A n \in DOMAIN node : n \notin none => n \in DOMAIN node' BY <2>1 DEF Grows
    <3> DEFINE rs == routes \cup {w.pn}
    <3> HIDE DEF rs
    <3>3. Watch(rs, node', none, FALSE) BY <3>1 DEF rs
    <3> QED BY <1>1, <1>2, <2>1, <3>2, <3>3, WatchStep
  <2> QED BY <2>2, <2>3
<1>6. ASSUME NEW p \in Prefix, RemoveInner(p) PROVE WriteInv' /\ rd' \in Search /\ SearchPart'
  <2>1. WriteInv' /\ DOMAIN node' = DOMAIN node BY <1>1, <1>6, RemoveInnerStep
  <2> DEFINE rs == routes \ {p}
  <2>2. Watch(rs, node', none, TRUE) BY <1>2, <1>6 DEF RemoveInner
  <2> HIDE DEF rs
  <2> QED BY <1>1, <1>2, <2>1, <2>2, WatchStep
<1>7. ASSUME NEW p \in Prefix, RemoveLeaf(p) \/ RemoveChain(p)
      PROVE  WriteInv' /\ rd' \in Search /\ SearchPart'
  <2>1. WriteInv' /\ DOMAIN node' = DOMAIN node \ {p} BY <1>1, <1>7, RemoveLeafStep, RemoveChainStep
  <2> DEFINE rs == routes \ {p}
             fr == {p}
  <2>2. SearchExact(p) = p BY <1>1, <1>7, RemovesFact DEF RemoveLeaf, RemoveChain
  <2>3. Watch(rs, node', fr, TRUE) BY <1>7, <2>2 DEF RemoveLeaf, RemoveChain
  <2>4. fr \in SUBSET Bits BY PrefixAssumption
  <2>5. \A n \in DOMAIN node : n \notin fr => n \in DOMAIN node' BY <2>1
  <2> HIDE DEF rs, fr
  <2> QED BY <1>1, <2>1, <2>3, <2>4, <2>5, WatchStep
<1>8. ASSUME Unlink PROVE WriteInv' /\ rd' \in Search /\ SearchPart'
  <2>1. WriteInv' /\ Keeps BY <1>1, <1>8, UnlinkStep
  <2>2. rd' = rd /\ routes' = routes /\ w.op = "unlink" BY <1>8 DEF Unlink
  <2> QED BY <1>1, <2>1, <2>2, StillStep
<1>9. ASSUME Relink PROVE WriteInv' /\ rd' \in Search /\ SearchPart'
  <2>1. WriteInv' /\ Keeps BY <1>1, <1>9, RelinkStep
  <2>2. rd' = rd /\ routes' = routes /\ w.op = "relink" BY <1>9 DEF Relink
  <2> QED BY <1>1, <2>1, <2>2, StillStep
<1>10. ASSUME Splice PROVE WriteInv' /\ rd' \in Search /\ SearchPart'
  <2>1. WriteInv' /\ DOMAIN node' = DOMAIN node \ {w.pn} BY <1>1, <1>10, SpliceStep
  <2> DEFINE fr == {w.pn}
  <2>2. Watch(routes, node', fr, TRUE) BY <1>10 DEF Splice
  <2>3. fr \in SUBSET Bits BY <1>1, <1>10 DEF Splice, WriteInv, WriterInv
  <2>4. \A n \in DOMAIN node : n \notin fr => n \in DOMAIN node' BY <2>1
  <2> HIDE DEF fr
  <2> QED BY <1>1, <2>1, <2>2, <2>3, <2>4, WatchStep
<1>11. ASSUME NEW a \in Address, SearchStart(a) PROVE WriteInv' /\ rd' \in Search /\ SearchPart'
  BY <1>1, <1>11, SearchStartStep
<1>12. ASSUME SearchDown \/ SearchPop \/ SearchData PROVE WriteInv' /\ rd' \in Search /\ SearchPart'
  BY <1>1, <1>12, SearchDownStep, SearchPopStep, SearchDataStep
<1>13. ASSUME UNCHANGED vars PROVE WriteInv' /\ rd' \in Search /\ SearchPart'
  <2>1. UNCHANGED <<trie, w, routes, asserts>> /\ rd' = rd /\ node' = node BY <1>13 DEF vars, trie
  <2>2. WriteInv' /\ routes' = routes /\ w' = w BY <1>1, <2>1, ReadKeeps
  <2>3. Keeps BY <2>1 DEF Keeps
  <2> QED BY <1>1, <2>1, <2>2, <2>3, StillStep
<1> QED
  BY <1>3, <1>4, <1>5, <1>6, <1>7, <1>8, <1>9, <1>10, <1>11, <1>12, <1>13 DEF Next, Write, Read

\* The trie is what its invariant says at every step of the writer and of the
\* search.
THEOREM PatriciaInv == Spec => []IInv
<1>1. Init => IInv BY PatriciaInit
<1>2. IInv /\ [Next]_vars => IInv' BY PatriciaNext
<1> QED BY <1>1, <1>2, PTL DEF Spec

\* Nodes, links, writer and search keep their types.
THEOREM TypesHold == Spec => []TypeOK
<1>1. IInv => TypeOK BY DEF IInv
<1> QED BY <1>1, PatriciaInv, PTL

\* No assertion of patricia_lookup or patricia_remove fails, for any width of
\* an address, any set of prefixes and any order of insertions and removals.
THEOREM AssertsHoldAlways == Spec => []AssertsHold
<1>1. IInv => AssertsHold BY DEF IInv
<1> QED BY <1>1, PatriciaInv, PTL

\* A search in the middle of insertions and removals that reads no freed memory
\* returns what was stored while it ran, and misses no longer prefix that was
\* stored all the time.
THEOREM SearchRegularHolds == Spec => []SearchRegular
<1>1. IInv => SearchRegular BY DEF IInv
<1> QED BY <1>1, PatriciaInv, PTL

\* Only a search that a removal overlapped reads freed memory or a cleared
\* prefix; between two calls of the writer no link leads to a freed node.
THEOREM UndefinedOnlyByRemovalHolds == Spec => []UndefinedOnlyByRemoval
<1>1. IInv => UndefinedOnlyByRemoval
  <2> SUFFICES ASSUME IInv PROVE UndefinedOnlyByRemoval OBVIOUS
  <2>1. WriteInv /\ SearchPart BY IInvFact
  <2>2. ASSUME w.op \in {"idle", "data"}, NEW n \in DOMAIN node
        PROVE  {head, node[n].l, node[n].r, node[n].parent} \subseteq DOMAIN node \cup {NULL}
    <3>1. /\ head \in DOMAIN node \cup {NULL}
          /\ node[n]["l"] \in DOMAIN node \cup {NULL} /\ node[n]["r"] \in DOMAIN node \cup {NULL}
      BY <2>1, <2>2, ReadTree
    <3>2. Parents(node, head, {}) BY <2>1, <2>2 DEF WriteInv, TreeInv, Tree
    <3>3. node[n].parent \in DOMAIN node \cup {NULL} BY <3>2 DEF Parents, Hangs
    <3> QED BY <3>1, <3>3
  <2> QED BY <2>1, <2>2 DEF UndefinedOnlyByRemoval, SearchPart
<1> QED BY <1>1, PatriciaInv, PTL

\* Between two calls of the writer patricia_search_exact finds each route, with
\* its data, and nothing else.
THEOREM StoresRoutesHolds == Spec => []StoresRoutes
<1>1. IInv => StoresRoutes
  <2> SUFFICES ASSUME IInv, w.op = "idle", NEW p \in Prefix
               PROVE  FindExact(p) = IF p \in routes THEN p ELSE NULL
    BY DEF StoresRoutes
  <2>1. WriteInv /\ rd \in Search BY IInvFact
  <2>2. Calm /\ p \in Bits BY <2>1, CalmIntro, PrefixAssumption
  <2>3. SearchExact(p) = IF p \in DOMAIN node /\ node[p].prefix # NULL THEN p ELSE NULL
    BY <2>2, ExactFact
  <2>4. p # NULL BY <2>2, PrefixAssumption
  <2>5. CASE p \in routes BY <2>1, <2>3, <2>4, <2>5, RouteFact DEF FindExact
  <2>6. CASE p \notin routes
    <3>1. p \in DOMAIN node => node[p].data = NULL BY <2>1, <2>6 DEF WriteInv
    <3> QED BY <2>3, <2>6, <3>1 DEF FindExact
  <2> QED BY <2>5, <2>6
<1> QED BY <1>1, PatriciaInv, PTL

\* Between two calls every node hangs from its parent or is the head, a node
\* without a route has two children, and num_active_node counts the nodes.
THEOREM NoWasteHolds == Spec => []NoWaste
<1>1. IInv => NoWaste
  <2> SUFFICES ASSUME IInv, w.op = "idle"
               PROVE  /\ num_active_node = Cardinality(DOMAIN node)
                      /\ \A n \in DOMAIN node :
                            /\ node[n].prefix = NULL => node[n].l # NULL /\ node[n].r # NULL
                            /\ IF node[n].parent = NULL THEN head = n
                               ELSE n \in {node[node[n].parent].l, node[node[n].parent].r}
    BY DEF NoWaste
  <2>1. WriteInv BY IInvFact
  <2>2. num_active_node = Cardinality(DOMAIN node) BY <2>1 DEF WriteInv
  <2>3. ASSUME NEW n \in DOMAIN node
        PROVE  /\ node[n].prefix = NULL => node[n].l # NULL /\ node[n].r # NULL
               /\ IF node[n].parent = NULL THEN head = n
                  ELSE n \in {node[node[n].parent].l, node[node[n].parent].r}
    <3>1. Full(node[n]) BY <2>1 DEF WriteInv
    <3>2. node[n].prefix = NULL => node[n].l # NULL /\ node[n].r # NULL BY <3>1 DEF Full
    <3>3. Parents(node, head, {}) BY <2>1 DEF WriteInv, TreeInv, Tree
    <3>4. Hangs(node, head, node[n].parent, n) BY <3>3 DEF Parents
    <3>5. IF node[n].parent = NULL THEN head = n
          ELSE n \in {node[node[n].parent].l, node[node[n].parent].r}
      BY <3>4, WayType DEF Hangs
    <3> QED BY <3>2, <3>5
  <2> QED BY <2>2, <2>3
<1> QED BY <1>1, PatriciaInv, PTL
===============================================================================
