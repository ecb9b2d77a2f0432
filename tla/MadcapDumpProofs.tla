--------------------------- MODULE MadcapDumpProofs ---------------------------
(***************************************************************************)
(* Proofs about MadcapDump, for any number of devices, slots, entries and  *)
(* operations: what the two integers kept between the parts of a dump mean *)
(* when devices and entries come and go.                                   *)
(***************************************************************************)
EXTENDS MadcapDump, RavenProofs

(***************************************************************************)
(* The counters.                                                           *)
(***************************************************************************)
\* cnt counts in the order of the slots: it tells visited slots apart, and it is
\* larger if more slots are visited.
LEMMA CntFact ==
    ASSUME NEW V \in SUBSET (1 .. N), NEW W \in SUBSET V
    PROVE  /\ \A n \in 1 .. N : Cardinality({k \in V : k < n}) \in 0 .. N
           /\ \A n \in 1 .. N : Cardinality({k \in W : k < n}) <= Cardinality({k \in V : k < n})
           /\ \A m \in V, n \in 1 .. N : m < n =>
                Cardinality({k \in V : k < m}) < Cardinality({k \in V : k < n})
<1> USE RavenAssumption
<1> DEFINE Below(T, n) == {k \in T : k < n}
<1>1. ASSUME NEW n \in 1 .. N
      PROVE  /\ Cardinality(Below(V, n)) \in 0 .. N
             /\ Cardinality(Below(W, n)) <= Cardinality(Below(V, n))
  <2>1. Below(V, n) \in SUBSET (1 .. N) /\ Below(W, n) \in SUBSET Below(V, n) OBVIOUS
  <2> HIDE DEF Below
  <2>2. /\ Cardinality(Below(W, n)) \in Nat /\ Cardinality(Below(V, n)) \in Nat
        /\ Cardinality(Below(W, n)) <= Cardinality(Below(V, n)) /\ Cardinality(Below(V, n)) <= N
    BY <2>1, CountFact
  <2> QED BY <2>2
<1>2. ASSUME NEW m \in V, NEW n \in 1 .. N, m < n
      PROVE  Cardinality(Below(V, m)) < Cardinality(Below(V, n))
  <2>1. Below(V, n) \in SUBSET (1 .. N) /\ m \in Below(V, n) /\ m \notin Below(V, m)
    <3>1. m \in 1 .. N /\ ~(m < m) OBVIOUS
    <3> QED BY <1>2, <3>1
  <2>2. Below(V, m) \in SUBSET Below(V, n)
    <3> SUFFICES ASSUME NEW k \in V, k < m PROVE k < n
      OBVIOUS
    <3>1. k \in 1 .. N /\ m \in 1 .. N OBVIOUS
    <3> QED BY <1>2, <3>1
  <2> HIDE DEF Below
  <2>3. Below(V, m) # Below(V, n) BY <2>1
  <2> QED BY <2>1, <2>2, <2>3, CountFact
<1> QED BY <1>1, <1>2

\* The same of the state: Rank is a number, and orders the visited slots.
LEMMA RankFact ==
    \A m, n \in Visited(dump.filter) :
        /\ Rank(n) \in 0 .. N
        /\ m < n => Rank(m) < Rank(n)
<1>1. Visited(dump.filter) \in SUBSET (1 .. N) BY DEF Visited
<1> QED BY <1>1, CntFact DEF Rank

\* What a dump finds.
LEMMA ObjectsFact ==
    ASSUME NEW f
    PROVE  /\ Objects("config", f) = {slot[n] : n \in Visited(f)}
           /\ \A d, e : <<d, e>> \in Objects("entry", f) <=>
                 \E n \in Visited(f) : d = slot[n] /\ e \in Range(tab[slot[n]])
BY DEF Objects

(***************************************************************************)
(* The inductive invariant.                                                *)
(***************************************************************************)
\* It holds at the start, without a dump.
LEMMA InitInv == Init => IInv
<1> SUFFICES ASSUME Init PROVE IInv
  OBVIOUS
<1> USE DEF Init, NoDump, NothingSeen
<1>1. RavenInv BY RavenInitInv
<1>2. TypeOK BY <1>1, RavenAssumption DEF RavenInv, TypeOK, Kind
<1>3. CompleteInv /\ OnceInv /\ DumpOnce BY DEF CompleteInv, OnceInv, DumpOnce
<1> QED BY <1>1, <1>2, <1>3 DEF IInv

\* Unless something the dump watches is lost, a step of another thread takes
\* nothing into the part that the cursor has passed.
LEMMA CompleteKept ==
    ASSUME IInv, Links \/ Commands \/ Command \/ Packets \/ Reclaim, UNCHANGED dump,
           dump.kind # "off", ~seen.removal, ~Lost,
           seen'.kept = seen.kept, seen'.sent = seen.sent
    PROVE  CompleteInv'
<1> USE RavenAssumption
<1> DEFINE f == dump.filter
           V == Visited(f)
           W == V'
<1>0. TypeOK /\ RavenInv BY DEF IInv
<1>1. V \in SUBSET (1 .. N) /\ W \in SUBSET (1 .. N) BY DEF Visited
<1>2. \A n \in V : slot[n] \in Dev BY <1>0, <1>1 DEF Visited, RavenInv, RavenTypeOK
<1>3. \A m, n \in V : slot[m] = slot[n] => m = n
  BY <1>0, <1>1, <1>2 DEF RavenInv, SlotInv
<1>4. ASSUME NEW n \in V PROVE n \in W /\ slot'[n] = slot[n]
  <2>1. slot[n] \in Objects("config", f)' BY ObjectsFact DEF Lost
  <2>2. PICK m \in W : slot'[m] = slot[n] BY <2>1 DEF Objects
  <2>3. slot'[m] = slot[m] BY <1>0, <1>1, <1>2, <2>2, StepShape
  <2>4. m = n BY <1>0, <1>1, <1>2, <2>2, <2>3 DEF RavenInv, SlotInv
  <2> QED BY <2>2, <2>4
<1>5. ASSUME NEW n \in W, NEW m \in V, slot'[n] = slot[m] PROVE n = m
  <2>1. slot'[n] = slot[n] BY <1>0, <1>1, <1>2, <1>5, StepShape
  <2> QED BY <1>0, <1>1, <1>2, <1>5, <2>1 DEF RavenInv, SlotInv
<1>6. \A n \in V : Rank(n) \in 0 .. N /\ Rank(n)' \in 0 .. N /\ Rank(n) <= Rank(n)'
  <2>1. V \in SUBSET W BY <1>4
  <2>2. \A n : Rank(n) = Cardinality({k \in V : k < n}) BY DEF Rank
  <2>3. \A n : Rank(n)' = Cardinality({k \in W : k < n}) BY DEF Rank
  <2> HIDE DEF V, W
  <2>4. \A n \in 1 .. N : /\ Cardinality({k \in W : k < n}) \in 0 .. N
                          /\ Cardinality({k \in V : k < n}) \in 0 .. N
                          /\ Cardinality({k \in V : k < n}) <= Cardinality({k \in W : k < n})
    <3>1. V \in SUBSET V OBVIOUS
    <3>2. \A n \in 1 .. N : Cardinality({k \in V : k < n}) \in 0 .. N BY <1>1, <3>1, CntFact
    <3>3. \A n \in 1 .. N : Cardinality({k \in W : k < n}) \in 0 .. N BY <1>1, <2>1, CntFact
    <3>4. \A n \in 1 .. N : Cardinality({k \in V : k < n}) <= Cardinality({k \in W : k < n})
      BY <1>1, <2>1, CntFact
    <3> QED BY <3>2, <3>3, <3>4
  <2> QED BY <1>1, <2>2, <2>3, <2>4
<1>7. seen.kept \subseteq Objects(dump.kind, f) BY DEF IInv, CompleteInv
<1>8. Objects(dump.kind, f) \subseteq Objects(dump.kind, f)' BY DEF Lost
<1>9. ASSUME NEW n \in W, dump.kind = "config", slot'[n] \in seen.kept, PassedDevice(n)'
      PROVE  slot'[n] \in seen.sent
  <2>1. PICK m \in V : slot'[n] = slot[m] BY <1>7, <1>9, ObjectsFact
  <2>2. n = m BY <1>5, <2>1
  <2>3. PassedDevice(n) BY <1>0, <1>6, <1>9, <2>2 DEF PassedDevice, TypeOK
  <2> QED BY <1>9, <2>1, <2>2, <2>3 DEF IInv, CompleteInv
<1>10. ASSUME NEW n \in W, NEW j \in DOMAIN tab'[slot'[n]], dump.kind = "entry",
              <<slot'[n], tab'[slot'[n]][j]>> \in seen.kept, PassedEntry(n, j)'
       PROVE  <<slot'[n], tab'[slot'[n]][j]>> \in seen.sent
  <2> DEFINE e == tab'[slot'[n]][j]
  <2>1. PICK m \in V : slot'[n] = slot[m] /\ e \in Range(tab[slot[m]])
    BY <1>7, <1>10, ObjectsFact
  <2>2. n \in V /\ slot'[n] = slot[n] /\ e \in Range(tab[slot[n]]) BY <1>5, <2>1
  <2> DEFINE s == tab[slot[n]]
             t == tab'[slot[n]]
  <2>3. ~Shrunk(s, t)
    <3>1. ASSUME NEW x \in Range(s) PROVE x \in Range(t)
      <4>1. <<slot[n], x>> \in Objects("entry", f) BY <2>2, ObjectsFact
      <4>2. <<slot[n], x>> \in Objects("entry", f)' BY <1>8, <1>10, <4>1
      <4>3. PICK k \in W : slot[n] = slot'[k] /\ x \in Range(tab'[slot'[k]])
        BY <4>2 DEF Objects
      <4> QED BY <4>3
    <3> QED BY <3>1 DEF Shrunk
  <2>4. t = s \/ Grown(s, t) BY <1>0, <1>1, <1>2, <2>2, <2>3, StepShape
  <2>5. s \in Seq(Entry) /\ t \in Seq(Entry)
    BY <1>0, <1>2, <2>2, RavenStep DEF RavenInv, RavenTypeOK
  <2>6. t[j] = e /\ j \in DOMAIN t BY <2>2
  <2>7. PICK i \in DOMAIN s : i <= j /\ e = s[i]
    <3>1. CASE t = s BY <2>5, <2>6, <3>1
    <3>2. CASE Grown(s, t) BY <2>2, <2>6, <3>2 DEF Grown
    <3> QED BY <2>4, <3>1, <3>2
  <2>8. PassedEntry(n, i)
    <3>1. i \in Nat /\ j \in Nat BY <2>5, <2>6, <2>7
    <3>2. Rank(n)' < dump.a1 \/ (Rank(n)' = dump.a1 /\ j <= dump.a0) BY <1>10 DEF PassedEntry
    <3>3. Rank(n) \in 0 .. N /\ Rank(n)' \in 0 .. N /\ Rank(n) <= Rank(n)' BY <1>6, <2>2
    <3>4. dump.a0 \in Nat /\ dump.a1 \in 0 .. N BY <1>0 DEF TypeOK
    <3> QED BY <2>7, <3>1, <3>2, <3>3, <3>4 DEF PassedEntry
  <2>9. <<slot[n], s[i]>> \in seen.kept BY <1>10, <2>2, <2>7
  <2>10. <<slot[n], s[i]>> \in seen.sent BY <1>10, <2>2, <2>7, <2>8, <2>9 DEF IInv, CompleteInv
  <2> QED BY <2>2, <2>7, <2>10
<1> QED BY <1>7, <1>8, <1>9, <1>10 DEF CompleteInv

\* Unless something the dump watches is gained, a step of another thread takes
\* nothing out of the part that the cursor has passed.
LEMMA OnceKept ==
    ASSUME IInv, Links \/ Commands \/ Command \/ Packets \/ Reclaim, UNCHANGED dump,
           dump.kind # "off", ~seen.addition, ~Gained, seen'.sent = seen.sent
    PROVE  OnceInv'
<1> USE RavenAssumption
<1> DEFINE f == dump.filter
           V == Visited(f)
           W == V'
<1>0. TypeOK /\ RavenInv BY DEF IInv
<1>1. V \in SUBSET (1 .. N) /\ W \in SUBSET (1 .. N) BY DEF Visited
<1>2. \A n \in V : slot[n] \in Dev BY <1>0, <1>1 DEF Visited, RavenInv, RavenTypeOK
<1>3. ASSUME NEW n \in W PROVE n \in V /\ slot'[n] = slot[n]
  <2>1. slot'[n] \in Objects("config", f)' BY DEF Objects
  <2>2. slot'[n] \in Objects("config", f) BY <2>1 DEF Gained
  <2>3. PICK m \in V : slot[m] = slot'[n] BY <2>2, ObjectsFact
  <2>4. slot'[n] = slot[n] BY <1>0, <1>1, <1>2, <2>3, StepShape
  <2> QED BY <1>1, <2>4 DEF Visited
<1>4. \A n \in W : Rank(n) \in 0 .. N /\ Rank(n)' \in 0 .. N /\ Rank(n)' <= Rank(n)
  <2>1. W \in SUBSET V BY <1>3
  <2>2. \A n : Rank(n) = Cardinality({k \in V : k < n}) BY DEF Rank
  <2>3. \A n : Rank(n)' = Cardinality({k \in W : k < n}) BY DEF Rank
  <2> HIDE DEF V, W
  <2>4. \A n \in 1 .. N : /\ Cardinality({k \in V : k < n}) \in 0 .. N
                          /\ Cardinality({k \in W : k < n}) \in 0 .. N
                          /\ Cardinality({k \in W : k < n}) <= Cardinality({k \in V : k < n})
    <3>1. W \in SUBSET W OBVIOUS
    <3>2. \A n \in 1 .. N : Cardinality({k \in W : k < n}) \in 0 .. N BY <1>1, <3>1, CntFact
    <3>3. \A n \in 1 .. N : Cardinality({k \in V : k < n}) \in 0 .. N BY <1>1, <2>1, CntFact
    <3>4. \A n \in 1 .. N : Cardinality({k \in W : k < n}) <= Cardinality({k \in V : k < n})
      BY <1>1, <2>1, CntFact
    <3> QED BY <3>2, <3>3, <3>4
  <2> QED BY <1>1, <2>2, <2>3, <2>4
<1>5. ASSUME NEW n \in W, dump.kind = "config", slot'[n] \in seen.sent PROVE PassedDevice(n)'
  <2>1. PassedDevice(n) BY <1>3, <1>5 DEF IInv, OnceInv
  <2> QED BY <1>0, <1>4, <2>1 DEF PassedDevice, TypeOK
<1>6. ASSUME NEW n \in W, NEW j \in DOMAIN tab'[slot'[n]], dump.kind = "entry",
             <<slot'[n], tab'[slot'[n]][j]>> \in seen.sent
      PROVE  PassedEntry(n, j)'
  <2> DEFINE s == tab[slot[n]]
             t == tab'[slot[n]]
  <2>1. n \in V /\ slot'[n] = slot[n] /\ j \in DOMAIN t BY <1>3, <1>6
  <2>2. ~Grown(s, t)
    <3>1. ASSUME NEW x \in Range(t) PROVE x \in Range(s)
      <4>1. <<slot[n], x>> \in Objects("entry", f)' BY <2>1 DEF Objects
      <4>2. <<slot[n], x>> \in Objects("entry", f) BY <1>6, <4>1 DEF Gained
      <4>3. PICK k \in V : slot[n] = slot[k] /\ x \in Range(tab[slot[k]])
        BY <4>2, ObjectsFact
      <4> QED BY <4>3
    <3> QED BY <3>1 DEF Grown
  <2>3. t = s \/ Shrunk(s, t) BY <1>0, <1>1, <1>2, <2>1, <2>2, StepShape
  <2>4. s \in Seq(Entry) /\ t \in Seq(Entry)
    BY <1>0, <1>2, <2>1, RavenStep DEF RavenInv, RavenTypeOK
  <2>5. PICK i \in DOMAIN s : i >= j /\ t[j] = s[i]
    <3>1. CASE t = s BY <2>1, <2>4, <3>1
    <3>2. CASE Shrunk(s, t) BY <2>1, <3>2 DEF Shrunk
    <3> QED BY <2>3, <3>1, <3>2
  <2>6. PassedEntry(n, i) BY <1>6, <2>1, <2>5 DEF IInv, OnceInv
  <2>7. i \in Nat /\ j \in Nat BY <2>1, <2>4, <2>5
  <2>8. Rank(n) \in 0 .. N /\ Rank(n)' \in 0 .. N /\ Rank(n)' <= Rank(n) BY <1>4
  <2>9. dump.a0 \in Nat /\ dump.a1 \in 0 .. N BY <1>0 DEF TypeOK
  <2>10. Rank(n)' < dump.a1 \/ (Rank(n)' = dump.a1 /\ j <= dump.a0)
    BY <2>5, <2>6, <2>7, <2>8, <2>9 DEF PassedEntry
  <2> QED BY <2>10 DEF PassedEntry
<1> QED BY <1>5, <1>6 DEF OnceInv
\* A step of another thread keeps the invariant.
LEMMA BesideStep ==
    ASSUME IInv, Links \/ Commands \/ Command \/ Packets \/ Reclaim, UNCHANGED dump,
           seen' = IF dump.kind = "off" THEN seen
                   ELSE [seen EXCEPT !.removal = @ \/ Lost, !.addition = @ \/ Gained]
    PROVE  IInv'
<1>1. RavenInv' BY RavenStep DEF IInv
<1>2. CASE dump.kind = "off"
  <2>1. seen' = seen BY <1>2
  <2>2. TypeOK' BY <1>1, <2>1 DEF IInv, TypeOK, RavenInv
  <2> QED BY <1>1, <1>2, <2>1, <2>2 DEF IInv, CompleteInv, OnceInv, DumpOnce
<1>3. CASE dump.kind # "off"
  <2> DEFINE r == seen.removal \/ Lost
             a == seen.addition \/ Gained
  <2>1. r \in BOOLEAN /\ a \in BOOLEAN OBVIOUS
  <2>2. seen' = [seen EXCEPT !.removal = r, !.addition = a] BY <1>3
  <2>3. (~r => ~seen.removal /\ ~Lost) /\ (~a => ~seen.addition /\ ~Gained) OBVIOUS
  <2> HIDE DEF r, a
  <2>4. /\ seen' \in [kept : SUBSET Object, sent : SUBSET Object,
                     again : BOOLEAN, removal : BOOLEAN, addition : BOOLEAN]
        /\ seen'.kept = seen.kept /\ seen'.sent = seen.sent /\ seen'.again = seen.again
        /\ seen'.removal = r /\ seen'.addition = a
    BY <2>1, <2>2 DEF IInv, TypeOK
  <2>5. TypeOK' BY <1>1, <2>4 DEF IInv, TypeOK, RavenInv
  <2>6. CompleteInv'
    <3>1. CASE r BY <2>4, <3>1 DEF CompleteInv
    <3>2. CASE ~r BY <1>3, <2>3, <2>4, <3>2, CompleteKept
    <3> QED BY <3>1, <3>2
  <2>7. OnceInv'
    <3>1. CASE a BY <2>4, <3>1 DEF OnceInv
    <3>2. CASE ~a BY <1>3, <2>3, <2>4, <3>2, OnceKept
    <3> QED BY <3>1, <3>2
  <2>8. DumpOnce' BY <2>3, <2>4 DEF IInv, DumpOnce
  <2> QED BY <1>1, <1>3, <2>5, <2>6, <2>7, <2>8 DEF IInv
<1> QED BY <1>2, <1>3

\* Nothing of a dump changes what the other threads rely on.
LEMMA RavenKept ==
    ASSUME RavenInv, UNCHANGED raven, nops' \in 0 .. MaxOps
    PROVE  RavenInv'
BY DEF raven, RavenInv, RavenTypeOK, SlotInv, TableInv, NlInv, TxInv, EntriesMatchConfig,
       PacketEntryLive, HarmOnlyByOverlap

\* A dump that starts has passed nothing.
LEMMA StartStep ==
    ASSUME IInv, NEW kind \in {"config", "entry"}, NEW f \in Dev \cup {NULL}, Start(kind, f)
    PROVE  IInv'
<1> USE RavenAssumption DEF Start
<1>1. /\ dump' = [kind |-> kind, filter |-> f, a0 |-> 0, a1 |-> 0]
      /\ seen' = [kept |-> Objects(kind, f), sent |-> {}, again |-> FALSE,
                  removal |-> FALSE, addition |-> FALSE]
  BY DEF NoDump, NothingSeen
<1>2. nops' \in 0 .. MaxOps BY DEF Count, IInv, TypeOK, RavenTypeOK
<1>3. RavenInv' BY <1>2, RavenKept DEF IInv
<1>4. Objects(kind, f)' = Objects(kind, f) BY DEF Objects, Visited, raven
<1>5. Objects(kind, f) \subseteq Object
  <2>1. ASSUME NEW n \in Visited(f) PROVE slot[n] \in Dev /\ Range(tab[slot[n]]) \subseteq Entry
    BY DEF Visited, IInv, TypeOK, RavenTypeOK, Range
  <2> QED BY <2>1 DEF Objects, Object
<1> HIDE DEF Start
<1>6. TypeOK'
  <2>1. dump' \in [kind : Kind, filter : Dev \cup {NULL}, a0 : Nat, a1 : 0 .. N] BY <1>1 DEF Kind
  <2>2. seen' \in [kept : SUBSET Object, sent : SUBSET Object,
                   again : BOOLEAN, removal : BOOLEAN, addition : BOOLEAN]
    <3> DEFINE o == Objects(kind, f)
    <3> HIDE DEF o
    <3>1. o \in SUBSET Object BY <1>5 DEF o
    <3>2. seen' = [kept |-> o, sent |-> {}, again |-> FALSE, removal |-> FALSE, addition |-> FALSE]
      BY <1>1 DEF o
    <3> QED BY <3>1, <3>2
  <2> QED BY <1>3, <2>1, <2>2 DEF TypeOK, RavenInv
<1>7. CompleteInv'
  <2>1. \A n \in Visited(f)' : Rank(n)' \in 0 .. N
    <3> DEFINE V == Visited(f)'
    <3>1. V \in SUBSET (1 .. N) /\ V \in SUBSET V BY DEF Visited
    <3>2. dump'.filter = f BY <1>1
    <3>3. \A n : Rank(n)' = Cardinality({k \in V : k < n}) BY <3>2 DEF Rank
    <3> HIDE DEF V
    <3>4. \A n \in 1 .. N : Cardinality({k \in V : k < n}) \in 0 .. N BY <3>1, CntFact
    <3> QED BY <3>1, <3>3, <3>4 DEF V
  <2>2. ASSUME NEW n \in Visited(f)' PROVE ~PassedDevice(n)'
    <3>1. dump'.a0 = 0 BY <1>1
    <3>2. Rank(n)' \in 0 .. N BY <2>1
    <3>3. ~(Rank(n)' < dump'.a0) BY <3>1, <3>2
    <3> QED BY <3>3 DEF PassedDevice
  <2>3. ASSUME NEW n \in Visited(f)', NEW j \in DOMAIN tab'[slot'[n]] PROVE ~PassedEntry(n, j)'
    <3>1. slot'[n] \in Dev BY <1>3 DEF Visited, RavenInv, RavenTypeOK
    <3>2. tab'[slot'[n]] \in Seq(Entry) BY <1>3, <3>1 DEF RavenInv, RavenTypeOK
    <3>3. j \in Nat /\ j > 0 BY <3>2
    <3>4. dump'.a0 = 0 /\ dump'.a1 = 0 BY <1>1
    <3>5. Rank(n)' \in 0 .. N BY <2>1
    <3>6. ~(Rank(n)' < dump'.a1) /\ ~(j <= dump'.a0) BY <3>3, <3>4, <3>5
    <3> QED BY <3>6 DEF PassedEntry
  <2> QED BY <1>1, <1>4, <2>2, <2>3 DEF CompleteInv
<1>8. OnceInv' /\ DumpOnce' BY <1>1 DEF OnceInv, DumpOnce
<1>9. dump'.kind # "off" BY <1>1
<1> QED BY <1>3, <1>6, <1>7, <1>8, <1>9 DEF IInv

\* A dump that ends leaves no trace.
LEMMA FinishStep ==
    ASSUME IInv, Finish, UNCHANGED rvars
    PROVE  IInv'
<1> USE RavenAssumption DEF Finish, NoDump, NothingSeen
<1>1. RavenInv' BY RavenKept DEF IInv, rvars, raven, RavenInv, RavenTypeOK
<1>2. TypeOK' BY <1>1 DEF TypeOK, RavenInv, Kind
<1>3. CompleteInv' /\ OnceInv' /\ DumpOnce' BY DEF CompleteInv, OnceInv, DumpOnce
<1> QED BY <1>1, <1>2, <1>3 DEF IInv

\* What the cursor has passed when an object is sent: the dump reads one object
\* that it had not passed, passes it, and passes no other one that it did not send.
LEMMA SentStep ==
    ASSUME IInv, UNCHANGED rvars, dump.kind # "off",
           NEW o \in Object, NEW a0 \in Nat, NEW a1 \in 0 .. N, Send(o, a0, a1),
           \A n \in Visited(dump.filter) :
              dump.kind = "config" =>
                /\ slot[n] = o => ~PassedDevice(n)
                /\ Rank(n) < a0 <=> PassedDevice(n) \/ slot[n] = o,
           \A n \in Visited(dump.filter) : \A j \in DOMAIN tab[slot[n]] :
              dump.kind = "entry" =>
                /\ <<slot[n], tab[slot[n]][j]>> = o => ~PassedEntry(n, j)
                /\ Rank(n) < a1 \/ (Rank(n) = a1 /\ j <= a0) <=>
                      PassedEntry(n, j) \/ <<slot[n], tab[slot[n]][j]>> = o,
           o \in seen.sent =>
             \/ \E n \in Visited(dump.filter) : dump.kind = "config" /\ slot[n] = o
             \/ \E n \in Visited(dump.filter) : \E j \in DOMAIN tab[slot[n]] :
                    dump.kind = "entry" /\ <<slot[n], tab[slot[n]][j]>> = o
    PROVE  IInv'
<1> USE RavenAssumption
<1>1. RavenInv' BY RavenKept DEF IInv, rvars, raven, RavenInv, RavenTypeOK
<1>2. dump' = [dump EXCEPT !.a0 = a0, !.a1 = a1] BY DEF Send
<1>3. /\ dump' \in [kind : Kind, filter : Dev \cup {NULL}, a0 : Nat, a1 : 0 .. N]
      /\ dump'.kind = dump.kind /\ dump'.filter = dump.filter /\ dump'.a0 = a0 /\ dump'.a1 = a1
  BY <1>2 DEF IInv, TypeOK
<1> DEFINE b == seen.again \/ o \in seen.sent
<1>4. b \in BOOLEAN /\ seen' = [seen EXCEPT !.sent = seen.sent \cup {o}, !.again = b] BY DEF Send
<1>5. b <=> seen.again \/ o \in seen.sent OBVIOUS
<1> HIDE DEF b
<1>6. /\ seen' \in [kept : SUBSET Object, sent : SUBSET Object,
                   again : BOOLEAN, removal : BOOLEAN, addition : BOOLEAN]
      /\ seen'.kept = seen.kept /\ seen'.sent = seen.sent \cup {o} /\ seen'.again = b
      /\ seen'.removal = seen.removal /\ seen'.addition = seen.addition
  BY <1>4 DEF IInv, TypeOK
<1>7. TypeOK' BY <1>1, <1>3, <1>6 DEF TypeOK, RavenInv
<1>8. /\ slot' = slot /\ tab' = tab
      /\ Visited(dump.filter)' = Visited(dump.filter)
      /\ Objects(dump.kind, dump.filter)' = Objects(dump.kind, dump.filter)
  BY <1>3 DEF rvars, Visited, Objects
<1>9. \A n : Rank(n)' = Rank(n) BY <1>8 DEF Rank
<1>10. \A n \in Visited(dump.filter) :
          dump.kind = "config" => (PassedDevice(n)' <=> PassedDevice(n) \/ slot[n] = o)
  BY <1>3, <1>9 DEF PassedDevice
<1>11. \A n \in Visited(dump.filter) : \A j \in DOMAIN tab[slot[n]] :
          dump.kind = "entry" =>
            (PassedEntry(n, j)' <=> PassedEntry(n, j) \/ <<slot[n], tab[slot[n]][j]>> = o)
  BY <1>3, <1>9 DEF PassedEntry
<1>12. CompleteInv' BY <1>3, <1>6, <1>8, <1>10, <1>11 DEF IInv, CompleteInv
<1>13. OnceInv' BY <1>3, <1>6, <1>8, <1>10, <1>11 DEF IInv, OnceInv
<1>14. DumpOnce' BY <1>5, <1>6 DEF IInv, OnceInv, DumpOnce
<1> QED BY <1>1, <1>3, <1>7, <1>12, <1>13, <1>14 DEF IInv

\* A part of a configuration dump.
LEMMA ConfigStep ==
    ASSUME IInv, ConfigPart
    PROVE  IInv'
<1> USE RavenAssumption
<1> DEFINE V == Visited(dump.filter)
           left == {n \in V : Rank(n) >= dump.a0}
           n == Min(left)
<1>1. dump.kind = "config" /\ UNCHANGED rvars BY DEF ConfigPart
<1>2. CASE ~(left # {} /\ oc[slot[n]] # NULL) BY <1>1, <1>2, FinishStep DEF ConfigPart
<1>3. CASE left # {} /\ oc[slot[n]] # NULL
  <2>1. V \in SUBSET (1 .. N) BY DEF Visited
  <2>2. left \in SUBSET Nat BY <2>1
  <2>3. n \in left /\ \A m \in left : n <= m BY <1>3, <2>2, MinFact
  <2>4. Send(slot[n], Rank(n) + 1, 0) BY <1>3 DEF ConfigPart, Past
  <2> HIDE DEF n
  <2>5. n \in V /\ n \in 1 .. N /\ slot[n] \in Dev
    BY <2>1, <2>3 DEF Visited, IInv, TypeOK, RavenTypeOK
  <2>6. ASSUME NEW m \in V PROVE Rank(m) \in Nat /\ m \in Nat
    <3>1. Rank(m) \in 0 .. N BY RankFact
    <3>2. m \in 1 .. N BY <2>1
    <3> QED BY <3>1, <3>2
  <2>7. dump.a0 \in Nat BY DEF IInv, TypeOK
  <2>8. ASSUME NEW m \in V
        PROVE  /\ slot[m] = slot[n] => ~PassedDevice(m)
               /\ Rank(m) < Rank(n) + 1 <=> PassedDevice(m) \/ slot[m] = slot[n]
    <3>0. m \in Nat /\ n \in Nat /\ Rank(m) \in Nat /\ Rank(n) \in Nat BY <2>5, <2>6
    <3>1. slot[m] = slot[n] => m = n BY <2>1, <2>5 DEF IInv, RavenInv, SlotInv
    <3>2. ~PassedDevice(n) BY <2>3, <2>6, <2>7 DEF PassedDevice
    <3>3. CASE m = n BY <2>6, <3>2, <3>3
    <3>4. CASE m < n
      <4>1. m \notin left BY <2>3, <2>6, <3>4
      <4>2. PassedDevice(m) BY <2>6, <2>7, <4>1 DEF PassedDevice
      <4>3. Rank(m) < Rank(n) BY <2>5, <3>4, RankFact
      <4>4. slot[m] # slot[n] BY <3>0, <3>1, <3>4
      <4>5. Rank(m) < Rank(n) + 1 BY <3>0, <4>3
      <4> QED BY <4>2, <4>4, <4>5
    <3>5. CASE m > n
      <4>1. Rank(n) < Rank(m) BY <2>5, <3>5, RankFact
      <4>2. ~PassedDevice(m) BY <2>3, <2>6, <2>7, <4>1 DEF PassedDevice
      <4>3. slot[m] # slot[n] BY <3>0, <3>1, <3>5
      <4>4. ~(Rank(m) < Rank(n) + 1) BY <3>0, <4>1
      <4> QED BY <4>2, <4>3, <4>4
    <3>6. m = n \/ m < n \/ m > n BY <3>0
    <3> QED BY <3>3, <3>4, <3>5, <3>6
  <2>9. slot[n] \in Object /\ Rank(n) + 1 \in Nat /\ 0 \in 0 .. N
    BY <2>5, <2>6 DEF Object
  <2> HIDE DEF V, left
  <2> QED BY <1>1, <2>4, <2>5, <2>8, <2>9, SentStep DEF V
<1> QED BY <1>2, <1>3

\* A part of an entry dump: the devices before the one it finds are exhausted.
LEMMA EntryStep ==
    ASSUME IInv, EntryPart
    PROVE  IInv'
<1> USE RavenAssumption
<1> DEFINE V == Visited(dump.filter)
           left == {n \in V : Rank(n) >= dump.a1 /\ Skipped(Rank(n)) < Len(tab[slot[n]])}
           n == Min(left)
           k == Skipped(Rank(n))
           o == <<slot[n], tab[slot[n]][k + 1]>>
<1>1. dump.kind = "entry" /\ UNCHANGED rvars BY DEF EntryPart
<1>2. CASE left = {} BY <1>1, <1>2, FinishStep DEF EntryPart
<1>3. CASE left # {}
  <2>1. V \in SUBSET (1 .. N) BY DEF Visited
  <2>2. left \in SUBSET Nat BY <2>1
  <2>3. n \in left /\ \A m \in left : n <= m BY <1>3, <2>2, MinFact
  <2>4. Send(o, k + 1, Rank(n)) BY <1>3 DEF EntryPart, Past, Device
  <2> HIDE DEF n
  <2>5. n \in V BY <2>3
  <2>6. ASSUME NEW m \in V
        PROVE  /\ m \in Nat /\ Rank(m) \in Nat /\ Rank(m) \in 0 .. N
               /\ slot[m] \in Dev /\ tab[slot[m]] \in Seq(Entry) /\ IsInjective(tab[slot[m]])
    <3>1. Rank(m) \in 0 .. N BY RankFact
    <3>2. m \in 1 .. N /\ slot[m] # NULL BY <2>1 DEF Visited
    <3>3. slot[m] \in Dev BY <3>2 DEF IInv, TypeOK, RavenTypeOK
    <3> QED BY <3>1, <3>2, <3>3 DEF IInv, RavenInv, RavenTypeOK, TableInv
  <2>7. dump.a0 \in Nat /\ dump.a1 \in Nat BY DEF IInv, TypeOK
  <2>8. \A r : Skipped(r) = IF r = dump.a1 THEN dump.a0 ELSE 0 BY DEF Skipped
  <2>9. k \in Nat /\ k < Len(tab[slot[n]]) /\ Rank(n) >= dump.a1 BY <2>3, <2>7, <2>8
  <2>10. k = IF Rank(n) = dump.a1 THEN dump.a0 ELSE 0 BY <2>8
  <2> HIDE DEF k
  <2>11. k + 1 \in DOMAIN tab[slot[n]] BY <2>5, <2>6, <2>9
  <2>12. ASSUME NEW m \in V, NEW j \in DOMAIN tab[slot[m]]
         PROVE  /\ <<slot[m], tab[slot[m]][j]>> = o => ~PassedEntry(m, j)
                /\ Rank(m) < Rank(n) \/ (Rank(m) = Rank(n) /\ j <= k + 1) <=>
                      PassedEntry(m, j) \/ <<slot[m], tab[slot[m]][j]>> = o
    <3>1. /\ m \in Nat /\ n \in Nat /\ Rank(m) \in Nat /\ Rank(n) \in Nat
          /\ j \in Nat /\ j >= 1 /\ j <= Len(tab[slot[m]])
      BY <2>5, <2>6
    <3>2. <<slot[m], tab[slot[m]][j]>> = o <=> m = n /\ j = k + 1
      <4>1. ASSUME <<slot[m], tab[slot[m]][j]>> = o PROVE m = n /\ j = k + 1
        <5>1. slot[m] = slot[n] /\ tab[slot[m]][j] = tab[slot[n]][k + 1] BY <4>1
        <5>2. m = n BY <2>1, <2>5, <2>6, <5>1 DEF IInv, RavenInv, SlotInv
        <5>3. j = k + 1 BY <2>5, <2>6, <2>11, <5>1, <5>2 DEF IsInjective
        <5> QED BY <5>2, <5>3
      <4> QED BY <4>1
    <3>3. PassedEntry(m, j) <=> Rank(m) < dump.a1 \/ (Rank(m) = dump.a1 /\ j <= dump.a0)
      BY DEF PassedEntry
    <3> HIDE DEF o
    <3>4. CASE m = n BY <2>7, <2>9, <2>10, <3>1, <3>2, <3>3, <3>4
    <3>5. CASE m < n
      <4>1. Rank(m) < Rank(n) BY <2>5, <3>5, RankFact
      <4>2. m \notin left BY <2>3, <3>1, <3>5
      <4>3. Rank(m) < dump.a1 \/ ~(Skipped(Rank(m)) < Len(tab[slot[m]]))
        BY <2>7, <3>1, <4>2
      <4>4. Len(tab[slot[m]]) \in Nat BY <2>6
      <4>5. PassedEntry(m, j) BY <2>7, <2>8, <3>1, <3>3, <4>3, <4>4
      <4> QED BY <3>1, <3>2, <3>5, <4>1, <4>5
    <3>6. CASE m > n
      <4>1. Rank(n) < Rank(m) BY <2>5, <3>6, RankFact
      <4> QED BY <2>7, <2>9, <3>1, <3>2, <3>3, <3>6, <4>1
    <3>7. m = n \/ m < n \/ m > n BY <3>1
    <3> QED BY <3>4, <3>5, <3>6, <3>7
  <2>13. o \in Object /\ k + 1 \in Nat /\ Rank(n) \in 0 .. N
    BY <2>5, <2>6, <2>9, <2>11 DEF Object
  <2>14. \E m \in V : \E j \in DOMAIN tab[slot[m]] : <<slot[m], tab[slot[m]][j]>> = o
    BY <2>5, <2>11
  <2> HIDE DEF V, left, o
  <2> QED BY <1>1, <2>4, <2>12, <2>13, <2>14, SentStep DEF V
<1> QED BY <1>2, <1>3

\* Every step keeps the invariant.
LEMMA StepInv == IInv /\ [Next]_vars => IInv'
<1> SUFFICES ASSUME IInv, [Next]_vars PROVE IInv'
  OBVIOUS
<1>1. ASSUME NEW k \in {"config", "entry"}, NEW f \in Dev \cup {NULL}, Start(k, f) PROVE IInv'
  BY <1>1, StartStep
<1>2. CASE DumpPart BY <1>2, ConfigStep, EntryStep DEF DumpPart
<1>3. CASE Beside(Links) BY <1>3, BesideStep DEF Beside
<1>4. CASE Beside(Commands) BY <1>4, BesideStep DEF Beside
<1>5. CASE Beside(Command) BY <1>5, BesideStep DEF Beside
<1>6. CASE Beside(Packets) BY <1>6, BesideStep DEF Beside
<1>8. CASE Beside(Reclaim) BY <1>8, BesideStep DEF Beside
<1>7. CASE UNCHANGED vars
  <2>1. UNCHANGED raven /\ UNCHANGED <<nops, dump, seen>> BY <1>7 DEF vars, raven
  <2>2. RavenInv' BY <2>1, RavenKept DEF IInv, TypeOK, RavenTypeOK
  <2>3. Visited(dump.filter)' = Visited(dump.filter) /\ \A n : Rank(n)' = Rank(n)
    BY <2>1 DEF raven, Visited, Rank
  <2>4. Objects(dump.kind, dump.filter)' = Objects(dump.kind, dump.filter)
    BY <2>1 DEF raven, Visited, Objects
  <2>5. TypeOK' BY <2>1, <2>2 DEF IInv, TypeOK, RavenInv
  <2>6. CompleteInv' BY <2>1, <2>3, <2>4 DEF IInv, CompleteInv, PassedDevice, PassedEntry, raven
  <2>7. OnceInv' BY <2>1, <2>3 DEF IInv, OnceInv, PassedDevice, PassedEntry, raven
  <2> QED BY <2>1, <2>2, <2>5, <2>6, <2>7 DEF IInv, DumpOnce
<1> QED BY <1>1, <1>2, <1>3, <1>4, <1>5, <1>6, <1>7, <1>8 DEF Next

\* The inductive invariant holds.
THEOREM IInvHolds == Spec => []IInv
BY InitInv, StepInv, PTL DEF Spec

\* The types hold; a device that finds no free slot is registered nowhere.
THEOREM TypesHold == Spec => []TypeOK
<1>1. IInv => TypeOK BY DEF IInv
<1> QED BY <1>1, IInvHolds, PTL

\* The entries a raven device holds were added under the configuration it has,
\* whatever commands, deletions and packets do meanwhile.
THEOREM EntriesMatchConfigHolds == Spec => []EntriesMatchConfig
<1>1. IInv => EntriesMatchConfig BY DEF IInv, RavenInv
<1> QED BY <1>1, IInvHolds, PTL

\* The entry a raven packet is sent with stays allocated until the packet is over,
\* whatever is deleted beside it.
THEOREM PacketEntryLiveHolds == Spec => []PacketEntryLive
<1>1. IInv => PacketEntryLive BY DEF IInv, RavenInv
<1> QED BY <1>1, IInvHolds, PTL

\* Entries left behind, deleted twice, and uses of a freed device come only from a
\* netlink command that overlapped raven_dellink.
THEOREM HarmOnlyByOverlapHolds == Spec => []HarmOnlyByOverlap
<1>1. IInv => HarmOnlyByOverlap BY DEF IInv, RavenInv
<1> QED BY <1>1, IInvHolds, PTL

\* A dump repeats an object only after an addition.
THEOREM DumpOnceHolds == Spec => []DumpOnce
<1>1. IInv => DumpOnce BY DEF IInv
<1> QED BY <1>1, IInvHolds, PTL

\* A dump whose cursor has passed everything has sent all that was kept, and one
\* that failed at a NIC all that stood before it.
LEMMA FinishComplete ==
    ASSUME IInv, DumpPart, dump.kind # "off", dump'.kind = "off", ~seen.removal,
           NEW x \in seen.kept \ seen.sent
    PROVE  dump.kind = "config" /\ \E n \in Visited(dump.filter) : slot[n] = x /\ Barred(n)
<1> USE RavenAssumption
<1> DEFINE V == Visited(dump.filter)
<1>1. seen.kept \subseteq Objects(dump.kind, dump.filter) BY DEF IInv, CompleteInv
<1>2. dump.a0 \in Nat /\ dump.a1 \in Nat BY DEF IInv, TypeOK
<1>3. \A n \in V : Rank(n) \in Nat
  <2> SUFFICES ASSUME NEW n \in V PROVE Rank(n) \in Nat
    OBVIOUS
  <2>1. Rank(n) \in 0 .. N BY RankFact
  <2> QED BY <2>1
<1>4. ASSUME NEW y, NEW a, NEW b, Send(y, a, b) PROVE FALSE
  <2>1. dump' = [dump EXCEPT !.a0 = a, !.a1 = b] BY <1>4 DEF Send
  <2>2. dump'.kind = dump.kind BY <2>1 DEF IInv, TypeOK
  <2> QED BY <2>2
<1>5. CASE ConfigPart
  <2> DEFINE left == {n \in V : Rank(n) >= dump.a0}
             m == Min(left)
  <2>1. dump.kind = "config" BY <1>5 DEF ConfigPart
  <2>2. PICK n \in V : x = slot[n] BY <1>1, <2>1, ObjectsFact
  <2>3. ~PassedDevice(n) BY <2>1, <2>2 DEF IInv, CompleteInv
  <2>4. n \in left BY <1>2, <1>3, <2>3 DEF PassedDevice
  <2>5. oc[slot[m]] = NULL BY <1>4, <1>5, <2>4 DEF ConfigPart
  <2>6. left \in SUBSET Nat BY DEF Visited
  <2>7. m \in left /\ m <= n BY <2>4, <2>6, MinFact
  <2> HIDE DEF m
  <2>8. Barred(n) BY <2>5, <2>7 DEF Barred
  <2> QED BY <2>1, <2>2, <2>8
<1>6. CASE EntryPart
  <2> DEFINE left == {n \in V : Rank(n) >= dump.a1 /\ Skipped(Rank(n)) < Len(tab[slot[n]])}
  <2>1. left = {} BY <1>4, <1>6 DEF EntryPart
  <2>2. dump.kind = "entry" BY <1>6 DEF EntryPart
  <2>3. x \in seen.sent
    <3>1. PICK n \in V : x \in {slot[n]} \X Range(tab[slot[n]]) BY <1>1, <2>2 DEF Objects
    <3>2. PICK j \in DOMAIN tab[slot[n]] : x = <<slot[n], tab[slot[n]][j]>> BY <3>1 DEF Range
    <3>3. slot[n] \in Dev BY DEF Visited, IInv, TypeOK, RavenTypeOK
    <3>4. tab[slot[n]] \in Seq(Entry) BY <3>3 DEF IInv, TypeOK, RavenTypeOK
    <3>5. j \in Nat /\ j >= 1 /\ j <= Len(tab[slot[n]]) /\ Len(tab[slot[n]]) \in Nat BY <3>4
    <3>6. Rank(n) < dump.a1 \/ ~(Skipped(Rank(n)) < Len(tab[slot[n]])) BY <1>2, <1>3, <2>1
    <3>7. PassedEntry(n, j) BY <1>2, <1>3, <3>5, <3>6 DEF PassedEntry, Skipped
    <3> QED BY <2>2, <3>2, <3>7 DEF IInv, CompleteInv
  <2> QED BY <2>3
<1> QED BY <1>5, <1>6 DEF DumpPart

\* A dump during which nothing was removed has sent, when it ends, all that was
\* there when it started; only a dump of configurations may end before it, at a
\* NIC that was never configured, and then has sent what stood in the slots before.
THEOREM DumpCompleteHolds == Spec => DumpComplete
<1> DEFINE A == dump.kind # "off" /\ dump'.kind = "off" /\ ~seen.removal
                  => \A o \in seen.kept \ seen.sent :
                        dump.kind = "config" /\ \E n \in Visited(dump.filter) : slot[n] = o /\ Barred(n)
<1>1. ASSUME IInv, [Next]_vars PROVE [A]_vars
  <2>1. CASE DumpPart BY <1>1, <2>1, FinishComplete
  <2>2. CASE UNCHANGED dump BY <2>2
  <2>3. ASSUME NEW k \in {"config", "entry"}, NEW f \in Dev \cup {NULL}, Start(k, f)
        PROVE  dump.kind = "off"
    BY <2>3 DEF Start, NoDump
  <2>4. ASSUME \/ Beside(Links) \/ Beside(Commands) \/ Beside(Command) \/ Beside(Packets)
               \/ Beside(Reclaim)
        PROVE  UNCHANGED dump
    BY <2>4 DEF Beside
  <2> QED BY <1>1, <2>1, <2>2, <2>3, <2>4 DEF Next, vars
<1>2. Spec => [][A]_vars BY <1>1, IInvHolds, PTL DEF Spec
<1> QED BY <1>2 DEF DumpComplete

==============================================================================
