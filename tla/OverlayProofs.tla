---------------------------- MODULE OverlayProofs ----------------------------
(***************************************************************************)
(* Proofs about OverlaySlots, for any number of slots and devices.         *)
(***************************************************************************)
EXTENDS OverlaySlots, TLAPS

USE NAssumption, KindAssumption, NullAssumption, DriverAssumption DEF Slot, Thread

\* The inductive invariant holds at the start.
LEMMA InitInv == Init => IInv
<1> SUFFICES ASSUME Init PROVE IInv
  OBVIOUS
<1>1. TypeOK
  <2>1. NoCall \in Call BY DEF NoCall, Call
  <2>2. call \in [Thread -> Call] BY <2>1 DEF Init
  <2>3. live \in [Mem -> Kind \cup {"none"}] BY DEF Init
  <2>4. out \in [Mem -> {"none", "encap", "dropped", "bare", "nodst", "tunnel"}] BY DEF Init
  <2>5. vdev \in [Slot -> Mem \cup {NULL}] BY DEF Init
  <2> QED BY <2>2, <2>3, <2>4, <2>5 DEF Init, TypeOK
<1>2. CallInv /\ StoreInv BY DEF Init, CallInv, StoreInv, NoCall
<1>3. VdevUnique /\ KeptInv BY DEF Init, VdevUnique, KeptInv
<1> QED BY <1>1, <1>2, <1>3 DEF IInv

\* Threads that are both acquiring the NIC for one device: its address is reused.
LEMMA DifferentDevices ==
    ASSUME IInv, NEW t \in Thread, NEW u \in Thread, t # u,
           call[t].ph \in {"scan", "store"}, call[u].ph \in {"scan", "store"}
    PROVE  call[t].v # call[u].v \/ call[t].v \in reused
<1> QED BY DEF IInv, CallInv

\* told after a call that has found or written its device in slot n.
LEMMA ToldFact ==
    ASSUME NEW t \in Thread, NEW n \in Slot, Told(t, n)
    PROVE  /\ told' \subseteq told \cup {call[t].v}
           /\ call[t].v \in told' => \A u \in Thread \ {t} : ~AtSlot(u, n)
<1> QED BY DEF Told, Contended

\* sfmc_acquire_dev.
LEMMA AcquireStep ==
    ASSUME IInv, NEW t \in Thread, Acquire(t)
    PROVE  IInv'
<1>1. /\ TypeOK /\ call \in [Thread -> Call] /\ vdev \in [Slot -> Mem \cup {NULL}]
      /\ told \subseteq Mem /\ CallInv /\ StoreInv /\ KeptInv /\ VdevUnique
  BY DEF IInv, TypeOK
<1>2. call[t].ph \in {"scan", "store"} /\ call[t].v \in Mem /\ call[t].n \in Slot /\ reused' = reused
  BY <1>1 DEF Acquire, AcquireExists, AcquireFind, AcquireFull, AcquireStore, CallInv, Call
<1>3. ASSUME Return(t)
      PROVE  /\ call' \in [Thread -> Call] /\ call'[t].ph = "done" /\ call'[t].v = call[t].v
             /\ \A u \in Thread \ {t} : call'[u] = call[u]
  BY <1>1, <1>3 DEF Return, Call
<1>4. ASSUME call' \in [Thread -> Call], call'[t].ph # "none", call'[t].v = call[t].v,
             \A u \in Thread \ {t} : call'[u] = call[u], UNCHANGED <<live, todo>>
      PROVE  CallInv'
  <2>1. \A u \in Thread : /\ call'[u].v = call[u].v /\ (call'[u].ph # "none" => call[u].ph # "none")
                           /\ call'[u].ph \in {"scan", "store"} => call[u].ph \in {"scan", "store"}
    BY <1>2, <1>4
  <2> QED BY <1>1, <1>2, <1>4, <2>1 DEF CallInv
<1>5. ASSUME Return(t), NEW n \in Slot, Told(t, n), vdev'[n] = call[t].v,
             \A s \in Slot \ {n} : vdev'[s] = vdev[s],
             vdev[n] = call[t].v \/ AtSlot(t, n)
      PROVE  KeptInv'
  <2> SUFFICES ASSUME NEW m \in told'
               PROVE  \E s \in Slot : vdev'[s] = m /\ \A u \in Thread : ~AtSlot(u, s)'
    BY DEF KeptInv
  <2>1. \A u \in Thread, s \in Slot : AtSlot(u, s)' => u # t /\ AtSlot(u, s)
    BY <1>3, <1>5 DEF AtSlot
  <2>2. CASE m = call[t].v
    <3>1. \A u \in Thread \ {t} : ~AtSlot(u, n) BY <1>5, <2>2, ToldFact
    <3> QED BY <1>5, <2>1, <2>2, <3>1
  <2>3. CASE m # call[t].v
    <3>1. m \in told BY <1>5, <2>3, ToldFact
    <3>2. PICK s \in Slot : vdev[s] = m /\ \A u \in Thread : ~AtSlot(u, s)
      BY <1>1, <3>1 DEF KeptInv
    <3>3. s # n BY <1>5, <2>3, <3>2
    <3> QED BY <1>5, <2>1, <3>2, <3>3
  <2> QED BY <2>2, <2>3
<1>6. CASE AcquireExists(t)
  <2>1. PICK n \in Slot : vdev[n] = call[t].v /\ Told(t, n) BY <1>6 DEF AcquireExists
  <2>2. Return(t) /\ UNCHANGED <<vdev, live, todo, walking, path, reused, out>> /\ call[t].ph = "scan"
    BY <1>6 DEF AcquireExists
  <2>3. told' \subseteq Mem BY <1>1, <1>2, <2>1, ToldFact
  <2>4. TypeOK' BY <1>1, <1>3, <2>2, <2>3 DEF TypeOK
  <2>5. CallInv' BY <1>3, <1>4, <2>2
  <2>6. VdevUnique' BY <1>1, <2>2 DEF VdevUnique
  <2>7. KeptInv' BY <1>5, <2>1, <2>2 DEF AtSlot
  <2>8. StoreInv' BY <1>1, <1>3, <2>2 DEF StoreInv, Acquired
  <2> QED BY <2>4, <2>5, <2>6, <2>7, <2>8 DEF IInv
<1>7. CASE AcquireFind(t)
  <2>1. PICK n \in Slot : vdev[n] = NULL /\ call' = [call EXCEPT ![t].ph = "store", ![t].n = n]
    BY <1>7 DEF AcquireFind
  <2>2. ~Acquired(call[t].v) /\ UNCHANGED <<vdev, live, todo, walking, path, told, reused, out>>
    BY <1>7 DEF AcquireFind
  <2>3. /\ call' \in [Thread -> Call] /\ call'[t].ph = "store" /\ call'[t].v = call[t].v
        /\ call'[t].n = n /\ \A u \in Thread \ {t} : call'[u] = call[u]
    BY <1>1, <2>1 DEF Call
  <2>4. TypeOK' BY <1>1, <2>2, <2>3 DEF TypeOK
  <2>5. CallInv' BY <1>4, <2>2, <2>3
  <2>6. VdevUnique' BY <1>1, <2>2 DEF VdevUnique
  <2>7. StoreInv' BY <1>1, <2>2, <2>3 DEF StoreInv, Acquired
  <2>8. KeptInv'
    <3> SUFFICES ASSUME NEW m \in told
                 PROVE  \E s \in Slot : vdev[s] = m /\ \A u \in Thread : ~AtSlot(u, s)'
      BY <2>2 DEF KeptInv
    <3>1. PICK s \in Slot : vdev[s] = m /\ \A u \in Thread : ~AtSlot(u, s) BY <1>1 DEF KeptInv
    <3>2. s # n BY <1>1, <2>1, <3>1
    <3> QED BY <2>3, <3>1, <3>2 DEF AtSlot
  <2> QED BY <2>4, <2>5, <2>6, <2>7, <2>8 DEF IInv
<1>8. CASE AcquireFull(t)
  <2>1. /\ told' = told \ {call[t].v} /\ Return(t)
        /\ UNCHANGED <<vdev, live, todo, walking, path, reused, out>>
    BY <1>8 DEF AcquireFull
  <2>2. TypeOK' BY <1>1, <1>3, <2>1 DEF TypeOK
  <2>3. CallInv' BY <1>3, <1>4, <2>1
  <2>4. VdevUnique' BY <1>1, <2>1 DEF VdevUnique
  <2>5. StoreInv' BY <1>1, <1>3, <2>1 DEF StoreInv, Acquired
  <2>6. KeptInv'
    <3>1. \A u \in Thread, s \in Slot : AtSlot(u, s)' => AtSlot(u, s) BY <1>3, <2>1 DEF AtSlot
    <3> QED BY <1>1, <2>1, <3>1 DEF KeptInv
  <2> QED BY <2>2, <2>3, <2>4, <2>5, <2>6 DEF IInv
<1>9. CASE AcquireStore(t)
  <2> DEFINE n == call[t].n
             v == call[t].v
  <2>1. /\ call[t].ph = "store" /\ vdev' = [vdev EXCEPT ![n] = v]
        /\ Told(t, n) /\ Return(t) /\ UNCHANGED <<live, todo, walking, path, reused, out>>
    BY <1>9 DEF AcquireStore
  <2>2. ~Acquired(v) \/ v \in reused BY <1>1, <2>1 DEF StoreInv
  <2>3. n \in Slot /\ v \in Mem BY <1>2
  <2>4. vdev' \in [Slot -> Mem \cup {NULL}] /\ vdev'[n] = v /\ \A m \in Slot \ {n} : vdev'[m] = vdev[m]
    BY <1>1, <2>1, <2>3
  <2>5. \A u \in Thread \ {t} : call[u].ph = "store" => call[u].v # v \/ v \in reused
    BY <1>2, DifferentDevices
  <2>6. told' \subseteq told \cup {v} BY <2>1, <2>3, ToldFact
  <2>7. KeptInv' BY <1>5, <2>1, <2>3, <2>4 DEF AtSlot
  <2> HIDE DEF n, v
  <2>8. TypeOK' BY <1>1, <1>3, <2>1, <2>3, <2>4, <2>6 DEF TypeOK
  <2>9. CallInv' BY <1>3, <1>4, <2>1
  <2>10. VdevUnique' BY <1>1, <2>1, <2>2, <2>3, <2>4 DEF VdevUnique, Acquired
  <2>11. StoreInv'
    <3> SUFFICES ASSUME NEW u \in Thread, call'[u].ph = "store", call'[u].v \notin reused
                 PROVE  \A s \in Slot : vdev'[s] # call'[u].v
      BY <2>1 DEF StoreInv, Acquired
    <3>1. u # t /\ call'[u] = call[u] BY <1>3, <2>1
    <3>2. ~Acquired(call[u].v) /\ call[u].v # v BY <1>1, <2>5, <3>1 DEF StoreInv
    <3> QED BY <2>4, <3>1, <3>2 DEF Acquired
  <2> QED BY <2>7, <2>8, <2>9, <2>10, <2>11 DEF IInv
<1> QED BY <1>6, <1>7, <1>8, <1>9 DEF Acquire

\* A step that neither stores in vdev[] nor adds to told, and that moves no call
\* to its store.
LEMMA SlotsKept ==
    ASSUME IInv, TypeOK', CallInv', vdev' = vdev, told' \subseteq told, reused \subseteq reused',
           \A t \in Thread : call'[t].ph = "store" => call'[t] = call[t]
    PROVE  IInv'
<1>1. VdevUnique' BY DEF IInv, VdevUnique
<1>2. KeptInv'
  <2>1. \A u \in Thread, s \in Slot : AtSlot(u, s)' => AtSlot(u, s) BY DEF AtSlot
  <2> QED BY <2>1 DEF IInv, KeptInv
<1>3. StoreInv' BY DEF IInv, StoreInv, Acquired
<1> QED BY <1>1, <1>2, <1>3 DEF IInv

\* newlink and dellink.
LEMMA RtnlStep ==
    ASSUME IInv, Rtnl
    PROVE  IInv'
<1>1. /\ TypeOK /\ CallInv /\ call \in [Thread -> Call] /\ live \in [Mem -> Kind \cup {"none"}]
      /\ out \in [Mem -> {"none", "encap", "dropped", "bare", "nodst", "tunnel"}]
  BY DEF IInv, TypeOK
<1>2. NoCall \in Call /\ NoCall.ph = "none" BY DEF NoCall, Call
<1>3. ASSUME NEW m \in Mem, NEW k \in Kind, Newlink(m, k) \/ NewTunnel(m, k) PROVE IInv'
  <2>1. /\ call["rtnl"].ph = "none" /\ live[m] = "none"
        /\ live' = [live EXCEPT ![m] = k] /\ told' = told \ {m}
        /\ reused' = reused \cup {d \in {m} : Walked(d)}
        /\ out' = [out EXCEPT ![m] = "none"] /\ UNCHANGED <<vdev, walking, path>>
        /\ todo' = todo \cup {d \in {m} : walking /\ k = "nsh"}
    BY <1>3 DEF Newlink, NewTunnel, Appear, Idle
  <2>2. reused \subseteq reused' /\ reused' \subseteq Mem BY <1>1, <2>1 DEF TypeOK
  <2>3. \/ call' = call
        \/ Acquires(k) /\ call' = [call EXCEPT !["rtnl"] = [ph |-> "scan", v |-> m, n |-> 1]]
    BY <1>3 DEF Newlink, NewTunnel, Start
  <2>4. CASE call' = call
    <3>1. TypeOK' BY <1>1, <2>1, <2>2, <2>4 DEF TypeOK
    <3>2. CallInv' BY <1>1, <2>1, <2>4 DEF CallInv, Walked
    <3> QED BY <2>1, <2>2, <2>4, <3>1, <3>2, SlotsKept
  <2>5. CASE Acquires(k) /\ call' = [call EXCEPT !["rtnl"] = [ph |-> "scan", v |-> m, n |-> 1]]
    <3>2. [ph |-> "scan", v |-> m, n |-> 1] \in Call BY DEF Call
    <3>3. /\ call' \in [Thread -> Call] /\ call'["genl"] = call["genl"]
          /\ call'["rtnl"].ph = "scan" /\ call'["rtnl"].v = m
      BY <1>1, <2>5, <3>2
    <3>4. k \notin {"none", "nsh"} BY <2>5 DEF Acquires
    <3>5. TypeOK' BY <1>1, <2>1, <2>2, <3>3 DEF TypeOK
    <3>6. CallInv' BY <1>1, <2>1, <3>3, <3>4 DEF CallInv, Walked
    <3> QED BY <2>1, <2>2, <3>3, <3>5, <3>6, SlotsKept
  <2> QED BY <2>3, <2>4, <2>5
<1>4. ASSUME call["rtnl"].ph = "done", call' = [call EXCEPT !["rtnl"] = NoCall],
             UNCHANGED <<vdev, todo, walking, path, reused>>, told' \subseteq told,
             live' \in [Mem -> Kind \cup {"none"}],
             \A m \in Mem : live'[m] = live[m] \/ m = call["rtnl"].v,
             out' \in [Mem -> {"none", "encap", "dropped", "bare", "nodst", "tunnel"}]
      PROVE  IInv'
  <2>1. /\ call' \in [Thread -> Call] /\ call'["genl"] = call["genl"]
        /\ call'["rtnl"].ph = "none"
    BY <1>1, <1>2, <1>4
  <2>2. TypeOK' BY <1>1, <1>4, <2>1 DEF TypeOK
  <2>3. todo \subseteq Mem BY <1>1 DEF TypeOK
  <2>4. CallInv' BY <1>1, <1>4, <2>1, <2>3 DEF CallInv
  <2> QED BY <1>4, <2>1, <2>2, <2>4, SlotsKept
<1>5. CASE NewlinkDone
  BY <1>1, <1>4, <1>5 DEF NewlinkDone
<1>6. CASE NewlinkFail
  <2>1. call["rtnl"].v \in Mem BY <1>1, <1>6 DEF NewlinkFail, CallInv
  <2>2. /\ live' \in [Mem -> Kind \cup {"none"}]
        /\ \A m \in Mem : live'[m] = live[m] \/ m = call["rtnl"].v
        /\ out' \in [Mem -> {"none", "encap", "dropped", "bare", "nodst", "tunnel"}]
    BY <1>1, <1>6, <2>1 DEF NewlinkFail, Free
  <2> QED BY <1>4, <1>6, <2>2 DEF NewlinkFail, Free
<1>7. ASSUME NEW m \in Mem, Dellink(m) PROVE IInv'
  <2>1. /\ call["rtnl"].ph = "none" /\ live' = [live EXCEPT ![m] = "none"]
        /\ told' = told \ {m} /\ out' = [out EXCEPT ![m] = "none"]
        /\ todo' = todo \ {m} /\ UNCHANGED <<vdev, call, walking, path, reused>>
    BY <1>7 DEF Dellink, Free, Idle
  <2>2. TypeOK' BY <1>1, <2>1 DEF TypeOK
  <2>3. todo \subseteq Mem BY <1>1 DEF TypeOK
  <2>4. CallInv' BY <1>1, <2>1, <2>3 DEF CallInv
  <2> QED BY <2>1, <2>2, <2>4, SlotsKept
<1> QED BY <1>3, <1>5, <1>6, <1>7 DEF Rtnl

\* The path commands of nsh.
LEMMA GenlStep ==
    ASSUME IInv, Genl
    PROVE  IInv'
<1>1. /\ TypeOK /\ CallInv /\ call \in [Thread -> Call] /\ todo \subseteq Mem
      /\ live \in [Mem -> Kind \cup {"none"}]
  BY DEF IInv, TypeOK
<1>2. NoCall \in Call /\ NoCall.ph = "none" BY DEF NoCall, Call
<1>3. CASE PathDstSet
  <2>1. TypeOK' BY <1>1, <1>3 DEF PathDstSet, TypeOK
  <2>2. CallInv' BY <1>1, <1>3 DEF PathDstSet, CallInv
  <2> QED BY <1>3, <2>1, <2>2, SlotsKept DEF PathDstSet
<1>4. ASSUME NEW m \in Mem, PathAcquire(m) PROVE IInv'
  <2>1. /\ m \in todo /\ todo' = todo \ {m}
        /\ call' = [call EXCEPT !["genl"] = [ph |-> "scan", v |-> m, n |-> 1]]
        /\ UNCHANGED <<vdev, live, walking, path, told, reused, out>>
    BY <1>4 DEF PathAcquire, Start
  <2>2. [ph |-> "scan", v |-> m, n |-> 1] \in Call BY DEF Call
  <2>3. /\ call' \in [Thread -> Call] /\ call'["rtnl"] = call["rtnl"]
        /\ call'["genl"].ph = "scan" /\ call'["genl"].v = m
    BY <1>1, <2>1, <2>2
  <2>4. TypeOK' BY <1>1, <2>1, <2>3 DEF TypeOK
  <2>5. CallInv' BY <1>1, <2>1, <2>3 DEF CallInv
  <2> QED BY <2>1, <2>3, <2>4, <2>5, SlotsKept
<1>5. CASE PathAddTable
  <2>1. /\ call' = [call EXCEPT !["genl"] = NoCall] /\ walking' = FALSE /\ path' \in BOOLEAN
        /\ UNCHANGED <<vdev, live, todo, told, reused, out>>
    BY <1>5 DEF PathAddTable
  <2>2. /\ call' \in [Thread -> Call] /\ call'["rtnl"] = call["rtnl"]
        /\ call'["genl"].ph = "none"
    BY <1>1, <1>2, <2>1
  <2>3. TypeOK' BY <1>1, <2>1, <2>2 DEF TypeOK
  <2>4. CallInv' BY <1>1, <2>1, <2>2 DEF CallInv
  <2> QED BY <2>1, <2>2, <2>3, <2>4, SlotsKept
<1>6. CASE PathDstUnset
  <2>1. TypeOK' BY <1>1, <1>6 DEF PathDstUnset, TypeOK
  <2>2. CallInv' BY <1>1, <1>6 DEF PathDstUnset, CallInv
  <2> QED BY <1>6, <2>1, <2>2, SlotsKept DEF PathDstUnset
<1> QED BY <1>3, <1>4, <1>5, <1>6 DEF Genl

\* A transmission changes nothing but its result.
LEMMA XmitStep ==
    ASSUME IInv, NEW m \in Mem, Xmit(m)
    PROVE  IInv'
<1>1. PICK what \in {"encap", "dropped", "bare", "nodst", "tunnel"} : Result(m, what)
  BY DEF Xmit, XmitNoDst, XmitTunnel, XmitNoPath, XmitNotAcquired, XmitEncap, XmitEncapFails
<1>2. TypeOK' BY <1>1 DEF IInv, TypeOK, Result
<1>3. CallInv' BY <1>1 DEF IInv, CallInv, Result
<1> QED BY <1>1, <1>2, <1>3, SlotsKept DEF Result

\* Every step keeps the inductive invariant.
LEMMA StepInv == IInv /\ [Next]_vars => IInv'
<1> SUFFICES ASSUME IInv, [Next]_vars PROVE IInv'
  OBVIOUS
<1>1. CASE Next
  BY <1>1, AcquireStep, RtnlStep, GenlStep, XmitStep DEF Next
<1>2. CASE UNCHANGED vars
  <2>1. TypeOK' /\ CallInv' BY <1>2 DEF IInv, TypeOK, CallInv, vars
  <2> QED BY <1>2, <2>1, SlotsKept DEF vars
<1> QED BY <1>1, <1>2

\* The inductive invariant holds in every reachable state.
LEMMA Inductive == Spec => []IInv
<1> QED BY InitInv, StepInv, PTL DEF Spec

\* vdev[], the devices and the calls keep their types; no store is past the end
\* of vdev[].
THEOREM TypeCorrect == Spec => []TypeOK
<1>1. IInv => TypeOK BY DEF IInv
<1> QED BY <1>1, Inductive, PTL

\* A device has one slot although its acquisition takes no lock: rtnl and genl
\* acquire for one address only if it is reused under nsh's walk.
THEOREM OneSlotPerDevice == Spec => []VdevUnique
<1>1. IInv => VdevUnique BY DEF IInv
<1> QED BY <1>1, Inductive, PTL

\* An acquisition that was reported, and that no other thread was about to
\* overwrite, lasts as long as the device.
THEOREM AcquisitionLasts == Spec => []AcquireKept
<1>1. IInv => AcquireKept BY DEF IInv, KeptInv, AcquireKept, Acquired
<1> QED BY <1>1, Inductive, PTL

\* With ixgbe no packet that carries the dst of such a device leaves without
\* outer headers.
THEOREM NeverBare == ASSUME Driver = "ixgbe" PROVE Spec => GrantedNeverBare
<1>1. ASSUME IInv, [Next]_vars PROVE [\A m \in told : out'[m] = "bare" => out[m] = "bare"]_vars
  <2> SUFFICES ASSUME Next, NEW m \in told, out'[m] = "bare" PROVE out[m] = "bare"
    BY <1>1
  <2>1. /\ m \in Mem /\ Acquired(m)
        /\ out \in [Mem -> {"none", "encap", "dropped", "bare", "nodst", "tunnel"}]
    BY <1>1 DEF IInv, TypeOK, KeptInv, Acquired
  <2>2. ASSUME NEW d \in Mem, Xmit(d) PROVE out'[m] = "bare" => out[m] = "bare"
    BY <2>1, <2>2
       DEF Xmit, XmitTunnel, XmitNoPath, XmitNoDst, XmitNotAcquired, XmitEncap, XmitEncapFails, Result
  <2>3. CASE \E t \in Thread : Acquire(t)
    BY <2>3 DEF Acquire, AcquireExists, AcquireFind, AcquireFull, AcquireStore
  <2>4. CASE Genl
    BY <2>4 DEF Genl, PathDstSet, PathAcquire, PathAddTable, PathDstUnset
  <2>5. CASE Rtnl
    BY <2>1, <2>5 DEF Rtnl, Newlink, NewTunnel, Appear, NewlinkDone, NewlinkFail, Dellink, Free
  <2> QED BY <2>2, <2>3, <2>4, <2>5 DEF Next
<1> QED BY <1>1, Inductive, PTL DEF Spec, GrantedNeverBare
==============================================================================
