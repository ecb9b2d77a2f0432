------------------------- MODULE MadcapRegistryProofs -------------------------
(***************************************************************************)
(* Proofs about the device registry, for every set of devices and readers  *)
(* and every number of slots.                                              *)
(***************************************************************************)
EXTENDS MadcapRegistry, FiniteSetTheorems, TLAPS

\* The actions of madcap_register_device, madcap_unregister_device and
\* get_madcap_ops keep every variable in its type.
THEOREM TypeCorrect == Spec => []TypeOK
<1>1. Init => TypeOK
  BY NAssumption DEF Init, TypeOK, Slot, Lookup, NoLookup
<1>2. TypeOK /\ [Next]_vars => TypeOK'
  <2> SUFFICES ASSUME TypeOK, [Next]_vars PROVE TypeOK'
    OBVIOUS
  <2> USE NAssumption DEF TypeOK, Slot, writer
  <2>1. ASSUME NEW d \in Dev, Write(d) PROVE TypeOK'
    <3>1. CASE RegisterExists(d) BY <3>1 DEF RegisterExists
    <3>2. CASE RegisterCheck(d) BY <3>2 DEF RegisterCheck
    <3>3. CASE RegisterFind(d) BY <3>3 DEF RegisterFind, WriteLock
    <3>4. CASE RegisterFull(d) BY <3>4 DEF RegisterFull, WriteLock
    <3>5. CASE RegisterFail(d) BY <3>5 DEF RegisterFail, WriteUnlock
    <3>6. CASE RegisterStoreOps(d) BY <3>6 DEF RegisterStoreOps
    <3>7. CASE RegisterStoreDev(d) BY <3>7 DEF RegisterStoreDev, WriteUnlock
    <3>8. CASE UnregisterLock(d)
      BY <3>8 DEF UnregisterLock, WriteLock
    <3>9. CASE UnregisterClearDev(d) BY <3>9 DEF UnregisterClearDev
    <3>10. CASE UnregisterClearOps(d) BY <3>10 DEF UnregisterClearOps
    <3>11. CASE UnregisterUnlock(d) BY <3>11 DEF UnregisterUnlock, WriteUnlock
    <3> QED BY <2>1, <3>1, <3>2, <3>3, <3>4, <3>5, <3>6, <3>7, <3>8, <3>9,
               <3>10, <3>11 DEF Write
  <2>2. ASSUME NEW r \in Reader, Read(r) PROVE TypeOK'
    <3> USE DEF Lookup
    <3>1. ASSUME NEW d \in Dev, LookupStart(r, d) PROVE TypeOK'
      BY <3>1 DEF LookupStart, Registered
    <3>2. CASE LookupHit(r) BY <3>2 DEF LookupHit
    <3>3. CASE LookupSkip(r)
      <4>1. rd[r] \in Lookup /\ rd[r].n + 1 \in 1 .. N + 1
        BY <3>3 DEF LookupSkip
      <4>2. [rd[r] EXCEPT !.n = @ + 1] \in Lookup
        BY <4>1
      <4> QED BY <3>3, <4>2 DEF LookupSkip
    <3>4. CASE LookupMiss(r) BY <3>4 DEF LookupMiss
    <3>5. CASE LookupReturn(r)
      <4>1. rd[r] \in Lookup /\ ops[rd[r].n] \in Dev \cup {NULL}
        BY <3>5 DEF LookupReturn
      <4>2. [rd[r] EXCEPT !.phase = "done", !.res = ops[rd[r].n]] \in Lookup
        BY <4>1
      <4> QED BY <3>5, <4>2 DEF LookupReturn
    <3> QED BY <2>2, <3>1, <3>2, <3>3, <3>4, <3>5 DEF Read
  <2>3. CASE UNCHANGED vars BY <2>3 DEF vars
  <2> QED BY <2>1, <2>2, <2>3 DEF Next
<1> QED BY <1>1, <1>2, PTL DEF Spec

\* One step of a writer keeps the invariant on the lock, the slots and the
\* lookups in flight.
LEMMA WriteStep ==
    ASSUME IInv, TypeOK', NEW d \in Dev, Write(d)
    PROVE  IInv'
<1> USE NAssumption, NullAssumption DEF IInv, TypeOK, InLock, Holds, Registered
<1>1. CASE RegisterExists(d)
  <2> USE <1>1 DEF RegisterExists
  <2>1. LockInv' BY DEF LockInv
  <2>2. SlotInv' BY DEF LockInv, SlotInv, SlotUnique, RegistrationKept
  <2>3. SlotUnique' BY DEF LockInv, SlotInv, SlotUnique
  <2>4. RegistrationKept' BY DEF LockInv, SlotInv, SlotUnique, RegistrationKept
  <2>5. LookupInv' BY DEF LockInv, SlotInv, LookupInv
  <2> QED BY <2>1, <2>2, <2>3, <2>4, <2>5
<1>2. CASE RegisterCheck(d)
  <2> USE <1>2 DEF RegisterCheck
  <2>1. LockInv' BY DEF LockInv
  <2>2. SlotInv' BY DEF LockInv, SlotInv, SlotUnique, RegistrationKept
  <2>3. SlotUnique' BY DEF LockInv, SlotInv, SlotUnique
  <2>4. RegistrationKept' BY DEF LockInv, SlotInv, SlotUnique, RegistrationKept
  <2>5. LookupInv' BY DEF LockInv, SlotInv, LookupInv
  <2> QED BY <2>1, <2>2, <2>3, <2>4, <2>5
<1>3. CASE RegisterFind(d)
  <2> USE <1>3 DEF RegisterFind, WriteLock
  <2>1. LockInv' BY DEF LockInv
  <2>2. SlotInv' BY DEF LockInv, SlotInv, SlotUnique, RegistrationKept
  <2>3. SlotUnique' BY DEF LockInv, SlotInv, SlotUnique
  <2>4. RegistrationKept' BY DEF LockInv, SlotInv, SlotUnique, RegistrationKept
  <2>5. LookupInv' BY DEF LockInv, SlotInv, LookupInv
  <2> QED BY <2>1, <2>2, <2>3, <2>4, <2>5
<1>4. CASE RegisterFull(d)
  <2> USE <1>4 DEF RegisterFull, WriteLock
  <2>1. LockInv' BY DEF LockInv
  <2>2. SlotInv' BY DEF LockInv, SlotInv, SlotUnique, RegistrationKept
  <2>3. SlotUnique' BY DEF LockInv, SlotInv, SlotUnique
  <2>4. RegistrationKept' BY DEF LockInv, SlotInv, SlotUnique, RegistrationKept
  <2>5. LookupInv' BY DEF LockInv, SlotInv, LookupInv
  <2> QED BY <2>1, <2>2, <2>3, <2>4, <2>5
<1>5. CASE RegisterFail(d)
  <2> USE <1>5 DEF RegisterFail, WriteUnlock
  <2>1. LockInv' BY DEF LockInv
  <2>2. SlotInv' BY DEF LockInv, SlotInv, SlotUnique, RegistrationKept
  <2>3. SlotUnique' BY DEF LockInv, SlotInv, SlotUnique
  <2>4. RegistrationKept' BY DEF LockInv, SlotInv, SlotUnique, RegistrationKept
  <2>5. LookupInv' BY DEF LockInv, SlotInv, LookupInv
  <2> QED BY <2>1, <2>2, <2>3, <2>4, <2>5
<1>6. CASE RegisterStoreOps(d)
  <2> USE <1>6 DEF RegisterStoreOps
  <2>1. LockInv' BY DEF LockInv
  <2>2. SlotInv' BY DEF LockInv, SlotInv, SlotUnique, RegistrationKept
  <2>3. SlotUnique' BY DEF LockInv, SlotInv, SlotUnique
  <2>4. RegistrationKept' BY DEF LockInv, SlotInv, SlotUnique, RegistrationKept
  <2>5. LookupInv' BY DEF LockInv, SlotInv, LookupInv
  <2> QED BY <2>1, <2>2, <2>3, <2>4, <2>5
<1>7. CASE RegisterStoreDev(d)
  <2> USE <1>7 DEF RegisterStoreDev, WriteUnlock
  <2>1. LockInv' BY DEF LockInv
  <2>2. SlotInv' BY DEF LockInv, SlotInv, SlotUnique, RegistrationKept
  <2>3. SlotUnique' BY DEF LockInv, SlotInv, SlotUnique
  <2>4. RegistrationKept' BY DEF LockInv, SlotInv, SlotUnique, RegistrationKept
  <2>5. LookupInv' BY DEF LockInv, SlotInv, LookupInv
  <2> QED BY <2>1, <2>2, <2>3, <2>4, <2>5
<1>8. CASE UnregisterLock(d)
  <2> USE <1>8 DEF UnregisterLock, WriteLock
  <2>1. LockInv' BY DEF LockInv
  <2>2. SlotInv' BY DEF LockInv, SlotInv, SlotUnique, RegistrationKept
  <2>3. SlotUnique' BY DEF LockInv, SlotInv, SlotUnique
  <2>4. RegistrationKept' BY DEF LockInv, SlotInv, SlotUnique, RegistrationKept
  <2>5. LookupInv' BY DEF LockInv, SlotInv, LookupInv
  <2> QED BY <2>1, <2>2, <2>3, <2>4, <2>5
<1>9. CASE UnregisterClearDev(d)
  <2> USE <1>9 DEF UnregisterClearDev
  <2>1. LockInv' BY DEF LockInv
  <2>2. SlotInv' BY DEF LockInv, SlotInv, SlotUnique, RegistrationKept
  <2>3. SlotUnique' BY DEF LockInv, SlotInv, SlotUnique
  <2>4. RegistrationKept' BY DEF LockInv, SlotInv, SlotUnique, RegistrationKept
  <2>5. LookupInv' BY DEF LockInv, SlotInv, LookupInv
  <2> QED BY <2>1, <2>2, <2>3, <2>4, <2>5
<1>10. CASE UnregisterClearOps(d)
  <2> USE <1>10 DEF UnregisterClearOps
  <2>1. LockInv' BY DEF LockInv
  <2>2. SlotInv' BY DEF LockInv, SlotInv, SlotUnique, RegistrationKept
  <2>3. SlotUnique' BY DEF LockInv, SlotInv, SlotUnique
  <2>4. RegistrationKept' BY DEF LockInv, SlotInv, SlotUnique, RegistrationKept
  <2>5. LookupInv' BY DEF LockInv, SlotInv, LookupInv
  <2> QED BY <2>1, <2>2, <2>3, <2>4, <2>5
<1>11. CASE UnregisterUnlock(d)
  <2> USE <1>11 DEF UnregisterUnlock, WriteUnlock
  <2>1. LockInv' BY DEF LockInv
  <2>2. SlotInv' BY DEF LockInv, SlotInv, SlotUnique, RegistrationKept
  <2>3. SlotUnique' BY DEF LockInv, SlotInv, SlotUnique
  <2>4. RegistrationKept' BY DEF LockInv, SlotInv, SlotUnique, RegistrationKept
  <2>5. LookupInv' BY DEF LockInv, SlotInv, LookupInv
  <2> QED BY <2>1, <2>2, <2>3, <2>4, <2>5
<1> QED BY <1>1, <1>2, <1>3, <1>4, <1>5, <1>6, <1>7, <1>8, <1>9, <1>10, <1>11 DEF Write

\* One step of get_madcap_ops keeps the invariant.
LEMMA ReadStep ==
    ASSUME IInv, TypeOK', NEW r \in Reader, Read(r)
    PROVE  IInv'
<1> USE NAssumption, NullAssumption DEF IInv, TypeOK, Holds, Registered, writer
<1>1. UNCHANGED writer
  BY DEF Read, LookupStart, LookupHit, LookupSkip, LookupMiss, LookupReturn
<1>2. LockInv' /\ SlotInv' /\ SlotUnique' /\ RegistrationKept'
  BY <1>1 DEF LockInv, SlotInv, SlotUnique, RegistrationKept
<1>3. LookupInv'
  <2> USE <1>1 DEF LookupInv, Slot
  <2>1. ASSUME NEW d \in Dev, LookupStart(r, d) PROVE LookupInv'
    BY <2>1 DEF LookupStart
  <2>2. CASE LookupHit(r) BY <2>2 DEF LookupHit
  <2>3. CASE LookupSkip(r) BY <2>3 DEF LookupSkip
  <2>4. CASE LookupMiss(r) BY <2>4 DEF LookupMiss
  <2>5. CASE LookupReturn(r)
    <3>1. rd' = [rd EXCEPT ![r].phase = "done", ![r].res = ops[rd[r].n]] /\ stable' = stable
      BY <2>5 DEF LookupReturn
    <3>2. ASSUME r \in stable PROVE ops[rd[r].n] = rd[r].of
      <4>1. rd[r].n \in Slot /\ dev[rd[r].n] = rd[r].of /\ rd[r].of \in Dev
        BY <2>5, <3>2 DEF LookupReturn
      <4>2. dev[rd[r].n] # NULL
        BY <4>1
      <4>3. \A d \in Dev : pc[d] \in {"stored", "clearing"} => dev[at[d]] = NULL
        BY DEF SlotInv
      <4> QED BY <4>1, <4>2, <4>3 DEF SlotInv
    <3>3. rd' = [rd EXCEPT ![r] = [@ EXCEPT !.phase = "done", !.res = ops[rd[r].n]]]
      BY <3>1
    <3>4. rd'[r].of = rd[r].of /\ rd'[r].phase = "done" /\ rd'[r].res = ops[rd[r].n]
      BY <3>3 DEF Lookup
    <3>5. \A q \in Reader : q # r => rd'[q] = rd[q]
      BY <3>3
    <3> QED BY <3>1, <3>2, <3>4, <3>5
  <2> QED BY <2>1, <2>2, <2>3, <2>4, <2>5 DEF Read
<1> QED BY <1>2, <1>3

\* The inductive invariant of the registry.
THEOREM Inductive == Spec => []IInv
<1>1. Init => IInv
  <2> SUFFICES ASSUME Init PROVE IInv
    OBVIOUS
  <2>1. TypeOK
    BY NAssumption DEF Init, TypeOK, Slot, Lookup, NoLookup
  <2> QED
    BY <2>1, NAssumption, NullAssumption DEF Init, IInv, LockInv, SlotInv, InLock,
       SlotUnique, RegistrationKept, LookupInv, Registered, Holds
<1>2. IInv /\ TypeOK' /\ [Next]_vars => IInv'
  <2>1. CASE UNCHANGED vars
    BY <2>1 DEF vars, IInv, TypeOK, LockInv, SlotInv, InLock, SlotUnique,
       RegistrationKept, LookupInv, Registered, Holds
  <2> QED BY <2>1, WriteStep, ReadStep DEF Next
<1> QED BY <1>1, <1>2, TypeCorrect, PTL DEF Spec

\* A device has at most one slot, although the check for an existing entry is
\* made before the lock is taken.
THEOREM OneSlot == Spec => []SlotUnique
<1>1. IInv => SlotUnique BY DEF IInv
<1> QED BY <1>1, Inductive, PTL

\* A slot that shows a device shows its ops to readers without the lock.
THEOREM OpsPublished == Spec => []PublishedOps
<1>1. IInv => PublishedOps BY NullAssumption DEF IInv, TypeOK, PublishedOps, SlotInv
<1> QED BY <1>1, Inductive, PTL

\* A registration that was reported lasts until its driver ends it.
THEOREM RegistrationLasts == Spec => []RegistrationKept
<1>1. IInv => RegistrationKept BY DEF IInv
<1> QED BY <1>1, Inductive, PTL

\* Whenever the lock is free, dev[] and ops[] agree slot by slot.
THEOREM ArraysInStep == Spec => []ArraysAgree
<1>1. IInv => ArraysAgree
  BY NullAssumption DEF IInv, TypeOK, ArraysAgree, SlotInv, LockInv, InLock
<1> QED BY <1>1, Inductive, PTL

\* A lookup without the lock, of a device that stays registered, finds its ops.
THEOREM Lookups == Spec => []LookupCorrect
<1>1. IInv => LookupCorrect BY DEF IInv, LookupCorrect, LookupInv
<1> QED BY <1>1, Inductive, PTL

\* The devices in the table of the registry, as the map sees them.
LEMMA MapCapacity ==
    ASSUME IInv, NEW n \in Slot, dev[n] = NULL
    PROVE  Cardinality({d \in Dev : Registered(d)}) < N
<1> DEFINE R == {d \in Dev : Registered(d)}
           S == {m \in Slot : dev[m] # NULL}
           f == [m \in S |-> dev[m]]
<1>1. f \in Surjection(S, R)
  BY NullAssumption DEF Surjection, Registered, Holds, IInv, TypeOK
<1>2. IsFiniteSet(Slot) /\ Cardinality(Slot) = N
  BY FS_Interval, NAssumption DEF Slot
<1>3. IsFiniteSet(Slot \ {n}) /\ Cardinality(Slot \ {n}) = N - 1
  BY <1>2, FS_RemoveElement
<1>4. S \in SUBSET (Slot \ {n})
  OBVIOUS
<1>5. IsFiniteSet(S) /\ Cardinality(S) <= N - 1
  BY <1>3, <1>4, FS_Subset
<1>6. IsFiniteSet(R) /\ Cardinality(R) <= Cardinality(S)
  BY <1>1, <1>5, FS_Surjection
<1>7. Cardinality(R) \in Nat /\ Cardinality(S) \in Nat
  BY <1>5, <1>6, FS_CardinalityType
<1> QED BY <1>5, <1>6, <1>7, NAssumption

\* The two arrays, filled and cleared access by access under the lock,
\* implement the map drivers are promised: a device enters it when dev[n] is
\* stored, leaves it when dev[n] is cleared, and there are never more than N.
THEOREM MapRefinement == Spec => MapSpec
<1> DEFINE R == {d \in Dev : Registered(d)}
<1>1. Init => Map!Init
  BY NullAssumption DEF Init, Map!Init, Registered, Holds
<1>2. IInv /\ [Next]_vars => [Map!Next]_R
  <2> SUFFICES ASSUME IInv, [Next]_vars PROVE [Map!Next]_R
    OBVIOUS
  <2> USE NAssumption, NullAssumption DEF Registered, Holds
  <2>1. CASE UNCHANGED dev BY <2>1
  <2>2. ASSUME NEW d \in Dev, RegisterStoreDev(d) PROVE Map!Register(d)
    <3>1. at[d] \in Slot /\ dev[at[d]] = NULL /\ ~Registered(d)
          /\ dev' = [dev EXCEPT ![at[d]] = d]
      BY <2>2 DEF RegisterStoreDev, IInv, TypeOK, SlotInv
    <3>2. R' = R \cup {d}
      BY <3>1 DEF IInv, TypeOK
    <3>3. Cardinality(R) < N
      BY <3>1, MapCapacity
    <3>4. d \notin R
      BY <3>1
    <3> HIDE DEF Registered
    <3>5. Cardinality(R) = Map!Cardinality(R)
      BY DEF Cardinality, Map!Cardinality, IsFiniteSet, Map!IsFiniteSet
    <3> QED BY <3>2, <3>3, <3>4, <3>5 DEF Map!Register
  <2>3. ASSUME NEW d \in Dev, UnregisterClearDev(d) PROVE Map!Unregister(d)
    <3>1. PICK n \in Slot : dev[n] = d /\ dev' = [dev EXCEPT ![n] = NULL]
      BY <2>3 DEF UnregisterClearDev
    <3>2. R' = R \ {d}
      BY <3>1 DEF IInv, TypeOK, SlotUnique
    <3> QED BY <3>1, <3>2 DEF Map!Unregister
  <2> QED
    BY <2>1, <2>2, <2>3 DEF Next, Write, Read, vars, writer, RegisterExists,
       RegisterCheck, RegisterFind, RegisterFull, RegisterFail, RegisterStoreOps,
       UnregisterLock, UnregisterClearOps, UnregisterUnlock, LookupStart, LookupHit,
       LookupSkip, LookupMiss, LookupReturn, Map!Next
<1> QED BY <1>1, <1>2, Inductive, PTL DEF Spec, MapSpec, Map!Spec
===============================================================================
