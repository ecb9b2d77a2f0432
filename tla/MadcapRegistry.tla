---------------------------- MODULE MadcapRegistry ----------------------------
(***************************************************************************)
(* The device registry of madcap.ko (src/madcap/madcap.c): the per network *)
(* namespace arrays dev[] and ops[], their write lock, and the lookup      *)
(* get_madcap_ops, which reads the arrays without taking the lock.         *)
(*                                                                         *)
(* A device is registered and unregistered by the probe and remove path of *)
(* its own driver, one call at a time, so there is one writer thread per   *)
(* device; the writers of different devices interleave.  A lookup is made  *)
(* by any thread (a netlink command, an overlay driver that acquires the   *)
(* device) and interleaves with the writers at every array access.         *)
(***************************************************************************)
EXTENDS Naturals, FiniteSets

CONSTANTS
    Dev,      \* the net_devices of madcap capable drivers
    Reader,   \* threads that call get_madcap_ops
    N,        \* MADCAPDEV_PERNET_NUM
    NULL

ASSUME NAssumption == N \in Nat \ {0}
ASSUME NullAssumption == NULL \notin Dev

Slot == 1 .. N

VARIABLES
    dev,      \* madnet->dev[], a device or NULL
    ops,      \* madnet->ops[]: the device whose driver's ops are stored, or NULL
    lock,     \* who holds madnet->lock for writing
    pc,       \* pc[d]: where the writer of d is
    at,       \* at[d]: the writer's loop variable n once it stopped at a slot
              \* (1 again when the call returns)
    ret,      \* ret[d]: what the writer's last call returned
    rd,       \* rd[r]: the lookup r is in
    stable    \* history: the readers whose device was registered all the time
              \* since their lookup began

vars == <<dev, ops, lock, pc, at, ret, rd, stable>>
writer == <<dev, ops, lock, pc, at, ret>>

(***************************************************************************)
(* A lookup: the device asked for, the loop variable, the phase and the    *)
(* result.                                                                 *)
(***************************************************************************)
Lookup == [of : Dev \cup {NULL}, n : 1 .. N + 1,
           phase : {"idle", "scan", "hit", "done"},
           res : Dev \cup {NULL}]

NoLookup == [of |-> NULL, n |-> 1, phase |-> "idle", res |-> NULL]

TypeOK ==
    /\ dev \in [Slot -> Dev \cup {NULL}]
    /\ ops \in [Slot -> Dev \cup {NULL}]
    /\ lock \in Dev \cup {NULL}
    /\ pc \in [Dev -> {"idle", "checked", "found", "stored", "full",
                       "unreg", "clearing"}]
    /\ at \in [Dev -> Slot]
    /\ ret \in [Dev -> {"none", "0", "EEXIST", "ENOMEM", "ENOENT"}]
    /\ rd \in [Reader -> Lookup]
    /\ \A r \in Reader : rd[r].phase = "hit" => rd[r].n \in Slot
    /\ stable \subseteq Reader

Init ==
    /\ dev = [n \in Slot |-> NULL]
    /\ ops = [n \in Slot |-> NULL]
    /\ lock = NULL
    /\ pc = [d \in Dev |-> "idle"]
    /\ at = [d \in Dev |-> 1]
    /\ ret = [d \in Dev |-> "none"]
    /\ rd = [r \in Reader |-> NoLookup]
    /\ stable = {}

Holds(d, n) == dev[n] = d

Registered(d) == \E n \in Slot : Holds(d, n)

-------------------------------------------------------------------------------
(***************************************************************************)
(* madcap_register_device.  The check for an existing entry is made before *)
(* the lock is taken; only the writer of d moves d in or out of a slot, so *)
(* the unlocked scan is one step.                                          *)
(***************************************************************************)
\* Mutant: the check for an existing entry is dropped.
RegisterUnchecked(d) ==
    /\ pc[d] = "idle"
    /\ pc' = [pc EXCEPT ![d] = "checked"]
    /\ UNCHANGED <<dev, ops, lock, at, ret, rd, stable>>

RegisterExists(d) ==
    /\ pc[d] = "idle"
    /\ Registered(d)
    /\ ret' = [ret EXCEPT ![d] = "EEXIST"]
    /\ UNCHANGED <<dev, ops, lock, pc, at, rd, stable>>

RegisterCheck(d) ==
    /\ pc[d] = "idle"
    /\ ~Registered(d)
    /\ pc' = [pc EXCEPT ![d] = "checked"]
    /\ UNCHANGED <<dev, ops, lock, at, ret, rd, stable>>

\* Mutant: the lock is taken although another writer holds it.
WriteLockNotExclusive(d) == lock' = d

WriteLock(d) == lock = NULL /\ lock' = d

WriteUnlock == lock' = NULL

\* Mutant: the scan stops at a slot that is in use.
RegisterFindAny(d) ==
    /\ pc[d] = "checked"
    /\ WriteLock(d)
    /\ \E n \in Slot : at' = [at EXCEPT ![d] = n]
    /\ pc' = [pc EXCEPT ![d] = "found"]
    /\ UNCHANGED <<dev, ops, ret, rd, stable>>

\* The scan under the lock stops at the first slot without a device ...
RegisterFind(d) ==
    /\ pc[d] = "checked"
    /\ WriteLock(d)
    /\ \E n \in Slot :
          /\ dev[n] = NULL
          /\ \A m \in 1 .. n - 1 : dev[m] # NULL
          /\ at' = [at EXCEPT ![d] = n]
    /\ pc' = [pc EXCEPT ![d] = "found"]
    /\ UNCHANGED <<dev, ops, ret, rd, stable>>

\* Mutant: the loop runs off the end and stores there.
RegisterPastEnd(d) ==
    /\ pc[d] = "checked"
    /\ WriteLock(d)
    /\ \A n \in Slot : dev[n] # NULL
    /\ at' = [at EXCEPT ![d] = N + 1]
    /\ pc' = [pc EXCEPT ![d] = "found"]
    /\ UNCHANGED <<dev, ops, ret, rd, stable>>

\* ... or runs off the end of the array.
RegisterFull(d) ==
    /\ pc[d] = "checked"
    /\ WriteLock(d)
    /\ \A n \in Slot : dev[n] # NULL
    /\ pc' = [pc EXCEPT ![d] = "full"]
    /\ UNCHANGED <<dev, ops, at, ret, rd, stable>>

\* Mutant: the error path forgets the unlock.
RegisterFailLocked(d) ==
    /\ pc[d] = "full"
    /\ pc' = [pc EXCEPT ![d] = "idle"]
    /\ ret' = [ret EXCEPT ![d] = "ENOMEM"]
    /\ UNCHANGED <<dev, ops, lock, at, rd, stable>>

RegisterFail(d) ==
    /\ pc[d] = "full"
    /\ WriteUnlock
    /\ pc' = [pc EXCEPT ![d] = "idle"]
    /\ ret' = [ret EXCEPT ![d] = "ENOMEM"]
    /\ UNCHANGED <<dev, ops, at, rd, stable>>

\* Mutant: dev[n] is published before ops[n] is stored.
RegisterPublishFirst(d) ==
    /\ pc[d] = "found"
    /\ dev' = [dev EXCEPT ![at[d]] = d]
    /\ pc' = [pc EXCEPT ![d] = "stored"]
    /\ UNCHANGED <<ops, lock, at, ret, rd, stable>>

\* ops[n] is stored before dev[n], which is what a lookup compares.
RegisterStoreOps(d) ==
    /\ pc[d] = "found"
    /\ ops' = [ops EXCEPT ![at[d]] = d]
    /\ pc' = [pc EXCEPT ![d] = "stored"]
    /\ UNCHANGED <<dev, lock, at, ret, rd, stable>>

RegisterStoreDev(d) ==
    /\ pc[d] = "stored"
    /\ dev' = [dev EXCEPT ![at[d]] = d]
    /\ WriteUnlock
    /\ pc' = [pc EXCEPT ![d] = "idle"]
    /\ at' = [at EXCEPT ![d] = 1]
    /\ ret' = [ret EXCEPT ![d] = "0"]
    /\ UNCHANGED <<ops, rd, stable>>

-------------------------------------------------------------------------------
(***************************************************************************)
(* madcap_unregister_device: under the lock, every slot that holds d loses *)
(* its dev and then its ops.  The loop has no break, so n is N when it     *)
(* ends and the function returns -ENOENT whether or not it found d.        *)
(***************************************************************************)
UnregisterLock(d) ==
    /\ pc[d] = "idle"
    /\ WriteLock(d)
    /\ pc' = [pc EXCEPT ![d] = "unreg"]
    /\ stable' = {r \in stable : rd[r].of # d}
    /\ UNCHANGED <<dev, ops, at, ret, rd>>

UnregisterClearDev(d) ==
    /\ pc[d] = "unreg"
    /\ \E n \in Slot :
          /\ Holds(d, n)
          /\ dev' = [dev EXCEPT ![n] = NULL]
          /\ at' = [at EXCEPT ![d] = n]
    /\ pc' = [pc EXCEPT ![d] = "clearing"]
    /\ UNCHANGED <<ops, lock, ret, rd, stable>>

\* Mutant: ops[n] keeps its pointer.
UnregisterKeepOps(d) ==
    /\ pc[d] = "clearing"
    /\ pc' = [pc EXCEPT ![d] = "unreg"]
    /\ UNCHANGED <<dev, ops, lock, at, ret, rd, stable>>

UnregisterClearOps(d) ==
    /\ pc[d] = "clearing"
    /\ ops' = [ops EXCEPT ![at[d]] = NULL]
    /\ pc' = [pc EXCEPT ![d] = "unreg"]
    /\ UNCHANGED <<dev, lock, at, ret, rd, stable>>

UnregisterUnlock(d) ==
    /\ pc[d] = "unreg"
    /\ ~Registered(d)
    /\ WriteUnlock
    /\ pc' = [pc EXCEPT ![d] = "idle"]
    /\ at' = [at EXCEPT ![d] = 1]
    /\ ret' = [ret EXCEPT ![d] = "ENOENT"]
    /\ UNCHANGED <<dev, ops, rd, stable>>

-------------------------------------------------------------------------------
(***************************************************************************)
(* get_madcap_ops(d), called by reader r.  dev[n] and ops[n] are two reads *)
(* between which any writer may run.                                       *)
(***************************************************************************)
LookupStart(r, d) ==
    /\ rd[r].phase \in {"idle", "done"}
    /\ rd' = [rd EXCEPT ![r] = [of |-> d, n |-> 1, phase |-> "scan", res |-> NULL]]
    /\ stable' = IF Registered(d) /\ pc[d] \notin {"unreg", "clearing"}
                 THEN stable \cup {r} ELSE stable \ {r}
    /\ UNCHANGED writer

LookupHit(r) ==
    /\ rd[r].phase = "scan"
    /\ rd[r].n \in Slot
    /\ dev[rd[r].n] = rd[r].of
    /\ rd' = [rd EXCEPT ![r].phase = "hit"]
    /\ UNCHANGED <<writer, stable>>

LookupSkip(r) ==
    /\ rd[r].phase = "scan"
    /\ rd[r].n \in Slot
    /\ dev[rd[r].n] # rd[r].of
    /\ rd' = [rd EXCEPT ![r].n = @ + 1]
    /\ UNCHANGED <<writer, stable>>

LookupMiss(r) ==
    /\ rd[r].phase = "scan"
    /\ rd[r].n = N + 1
    /\ rd' = [rd EXCEPT ![r].phase = "done"]
    /\ UNCHANGED <<writer, stable>>

\* Mutant: the loop variable has moved on when ops[n] is read.
LookupReturnNext(r) ==
    /\ rd[r].phase = "hit"
    /\ rd' = [rd EXCEPT ![r].phase = "done",
                        ![r].res = ops[IF rd[r].n = N THEN 1 ELSE rd[r].n + 1]]
    /\ UNCHANGED <<writer, stable>>

LookupReturn(r) ==
    /\ rd[r].phase = "hit"
    /\ rd' = [rd EXCEPT ![r].phase = "done", ![r].res = ops[rd[r].n]]
    /\ UNCHANGED <<writer, stable>>

-------------------------------------------------------------------------------
Write(d) ==
    \/ RegisterExists(d)
    \/ RegisterCheck(d)
    \/ RegisterFind(d)
    \/ RegisterFull(d)
    \/ RegisterFail(d)
    \/ RegisterStoreOps(d)
    \/ RegisterStoreDev(d)
    \/ UnregisterLock(d)
    \/ UnregisterClearDev(d)
    \/ UnregisterClearOps(d)
    \/ UnregisterUnlock(d)

Read(r) ==
    \/ \E d \in Dev : LookupStart(r, d)
    \/ LookupHit(r)
    \/ LookupSkip(r)
    \/ LookupMiss(r)
    \/ LookupReturn(r)

Next == (\E d \in Dev : Write(d)) \/ (\E r \in Reader : Read(r))

Spec == Init /\ [][Next]_vars

(***************************************************************************)
(* A call that has begun runs on, and the write lock is a queued lock:     *)
(* a thread that waits for it gets it.  Nobody has to begin a call.        *)
(***************************************************************************)
Locking(d) == RegisterFind(d) \/ RegisterFull(d)

Running(d) ==
    \/ RegisterFail(d) \/ RegisterStoreOps(d) \/ RegisterStoreDev(d)
    \/ UnregisterClearDev(d) \/ UnregisterClearOps(d) \/ UnregisterUnlock(d)

FairSpec == Spec /\ \A d \in Dev : SF_vars(Locking(d)) /\ WF_vars(Running(d))

-------------------------------------------------------------------------------
\* A device never occupies two slots, although madcap_register_device looks
\* for an existing entry before it takes the lock.
SlotUnique == \A m, n \in Slot : dev[m] = dev[n] /\ dev[m] # NULL => m = n

\* A slot that shows a device shows that device's ops, in every state an
\* unlocked get_madcap_ops or dump can observe.
PublishedOps == \A n \in Slot : dev[n] # NULL => ops[n] = dev[n]

\* A device whose driver was told 0 or -EEXIST is in the table until its own
\* driver unregisters it: no other writer takes its slot.
RegistrationKept ==
    \A d \in Dev : ret[d] \in {"0", "EEXIST"} /\ pc[d] = "idle" => Registered(d)

\* With no writer inside, dev[] and ops[] agree slot by slot: the callers of
\* get_madcap_ops and the dumps, which skip a slot when either is NULL, lose
\* no device and see none that is gone.
ArraysAgree == lock = NULL => dev = ops

\* An unlocked lookup of a device that stays registered while it runs returns
\* that device's ops, whatever the writers of other devices do meanwhile.
LookupCorrect ==
    \A r \in stable : rd[r].phase = "done" => rd[r].res = rd[r].of

(***************************************************************************)
(* The inductive invariant behind the properties above: who is between the *)
(* lock and the unlock holds the lock, and what its slot contains there.   *)
(***************************************************************************)
InLock == {"found", "stored", "full", "unreg", "clearing"}

LockInv == \A d \in Dev : pc[d] \in InLock <=> lock = d

\* The slot contents each point of a writer's critical section implies.
SlotInv ==
    /\ \A d \in Dev : pc[d] = "checked" => ~Registered(d)
    /\ \A d \in Dev : pc[d] = "full" => ~Registered(d)
    /\ \A d \in Dev : pc[d] = "found" =>
          ~Registered(d) /\ dev[at[d]] = NULL /\ ops[at[d]] = NULL
    /\ \A d \in Dev : pc[d] = "stored" =>
          ~Registered(d) /\ dev[at[d]] = NULL /\ ops[at[d]] = d
    /\ \A d \in Dev : pc[d] = "clearing" =>
          ~Registered(d) /\ dev[at[d]] = NULL /\ ops[at[d]] = d
    /\ \A n \in Slot : dev[n] # ops[n] =>
          \E d \in Dev : pc[d] \in {"stored", "clearing"} /\ at[d] = n

\* A lookup of a device that stayed registered is at or before its slot.
LookupInv ==
    \A r \in stable :
        /\ rd[r].of \in Dev
        /\ pc[rd[r].of] \notin {"unreg", "clearing"}
        /\ rd[r].phase = "scan" => \E n \in Slot : Holds(rd[r].of, n) /\ rd[r].n <= n
        /\ rd[r].phase = "hit" => rd[r].n \in Slot /\ Holds(rd[r].of, rd[r].n)
        /\ rd[r].phase = "done" => rd[r].res = rd[r].of

IInv == TypeOK /\ LockInv /\ SlotInv /\ SlotUnique /\ RegistrationKept /\ LookupInv

\* Every madcap_register_device and madcap_unregister_device returns: the lock
\* is released on every path.
CallsReturn == \A d \in Dev : (pc[d] # "idle") ~> (pc[d] = "idle")

\* The two arrays and the lock implement the map drivers are promised.
Map == INSTANCE MadcapMap WITH reg <- {d \in Dev : Registered(d)}, Capacity <- N

MapSpec == Map!Spec
===============================================================================
