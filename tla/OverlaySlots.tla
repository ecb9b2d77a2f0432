----------------------------- MODULE OverlaySlots -----------------------------
(***************************************************************************)
(* Overlay devices (vxlan, gre, ipip, nsh) on top of one madcap capable    *)
(* NIC: how they acquire it (sfmc_acquire_dev), and what sfmc_encap_packet *)
(* does with their packets because of it.                                  *)
(*                                                                         *)
(* vxlan, gre and ipip acquire the NIC in their newlink operation, under   *)
(* the rtnl lock; nsh acquires it for all its devices when a path is set,  *)
(* under the generic netlink lock.  sfmc_acquire_dev itself takes no lock. *)
(* Every caller ignores its result, and no overlay driver calls            *)
(* madcap_release_dev.  A packet that was routed to an overlay device      *)
(* carries that device in skb_dst, and sfmc_encap_packet looks for the     *)
(* pointer in vdev[]; ARP and bridged packets carry no dst.                *)
(***************************************************************************)
EXTENDS Naturals

CONSTANTS
    Mem,        \* addresses at which a net_device may be allocated
    Kind,       \* overlay drivers that are loaded
    Enabled,    \* those loaded with madcap_enable = 1
    N,          \* SFMC_VDEV_MAX
    Driver,     \* "ixgbe" or "e1000"
    NULL

ASSUME NAssumption == N \in Nat \ {0}
ASSUME KindAssumption == Kind \subseteq {"vxlan", "gre", "ipip", "nsh"} /\ Enabled \subseteq Kind
ASSUME NullAssumption == NULL \notin Mem
ASSUME DriverAssumption == Driver \in {"ixgbe", "e1000"}

Slot == 1 .. N

\* The locks under which sfmc_acquire_dev is called; each serialises its callers.
Thread == {"rtnl", "genl"}

VARIABLES
    vdev,    \* sfmc->vdev[]
    live,    \* live[m]: the overlay device allocated at m, or "none"
    call,    \* call[t]: the call of sfmc_acquire_dev that t is in
    todo,    \* nsh devices the path operation has yet to acquire the NIC for
    walking, \* the path operation is in its loop over the nsh devices
    path,    \* a path over the NIC is in the nsh table (one SPI/SI key)
    told,    \* history: devices for which the NIC was acquired while no other thread
             \* was about to store in the same slot
    reused,  \* history: addresses at which a device appeared while nsh was acquiring the
             \* NIC for the freed device that was there
    out      \* out[m]: what became of the last packet of the device at m

vars == <<vdev, live, call, todo, walking, path, told, reused, out>>

\* A call: scanning, or at a free slot; NULL outside a call.
Call == [ph : {"none", "scan", "store", "done"}, v : Mem \cup {NULL}, n : Slot]

NoCall == [ph |-> "none", v |-> NULL, n |-> 1]

TypeOK ==
    /\ vdev \in [Slot -> Mem \cup {NULL}]
    /\ live \in [Mem -> Kind \cup {"none"}]
    /\ call \in [Thread -> Call]
    /\ todo \subseteq Mem
    /\ walking \in BOOLEAN
    /\ path \in BOOLEAN
    /\ told \subseteq Mem
    /\ reused \subseteq Mem
    /\ out \in [Mem -> {"none", "encap", "dropped", "bare", "nodst", "tunnel"}]

Init ==
    /\ vdev = [n \in Slot |-> NULL]
    /\ live = [m \in Mem |-> "none"]
    /\ call = [t \in Thread |-> NoCall]
    /\ todo = {}
    /\ walking = FALSE
    /\ path = FALSE
    /\ told = {}
    /\ reused = {}
    /\ out = [m \in Mem |-> "none"]

Idle(t) == call[t].ph = "none"

Start(t, m) == call' = [call EXCEPT ![t] = [ph |-> "scan", v |-> m, n |-> 1]]

Return(t) == call' = [call EXCEPT ![t].ph = "done"]

Acquired(m) == \E n \in Slot : vdev[n] = m

\* t has found slot n free and has yet to store there.
AtSlot(t, n) == call[t].ph = "store" /\ call[t].n = n

Contended(t, n) == \E u \in Thread \ {t} : AtSlot(u, n)

Told(t, n) == told' = IF Contended(t, n) THEN told \ {call[t].v} ELSE told \cup {call[t].v}

-------------------------------------------------------------------------------
(***************************************************************************)
(* sfmc_acquire_dev.  Slots are never freed, so the slots a scan has left  *)
(* behind stay in use and the scan is one step; the store is another.      *)
(***************************************************************************)
AcquireExists(t) ==
    /\ call[t].ph = "scan"
    /\ \E n \in Slot : vdev[n] = call[t].v /\ Told(t, n)
    /\ Return(t)
    /\ UNCHANGED <<vdev, live, todo, walking, path, reused, out>>

\* Mutant: the scan for the device itself is dropped.
AcquireFindAgain(t) ==
    /\ call[t].ph = "scan"
    /\ \E n \in Slot :
          /\ vdev[n] = NULL
          /\ \A m \in 1 .. n - 1 : vdev[m] # NULL
          /\ call' = [call EXCEPT ![t].ph = "store", ![t].n = n]
    /\ UNCHANGED <<vdev, live, todo, walking, path, told, reused, out>>

\* Mutant: the scan does not stop at the first free slot and ends at the last.
AcquireFindLast(t) ==
    /\ call[t].ph = "scan"
    /\ ~Acquired(call[t].v)
    /\ call' = [call EXCEPT ![t].ph = "store", ![t].n = N]
    /\ UNCHANGED <<vdev, live, todo, walking, path, told, reused, out>>

AcquireFind(t) ==
    /\ call[t].ph = "scan"
    /\ ~Acquired(call[t].v)
    /\ \E n \in Slot :
          /\ vdev[n] = NULL
          /\ \A m \in 1 .. n - 1 : vdev[m] # NULL
          /\ call' = [call EXCEPT ![t].ph = "store", ![t].n = n]
    /\ UNCHANGED <<vdev, live, todo, walking, path, told, reused, out>>

\* Mutant: the second loop runs off the end and stores there.
AcquirePastEnd(t) ==
    /\ call[t].ph = "scan"
    /\ ~Acquired(call[t].v)
    /\ \A n \in Slot : vdev[n] # NULL
    /\ call' = [call EXCEPT ![t].ph = "store", ![t].n = N + 1]
    /\ UNCHANGED <<vdev, live, todo, walking, path, told, reused, out>>

AcquireFull(t) ==
    /\ call[t].ph = "scan"
    /\ ~Acquired(call[t].v)
    /\ \A n \in Slot : vdev[n] # NULL
    /\ told' = told \ {call[t].v}
    /\ Return(t)
    /\ UNCHANGED <<vdev, live, todo, walking, path, reused, out>>

AcquireStore(t) ==
    /\ call[t].ph = "store"
    /\ vdev' = [vdev EXCEPT ![call[t].n] = call[t].v]
    /\ Told(t, call[t].n)
    /\ Return(t)
    /\ UNCHANGED <<live, todo, walking, path, reused, out>>

-------------------------------------------------------------------------------
(***************************************************************************)
(* The rtnl thread: newlink and dellink of the overlay drivers.  vxlan     *)
(* acquires the NIC whatever its madcap_enable, gre and ipip if it is set. *)
(* After the acquisition newlink may still fail (a duplicate VNI or        *)
(* tunnel, register_netdevice), and the device is freed.                   *)
(***************************************************************************)
Acquires(k) == k = "vxlan" \/ k \in Enabled \ {"nsh"}

\* The device at m is the one a call of nsh's thread is still about.
Walked(m) == call["genl"].ph \in {"scan", "store"} /\ call["genl"].v = m

\* A device of driver k on the NIC, at the address m.
Appear(m, k) ==
    /\ Idle("rtnl")
    /\ live[m] = "none"
    /\ live' = [live EXCEPT ![m] = k]
    /\ told' = told \ {m}
    /\ reused' = reused \cup {d \in {m} : Walked(d)}
    /\ out' = [out EXCEPT ![m] = "none"]
    /\ todo' = todo \cup {d \in {m} : walking /\ k = "nsh"}   \* at the list's tail
    /\ UNCHANGED <<vdev, walking, path>>

Newlink(m, k) ==
    /\ Appear(m, k)
    /\ IF Acquires(k) THEN Start("rtnl", m) ELSE UNCHANGED call

\* A gre or ipip tunnel that an ioctl creates, or that ioctl or changelink moves
\* onto the NIC: nothing acquires the NIC for it.
NewTunnel(m, k) ==
    /\ k \in {"gre", "ipip"}
    /\ Appear(m, k)
    /\ UNCHANGED call

NewlinkDone ==
    /\ call["rtnl"].ph = "done"
    /\ call' = [call EXCEPT !["rtnl"] = NoCall]
    /\ UNCHANGED <<vdev, live, todo, walking, path, told, reused, out>>

Free(m) ==
    /\ live' = [live EXCEPT ![m] = "none"]
    /\ told' = told \ {m}
    /\ out' = [out EXCEPT ![m] = "none"]

NewlinkFail ==
    /\ call["rtnl"].ph = "done"
    /\ Free(call["rtnl"].v)
    /\ call' = [call EXCEPT !["rtnl"] = NoCall]
    /\ UNCHANGED <<vdev, todo, walking, path, reused>>

Dellink(m) ==
    /\ Idle("rtnl")
    /\ live[m] # "none"
    /\ Free(m)
    /\ todo' = todo \ {m}
    /\ UNCHANGED <<vdev, call, walking, path, reused>>

-------------------------------------------------------------------------------
(***************************************************************************)
(* The genl thread: nsh_nl_cmd_path_dst_set with a lower device acquires   *)
(* the NIC for the nsh devices of the moment and then installs the path.   *)
(* A device the walk has reached may be deleted under it.                  *)
(***************************************************************************)
PathDstSet ==
    /\ ~walking
    /\ ~path                       \* else -EEXIST
    /\ walking' = TRUE
    /\ todo' = {m \in Mem : live[m] = "nsh"}
    /\ UNCHANGED <<vdev, live, call, path, told, reused, out>>

PathAcquire(m) ==
    /\ walking
    /\ call["genl"].ph \in {"none", "done"}
    /\ m \in todo
    /\ todo' = todo \ {m}
    /\ Start("genl", m)
    /\ UNCHANGED <<vdev, live, walking, path, told, reused, out>>

\* nsh_add_table may run out of memory, and its result is ignored.
PathAddTable ==
    /\ walking
    /\ call["genl"].ph \in {"none", "done"}
    /\ todo = {}
    /\ walking' = FALSE
    /\ path' \in BOOLEAN
    /\ call' = [call EXCEPT !["genl"] = NoCall]
    /\ UNCHANGED <<vdev, live, todo, told, reused, out>>

PathDstUnset ==
    /\ ~walking
    /\ path                        \* else -ENOENT
    /\ path' = FALSE
    /\ UNCHANGED <<vdev, live, call, todo, walking, told, reused, out>>

-------------------------------------------------------------------------------
(***************************************************************************)
(* Transmission.  The overlay driver hands the packet to the NIC, or sends *)
(* it through its own tunnel code.  The NIC adds the outer headers if the  *)
(* packet has a dst and the device of the dst is found in vdev[]; Sfmc     *)
(* says when that fails.  ixgbe drops a packet for which it fails, e1000   *)
(* sends it as it is.                                                      *)
(***************************************************************************)
Registered(m) == live[m] # "none" /\ (call["rtnl"].ph = "none" \/ call["rtnl"].v # m)

ViaMadcap(m) == live[m] \in Enabled /\ (live[m] = "nsh" => path)

Result(m, what) ==
    /\ out' = [out EXCEPT ![m] = what]
    /\ UNCHANGED <<vdev, live, call, todo, walking, path, told, reused>>

XmitTunnel(m) == Registered(m) /\ ~ViaMadcap(m) /\ live[m] # "nsh" /\ Result(m, "tunnel")

\* nsh without a path: tx_err.
XmitNoPath(m) == Registered(m) /\ ~ViaMadcap(m) /\ live[m] = "nsh" /\ Result(m, "dropped")

\* Mutant: the slots below the last are searched.
XmitSearchShort(m) ==
    /\ Registered(m) /\ ViaMadcap(m)
    /\ \A n \in 1 .. N - 1 : vdev[n] # m
    /\ Result(m, "bare")

\* A packet that carries no dst, or the dst of a device outside vdev[]: it is
\* passed on as it is, whoever acquired the NIC.
XmitNoDst(m) == Registered(m) /\ ViaMadcap(m) /\ Result(m, "nodst")

\* Not found in vdev[]: sfmc_encap_packet returns 0 and the packet leaves with
\* the overlay's own header only.
XmitNotAcquired(m) ==
    /\ Registered(m) /\ ViaMadcap(m)
    /\ ~Acquired(m)
    /\ Result(m, "bare")

XmitEncap(m) == Registered(m) /\ ViaMadcap(m) /\ Acquired(m) /\ Result(m, "encap")

XmitEncapFails(m) ==
    /\ Registered(m) /\ ViaMadcap(m)
    /\ Acquired(m)
    /\ Result(m, IF Driver = "ixgbe" THEN "dropped" ELSE "bare")

-------------------------------------------------------------------------------
Acquire(t) == AcquireExists(t) \/ AcquireFind(t) \/ AcquireFull(t) \/ AcquireStore(t)

Rtnl ==
    \/ \E m \in Mem, k \in Kind : Newlink(m, k) \/ NewTunnel(m, k)
    \/ NewlinkDone \/ NewlinkFail
    \/ \E m \in Mem : Dellink(m)

Genl ==
    /\ "nsh" \in Kind
    /\ PathDstSet \/ PathAddTable \/ PathDstUnset \/ \E m \in Mem : PathAcquire(m)

Xmit(m) ==
    \/ XmitTunnel(m) \/ XmitNoPath(m)
    \/ XmitNoDst(m) \/ XmitNotAcquired(m) \/ XmitEncap(m) \/ XmitEncapFails(m)

Next ==
    \/ \E t \in Thread : Acquire(t)
    \/ Rtnl
    \/ Genl
    \/ \E m \in Mem : Xmit(m)

Spec == Init /\ [][Next]_vars

-------------------------------------------------------------------------------
\* A device is in at most one slot, although two threads scan and store
\* without a lock, freed addresses stay in the table, and a path that is
\* unset and set again acquires the same devices again.  The exception is a
\* device that got the address of one nsh was just acquiring the NIC for.
VdevUnique == \A m, n \in Slot : vdev[m] = vdev[n] /\ vdev[m] \notin reused \cup {NULL} => m = n

\* A device for which sfmc_acquire_dev returned 0 or -EEXIST has its slot for
\* as long as it exists: only an acquisition that was already about to store in
\* that slot, under the other lock, takes it away.
AcquireKept == \A m \in told : Acquired(m)

\* ixgbe never lets a packet that carries the dst of a device it granted a slot
\* leave without outer headers, whatever other overlay devices come and go.
GrantedNeverBare ==
    [][\A m \in told : out'[m] = "bare" => out[m] = "bare"]_vars

\* "Acquire/release tonic device are called when overlay pseudo device is
\* created/destroyed": a slot names a device that exists.
ReleasedOnDestroy == \A n \in Slot : vdev[n] # NULL => live[vdev[n]] # "none"

(***************************************************************************)
(* The inductive invariant behind VdevUnique and AcquireKept: one thread   *)
(* acquires for nsh devices and the other for the rest, so both acquire    *)
(* for one address only if it is reused, and a device in told has a slot   *)
(* that no thread is about to overwrite.                                   *)
(***************************************************************************)
CallInv ==
    /\ \A t \in Thread : call[t].ph # "none" => call[t].v \in Mem
    /\ call["rtnl"].ph # "none" => live[call["rtnl"].v] \notin {"none", "nsh"}
    /\ call["genl"].ph \in {"scan", "store"} =>
          live[call["genl"].v] \in {"none", "nsh"} \/ call["genl"].v \in reused
    /\ \A m \in todo : live[m] = "nsh"

StoreInv == \A t \in Thread : call[t].ph = "store" => ~Acquired(call[t].v) \/ call[t].v \in reused

KeptInv == \A m \in told : \E n \in Slot : vdev[n] = m /\ \A t \in Thread : ~AtSlot(t, n)

IInv == TypeOK /\ CallInv /\ StoreInv /\ KeptInv /\ VdevUnique
===============================================================================
