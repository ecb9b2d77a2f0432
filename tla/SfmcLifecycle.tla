----------------------------- MODULE SfmcLifecycle -----------------------------
(***************************************************************************)
(* The start and the end of the sfmc part of a NIC: sfmc_init and          *)
(* sfmc_exit (src/device-drivers-4.2.0/e1000/sfmc.c) where the probe and   *)
(* remove functions call them, for several NICs that share one netevent    *)
(* notifier and the registry of madcap.ko, against everything that uses a  *)
(* NIC meanwhile: netlink commands, overlay devices that acquire it,       *)
(* routes, neighbour events, packets and the works that packets queue.     *)
(*                                                                         *)
(* sfmc_init is called after register_netdev, when the NIC can be used     *)
(* already; sfmc_exit after unregister_netdev, when it can no longer be    *)
(* found; the callers ignore the result of sfmc_init.                      *)
(***************************************************************************)
EXTENDS Naturals

CONSTANTS
    Dev,       \* NICs
    MaxWork,   \* bound on the works a NIC has queued
    NULL

ASSUME DevAssumption == MaxWork \in Nat /\ NULL \notin Dev

(***************************************************************************)
(* Where a NIC is: after register_netdev, after each step of sfmc_init,    *)
(* after sfmc_init returned ("up" or "failed"), after unregister_netdev,   *)
(* after each step of sfmc_exit.  "oops": its remove function has died.    *)
(***************************************************************************)
Starting == {"registered", "tree", "wq", "switchdev", "listed", "unheard", "heard"}
Visible == Starting \cup {"up", "failed"}
Ending == {"unregistered", "deafening", "silenced", "deaf", "emptied", "treeless", "drained"}

\* In the registry, and not yet unregistered.
Published == {"listed", "unheard", "heard", "up"}

VARIABLES
    pc,        \* pc[d]: where d is, or "absent"
    tree,      \* tree[d]: sfmc->fib_tree and fib_list are NULL, ready, or freed
    wq,        \* the NICs that have a work queue
    swops,     \* the NICs whose switchdev_ops is sfmc's
    listed,    \* the NICs in the registry of madcap.ko
    vdev,      \* the NICs that an overlay device has acquired
    work,      \* work[d]: queued works of d
    stuck,     \* the NICs of which a work has died
    cmd,       \* a netlink command: the NIC it has found by its index, and how far
               \* it is: "found", or "ops" once it has the NIC's ops
    late,      \* history: the NICs whose removal a netlink command overlapped
    left,      \* the NICs with LLT entries
    chain,     \* the notifier is in the kernel's chain
    flag,      \* netevent_registered
    deaf,      \* history: NICs that were up when the removal of another took the notifier
               \* away, or that looked at the flag before that removal reset it
    mixed,     \* history: a start has registered the notifier beside another start, or
               \* beside a removal, that was between its look at the flag and its store
    bad        \* history: who followed a pointer that was NULL or freed

vars == <<pc, tree, wq, swops, listed, vdev, work, stuck, cmd, late, left, chain, flag, deaf, mixed, bad>>
own == <<tree, wq, swops, listed, vdev, work, stuck>>
shared == <<chain, flag, deaf, mixed>>

User == {"route", "neigh", "xmit", "queue", "netlink"}

NoCmd == [dev |-> NULL, at |-> "idle"]

TypeOK ==
    /\ pc \in [Dev -> Visible \cup Ending \cup {"absent", "oops"}]
    /\ tree \in [Dev -> {"null", "ready", "freed"}]
    /\ wq \subseteq Dev /\ swops \subseteq Dev /\ listed \subseteq Dev
    /\ vdev \subseteq Dev /\ stuck \subseteq Dev
    /\ work \in [Dev -> 0 .. MaxWork]
    /\ cmd \in {NoCmd} \cup [dev : Dev, at : {"found", "ops"}]
    /\ late \subseteq Dev /\ left \subseteq Dev /\ deaf \subseteq Dev
    /\ chain \in BOOLEAN /\ flag \in BOOLEAN /\ mixed \in BOOLEAN
    /\ bad \subseteq User

Init ==
    /\ pc = [d \in Dev |-> "absent"]
    /\ tree = [d \in Dev |-> "null"]
    /\ wq = {} /\ swops = {} /\ listed = {} /\ vdev = {} /\ stuck = {}
    /\ work = [d \in Dev |-> 0]
    /\ cmd = NoCmd
    /\ late = {} /\ left = {} /\ deaf = {}
    /\ chain = FALSE /\ flag = FALSE /\ mixed = FALSE
    /\ bad = {}

Goto(d, from, to) == pc[d] = from /\ pc' = [pc EXCEPT ![d] = to]

\* u uses the routes of d.
Follows(u, d) == bad' = IF tree[d] = "ready" THEN bad ELSE bad \cup {u}

-------------------------------------------------------------------------------
(***************************************************************************)
(* probe and sfmc_init.  The memory of a new NIC is zeroed.                *)
(***************************************************************************)
Probe(d) ==
    /\ Goto(d, "absent", "registered")
    /\ tree' = [tree EXCEPT ![d] = "null"]
    /\ vdev' = vdev \ {d}
    /\ late' = IF cmd.dev = d THEN late ELSE late \ {d}
    /\ left' = left \ {d}
    /\ UNCHANGED <<wq, swops, listed, work, stuck, cmd, shared, bad>>

\* sfmc_init clears what a late command stored meanwhile.
InitTree(d) ==
    /\ Goto(d, "registered", "tree")
    /\ tree' = [tree EXCEPT ![d] = "ready"]
    /\ vdev' = vdev \ {d}
    /\ left' = left \ {d}
    /\ UNCHANGED <<wq, swops, listed, work, stuck, cmd, late, shared, bad>>

InitWq(d) ==
    /\ Goto(d, "tree", "wq")
    /\ wq' = wq \cup {d}
    /\ UNCHANGED <<tree, swops, listed, vdev, work, stuck, cmd, late, left, shared, bad>>

InitWqFails(d) ==
    /\ Goto(d, "tree", "failed")
    /\ UNCHANGED <<own, cmd, late, left, shared, bad>>

\* Mutant: switchdev_ops is set before the routes and the queue exist.
InitSwitchdevFirst(d) ==
    /\ pc[d] = "registered" /\ d \notin swops
    /\ swops' = swops \cup {d}
    /\ UNCHANGED <<pc, tree, wq, listed, vdev, work, stuck, cmd, late, left, shared, bad>>

InitSwitchdev(d) ==
    /\ Goto(d, "wq", "switchdev")
    /\ swops' = swops \cup {d}
    /\ UNCHANGED <<tree, wq, listed, vdev, work, stuck, cmd, late, left, shared, bad>>

InitMadcap(d) ==
    /\ Goto(d, "switchdev", "listed")
    /\ listed' = listed \cup {d}
    /\ UNCHANGED <<tree, wq, swops, vdev, work, stuck, cmd, late, left, shared, bad>>

\* The slots of the registry may be in use by NICs of other drivers.
InitMadcapFails(d) ==
    /\ Goto(d, "switchdev", "failed")
    /\ UNCHANGED <<own, cmd, late, left, shared, bad>>

\* The look at netevent_registered; then register_netevent_notifier, then the store.
InitNotifier(d) ==
    /\ Goto(d, "listed", IF flag THEN "up" ELSE "unheard")
    /\ deaf' = deaf \cup {e \in {d} : flag /\ \E x \in Dev : pc[x] = "silenced"}
    /\ UNCHANGED <<own, cmd, late, left, chain, flag, mixed, bad>>

InitRegister(d) ==
    /\ Goto(d, "unheard", "heard")
    /\ chain' = TRUE /\ deaf' = {}
    /\ mixed' = (mixed \/ flag \/ \E e \in Dev : pc[e] \in {"heard", "deafening", "silenced"})
    /\ UNCHANGED <<own, cmd, late, left, flag, bad>>

InitFlag(d) ==
    /\ Goto(d, "heard", "up")
    /\ flag' = TRUE
    /\ UNCHANGED <<own, cmd, late, left, chain, deaf, mixed, bad>>

-------------------------------------------------------------------------------
(***************************************************************************)
(* Users of a NIC.  Those under rtnl, and packets, need a NIC that is not  *)
(* unregistered; unregister_netdev waits for them.                         *)
(***************************************************************************)
\* madcap_acquire_dev of a vxlan, gre or ipip device, under rtnl.
Acquire(d) ==
    /\ pc[d] \in Visible /\ d \in listed
    /\ vdev' = vdev \cup {d}
    /\ UNCHANGED <<pc, tree, wq, swops, listed, work, stuck, cmd, late, left, shared, bad>>

\* sfmc_port_obj_add, sfmc_port_obj_del.
Route(d) ==
    /\ pc[d] \in Visible /\ d \in swops
    /\ Follows("route", d)
    /\ UNCHANGED <<pc, own, cmd, late, left, shared>>

\* sfmc_neigh_update_event.
NeighEvent(d) ==
    /\ chain
    /\ pc[d] \in Visible /\ d \in swops
    /\ Follows("neigh", d)
    /\ UNCHANGED <<pc, own, cmd, late, left, shared>>

VdevFound(d) == d \in vdev

\* sfmc_encap_packet: the vdev check, the route, and for a connected route a work.
\* A late command may have acquired the NIC before it is built.
Xmit(d) ==
    /\ pc[d] \in Visible /\ VdevFound(d)
    /\ IF d \in late THEN UNCHANGED bad ELSE Follows("xmit", d)
    /\ UNCHANGED <<pc, own, cmd, late, left, shared>>

\* Mutant: packets queue works until the NIC is freed.
XmitConnectedLate(d) ==
    /\ VdevFound(d)
    /\ work[d] < MaxWork
    /\ work' = [work EXCEPT ![d] = @ + 1]
    /\ UNCHANGED <<pc, tree, wq, swops, listed, vdev, stuck, cmd, late, left, shared, bad>>

XmitConnected(d) ==
    /\ pc[d] \in Visible /\ VdevFound(d)
    /\ tree[d] = "ready"
    /\ work[d] < MaxWork
    /\ work' = IF d \in wq THEN [work EXCEPT ![d] = @ + 1] ELSE work
    /\ bad' = bad \cup {u \in {"queue"} : d \notin wq \cup late}
    /\ UNCHANGED <<pc, tree, wq, swops, listed, vdev, stuck, cmd, late, left, shared>>

\* sfmc_ll_neigh_work: sfmc_fib_insert.
Work(d) ==
    /\ work[d] > 0 /\ d \notin stuck
    /\ work' = [work EXCEPT ![d] = @ - 1]
    /\ UNCHANGED <<pc, tree, wq, swops, listed, vdev, stuck, cmd, late, left, shared, bad>>

\* On routes that were destroyed it may die, and never ends.
WorkDies(d) ==
    /\ work[d] > 0 /\ d \notin stuck
    /\ tree[d] # "ready"
    /\ stuck' = stuck \cup {d}
    /\ UNCHANGED <<pc, tree, wq, swops, listed, vdev, work, cmd, late, left, shared, bad>>

(***************************************************************************)
(* A command under the generic netlink lock (madcap_nl_cmd_llt_entry_add,  *)
(* or nsh_nl_cmd_path_dst_set, which acquires the NIC) finds the NIC by    *)
(* its index without rtnl and without a reference, then its ops in the     *)
(* registry, then calls the driver.                                        *)
(***************************************************************************)
\* Mutant: the result of the search by index is not tested.
CmdFindUnchecked(d) ==
    /\ cmd = NoCmd
    /\ cmd' = [dev |-> IF pc[d] \in Visible THEN d ELSE NULL, at |-> "found"]
    /\ UNCHANGED <<pc, own, late, left, shared, bad>>

CmdFind(d) ==
    /\ cmd = NoCmd
    /\ pc[d] \in Visible
    /\ cmd' = [dev |-> d, at |-> "found"]
    /\ UNCHANGED <<pc, own, late, left, shared, bad>>

\* get_madcap_ops; otherwise -EOPNOTSUPP.
CmdOps ==
    /\ cmd.at = "found"
    /\ cmd' = IF cmd.dev \in listed THEN [cmd EXCEPT !.at = "ops"] ELSE NoCmd
    /\ UNCHANGED <<pc, own, late, left, shared, bad>>

Calls ==
    /\ cmd.at = "ops"
    /\ cmd' = NoCmd
    /\ bad' = bad \cup {u \in {"netlink"} : pc[cmd.dev] \notin Published /\ cmd.dev \notin late}

CmdEntryAdd ==
    /\ Calls
    /\ left' = left \cup {cmd.dev}
    /\ UNCHANGED <<pc, own, late, shared>>

CmdAcquire ==
    /\ Calls
    /\ vdev' = vdev \cup {cmd.dev}
    /\ UNCHANGED <<pc, tree, wq, swops, listed, work, stuck, late, left, shared>>

-------------------------------------------------------------------------------
(***************************************************************************)
(* remove and sfmc_exit, also after a sfmc_init that failed.               *)
(***************************************************************************)
Unregister(d) ==
    /\ pc[d] \in {"up", "failed"}
    /\ pc' = [pc EXCEPT ![d] = "unregistered"]
    /\ late' = IF cmd.dev = d THEN late \cup {d} ELSE late
    /\ deaf' = deaf \ {d}
    /\ UNCHANGED <<own, cmd, left, chain, flag, mixed, bad>>

\* The look at netevent_registered.
ExitNotifier(d) ==
    /\ Goto(d, "unregistered", IF flag THEN "deafening" ELSE "deaf")
    /\ UNCHANGED <<own, cmd, late, left, shared, bad>>

\* unregister_netevent_notifier, which waits for running notifications.
ExitUnregister(d) ==
    /\ Goto(d, "deafening", "silenced")
    /\ chain' = FALSE
    /\ deaf' = deaf \cup {e \in Dev : pc[e] = "up"}
    /\ UNCHANGED <<own, cmd, late, left, flag, mixed, bad>>

\* Mutant: netevent_registered is not reset.
ExitFlagKept(d) ==
    /\ Goto(d, "silenced", "deaf")
    /\ UNCHANGED <<own, cmd, late, left, shared, bad>>

ExitFlag(d) ==
    /\ Goto(d, "silenced", "deaf")
    /\ flag' = FALSE
    /\ UNCHANGED <<own, cmd, late, left, chain, deaf, mixed, bad>>

ExitTable(d) ==
    /\ Goto(d, "deaf", "emptied")
    /\ left' = left \ {d}
    /\ UNCHANGED <<own, cmd, late, shared, bad>>

ExitFib(d) ==
    /\ Goto(d, "emptied", "treeless")
    /\ tree' = [tree EXCEPT ![d] = "freed"]
    /\ UNCHANGED <<wq, swops, listed, vdev, work, stuck, cmd, late, left, shared, bad>>

\* Mutant: the queue is destroyed with works in it.
NoDrain(d) == work[d] \in Nat

\* destroy_workqueue runs what is queued before it returns.
Drained(d) == work[d] = 0

ExitWq(d) ==
    /\ d \in wq
    /\ Goto(d, "treeless", "drained")
    /\ Drained(d)
    /\ wq' = wq \ {d}
    /\ UNCHANGED <<tree, swops, listed, vdev, work, stuck, cmd, late, left, shared, bad>>

\* destroy_workqueue(NULL), after an sfmc_init that could not allocate the queue.
ExitWqNull(d) ==
    /\ d \notin wq
    /\ Goto(d, "treeless", "oops")
    /\ UNCHANGED <<own, cmd, late, left, shared, bad>>

\* Then the NIC is freed.
ExitMadcap(d) ==
    /\ Goto(d, "drained", "absent")
    /\ listed' = listed \ {d}
    /\ swops' = swops \ {d} /\ vdev' = vdev \ {d}
    /\ UNCHANGED <<tree, wq, work, stuck, cmd, late, left, shared, bad>>

-------------------------------------------------------------------------------
Start(d) ==
    \/ InitTree(d) \/ InitWq(d) \/ InitWqFails(d) \/ InitSwitchdev(d)
    \/ InitMadcap(d) \/ InitMadcapFails(d)
    \/ InitNotifier(d) \/ InitRegister(d) \/ InitFlag(d)

Use(d) ==
    \/ Acquire(d) \/ Route(d) \/ NeighEvent(d) \/ Xmit(d) \/ XmitConnected(d) \/ CmdFind(d)

Cmd == CmdOps \/ CmdEntryAdd \/ CmdAcquire

Exit(d) ==
    \/ ExitNotifier(d) \/ ExitUnregister(d) \/ ExitFlag(d)
    \/ ExitTable(d) \/ ExitFib(d) \/ ExitWq(d) \/ ExitWqNull(d) \/ ExitMadcap(d)

RunWork(d) == Work(d) \/ WorkDies(d)

Next ==
    \/ \E d \in Dev : Probe(d) \/ Start(d) \/ Use(d) \/ RunWork(d) \/ Unregister(d) \/ Exit(d)
    \/ Cmd

Spec == Init /\ [][Next]_vars

(***************************************************************************)
(* What was begun goes on: sfmc_exit in the remove function's thread, and  *)
(* the works in the queue's.                                               *)
(***************************************************************************)
FairSpec ==
    /\ Spec
    /\ \A d \in Dev : WF_vars(Exit(d)) /\ WF_vars(RunWork(d))

-------------------------------------------------------------------------------
\* Routes, neighbour events, packets and the queueing of works never meet an
\* sfmc that is not built yet or is torn down, although the NIC is visible
\* before sfmc_init and removal does not stop them one by one: sfmc_init
\* publishes the NIC last, and unregister_netdev comes before sfmc_exit.  Nor
\* does a netlink command, unless the removal overlapped it.  Works are left
\* out: they may run when the routes are destroyed (WorkDies).
NoStrayUser == bad = {}

\* A NIC that was removed has left nothing behind: no queue or queued work, no
\* registration, no LLT entry but one of a command that overlapped the removal;
\* and after the last one the notifier is gone too, before the module's code
\* is, unless a start registered it beside another start or removal.
NothingLeft ==
    /\ \A d \in Dev : pc[d] = "absent" =>
          /\ work[d] = 0
          /\ d \notin wq \cup listed \cup swops
          /\ d \in left => d \in late
    /\ (\A d \in Dev : pc[d] = "absent") => ~chain \/ mixed

\* The routes of a NIC that is up follow their neighbours, unless the removal
\* of another NIC took the shared notifier away from it, or had taken it and
\* not yet reset the flag when the NIC looked; a NIC started later brings it
\* back for all.  Nothing is said once starts and removals have mixed.
NotifiedWhileUp ==
    \A d \in Dev : pc[d] = "up" => chain \/ d \in deaf \/ mixed

\* A removal ends: destroy_workqueue waits for works, and no packet can queue
\* more of them.  It does not end if the start published nothing, because
\* the queue could not be allocated, or if a work dies on the destroyed routes.
\* Nothing is said once starts and removals have mixed: the notifier may be in
\* the chain twice, which is then a loop.
RemovalEnds ==
    \A d \in Dev :
        pc[d] \in Ending ~> \/ pc[d] = "absent"
                            \/ pc[d] = "oops" /\ d \notin swops
                            \/ d \in stuck \/ mixed

(***************************************************************************)
(* The inductive invariant behind the safety properties: what exists at    *)
(* each step of sfmc_init and sfmc_exit, and what a netlink command, a     *)
(* work or the notifier can still rely on there.                           *)
(***************************************************************************)
\* From sfmc_init's first step to the end of sfmc_fib_exit.
HasTree == (Visible \ {"registered"}) \cup {"unregistered", "deafening", "silenced", "deaf", "emptied"}

\* The routes exist exactly then; who is in the registry or has switchdev_ops has
\* passed that step, and keeps the queue until works can no longer be queued.
StageInv ==
    \A d \in Dev :
        /\ tree[d] = "ready" <=> pc[d] \in HasTree
        /\ pc[d] = "wq" => d \in wq
        /\ pc[d] \in Published \cup {"switchdev"} => d \in swops
        /\ pc[d] \in Published => d \in listed
        /\ d \in listed => d \in swops /\ pc[d] \in Published \cup Ending
        /\ d \in swops => pc[d] \in Published \cup {"switchdev", "failed"} \cup Ending
        /\ d \in swops => d \in wq \/ pc[d] = "drained"
        /\ d \in vdev => d \in listed \cup late
        /\ d \in wq => pc[d] \in (HasTree \ {"tree"}) \cup {"treeless"}
        /\ work[d] > 0 => d \in wq

\* A command that no removal overlapped holds a NIC that is still there, and
\* with its ops one whose table exists; after sfmc_exit emptied the table only
\* an overlapping command can have filled it.
CmdInv ==
    /\ \A d \in Dev \ late : cmd.dev = d =>
          /\ pc[d] \in Visible
          /\ cmd.at = "ops" => pc[d] \in Published
    /\ \A d \in left : pc[d] \in {"emptied", "treeless", "drained", "absent", "oops"} => d \in late

\* As long as starts and removals have not mixed: netevent_registered tells the
\* truth but for one NIC that is just changing it, and a NIC is there to undo it.
ChainInv ==
    mixed \/ /\ \A d \in Dev : pc[d] = "heard" =>
                   /\ chain /\ ~flag
                   /\ \A e \in Dev \ {d} : pc[e] \notin {"heard", "deafening", "silenced"}
             /\ \A d \in Dev : pc[d] = "silenced" => ~chain
             /\ chain # flag => \E d \in Dev : pc[d] \in {"heard", "silenced"}
             /\ chain => \E d \in Dev : pc[d] \in {"heard", "up", "unregistered", "deafening"}

IInv == TypeOK /\ StageInv /\ CmdInv /\ ChainInv /\ NoStrayUser /\ NotifiedWhileUp
===============================================================================
