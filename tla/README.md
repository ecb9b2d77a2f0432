# Verification of madcap

Madcap lets overlay network drivers of the Linux kernel (vxlan, gre, ipip, nsh)
hand packets to a NIC that adds the outer headers. A NIC driver keeps a
*locator lookup table* (LLT) from an id found in the packet to the address of
the remote host; `sfmc` emulates such a NIC in software inside the ixgbe and
e1000 drivers. This directory holds TLA+ models of that code, the TLC runs that
check them and TLAPS proofs about them. Paths below are relative to `src/`.

## The system

| Part | State | Operations | Works with |
|---|---|---|---|
| madcap registry (`madcap/madcap.c`) | `dev[]`, `ops[]`, a write lock, per network namespace | register, unregister, `get_madcap_ops` | called by drivers (probe, remove), by every other madcap call |
| madcap dispatch and generic netlink (`madcap/madcap.c`) | dump cursors in `cb->args` | acquire/release, LLT configuration, entry add/del, UDP configuration, dumps | `ip madcap`, overlay drivers; calls the driver's `madcap_ops` |
| sfmc tables and transmit path (`device-drivers-4.2.0/*/sfmc.c`) | configuration, LLT hash, route trie and list, `vdev[]`, work queue | `sfmc_llt_cfg`, entry add/del, switchdev route add/del, neighbour notifier, host-route work, `sfmc_encap_packet` | netlink thread, rtnl thread, kernel neighbour table, workers, transmitting CPUs: none of them takes a lock |
| sfmc start and stop | one notifier shared by all devices | `sfmc_init`, `sfmc_exit` | driver probe and remove |
| patricia trie (`*/patricia.c`) | trie of prefixes | insert, remove, exact and best match | sfmc |
| overlay drivers (`protocol-drivers-4.2.0/`) | `vxlan->mcdev`, tunnel link, nsh paths | newlink, dellink, transmit, nsh path set/unset | acquire the NIC, queue packets on it |
| raven (`raven/raven.c`) | its own LLT behind an rwlock, one acquiring device | as sfmc, without routes | madcap |
| netdevgen (`netdevgen/netdevgen.c`) | transmit thread, running flag | commands through /proc | overlay devices |
| `ip madcap` (`iproute2-4.4.0/ip/ipmadcap.c`) | none | one netlink request per run | madcap |

What is hard in it: almost everything runs concurrently and without locks
(RCU readers, unlocked tables written by several kinds of threads; rtnl and the
generic netlink lock protect different callers of the same code), objects are
freed while others may still hold them, slots are few and never released, and
delivery depends on events (neighbour resolution, work queues) that must
eventually happen. `PROJECT.json` lists these hazards at their lines.

What makes each part correct:

* registry: a device has one slot, an unlocked lookup of a registered device
  returns its ops, nobody loses a registration, every call returns;
* sfmc: routes mirror the neighbours, a packet's route is not freed under it, the
  configuration accepted is the one in force, a flow with an entry and a route
  is eventually delivered;
* overlay devices: one slot per device, what was granted is kept, slots are
  given back, packets the NIC can tell to be a device's get outer headers or are dropped;
* trie: it stores exactly the routes, without waste, and a search beside a
  writer is no worse than what was stored all the time;
* dumps: what stays is reported, once, and the dump ends;
* start and stop: nobody uses what is not built yet or torn down, a device that
  stays keeps its notifier, a removal ends and leaves nothing behind;
* nsh, raven: tables name only devices that exist, entries belong to the
  configuration or path they are found under, no packet uses a freed entry.

## Modules

| Module | Models |
|---|---|
| `MadcapMap` | abstract specification of the registry: a bounded set of devices |
| `MadcapRegistry` | `madcap_register_device`, `madcap_unregister_device`, `get_madcap_ops` |
| `MadcapRegistryProofs` | proofs about `MadcapRegistry` |
| `Sfmc` | sfmc of one device, for either driver |
| `SfmcProofs` | proofs about `Sfmc` |
| `SfmcLifecycle` | `sfmc_init` and `sfmc_exit` of several devices, against every user of a device |
| `LifecycleProofs` | proofs about `SfmcLifecycle` |
| `Patricia` | the route trie: insertion, removal, and a search beside them |
| `PatriciaProofs` | proofs about `Patricia` |
| `OverlaySlots` | acquisition of a NIC by overlay devices, and its effect on packets |
| `OverlayProofs` | proofs about `OverlaySlots` |
| `Raven` | raven's links, table, configuration and packets, the netlink commands that reach them, and the NICs that share the registry |
| `RavenProofs` | lemmas about `Raven`: its operators, and its steps keep `RavenInv` |
| `MadcapDump` | the multi-part dumps of `madcap.ko`, composed with `Raven` |
| `MadcapDumpProofs` | proofs about `MadcapDump`, and with it about `Raven` |
| `Nsh` | nsh's path table, its commands, links, lower devices and packets |
| `NshProofs` | proofs about `Nsh` |
| `MCMadcapRegistry`, `MCSfmc`, `MCSfmcLifecycle`, `MCPatricia`, `MCOverlaySlots`, `MCMadcapDump`, `MCNsh` | instances for TLC |

How they fit together: `Sfmc` takes the trie as a set of prefixes, in which a
search takes time and is right unless a writer overlaps it, and a device that is
up; `Patricia` and `SfmcLifecycle` are the detail behind these two. `OverlaySlots` is what `sfmc_encap_packet` does
before the part that is in `Sfmc`. `MadcapDump` extends `Raven`, and both take
the registry as one step, whose detail is `MadcapRegistry`.

Definitions marked "Mutant" in the modules are variants of the definition that
follows them, with a plausible mistake. No specification uses them; replacing
the definition by its mutant makes the property named in `PROJECT.json` fail.

### MadcapRegistry

State: the arrays `dev` and `ops`, the holder of the write lock, the program
counter, slot and last result of each device's writer, and the lookup of each
reader. A driver registers and unregisters its own device one call at a time,
so there is one writer per device. The granularity is one array store or one
array read per step. Two scans are one step: the check for an existing entry
(only the device's own writer can change its outcome) and the search for a free
slot (made under the lock). `madcap_unregister_device` returns -ENOENT even
when it removed the device, because its loop never breaks; the model returns
what the code returns and no property depends on it. `stable` is a history
variable: the readers whose device stayed registered since their lookup began.

`MadcapMap` says what drivers are promised: a set of at most N devices to which
one device is added or removed at a time. `MapSpec` is that specification with
the set of devices that occupy a slot.

### Sfmc

One device between the end of `sfmc_init` and the start of `sfmc_exit`.

* `oc`, `llt`, `cached` are `sfmc->oc`, the LLT and the `fib` pointer of its
  entries. `fib` holds the `sfmc_fib` objects with the stage of their life (free,
  new, node without data in the trie, with data, also in the list, being removed
  from the trie, unlinked, cleared, lost). `neigh` and `notify` are the kernel's
  neighbour table and the netevent notifications under way: external, modelled
  from how sfmc uses them. `tx` is the packet a CPU is in.
* A configuration is an abstract value with the id it reads from each kind of
  packet (`ExtractId`); addresses, prefixes and link layer addresses are model
  values, and `Match` and `Plen` say what a prefix covers and how long it is.
* Each step ends where another thread may interfere. `sfmc_llt_cfg` is two steps
  (destroy the table, store the configuration). `sfmc_port_obj_add` and
  `sfmc_ll_neigh_work` are four: node, data, list, resolve. `sfmc_port_obj_del`
  is `patricia_remove` (an interval), unlink from the list, clear the cached
  pointers, free after a grace period. A transmission finds the entry, searches,
  stores the route in the entry and reads it back (ixgbe), checks and sends.
* A search is an interval, because `patricia_remove` frees nodes without a grace
  period. `seen` remembers what the search met: nothing (`clean`), a node whose
  data was not set yet (`hole`, the search may find nothing), or a removal
  (`torn`). A torn search returns any route that is not freed, nothing, or garbage
  that kills the CPU (`oops`). `Patricia` shows node by node where this comes from.
* Three more ways in which the code reaches memory it should not: the worker
  whose route was deleted and freed before it resolves it (`LlNeighWorkStale`,
  `stale`), ixgbe's second read of `st->fib`, which `sfmc_fib_delete` may have
  cleared (`XmitReread`), and the result of `sfmc_fib_create`, which is used
  unchecked (`XmitNoMemory`). A packet of ixgbe that follows a cached pointer to
  freed memory sends anything (`XmitFreed`).
* One thread at a time changes the trie and the list (`NoWriter`). The code does
  not ensure it: rtnl and the workers take no common lock, and two of them at once
  corrupt both structures. That is a hazard the module cannot show.
* `sfmc_encap_packet` is modelled from its label `encap`; the check of `vdev[]`
  in front of it is in `OverlaySlots`. The outer headers are abstracted to the
  destination link layer address. The UDP configuration only chooses headers
  and is left out.
* A grace period lasts while a CPU is inside a transmission that found the
  object (transmission runs with bottom halves disabled).
* A copy by `sfmc_neigh_write` is one step; two copies that overlap in time are
  a hazard that this module cannot show.
* A connected route has no gateway; the neighbour entry the code looks up for
  the address 0.0.0.0 is never used and is left out.
* An object that was created but not inserted (a duplicate host route) is never
  freed by the code. Once its resolution is over nothing refers to it, and the
  model reuses its name, so that runs stay finite.

### SfmcLifecycle

Several NICs of one driver. `pc[d]` says which step of `sfmc_init` or
`sfmc_exit` a NIC has made; `tree`, `wq`, `swops`, `listed` and `left` are what
the steps build and take down, `chain` and `flag` the notifier that all NICs
share and `netevent_registered`. `sfmc_init` is called after `register_netdev`
(the comment in `sfmc.h` says before), so a NIC can be used while it is being
built, and its result is ignored, so a NIC whose start failed is used and later
removed by the same `sfmc_exit`.

The notifier is registered in three steps (look at the flag, register, store the
flag) and unregistered in three (look, unregister, which blocks until running
notifications are over, reset the flag). NICs start and stop side by side, so the
flag may be wrong for a while: `deaf` are the NICs that lost the shared notifier
to the removal of another, or that looked at the flag before that removal reset
it; `mixed` says that a start registered the notifier beside another start or
removal between its look and its store.

Users are one action each: an overlay device that acquires the NIC, a route, a
neighbour event, a packet, a packet that queues a work, a work, and a command in
its three steps (find the device, find its ops, call the driver). Packets and
the users under rtnl stop at `unregister_netdev`. Works do not, and neither do
the commands under the generic netlink lock: those of madcap, and nsh's path set,
which acquires the NIC. `late` are the NICs whose removal a command overlapped.
`bad` remembers who followed a pointer that was NULL or freed.

What the code does not survive ends in the model too: `destroy_workqueue(NULL)`
after a start that could not allocate the queue (`ExitWqNull`, `oops`), and a
work that runs when the routes are destroyed and may die there (`WorkDies`,
`stuck`), after which the removal waits for it for ever.

### Patricia

A prefix is the sequence of its bits and a node is named by the bits that lead
to it. `patricia_lookup` is one action per case (empty trie, found, glue node
gets the prefix, new child, new parent, new glue parent); the links of the new
node are written before the one store that makes it reachable, so a case is one
step for a search, and the node's data is a second. `patricia_remove` frees
first and unlinks afterwards, so its cases are two or three steps. A CPU's
`patricia_search_best` moves one node at a time; reading a freed node or a NULL
prefix ends it as "undefined". What a search reads from a link to a freed node
is marked as freed when it is read (`Dangling`), so that a later node at the
same place is not mistaken for it. The loops of `patricia_lookup` and
`patricia_search_exact` are walks (`WalkEnd`): a function from a node to the next
one, followed until it stands still. `asserts` collects the code's assertions,
the one on the node where the walk stops (`patricia.c:520`) included. One
writer at a time: rtnl and the workers are not serialised in the code, and two
writers inside `patricia_lookup` race on every pointer of a node. Left out: the
reference counts of prefixes (a prefix is leaked, never used after it is freed)
and the walks nothing calls.

### OverlaySlots

One NIC with `N` slots, overlay devices at a few addresses (`Mem`) that are
reused after a device is freed, the rtnl thread (newlink, dellink), the generic
netlink thread (nsh's path set and unset, for one key whose path goes over the
NIC) and transmissions. `sfmc_acquire_dev` is scan and store, unlocked. Devices
come by newlink, which acquires the NIC, or as tunnels made or moved onto the NIC
by ioctl and changelink, which does not (`NewTunnel`). `told` is history: the
devices whose acquisition succeeded with no other thread about to store in the
same slot. `reused` is history too: nsh's walk holds no reference, so a device may
be freed under it and another may appear at the address the walk is just
acquiring the NIC for. A packet that carries no dst (ARP, a bridged frame), or that of
a device outside `vdev[]`, is passed on unchanged by `sfmc_encap_packet`, also for
a device that was granted a slot (`XmitNoDst`). `sfmc_release_dev` is not an
action because nothing in the repository calls it. The NIC itself is not removed.

### Raven and MadcapDump

`Raven` has the slots of the registry, the life of each raven device
(`raven_newlink`, and the three steps of `raven_dellink`), its configuration
and its table in the order in which a walk of the hash meets the entries, one
netlink command at a time and one packet at a time. A command finds the device,
then its ops, then calls the driver; `raven_llt_cfg` empties the table and
stores the configuration in two steps, `raven_llt_entry_del` finds and deletes
in two, without the device's lock. A packet reads the configuration and then
the table, until the device is closed. A deleted entry is `dying` until the packet
that may have found it is through, and only then allocated again: this takes the
transmission for a reader that `call_rcu` waits for, which holds in a kernel whose
RCU is not preemptible. The walk along a bucket is one step. A device's address is not
reused while a command holds it. `Nic` are NICs in the
same registry: they answer -EEXIST to a second entry of a key where raven does
not, and their configuration has the object id 0 until the first is stored
(`NULL`). `Before` holds the contents the registry may have when the model starts:
madcap devices that were registered earlier.

`MadcapDump` adds one dump: of configurations or of entries, of one device or of
all, one object per message, with the two integers in `cb->args` as its only
memory. A part is one step, because the generic netlink lock keeps commands out;
that a part follows `dev[n]` after testing it, while rtnl unregisters, is a
data race listed as a hazard. A configuration dump stands for that of
the LLT and that of the UDP configuration; it ends at a NIC that was never
configured, because `genl_madcap_obj_send` refuses the object id 0 and the error
ends the dump. The ids are those `ip madcap` sets: a request with another would be
stored as it is. `Visited` are the slots the dump's loop does not
skip and `Rank` is the loop's counter at a slot; the cursor holds ranks and
positions in a table, which shift when devices and entries come and go. History
(`seen`) keeps what was there throughout, what was sent, and whether a device
the dump visits, or an entry if it sends entries, came (`addition`) or went
(`removal`). `Spec` is the safety part, `FairSpec` adds fairness. Steps of packets
and of dumps read nothing the other writes and are not interleaved. The loop with
which an entry dump restarts on the next device inside one part
(`madcap.c:415-424`) is the choice of the first device that has an entry left.

Left out: acquire and release of raven (nothing reads `rdev->vdev`), headers,
`drop_mode`, `/proc`, statistics, the later reads of the configuration in
`raven_xmit` for the source address and the protocol (`raven.c:685`, `713`), which
only choose headers, and the UDP option, which it reads once for the headroom and
once more for the header (`raven.c:695`): a configuration between the two makes it
push a header it made no room for.

### Nsh

An `nsh_table` object is free, linked or dead (deleted, waiting for RCU), with a
path, an encapsulation, and either an nsh device or a lower device. A command is
the lookup (`-EEXIST`, `-ENOENT`, `__dev_get_by_index`) and later the change;
rtnl may run between the two, because the generic netlink lock does not exclude
it. `nsh_dellink` purges the table, then takes the device's index; a lower
device loses its index first and the notifier purges the table. Memory of a
device or an object is freed when no packet is on its way. A packet is up to
four steps: find the entry, test `madcap_on`, build the header (which reads the
device's path a second time), send or receive. The lower device of a VXLAN path
that was set without one is never written by `nsh_add_table`; the model lets it
be anything (`Unset`) or NULL. `late`, `lap` and `rekeyed` are history: what
overlapped what.

Once a command has touched freed memory the model ends (`broken`). Paths are
keys other than 0: the code takes key 0 for "not assigned" in devices, and a
path set for key 0 is left out. `-ENOMEM` of `nsh_add_table` is ignored by the
command, which reports success (`PathSetNoMemory`). Left out: the dumps (the
cursor of `MadcapDump` over another table), the MD type, and the end of a network
namespace.

## Runs

| Run | Result | Shows |
|---|---|---|
| `registry` | pass | three devices, two slots, one reader: slots are unique, published ops are right, registrations are kept, arrays agree outside the lock, lookups are right, the map is implemented, every call returns (full table included) |
| `sfmc_ixgbe` | pass | routes mirror neighbours, with cached route pointers as well |
| `sfmc_live` | pass | e1000 with neighbours that answer: the route a packet uses is live and covers its destination unless a removal overlapped its search, and routed flows are delivered while no CPU dies |
| `overlay` | pass | no device takes two slots although two locks and reused addresses are involved, but for a device at an address nsh was just acquiring for; grants are kept unless two acquisitions raced for the slot; ixgbe sends no packet bare that carries the dst of a granted device |
| `patricia` | pass | a search beside insertions and removals returns a route that is no worse than what was stored throughout, or reads freed memory only if a removal overlapped it; between calls the trie is exact and minimal; the code's assertions hold |
| `lifecycle` | pass | routes, events and packets never meet a half-built or dismantled sfmc, nor do commands unless the removal overlapped them; a removal leaves nothing behind but what an overlapping command stored, and ends unless the queue was never allocated, a work died, or starts and removals registered the notifier side by side; a NIC that is up has the notifier unless a start or the removal of another NIC interfered |
| `dump` | pass | entries belong to the configuration in force; the entry a packet uses is not allocated again under it; a deletion harms only a command that overlapped it; a dump ends, is complete unless something was removed or a NIC was never configured, and repeats nothing unless something was added |
| `nsh` | pass | one entry per path, no entry outlives its device, packets use live entries of the path they carry, and bad pointers are followed in the listed cases only |
| `sfmc_ixgbe_cache` | violation | an LLT entry keeps a pointer to a freed route |
| `sfmc_reconfig` | violation | a second configuration is accepted and ignored |
| `sfmc_live_ixgbe` | violation | the cached connected route hides the host route |
| `overlay_release` | violation | a deleted device keeps its slot |

The findings in `PROJECT.json` quote the comment each violation contradicts.

Bounds. Registry: three devices for two slots make every path happen, the full
table included, and one reader suffices because readers do not affect anyone.
Sfmc: `MaxOps` bounds reconfigurations, route changes and spontaneous neighbour
changes together (4 in the safety runs, 3 with fairness): enough for an entry,
two routes and a change under a packet in flight. Four objects in the safety runs
and three with fairness hold the routes these operations add and those in the
hands of a packet and a worker; a packet that gets no memory is modelled anyway. Two addresses, three nested
prefixes, two link layer addresses: a route can be overridden by a longer one,
and an address can change. One CPU, since CPUs only meet through the objects.
Lifecycle: two NICs, enough to share the notifier, and one queued work each.
Patricia: addresses of three bits, six prefixes chosen so that every case of
insertion and removal happens at the head and below it, at most three routes at
a time (a glue node and both its children, a chain, a fork under a chain); the
length of the sequence of operations is not bounded. Overlay: three addresses
and two slots let slots run out and addresses be reused. Dump: two raven devices
and a NIC for two slots, three entries, two of them with one key and one with
key 0, in different buckets, two configurations; `MaxOps` = 4
links, commands and dumps, starting from any registered devices (up to their
names: `MCBefore`), so that a dump of two devices can meet an addition and a
removal. Nsh: two nsh devices, one
lower device, two paths of which one has service index 0, two objects,
`MaxOps` = 4, starting from any set of existing nsh devices: set, removal, new
device and another command fit. Interchangeable objects and devices are reduced
by symmetry in runs that check invariants and action properties; runs with fairness use no symmetry.
Deadlock checking is off where the modelled system may stop: in the runs of
`Sfmc` (a CPU that died), `lifecycle` (a removal that died), `dump` and `nsh` (`MaxOps`
is used up, or a command has touched freed memory).

Fairness. `MadcapRegistry`: a call that has begun runs on; the kernel's queued
rwlock gives the lock to a waiting writer (strong fairness of taking it).
Nothing obliges a driver to begin a call. `Sfmc`: a thread in an operation, a
queued work, a grace period and a notification come to an end (weak fairness);
a neighbour asked for its address answers; a flow goes on sending (strong
fairness, as other flows use the CPU in between). Operators are under no
obligation. `sfmc_live_ixgbe` is refuted under the same fairness. The runs with
fairness assume that a neighbour does not become unreachable (`NeighLoss = {}`):
the code asks for an address only when a route is inserted, so a flow whose
neighbour failed is not delivered again before some other traffic resolves it.
`SfmcLifecycle`: a removal that has begun and a queued work go on (weak fairness);
nobody has to start or remove a NIC, and a start or a command may take for ever. `MadcapDump`: the
reader takes part after part and a command that has begun is carried out. That a
dump ends rests on `MaxOps`: a dump chased for ever by additions need not end,
in the model or in the code.

## Proofs

For every value of the constants that satisfies the named assumptions (each
invariant `IInv` was checked by TLC on the instance of its run before the proof):

* `MadcapRegistryProofs`: `TypeCorrect` (`TypeOK`), `OneSlot` (`SlotUnique`),
  `OpsPublished` (`PublishedOps`), `RegistrationLasts` (`RegistrationKept`),
  `ArraysInStep` (`ArraysAgree`), `Lookups` (`LookupCorrect`) and
  `MapRefinement` (`Spec => MapSpec`). The inductive invariant `IInv` adds to
  the types who is inside the lock (`LockInv`), what the slot of a writer
  contains at each point of its critical section (`SlotInv`), and that a lookup
  of a registered device has not passed its slot (`LookupInv`). None of the
  properties is inductive alone: `PublishedOps`, for instance, needs that a
  chosen slot is still empty when it is stored to, and that needs the lock.
* `SfmcProofs`: `TypeCorrect`; `MirrorCorrect` (`NeighMirror`, both drivers);
  `InFlightSafe` (`InFlightRouteLive`, e1000). The invariant `TInv` adds to the
  types what a thread in the middle of an operation holds. `NeighMirror` is then
  inductive, because a route enters the tree with a thread about to resolve it
  and a changed neighbour enters `notify`; a stale worker copies into the
  route its memory has become that route's own neighbour. For `InFlightRouteLive` the search
  needs its part: unless torn, it began with a route that is still
  allocated and ends with one that covers the destination. The packets of ixgbe
  take routes from `st->fib`, and for them it is false.
* `OverlayProofs`: `TypeCorrect`, `OneSlotPerDevice` (`VdevUnique`),
  `AcquisitionLasts` (`AcquireKept`), and for ixgbe `NeverBare`
  (`GrantedNeverBare`, about packets that carry the device's dst).
  `sfmc_acquire_dev` takes no lock; what saves it is that rtnl acquires for devices
  that are not nsh devices and the generic netlink thread for nsh devices or freed
  ones (`CallInv`), so that two calls have the same device only at an address that
  was `reused` under nsh's call. `StoreInv` says that a call about to store has a
  device that is in no slot, or such an address; `KeptInv` that it overwrites
  nothing that counts as granted.
* `NshProofs`: `TypeCorrect`, `OnePerPath` (`PathUnique`), `RemovalsReachTable`
  (`NoStaleEntry`), `EntriesOutlivePackets` (`PacketEntryLive`),
  `PacketsFollowHeader` (`PacketOnPath`), `NoOtherFault` (`FaultsExplained`).
  The invariant adds what a command between its lookup and its change may rely
  on (`GlInv`: the path is still unset, because only commands add entries; the
  device and entry are as found unless rtnl overlapped the command), and what a
  packet holds (`PktInv`: its device is not freed, and the path of its entry is
  that of its device or header until the device is given another).

* `LifecycleProofs`: `TypesHold` (`TypeOK`), `NoStrayUserHolds` (`NoStrayUser`),
  `NothingLeftHolds` (`NothingLeft`), `NotifiedWhileUpHolds` (`NotifiedWhileUp`),
  for any number of NICs. `StageInv` says what exists at each step of
  `sfmc_init` and `sfmc_exit`: everybody who can reach a NIC reaches it through
  something that is built after the tables and taken down before them. `CmdInv`
  is what a netlink command can rely on between its steps, which take no lock
  that a removal takes, if no removal overlaps it. `ChainInv` says that
  `netevent_registered` tells the truth but for one NIC that is just changing it,
  as long as starts and removals have not `mixed`.
* `MadcapDumpProofs`, with the lemmas of `RavenProofs`: `TypesHold` (`TypeOK`),
  `EntriesMatchConfigHolds`, `PacketEntryLiveHolds`, `HarmOnlyByOverlapHolds`, `DumpOnceHolds` (`DumpOnce`) and `DumpCompleteHolds`
  (`DumpComplete`, an action property), for any number of devices, slots and
  entries, any order of the hash buckets, and dumps of any number of parts.
  For raven, `RavenInv` adds that a slot belongs to one living device
  (`SlotInv`), that no entry is twice in a table (`TableInv`), and what a command
  (`NlInv`) and a packet (`TxInv`) hold between their steps, where an entry that
  was unlinked stays `dying` until the packet is through. For the dump, the
  cursor divides what the dump finds into a passed and an open part: unless
  something was removed, all that stayed and was passed was sent
  (`CompleteInv`), because an addition can only push an object from the passed
  into the open part; a dump of configurations that ends early stands at a NIC
  without one; unless something was added, all that was sent is passed
  (`OnceInv`), because a removal can only pull objects the other way.
* `PatriciaProofs`: `PatriciaInv` (`IInv`), and from it `TypesHold` (`TypeOK`),
  `AssertsHoldAlways` (`AssertsHold`), `SearchRegularHolds` (`SearchRegular`),
  `UndefinedOnlyByRemovalHolds` (`UndefinedOnlyByRemoval`), `StoresRoutesHolds`
  (`StoresRoutes`) and `NoWasteHolds` (`NoWaste`), for addresses of any width,
  any prefixes and any sequence of insertions and removals. The trie is a `Tree`:
  links lead to longer prefixes on the right side (`Links`), what is stored under
  a node is behind the link on its way (`Closed`), and parents are right
  (`Parents`). Between the steps of a removal it is a tree but for the one link
  to the freed node (`Loose`). The lemmas `ChildTree`, `ParentTree`, `FreeTree`
  and `BypassTree` say once what each kind of change does to a tree; a case of
  `patricia_lookup` or `patricia_remove` is one of them or two. `StopFact`,
  `ClimbFact` and `ExactFact` say where the code's loops end. `SearchInv` is the
  argument for the search without a lock: a route that is stored all the time is
  on the search's stack, or the search is still above it, whatever the writer
  does in between. The walks are recursive functions; that they are defined and
  where they end is shown through the node with the least rank for which it
  would fail (`WalkDef`, `WalkFact`), since the prover cannot apply the library's
  induction theorems.

The assumptions are those named in the modules (`NAssumption`,
`PrefixAssumption`, `BeforeAssumption` and so on): sizes are natural numbers,
inputs are of the type the code takes, `NULL` is none of them, and slots filled
before the start hold different devices.

Only model-checked: liveness (`CallsReturn`, `RoutedFlowDelivered`,
`RemovalEnds`, `DumpEnds`), which the prover cannot do. Every invariant and every
safety action property of a passing run is also a theorem. The four violations
are shown by TLC alone.

## Plan

Done: all the modules of the table above. Left:

1. The UDP option of raven, as a second word the packet reads.
2. Two writers of the trie at once, once it is settled what the code should
   promise for them.
3. That the trie implements the longest prefix match that `Sfmc` takes for
   granted in a clean search, as a theorem about a search that no writer overlaps.
4. The later reads of the configuration in `raven_xmit`.

## Not modelled

* `ip madcap`: one request per process run, no state. netdevgen: a load
  generator beside the system. The benchmark scripts and the timestamping
  variant (`OVBENCH`).
* The drivers for kernel 3.19: earlier copies of the 4.2.0 ones.
* The parts of vxlan, gre, ipip, ixgbe and e1000 that come from the kernel and
  from Intel, and iproute2. They are nearly all of the 281,000 lines of C in the
  repository (two copies of iproute2 3.19, one of 4.4, two NIC drivers, kernel
  tunnel drivers twice). Madcap's own code is a few thousand lines: `madcap.c`,
  `raven.c`, `netdevgen.c`, two copies of `sfmc.c` and `patricia.c`, `nshkmod.c`
  and the hooks in the drivers. The models cover that code; the share of the
  whole repository they cover stays small for this reason.
* Checksums, header layouts, attribute parsing, statistics and log messages.
* Data races inside one statement or copy (a torn link layer address, the dump
  that follows `dev[n]` after the test, two writers of the trie): the source
  promises nothing for them. They are in the hazards, with a note.
