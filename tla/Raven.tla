--------------------------------- MODULE Raven ---------------------------------
(***************************************************************************)
(* raven, the dummy madcap device (src/raven/raven.c), and the generic     *)
(* netlink commands of madcap.ko that reach it (src/madcap/madcap.c).      *)
(*                                                                         *)
(* Three kinds of threads meet at a raven device: the rtnl thread creates  *)
(* and deletes devices, the netlink thread (the commands are serialised by *)
(* the generic netlink lock, not by rtnl) finds a device by its index, its *)
(* ops in the registry, and calls the driver, and a CPU transmits packets. *)
(* The registry is one step here; MadcapRegistry has its details.          *)
(*                                                                         *)
(* The NICs with an sfmc stand in the same registry and answer the same    *)
(* commands.  Here they are there from the start or not at all, and send   *)
(* nothing: SfmcLifecycle and Sfmc have the rest.                          *)
(***************************************************************************)
EXTENDS SequencesExt

CONSTANTS
    Dev,        \* madcap devices
    Nic,        \* those of them that are NICs with an sfmc, not raven devices
    N,          \* MADCAPDEV_PERNET_NUM
    Entry,      \* LLT entries that are added, each at most once at a time
    Id, ZeroId, \* LLT keys, and the key 0
    EntryId,    \* EntryId[e]: the key of e
    Bucket,     \* Bucket[i]: the place of the key in the hash table
    Cfg, Zero,  \* configurations, and the one a new device has
    ExtractId,  \* ExtractId[c]: the key read from a packet under c
    Before,     \* the slots there may be at the start
    MaxOps,     \* bound on links, commands and dumps
    NULL

ASSUME RavenAssumption ==
    /\ N \in Nat /\ MaxOps \in Nat
    /\ Nic \subseteq Dev
    /\ ZeroId \in Id /\ Zero \in Cfg
    /\ EntryId \in [Entry -> Id]
    /\ Bucket \in [Id -> Nat]
    /\ ExtractId \in [Cfg -> Id]
    /\ NULL \notin Dev \cup Entry \cup Id \cup Cfg
    /\ Entry \cap {"none", "busy", "error"} = {}

ASSUME BeforeAssumption ==
    /\ Before \subseteq [1 .. N -> Dev \cup {NULL}]
    /\ \A s \in Before : \A m, n \in 1 .. N : s[m] = s[n] => m = n \/ s[m] = NULL

VARIABLES
    slot,      \* slot[n]: the device registered in slot n of madcap.ko
    link,      \* link[d]: where d is between raven_newlink and its end
    oc,        \* oc[d]: rdev->oc, sfmc->oc; NULL is the object id 0 of a NIC that
               \* was never configured
    tab,       \* tab[d]: the entries of rdev->raven_table in the order of a walk
    dying,     \* entries that wait for the grace period of call_rcu
    under,     \* history: under[e], the configuration e was added under
    nl,        \* the netlink command in progress
    tx,        \* the packet in progress
    over,      \* history: devices whose deletion a netlink command overlapped
    harm,      \* history: devices that were touched when freed, or whose entry
               \* was deleted twice
    nops       \* links, commands and dumps so far

raven == <<slot, link, oc, tab, dying, under, nl, tx, over, harm>>
rvars == <<slot, link, oc, tab, dying, under, nl, tx, over, harm, nops>>

\* made: register_netdevice is done; up: newlink has returned; emptied, cut: in
\* dellink, after the table was destroyed and after the registration was.
LinkState == {"none", "made", "up", "emptied", "cut"}

Op == {"none", "cfg", "add", "del"}
NlRec == [op : Op, ph : {"none", "ops", "call", "store", "delete"}, dev : Dev \cup {NULL},
          arg : Cfg \cup Entry \cup Id \cup {NULL}]
NoNl == [op |-> "none", ph |-> "none", dev |-> NULL, arg |-> NULL]

\* The device, the key that was read, and the entry that was found.
TxRec == [dev : Dev \cup {NULL}, id : Id \cup {NULL}, res : Entry \cup {"none", "busy", "error"}]
NoTx == [dev |-> NULL, id |-> NULL, res |-> "none"]

RavenTypeOK ==
    /\ slot \in [1 .. N -> Dev \cup {NULL}]
    /\ link \in [Dev -> LinkState]
    /\ oc \in [Dev -> Cfg \cup {NULL}]
    /\ \A d \in Dev \ Nic : oc[d] \in Cfg
    /\ tab \in [Dev -> Seq(Entry)]
    /\ dying \subseteq Entry
    /\ under \in [Entry -> Cfg \cup {NULL}]
    /\ nl \in NlRec
    /\ tx \in TxRec
    /\ over \subseteq Dev /\ harm \subseteq Dev
    /\ nops \in 0 .. MaxOps

Registered(d) == \E n \in 1 .. N : slot[n] = d

\* Devices were created and deleted before: some are in some slots, unused.
RavenInit ==
    /\ slot \in Before
    /\ link = [d \in Dev |-> IF Registered(d) THEN "up" ELSE "none"]
    /\ oc = [d \in Dev |-> IF d \in Nic THEN NULL ELSE Zero]
    /\ tab = [d \in Dev |-> <<>>]
    /\ dying = {}
    /\ under = [e \in Entry |-> Zero]
    /\ nl = NoNl
    /\ tx = NoTx
    /\ over = {} /\ harm = {}
    /\ nops = 0

Count == nops < MaxOps /\ nops' = nops + 1

-------------------------------------------------------------------------------
(***************************************************************************)
(* The rtnl thread.  raven_newlink registers the netdevice, then its ops;  *)
(* if there is no slot it returns an error and the netdevice stays.        *)
(***************************************************************************)
Rtnl(d) == \A e \in Dev \ {d} : link[e] \in {"none", "up"}

Newlink(d) ==
    /\ Count
    /\ Rtnl(d)
    /\ link[d] = "none"
    /\ nl.dev # d               \* the model does not reuse a freed address
    /\ link' = [link EXCEPT ![d] = "made"]
    /\ oc' = [oc EXCEPT ![d] = Zero]
    /\ tab' = [tab EXCEPT ![d] = <<>>]
    /\ over' = over \ {d} /\ harm' = harm \ {d}
    /\ UNCHANGED <<slot, dying, under, nl, tx>>

FirstFree == {n \in 1 .. N : slot[n] = NULL /\ \A m \in 1 .. n - 1 : slot[m] # NULL}

\* Mutant: the search for a free slot runs one slot too far.
RegisterPastEnd(d) ==
    /\ link[d] = "made"
    /\ link' = [link EXCEPT ![d] = "up"]
    /\ slot' = IF FirstFree = {} THEN [n \in 1 .. N + 1 |-> IF n > N THEN d ELSE slot[n]]
               ELSE [n \in 1 .. N |-> IF n \in FirstFree THEN d ELSE slot[n]]
    /\ UNCHANGED <<oc, tab, dying, under, nl, tx, over, harm, nops>>

NewlinkRegister(d) ==
    /\ link[d] = "made"
    /\ link' = [link EXCEPT ![d] = "up"]
    /\ slot' = [n \in 1 .. N |-> IF n \in FirstFree THEN d ELSE slot[n]]
    /\ UNCHANGED <<oc, tab, dying, under, nl, tx, over, harm, nops>>

\* Mutant: an entry taken out of its table is freed at once.
UnlinkFree(d, t) ==
    /\ tab' = [tab EXCEPT ![d] = t]
    /\ UNCHANGED dying

\* raven_table_delete of the entries of d that t has no more: hlist_del_rcu, and
\* call_rcu.
Unlink(d, t) ==
    /\ tab' = [tab EXCEPT ![d] = t]
    /\ dying' = dying \cup (Range(tab[d]) \ Range(t))

\* Mutant: the entries are left in the table of the deleted device.
DellinkKeepsTable(d) ==
    /\ Count
    /\ Rtnl(d)
    /\ link[d] = "up"
    /\ ~(nl.dev = d /\ nl.ph = "store")
    /\ link' = [link EXCEPT ![d] = "emptied"]
    /\ over' = IF nl.dev = d THEN over \cup {d} ELSE over
    /\ UNCHANGED <<slot, oc, tab, dying, under, nl, tx, harm>>

\* raven_dellink: the table, under the device's lock, the registration, the end.
Dellink(d) ==
    /\ Count
    /\ Rtnl(d)
    /\ link[d] = "up"
    /\ ~(nl.dev = d /\ nl.ph = "store")
    /\ link' = [link EXCEPT ![d] = "emptied"]
    /\ Unlink(d, <<>>)
    /\ over' = IF nl.dev = d THEN over \cup {d} ELSE over
    /\ UNCHANGED <<slot, oc, under, nl, tx, harm>>

DellinkUnregister(d) ==
    /\ link[d] = "emptied"
    /\ link' = [link EXCEPT ![d] = "cut"]
    /\ slot' = [n \in 1 .. N |-> IF slot[n] = d THEN NULL ELSE slot[n]]
    /\ UNCHANGED <<oc, tab, dying, under, nl, tx, over, harm, nops>>

\* unregister_netdevice waits for packets, and not for netlink commands.
DellinkFree(d) ==
    /\ link[d] = "cut"
    /\ tx.dev # d
    /\ link' = [link EXCEPT ![d] = "none"]
    /\ UNCHANGED <<slot, oc, tab, dying, under, nl, tx, over, harm, nops>>

-------------------------------------------------------------------------------
(***************************************************************************)
(* The netlink thread: __dev_get_by_index, get_madcap_ops, the driver.     *)
(***************************************************************************)
CmdFind(op, d, a) ==
    /\ Count
    /\ nl = NoNl
    /\ link[d] \in {"made", "up", "emptied", "cut"}         \* otherwise -ENODEV
    /\ nl' = [op |-> op, ph |-> "ops", dev |-> d, arg |-> a]
    /\ over' = IF link[d] \in {"emptied", "cut"} THEN over \cup {d} ELSE over
    /\ UNCHANGED <<slot, link, oc, tab, dying, under, tx, harm>>

CmdOps ==
    /\ nl.ph = "ops"
    /\ nl' = IF Registered(nl.dev) THEN [nl EXCEPT !.ph = "call"] ELSE NoNl
    /\ UNCHANGED <<slot, link, oc, tab, dying, under, tx, over, harm, nops>>

Call(op) == nl.ph = "call" /\ nl.op = op

\* The driver follows the device it was given.
Touch == harm' = IF link[nl.dev] = "none" THEN harm \cup {nl.dev} ELSE harm

\* raven compares the whole object; sfmc_llt_cfg its first byte, which is the same
\* for any two configurations.
Changes(d, c) == IF d \in Nic THEN oc[d] = NULL ELSE c # oc[d]

\* Mutant: the entries of the old configuration are kept.
CfgKeepsEntries ==
    /\ Call("cfg")
    /\ nl' = IF Changes(nl.dev, nl.arg) THEN [nl EXCEPT !.ph = "store"] ELSE NoNl
    /\ Touch
    /\ UNCHANGED <<slot, link, oc, tab, dying, under, tx, over, nops>>

\* raven_llt_cfg and sfmc_llt_cfg: drop the entries, then store; packets take no
\* lock.
CfgDestroy ==
    /\ Call("cfg")
    /\ IF Changes(nl.dev, nl.arg)
       THEN nl' = [nl EXCEPT !.ph = "store"] /\ Unlink(nl.dev, <<>>)
       ELSE nl' = NoNl /\ UNCHANGED <<tab, dying>>
    /\ Touch
    /\ UNCHANGED <<slot, link, oc, under, tx, over, nops>>

CfgStore ==
    /\ nl.ph = "store"
    /\ oc' = [oc EXCEPT ![nl.dev] = nl.arg]
    /\ nl' = NoNl
    /\ UNCHANGED <<slot, link, tab, dying, under, tx, over, harm, nops>>

\* raven_table_add: at the head of its bucket.
WithEntry(s, e) ==
    LET before == {i \in DOMAIN s : Bucket[EntryId[s[i]]] < Bucket[EntryId[e]]}
    IN  InsertAt(s, Cardinality(before) + 1, e)

\* raven_table_find: the first entry of the key.
Find(d, i) == LET hits == {j \in DOMAIN tab[d] : EntryId[tab[d][j]] = i}
              IN  IF hits = {} THEN NULL ELSE tab[d][Min(hits)]

\* raven takes an entry of any key, sfmc_llt_entry_add one of a key it has not.
EntryAdd ==
    /\ Call("add")
    /\ IF nl.dev \in Nic /\ Find(nl.dev, EntryId[nl.arg]) # NULL
       THEN UNCHANGED <<tab, under>>                        \* -EEXIST
       ELSE /\ tab' = [tab EXCEPT ![nl.dev] = WithEntry(@, nl.arg)]
            /\ under' = [under EXCEPT ![nl.arg] = oc[nl.dev]]
    /\ Touch
    /\ nl' = NoNl
    /\ UNCHANGED <<slot, link, oc, dying, tx, over, nops>>

\* raven_table_delete; an entry that is not in the table does not change it.
Without(s, e) ==
    LET at == {i \in DOMAIN s : s[i] = e}
    IN  IF at = {} THEN s ELSE RemoveAt(s, Min(at))

\* raven_llt_entry_del, without the device's lock.
EntryDelFind ==
    /\ Call("del")
    /\ nl' = IF Find(nl.dev, nl.arg) = NULL THEN NoNl
             ELSE [nl EXCEPT !.ph = "delete", !.arg = Find(nl.dev, nl.arg)]
    /\ Touch
    /\ UNCHANGED <<slot, link, oc, tab, dying, under, tx, over, nops>>

EntryDelDelete ==
    /\ nl.ph = "delete"
    /\ Unlink(nl.dev, Without(tab[nl.dev], nl.arg))
    /\ harm' = IF nl.arg \notin Range(tab[nl.dev]) \/ link[nl.dev] = "none"
               THEN harm \cup {nl.dev} ELSE harm
    /\ nl' = NoNl
    /\ UNCHANGED <<slot, link, oc, under, tx, over, nops>>

-------------------------------------------------------------------------------
(***************************************************************************)
(* raven_xmit: read the configuration, find the entry of the key or of the *)
(* key 0, send to its destination.                                         *)
(***************************************************************************)
XmitExtract(d) ==
    /\ tx.dev = NULL
    /\ link[d] \in {"made", "up", "emptied", "cut"}
    /\ tx' = [dev |-> d, id |-> ExtractId[oc[d]], res |-> "busy"]
    /\ UNCHANGED <<slot, link, oc, tab, dying, under, nl, over, harm, nops>>

XmitFind ==
    LET e == IF Find(tx.dev, tx.id) # NULL THEN Find(tx.dev, tx.id) ELSE Find(tx.dev, ZeroId)
    IN
    /\ tx.res = "busy"
    /\ tx' = [tx EXCEPT !.res = IF e = NULL THEN "error" ELSE e]
    /\ UNCHANGED <<slot, link, oc, tab, dying, under, nl, over, harm, nops>>

XmitEnd ==
    /\ tx.dev # NULL /\ tx.res # "busy"
    /\ tx' = NoTx
    /\ UNCHANGED <<slot, link, oc, tab, dying, under, nl, over, harm, nops>>

-------------------------------------------------------------------------------
\* raven_table_free, when the packets that may have found the entry are over.
EntryFree(e) ==
    /\ e \in dying
    /\ tx.dev = NULL
    /\ dying' = dying \ {e}
    /\ UNCHANGED <<slot, link, oc, tab, under, nl, tx, over, harm, nops>>

-------------------------------------------------------------------------------
\* Entries that are not free to be allocated.
InUse == (UNION {Range(tab[d]) : d \in Dev}) \cup dying

Links ==
    \E d \in Dev \ Nic : \/ Newlink(d) \/ NewlinkRegister(d)
                         \/ Dellink(d) \/ DellinkUnregister(d) \/ DellinkFree(d)

Commands ==
    \/ \E d \in Dev, c \in Cfg : CmdFind("cfg", d, c)
    \/ \E d \in Dev, e \in Entry \ InUse : CmdFind("add", d, e)
    \/ \E d \in Dev, i \in Id : CmdFind("del", d, i)

Command ==
    \/ CmdOps \/ CfgDestroy \/ CfgStore \/ EntryAdd \/ EntryDelFind \/ EntryDelDelete

Packets == (\E d \in Dev \ Nic : XmitExtract(d)) \/ XmitFind \/ XmitEnd

Reclaim == \E e \in Entry : EntryFree(e)

-------------------------------------------------------------------------------
\* "offset or length is changed. drop all table entry.": the entries a device
\* holds were added under the configuration it has now.
EntriesMatchConfig == \A d \in Dev : \A e \in Range(tab[d]) : under[e] = oc[d]

\* The entry a packet is sent with is allocated to the end: in the table of its
\* device or, deleted since, waiting for the packet.  A deletion, a configuration
\* or raven_dellink that runs beside the packet does not free it.
PacketEntryLive == tx.res \in Entry => tx.res \in Range(tab[tx.dev]) \cup dying

\* No entry is left behind by a deleted device, none is deleted twice and no
\* freed device is touched, unless a netlink command that had found the device
\* overlapped raven_dellink: commands hold neither rtnl nor a reference.
HarmOnlyByOverlap ==
    /\ harm \subseteq over
    /\ \A d \in Dev : link[d] \in {"emptied", "cut", "none"} /\ d \notin over => tab[d] = <<>>

(***************************************************************************)
(* The inductive invariant behind these properties.                        *)
(***************************************************************************)
\* A slot belongs to one device, from its registration to its unregistration.
SlotInv ==
    /\ \A m, n \in 1 .. N : slot[m] = slot[n] => m = n \/ slot[m] = NULL
    /\ \A n \in 1 .. N : slot[n] \in Dev => link[slot[n]] \in {"up", "emptied"}

\* No entry is twice in a table.
TableInv == \A d \in Dev : IsInjective(tab[d])

\* What a command can rely on when it goes on: the entry to add is still in
\* nobody's hands, the table to configure still empty and, unless the removal of
\* the device overlapped, the device still there and the entry to delete in it.
NlInv ==
    /\ nl.ph = "none" => nl = NoNl
    /\ nl.ph # "none" => nl.dev \in Dev
    /\ nl.ph \in {"ops", "call"} => nl.op # "none"
    /\ nl.op = "cfg" => nl.arg \in Cfg
    /\ nl.op = "add" =>
          nl.arg \in Entry \ dying /\ \A d \in Dev : nl.arg \notin Range(tab[d])
    /\ nl.ph = "store" => nl.op = "cfg" /\ tab[nl.dev] = <<>>
    /\ nl.ph = "delete" => nl.arg \in Entry /\ (nl.dev \notin over => nl.arg \in Range(tab[nl.dev]))
    /\ nl.ph # "none" /\ nl.dev \notin over => link[nl.dev] \in {"made", "up"}

\* A packet is on a raven device that exists.
TxInv ==
    /\ tx.dev \in Dev => tx.dev \notin Nic /\ tx.id \in Id /\ link[tx.dev] # "none"
    /\ tx.dev = NULL => tx.res = "none"

RavenInv ==
    /\ RavenTypeOK /\ SlotInv /\ TableInv /\ NlInv /\ TxInv
    /\ EntriesMatchConfig /\ PacketEntryLive /\ HarmOnlyByOverlap
===============================================================================
