--------------------------------- MODULE Sfmc ---------------------------------
(***************************************************************************)
(* sfmc, the software emulation of a madcap NIC inside the ixgbe and e1000 *)
(* drivers (src/device-drivers-4.2.0/{ixgbe,e1000}/sfmc.c), for one device *)
(* from the end of sfmc_init to the start of sfmc_exit.                    *)
(*                                                                         *)
(* Four kinds of threads share the device's tables, and none takes a lock: *)
(* the netlink thread changes the locator lookup table (LLT) and its       *)
(* configuration, the rtnl thread mirrors kernel routes through the        *)
(* switchdev operations, workers insert host routes for neighbours on      *)
(* connected networks, and CPUs transmit packets.  The kernel's neighbour  *)
(* table is external; its changes reach sfmc through a notifier.           *)
(*                                                                         *)
(* ixgbe remembers in each LLT entry the route its first packet found      *)
(* (st->fib) and falls back to the entry of id 0; e1000 looks the route up *)
(* for every packet and looks the same id up again.                        *)
(***************************************************************************)
EXTENDS Naturals, FiniteSets

CONSTANTS
    Driver,      \* "ixgbe" or "e1000"
    Id, ZeroId,  \* LLT keys, and the key 0
    Host,        \* IPv4 addresses
    Locator,     \* those that LLT entries have as destination
    Mac,         \* Ethernet addresses
    Prefix,      \* IPv4 prefixes of the routes
    Match,       \* Match[p]: the addresses p covers
    Plen,        \* Plen[p]: its length
    HostPfx,     \* HostPfx[h]: the /32 of a locator
    Route,       \* routes the kernel offers through switchdev
    Cfg,         \* LLT configurations: offset and length of the id in a packet
    Flow,        \* kinds of packets
    ExtractId,   \* ExtractId[c][f]: the id read from a packet of f under c
    Fib,         \* sfmc_fib objects (memory)
    Cpu,         \* transmitting CPUs
    NeighLoss,   \* {"failed"} if neighbours may become unreachable, else {}
    MaxOps,      \* bound on reconfigurations and neighbour changes
    NULL

ASSUME DriverAssumption == Driver \in {"ixgbe", "e1000"}
ASSUME IdAssumption == ZeroId \in Id /\ ExtractId \in [Cfg -> [Flow -> Id]]
ASSUME NullAssumption ==
    NULL \notin Id \cup Host \cup Mac \cup Prefix \cup Cfg \cup Fib
ASSUME RouteAssumption ==
    /\ Match \in [Prefix -> SUBSET Host]
    /\ Plen \in [Prefix -> Nat]
    /\ Locator \subseteq Host
    /\ HostPfx \in [Locator -> Prefix]
    /\ \A a \in Locator : a \in Match[HostPfx[a]]
    /\ Route \subseteq [pfx : Prefix, gw : Host \cup {NULL}, scope : {"link", "universe"}]
ASSUME OpsAssumption == MaxOps \in Nat /\ NeighLoss \subseteq {"failed"}

\* A neighbour without a usable link layer address.
Unresolved == {"none", "incomplete", "failed"}
ASSUME MacAssumption == Mac \cap Unresolved = {}

VARIABLES
    oc,         \* sfmc->oc: the configuration in force, or NULL before the first
    nl,         \* the configuration that llt_cfg is about to store, or NULL
    asked,      \* history: the configuration of the last successful llt_cfg
    llt,        \* llt[i]: destination of the entry of id i, or NULL
    cached,     \* cached[i]: the entry's fib pointer, or NULL
    fib,        \* the sfmc_fib objects
    rtnl,       \* what the rtnl thread is doing, and to which object
    workers,    \* objects whose ll_work runs and has not called neigh_resolve
    stale,      \* those of them that were freed meanwhile
    neigh,      \* the kernel's neighbour of each address
    notify,     \* addresses whose NETEVENT_NEIGH_UPDATE is yet to be delivered
    tx,         \* tx[c]: the packet CPU c is working on
    out,        \* out[f]: what became of the last packet of f
    nops        \* reconfigurations and neighbour changes so far

control == <<oc, nl, asked, llt>>
work == <<workers, stale>>
vars == <<control, cached, fib, rtnl, work, neigh, notify, tx, out, nops>>

(***************************************************************************)
(* An sfmc_fib: free memory; new, created with its ll_work queued; in the  *)
(* course of sfmc_fib_insert, when the trie has a node without data for it *)
(* ("node"), then the data ("data"), then also fib_list has it ("tree");   *)
(* being taken out of the trie; unlinked from trie and list; cleared,      *)
(* waiting for the RCU grace period; or lost, not inserted and yet not     *)
(* freed.  Once resolved a lost object is never touched again, and the     *)
(* model reuses its name.  mac is NULL while nud_state is not NUD_VALID.   *)
(***************************************************************************)
FibState == {"free", "new", "node", "data", "tree", "removing", "unlinked", "cleared", "lost"}
FibRec == [st : FibState, pfx : Prefix \cup {NULL}, gw : Host \cup {NULL},
           scope : {"link", "universe"}, mac : Mac \cup {NULL}]

\* A route that was inserted and is not yet freed.
Allocated == {"data", "tree", "removing", "unlinked", "cleared"}

FreeFib == [st |-> "free", pfx |-> NULL, gw |-> NULL, scope |-> "universe", mac |-> NULL]

(***************************************************************************)
(* A packet: the LLT entry it found (NULL once that entry was deleted, the *)
(* memory staying readable under RCU), its destination and its route.      *)
(* While it searches sf is the best route there was when it began, or      *)
(* NULL; seen tells what its search met: a node whose data was not set     *)
(* yet ("hole"), or patricia_remove, which frees nodes at once ("torn").   *)
(* "oops": the CPU has died.                                               *)
(***************************************************************************)
TxRec == [ph : {"idle", "search", "store", "reread", "check", "oops"},
          flow : Flow \cup {NULL}, st : Id \cup {NULL}, dst : Locator \cup {NULL},
          sf : Fib \cup {NULL}, seen : {"clean", "hole", "torn"}]

NoTx == [ph |-> "idle", flow |-> NULL, st |-> NULL, dst |-> NULL, sf |-> NULL, seen |-> "clean"]

Verdict == {"none", "drop"} \cup Mac

TypeOK ==
    /\ oc \in Cfg \cup {NULL} /\ nl \in Cfg \cup {NULL} /\ asked \in Cfg \cup {NULL}
    /\ llt \in [Id -> Locator \cup {NULL}]
    /\ cached \in [Id -> Fib \cup {NULL}]
    /\ fib \in [Fib -> FibRec]
    /\ rtnl \in [op : {"idle", "add", "remove", "clear"}, sf : Fib \cup {NULL}]
    /\ workers \subseteq Fib /\ stale \subseteq Fib
    /\ neigh \in [Host -> Mac \cup Unresolved]
    /\ notify \subseteq Host
    /\ tx \in [Cpu -> TxRec]
    /\ out \in [Flow -> Verdict]
    /\ nops \in 0 .. MaxOps

Idle == [op |-> "idle", sf |-> NULL]

Init ==
    /\ oc = NULL /\ nl = NULL /\ asked = NULL
    /\ llt = [i \in Id |-> NULL]
    /\ cached = [i \in Id |-> NULL]
    /\ fib = [o \in Fib |-> FreeFib]
    /\ rtnl = Idle
    /\ workers = {} /\ stale = {}
    /\ neigh = [h \in Host |-> "none"]
    /\ notify = {}
    /\ tx = [c \in Cpu |-> NoTx]
    /\ out = [f \in Flow |-> "none"]
    /\ nops = 0

\* Operators and neighbours disturb the device at most MaxOps times.
Disturb == nops < MaxOps /\ nops' = nops + 1

-------------------------------------------------------------------------------
(***************************************************************************)
(* The netlink thread: sfmc_llt_cfg, sfmc_llt_entry_add, _del.             *)
(* A deleted entry disappears from the table at once; a CPU that has found *)
(* it goes on with the memory it points to.                                *)
(***************************************************************************)
Forget(ids) == [c \in Cpu |-> IF tx[c].st \in ids THEN [tx[c] EXCEPT !.st = NULL] ELSE tx[c]]

TableDestroy ==
    /\ llt' = [i \in Id |-> NULL]
    /\ cached' = [i \in Id |-> NULL]
    /\ tx' = Forget(Id)

(***************************************************************************)
(* memcmp of oc and sfmc->oc over sizeof(oc) != 0 bytes compares one: the  *)
(* low byte of obj.id.  It is 0 until the first configuration stores 1     *)
(* (MADCAP_OBJ_ID_LLT_CONFIG), and equal for every configuration after it. *)
(***************************************************************************)
LltCfgDiffers == oc = NULL

LltCfg(c) ==
    /\ Disturb
    /\ nl = NULL
    /\ IF LltCfgDiffers
       THEN TableDestroy /\ nl' = c /\ UNCHANGED asked
       ELSE asked' = c /\ UNCHANGED <<nl, llt, cached, tx>>
    /\ UNCHANGED <<oc, fib, rtnl, work, neigh, notify, out>>

LltCfgStore ==
    /\ nl # NULL
    /\ oc' = nl /\ asked' = nl /\ nl' = NULL
    /\ UNCHANGED <<llt, cached, fib, rtnl, work, neigh, notify, tx, out, nops>>

LltEntryAdd(i, h) ==
    /\ Disturb
    /\ nl = NULL
    /\ llt[i] = NULL                        \* otherwise -EEXIST
    /\ llt' = [llt EXCEPT ![i] = h]
    /\ cached' = [cached EXCEPT ![i] = NULL]
    /\ UNCHANGED <<oc, nl, asked, fib, rtnl, work, neigh, notify, tx, out>>

LltEntryDel(i) ==
    /\ Disturb
    /\ nl = NULL
    /\ llt[i] # NULL                        \* otherwise -ENOENT
    /\ llt' = [llt EXCEPT ![i] = NULL]
    /\ cached' = [cached EXCEPT ![i] = NULL]
    /\ tx' = Forget({i})
    /\ UNCHANGED <<oc, nl, asked, fib, rtnl, work, neigh, notify, out>>

-------------------------------------------------------------------------------
(***************************************************************************)
(* The route table.  Two threads that change the trie or the list at once  *)
(* corrupt both (no lock is taken); the model lets only one be there       *)
(* (NoWriter).  patricia_lookup is one step for searches: the node is in   *)
(* the trie or not.  patricia_remove is an interval.                       *)
(***************************************************************************)
InTrie == {o \in Fib : fib[o].st \in {"data", "tree"}}

Listed == {o \in Fib : fib[o].st \in {"tree", "removing"}}

NoWriter == \A o \in Fib : fib[o].st \notin {"node", "data", "removing"}

FindExact(p) == {o \in InTrie : fib[o].pfx = p}

Covering(h) == {o \in InTrie : h \in Match[fib[o].pfx]}

FindBest(h) ==
    {o \in Covering(h) : \A q \in Covering(h) : Plen[fib[q].pfx] <= Plen[fib[o].pfx]}

FibCreate(p, g, s, st) == [st |-> st, pfx |-> p, gw |-> g, scope |-> s, mac |-> NULL]

\* sfmc_fib_insert leaves the trie alone when the prefix is there already, and
\* returns the object found, never NULL: the caller frees nothing.
Inserted(p) == IF FindExact(p) = {} THEN "node" ELSE "lost"

\* The searches for an address of p meet the new node before it has data.
Hole(p) ==
    [c \in Cpu |-> IF tx[c].ph = "search" /\ tx[c].seen = "clean" /\ tx[c].dst \in Match[p]
                   THEN [tx[c] EXCEPT !.seen = "hole"] ELSE tx[c]]

FibInsertData(o) ==
    /\ fib[o].st = "node"
    /\ fib' = [fib EXCEPT ![o].st = "data"]
    /\ UNCHANGED <<control, cached, rtnl, work, neigh, notify, tx, out, nops>>

FibInsertList(o) ==
    /\ fib[o].st = "data"
    /\ fib' = [fib EXCEPT ![o].st = "tree"]
    /\ UNCHANGED <<control, cached, rtnl, work, neigh, notify, tx, out, nops>>

(***************************************************************************)
(* sfmc_neigh_resolve: copy a valid neighbour, else ask for resolution.    *)
(* A connected route has no gateway; what is looked up for it (0.0.0.0) is *)
(* never used.                                                             *)
(***************************************************************************)
Resolved(o) == fib[o].gw # NULL /\ neigh[fib[o].gw] \in Mac

NeighCopied(o) == IF Resolved(o) THEN [fib[o] EXCEPT !.mac = neigh[fib[o].gw]] ELSE fib[o]

NeighAsked(o) ==
    IF fib[o].gw = NULL \/ Resolved(o) THEN neigh ELSE [neigh EXCEPT ![fib[o].gw] = "incomplete"]

NeighResolve(o) ==
    /\ fib[o].st \notin {"node", "data"}
    /\ fib' = [fib EXCEPT ![o] = IF fib[o].st = "lost" THEN FreeFib ELSE NeighCopied(o)]
    /\ neigh' = NeighAsked(o)

-------------------------------------------------------------------------------
(***************************************************************************)
(* The rtnl thread: sfmc_port_obj_add in the commit phase, the steps of    *)
(* sfmc_fib_insert and then sfmc_neigh_resolve; sfmc_port_obj_del: remove  *)
(* from the trie, from the list, clear the pointers LLT entries hold       *)
(* (ixgbe), hand to kfree_rcu.                                             *)
(***************************************************************************)
Installs(r) == r.gw # NULL \/ r.scope = "link"

\* Mutant: a route is added and its neighbour not resolved.
PortObjAddNoResolve(r) ==
    /\ Disturb
    /\ rtnl.op = "idle" /\ NoWriter
    /\ Installs(r)
    /\ \E o \in Fib :
          /\ fib[o].st = "free"
          /\ fib' = [fib EXCEPT ![o] = FibCreate(r.pfx, r.gw, r.scope, Inserted(r.pfx))]
    /\ UNCHANGED <<control, cached, rtnl, work, neigh, notify, tx, out>>

PortObjAdd(r) ==
    /\ Disturb
    /\ rtnl.op = "idle" /\ NoWriter
    /\ Installs(r)
    /\ \E o \in Fib :
          /\ fib[o].st = "free"
          /\ fib' = [fib EXCEPT ![o] = FibCreate(r.pfx, r.gw, r.scope, Inserted(r.pfx))]
          /\ rtnl' = [op |-> "add", sf |-> o]
    /\ tx' = IF FindExact(r.pfx) = {} THEN Hole(r.pfx) ELSE tx
    /\ UNCHANGED <<control, cached, work, neigh, notify, out>>

PortObjAddResolve ==
    /\ rtnl.op = "add"
    /\ NeighResolve(rtnl.sf)
    /\ rtnl' = Idle
    /\ UNCHANGED <<control, cached, work, notify, tx, out, nops>>

\* sfmc_fib_delete calls patricia_remove, and every search that runs is torn.
PortObjDel(p) ==
    /\ Disturb
    /\ rtnl.op = "idle" /\ NoWriter
    /\ \E o \in FindExact(p) :              \* otherwise -ENOENT
          /\ fib' = [fib EXCEPT ![o].st = "removing"]
          /\ rtnl' = [op |-> "remove", sf |-> o]
    /\ tx' = [c \in Cpu |-> IF tx[c].ph = "search" THEN [tx[c] EXCEPT !.seen = "torn"] ELSE tx[c]]
    /\ UNCHANGED <<control, cached, work, neigh, notify, out>>

FibDeleteUnlink ==
    /\ rtnl.op = "remove"
    /\ fib' = [fib EXCEPT ![rtnl.sf].st = "unlinked"]
    /\ rtnl' = [rtnl EXCEPT !.op = "clear"]
    /\ UNCHANGED <<control, cached, work, neigh, notify, tx, out, nops>>

FibDeleteClear ==
    /\ rtnl.op = "clear"
    /\ cached' = [i \in Id |-> IF cached[i] = rtnl.sf THEN NULL ELSE cached[i]]
    /\ fib' = [fib EXCEPT ![rtnl.sf].st = "cleared"]
    /\ rtnl' = Idle
    /\ UNCHANGED <<control, work, neigh, notify, tx, out, nops>>

\* Mutant: kfree, not kfree_rcu.
NoGracePeriod(o) == o \in Fib

\* The grace period ends when no CPU that may have seen the object is left.
GracePeriod(o) == \A c \in Cpu : tx[c].sf # o

KfreeRcu(o) ==
    /\ fib[o].st = "cleared"
    /\ GracePeriod(o)
    /\ fib' = [fib EXCEPT ![o] = FreeFib]
    /\ workers' = workers \ {o}
    /\ stale' = stale \cup (workers \cap {o})
    /\ UNCHANGED <<control, cached, rtnl, neigh, notify, tx, out, nops>>

-------------------------------------------------------------------------------
(***************************************************************************)
(* sfmc_ll_neigh_work: insert the host route the packet created, resolve.  *)
(* Nothing keeps the object from being deleted and freed in between.       *)
(***************************************************************************)
\* Mutant: the work inserts the host route and does not resolve it.
LlNeighWorkNoResolve(o) ==
    /\ fib[o].st = "new" /\ NoWriter
    /\ fib' = [fib EXCEPT ![o].st = Inserted(fib[o].pfx)]
    /\ UNCHANGED <<control, cached, rtnl, work, neigh, notify, tx, out, nops>>

LlNeighWork(o) ==
    /\ fib[o].st = "new" /\ NoWriter
    /\ fib' = [fib EXCEPT ![o].st = Inserted(fib[o].pfx)]
    /\ tx' = IF FindExact(fib[o].pfx) = {} THEN Hole(fib[o].pfx) ELSE tx
    /\ workers' = workers \cup {o}
    /\ UNCHANGED <<control, cached, rtnl, stale, neigh, notify, out, nops>>

LlNeighWorkResolve(o) ==
    /\ o \in workers
    /\ NeighResolve(o)
    /\ workers' = workers \ {o}
    /\ UNCHANGED <<control, cached, rtnl, stale, notify, tx, out, nops>>

\* The gateway is read from freed memory: that of the route the memory is now,
\* or any address; what is written to memory that is no route is not followed.
LlNeighWorkStale(o) ==
    /\ o \in stale
    /\ stale' = stale \ {o}
    /\ fib' = [fib EXCEPT ![o] = NeighCopied(o)]
    /\ \/ neigh' = NeighAsked(o)
       \/ /\ fib[o].st = "free"
          /\ \E h \in Host : neigh[h] \notin Mac /\ neigh' = [neigh EXCEPT ![h] = "incomplete"]
    /\ UNCHANGED <<control, cached, rtnl, workers, notify, tx, out, nops>>

-------------------------------------------------------------------------------
(***************************************************************************)
(* The kernel's neighbour table (external), and sfmc_neigh_update_event.   *)
(* The notifier runs after the neighbour changed and copies the neighbour  *)
(* as it is then.  Garbage collection tells nobody.                        *)
(***************************************************************************)
NeighReply(h, m) ==
    /\ neigh[h] = "incomplete"
    /\ neigh' = [neigh EXCEPT ![h] = m]
    /\ notify' = notify \cup {h}
    /\ UNCHANGED <<control, cached, fib, rtnl, work, tx, out, nops>>

\* No answer; or a link layer address lost, learnt or changed.
NeighChange(h, v) ==
    /\ Disturb
    /\ neigh[h] # v
    /\ v = "failed" => neigh[h] # "none"
    /\ neigh' = [neigh EXCEPT ![h] = v]
    /\ notify' = notify \cup {h}
    /\ UNCHANGED <<control, cached, fib, rtnl, work, tx, out>>

NeighGc(h) ==
    /\ Disturb
    /\ neigh[h] \notin {"none", "incomplete"}
    /\ h \notin notify
    /\ neigh' = [neigh EXCEPT ![h] = "none"]
    /\ UNCHANGED <<control, cached, fib, rtnl, work, notify, tx, out>>

\* Mutant: the address is copied whatever the neighbour's state.
NeighWriteAlways(o, h) == [fib[o] EXCEPT !.mac = neigh[h]]

NeighWrite(o, h) == [fib[o] EXCEPT !.mac = IF neigh[h] \in Mac THEN neigh[h] ELSE NULL]

NeighUpdateEvent(h) ==
    /\ h \in notify
    /\ fib' = [o \in Fib |-> IF o \in Listed /\ fib[o].gw = h THEN NeighWrite(o, h) ELSE fib[o]]
    /\ notify' = notify \ {h}
    /\ UNCHANGED <<control, cached, rtnl, work, neigh, tx, out, nops>>

-------------------------------------------------------------------------------
(***************************************************************************)
(* sfmc_encap_packet from its label encap: find the LLT entry, find the    *)
(* route, check route and neighbour, encapsulate.                          *)
(***************************************************************************)
LltFind(i) == IF llt[i] # NULL THEN i
              ELSE IF Driver = "ixgbe" /\ llt[ZeroId] # NULL THEN ZeroId ELSE NULL

Entry(f) == IF oc = NULL THEN LltFind(ZeroId) ELSE LltFind(ExtractId[oc][f])

Drop(f) == out' = [out EXCEPT ![f] = "drop"]

XmitNoEntry(c, f) ==
    /\ tx[c].ph = "idle"
    /\ Entry(f) = NULL
    /\ Drop(f)
    /\ UNCHANGED <<control, cached, fib, rtnl, work, neigh, notify, tx, nops>>

Begin(c, f, ph, o, seen) ==
    /\ tx' = [tx EXCEPT ![c] = [ph |-> ph, flow |-> f, st |-> Entry(f), dst |-> llt[Entry(f)],
                                sf |-> o, seen |-> seen]]
    /\ UNCHANGED <<control, cached, fib, rtnl, work, neigh, notify, out, nops>>

\* What a search for h that begins now meets.
Meets(h) ==
    IF rtnl.op = "remove" THEN "torn"
    ELSE IF \E o \in Fib : fib[o].st = "node" /\ h \in Match[fib[o].pfx] THEN "hole" ELSE "clean"

XmitSearch(c, f) ==
    /\ tx[c].ph = "idle"
    /\ Entry(f) # NULL
    /\ Driver = "ixgbe" => cached[Entry(f)] = NULL
    /\ LET dst == llt[Entry(f)] IN
       \E o \in FindBest(dst) \cup {x \in {NULL} : FindBest(dst) = {}} :
          Begin(c, f, "search", o, Meets(dst))

\* ixgbe: the entry knows its route.
XmitCached(c, f) ==
    /\ tx[c].ph = "idle"
    /\ Driver = "ixgbe"
    /\ Entry(f) # NULL
    /\ cached[Entry(f)] # NULL
    /\ Begin(c, f, "reread", cached[Entry(f)], "clean")

\* st->fib = o in ixgbe; the entry may have been deleted meanwhile.
Remember(c, o) ==
    cached' = IF Driver = "ixgbe" /\ tx[c].st # NULL THEN [cached EXCEPT ![tx[c].st] = o] ELSE cached

\* The search ends without a route: there was none, or it met a node without
\* data, or freed nodes.
XmitNoRoute(c) ==
    /\ tx[c].ph = "search"
    /\ tx[c].sf = NULL \/ tx[c].seen # "clean"
    /\ Remember(c, NULL)
    /\ Drop(tx[c].flow)
    /\ tx' = [tx EXCEPT ![c] = NoTx]
    /\ UNCHANGED <<control, fib, rtnl, work, neigh, notify, nops>>

(***************************************************************************)
(* It ends with the best route there was, or with a better one inserted    *)
(* meanwhile.  A node that was freed, and perhaps is a node again, holds   *)
(* any route that was inserted and not yet freed; other contents of freed  *)
(* memory are XmitTorn.                                                    *)
(***************************************************************************)
Results(c) ==
    IF tx[c].seen = "torn" THEN {o \in Fib : fib[o].st \in Allocated}
    ELSE {o \in Covering(tx[c].dst) :
             tx[c].sf # NULL => Plen[fib[o].pfx] >= Plen[fib[tx[c].sf].pfx]}

XmitRoute(c) ==
    /\ tx[c].ph = "search"
    /\ \E o \in Results(c) :
          tx' = [tx EXCEPT ![c].ph = IF Driver = "ixgbe" THEN "store" ELSE "check", ![c].sf = o]
    /\ UNCHANGED <<control, cached, fib, rtnl, work, neigh, notify, out, nops>>

\* ixgbe: the route found is remembered in the entry.
XmitStore(c) ==
    /\ tx[c].ph = "store"
    /\ Remember(c, tx[c].sf)
    /\ tx' = [tx EXCEPT ![c].ph = "reread"]
    /\ UNCHANGED <<control, fib, rtnl, work, neigh, notify, out, nops>>

\* ixgbe: sf = st->fib, the pointer just seen or what the entry holds by now.
XmitReread(c) ==
    /\ tx[c].ph = "reread"
    /\ \E o \in {tx[c].sf} \cup {cached[i] : i \in Id \cap {tx[c].st}} :
          tx' = [tx EXCEPT ![c].ph = IF o = NULL THEN "oops" ELSE "check", ![c].sf = o]
    /\ UNCHANGED <<control, cached, fib, rtnl, work, neigh, notify, out, nops>>

\* The CPU dies: on what a torn search read from freed memory, on st->fib cleared
\* by sfmc_fib_delete (XmitReread), or on a NULL from sfmc_fib_create.
Dies(c) ==
    /\ tx' = [tx EXCEPT ![c] = [NoTx EXCEPT !.ph = "oops"]]
    /\ UNCHANGED <<control, cached, fib, rtnl, work, neigh, notify, out, nops>>

XmitTorn(c) == tx[c].ph = "search" /\ tx[c].seen = "torn" /\ Dies(c)

Connected(o, h) == fib[o].scope = "link" /\ fib[o].gw # h

\* A connected route: create a host route, queue its ll_work, drop the packet.
XmitConnected(c) ==
    /\ tx[c].ph = "check"
    /\ Connected(tx[c].sf, tx[c].dst)
    /\ \E o \in Fib :
          /\ fib[o].st = "free"
          /\ fib' = [fib EXCEPT ![o] = FibCreate(HostPfx[tx[c].dst], tx[c].dst, "link", "new")]
    /\ Drop(tx[c].flow)
    /\ tx' = [tx EXCEPT ![c] = NoTx]
    /\ UNCHANGED <<control, cached, rtnl, work, neigh, notify, nops>>

XmitNoMemory(c) == tx[c].ph = "check" /\ Connected(tx[c].sf, tx[c].dst) /\ Dies(c)

Sent(c, v) ==
    /\ out' = [out EXCEPT ![tx[c].flow] = v]
    /\ tx' = [tx EXCEPT ![c] = NoTx]
    /\ UNCHANGED <<control, cached, fib, rtnl, work, neigh, notify, nops>>

XmitNotValid(c) ==
    /\ tx[c].ph = "check"
    /\ ~Connected(tx[c].sf, tx[c].dst)
    /\ fib[tx[c].sf].mac = NULL
    /\ Sent(c, "drop")

XmitEncap(c) ==
    /\ tx[c].ph = "check"
    /\ ~Connected(tx[c].sf, tx[c].dst)
    /\ fib[tx[c].sf].mac # NULL
    /\ Sent(c, fib[tx[c].sf].mac)

\* The route is freed memory, and anything may be read from it.
XmitFreed(c) ==
    /\ tx[c].ph = "check"
    /\ fib[tx[c].sf].st = "free"
    /\ \E m \in Mac : Sent(c, m)

-------------------------------------------------------------------------------
Netlink ==
    \/ \E c \in Cfg : LltCfg(c)
    \/ LltCfgStore
    \/ \E i \in Id, h \in Locator : LltEntryAdd(i, h)
    \/ \E i \in Id : LltEntryDel(i)

Rtnl ==
    \/ \E r \in Route : PortObjAdd(r)
    \/ PortObjAddResolve
    \/ \E p \in Prefix : PortObjDel(p)
    \/ FibDeleteUnlink
    \/ FibDeleteClear
    \/ \E o \in Fib : KfreeRcu(o)

FibInsert(o) == FibInsertData(o) \/ FibInsertList(o)

Work(o) == LlNeighWork(o) \/ LlNeighWorkResolve(o) \/ LlNeighWorkStale(o)

Neighbour ==
    \/ \E h \in Host, m \in Mac : NeighReply(h, m)
    \/ \E h \in Host, v \in Mac \cup NeighLoss : NeighChange(h, v)
    \/ \E h \in Host : NeighGc(h) \/ NeighUpdateEvent(h)

XmitBegin(c, f) == XmitNoEntry(c, f) \/ XmitSearch(c, f) \/ XmitCached(c, f)

XmitEnd(c) ==
    \/ XmitNoRoute(c) \/ XmitRoute(c) \/ XmitTorn(c) \/ XmitStore(c) \/ XmitReread(c)
    \/ XmitConnected(c) \/ XmitNoMemory(c) \/ XmitNotValid(c) \/ XmitEncap(c) \/ XmitFreed(c)

Next ==
    \/ Netlink
    \/ Rtnl
    \/ \E o \in Fib : FibInsert(o) \/ Work(o)
    \/ Neighbour
    \/ \E c \in Cpu : XmitEnd(c) \/ \E f \in Flow : XmitBegin(c, f)

Spec == Init /\ [][Next]_vars

(***************************************************************************)
(* What has begun runs on: the rtnl thread, a queued work, the end of a    *)
(* grace period, a pending notification, a packet.  A neighbour asked for  *)
(* its address answers, and every flow keeps sending.  Nobody has to       *)
(* reconfigure anything.                                                   *)
(***************************************************************************)
FairSpec ==
    /\ Spec
    /\ WF_vars(PortObjAddResolve) /\ WF_vars(FibDeleteUnlink) /\ WF_vars(FibDeleteClear)
    /\ WF_vars(LltCfgStore)
    /\ \A o \in Fib : WF_vars(KfreeRcu(o)) /\ WF_vars(FibInsert(o)) /\ WF_vars(Work(o))
    /\ \A h \in Host :
          WF_vars(NeighUpdateEvent(h)) /\ WF_vars(\E m \in Mac : NeighReply(h, m))
    /\ \A c \in Cpu : WF_vars(XmitEnd(c))
    /\ \A f \in Flow : SF_vars(\E c \in Cpu : XmitBegin(c, f))

-------------------------------------------------------------------------------
\* A route in the FIB shows the neighbour it was resolved to: once the notifier
\* has run for an address and no thread is inside sfmc_neigh_resolve for the
\* route, its mac is the neighbour's while that is valid, and it is not used
\* while the neighbour is unreachable - although routes are inserted by two
\* kinds of threads while neighbours change under them.
NeighMirror ==
    \A o \in Fib :
        LET a == fib[o].gw IN
        /\ fib[o].st = "tree" /\ a # NULL /\ a \notin notify
        /\ o \notin workers /\ rtnl # [op |-> "add", sf |-> o]
        => /\ neigh[a] \in Mac => fib[o].mac = neigh[a]
           /\ neigh[a] = "failed" => fib[o].mac = NULL

\* The route a packet of e1000 uses after its search is memory that was not
\* freed, and covers the packet's destination, although routes are deleted
\* while it is used: sfmc_fib_delete frees after a grace period.  Excused is a
\* packet whose search overlapped patricia_remove and so read freed nodes.
InFlightRouteLive ==
    \A c \in Cpu : tx[c].ph \in {"store", "reread", "check"} /\ tx[c].seen # "torn" =>
        /\ fib[tx[c].sf].st \in Allocated
        /\ tx[c].dst \in Match[fib[tx[c].sf].pfx]

\* "before free, set all sfmc_table->fib pointers that point this fib entry to
\* NULL": no LLT entry points to a route that is being freed or was freed.
CachedRouteLive ==
    \A i \in Id : cached[i] # NULL => fib[cached[i]].st \in {"data", "tree", "removing", "unlinked"}

\* "offset or length is changed. drop all table entry.": a configuration that
\* sfmc_llt_cfg accepted is the one packets are parsed with.
ConfigApplied == asked # NULL => oc = asked

\* "this is connected route. add host route and wait for neighbor resolution":
\* when the operators leave the device alone and a flow has an LLT entry and a
\* route, its packets are eventually all encapsulated, with the current
\* address of the gateway of the best route, unless a CPU dies.
Routed(f) == Entry(f) # NULL /\ FindBest(llt[Entry(f)]) # {}

Delivered(f) ==
    /\ Routed(f)
    /\ out[f] \in Mac
    /\ \A o \in FindBest(llt[Entry(f)]) :
          fib[o].gw # NULL /\ neigh[fib[o].gw] \in Mac => out[f] = neigh[fib[o].gw]

Alive == \A c \in Cpu : tx[c].ph # "oops"

RoutedFlowDelivered == \A f \in Flow : (<>[]Routed(f)) /\ []Alive => <>[]Delivered(f)
===============================================================================
