------------------------------ MODULE SfmcProofs ------------------------------
(***************************************************************************)
(* Proofs about Sfmc: the type invariant and NeighMirror for both drivers, *)
(* InFlightRouteLive for e1000, for every set of routes, neighbours, CPUs  *)
(* and objects.                                                            *)
(***************************************************************************)
EXTENDS Sfmc, TLAPS

(***************************************************************************)
(* What a thread in the middle of an operation holds: the rtnl thread its  *)
(* object, a CPU its packet's destination and route.                       *)
(***************************************************************************)
RtnlHolds == rtnl.op # "idle" => rtnl.sf \in Fib

TxHolds ==
    \A c \in Cpu :
        /\ tx[c].ph \notin {"idle", "oops"} => tx[c].dst \in Locator /\ tx[c].flow \in Flow
        /\ tx[c].ph \in {"store", "reread", "check"} => tx[c].sf \in Fib

TInv == TypeOK /\ RtnlHolds /\ TxHolds

\* The LLT entry sfmc_encap_packet works with is one that is in the table.
LEMMA EntryFound ==
    ASSUME TypeOK, NEW f \in Flow, Entry(f) # NULL
    PROVE  Entry(f) \in Id /\ llt[Entry(f)] \in Locator
BY IdAssumption DEF TypeOK, Entry, LltFind

\* What sfmc_neigh_resolve writes to the route and to the neighbour table has the
\* right shape.
LEMMA NeighCopiedType ==
    ASSUME TypeOK, NEW o \in Fib
    PROVE  NeighCopied(o) \in FibRec /\ NeighAsked(o) \in [Host -> Mac \cup Unresolved]
<1>1. ASSUME fib[o].gw # NULL PROVE neigh[fib[o].gw] \in Mac \cup Unresolved
  BY <1>1 DEF TypeOK, FibRec
<1>2. NeighCopied(o) \in FibRec
  BY <1>1 DEF NeighCopied, Resolved, TypeOK, FibRec
<1>3. NeighAsked(o) \in [Host -> Mac \cup Unresolved]
  BY DEF NeighAsked, TypeOK, Unresolved
<1>4. QED
  BY <1>2, <1>3

\* sfmc_neigh_resolve leaves tables of the right shape.
LEMMA NeighResolveType ==
    ASSUME TypeOK, NEW o \in Fib, NeighResolve(o)
    PROVE  fib' \in [Fib -> FibRec] /\ neigh' \in [Host -> Mac \cup Unresolved]
<1>1. FreeFib \in FibRec
  BY DEF FreeFib, FibRec, FibState
<1>2. QED
  BY <1>1, NeighCopiedType DEF NeighResolve, TypeOK

\* The configuration and LLT operations keep the types.
LEMMA NetlinkType == TInv /\ Netlink => TInv'
<1> SUFFICES ASSUME TInv, Netlink PROVE TInv'
  OBVIOUS
<1> USE DEF TInv, TypeOK, RtnlHolds, TxHolds, Disturb, work
<1>0. \A ids \in SUBSET Id : /\ Forget(ids) \in [Cpu -> TxRec]
                             /\ \A c \in Cpu : /\ Forget(ids)[c].ph = tx[c].ph
                                               /\ Forget(ids)[c].sf = tx[c].sf
                                               /\ Forget(ids)[c].dst = tx[c].dst
                                               /\ Forget(ids)[c].flow = tx[c].flow
  BY DEF Forget, TxRec
<1>1. ASSUME NEW c \in Cfg, LltCfg(c) PROVE TInv'
  <2>1. CASE LltCfgDiffers
    BY <1>0, <1>1, <2>1, OpsAssumption DEF LltCfg, TableDestroy
  <2>2. CASE ~LltCfgDiffers
    BY <1>1, <2>2, OpsAssumption DEF LltCfg
  <2>3. QED
    BY <2>1, <2>2
<1>5. CASE LltCfgStore
  BY <1>5 DEF LltCfgStore
<1>2. ASSUME NEW i \in Id, NEW h \in Locator, LltEntryAdd(i, h) PROVE TInv'
  BY <1>2, OpsAssumption DEF LltEntryAdd
<1>3. ASSUME NEW i \in Id, LltEntryDel(i) PROVE TInv'
  BY <1>0, <1>3, OpsAssumption DEF LltEntryDel
<1>4. QED
  BY <1>1, <1>2, <1>3, <1>5 DEF Netlink

\* A created object has the right shape.
LEMMA FibCreateType ==
    ASSUME NEW p \in Prefix, NEW g \in Host \cup {NULL}, NEW s \in {"link", "universe"},
           NEW st \in FibState
    PROVE  FibCreate(p, g, s, st) \in FibRec
BY DEF FibCreate, FibRec

\* An insertion that begins marks the searches it may disturb, and changes nothing
\* else of a packet.
LEMMA HoleFact ==
    ASSUME TypeOK, NEW p
    PROVE  /\ Hole(p) \in [Cpu -> TxRec]
           /\ \A c \in Cpu : /\ Hole(p)[c].ph = tx[c].ph
                             /\ Hole(p)[c].sf = tx[c].sf
                             /\ Hole(p)[c].dst = tx[c].dst
                             /\ Hole(p)[c].flow = tx[c].flow
                             /\ tx[c].ph # "search" => Hole(p)[c].seen = tx[c].seen
BY DEF Hole, TypeOK, TxRec

\* The steps of sfmc_fib_insert keep the types.
LEMMA InsertType == ASSUME TInv, NEW o \in Fib, FibInsert(o) PROVE TInv'
<1> USE DEF TInv, TypeOK, RtnlHolds, TxHolds, control, work
<1>1. \A st \in FibState : [fib[o] EXCEPT !.st = st] \in FibRec
  BY DEF FibRec
<1>2. CASE FibInsertData(o)
  BY <1>1, <1>2 DEF FibInsertData, FibState
<1>3. CASE FibInsertList(o)
  BY <1>1, <1>3 DEF FibInsertList, FibState
<1>4. QED
  BY <1>2, <1>3 DEF FibInsert

\* The switchdev operations keep the types.
LEMMA RtnlType == TInv /\ Rtnl => TInv'
<1> SUFFICES ASSUME TInv, Rtnl PROVE TInv'
  OBVIOUS
<1> USE DEF TInv, TypeOK, RtnlHolds, TxHolds, Disturb, control, work, Idle
<1>0. \A o \in Fib : \A st \in FibState : [fib[o] EXCEPT !.st = st] \in FibRec
  BY DEF FibRec
<1>1. ASSUME NEW r \in Route, PortObjAdd(r) PROVE TInv'
  <2>1. FibCreate(r.pfx, r.gw, r.scope, Inserted(r.pfx)) \in FibRec
    <3>1. r.pfx \in Prefix /\ r.gw \in Host \cup {NULL} /\ r.scope \in {"link", "universe"}
      BY RouteAssumption
    <3>2. Inserted(r.pfx) \in FibState
      BY DEF Inserted, FibState
    <3>3. QED
      BY <3>1, <3>2, FibCreateType
  <2>2. tx' \in [Cpu -> TxRec] /\ TxHolds'
    BY <1>1, HoleFact DEF PortObjAdd
  <2>3. QED
    BY <1>1, <2>1, <2>2, OpsAssumption DEF PortObjAdd
<1>2. CASE PortObjAddResolve
  <2>1. rtnl.sf \in Fib
    BY <1>2 DEF PortObjAddResolve
  <2>2. fib' \in [Fib -> FibRec] /\ neigh' \in [Host -> Mac \cup Unresolved]
    BY <1>2, <2>1, NeighResolveType DEF PortObjAddResolve
  <2>3. QED
    BY <1>2, <2>2 DEF PortObjAddResolve
<1>3. ASSUME NEW p \in Prefix, PortObjDel(p) PROVE TInv'
  <2>1. PICK o \in Fib : fib' = [fib EXCEPT ![o].st = "removing"] /\ rtnl' = [op |-> "remove", sf |-> o]
    BY <1>3 DEF PortObjDel, FindExact, InTrie
  <2>2. tx' \in [Cpu -> TxRec] /\ TxHolds'
    <3> DEFINE T(c) == [tx[c] EXCEPT !.seen = "torn"]
    <3>1. \A c \in Cpu : /\ T(c) \in TxRec /\ T(c).ph = tx[c].ph /\ T(c).sf = tx[c].sf
                          /\ T(c).dst = tx[c].dst /\ T(c).flow = tx[c].flow
      BY DEF TxRec
    <3>2. tx' = [c \in Cpu |-> IF tx[c].ph = "search" THEN T(c) ELSE tx[c]]
      BY <1>3 DEF PortObjDel
    <3> HIDE DEF T
    <3>3. QED
      BY <3>1, <3>2
  <2>3. fib' \in [Fib -> FibRec]
    BY <1>0, <2>1 DEF FibState
  <2>4. rtnl'.op = "remove" /\ rtnl'.sf = o /\ RtnlHolds'
    BY <2>1
  <2>5. QED
    BY <1>3, <2>1, <2>2, <2>3, <2>4, OpsAssumption DEF PortObjDel
<1>4. CASE FibDeleteUnlink
  <2>1. rtnl.sf \in Fib
    BY <1>4 DEF FibDeleteUnlink
  <2>2. QED
    BY <1>0, <1>4, <2>1 DEF FibDeleteUnlink, FibState
<1>5. CASE FibDeleteClear
  <2>1. rtnl.sf \in Fib
    BY <1>5 DEF FibDeleteClear
  <2>2. QED
    BY <1>0, <1>5, <2>1 DEF FibDeleteClear, FibState
<1>6. ASSUME NEW o \in Fib, KfreeRcu(o) PROVE TInv'
  <2>1. FreeFib \in FibRec
    BY DEF FreeFib, FibRec, FibState
  <2>2. QED
    BY <1>6, <2>1 DEF KfreeRcu
<1>7. QED
  BY <1>1, <1>2, <1>3, <1>4, <1>5, <1>6 DEF Rtnl

\* The worker keeps the types.
LEMMA WorkType == ASSUME TInv, NEW o \in Fib, Work(o) PROVE TInv'
<1> USE DEF TInv, TypeOK, RtnlHolds, TxHolds, control, work
<1>1. CASE LlNeighWork(o)
  <2>1. [fib[o] EXCEPT !.st = Inserted(fib[o].pfx)] \in FibRec
    BY DEF FibRec, FibState, Inserted
  <2>2. tx' \in [Cpu -> TxRec] /\ TxHolds'
    BY <1>1, HoleFact DEF LlNeighWork
  <2>3. QED
    BY <1>1, <2>1, <2>2 DEF LlNeighWork
<1>2. CASE LlNeighWorkResolve(o)
  <2>1. fib' \in [Fib -> FibRec] /\ neigh' \in [Host -> Mac \cup Unresolved]
    BY <1>2, NeighResolveType DEF LlNeighWorkResolve
  <2>2. QED
    BY <1>2, <2>1 DEF LlNeighWorkResolve
<1>3. CASE LlNeighWorkStale(o)
  <2>1. fib' \in [Fib -> FibRec]
    BY <1>3, NeighCopiedType DEF LlNeighWorkStale
  <2>2. neigh' \in [Host -> Mac \cup Unresolved]
    BY <1>3, NeighCopiedType DEF LlNeighWorkStale, Unresolved
  <2>3. QED
    BY <1>3, <2>1, <2>2 DEF LlNeighWorkStale
<1>4. QED
  BY <1>1, <1>2, <1>3 DEF Work

\* Neighbour changes and their notifier keep the types.
LEMMA NeighbourType == TInv /\ Neighbour => TInv'
<1> SUFFICES ASSUME TInv, Neighbour PROVE TInv'
  OBVIOUS
<1> USE DEF TInv, TypeOK, RtnlHolds, TxHolds, Disturb, control, work
<1>1. ASSUME NEW h \in Host, NEW m \in Mac, NeighReply(h, m) PROVE TInv'
  BY <1>1 DEF NeighReply
<1>2. ASSUME NEW h \in Host, NEW v \in Mac \cup NeighLoss, NeighChange(h, v) PROVE TInv'
  <2>1. v \in Mac \cup Unresolved
    BY OpsAssumption DEF Unresolved
  <2>2. QED
    BY <1>2, <2>1, OpsAssumption DEF NeighChange
<1>3. ASSUME NEW h \in Host, NeighGc(h) PROVE TInv'
  <2>1. "none" \in Unresolved
    BY DEF Unresolved
  <2>2. QED
    BY <1>3, <2>1, OpsAssumption DEF NeighGc
<1>4. ASSUME NEW h \in Host, NeighUpdateEvent(h) PROVE TInv'
  <2>1. ASSUME NEW o \in Fib PROVE NeighWrite(o, h) \in FibRec
    <3>1. \A a \in Mac \cup {NULL} : [fib[o] EXCEPT !.mac = a] \in FibRec
      BY DEF FibRec
    <3>2. QED
      BY <3>1 DEF NeighWrite
  <2>2. QED
    BY <1>4, <2>1 DEF NeighUpdateEvent
<1>5. QED
  BY <1>1, <1>2, <1>3, <1>4 DEF Neighbour

\* sfmc_encap_packet keeps the types, and holds a destination and a route from
\* the moment it has found them.
LEMMA XmitType ==
    ASSUME TInv, NEW c \in Cpu, XmitEnd(c) \/ \E f \in Flow : XmitBegin(c, f)
    PROVE  TInv'
<1> USE DEF TInv, TypeOK, RtnlHolds, TxHolds, control, work, Drop, Verdict
<1>0. NoTx \in TxRec /\ NoTx.ph = "idle"
  BY DEF NoTx, TxRec
<1>1. ASSUME NEW f \in Flow, XmitNoEntry(c, f) PROVE TInv'
  BY <1>1 DEF XmitNoEntry
<1>2. ASSUME NEW f \in Flow, NEW ph \in {"search", "reread"}, NEW o \in Fib \cup {NULL},
             NEW seen \in {"clean", "hole", "torn"}, ph = "reread" => o \in Fib,
             Entry(f) # NULL, Begin(c, f, ph, o, seen)
      PROVE  TInv'
  <2> DEFINE t == [ph |-> ph, flow |-> f, st |-> Entry(f), dst |-> llt[Entry(f)], sf |-> o,
                   seen |-> seen]
  <2>1. t \in TxRec /\ t.ph = ph /\ t.sf = o /\ t.dst \in Locator /\ t.flow \in Flow
    BY <1>2, EntryFound DEF TxRec
  <2>2. tx' = [tx EXCEPT ![c] = t]
    BY <1>2 DEF Begin
  <2> HIDE DEF t
  <2>3. tx' \in [Cpu -> TxRec] /\ TxHolds'
    BY <1>2, <2>1, <2>2
  <2>4. QED
    BY <1>2, <2>3 DEF Begin
<1>3. ASSUME NEW f \in Flow, XmitSearch(c, f) PROVE TInv'
  <2>1. PICK o \in Fib \cup {NULL} : Begin(c, f, "search", o, Meets(llt[Entry(f)]))
    BY <1>3 DEF XmitSearch, FindBest, Covering, InTrie
  <2>2. Meets(llt[Entry(f)]) \in {"clean", "hole", "torn"}
    BY DEF Meets
  <2>3. QED
    BY <1>2, <1>3, <2>1, <2>2 DEF XmitSearch
<1>4. ASSUME NEW f \in Flow, XmitCached(c, f) PROVE TInv'
  BY <1>2, <1>4, EntryFound DEF XmitCached
<1>5. ASSUME NEW v \in Verdict, tx[c].flow \in Flow, out' = [out EXCEPT ![tx[c].flow] = v],
             tx' = [tx EXCEPT ![c] = NoTx], UNCHANGED <<control, rtnl, work, neigh, notify, nops>>,
             cached' \in [Id -> Fib \cup {NULL}], fib' \in [Fib -> FibRec]
      PROVE  TInv'
  BY <1>0, <1>5
<1>6. ASSUME NEW o \in Fib \cup {NULL} PROVE Remember(c, o) => cached' \in [Id -> Fib \cup {NULL}]
  BY <1>6 DEF Remember, TxRec
<1>7. CASE XmitNoRoute(c)
  BY <1>5, <1>6, <1>7 DEF XmitNoRoute
<1>8. ASSUME NEW ph \in {"store", "reread", "check", "oops"}, NEW o \in Fib \cup {NULL},
             ph # "oops" => o \in Fib, tx[c].ph \notin {"idle", "oops"},
             tx' = [tx EXCEPT ![c].ph = ph, ![c].sf = o]
      PROVE  tx' \in [Cpu -> TxRec] /\ TxHolds'
  <2> DEFINE t == [tx[c] EXCEPT !.ph = ph, !.sf = o]
  <2>1. t \in TxRec /\ t.ph = ph /\ t.sf = o /\ t.dst = tx[c].dst /\ t.flow = tx[c].flow
    <3>1. tx[c] \in TxRec
      OBVIOUS
    <3>2. QED
      BY <1>8, <3>1 DEF TxRec
  <2>2. tx' = [tx EXCEPT ![c] = t]
    BY <1>8
  <2> HIDE DEF t
  <2>3. tx' \in [Cpu -> TxRec] /\ tx'[c] = t /\ \A d \in Cpu \ {c} : tx'[d] = tx[d]
    BY <2>1, <2>2
  <2>4. t.dst \in Locator /\ t.flow \in Flow
    BY <1>8, <2>1
  <2>5. TxHolds'
    BY <1>8, <2>1, <2>3, <2>4
  <2>6. QED
    BY <2>3, <2>5
<1>9. CASE XmitRoute(c)
  <2>1. PICK o \in Results(c) :
           tx' = [tx EXCEPT ![c].ph = IF Driver = "ixgbe" THEN "store" ELSE "check", ![c].sf = o]
    BY <1>9 DEF XmitRoute
  <2>2. o \in Fib
    BY DEF Results, Covering, InTrie
  <2>3. tx' \in [Cpu -> TxRec] /\ TxHolds'
    BY <1>8, <1>9, <2>1, <2>2 DEF XmitRoute
  <2>4. QED
    BY <1>9, <2>3 DEF XmitRoute
<1>10. CASE XmitStore(c)
  <2>1. tx[c] = [tx[c] EXCEPT !.sf = tx[c].sf] /\ tx[c].sf \in Fib
    BY <1>10 DEF XmitStore, TxRec
  <2>2. [tx[c] EXCEPT !.ph = "reread"] \in TxRec
    BY DEF TxRec
  <2>3. tx' = [tx EXCEPT ![c] = [tx[c] EXCEPT !.ph = "reread"]]
    BY <1>10 DEF XmitStore
  <2>4. tx' \in [Cpu -> TxRec] /\ TxHolds'
    BY <1>10, <2>1, <2>2, <2>3 DEF XmitStore, TxRec
  <2>5. QED
    BY <1>6, <1>10, <2>1, <2>4 DEF XmitStore
<1>11. CASE XmitReread(c)
  <2>1. PICK o \in {tx[c].sf} \cup {cached[i] : i \in Id \cap {tx[c].st}} :
           tx' = [tx EXCEPT ![c].ph = IF o = NULL THEN "oops" ELSE "check", ![c].sf = o]
    BY <1>11 DEF XmitReread
  <2>2. o \in Fib \cup {NULL}
    BY DEF TxRec
  <2>3. tx' \in [Cpu -> TxRec] /\ TxHolds'
    BY <1>8, <1>11, <2>1, <2>2 DEF XmitReread
  <2>4. QED
    BY <1>11, <2>3 DEF XmitReread
<1>12. CASE XmitTorn(c) \/ XmitNoMemory(c)
  <2> DEFINE t == [NoTx EXCEPT !.ph = "oops"]
  <2>1. t \in TxRec /\ t.ph = "oops"
    BY <1>0 DEF TxRec
  <2>2. tx' = [tx EXCEPT ![c] = t]
    BY <1>12 DEF XmitTorn, XmitNoMemory, Dies
  <2> HIDE DEF t
  <2>3. tx' \in [Cpu -> TxRec] /\ TxHolds'
    BY <2>1, <2>2
  <2>4. QED
    BY <1>12, <2>3 DEF XmitTorn, XmitNoMemory, Dies
<1>13. CASE XmitConnected(c)
  <2>1. FibCreate(HostPfx[tx[c].dst], tx[c].dst, "link", "new") \in FibRec
    <3>1. tx[c].dst \in Locator
      BY <1>13 DEF XmitConnected
    <3>2. HostPfx[tx[c].dst] \in Prefix /\ tx[c].dst \in Host \cup {NULL}
      BY <3>1, RouteAssumption
    <3>3. QED
      BY <3>2, FibCreateType DEF FibState
  <2>2. fib' \in [Fib -> FibRec]
    BY <1>13, <2>1 DEF XmitConnected
  <2>3. QED
    BY <1>5, <1>13, <2>2 DEF XmitConnected
<1>14. ASSUME NEW v \in Verdict, tx[c].ph = "check", Sent(c, v) PROVE TInv'
  BY <1>5, <1>14 DEF Sent
<1>15. CASE XmitNotValid(c)
  BY <1>14, <1>15 DEF XmitNotValid
<1>16. CASE XmitEncap(c)
  <2>1. fib[tx[c].sf].mac \in Mac
    BY <1>16 DEF XmitEncap, FibRec
  <2>2. QED
    BY <1>14, <1>16, <2>1 DEF XmitEncap
<1>17. CASE XmitFreed(c)
  BY <1>14, <1>17 DEF XmitFreed
<1>18. QED
  BY <1>1, <1>3, <1>4, <1>7, <1>9, <1>10, <1>11, <1>12, <1>13, <1>15, <1>16, <1>17
     DEF XmitEnd, XmitBegin

\* Every action of the netlink thread, the rtnl thread, the workers, the
\* notifier and the CPUs keeps the types.
LEMMA TypeStep == TInv /\ [Next]_vars => TInv'
<1> SUFFICES ASSUME TInv, [Next]_vars PROVE TInv'
  OBVIOUS
<1>1. CASE UNCHANGED vars
  BY <1>1 DEF TInv, TypeOK, RtnlHolds, TxHolds, vars, control, work
<1>2. QED
  BY <1>1, NetlinkType, RtnlType, InsertType, WorkType, NeighbourType, XmitType DEF Next

\* The state sfmc_init leaves has the right types.
LEMMA TypeInit == Init => TInv
BY OpsAssumption DEF Init, TInv, TypeOK, RtnlHolds, TxHolds, FreeFib, FibRec, FibState,
   NoTx, TxRec, Idle, Unresolved, Verdict

\* The tables, the objects and the packets in flight keep their shape under
\* every interleaving, for every set of routes, neighbours and CPUs.
THEOREM TypeCorrect == Spec => []TypeOK
<1>1. TInv => TypeOK
  BY DEF TInv
<1>2. QED
  BY <1>1, TypeInit, TypeStep, PTL DEF Spec

\* A packet leaves the work of the other threads alone.
LEMMA XmitShared ==
    ASSUME NEW c \in Cpu, XmitEnd(c) \/ \E f \in Flow : XmitBegin(c, f)
    PROVE  UNCHANGED <<rtnl, workers, neigh, notify>>
BY DEF XmitEnd, XmitBegin, XmitNoEntry, XmitSearch, XmitCached, Begin, XmitNoRoute, XmitRoute,
       XmitTorn, XmitStore, XmitReread, XmitConnected, XmitNoMemory, Dies, XmitNotValid,
       XmitEncap, XmitFreed, Sent, work

\* It changes no object but by creating a host route in free memory.
LEMMA XmitObjects ==
    ASSUME TypeOK, NEW c \in Cpu, XmitEnd(c) \/ \E f \in Flow : XmitBegin(c, f)
    PROVE  \A q \in Fib : fib'[q] = fib[q] \/ (fib[q].st = "free" /\ fib'[q].st = "new")
<1>1. CASE XmitConnected(c)
  BY <1>1 DEF XmitConnected, FibCreate, TypeOK
<1>2. CASE ~XmitConnected(c)
  BY <1>2 DEF XmitEnd, XmitBegin, XmitNoEntry, XmitSearch, XmitCached, Begin, XmitNoRoute,
              XmitRoute, XmitTorn, XmitStore, XmitReread, XmitNoMemory, Dies, XmitNotValid,
              XmitEncap, XmitFreed, Sent
<1>3. QED
  BY <1>1, <1>2

(***************************************************************************)
(* NeighMirror: a route enters the tree with a thread about to resolve it, *)
(* and a neighbour that changes enters notify.  The route is in the trie   *)
(* before it is on the list; Pending says that the thread that inserts it  *)
(* is there meanwhile.                                                     *)
(***************************************************************************)
Resolving(o) == o \in workers \/ rtnl = [op |-> "add", sf |-> o]

Pending == \A o \in Fib : fib[o].st \in {"node", "data"} => Resolving(o)

Settled(o) ==
    /\ fib[o].gw # NULL
    /\ fib[o].gw \notin notify
    /\ o \notin workers
    /\ rtnl # [op |-> "add", sf |-> o]

Mirrors(o) ==
    /\ neigh[fib[o].gw] \in Mac => fib[o].mac = neigh[fib[o].gw]
    /\ neigh[fib[o].gw] = "failed" => fib[o].mac = NULL

\* NeighMirror, object by object.
LEMMA MirrorForm ==
    NeighMirror <=> \A o \in Fib : fib[o].st = "tree" /\ Settled(o) => Mirrors(o)
BY DEF NeighMirror, Settled, Mirrors

\* A neighbour that is asked for is not yet, or no longer, copied by anyone.
LEMMA AskMirrors ==
    ASSUME TypeOK, NEW q \in Fib, Mirrors(q), fib'[q] = fib[q], fib[q].gw # NULL,
           NEW h \in Host, neigh' = [neigh EXCEPT ![h] = "incomplete"]
    PROVE  Mirrors(q)'
<1>1. "incomplete" \notin Mac
  BY MacAssumption DEF Unresolved
<1>2. fib[q].gw \in Host
  BY DEF TypeOK, FibRec
<1>3. neigh'[fib[q].gw] = IF fib[q].gw = h THEN "incomplete" ELSE neigh[fib[q].gw]
  BY <1>2 DEF TypeOK
<1>4. QED
  BY <1>1, <1>3 DEF Mirrors

\* After sfmc_neigh_resolve the route shows its neighbour, and a route of
\* another object is as right as it was.
LEMMA CopyMirrors ==
    ASSUME TypeOK, NEW o \in Fib, NEW q \in Fib, fib'[q].gw # NULL,
           neigh' = NeighAsked(o), fib'[q] = IF q = o THEN NeighCopied(o) ELSE fib[q],
           q # o => Mirrors(q)
    PROVE  Mirrors(q)'
<1>0. "incomplete" \notin Mac /\ "failed" \notin Mac
  BY MacAssumption DEF Unresolved
<1>1. CASE Resolved(o)
  <2>1. neigh' = neigh
    BY <1>1 DEF NeighAsked
  <2>2. CASE q = o
    <3>1. fib'[o] = [fib[o] EXCEPT !.mac = neigh[fib[o].gw]]
      BY <1>1, <2>2 DEF NeighCopied
    <3>2. fib'[o].gw = fib[o].gw /\ fib'[o].mac = neigh[fib[o].gw]
      BY <3>1 DEF TypeOK, FibRec
    <3>3. neigh[fib[o].gw] # "failed"
      BY <1>0, <1>1 DEF Resolved
    <3>4. QED
      BY <2>1, <2>2, <3>2, <3>3 DEF Mirrors
  <2>3. CASE q # o
    BY <2>1, <2>3 DEF Mirrors
  <2>4. QED
    BY <2>2, <2>3
<1>2. CASE ~Resolved(o)
  <2>1. fib'[q] = fib[q]
    BY <1>2 DEF NeighCopied
  <2>2. CASE fib[q].gw = fib[o].gw
    <3>1. fib[o].gw \in Host
      BY <2>1, <2>2 DEF TypeOK, FibRec
    <3>2. neigh'[fib[o].gw] = "incomplete"
      BY <1>2, <2>1, <2>2, <3>1 DEF NeighAsked, TypeOK
    <3>3. QED
      BY <1>0, <2>1, <2>2, <3>2 DEF Mirrors
  <2>3. CASE fib[q].gw # fib[o].gw
    <3>1. Mirrors(q) /\ fib[q].gw \in Host
      BY <2>1, <2>3 DEF TypeOK, FibRec
    <3>2. neigh'[fib[q].gw] = neigh[fib[q].gw]
      BY <2>3, <3>1 DEF NeighAsked, TypeOK
    <3>3. QED
      BY <2>1, <3>1, <3>2 DEF Mirrors
  <2>4. QED
    BY <2>2, <2>3
<1>3. QED
  BY <1>1, <1>2

\* sfmc_neigh_resolve, also on an object that is lost.
LEMMA ResolveMirrors ==
    ASSUME TypeOK, NEW o \in Fib, NeighResolve(o), NEW q \in Fib,
           fib'[q].st = "tree", fib'[q].gw # NULL, q # o => Mirrors(q)
    PROVE  Mirrors(q)'
<1>1. fib'[q] = IF q = o THEN NeighCopied(o) ELSE fib[q]
  BY DEF NeighResolve, TypeOK, FreeFib
<1>2. neigh' = NeighAsked(o)
  BY DEF NeighResolve
<1>3. QED
  BY <1>1, <1>2, CopyMirrors

\* A step that changes no object in the tree, no neighbour, no notification
\* and no resolving thread keeps the mirror.
LEMMA MirrorFrame ==
    ASSUME NeighMirror, UNCHANGED <<neigh, notify>>,
           \A o \in Fib : fib'[o].st = "tree" =>
               /\ fib'[o] = fib[o]
               /\ o \in workers => o \in workers'
               /\ rtnl' # [op |-> "add", sf |-> o] => rtnl # [op |-> "add", sf |-> o]
    PROVE  NeighMirror'
BY DEF NeighMirror

\* sfmc_neigh_resolve leaves every object where it is, but for lost ones.
LEMMA ResolveStates ==
    ASSUME TypeOK, NEW o \in Fib, NeighResolve(o)
    PROVE  \A q \in Fib : fib'[q].st \in {fib[q].st, "free"}
<1>1. NeighCopied(o).st = fib[o].st
  BY DEF NeighCopied, TypeOK, FibRec
<1>2. QED
  BY <1>1 DEF NeighResolve, TypeOK, FreeFib

\* A route that is being inserted has a thread that will resolve it.
LEMMA PendingStep == TInv /\ Pending /\ [Next]_vars => Pending'
<1> SUFFICES ASSUME TInv, Pending, [Next]_vars PROVE Pending'
  OBVIOUS
<1>0. TypeOK /\ RtnlHolds /\ TxHolds
  BY DEF TInv
<1>1. CASE Netlink
  BY <1>1 DEF Netlink, LltCfg, LltCfgStore, LltEntryAdd, LltEntryDel, Pending, Resolving, work
<1>2. CASE Rtnl
  <2>1. ASSUME NEW r \in Route, PortObjAdd(r) PROVE Pending'
    BY <1>0, <2>1 DEF PortObjAdd, NoWriter, Pending, Resolving, TypeOK
  <2>2. CASE PortObjAddResolve
    <3>1. rtnl.sf \in Fib /\ NeighResolve(rtnl.sf)
      BY <1>0, <2>2 DEF RtnlHolds, PortObjAddResolve
    <3>2. \A q \in Fib : fib'[q].st \in {fib[q].st, "free"}
      BY <1>0, <3>1, ResolveStates
    <3>3. fib[rtnl.sf].st \notin {"node", "data"}
      BY <3>1 DEF NeighResolve
    <3>4. QED
      BY <2>2, <3>2, <3>3 DEF PortObjAddResolve, Pending, Resolving, work
  <2>3. ASSUME NEW p \in Prefix, PortObjDel(p) PROVE Pending'
    BY <1>0, <2>3 DEF PortObjDel, NoWriter, FindExact, InTrie, Pending, TypeOK, FibRec
  <2>4. CASE FibDeleteUnlink
    BY <1>0, <2>4 DEF FibDeleteUnlink, Pending, Resolving, TypeOK, FibRec, work
  <2>5. CASE FibDeleteClear
    BY <1>0, <2>5 DEF FibDeleteClear, Pending, Resolving, TypeOK, FibRec, work
  <2>6. ASSUME NEW o \in Fib, KfreeRcu(o) PROVE Pending'
    BY <1>0, <2>6 DEF KfreeRcu, Pending, Resolving, TypeOK, FreeFib
  <2>7. QED
    BY <1>2, <2>1, <2>2, <2>3, <2>4, <2>5, <2>6 DEF Rtnl
<1>3. ASSUME NEW o \in Fib, FibInsert(o) PROVE Pending'
  <2>1. \A q \in Fib : q # o => fib'[q] = fib[q]
    BY <1>0, <1>3 DEF FibInsert, FibInsertData, FibInsertList, TypeOK
  <2>2. QED
    BY <1>3, <2>1 DEF FibInsert, FibInsertData, FibInsertList, Pending, Resolving, work
<1>4. ASSUME NEW o \in Fib, Work(o) PROVE Pending'
  <2>1. CASE LlNeighWork(o)
    BY <1>0, <2>1 DEF LlNeighWork, Pending, Resolving, TypeOK
  <2>2. CASE LlNeighWorkResolve(o)
    <3>1. \A q \in Fib : fib'[q].st \in {fib[q].st, "free"}
      BY <1>0, <2>2, ResolveStates DEF LlNeighWorkResolve
    <3>2. fib[o].st \notin {"node", "data"}
      BY <2>2 DEF LlNeighWorkResolve, NeighResolve
    <3>3. QED
      BY <2>2, <3>1, <3>2 DEF LlNeighWorkResolve, Pending, Resolving
  <2>3. CASE LlNeighWorkStale(o)
    <3>1. \A q \in Fib : fib'[q].st = fib[q].st
      BY <1>0, <2>3 DEF LlNeighWorkStale, NeighCopied, TypeOK, FibRec
    <3>2. QED
      BY <2>3, <3>1 DEF LlNeighWorkStale, Pending, Resolving
  <2>4. QED
    BY <1>4, <2>1, <2>2, <2>3 DEF Work
<1>5. CASE Neighbour
  <2>1. \A q \in Fib : fib'[q].st = fib[q].st
    <3>1. ASSUME NEW h \in Host, NeighUpdateEvent(h), NEW q \in Fib PROVE fib'[q].st = fib[q].st
      BY <1>0, <3>1 DEF NeighUpdateEvent, NeighWrite, TypeOK, FibRec
    <3>2. QED
      BY <1>5, <3>1 DEF Neighbour, NeighReply, NeighChange, NeighGc
  <2>2. UNCHANGED <<rtnl, workers>>
    BY <1>5 DEF Neighbour, NeighReply, NeighChange, NeighGc, NeighUpdateEvent, work
  <2>3. QED
    BY <2>1, <2>2 DEF Pending, Resolving
<1>6. ASSUME NEW c \in Cpu, XmitEnd(c) \/ \E f \in Flow : XmitBegin(c, f) PROVE Pending'
  <2>1. \A q \in Fib : fib'[q] = fib[q] \/ fib'[q].st = "new"
    BY <1>0, <1>6, XmitObjects
  <2>2. UNCHANGED <<rtnl, workers>>
    BY <1>6, XmitShared
  <2>3. QED
    BY <2>1, <2>2 DEF Pending, Resolving
<1>7. CASE UNCHANGED vars
  BY <1>7 DEF Pending, Resolving, vars, work
<1>8. QED
  BY <1>1, <1>2, <1>3, <1>4, <1>5, <1>6, <1>7 DEF Next

\* Every step of every thread keeps the routes in step with their neighbours.
LEMMA MirrorStep == TInv /\ Pending /\ NeighMirror /\ [Next]_vars => NeighMirror'
<1> SUFFICES ASSUME TInv, Pending, NeighMirror, [Next]_vars PROVE NeighMirror'
  OBVIOUS
<1>0. TypeOK /\ RtnlHolds /\ TxHolds
  BY DEF TInv
<1>1. CASE Netlink
  <2>1. UNCHANGED <<fib, rtnl, workers, neigh, notify>>
    BY <1>1 DEF Netlink, LltCfg, LltCfgStore, LltEntryAdd, LltEntryDel, work
  <2>2. QED
    BY <2>1 DEF NeighMirror
<1>2. CASE Rtnl
  <2>1. ASSUME NEW r \in Route, PortObjAdd(r) PROVE NeighMirror'
    <3>1. \A q \in Fib : fib'[q].st = "tree" => fib'[q] = fib[q]
      BY <1>0, <2>1 DEF PortObjAdd, FibCreate, Inserted, TypeOK
    <3>2. \A q \in Fib : rtnl # [op |-> "add", sf |-> q]
      BY <2>1 DEF PortObjAdd
    <3>3. QED
      BY <2>1, <3>1, <3>2, MirrorFrame DEF PortObjAdd, work
  <2>2. CASE PortObjAddResolve
    <3>1. rtnl.sf \in Fib /\ NeighResolve(rtnl.sf)
      BY <1>0, <2>2 DEF RtnlHolds, PortObjAddResolve
    <3>2. ASSUME NEW q \in Fib, fib'[q].st = "tree", Settled(q)' PROVE Mirrors(q)'
      <4>1. q # rtnl.sf => Mirrors(q)
        <5>1. ASSUME q # rtnl.sf PROVE fib'[q] = fib[q] /\ rtnl # [op |-> "add", sf |-> q]
          BY <1>0, <3>1, <5>1 DEF NeighResolve, TypeOK
        <5>2. QED
          BY <2>2, <3>2, <5>1, MirrorForm DEF Settled, PortObjAddResolve, work
      <4>2. fib'[q].gw # NULL
        BY <3>2 DEF Settled
      <4>3. QED
        BY <1>0, <3>1, <3>2, <4>1, <4>2, ResolveMirrors
    <3>3. QED
      BY <3>2 DEF NeighMirror, Settled, Mirrors
  <2>3. ASSUME NEW p \in Prefix, PortObjDel(p) PROVE NeighMirror'
    <3>1. \A q \in Fib : fib'[q].st = "tree" => fib'[q] = fib[q]
      BY <1>0, <2>3 DEF PortObjDel, FindExact, InTrie, TypeOK, FibRec
    <3>2. \A q \in Fib : rtnl # [op |-> "add", sf |-> q]
      BY <2>3 DEF PortObjDel
    <3>3. QED
      BY <2>3, <3>1, <3>2, MirrorFrame DEF PortObjDel, work
  <2>4. CASE FibDeleteUnlink
    <3>1. \A q \in Fib : fib'[q].st = "tree" => fib'[q] = fib[q]
      BY <1>0, <2>4 DEF TypeOK, FibRec, FibDeleteUnlink
    <3>2. \A q \in Fib : rtnl # [op |-> "add", sf |-> q]
      BY <2>4 DEF FibDeleteUnlink
    <3>3. QED
      BY <2>4, <3>1, <3>2, MirrorFrame DEF FibDeleteUnlink, work
  <2>5. CASE FibDeleteClear
    <3>1. \A q \in Fib : fib'[q].st = "tree" => fib'[q] = fib[q]
      BY <1>0, <2>5 DEF TypeOK, FibRec, FibDeleteClear
    <3>2. \A q \in Fib : rtnl # [op |-> "add", sf |-> q]
      BY <2>5 DEF FibDeleteClear
    <3>3. QED
      BY <2>5, <3>1, <3>2, MirrorFrame DEF FibDeleteClear, work
  <2>6. ASSUME NEW o \in Fib, KfreeRcu(o) PROVE NeighMirror'
    <3>1. \A q \in Fib : fib'[q].st = "tree" => q # o /\ fib'[q] = fib[q]
      BY <1>0, <2>6 DEF TypeOK, FreeFib, KfreeRcu
    <3>2. QED
      BY <2>6, <3>1, MirrorFrame DEF KfreeRcu
  <2>7. QED
    BY <1>2, <2>1, <2>2, <2>3, <2>4, <2>5, <2>6 DEF Rtnl
<1>3. ASSUME NEW o \in Fib, FibInsert(o) \/ Work(o) PROVE NeighMirror'
  <2>1. CASE FibInsert(o)
    <3>1. fib[o].st \in {"node", "data"} /\ \A q \in Fib : q # o => fib'[q] = fib[q]
      BY <1>0, <2>1 DEF FibInsert, FibInsertData, FibInsertList, TypeOK
    <3>2. UNCHANGED <<rtnl, workers, neigh, notify>>
      BY <2>1 DEF FibInsert, FibInsertData, FibInsertList, work
    <3>3. ASSUME NEW q \in Fib, fib'[q].st = "tree", Settled(q)' PROVE Mirrors(q)'
      <4>1. q # o
        BY <3>1, <3>2, <3>3 DEF Pending, Resolving, Settled
      <4>2. fib'[q] = fib[q] /\ Settled(q)
        BY <3>1, <3>2, <3>3, <4>1 DEF Settled
      <4>3. QED
        BY <3>2, <3>3, <4>2, MirrorForm DEF Mirrors
    <3>4. QED
      BY <3>3 DEF NeighMirror, Settled, Mirrors
  <2>2. CASE LlNeighWork(o)
    <3>1. \A q \in Fib : fib'[q].st = "tree" => fib'[q] = fib[q]
      BY <1>0, <2>2 DEF LlNeighWork, Inserted, TypeOK, FibRec
    <3>2. QED
      BY <2>2, <3>1, MirrorFrame DEF LlNeighWork
  <2>3. CASE LlNeighWorkResolve(o)
    <3>1. NeighResolve(o)
      BY <2>3 DEF LlNeighWorkResolve
    <3>2. ASSUME NEW q \in Fib, fib'[q].st = "tree", Settled(q)' PROVE Mirrors(q)'
      <4>1. q # o => Mirrors(q)
        <5>1. ASSUME q # o PROVE fib'[q] = fib[q] /\ (q \in workers' <=> q \in workers)
          BY <1>0, <2>3, <3>1, <5>1 DEF NeighResolve, TypeOK, LlNeighWorkResolve
        <5>2. QED
          BY <2>3, <3>2, <5>1, MirrorForm DEF Settled, LlNeighWorkResolve
      <4>2. fib'[q].gw # NULL
        BY <3>2 DEF Settled
      <4>3. QED
        BY <1>0, <3>1, <3>2, <4>1, <4>2, ResolveMirrors
    <3>3. QED
      BY <3>2 DEF NeighMirror, Settled, Mirrors
  <2>4. CASE LlNeighWorkStale(o)
    <3>1. UNCHANGED <<rtnl, workers, notify>>
      BY <2>4 DEF LlNeighWorkStale
    <3>2. \A q \in Fib : fib'[q] = IF q = o THEN NeighCopied(o) ELSE fib[q]
      BY <1>0, <2>4 DEF LlNeighWorkStale, TypeOK
    <3>3. NeighCopied(o).st = fib[o].st /\ NeighCopied(o).gw = fib[o].gw
      BY <1>0 DEF NeighCopied, TypeOK, FibRec
    <3>4. ASSUME NEW q \in Fib, fib'[q].st = "tree", Settled(q)' PROVE Mirrors(q)'
      <4>1. fib'[q].gw # NULL /\ fib[q].gw = fib'[q].gw /\ Mirrors(q)
        BY <3>1, <3>2, <3>3, <3>4, MirrorForm DEF Settled
      <4>2. CASE neigh' = NeighAsked(o)
        BY <1>0, <3>2, <4>1, <4>2, CopyMirrors
      <4>3. CASE fib[o].st = "free" /\ \E h \in Host : neigh' = [neigh EXCEPT ![h] = "incomplete"]
        <5>1. fib'[q] = fib[q]
          BY <3>2, <3>3, <3>4, <4>3
        <5>2. QED
          BY <1>0, <4>1, <4>3, <5>1, AskMirrors
      <4>4. QED
        BY <2>4, <4>2, <4>3 DEF LlNeighWorkStale
    <3>5. QED
      BY <3>4 DEF NeighMirror, Settled, Mirrors
  <2>5. QED
    BY <1>3, <2>1, <2>2, <2>3, <2>4 DEF Work
<1>4. CASE Neighbour
  <2>1. ASSUME NEW h \in Host, NEW v, neigh' = [neigh EXCEPT ![h] = v],
               h \in notify' \/ v = "none",
               notify \subseteq notify', UNCHANGED <<fib, workers, rtnl>>
        PROVE  NeighMirror'
    <3>1. "none" \notin Mac
      BY MacAssumption DEF Unresolved
    <3>2. ASSUME NEW q \in Fib, fib[q].st = "tree", Settled(q)' PROVE Mirrors(q)'
      <4>1. Mirrors(q)
        BY <2>1, <3>2, MirrorForm DEF Settled
      <4>2. CASE fib[q].gw = h
        <5>1. v = "none" /\ neigh'[h] = v
          BY <1>0, <2>1, <3>2, <4>2 DEF Settled, TypeOK
        <5>2. QED
          BY <2>1, <3>1, <4>2, <5>1 DEF Mirrors
      <4>3. CASE fib[q].gw # h
        <5>1. fib[q].gw \in Host
          BY <1>0, <2>1, <3>2 DEF Settled, TypeOK, FibRec
        <5>2. neigh'[fib[q].gw] = neigh[fib[q].gw]
          BY <1>0, <2>1, <4>3, <5>1 DEF TypeOK
        <5>3. QED
          BY <2>1, <4>1, <5>2 DEF Mirrors
      <4>4. QED
        BY <4>2, <4>3
    <3>3. QED
      BY <2>1, <3>2, MirrorForm DEF NeighMirror, Settled, Mirrors
  <2>2. ASSUME NEW h \in Host, NEW m \in Mac, NeighReply(h, m) PROVE NeighMirror'
    BY <2>1, <2>2 DEF NeighReply, work
  <2>3. ASSUME NEW h \in Host, NEW v \in Mac \cup NeighLoss, NeighChange(h, v) PROVE NeighMirror'
    BY <2>1, <2>3 DEF NeighChange, work
  <2>4. ASSUME NEW h \in Host, NeighGc(h) PROVE NeighMirror'
    BY <2>1, <2>4 DEF NeighGc, work
  <2>5. ASSUME NEW h \in Host, NeighUpdateEvent(h) PROVE NeighMirror'
    <3>1. ASSUME NEW q \in Fib, fib'[q].st = "tree", Settled(q)' PROVE Mirrors(q)'
      <4>1. CASE q \in Listed /\ fib[q].gw = h
        <5>1. fib'[q] = NeighWrite(q, h)
          BY <2>5, <4>1 DEF NeighUpdateEvent
        <5>2. fib'[q].gw = h /\ fib'[q].mac = IF neigh[h] \in Mac THEN neigh[h] ELSE NULL
          BY <1>0, <4>1, <5>1 DEF NeighWrite, TypeOK, FibRec
        <5>3. "failed" \notin Mac /\ neigh' = neigh
          BY <2>5, MacAssumption DEF Unresolved, NeighUpdateEvent
        <5>4. QED
          BY <5>2, <5>3 DEF Mirrors
      <4>2. CASE ~(q \in Listed /\ fib[q].gw = h)
        <5>1. fib'[q] = fib[q]
          BY <2>5, <4>2 DEF NeighUpdateEvent
        <5>2. Settled(q)
          BY <2>5, <3>1, <4>2, <5>1 DEF Settled, NeighUpdateEvent, Listed, work
        <5>3. QED
          BY <2>5, <3>1, <5>1, <5>2, MirrorForm DEF Mirrors, NeighUpdateEvent
      <4>3. QED
        BY <4>1, <4>2
    <3>2. QED
      BY <3>1 DEF NeighMirror, Settled, Mirrors
  <2>6. QED
    BY <1>4, <2>2, <2>3, <2>4, <2>5 DEF Neighbour
<1>5. ASSUME NEW c \in Cpu, XmitEnd(c) \/ \E f \in Flow : XmitBegin(c, f) PROVE NeighMirror'
  <2>1. UNCHANGED <<rtnl, workers, neigh, notify>>
    BY <1>5, XmitShared
  <2>2. \A q \in Fib : fib'[q] = fib[q] \/ fib'[q].st = "new"
    BY <1>0, <1>5, XmitObjects
  <2>3. QED
    BY <2>1, <2>2, MirrorFrame
<1>6. CASE UNCHANGED vars
  BY <1>6 DEF NeighMirror, vars, work
<1>7. QED
  BY <1>1, <1>2, <1>3, <1>4, <1>5, <1>6 DEF Next

\* Whatever the interleaving of route changes, host-route workers, neighbour
\* changes and notifications, a route in the FIB of either driver shows its
\* neighbour once the notifier has run and nobody is resolving it.
THEOREM MirrorCorrect == Spec => []NeighMirror
<1>1. Init => Pending /\ NeighMirror
  BY DEF Init, Pending, NeighMirror, FreeFib
<1>2. QED
  BY <1>1, TypeInit, TypeStep, PendingStep, MirrorStep, PTL DEF Spec

(***************************************************************************)
(* InFlightRouteLive, for e1000: a packet takes its route from the tree,   *)
(* and every operation that changes an object either finds it out of use   *)
(* or keeps it allocated with its prefix.  NoReread: the steps that only   *)
(* ixgbe takes are out of the way.                                         *)
(***************************************************************************)
NoReread == \A c \in Cpu : tx[c].ph \notin {"store", "reread"}

Keeps(o) == fib[o].st \in Allocated => fib'[o].st \in Allocated /\ fib'[o].pfx = fib[o].pfx

GoesOn(c) ==
    \/ tx'[c].ph \notin {"store", "reread", "check"}
    \/ /\ tx'[c].ph = tx[c].ph /\ tx'[c].sf = tx[c].sf
       /\ tx'[c].dst = tx[c].dst /\ tx'[c].seen = tx[c].seen

\* Packets that go on using what they hold are safe while the objects in use
\* stay allocated.
LEMMA InFlightFrame ==
    ASSUME InFlightRouteLive, NoReread, TxHolds, \A c \in Cpu : GoesOn(c),
           \A o \in Fib : (\E c \in Cpu : tx[c].sf = o) => Keeps(o)
    PROVE  InFlightRouteLive' /\ NoReread'
<1>1. NoReread'
  BY DEF NoReread, GoesOn
<1>2. InFlightRouteLive'
  BY DEF InFlightRouteLive, TxHolds, Keeps, GoesOn
<1>3. QED
  BY <1>1, <1>2

\* sfmc_neigh_resolve changes the mac of a route and frees only what is lost.
LEMMA ResolveKeeps ==
    ASSUME TypeOK, NEW o \in Fib, NeighResolve(o), NEW q \in Fib
    PROVE  Keeps(q)
<1>0. NeighCopied(o).st = fib[o].st /\ NeighCopied(o).pfx = fib[o].pfx
  BY DEF NeighCopied, TypeOK, FibRec
<1>1. CASE q = o /\ fib[o].st # "lost"
  BY <1>0, <1>1 DEF NeighResolve, Keeps, TypeOK
<1>2. CASE q = o /\ fib[o].st = "lost"
  BY <1>2 DEF Keeps, Allocated
<1>3. CASE q # o
  BY <1>3 DEF NeighResolve, Keeps, TypeOK
<1>4. QED
  BY <1>1, <1>2, <1>3

\* Every step of every thread leaves the routes of packets in flight allocated.
LEMMA InFlightStep ==
    Driver = "e1000" /\ TInv /\ NoReread /\ InFlightRouteLive /\ [Next]_vars
    => InFlightRouteLive' /\ NoReread'
<1> SUFFICES ASSUME Driver = "e1000", TInv, NoReread, InFlightRouteLive, [Next]_vars
             PROVE  InFlightRouteLive' /\ NoReread'
  OBVIOUS
<1>0. TypeOK /\ RtnlHolds /\ TxHolds
  BY DEF TInv
<1>1. ASSUME \A c \in Cpu : GoesOn(c), \A o \in Fib : Keeps(o)
      PROVE  InFlightRouteLive' /\ NoReread'
  BY <1>0, <1>1, InFlightFrame
<1>2. ASSUME UNCHANGED tx PROVE \A c \in Cpu : GoesOn(c)
  BY <1>2 DEF GoesOn
<1>3. ASSUME NEW p, tx' \in {tx, Hole(p)} PROVE \A c \in Cpu : GoesOn(c)
  BY <1>0, <1>3, HoleFact DEF GoesOn
<1>4. CASE Netlink
  <2>1. \A c \in Cpu : GoesOn(c)
    <3>1. ASSUME NEW ids, tx' = Forget(ids), NEW c \in Cpu PROVE GoesOn(c)
      BY <1>0, <3>1 DEF Forget, GoesOn, TypeOK, TxRec
    <3>2. UNCHANGED tx \/ \E ids : tx' = Forget(ids)
      BY <1>4 DEF Netlink, LltCfg, TableDestroy, LltCfgStore, LltEntryAdd, LltEntryDel
    <3>3. QED
      BY <1>2, <3>1, <3>2
  <2>2. UNCHANGED fib
    BY <1>4 DEF Netlink, LltCfg, LltCfgStore, LltEntryAdd, LltEntryDel
  <2>3. \A o \in Fib : Keeps(o)
    BY <2>2 DEF Keeps
  <2>4. QED
    BY <1>1, <2>1, <2>3
<1>5. CASE Rtnl
  <2>1. ASSUME NEW r \in Route, PortObjAdd(r) PROVE InFlightRouteLive' /\ NoReread'
    <3>1. \A q \in Fib : Keeps(q)
      BY <1>0, <2>1 DEF PortObjAdd, Keeps, Allocated, TypeOK
    <3>2. QED
      BY <1>1, <1>3, <2>1, <3>1 DEF PortObjAdd
  <2>2. CASE PortObjAddResolve
    <3>1. rtnl.sf \in Fib
      BY <1>0, <2>2 DEF RtnlHolds, PortObjAddResolve
    <3>2. \A q \in Fib : Keeps(q)
      BY <1>0, <2>2, <3>1, ResolveKeeps DEF PortObjAddResolve
    <3>3. QED
      BY <1>1, <1>2, <2>2, <3>2 DEF PortObjAddResolve
  <2>3. ASSUME NEW p \in Prefix, PortObjDel(p) PROVE InFlightRouteLive' /\ NoReread'
    <3>1. \A q \in Fib : Keeps(q)
      BY <1>0, <2>3 DEF PortObjDel, FindExact, InTrie, Keeps, Allocated, TypeOK, FibRec
    <3>2. \A c \in Cpu : GoesOn(c)
      BY <1>0, <2>3 DEF PortObjDel, GoesOn, TypeOK, TxRec
    <3>3. QED
      BY <1>1, <3>1, <3>2
  <2>4. CASE FibDeleteUnlink \/ FibDeleteClear
    <3>1. \A q \in Fib : Keeps(q)
      BY <1>0, <2>4 DEF FibDeleteUnlink, FibDeleteClear, Keeps, Allocated, TypeOK, FibRec
    <3>2. QED
      BY <1>1, <1>2, <2>4, <3>1 DEF FibDeleteUnlink, FibDeleteClear
  <2>5. ASSUME NEW o \in Fib, KfreeRcu(o) PROVE InFlightRouteLive' /\ NoReread'
    <3>1. \A q \in Fib : (\E c \in Cpu : tx[c].sf = q) => Keeps(q)
      BY <1>0, <2>5 DEF KfreeRcu, GracePeriod, Keeps, TypeOK
    <3>2. \A c \in Cpu : GoesOn(c)
      BY <1>2, <2>5 DEF KfreeRcu
    <3>3. QED
      BY <1>0, <3>1, <3>2, InFlightFrame
  <2>6. QED
    BY <1>5, <2>1, <2>2, <2>3, <2>4, <2>5 DEF Rtnl
<1>6. ASSUME NEW o \in Fib, FibInsert(o) PROVE InFlightRouteLive' /\ NoReread'
  <2>1. \A q \in Fib : Keeps(q)
    BY <1>0, <1>6 DEF FibInsert, FibInsertData, FibInsertList, Keeps, Allocated, TypeOK, FibRec
  <2>2. QED
    BY <1>1, <1>2, <1>6, <2>1 DEF FibInsert, FibInsertData, FibInsertList
<1>7. ASSUME NEW o \in Fib, Work(o) PROVE InFlightRouteLive' /\ NoReread'
  <2>1. CASE LlNeighWork(o)
    <3>1. \A q \in Fib : Keeps(q)
      BY <1>0, <2>1 DEF LlNeighWork, Keeps, Allocated, TypeOK
    <3>2. QED
      BY <1>1, <1>3, <2>1, <3>1 DEF LlNeighWork
  <2>2. CASE LlNeighWorkResolve(o)
    <3>1. \A q \in Fib : Keeps(q)
      BY <1>0, <2>2, ResolveKeeps DEF LlNeighWorkResolve
    <3>2. QED
      BY <1>1, <1>2, <2>2, <3>1 DEF LlNeighWorkResolve
  <2>3. CASE LlNeighWorkStale(o)
    <3>1. \A q \in Fib : Keeps(q)
      BY <1>0, <2>3 DEF LlNeighWorkStale, NeighCopied, Keeps, TypeOK, FibRec
    <3>2. QED
      BY <1>1, <1>2, <2>3, <3>1 DEF LlNeighWorkStale
  <2>4. QED
    BY <1>7, <2>1, <2>2, <2>3 DEF Work
<1>8. CASE Neighbour
  <2>1. ASSUME NEW h \in Host, NeighUpdateEvent(h) PROVE \A q \in Fib : Keeps(q)
    BY <1>0, <2>1 DEF NeighUpdateEvent, NeighWrite, Keeps, TypeOK, FibRec
  <2>2. \A q \in Fib : Keeps(q)
    BY <1>8, <2>1 DEF Neighbour, NeighReply, NeighChange, NeighGc, Keeps
  <2>3. UNCHANGED tx
    BY <1>8 DEF Neighbour, NeighReply, NeighChange, NeighGc, NeighUpdateEvent
  <2>4. QED
    BY <1>1, <1>2, <2>2, <2>3
<1>9. ASSUME NEW c \in Cpu, XmitEnd(c) \/ \E f \in Flow : XmitBegin(c, f)
      PROVE  InFlightRouteLive' /\ NoReread'
  <2>1. \A q \in Fib : Keeps(q)
    BY <1>0, <1>9, XmitObjects DEF Keeps, Allocated
  <2>2. CASE XmitRoute(c)
    <3>1. PICK o \in Results(c) :
             tx' = [tx EXCEPT ![c].ph = IF Driver = "ixgbe" THEN "store" ELSE "check", ![c].sf = o]
      BY <2>2 DEF XmitRoute
    <3>2. /\ tx'[c].ph = "check" /\ tx'[c].sf = o
          /\ tx'[c].dst = tx[c].dst /\ tx'[c].seen = tx[c].seen
          /\ \A d \in Cpu \ {c} : tx'[d] = tx[d]
      BY <1>0, <3>1 DEF TypeOK, TxRec
    <3>3. tx[c].seen # "torn" => fib[o].st \in Allocated /\ tx[c].dst \in Match[fib[o].pfx]
      BY DEF Results, Covering, InTrie, Allocated
    <3>4. UNCHANGED fib
      BY <2>2 DEF XmitRoute
    <3>5. QED
      BY <3>2, <3>3, <3>4 DEF InFlightRouteLive, NoReread
  <2>3. CASE ~XmitRoute(c)
    <3>1. \A d \in Cpu : GoesOn(d)
      <4>1. ASSUME tx'[c].ph \in {"idle", "search", "oops"}, \A d \in Cpu \ {c} : tx'[d] = tx[d]
            PROVE  \A d \in Cpu : GoesOn(d)
        BY <1>0, <4>1 DEF GoesOn, TypeOK
      <4>2. ASSUME tx' = [tx EXCEPT ![c] = NoTx] PROVE \A d \in Cpu : GoesOn(d)
        <5>1. tx'[c].ph = "idle" /\ \A d \in Cpu \ {c} : tx'[d] = tx[d]
          BY <1>0, <4>2 DEF NoTx, TypeOK
        <5>2. QED
          BY <4>1, <5>1
      <4>3. ASSUME NEW f \in Flow, XmitSearch(c, f) PROVE \A d \in Cpu : GoesOn(d)
        <5>1. PICK o : Begin(c, f, "search", o, Meets(llt[Entry(f)]))
          BY <4>3 DEF XmitSearch
        <5> DEFINE t == [ph |-> "search", flow |-> f, st |-> Entry(f), dst |-> llt[Entry(f)],
                         sf |-> o, seen |-> Meets(llt[Entry(f)])]
        <5>2. t.ph = "search" /\ tx' = [tx EXCEPT ![c] = t]
          BY <5>1 DEF Begin
        <5> HIDE DEF t
        <5>3. tx'[c].ph = "search" /\ \A d \in Cpu \ {c} : tx'[d] = tx[d]
          BY <1>0, <5>2 DEF TypeOK
        <5>4. QED
          BY <4>1, <5>3
      <4>4. ASSUME NEW f \in Flow, XmitBegin(c, f) PROVE \A d \in Cpu : GoesOn(d)
        BY <1>2, <4>3, <4>4 DEF XmitBegin, XmitNoEntry, XmitCached
      <4>5. ASSUME Dies(c) PROVE \A d \in Cpu : GoesOn(d)
        <5> DEFINE t == [NoTx EXCEPT !.ph = "oops"]
        <5>1. t.ph = "oops" /\ tx' = [tx EXCEPT ![c] = t]
          BY <4>5 DEF Dies, NoTx
        <5> HIDE DEF t
        <5>2. tx'[c].ph = "oops" /\ \A d \in Cpu \ {c} : tx'[d] = tx[d]
          BY <1>0, <5>1 DEF TypeOK
        <5>3. QED
          BY <4>1, <5>2
      <4>6. CASE XmitEnd(c)
        <5>1. ~XmitStore(c) /\ ~XmitReread(c)
          BY DEF NoReread, XmitStore, XmitReread
        <5>2. QED
          BY <2>3, <4>2, <4>5, <4>6, <5>1 DEF XmitEnd, XmitNoRoute, XmitTorn, XmitConnected,
             XmitNoMemory, XmitNotValid, XmitEncap, XmitFreed, Sent
      <4>7. QED
        BY <1>9, <4>4, <4>6
    <3>2. QED
      BY <1>1, <2>1, <3>1
  <2>4. QED
    BY <2>2, <2>3
<1>10. CASE UNCHANGED vars
  BY <1>10 DEF InFlightRouteLive, NoReread, vars
<1>11. QED
  BY <1>4, <1>5, <1>6, <1>7, <1>8, <1>9, <1>10 DEF Next

\* In e1000 no packet that is past its search reads a route that was freed, or one
\* that does not cover its destination, unless a removal overlapped the search:
\* for every number of CPUs, routes and objects.
THEOREM InFlightSafe == Driver = "e1000" => (Spec => []InFlightRouteLive)
<1> SUFFICES ASSUME Driver = "e1000" PROVE Spec => []InFlightRouteLive
  OBVIOUS
<1>1. Init => NoReread /\ InFlightRouteLive
  BY DEF Init, InFlightRouteLive, NoReread, NoTx
<1>2. TInv /\ NoReread /\ InFlightRouteLive /\ [Next]_vars => InFlightRouteLive' /\ NoReread'
  BY InFlightStep
<1>3. QED
  BY <1>1, <1>2, TypeInit, TypeStep, PTL DEF Spec
===============================================================================
