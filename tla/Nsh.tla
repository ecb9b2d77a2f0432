---------------------------------- MODULE Nsh ----------------------------------
(***************************************************************************)
(* The path table of the nsh driver                                        *)
(* (src/protocol-drivers-4.2.0/nsh/nshkmod.c).                             *)
(*                                                                         *)
(* An entry maps a path (SPI and SI) to an nsh device of this machine or   *)
(* to a remote node over a lower device, and an nsh device has a path.     *)
(* Four kinds of threads meet at the table: commands, one at a time under  *)
(* the generic netlink lock, set and unset paths; rtnl creates and deletes *)
(* nsh devices; rtnl removes lower devices and calls the notifier; CPUs    *)
(* transmit and receive.  Commands and rtnl have no lock in common, and    *)
(* only packets are inside an RCU read section.                            *)
(***************************************************************************)
EXTENDS Naturals

CONSTANTS
    Dev,        \* nsh devices
    Lower,      \* other devices, over which remote nodes are reached
    MadcapDev,  \* the ones with madcap ops
    Key, NoKey, \* paths, and 0: "not assigned"
    SiZero,     \* paths with service index 0
    Obj,        \* nsh_table objects
    Unset,      \* the value of memory nobody has written
    MaxOps,     \* bound on links and commands
    NULL

ASSUME NshAssumption ==
    /\ MadcapDev \subseteq Lower /\ SiZero \subseteq Key
    /\ NoKey \notin Key /\ MaxOps \in Nat
    /\ Dev \cap Lower = {} /\ {NULL, Unset} \cap (Dev \cup Lower \cup Obj) = {}

VARIABLES
    madcap,    \* the module parameter madcap_enable
    st,        \* st[x]: where x is between its creation and its end
    key,       \* key[d]: ndev->key
    obj,       \* the nsh_table objects, rdst included
    gl,        \* the netlink command in progress
    pkt,       \* the packet in progress
    broken,    \* a command has touched what was freed: the model ends
    nops       \* links and commands so far

vars == <<madcap, st, key, obj, gl, pkt, broken, nops>>

\* purged: the table has no entry of the device any more; unlisted: the device
\* has no index any more.  An nsh device is purged first, a lower device last.
DevState == {"none", "up", "purged", "unlisted"}
Encap == {"none", "vxlan", "ether"}

\* late is history: a removal of the device overlapped the command that made it.
ObjRec == [st : {"free", "linked", "dead"}, key : Key \cup {NoKey}, encap : Encap,
           rdev : Dev \cup {NULL}, lower : Lower \cup {NULL, Unset}, late : BOOLEAN]
NoObj == [st |-> "free", key |-> NoKey, encap |-> "none", rdev |-> NULL, lower |-> NULL, late |-> FALSE]

\* lap is history: rtnl has removed the device or the entry of the command.
GlRec == [op : {"none", "set", "unset", "dev"}, key : Key \cup {NoKey}, encap : Encap,
          dev : Dev \cup Lower \cup {NULL}, nt : Obj \cup {NULL}, lap : BOOLEAN]
NoGl == [op |-> "none", key |-> NoKey, encap |-> "none", dev |-> NULL, nt |-> NULL, lap |-> FALSE]

\* nt: the entry found; on: madcap_on; hdr: the path in the header; out: the
\* entry whose destination got the packet; rekeyed is history: the device was
\* given another path since the packet read it.
PktRec == [ph : {"none", "test", "header", "send", "recv", "done", "fault"},
           dev : Dev \cup {NULL}, nt : Obj \cup {NULL}, on : BOOLEAN,
           hdr : Key \cup {NoKey}, out : Obj \cup {NULL}, rekeyed : BOOLEAN]
NoPkt == [ph |-> "none", dev |-> NULL, nt |-> NULL, on |-> FALSE, hdr |-> NoKey,
          out |-> NULL, rekeyed |-> FALSE]

TypeOK ==
    /\ madcap \in BOOLEAN
    /\ st \in [Dev \cup Lower -> DevState]
    /\ key \in [Dev -> Key \cup {NoKey}]
    /\ obj \in [Obj -> ObjRec]
    /\ \A o \in Obj : obj[o].rdev = NULL \/ obj[o].lower = NULL
    /\ gl \in GlRec /\ pkt \in PktRec
    /\ broken \in BOOLEAN /\ nops \in 0 .. MaxOps

Init ==
    /\ madcap \in BOOLEAN
    /\ st \in [Dev \cup Lower -> {"none", "up"}]
    /\ \A l \in Lower : st[l] = "up"
    /\ key = [d \in Dev |-> NoKey]
    /\ obj = [o \in Obj |-> NoObj]
    /\ gl = NoGl /\ pkt = NoPkt
    /\ broken = FALSE /\ nops = 0

Count == nops < MaxOps /\ nops' = nops + 1

Linked(k) == {o \in Obj : obj[o].st = "linked" /\ obj[o].key = k}

\* Mutant: the first entry of the hash bucket is taken.
FindBucket(k) ==
    LET hits == {o \in Obj : obj[o].st = "linked"}
    IN  IF hits = {} THEN NULL ELSE CHOOSE o \in hits : TRUE

\* nsh_find_table
Find(k) == IF Linked(k) = {} THEN NULL ELSE CHOOSE o \in Linked(k) : TRUE

\* Mutant: the objects are freed at once.
FreeNow(S) == [o \in Obj |-> IF o \in S THEN NoObj ELSE obj[o]]

\* nsh_delete_table
Delete(S) == [o \in Obj |-> IF o \in S THEN [obj[o] EXCEPT !.st = "dead"] ELSE obj[o]]

\* nsh_free_table, after the packets that may have found the object.
FreeTable(o) ==
    /\ obj[o].st = "dead"
    /\ pkt = NoPkt
    /\ obj' = [obj EXCEPT ![o] = NoObj]
    /\ UNCHANGED <<madcap, st, key, gl, pkt, broken, nops>>

-------------------------------------------------------------------------------
(***************************************************************************)
(* The rtnl thread, one device at a time.                                  *)
(***************************************************************************)
Rtnl(x) == \A y \in (Dev \cup Lower) \ {x} : st[y] \in {"none", "up"}

\* A command that is at the removed device, or at one of the deleted entries.
Lap(x, S) == gl' = [gl EXCEPT !.lap = @ \/ (gl.dev = x) \/ gl.nt \in S]

Newlink(d, k) ==
    /\ Count
    /\ Rtnl(d)
    /\ st[d] = "none"
    /\ gl.dev # d                   \* the model does not reuse a freed address
    /\ st' = [st EXCEPT ![d] = "up"]
    /\ key' = [key EXCEPT ![d] = k]
    /\ UNCHANGED <<madcap, obj, gl, pkt, broken>>

\* Mutant: the entries of the device stay.
DellinkKeepsPaths(d) ==
    /\ Count
    /\ Rtnl(d)
    /\ st[d] = "up"
    /\ st' = [st EXCEPT ![d] = "purged"]
    /\ Lap(d, {})
    /\ UNCHANGED <<madcap, key, obj, pkt, broken>>

\* nsh_dellink: "remove this device from nsh table"
Dellink(d) ==
    LET S == {o \in Obj : obj[o].st = "linked" /\ obj[o].rdev = d}
    IN
    /\ Count
    /\ Rtnl(d)
    /\ st[d] = "up"
    /\ st' = [st EXCEPT ![d] = "purged"]
    /\ obj' = Delete(S)
    /\ Lap(d, S)
    /\ UNCHANGED <<madcap, key, pkt, broken>>

DellinkUnlist(d) ==
    /\ d \in Dev /\ st[d] = "purged"
    /\ st' = [st EXCEPT ![d] = "unlisted"]
    /\ UNCHANGED <<madcap, key, obj, gl, pkt, broken, nops>>

LowerUnlist(l) ==
    /\ Count
    /\ Rtnl(l)
    /\ st[l] = "up"
    /\ st' = [st EXCEPT ![l] = "unlisted"]
    /\ UNCHANGED <<madcap, key, obj, gl, pkt, broken>>

\* Mutant: only entries with Ethernet encapsulation are looked at.
NotifyEtherOnly(l) ==
    LET S == {o \in Obj : obj[o].st = "linked" /\ obj[o].encap = "ether" /\ obj[o].lower = l}
    IN
    /\ l \in Lower /\ st[l] = "unlisted"
    /\ st' = [st EXCEPT ![l] = "purged"]
    /\ obj' = Delete(S)
    /\ Lap(l, S)
    /\ UNCHANGED <<madcap, key, pkt, broken, nops>>

\* nsh_handle_lowerdev_unregister
LowerNotify(l) ==
    LET S == {o \in Obj : obj[o].st = "linked" /\ obj[o].lower = l}
    IN
    /\ l \in Lower /\ st[l] = "unlisted"
    /\ st' = [st EXCEPT ![l] = "purged"]
    /\ obj' = Delete(S)
    /\ Lap(l, S)
    /\ UNCHANGED <<madcap, key, pkt, broken, nops>>

\* The memory is freed when no packet is on its way; commands do not count.
FreeDev(x) ==
    /\ st[x] = IF x \in Dev THEN "unlisted" ELSE "purged"
    /\ pkt = NoPkt
    /\ st' = [st EXCEPT ![x] = "none"]
    /\ UNCHANGED <<madcap, key, obj, gl, pkt, broken, nops>>

-------------------------------------------------------------------------------
(***************************************************************************)
(* The commands.                                                           *)
(***************************************************************************)
\* __dev_get_by_index
Indexed(x) == st[x] \in IF x \in Dev THEN {"up", "purged"} ELSE {"up"}

\* The devices a path may be set to.
DstFor(encap) ==
    CASE encap = "none"  -> {d \in Dev : Indexed(d)}
      [] encap = "vxlan" -> {l \in Lower : Indexed(l)} \cup {NULL}
      [] encap = "ether" -> {l \in Lower : Indexed(l)}

\* Mutant: a path may be set twice.
PathSetFindAny(k, encap, x) ==
    /\ Count
    /\ gl = NoGl
    /\ x \in DstFor(encap)
    /\ gl' = [op |-> "set", key |-> k, encap |-> encap, dev |-> x, nt |-> NULL,
              lap |-> IF x = NULL THEN FALSE ELSE st[x] = "purged"]
    /\ UNCHANGED <<madcap, st, key, obj, pkt, broken>>

\* nsh_nl_cmd_path_dst_set, up to the device; -EEXIST for a path that is set.
PathSetFind(k, encap, x) ==
    /\ Count
    /\ gl = NoGl
    /\ Find(k) = NULL
    /\ x \in DstFor(encap)
    /\ gl' = [op |-> "set", key |-> k, encap |-> encap, dev |-> x, nt |-> NULL,
              lap |-> IF x = NULL THEN FALSE ELSE st[x] = "purged"]
    /\ UNCHANGED <<madcap, st, key, obj, pkt, broken>>

\* Mutant: the device of every path is stored as rdev.
PathSetAddRdev ==
    /\ gl.op = "set"
    /\ \E o \in Obj :
        /\ obj[o].st = "free"
        /\ obj' = [obj EXCEPT ![o] =
             [st |-> "linked", key |-> gl.key, encap |-> gl.encap,
              rdev |-> gl.dev, lower |-> NULL, late |-> gl.lap]]
    /\ gl' = NoGl
    /\ UNCHANGED <<madcap, st, key, pkt, broken, nops>>

\* nsh_add_table; the lower device of a VXLAN path without one is not written.
PathSetAdd ==
    /\ gl.op = "set"
    /\ \E o \in Obj, u \in {NULL, Unset} :
        /\ obj[o].st = "free"
        /\ obj' = [obj EXCEPT ![o] =
             [st |-> "linked", key |-> gl.key, encap |-> gl.encap,
              rdev |-> IF gl.encap = "none" THEN gl.dev ELSE NULL,
              lower |-> IF gl.encap = "none" THEN NULL
                        ELSE IF gl.dev = NULL THEN u ELSE gl.dev,
              late |-> gl.lap]]
    /\ gl' = NoGl
    /\ UNCHANGED <<madcap, st, key, pkt, broken, nops>>

\* -ENOMEM of nsh_add_table is not looked at: the command reports success.
PathSetNoMemory ==
    /\ gl.op = "set"
    /\ \A o \in Obj : obj[o].st # "free"
    /\ gl' = NoGl
    /\ UNCHANGED <<madcap, st, key, obj, pkt, broken, nops>>

PathUnsetFind(k) ==
    /\ Count
    /\ gl = NoGl
    /\ Find(k) # NULL
    /\ gl' = [NoGl EXCEPT !.op = "unset", !.nt = Find(k)]
    /\ UNCHANGED <<madcap, st, key, obj, pkt, broken>>

\* An entry rtnl has deleted meanwhile is deleted a second time.
PathUnsetDelete ==
    /\ gl.op = "unset"
    /\ IF obj[gl.nt].st = "linked"
       THEN obj' = Delete({gl.nt}) /\ gl' = NoGl /\ UNCHANGED broken
       ELSE broken' = TRUE /\ UNCHANGED <<obj, gl>>
    /\ UNCHANGED <<madcap, st, key, pkt, nops>>

\* nsh_nl_cmd_dev_path_set; for nsh_nl_cmd_dev_path_unset, k is NoKey.
DevPathFind(d, k) ==
    /\ Count
    /\ gl = NoGl
    /\ Indexed(d)
    /\ gl' = [op |-> "dev", key |-> k, encap |-> "none", dev |-> d,
              nt |-> IF k = NoKey THEN NULL ELSE Find(k), lap |-> st[d] = "purged"]
    /\ UNCHANGED <<madcap, st, key, obj, pkt, broken>>

\* Entry o or the device it names has been freed.
Gone(o) == obj[o].st = "free" \/ (obj[o].lower \in Lower /\ st[obj[o].lower] = "none")

\* nsh_change_mtu_for_path reads the entry, and the lower device of an Ethernet
\* path; then the key is stored.
ReadsFreed ==
    \/ st[gl.dev] = "none"
    \/ gl.nt # NULL /\ obj[gl.nt].st = "free"
    \/ gl.nt # NULL /\ obj[gl.nt].encap = "ether" /\ Gone(gl.nt)

DevPathStore ==
    /\ gl.op = "dev"
    /\ IF ReadsFreed
       THEN broken' = TRUE /\ UNCHANGED <<key, gl, pkt>>
       ELSE /\ key' = [key EXCEPT ![gl.dev] = gl.key]
            /\ pkt' = IF pkt.dev = gl.dev THEN [pkt EXCEPT !.rekeyed = TRUE] ELSE pkt
            /\ gl' = NoGl
            /\ UNCHANGED broken
    /\ UNCHANGED <<madcap, st, obj, nops>>

-------------------------------------------------------------------------------
(***************************************************************************)
(* The packets.                                                            *)
(***************************************************************************)
\* nsh_xmit; a packet of a device without path or entry is an error.
XmitFind(d) ==
    /\ pkt = NoPkt
    /\ st[d] \in {"up", "purged"}
    /\ Find(key[d]) # NULL
    /\ pkt' = [NoPkt EXCEPT !.ph = "test", !.dev = d, !.nt = Find(key[d])]
    /\ UNCHANGED <<madcap, st, key, obj, gl, broken, nops>>

\* The lower device of an entry can be followed.
Sound(o) == obj[o].lower # Unset /\ ~Gone(o)

\* madcap_on: rdst is followed although the entry may have none.
XmitTest ==
    LET o == obj[pkt.nt]
    IN
    /\ pkt.ph = "test"
    /\ pkt' = IF ~madcap THEN [pkt EXCEPT !.ph = "header"]
              ELSE IF o.rdev # NULL \/ ~Sound(pkt.nt) THEN [pkt EXCEPT !.ph = "fault"]
              ELSE [pkt EXCEPT !.ph = "header", !.on = o.lower \in MadcapDev]
    /\ UNCHANGED <<madcap, st, key, obj, gl, broken, nops>>

\* The path is read a second time for the header.
XmitHeader ==
    /\ pkt.ph = "header"
    /\ pkt' = [pkt EXCEPT !.hdr = key[pkt.dev],
                          !.ph = IF obj[pkt.nt].rdev # NULL THEN "recv" ELSE "send"]
    /\ UNCHANGED <<madcap, st, key, obj, gl, broken, nops>>

\* nsh_xmit_vxlan_madcap, nsh_xmit_vxlan and nsh_xmit_ether.
XmitSend ==
    /\ pkt.ph = "send"
    /\ pkt' = IF ~Sound(pkt.nt) THEN [pkt EXCEPT !.ph = "fault"]
              ELSE [pkt EXCEPT !.ph = "done", !.out = pkt.nt]
    /\ UNCHANGED <<madcap, st, key, obj, gl, broken, nops>>

\* nsh_vxlan_udp_encap_recv and nsh_ether_encap_recv
RecvStart(k) ==
    /\ pkt = NoPkt
    /\ pkt' = [NoPkt EXCEPT !.ph = "recv", !.hdr = k]
    /\ UNCHANGED <<madcap, st, key, obj, gl, broken, nops>>

\* nsh_recv: the entry of the header's path, if it names an nsh device.
Recv ==
    LET k == pkt.hdr
        o == IF k \in SiZero THEN NULL ELSE Find(k)
    IN
    /\ pkt.ph = "recv"
    /\ pkt' = IF o = NULL \/ obj[o].rdev = NULL
              THEN [pkt EXCEPT !.ph = "done"]
              ELSE [pkt EXCEPT !.ph = IF st[obj[o].rdev] = "none" THEN "fault" ELSE "done",
                               !.nt = o, !.out = o]
    /\ UNCHANGED <<madcap, st, key, obj, gl, broken, nops>>

PacketEnd ==
    /\ pkt.ph \in {"done", "fault"}
    /\ pkt' = NoPkt
    /\ UNCHANGED <<madcap, st, key, obj, gl, broken, nops>>

-------------------------------------------------------------------------------
Links ==
    \/ \E d \in Dev, k \in Key \cup {NoKey} : Newlink(d, k)
    \/ \E d \in Dev : Dellink(d) \/ DellinkUnlist(d)
    \/ \E l \in Lower : LowerUnlist(l) \/ LowerNotify(l)
    \/ \E x \in Dev \cup Lower : FreeDev(x)

Commands ==
    \/ \E k \in Key, encap \in Encap, x \in Dev \cup Lower \cup {NULL} : PathSetFind(k, encap, x)
    \/ PathSetAdd \/ PathSetNoMemory
    \/ \E k \in Key : PathUnsetFind(k)
    \/ PathUnsetDelete
    \/ \E d \in Dev, k \in Key \cup {NoKey} : DevPathFind(d, k)
    \/ DevPathStore

Packets ==
    \/ \E d \in Dev : XmitFind(d)
    \/ XmitTest \/ XmitHeader \/ XmitSend
    \/ \E k \in Key : RecvStart(k)
    \/ Recv \/ PacketEnd

Next ==
    /\ ~broken
    /\ Links \/ Commands \/ Packets \/ \E o \in Obj : FreeTable(o)

Spec == Init /\ [][Next]_vars

-------------------------------------------------------------------------------
\* A path has one entry: the command checks -EEXIST and adds later, while rtnl
\* deletes entries of the same table.
PathUnique == \A k \in Key : \A o, p \in Linked(k) : o = p

\* Once a device is purged no entry leads to it, also not when its memory is used
\* for a new device, unless the removal overlapped the command that set the path.
NoStaleEntry ==
    \A o \in Obj : obj[o].st = "linked" /\ ~obj[o].late =>
        \A x \in {obj[o].rdev, obj[o].lower} \cap (Dev \cup Lower) :
            st[x] \in IF x \in Dev THEN {"up"} ELSE {"up", "unlisted"}

\* A packet uses no entry after it was freed: whoever deletes it, command,
\* nsh_dellink or notifier, leaves it to RCU.
PacketEntryLive == \A o \in {pkt.nt, pkt.out} \cap Obj : obj[o].st # "free"

\* A packet goes to the destination of the path its header names, although path
\* and entry are looked up twice, unless the device got another path on the way.
PacketOnPath == pkt.out # NULL => obj[pkt.out].key = pkt.hdr \/ pkt.rekeyed

\* A packet follows a bad pointer only with an entry that a removal overlapped,
\* with one that was never written (VXLAN without a lower device), or, under
\* madcap_enable, with one that has none (a path to an nsh device); a command
\* touches freed memory only if a removal overlapped it or the entry it reads.
FaultsExplained ==
    /\ pkt.ph = "fault" =>
         LET o == obj[pkt.nt]
         IN  o.late \/ o.lower = Unset \/ (madcap /\ o.rdev # NULL)
    /\ broken => gl.lap \/ (gl.nt # NULL /\ obj[gl.nt].late)

(***************************************************************************)
(* The inductive invariant behind the properties above: what a command     *)
(* that no removal overlapped still finds as it was, and what a packet     *)
(* holds.                                                                  *)
(***************************************************************************)
GlInv ==
    /\ gl.op = "set" => Linked(gl.key) = {} /\ gl.key \in Key
    /\ gl.op = "set" => gl.dev \in IF gl.encap = "none" THEN Dev ELSE Lower \cup {NULL}
    /\ gl.op = "unset" => gl.nt \in Obj
    /\ gl.op = "dev" => gl.dev \in Dev
    /\ ~gl.lap =>
         /\ gl.dev \in Dev => st[gl.dev] = "up"
         /\ gl.dev \in Lower => st[gl.dev] \in {"up", "unlisted"}
         /\ gl.nt \in Obj => obj[gl.nt].st = "linked"

PktInv ==
    /\ pkt.ph \in {"test", "header", "send"} => pkt.dev \in Dev /\ pkt.nt \in Obj
    /\ pkt.ph \in {"test", "header", "send", "recv"} => pkt.out = NULL
    /\ pkt.ph = "fault" => pkt.nt \in Obj
    /\ pkt.dev \in Dev => st[pkt.dev] # "none"
    /\ pkt.nt \in Obj /\ ~obj[pkt.nt].late /\ obj[pkt.nt].lower \in Lower =>
         st[obj[pkt.nt].lower] # "none"
    /\ pkt.ph \in {"test", "header"} /\ ~pkt.rekeyed => obj[pkt.nt].key = key[pkt.dev]
    /\ pkt.ph = "send" /\ ~pkt.rekeyed => obj[pkt.nt].key = pkt.hdr

IInv ==
    /\ TypeOK /\ GlInv /\ PktInv
    /\ PathUnique /\ NoStaleEntry /\ PacketEntryLive /\ PacketOnPath /\ FaultsExplained
===============================================================================
