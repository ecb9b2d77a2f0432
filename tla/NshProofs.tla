------------------------------ MODULE NshProofs ------------------------------
(***************************************************************************)
(* Proofs about Nsh, for any number of devices, paths, table objects and   *)
(* operations.                                                             *)
(***************************************************************************)
EXTENDS Nsh, TLAPS

\* nsh_find_table returns an entry of the path, or NULL if there is none.
LEMMA FindFact ==
    ASSUME NEW k
    PROVE  /\ Find(k) = NULL <=> Linked(k) = {}
           /\ Find(k) # NULL => Find(k) \in Obj /\ obj[Find(k)].st = "linked" /\ obj[Find(k)].key = k
<1>1. Linked(k) \subseteq Obj BY DEF Linked
<1>2. CASE Linked(k) = {} BY <1>2 DEF Find
<1>3. CASE Linked(k) # {}
  <2>1. Find(k) \in Linked(k) BY <1>3 DEF Find
  <2> QED BY <2>1, <1>1, NshAssumption DEF Linked
<1> QED BY <1>2, <1>3

\* The inductive invariant holds at the start.
LEMMA InitInv == Init => IInv
<1> SUFFICES ASSUME Init PROVE IInv
  OBVIOUS
<1> USE NshAssumption DEF Init, NoGl, NoPkt, NoObj
<1>1. TypeOK
  <2>1. st \in [Dev \cup Lower -> DevState] BY DEF DevState
  <2>2. obj \in [Obj -> ObjRec] BY DEF ObjRec, Encap
  <2>3. gl \in GlRec /\ pkt \in PktRec BY DEF GlRec, PktRec, Encap
  <2>4. key \in [Dev -> Key \cup {NoKey}] /\ nops \in 0 .. MaxOps OBVIOUS
  <2>5. \A o \in Obj : obj[o].rdev = NULL OBVIOUS
  <2>6. madcap \in BOOLEAN /\ broken \in BOOLEAN OBVIOUS
  <2> QED BY <2>1, <2>2, <2>3, <2>4, <2>5, <2>6 DEF TypeOK
<1>2. GlInv BY DEF GlInv
<1>3. PktInv BY DEF PktInv
<1>4. PathUnique /\ NoStaleEntry BY DEF PathUnique, NoStaleEntry, Linked
<1>5. PacketEntryLive /\ PacketOnPath /\ FaultsExplained
  BY DEF PacketEntryLive, PacketOnPath, FaultsExplained
<1> QED BY <1>1, <1>2, <1>3, <1>4, <1>5 DEF IInv

\* What packets do changes nothing but the packet.
LEMMA PacketsStep == IInv /\ Packets => IInv'
<1> SUFFICES ASSUME IInv, Packets PROVE IInv'
  OBVIOUS
<1> USE NshAssumption
<1>1. UNCHANGED <<madcap, st, key, obj, gl, broken, nops>>
  BY DEF Packets, XmitFind, XmitTest, XmitHeader, XmitSend, RecvStart, Recv, PacketEnd
<1>2. GlInv' /\ PathUnique' /\ NoStaleEntry'
  BY <1>1 DEF IInv, GlInv, PathUnique, NoStaleEntry, Linked
<1>3. (broken => gl.lap \/ (gl.nt # NULL /\ obj[gl.nt].late))'
  BY <1>1 DEF IInv, FaultsExplained
<1> DEFINE PInv == /\ pkt \in PktRec /\ PktInv /\ PacketEntryLive /\ PacketOnPath
                   /\ pkt.ph = "fault" =>
                        LET o == obj[pkt.nt]
                        IN  o.late \/ o.lower = Unset \/ (madcap /\ o.rdev # NULL)
<1>4. PInv'
  <2> USE <1>1 DEF IInv, TypeOK, PktRec, ObjRec
  <2>1. ASSUME NEW d \in Dev, XmitFind(d) PROVE PInv'
    <3> DEFINE o == Find(key[d])
    <3>1. o \in Obj /\ obj[o].st = "linked" /\ obj[o].key = key[d] /\ st[d] # "none"
      BY <2>1, FindFact DEF XmitFind
    <3>2. ~obj[o].late /\ obj[o].lower \in Lower => st[obj[o].lower] # "none"
      BY <3>1 DEF NoStaleEntry
    <3>3. pkt' = [ph |-> "test", dev |-> d, nt |-> o, on |-> FALSE, hdr |-> NoKey,
                  out |-> NULL, rekeyed |-> FALSE]
      BY <2>1 DEF XmitFind, NoPkt
    <3> HIDE DEF o
    <3> QED BY <3>1, <3>2, <3>3 DEF PktInv, PacketEntryLive, PacketOnPath
  <2>2. CASE XmitTest
    <3>1. pkt.nt \in Obj /\ pkt.dev \in Dev /\ obj[pkt.nt].st # "free"
      BY <2>2 DEF XmitTest, PktInv, PacketEntryLive
    <3>2. CASE /\ pkt' = [pkt EXCEPT !.ph = "fault"]
               /\ madcap /\ (obj[pkt.nt].rdev # NULL \/ ~Sound(pkt.nt))
      <4>1. pkt' \in PktRec BY <3>2
      <4>2. PktInv' /\ PacketEntryLive' /\ PacketOnPath'
        BY <3>1, <3>2 DEF PktInv, PacketEntryLive, PacketOnPath
      <4>3. obj[pkt.nt].late \/ obj[pkt.nt].lower = Unset \/ (madcap /\ obj[pkt.nt].rdev # NULL)
        BY <3>1, <3>2 DEF Sound, Gone, PktInv
      <4> QED BY <4>1, <4>2, <4>3, <3>2
    <3>3. CASE /\ pkt.ph = "test"
               /\ pkt' = [pkt EXCEPT !.ph = "header", !.on = (obj[pkt.nt].lower \in MadcapDev)]
      <4> DEFINE b == obj[pkt.nt].lower \in MadcapDev
      <4>1. b \in BOOLEAN OBVIOUS
      <4>2. pkt' = [pkt EXCEPT !.ph = "header", !.on = b] BY <3>3
      <4> HIDE DEF b
      <4> QED BY <3>1, <3>3, <4>1, <4>2 DEF PktInv, PacketEntryLive, PacketOnPath
    <3>4. CASE pkt' = [pkt EXCEPT !.ph = "header"] /\ pkt.ph = "test"
      BY <3>1, <3>4 DEF PktInv, PacketEntryLive, PacketOnPath
    <3> QED
      <4>1. CASE ~madcap
        BY <2>2, <4>1, <3>4 DEF XmitTest
      <4>2. CASE madcap /\ (obj[pkt.nt].rdev # NULL \/ ~Sound(pkt.nt))
        BY <2>2, <4>2, <3>2 DEF XmitTest
      <4>3. CASE madcap /\ ~(obj[pkt.nt].rdev # NULL \/ ~Sound(pkt.nt))
        BY <2>2, <4>3, <3>3 DEF XmitTest
      <4> QED BY <4>1, <4>2, <4>3
  <2>3. CASE XmitHeader
    <3>1. pkt.ph = "header" /\ pkt.nt \in Obj /\ pkt.dev \in Dev
      BY <2>3 DEF XmitHeader, PktInv
    <3>2. PICK p \in {"recv", "send"} : pkt' = [pkt EXCEPT !.hdr = key[pkt.dev], !.ph = p]
      BY <2>3 DEF XmitHeader
    <3>3. pkt' \in PktRec BY <3>1, <3>2
    <3>4. pkt.out = NULL BY <3>1 DEF PktInv
    <3> QED BY <3>1, <3>2, <3>3, <3>4 DEF PktInv, PacketEntryLive, PacketOnPath
  <2>4. CASE XmitSend
    <3>1. pkt.ph = "send" /\ pkt.nt \in Obj /\ pkt.dev \in Dev /\ obj[pkt.nt].st # "free"
      BY <2>4 DEF XmitSend, PktInv, PacketEntryLive
    <3>2. CASE ~Sound(pkt.nt)
      <4>1. pkt' = [pkt EXCEPT !.ph = "fault"] BY <2>4, <3>2 DEF XmitSend
      <4>2. pkt' \in PktRec BY <4>1
      <4>3. PktInv' /\ PacketEntryLive' /\ PacketOnPath'
        BY <3>1, <4>1 DEF PktInv, PacketEntryLive, PacketOnPath
      <4>4. obj[pkt.nt].late \/ obj[pkt.nt].lower = Unset
        BY <3>1, <3>2 DEF Sound, Gone, PktInv
      <4> QED BY <4>1, <4>2, <4>3, <4>4
    <3>3. CASE Sound(pkt.nt)
      <4>1. pkt' = [pkt EXCEPT !.ph = "done", !.out = pkt.nt] BY <2>4, <3>3 DEF XmitSend
      <4> QED BY <3>1, <4>1 DEF PktInv, PacketEntryLive, PacketOnPath
    <3> QED BY <3>2, <3>3
  <2>5. ASSUME NEW k \in Key, RecvStart(k) PROVE PInv'
    BY <2>5 DEF RecvStart, NoPkt, PktInv, PacketEntryLive, PacketOnPath
  <2>6. CASE Recv
    <3> DEFINE o == IF pkt.hdr \in SiZero THEN NULL ELSE Find(pkt.hdr)
    <3>1. CASE o = NULL \/ obj[o].rdev = NULL
      <4>1. pkt' = [pkt EXCEPT !.ph = "done"] BY <2>6, <3>1 DEF Recv
      <4> QED BY <4>1 DEF PktInv, PacketEntryLive, PacketOnPath
    <3>2. CASE ~(o = NULL \/ obj[o].rdev = NULL)
      <4>1. o \in Obj /\ obj[o].st = "linked" /\ obj[o].key = pkt.hdr /\ obj[o].rdev \in Dev
        BY <3>2, FindFact
      <4>2. CASE st[obj[o].rdev] = "none"
        <5>1. pkt' = [pkt EXCEPT !.ph = "fault", !.nt = o, !.out = o]
          BY <2>6, <3>2, <4>2 DEF Recv
        <5>2. obj[o].late BY <4>1, <4>2 DEF NoStaleEntry
        <5> HIDE DEF o
        <5> QED BY <4>1, <5>1, <5>2 DEF PktInv, PacketEntryLive, PacketOnPath
      <4>3. CASE st[obj[o].rdev] # "none"
        <5>1. pkt' = [pkt EXCEPT !.ph = "done", !.nt = o, !.out = o]
          BY <2>6, <3>2, <4>3 DEF Recv
        <5>2. obj[o].lower \notin Lower \/ obj[o].late \/ st[obj[o].lower] # "none"
          BY <4>1 DEF NoStaleEntry
        <5> HIDE DEF o
        <5> QED BY <4>1, <5>1, <5>2 DEF PktInv, PacketEntryLive, PacketOnPath
      <4> QED BY <4>2, <4>3
    <3> QED BY <3>1, <3>2
  <2>7. CASE PacketEnd
    BY <2>7 DEF PacketEnd, NoPkt, PktInv, PacketEntryLive, PacketOnPath
  <2> QED BY <2>1, <2>2, <2>3, <2>4, <2>5, <2>6, <2>7 DEF Packets
<1>5. TypeOK'
  BY <1>1, <1>4 DEF IInv, TypeOK
<1> QED BY <1>2, <1>3, <1>4, <1>5 DEF IInv, FaultsExplained

\* nsh_delete_table changes the state of the entries it is given and nothing else.
LEMMA DeleteFact ==
    ASSUME TypeOK, NEW S \in SUBSET Obj
    PROVE  /\ Delete(S) \in [Obj -> ObjRec]
           /\ \A o \in Obj :
                /\ Delete(S)[o].st = IF o \in S THEN "dead" ELSE obj[o].st
                /\ Delete(S)[o].key = obj[o].key
                /\ Delete(S)[o].encap = obj[o].encap
                /\ Delete(S)[o].rdev = obj[o].rdev
                /\ Delete(S)[o].lower = obj[o].lower
                /\ Delete(S)[o].late = obj[o].late
<1>1. obj \in [Obj -> ObjRec] BY DEF TypeOK
<1>2. \A o \in Obj : /\ [obj[o] EXCEPT !.st = "dead"] \in ObjRec
                     /\ [obj[o] EXCEPT !.st = "dead"].st = "dead"
                     /\ [obj[o] EXCEPT !.st = "dead"].key = obj[o].key
                     /\ [obj[o] EXCEPT !.st = "dead"].encap = obj[o].encap
                     /\ [obj[o] EXCEPT !.st = "dead"].rdev = obj[o].rdev
                     /\ [obj[o] EXCEPT !.st = "dead"].lower = obj[o].lower
                     /\ [obj[o] EXCEPT !.st = "dead"].late = obj[o].late
  BY <1>1 DEF ObjRec
<1> QED BY <1>1, <1>2 DEF Delete

\* What rtnl and commands keep of a packet: its entry stays in memory and keeps
\* its contents, and the devices it uses are not freed.
LEMMA PacketKept ==
    ASSUME IInv, pkt' = pkt, madcap' = madcap, key' = key, TypeOK',
           pkt # NoPkt =>
             /\ \A o \in Obj :
                  obj[o].st # "free" =>
                    /\ obj'[o].st # "free"
                    /\ obj'[o].key = obj[o].key /\ obj'[o].rdev = obj[o].rdev
                    /\ obj'[o].lower = obj[o].lower /\ obj'[o].late = obj[o].late
             /\ \A x \in Dev \cup Lower : st[x] # "none" => st'[x] # "none"
    PROVE  /\ PktInv' /\ PacketEntryLive' /\ PacketOnPath'
           /\ pkt'.ph = "fault" =>
                LET o == obj'[pkt'.nt]
                IN  o.late \/ o.lower = Unset \/ (madcap' /\ o.rdev # NULL)
<1> USE NshAssumption
<1>1. CASE pkt = NoPkt
  BY <1>1 DEF NoPkt, PktInv, PacketEntryLive, PacketOnPath
<1>2. CASE pkt # NoPkt
  <2>1. PacketEntryLive' BY <1>2 DEF IInv, PacketEntryLive
  <2>2. \A o \in {pkt.nt, pkt.out} \cap Obj :
          /\ obj[o].st # "free" /\ obj'[o].key = obj[o].key /\ obj'[o].rdev = obj[o].rdev
          /\ obj'[o].lower = obj[o].lower /\ obj'[o].late = obj[o].late
    BY <1>2 DEF IInv, PacketEntryLive
  <2>3. pkt \in PktRec BY DEF IInv, TypeOK
  <2>4. pkt.nt \in Obj \cup {NULL} /\ pkt.out \in Obj \cup {NULL} /\ pkt.dev \in Dev \cup {NULL}
    BY <2>3 DEF PktRec
  <2>5. PacketOnPath' BY <2>2, <2>4 DEF IInv, PacketOnPath
  <2>6. PktInv' BY <1>2, <2>2, <2>4 DEF IInv, PktInv
  <2>7. pkt'.ph = "fault" =>
          LET o == obj'[pkt'.nt]
          IN  o.late \/ o.lower = Unset \/ (madcap' /\ o.rdev # NULL)
    BY <2>2, <2>4 DEF IInv, PktInv, FaultsExplained
  <2> QED BY <2>1, <2>5, <2>6, <2>7
<1> QED BY <1>1, <1>2

\* A step of the rtnl thread that deletes entries S and moves the device x to the
\* state s: S holds every entry that leads to x when x may not be found any more.
LEMMA Removal ==
    ASSUME IInv, ~broken, NEW x \in Dev \cup Lower, NEW S \in SUBSET Obj, NEW s \in DevState,
           s # "none", st' = [st EXCEPT ![x] = s], obj' = Delete(S), Lap(x, S),
           S \subseteq {o \in Obj : obj[o].st = "linked"},
           {o \in Obj : obj[o].st = "linked" /\ x \in {obj[o].rdev, obj[o].lower}} \subseteq S,
           nops' \in 0 .. MaxOps, UNCHANGED <<madcap, key, pkt, broken>>
    PROVE  IInv'
<1> USE NshAssumption
<1>1. TypeOK BY DEF IInv
<1>2. /\ obj' \in [Obj -> ObjRec]
      /\ \A o \in Obj :
           /\ obj'[o].st = IF o \in S THEN "dead" ELSE obj[o].st
           /\ obj'[o].key = obj[o].key /\ obj'[o].encap = obj[o].encap
           /\ obj'[o].rdev = obj[o].rdev /\ obj'[o].lower = obj[o].lower
           /\ obj'[o].late = obj[o].late
  BY <1>1, DeleteFact
<1>3. gl \in GlRec BY <1>1 DEF TypeOK
<1>4. /\ gl' \in GlRec /\ gl'.op = gl.op /\ gl'.key = gl.key /\ gl'.encap = gl.encap
      /\ gl'.dev = gl.dev /\ gl'.nt = gl.nt
  BY <1>3 DEF Lap, GlRec
<1>5. ~gl'.lap => ~gl.lap /\ gl.dev # x /\ gl.nt \notin S
  BY <1>3 DEF Lap, GlRec
<1>6. st \in [Dev \cup Lower -> DevState] BY <1>1 DEF TypeOK
<1>7. TypeOK' BY <1>1, <1>2, <1>4, <1>6 DEF TypeOK
<1>8. \A k : Linked(k)' \subseteq Linked(k) BY <1>2 DEF Linked
<1>9. PathUnique' BY <1>8 DEF IInv, PathUnique
<1>10. GlInv' 
  <2>1. {o \in Obj : obj'[o].st = "linked" /\ obj'[o].key = gl'.key}
          \subseteq {o \in Obj : obj[o].st = "linked" /\ obj[o].key = gl.key}
    BY <1>2, <1>4
  <2>2. ~gl'.lap => /\ gl'.dev \in Dev => st'[gl'.dev] = "up"
                    /\ gl'.dev \in Lower => st'[gl'.dev] \in {"up", "unlisted"}
                    /\ gl'.nt \in Obj => obj'[gl'.nt].st = "linked"
    BY <1>2, <1>4, <1>5, <1>6 DEF IInv, GlInv
  <2> QED BY <1>4, <2>1, <2>2 DEF IInv, GlInv, Linked
<1>11. NoStaleEntry'
  <2> SUFFICES ASSUME NEW o \in Obj, obj'[o].st = "linked", ~obj'[o].late,
                      NEW y \in {obj'[o].rdev, obj'[o].lower} \cap (Dev \cup Lower)
               PROVE  st'[y] \in IF y \in Dev THEN {"up"} ELSE {"up", "unlisted"}
    BY DEF NoStaleEntry
  <2>1. o \notin S /\ obj[o].st = "linked" /\ ~obj[o].late BY <1>2
  <2>2. y \in {obj[o].rdev, obj[o].lower} BY <1>2
  <2>3. y # x BY <2>1, <2>2
  <2> QED BY <1>6, <2>1, <2>2, <2>3 DEF IInv, NoStaleEntry
<1>12. /\ PktInv' /\ PacketEntryLive' /\ PacketOnPath'
       /\ pkt'.ph = "fault" =>
            LET o == obj'[pkt'.nt]
            IN  o.late \/ o.lower = Unset \/ (madcap' /\ o.rdev # NULL)
  <2>1. \A o \in Obj : obj[o].st # "free" => obj'[o].st # "free" BY <1>2
  <2>2. \A y \in Dev \cup Lower : st[y] # "none" => st'[y] # "none" BY <1>6
  <2> QED BY <1>2, <1>7, <2>1, <2>2, PacketKept
<1> QED BY <1>7, <1>9, <1>10, <1>11, <1>12 DEF IInv, FaultsExplained

\* The rtnl thread.
LEMMA LinksStep == IInv /\ ~broken /\ Links => IInv'
<1> SUFFICES ASSUME IInv, ~broken, Links PROVE IInv'
  OBVIOUS
<1> USE NshAssumption
<1>1. TypeOK /\ st \in [Dev \cup Lower -> DevState] /\ nops \in 0 .. MaxOps
  BY DEF IInv, TypeOK
<1>2. Count => nops' \in 0 .. MaxOps BY <1>1 DEF Count
<1>3. ASSUME NEW d \in Dev, Dellink(d) PROVE IInv'
  <2> DEFINE S == {o \in Obj : obj[o].st = "linked" /\ obj[o].rdev = d}
  <2>1. \A o \in Obj : obj[o].lower # d BY <1>1 DEF TypeOK, ObjRec
  <2>2. {o \in Obj : obj[o].st = "linked" /\ d \in {obj[o].rdev, obj[o].lower}} \subseteq S
    BY <2>1
  <2>3. /\ st' = [st EXCEPT ![d] = "purged"] /\ obj' = Delete(S) /\ Lap(d, S)
        /\ nops' \in 0 .. MaxOps /\ UNCHANGED <<madcap, key, pkt, broken>>
    BY <1>2, <1>3 DEF Dellink
  <2>4. S \in SUBSET Obj /\ S \subseteq {o \in Obj : obj[o].st = "linked"} OBVIOUS
  <2>5. "purged" \in DevState /\ "purged" # "none" BY DEF DevState
  <2> HIDE DEF S
  <2> QED BY <2>2, <2>3, <2>4, <2>5, Removal
<1>4. ASSUME NEW l \in Lower, LowerNotify(l) PROVE IInv'
  <2> DEFINE S == {o \in Obj : obj[o].st = "linked" /\ obj[o].lower = l}
  <2>1. \A o \in Obj : obj[o].rdev # l BY <1>1 DEF TypeOK, ObjRec
  <2>2. {o \in Obj : obj[o].st = "linked" /\ l \in {obj[o].rdev, obj[o].lower}} \subseteq S
    BY <2>1
  <2>3. /\ st' = [st EXCEPT ![l] = "purged"] /\ obj' = Delete(S) /\ Lap(l, S)
        /\ nops' \in 0 .. MaxOps /\ UNCHANGED <<madcap, key, pkt, broken>>
    BY <1>1, <1>4 DEF LowerNotify
  <2>4. S \in SUBSET Obj /\ S \subseteq {o \in Obj : obj[o].st = "linked"} OBVIOUS
  <2>5. "purged" \in DevState /\ "purged" # "none" BY DEF DevState
  <2> HIDE DEF S
  <2> QED BY <2>2, <2>3, <2>4, <2>5, Removal
<1>5. ASSUME NEW x \in Dev \cup Lower, NEW s \in DevState, UNCHANGED <<madcap, obj, gl, pkt, broken>>,
             st' = [st EXCEPT ![x] = s], nops' \in 0 .. MaxOps,
             key' \in [Dev -> Key \cup {NoKey}], \A y \in Dev \ {x} : key'[y] = key[y],
             x \in Dev => st[x] # "up" /\ (key' # key => st[x] = "none"),
             x \in Dev => gl.dev # x \/ s # "up" ,
             x \in Lower => key' = key /\ (s \in {"up", "unlisted"} \/ st[x] \notin {"up", "unlisted"}),
             s = "none" => pkt = NoPkt
      PROVE  IInv'
  <2>1. TypeOK' BY <1>1, <1>5 DEF TypeOK
  <2>2. PathUnique' BY <1>5 DEF IInv, PathUnique, Linked
  <2>3. GlInv'
    <3>1. gl \in GlRec BY <1>1 DEF TypeOK
    <3>2. ~gl.lap => /\ gl.dev \in Dev => st'[gl.dev] = "up"
                     /\ gl.dev \in Lower => st'[gl.dev] \in {"up", "unlisted"}
      BY <1>1, <1>5 DEF IInv, GlInv
    <3> QED BY <1>5, <3>2 DEF IInv, GlInv, Linked
  <2>4. NoStaleEntry'
    BY <1>1, <1>5 DEF IInv, NoStaleEntry
  <2>5. /\ PktInv' /\ PacketEntryLive' /\ PacketOnPath'
        /\ pkt'.ph = "fault" =>
             LET o == obj'[pkt'.nt]
             IN  o.late \/ o.lower = Unset \/ (madcap' /\ o.rdev # NULL)
    <3>1. pkt # NoPkt => \A y \in Dev \cup Lower : st[y] # "none" => st'[y] # "none"
      BY <1>1, <1>5
    <3>2. CASE key' = key BY <1>5, <2>1, <3>1, <3>2, PacketKept
    <3>3. CASE key' # key
      <4>1. x \in Dev /\ st[x] = "none" BY <1>5, <3>3
      <4>2. pkt \in PktRec BY <1>1 DEF TypeOK
      <4>3. pkt.dev \in Dev => pkt.dev # x BY <4>1 DEF IInv, PktInv
      <4>4. pkt.ph \in {"test", "header"} => key'[pkt.dev] = key[pkt.dev]
        BY <1>5, <4>3 DEF IInv, PktInv
      <4>5. PacketEntryLive' /\ PacketOnPath' BY <1>5 DEF IInv, PacketEntryLive, PacketOnPath
      <4>6. PktInv'
        <5>1. CASE pkt = NoPkt BY <1>5, <5>1 DEF NoPkt, PktInv
        <5>2. CASE pkt # NoPkt
          <6>1. pkt.dev \in Dev => st'[pkt.dev] # "none" BY <3>1, <5>2 DEF IInv, PktInv
          <6>2. pkt.nt \in Obj /\ ~obj[pkt.nt].late /\ obj[pkt.nt].lower \in Lower =>
                  st'[obj[pkt.nt].lower] # "none"
            BY <3>1, <5>2 DEF IInv, PktInv
          <6> QED BY <1>5, <4>4, <6>1, <6>2 DEF IInv, PktInv
        <5> QED BY <5>1, <5>2
      <4> QED BY <1>5, <4>5, <4>6 DEF IInv, FaultsExplained
    <3> QED BY <3>2, <3>3
  <2> QED BY <1>5, <2>1, <2>2, <2>3, <2>4, <2>5 DEF IInv, FaultsExplained
<1>6. ASSUME NEW d \in Dev, NEW k \in Key \cup {NoKey}, Newlink(d, k) PROVE IInv'
  <2>1. key \in [Dev -> Key \cup {NoKey}] BY <1>1 DEF TypeOK
  <2>2. "up" \in DevState BY DEF DevState
  <2>3. /\ st' = [st EXCEPT ![d] = "up"] /\ nops' \in 0 .. MaxOps
        /\ st[d] = "none" /\ gl.dev # d /\ d \notin Lower
        /\ UNCHANGED <<madcap, obj, gl, pkt, broken>>
    BY <1>2, <1>6 DEF Newlink
  <2>4. key' \in [Dev -> Key \cup {NoKey}] /\ \A y \in Dev \ {d} : key'[y] = key[y]
    BY <1>6, <2>1 DEF Newlink
  <2> QED BY <1>5, <2>2, <2>3, <2>4
<1>7. ASSUME NEW d \in Dev, DellinkUnlist(d) PROVE IInv'
  <2>1. key \in [Dev -> Key \cup {NoKey}] BY <1>1 DEF TypeOK
  <2>2. "unlisted" \in DevState BY DEF DevState
  <2>3. /\ st' = [st EXCEPT ![d] = "unlisted"] /\ nops' \in 0 .. MaxOps
        /\ st[d] = "purged" /\ d \notin Lower
        /\ key' = key /\ UNCHANGED <<madcap, obj, gl, pkt, broken>>
    BY <1>1, <1>7 DEF DellinkUnlist
  <2> QED BY <1>5, <2>1, <2>2, <2>3
<1>8. ASSUME NEW l \in Lower, LowerUnlist(l) PROVE IInv'
  <2>1. key \in [Dev -> Key \cup {NoKey}] BY <1>1 DEF TypeOK
  <2>2. "unlisted" \in DevState BY DEF DevState
  <2>3. /\ st' = [st EXCEPT ![l] = "unlisted"] /\ nops' \in 0 .. MaxOps
        /\ l \notin Dev
        /\ key' = key /\ UNCHANGED <<madcap, obj, gl, pkt, broken>>
    BY <1>2, <1>8 DEF LowerUnlist
  <2> QED BY <1>5, <2>1, <2>2, <2>3
<1>9. ASSUME NEW x \in Dev \cup Lower, FreeDev(x) PROVE IInv'
  <2>1. key \in [Dev -> Key \cup {NoKey}] BY <1>1 DEF TypeOK
  <2>2. "none" \in DevState BY DEF DevState
  <2>3. /\ st' = [st EXCEPT ![x] = "none"] /\ nops' \in 0 .. MaxOps /\ pkt = NoPkt
        /\ st[x] = IF x \in Dev THEN "unlisted" ELSE "purged"
        /\ key' = key /\ UNCHANGED <<madcap, obj, gl, pkt, broken>>
    BY <1>1, <1>9 DEF FreeDev
  <2> QED BY <1>5, <2>1, <2>2, <2>3
<1> QED BY <1>3, <1>4, <1>6, <1>7, <1>8, <1>9 DEF Links

\* A step that leaves devices, entries and packets as they are.
LEMMA CommandOnly ==
    ASSUME IInv, UNCHANGED <<madcap, st, key, obj, pkt>>, nops' \in 0 .. MaxOps,
           gl' \in GlRec, GlInv', broken' \in BOOLEAN,
           broken' => gl'.lap \/ (gl'.nt # NULL /\ obj[gl'.nt].late)
    PROVE  IInv'
<1>1. TypeOK' BY DEF IInv, TypeOK
<1>2. PathUnique' /\ NoStaleEntry' BY DEF IInv, PathUnique, NoStaleEntry, Linked
<1>3. PktInv' BY DEF IInv, PktInv
<1>4. PacketEntryLive' /\ PacketOnPath' BY DEF IInv, PacketEntryLive, PacketOnPath
<1>5. FaultsExplained' BY DEF IInv, FaultsExplained
<1> QED BY <1>1, <1>2, <1>3, <1>4, <1>5 DEF IInv


\* The netlink commands.
LEMMA CommandsStep == IInv /\ ~broken /\ Commands => IInv'
<1> SUFFICES ASSUME IInv, ~broken, Commands PROVE IInv'
  OBVIOUS
<1> USE NshAssumption
<1>1. TypeOK /\ GlInv /\ gl \in GlRec /\ nops \in 0 .. MaxOps /\ broken = FALSE
  BY DEF IInv, TypeOK
<1>2. Count => nops' \in 0 .. MaxOps BY <1>1 DEF Count
<1>3. gl' = NoGl => gl' \in GlRec /\ GlInv'
  BY DEF NoGl, GlRec, GlInv, Encap
<1>4. ASSUME NEW k \in Key, NEW encap \in Encap, NEW x \in Dev \cup Lower \cup {NULL},
             PathSetFind(k, encap, x)
      PROVE  IInv'
  <2>1. Linked(k) = {} BY <1>4, FindFact DEF PathSetFind
  <2>2. /\ x \in Dev => encap = "none" /\ st[x] \in {"up", "purged"}
        /\ x \in Lower => encap # "none" /\ st[x] = "up"
        /\ x = NULL => encap = "vxlan"
    BY <1>4 DEF PathSetFind, DstFor, Indexed, Encap
  <2> DEFINE b == IF x = NULL THEN FALSE ELSE st[x] = "purged"
  <2>3. b \in BOOLEAN /\ (~b /\ x # NULL => st[x] # "purged") OBVIOUS
  <2>4. /\ gl' = [op |-> "set", key |-> k, encap |-> encap, dev |-> x, nt |-> NULL, lap |-> b]
        /\ UNCHANGED <<madcap, st, key, obj, pkt, broken>> /\ nops' \in 0 .. MaxOps
    BY <1>2, <1>4 DEF PathSetFind
  <2> HIDE DEF b
  <2>5. gl' \in GlRec BY <2>3, <2>4 DEF GlRec
  <2>6. GlInv' BY <2>1, <2>2, <2>3, <2>4 DEF GlInv, Linked
  <2> QED BY <1>1, <2>4, <2>5, <2>6, CommandOnly
<1>5. CASE PathSetAdd
  <2>1. PICK o \in Obj, u \in {NULL, Unset} :
          /\ obj[o].st = "free"
          /\ obj' = [obj EXCEPT ![o] =
               [st |-> "linked", key |-> gl.key, encap |-> gl.encap,
                rdev |-> IF gl.encap = "none" THEN gl.dev ELSE NULL,
                lower |-> IF gl.encap = "none" THEN NULL
                          ELSE IF gl.dev = NULL THEN u ELSE gl.dev,
                late |-> gl.lap]]
    BY <1>5 DEF PathSetAdd
  <2>2. /\ gl.op = "set" /\ gl' = NoGl
        /\ UNCHANGED <<madcap, st, key, pkt, broken, nops>>
    BY <1>5 DEF PathSetAdd
  <2> DEFINE r == IF gl.encap = "none" THEN gl.dev ELSE NULL
             l == IF gl.encap = "none" THEN NULL ELSE IF gl.dev = NULL THEN u ELSE gl.dev
             new == [st |-> "linked", key |-> gl.key, encap |-> gl.encap,
                     rdev |-> r, lower |-> l, late |-> gl.lap]
  <2>3. /\ r \in Dev \cup {NULL} /\ l \in Lower \cup {NULL, Unset} /\ (r = NULL \/ l = NULL)
        /\ gl.key \in Key /\ gl.encap \in Encap /\ gl.lap \in BOOLEAN
        /\ Linked(gl.key) = {}
    BY <1>1, <2>2 DEF GlInv, GlRec
  <2>4. ~gl.lap => /\ r \in Dev => st[r] = "up"
                   /\ l \in Lower => st[l] \in {"up", "unlisted"}
    BY <1>1, <2>2 DEF GlInv
  <2> HIDE DEF r, l
  <2>5. /\ new \in ObjRec /\ new.st = "linked" /\ new.key = gl.key /\ new.rdev = r
        /\ new.lower = l /\ new.late = gl.lap
    BY <2>3 DEF ObjRec
  <2>6. obj' = [obj EXCEPT ![o] = new] BY <2>1 DEF r, l
  <2> HIDE DEF new
  <2>7. obj \in [Obj -> ObjRec] BY <1>1 DEF TypeOK
  <2>8. /\ obj'[o] = new /\ obj' \in [Obj -> ObjRec]
        /\ \A p \in Obj \ {o} : obj'[p] = obj[p]
    BY <2>5, <2>6, <2>7
  <2>9. TypeOK' BY <1>1, <1>3, <2>2, <2>3, <2>5, <2>8 DEF TypeOK
  <2>10. PathUnique'
    <3> SUFFICES ASSUME NEW k \in Key, NEW p \in Obj, NEW q \in Obj,
                        obj'[p].st = "linked", obj'[p].key = k,
                        obj'[q].st = "linked", obj'[q].key = k
                 PROVE  p = q
      BY DEF PathUnique, Linked
    <3>1. \A z \in Obj : obj[z].st = "linked" => obj[z].key # gl.key BY <2>3 DEF Linked
    <3>2. CASE p = o \/ q = o BY <2>5, <2>8, <3>1, <3>2
    <3>3. CASE p # o /\ q # o
      <4>1. p \in Linked(k) /\ q \in Linked(k) BY <2>8, <3>3 DEF Linked
      <4> QED BY <4>1 DEF IInv, PathUnique
    <3> QED BY <3>2, <3>3
  <2>11. NoStaleEntry'
    <3> SUFFICES ASSUME NEW p \in Obj, obj'[p].st = "linked", ~obj'[p].late,
                        NEW y \in {obj'[p].rdev, obj'[p].lower} \cap (Dev \cup Lower)
                 PROVE  st'[y] \in IF y \in Dev THEN {"up"} ELSE {"up", "unlisted"}
      BY DEF NoStaleEntry
    <3>1. CASE p = o BY <2>2, <2>3, <2>4, <2>5, <2>8, <3>1
    <3>2. CASE p # o BY <2>2, <2>8, <3>2 DEF IInv, NoStaleEntry
    <3> QED BY <3>1, <3>2
  <2>12. /\ PktInv' /\ PacketEntryLive' /\ PacketOnPath'
         /\ pkt'.ph = "fault" =>
              LET z == obj'[pkt'.nt]
              IN  z.late \/ z.lower = Unset \/ (madcap' /\ z.rdev # NULL)
    <3>1. \A p \in Obj : obj[p].st # "free" => obj'[p] = obj[p] BY <2>1, <2>8
    <3> QED BY <2>2, <2>9, <3>1, PacketKept
  <2> QED BY <1>1, <1>3, <2>2, <2>9, <2>10, <2>11, <2>12 DEF IInv, FaultsExplained
<1>6. CASE PathSetNoMemory
  BY <1>1, <1>3, <1>6, CommandOnly DEF PathSetNoMemory
<1>7. ASSUME NEW k \in Key, PathUnsetFind(k) PROVE IInv'
  <2>1. Find(k) \in Obj /\ obj[Find(k)].st = "linked" BY <1>7, FindFact DEF PathUnsetFind
  <2>2. /\ gl' = [op |-> "unset", key |-> NoKey, encap |-> "none", dev |-> NULL,
                  nt |-> Find(k), lap |-> FALSE]
        /\ UNCHANGED <<madcap, st, key, obj, pkt, broken>> /\ nops' \in 0 .. MaxOps
    BY <1>2, <1>7 DEF PathUnsetFind, NoGl
  <2>3. gl' \in GlRec BY <2>1, <2>2 DEF GlRec, Encap
  <2>4. GlInv' BY <2>1, <2>2 DEF GlInv
  <2> QED BY <1>1, <2>2, <2>3, <2>4, CommandOnly
<1>8. CASE PathUnsetDelete
  <2>1. gl.op = "unset" /\ gl.nt \in Obj BY <1>1, <1>8 DEF PathUnsetDelete, GlInv
  <2>2. CASE obj[gl.nt].st # "linked"
    <3>1. broken' = TRUE /\ UNCHANGED <<madcap, st, key, obj, gl, pkt, nops>>
      BY <1>8, <2>2 DEF PathUnsetDelete
    <3>2. gl.lap BY <1>1, <2>1, <2>2 DEF GlInv
    <3>3. GlInv' BY <1>1, <3>1 DEF GlInv, Linked
    <3> QED BY <1>1, <3>1, <3>2, <3>3, CommandOnly
  <2>3. CASE obj[gl.nt].st = "linked"
    <3>1. /\ obj' = Delete({gl.nt}) /\ gl' = NoGl
          /\ UNCHANGED <<madcap, st, key, pkt, broken, nops>>
      BY <1>8, <2>3 DEF PathUnsetDelete
    <3>2. /\ obj' \in [Obj -> ObjRec]
          /\ \A o \in Obj :
               /\ obj'[o].st = IF o \in {gl.nt} THEN "dead" ELSE obj[o].st
               /\ obj'[o].key = obj[o].key /\ obj'[o].rdev = obj[o].rdev
               /\ obj'[o].lower = obj[o].lower /\ obj'[o].late = obj[o].late
      BY <1>1, <2>1, <3>1, DeleteFact
    <3>3. TypeOK' BY <1>1, <1>3, <3>1, <3>2 DEF TypeOK
    <3>4. PathUnique' BY <3>2 DEF IInv, PathUnique, Linked
    <3>5. NoStaleEntry' BY <3>1, <3>2 DEF IInv, NoStaleEntry
    <3>6. /\ PktInv' /\ PacketEntryLive' /\ PacketOnPath'
          /\ pkt'.ph = "fault" =>
               LET z == obj'[pkt'.nt]
               IN  z.late \/ z.lower = Unset \/ (madcap' /\ z.rdev # NULL)
      <4>1. \A o \in Obj : obj[o].st # "free" => obj'[o].st # "free" BY <3>2
      <4> QED BY <3>1, <3>2, <3>3, <4>1, PacketKept
    <3> QED BY <1>1, <1>3, <3>1, <3>3, <3>4, <3>5, <3>6 DEF IInv, FaultsExplained
  <2> QED BY <2>2, <2>3
<1>9. ASSUME NEW d \in Dev, NEW k \in Key \cup {NoKey}, DevPathFind(d, k) PROVE IInv'
  <2> DEFINE n == IF k = NoKey THEN NULL ELSE Find(k)
             b == st[d] = "purged"
  <2>1. n \in Obj \cup {NULL} /\ (n \in Obj => obj[n].st = "linked")
    BY FindFact
  <2>2. b \in BOOLEAN /\ (~b => st[d] = "up")
    BY <1>9 DEF DevPathFind, Indexed
  <2>3. /\ gl' = [op |-> "dev", key |-> k, encap |-> "none", dev |-> d, nt |-> n, lap |-> b]
        /\ UNCHANGED <<madcap, st, key, obj, pkt, broken>> /\ nops' \in 0 .. MaxOps
    BY <1>2, <1>9 DEF DevPathFind
  <2> HIDE DEF n, b
  <2>4. gl' \in GlRec BY <2>1, <2>2, <2>3 DEF GlRec, Encap
  <2>5. GlInv' BY <2>1, <2>2, <2>3 DEF GlInv
  <2> QED BY <1>1, <2>3, <2>4, <2>5, CommandOnly
<1>10. CASE DevPathStore
  <2>1. gl.op = "dev" /\ gl.dev \in Dev BY <1>1, <1>10 DEF DevPathStore, GlInv
  <2>2. gl.nt \in Obj \cup {NULL} /\ gl.key \in Key \cup {NoKey} BY <1>1 DEF GlRec
  <2>3. CASE ReadsFreed
    <3>1. broken' = TRUE /\ UNCHANGED <<madcap, st, key, obj, gl, pkt, nops>>
      BY <1>10, <2>3 DEF DevPathStore
    <3>2. ASSUME ~gl.lap PROVE gl.nt # NULL /\ obj[gl.nt].late
      <4>1. st[gl.dev] = "up" /\ (gl.nt \in Obj => obj[gl.nt].st = "linked")
        BY <1>1, <2>1, <3>2 DEF GlInv
      <4>2. gl.nt # NULL /\ Gone(gl.nt) BY <2>2, <2>3, <4>1 DEF ReadsFreed
      <4>3. gl.nt \in Obj /\ obj[gl.nt].lower \in Lower /\ st[obj[gl.nt].lower] = "none"
        BY <2>2, <4>1, <4>2 DEF Gone
      <4> QED BY <4>1, <4>2, <4>3 DEF IInv, NoStaleEntry
    <3>3. GlInv' BY <1>1, <3>1 DEF GlInv, Linked
    <3> QED BY <1>1, <3>1, <3>2, <3>3, CommandOnly
  <2>4. CASE ~ReadsFreed
    <3>1. /\ key' = [key EXCEPT ![gl.dev] = gl.key] /\ gl' = NoGl
          /\ pkt' = IF pkt.dev = gl.dev THEN [pkt EXCEPT !.rekeyed = TRUE] ELSE pkt
          /\ UNCHANGED <<madcap, st, obj, broken, nops>>
      BY <1>10, <2>4 DEF DevPathStore
    <3>2. pkt \in PktRec /\ key \in [Dev -> Key \cup {NoKey}] BY <1>1 DEF TypeOK
    <3>3. /\ pkt' \in PktRec /\ pkt'.ph = pkt.ph /\ pkt'.dev = pkt.dev /\ pkt'.nt = pkt.nt
          /\ pkt'.hdr = pkt.hdr /\ pkt'.out = pkt.out
          /\ ~pkt'.rekeyed => ~pkt.rekeyed /\ pkt.dev # gl.dev
      BY <3>1, <3>2 DEF PktRec
    <3>4. TypeOK' BY <1>1, <1>3, <2>1, <2>2, <3>1, <3>2, <3>3 DEF TypeOK
    <3>5. PathUnique' /\ NoStaleEntry' BY <3>1 DEF IInv, PathUnique, NoStaleEntry, Linked
    <3>6. PacketEntryLive' /\ PacketOnPath'
      BY <3>1, <3>3 DEF IInv, PacketEntryLive, PacketOnPath
    <3>7. PktInv'
      <4>1. pkt.ph \in {"test", "header"} /\ ~pkt'.rekeyed => key'[pkt.dev] = key[pkt.dev]
        BY <3>1, <3>2, <3>3 DEF IInv, PktInv
      <4> QED BY <3>1, <3>3, <4>1 DEF IInv, PktInv
    <3>8. FaultsExplained' BY <1>1, <3>1, <3>3 DEF IInv, FaultsExplained
    <3> QED BY <1>3, <3>1, <3>4, <3>5, <3>6, <3>7, <3>8 DEF IInv
  <2> QED BY <2>3, <2>4
<1> QED BY <1>4, <1>5, <1>6, <1>7, <1>8, <1>9, <1>10 DEF Commands

\* nsh_free_table runs when no packet is on its way.
LEMMA FreeTableStep == ASSUME NEW f \in Obj PROVE IInv /\ ~broken /\ FreeTable(f) => IInv'
<1> SUFFICES ASSUME IInv, ~broken, FreeTable(f) PROVE IInv'
  OBVIOUS
<1> USE NshAssumption
<1>1. /\ TypeOK /\ GlInv /\ pkt = NoPkt /\ obj[f].st = "dead"
      /\ obj' = [obj EXCEPT ![f] = NoObj]
      /\ UNCHANGED <<madcap, st, key, gl, pkt, broken, nops>>
  BY DEF IInv, FreeTable
<1>2. NoObj \in ObjRec /\ NoObj.st = "free" /\ NoObj.rdev = NULL BY DEF NoObj, ObjRec, Encap
<1>3. obj \in [Obj -> ObjRec] BY <1>1 DEF TypeOK
<1>4. /\ obj' \in [Obj -> ObjRec] /\ obj'[f] = NoObj
      /\ \A o \in Obj \ {f} : obj'[o] = obj[o]
  BY <1>1, <1>2, <1>3
<1>5. TypeOK' BY <1>1, <1>2, <1>4 DEF TypeOK
<1>6. \A o \in Obj : obj'[o].st = "linked" => obj'[o] = obj[o] BY <1>2, <1>4
<1>7. PathUnique' BY <1>6 DEF IInv, PathUnique, Linked
<1>8. NoStaleEntry' BY <1>1, <1>6 DEF IInv, NoStaleEntry
<1>9. GlInv'
  <2>1. {o \in Obj : obj'[o].st = "linked" /\ obj'[o].key = gl.key}
          \subseteq {o \in Obj : obj[o].st = "linked" /\ obj[o].key = gl.key}
    BY <1>6
  <2>2. ~gl.lap /\ gl.nt \in Obj => gl.nt # f BY <1>1 DEF GlInv
  <2> QED BY <1>1, <1>4, <2>1, <2>2 DEF GlInv, Linked
<1>10. /\ PktInv' /\ PacketEntryLive' /\ PacketOnPath'
       /\ pkt'.ph = "fault" =>
            LET z == obj'[pkt'.nt]
            IN  z.late \/ z.lower = Unset \/ (madcap' /\ z.rdev # NULL)
  BY <1>1, <1>5, PacketKept
<1> QED BY <1>1, <1>5, <1>7, <1>8, <1>9, <1>10 DEF IInv, FaultsExplained

\* Every step keeps the inductive invariant.
LEMMA StepInv == IInv /\ [Next]_vars => IInv'
<1> SUFFICES ASSUME IInv, [Next]_vars PROVE IInv'
  OBVIOUS
<1>1. CASE Next
  BY <1>1, LinksStep, CommandsStep, PacketsStep, FreeTableStep DEF Next
<1>2. CASE UNCHANGED vars
  <2>1. gl' \in GlRec /\ broken' \in BOOLEAN /\ nops' \in 0 .. MaxOps
    BY <1>2 DEF vars, IInv, TypeOK
  <2>2. GlInv' BY <1>2 DEF vars, IInv, GlInv, Linked
  <2>3. broken' => gl'.lap \/ (gl'.nt # NULL /\ obj[gl'.nt].late)
    BY <1>2 DEF vars, IInv, FaultsExplained
  <2> QED BY <1>2, <2>1, <2>2, <2>3, CommandOnly DEF vars
<1> QED BY <1>1, <1>2

\* The inductive invariant holds in every reachable state.
LEMMA Inductive == Spec => []IInv
<1> QED BY InitInv, StepInv, PTL DEF Spec

\* Devices, entries, command and packet keep their types, and an entry leads to an
\* nsh device or to a remote node, never to both.
THEOREM TypeCorrect == Spec => []TypeOK
<1>1. IInv => TypeOK BY DEF IInv
<1> QED BY <1>1, Inductive, PTL

\* The path table never holds two entries of a path, although the command looks
\* the path up, is overtaken by rtnl, and adds the entry later.
THEOREM OnePerPath == Spec => []PathUnique
<1>1. IInv => PathUnique BY DEF IInv
<1> QED BY <1>1, Inductive, PTL

\* After nsh_dellink, and after the notifier for a lower device, no entry leads to
\* the device, unless the removal overlapped the command that set the path.
THEOREM RemovalsReachTable == Spec => []NoStaleEntry
<1>1. IInv => NoStaleEntry BY DEF IInv
<1> QED BY <1>1, Inductive, PTL

\* A packet holds no freed entry, whoever deleted it.
THEOREM EntriesOutlivePackets == Spec => []PacketEntryLive
<1>1. IInv => PacketEntryLive BY DEF IInv
<1> QED BY <1>1, Inductive, PTL

\* A packet goes where the path in its header leads, unless its device was given
\* another path while nsh_xmit worked on it.
THEOREM PacketsFollowHeader == Spec => []PacketOnPath
<1>1. IInv => PacketOnPath BY DEF IInv
<1> QED BY <1>1, Inductive, PTL

\* The bad pointers listed at FaultsExplained are the only ones.
THEOREM NoOtherFault == Spec => []FaultsExplained
<1>1. IInv => FaultsExplained BY DEF IInv
<1> QED BY <1>1, Inductive, PTL
==============================================================================
