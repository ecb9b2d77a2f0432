------------------------------ MODULE MadcapDump ------------------------------
(***************************************************************************)
(* The multi-part dumps of madcap.ko (src/madcap/madcap.c) over the tables *)
(* of Raven.  A dump is sent one object per message: the kernel calls the  *)
(* dump function again when the reader has taken the last part.  Between   *)
(* the parts only two integers are kept (cb->args[0], cb->args[1]), and    *)
(* devices come and go and entries are added and deleted meanwhile.        *)
(*                                                                         *)
(* A part runs under the generic netlink lock, as the commands do, and is  *)
(* one step.                                                               *)
(***************************************************************************)
EXTENDS Raven

VARIABLES
    dump,      \* the dump in progress
    seen       \* history: what was there and what was sent since its start

\* filter: the device asked for, or all; a0, a1: cb->args.
Kind == {"off", "config", "entry"}
NoDump == [kind |-> "off", filter |-> NULL, a0 |-> 0, a1 |-> 0]

\* kept: there from the start on; sent; again: one was sent twice; removal,
\* addition: a device or an entry has gone or come since the start.
NothingSeen == [kept |-> {}, sent |-> {}, again |-> FALSE, removal |-> FALSE, addition |-> FALSE]

\* What is sent: a device (its configuration), or an entry of a device.
Object == Dev \cup (Dev \X Entry)

vars == <<slot, link, oc, tab, dying, under, nl, tx, over, harm, nops, dump, seen>>

TypeOK ==
    /\ RavenTypeOK
    /\ dump \in [kind : Kind, filter : Dev \cup {NULL}, a0 : Nat, a1 : 0 .. N]
    /\ seen \in [kept : SUBSET Object, sent : SUBSET Object,
                again : BOOLEAN, removal : BOOLEAN, addition : BOOLEAN]

Init == RavenInit /\ dump = NoDump /\ seen = NothingSeen

\* The slots a dump visits.
Visited(filter) == {n \in 1 .. N : slot[n] # NULL /\ filter \in {NULL, slot[n]}}

\* cnt at slot n: how many slots the loop has passed over.
Rank(n) == Cardinality({m \in Visited(dump.filter) : m < n})

\* What a dump finds.
Objects(kind, filter) ==
    IF kind = "config" THEN {slot[n] : n \in Visited(filter)}
    ELSE UNION {{slot[n]} \X Range(tab[slot[n]]) : n \in Visited(filter)}

-------------------------------------------------------------------------------
\* rtnl_dump_filter of the reader: the dump starts with its first part.
Start(kind, filter) ==
    /\ Count
    /\ dump = NoDump /\ tx = NoTx
    /\ dump' = [NoDump EXCEPT !.kind = kind, !.filter = filter]
    /\ seen' = [NothingSeen EXCEPT !.kept = Objects(kind, filter)]
    /\ UNCHANGED raven

\* One object is added to the message; the cursor stands behind it.
Send(o, a0, a1) ==
    /\ dump' = [dump EXCEPT !.a0 = a0, !.a1 = a1]
    /\ seen' = [seen EXCEPT !.sent = @ \cup {o}, !.again = @ \/ o \in seen.sent]

\* A part that is empty or fails is the last one.
Finish == dump' = NoDump /\ seen' = NothingSeen

\* Mutant: the cursor stays on the object that was sent.
Behind(k) == k

\* cnt + 1
Past(k) == k + 1

\* madcap_nl_cmd_llt_config_dump and madcap_nl_cmd_udp_config_dump: args[0]
\* counts the devices.  genl_madcap_obj_send fails for the object of a NIC that was
\* never configured, which has the id 0.
ConfigPart ==
    LET left == {n \in Visited(dump.filter) : Rank(n) >= dump.a0}
        n == Min(left)
    IN
    /\ dump.kind = "config"
    /\ nl = NoNl
    /\ IF left # {} /\ oc[slot[n]] # NULL THEN Send(slot[n], Past(Rank(n)), 0) ELSE Finish
    /\ UNCHANGED rvars

\* Mutant: "next device" does not reset args[0].
SkippedAll(i) == dump.a0

\* The entries to skip on the device of rank i: args[0] belongs to the device of
\* args[1] and is 0 for the following ones.
Skipped(i) == IF i = dump.a1 THEN dump.a0 ELSE 0

\* Mutant: "next device" does not store args[1].
DeviceForgotten(i) == 0

\* "next device": args[1].
Device(i) == i

\* madcap_nl_cmd_llt_entry_dump with raven_llt_entry_dump: the first device from
\* args[1] on that has an entry beyond the ones to skip.
EntryPart ==
    LET left == {n \in Visited(dump.filter) :
                    Rank(n) >= dump.a1 /\ Skipped(Rank(n)) < Len(tab[slot[n]])}
        n == Min(left)
        k == Skipped(Rank(n))
    IN
    /\ dump.kind = "entry"
    /\ nl = NoNl
    /\ IF left # {} THEN Send(<<slot[n], tab[slot[n]][k + 1]>>, Past(k), Device(Rank(n)))
                     ELSE Finish
    /\ UNCHANGED rvars

DumpPart == ConfigPart \/ EntryPart

\* A device the dump visits, or an entry if it sends entries, has gone or come.
Lost ==
    \E k \in {"config", dump.kind} : ~(Objects(k, dump.filter) \subseteq Objects(k, dump.filter)')

Gained ==
    \E k \in {"config", dump.kind} : ~(Objects(k, dump.filter)' \subseteq Objects(k, dump.filter))

\* Steps of the others, seen by the dump.  Packets and dumps do not read what the
\* other writes; their steps are not interleaved.
Beside(A) ==
    /\ A
    /\ UNCHANGED dump
    /\ seen' = IF dump.kind = "off" THEN seen
               ELSE [seen EXCEPT !.removal = @ \/ Lost, !.addition = @ \/ Gained]

Next ==
    \/ \E k \in {"config", "entry"}, f \in Dev \cup {NULL} : Start(k, f)
    \/ DumpPart
    \/ Beside(Links)
    \/ Beside(Commands)
    \/ Beside(Command)
    \/ Beside(Reclaim)
    \/ dump = NoDump /\ Beside(Packets)

Spec == Init /\ [][Next]_vars

\* The reader takes part after part, a command that began is carried out.
FairSpec == Spec /\ WF_vars(DumpPart) /\ WF_vars(Beside(Command))

-------------------------------------------------------------------------------
\* The device in slot n, or one before it that the dump visits, was never
\* configured.
Barred(n) == \E m \in Visited(dump.filter) : m <= n /\ oc[slot[m]] = NULL

\* A dump during which nothing was removed has sent, at its end, all that was
\* there at its start, although the cursor counts positions in lists that grow;
\* but a dump of configurations stops at the first NIC that was never configured.
DumpComplete ==
    [][dump.kind # "off" /\ dump'.kind = "off" /\ ~seen.removal
        => \A o \in seen.kept \ seen.sent :
              dump.kind = "config" /\ \E n \in Visited(dump.filter) : slot[n] = o /\ Barred(n)]_vars

\* A dump sends an object twice only if a device or an entry was added since it
\* started; removals can hide an object from it and never repeat one.
DumpOnce == seen.again => seen.addition

\* A dump ends once devices and entries stop coming.
DumpEnds == dump.kind # "off" ~> dump.kind = "off"

(***************************************************************************)
(* The inductive invariant behind DumpComplete and DumpOnce: the cursor    *)
(* divides what the dump finds.  An addition can only move what is there   *)
(* away from the part that was passed, a removal only towards it.          *)
(***************************************************************************)
\* The cursor has passed the device in slot n; its j-th entry.
PassedDevice(n) == Rank(n) < dump.a0
PassedEntry(n, j) == Rank(n) < dump.a1 \/ (Rank(n) = dump.a1 /\ j <= dump.a0)

\* Unless something was removed, what was there from the start on is there and
\* was sent if the cursor has passed it.
CompleteInv ==
    dump.kind # "off" /\ ~seen.removal =>
        /\ seen.kept \subseteq Objects(dump.kind, dump.filter)
        /\ \A n \in Visited(dump.filter) :
              /\ dump.kind = "config" /\ slot[n] \in seen.kept /\ PassedDevice(n)
                    => slot[n] \in seen.sent
              /\ \A j \in DOMAIN tab[slot[n]] :
                    LET o == <<slot[n], tab[slot[n]][j]>>
                    IN  dump.kind = "entry" /\ o \in seen.kept /\ PassedEntry(n, j)
                          => o \in seen.sent

\* Unless something was added, the cursor has passed what was sent.
OnceInv ==
    dump.kind # "off" /\ ~seen.addition =>
        \A n \in Visited(dump.filter) :
            /\ dump.kind = "config" /\ slot[n] \in seen.sent => PassedDevice(n)
            /\ \A j \in DOMAIN tab[slot[n]] :
                  dump.kind = "entry" /\ <<slot[n], tab[slot[n]][j]>> \in seen.sent
                    => PassedEntry(n, j)

IInv ==
    /\ TypeOK /\ RavenInv
    /\ dump.kind = "off" => dump = NoDump /\ seen = NothingSeen
    /\ CompleteInv /\ OnceInv /\ DumpOnce
==============================================================================
