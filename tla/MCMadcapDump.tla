----------------------------- MODULE MCMadcapDump -----------------------------
(***************************************************************************)
(* Two raven devices and a NIC for two slots, two entries of key i1 and    *)
(* one of key 0.                                                           *)
(* The slots at the start are those of any history, up to the names of the *)
(* devices.                                                                *)
(***************************************************************************)
EXTENDS MadcapDump

CONSTANTS d1, d2, n1, e1, e2, e0, i1, i0, c0, c1

MCEntryId == [e \in Entry |-> IF e = e0 THEN i0 ELSE i1]
MCBucket == [i \in Id |-> IF i = i0 THEN 0 ELSE 1]
MCBefore == {<<NULL, NULL>>, <<d1, NULL>>, <<NULL, d1>>, <<d1, d2>>, <<n1, NULL>>, <<n1, d1>>, <<d1, n1>>}
MCExtractId == [c \in Cfg |-> IF c = c0 THEN i0 ELSE i1]
==============================================================================
