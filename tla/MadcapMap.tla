------------------------------ MODULE MadcapMap ------------------------------
(***************************************************************************)
(* What madcap.ko promises its drivers (src/madcap/madcap.c): a map, per   *)
(* network namespace, from at most Capacity devices to their madcap_ops.   *)
(* A device enters the map in one step and leaves it in one step.          *)
(***************************************************************************)
EXTENDS Naturals, FiniteSets

CONSTANTS Dev, Capacity

VARIABLE reg    \* the devices that have an ops entry

Init == reg = {}

Register(d) ==
    /\ d \notin reg
    /\ Cardinality(reg) < Capacity
    /\ reg' = reg \cup {d}

Unregister(d) ==
    /\ d \in reg
    /\ reg' = reg \ {d}

Next == \E d \in Dev : Register(d) \/ Unregister(d)

Spec == Init /\ [][Next]_reg
=============================================================================
