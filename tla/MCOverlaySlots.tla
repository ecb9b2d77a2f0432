---------------------------- MODULE MCOverlaySlots ----------------------------
(* Three addresses and two slots: addresses are reused, and slots run out. *)
EXTENDS OverlaySlots, TLC

Symmetry == Permutations(Mem)
===============================================================================
