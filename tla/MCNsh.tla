--------------------------------- MODULE MCNsh ---------------------------------
(* Two nsh devices, one lower device, two paths, two table objects. *)
EXTENDS Nsh, TLC

Symm == Permutations(Dev) \cup Permutations(Obj)
===============================================================================
