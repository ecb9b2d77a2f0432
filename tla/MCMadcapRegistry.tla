--------------------------- MODULE MCMadcapRegistry ---------------------------
(* Three devices compete for two slots, so that registration also fails. *)
EXTENDS MadcapRegistry
===============================================================================
