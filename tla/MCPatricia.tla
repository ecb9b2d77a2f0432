------------------------------ MODULE MCPatricia ------------------------------
(***************************************************************************)
(* Addresses of three bits.  The prefixes make every case of insertion and *)
(* removal happen, at the head and below it, with and without glue.        *)
(***************************************************************************)
EXTENDS Patricia

MCPrefix == {<<>>, <<0>>, <<0, 0>>, <<0, 0, 1>>, <<0, 1, 1>>, <<1, 0, 0>>}
MCAddress == {<<0, 0, 1>>}
===============================================================================
