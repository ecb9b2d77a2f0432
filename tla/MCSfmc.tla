-------------------------------- MODULE MCSfmc --------------------------------
(***************************************************************************)
(* Two addresses h and g on a connected network, g also the gateway of a   *)
(* default route; h is the locator, reached through any of three prefixes. *)
(***************************************************************************)
EXTENDS Sfmc, TLC

CONSTANTS h, g, any, net, ph, i0, i1, c1, c2, f1

MCMatch == any :> {h, g} @@ net :> {h, g} @@ ph :> {h}
MCPlen == any :> 0 @@ net :> 24 @@ ph :> 32
MCHostPfx == h :> ph

Default == [pfx |-> any, gw |-> g, scope |-> "universe"]
Onlink == [pfx |-> net, gw |-> NULL, scope |-> "link"]
ViaHost == [pfx |-> ph, gw |-> g, scope |-> "universe"]

MCRoute == {Default, Onlink, ViaHost}

\* For the runs with fairness.
MCTwoRoutes == {Default, Onlink}

\* The configurations read the id of a packet at two places.
MCExtractId == c1 :> (f1 :> i1) @@ c2 :> (f1 :> i0)

\* No configuration: an id of no bits is 0.
NoConfig == <<>>

Symmetry == Permutations(Fib) \cup Permutations(Mac)
===============================================================================
