--------------------------- MODULE MCResourceLease ---------------------------
(***************************************************************************)
(* Instances of ResourceLease for TLC, and its properties.                 *)
(***************************************************************************)
EXTENDS ResourceLease, TLC

CONSTANTS c1, c2, c3, n1, n2, g1, g2

MCCalls == {c1, c2, c3}
MCNumbers == {n1, n2}
MCGateways == {g1, g2}

(* One number carries a single call, the other has no limit of its own. *)
MCNumberMax == n1 :> 1 @@ n2 :> 0

(* Trunk g1 has room for two of the three calls, g2 has no limit. *)
MCTrunkMax == g1 :> 2 @@ g2 :> 0

Symmetry == Permutations(MCCalls)
=============================================================================
