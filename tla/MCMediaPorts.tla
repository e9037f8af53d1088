---------------------------- MODULE MCMediaPorts ----------------------------
(* A pool of this process and one media-edge, with two ports and one. *)
EXTENDS MediaPorts, TLC

CONSTANTS here, there, h1, h2, t1

MCPorts == {h1, h2, t1}
MCNodeOf == [p \in MCPorts |-> IF p \in {h1, h2} THEN here ELSE there]

(* Calls, and the ports of a node, are alike. *)
Symmetry == Permutations(Calls) \cup Permutations({h1, h2})
=============================================================================
