---------------------------- MODULE MCCallManager ----------------------------
(***************************************************************************)
(* Instances of CallManager for TLC.                                       *)
(***************************************************************************)
EXTENDS CallManager

CONSTANTS g1, g2

MCGateways == {g1, g2}

(* g1 has two endpoints, so that its numbers have a second route. *)
MCTables == {<<g1>>, <<g1, g2, g1>>}

(* No identity, one number, and a pool of numbers of both gateways. *)
MCPools == {<<>>, <<g1>>, <<g1, g2>>}

(* A direct URI has no candidate; a group of two contacts has two. *)
MCGroups == {<<>>, <<g2, g2>>}
=============================================================================
