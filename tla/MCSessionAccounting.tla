------------------------- MODULE MCSessionAccounting -------------------------
(***************************************************************************)
(* Instances of SessionAccounting for TLC.                                 *)
(***************************************************************************)
EXTENDS SessionAccounting, TLC

CONSTANTS c1, c2

MCCalls == {c1, c2}

Symmetry == Permutations(MCCalls)
=============================================================================
