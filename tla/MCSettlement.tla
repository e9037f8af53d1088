---------------------------- MODULE MCSettlement ----------------------------
(***************************************************************************)
(* An instance of Settlement for TLC.                                      *)
(***************************************************************************)
EXTENDS Settlement, TLC

CONSTANTS c1, c2, k1

MCCalls == {c1, c2}

MCCreditOf == [k \in Keys |-> 1]

Symmetry == Permutations(MCCalls)
=============================================================================
