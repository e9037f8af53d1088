---------------------------- MODULE MCCdrPipeline ----------------------------
(***************************************************************************)
(* An instance of CdrPipeline for TLC.                                     *)
(***************************************************************************)
EXTENDS CdrPipeline

CONSTANTS c1, c2

MCCalls == {c1, c2}

MCPoison == {c2}
=============================================================================
