---------------------------- MODULE MCInterNode ----------------------------
(* A 180 and a 200 of one INVITE, and a message outside it.                 *)
EXTENDS InterNode

CONSTANTS ringing, answer, bye
============================================================================
