--------------------------- MODULE MCLeaseLifecycle ---------------------------
(***************************************************************************)
(* Instances of LeaseLifecycle for TLC.                                    *)
(***************************************************************************)
EXTENDS LeaseLifecycle, TLC

CONSTANTS c1, c2, n1, n2, g1, g2, e1, e2

MCCalls == {c1, c2}
MCNumbers == {n1, n2}
MCGateways == {g1, g2}
MCEdges == {e1, e2}

MCEdgeOf == c1 :> e1 @@ c2 :> e2

(* One number carries a single call, the other has no limit of its own. *)
MCNumberMax == n1 :> 1 @@ n2 :> 0

(* Trunk g1 has room for one call, g2 has no limit. *)
MCTrunkMax == g1 :> 1 @@ g2 :> 0

Identity(n, routes) == [number |-> n, routes |-> routes]

(* Two numbers, the first of the unlimited trunk; no number and two trunks. *)
MCPlans == { <<Identity(n1, <<g2>>), Identity(n2, <<g1, g1>>)>>,
             <<Identity(NoNumber, <<g1, g2>>)>>,
             <<Identity(n2, <<g2>>)>> }

=============================================================================
