---------------------------- MODULE CapacityLease ----------------------------
(***************************************************************************)
(* What the cluster-wide capacity leases promise, whatever stores them: a  *)
(* call takes the whole set of resources it needs in one step, only while  *)
(* each of them has room, keeps that set unchanged while it holds it, and  *)
(* gives it back as a whole, by its own release or because it expired.     *)
(* ResourceLease, the model of the Redis scripts of                        *)
(* services/sip-edge/src/resource_lease, implements this specification.    *)
(***************************************************************************)
EXTENDS Naturals, FiniteSets

CONSTANTS Calls,      \* Call-IDs
          Resources,  \* caller numbers and egress trunks
          Limit       \* Limit[r]: how many calls may hold r; 0 is unlimited

(* What the promise below rests on. *)
CapacityAssumption == /\ IsFiniteSet(Calls)
                      /\ Limit \in [Resources -> Nat]

VARIABLE holding      \* holding[c]: the resources call c holds now

TypeOK == holding \in [Calls -> SUBSET Resources]

Holders(r) == {c \in Calls : r \in holding[c]}

HasRoom(r) == Limit[r] > 0 => Cardinality(Holders(r)) < Limit[r]

Init == holding = [c \in Calls |-> {}]

Take(c, wanted) ==
  /\ holding[c] = {}
  /\ \A r \in wanted : HasRoom(r)
  /\ holding' = [holding EXCEPT ![c] = wanted]

(* Several leases may expire at the same instant. *)
GiveBack(dropped) ==
  holding' = [c \in Calls |-> IF c \in dropped THEN {} ELSE holding[c]]

Next == \/ \E c \in Calls, wanted \in SUBSET Resources : Take(c, wanted)
        \/ \E dropped \in SUBSET Calls : GiveBack(dropped)

Spec == Init /\ [][Next]_holding

-----------------------------------------------------------------------------
(* No number and no trunk is ever held by more calls than it allows: the   *)
(* promise "the capacity of numbers and trunks is atomic across nodes".    *)
WithinLimit ==
  \A r \in Resources : Limit[r] > 0 => Cardinality(Holders(r)) <= Limit[r]
=============================================================================
