---------------------------- MODULE LeaseLifecycle ----------------------------
(***************************************************************************)
(* The calls of the SIP edges and the capacity leases they hold: how an    *)
(* INVITE gets its lease (handlers/invite/outbound), what keeps it while   *)
(* the call fails over, and how whatever ends the call gives it back       *)
(* (resource_lease/ops.rs).  The lease store is ResourceLease; an edge     *)
(* calls its scripts over a connection that may fail before or after the   *)
(* script has run, and may crash with everything it knows of its calls.    *)
(*                                                                         *)
(* spawn_renewal_loop has no action: it lists the keys of                  *)
(* inbound_transactions, which are session ids of the edge's own making,   *)
(* and the call manager knows no call by them, so it renews nothing.       *)
(*                                                                         *)
(* A Call-ID is used once.  A call that goes out by a forced URI takes     *)
(* no lease and is left out.                                               *)
(***************************************************************************)
EXTENDS ResourceLease, Sequences

CONSTANTS
  Redirected,  \* the gateway of a call that a 3xx sent elsewhere
  Plans,       \* choices of number and routes a call may get, best first
  Edges,       \* SIP edges
  EdgeOf,      \* EdgeOf[c]: the edge call c comes in at
  MaxHangups   \* bound: releases a call may have pending when it is hung up

Identities == [number : CallerNumbers, routes : Seq(Gateways) \ {<<>>}]

ASSUME LifecycleAssumption ==
  /\ Redirected \notin Gateways
  /\ Plans \subseteq Seq(Identities) \ {<<>>}
  /\ EdgeOf \in [Calls -> Edges]
  /\ MaxHangups \in Nat

VARIABLES
  stage,    \* how far the INVITE of a call is, and whether it has a session
  plan,     \* caller_identity and candidates, then caller_identity_alternatives
  gateway,  \* the gateway of current_candidate_index
  route,    \* current_candidate_index, from 1
  over,     \* calls the call manager holds for terminated or failed
  pending,  \* pending[c]: tasks that release() has spawned and not finished
  asked,    \* when the call was admitted
  early,    \* calls hung up before their INVITE was sent
  stranded  \* calls whose lease nobody is going to release

routing == <<plan, gateway, route>>
history == <<asked, early, stranded>>
lvars == <<now, store, stage, routing, over, pending, history>>

Stages == {"new", "asking", "held", "up", "gone"}

LTypeOK ==
  /\ stage \in [Calls -> Stages]
  /\ plan \in [Calls -> Seq(Identities)]
  /\ gateway \in [Calls -> Gateways \cup {Redirected}]
  /\ route \in [Calls -> Nat \ {0}]
  /\ over \subseteq Calls /\ early \subseteq Calls /\ stranded \subseteq Calls
  /\ pending \in [Calls -> Nat] /\ asked \in [Calls -> 0..now]

LInit ==
  /\ Init
  /\ stage = [c \in Calls |-> "new"]
  /\ plan = [c \in Calls |-> <<>>]
  /\ gateway = [c \in Calls |-> Redirected]
  /\ route = [c \in Calls |-> 1]
  /\ over = {} /\ pending = [c \in Calls |-> 0]
  /\ asked = [c \in Calls |-> 0] /\ early = {} /\ stranded = {}

-----------------------------------------------------------------------------
At(c, before, after) == stage[c] = before /\ stage' = [stage EXCEPT ![c] = after]

Number(c) == Head(plan[c]).number

Routes(c) == Head(plan[c]).routes

(* What call_resources finds while the call asks: its first route. *)
LeaseOf(c) == Lease(Number(c), Head(Routes(c)))

Takes(c) == Limited(LeaseOf(c).number, LeaseOf(c).gateway)

Offered(c, choices) ==
  /\ plan' = [plan EXCEPT ![c] = choices]
  /\ gateway' = [gateway EXCEPT ![c] = Head(Head(choices).routes)]
  /\ route' = [route EXCEPT ![c] = 1]

(* handle_invite_request, up to the lease. *)
Invite(c, choices) ==
  /\ At(c, "new", "asking")
  /\ Offered(c, choices)
  /\ UNCHANGED <<now, store, over, pending, history>>

Admitted(c) ==
  /\ At(c, "asking", "held")
  /\ asked' = [asked EXCEPT ![c] = now]
  /\ UNCHANGED <<routing, over, pending, early, stranded>>

(* terminate_call_with_reason, and an error response. *)
Rejected(c) ==
  /\ At(c, "asking", "gone")
  /\ over' = over \cup {c}
  /\ UNCHANGED <<routing, pending, early>>

(* acquire() takes nothing for a call without a limit. *)
Unlimited(c) == Admitted(c) /\ ~Takes(c) /\ UNCHANGED <<now, store>>

Granted(c) == Admitted(c) /\ AcquireGranted(c, LeaseOf(c).number, LeaseOf(c).gateway)

(* NumberBusy, TrunkAtCapacity: the next number is tried, if the call is    *)
(* still in routing.                                                       *)
MayAdvance(c) == Len(plan[c]) > 1 /\ c \notin over

Refused_SendsAnyway(c) ==
  /\ Admitted(c)
  /\ AcquireRefused(c, LeaseOf(c).number, LeaseOf(c).gateway)

Refused(c) ==
  /\ stage[c] = "asking"
  /\ AcquireRefused(c, LeaseOf(c).number, LeaseOf(c).gateway)
  /\ UNCHANGED <<asked, stranded>>
  /\ IF MayAdvance(c)
     THEN Offered(c, Tail(plan[c])) /\ UNCHANGED <<stage, over, pending, early>>
     ELSE Rejected(c)

(* No connection, or it breaks before the script runs. *)
Unreachable(c) ==
  /\ Rejected(c) /\ Takes(c)
  /\ UNCHANGED <<now, store, asked, stranded>>

(* It breaks after the script has granted: the lease has no owner. *)
ReplyLost(c) ==
  /\ Rejected(c)
  /\ AcquireGranted(c, LeaseOf(c).number, LeaseOf(c).gateway)
  /\ asked' = [asked EXCEPT ![c] = now]
  /\ stranded' = stranded \cup {c}

-----------------------------------------------------------------------------
Released(c) == pending' = [pending EXCEPT ![c] = @ + 1]

(* remember_inbound_invite, and the INVITE goes out. *)
SendInvite(c) ==
  /\ At(c, "held", "up")
  /\ UNCHANGED <<now, store, routing, over, pending, history>>

MediaFails_KeepsLease(c) ==
  /\ At(c, "held", "gone")
  /\ over' = over \cup {c}
  /\ UNCHANGED <<now, store, routing, pending, history>>

(* prepare_rewritten_sdp fails after the lease was taken. *)
MediaFails(c) ==
  /\ At(c, "held", "gone")
  /\ over' = over \cup {c}
  /\ Released(c)
  /\ UNCHANGED <<now, store, routing, history>>

(* 408 and 5xx with a route left, in whatever state the call is: it goes on *)
(* with the lease it has.                                                  *)
FailsOver(c) ==
  /\ stage[c] = "up"
  /\ gateway[c] # Redirected
  /\ route[c] < Len(Routes(c))
  /\ route' = [route EXCEPT ![c] = @ + 1]
  /\ gateway' = [gateway EXCEPT ![c] = Routes(c)[route[c] + 1]]
  /\ over' = over \ {c}

Failover_Releases(c) ==
  /\ FailsOver(c)
  /\ Released(c)
  /\ UNCHANGED <<now, store, stage, plan, history>>

Failover(c) ==
  /\ FailsOver(c)
  /\ UNCHANGED <<now, store, stage, plan, pending, history>>

(* 3xx with a Contact, in whatever state the call is. *)
Redirect(c) ==
  /\ stage[c] = "up"
  /\ gateway' = [gateway EXCEPT ![c] = Redirected]
  /\ over' = over \ {c}
  /\ UNCHANGED <<now, store, stage, plan, route, pending, history>>

-----------------------------------------------------------------------------
Ends(c) == At(c, "up", "gone") /\ over' = over \cup {c}

(* A failure response that ends the call, handle_failed_state; and BYE or   *)
(* CANCEL, settle_completed_call.                                          *)
Finish(c) ==
  /\ c \notin over
  /\ Ends(c) /\ Released(c)
  /\ UNCHANGED <<now, store, routing, history>>

(* BYE or CANCEL of a call that was hung up before its INVITE went out:     *)
(* handle_inbound_termination fails, and only the session is removed.      *)
FinishEnded(c) ==
  /\ c \in over
  /\ Ends(c)
  /\ stranded' = stranded \cup {c}
  /\ UNCHANGED <<now, store, routing, pending, asked, early>>

(* The session watchdog and the operator release in any case. *)
ForceEnd(c) ==
  /\ Ends(c) /\ Released(c)
  /\ UNCHANGED <<now, store, routing, history>>

(* finalize_vci_hangup: of a session, of a call whose INVITE is still being *)
(* worked on, which is not stopped by it, or of a call that is over.        *)
Hangup(c) ==
  /\ stage[c] # "new" /\ pending[c] <= MaxHangups
  /\ stage' = [stage EXCEPT ![c] = IF @ = "up" THEN "gone" ELSE @]
  /\ over' = over \cup {c}
  /\ early' = IF stage[c] \in {"asking", "held"} THEN early \cup {c} ELSE early
  /\ Released(c)
  /\ UNCHANGED <<now, store, routing, asked, stranded>>

(* The task of release(): HGET, then RELEASE_SCRIPT with the value found.   *)
(* The value of a call never changes to another one, and a lease that has  *)
(* vanished in between is one the script does not find either: one step.   *)
ReleaseRuns(c) ==
  /\ pending[c] > 0
  /\ pending' = [pending EXCEPT ![c] = @ - 1]
  /\ IF calls[c] = NoLease THEN UNCHANGED <<now, store>>
     ELSE Release(c, calls[c].number, calls[c].gateway)
  /\ UNCHANGED <<stage, routing, over, history>>

(* Redis is out of reach: a warning. *)
ReleaseFails(c) ==
  /\ pending[c] > 0
  /\ pending' = [pending EXCEPT ![c] = @ - 1]
  /\ stranded' = stranded \cup {c}
  /\ UNCHANGED <<now, store, stage, routing, over, asked, early>>

(* An edge crashes: its sessions, its calls and its tasks are gone. *)
Crash(e) ==
  LET lost == {c \in Calls : EdgeOf[c] = e /\ stage[c] # "new"
                               /\ (stage[c] # "gone" \/ pending[c] > 0)}
  IN  /\ lost # {}
      /\ stage' = [c \in Calls |-> IF c \in lost THEN "gone" ELSE stage[c]]
      /\ over' = over \cup lost
      /\ pending' = [c \in Calls |-> IF c \in lost THEN 0 ELSE pending[c]]
      /\ stranded' = stranded \cup lost
      /\ UNCHANGED <<now, store, routing, asked, early>>

LTick == Tick /\ UNCHANGED <<stage, routing, over, pending, history>>

LNext ==
  \/ \E c \in Calls :
       \/ \E choices \in Plans : Invite(c, choices)
       \/ Unlimited(c) \/ Granted(c) \/ Refused(c) \/ Unreachable(c) \/ ReplyLost(c)
       \/ SendInvite(c) \/ MediaFails(c) \/ Failover(c) \/ Redirect(c)
       \/ Finish(c) \/ FinishEnded(c) \/ ForceEnd(c) \/ Hangup(c)
       \/ ReleaseRuns(c) \/ ReleaseFails(c)
  \/ \E e \in Edges : Crash(e)
  \/ LTick

LSpec == LInit /\ [][LNext]_lvars

-----------------------------------------------------------------------------
(* The calls in service; one hung up before its INVITE went out is not.    *)
InService == {c \in Calls : stage[c] = "up" /\ c \notin early}

Young(c) == now < asked[c] + TTL

(* Until its lease runs out a call in service holds it: no other call's      *)
(* end, release, purge or conflict, no lost reply and no crash of another   *)
(* edge takes it away, whatever routes the call goes through meanwhile.      *)
Covered ==
  /\ LTypeOK
  /\ \A c \in InService : Young(c) /\ Takes(c) =>
       /\ Live(c) /\ calls[c] = LeaseOf(c)
       /\ KeysAgreeFor(c)

CallsOfNumber(n) == {c \in InService : Young(c) /\ Number(c) = n}

CallsOfTrunk(g) ==
  {c \in InService : Young(c) /\ gateway[c] = g /\ LeaseOf(c).gateway = g}

(* What the leases are for, counted over the sessions of all edges: no more  *)
(* calls in service on a number, or on the trunk they were admitted to, than *)
(* its limit.  A call older than its lease and one that has failed over to   *)
(* the trunk are not counted here, nor by the code.                          *)
WithinLimits ==
  /\ \A n \in Numbers : NumberMax[n] > 0 => Cardinality(CallsOfNumber(n)) <= NumberMax[n]
  /\ \A g \in Gateways : TrunkMax[g] > 0 => Cardinality(CallsOfTrunk(g)) <= TrunkMax[g]

(* A call that has ended, in whatever way and at whatever moment of its      *)
(* INVITE, keeps its number and trunk busy only until a release that is      *)
(* under way; or, when a release, a reply or an edge was lost, or a hangup   *)
(* came before the INVITE, until its TTL has passed and never longer.        *)
NothingStranded ==
  \A c \in Calls : Live(c) =>
    /\ stage[c] = "gone" => pending[c] > 0 \/ c \in stranded
    /\ callExpiry[c] <= asked[c] + TTL

-----------------------------------------------------------------------------
(* What makes these inductive, for one call: before the grant it holds       *)
(* nothing, until it ends or is hung up early nobody releases for it, and a  *)
(* granted lease lasts one TTL from then.                                    *)
InOrder(c) ==
  /\ stage[c] # "new" => plan[c] # <<>>
  /\ stage[c] \in {"new", "asking"} => ~Live(c)
  /\ stage[c] # "gone" /\ c \notin early => pending[c] = 0
  /\ stage[c] \in {"held", "up"} /\ c \notin early /\ Young(c) /\ Takes(c) =>
       calls[c] = LeaseOf(c) /\ callExpiry[c] = asked[c] + TTL
  /\ Live(c) => /\ stage[c] = "gone" => pending[c] > 0 \/ c \in stranded
                /\ callExpiry[c] <= asked[c] + TTL

LIInv == /\ LTypeOK /\ TypeOK /\ KeysAgree /\ CapacityRespected
         /\ \A c \in Calls : InOrder(c)
=============================================================================
