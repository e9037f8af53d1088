-------------------------- MODULE SessionAccounting --------------------------
(***************************************************************************)
(* What the calls of one SIP edge are counted in: the active calls of a    *)
(* user and of a tenant (edge_state/concurrency.rs, tenant.rs) and those   *)
(* of a gateway (GatewayHealth.active_calls).  A call is counted while its *)
(* INVITE is being sent (handlers/invite) and counted out by whatever ends *)
(* it: a BYE or CANCEL of either leg (in_dialog/bye.rs), a failure response *)
(* (dispatcher/response), the session watchdog (timers/session.rs), the    *)
(* operator (manage/calls.rs) or a VCI hangup (hangup_handler.rs).  Each   *)
(* does so in its own order, on a thread of its own, without a common      *)
(* lock; a step here is one access to shared state.                        *)
(*                                                                         *)
(* The calls are of one user and one tenant.  A call that has ended is not *)
(* used again: its session and its Call-ID are not either.                 *)
(***************************************************************************)
EXTENDS Naturals, Sequences, FiniteSets

CONSTANTS
  Calls,      \* calls, each with one caller leg and one gateway leg
  LastRoute,  \* routes 1..LastRoute: one gateway each, in order of choice
  UserMax,    \* sbc_max_concurrency
  TenantMax,  \* TenantPolicy.max_concurrent_calls
  MaxEnders,  \* bound: enders that start
  MaxAtOnce   \* bound: enders at work on one call at the same time

ASSUME AccountingAssumption ==
  /\ IsFiniteSet(Calls)
  /\ LastRoute \in Nat \ {0}
  /\ UserMax \in Nat \ {0} /\ TenantMax \in Nat \ {0}
  /\ MaxEnders \in Nat

Routes == 1..LastRoute

(* "failure" is a final response from 300 on.  It and the BYE of the        *)
(* gateway come with the Call-ID of the gateway leg, to one worker.        *)
GatewayKinds == {"gatewayBye", "failure"}
Kinds == {"callerBye", "watchdog", "operator", "hangup"} \cup GatewayKinds

VARIABLES
  stage,     \* stage[c]: how far handle_invite_request is
  session,   \* inbound_transactions: "bare" until the tenant is set
  answered,  \* established_at of the session
  call,      \* state of the call in its manager
  route,     \* its current candidate
  users,     \* user_concurrency
  tenants,   \* tenant_concurrency
  active,    \* active[r]: active_calls of the gateway of route r
  task,      \* task[c][k]: what is left to do for the ender k of c
  starts,    \* how many enders have started
  early,     \* calls an ender met before their INVITE was sent
  crossed,   \* calls two enders were at work on at the same time
  peak       \* the most INVITEs that were between check and count at once

counts == <<users, tenants, active>>
history == <<starts, early, crossed, peak>>
vars == <<stage, session, answered, call, route, counts, task, history>>

Stages == {"new", "rejected", "checked", "routed", "remembered", "userCounted",
           "tenantSet", "counted", "sent"}
Steps == {"reply", "moveGateway", "endOrSkip", "end", "readSession", "needSession",
          "dropUser", "dropTenant", "dropGateway", "remove", "removeOrStop"}
Idle == [todo |-> <<>>, tenant |-> FALSE]

TypeOK ==
  /\ stage \in [Calls -> Stages]
  /\ session \in [Calls -> {"none", "bare", "tenant"}]
  /\ answered \in [Calls -> BOOLEAN]
  /\ call \in [Calls -> {"none", "active", "over"}]
  /\ route \in [Calls -> Routes]
  /\ users \in Nat /\ tenants \in Nat /\ active \in [Routes -> Nat]
  /\ task \in [Calls -> [Kinds -> [todo : Seq(Steps), tenant : BOOLEAN]]]
  /\ starts \in 0..MaxEnders
  /\ early \subseteq Calls /\ crossed \subseteq Calls /\ peak \in Nat

Init ==
  /\ stage = [c \in Calls |-> "new"]
  /\ session = [c \in Calls |-> "none"]
  /\ answered = [c \in Calls |-> FALSE]
  /\ call = [c \in Calls |-> "none"]
  /\ route = [c \in Calls |-> 1]
  /\ users = 0 /\ tenants = 0 /\ active = [r \in Routes |-> 0]
  /\ task = [c \in Calls |-> [k \in Kinds |-> Idle]]
  /\ starts = 0 /\ early = {} /\ crossed = {} /\ peak = 0

-----------------------------------------------------------------------------
(* The counters saturate at zero. *)
Less(n) == IF n = 0 THEN 0 ELSE n - 1

At(c, now, next) == stage[c] = now /\ stage' = [stage EXCEPT ![c] = next]

Checking == {c \in Calls : stage[c] \in {"checked", "routed", "remembered",
                                          "userCounted", "tenantSet"}}

UserHasRoom == users < UserMax

(* check_user_concurrency: read now, counted later. *)
CheckUser(c) ==
  /\ At(c, "new", IF UserHasRoom THEN "checked" ELSE "rejected")
  /\ peak' = IF UserHasRoom /\ Cardinality(Checking) >= peak
             THEN Cardinality(Checking) + 1 ELSE peak
  /\ UNCHANGED <<session, answered, call, route, counts, task, starts, early, crossed>>

TenantHasRoom == tenants < TenantMax

(* check_tenant_limits, likewise; then the source and the route are looked   *)
(* up and the call manager stores the call, of which nobody sees anything    *)
(* before.  Its balance and its lease are awaited after that.               *)
Route(c) ==
  /\ TenantHasRoom
  /\ At(c, "checked", "routed")
  /\ call' = [call EXCEPT ![c] = "active"]
  /\ UNCHANGED <<session, answered, route, counts, task, history>>

(* The INVITE is refused before a session is made: by the tenant's limit or *)
(* for want of a route there is no call yet; without a lease or media the   *)
(* call is terminated, without balance it is left to itself.               *)
Refuse(c) ==
  /\ stage[c] \in {"checked", "routed"}
  /\ stage' = [stage EXCEPT ![c] = "rejected"]
  /\ call' \in {call, [call EXCEPT ![c] = IF @ = "active" THEN "over" ELSE @]}
  /\ UNCHANGED <<session, answered, route, counts, task, history>>

(* remember_inbound_invite, then the counter of the user. *)
Remember(c) ==
  /\ At(c, "routed", "remembered")
  /\ session' = [session EXCEPT ![c] = "bare"]
  /\ UNCHANGED <<answered, call, route, counts, task, history>>

CountUser(c) ==
  /\ At(c, "remembered", "userCounted")
  /\ users' = users + 1
  /\ UNCHANGED <<session, answered, call, route, tenants, active, task, history>>

(* set_session_tenant, which does nothing when the session is gone. *)
SetTenant(c) ==
  /\ At(c, "userCounted", "tenantSet")
  /\ session' = [session EXCEPT ![c] = IF @ = "none" THEN "none" ELSE "tenant"]
  /\ UNCHANGED <<answered, call, route, counts, task, history>>

CountTenant(c) ==
  /\ At(c, "tenantSet", "counted")
  /\ tenants' = tenants + 1
  /\ UNCHANGED <<session, answered, call, route, users, active, task, history>>

(* send_single_outbound_invite *)
CountGateway(c) ==
  /\ At(c, "counted", "sent")
  /\ active' = [active EXCEPT ![route[c]] = @ + 1]
  /\ UNCHANGED <<session, answered, call, route, users, tenants, task, history>>

Busy(c, kinds) == \E k \in kinds : task[c][k].todo # <<>>

(* A 2xx, by the worker of the gateway leg. *)
Answer(c) ==
  /\ stage[c] = "sent" /\ session[c] # "none" /\ ~answered[c]
  /\ ~Busy(c, GatewayKinds)
  /\ answered' = [answered EXCEPT ![c] = TRUE]
  /\ UNCHANGED <<stage, session, call, route, counts, task, history>>

-----------------------------------------------------------------------------
FailurePlan_NoUncount ==
  <<"readSession", "dropGateway", "remove">>

(* handle_failed_state, of a call that a failure response has ended. *)
FailurePlan ==
  <<"readSession", "dropUser", "dropTenant", "dropGateway", "remove">>

ByePlan_KeepsGateway ==
  <<"endOrSkip", "needSession", "dropUser", "dropTenant", "remove">>

(* handle_bye_cancel_pre_forward, forward_bye_cancel_cleanup *)
ByePlan ==
  <<"endOrSkip", "dropGateway", "needSession", "dropUser", "dropTenant", "remove">>

(* What an ender has to do, in its own order, when it starts.  A hangup     *)
(* has then removed the session already, or found none.                    *)
Plan(c, kind) ==
  CASE kind \in {"callerBye", "gatewayBye"} -> ByePlan
    [] kind = "failure" -> <<"reply">>
    [] kind = "watchdog" ->
         <<"dropUser", "dropTenant", "remove", "dropGateway", "end">>
    [] kind = "operator" ->
         <<"dropUser", "dropTenant", "dropGateway", "removeOrStop", "end">>
    [] kind = "hangup" ->
         IF session[c] = "none" THEN <<"end">>
         ELSE <<"dropGateway", "dropUser", "dropTenant", "end">>

MayStart(c, kind) ==
  CASE kind = "callerBye" -> stage[c] = "sent" /\ session[c] # "none"
    [] kind = "gatewayBye" ->
         stage[c] = "sent" /\ session[c] # "none" /\ ~Busy(c, GatewayKinds)
    [] kind = "failure" -> /\ stage[c] = "sent" /\ session[c] # "none" /\ ~answered[c]
                           /\ ~Busy(c, GatewayKinds)
    [] kind = "watchdog" -> session[c] # "none" /\ answered[c]
    [] kind = "operator" -> session[c] # "none"
    [] kind = "hangup" -> call[c] # "none"

(* The look-up an ender starts with: it goes on with a copy of the session. *)
Start(c, kind) ==
  /\ starts < MaxEnders
  /\ Cardinality({k \in Kinds : task[c][k] # Idle}) < MaxAtOnce
  /\ task[c][kind] = Idle
  /\ MayStart(c, kind)
  /\ task' = [task EXCEPT ![c][kind] =
       [todo |-> Plan(c, kind), tenant |-> session[c] = "tenant"]]
  /\ session' = [session EXCEPT ![c] = IF kind = "hangup" THEN "none" ELSE @]
  /\ starts' = starts + 1
  /\ early' = IF stage[c] = "sent" THEN early ELSE early \cup {c}
  /\ crossed' = IF Busy(c, Kinds) THEN crossed \cup {c} ELSE crossed
  /\ UNCHANGED <<stage, answered, call, route, counts, peak>>

Drop(seq, n) == SubSeq(seq, n + 1, Len(seq))

SetTodo(c, kind, todo) ==
  task' = [task EXCEPT ![c][kind] = IF todo = <<>> THEN Idle ELSE [@ EXCEPT !.todo = todo]]

Todo(c, kind) == task[c][kind].todo

Doing(c, kind, step) == Todo(c, kind) # <<>> /\ Head(Todo(c, kind)) = step

Continue(c, kind) == SetTodo(c, kind, Drop(Todo(c, kind), 1))

ReplyFailsOver_CountsOut(c) ==
  /\ Doing(c, "failure", "reply")
  /\ route[c] < LastRoute
  /\ route' = [route EXCEPT ![c] = @ + 1]
  /\ call' = [call EXCEPT ![c] = "active"]
  /\ SetTodo(c, "failure", <<"dropUser", "dropTenant", "moveGateway">>)
  /\ UNCHANGED <<stage, session, answered, counts, history>>

(* handle_outbound_response of 408 and 5xx with a route left: the call goes *)
(* on, whatever its state.                                                 *)
ReplyFailsOver(c) ==
  /\ Doing(c, "failure", "reply")
  /\ route[c] < LastRoute
  /\ route' = [route EXCEPT ![c] = @ + 1]
  /\ call' = [call EXCEPT ![c] = "active"]
  /\ SetTodo(c, "failure", <<"moveGateway">>)
  /\ UNCHANGED <<stage, session, answered, counts, history>>

(* Any other failure response ends the call; an error when it is over. *)
ReplyFails(c) ==
  /\ Doing(c, "failure", "reply")
  /\ call' = [call EXCEPT ![c] = "over"]
  /\ SetTodo(c, "failure", IF call[c] = "over" THEN <<>> ELSE FailurePlan)
  /\ UNCHANGED <<stage, session, answered, route, counts, history>>

(* handle_gateway_failover *)
MoveGateway(c) ==
  /\ Doing(c, "failure", "moveGateway")
  /\ active' = [active EXCEPT ![route[c] - 1] = Less(@), ![route[c]] = @ + 1]
  /\ Continue(c, "failure")
  /\ UNCHANGED <<stage, session, answered, call, route, users, tenants, history>>

(* handle_inbound_termination: only the one that ends the call goes on to   *)
(* give back the slot of the gateway.                                      *)
EndOrSkip(c, k) ==
  /\ Doing(c, k, "endOrSkip")
  /\ call' = [call EXCEPT ![c] = "over"]
  /\ SetTodo(c, k, Drop(Todo(c, k), IF call[c] = "over" THEN 2 ELSE 1))
  /\ UNCHANGED <<stage, session, answered, route, counts, history>>

(* try_terminate_call_with_reason *)
End(c, k) ==
  /\ Doing(c, k, "end")
  /\ call' = [call EXCEPT ![c] = "over"]
  /\ Continue(c, k)
  /\ UNCHANGED <<stage, session, answered, route, counts, history>>

(* Without a session a failure has no user and no tenant to give back. *)
ReadSession(c, k) ==
  /\ Doing(c, k, "readSession")
  /\ task' = [task EXCEPT ![c][k] =
       [todo |-> Drop(@.todo, IF session[c] = "none" THEN 3 ELSE 1),
        tenant |-> session[c] = "tenant"]]
  /\ UNCHANGED <<stage, session, answered, call, route, counts, history>>

(* A BYE is not forwarded, nor anything counted out, without a session. *)
NeedSession(c, k) ==
  /\ Doing(c, k, "needSession")
  /\ SetTodo(c, k, IF session[c] = "none" THEN <<>> ELSE Drop(Todo(c, k), 1))
  /\ UNCHANGED <<stage, session, answered, call, route, counts, history>>

DropUser(c, k) ==
  /\ Doing(c, k, "dropUser")
  /\ users' = Less(users)
  /\ Continue(c, k)
  /\ UNCHANGED <<stage, session, answered, call, route, tenants, active, history>>

(* The tenant in the copy of the session has no further use. *)
DropTenant(c, k) ==
  /\ Doing(c, k, "dropTenant")
  /\ tenants' = IF task[c][k].tenant THEN Less(tenants) ELSE tenants
  /\ task' = [task EXCEPT ![c][k] = [todo |-> Drop(@.todo, 1), tenant |-> FALSE]]
  /\ UNCHANGED <<stage, session, answered, call, route, users, active, history>>

DropGateway(c, k) ==
  /\ Doing(c, k, "dropGateway")
  /\ active' = [active EXCEPT ![route[c]] = Less(@)]
  /\ Continue(c, k)
  /\ UNCHANGED <<stage, session, answered, call, route, users, tenants, history>>

Remove(c, k) ==
  /\ Doing(c, k, "remove")
  /\ session' = [session EXCEPT ![c] = "none"]
  /\ Continue(c, k)
  /\ UNCHANGED <<stage, answered, call, route, counts, history>>

(* The operator answers 404 when somebody else has removed the session. *)
RemoveOrStop(c, k) ==
  /\ Doing(c, k, "removeOrStop")
  /\ session' = [session EXCEPT ![c] = "none"]
  /\ SetTodo(c, k, IF session[c] = "none" THEN <<>> ELSE Drop(Todo(c, k), 1))
  /\ UNCHANGED <<stage, answered, call, route, counts, history>>

Inviting(c) ==
  \/ CheckUser(c) \/ Route(c) \/ Refuse(c) \/ Remember(c) \/ CountUser(c)
  \/ SetTenant(c) \/ CountTenant(c) \/ CountGateway(c)

Ending(c, k) ==
  \/ Start(c, k) \/ EndOrSkip(c, k) \/ End(c, k) \/ ReadSession(c, k) \/ NeedSession(c, k)
  \/ DropUser(c, k) \/ DropTenant(c, k) \/ DropGateway(c, k)
  \/ Remove(c, k) \/ RemoveOrStop(c, k)

Next == \E c \in Calls :
  \/ Inviting(c) \/ Answer(c)
  \/ ReplyFailsOver(c) \/ ReplyFails(c) \/ MoveGateway(c)
  \/ \E k \in Kinds : Ending(c, k)

Spec == Init /\ [][Next]_vars

-----------------------------------------------------------------------------
Sessions == {c \in Calls : session[c] # "none"}

Quiet == \A c \in Calls : stage[c] \in {"new", "rejected", "sent"} /\ ~Busy(c, Kinds)

(* When nothing is under way and no two enders were ever at work on a call  *)
(* at once, every way to end a call, in any succession and with any         *)
(* failovers before, has given back exactly what the call was counted in,   *)
(* and session and call have ended together.                                *)
CountsExact ==
  /\ TypeOK
  /\ Quiet /\ crossed = {} /\ early = {} =>
       /\ users = Cardinality(Sessions)
       /\ tenants = Cardinality(Sessions)
       /\ \A r \in Routes : active[r] = Cardinality({c \in Sessions : route[c] = r})
       /\ \A c \in Calls : stage[c] = "sent" => (session[c] = "none" <=> call[c] = "over")

(* Whatever enders cross, an ended call never goes on to count against its  *)
(* user and its tenant, so crossing enders cannot lock them out for good    *)
(* (the counters saturate, concurrency.rs); only an ender that meets the    *)
(* call before its INVITE is sent can leave it counted.                     *)
NobodyLockedOut ==
  Quiet => /\ users <= Cardinality(Sessions \cup early)
           /\ tenants <= Cardinality(Sessions \cup early)

InUse == {c \in Sessions : stage[c] = "sent" /\ ~Busy(c, Kinds)}

(* The limits are read long before the call is counted, so a burst passes    *)
(* them; but by no more than the INVITEs that were at work at once, and      *)
(* never when they came one at a time.  This counts the calls that are in    *)
(* use, not the counters: the order in which an ender counts out and removes *)
(* its session does not let in more.                                        *)
OnlyBurstsExceed ==
  crossed = {} /\ early = {} /\ InUse # {} =>
    /\ Cardinality(InUse) < UserMax + peak
    /\ Cardinality(InUse) < TenantMax + peak
=============================================================================
