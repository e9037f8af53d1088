----------------------------- MODULE CallManager -----------------------------
(***************************************************************************)
(* One call in the call manager (crates/call-core/src/call.rs, manager.rs).*)
(* Every operation of the manager takes the lock of the call's own map     *)
(* entry, and calls share nothing else, so one call is modelled and one    *)
(* operation is one action.  The exception is the lifecycle event, which   *)
(* an operation pushes only after it has dropped the lock: `unsent` holds  *)
(* the events of operations that are between the two.                      *)
(*                                                                         *)
(* The SIP edge looks up the session of a response, and whether it is      *)
(* established, before it calls the manager, and a BYE, a watchdog or an    *)
(* operator may end the call in between: a response may therefore meet the *)
(* call in any state.                                                      *)
(***************************************************************************)
EXTENDS Naturals, Sequences, FiniteSets, Functions

CONSTANTS
  Gateways,    \* gateways of the route table
  Redirect,    \* GatewayId "redirect", of the route a 3xx response adds
  NoGateway,   \* no current route; also: no caller identity
  Tables,      \* candidate lists the route table may give the call
  Pools,       \* owners of the caller numbers policy offers; <<>>: no identity
  Groups,      \* candidate lists of an extension group or a direct URI
  MaxRoutes,   \* bound: routes of a call, redirects included
  MaxLate      \* bound: responses that take effect on an ended call

ASSUME ManagerAssumption ==
  /\ Redirect \notin Gateways /\ NoGateway \notin Gateways /\ NoGateway # Redirect
  /\ Tables \subseteq Seq(Gateways) \ {<<>>}
  /\ Pools \subseteq Seq(Gateways)
  /\ Groups \subseteq Seq(Gateways)

VARIABLES
  state,         \* Call.state, or "unknown": the manager has no such call
  owner,         \* caller_identity.owner_gateway_id
  routes,        \* candidates: the gateway of each
  current,       \* current_candidate_index, from 1
  tried,         \* outbound_history: the routes given up
  alternatives,  \* caller_identity_alternatives
  placed,        \* the edge has remembered the session and sent the INVITE
  answered,      \* answered_at is set
  ended,         \* ended_at is set
  cdrs,          \* CDRs handed to the sink
  unsent,        \* unsent[e]: events e raised and not pushed yet
  sent,          \* events pushed, in order
  late           \* how many responses took effect on an ended call

routing == <<owner, routes, current, tried, alternatives>>
vars == <<state, routing, placed, answered, ended, cdrs, unsent, sent, late>>

Over == {"terminated", "failed"}
CallStates == {"unknown", "routing", "ringing", "established"} \cup Over
Events == {"initiated", "ringing", "answered", "finished"}
Routes == Gateways \cup {Redirect}
Cdrs == [status : {"answered", "canceled", "failed"}, gateway : Routes \cup {NoGateway}]

Choices == [owner : Gateways, routes : Seq(Gateways)]

TypeOK ==
  /\ state \in CallStates
  /\ owner \in Gateways \cup {NoGateway}
  /\ routes \in Seq(Routes)
  /\ current \in DOMAIN routes \/ (current = 1 /\ routes = <<>>)
  /\ tried \subseteq Nat
  /\ alternatives \in Seq(Choices)
  /\ placed \in BOOLEAN /\ answered \in BOOLEAN /\ ended \in BOOLEAN
  /\ cdrs \in Seq(Cdrs)
  /\ unsent \in [Events -> Nat]
  /\ sent \in Seq(Events)
  /\ late \in Nat

Init ==
  /\ state = "unknown"
  /\ owner = NoGateway /\ routes = <<>> /\ current = 1 /\ tried = {} /\ alternatives = <<>>
  /\ placed = FALSE /\ answered = FALSE /\ ended = FALSE
  /\ cdrs = <<>> /\ sent = <<>> /\ late = 0
  /\ unsent = [e \in Events |-> 0]

-----------------------------------------------------------------------------
Known == state # "unknown"
Completed == ended /\ state \in Over

GatewayAt(i) == IF i \in DOMAIN routes THEN routes[i] ELSE NoGateway

Raise(e) == unsent' = [unsent EXCEPT ![e] = @ + 1]

(* CallCdr::from_completed_call: the CDR of a call that is in state st. *)
CdrIn(st) ==
  [status |-> IF st = "failed" THEN "failed"
              ELSE IF answered THEN "answered" ELSE "canceled",
   gateway |-> GatewayAt(current)]

Ends(st) ==
  /\ state' = st
  /\ ended' = TRUE
  /\ cdrs' = Append(cdrs, CdrIn(st))
  /\ Raise("finished")

PinnedTo_Unfiltered(table, gateway) == table

(* The candidates a caller number may use: those of the gateway owning it. *)
PinnedTo(table, gateway) ==
  [i \in 1..Cardinality({k \in DOMAIN table : table[k] = gateway}) |-> gateway]

Selections(table, pool) ==
  [i \in DOMAIN pool |-> [owner |-> pool[i], routes |-> PinnedTo(table, pool[i])]]

Resolvable(table, pool) == Range(pool) \subseteq Range(table)

(* handle_inbound_invite: the first number of the pool, or the table as is. *)
Invite(table, pool) ==
  /\ state = "unknown" /\ sent = <<>>
  /\ Resolvable(table, pool)
  /\ state' = "routing"
  /\ IF pool = <<>>
     THEN /\ routes' = table
          /\ UNCHANGED <<owner, alternatives>>
     ELSE LET chosen == Selections(table, pool)
          IN  /\ owner' = Head(chosen).owner
              /\ routes' = Head(chosen).routes
              /\ alternatives' = Tail(chosen)
  /\ sent' = <<"initiated">>
  /\ UNCHANGED <<current, tried, placed, answered, ended, cdrs, unsent, late>>

(* No route: the call is recorded as failed. *)
InviteUnroutable ==
  /\ state = "unknown" /\ sent = <<>>
  /\ Ends("failed")
  /\ sent' = <<"initiated">>
  /\ UNCHANGED <<routing, placed, answered, late>>

(* No number of the policy can be used: an error before the call is stored. *)
InviteUnidentified(table, pool) ==
  /\ state = "unknown" /\ sent = <<>>
  /\ ~Resolvable(table, pool)
  /\ sent' = <<"initiated">>
  /\ UNCHANGED <<state, routing, placed, answered, ended, cdrs, unsent, late>>

(* handle_inbound_invite_to_uri, then set_candidates for a group. *)
InviteToUri(group) ==
  /\ state = "unknown" /\ sent = <<>>
  /\ state' = "routing"
  /\ routes' = group
  /\ sent' = <<"initiated">>
  /\ UNCHANGED <<owner, current, tried, alternatives, placed, answered, ended,
                 cdrs, unsent, late>>

(* advance_caller_pool, while the edge asks for a capacity lease. *)
AdvancePool ==
  /\ state = "routing" /\ ~placed
  /\ alternatives # <<>>
  /\ owner' = Head(alternatives).owner
  /\ routes' = Head(alternatives).routes
  /\ alternatives' = Tail(alternatives)
  /\ current' = 1
  /\ UNCHANGED <<state, tried, placed, answered, ended, cdrs, unsent, sent, late>>

(* The edge stores the session and sends the INVITE to the current route.  *)
Place ==
  /\ state = "routing" /\ ~placed
  /\ placed' = TRUE
  /\ UNCHANGED <<state, routing, answered, ended, cdrs, unsent, sent, late>>

-----------------------------------------------------------------------------
(* Counts a response that took effect after the end of the call. *)
NoteLate ==
  /\ ended => late < MaxLate
  /\ late' = IF ended THEN late + 1 ELSE late

(* 100..179 changes nothing, but pushes the CDR of a completed call again. *)
Provisional ==
  /\ placed /\ Completed
  /\ cdrs' = Append(cdrs, CdrIn(state))
  /\ NoteLate
  /\ UNCHANGED <<state, routing, placed, answered, ended, unsent, sent>>

(* 180..199; an error in any other state. *)
Ringing ==
  /\ placed
  /\ state \in {"routing", "ringing"}
  /\ state' = "ringing"
  /\ IF state = "ringing" THEN UNCHANGED unsent ELSE Raise("ringing")
  /\ UNCHANGED <<routing, placed, answered, ended, cdrs, sent, late>>

(* 200..299; an error in any other state. *)
Success ==
  /\ placed
  /\ state \in {"routing", "ringing"}
  /\ state' = "established"
  /\ answered' = TRUE
  /\ Raise("answered")
  /\ UNCHANGED <<routing, placed, ended, cdrs, sent, late>>

(* The leg to a direct URI is in no list of candidates. *)
GiveUpCurrent(next) ==
  /\ tried' = tried \cup ({current} \cap DOMAIN routes)
  /\ current' = next
  /\ state' = "routing"
  /\ NoteLate

Redirected_PastEnd ==
  /\ placed
  /\ Len(routes) < MaxRoutes
  /\ routes' = Append(routes, Redirect)
  /\ GiveUpCurrent(Len(routes) + 2)
  /\ UNCHANGED <<owner, alternatives, placed, answered, ended, cdrs, unsent, sent>>

(* 300..399 with a Contact: redirect_to, in whatever state the call is. *)
Redirected ==
  /\ placed
  /\ Len(routes) < MaxRoutes
  /\ routes' = Append(routes, Redirect)
  /\ GiveUpCurrent(Len(routes) + 1)
  /\ UNCHANGED <<owner, alternatives, placed, answered, ended, cdrs, unsent, sent>>

UsableRoutes_FromCurrent ==
  {i \in DOMAIN routes : i >= current /\ (owner # NoGateway => routes[i] = owner)}

(* failover_to_next: later routes, and only those of the number's owner. *)
UsableRoutes ==
  {i \in DOMAIN routes : i > current /\ (owner # NoGateway => routes[i] = owner)}

(* 408 and 5xx with a usable route left, in whatever state the call is. *)
Failover ==
  /\ placed
  /\ \E next \in UsableRoutes :
       /\ \A i \in UsableRoutes : next <= i
       /\ GiveUpCurrent(next)
  /\ UNCHANGED <<owner, routes, alternatives, placed, answered, ended, cdrs, unsent, sent>>

(* Any other response from 300 on; an error when the call is over. *)
Rejected ==
  /\ placed
  /\ state \notin Over
  /\ Ends("failed")
  /\ UNCHANGED <<routing, placed, answered, sent, late>>

Response == Provisional \/ Ringing \/ Success \/ Redirected \/ Failover \/ Rejected

-----------------------------------------------------------------------------
(* handle_inbound_termination: BYE or CANCEL of a remembered session. *)
Terminate ==
  /\ placed
  /\ state \notin Over
  /\ Ends("terminated")
  /\ UNCHANGED <<routing, placed, answered, sent, late>>

ForceTerminate_Unguarded ==
  /\ Known
  /\ Ends(IF answered THEN "terminated" ELSE "failed")
  /\ UNCHANGED <<routing, placed, answered, sent, late>>

(* try_terminate_call_with_reason: watchdog, operator, hangup, no lease. *)
ForceTerminate ==
  /\ Known
  /\ state \notin Over
  /\ Ends(IF answered THEN "terminated" ELSE "failed")
  /\ UNCHANGED <<routing, placed, answered, sent, late>>

(* push_event of an operation that has dropped the lock. *)
PushEvent(e) ==
  /\ unsent[e] > 0
  /\ unsent' = [unsent EXCEPT ![e] = @ - 1]
  /\ sent' = Append(sent, e)
  /\ UNCHANGED <<state, routing, placed, answered, ended, cdrs, late>>

Next ==
  \/ \E table \in Tables, pool \in Pools :
       Invite(table, pool) \/ InviteUnidentified(table, pool)
  \/ InviteUnroutable
  \/ \E group \in Groups : InviteToUri(group)
  \/ AdvancePool
  \/ Place
  \/ Response
  \/ Terminate
  \/ ForceTerminate
  \/ \E e \in Events : PushEvent(e)

Spec == Init /\ [][Next]_vars

-----------------------------------------------------------------------------
Occurrences(e) == Cardinality({i \in DOMAIN sent : sent[i] = e})

(* However a BYE, a CANCEL, a failure response, the watchdog, the operator  *)
(* and a hangup race to end the call, it is accounted once: one CDR and one *)
(* call_finished event when it has ended, none before.  A response that     *)
(* takes effect on an ended call breaks this: it takes the call back to     *)
(* routing.                                                                *)
EndedOnce ==
  late = 0 =>
    /\ ended <=> state \in Over
    /\ Len(cdrs) = IF ended THEN 1 ELSE 0
    /\ unsent["finished"] + Occurrences("finished") = Len(cdrs)

(* A managed caller number goes out only through the gateway that owns it,  *)
(* whatever number of the pool and whatever route the call has come to, a   *)
(* redirect apart: failover and the advance of the pool keep the two        *)
(* together (owned_caller_number_never_fails_over_to_another_gateway).      *)
PinnedOrRedirected ==
  owner # NoGateway =>
    /\ GatewayAt(current) \in {owner, Redirect}
    /\ \A i \in DOMAIN alternatives :
         Range(alternatives[i].routes) = {alternatives[i].owner}

(* No route is tried twice by one call: the routes given up are all behind  *)
(* the current one, through any mix of failovers and redirects, so a call   *)
(* cannot bounce between failing gateways (failover_to_next, redirect_to).  *)
NoRouteTwice == \A i \in tried : i < current

(* What the three above rest on: a call that was never offered is blank, a  *)
(* call gives up a route only after its INVITE was sent, and only a call    *)
(* with a caller number has other numbers to fall back to.                  *)
Fresh ==
  /\ sent = <<>> => /\ state = "unknown" /\ owner = NoGateway /\ routes = <<>>
                   /\ current = 1 /\ alternatives = <<>> /\ ~placed
  /\ ~placed => tried = {}
  /\ alternatives # <<>> => owner # NoGateway

IInv == TypeOK /\ EndedOnce /\ PinnedOrRedirected /\ NoRouteTwice /\ Fresh
=============================================================================
