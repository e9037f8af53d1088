-------------------------- MODULE InviteTransaction --------------------------
(***************************************************************************)
(* The outbound INVITE of one call on UDP: the retransmission runner of    *)
(* its client transaction (sip/client_transaction), the transport ingress  *)
(* that shows it every response (main.rs), the worker that dispatches the  *)
(* responses of this Call-ID one at a time and sends what they cause       *)
(* (runtime.rs, sip/dispatcher/response), and the gateways behind a        *)
(* network that loses, reorders and repeats.                               *)
(*                                                                         *)
(* A failover sends the next INVITE with the Call-ID, the CSeq and the Via *)
(* branch of the first (failover.rs, branch_for), so every INVITE of the   *)
(* call has the same ClientTransactionKey: there is at most one active     *)
(* transaction and one entry in the ledger of observed branches.           *)
(***************************************************************************)
EXTENDS Naturals, Sequences, FiniteSets

CONSTANTS
  LastRoute,   \* routes 1..LastRoute: the candidates of the call, in order
  MaxQueue,    \* capacity of the worker's channel
  MaxInFlight  \* bound: responses on the network at a time

ASSUME TransactionAssumption ==
  /\ LastRoute \in Nat \ {0}
  /\ MaxQueue \in Nat \ {0}
  /\ MaxInFlight \in Nat \ {0}

Routes == 1..LastRoute

(* 180..199; 200..299; 408 and 5xx; any other final response. *)
Kinds == {"ringing", "success", "unavailable", "rejected"}
Finals == Kinds \ {"ringing"}
Responses == [route : Routes, kind : Kinds]

VARIABLES
  gateway,    \* gateway[r]: how far the gateway of route r is
  net,        \* responses on their way to the edge
  runner,     \* the runner of the active client transaction
  ledger,     \* pending_by_branch, for the branch of the call
  timeouts,   \* routes whose runner timed out and has yet to dispatch its 503
  ingress,    \* the response the ingress has in hand
  queue,      \* channel of the worker of this Call-ID
  work,       \* what the worker is doing
  call,       \* state of the call, as its manager and its session have it
  current,    \* route the call is on
  finalSeen,  \* InviteResponseOrder.final_response_seen
  moved,      \* how the call came to its current route
  invited,    \* routes an INVITE was sent to
  heard,      \* routes the ingress has seen a response of
  echoes,     \* echoes[r]: copies sent to r after a response of it was seen
  refused,    \* the socket refused an INVITE
  crossed     \* a 1xx was written over a final response

transport == <<gateway, net>>
transaction == <<runner, ledger, timeouts>>
dispatch == <<call, current, finalSeen, moved>>
history == <<invited, heard, echoes, refused, crossed>>
vars == <<transport, transaction, ingress, queue, work, dispatch, history>>

NoRunner == [at |-> "none"]
Controls == {"calling", "proceeding", "completed", "terminated"}
(* told: a permit of control.changed(); loaded: who has read the state in   *)
(* on_response, found the transaction alive, and is about to write it.      *)
Runners == {NoRunner} \cup
  [at : {"loop", "select", "resend"}, control : Controls, armed : BOOLEAN, route : Routes,
   told : BOOLEAN, loaded : SUBSET {"ingress", "worker"}]

Idle == [at |-> "idle"]
Works == {Idle} \cup [at : {"note", "dispatch"}, response : Responses]
                \cup [at : {"send"}, route : Routes]

TypeOK ==
  /\ gateway \in [Routes -> {"idle", "invited", "ringing"} \cup Finals]
  /\ net \subseteq Responses
  /\ runner \in Runners
  /\ ledger \in {"none", "provisional", "final"}
  /\ timeouts \subseteq Routes
  /\ ingress \in Responses \cup {Idle}
  /\ queue \in Seq(Responses) /\ Len(queue) <= MaxQueue
  /\ work \in Works
  /\ call \in {"routing", "ringing", "established", "failed"}
  /\ current \in Routes
  /\ finalSeen \in BOOLEAN
  /\ moved \in {"placed", "response", "timeout"}
  /\ invited \subseteq Routes /\ heard \subseteq Routes
  /\ echoes \in [Routes -> Nat] /\ refused \in BOOLEAN /\ crossed \in BOOLEAN

(* The INVITE to the first route is built; the worker is about to send it.  *)
Init ==
  /\ gateway = [r \in Routes |-> "idle"]
  /\ net = {}
  /\ runner = NoRunner /\ ledger = "none" /\ timeouts = {}
  /\ ingress = Idle /\ queue = <<>>
  /\ work = [at |-> "send", route |-> 1]
  /\ call = "routing" /\ current = 1 /\ finalSeen = FALSE /\ moved = "placed"
  /\ invited = {} /\ heard = {}
  /\ echoes = [r \in Routes |-> 0] /\ refused = FALSE /\ crossed = FALSE

-----------------------------------------------------------------------------
ClassOf(kind) == IF kind = "ringing" THEN "provisional" ELSE "final"

IsTerminal(control) == control \in {"completed", "terminated"}

OnResponse_Reopens(control, class) ==
  IF class = "none" \/ control = "terminated" THEN control
  ELSE IF class = "provisional" THEN "proceeding" ELSE "completed"

OnResponse_KeepsCalling(control, class) ==
  IF IsTerminal(control) \/ class # "final" THEN control ELSE "completed"

(* ClientTransactionControl::on_response *)
OnResponse(control, class) ==
  IF IsTerminal(control) \/ class = "none" THEN control
  ELSE IF class = "provisional" THEN "proceeding" ELSE "completed"

Applied(r, class) ==
  LET control == OnResponse(r.control, class)
  IN  [r EXCEPT !.control = control, !.told = @ \/ control # r.control]

Alive == runner # NoRunner /\ ~IsTerminal(runner.control)

(* ClientTransactionManager::observe_response: the ledger, then the active  *)
(* runner.                                                                 *)
Observe(class) ==
  /\ ledger' = class
  /\ runner' = IF runner = NoRunner THEN NoRunner ELSE Applied(runner, class)

(* on_response looks at the state and writes it in steps of its own: a 1xx  *)
(* may put "proceeding" over a final response that came in between.  For a  *)
(* final response it makes no difference.                                  *)
Loads(by) ==
  /\ ledger' = "provisional"
  /\ runner' = [runner EXCEPT !.loaded = @ \cup {by}]

Writes(by) ==
  IF runner # NoRunner /\ by \in runner.loaded
  THEN /\ runner' = [runner EXCEPT !.loaded = @ \ {by}, !.control = "proceeding",
                                   !.told = @ \/ runner.control # "proceeding"]
       /\ crossed' = (crossed \/ IsTerminal(runner.control))
  ELSE UNCHANGED <<runner, crossed>>

(* A copy of the INVITE reaches the gateway, or is lost. *)
Transmit(r) ==
  /\ invited' = invited \cup {r}
  /\ \/ gateway' = [gateway EXCEPT ![r] = IF @ = "idle" THEN "invited" ELSE @]
     \/ UNCHANGED gateway

-----------------------------------------------------------------------------
(* Gateways and network.  A gateway repeats its last response until it is  *)
(* acknowledged, and a response in `net` may be lost or overtaken.         *)
Respond(r, kind) ==
  /\ \/ gateway[r] = "invited"
     \/ gateway[r] = "ringing" /\ kind \in Finals
     \/ gateway[r] = kind
  /\ Cardinality(net) < MaxInFlight
  /\ gateway' = [gateway EXCEPT ![r] = kind]
  /\ net' = net \cup {[route |-> r, kind |-> kind]}
  /\ UNCHANGED <<transaction, ingress, queue, work, dispatch, history>>

Lose(m) ==
  /\ net' = net \ {m}
  /\ UNCHANGED <<gateway, transaction, ingress, queue, work, dispatch, history>>

(* observe_packet, then the channel of the worker, which may be full. *)
Enqueued(m) == queue' = IF Len(queue) < MaxQueue THEN Append(queue, m) ELSE queue

Receive(m) ==
  /\ ingress = Idle
  /\ net' = net \ {m}
  /\ heard' = heard \cup {m.route}
  /\ IF m.kind = "ringing" /\ Alive
     THEN Loads("ingress") /\ ingress' = m /\ UNCHANGED queue
     ELSE Observe(ClassOf(m.kind)) /\ Enqueued(m) /\ UNCHANGED ingress
  /\ UNCHANGED <<gateway, timeouts, work, dispatch, invited, echoes, refused, crossed>>

IngressWrites ==
  /\ ingress # Idle
  /\ Writes("ingress")
  /\ Enqueued(ingress)
  /\ ingress' = Idle
  /\ UNCHANGED <<transport, ledger, timeouts, work, dispatch, invited, heard, echoes, refused>>

-----------------------------------------------------------------------------
(* The runner.  An iteration of its loop first applies the ledger; it ends *)
(* a terminal transaction, or waits for its timers.  select! evaluates the  *)
(* guards of the two timers (`armed`) when it starts to wait.              *)
RunnerFinishes ==
  /\ runner.at = "loop"
  /\ IsTerminal(OnResponse(runner.control, ledger))
  /\ runner' = NoRunner
  /\ ledger' = "none"
  /\ UNCHANGED <<transport, timeouts, ingress, queue, work, dispatch, history>>

RunnerWaits ==
  /\ runner.at = "loop"
  /\ LET control == OnResponse(runner.control, ledger)
     IN  /\ ~IsTerminal(control)
         /\ runner' = [Applied(runner, ledger) EXCEPT !.at = "select",
                                                      !.armed = (control = "calling")]
  /\ UNCHANGED <<transport, ledger, timeouts, ingress, queue, work, dispatch, history>>

(* control.changed() *)
RunnerWakes ==
  /\ runner.at = "select" /\ runner.told
  /\ runner' = [runner EXCEPT !.at = "loop", !.told = FALSE]
  /\ UNCHANGED <<transport, ledger, timeouts, ingress, queue, work, dispatch, history>>

RetransmitTimer_Unchecked ==
  /\ runner.at = "select" /\ runner.armed
  /\ runner' = [runner EXCEPT !.at = "resend"]
  /\ UNCHANGED <<transport, ledger, timeouts, ingress, queue, work, dispatch, history>>

(* Timer A: the ledger and the state are checked again before the copy is  *)
(* sent.                                                                   *)
RetransmitTimer ==
  /\ runner.at = "select" /\ runner.armed
  /\ LET control == OnResponse(runner.control, ledger)
     IN  runner' = [Applied(runner, ledger) EXCEPT
                      !.at = IF control = "calling" THEN "resend" ELSE "loop"]
  /\ UNCHANGED <<transport, ledger, timeouts, ingress, queue, work, dispatch, history>>

(* send_to: the ingress runs on another thread, and may have seen a response *)
(* since the check.                                                         *)
Resend ==
  /\ runner.at = "resend"
  /\ runner' = [runner EXCEPT !.at = "loop"]
  /\ Transmit(runner.route)
  /\ echoes' = [echoes EXCEPT ![runner.route] = IF runner.route \in heard THEN @ + 1 ELSE @]
  /\ UNCHANGED <<net, ledger, timeouts, ingress, queue, work, dispatch, heard, refused, crossed>>

TimeoutTimer_Silent ==
  /\ runner.at = "select" /\ runner.armed
  /\ runner' = NoRunner
  /\ ledger' = "none"
  /\ UNCHANGED <<transport, timeouts, ingress, queue, work, dispatch, history>>

(* Timer B: the transaction ends and a local 503 is to be dispatched. *)
TimeoutTimer ==
  /\ runner.at = "select" /\ runner.armed
  /\ runner' = NoRunner
  /\ ledger' = "none"
  /\ timeouts' = timeouts \cup {runner.route}
  /\ UNCHANGED <<transport, ingress, queue, work, dispatch, history>>

-----------------------------------------------------------------------------
(* dispatch_response under the lock of the response order: the effect of a  *)
(* response of route r on the call.  The session of a failed call is gone,  *)
(* and once it is established a response no longer reaches the manager.    *)
Ignored_OnlyFailed(kind) == \/ call = "failed"
                            \/ kind = "ringing" /\ finalSeen

Ignored(kind) == \/ call \in {"established", "failed"}
                 \/ kind = "ringing" /\ finalSeen

FailsOver(kind) == kind = "unavailable" /\ current < LastRoute

ApplyToCall(kind, how) ==
  IF Ignored(kind)
  THEN UNCHANGED dispatch
  ELSE /\ finalSeen' = (finalSeen \/ kind \in Finals)
       /\ IF FailsOver(kind)
          THEN /\ current' = current + 1
               /\ call' = "routing"
               /\ moved' = how
          ELSE /\ call' = CASE kind = "ringing" -> "ringing"
                            [] kind = "success" -> "established"
                            [] OTHER -> "failed"
               /\ UNCHANGED <<current, moved>>

(* The worker takes the next response and shows it to the transactions. *)
WorkerTakes ==
  /\ work = Idle /\ queue # <<>>
  /\ queue' = Tail(queue)
  /\ LET m == Head(queue)
     IN  IF m.kind = "ringing" /\ Alive
         THEN Loads("worker") /\ work' = [at |-> "note", response |-> m]
         ELSE Observe(ClassOf(m.kind)) /\ work' = [at |-> "dispatch", response |-> m]
  /\ UNCHANGED <<transport, timeouts, ingress, dispatch, history>>

WorkerWrites ==
  /\ work.at = "note"
  /\ Writes("worker")
  /\ work' = [work EXCEPT !.at = "dispatch"]
  /\ UNCHANGED <<transport, ledger, timeouts, ingress, queue, dispatch, invited, heard, echoes,
                 refused>>

WorkerDispatches ==
  /\ work.at = "dispatch"
  /\ LET kind == work.response.kind
     IN  /\ ApplyToCall(kind, "response")
         /\ work' = IF ~Ignored(kind) /\ FailsOver(kind)
                    THEN [at |-> "send", route |-> current + 1] ELSE Idle
  /\ UNCHANGED <<transport, transaction, ingress, queue, invited, heard, echoes, refused, crossed>>

(* The runner of a route that timed out dispatches the local 503, as the   *)
(* worker does with a response; what it would send is discarded.           *)
LocalUnavailable(r) ==
  /\ timeouts' = timeouts \ {r}
  /\ Observe("final")
  /\ ApplyToCall("unavailable", "timeout")
  /\ UNCHANGED <<transport, ingress, queue, work, invited, heard, echoes, refused, crossed>>

(* spawn_client_transaction_retransmission: a key that is active suppresses *)
(* the INVITE; so does a response the ledger holds for its branch, which is *)
(* taken out of it.                                                        *)
Register(control) ==
  /\ runner' = [at |-> "loop", control |-> control, armed |-> FALSE, route |-> work.route,
                told |-> control # "calling", loaded |-> {}]
  /\ ledger' = "none"

Suppressed ==
  /\ work.at = "send"
  /\ work' = Idle
  /\ LET control == OnResponse("calling", ledger)
     IN  \/ runner # NoRunner /\ UNCHANGED <<runner, ledger>>
         \/ runner = NoRunner /\ control # "calling" /\ Register(control)
  /\ UNCHANGED <<transport, timeouts, ingress, queue, dispatch, history>>

WorkerSends ==
  /\ work.at = "send" /\ runner = NoRunner
  /\ OnResponse("calling", ledger) = "calling"
  /\ work' = Idle
  /\ Register("calling")
  /\ Transmit(work.route)
  /\ UNCHANGED <<net, timeouts, ingress, queue, dispatch, heard, echoes, refused, crossed>>

(* The socket refuses the INVITE: its transaction is cancelled.  Nobody    *)
(* tells the call.                                                         *)
SendFails ==
  /\ work.at = "send" /\ runner = NoRunner
  /\ OnResponse("calling", ledger) = "calling"
  /\ work' = Idle
  /\ Register("terminated")
  /\ refused' = TRUE
  /\ UNCHANGED <<transport, timeouts, ingress, queue, dispatch, invited, heard, echoes, crossed>>

Runner == \/ RunnerFinishes \/ RunnerWaits \/ RunnerWakes
          \/ RetransmitTimer \/ Resend \/ TimeoutTimer
          \/ \E r \in timeouts : LocalUnavailable(r)

Worker == WorkerTakes \/ WorkerWrites \/ WorkerDispatches \/ Suppressed \/ WorkerSends \/ SendFails

Next ==
  \/ \E r \in Routes, kind \in Kinds : Respond(r, kind)
  \/ \E m \in net : Lose(m) \/ Receive(m)
  \/ IngressWrites
  \/ Runner
  \/ Worker

Spec == Init /\ [][Next]_vars

-----------------------------------------------------------------------------
(* "A received 1xx always wins" (runner.rs), as far as it is true: Timer A  *)
(* is never decided on once the ingress has seen a response of the gateway, *)
(* however the runner races with its notification ...                      *)
NoCopyAfterResponse ==
  [][runner.at = "select" /\ runner'.at = "resend" => runner.route \notin heard]_vars

(* ... so that only a copy decided on before can follow a response, and     *)
(* then the repetition has stopped for good.                               *)
OneLateCopy == TypeOK /\ \A r \in Routes : echoes[r] <= 1

(* What a gateway still sends to an answered call, a repeated or overtaken  *)
(* response, and a time-out that raced with the answer, leave the call      *)
(* established and on the route it is on (is_reinvite_response).            *)
AnsweredStays ==
  [][(call = "established") => (call' = "established" /\ current' = current)]_vars

(* The first INVITE is never left alone: until a response of its gateway    *)
(* comes, a runner repeats it or its time-out is about to be dispatched, so *)
(* that losing the INVITE and all its copies cannot hang the call.  Only a  *)
(* socket that refuses the INVITE leaves the call to the caller's patience. *)
FirstInviteWatched ==
  1 \notin heard /\ call = "routing" /\ current = 1 =>
    \/ work = [at |-> "send", route |-> 1]
    \/ runner # NoRunner
    \/ 1 \in timeouts
    \/ refused

(* A final response ends the runner, also when it is overtaken or repeated   *)
(* and its 1xx, still in the queue, is shown to the transaction after it: an *)
(* answered call that has nothing more to do leaves no runner behind.  Two  *)
(* threads in on_response at once can (crossed).                           *)
AnswerEndsRunner ==
  /\ call = "established" /\ ~crossed
  /\ runner # NoRunner /\ runner.route = current
  /\ ingress = Idle /\ queue = <<>> /\ work = Idle
  => IsTerminal(runner.control) /\ (runner.at = "select" => runner.told)

Quiescent ==
  runner = NoRunner /\ timeouts = {} /\ ingress = Idle /\ queue = <<>> /\ work = Idle

(* "首选中继返回 408 或 5xx，并且还有下一候选时，自动向下一候选重新发 INVITE"     *)
(* (ROUTING_TRUNK_GUIDE.md): when all that is to be done is done, the       *)
(* INVITE has gone to the route the call has moved to.  It is suppressed    *)
(* as a duplicate, or answered by the 503 of the gateway before it.         *)
FailoverSendsInvite ==
  Quiescent /\ ~refused /\ call = "routing" /\ moved = "response" => current \in invited

-----------------------------------------------------------------------------
(* What these rest on: a route that has not had its INVITE is idle and ahead *)
(* of the runner ...                                                        *)
OnlyInvited ==
  /\ \A r \in Routes : gateway[r] # "idle" => r <= current /\ work # [at |-> "send", route |-> r]
  /\ runner # NoRunner => runner.route <= current /\ work # [at |-> "send", route |-> runner.route]
  /\ work.at = "send" => work.route <= current
  /\ \A m \in net : gateway[m.route] # "idle"
  /\ \A r \in heard : gateway[r] # "idle"

(* ... the runner of a route that has been heard will notice ...            *)
RunnerKnows ==
  runner # NoRunner /\ runner.route \in heard => ledger # "none" \/ runner.control # "calling"

EchoesAfterHeard ==
  /\ \A r \in Routes : echoes[r] > 0 => r \in heard
  /\ runner.at = "resend" => echoes[runner.route] = 0

(* ... as long as nothing has been heard and nobody has given up, the call   *)
(* is where its INVITE left it ...                                          *)
Untouched ==
  heard = {} /\ current = 1 /\ call = "routing" =>
    /\ ingress = Idle /\ queue = <<>> /\ ledger = "none"
    /\ work \in {Idle, [at |-> "send", route |-> 1]}
    /\ work # Idle => runner = NoRunner
    /\ runner # NoRunner /\ ~refused => runner.control = "calling"
    /\ work = Idle /\ runner = NoRunner /\ ~refused => 1 \in timeouts

(* ... and a runner whose final response has been dispatched has it too.     *)
FinalReached ==
  /\ work.at = "note" => work.response.kind = "ringing"
  /\ call = "established" => work.at # "send"
  /\ call = "established" \/ (work.at = "dispatch" /\ work.response.kind \in Finals) =>
       crossed \/ runner = NoRunner \/ IsTerminal(runner.control)
  /\ runner.at = "select" /\ IsTerminal(runner.control) => runner.told

IInv == /\ OneLateCopy /\ OnlyInvited /\ RunnerKnows /\ EchoesAfterHeard
        /\ Untouched /\ FinalReached
=============================================================================
