------------------------- MODULE ServerTransaction -------------------------
(***************************************************************************)
(* The caller's side of one INVITE: the worker of the caller's Call-ID     *)
(* (sip/dispatcher/request.rs), the worker of the gateway's Call-ID        *)
(* (sip/dispatcher/response/), and the task of the INVITE server           *)
(* transaction (sip/transaction/server.rs), which repeats responses until  *)
(* the ACK comes.                                                          *)
(*                                                                         *)
(* A UDP worker takes one datagram after the other; the three run side by  *)
(* side, and each of them writes to the caller.  The caller's messages     *)
(* reach the first worker in order, late copies of the INVITE at any time; *)
(* those of the gateway reach the second in any order.                     *)
(***************************************************************************)
EXTENDS Naturals, Sequences

CONSTANTS
  ChanMax,    \* capacity of the task's event channel (4)
  Resends,    \* how often Timer G fires before Timer H does (10)
  MaxLosses,  \* bound: datagrams to and ACKs from the caller that get lost
  MaxCopies   \* bound: copies of the INVITE the caller or the network makes

ASSUME BoundsAssumption ==
  ChanMax \in Nat \ {0} /\ Resends \in Nat /\ MaxLosses \in Nat /\ MaxCopies \in Nat
\* Timer H outlasts the losses this is about.
ASSUME LossesAssumption == MaxLosses <= Resends

VARIABLES
  inbox,      \* what the caller's worker has still to take
  entry,      \* server_transactions and invite_ack_transactions know the task
  task,       \* its phase
  chan,       \* its event channel
  resends,    \* how often Timer G has fired
  expired,    \* Timer H has ended a transaction of this INVITE
  session,    \* inbound_transactions has the call
  finalSeen,  \* final_response_seen of the call's InviteResponseOrder
  gateway,    \* responses on their way from the gateway
  decided,    \* the gateway has sent its final response
  held,       \* the response the gateway's worker has in hand, and where it is
  runs,       \* how often the handler has taken the INVITE for a new call
  local,      \* the handler answered the INVITE with a 2xx itself
  sent,       \* what went out to the caller, repetitions left out
  got,        \* what the caller has received
  toAck,      \* the caller has received a final response it has not yet acknowledged
  acked,      \* the caller has sent an ACK
  cancelled,  \* the caller has cancelled
  copies, lost

ProvisionalResponse == "1xx"
FinalResponse == "final"
ServerResponses == {ProvisionalResponse, FinalResponse}
Nothing == "none"

caller == <<got, toAck, acked, cancelled, copies>>
tx == <<entry, task, chan, resends, expired>>
call == <<session, finalSeen, gateway, decided, held, runs, local>>
serverVars == <<inbox, tx, call, sent, caller, lost>>

ServerInit ==
  /\ inbox = <<"INVITE">>
  /\ entry = FALSE /\ task = "none" /\ chan = <<>> /\ resends = 0
  /\ expired = FALSE
  /\ session = FALSE /\ finalSeen = FALSE
  /\ gateway = {} /\ decided = FALSE
  /\ held = [response |-> Nothing, step |-> Nothing]
  /\ runs = 0 /\ local = FALSE
  /\ sent = <<>> /\ got = {} /\ toAck = FALSE
  /\ acked = FALSE /\ cancelled = FALSE
  /\ copies = 0 /\ lost = 0

-----------------------------------------------------------------------------
(* The network to the caller, and the caller.                              *)

Loses == lost < MaxLosses /\ lost' = lost + 1

\* r goes out: the caller receives it, or it is lost.
Transmit(r) ==
  /\ sent' = IF sent # <<>> /\ sent[Len(sent)] = r THEN sent ELSE Append(sent, r)
  /\ \/ got' = got \cup {r} /\ toAck' = (toAck \/ r = FinalResponse) /\ lost' = lost
     \/ Loses /\ UNCHANGED <<got, toAck>>
  /\ UNCHANGED <<acked, cancelled, copies>>

Copy ==
  /\ copies < MaxCopies
  /\ copies' = copies + 1
  /\ inbox' = Append(inbox, "INVITE")
  /\ UNCHANGED <<tx, call, sent, got, toAck, acked, cancelled, lost>>

\* A caller acknowledges every final response it receives.
Acknowledge ==
  /\ toAck
  /\ toAck' = FALSE
  /\ acked' = TRUE
  /\ \/ inbox' = Append(inbox, "ACK") /\ lost' = lost
     \/ Loses /\ inbox' = inbox
  /\ UNCHANGED <<tx, call, sent, got, cancelled, copies>>

\* It may cancel between a provisional and a final response.
Cancel ==
  /\ ProvisionalResponse \in got
  /\ FinalResponse \notin got
  /\ ~cancelled
  /\ cancelled' = TRUE
  /\ inbox' = Append(inbox, "CANCEL")
  /\ UNCHANGED <<tx, call, sent, got, toAck, acked, copies, lost>>

-----------------------------------------------------------------------------
(* dispatch_request, in the worker of the caller's Call-ID.                *)

Comes(m) == inbox # <<>> /\ Head(inbox) = m
Taken == inbox' = Tail(inbox)
Room == Len(chan) < ChanMax
Event(kind, r) == [kind |-> kind, response |-> r]
Push(e) == chan' = Append(chan, e)

\* get_server_transaction: the sender is there and its receiver is not gone.
Live == entry /\ task # "done"

\* A copy of the INVITE goes to the live task, once there is room for it.
FeedCopy ==
  /\ Comes("INVITE")
  /\ Live
  /\ Room
  /\ Push(Event("request", Nothing))
  /\ Taken
  /\ UNCHANGED <<entry, task, resends, expired, call, sent, caller, lost>>

\* register_server_transaction and the spawned task, with its first event.
\* Fault: the transaction is not registered.
Registered_Not == FALSE
Registered == TRUE
Spawn(r) ==
  /\ entry' = Registered
  /\ task' = "proceeding"
  /\ chan' = <<Event("response", r)>>
  /\ resends' = 0

\* handle_request places the call: 100 Trying, and an INVITE for the gateway.
Place ==
  /\ Comes("INVITE")
  /\ ~Live
  /\ runs' = runs + 1
  /\ session' = TRUE
  /\ finalSeen' = FALSE
  /\ Spawn(ProvisionalResponse)
  /\ Taken
  /\ UNCHANGED <<expired, gateway, decided, held, local, sent, caller, lost>>

\* It refuses the call: one final response, by way of the transaction.
Refuse ==
  /\ Comes("INVITE")
  /\ ~Live
  /\ runs' = runs + 1
  /\ Spawn(FinalResponse)
  /\ Taken
  /\ UNCHANGED <<expired, session, finalSeen, gateway, decided, held, local, sent, caller, lost>>

\* A conference or an IVR answers with a 2xx, which the worker sends itself.
AnswerLocally ==
  /\ Comes("INVITE")
  /\ ~Live
  /\ runs' = runs + 1
  /\ local' = TRUE
  /\ session' = TRUE
  /\ entry' = FALSE
  /\ Transmit(FinalResponse)
  /\ Taken
  /\ UNCHANGED <<task, chan, resends, expired, finalSeen, gateway, decided, held>>

\* The handler drops a copy that comes within half a second of the last.
Suppress ==
  /\ Comes("INVITE")
  /\ ~Live
  /\ runs > 0
  /\ entry' = FALSE
  /\ Taken
  /\ UNCHANGED <<task, chan, resends, expired, call, sent, caller, lost>>

\* take_invite_ack_transaction: the entry goes, and with it the last sender.
TakeAck ==
  /\ Comes("ACK")
  /\ Live => Room
  /\ entry' = FALSE
  /\ chan' = IF Live THEN Append(chan, Event("ack", Nothing)) ELSE chan
  /\ Taken
  /\ UNCHANGED <<task, resends, expired, call, sent, caller, lost>>

\* The CANCEL is answered and forwarded, and the session torn down.
TakeCancel ==
  /\ Comes("CANCEL")
  /\ session' = FALSE
  /\ Taken
  /\ UNCHANGED <<tx, finalSeen, gateway, decided, held, runs, local, sent, caller, lost>>

-----------------------------------------------------------------------------
(* The gateway, and dispatch_response in the worker of its Call-ID.        *)

\* The gateway rings, and then ends the INVITE once: 200, 4xx, or 487 for a CANCEL.
GatewaySends(r) ==
  /\ runs > 0 /\ ~local
  /\ session \/ cancelled
  /\ ~decided
  /\ r \notin gateway
  /\ gateway' = gateway \cup {r}
  /\ decided' = (r = FinalResponse)
  /\ UNCHANGED <<inbox, tx, session, finalSeen, held, runs, local, sent, caller, lost>>

\* It goes no further without its session, or when a final response was here before.
Forwards(r) == session /\ ~(r = ProvisionalResponse /\ finalSeen)

TakeResponse(r) ==
  /\ held.response = Nothing
  /\ r \in gateway
  /\ gateway' = gateway \ {r}
  /\ held' = IF Forwards(r) THEN [response |-> r, step |-> "notify"] ELSE held
  /\ finalSeen' = (finalSeen \/ (session /\ r = FinalResponse))
  /\ UNCHANGED <<inbox, tx, session, decided, runs, local, sent, caller, lost>>

\* notify_invite_server_transaction: the task is told, to repeat what is sent here.
\* Fault: only provisional responses are passed on.
Noted_NoFinal(r) == r = ProvisionalResponse
Noted(r) == TRUE
Notify ==
  /\ held.step = "notify"
  /\ held' = [held EXCEPT !.step = "send"]
  /\ \/ /\ Live /\ Noted(held.response)
        /\ Room
        /\ Push(Event(IF held.response = FinalResponse THEN "observe" ELSE "update", held.response))
     \/ /\ ~(Live /\ Noted(held.response))
        /\ chan' = chan
  /\ UNCHANGED <<inbox, entry, task, resends, expired, session, finalSeen, gateway, decided,
                 runs, local, sent, caller, lost>>

Forward ==
  /\ held.step = "send"
  /\ Transmit(held.response)
  /\ held' = [response |-> Nothing, step |-> Nothing]
  /\ UNCHANGED <<inbox, tx, session, finalSeen, gateway, decided, runs, local>>

-----------------------------------------------------------------------------
(* The task.                                                               *)

Is(kind) == chan # <<>> /\ chan[1].kind = kind
Popped == chan' = Tail(chan)
quiet == <<sent, caller, lost>>
aside == <<inbox, entry, resends, expired, call>>

\* A response from the handler is sent and kept, one from the gateway is kept.
TaskResponds ==
  /\ task = "proceeding"
  /\ Is("response")
  /\ Transmit(chan[1].response)
  /\ task' = IF chan[1].response = FinalResponse THEN "final" ELSE task
  /\ Popped
  /\ UNCHANGED aside

TaskObserves ==
  /\ task = "proceeding"
  /\ Is("observe") \/ Is("update")
  /\ task' = IF Is("observe") THEN "final" ELSE task
  /\ Popped
  /\ UNCHANGED <<aside, quiet>>

\* A copy of the INVITE is answered with what was kept last.
Kept == IF task = "final" THEN FinalResponse ELSE ProvisionalResponse
TaskRepeats ==
  /\ task \in {"proceeding", "final"}
  /\ Is("request")
  /\ Transmit(Kept)
  /\ Popped
  /\ UNCHANGED <<aside, task>>

\* The ACK ends it.  No sender is left then, so that Timer I does not hold it.
TaskAcked ==
  /\ task \in {"proceeding", "final"}
  /\ Is("ack")
  /\ task' = "done"
  /\ chan' = <<>>
  /\ UNCHANGED <<aside, quiet>>

\* With a final response kept, nothing but a request or an ACK matters.
TaskIgnores ==
  /\ task = "final"
  /\ Is("response") \/ Is("observe") \/ Is("update")
  /\ Popped
  /\ UNCHANGED <<aside, task, quiet>>

\* Timers G and H (L for a 2xx).
TimerG ==
  /\ task = "final"
  /\ resends < Resends
  /\ resends' = resends + 1
  /\ Transmit(FinalResponse)
  /\ UNCHANGED <<inbox, entry, task, chan, expired, call>>

TimerH ==
  /\ task = "final"
  /\ resends = Resends
  /\ task' = "done"
  /\ chan' = <<>>
  /\ expired' = TRUE
  /\ UNCHANGED <<inbox, entry, resends, call, quiet>>

-----------------------------------------------------------------------------
Caller == Copy \/ Acknowledge \/ Cancel
CallerWorker ==
  FeedCopy \/ Place \/ Refuse \/ AnswerLocally \/ Suppress \/ TakeAck \/ TakeCancel
GatewayWorker == (\E r \in ServerResponses : TakeResponse(r)) \/ Notify \/ Forward
TaskEvent == TaskResponds \/ TaskObserves \/ TaskRepeats \/ TaskAcked \/ TaskIgnores
Task == TaskEvent \/ TimerG \/ TimerH

ServerNext ==
  \/ Caller \/ CallerWorker \/ GatewayWorker \/ Task
  \/ \E r \in ServerResponses : GatewaySends(r)

ServerSpec == ServerInit /\ [][ServerNext]_serverVars

\* Workers and tasks run, and tokio's timers fire.
FairServerSpec ==
  /\ ServerSpec
  /\ WF_serverVars(CallerWorker) /\ WF_serverVars(GatewayWorker)
  /\ WF_serverVars(TaskEvent) /\ WF_serverVars(TimerG) /\ WF_serverVars(TimerH)

-----------------------------------------------------------------------------
(* What it promises.                                                       *)

EventKinds == {"request", "response", "observe", "update", "ack"}
ServerTypeOK ==
  /\ inbox \in Seq({"INVITE", "ACK", "CANCEL"})
  /\ entry \in BOOLEAN
  /\ task \in {"none", "proceeding", "final", "done"}
  /\ chan \in Seq([kind : EventKinds, response : ServerResponses \cup {Nothing}])
  /\ Len(chan) <= ChanMax
  /\ resends \in 0 .. Resends
  /\ expired \in BOOLEAN
  /\ session \in BOOLEAN /\ finalSeen \in BOOLEAN /\ local \in BOOLEAN
  /\ gateway \subseteq ServerResponses /\ decided \in BOOLEAN
  /\ held \in [response : ServerResponses \cup {Nothing}, step : {Nothing, "notify", "send"}]
  /\ runs \in Nat
  /\ sent \in Seq(ServerResponses) /\ got \subseteq ServerResponses
  /\ toAck \in BOOLEAN /\ acked \in BOOLEAN /\ cancelled \in BOOLEAN
  /\ copies \in 0 .. MaxCopies /\ lost \in 0 .. MaxLosses

\* Whatever copies of it arrive, the INVITE makes one call: a second run of the
\* handler needs an ACK of the caller or Timer H first.  (A call answered by the edge
\* itself has no server transaction and is excepted.)
OneCall == ServerTypeOK /\ (runs > 1 => (acked \/ local \/ expired))

\* The final response of the gateway or of the handler reaches the caller in spite of
\* MaxLosses lost datagrams, unless the caller cancels or the edge answers by itself.
Answered ==
  (decided \/ \E i \in 1 .. Len(sent) : sent[i] = FinalResponse)
    ~> (FinalResponse \in got \/ cancelled \/ local)
============================================================================
