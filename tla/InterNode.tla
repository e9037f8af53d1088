---------------------------- MODULE InterNode ----------------------------
(***************************************************************************)
(* How a SIP message reaches a peer whose TCP or WebSocket connection      *)
(* belongs to another node (cluster/inter_node.rs), and how the order of   *)
(* the responses to one INVITE survives the way there                      *)
(* (sip/dispatcher/response/mod.rs, edge_state/transport.rs).              *)
(*                                                                         *)
(* A worker prepares a datagram, then sends it.  A response to the INVITE  *)
(* takes the InviteResponseOrder mutex of the session in both steps and,   *)
(* in the second, keeps it until the owner of the connection has answered. *)
(* Any two responses may be in progress at once, as the code assumes; the  *)
(* order is that of one INVITE, so its CSeq does not change.               *)
(*                                                                         *)
(* The owner answers once the message is in the bounded write queue of the *)
(* connection; a request that gets no good answer is repeated with the     *)
(* same message id, which the owner remembers for a while.                 *)
(*                                                                         *)
(* Core NATS delivers in order and at most once: requests may be lost, and *)
(* are when the owner restarts.  Time is measured in tries: a try lasts    *)
(* from one publication to the next.                                       *)
(***************************************************************************)
EXTENDS Naturals, Sequences

CONSTANTS
  Msgs,         \* the datagrams for the peer, each with one message id
  Responses,    \* those that are responses to the INVITE of the session
  Provisional,  \* the responses below 200
  MaxRetries,   \* inter_node_max_retries
  TtlTries,     \* inter_node_dedupe_ttl_secs, in tries
  QueueMax,     \* the capacity of a connection's write queue (100)
  MaxFaults,    \* bound: losses, closed connections and restarts in a behaviour
  None          \* nobody holds the mutex

\* The defaults give four tries 2.5 s and the dedupe table 120 s; validate()
\* checks that neither is zero, not that the second is the longer one.
ASSUME TriesAssumption == MaxRetries \in Nat /\ TtlTries \in Nat /\ TtlTries > MaxRetries
ASSUME ResponsesAssumption ==
  Provisional \subseteq Responses /\ Responses \subseteq Msgs /\ None \notin Msgs
ASSUME NumbersAssumption == QueueMax \in Nat \ {0} /\ MaxFaults \in Nat

VARIABLES
  stage,     \* stage[m]: where the worker is with m
  attempt,   \* attempt[m]: the try publish() is at
  order,     \* the InviteResponseOrder of the session
  lock,      \* who holds its mutex while sending
  requests,  \* the requests on their way to the owner
  acks,      \* the answers on their way back
  dedupe,    \* the message ids the owner remembers
  since,     \* since[m]: the try whose request put m into dedupe
  open,      \* the owner has a connection to the peer
  queue,     \* its write queue
  log,       \* every message that ever entered a write queue, with the owner's life
  life,      \* how often the owner has restarted
  faults

publisher == <<stage, attempt, order, lock>>
owner == <<dedupe, since, open, queue, log, life>>
vars == <<publisher, requests, acks, owner, faults>>

Stages == {"arrived", "ready", "waiting", "sleeping", "ok", "error", "dropped"}
Ended == {"ok", "error", "dropped"}
Tries == 0 .. MaxRetries
Requests == [msg : Msgs, try : Tries]

Init ==
  /\ stage = [m \in Msgs |-> IF m \in Responses THEN "arrived" ELSE "ready"]
  /\ attempt = [m \in Msgs |-> 0]
  /\ order = [seen |-> FALSE, started |-> FALSE]
  /\ lock = None
  /\ requests = <<>>
  /\ acks = {}
  /\ dedupe = {}
  /\ since = [m \in Msgs |-> 0]
  /\ open = TRUE
  /\ queue = <<>>
  /\ log = <<>>
  /\ life = 0
  /\ faults = 0

Fault == faults < MaxFaults /\ faults' = faults + 1

-----------------------------------------------------------------------------
(* The worker that handles the gateway's response and the one that sends.  *)

Final(m) == m \in Responses \ Provisional
TooLate(m) == m \in Provisional /\ order.seen

\* handle_response: a provisional response after the final one goes no further.
Process(m) ==
  /\ stage[m] = "arrived"
  /\ lock = None
  /\ ~TooLate(m)
  /\ order' = [order EXCEPT !.seen = @ \/ Final(m)]
  /\ stage' = [stage EXCEPT ![m] = "ready"]
  /\ UNCHANGED <<attempt, lock, requests, acks, owner, faults>>

ProcessLate(m) ==
  /\ stage[m] = "arrived"
  /\ lock = None
  /\ TooLate(m)
  /\ stage' = [stage EXCEPT ![m] = "dropped"]
  /\ UNCHANGED <<attempt, order, lock, requests, acks, owner, faults>>

\* send_sip_datagram looks again: the final response may have overtaken this one.
Superseded(m) == m \in Provisional /\ order.started

\* Fault: the mutex covers the preparation of a response, not its sending.
MayLock_NotHeld(m) == TRUE
MayLock(m) == m \in Responses => lock = None
Locked(m) == IF m \in Responses THEN m ELSE lock
Unlocked(m) == IF m \in Responses THEN None ELSE lock

SendDropped(m) ==
  /\ stage[m] = "ready"
  /\ MayLock(m)
  /\ Superseded(m)
  /\ stage' = [stage EXCEPT ![m] = "dropped"]
  /\ UNCHANGED <<attempt, order, lock, requests, acks, owner, faults>>

Send(m) ==
  /\ stage[m] = "ready"
  /\ MayLock(m)
  /\ ~Superseded(m)
  /\ order' = [order EXCEPT !.started = @ \/ Final(m)]
  /\ lock' = Locked(m)
  /\ stage' = [stage EXCEPT ![m] = "waiting"]
  /\ requests' = Append(requests, [msg |-> m, try |-> 0])
  /\ UNCHANGED <<attempt, acks, owner, faults>>

-----------------------------------------------------------------------------
(* ClusterEgress::publish.                                                 *)

Answers(m) == {a \in acks : a.msg = m}

\* One try has failed: sleep before the next, or give up with an error.
TryFails(m) ==
  /\ acks' = acks \ Answers(m)
  /\ \/ /\ attempt[m] < MaxRetries
        /\ stage' = [stage EXCEPT ![m] = "sleeping"]
        /\ lock' = lock
     \/ /\ attempt[m] = MaxRetries
        /\ stage' = [stage EXCEPT ![m] = "error"]
        /\ lock' = Unlocked(m)
  /\ UNCHANGED <<attempt, order, requests, owner, faults>>

Accepted(m) ==
  /\ stage[m] = "waiting"
  /\ \E a \in Answers(m) : a.accepted
  /\ stage' = [stage EXCEPT ![m] = "ok"]
  /\ lock' = Unlocked(m)
  /\ acks' = acks \ Answers(m)
  /\ UNCHANGED <<attempt, order, requests, owner, faults>>

Rejected(m) ==
  /\ stage[m] = "waiting"
  /\ \E a \in Answers(m) : ~a.accepted
  /\ TryFails(m)

\* Fault: the request is awaited without a time limit.
TimesOut_Never(m) == stage[m] = "waiting" /\ Answers(m) # {}
TimesOut(m) == stage[m] = "waiting"
AckTimeout(m) == TimesOut(m) /\ TryFails(m)

Retry(m) ==
  /\ stage[m] = "sleeping"
  /\ stage' = [stage EXCEPT ![m] = "waiting"]
  /\ attempt' = [attempt EXCEPT ![m] = @ + 1]
  /\ requests' = Append(requests, [msg |-> m, try |-> attempt[m] + 1])
  /\ UNCHANGED <<order, lock, acks, owner, faults>>

-----------------------------------------------------------------------------
(* The owner of the connection.                                            *)

\* The inbox of a request goes away with the request.
Reply(r, accepted) ==
  IF stage[r.msg] = "waiting" /\ attempt[r.msg] = r.try
  THEN acks \cup {[msg |-> r.msg, accepted |-> accepted]}
  ELSE acks

\* accept_message for an id it knows, for a message it can queue, and for one it cannot.
AcceptAgain ==
  /\ requests # <<>>
  /\ Head(requests).msg \in dedupe
  /\ acks' = Reply(Head(requests), TRUE)
  /\ requests' = Tail(requests)
  /\ UNCHANGED <<publisher, owner, faults>>

\* Fault: the write queue takes one more than its capacity.
HasRoom_Over == open /\ Len(queue) <= QueueMax
HasRoom == open /\ Len(queue) < QueueMax
\* Fault: the owner does not note the id of a message it has queued.
Remembered_Never(m) == dedupe
Remembered(m) == dedupe \cup {m}

Accept ==
  /\ requests # <<>>
  /\ Head(requests).msg \notin dedupe
  /\ HasRoom
  /\ LET r == Head(requests)
     IN  /\ queue' = Append(queue, r.msg)
         /\ log' = Append(log, [msg |-> r.msg, life |-> life])
         /\ dedupe' = Remembered(r.msg)
         /\ since' = [since EXCEPT ![r.msg] = r.try]
         /\ acks' = Reply(r, TRUE)
  /\ requests' = Tail(requests)
  /\ UNCHANGED <<publisher, open, life, faults>>

Reject ==
  /\ requests # <<>>
  /\ Head(requests).msg \notin dedupe
  /\ ~HasRoom
  /\ acks' = Reply(Head(requests), FALSE)
  /\ requests' = Tail(requests)
  /\ UNCHANGED <<publisher, owner, faults>>

\* The cleanup task: an id goes when it is older than the TTL.  No request stays
\* that long on its way, and no publisher is then still at it unless it has been
\* through TtlTries tries since.
OnTheWay(m) == \E i \in 1 .. Len(requests) : requests[i].msg = m
Expired(m) == stage[m] \in Ended \/ attempt[m] >= since[m] + TtlTries
Expire(m) ==
  /\ m \in dedupe
  /\ ~OnTheWay(m)
  /\ Expired(m)
  /\ dedupe' = dedupe \ {m}
  /\ UNCHANGED <<publisher, requests, acks, since, open, queue, log, life, faults>>

\* handle_stream_connection writes what is queued; when it ends, the rest is lost.
Write ==
  /\ open
  /\ queue # <<>>
  /\ queue' = Tail(queue)
  /\ UNCHANGED <<publisher, requests, acks, dedupe, since, open, log, life, faults>>

Close ==
  /\ Fault
  /\ open
  /\ open' = FALSE
  /\ queue' = <<>>
  /\ UNCHANGED <<publisher, requests, acks, dedupe, since, log, life>>

Register ==
  /\ ~open
  /\ open' = TRUE
  /\ UNCHANGED <<publisher, requests, acks, dedupe, since, queue, log, life, faults>>

\* Connections and memory go with the process, and NATS drops what was for it.
Restart ==
  /\ Fault
  /\ life' = life + 1
  /\ dedupe' = {}
  /\ open' = FALSE
  /\ queue' = <<>>
  /\ requests' = <<>>
  /\ UNCHANGED <<publisher, acks, since, log>>

LoseRequest ==
  /\ Fault
  /\ requests # <<>>
  /\ requests' = Tail(requests)
  /\ UNCHANGED <<publisher, acks, owner>>

LoseAck(m) ==
  /\ Fault
  /\ Answers(m) # {}
  /\ acks' = acks \ Answers(m)
  /\ UNCHANGED <<publisher, requests, owner>>

-----------------------------------------------------------------------------
Next ==
  \/ \E m \in Msgs :
       \/ (m \in Responses /\ (Process(m) \/ ProcessLate(m)))
       \/ SendDropped(m) \/ Send(m)
       \/ Accepted(m) \/ Rejected(m) \/ AckTimeout(m) \/ Retry(m)
       \/ Expire(m) \/ LoseAck(m)
  \/ AcceptAgain \/ Accept \/ Reject
  \/ Write \/ Close \/ Register \/ Restart \/ LoseRequest

Spec == Init /\ [][Next]_vars

\* The workers run, a tokio mutex is fair, and tokio's timers fire.
Fairness ==
  \A m \in Msgs :
    /\ WF_vars(m \in Responses /\ (Process(m) \/ ProcessLate(m)))
    /\ WF_vars(SendDropped(m) \/ Send(m))
    /\ WF_vars(AckTimeout(m))
    /\ WF_vars(Retry(m))
FairSpec == Spec /\ Fairness

-----------------------------------------------------------------------------
(* What it promises.                                                       *)

TypeOK ==
  /\ stage \in [Msgs -> Stages]
  /\ attempt \in [Msgs -> Tries]
  /\ order \in [seen : BOOLEAN, started : BOOLEAN]
  /\ lock \in Responses \cup {None}
  /\ requests \in Seq(Requests)
  /\ acks \subseteq [msg : Msgs, accepted : BOOLEAN]
  /\ dedupe \subseteq Msgs
  /\ since \in [Msgs -> Tries]
  /\ open \in BOOLEAN
  /\ queue \in Seq(Msgs) /\ Len(queue) <= QueueMax
  /\ log \in Seq([msg : Msgs, life : Nat])
  /\ life \in Nat
  /\ faults \in 0 .. MaxFaults

\* However often a request is repeated, and whatever answers are lost, an owner
\* that does not restart puts a message into a write queue once; and publish()
\* returns success only for a message that has been in one.
WrittenOnce ==
  \A i, j \in 1 .. Len(log) : log[i].msg = log[j].msg /\ log[i].life = log[j].life => i = j
OkMeansQueued ==
  \A m \in Msgs : stage[m] = "ok" => \E i \in 1 .. Len(log) : log[i].msg = m
ExactlyOnce == WrittenOnce /\ OkMeansQueued

\* No provisional response enters a write queue after a final one, although two
\* workers send them, each with retries of its own.
ResponsesInOrder ==
  \A i, j \in 1 .. Len(log) :
    Final(log[i].msg) /\ log[j].msg \in Provisional => j < i

\* Every message ends: delivered, dropped for the order, or with a definite error,
\* even when the owner never answers again.
Returns == \A m \in Msgs : <>(stage[m] \in Ended)

-----------------------------------------------------------------------------
(* What these rest on.                                                     *)

Sending == {"waiting", "sleeping"}
HasQueued(m) == \E i \in 1 .. Len(log) : log[i].msg = m

\* publish() sleeps only before a try it still has.
TriesLeft == \A m \in Msgs : stage[m] = "sleeping" => attempt[m] < MaxRetries

\* In one life of the owner an id that has gone through is known to it, or nobody
\* will ask for it any more: dedupe outlives publish().
Remembering ==
  \A i \in 1 .. Len(log) :
    /\ log[i].life <= life
    /\ log[i].life = life =>
         log[i].msg \in dedupe \/ (stage[log[i].msg] \in Ended /\ ~OnTheWay(log[i].msg))

\* An owner says yes only to what it has queued.
Honest ==
  /\ \A m \in dedupe : HasQueued(m)
  /\ \A a \in acks : a.accepted => HasQueued(a.msg)

\* A response holds the mutex from its first request to its end, so no final one
\* starts while a provisional one is under way.
OneResponseAtATime ==
  /\ \A m \in Responses : stage[m] \in Sending => lock = m
  /\ order.started => \A m \in Provisional : stage[m] \notin Sending
  /\ \A m \in Msgs : Final(m) /\ stage[m] \in Sending => order.started

\* The order in which they start is the order on the way to the owner.
RequestsInOrder ==
  /\ \A i \in 1 .. Len(requests) : Final(requests[i].msg) => order.started
  /\ \A i \in 1 .. Len(log) : Final(log[i].msg) => order.started
  /\ \A i, j \in 1 .. Len(requests) :
       i < j /\ Final(requests[i].msg) => requests[j].msg \notin Provisional
  /\ \A i \in 1 .. Len(log), j \in 1 .. Len(requests) :
       Final(log[i].msg) => requests[j].msg \notin Provisional

IInv ==
  /\ TypeOK /\ TriesLeft /\ Remembering /\ ExactlyOnce /\ Honest
  /\ OneResponseAtATime /\ RequestsInOrder /\ ResponsesInOrder
============================================================================
