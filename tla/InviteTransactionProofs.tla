----------------------- MODULE InviteTransactionProofs -----------------------
(***************************************************************************)
(* The INVITE of a call, for any list of routes, any channel of its worker *)
(* and any number of responses on the network.                             *)
(*                                                                         *)
(* Two threads and a runner share the state of the transaction, and the    *)
(* ledger is what they meet at: a response the ingress has seen is either  *)
(* in the ledger or already in the state of the runner (RunnerKnows), so   *)
(* that the check before a copy finds it.  A final response has reached    *)
(* the runner before it reaches the call (FinalReached).                   *)
(***************************************************************************)
EXTENDS InviteTransaction, TLAPS

LEMMA Numbers ==
  /\ LastRoute \in Nat /\ LastRoute > 0 /\ MaxQueue \in Nat /\ MaxQueue > 0
  /\ 1 \in Routes
  BY TransactionAssumption DEF Routes

(* What a step is. *)
LEMMA Steps ==
  ASSUME [Next]_vars
  PROVE  \/ \E r \in Routes, kind \in Kinds : Respond(r, kind)
         \/ \E m \in net : Lose(m)
         \/ \E m \in net : Receive(m)
         \/ IngressWrites
         \/ RunnerFinishes \/ RunnerWaits \/ RunnerWakes
         \/ RetransmitTimer \/ Resend \/ TimeoutTimer
         \/ \E r \in timeouts : LocalUnavailable(r)
         \/ WorkerTakes \/ WorkerWrites \/ WorkerDispatches
         \/ Suppressed \/ WorkerSends \/ SendFails
         \/ UNCHANGED vars
  BY Zenon DEF Next, Runner, Worker

-----------------------------------------------------------------------------
Threads == {"ingress", "worker"}

Active == [at : {"loop", "select", "resend"}, control : Controls, armed : BOOLEAN,
           route : Routes, told : BOOLEAN, loaded : SUBSET Threads]

LEMMA RunnerIs ==
  ASSUME NEW r
  PROVE  /\ r \in Runners <=> r = NoRunner \/ r \in Active
         /\ r \in Runners /\ r.at \in {"loop", "select", "resend"} => r \in Active
         /\ NoRunner.at = "none" /\ NoRunner \notin Active
  BY DEF Runners, Active, Threads, NoRunner

(* What on_response does to a state ...                                    *)
LEMMA OnResponseIs ==
  ASSUME NEW control \in Controls, NEW class \in {"none", "provisional", "final"}
  PROVE  /\ OnResponse(control, class) \in Controls
         /\ IsTerminal(control) => OnResponse(control, class) = control
         /\ class = "none" => OnResponse(control, class) = control
         /\ class = "final" => IsTerminal(OnResponse(control, class))
         /\ class # "none" => OnResponse(control, class) # "calling"
         /\ OnResponse(control, class) # control => class # "none"
  BY DEF OnResponse, IsTerminal, Controls

(* ... and to its runner.                                                   *)
LEMMA AppliedIs ==
  ASSUME NEW r \in Active, NEW class \in {"none", "provisional", "final"}
  PROVE  /\ Applied(r, class) \in Active
         /\ Applied(r, class).at = r.at /\ Applied(r, class).route = r.route
         /\ Applied(r, class).control = OnResponse(r.control, class)
         /\ Applied(r, class).told = (r.told \/ OnResponse(r.control, class) # r.control)
  <1>1. OnResponse(r.control, class) \in Controls
    BY OnResponseIs DEF Active
  <1> QED
    BY <1>1 DEF Applied, Active

LEMMA WorkIs ==
  ASSUME NEW w \in Works
  PROVE  /\ w.at \in {"note", "dispatch"} => w.response \in Responses
         /\ w.at = "send" => w.route \in Routes /\ w = [at |-> "send", route |-> w.route]
         /\ Idle.at = "idle"
         /\ w.at = "idle" => w = Idle
         /\ w.at \in {"idle", "note", "dispatch", "send"}
  BY DEF Works, Idle
(* What the operators of Sequences do. *)
LEMMA AppendIs ==
  ASSUME NEW S, NEW s \in Seq(S), NEW e \in S
  PROVE  Append(s, e) \in Seq(S) /\ Len(Append(s, e)) = Len(s) + 1 /\ Len(s) \in Nat
  BY DEF Append

LEMMA TailIs ==
  ASSUME NEW S, NEW s \in Seq(S), s # <<>>
  PROVE  /\ Head(s) \in S /\ Tail(s) \in Seq(S)
         /\ Len(s) \in Nat /\ Len(Tail(s)) \in Nat /\ Len(Tail(s)) <= Len(s)
  BY DEF Head, Tail

-----------------------------------------------------------------------------
Ledgers == {"none", "provisional", "final"}

LEMMA ClassIs ==
  ASSUME NEW kind \in Kinds
  PROVE  /\ ClassOf(kind) \in Ledgers /\ ClassOf(kind) # "none"
         /\ kind \in Finals => ClassOf(kind) = "final"
  BY DEF ClassOf, Ledgers, Finals, Kinds

LEMMA ObservedType ==
  ASSUME runner \in Runners, NEW class \in Ledgers, Observe(class)
  PROVE  runner' \in Runners /\ ledger' \in Ledgers
  BY RunnerIs, AppliedIs DEF Observe, Ledgers

LEMMA LoadedType ==
  ASSUME runner \in Runners, NEW by \in Threads, Alive, Loads(by)
  PROVE  runner' \in Runners /\ ledger' \in Ledgers
  BY RunnerIs DEF Loads, Ledgers, Active, Alive

LEMMA WrittenType ==
  ASSUME runner \in Runners, NEW by \in Threads, Writes(by)
  PROVE  runner' \in Runners
  <1>1. CASE runner # NoRunner /\ by \in runner.loaded
    <2>1. runner \in Active
      BY <1>1, RunnerIs
    <2>2. runner' = [runner EXCEPT !.loaded = @ \ {by}, !.control = "proceeding",
                                   !.told = @ \/ runner.control # "proceeding"]
      BY <1>1 DEF Writes
    <2>3. runner' \in Active
      BY <2>1, <2>2 DEF Active, Controls
    <2> QED
      BY <2>3, RunnerIs
  <1>2. CASE ~(runner # NoRunner /\ by \in runner.loaded)
    BY <1>2 DEF Writes
  <1> QED
    BY <1>1, <1>2

LEMMA RunnerTyped ==
  ASSUME TypeOK, [Next]_vars
  PROVE  runner' \in Runners /\ ledger' \in Ledgers
  <1> USE DEF Ledgers, transaction
  <1>t. runner \in Runners /\ ledger \in Ledgers /\ work \in Works
    BY DEF TypeOK
  <1>1. ASSUME NEW m \in net, Receive(m)
        PROVE  runner' \in Runners /\ ledger' \in Ledgers
    <2>1. m.kind \in Kinds
      BY <1>1 DEF TypeOK, Responses
    <2> QED
      BY <1>t, <1>1, <2>1, ClassIs, ObservedType, LoadedType DEF Receive, Threads
  <1>2. ASSUME IngressWrites \/ WorkerWrites
        PROVE  runner' \in Runners /\ ledger' \in Ledgers
    BY <1>t, <1>2, WrittenType DEF IngressWrites, WorkerWrites, Threads
  <1>3. CASE RunnerFinishes \/ TimeoutTimer
    BY <1>3, RunnerIs DEF RunnerFinishes, TimeoutTimer
  <1>4. CASE RunnerWaits \/ RetransmitTimer
    <2>1. runner \in Active /\ ledger' = ledger
      BY <1>t, <1>4, RunnerIs DEF RunnerWaits, RetransmitTimer
    <2>2. Applied(runner, ledger) \in Active
      BY <1>t, <2>1, AppliedIs
    <2>3. runner' \in Active
      BY <1>4, <2>2 DEF RunnerWaits, RetransmitTimer, Active
    <2> QED
      BY <1>t, <2>1, <2>3, RunnerIs
  <1>5. CASE RunnerWakes \/ Resend
    <2>1. runner \in Active /\ ledger' = ledger
      BY <1>t, <1>5, RunnerIs DEF RunnerWakes, Resend
    <2>2. runner' \in Active
      BY <1>5, <2>1 DEF RunnerWakes, Resend, Active
    <2> QED
      BY <1>t, <2>1, <2>2, RunnerIs
  <1>6. ASSUME NEW r \in timeouts, LocalUnavailable(r)
        PROVE  runner' \in Runners /\ ledger' \in Ledgers
    BY <1>t, <1>6, ObservedType DEF LocalUnavailable
  <1>7. CASE WorkerTakes
    <2>1. Head(queue) \in Responses
      BY <1>7, TailIs DEF WorkerTakes, TypeOK
    <2>2. Head(queue).kind \in Kinds
      BY <2>1 DEF Responses
    <2> QED
      BY <1>t, <1>7, <2>2, ClassIs, ObservedType, LoadedType DEF WorkerTakes, Threads
  <1>8. ASSUME NEW control \in Controls, work.at = "send", Register(control)
        PROVE  runner' \in Runners /\ ledger' \in Ledgers
    <2>1. work.route \in Routes
      BY <1>t, <1>8, WorkIs
    <2>2. runner' \in Active
      BY <1>8, <2>1 DEF Register, Active
    <2> QED
      BY <1>8, <2>2, RunnerIs DEF Register
  <1>9. CASE Suppressed
    <2>1. OnResponse("calling", ledger) \in Controls
      BY <1>t, OnResponseIs DEF Controls
    <2> QED
      BY <1>t, <1>8, <1>9, <2>1 DEF Suppressed
  <1>10. CASE WorkerSends \/ SendFails
    BY <1>8, <1>10 DEF WorkerSends, SendFails, Controls
  <1>11. ASSUME \/ \E r \in Routes, kind \in Kinds : Respond(r, kind)
                \/ \E m \in net : Lose(m)
                \/ WorkerDispatches \/ UNCHANGED vars
         PROVE  runner' \in Runners /\ ledger' \in Ledgers
    BY <1>t, <1>11 DEF Respond, Lose, WorkerDispatches, vars
  <1> QED
    BY <1>1, <1>2, <1>3, <1>4, <1>5, <1>6, <1>7, <1>9, <1>10, <1>11, Steps

(* The network, the gateways and what the edge knows of them.              *)
LEMMA NetworkTyped ==
  ASSUME TypeOK, [Next]_vars
  PROVE  /\ gateway' \in [Routes -> {"idle", "invited", "ringing"} \cup Finals]
         /\ net' \subseteq Responses /\ timeouts' \subseteq Routes
         /\ invited' \subseteq Routes /\ heard' \subseteq Routes
         /\ echoes' \in [Routes -> Nat] /\ refused' \in BOOLEAN /\ crossed' \in BOOLEAN
  <1> USE DEF TypeOK, transport, history
  <1>1. ASSUME NEW r \in Routes, NEW kind \in Kinds, Respond(r, kind)
        PROVE  gateway' \in [Routes -> {"idle", "invited", "ringing"} \cup Finals]
               /\ net' \subseteq Responses
    BY <1>1 DEF Respond, Responses, Finals
  <1>2. ASSUME NEW m \in net, Receive(m)
        PROVE  net' \subseteq Responses /\ heard' \subseteq Routes
    BY <1>2 DEF Receive, Responses
  <1>3. ASSUME Resend \/ TimeoutTimer
        PROVE  runner.route \in Routes
    BY <1>3, RunnerIs DEF Resend, TimeoutTimer, Active
  <1>4. ASSUME WorkerSends
        PROVE  work.route \in Routes
    BY <1>4, WorkIs DEF WorkerSends
  <1>5. CASE Resend
    <2>1. echoes' \in [Routes -> Nat]
      BY <1>3, <1>5 DEF Resend
    <2>2. gateway' \in [Routes -> {"idle", "invited", "ringing"} \cup Finals]
          /\ invited' \subseteq Routes
      BY <1>3, <1>5 DEF Resend, Transmit
    <2> QED
      BY <1>5, <2>1, <2>2 DEF Resend
  <1>6. CASE WorkerSends
    BY <1>4, <1>6 DEF WorkerSends, Transmit
  <1>7. CASE IngressWrites \/ WorkerWrites
    BY <1>7 DEF IngressWrites, WorkerWrites, Writes
  <1>8. CASE TimeoutTimer
    BY <1>3, <1>8 DEF TimeoutTimer
  <1>9. CASE RunnerFinishes \/ RunnerWaits \/ RunnerWakes \/ RetransmitTimer
    BY <1>9 DEF RunnerFinishes, RunnerWaits, RunnerWakes, RetransmitTimer
  <1>10. CASE WorkerTakes \/ WorkerDispatches \/ Suppressed \/ SendFails \/ UNCHANGED vars
    BY <1>10 DEF WorkerTakes, WorkerDispatches, Suppressed, SendFails, vars, transaction
  <1>11. CASE \E r \in timeouts : LocalUnavailable(r)
    BY <1>11 DEF LocalUnavailable
  <1>12. CASE \E r \in Routes, kind \in Kinds : Respond(r, kind)
    BY <1>1, <1>12 DEF Respond, transaction
  <1>13. CASE \E m \in net : Lose(m) \/ Receive(m)
    BY <1>2, <1>13 DEF Lose, Receive, transaction
  <1> QED
    BY <1>5, <1>6, <1>7, <1>8, <1>9, <1>10, <1>11, <1>12, <1>13, Steps

LEMMA AppliedToCallType ==
  ASSUME TypeOK, NEW kind \in Kinds, NEW how \in {"response", "timeout"},
         ApplyToCall(kind, how)
  PROVE  /\ call' \in {"routing", "ringing", "established", "failed"}
         /\ current' \in Routes /\ finalSeen' \in BOOLEAN
         /\ moved' \in {"placed", "response", "timeout"}
  <1>1. CASE Ignored(kind)
    BY <1>1 DEF TypeOK, ApplyToCall, dispatch
  <1>2. CASE ~Ignored(kind) /\ FailsOver(kind)
    <2>1. current + 1 \in Routes
      BY <1>2, Numbers DEF TypeOK, FailsOver, Routes
    <2> QED
      BY <1>2, <2>1 DEF TypeOK, ApplyToCall
  <1>3. CASE ~Ignored(kind) /\ ~FailsOver(kind)
    BY <1>3 DEF TypeOK, ApplyToCall
  <1> QED
    BY <1>1, <1>2, <1>3

(* The ingress, the worker and the call. *)
LEMMA EdgeTyped ==
  ASSUME TypeOK, [Next]_vars
  PROVE  /\ ingress' \in Responses \cup {Idle}
         /\ queue' \in Seq(Responses) /\ Len(queue') <= MaxQueue
         /\ work' \in Works
         /\ call' \in {"routing", "ringing", "established", "failed"}
         /\ current' \in Routes /\ finalSeen' \in BOOLEAN
         /\ moved' \in {"placed", "response", "timeout"}
  <1> USE DEF dispatch
  <1>t. /\ ingress \in Responses \cup {Idle}
        /\ queue \in Seq(Responses) /\ Len(queue) <= MaxQueue
        /\ work \in Works /\ net \subseteq Responses
        /\ call \in {"routing", "ringing", "established", "failed"}
        /\ current \in Routes /\ finalSeen \in BOOLEAN
        /\ moved \in {"placed", "response", "timeout"}
    BY DEF TypeOK
  <1>e. ASSUME NEW m \in Responses, Enqueued(m)
        PROVE  queue' \in Seq(Responses) /\ Len(queue') <= MaxQueue
    <2>1. Append(queue, m) \in Seq(Responses) /\ Len(Append(queue, m)) = Len(queue) + 1
          /\ Len(queue) \in Nat
      BY <1>t, AppendIs
    <2> QED
      BY <1>t, <1>e, <2>1, Numbers DEF Enqueued
  <1>1. CASE \E m \in net : Receive(m)
    <2> PICK m \in net : Receive(m)
      BY <1>1
    <2>1. m \in Responses
      BY <1>t
    <2>2. /\ UNCHANGED <<queue>> \/ Enqueued(m)
          /\ ingress' \in {m, ingress} /\ UNCHANGED <<work, dispatch>>
      BY DEF Receive
    <2> QED
      BY <1>t, <1>e, <2>1, <2>2
  <1>2. CASE IngressWrites
    BY <1>t, <1>e, <1>2 DEF IngressWrites
  <1>3. CASE WorkerTakes
    <2>1. /\ Head(queue) \in Responses /\ Tail(queue) \in Seq(Responses)
          /\ Len(Tail(queue)) <= MaxQueue
      BY <1>t, <1>3, TailIs, Numbers DEF WorkerTakes
    <2>2. work' \in Works
      BY <1>3, <2>1 DEF WorkerTakes, Works
    <2> QED
      BY <1>t, <1>3, <2>1, <2>2 DEF WorkerTakes
  <1>4. CASE WorkerWrites
    <2>1. work' \in Works
      BY <1>t, <1>4 DEF WorkerWrites, Works, Idle
    <2> QED
      BY <1>t, <1>4, <2>1 DEF WorkerWrites
  <1>5. CASE WorkerDispatches
    <2>1. work.response.kind \in Kinds
      BY <1>t, <1>5, WorkIs DEF WorkerDispatches, Responses
    <2>2. FailsOver(work.response.kind) => current + 1 \in Routes
      BY <1>t, Numbers DEF FailsOver, Routes
    <2>3. work' \in Works
      BY <1>5, <2>2 DEF WorkerDispatches, Works
    <2> QED
      BY <1>t, <1>5, <2>1, <2>3, AppliedToCallType DEF WorkerDispatches
  <1>6. CASE \E r \in timeouts : LocalUnavailable(r)
    BY <1>t, <1>6, AppliedToCallType DEF LocalUnavailable, Kinds
  <1>7. CASE Suppressed \/ WorkerSends \/ SendFails
    BY <1>t, <1>7 DEF Suppressed, WorkerSends, SendFails, Works
  <1>8. CASE \/ RunnerFinishes \/ RunnerWaits \/ RunnerWakes
            \/ RetransmitTimer \/ Resend \/ TimeoutTimer \/ UNCHANGED vars
    BY <1>t, <1>8 DEF RunnerFinishes, RunnerWaits, RunnerWakes, RetransmitTimer, Resend,
       TimeoutTimer, vars
  <1>9. CASE \/ \E r \in Routes, kind \in Kinds : Respond(r, kind)
            \/ \E m \in net : Lose(m)
    BY <1>t, <1>9 DEF Respond, Lose
  <1> QED
    BY <1>1, <1>2, <1>3, <1>4, <1>5, <1>6, <1>7, <1>8, <1>9, Steps

LEMMA Typed ==
  ASSUME TypeOK, [Next]_vars
  PROVE  TypeOK'
  BY RunnerTyped, NetworkTyped, EdgeTyped DEF TypeOK, Ledgers
-----------------------------------------------------------------------------
(* Where an INVITE comes from: a gateway leaves "idle" by a copy of the     *)
(* runner or by the INVITE the worker has in hand, and never goes back.     *)
LEMMA Contacts ==
  ASSUME TypeOK, [Next]_vars, NEW r \in Routes
  PROVE  /\ gateway[r] # "idle" => gateway'[r] # "idle"
         /\ gateway'[r] # "idle" =>
              \/ gateway[r] # "idle"
              \/ work = [at |-> "send", route |-> r] /\ work' = Idle
              \/ runner \in Active /\ runner.route = r /\ work' = work
  <1>t. gateway \in [Routes -> {"idle", "invited", "ringing"} \cup Finals] /\ work \in Works
    BY DEF TypeOK
  <1>1. ASSUME NEW q \in Routes, NEW kind \in Kinds, Respond(q, kind)
        PROVE  /\ gateway'[r] # "idle" <=> gateway[r] # "idle"
    BY <1>t, <1>1 DEF Respond, Kinds, Finals
  <1>2. CASE Resend
    <2>1. runner \in Active
      BY <1>2, RunnerIs DEF Resend, TypeOK
    <2> QED
      BY <1>t, <1>2, <2>1 DEF Resend, Transmit
  <1>3. CASE WorkerSends
    <2>1. work = [at |-> "send", route |-> work.route]
      BY <1>t, <1>3, WorkIs DEF WorkerSends
    <2> QED
      BY <1>t, <1>3, <2>1 DEF WorkerSends, Transmit
  <1>4. CASE UNCHANGED gateway
    BY <1>4
  <1> QED
    BY <1>1, <1>2, <1>3, <1>4, Steps
    DEF Lose, Receive, IngressWrites, RunnerFinishes, RunnerWaits, RunnerWakes, RetransmitTimer,
        TimeoutTimer, LocalUnavailable, WorkerTakes, WorkerWrites, WorkerDispatches, Suppressed,
        SendFails, vars, transport

(* The call moves forward only, and the worker has an INVITE in hand for    *)
(* the next route only.                                                    *)
LEMMA Progress ==
  ASSUME TypeOK, [Next]_vars
  PROVE  /\ current' \in {current, current + 1}
         /\ work'.at = "send" =>
              \/ work' = work
              \/ current' = current + 1 /\ work' = [at |-> "send", route |-> current']
  <1>t. work \in Works
    BY DEF TypeOK
  <1>1. CASE WorkerDispatches
    BY <1>1 DEF WorkerDispatches, ApplyToCall, dispatch, Idle
  <1>2. CASE \E r \in timeouts : LocalUnavailable(r)
    BY <1>2 DEF LocalUnavailable, ApplyToCall, dispatch
  <1>3. CASE WorkerTakes \/ WorkerWrites \/ Suppressed \/ WorkerSends \/ SendFails
    BY <1>t, <1>3 DEF WorkerTakes, WorkerWrites, Suppressed, WorkerSends, SendFails, dispatch,
       Idle, Works
  <1>4. CASE UNCHANGED <<work, dispatch>>
    BY <1>4 DEF dispatch
  <1> QED
    BY <1>1, <1>2, <1>3, <1>4, Steps
    DEF Respond, Lose, Receive, IngressWrites, RunnerFinishes, RunnerWaits, RunnerWakes,
        RetransmitTimer, Resend, TimeoutTimer, vars

(* A runner keeps its route; a new one has the route of the INVITE.        *)
LEMMA RunnerRoutes ==
  ASSUME TypeOK, [Next]_vars, runner' # NoRunner
  PROVE  \/ runner \in Active /\ runner'.route = runner.route
         \/ /\ work.at = "send" /\ work' = Idle /\ runner = NoRunner
            /\ runner'.route = work.route /\ UNCHANGED <<current, heard>>
  <1>t. /\ runner \in Runners /\ ledger \in Ledgers /\ work \in Works
        /\ runner = NoRunner \/ runner \in Active
    BY RunnerIs DEF TypeOK, Ledgers
  <1>o. ASSUME NEW class \in Ledgers, Observe(class)
        PROVE  runner \in Active /\ runner'.route = runner.route
    BY <1>t, <1>o, AppliedIs DEF Observe, Ledgers
  <1>l. ASSUME NEW by, Alive, Loads(by)
        PROVE  runner \in Active /\ runner'.route = runner.route
    BY <1>t, <1>l DEF Alive, Loads, Active
  <1>w. ASSUME NEW by, Writes(by)
        PROVE  runner \in Active /\ runner'.route = runner.route
    BY <1>t, <1>w DEF Writes, Active
  <1>1. CASE \E m \in net : Receive(m)
    BY <1>o, <1>l, <1>1, ClassIs DEF Receive, TypeOK, Responses
  <1>2. CASE IngressWrites \/ WorkerWrites
    BY <1>w, <1>2 DEF IngressWrites, WorkerWrites
  <1>3. CASE RunnerWaits \/ RetransmitTimer
    <2>1. runner \in Active
      BY <1>t, <1>3, RunnerIs DEF RunnerWaits, RetransmitTimer
    <2>2. Applied(runner, ledger) \in Active /\ Applied(runner, ledger).route = runner.route
      BY <1>t, <2>1, AppliedIs DEF Ledgers
    <2> QED
      BY <1>3, <2>1, <2>2 DEF RunnerWaits, RetransmitTimer, Active
  <1>4. CASE RunnerWakes \/ Resend
    <2>1. runner \in Active
      BY <1>t, <1>4, RunnerIs DEF RunnerWakes, Resend
    <2> QED
      BY <1>4, <2>1 DEF RunnerWakes, Resend, Active
  <1>5. CASE \E r \in timeouts : LocalUnavailable(r)
    BY <1>o, <1>5 DEF LocalUnavailable, Ledgers
  <1>6. CASE WorkerTakes
    <2>1. Head(queue) \in Responses
      BY <1>6, TailIs DEF WorkerTakes, TypeOK
    <2>2. Head(queue).kind \in Kinds
      BY <2>1 DEF Responses
    <2> QED
      BY <1>o, <1>l, <1>6, <2>2, ClassIs DEF WorkerTakes
  <1>7. CASE Suppressed \/ WorkerSends \/ SendFails
    BY <1>t, <1>7 DEF Suppressed, WorkerSends, SendFails, Register, dispatch, history
  <1>8. CASE RunnerFinishes \/ TimeoutTimer
    BY <1>8 DEF RunnerFinishes, TimeoutTimer
  <1>9. CASE UNCHANGED runner
    BY <1>t, <1>9
  <1> QED
    BY <1>1, <1>2, <1>3, <1>4, <1>5, <1>6, <1>7, <1>8, <1>9, Steps
    DEF Respond, Lose, WorkerDispatches, vars, transaction

LEMMA NetworkHeard ==
  ASSUME TypeOK, [Next]_vars
  PROVE  /\ \A m \in net' : m \in net \/ gateway'[m.route] # "idle"
         /\ \A r \in heard' : r \in heard \/ \E m \in net : r = m.route
         /\ heard \subseteq heard'
  <1>1. ASSUME NEW r \in Routes, NEW kind \in Kinds, Respond(r, kind)
        PROVE  \A m \in net' : m \in net \/ gateway'[m.route] # "idle"
    BY <1>1 DEF Respond, TypeOK, Kinds
  <1>2. CASE \E m \in net : Receive(m)
    BY <1>2 DEF Receive
  <1> QED
    BY <1>1, <1>2, Steps
    DEF Respond, Lose, IngressWrites, RunnerFinishes, RunnerWaits, RunnerWakes, RetransmitTimer,
        Resend, TimeoutTimer, LocalUnavailable, WorkerTakes, WorkerWrites, WorkerDispatches,
        Suppressed, WorkerSends, SendFails, vars, transport, history

LEMMA OnlyInvitedStays ==
  ASSUME TypeOK, OnlyInvited, [Next]_vars
  PROVE  OnlyInvited'
  <1>t. /\ current \in Routes /\ current \in Nat /\ work \in Works
        /\ runner = NoRunner \/ runner \in Active
        /\ \A r \in Routes : r \in Nat
    BY RunnerIs DEF TypeOK, Routes
  <1>w. work'.at = "send" => work'.route <= current'
    <2>1. CASE work' = work
      <3>1. work.at = "send" => work.route \in Nat /\ work.route <= current
        BY <1>t, WorkIs DEF OnlyInvited
      <3> QED
        BY <1>t, <2>1, <3>1, Progress
    <2>2. CASE work' = [at |-> "send", route |-> current']
      BY <1>t, <2>2, Progress
    <2> QED
      BY <2>1, <2>2, Progress
  <1>s. ASSUME NEW r \in Routes, r <= current, work # [at |-> "send", route |-> r]
        PROVE  r <= current' /\ work' # [at |-> "send", route |-> r]
    BY <1>t, <1>s, Progress
  <1>1. ASSUME NEW r \in Routes, gateway'[r] # "idle"
        PROVE  r <= current' /\ work' # [at |-> "send", route |-> r]
    <2>1. CASE gateway[r] # "idle"
      BY <1>s, <2>1 DEF OnlyInvited
    <2>2. CASE work = [at |-> "send", route |-> r] /\ work' = Idle
      <3>1. r <= current
        BY <2>2 DEF OnlyInvited
      <3> QED
        BY <1>t, <2>2, <3>1, Progress DEF Idle
    <2>3. CASE runner \in Active /\ runner.route = r
      BY <1>s, <2>3, RunnerIs DEF OnlyInvited
    <2> QED
      BY <1>1, <2>1, <2>2, <2>3, Contacts
  <1>2. ASSUME runner' # NoRunner
        PROVE  runner'.route <= current' /\ work' # [at |-> "send", route |-> runner'.route]
    <2>1. CASE runner \in Active /\ runner'.route = runner.route
      <3>1. runner # NoRunner /\ runner.route \in Routes
        BY <2>1, RunnerIs DEF Active
      <3> QED
        BY <1>s, <2>1, <3>1 DEF OnlyInvited
    <2>2. CASE work.at = "send" /\ work' = Idle /\ runner'.route = work.route /\ current' = current
      BY <2>2 DEF OnlyInvited, Idle
    <2> QED
      BY <1>2, <2>1, <2>2, RunnerRoutes
  <1>3. \A m \in net : m.route \in Routes /\ gateway'[m.route] # "idle"
    BY Contacts DEF OnlyInvited, TypeOK, Responses
  <1>4. \A m \in net' : gateway'[m.route] # "idle"
    BY <1>3, NetworkHeard
  <1>5. \A r \in heard' : gateway'[r] # "idle"
    <2>1. \A r \in heard : r \in Routes /\ gateway[r] # "idle"
      BY DEF OnlyInvited, TypeOK
    <2> QED
      BY <1>3, <2>1, Contacts, NetworkHeard
  <1> QED
    BY <1>w, <1>1, <1>2, <1>4, <1>5 DEF OnlyInvited
-----------------------------------------------------------------------------
(* What each step does to the state of a runner.                           *)
LEMMA ObservedIs ==
  ASSUME TypeOK, NEW class \in Ledgers, Observe(class), runner' # NoRunner
  PROVE  /\ runner \in Active /\ runner' \in Active
         /\ runner'.at = runner.at /\ runner'.control = OnResponse(runner.control, class)
         /\ runner'.told = (runner.told \/ OnResponse(runner.control, class) # runner.control)
  BY RunnerIs, AppliedIs DEF Observe, Ledgers, TypeOK

LEMMA LoadedIs ==
  ASSUME TypeOK, Alive, NEW by \in Threads, Loads(by)
  PROVE  /\ runner \in Active /\ runner' \in Active
         /\ runner'.at = runner.at /\ runner'.control = runner.control
         /\ runner'.told = runner.told
  BY RunnerIs DEF Alive, Loads, Active, TypeOK

LEMMA WrittenIs ==
  ASSUME TypeOK, NEW by \in Threads, Writes(by), runner' # runner \/ crossed' # crossed
  PROVE  /\ runner \in Active /\ runner' \in Active
         /\ runner'.at = runner.at /\ runner'.control = "proceeding"
         /\ crossed' = (crossed \/ IsTerminal(runner.control))
  <1>1. runner \in Active
    BY RunnerIs DEF Writes, TypeOK
  <1>2. runner' = [runner EXCEPT !.loaded = @ \ {by}, !.control = "proceeding",
                                 !.told = @ \/ runner.control # "proceeding"]
    BY DEF Writes
  <1> QED
    BY <1>1, <1>2 DEF Writes, Active, Controls

LEMMA RunIs ==
  ASSUME TypeOK, RunnerWaits \/ RetransmitTimer
  PROVE  /\ runner \in Active /\ runner' \in Active
         /\ runner'.route = runner.route
         /\ runner'.control = OnResponse(runner.control, ledger)
         /\ runner'.at = "select" => ~IsTerminal(runner'.control)
         /\ runner'.at = "resend" => runner'.control = "calling"
         /\ UNCHANGED <<ledger, heard, echoes>>
  <1>t. runner \in Active /\ ledger \in Ledgers
    BY RunnerIs DEF RunnerWaits, RetransmitTimer, TypeOK, Ledgers
  <1>1. /\ Applied(runner, ledger) \in Active
        /\ Applied(runner, ledger).route = runner.route
        /\ Applied(runner, ledger).control = OnResponse(runner.control, ledger)
    BY <1>t, AppliedIs DEF Ledgers
  <1>2. CASE RunnerWaits
    <2>1. /\ runner' = [Applied(runner, ledger) EXCEPT
                 !.at = "select", !.armed = (OnResponse(runner.control, ledger) = "calling")]
          /\ ~IsTerminal(OnResponse(runner.control, ledger))
          /\ UNCHANGED <<ledger, heard, echoes>>
      BY <1>2 DEF RunnerWaits, history
    <2> QED
      BY <1>t, <1>1, <2>1 DEF Active
  <1>3. CASE RetransmitTimer
    <2> DEFINE control == OnResponse(runner.control, ledger)
    <2>1. /\ runner' = [Applied(runner, ledger) EXCEPT
                 !.at = IF control = "calling" THEN "resend" ELSE "loop"]
          /\ UNCHANGED <<ledger, heard, echoes>>
      BY <1>3 DEF RetransmitTimer, history
    <2> QED
      BY <1>t, <1>1, <2>1 DEF Active
  <1> QED
    BY <1>t, <1>2, <1>3

LEMMA LoopIs ==
  ASSUME TypeOK, RunnerWakes \/ Resend
  PROVE  /\ runner \in Active /\ runner' \in Active
         /\ runner'.at = "loop" /\ runner'.route = runner.route
         /\ runner'.control = runner.control
         /\ UNCHANGED <<ledger, heard>>
  <1>1. runner \in Active
    BY RunnerIs DEF RunnerWakes, Resend, TypeOK
  <1> QED
    BY <1>1 DEF RunnerWakes, Resend, Active, history

LEMMA RegisteredIs ==
  ASSUME TypeOK, work.at = "send", NEW control \in Controls, Register(control)
  PROVE  /\ runner' \in Active /\ runner'.at = "loop" /\ runner'.control = control
         /\ runner'.route = work.route /\ ledger' = "none"
  BY WorkIs DEF Register, Active, TypeOK

LEMMA HeadIs ==
  ASSUME TypeOK, queue # <<>>
  PROVE  Head(queue) \in Responses /\ Head(queue).kind \in Kinds
  <1>1. Head(queue) \in Responses
    BY TailIs DEF TypeOK
  <1> QED
    BY <1>1 DEF Responses

-----------------------------------------------------------------------------
(* A runner whose route has been heard has the response in the ledger or in *)
(* its state: what is shown to the transactions is noted before it is used. *)
LEMMA RunnerKnowsStays ==
  ASSUME TypeOK, OnlyInvited, RunnerKnows, [Next]_vars
  PROVE  RunnerKnows'
  <1> SUFFICES ASSUME runner' # NoRunner, runner'.route \in heard', ledger' = "none"
               PROVE  runner'.control # "calling"
    BY DEF RunnerKnows
  <1>t. runner \in Runners /\ ledger \in Ledgers
    BY DEF TypeOK, Ledgers
  <1>o. ASSUME NEW class \in Ledgers, Observe(class) PROVE class = "none"
    BY <1>o DEF Observe
  <1>1. ASSUME NEW m \in net, Receive(m) PROVE FALSE
    <2>1. ClassOf(m.kind) \in Ledgers /\ ClassOf(m.kind) # "none"
      BY ClassIs DEF TypeOK, Responses
    <2> QED
      BY <1>o, <1>1, <2>1 DEF Receive, Loads
  <1>2. CASE IngressWrites \/ WorkerWrites
    <2>1. /\ UNCHANGED <<ledger, heard>>
          /\ \E by \in Threads : Writes(by)
      BY <1>2 DEF IngressWrites, WorkerWrites, Threads
    <2>2. runner' = runner \/ runner'.control = "proceeding"
      BY <2>1, WrittenIs
    <2> QED
      BY <2>1, <2>2 DEF RunnerKnows
  <1>3. CASE RunnerWaits \/ RetransmitTimer
    <2>1. runner \in Active /\ runner.control # "calling"
      BY <1>3, RunIs, RunnerIs DEF RunnerKnows
    <2> QED
      BY <1>3, <2>1, RunIs, OnResponseIs DEF Active, Ledgers
  <1>4. CASE RunnerWakes \/ Resend
    BY <1>4, LoopIs, RunnerIs DEF RunnerKnows
  <1>5. ASSUME NEW r \in timeouts, LocalUnavailable(r) PROVE FALSE
    BY <1>o, <1>5 DEF LocalUnavailable, Ledgers
  <1>6. CASE WorkerTakes
    <2>1. ClassOf(Head(queue).kind) \in Ledgers /\ ClassOf(Head(queue).kind) # "none"
      BY <1>6, HeadIs, ClassIs DEF WorkerTakes
    <2> QED
      BY <1>o, <1>6, <2>1 DEF WorkerTakes, Loads
  <1>7. CASE Suppressed \/ WorkerSends \/ SendFails
    <2>1. CASE UNCHANGED <<runner, ledger, heard>>
      BY <2>1 DEF RunnerKnows
    <2>2. CASE /\ work.at = "send" /\ heard' = heard
               /\ \E control \in Controls : Register(control)
      <3>1. runner'.route = work.route
        BY <2>2, RegisteredIs
      <3>2. work = [at |-> "send", route |-> work.route] /\ work.route \in Routes
        BY <2>2, WorkIs DEF TypeOK
      <3> QED
        BY <2>2, <3>1, <3>2 DEF OnlyInvited
    <2>3. OnResponse("calling", ledger) \in Controls
      BY <1>t, OnResponseIs DEF Controls, Ledgers
    <2> QED
      BY <1>7, <2>1, <2>2, <2>3 DEF Suppressed, WorkerSends, SendFails, history, Controls
  <1>8. CASE RunnerFinishes \/ TimeoutTimer
    BY <1>8 DEF RunnerFinishes, TimeoutTimer
  <1>9. CASE UNCHANGED <<transaction, heard>>
    BY <1>9 DEF RunnerKnows, transaction
  <1> QED
    BY <1>1, <1>2, <1>3, <1>4, <1>5, <1>6, <1>7, <1>8, <1>9, Steps
    DEF Respond, Lose, WorkerDispatches, vars, history
(* Only the check of Timer A leads to a copy.                              *)
LEMMA CopiesDecided ==
  ASSUME TypeOK, [Next]_vars, runner'.at = "resend"
  PROVE  \/ RetransmitTimer
         \/ runner.at = "resend" /\ UNCHANGED echoes
  <1>n. runner' # NoRunner
    BY RunnerIs
  <1>o. ASSUME NEW class \in Ledgers, Observe(class)
        PROVE  runner.at = "resend"
    BY <1>n, <1>o, ObservedIs
  <1>1. CASE \E m \in net : Receive(m)
    <2>1. PICK m \in net : Receive(m)
      BY <1>1
    <2>2. ClassOf(m.kind) \in Ledgers
      BY ClassIs DEF TypeOK, Responses
    <2> QED
      BY <1>o, <2>1, <2>2, LoadedIs DEF Receive, Threads
  <1>2. CASE IngressWrites \/ WorkerWrites
    BY <1>2, WrittenIs DEF IngressWrites, WorkerWrites, Threads
  <1>3. CASE RunnerWaits
    BY <1>3, RunIs DEF RunnerWaits, history, Applied
  <1>4. CASE RunnerWakes \/ Resend
    BY <1>4, LoopIs
  <1>5. CASE \E r \in timeouts : LocalUnavailable(r)
    BY <1>o, <1>5 DEF LocalUnavailable, Ledgers
  <1>6. CASE WorkerTakes
    <2>1. ClassOf(Head(queue).kind) \in Ledgers
      BY <1>6, HeadIs, ClassIs DEF WorkerTakes
    <2> QED
      BY <1>o, <1>6, <2>1, LoadedIs DEF WorkerTakes, Threads, history
  <1>7. CASE Suppressed \/ WorkerSends \/ SendFails
    BY <1>7 DEF Suppressed, WorkerSends, SendFails, Register, history
  <1>8. CASE RunnerFinishes \/ TimeoutTimer
    BY <1>n, <1>8 DEF RunnerFinishes, TimeoutTimer
  <1>9. CASE UNCHANGED <<runner, echoes>>
    BY <1>9
  <1> QED
    BY <1>1, <1>2, <1>3, <1>4, <1>5, <1>6, <1>7, <1>8, <1>9, Steps
    DEF Respond, Lose, WorkerDispatches, vars, history, transaction, Receive, IngressWrites,
        WorkerWrites, LocalUnavailable

(* A copy that is decided on goes to a route that has not been heard.       *)
LEMMA TimerUnheard ==
  ASSUME TypeOK, RunnerKnows, RetransmitTimer, runner'.at = "resend"
  PROVE  runner.route \notin heard
  <1>1. runner \in Active /\ ledger \in Ledgers
    BY RunIs DEF TypeOK, Ledgers
  <1>2. OnResponse(runner.control, ledger) = "calling"
    BY RunIs
  <1>3. ledger = "none" /\ runner.control = "calling"
    BY <1>1, <1>2, OnResponseIs DEF Active, Ledgers
  <1> QED
    BY <1>1, <1>3, RunnerIs DEF RunnerKnows

LEMMA EchoesStay ==
  ASSUME OneLateCopy, RunnerKnows, EchoesAfterHeard, [Next]_vars
  PROVE  EchoesAfterHeard' /\ \A r \in Routes : echoes'[r] <= 1
  <1>t. TypeOK /\ echoes \in [Routes -> Nat]
    BY DEF OneLateCopy, TypeOK
  <1>1. CASE Resend
    <2>1. /\ runner.route \in Routes /\ echoes[runner.route] = 0
          /\ runner'.at = "loop" /\ heard' = heard
          /\ echoes' = [echoes EXCEPT ![runner.route] =
                          IF runner.route \in heard THEN @ + 1 ELSE @]
      BY <1>t, <1>1, LoopIs DEF Resend, EchoesAfterHeard, Active
    <2> QED
      BY <1>t, <2>1 DEF EchoesAfterHeard, OneLateCopy
  <1>2. CASE RetransmitTimer
    <2>1. UNCHANGED <<echoes, heard>> /\ runner'.route = runner.route /\ runner.route \in Routes
      BY <1>t, <1>2, RunIs DEF Active
    <2>2. runner'.at = "resend" => echoes[runner.route] = 0
      BY <1>t, <1>2, <2>1, TimerUnheard DEF EchoesAfterHeard
    <2> QED
      BY <2>1, <2>2 DEF EchoesAfterHeard, OneLateCopy
  <1>3. CASE ~Resend /\ ~RetransmitTimer
    <2>1. UNCHANGED echoes
      BY <1>3, Steps
      DEF Respond, Lose, Receive, IngressWrites, RunnerFinishes, RunnerWaits, RunnerWakes,
          TimeoutTimer, LocalUnavailable, WorkerTakes, WorkerWrites, WorkerDispatches, Suppressed,
          WorkerSends, SendFails, vars, history
    <2>2. heard \subseteq heard'
      BY <1>t, NetworkHeard
    <2>3. ASSUME runner'.at = "resend" PROVE echoes'[runner'.route] = 0
      <3>1. runner.at = "resend"
        BY <1>t, <1>3, <2>3, CopiesDecided
      <3>2. runner'.route = runner.route
        BY <1>t, <2>3, <3>1, RunnerRoutes, RunnerIs
      <3> QED
        BY <2>1, <3>1, <3>2 DEF EchoesAfterHeard
    <2> QED
      BY <2>1, <2>2, <2>3 DEF EchoesAfterHeard, OneLateCopy
  <1> QED
    BY <1>1, <1>2, <1>3
-----------------------------------------------------------------------------
(* What a step may do to the call.                                         *)
LEMMA CallMoves ==
  ASSUME TypeOK, [Next]_vars
  PROVE  \/ UNCHANGED <<call, current>>
         \/ /\ WorkerDispatches \/ \E r \in timeouts : LocalUnavailable(r)
            /\ call \notin {"established", "failed"}
            /\ call' = "routing" => current' = current + 1
            /\ call' = "established" => /\ WorkerDispatches /\ work' = Idle
                                       /\ work.response.kind = "success"
  <1>1. CASE WorkerDispatches
    BY <1>1 DEF WorkerDispatches, ApplyToCall, Ignored, FailsOver, dispatch
  <1>2. CASE \E r \in timeouts : LocalUnavailable(r)
    BY <1>2 DEF LocalUnavailable, ApplyToCall, Ignored, FailsOver, dispatch
  <1> QED
    BY <1>1, <1>2, Steps
    DEF Respond, Lose, Receive, IngressWrites, RunnerFinishes, RunnerWaits, RunnerWakes,
        RetransmitTimer, Resend, TimeoutTimer, WorkerTakes, WorkerWrites, Suppressed,
        WorkerSends, SendFails, vars, dispatch

(* As long as nothing has been heard and nobody has given up, the only      *)
(* thing that may happen to the first INVITE is that it is sent or refused, *)
(* and to its runner that it times out.                                    *)
LEMMA UntouchedStays ==
  ASSUME TypeOK, OnlyInvited, Untouched, [Next]_vars
  PROVE  Untouched'
  <1> SUFFICES ASSUME heard' = {}, current' = 1, call' = "routing"
               PROVE  /\ ingress' = Idle /\ queue' = <<>> /\ ledger' = "none"
                      /\ work' \in {Idle, [at |-> "send", route |-> 1]}
                      /\ work' # Idle => runner' = NoRunner
                      /\ runner' # NoRunner /\ ~refused' => runner'.control = "calling"
                      /\ work' = Idle /\ runner' = NoRunner /\ ~refused' => 1 \in timeouts'
    BY DEF Untouched
  <1>1. heard = {} /\ current = 1 /\ call = "routing"
    <2>1. current \in Nat /\ current >= 1
      BY DEF TypeOK, Routes
    <2>2. heard = {} /\ current = 1
      BY <2>1, NetworkHeard, Progress
    <2> QED
      BY <2>2, CallMoves
  <1>2. /\ ingress = Idle /\ queue = <<>> /\ ledger = "none"
        /\ work \in {Idle, [at |-> "send", route |-> 1]}
        /\ work # Idle => runner = NoRunner
        /\ runner # NoRunner /\ ~refused => runner.control = "calling"
        /\ work = Idle /\ runner = NoRunner /\ ~refused => 1 \in timeouts
    BY <1>1 DEF Untouched
  <1>c. OnResponse("calling", "none") = "calling" /\ ~IsTerminal("calling")
    BY DEF OnResponse, IsTerminal
  <1>3. ~ \E m \in net : Receive(m)
    BY DEF Receive
  <1>4. ~IngressWrites /\ ~WorkerTakes
    BY <1>2 DEF IngressWrites, WorkerTakes
  <1>5. ~WorkerWrites /\ ~WorkerDispatches
    BY <1>2 DEF WorkerWrites, WorkerDispatches, Idle
  <1>6. ~ \E r \in timeouts : LocalUnavailable(r)
    BY <1>1 DEF LocalUnavailable, ApplyToCall, Ignored, FailsOver
  <1>7. CASE RunnerFinishes
    <2>1. runner # NoRunner
      BY <1>7, RunnerIs DEF RunnerFinishes
    <2>2. refused
      BY <1>2, <1>7, <1>c, <2>1 DEF RunnerFinishes
    <2> QED
      BY <1>2, <1>7, <2>1, <2>2 DEF RunnerFinishes, history
  <1>8. CASE RunnerWaits \/ RetransmitTimer
    <2>1. /\ runner # NoRunner /\ runner' # NoRunner
          /\ runner'.control = OnResponse(runner.control, "none")
      BY <1>2, <1>8, RunIs, RunnerIs
    <2> QED
      BY <1>2, <1>8, <1>c, <2>1 DEF RunnerWaits, RetransmitTimer, history
  <1>9. CASE RunnerWakes \/ Resend
    <2>1. runner # NoRunner /\ runner' # NoRunner /\ runner'.control = runner.control
      BY <1>9, LoopIs, RunnerIs
    <2> QED
      BY <1>2, <1>9, <2>1 DEF RunnerWakes, Resend, history
  <1>10. CASE TimeoutTimer
    <2>1. runner \in Active
      BY <1>10, RunnerIs DEF TimeoutTimer, TypeOK
    <2>2. runner.route \in Nat /\ runner.route >= 1 /\ runner.route <= current
      BY <2>1, RunnerIs DEF Active, Routes, OnlyInvited
    <2>3. runner.route = 1
      BY <1>1, <2>2
    <2> QED
      BY <1>2, <1>10, <2>1, <2>3, RunnerIs DEF TimeoutTimer, history
  <1>11. ~Suppressed
    BY <1>2, <1>c DEF Suppressed, Idle
  <1>12. CASE WorkerSends \/ SendFails
    <2>1. \/ Register("calling") /\ UNCHANGED refused
          \/ Register("terminated") /\ refused'
      BY <1>12 DEF WorkerSends, SendFails
    <2>2. runner' # NoRunner /\ ledger' = "none" /\ (~refused' => runner'.control = "calling")
      BY <1>12, <2>1, RegisteredIs, RunnerIs DEF WorkerSends, SendFails, Controls
    <2> QED
      BY <1>2, <1>12, <2>2 DEF WorkerSends, SendFails
  <1>13. CASE UNCHANGED <<ingress, queue, ledger, work, runner, refused, timeouts>>
    BY <1>2, <1>13
  <1> QED
    BY <1>3, <1>4, <1>5, <1>6, <1>7, <1>8, <1>9, <1>10, <1>11, <1>12, <1>13, Steps
    DEF Respond, Lose, vars, transaction, history

-----------------------------------------------------------------------------
(* A final response reaches the runner before the call, and stays there      *)
(* unless a 1xx was read before it and written after it.                    *)
Settled == crossed \/ runner = NoRunner \/ IsTerminal(runner.control)

LEMMA SettledStays ==
  ASSUME TypeOK, Settled, work.at # "send", [Next]_vars
  PROVE  Settled'
  <1>t. ledger \in Ledgers /\ crossed \in BOOLEAN
    BY DEF TypeOK, Ledgers
  <1> SUFFICES ASSUME ~crossed', runner' # NoRunner
               PROVE  IsTerminal(runner'.control)
    BY DEF Settled
  <1>c. ~crossed
    BY <1>t, Steps, WrittenIs
    DEF Respond, Lose, Receive, IngressWrites, RunnerFinishes, RunnerWaits, RunnerWakes,
        RetransmitTimer, Resend, TimeoutTimer, LocalUnavailable, WorkerTakes, WorkerWrites,
        WorkerDispatches, Suppressed, WorkerSends, SendFails, vars, history, Threads
  <1>r. runner # NoRunner => IsTerminal(runner.control)
    BY <1>c DEF Settled
  <1>o. ASSUME NEW class \in Ledgers, Observe(class)
        PROVE  IsTerminal(runner'.control)
    <2>1. runner \in Active /\ runner'.control = OnResponse(runner.control, class)
      BY <1>o, ObservedIs
    <2> QED
      BY <1>r, <2>1, OnResponseIs, RunnerIs DEF Active, Ledgers
  <1>1. CASE \E m \in net : Receive(m)
    <2>1. PICK m \in net : Receive(m)
      BY <1>1
    <2>2. ClassOf(m.kind) \in Ledgers
      BY ClassIs DEF TypeOK, Responses
    <2> QED
      BY <1>o, <1>r, <2>1, <2>2 DEF Receive, Alive
  <1>2. CASE IngressWrites \/ WorkerWrites
    <2>1. \E by \in Threads : Writes(by)
      BY <1>2 DEF IngressWrites, WorkerWrites, Threads
    <2>2. runner' = runner
      BY <1>r, <2>1, WrittenIs, RunnerIs
    <2> QED
      BY <1>r, <2>2
  <1>3. CASE RunnerWaits \/ RetransmitTimer
    <2>1. runner \in Active /\ runner'.control = OnResponse(runner.control, ledger)
      BY <1>3, RunIs
    <2> QED
      BY <1>r, <1>t, <2>1, OnResponseIs, RunnerIs DEF Active, Ledgers
  <1>4. CASE RunnerWakes \/ Resend
    BY <1>r, <1>4, LoopIs, RunnerIs
  <1>5. CASE \E r \in timeouts : LocalUnavailable(r)
    BY <1>o, <1>5 DEF LocalUnavailable, Ledgers
  <1>6. CASE WorkerTakes
    <2>1. ClassOf(Head(queue).kind) \in Ledgers
      BY <1>6, HeadIs, ClassIs DEF WorkerTakes
    <2> QED
      BY <1>o, <1>r, <1>6, <2>1 DEF WorkerTakes, Alive
  <1>7. ~Suppressed /\ ~WorkerSends /\ ~SendFails
    BY DEF Suppressed, WorkerSends, SendFails
  <1>8. CASE RunnerFinishes \/ TimeoutTimer
    BY <1>8 DEF RunnerFinishes, TimeoutTimer
  <1>9. CASE UNCHANGED runner
    BY <1>r, <1>9
  <1> QED
    BY <1>1, <1>2, <1>3, <1>4, <1>5, <1>6, <1>7, <1>8, <1>9, Steps
    DEF Respond, Lose, WorkerDispatches, vars, transaction
(* What the worker has in hand after a step.                               *)
LEMMA WorkMoves ==
  ASSUME TypeOK, [Next]_vars
  PROVE  \/ work' = work
         \/ WorkerTakes
         \/ /\ WorkerWrites /\ work'.at = "dispatch"
            /\ work.at = "note" /\ work'.response = work.response
         \/ work'.at \in {"idle", "send"}
  <1>1. CASE WorkerWrites
    BY <1>1 DEF WorkerWrites, TypeOK, Works, Idle
  <1>2. CASE WorkerDispatches \/ Suppressed \/ WorkerSends \/ SendFails
    BY <1>2 DEF WorkerDispatches, Suppressed, WorkerSends, SendFails, Idle
  <1> QED
    BY <1>1, <1>2, Steps
    DEF Respond, Lose, Receive, IngressWrites, RunnerFinishes, RunnerWaits, RunnerWakes,
        RetransmitTimer, Resend, TimeoutTimer, LocalUnavailable, vars

(* A runner that waits has a permit to wake up by when its state is final.  *)
LEMMA ToldStays ==
  ASSUME TypeOK, [Next]_vars,
         runner.at = "select" /\ IsTerminal(runner.control) => runner.told,
         runner'.at = "select", IsTerminal(runner'.control)
  PROVE  runner'.told
  <1>n. runner' # NoRunner
    BY RunnerIs
  <1>o. ASSUME NEW class \in Ledgers, Observe(class)
        PROVE  runner'.told
    BY <1>n, <1>o, ObservedIs DEF Active
  <1>1. CASE \E m \in net : Receive(m)
    <2>1. PICK m \in net : Receive(m)
      BY <1>1
    <2>2. ClassOf(m.kind) \in Ledgers
      BY ClassIs DEF TypeOK, Responses
    <2> QED
      BY <1>o, <2>1, <2>2, LoadedIs DEF Receive, Threads
  <1>2. CASE IngressWrites \/ WorkerWrites
    <2>1. \E by \in Threads : Writes(by)
      BY <1>2 DEF IngressWrites, WorkerWrites, Threads
    <2>2. runner' = runner
      BY <2>1, WrittenIs DEF IsTerminal
    <2> QED
      BY <2>2
  <1>3. CASE RunnerWaits \/ RetransmitTimer
    BY <1>3, RunIs
  <1>4. CASE RunnerWakes \/ Resend
    BY <1>4, LoopIs
  <1>5. CASE \E r \in timeouts : LocalUnavailable(r)
    BY <1>o, <1>5 DEF LocalUnavailable, Ledgers
  <1>6. CASE WorkerTakes
    <2>1. ClassOf(Head(queue).kind) \in Ledgers
      BY <1>6, HeadIs, ClassIs DEF WorkerTakes
    <2> QED
      BY <1>o, <1>6, <2>1, LoadedIs DEF WorkerTakes, Threads
  <1>7. CASE Suppressed \/ WorkerSends \/ SendFails
    BY <1>7 DEF Suppressed, WorkerSends, SendFails, Register
  <1>8. CASE RunnerFinishes \/ TimeoutTimer
    BY <1>n, <1>8 DEF RunnerFinishes, TimeoutTimer
  <1>9. CASE UNCHANGED runner
    BY <1>9
  <1> QED
    BY <1>1, <1>2, <1>3, <1>4, <1>5, <1>6, <1>7, <1>8, <1>9, Steps
    DEF Respond, Lose, WorkerDispatches, vars, transaction

LEMMA FinalReachedStays ==
  ASSUME TypeOK, FinalReached, [Next]_vars
  PROVE  FinalReached'
  <1>1. ASSUME work'.at = "note" PROVE work'.response.kind = "ringing"
    <2>1. CASE WorkerTakes
      BY <1>1, <2>1 DEF WorkerTakes
    <2> QED
      BY <1>1, <2>1, WorkMoves DEF FinalReached
  <1>2. ASSUME call' = "established" PROVE work'.at # "send"
    <2>1. CASE call = "established"
      <3>1. work.at # "send" /\ current' = current /\ current \in Nat
        BY <2>1, CallMoves DEF FinalReached, TypeOK, Routes
      <3> QED
        BY <3>1, Progress
    <2>2. CASE call # "established"
      BY <1>2, <2>2, CallMoves DEF Idle
    <2> QED
      BY <2>1, <2>2
  <1>3. ASSUME call' = "established" PROVE Settled'
    <2>1. CASE call = "established"
      BY <2>1, SettledStays DEF FinalReached, Settled
    <2>2. CASE call # "established"
      <3>1. work.at = "dispatch" /\ work.response.kind \in Finals
        BY <1>3, <2>2, CallMoves DEF WorkerDispatches, Finals, Kinds
      <3>2. Settled
        BY <3>1 DEF FinalReached, Settled
      <3> QED
        BY <3>1, <3>2, SettledStays
    <2> QED
      BY <2>1, <2>2
  <1>4. ASSUME work'.at = "dispatch", work'.response.kind \in Finals PROVE Settled'
    <2>1. CASE WorkerTakes
      <3>1. Head(queue).kind \in Kinds /\ Head(queue).kind \in Finals
        BY <1>4, <2>1, HeadIs DEF WorkerTakes
      <3>2. Observe("final")
        BY <2>1, <3>1, ClassIs DEF WorkerTakes, Finals
      <3>3. runner' # NoRunner =>
              /\ runner \in Active /\ runner'.control = OnResponse(runner.control, "final")
        BY <3>2, ObservedIs DEF Ledgers
      <3>4. runner' # NoRunner => IsTerminal(runner'.control)
        BY <3>3, OnResponseIs DEF Active
      <3> QED
        BY <3>4 DEF Settled
    <2>2. CASE WorkerWrites /\ work.at = "note" /\ work'.response = work.response
      BY <1>4, <2>2 DEF FinalReached, Finals
    <2>3. CASE work' = work
      BY <1>4, <2>3, SettledStays DEF FinalReached, Settled
    <2> QED
      BY <1>4, <2>1, <2>2, <2>3, WorkMoves
  <1>5. runner'.at = "select" /\ IsTerminal(runner'.control) => runner'.told
    BY ToldStays DEF FinalReached
  <1> QED
    BY <1>1, <1>2, <1>3, <1>4, <1>5 DEF FinalReached, Settled

-----------------------------------------------------------------------------
LEMMA InitIInv == Init => IInv
  <1> SUFFICES ASSUME Init PROVE IInv
    OBVIOUS
  <1> USE Numbers DEF Init
  <1>q. <<>> \in Seq(Responses) /\ Len(<<>>) = 0
    OBVIOUS
  <1>w. runner \in Runners /\ work \in Works
    BY DEF Runners, Works
  <1>1. TypeOK
    <2>1. queue \in Seq(Responses) /\ Len(queue) <= MaxQueue
      BY <1>q
    <2>2. /\ gateway \in [Routes -> {"idle", "invited", "ringing"} \cup Finals]
          /\ echoes \in [Routes -> Nat]
      OBVIOUS
    <2> QED
      BY <1>w, <2>1, <2>2 DEF TypeOK
  <1>2. OneLateCopy /\ OnlyInvited /\ RunnerKnows /\ EchoesAfterHeard
    BY <1>1 DEF OneLateCopy, OnlyInvited, RunnerKnows, EchoesAfterHeard, NoRunner, Routes
  <1>3. Untouched /\ FinalReached
    BY DEF Untouched, FinalReached, NoRunner, Idle
  <1> QED
    BY <1>2, <1>3 DEF IInv

LEMMA StepIInv ==
  ASSUME IInv, [Next]_vars
  PROVE  IInv'
  <1>1. TypeOK
    BY DEF IInv, OneLateCopy
  <1>2. OneLateCopy' /\ EchoesAfterHeard'
    BY <1>1, Typed, EchoesStay DEF IInv, OneLateCopy
  <1> QED
    BY <1>1, <1>2, OnlyInvitedStays, RunnerKnowsStays, UntouchedStays, FinalReachedStays DEF IInv

(* The strengthened invariant of the INVITE, for any routes, any capacity   *)
(* of the worker's channel, and any loss, repetition and reordering.        *)
THEOREM InvariantHolds == Spec => []IInv
  <1> QED
    BY InitIInv, StepIInv, PTL DEF Spec

(* At most one copy of an INVITE follows a response of its gateway: the one *)
(* Timer A had decided on before (runner.rs).                               *)
THEOREM LateCopyIsOne == Spec => []OneLateCopy
  <1>1. IInv => OneLateCopy
    BY DEF IInv
  <1> QED
    BY <1>1, InvariantHolds, PTL

(* Until its gateway is heard, the first INVITE is repeated, about to be     *)
(* sent, about to time out, or has been refused by the socket.              *)
THEOREM FirstInviteNotLost == Spec => []FirstInviteWatched
  <1>1. ASSUME IInv PROVE FirstInviteWatched
    <2> SUFFICES ASSUME 1 \notin heard, call = "routing", current = 1
                 PROVE  \/ work = [at |-> "send", route |-> 1]
                        \/ runner # NoRunner \/ 1 \in timeouts \/ refused
      BY DEF FirstInviteWatched
    <2>1. \A r \in heard : r \in Nat /\ r >= 1 /\ r <= current
      BY <1>1 DEF IInv, OneLateCopy, TypeOK, OnlyInvited, Routes
    <2>2. heard = {}
      BY <2>1
    <2> QED
      BY <1>1, <2>2 DEF IInv, Untouched
  <1> QED
    BY <1>1, InvariantHolds, PTL

(* An answered call with nothing left to do has no runner that goes on,      *)
(* unless two threads were in on_response at once.                          *)
THEOREM AnswersReachRunner == Spec => []AnswerEndsRunner
  <1>1. IInv => AnswerEndsRunner
    BY DEF IInv, FinalReached, AnswerEndsRunner
  <1> QED
    BY <1>1, InvariantHolds, PTL

(* Timer A never decides on a copy once a response of the gateway has been   *)
(* seen by the ingress, in whatever order the threads run.                  *)
THEOREM NoCopyDecidedLate == Spec => NoCopyAfterResponse
  <1>1. ASSUME IInv, [Next]_vars, runner.at = "select", runner'.at = "resend"
        PROVE  runner.route \notin heard
    <2>1. TypeOK /\ RunnerKnows
      BY <1>1 DEF IInv, OneLateCopy
    <2>2. RetransmitTimer
      BY <1>1, <2>1, CopiesDecided
    <2> QED
      BY <1>1, <2>1, <2>2, TimerUnheard
  <1>2. IInv /\ [Next]_vars =>
          [runner.at = "select" /\ runner'.at = "resend" => runner.route \notin heard]_vars
    BY <1>1
  <1> QED
    BY <1>2, InvariantHolds, PTL DEF Spec, NoCopyAfterResponse

(* Nothing that comes after the answer moves or ends the call.             *)
THEOREM AnsweredCallStays == Spec => AnsweredStays
  <1>1. ASSUME IInv, [Next]_vars, call = "established"
        PROVE  call' = "established" /\ current' = current
    BY <1>1, CallMoves DEF IInv, OneLateCopy
  <1>2. IInv /\ [Next]_vars =>
          [(call = "established") => (call' = "established" /\ current' = current)]_vars
    BY <1>1
  <1> QED
    BY <1>2, InvariantHolds, PTL DEF Spec, AnsweredStays
=============================================================================
