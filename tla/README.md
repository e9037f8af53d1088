# TLA+ verification of vos-rs

vos-rs is a SIP softswitch in Rust: SIP edges that route and bill calls as
back-to-back user agents, media edges that relay RTP, a CDR worker, and an API
server with a web console. This directory models the concurrent and
failure-prone core of the SIP edge, and the CDR and billing paths behind it, in
TLA+, checks it with TLC on small instances, and proves the invariants of most of
its modules with TLAPS for all values of the constants. Paths below are relative to `src/`.

    tlc -workers 2 -config call_manager.cfg MCCallManager.tla   # a run
    tlapm CallCoreProofs.tla                                    # a proof

`PROJECT.json` lists components, runs, mutants (a broken variant of a
definition under which a property must fail), hazards, theorems, and for every
definition the source lines it stands for.

## 1. The system

### Components, their state and their operations

| Component | State | Operations | What makes it correct |
|---|---|---|---|
| Call manager, `crates/call-core/src/{manager,call}.rs` | `DashMap` of calls: state, candidate routes, current candidate, caller identity and alternatives, history, `answered_at`, `ended_at` | inbound INVITE, pool advance, outbound response (ring, answer, fail over, redirect, fail), termination, forced termination | every call is accounted for exactly once; nothing leaves a final state; a number stays with its owner gateway; routes are not retried |
| Route table and gateway health, `crates/call-core/src/routing/` | routes; per gateway a circuit, counters, half-open slot, active calls | list, acquire, record success, failure, probe | a failing gateway is isolated, a recovered one comes back |
| Outbound policy, `outbound_policy.rs` | number pools | choose numbers and their order | only numbers with a usable owner |
| Client transaction, `services/sip-edge/src/sip/client_transaction/` | active runners by key, ledger of observed branches | register, observe, timers A/B, finish, cancel | an INVITE is repeated until answered and never after; a silent gateway yields a time-out |
| Ingress and workers, `main.rs`, `runtime.rs` | bounded queues, one worker per Call-ID hash | observe, enqueue, dispatch, send | messages of one Call-ID are handled in order |
| Response dispatcher, `sip/dispatcher/response/` | response order per call, forks | order, establish, fail over, clean up | late and repeated responses do no harm |
| INVITE and in-dialog handlers, `sip/handlers/` | none of their own | admit, route, lease, remember, count, send; BYE, CANCEL, re-INVITE, REFER | what is counted in is counted out once |
| Session store and accounting, `edge_state/` | sessions; counters of users and tenants | remember, set tenant, increment, decrement, remove | counters equal the calls that are up |
| Resource leases, `resource_lease/` | Redis hash of calls, sorted sets of expiries | acquire, renew, release (Lua) | cluster-wide limits hold; crashed holders are freed |
| Server transaction, `sip/transaction/server.rs` | one task per INVITE with a channel of 4, registered under branch and under (Call-ID, CSeq) | register, copy, observe, ACK, Timers G, H, L | a repeated INVITE makes one call; the final response is repeated until the ACK |
| Inter-node egress, `cluster/inter_node.rs`, `edge_state/transport.rs` | message ids seen, write queue per connection, the response order of a session | publish, retry, accept, expire | a message is written once and responses keep their order |
| CDR pipeline, spool, worker, `cdr/`, `services/cdr-worker/` | queue, batch, spool files, NATS stream | batch, retry, spool, replay, acknowledge | a record on the disk stays until it is sent or put aside, and a loss needs a fault |
| Settlement, `billing/`, `crates/cdr-core/src/store/billing*`, `api-server/src/billing/` | accounts, ledger, journal; balances cached in Redis | admit, limit, settle, credit, update, delete, reload | one charge per call and side; books add up; the cache agrees |
| Queue and ACD, `crates/call-core/src/{queue,acd}.rs` | waiting callers, agents | enqueue, offer, answer, leave | an agent has one caller |
| RTP ports and media pool, `media/relay/`, `media/cluster/`, `edge_state/media.rs`, `crates/rtp-core/src/port_lease.rs` | leased ports and their peers per relay; affinity, count and records per call in the pool | choose, lease, record, pair, clear | a port has one owner and goes back when its call ends |
| Registrar, subscriptions, outbound registration | bindings with expiry, retry state | refresh, prune, retry | expired bindings are not used |
| Webhooks and VCI | queues, pending controls | deliver, retry, control | a control acts on its own call |
| Cluster: nodes, registration sync | heartbeats in Redis, nodes | announce, choose | a dead node is not chosen |
| API server, web UI, parsing, codecs, object storage | database rows, bytes | CRUD, I/O, pure functions | not a state machine of its own |

### How they interact

- **Calls.** A datagram goes from the ingress to the worker of its Call-ID. The
  worker calls the handler, the handler the call manager, the route table and
  the lease; what the handler returns the worker sends, registering a client
  transaction for a request.
- **Shared maps.** Sessions, transactions, counters, health and calls are
  `DashMap`s. Each access locks one entry; a handler that makes several
  accesses is interleaved with others between any two.
- **Redis.** Leases, nodes and registrations; each Lua script is atomic.
- **Timers.** The retransmission runner, the session watchdog, the health
  probe, the lease renewal, spool replay and pruning run as tasks of their own
  and call into the same handlers and maps.
- **NATS, webhooks, PostgreSQL.** Events and CDRs go out; commands and hangups
  come in, at any moment of a call.

### What is hard

Two legs of a call have different Call-IDs and hence different workers, and the
watchdog, the operator, a VCI hangup and the runner's time-out have none: six
parties end one call without a common lock (`CallManager`,
`SessionAccounting`). Responses are lost, repeated, overtaken, and race with
timers on another thread (`InviteTransaction`). Verdicts on a gateway arrive
when its circuit has changed since (`GatewayHealth`). Nodes crash while they
hold cluster-wide capacity, and call the scripts late or with stale arguments
(`ResourceLease`). Records of ended calls cross two processes, a disk and a
message stream, each of which may stop in the middle (`CdrPipeline`); several
enders charge one call while three programs write the same cached balance
(`Settlement`). A request to another node is repeated because its answer was
lost, while a mutex is held for the order of responses (`InterNode`); two
workers and a task write to the caller of one INVITE (`ServerTransaction`); and
an answer leases RTP ports for a session that is being torn down
(`MediaPorts`). The hazards in `PROJECT.json` name the line of each, and the
property that covers it or why none does yet.

## 2. Plan

Order: what admits, places and ends a call first; what records it next; what
serves it last.

| # | Module | State |
|---|---|---|
| 1 | `CapacityLease` (abstract), `ResourceLease` (implements it) | modelled, checked, proved |
| 2 | `CallManager` | modelled, checked, proved |
| 3 | `InviteTransaction` | modelled, checked, proved |
| 4 | `GatewayHealth` | modelled, checked; safety proved |
| 5 | `SessionAccounting` | modelled, checked, proved |
| 6 | `CdrLog` (abstract), `CdrPipeline` (implements it) | modelled, checked; safety proved |
| 7 | `Settlement` | modelled, checked, proved |
| 8 | `InterNode` | modelled, checked; safety proved |
| 9 | `ServerTransaction` | modelled, checked; safety proved |
| 10 | `MediaPorts` | modelled, checked, proved |
| 11 | `LeaseLifecycle`: edges and their calls over `ResourceLease` | modelled, checked, proved |
| 12 | `ForkedInvite`: fork legs, cancels, establishment, composing the response order | planned |
| 13 | registrar and subscriptions, outbound registration, webhook delivery | planned |
| 14 | `RouteSelection`: the pure choice of candidates against a reference definition | planned |

Compositions. `CdrPipeline` takes the CDRs `CallManager` emits (`cdrs`), one for
each call that ends (`EndedOnce`), which is why `raised` there is a set.
`Settlement` starts where `SessionAccounting` has its enders: each of them has
the call settled. `ServerTransaction` and `InterNode` share the response order
of a session with `InviteTransaction` (`finalSeen`, `order`); each has the part
of it that its own races touch. `MediaPorts` has the same handlers and enders as
`SessionAccounting`, at the accesses to media. `LeaseLifecycle` extends
`ResourceLease` with the edges that call its scripts, and is proved to use it as
specified. `ForkedInvite` is to refine the dispatcher part of `InviteTransaction`.

Abstract specifications: `CapacityLease` and `CdrLog`, both with a refinement
that is checked and proved. Planned: exclusive ownership, for the ports of a pool.

Theorems planned: those of the modules that are planned, and the refinement of that
ownership by `MediaPorts`.

## 3. What is modelled

### ResourceLease and CapacityLease

`calls`, `callExpiry`, `numberExpiry`, `trunkExpiry` are the Redis keys of
`resource_lease/scripts.rs`; a score 0 stands for "not a member". One script is
one action: `AcquireGranted` and `AcquireRefused` (ACQUIRE, including the purge
it does before it decides, which stays done when it refuses), `RenewLive` and
`RenewExpired` (RENEW), `Release` (RELEASE). `Tick` is Redis `TIME`. Any node
may call any script for any call with any number and trunk at any time, so a
crash is a node that stops calling, and stale or repeated calls are included.
All nodes are taken to have the same limits. What an edge does with the reply is
in `LeaseLifecycle`.

`CapacityLease` is the promise: resources are taken together, only with room in
each, kept unchanged, given back together. The refinement maps a call to the
resources of its hash entry while its expiry is in the future.

### LeaseLifecycle

The same store, called by edges as their code does. `stage` is how far the INVITE
of a call is: asking for its lease, held, up (it has a session and its INVITE is
out), gone. `plan` is `caller_identity` with its candidates and the alternatives,
`gateway` and `route` are the current candidate, `over` what the call manager holds
for ended, `pending` the tasks that `release()` has spawned (`resource_lease/ops.rs`).
`Invite`, `Granted`, `Refused`, `Unlimited`, `Unreachable`, `ReplyLost` are
`outbound/lease.rs` with the outcomes of a Redis call: a refusal tries the next
number if the call is still in routing; a broken connection rejects the call,
whether or not the script has run. `MediaFails` and `SendInvite` follow,
`Failover` and `Redirect` change the gateway and leave the lease as it is.
`Finish`, `FinishEnded`, `ForceEnd`, `Hangup` are the enders, by whether they release:
a BYE or CANCEL only if it ended the call, the watchdog and the operator always, a
VCI hangup always and at any stage, without stopping the INVITE. `ReleaseRuns` and
`ReleaseFails` are the spawned task; `Crash` takes an edge's calls and tasks away.
The renewal loop has no action, because it never finds a call (section 7).
`asked`, `early`, `stranded` are history: when a call was admitted, that it was hung
up before its INVITE went out, that nobody will release its lease. Calls by a
forced URI take no lease and are left out; a Call-ID is used once.

### CallManager

One call: calls share nothing, and each operation holds the lock of its map
entry. `routes`, `current`, `tried`, `owner`, `alternatives` are `candidates`,
`current_candidate_index`, `outbound_history`, `caller_identity` and its
alternatives. `Invite`, `InviteUnroutable`, `InviteUnidentified` and
`InviteToUri` are the exits of the INVITE handlers, `AdvancePool` is
`advance_caller_pool`. `Provisional`, `Ringing`, `Success`, `Redirected`,
`Failover` and `Rejected` are the classes of `handle_outbound_response`;
`Terminate` is a BYE or CANCEL and `ForceTerminate` the watchdog, operator or
hangup. Events are pushed after the lock is dropped, hence `unsent` and
`PushEvent`. `Place` is the edge storing the session. A response may meet any
state, because the edge reads the session before it calls the manager and a BYE
on another worker may come between, and because forks share a call. `late`
counts responses that take effect on a call that has ended. An event or a CDR
that a full sink drops is left out.

`manager.rs:603` drops the lock before an event gets its sequence number, so
`call_finished` can be numbered before `call_answered`; the model shows it and
the hazard list names it.

### InviteTransaction

The INVITE of one call on UDP. `runner` is the task of `runner.rs` at its three
points (top of the loop, `select!`, about to send); `armed` is the guard that
`select!` evaluated on entry. `ledger` is the entry of `pending_by_branch`,
`queue` the worker's channel, `work` what the worker does, `finalSeen` the
response order. A gateway repeats its last response; `net` is a set, so
responses are reordered, and `Lose` drops them; a copy of the INVITE may be lost
in `Transmit`. `Receive` is the ingress (observe, then `try_send`, which drops
when the queue is full). `LocalUnavailable` is the local 503 of Timer B, whose
datagrams the runner discards.

Left out: the 64 s life and the 4096 entries of the ledger, forks, PRACK and
media; a caller's CSeq other than 1 (with another the local 503, which carries
CSeq 1, matches nothing). `on_response` (`state.rs:79`) loads the state, decides
and stores it; where the two come apart, for a 1xx of a live transaction, they
are steps (`Loads`; `IngressWrites`, `WorkerWrites`), and `crossed` records that a
1xx was written over a final response in between: the runner and its entry
among the active ones then stay for good, since nothing else ends a transaction
in Proceeding. `AnswerEndsRunner` is stated for all other behaviours. After a
refused send nobody fails the call over. The next gateway's 180 is dropped
after a failover, since `finalSeen` is kept for the same CSeq.

### GatewayHealth

One gateway: records share nothing. `circuit`, `failures`, `halfSuccesses`,
`slot`, `goods`, `bads` are the fields of `GatewayHealth`, `cooled` says that
`recovery_interval` has passed since the last failure. `ProbeTick`,
`ProbeAnswered`, `ProbeTimesOut` are the probe loop; removing the entry of
`gateway_probes` and recording the verdict is one action. `List`, `Acquire`,
`Spare`, `SendInvite`, `Answered`, `Unanswered`, `NoVerdict` are a call from
`select_healthy_candidates` to its verdict. `up` means that OPTIONS and INVITE
are answered in time without 5xx; it changes freely. `holder` and `leaked` are
history: who took the half-open slot, and whether he has ended without a
verdict. `active_calls` is in `SessionAccounting`; capacity, the persisted
snapshot and the dial calls of `command_listener` are left out.

### SessionAccounting

Calls of one user and one tenant over a list of gateways. `stage` walks through
`handle_invite_request` in the code's order: check the user (`CheckUser`), check the
tenant and route (`Route`), remember, count the user, set the tenant, count it, send
and count the gateway; each access to shared state is a step, except that finding
the current gateway and decrementing it is one. An ender is a plan, the sequence of
steps of its handler:

| ender | code | order |
|---|---|---|
| BYE or CANCEL of the caller, BYE of the gateway | `bye.rs` | end the call; if it did, gateway; if the session is still there, user, tenant, remove |
| failure response | `response/` | fail over (move the gateway's count), or end the call; read the session; user, tenant, gateway, remove |
| watchdog | `timers/session.rs` | user, tenant, remove, gateway, end |
| operator | `manage/calls.rs` | user, tenant, gateway, remove or stop, end |
| hangup | `hangup_handler.rs` | take the session out; gateway, user, tenant, end |

The failure and the BYE of the gateway have the gateway leg's Call-ID and thus
one worker, which does one of them at a time; a caller's BYE starts after its
INVITE is done, on the caller's worker. All others cross freely. The time-out's
local 503 counts as a failure response. Unsharded TCP/TLS connections, the
sliding window of calls per second, transfers and conferences are left out.
`early`, `crossed` and `peak` are history: calls an ender met before the INVITE was
sent, calls two enders worked on at once, and how many INVITEs at most were between
their check and their count at once.

### CdrPipeline and CdrLog

From `DurableCdrSink::try_send_cdr` to the table `call_cdrs`. `queue`, `batch`,
`flush` are the channel, the batch and the progress of the edge's batch worker
(`runtime.rs`, `cdr/pipeline.rs`): `Take`, `Tick`, `SendRecord`, `SendFails` (a
sink error, which may hide a success, sends the batch again from its start, three
times), `SpoolRecord`, `SpoolFails`. `active`, `segments`, `archived` are the files
of the spool (`cdr/spool/mod.rs`) and `replay` is a round of its loop: `Rotate`,
`Read`, `ReadFails`, `ReplayRecord`, `ReplayFails`, `ReplayDone`.

A line is a record, does not parse (`broken`), or is not UTF-8 (`unreadable`). A write
that fails leaves nothing, the whole line, or a part of it: the payload without its
newline, which still parses, or an end between two characters or within one. Such a
line has not `ended`, and the next record is written behind it, into the same line.
`read_spool_file` copies a broken line to the archive and goes on; at an unreadable
line, or where the disk fails, it breaks off and reports what it has read as the whole
(`spool/mod.rs:297-304`). `replay.upto` is where that was. The file is removed when its
records have been sent, or at once when there are none, and the lines that were not
read go with it: `unread` keeps the records they held. `ReadFails` is a file that is
not opened, or whose broken lines cannot be copied, or that is not removed.

`sink` is NATS, or PostgreSQL when NATS was not there at the start; `stream`,
`deliveries`, `handling`, `inbox`, `dlq`, `rows` are the work queue and the cdr-worker
(`consumer.rs`, `batch.rs`), whose message is acknowledged when it is in a channel.
Faults: edge crash and planned stop, an outage of the sink, failing writes, reads and
removals, a failed acknowledgement, a failed INSERT, a restart of the worker;
those that can cost records are counted apart (`edge`, `append`, `read`, `worker`). A
crash within a write is a failed write with a stop behind it. `late` holds what was sent
while the last batch of a stopping edge was flushed.

`CdrLog` is what the edge promises: a record on the spool stays until the sink or
the archive has it. Once a write or a read of the disk has failed (`damaged`), it may
also go with a file that was not read to its end: what the code does, against what its
test of a mixed segment says (section 7). Left out: the switch that turns persistence
off, metrics, an error in the middle of a rotation, a record the sink refuses for ever.

### Settlement

Two sides of a call, access and egress account, a pulse costs 1. `Admit` is
`enforce_balance_check` on the cached balance with the maximum it gives;
`HangUp`, `Watchdog` and `EndsToo` are those who end the call, and each spawns a
settlement task of its own (`billing/settlement.rs`): `Look` (the ledger, then the
rate), `Charge` or `ChargeRefused` (the transaction of `store/billing.rs`), then
`CacheBalance`. `Credit`, `Update`, `Delete` are the API server, `Reload` is an
edge that starts (`warmup.rs`); they commit first and write Redis later
(`WriteCache`, or `WriteFails`). A step is one access to PostgreSQL or Redis.
`raced`, `shared`, `faulty` are history: writers of one cached balance crossed;
others used the account of a call before it was settled; an access failed.
Left out: renaming an account in mid-call, prices of tenants, the amount in the
CDR.

### InterNode

`stage[m]`, `attempt[m]`: a worker with a datagram, and `ClusterEgress::publish`
with its tries; `order`, `lock`: the response order of a session and its mutex,
which a sender holds until the owner of the connection has answered;
`requests`, `acks`: NATS in both directions; `dedupe`, `queue`, `open`, `life`: the
owner, its table of message ids, the write queue of the connection, its restarts.
`Process` and `Send` are the two places that look at the order. `Accept`,
`AcceptAgain`, `Reject` are `accept_message`. `Expire` is the cleanup of ids; time is
measured in tries, and an id is kept longer than a request can be on its way.
Flow records in Redis, and connections that are opened for a message, are left out.

### ServerTransaction

One INVITE of a caller. `inbox` is the caller's worker (`request.rs`): `FeedCopy`,
`Place`, `Refuse`, `AnswerLocally`, `Suppress`, `TakeAck`, `TakeCancel`. `held` is the
gateway's worker: it takes a response, tells the task, sends it. `entry`, `task`,
`chan`, `resends` are the task of `transaction/server.rs` and its registration:
`TaskResponds`, `TaskObserves`, `TaskRepeats`, `TaskAcked`, `TimerG`, `TimerH`. All three
write to the caller. A full channel of 4 makes a worker wait. Losses are on the
caller's side only, and fewer than Timer G has repetitions (`LossesAssumption`).
Non-INVITE transactions and the response cache that only tests use are left out.

### MediaPorts

The RTP ports of calls at an edge with a media pool. `leased` and `peers` are the
relays, `pool` is `MediaNodePool` (affinity, count and record; `entries` are the keys of
`call_endpoint_counts`), `session` the two ports an entry of `inbound_transactions` has.
`todo[c][who]` is the rest of what a handler (the INVITE, then the gateway's responses,
one at a time) and an ender have to do: choose a node, lease, record, rewrite the SDP,
clear, release, forget, remove. These steps interleave freely. In this process a clear
frees the port and its peer, in the relay and in the pool (`ClearHere`); at a media-edge
it frees the port, and the pool forgets it in a later step (`ClearThere`, `Release`).
`release_port` takes a count to 0, lets go of it, and removes count and affinity in a
step of its own (`Forget`), whatever was recorded in between. A request to a media-edge
or its answer may be lost (`LeaseLost`, `ClearLost`).

An INVITE without SDP has no port of its gateway (`InviteWithoutSdp`), and since
`prepare_response_sdp` leases nothing only when both ports are stored, each answer with
SDP leases another one of the caller, which overwrites the last (`Overwritten`). An
answer that gives no endpoint leases one that is stored nowhere
(`RewriteWithoutEndpoint`). `LateAnswer` is a response with SDP that comes after the
teardown. `owner`, `leaked`, `spent`, `victims` are history; a victim is a call whose
port another call has cleared, recorded over or paired with one of its own. A lease or a
record leaks in six ways: its session was gone, its answer gave no endpoint, it was
overwritten, its lease or its clear was lost on the way to a media-edge, or it was cleared
in this process because the pool had forgotten whose it was.

Which node is healthy, and which the strategy takes, is arbitrary; any free port may be
had, and none may be (`LeaseFails`). Ranges of two nodes do not overlap
(`cluster/config.rs:285-302`). Recordings, conferences, transfers, SRTP and the sockets
are left out.

## 4. The runs

| Run | Instance | Shows |
|---|---|---|
| `resource_lease` | 3 calls, 2 numbers and the empty one, 2 trunks, TTL 2, 5 instants | `KeysAgree`, `CapacityRespected`, `ExpiredBlocksNobody`, `NeverShortened`, refinement of `CapacityLease` |
| `lease_lifecycle` | 2 calls at 2 edges, 2 numbers (limits 1 and none), 2 trunks (limits 1 and none), 3 plans, TTL 2, 4 instants, 1 hangup a call | `Covered`, `WithinLimits`, `NothingStranded` |
| `call_manager` | 2 gateways, tables of 1 and 3 routes, pools of 0-2 numbers, at most 3 routes, 1 late response | `EndedOnce`, `PinnedOrRedirected`, `NoRouteTwice` |
| `invite_transaction` | 2 routes, queue of 2, 2 responses on the wire | `NoCopyAfterResponse`, `OneLateCopy`, `AnsweredStays`, `FirstInviteWatched`, `AnswerEndsRunner` |
| `gateway_health` | 2 calls at a time, thresholds 2 and 2, 3 samples, at most 4 failures | `CircuitMatchesFailures`, `SlotIsAccounted`, liveness `RecoversUnlessLeaked` |
| `session_accounting` | 2 calls, 2 routes, user limit 1, tenant limit 1, 3 enders, 2 at once on a call | `CountsExact`, `NobodyLockedOut`, `OnlyBurstsExceed` |
| `cdr_pipeline` | 2 calls, one not decodable; queue, batch and inbox of 1, 2 attempts, 2 deliveries, 2 faults | `LossBounded`, refinement `SpoolKeeps` of `CdrLog`, liveness `Delivered` |
| `settlement` | 2 calls, 1 credit, limits 0 and 1, opening balance 1, pulse 2, watchdog 1 late, 2 events | `BooksBalance`, `CacheExact`, `BoughtIsPaid` |
| `inter_node` | a 180, a 200 and a BYE, 1 retry, ids kept for 2 tries, write queue of 1, 2 faults | `ExactlyOnce`, `ResponsesInOrder`, liveness `Returns` |
| `server_transaction` | channel of 2, 2 repetitions, 2 losses, 2 copies | `OneCall`, liveness `Answered` |
| `media_ports` | 2 calls, a local relay with 2 ports, a media-edge with 1; 1 failover, lost request, or answer that is late, without an endpoint, over a stored port or not to be rewritten | `SessionsHoldTheirPorts`, `LeaksAreNamed` |

Each run also checks the type invariant of its module.

**Why the bounds are enough.** Leases: three calls on a trunk for two, one of
them on a number for one, so the last slot is contested in both dimensions
while older leases expire; five instants give an expiry, a re-acquisition and a
renewal, and past `TTL` only differences to `now` matter. Lifecycle: the plans make
the two calls meet on the limited number, on the limited trunk as a second number
of one and the only one of the other, and on neither; four instants let one
lease run out under a call while the other call takes its place. `MaxHangups` 0 lets
a VCI hangup come when no release of its call is pending, which is at every stage;
the proofs hold for any bound. Calls: three routes
are the shortest list with a route to skip (the owner's routes surround one of
another gateway). Transactions: one failover; the hazards are between one
runner and two responses. Health: each threshold is reached, passed and reached
again; with `MaxGoods` successes the rate stays good for any admissible number
of failures, so saturating is exact (`HealthAssumption` states it). Accounting:
two enders can cross on one call while a third ends the other, which is what it
takes for a wrong count to hurt somebody else; with limits of one the second call is
refused unless both were checked before either was counted. CDRs: with a
queue, a batch and an inbox of one every buffer is full as soon as the second
record comes; two faults are a loss and a crash on top of it, or a line torn by one and a
file that is not removed by the other; a record that
cannot be decoded needs its second delivery to be buried. Settlement: a balance
of one, with or without a limit of one, is exhausted by the first call, so that a
charge is refused; two events are two operations that cross with each other and
with a settlement. Inter-node: two faults lose a request and its repetition, or an
answer and the owner; a queue of one rejects the second message. Server
transaction: two losses use up the repetitions; a channel of two is full while a
copy, an observation and an ACK compete. Media: two local ports are one call's
pair, so both calls together run out of ports, and one remote port sends the
second half of a call elsewhere; one trouble is any of those listed, next to
teardowns, failures and calls without SDP, which are not bounded.

Calls are symmetric and the runs that use symmetry check no liveness. Deadlock is
checked where the system never stops (leases, health) and off where it comes
to rest because calls have ended and bounded faults are used up (all others).

**Violations**: one run states what the documentation says of the program, and TLC
finds that the code does something else.

| Run | What TLC finds |
|---|---|
| `invite_failover` | the INVITE of the next candidate has Call-ID, CSeq and branch of the first, is taken for a duplicate, and is never sent |

The passing properties are stated next to this one and to the disagreements listed
in section 7: `EndedOnce` holds as long as no response took effect after the end,
`RecoversUnlessLeaked` as long as the slot does not leak, `AnswerEndsRunner` as long
as no 1xx was written over a final response, `CountsExact` as long as no enders
crossed and none came early, `CacheExact` as long as no writers crossed,
`SpoolKeeps` and `LossBounded` with the lines set apart that were not read after a
write or a read of the disk had failed, `LeaksAreNamed` for the six kinds of leaks
it names, `BoughtIsPaid` for calls that ended within their maximum and shared their
account with nobody, `OneCall` until the caller has acknowledged or Timer H has
fired, `SessionsHoldTheirPorts` for calls whose ports no other call cleared,
recorded over or paired, `Covered` and `WithinLimits` for calls younger than the TTL
that were not hung up before their INVITE, `NothingStranded` until a lost release,
reply or edge (`stranded`) has been waited out, `OnlyBurstsExceed` up to the INVITEs
that were at work at once, and `NobodyLockedOut` whatever crosses (an error in the
counters is always in the user's favour, unless an ender came before the INVITE was
sent). The exceptions are history variables of the model, so a run shows that they
are the only ones.

**Fairness** is assumed in four modules, and is weak unless said otherwise: each
action stays enabled until taken.

- `GatewayHealth`: the probe loop ticks for ever and each of its probes ends with
  an answer or after 3 s; time passes (`CoolDown`); a listed call is decided on, and
  an invited one ends, because its transaction and its session have timers.
- `CdrPipeline`: tasks run, an outage ends, a stopped edge is started again
  (`restart: unless-stopped`, `deploy/docker/docker-compose.yml:38`), the stream
  gives every message its turn. Rotation and replay are fair in the strong sense:
  the loop comes back to them in every round, however often an outage disables
  them in between; outages are bounded.
- `InterNode`: workers run, a tokio mutex is fair, and the timers of a try fire.
  Nothing is assumed of the owner or the network.
- `ServerTransaction`: the two workers and the task run, and Timers G and H fire.

Nothing is assumed of gateways, callers, of `Fail` and `Return`, or of which way a
call ends. The other modules state safety only. `InviteTransaction` says as
invariants what would otherwise be liveness: as long as no answer has come,
somebody is watching; once an answer is dispatched, the runner has been told.

## 5. The proofs

| Module | Theorems | Argument |
|---|---|---|
| `LeaseProofs` | of `ResourceLease`: `InvariantHolds`, `TypeCorrect`, `KeysAlwaysAgree`, `CapacityNeverExceeded`, `NobodyBlocked`, `LeaseNeverShortened`, `LeasesImplementCapacity`; of `CapacityLease`: `AlwaysWithinLimit`, and with the refinement `StoreKeepsPromise`; of `LeaseLifecycle`: `LifecycleInvariant`, `EdgesUseTheStore`, `ServiceIsCovered`, `ServiceWithinLimits`, `LeasesNotStranded` | see below |
| `CallCoreProofs` | of `CallManager`: `InvariantHolds`, `TypeCorrect`, `AccountedOnce`, `NumberStaysPinned`, `RoutesNotRepeated`; of `GatewayHealth`: `HealthInvariantHolds`, `HealthTypeCorrect`, `CircuitFollowsFailures`, `SlotHasATaker` | see below |
| `InviteTransactionProofs` | `InvariantHolds`, `LateCopyIsOne`, `FirstInviteNotLost`, `AnswersReachRunner`, `NoCopyDecidedLate`, `AnsweredCallStays` | see below |
| `SessionAccountingProofs` | `InvariantHolds`, `CountsComeOut`, `EndedIsNotCounted`, `BurstsBound` | see below |
| `CdrPipelineProofs` | `InvariantHolds`, `TypeCorrect`, `SpoolImplementsLog`, `LossIsBounded` | see below |
| `SignallingProofs` | of `InterNode`: `InvariantHolds`, `TypeCorrect`, `QueuedExactlyOnce`, `ResponsesKeepOrder`; of `ServerTransaction`: `ServerInvariantHolds`, `OneCallPerInvite` | see below |
| `MediaPortsProofs` | `InvariantHolds`, `SessionsKeepTheirPorts`, `LeaksAreOfSixKinds` | see below |
| `SettlementProofs` | `InvariantHolds`, `BooksAlwaysBalance`, `CacheIsExact`, `WhatIsBoughtIsPaid` | see below |

**ResourceLease.** `CapacityRespected` is not inductive: a grant compares the
limit with the size of a purged sorted set, and that this counts the live calls
of the resource needs `KeysAgree`, which in turn needs that no score is beyond
`now + TTL` (`TypeOK`). `CapacityRespected` itself counts the sorted sets and is
carried along. A grant adds at most one member to a set below its limit
(`FiniteSetTheorems`); renewals replace scores of live members; a tick can only
remove live members. `KeysAgree` together with the types then gives the
refinement: a granted ACQUIRE of a free call is `Take`, every expiry and release
`GiveBack`, and everything else a stutter. In `CapacityLease` a `Take` adds one
holder to a resource with room and `GiveBack` only removes (`AlwaysWithinLimit`);
`StoreKeepsPromise` brings that back to the store through the refinement.

**LeaseLifecycle.** Every step of an edge runs one script, lets time pass, or leaves
Redis alone (`StoreStep`), so that `ResourceLease`'s invariant carries over
(`EdgesUseTheStore`). `Covered` and `NothingStranded` are about one call, and what makes
them inductive is `InOrder`: before its grant a call holds nothing, until it ends or
is hung up early nobody releases for it, and its lease lasts one TTL from the grant.
A step of one call cannot disturb another (`Bystander`): a script for another call
leaves the lease alone unless it had expired. `WithinLimits` then maps the young
calls in service of a number or trunk into the live members of its sorted set, whose
size `CapacityRespected` bounds.

**CallManager.** `EndedOnce` and `PinnedOrRedirected` need `Fresh`: before its
INVITE a call has no routes, no owner and no alternatives; only a call that was
placed has given up routes; only a call with a number has alternatives. The
proof counts occurrences of `finished` in the sequence of pushed events
(`Occurrences`), which each `PushEvent` moves from `unsent` to `sent`.

**GatewayHealth.** The conjunction of its three invariants is inductive (`HealthIInv`): a
verdict reads the circuit, the counters and the slot together.

**InviteTransaction.** Once a gateway has been heard, its runner finds that in one of two
places: in the ledger of the manager, or in the state of its transaction
(`RunnerKnows`). That is why no copy is decided on late; `EchoesAfterHeard` bounds the
one copy that was decided on before. `FinalReached` and the order of the two writes in `on_response`
give that a final response is never overwritten unless two threads crossed
(`crossed`). `Untouched` and `OnlyInvited` say that a route not yet invited has no
traffic, so that a failover starts on a clean one. Each action has a lemma on what it
leaves alone; the two action properties follow from the same lemmas.

**SessionAccounting.** The steps of an INVITE and of an ender are lists, and the proof
names a step by its position on its plan (`OnPlan`, `InOrder`), so that what is still
owed to a counter is a set of calls: those counted and not yet counted out. The
counters never exceed the size of that set (`AtMost`, which is what saturation keeps),
and equal it as long as no two enders crossed (`Exact`). The two facts are kept apart:
`NobodyLockedOut` needs the first alone. For `OnlyBurstsExceed`, the invariant `Bursts`
adds to a counter the calls that passed its check and are not counted yet: together they
stay below the limit and the largest number of INVITEs that were ever between the two at
once. A check passes only below the limit; every step after it moves a call from one
side of the sum to the other, or away.

**CdrPipeline.** The refinement of `CdrLog` needs to know what the replay loop may
remove. `IInv` says that its file is one of the segments and that all it has read of it
is with the sink or in the archive except the lines still to send (`RoundOnSegments`),
that a line that parses holds one record (`OneRecordALine`), and that only records handed
over are anywhere (`OnlyRaised`). `DamageHasACause` says that a line is unreadable, a
reading breaks off and a record is in `unread` only if a write or a read of the disk has
failed; without it `Forget` could not be shown for an edge whose disk is sound. Each
action is then mapped: `Send` is `Accept` or, when its write fails, `Lose` or `Accept`; a
spool append is `Save`; `Sunk` is `Store`; `Read`, `ReadFails` and `ReplayDone` are
`Forget`; a crash is `Lose`; the worker stutters.

`LossBounded` counts what is nowhere and is not in `unread`. It is not inductive, since a record can be lost by
the worker while the edge still has it and send it again. The proof splits it
(`Charged`): a record is lost at the edge before the sink has it, or by the worker after
that, where a message about to be acknowledged counts as gone already. Each part grows
only in a step that is charged, by a queue and a batch or by what the worker's batch
held. That a flush which ends loses nothing rests on the log: what is behind it is with
the sink, on the spool, in the archive or `unread` (`Flushed`), and the spool forgets only
what one of the others has (`SpoolImplementsLog`).

**Settlement.** The balance of an account is a sum over the journal. The library has no
theorem about such sums, and its induction theorems cannot be used here, so `MapThenSumSet` is
reasoned about by a least counterexample among the subsets of a finite set (`LeastSubset`,
from `WFMin` and the well-foundedness of strict inclusion): the recursive function that it
chooses exists and is unique (`SumsExist`, `SumsAgree`), it does what it says
(`TotalRecursion`), and the order of the terms does not matter (`TotalWithout`), so that one
more entry adds its amount. On top of that `IInv` has four parts. `Books` is `BooksBalance`
without the types: a charge adds its entries to ledger and journal in one transaction,
and only if its key is new. `NoEarlyTask` places the tasks of a call after its end.
`CacheFollows` says of every side that was not deleted what the cache owes: as long as no
writers crossed one of them at most is at work, and what it is about to write is the
account. `Pays` follows one call that has its account to itself from the check, through its
maximum duration, to a balance that covers its pulses; that the pulses of a duration
cost no more than the balance it was computed from is arithmetic over division (`AmountIs`).

**ServerTransaction.** A second run of the handler needs a transaction that is gone. The
task ends by an ACK or by Timer H, and the entry goes with an ACK or with a local 2xx.
`Genuine` follows every ACK in the inbox and in the channel back to the caller; `Watched`
says that without one of these excuses a call that was placed is registered and its task
has not ended, so that a copy is fed to it.

**InterNode.** `ExactlyOnce` needs `Remembering`: in one life of the owner, an id in
its log is known to it or no longer asked for. An id expires only after `TtlTries`
tries, which exceeds what a publisher makes (`TriesAssumption`). `ResponsesInOrder`
needs `OneResponseAtATime` (the mutex is held from the first request to the end, and
no provisional response starts after a final one) and `RequestsInOrder` (the order
of starting is the order of the requests on their way).

**MediaPorts.** Neither property can be seen from the session and the pool alone, since
what the two lists of a call still hold decides it. `Orderly` says which steps a list
may hold: a handler that leases, records or rewrites has nothing else to do, and an
ender is at work only for a session that is gone. `Undisturbed` says of a call in service
that nobody has harmed that it has each port it stores, and each that its handler is
about to store; that what it clears it does not hold; and that the pool has nothing of
it that it has not leased, or is about to release. A step of another call either leaves
all of that alone (`Spared`) or makes it a victim, which is where the history variable
`victims` is exact. An affinity goes with the last record of a call, so that keeping it needs
the counts. `Books` has them never above the number of records for a key that is no victim,
and equal to it while its session is not gone; `Emptied` says that an entry whose count is 0
is about to be forgotten, and that a call in service is forgotten only by its own handler,
and then has no port. `Named` is `LeaksAreNamed` while something is in progress: each lease,
record and affinity has a session, or a step on a list, that cares for it, and every step
hands that on, to the session, to another step or to `leaked`.

**Assumptions.** `CapacityAssumption`, `LeaseAssumption`, `LifecycleAssumption`,
`ManagerAssumption`, `TransactionAssumption`, `HealthAssumption`,
`AccountingAssumption`, `PipelineAssumption`, `NumbersAssumption`,
`ResponsesAssumption`, `SettlementAssumption`, `BoundsAssumption`, `MediaPortsAssumption`:
finite sets of calls and of ports, limits and capacities in `Nat`, TTL positive, markers
distinct from members, a port on one node. `TriesAssumption` says that the owner
remembers an id for longer than a publisher repeats it; with the defaults that is
120 s against four tries in about 2.5 s (`docs/deployment/CLUSTER_DEPLOYMENT.md:70-72`),
but `validate()` does not compare the two. The theorems hold for any number of
calls, numbers, gateways, routes, messages and any thresholds and capacities; the
clock, the number of late responses, recorded failures and faults stay below the
bounds of the configuration, which are arbitrary.

**Only model-checked.** Liveness (`RecoversUnlessLeaked`, `Delivered`, `Returns`,
`Answered`), which is beyond the prover. Every invariant and every safety property of a
passing run has a theorem.

## 6. What is not modelled

Components with status `not_modelled` in `PROJECT.json`: those of rows 12-14 of
the plan, and what does not fit a model checker: packet-level media and codecs,
SIP and SDP parsing, CRUD of the API server, object storage. The call
queues of `call-core` (`queue.rs`, `acd.rs`) are used by tests only. Of the modelled
components the notes in `PROJECT.json` name the rest: forks, PRACK, transfers,
conferences, recordings, SRTP, anti-fraud and webhook control, capacity of the
route table and the persisted health snapshot, the sliding window of calls per
second, renaming of accounts, prices of tenants, non-INVITE transactions, flow
records and outbound TCP and WebSocket connections
(`net/transport.rs:124-128` drops a connection before it removes its entry), the
buffers of `rtp-core`, and messages still in a worker's channel at shutdown
(`runtime.rs:55`).

## 7. Known disagreements

What the models show besides the violation run. Each is what the code does,
met while translating it; the properties except it by name.

**Call manager and accounting.** A 408, 5xx or 3xx that comes after the end takes a
call back to routing (`failover_to_next_at` and `redirect_to` do not look at the
state). A 3xx moves a call with a managed number off the gateway that owns it. An
operation drops the lock of a call before its event gets a sequence number
(`manager.rs:603`), so `call_finished` can be numbered before `call_answered`. Two
enders that cross count the tenant down twice. An INVITE refused for its balance or
its gateway domain leaves its call active in the manager.

**Client transaction.** After Timer B the call moves on, but the runner drops the
datagrams of its local 503, the INVITE for the next gateway among them. A 1xx
written over a final response leaves the runner in Proceeding for good.

**Server transaction.** `response/mod.rs:254-255` says that a delayed 1xx can never be
emitted after the final response of an INVITE; the transaction task, which does not
take the response order, answers a copy of the INVITE with its 1xx until it has
been told of the final one. The ACK is looked up by (Call-ID, CSeq) and takes the
entry at once, so that Timer I (`rtp-sip-completeness.md:67`) absorbs nothing, and a
copy of the INVITE that comes after the ACK makes a second call. A 2xx of the edge
itself has no server transaction. After a CANCEL the session is torn down, so the
gateway's 487 or 200 finds nothing to belong to.

**CDR.** `mixed_segment_keeps_valid_cdrs_and_isolates_corrupt_lines`
(`cdr/spool/tests.rs:158`) has the valid records of a segment kept around a line that
does not parse. It is so for a line of text; at a line that is not UTF-8, which is what a
write torn within a character leaves, and at an error of the disk, the reading ends and
the file is removed with every record behind the line: a few bytes that were not written
cost all that was written after them (`unread`).
`services/cdr-worker/README.md:72` promises that no message is lost when the
worker goes down; it acknowledges a message when it is in a channel, before the
INSERT, so that a crash or a failed INSERT loses it (`LossBounded` counts it).

**Billing.** `README.md:107-108` promises a charge in advance and a disconnect as soon
as the balance is used up. The balance is only checked in advance; the watchdog
scans at intervals, a call it ends may have begun one more pulse, and then its
charge is refused as a whole: it pays nothing. A call of an account without a cached
balance is free (`edge_state/billing.rs:72-83`). A repeated credit whose first cache
write failed finds its key and writes no cache.

**Media.** `media.rs:122-125` and `session.rs:246` say that the end of a session gives
all its media resources back. Clearing the gateway's port frees the paired local
port too, so that clearing the caller's port is a second clear, which can hit a port
another call has got since. A stale release after a clear at a media-edge can erase
the record of another call, whose port is then never cleared there. A failed
failover leaves cleared ports in the session, for the teardown to clear again. An
answer that crosses the teardown, or a 183 or 200 with SDP that comes after it,
leases a port nobody clears. So does an answer that gives no endpoint, and in a call whose
INVITE had no SDP every answer with SDP but the last. `release_port` may remove the count of
a port that was recorded while it did so. The teardown may leave an affinity behind.

**Leases.** `resource_lease/ops.rs:93` says that the renewal loop keeps capacity reserved
for calls that outlive their initial TTL. It lists the keys of the session map, which
are session ids, as Call-IDs, so that it renews nothing and a lease runs out after
300 s under a live call. A failover to another trunk and a redirect keep the lease
of the first and take none on the second. A VCI hangup before the INVITE goes out
does not stop it, and its release may run before the grant; the lease then stays for
its TTL, since the BYE that follows does not release.

**Gateway health.** `README.md:103` says that a recovered gateway is used again by itself.
A call that takes the only slot of a half-open circuit and gets, say, a 486, or is
cancelled, records no verdict and keeps the slot: `release_acquire` is called in tests
only, and the probe loop and new calls are refused while the slot is taken. Only the
verdict of another call that was already under way frees it (`RecoversUnlessLeaked`
excepts it).

**Limits.** The limits of users and tenants are read before the database, Redis and
webhooks are awaited, and counted after; a burst passes them by as many calls as
were at work at once (`OnlyBurstsExceed`).

**Waiting for its module.** The capacity check of the route table is separate from the
count it checks (`RouteSelection`).
