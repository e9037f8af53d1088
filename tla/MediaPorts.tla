------------------------------ MODULE MediaPorts ------------------------------
(***************************************************************************)
(* The RTP ports of the calls of one SIP edge that has a pool of media     *)
(* nodes (media/cluster/pool.rs).  A port is leased by the relay of its    *)
(* node: the one of this process, or a media-edge asked over HTTP or a     *)
(* Unix socket (media/relay/allocation.rs, state.rs); the pool records     *)
(* which call has it, and keeps a call on the node it first got.           *)
(*                                                                         *)
(* A call leases the port its gateway sends to before its session is       *)
(* stored, the port its caller sends to with the first answer that has an  *)
(* SDP body, and both anew when it moves to another gateway.  A call whose *)
(* INVITE has no SDP has no port for its gateway, and leases one for its   *)
(* caller with every answer.  Ports are                                    *)
(* cleared by the teardown of the session (a BYE, a CANCEL, the watchdog,  *)
(* the operator), by a failure and by a failover: the first runs next to   *)
(* the two others and no lock is common to them.                           *)
(*                                                                         *)
(* The RTCP port goes with its RTP port and is not named.  Ports of two    *)
(* nodes are disjoint (cluster/config.rs), so a port names its node and    *)
(* one set stands for the leases of every relay.                           *)
(***************************************************************************)
EXTENDS Naturals, Sequences, FiniteSets

CONSTANTS
  Calls,         \* session ids; each is used once
  Stray,         \* Call-ID of a response whose session is gone
  Nodes,         \* the pool
  LocalNodes,    \* its nodes of type Local: relays of this process
  Ports,
  NodeOf,        \* NodeOf[p]: the node whose range holds p
  None,
  MaxTroubles    \* bound: failovers, answers after the teardown, over a stored
                 \* port, without an endpoint or not to be rewritten, and requests
                 \* to a media-edge that fail or go unanswered

ASSUME MediaPortsAssumption ==
  /\ LocalNodes \subseteq Nodes
  /\ NodeOf \in [Ports -> Nodes]
  /\ Stray \notin Calls
  /\ None \notin Calls \cup {Stray} \cup Ports \cup Nodes
  /\ IsFiniteSet(Ports)
  /\ MaxTroubles \in Nat

Keys == Calls \cup {Stray}
LocalPorts == {p \in Ports : NodeOf[p] \in LocalNodes}

VARIABLES
  leased,   \* leased_rtp_ports of the relays
  peers,    \* peer_ports of the relay of this process
  pool,     \* MediaNodePool: node[k], count[k] (the call_endpoint_counts; 0
            \* for a key not in entries), call[p], endpoints[n]
  session,  \* inbound_transactions: gateway_relay_rtp and caller_relay_rtp
  todo,     \* todo[c][who]: what is left to do for a message of c
  troubles, \* how many of the bounded there were
  owner,    \* owner[p]: the key the lease of p was given to
  leaked,   \* leases that nobody will clear
  spent,    \* spent[c]: ports c's session has, and has cleared already
  victims   \* keys whose port was cleared, recorded over or paired by another

relay == <<leased, peers>>
marks == <<leaked, spent, victims>>
vars == <<relay, pool, session, todo, troubles, owner, marks>>

(* "handler" is the worker that handles the INVITE and then the responses   *)
(* of its gateway, one at a time; "ender" is whoever tears down.           *)
Actors == {"handler", "ender"}
Reasons == {"offer", "answer", "failover", "stray"}
(* Why is what the port is for; for "forget", the key that is forgotten.   *)
Step(what, why, port, node) == [what |-> what, why |-> why, port |-> port, node |-> node]
Steps == [what : {"choose", "lease", "record", "rewrite", "clear", "release", "forget",
                  "remove"},
          why : Reasons \cup Keys \cup {None}, port : Ports \cup {None},
          node : Nodes \cup {None}]

TypeOK ==
  /\ leased \subseteq Ports
  /\ peers \in [Ports -> Ports \cup {None}]
  /\ pool \in [node : [Keys -> Nodes \cup {None}],
               count : [Keys -> Nat], entries : SUBSET Keys,
               call : [Ports -> Keys \cup {None}], endpoints : [Nodes -> Nat]]
  /\ session \in [Calls -> [at : {"new", "refused", "up", "gone"},
                            gateway : Ports \cup {None}, caller : Ports \cup {None}]]
  /\ todo \in [Calls -> [Actors -> Seq(Steps)]]
  /\ troubles \in 0..MaxTroubles
  /\ owner \in [Ports -> Keys \cup {None}]
  /\ leaked \subseteq Ports /\ spent \in [Calls -> SUBSET Ports]
  /\ victims \subseteq Keys

Init ==
  /\ leased = {} /\ peers = [p \in Ports |-> None]
  /\ pool = [node |-> [k \in Keys |-> None], count |-> [k \in Keys |-> 0],
             entries |-> {}, call |-> [p \in Ports |-> None], endpoints |-> [n \in Nodes |-> 0]]
  /\ session = [c \in Calls |-> [at |-> "new", gateway |-> None, caller |-> None]]
  /\ todo = [c \in Calls |-> [who \in Actors |-> <<>>]]
  /\ troubles = 0
  /\ owner = [p \in Ports |-> None]
  /\ leaked = {} /\ spent = [c \in Calls |-> {}] /\ victims = {}

-----------------------------------------------------------------------------
(* The pool. *)

(* node_for_call: the affinity of k, or a healthy node.  Which are healthy  *)
(* is up to the health checks, which of them is taken to the strategy.     *)
NodesFor_Fresh(k) == Nodes

NodesFor(k) == IF pool.node[k] = None THEN Nodes ELSE {pool.node[k]}

(* record_allocation *)
Recorded(p, k) ==
  [pool EXCEPT !.call[p] = k, !.count[k] = @ + 1, !.entries = @ \cup {k},
               !.endpoints[NodeOf[p]] = @ + 1]

(* release_port, until it lets go of the count. *)
Known(from, p) == IF p = None THEN FALSE ELSE from.call[p] # None

Released(from, p) ==
  IF ~Known(from, p) THEN from
  ELSE [from EXCEPT !.call[p] = None, !.endpoints[NodeOf[p]] = @ - 1,
                    !.count[from.call[p]] = IF @ = 0 THEN 0 ELSE @ - 1]

(* release_port goes on for a call whose count it took to 0 ...             *)
Forgetting(from, p) ==
  IF Known(from, p) /\ from.call[p] \in from.entries /\ from.count[from.call[p]] <= 1
  THEN <<Step("forget", from.call[p], None, None)>> ELSE <<>>

(* ... and forgets its count and its affinity, whatever the count is now.   *)
Forgotten(k) == [pool EXCEPT !.count[k] = 0, !.entries = @ \ {k}, !.node[k] = None]

(* cancel_unallocated_call *)
Cancelled(k) == IF k \notin pool.entries THEN [pool EXCEPT !.node[k] = None] ELSE pool

-----------------------------------------------------------------------------
(* The ports in the session of c. *)
Stored(c) == {session[c].gateway, session[c].caller} \ {None}

Idle(c, who) == todo[c][who] = <<>>
Quiet == \A c \in Calls, who \in Actors : Idle(c, who)
Next_(c, who, what) == ~Idle(c, who) /\ Head(todo[c][who]).what = what
Then(c, who, steps) == todo' = [todo EXCEPT ![c][who] = steps \o Tail(@)]
Start(c, who, steps) == Idle(c, who) /\ todo' = [todo EXCEPT ![c][who] = steps]

OwnersBut(ps, c) == {owner[p] : p \in ps} \ {None, c, Stray}

Trouble == troubles < MaxTroubles /\ troubles' = troubles + 1

KeyOf(c, why) == IF why = "stray" THEN Stray ELSE c
Gone == [at |-> "gone", gateway |-> None, caller |-> None]
Choice(why) == <<Step("choose", why, None, None)>>

(* clear_media_targets: the port of the gateway, then that of the caller. *)
Clearing_GatewayOnly(s) ==
  IF s.gateway = None THEN <<>> ELSE <<Step("clear", None, s.gateway, None)>>

Clearing(s) ==
  (IF s.gateway = None THEN <<>> ELSE <<Step("clear", None, s.gateway, None)>>)
    \o (IF s.caller = None THEN <<>> ELSE <<Step("clear", None, s.caller, None)>>)

(* handle_invite_request, at the allocation of its relay. *)
Invite(c) ==
  /\ session[c].at = "new" /\ Start(c, "handler", Choice("offer"))
  /\ UNCHANGED <<relay, pool, session, troubles, owner, marks>>

(* An INVITE without SDP is sent on without a port for its gateway.        *)
InviteWithoutSdp(c) ==
  /\ session[c].at = "new" /\ Idle(c, "handler")
  /\ session' = [session EXCEPT ![c].at = "up"]
  /\ UNCHANGED <<relay, pool, todo, troubles, owner, marks>>

(* prepare_response_sdp for a response with SDP: nothing is leased for a   *)
(* call that has both its ports.  Without a session the Call-ID stands in. *)
Answer(c) ==
  /\ session[c].at = "up" /\ None \in {session[c].gateway, session[c].caller}
  /\ Start(c, "handler", Choice("answer"))
  /\ IF session[c].caller = None THEN UNCHANGED troubles ELSE Trouble
  /\ UNCHANGED <<relay, pool, session, owner, marks>>

LateAnswer(c) ==
  /\ session[c].at = "gone" /\ Trouble
  /\ Start(c, "handler", Choice("stray"))
  /\ UNCHANGED <<relay, pool, session, owner, marks>>

(* failover.rs: clears what the session has, then leases for the new offer, *)
(* which has SDP if the INVITE had.                                        *)
Failover(c) ==
  /\ session[c].at = "up" /\ Trouble
  /\ Start(c, "handler", Clearing(session[c])
              \o IF session[c].gateway = None THEN <<>> ELSE Choice("failover"))
  /\ spent' = [spent EXCEPT ![c] = Stored(c)]
  /\ UNCHANGED <<relay, pool, session, owner, leaked, victims>>

(* failed_cleanup.rs: clears, and only then removes the session. *)
Failure(c) ==
  /\ session[c].at = "up"
  /\ Start(c, "handler", Clearing(session[c]) \o <<Step("remove", None, None, None)>>)
  /\ spent' = [spent EXCEPT ![c] = Stored(c)]
  /\ UNCHANGED <<relay, pool, session, troubles, owner, leaked, victims>>

(* teardown_call_transaction: removes the session, clears the state of DTMF,*)
(* which asks for the node of the call and so may choose one, and then the  *)
(* ports of the session.                                                   *)
Teardown(c) ==
  /\ session[c].at = "up"
  /\ Start(c, "ender", Clearing(session[c]))
  /\ session' = [session EXCEPT ![c] = Gone]
  /\ spent' = [spent EXCEPT ![c] = {}]
  /\ \/ UNCHANGED pool
     \/ \E n \in NodesFor(c) : pool' = [pool EXCEPT !.node[c] = n]
  /\ UNCHANGED <<relay, troubles, owner, leaked, victims>>

Remove(c) ==
  /\ Next_(c, "handler", "remove") /\ Then(c, "handler", <<>>)
  /\ session' = [session EXCEPT ![c] = Gone]
  /\ spent' = [spent EXCEPT ![c] = {}]
  /\ UNCHANGED <<relay, pool, troubles, owner, leaked, victims>>

-----------------------------------------------------------------------------
(* allocate_endpoint_for_call, for the reason at the head of the list. *)

(* What a handler without a port leaves behind: an INVITE is refused.  A    *)
(* failover leaves the session the ports it has just cleared.              *)
Unserved(c, why) ==
  session' = IF why = "offer" THEN [session EXCEPT ![c].at = "refused"] ELSE session

Choose(c) ==
  /\ Next_(c, "handler", "choose")
  /\ LET why == Head(todo[c]["handler"]).why
         k == KeyOf(c, why)
     IN  \/ \E n \in NodesFor(k) :
              /\ pool' = [pool EXCEPT !.node[k] = n]
              /\ Then(c, "handler", <<Step("lease", why, None, n)>>)
              /\ UNCHANGED session
         \/ /\ pool.node[k] = None  \* no node is healthy
            /\ Then(c, "handler", <<>>) /\ Unserved(c, why)
            /\ UNCHANGED pool
  /\ UNCHANGED <<relay, troubles, owner, marks>>

(* A port is had when its lease bit is won and both its sockets are bound;  *)
(* those of a cleared port are bound until its relay loops end, and a       *)
(* search that comes too early finds it taken (LeaseFails).  Where a search *)
(* starts is a race of unlocked cursors: anywhere.  A port may be had that  *)
(* was paired, when it was free, by a call that named it still: its call is *)
(* a victim of that one.                                                   *)
Available(n) == {p \in Ports : NodeOf[p] = n /\ p \notin leased}

Grant(k, p) ==
  /\ leased' = leased \cup {p}
  /\ owner' = [owner EXCEPT ![p] = k]

Lease(c) ==
  /\ Next_(c, "handler", "lease")
  /\ LET s == Head(todo[c]["handler"]) IN
       \E p \in Available(s.node) :
         /\ Grant(KeyOf(c, s.why), p)
         /\ leaked' = leaked \ {p}
         /\ victims' = IF peers[p] = None THEN victims
                       ELSE victims \cup {KeyOf(c, s.why)}
         /\ Then(c, "handler", <<Step("record", s.why, p, None)>>)
  /\ UNCHANGED <<peers, pool, session, troubles, spent>>

(* No port is left, or the system refuses a socket. *)
LeaseFails(c) ==
  /\ Next_(c, "handler", "lease")
  /\ LET s == Head(todo[c]["handler"]) IN
       /\ pool' = Cancelled(KeyOf(c, s.why))
       /\ Unserved(c, s.why)
  /\ Then(c, "handler", <<>>)
  /\ UNCHANGED <<relay, troubles, owner, marks>>

(* A media-edge leases a port, and its answer does not come in time. *)
LeaseLost(c) ==
  /\ Next_(c, "handler", "lease") /\ Trouble
  /\ LET s == Head(todo[c]["handler"]) IN
       /\ s.node \notin LocalNodes
       /\ \E p \in Available(s.node) :
            Grant(KeyOf(c, s.why), p) /\ leaked' = leaked \cup {p}
       /\ pool' = Cancelled(KeyOf(c, s.why))
       /\ Unserved(c, s.why)
  /\ Then(c, "handler", <<>>)
  /\ UNCHANGED <<peers, spent, victims>>

Record(c) ==
  /\ Next_(c, "handler", "record")
  /\ LET s == Head(todo[c]["handler"]) IN
       /\ pool' = Recorded(s.port, KeyOf(c, s.why))
       /\ victims' = victims \cup ({pool.call[s.port]} \ {None})
       /\ Then(c, "handler", <<Step("rewrite", s.why, s.port, None)>>)
  /\ UNCHANGED <<relay, session, troubles, owner, leaked, spent>>

-----------------------------------------------------------------------------
(* prepare_rewritten_sdp, prepare_webrtc_answer: the port of an SDP that    *)
(* cannot be rewritten is cleared.                                         *)
RewriteFails(c) ==
  /\ Next_(c, "handler", "rewrite")
  /\ LET s == Head(todo[c]["handler"]) IN
       /\ IF s.why = "answer" THEN Trouble ELSE UNCHANGED troubles
       /\ Unserved(c, s.why)
       /\ Then(c, "handler", <<Step("clear", None, s.port, None)>>)
  /\ UNCHANGED <<relay, pool, owner, marks>>

(* pair_ports pairs two ports that the pool knows to be of this process.  A *)
(* session may name a port of its gateway that is another call's by now.   *)
Pairable(p, q) ==
  pool.call[p] # None /\ pool.call[q] # None /\ NodeOf[p] = NodeOf[q] /\ p \in LocalPorts

Pair(c, p, q) ==
  /\ peers' = [peers EXCEPT ![p] = q, ![q] = p]
  /\ victims' = victims \cup OwnersBut({p, q}, c)

(* remember_inbound_invite, remember_gateway_media, failover.rs: the port   *)
(* is stored in the session; when that is gone, nowhere.  The port of an    *)
(* answer takes the place of one that is stored already.                   *)
Overwritten(c, why) == IF why = "answer" THEN {session[c].caller} \ ({None} \cup spent[c]) ELSE {}

Rewrite(c) ==
  /\ Next_(c, "handler", "rewrite") /\ Then(c, "handler", <<>>)
  /\ LET s == Head(todo[c]["handler"])
         kept == s.why = "offer" \/ (s.why # "stray" /\ session[c].at = "up")
     IN  /\ leaked' = leaked \cup (IF kept THEN Overwritten(c, s.why) ELSE {s.port})
         /\ session' = IF ~kept THEN session
                       ELSE IF s.why = "answer" THEN [session EXCEPT ![c].caller = s.port]
                       ELSE [session EXCEPT ![c] =
                               [at |-> "up", gateway |-> s.port, caller |-> None]]
         /\ IF kept /\ s.why = "answer" /\ session[c].gateway # None
                 /\ Pairable(session[c].gateway, s.port)
            THEN Pair(c, session[c].gateway, s.port) ELSE UNCHANGED <<peers, victims>>
         /\ spent' = IF kept THEN [spent EXCEPT ![c] = IF s.why = "failover" THEN {}
                                                        ELSE @ \ {s.port}]
                     ELSE spent
  /\ UNCHANGED <<leased, pool, troubles, owner>>

(* An answer that gives no endpoint, as one of WebRTC, has its port stored  *)
(* nowhere (prepare_response_sdp).                                         *)
RewriteWithoutEndpoint(c) ==
  /\ Next_(c, "handler", "rewrite") /\ Then(c, "handler", <<>>) /\ Trouble
  /\ LET s == Head(todo[c]["handler"]) IN
       s.why \in {"answer", "stray"} /\ leaked' = leaked \cup {s.port}
  /\ UNCHANGED <<relay, pool, session, owner, spent, victims>>

-----------------------------------------------------------------------------
(* clear_target *)

(* In this process: the port and its peer are freed, in the relay and in    *)
(* the pool.  So it goes, too, for a port the pool does not know (any      *)
(* more), which frees nothing if it is a port of a media-edge.  The        *)
(* sockets are bound until the end, so nobody is between its two halves.   *)
ClearHere(c, who) ==
  /\ Next_(c, who, "clear")
  /\ LET p == Head(todo[c][who]).port
         q == peers[p]
         freed == {p, q} \cap LocalPorts
     IN  /\ p \in LocalPorts \/ pool.call[p] = None
         /\ leased' = leased \ freed
         /\ owner' = [x \in Ports |-> IF x \in freed THEN None ELSE owner[x]]
         /\ peers' = [x \in Ports |-> IF x \in {p, q} THEN None ELSE peers[x]]
         /\ pool' = Released(Released(pool, p), q)
         /\ Then(c, who, Forgetting(pool, p) \o Forgetting(Released(pool, p), q))
         /\ victims' = victims \cup OwnersBut(freed, c)
         /\ leaked' = IF p \notin LocalPorts /\ owner[p] \in {c, Stray}
                      THEN leaked \cup {p} ELSE leaked
  /\ UNCHANGED <<session, troubles, spent>>

(* At a media-edge: the port alone.  Its answer is not looked at, and the   *)
(* pool forgets the port in a step of its own.                             *)
ClearThere(c, who) ==
  /\ Next_(c, who, "clear")
  /\ LET p == Head(todo[c][who]).port IN
       /\ p \notin LocalPorts /\ pool.call[p] # None
       /\ leased' = leased \ {p}
       /\ owner' = [owner EXCEPT ![p] = None]
       /\ victims' = victims \cup OwnersBut({p}, c)
       /\ Then(c, who, <<Step("release", None, p, None)>>)
  /\ UNCHANGED <<peers, pool, session, troubles, leaked, spent>>

ClearLost(c, who) ==
  /\ Next_(c, who, "clear") /\ Trouble
  /\ LET p == Head(todo[c][who]).port IN
       /\ p \notin LocalPorts /\ pool.call[p] # None
       /\ leaked' = IF owner[p] \in {c, Stray} THEN leaked \cup {p} ELSE leaked
       /\ Then(c, who, <<Step("release", None, p, None)>>)
  /\ UNCHANGED <<relay, pool, session, owner, spent, victims>>

Release(c, who) ==
  /\ Next_(c, who, "release")
  /\ LET p == Head(todo[c][who]).port IN
       /\ pool' = Released(pool, p)
       /\ Then(c, who, Forgetting(pool, p))
       /\ victims' = victims \cup ({pool.call[p]} \ {None, c, Stray})
  /\ UNCHANGED <<relay, session, troubles, owner, leaked, spent>>

Forget(c, who) ==
  /\ Next_(c, who, "forget") /\ Then(c, who, <<>>)
  /\ pool' = Forgotten(Head(todo[c][who]).why)
  /\ UNCHANGED <<relay, session, troubles, owner, marks>>

-----------------------------------------------------------------------------
Next ==
  \/ \E c \in Calls :
       \/ Invite(c) \/ InviteWithoutSdp(c) \/ Answer(c) \/ LateAnswer(c) \/ Failover(c) \/ Failure(c)
       \/ Teardown(c) \/ Remove(c)
       \/ Choose(c) \/ Lease(c) \/ LeaseFails(c) \/ LeaseLost(c) \/ Record(c)
       \/ RewriteFails(c) \/ Rewrite(c) \/ RewriteWithoutEndpoint(c)
       \/ \E who \in Actors : ClearHere(c, who) \/ ClearThere(c, who)
                                \/ ClearLost(c, who) \/ Release(c, who) \/ Forget(c, who)

Spec == Init /\ [][Next]_vars

-----------------------------------------------------------------------------
PortsHeldBy(c) ==
  IF session[c].at = "up" THEN Stored(c) \ spent[c] ELSE {}

(* A session in use has what it stores: unless another call has cleared,    *)
(* recorded over or paired one of its ports, each of them is leased to it   *)
(* and nobody else, recorded for it, and on the node the pool keeps the     *)
(* call on (edge_state/media.rs, media/cluster/pool.rs, relay/state.rs).    *)
SessionsHoldTheirPorts ==
  /\ TypeOK
  /\ \A c \in Calls \ victims : \A p \in PortsHeldBy(c) :
       /\ p \in leased /\ owner[p] = c
       /\ pool.call[p] = c /\ pool.node[c] = NodeOf[p]

(* When nothing is in progress and no call has harmed another, a port is    *)
(* leased or recorded only for a session in use, or it leaked in one of     *)
(* six ways: stored nowhere, because the session was gone or its answer     *)
(* gave no endpoint; stored, and overwritten by the port of a further       *)
(* answer, as in a call whose INVITE had no SDP; leased or cleared by a     *)
(* request to a media-edge that was lost; or cleared in this process        *)
(* because the pool had forgotten whose it was.                            *)
(* The books of the pool agree: endpoints are those of its records, and so  *)
(* are the counts but for a call that was torn down or a late answer, which *)
(* may count less than they have left behind: release_port lets go of a     *)
(* count that is 0 before it removes it, whatever it is by then.  No call   *)
(* keeps an affinity without a port, but one that was torn down and asked   *)
(* for its node then (teardown_call_transaction, clear_target).            *)
LeaksAreNamed ==
  Quiet /\ victims = {} =>
    LET held == UNION {PortsHeldBy(c) : c \in Calls}
        of(k) == {p \in Ports : pool.call[p] = k}
    IN  /\ leased \ leaked \subseteq held
        /\ {p \in Ports : pool.call[p] # None} \ leaked \subseteq held
        /\ \A k \in Keys :
             /\ pool.count[k] <= Cardinality(of(k))
             /\ k \in Calls /\ session[k].at # "gone" =>
                  pool.count[k] = Cardinality(of(k))
             /\ pool.node[k] # None /\ of(k) = {} => k \in Calls /\ session[k].at = "gone"
        /\ \A n \in Nodes : pool.endpoints[n] =
             Cardinality({p \in Ports : NodeOf[p] = n /\ pool.call[p] # None})
===============================================================================
