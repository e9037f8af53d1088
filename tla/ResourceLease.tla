---------------------------- MODULE ResourceLease ----------------------------
(***************************************************************************)
(* The capacity leases every SIP edge of the cluster shares through Redis  *)
(* (services/sip-edge/src/resource_lease).  A call that goes out with a    *)
(* managed caller number or over a trunk with a limit holds, under its     *)
(* Call-ID, one slot of both.  Redis runs each Lua script atomically, so   *)
(* one script is one action; several nodes call them in any order, and a   *)
(* node may call them with a stale idea of what a call holds, or late.     *)
(*                                                                         *)
(* A sorted set maps members to scores; a score is an expiry in Redis      *)
(* seconds, which are positive, so NoScore stands for "not a member".      *)
(***************************************************************************)
EXTENDS Integers, FiniteSets

CONSTANTS Calls,       \* Call-IDs
          Numbers,     \* caller numbers
          NoNumber,    \* the empty caller number: no managed identity
          Gateways,    \* egress trunks
          NoLease,     \* no value in the hash of calls
          NumberMax,   \* NumberMax[n]: concurrent calls of number n, 0 unlimited
          TrunkMax,    \* TrunkMax[g]: concurrent calls of trunk g, 0 unlimited
          TTL,         \* RENEWAL_TTL_SECS
          MaxTime      \* bound: the clock stops here

NoScore == 0
CallerNumbers == Numbers \cup {NoNumber}
Lease(n, g) == [number |-> n, gateway |-> g]
Leases == [number : CallerNumbers, gateway : Gateways]

ASSUME LeaseAssumption ==
  /\ IsFiniteSet(Calls)
  /\ NoNumber \notin Numbers
  /\ NoLease \notin Leases
  /\ NumberMax \in [Numbers -> Nat]
  /\ TrunkMax \in [Gateways -> Nat]
  /\ TTL \in Nat \ {0}
  /\ MaxTime \in Nat

VARIABLES
  now,           \* the clock of the Redis server
  calls,         \* hash resource-leases:calls, Call-ID -> number and trunk
  callExpiry,    \* sorted set resource-leases:call-expiry
  numberExpiry,  \* sorted sets resource-leases:number:<n>
  trunkExpiry    \* sorted sets resource-leases:trunk:<g>

store == <<calls, callExpiry, numberExpiry, trunkExpiry>>
vars == <<now, store>>

(* Besides the types: no expiry is further away than one TTL, so whatever a *)
(* crashed node held is free again after it (RENEWAL_TTL_SECS).            *)
TypeOK ==
  /\ now \in Nat \ {0}
  /\ calls \in [Calls -> Leases \cup {NoLease}]
  /\ callExpiry \in [Calls -> 0..(now + TTL)]
  /\ numberExpiry \in [Numbers -> [Calls -> 0..(now + TTL)]]
  /\ trunkExpiry \in [Gateways -> [Calls -> 0..(now + TTL)]]

Init ==
  /\ now = 1
  /\ calls = [c \in Calls |-> NoLease]
  /\ callExpiry = [c \in Calls |-> NoScore]
  /\ numberExpiry = [n \in Numbers |-> [c \in Calls |-> NoScore]]
  /\ trunkExpiry = [g \in Gateways |-> [c \in Calls |-> NoScore]]

-----------------------------------------------------------------------------
(* ZREMRANGEBYSCORE key -inf now *)
Purged(scores) ==
  [c \in Calls |-> IF scores[c] <= now THEN NoScore ELSE scores[c]]

(* The calls ZRANGEBYSCORE finds expired lose their hash entry. *)
PurgedCalls ==
  [c \in Calls |-> IF callExpiry[c] \in 1..now THEN NoLease ELSE calls[c]]

ZCard(scores) == Cardinality({c \in Calls : scores[c] # NoScore})

Later(a, b) == IF a >= b THEN a ELSE b

(* The sorted set of n; the key of the empty number never gets a member. *)
NumberScores(n) ==
  IF n = NoNumber THEN [c \in Calls |-> NoScore] ELSE numberExpiry[n]

NumberFull_OneTooMany(n) ==
  /\ n # NoNumber
  /\ NumberMax[n] > 0
  /\ ZCard(Purged(NumberScores(n))) > NumberMax[n]

NumberFull(n) ==
  /\ n # NoNumber
  /\ NumberMax[n] > 0
  /\ ZCard(Purged(NumberScores(n))) >= NumberMax[n]

TrunkFull_OneTooMany(g) ==
  /\ TrunkMax[g] > 0
  /\ ZCard(Purged(trunkExpiry[g])) > TrunkMax[g]

TrunkFull(g) ==
  /\ TrunkMax[g] > 0
  /\ ZCard(Purged(trunkExpiry[g])) >= TrunkMax[g]

(* acquire() takes no lease for a call that meets no limit. *)
Limited(n, g) == TrunkMax[g] > 0 \/ (n # NoNumber /\ NumberMax[n] > 0)

AcquireReply(c, n, g) ==
  IF PurgedCalls[c] \notin {NoLease, Lease(n, g)} THEN "call_conflict"
  ELSE IF PurgedCalls[c] = Lease(n, g) THEN "ok"
  ELSE IF NumberFull(n) THEN "number_busy"
  ELSE IF TrunkFull(g) THEN "trunk_at_capacity" ELSE "ok"

AcquireExpiry_Accumulated(c, n, g) == Later(now, callExpiry[c]) + TTL

(* A lease taken again keeps the latest of its expiries. *)
AcquireExpiry(c, n, g) ==
  IF PurgedCalls[c] = NoLease
  THEN now + TTL
  ELSE Later(now + TTL, Later(Purged(callExpiry)[c],
         Later(Purged(NumberScores(n))[c], Purged(trunkExpiry[g])[c])))

(* Sets the score of c in the three sorted sets, after the purge when the  *)
(* script purges; the set of the empty number is never written.            *)
SetScores(callScores, numberScores, trunkScores, c, n, g, score) ==
  /\ callExpiry' = [callScores EXCEPT ![c] = score]
  /\ numberExpiry' = IF n = NoNumber THEN numberExpiry
       ELSE [numberExpiry EXCEPT ![n] = [numberScores EXCEPT ![c] = score]]
  /\ trunkExpiry' = [trunkExpiry EXCEPT ![g] = [trunkScores EXCEPT ![c] = score]]

(* ACQUIRE_SCRIPT when it grants: purge, then write hash and scores. *)
AcquireGranted(c, n, g) ==
  /\ Limited(n, g)
  /\ AcquireReply(c, n, g) = "ok"
  /\ calls' = [PurgedCalls EXCEPT ![c] = Lease(n, g)]
  /\ SetScores(Purged(callExpiry), Purged(NumberScores(n)), Purged(trunkExpiry[g]),
               c, n, g, AcquireExpiry(c, n, g))
  /\ UNCHANGED now

(* ACQUIRE_SCRIPT when it refuses: what it purged stays purged. *)
AcquireRefused(c, n, g) ==
  /\ Limited(n, g)
  /\ AcquireReply(c, n, g) # "ok"
  /\ calls' = PurgedCalls
  /\ callExpiry' = Purged(callExpiry)
  /\ numberExpiry' = IF n = NoNumber THEN numberExpiry
                     ELSE [numberExpiry EXCEPT ![n] = Purged(numberExpiry[n])]
  /\ trunkExpiry' = [trunkExpiry EXCEPT ![g] = Purged(trunkExpiry[g])]
  /\ UNCHANGED now

Forget_KeepsHash(c, n, g) ==
  /\ SetScores(callExpiry, NumberScores(n), trunkExpiry[g], c, n, g, NoScore)
  /\ UNCHANGED <<now, calls>>

(* Deletes c everywhere, as RELEASE_SCRIPT and a failed renewal do. *)
Forget(c, n, g) ==
  /\ calls' = [calls EXCEPT ![c] = NoLease]
  /\ SetScores(callExpiry, NumberScores(n), trunkExpiry[g], c, n, g, NoScore)
  /\ UNCHANGED now

(* A missing score (nil) counts as an expired one. *)
StillLive(c, n, g) ==
  /\ callExpiry[c] > now
  /\ n # NoNumber => numberExpiry[n][c] > now
  /\ trunkExpiry[g][c] > now

RenewalExpiry_OneTick(c, n, g) == now + 1

RenewalExpiry(c, n, g) ==
  Later(now + TTL, Later(callExpiry[c], Later(NumberScores(n)[c], trunkExpiry[g][c])))

RenewLive_CallOnly(c, n, g) ==
  /\ calls[c] = Lease(n, g)
  /\ StillLive(c, n, g)
  /\ callExpiry' = [callExpiry EXCEPT ![c] = RenewalExpiry(c, n, g)]
  /\ UNCHANGED <<now, calls, numberExpiry, trunkExpiry>>

(* RENEW_SCRIPT on a lease that is live in all three sets. *)
RenewLive(c, n, g) ==
  /\ calls[c] = Lease(n, g)
  /\ StillLive(c, n, g)
  /\ SetScores(callExpiry, NumberScores(n), trunkExpiry[g],
               c, n, g, RenewalExpiry(c, n, g))
  /\ UNCHANGED <<now, calls>>

(* RENEW_SCRIPT on an expired lease: reply -4, and the lease is dropped. *)
RenewExpired(c, n, g) ==
  /\ calls[c] = Lease(n, g)
  /\ ~StillLive(c, n, g)
  /\ Forget(c, n, g)

(* RENEW_SCRIPT without a lease (0), or with another one (-3), and          *)
(* RELEASE_SCRIPT without this very lease (0), change nothing.              *)
Release(c, n, g) ==
  /\ calls[c] = Lease(n, g)
  /\ Forget(c, n, g)

Tick ==
  /\ now < MaxTime
  /\ now' = now + 1
  /\ UNCHANGED store

Script(c, n, g) ==
  \/ AcquireGranted(c, n, g)
  \/ AcquireRefused(c, n, g)
  \/ RenewLive(c, n, g)
  \/ RenewExpired(c, n, g)
  \/ Release(c, n, g)

Next ==
  \/ \E c \in Calls, n \in CallerNumbers, g \in Gateways : Script(c, n, g)
  \/ Tick

Spec == Init /\ [][Next]_vars

-----------------------------------------------------------------------------
Live(c) == callExpiry[c] > now

LiveIn(scores) == {c \in Calls : scores[c] > now}

NumberResource(n) == <<"number", n>>
TrunkResource(g) == <<"trunk", g>>
Resources == {NumberResource(n) : n \in Numbers}
               \cup {TrunkResource(g) : g \in Gateways}

Limit == [r \in Resources |-> IF r[1] = "number" THEN NumberMax[r[2]]
                                                 ELSE TrunkMax[r[2]]]

Needs(l) == {TrunkResource(l.gateway)}
              \cup (IF l.number = NoNumber THEN {} ELSE {NumberResource(l.number)})

Holding == [c \in Calls |-> IF Live(c) THEN Needs(calls[c]) ELSE {}]

CL == INSTANCE CapacityLease WITH holding <- Holding

(* Whatever nodes call the scripts in whatever order, and whatever expires  *)
(* meanwhile, the store behaves as CapacityLease: number and trunk are      *)
(* taken together and only with room in both, a live lease never moves to   *)
(* other resources, and an expired or released one is back only through a   *)
(* new grant (ACQUIRE_SCRIPT, RENEW_SCRIPT, RELEASE_SCRIPT in scripts.rs).   *)
ImplementsCapacityLease == CL!Spec

(* The four keys a script writes agree: a call has a hash entry exactly     *)
(* while it is in the set of expiries; a live call has the same expiry in   *)
(* the set of its number and in the set of its trunk; and whoever is live   *)
(* in one of these sets is there by its own lease, so a count of a set      *)
(* counts calls that really hold the resource.                              *)
KeysAgreeFor(c) ==
  /\ calls[c] # NoLease <=> callExpiry[c] # NoScore
  /\ Live(c) =>
       /\ trunkExpiry[calls[c].gateway][c] = callExpiry[c]
       /\ calls[c].number # NoNumber =>
            numberExpiry[calls[c].number][c] = callExpiry[c]
  /\ \A n \in Numbers : numberExpiry[n][c] > now =>
       Live(c) /\ calls[c].number = n
  /\ \A g \in Gateways : trunkExpiry[g][c] > now =>
       Live(c) /\ calls[c].gateway = g

(* KeysAgreeFor of every call, in ACQUIRE_SCRIPT, RENEW_SCRIPT and          *)
(* RELEASE_SCRIPT, whatever the order in which nodes call them.            *)
KeysAgree == \A c \in Calls : KeysAgreeFor(c)

(* No number and no trunk ever has more live leases than its limit, counted *)
(* over the sorted sets themselves, not through the hash.                   *)
CapacityRespected ==
  /\ \A n \in Numbers : NumberMax[n] > 0 =>
       Cardinality(LiveIn(numberExpiry[n])) <= NumberMax[n]
  /\ \A g \in Gateways : TrunkMax[g] > 0 =>
       Cardinality(LiveIn(trunkExpiry[g])) <= TrunkMax[g]

(* "Renewal never shortens an existing lease" (resource_lease/tests.rs):    *)
(* a call that stays live keeps or extends its expiry, also when it asks    *)
(* again with ACQUIRE.                                                      *)
NeverShortened ==
  [][\A c \in Calls : Live(c) /\ Live(c)' => callExpiry'[c] >= callExpiry[c]]_vars

(* A hash entry without a live lease blocks nobody: the call it belongs to  *)
(* may acquire any resources that have room ("节点宕机后可自动回收", the TTL *)
(* of TRUNK_CALLER_TERMINATION_DESIGN.md).                                  *)
ExpiredBlocksNobody ==
  \A c \in Calls, n \in CallerNumbers, g \in Gateways :
    ~Live(c) => AcquireReply(c, n, g) # "call_conflict"
=============================================================================
