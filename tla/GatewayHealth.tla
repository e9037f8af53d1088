---------------------------- MODULE GatewayHealth ----------------------------
(***************************************************************************)
(* The circuit breaker of one egress gateway on one SIP edge: the health   *)
(* record (crates/call-core/src/routing/gateway_health.rs, health.rs), the *)
(* loop that probes the gateway with OPTIONS (timers/gateway_health.rs),   *)
(* and the calls that are routed to it and report what became of their     *)
(* INVITE (routing/table.rs, dispatcher/response/gateway_health.rs).  The  *)
(* records of different gateways share nothing, and every operation on one *)
(* takes the lock of its map entry, so an operation is one action.         *)
(*                                                                         *)
(* A call comes back to "idle" when it ends, so one member of Calls stands *)
(* for any number of calls one after the other.  CallCoreProofs proves both *)
(* this and CallManager correct: the names the two would share start with  *)
(* Health here.                                                            *)
(***************************************************************************)
EXTENDS Naturals

CONSTANTS
  Calls,             \* calls routed at the same time
  NoCall,            \* nobody, or the probe, took the half-open slot
  FailureThreshold,  \* thresholds.failure_threshold
  CloseThreshold,    \* HALF_OPEN_SUCCESS_THRESHOLD
  MinSamples,        \* thresholds.min_samples
  MinPercent,        \* thresholds.min_success_rate
  MaxGoods,          \* successes are not told apart from here on
  MaxBads            \* bound: failures recorded

(* With MaxGoods successes the rate is good whatever MaxBads allows, so     *)
(* that counting on would change nothing.                                   *)
ASSUME HealthAssumption ==
  /\ NoCall \notin Calls
  /\ FailureThreshold \in Nat \ {0} /\ CloseThreshold \in Nat \ {0}
  /\ MinSamples \in Nat /\ MinPercent \in 0..100
  /\ MaxBads \in Nat
  /\ MaxGoods \in Nat /\ MaxGoods >= MinSamples
  /\ MaxGoods * 100 >= MinPercent * (MaxGoods + MaxBads)

VARIABLES
  up,             \* the gateway answers OPTIONS and INVITE in time
  circuit,        \* state
  failures,       \* consecutive_failures, counted up to the threshold
  halfSuccesses,  \* half_open_successes
  slot,           \* half_open_probe_in_flight
  goods,          \* success_count, counted up to MaxGoods
  bads,           \* failure_count
  cooled,         \* recovery_interval has passed since last_failure
  probe,          \* gateway_probes has an entry of the gateway
  stage,          \* stage[c]: how far call c is
  holder,         \* the call that took the slot, if a call did
  leaked          \* the call that took the slot has ended without a verdict

health == <<circuit, failures, halfSuccesses, slot, goods, bads, cooled>>
traffic == <<stage, holder, leaked>>
breaker == <<up, health, probe, traffic>>

Circuits == {"closed", "open", "halfOpen"}
Stages == {"idle", "listed", "acquired", "spare", "invited"}

HealthTypeOK ==
  /\ up \in BOOLEAN
  /\ circuit \in Circuits
  /\ failures \in 0..FailureThreshold
  /\ halfSuccesses \in 0..(CloseThreshold - 1)
  /\ slot \in BOOLEAN
  /\ goods \in 0..MaxGoods /\ bads \in 0..MaxBads
  /\ cooled \in BOOLEAN
  /\ probe \in BOOLEAN
  /\ stage \in [Calls -> Stages]
  /\ holder \in Calls \cup {NoCall}
  /\ leaked \in BOOLEAN

HealthInit ==
  /\ up = TRUE
  /\ circuit = "closed" /\ failures = 0 /\ halfSuccesses = 0 /\ slot = FALSE
  /\ goods = 0 /\ bads = 0 /\ cooled = FALSE
  /\ probe = FALSE
  /\ stage = [c \in Calls |-> "idle"]
  /\ holder = NoCall /\ leaked = FALSE

-----------------------------------------------------------------------------
(* success_rate; without samples it is 1. *)
RateIsGood ==
  goods + bads >= MinSamples => goods * 100 >= MinPercent * (goods + bads)

IsAvailable == IF circuit = "open" THEN cooled ELSE RateIsGood

(* try_acquire and try_acquire_probe first make an open circuit that has    *)
(* waited long enough half-open, whether they then grant anything or not.  *)
Recovering == circuit = "open" /\ cooled
CircuitNow == IF Recovering THEN "halfOpen" ELSE circuit
SlotTaken == ~Recovering /\ slot

Reopen(taken) ==
  /\ circuit' = CircuitNow
  /\ halfSuccesses' = IF Recovering THEN 0 ELSE halfSuccesses
  /\ slot' = (SlotTaken \/ (taken /\ CircuitNow = "halfOpen"))
  /\ UNCHANGED <<failures, goods, bads, cooled>>

SlotFreed_Kept == leaked' = FALSE /\ UNCHANGED <<slot, holder>>

SlotFreed == slot' = FALSE /\ holder' = NoCall /\ leaked' = FALSE

CountGood == goods' = IF goods < MaxGoods THEN goods + 1 ELSE goods

EnoughSuccesses_OneMore == halfSuccesses + 1 > CloseThreshold

EnoughSuccesses == halfSuccesses + 1 >= CloseThreshold

(* GatewayHealth::record_success: an INVITE was answered. *)
RecordSuccess ==
  /\ CountGood
  /\ \/ /\ circuit = "halfOpen"
        /\ SlotFreed
        /\ IF EnoughSuccesses
           THEN circuit' = "closed" /\ failures' = 0 /\ halfSuccesses' = 0
           ELSE halfSuccesses' = halfSuccesses + 1 /\ UNCHANGED <<circuit, failures>>
     \/ /\ circuit = "closed"
        /\ failures' = 0
        /\ UNCHANGED <<circuit, halfSuccesses, slot, holder, leaked>>
     \/ /\ circuit = "open"
        /\ UNCHANGED <<circuit, failures, halfSuccesses, slot, holder, leaked>>
  /\ UNCHANGED <<bads, cooled>>

(* GatewayHealth::record_probe_success: closes the circuit at once. *)
RecordProbeSuccess ==
  /\ CountGood
  /\ SlotFreed
  /\ circuit' = "closed" /\ failures' = 0 /\ halfSuccesses' = 0
  /\ UNCHANGED <<bads, cooled>>

TooManyFailures_OneMore == failures + 1 > FailureThreshold

TooManyFailures == failures + 1 >= FailureThreshold

(* GatewayHealthTracker::record_failure. *)
RecordFailure ==
  /\ bads < MaxBads
  /\ bads' = bads + 1
  /\ failures' = IF failures < FailureThreshold THEN failures + 1 ELSE failures
  /\ cooled' = FALSE
  /\ SlotFreed
  /\ halfSuccesses' = 0
  /\ circuit' = IF circuit = "halfOpen" \/ TooManyFailures THEN "open" ELSE circuit
  /\ UNCHANGED goods

-----------------------------------------------------------------------------
(* The gateway goes down and comes up; the recovery interval passes. *)
Fail == up /\ up' = FALSE /\ UNCHANGED <<health, probe, traffic>>

Return == ~up /\ up' = TRUE /\ UNCHANGED <<health, probe, traffic>>

CoolDown ==
  /\ circuit = "open" /\ ~cooled
  /\ cooled' = TRUE
  /\ UNCHANGED <<up, circuit, failures, halfSuccesses, slot, goods, bads, probe, traffic>>

(* A tick of spawn_gateway_health_probe_loop: one probe at a time, and in a *)
(* half-open circuit only with the slot.                                   *)
ProbeTick ==
  /\ ~probe
  /\ circuit = "open" => cooled
  /\ ~(CircuitNow = "halfOpen" /\ SlotTaken)
  /\ Reopen(TRUE)
  /\ probe' = TRUE
  /\ UNCHANGED <<up, traffic>>

ProbeAnswered ==
  /\ probe /\ up
  /\ probe' = FALSE
  /\ RecordProbeSuccess
  /\ UNCHANGED <<up, stage>>

(* No answer within 3 s, a refusal, or a socket error. *)
ProbeTimesOut ==
  /\ probe /\ ~up
  /\ probe' = FALSE
  /\ RecordFailure
  /\ UNCHANGED <<up, stage>>

-----------------------------------------------------------------------------
(* select_healthy_candidates: the gateway is listed if it is available,    *)
(* and acquired later, if it comes first.                                  *)
List(c) ==
  /\ stage[c] = "idle" /\ IsAvailable
  /\ stage' = [stage EXCEPT ![c] = "listed"]
  /\ UNCHANGED <<up, health, probe, holder, leaked>>

(* try_acquire; `sampled` is the luck of one call in ten. *)
Grants(sampled) ==
  /\ CircuitNow # "open"
  /\ CircuitNow = "halfOpen" => ~SlotTaken /\ sampled
  /\ CircuitNow = "closed" => RateIsGood

Acquire(c) ==
  /\ stage[c] = "listed"
  /\ \E sampled \in BOOLEAN :
       /\ Reopen(Grants(sampled))
       /\ stage' = [stage EXCEPT ![c] = IF Grants(sampled) THEN "acquired" ELSE "spare"]
       /\ holder' = IF Grants(sampled) /\ CircuitNow = "halfOpen" THEN c ELSE holder
  /\ UNCHANGED <<up, probe, leaked>>

(* Another gateway comes first: this one is left for a failover. *)
Spare(c) ==
  /\ stage[c] = "listed"
  /\ stage' = [stage EXCEPT ![c] = "spare"]
  /\ UNCHANGED <<up, health, probe, holder, leaked>>

(* The INVITE goes out, of a first choice or by a failover. *)
SendInvite(c) ==
  /\ stage[c] \in {"acquired", "spare"}
  /\ stage' = [stage EXCEPT ![c] = "invited"]
  /\ UNCHANGED <<up, health, probe, holder, leaked>>

Ended(c) == stage' = [stage EXCEPT ![c] = "idle"]

Answered(c) ==
  /\ stage[c] = "invited" /\ up
  /\ Ended(c)
  /\ RecordSuccess
  /\ UNCHANGED <<up, probe>>

(* 408, 5xx, or the local 503 of a time-out. *)
Unanswered(c) ==
  /\ stage[c] = "invited" /\ ~up
  /\ Ended(c)
  /\ RecordFailure
  /\ UNCHANGED <<up, probe>>

(* The call ends without a verdict on the gateway: any other final         *)
(* response, a CANCEL, or, before the INVITE, no caller number, no lease,  *)
(* or no need for a failover.  The slot is not given back: nothing calls   *)
(* release_acquire.                                                        *)
NoVerdict(c) ==
  /\ stage[c] \in {"acquired", "spare", "invited"}
  /\ Ended(c)
  /\ leaked' = (leaked \/ holder = c)
  /\ UNCHANGED <<up, health, probe, holder>>

HealthNext ==
  \/ Fail \/ Return \/ CoolDown
  \/ ProbeTick \/ ProbeAnswered \/ ProbeTimesOut
  \/ \E c \in Calls : \/ List(c) \/ Acquire(c) \/ Spare(c) \/ SendInvite(c)
                      \/ Answered(c) \/ Unanswered(c) \/ NoVerdict(c)

HealthSpec == HealthInit /\ [][HealthNext]_breaker

(* The loop ticks and its probes end by an answer or after 3 s; time passes; *)
(* every call is decided on and ends, as the timers of its transactions and *)
(* of its session see to.                                                  *)
HealthFairness ==
  /\ WF_breaker(CoolDown) /\ WF_breaker(ProbeTick)
  /\ WF_breaker(ProbeAnswered) /\ WF_breaker(ProbeTimesOut)
  /\ \A c \in Calls :
       /\ WF_breaker(Acquire(c) \/ Spare(c)) /\ WF_breaker(SendInvite(c) \/ NoVerdict(c))
       /\ WF_breaker(Answered(c) \/ Unanswered(c) \/ NoVerdict(c))

FairHealthSpec == HealthSpec /\ HealthFairness

-----------------------------------------------------------------------------
(* The state of the circuit and the run of failures tell the same story,    *)
(* although late verdicts of calls and probes that started in another state *)
(* keep coming in: a closed circuit has not failed FailureThreshold times   *)
(* in a row, an open or half-open one has (record_failure, record_success). *)
CircuitMatchesFailures == circuit = "closed" <=> failures < FailureThreshold

(* The half-open slot is taken only while the circuit is half-open, and      *)
(* while its taker is under way; a taker that ended without a verdict        *)
(* leaves it taken (half_open_probe_in_flight, release_acquire).             *)
SlotIsAccounted ==
  slot => /\ circuit = "halfOpen"
          /\ \/ probe \/ leaked
             \/ \E c \in Calls : c = holder /\ stage[c] \in {"acquired", "invited"}

Routable == circuit = "closed" /\ RateIsGood

(* A gateway that stays up is routable again and stays so, whatever the      *)
(* counters went through, as long as no taker of the slot ends without a     *)
(* verdict: one call that takes it and gets a 486 keeps the probe loop and   *)
(* every other call away from the gateway for good.                          *)
RecoversUnlessLeaked == <>[](up /\ ~leaked) => <>[]Routable
=============================================================================
