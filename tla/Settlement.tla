----------------------------- MODULE Settlement -----------------------------
(***************************************************************************)
(* What a call pays.  An INVITE is checked against the balance in Redis     *)
(* and gets a maximum duration (invite/outbound/balance.rs), the session    *)
(* watchdog ends it there (timers/session.rs), and whoever ends a call has  *)
(* it settled by a task of its own (billing/settlement.rs): charge the      *)
(* access account, then the egress account, each in one transaction of      *)
(* PostgreSQL (store/billing.rs), and copy the new balance to Redis; the    *)
(* amount in the CDR is left out.  Meanwhile the API server credits,        *)
(* changes and deletes accounts (api-server, billing/accounts) and a        *)
(* starting edge reloads the cache (routing/table/warmup.rs).  A step here  *)
(* is one access to PostgreSQL or Redis; a transaction is a step.          *)
(*                                                                         *)
(* The calls have one access and one egress account, a pulse costs 1.      *)
(***************************************************************************)
EXTENDS Integers, FiniteSets, FiniteSetsExt

CONSTANTS
  Calls,
  Keys,       \* idempotency keys of credits, one amount each
  Opening,    \* balance of an account at the start
  Limits,     \* credit limits an account can have, at first none
  CreditOf,   \* CreditOf[k]: amount of the credit with key k
  Pulse,      \* billing_interval_secs, in units of time
  Lag,        \* units until the watchdog has ended a call that is due
  Missing,    \* a value Redis or PostgreSQL does not have
  FreeMax,    \* bound: units a call without a maximum lasts
  MaxEvents   \* bound: operations on accounts, faults, and second enders

Sides == {"call_charge", "call_cost"}  \* of the access, of the egress account
Enders == {"bye", "other"}             \* who ends a call, two may do so

(* The journal has one column for the keys of credits and those of charges, *)
(* "<Call-ID>:call_charge" and "<Call-ID>:call_cost" (store/billing.rs);    *)
(* nobody checks it, but who makes up a key makes up none of these.        *)
ASSUME SettlementAssumption ==
  /\ IsFiniteSet(Calls) /\ IsFiniteSet(Keys)
  /\ Keys \cap (Calls \X Sides) = {}
  /\ Limits \subseteq Nat /\ 0 \in Limits /\ Opening \in Nat
  /\ CreditOf \in [Keys -> Nat \ {0}]
  /\ Missing \notin Int
  /\ {Pulse, FreeMax} \subseteq Nat \ {0} /\ {Lag, MaxEvents} \subseteq Nat

VARIABLES
  account,  \* rows of billing_accounts
  cache,    \* vos_rs:billing:* in Redis, of the same accounts
  ledger,   \* billing_ledger
  journal,  \* billing_journal
  call,     \* the call, its maximum and its duration
  task,     \* settlement tasks of the edge
  admin,    \* operations of the API server, and reloads, under way
  events,   \* how many there were
  faulty,   \* an access failed, or the edge crashed
  raced,    \* two writers of the cache crossed
  shared    \* calls whose account others used before they were settled

rows == <<account, ledger, journal>>
vars == <<rows, cache, call, task, admin, events, faulty, raced, shared>>

Idle == [step |-> "idle"]

Statuses == {"enabled", "disabled", "deleted"}
Enabled(s) == account[s].status = "enabled"

Entry == [call : Calls, side : Sides, amount : Nat, after : Int]
Item == [side : Sides, key : Keys \cup (Calls \X Sides), amount : Int, after : Int]

(* No account is overdrawn by more than the largest limit it can have. *)
Balances == {n \in Int : \E limit \in Limits : n >= -limit}

TypeOK ==
  /\ account \in [Sides -> [balance : Balances, limit : Limits, status : Statuses]]
  /\ \A s \in Sides : /\ cache[s].balance \in Int \cup {Missing}
                      /\ cache[s].limit \in Limits \cup {Missing}
  /\ ledger \subseteq Entry /\ journal \subseteq Item
  /\ \A c \in Calls :
       /\ call[c].state \in {"new", "refused", "up", "over"}
       /\ call[c].max \in Nat \cup {Missing} /\ call[c].lasted \in Nat
  /\ \A c \in Calls : \A e \in Enders :
       task[c][e].step \in {"idle", "done", "look", "charge", "cache"}
  /\ events \in 0..MaxEvents /\ faulty \in BOOLEAN
  /\ raced \in BOOLEAN /\ shared \subseteq Calls

Init ==
  /\ account = [s \in Sides |-> [balance |-> Opening, limit |-> 0, status |-> "enabled"]]
  /\ cache = [s \in Sides |-> [balance |-> Opening, limit |-> 0]]
  /\ ledger = {} /\ journal = {}
  /\ call = [c \in Calls |-> [state |-> "new", max |-> Missing, lasted |-> 0]]
  /\ task = [c \in Calls |-> [e \in Enders |-> Idle]]
  /\ admin = {} /\ events = 0 /\ faulty = FALSE
  /\ raced = FALSE /\ shared = {}

Event == events < MaxEvents /\ events' = events + 1

-----------------------------------------------------------------------------
(* pulse_amount: a part of a pulse counts in full. *)
Amount(lasted) == (lasted + Pulse - 1) \div Pulse

(* maximum_duration_secs *)
MaxDuration_OnePulseMore(funds) == (funds + 1) * Pulse

MaxDuration(funds) == funds * Pulse

Settling(c) == \E e \in Enders : task[c][e].step \notin {"idle", "done"}
Unsettled == {c \in Calls : call[c].state = "up" \/ Settling(c)}

(* enforce_balance_check: without a balance in the cache a call is free,    *)
(* without a limit it has no rate and is refused.                          *)
Admit(c) ==
  LET seen == cache["call_charge"]
      row == account["call_charge"] IN
  /\ call[c].state = "new"
  /\ \/ /\ seen.balance = Missing
        /\ call' = [call EXCEPT ![c] = [@ EXCEPT !.state = "up"]]
     \/ /\ seen.balance # Missing
        /\ \/ seen.limit = Missing
           \/ seen.limit # Missing /\ seen.balance + seen.limit < 1
        /\ call' = [call EXCEPT ![c].state = "refused"]
     \/ /\ seen.balance # Missing /\ seen.limit # Missing
        /\ seen.balance + seen.limit >= 1
        /\ call' = [call EXCEPT ![c] =
             [@ EXCEPT !.state = "up", !.max = MaxDuration(seen.balance + seen.limit)]]
  /\ shared' = IF Enabled("call_charge") /\ seen = [balance |-> row.balance, limit |-> row.limit]
               THEN shared ELSE shared \cup {c}
  /\ UNCHANGED <<rows, cache, task, admin, events, faulty, raced>>

(* settle_completed_call: a task for each ender, with the account of the    *)
(* call set-up.  A call that has no answer, or no time, pays nothing.      *)
Spawn(c, e) ==
  task' = [task EXCEPT ![c][e] =
    IF call'[c].lasted = 0 THEN [step |-> "done"] ELSE [step |-> "look", side |-> "call_charge"]]

HangUp(c) ==
  /\ call[c].state = "up"
  /\ \E t \in 0..(IF call[c].max = Missing THEN FreeMax ELSE call[c].max) :
       call' = [call EXCEPT ![c] = [@ EXCEPT !.state = "over", !.lasted = t]]
  /\ Spawn(c, "bye")
  /\ UNCHANGED <<rows, cache, admin, events, faulty, raced, shared>>

(* "balance exhausted": the scan finds a call that has had its maximum. *)
Watchdog(c) ==
  /\ call[c].state = "up" /\ call[c].max # Missing
  /\ \E t \in call[c].max..(call[c].max + Lag) :
       call' = [call EXCEPT ![c] = [@ EXCEPT !.state = "over", !.lasted = t]]
  /\ Spawn(c, "other")
  /\ UNCHANGED <<rows, cache, admin, events, faulty, raced, shared>>

(* Another one who ends the call at the same time. *)
EndsToo(c, e) ==
  /\ call[c].state = "over" /\ task[c][e] = Idle
  /\ Event
  /\ UNCHANGED call
  /\ Spawn(c, e)
  /\ UNCHANGED <<rows, cache, admin, faulty, raced, shared>>

-----------------------------------------------------------------------------
NextSide(c, e) ==
  task' = [task EXCEPT ![c][e] =
    IF @.side = "call_charge" THEN [step |-> "look", side |-> "call_cost"]
                              ELSE [step |-> "done"]]

Charged(c, s) == \E entry \in ledger : entry.call = c /\ entry.side = s

(* settle_call_entry: what is in the ledger is settled; then the rate. *)
Look(c, e) ==
  /\ task[c][e].step = "look"
  /\ IF Charged(c, task[c][e].side) \/ ~Enabled(task[c][e].side)
     THEN NextSide(c, e)
     ELSE task' = [task EXCEPT ![c][e].step = "charge"]
  /\ UNCHANGED <<rows, cache, call, admin, events, faulty, raced, shared>>

Affordable(s, amount) ==
  Enabled(s) /\ account[s].balance - amount >= -account[s].limit

(* idx_billing_ledger_call_entry_unique *)
Unique_PerAmount(c, s, amount) ==
  ~\E entry \in ledger : /\ entry.call = c /\ entry.side = s
                         /\ entry.after = account[s].balance - amount

Unique(c, s, amount) == ~Charged(c, s)

(* Who has committed and not yet written the cache. *)
Writing(s) ==
  \/ \E c \in Calls : \E e \in Enders : task[c][e].step = "cache" /\ task[c][e].side = s
  \/ \E op \in admin : op.side = s

(* The transaction: balance, ledger and journal, or nothing. *)
Charge(c, e) ==
  LET s == task[c][e].side
      amount == Amount(call[c].lasted)
      after == account[s].balance - amount IN
  /\ task[c][e].step = "charge"
  /\ Affordable(s, amount) /\ Unique(c, s, amount)
  /\ account' = [account EXCEPT ![s].balance = after]
  /\ ledger' = ledger \cup {[call |-> c, side |-> s, amount |-> amount, after |-> after]}
  /\ journal' = journal \cup
       {[side |-> s, key |-> <<c, s>>, amount |-> -amount, after |-> after]}
  /\ task' = [task EXCEPT ![c][e] =
       [step |-> "cache", side |-> s, after |-> after]]
  /\ raced' = (raced \/ Writing(s))
  /\ shared' = shared \cup (Unsettled \ {c})
  /\ UNCHANGED <<cache, call, admin, events, faulty>>

(* It rolls back, and nobody tries again. *)
ChargeRefused(c, e) ==
  /\ task[c][e].step = "charge"
  /\ LET s == task[c][e].side
         amount == Amount(call[c].lasted) IN
     ~Affordable(s, amount) \/ ~Unique(c, s, amount)
  /\ NextSide(c, e)
  /\ UNCHANGED <<rows, cache, call, admin, events, faulty, raced, shared>>

(* update_cached_balance *)
CacheBalance(c, e) ==
  /\ task[c][e].step = "cache"
  /\ cache' = [cache EXCEPT ![task[c][e].side].balance = task[c][e].after]
  /\ NextSide(c, e)
  /\ UNCHANGED <<rows, call, admin, events, faulty, raced, shared>>

Fault == Event /\ faulty' = TRUE

(* An access fails, and what depends on it is left out. *)
SettlementFails(c, e) ==
  /\ Fault
  /\ task[c][e].step \in {"look", "charge", "cache"} /\ NextSide(c, e)
  /\ UNCHANGED <<rows, cache, call, admin, raced, shared>>

(* The edge crashes with its tasks and its calls. *)
EdgeCrash ==
  /\ Unsettled # {} /\ Fault
  /\ task' = [c \in Calls |-> [e \in Enders |->
                IF call[c].state = "new" THEN Idle ELSE [step |-> "done"]]]
  /\ call' = [c \in Calls |->
                IF call[c].state = "up" THEN [call[c] EXCEPT !.state = "refused"] ELSE call[c]]
  /\ UNCHANGED <<rows, cache, admin, raced, shared>>

-----------------------------------------------------------------------------
Committed(s, write) ==
  /\ admin' = admin \cup {write}
  /\ raced' = (raced \/ Writing(s))
  /\ shared' = shared \cup Unsettled

Booked(k) == \E item \in journal : item.key = k

(* credit_billing_account: one transaction under a lock of the key; the     *)
(* reply may be lost and the request be repeated.                          *)
Credit(s, k) ==
  LET after == account[s].balance + CreditOf[k] IN
  /\ Event
  /\ Enabled(s) /\ ~Booked(k)
  /\ account' = [account EXCEPT ![s].balance = after]
  /\ journal' = journal \cup {[side |-> s, key |-> k, amount |-> CreditOf[k], after |-> after]}
  /\ Committed(s, [kind |-> "balance", side |-> s, balance |-> after])
  /\ UNCHANGED <<ledger, cache, call, task, faulty>>

(* update_billing_account; the row it returns goes to the cache. *)
Update(s, limit, status) ==
  /\ Event
  /\ account[s].status # "deleted"
  /\ account' = [account EXCEPT ![s] = [@ EXCEPT !.limit = limit, !.status = status]]
  /\ Committed(s, [kind |-> "all", side |-> s, balance |-> account[s].balance, limit |-> limit])
  /\ UNCHANGED <<ledger, journal, cache, call, task, faulty>>

Delete(s) ==
  /\ Event
  /\ account[s].status # "deleted"
  /\ account' = [account EXCEPT ![s].status = "deleted"]
  /\ Committed(s, [kind |-> "all", side |-> s, balance |-> Missing, limit |-> Missing])
  /\ UNCHANGED <<ledger, journal, cache, call, task, faulty>>

(* warm_hot_path_redis_cache: reads the rows, then replaces the cache. *)
Listed(s, value) == IF account[s].status = "deleted" THEN Missing ELSE value

Reload(s) ==
  /\ Event
  /\ Committed(s, [kind |-> "all", side |-> s,
                   balance |-> Listed(s, account[s].balance),
                   limit |-> Listed(s, account[s].limit)])
  /\ UNCHANGED <<rows, cache, call, task, faulty>>

Applied_BalanceOnly(op, was) == [was EXCEPT !.balance = op.balance]

Applied(op, was) ==
  IF op.kind = "balance" THEN [was EXCEPT !.balance = op.balance]
  ELSE [balance |-> op.balance, limit |-> op.limit]

(* hot_cache.rs *)
WriteCache(op) ==
  /\ admin' = admin \ {op}
  /\ cache' = [cache EXCEPT ![op.side] = Applied(op, @)]
  /\ UNCHANGED <<rows, call, task, events, faulty, raced, shared>>

(* Redis refuses it or the server stops: the error is dropped, and the      *)
(* repeated credit finds its key and writes no cache.                      *)
WriteFails(op) ==
  /\ Fault
  /\ admin' = admin \ {op}
  /\ UNCHANGED <<rows, cache, call, task, raced, shared>>

-----------------------------------------------------------------------------
SettlementStep(c, e) ==
  \/ Look(c, e) \/ Charge(c, e) \/ ChargeRefused(c, e) \/ CacheBalance(c, e)

Next ==
  \/ \E c \in Calls :
       \/ Admit(c) \/ HangUp(c) \/ Watchdog(c)
       \/ \E e \in Enders : EndsToo(c, e) \/ SettlementStep(c, e) \/ SettlementFails(c, e)
  \/ EdgeCrash
  \/ \E s \in Sides :
       \/ \E k \in Keys : Credit(s, k)
       \/ \E limit \in Limits, status \in {"enabled", "disabled"} : Update(s, limit, status)
       \/ Delete(s) \/ Reload(s)
  \/ \E op \in admin : WriteCache(op) \/ WriteFails(op)

Spec == Init /\ [][Next]_vars

-----------------------------------------------------------------------------
Of(s) == {item \in journal : item.side = s}

(* The journal explains every balance, and a call is in the ledger and in   *)
(* the journal once for each side, however many end it and settle it at     *)
(* once, and a credit once, however often it is sent.                      *)
BooksBalance ==
  /\ TypeOK
  /\ \A s \in Sides :
       account[s].balance = Opening + MapThenSumSet(LAMBDA item : item.amount, Of(s))
  /\ \A i, j \in journal : i.key = j.key => i = j
  /\ \A c \in Calls, s \in Sides :
       /\ Charged(c, s) <=> Booked(<<c, s>>)
       /\ \A x, y \in ledger : x.call = y.call /\ x.side = y.side => x = y

Quiet == admin = {} /\ \A c \in Calls : ~Settling(c)

(* When nobody is at work, no access failed and no two writers of the cache *)
(* crossed, the balance that the next call is checked against is the one    *)
(* of the account.                                                         *)
CacheExact ==
  Quiet /\ ~raced /\ ~faulty =>
    \A s \in Sides :
      Enabled(s) =>
        cache[s] = [balance |-> account[s].balance, limit |-> account[s].limit]

Settled(c) ==
  /\ call[c].state = "over" /\ ~Settling(c)
  /\ \E e \in Enders : task[c][e].step = "done"

(* What the check admits, the settlement can charge: a call that had its    *)
(* account to itself and ended within the maximum it was given has paid     *)
(* for every pulse.                                                        *)
BoughtIsPaid ==
  \A c \in Calls \ shared :
    Settled(c) /\ ~faulty /\ call[c].lasted \in 1..call[c].max =>
      Charged(c, "call_charge")
=============================================================================
