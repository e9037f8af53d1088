-------------------------- MODULE SettlementProofs --------------------------
(***************************************************************************)
(* That the books balance, that the cache is exact when nothing crossed,   *)
(* and that an admitted call can be charged, for any calls, credits, price  *)
(* of a pulse, limits and numbers of enders.                               *)
(*                                                                         *)
(* IInv is Shapes (the records of all variables), Books (every balance is   *)
(* the sum over its journal; ledger and journal have each charge once),     *)
(* NoEarlyTask, CacheFollows (what the cache owes to the one writer that is *)
(* at work) and Pays (what is left of what the check of a call has seen).   *)
(* Each has a lemma per action or kind of action, and a lemma for Next.     *)
(* The sums of Books come first: they are the recursive function that       *)
(* MapThenSumSet chooses, whose properties are proved by a least            *)
(* counterexample among the subsets of a finite set.                       *)
(***************************************************************************)
EXTENDS Settlement, FiniteSetTheorems, TLAPS

Done == [step |-> "done"]
Looking == [step : {"look", "charge"}, side : Sides]
Caching == [step : {"cache"}, side : Sides, after : Int]
Points == {Idle, Done} \cup Looking \cup Caching

CacheRows == [balance : Int \cup {Missing}, limit : Limits \cup {Missing}]
BalanceWrites == [kind : {"balance"}, side : Sides, balance : Int]
RowWrites == [kind : {"all"}, side : Sides,
              balance : Int \cup {Missing}, limit : Limits \cup {Missing}]
CallRecords == [state : {"new", "refused", "up", "over"},
                max : Nat \cup {Missing}, lasted : Nat]

(* The shape of every record: TypeOK says less of those that a step builds  *)
(* from another one.                                                       *)
Shapes ==
  /\ TypeOK
  /\ cache \in [Sides -> CacheRows]
  /\ call \in [Calls -> CallRecords]
  /\ task \in [Calls -> [Enders -> Points]]
  /\ admin \subseteq BalanceWrites \cup RowWrites
  /\ IsFiniteSet(journal)

-----------------------------------------------------------------------------
LEMMA Constants ==
  /\ Limits \subseteq Nat /\ 0 \in Limits /\ Opening \in Nat
  /\ CreditOf \in [Keys -> Nat \ {0}]
  /\ Missing \notin Int
  /\ Pulse \in Nat /\ Pulse > 0 /\ FreeMax \in Nat /\ Lag \in Nat /\ MaxEvents \in Nat
  /\ \A k \in Keys : \A c \in Calls, s \in Sides : k # <<c, s>>
  BY SettlementAssumption

(* What a task is at tells what its record has.                            *)
LEMMA PointKinds ==
  ASSUME NEW t \in Points
  PROVE  /\ t.step \in {"idle", "done", "look", "charge", "cache"}
         /\ t.step = "idle" <=> t = Idle
         /\ t.step = "done" <=> t = Done
         /\ t.step \in {"look", "charge"} <=> t \in Looking
         /\ t.step = "cache" <=> t \in Caching
         /\ t.step \in {"look", "charge", "cache"} => t.side \in Sides
         /\ t.step = "cache" => t.after \in Int
  BY DEF Points, Idle, Done, Looking, Caching

(* A step that writes one task leaves the others alone.                    *)
LEMMA OneTask ==
  ASSUME task \in [Calls -> [Enders -> Points]], NEW c \in Calls, NEW e \in Enders,
         NEW p \in Points, task' = [task EXCEPT ![c][e] = p]
  PROVE  /\ task' \in [Calls -> [Enders -> Points]]
         /\ task'[c][e] = p
         /\ \A d \in Calls, f \in Enders : d # c \/ f # e => task'[d][f] = task[d][f]
  OBVIOUS

Follower(t) == IF t.side = "call_charge" THEN [step |-> "look", side |-> "call_cost"] ELSE Done

LEMMA NextSideIs ==
  ASSUME task \in [Calls -> [Enders -> Points]], NEW c \in Calls, NEW e \in Enders,
         NextSide(c, e)
  PROVE  /\ task' = [task EXCEPT ![c][e] = Follower(task[c][e])]
         /\ Follower(task[c][e]) \in Points
  BY DEF NextSide, Follower, Done, Points, Looking, Sides

FirstPoint(lasted) ==
  IF lasted = 0 THEN Done ELSE [step |-> "look", side |-> "call_charge"]

LEMMA SpawnIs ==
  ASSUME task \in [Calls -> [Enders -> Points]], NEW c \in Calls, NEW e \in Enders,
         Spawn(c, e)
  PROVE  /\ task' = [task EXCEPT ![c][e] = FirstPoint(call'[c].lasted)]
         /\ FirstPoint(call'[c].lasted) \in Points
  BY DEF Spawn, FirstPoint, Done, Points, Looking, Sides

(* A pulse costs 1, and what lasts no longer than the funds buy is paid     *)
(* for by them (pulse_amount, maximum_duration_secs).                      *)
LEMMA AmountIs ==
  ASSUME NEW t \in Nat
  PROVE  /\ Amount(t) \in Nat
         /\ \A funds \in Nat : t <= MaxDuration(funds) => Amount(t) <= funds
  <1> DEFINE q == (t + Pulse - 1) \div Pulse
  <1>1. Pulse \in Nat /\ Pulse > 0
    BY Constants
  <1>2. q \in Nat /\ q * Pulse <= t + Pulse - 1
    BY <1>1
  <1>3. ASSUME NEW funds \in Nat, t <= funds * Pulse PROVE q <= funds
    <2>1. SUFFICES ASSUME q > funds PROVE FALSE
      BY <1>2
    <2>2. q * Pulse >= (funds + 1) * Pulse
      BY <1>1, <1>2, <2>1
    <2>3. (funds + 1) * Pulse = funds * Pulse + Pulse /\ funds * Pulse \in Nat /\ q * Pulse \in Nat
      BY <1>1, <1>2
    <2> HIDE DEF q
    <2> QED
      BY <1>1, <1>2, <1>3, <2>2, <2>3
  <1> QED
    BY <1>2, <1>3 DEF Amount, MaxDuration
(* Of any sets of subsets of a finite set one is least.                    *)
LEMMA LeastSubset ==
  ASSUME NEW S, IsFiniteSet(S), NEW B \in SUBSET SUBSET S, B # {}
  PROVE  \E T \in B : \A U \in B : U \subseteq T => U = T
  <1>1. IsWellFoundedOn(StrictSubsetOrdering(S), SUBSET S)
    BY FS_StrictSubsetOrderingWellFounded, FS_FiniteSubsetsOfFinite
  <1>2. PICK T \in B : \A U \in B : <<U, T>> \notin StrictSubsetOrdering(S)
    BY <1>1, WFMin
  <1>3. ASSUME NEW U \in B, U \subseteq T PROVE U = T
    <2>1. <<U, T>> \in (SUBSET S) \X (SUBSET S)
      OBVIOUS
    <2> QED
      BY <1>2, <1>3, <2>1 DEF StrictSubsetOrdering
  <1> QED
    BY <1>3

Total(S) == MapThenSumSet(LAMBDA item : item.amount, S)

Pick(s) == CHOOSE x \in s : TRUE
SumsUp(g, S) ==
  g = [s \in SUBSET S |-> IF s = {} THEN 0 ELSE Pick(s).amount + g[s \ {Pick(s)}]]
Sums(S) == CHOOSE g : SumsUp(g, S)

LEMMA TotalIs == \A S : Total(S) = Sums(S)[S]
  BY DEF Total, MapThenSumSet, MapThenFoldSet, Sums, SumsUp, Pick

LEMMA SumsUpAt ==
  ASSUME NEW S, NEW g, SumsUp(g, S), NEW s \in SUBSET S
  PROVE  g[s] = IF s = {} THEN 0 ELSE Pick(s).amount + g[s \ {Pick(s)}]
  BY DEF SumsUp

LEMMA Picked ==
  ASSUME NEW s, s # {}
  PROVE  Pick(s) \in s
  BY DEF Pick

(* Two functions that sum up agree where they both are defined.            *)
LEMMA SumsAgree ==
  ASSUME NEW S, IsFiniteSet(S), NEW T \in SUBSET S, NEW g, NEW h, SumsUp(g, S), SumsUp(h, T)
  PROVE  \A s \in SUBSET T : g[s] = h[s]
  <1> DEFINE Differ == {s \in SUBSET T : g[s] # h[s]}
  <1>1. SUFFICES ASSUME Differ # {} PROVE FALSE
    OBVIOUS
  <1>2. PICK s \in Differ : \A u \in Differ : u \subseteq s => u = s
    <2>1. Differ \in SUBSET SUBSET S
      OBVIOUS
    <2> HIDE DEF Differ
    <2> QED
      BY <1>1, <2>1, LeastSubset
  <1>3. g[s] = IF s = {} THEN 0 ELSE Pick(s).amount + g[s \ {Pick(s)}]
    BY SumsUpAt
  <1>4. h[s] = IF s = {} THEN 0 ELSE Pick(s).amount + h[s \ {Pick(s)}]
    BY SumsUpAt
  <1>5. s # {}
    BY <1>3, <1>4
  <1>6. s \ {Pick(s)} # s
    BY <1>5, Picked
  <1>7. g[s \ {Pick(s)}] = h[s \ {Pick(s)}]
    BY <1>2, <1>6
  <1> QED
    BY <1>3, <1>4, <1>7

(* A finite set has such a function.                                       *)
LEMMA SumsExist ==
  ASSUME NEW S, IsFiniteSet(S)
  PROVE  SumsUp(Sums(S), S)
  <1> DEFINE None == {T \in SUBSET S : ~\E g : SumsUp(g, T)}
  <1>1. SUFFICES ASSUME None # {} PROVE FALSE
    BY DEF Sums
  <1>2. PICK T \in None : \A U \in None : U \subseteq T => U = T
    <2>1. None \in SUBSET SUBSET S
      OBVIOUS
    <2> HIDE DEF None
    <2> QED
      BY <1>1, <2>1, LeastSubset
  <1>3. ASSUME NEW U \in SUBSET T, U # T PROVE SumsUp(Sums(U), U)
    BY <1>2, <1>3 DEF Sums
  <1>4. ASSUME NEW U \in SUBSET T, U # T, NEW u \in SUBSET U
        PROVE  Sums(U)[u] = Sums(u)[u]
    <2>1. SumsUp(Sums(U), U) /\ SumsUp(Sums(u), u)
      BY <1>3, <1>4
    <2>2. IsFiniteSet(U)
      BY FS_Subset
    <2> QED
      BY <2>1, <2>2, SumsAgree
  <1> DEFINE g == [s \in SUBSET T |->
                     IF s # T THEN Sums(s)[s]
                     ELSE IF s = {} THEN 0
                     ELSE Pick(s).amount + Sums(s \ {Pick(s)})[s \ {Pick(s)}]]
  <1>5. ASSUME NEW s \in SUBSET T
        PROVE  g[s] = IF s = {} THEN 0 ELSE Pick(s).amount + g[s \ {Pick(s)}]
    <2>1. CASE s = {} /\ s # T
      BY <1>3, <2>1, SumsUpAt
    <2>2. CASE s = {} /\ s = T
      BY <2>2
    <2>3. CASE s # {} /\ s # T
      <3>1. Pick(s) \in s
        BY <2>3, Picked
      <3>2. g[s] = Sums(s)[s] /\ g[s \ {Pick(s)}] = Sums(s \ {Pick(s)})[s \ {Pick(s)}]
        BY <2>3, <3>1
      <3>3. Sums(s)[s] = Pick(s).amount + Sums(s)[s \ {Pick(s)}]
        BY <1>3, <2>3, SumsUpAt
      <3>4. Sums(s)[s \ {Pick(s)}] = Sums(s \ {Pick(s)})[s \ {Pick(s)}]
        BY <1>4, <2>3
      <3> QED
        BY <2>3, <3>2, <3>3, <3>4
    <2>4. CASE s # {} /\ s = T
      <3>1. Pick(s) \in s
        BY <2>4, Picked
      <3>2. g[s] = Pick(s).amount + Sums(s \ {Pick(s)})[s \ {Pick(s)}]
        BY <2>4
      <3>3. g[s \ {Pick(s)}] = Sums(s \ {Pick(s)})[s \ {Pick(s)}]
        BY <2>4, <3>1
      <3> QED
        BY <2>4, <3>2, <3>3
    <2> QED
      BY <2>1, <2>2, <2>3, <2>4
  <1>6. SumsUp(g, T)
    <2>1. g = [s \in SUBSET T |-> g[s]]
      OBVIOUS
    <2> HIDE DEF g
    <2> QED
      BY <1>5, <2>1 DEF SumsUp
  <1> QED
    BY <1>2, <1>6

(* The recursion that MapThenSumSet makes.                                 *)
LEMMA TotalRecursion ==
  ASSUME NEW S, IsFiniteSet(S)
  PROVE  Total(S) = IF S = {} THEN 0 ELSE Pick(S).amount + Total(S \ {Pick(S)})
  <1>1. IsFiniteSet(S \ {Pick(S)})
    BY FS_Subset
  <1>2. SumsUp(Sums(S), S) /\ SumsUp(Sums(S \ {Pick(S)}), S \ {Pick(S)})
    BY <1>1, SumsExist
  <1>3. Sums(S)[S \ {Pick(S)}] = Sums(S \ {Pick(S)})[S \ {Pick(S)}]
    BY <1>2, SumsAgree
  <1>4. Sums(S)[S] = IF S = {} THEN 0 ELSE Pick(S).amount + Sums(S)[S \ {Pick(S)}]
    BY <1>2, SumsUpAt
  <1> QED
    BY <1>3, <1>4, TotalIs

(* What a sum is does not depend on the order of its terms.                *)
LEMMA TotalWithout ==
  ASSUME NEW S, IsFiniteSet(S), \A x \in S : x.amount \in Int
  PROVE  /\ Total(S) \in Int
         /\ \A x \in S : Total(S) = x.amount + Total(S \ {x})
  <1> DEFINE Good(T) == /\ Total(T) \in Int
                        /\ \A x \in T : Total(T) = x.amount + Total(T \ {x})
             Bad == {T \in SUBSET S : ~Good(T)}
  <1>1. SUFFICES ASSUME Bad # {} PROVE FALSE
    OBVIOUS
  <1>2. PICK T \in Bad : \A U \in Bad : U \subseteq T => U = T
    <2>1. Bad \in SUBSET SUBSET S
      OBVIOUS
    <2> HIDE DEF Bad
    <2> QED
      BY <1>1, <2>1, LeastSubset
  <1>3. ASSUME NEW x \in T PROVE Good(T \ {x})
    BY <1>2
  <1>4. Total(T) = IF T = {} THEN 0 ELSE Pick(T).amount + Total(T \ {Pick(T)})
    BY FS_Subset, TotalRecursion
  <1>5. T # {}
    BY <1>2, <1>4
  <1>6. Pick(T) \in T
    BY <1>5, Picked
  <1>7. Total(T) \in Int
    BY <1>3, <1>4, <1>6
  <1>8. ASSUME NEW x \in T PROVE Total(T) = x.amount + Total(T \ {x})
    <2> DEFINE y == Pick(T)
    <2>1. CASE x = y
      BY <1>4, <1>5, <2>1
    <2>2. CASE x # y
      <3>1. x \in T \ {y} /\ y \in T \ {x} /\ (T \ {y}) \ {x} = (T \ {x}) \ {y}
        BY <1>6, <2>2
      <3>2. Total(T \ {y}) = x.amount + Total((T \ {x}) \ {y})
        BY <1>3, <1>6, <3>1
      <3>3. Total(T \ {x}) = y.amount + Total((T \ {x}) \ {y})
        BY <1>3, <3>1
      <3>4. Total((T \ {x}) \ {y}) \in Int
        BY <1>2, <1>8, <3>1
      <3> QED
        BY <1>4, <1>5, <1>6, <3>2, <3>3, <3>4
    <2> QED
      BY <2>1, <2>2
  <1> QED
    BY <1>2, <1>7, <1>8

-----------------------------------------------------------------------------
(* Every entry of the journal is finite in number, and every record well    *)
(* formed: first the rows, whoever writes them.                            *)

AccountRows == [balance : Balances, limit : Limits, status : Statuses]

LEMMA InitShapes == Init => Shapes
  <1> SUFFICES ASSUME Init PROVE Shapes
    OBVIOUS
  <1>1. account \in [Sides -> AccountRows]
    BY Constants DEF Init, AccountRows, Balances, Statuses
  <1>2. cache \in [Sides -> CacheRows]
    BY Constants DEF Init, CacheRows
  <1>3. call \in [Calls -> CallRecords]
    BY Constants DEF Init, CallRecords
  <1>4. task \in [Calls -> [Enders -> Points]]
    BY DEF Init, Points
  <1>5. ledger = {} /\ journal = {} /\ admin = {} /\ shared = {} /\ events = 0
        /\ faulty \in BOOLEAN /\ raced \in BOOLEAN
    BY DEF Init
  <1>6. \A s \in Sides : cache[s].balance \in Int \cup {Missing}
                         /\ cache[s].limit \in Limits \cup {Missing}
    BY <1>2 DEF CacheRows
  <1>7. \A c \in Calls : /\ call[c].state \in {"new", "refused", "up", "over"}
                         /\ call[c].max \in Nat \cup {Missing} /\ call[c].lasted \in Nat
    BY <1>3 DEF CallRecords
  <1>8. \A c \in Calls : \A e \in Enders :
          task[c][e].step \in {"idle", "done", "look", "charge", "cache"}
    BY <1>4, PointKinds
  <1>9. IsFiniteSet(journal)
    BY <1>5, FS_EmptySet
  <1> QED
    BY <1>1, <1>2, <1>3, <1>4, <1>5, <1>6, <1>7, <1>8, <1>9, Constants
       DEF Shapes, TypeOK, AccountRows

(* The parts of Shapes that a step has to keep.                            *)
LEMMA ShapesParts ==
  ASSUME account' \in [Sides -> AccountRows], cache' \in [Sides -> CacheRows],
         ledger' \subseteq Entry, journal' \subseteq Item, IsFiniteSet(journal'),
         call' \in [Calls -> CallRecords], task' \in [Calls -> [Enders -> Points]],
         admin' \subseteq BalanceWrites \cup RowWrites,
         events' \in 0..MaxEvents, faulty' \in BOOLEAN, raced' \in BOOLEAN,
         shared' \subseteq Calls
  PROVE  Shapes'
  <1>6. \A s \in Sides : cache'[s].balance \in Int \cup {Missing}
                         /\ cache'[s].limit \in Limits \cup {Missing}
    BY DEF CacheRows
  <1>7. \A c \in Calls : /\ call'[c].state \in {"new", "refused", "up", "over"}
                         /\ call'[c].max \in Nat \cup {Missing} /\ call'[c].lasted \in Nat
    BY DEF CallRecords
  <1>8. \A c \in Calls : \A e \in Enders :
          task'[c][e].step \in {"idle", "done", "look", "charge", "cache"}
    BY PointKinds
  <1> QED
    BY <1>6, <1>7, <1>8 DEF Shapes, TypeOK, AccountRows

(* The types of what a step may leave alone.                               *)
LEMMA Typed ==
  ASSUME Shapes
  PROVE  /\ account \in [Sides -> AccountRows] /\ cache \in [Sides -> CacheRows]
         /\ ledger \subseteq Entry /\ journal \subseteq Item /\ IsFiniteSet(journal)
         /\ call \in [Calls -> CallRecords] /\ task \in [Calls -> [Enders -> Points]]
         /\ admin \subseteq BalanceWrites \cup RowWrites
         /\ events \in 0..MaxEvents /\ faulty \in BOOLEAN /\ raced \in BOOLEAN
         /\ shared \subseteq Calls
  BY DEF Shapes, TypeOK, AccountRows

LEMMA EventTyped == ASSUME Shapes, Event PROVE events' \in 0..MaxEvents
  BY Typed, Constants DEF Event

LEMMA AddedItem ==
  ASSUME Shapes, NEW item \in Item, journal' = journal \cup {item}
  PROVE  journal' \subseteq Item /\ IsFiniteSet(journal')
  BY Typed, FS_AddElement

(* What a charge makes of the rows.                                        *)
LEMMA ChargeTyped ==
  ASSUME Shapes, NEW c \in Calls, NEW e \in Enders, Charge(c, e)
  PROVE  /\ account' \in [Sides -> AccountRows]
         /\ ledger' \subseteq Entry /\ journal' \subseteq Item /\ IsFiniteSet(journal')
         /\ task' \in [Calls -> [Enders -> Points]]
  <1> DEFINE s == task[c][e].side
             amount == Amount(call[c].lasted)
             after == account[s].balance - amount
  <1>1. s \in Sides /\ account[s] \in AccountRows
    BY Typed, PointKinds DEF Charge
  <1>2. amount \in Nat
    BY Typed, AmountIs DEF CallRecords
  <1>3. account[s].balance \in Int /\ account[s].limit \in Limits /\ after \in Int
        /\ after >= -account[s].limit
    BY <1>1, <1>2 DEF AccountRows, Balances, Charge, Affordable
  <1>4. after \in Balances
    BY <1>3 DEF Balances
  <1>5. account' = [account EXCEPT ![s].balance = after]
    BY DEF Charge
  <1>6. account' \in [Sides -> AccountRows]
    BY <1>1, <1>4, <1>5, Typed DEF AccountRows
  <1>7. ledger' = ledger \cup {[call |-> c, side |-> s, amount |-> amount, after |-> after]}
        /\ journal' = journal \cup
             {[side |-> s, key |-> <<c, s>>, amount |-> -amount, after |-> after]}
        /\ task' = [task EXCEPT ![c][e] = [step |-> "cache", side |-> s, after |-> after]]
    BY DEF Charge
  <1> HIDE DEF s, amount, after
  <1>8. [call |-> c, side |-> s, amount |-> amount, after |-> after] \in Entry
    BY <1>1, <1>2, <1>3 DEF Entry
  <1>9. [side |-> s, key |-> <<c, s>>, amount |-> -amount, after |-> after] \in Item
    BY <1>1, <1>2, <1>3 DEF Item
  <1>10. [step |-> "cache", side |-> s, after |-> after] \in Points
    BY <1>1, <1>3 DEF Points, Caching
  <1>11. ledger' \subseteq Entry
    BY <1>7, <1>8, Typed
  <1> QED
    BY <1>6, <1>7, <1>9, <1>10, <1>11, AddedItem, OneTask, Typed

LEMMA CreditTyped ==
  ASSUME Shapes, NEW s \in Sides, NEW k \in Keys, Credit(s, k)
  PROVE  /\ account' \in [Sides -> AccountRows]
         /\ journal' \subseteq Item /\ IsFiniteSet(journal')
         /\ admin' \subseteq BalanceWrites \cup RowWrites
  <1> DEFINE after == account[s].balance + CreditOf[k]
             item == [side |-> s, key |-> k, amount |-> CreditOf[k], after |-> after]
  <1>1. account[s] \in AccountRows /\ CreditOf[k] \in Nat
    BY Typed, Constants
  <1>2. after \in Balances
    <2>1. PICK limit \in Limits : account[s].balance >= -limit
      BY <1>1 DEF AccountRows, Balances
    <2>2. after \in Int /\ after >= -limit
      BY <1>1, <2>1, Constants DEF AccountRows, Balances
    <2> QED
      BY <2>1, <2>2 DEF Balances
  <1>3. account' = [account EXCEPT ![s].balance = after] /\ journal' = journal \cup {item}
        /\ admin' = admin \cup {[kind |-> "balance", side |-> s, balance |-> after]}
    BY DEF Credit, Committed
  <1>4. after \in Int
    BY <1>2 DEF Balances
  <1> HIDE DEF after
  <1>5. account' \in [Sides -> AccountRows]
    BY <1>2, <1>3, Typed DEF AccountRows
  <1>6. item \in Item
    BY <1>1, <1>4 DEF Item
  <1>7. [kind |-> "balance", side |-> s, balance |-> after] \in BalanceWrites
    BY <1>4 DEF BalanceWrites
  <1> HIDE DEF item
  <1> QED
    BY <1>3, <1>5, <1>6, <1>7, AddedItem, Typed

(* Update, Delete and Reload.                                              *)
LEMMA WritesTyped ==
  ASSUME Shapes, NEW s \in Sides,
         \/ \E limit \in Limits, status \in {"enabled", "disabled"} : Update(s, limit, status)
         \/ Delete(s) \/ Reload(s)
  PROVE  /\ account' \in [Sides -> AccountRows]
         /\ admin' \subseteq BalanceWrites \cup RowWrites
  <1>1. account[s] \in AccountRows /\ account[s].balance \in Int
        /\ account[s].limit \in Limits
    BY Typed DEF AccountRows, Balances
  <1>2. ASSUME NEW limit \in Limits, NEW status \in {"enabled", "disabled"},
               Update(s, limit, status)
        PROVE  /\ account' \in [Sides -> AccountRows]
               /\ admin' \subseteq BalanceWrites \cup RowWrites
    <2>1. account' = [account EXCEPT ![s] = [@ EXCEPT !.limit = limit, !.status = status]]
          /\ admin' = admin \cup {[kind |-> "all", side |-> s,
                                   balance |-> account[s].balance, limit |-> limit]}
      BY <1>2 DEF Update, Committed
    <2>2. account' \in [Sides -> AccountRows]
      BY <2>1, Typed DEF AccountRows, Statuses
    <2>3. [kind |-> "all", side |-> s, balance |-> account[s].balance, limit |-> limit]
            \in RowWrites
      BY <1>1 DEF RowWrites
    <2> QED
      BY <2>1, <2>2, <2>3, Typed
  <1>3. CASE Delete(s)
    <2>1. account' = [account EXCEPT ![s].status = "deleted"]
          /\ admin' = admin \cup {[kind |-> "all", side |-> s,
                                   balance |-> Missing, limit |-> Missing]}
      BY <1>3 DEF Delete, Committed
    <2>2. account' \in [Sides -> AccountRows]
      BY <2>1, Typed DEF AccountRows, Statuses
    <2>3. [kind |-> "all", side |-> s, balance |-> Missing, limit |-> Missing] \in RowWrites
      BY DEF RowWrites
    <2> QED
      BY <2>1, <2>2, <2>3, Typed
  <1>4. CASE Reload(s)
    <2> DEFINE write == [kind |-> "all", side |-> s,
                         balance |-> Listed(s, account[s].balance),
                         limit |-> Listed(s, account[s].limit)]
    <2>1. account' = account /\ admin' = admin \cup {write}
      BY <1>4 DEF Reload, Committed, rows
    <2>2. write \in RowWrites
      BY <1>1 DEF RowWrites, Listed
    <2> HIDE DEF write
    <2> QED
      BY <2>1, <2>2, Typed
  <1> QED
    BY <1>2, <1>3, <1>4

LEMMA WriteCacheTyped ==
  ASSUME Shapes, NEW op \in admin, WriteCache(op)
  PROVE  cache' \in [Sides -> CacheRows]
  <1>1. op \in BalanceWrites \cup RowWrites
    BY Typed
  <1>2. op.side \in Sides /\ cache[op.side] \in CacheRows
    BY <1>1, Typed DEF BalanceWrites, RowWrites
  <1>3. Applied(op, cache[op.side]) \in CacheRows
    BY <1>1, <1>2 DEF Applied, CacheRows, BalanceWrites, RowWrites
  <1> QED
    BY <1>2, <1>3, Typed DEF WriteCache

(* A step that writes the record of one call.                              *)
LEMMA OneCall ==
  ASSUME Shapes, NEW c \in Calls, NEW r \in CallRecords, call' = [call EXCEPT ![c] = r]
  PROVE  call' \in [Calls -> CallRecords]
  BY Typed

LEMMA CallPart ==
  ASSUME NEW r \in CallRecords, NEW state \in {"new", "refused", "up", "over"},
         NEW max \in Nat, NEW lasted \in Nat
  PROVE  /\ [r EXCEPT !.state = state] \in CallRecords
         /\ [r EXCEPT !.state = state, !.max = max] \in CallRecords
         /\ [r EXCEPT !.state = state, !.lasted = lasted] \in CallRecords
  BY DEF CallRecords

(* What the steps of a call and of its tasks do to call and task.           *)
LEMMA CallTyped ==
  ASSUME Shapes, NEW c \in Calls, Admit(c) \/ HangUp(c) \/ Watchdog(c)
  PROVE  call' \in [Calls -> CallRecords] /\ task' \in [Calls -> [Enders -> Points]]
  <1>1. call[c] \in CallRecords /\ call \in [Calls -> CallRecords]
    BY Typed
  <1>2. CASE Admit(c)
    <2> DEFINE seen == cache["call_charge"]
               max == MaxDuration(seen.balance + seen.limit)
    <2>1. task' = task
      BY <1>2 DEF Admit
    <2>2. ASSUME seen.balance # Missing, seen.limit # Missing, seen.balance + seen.limit >= 1
          PROVE  max \in Nat
      <3>1. seen \in CacheRows
        BY Typed DEF Sides
      <3>2. seen.balance \in Int /\ seen.limit \in Nat
        BY <2>2, <3>1, Constants DEF CacheRows
      <3>3. seen.balance + seen.limit \in Nat
        BY <2>2, <3>2
      <3> QED
        BY <3>3, Constants DEF MaxDuration
    <2>3. \/ call' = [call EXCEPT ![c] = [call[c] EXCEPT !.state = "up"]]
          \/ call' = [call EXCEPT ![c] = [call[c] EXCEPT !.state = "refused"]]
          \/ max \in Nat /\ call' = [call EXCEPT ![c] = [call[c] EXCEPT !.state = "up", !.max = max]]
      BY <1>1, <1>2, <2>2 DEF Admit
    <2> HIDE DEF max
    <2> QED
      BY <1>1, <2>1, <2>3, OneCall, CallPart, Typed
  <1>3. CASE HangUp(c)
    <2>1. PICK t \in 0..(IF call[c].max = Missing THEN FreeMax ELSE call[c].max) :
            call' = [call EXCEPT ![c] = [call[c] EXCEPT !.state = "over", !.lasted = t]]
      BY <1>1, <1>3 DEF HangUp
    <2>2. t \in Nat
      BY <2>1
    <2>3. call' \in [Calls -> CallRecords]
      BY <1>1, <2>1, <2>2, OneCall, CallPart
    <2>4. Spawn(c, "bye")
      BY <1>3 DEF HangUp
    <2> QED
      BY <2>3, <2>4, SpawnIs, OneTask, Typed DEF Enders
  <1>4. CASE Watchdog(c)
    <2>1. PICK t \in call[c].max..(call[c].max + Lag) :
            call' = [call EXCEPT ![c] = [call[c] EXCEPT !.state = "over", !.lasted = t]]
      BY <1>1, <1>4 DEF Watchdog
    <2>2. call[c].max \in Nat
      BY <1>1, <1>4 DEF CallRecords, Watchdog
    <2>3. t \in Nat
      BY <2>1, <2>2, Constants
    <2>4. call' \in [Calls -> CallRecords]
      BY <1>1, <2>1, <2>3, OneCall, CallPart
    <2>5. Spawn(c, "other")
      BY <1>4 DEF Watchdog
    <2> QED
      BY <2>4, <2>5, SpawnIs, OneTask, Typed DEF Enders
  <1> QED
    BY <1>2, <1>3, <1>4

LEMMA TaskTyped ==
  ASSUME Shapes, NEW c \in Calls, NEW e \in Enders,
         \/ EndsToo(c, e) \/ Look(c, e) \/ ChargeRefused(c, e) \/ CacheBalance(c, e)
         \/ SettlementFails(c, e)
  PROVE  task' \in [Calls -> [Enders -> Points]]
  <1>1. CASE NextSide(c, e)
    BY <1>1, NextSideIs, OneTask, Typed
  <1>2. CASE Spawn(c, e)
    BY <1>2, SpawnIs, OneTask, Typed
  <1>3. CASE /\ task[c][e].step = "look"
             /\ task' = [task EXCEPT ![c][e].step = "charge"]
    <2>1. task[c][e] \in Looking
      BY <1>3, PointKinds, Typed
    <2>2. [task[c][e] EXCEPT !.step = "charge"] \in Points
      BY <2>1 DEF Points, Looking
    <2>3. task' = [task EXCEPT ![c][e] = [task[c][e] EXCEPT !.step = "charge"]]
      BY <1>3, Typed
    <2> QED
      BY <2>2, <2>3, OneTask, Typed
  <1> QED
    BY <1>1, <1>2, <1>3 DEF EndsToo, Look, ChargeRefused, CacheBalance, SettlementFails

LEMMA CacheBalanceTyped ==
  ASSUME Shapes, NEW c \in Calls, NEW e \in Enders, CacheBalance(c, e)
  PROVE  cache' \in [Sides -> CacheRows]
  <1>1. task[c][e].side \in Sides /\ task[c][e].after \in Int
    BY PointKinds, Typed DEF CacheBalance
  <1> QED
    BY <1>1, Typed DEF CacheBalance, CacheRows

LEMMA CrashTyped ==
  ASSUME Shapes, EdgeCrash
  PROVE  call' \in [Calls -> CallRecords] /\ task' \in [Calls -> [Enders -> Points]]
  <1>1. task' \in [Calls -> [Enders -> Points]]
    BY DEF EdgeCrash, Points, Done
  <1>2. \A c \in Calls : [call[c] EXCEPT !.state = "refused"] \in CallRecords
    BY Typed DEF CallRecords
  <1> QED
    BY <1>1, <1>2, Typed DEF EdgeCrash

LEMMA ShapesStep == Shapes /\ [Next]_vars => Shapes'
  <1> SUFFICES ASSUME Shapes, [Next]_vars PROVE Shapes'
    OBVIOUS
  <1>1. ASSUME NEW c \in Calls, Admit(c) \/ HangUp(c) \/ Watchdog(c) PROVE Shapes'
    <2>1. UNCHANGED <<rows, cache, admin, events, faulty, raced>> /\ shared' \subseteq Calls
      BY <1>1, Typed DEF Admit, HangUp, Watchdog
    <2> QED
      BY <1>1, <2>1, CallTyped, ShapesParts, Typed DEF rows
  <1>2. ASSUME NEW c \in Calls, NEW e \in Enders, Charge(c, e) PROVE Shapes'
    <2>1. UNCHANGED <<cache, call, admin, events, faulty>> /\ shared' = shared \cup (Unsettled \ {c})
      BY <1>2 DEF Charge
    <2>2. raced' \in BOOLEAN
      BY <1>2, Zenon DEF Charge
    <2>3. shared' \subseteq Calls
      BY <2>1, Typed DEF Unsettled
    <2> QED
      BY <1>2, <2>1, <2>2, <2>3, ChargeTyped, ShapesParts, Typed
  <1>3. ASSUME NEW c \in Calls, NEW e \in Enders, EndsToo(c, e) PROVE Shapes'
    <2>1. UNCHANGED <<rows, cache, call, admin, faulty, raced, shared>> /\ Event
      BY <1>3 DEF EndsToo
    <2> QED
      BY <1>3, <2>1, EventTyped, TaskTyped, ShapesParts, Typed DEF rows
  <1>4. ASSUME NEW c \in Calls, NEW e \in Enders, Look(c, e) \/ ChargeRefused(c, e)
        PROVE  Shapes'
    <2>1. UNCHANGED <<rows, cache, call, admin, events, faulty, raced, shared>>
      BY <1>4 DEF Look, ChargeRefused
    <2> QED
      BY <1>4, <2>1, TaskTyped, ShapesParts, Typed DEF rows
  <1>5. ASSUME NEW c \in Calls, NEW e \in Enders, CacheBalance(c, e) PROVE Shapes'
    <2>1. UNCHANGED <<rows, call, admin, events, faulty, raced, shared>>
      BY <1>5 DEF CacheBalance
    <2> QED
      BY <1>5, <2>1, CacheBalanceTyped, TaskTyped, ShapesParts, Typed DEF rows
  <1>6. ASSUME NEW c \in Calls, NEW e \in Enders, SettlementFails(c, e) PROVE Shapes'
    <2>1. UNCHANGED <<rows, cache, call, admin, raced, shared>> /\ Event /\ faulty' = TRUE
      BY <1>6 DEF SettlementFails, Fault
    <2> QED
      BY <1>6, <2>1, EventTyped, TaskTyped, ShapesParts, Typed DEF rows
  <1>7. CASE EdgeCrash
    <2>1. UNCHANGED <<rows, cache, admin, raced, shared>> /\ Event /\ faulty' = TRUE
      BY <1>7 DEF EdgeCrash, Fault
    <2> QED
      BY <1>7, <2>1, EventTyped, CrashTyped, ShapesParts, Typed DEF rows
  <1>8. ASSUME NEW s \in Sides, NEW k \in Keys, Credit(s, k) PROVE Shapes'
    <2>1. UNCHANGED <<ledger, cache, call, task, faulty>> /\ Event
          /\ shared' = shared \cup Unsettled
      BY <1>8 DEF Credit, Committed
    <2>2. raced' \in BOOLEAN
      BY <1>8, Zenon DEF Credit, Committed
    <2>3. shared' \subseteq Calls
      BY <2>1, Typed DEF Unsettled
    <2> QED
      BY <1>8, <2>1, <2>2, <2>3, EventTyped, CreditTyped, ShapesParts, Typed
  <1>9. ASSUME NEW s \in Sides,
               \/ \E limit \in Limits, status \in {"enabled", "disabled"} :
                    Update(s, limit, status)
               \/ Delete(s) \/ Reload(s)
        PROVE  Shapes'
    <2>1. UNCHANGED <<ledger, journal, cache, call, task, faulty>> /\ Event
          /\ shared' = shared \cup Unsettled
      BY <1>9 DEF Update, Delete, Reload, Committed, rows
    <2>2. raced' \in BOOLEAN
      BY <1>9, Zenon DEF Update, Delete, Reload, Committed
    <2>3. shared' \subseteq Calls
      BY <2>1, Typed DEF Unsettled
    <2> QED
      BY <1>9, <2>1, <2>2, <2>3, EventTyped, WritesTyped, ShapesParts, Typed
  <1>10. ASSUME NEW op \in admin, WriteCache(op) PROVE Shapes'
    <2>1. UNCHANGED <<rows, call, task, events, faulty, raced, shared>>
          /\ admin' = admin \ {op}
      BY <1>10 DEF WriteCache
    <2> QED
      BY <1>10, <2>1, WriteCacheTyped, ShapesParts, Typed DEF rows
  <1>11. ASSUME NEW op \in admin, WriteFails(op) PROVE Shapes'
    <2>1. UNCHANGED <<rows, cache, call, task, raced, shared>> /\ Event /\ faulty' = TRUE
          /\ admin' = admin \ {op}
      BY <1>11 DEF WriteFails, Fault
    <2> QED
      BY <2>1, EventTyped, ShapesParts, Typed DEF rows
  <1>12. CASE UNCHANGED vars
    BY <1>12, ShapesParts, Typed DEF vars, rows
  <1> QED
    BY <1>1, <1>2, <1>3, <1>4, <1>5, <1>6, <1>7, <1>8, <1>9, <1>10, <1>11, <1>12
       DEF Next, SettlementStep

-----------------------------------------------------------------------------
(* The books.                                                              *)

BalancesAdd == \A s \in Sides : account[s].balance = Opening + Total(Of(s))
KeysOnce == \A i, j \in journal : i.key = j.key => i = j
CallsOnce ==
  \A c \in Calls, s \in Sides :
    /\ Charged(c, s) <=> Booked(<<c, s>>)
    /\ \A x, y \in ledger : x.call = y.call /\ x.side = y.side => x = y
Books == BalancesAdd /\ KeysOnce /\ CallsOnce

LEMMA BooksAre == BooksBalance <=> TypeOK /\ Books
  BY DEF BooksBalance, Books, BalancesAdd, KeysOnce, CallsOnce, Total

LEMMA InitBooks == Init => Books
  <1> SUFFICES ASSUME Init PROVE Books
    OBVIOUS
  <1>1. journal = {} /\ ledger = {} /\ \A s \in Sides : account[s].balance = Opening
    BY DEF Init
  <1>2. \A s \in Sides : Of(s) = {}
    BY <1>1 DEF Of
  <1>3. Total({}) = 0
    BY FS_EmptySet, TotalRecursion
  <1>4. BalancesAdd
    BY <1>1, <1>2, <1>3, Constants DEF BalancesAdd
  <1> QED
    BY <1>1, <1>4 DEF Books, KeysOnce, CallsOnce, Charged, Booked

(* A new item of the journal and the same amount on the balance.           *)
LEMMA BalancesStep ==
  ASSUME Shapes, Books, NEW item \in Item, ~Booked(item.key),
         journal' = journal \cup {item},
         account' = [account EXCEPT ![item.side].balance = @ + item.amount]
  PROVE  BalancesAdd' /\ KeysOnce'
  <1>1. item.side \in Sides /\ item.amount \in Int
    BY DEF Item
  <1>2. \A i \in journal : i.key # item.key
    BY DEF Booked
  <1>3. ASSUME NEW s \in Sides PROVE account'[s].balance = Opening + Total(Of(s)')
    <2>1. account[s].balance = Opening + Total(Of(s))
      BY DEF Books, BalancesAdd
    <2>2. CASE s = item.side
      <3>1. Of(s)' = Of(s) \cup {item} /\ item \notin Of(s)
        BY <1>2, <2>2 DEF Of
      <3>2. IsFiniteSet(Of(s)')
        <4>1. IsFiniteSet(Of(s))
          BY Typed, FS_Subset DEF Of
        <4> QED
          BY <3>1, <4>1, FS_AddElement
      <3>3. \A i \in Of(s)' : i.amount \in Int
        BY <1>1, <3>1, Typed DEF Of, Item
      <3>4. Total(Of(s)') = item.amount + Total(Of(s)' \ {item})
        BY <3>1, <3>2, <3>3, TotalWithout
      <3>5. Of(s)' \ {item} = Of(s)
        BY <3>1
      <3>6. Total(Of(s)) \in Int
        BY <3>1, <3>2, <3>3, FS_Subset, TotalWithout
      <3>7. account'[s].balance = account[s].balance + item.amount
        <4>1. account \in [Sides -> AccountRows]
          BY Typed
        <4>2. account'[s] = [account[s] EXCEPT !.balance = @ + item.amount]
          BY <2>2, <4>1
        <4>3. account[s] \in AccountRows
          BY <4>1
        <4>4. \A r \in AccountRows : \A a : [r EXCEPT !.balance = @ + a].balance = r.balance + a
          BY DEF AccountRows
        <4> QED
          BY <4>2, <4>3, <4>4
      <3>8. Total(Of(s)') = item.amount + Total(Of(s))
        BY <3>4, <3>5
      <3>9. Opening \in Int
        BY Constants
      <3> QED
        BY <1>1, <2>1, <3>6, <3>7, <3>8, <3>9
    <2>3. CASE s # item.side
      BY <2>1, <2>3, Typed DEF Of, AccountRows
    <2> QED
      BY <2>2, <2>3
  <1>4. BalancesAdd'
    BY <1>3 DEF BalancesAdd
  <1>5. KeysOnce'
    BY <1>2 DEF Books, KeysOnce
  <1> QED
    BY <1>4, <1>5

(* Whoever writes neither of the books, nor a balance.                     *)
LEMMA BooksUntouched ==
  ASSUME Books, UNCHANGED <<ledger, journal>>,
         \A s \in Sides : account'[s].balance = account[s].balance
  PROVE  Books'
  BY DEF Books, BalancesAdd, KeysOnce, CallsOnce, Of, Charged, Booked

LEMMA ChargeBooks ==
  ASSUME Shapes, Books, NEW c \in Calls, NEW e \in Enders, Charge(c, e)
  PROVE  Books'
  <1> DEFINE s == task[c][e].side
             amount == Amount(call[c].lasted)
             after == account[s].balance - amount
             entry == [call |-> c, side |-> s, amount |-> amount, after |-> after]
             item == [side |-> s, key |-> <<c, s>>, amount |-> -amount, after |-> after]
  <1>1. s \in Sides /\ account[s] \in AccountRows
    BY Typed, PointKinds DEF Charge
  <1>2. amount \in Nat
    BY Typed, AmountIs DEF CallRecords
  <1>3. account[s].balance \in Int
    BY <1>1 DEF AccountRows, Balances
  <1>4. /\ account' = [account EXCEPT ![s].balance = after]
        /\ ledger' = ledger \cup {entry} /\ journal' = journal \cup {item}
        /\ ~Charged(c, s)
    BY DEF Charge, Unique
  <1>5. ~Booked(<<c, s>>)
    BY <1>1, <1>4 DEF Books, CallsOnce
  <1>6. item \in Item
    BY <1>1, <1>2, <1>3 DEF Item
  <1>7. /\ entry.call = c /\ entry.side = s
        /\ item.side = s /\ item.key = <<c, s>> /\ item.amount = -amount
    OBVIOUS
  <1>8. after = account[s].balance + (-amount)
    BY <1>2, <1>3
  <1> HIDE DEF entry, item, after, amount, s
  <1>9. account' = [account EXCEPT ![item.side].balance = @ + item.amount]
    BY <1>1, <1>4, <1>7, <1>8, Typed
  <1>10. BalancesAdd' /\ KeysOnce'
    BY <1>4, <1>5, <1>6, <1>7, <1>9, BalancesStep
  <1>11. ASSUME NEW d \in Calls, NEW t \in Sides
         PROVE  /\ Charged(d, t)' <=> Booked(<<d, t>>)'
                /\ \A x, y \in ledger' : x.call = y.call /\ x.side = y.side => x = y
    <2>1. Charged(d, t)' <=> Charged(d, t) \/ (d = c /\ t = s)
      BY <1>4, <1>7 DEF Charged
    <2>2. Booked(<<d, t>>)' <=> Booked(<<d, t>>) \/ (d = c /\ t = s)
      BY <1>4, <1>7 DEF Booked
    <2>3. \A x \in ledger : ~(x.call = c /\ x.side = s)
      BY <1>4 DEF Charged
    <2> QED
      BY <1>4, <1>7, <2>1, <2>2, <2>3 DEF Books, CallsOnce
  <1> QED
    BY <1>10, <1>11 DEF Books, CallsOnce

LEMMA CreditBooks ==
  ASSUME Shapes, Books, NEW s \in Sides, NEW k \in Keys, Credit(s, k)
  PROVE  Books'
  <1> DEFINE after == account[s].balance + CreditOf[k]
             item == [side |-> s, key |-> k, amount |-> CreditOf[k], after |-> after]
  <1>1. account[s] \in AccountRows /\ CreditOf[k] \in Nat
    BY Typed, Constants
  <1>2. account[s].balance \in Int
    BY <1>1 DEF AccountRows, Balances
  <1>3. /\ account' = [account EXCEPT ![s].balance = after]
        /\ journal' = journal \cup {item} /\ ledger' = ledger /\ ~Booked(k)
    BY DEF Credit
  <1>4. item \in Item
    BY <1>1, <1>2 DEF Item
  <1>5. item.side = s /\ item.key = k /\ item.amount = CreditOf[k]
    OBVIOUS
  <1>6. account' = [account EXCEPT ![s].balance = @ + CreditOf[k]]
    BY <1>3, Typed
  <1> HIDE DEF item, after
  <1>7. BalancesAdd' /\ KeysOnce'
    BY <1>3, <1>4, <1>5, <1>6, BalancesStep
  <1>8. \A c \in Calls, t \in Sides : Booked(<<c, t>>)' <=> Booked(<<c, t>>)
    BY <1>3, <1>5, Constants DEF Booked
  <1>9. \A c \in Calls, t \in Sides : Charged(c, t)' <=> Charged(c, t)
    BY <1>3 DEF Charged
  <1> QED
    BY <1>3, <1>7, <1>8, <1>9 DEF Books, CallsOnce

LEMMA BooksStep ==
  ASSUME Shapes, Books, [Next]_vars
  PROVE  Books'
  <1>1. ASSUME UNCHANGED rows PROVE Books'
    BY <1>1, BooksUntouched DEF rows
  <1>2. ASSUME NEW s \in Sides, NEW limit \in Limits, NEW status \in {"enabled", "disabled"},
               Update(s, limit, status)
        PROVE  Books'
    <2>1. UNCHANGED <<ledger, journal>>
          /\ account' = [account EXCEPT ![s] = [@ EXCEPT !.limit = limit, !.status = status]]
      BY <1>2 DEF Update
    <2> QED
      BY <2>1, BooksUntouched, Typed DEF AccountRows
  <1>3. ASSUME NEW s \in Sides, Delete(s) PROVE Books'
    <2>1. UNCHANGED <<ledger, journal>>
          /\ account' = [account EXCEPT ![s].status = "deleted"]
      BY <1>3 DEF Delete
    <2> QED
      BY <2>1, BooksUntouched, Typed DEF AccountRows
  <1>4. ASSUME NEW c \in Calls,
               \/ Admit(c) \/ HangUp(c) \/ Watchdog(c)
               \/ \E e \in Enders : \/ EndsToo(c, e) \/ SettlementFails(c, e)
                                    \/ Look(c, e) \/ ChargeRefused(c, e) \/ CacheBalance(c, e)
        PROVE  UNCHANGED rows
    BY <1>4 DEF Admit, HangUp, Watchdog, EndsToo, SettlementFails, Look, ChargeRefused, CacheBalance
  <1>5. EdgeCrash \/ (\E s \in Sides : Reload(s)) \/ (\E op \in admin : WriteCache(op) \/ WriteFails(op))
        \/ UNCHANGED vars => UNCHANGED rows
    BY DEF EdgeCrash, Reload, WriteCache, WriteFails, vars
  <1> QED
    BY <1>1, <1>2, <1>3, <1>4, <1>5, ChargeBooks, CreditBooks DEF Next, SettlementStep

-----------------------------------------------------------------------------
(* The cache.                                                              *)

WritesAt(c, e, s) == task[c][e].step = "cache" /\ task[c][e].side = s
OpsOf(s) == {op \in admin : op.side = s}
Row(s) == [balance |-> account[s].balance, limit |-> account[s].limit]

(* One writer of the cache at most, and what it is about to write makes    *)
(* the cache exact.                                                        *)
OneWriter(s) ==
  /\ \A c, d \in Calls, e, f \in Enders : WritesAt(c, e, s) /\ WritesAt(d, f, s) => c = d /\ e = f
  /\ \A op, oq \in OpsOf(s) : op = oq
  /\ OpsOf(s) # {} => \A c \in Calls, e \in Enders : ~WritesAt(c, e, s)

Follows(s) ==
  /\ ~Writing(s) => cache[s] = Row(s)
  /\ \A c \in Calls, e \in Enders :
       WritesAt(c, e, s) => [cache[s] EXCEPT !.balance = task[c][e].after] = Row(s)
  /\ \A op \in OpsOf(s) : Applied(op, cache[s]) = Row(s)

CacheOk(s) == OneWriter(s) /\ (account[s].status # "deleted" => Follows(s))
CacheFollows == ~raced /\ ~faulty => \A s \in Sides : CacheOk(s)

LEMMA WritingIs ==
  \A s : Writing(s) <=> (\E c \in Calls, e \in Enders : WritesAt(c, e, s)) \/ OpsOf(s) # {}
  BY DEF Writing, WritesAt, OpsOf

LEMMA WritingWillBe ==
  \A s : Writing(s)' <=> (\E c \in Calls, e \in Enders : WritesAt(c, e, s)') \/ OpsOf(s)' # {}
  BY DEF Writing, WritesAt, OpsOf

LEMMA InitCache == Init => CacheFollows
  <1> SUFFICES ASSUME Init, NEW s \in Sides PROVE CacheOk(s)
    BY DEF CacheFollows
  <1>1. OpsOf(s) = {} /\ cache[s] = Row(s)
    BY DEF Init, OpsOf, Row
  <1>2. \A c \in Calls, e \in Enders : ~WritesAt(c, e, s)
    BY DEF Init, WritesAt, Idle
  <1> QED
    BY <1>1, <1>2 DEF CacheOk, OneWriter, Follows

(* A side that a step is not about.                                        *)
LEMMA OtherSide ==
  ASSUME NEW s \in Sides, CacheOk(s), account'[s] = account[s], cache'[s] = cache[s],
         OpsOf(s)' = OpsOf(s),
         \A c \in Calls, e \in Enders :
           /\ WritesAt(c, e, s)' <=> WritesAt(c, e, s)
           /\ WritesAt(c, e, s) => task'[c][e].after = task[c][e].after
  PROVE  CacheOk(s)'
  <1>1. Row(s)' = Row(s) /\ (Writing(s)' <=> Writing(s))
    BY WritingIs, WritingWillBe DEF Row
  <1>2. OneWriter(s)'
    BY DEF CacheOk, OneWriter
  <1>3. Follows(s) => Follows(s)'
    BY <1>1 DEF Follows, Applied
  <1> QED
    BY <1>2, <1>3 DEF CacheOk

(* A step that moves one task, not to the cache and not from it.           *)
LEMMA NoWriter ==
  ASSUME Shapes, CacheFollows, UNCHANGED <<account, cache, admin, faulty, raced>>,
         \A c \in Calls, e \in Enders :
           task'[c][e] = task[c][e]
             \/ (task[c][e].step # "cache" /\ task'[c][e].step # "cache")
  PROVE  CacheFollows'
  <1> SUFFICES ASSUME ~raced, ~faulty, NEW s \in Sides PROVE CacheOk(s)'
    BY DEF CacheFollows
  <1>1. CacheOk(s)
    BY DEF CacheFollows
  <1> QED
    BY <1>1, OtherSide DEF WritesAt, OpsOf

LEMMA ChargeCache ==
  ASSUME Shapes, CacheFollows, NEW c \in Calls, NEW e \in Enders, Charge(c, e)
  PROVE  CacheFollows'
  <1>0. PICK s \in Sides : s = task[c][e].side
    BY Typed, PointKinds DEF Charge
  <1> DEFINE after == account[s].balance - Amount(call[c].lasted)
  <1>1. account[s] \in AccountRows /\ cache[s] \in CacheRows
    BY Typed
  <1>2. /\ account' = [account EXCEPT ![s].balance = after]
        /\ task' = [task EXCEPT ![c][e] = [step |-> "cache", side |-> s, after |-> after]]
        /\ raced' = (raced \/ Writing(s))
        /\ UNCHANGED <<cache, admin, faulty>>
        /\ Enabled(s) /\ task[c][e].step = "charge"
    BY <1>0 DEF Charge, Affordable
  <1> HIDE DEF after
  <1>3. SUFFICES ASSUME ~raced, ~Writing(s), ~faulty, NEW t \in Sides PROVE CacheOk(t)'
    BY <1>2, Zenon DEF CacheFollows
  <1>4. CacheOk(s) /\ CacheOk(t)
    BY <1>1, <1>3 DEF CacheFollows
  <1>5. /\ task'[c][e] = [step |-> "cache", side |-> s, after |-> after]
        /\ \A d \in Calls, f \in Enders : d # c \/ f # e => task'[d][f] = task[d][f]
    BY <1>2, Typed
  <1>6. OpsOf(t)' = OpsOf(t)
    BY <1>2 DEF OpsOf
  <1>7. CASE t # s
    <2>1. account'[t] = account[t]
      BY <1>2, <1>7, Typed
    <2>2. \A d \in Calls, f \in Enders : /\ WritesAt(d, f, t)' <=> WritesAt(d, f, t)
                                         /\ WritesAt(d, f, t) => task'[d][f] = task[d][f]
      BY <1>2, <1>5, <1>7 DEF WritesAt
    <2> QED
      BY <1>2, <1>4, <1>6, <2>1, <2>2, OtherSide
  <1>8. CASE t = s
    <2>1. OpsOf(s) = {} /\ \A d \in Calls, f \in Enders : ~WritesAt(d, f, s)
      BY <1>3, WritingIs
    <2>2. \A d \in Calls, f \in Enders : WritesAt(d, f, s)' <=> d = c /\ f = e
      BY <1>5, <2>1 DEF WritesAt
    <2>3. OneWriter(s)'
      BY <1>6, <1>8, <2>1, <2>2 DEF OneWriter
    <2>4. cache[s] = Row(s)
      BY <1>2, <1>3, <1>4 DEF CacheOk, Follows, Enabled
    <2>5. [cache[s] EXCEPT !.balance = after] = Row(s)'
      <3>1. account'[s] = [account[s] EXCEPT !.balance = after]
        BY <1>1, <1>2, Typed
      <3>2. account'[s].balance = after /\ account'[s].limit = account[s].limit
        BY <1>1, <3>1 DEF AccountRows
      <3> QED
        BY <2>4, <3>2 DEF Row
    <2>6. Writing(s)'
      BY <2>2, WritingWillBe
    <2>7. Follows(s)'
      BY <1>2, <1>5, <1>6, <1>8, <2>1, <2>2, <2>5, <2>6 DEF Follows
    <2> QED
      BY <1>8, <2>3, <2>7 DEF CacheOk
  <1> QED
    BY <1>7, <1>8

(* The API server and a reload: their write goes into admin.               *)
LEMMA CommittedCache ==
  ASSUME Shapes, CacheFollows, NEW s \in Sides, NEW write, write.side = s,
         Committed(s, write), UNCHANGED <<cache, task, faulty>>,
         \A t \in Sides : t # s => account'[t] = account[t],
         account'[s].status # "deleted" =>
           /\ account[s].status # "deleted"
           /\ cache[s] = Row(s) => Applied(write, cache[s]) = Row(s)'
  PROVE  CacheFollows'
  <1>1. SUFFICES ASSUME ~raced, ~Writing(s), ~faulty, NEW t \in Sides PROVE CacheOk(t)'
    BY Zenon DEF CacheFollows, Committed
  <1>2. CacheOk(s) /\ CacheOk(t)
    BY <1>1 DEF CacheFollows
  <1>3. admin' = admin \cup {write}
    BY DEF Committed
  <1>4. \A d \in Calls, f \in Enders, u \in Sides : WritesAt(d, f, u)' <=> WritesAt(d, f, u)
    BY DEF WritesAt
  <1>5. CASE t # s
    <2>1. OpsOf(t)' = OpsOf(t)
      BY <1>3, <1>5 DEF OpsOf
    <2> QED
      BY <1>2, <1>4, <1>5, <2>1, OtherSide
  <1>6. CASE t = s
    <2>1. OpsOf(s) = {} /\ \A d \in Calls, f \in Enders : ~WritesAt(d, f, s)
      BY <1>1, WritingIs
    <2>2. OpsOf(s)' = {write}
      BY <1>3, <2>1 DEF OpsOf
    <2>3. \A d \in Calls, f \in Enders : ~WritesAt(d, f, s)'
      BY <1>4, <2>1
    <2>4. OneWriter(s)'
      BY <2>2, <2>3 DEF OneWriter
    <2>5. ASSUME account'[s].status # "deleted" PROVE Follows(s)'
      <3>1. cache[s] = Row(s)
        BY <1>1, <1>2, <2>5 DEF CacheOk, Follows
      <3>2. Writing(s)'
        BY <2>2, WritingWillBe
      <3>3. Applied(write, cache'[s]) = Row(s)'
        BY <2>5, <3>1
      <3> QED
        BY <2>2, <2>3, <3>2, <3>3 DEF Follows, Applied
    <2> QED
      BY <1>6, <2>4, <2>5 DEF CacheOk
  <1> QED
    BY <1>5, <1>6

LEMMA AdminCache ==
  ASSUME Shapes, CacheFollows, NEW s \in Sides,
         \/ \E k \in Keys : Credit(s, k)
         \/ \E limit \in Limits, status \in {"enabled", "disabled"} : Update(s, limit, status)
         \/ Delete(s) \/ Reload(s)
  PROVE  CacheFollows'
  <1>1. account \in [Sides -> AccountRows] /\ account[s] \in AccountRows
    BY Typed
  <1>2. ASSUME NEW k \in Keys, Credit(s, k) PROVE CacheFollows'
    <2> DEFINE after == account[s].balance + CreditOf[k]
               write == [kind |-> "balance", side |-> s, balance |-> after]
    <2>1. /\ account' = [account EXCEPT ![s].balance = after] /\ Committed(s, write)
          /\ UNCHANGED <<cache, task, faulty>> /\ Enabled(s)
      BY <1>2 DEF Credit
    <2>2. write.side = s /\ write.kind = "balance" /\ write.balance = after
      OBVIOUS
    <2> HIDE DEF after, write
    <2>3. account'[s].balance = after /\ account'[s].limit = account[s].limit
          /\ \A t \in Sides : t # s => account'[t] = account[t]
      BY <1>1, <2>1 DEF AccountRows
    <2>4. cache[s] = Row(s) => Applied(write, cache[s]) = Row(s)'
      BY <2>2, <2>3 DEF Applied, Row
    <2> QED
      BY <2>1, <2>2, <2>3, <2>4, CommittedCache DEF Enabled
  <1>3. ASSUME NEW limit \in Limits, NEW status \in {"enabled", "disabled"},
               Update(s, limit, status)
        PROVE  CacheFollows'
    <2> DEFINE write == [kind |-> "all", side |-> s, balance |-> account[s].balance,
                         limit |-> limit]
    <2>1. /\ account' = [account EXCEPT ![s] = [@ EXCEPT !.limit = limit, !.status = status]]
          /\ Committed(s, write) /\ UNCHANGED <<cache, task, faulty>>
          /\ account[s].status # "deleted"
      BY <1>3 DEF Update
    <2>2. /\ write.side = s /\ write.kind # "balance"
          /\ write.balance = account[s].balance /\ write.limit = limit
      OBVIOUS
    <2> HIDE DEF write
    <2>3. account'[s].balance = account[s].balance /\ account'[s].limit = limit
          /\ \A t \in Sides : t # s => account'[t] = account[t]
      BY <1>1, <2>1 DEF AccountRows
    <2>4. Applied(write, cache[s]) = Row(s)'
      BY <2>2, <2>3 DEF Applied, Row
    <2> QED
      BY <2>1, <2>2, <2>3, <2>4, CommittedCache
  <1>4. CASE Delete(s)
    <2> DEFINE write == [kind |-> "all", side |-> s, balance |-> Missing, limit |-> Missing]
    <2>1. /\ account' = [account EXCEPT ![s].status = "deleted"]
          /\ Committed(s, write) /\ UNCHANGED <<cache, task, faulty>>
      BY <1>4 DEF Delete
    <2>2. write.side = s
      OBVIOUS
    <2> HIDE DEF write
    <2>3. account'[s].status = "deleted"
          /\ \A t \in Sides : t # s => account'[t] = account[t]
      BY <1>1, <2>1 DEF AccountRows
    <2> QED
      BY <2>1, <2>2, <2>3, CommittedCache
  <1>5. CASE Reload(s)
    <2> DEFINE write == [kind |-> "all", side |-> s,
                         balance |-> Listed(s, account[s].balance),
                         limit |-> Listed(s, account[s].limit)]
    <2>1. account' = account /\ Committed(s, write) /\ UNCHANGED <<cache, task, faulty>>
      BY <1>5 DEF Reload, rows
    <2>2. /\ write.side = s /\ write.kind # "balance"
          /\ write.balance = Listed(s, account[s].balance)
          /\ write.limit = Listed(s, account[s].limit)
      OBVIOUS
    <2> HIDE DEF write
    <2>3. account'[s].status # "deleted" => Applied(write, cache[s]) = Row(s)'
      BY <2>1, <2>2 DEF Applied, Row, Listed
    <2> QED
      BY <2>1, <2>2, <2>3, CommittedCache
  <1> QED
    BY <1>2, <1>3, <1>4, <1>5

(* update_cached_balance: the only writer of its side.                     *)
LEMMA CacheBalanceCache ==
  ASSUME Shapes, CacheFollows, NEW c \in Calls, NEW e \in Enders, CacheBalance(c, e)
  PROVE  CacheFollows'
  <1>1. PICK s \in Sides : s = task[c][e].side /\ WritesAt(c, e, s)
    BY Typed, PointKinds DEF CacheBalance, WritesAt
  <1>2. /\ cache' = [cache EXCEPT ![s].balance = task[c][e].after]
        /\ UNCHANGED <<account, admin, faulty, raced>>
    BY <1>1 DEF CacheBalance, rows
  <1>3. /\ task'[c][e] = Follower(task[c][e])
        /\ \A d \in Calls, f \in Enders : d # c \/ f # e => task'[d][f] = task[d][f]
    BY NextSideIs, OneTask, Typed DEF CacheBalance
  <1>4. SUFFICES ASSUME ~raced, ~faulty, NEW t \in Sides PROVE CacheOk(t)'
    BY <1>2 DEF CacheFollows
  <1>5. CacheOk(s) /\ CacheOk(t)
    BY <1>1, <1>4 DEF CacheFollows
  <1>6. \A u : ~WritesAt(c, e, u)'
    BY <1>3 DEF WritesAt, Follower, Done
  <1>7. OpsOf(t)' = OpsOf(t)
    BY <1>2 DEF OpsOf
  <1>8. CASE t # s
    <2>1. cache'[t] = cache[t]
      BY <1>2, <1>8, Typed
    <2>2. ~WritesAt(c, e, t)
      BY <1>1, <1>8 DEF WritesAt
    <2>3. \A d \in Calls, f \in Enders : /\ WritesAt(d, f, t)' <=> WritesAt(d, f, t)
                                         /\ WritesAt(d, f, t) => task'[d][f] = task[d][f]
      BY <1>3, <1>6, <2>2 DEF WritesAt
    <2> QED
      BY <1>2, <1>5, <1>7, <2>1, <2>3, OtherSide
  <1>9. CASE t = s
    <2>1. \A d \in Calls, f \in Enders : ~WritesAt(d, f, s)'
      BY <1>1, <1>3, <1>5, <1>6 DEF CacheOk, OneWriter, WritesAt
    <2>2. OpsOf(s)' = {}
      BY <1>1, <1>5, <1>7, <1>9 DEF CacheOk, OneWriter
    <2>3. OneWriter(s)'
      BY <2>1, <2>2 DEF OneWriter
    <2>4. Follows(s) => cache'[s] = Row(s)'
      BY <1>1, <1>2, Typed DEF Follows, Row
    <2>5. Follows(s) => Follows(s)'
      BY <2>1, <2>2, <2>4 DEF Follows
    <2> QED
      BY <1>2, <1>5, <1>9, <2>3, <2>5 DEF CacheOk
  <1> QED
    BY <1>8, <1>9

LEMMA WriteCacheCache ==
  ASSUME Shapes, CacheFollows, NEW op \in admin, WriteCache(op)
  PROVE  CacheFollows'
  <1> DEFINE s == op.side
  <1>1. s \in Sides
    BY Typed DEF BalanceWrites, RowWrites
  <1>2. /\ cache' = [cache EXCEPT ![s] = Applied(op, cache[s])] /\ admin' = admin \ {op}
        /\ UNCHANGED <<account, task, faulty, raced>>
    BY <1>1, Typed DEF WriteCache, rows
  <1>3. op \in OpsOf(s)
    BY DEF OpsOf
  <1>4. \A t : OpsOf(t)' = OpsOf(t) \ {op}
    BY <1>2 DEF OpsOf
  <1>5. \A t \in Sides : t # s => OpsOf(t)' = OpsOf(t)
    BY <1>2 DEF OpsOf
  <1> HIDE DEF s
  <1>6. SUFFICES ASSUME ~raced, ~faulty, NEW t \in Sides PROVE CacheOk(t)'
    BY <1>2 DEF CacheFollows
  <1>7. CacheOk(s) /\ CacheOk(t)
    BY <1>1, <1>6 DEF CacheFollows
  <1>8. \A d \in Calls, f \in Enders : \A u : WritesAt(d, f, u)' <=> WritesAt(d, f, u)
    BY <1>2 DEF WritesAt
  <1>9. CASE t # s
    <2>1. cache'[t] = cache[t]
      BY <1>2, <1>9, Typed
    <2> QED
      BY <1>2, <1>5, <1>7, <1>8, <1>9, <2>1, OtherSide
  <1>10. CASE t = s
    <2>1. OpsOf(s)' = {}
      BY <1>3, <1>4, <1>7 DEF CacheOk, OneWriter
    <2>2. \A d \in Calls, f \in Enders : ~WritesAt(d, f, s)'
      BY <1>3, <1>7, <1>8 DEF CacheOk, OneWriter
    <2>3. OneWriter(s)'
      BY <2>1, <2>2 DEF OneWriter
    <2>4. Follows(s) => cache'[s] = Row(s)'
      BY <1>1, <1>2, <1>3, Typed DEF Follows, Row
    <2>5. Follows(s) => Follows(s)'
      BY <2>1, <2>2, <2>4 DEF Follows
    <2> QED
      BY <1>2, <1>7, <1>10, <2>3, <2>5 DEF CacheOk
  <1> QED
    BY <1>9, <1>10

-----------------------------------------------------------------------------
(* What the check admits.                                                  *)

(* Nobody settles a call before it is over.                                *)
NoEarlyTask ==
  \A c \in Calls : call[c].state \in {"new", "up"} => \A e \in Enders : task[c][e] = Idle

Funds == account["call_charge"].balance + account["call_charge"].limit
FundsBuy(c) == Enabled("call_charge") /\ Funds \in Nat /\ call[c].max = MaxDuration(Funds)

(* Every task of the call has yet to look at the access account.           *)
Waiting(c) ==
  /\ \A e \in Enders :
       task[c][e] # Idle => task[c][e] \in Looking /\ task[c][e].side = "call_charge"
  /\ \E e \in Enders : task[c][e] # Idle

Ran(c) == call[c].state = "over" /\ call[c].lasted \in 1..call[c].max

PaysFor(c) ==
  /\ call[c].state = "up" => FundsBuy(c)
  /\ Ran(c) => Charged(c, "call_charge") \/ (Waiting(c) /\ FundsBuy(c))

Pays == ~faulty => \A c \in Calls \ shared : PaysFor(c)

LEMMA InitPays == Init => NoEarlyTask /\ Pays
  BY DEF Init, NoEarlyTask, Pays, PaysFor, Ran

(* The tasks of one call change only where the call is over.               *)
LEMMA NoEarlyTaskStep ==
  ASSUME Shapes, NoEarlyTask, [Next]_vars
  PROVE  NoEarlyTask'
  <1>1. SUFFICES ASSUME NEW d \in Calls, call'[d].state \in {"new", "up"}, NEW f \in Enders
                 PROVE  task'[d][f] = Idle
    BY DEF NoEarlyTask
  <1>2. call \in [Calls -> CallRecords] /\ task \in [Calls -> [Enders -> Points]]
    BY Typed
  <1>3. ASSUME call'[d] = call[d], task'[d] = task[d] PROVE task'[d][f] = Idle
    BY <1>1, <1>3 DEF NoEarlyTask
  <1>4. ASSUME NEW c \in Calls, Admit(c) PROVE task'[d][f] = Idle
    <2>1. task' = task /\ call[c].state = "new" /\ \A b \in Calls : b # c => call'[b] = call[b]
      BY <1>2, <1>4 DEF Admit
    <2> QED
      BY <1>3, <2>1 DEF NoEarlyTask
  <1>5. ASSUME NEW c \in Calls, NEW e \in Enders, Spawn(c, e),
               HangUp(c) \/ Watchdog(c) \/ EndsToo(c, e)
        PROVE  task'[d][f] = Idle
    <2>1. call'[c].state = "over" /\ \A b \in Calls : b # c => call'[b] = call[b]
      BY <1>2, <1>5 DEF HangUp, Watchdog, EndsToo, CallRecords
    <2>2. d # c
      BY <1>1, <2>1
    <2>3. task'[d] = task[d]
      BY <1>2, <1>5, <2>2, SpawnIs
    <2> QED
      BY <1>3, <2>1, <2>2, <2>3
  <1>6. ASSUME NEW c \in Calls, NEW e \in Enders, SettlementStep(c, e) \/ SettlementFails(c, e)
        PROVE  task'[d][f] = Idle
    <2>1. call' = call /\ task[c][e].step \in {"look", "charge", "cache"}
      BY <1>6 DEF SettlementStep, Look, Charge, ChargeRefused, CacheBalance, SettlementFails
    <2>2. task[c][e] # Idle
      BY <2>1 DEF Idle
    <2>3. d # c
      BY <1>1, <2>1, <2>2 DEF NoEarlyTask
    <2>4. task'[d] = task[d]
      <3>1. CASE NextSide(c, e)
        BY <1>2, <2>3, <3>1, NextSideIs
      <3>2. CASE ~NextSide(c, e)
        BY <1>2, <1>6, <2>3, <3>2
           DEF SettlementStep, Look, Charge, ChargeRefused, CacheBalance, SettlementFails
      <3> QED
        BY <3>1, <3>2
    <2> QED
      BY <1>3, <2>1, <2>4
  <1>7. CASE EdgeCrash
    <2>1. call'[d] = IF call[d].state = "up" THEN [call[d] EXCEPT !.state = "refused"] ELSE call[d]
      BY <1>7 DEF EdgeCrash
    <2>2. call[d].state = "new"
      BY <1>1, <1>2, <2>1 DEF CallRecords
    <2> QED
      BY <1>7, <2>2 DEF EdgeCrash
  <1>8. ASSUME NEW s \in Sides,
               \/ \E k \in Keys : Credit(s, k)
               \/ \E limit \in Limits, status \in {"enabled", "disabled"} :
                    Update(s, limit, status)
               \/ Delete(s) \/ Reload(s)
        PROVE  UNCHANGED <<call, task>>
    BY <1>8 DEF Credit, Update, Delete, Reload
  <1>9. ASSUME NEW op \in admin, WriteCache(op) \/ WriteFails(op) PROVE UNCHANGED <<call, task>>
    BY <1>9 DEF WriteCache, WriteFails
  <1>10. UNCHANGED vars => UNCHANGED <<call, task>>
    BY DEF vars
  <1>11. \A c \in Calls : /\ HangUp(c) => Spawn(c, "bye")
                          /\ Watchdog(c) => Spawn(c, "other")
                          /\ \A e \in Enders : EndsToo(c, e) => Spawn(c, e)
    BY DEF HangUp, Watchdog, EndsToo
  <1>12. "bye" \in Enders /\ "other" \in Enders
    BY DEF Enders
  <1> QED
    BY <1>3, <1>4, <1>5, <1>6, <1>7, <1>8, <1>9, <1>10, <1>11, <1>12 DEF Next

(* Whoever waits is unsettled.                                             *)
LEMMA WaitingUnsettled ==
  ASSUME Shapes, NEW c \in Calls, Waiting(c)
  PROVE  c \in Unsettled
  <1>1. PICK e \in Enders : task[c][e] \in Looking
    BY DEF Waiting
  <1>2. task[c][e].step \in {"look", "charge"}
    BY <1>1 DEF Looking
  <1> QED
    BY <1>2 DEF Unsettled, Settling

LEMMA DurationIs == \A funds \in Nat : MaxDuration(funds) \in Nat
  BY Constants DEF MaxDuration

(* A call that a step is not about: either the account stays, or the call  *)
(* is settled, or it has shared its account.                               *)
LEMMA Bystander ==
  ASSUME Shapes, NEW c \in Calls, PaysFor(c), c \notin shared',
         call'[c] = call[c], task'[c] = task[c], ledger \subseteq ledger',
         account' # account => (c \in Unsettled => c \in shared')
  PROVE  PaysFor(c)'
  <1>1. CASE account' = account
    BY <1>1 DEF PaysFor, FundsBuy, Funds, Waiting, Ran, Charged, Enabled
  <1>2. CASE account' # account
    <2>1. c \notin Unsettled
      BY <1>2
    <2>2. call[c].state # "up" /\ ~Waiting(c)
      BY <2>1, WaitingUnsettled DEF Unsettled
    <2> QED
      BY <2>2 DEF PaysFor, Ran, Charged
  <1> QED
    BY <1>1, <1>2

LEMMA AdmitPays ==
  ASSUME Shapes, NEW c \in Calls, Admit(c), c \notin shared'
  PROVE  PaysFor(c)'
  <1> DEFINE seen == cache["call_charge"]
             row == account["call_charge"]
  <1>1. seen \in CacheRows /\ row \in AccountRows /\ call[c] \in CallRecords
    BY Typed DEF Sides
  <1>2. Enabled("call_charge") /\ seen = [balance |-> row.balance, limit |-> row.limit]
    BY DEF Admit
  <1>3. row.balance \in Int /\ row.limit \in Nat
    BY <1>1, Constants DEF AccountRows, Balances
  <1>4. seen.balance = row.balance /\ seen.limit = row.limit
    BY <1>2
  <1>5. \/ call' = [call EXCEPT ![c].state = "refused"]
        \/ /\ row.balance + row.limit >= 1
           /\ call' = [call EXCEPT ![c] =
                [@ EXCEPT !.state = "up", !.max = MaxDuration(row.balance + row.limit)]]
    BY <1>3, <1>4, Constants DEF Admit
  <1>6. Funds = row.balance + row.limit /\ account' = account
    BY DEF Admit, Funds, rows
  <1> HIDE DEF seen, row
  <1>7. \/ call'[c].state = "refused"
        \/ /\ Funds >= 1 /\ call'[c].state = "up" /\ call'[c].max = MaxDuration(Funds)
    <2> DEFINE max == MaxDuration(row.balance + row.limit)
    <2>1. \/ call'[c] = [call[c] EXCEPT !.state = "refused"]
          \/ /\ row.balance + row.limit >= 1
             /\ call'[c] = [call[c] EXCEPT !.state = "up", !.max = max]
      BY <1>5, Typed, Zenon
    <2> HIDE DEF max
    <2>2. ASSUME call'[c] = [call[c] EXCEPT !.state = "refused"]
          PROVE  call'[c].state = "refused"
      BY <1>1, <2>2 DEF CallRecords
    <2>3. ASSUME call'[c] = [call[c] EXCEPT !.state = "up", !.max = max]
          PROVE  call'[c].state = "up" /\ call'[c].max = max
      BY <1>1, <2>3 DEF CallRecords
    <2> QED
      BY <1>6, <2>1, <2>2, <2>3 DEF max
  <1>8. Funds \in Int /\ Funds' = Funds /\ (Enabled("call_charge")' <=> Enabled("call_charge"))
    BY <1>3, <1>6 DEF Funds, Enabled
  <1> QED
    BY <1>2, <1>7, <1>8 DEF PaysFor, FundsBuy, Ran

(* The call is over: its first task looks at the access account.           *)
LEMMA EndPays ==
  ASSUME Shapes, NoEarlyTask, NEW c \in Calls, HangUp(c) \/ Watchdog(c), PaysFor(c)
  PROVE  PaysFor(c)'
  <1>1. PICK e \in Enders : Spawn(c, e)
    BY DEF HangUp, Watchdog, Enders
  <1>2. call[c].state = "up" /\ UNCHANGED <<account, ledger>>
    BY DEF HangUp, Watchdog, rows
  <1>3. \A f \in Enders : task[c][f] = Idle
    BY <1>2 DEF NoEarlyTask
  <1>4. call'[c].state = "over" /\ call'[c].max = call[c].max
    BY Typed DEF HangUp, Watchdog, CallRecords
  <1>5. FundsBuy(c)'
    BY <1>2, <1>4 DEF PaysFor, FundsBuy, Funds, Enabled
  <1>6. ASSUME Ran(c)' PROVE Waiting(c)'
    <2>1. call'[c].lasted # 0
      <3>1. call'[c].max \in Nat /\ call'[c].lasted \in 1..call'[c].max
        BY <1>5, <1>6, DurationIs DEF FundsBuy, Ran
      <3> QED
        BY <3>1
    <2>2. /\ task'[c][e] = [step |-> "look", side |-> "call_charge"]
          /\ \A f \in Enders : f # e => task'[c][f] = Idle
      BY <1>1, <1>3, <2>1, SpawnIs, OneTask, Typed DEF FirstPoint
    <2> QED
      BY <2>2 DEF Waiting, Looking, Sides, Idle
  <1> QED
    BY <1>4, <1>5, <1>6 DEF PaysFor

(* A second task starts where the first did.                               *)
LEMMA EndsTooPays ==
  ASSUME Shapes, NEW c \in Calls, NEW e \in Enders, EndsToo(c, e), PaysFor(c)
  PROVE  PaysFor(c)'
  <1>1. Spawn(c, e) /\ UNCHANGED <<call, account, ledger>>
    BY DEF EndsToo, rows
  <1>2. FundsBuy(c) => FundsBuy(c)'
    BY <1>1 DEF FundsBuy, Funds, Enabled
  <1>3. ASSUME Ran(c), Waiting(c), FundsBuy(c) PROVE Waiting(c)'
    <2>1. call'[c].lasted # 0
      <3>1. call[c].max \in Nat /\ call[c].lasted \in 1..call[c].max
        BY <1>3, DurationIs DEF FundsBuy, Ran
      <3> QED
        BY <1>1, <3>1
    <2>2. /\ task'[c][e] = [step |-> "look", side |-> "call_charge"]
          /\ \A f \in Enders : f # e => task'[c][f] = task[c][f]
      BY <1>1, <2>1, SpawnIs, OneTask, Typed DEF FirstPoint
    <2> QED
      BY <1>3, <2>2 DEF Waiting, Looking, Sides, Idle
  <1>4. (Ran(c)' <=> Ran(c)) /\ (Charged(c, "call_charge")' <=> Charged(c, "call_charge"))
    BY <1>1 DEF Ran, Charged
  <1> QED
    BY <1>1, <1>2, <1>3, <1>4 DEF PaysFor

(* A task of the call: the one that waits finds an account it can charge.  *)
LEMMA SettlementPays ==
  ASSUME Shapes, NoEarlyTask, NEW c \in Calls, NEW e \in Enders, SettlementStep(c, e), PaysFor(c)
  PROVE  PaysFor(c)'
  <1>1. call' = call /\ task[c][e].step \in {"look", "charge", "cache"} /\ ledger \subseteq ledger'
    BY DEF SettlementStep, Look, Charge, ChargeRefused, CacheBalance, rows
  <1>2. task[c][e] # Idle /\ call[c].state # "up"
    <2>1. task[c][e] # Idle
      BY <1>1 DEF Idle
    <2> QED
      BY <2>1 DEF NoEarlyTask
  <1>3. Ran(c)' <=> Ran(c)
    BY <1>1 DEF Ran
  <1>4. Charged(c, "call_charge") => Charged(c, "call_charge")'
    BY <1>1 DEF Charged
  <1>5. ASSUME Ran(c), Waiting(c), FundsBuy(c), ~Charged(c, "call_charge")
        PROVE  Charged(c, "call_charge")' \/ (Waiting(c)' /\ FundsBuy(c)')
    <2>1. task[c][e] \in Looking /\ task[c][e].side = "call_charge"
      BY <1>2, <1>5 DEF Waiting
    <2>2. CASE task[c][e].step = "look"
      <3>1. Look(c, e)
        BY <2>2 DEF SettlementStep, Charge, ChargeRefused, CacheBalance
      <3>2. task' = [task EXCEPT ![c][e].step = "charge"] /\ account' = account
        BY <1>5, <2>1, <3>1 DEF Look, FundsBuy, rows
      <3>3. /\ task'[c][e] = [task[c][e] EXCEPT !.step = "charge"]
            /\ \A f \in Enders : f # e => task'[c][f] = task[c][f]
        BY <3>2, Typed
      <3>4. task'[c][e] \in Looking /\ task'[c][e].side = "call_charge"
        BY <2>1, <3>3 DEF Looking
      <3>5. Waiting(c)'
        BY <1>5, <3>3, <3>4 DEF Waiting, Looking, Idle
      <3> QED
        BY <1>1, <1>5, <3>2, <3>5 DEF FundsBuy, Funds, Enabled
    <2>3. CASE task[c][e].step = "charge"
      <3>1. Charge(c, e) \/ ChargeRefused(c, e)
        BY <2>3 DEF SettlementStep, Look, CacheBalance
      <3>2. Affordable("call_charge", Amount(call[c].lasted))
        <4>1. call[c].lasted \in Nat /\ call[c].lasted <= MaxDuration(Funds)
          <5>1. MaxDuration(Funds) \in Nat
            BY <1>5, DurationIs DEF FundsBuy
          <5> QED
            BY <1>5, <5>1 DEF FundsBuy, Ran
        <4>2. Amount(call[c].lasted) \in Nat /\ Amount(call[c].lasted) <= Funds
          BY <1>5, <4>1, AmountIs DEF FundsBuy
        <4>3. account["call_charge"].balance \in Int /\ account["call_charge"].limit \in Nat
          <5>1. account["call_charge"] \in AccountRows
            BY Typed DEF Sides
          <5> QED
            BY <5>1, Constants DEF AccountRows, Balances
        <4> QED
          BY <1>5, <4>2, <4>3 DEF Affordable, FundsBuy, Funds
      <3>3. Charge(c, e)
        BY <1>5, <2>1, <3>1, <3>2 DEF ChargeRefused, Unique
      <3> DEFINE s == task[c][e].side
                 amount == Amount(call[c].lasted)
                 entry == [call |-> c, side |-> s, amount |-> amount,
                           after |-> account[s].balance - amount]
      <3>4. ledger' = ledger \cup {entry}
        BY <3>3 DEF Charge
      <3>5. entry.call = c /\ entry.side = "call_charge"
        BY <2>1
      <3> HIDE DEF entry
      <3> QED
        BY <3>4, <3>5 DEF Charged
    <2> QED
      BY <2>1, <2>2, <2>3 DEF Looking
  <1> QED
    BY <1>1, <1>2, <1>3, <1>4, <1>5 DEF PaysFor

-----------------------------------------------------------------------------
(* The steps of Next, by what they are about.                              *)
CallStep(c) == Admit(c) \/ HangUp(c) \/ Watchdog(c)
TaskStep(c, e) == EndsToo(c, e) \/ SettlementStep(c, e) \/ SettlementFails(c, e)
AdminStep(s) ==
  \/ \E k \in Keys : Credit(s, k)
  \/ \E limit \in Limits, status \in {"enabled", "disabled"} : Update(s, limit, status)
  \/ Delete(s) \/ Reload(s)

LEMMA NextIs ==
  Next => \/ \E c \in Calls : CallStep(c)
          \/ \E c \in Calls, e \in Enders : TaskStep(c, e)
          \/ EdgeCrash
          \/ \E s \in Sides : AdminStep(s)
          \/ \E op \in admin : WriteCache(op) \/ WriteFails(op)
  BY DEF Next, CallStep, TaskStep, AdminStep

LEMMA SpawnCache ==
  ASSUME Shapes, CacheFollows, NEW c \in Calls, NEW e \in Enders, Spawn(c, e),
         task[c][e].step # "cache", UNCHANGED <<account, cache, admin, faulty, raced>>
  PROVE  CacheFollows'
  <1>1. FirstPoint(call'[c].lasted).step # "cache"
    BY DEF FirstPoint, Done
  <1>2. \A d \in Calls, f \in Enders :
          task'[d][f] = task[d][f] \/ (task[d][f].step # "cache" /\ task'[d][f].step # "cache")
    <2>1. task \in [Calls -> [Enders -> Points]]
      BY Typed
    <2>2. task'[c][e] = FirstPoint(call'[c].lasted)
          /\ \A d \in Calls, f \in Enders : d # c \/ f # e => task'[d][f] = task[d][f]
      BY <2>1, SpawnIs, OneTask
    <2> QED
      BY <1>1, <2>2
  <1> QED
    BY <1>2, NoWriter

LEMMA CacheStep ==
  ASSUME Shapes, NoEarlyTask, CacheFollows, [Next]_vars
  PROVE  CacheFollows'
  <1>1. ASSUME NEW c \in Calls, CallStep(c) PROVE CacheFollows'
    <2>1. UNCHANGED <<account, cache, admin, faulty, raced>>
      BY <1>1 DEF CallStep, Admit, HangUp, Watchdog, rows
    <2>2. CASE Admit(c)
      BY <2>1, <2>2, NoWriter DEF Admit
    <2>3. ASSUME NEW e \in Enders, Spawn(c, e), call[c].state = "up" PROVE CacheFollows'
      <3>1. task[c][e].step # "cache"
        BY <2>3 DEF NoEarlyTask, Idle
      <3> QED
        BY <2>1, <2>3, <3>1, SpawnCache
    <2> QED
      BY <1>1, <2>2, <2>3 DEF CallStep, HangUp, Watchdog, Enders
  <1>2. ASSUME NEW c \in Calls, NEW e \in Enders, TaskStep(c, e) PROVE CacheFollows'
    <2>1. CASE EndsToo(c, e)
      <3>1. Spawn(c, e) /\ task[c][e].step # "cache"
            /\ UNCHANGED <<account, cache, admin, faulty, raced>>
        BY <2>1 DEF EndsToo, Idle, rows
      <3> QED
        BY <3>1, SpawnCache
    <2>2. CASE Look(c, e) \/ ChargeRefused(c, e)
      <3>1. task[c][e].step # "cache" /\ UNCHANGED <<account, cache, admin, faulty, raced>>
        BY <2>2 DEF Look, ChargeRefused, rows
      <3>2. \/ NextSide(c, e)
            \/ /\ task[c][e].step = "look" /\ task' = [task EXCEPT ![c][e].step = "charge"]
        BY <2>2 DEF Look, ChargeRefused
      <3>3. task'[c][e].step # "cache"
            /\ \A d \in Calls, f \in Enders : d # c \/ f # e => task'[d][f] = task[d][f]
        <4>1. CASE NextSide(c, e)
          BY <4>1, NextSideIs, OneTask, Typed DEF Follower, Done
        <4>2. CASE task[c][e].step = "look" /\ task' = [task EXCEPT ![c][e].step = "charge"]
          <5>1. task[c][e] \in Looking
            BY <4>2, PointKinds, Typed
          <5>2. task'[c][e] = [task[c][e] EXCEPT !.step = "charge"]
                /\ \A d \in Calls, f \in Enders : d # c \/ f # e => task'[d][f] = task[d][f]
            BY <4>2, Typed
          <5> QED
            BY <5>1, <5>2 DEF Looking
        <4> QED
          BY <3>2, <4>1, <4>2
      <3> QED
        BY <3>1, <3>3, NoWriter
    <2>3. CASE SettlementFails(c, e)
      BY <2>3 DEF SettlementFails, Fault, CacheFollows
    <2> QED
      BY <1>2, <2>1, <2>2, <2>3, ChargeCache, CacheBalanceCache DEF TaskStep, SettlementStep
  <1>3. ASSUME faulty' = TRUE PROVE CacheFollows'
    BY <1>3 DEF CacheFollows
  <1>4. EdgeCrash \/ (\E op \in admin : WriteFails(op)) => faulty' = TRUE
    BY DEF EdgeCrash, WriteFails, Fault
  <1>5. CASE UNCHANGED vars
    BY <1>5, NoWriter DEF vars, rows
  <1> QED
    BY <1>1, <1>2, <1>3, <1>4, <1>5, NextIs, AdminCache, WriteCacheCache DEF AdminStep

(* The account of the calls that are not over, or not settled, is shared    *)
(* from the first step of another one that writes it.                      *)
LEMMA PaysStep ==
  ASSUME Shapes, NoEarlyTask, Pays, [Next]_vars
  PROVE  Pays'
  <1>1. SUFFICES ASSUME ~faulty', NEW c \in Calls, c \notin shared' PROVE PaysFor(c)'
    BY DEF Pays
  <1>2. ~faulty /\ shared \subseteq shared'
    <2>1. ASSUME NEW d \in Calls, CallStep(d)
          PROVE  UNCHANGED faulty /\ shared \subseteq shared'
      BY <2>1 DEF CallStep, Admit, HangUp, Watchdog
    <2>2. ASSUME NEW d \in Calls, NEW e \in Enders, TaskStep(d, e)
          PROVE  (faulty' = TRUE \/ UNCHANGED faulty) /\ shared \subseteq shared'
      BY <2>2 DEF TaskStep, EndsToo, SettlementStep, Look, Charge, ChargeRefused,
         CacheBalance, SettlementFails, Fault
    <2>3. ASSUME NEW s \in Sides, AdminStep(s)
          PROVE  UNCHANGED faulty /\ shared \subseteq shared'
      BY <2>3 DEF AdminStep, Credit, Update, Delete, Reload, Committed
    <2>4. ASSUME NEW op \in admin, WriteCache(op) \/ WriteFails(op)
          PROVE  (faulty' = TRUE \/ UNCHANGED faulty) /\ shared \subseteq shared'
      BY <2>4 DEF WriteCache, WriteFails, Fault
    <2>5. EdgeCrash => faulty' = TRUE
      BY DEF EdgeCrash, Fault
    <2>6. CASE UNCHANGED vars
      BY <1>1, <2>6 DEF vars
    <2> QED
      BY <1>1, <2>1, <2>2, <2>3, <2>4, <2>5, <2>6, NextIs
  <1>3. PaysFor(c)
    BY <1>1, <1>2 DEF Pays
  <1>4. call \in [Calls -> CallRecords] /\ task \in [Calls -> [Enders -> Points]]
    BY Typed
  <1>5. CASE CallStep(c)
    BY <1>1, <1>3, <1>5, AdmitPays, EndPays DEF CallStep
  <1>6. ASSUME NEW e \in Enders, TaskStep(c, e) PROVE PaysFor(c)'
    <2>1. ~SettlementFails(c, e)
      BY <1>1 DEF SettlementFails, Fault
    <2> QED
      BY <1>3, <1>6, <2>1, EndsTooPays, SettlementPays DEF TaskStep
  <1>7. ASSUME NEW d \in Calls, d # c, CallStep(d) PROVE PaysFor(c)'
    <2>1. call'[c] = call[c] /\ UNCHANGED <<account, ledger>>
      BY <1>4, <1>7 DEF CallStep, Admit, HangUp, Watchdog, rows
    <2>2. task'[c] = task[c]
      <3>1. CASE Admit(d)
        BY <3>1 DEF Admit
      <3>2. ASSUME NEW e \in Enders, Spawn(d, e) PROVE task'[c] = task[c]
        BY <1>4, <1>7, <3>2, SpawnIs
      <3> QED
        BY <1>7, <3>1, <3>2 DEF CallStep, HangUp, Watchdog, Enders
    <2> QED
      BY <1>1, <1>3, <2>1, <2>2, Bystander
  <1>8. ASSUME NEW d \in Calls, d # c, NEW e \in Enders, TaskStep(d, e) PROVE PaysFor(c)'
    <2>1. call'[c] = call[c] /\ ledger \subseteq ledger'
          /\ (account' # account => (c \in Unsettled => c \in shared'))
      BY <1>8 DEF TaskStep, EndsToo, SettlementStep, Look, Charge, ChargeRefused,
         CacheBalance, SettlementFails, rows
    <2>2. task'[c] = task[c]
      <3>1. CASE NextSide(d, e)
        BY <1>4, <1>8, <3>1, NextSideIs
      <3>2. CASE Spawn(d, e)
        BY <1>4, <1>8, <3>2, SpawnIs
      <3>3. CASE ~NextSide(d, e) /\ ~Spawn(d, e)
        BY <1>4, <1>8, <3>3 DEF TaskStep, EndsToo, SettlementStep, Look, Charge,
           ChargeRefused, CacheBalance, SettlementFails
      <3> QED
        BY <3>1, <3>2, <3>3
    <2> QED
      BY <1>1, <1>3, <2>1, <2>2, Bystander
  <1>9. ASSUME NEW s \in Sides, AdminStep(s) PROVE PaysFor(c)'
    <2>1. UNCHANGED <<call, task, ledger>> /\ shared' = shared \cup Unsettled
      BY <1>9 DEF AdminStep, Credit, Update, Delete, Reload, Committed, rows
    <2> QED
      BY <1>1, <1>3, <2>1, Bystander
  <1>10. ASSUME NEW op \in admin, WriteCache(op) PROVE PaysFor(c)'
    <2>1. UNCHANGED <<call, task, ledger, account>>
      BY <1>10 DEF WriteCache, rows
    <2> QED
      BY <1>1, <1>3, <2>1, Bystander
  <1>11. ~EdgeCrash /\ \A op \in admin : ~WriteFails(op)
    BY <1>1 DEF EdgeCrash, WriteFails, Fault
  <1>12. CASE UNCHANGED vars
    <2>1. UNCHANGED <<call, task, ledger, account>>
      BY <1>12 DEF vars, rows
    <2> QED
      BY <1>1, <1>3, <2>1, Bystander
  <1> QED
    BY <1>5, <1>6, <1>7, <1>8, <1>9, <1>10, <1>11, <1>12, NextIs

-----------------------------------------------------------------------------
IInv == Shapes /\ NoEarlyTask /\ Books /\ CacheFollows /\ Pays

(* The inductive invariant holds in every reachable state.                 *)
THEOREM InvariantHolds == Spec => []IInv
  <1>1. Init => IInv
    BY InitShapes, InitBooks, InitCache, InitPays DEF IInv
  <1>2. IInv /\ [Next]_vars => IInv'
    BY ShapesStep, NoEarlyTaskStep, BooksStep, CacheStep, PaysStep DEF IInv
  <1> QED
    BY <1>1, <1>2, PTL DEF Spec

(* However many end a call, settle it at once or repeat a credit, every     *)
(* balance is the opening balance plus the items of the journal, and a      *)
(* charge or a credit is in it once (settle_call_entry,                    *)
(* credit_billing_account).                                                *)
THEOREM BooksAlwaysBalance == Spec => []BooksBalance
  <1>1. IInv => BooksBalance
    BY BooksAre DEF IInv, Shapes
  <1> QED
    BY <1>1, InvariantHolds, PTL

(* When all writers have finished, and none failed and no two crossed, the  *)
(* balance in Redis is that of the account.                                *)
THEOREM CacheIsExact == Spec => []CacheExact
  <1>1. ASSUME IInv, Quiet, ~raced, ~faulty, NEW s \in Sides, Enabled(s)
        PROVE  cache[s] = [balance |-> account[s].balance, limit |-> account[s].limit]
    <2>1. OpsOf(s) = {} /\ \A c \in Calls, e \in Enders : ~WritesAt(c, e, s)
      BY <1>1 DEF Quiet, Settling, OpsOf, WritesAt
    <2>2. ~Writing(s)
      BY <2>1, WritingIs
    <2> QED
      BY <1>1, <2>2 DEF IInv, CacheFollows, CacheOk, Follows, Row, Enabled
  <1>2. IInv => CacheExact
    BY <1>1 DEF CacheExact
  <1> QED
    BY <1>2, InvariantHolds, PTL

(* A call that had its account to itself has paid for what it was admitted  *)
(* for, once it is settled (enforce_balance_check, settle_completed_call). *)
THEOREM WhatIsBoughtIsPaid == Spec => []BoughtIsPaid
  <1>1. ASSUME IInv, NEW c \in Calls \ shared, Settled(c), ~faulty,
               call[c].lasted \in 1..call[c].max
        PROVE  Charged(c, "call_charge")
    <2>1. ~Waiting(c)
      BY <1>1 DEF Settled, Waiting, Looking, Idle
    <2> QED
      BY <1>1, <2>1 DEF IInv, Pays, PaysFor, Ran, Settled
  <1>2. IInv => BoughtIsPaid
    BY <1>1 DEF BoughtIsPaid
  <1> QED
    BY <1>2, InvariantHolds, PTL
=====
