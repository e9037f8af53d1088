----------------------------- MODULE LeaseProofs -----------------------------
(***************************************************************************)
(* Proofs about the capacity leases, for any calls, numbers, trunks, edges, *)
(* plans and limits: the scripts of ResourceLease, the promise they keep    *)
(* (CapacityLease), and the edges that call them (LeaseLifecycle).          *)
(*                                                                         *)
(* The inductive invariant of the store is the conjunction of its          *)
(* invariants: capacity follows from the agreement of the four keys,       *)
(* because the count an acquire compares with the limit is the count of    *)
(* live leases only if whoever is live in a set holds its own lease.       *)
(*                                                                         *)
(* Every step of the edges is a step of the lease store or leaves it       *)
(* alone, so what is proved of the scripts holds for the edges that call   *)
(* them; and what a step does to a call it is not about is one case for    *)
(* all of them (Bystander).                                                *)
(***************************************************************************)
EXTENDS LeaseLifecycle, TLAPS, FiniteSetTheorems, SequenceTheorems

IInv == TypeOK /\ KeysAgree /\ CapacityRespected

Scores == [Calls -> 0..(now + TTL)]

-----------------------------------------------------------------------------
(* Purging keeps the scores that lie in the future and clears the others   *)
(* (ZREMRANGEBYSCORE in ACQUIRE_SCRIPT).                                   *)
LEMMA PurgedScores ==
  ASSUME now \in Nat, TTL \in Nat, NEW scores \in Scores
  PROVE  /\ Purged(scores) \in Scores
         /\ \A d \in Calls : Purged(scores)[d] =
              IF scores[d] > now THEN scores[d] ELSE NoScore
  BY DEF Purged, NoScore, Scores

(* After the purge a set's size is the number of its live members, which   *)
(* is what ZCARD answers in ACQUIRE_SCRIPT.                                *)
LEMMA PurgedCount ==
  ASSUME now \in Nat, TTL \in Nat, NEW scores \in Scores
  PROVE  ZCard(Purged(scores)) = Cardinality(LiveIn(scores))
  <1>1. \A d \in Calls : scores[d] \in Nat
    BY DEF Scores
  <1>2. {d \in Calls : Purged(scores)[d] # NoScore} = LiveIn(scores)
    BY <1>1, PurgedScores DEF LiveIn, NoScore
  <1> QED
    BY <1>2 DEF ZCard

(* The hash entries that survive a purge are those of the live calls.      *)
LEMMA PurgedHash ==
  ASSUME TypeOK, KeysAgree
  PROVE  /\ PurgedCalls \in [Calls -> Leases \cup {NoLease}]
         /\ \A d \in Calls : PurgedCalls[d] = IF Live(d) THEN calls[d] ELSE NoLease
  BY DEF TypeOK, KeysAgree, KeysAgreeFor, PurgedCalls, Live, NoScore

(* A set that only lost live members still respects its limit.             *)
LEMMA FewerLive ==
  ASSUME LeaseAssumption, NEW S \in SUBSET Calls, NEW T \in SUBSET S,
         NEW max \in Nat, Cardinality(S) <= max
  PROVE  Cardinality(T) <= max
  <1>1. IsFiniteSet(S)
    BY FS_Subset DEF LeaseAssumption
  <1>2. IsFiniteSet(T) /\ Cardinality(T) <= Cardinality(S)
    BY <1>1, FS_Subset
  <1>3. Cardinality(T) \in Nat /\ Cardinality(S) \in Nat
    BY <1>1, <1>2, FS_CardinalityType
  <1> QED
    BY <1>2, <1>3

(* One more member fits in a set that is not full.                         *)
LEMMA OneMore ==
  ASSUME LeaseAssumption, NEW S \in SUBSET Calls, NEW c \in Calls,
         NEW max \in Nat, ~(Cardinality(S) >= max)
  PROVE  Cardinality(S \cup {c}) <= max
  <1>1. IsFiniteSet(S)
    BY FS_Subset DEF LeaseAssumption
  <1>2. Cardinality(S) \in Nat
    BY <1>1, FS_CardinalityType
  <1>3. Cardinality(S \cup {c}) =
          IF c \in S THEN Cardinality(S) ELSE Cardinality(S) + 1
    BY <1>1, FS_AddElement
  <1> QED
    BY <1>2, <1>3

-----------------------------------------------------------------------------
(* The store starts empty, which respects every limit.                     *)
LEMMA InitIInv ==
  ASSUME LeaseAssumption, Init
  PROVE  IInv
  <1>1. TypeOK /\ KeysAgree
    BY DEF LeaseAssumption, Init, TypeOK, KeysAgree, KeysAgreeFor, Live, NoScore
  <1>2. /\ \A n \in Numbers : LiveIn(numberExpiry[n]) = {}
        /\ \A g \in Gateways : LiveIn(trunkExpiry[g]) = {}
    BY DEF Init, LiveIn, NoScore
  <1>3. CapacityRespected
    BY <1>2, FS_EmptySet DEF CapacityRespected, LeaseAssumption
  <1> QED
    BY <1>1, <1>3 DEF IInv
-----------------------------------------------------------------------------
(* What the scripts write to the three kinds of sorted sets, read entry by *)
(* entry: only call c, and only in the sets of n and g, gets the score;    *)
(* the rest of these two sets is what the script left of them.             *)
LEMMA ScoresWritten ==
  ASSUME LeaseAssumption, TypeOK,
         NEW c \in Calls, NEW n \in CallerNumbers, NEW g \in Gateways,
         NEW callScores \in Scores, NEW numberScores \in Scores,
         NEW trunkScores \in Scores, NEW score \in 0..(now + TTL),
         SetScores(callScores, numberScores, trunkScores, c, n, g, score)
  PROVE  /\ callExpiry' \in Scores
         /\ numberExpiry' \in [Numbers -> Scores]
         /\ trunkExpiry' \in [Gateways -> Scores]
         /\ \A d \in Calls :
              callExpiry'[d] = IF d = c THEN score ELSE callScores[d]
         /\ \A m \in Numbers, d \in Calls : numberExpiry'[m][d] =
              IF m # n THEN numberExpiry[m][d]
              ELSE IF d = c THEN score ELSE numberScores[d]
         /\ \A h \in Gateways, d \in Calls : trunkExpiry'[h][d] =
              IF h # g THEN trunkExpiry[h][d]
              ELSE IF d = c THEN score ELSE trunkScores[d]
  <1>1. /\ callExpiry' \in Scores
        /\ \A d \in Calls :
             callExpiry'[d] = IF d = c THEN score ELSE callScores[d]
    BY DEF SetScores, Scores
  <1>2. /\ trunkExpiry' \in [Gateways -> Scores]
        /\ \A h \in Gateways, d \in Calls : trunkExpiry'[h][d] =
             IF h # g THEN trunkExpiry[h][d]
             ELSE IF d = c THEN score ELSE trunkScores[d]
    BY DEF SetScores, Scores, TypeOK
  <1>3. /\ numberExpiry' \in [Numbers -> Scores]
        /\ \A m \in Numbers, d \in Calls : numberExpiry'[m][d] =
             IF m # n THEN numberExpiry[m][d]
             ELSE IF d = c THEN score ELSE numberScores[d]
    <2>1. CASE n = NoNumber
      BY <2>1 DEF SetScores, Scores, TypeOK, LeaseAssumption
    <2>2. CASE n # NoNumber
      BY <2>2 DEF SetScores, CallerNumbers, Scores, TypeOK
    <2> QED
      BY <2>1, <2>2
  <1> QED
    BY <1>1, <1>2, <1>3

(* The scores of a number, the empty one included, have the type of a set. *)
LEMMA NumberScoresType ==
  ASSUME TypeOK, LeaseAssumption, NEW n \in CallerNumbers
  PROVE  /\ NumberScores(n) \in Scores
         /\ n # NoNumber => NumberScores(n) = numberExpiry[n]
         /\ n = NoNumber => \A d \in Calls : NumberScores(n)[d] = NoScore
  BY DEF TypeOK, LeaseAssumption, NumberScores, CallerNumbers,
         NoScore, Scores
-----------------------------------------------------------------------------
(* The three things a step of the store can do to one call. *)
Untouched(d) ==
  /\ Live(d) => calls'[d] = calls[d] /\ callExpiry'[d] = callExpiry[d]
  /\ ~Live(d) => callExpiry'[d] <= now
  /\ calls'[d] # NoLease <=> callExpiry'[d] # NoScore
  /\ \A m \in Numbers :
       IF numberExpiry[m][d] > now THEN numberExpiry'[m][d] = numberExpiry[m][d]
                                   ELSE numberExpiry'[m][d] <= now
  /\ \A h \in Gateways :
       IF trunkExpiry[h][d] > now THEN trunkExpiry'[h][d] = trunkExpiry[h][d]
                                  ELSE trunkExpiry'[h][d] <= now

HoldsOnly(c, n, g, e) ==
  /\ e > now
  /\ calls'[c] = Lease(n, g)
  /\ callExpiry'[c] = e
  /\ \A m \in Numbers : IF m = n THEN numberExpiry'[m][c] = e
                                  ELSE numberExpiry'[m][c] <= now
  /\ \A h \in Gateways : IF h = g THEN trunkExpiry'[h][c] = e
                                   ELSE trunkExpiry'[h][c] <= now

HoldsNothing(c) ==
  /\ calls'[c] = NoLease
  /\ callExpiry'[c] = NoScore
  /\ \A m \in Numbers : numberExpiry'[m][c] <= now
  /\ \A h \in Gateways : trunkExpiry'[h][c] <= now

(* A call that is not live is live in no set, and a live one only in those *)
(* of its own lease.                                                       *)
LEMMA OwnSetsOnly ==
  ASSUME TypeOK, KeysAgree, NEW d \in Calls
  PROVE  /\ \A m \in Numbers : ~(Live(d) /\ calls[d].number = m) =>
              numberExpiry[m][d] <= now
         /\ \A h \in Gateways : ~(Live(d) /\ calls[d].gateway = h) =>
              trunkExpiry[h][d] <= now
  BY DEF TypeOK, KeysAgree, KeysAgreeFor

(* A step that changes none of the entries of a call leaves it untouched.  *)
LEMMA SameEntries ==
  ASSUME TypeOK, KeysAgree, NEW d \in Calls,
         calls'[d] = calls[d], callExpiry'[d] = callExpiry[d],
         \A m \in Numbers : numberExpiry'[m][d] = numberExpiry[m][d],
         \A h \in Gateways : trunkExpiry'[h][d] = trunkExpiry[h][d]
  PROVE  Untouched(d)
  <1>1. /\ now \in Nat
        /\ callExpiry[d] \in Nat
        /\ \A m \in Numbers : numberExpiry[m][d] \in Nat
        /\ \A h \in Gateways : trunkExpiry[h][d] \in Nat
    BY DEF TypeOK
  <1>2. calls[d] # NoLease <=> callExpiry[d] # NoScore
    BY DEF KeysAgree, KeysAgreeFor
  <1> QED
    BY <1>1, <1>2 DEF Untouched, Live

(* ACQUIRE_SCRIPT when it grants gives c exactly what it asked for, for at *)
(* least one TTL, and touches no other call.                               *)
LEMMA GrantedEffect ==
  ASSUME LeaseAssumption, TypeOK, KeysAgree,
         NEW c \in Calls, NEW n \in CallerNumbers, NEW g \in Gateways,
         AcquireGranted(c, n, g)
  PROVE  /\ TypeOK' /\ now' = now
         /\ HoldsOnly(c, n, g, AcquireExpiry(c, n, g))
         /\ Live(c) => calls[c] = Lease(n, g)
                         /\ AcquireExpiry(c, n, g) >= callExpiry[c]
         /\ ~Live(c) => ~NumberFull(n) /\ ~TrunkFull(g)
         /\ \A d \in Calls \ {c} : Untouched(d)
  <1> DEFINE e == AcquireExpiry(c, n, g)
             P == Purged(callExpiry)
             Q == Purged(NumberScores(n))
             R == Purged(trunkExpiry[g])
  <1>t. now \in Nat \ {0} /\ TTL \in Nat \ {0} /\ NoNumber \notin Numbers
    BY DEF TypeOK, LeaseAssumption
  <1>n. now' = now
    BY DEF AcquireGranted
  <1>s. /\ callExpiry \in Scores
        /\ numberExpiry \in [Numbers -> Scores]
        /\ trunkExpiry \in [Gateways -> Scores]
    BY DEF TypeOK, Scores
  <1>1. /\ P \in Scores
        /\ \A d \in Calls : P[d] = IF callExpiry[d] > now THEN callExpiry[d] ELSE NoScore
    BY <1>t, <1>s, PurgedScores
  <1>2. /\ Q \in Scores
        /\ \A d \in Calls : Q[d] =
             IF NumberScores(n)[d] > now THEN NumberScores(n)[d] ELSE NoScore
    <2>1. NumberScores(n) \in Scores
      BY NumberScoresType
    <2> QED
      BY <1>t, <2>1, PurgedScores
  <1>3. /\ R \in Scores
        /\ \A d \in Calls : R[d] =
             IF trunkExpiry[g][d] > now THEN trunkExpiry[g][d] ELSE NoScore
    BY <1>t, <1>s, PurgedScores
  <1>4. e \in 0..(now + TTL) /\ e > now /\ (Live(c) => e >= callExpiry[c])
    <2>1. PurgedCalls[c] = NoLease => ~Live(c)
      BY PurgedHash DEF KeysAgree, KeysAgreeFor, Live, TypeOK, NoScore
    <2> QED
      BY <1>t, <1>1, <1>2, <1>3, <2>1 DEF AcquireExpiry, Later, NoScore, Live, Scores
  <1>5. /\ Live(c) => calls[c] = Lease(n, g)
        /\ ~Live(c) => ~NumberFull(n) /\ ~TrunkFull(g)
    <2>1. AcquireReply(c, n, g) = "ok"
      BY DEF AcquireGranted
    <2>2. PurgedCalls[c] = IF Live(c) THEN calls[c] ELSE NoLease
      BY PurgedHash
    <2>3. Live(c) => calls[c] # NoLease
      BY DEF KeysAgree, KeysAgreeFor, Live, TypeOK, NoScore
    <2>4. Lease(n, g) # NoLease
      BY DEF LeaseAssumption, Lease, Leases
    <2> QED
      BY <2>1, <2>2, <2>3, <2>4 DEF AcquireReply
  <1>6. /\ calls' \in [Calls -> Leases \cup {NoLease}]
        /\ calls'[c] = Lease(n, g)
        /\ \A d \in Calls \ {c} : calls'[d] = IF Live(d) THEN calls[d] ELSE NoLease
    <2>1. Lease(n, g) \in Leases
      BY DEF Lease, Leases
    <2> QED
      BY <2>1, PurgedHash DEF AcquireGranted
  <1>7. SetScores(P, Q, R, c, n, g, e)
    BY DEF AcquireGranted
  <1>9. /\ callExpiry' \in Scores
        /\ numberExpiry' \in [Numbers -> Scores]
        /\ trunkExpiry' \in [Gateways -> Scores]
        /\ \A d \in Calls : callExpiry'[d] = IF d = c THEN e ELSE P[d]
        /\ \A m \in Numbers, d \in Calls : numberExpiry'[m][d] =
             IF m # n THEN numberExpiry[m][d] ELSE IF d = c THEN e ELSE Q[d]
        /\ \A h \in Gateways, d \in Calls : trunkExpiry'[h][d] =
             IF h # g THEN trunkExpiry[h][d] ELSE IF d = c THEN e ELSE R[d]
    <2> HIDE DEF e, P, Q, R
    <2> QED
      BY <1>1, <1>2, <1>3, <1>4, <1>7, ScoresWritten
  <1>10. TypeOK'
    BY <1>n, <1>t, <1>6, <1>9 DEF TypeOK, Scores
  <1>11. HoldsOnly(c, n, g, e)
    <2>1. \A m \in Numbers : m # n => numberExpiry[m][c] <= now
      BY <1>5, OwnSetsOnly DEF Lease
    <2>2. \A h \in Gateways : h # g => trunkExpiry[h][c] <= now
      BY <1>5, OwnSetsOnly DEF Lease
    <2> QED
      BY <1>4, <1>6, <1>9, <2>1, <2>2 DEF HoldsOnly
  <1>12. ASSUME NEW d \in Calls \ {c}
         PROVE  Untouched(d)
    <2>1. Live(d) => callExpiry[d] > now /\ calls[d] # NoLease
      BY DEF Live, KeysAgree, KeysAgreeFor, TypeOK, NoScore
    <2>2. /\ callExpiry'[d] = IF callExpiry[d] > now THEN callExpiry[d] ELSE NoScore
          /\ calls'[d] = IF Live(d) THEN calls[d] ELSE NoLease
      BY <1>1, <1>6, <1>9
    <2>3. ASSUME NEW m \in Numbers
          PROVE  IF numberExpiry[m][d] > now
                 THEN numberExpiry'[m][d] = numberExpiry[m][d]
                 ELSE numberExpiry'[m][d] <= now
      <3>1. numberExpiry[m][d] \in Nat
        BY <1>s DEF Scores
      <3>2. m = n => NumberScores(n)[d] = numberExpiry[m][d]
        BY <1>t, NumberScoresType
      <3> QED
        BY <1>t, <1>2, <1>9, <3>1, <3>2 DEF NoScore
    <2>4. ASSUME NEW h \in Gateways
          PROVE  IF trunkExpiry[h][d] > now
                 THEN trunkExpiry'[h][d] = trunkExpiry[h][d]
                 ELSE trunkExpiry'[h][d] <= now
      <3>1. trunkExpiry[h][d] \in Nat
        BY <1>s DEF Scores
      <3> QED
        BY <1>t, <1>3, <1>9, <3>1 DEF NoScore
    <2> QED
      BY <1>t, <2>1, <2>2, <2>3, <2>4 DEF Untouched, Live, NoScore
  <1> QED
    BY <1>n, <1>4, <1>5, <1>10, <1>11, <1>12
(* RENEW_SCRIPT on a live lease extends it in every set c is in.           *)
LEMMA RenewedEffect ==
  ASSUME LeaseAssumption, TypeOK, KeysAgree,
         NEW c \in Calls, NEW n \in CallerNumbers, NEW g \in Gateways,
         RenewLive(c, n, g)
  PROVE  /\ TypeOK' /\ now' = now
         /\ HoldsOnly(c, n, g, RenewalExpiry(c, n, g))
         /\ Live(c) /\ calls[c] = Lease(n, g)
         /\ RenewalExpiry(c, n, g) >= callExpiry[c]
         /\ \A d \in Calls \ {c} : Untouched(d)
  <1> DEFINE e == RenewalExpiry(c, n, g)
  <1>t. now \in Nat \ {0} /\ TTL \in Nat \ {0} /\ NoNumber \notin Numbers
    BY DEF TypeOK, LeaseAssumption
  <1>s. /\ callExpiry \in Scores
        /\ numberExpiry \in [Numbers -> Scores]
        /\ trunkExpiry \in [Gateways -> Scores]
    BY DEF TypeOK, Scores
  <1>1. /\ NumberScores(n) \in Scores
        /\ n # NoNumber => NumberScores(n) = numberExpiry[n]
        /\ n = NoNumber => \A d \in Calls : NumberScores(n)[d] = NoScore
    BY NumberScoresType
  <1>2. /\ now' = now /\ calls' = calls /\ calls[c] = Lease(n, g)
        /\ callExpiry[c] > now
        /\ n # NoNumber => numberExpiry[n][c] > now
        /\ SetScores(callExpiry, NumberScores(n), trunkExpiry[g], c, n, g, e)
    BY DEF RenewLive, StillLive
  <1>3. e \in 0..(now + TTL) /\ e > now /\ e >= callExpiry[c]
    BY <1>t, <1>s, <1>1, <1>2 DEF RenewalExpiry, Later, Scores
  <1>4. /\ callExpiry' \in Scores
        /\ numberExpiry' \in [Numbers -> Scores]
        /\ trunkExpiry' \in [Gateways -> Scores]
        /\ \A d \in Calls : callExpiry'[d] = IF d = c THEN e ELSE callExpiry[d]
        /\ \A m \in Numbers, d \in Calls : numberExpiry'[m][d] =
             IF m # n THEN numberExpiry[m][d]
             ELSE IF d = c THEN e ELSE NumberScores(n)[d]
        /\ \A h \in Gateways, d \in Calls : trunkExpiry'[h][d] =
             IF h # g THEN trunkExpiry[h][d]
             ELSE IF d = c THEN e ELSE trunkExpiry[g][d]
    <2> HIDE DEF e
    <2> QED
      BY <1>s, <1>1, <1>2, <1>3, ScoresWritten
  <1>5. TypeOK'
    BY <1>2, <1>4 DEF TypeOK, Scores
  <1>6. Live(c)
    BY <1>2 DEF Live
  <1>7. HoldsOnly(c, n, g, e)
    <2>1. \A m \in Numbers : m # n => numberExpiry[m][c] <= now
      BY <1>2, OwnSetsOnly DEF Lease
    <2>2. \A h \in Gateways : h # g => trunkExpiry[h][c] <= now
      BY <1>2, OwnSetsOnly DEF Lease
    <2> QED
      BY <1>2, <1>3, <1>4, <2>1, <2>2 DEF HoldsOnly
  <1>8. ASSUME NEW d \in Calls \ {c}
        PROVE  Untouched(d)
    <2>1. /\ \A m \in Numbers : numberExpiry'[m][d] = numberExpiry[m][d]
          /\ \A h \in Gateways : trunkExpiry'[h][d] = trunkExpiry[h][d]
      BY <1>t, <1>1, <1>4
    <2> QED
      BY <1>2, <1>4, <2>1, SameEntries
  <1> QED
    BY <1>2, <1>3, <1>5, <1>6, <1>7, <1>8

(* RELEASE_SCRIPT, and RENEW_SCRIPT on an expired lease, leave nothing of  *)
(* the lease of c, and touch no other call.                                *)
LEMMA ForgottenEffect ==
  ASSUME LeaseAssumption, TypeOK, KeysAgree,
         NEW c \in Calls, NEW n \in CallerNumbers, NEW g \in Gateways,
         calls[c] = Lease(n, g), Forget(c, n, g)
  PROVE  /\ TypeOK' /\ now' = now
         /\ HoldsNothing(c)
         /\ \A d \in Calls \ {c} : Untouched(d)
  <1>t. now \in Nat \ {0} /\ TTL \in Nat \ {0} /\ NoNumber \notin Numbers
    BY DEF TypeOK, LeaseAssumption
  <1>s. /\ callExpiry \in Scores
        /\ numberExpiry \in [Numbers -> Scores]
        /\ trunkExpiry \in [Gateways -> Scores]
    BY DEF TypeOK, Scores
  <1>1. /\ NumberScores(n) \in Scores
        /\ n # NoNumber => NumberScores(n) = numberExpiry[n]
    BY NumberScoresType
  <1>2. /\ now' = now /\ calls' = [calls EXCEPT ![c] = NoLease]
        /\ SetScores(callExpiry, NumberScores(n), trunkExpiry[g], c, n, g, NoScore)
    BY DEF Forget
  <1>3. NoScore \in 0..(now + TTL)
    BY <1>t DEF NoScore
  <1>4. /\ callExpiry' \in Scores
        /\ numberExpiry' \in [Numbers -> Scores]
        /\ trunkExpiry' \in [Gateways -> Scores]
        /\ \A d \in Calls : callExpiry'[d] = IF d = c THEN NoScore ELSE callExpiry[d]
        /\ \A m \in Numbers, d \in Calls : numberExpiry'[m][d] =
             IF m # n THEN numberExpiry[m][d]
             ELSE IF d = c THEN NoScore ELSE NumberScores(n)[d]
        /\ \A h \in Gateways, d \in Calls : trunkExpiry'[h][d] =
             IF h # g THEN trunkExpiry[h][d]
             ELSE IF d = c THEN NoScore ELSE trunkExpiry[g][d]
    BY <1>s, <1>1, <1>2, <1>3, ScoresWritten
  <1>5. TypeOK'
    BY <1>2, <1>4 DEF TypeOK, Scores
  <1>6. HoldsNothing(c)
    <2>1. \A m \in Numbers : m # n => numberExpiry[m][c] <= now
      BY OwnSetsOnly DEF Lease
    <2>2. \A h \in Gateways : h # g => trunkExpiry[h][c] <= now
      BY OwnSetsOnly DEF Lease
    <2> QED
      <3>1. calls'[c] = NoLease /\ callExpiry'[c] = NoScore
        BY <1>2, <1>4 DEF TypeOK
      <3>2. ASSUME NEW m \in Numbers
            PROVE  numberExpiry'[m][c] <= now
        BY <1>t, <1>4, <2>1 DEF NoScore
      <3>3. ASSUME NEW h \in Gateways
            PROVE  trunkExpiry'[h][c] <= now
        BY <1>t, <1>4, <2>2 DEF NoScore
      <3> QED
        BY <3>1, <3>2, <3>3 DEF HoldsNothing
  <1>7. ASSUME NEW d \in Calls \ {c}
        PROVE  Untouched(d)
    <2>1. /\ \A m \in Numbers : numberExpiry'[m][d] = numberExpiry[m][d]
          /\ \A h \in Gateways : trunkExpiry'[h][d] = trunkExpiry[h][d]
      BY <1>t, <1>1, <1>4
    <2>2. calls'[d] = calls[d] /\ callExpiry'[d] = callExpiry[d]
      BY <1>2, <1>4 DEF TypeOK
    <2> QED
      BY <2>1, <2>2, SameEntries
  <1> QED
    BY <1>2, <1>5, <1>6, <1>7

(* ACQUIRE_SCRIPT when it refuses removes expired entries only.            *)
LEMMA RefusedEffect ==
  ASSUME LeaseAssumption, TypeOK, KeysAgree,
         NEW c \in Calls, NEW n \in CallerNumbers, NEW g \in Gateways,
         AcquireRefused(c, n, g)
  PROVE  /\ TypeOK' /\ now' = now
         /\ \A d \in Calls : Untouched(d)
  <1>t. now \in Nat \ {0} /\ TTL \in Nat \ {0} /\ NoNumber \notin Numbers
    BY DEF TypeOK, LeaseAssumption
  <1>s. /\ callExpiry \in Scores
        /\ numberExpiry \in [Numbers -> Scores]
        /\ trunkExpiry \in [Gateways -> Scores]
    BY DEF TypeOK, Scores
  <1>1. \A scores \in Scores : /\ Purged(scores) \in Scores
                               /\ \A d \in Calls : Purged(scores)[d] =
                                    IF scores[d] > now THEN scores[d] ELSE NoScore
    BY <1>t, PurgedScores
  <1>2. /\ now' = now
        /\ calls' = PurgedCalls
        /\ callExpiry' = Purged(callExpiry)
    BY DEF AcquireRefused
  <1>3. /\ trunkExpiry' \in [Gateways -> Scores]
        /\ \A h \in Gateways, d \in Calls : trunkExpiry'[h][d] =
             IF h # g THEN trunkExpiry[h][d] ELSE Purged(trunkExpiry[g])[d]
    BY <1>s, <1>1 DEF AcquireRefused
  <1>4. /\ numberExpiry' \in [Numbers -> Scores]
        /\ \A m \in Numbers, d \in Calls : numberExpiry'[m][d] =
             IF m # n THEN numberExpiry[m][d] ELSE Purged(numberExpiry[n])[d]
    <2>1. CASE n = NoNumber
      BY <1>t, <1>s, <2>1 DEF AcquireRefused
    <2>2. CASE n # NoNumber
      BY <1>s, <1>1, <2>2 DEF AcquireRefused, CallerNumbers
    <2> QED
      BY <2>1, <2>2
  <1>5. /\ PurgedCalls \in [Calls -> Leases \cup {NoLease}]
        /\ \A d \in Calls : PurgedCalls[d] = IF Live(d) THEN calls[d] ELSE NoLease
    BY PurgedHash
  <1>6. TypeOK'
    BY <1>t, <1>s, <1>1, <1>2, <1>3, <1>4, <1>5 DEF TypeOK, Scores
  <1>7. ASSUME NEW d \in Calls
        PROVE  Untouched(d)
    <2>1. /\ callExpiry'[d] = IF callExpiry[d] > now THEN callExpiry[d] ELSE NoScore
          /\ calls'[d] = IF Live(d) THEN calls[d] ELSE NoLease
      BY <1>s, <1>1, <1>2, <1>5
    <2>2. Live(d) => callExpiry[d] > now /\ calls[d] # NoLease
      BY DEF Live, KeysAgree, KeysAgreeFor, TypeOK, NoScore
    <2>3. \A m \in Numbers : numberExpiry'[m][d] =
            IF m = n /\ ~(numberExpiry[m][d] > now) THEN NoScore ELSE numberExpiry[m][d]
      BY <1>s, <1>1, <1>4
    <2>4. \A h \in Gateways : trunkExpiry'[h][d] =
            IF h = g /\ ~(trunkExpiry[h][d] > now) THEN NoScore ELSE trunkExpiry[h][d]
      BY <1>s, <1>1, <1>3
    <2>5. /\ \A m \in Numbers : numberExpiry[m][d] \in Nat
          /\ \A h \in Gateways : trunkExpiry[h][d] \in Nat
      BY <1>s DEF Scores
    <2> QED
      BY <1>t, <2>1, <2>2, <2>3, <2>4, <2>5 DEF Untouched, Live, NoScore
  <1> QED
    BY <1>2, <1>6, <1>7
-----------------------------------------------------------------------------
(* Each of the three effects leaves the keys of the call in agreement.     *)
LEMMA UntouchedAgrees ==
  ASSUME TypeOK, TypeOK', now' = now, NEW d \in Calls,
         KeysAgreeFor(d), Untouched(d)
  PROVE  KeysAgreeFor(d)'
  <1>1. /\ now \in Nat \ {0}
        /\ callExpiry[d] \in Nat /\ callExpiry'[d] \in Nat
        /\ calls[d] \in Leases \cup {NoLease}
        /\ \A m \in Numbers : numberExpiry[m][d] \in Nat /\ numberExpiry'[m][d] \in Nat
        /\ \A h \in Gateways : trunkExpiry[h][d] \in Nat /\ trunkExpiry'[h][d] \in Nat
    BY DEF TypeOK
  <1>2. /\ Live(d) <=> callExpiry[d] > now
        /\ Live(d)' <=> callExpiry'[d] > now
        /\ Live(d)' <=> Live(d)
    BY <1>1 DEF Untouched, Live
  <1>3. calls'[d] # NoLease <=> callExpiry'[d] # NoScore
    BY DEF Untouched
  <1>4. ASSUME Live(d)'
        PROVE  /\ trunkExpiry'[calls'[d].gateway][d] = callExpiry'[d]
               /\ calls'[d].number # NoNumber =>
                    numberExpiry'[calls'[d].number][d] = callExpiry'[d]
    <2>1. calls'[d] = calls[d] /\ callExpiry'[d] = callExpiry[d] /\ callExpiry[d] > now
      BY <1>2, <1>4 DEF Untouched
    <2>2. calls[d] \in Leases
      BY <1>1, <2>1 DEF KeysAgreeFor, NoScore
    <2>3. calls[d].gateway \in Gateways /\ calls[d].number \in Numbers \cup {NoNumber}
      BY <2>2 DEF Leases, CallerNumbers
    <2>4. /\ trunkExpiry[calls[d].gateway][d] = callExpiry[d]
          /\ calls[d].number # NoNumber =>
               numberExpiry[calls[d].number][d] = callExpiry[d]
      BY <1>2, <1>4 DEF KeysAgreeFor
    <2> QED
      BY <2>1, <2>3, <2>4 DEF Untouched
  <1>5. ASSUME NEW m \in Numbers, numberExpiry'[m][d] > now'
        PROVE  Live(d)' /\ calls'[d].number = m
    <2>1. numberExpiry[m][d] > now
      BY <1>1, <1>5 DEF Untouched
    <2> QED
      BY <1>2, <2>1 DEF KeysAgreeFor, Untouched
  <1>6. ASSUME NEW h \in Gateways, trunkExpiry'[h][d] > now'
        PROVE  Live(d)' /\ calls'[d].gateway = h
    <2>1. trunkExpiry[h][d] > now
      BY <1>1, <1>6 DEF Untouched
    <2> QED
      BY <1>2, <2>1 DEF KeysAgreeFor, Untouched
  <1> QED
    BY <1>3, <1>4, <1>5, <1>6 DEF KeysAgreeFor

(* A granted or renewed lease: its keys agree whatever they were before.   *)
LEMMA HolderAgrees ==
  ASSUME LeaseAssumption, TypeOK, TypeOK', now' = now, NEW c \in Calls,
         NEW n \in CallerNumbers, NEW g \in Gateways, NEW e, HoldsOnly(c, n, g, e)
  PROVE  KeysAgreeFor(c)'
  <1>1. now \in Nat \ {0} /\ callExpiry'[c] = e /\ e \in Nat /\ e > now
    BY DEF TypeOK, HoldsOnly
  <1>2. calls'[c] = Lease(n, g) /\ Lease(n, g) # NoLease
    BY DEF HoldsOnly, LeaseAssumption, Lease, Leases
  <1>3. Lease(n, g).number = n /\ Lease(n, g).gateway = g
    BY DEF Lease
  <1>4. Live(c)'
    BY <1>1 DEF Live
  <1>5. /\ \A m \in Numbers : numberExpiry'[m][c] \in Nat
        /\ \A h \in Gateways : trunkExpiry'[h][c] \in Nat
    BY DEF TypeOK
  <1>6. trunkExpiry'[g][c] = e /\ (n # NoNumber => numberExpiry'[n][c] = e)
    BY DEF HoldsOnly, CallerNumbers
  <1>7. \A m \in Numbers : numberExpiry'[m][c] > now' => m = n
    BY <1>1, <1>5 DEF HoldsOnly
  <1>8. \A h \in Gateways : trunkExpiry'[h][c] > now' => h = g
    BY <1>1, <1>5 DEF HoldsOnly
  <1> QED
    BY <1>1, <1>2, <1>3, <1>4, <1>6, <1>7, <1>8 DEF KeysAgreeFor, NoScore

(* A released or expired lease leaves no key behind that disagrees.        *)
LEMMA GoneAgrees ==
  ASSUME TypeOK, TypeOK', now' = now, NEW c \in Calls, HoldsNothing(c)
  PROVE  KeysAgreeFor(c)'
  <1>1. now \in Nat \ {0} /\ callExpiry'[c] = NoScore /\ calls'[c] = NoLease
    BY DEF TypeOK, HoldsNothing
  <1>2. ~Live(c)'
    BY <1>1 DEF Live, NoScore
  <1>3. /\ \A m \in Numbers : numberExpiry'[m][c] \in Nat
        /\ \A h \in Gateways : trunkExpiry'[h][c] \in Nat
    BY DEF TypeOK
  <1>4. /\ \A m \in Numbers : ~(numberExpiry'[m][c] > now')
        /\ \A h \in Gateways : ~(trunkExpiry'[h][c] > now')
    BY <1>1, <1>3 DEF HoldsNothing
  <1> QED
    BY <1>1, <1>2, <1>4 DEF KeysAgreeFor

(* Expiry alone keeps the agreement: the three scores of a lease are the   *)
(* same, so they expire together.                                          *)
LEMMA TickAgrees ==
  ASSUME LeaseAssumption, TypeOK, NEW d \in Calls, KeysAgreeFor(d), Tick
  PROVE  KeysAgreeFor(d)'
  <1>1. /\ now \in Nat /\ now' = now + 1
        /\ calls' = calls /\ callExpiry' = callExpiry
        /\ numberExpiry' = numberExpiry /\ trunkExpiry' = trunkExpiry
    BY DEF Tick, TypeOK, store
  <1>2. /\ callExpiry[d] \in Nat
        /\ calls[d] \in Leases \cup {NoLease}
        /\ \A m \in Numbers : numberExpiry[m][d] \in Nat
        /\ \A h \in Gateways : trunkExpiry[h][d] \in Nat
    BY DEF TypeOK
  <1>3. /\ Live(d) <=> callExpiry[d] > now
        /\ Live(d)' <=> callExpiry[d] > now + 1
    BY <1>1 DEF Live
  <1>4. ASSUME NEW m \in Numbers, numberExpiry[m][d] > now + 1
        PROVE  Live(d)' /\ calls[d].number = m
    <2>1. Live(d) /\ calls[d].number = m
      BY <1>1, <1>2, <1>4 DEF KeysAgreeFor
    <2>2. numberExpiry[m][d] = callExpiry[d]
      BY <2>1 DEF KeysAgreeFor, LeaseAssumption
    <2> QED
      BY <1>3, <1>4, <2>1, <2>2
  <1>5. ASSUME NEW h \in Gateways, trunkExpiry[h][d] > now + 1
        PROVE  Live(d)' /\ calls[d].gateway = h
    <2>1. Live(d) /\ calls[d].gateway = h
      BY <1>1, <1>2, <1>5 DEF KeysAgreeFor
    <2>2. trunkExpiry[h][d] = callExpiry[d]
      BY <2>1 DEF KeysAgreeFor
    <2> QED
      BY <1>3, <1>5, <2>1, <2>2
  <1>6. Live(d)' => Live(d)
    BY <1>1, <1>2, <1>3
  <1> QED
    BY <1>1, <1>4, <1>5, <1>6 DEF KeysAgreeFor
-----------------------------------------------------------------------------
(* If only c changed, no other call became live anywhere.                  *)
LEMMA OnlyMayGain ==
  ASSUME TypeOK, TypeOK', now' = now, NEW c \in Calls,
         \A d \in Calls \ {c} : Untouched(d)
  PROVE  /\ \A m \in Numbers :
              LiveIn(numberExpiry[m])' \subseteq LiveIn(numberExpiry[m]) \cup {c}
         /\ \A h \in Gateways :
              LiveIn(trunkExpiry[h])' \subseteq LiveIn(trunkExpiry[h]) \cup {c}
  <1>1. now \in Nat
    BY DEF TypeOK
  <1>2. ASSUME NEW m \in Numbers, NEW d \in Calls \ {c}, numberExpiry'[m][d] > now
        PROVE  numberExpiry[m][d] > now
    <2>1. numberExpiry[m][d] \in Nat /\ numberExpiry'[m][d] \in Nat
      BY DEF TypeOK
    <2> QED
      BY <1>1, <1>2, <2>1 DEF Untouched
  <1>3. ASSUME NEW h \in Gateways, NEW d \in Calls \ {c}, trunkExpiry'[h][d] > now
        PROVE  trunkExpiry[h][d] > now
    <2>1. trunkExpiry[h][d] \in Nat /\ trunkExpiry'[h][d] \in Nat
      BY DEF TypeOK
    <2> QED
      BY <1>1, <1>3, <2>1 DEF Untouched
  <1> QED
    BY <1>2, <1>3 DEF LiveIn

(* When no call became live anywhere, no limit is passed.                  *)
LEMMA CapacityOfFewer ==
  ASSUME LeaseAssumption, CapacityRespected,
         \A m \in Numbers : LiveIn(numberExpiry[m])' \subseteq LiveIn(numberExpiry[m]),
         \A h \in Gateways : LiveIn(trunkExpiry[h])' \subseteq LiveIn(trunkExpiry[h])
  PROVE  CapacityRespected'
  <1>1. ASSUME NEW m \in Numbers, NumberMax[m] > 0
        PROVE  Cardinality(LiveIn(numberExpiry[m])') <= NumberMax[m]
    <2>1. /\ LiveIn(numberExpiry[m]) \in SUBSET Calls
          /\ NumberMax[m] \in Nat
          /\ Cardinality(LiveIn(numberExpiry[m])) <= NumberMax[m]
      BY <1>1 DEF CapacityRespected, LeaseAssumption, LiveIn
    <2> QED
      BY <2>1, FewerLive
  <1>2. ASSUME NEW h \in Gateways, TrunkMax[h] > 0
        PROVE  Cardinality(LiveIn(trunkExpiry[h])') <= TrunkMax[h]
    <2>1. /\ LiveIn(trunkExpiry[h]) \in SUBSET Calls
          /\ TrunkMax[h] \in Nat
          /\ Cardinality(LiveIn(trunkExpiry[h])) <= TrunkMax[h]
      BY <1>2 DEF CapacityRespected, LeaseAssumption, LiveIn
    <2> QED
      BY <2>1, FewerLive
  <1> QED
    BY <1>1, <1>2 DEF CapacityRespected

(* A grant passes no limit: the call was counted already, or the counts of *)
(* its number and its trunk were below their limits.                       *)
LEMMA CapacityOfGrant ==
  ASSUME LeaseAssumption, IInv,
         NEW c \in Calls, NEW n \in CallerNumbers, NEW g \in Gateways,
         AcquireGranted(c, n, g)
  PROVE  CapacityRespected'
  <1> DEFINE e == AcquireExpiry(c, n, g)
  <1>i. TypeOK /\ KeysAgree /\ CapacityRespected
    BY DEF IInv
  <1>1. /\ TypeOK' /\ now' = now
        /\ HoldsOnly(c, n, g, e)
        /\ Live(c) => calls[c] = Lease(n, g)
        /\ ~Live(c) => ~NumberFull(n) /\ ~TrunkFull(g)
        /\ \A d \in Calls \ {c} : Untouched(d)
    BY <1>i, GrantedEffect
  <1>2. /\ \A m \in Numbers :
             LiveIn(numberExpiry[m])' \subseteq LiveIn(numberExpiry[m]) \cup {c}
        /\ \A h \in Gateways :
             LiveIn(trunkExpiry[h])' \subseteq LiveIn(trunkExpiry[h]) \cup {c}
    BY <1>i, <1>1, OnlyMayGain
  <1>3. /\ now \in Nat
        /\ \A m \in Numbers : numberExpiry[m] \in Scores
        /\ \A h \in Gateways : trunkExpiry[h] \in Scores
        /\ \A m \in Numbers, d \in Calls : numberExpiry'[m][d] \in Nat
        /\ \A h \in Gateways, d \in Calls : trunkExpiry'[h][d] \in Nat
        /\ TTL \in Nat
    BY <1>i, <1>1 DEF TypeOK, Scores, LeaseAssumption
  <1>4. ASSUME NEW m \in Numbers, NumberMax[m] > 0
        PROVE  Cardinality(LiveIn(numberExpiry[m])') <= NumberMax[m]
    <2> DEFINE S == LiveIn(numberExpiry[m])
    <2>1. S \in SUBSET Calls /\ NumberMax[m] \in Nat /\ Cardinality(S) <= NumberMax[m]
      BY <1>i, <1>4 DEF CapacityRespected, LeaseAssumption, LiveIn
    <2>2. CASE m # n
      <3>1. c \notin LiveIn(numberExpiry[m])'
        BY <1>1, <1>3, <2>2 DEF LiveIn, HoldsOnly
      <3>2. LiveIn(numberExpiry[m])' \subseteq S
        BY <1>2, <3>1
      <3> QED
        BY <2>1, <3>2, FewerLive
    <2>3. CASE m = n /\ Live(c)
      <3>1. calls[c].number = m
        BY <1>1, <2>3 DEF Lease
      <3>2. numberExpiry[m][c] = callExpiry[c]
        BY <1>i, <2>3, <3>1 DEF KeysAgree, KeysAgreeFor, LeaseAssumption
      <3>3. c \in S
        BY <2>3, <3>2 DEF LiveIn, Live
      <3>4. LiveIn(numberExpiry[m])' \subseteq S
        BY <1>2, <3>3
      <3> QED
        BY <2>1, <3>4, FewerLive
    <2>4. CASE m = n /\ ~Live(c)
      <3>1. NumberScores(m) = numberExpiry[m]
        BY DEF NumberScores, LeaseAssumption
      <3>2. ~(ZCard(Purged(numberExpiry[m])) >= NumberMax[m])
        BY <1>1, <1>4, <2>4, <3>1 DEF NumberFull, LeaseAssumption
      <3>3. ZCard(Purged(numberExpiry[m])) = Cardinality(S)
        BY <1>3, PurgedCount
      <3>4. Cardinality(S \cup {c}) <= NumberMax[m]
        BY <2>1, <3>2, <3>3, OneMore
      <3>5. S \cup {c} \in SUBSET Calls /\ LiveIn(numberExpiry[m])' \in SUBSET (S \cup {c})
        BY <1>2, <2>1
      <3> QED
        BY <2>1, <3>4, <3>5, FewerLive
    <2> QED
      BY <2>2, <2>3, <2>4
  <1>5. ASSUME NEW h \in Gateways, TrunkMax[h] > 0
        PROVE  Cardinality(LiveIn(trunkExpiry[h])') <= TrunkMax[h]
    <2> DEFINE S == LiveIn(trunkExpiry[h])
    <2>1. S \in SUBSET Calls /\ TrunkMax[h] \in Nat /\ Cardinality(S) <= TrunkMax[h]
      BY <1>i, <1>5 DEF CapacityRespected, LeaseAssumption, LiveIn
    <2>2. CASE h # g
      <3>1. c \notin LiveIn(trunkExpiry[h])'
        BY <1>1, <1>3, <2>2 DEF LiveIn, HoldsOnly
      <3>2. LiveIn(trunkExpiry[h])' \subseteq S
        BY <1>2, <3>1
      <3> QED
        BY <2>1, <3>2, FewerLive
    <2>3. CASE h = g /\ Live(c)
      <3>1. calls[c].gateway = h
        BY <1>1, <2>3 DEF Lease
      <3>2. trunkExpiry[h][c] = callExpiry[c]
        BY <1>i, <2>3, <3>1 DEF KeysAgree, KeysAgreeFor
      <3>3. c \in S
        BY <2>3, <3>2 DEF LiveIn, Live
      <3>4. LiveIn(trunkExpiry[h])' \subseteq S
        BY <1>2, <3>3
      <3> QED
        BY <2>1, <3>4, FewerLive
    <2>4. CASE h = g /\ ~Live(c)
      <3>2. ~(ZCard(Purged(trunkExpiry[h])) >= TrunkMax[h])
        BY <1>1, <1>5, <2>4 DEF TrunkFull
      <3>3. ZCard(Purged(trunkExpiry[h])) = Cardinality(S)
        BY <1>3, PurgedCount
      <3>4. Cardinality(S \cup {c}) <= TrunkMax[h]
        BY <2>1, <3>2, <3>3, OneMore
      <3>5. S \cup {c} \in SUBSET Calls /\ LiveIn(trunkExpiry[h])' \in SUBSET (S \cup {c})
        BY <1>2, <2>1
      <3> QED
        BY <2>1, <3>4, <3>5, FewerLive
    <2> QED
      BY <2>2, <2>3, <2>4
  <1> QED
    BY <1>4, <1>5 DEF CapacityRespected
-----------------------------------------------------------------------------
(* The keys agree after a step in which c alone may have changed.          *)
LEMMA AllAgree ==
  ASSUME TypeOK, TypeOK', now' = now, KeysAgree, NEW c \in Calls,
         KeysAgreeFor(c)', \A d \in Calls \ {c} : Untouched(d)
  PROVE  KeysAgree'
  <1>1. ASSUME NEW d \in Calls \ {c}
        PROVE  KeysAgreeFor(d)'
    BY UntouchedAgrees DEF KeysAgree
  <1> QED
    BY <1>1 DEF KeysAgree

(* A release, and the end of an expired lease, keep the invariant.         *)
LEMMA ForgetIInv ==
  ASSUME LeaseAssumption, IInv,
         NEW c \in Calls, NEW n \in CallerNumbers, NEW g \in Gateways,
         calls[c] = Lease(n, g), Forget(c, n, g)
  PROVE  IInv'
  <1>1. TypeOK /\ KeysAgree /\ CapacityRespected
    BY DEF IInv
  <1>2. /\ TypeOK' /\ now' = now
        /\ HoldsNothing(c)
        /\ \A d \in Calls \ {c} : Untouched(d)
    BY <1>1, ForgottenEffect
  <1>3. KeysAgree'
    BY <1>1, <1>2, GoneAgrees, AllAgree
  <1>4. /\ \A m \in Numbers :
             LiveIn(numberExpiry[m])' \subseteq LiveIn(numberExpiry[m]) \cup {c}
        /\ \A h \in Gateways :
             LiveIn(trunkExpiry[h])' \subseteq LiveIn(trunkExpiry[h]) \cup {c}
    BY <1>1, <1>2, OnlyMayGain
  <1>5. /\ \A m \in Numbers : c \notin LiveIn(numberExpiry[m])'
        /\ \A h \in Gateways : c \notin LiveIn(trunkExpiry[h])'
    <2>1. /\ now \in Nat
          /\ \A m \in Numbers : numberExpiry'[m][c] \in Nat
          /\ \A h \in Gateways : trunkExpiry'[h][c] \in Nat
      BY <1>1, <1>2 DEF TypeOK
    <2> QED
      BY <1>2, <2>1 DEF HoldsNothing, LiveIn
  <1>6. CapacityRespected'
    BY <1>1, <1>4, <1>5, CapacityOfFewer
  <1> QED
    BY <1>2, <1>3, <1>6 DEF IInv

(* So does a renewal: who is renewed was counted already.                  *)
LEMMA RenewIInv ==
  ASSUME LeaseAssumption, IInv,
         NEW c \in Calls, NEW n \in CallerNumbers, NEW g \in Gateways,
         RenewLive(c, n, g)
  PROVE  IInv'
  <1>1. TypeOK /\ KeysAgree /\ CapacityRespected
    BY DEF IInv
  <1>2. /\ TypeOK' /\ now' = now
        /\ HoldsOnly(c, n, g, RenewalExpiry(c, n, g))
        /\ \A d \in Calls \ {c} : Untouched(d)
    BY <1>1, RenewedEffect
  <1>3. KeysAgree'
    BY <1>1, <1>2, HolderAgrees, AllAgree
  <1>4. /\ \A m \in Numbers :
             LiveIn(numberExpiry[m])' \subseteq LiveIn(numberExpiry[m]) \cup {c}
        /\ \A h \in Gateways :
             LiveIn(trunkExpiry[h])' \subseteq LiveIn(trunkExpiry[h]) \cup {c}
    BY <1>1, <1>2, OnlyMayGain
  <1>5. /\ now \in Nat
        /\ \A m \in Numbers : numberExpiry'[m][c] \in Nat
        /\ \A h \in Gateways : trunkExpiry'[h][c] \in Nat
    BY <1>1, <1>2 DEF TypeOK
  <1>6. ASSUME NEW m \in Numbers, c \in LiveIn(numberExpiry[m])'
        PROVE  c \in LiveIn(numberExpiry[m])
    <2>1. m = n
      BY <1>2, <1>5, <1>6 DEF HoldsOnly, LiveIn
    <2>2. m # NoNumber
      BY DEF LeaseAssumption
    <2> QED
      BY <2>1, <2>2 DEF RenewLive, StillLive, LiveIn
  <1>7. ASSUME NEW h \in Gateways, c \in LiveIn(trunkExpiry[h])'
        PROVE  c \in LiveIn(trunkExpiry[h])
    <2>1. h = g
      BY <1>2, <1>5, <1>7 DEF HoldsOnly, LiveIn
    <2> QED
      BY <2>1 DEF RenewLive, StillLive, LiveIn
  <1>8. CapacityRespected'
    BY <1>1, <1>4, <1>6, <1>7, CapacityOfFewer
  <1> QED
    BY <1>2, <1>3, <1>8 DEF IInv

(* So does a refusal: it only purges.                                      *)
LEMMA RefusedIInv ==
  ASSUME LeaseAssumption, IInv,
         NEW c \in Calls, NEW n \in CallerNumbers, NEW g \in Gateways,
         AcquireRefused(c, n, g)
  PROVE  IInv'
  <1>1. TypeOK /\ KeysAgree /\ CapacityRespected
    BY DEF IInv
  <1>2. /\ TypeOK' /\ now' = now
        /\ \A d \in Calls : Untouched(d)
    BY <1>1, RefusedEffect
  <1>3. KeysAgree'
    BY <1>1, <1>2, UntouchedAgrees DEF KeysAgree
  <1>4. /\ now \in Nat
        /\ \A m \in Numbers, d \in Calls :
             numberExpiry[m][d] \in Nat /\ numberExpiry'[m][d] \in Nat
        /\ \A h \in Gateways, d \in Calls :
             trunkExpiry[h][d] \in Nat /\ trunkExpiry'[h][d] \in Nat
    BY <1>1, <1>2 DEF TypeOK
  <1>5. ASSUME NEW m \in Numbers, NEW d \in Calls, numberExpiry'[m][d] > now
        PROVE  numberExpiry[m][d] > now
    BY <1>2, <1>4, <1>5 DEF Untouched
  <1>6. ASSUME NEW h \in Gateways, NEW d \in Calls, trunkExpiry'[h][d] > now
        PROVE  trunkExpiry[h][d] > now
    BY <1>2, <1>4, <1>6 DEF Untouched
  <1>7. CapacityRespected'
    <2>1. /\ \A m \in Numbers : LiveIn(numberExpiry[m])' \subseteq LiveIn(numberExpiry[m])
          /\ \A h \in Gateways : LiveIn(trunkExpiry[h])' \subseteq LiveIn(trunkExpiry[h])
      BY <1>2, <1>5, <1>6 DEF LiveIn
    <2> QED
      BY <1>1, <2>1, CapacityOfFewer
  <1> QED
    BY <1>2, <1>3, <1>7 DEF IInv

(* So does the clock.                                                      *)
LEMMA TickIInv ==
  ASSUME LeaseAssumption, IInv, Tick
  PROVE  IInv'
  <1>1. TypeOK /\ KeysAgree /\ CapacityRespected
    BY DEF IInv
  <1>2. /\ now \in Nat \ {0} /\ now' = now + 1 /\ TTL \in Nat
        /\ calls' = calls /\ callExpiry' = callExpiry
        /\ numberExpiry' = numberExpiry /\ trunkExpiry' = trunkExpiry
    BY <1>1 DEF Tick, TypeOK, LeaseAssumption, store
  <1>3. TypeOK'
    <2>1. 0..(now + TTL) \subseteq 0..(now' + TTL)
      BY <1>2
    <2>2. /\ callExpiry' \in [Calls -> 0..(now' + TTL)]
          /\ numberExpiry' \in [Numbers -> [Calls -> 0..(now' + TTL)]]
          /\ trunkExpiry' \in [Gateways -> [Calls -> 0..(now' + TTL)]]
      BY <1>1, <1>2, <2>1 DEF TypeOK
    <2> QED
      BY <1>1, <1>2, <2>2 DEF TypeOK
  <1>4. KeysAgree'
    BY <1>1, TickAgrees DEF KeysAgree
  <1>5. /\ \A m \in Numbers, d \in Calls : numberExpiry[m][d] \in Nat
        /\ \A h \in Gateways, d \in Calls : trunkExpiry[h][d] \in Nat
    BY <1>1 DEF TypeOK
  <1>6. /\ \A m \in Numbers : LiveIn(numberExpiry[m])' \subseteq LiveIn(numberExpiry[m])
        /\ \A h \in Gateways : LiveIn(trunkExpiry[h])' \subseteq LiveIn(trunkExpiry[h])
    BY <1>2, <1>5 DEF LiveIn
  <1>7. CapacityRespected'
    BY <1>1, <1>6, CapacityOfFewer
  <1> QED
    BY <1>3, <1>4, <1>7 DEF IInv

(* And so does everything the store can do.                                *)
LEMMA StepIInv ==
  ASSUME LeaseAssumption, IInv, [Next]_vars
  PROVE  IInv'
  <1>1. ASSUME NEW c \in Calls, NEW n \in CallerNumbers, NEW g \in Gateways,
               AcquireGranted(c, n, g)
        PROVE  IInv'
    <2>1. TypeOK /\ KeysAgree
      BY DEF IInv
    <2>2. /\ TypeOK' /\ now' = now
          /\ HoldsOnly(c, n, g, AcquireExpiry(c, n, g))
          /\ \A d \in Calls \ {c} : Untouched(d)
      BY <1>1, <2>1, GrantedEffect
    <2>3. KeysAgree'
      BY <2>1, <2>2, HolderAgrees, AllAgree
    <2> QED
      BY <1>1, <2>2, <2>3, CapacityOfGrant DEF IInv
  <1>2. ASSUME NEW c \in Calls, NEW n \in CallerNumbers, NEW g \in Gateways,
               RenewExpired(c, n, g) \/ Release(c, n, g)
        PROVE  IInv'
    BY <1>2, ForgetIInv DEF RenewExpired, Release
  <1>3. CASE UNCHANGED vars
    BY <1>3 DEF vars, store, IInv, TypeOK, KeysAgree, KeysAgreeFor,
                CapacityRespected, Live, LiveIn
  <1> QED
    BY <1>1, <1>2, <1>3, RefusedIInv, RenewIInv, TickIInv DEF Next, Script
(* The invariant holds in every state the scripts of all nodes can reach.  *)
THEOREM InvariantHolds == Spec => []IInv
  <1>1. Init => IInv
    BY LeaseAssumption, InitIInv
  <1>2. IInv /\ [Next]_vars => IInv'
    BY LeaseAssumption, StepIInv
  <1> QED
    BY <1>1, <1>2, PTL DEF Spec

(* Expiries stay within one TTL of the clock, whatever nodes call.         *)
THEOREM TypeCorrect == Spec => []TypeOK
  <1>1. IInv => TypeOK
    BY DEF IInv
  <1> QED
    BY <1>1, InvariantHolds, PTL

(* The hash and the three sorted sets always agree about live leases.      *)
THEOREM KeysAlwaysAgree == Spec => []KeysAgree
  <1>1. IInv => KeysAgree
    BY DEF IInv
  <1> QED
    BY <1>1, InvariantHolds, PTL

(* "The capacity of a number and a trunk is acquired atomically": no       *)
(* number and no trunk ever carries more live leases than its limit.       *)
THEOREM CapacityNeverExceeded == Spec => []CapacityRespected
  <1>1. IInv => CapacityRespected
    BY DEF IInv
  <1> QED
    BY <1>1, InvariantHolds, PTL

(* An expired lease never makes ACQUIRE_SCRIPT answer call_conflict.       *)
THEOREM NobodyBlocked == Spec => []ExpiredBlocksNobody
  <1>1. ASSUME IInv, NEW c \in Calls, NEW n \in CallerNumbers, NEW g \in Gateways,
               ~Live(c)
        PROVE  AcquireReply(c, n, g) # "call_conflict"
    <2>1. PurgedCalls[c] = NoLease
      BY <1>1, PurgedHash DEF IInv
    <2> QED
      BY <2>1 DEF AcquireReply
  <1>2. IInv => ExpiredBlocksNobody
    BY <1>1 DEF ExpiredBlocksNobody
  <1> QED
    BY <1>2, InvariantHolds, PTL

-----------------------------------------------------------------------------
(* A call that stays live keeps its expiry or gets a later one.            *)
LEMMA StepExtends ==
  ASSUME LeaseAssumption, IInv, [Next]_vars,
         NEW d \in Calls, Live(d), Live(d)'
  PROVE  callExpiry'[d] >= callExpiry[d]
  <1>1. TypeOK /\ KeysAgree
    BY DEF IInv
  <1>2. callExpiry[d] \in Nat /\ now \in Nat
    BY <1>1 DEF TypeOK
  <1>3. Untouched(d) => callExpiry'[d] >= callExpiry[d]
    BY <1>2 DEF Untouched
  <1>4. ASSUME NEW c \in Calls, NEW n \in CallerNumbers, NEW g \in Gateways,
               AcquireGranted(c, n, g)
        PROVE  callExpiry'[d] >= callExpiry[d]
    BY <1>1, <1>3, <1>4, GrantedEffect DEF HoldsOnly
  <1>5. ASSUME NEW c \in Calls, NEW n \in CallerNumbers, NEW g \in Gateways,
               RenewLive(c, n, g)
        PROVE  callExpiry'[d] >= callExpiry[d]
    BY <1>1, <1>3, <1>5, RenewedEffect DEF HoldsOnly
  <1>6. ASSUME NEW c \in Calls, NEW n \in CallerNumbers, NEW g \in Gateways,
               AcquireRefused(c, n, g)
        PROVE  callExpiry'[d] >= callExpiry[d]
    BY <1>1, <1>3, <1>6, RefusedEffect
  <1>7. ASSUME NEW c \in Calls, NEW n \in CallerNumbers, NEW g \in Gateways,
               RenewExpired(c, n, g) \/ Release(c, n, g)
        PROVE  callExpiry'[d] >= callExpiry[d]
    <2>1. /\ TypeOK' /\ now' = now
          /\ HoldsNothing(c)
          /\ \A b \in Calls \ {c} : Untouched(b)
      BY <1>1, <1>7, ForgottenEffect DEF RenewExpired, Release
    <2>2. d # c
      BY <1>2, <2>1 DEF HoldsNothing, Live, NoScore
    <2> QED
      BY <1>3, <2>1, <2>2
  <1>8. CASE Tick \/ UNCHANGED vars
    BY <1>2, <1>8 DEF Tick, vars, store
  <1> QED
    BY <1>4, <1>5, <1>6, <1>7, <1>8 DEF Next, Script

(* "Renewal never shortens an existing lease", for every script.           *)
THEOREM LeaseNeverShortened == Spec => NeverShortened
  <1>1. IInv /\ [Next]_vars =>
          [\A c \in Calls : Live(c) /\ Live(c)' => callExpiry'[c] >= callExpiry[c]]_vars
    BY LeaseAssumption, StepExtends
  <1> QED
    BY <1>1, InvariantHolds, PTL DEF Spec, NeverShortened
-----------------------------------------------------------------------------
(* What an effect on one call means for what it holds.                     *)
LEMMA HoldingAfter ==
  ASSUME TypeOK, TypeOK', now' = now, NEW d \in Calls
  PROVE  /\ Untouched(d) => Holding'[d] = Holding[d]
         /\ HoldsNothing(d) => Holding'[d] = {}
         /\ \A n, g, e : HoldsOnly(d, n, g, e) => Holding'[d] = Needs(Lease(n, g))
  <1>1. /\ now \in Nat \ {0} /\ callExpiry[d] \in Nat /\ callExpiry'[d] \in Nat
    BY DEF TypeOK
  <1>2. /\ Holding[d] = IF callExpiry[d] > now THEN Needs(calls[d]) ELSE {}
        /\ Holding'[d] = IF callExpiry'[d] > now THEN Needs(calls'[d]) ELSE {}
    BY DEF Holding, Live, Needs
  <1>3. Untouched(d) => Holding'[d] = Holding[d]
    BY <1>1, <1>2 DEF Untouched, Live
  <1>4. HoldsNothing(d) => Holding'[d] = {}
    BY <1>1, <1>2 DEF HoldsNothing, NoScore
  <1>5. \A n, g, e : HoldsOnly(d, n, g, e) => Holding'[d] = Needs(Lease(n, g))
    BY <1>1, <1>2 DEF HoldsOnly
  <1> QED
    BY <1>3, <1>4, <1>5

(* Holding is a function on the calls, before and after a step.            *)
LEMMA HoldingFunction ==
  /\ Holding = [d \in Calls |-> Holding[d]]
  /\ Holding' = [d \in Calls |-> Holding'[d]]
  BY DEF Holding

(* The holders of a number or of a trunk are the live members of its set,  *)
(* so the count the script compares is the count the promise is about.     *)
LEMMA HoldersCounted ==
  ASSUME LeaseAssumption, TypeOK, KeysAgree
  PROVE  /\ \A n \in Numbers : CL!Holders(NumberResource(n)) = LiveIn(numberExpiry[n])
         /\ \A g \in Gateways : CL!Holders(TrunkResource(g)) = LiveIn(trunkExpiry[g])
  <1>1. ASSUME NEW d \in Calls
        PROVE  /\ now \in Nat
               /\ \A n \in Numbers : numberExpiry[n][d] \in Nat
               /\ \A g \in Gateways : trunkExpiry[g][d] \in Nat
               /\ Live(d) => calls[d].gateway \in Gateways
               /\ Live(d) => calls[d].number \in Numbers \cup {NoNumber}
               /\ Live(d) => callExpiry[d] > now
    BY DEF TypeOK, KeysAgree, KeysAgreeFor, Live, NoScore, Leases, CallerNumbers
  <1>2. ASSUME NEW n \in Numbers, NEW d \in Calls
        PROVE  NumberResource(n) \in Holding[d] <=> numberExpiry[n][d] > now
    <2>1. NumberResource(n) \in Holding[d] <=> Live(d) /\ calls[d].number = n
      BY DEF Holding, Needs, NumberResource, TrunkResource, LeaseAssumption
    <2> QED
      BY <1>1, <2>1 DEF KeysAgree, KeysAgreeFor, LeaseAssumption
  <1>3. ASSUME NEW g \in Gateways, NEW d \in Calls
        PROVE  TrunkResource(g) \in Holding[d] <=> trunkExpiry[g][d] > now
    <2>1. TrunkResource(g) \in Holding[d] <=> Live(d) /\ calls[d].gateway = g
      BY DEF Holding, Needs, NumberResource, TrunkResource
    <2> QED
      BY <1>1, <2>1 DEF KeysAgree, KeysAgreeFor
  <1> QED
    BY <1>2, <1>3 DEF CL!Holders, LiveIn

(* The instance of CapacityLease counts as this module does.               *)
LEMMA SameCount == \A S : CL!Cardinality(S) = Cardinality(S)
  BY DEF CL!Cardinality, Cardinality, CL!IsFiniteSet, IsFiniteSet

(* A new grant is a Take of the abstract specification.                    *)
LEMMA GrantTakes ==
  ASSUME LeaseAssumption, IInv,
         NEW c \in Calls, NEW n \in CallerNumbers, NEW g \in Gateways,
         AcquireGranted(c, n, g)
  PROVE  [CL!Next]_Holding
  <1>1. TypeOK /\ KeysAgree
    BY DEF IInv
  <1>2. /\ TypeOK' /\ now' = now
        /\ HoldsOnly(c, n, g, AcquireExpiry(c, n, g))
        /\ Live(c) => calls[c] = Lease(n, g)
        /\ ~Live(c) => ~NumberFull(n) /\ ~TrunkFull(g)
        /\ \A d \in Calls \ {c} : Untouched(d)
    BY <1>1, GrantedEffect
  <1> DEFINE wanted == Needs(Lease(n, g))
  <1>3. /\ Holding'[c] = wanted
        /\ \A d \in Calls \ {c} : Holding'[d] = Holding[d]
    BY <1>1, <1>2, HoldingAfter
  <1>4. CASE Live(c)
    <2>1. Holding[c] = wanted
      BY <1>2, <1>4 DEF Holding
    <2>2. \A d \in Calls : Holding'[d] = Holding[d]
      BY <1>3, <2>1
    <2> QED
      BY <2>2, HoldingFunction
  <1>5. CASE ~Live(c)
    <2>1. Holding[c] = {}
      BY <1>5 DEF Holding
    <2>2. wanted \in SUBSET Resources
      BY DEF Needs, Lease, Resources, NumberResource, TrunkResource, CallerNumbers
    <2>3. /\ now \in Nat /\ TTL \in Nat
          /\ \A m \in Numbers : numberExpiry[m] \in Scores
          /\ \A h \in Gateways : trunkExpiry[h] \in Scores
      BY <1>1 DEF TypeOK, Scores, LeaseAssumption
    <2>4. CL!HasRoom(TrunkResource(g))
      <3>1. TrunkResource(g) \in Resources /\ Limit[TrunkResource(g)] = TrunkMax[g]
        BY DEF Limit, Resources, TrunkResource
      <3>2. CL!Holders(TrunkResource(g)) = LiveIn(trunkExpiry[g])
        BY <1>1, HoldersCounted
      <3>3. ZCard(Purged(trunkExpiry[g])) = Cardinality(LiveIn(trunkExpiry[g]))
        BY <2>3, PurgedCount
      <3>4. Cardinality(LiveIn(trunkExpiry[g])) \in Nat
        BY FS_Subset, FS_CardinalityType DEF LiveIn, LeaseAssumption
      <3>5. TrunkMax[g] \in Nat
        BY DEF LeaseAssumption
      <3>6. TrunkMax[g] > 0 => ~(ZCard(Purged(trunkExpiry[g])) >= TrunkMax[g])
        BY <1>2, <1>5 DEF TrunkFull
      <3>7. TrunkMax[g] > 0 => Cardinality(LiveIn(trunkExpiry[g])) < TrunkMax[g]
        BY <3>3, <3>4, <3>5, <3>6
      <3> QED
        BY <3>1, <3>2, <3>7, SameCount DEF CL!HasRoom
    <2>5. ASSUME n # NoNumber
          PROVE  CL!HasRoom(NumberResource(n))
      <3>1. n \in Numbers
        BY <2>5 DEF CallerNumbers
      <3>2. NumberResource(n) \in Resources /\ Limit[NumberResource(n)] = NumberMax[n]
        BY <3>1 DEF Limit, Resources, NumberResource
      <3>3. CL!Holders(NumberResource(n)) = LiveIn(numberExpiry[n])
        BY <1>1, <3>1, HoldersCounted
      <3>4. ZCard(Purged(numberExpiry[n])) = Cardinality(LiveIn(numberExpiry[n]))
        BY <2>3, <3>1, PurgedCount
      <3>5. Cardinality(LiveIn(numberExpiry[n])) \in Nat
        BY FS_Subset, FS_CardinalityType DEF LiveIn, LeaseAssumption
      <3>6. NumberMax[n] \in Nat
        BY <3>1 DEF LeaseAssumption
      <3>7. NumberMax[n] > 0 => ~(ZCard(Purged(numberExpiry[n])) >= NumberMax[n])
        BY <1>2, <1>5, <2>5 DEF NumberFull, NumberScores
      <3>8. NumberMax[n] > 0 => Cardinality(LiveIn(numberExpiry[n])) < NumberMax[n]
        BY <3>4, <3>5, <3>6, <3>7
      <3> QED
        BY <3>2, <3>3, <3>8, SameCount DEF CL!HasRoom
    <2>6. \A r \in wanted : CL!HasRoom(r)
      BY <2>4, <2>5 DEF Needs, Lease
    <2>7. Holding' = [Holding EXCEPT ![c] = wanted]
      BY <1>3, HoldingFunction
    <2>8. CL!Take(c, wanted)
      BY <2>1, <2>6, <2>7 DEF CL!Take
    <2> QED
      BY <2>2, <2>8 DEF CL!Next
  <1> QED
    BY <1>4, <1>5
(* The end of leases, by release or by time, is a GiveBack.                *)
LEMMA EndsGiveBack ==
  ASSUME NEW dropped \in SUBSET Calls,
         \A d \in dropped : Holding'[d] = {},
         \A d \in Calls \ dropped : Holding'[d] = Holding[d]
  PROVE  [CL!Next]_Holding
  <1>1. Holding' = [d \in Calls |-> IF d \in dropped THEN {} ELSE Holding[d]]
    BY HoldingFunction
  <1>2. CL!GiveBack(dropped)
    BY <1>1 DEF CL!GiveBack
  <1> QED
    BY <1>2 DEF CL!Next

(* Every step of the scripts is a step of the promise, or leaves it alone. *)
LEMMA StepRefines ==
  ASSUME LeaseAssumption, IInv, [Next]_vars
  PROVE  [CL!Next]_Holding
  <1>i. TypeOK /\ KeysAgree
    BY DEF IInv
  <1>1. ASSUME NEW c \in Calls, NEW n \in CallerNumbers, NEW g \in Gateways,
               AcquireRefused(c, n, g)
        PROVE  [CL!Next]_Holding
    <2>1. \A d \in Calls : Holding'[d] = Holding[d]
      BY <1>i, <1>1, RefusedEffect, HoldingAfter
    <2> QED
      BY <2>1, HoldingFunction
  <1>2. ASSUME NEW c \in Calls, NEW n \in CallerNumbers, NEW g \in Gateways,
               RenewLive(c, n, g)
        PROVE  [CL!Next]_Holding
    <2>1. /\ TypeOK' /\ now' = now
          /\ HoldsOnly(c, n, g, RenewalExpiry(c, n, g))
          /\ Live(c) /\ calls[c] = Lease(n, g)
          /\ \A d \in Calls \ {c} : Untouched(d)
      BY <1>i, <1>2, RenewedEffect
    <2>2. Holding[c] = Needs(Lease(n, g))
      BY <2>1 DEF Holding
    <2>3. \A d \in Calls : Holding'[d] = Holding[d]
      BY <1>i, <2>1, <2>2, HoldingAfter
    <2> QED
      BY <2>3, HoldingFunction
  <1>3. ASSUME NEW c \in Calls, NEW n \in CallerNumbers, NEW g \in Gateways,
               RenewExpired(c, n, g) \/ Release(c, n, g)
        PROVE  [CL!Next]_Holding
    <2>1. /\ TypeOK' /\ now' = now
          /\ HoldsNothing(c)
          /\ \A d \in Calls \ {c} : Untouched(d)
      BY <1>i, <1>3, ForgottenEffect DEF RenewExpired, Release
    <2>2. /\ Holding'[c] = {}
          /\ \A d \in Calls \ {c} : Holding'[d] = Holding[d]
      BY <1>i, <2>1, HoldingAfter
    <2>3. {c} \in SUBSET Calls
      OBVIOUS
    <2>4. /\ \A d \in {c} : Holding'[d] = {}
          /\ \A d \in Calls \ {c} : Holding'[d] = Holding[d]
      BY <2>2
    <2> QED
      BY <2>3, <2>4, EndsGiveBack
  <1>4. CASE Tick
    <2> DEFINE dropped == {d \in Calls : ~Live(d)'}
    <2>1. /\ now \in Nat /\ now' = now + 1
          /\ calls' = calls /\ callExpiry' = callExpiry
          /\ \A d \in Calls : callExpiry[d] \in Nat
      BY <1>i, <1>4 DEF Tick, TypeOK, store
    <2>2. \A d \in dropped : Holding'[d] = {}
      BY DEF Holding
    <2>3. \A d \in Calls \ dropped : Holding'[d] = Holding[d]
      BY <2>1 DEF Holding, Live, Needs
    <2> QED
      BY <2>2, <2>3, EndsGiveBack
  <1>5. CASE UNCHANGED vars
    BY <1>5 DEF vars, store, Holding, Live, Needs
  <1> QED
    BY <1>1, <1>2, <1>3, <1>4, <1>5, GrantTakes DEF Next, Script

(* The scripts implement the abstract capacity leases, for any number of   *)
(* calls, numbers, trunks and nodes.                                       *)
THEOREM LeasesImplementCapacity == Spec => ImplementsCapacityLease
  <1>1. Init => CL!Init
    BY DEF Init, CL!Init, Holding, Live, NoScore
  <1>2. IInv /\ [Next]_vars => [CL!Next]_Holding
    BY LeaseAssumption, StepRefines
  <1> QED
    BY <1>1, <1>2, InvariantHolds, PTL DEF Spec, CL!Spec, ImplementsCapacityLease

-----------------------------------------------------------------------------
(* The promise: CapacityLease, for whatever takes and gives back.          *)

(* What CapacityLease assumes, from what the store assumes.                *)
LEMMA PromiseAssumption == CL!CapacityAssumption
  <1>1. Limit \in [Resources -> Nat]
    BY LeaseAssumption DEF LeaseAssumption, Limit, Resources, NumberResource, TrunkResource
  <1>2. CL!IsFiniteSet(Calls)
    BY LeaseAssumption DEF LeaseAssumption, CL!IsFiniteSet, IsFiniteSet
  <1> QED
    BY <1>1, <1>2 DEF CL!CapacityAssumption

(* The number of holders of a resource is a natural number.                *)
LEMMA HoldersFinite ==
  ASSUME NEW r
  PROVE  IsFiniteSet(CL!Holders(r)) /\ Cardinality(CL!Holders(r)) \in Nat
  <1>1. CL!Holders(r) \in SUBSET Calls
    BY DEF CL!Holders
  <1> QED
    BY <1>1, LeaseAssumption, FS_Subset, FS_CardinalityType DEF LeaseAssumption

(* Fewer holders than before are within any limit that held before.        *)
LEMMA FewerHolders ==
  ASSUME CL!TypeOK, CL!WithinLimit, NEW r \in Resources,
         Limit[r] > 0, CL!Holders(r)' \subseteq CL!Holders(r)
  PROVE  Cardinality(CL!Holders(r)') <= Limit[r]
  <1>1. IsFiniteSet(CL!Holders(r)) /\ Cardinality(CL!Holders(r)) \in Nat
    BY HoldersFinite
  <1>2. /\ IsFiniteSet(CL!Holders(r)')
        /\ Cardinality(CL!Holders(r)') <= Cardinality(CL!Holders(r))
    BY <1>1, FS_Subset
  <1>3. Cardinality(CL!Holders(r)') \in Nat
    BY <1>2, FS_CardinalityType
  <1>4. Limit[r] \in Nat /\ Cardinality(CL!Holders(r)) <= Limit[r]
    BY PromiseAssumption, SameCount DEF CL!WithinLimit, CL!CapacityAssumption
  <1> QED
    BY <1>1, <1>2, <1>3, <1>4

(* A call takes resources that have room, so no limit is passed.           *)
LEMMA TakeKeepsLimits ==
  ASSUME CL!TypeOK, CL!WithinLimit,
         NEW c \in Calls, NEW wanted \in SUBSET Resources, CL!Take(c, wanted)
  PROVE  CL!TypeOK' /\ CL!WithinLimit'
  <1>1. CL!TypeOK'
    BY DEF CL!Take, CL!TypeOK
  <1>2. \A d \in Calls : Holding'[d] = IF d = c THEN wanted ELSE Holding[d]
    BY DEF CL!Take, CL!TypeOK
  <1>3. ASSUME NEW r \in Resources, Limit[r] > 0
        PROVE  Cardinality(CL!Holders(r)') <= Limit[r]
    <2>1. CASE r \in wanted
      <3>1. CL!Holders(r)' = CL!Holders(r) \cup {c}
        BY <1>2, <2>1 DEF CL!Holders
      <3>2. IsFiniteSet(CL!Holders(r)) /\ Cardinality(CL!Holders(r)) \in Nat
        BY HoldersFinite
      <3>3. \/ Cardinality(CL!Holders(r)') = Cardinality(CL!Holders(r)) + 1
                \/ Cardinality(CL!Holders(r)') = Cardinality(CL!Holders(r))
        BY <3>1, <3>2, FS_AddElement
      <3>4. Limit[r] \in Nat /\ Cardinality(CL!Holders(r)) < Limit[r]
        BY <1>3, <2>1, PromiseAssumption, SameCount DEF CL!Take, CL!HasRoom, CL!CapacityAssumption
      <3> QED
        BY <3>2, <3>3, <3>4
    <2>2. CASE r \notin wanted
      <3>1. CL!Holders(r)' \subseteq CL!Holders(r)
        BY <1>2, <2>2 DEF CL!Holders
      <3> QED
        BY <1>3, <3>1, FewerHolders
    <2> QED
      BY <2>1, <2>2
  <1> QED
    BY <1>1, <1>3, SameCount DEF CL!WithinLimit

(* Who gives back is no longer counted.                                    *)
LEMMA GiveBackKeepsLimits ==
  ASSUME CL!TypeOK, CL!WithinLimit,
         NEW dropped \in SUBSET Calls, CL!GiveBack(dropped)
  PROVE  CL!TypeOK' /\ CL!WithinLimit'
  <1>1. CL!TypeOK'
    BY DEF CL!GiveBack, CL!TypeOK
  <1>2. \A r \in Resources : CL!Holders(r)' \subseteq CL!Holders(r)
    BY DEF CL!GiveBack, CL!Holders
  <1>3. \A r \in Resources : Limit[r] > 0 => Cardinality(CL!Holders(r)') <= Limit[r]
    BY <1>2, FewerHolders
  <1> QED
    BY <1>1, <1>3, SameCount DEF CL!WithinLimit

(* Whoever takes and gives back as CapacityLease says, no number and no     *)
(* trunk is ever held by more calls than it allows: nothing is used of the  *)
(* scripts, what is held is only named Holding.                            *)
THEOREM AlwaysWithinLimit == CL!Spec => [](CL!TypeOK /\ CL!WithinLimit)
  <1>1. CL!Init => CL!TypeOK /\ CL!WithinLimit
    <2> SUFFICES ASSUME CL!Init
                 PROVE  CL!TypeOK /\ CL!WithinLimit
      OBVIOUS
    <2>1. CL!TypeOK
      BY DEF CL!Init, CL!TypeOK
    <2>2. \A r : CL!Holders(r) = {}
      BY DEF CL!Init, CL!Holders
    <2>3. CL!WithinLimit
      BY <2>2, PromiseAssumption, SameCount, FS_EmptySet DEF CL!WithinLimit, CL!CapacityAssumption
    <2> QED
      BY <2>1, <2>3
  <1>2. CL!TypeOK /\ CL!WithinLimit /\ [CL!Next]_Holding => (CL!TypeOK /\ CL!WithinLimit)'
    <2> SUFFICES ASSUME CL!TypeOK, CL!WithinLimit, [CL!Next]_Holding
                 PROVE  (CL!TypeOK /\ CL!WithinLimit)'
      OBVIOUS
    <2>1. CASE UNCHANGED Holding
      BY <2>1 DEF CL!TypeOK, CL!WithinLimit, CL!Holders
    <2> QED
      BY <2>1, TakeKeepsLimits, GiveBackKeepsLimits DEF CL!Next
  <1> QED
    BY <1>1, <1>2, PTL DEF CL!Spec

(* And so for the store, because its scripts implement the promise.        *)
THEOREM StoreKeepsPromise == Spec => []CL!WithinLimit
  BY LeasesImplementCapacity, AlwaysWithinLimit, PTL DEF ImplementsCapacityLease

-----------------------------------------------------------------------------
(* The edges. *)

(* What is left of more than one choice is at least one (the alternatives  *)
(* advance_caller_pool takes from).                                        *)
LEMMA LongTail ==
  ASSUME NEW S, NEW seq \in Seq(S), Len(seq) > 1
  PROVE  Tail(seq) \in Seq(S) /\ Tail(seq) # <<>>
  <1>1. seq # <<>>
    BY EmptySeq
  <1>2. Tail(seq) \in Seq(S) /\ Len(Tail(seq)) = Len(seq) - 1
    BY <1>1, HeadTailProperties
  <1>3. Len(Tail(seq)) # 0
    BY <1>2, LenProperties
  <1> QED
    BY <1>2, <1>3, EmptySeq

(* A plan in force names a number and a trunk the store knows.             *)
LEMMA PlanNamesLease ==
  ASSUME LTypeOK, NEW c \in Calls, plan[c] # <<>>
  PROVE  /\ LeaseOf(c).number \in CallerNumbers /\ LeaseOf(c).gateway \in Gateways
         /\ LeaseOf(c) = Lease(LeaseOf(c).number, LeaseOf(c).gateway)
         /\ Number(c) = LeaseOf(c).number
  <1>1. plan[c] \in Seq(Identities)
    BY DEF LTypeOK
  <1>2. Head(plan[c]) \in Identities
    BY <1>1
  <1>3. /\ Head(plan[c]).number \in CallerNumbers
        /\ Head(plan[c]).routes \in Seq(Gateways) /\ Head(plan[c]).routes # <<>>
    BY <1>2 DEF Identities
  <1>4. Head(Head(plan[c]).routes) \in Gateways
    BY <1>3
  <1> QED
    BY <1>3, <1>4 DEF LeaseOf, Lease, Number, Routes

(* A choice that is put in force keeps the types.                          *)
LEMMA OfferedTypes ==
  ASSUME LTypeOK, NEW c \in Calls, NEW choices \in Seq(Identities), choices # <<>>,
         Offered(c, choices)
  PROVE  /\ plan' \in [Calls -> Seq(Identities)]
         /\ gateway' \in [Calls -> Gateways \cup {Redirected}]
         /\ route' \in [Calls -> Nat \ {0}]
         /\ plan'[c] = choices
         /\ \A d \in Calls \ {c} : plan'[d] = plan[d]
  <1>1. Head(choices) \in Identities
    OBVIOUS
  <1>2. Head(choices).routes \in Seq(Gateways) /\ Head(choices).routes # <<>>
    BY <1>1 DEF Identities
  <1>3. Head(Head(choices).routes) \in Gateways
    BY <1>2
  <1> QED
    BY <1>3 DEF Offered, LTypeOK

-----------------------------------------------------------------------------
(* Every step of the edges is one of the store, or leaves the store alone. *)
LEMMA StoreStep ==
  ASSUME LIInv, [LNext]_lvars
  PROVE  [Next]_vars
  <1>1. ASSUME NEW c \in Calls, stage[c] = "asking",
               \/ AcquireGranted(c, LeaseOf(c).number, LeaseOf(c).gateway)
               \/ AcquireRefused(c, LeaseOf(c).number, LeaseOf(c).gateway)
        PROVE  Next
    <2>1. plan[c] # <<>> /\ LTypeOK
      BY <1>1 DEF LIInv, InOrder
    <2> QED
      BY <1>1, <2>1, PlanNamesLease DEF Next, Script
  <1>2. ASSUME NEW c \in Calls, calls[c] # NoLease,
               Release(c, calls[c].number, calls[c].gateway)
        PROVE  Next
    <2>1. calls[c] \in Leases
      BY <1>2 DEF LIInv, TypeOK
    <2>2. calls[c].number \in CallerNumbers /\ calls[c].gateway \in Gateways
      BY <2>1 DEF Leases
    <2> QED
      BY <1>2, <2>2 DEF Next, Script
  <1>3. ASSUME NEW c \in Calls, Granted(c) \/ Refused(c) \/ ReplyLost(c)
        PROVE  Next
    BY <1>1, <1>3 DEF Granted, Admitted, Refused, ReplyLost, Rejected, At
  <1>4. ASSUME NEW c \in Calls, ReleaseRuns(c)
        PROVE  [Next]_vars
    BY <1>2, <1>4 DEF ReleaseRuns, vars
  <1>5. ASSUME NEW c \in Calls,
               \/ \E choices \in Plans : Invite(c, choices)
               \/ Unlimited(c) \/ Unreachable(c) \/ SendInvite(c) \/ MediaFails(c)
               \/ Failover(c) \/ Redirect(c) \/ Finish(c) \/ FinishEnded(c)
               \/ ForceEnd(c) \/ Hangup(c) \/ ReleaseFails(c)
        PROVE  UNCHANGED vars
    BY <1>5 DEF vars, Invite, Unlimited, Unreachable, SendInvite, MediaFails,
                Failover, Redirect, Finish, FinishEnded, ForceEnd, Hangup, ReleaseFails
  <1>6. ASSUME NEW e \in Edges, Crash(e)
        PROVE  UNCHANGED vars
    BY <1>6 DEF Crash, vars
  <1>7. LTick => Next
    BY DEF LTick, Next
  <1>8. UNCHANGED lvars => UNCHANGED vars
    BY DEF lvars, vars
  <1> QED
    BY <1>3, <1>4, <1>5, <1>6, <1>7, <1>8 DEF LNext

-----------------------------------------------------------------------------
(* What a step that leaves a call alone may still do to its lease, by a    *)
(* purge or for another call, keeps it in order.                           *)
LEMMA Bystander ==
  ASSUME LIInv, TypeOK', now' = now, NEW d \in Calls, InOrder(d), Untouched(d),
         stage'[d] = stage[d], plan'[d] = plan[d], asked'[d] = asked[d],
         pending'[d] = pending[d],
         d \in early' <=> d \in early, d \in stranded => d \in stranded'
  PROVE  InOrder(d)'
  <1>1. now \in Nat /\ TTL \in Nat /\ asked[d] \in Nat /\ callExpiry[d] \in Nat
        /\ callExpiry'[d] \in Nat
    BY LeaseAssumption DEF LIInv, LTypeOK, TypeOK, LeaseAssumption
  <1>2. /\ Takes(d)' <=> Takes(d)
        /\ LeaseOf(d)' = LeaseOf(d)
        /\ Young(d)' <=> Young(d)
    BY DEF Takes, LeaseOf, Number, Routes, Young
  <1>3. /\ Live(d) => calls'[d] = calls[d] /\ callExpiry'[d] = callExpiry[d]
        /\ ~Live(d) => callExpiry'[d] <= now
    BY DEF Untouched
  <1>4. Live(d)' => Live(d) /\ callExpiry'[d] = callExpiry[d]
    <2>1. CASE Live(d)
      BY <2>1, <1>3
    <2>2. CASE ~Live(d)
      BY <2>2, <1>1, <1>3 DEF Live
    <2> QED
      BY <2>1, <2>2
  <1>5. ASSUME stage[d] \in {"held", "up"}, d \notin early, Young(d), Takes(d)
        PROVE  calls'[d] = LeaseOf(d) /\ callExpiry'[d] = asked[d] + TTL
    <2>1. calls[d] = LeaseOf(d) /\ callExpiry[d] = asked[d] + TTL
      BY <1>5 DEF InOrder
    <2>2. Live(d)
      BY <1>5, <2>1, <1>1 DEF Live, Young
    <2> QED
      BY <2>1, <2>2, <1>3
  <1>6. (stage[d] # "new" => plan[d] # <<>>)'
    BY DEF InOrder
  <1>7. (stage[d] \in {"new", "asking"} => ~Live(d))'
    BY <1>4 DEF InOrder
  <1>8. (stage[d] # "gone" /\ d \notin early => pending[d] = 0)'
    BY DEF InOrder
  <1>9. (stage[d] \in {"held", "up"} /\ d \notin early /\ Young(d) /\ Takes(d) =>
           calls[d] = LeaseOf(d) /\ callExpiry[d] = asked[d] + TTL)'
    BY <1>2, <1>5
  <1>10. (Live(d) => /\ stage[d] = "gone" => pending[d] > 0 \/ d \in stranded
                     /\ callExpiry[d] <= asked[d] + TTL)'
    BY <1>4 DEF InOrder
  <1> QED
    BY <1>6, <1>7, <1>8, <1>9, <1>10 DEF InOrder

(* A step that leaves the store alone leaves every call untouched in it.   *)
LEMMA StoreKept ==
  ASSUME LIInv, UNCHANGED vars, NEW d \in Calls
  PROVE  Untouched(d)
  <1>1. /\ TypeOK /\ KeysAgree /\ calls'[d] = calls[d] /\ callExpiry'[d] = callExpiry[d]
        /\ \A m \in Numbers : numberExpiry'[m][d] = numberExpiry[m][d]
        /\ \A h \in Gateways : trunkExpiry'[h][d] = trunkExpiry[h][d]
    BY DEF vars, store, LIInv
  <1> QED
    BY <1>1, SameEntries

-----------------------------------------------------------------------------
(* What the edges do for one call leaves the rest of their state alone ... *)
Acts(c) ==
  \/ \E choices \in Plans : Invite(c, choices)
  \/ Unlimited(c) \/ Granted(c) \/ Refused(c) \/ Unreachable(c) \/ ReplyLost(c)
  \/ SendInvite(c) \/ MediaFails(c) \/ Failover(c) \/ Redirect(c)
  \/ Finish(c) \/ FinishEnded(c) \/ ForceEnd(c) \/ Hangup(c)
  \/ ReleaseRuns(c) \/ ReleaseFails(c)

Kept(d) ==
  /\ stage'[d] = stage[d] /\ plan'[d] = plan[d] /\ asked'[d] = asked[d]
  /\ pending'[d] = pending[d]
  /\ d \in early' <=> d \in early
  /\ d \in stranded => d \in stranded'

LEMMA OthersKept ==
  ASSUME LTypeOK, NEW c \in Calls, Acts(c), NEW d \in Calls \ {c}
  PROVE  Kept(d)
  <1> USE DEF LTypeOK, Kept, At, routing, history
  <1>1. ASSUME NEW choices \in Plans, Invite(c, choices)
        PROVE  Kept(d)
    BY <1>1 DEF Invite, Offered
  <1>2. CASE Unlimited(c) \/ Granted(c)
    BY <1>2 DEF Unlimited, Granted, Admitted
  <1>3. CASE Refused(c)
    BY <1>3 DEF Refused, Rejected, Offered
  <1>4. CASE Unreachable(c) \/ ReplyLost(c)
    BY <1>4 DEF Unreachable, ReplyLost, Rejected
  <1>5. CASE SendInvite(c) \/ MediaFails(c) \/ Failover(c) \/ Redirect(c)
    BY <1>5 DEF SendInvite, MediaFails, Failover, FailsOver, Redirect, Released
  <1>6. CASE Finish(c) \/ FinishEnded(c) \/ ForceEnd(c) \/ Hangup(c)
    BY <1>6 DEF Finish, FinishEnded, ForceEnd, Hangup, Ends, Released
  <1>7. CASE ReleaseRuns(c) \/ ReleaseFails(c)
    BY <1>7 DEF ReleaseRuns, ReleaseFails
  <1> QED
    BY <1>1, <1>2, <1>3, <1>4, <1>5, <1>6, <1>7 DEF Acts

(* ... and touches no other lease.                                         *)
LEMMA OthersUntouched ==
  ASSUME LIInv, NEW c \in Calls, Acts(c)
  PROVE  now' = now /\ \A d \in Calls \ {c} : Untouched(d)
  <1>i. LeaseAssumption /\ TypeOK /\ KeysAgree /\ LTypeOK /\ InOrder(c)
    BY LeaseAssumption DEF LIInv
  <1>1. CASE stage[c] = "asking" /\ (Granted(c) \/ Refused(c) \/ ReplyLost(c))
    <2>1. LeaseOf(c).number \in CallerNumbers /\ LeaseOf(c).gateway \in Gateways
      BY <1>1, <1>i, PlanNamesLease DEF InOrder
    <2>2. \/ AcquireGranted(c, LeaseOf(c).number, LeaseOf(c).gateway)
          \/ AcquireRefused(c, LeaseOf(c).number, LeaseOf(c).gateway)
      BY <1>1 DEF Granted, Refused, ReplyLost
    <2> QED
      BY <1>i, <2>1, <2>2, GrantedEffect, RefusedEffect
  <1>2. CASE ReleaseRuns(c) /\ calls[c] # NoLease
    <2>1. calls[c].number \in CallerNumbers /\ calls[c].gateway \in Gateways
      BY <1>2, <1>i DEF TypeOK, Leases
    <2>2. Release(c, calls[c].number, calls[c].gateway)
      BY <1>2 DEF ReleaseRuns
    <2> QED
      BY <1>i, <2>1, <2>2, ForgottenEffect DEF Release
  <1>3. CASE UNCHANGED vars
    BY <1>3, StoreKept DEF vars
  <1>4. Granted(c) \/ Refused(c) \/ ReplyLost(c) => stage[c] = "asking"
    BY DEF Granted, Refused, ReplyLost, Rejected, Admitted, At
  <1>5. ReleaseRuns(c) /\ calls[c] = NoLease => UNCHANGED vars
    BY DEF ReleaseRuns, vars
  <1>6. \/ \E choices \in Plans : Invite(c, choices)
        \/ Unlimited(c) \/ Unreachable(c) \/ SendInvite(c) \/ MediaFails(c)
        \/ Failover(c) \/ Redirect(c) \/ Finish(c) \/ FinishEnded(c)
        \/ ForceEnd(c) \/ Hangup(c) \/ ReleaseFails(c)
        => UNCHANGED vars
    BY DEF vars, Invite, Unlimited, Unreachable, SendInvite, MediaFails,
           Failover, Redirect, Finish, FinishEnded, ForceEnd, Hangup, ReleaseFails
  <1> QED
    BY <1>1, <1>2, <1>3, <1>4, <1>5, <1>6 DEF Acts

-----------------------------------------------------------------------------
(* The types of the edges' own state, of the routes and of the rest.       *)
RoutingOK ==
  /\ plan \in [Calls -> Seq(Identities)]
  /\ gateway \in [Calls -> Gateways \cup {Redirected}]
  /\ route \in [Calls -> Nat \ {0}]

ProgressOK ==
  /\ stage \in [Calls -> Stages]
  /\ over \subseteq Calls /\ early \subseteq Calls /\ stranded \subseteq Calls
  /\ pending \in [Calls -> Nat] /\ asked \in [Calls -> 0..now]

LEMMA RoutingTypes ==
  ASSUME LIInv, NEW c \in Calls, Acts(c)
  PROVE  RoutingOK'
  <1>i. LTypeOK /\ RoutingOK /\ LifecycleAssumption
    BY LifecycleAssumption DEF LIInv, LTypeOK, RoutingOK
  <1>1. ASSUME NEW choices \in Plans, Invite(c, choices)
        PROVE  RoutingOK'
    <2>1. choices \in Seq(Identities) /\ choices # <<>>
      BY <1>i DEF LifecycleAssumption
    <2> QED
      BY <1>i, <1>1, <2>1, OfferedTypes DEF Invite, RoutingOK
  <1>2. CASE Refused(c) /\ MayAdvance(c)
    <2>1. plan[c] \in Seq(Identities) /\ Len(plan[c]) > 1
      BY <1>i, <1>2 DEF MayAdvance, RoutingOK
    <2>2. Tail(plan[c]) \in Seq(Identities) /\ Tail(plan[c]) # <<>>
      BY <2>1, LongTail
    <2>3. Offered(c, Tail(plan[c]))
      BY <1>2 DEF Refused
    <2> QED
      BY <1>i, <2>2, <2>3, OfferedTypes DEF RoutingOK
  <1>3. CASE Failover(c)
    <2>1. gateway[c] # Redirected /\ stage[c] # "new"
      BY <1>3 DEF Failover, FailsOver
    <2>2. plan[c] # <<>>
      BY <2>1 DEF LIInv, InOrder
    <2>3. Head(plan[c]) \in Identities
      BY <1>i, <2>2 DEF RoutingOK
    <2>4. Routes(c) \in Seq(Gateways)
      BY <2>3 DEF Routes, Identities
    <2>5. route[c] \in Nat \ {0} /\ route[c] + 1 \in 1..Len(Routes(c))
      BY <1>i, <1>3, <2>4 DEF Failover, FailsOver, RoutingOK
    <2>6. Routes(c)[route[c] + 1] \in Gateways
      BY <2>4, <2>5
    <2> QED
      BY <1>i, <1>3, <2>5, <2>6 DEF Failover, FailsOver, RoutingOK
  <1>4. CASE Redirect(c)
    BY <1>i, <1>4 DEF Redirect, RoutingOK
  <1>5. \/ Unlimited(c) \/ Granted(c) \/ (Refused(c) /\ ~MayAdvance(c))
        \/ Unreachable(c) \/ ReplyLost(c) \/ SendInvite(c) \/ MediaFails(c)
        \/ Finish(c) \/ FinishEnded(c) \/ ForceEnd(c) \/ Hangup(c)
        \/ ReleaseRuns(c) \/ ReleaseFails(c)
        => UNCHANGED routing
    BY DEF Unlimited, Granted, Admitted, Refused, Unreachable, ReplyLost, Rejected,
           SendInvite, MediaFails, Finish, FinishEnded, ForceEnd, Hangup,
           ReleaseRuns, ReleaseFails
  <1>6. CASE UNCHANGED routing
    BY <1>i, <1>6 DEF routing, RoutingOK
  <1> QED
    BY <1>1, <1>2, <1>3, <1>4, <1>5, <1>6 DEF Acts

LEMMA ProgressTypes ==
  ASSUME LIInv, NEW c \in Calls, Acts(c), now' = now
  PROVE  ProgressOK'
  <1>i. ProgressOK /\ now \in Nat
    BY DEF LIInv, LTypeOK, ProgressOK, TypeOK
  <1> USE DEF ProgressOK, At, history, Stages
  <1>1. ASSUME NEW choices \in Plans, Invite(c, choices)
        PROVE  ProgressOK'
    BY <1>i, <1>1 DEF Invite
  <1>2. CASE Admitted(c) /\ UNCHANGED <<over, pending, early, stranded>>
    BY <1>i, <1>2 DEF Admitted
  <1>3. CASE Refused(c) /\ MayAdvance(c)
    BY <1>i, <1>3 DEF Refused
  <1>4. CASE Rejected(c) /\ UNCHANGED <<asked, stranded>>
    BY <1>i, <1>4 DEF Rejected
  <1>5. CASE ReplyLost(c)
    BY <1>i, <1>5 DEF ReplyLost, Rejected
  <1>6. CASE SendInvite(c) \/ Failover(c) \/ Redirect(c)
    BY <1>i, <1>6 DEF SendInvite, Failover, FailsOver, Redirect
  <1>7. CASE MediaFails(c)
    BY <1>i, <1>7 DEF MediaFails, Released
  <1>8. CASE Ends(c) /\ Released(c) /\ UNCHANGED history
    BY <1>i, <1>8 DEF Ends, Released
  <1>9. CASE FinishEnded(c)
    BY <1>i, <1>9 DEF FinishEnded, Ends
  <1>10. CASE Hangup(c)
    BY <1>i, <1>10 DEF Hangup, Released
  <1>11. CASE ReleaseRuns(c)
    BY <1>i, <1>11 DEF ReleaseRuns
  <1>12. CASE ReleaseFails(c)
    BY <1>i, <1>12 DEF ReleaseFails
  <1>13. /\ Unlimited(c) \/ Granted(c) =>
              Admitted(c) /\ UNCHANGED <<over, pending, early, stranded>>
         /\ (Refused(c) /\ ~MayAdvance(c)) \/ Unreachable(c) =>
              Rejected(c) /\ UNCHANGED <<asked, stranded>>
         /\ Finish(c) \/ ForceEnd(c) => Ends(c) /\ Released(c) /\ UNCHANGED history
    BY DEF Unlimited, Granted, Admitted, Refused, Unreachable, Finish, ForceEnd
  <1> QED
    BY <1>1, <1>2, <1>3, <1>4, <1>5, <1>6, <1>7, <1>8, <1>9, <1>10, <1>11, <1>12,
       <1>13 DEF Acts

LEMMA ActTypes ==
  ASSUME LIInv, NEW c \in Calls, Acts(c), now' = now
  PROVE  LTypeOK'
  BY RoutingTypes, ProgressTypes DEF RoutingOK, ProgressOK, LTypeOK

-----------------------------------------------------------------------------
(* A call that has ended is in order if its lease, should it have one, is   *)
(* about to be released or is known to be left behind.                     *)
LEMMA EndedInOrder ==
  ASSUME NEW c \in Calls, stage'[c] = "gone", plan'[c] # <<>>,
         Live(c)' => /\ pending'[c] > 0 \/ c \in stranded'
                     /\ callExpiry'[c] <= asked'[c] + TTL
  PROVE  InOrder(c)'
  BY DEF InOrder

(* A granted lease lasts one TTL from now and is the one asked for.        *)
LEMMA FreshLease ==
  ASSUME LIInv, NEW c \in Calls, stage[c] = "asking",
         AcquireGranted(c, LeaseOf(c).number, LeaseOf(c).gateway)
  PROVE  calls'[c] = LeaseOf(c) /\ callExpiry'[c] = now + TTL
  <1>i. LeaseAssumption /\ TypeOK /\ KeysAgree /\ LTypeOK /\ InOrder(c)
    BY LeaseAssumption DEF LIInv
  <1>1. ~Live(c) /\ plan[c] # <<>>
    BY <1>i DEF InOrder
  <1>2. PurgedCalls[c] = NoLease
    BY <1>i, <1>1, PurgedHash
  <1>3. AcquireExpiry(c, LeaseOf(c).number, LeaseOf(c).gateway) = now + TTL
    BY <1>2 DEF AcquireExpiry
  <1>4. /\ LeaseOf(c).number \in CallerNumbers /\ LeaseOf(c).gateway \in Gateways
        /\ LeaseOf(c) = Lease(LeaseOf(c).number, LeaseOf(c).gateway)
    BY <1>i, <1>1, PlanNamesLease
  <1>5. HoldsOnly(c, LeaseOf(c).number, LeaseOf(c).gateway, now + TTL)
    BY <1>i, <1>3, <1>4, GrantedEffect
  <1> QED
    BY <1>4, <1>5 DEF HoldsOnly

(* Whatever is done for a call keeps that call in order.                   *)
LEMMA OwnStep ==
  ASSUME LIInv, NEW c \in Calls, Acts(c), TypeOK', KeysAgree', now' = now
  PROVE  InOrder(c)'
  <1>i. /\ InOrder(c) /\ TypeOK /\ KeysAgree /\ LTypeOK /\ LTypeOK'
        /\ now \in Nat \ {0} /\ TTL \in Nat \ {0}
        /\ asked[c] \in 0..now /\ pending[c] \in Nat /\ callExpiry[c] \in Nat
    <2>1. LTypeOK'
      BY ActTypes
    <2>2. InOrder(c) /\ TypeOK /\ KeysAgree /\ LTypeOK
      BY DEF LIInv
    <2>3. now \in Nat \ {0} /\ callExpiry[c] \in Nat
      BY <2>2 DEF TypeOK
    <2>4. asked[c] \in 0..now /\ pending[c] \in Nat
      BY <2>2 DEF LTypeOK
    <2> QED
      BY <2>1, <2>2, <2>3, <2>4, LeaseAssumption DEF LeaseAssumption
  <1>u. UNCHANGED vars =>
          /\ calls'[c] = calls[c] /\ callExpiry'[c] = callExpiry[c]
          /\ Live(c)' <=> Live(c)
    BY DEF vars, store, Live
  <1>1. ASSUME NEW choices \in Plans, Invite(c, choices)
        PROVE  InOrder(c)'
    <2>1. choices \in Seq(Identities) /\ choices # <<>>
      BY LifecycleAssumption DEF LifecycleAssumption
    <2>2. plan'[c] # <<>>
      BY <1>i, <1>1, <2>1, OfferedTypes DEF Invite
    <2>3. /\ stage[c] = "new" /\ stage'[c] = "asking" /\ UNCHANGED vars
          /\ pending' = pending /\ early' = early
      BY <1>i, <1>1 DEF Invite, At, LTypeOK, vars, history
    <2> QED
      BY <1>i, <1>u, <2>2, <2>3 DEF InOrder
  <1>2. CASE Unlimited(c)
    <2>1. /\ stage[c] = "asking" /\ stage'[c] = "held" /\ UNCHANGED vars
          /\ pending' = pending /\ early' = early /\ plan' = plan /\ ~Takes(c)
      BY <1>i, <1>2 DEF Unlimited, Admitted, At, LTypeOK, vars, routing
    <2>2. ~Takes(c)'
      BY <2>1 DEF Takes, LeaseOf, Number, Routes
    <2> QED
      BY <1>i, <1>u, <2>1, <2>2 DEF InOrder
  <1>3. CASE Granted(c)
    <2>1. /\ stage[c] = "asking" /\ stage'[c] = "held" /\ asked'[c] = now
          /\ pending' = pending /\ early' = early /\ plan' = plan
          /\ AcquireGranted(c, LeaseOf(c).number, LeaseOf(c).gateway)
      BY <1>i, <1>3 DEF Granted, Admitted, At, LTypeOK, routing
    <2>2. calls'[c] = LeaseOf(c) /\ callExpiry'[c] = now + TTL
      BY <2>1, FreshLease
    <2>3. LeaseOf(c)' = LeaseOf(c)
      BY <2>1 DEF LeaseOf, Number, Routes
    <2> QED
      BY <1>i, <2>1, <2>2, <2>3 DEF InOrder
  <1>4. CASE Refused(c)
    <2>1. /\ stage[c] = "asking" /\ plan[c] # <<>>
          /\ AcquireRefused(c, LeaseOf(c).number, LeaseOf(c).gateway)
      BY <1>i, <1>4 DEF Refused, InOrder
    <2>2. Untouched(c)
      BY <1>i, <2>1, LeaseAssumption, PlanNamesLease, RefusedEffect
    <2>3. ~Live(c)'
      <3>1. callExpiry'[c] <= now /\ callExpiry'[c] \in Nat
        BY <1>i, <2>1, <2>2 DEF Untouched, InOrder, TypeOK
      <3> QED
        BY <1>i, <3>1 DEF Live
    <2>4. CASE MayAdvance(c)
      <3>1. plan[c] \in Seq(Identities) /\ Len(plan[c]) > 1
        BY <1>i, <2>4 DEF MayAdvance, LTypeOK
      <3>2. Tail(plan[c]) \in Seq(Identities) /\ Tail(plan[c]) # <<>>
        BY <3>1, LongTail
      <3>4. Offered(c, Tail(plan[c])) /\ stage' = stage /\ pending' = pending /\ early' = early
        BY <1>4, <2>4 DEF Refused
      <3>5. plan'[c] # <<>>
        BY <1>i, <3>2, <3>4, OfferedTypes
      <3> QED
        BY <1>i, <2>1, <2>3, <3>4, <3>5 DEF InOrder
    <2>5. CASE ~MayAdvance(c)
      <3>1. stage'[c] = "gone" /\ plan' = plan
        BY <1>i, <1>4, <2>5 DEF Refused, Rejected, At, LTypeOK, routing
      <3> QED
        BY <2>1, <2>3, <3>1, EndedInOrder
    <2> QED
      BY <2>4, <2>5
  <1>5. CASE Unreachable(c)
    <2>1. /\ stage[c] = "asking" /\ stage'[c] = "gone" /\ plan' = plan /\ UNCHANGED vars
      BY <1>i, <1>5 DEF Unreachable, Rejected, At, LTypeOK, routing, vars
    <2> QED
      BY <1>i, <1>u, <2>1, EndedInOrder DEF InOrder
  <1>6. CASE ReplyLost(c)
    <2>1. /\ stage[c] = "asking" /\ stage'[c] = "gone" /\ plan' = plan
          /\ asked'[c] = now /\ c \in stranded'
          /\ AcquireGranted(c, LeaseOf(c).number, LeaseOf(c).gateway)
      BY <1>i, <1>6 DEF ReplyLost, Rejected, At, LTypeOK, routing
    <2>2. callExpiry'[c] = now + TTL
      BY <2>1, FreshLease
    <2> QED
      BY <1>i, <2>1, <2>2, EndedInOrder DEF InOrder
  <1>7. CASE SendInvite(c)
    <2>1. /\ stage[c] = "held" /\ stage'[c] = "up" /\ UNCHANGED vars
          /\ plan' = plan /\ pending' = pending /\ asked' = asked /\ early' = early
      BY <1>i, <1>7 DEF SendInvite, At, LTypeOK, routing, history, vars
    <2>2. /\ Takes(c)' <=> Takes(c)
          /\ LeaseOf(c)' = LeaseOf(c)
          /\ Young(c)' <=> Young(c)
      BY <2>1 DEF Takes, LeaseOf, Number, Routes, Young, vars
    <2> QED
      BY <1>i, <1>u, <2>1, <2>2 DEF InOrder
  <1>8. CASE Failover(c) \/ Redirect(c)
    <2>1. UNCHANGED vars /\ Kept(c)
      BY <1>8 DEF Failover, FailsOver, Redirect, Kept, history, vars
    <2> QED
      BY <1>i, <2>1, StoreKept, Bystander DEF Kept
  <1>9. CASE MediaFails(c) \/ Finish(c) \/ ForceEnd(c)
    <2>1. /\ stage[c] \in {"held", "up"} /\ stage'[c] = "gone" /\ UNCHANGED vars
          /\ plan' = plan /\ asked' = asked /\ pending'[c] = pending[c] + 1
      BY <1>i, <1>9 DEF MediaFails, Finish, ForceEnd, Ends, Released, At, LTypeOK,
                        routing, history, vars
    <2> QED
      BY <1>i, <1>u, <2>1, EndedInOrder DEF InOrder
  <1>10. CASE FinishEnded(c)
    <2>1. /\ stage[c] = "up" /\ stage'[c] = "gone" /\ UNCHANGED vars
          /\ plan' = plan /\ asked' = asked /\ c \in stranded'
      BY <1>i, <1>10 DEF FinishEnded, Ends, At, LTypeOK, routing, vars
    <2> QED
      BY <1>i, <1>u, <2>1, EndedInOrder DEF InOrder
  <1>11. CASE Hangup(c)
    <2>1. /\ stage[c] # "new" /\ UNCHANGED vars
          /\ stage'[c] = IF stage[c] = "up" THEN "gone" ELSE stage[c]
          /\ plan' = plan /\ asked' = asked /\ pending'[c] = pending[c] + 1
          /\ stage[c] \in {"asking", "held"} => c \in early'
          /\ stage[c] \in Stages
      BY <1>i, <1>11 DEF Hangup, Released, LTypeOK, routing, vars
    <2>2. CASE stage[c] \in {"asking", "held"}
      BY <1>i, <1>u, <2>1, <2>2 DEF InOrder
    <2>3. CASE stage[c] \in {"up", "gone"}
      BY <1>i, <1>u, <2>1, <2>3, EndedInOrder DEF InOrder
    <2> QED
      BY <2>1, <2>2, <2>3 DEF Stages
  <1>12. ASSUME /\ pending[c] > 0 /\ stage' = stage /\ plan' = plan
                /\ asked' = asked /\ early' = early,
                Live(c)' => /\ c \in stranded'
                            /\ Live(c) /\ callExpiry'[c] = callExpiry[c]
         PROVE  InOrder(c)'
    BY <1>i, <1>12 DEF InOrder
  <1>13. CASE ReleaseFails(c)
    <2>1. /\ pending[c] > 0 /\ stage' = stage /\ plan' = plan /\ c \in stranded'
          /\ asked' = asked /\ early' = early /\ UNCHANGED vars
      BY <1>13 DEF ReleaseFails, routing, vars
    <2> QED
      BY <1>u, <1>12, <2>1
  <1>14. CASE ReleaseRuns(c)
    <2>1. /\ pending[c] > 0 /\ stage' = stage /\ plan' = plan
          /\ asked' = asked /\ early' = early
      BY <1>14 DEF ReleaseRuns, routing, history
    <2>2. calls'[c] = NoLease
      BY <1>i, <1>14 DEF ReleaseRuns, Release, Forget, store, TypeOK
    <2>3. ~Live(c)'
      BY <1>i, <2>2 DEF KeysAgree, KeysAgreeFor, Live, NoScore
    <2> QED
      BY <1>12, <2>1, <2>3
  <1> QED
    BY <1>1, <1>2, <1>3, <1>4, <1>5, <1>6, <1>7, <1>8, <1>9, <1>10, <1>11, <1>13, <1>14
    DEF Acts

-----------------------------------------------------------------------------
LEMMA CrashInOrder ==
  ASSUME LIInv, NEW e \in Edges, Crash(e)
  PROVE  LTypeOK' /\ \A d \in Calls : InOrder(d)'
  <1> DEFINE lost == {c \in Calls : EdgeOf[c] = e /\ stage[c] # "new"
                                      /\ (stage[c] # "gone" \/ pending[c] > 0)}
  <1>i. /\ LTypeOK /\ TypeOK /\ now \in Nat
        /\ \A d \in Calls : InOrder(d) /\ callExpiry[d] \in Nat
    BY DEF LIInv, TypeOK
  <1>1. /\ stage' = [c \in Calls |-> IF c \in lost THEN "gone" ELSE stage[c]]
        /\ over' = over \cup lost
        /\ pending' = [c \in Calls |-> IF c \in lost THEN 0 ELSE pending[c]]
        /\ stranded' = stranded \cup lost
        /\ UNCHANGED <<now, store, routing, asked, early>>
    BY DEF Crash
  <1>2. LTypeOK'
    <2>1. ProgressOK'
      BY <1>i, <1>1 DEF LTypeOK, ProgressOK, Stages
    <2>2. RoutingOK'
      BY <1>i, <1>1 DEF LTypeOK, RoutingOK, routing
    <2> QED
      BY <2>1, <2>2 DEF ProgressOK, RoutingOK, LTypeOK
  <1>3. ASSUME NEW d \in Calls
        PROVE  InOrder(d)'
    <2>1. UNCHANGED vars /\ plan' = plan /\ asked' = asked /\ early' = early
      BY <1>1 DEF vars, routing
    <2>2. CASE d \in lost
      <3>1. stage'[d] = "gone" /\ d \in stranded' /\ stage[d] # "new"
        BY <1>1, <2>2
      <3>2. Live(d)' => Live(d) /\ callExpiry'[d] = callExpiry[d]
        BY <2>1 DEF Live, vars, store
      <3> QED
        BY <1>i, <2>1, <3>1, <3>2, EndedInOrder DEF InOrder
    <2>3. CASE d \notin lost
      <3>1. Kept(d)
        BY <1>1, <2>1, <2>3 DEF Kept
      <3>2. Untouched(d)
        BY <2>1, StoreKept
      <3>3. TypeOK' /\ now' = now
        BY <1>i, <2>1 DEF vars, store, TypeOK
      <3> QED
        BY <1>i, <3>1, <3>2, <3>3, Bystander DEF Kept
    <2> QED
      BY <2>2, <2>3
  <1> QED
    BY <1>2, <1>3

LEMMA TimeInOrder ==
  ASSUME LIInv, LTick
  PROVE  LTypeOK' /\ \A d \in Calls : InOrder(d)'
  <1>i. LTypeOK /\ TypeOK /\ now \in Nat /\ TTL \in Nat
    BY LeaseAssumption DEF LIInv, TypeOK, LeaseAssumption
  <1>1. /\ now' = now + 1 /\ calls' = calls /\ callExpiry' = callExpiry
        /\ UNCHANGED <<stage, routing, over, pending, history>>
    BY DEF LTick, Tick, store
  <1>2. LTypeOK'
    <2>1. 0..now \subseteq 0..(now + 1)
      BY <1>i
    <2>2. ProgressOK'
      BY <1>i, <1>1, <2>1 DEF LTypeOK, ProgressOK, history
    <2>3. RoutingOK'
      BY <1>i, <1>1 DEF LTypeOK, RoutingOK, routing
    <2> QED
      BY <2>2, <2>3 DEF ProgressOK, RoutingOK, LTypeOK
  <1>3. ASSUME NEW d \in Calls
        PROVE  InOrder(d)'
    <2>1. /\ stage' = stage /\ plan' = plan /\ pending' = pending
          /\ asked' = asked /\ early' = early /\ stranded' = stranded
      BY <1>1 DEF routing, history
    <2>2. callExpiry[d] \in Nat /\ asked[d] \in Nat /\ InOrder(d)
      BY <1>i DEF TypeOK, LTypeOK, LIInv
    <2>3. /\ Live(d)' => Live(d)
          /\ Young(d)' => Young(d)
      BY <1>i, <1>1, <2>1, <2>2 DEF Live, Young
    <2>4. /\ Takes(d)' <=> Takes(d)
          /\ LeaseOf(d)' = LeaseOf(d)
      BY <2>1 DEF Takes, LeaseOf, Number, Routes
    <2> QED
      BY <1>1, <2>1, <2>2, <2>3, <2>4 DEF InOrder
  <1> QED
    BY <1>2, <1>3

LEMMA InitLIInv == LInit => LIInv
  <1> SUFFICES ASSUME LInit PROVE LIInv
    OBVIOUS
  <1>1. IInv
    BY LeaseAssumption, InitIInv DEF LInit
  <1>2. LTypeOK
    BY <1>1 DEF LInit, LTypeOK, Stages, IInv, TypeOK
  <1>3. \A c \in Calls : InOrder(c)
    BY DEF LInit, Init, InOrder, Live, NoScore
  <1> QED
    BY <1>1, <1>2, <1>3 DEF IInv, LIInv

(* Everything the edges and the clock do keeps every call in order.        *)
LEMMA StepLIInv ==
  ASSUME LIInv, [LNext]_lvars
  PROVE  LIInv'
  <1>1. IInv'
    BY LeaseAssumption, StoreStep, StepIInv DEF LIInv, IInv
  <1>2. ASSUME NEW c \in Calls, Acts(c)
        PROVE  LTypeOK' /\ \A d \in Calls : InOrder(d)'
    <2>1. /\ now' = now /\ TypeOK' /\ KeysAgree'
          /\ \A d \in Calls \ {c} : Untouched(d)
      BY <1>1, <1>2, OthersUntouched DEF IInv
    <2>2. LTypeOK' /\ InOrder(c)'
      BY <1>2, <2>1, ActTypes, OwnStep
    <2>3. ASSUME NEW d \in Calls \ {c}
          PROVE  InOrder(d)'
      <3>1. Kept(d)
        BY <1>2, OthersKept DEF LIInv
      <3>2. InOrder(d)
        BY DEF LIInv
      <3> QED
        BY <2>1, <3>1, <3>2, Bystander DEF Kept
    <2> QED
      BY <2>2, <2>3
  <1>3. CASE UNCHANGED lvars
    <2>1. LTypeOK'
      BY <1>3 DEF lvars, routing, history, LIInv, LTypeOK
    <2>2. ASSUME NEW d \in Calls
          PROVE  InOrder(d)'
      BY <1>3 DEF lvars, store, routing, history, LIInv, InOrder, Live, Young, Takes,
                  LeaseOf, Number, Routes
    <2> QED
      BY <1>1, <2>1, <2>2 DEF IInv, LIInv
  <1> QED
    BY <1>1, <1>2, <1>3, CrashInOrder, TimeInOrder DEF LNext, Acts, IInv, LIInv

-----------------------------------------------------------------------------
(* The strengthened invariant of edges and store, for any number of calls,  *)
(* edges, numbers and trunks.                                               *)
THEOREM LifecycleInvariant == LSpec => []LIInv
  <1> QED
    BY InitLIInv, StepLIInv, PTL DEF LSpec

(* The edges use the lease store as ResourceLease specifies it: whatever    *)
(* fails or crashes between them, the store sees scripts and time only.      *)
THEOREM EdgesUseTheStore == LSpec => Spec
  <1>1. LInit => Init
    BY DEF LInit
  <1>2. LIInv /\ [LNext]_lvars => [Next]_vars
    BY StoreStep
  <1> QED
    BY <1>1, <1>2, LifecycleInvariant, PTL DEF LSpec, Spec

(* A call in service younger than the TTL holds its lease in all four keys. *)
THEOREM ServiceIsCovered == LSpec => []Covered
  <1>1. ASSUME LIInv
        PROVE  Covered
    <2>1. LTypeOK /\ KeysAgree /\ \A c \in Calls : InOrder(c)
      BY <1>1 DEF LIInv
    <2>2. ASSUME NEW c \in InService, Young(c), Takes(c)
          PROVE  Live(c) /\ calls[c] = LeaseOf(c) /\ KeysAgreeFor(c)
      BY <2>1, <2>2 DEF InService, InOrder, Young, Live, KeysAgree
    <2> QED
      BY <2>1, <2>2 DEF Covered
  <1> QED
    BY <1>1, LifecycleInvariant, PTL

(* What the leases are for: the limits bound the young calls in service of  *)
(* all edges together, and not only the entries in Redis.                   *)
THEOREM ServiceWithinLimits == LSpec => []WithinLimits
  <1>1. ASSUME LIInv
        PROVE  WithinLimits
    <2>i. /\ LTypeOK /\ KeysAgree /\ CapacityRespected /\ TypeOK
          /\ \A c \in Calls : InOrder(c)
      BY <1>1 DEF LIInv
    <2>1. ASSUME NEW c \in InService, Young(c), Takes(c)
          PROVE  /\ Live(c) /\ calls[c] = LeaseOf(c) /\ KeysAgreeFor(c)
                 /\ plan[c] # <<>>
      BY <2>i, <2>1 DEF InService, InOrder, Young, Live, KeysAgree
    <2>2. ASSUME NEW n \in Numbers, NumberMax[n] > 0
          PROVE  Cardinality(CallsOfNumber(n)) <= NumberMax[n]
      <3>1. ASSUME NEW c \in CallsOfNumber(n)
            PROVE  c \in LiveIn(numberExpiry[n])
        <4>1. c \in InService /\ Young(c) /\ Number(c) = n /\ c \in Calls
          BY DEF CallsOfNumber, InService
        <4>2. LeaseOf(c).number = n /\ n # NoNumber
          BY <4>1, LeaseAssumption DEF LeaseOf, Lease, LeaseAssumption
        <4>3. Takes(c)
          BY <2>2, <4>2 DEF Takes, Limited
        <4>4. Live(c) /\ calls[c].number = n /\ KeysAgreeFor(c)
          BY <2>1, <4>1, <4>2, <4>3
        <4> QED
          BY <4>1, <4>2, <4>4 DEF KeysAgreeFor, Live, LiveIn
      <3>2. /\ LiveIn(numberExpiry[n]) \in SUBSET Calls /\ NumberMax[n] \in Nat
            /\ CallsOfNumber(n) \in SUBSET LiveIn(numberExpiry[n])
            /\ Cardinality(LiveIn(numberExpiry[n])) <= NumberMax[n]
        BY <2>i, <2>2, <3>1, LeaseAssumption DEF LiveIn, CapacityRespected, LeaseAssumption
      <3> QED
        BY <3>2, LeaseAssumption, FewerLive
    <2>3. ASSUME NEW g \in Gateways, TrunkMax[g] > 0
          PROVE  Cardinality(CallsOfTrunk(g)) <= TrunkMax[g]
      <3>1. ASSUME NEW c \in CallsOfTrunk(g)
            PROVE  c \in LiveIn(trunkExpiry[g])
        <4>1. c \in InService /\ Young(c) /\ LeaseOf(c).gateway = g /\ c \in Calls
          BY DEF CallsOfTrunk, InService
        <4>2. Takes(c)
          BY <2>3, <4>1 DEF Takes, Limited
        <4>3. Live(c) /\ calls[c].gateway = g /\ KeysAgreeFor(c)
          BY <2>1, <4>1, <4>2
        <4> QED
          BY <4>1, <4>3 DEF KeysAgreeFor, Live, LiveIn
      <3>2. /\ LiveIn(trunkExpiry[g]) \in SUBSET Calls /\ TrunkMax[g] \in Nat
            /\ CallsOfTrunk(g) \in SUBSET LiveIn(trunkExpiry[g])
            /\ Cardinality(LiveIn(trunkExpiry[g])) <= TrunkMax[g]
        BY <2>i, <2>3, <3>1, LeaseAssumption DEF LiveIn, CapacityRespected, LeaseAssumption
      <3> QED
        BY <3>2, LeaseAssumption, FewerLive
    <2> QED
      BY <2>2, <2>3 DEF WithinLimits
  <1> QED
    BY <1>1, LifecycleInvariant, PTL

(* A lease outlives its call only until a release under way, or, in the     *)
(* cases named by stranded, for one TTL from its grant.                     *)
THEOREM LeasesNotStranded == LSpec => []NothingStranded
  <1>1. LIInv => NothingStranded
    BY DEF LIInv, InOrder, NothingStranded
  <1> QED
    BY <1>1, LifecycleInvariant, PTL
=============================================================================
