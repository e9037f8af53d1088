----------------------- MODULE SessionAccountingProofs -----------------------
(***************************************************************************)
(* Proofs about SessionAccounting, for any calls, routes and limits and    *)
(* for any number of enders that cross.                                    *)
(*                                                                         *)
(* What an ender has left to do is named by the step it is at, and a call   *)
(* is counted in a counter as long as its session promises that somebody   *)
(* will count it out, or an ender is bound to.  Each counter is at most    *)
(* the number of calls so counted, and exactly that number while enders do *)
(* not cross.                                                              *)
(***************************************************************************)
EXTENDS SessionAccounting, TLAPS, FiniteSetTheorems, SequenceTheorems

Byes == {"callerBye", "gatewayBye"}

(* From(k)[s]: what an ender of kind k has left to do when it is at s, and  *)
(* After(k)[s]: the step it is at after s.                                 *)
ByeFrom ==
  [nothing |-> <<>>, endOrSkip |-> ByePlan,
   dropGateway |-> <<"dropGateway", "needSession", "dropUser", "dropTenant", "remove">>,
   needSession |-> <<"needSession", "dropUser", "dropTenant", "remove">>,
   dropUser |-> <<"dropUser", "dropTenant", "remove">>,
   dropTenant |-> <<"dropTenant", "remove">>, remove |-> <<"remove">>]
FailureFrom ==
  [nothing |-> <<>>, reply |-> <<"reply">>, moveGateway |-> <<"moveGateway">>,
   readSession |-> FailurePlan,
   dropUser |-> <<"dropUser", "dropTenant", "dropGateway", "remove">>,
   dropTenant |-> <<"dropTenant", "dropGateway", "remove">>,
   dropGateway |-> <<"dropGateway", "remove">>, remove |-> <<"remove">>]
WatchdogFrom ==
  [nothing |-> <<>>,
   dropUser |-> <<"dropUser", "dropTenant", "remove", "dropGateway", "end">>,
   dropTenant |-> <<"dropTenant", "remove", "dropGateway", "end">>,
   remove |-> <<"remove", "dropGateway", "end">>,
   dropGateway |-> <<"dropGateway", "end">>, end |-> <<"end">>]
OperatorFrom ==
  [nothing |-> <<>>,
   dropUser |-> <<"dropUser", "dropTenant", "dropGateway", "removeOrStop", "end">>,
   dropTenant |-> <<"dropTenant", "dropGateway", "removeOrStop", "end">>,
   dropGateway |-> <<"dropGateway", "removeOrStop", "end">>,
   removeOrStop |-> <<"removeOrStop", "end">>, end |-> <<"end">>]
HangupFrom ==
  [nothing |-> <<>>,
   dropGateway |-> <<"dropGateway", "dropUser", "dropTenant", "end">>,
   dropUser |-> <<"dropUser", "dropTenant", "end">>,
   dropTenant |-> <<"dropTenant", "end">>, end |-> <<"end">>]
From(k) ==
  IF k \in Byes THEN ByeFrom ELSE IF k = "failure" THEN FailureFrom
  ELSE IF k = "watchdog" THEN WatchdogFrom ELSE IF k = "operator" THEN OperatorFrom
  ELSE HangupFrom

ByeAfter ==
  [endOrSkip |-> "dropGateway", dropGateway |-> "needSession", needSession |-> "dropUser",
   dropUser |-> "dropTenant", dropTenant |-> "remove", remove |-> "nothing"]
FailureAfter ==
  [reply |-> "nothing", moveGateway |-> "nothing", readSession |-> "dropUser",
   dropUser |-> "dropTenant", dropTenant |-> "dropGateway", dropGateway |-> "remove",
   remove |-> "nothing"]
WatchdogAfter ==
  [dropUser |-> "dropTenant", dropTenant |-> "remove", remove |-> "dropGateway",
   dropGateway |-> "end", end |-> "nothing"]
OperatorAfter ==
  [dropUser |-> "dropTenant", dropTenant |-> "dropGateway", dropGateway |-> "removeOrStop",
   removeOrStop |-> "end", end |-> "nothing"]
HangupAfter ==
  [dropGateway |-> "dropUser", dropUser |-> "dropTenant", dropTenant |-> "end",
   end |-> "nothing"]
After(k) ==
  IF k \in Byes THEN ByeAfter ELSE IF k = "failure" THEN FailureAfter
  ELSE IF k = "watchdog" THEN WatchdogAfter ELSE IF k = "operator" THEN OperatorAfter
  ELSE HangupAfter

Points(k) == DOMAIN From(k)
Now(c, k) == IF Todo(c, k) = <<>> THEN "nothing" ELSE Head(Todo(c, k))
Resting(c) == \A k \in Kinds : Now(c, k) = "nothing"

(* Every ender is on its plan, and one that has nothing to do is idle.     *)
OnPlan ==
  \A c \in Calls, k \in Kinds :
    /\ Now(c, k) \in Points(k)
    /\ Todo(c, k) = From(k)[Now(c, k)]
    /\ Now(c, k) = "nothing" => task[c][k] = Idle

-----------------------------------------------------------------------------
(* Where an ender is bound to count out, and where it has done so and has   *)
(* the session still to remove.                                            *)
OwesUser(k) == IF k = "hangup" THEN {"dropGateway", "dropUser"} ELSE {"dropUser"}
GaveUser(k) ==
  IF k = "hangup" THEN {}
  ELSE {"dropTenant", "remove", "removeOrStop"}
         \cup (IF k \in {"failure", "operator"} THEN {"dropGateway"} ELSE {})
OwesTenant(k) == OwesUser(k) \cup {"dropTenant"}
GaveTenant(k) == GaveUser(k) \ {"dropTenant"}
OwesGateway(k) ==
  IF k \in Byes \cup {"hangup"} THEN {"dropGateway"}
  ELSE {"readSession", "dropUser", "dropTenant", "dropGateway"}
         \cup (IF k = "watchdog" THEN {"remove"} ELSE {})
GaveGateway(k) ==
  IF k \in Byes THEN {"needSession", "dropUser", "dropTenant", "remove"}
  ELSE IF k = "failure" THEN {"remove"}
  ELSE IF k = "operator" THEN {"removeOrStop"} ELSE {}

CountsUser(c) ==
  /\ stage[c] \in {"userCounted", "tenantSet", "counted", "sent"}
  /\ \/ c \in early
     \/ \E k \in Kinds : Now(c, k) \in OwesUser(k)
     \/ session[c] # "none" /\ \A k \in Kinds : Now(c, k) \notin GaveUser(k)
CountsTenant(c) ==
  /\ stage[c] \in {"counted", "sent"}
  /\ \/ c \in early
     \/ \E k \in Kinds : Now(c, k) \in OwesTenant(k)
     \/ session[c] # "none" /\ \A k \in Kinds : Now(c, k) \notin GaveTenant(k)

(* A failover has the next route before it moves the slot. *)
SlotOf(c) == IF Now(c, "failure") = "moveGateway" THEN route[c] - 1 ELSE route[c]
CountsGateway(c, r) ==
  /\ stage[c] = "sent" /\ SlotOf(c) = r
  /\ \/ \E k \in Kinds : Now(c, k) \in OwesGateway(k)
     \/ session[c] # "none" /\ \A k \in Kinds : Now(c, k) \notin GaveGateway(k)

CountedUsers == {c \in Calls : CountsUser(c)}
CountedTenants == {c \in Calls : CountsTenant(c)}
CountedOn(r) == {c \in Calls : CountsGateway(c, r)}

-----------------------------------------------------------------------------
(* A call nobody has ended early has its session from "remembered" on, with *)
(* the tenant once that is set, and no ender before its INVITE is sent.     *)
Orderly(c) ==
  /\ stage[c] # "sent" => Resting(c)
  /\ stage[c] \in {"new", "rejected", "checked", "routed"} => session[c] = "none"
  /\ stage[c] \in {"remembered", "userCounted"} => session[c] = "bare"
  /\ stage[c] \in {"tenantSet", "counted"} => session[c] = "tenant"
  /\ stage[c] = "sent" => session[c] \in {"none", "tenant"}

(* An ender that will count the tenant out has it in its copy. *)
Carries(c) ==
  \A k \in Kinds :
    Now(c, k) \in OwesTenant(k)
        \cup (IF k \in Byes THEN {"endOrSkip", "dropGateway", "needSession"} ELSE {})
      => task[c][k].tenant

InOrder == \A c \in Calls \ early : Orderly(c) /\ Carries(c)
Moving == \A c \in Calls : Now(c, "failure") = "moveGateway" => route[c] > 1

AtMost ==
  /\ users <= Cardinality(CountedUsers)
  /\ tenants <= Cardinality(CountedTenants)

(* While enders come one after the other. *)
Tame == crossed = {} /\ early = {}

Gone(k) ==
  IF k = "hangup" THEN {"dropGateway", "dropUser", "dropTenant", "end"}
  ELSE IF k = "watchdog" THEN {"dropGateway", "end"} ELSE {"end"}

Serial(c) ==
  /\ \A k, l \in Kinds : Now(c, k) # "nothing" /\ Now(c, l) # "nothing" => k = l
  /\ stage[c] \in {"routed", "remembered", "userCounted", "tenantSet", "counted"} =>
       call[c] = "active"
  /\ stage[c] = "sent" /\ Resting(c) => (session[c] = "none" <=> call[c] = "over")
  /\ \A k \in Kinds :
       /\ Now(c, k) # "nothing" => (session[c] = "none" <=> Now(c, k) \in Gone(k))
       /\ k \in Byes \cup {"failure"} =>
            /\ Now(c, k) \in {"endOrSkip", "reply", "moveGateway"} => call[c] # "over"
            /\ Now(c, k) \notin {"endOrSkip", "reply", "moveGateway", "nothing"} => call[c] = "over"

Exact ==
  Tame => /\ \A c \in Calls : Serial(c)
          /\ users = Cardinality(CountedUsers)
          /\ tenants = Cardinality(CountedTenants)
          /\ \A r \in Routes : active[r] = Cardinality(CountedOn(r))

(* The calls between the check of a limit and the count it allowed. *)
UserPending == {c \in Calls : stage[c] \in {"checked", "routed", "remembered"}}
TenantPending ==
  {c \in Calls : stage[c] \in {"routed", "remembered", "userCounted", "tenantSet"}}
Bursts ==
  /\ Cardinality(Checking) <= peak
  /\ users + Cardinality(UserPending) < UserMax + peak
  /\ tenants + Cardinality(TenantPending) < TenantMax + peak

IInv == TypeOK /\ OnPlan /\ InOrder /\ Moving /\ AtMost /\ Exact /\ Bursts

-----------------------------------------------------------------------------
(* Plans. *)

(* A plan without its first step, or its first steps.                      *)
LEMMA DropOne ==
  ASSUME NEW S, NEW q \in Seq(S), q # <<>>
  PROVE  Drop(q, 1) = Tail(q)
  BY TailIsSubSeq DEF Drop

LEMMA DropMore ==
  ASSUME NEW S, NEW q \in Seq(S), NEW n \in Nat, n < Len(q)
  PROVE  Drop(q, n + 1) = Tail(Drop(q, n))
  <1>1. n + 1 \in 1 .. Len(q) + 1 /\ Len(q) \in n + 1 .. Len(q) /\ Len(q) \in Nat
    BY LenProperties
  <1>2. Tail(SubSeq(q, n + 1, Len(q))) = SubSeq(q, (n + 1) + 1, Len(q))
    BY <1>1, HeadTailOfSubSeq
  <1> QED
    BY <1>2 DEF Drop

LEMMA DropThree ==
  ASSUME NEW S, NEW q \in Seq(S), Len(q) > 2
  PROVE  Drop(q, 2) = Tail(Tail(q)) /\ Drop(q, 3) = Tail(Tail(Tail(q)))
  <1>1. q # <<>> /\ Len(q) \in Nat
    BY LenProperties
  <1>2. Drop(q, 1) = Tail(q)
    BY <1>1, DropOne
  <1>3. Drop(q, 1 + 1) = Tail(Drop(q, 1))
    BY <1>1, DropMore
  <1>4. Drop(q, 2 + 1) = Tail(Drop(q, 2))
    BY <1>1, DropMore
  <1>5. 1 + 1 = 2 /\ 2 + 1 = 3
    OBVIOUS
  <1> QED
    BY <1>2, <1>3, <1>4, <1>5

(* The steps of each kind of ender.                                       *)
LEMMA KindsAre ==
  ASSUME NEW k \in Kinds
  PROVE  k \in Byes \/ k = "failure" \/ k = "watchdog" \/ k = "operator" \/ k = "hangup"
  BY DEF Kinds, GatewayKinds, Byes

LEMMA FromIs ==
  ASSUME NEW k \in Kinds
  PROVE  /\ k \in Byes => From(k) = ByeFrom /\ After(k) = ByeAfter
         /\ k = "failure" => From(k) = FailureFrom /\ After(k) = FailureAfter
         /\ k = "watchdog" => From(k) = WatchdogFrom /\ After(k) = WatchdogAfter
         /\ k = "operator" => From(k) = OperatorFrom /\ After(k) = OperatorAfter
         /\ k = "hangup" => From(k) = HangupFrom /\ After(k) = HangupAfter
  BY DEF From, After, Byes

LEMMA PointsAre ==
  ASSUME NEW k \in Kinds
  PROVE  /\ k \in Byes => Points(k) = {"nothing", "endOrSkip", "dropGateway", "needSession", "dropUser", "dropTenant", "remove"}
         /\ k = "failure" => Points(k) = {"nothing", "reply", "moveGateway", "readSession", "dropUser", "dropTenant", "dropGateway", "remove"}
         /\ k = "watchdog" => Points(k) = {"nothing", "dropUser", "dropTenant", "remove", "dropGateway", "end"}
         /\ k = "operator" => Points(k) = {"nothing", "dropUser", "dropTenant", "dropGateway", "removeOrStop", "end"}
         /\ k = "hangup" => Points(k) = {"nothing", "dropGateway", "dropUser", "dropTenant", "end"}
  <1>1. DOMAIN ByeFrom = {"nothing", "endOrSkip", "dropGateway", "needSession", "dropUser", "dropTenant", "remove"}
    BY DEF ByeFrom
  <1>2. DOMAIN FailureFrom = {"nothing", "reply", "moveGateway", "readSession", "dropUser", "dropTenant", "dropGateway", "remove"}
    BY DEF FailureFrom
  <1>3. DOMAIN WatchdogFrom = {"nothing", "dropUser", "dropTenant", "remove", "dropGateway", "end"}
    BY DEF WatchdogFrom
  <1>4. DOMAIN OperatorFrom = {"nothing", "dropUser", "dropTenant", "dropGateway", "removeOrStop", "end"}
    BY DEF OperatorFrom
  <1>5. DOMAIN HangupFrom = {"nothing", "dropGateway", "dropUser", "dropTenant", "end"}
    BY DEF HangupFrom
  <1> QED
    BY <1>1, <1>2, <1>3, <1>4, <1>5, FromIs DEF Points

(* Plans, step by step: a plan is what is left at its first step.          *)
LEMMA ByePlans ==
  ASSUME NEW p \in {"nothing", "endOrSkip", "dropGateway", "needSession", "dropUser", "dropTenant", "remove"}
  PROVE  /\ ByeFrom[p] \in Seq(Steps)
         /\ p = "nothing" <=> ByeFrom[p] = <<>>
         /\ p # "nothing" => /\ Head(ByeFrom[p]) = p
                            /\ ByeAfter[p] \in {"nothing", "endOrSkip", "dropGateway", "needSession", "dropUser", "dropTenant", "remove"}
                            /\ Tail(ByeFrom[p]) = ByeFrom[ByeAfter[p]]
  <1>1. /\ ByeFrom["nothing"] \in Seq(Steps)
        /\ ByeFrom["endOrSkip"] \in Seq(Steps)
        /\ ByeFrom["dropGateway"] \in Seq(Steps)
        /\ ByeFrom["needSession"] \in Seq(Steps)
        /\ ByeFrom["dropUser"] \in Seq(Steps)
        /\ ByeFrom["dropTenant"] \in Seq(Steps)
        /\ ByeFrom["remove"] \in Seq(Steps)
    BY DEF ByeFrom, ByePlan, Steps
  <1>2. /\ ByeFrom["endOrSkip"] # <<>>
        /\ ByeFrom["dropGateway"] # <<>>
        /\ ByeFrom["needSession"] # <<>>
        /\ ByeFrom["dropUser"] # <<>>
        /\ ByeFrom["dropTenant"] # <<>>
        /\ ByeFrom["remove"] # <<>>
    BY DEF ByeFrom, ByePlan
  <1>3. p = "nothing" => ByeFrom[p] = <<>>
    BY DEF ByeFrom
  <1>4. p # "nothing" => Head(ByeFrom[p]) = p
    BY DEF ByeFrom, ByePlan
  <1>5. /\ ByeAfter["endOrSkip"] = "dropGateway" /\ Tail(ByeFrom["endOrSkip"]) = ByeFrom["dropGateway"]
        /\ ByeAfter["dropGateway"] = "needSession" /\ Tail(ByeFrom["dropGateway"]) = ByeFrom["needSession"]
        /\ ByeAfter["needSession"] = "dropUser" /\ Tail(ByeFrom["needSession"]) = ByeFrom["dropUser"]
        /\ ByeAfter["dropUser"] = "dropTenant" /\ Tail(ByeFrom["dropUser"]) = ByeFrom["dropTenant"]
        /\ ByeAfter["dropTenant"] = "remove" /\ Tail(ByeFrom["dropTenant"]) = ByeFrom["remove"]
        /\ ByeAfter["remove"] = "nothing" /\ Tail(ByeFrom["remove"]) = ByeFrom["nothing"]
    BY DEF ByeFrom, ByeAfter, ByePlan
  <1> QED
    BY <1>1, <1>2, <1>3, <1>4, <1>5

LEMMA FailurePlans ==
  ASSUME NEW p \in {"nothing", "reply", "moveGateway", "readSession", "dropUser", "dropTenant", "dropGateway", "remove"}
  PROVE  /\ FailureFrom[p] \in Seq(Steps)
         /\ p = "nothing" <=> FailureFrom[p] = <<>>
         /\ p # "nothing" => /\ Head(FailureFrom[p]) = p
                            /\ FailureAfter[p] \in {"nothing", "reply", "moveGateway", "readSession", "dropUser", "dropTenant", "dropGateway", "remove"}
                            /\ Tail(FailureFrom[p]) = FailureFrom[FailureAfter[p]]
  <1>1. /\ FailureFrom["nothing"] \in Seq(Steps)
        /\ FailureFrom["reply"] \in Seq(Steps)
        /\ FailureFrom["moveGateway"] \in Seq(Steps)
        /\ FailureFrom["readSession"] \in Seq(Steps)
        /\ FailureFrom["dropUser"] \in Seq(Steps)
        /\ FailureFrom["dropTenant"] \in Seq(Steps)
        /\ FailureFrom["dropGateway"] \in Seq(Steps)
        /\ FailureFrom["remove"] \in Seq(Steps)
    BY DEF FailureFrom, FailurePlan, Steps
  <1>2. /\ FailureFrom["reply"] # <<>>
        /\ FailureFrom["moveGateway"] # <<>>
        /\ FailureFrom["readSession"] # <<>>
        /\ FailureFrom["dropUser"] # <<>>
        /\ FailureFrom["dropTenant"] # <<>>
        /\ FailureFrom["dropGateway"] # <<>>
        /\ FailureFrom["remove"] # <<>>
    BY DEF FailureFrom, FailurePlan
  <1>3. p = "nothing" => FailureFrom[p] = <<>>
    BY DEF FailureFrom
  <1>4. p # "nothing" => Head(FailureFrom[p]) = p
    BY DEF FailureFrom, FailurePlan
  <1>5. /\ FailureAfter["reply"] = "nothing" /\ Tail(FailureFrom["reply"]) = FailureFrom["nothing"]
        /\ FailureAfter["moveGateway"] = "nothing" /\ Tail(FailureFrom["moveGateway"]) = FailureFrom["nothing"]
        /\ FailureAfter["readSession"] = "dropUser" /\ Tail(FailureFrom["readSession"]) = FailureFrom["dropUser"]
        /\ FailureAfter["dropUser"] = "dropTenant" /\ Tail(FailureFrom["dropUser"]) = FailureFrom["dropTenant"]
        /\ FailureAfter["dropTenant"] = "dropGateway" /\ Tail(FailureFrom["dropTenant"]) = FailureFrom["dropGateway"]
        /\ FailureAfter["dropGateway"] = "remove" /\ Tail(FailureFrom["dropGateway"]) = FailureFrom["remove"]
        /\ FailureAfter["remove"] = "nothing" /\ Tail(FailureFrom["remove"]) = FailureFrom["nothing"]
    BY DEF FailureFrom, FailureAfter, FailurePlan
  <1> QED
    BY <1>1, <1>2, <1>3, <1>4, <1>5

LEMMA WatchdogPlans ==
  ASSUME NEW p \in {"nothing", "dropUser", "dropTenant", "remove", "dropGateway", "end"}
  PROVE  /\ WatchdogFrom[p] \in Seq(Steps)
         /\ p = "nothing" <=> WatchdogFrom[p] = <<>>
         /\ p # "nothing" => /\ Head(WatchdogFrom[p]) = p
                            /\ WatchdogAfter[p] \in {"nothing", "dropUser", "dropTenant", "remove", "dropGateway", "end"}
                            /\ Tail(WatchdogFrom[p]) = WatchdogFrom[WatchdogAfter[p]]
  <1>1. /\ WatchdogFrom["nothing"] \in Seq(Steps)
        /\ WatchdogFrom["dropUser"] \in Seq(Steps)
        /\ WatchdogFrom["dropTenant"] \in Seq(Steps)
        /\ WatchdogFrom["remove"] \in Seq(Steps)
        /\ WatchdogFrom["dropGateway"] \in Seq(Steps)
        /\ WatchdogFrom["end"] \in Seq(Steps)
    BY DEF WatchdogFrom, Steps
  <1>2. /\ WatchdogFrom["dropUser"] # <<>>
        /\ WatchdogFrom["dropTenant"] # <<>>
        /\ WatchdogFrom["remove"] # <<>>
        /\ WatchdogFrom["dropGateway"] # <<>>
        /\ WatchdogFrom["end"] # <<>>
    BY DEF WatchdogFrom
  <1>3. p = "nothing" => WatchdogFrom[p] = <<>>
    BY DEF WatchdogFrom
  <1>4. p # "nothing" => Head(WatchdogFrom[p]) = p
    BY DEF WatchdogFrom
  <1>5. /\ WatchdogAfter["dropUser"] = "dropTenant" /\ Tail(WatchdogFrom["dropUser"]) = WatchdogFrom["dropTenant"]
        /\ WatchdogAfter["dropTenant"] = "remove" /\ Tail(WatchdogFrom["dropTenant"]) = WatchdogFrom["remove"]
        /\ WatchdogAfter["remove"] = "dropGateway" /\ Tail(WatchdogFrom["remove"]) = WatchdogFrom["dropGateway"]
        /\ WatchdogAfter["dropGateway"] = "end" /\ Tail(WatchdogFrom["dropGateway"]) = WatchdogFrom["end"]
        /\ WatchdogAfter["end"] = "nothing" /\ Tail(WatchdogFrom["end"]) = WatchdogFrom["nothing"]
    BY DEF WatchdogFrom, WatchdogAfter
  <1> QED
    BY <1>1, <1>2, <1>3, <1>4, <1>5

LEMMA OperatorPlans ==
  ASSUME NEW p \in {"nothing", "dropUser", "dropTenant", "dropGateway", "removeOrStop", "end"}
  PROVE  /\ OperatorFrom[p] \in Seq(Steps)
         /\ p = "nothing" <=> OperatorFrom[p] = <<>>
         /\ p # "nothing" => /\ Head(OperatorFrom[p]) = p
                            /\ OperatorAfter[p] \in {"nothing", "dropUser", "dropTenant", "dropGateway", "removeOrStop", "end"}
                            /\ Tail(OperatorFrom[p]) = OperatorFrom[OperatorAfter[p]]
  <1>1. /\ OperatorFrom["nothing"] \in Seq(Steps)
        /\ OperatorFrom["dropUser"] \in Seq(Steps)
        /\ OperatorFrom["dropTenant"] \in Seq(Steps)
        /\ OperatorFrom["dropGateway"] \in Seq(Steps)
        /\ OperatorFrom["removeOrStop"] \in Seq(Steps)
        /\ OperatorFrom["end"] \in Seq(Steps)
    BY DEF OperatorFrom, Steps
  <1>2. /\ OperatorFrom["dropUser"] # <<>>
        /\ OperatorFrom["dropTenant"] # <<>>
        /\ OperatorFrom["dropGateway"] # <<>>
        /\ OperatorFrom["removeOrStop"] # <<>>
        /\ OperatorFrom["end"] # <<>>
    BY DEF OperatorFrom
  <1>3. p = "nothing" => OperatorFrom[p] = <<>>
    BY DEF OperatorFrom
  <1>4. p # "nothing" => Head(OperatorFrom[p]) = p
    BY DEF OperatorFrom
  <1>5. /\ OperatorAfter["dropUser"] = "dropTenant" /\ Tail(OperatorFrom["dropUser"]) = OperatorFrom["dropTenant"]
        /\ OperatorAfter["dropTenant"] = "dropGateway" /\ Tail(OperatorFrom["dropTenant"]) = OperatorFrom["dropGateway"]
        /\ OperatorAfter["dropGateway"] = "removeOrStop" /\ Tail(OperatorFrom["dropGateway"]) = OperatorFrom["removeOrStop"]
        /\ OperatorAfter["removeOrStop"] = "end" /\ Tail(OperatorFrom["removeOrStop"]) = OperatorFrom["end"]
        /\ OperatorAfter["end"] = "nothing" /\ Tail(OperatorFrom["end"]) = OperatorFrom["nothing"]
    BY DEF OperatorFrom, OperatorAfter
  <1> QED
    BY <1>1, <1>2, <1>3, <1>4, <1>5

LEMMA HangupPlans ==
  ASSUME NEW p \in {"nothing", "dropGateway", "dropUser", "dropTenant", "end"}
  PROVE  /\ HangupFrom[p] \in Seq(Steps)
         /\ p = "nothing" <=> HangupFrom[p] = <<>>
         /\ p # "nothing" => /\ Head(HangupFrom[p]) = p
                            /\ HangupAfter[p] \in {"nothing", "dropGateway", "dropUser", "dropTenant", "end"}
                            /\ Tail(HangupFrom[p]) = HangupFrom[HangupAfter[p]]
  <1>1. /\ HangupFrom["nothing"] \in Seq(Steps)
        /\ HangupFrom["dropGateway"] \in Seq(Steps)
        /\ HangupFrom["dropUser"] \in Seq(Steps)
        /\ HangupFrom["dropTenant"] \in Seq(Steps)
        /\ HangupFrom["end"] \in Seq(Steps)
    BY DEF HangupFrom, Steps
  <1>2. /\ HangupFrom["dropGateway"] # <<>>
        /\ HangupFrom["dropUser"] # <<>>
        /\ HangupFrom["dropTenant"] # <<>>
        /\ HangupFrom["end"] # <<>>
    BY DEF HangupFrom
  <1>3. p = "nothing" => HangupFrom[p] = <<>>
    BY DEF HangupFrom
  <1>4. p # "nothing" => Head(HangupFrom[p]) = p
    BY DEF HangupFrom
  <1>5. /\ HangupAfter["dropGateway"] = "dropUser" /\ Tail(HangupFrom["dropGateway"]) = HangupFrom["dropUser"]
        /\ HangupAfter["dropUser"] = "dropTenant" /\ Tail(HangupFrom["dropUser"]) = HangupFrom["dropTenant"]
        /\ HangupAfter["dropTenant"] = "end" /\ Tail(HangupFrom["dropTenant"]) = HangupFrom["end"]
        /\ HangupAfter["end"] = "nothing" /\ Tail(HangupFrom["end"]) = HangupFrom["nothing"]
    BY DEF HangupFrom, HangupAfter
  <1> QED
    BY <1>1, <1>2, <1>3, <1>4, <1>5

(* What is left to do is what comes from the step the ender is at.         *)
LEMMA PlanSteps ==
  ASSUME NEW k \in Kinds, NEW s \in Points(k)
  PROVE  /\ From(k)[s] \in Seq(Steps)
         /\ s = "nothing" <=> From(k)[s] = <<>>
         /\ s # "nothing" => /\ Head(From(k)[s]) = s
                            /\ After(k)[s] \in Points(k)
                            /\ Tail(From(k)[s]) = From(k)[After(k)[s]]
  <1>1. CASE k \in Byes
    <2>1. Points(k) = {"nothing", "endOrSkip", "dropGateway", "needSession", "dropUser", "dropTenant", "remove"}
      BY <1>1, PointsAre
    <2>2. From(k) = ByeFrom /\ After(k) = ByeAfter
      BY <1>1, FromIs
    <2> QED
      BY <2>1, <2>2, ByePlans
  <1>2. CASE k = "failure"
    <2>1. Points(k) = {"nothing", "reply", "moveGateway", "readSession", "dropUser", "dropTenant", "dropGateway", "remove"}
      BY <1>2, PointsAre
    <2>2. From(k) = FailureFrom /\ After(k) = FailureAfter
      BY <1>2, FromIs
    <2> QED
      BY SMTT(30), <2>1, <2>2, FailurePlans
  <1>3. CASE k = "watchdog"
    <2>1. Points(k) = {"nothing", "dropUser", "dropTenant", "remove", "dropGateway", "end"}
      BY <1>3, PointsAre
    <2>2. From(k) = WatchdogFrom /\ After(k) = WatchdogAfter
      BY <1>3, FromIs
    <2> QED
      BY <2>1, <2>2, WatchdogPlans
  <1>4. CASE k = "operator"
    <2>1. Points(k) = {"nothing", "dropUser", "dropTenant", "dropGateway", "removeOrStop", "end"}
      BY <1>4, PointsAre
    <2>2. From(k) = OperatorFrom /\ After(k) = OperatorAfter
      BY <1>4, FromIs
    <2> QED
      BY <2>1, <2>2, OperatorPlans
  <1>5. CASE k = "hangup"
    <2>1. Points(k) = {"nothing", "dropGateway", "dropUser", "dropTenant", "end"}
      BY <1>5, PointsAre
    <2>2. From(k) = HangupFrom /\ After(k) = HangupAfter
      BY <1>5, FromIs
    <2> QED
      BY <2>1, <2>2, HangupPlans
  <1> QED
    BY <1>1, <1>2, <1>3, <1>4, <1>5, KindsAre

LEMMA Continued ==
  ASSUME NEW k \in Kinds, NEW s \in Points(k), s # "nothing"
  PROVE  After(k)[s] \in Points(k) /\ Drop(From(k)[s], 1) = From(k)[After(k)[s]]
  <1>1. From(k)[s] \in Seq(Steps) /\ From(k)[s] # <<>>
    BY PlanSteps
  <1>2. Drop(From(k)[s], 1) = Tail(From(k)[s])
    BY <1>1, DropOne
  <1> QED
    BY <1>2, PlanSteps

(* The steps left out when the call is over, or the session is gone.       *)
LEMMA Skipped ==
  /\ \A k \in Byes : Drop(From(k)["endOrSkip"], 2) = From(k)["needSession"]
  /\ Drop(From("failure")["readSession"], 3) = From("failure")["dropGateway"]
  <1>1. /\ ByePlan \in Seq(Steps) /\ Len(ByePlan) > 2
        /\ FailurePlan \in Seq(Steps) /\ Len(FailurePlan) > 2
    BY DEF ByePlan, FailurePlan, Steps
  <1>2. Drop(ByePlan, 2) = Tail(Tail(ByePlan))
    BY <1>1, DropThree
  <1>3. Drop(FailurePlan, 3) = Tail(Tail(Tail(FailurePlan)))
    BY <1>1, DropThree
  <1>4. Tail(Tail(ByePlan)) = <<"needSession", "dropUser", "dropTenant", "remove">>
    BY DEF ByePlan
  <1>5. Tail(Tail(Tail(FailurePlan))) = <<"dropGateway", "remove">>
    BY DEF FailurePlan
  <1>6. ASSUME NEW k \in Byes
        PROVE  From(k)["endOrSkip"] = ByePlan
               /\ From(k)["needSession"] = <<"needSession", "dropUser", "dropTenant", "remove">>
    <2>1. From(k) = ByeFrom
      BY FromIs DEF Byes, Kinds, GatewayKinds
    <2> QED
      BY <2>1 DEF ByeFrom
  <1>7. From("failure")["readSession"] = FailurePlan
        /\ From("failure")["dropGateway"] = <<"dropGateway", "remove">>
    <2>1. From("failure") = FailureFrom
      BY FromIs DEF Kinds, GatewayKinds
    <2> QED
      BY <2>1 DEF FailureFrom
  <1> QED
    BY <1>2, <1>3, <1>4, <1>5, <1>6, <1>7

(* Which step follows which, for each kind of ender that has it.           *)
LEMMA Successors ==
  ASSUME NEW k \in Kinds, NEW s \in Points(k)
  PROVE  /\ s = "dropUser" => After(k)[s] = "dropTenant"
         /\ s = "dropTenant" =>
              After(k)[s] = IF k \in Byes \cup {"watchdog"} THEN "remove"
                            ELSE IF k = "hangup" THEN "end" ELSE "dropGateway"
         /\ s = "dropGateway" =>
              After(k)[s] = IF k \in Byes THEN "needSession" ELSE IF k = "failure" THEN "remove"
                            ELSE IF k = "watchdog" THEN "end"
                            ELSE IF k = "operator" THEN "removeOrStop" ELSE "dropUser"
         /\ s = "remove" => /\ k \in Byes \cup {"failure", "watchdog"}
                            /\ After(k)[s] = IF k = "watchdog" THEN "dropGateway" ELSE "nothing"
         /\ s = "end" => k \in {"watchdog", "operator", "hangup"} /\ After(k)[s] = "nothing"
         /\ s = "endOrSkip" => k \in Byes /\ After(k)[s] = "dropGateway"
         /\ s = "needSession" => k \in Byes /\ After(k)[s] = "dropUser"
         /\ s = "readSession" => k = "failure" /\ After(k)[s] = "dropUser"
         /\ s = "removeOrStop" => k = "operator" /\ After(k)[s] = "end"
         /\ s \in {"reply", "moveGateway"} => k = "failure" /\ After(k)[s] = "nothing"
  <1>1. CASE k \in Byes
    <2>1. After(k) = ByeAfter /\ k \notin {"failure", "watchdog", "operator", "hangup"}
      BY <1>1, FromIs DEF Byes
    <2> QED
      BY <1>1, <2>1, PointsAre DEF ByeAfter
  <1>2. CASE k = "failure"
    <2>1. After(k) = FailureAfter /\ k \notin Byes
      BY <1>2, FromIs DEF Byes
    <2> QED
      BY <1>2, <2>1, PointsAre DEF FailureAfter
  <1>3. CASE k = "watchdog"
    <2>1. After(k) = WatchdogAfter /\ k \notin Byes
      BY <1>3, FromIs DEF Byes
    <2> QED
      BY <1>3, <2>1, PointsAre DEF WatchdogAfter
  <1>4. CASE k = "operator"
    <2>1. After(k) = OperatorAfter /\ k \notin Byes
      BY <1>4, FromIs DEF Byes
    <2> QED
      BY <1>4, <2>1, PointsAre DEF OperatorAfter
  <1>5. CASE k = "hangup"
    <2>1. After(k) = HangupAfter /\ k \notin Byes
      BY <1>5, FromIs DEF Byes
    <2> QED
      BY <1>5, <2>1, PointsAre DEF HangupAfter
  <1> QED
    BY <1>1, <1>2, <1>3, <1>4, <1>5, KindsAre

-----------------------------------------------------------------------------
(* What one step of an ender does to the enders.                           *)

(* The ender k of c comes to t, with tenant in its copy of the session.    *)
Comes(c, k, t, tenant) ==
  task' = [task EXCEPT ![c][k] =
             IF t = "nothing" THEN Idle ELSE [todo |-> From(k)[t], tenant |-> tenant]]

(* It gets there from s, and nobody else moves.                            *)
Moves(c, k, s, t) ==
  /\ Now(c, k) = s /\ Now(c, k)' = t
  /\ \A d \in Calls, l \in Kinds :
       d # c \/ l # k => task'[d][l] = task[d][l] /\ Now(d, l)' = Now(d, l)

TaskOK == task \in [Calls -> [Kinds -> [todo : Seq(Steps), tenant : BOOLEAN]]]

LEMMA PointOf ==
  ASSUME NEW k \in Kinds, NEW t \in Points(k), NEW todo, todo = From(k)[t]
  PROVE  (IF todo = <<>> THEN "nothing" ELSE Head(todo)) = t
  BY PlanSteps

LEMMA ComesTo ==
  ASSUME TaskOK, OnPlan, NEW c \in Calls, NEW k \in Kinds, NEW t \in Points(k),
         NEW tenant \in BOOLEAN, Comes(c, k, t, tenant)
  PROVE  /\ TaskOK' /\ OnPlan'
         /\ Moves(c, k, Now(c, k), t)
         /\ t # "nothing" => task'[c][k].tenant = tenant
  <1> DEFINE new == IF t = "nothing" THEN Idle ELSE [todo |-> From(k)[t], tenant |-> tenant]
  <1>1. new \in [todo : Seq(Steps), tenant : BOOLEAN] /\ new.todo = From(k)[t]
    <2>1. From(k)[t] \in Seq(Steps) /\ (t = "nothing" => From(k)[t] = <<>>)
      BY PlanSteps
    <2> QED
      BY <2>1 DEF Idle
  <1>2. task' = [task EXCEPT ![c][k] = new]
    BY DEF Comes
  <1>3. /\ TaskOK'
        /\ task'[c][k] = new
        /\ \A d \in Calls, l \in Kinds : d # c \/ l # k => task'[d][l] = task[d][l]
    <2> HIDE DEF new
    <2> QED
      BY <1>1, <1>2 DEF TaskOK
  <1>4. Now(c, k)' = t /\ Todo(c, k)' = From(k)[t]
    BY <1>1, <1>3, PointOf DEF Now, Todo
  <1>5. \A d \in Calls, l \in Kinds :
          d # c \/ l # k => Now(d, l)' = Now(d, l) /\ Todo(d, l)' = Todo(d, l)
    BY <1>3 DEF Now, Todo
  <1>6. OnPlan'
    <2> SUFFICES ASSUME NEW d \in Calls, NEW l \in Kinds
                 PROVE  /\ Now(d, l)' \in Points(l)
                        /\ Todo(d, l)' = From(l)[Now(d, l)']
                        /\ Now(d, l)' = "nothing" => task'[d][l] = Idle
      BY DEF OnPlan, From, Points
    <2>1. CASE d = c /\ l = k
      BY <1>3, <1>4, <2>1
    <2>2. CASE d # c \/ l # k
      BY <1>3, <1>5, <2>2 DEF OnPlan
    <2> QED
      BY <2>1, <2>2
  <1>7. t # "nothing" => task'[c][k].tenant = tenant
    BY <1>3
  <1> QED
    BY <1>3, <1>4, <1>5, <1>6, <1>7 DEF Moves

(* SetTodo and Continue, in these terms.                                   *)
LEMMA DoingIs ==
  ASSUME TaskOK, OnPlan, NEW c \in Calls, NEW k \in Kinds, NEW s, Doing(c, k, s)
  PROVE  /\ Now(c, k) = s /\ s \in Points(k) /\ s # "nothing"
         /\ Todo(c, k) = From(k)[s] /\ task[c][k].tenant \in BOOLEAN
  <1>1. Now(c, k) = s /\ Todo(c, k) # <<>>
    BY DEF Doing, Now
  <1>2. s \in Points(k) /\ Todo(c, k) = From(k)[s]
    BY <1>1 DEF OnPlan
  <1>3. s # "nothing"
    BY <1>1, <1>2, PlanSteps
  <1>4. task[c][k].tenant \in BOOLEAN
    BY DEF TaskOK
  <1> QED
    BY <1>1, <1>2, <1>3, <1>4

LEMMA SetTodoComes ==
  ASSUME TaskOK, NEW c \in Calls, NEW k \in Kinds, NEW t \in Points(k),
         SetTodo(c, k, From(k)[t])
  PROVE  Comes(c, k, t, task[c][k].tenant)
  <1>1. t = "nothing" <=> From(k)[t] = <<>>
    BY PlanSteps
  <1>2. task[c][k] \in [todo : Seq(Steps), tenant : BOOLEAN]
    BY DEF TaskOK
  <1>3. [task[c][k] EXCEPT !.todo = From(k)[t]] = [todo |-> From(k)[t], tenant |-> task[c][k].tenant]
    BY <1>2
  <1>4. task' = [task EXCEPT ![c] = [@ EXCEPT ![k] =
                   IF From(k)[t] = <<>> THEN Idle ELSE [task[c][k] EXCEPT !.todo = From(k)[t]]]]
    BY DEF SetTodo
  <1> QED
    BY <1>1, <1>3, <1>4 DEF Comes

LEMMA SetTodoIs ==
  ASSUME TaskOK, OnPlan, NEW c \in Calls, NEW k \in Kinds, NEW s, Doing(c, k, s),
         NEW t \in Points(k), SetTodo(c, k, From(k)[t])
  PROVE  /\ TaskOK' /\ OnPlan' /\ s \in Points(k) /\ Moves(c, k, s, t)
         /\ t # "nothing" => task'[c][k].tenant = task[c][k].tenant
  BY DoingIs, SetTodoComes, ComesTo

LEMMA ContinueIs ==
  ASSUME TaskOK, OnPlan, NEW c \in Calls, NEW k \in Kinds, NEW s,
         Doing(c, k, s), Continue(c, k)
  PROVE  /\ TaskOK' /\ OnPlan' /\ s \in Points(k) /\ Moves(c, k, s, After(k)[s])
         /\ After(k)[s] # "nothing" => task'[c][k].tenant = task[c][k].tenant
  <1>1. s \in Points(k) /\ s # "nothing" /\ Todo(c, k) = From(k)[s]
    BY DoingIs
  <1>2. After(k)[s] \in Points(k) /\ Drop(From(k)[s], 1) = From(k)[After(k)[s]]
    BY <1>1, Continued
  <1>3. SetTodo(c, k, From(k)[After(k)[s]])
    BY <1>1, <1>2 DEF Continue
  <1> QED
    BY <1>1, <1>2, <1>3, SetTodoIs

(* The step an ender starts with.                                          *)
FirstPoint(c, k) ==
  IF k \in Byes THEN "endOrSkip" ELSE IF k = "failure" THEN "reply"
  ELSE IF k = "hangup" THEN (IF session[c] = "none" THEN "end" ELSE "dropGateway")
  ELSE "dropUser"

LEMMA PlanIsFrom ==
  ASSUME NEW c \in Calls, NEW k \in Kinds
  PROVE  /\ FirstPoint(c, k) \in Points(k) /\ FirstPoint(c, k) # "nothing"
         /\ Plan(c, k) = From(k)[FirstPoint(c, k)]
  <1>1. CASE k \in Byes
    <2>1. From(k) = ByeFrom
      BY <1>1, FromIs
    <2>2. Plan(c, k) = ByePlan
      BY <1>1 DEF Plan, Byes
    <2> QED
      BY <1>1, <2>1, <2>2, PointsAre DEF ByeFrom, FirstPoint
  <1>2. CASE k = "failure"
    <2>1. From(k) = FailureFrom
      BY <1>2, FromIs
    <2>2. Plan(c, k) = <<"reply">>
      BY <1>2 DEF Plan
    <2> QED
      BY <1>2, <2>1, <2>2, PointsAre DEF FailureFrom, FirstPoint, Byes
  <1>3. CASE k = "watchdog"
    <2>1. From(k) = WatchdogFrom
      BY <1>3, FromIs
    <2>2. Plan(c, k) = <<"dropUser", "dropTenant", "remove", "dropGateway", "end">>
      BY <1>3 DEF Plan
    <2> QED
      BY <1>3, <2>1, <2>2, PointsAre DEF WatchdogFrom, FirstPoint, Byes
  <1>4. CASE k = "operator"
    <2>1. From(k) = OperatorFrom
      BY <1>4, FromIs
    <2>2. Plan(c, k) = <<"dropUser", "dropTenant", "dropGateway", "removeOrStop", "end">>
      BY <1>4 DEF Plan
    <2> QED
      BY <1>4, <2>1, <2>2, PointsAre DEF OperatorFrom, FirstPoint, Byes
  <1>5. CASE k = "hangup"
    <2>1. From(k) = HangupFrom
      BY <1>5, FromIs
    <2>2. Plan(c, k) = IF session[c] = "none" THEN <<"end">>
                       ELSE <<"dropGateway", "dropUser", "dropTenant", "end">>
      BY <1>5 DEF Plan
    <2> QED
      BY <1>5, <2>1, <2>2, PointsAre DEF HangupFrom, FirstPoint, Byes
  <1> QED
    BY <1>1, <1>2, <1>3, <1>4, <1>5, KindsAre

LEMMA StartIs ==
  ASSUME TaskOK, OnPlan, NEW c \in Calls, NEW k \in Kinds, Start(c, k)
  PROVE  /\ TaskOK' /\ OnPlan' /\ FirstPoint(c, k) \in Points(k)
         /\ Moves(c, k, "nothing", FirstPoint(c, k))
         /\ FirstPoint(c, k) # "nothing"
         /\ task'[c][k].tenant = (session[c] = "tenant")
  <1> DEFINE t == FirstPoint(c, k)
  <1>1. t \in Points(k) /\ t # "nothing" /\ Plan(c, k) = From(k)[t]
    BY PlanIsFrom
  <1>2. Now(c, k) = "nothing"
    BY DEF Start, Idle, Now, Todo
  <1>3. Comes(c, k, t, session[c] = "tenant")
    <2> HIDE DEF t
    <2> QED
      BY <1>1 DEF Start, Comes
  <1>4. (session[c] = "tenant") \in BOOLEAN
    OBVIOUS
  <1> HIDE DEF t
  <1>5. /\ TaskOK' /\ OnPlan' /\ Moves(c, k, "nothing", t)
        /\ task'[c][k].tenant = (session[c] = "tenant")
    BY <1>1, <1>2, <1>3, <1>4, ComesTo
  <1> QED
    BY <1>1, <1>5 DEF t

LEMMA EndOrSkipIs ==
  ASSUME TaskOK, OnPlan, NEW c \in Calls, NEW k \in Kinds, EndOrSkip(c, k)
  PROVE  /\ TaskOK' /\ OnPlan' /\ k \in Byes
         /\ Moves(c, k, "endOrSkip", IF call[c] = "over" THEN "needSession" ELSE "dropGateway")
         /\ task'[c][k].tenant = task[c][k].tenant
  <1> DEFINE t == IF call[c] = "over" THEN "needSession" ELSE "dropGateway"
  <1>1. Doing(c, k, "endOrSkip") /\ SetTodo(c, k, Drop(Todo(c, k), IF call[c] = "over" THEN 2 ELSE 1))
    BY DEF EndOrSkip
  <1>2. Todo(c, k) = From(k)["endOrSkip"] /\ "endOrSkip" \in Points(k)
    BY <1>1, DoingIs
  <1>3. k \in Byes /\ After(k)["endOrSkip"] = "dropGateway"
    BY <1>2, Successors
  <1>4. t \in Points(k) /\ t # "nothing"
    BY <1>3, PointsAre
  <1>5. /\ Drop(From(k)["endOrSkip"], 2) = From(k)["needSession"]
        /\ Drop(From(k)["endOrSkip"], 1) = From(k)["dropGateway"]
    BY <1>2, <1>3, Skipped, Continued
  <1>6. SetTodo(c, k, From(k)[t])
    BY <1>1, <1>2, <1>5
  <1> HIDE DEF t
  <1>7. /\ TaskOK' /\ OnPlan' /\ Moves(c, k, "endOrSkip", t)
        /\ task'[c][k].tenant = task[c][k].tenant
    BY <1>1, <1>4, <1>6, SetTodoIs
  <1> QED
    BY <1>3, <1>7 DEF t

LEMMA NeedSessionIs ==
  ASSUME TaskOK, OnPlan, NEW c \in Calls, NEW k \in Kinds, NeedSession(c, k)
  PROVE  /\ TaskOK' /\ OnPlan' /\ k \in Byes
         /\ Moves(c, k, "needSession", IF session[c] = "none" THEN "nothing" ELSE "dropUser")
         /\ session[c] # "none" => task'[c][k].tenant = task[c][k].tenant
  <1> DEFINE t == IF session[c] = "none" THEN "nothing" ELSE "dropUser"
  <1>1. /\ Doing(c, k, "needSession")
        /\ SetTodo(c, k, IF session[c] = "none" THEN <<>> ELSE Drop(Todo(c, k), 1))
    BY DEF NeedSession
  <1>2. Todo(c, k) = From(k)["needSession"] /\ "needSession" \in Points(k)
    BY <1>1, DoingIs
  <1>3. k \in Byes /\ After(k)["needSession"] = "dropUser"
    BY <1>2, Successors
  <1>4. t \in Points(k) /\ From(k)["nothing"] = <<>>
    BY <1>3, PointsAre, PlanSteps
  <1>5. Drop(From(k)["needSession"], 1) = From(k)["dropUser"]
    BY <1>2, <1>3, Continued
  <1>6. SetTodo(c, k, From(k)[t])
    BY <1>1, <1>2, <1>4, <1>5
  <1>7. t # "nothing" <=> session[c] # "none"
    OBVIOUS
  <1> HIDE DEF t
  <1>8. /\ TaskOK' /\ OnPlan' /\ Moves(c, k, "needSession", t)
        /\ t # "nothing" => task'[c][k].tenant = task[c][k].tenant
    BY <1>1, <1>4, <1>6, SetTodoIs
  <1> QED
    BY <1>3, <1>7, <1>8 DEF t

LEMMA RemoveOrStopIs ==
  ASSUME TaskOK, OnPlan, NEW c \in Calls, NEW k \in Kinds, RemoveOrStop(c, k)
  PROVE  /\ TaskOK' /\ OnPlan' /\ k = "operator"
         /\ Moves(c, k, "removeOrStop", IF session[c] = "none" THEN "nothing" ELSE "end")
  <1> DEFINE t == IF session[c] = "none" THEN "nothing" ELSE "end"
  <1>1. /\ Doing(c, k, "removeOrStop")
        /\ SetTodo(c, k, IF session[c] = "none" THEN <<>> ELSE Drop(Todo(c, k), 1))
    BY DEF RemoveOrStop
  <1>2. Todo(c, k) = From(k)["removeOrStop"] /\ "removeOrStop" \in Points(k)
    BY <1>1, DoingIs
  <1>3. k = "operator" /\ After(k)["removeOrStop"] = "end"
    BY <1>2, Successors
  <1>4. t \in Points(k) /\ From(k)["nothing"] = <<>>
    BY <1>3, PointsAre, PlanSteps
  <1>5. Drop(From(k)["removeOrStop"], 1) = From(k)["end"]
    BY <1>2, <1>3, Continued
  <1>6. SetTodo(c, k, From(k)[t])
    BY <1>1, <1>2, <1>4, <1>5
  <1> HIDE DEF t
  <1>7. TaskOK' /\ OnPlan' /\ Moves(c, k, "removeOrStop", t)
    BY <1>1, <1>4, <1>6, SetTodoIs
  <1> QED
    BY <1>3, <1>7 DEF t

LEMMA ReadSessionIs ==
  ASSUME TaskOK, OnPlan, NEW c \in Calls, NEW k \in Kinds, ReadSession(c, k)
  PROVE  /\ TaskOK' /\ OnPlan' /\ k = "failure"
         /\ Moves(c, k, "readSession", IF session[c] = "none" THEN "dropGateway" ELSE "dropUser")
         /\ task'[c][k].tenant = (session[c] = "tenant")
  <1> DEFINE t == IF session[c] = "none" THEN "dropGateway" ELSE "dropUser"
             n == IF session[c] = "none" THEN 3 ELSE 1
  <1>1. /\ Doing(c, k, "readSession")
        /\ task' = [task EXCEPT ![c] = [@ EXCEPT ![k] =
             [todo |-> Drop(task[c][k].todo, n), tenant |-> session[c] = "tenant"]]]
    BY DEF ReadSession
  <1>2. /\ Todo(c, k) = From(k)["readSession"] /\ "readSession" \in Points(k)
        /\ Now(c, k) = "readSession"
    BY <1>1, DoingIs
  <1>3. k = "failure" /\ After(k)["readSession"] = "dropUser"
    BY <1>2, Successors
  <1>4. t \in Points(k) /\ t # "nothing"
    BY <1>3, PointsAre
  <1>5. /\ Drop(From(k)["readSession"], 3) = From(k)["dropGateway"]
        /\ Drop(From(k)["readSession"], 1) = From(k)["dropUser"]
    BY <1>2, <1>3, Skipped, Continued
  <1>6. Drop(task[c][k].todo, n) = From(k)[t]
    BY <1>2, <1>5 DEF Todo
  <1>7. (session[c] = "tenant") \in BOOLEAN
    OBVIOUS
  <1> HIDE DEF t, n
  <1>8. Comes(c, k, t, session[c] = "tenant")
    BY <1>1, <1>4, <1>6 DEF Comes
  <1>9. /\ TaskOK' /\ OnPlan' /\ Moves(c, k, "readSession", t)
        /\ task'[c][k].tenant = (session[c] = "tenant")
    BY <1>2, <1>4, <1>7, <1>8, ComesTo
  <1> QED
    BY <1>3, <1>9 DEF t

LEMMA DropTenantIs ==
  ASSUME TaskOK, OnPlan, NEW c \in Calls, NEW k \in Kinds, DropTenant(c, k)
  PROVE  /\ TaskOK' /\ OnPlan' /\ "dropTenant" \in Points(k)
         /\ Moves(c, k, "dropTenant", After(k)["dropTenant"])
  <1> DEFINE t == After(k)["dropTenant"]
  <1>1. /\ Doing(c, k, "dropTenant")
        /\ task' = [task EXCEPT ![c] = [@ EXCEPT ![k] =
             [todo |-> Drop(task[c][k].todo, 1), tenant |-> FALSE]]]
    BY DEF DropTenant
  <1>2. /\ Todo(c, k) = From(k)["dropTenant"] /\ "dropTenant" \in Points(k)
        /\ Now(c, k) = "dropTenant"
    BY <1>1, DoingIs
  <1>3. t \in Points(k) /\ Drop(task[c][k].todo, 1) = From(k)[t]
    BY <1>2, Continued DEF Todo
  <1>4. t # "nothing"
    BY <1>2, Successors
  <1> HIDE DEF t
  <1>5. Comes(c, k, t, FALSE)
    BY <1>1, <1>3, <1>4 DEF Comes
  <1>6. TaskOK' /\ OnPlan' /\ Moves(c, k, "dropTenant", t)
    BY <1>2, <1>3, <1>5, ComesTo
  <1> QED
    BY <1>2, <1>6 DEF t

LEMMA FailoverIs ==
  ASSUME TaskOK, OnPlan, NEW c \in Calls, ReplyFailsOver(c)
  PROVE  TaskOK' /\ OnPlan' /\ Moves(c, "failure", "reply", "moveGateway")
  <1>1. "failure" \in Kinds
    BY DEF Kinds, GatewayKinds
  <1>2. From("failure")["moveGateway"] = <<"moveGateway">> /\ "moveGateway" \in Points("failure")
    <2>1. From("failure") = FailureFrom
      BY <1>1, FromIs
    <2> QED
      BY <1>1, <2>1, PointsAre DEF FailureFrom
  <1>3. Doing(c, "failure", "reply") /\ SetTodo(c, "failure", From("failure")["moveGateway"])
    BY <1>2 DEF ReplyFailsOver
  <1> QED
    BY <1>1, <1>2, <1>3, SetTodoIs

LEMMA FailsIs ==
  ASSUME TaskOK, OnPlan, NEW c \in Calls, ReplyFails(c)
  PROVE  /\ TaskOK' /\ OnPlan'
         /\ Moves(c, "failure", "reply", IF call[c] = "over" THEN "nothing" ELSE "readSession")
  <1> DEFINE t == IF call[c] = "over" THEN "nothing" ELSE "readSession"
  <1>1. "failure" \in Kinds
    BY DEF Kinds, GatewayKinds
  <1>2. /\ From("failure")["nothing"] = <<>> /\ From("failure")["readSession"] = FailurePlan
        /\ t \in Points("failure")
    <2>1. From("failure") = FailureFrom
      BY <1>1, FromIs
    <2> QED
      BY <1>1, <2>1, PointsAre DEF FailureFrom
  <1>3. Doing(c, "failure", "reply") /\ SetTodo(c, "failure", From("failure")[t])
    BY <1>2 DEF ReplyFails
  <1> HIDE DEF t
  <1>4. TaskOK' /\ OnPlan' /\ Moves(c, "failure", "reply", t)
    BY <1>1, <1>2, <1>3, SetTodoIs
  <1> QED
    BY <1>4 DEF t

LEMMA MoveGatewayIs ==
  ASSUME TaskOK, OnPlan, NEW c \in Calls, MoveGateway(c)
  PROVE  TaskOK' /\ OnPlan' /\ Moves(c, "failure", "moveGateway", "nothing")
  <1>1. "failure" \in Kinds
    BY DEF Kinds, GatewayKinds
  <1>2. Doing(c, "failure", "moveGateway") /\ Continue(c, "failure")
    BY DEF MoveGateway
  <1>3. /\ TaskOK' /\ OnPlan' /\ "moveGateway" \in Points("failure")
        /\ Moves(c, "failure", "moveGateway", After("failure")["moveGateway"])
    BY <1>1, <1>2, ContinueIs
  <1>4. After("failure")["moveGateway"] = "nothing"
    BY <1>1, <1>3, Successors
  <1> QED
    BY <1>3, <1>4

(* The steps that go on to the next one.                                   *)
LEMMA DropUserIs ==
  ASSUME TaskOK, OnPlan, NEW c \in Calls, NEW k \in Kinds, DropUser(c, k)
  PROVE  /\ TaskOK' /\ OnPlan' /\ Moves(c, k, "dropUser", "dropTenant")
         /\ task'[c][k].tenant = task[c][k].tenant
  <1>1. Doing(c, k, "dropUser") /\ Continue(c, k)
    BY DEF DropUser
  <1>2. /\ TaskOK' /\ OnPlan' /\ "dropUser" \in Points(k)
        /\ Moves(c, k, "dropUser", After(k)["dropUser"])
        /\ After(k)["dropUser"] # "nothing" => task'[c][k].tenant = task[c][k].tenant
    BY <1>1, ContinueIs
  <1>3. After(k)["dropUser"] = "dropTenant"
    BY <1>2, Successors
  <1> QED
    BY <1>2, <1>3

LEMMA DropGatewayIs ==
  ASSUME TaskOK, OnPlan, NEW c \in Calls, NEW k \in Kinds, DropGateway(c, k)
  PROVE  /\ TaskOK' /\ OnPlan' /\ "dropGateway" \in Points(k)
         /\ Moves(c, k, "dropGateway", After(k)["dropGateway"])
         /\ task'[c][k].tenant = task[c][k].tenant
  <1>1. Doing(c, k, "dropGateway") /\ Continue(c, k)
    BY DEF DropGateway
  <1>2. /\ TaskOK' /\ OnPlan' /\ "dropGateway" \in Points(k)
        /\ Moves(c, k, "dropGateway", After(k)["dropGateway"])
        /\ After(k)["dropGateway"] # "nothing" => task'[c][k].tenant = task[c][k].tenant
    BY <1>1, ContinueIs
  <1>3. After(k)["dropGateway"] # "nothing"
    BY <1>2, Successors
  <1> QED
    BY <1>2, <1>3

LEMMA RemoveIs ==
  ASSUME TaskOK, OnPlan, NEW c \in Calls, NEW k \in Kinds, Remove(c, k)
  PROVE  /\ TaskOK' /\ OnPlan' /\ k \in Byes \cup {"failure", "watchdog"}
         /\ Moves(c, k, "remove", IF k = "watchdog" THEN "dropGateway" ELSE "nothing")
  <1>1. Doing(c, k, "remove") /\ Continue(c, k)
    BY DEF Remove
  <1>2. /\ TaskOK' /\ OnPlan' /\ "remove" \in Points(k)
        /\ Moves(c, k, "remove", After(k)["remove"])
    BY <1>1, ContinueIs
  <1> QED
    BY <1>2, Successors

LEMMA EndIs ==
  ASSUME TaskOK, OnPlan, NEW c \in Calls, NEW k \in Kinds, End(c, k)
  PROVE  /\ TaskOK' /\ OnPlan' /\ k \in {"watchdog", "operator", "hangup"}
         /\ Moves(c, k, "end", "nothing")
  <1>1. Doing(c, k, "end") /\ Continue(c, k)
    BY DEF End
  <1>2. /\ TaskOK' /\ OnPlan' /\ "end" \in Points(k)
        /\ Moves(c, k, "end", After(k)["end"])
    BY <1>1, ContinueIs
  <1>3. k \in {"watchdog", "operator", "hangup"} /\ After(k)["end"] = "nothing"
    BY <1>2, Successors
  <1> QED
    BY <1>2, <1>3

(* Nobody moves while an INVITE does.                                      *)
LEMMA NobodyMoves ==
  ASSUME UNCHANGED task
  PROVE  /\ TaskOK => TaskOK'
         /\ OnPlan => OnPlan'
         /\ \A d, l : Now(d, l)' = Now(d, l) /\ task'[d][l] = task[d][l]
  BY DEF TaskOK, OnPlan, Now, Todo, Points, From

-----------------------------------------------------------------------------
(* One step, of the INVITE of c or of the ender k of c. *)

StepOf(c, k) ==
  Inviting(c) \/ Answer(c) \/ ReplyFailsOver(c) \/ ReplyFails(c) \/ MoveGateway(c) \/ Ending(c, k)

LEMMA OneStep ==
  ASSUME Next
  PROVE  \E c \in Calls, k \in Kinds : StepOf(c, k)
  <1>1. "failure" \in Kinds
    BY DEF Kinds, GatewayKinds
  <1> QED
    BY <1>1 DEF Next, StepOf

LEMMA SomeCalls ==
  ASSUME NEW S \in SUBSET Calls
  PROVE  IsFiniteSet(S) /\ Cardinality(S) \in Nat
  BY AccountingAssumption, FS_Subset, FS_CardinalityType DEF AccountingAssumption

LEMMA TasksStep ==
  ASSUME TaskOK, OnPlan, NEW c \in Calls, NEW k \in Kinds, StepOf(c, k)
  PROVE  TaskOK' /\ OnPlan'
  <1>1. CASE Inviting(c) \/ Answer(c)
    <2>1. UNCHANGED task
      BY <1>1 DEF Inviting, Answer, CheckUser, Route, Refuse, Remember, CountUser, SetTenant,
                  CountTenant, CountGateway
    <2> QED
      BY <2>1, NobodyMoves
  <1>2. CASE ReplyFailsOver(c) \/ ReplyFails(c) \/ MoveGateway(c)
    BY <1>2, FailoverIs, FailsIs, MoveGatewayIs
  <1>3. CASE Ending(c, k)
    BY <1>3, StartIs, EndOrSkipIs, EndIs, ReadSessionIs, NeedSessionIs, DropUserIs,
       DropTenantIs, DropGatewayIs, RemoveIs, RemoveOrStopIs DEF Ending
  <1> QED
    BY <1>1, <1>2, <1>3 DEF StepOf

(* The variables but the tasks keep their types.                           *)
LEMMA StagesStep ==
  ASSUME TypeOK, NEW c \in Calls, NEW k \in Kinds, StepOf(c, k)
  PROVE  /\ stage' \in [Calls -> Stages]
         /\ session' \in [Calls -> {"none", "bare", "tenant"}]
         /\ answered' \in [Calls -> BOOLEAN]
         /\ call' \in [Calls -> {"none", "active", "over"}]
         /\ starts' \in 0..MaxEnders
         /\ early' \subseteq Calls /\ crossed' \subseteq Calls /\ peak' \in Nat
  <1> USE DEF TypeOK, Stages
  <1>1. ASSUME CheckUser(c)
        PROVE  peak' \in Nat
    <2>1. Checking \in SUBSET Calls
      BY DEF Checking
    <2>2. Cardinality(Checking) \in Nat
      BY <2>1, SomeCalls
    <2> QED
      BY <1>1, <2>2 DEF CheckUser
  <1>2. CASE Inviting(c)
    <2>1. stage' \in [Calls -> Stages]
      <3>1. CASE CheckUser(c)
        BY <3>1 DEF CheckUser, At
      <3>2. CASE Route(c)
        BY <3>2 DEF Route, At
      <3>3. CASE Refuse(c)
        BY <3>3 DEF Refuse, At
      <3>4. CASE Remember(c)
        BY <3>4 DEF Remember, At
      <3>5. CASE CountUser(c)
        BY <3>5 DEF CountUser, At
      <3>6. CASE SetTenant(c)
        BY <3>6 DEF SetTenant, At
      <3>7. CASE CountTenant(c)
        BY <3>7 DEF CountTenant, At
      <3>8. CASE CountGateway(c)
        BY <3>8 DEF CountGateway, At
      <3> QED
        BY <1>2, <3>1, <3>2, <3>3, <3>4, <3>5, <3>6, <3>7, <3>8 DEF Inviting
    <2>2. /\ session' \in [Calls -> {"none", "bare", "tenant"}]
          /\ call' \in [Calls -> {"none", "active", "over"}]
      BY <1>2 DEF Inviting, CheckUser, Route, Refuse, Remember, CountUser, SetTenant,
                  CountTenant, CountGateway
    <2>3. UNCHANGED <<answered, starts, early, crossed>> /\ (peak' = peak \/ CheckUser(c))
      BY <1>2 DEF Inviting, CheckUser, Route, Refuse, Remember, CountUser, SetTenant,
                  CountTenant, CountGateway, history
    <2> QED
      BY <1>1, <2>1, <2>2, <2>3
  <1>3. CASE Answer(c)
    BY <1>3 DEF Answer, history
  <1>4. CASE ReplyFailsOver(c) \/ ReplyFails(c) \/ MoveGateway(c)
    BY <1>4 DEF ReplyFailsOver, ReplyFails, MoveGateway, history
  <1>5. CASE Start(c, k)
    BY <1>5, AccountingAssumption DEF Start, AccountingAssumption
  <1>6. CASE Ending(c, k) /\ ~Start(c, k)
    BY <1>6 DEF Ending, EndOrSkip, End, ReadSession, NeedSession, DropUser, DropTenant,
                DropGateway, Remove, RemoveOrStop, history
  <1> QED
    BY <1>2, <1>3, <1>4, <1>5, <1>6 DEF StepOf

LEMMA CountersStep ==
  ASSUME TypeOK, OnPlan, Moving, NEW c \in Calls, NEW k \in Kinds, StepOf(c, k)
  PROVE  /\ users' \in Nat /\ tenants' \in Nat /\ active' \in [Routes -> Nat]
         /\ route' \in [Calls -> Routes]
  <1> USE DEF TypeOK
  <1>1. /\ Less(users) \in Nat /\ Less(tenants) \in Nat
        /\ \A r \in Routes : Less(active[r]) \in Nat
    BY DEF Less
  <1>2. users' \in {users, users + 1, Less(users)} /\ tenants' \in {tenants, tenants + 1, Less(tenants)}
    BY DEF StepOf, Inviting, Ending, CheckUser, Route, Refuse, Remember, CountUser, SetTenant,
           CountTenant, CountGateway, Answer, ReplyFailsOver, ReplyFails, MoveGateway, Start,
           EndOrSkip, End, ReadSession, NeedSession, DropUser, DropTenant, DropGateway, Remove,
           RemoveOrStop, counts
  <1>t. users' \in Nat /\ tenants' \in Nat
    BY <1>1, <1>2
  <1>3. CASE CountGateway(c) \/ DropGateway(c, k)
    <2>1. route[c] \in Routes
      OBVIOUS
    <2>2. /\ route' = route
          /\ \E n \in {active[route[c]] + 1, Less(active[route[c]])} :
               active' = [active EXCEPT ![route[c]] = n]
      BY <1>3 DEF CountGateway, DropGateway
    <2>3. active' \in [Routes -> Nat]
      BY <1>1, <2>1, <2>2
    <2> QED
      BY <1>t, <2>2, <2>3
  <1>4. CASE MoveGateway(c)
    <2>1. Now(c, "failure") = "moveGateway"
      BY <1>4 DEF MoveGateway, Doing, Now
    <2>2. route[c] - 1 \in Routes /\ route[c] \in Routes
      BY <2>1, AccountingAssumption DEF Moving, Routes, AccountingAssumption
    <2>3. active' = [active EXCEPT ![route[c] - 1] = Less(active[route[c] - 1]),
                                   ![route[c]] = active[route[c]] + 1]
      BY <1>4, <2>2 DEF MoveGateway, Routes
    <2>4. active' \in [Routes -> Nat]
      <3> DEFINE mid == [active EXCEPT ![route[c] - 1] = Less(active[route[c] - 1])]
      <3>1. mid \in [Routes -> Nat]
        BY <1>1, <2>2
      <3>2. active' = [mid EXCEPT ![route[c]] = active[route[c]] + 1]
        BY <2>3
      <3>3. active[route[c]] + 1 \in Nat
        BY <2>2
      <3> HIDE DEF mid
      <3> QED
        BY <3>1, <3>2, <3>3
    <2> QED
      BY <1>t, <1>4, <2>4 DEF MoveGateway
  <1>5. CASE ReplyFailsOver(c)
    <2>1. route[c] + 1 \in Routes
      BY <1>5, AccountingAssumption DEF ReplyFailsOver, Routes, AccountingAssumption
    <2> QED
      BY <1>t, <1>5, <2>1 DEF ReplyFailsOver, counts
  <1>6. CASE ~(CountGateway(c) \/ DropGateway(c, k) \/ MoveGateway(c) \/ ReplyFailsOver(c))
    <2>1. UNCHANGED <<active, route>>
      BY <1>6 DEF StepOf, Inviting, Ending, CheckUser, Route, Refuse, Remember, CountUser, SetTenant,
             CountTenant, Answer, ReplyFails, Start, EndOrSkip, End, ReadSession, NeedSession,
             DropUser, DropTenant, Remove, RemoveOrStop, counts
    <2> QED
      BY <1>t, <2>1
  <1> QED
    BY <1>3, <1>4, <1>5, <1>6

LEMMA TypesStep ==
  ASSUME TypeOK, OnPlan, Moving, NEW c \in Calls, NEW k \in Kinds, StepOf(c, k)
  PROVE  TypeOK' /\ OnPlan'
  <1>1. TaskOK
    BY DEF TypeOK, TaskOK
  <1>2. TaskOK' /\ OnPlan'
    BY <1>1, TasksStep
  <1>3. /\ stage' \in [Calls -> Stages]
        /\ session' \in [Calls -> {"none", "bare", "tenant"}]
        /\ answered' \in [Calls -> BOOLEAN]
        /\ call' \in [Calls -> {"none", "active", "over"}]
        /\ starts' \in 0..MaxEnders
        /\ early' \subseteq Calls /\ crossed' \subseteq Calls /\ peak' \in Nat
    BY StagesStep
  <1>4. /\ users' \in Nat /\ tenants' \in Nat /\ active' \in [Routes -> Nat]
        /\ route' \in [Calls -> Routes]
    BY CountersStep
  <1> QED
    BY <1>2, <1>3, <1>4 DEF TypeOK, TaskOK

-----------------------------------------------------------------------------
(* A call the step is not of keeps everything. *)

Same(d) ==
  /\ stage'[d] = stage[d] /\ session'[d] = session[d] /\ call'[d] = call[d]
  /\ route'[d] = route[d] /\ (d \in early' <=> d \in early)
  /\ \A l \in Kinds : Now(d, l)' = Now(d, l) /\ task'[d][l] = task[d][l]

LEMMA OthersTasks ==
  ASSUME TaskOK, OnPlan, NEW c \in Calls, NEW k \in Kinds, StepOf(c, k),
         NEW d \in Calls \ {c}, NEW l \in Kinds
  PROVE  Now(d, l)' = Now(d, l) /\ task'[d][l] = task[d][l]
  <1>1. CASE Inviting(c) \/ Answer(c)
    <2>1. UNCHANGED task
      BY <1>1 DEF Inviting, Answer, CheckUser, Route, Refuse, Remember, CountUser, SetTenant,
                  CountTenant, CountGateway
    <2> QED
      BY <2>1, NobodyMoves
  <1>2. CASE ReplyFailsOver(c) \/ ReplyFails(c) \/ MoveGateway(c)
    BY <1>2, FailoverIs, FailsIs, MoveGatewayIs DEF Moves
  <1>3. CASE Ending(c, k)
    BY <1>3, StartIs, EndOrSkipIs, EndIs, ReadSessionIs, NeedSessionIs, DropUserIs,
       DropTenantIs, DropGatewayIs, RemoveIs, RemoveOrStopIs DEF Ending, Moves
  <1> QED
    BY <1>1, <1>2, <1>3 DEF StepOf

LEMMA OthersSame ==
  ASSUME TypeOK, OnPlan, NEW c \in Calls, NEW k \in Kinds, StepOf(c, k), NEW d \in Calls \ {c}
  PROVE  Same(d)
  <1>1. \A l \in Kinds : Now(d, l)' = Now(d, l) /\ task'[d][l] = task[d][l]
    BY OthersTasks DEF TypeOK, TaskOK
  <1>2. stage'[d] = stage[d] /\ session'[d] = session[d] /\ (d \in early' <=> d \in early)
    <2>1. CASE Inviting(c)
      BY <2>1 DEF Inviting, At, CheckUser, Route, Refuse, Remember, CountUser, SetTenant,
                  CountTenant, CountGateway, TypeOK, history
    <2>2. CASE ~Inviting(c)
      BY <2>2 DEF StepOf, Answer, ReplyFailsOver, ReplyFails, MoveGateway, Ending, Start,
           EndOrSkip, End, ReadSession, NeedSession, DropUser, DropTenant, DropGateway, Remove,
           RemoveOrStop, TypeOK, history
    <2> QED
      BY <2>1, <2>2
  <1>3. call'[d] = call[d] /\ route'[d] = route[d]
    BY DEF StepOf, Inviting, Ending, CheckUser, Route, Refuse, Remember, CountUser, SetTenant,
           CountTenant, CountGateway, Answer, ReplyFailsOver, ReplyFails, MoveGateway, Start,
           EndOrSkip, End, ReadSession, NeedSession, DropUser, DropTenant, DropGateway, Remove,
           RemoveOrStop, TypeOK
  <1> QED
    BY <1>1, <1>2, <1>3 DEF Same

LEMMA SameIsSame ==
  ASSUME NEW d \in Calls, Same(d)
  PROVE  /\ CountsUser(d)' <=> CountsUser(d)
         /\ CountsTenant(d)' <=> CountsTenant(d)
         /\ \A r \in Routes : CountsGateway(d, r)' <=> CountsGateway(d, r)
         /\ Orderly(d) /\ Carries(d) => Orderly(d)' /\ Carries(d)'
         /\ Serial(d) => Serial(d)'
  <1> USE DEF Same
  <1>1. CountsUser(d)' <=> CountsUser(d)
    BY DEF CountsUser, OwesUser, GaveUser
  <1>2. CountsTenant(d)' <=> CountsTenant(d)
    BY DEF CountsTenant, OwesTenant, GaveTenant, OwesUser, GaveUser
  <1>3. SlotOf(d)' = SlotOf(d)
    BY DEF SlotOf, Kinds, GatewayKinds
  <1>4. \A r \in Routes : CountsGateway(d, r)' <=> CountsGateway(d, r)
    BY <1>3 DEF CountsGateway, OwesGateway, GaveGateway
  <1>5. Orderly(d) => Orderly(d)'
    BY DEF Orderly, Resting
  <1>6. Carries(d) => Carries(d)'
    BY DEF Carries, OwesTenant, OwesUser
  <1>7. Serial(d) => Serial(d)'
    BY DEF Serial, Resting, Gone
  <1> QED
    BY <1>1, <1>2, <1>4, <1>5, <1>6, <1>7

-----------------------------------------------------------------------------
(* The order of a call and its enders. *)

LEMMA MovingStep ==
  ASSUME TypeOK, OnPlan, Moving, NEW c \in Calls, NEW k \in Kinds, StepOf(c, k)
  PROVE  Moving'
  <1>t. TaskOK
    BY DEF TypeOK, TaskOK
  <1>f. "failure" \in Kinds
    BY DEF Kinds, GatewayKinds
  <1>1. ASSUME NEW d \in Calls, d # c
        PROVE  Now(d, "failure")' = "moveGateway" => route'[d] > 1
    <2>1. Same(d)
      BY <1>1, OthersSame
    <2> QED
      BY <2>1, <1>f DEF Same, Moving
  <1>2. Now(c, "failure")' = "moveGateway" => route'[c] > 1
    <2>1. CASE ReplyFailsOver(c)
      BY <2>1, AccountingAssumption DEF ReplyFailsOver, TypeOK, Routes, AccountingAssumption
    <2>2. CASE ReplyFails(c) \/ MoveGateway(c)
      BY <1>t, <2>2, FailsIs, MoveGatewayIs DEF Moves
    <2>3. CASE Inviting(c) \/ Answer(c)
      <3>1. UNCHANGED <<task, route>>
        BY <2>3 DEF Inviting, Answer, CheckUser, Route, Refuse, Remember, CountUser, SetTenant,
                  CountTenant, CountGateway
      <3> QED
        BY <3>1, NobodyMoves DEF Moving
    <2>4. CASE Ending(c, k)
      <3>1. UNCHANGED route
        BY <2>4 DEF Ending, Start, EndOrSkip, End, ReadSession, NeedSession, DropUser,
                    DropTenant, DropGateway, Remove, RemoveOrStop
      <3>2. Now(c, "failure")' # "moveGateway" \/ Now(c, "failure")' = Now(c, "failure")
        <4>1. CASE k # "failure"
          BY <1>t, <1>f, <2>4, <4>1, StartIs, EndOrSkipIs, EndIs, ReadSessionIs, NeedSessionIs,
             DropUserIs, DropTenantIs, DropGatewayIs, RemoveIs, RemoveOrStopIs DEF Ending, Moves
        <4>2. CASE k = "failure"
          <5>1. FirstPoint(c, k) # "moveGateway"
            BY DEF FirstPoint
          <5>2. After(k)["dropTenant"] # "moveGateway" /\ After(k)["dropGateway"] # "moveGateway"
            BY <4>2, FromIs DEF FailureAfter
          <5> QED
            BY <1>t, <2>4, <4>2, <5>1, <5>2, StartIs, EndOrSkipIs, EndIs, ReadSessionIs,
               NeedSessionIs, DropUserIs, DropTenantIs, DropGatewayIs, RemoveIs, RemoveOrStopIs
               DEF Ending, Moves
        <4> QED
          BY <4>1, <4>2
      <3> QED
        BY <3>1, <3>2 DEF Moving
    <2> QED
      BY <2>1, <2>2, <2>3, <2>4 DEF StepOf
  <1> QED
    BY <1>1, <1>2 DEF Moving

LEMMA OrderlyStep ==
  ASSUME TypeOK, OnPlan, NEW c \in Calls, NEW k \in Kinds, StepOf(c, k),
         Orderly(c), c \notin early'
  PROVE  Orderly(c)'
  <1>t. TaskOK
    BY DEF TypeOK, TaskOK
  <1>1. CASE Inviting(c)
    <2>1. UNCHANGED task
      BY <1>1 DEF Inviting, CheckUser, Route, Refuse, Remember, CountUser, SetTenant,
                  CountTenant, CountGateway
    <2>2. Resting(c)' <=> Resting(c)
      BY <2>1, NobodyMoves DEF Resting
    <2>3. CASE CheckUser(c)
      BY <2>2, <2>3 DEF CheckUser, At, TypeOK, Orderly
    <2>4. CASE Route(c) \/ Refuse(c)
      BY <2>2, <2>4 DEF Route, Refuse, At, TypeOK, Orderly
    <2>5. CASE Remember(c) \/ CountUser(c) \/ SetTenant(c)
      BY <2>2, <2>5 DEF Remember, CountUser, SetTenant, At, TypeOK, Orderly
    <2>6. CASE CountTenant(c) \/ CountGateway(c)
      BY <2>2, <2>6 DEF CountTenant, CountGateway, At, TypeOK, Orderly
    <2> QED
      BY <1>1, <2>3, <2>4, <2>5, <2>6 DEF Inviting
  <1>2. CASE ~Inviting(c)
    <2>1. stage[c] = "sent"
      <3>1. CASE Start(c, k)
        BY <3>1 DEF Start
      <3>2. CASE Answer(c)
        BY <3>2 DEF Answer
      <3>3. CASE ReplyFailsOver(c) \/ ReplyFails(c) \/ MoveGateway(c)
        <4>1. Now(c, "failure") # "nothing" /\ "failure" \in Kinds
          BY <1>t, <3>3, FailoverIs, FailsIs, MoveGatewayIs DEF Moves, Kinds, GatewayKinds
        <4> QED
          BY <4>1 DEF Orderly, Resting
      <3>4. CASE Ending(c, k) /\ ~Start(c, k)
        <4>1. Now(c, k) # "nothing"
          BY <1>t, <3>4, EndOrSkipIs, EndIs, ReadSessionIs, NeedSessionIs, DropUserIs,
             DropTenantIs, DropGatewayIs, RemoveIs, RemoveOrStopIs DEF Ending, Moves
        <4> QED
          BY <4>1 DEF Orderly, Resting
      <3> QED
        BY <1>2, <3>1, <3>2, <3>3, <3>4 DEF StepOf
    <2>2. stage' = stage
      BY <1>2 DEF StepOf, Answer, ReplyFailsOver, ReplyFails, MoveGateway, Ending, Start,
           EndOrSkip, End, ReadSession, NeedSession, DropUser, DropTenant, DropGateway, Remove,
           RemoveOrStop
    <2>3. session'[c] \in {session[c], "none"}
      BY <1>2 DEF StepOf, Answer, ReplyFailsOver, ReplyFails, MoveGateway, Ending, Start,
           EndOrSkip, End, ReadSession, NeedSession, DropUser, DropTenant, DropGateway, Remove,
           RemoveOrStop, TypeOK
    <2> QED
      BY <2>1, <2>2, <2>3 DEF Orderly
  <1> QED
    BY <1>1, <1>2

(* Where an ender needs the tenant in its copy of the session.             *)
LEMMA CarriesPoints ==
  ASSUME NEW c \in Calls
  PROVE  /\ Carries(c) <=>
              \A l \in Kinds :
                Now(c, l) \in {"dropUser", "dropTenant"}
                  \/ (l \in Byes \cup {"hangup"} /\ Now(c, l) = "dropGateway")
                  \/ (l \in Byes /\ Now(c, l) \in {"endOrSkip", "needSession"})
                => task[c][l].tenant
         /\ Carries(c)' <=>
              \A l \in Kinds :
                Now(c, l)' \in {"dropUser", "dropTenant"}
                  \/ (l \in Byes \cup {"hangup"} /\ Now(c, l)' = "dropGateway")
                  \/ (l \in Byes /\ Now(c, l)' \in {"endOrSkip", "needSession"})
                => task'[c][l].tenant
  <1>1. \A l \in Kinds : \A s :
          s \in OwesTenant(l) \cup (IF l \in Byes THEN {"endOrSkip", "dropGateway", "needSession"}
                                    ELSE {})
          <=> \/ s \in {"dropUser", "dropTenant"}
              \/ l \in Byes \cup {"hangup"} /\ s = "dropGateway"
              \/ l \in Byes /\ s \in {"endOrSkip", "needSession"}
    BY DEF OwesTenant, OwesUser, Byes
  <1> QED
    BY <1>1 DEF Carries, OwesTenant, OwesUser

LEMMA CarriesStep ==
  ASSUME TypeOK, OnPlan, NEW c \in Calls, NEW k \in Kinds, StepOf(c, k),
         Orderly(c), Carries(c), c \notin early'
  PROVE  Carries(c)'
  <1>t. TaskOK
    BY DEF TypeOK, TaskOK
  <1>1. CASE Inviting(c) \/ Answer(c)
    <2>1. UNCHANGED task
      BY <1>1 DEF Inviting, Answer, CheckUser, Route, Refuse, Remember, CountUser, SetTenant,
                  CountTenant, CountGateway
    <2> QED
      BY <2>1, NobodyMoves, CarriesPoints
  <1>2. CASE ReplyFailsOver(c) \/ ReplyFails(c) \/ MoveGateway(c)
    <2>1. \E s, t : /\ Moves(c, "failure", s, t)
                    /\ t \in {"moveGateway", "nothing", "readSession"}
      BY <1>t, <1>2, FailoverIs, FailsIs, MoveGatewayIs
    <2> QED
      BY <2>1, CarriesPoints DEF Moves
  <1>3. CASE Start(c, k)
    <2>1. stage[c] = "sent" /\ session[c] \in {"none", "tenant"}
      BY <1>3 DEF Start, Orderly
    <2>2. /\ Moves(c, k, "nothing", FirstPoint(c, k))
          /\ task'[c][k].tenant = (session[c] = "tenant")
      BY <1>t, <1>3, StartIs
    <2>3. session[c] = "none" => FirstPoint(c, k) \in {"end", "reply"}
      BY <1>3 DEF Start, MayStart, FirstPoint, Byes, Kinds, GatewayKinds
    <2>4. k = "failure" => FirstPoint(c, k) = "reply"
      BY DEF FirstPoint, Byes
    <2> QED
      BY <2>1, <2>2, <2>3, <2>4, CarriesPoints DEF Moves
  <1>4. CASE EndOrSkip(c, k) \/ NeedSession(c, k)
    <2>1. k \in Byes /\ Now(c, k) \in {"endOrSkip", "needSession"}
      BY <1>t, <1>4, EndOrSkipIs, NeedSessionIs DEF Moves
    <2>2. task[c][k].tenant
      BY <2>1, CarriesPoints
    <2>3. Now(c, k)' = "nothing" \/ task'[c][k].tenant
      BY <1>t, <1>4, <2>2, EndOrSkipIs, NeedSessionIs DEF Moves
    <2>4. \A l \in Kinds : l # k => Now(c, l)' = Now(c, l) /\ task'[c][l] = task[c][l]
      BY <1>t, <1>4, EndOrSkipIs, NeedSessionIs DEF Moves
    <2> QED
      BY <2>3, <2>4, CarriesPoints
  <1>5. CASE ReadSession(c, k)
    <2>1. /\ k = "failure" /\ task'[c][k].tenant = (session[c] = "tenant")
          /\ Moves(c, k, "readSession", IF session[c] = "none" THEN "dropGateway" ELSE "dropUser")
      BY <1>t, <1>5, ReadSessionIs
    <2>2. session[c] \in {"none", "tenant"}
      <3>1. stage[c] = "sent"
        BY <2>1 DEF Orderly, Resting, Moves
      <3> QED
        BY <3>1 DEF Orderly
    <2>3. k \notin Byes \cup {"hangup"}
      BY <2>1 DEF Byes
    <2> QED
      BY <2>1, <2>2, <2>3, CarriesPoints DEF Moves
  <1>6. CASE DropUser(c, k)
    <2>1. Moves(c, k, "dropUser", "dropTenant") /\ task'[c][k].tenant = task[c][k].tenant
      BY <1>t, <1>6, DropUserIs
    <2> QED
      BY <2>1, CarriesPoints DEF Moves
  <1>7. CASE DropTenant(c, k)
    <2>1. "dropTenant" \in Points(k) /\ Moves(c, k, "dropTenant", After(k)["dropTenant"])
      BY <1>t, <1>7, DropTenantIs
    <2>2. /\ After(k)["dropTenant"] \in {"remove", "end", "dropGateway"}
          /\ k \in Byes \cup {"hangup"} => After(k)["dropTenant"] # "dropGateway"
      BY <2>1, Successors DEF Byes
    <2> QED
      BY <2>1, <2>2, CarriesPoints DEF Moves
  <1>8. CASE DropGateway(c, k)
    <2>1. /\ "dropGateway" \in Points(k) /\ Moves(c, k, "dropGateway", After(k)["dropGateway"])
          /\ task'[c][k].tenant = task[c][k].tenant
      BY <1>t, <1>8, DropGatewayIs
    <2>2. k \notin Byes \cup {"hangup"} => After(k)["dropGateway"] \in {"remove", "end", "removeOrStop"}
      BY <2>1, Successors, KindsAre
    <2> QED
      BY <2>1, <2>2, CarriesPoints DEF Moves
  <1>9. CASE Remove(c, k) \/ End(c, k) \/ RemoveOrStop(c, k)
    <2>1. /\ Now(c, k)' \in {"nothing", "end", "dropGateway"}
          /\ Now(c, k)' = "dropGateway" => k = "watchdog"
          /\ \A l \in Kinds : l # k => Now(c, l)' = Now(c, l) /\ task'[c][l] = task[c][l]
      BY <1>t, <1>9, RemoveIs, EndIs, RemoveOrStopIs DEF Moves
    <2> QED
      BY <2>1, CarriesPoints DEF Byes
  <1> QED
    BY <1>1, <1>2, <1>3, <1>4, <1>5, <1>6, <1>7, <1>8, <1>9 DEF StepOf, Ending

LEMMA OrderStep ==
  ASSUME TypeOK, OnPlan, InOrder, NEW c \in Calls, NEW k \in Kinds, StepOf(c, k)
  PROVE  InOrder'
  <1> SUFFICES ASSUME NEW d \in Calls, d \notin early'
               PROVE  Orderly(d)' /\ Carries(d)'
    BY DEF InOrder
  <1>1. CASE d # c
    <2>1. Same(d)
      BY <1>1, OthersSame
    <2>2. Orderly(d) /\ Carries(d)
      BY <2>1 DEF InOrder, Same
    <2> QED
      BY <2>1, <2>2, SameIsSame
  <1>2. CASE d = c
    <2>1. c \notin early
      BY <1>2 DEF StepOf, Inviting, Ending, CheckUser, Route, Refuse, Remember, CountUser,
           SetTenant, CountTenant, CountGateway, Answer, ReplyFailsOver, ReplyFails, MoveGateway,
           Start, EndOrSkip, End, ReadSession, NeedSession, DropUser, DropTenant, DropGateway,
           Remove, RemoveOrStop, history
    <2> QED
      BY <1>2, <2>1, OrderlyStep, CarriesStep DEF InOrder
  <1> QED
    BY <1>1, <1>2

-----------------------------------------------------------------------------
(* While enders come one after the other, the one at work is alone, and     *)
(* where it is says what there is of the session and the call.             *)

Alone(c, k) == \A l \in Kinds : l # k => Now(c, l) = "nothing"

LEMMA AloneStep ==
  ASSUME TypeOK, OnPlan, NEW c \in Calls, Serial(c), NEW k \in Kinds, NEW s, NEW t,
         Moves(c, k, s, t), s # "nothing" \/ Resting(c)
  PROVE  Alone(c, k) /\ Alone(c, k)'
  BY DEF Moves, Alone, Serial, Resting

LEMMA AloneInSent ==
  ASSUME TypeOK, OnPlan, NEW c \in Calls, Orderly(c), NEW k \in Kinds, Now(c, k) # "nothing"
  PROVE  stage[c] = "sent"
  BY DEF Orderly, Resting

(* What Serial asks of a call whose only ender is k.                       *)
Fits(k, t, sess, state) ==
  IF t = "nothing" THEN sess = "none" <=> state = "over"
  ELSE /\ sess = "none" <=> t \in Gone(k)
       /\ k \in Byes \cup {"failure"} =>
            (state # "over" <=> t \in {"endOrSkip", "reply", "moveGateway"})

LEMMA SerialIf ==
  ASSUME NEW c \in Calls, NEW k \in Kinds, Alone(c, k)', stage'[c] = "sent",
         Fits(k, Now(c, k)', session'[c], call'[c])
  PROVE  Serial(c)'
  <1>1. \A l \in Kinds : l # k => Now(c, l)' = "nothing"
    BY DEF Alone
  <1>2. \A l, m \in Kinds : Now(c, l)' # "nothing" /\ Now(c, m)' # "nothing" => l = m
    BY <1>1
  <1>3. Resting(c)' => Now(c, k)' = "nothing"
    BY DEF Resting
  <1> QED
    BY <1>1, <1>2, <1>3 DEF Serial, Fits, Gone

LEMMA FitsNow ==
  ASSUME NEW c \in Calls, NEW k \in Kinds, Serial(c), stage[c] = "sent", Alone(c, k)
  PROVE  Fits(k, Now(c, k), session[c], call[c])
  <1>1. Now(c, k) = "nothing" => Resting(c)
    BY DEF Resting, Alone
  <1> QED
    BY <1>1 DEF Serial, Fits

LEMMA SerialInvite ==
  ASSUME TypeOK, OnPlan, NEW c \in Calls, Inviting(c) \/ Answer(c), Serial(c), Orderly(c)
  PROVE  Serial(c)'
  <1>1. UNCHANGED task
    BY DEF Inviting, Answer, CheckUser, Route, Refuse, Remember, CountUser, SetTenant,
                  CountTenant, CountGateway
  <1>2. \A l \in Kinds : Now(c, l)' = Now(c, l)
    BY <1>1, NobodyMoves
  <1>3. Resting(c)' <=> Resting(c)
    BY <1>2 DEF Resting
  <1>4. CASE Inviting(c)
    <2>1. Resting(c) /\ stage[c] # "sent"
      BY <1>4 DEF Inviting, CheckUser, Route, Refuse, Remember, CountUser, SetTenant,
                  CountTenant, CountGateway, At, Orderly
    <2>2. CASE CheckUser(c)
      BY <1>2, <1>3, <2>1, <2>2 DEF CheckUser, At, TypeOK, Serial, Resting, Orderly
    <2>3. CASE Route(c) \/ Refuse(c)
      BY <1>2, <1>3, <2>1, <2>3 DEF Route, Refuse, At, TypeOK, Serial, Resting, Orderly
    <2>4. CASE Remember(c) \/ CountUser(c) \/ SetTenant(c)
      BY <1>2, <1>3, <2>1, <2>4 DEF Remember, CountUser, SetTenant, At, TypeOK, Serial, Resting, Orderly
    <2>5. CASE CountTenant(c) \/ CountGateway(c)
      BY <1>2, <1>3, <2>1, <2>5 DEF CountTenant, CountGateway, At, TypeOK, Serial, Resting, Orderly
    <2> QED
      BY <1>4, <2>2, <2>3, <2>4, <2>5 DEF Inviting
  <1>5. CASE Answer(c)
    BY <1>2, <1>3, <1>5 DEF Answer, Serial, Gone
  <1> QED
    BY <1>4, <1>5

LEMMA SerialReply ==
  ASSUME TypeOK, OnPlan, NEW c \in Calls, ReplyFailsOver(c) \/ ReplyFails(c) \/ MoveGateway(c),
         Serial(c), Orderly(c)
  PROVE  Serial(c)' /\ Alone(c, "failure") /\ Alone(c, "failure")'
  <1>t. TaskOK /\ "failure" \in Kinds /\ "failure" \in Byes \cup {"failure"}
    BY DEF TypeOK, TaskOK, Kinds, GatewayKinds
  <1> DEFINE k == "failure"
             t == Now(c, k)'
  <1>1. \/ ReplyFailsOver(c) /\ Moves(c, k, "reply", "moveGateway")
        \/ ReplyFails(c) /\ Moves(c, k, "reply", IF call[c] = "over" THEN "nothing" ELSE "readSession")
        \/ MoveGateway(c) /\ Moves(c, k, "moveGateway", "nothing")
    BY <1>t, FailoverIs, FailsIs, MoveGatewayIs
  <1>2. PICK s : Moves(c, k, s, t) /\ s # "nothing"
    BY <1>1 DEF Moves
  <1>3. Alone(c, k) /\ Alone(c, k)'
    BY <1>t, <1>2, AloneStep
  <1>4. stage[c] = "sent"
    BY <1>t, <1>2, AloneInSent DEF Moves
  <1>5. stage'[c] = "sent" /\ session'[c] = session[c]
    BY <1>4 DEF ReplyFailsOver, ReplyFails, MoveGateway
  <1>6. Fits(k, Now(c, k), session[c], call[c])
    BY <1>t, <1>3, <1>4, FitsNow
  <1>7. /\ session[c] # "none" /\ call[c] # "over"
    BY <1>1, <1>6 DEF Moves, Fits, Gone
  <1>8. Fits(k, t, session'[c], call'[c])
    <2>1. CASE ReplyFailsOver(c) /\ Moves(c, k, "reply", "moveGateway")
      BY <1>5, <1>7, <2>1 DEF Moves, Fits, Gone, ReplyFailsOver, TypeOK
    <2>2. CASE ReplyFails(c) /\ Moves(c, k, "reply", IF call[c] = "over" THEN "nothing" ELSE "readSession")
      BY <1>5, <1>7, <2>2 DEF Moves, Fits, Gone, ReplyFails, TypeOK
    <2>3. CASE MoveGateway(c) /\ Moves(c, k, "moveGateway", "nothing")
      BY <1>5, <1>7, <2>3 DEF Moves, Fits, Gone, MoveGateway, TypeOK
    <2> QED
      BY <1>1, <2>1, <2>2, <2>3
  <1> QED
    BY <1>t, <1>3, <1>5, <1>8, SerialIf

LEMMA NotBusyRests ==
  ASSUME NEW c \in Calls, ~Busy(c, Kinds)
  PROVE  Resting(c)
  BY DEF Busy, Resting, Now, Todo

LEMMA TameStart ==
  ASSUME TypeOK, OnPlan, NEW c \in Calls, NEW k \in Kinds, Start(c, k), Serial(c), Orderly(c), Tame'
  PROVE  /\ Resting(c) /\ stage[c] = "sent" /\ Alone(c, k) /\ Alone(c, k)'
         /\ Fits(k, Now(c, k)', session'[c], call'[c])
  <1>t. TaskOK
    BY DEF TypeOK, TaskOK
  <1>1. Moves(c, k, "nothing", FirstPoint(c, k))
    BY <1>t, StartIs
  <1>2. Resting(c) /\ stage[c] = "sent"
    BY NotBusyRests DEF Start, Tame
  <1>3. Alone(c, k) /\ Alone(c, k)'
    BY <1>1, <1>2, AloneStep
  <1>4. session[c] = "none" <=> call[c] = "over"
    BY <1>2 DEF Serial
  <1>5. call'[c] = call[c] /\ session'[c] = IF k = "hangup" THEN "none" ELSE session[c]
    BY DEF Start, TypeOK
  <1>6. k # "hangup" => session[c] # "none"
    BY DEF Start, MayStart, Kinds, GatewayKinds
  <1>7. Fits(k, FirstPoint(c, k), session'[c], call'[c])
    <2>1. CASE k = "hangup"
      BY <1>5, <2>1 DEF Fits, Gone, FirstPoint, Byes
    <2>2. CASE k # "hangup"
      BY <1>4, <1>5, <1>6, <2>2, KindsAre DEF Fits, Gone, FirstPoint, Byes
    <2> QED
      BY <2>1, <2>2
  <1> QED
    BY <1>1, <1>2, <1>3, <1>7 DEF Moves

(* The ender k of c, at work alone, takes a step.                          *)
LEMMA SerialWork ==
  ASSUME TypeOK, OnPlan, NEW c \in Calls, NEW k \in Kinds, Ending(c, k), ~Start(c, k),
         Serial(c), Orderly(c)
  PROVE  /\ Alone(c, k) /\ Alone(c, k)' /\ stage[c] = "sent"
         /\ Now(c, k) # "nothing" /\ Fits(k, Now(c, k), session[c], call[c])
  <1>t. TaskOK
    BY DEF TypeOK, TaskOK
  <1>1. \E s, t : Moves(c, k, s, t) /\ s # "nothing"
    BY <1>t, EndOrSkipIs, EndIs, ReadSessionIs, NeedSessionIs, DropUserIs,
             DropTenantIs, DropGatewayIs, RemoveIs, RemoveOrStopIs DEF Ending
  <1>2. Now(c, k) # "nothing" /\ Alone(c, k) /\ Alone(c, k)'
    BY <1>1, AloneStep DEF Moves
  <1>3. stage[c] = "sent"
    BY <1>2, AloneInSent
  <1> QED
    BY <1>2, <1>3, FitsNow

LEMMA SerialWorkFits ==
  ASSUME TypeOK, OnPlan, NEW c \in Calls, NEW k \in Kinds, Ending(c, k), ~Start(c, k),
         Serial(c), Orderly(c)
  PROVE  Fits(k, Now(c, k)', session'[c], call'[c])
  <1>t. TaskOK
    BY DEF TypeOK, TaskOK
  <1>f. Now(c, k) # "nothing" /\ Fits(k, Now(c, k), session[c], call[c])
    BY SerialWork
  <1>1. CASE EndOrSkip(c, k)
    <2>1. /\ k \in Byes /\ call'[c] = "over" /\ session' = session
          /\ Moves(c, k, "endOrSkip", IF call[c] = "over" THEN "needSession" ELSE "dropGateway")
      BY <1>t, <1>1, EndOrSkipIs DEF EndOrSkip, TypeOK
    <2> QED
      BY <1>f, <2>1 DEF Fits, Gone, Byes, Moves
  <1>2. CASE End(c, k)
    <2>1. /\ k \in {"watchdog", "operator", "hangup"} /\ call'[c] = "over" /\ session' = session
          /\ Moves(c, k, "end", "nothing")
      BY <1>t, <1>2, EndIs DEF End, TypeOK
    <2> QED
      BY <1>f, <2>1 DEF Fits, Gone, Byes, Moves
  <1>3. CASE ReadSession(c, k)
    <2>1. /\ k = "failure" /\ call' = call /\ session' = session
          /\ Moves(c, k, "readSession", IF session[c] = "none" THEN "dropGateway" ELSE "dropUser")
      BY <1>t, <1>3, ReadSessionIs DEF ReadSession
    <2> QED
      BY <1>f, <2>1 DEF Fits, Gone, Byes, Moves
  <1>4. CASE NeedSession(c, k)
    <2>1. /\ k \in Byes /\ call' = call /\ session' = session
          /\ Moves(c, k, "needSession", IF session[c] = "none" THEN "nothing" ELSE "dropUser")
      BY <1>t, <1>4, NeedSessionIs DEF NeedSession
    <2> QED
      BY <1>f, <2>1 DEF Fits, Gone, Byes, Moves
  <1>5. CASE DropUser(c, k)
    <2>1. call' = call /\ session' = session /\ Moves(c, k, "dropUser", "dropTenant")
      BY <1>t, <1>5, DropUserIs DEF DropUser
    <2> QED
      BY <1>f, <2>1 DEF Fits, Gone, Byes, Moves
  <1>6. CASE DropTenant(c, k)
    <2>1. /\ call' = call /\ session' = session /\ "dropTenant" \in Points(k)
          /\ Moves(c, k, "dropTenant", After(k)["dropTenant"])
      BY <1>t, <1>6, DropTenantIs DEF DropTenant
    <2>2. After(k)["dropTenant"] =
            IF k \in Byes \cup {"watchdog"} THEN "remove"
            ELSE IF k = "hangup" THEN "end" ELSE "dropGateway"
      BY <2>1, Successors
    <2> QED
      BY <1>f, <2>1, <2>2 DEF Fits, Gone, Byes, Moves
  <1>7. CASE DropGateway(c, k)
    <2>1. /\ call' = call /\ session' = session /\ "dropGateway" \in Points(k)
          /\ Moves(c, k, "dropGateway", After(k)["dropGateway"])
      BY <1>t, <1>7, DropGatewayIs DEF DropGateway
    <2>2. After(k)["dropGateway"] =
            IF k \in Byes THEN "needSession" ELSE IF k = "failure" THEN "remove"
            ELSE IF k = "watchdog" THEN "end"
            ELSE IF k = "operator" THEN "removeOrStop" ELSE "dropUser"
      BY <2>1, Successors
    <2> QED
      BY <1>f, <2>1, <2>2, KindsAre DEF Fits, Gone, Byes, Moves
  <1>8. CASE Remove(c, k)
    <2>1. /\ k \in Byes \cup {"failure", "watchdog"} /\ call' = call /\ session'[c] = "none"
          /\ Moves(c, k, "remove", IF k = "watchdog" THEN "dropGateway" ELSE "nothing")
      BY <1>t, <1>8, RemoveIs DEF Remove, TypeOK
    <2> QED
      BY <1>f, <2>1 DEF Fits, Gone, Byes, Moves
  <1>9. CASE RemoveOrStop(c, k)
    <2>1. /\ k = "operator" /\ call' = call /\ session'[c] = "none"
          /\ Moves(c, k, "removeOrStop", IF session[c] = "none" THEN "nothing" ELSE "end")
      BY <1>t, <1>9, RemoveOrStopIs DEF RemoveOrStop, TypeOK
    <2> QED
      BY <1>f, <2>1 DEF Fits, Gone, Byes, Moves
  <1> QED
    BY <1>1, <1>2, <1>3, <1>4, <1>5, <1>6, <1>7, <1>8, <1>9 DEF Ending

LEMMA SerialEnding ==
  ASSUME TypeOK, OnPlan, NEW c \in Calls, NEW k \in Kinds, Ending(c, k),
         Serial(c), Orderly(c), Tame'
  PROVE  Serial(c)'
  <1>1. Alone(c, k)' /\ stage[c] = "sent"
    BY TameStart, SerialWork
  <1>2. Fits(k, Now(c, k)', session'[c], call'[c])
    BY TameStart, SerialWorkFits
  <1>3. stage'[c] = "sent"
    BY <1>1 DEF Ending, Start, EndOrSkip, End, ReadSession, NeedSession, DropUser, DropTenant,
                DropGateway, Remove, RemoveOrStop
  <1> QED
    BY <1>1, <1>2, <1>3, SerialIf

LEMMA TameStays ==
  ASSUME NEW c \in Calls, NEW k \in Kinds, StepOf(c, k), Tame'
  PROVE  Tame
  BY DEF Tame, StepOf, Inviting, Ending, CheckUser, Route, Refuse, Remember, CountUser,
         SetTenant, CountTenant, CountGateway, Answer, ReplyFailsOver, ReplyFails, MoveGateway,
         Start, EndOrSkip, End, ReadSession, NeedSession, DropUser, DropTenant, DropGateway,
         Remove, RemoveOrStop, history

LEMMA SerialStep ==
  ASSUME TypeOK, OnPlan, InOrder, Tame, \A d \in Calls : Serial(d),
         NEW c \in Calls, NEW k \in Kinds, StepOf(c, k), Tame'
  PROVE  \A d \in Calls : Serial(d)'
  <1> SUFFICES ASSUME NEW d \in Calls
               PROVE  Serial(d)'
    OBVIOUS
  <1>1. CASE d # c
    BY <1>1, OthersSame, SameIsSame
  <1>2. CASE d = c
    <2>1. Serial(c) /\ Orderly(c)
      BY DEF InOrder, Tame
    <2> QED
      BY <1>2, <2>1, SerialInvite, SerialReply, SerialEnding DEF StepOf
  <1> QED
    BY <1>1, <1>2

-----------------------------------------------------------------------------
(* Counters and the sets they count. *)

(* When only c may enter or leave, a counter that goes down whenever c      *)
(* leaves, and up only when c enters, is never more than the set has.       *)
LEMMA NeverMore ==
  ASSUME NEW S \in SUBSET Calls, NEW T \in SUBSET Calls, NEW c \in Calls,
         \A d \in Calls : d # c => (d \in T <=> d \in S),
         NEW n \in Nat, NEW m, n <= Cardinality(S),
         \/ m = n /\ (c \in S => c \in T)
         \/ m = n + 1 /\ c \notin S /\ c \in T
         \/ m = Less(n)
  PROVE  m <= Cardinality(T)
  <1>1. /\ IsFiniteSet(S) /\ Cardinality(S) \in Nat
        /\ IsFiniteSet(T) /\ Cardinality(T) \in Nat
    BY SomeCalls
  <1>2. CASE c \in S <=> c \in T
    <2>1. S = T
      BY <1>2
    <2> QED
      BY <1>1, <1>2, <2>1 DEF Less
  <1>3. CASE c \notin S /\ c \in T
    <2>1. T = S \cup {c}
      BY <1>3
    <2>2. Cardinality(T) = Cardinality(S) + 1
      BY <1>1, <1>3, <2>1, FS_AddElement
    <2> QED
      BY <1>1, <2>2 DEF Less
  <1>4. CASE c \in S /\ c \notin T
    <2>1. S = T \cup {c}
      BY <1>4
    <2>2. Cardinality(S) = Cardinality(T) + 1
      BY <1>1, <1>4, <2>1, FS_AddElement
    <2> QED
      BY <1>1, <1>4, <2>2 DEF Less
  <1> QED
    BY <1>2, <1>3, <1>4

(* And when it follows c exactly, it is what the set has.                  *)
LEMMA AlwaysEqual ==
  ASSUME NEW S \in SUBSET Calls, NEW T \in SUBSET Calls, NEW c \in Calls,
         \A d \in Calls : d # c => (d \in T <=> d \in S),
         NEW n, NEW m, n = Cardinality(S),
         \/ m = n /\ (c \in S <=> c \in T)
         \/ m = n + 1 /\ c \notin S /\ c \in T
         \/ m = Less(n) /\ c \in S /\ c \notin T
  PROVE  m = Cardinality(T)
  <1>1. /\ IsFiniteSet(S) /\ Cardinality(S) \in Nat
        /\ IsFiniteSet(T) /\ Cardinality(T) \in Nat
    BY SomeCalls
  <1>2. CASE m = n /\ (c \in S <=> c \in T)
    <2>1. S = T
      BY <1>2
    <2> QED
      BY <1>2, <2>1
  <1>3. CASE m = n + 1 /\ c \notin S /\ c \in T
    <2>1. T = S \cup {c}
      BY <1>3
    <2> QED
      BY <1>1, <1>3, <2>1, FS_AddElement
  <1>4. CASE m = Less(n) /\ c \in S /\ c \notin T
    <2>1. S = T \cup {c}
      BY <1>4
    <2>2. Cardinality(S) = Cardinality(T) + 1
      BY <1>1, <1>4, <2>1, FS_AddElement
    <2> QED
      BY <1>1, <1>4, <2>2 DEF Less
  <1> QED
    BY <1>2, <1>3, <1>4

(* What an ender does as it moves can only make c counted, unless it counts *)
(* c out or removes a session it has counted out.                          *)
LEMMA StillUser ==
  ASSUME NEW c \in Calls, NEW k \in Kinds, NEW s, NEW t, Moves(c, k, s, t), CountsUser(c),
         stage'[c] = stage[c], c \in early => c \in early',
         s \in OwesUser(k) => t \in OwesUser(k),
         session[c] # "none" /\ s \notin GaveUser(k)
           => t \in OwesUser(k) \/ (session'[c] # "none" /\ t \notin GaveUser(k))
  PROVE  CountsUser(c)'
  <1>1. /\ Now(c, k) = s /\ Now(c, k)' = t
        /\ \A l \in Kinds : l # k => Now(c, l)' = Now(c, l)
    BY DEF Moves
  <1>2. CASE c \in early
    BY <1>2 DEF CountsUser
  <1>3. CASE \E l \in Kinds : Now(c, l) \in OwesUser(l)
    <2>1. PICK l \in Kinds : Now(c, l) \in OwesUser(l)
      BY <1>3
    <2>2. Now(c, l)' \in OwesUser(l)
      BY <1>1, <2>1
    <2> QED
      BY <2>2 DEF CountsUser, OwesUser
  <1>4. CASE session[c] # "none" /\ \A l \in Kinds : Now(c, l) \notin GaveUser(l)
    <2>1. t \in OwesUser(k) \/ (session'[c] # "none" /\ t \notin GaveUser(k))
      BY <1>1, <1>4
    <2>2. \A l \in Kinds : l # k => Now(c, l)' \notin GaveUser(l)
      BY <1>1, <1>4
    <2> QED
      BY <1>1, <2>1, <2>2 DEF CountsUser, OwesUser, GaveUser
  <1> QED
    BY <1>2, <1>3, <1>4 DEF CountsUser

LEMMA StillTenant ==
  ASSUME NEW c \in Calls, NEW k \in Kinds, NEW s, NEW t, Moves(c, k, s, t), CountsTenant(c),
         stage'[c] = stage[c], c \in early => c \in early',
         s \in OwesTenant(k) => t \in OwesTenant(k),
         session[c] # "none" /\ s \notin GaveTenant(k)
           => t \in OwesTenant(k) \/ (session'[c] # "none" /\ t \notin GaveTenant(k))
  PROVE  CountsTenant(c)'
  <1>1. /\ Now(c, k) = s /\ Now(c, k)' = t
        /\ \A l \in Kinds : l # k => Now(c, l)' = Now(c, l)
    BY DEF Moves
  <1>2. CASE c \in early
    BY <1>2 DEF CountsTenant
  <1>3. CASE \E l \in Kinds : Now(c, l) \in OwesTenant(l)
    <2>1. PICK l \in Kinds : Now(c, l) \in OwesTenant(l)
      BY <1>3
    <2>2. Now(c, l)' \in OwesTenant(l)
      BY <1>1, <2>1
    <2> QED
      BY <2>2 DEF CountsTenant, OwesTenant, OwesUser
  <1>4. CASE session[c] # "none" /\ \A l \in Kinds : Now(c, l) \notin GaveTenant(l)
    <2>1. t \in OwesTenant(k) \/ (session'[c] # "none" /\ t \notin GaveTenant(k))
      BY <1>1, <1>4
    <2>2. \A l \in Kinds : l # k => Now(c, l)' \notin GaveTenant(l)
      BY <1>1, <1>4
    <2> QED
      BY <1>1, <2>1, <2>2 DEF CountsTenant, OwesTenant, GaveTenant, OwesUser, GaveUser
  <1> QED
    BY <1>2, <1>3, <1>4 DEF CountsTenant

(* Whom the steps of an ender leave counted, whatever else crosses.         *)
Holds(c, k, s, t, owes, gave) ==
  /\ s \in owes => t \in owes
  /\ session[c] # "none" /\ s \notin gave => t \in owes \/ (session'[c] # "none" /\ t \notin gave)

LEMMA EnderHolds ==
  ASSUME TypeOK, OnPlan, NEW c \in Calls, NEW k \in Kinds, Ending(c, k)
  PROVE  \E s, t : /\ Moves(c, k, s, t)
                   /\ DropUser(c, k) \/ Holds(c, k, s, t, OwesUser(k), GaveUser(k))
                   /\ \/ DropTenant(c, k)
                      \/ Holds(c, k, s, t, OwesTenant(k), GaveTenant(k))
  <1>t. TaskOK
    BY DEF TypeOK, TaskOK
  <1>1. CASE Start(c, k)
    <2>1. /\ Moves(c, k, "nothing", FirstPoint(c, k))
          /\ session'[c] = IF k = "hangup" THEN "none" ELSE session[c]
      BY <1>t, <1>1, StartIs DEF Start, TypeOK
    <2>2. /\ Holds(c, k, "nothing", FirstPoint(c, k), OwesUser(k), GaveUser(k))
          /\ Holds(c, k, "nothing", FirstPoint(c, k), OwesTenant(k), GaveTenant(k))
      BY <2>1 DEF Holds, OwesUser, GaveUser, OwesTenant, GaveTenant, FirstPoint, Byes
    <2> QED
      BY <2>1, <2>2
  <1>2. CASE EndOrSkip(c, k)
    <2> DEFINE t == IF call[c] = "over" THEN "needSession" ELSE "dropGateway"
    <2>1. k \in Byes /\ Moves(c, k, "endOrSkip", t) /\ session' = session
      BY <1>t, <1>2, EndOrSkipIs DEF EndOrSkip
    <2>2. /\ Holds(c, k, "endOrSkip", t, OwesUser(k), GaveUser(k))
          /\ Holds(c, k, "endOrSkip", t, OwesTenant(k), GaveTenant(k))
      BY <2>1 DEF Holds, OwesUser, GaveUser, OwesTenant, GaveTenant, Byes
    <2> QED
      BY <2>1, <2>2
  <1>3. CASE End(c, k)
    <2>1. Moves(c, k, "end", "nothing") /\ session' = session
      BY <1>t, <1>3, EndIs DEF End
    <2>2. /\ Holds(c, k, "end", "nothing", OwesUser(k), GaveUser(k))
          /\ Holds(c, k, "end", "nothing", OwesTenant(k), GaveTenant(k))
      BY <2>1 DEF Holds, OwesUser, GaveUser, OwesTenant, GaveTenant
    <2> QED
      BY <2>1, <2>2
  <1>4. CASE ReadSession(c, k)
    <2> DEFINE t == IF session[c] = "none" THEN "dropGateway" ELSE "dropUser"
    <2>1. k = "failure" /\ Moves(c, k, "readSession", t) /\ session' = session
      BY <1>t, <1>4, ReadSessionIs DEF ReadSession
    <2>2. /\ Holds(c, k, "readSession", t, OwesUser(k), GaveUser(k))
          /\ Holds(c, k, "readSession", t, OwesTenant(k), GaveTenant(k))
      BY <2>1 DEF Holds, OwesUser, GaveUser, OwesTenant, GaveTenant
    <2> QED
      BY <2>1, <2>2
  <1>5. CASE NeedSession(c, k)
    <2> DEFINE t == IF session[c] = "none" THEN "nothing" ELSE "dropUser"
    <2>1. k \in Byes /\ Moves(c, k, "needSession", t) /\ session' = session
      BY <1>t, <1>5, NeedSessionIs DEF NeedSession
    <2>2. /\ Holds(c, k, "needSession", t, OwesUser(k), GaveUser(k))
          /\ Holds(c, k, "needSession", t, OwesTenant(k), GaveTenant(k))
      BY <2>1 DEF Holds, OwesUser, GaveUser, OwesTenant, GaveTenant, Byes
    <2> QED
      BY <2>1, <2>2
  <1>6. CASE DropUser(c, k)
    <2>1. Moves(c, k, "dropUser", "dropTenant") /\ session' = session
      BY <1>t, <1>6, DropUserIs DEF DropUser
    <2>2. Holds(c, k, "dropUser", "dropTenant", OwesTenant(k), GaveTenant(k))
      BY <2>1 DEF Holds, OwesUser, GaveUser, OwesTenant, GaveTenant
    <2> QED
      BY <1>6, <2>1, <2>2
  <1>7. CASE DropTenant(c, k)
    <2> DEFINE t == After(k)["dropTenant"]
    <2>1. Moves(c, k, "dropTenant", t) /\ session' = session /\ "dropTenant" \in Points(k)
      BY <1>t, <1>7, DropTenantIs DEF DropTenant
    <2>2. t \in {"remove", "end", "dropGateway"}
      BY <2>1, Successors
    <2>3. Holds(c, k, "dropTenant", t, OwesUser(k), GaveUser(k))
      BY <2>1, <2>2, Successors DEF Holds, OwesUser, GaveUser
    <2> QED
      BY <1>7, <2>1, <2>3
  <1>8. CASE DropGateway(c, k)
    <2> DEFINE t == After(k)["dropGateway"]
    <2>1. Moves(c, k, "dropGateway", t) /\ session' = session /\ "dropGateway" \in Points(k)
      BY <1>t, <1>8, DropGatewayIs DEF DropGateway
    <2>2. t = IF k \in Byes THEN "needSession" ELSE IF k = "failure" THEN "remove"
              ELSE IF k = "watchdog" THEN "end"
              ELSE IF k = "operator" THEN "removeOrStop" ELSE "dropUser"
      BY <2>1, Successors
    <2> HIDE DEF t
    <2>3. /\ Holds(c, k, "dropGateway", t, OwesUser(k), GaveUser(k))
          /\ Holds(c, k, "dropGateway", t, OwesTenant(k), GaveTenant(k))
      BY <2>1, <2>2, KindsAre DEF Holds, OwesUser, GaveUser, OwesTenant, GaveTenant, Byes
    <2> QED
      BY <2>1, <2>3
  <1>9. CASE Remove(c, k)
    <2> DEFINE t == IF k = "watchdog" THEN "dropGateway" ELSE "nothing"
    <2>1. k \in Byes \cup {"failure", "watchdog"} /\ Moves(c, k, "remove", t)
      BY <1>t, <1>9, RemoveIs
    <2>2. /\ Holds(c, k, "remove", t, OwesUser(k), GaveUser(k))
          /\ Holds(c, k, "remove", t, OwesTenant(k), GaveTenant(k))
      BY <2>1 DEF Holds, OwesUser, GaveUser, OwesTenant, GaveTenant, Byes
    <2> QED
      BY <2>1, <2>2
  <1>10. CASE RemoveOrStop(c, k)
    <2> DEFINE t == IF session[c] = "none" THEN "nothing" ELSE "end"
    <2>1. k = "operator" /\ Moves(c, k, "removeOrStop", t)
      BY <1>t, <1>10, RemoveOrStopIs
    <2>2. /\ Holds(c, k, "removeOrStop", t, OwesUser(k), GaveUser(k))
          /\ Holds(c, k, "removeOrStop", t, OwesTenant(k), GaveTenant(k))
      BY <2>1 DEF Holds, OwesUser, GaveUser, OwesTenant, GaveTenant
    <2> QED
      BY <2>1, <2>2
  <1> QED
    BY <1>1, <1>2, <1>3, <1>4, <1>5, <1>6, <1>7, <1>8, <1>9, <1>10 DEF Ending

LEMMA EnderFrame ==
  ASSUME TypeOK, NEW c \in Calls, NEW k \in Kinds, Ending(c, k)
  PROVE  /\ stage' = stage /\ route' = route
         /\ (c \in early => c \in early')
         /\ ~DropUser(c, k) => users' = users
         /\ ~DropTenant(c, k) => tenants' = tenants
         /\ ~DropGateway(c, k) => active' = active
  BY DEF Ending, Start, EndOrSkip, End, ReadSession, NeedSession, DropUser, DropTenant,
         DropGateway, Remove, RemoveOrStop, history, counts

LEMMA ReplyHolds ==
  ASSUME TypeOK, OnPlan, NEW c \in Calls, ReplyFailsOver(c) \/ ReplyFails(c) \/ MoveGateway(c)
  PROVE  \E s, t : /\ Moves(c, "failure", s, t)
                   /\ Holds(c, "failure", s, t, OwesUser("failure"), GaveUser("failure"))
                   /\ Holds(c, "failure", s, t, OwesTenant("failure"), GaveTenant("failure"))
  <1>t. TaskOK
    BY DEF TypeOK, TaskOK
  <1>1. \E s, t : /\ Moves(c, "failure", s, t)
                  /\ s \in {"reply", "moveGateway"}
                  /\ t \in {"moveGateway", "nothing", "readSession"}
    BY <1>t, FailoverIs, FailsIs, MoveGatewayIs
  <1>2. PICK s, t : /\ Moves(c, "failure", s, t)
                    /\ s \in {"reply", "moveGateway"}
                    /\ t \in {"moveGateway", "nothing", "readSession"}
    BY <1>1
  <1>3. session' = session
    BY DEF ReplyFailsOver, ReplyFails, MoveGateway
  <1>4. /\ Holds(c, "failure", s, t, OwesUser("failure"), GaveUser("failure"))
        /\ Holds(c, "failure", s, t, OwesTenant("failure"), GaveTenant("failure"))
    BY <1>2, <1>3 DEF Holds, OwesUser, GaveUser, OwesTenant, GaveTenant
  <1> QED
    BY <1>2, <1>4

LEMMA UserStep ==
  ASSUME TypeOK, OnPlan, InOrder, NEW c \in Calls, NEW k \in Kinds, StepOf(c, k)
  PROVE  \/ users' = users /\ (CountsUser(c) => CountsUser(c)')
         \/ users' = users + 1 /\ ~CountsUser(c) /\ CountsUser(c)'
         \/ users' = Less(users)
  <1>1. CASE Inviting(c) \/ Answer(c)
    <2>1. UNCHANGED <<task, early>>
      BY <1>1 DEF Inviting, Answer, CheckUser, Route, Refuse, Remember, CountUser, SetTenant,
                  CountTenant, CountGateway, history
    <2>2. \A l \in Kinds : Now(c, l)' = Now(c, l)
      BY <2>1, NobodyMoves
    <2>3. CASE CountUser(c)
      <3>1. stage[c] = "remembered" /\ stage'[c] = "userCounted" /\ session' = session
        BY <2>3 DEF CountUser, At, TypeOK
      <3>2. c \in early \/ (session[c] # "none" /\ Resting(c))
        BY <3>1 DEF InOrder, Orderly
      <3>3. CountsUser(c)'
        BY <2>1, <2>2, <3>1, <3>2 DEF CountsUser, Resting, OwesUser, GaveUser
      <3> QED
        BY <2>3, <3>1, <3>3 DEF CountUser, CountsUser
    <2>4. CASE ~CountUser(c)
      <3>1. users' = users
        BY <1>1, <2>4 DEF Inviting, Answer, CheckUser, Route, Refuse, Remember, SetTenant,
                  CountTenant, CountGateway, counts
      <3>2. session[c] # "none" => session'[c] # "none"
        BY <1>1 DEF Inviting, Answer, CheckUser, Route, Refuse, Remember, CountUser, SetTenant,
                  CountTenant, CountGateway, TypeOK
      <3>3. stage[c] \in {"userCounted", "tenantSet", "counted", "sent"}
              => stage'[c] \in {"userCounted", "tenantSet", "counted", "sent"}
        BY <1>1 DEF Inviting, Answer, At, CheckUser, Route, Refuse, Remember, CountUser, SetTenant,
                  CountTenant, CountGateway, TypeOK
      <3> QED
        BY <2>1, <2>2, <3>1, <3>2, <3>3 DEF CountsUser, OwesUser, GaveUser
    <2> QED
      BY <2>3, <2>4
  <1>2. CASE ReplyFailsOver(c) \/ ReplyFails(c) \/ MoveGateway(c)
    <2>1. users' = users /\ stage' = stage /\ early' = early
      BY <1>2 DEF ReplyFailsOver, ReplyFails, MoveGateway, counts, history
    <2>2. "failure" \in Kinds
      BY DEF Kinds, GatewayKinds
    <2>3. PICK s, t : /\ Moves(c, "failure", s, t)
                      /\ Holds(c, "failure", s, t, OwesUser("failure"), GaveUser("failure"))
      BY <1>2, ReplyHolds
    <2>4. CountsUser(c) => CountsUser(c)'
      BY <2>1, <2>2, <2>3, StillUser DEF Holds
    <2> QED
      BY <2>1, <2>4
  <1>3. CASE Ending(c, k) /\ DropUser(c, k)
    BY <1>3 DEF DropUser
  <1>4. CASE Ending(c, k) /\ ~DropUser(c, k)
    <2>1. users' = users /\ stage' = stage /\ (c \in early => c \in early')
      BY <1>4, EnderFrame
    <2>2. PICK s, t : Moves(c, k, s, t) /\ Holds(c, k, s, t, OwesUser(k), GaveUser(k))
      BY <1>4, EnderHolds
    <2>3. CountsUser(c) => CountsUser(c)'
      BY <2>1, <2>2, StillUser DEF Holds
    <2> QED
      BY <2>1, <2>3
  <1> QED
    BY <1>1, <1>2, <1>3, <1>4 DEF StepOf

LEMMA TenantStep ==
  ASSUME TypeOK, OnPlan, InOrder, NEW c \in Calls, NEW k \in Kinds, StepOf(c, k)
  PROVE  \/ tenants' = tenants /\ (CountsTenant(c) => CountsTenant(c)')
         \/ tenants' = tenants + 1 /\ ~CountsTenant(c) /\ CountsTenant(c)'
         \/ tenants' = Less(tenants)
  <1>t. TaskOK
    BY DEF TypeOK, TaskOK
  <1>1. CASE Inviting(c) \/ Answer(c)
    <2>1. UNCHANGED <<task, early>>
      BY <1>1 DEF Inviting, Answer, CheckUser, Route, Refuse, Remember, CountUser, SetTenant,
                  CountTenant, CountGateway, history
    <2>2. \A l \in Kinds : Now(c, l)' = Now(c, l)
      BY <2>1, NobodyMoves
    <2>3. CASE CountTenant(c)
      <3>1. stage[c] = "tenantSet" /\ stage'[c] = "counted" /\ session' = session
        BY <2>3 DEF CountTenant, At, TypeOK
      <3>2. c \in early \/ (session[c] # "none" /\ Resting(c))
        BY <3>1 DEF InOrder, Orderly
      <3>3. CountsTenant(c)'
        BY <2>1, <2>2, <3>1, <3>2
           DEF CountsTenant, Resting, OwesTenant, GaveTenant, OwesUser, GaveUser
      <3> QED
        BY <2>3, <3>1, <3>3 DEF CountTenant, CountsTenant
    <2>4. CASE ~CountTenant(c)
      <3>1. tenants' = tenants
        BY <1>1, <2>4 DEF Inviting, Answer, CheckUser, Route, Refuse, Remember, CountUser,
                  SetTenant, CountGateway, counts
      <3>2. session[c] # "none" => session'[c] # "none"
        BY <1>1 DEF Inviting, Answer, CheckUser, Route, Refuse, Remember, CountUser, SetTenant,
                  CountTenant, CountGateway, TypeOK
      <3>3. stage[c] \in {"counted", "sent"} => stage'[c] \in {"counted", "sent"}
        BY <1>1 DEF Inviting, Answer, At, CheckUser, Route, Refuse, Remember, CountUser, SetTenant,
                  CountTenant, CountGateway, TypeOK
      <3> QED
        BY <2>1, <2>2, <3>1, <3>2, <3>3
           DEF CountsTenant, OwesTenant, GaveTenant, OwesUser, GaveUser
    <2> QED
      BY <2>3, <2>4
  <1>2. CASE ReplyFailsOver(c) \/ ReplyFails(c) \/ MoveGateway(c)
    <2>1. tenants' = tenants /\ stage' = stage /\ early' = early
      BY <1>2 DEF ReplyFailsOver, ReplyFails, MoveGateway, counts, history
    <2>2. "failure" \in Kinds
      BY DEF Kinds, GatewayKinds
    <2>3. PICK s, t : /\ Moves(c, "failure", s, t)
                      /\ Holds(c, "failure", s, t, OwesTenant("failure"), GaveTenant("failure"))
      BY <1>2, ReplyHolds
    <2>4. CountsTenant(c) => CountsTenant(c)'
      BY <2>1, <2>2, <2>3, StillTenant DEF Holds
    <2> QED
      BY <2>1, <2>4
  <1>3. CASE Ending(c, k) /\ DropTenant(c, k)
    <2>1. CASE task[c][k].tenant
      BY <1>3, <2>1 DEF DropTenant
    <2>2. CASE ~task[c][k].tenant
      <3>1. tenants' = tenants /\ stage' = stage /\ early' = early
        BY <1>3, <2>2 DEF DropTenant, history
      <3>2. Now(c, k) = "dropTenant"
        BY <1>t, <1>3, DropTenantIs DEF Moves
      <3>3. ~Carries(c)
        BY <2>2, <3>2 DEF Carries, OwesTenant
      <3>4. c \in early
        BY <3>3 DEF InOrder
      <3> QED
        BY <3>1, <3>4 DEF CountsTenant
    <2> QED
      BY <2>1, <2>2
  <1>4. CASE Ending(c, k) /\ ~DropTenant(c, k)
    <2>1. tenants' = tenants /\ stage' = stage /\ (c \in early => c \in early')
      BY <1>4, EnderFrame
    <2>2. PICK s, t : Moves(c, k, s, t) /\ Holds(c, k, s, t, OwesTenant(k), GaveTenant(k))
      BY <1>4, EnderHolds
    <2>3. CountsTenant(c) => CountsTenant(c)'
      BY <2>1, <2>2, StillTenant DEF Holds
    <2> QED
      BY <2>1, <2>3
  <1> QED
    BY <1>1, <1>2, <1>3, <1>4 DEF StepOf

LEMMA AtMostStep ==
  ASSUME TypeOK, OnPlan, InOrder, AtMost, NEW c \in Calls, NEW k \in Kinds, StepOf(c, k)
  PROVE  AtMost'
  <1>1. \A d \in Calls : d # c => /\ CountsUser(d)' <=> CountsUser(d)
                                  /\ CountsTenant(d)' <=> CountsTenant(d)
    BY OthersSame, SameIsSame
  <1>2. users' <= Cardinality(CountedUsers')
    <2>1. CountedUsers \in SUBSET Calls /\ CountedUsers' \in SUBSET Calls
      BY DEF CountedUsers
    <2>2. \A d \in Calls : d # c => (d \in CountedUsers' <=> d \in CountedUsers)
      BY <1>1 DEF CountedUsers
    <2>3. \/ users' = users /\ (c \in CountedUsers => c \in CountedUsers')
          \/ users' = users + 1 /\ c \notin CountedUsers /\ c \in CountedUsers'
          \/ users' = Less(users)
      BY UserStep DEF CountedUsers
    <2>4. users \in Nat /\ users <= Cardinality(CountedUsers)
      BY DEF TypeOK, AtMost
    <2> QED
      BY <2>1, <2>2, <2>3, <2>4, NeverMore
  <1>3. tenants' <= Cardinality(CountedTenants')
    <2>1. CountedTenants \in SUBSET Calls /\ CountedTenants' \in SUBSET Calls
      BY DEF CountedTenants
    <2>2. \A d \in Calls : d # c => (d \in CountedTenants' <=> d \in CountedTenants)
      BY <1>1 DEF CountedTenants
    <2>3. \/ tenants' = tenants /\ (c \in CountedTenants => c \in CountedTenants')
          \/ tenants' = tenants + 1 /\ c \notin CountedTenants /\ c \in CountedTenants'
          \/ tenants' = Less(tenants)
      BY TenantStep DEF CountedTenants
    <2>4. tenants \in Nat /\ tenants <= Cardinality(CountedTenants)
      BY DEF TypeOK, AtMost
    <2> QED
      BY <2>1, <2>2, <2>3, <2>4, NeverMore
  <1> QED
    BY <1>2, <1>3 DEF AtMost

-----------------------------------------------------------------------------
(* While enders come one after the other, a counter and the set it counts   *)
(* change together.                                                        *)

Together(n, m, before, after) ==
  \/ m = n /\ (before <=> after)
  \/ m = n + 1 /\ ~before /\ after
  \/ m = Less(n) /\ before /\ ~after

(* What the sets say of a call whose only ender is at p.                   *)
Owed(owes, gave, p, sess) == p \in owes \/ (sess # "none" /\ p \notin gave)

LEMMA AloneCounts ==
  ASSUME NEW c \in Calls, NEW k \in Kinds, Alone(c, k), Alone(c, k)',
         stage[c] = "sent", stage'[c] = "sent", c \notin early, c \notin early'
  PROVE  /\ CountsUser(c) <=> Owed(OwesUser(k), GaveUser(k), Now(c, k), session[c])
         /\ CountsUser(c)' <=> Owed(OwesUser(k), GaveUser(k), Now(c, k)', session'[c])
         /\ CountsTenant(c) <=> Owed(OwesTenant(k), GaveTenant(k), Now(c, k), session[c])
         /\ CountsTenant(c)' <=> Owed(OwesTenant(k), GaveTenant(k), Now(c, k)', session'[c])
         /\ \A r : CountsGateway(c, r) <=>
              SlotOf(c) = r /\ Owed(OwesGateway(k), GaveGateway(k), Now(c, k), session[c])
         /\ \A r : CountsGateway(c, r)' <=>
              SlotOf(c)' = r /\ Owed(OwesGateway(k), GaveGateway(k), Now(c, k)', session'[c])
  <1>1. \A l \in Kinds : l # k => Now(c, l) = "nothing" /\ Now(c, l)' = "nothing"
    BY DEF Alone
  <1>2. \A l : "nothing" \notin OwesUser(l) /\ "nothing" \notin GaveUser(l)
    BY DEF OwesUser, GaveUser
  <1>3. \A l : "nothing" \notin OwesTenant(l) /\ "nothing" \notin GaveTenant(l)
    BY <1>2 DEF OwesTenant, GaveTenant
  <1>4. \A l : "nothing" \notin OwesGateway(l) /\ "nothing" \notin GaveGateway(l)
    BY DEF OwesGateway, GaveGateway
  <1>5. /\ CountsUser(c) <=> Owed(OwesUser(k), GaveUser(k), Now(c, k), session[c])
        /\ CountsUser(c)' <=> Owed(OwesUser(k), GaveUser(k), Now(c, k)', session'[c])
    BY <1>1, <1>2 DEF CountsUser, Owed, OwesUser, GaveUser
  <1>6. /\ CountsTenant(c) <=> Owed(OwesTenant(k), GaveTenant(k), Now(c, k), session[c])
        /\ CountsTenant(c)' <=> Owed(OwesTenant(k), GaveTenant(k), Now(c, k)', session'[c])
    BY <1>1, <1>3 DEF CountsTenant, Owed, OwesTenant, GaveTenant, OwesUser, GaveUser
  <1>7. /\ \A r : CountsGateway(c, r) <=>
             SlotOf(c) = r /\ Owed(OwesGateway(k), GaveGateway(k), Now(c, k), session[c])
        /\ \A r : CountsGateway(c, r)' <=>
             SlotOf(c)' = r /\ Owed(OwesGateway(k), GaveGateway(k), Now(c, k)', session'[c])
    BY <1>1, <1>4 DEF CountsGateway, Owed, OwesGateway, GaveGateway
  <1> QED
    BY <1>5, <1>6, <1>7

(* The INVITE.                                                             *)
LEMMA InviteTogether ==
  ASSUME TypeOK, OnPlan, NEW c \in Calls, Inviting(c) \/ Answer(c), c \notin early, Orderly(c)
  PROVE  /\ Together(users, users', CountsUser(c), CountsUser(c)')
         /\ Together(tenants, tenants', CountsTenant(c), CountsTenant(c)')
         /\ \A r \in Routes :
              Together(active[r], active'[r], CountsGateway(c, r), CountsGateway(c, r)')
  <1>1. UNCHANGED <<task, early, route>>
    BY DEF Inviting, Answer, CheckUser, Route, Refuse, Remember, CountUser, SetTenant,
                  CountTenant, CountGateway, history
  <1>2. \A l \in Kinds : Now(c, l)' = Now(c, l)
    BY <1>1, NobodyMoves
  <1>3. SlotOf(c)' = SlotOf(c)
    BY <1>1, <1>2 DEF SlotOf, Kinds, GatewayKinds
  <1>4. CASE Answer(c)
    <2>1. UNCHANGED <<stage, session, counts>>
      BY <1>4 DEF Answer
    <2> QED
      BY <1>1, <1>2, <1>3, <2>1
         DEF Together, counts, CountsUser, OwesUser, GaveUser, CountsTenant, OwesTenant,
             GaveTenant, CountsGateway, OwesGateway, GaveGateway
  <1>5. CASE Inviting(c)
    <2>1. Resting(c) /\ Resting(c)' /\ SlotOf(c) = route[c]
      <3>1. stage[c] # "sent"
        BY <1>5 DEF Inviting, CheckUser, Route, Refuse, Remember, CountUser, SetTenant,
                  CountTenant, CountGateway, At
      <3>2. Resting(c)
        BY <3>1 DEF Orderly
      <3> QED
        BY <1>2, <3>2 DEF Resting, SlotOf, Kinds, GatewayKinds
    <2>2. /\ CountsUser(c) <=>
               stage[c] \in {"userCounted", "tenantSet", "counted", "sent"} /\ session[c] # "none"
          /\ CountsUser(c)' <=>
               stage'[c] \in {"userCounted", "tenantSet", "counted", "sent"} /\ session'[c] # "none"
      BY <1>1, <2>1 DEF Resting, CountsUser, OwesUser, GaveUser
    <2>3. /\ CountsTenant(c) <=> stage[c] \in {"counted", "sent"} /\ session[c] # "none"
          /\ CountsTenant(c)' <=> stage'[c] \in {"counted", "sent"} /\ session'[c] # "none"
      BY <1>1, <2>1 DEF Resting, CountsTenant, OwesTenant, GaveTenant, OwesUser, GaveUser
    <2>4. \A r : /\ CountsGateway(c, r) <=> stage[c] = "sent" /\ route[c] = r /\ session[c] # "none"
                 /\ CountsGateway(c, r)' <=> stage'[c] = "sent" /\ route[c] = r /\ session'[c] # "none"
      BY <1>1, <1>3, <2>1 DEF Resting, CountsGateway, OwesGateway, GaveGateway
    <2>5. Together(users, users', CountsUser(c), CountsUser(c)')
      BY <1>5, <2>2
         DEF Together, Inviting, CheckUser, Route, Refuse, Remember, CountUser, SetTenant,
             CountTenant, CountGateway, At, TypeOK, counts, Orderly
    <2>6. Together(tenants, tenants', CountsTenant(c), CountsTenant(c)')
      BY <1>5, <2>3
         DEF Together, Inviting, CheckUser, Route, Refuse, Remember, CountUser, SetTenant,
             CountTenant, CountGateway, At, TypeOK, counts, Orderly
    <2>7. ASSUME NEW r \in Routes
          PROVE  Together(active[r], active'[r], CountsGateway(c, r), CountsGateway(c, r)')
      BY <1>5, <2>4
         DEF Together, Inviting, CheckUser, Route, Refuse, Remember, CountUser, SetTenant,
             CountTenant, CountGateway, At, TypeOK, counts, Orderly
    <2> QED
      BY <2>5, <2>6, <2>7
  <1> QED
    BY <1>4, <1>5

(* A failure response to the call. *)
LEMMA ReplyTogether ==
  ASSUME TypeOK, OnPlan, Moving, NEW c \in Calls,
         ReplyFailsOver(c) \/ ReplyFails(c) \/ MoveGateway(c),
         Serial(c), Orderly(c), c \notin early
  PROVE  /\ Together(users, users', CountsUser(c), CountsUser(c)')
         /\ Together(tenants, tenants', CountsTenant(c), CountsTenant(c)')
         /\ \A r \in Routes :
              Together(active[r], active'[r], CountsGateway(c, r), CountsGateway(c, r)')
  <1>t. TaskOK /\ "failure" \in Kinds /\ "failure" \notin Byes
    BY DEF TypeOK, TaskOK, Kinds, GatewayKinds, Byes
  <1> DEFINE k == "failure"
  <1>1. \/ ReplyFailsOver(c) /\ Moves(c, k, "reply", "moveGateway")
        \/ ReplyFails(c) /\ Moves(c, k, "reply", IF call[c] = "over" THEN "nothing" ELSE "readSession")
        \/ MoveGateway(c) /\ Moves(c, k, "moveGateway", "nothing")
    BY <1>t, FailoverIs, FailsIs, MoveGatewayIs
  <1>2. Alone(c, k) /\ Alone(c, k)'
    BY SerialReply
  <1>3. Now(c, k) \in {"reply", "moveGateway"} /\ Now(c, k)' \in {"moveGateway", "nothing", "readSession"}
    BY <1>1 DEF Moves
  <1>4. stage[c] = "sent"
    BY <1>t, <1>3, AloneInSent
  <1>5. stage' = stage /\ session' = session /\ early' = early /\ users' = users /\ tenants' = tenants
    BY DEF ReplyFailsOver, ReplyFails, MoveGateway, counts, history
  <1>6. session[c] # "none"
    BY <1>t, <1>2, <1>3, <1>4, FitsNow DEF Fits, Gone
  <1>7. CountsUser(c) /\ CountsUser(c)'
    BY <1>t, <1>2, <1>3, <1>4, <1>5, <1>6, AloneCounts DEF Owed, OwesUser, GaveUser
  <1>8. CountsTenant(c) /\ CountsTenant(c)'
    BY <1>t, <1>2, <1>3, <1>4, <1>5, <1>6, AloneCounts
       DEF Owed, OwesTenant, GaveTenant, OwesUser, GaveUser
  <1>9. \A r : /\ CountsGateway(c, r) <=> SlotOf(c) = r
               /\ CountsGateway(c, r)' <=> SlotOf(c)' = r
    <2>1. /\ Owed(OwesGateway(k), GaveGateway(k), Now(c, k), session[c])
          /\ Owed(OwesGateway(k), GaveGateway(k), Now(c, k)', session'[c])
      BY <1>t, <1>3, <1>5, <1>6 DEF Owed, OwesGateway, GaveGateway
    <2> QED
      BY <1>t, <1>2, <1>4, <1>5, <2>1, AloneCounts
  <1>10. ASSUME NEW r \in Routes
         PROVE  Together(active[r], active'[r], CountsGateway(c, r), CountsGateway(c, r)')
    <2>t. route[c] \in Nat
      BY DEF TypeOK, Routes
    <2>1. CASE ReplyFailsOver(c) /\ Moves(c, k, "reply", "moveGateway")
      <3>1. active' = active /\ route'[c] = route[c] + 1
        BY <2>1 DEF ReplyFailsOver, counts, TypeOK
      <3>2. SlotOf(c) = route[c] /\ SlotOf(c)' = route[c]
        BY <2>t, <2>1, <3>1 DEF Moves, SlotOf
      <3> QED
        BY <1>9, <3>1, <3>2 DEF Together
    <2>2. CASE ReplyFails(c) /\ Moves(c, k, "reply", IF call[c] = "over" THEN "nothing" ELSE "readSession")
      <3>1. active' = active /\ route' = route
        BY <2>2 DEF ReplyFails, counts
      <3>2. SlotOf(c) = route[c] /\ SlotOf(c)' = route[c]
        BY <2>2, <3>1 DEF Moves, SlotOf
      <3> QED
        BY <1>9, <3>1, <3>2 DEF Together
    <2>3. CASE MoveGateway(c) /\ Moves(c, k, "moveGateway", "nothing")
      <3>1. /\ active' = [active EXCEPT ![route[c] - 1] = Less(@), ![route[c]] = @ + 1]
            /\ route' = route
        BY <2>3 DEF MoveGateway
      <3>2. SlotOf(c) = route[c] - 1 /\ SlotOf(c)' = route[c]
        BY <2>3, <3>1 DEF Moves, SlotOf
      <3>3. /\ r = route[c] - 1 => active'[r] = Less(active[r])
            /\ r = route[c] => active'[r] = active[r] + 1
            /\ r # route[c] - 1 /\ r # route[c] => active'[r] = active[r]
        BY <2>t, <3>1 DEF TypeOK
      <3> QED
        BY <1>9, <2>t, <3>2, <3>3 DEF Together
    <2> QED
      BY <1>1, <2>1, <2>2, <2>3
  <1> QED
    BY <1>5, <1>7, <1>8, <1>10 DEF Together

(* Where a lone ender leaves a call counted. *)
HasUser(k) ==
  {"dropUser"} \cup (IF k \in Byes THEN {"endOrSkip", "dropGateway", "needSession"}
                     ELSE IF k = "failure" THEN {"reply", "moveGateway", "readSession"}
                     ELSE IF k = "hangup" THEN {"dropGateway"} ELSE {})
HasTenant(k) == HasUser(k) \cup {"dropTenant"}
HasGateway(k) ==
  {"dropGateway"} \cup (IF k \in Byes THEN {"endOrSkip"}
                        ELSE IF k = "failure" THEN
                          {"reply", "moveGateway", "readSession", "dropUser", "dropTenant"}
                        ELSE IF k = "hangup" THEN {}
                        ELSE {"dropUser", "dropTenant"}
                               \cup (IF k = "watchdog" THEN {"remove"} ELSE {}))

LEMMA HasIs ==
  ASSUME NEW k \in Kinds, NEW p \in Points(k), p # "nothing", NEW sess, NEW state,
         Fits(k, p, sess, state)
  PROVE  /\ Owed(OwesUser(k), GaveUser(k), p, sess) <=> p \in HasUser(k)
         /\ Owed(OwesTenant(k), GaveTenant(k), p, sess) <=> p \in HasTenant(k)
         /\ Owed(OwesGateway(k), GaveGateway(k), p, sess) <=> p \in HasGateway(k)
  <1>1. sess = "none" <=> p \in Gone(k)
    BY DEF Fits
  <1>2. CASE k \in Byes
    BY <1>1, <1>2, PointsAre DEF Owed, OwesUser, GaveUser, OwesTenant, GaveTenant, OwesGateway,
       GaveGateway, HasUser, HasTenant, HasGateway, Gone, Byes
  <1>3. CASE k = "failure"
    BY <1>1, <1>3, PointsAre DEF Owed, OwesUser, GaveUser, OwesTenant, GaveTenant, OwesGateway,
       GaveGateway, HasUser, HasTenant, HasGateway, Gone, Byes
  <1>4. CASE k = "watchdog"
    BY <1>1, <1>4, PointsAre DEF Owed, OwesUser, GaveUser, OwesTenant, GaveTenant, OwesGateway,
       GaveGateway, HasUser, HasTenant, HasGateway, Gone, Byes
  <1>5. CASE k = "operator"
    BY <1>1, <1>5, PointsAre DEF Owed, OwesUser, GaveUser, OwesTenant, GaveTenant, OwesGateway,
       GaveGateway, HasUser, HasTenant, HasGateway, Gone, Byes
  <1>6. CASE k = "hangup"
    BY <1>1, <1>6, PointsAre DEF Owed, OwesUser, GaveUser, OwesTenant, GaveTenant, OwesGateway,
       GaveGateway, HasUser, HasTenant, HasGateway, Gone, Byes
  <1> QED
    BY <1>2, <1>3, <1>4, <1>5, <1>6, KindsAre

(* A step of a lone ender counts the call out where it says so, and nowhere *)
(* else.                                                                   *)
Drops(step, has, s, t) == IF s = step THEN s \in has /\ t \notin has ELSE s \in has <=> t \in has

Leads(k, s, t) ==
  /\ Drops("dropUser", HasUser(k), s, t)
  /\ Drops("dropTenant", HasTenant(k), s, t)
  /\ Drops("dropGateway", HasGateway(k), s, t)
  /\ s \notin {"nothing", "moveGateway"} /\ t # "moveGateway"

LEMMA AtStep ==
  ASSUME TypeOK, OnPlan, NEW c \in Calls, NEW k \in Kinds
  PROVE  /\ Doing(c, k, "dropUser") <=> Now(c, k) = "dropUser"
         /\ Doing(c, k, "dropTenant") <=> Now(c, k) = "dropTenant"
         /\ Doing(c, k, "dropGateway") <=> Now(c, k) = "dropGateway"
         /\ Now(c, k) \in Points(k)
  BY DEF Doing, Now, OnPlan

LEMMA WorkLeads ==
  ASSUME TypeOK, OnPlan, NEW c \in Calls, NEW k \in Kinds, Ending(c, k), ~Start(c, k),
         Serial(c), Orderly(c)
  PROVE  /\ Leads(k, Now(c, k), Now(c, k)')
         /\ Now(c, k)' = "nothing" => session'[c] = "none"
  <1>t. TaskOK
    BY DEF TypeOK, TaskOK
  <1>f. Now(c, k) # "nothing" /\ Fits(k, Now(c, k), session[c], call[c])
    BY SerialWork
  <1>u. \A s, t : Moves(c, k, s, t) => Now(c, k) = s /\ Now(c, k)' = t
    BY DEF Moves
  <1>h. k \in Byes => k \notin {"failure", "watchdog", "operator", "hangup"}
    BY DEF Byes
  <1>g. /\ k \in Byes => Gone(k) = {"end"}
        /\ k = "failure" => Gone(k) = {"end"}
        /\ k = "operator" => Gone(k) = {"end"}
    BY DEF Gone, Byes
  <1>1. CASE EndOrSkip(c, k)
    <2>1. /\ k \in Byes
          /\ Moves(c, k, "endOrSkip", IF call[c] = "over" THEN "needSession" ELSE "dropGateway")
      BY <1>t, <1>1, EndOrSkipIs
    <2>2. call[c] # "over"
      BY <1>f, <1>u, <2>1 DEF Fits
    <2> QED
      BY <1>u, <1>h, <2>1, <2>2 DEF Leads, Drops, HasUser, HasTenant, HasGateway
  <1>2. CASE End(c, k)
    <2>1. k \in {"watchdog", "operator", "hangup"} /\ Moves(c, k, "end", "nothing") /\ session' = session
      BY <1>t, <1>2, EndIs DEF End
    <2>2. session[c] = "none"
      BY <1>f, <1>u, <2>1 DEF Fits, Gone
    <2> QED
      BY <1>u, <1>h, <2>1, <2>2 DEF Leads, Drops, HasUser, HasTenant, HasGateway
  <1>3. CASE ReadSession(c, k)
    <2>1. /\ k = "failure"
          /\ Moves(c, k, "readSession", IF session[c] = "none" THEN "dropGateway" ELSE "dropUser")
      BY <1>t, <1>3, ReadSessionIs
    <2>2. session[c] # "none"
      BY <1>f, <1>g, <1>u, <2>1 DEF Fits
    <2> QED
      BY <1>u, <1>h, <2>1, <2>2 DEF Leads, Drops, HasUser, HasTenant, HasGateway
  <1>4. CASE NeedSession(c, k)
    <2>1. /\ k \in Byes
          /\ Moves(c, k, "needSession", IF session[c] = "none" THEN "nothing" ELSE "dropUser")
      BY <1>t, <1>4, NeedSessionIs
    <2>2. session[c] # "none"
      BY <1>f, <1>g, <1>u, <2>1 DEF Fits
    <2> QED
      BY <1>u, <1>h, <2>1, <2>2 DEF Leads, Drops, HasUser, HasTenant, HasGateway
  <1>5. CASE DropUser(c, k)
    <2>1. Moves(c, k, "dropUser", "dropTenant")
      BY <1>t, <1>5, DropUserIs
    <2> QED
      BY <1>u, <1>h, <2>1, KindsAre DEF Leads, Drops, HasUser, HasTenant, HasGateway
  <1>6. CASE DropTenant(c, k)
    <2>1. "dropTenant" \in Points(k) /\ Moves(c, k, "dropTenant", After(k)["dropTenant"])
      BY <1>t, <1>6, DropTenantIs
    <2>2. After(k)["dropTenant"] =
            IF k \in Byes \cup {"watchdog"} THEN "remove"
            ELSE IF k = "hangup" THEN "end" ELSE "dropGateway"
      BY <2>1, Successors
    <2> QED
      BY <1>u, <1>h, <2>1, <2>2, KindsAre DEF Leads, Drops, HasUser, HasTenant, HasGateway
  <1>7. CASE DropGateway(c, k)
    <2>1. "dropGateway" \in Points(k) /\ Moves(c, k, "dropGateway", After(k)["dropGateway"])
      BY <1>t, <1>7, DropGatewayIs
    <2>2. After(k)["dropGateway"] =
            IF k \in Byes THEN "needSession" ELSE IF k = "failure" THEN "remove"
            ELSE IF k = "watchdog" THEN "end"
            ELSE IF k = "operator" THEN "removeOrStop" ELSE "dropUser"
      BY <2>1, Successors
    <2> QED
      BY <1>u, <1>h, <2>1, <2>2, KindsAre DEF Leads, Drops, HasUser, HasTenant, HasGateway
  <1>8. CASE Remove(c, k)
    <2>1. /\ k \in Byes \cup {"failure", "watchdog"} /\ session'[c] = "none"
          /\ Moves(c, k, "remove", IF k = "watchdog" THEN "dropGateway" ELSE "nothing")
      BY <1>t, <1>8, RemoveIs DEF Remove, TypeOK
    <2> QED
      BY <1>u, <1>h, <2>1, KindsAre DEF Leads, Drops, HasUser, HasTenant, HasGateway
  <1>9. CASE RemoveOrStop(c, k)
    <2>1. /\ k = "operator" /\ session'[c] = "none"
          /\ Moves(c, k, "removeOrStop", IF session[c] = "none" THEN "nothing" ELSE "end")
      BY <1>t, <1>9, RemoveOrStopIs DEF RemoveOrStop, TypeOK
    <2>2. session[c] # "none"
      BY <1>f, <1>g, <1>u, <2>1 DEF Fits
    <2> QED
      BY <1>u, <1>h, <2>1, <2>2 DEF Leads, Drops, HasUser, HasTenant, HasGateway
  <1> QED
    BY <1>1, <1>2, <1>3, <1>4, <1>5, <1>6, <1>7, <1>8, <1>9 DEF Ending

LEMMA WorkTogether ==
  ASSUME TypeOK, OnPlan, NEW c \in Calls, NEW k \in Kinds, Ending(c, k), ~Start(c, k),
         Serial(c), Orderly(c), Carries(c), Tame, Tame', OnPlan'
  PROVE  /\ Together(users, users', CountsUser(c), CountsUser(c)')
         /\ Together(tenants, tenants', CountsTenant(c), CountsTenant(c)')
         /\ \A r \in Routes :
              Together(active[r], active'[r], CountsGateway(c, r), CountsGateway(c, r)')
  <1> DEFINE s == Now(c, k)
             t == Now(c, k)'
  <1>1. Leads(k, s, t) /\ (t = "nothing" => session'[c] = "none")
    BY WorkLeads
  <1>2. /\ Alone(c, k) /\ Alone(c, k)' /\ stage[c] = "sent"
        /\ s # "nothing" /\ Fits(k, s, session[c], call[c])
    BY SerialWork
  <1>3. Fits(k, t, session'[c], call'[c])
    BY SerialWorkFits
  <1>4. stage' = stage /\ route' = route /\ c \notin early /\ c \notin early'
    BY EnderFrame DEF Tame
  <1>5. s \in Points(k) /\ t \in Points(k)
    BY DEF OnPlan, Points, From
  <1>6. "nothing" \notin HasUser(k) /\ "nothing" \notin HasTenant(k) /\ "nothing" \notin HasGateway(k)
    BY DEF HasUser, HasTenant, HasGateway
  <1>7. /\ "nothing" \notin OwesUser(k) /\ "nothing" \notin OwesTenant(k)
        /\ "nothing" \notin OwesGateway(k)
    BY DEF OwesUser, OwesTenant, OwesGateway
  <1>8. /\ CountsUser(c) <=> s \in HasUser(k)
        /\ CountsTenant(c) <=> s \in HasTenant(k)
        /\ \A r : CountsGateway(c, r) <=> SlotOf(c) = r /\ s \in HasGateway(k)
    BY <1>2, <1>4, <1>5, AloneCounts, HasIs
  <1>9. /\ CountsUser(c)' <=> t \in HasUser(k)
        /\ CountsTenant(c)' <=> t \in HasTenant(k)
        /\ \A r : CountsGateway(c, r)' <=> SlotOf(c)' = r /\ t \in HasGateway(k)
    <2>1. CASE t # "nothing"
      BY <1>2, <1>3, <1>4, <1>5, <2>1, AloneCounts, HasIs
    <2>2. CASE t = "nothing"
      BY <1>1, <1>2, <1>4, <1>6, <1>7, <2>2, AloneCounts DEF Owed
    <2> QED
      BY <2>1, <2>2
  <1>10. SlotOf(c) = route[c] /\ SlotOf(c)' = route[c]
    <2>1. Now(c, "failure") # "moveGateway" /\ Now(c, "failure")' # "moveGateway"
      <3>1. "failure" \in Kinds
        BY DEF Kinds, GatewayKinds
      <3> QED
        BY <1>1, <1>2, <3>1 DEF Leads, Alone
    <2> QED
      BY <1>4, <2>1 DEF SlotOf
  <1>11. /\ DropUser(c, k) <=> s = "dropUser"
         /\ DropTenant(c, k) <=> s = "dropTenant"
         /\ DropGateway(c, k) <=> s = "dropGateway"
    <2>1. /\ EndOrSkip(c, k) => s = "endOrSkip"
          /\ End(c, k) => s = "end"
          /\ ReadSession(c, k) => s = "readSession"
          /\ NeedSession(c, k) => s = "needSession"
          /\ DropUser(c, k) => s = "dropUser"
          /\ DropTenant(c, k) => s = "dropTenant"
          /\ DropGateway(c, k) => s = "dropGateway"
          /\ Remove(c, k) => s = "remove"
          /\ RemoveOrStop(c, k) => s = "removeOrStop"
      BY DEF EndOrSkip, End, ReadSession, NeedSession, DropUser, DropTenant, DropGateway, Remove,
             RemoveOrStop, Doing, Now
    <2> QED
      BY <2>1 DEF Ending
  <1> HIDE DEF s, t
  <1>12. Together(users, users', CountsUser(c), CountsUser(c)')
    <2>1. IF s = "dropUser" THEN users' = Less(users) ELSE users' = users
      BY <1>11, EnderFrame DEF DropUser
    <2> QED
      BY <1>1, <1>8, <1>9, <2>1 DEF Leads, Drops, Together
  <1>13. Together(tenants, tenants', CountsTenant(c), CountsTenant(c)')
    <2>1. s = "dropTenant" => task[c][k].tenant
      BY DEF s, Carries, OwesTenant
    <2>2. IF s = "dropTenant" THEN tenants' = Less(tenants) ELSE tenants' = tenants
      BY <1>11, <2>1, EnderFrame DEF DropTenant
    <2> QED
      BY <1>1, <1>8, <1>9, <2>2 DEF Leads, Drops, Together
  <1>14. ASSUME NEW r \in Routes
         PROVE  Together(active[r], active'[r], CountsGateway(c, r), CountsGateway(c, r)')
    <2>1. IF s = "dropGateway" /\ r = route[c] THEN active'[r] = Less(active[r])
          ELSE active'[r] = active[r]
      BY <1>11, EnderFrame DEF DropGateway, TypeOK
    <2> QED
      BY <1>1, <1>8, <1>9, <1>10, <2>1 DEF Leads, Drops, Together
  <1> QED
    BY <1>12, <1>13, <1>14

(* An ender that starts counts nothing yet.                                *)
LEMMA StartTogether ==
  ASSUME TypeOK, OnPlan, NEW c \in Calls, NEW k \in Kinds, Start(c, k),
         Serial(c), Orderly(c), Tame, Tame', OnPlan'
  PROVE  /\ Together(users, users', CountsUser(c), CountsUser(c)')
         /\ Together(tenants, tenants', CountsTenant(c), CountsTenant(c)')
         /\ \A r \in Routes :
              Together(active[r], active'[r], CountsGateway(c, r), CountsGateway(c, r)')
  <1> DEFINE t == FirstPoint(c, k)
  <1>t. TaskOK
    BY DEF TypeOK, TaskOK
  <1>1. Now(c, k) = "nothing" /\ Now(c, k)' = t /\ t \in Points(k) /\ t # "nothing"
    BY <1>t, StartIs DEF Moves
  <1>2. /\ Alone(c, k) /\ Alone(c, k)' /\ stage[c] = "sent"
        /\ Fits(k, Now(c, k)', session'[c], call'[c])
    BY TameStart
  <1>3. stage' = stage /\ route' = route /\ counts' = counts /\ c \notin early /\ c \notin early'
    BY DEF Tame, Start
  <1>4. k # "hangup" => session[c] # "none"
    BY DEF Start, MayStart, Kinds, GatewayKinds
  <1>5. /\ t \in HasUser(k) <=> session[c] # "none"
        /\ t \in HasTenant(k) <=> session[c] # "none"
        /\ t \in HasGateway(k) <=> session[c] # "none"
    BY <1>4, KindsAre DEF FirstPoint, HasUser, HasTenant, HasGateway, Byes
  <1>6. t # "moveGateway"
    BY DEF FirstPoint
  <1> HIDE DEF t
  <1>7. /\ Owed(OwesUser(k), GaveUser(k), Now(c, k), session[c]) <=> session[c] # "none"
        /\ Owed(OwesTenant(k), GaveTenant(k), Now(c, k), session[c]) <=> session[c] # "none"
        /\ Owed(OwesGateway(k), GaveGateway(k), Now(c, k), session[c]) <=> session[c] # "none"
    BY <1>1 DEF Owed, OwesUser, GaveUser, OwesTenant, GaveTenant, OwesGateway, GaveGateway
  <1>8. /\ Owed(OwesUser(k), GaveUser(k), Now(c, k)', session'[c]) <=> session[c] # "none"
        /\ Owed(OwesTenant(k), GaveTenant(k), Now(c, k)', session'[c]) <=> session[c] # "none"
        /\ Owed(OwesGateway(k), GaveGateway(k), Now(c, k)', session'[c]) <=> session[c] # "none"
    BY <1>1, <1>2, <1>5, HasIs
  <1>9. SlotOf(c)' = SlotOf(c)
    <2>1. Now(c, "failure") # "moveGateway" /\ Now(c, "failure")' # "moveGateway"
      <3>1. "failure" \in Kinds
        BY DEF Kinds, GatewayKinds
      <3> QED
        BY <1>1, <1>2, <1>6, <3>1 DEF Alone
    <2> QED
      BY <1>3, <2>1 DEF SlotOf
  <1>10. /\ CountsUser(c)' <=> CountsUser(c)
         /\ CountsTenant(c)' <=> CountsTenant(c)
         /\ \A r \in Routes : CountsGateway(c, r)' <=> CountsGateway(c, r)
    <2>1. stage'[c] = "sent"
      BY <1>2, <1>3
    <2>2. /\ CountsUser(c) <=> session[c] # "none"
          /\ CountsUser(c)' <=> session[c] # "none"
      BY <1>2, <1>3, <1>7, <1>8, <2>1, AloneCounts
    <2>3. /\ CountsTenant(c) <=> session[c] # "none"
          /\ CountsTenant(c)' <=> session[c] # "none"
      BY <1>2, <1>3, <1>7, <1>8, <2>1, AloneCounts
    <2>4. \A r : /\ CountsGateway(c, r) <=> SlotOf(c) = r /\ session[c] # "none"
                 /\ CountsGateway(c, r)' <=> SlotOf(c)' = r /\ session[c] # "none"
      BY <1>2, <1>3, <1>7, <1>8, <2>1, AloneCounts
    <2> QED
      BY <1>9, <2>2, <2>3, <2>4
  <1> QED
    BY <1>3, <1>10 DEF Together, counts

LEMMA ExactStep ==
  ASSUME TypeOK, OnPlan, InOrder, Moving, Exact, OnPlan',
         NEW c \in Calls, NEW k \in Kinds, StepOf(c, k)
  PROVE  Exact'
  <1> SUFFICES ASSUME Tame'
               PROVE  /\ \A d \in Calls : Serial(d)'
                      /\ users' = Cardinality(CountedUsers')
                      /\ tenants' = Cardinality(CountedTenants')
                      /\ \A r \in Routes : active'[r] = Cardinality(CountedOn(r)')
    BY DEF Exact, Tame, Serial, CountedOn, Routes, Gone, Resting
  <1>1. Tame
    BY TameStays
  <1>2. /\ \A d \in Calls : Serial(d)
        /\ users = Cardinality(CountedUsers)
        /\ tenants = Cardinality(CountedTenants)
        /\ \A r \in Routes : active[r] = Cardinality(CountedOn(r))
    BY <1>1 DEF Exact
  <1>3. Serial(c) /\ Orderly(c) /\ Carries(c) /\ c \notin early
    BY <1>1, <1>2 DEF InOrder, Tame
  <1>4. /\ Together(users, users', CountsUser(c), CountsUser(c)')
        /\ Together(tenants, tenants', CountsTenant(c), CountsTenant(c)')
        /\ \A r \in Routes :
             Together(active[r], active'[r], CountsGateway(c, r), CountsGateway(c, r)')
    BY <1>1, <1>3, InviteTogether, ReplyTogether, StartTogether, WorkTogether DEF StepOf
  <1>5. \A d \in Calls : d # c =>
          /\ CountsUser(d)' <=> CountsUser(d)
          /\ CountsTenant(d)' <=> CountsTenant(d)
          /\ \A r \in Routes : CountsGateway(d, r)' <=> CountsGateway(d, r)
    BY OthersSame, SameIsSame
  <1>6. users' = Cardinality(CountedUsers')
    <2>1. CountedUsers \in SUBSET Calls /\ CountedUsers' \in SUBSET Calls
      BY DEF CountedUsers
    <2>2. \A d \in Calls : d # c => (d \in CountedUsers' <=> d \in CountedUsers)
      BY <1>5 DEF CountedUsers
    <2>3. Together(users, users', c \in CountedUsers, c \in CountedUsers')
      BY <1>4 DEF CountedUsers, Together
    <2> QED
      BY <1>2, <2>1, <2>2, <2>3, AlwaysEqual DEF Together
  <1>7. tenants' = Cardinality(CountedTenants')
    <2>1. CountedTenants \in SUBSET Calls /\ CountedTenants' \in SUBSET Calls
      BY DEF CountedTenants
    <2>2. \A d \in Calls : d # c => (d \in CountedTenants' <=> d \in CountedTenants)
      BY <1>5 DEF CountedTenants
    <2>3. Together(tenants, tenants', c \in CountedTenants, c \in CountedTenants')
      BY <1>4 DEF CountedTenants, Together
    <2>4. tenants = Cardinality(CountedTenants)
      BY <1>2
    <2> QED
      BY <2>1, <2>2, <2>3, <2>4, AlwaysEqual DEF Together
  <1>8. ASSUME NEW r \in Routes
        PROVE  active'[r] = Cardinality(CountedOn(r)')
    <2> DEFINE S == CountedOn(r)
               T == CountedOn(r)'
               n == active[r]
               m == active'[r]
    <2>1. S \in SUBSET Calls /\ T \in SUBSET Calls /\ n = Cardinality(S)
      BY <1>2 DEF CountedOn
    <2>2. \A d \in Calls : d # c => (d \in T <=> d \in S)
      BY <1>5 DEF CountedOn
    <2>3. Together(n, m, c \in S, c \in T)
      BY <1>4 DEF CountedOn, Together
    <2> HIDE DEF S, T, n, m
    <2>4. m = Cardinality(T)
      BY <2>1, <2>2, <2>3, AlwaysEqual DEF Together
    <2> QED
      BY <2>4 DEF m, T
  <1>9. \A d \in Calls : Serial(d)'
    BY <1>1, <1>2, SerialStep
  <1> QED
    BY <1>6, <1>7, <1>8, <1>9

-----------------------------------------------------------------------------
(* Bursts. *)

LEMMA Fewer ==
  ASSUME NEW T \in SUBSET Calls, NEW S \in SUBSET T
  PROVE  /\ Cardinality(S) \in Nat /\ Cardinality(T) \in Nat
         /\ Cardinality(S) <= Cardinality(T)
  BY SomeCalls, FS_Subset

LEMMA OneMore ==
  ASSUME NEW S \in SUBSET Calls, NEW c \in Calls, c \notin S
  PROVE  Cardinality(S \cup {c}) = Cardinality(S) + 1
  BY SomeCalls, FS_AddElement

LEMMA BurstsStep ==
  ASSUME TypeOK, OnPlan, Bursts, NEW c \in Calls, NEW k \in Kinds, StepOf(c, k)
  PROVE  Bursts'
  <1>n. /\ users \in Nat /\ tenants \in Nat /\ peak \in Nat
        /\ UserMax \in Nat \ {0} /\ TenantMax \in Nat \ {0}
    BY AccountingAssumption DEF TypeOK, AccountingAssumption
  <1>s. /\ Checking \in SUBSET Calls /\ UserPending \in SUBSET Checking
        /\ TenantPending \in SUBSET Checking
        /\ Checking' \in SUBSET Calls /\ UserPending' \in SUBSET Calls
        /\ TenantPending' \in SUBSET Calls
    BY DEF Checking, UserPending, TenantPending
  <1>c. /\ Cardinality(Checking) \in Nat /\ Cardinality(UserPending) \in Nat
        /\ Cardinality(TenantPending) \in Nat
        /\ Cardinality(Checking') \in Nat /\ Cardinality(UserPending') \in Nat
        /\ Cardinality(TenantPending') \in Nat
        /\ Cardinality(UserPending) <= Cardinality(Checking)
        /\ Cardinality(TenantPending) <= Cardinality(Checking)
    BY <1>s, Fewer
  <1>b. /\ Cardinality(Checking) <= peak
        /\ users + Cardinality(UserPending) < UserMax + peak
        /\ tenants + Cardinality(TenantPending) < TenantMax + peak
    BY DEF Bursts
  <1>o. \A d \in Calls : d # c => stage'[d] = stage[d]
    BY OthersSame DEF Same
  <1>q. SUFFICES /\ Cardinality(Checking') <= peak'
                 /\ users' + Cardinality(UserPending') < UserMax + peak'
                 /\ tenants' + Cardinality(TenantPending') < TenantMax + peak'
    BY DEF Bursts
  <1>1. CASE CheckUser(c) /\ UserHasRoom
    <2>1. /\ stage[c] = "new" /\ stage'[c] = "checked" /\ users' = users /\ tenants' = tenants
          /\ users < UserMax
          /\ peak' = IF Cardinality(Checking) >= peak THEN Cardinality(Checking) + 1 ELSE peak
      BY <1>1 DEF CheckUser, At, TypeOK, counts, UserHasRoom
    <2>2. /\ c \notin Checking /\ Checking' = Checking \cup {c}
          /\ c \notin UserPending /\ UserPending' = UserPending \cup {c}
          /\ TenantPending' = TenantPending
      BY <1>o, <2>1 DEF Checking, UserPending, TenantPending
    <2>3. /\ Cardinality(Checking') = Cardinality(Checking) + 1
          /\ Cardinality(UserPending') = Cardinality(UserPending) + 1
      BY <1>s, <2>2, OneMore
    <2> QED
      BY <1>n, <1>c, <1>b, <2>1, <2>2, <2>3
  <1>2. CASE Route(c)
    <2>1. /\ stage[c] = "checked" /\ stage'[c] = "routed" /\ users' = users /\ tenants' = tenants
          /\ tenants < TenantMax /\ peak' = peak
      BY <1>2 DEF Route, At, TypeOK, counts, history, TenantHasRoom
    <2>2. /\ Checking' = Checking /\ UserPending' = UserPending
          /\ TenantPending' \in SUBSET Checking
      BY <1>o, <2>1 DEF Checking, UserPending, TenantPending
    <2>3. Cardinality(TenantPending') <= Cardinality(Checking)
      BY <1>s, <2>2, Fewer
    <2> QED
      BY <1>n, <1>c, <1>b, <2>1, <2>2, <2>3
  <1>3. CASE CountUser(c)
    <2>1. /\ stage[c] = "remembered" /\ stage'[c] = "userCounted" /\ users' = users + 1
          /\ tenants' = tenants /\ peak' = peak
      BY <1>3 DEF CountUser, At, TypeOK, history
    <2>2. /\ c \notin UserPending' /\ UserPending = UserPending' \cup {c}
          /\ Checking' = Checking
      BY <1>o, <2>1 DEF Checking, UserPending
    <2>3. TenantPending' = TenantPending
      BY <1>o, <2>1 DEF TenantPending
    <2>4. Cardinality(UserPending) = Cardinality(UserPending') + 1
      BY <1>s, <2>2, OneMore
    <2> QED
      BY <1>n, <1>c, <1>b, <2>1, <2>2, <2>3, <2>4
  <1>4. CASE CountTenant(c)
    <2>1. /\ stage[c] = "tenantSet" /\ stage'[c] = "counted" /\ users' = users
          /\ tenants' = tenants + 1 /\ peak' = peak
      BY <1>4 DEF CountTenant, At, TypeOK, history
    <2>2. /\ Checking' \in SUBSET Checking /\ UserPending' = UserPending
          /\ c \notin TenantPending' /\ TenantPending = TenantPending' \cup {c}
      BY <1>o, <2>1 DEF Checking, UserPending, TenantPending
    <2>3. /\ Cardinality(TenantPending) = Cardinality(TenantPending') + 1
          /\ Cardinality(Checking') <= Cardinality(Checking)
      BY <1>s, <2>2, OneMore, Fewer
    <2> QED
      BY <1>n, <1>c, <1>b, <2>1, <2>2, <2>3
  <1>5. CASE ~Route(c) /\ ~CountUser(c) /\ ~CountTenant(c) /\ ~(CheckUser(c) /\ UserHasRoom)
    <2>1. users' <= users /\ tenants' <= tenants /\ users' \in Nat /\ tenants' \in Nat
      BY <1>5, <1>n DEF StepOf, Inviting, Answer, CheckUser, Refuse, Remember, SetTenant, CountGateway,
         ReplyFailsOver, ReplyFails, MoveGateway, Ending, Start, EndOrSkip, End, ReadSession,
         NeedSession, DropUser, DropTenant, DropGateway, Remove, RemoveOrStop, counts, Less
    <2>2. peak' = peak
      BY <1>5 DEF StepOf, Inviting, Answer, CheckUser, Refuse, Remember, SetTenant, CountGateway,
         ReplyFailsOver, ReplyFails, MoveGateway, Ending, Start, EndOrSkip, End, ReadSession,
         NeedSession, DropUser, DropTenant, DropGateway, Remove, RemoveOrStop, history
    <2>3. \/ stage'[c] = stage[c]
          \/ stage'[c] = "rejected"
          \/ stage[c] = "routed" /\ stage'[c] = "remembered"
          \/ stage[c] = "userCounted" /\ stage'[c] = "tenantSet"
          \/ stage[c] = "counted" /\ stage'[c] = "sent"
      BY <1>5 DEF StepOf, Inviting, At, Answer, CheckUser, Refuse, Remember, SetTenant, CountGateway,
         ReplyFailsOver, ReplyFails, MoveGateway, Ending, Start, EndOrSkip, End, ReadSession,
         NeedSession, DropUser, DropTenant, DropGateway, Remove, RemoveOrStop, TypeOK
    <2>4. /\ Checking' \in SUBSET Checking /\ UserPending' \in SUBSET UserPending
          /\ TenantPending' \in SUBSET TenantPending
      BY <1>o, <2>3 DEF Checking, UserPending, TenantPending
    <2>5. /\ Cardinality(Checking') <= Cardinality(Checking)
          /\ Cardinality(UserPending') <= Cardinality(UserPending)
          /\ Cardinality(TenantPending') <= Cardinality(TenantPending)
      <3>1. UserPending \in SUBSET Calls /\ TenantPending \in SUBSET Calls
        BY <1>s
      <3> QED
        BY <1>s, <2>4, <3>1, Fewer
    <2> QED
      BY <1>n, <1>c, <1>b, <2>1, <2>2, <2>5
  <1> QED
    BY <1>1, <1>2, <1>3, <1>4, <1>5

-----------------------------------------------------------------------------
LEMMA EmptyCounts ==
  ASSUME NEW S, \A c \in S : FALSE
  PROVE  Cardinality(S) = 0
  <1>1. S = {}
    OBVIOUS
  <1> QED
    BY <1>1, FS_EmptySet

LEMMA InitHolds ==
  ASSUME Init
  PROVE  IInv
  <1>1. TypeOK
    BY AccountingAssumption DEF Init, TypeOK, Stages, Idle, Routes, AccountingAssumption
  <1>2. \A c \in Calls, k \in Kinds : Todo(c, k) = <<>> /\ Now(c, k) = "nothing" /\ task[c][k] = Idle
    BY DEF Init, Todo, Now, Idle
  <1>3. OnPlan
    <2>1. \A k \in Kinds : "nothing" \in Points(k)
      BY PointsAre, KindsAre
    <2> QED
      BY <1>2, <2>1, PlanSteps DEF OnPlan
  <1>4. \A c \in Calls : Resting(c) /\ stage[c] = "new" /\ session[c] = "none" /\ c \notin early
    BY <1>2 DEF Resting, Init
  <1>5. InOrder
    BY <1>2, <1>4 DEF InOrder, Orderly, Carries, OwesTenant, OwesUser
  <1>6. Moving
    BY <1>2 DEF Moving, Kinds, GatewayKinds
  <1>7. /\ Cardinality(CountedUsers) = 0 /\ Cardinality(CountedTenants) = 0
        /\ \A r \in Routes : Cardinality(CountedOn(r)) = 0
    <2>1. \A c \in CountedUsers : FALSE
      BY <1>4 DEF CountedUsers, CountsUser
    <2>2. \A c \in CountedTenants : FALSE
      BY <1>4 DEF CountedTenants, CountsTenant
    <2>3. \A r \in Routes : \A c \in CountedOn(r) : FALSE
      BY <1>4 DEF CountedOn, CountsGateway
    <2> QED
      BY <2>1, <2>2, <2>3, EmptyCounts
  <1>8. AtMost
    BY <1>7 DEF AtMost, Init
  <1>9. \A c \in Calls : Serial(c)
    BY <1>2, <1>4 DEF Serial
  <1>10. Exact
    BY <1>7, <1>9 DEF Exact, Init
  <1>11. Cardinality(Checking) = 0 /\ Cardinality(UserPending) = 0 /\ Cardinality(TenantPending) = 0
    <2>1. \A c \in Checking : FALSE
      BY <1>4 DEF Checking
    <2>2. \A c \in UserPending : FALSE
      BY <1>4 DEF UserPending
    <2>3. \A c \in TenantPending : FALSE
      BY <1>4 DEF TenantPending
    <2> QED
      BY <2>1, <2>2, <2>3, EmptyCounts
  <1>12. Bursts
    BY <1>11, AccountingAssumption DEF Bursts, Init, AccountingAssumption
  <1> QED
    BY <1>1, <1>3, <1>5, <1>6, <1>8, <1>10, <1>12 DEF IInv

LEMMA StepHolds ==
  ASSUME IInv, [Next]_vars
  PROVE  IInv'
  <1>1. CASE Next
    <2>1. PICK c \in Calls, k \in Kinds : StepOf(c, k)
      BY <1>1, OneStep
    <2>2. TypeOK /\ OnPlan /\ InOrder /\ Moving /\ AtMost /\ Exact /\ Bursts
      BY DEF IInv
    <2>3. TypeOK' /\ OnPlan'
      BY <2>1, <2>2, TypesStep
    <2>4. InOrder' /\ Moving'
      BY <2>1, <2>2, OrderStep, MovingStep
    <2>5. AtMost'
      BY <2>1, <2>2, AtMostStep
    <2>6. Exact'
      BY <2>1, <2>2, <2>3, ExactStep
    <2>7. Bursts'
      BY <2>1, <2>2, BurstsStep
    <2> QED
      BY <2>3, <2>4, <2>5, <2>6, <2>7 DEF IInv
  <1>2. CASE UNCHANGED vars
    <2>1. UNCHANGED <<stage, session, answered, call, route, users, tenants, active, task, starts,
                      early, crossed, peak>>
      BY <1>2 DEF vars, counts, history
    <2>2. TypeOK'
      BY <2>1 DEF IInv, TypeOK
    <2>3. OnPlan' /\ \A d, l : Now(d, l)' = Now(d, l) /\ task'[d][l] = task[d][l]
      BY <2>1, NobodyMoves DEF IInv
    <2>4. \A d \in Calls : Same(d)
      BY <2>1, <2>3 DEF Same
    <2>5. InOrder' /\ Moving'
      BY <2>1, <2>3, <2>4, SameIsSame DEF IInv, InOrder, Moving
    <2>6. /\ CountedUsers' = CountedUsers /\ CountedTenants' = CountedTenants
          /\ \A r \in Routes : CountedOn(r)' = CountedOn(r)
      BY <2>4, SameIsSame DEF CountedUsers, CountedTenants, CountedOn
    <2>7. AtMost'
      BY <2>1, <2>6 DEF IInv, AtMost
    <2>8. Exact'
      <3>1. Tame' <=> Tame
        BY <2>1 DEF Tame
      <3>2. Exact
        BY DEF IInv
      <3>3. Tame => \A c \in Calls : Serial(c)'
        BY <2>4, <3>2, SameIsSame DEF Exact
      <3>4. Tame' => \A r \in Routes : active'[r] = Cardinality(CountedOn(r)')
        BY <2>1, <2>6, <3>1, <3>2 DEF Exact
      <3>5. Tame' => users' = Cardinality(CountedUsers') /\ tenants' = Cardinality(CountedTenants')
        BY <2>1, <2>6, <3>1, <3>2 DEF Exact
      <3> QED
        BY <3>1, <3>3, <3>4, <3>5 DEF Exact, Routes
    <2>9. Bursts'
      BY <2>1 DEF IInv, Bursts, Checking, UserPending, TenantPending
    <2> QED
      BY <2>2, <2>3, <2>5, <2>7, <2>8, <2>9 DEF IInv
  <1> QED
    BY <1>1, <1>2

(* Every ender stays on its plan, no counter is more than the calls that     *)
(* are counted in it, and while enders do not cross it is exactly those.    *)
THEOREM InvariantHolds == Spec => []IInv
  <1>1. Init => IInv
    BY InitHolds
  <1>2. IInv /\ [Next]_vars => IInv'
    BY StepHolds
  <1> QED
    BY <1>1, <1>2, PTL DEF Spec

-----------------------------------------------------------------------------
(* A call with nobody at work on it counts when it has a session. *)
LEMMA RestingCounts ==
  ASSUME NEW c \in Calls, Resting(c), stage[c] = "sent", c \notin early
  PROVE  /\ CountsUser(c) <=> session[c] # "none"
         /\ CountsTenant(c) <=> session[c] # "none"
         /\ \A r : CountsGateway(c, r) <=> route[c] = r /\ session[c] # "none"
  <1>1. SlotOf(c) = route[c]
    BY DEF Resting, SlotOf, Kinds, GatewayKinds
  <1> QED
    BY <1>1 DEF Resting, CountsUser, CountsTenant, CountsGateway, OwesUser, GaveUser,
                OwesTenant, GaveTenant, OwesGateway, GaveGateway

LEMMA QuietRests ==
  ASSUME Quiet, NEW c \in Calls
  PROVE  Resting(c) /\ stage[c] \in {"new", "rejected", "sent"}
  BY NotBusyRests DEF Quiet

(* Whatever the enders, failovers and their order were: when nothing is      *)
(* under way and none crossed, every counter is the number of sessions, of  *)
(* each gateway those routed to it, and calls ended with their sessions.    *)
THEOREM CountsComeOut == Spec => []CountsExact
  <1>1. IInv => CountsExact
    <2> SUFFICES ASSUME IInv
                 PROVE  CountsExact
      OBVIOUS
    <2>1. TypeOK
      BY DEF IInv
    <2>2. ASSUME Quiet, crossed = {}, early = {}
          PROVE  /\ users = Cardinality(Sessions)
                 /\ tenants = Cardinality(Sessions)
                 /\ \A r \in Routes : active[r] = Cardinality({c \in Sessions : route[c] = r})
                 /\ \A c \in Calls : stage[c] = "sent" => (session[c] = "none" <=> call[c] = "over")
      <3>1. /\ \A c \in Calls : Serial(c)
            /\ users = Cardinality(CountedUsers)
            /\ tenants = Cardinality(CountedTenants)
            /\ \A r \in Routes : active[r] = Cardinality(CountedOn(r))
        BY <2>2 DEF IInv, Exact, Tame
      <3>2. \A c \in Calls : Resting(c) /\ stage[c] \in {"new", "rejected", "sent"}
        BY <2>2, QuietRests
      <3>3. \A c \in Calls : session[c] # "none" => stage[c] = "sent"
        BY <2>2, <3>2 DEF IInv, InOrder, Orderly
      <3>4. ASSUME NEW c \in Calls
            PROVE  /\ CountsUser(c) <=> session[c] # "none"
                   /\ CountsTenant(c) <=> session[c] # "none"
                   /\ \A r : CountsGateway(c, r) <=> route[c] = r /\ session[c] # "none"
        <4>1. CASE stage[c] = "sent"
          BY <2>2, <3>2, <4>1, RestingCounts
        <4>2. CASE stage[c] # "sent"
          BY <3>2, <3>3, <4>2 DEF CountsUser, CountsTenant, CountsGateway
        <4> QED
          BY <4>1, <4>2
      <3>5. /\ CountedUsers = Sessions /\ CountedTenants = Sessions
            /\ \A r \in Routes : CountedOn(r) = {c \in Sessions : route[c] = r}
        BY <3>4 DEF CountedUsers, CountedTenants, CountedOn, Sessions
      <3>6. \A c \in Calls : stage[c] = "sent" => (session[c] = "none" <=> call[c] = "over")
        BY <3>1, <3>2 DEF Serial
      <3> QED
        BY <3>1, <3>5, <3>6
    <2> QED
      BY <2>1, <2>2 DEF CountsExact
  <1> QED
    BY <1>1, InvariantHolds, PTL

(* However many enders cross, a call that has ended and was not met before   *)
(* its INVITE was sent is not left counted against its user or tenant.      *)
THEOREM EndedIsNotCounted == Spec => []NobodyLockedOut
  <1>1. IInv => NobodyLockedOut
    <2> SUFFICES ASSUME IInv, Quiet
                 PROVE  /\ users <= Cardinality(Sessions \cup early)
                        /\ tenants <= Cardinality(Sessions \cup early)
      BY DEF NobodyLockedOut
    <2>1. \A c \in Calls : Resting(c)
      BY QuietRests
    <2>2. Sessions \cup early \in SUBSET Calls
      BY DEF IInv, TypeOK, Sessions
    <2>3. CountedUsers \in SUBSET (Sessions \cup early)
      BY <2>1 DEF CountedUsers, CountsUser, Resting, OwesUser, Sessions
    <2>4. CountedTenants \in SUBSET (Sessions \cup early)
      BY <2>1 DEF CountedTenants, CountsTenant, Resting, OwesTenant, OwesUser, Sessions
    <2>5. /\ Cardinality(CountedUsers) <= Cardinality(Sessions \cup early)
          /\ Cardinality(CountedTenants) <= Cardinality(Sessions \cup early)
          /\ Cardinality(CountedUsers) \in Nat /\ Cardinality(CountedTenants) \in Nat
          /\ Cardinality(Sessions \cup early) \in Nat
      BY <2>2, <2>3, <2>4, Fewer
    <2>6. /\ users <= Cardinality(CountedUsers) /\ tenants <= Cardinality(CountedTenants)
          /\ users \in Nat /\ tenants \in Nat
      BY DEF IInv, AtMost, TypeOK
    <2> QED
      BY <2>5, <2>6
  <1> QED
    BY <1>1, InvariantHolds, PTL

(* The calls in use exceed a limit by fewer than the INVITEs that were        *)
(* between its check and its count at once.                                 *)
THEOREM BurstsBound == Spec => []OnlyBurstsExceed
  <1>1. IInv => OnlyBurstsExceed
    <2> SUFFICES ASSUME IInv, crossed = {}, early = {}
                 PROVE  /\ Cardinality(InUse) < UserMax + peak
                        /\ Cardinality(InUse) < TenantMax + peak
      BY DEF OnlyBurstsExceed
    <2>1. \A c \in InUse : CountsUser(c) /\ CountsTenant(c)
      BY NotBusyRests, RestingCounts DEF InUse, Sessions
    <2>2. InUse \in SUBSET CountedUsers /\ InUse \in SUBSET CountedTenants
      BY <2>1 DEF CountedUsers, CountedTenants, InUse, Sessions
    <2>3. CountedUsers \in SUBSET Calls /\ CountedTenants \in SUBSET Calls
      BY DEF CountedUsers, CountedTenants
    <2>4. /\ Cardinality(InUse) <= Cardinality(CountedUsers)
          /\ Cardinality(InUse) <= Cardinality(CountedTenants)
          /\ Cardinality(InUse) \in Nat
      BY <2>2, <2>3, Fewer
    <2>5. users = Cardinality(CountedUsers) /\ tenants = Cardinality(CountedTenants)
      BY DEF IInv, Exact, Tame
    <2>6. /\ users + Cardinality(UserPending) < UserMax + peak
          /\ tenants + Cardinality(TenantPending) < TenantMax + peak
          /\ users \in Nat /\ tenants \in Nat /\ peak \in Nat
          /\ UserMax \in Nat /\ TenantMax \in Nat
      BY AccountingAssumption DEF IInv, Bursts, TypeOK, AccountingAssumption
    <2>7. Cardinality(UserPending) \in Nat /\ Cardinality(TenantPending) \in Nat
      BY SomeCalls DEF UserPending, TenantPending
    <2> QED
      BY <2>4, <2>5, <2>6, <2>7
  <1> QED
    BY <1>1, InvariantHolds, PTL
=============================================================================
