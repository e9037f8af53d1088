--------------------------- MODULE CallCoreProofs ---------------------------
(***************************************************************************)
(* The two models of crates/call-core: CallManager for every route table,  *)
(* pool of numbers and bound, and GatewayHealth for any number of calls,   *)
(* any thresholds and any number of failures.  Each has an inductive       *)
(* invariant, IInv and HealthIInv, and the safety properties that follow.  *)
(***************************************************************************)
EXTENDS CallManager, GatewayHealth, TLAPS, FiniteSetTheorems, SequenceTheorems

(* What a list built over a range of indices is.                           *)
LEMMA SequenceOf ==
  ASSUME NEW S, NEW n \in Nat, NEW f \in [1..n -> S]
  PROVE  f \in Seq(S) /\ Len(f) = n /\ DOMAIN f = 1..n
  BY SeqDef

(* The candidates of a caller number all belong to the gateway that owns   *)
(* it, and there is one if the table has the gateway at all.               *)
LEMMA PinnedOnly ==
  ASSUME NEW table \in Seq(Gateways), NEW g \in Gateways
  PROVE  /\ PinnedTo(table, g) \in Seq(Gateways)
         /\ \A i \in DOMAIN PinnedTo(table, g) : PinnedTo(table, g)[i] = g
         /\ g \in Range(table) =>
              /\ 1 \in DOMAIN PinnedTo(table, g)
              /\ Range(PinnedTo(table, g)) = {g}
  <1> DEFINE Own == {k \in DOMAIN table : table[k] = g}
             n == Cardinality(Own)
             f == [i \in 1..n |-> g]
  <1>1. IsFiniteSet(Own) /\ n \in Nat
    <2>1. DOMAIN table = 1..Len(table) /\ Len(table) \in Nat
      BY LenProperties
    <2>2. IsFiniteSet(1..Len(table))
      BY <2>1, FS_Interval
    <2>3. Own \in SUBSET (1..Len(table))
      BY <2>1
    <2>4. IsFiniteSet(Own)
      BY <2>2, <2>3, FS_Subset
    <2> QED
      BY <2>4, FS_CardinalityType
  <1>2. f \in [1..n -> Gateways]
    OBVIOUS
  <1>3. PinnedTo(table, g) = f
    BY DEF PinnedTo
  <1>4. f \in Seq(Gateways) /\ DOMAIN f = 1..n
    BY <1>1, <1>2, SequenceOf
  <1>5. ASSUME g \in Range(table)
        PROVE  1 \in 1..n
    <2>1. Own # {}
      BY <1>5 DEF Range
    <2>2. n # 0
      BY <1>1, <2>1, FS_EmptySet
    <2> QED
      BY <1>1, <2>2
  <1>6. \A i \in DOMAIN f : f[i] = g
    BY <1>4
  <1>7. ASSUME 1 \in 1..n
        PROVE  Range(f) = {g}
    BY <1>4, <1>6, <1>7 DEF Range
  <1> QED
    BY <1>3, <1>4, <1>5, <1>6, <1>7

(* What the pool of caller numbers resolves to.                            *)
LEMMA SelectionsOf ==
  ASSUME NEW table \in Seq(Gateways), NEW pool \in Seq(Gateways)
  PROVE  /\ Selections(table, pool) \in Seq(Choices)
         /\ Len(Selections(table, pool)) = Len(pool)
         /\ \A i \in 1..Len(pool) :
              /\ Selections(table, pool)[i].owner = pool[i]
              /\ Selections(table, pool)[i].owner \in Gateways
              /\ Selections(table, pool)[i].routes = PinnedTo(table, pool[i])
  <1> DEFINE f == [i \in 1..Len(pool) |->
                     [owner |-> pool[i], routes |-> PinnedTo(table, pool[i])]]
  <1>1. Len(pool) \in Nat /\ DOMAIN pool = 1..Len(pool)
    BY LenProperties
  <1>2. \A i \in 1..Len(pool) : pool[i] \in Gateways
    BY <1>1, ElementOfSeq
  <1>3. \A i \in 1..Len(pool) : PinnedTo(table, pool[i]) \in Seq(Gateways)
    BY <1>2, PinnedOnly
  <1>4. f \in [1..Len(pool) -> Choices]
    BY <1>2, <1>3 DEF Choices
  <1>5. Selections(table, pool) = f
    BY <1>1 DEF Selections
  <1>6. f \in Seq(Choices) /\ Len(f) = Len(pool)
    <2> HIDE DEF f
    <2> QED
      BY <1>1, <1>4, SequenceOf
  <1>7. ASSUME NEW i \in 1..Len(pool)
        PROVE  f[i] = [owner |-> pool[i], routes |-> PinnedTo(table, pool[i])]
    OBVIOUS
  <1> QED
    BY <1>2, <1>5, <1>6, <1>7

At(s, e) == {i \in DOMAIN s : s[i] = e}

(* How often an event was sent, before and after it is pushed.             *)
LEMMA OccurrencesOfAppend ==
  ASSUME NEW s \in Seq(Events), NEW e \in Events, NEW d
  PROVE  /\ Cardinality(At(s, d)) \in Nat
         /\ d = e => Cardinality(At(Append(s, e), d)) = Cardinality(At(s, d)) + 1
         /\ d # e => Cardinality(At(Append(s, e), d)) = Cardinality(At(s, d))
  <1> DEFINE t == Append(s, e)
             n == Len(s)
  <1>1. n \in Nat /\ DOMAIN s = 1..n
    BY LenProperties
  <1>2. /\ t \in Seq(Events) /\ Len(t) = n + 1
        /\ \A i \in 1..n : t[i] = s[i]
        /\ t[n + 1] = e
    BY <1>1, AppendProperties
  <1>3. DOMAIN t = 1..(n + 1)
    BY <1>2, LenProperties
  <1>4. IsFiniteSet(At(s, d)) /\ Cardinality(At(s, d)) \in Nat
    <2>1. IsFiniteSet(1..n)
      BY <1>1, FS_Interval
    <2>2. At(s, d) \in SUBSET (1..n)
      BY <1>1 DEF At
    <2>3. IsFiniteSet(At(s, d))
      BY <2>1, <2>2, FS_Subset
    <2> QED
      BY <2>3, FS_CardinalityType
  <1>5. CASE d = e
    <2>1. At(t, d) = At(s, d) \cup {n + 1}
      BY <1>1, <1>2, <1>3, <1>5 DEF At
    <2>2. n + 1 \notin At(s, d)
      BY <1>1 DEF At
    <2>3. Cardinality(At(s, d) \cup {n + 1}) = Cardinality(At(s, d)) + 1
      BY <1>4, <2>2, FS_AddElement
    <2> QED
      BY <1>4, <1>5, <2>1, <2>3
  <1>6. CASE d # e
    <2>1. At(t, d) = At(s, d)
      BY <1>1, <1>2, <1>3, <1>6 DEF At
    <2> QED
      BY <1>4, <1>6, <2>1
  <1> QED
    BY <1>4, <1>5, <1>6

-----------------------------------------------------------------------------
(* A call starts blank.                                                    *)
LEMMA InitIInv == Init => IInv
  <1> SUFFICES ASSUME Init
               PROVE  IInv
    OBVIOUS
  <1>1. TypeOK
    BY EmptySeq DEF Init, TypeOK, CallStates, Events
  <1>2. Occurrences("finished") = 0
    <2>1. {i \in DOMAIN sent : sent[i] = "finished"} = {}
      BY DEF Init
    <2> QED
      BY <2>1, FS_EmptySet DEF Occurrences
  <1>3. EndedOnce
    BY <1>2, EmptySeq DEF Init, EndedOnce, Over, Events
  <1>4. PinnedOrRedirected /\ NoRouteTwice /\ Fresh
    BY DEF Init, PinnedOrRedirected, NoRouteTwice, Fresh
  <1> QED
    BY <1>1, <1>3, <1>4 DEF IInv

(* The CDR of a call is one of those the sink knows.                       *)
LEMMA CdrType ==
  ASSUME TypeOK, NEW st
  PROVE  CdrIn(st) \in Cdrs
  <1>1. GatewayAt(current) \in Routes \cup {NoGateway}
    <2>1. CASE current \in DOMAIN routes
      <3>1. routes[current] \in Routes
        BY <2>1, LenProperties, ElementOfSeq DEF TypeOK
      <3> QED
        BY <2>1, <3>1 DEF GatewayAt
    <2>2. CASE current \notin DOMAIN routes
      BY <2>2 DEF GatewayAt
    <2> QED
      BY <2>1, <2>2
  <1> QED
    BY <1>1 DEF CdrIn, Cdrs

(* Ending the call keeps the types of what it writes.                      *)
LEMMA EndsType ==
  ASSUME TypeOK, NEW st \in Over, Ends(st)
  PROVE  /\ state' \in CallStates /\ ended' \in BOOLEAN
         /\ cdrs' \in Seq(Cdrs) /\ unsent' \in [Events -> Nat]
  <1>1. cdrs' \in Seq(Cdrs)
    BY CdrType, AppendProperties DEF TypeOK, Ends
  <1>2. unsent' \in [Events -> Nat]
    BY DEF TypeOK, Ends, Raise, Events
  <1> QED
    BY <1>1, <1>2 DEF Ends, CallStates

(* The first place of a list is one of its places, or it has none.         *)
LEMMA FirstPlace ==
  ASSUME NEW S, NEW s \in Seq(S)
  PROVE  1 \in DOMAIN s \/ s = <<>>
  <1>1. DOMAIN s = 1..Len(s) /\ Len(s) \in Nat
    BY LenProperties
  <1>2. s # <<>> => Len(s) \in Nat \ {0}
    BY EmptySeq
  <1> QED
    BY <1>1, <1>2

(* Lists of gateways are lists of routes.                                  *)
LEMMA GatewayRoutes ==
  ASSUME NEW s \in Seq(Gateways)
  PROVE  s \in Seq(Routes) /\ (1 \in DOMAIN s \/ (1 = 1 /\ s = <<>>))
  <1>1. Gateways \subseteq Routes
    BY DEF Routes
  <1> QED
    BY <1>1, SeqMonotonic, FirstPlace

(* What the head and the rest of the pool are.                             *)
LEMMA PoolParts ==
  ASSUME NEW s \in Seq(Choices), s # <<>>
  PROVE  /\ Head(s) \in Choices /\ Head(s) = s[1] /\ 1 \in DOMAIN s
         /\ Tail(s) \in Seq(Choices)
         /\ \A i \in DOMAIN Tail(s) : i + 1 \in DOMAIN s /\ Tail(s)[i] = s[i + 1]
  <1>1. /\ Head(s) \in Choices /\ Tail(s) \in Seq(Choices)
        /\ Len(Tail(s)) = Len(s) - 1
        /\ \A i \in 1..Len(Tail(s)) : Tail(s)[i] = s[i + 1]
    BY HeadTailProperties
  <1>2. DOMAIN s = 1..Len(s) /\ Len(s) \in Nat \ {0}
    BY LenProperties, EmptySeq
  <1>3. DOMAIN Tail(s) = 1..Len(Tail(s)) /\ Len(Tail(s)) \in Nat
    BY <1>1, LenProperties
  <1>4. Head(s) = s[1]
    OBVIOUS
  <1> QED
    BY <1>1, <1>2, <1>3, <1>4

(* What holds of all numbers of the pool holds of all but the first.       *)
LEMMA RestOfPool ==
  ASSUME NEW s \in Seq(Choices), s # <<>>,
         \A i \in DOMAIN s : Range(s[i].routes) = {s[i].owner}
  PROVE  \A i \in DOMAIN Tail(s) : Range(Tail(s)[i].routes) = {Tail(s)[i].owner}
  <1> SUFFICES ASSUME NEW i \in DOMAIN Tail(s)
               PROVE  Range(Tail(s)[i].routes) = {Tail(s)[i].owner}
    OBVIOUS
  <1>1. i + 1 \in DOMAIN s /\ Tail(s)[i] = s[i + 1]
    BY PoolParts
  <1>2. Range(s[i + 1].routes) = {s[i + 1].owner}
    BY <1>1
  <1> QED
    BY <1>1, <1>2

(* The routes given up are places of the list.                             *)
LEMMA GivenUpType ==
  ASSUME TypeOK, NEW next, GiveUpCurrent(next)
  PROVE  tried' \subseteq Nat
  <1>1. DOMAIN routes = 1..Len(routes) /\ Len(routes) \in Nat
    BY LenProperties DEF TypeOK
  <1>2. DOMAIN routes \subseteq Nat
    BY <1>1
  <1> QED
    BY <1>2 DEF GiveUpCurrent, TypeOK

(* Routes are only ever replaced, before the call is placed, or appended.  *)
LEMMA StepTypeOK ==
  ASSUME TypeOK, Fresh, [Next]_vars
  PROVE  TypeOK'
  <1>1. ASSUME NEW table \in Tables, NEW pool \in Pools, Invite(table, pool)
        PROVE  TypeOK'
    <2>1. table \in Seq(Gateways) /\ pool \in Seq(Gateways) /\ current = 1
      BY <1>1, ManagerAssumption DEF ManagerAssumption, Invite, Fresh
    <2>2. CASE pool = <<>>
      <3>1. routes' \in Seq(Routes) /\ (1 \in DOMAIN routes' \/ routes' = <<>>)
        BY <1>1, <2>1, <2>2, GatewayRoutes DEF Invite
      <3>2. sent' \in Seq(Events)
        BY <1>1 DEF Invite, Events
      <3> QED
        BY <1>1, <2>1, <2>2, <3>1, <3>2 DEF Invite, TypeOK, CallStates
    <2>3. CASE pool # <<>>
      <3> DEFINE chosen == Selections(table, pool)
      <3>1. chosen \in Seq(Choices) /\ chosen # <<>>
        BY <2>1, <2>3, SelectionsOf, EmptySeq, LenProperties
      <3>2. Head(chosen) \in Choices /\ Tail(chosen) \in Seq(Choices)
        BY <3>1, PoolParts
      <3>3. owner' = Head(chosen).owner /\ routes' = Head(chosen).routes
              /\ alternatives' = Tail(chosen)
        BY <1>1, <2>3 DEF Invite
      <3>4. owner' \in Gateways /\ routes' \in Seq(Gateways)
        BY <3>2, <3>3 DEF Choices
      <3>5. routes' \in Seq(Routes) /\ (1 \in DOMAIN routes' \/ routes' = <<>>)
        BY <3>4, GatewayRoutes
      <3>6. sent' \in Seq(Events)
        BY <1>1 DEF Invite, Events
      <3> HIDE DEF chosen
      <3> QED
        BY <1>1, <2>1, <3>2, <3>3, <3>4, <3>5, <3>6 DEF Invite, TypeOK, CallStates
    <2> QED
      BY <2>2, <2>3
  <1>2. ASSUME NEW table \in Tables, NEW pool \in Pools, InviteUnidentified(table, pool)
        PROVE  TypeOK'
    <2>1. sent' \in Seq(Events)
      BY <1>2 DEF InviteUnidentified, Events
    <2> QED
      BY <1>2, <2>1 DEF InviteUnidentified, TypeOK, routing
  <1>3. CASE InviteUnroutable
    <2>1. sent' \in Seq(Events)
      BY <1>3 DEF InviteUnroutable, Events
    <2>2. "failed" \in Over /\ Ends("failed")
      BY <1>3 DEF InviteUnroutable, Over
    <2> QED
      BY <1>3, <2>1, <2>2, EndsType DEF InviteUnroutable, TypeOK, routing
  <1>4. ASSUME NEW group \in Groups, InviteToUri(group)
        PROVE  TypeOK'
    <2>1. group \in Seq(Gateways) /\ current = 1
      BY <1>4, ManagerAssumption DEF ManagerAssumption, InviteToUri, Fresh
    <2>2. routes' \in Seq(Routes) /\ (1 \in DOMAIN routes' \/ routes' = <<>>)
      BY <1>4, <2>1, GatewayRoutes DEF InviteToUri
    <2>3. sent' \in Seq(Events)
      BY <1>4 DEF InviteToUri, Events
    <2> QED
      BY <1>4, <2>1, <2>2, <2>3 DEF InviteToUri, TypeOK, CallStates
  <1>5. CASE AdvancePool
    <2>1. alternatives \in Seq(Choices) /\ alternatives # <<>>
      BY <1>5 DEF AdvancePool, TypeOK
    <2>2. Head(alternatives) \in Choices /\ alternatives' \in Seq(Choices)
      BY <1>5, <2>1, PoolParts DEF AdvancePool
    <2>3. owner' \in Gateways /\ routes' \in Seq(Gateways)
      BY <1>5, <2>2 DEF AdvancePool, Choices
    <2>4. routes' \in Seq(Routes) /\ (1 \in DOMAIN routes' \/ routes' = <<>>)
      BY <2>3, GatewayRoutes
    <2> QED
      BY <1>5, <2>2, <2>3, <2>4 DEF AdvancePool, TypeOK
  <1>6. CASE Place
    BY <1>6 DEF Place, TypeOK, routing
  <1>7. CASE Provisional
    <2>1. cdrs' \in Seq(Cdrs)
      BY <1>7, CdrType, AppendProperties DEF Provisional, TypeOK
    <2> QED
      BY <1>7, <2>1 DEF Provisional, NoteLate, TypeOK, routing
  <1>8. CASE Ringing
    BY <1>8 DEF Ringing, Raise, TypeOK, routing, CallStates, Events
  <1>9. CASE Success
    BY <1>9 DEF Success, Raise, TypeOK, routing, CallStates, Events
  <1>10. CASE Redirected
    <2>1. routes \in Seq(Routes) /\ Redirect \in Routes
      BY DEF TypeOK, Routes
    <2>2. routes' \in Seq(Routes) /\ Len(routes') = Len(routes) + 1
      BY <1>10, <2>1, AppendProperties DEF Redirected
    <2>3. current' \in DOMAIN routes'
      BY <1>10, <2>1, <2>2, LenProperties DEF Redirected, GiveUpCurrent
    <2>4. tried' \subseteq Nat
      BY <1>10, GivenUpType DEF Redirected
    <2> QED
      BY <1>10, <2>2, <2>3, <2>4
         DEF Redirected, GiveUpCurrent, NoteLate, TypeOK, CallStates
  <1>11. CASE Failover
    <2>1. PICK next \in UsableRoutes : GiveUpCurrent(next)
      BY <1>11 DEF Failover
    <2>2. next \in DOMAIN routes
      BY DEF UsableRoutes
    <2>3. tried' \subseteq Nat
      BY <2>1, GivenUpType
    <2> QED
      BY <1>11, <2>1, <2>2, <2>3
         DEF Failover, GiveUpCurrent, NoteLate, TypeOK, CallStates
  <1>12. CASE Rejected
    <2>1. "failed" \in Over /\ Ends("failed")
      BY <1>12 DEF Rejected, Over
    <2> QED
      BY <1>12, <2>1, EndsType DEF Rejected, TypeOK, routing
  <1>13. CASE Terminate
    <2>1. "terminated" \in Over /\ Ends("terminated")
      BY <1>13 DEF Terminate, Over
    <2> QED
      BY <1>13, <2>1, EndsType DEF Terminate, TypeOK, routing
  <1>14. CASE ForceTerminate
    <2>1. PICK st \in Over : Ends(st)
      BY <1>14 DEF ForceTerminate, Over
    <2> QED
      BY <1>14, <2>1, EndsType DEF ForceTerminate, TypeOK, routing
  <1>15. ASSUME NEW e \in Events, PushEvent(e)
         PROVE  TypeOK'
    <2>1. sent' \in Seq(Events)
      BY <1>15, AppendProperties DEF PushEvent, TypeOK
    <2>2. unsent' \in [Events -> Nat]
      BY <1>15 DEF PushEvent, TypeOK
    <2> QED
      BY <1>15, <2>1, <2>2 DEF PushEvent, TypeOK, routing
  <1>16. CASE UNCHANGED vars
    BY <1>16 DEF vars, routing, TypeOK
  <1> QED
    BY <1>1, <1>2, <1>3, <1>4, <1>5, <1>6, <1>7, <1>8, <1>9, <1>10, <1>11, <1>12,
       <1>13, <1>14, <1>15, <1>16 DEF Next, Response

(* A call that was never offered stays blank, and so on.                   *)
LEMMA StepFresh ==
  ASSUME TypeOK, Fresh, [Next]_vars
  PROVE  Fresh'
  <1>1. ASSUME NEW table \in Tables, NEW pool \in Pools, Invite(table, pool)
        PROVE  Fresh'
    <2>1. table \in Seq(Gateways) /\ pool \in Seq(Gateways) /\ alternatives = <<>>
      BY <1>1, ManagerAssumption DEF ManagerAssumption, Invite, Fresh
    <2>2. pool # <<>> => owner' # NoGateway
      <3> SUFFICES ASSUME pool # <<>>
                   PROVE  owner' # NoGateway
        OBVIOUS
      <3> DEFINE chosen == Selections(table, pool)
      <3>1. chosen \in Seq(Choices) /\ chosen # <<>>
        BY <2>1, SelectionsOf, EmptySeq, LenProperties
      <3>2. Head(chosen) \in Choices
        BY <3>1, PoolParts
      <3>3. owner' = Head(chosen).owner
        BY <1>1 DEF Invite
      <3> HIDE DEF chosen
      <3> QED
        BY <3>2, <3>3, ManagerAssumption DEF Choices, ManagerAssumption
    <2>3. sent' # <<>> /\ (~placed' => tried' = {})
      BY <1>1 DEF Invite, Fresh
    <2>4. alternatives' # <<>> => pool # <<>>
      BY <1>1, <2>1 DEF Invite
    <2> QED
      BY <2>2, <2>3, <2>4 DEF Fresh
  <1>2. ASSUME NEW table \in Tables, NEW pool \in Pools, InviteUnidentified(table, pool)
        PROVE  Fresh'
    BY <1>2 DEF InviteUnidentified, Fresh, routing
  <1>3. CASE InviteUnroutable
    BY <1>3 DEF InviteUnroutable, Fresh, routing
  <1>4. ASSUME NEW group \in Groups, InviteToUri(group)
        PROVE  Fresh'
    BY <1>4 DEF InviteToUri, Fresh
  <1>5. CASE AdvancePool
    <2>1. Head(alternatives) \in Choices
      BY <1>5, PoolParts DEF AdvancePool, TypeOK
    <2>2. owner' # NoGateway
      BY <1>5, <2>1, ManagerAssumption DEF AdvancePool, Choices, ManagerAssumption
    <2> QED
      BY <1>5, <2>2 DEF AdvancePool, Fresh
  <1>6. CASE Place
    BY <1>6 DEF Place, Fresh, routing
  <1>7. CASE Response
    <2>1. placed /\ placed' /\ sent' = sent /\ alternatives' = alternatives
            /\ owner' = owner
      BY <1>7 DEF Response, Provisional, Ringing, Success, Redirected, Failover,
                  Rejected, routing
    <2> QED
      BY <2>1 DEF Fresh
  <1>8. CASE Terminate \/ ForceTerminate
    BY <1>8 DEF Terminate, ForceTerminate, Known, Fresh, routing
  <1>9. ASSUME NEW e \in Events, PushEvent(e)
        PROVE  Fresh'
    <2>1. sent' # <<>>
      BY <1>9, AppendProperties, EmptySeq DEF PushEvent, TypeOK
    <2> QED
      BY <1>9, <2>1 DEF PushEvent, Fresh, routing
  <1>10. CASE UNCHANGED vars
    BY <1>10 DEF vars, routing, Fresh
  <1> QED
    BY <1>1, <1>2, <1>3, <1>4, <1>5, <1>6, <1>7, <1>8, <1>9, <1>10 DEF Next

(* The current route only moves forward, and what is given up stays behind. *)
LEMMA StepNoRouteTwice ==
  ASSUME TypeOK, NoRouteTwice, Fresh, [Next]_vars
  PROVE  NoRouteTwice'
  <1>1. DOMAIN routes = 1..Len(routes) /\ Len(routes) \in Nat
    BY LenProperties DEF TypeOK
  <1>2. current \in Nat /\ tried \subseteq Nat /\ \A i \in tried : i < current
    BY <1>1 DEF TypeOK, NoRouteTwice
  <1>3. ASSUME NEW next \in Nat, GiveUpCurrent(next), next > current
        PROVE  NoRouteTwice'
    BY <1>2, <1>3 DEF GiveUpCurrent, NoRouteTwice
  <1>4. CASE AdvancePool
    BY <1>4 DEF AdvancePool, Fresh, NoRouteTwice
  <1>5. CASE Redirected
    <2>1. CASE current \in DOMAIN routes
      <3>1. Len(routes) + 1 \in Nat /\ Len(routes) + 1 > current
        BY <1>1, <2>1
      <3> QED
        BY <1>3, <1>5, <3>1 DEF Redirected
    <2>2. CASE current = 1 /\ routes = <<>>
      <3>1. tried' = tried /\ current' = 1
        BY <1>5, <2>2 DEF Redirected, GiveUpCurrent
      <3> QED
        BY <1>2, <2>2, <3>1 DEF NoRouteTwice
    <2> QED
      BY <2>1, <2>2 DEF TypeOK
  <1>6. CASE Failover
    <2>1. PICK next \in UsableRoutes : GiveUpCurrent(next)
      BY <1>6 DEF Failover
    <2>2. next \in Nat /\ next > current
      BY <1>1 DEF UsableRoutes
    <2> QED
      BY <1>3, <2>1, <2>2
  <1>7. ASSUME UNCHANGED <<current, tried>>
        PROVE  NoRouteTwice'
    BY <1>7 DEF NoRouteTwice
  <1>8. CASE Provisional \/ Ringing \/ Success \/ Rejected
    BY <1>7, <1>8 DEF Provisional, Ringing, Success, Rejected, routing
  <1>9. CASE Terminate \/ ForceTerminate \/ Place \/ InviteUnroutable
    BY <1>7, <1>9 DEF Terminate, ForceTerminate, Place, InviteUnroutable, routing
  <1>10. ASSUME NEW table \in Tables, NEW pool \in Pools,
                Invite(table, pool) \/ InviteUnidentified(table, pool)
         PROVE  NoRouteTwice'
    BY <1>7, <1>10 DEF Invite, InviteUnidentified, routing
  <1>11. ASSUME NEW group \in Groups, InviteToUri(group)
         PROVE  NoRouteTwice'
    BY <1>7, <1>11 DEF InviteToUri
  <1>12. ASSUME NEW e \in Events, PushEvent(e)
         PROVE  NoRouteTwice'
    BY <1>7, <1>12 DEF PushEvent, routing
  <1>13. CASE UNCHANGED vars
    BY <1>7, <1>13 DEF vars, routing
  <1> QED
    BY <1>4, <1>5, <1>6, <1>8, <1>9, <1>10, <1>11, <1>12, <1>13 DEF Next, Response

(* The route a call is on belongs to the number's owner, or is a redirect.  *)
LEMMA StepPinned ==
  ASSUME TypeOK, PinnedOrRedirected, Fresh, [Next]_vars
  PROVE  PinnedOrRedirected'
  <1>1. DOMAIN routes = 1..Len(routes) /\ Len(routes) \in Nat
    BY LenProperties DEF TypeOK
  <1>2. ASSUME NEW table \in Tables, NEW pool \in Pools, Invite(table, pool)
        PROVE  PinnedOrRedirected'
    <2>1. /\ table \in Seq(Gateways) /\ pool \in Seq(Gateways)
          /\ current' = 1 /\ owner = NoGateway
      BY <1>2, ManagerAssumption DEF ManagerAssumption, Invite, Fresh
    <2>2. CASE pool = <<>>
      BY <1>2, <2>1, <2>2 DEF Invite, PinnedOrRedirected
    <2>3. CASE pool # <<>>
      <3> DEFINE chosen == Selections(table, pool)
      <3>1. /\ chosen \in Seq(Choices) /\ Len(chosen) = Len(pool)
            /\ \A i \in 1..Len(pool) : /\ chosen[i].owner = pool[i]
                                      /\ pool[i] \in Gateways
                                      /\ chosen[i].routes = PinnedTo(table, pool[i])
        BY <2>1, SelectionsOf
      <3>2. DOMAIN pool = 1..Len(pool)
        BY <2>1, LenProperties
      <3>3. \A i \in 1..Len(pool) : pool[i] \in Range(table)
        BY <1>2, <3>2 DEF Invite, Resolvable, Range
      <3>4. \A i \in 1..Len(pool) : /\ 1 \in DOMAIN chosen[i].routes
                                    /\ chosen[i].routes[1] = chosen[i].owner
                                    /\ Range(chosen[i].routes) = {chosen[i].owner}
        <4> SUFFICES ASSUME NEW i \in 1..Len(pool)
                     PROVE  /\ 1 \in DOMAIN chosen[i].routes
                            /\ chosen[i].routes[1] = chosen[i].owner
                            /\ Range(chosen[i].routes) = {chosen[i].owner}
          OBVIOUS
        <4> DEFINE own == PinnedTo(table, pool[i])
        <4>1. pool[i] \in Gateways /\ pool[i] \in Range(table)
          BY <3>1, <3>3
        <4>2. /\ \A k \in DOMAIN own : own[k] = pool[i]
              /\ 1 \in DOMAIN own /\ Range(own) = {pool[i]}
          BY <2>1, <4>1, PinnedOnly
        <4>3. chosen[i].owner = pool[i] /\ chosen[i].routes = own
          BY <3>1
        <4> HIDE DEF chosen, own
        <4> QED
          BY <4>2, <4>3
      <3>5. chosen # <<>> /\ DOMAIN chosen = 1..Len(pool)
        BY <2>1, <2>3, <3>1, EmptySeq, LenProperties
      <3>6. /\ owner' = Head(chosen).owner /\ routes' = Head(chosen).routes
            /\ alternatives' = Tail(chosen)
        BY <1>2, <2>3 DEF Invite
      <3> HIDE DEF chosen
      <3>7. Head(chosen) = chosen[1] /\ 1 \in 1..Len(pool)
        BY <3>1, <3>5, PoolParts
      <3>8. GatewayAt(current)' = owner'
        BY <2>1, <3>4, <3>6, <3>7 DEF GatewayAt
      <3>9. \A i \in DOMAIN Tail(chosen) :
              Range(Tail(chosen)[i].routes) = {Tail(chosen)[i].owner}
        BY <3>1, <3>4, <3>5, RestOfPool
      <3> QED
        BY <3>6, <3>8, <3>9 DEF PinnedOrRedirected
    <2> QED
      BY <2>2, <2>3
  <1>3. ASSUME NEW group \in Groups, InviteToUri(group)
        PROVE  PinnedOrRedirected'
    BY <1>3 DEF InviteToUri, Fresh, PinnedOrRedirected
  <1>4. CASE AdvancePool
    <2>1. alternatives \in Seq(Choices) /\ alternatives # <<>>
      BY <1>4 DEF AdvancePool, TypeOK
    <2>2. \A i \in DOMAIN alternatives :
            Range(alternatives[i].routes) = {alternatives[i].owner}
      BY <2>1 DEF Fresh, PinnedOrRedirected
    <2>3. owner' = alternatives[1].owner /\ routes' = alternatives[1].routes
            /\ Range(routes') = {owner'} /\ routes' \in Seq(Gateways)
      BY <1>4, <2>1, <2>2, PoolParts DEF AdvancePool, Choices
    <2>4. GatewayAt(current)' = owner'
      <3>1. routes' # <<>>
        BY <2>3 DEF Range
      <3>2. 1 \in DOMAIN routes'
        BY <2>3, <3>1, FirstPlace
      <3>3. routes'[1] \in Range(routes')
        BY <3>2 DEF Range
      <3> QED
        BY <1>4, <2>3, <3>2, <3>3 DEF AdvancePool, GatewayAt
    <2>5. \A i \in DOMAIN alternatives' :
            Range(alternatives'[i].routes) = {alternatives'[i].owner}
      BY <1>4, <2>1, <2>2, RestOfPool DEF AdvancePool
    <2> QED
      BY <2>4, <2>5 DEF PinnedOrRedirected
  <1>5. CASE Redirected
    <2>1. routes \in Seq(Routes) /\ Redirect \in Routes
      BY DEF TypeOK, Routes
    <2>2. /\ routes' \in Seq(Routes) /\ Len(routes') = Len(routes) + 1
          /\ routes'[Len(routes) + 1] = Redirect
      BY <1>5, <2>1, AppendProperties DEF Redirected
    <2>3. current' = Len(routes) + 1 /\ current' \in DOMAIN routes'
      BY <1>1, <1>5, <2>2, LenProperties DEF Redirected, GiveUpCurrent
    <2>4. GatewayAt(current)' = Redirect
      BY <2>2, <2>3 DEF GatewayAt
    <2> QED
      BY <1>5, <2>4 DEF Redirected, PinnedOrRedirected
  <1>6. CASE Failover
    <2>1. PICK next \in UsableRoutes : GiveUpCurrent(next)
      BY <1>6 DEF Failover
    <2>2. next \in DOMAIN routes /\ (owner # NoGateway => routes[next] = owner)
      BY DEF UsableRoutes
    <2>3. owner # NoGateway => GatewayAt(current)' = owner
      BY <1>6, <2>1, <2>2 DEF Failover, GiveUpCurrent, GatewayAt
    <2> QED
      BY <1>6, <2>3 DEF Failover, PinnedOrRedirected
  <1>7. ASSUME UNCHANGED routing
        PROVE  PinnedOrRedirected'
    BY <1>7 DEF routing, PinnedOrRedirected, GatewayAt
  <1>8. CASE Provisional \/ Ringing \/ Success \/ Rejected
    BY <1>7, <1>8 DEF Provisional, Ringing, Success, Rejected
  <1>9. CASE Terminate \/ ForceTerminate \/ Place \/ InviteUnroutable
    BY <1>7, <1>9 DEF Terminate, ForceTerminate, Place, InviteUnroutable
  <1>10. ASSUME NEW table \in Tables, NEW pool \in Pools, InviteUnidentified(table, pool)
         PROVE  PinnedOrRedirected'
    BY <1>7, <1>10 DEF InviteUnidentified
  <1>11. ASSUME NEW e \in Events, PushEvent(e)
         PROVE  PinnedOrRedirected'
    BY <1>7, <1>11 DEF PushEvent
  <1>12. CASE UNCHANGED vars
    BY <1>7, <1>12 DEF vars
  <1> QED
    BY <1>2, <1>3, <1>4, <1>5, <1>6, <1>8, <1>9, <1>10, <1>11, <1>12 DEF Next, Response

(* The operation that ends a live call accounts it, once.                  *)
LEMMA EndsAccounts ==
  ASSUME TypeOK, EndedOnce, state \notin Over, NEW st \in Over, Ends(st),
         late' = late, Occurrences("finished")' = Occurrences("finished"),
         Occurrences("finished") \in Nat
  PROVE  EndedOnce'
  <1> SUFFICES ASSUME late = 0
               PROVE  EndedOnce'
    BY DEF EndedOnce
  <1>1. ~ended /\ Len(cdrs) = 0 /\ unsent["finished"] + Occurrences("finished") = 0
    BY DEF EndedOnce
  <1>2. unsent["finished"] \in Nat
    BY DEF TypeOK, Events
  <1>3. Len(cdrs') = 1
    BY <1>1, CdrType, AppendProperties DEF Ends, TypeOK
  <1>4. unsent'["finished"] = unsent["finished"] + 1
    BY DEF Ends, Raise, TypeOK, Events
  <1>5. ended' /\ state' \in Over
    BY DEF Ends
  <1> QED
    BY <1>1, <1>2, <1>3, <1>4, <1>5 DEF EndedOnce

(* An operation that neither ends the call nor touches its account.        *)
LEMMA KeepsAccount ==
  ASSUME EndedOnce, late' = late, ended' = ended, cdrs' = cdrs,
         unsent'["finished"] = unsent["finished"],
         Occurrences("finished")' = Occurrences("finished"),
         state' \in Over <=> state \in Over
  PROVE  EndedOnce'
  BY DEF EndedOnce

(* A response that revives an ended call is counted as late, which is the  *)
(* exception EndedOnce makes.                                              *)
LEMMA GiveUpKeepsAccount ==
  ASSUME TypeOK, EndedOnce, NEW next, GiveUpCurrent(next),
         UNCHANGED <<ended, cdrs, unsent, sent>>
  PROVE  EndedOnce'
  <1>1. CASE ended
    <2>1. late' # 0
      BY <1>1 DEF GiveUpCurrent, NoteLate, TypeOK
    <2> QED
      BY <2>1 DEF EndedOnce
  <1>2. CASE ~ended
    <2>1. late' = late /\ state' \notin Over
      BY <1>2 DEF GiveUpCurrent, NoteLate, Over
    <2>2. Occurrences("finished")' = Occurrences("finished")
      BY DEF Occurrences
    <2> QED
      BY <1>2, <2>1, <2>2 DEF EndedOnce
  <1> QED
    BY <1>1, <1>2 DEF TypeOK

(* However the operations race, the end of a call is accounted once.       *)
LEMMA StepEndedOnce ==
  ASSUME TypeOK, EndedOnce, [Next]_vars
  PROVE  EndedOnce'
  <1>1. Occurrences("finished") \in Nat
    BY OccurrencesOfAppend DEF Occurrences, At, TypeOK, Events
  <1>2. sent' = sent => Occurrences("finished")' = Occurrences("finished")
    BY DEF Occurrences
  <1>3. sent = <<>> /\ sent' = <<"initiated">> =>
          Occurrences("finished") = 0 /\ Occurrences("finished")' = 0
    <2> SUFFICES ASSUME sent = <<>>, sent' = <<"initiated">>
                 PROVE  Occurrences("finished") = 0 /\ Occurrences("finished")' = 0
      OBVIOUS
    <2>1. {i \in DOMAIN sent : sent[i] = "finished"} = {}
      OBVIOUS
    <2>2. {i \in DOMAIN sent' : sent'[i] = "finished"} = {}
      OBVIOUS
    <2> QED
      BY <2>1, <2>2, FS_EmptySet DEF Occurrences
  <1>4. "unknown" \notin Over /\ "routing" \notin Over /\ "ringing" \notin Over
          /\ "established" \notin Over /\ "failed" \in Over /\ "terminated" \in Over
    BY DEF Over
  <1>5. ASSUME NEW table \in Tables, NEW pool \in Pools, Invite(table, pool)
        PROVE  EndedOnce'
    BY <1>3, <1>4, <1>5, KeepsAccount DEF Invite
  <1>6. ASSUME NEW table \in Tables, NEW pool \in Pools, InviteUnidentified(table, pool)
        PROVE  EndedOnce'
    BY <1>3, <1>6, KeepsAccount DEF InviteUnidentified
  <1>7. CASE InviteUnroutable
    <2>1. Ends("failed") /\ late' = late /\ state \notin Over
      BY <1>4, <1>7 DEF InviteUnroutable
    <2>2. Occurrences("finished")' = Occurrences("finished")
      BY <1>3, <1>7 DEF InviteUnroutable
    <2> QED
      BY <1>1, <1>4, <2>1, <2>2, EndsAccounts
  <1>8. ASSUME NEW group \in Groups, InviteToUri(group)
        PROVE  EndedOnce'
    BY <1>3, <1>4, <1>8, KeepsAccount DEF InviteToUri
  <1>9. CASE AdvancePool \/ Place
    BY <1>2, <1>9, KeepsAccount DEF AdvancePool, Place
  <1>10. CASE Provisional
    <2>1. late' # 0
      BY <1>10 DEF Provisional, Completed, NoteLate, TypeOK
    <2> QED
      BY <2>1 DEF EndedOnce
  <1>11. CASE Ringing
    <2>1. unsent'["finished"] = unsent["finished"]
      BY <1>11 DEF Ringing, Raise, TypeOK, Events
    <2> QED
      BY <1>2, <1>4, <1>11, <2>1, KeepsAccount DEF Ringing
  <1>12. CASE Success
    <2>1. unsent'["finished"] = unsent["finished"]
      BY <1>12 DEF Success, Raise, TypeOK, Events
    <2> QED
      BY <1>2, <1>4, <1>12, <2>1, KeepsAccount DEF Success
  <1>13. CASE Redirected
    BY <1>13, GiveUpKeepsAccount DEF Redirected
  <1>14. CASE Failover
    <2>1. PICK next \in UsableRoutes : GiveUpCurrent(next)
      BY <1>14 DEF Failover
    <2> QED
      BY <1>14, <2>1, GiveUpKeepsAccount DEF Failover
  <1>15. CASE Rejected
    BY <1>1, <1>2, <1>4, <1>15, EndsAccounts DEF Rejected
  <1>16. CASE Terminate
    BY <1>1, <1>2, <1>4, <1>16, EndsAccounts DEF Terminate
  <1>17. CASE ForceTerminate
    <2>1. PICK st \in Over : Ends(st)
      BY <1>4, <1>17 DEF ForceTerminate
    <2> QED
      BY <1>1, <1>2, <1>17, <2>1, EndsAccounts DEF ForceTerminate
  <1>18. ASSUME NEW e \in Events, PushEvent(e)
         PROVE  EndedOnce'
    <2>1. sent' = Append(sent, e) /\ sent \in Seq(Events)
      BY <1>18 DEF PushEvent, TypeOK
    <2>2. /\ "finished" = e => Occurrences("finished")' = Occurrences("finished") + 1
          /\ "finished" # e => Occurrences("finished")' = Occurrences("finished")
      <3>1. Occurrences("finished") = Cardinality(At(sent, "finished"))
        BY DEF Occurrences, At
      <3>2. Occurrences("finished")' = Cardinality(At(Append(sent, e), "finished"))
        BY <2>1 DEF Occurrences, At
      <3> QED
        BY <1>18, <2>1, <3>1, <3>2, OccurrencesOfAppend
    <2>3. unsent \in [Events -> Nat] /\ "finished" \in Events
      BY DEF TypeOK, Events
    <2>4. unsent'["finished"] + Occurrences("finished")'
            = unsent["finished"] + Occurrences("finished")
      <3>1. CASE e = "finished"
        <4>1. unsent'["finished"] = unsent["finished"] - 1
          BY <1>18, <2>3, <3>1 DEF PushEvent
        <4> QED
          BY <1>1, <2>2, <2>3, <3>1, <4>1
      <3>2. CASE e # "finished"
        <4>1. unsent'["finished"] = unsent["finished"]
          BY <1>18, <2>3, <3>2 DEF PushEvent
        <4> QED
          BY <2>2, <3>2, <4>1
      <3> QED
        BY <3>1, <3>2
    <2> QED
      BY <1>18, <2>4 DEF PushEvent, EndedOnce
  <1>19. CASE UNCHANGED vars
    BY <1>2, <1>19, KeepsAccount DEF vars
  <1> QED
    BY <1>5, <1>6, <1>7, <1>8, <1>9, <1>10, <1>11, <1>12, <1>13, <1>14, <1>15, <1>16,
       <1>17, <1>18, <1>19 DEF Next, Response

-----------------------------------------------------------------------------
(* The inductive invariant of the call manager.                            *)
THEOREM InvariantHolds == Spec => []IInv
  <1>1. Init => IInv
    BY InitIInv
  <1>2. IInv /\ [Next]_vars => IInv'
    BY StepTypeOK, StepFresh, StepNoRouteTwice, StepPinned, StepEndedOnce DEF IInv
  <1> QED
    BY <1>1, <1>2, PTL DEF Spec

(* Every variable of a call keeps its type, however its operations race.   *)
THEOREM TypeCorrect == Spec => []TypeOK
  <1>1. IInv => TypeOK
    BY DEF IInv
  <1> QED
    BY <1>1, InvariantHolds, PTL

(* One CDR and one call_finished event for a call that ended, none before, *)
(* unless a response took effect on the ended call.                        *)
THEOREM AccountedOnce == Spec => []EndedOnce
  <1>1. IInv => EndedOnce
    BY DEF IInv
  <1> QED
    BY <1>1, InvariantHolds, PTL

(* A managed caller number leaves through its owner or a redirect only.    *)
THEOREM NumberStaysPinned == Spec => []PinnedOrRedirected
  <1>1. IInv => PinnedOrRedirected
    BY DEF IInv
  <1> QED
    BY <1>1, InvariantHolds, PTL

(* A route that was given up is never the current one again.               *)
THEOREM RoutesNotRepeated == Spec => []NoRouteTwice
  <1>1. IInv => NoRouteTwice
    BY DEF IInv
  <1> QED
    BY <1>1, InvariantHolds, PTL

-----------------------------------------------------------------------------
(* The circuit breaker.  Its three invariants are inductive together: that  *)
(* the slot is taken only in a half-open circuit, and by somebody, is what  *)
(* keeps a verdict that comes in late, in a closed or an open circuit, from *)
(* leaving a taken slot behind.                                            *)
HealthIInv == HealthTypeOK /\ CircuitMatchesFailures /\ SlotIsAccounted

(* The linear part of the assumption on the constants. *)
LEMMA Thresholds ==
  /\ NoCall \notin Calls
  /\ CloseThreshold \in Nat \ {0} /\ FailureThreshold \in Nat \ {0}
  /\ MaxGoods \in Nat /\ MaxBads \in Nat
  BY HealthAssumption

(* Whoever frees the slot leaves no taker and no leak. *)
LEMMA Freed ==
  ASSUME SlotFreed
  PROVE  ~slot' /\ slot' \in BOOLEAN /\ leaked' \in BOOLEAN /\ holder' = NoCall
  BY Zenon DEF SlotFreed

(* What the lock of one gateway's record does to the circuit when somebody *)
(* asks for the gateway, whatever is granted: the type and the tale of the *)
(* failures stay, and the slot is taken only in a half-open circuit.       *)
LEMMA ReopenSound ==
  ASSUME HealthIInv, NEW taken \in BOOLEAN, Reopen(taken)
  PROVE  /\ circuit' \in Circuits /\ failures' \in 0..FailureThreshold
         /\ halfSuccesses' \in 0..(CloseThreshold - 1) /\ slot' \in BOOLEAN
         /\ goods' \in 0..MaxGoods /\ bads' \in 0..MaxBads /\ cooled' \in BOOLEAN
         /\ circuit' = "closed" <=> failures' < FailureThreshold
         /\ slot' => circuit' = "halfOpen"
         /\ slot' => slot \/ taken
  BY Thresholds DEF HealthIInv, HealthTypeOK, CircuitMatchesFailures, SlotIsAccounted, Circuits,
     Reopen, Recovering, CircuitNow, SlotTaken

(* A verdict, good or bad, of a call or of a probe, leaves the record      *)
(* well typed and consistent.                                              *)
LEMMA VerdictSound ==
  ASSUME HealthIInv, RecordSuccess \/ RecordProbeSuccess \/ RecordFailure
  PROVE  /\ circuit' \in Circuits /\ failures' \in 0..FailureThreshold
         /\ halfSuccesses' \in 0..(CloseThreshold - 1)
         /\ goods' \in 0..MaxGoods /\ bads' \in 0..MaxBads /\ cooled' \in BOOLEAN
         /\ holder' \in Calls \cup {NoCall} /\ leaked' \in BOOLEAN
         /\ circuit' = "closed" <=> failures' < FailureThreshold
         /\ ~slot' /\ slot' \in BOOLEAN
<1>1. CASE RecordSuccess
  <2>1. CountGood /\ UNCHANGED <<bads, cooled>>
    BY <1>1 DEF RecordSuccess
  <2>2. goods' \in 0..MaxGoods
    BY <2>1, Thresholds DEF CountGood, HealthIInv, HealthTypeOK
  <2>3. CASE circuit = "halfOpen" /\ EnoughSuccesses
    BY <1>1, <2>1, <2>2, <2>3, Freed, Thresholds
       DEF RecordSuccess, HealthIInv, HealthTypeOK, Circuits
  <2>4. CASE circuit = "halfOpen" /\ ~EnoughSuccesses
    BY <1>1, <2>1, <2>2, <2>4, Freed, Thresholds
       DEF RecordSuccess, EnoughSuccesses, HealthIInv, HealthTypeOK, CircuitMatchesFailures
  <2>5. CASE circuit = "closed"
    BY <1>1, <2>1, <2>2, <2>5, Thresholds
       DEF RecordSuccess, HealthIInv, HealthTypeOK, SlotIsAccounted
  <2>6. CASE circuit = "open"
    BY <1>1, <2>1, <2>2, <2>6
       DEF RecordSuccess, HealthIInv, HealthTypeOK, CircuitMatchesFailures, SlotIsAccounted
  <2>7. QED
    BY <2>3, <2>4, <2>5, <2>6 DEF HealthIInv, HealthTypeOK, Circuits
<1>2. CASE RecordProbeSuccess
  <2>1. goods' \in 0..MaxGoods
    BY <1>2, Thresholds DEF RecordProbeSuccess, CountGood, HealthIInv, HealthTypeOK
  <2>2. QED
    BY <1>2, <2>1, Freed, Thresholds DEF RecordProbeSuccess, HealthIInv, HealthTypeOK, Circuits
<1>3. CASE RecordFailure
  <2>1. bads' \in 0..MaxBads /\ failures' \in 0..FailureThreshold
    BY <1>3, Thresholds DEF RecordFailure, HealthIInv, HealthTypeOK
  <2>2. circuit' = "closed" <=> failures' < FailureThreshold
    BY <1>3, Thresholds DEF RecordFailure, TooManyFailures, HealthIInv, HealthTypeOK, Circuits,
       CircuitMatchesFailures
  <2>3. SlotFreed /\ halfSuccesses' = 0 /\ cooled' \in BOOLEAN /\ UNCHANGED goods
    BY <1>3, Zenon DEF RecordFailure
  <2>4. circuit' \in Circuits
    BY <1>3 DEF RecordFailure, HealthIInv, HealthTypeOK, Circuits
  <2>5. QED
    BY <2>1, <2>2, <2>3, <2>4, Freed, Thresholds DEF HealthIInv, HealthTypeOK
<1>4. QED
  BY <1>1, <1>2, <1>3

(* The initial record: a closed circuit without failures. *)
LEMMA HealthStarts == HealthInit => HealthIInv
<1> SUFFICES ASSUME HealthInit PROVE HealthIInv
  OBVIOUS
<1>1. up \in BOOLEAN /\ slot \in BOOLEAN /\ cooled \in BOOLEAN /\ probe \in BOOLEAN
      /\ leaked \in BOOLEAN /\ ~slot
  BY Zenon DEF HealthInit
<1>2. /\ circuit = "closed" /\ failures = 0 /\ halfSuccesses = 0 /\ goods = 0 /\ bads = 0
      /\ stage \in [Calls -> Stages] /\ holder = NoCall
  BY Zenon DEF HealthInit, Stages
<1>3. QED
  BY <1>1, <1>2, Thresholds
  DEF HealthIInv, HealthTypeOK, CircuitMatchesFailures, SlotIsAccounted, Circuits

(* Every step of the loop, of the calls and of the gateway keeps the        *)
(* inductive invariant.                                                    *)
LEMMA HealthStep == HealthIInv /\ [HealthNext]_breaker => HealthIInv'
<1> SUFFICES ASSUME HealthIInv, [HealthNext]_breaker PROVE HealthIInv'
  OBVIOUS
<1> USE DEF HealthIInv
<1>1. CASE Fail \/ Return
  <2>1. up' \in BOOLEAN /\ UNCHANGED <<health, probe, traffic>>
    BY <1>1 DEF Fail, Return
  <2>2. QED
    BY <2>1 DEF HealthTypeOK, CircuitMatchesFailures, SlotIsAccounted, health, traffic
<1>2. CASE CoolDown
  BY <1>2 DEF CoolDown, HealthTypeOK, CircuitMatchesFailures, SlotIsAccounted, traffic
<1>3. CASE ProbeTick
  BY <1>3, ReopenSound DEF ProbeTick, HealthTypeOK, CircuitMatchesFailures, SlotIsAccounted, traffic
<1>4. CASE ProbeAnswered
  BY <1>4, VerdictSound DEF ProbeAnswered, HealthTypeOK, CircuitMatchesFailures, SlotIsAccounted
<1>5. CASE ProbeTimesOut
  BY <1>5, VerdictSound DEF ProbeTimesOut, HealthTypeOK, CircuitMatchesFailures, SlotIsAccounted
<1>6. ASSUME NEW c \in Calls, List(c) \/ Spare(c) \/ SendInvite(c) PROVE HealthIInv'
  BY <1>6 DEF List, Spare, SendInvite, HealthTypeOK, CircuitMatchesFailures, SlotIsAccounted,
     Stages, health
<1>7. ASSUME NEW c \in Calls, Acquire(c) PROVE HealthIInv'
  <2>1. PICK sampled \in BOOLEAN :
          /\ Reopen(Grants(sampled))
          /\ stage' = [stage EXCEPT ![c] = IF Grants(sampled) THEN "acquired" ELSE "spare"]
          /\ holder' = IF Grants(sampled) /\ CircuitNow = "halfOpen" THEN c ELSE holder
    BY <1>7 DEF Acquire
  <2>2. stage[c] = "listed" /\ UNCHANGED <<up, probe, leaked>>
    BY <1>7 DEF Acquire
  <2>3. Grants(sampled) \in BOOLEAN
    BY DEF Grants, RateIsGood
  <2>4. HealthTypeOK' /\ CircuitMatchesFailures'
    BY <2>1, <2>2, <2>3, ReopenSound DEF HealthTypeOK, CircuitMatchesFailures, Stages
  <2>5. SlotIsAccounted'
    <3>1. SUFFICES ASSUME slot'
                   PROVE  /\ circuit' = "halfOpen"
                          /\ \/ probe' \/ leaked'
                             \/ /\ holder' \in Calls
                                /\ stage'[holder'] \in {"acquired", "invited"}
      BY DEF SlotIsAccounted
    <3>2. circuit' = "halfOpen"
      BY <2>1, <2>3, <3>1, ReopenSound
    <3>3. CASE SlotTaken
      <4>1. slot /\ CircuitNow = circuit /\ circuit = "halfOpen"
        BY <3>3 DEF SlotTaken, CircuitNow, Recovering, SlotIsAccounted
      <4>2. ~Grants(sampled)
        BY <3>3, <4>1 DEF Grants
      <4>3. QED
        BY <2>1, <2>2, <3>2, <4>1, <4>2 DEF SlotIsAccounted, HealthTypeOK
    <3>4. CASE ~SlotTaken
      <4>1. Grants(sampled) /\ CircuitNow = "halfOpen"
        BY <2>1, <3>1, <3>4 DEF Reopen
      <4>2. QED
        BY <2>1, <3>2, <4>1 DEF HealthTypeOK
    <3>5. QED
      BY <3>3, <3>4
  <2>6. QED
    BY <2>4, <2>5
<1>8. ASSUME NEW c \in Calls, Answered(c) \/ Unanswered(c) PROVE HealthIInv'
  BY <1>8, VerdictSound DEF Answered, Unanswered, Ended, HealthTypeOK, CircuitMatchesFailures,
     SlotIsAccounted, Stages
<1>9. ASSUME NEW c \in Calls, NoVerdict(c) PROVE HealthIInv'
  BY <1>9 DEF NoVerdict, Ended, HealthTypeOK, CircuitMatchesFailures, SlotIsAccounted,
     Stages, health
<1>10. CASE UNCHANGED breaker
  BY <1>10 DEF breaker, health, traffic, HealthTypeOK, CircuitMatchesFailures, SlotIsAccounted
<1>11. QED
  BY <1>1, <1>2, <1>3, <1>4, <1>5, <1>6, <1>7, <1>8, <1>9, <1>10 DEF HealthNext

(* The inductive invariant holds in every reachable state. *)
THEOREM HealthInvariantHolds == HealthSpec => []HealthIInv
<1>1. HealthInit => HealthIInv
  BY HealthStarts
<1>2. HealthIInv /\ [HealthNext]_breaker => HealthIInv'
  BY HealthStep
<1>3. QED
  BY <1>1, <1>2, PTL DEF HealthSpec

(* The record of a gateway keeps its shape: in particular the successes of *)
(* a half-open circuit never pass the number that closes it.               *)
THEOREM HealthTypeCorrect == HealthSpec => []HealthTypeOK
<1>1. HealthIInv => HealthTypeOK
  BY DEF HealthIInv
<1>2. QED
  BY <1>1, HealthInvariantHolds, PTL

(* Whatever verdicts come in late, the circuit is closed exactly while the *)
(* gateway has failed less than FailureThreshold times in a row.           *)
THEOREM CircuitFollowsFailures == HealthSpec => []CircuitMatchesFailures
<1>1. HealthIInv => CircuitMatchesFailures
  BY DEF HealthIInv
<1>2. QED
  BY <1>1, HealthInvariantHolds, PTL

(* A taken half-open slot belongs to a probe or a call under way, or to    *)
(* the call that leaked it: nothing else can make it stay taken.           *)
THEOREM SlotHasATaker == HealthSpec => []SlotIsAccounted
<1>1. HealthIInv => SlotIsAccounted
  BY DEF HealthIInv
<1>2. QED
  BY <1>1, HealthInvariantHolds, PTL
=============================================================================
