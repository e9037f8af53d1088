-------------------------- MODULE MediaPortsProofs --------------------------
(***************************************************************************)
(* Proofs about MediaPorts, for any calls, any pool of nodes, any finite   *)
(* set of ports and any number of failovers, late answers and lost         *)
(* requests.                                                               *)
(*                                                                         *)
(* Two properties of a session and the pool cannot be seen from them       *)
(* alone: they depend on what the lists of the two actors still hold.  So  *)
(* the invariant says                                                      *)
(*   Orderly      which steps a list may hold, and how far its session is; *)
(*   Books        that a count is never more than the records behind it,   *)
(*                for a key that nobody has harmed, and exact for a call   *)
(*                that was not torn down;                                  *)
(*   Emptied      that an entry without a count is about to be forgotten,   *)
(*                by the call itself if that is live;                      *)
(*   LocalPairs   that only ports of this process are paired;              *)
(*   Undisturbed  that a call nobody has harmed has what it holds, and     *)
(*                what it is about to hold, and clears nothing it holds;   *)
(*   Named        that while nobody was harmed each lease, each record and *)
(*                each affinity has somebody who cares for it.             *)
(* A step of one call spares every other, or makes it a victim (Spared).   *)
(***************************************************************************)
EXTENDS MediaPorts, TLAPS, FiniteSetTheorems, SequenceTheorems

Handler(c) == todo[c]["handler"]
Ender(c) == todo[c]["ender"]
Listed(c, who) == {todo[c][who][i] : i \in 1..Len(todo[c][who])}

(* The kinds of steps.                                                     *)
Cleaning(s) ==
  \/ s.what \in {"clear", "release"} /\ s.port \in Ports
  \/ s.what = "forget" /\ s.why \in Keys
Asking(s) == s.what = "choose" /\ s.why \in Reasons
Serving(s) ==
  /\ s.what \in {"lease", "record", "rewrite"} /\ s.why \in Reasons
  /\ s.what = "lease" => s.node \in Nodes
  /\ s.what \in {"record", "rewrite"} => s.port \in Ports
Removing(s) == s.what = "remove"

HandlerList(L) ==
  \A i \in 1..Len(L) :
    \/ Cleaning(L[i])
    \/ i = Len(L) /\ (Asking(L[i]) \/ Removing(L[i]))
    \/ Len(L) = 1 /\ Serving(L[i])

(* What a message still waits for, given how far its session is.           *)
Fits(c, s) ==
  /\ Asking(s) \/ Serving(s) =>
       /\ s.why = "offer" => session[c].at = "new"
       /\ s.why \in {"answer", "failover"} => session[c].at \in {"up", "gone"}
       /\ s.why = "stray" => session[c].at = "gone"
       /\ s.why = "failover" => PortsHeldBy(c) = {}
  /\ Removing(s) => session[c].at \in {"up", "gone"} /\ PortsHeldBy(c) = {}

OrderlyFor(c) ==
  /\ session[c].at # "up" => session[c].gateway = None /\ session[c].caller = None
  /\ session[c].at \notin {"up", "gone"} => spent[c] = {}
  /\ Ender(c) # <<>> => session[c].at = "gone"
  /\ \A s \in Listed(c, "ender") : Cleaning(s)
  /\ HandlerList(Handler(c))
  /\ \A s \in Listed(c, "handler") : Fits(c, s)

Orderly == \A c \in Calls : OrderlyFor(c)

-----------------------------------------------------------------------------
Of(f, k) == {p \in Ports : f.call[p] = k}
On(f, n) == {p \in Ports : NodeOf[p] = n /\ f.call[p] # None}

Pools == [node : [Keys -> Nodes \cup {None}], count : [Keys -> Nat], entries : SUBSET Keys,
          call : [Ports -> Keys \cup {None}], endpoints : [Nodes -> Nat]]

Covered(f) ==
  /\ f \in Pools
  /\ \A k \in Keys \ f.entries : f.count[k] = 0
  /\ \A n \in Nodes : Cardinality(On(f, n)) <= f.endpoints[n]

ExactFor(f, k) == f.count[k] = Cardinality(Of(f, k))
WithinFor(f, k) == f.count[k] <= Cardinality(Of(f, k))
ExactOn(f, n) == f.endpoints[n] = Cardinality(On(f, n))

Young(c) == c \in Calls \ victims /\ session[c].at # "gone"

Books ==
  /\ Covered(pool)
  /\ \A k \in Keys \ victims : WithinFor(pool, k)
  /\ \A c \in Calls : Young(c) => ExactFor(pool, c)
  /\ victims = {} => \A n \in Nodes : ExactOn(pool, n)

LocalPairs ==
  \A p \in Ports : peers[p] # None => p \in LocalPorts /\ peers[p] \in LocalPorts

-----------------------------------------------------------------------------
Live(c) == c \notin victims /\ session[c].at \in {"new", "up"}

Mine(c, p) == p \in leased /\ owner[p] = c

(* What the pool has recorded for c is leased to c, or about to be         *)
(* released by it.                                                         *)
RecordsOf(c) ==
  \A p \in Ports : pool.call[p] = c =>
    \/ Mine(c, p)
    \/ p \notin LocalPorts /\ \E s \in Listed(c, "handler") : s.what = "release" /\ s.port = p

(* A port that a message of c is about to record and to write into an SDP. *)
Underway(c, s) ==
  /\ s.what = "lease" => pool.node[c] = s.node
  /\ s.what \in {"record", "rewrite"} =>
       /\ Mine(c, s.port) /\ peers[s.port] = None
       /\ s.port \notin PortsHeldBy(c)
       /\ pool.node[c] = NodeOf[s.port]
  /\ s.what = "rewrite" => pool.call[s.port] = c
  /\ s.what \in {"clear", "release"} =>
       s.port \notin PortsHeldBy(c) /\ peers[s.port] \notin PortsHeldBy(c)

Holds(c) ==
  \A p \in PortsHeldBy(c) :
    Mine(c, p) /\ pool.call[p] = c /\ pool.node[c] = NodeOf[p]

Undisturbed ==
  \A c \in Calls : Live(c) =>
    /\ RecordsOf(c) /\ Holds(c)
    /\ \A s \in Listed(c, "handler") : Underway(c, s)

-----------------------------------------------------------------------------
(* Somebody handles port p for c.                                          *)
Pending(c, p, kinds) ==
  \E who \in Actors : \E s \in Listed(c, who) : s.what \in kinds /\ s.port = p

Cared(k, p, kinds) ==
  \/ k \in Calls /\ (p \in PortsHeldBy(k) \/ Pending(k, p, kinds))
  \/ k = Stray /\ \E c \in Calls : Pending(c, p, kinds)

Coming(k) ==
  \E c \in Calls : \E s \in Listed(c, "handler") :
    s.what \in {"lease", "record"} /\ KeyOf(c, s.why) = k

Named ==
  victims = {} =>
    /\ \A p \in leased \ leaked : Cared(owner[p], p, {"record", "rewrite", "clear"})
    /\ \A p \in Ports \ leaked :
         \/ pool.call[p] = None
         \/ Cared(pool.call[p], p, {"rewrite", "clear", "release"})
         \/ \E c \in Calls : Pending(c, p, {"record"})
    /\ \A k \in Keys \ pool.entries : pool.node[k] # None =>
         (k \in Calls /\ session[k].at = "gone") \/ Coming(k)

-----------------------------------------------------------------------------
Forgets(c, who, k) == \E s \in Listed(c, who) : s.what = "forget" /\ s.why = k
BeingForgotten(k) == \E c \in Calls, who \in Actors : Forgets(c, who, k)

Emptied ==
  /\ \A k \in pool.entries : pool.count[k] = 0 => BeingForgotten(k)
  /\ \A c, d \in Calls, who \in Actors : Young(c) /\ Forgets(d, who, c) =>
       /\ pool.count[c] = 0
       /\ Live(c) => d = c /\ who = "handler"

IInv == TypeOK /\ Orderly /\ Books /\ LocalPairs /\ Undisturbed /\ Named /\ Emptied
-----------------------------------------------------------------------------
LEMMA Constants ==
  /\ LocalNodes \subseteq Nodes /\ NodeOf \in [Ports -> Nodes]
  /\ Stray \notin Calls /\ None \notin Calls /\ None # Stray /\ None \notin Ports
  /\ None \notin Nodes /\ None \notin Keys
  /\ IsFiniteSet(Ports) /\ MaxTroubles \in Nat
  /\ Calls \subseteq Keys /\ Stray \in Keys /\ LocalPorts \subseteq Ports
  BY MediaPortsAssumption DEF Keys, LocalPorts

LEMMA StepFields ==
  ASSUME NEW s \in Steps
  PROVE  /\ s.what \in {"choose", "lease", "record", "rewrite", "clear", "release", "forget",
                       "remove"}
         /\ s.why \in Reasons \cup Keys \cup {None} /\ s.port \in Ports \cup {None}
         /\ s.node \in Nodes \cup {None}
  BY DEF Steps

(* The steps the actions put on a list.                                    *)
LEMMA StepsMade ==
  /\ \A why \in Reasons : Step("choose", why, None, None) \in Steps
  /\ \A why \in Reasons, n \in Nodes : Step("lease", why, None, n) \in Steps
  /\ \A why \in Reasons, p \in Ports :
       Step("record", why, p, None) \in Steps /\ Step("rewrite", why, p, None) \in Steps
  /\ \A p \in Ports : Step("clear", None, p, None) \in Steps
                      /\ Step("release", None, p, None) \in Steps
  /\ Step("remove", None, None, None) \in Steps
  /\ \A k \in Keys : Step("forget", k, None, None) \in Steps
  /\ \A what, why, p, n : /\ Step(what, why, p, n).what = what /\ Step(what, why, p, n).why = why
                          /\ Step(what, why, p, n).port = p /\ Step(what, why, p, n).node = n
  BY DEF Step, Steps

LEMMA ListOf ==
  ASSUME TypeOK, NEW c \in Calls, NEW who \in Actors
  PROVE  todo[c][who] \in Seq(Steps) /\ Len(todo[c][who]) \in Nat
  BY LenProperties DEF TypeOK

LEMMA NonEmpty ==
  ASSUME NEW L \in Seq(Steps), L # <<>>
  PROVE  /\ Len(L) \in Nat /\ Len(L) >= 1 /\ Head(L) = L[1] /\ Head(L) \in Steps
         /\ Tail(L) \in Seq(Steps) /\ Len(Tail(L)) = Len(L) - 1
         /\ \A i \in 1..Len(Tail(L)) : Tail(L)[i] = L[i + 1]
  BY HeadTailProperties, EmptySeq

(* The head of a list is done with.                                        *)
LEMMA Dropped ==
  ASSUME TypeOK, NEW c \in Calls, NEW who \in Actors, NEW what,
         Next_(c, who, what), Then(c, who, <<>>)
  PROVE  /\ todo' \in [Calls -> [Actors -> Seq(Steps)]]
         /\ todo'[c][who] = Tail(todo[c][who])
         /\ \A d \in Calls, w \in Actors : d # c \/ w # who => todo'[d][w] = todo[d][w]
         /\ Head(todo[c][who]) \in Listed(c, who) /\ Head(todo[c][who]) \in Steps
         /\ Head(todo[c][who]).what = what
         /\ Listed(c, who)' \subseteq Listed(c, who)
         /\ Listed(c, who) \subseteq Listed(c, who)' \cup {Head(todo[c][who])}
  <1> DEFINE L == todo[c][who]
  <1>1. L \in Seq(Steps) /\ L # <<>> /\ Head(L).what = what
    BY ListOf DEF Next_, Idle
  <1>2. /\ Len(L) \in Nat /\ Len(L) >= 1 /\ Head(L) = L[1] /\ Head(L) \in Steps
        /\ Tail(L) \in Seq(Steps) /\ Len(Tail(L)) = Len(L) - 1
        /\ \A i \in 1..Len(Tail(L)) : Tail(L)[i] = L[i + 1]
    BY <1>1, NonEmpty
  <1>3. <<>> \o Tail(L) = Tail(L)
    BY <1>2, EmptySeq, ConcatEmptySeq
  <1>4. todo' = [todo EXCEPT ![c][who] = Tail(L)]
    BY <1>3 DEF Then, TypeOK
  <1>5. /\ todo' \in [Calls -> [Actors -> Seq(Steps)]]
        /\ todo'[c][who] = Tail(L)
        /\ \A d \in Calls, w \in Actors : d # c \/ w # who => todo'[d][w] = todo[d][w]
    BY <1>2, <1>4 DEF TypeOK
  <1>6. Head(L) \in Listed(c, who)
    BY <1>2 DEF Listed
  <1>7. Listed(c, who)' = {Tail(L)[i] : i \in 1..Len(Tail(L))}
    BY <1>5 DEF Listed
  <1>8. Listed(c, who)' \subseteq Listed(c, who)
    <2> SUFFICES ASSUME NEW i \in 1..Len(Tail(L)) PROVE Tail(L)[i] \in Listed(c, who)
      BY <1>7
    <2>1. i + 1 \in 1..Len(L) /\ Tail(L)[i] = L[i + 1]
      BY <1>2
    <2> QED
      BY <2>1 DEF Listed
  <1>9. ASSUME NEW s \in Listed(c, who), s # Head(L)
        PROVE  s \in Listed(c, who)'
    <2>1. PICK i \in 1..Len(L) : s = L[i]
      BY DEF Listed
    <2>2. i - 1 \in 1..Len(Tail(L)) /\ Tail(L)[i - 1] = s
      BY <1>2, <1>9, <2>1
    <2> QED
      BY <1>7, <2>2
  <1> QED
    BY <1>1, <1>2, <1>5, <1>6, <1>8, <1>9

(* The head of a list is replaced by another step.                         *)
LEMMA Swapped ==
  ASSUME TypeOK, NEW c \in Calls, NEW who \in Actors, NEW what, NEW s \in Steps,
         Next_(c, who, what), Then(c, who, <<s>>)
  PROVE  /\ todo' \in [Calls -> [Actors -> Seq(Steps)]]
         /\ Len(todo'[c][who]) = Len(todo[c][who]) /\ todo'[c][who][1] = s
         /\ \A i \in 2..Len(todo[c][who]) : todo'[c][who][i] = todo[c][who][i]
         /\ \A d \in Calls, w \in Actors : d # c \/ w # who => todo'[d][w] = todo[d][w]
         /\ Head(todo[c][who]) \in Listed(c, who) /\ Head(todo[c][who]) \in Steps
         /\ Head(todo[c][who]).what = what
         /\ s \in Listed(c, who)'
         /\ Listed(c, who)' \subseteq Listed(c, who) \cup {s}
         /\ Listed(c, who) \subseteq Listed(c, who)' \cup {Head(todo[c][who])}
  <1> DEFINE L == todo[c][who]
             M == <<s>> \o Tail(L)
  <1>1. L \in Seq(Steps) /\ L # <<>> /\ Head(L).what = what
    BY ListOf DEF Next_, Idle
  <1>2. /\ Len(L) \in Nat /\ Len(L) >= 1 /\ Head(L) = L[1] /\ Head(L) \in Steps
        /\ Tail(L) \in Seq(Steps) /\ Len(Tail(L)) = Len(L) - 1
        /\ \A i \in 1..Len(Tail(L)) : Tail(L)[i] = L[i + 1]
    BY <1>1, NonEmpty
  <1>3. <<s>> \in Seq(Steps) /\ Len(<<s>>) = 1 /\ <<s>>[1] = s
    OBVIOUS
  <1>4. M \in Seq(Steps) /\ Len(M) = Len(L) /\ M[1] = s
        /\ \A i \in 2..Len(L) : M[i] = L[i]
    BY <1>2, <1>3, ConcatProperties
  <1>5. todo' = [todo EXCEPT ![c][who] = M]
    BY DEF Then, TypeOK
  <1> HIDE DEF M
  <1>6. /\ todo' \in [Calls -> [Actors -> Seq(Steps)]]
        /\ todo'[c][who] = M
        /\ \A d \in Calls, w \in Actors : d # c \/ w # who => todo'[d][w] = todo[d][w]
    BY <1>4, <1>5 DEF TypeOK
  <1>7. Head(L) \in Listed(c, who)
    BY <1>2 DEF Listed
  <1>8. Listed(c, who)' = {M[i] : i \in 1..Len(L)}
    BY <1>4, <1>6 DEF Listed
  <1>9. s \in Listed(c, who)' /\ Listed(c, who)' \subseteq Listed(c, who) \cup {s}
    <2>4. 1 \in 1..Len(L) /\ M[1] = s
      BY <1>2, <1>4
    <2> SUFFICES ASSUME NEW i \in 1..Len(L)
                 PROVE  M[i] = s \/ M[i] \in Listed(c, who)
      BY <1>8, <2>4
    <2>1. i = 1 \/ i \in 2..Len(L)
      BY <1>2
    <2>2. CASE i = 1
      BY <1>2, <1>4, <2>2
    <2>3. CASE i \in 2..Len(L)
      <3>1. M[i] = L[i] /\ L[i] \in Listed(c, who)
        BY <1>4, <2>3 DEF Listed
      <3> QED
        BY <1>2, <3>1
    <2> QED
      BY <2>1, <2>2, <2>3
  <1>10. ASSUME NEW t \in Listed(c, who), t # Head(L)
         PROVE  t \in Listed(c, who)'
    <2>1. PICK i \in 1..Len(L) : t = L[i]
      BY DEF Listed
    <2>2. i \in 2..Len(L)
      BY <1>2, <1>10, <2>1
    <2> QED
      BY <1>4, <1>8, <2>1, <2>2
  <1> QED
    BY <1>1, <1>2, <1>4, <1>6, <1>7, <1>9, <1>10

(* The head of a list is replaced by a list.                               *)
LEMMA Replaced ==
  ASSUME TypeOK, NEW c \in Calls, NEW who \in Actors, NEW what, NEW N \in Seq(Steps),
         Next_(c, who, what), Then(c, who, N)
  PROVE  LET L == todo[c][who]
             M == todo'[c][who]
         IN  /\ todo' \in [Calls -> [Actors -> Seq(Steps)]]
             /\ Len(L) \in Nat /\ Len(L) >= 1 /\ Len(N) \in Nat
             /\ Len(M) = Len(N) + Len(L) - 1
             /\ \A i \in 1..Len(N) : M[i] = N[i]
             /\ \A i \in 1..Len(M) : i > Len(N) => M[i] = L[i - Len(N) + 1]
             /\ \A d \in Calls, w \in Actors : d # c \/ w # who => todo'[d][w] = todo[d][w]
             /\ \A i \in 1..Len(N) : N[i] \in Listed(c, who)'
             /\ \A s \in Listed(c, who)' :
                  s \in Listed(c, who) \/ \E i \in 1..Len(N) : s = N[i]
             /\ Listed(c, who) \subseteq Listed(c, who)' \cup {Head(L)}
  <1> DEFINE L == todo[c][who]
             M == N \o Tail(L)
  <1>1. L \in Seq(Steps) /\ L # <<>> /\ Head(L).what = what
    BY ListOf DEF Next_, Idle
  <1>2. /\ Len(L) \in Nat /\ Len(L) >= 1 /\ Head(L) = L[1] /\ Head(L) \in Steps
        /\ Tail(L) \in Seq(Steps) /\ Len(Tail(L)) = Len(L) - 1
        /\ \A i \in 1..Len(Tail(L)) : Tail(L)[i] = L[i + 1]
    BY <1>1, NonEmpty
  <1>3. Len(N) \in Nat
    BY LenProperties
  <1>4. /\ M \in Seq(Steps) /\ Len(M) = Len(N) + Len(Tail(L))
        /\ \A i \in 1..(Len(N) + Len(Tail(L))) :
             M[i] = IF i <= Len(N) THEN N[i] ELSE Tail(L)[i - Len(N)]
    BY <1>2, ConcatProperties
  <1>5. todo' = [todo EXCEPT ![c][who] = M]
    BY DEF Then, TypeOK
  <1> HIDE DEF M
  <1>6. /\ todo' \in [Calls -> [Actors -> Seq(Steps)]]
        /\ todo'[c][who] = M
        /\ \A d \in Calls, w \in Actors : d # c \/ w # who => todo'[d][w] = todo[d][w]
    BY <1>4, <1>5 DEF TypeOK
  <1>7. Listed(c, who)' = {M[i] : i \in 1..Len(M)}
    BY <1>6 DEF Listed
  <1>8. Listed(c, who) = {L[i] : i \in 1..Len(L)}
    BY DEF Listed
  <1> HIDE DEF L
  <1>9. ASSUME NEW i \in 1..Len(N) PROVE M[i] = N[i] /\ i \in 1..Len(M)
    BY <1>2, <1>3, <1>4
  <1>10. ASSUME NEW i \in 1..Len(M), i > Len(N)
         PROVE  M[i] = L[i - Len(N) + 1] /\ i - Len(N) + 1 \in 1..Len(L)
    <2>1. i - Len(N) \in 1..Len(Tail(L)) /\ M[i] = Tail(L)[i - Len(N)]
      BY <1>2, <1>3, <1>4, <1>10
    <2> QED
      BY <1>2, <1>3, <2>1
  <1>11. ASSUME NEW s \in Listed(c, who)'
         PROVE  s \in Listed(c, who) \/ \E i \in 1..Len(N) : s = N[i]
    <2>1. PICK i \in 1..Len(M) : s = M[i]
      BY <1>7
    <2>2. CASE i > Len(N)
      BY <1>8, <1>10, <2>1, <2>2
    <2>3. CASE ~(i > Len(N))
      <3>1. i \in 1..Len(N)
        BY <1>3, <1>2, <1>4, <2>3
      <3> QED
        BY <1>9, <2>1, <3>1
    <2> QED
      BY <2>2, <2>3
  <1>12. ASSUME NEW s \in Listed(c, who), s # Head(L)
         PROVE  s \in Listed(c, who)'
    <2>1. PICK i \in 1..Len(L) : s = L[i]
      BY <1>8
    <2> DEFINE j == i + Len(N) - 1
    <2>2. j \in 1..Len(M) /\ j > Len(N) /\ j - Len(N) + 1 = i
      BY <1>2, <1>3, <1>4, <1>12, <2>1
    <2> HIDE DEF j
    <2>3. M[j] = s
      BY <1>10, <2>1, <2>2
    <2> QED
      BY <1>7, <2>2, <2>3
  <1>13. /\ \A i \in 1..Len(N) : M[i] = N[i] /\ N[i] \in Listed(c, who)'
         /\ \A i \in 1..Len(M) : i > Len(N) => M[i] = L[i - Len(N) + 1]
    BY <1>7, <1>9, <1>10
  <1>14. Len(M) = Len(N) + Len(L) - 1
    BY <1>2, <1>3, <1>4
  <1> QED
    BY <1>2, <1>3, <1>6, <1>11, <1>12, <1>13, <1>14 DEF L

(* An idle actor gets a list.                                              *)
LEMMA Started ==
  ASSUME TypeOK, NEW c \in Calls, NEW who \in Actors, NEW L \in Seq(Steps),
         Start(c, who, L)
  PROVE  /\ todo' \in [Calls -> [Actors -> Seq(Steps)]]
         /\ todo'[c][who] = L
         /\ \A d \in Calls, w \in Actors : d # c \/ w # who => todo'[d][w] = todo[d][w]
         /\ Listed(c, who) = {}
         /\ Listed(c, who)' = {L[i] : i \in 1..Len(L)}
  <1>1. todo[c][who] = <<>> /\ todo' = [todo EXCEPT ![c][who] = L]
    BY DEF Start, Idle
  <1>2. /\ todo' \in [Calls -> [Actors -> Seq(Steps)]]
        /\ todo'[c][who] = L
        /\ \A d \in Calls, w \in Actors : d # c \/ w # who => todo'[d][w] = todo[d][w]
    BY <1>1 DEF TypeOK
  <1> QED
    BY <1>1, <1>2 DEF Listed

LEMMA OneStep ==
  ASSUME NEW s \in Steps
  PROVE  <<s>> \in Seq(Steps) /\ Len(<<s>>) = 1 /\ <<s>>[1] = s
         /\ {<<s>>[i] : i \in 1..Len(<<s>>)} = {s}
  OBVIOUS

(* The list that clears what a session has, and what may follow it.        *)
LEMMA ClearingIs ==
  ASSUME NEW s, s.gateway \in Ports \cup {None}, s.caller \in Ports \cup {None}
  PROVE  /\ Clearing(s) \in Seq(Steps)
         /\ \A i \in 1..Len(Clearing(s)) :
              /\ Clearing(s)[i].what = "clear"
              /\ Clearing(s)[i].port \in {s.gateway, s.caller} \ {None}
         /\ \A p \in {s.gateway, s.caller} \ {None} :
              \E i \in 1..Len(Clearing(s)) : Clearing(s)[i].port = p
  <1>1. \A p \in Ports : Step("clear", None, p, None) \in Steps
        /\ Step("clear", None, p, None).what = "clear" /\ Step("clear", None, p, None).port = p
    BY StepsMade
  <1>2. CASE s.gateway = None /\ s.caller = None
    BY <1>2 DEF Clearing
  <1>3. CASE s.gateway # None /\ s.caller = None
    BY <1>1, <1>3 DEF Clearing
  <1>4. CASE s.gateway = None /\ s.caller # None
    BY <1>1, <1>4 DEF Clearing
  <1>5. CASE s.gateway # None /\ s.caller # None
    BY <1>1, <1>5 DEF Clearing
  <1> QED
    BY <1>2, <1>3, <1>4, <1>5

LEMMA Appended ==
  ASSUME NEW L \in Seq(Steps), NEW s \in Steps
  PROVE  /\ L \o <<s>> \in Seq(Steps) /\ Len(L \o <<s>>) = Len(L) + 1 /\ Len(L) \in Nat
         /\ \A i \in 1..Len(L) : (L \o <<s>>)[i] = L[i]
         /\ (L \o <<s>>)[Len(L) + 1] = s
  BY LenProperties, OneStep, ConcatProperties
-----------------------------------------------------------------------------
(* The pool.                                                               *)

LEMMA FiniteParts ==
  ASSUME NEW f
  PROVE  /\ \A k : IsFiniteSet(Of(f, k)) /\ Cardinality(Of(f, k)) \in Nat
         /\ \A n : IsFiniteSet(On(f, n)) /\ Cardinality(On(f, n)) \in Nat
  <1>1. \A k : Of(f, k) \subseteq Ports
    BY DEF Of
  <1>2. \A n : On(f, n) \subseteq Ports
    BY DEF On
  <1> QED
    BY <1>1, <1>2, Constants, FS_Subset, FS_CardinalityType

LEMMA PoolFields ==
  ASSUME NEW f \in Pools
  PROVE  /\ f.node \in [Keys -> Nodes \cup {None}] /\ f.count \in [Keys -> Nat]
         /\ f.call \in [Ports -> Keys \cup {None}] /\ f.endpoints \in [Nodes -> Nat]
         /\ f.entries \subseteq Keys
  BY DEF Pools

Less(n) == IF n = 0 THEN 0 ELSE n - 1

LEMMA ReleasedFields ==
  ASSUME NEW f \in Pools, NEW p \in Ports, f.call[p] # None
  PROVE  LET r == Released(f, p)
             k == f.call[p]
             n == NodeOf[p]
         IN  /\ k \in Keys /\ n \in Nodes
             /\ r.call = [f.call EXCEPT ![p] = None]
             /\ r.count = [f.count EXCEPT ![k] = Less(@)]
             /\ r.endpoints = [f.endpoints EXCEPT ![n] = @ - 1]
             /\ r.node = f.node /\ r.entries = f.entries
             /\ r = [node |-> r.node, count |-> r.count, entries |-> r.entries,
                     call |-> r.call, endpoints |-> r.endpoints]
  <1>1. p # None /\ f.call[p] \in Keys /\ NodeOf[p] \in Nodes
    BY Constants, PoolFields
  <1> DEFINE k == f.call[p]
             a == [f EXCEPT !.call[p] = None]
             b == [a EXCEPT !.endpoints[NodeOf[p]] = @ - 1]
             less == [b EXCEPT !.count[k] = Less(@)]
  <1>2. Released(f, p) = less
    BY <1>1 DEF Released, Known, Less
  <1>3. /\ a.node = f.node /\ a.count = f.count /\ a.entries = f.entries
        /\ a.call = [f.call EXCEPT ![p] = None] /\ a.endpoints = f.endpoints
        /\ a = [node |-> a.node, count |-> a.count, entries |-> a.entries,
                call |-> a.call, endpoints |-> a.endpoints]
    BY DEF Pools
  <1> HIDE DEF a
  <1>4. /\ b.node = a.node /\ b.count = a.count /\ b.entries = a.entries
        /\ b.call = a.call /\ b.endpoints = [a.endpoints EXCEPT ![NodeOf[p]] = @ - 1]
        /\ b = [node |-> b.node, count |-> b.count, entries |-> b.entries,
                call |-> b.call, endpoints |-> b.endpoints]
    BY <1>3
  <1> HIDE DEF b, k
  <1>5. /\ less.node = b.node /\ less.count = [b.count EXCEPT ![k] = Less(@)]
        /\ less.entries = b.entries /\ less.call = b.call /\ less.endpoints = b.endpoints
        /\ less = [node |-> less.node, count |-> less.count, entries |-> less.entries,
                   call |-> less.call, endpoints |-> less.endpoints]
    BY <1>4
  <1> HIDE DEF less
  <1> QED
    BY <1>1, <1>2, <1>3, <1>4, <1>5 DEF k

(* release_port: the books of the pool agree before and after, and a call  *)
(* keeps its affinity for the time being.                                  *)
LEMMA Releasing ==
  ASSUME NEW f, Covered(f), NEW p \in Ports \cup {None}, NEW r, r = Released(f, p)
  PROVE  /\ Covered(r)
         /\ \A x \in Ports : r.call[x] = IF x = p THEN None ELSE f.call[x]
         /\ \A k \in Keys : ExactFor(f, k) => ExactFor(r, k)
         /\ \A k \in Keys : WithinFor(f, k) => WithinFor(r, k)
         /\ \A n \in Nodes : ExactOn(f, n) => ExactOn(r, n)
         /\ r.node = f.node /\ r.entries = f.entries
         /\ \A k \in Keys : r.count[k] = IF p \in Ports /\ f.call[p] = k
                                         THEN Less(f.count[k]) ELSE f.count[k]
  <1>0. f \in Pools
    BY DEF Covered
  <1>1. CASE p = None
    BY <1>1, Constants DEF Released, Known
  <1>2. CASE p \in Ports /\ f.call[p] = None
    BY <1>2, <1>0, Constants, PoolFields DEF Released, Known, Covered
  <1>3. CASE p \in Ports /\ f.call[p] # None
    <2> DEFINE k == f.call[p]
               n == NodeOf[p]
    <2>1. /\ k \in Keys /\ n \in Nodes
          /\ r.call = [f.call EXCEPT ![p] = None]
          /\ r.count = [f.count EXCEPT ![k] = Less(@)]
          /\ r.endpoints = [f.endpoints EXCEPT ![n] = @ - 1]
          /\ r.node = f.node /\ r.entries = f.entries
          /\ r = [node |-> r.node, count |-> r.count, entries |-> r.entries,
                  call |-> r.call, endpoints |-> r.endpoints]
      BY <1>0, <1>3, ReleasedFields
    <2>2. Of(r, k) = Of(f, k) \ {p} /\ p \in Of(f, k)
          /\ \A j \in Keys : j # k => Of(r, j) = Of(f, j)
      BY <1>0, <1>3, <2>1, PoolFields, Constants DEF Of
    <2>3. On(r, n) = On(f, n) \ {p} /\ p \in On(f, n)
          /\ \A m \in Nodes : m # n => On(r, m) = On(f, m)
      BY <1>0, <1>3, <2>1, PoolFields, Constants DEF On
    <2>4. Cardinality(Of(r, k)) = Cardinality(Of(f, k)) - 1
      <3>1. IsFiniteSet(Of(f, k))
        BY FiniteParts
      <3> HIDE DEF k
      <3> QED
        BY <2>2, <3>1, FS_RemoveElement
    <2>5. Cardinality(On(r, n)) = Cardinality(On(f, n)) - 1
      <3>1. IsFiniteSet(On(f, n))
        BY FiniteParts
      <3> HIDE DEF n
      <3> QED
        BY <2>3, <3>1, FS_RemoveElement
    <2>6. /\ Cardinality(Of(f, k)) \in Nat /\ Cardinality(Of(r, k)) \in Nat
          /\ Cardinality(On(f, n)) \in Nat /\ Cardinality(On(r, n)) \in Nat
      BY FiniteParts
    <2>7. /\ Cardinality(On(f, n)) <= f.endpoints[n]
          /\ f.count[k] \in Nat /\ f.endpoints[n] \in Nat
      BY <1>0, <2>1, PoolFields DEF Covered
    <2>8. /\ r.count[k] = Less(f.count[k]) /\ \A j \in Keys : j # k => r.count[j] = f.count[j]
          /\ r.endpoints[n] = f.endpoints[n] - 1
          /\ \A m \in Nodes : m # n => r.endpoints[m] = f.endpoints[m]
      BY <1>0, <2>1, PoolFields
    <2>9. \A j \in Keys : f.count[j] \in Nat
      BY <1>0, PoolFields
    <2>10. \A m \in Nodes : f.endpoints[m] \in Nat
      BY <1>0, PoolFields
    <2>11. \A x \in Ports : r.call[x] = IF x = p THEN None ELSE f.call[x]
      BY <1>0, <1>3, <2>1, PoolFields
    <2>12. \A j \in Keys : r.count[j] = IF j = k THEN Less(f.count[j]) ELSE f.count[j]
      BY <2>1, <2>8
    <2> HIDE DEF k, n
    <2>13. \A j \in Keys : r.count[j] \in Nat
      BY <2>9, <2>12 DEF Less
    <2>14. \A m \in Nodes : r.endpoints[m] \in Nat
      BY <2>5, <2>6, <2>7, <2>8, <2>10
    <2>15. r \in Pools
      <3>1. r.count \in [Keys -> Nat]
        <4>1. r.count = [f.count EXCEPT ![k] = Less(@)] /\ f.count \in [Keys -> Nat]
          BY <1>0, <2>1, PoolFields
        <4> QED
          BY <2>13, <4>1
      <3>2. r.endpoints \in [Nodes -> Nat]
        <4>1. r.endpoints = [f.endpoints EXCEPT ![n] = @ - 1] /\ f.endpoints \in [Nodes -> Nat]
          BY <1>0, <2>1, PoolFields
        <4> QED
          BY <2>14, <4>1
      <3>3. r.call \in [Ports -> Keys \cup {None}]
        <4>1. r.call = [f.call EXCEPT ![p] = None] /\ f.call \in [Ports -> Keys \cup {None}]
          BY <1>0, <2>1, PoolFields
        <4> QED
          BY <4>1
      <3>4. r.node \in [Keys -> Nodes \cup {None}] /\ r.entries \in SUBSET Keys
        BY <1>0, <2>1, PoolFields
      <3> QED
        BY <2>1, <3>1, <3>2, <3>3, <3>4 DEF Pools
    <2>16. \A m \in Nodes : Cardinality(On(r, m)) <= r.endpoints[m]
      <3> SUFFICES ASSUME NEW m \in Nodes PROVE Cardinality(On(r, m)) <= r.endpoints[m]
        OBVIOUS
      <3>1. CASE m = n
        BY <2>5, <2>6, <2>7, <2>8, <3>1
      <3>2. CASE m # n
        BY <2>3, <2>8, <3>2 DEF Covered
      <3> QED
        BY <3>1, <3>2
    <2>17. \A j \in Keys \ r.entries : r.count[j] = 0
      BY <2>1, <2>12 DEF Covered, Less
    <2>18. \A j \in Keys : ExactFor(f, j) => ExactFor(r, j)
      <3> SUFFICES ASSUME NEW j \in Keys, ExactFor(f, j) PROVE ExactFor(r, j)
        OBVIOUS
      <3>1. CASE j = k
        <4>1. Cardinality(Of(f, k)) # 0
          <5>1. IsFiniteSet(Of(f, k)) /\ Of(f, k) # {}
            BY <2>2, FiniteParts
          <5> QED
            BY <5>1, FS_EmptySet
        <4> QED
          BY <2>4, <2>6, <2>8, <3>1, <4>1 DEF ExactFor, Less
      <3>2. CASE j # k
        BY <2>2, <2>8, <3>2 DEF ExactFor
      <3> QED
        BY <3>1, <3>2
    <2>19. \A j \in Keys : WithinFor(f, j) => WithinFor(r, j)
      <3> SUFFICES ASSUME NEW j \in Keys, WithinFor(f, j) PROVE WithinFor(r, j)
        OBVIOUS
      <3>1. CASE j = k
        BY <2>4, <2>6, <2>7, <2>8, <3>1 DEF WithinFor, Less
      <3>2. CASE j # k
        BY <2>2, <2>8, <3>2 DEF WithinFor
      <3> QED
        BY <3>1, <3>2
    <2>20. \A m \in Nodes : ExactOn(f, m) => ExactOn(r, m)
      BY <2>3, <2>5, <2>6, <2>7, <2>8 DEF ExactOn
    <2>21. \A j \in Keys : r.count[j] = IF p \in Ports /\ f.call[p] = j
                                        THEN Less(f.count[j]) ELSE f.count[j]
      BY <1>3, <2>12 DEF k
    <2> QED
      BY <2>1, <2>11, <2>15, <2>16, <2>17, <2>18, <2>19, <2>20, <2>21 DEF Covered
  <1> QED
    BY <1>1, <1>2, <1>3

(* What release_port has left to do: to forget the call it emptied.        *)
LEMMA ForgettingIs ==
  ASSUME NEW f, Covered(f), NEW p \in Ports \cup {None}
  PROVE  /\ Forgetting(f, p) \in Seq(Steps)
         /\ \A i \in 1..Len(Forgetting(f, p)) :
              LET s == Forgetting(f, p)[i] IN
                /\ s.what = "forget" /\ s.port = None /\ p \in Ports /\ s.why = f.call[p]
                /\ s.why \in f.entries /\ f.count[s.why] <= 1
         /\ p \in Ports /\ f.call[p] \in f.entries /\ f.count[f.call[p]] <= 1 =>
              /\ 1 \in 1..Len(Forgetting(f, p))
              /\ Forgetting(f, p)[1].what = "forget" /\ Forgetting(f, p)[1].why = f.call[p]
  <1>0. f.entries \subseteq Keys /\ None \notin Keys /\ None \notin Ports
    BY PoolFields, Constants DEF Covered
  <1> DEFINE st == Step("forget", f.call[p], None, None)
  <1>1. CASE Known(f, p) /\ f.call[p] \in f.entries /\ f.count[f.call[p]] <= 1
    <2>1. Forgetting(f, p) = <<st>>
      BY <1>1 DEF Forgetting
    <2>2. /\ st \in Steps /\ st.what = "forget" /\ st.why = f.call[p] /\ st.port = None
          /\ p \in Ports
      BY <1>0, <1>1, StepsMade DEF Known
    <2> HIDE DEF st
    <2>3. Len(<<st>>) = 1 /\ <<st>>[1] = st /\ <<st>> \in Seq(Steps)
      BY <2>2
    <2> DEFINE N == Forgetting(f, p)
    <2>4. Len(N) = 1 /\ N[1] = st /\ N \in Seq(Steps)
      BY <2>1, <2>3
    <2> HIDE DEF N
    <2>5. \A i \in 1..Len(N) : N[i] = st
      BY <2>4
    <2>6. 1 \in 1..Len(N)
      BY <2>4
    <2> QED
      BY <1>1, <2>2, <2>4, <2>5, <2>6 DEF N
  <1>2. CASE ~(Known(f, p) /\ f.call[p] \in f.entries /\ f.count[f.call[p]] <= 1)
    <2> DEFINE N == Forgetting(f, p)
    <2>1. N = <<>>
      BY <1>2 DEF Forgetting
    <2>2. N \in Seq(Steps) /\ Len(N) = 0
      BY <2>1
    <2>3. ~(p \in Ports /\ f.call[p] \in f.entries /\ f.count[f.call[p]] <= 1)
      BY <1>0, <1>2 DEF Known
    <2> HIDE DEF N
    <2>4. \A i \in 1..Len(N) : FALSE
      BY <2>2
    <2> QED
      BY <2>2, <2>3, <2>4 DEF N
  <1> QED
    BY <1>1, <1>2

(* record_allocation: the key that had the port before, and it alone, may  *)
(* be counted more often than it has ports.                                *)
LEMMA Recording ==
  ASSUME Covered(pool), NEW p \in Ports, NEW k \in Keys, NEW r, r = Recorded(p, k)
  PROVE  /\ Covered(r)
         /\ \A x \in Ports : r.call[x] = IF x = p THEN k ELSE pool.call[x]
         /\ r.node = pool.node /\ r.entries = pool.entries \cup {k}
         /\ r.count[k] = pool.count[k] + 1 /\ pool.count[k] \in Nat
         /\ \A j \in Keys : j # k => r.count[j] = pool.count[j]
         /\ \A j \in Keys : ExactFor(pool, j) /\ j # pool.call[p] => ExactFor(r, j)
         /\ \A j \in Keys : WithinFor(pool, j) /\ j # pool.call[p] => WithinFor(r, j)
         /\ pool.call[p] = None => \A n \in Nodes : ExactOn(pool, n) => ExactOn(r, n)
  <1> DEFINE n == NodeOf[p]
             f == pool
  <1>0. f \in Pools /\ n \in Nodes
    BY Constants DEF Covered
  <1>1. /\ r.call = [f.call EXCEPT ![p] = k]
        /\ r.count = [f.count EXCEPT ![k] = @ + 1]
        /\ r.endpoints = [f.endpoints EXCEPT ![n] = @ + 1]
        /\ r.node = f.node /\ r.entries = f.entries \cup {k}
        /\ r = [node |-> r.node, count |-> r.count, entries |-> r.entries,
                call |-> r.call, endpoints |-> r.endpoints]
    <2> DEFINE a == [f EXCEPT !.call[p] = k]
               b == [a EXCEPT !.count[k] = @ + 1]
               d == [b EXCEPT !.entries = @ \cup {k}]
               e == [d EXCEPT !.endpoints[n] = @ + 1]
    <2>1. r = e
      BY DEF Recorded
    <2>2. /\ a.node = f.node /\ a.count = f.count /\ a.entries = f.entries
          /\ a.call = [f.call EXCEPT ![p] = k] /\ a.endpoints = f.endpoints
          /\ a = [node |-> a.node, count |-> a.count, entries |-> a.entries,
                  call |-> a.call, endpoints |-> a.endpoints]
      BY <1>0 DEF Pools
    <2> HIDE DEF a, n, f
    <2>3. /\ b.node = a.node /\ b.count = [a.count EXCEPT ![k] = @ + 1]
          /\ b.entries = a.entries /\ b.call = a.call /\ b.endpoints = a.endpoints
          /\ b = [node |-> b.node, count |-> b.count, entries |-> b.entries,
                  call |-> b.call, endpoints |-> b.endpoints]
      BY <2>2
    <2> HIDE DEF b
    <2>4. /\ d.node = b.node /\ d.count = b.count /\ d.entries = b.entries \cup {k}
          /\ d.call = b.call /\ d.endpoints = b.endpoints
          /\ d = [node |-> d.node, count |-> d.count, entries |-> d.entries,
                  call |-> d.call, endpoints |-> d.endpoints]
      BY <2>3
    <2> HIDE DEF d
    <2>5. /\ e.node = d.node /\ e.count = d.count /\ e.entries = d.entries
          /\ e.call = d.call /\ e.endpoints = [d.endpoints EXCEPT ![n] = @ + 1]
          /\ e = [node |-> e.node, count |-> e.count, entries |-> e.entries,
                  call |-> e.call, endpoints |-> e.endpoints]
      BY <2>4
    <2> HIDE DEF e
    <2> QED
      BY <2>1, <2>2, <2>3, <2>4, <2>5
  <1>2. /\ r.count[k] = f.count[k] + 1 /\ \A j \in Keys : j # k => r.count[j] = f.count[j]
        /\ r.endpoints[n] = f.endpoints[n] + 1
        /\ \A m \in Nodes : m # n => r.endpoints[m] = f.endpoints[m]
        /\ \A j \in Keys : f.count[j] \in Nat
        /\ \A m \in Nodes : f.endpoints[m] \in Nat /\ Cardinality(On(f, m)) <= f.endpoints[m]
    BY <1>0, <1>1, PoolFields DEF Covered
  <1>3. \A x \in Ports : r.call[x] = IF x = p THEN k ELSE f.call[x]
    BY <1>0, <1>1, PoolFields
  <1>4. r \in Pools
    <2>1. r.count \in [Keys -> Nat] /\ r.endpoints \in [Nodes -> Nat]
      BY <1>0, <1>1, PoolFields
    <2>2. r.call \in [Ports -> Keys \cup {None}] /\ r.node \in [Keys -> Nodes \cup {None}]
          /\ r.entries \in SUBSET Keys
      BY <1>0, <1>1, PoolFields
    <2> QED
      BY <1>1, <2>1, <2>2 DEF Pools
  <1> HIDE DEF n, f
  <1>5. Of(r, k) = Of(f, k) \cup {p}
    BY <1>3 DEF Of
  <1>6. \A j \in Keys : j # k => Of(r, j) = Of(f, j) \ {p}
    BY <1>3 DEF Of
  <1>7. On(r, n) = On(f, n) \cup {p} /\ \A m \in Nodes : m # n => On(r, m) = On(f, m)
    BY <1>3, Constants DEF On, n
  <1>8. /\ \A j \in Keys : Cardinality(Of(r, j)) \in Nat /\ Cardinality(Of(f, j)) \in Nat
        /\ \A m \in Nodes : Cardinality(On(r, m)) \in Nat /\ Cardinality(On(f, m)) \in Nat
    BY FiniteParts
  <1>9. /\ Cardinality(Of(r, k)) <= Cardinality(Of(f, k)) + 1
        /\ f.call[p] # k => Cardinality(Of(r, k)) = Cardinality(Of(f, k)) + 1
    <2>1. p \in Of(f, k) <=> f.call[p] = k
      BY DEF Of
    <2>2. IsFiniteSet(Of(f, k))
      BY FiniteParts
    <2>3. Cardinality(Of(r, k)) = IF p \in Of(f, k) THEN Cardinality(Of(f, k))
                                  ELSE Cardinality(Of(f, k)) + 1
      BY <1>5, <2>2, FS_AddElement
    <2> QED
      BY <1>8, <2>1, <2>3
  <1>10. ASSUME NEW j \in Keys, j # k
         PROVE  /\ Cardinality(Of(r, j)) <= Cardinality(Of(f, j))
                /\ f.call[p] # j => Cardinality(Of(r, j)) = Cardinality(Of(f, j))
    <2>1. Of(r, j) \subseteq Of(f, j) /\ (f.call[p] # j => Of(r, j) = Of(f, j))
      BY <1>6, <1>10 DEF Of
    <2> QED
      BY <2>1, FiniteParts, FS_Subset
  <1>11. /\ Cardinality(On(r, n)) <= Cardinality(On(f, n)) + 1
         /\ f.call[p] = None => Cardinality(On(r, n)) = Cardinality(On(f, n)) + 1
    <2>1. f.call[p] = None => p \notin On(f, n)
      BY DEF On
    <2>2. IsFiniteSet(On(f, n))
      BY FiniteParts
    <2>3. Cardinality(On(r, n)) = IF p \in On(f, n) THEN Cardinality(On(f, n))
                                  ELSE Cardinality(On(f, n)) + 1
      BY <1>7, <2>2, FS_AddElement
    <2>4. Cardinality(On(f, n)) \in Nat
      BY FiniteParts
    <2> QED
      BY <2>1, <2>3, <2>4
  <1>12. \A j \in Keys \ r.entries : r.count[j] = 0
    <2>1. \A j \in Keys \ f.entries : f.count[j] = 0
      BY DEF Covered, f
    <2> QED
      BY <1>1, <1>2, <2>1
  <1>13. \A m \in Nodes : Cardinality(On(r, m)) <= r.endpoints[m]
    <2> SUFFICES ASSUME NEW m \in Nodes PROVE Cardinality(On(r, m)) <= r.endpoints[m]
      OBVIOUS
    <2>1. CASE m = n
      <3>1. Cardinality(On(f, n)) <= f.endpoints[n] /\ f.endpoints[n] \in Nat
        BY <1>0, <1>2
      <3>2. Cardinality(On(r, n)) \in Nat /\ Cardinality(On(f, n)) \in Nat
        BY <1>0, <1>8
      <3> QED
        BY <1>2, <1>11, <2>1, <3>1, <3>2
    <2>2. CASE m # n
      BY <1>2, <1>7, <2>2
    <2> QED
      BY <2>1, <2>2
  <1>14. \A j \in Keys : ExactFor(f, j) /\ j # f.call[p] => ExactFor(r, j)
    BY <1>2, <1>8, <1>9, <1>10 DEF ExactFor
  <1>15. f.call[p] = None => \A m \in Nodes : ExactOn(f, m) => ExactOn(r, m)
    BY <1>0, <1>2, <1>7, <1>8, <1>11 DEF ExactOn
  <1>16. \A j \in Keys : WithinFor(f, j) /\ j # f.call[p] => WithinFor(r, j)
    BY <1>2, <1>8, <1>9, <1>10 DEF WithinFor
  <1> QED
    BY <1>1, <1>2, <1>3, <1>4, <1>12, <1>13, <1>14, <1>15, <1>16 DEF Covered, f

(* A step that writes affinities alone.                                    *)
LEMMA Choosing ==
  ASSUME Covered(pool), NEW k \in Keys, NEW n \in Nodes \cup {None}, NEW r,
         r = [pool EXCEPT !.node[k] = n]
  PROVE  /\ Covered(r) /\ r.call = pool.call /\ r.count = pool.count
         /\ r.entries = pool.entries
         /\ r.node[k] = n /\ \A j \in Keys : j # k => r.node[j] = pool.node[j]
         /\ \A j \in Keys : ExactFor(pool, j) => ExactFor(r, j)
         /\ \A j \in Keys : WithinFor(pool, j) => WithinFor(r, j)
         /\ \A m \in Nodes : ExactOn(pool, m) => ExactOn(r, m)
  <1>1. /\ r.call = pool.call /\ r.count = pool.count /\ r.endpoints = pool.endpoints
        /\ r.entries = pool.entries /\ r.node = [pool.node EXCEPT ![k] = n]
        /\ r = [node |-> r.node, count |-> r.count, entries |-> r.entries,
                call |-> r.call, endpoints |-> r.endpoints]
    BY DEF Covered, Pools
  <1>2. \A j : Of(r, j) = Of(pool, j)
    BY <1>1 DEF Of
  <1>3. \A m : On(r, m) = On(pool, m)
    BY <1>1 DEF On
  <1>4. pool \in Pools
    BY DEF Covered
  <1>5. r \in Pools /\ r.node[k] = n /\ \A j \in Keys : j # k => r.node[j] = pool.node[j]
    BY <1>1, <1>4, PoolFields DEF Pools
  <1> QED
    BY <1>1, <1>2, <1>3, <1>5 DEF Covered, ExactFor, WithinFor, ExactOn

(* cancel_unallocated_call                                                 *)
LEMMA Cancelling ==
  ASSUME Covered(pool), NEW k \in Keys, NEW r, r = Cancelled(k)
  PROVE  /\ Covered(r) /\ r.call = pool.call /\ r.count = pool.count
         /\ r.entries = pool.entries
         /\ \A j \in Keys : j # k => r.node[j] = pool.node[j]
         /\ k \notin pool.entries => r.node[k] = None
         /\ k \in pool.entries => r.node[k] = pool.node[k]
         /\ \A j \in Keys : ExactFor(pool, j) => ExactFor(r, j)
         /\ \A j \in Keys : WithinFor(pool, j) => WithinFor(r, j)
         /\ \A m \in Nodes : ExactOn(pool, m) => ExactOn(r, m)
  <1>1. CASE k \notin pool.entries
    <2>1. r = [pool EXCEPT !.node[k] = None] /\ None \in Nodes \cup {None}
      BY <1>1 DEF Cancelled
    <2>2. /\ Covered(r) /\ r.call = pool.call /\ r.count = pool.count
          /\ r.entries = pool.entries
          /\ r.node[k] = None /\ \A j \in Keys : j # k => r.node[j] = pool.node[j]
          /\ \A j \in Keys : ExactFor(pool, j) => ExactFor(r, j)
          /\ \A j \in Keys : WithinFor(pool, j) => WithinFor(r, j)
          /\ \A m \in Nodes : ExactOn(pool, m) => ExactOn(r, m)
      BY <2>1, Choosing, Zenon
    <2> QED
      BY <1>1, <2>2
  <1>2. CASE k \in pool.entries
    BY <1>2 DEF Cancelled
  <1> QED
    BY <1>1, <1>2

(* The end of release_port: a count that is not 0 any more is lost.        *)
LEMMA ForgettingKeeps ==
  ASSUME Covered(pool), NEW k \in Keys, NEW r, r = Forgotten(k)
  PROVE  /\ Covered(r) /\ r.call = pool.call /\ r.entries = pool.entries \ {k}
         /\ r.count[k] = 0 /\ r.node[k] = None
         /\ \A j \in Keys : j # k => r.count[j] = pool.count[j] /\ r.node[j] = pool.node[j]
         /\ \A j \in Keys : ExactFor(pool, j) /\ (j = k => pool.count[k] = 0) => ExactFor(r, j)
         /\ \A j \in Keys : WithinFor(pool, j) => WithinFor(r, j)
         /\ \A m \in Nodes : ExactOn(pool, m) => ExactOn(r, m)
  <1>0. pool \in Pools
    BY DEF Covered
  <1>1. /\ r.call = pool.call /\ r.endpoints = pool.endpoints
        /\ r.count = [pool.count EXCEPT ![k] = 0]
        /\ r.entries = pool.entries \ {k} /\ r.node = [pool.node EXCEPT ![k] = None]
        /\ r = [node |-> r.node, count |-> r.count, entries |-> r.entries,
                call |-> r.call, endpoints |-> r.endpoints]
    <2> DEFINE a == [pool EXCEPT !.count[k] = 0]
               b == [a EXCEPT !.entries = @ \ {k}]
               d == [b EXCEPT !.node[k] = None]
    <2>1. r = d
      BY DEF Forgotten
    <2>2. /\ a.node = pool.node /\ a.count = [pool.count EXCEPT ![k] = 0]
          /\ a.entries = pool.entries /\ a.call = pool.call /\ a.endpoints = pool.endpoints
          /\ a = [node |-> a.node, count |-> a.count, entries |-> a.entries,
                  call |-> a.call, endpoints |-> a.endpoints]
      BY <1>0 DEF Pools
    <2> HIDE DEF a
    <2>3. /\ b.node = a.node /\ b.count = a.count /\ b.entries = a.entries \ {k}
          /\ b.call = a.call /\ b.endpoints = a.endpoints
          /\ b = [node |-> b.node, count |-> b.count, entries |-> b.entries,
                  call |-> b.call, endpoints |-> b.endpoints]
      BY <2>2
    <2> HIDE DEF b
    <2>4. /\ d.node = [b.node EXCEPT ![k] = None] /\ d.count = b.count
          /\ d.entries = b.entries /\ d.call = b.call /\ d.endpoints = b.endpoints
          /\ d = [node |-> d.node, count |-> d.count, entries |-> d.entries,
                  call |-> d.call, endpoints |-> d.endpoints]
      BY <2>3
    <2> HIDE DEF d
    <2> QED
      BY <2>1, <2>2, <2>3, <2>4
  <1>2. /\ r.count[k] = 0 /\ r.node[k] = None
        /\ \A j \in Keys : j # k => r.count[j] = pool.count[j] /\ r.node[j] = pool.node[j]
    BY <1>0, <1>1, PoolFields
  <1>3. r \in Pools
    <2>1. /\ r.count \in [Keys -> Nat] /\ r.node \in [Keys -> Nodes \cup {None}]
          /\ r.entries \in SUBSET Keys
      BY <1>0, <1>1, PoolFields
    <2>2. r.call \in [Ports -> Keys \cup {None}] /\ r.endpoints \in [Nodes -> Nat]
      BY <1>0, <1>1, PoolFields
    <2> QED
      BY <1>1, <2>1, <2>2 DEF Pools
  <1>4. \A j : Of(r, j) = Of(pool, j) /\ Cardinality(Of(pool, j)) \in Nat
    <2>1. \A j : Of(r, j) = Of(pool, j)
      BY <1>1 DEF Of
    <2> QED
      BY <2>1, FiniteParts
  <1>5. \A m : On(r, m) = On(pool, m)
    BY <1>1 DEF On
  <1>6. \A j \in Keys \ r.entries : r.count[j] = 0
    BY <1>1, <1>2 DEF Covered
  <1>7. Covered(r)
    BY <1>1, <1>3, <1>5, <1>6 DEF Covered
  <1>8. \A j \in Keys : WithinFor(pool, j) => WithinFor(r, j)
    BY <1>2, <1>4 DEF WithinFor
  <1>9. \A j \in Keys : ExactFor(pool, j) /\ (j = k => pool.count[k] = 0) => ExactFor(r, j)
    BY <1>2, <1>4 DEF ExactFor
  <1>10. \A m \in Nodes : ExactOn(pool, m) => ExactOn(r, m)
    BY <1>1, <1>5 DEF ExactOn
  <1> QED
    BY <1>1, <1>2, <1>7, <1>8, <1>9, <1>10
-----------------------------------------------------------------------------
(* The lists.                                                              *)

(* Nobody else's list changes.                                             *)
Others(c, who) ==
  \A d \in Calls, w \in Actors : d # c \/ w # who =>
    todo'[d][w] = todo[d][w] /\ Listed(d, w)' = Listed(d, w)

LEMMA OthersFrom ==
  ASSUME NEW c, NEW who,
         \A d \in Calls, w \in Actors : d # c \/ w # who => todo'[d][w] = todo[d][w]
  PROVE  Others(c, who)
  BY DEF Others, Listed

(* What is at the head of the list of a handler.                           *)
LEMMA HandlerHead ==
  ASSUME TypeOK, Orderly, NEW c \in Calls, NEW what, Next_(c, "handler", what)
  PROVE  LET s == Head(Handler(c))
         IN  /\ s \in Listed(c, "handler") /\ s \in Steps /\ s.what = what /\ Fits(c, s)
             /\ what = "choose" => Len(Handler(c)) = 1 /\ Asking(s)
             /\ what \in {"lease", "record", "rewrite"} => Len(Handler(c)) = 1 /\ Serving(s)
             /\ what = "remove" => Len(Handler(c)) = 1 /\ Removing(s)
             /\ what \in {"clear", "release", "forget"} => Cleaning(s)
  <1>1. Handler(c) \in Seq(Steps) /\ Handler(c) # <<>> /\ Head(Handler(c)).what = what
    BY ListOf DEF Next_, Idle, Handler, Actors
  <1>2. /\ Len(Handler(c)) \in Nat /\ Len(Handler(c)) >= 1
        /\ Head(Handler(c)) = Handler(c)[1] /\ Head(Handler(c)) \in Steps
    BY <1>1, NonEmpty
  <1>3. 1 \in 1..Len(Handler(c)) /\ Head(Handler(c)) \in Listed(c, "handler")
    BY <1>2 DEF Listed, Handler
  <1>4. HandlerList(Handler(c)) /\ Fits(c, Head(Handler(c)))
    BY <1>3 DEF Orderly, OrderlyFor
  <1>5. \/ Cleaning(Handler(c)[1])
        \/ 1 = Len(Handler(c)) /\ (Asking(Handler(c)[1]) \/ Removing(Handler(c)[1]))
        \/ Len(Handler(c)) = 1 /\ Serving(Handler(c)[1])
    BY <1>3, <1>4 DEF HandlerList
  <1> QED
    BY <1>1, <1>2, <1>3, <1>4, <1>5 DEF Cleaning, Asking, Serving, Removing

(* A clearing, releasing or forgetting step of either actor.               *)
LEMMA CleaningHead ==
  ASSUME TypeOK, Orderly, NEW c \in Calls, NEW who \in Actors,
         NEW what \in {"clear", "release", "forget"}, Next_(c, who, what)
  PROVE  LET s == Head(todo[c][who])
         IN  s \in Listed(c, who) /\ s \in Steps /\ s.what = what /\ Cleaning(s)
             /\ (what # "forget" => s.port \in Ports) /\ (what = "forget" => s.why \in Keys)
  <1>1. CASE who = "handler"
    BY <1>1, HandlerHead DEF Handler, Cleaning
  <1>2. CASE who = "ender"
    <2>1. todo[c][who] \in Seq(Steps) /\ todo[c][who] # <<>> /\ Head(todo[c][who]).what = what
      BY ListOf DEF Next_, Idle
    <2>2. /\ Len(todo[c][who]) \in Nat /\ Len(todo[c][who]) >= 1
          /\ Head(todo[c][who]) = todo[c][who][1] /\ Head(todo[c][who]) \in Steps
      BY <2>1, NonEmpty
    <2>3. Head(todo[c][who]) \in Listed(c, who)
      BY <2>2 DEF Listed
    <2>4. Cleaning(Head(todo[c][who]))
      BY <1>2, <2>3 DEF Orderly, OrderlyFor
    <2> QED
      BY <2>1, <2>2, <2>3, <2>4 DEF Cleaning
  <1> QED
    BY <1>1, <1>2 DEF Actors

(* The handler has done its last step.                                     *)
LEMMA HandlerEnds ==
  ASSUME TypeOK, Orderly, NEW c \in Calls,
         NEW what \in {"choose", "lease", "record", "rewrite", "remove"},
         Next_(c, "handler", what), Then(c, "handler", <<>>)
  PROVE  /\ todo' \in [Calls -> [Actors -> Seq(Steps)]] /\ Others(c, "handler")
         /\ Handler(c)' = <<>> /\ Listed(c, "handler")' = {}
         /\ Listed(c, "handler") = {Head(Handler(c))}
  <1>1. Len(Handler(c)) = 1
    BY HandlerHead
  <1>2. Handler(c) \in Seq(Steps) /\ Handler(c) # <<>>
    BY ListOf DEF Next_, Idle, Handler, Actors
  <1>3. Tail(Handler(c)) = <<>> /\ Head(Handler(c)) = Handler(c)[1]
    <2>1. Tail(Handler(c)) \in Seq(Steps) /\ Len(Tail(Handler(c))) = 0
      BY <1>1, <1>2, NonEmpty
    <2> QED
      BY <1>1, <1>2, <2>1, NonEmpty, EmptySeq
  <1>4. /\ todo' \in [Calls -> [Actors -> Seq(Steps)]]
        /\ todo'[c]["handler"] = Tail(Handler(c))
        /\ \A d \in Calls, w \in Actors : d # c \/ w # "handler" => todo'[d][w] = todo[d][w]
    BY Dropped DEF Handler, Actors
  <1>5. Handler(c)' = <<>> /\ Listed(c, "handler")' = {}
    BY <1>3, <1>4 DEF Handler, Listed
  <1>6. Listed(c, "handler") = {Head(Handler(c))}
    BY <1>1, <1>3 DEF Handler, Listed
  <1> QED
    BY <1>4, <1>5, <1>6, OthersFrom

(* The handler goes on to the next step of serving a message.              *)
LEMMA HandlerGoesOn ==
  ASSUME TypeOK, Orderly, NEW c \in Calls,
         NEW what \in {"choose", "lease", "record", "rewrite"}, NEW s \in Steps,
         Next_(c, "handler", what), Then(c, "handler", <<s>>)
  PROVE  /\ todo' \in [Calls -> [Actors -> Seq(Steps)]] /\ Others(c, "handler")
         /\ Len(Handler(c)') = 1 /\ Handler(c)'[1] = s /\ Listed(c, "handler")' = {s}
         /\ Listed(c, "handler") = {Head(Handler(c))}
  <1>1. Len(Handler(c)) = 1
    BY HandlerHead
  <1>2. Handler(c) \in Seq(Steps) /\ Handler(c) # <<>>
    BY ListOf DEF Next_, Idle, Handler, Actors
  <1>3. Head(Handler(c)) = Handler(c)[1]
    BY <1>2, NonEmpty
  <1>4. /\ todo' \in [Calls -> [Actors -> Seq(Steps)]]
        /\ Len(todo'[c]["handler"]) = Len(Handler(c)) /\ todo'[c]["handler"][1] = s
        /\ \A d \in Calls, w \in Actors : d # c \/ w # "handler" => todo'[d][w] = todo[d][w]
    BY Swapped DEF Handler, Actors
  <1>5. Len(Handler(c)') = 1 /\ Handler(c)'[1] = s /\ Listed(c, "handler")' = {s}
    BY <1>1, <1>4 DEF Handler, Listed
  <1>6. Listed(c, "handler") = {Head(Handler(c))}
    BY <1>1, <1>3 DEF Handler, Listed
  <1> QED
    BY <1>4, <1>5, <1>6, OthersFrom

(* Either actor has cleared or released a port, or forgotten a call.       *)
LEMMA CleanerEnds ==
  ASSUME TypeOK, Orderly, NEW c \in Calls, NEW who \in Actors,
         NEW what \in {"clear", "release", "forget"}, Next_(c, who, what), Then(c, who, <<>>)
  PROVE  /\ todo' \in [Calls -> [Actors -> Seq(Steps)]] /\ Others(c, who)
         /\ Listed(c, who)' \subseteq Listed(c, who)
         /\ Listed(c, who) \subseteq Listed(c, who)' \cup {Head(todo[c][who])}
         /\ todo'[c][who] # <<>> => todo[c][who] # <<>>
         /\ HandlerList(Handler(c)')
  <1>1. /\ todo' \in [Calls -> [Actors -> Seq(Steps)]]
        /\ todo'[c][who] = Tail(todo[c][who])
        /\ \A d \in Calls, w \in Actors : d # c \/ w # who => todo'[d][w] = todo[d][w]
        /\ Listed(c, who)' \subseteq Listed(c, who)
        /\ Listed(c, who) \subseteq Listed(c, who)' \cup {Head(todo[c][who])}
    BY Dropped
  <1>2. Others(c, who) /\ todo[c][who] # <<>>
    BY <1>1, OthersFrom DEF Next_, Idle
  <1>3. HandlerList(Handler(c))
    BY DEF Orderly, OrderlyFor
  <1>4. CASE who = "ender"
    <2>1. Handler(c)' = Handler(c)
      BY <1>1, <1>4 DEF Handler, Actors
    <2> QED
      BY <1>1, <1>2, <1>3, <2>1
  <1>5. CASE who = "handler"
    <2> DEFINE L == Handler(c)
    <2>1. Handler(c)' = Tail(L) /\ L \in Seq(Steps) /\ L # <<>>
      BY <1>1, <1>2, <1>5, ListOf DEF Handler
    <2>2. /\ Len(L) \in Nat /\ Len(L) >= 1 /\ Len(Tail(L)) = Len(L) - 1
          /\ \A i \in 1..Len(Tail(L)) : Tail(L)[i] = L[i + 1]
      BY <2>1, NonEmpty
    <2>3. ASSUME NEW i \in 1..Len(Tail(L))
          PROVE  \/ Cleaning(Tail(L)[i])
                 \/ i = Len(Tail(L)) /\ (Asking(Tail(L)[i]) \/ Removing(Tail(L)[i]))
      <3>1. i + 1 \in 1..Len(L) /\ Tail(L)[i] = L[i + 1] /\ Len(L) # 1
        BY <2>2
      <3> DEFINE j == i + 1
      <3>2. HandlerList(L) /\ j \in 1..Len(L)
        BY <1>3, <3>1
      <3> HIDE DEF L, j
      <3>3. Cleaning(L[j]) \/ (j = Len(L) /\ (Asking(L[j]) \/ Removing(L[j])))
        BY <3>1, <3>2 DEF HandlerList
      <3> USE DEF j
      <3> QED
        BY <2>2, <3>1, <3>3
    <2>4. HandlerList(Handler(c)')
      BY <2>1, <2>3 DEF HandlerList
    <2> QED
      BY <1>1, <1>2, <2>4
  <1> QED
    BY <1>4, <1>5 DEF Actors

(* Either actor has cleared a port of a media-edge, and will release it.   *)
LEMMA CleanerGoesOn ==
  ASSUME TypeOK, Orderly, NEW c \in Calls, NEW who \in Actors,
         NEW s \in Steps, Cleaning(s), Next_(c, who, "clear"), Then(c, who, <<s>>)
  PROVE  /\ todo' \in [Calls -> [Actors -> Seq(Steps)]] /\ Others(c, who)
         /\ s \in Listed(c, who)' /\ Listed(c, who)' \subseteq Listed(c, who) \cup {s}
         /\ Listed(c, who) \subseteq Listed(c, who)' \cup {Head(todo[c][who])}
         /\ todo[c][who] # <<>>
         /\ HandlerList(Handler(c)')
  <1>1. /\ todo' \in [Calls -> [Actors -> Seq(Steps)]]
        /\ Len(todo'[c][who]) = Len(todo[c][who]) /\ todo'[c][who][1] = s
        /\ \A i \in 2..Len(todo[c][who]) : todo'[c][who][i] = todo[c][who][i]
        /\ \A d \in Calls, w \in Actors : d # c \/ w # who => todo'[d][w] = todo[d][w]
        /\ s \in Listed(c, who)'
        /\ Listed(c, who)' \subseteq Listed(c, who) \cup {s}
        /\ Listed(c, who) \subseteq Listed(c, who)' \cup {Head(todo[c][who])}
    BY Swapped
  <1>2. Others(c, who) /\ todo[c][who] # <<>>
    BY <1>1, OthersFrom DEF Next_, Idle
  <1>3. HandlerList(Handler(c))
    BY DEF Orderly, OrderlyFor
  <1>4. CASE who = "ender"
    <2>1. Handler(c)' = Handler(c)
      BY <1>1, <1>4 DEF Handler, Actors
    <2> QED
      BY <1>1, <1>2, <1>3, <2>1
  <1>5. CASE who = "handler"
    <2> DEFINE L == Handler(c)
               M == Handler(c)'
    <2>1. /\ Len(M) = Len(L) /\ M[1] = s /\ \A i \in 2..Len(L) : M[i] = L[i]
          /\ Len(L) \in Nat
      BY <1>1, <1>5, ListOf DEF Handler
    <2>2. ASSUME NEW i \in 1..Len(M)
          PROVE  \/ Cleaning(M[i])
                 \/ i = Len(M) /\ (Asking(M[i]) \/ Removing(M[i]))
                 \/ Len(M) = 1 /\ Serving(M[i])
      <3>1. CASE i = 1
        BY <2>1, <3>1
      <3>2. CASE i # 1
        <4>1. i \in 2..Len(L) /\ i \in 1..Len(L)
          BY <2>1, <3>2
        <4> QED
          BY <1>3, <2>1, <4>1 DEF HandlerList
      <3> QED
        BY <3>1, <3>2
    <2>3. HandlerList(M)
      BY <2>2 DEF HandlerList
    <2> QED
      BY <1>1, <1>2, <2>3
  <1> QED
    BY <1>4, <1>5 DEF Actors

(* Either actor has released a port, and has calls left to forget.         *)
LEMMA CleanerForgets ==
  ASSUME TypeOK, Orderly, NEW c \in Calls, NEW who \in Actors,
         NEW what \in {"clear", "release"}, NEW N \in Seq(Steps),
         \A i \in 1..Len(N) : Cleaning(N[i]), Next_(c, who, what), Then(c, who, N)
  PROVE  /\ todo' \in [Calls -> [Actors -> Seq(Steps)]] /\ Others(c, who)
         /\ \A i \in 1..Len(N) : N[i] \in Listed(c, who)'
         /\ \A s \in Listed(c, who)' :
              s \in Listed(c, who) \/ \E i \in 1..Len(N) : s = N[i]
         /\ Listed(c, who) \subseteq Listed(c, who)' \cup {Head(todo[c][who])}
         /\ todo[c][who] # <<>>
         /\ HandlerList(Handler(c)')
  <1> DEFINE L == todo[c][who]
             M == todo'[c][who]
  <1>1. /\ todo' \in [Calls -> [Actors -> Seq(Steps)]]
        /\ Len(L) \in Nat /\ Len(L) >= 1 /\ Len(N) \in Nat
        /\ Len(M) = Len(N) + Len(L) - 1
        /\ \A i \in 1..Len(N) : M[i] = N[i]
        /\ \A i \in 1..Len(M) : i > Len(N) => M[i] = L[i - Len(N) + 1]
        /\ \A d \in Calls, w \in Actors : d # c \/ w # who => todo'[d][w] = todo[d][w]
        /\ \A i \in 1..Len(N) : N[i] \in Listed(c, who)'
        /\ \A s \in Listed(c, who)' :
             s \in Listed(c, who) \/ \E i \in 1..Len(N) : s = N[i]
        /\ Listed(c, who) \subseteq Listed(c, who)' \cup {Head(L)}
    BY Replaced
  <1>2. Others(c, who) /\ todo[c][who] # <<>>
    BY <1>1, OthersFrom DEF Next_, Idle
  <1>3. HandlerList(Handler(c))
    BY DEF Orderly, OrderlyFor
  <1>4. CASE who = "ender"
    <2>1. Handler(c)' = Handler(c)
      BY <1>1, <1>4 DEF Handler, Actors
    <2> QED
      BY <1>1, <1>2, <1>3, <2>1
  <1>5. CASE who = "handler"
    <2>0. L = Handler(c) /\ M = Handler(c)' /\ Cleaning(L[1])
      <3>1. L = Handler(c) /\ M = Handler(c)'
        BY <1>5 DEF Handler
      <3>2. Cleaning(Head(L))
        BY CleaningHead
      <3>3. Head(L) = L[1]
        BY <1>2, ListOf, NonEmpty
      <3> QED
        BY <3>1, <3>2, <3>3, Zenon
    <2> HIDE DEF L, M
    <2>1. ASSUME NEW i \in 1..Len(M)
          PROVE  \/ Cleaning(M[i])
                 \/ i = Len(M) /\ (Asking(M[i]) \/ Removing(M[i]))
      <3>1. CASE i <= Len(N)
        <4>1. i \in 1..Len(N)
          BY <1>1, <3>1
        <4> QED
          BY <1>1, <4>1
      <3>2. CASE ~(i <= Len(N))
        <4> DEFINE j == i - Len(N) + 1
        <4>1. /\ j \in 1..Len(L) /\ M[i] = L[j] /\ j # 1
              /\ (i = Len(M) <=> j = Len(L))
          BY <1>1, <3>2
        <4> HIDE DEF j
        <4>2. \/ Cleaning(L[j])
              \/ j = Len(L) /\ (Asking(L[j]) \/ Removing(L[j]))
              \/ Len(L) = 1 /\ Serving(L[j])
          BY <1>3, <2>0, <4>1 DEF HandlerList
        <4>3. Len(L) # 1
          BY <1>1, <4>1
        <4> QED
          BY <4>1, <4>2, <4>3
      <3> QED
        BY <3>1, <3>2
    <2>2. HandlerList(M)
      BY <2>1 DEF HandlerList
    <2> QED
      BY <1>1, <1>2, <2>0, <2>2 DEF L, M
  <1> QED
    BY <1>4, <1>5 DEF Actors
-----------------------------------------------------------------------------
(* The steps, one by one.  HandlerStep is what the message of c does, and  *)
(* CleanerStep what either actor does to clear and release a port.         *)
HandlerStep(c) ==
  \/ Invite(c) \/ InviteWithoutSdp(c) \/ Answer(c) \/ LateAnswer(c) \/ Failover(c) \/ Failure(c)
  \/ Teardown(c) \/ Remove(c)
  \/ Choose(c) \/ Lease(c) \/ LeaseFails(c) \/ LeaseLost(c) \/ Record(c)
  \/ RewriteFails(c) \/ Rewrite(c) \/ RewriteWithoutEndpoint(c)

CleanerStep(c, who) ==
  \/ ClearHere(c, who) \/ ClearThere(c, who) \/ ClearLost(c, who) \/ Release(c, who)
  \/ Forget(c, who)

LEMMA NextIs ==
  Next <=> \E c \in Calls : HandlerStep(c) \/ \E who \in Actors : CleanerStep(c, who)
  BY DEF Next, HandlerStep, CleanerStep

-----------------------------------------------------------------------------
(* The books of the pool.                                                  *)

(* The key of a message.                                                   *)
LEMMA KeyType ==
  ASSUME NEW c \in Calls, NEW why
  PROVE  KeyOf(c, why) \in Keys /\ (why # "stray" => KeyOf(c, why) = c)
         /\ (why = "stray" => KeyOf(c, why) = Stray)
  BY Constants DEF KeyOf

(* A session that is gone does not come back.                              *)
GoneStay == \A d \in Calls : session[d].at = "gone" => session'[d].at = "gone"

LEMMA GoneStays ==
  ASSUME TypeOK, Orderly, Next
  PROVE  GoneStay
  <1>0. session \in [Calls -> [at : {"new", "refused", "up", "gone"},
                              gateway : Ports \cup {None}, caller : Ports \cup {None}]]
    BY DEF TypeOK
  <1>1. PICK c \in Calls : HandlerStep(c) \/ \E who \in Actors : CleanerStep(c, who)
    BY NextIs
  <1>2. CASE UNCHANGED session
    BY <1>2 DEF GoneStay
  <1>3. CASE InviteWithoutSdp(c)
    BY <1>0, <1>3 DEF InviteWithoutSdp, GoneStay
  <1>4. CASE Teardown(c) \/ Remove(c)
    BY <1>0, <1>4 DEF Teardown, Remove, Gone, GoneStay
  <1>5. ASSUME NEW what \in {"choose", "lease", "rewrite"}, Next_(c, "handler", what),
               Unserved(c, Head(Handler(c)).why)
        PROVE  GoneStay
    <2>1. Head(Handler(c)).why = "offer" => session[c].at = "new"
      BY <1>5, HandlerHead DEF Fits
    <2> QED
      BY <1>0, <1>5, <2>1 DEF Unserved, GoneStay
  <1>6. CASE Choose(c) \/ LeaseFails(c) \/ LeaseLost(c) \/ RewriteFails(c)
    BY <1>2, <1>5, <1>6 DEF Choose, LeaseFails, LeaseLost, RewriteFails, Handler
  <1>7. CASE Rewrite(c)
    <2> DEFINE s == Head(Handler(c))
    <2>1. s.why = "offer" => session[c].at = "new"
      BY <1>7, HandlerHead DEF Fits, Rewrite, Serving, Asking
    <2>2. CASE ~(s.why = "offer" \/ (s.why # "stray" /\ session[c].at = "up"))
      BY <1>2, <1>7, <2>2 DEF Rewrite, Handler
    <2>3. CASE s.why = "offer" \/ (s.why # "stray" /\ session[c].at = "up")
      <3>1. session[c].at # "gone"
        BY <2>1, <2>3
      <3>2. \A d \in Calls : d # c => session'[d] = session[d]
        BY <1>0, <1>7 DEF Rewrite
      <3> QED
        BY <3>1, <3>2 DEF GoneStay
    <2> QED
      BY <2>2, <2>3
  <1>8. CASE Invite(c) \/ Answer(c) \/ LateAnswer(c) \/ Failover(c) \/ Failure(c) \/ Lease(c)
             \/ Record(c) \/ RewriteWithoutEndpoint(c)
    BY <1>2, <1>8 DEF Invite, Answer, LateAnswer, Failover, Failure, Lease, Record,
                      RewriteWithoutEndpoint
  <1>9. ASSUME NEW who \in Actors, CleanerStep(c, who) PROVE GoneStay
    BY <1>2, <1>9 DEF CleanerStep, ClearHere, ClearThere, ClearLost, Release, Forget
  <1> QED
    BY <1>1, <1>3, <1>4, <1>6, <1>7, <1>8, <1>9 DEF HandlerStep

LEMMA YoungWas ==
  ASSUME GoneStay, victims \subseteq victims', NEW c \in Calls, Young(c)'
  PROVE  Young(c)
  BY DEF GoneStay, Young

LEMMA BooksKept ==
  ASSUME Books, GoneStay, pool' = pool, victims \subseteq victims'
  PROVE  Books'
  BY YoungWas DEF Books

(* A pool whose books are those of the old one, exact where those were.    *)
Kept(f, r) ==
  /\ Covered(r)
  /\ \A k \in Keys : ExactFor(f, k) => ExactFor(r, k)
  /\ \A k \in Keys : WithinFor(f, k) => WithinFor(r, k)
  /\ \A n \in Nodes : ExactOn(f, n) => ExactOn(r, n)

LEMMA BooksMoved ==
  ASSUME Books, GoneStay, victims \subseteq victims', Kept(pool, pool')
  PROVE  Books'
  BY YoungWas, Constants DEF Books, Kept

(* What Releasing says, as one fact.                                       *)
Freed(f, p, r) ==
  /\ Kept(f, r)
  /\ \A x \in Ports : r.call[x] = IF x = p THEN None ELSE f.call[x]
  /\ r.node = f.node /\ r.entries = f.entries
  /\ \A k \in Keys : r.count[k] = IF p \in Ports /\ f.call[p] = k
                                  THEN Less(f.count[k]) ELSE f.count[k]

LEMMA ReleasingFrees ==
  ASSUME NEW f, Covered(f), NEW p \in Ports \cup {None}
  PROVE  Freed(f, p, Released(f, p))
  <1> DEFINE r == Released(f, p)
  <1>1. r = Released(f, p)
    OBVIOUS
  <1> HIDE DEF r
  <1>2. Freed(f, p, r)
    BY <1>1, Releasing DEF Freed, Kept
  <1> QED
    BY <1>2 DEF r

(* The whole of clear_target for two ports.                                *)
LEMMA ReleasingTwo ==
  ASSUME Books, NEW p \in Ports, NEW q \in Ports \cup {None}, NEW r,
         r = Released(Released(pool, p), q)
  PROVE  /\ Kept(pool, r)
         /\ \A x \in Ports : r.call[x] = IF x \in {p, q} THEN None ELSE pool.call[x]
         /\ r.node = pool.node /\ r.entries = pool.entries
         /\ Covered(pool) /\ Freed(pool, p, Released(pool, p))
         /\ Freed(Released(pool, p), q, r)
  <1> DEFINE m == Released(pool, p)
  <1>1. Covered(pool) /\ p \in Ports \cup {None}
    BY DEF Books
  <1>2. Freed(pool, p, m)
    BY <1>1, ReleasingFrees
  <1> HIDE DEF m
  <1>3. Covered(m)
    BY <1>2 DEF Freed, Kept
  <1>4. Freed(m, q, Released(m, q)) /\ r = Released(m, q)
    BY <1>3, ReleasingFrees DEF m
  <1>5. Freed(m, q, r)
    BY <1>4, Zenon
  <1>6. Kept(pool, r)
    BY <1>2, <1>5 DEF Freed, Kept
  <1>7. \A x \in Ports : r.call[x] = IF x \in {p, q} THEN None ELSE pool.call[x]
    BY <1>2, <1>5 DEF Freed
  <1>8. r.node = pool.node /\ r.entries = pool.entries
    BY <1>2, <1>5 DEF Freed
  <1> QED
    BY <1>1, <1>2, <1>5, <1>6, <1>7, <1>8 DEF m

(* A call that is young has a count while it has a port.                   *)
LEMMA CountedIsPositive ==
  ASSUME NEW f, NEW k \in Keys, ExactFor(f, k), NEW p \in Ports, f.call[p] = k
  PROVE  f.count[k] # 0
  <1>1. p \in Of(f, k) /\ IsFiniteSet(Of(f, k)) /\ Cardinality(Of(f, k)) \in Nat
    BY FiniteParts DEF Of
  <1>2. Cardinality(Of(f, k)) # 0
    BY <1>1, FS_EmptySet
  <1> QED
    BY <1>1, <1>2 DEF ExactFor

LEMMA BooksStep ==
  ASSUME TypeOK, Orderly, Books, LocalPairs, Emptied, Next
  PROVE  Books'
  <1>0. GoneStay
    BY GoneStays
  <1>1. PICK c \in Calls : HandlerStep(c) \/ \E who \in Actors : CleanerStep(c, who)
    BY NextIs
  <1>2. CASE Invite(c) \/ InviteWithoutSdp(c) \/ Answer(c) \/ LateAnswer(c) \/ Failover(c)
             \/ Failure(c) \/ Remove(c) \/ RewriteFails(c) \/ RewriteWithoutEndpoint(c)
    BY <1>0, <1>2, BooksKept DEF Invite, InviteWithoutSdp, Answer, LateAnswer, Failover, Failure,
                                 Remove, RewriteFails, RewriteWithoutEndpoint, marks
  <1>3. CASE Teardown(c)
    <2>1. victims' = victims
      BY <1>3 DEF Teardown
    <2>2. CASE UNCHANGED pool
      BY <1>0, <2>1, <2>2, BooksKept
    <2>3. CASE \E n \in NodesFor(c) : pool' = [pool EXCEPT !.node[c] = n]
      <3>1. PICK n \in NodesFor(c) : pool' = [pool EXCEPT !.node[c] = n]
        BY <2>3
      <3>2. n \in Nodes \cup {None} /\ c \in Keys /\ Covered(pool)
        BY <3>1, Constants, PoolFields DEF NodesFor, Books, Covered
      <3>3. Kept(pool, pool')
        BY <3>1, <3>2, Choosing, Zenon DEF Kept
      <3> QED
        BY <1>0, <2>1, <3>3, BooksMoved
    <2> QED
      BY <1>3, <2>2, <2>3 DEF Teardown
  <1>4. CASE Choose(c)
    <2> DEFINE k == KeyOf(c, Head(Handler(c)).why)
    <2>1. victims' = victims /\ k \in Keys
      BY <1>4, KeyType DEF Choose, marks
    <2>2. CASE UNCHANGED pool
      BY <1>0, <2>1, <2>2, BooksKept
    <2>3. CASE \E n \in NodesFor(k) : pool' = [pool EXCEPT !.node[k] = n]
      <3>1. PICK n \in NodesFor(k) : pool' = [pool EXCEPT !.node[k] = n]
        BY <2>3
      <3>2. n \in Nodes \cup {None} /\ k \in Keys /\ Covered(pool)
        BY <2>1, <3>1, Constants, PoolFields DEF NodesFor, Books, Covered
      <3> HIDE DEF k
      <3>3. Kept(pool, pool')
        BY <3>1, <3>2, Choosing, Zenon DEF Kept
      <3> QED
        BY <1>0, <2>1, <3>3, BooksMoved
    <2> QED
      BY <1>4, <2>2, <2>3 DEF Choose, Handler
  <1>5. CASE Lease(c)
    BY <1>0, <1>5, BooksKept DEF Lease
  <1>6. CASE LeaseFails(c) \/ LeaseLost(c)
    <2> DEFINE k == KeyOf(c, Head(Handler(c)).why)
    <2>1. victims' = victims /\ k \in Keys /\ pool' = Cancelled(k)
      BY <1>6, KeyType DEF LeaseFails, LeaseLost, marks, Handler
    <2> HIDE DEF k
    <2>2. Kept(pool, pool')
      BY <2>1, Cancelling DEF Books, Kept
    <2> QED
      BY <1>0, <2>1, <2>2, BooksMoved
  <1>7. CASE Record(c)
    <2> DEFINE s == Head(Handler(c))
               k == KeyOf(c, s.why)
    <2>1. s.port \in Ports /\ k \in Keys
      BY <1>7, HandlerHead, KeyType DEF Record, Serving
    <2>2. pool' = Recorded(s.port, k) /\ victims' = victims \cup ({pool.call[s.port]} \ {None})
      BY <1>7 DEF Record, Handler
    <2> HIDE DEF s, k
    <2>3. /\ Covered(pool')
          /\ \A j \in Keys : ExactFor(pool, j) /\ j # pool.call[s.port] => ExactFor(pool', j)
          /\ \A j \in Keys : WithinFor(pool, j) /\ j # pool.call[s.port] => WithinFor(pool', j)
          /\ pool.call[s.port] = None => \A n \in Nodes : ExactOn(pool, n) => ExactOn(pool', n)
      BY <2>1, <2>2, Recording DEF Books
    <2>4. \A j \in Keys \ victims' : j \notin victims /\ j # pool.call[s.port]
      BY <2>2, Constants
    <2>5. victims' = {} => pool.call[s.port] = None /\ victims = {}
      BY <2>2
    <2>6. \A d \in Calls : Young(d)' => Young(d) /\ d \in Keys \ victims'
      BY <1>0, <2>2, YoungWas, Constants DEF Young
    <2> QED
      BY <2>3, <2>4, <2>5, <2>6 DEF Books
  <1>8. CASE Rewrite(c)
    <2>1. pool' = pool
      BY <1>8 DEF Rewrite
    <2>2. victims \subseteq victims'
      BY <1>8 DEF Rewrite, Pair
    <2> QED
      BY <1>0, <2>1, <2>2, BooksKept
  <1>9. ASSUME NEW who \in Actors, ClearHere(c, who) PROVE Books'
    <2> DEFINE p == Head(todo[c][who]).port
    <2>1. p \in Ports /\ peers[p] \in Ports \cup {None}
      BY <1>9, CleaningHead DEF ClearHere, TypeOK
    <2>2. pool' = Released(Released(pool, p), peers[p]) /\ victims \subseteq victims'
      BY <1>9 DEF ClearHere
    <2> HIDE DEF p
    <2>3. Kept(pool, pool')
      BY <2>1, <2>2, ReleasingTwo
    <2> QED
      BY <1>0, <2>2, <2>3, BooksMoved
  <1>10. ASSUME NEW who \in Actors, ClearThere(c, who) \/ ClearLost(c, who) PROVE Books'
    BY <1>0, <1>10, BooksKept DEF ClearThere, ClearLost
  <1>11. ASSUME NEW who \in Actors, Release(c, who) PROVE Books'
    <2> DEFINE p == Head(todo[c][who]).port
    <2>1. p \in Ports \cup {None}
      BY <1>11, CleaningHead DEF Release
    <2>2. pool' = Released(pool, p) /\ victims \subseteq victims'
      BY <1>11 DEF Release
    <2> HIDE DEF p
    <2>3. Kept(pool, pool')
      BY <2>1, <2>2, ReleasingFrees DEF Books, Freed
    <2> QED
      BY <1>0, <2>2, <2>3, BooksMoved
  <1>12. ASSUME NEW who \in Actors, Forget(c, who) PROVE Books'
    <2> DEFINE s == Head(todo[c][who])
               k == s.why
    <2>1. k \in Keys /\ s \in Listed(c, who) /\ s.what = "forget"
      BY <1>12, CleaningHead DEF Forget
    <2>2. pool' = Forgotten(k) /\ victims' = victims
      BY <1>12 DEF Forget, marks
    <2>3. k \in Calls /\ Young(k) => pool.count[k] = 0
      BY <2>1 DEF Emptied, Forgets
    <2> HIDE DEF s, k
    <2>4. /\ Covered(pool')
          /\ \A j \in Keys : ExactFor(pool, j) /\ (j = k => pool.count[k] = 0) => ExactFor(pool', j)
          /\ \A j \in Keys : WithinFor(pool, j) => WithinFor(pool', j)
          /\ \A n \in Nodes : ExactOn(pool, n) => ExactOn(pool', n)
      BY <2>1, <2>2, ForgettingKeeps DEF Books
    <2>5. \A d \in Calls : Young(d)' => Young(d) /\ d \in Keys
      BY <1>0, <2>2, YoungWas, Constants
    <2> QED
      BY <2>2, <2>3, <2>4, <2>5 DEF Books
  <1> QED
    BY <1>1, <1>2, <1>3, <1>4, <1>5, <1>6, <1>7, <1>8, <1>9, <1>10, <1>11, <1>12
       DEF HandlerStep, CleanerStep
-----------------------------------------------------------------------------
(* Types, and the order of the lists.                                      *)

LEMMA SessionFields ==
  ASSUME TypeOK, NEW c \in Calls
  PROVE  /\ session[c].at \in {"new", "refused", "up", "gone"}
         /\ session[c].gateway \in Ports \cup {None} /\ session[c].caller \in Ports \cup {None}
         /\ spent[c] \subseteq Ports /\ Stored(c) \subseteq Ports /\ PortsHeldBy(c) \subseteq Ports
         /\ None \notin Stored(c) /\ None \notin PortsHeldBy(c)
  BY Constants DEF TypeOK, Stored, PortsHeldBy

LEMMA OrderlyFrom ==
  ASSUME Orderly, NEW c \in Calls, NEW who \in Actors, Others(c, who),
         \A d \in Calls : d # c => session'[d] = session[d] /\ spent'[d] = spent[d],
         OrderlyFor(c)'
  PROVE  Orderly'
  <1> SUFFICES ASSUME NEW d \in Calls, d # c PROVE OrderlyFor(d)'
    BY DEF Orderly
  <1>1. /\ todo'[d]["handler"] = todo[d]["handler"] /\ todo'[d]["ender"] = todo[d]["ender"]
        /\ Listed(d, "handler")' = Listed(d, "handler") /\ Listed(d, "ender")' = Listed(d, "ender")
    BY DEF Others, Actors
  <1>2. session'[d] = session[d] /\ PortsHeldBy(d)' = PortsHeldBy(d) /\ spent'[d] = spent[d]
    BY DEF PortsHeldBy, Stored
  <1>3. \A s : Fits(d, s)' <=> Fits(d, s)
    BY <1>2 DEF Fits, Asking, Serving, Removing
  <1>4. OrderlyFor(d)
    BY DEF Orderly
  <1> QED
    BY <1>1, <1>2, <1>3, <1>4 DEF OrderlyFor, Handler, Ender, HandlerList, Cleaning,
       Asking, Serving, Removing

(* What a step on the handler's list leaves alone.                         *)
LEMMA EnderKept ==
  ASSUME NEW c \in Calls, Others(c, "handler")
  PROVE  Ender(c)' = Ender(c) /\ Listed(c, "ender")' = Listed(c, "ender")
  BY DEF Others, Ender, Actors

Typed == session' \in [Calls -> [at : {"new", "refused", "up", "gone"},
                                 gateway : Ports \cup {None}, caller : Ports \cup {None}]]
         /\ spent' \in [Calls -> SUBSET Ports]
         /\ todo' \in [Calls -> [Actors -> Seq(Steps)]]

(* A message comes in: its handler gets a list.                            *)
LEMMA StartsOrderly ==
  ASSUME TypeOK, Orderly, NEW c \in Calls, Invite(c) \/ Answer(c) \/ LateAnswer(c)
  PROVE  Typed /\ Orderly'
  <1>1. PICK why \in Reasons :
          /\ Start(c, "handler", Choice(why)) /\ UNCHANGED <<session, spent>>
          /\ why = "offer" => session[c].at = "new"
          /\ why = "answer" => session[c].at = "up"
          /\ why = "stray" => session[c].at = "gone"
          /\ why \in {"offer", "answer", "stray"}
    BY DEF Invite, Answer, LateAnswer, marks, Reasons
  <1> DEFINE s == Step("choose", why, None, None)
  <1>2. Choice(why) = <<s>> /\ s \in Steps /\ s.what = "choose" /\ s.why = why
    BY StepsMade DEF Choice
  <1> HIDE DEF s
  <1>3. <<s>> \in Seq(Steps) /\ Len(<<s>>) = 1 /\ <<s>>[1] = s
        /\ {<<s>>[i] : i \in 1..Len(<<s>>)} = {s}
    BY <1>2, OneStep
  <1>4. /\ todo' \in [Calls -> [Actors -> Seq(Steps)]] /\ todo'[c]["handler"] = <<s>>
        /\ \A d \in Calls, w \in Actors : d # c \/ w # "handler" => todo'[d][w] = todo[d][w]
        /\ Listed(c, "handler")' = {s}
    <2> DEFINE L == <<s>>
    <2>1. Start(c, "handler", L) /\ L \in Seq(Steps) /\ {L[i] : i \in 1..Len(L)} = {s}
      BY <1>1, <1>2, <1>3
    <2> HIDE DEF L
    <2>2. /\ todo' \in [Calls -> [Actors -> Seq(Steps)]] /\ todo'[c]["handler"] = L
          /\ \A d \in Calls, w \in Actors : d # c \/ w # "handler" => todo'[d][w] = todo[d][w]
          /\ Listed(c, "handler")' = {s}
      BY <2>1, Started DEF Actors
    <2> QED
      BY <2>2 DEF L
  <1>5. Others(c, "handler")
    BY <1>4, OthersFrom
  <1>6. Fits(c, s)'
    BY <1>1, <1>2 DEF Fits, Asking, Serving, Removing, Reasons
  <1>7. HandlerList(Handler(c)')
    BY <1>2, <1>3, <1>4 DEF HandlerList, Handler, Asking
  <1>8. OrderlyFor(c)'
    BY <1>1, <1>4, <1>5, <1>6, <1>7, EnderKept DEF Orderly, OrderlyFor, HandlerList,
       Cleaning, Asking, Serving, Removing
  <1> QED
    BY <1>1, <1>4, <1>5, <1>8, OrderlyFrom DEF Typed, TypeOK, Actors

(* An INVITE without SDP has its session at once.                          *)
LEMMA WithoutSdpOrderly ==
  ASSUME TypeOK, Orderly, NEW c \in Calls, InviteWithoutSdp(c)
  PROVE  /\ Typed /\ Orderly' /\ PortsHeldBy(c)' = {} /\ PortsHeldBy(c) = {}
         /\ session[c].at = "new" /\ session'[c].at = "up"
         /\ UNCHANGED <<todo, spent>>
         /\ \A d \in Calls : d # c => session'[d] = session[d]
         /\ Listed(c, "handler") = {}
  <1> DEFINE r == session[c]
             m == [r EXCEPT !.at = "up"]
  <1>1. /\ r.at = "new" /\ session' = [session EXCEPT ![c] = m] /\ UNCHANGED <<todo, spent>>
        /\ todo[c]["handler"] = <<>>
    BY DEF InviteWithoutSdp, marks, Idle, TypeOK
  <1>2. OrderlyFor(c)
    BY DEF Orderly
  <1>3. r.gateway = None /\ r.caller = None /\ spent[c] = {}
    BY <1>1, <1>2 DEF OrderlyFor
  <1>4. r = [at |-> r.at, gateway |-> r.gateway, caller |-> r.caller]
    BY DEF TypeOK
  <1>5. m = [at |-> "up", gateway |-> None, caller |-> None]
    <2> HIDE DEF r
    <2> QED
      BY <1>3, <1>4
  <1> HIDE DEF r, m
  <1>6. session'[c] = m /\ \A d \in Calls : d # c => session'[d] = session[d]
    BY <1>1 DEF TypeOK
  <1>7. session'[c].at = "up" /\ session'[c].gateway = None /\ session'[c].caller = None
    BY <1>5, <1>6
  <1>8. PortsHeldBy(c)' = {} /\ PortsHeldBy(c) = {}
    BY <1>1, <1>7 DEF PortsHeldBy, Stored, r
  <1>9. Listed(c, "handler") = {} /\ Listed(c, "handler")' = {}
    BY <1>1 DEF Listed
  <1>10. Typed
    BY <1>1, <1>5 DEF Typed, TypeOK
  <1>11. Others(c, "handler")
    BY <1>1, OthersFrom
  <1>12. OrderlyFor(c)'
    <2>1. HandlerList(Handler(c)')
      BY <1>1 DEF Handler, HandlerList
    <2>2. Ender(c) = <<>>
      BY <1>1, <1>2 DEF OrderlyFor, r
    <2> QED
      BY <1>1, <1>2, <1>7, <1>9, <1>11, <2>1, <2>2, EnderKept DEF OrderlyFor
  <1>13. Orderly'
    BY <1>1, <1>6, <1>11, <1>12, OrderlyFrom DEF Actors
  <1> QED
    BY <1>1, <1>6, <1>7, <1>8, <1>9, <1>10, <1>13 DEF r

(* The list of a message that clears what its session has.                 *)
LEMMA ClearingOnly ==
  ASSUME TypeOK, NEW c \in Calls, Start(c, "handler", Clearing(session[c]) \o <<>>)
  PROVE  /\ todo' \in [Calls -> [Actors -> Seq(Steps)]] /\ Others(c, "handler")
         /\ HandlerList(Handler(c)')
         /\ \A s \in Listed(c, "handler")' : s.what = "clear" /\ s.port \in Stored(c)
         /\ \A p \in Stored(c) : \E s \in Listed(c, "handler")' : s.what = "clear" /\ s.port = p
         /\ Listed(c, "handler") = {}
  <1> DEFINE L == Clearing(session[c])
  <1>1. /\ L \in Seq(Steps)
        /\ \A i \in 1..Len(L) : L[i].what = "clear" /\ L[i].port \in Stored(c)
        /\ \A p \in Stored(c) : \E i \in 1..Len(L) : L[i].port = p
    BY SessionFields, ClearingIs DEF Stored
  <1>2. Start(c, "handler", L \o <<>>)
    OBVIOUS
  <1> HIDE DEF L
  <1>3. Start(c, "handler", L)
    <2>1. L \o <<>> = L
      BY <1>1, ConcatEmptySeq
    <2> QED
      BY <1>2, <2>1
  <1>4. /\ todo' \in [Calls -> [Actors -> Seq(Steps)]] /\ todo'[c]["handler"] = L
        /\ \A d \in Calls, w \in Actors : d # c \/ w # "handler" => todo'[d][w] = todo[d][w]
        /\ Listed(c, "handler") = {} /\ Listed(c, "handler")' = {L[i] : i \in 1..Len(L)}
    BY <1>1, <1>3, Started DEF Actors
  <1>5. HandlerList(Handler(c)')
    <2>1. Stored(c) \subseteq Ports
      BY SessionFields
    <2> QED
      BY <1>1, <1>4, <2>1 DEF HandlerList, Handler, Cleaning
  <1>6. \A s \in Listed(c, "handler")' : s.what = "clear" /\ s.port \in Stored(c)
    BY <1>1, <1>4
  <1>7. ASSUME NEW p \in Stored(c)
        PROVE  \E s \in Listed(c, "handler")' : s.what = "clear" /\ s.port = p
    <2>1. PICK i \in 1..Len(L) : L[i].port = p /\ L[i].what = "clear"
      BY <1>1
    <2> QED
      BY <1>4, <2>1
  <1> QED
    BY <1>4, <1>5, <1>6, <1>7, OthersFrom

LEMMA ClearingThen ==
  ASSUME TypeOK, NEW c \in Calls, NEW z \in Steps, Asking(z) \/ Removing(z),
         Start(c, "handler", Clearing(session[c]) \o <<z>>)
  PROVE  /\ todo' \in [Calls -> [Actors -> Seq(Steps)]] /\ Others(c, "handler")
         /\ HandlerList(Handler(c)') /\ z \in Listed(c, "handler")'
         /\ \A s \in Listed(c, "handler")' : s = z \/ (s.what = "clear" /\ s.port \in Stored(c))
         /\ \A p \in Stored(c) : \E s \in Listed(c, "handler")' : s.what = "clear" /\ s.port = p
         /\ Listed(c, "handler") = {}
  <1> DEFINE K == Clearing(session[c])
             L == K \o <<z>>
  <1>1. /\ K \in Seq(Steps)
        /\ \A i \in 1..Len(K) : K[i].what = "clear" /\ K[i].port \in Stored(c)
        /\ \A p \in Stored(c) : \E i \in 1..Len(K) : K[i].port = p
    BY SessionFields, ClearingIs DEF Stored
  <1> HIDE DEF K
  <1>2. /\ L \in Seq(Steps) /\ Len(L) = Len(K) + 1 /\ Len(K) \in Nat
        /\ \A i \in 1..Len(K) : L[i] = K[i]
        /\ L[Len(K) + 1] = z
    BY <1>1, Appended
  <1>3. Start(c, "handler", L)
    BY DEF K
  <1> HIDE DEF L
  <1>4. /\ todo' \in [Calls -> [Actors -> Seq(Steps)]] /\ todo'[c]["handler"] = L
        /\ \A d \in Calls, w \in Actors : d # c \/ w # "handler" => todo'[d][w] = todo[d][w]
        /\ Listed(c, "handler") = {} /\ Listed(c, "handler")' = {L[i] : i \in 1..Len(L)}
    BY <1>2, <1>3, Started DEF Actors
  <1>5. ASSUME NEW i \in 1..Len(L)
        PROVE  (i \in 1..Len(K) /\ L[i].what = "clear" /\ L[i].port \in Stored(c))
               \/ (i = Len(L) /\ L[i] = z)
    BY <1>1, <1>2
  <1>6. HandlerList(Handler(c)')
    <2>1. Stored(c) \subseteq Ports
      BY SessionFields
    <2> QED
      BY <1>4, <1>5, <2>1 DEF HandlerList, Handler, Cleaning
  <1>7. z \in Listed(c, "handler")'
    <2>1. Len(K) + 1 \in 1..Len(L)
      BY <1>2
    <2> QED
      BY <1>2, <1>4, <2>1
  <1>8. \A s \in Listed(c, "handler")' : s = z \/ (s.what = "clear" /\ s.port \in Stored(c))
    BY <1>4, <1>5
  <1>9. ASSUME NEW p \in Stored(c)
        PROVE  \E s \in Listed(c, "handler")' : s.what = "clear" /\ s.port = p
    <2>1. PICK i \in 1..Len(K) : K[i].port = p /\ K[i].what = "clear"
      BY <1>1
    <2>2. i \in 1..Len(L) /\ L[i] = K[i]
      BY <1>2
    <2> QED
      BY <1>4, <2>1, <2>2
  <1> QED
    BY <1>4, <1>6, <1>7, <1>8, <1>9, OthersFrom

(* A failover and a failure: the session has given up its ports.           *)
LEMMA GivesUp ==
  ASSUME TypeOK, Orderly, NEW c \in Calls, Failover(c) \/ Failure(c)
  PROVE  /\ session[c].at = "up" /\ session' = session
         /\ spent' = [spent EXCEPT ![c] = Stored(c)]
         /\ todo' \in [Calls -> [Actors -> Seq(Steps)]] /\ Others(c, "handler")
         /\ HandlerList(Handler(c)')
         /\ \A s \in Listed(c, "handler")' :
              \/ s.what = "choose" /\ s.why = "failover"
              \/ s.what = "remove"
              \/ s.what = "clear" /\ s.port \in Stored(c)
         /\ \A p \in Stored(c) : \E s \in Listed(c, "handler")' : s.what = "clear" /\ s.port = p
         /\ Listed(c, "handler") = {}
  <1>1. /\ session[c].at = "up" /\ session' = session
        /\ spent' = [spent EXCEPT ![c] = Stored(c)]
    BY DEF Failover, Failure
  <1>2. CASE Failover(c) /\ session[c].gateway = None
    <2>1. Start(c, "handler", Clearing(session[c]) \o <<>>)
      BY <1>2 DEF Failover
    <2> QED
      BY <1>1, <2>1, ClearingOnly
  <1>3. CASE ~(Failover(c) /\ session[c].gateway = None)
    <2>1. PICK z \in Steps :
            /\ Start(c, "handler", Clearing(session[c]) \o <<z>>)
            /\ z.what \in {"choose", "remove"}
            /\ z.what = "choose" => z.why = "failover"
      <3>1. CASE Failover(c)
        BY <1>3, <3>1, StepsMade DEF Failover, Choice, Reasons
      <3>2. CASE Failure(c)
        BY <3>2, StepsMade DEF Failure, Reasons
      <3> QED
        BY <3>1, <3>2
    <2>2. Asking(z) \/ Removing(z)
      BY <2>1 DEF Asking, Removing, Reasons
    <2> QED
      BY <1>1, <2>1, <2>2, ClearingThen
  <1> QED
    BY <1>2, <1>3

LEMMA GivesUpOrderly ==
  ASSUME TypeOK, Orderly, NEW c \in Calls, Failover(c) \/ Failure(c)
  PROVE  Typed /\ Orderly' /\ PortsHeldBy(c)' = {}
  <1>1. /\ session[c].at = "up" /\ session' = session /\ spent' = [spent EXCEPT ![c] = Stored(c)]
        /\ todo' \in [Calls -> [Actors -> Seq(Steps)]] /\ Others(c, "handler")
        /\ HandlerList(Handler(c)')
        /\ \A s \in Listed(c, "handler")' :
             \/ s.what = "choose" /\ s.why = "failover"
             \/ s.what = "remove"
             \/ s.what = "clear" /\ s.port \in Stored(c)
    BY GivesUp
  <1>2. Stored(c)' = Stored(c) /\ spent'[c] = Stored(c) /\ PortsHeldBy(c)' = {}
    BY <1>1 DEF Stored, PortsHeldBy, TypeOK
  <1>3. \A s \in Listed(c, "handler")' : Fits(c, s)'
    BY <1>1, <1>2 DEF Fits, Asking, Serving, Removing
  <1>4. OrderlyFor(c)'
    BY <1>1, <1>3, EnderKept DEF Orderly, OrderlyFor, HandlerList,
       Cleaning, Asking, Serving, Removing
  <1>5. \A d \in Calls : d # c => session'[d] = session[d] /\ spent'[d] = spent[d]
    BY <1>1 DEF TypeOK
  <1>6. spent' \in [Calls -> SUBSET Ports]
    BY <1>1, SessionFields DEF TypeOK
  <1> QED
    BY <1>1, <1>2, <1>4, <1>5, <1>6, OrderlyFrom DEF Typed, TypeOK, Actors

(* The session is torn down.                                               *)
LEMMA TeardownOrderly ==
  ASSUME TypeOK, Orderly, NEW c \in Calls, Teardown(c)
  PROVE  /\ Typed /\ Orderly' /\ PortsHeldBy(c)' = {} /\ session'[c].at = "gone"
         /\ Others(c, "ender")
         /\ \A p \in Stored(c) : \E s \in Listed(c, "ender")' : s.what = "clear" /\ s.port = p
         /\ Listed(c, "ender") = {} /\ \A s \in Listed(c, "ender")' : s.what = "clear"
  <1> DEFINE L == Clearing(session[c])
  <1>1. /\ L \in Seq(Steps)
        /\ \A i \in 1..Len(L) : L[i].what = "clear" /\ L[i].port \in Stored(c)
        /\ \A p \in Stored(c) : \E i \in 1..Len(L) : L[i].port = p
    BY SessionFields, ClearingIs DEF Stored
  <1>2. /\ Start(c, "ender", L) /\ session[c].at = "up"
        /\ session' = [session EXCEPT ![c] = Gone] /\ spent' = [spent EXCEPT ![c] = {}]
    BY DEF Teardown
  <1> HIDE DEF L
  <1>3. /\ todo' \in [Calls -> [Actors -> Seq(Steps)]] /\ todo'[c]["ender"] = L
        /\ \A d \in Calls, w \in Actors : d # c \/ w # "ender" => todo'[d][w] = todo[d][w]
        /\ Listed(c, "ender") = {} /\ Listed(c, "ender")' = {L[i] : i \in 1..Len(L)}
    BY <1>1, <1>2, Started DEF Actors
  <1>4. Others(c, "ender") /\ Handler(c)' = Handler(c)
        /\ Listed(c, "handler")' = Listed(c, "handler")
    BY <1>3, OthersFrom DEF Handler, Actors, Listed
  <1>5. session'[c] = Gone /\ spent'[c] = {} /\ PortsHeldBy(c)' = {}
    BY <1>2 DEF TypeOK, Gone, PortsHeldBy
  <1>6. \A s \in Listed(c, "ender")' : Cleaning(s)
    BY <1>1, <1>3, SessionFields DEF Cleaning
  <1>7. \A s \in Listed(c, "handler") : Fits(c, s) => Fits(c, s)'
    BY <1>2, <1>5 DEF Fits, Gone, Asking, Serving, Removing
  <1>8. OrderlyFor(c)'
    BY <1>4, <1>5, <1>6, <1>7 DEF Orderly, OrderlyFor, HandlerList, Gone,
       Cleaning, Asking, Serving, Removing
  <1>9. \A d \in Calls : d # c => session'[d] = session[d] /\ spent'[d] = spent[d]
    BY <1>2 DEF TypeOK
  <1>10. Typed
    BY <1>2, <1>3 DEF Typed, TypeOK, Gone
  <1>11. Orderly'
    BY <1>4, <1>8, <1>9, OrderlyFrom DEF Actors
  <1>12. \A p \in Stored(c) : \E s \in Listed(c, "ender")' : s.what = "clear" /\ s.port = p
    BY <1>1, <1>3
  <1>13. \A s \in Listed(c, "ender")' : s.what = "clear"
    BY <1>1, <1>3
  <1> QED
    BY <1>3, <1>4, <1>5, <1>10, <1>11, <1>12, <1>13 DEF Gone

(* The handler has served its message, and leaves the session in order.    *)
LEMMA EndsOrderly ==
  ASSUME TypeOK, Orderly, NEW c \in Calls, HandlerList(Handler(c)'),
         \A s \in Listed(c, "handler")' : s.what = "clear",
         Others(c, "handler"), todo' \in [Calls -> [Actors -> Seq(Steps)]], NEW m, NEW h,
         session' = [session EXCEPT ![c] = m], spent' = [spent EXCEPT ![c] = h],
         m.at \in {"new", "refused", "up", "gone"},
         m = [at |-> m.at, gateway |-> m.gateway, caller |-> m.caller],
         m.gateway \in Ports \cup {None}, m.caller \in Ports \cup {None}, h \subseteq Ports,
         m.at # "up" => m.gateway = None /\ m.caller = None,
         m.at \notin {"up", "gone"} => h = {},
         session[c].at = "gone" => m.at = "gone"
  PROVE  Typed /\ Orderly'
  <1>1. session'[c] = m /\ spent'[c] = h
    BY DEF TypeOK
  <1>2. \A s \in Listed(c, "handler")' : Fits(c, s)'
    BY DEF Fits, Asking, Serving, Removing
  <1>3. OrderlyFor(c)'
    BY <1>1, <1>2, EnderKept DEF Orderly, OrderlyFor, HandlerList,
       Cleaning, Asking, Serving, Removing
  <1>4. \A d \in Calls : d # c => session'[d] = session[d] /\ spent'[d] = spent[d]
    BY DEF TypeOK
  <1>5. session' \in [Calls -> [at : {"new", "refused", "up", "gone"},
                                gateway : Ports \cup {None}, caller : Ports \cup {None}]]
    <2>1. m \in [at : {"new", "refused", "up", "gone"},
                 gateway : Ports \cup {None}, caller : Ports \cup {None}]
      OBVIOUS
    <2> QED
      BY <2>1 DEF TypeOK
  <1>6. Typed
    BY <1>5 DEF Typed, TypeOK
  <1> QED
    BY <1>3, <1>4, <1>6, OrderlyFrom DEF Actors

(* The handler goes on with one step of its list.                          *)
LEMMA GoesOnOrderly ==
  ASSUME TypeOK, Orderly, NEW c \in Calls, NEW s \in Steps,
         Listed(c, "handler")' = {s}, Len(Handler(c)') = 1, Handler(c)'[1] = s,
         Others(c, "handler"), todo' \in [Calls -> [Actors -> Seq(Steps)]],
         UNCHANGED <<session, spent>>, Serving(s), Fits(c, s)
  PROVE  Typed /\ Orderly'
  <1>1. HandlerList(Handler(c)')
    BY DEF HandlerList, Handler
  <1>2. \A t : Fits(c, t)' <=> Fits(c, t)
    BY DEF Fits, Asking, Serving, Removing, PortsHeldBy, Stored
  <1>3. OrderlyFor(c)'
    BY <1>1, <1>2, EnderKept DEF Orderly, OrderlyFor, HandlerList,
       Cleaning, Asking, Serving, Removing
  <1>4. Typed
    BY DEF Typed, TypeOK
  <1> QED
    BY <1>3, <1>4, OrderlyFrom DEF Actors

(* What the actor that takes a port out of the pool has left to do.        *)
LEMMA ForgetsLater ==
  ASSUME TypeOK, Orderly, Books, NEW c \in Calls, NEW who \in Actors,
         ClearHere(c, who) \/ Release(c, who)
  PROVE  LET p == Head(todo[c][who]).port
             q == peers[p]
             g == Released(pool, p)
         IN  /\ todo' \in [Calls -> [Actors -> Seq(Steps)]] /\ Others(c, who)
             /\ p \in Ports /\ q \in Ports \cup {None}
             /\ \A s \in Listed(c, who)' :
                  \/ s \in Listed(c, who)
                  \/ /\ s.what = "forget" /\ s.why \in Keys /\ Cleaning(s)
                     /\ \/ s.why = pool.call[p] /\ pool.count[s.why] <= 1
                        \/ /\ ClearHere(c, who) /\ q # None
                           /\ s.why = g.call[q] /\ g.count[s.why] <= 1
             /\ Listed(c, who) \subseteq Listed(c, who)' \cup {Head(todo[c][who])}
             /\ \/ pool.call[p] \notin pool.entries \/ pool.count[pool.call[p]] > 1
                \/ \E s \in Listed(c, who)' : s.what = "forget" /\ s.why = pool.call[p]
             /\ ClearHere(c, who) /\ q # None =>
                  \/ g.call[q] \notin g.entries \/ g.count[g.call[q]] > 1
                  \/ \E s \in Listed(c, who)' : s.what = "forget" /\ s.why = g.call[q]
             /\ todo[c][who] # <<>>
             /\ HandlerList(Handler(c)')
  <1> DEFINE p == Head(todo[c][who]).port
             q == peers[p]
             g == Released(pool, p)
             N == IF ClearHere(c, who) THEN Forgetting(pool, p) \o Forgetting(g, q)
                  ELSE Forgetting(pool, p)
  <1>1. PICK what \in {"clear", "release"} :
          /\ Next_(c, who, what) /\ Then(c, who, N)
    BY DEF ClearHere, Release
  <1>2. p \in Ports /\ q \in Ports \cup {None}
    BY <1>1, CleaningHead DEF TypeOK
  <1>3. Covered(pool) /\ Covered(g)
    <2>1. Covered(pool)
      BY DEF Books
    <2> QED
      BY <1>2, <2>1, Releasing
  <1> DEFINE A == Forgetting(pool, p)
             B == Forgetting(g, q)
  <1> HIDE DEF p, q, g
  <1>4. /\ A \in Seq(Steps)
        /\ \A i \in 1..Len(A) : /\ A[i].what = "forget" /\ A[i].why = pool.call[p]
                                /\ A[i].why \in pool.entries /\ pool.count[A[i].why] <= 1
        /\ pool.call[p] \in pool.entries /\ pool.count[pool.call[p]] <= 1 =>
             \E i \in 1..Len(A) : A[i].what = "forget" /\ A[i].why = pool.call[p]
    BY <1>2, <1>3, ForgettingIs
  <1>5. /\ B \in Seq(Steps)
        /\ \A i \in 1..Len(B) : /\ B[i].what = "forget" /\ B[i].why = g.call[q] /\ q # None
                                /\ B[i].why \in g.entries /\ g.count[B[i].why] <= 1
        /\ q # None /\ g.call[q] \in g.entries /\ g.count[g.call[q]] <= 1 =>
             \E i \in 1..Len(B) : B[i].what = "forget" /\ B[i].why = g.call[q]
    BY <1>2, <1>3, Constants, ForgettingIs
  <1>6. pool.entries \subseteq Keys /\ g.entries \subseteq Keys
    BY <1>3, PoolFields DEF Covered
  <1> HIDE DEF A, B
  <1>7. /\ A \o B \in Seq(Steps) /\ Len(A \o B) = Len(A) + Len(B)
        /\ Len(A) \in Nat /\ Len(B) \in Nat
        /\ \A i \in 1..(Len(A) + Len(B)) :
             (A \o B)[i] = IF i <= Len(A) THEN A[i] ELSE B[i - Len(A)]
    BY <1>4, <1>5, ConcatProperties, LenProperties
  <1>8. N = IF ClearHere(c, who) THEN A \o B ELSE A
    BY DEF A, B
  <1> HIDE DEF N
  <1>9. N \in Seq(Steps)
    BY <1>4, <1>7, <1>8
  <1>10. ASSUME NEW i \in 1..Len(N)
         PROVE  \/ \E j \in 1..Len(A) : N[i] = A[j]
                \/ ClearHere(c, who) /\ \E j \in 1..Len(B) : N[i] = B[j]
    <2>1. CASE ClearHere(c, who)
      <3>1. CASE i <= Len(A)
        BY <1>7, <1>8, <2>1, <3>1
      <3>2. CASE ~(i <= Len(A))
        <4>1. i - Len(A) \in 1..Len(B) /\ N[i] = B[i - Len(A)]
          BY <1>7, <1>8, <2>1, <3>2
        <4> QED
          BY <2>1, <4>1
      <3> QED
        BY <3>1, <3>2
    <2>2. CASE ~ClearHere(c, who)
      BY <1>8, <2>2
    <2> QED
      BY <2>1, <2>2
  <1>11. ASSUME NEW j \in 1..Len(A) PROVE \E i \in 1..Len(N) : N[i] = A[j]
    <2>1. j \in 1..Len(N) /\ N[j] = A[j]
      BY <1>7, <1>8
    <2> QED
      BY <2>1
  <1>12. ASSUME ClearHere(c, who), NEW j \in 1..Len(B) PROVE \E i \in 1..Len(N) : N[i] = B[j]
    <2>1. j + Len(A) \in 1..Len(N) /\ N[j + Len(A)] = B[j]
      BY <1>7, <1>8, <1>12
    <2> QED
      BY <2>1
  <1>13. \A i \in 1..Len(N) : Cleaning(N[i])
    BY <1>4, <1>5, <1>6, <1>10 DEF Cleaning
  <1>14. /\ todo' \in [Calls -> [Actors -> Seq(Steps)]] /\ Others(c, who)
         /\ \A i \in 1..Len(N) : N[i] \in Listed(c, who)'
         /\ \A s \in Listed(c, who)' :
              s \in Listed(c, who) \/ \E i \in 1..Len(N) : s = N[i]
         /\ Listed(c, who) \subseteq Listed(c, who)' \cup {Head(todo[c][who])}
         /\ todo[c][who] # <<>>
         /\ HandlerList(Handler(c)')
    BY <1>1, <1>9, <1>13, CleanerForgets
  <1>15. \A s \in Listed(c, who)' :
           \/ s \in Listed(c, who)
           \/ /\ s.what = "forget" /\ s.why \in Keys /\ Cleaning(s)
              /\ \/ s.why = pool.call[p] /\ pool.count[s.why] <= 1
                 \/ /\ ClearHere(c, who) /\ q # None
                    /\ s.why = g.call[q] /\ g.count[s.why] <= 1
    <2> DEFINE Later(s) ==
          /\ s.what = "forget" /\ s.why \in Keys /\ Cleaning(s)
          /\ \/ s.why = pool.call[p] /\ pool.count[s.why] <= 1
             \/ /\ ClearHere(c, who) /\ q # None
                /\ s.why = g.call[q] /\ g.count[s.why] <= 1
    <2>1. ASSUME NEW i \in 1..Len(N) PROVE Later(N[i])
      BY <1>4, <1>5, <1>6, <1>10, <1>13
    <2> HIDE DEF Later
    <2>2. \A s \in Listed(c, who)' : s \in Listed(c, who) \/ Later(s)
      BY <1>14, <2>1
    <2> QED
      BY <2>2 DEF Later
  <1>16. \/ pool.call[p] \notin pool.entries \/ pool.count[pool.call[p]] > 1
         \/ \E s \in Listed(c, who)' : s.what = "forget" /\ s.why = pool.call[p]
    <2> SUFFICES ASSUME pool.call[p] \in pool.entries, ~(pool.count[pool.call[p]] > 1)
                 PROVE  \E s \in Listed(c, who)' : s.what = "forget" /\ s.why = pool.call[p]
      OBVIOUS
    <2>1. pool.count[pool.call[p]] <= 1
      <3>1. pool.call[p] \in Keys /\ pool.count \in [Keys -> Nat]
        BY <1>3, <1>6, PoolFields DEF Covered
      <3> QED
        BY <3>1
    <2> QED
      BY <1>4, <1>11, <1>14, <2>1
  <1>17. ASSUME ClearHere(c, who), q # None
         PROVE  \/ g.call[q] \notin g.entries \/ g.count[g.call[q]] > 1
                \/ \E s \in Listed(c, who)' : s.what = "forget" /\ s.why = g.call[q]
    <2> SUFFICES ASSUME g.call[q] \in g.entries, ~(g.count[g.call[q]] > 1)
                 PROVE  \E s \in Listed(c, who)' : s.what = "forget" /\ s.why = g.call[q]
      OBVIOUS
    <2>1. g.count[g.call[q]] <= 1
      <3>1. g.call[q] \in Keys /\ g.count \in [Keys -> Nat]
        BY <1>3, <1>6, PoolFields DEF Covered
      <3> QED
        BY <3>1
    <2> QED
      BY <1>5, <1>12, <1>14, <1>17, <2>1
  <1> QED
    BY <1>2, <1>14, <1>15, <1>16, <1>17 DEF p, q, g

(* A port is cleared or released.                                          *)
LEMMA CleansOrderly ==
  ASSUME TypeOK, Orderly, Books, NEW c \in Calls, NEW who \in Actors, CleanerStep(c, who)
  PROVE  Typed /\ Orderly'
  <1>1. /\ todo' \in [Calls -> [Actors -> Seq(Steps)]] /\ Others(c, who)
        /\ \A s \in Listed(c, who)' : s \in Listed(c, who) \/ (Cleaning(s) /\ ~Asking(s)
                                            /\ ~Serving(s) /\ ~Removing(s))
        /\ todo[c][who] # <<>>
        /\ HandlerList(Handler(c)')
    <2>1. CASE ClearHere(c, who) \/ Release(c, who)
      BY <2>1, ForgetsLater DEF Asking, Serving, Removing
    <2>3. CASE Forget(c, who)
      <3>1. Next_(c, who, "forget") /\ Then(c, who, <<>>)
        BY <2>3 DEF Forget
      <3> QED
        BY <3>1, CleanerEnds DEF Next_, Idle
    <2>2. CASE ClearThere(c, who) \/ ClearLost(c, who)
      <3> DEFINE s == Step("release", None, Head(todo[c][who]).port, None)
      <3>1. Next_(c, who, "clear") /\ Then(c, who, <<s>>)
        BY <2>2 DEF ClearThere, ClearLost
      <3>2. s \in Steps /\ Cleaning(s) /\ s.what = "release"
        BY <3>1, CleaningHead, StepsMade DEF Cleaning
      <3>3. ~Asking(s) /\ ~Serving(s) /\ ~Removing(s)
        BY <3>2 DEF Asking, Serving, Removing
      <3> HIDE DEF s
      <3> QED
        BY <3>1, <3>2, <3>3, CleanerGoesOn
    <2> QED
      BY <2>1, <2>2, <2>3 DEF CleanerStep
  <1>2. UNCHANGED <<session, spent>>
    BY DEF CleanerStep, ClearHere, ClearThere, ClearLost, Release, Forget, marks
  <1>3. \A t : Fits(c, t)' <=> Fits(c, t)
    BY <1>2 DEF Fits, Asking, Serving, Removing, PortsHeldBy, Stored
  <1>4. OrderlyFor(c) /\ (who = "ender" => session[c].at = "gone")
    BY <1>1 DEF Orderly, OrderlyFor, Ender
  <1>5. \A s \in Listed(c, "handler")' : Fits(c, s)'
    <2>1. CASE who = "handler"
      BY <1>1, <1>3, <1>4, <2>1 DEF OrderlyFor, Fits
    <2>2. CASE who = "ender"
      BY <1>1, <1>3, <1>4, <2>2 DEF OrderlyFor, Others, Actors
    <2> QED
      BY <2>1, <2>2 DEF Actors
  <1>6. /\ \A s \in Listed(c, "ender")' : Cleaning(s)
        /\ Ender(c)' # <<>> => session[c].at = "gone"
    <2>1. CASE who = "handler"
      BY <1>1, <1>4, <2>1, EnderKept DEF OrderlyFor
    <2>2. CASE who = "ender"
      BY <1>1, <1>4, <2>2 DEF OrderlyFor
    <2> QED
      BY <2>1, <2>2 DEF Actors
  <1>7. OrderlyFor(c)'
    BY <1>1, <1>2, <1>4, <1>5, <1>6 DEF OrderlyFor, HandlerList, Cleaning, Asking,
       Serving, Removing
  <1>8. Typed
    BY <1>1, <1>2 DEF Typed, TypeOK
  <1> QED
    BY <1>1, <1>2, <1>7, <1>8, OrderlyFrom

(* A handler that has no port leaves the session as Unserved says.         *)
LEMMA UnservedIs ==
  ASSUME TypeOK, Orderly, NEW c \in Calls, NEW s \in Listed(c, "handler"), Unserved(c, s.why),
         UNCHANGED spent, Asking(s) \/ Serving(s), HandlerList(Handler(c)'),
         \A t \in Listed(c, "handler")' : t.what = "clear",
         Others(c, "handler"), todo' \in [Calls -> [Actors -> Seq(Steps)]]
  PROVE  /\ Typed /\ Orderly'
         /\ session'[c].at = "up" => session' = session
         /\ session'[c].at = "gone" <=> session[c].at = "gone"
         /\ session'[c].at # "new" \/ session[c].at = "new"
         /\ session'[c].at = "new" => s.why # "offer"
         /\ \A d \in Calls : d # c => session'[d] = session[d]
         /\ PortsHeldBy(c)' = PortsHeldBy(c)
  <1>0. Fits(c, s) /\ OrderlyFor(c)
    BY DEF Orderly, OrderlyFor
  <1>1. CASE s.why = "offer"
    <2> DEFINE m == [session[c] EXCEPT !.at = "refused"]
    <2>1. session' = [session EXCEPT ![c] = m] /\ spent' = [spent EXCEPT ![c] = spent[c]]
      BY <1>1 DEF Unserved, TypeOK
    <2>2. session[c].at = "new" /\ spent[c] = {} /\ session[c].gateway = None
          /\ session[c].caller = None
      BY <1>0, <1>1 DEF Fits, OrderlyFor
    <2> DEFINE r == session[c]
    <2>0. r = [at |-> r.at, gateway |-> r.gateway, caller |-> r.caller]
      BY DEF TypeOK
    <2>3. m.at = "refused" /\ m.gateway = None /\ m.caller = None
          /\ m = [at |-> m.at, gateway |-> m.gateway, caller |-> m.caller]
      <3>1. r.gateway = None /\ r.caller = None /\ m = [r EXCEPT !.at = "refused"]
        BY <2>2
      <3> HIDE DEF r, m
      <3> QED
        BY <2>0, <3>1
    <2> HIDE DEF m
    <2>4. Typed /\ Orderly'
      BY <2>1, <2>2, <2>3, EndsOrderly
    <2>5. session'[c].at = "refused" /\ \A d \in Calls : d # c => session'[d] = session[d]
      BY <2>1, <2>3 DEF TypeOK
    <2>6. PortsHeldBy(c)' = {} /\ PortsHeldBy(c) = {}
      BY <2>2, <2>5 DEF PortsHeldBy
    <2> QED
      BY <1>1, <2>2, <2>4, <2>5, <2>6
  <1>2. CASE s.why # "offer"
    <2>1. session' = session /\ session' = [session EXCEPT ![c] = session[c]]
          /\ spent' = [spent EXCEPT ![c] = spent[c]]
      BY <1>2 DEF Unserved, TypeOK
    <2>2. session[c] = [at |-> session[c].at, gateway |-> session[c].gateway,
                        caller |-> session[c].caller]
      BY DEF TypeOK
    <2> DEFINE m == session[c]
    <2>3. /\ m.at \in {"new", "refused", "up", "gone"}
          /\ m = [at |-> m.at, gateway |-> m.gateway, caller |-> m.caller]
          /\ m.gateway \in Ports \cup {None} /\ m.caller \in Ports \cup {None}
          /\ spent[c] \subseteq Ports
          /\ m.at # "up" => m.gateway = None /\ m.caller = None
          /\ m.at \notin {"up", "gone"} => spent[c] = {}
      BY <1>0, <2>2, SessionFields DEF OrderlyFor
    <2>4. session' = [session EXCEPT ![c] = m]
      BY <2>1
    <2> HIDE DEF m
    <2>5. session[c].at = "gone" => m.at = "gone"
      BY DEF m
    <2>6. Typed /\ Orderly'
      BY <2>1, <2>3, <2>4, <2>5, EndsOrderly
    <2>7. PortsHeldBy(c)' = PortsHeldBy(c)
      BY <2>1 DEF PortsHeldBy, Stored
    <2> QED
      BY <1>2, <2>1, <2>6, <2>7
  <1> QED
    BY <1>1, <1>2

LEMMA EmptyList == HandlerList(<<>>)
  BY DEF HandlerList

LEMMA RemoveOrderly ==
  ASSUME TypeOK, Orderly, NEW c \in Calls, Remove(c)
  PROVE  /\ Typed /\ Orderly' /\ PortsHeldBy(c)' = {} /\ session'[c].at = "gone"
         /\ PortsHeldBy(c) = {} /\ session[c].at \in {"up", "gone"}
         /\ \A d \in Calls : d # c => session'[d] = session[d] /\ spent'[d] = spent[d]
         /\ Others(c, "handler") /\ Listed(c, "handler")' = {}
         /\ Listed(c, "handler") = {Head(Handler(c))}
  <1>1. /\ todo' \in [Calls -> [Actors -> Seq(Steps)]] /\ Others(c, "handler")
        /\ Handler(c)' = <<>> /\ Listed(c, "handler")' = {}
        /\ Listed(c, "handler") = {Head(Handler(c))}
    BY HandlerEnds DEF Remove
  <1>2. session' = [session EXCEPT ![c] = Gone] /\ spent' = [spent EXCEPT ![c] = {}]
    BY DEF Remove
  <1>3. Gone.at = "gone" /\ Gone.gateway = None /\ Gone.caller = None
        /\ Gone = [at |-> Gone.at, gateway |-> Gone.gateway, caller |-> Gone.caller]
    BY DEF Gone
  <1>4. Typed /\ Orderly'
    BY <1>1, <1>2, <1>3, EndsOrderly, EmptyList
  <1>5. session'[c].at = "gone"
        /\ \A d \in Calls : d # c => session'[d] = session[d] /\ spent'[d] = spent[d]
    BY <1>2, <1>3 DEF TypeOK
  <1>6. PortsHeldBy(c)' = {}
    BY <1>5 DEF PortsHeldBy
  <1>7. PortsHeldBy(c) = {} /\ session[c].at \in {"up", "gone"}
    BY HandlerHead DEF Remove, Fits
  <1> QED
    BY <1>1, <1>4, <1>5, <1>6, <1>7

(* The steps that serve a message for as long as it has no port.           *)
LEMMA ServesOrderly ==
  ASSUME TypeOK, Orderly, NEW c \in Calls,
         Choose(c) \/ Lease(c) \/ LeaseFails(c) \/ LeaseLost(c) \/ Record(c) \/ RewriteFails(c)
  PROVE  Typed /\ Orderly'
  <1> DEFINE s == Head(Handler(c))
  <1>1. PICK what \in {"choose", "lease", "record", "rewrite"} : Next_(c, "handler", what)
    BY DEF Choose, Lease, LeaseFails, LeaseLost, Record, RewriteFails
  <1>2. s \in Listed(c, "handler") /\ s \in Steps /\ Fits(c, s) /\ (Asking(s) \/ Serving(s))
        /\ s.why \in Reasons /\ Len(Handler(c)) = 1
    BY <1>1, HandlerHead DEF Asking, Serving
  <1>3. ASSUME Then(c, "handler", <<>>), Unserved(c, s.why), UNCHANGED spent
        PROVE  Typed /\ Orderly'
    <2>1. /\ todo' \in [Calls -> [Actors -> Seq(Steps)]] /\ Others(c, "handler")
          /\ Handler(c)' = <<>> /\ Listed(c, "handler")' = {}
      BY <1>1, <1>3, HandlerEnds
    <2> HIDE DEF s
    <2> QED
      BY <1>2, <1>3, <2>1, UnservedIs, EmptyList
  <1>4. ASSUME NEW t \in Steps, Serving(t), t.why = s.why, Then(c, "handler", <<t>>),
               UNCHANGED <<session, spent>>
        PROVE  Typed /\ Orderly'
    <2>1. /\ todo' \in [Calls -> [Actors -> Seq(Steps)]] /\ Others(c, "handler")
          /\ Len(Handler(c)') = 1 /\ Handler(c)'[1] = t /\ Listed(c, "handler")' = {t}
      BY <1>1, <1>4, HandlerGoesOn
    <2>2. Fits(c, t)
      BY <1>2, <1>4 DEF Fits, Asking, Serving, Removing
    <2> QED
      BY <1>4, <2>1, <2>2, GoesOnOrderly
  <1>5. CASE Choose(c)
    <2>1. CASE Then(c, "handler", <<>>) /\ Unserved(c, s.why)
      BY <1>3, <1>5, <2>1 DEF Choose, marks
    <2>2. CASE \E n \in Nodes : Then(c, "handler", <<Step("lease", s.why, None, n)>>)
                                 /\ UNCHANGED session
      <3>1. PICK n \in Nodes : Then(c, "handler", <<Step("lease", s.why, None, n)>>)
        BY <2>2
      <3>2. /\ Step("lease", s.why, None, n) \in Steps /\ Serving(Step("lease", s.why, None, n))
            /\ Step("lease", s.why, None, n).why = s.why
        BY <1>2, StepsMade DEF Serving
      <3> QED
        BY <1>4, <1>5, <2>2, <3>1, <3>2 DEF Choose, marks
    <2>3. \A k \in Keys : NodesFor(k) \subseteq Nodes
      <3>1. pool.node \in [Keys -> Nodes \cup {None}]
        BY DEF TypeOK
      <3> QED
        BY <3>1 DEF NodesFor
    <2> QED
      BY <1>2, <1>5, <2>1, <2>2, <2>3, KeyType DEF Choose, Handler
  <1>6. CASE Lease(c)
    <2>1. PICK p \in Ports : Then(c, "handler", <<Step("record", s.why, p, None)>>)
      BY <1>6 DEF Lease, Available, Handler
    <2>2. /\ Step("record", s.why, p, None) \in Steps /\ Serving(Step("record", s.why, p, None))
          /\ Step("record", s.why, p, None).why = s.why
      BY <1>2, StepsMade DEF Serving
    <2> QED
      BY <1>4, <1>6, <2>1, <2>2 DEF Lease
  <1>7. CASE LeaseFails(c) \/ LeaseLost(c)
    BY <1>3, <1>7 DEF LeaseFails, LeaseLost, marks, Handler
  <1>8. CASE Record(c)
    <2>1. s.port \in Ports
      BY <1>8, HandlerHead DEF Record, Serving
    <2>2. Then(c, "handler", <<Step("rewrite", s.why, s.port, None)>>)
          /\ UNCHANGED <<session, spent>>
      BY <1>8 DEF Record, Handler
    <2>3. /\ Step("rewrite", s.why, s.port, None) \in Steps
          /\ Serving(Step("rewrite", s.why, s.port, None))
          /\ Step("rewrite", s.why, s.port, None).why = s.why
      BY <1>2, <2>1, StepsMade DEF Serving
    <2> QED
      BY <1>4, <2>2, <2>3
  <1>9. CASE RewriteFails(c)
    <2> DEFINE t == Step("clear", None, s.port, None)
    <2>1. s.port \in Ports
      BY <1>9, HandlerHead DEF RewriteFails, Serving
    <2>2. /\ Then(c, "handler", <<t>>) /\ Unserved(c, s.why) /\ UNCHANGED spent
          /\ Next_(c, "handler", "rewrite")
      BY <1>9 DEF RewriteFails, Handler, marks
    <2>3. t \in Steps /\ t.what = "clear" /\ Cleaning(t)
      BY <2>1, StepsMade DEF Cleaning
    <2> HIDE DEF t, s
    <2>4. /\ todo' \in [Calls -> [Actors -> Seq(Steps)]] /\ Others(c, "handler")
          /\ Len(Handler(c)') = 1 /\ Handler(c)'[1] = t /\ Listed(c, "handler")' = {t}
      BY <2>2, <2>3, HandlerGoesOn
    <2>5. HandlerList(Handler(c)')
      BY <2>3, <2>4 DEF HandlerList
    <2> QED
      BY <1>2, <2>2, <2>3, <2>4, <2>5, UnservedIs
  <1> QED
    BY <1>5, <1>6, <1>7, <1>8, <1>9

(* What Rewrite does to the session of c.                                  *)
Stays(c) ==
  LET s == Head(Handler(c)) IN s.why = "offer" \/ (s.why # "stray" /\ session[c].at = "up")

LEMMA RewriteIs ==
  ASSUME TypeOK, Orderly, NEW c \in Calls, Rewrite(c)
  PROVE  LET s == Head(Handler(c))
         IN  /\ Typed /\ Orderly'
             /\ \A d \in Calls : d # c => session'[d] = session[d] /\ spent'[d] = spent[d]
             /\ s \in Listed(c, "handler") /\ s.what = "rewrite" /\ s.port \in Ports
             /\ Listed(c, "handler")' = {} /\ Others(c, "handler")
             /\ Listed(c, "handler") = {s} /\ Fits(c, s)
             /\ ~Stays(c) => /\ session'[c] = session[c] /\ spent'[c] = spent[c]
                            /\ leaked' = leaked \cup {s.port} /\ UNCHANGED <<peers, victims>>
                            /\ session[c].at \notin {"new", "up"}
             /\ Stays(c) =>
                  /\ session'[c].at = "up" /\ session[c].at \in {"new", "up"}
                  /\ leaked' = leaked \cup Overwritten(c, s.why)
                  /\ Overwritten(c, s.why) \subseteq PortsHeldBy(c)
                  /\ PortsHeldBy(c)' \subseteq PortsHeldBy(c) \cup {s.port}
                  /\ s.port \in PortsHeldBy(c)'
                  /\ PortsHeldBy(c) \subseteq PortsHeldBy(c)' \cup Overwritten(c, s.why)
  <1> DEFINE s == Head(Handler(c))
  <1>1. /\ s \in Listed(c, "handler") /\ s \in Steps /\ s.what = "rewrite" /\ Fits(c, s)
        /\ Serving(s) /\ s.port \in Ports /\ s.why \in Reasons
    BY HandlerHead DEF Rewrite, Serving
  <1>2. /\ todo' \in [Calls -> [Actors -> Seq(Steps)]] /\ Others(c, "handler")
        /\ Handler(c)' = <<>> /\ Listed(c, "handler")' = {} /\ Listed(c, "handler") = {s}
    BY HandlerEnds DEF Rewrite
  <1>3. OrderlyFor(c)
    BY DEF Orderly
  <1>4. CASE ~Stays(c)
    <2>1. session' = session /\ spent' = spent /\ leaked' = leaked \cup {s.port}
          /\ UNCHANGED <<peers, victims>>
      BY <1>4 DEF Rewrite, Stays, Handler
    <2>2. session[c].at \notin {"new", "up"}
      BY <1>1, <1>4 DEF Stays, Fits, Reasons
    <2> DEFINE m == session[c]
    <2>3. /\ m.at \in {"new", "refused", "up", "gone"}
          /\ m = [at |-> m.at, gateway |-> m.gateway, caller |-> m.caller]
          /\ m.gateway \in Ports \cup {None} /\ m.caller \in Ports \cup {None}
          /\ spent[c] \subseteq Ports
          /\ m.at # "up" => m.gateway = None /\ m.caller = None
          /\ m.at \notin {"up", "gone"} => spent[c] = {}
      BY <1>3, SessionFields DEF OrderlyFor, TypeOK
    <2>4. session' = [session EXCEPT ![c] = m] /\ spent' = [spent EXCEPT ![c] = spent[c]]
      BY <2>1 DEF TypeOK
    <2> HIDE DEF m
    <2>5. session[c].at = "gone" => m.at = "gone"
      BY DEF m
    <2>6. Typed /\ Orderly'
      BY <1>2, <2>3, <2>4, <2>5, EndsOrderly, EmptyList
    <2> QED
      BY <1>1, <1>2, <1>4, <2>1, <2>2, <2>6
  <1>5. CASE Stays(c) /\ s.why = "answer"
    <2> DEFINE r == session[c]
               m == [r EXCEPT !.caller = s.port]
    <2>1. /\ session' = [session EXCEPT ![c] = m]
          /\ spent' = [spent EXCEPT ![c] = spent[c] \ {s.port}]
          /\ leaked' = leaked \cup Overwritten(c, s.why)
      BY <1>5 DEF Rewrite, Stays, Handler, TypeOK
    <2>2. r.at = "up" /\ r.gateway \in Ports \cup {None}
      BY <1>5, SessionFields DEF Stays
    <2>3. m.at = "up" /\ m.gateway = r.gateway /\ m.caller = s.port
          /\ m = [at |-> m.at, gateway |-> m.gateway, caller |-> m.caller]
      <3>1. r = [at |-> r.at, gateway |-> r.gateway, caller |-> r.caller]
        BY DEF TypeOK
      <3> HIDE DEF r
      <3> QED
        BY <2>2, <3>1
    <2> HIDE DEF m
    <2>4. spent[c] \ {s.port} \subseteq Ports
      BY SessionFields
    <2>5. Typed /\ Orderly'
      BY <1>1, <1>2, <2>1, <2>2, <2>3, <2>4, EndsOrderly, EmptyList
    <2>6. session'[c] = m /\ spent'[c] = spent[c] \ {s.port}
          /\ \A d \in Calls : d # c => session'[d] = session[d] /\ spent'[d] = spent[d]
      BY <2>1 DEF TypeOK
    <2>7. PortsHeldBy(c) = ({r.gateway, r.caller} \ {None}) \ spent[c]
      BY <2>2 DEF PortsHeldBy, Stored
    <2>8. PortsHeldBy(c)' = ({r.gateway, s.port} \ {None}) \ (spent[c] \ {s.port})
      BY <2>3, <2>6 DEF PortsHeldBy, Stored
    <2>9. Overwritten(c, s.why) = {r.caller} \ ({None} \cup spent[c])
      BY <1>5 DEF Overwritten
    <2>10. s.port # None
      BY <1>1, Constants
    <2>11. /\ Overwritten(c, s.why) \subseteq PortsHeldBy(c)
           /\ PortsHeldBy(c)' \subseteq PortsHeldBy(c) \cup {s.port}
           /\ s.port \in PortsHeldBy(c)'
           /\ PortsHeldBy(c) \subseteq PortsHeldBy(c)' \cup Overwritten(c, s.why)
      <3> HIDE DEF r
      <3> QED
        BY <2>7, <2>8, <2>9, <2>10
    <2> QED
      BY <1>1, <1>2, <1>5, <2>1, <2>2, <2>3, <2>5, <2>6, <2>11
  <1>6. CASE Stays(c) /\ s.why # "answer"
    <2> DEFINE m == [at |-> "up", gateway |-> s.port, caller |-> None]
               h == IF s.why = "failover" THEN {} ELSE spent[c] \ {s.port}
    <2>1. /\ session' = [session EXCEPT ![c] = m] /\ spent' = [spent EXCEPT ![c] = h]
          /\ leaked' = leaked \cup Overwritten(c, s.why) /\ Overwritten(c, s.why) = {}
      BY <1>6 DEF Rewrite, Stays, Handler, TypeOK, Overwritten
    <2>2. s.why \in {"offer", "failover"} /\ session[c].at \in {"new", "up"}
      BY <1>1, <1>6 DEF Stays, Fits, Reasons
    <2>3. PortsHeldBy(c) = {} /\ h = {}
      BY <1>1, <1>3, <2>2 DEF Fits, OrderlyFor, PortsHeldBy
    <2>4. m.at = "up" /\ m.gateway = s.port /\ m.caller = None
          /\ m = [at |-> m.at, gateway |-> m.gateway, caller |-> m.caller]
      OBVIOUS
    <2> HIDE DEF m, h
    <2>5. Typed /\ Orderly'
      BY <1>1, <1>2, <2>1, <2>2, <2>3, <2>4, EndsOrderly, EmptyList
    <2>6. session'[c] = m /\ spent'[c] = {}
          /\ \A d \in Calls : d # c => session'[d] = session[d] /\ spent'[d] = spent[d]
      BY <2>1, <2>3 DEF TypeOK
    <2>7. PortsHeldBy(c)' = {s.port}
      BY <1>1, <2>4, <2>6, Constants DEF PortsHeldBy, Stored
    <2> QED
      BY <1>1, <1>2, <1>6, <2>1, <2>2, <2>3, <2>4, <2>5, <2>6, <2>7
  <1> QED
    BY <1>4, <1>5, <1>6

LEMMA WithoutEndpointIs ==
  ASSUME TypeOK, Orderly, NEW c \in Calls, RewriteWithoutEndpoint(c)
  PROVE  LET s == Head(Handler(c))
         IN  /\ Typed /\ Orderly' /\ UNCHANGED <<session, spent>>
             /\ s \in Listed(c, "handler") /\ s.what = "rewrite" /\ s.port \in Ports
             /\ Listed(c, "handler")' = {} /\ Others(c, "handler")
             /\ Listed(c, "handler") = {s} /\ Fits(c, s)
             /\ s.why \in {"answer", "stray"}
             /\ leaked' = leaked \cup {s.port}
  <1> DEFINE s == Head(Handler(c))
             m == session[c]
  <1>1. /\ s \in Listed(c, "handler") /\ s.what = "rewrite" /\ Fits(c, s) /\ s.port \in Ports
    BY HandlerHead DEF RewriteWithoutEndpoint, Serving
  <1>2. /\ todo' \in [Calls -> [Actors -> Seq(Steps)]] /\ Others(c, "handler")
        /\ Handler(c)' = <<>> /\ Listed(c, "handler")' = {} /\ Listed(c, "handler") = {s}
    BY HandlerEnds DEF RewriteWithoutEndpoint
  <1>3. OrderlyFor(c)
    BY DEF Orderly
  <1>4. session' = session /\ spent' = spent /\ leaked' = leaked \cup {s.port}
        /\ s.why \in {"answer", "stray"}
    BY DEF RewriteWithoutEndpoint, Handler
  <1>5. /\ m.at \in {"new", "refused", "up", "gone"}
        /\ m = [at |-> m.at, gateway |-> m.gateway, caller |-> m.caller]
        /\ m.gateway \in Ports \cup {None} /\ m.caller \in Ports \cup {None}
        /\ spent[c] \subseteq Ports
        /\ m.at # "up" => m.gateway = None /\ m.caller = None
        /\ m.at \notin {"up", "gone"} => spent[c] = {}
    BY <1>3, SessionFields DEF OrderlyFor, TypeOK
  <1>6. session' = [session EXCEPT ![c] = m] /\ spent' = [spent EXCEPT ![c] = spent[c]]
    BY <1>4 DEF TypeOK
  <1>7. session[c].at = "gone" => m.at = "gone"
    OBVIOUS
  <1> HIDE DEF m
  <1>8. Typed /\ Orderly'
    BY <1>2, <1>5, <1>6, <1>7, EndsOrderly, EmptyList
  <1> QED
    BY <1>1, <1>2, <1>4, <1>8
-----------------------------------------------------------------------------
(* Types and lists of every step.                                          *)

LEMMA OrderlyStep ==
  ASSUME TypeOK, Orderly, Books, Next
  PROVE  Typed /\ Orderly'
  <1>1. PICK c \in Calls : HandlerStep(c) \/ \E who \in Actors : CleanerStep(c, who)
    BY NextIs
  <1>2. CASE Invite(c) \/ Answer(c) \/ LateAnswer(c)
    BY <1>2, StartsOrderly
  <1>3. CASE Failover(c) \/ Failure(c)
    BY <1>3, GivesUpOrderly
  <1>4. CASE Teardown(c)
    BY <1>4, TeardownOrderly
  <1>5. CASE Remove(c)
    BY <1>5, RemoveOrderly
  <1>6. CASE Choose(c) \/ Lease(c) \/ LeaseFails(c) \/ LeaseLost(c) \/ Record(c)
             \/ RewriteFails(c)
    BY <1>6, ServesOrderly
  <1>7. CASE Rewrite(c)
    BY <1>7, RewriteIs
  <1>8. CASE \E who \in Actors : CleanerStep(c, who)
    BY <1>8, CleansOrderly
  <1>9. CASE InviteWithoutSdp(c)
    BY <1>9, WithoutSdpOrderly
  <1>10. CASE RewriteWithoutEndpoint(c)
    BY <1>10, WithoutEndpointIs
  <1> QED
    BY <1>1, <1>2, <1>3, <1>4, <1>5, <1>6, <1>7, <1>8, <1>9, <1>10 DEF HandlerStep

(* Nobody recovers from what another call did to it.                       *)
LEMMA VictimsStay ==
  ASSUME Next
  PROVE  victims \subseteq victims'
  <1>1. PICK c \in Calls : HandlerStep(c) \/ \E who \in Actors : CleanerStep(c, who)
    BY NextIs
  <1>2. CASE HandlerStep(c)
    BY <1>2 DEF HandlerStep, Invite, InviteWithoutSdp, Answer, LateAnswer, Failover, Failure, Teardown, Remove,
       Choose, Lease, LeaseFails, LeaseLost, Record, RewriteFails, Rewrite, RewriteWithoutEndpoint, Pair, marks
  <1>3. ASSUME NEW who \in Actors, CleanerStep(c, who) PROVE victims \subseteq victims'
    BY <1>3 DEF CleanerStep, ClearHere, ClearThere, ClearLost, Release, Forget, marks
  <1> QED
    BY <1>1, <1>2, <1>3

LEMMA TroublesTyped ==
  ASSUME troubles \in 0..MaxTroubles, Next
  PROVE  troubles' \in 0..MaxTroubles
  <1>1. PICK c \in Calls : HandlerStep(c) \/ \E who \in Actors : CleanerStep(c, who)
    BY NextIs
  <1>2. HandlerStep(c) => troubles' = troubles \/ Trouble
    BY DEF HandlerStep, Invite, InviteWithoutSdp, Answer, LateAnswer, Failover, Failure, Teardown, Remove,
       Choose, Lease, LeaseFails, LeaseLost, Record, RewriteFails, Rewrite,
       RewriteWithoutEndpoint
  <1>3. \A who \in Actors : CleanerStep(c, who) => troubles' = troubles \/ Trouble
    BY DEF CleanerStep, ClearHere, ClearThere, ClearLost, Release, Forget, marks
  <1>4. troubles' = troubles \/ (troubles < MaxTroubles /\ troubles' = troubles + 1)
    BY <1>1, <1>2, <1>3 DEF Trouble
  <1> QED
    BY <1>4, Constants

LEMMA RelayTyped ==
  ASSUME TypeOK, Orderly, Next
  PROVE  /\ leased' \subseteq Ports /\ peers' \in [Ports -> Ports \cup {None}]
         /\ owner' \in [Ports -> Keys \cup {None}]
         /\ leaked' \subseteq Ports /\ victims' \subseteq Keys
  <1> DEFINE Rest == /\ leased' \subseteq Ports /\ peers' \in [Ports -> Ports \cup {None}]
                     /\ owner' \in [Ports -> Keys \cup {None}]
                     /\ leaked' \subseteq Ports /\ victims' \subseteq Keys
  <1> SUFFICES Rest
    OBVIOUS
  <1>0. /\ leased \subseteq Ports /\ peers \in [Ports -> Ports \cup {None}]
        /\ owner \in [Ports -> Keys \cup {None}]
        /\ leaked \subseteq Ports /\ victims \subseteq Keys
        /\ \A p \in Ports : pool.call[p] \in Keys \cup {None}
    BY DEF TypeOK
  <1>1. PICK c \in Calls : HandlerStep(c) \/ \E who \in Actors : CleanerStep(c, who)
    BY NextIs
  <1>3. CASE Invite(c) \/ Answer(c) \/ LateAnswer(c) \/ Failover(c) \/ Failure(c) \/ Teardown(c)
             \/ Remove(c) \/ Choose(c) \/ LeaseFails(c) \/ RewriteFails(c) \/ InviteWithoutSdp(c)
    <2>1. UNCHANGED <<leased, peers, owner, leaked, victims>>
      BY <1>3 DEF Invite, Answer, LateAnswer, Failover, Failure, Teardown, Remove,
         Choose, LeaseFails, RewriteFails, InviteWithoutSdp, relay, marks
    <2> QED
      BY <1>0, <2>1
  <1>4. CASE Lease(c) \/ LeaseLost(c)
    <2> DEFINE k == KeyOf(c, Head(Handler(c)).why)
    <2>1. k \in Keys
      BY KeyType
    <2>2. PICK p \in Ports : /\ Grant(k, p) /\ peers' = peers
                             /\ leaked' \subseteq leaked \cup {p}
                             /\ victims' \subseteq victims \cup {k}
      BY <1>4 DEF Lease, LeaseLost, Available, Handler
    <2> HIDE DEF k
    <2>3. leased' \subseteq Ports /\ owner' \in [Ports -> Keys \cup {None}]
      BY <1>0, <2>1, <2>2 DEF Grant
    <2>4. leaked' \subseteq Ports /\ victims' \subseteq Keys
      BY <1>0, <2>1, <2>2
    <2>5. peers' \in [Ports -> Ports \cup {None}]
      BY <1>0, <2>2
    <2> QED
      BY <2>3, <2>4, <2>5
  <1>5. CASE Record(c)
    <2>1. Head(Handler(c)).port \in Ports
      BY <1>5, HandlerHead DEF Record, Serving
    <2>2. /\ UNCHANGED <<leased, peers, owner, leaked>>
          /\ victims' = victims \cup ({pool.call[Head(Handler(c)).port]} \ {None})
      BY <1>5 DEF Record, relay, Handler
    <2> QED
      BY <1>0, <2>1, <2>2
  <1>6. CASE Rewrite(c)
    <2> DEFINE p == Head(Handler(c)).port
               g == session[c].gateway
    <2>1. p \in Ports /\ g \in Ports \cup {None}
      BY <1>6, RewriteIs, SessionFields
    <2>2. /\ leased' = leased /\ owner' = owner
          /\ UNCHANGED <<peers, victims>> \/ (g # None /\ Pair(c, g, p))
      BY <1>6 DEF Rewrite, Handler
    <2>4. leaked' \subseteq Ports
      <3>1. leaked' \subseteq leaked \cup {p} \cup PortsHeldBy(c)
        BY <1>6, RewriteIs
      <3> QED
        BY <1>0, <2>1, <3>1, SessionFields
    <2> HIDE DEF p, g
    <2>3. peers' \in [Ports -> Ports \cup {None}] /\ victims' \subseteq Keys
      <3>1. CASE UNCHANGED <<peers, victims>>
        BY <1>0, <3>1
      <3>2. CASE g # None /\ Pair(c, g, p)
        <4>1. owner[g] \in Keys \cup {None} /\ owner[p] \in Keys \cup {None}
          BY <1>0, <2>1, <3>2
        <4> QED
          BY <1>0, <2>1, <3>2, <4>1 DEF Pair, OwnersBut
      <3> QED
        BY <2>2, <3>1, <3>2
    <2> QED
      BY <1>0, <2>1, <2>2, <2>3, <2>4
  <1>7. ASSUME NEW who \in Actors, ClearHere(c, who) PROVE Rest
    <2> DEFINE p == Head(todo[c][who]).port
    <2>1. p \in Ports
      BY <1>7, CleaningHead DEF ClearHere
    <2>2. /\ leased' \subseteq leased
          /\ owner' = [x \in Ports |-> IF x \in {p, peers[p]} \cap LocalPorts THEN None ELSE owner[x]]
          /\ peers' = [x \in Ports |-> IF x \in {p, peers[p]} THEN None ELSE peers[x]]
          /\ victims' = victims \cup OwnersBut({p, peers[p]} \cap LocalPorts, c)
          /\ leaked' \subseteq leaked \cup {p}
      BY <1>7 DEF ClearHere
    <2> HIDE DEF p
    <2>3. owner' \in [Ports -> Keys \cup {None}] /\ peers' \in [Ports -> Ports \cup {None}]
      BY <1>0, <2>2
    <2>4. victims' \subseteq Keys
      BY <1>0, <2>2, Constants DEF OwnersBut
    <2> QED
      BY <1>0, <2>1, <2>2, <2>3, <2>4
  <1>8. ASSUME NEW who \in Actors, ClearThere(c, who) \/ ClearLost(c, who) \/ Release(c, who)
        PROVE  Rest
    <2> DEFINE p == Head(todo[c][who]).port
    <2>1. p \in Ports
      BY <1>8, CleaningHead DEF ClearThere, ClearLost, Release
    <2>2. /\ leased' \subseteq leased /\ peers' = peers
          /\ owner' = owner \/ owner' = [owner EXCEPT ![p] = None]
          /\ victims' \subseteq victims \cup ({owner[p], pool.call[p]} \ {None})
          /\ leaked' \subseteq leaked \cup {p}
      BY <1>8 DEF ClearThere, ClearLost, Release, relay, OwnersBut
    <2> HIDE DEF p
    <2>3. owner' \in [Ports -> Keys \cup {None}]
      BY <1>0, <2>2
    <2>4. victims' \subseteq Keys
      BY <1>0, <2>1, <2>2
    <2> QED
      BY <1>0, <2>1, <2>2, <2>3, <2>4
  <1>9. CASE RewriteWithoutEndpoint(c)
    <2>1. Head(Handler(c)).port \in Ports /\ leaked' = leaked \cup {Head(Handler(c)).port}
      BY <1>9, WithoutEndpointIs
    <2>2. UNCHANGED <<leased, peers, owner, victims>>
      BY <1>9 DEF RewriteWithoutEndpoint, relay
    <2> QED
      BY <1>0, <2>1, <2>2
  <1>10. ASSUME NEW who \in Actors, Forget(c, who) PROVE Rest
    BY <1>0, <1>10 DEF Forget, relay, marks
  <1> HIDE DEF Rest
  <1> QED
    BY <1>1, <1>3, <1>4, <1>5, <1>6, <1>7, <1>8, <1>9, <1>10 DEF HandlerStep, CleanerStep

LEMMA TypeStep ==
  ASSUME TypeOK, Orderly, Next, Typed, Books'
  PROVE  TypeOK'
  <1>1. pool' \in Pools
    BY DEF Books, Covered
  <1>2. troubles' \in 0..MaxTroubles
    BY TroublesTyped DEF TypeOK
  <1> QED
    BY <1>1, <1>2, RelayTyped DEF TypeOK, Typed, Pools

(* A port of a media-edge is never paired.                                 *)
LEMMA PairsStep ==
  ASSUME TypeOK, Orderly, LocalPairs, Next
  PROVE  LocalPairs'
  <1>1. PICK c \in Calls : HandlerStep(c) \/ \E who \in Actors : CleanerStep(c, who)
    BY NextIs
  <1>2. CASE peers' = peers
    BY <1>2 DEF LocalPairs
  <1>3. CASE Rewrite(c) /\ peers' # peers
    <2> DEFINE p == Head(Handler(c)).port
               g == session[c].gateway
    <2>1. p \in Ports /\ g \in Ports \cup {None}
      BY <1>3, RewriteIs, SessionFields
    <2>2. g # None /\ Pair(c, g, p) /\ Pairable(g, p)
      BY <1>3 DEF Rewrite, Handler
    <2> HIDE DEF p, g
    <2>3. p \in LocalPorts /\ g \in LocalPorts
      BY <2>1, <2>2 DEF Pairable, LocalPorts
    <2>4. \A x \in Ports : peers'[x] = peers[x] \/ (x \in {g, p} /\ peers'[x] \in {g, p})
      BY <2>1, <2>2 DEF Pair, TypeOK
    <2> QED
      BY <2>3, <2>4 DEF LocalPairs
  <1>4. ASSUME NEW who \in Actors, ClearHere(c, who) PROVE LocalPairs'
    <2>1. \A x \in Ports : peers'[x] = peers[x] \/ peers'[x] = None
      BY <1>4 DEF ClearHere
    <2> QED
      BY <2>1 DEF LocalPairs
  <1>5. HandlerStep(c) => Rewrite(c) \/ peers' = peers
    BY DEF HandlerStep, Invite, InviteWithoutSdp, Answer, LateAnswer, Failover, Failure, Teardown, Remove,
       Choose, Lease, LeaseFails, LeaseLost, Record, RewriteFails, RewriteWithoutEndpoint, relay
  <1>6. \A who \in Actors : CleanerStep(c, who) => ClearHere(c, who) \/ peers' = peers
    BY DEF CleanerStep, ClearThere, ClearLost, Release, Forget, relay
  <1> QED
    BY <1>1, <1>2, <1>3, <1>4, <1>5, <1>6
-----------------------------------------------------------------------------
(* What no other call has harmed.                                          *)

Calm(c) ==
  /\ RecordsOf(c) /\ Holds(c)
  /\ \A s \in Listed(c, "handler") : Underway(c, s)

LEMMA UndisturbedIs == Undisturbed <=> \A c \in Calls : Live(c) => Calm(c)
  BY DEF Undisturbed, Calm

LEMMA UndisturbedWillBe == Undisturbed' <=> \A c \in Calls : Live(c)' => Calm(c)'
  BY DEF Undisturbed, Calm

(* What a step of another call leaves c.                                   *)
Spared(c) ==
  /\ session'[c] = session[c] /\ spent'[c] = spent[c]
  /\ Listed(c, "handler")' = Listed(c, "handler")
  /\ \A p \in Ports : Mine(c, p) => Mine(c, p)' /\ (peers[p] = None => peers'[p] = None)
  /\ \A p \in Ports : pool'.call[p] = c <=> pool.call[p] = c
  /\ pool'.node[c] = pool.node[c]
  /\ \A p \in Ports : peers'[p] = peers[p] \/ peers'[p] = None \/ ~Mine(c, peers'[p])

LEMMA SparedIsCalm ==
  ASSUME TypeOK, Orderly, NEW c \in Calls, Calm(c), Spared(c)
  PROVE  Calm(c)'
  <1>1. PortsHeldBy(c)' = PortsHeldBy(c)
    BY DEF Spared, PortsHeldBy, Stored
  <1>2. RecordsOf(c)'
    BY DEF Spared, Calm, RecordsOf
  <1>3. PortsHeldBy(c) \subseteq Ports /\ None \notin PortsHeldBy(c)
    BY SessionFields
  <1>4. Holds(c)'
    BY <1>1, <1>3 DEF Spared, Calm, Holds
  <1>5. ASSUME NEW s \in Listed(c, "handler") PROVE Underway(c, s)'
    <2>1. Underway(c, s)
      BY <1>5 DEF Calm
    <2>2. s.what \in {"record", "rewrite", "clear", "release"} => s.port \in Ports
      <3>1. HandlerList(Handler(c)) /\ \E i \in 1..Len(Handler(c)) : s = Handler(c)[i]
        BY <1>5 DEF Orderly, OrderlyFor, Listed, Handler
      <3> QED
        BY <3>1 DEF HandlerList, Serving, Asking, Removing, Cleaning
    <2>3. ASSUME s.what \in {"clear", "release"}
          PROVE  s.port \notin PortsHeldBy(c) /\ peers'[s.port] \notin PortsHeldBy(c)
      <3>1. s.port \in Ports /\ s.port \notin PortsHeldBy(c) /\ peers[s.port] \notin PortsHeldBy(c)
        BY <2>1, <2>2, <2>3 DEF Underway
      <3>2. \A p \in PortsHeldBy(c) : Mine(c, p)
        BY DEF Calm, Holds
      <3> QED
        BY <1>3, <3>1, <3>2 DEF Spared
    <2> QED
      BY <1>1, <2>1, <2>2, <2>3 DEF Underway, Spared
  <1> QED
    BY <1>2, <1>4, <1>5 DEF Calm, Spared

(* Who records a port of its own keeps it.                                 *)
LEMMA RecordedIsMine ==
  ASSUME NEW c \in Calls, Calm(c), NEW p \in LocalPorts, pool.call[p] = c
  PROVE  Mine(c, p)
  BY Constants DEF Calm, RecordsOf

LEMMA ListsOfOthers ==
  ASSUME TypeOK, NEW d, NEW c \in Calls, c # d
  PROVE  /\ \A who, L : Then(d, who, L) => Listed(c, "handler")' = Listed(c, "handler")
         /\ \A who, L : Start(d, who, L) => Listed(c, "handler")' = Listed(c, "handler")
  <1>1. \A who, L : Then(d, who, L) => todo'[c] = todo[c]
    BY DEF Then, TypeOK
  <1>2. \A who, L : Start(d, who, L) => todo'[c] = todo[c]
    BY DEF Start, TypeOK
  <1> QED
    BY <1>1, <1>2 DEF Listed

(* A step of another call either spares c or makes it a victim.            *)
LEMMA SparedByHandler ==
  ASSUME TypeOK, Orderly, Books, LocalPairs, NEW d \in Calls, HandlerStep(d),
         NEW c \in Calls, c # d, Calm(c), c \notin victims'
  PROVE  Spared(c)
  <1>0. c \in Keys /\ c # Stray /\ c # None /\ \A why : KeyOf(d, why) # c
    BY Constants, KeyType
  <1>1. /\ session'[c] = session[c] /\ spent'[c] = spent[c]
    <2>1. \A why : Unserved(d, why) => session'[c] = session[c]
      BY DEF Unserved, TypeOK
    <2>2. CASE Choose(d) \/ LeaseFails(d) \/ LeaseLost(d) \/ RewriteFails(d)
      BY <2>1, <2>2 DEF Choose, LeaseFails, LeaseLost, RewriteFails, marks
    <2>3. CASE Invite(d) \/ Answer(d) \/ LateAnswer(d) \/ Failover(d) \/ Failure(d)
               \/ Teardown(d) \/ Remove(d) \/ Lease(d) \/ Record(d)
               \/ InviteWithoutSdp(d) \/ RewriteWithoutEndpoint(d)
      BY <2>3 DEF InviteWithoutSdp, RewriteWithoutEndpoint, Invite, Answer, LateAnswer, Failover, Failure, Teardown, Remove,
         Lease, Record, marks, TypeOK
    <2>4. CASE Rewrite(d)
      BY <2>4, RewriteIs
    <2> QED
      BY <2>2, <2>3, <2>4 DEF HandlerStep
  <1>2. Listed(c, "handler")' = Listed(c, "handler")
    <2>1. CASE todo' = todo
      BY <2>1 DEF Listed
    <2>2. HandlerStep(d) => \/ todo' = todo \/ \E who, L : Then(d, who, L)
                            \/ \E who, L : Start(d, who, L)
      BY DEF HandlerStep, Invite, InviteWithoutSdp, Answer, LateAnswer, Failover, Failure,
         Teardown, Remove, Choose, Lease, LeaseFails, LeaseLost, Record, RewriteFails, Rewrite,
         RewriteWithoutEndpoint
    <2> QED
      BY <2>1, <2>2, ListsOfOthers
  <1>3. \A p \in Ports : Mine(c, p) => Mine(c, p)'
    <2>1. CASE UNCHANGED <<leased, owner>>
      BY <2>1 DEF Mine
    <2>2. CASE \E k \in Keys, p \in Ports : p \notin leased /\ Grant(k, p)
      BY <2>2 DEF Mine, Grant, TypeOK
    <2>3. HandlerStep(d) => \/ UNCHANGED <<leased, owner>>
                            \/ \E k \in Keys, p \in Ports : p \notin leased /\ Grant(k, p)
      BY KeyType DEF HandlerStep, Invite, InviteWithoutSdp, Answer, LateAnswer, Failover, Failure, Teardown, Remove,
         Choose, Lease, LeaseFails, LeaseLost, Record, RewriteFails, Rewrite, RewriteWithoutEndpoint,
         relay, Available
    <2> QED
      BY <2>1, <2>2, <2>3
  <1>4. \/ peers' = peers
        \/ \E g, p \in Ports : Pair(d, g, p)
    <2>1. CASE Rewrite(d)
      BY <2>1, RewriteIs, SessionFields DEF Rewrite, Handler
    <2> QED
      BY <2>1 DEF HandlerStep, Invite, InviteWithoutSdp, Answer, LateAnswer, Failover, Failure, Teardown, Remove,
         Choose, Lease, LeaseFails, LeaseLost, Record, RewriteFails, RewriteWithoutEndpoint, relay
  <1>5. /\ \A p \in Ports : Mine(c, p) => (peers[p] = None => peers'[p] = None)
        /\ \A p \in Ports : peers'[p] = peers[p] \/ peers'[p] = None \/ ~Mine(c, peers'[p])
    <2>1. ASSUME NEW g \in Ports, NEW p \in Ports, Pair(d, g, p)
          PROVE  /\ ~Mine(c, g) /\ ~Mine(c, p)
                 /\ \A x \in Ports : peers'[x] = peers[x] \/ (x \in {g, p} /\ peers'[x] \in {g, p})
      BY <1>0, <2>1 DEF Pair, OwnersBut, Mine, TypeOK
    <2> QED
      BY <1>4, <2>1
  <1>6. /\ \A p \in Ports : pool'.call[p] = c <=> pool.call[p] = c
        /\ pool'.node[c] = pool.node[c]
    <2>0. Covered(pool)
      BY DEF Books
    <2>1. CASE pool' = pool
      BY <2>1
    <2>2. CASE \E k \in Keys, n \in Nodes \cup {None} :
                 k # c /\ pool' = [pool EXCEPT !.node[k] = n]
      <3>1. PICK k \in Keys, n \in Nodes \cup {None} :
                 k # c /\ pool' = [pool EXCEPT !.node[k] = n]
        BY <2>2
      <3>2. Covered(pool) /\ k \in Keys /\ n \in Nodes \cup {None}
        BY <2>0, <3>1
      <3>3. pool' = [pool EXCEPT !.node[k] = n]
        BY <3>1
      <3>4. pool'.call = pool.call /\ \A j \in Keys : j # k => pool'.node[j] = pool.node[j]
        <4>1. pool'.call = pool.call /\ pool'.node = [pool.node EXCEPT ![k] = n]
          BY <3>2, <3>3 DEF Covered, Pools
        <4>2. pool.node \in [Keys -> Nodes \cup {None}]
          BY <3>2, PoolFields DEF Covered
        <4> QED
          BY <4>1, <4>2
      <3> QED
        BY <1>0, <3>1, <3>4
    <2>3. CASE Teardown(d)
      <3>1. \A n \in NodesFor(d) : n \in Nodes \cup {None}
        BY <2>0, Constants, PoolFields DEF NodesFor, Covered
      <3> QED
        BY <2>1, <2>2, <2>3, <3>1, Constants DEF Teardown
    <2>4. CASE Choose(d)
      <3> DEFINE k == KeyOf(d, Head(Handler(d)).why)
      <3>1. k \in Keys /\ k # c
        BY <1>0, KeyType
      <3>2. pool' = pool \/ \E n \in NodesFor(k) : pool' = [pool EXCEPT !.node[k] = n]
        BY <2>4 DEF Choose, Handler
      <3> HIDE DEF k
      <3>3. \A n \in NodesFor(k) : n \in Nodes \cup {None}
        BY <2>0, <3>1, PoolFields DEF NodesFor, Covered
      <3> QED
        BY <2>1, <2>2, <3>1, <3>2, <3>3
    <2>5. CASE LeaseFails(d) \/ LeaseLost(d)
      <3> DEFINE k == KeyOf(d, Head(Handler(d)).why)
      <3>1. k \in Keys /\ k # c /\ pool' = Cancelled(k)
        BY <1>0, <2>5, KeyType DEF LeaseFails, LeaseLost, Handler
      <3> HIDE DEF k
      <3> QED
        BY <1>0, <2>0, <3>1, Cancelling
    <2>6. CASE Record(d)
      <3> DEFINE s == Head(Handler(d))
                 k == KeyOf(d, s.why)
      <3>1. s.port \in Ports /\ k \in Keys /\ k # c
        BY <1>0, <2>6, HandlerHead, KeyType DEF Record, Serving
      <3>2. pool' = Recorded(s.port, k) /\ victims' = victims \cup ({pool.call[s.port]} \ {None})
        BY <2>6 DEF Record, Handler
      <3> HIDE DEF s, k
      <3>3. /\ \A x \in Ports : pool'.call[x] = IF x = s.port THEN k ELSE pool.call[x]
            /\ pool'.node = pool.node
        BY <2>0, <3>1, <3>2, Recording
      <3>4. pool.call[s.port] # c
        BY <1>0, <3>2
      <3> QED
        BY <3>1, <3>3, <3>4
    <2>7. HandlerStep(d) => \/ pool' = pool \/ Teardown(d) \/ Choose(d)
                            \/ LeaseFails(d) \/ LeaseLost(d) \/ Record(d)
      BY DEF HandlerStep, Invite, InviteWithoutSdp, Answer, LateAnswer, Failover, Failure, Remove,
         Lease, RewriteFails, Rewrite,
       RewriteWithoutEndpoint
    <2> QED
      BY <2>1, <2>3, <2>4, <2>5, <2>6, <2>7
  <1> QED
    BY <1>1, <1>2, <1>3, <1>5, <1>6 DEF Spared

LEMMA SparedByCleaner ==
  ASSUME TypeOK, Orderly, Books, LocalPairs, Emptied, NEW c \in Calls, Live(c), NEW d \in Calls, NEW who \in Actors,
         CleanerStep(d, who), c # d, Calm(c), c \notin victims'
  PROVE  Spared(c)
  <1> DEFINE p == Head(todo[d][who]).port
  <1>0. (~Forget(d, who) => p \in Ports) /\ c # Stray /\ c # None /\ c \in Keys
    BY CleaningHead, Constants DEF CleanerStep, ClearHere, ClearThere, ClearLost, Release
  <1>1. session'[c] = session[c] /\ spent'[c] = spent[c]
    BY DEF CleanerStep, ClearHere, ClearThere, ClearLost, Release, Forget, marks
  <1>2. Listed(c, "handler")' = Listed(c, "handler")
    BY ListsOfOthers DEF CleanerStep, ClearHere, ClearThere, ClearLost, Release, Forget
  <1>6. CASE Forget(d, who)
    <2> DEFINE k == Head(todo[d][who]).why
    <2>1. /\ k \in Keys /\ Forgets(d, who, k)
          /\ pool' = Forgotten(k) /\ UNCHANGED <<leased, owner, peers>>
      BY <1>6, CleaningHead DEF Forget, Forgets, relay
    <2> HIDE DEF k
    <2>2. k # c
      BY <2>1 DEF Emptied, Live, Young
    <2>3. Covered(pool)
      BY DEF Books
    <2>4. pool'.call = pool.call /\ pool'.node[c] = pool.node[c]
      BY <1>0, <2>1, <2>2, <2>3, ForgettingKeeps
    <2>5. \A x \in Ports : Mine(c, x) <=> Mine(c, x)'
      BY <2>1 DEF Mine
    <2> QED
      BY <1>1, <1>2, <2>1, <2>4, <2>5 DEF Spared
  <1>3. CASE ClearHere(d, who) /\ p \in Ports
    <2> DEFINE q == peers[p]
               freed == {p, q} \cap LocalPorts
    <2>1. /\ p \in LocalPorts \/ pool.call[p] = None
          /\ leased' = leased \ freed
          /\ owner' = [x \in Ports |-> IF x \in freed THEN None ELSE owner[x]]
          /\ peers' = [x \in Ports |-> IF x \in {p, q} THEN None ELSE peers[x]]
          /\ pool' = Released(Released(pool, p), q)
          /\ victims' = victims \cup OwnersBut(freed, d)
      BY <1>3 DEF ClearHere
    <2>2. q \in Ports \cup {None} /\ (q # None => q \in LocalPorts)
      BY <1>3 DEF TypeOK, LocalPairs
    <2> HIDE DEF q
    <2>3. \A x \in freed : ~Mine(c, x)
      BY <1>0, <2>1 DEF OwnersBut, Mine
    <2>4. \A x \in {p, q} \cap Ports : pool.call[x] # c
      <3> SUFFICES ASSUME NEW x \in {p, q} \cap Ports, pool.call[x] = c PROVE FALSE
        OBVIOUS
      <3>1. x \in LocalPorts
        BY <1>0, <2>1, <2>2, Constants
      <3> QED
        BY <2>3, <3>1, RecordedIsMine
    <2>5. /\ \A x \in Ports : pool'.call[x] = IF x \in {p, q} THEN None ELSE pool.call[x]
          /\ pool'.node = pool.node
      BY <1>3, <2>1, <2>2, ReleasingTwo DEF p
    <2>6. \A x \in Ports : Mine(c, x) => Mine(c, x)'
      BY <2>1, <2>3 DEF Mine
    <2>7. \A x \in Ports : peers'[x] = peers[x] \/ peers'[x] = None
      BY <2>1
    <2> HIDE DEF freed
    <2> QED
      BY <1>0, <1>1, <1>2, <2>4, <2>5, <2>6, <2>7 DEF Spared
  <1>4. CASE (ClearThere(d, who) \/ ClearLost(d, who)) /\ p \in Ports
    <2>1. /\ pool' = pool /\ peers' = peers
          /\ \/ UNCHANGED <<leased, owner>>
             \/ /\ leased' = leased \ {p} /\ owner' = [owner EXCEPT ![p] = None]
                /\ victims' = victims \cup OwnersBut({p}, d)
      BY <1>4 DEF ClearThere, ClearLost, relay
    <2>2. \A x \in Ports : Mine(c, x) => Mine(c, x)'
      <3>1. CASE UNCHANGED <<leased, owner>>
        BY <3>1 DEF Mine
      <3>2. CASE /\ leased' = leased \ {p} /\ owner' = [owner EXCEPT ![p] = None]
                 /\ victims' = victims \cup OwnersBut({p}, d)
        <4>1. ~Mine(c, p)
          BY <1>0, <3>2 DEF OwnersBut, Mine
        <4> QED
          BY <3>2, <4>1 DEF Mine, TypeOK
      <3> QED
        BY <2>1, <3>1, <3>2
    <2> QED
      BY <1>1, <1>2, <2>1, <2>2 DEF Spared
  <1>5. CASE Release(d, who) /\ p \in Ports
    <2>1. /\ pool' = Released(pool, p) /\ UNCHANGED <<leased, owner, peers>>
          /\ victims' = victims \cup ({pool.call[p]} \ {None, d, Stray})
      BY <1>5 DEF Release, relay
    <2>2. pool.call[p] # c /\ Covered(pool) /\ p \in Ports \cup {None}
      BY <1>0, <1>5, <2>1 DEF Books, p
    <2>3. /\ \A x \in Ports : pool'.call[x] = IF x = p THEN None ELSE pool.call[x]
          /\ pool'.node = pool.node
      BY <1>0, <2>1, <2>2, Releasing
    <2>4. \A x \in Ports : Mine(c, x) <=> Mine(c, x)'
      BY <2>1 DEF Mine
    <2> QED
      BY <1>0, <1>1, <1>2, <2>1, <2>2, <2>3, <2>4 DEF Spared
  <1>7. Forget(d, who) \/ p \in Ports
    BY <1>0
  <1> QED
    BY <1>3, <1>4, <1>5, <1>6, <1>7 DEF CleanerStep

(* A step of c's own handler, which is not to release anything.            *)
LEMMA CalmAfter ==
  ASSUME TypeOK, NEW c \in Calls, Calm(c),
         \A s \in Listed(c, "handler") : s.what # "release",
         \A p \in Ports : pool'.call[p] = c => pool.call[p] = c \/ Mine(c, p)',
         \A p \in Ports : Mine(c, p) => Mine(c, p)',
         PortsHeldBy(c)' \subseteq PortsHeldBy(c),
         \A p \in PortsHeldBy(c)' : pool'.call[p] = c /\ pool'.node[c] = pool.node[c],
         \A s \in Listed(c, "handler")' : Underway(c, s)'
  PROVE  Calm(c)'
  <1>1. \A p \in Ports : pool.call[p] = c => Mine(c, p)
    BY DEF Calm, RecordsOf
  <1>2. RecordsOf(c)'
    BY <1>1 DEF RecordsOf
  <1>3. Holds(c)'
    BY SessionFields DEF Calm, Holds
  <1> QED
    BY <1>2, <1>3 DEF Calm

(* A message of a call in service comes in.                                *)
LEMMA CalmStart ==
  ASSUME TypeOK, Orderly, NEW c \in Calls, Live(c) => Calm(c), Live(c)',
         victims \subseteq victims',
         Invite(c) \/ Answer(c) \/ LateAnswer(c) \/ Failover(c) \/ Failure(c)
  PROVE  Calm(c)'
  <1>1. UNCHANGED <<relay, pool, session, owner>>
    BY DEF Invite, Answer, LateAnswer, Failover, Failure
  <1>2. Calm(c) /\ Live(c)
    BY <1>1 DEF Live
  <1>3. \A p : Mine(c, p)' <=> Mine(c, p)
    BY <1>1 DEF Mine, relay
  <1>4. CASE Invite(c) \/ Answer(c) \/ LateAnswer(c)
    <2>1. PICK why \in Reasons : Start(c, "handler", Choice(why)) /\ UNCHANGED spent
      BY <1>4 DEF Invite, Answer, LateAnswer, marks, Reasons
    <2>2. Step("choose", why, None, None) \in Steps /\ Step("choose", why, None, None).what = "choose"
      BY StepsMade
    <2>3. Listed(c, "handler") = {} /\ \A s \in Listed(c, "handler")' : s.what = "choose"
      <3> DEFINE L == Choice(why)
      <3>1. L \in Seq(Steps) /\ \A i \in 1..Len(L) : L[i].what = "choose"
        BY <2>2 DEF Choice
      <3>2. Start(c, "handler", L)
        BY <2>1
      <3> HIDE DEF L
      <3> QED
        BY <3>1, <3>2, Started DEF Actors
    <2>4. PortsHeldBy(c)' = PortsHeldBy(c)
      BY <1>1, <2>1 DEF PortsHeldBy, Stored
    <2>5. \A s \in Listed(c, "handler")' : Underway(c, s)'
      BY <2>3 DEF Underway, Cleaning
    <2>6. \A p \in PortsHeldBy(c) : pool.call[p] = c
      BY <1>2 DEF Calm, Holds
    <2> QED
      BY <1>1, <1>2, <1>3, <2>3, <2>4, <2>5, <2>6, CalmAfter
  <1>5. CASE Failover(c) \/ Failure(c)
    <2>1. PortsHeldBy(c)' = {}
      BY <1>5, GivesUpOrderly
    <2>3. /\ \A s \in Listed(c, "handler")' : s.what \in {"choose", "remove", "clear"}
          /\ Listed(c, "handler") = {}
      BY <1>5, GivesUp
    <2>4. \A s \in Listed(c, "handler")' : Underway(c, s)'
      BY <2>1, <2>3 DEF Underway
    <2> QED
      BY <1>1, <1>2, <1>3, <2>1, <2>3, <2>4, CalmAfter
  <1> QED
    BY <1>4, <1>5

(* An INVITE without SDP has no port yet, and an answer without endpoint   *)
(* leaves c what it has.                                                   *)
LEMMA CalmWithout ==
  ASSUME TypeOK, Orderly, NEW c \in Calls, Live(c) => Calm(c), Live(c)',
         victims \subseteq victims', InviteWithoutSdp(c) \/ RewriteWithoutEndpoint(c)
  PROVE  Calm(c)'
  <1>1. /\ PortsHeldBy(c)' \subseteq PortsHeldBy(c)
        /\ session[c].at \in {"new", "up"}
        /\ \A s \in Listed(c, "handler") : s.what = "rewrite"
        /\ Listed(c, "handler")' = {}
    <2>1. CASE InviteWithoutSdp(c)
      <3>1. PortsHeldBy(c)' = {} /\ session[c].at = "new" /\ Listed(c, "handler") = {}
            /\ todo' = todo
        BY <2>1, WithoutSdpOrderly
      <3>2. Listed(c, "handler")' = Listed(c, "handler")
        BY <3>1 DEF Listed
      <3> QED
        BY <3>1, <3>2
    <2>2. CASE RewriteWithoutEndpoint(c)
      <3> DEFINE s == Head(Handler(c))
      <3>1. /\ UNCHANGED <<session, spent>> /\ s.what = "rewrite"
            /\ Listed(c, "handler")' = {} /\ Listed(c, "handler") = {s}
        BY <2>2, WithoutEndpointIs
      <3> HIDE DEF s
      <3>2. PortsHeldBy(c)' = PortsHeldBy(c) /\ session[c].at \in {"new", "up"}
        BY <3>1 DEF PortsHeldBy, Stored, Live
      <3> QED
        BY <3>1, <3>2
    <2> QED
      BY <2>1, <2>2
  <1>2. Calm(c)
    BY <1>1 DEF Live
  <1>3. UNCHANGED <<leased, owner, pool>>
    BY DEF InviteWithoutSdp, RewriteWithoutEndpoint, relay, marks
  <1>4. \A p : Mine(c, p)' <=> Mine(c, p)
    BY <1>3 DEF Mine
  <1>5. \A p \in PortsHeldBy(c) : pool.call[p] = c
    BY <1>2 DEF Calm, Holds
  <1> QED
    BY <1>1, <1>2, <1>3, <1>4, <1>5, CalmAfter

(* What a handler that serves c leaves as it was: c is in service, and the *)
(* message is not stray.                                                   *)
LEMMA ServesALive ==
  ASSUME TypeOK, Orderly, NEW c \in Calls, Live(c)', victims \subseteq victims',
         NEW s \in Listed(c, "handler"), Asking(s) \/ Serving(s),
         session' = session \/ Unserved(c, s.why), UNCHANGED spent
  PROVE  /\ session' = session /\ Live(c) /\ s.why # "stray" /\ KeyOf(c, s.why) = c
         /\ PortsHeldBy(c)' = PortsHeldBy(c)
  <1>1. Fits(c, s)
    BY DEF Orderly, OrderlyFor
  <1>2. session' = session
    <2>1. SUFFICES ASSUME session' # session PROVE FALSE
      OBVIOUS
    <2>2. s.why = "offer" /\ session' = [session EXCEPT ![c].at = "refused"]
      BY <2>1 DEF Unserved
    <2>3. session'[c].at = "refused"
      BY <2>2 DEF TypeOK
    <2> QED
      BY <2>3 DEF Live
  <1>3. Live(c)
    BY <1>2 DEF Live
  <1>4. s.why # "stray"
    BY <1>1, <1>3 DEF Fits, Live
  <1> QED
    BY <1>2, <1>3, <1>4, KeyType DEF PortsHeldBy, Stored

(* The affinity of a call that holds a port is that port's node.           *)
LEMMA HeldIsCounted ==
  ASSUME TypeOK, Books, NEW c \in Calls, Live(c), Calm(c), NEW p \in PortsHeldBy(c)
  PROVE  /\ p \in Ports /\ pool.call[p] = c /\ pool.node[c] = NodeOf[p] /\ pool.node[c] # None
         /\ pool.count[c] # 0 /\ p \in leased
  <1>1. p \in Ports /\ pool.call[p] = c /\ pool.node[c] = NodeOf[p] /\ p \in leased
    BY SessionFields DEF Calm, Holds, Mine
  <1>2. pool.node[c] # None
    BY <1>1, Constants
  <1>3. pool.count[c] # 0
    <2>1. ExactFor(pool, c) /\ c \in Keys
      BY Constants DEF Books, Young, Live
    <2> QED
      BY <1>1, <2>1, CountedIsPositive
  <1> QED
    BY <1>1, <1>2, <1>3

LEMMA CalmChoose ==
  ASSUME TypeOK, Orderly, Books, NEW c \in Calls, Live(c) => Calm(c), Live(c)',
         victims \subseteq victims', Choose(c)
  PROVE  Calm(c)'
  <1> DEFINE s == Head(Handler(c))
  <1>1. s \in Listed(c, "handler") /\ s \in Steps /\ Asking(s) /\ s.what = "choose" /\ s.why \in Reasons
    BY HandlerHead DEF Choose, Asking
  <1>2. session' = session \/ Unserved(c, s.why)
    BY DEF Choose, Handler
  <1>3. UNCHANGED <<relay, owner, spent>>
    BY DEF Choose, marks
  <1>4. session' = session /\ Live(c) /\ KeyOf(c, s.why) = c /\ PortsHeldBy(c)' = PortsHeldBy(c)
    BY <1>1, <1>2, <1>3, ServesALive
  <1>5. Calm(c) /\ \A p : Mine(c, p)' <=> Mine(c, p)
    BY <1>3, <1>4 DEF Mine, relay
  <1>6. \/ pool' = pool /\ Then(c, "handler", <<>>)
        \/ \E n \in NodesFor(c) : /\ pool' = [pool EXCEPT !.node[c] = n]
                                  /\ Then(c, "handler", <<Step("lease", s.why, None, n)>>)
    BY <1>4 DEF Choose, Handler
  <1>7. Next_(c, "handler", "choose")
    BY DEF Choose
  <1>8. ASSUME NEW p \in PortsHeldBy(c) PROVE pool.call[p] = c /\ pool.node[c] # None
    BY <1>4, <1>5, HeldIsCounted
  <1>9. CASE pool' = pool /\ Then(c, "handler", <<>>)
    <2>1. Listed(c, "handler")' = {} /\ Listed(c, "handler") = {s}
      BY <1>7, <1>9, HandlerEnds
    <2> HIDE DEF s
    <2> QED
      BY <1>1, <1>4, <1>5, <1>8, <1>9, <2>1, CalmAfter
  <1>10. ASSUME NEW n \in NodesFor(c), pool' = [pool EXCEPT !.node[c] = n],
                Then(c, "handler", <<Step("lease", s.why, None, n)>>)
         PROVE  Calm(c)'
    <2> DEFINE t == Step("lease", s.why, None, n)
    <2>1. n \in Nodes /\ (pool.node[c] # None => n = pool.node[c]) /\ c \in Keys
      BY Constants DEF NodesFor, TypeOK
    <2>2. t \in Steps /\ t.what = "lease" /\ t.node = n
      BY <1>1, <2>1, StepsMade
    <2>3. Then(c, "handler", <<t>>)
      BY <1>10
    <2> HIDE DEF t, s
    <2>4. Listed(c, "handler")' = {t} /\ Listed(c, "handler") = {s}
      BY <1>7, <2>2, <2>3, HandlerGoesOn DEF s
    <2>5. pool'.call = pool.call /\ pool'.node[c] = n
      BY <1>10, <2>1 DEF TypeOK
    <2>6. \A r \in Listed(c, "handler")' : Underway(c, r)'
      BY <2>2, <2>4, <2>5 DEF Underway, Cleaning
    <2> QED
      BY <1>1, <1>4, <1>5, <1>8, <2>1, <2>4, <2>5, <2>6, CalmAfter
  <1> QED
    BY <1>6, <1>9, <1>10

LEMMA CalmLease ==
  ASSUME TypeOK, Orderly, Books, NEW c \in Calls, Live(c) => Calm(c), Live(c)',
         victims \subseteq victims', Lease(c)
  PROVE  Calm(c)'
  <1> DEFINE s == Head(Handler(c))
  <1>1. s \in Listed(c, "handler") /\ s \in Steps /\ Serving(s) /\ s.what = "lease"
        /\ s.why \in Reasons
    BY HandlerHead DEF Lease, Serving
  <1>2. session' = session /\ UNCHANGED <<peers, pool, spent>>
    BY DEF Lease
  <1>4. Live(c) /\ KeyOf(c, s.why) = c /\ PortsHeldBy(c)' = PortsHeldBy(c)
    BY <1>1, <1>2, ServesALive
  <1>5. PICK p \in Ports : /\ NodeOf[p] = s.node /\ p \notin leased /\ Grant(c, p)
                           /\ victims' = IF peers[p] = None THEN victims ELSE victims \cup {c}
                           /\ Then(c, "handler", <<Step("record", s.why, p, None)>>)
    BY <1>4 DEF Lease, Available, Handler
  <1>6. Calm(c) /\ peers[p] = None
    BY <1>4, <1>5 DEF Live
  <1>7. Mine(c, p)' /\ \A x \in Ports : Mine(c, x) => Mine(c, x)'
    BY <1>5, Constants DEF Grant, Mine, TypeOK
  <1> DEFINE t == Step("record", s.why, p, None)
  <1>8. t \in Steps /\ t.what = "record" /\ t.port = p
    BY <1>1, StepsMade
  <1>9. Next_(c, "handler", "lease") /\ Then(c, "handler", <<t>>)
    BY <1>5 DEF Lease
  <1>10. pool.node[c] = s.node
    BY <1>1, <1>6 DEF Calm, Underway
  <1>11. p \notin PortsHeldBy(c) /\ \A x \in PortsHeldBy(c) : pool.call[x] = c
    BY <1>4, <1>5, <1>6, HeldIsCounted
  <1> HIDE DEF t, s
  <1>12. Listed(c, "handler")' = {t} /\ Listed(c, "handler") = {s}
    BY <1>8, <1>9, HandlerGoesOn DEF s
  <1>13. \A r \in Listed(c, "handler")' : Underway(c, r)'
    BY <1>2, <1>4, <1>5, <1>6, <1>7, <1>8, <1>10, <1>11, <1>12 DEF Underway, Cleaning
  <1> QED
    BY <1>1, <1>2, <1>4, <1>6, <1>7, <1>11, <1>12, <1>13, CalmAfter

LEMMA CalmUnleased ==
  ASSUME TypeOK, Orderly, Books, NEW c \in Calls, Live(c) => Calm(c), Live(c)',
         victims \subseteq victims', LeaseFails(c) \/ LeaseLost(c)
  PROVE  Calm(c)'
  <1> DEFINE s == Head(Handler(c))
  <1>0. Next_(c, "handler", "lease") /\ Then(c, "handler", <<>>) /\ Unserved(c, s.why)
        /\ UNCHANGED spent /\ pool' = Cancelled(KeyOf(c, s.why))
    BY DEF LeaseFails, LeaseLost, marks, Handler
  <1>1. s \in Listed(c, "handler") /\ s \in Steps /\ Serving(s) /\ s.what = "lease"
    BY <1>0, HandlerHead DEF Serving
  <1>4. Live(c) /\ KeyOf(c, s.why) = c /\ PortsHeldBy(c)' = PortsHeldBy(c)
    BY <1>0, <1>1, ServesALive
  <1>5. Calm(c)
    BY <1>4
  <1>6. \A x \in Ports : Mine(c, x) => Mine(c, x)'
    <2>1. CASE UNCHANGED <<leased, owner>>
      BY <2>1 DEF Mine
    <2>2. CASE \E p \in Ports : p \notin leased /\ Grant(c, p)
      BY <2>2 DEF Grant, Mine, TypeOK
    <2> QED
      BY <1>4, <2>1, <2>2 DEF LeaseFails, LeaseLost, relay, Available, Handler
  <1>7. pool'.call = pool.call /\ (pool.count[c] # 0 => pool'.node[c] = pool.node[c])
    <2>1. pool' = Cancelled(c) /\ c \in Keys
      BY <1>0, <1>4, Constants
    <2>2. Covered(pool) /\ (pool.count[c] # 0 => c \in pool.entries)
      BY <2>1 DEF Books, Covered
    <2> QED
      BY <2>1, <2>2, Cancelling
  <1>8. \A x \in PortsHeldBy(c) : pool.call[x] = c /\ pool.count[c] # 0
    BY <1>4, <1>5, HeldIsCounted
  <1>9. Listed(c, "handler")' = {} /\ Listed(c, "handler") = {s}
    BY <1>0, HandlerEnds
  <1> HIDE DEF s
  <1> QED
    BY <1>1, <1>4, <1>5, <1>6, <1>7, <1>8, <1>9, CalmAfter

LEMMA CalmRecord ==
  ASSUME TypeOK, Orderly, Books, NEW c \in Calls, Live(c) => Calm(c), Live(c)',
         victims \subseteq victims', Record(c)
  PROVE  Calm(c)'
  <1> DEFINE s == Head(Handler(c))
             t == Step("rewrite", s.why, s.port, None)
  <1>1. s \in Listed(c, "handler") /\ s \in Steps /\ Serving(s) /\ s.what = "record"
        /\ s.why \in Reasons /\ s.port \in Ports
    BY HandlerHead DEF Record, Serving
  <1>2. session' = session /\ UNCHANGED <<leased, owner, peers, spent>>
        /\ Next_(c, "handler", "record") /\ Then(c, "handler", <<t>>)
        /\ pool' = Recorded(s.port, KeyOf(c, s.why))
    BY DEF Record, relay, Handler
  <1>3. t \in Steps /\ t.what = "rewrite" /\ t.port = s.port
    BY <1>1, StepsMade
  <1>4. Live(c) /\ KeyOf(c, s.why) = c /\ PortsHeldBy(c)' = PortsHeldBy(c)
    BY <1>1, <1>2, ServesALive
  <1>5. Calm(c) /\ Underway(c, s)
    BY <1>1, <1>4 DEF Calm
  <1>6. \A x \in Ports : Mine(c, x) <=> Mine(c, x)'
    BY <1>2 DEF Mine
  <1>7. /\ \A x \in Ports : pool'.call[x] = IF x = s.port THEN c ELSE pool.call[x]
        /\ pool'.node = pool.node
    <2>1. pool' = Recorded(s.port, c) /\ c \in Keys
      BY <1>2, <1>4, Constants
    <2> HIDE DEF s
    <2> QED
      BY <1>1, <2>1, Recording DEF Books
  <1>8. \A x \in PortsHeldBy(c) : pool.call[x] = c /\ x \in Ports
    BY <1>4, <1>5, HeldIsCounted
  <1> HIDE DEF s, t
  <1>9. Listed(c, "handler")' = {t} /\ Listed(c, "handler") = {s}
    BY <1>2, <1>3, HandlerGoesOn DEF s
  <1>10. \A r \in Listed(c, "handler")' : Underway(c, r)'
    BY <1>1, <1>2, <1>3, <1>4, <1>5, <1>6, <1>7, <1>9 DEF Underway, Cleaning
  <1>11. \A p \in Ports : pool'.call[p] = c => pool.call[p] = c \/ Mine(c, p)'
    BY <1>1, <1>5, <1>6, <1>7 DEF Underway
  <1> QED
    BY <1>1, <1>4, <1>5, <1>6, <1>7, <1>8, <1>9, <1>10, <1>11, CalmAfter

LEMMA CalmRewriteFails ==
  ASSUME TypeOK, Orderly, Books, NEW c \in Calls, Live(c) => Calm(c), Live(c)',
         victims \subseteq victims', RewriteFails(c)
  PROVE  Calm(c)'
  <1> DEFINE s == Head(Handler(c))
             t == Step("clear", None, s.port, None)
  <1>1. s \in Listed(c, "handler") /\ s \in Steps /\ Serving(s) /\ s.what = "rewrite"
        /\ s.port \in Ports
    BY HandlerHead DEF RewriteFails, Serving
  <1>2. /\ Unserved(c, s.why) /\ UNCHANGED <<leased, owner, peers, pool, spent>>
        /\ Next_(c, "handler", "rewrite") /\ Then(c, "handler", <<t>>)
    BY DEF RewriteFails, relay, Handler, marks
  <1>3. t \in Steps /\ t.what = "clear" /\ t.port = s.port
    BY <1>1, StepsMade
  <1>4. Live(c) /\ PortsHeldBy(c)' = PortsHeldBy(c)
    BY <1>1, <1>2, ServesALive
  <1>5. Calm(c) /\ Underway(c, s)
    BY <1>1, <1>4 DEF Calm
  <1>6. \A x \in Ports : Mine(c, x) <=> Mine(c, x)'
    BY <1>2 DEF Mine
  <1>8. \A x \in PortsHeldBy(c) : pool.call[x] = c /\ x \in Ports
    BY <1>4, <1>5, HeldIsCounted
  <1> HIDE DEF s, t
  <1>9. Listed(c, "handler")' = {t} /\ Listed(c, "handler") = {s}
    BY <1>2, <1>3, HandlerGoesOn DEF s
  <1>10. None \notin PortsHeldBy(c)
    BY SessionFields
  <1>11. \A r \in Listed(c, "handler")' : Underway(c, r)'
    BY <1>1, <1>2, <1>3, <1>4, <1>5, <1>9, <1>10 DEF Underway, Cleaning
  <1> QED
    BY <1>1, <1>2, <1>4, <1>5, <1>6, <1>8, <1>9, <1>11, CalmAfter

LEMMA CalmRewrite ==
  ASSUME TypeOK, Orderly, Books, NEW c \in Calls, Live(c) => Calm(c), Live(c)',
         victims \subseteq victims', Rewrite(c)
  PROVE  Calm(c)' /\ Stays(c) /\ Live(c)
  <1> DEFINE s == Head(Handler(c))
  <1>1. /\ s \in Listed(c, "handler") /\ s.what = "rewrite" /\ s.port \in Ports
        /\ Listed(c, "handler")' = {} /\ Listed(c, "handler") = {s}
        /\ ~Stays(c) => session'[c] = session[c] /\ session[c].at \notin {"new", "up"}
        /\ Stays(c) => /\ session[c].at \in {"new", "up"}
                       /\ PortsHeldBy(c)' \subseteq PortsHeldBy(c) \cup {s.port}
    BY RewriteIs
  <1>2. UNCHANGED <<leased, owner, pool>>
    BY DEF Rewrite
  <1>3. Stays(c)
    BY <1>1 DEF Live
  <1>4. Live(c)
    BY <1>1, <1>3 DEF Live
  <1>5. Calm(c) /\ Underway(c, s)
    BY <1>1, <1>4 DEF Calm
  <1> HIDE DEF s
  <1>6. \A x \in Ports : Mine(c, x) <=> Mine(c, x)'
    BY <1>2 DEF Mine
  <1>7. RecordsOf(c)'
    BY <1>1, <1>2, <1>5, <1>6 DEF Calm, RecordsOf
  <1>8. Holds(c)'
    BY <1>1, <1>2, <1>3, <1>5, <1>6, SessionFields DEF Calm, Holds, Underway
  <1> QED
    BY <1>1, <1>3, <1>4, <1>7, <1>8 DEF Calm
(* A message of c that clears a port does so for a port c does not hold.   *)
LEMMA CleansOnly ==
  ASSUME TypeOK, Orderly, NEW c \in Calls, NEW what \in {"clear", "release", "forget"},
         Next_(c, "handler", what)
  PROVE  \A r \in Listed(c, "handler") : r.what \in {"clear", "release", "forget", "choose", "remove"}
  <1> DEFINE L == Handler(c)
  <1>1. /\ HandlerList(L) /\ L \in Seq(Steps) /\ L # <<>> /\ Head(L).what = what
        /\ \A r \in Listed(c, "handler") : \E i \in 1..Len(L) : r = L[i]
    BY ListOf DEF Orderly, OrderlyFor, Handler, Next_, Idle, Listed, Actors
  <1>2. L[1].what = what
    BY <1>1, NonEmpty
  <1> HIDE DEF L
  <1> QED
    BY <1>1, <1>2 DEF HandlerList, Cleaning, Asking, Removing

LEMMA CalmCleaned ==
  ASSUME TypeOK, Orderly, NEW c \in Calls, Calm(c), NEW s \in Listed(c, "handler"),
         s.port \in Ports, session'[c] = session[c], spent'[c] = spent[c],
         \A r \in Listed(c, "handler") : r.what \in {"clear", "release", "forget", "choose", "remove"},
         \A r \in Listed(c, "handler")' :
           \/ r \in Listed(c, "handler") \/ r.what = "forget"
           \/ r.what = "release" /\ r.port = s.port,
         \A x \in Ports : peers'[x] = peers[x] \/ peers'[x] = None,
         s.port \notin PortsHeldBy(c), peers[s.port] \notin PortsHeldBy(c),
         RecordsOf(c)',
         \A h \in PortsHeldBy(c) : Mine(c, h)' /\ pool'.call[h] = c
                                   /\ pool'.node[c] = pool.node[c]
  PROVE  Calm(c)'
  <1>1. PortsHeldBy(c)' = PortsHeldBy(c) /\ None \notin PortsHeldBy(c)
    BY SessionFields DEF PortsHeldBy, Stored
  <1>2. Holds(c)'
    BY <1>1 DEF Calm, Holds
  <1>3. ASSUME NEW r \in Listed(c, "handler")' PROVE Underway(c, r)'
    <2>1. CASE r \in Listed(c, "handler")
      <3>1. Underway(c, r) /\ r.what \in {"clear", "release", "forget", "choose", "remove"}
        BY <2>1 DEF Calm
      <3>2. r.what \in {"clear", "release"} => r.port \in Ports
        <4>1. HandlerList(Handler(c)) /\ \E k \in 1..Len(Handler(c)) : r = Handler(c)[k]
          BY <2>1 DEF Orderly, OrderlyFor, Listed, Handler
        <4> QED
          BY <4>1 DEF HandlerList, Serving, Asking, Removing, Cleaning
      <3> QED
        BY <1>1, <3>1, <3>2 DEF Underway
    <2>2. CASE r.what = "release" /\ r.port = s.port
      BY <1>1, <1>3, <2>2 DEF Underway, Cleaning
    <2>3. CASE r.what = "forget"
      BY <2>3 DEF Underway
    <2> QED
      BY <1>3, <2>1, <2>2, <2>3
  <1> QED
    BY <1>2, <1>3 DEF Calm

LEMMA CalmCleaner ==
  ASSUME TypeOK, Orderly, Books, LocalPairs, Emptied, NEW c \in Calls, NEW who \in Actors,
         Live(c) => Calm(c), Live(c)', victims \subseteq victims', CleanerStep(c, who)
  PROVE  Calm(c)'
  <1>1. session' = session /\ spent' = spent
    BY DEF CleanerStep, ClearHere, ClearThere, ClearLost, Release, Forget, marks
  <1>2. Live(c) /\ Calm(c)
    BY <1>1 DEF Live
  <1>3. todo[c][who] # <<>>
    BY DEF CleanerStep, ClearHere, ClearThere, ClearLost, Release, Forget, Next_, Idle
  <1>4. who = "handler"
    BY <1>2, <1>3 DEF Orderly, OrderlyFor, Ender, Live, Actors
  <1> DEFINE s == Head(Handler(c))
             p == s.port
             q == peers[p]
  <1>5. PICK what \in {"clear", "release", "forget"} : Next_(c, "handler", what)
    BY <1>4 DEF CleanerStep, ClearHere, ClearThere, ClearLost, Release, Forget
  <1>6. /\ s \in Listed(c, "handler") /\ s.what = what /\ Cleaning(s)
        /\ what # "forget" => s.port \in Ports
        /\ what = "forget" => s.why \in Keys
    BY <1>5, CleaningHead DEF Actors, Handler
  <1>7. what # "forget" => p \notin PortsHeldBy(c) /\ q \notin PortsHeldBy(c)
    BY <1>2, <1>6 DEF Calm, Underway
  <1>8. \A r \in Listed(c, "handler") : r.what \in {"clear", "release", "forget", "choose", "remove"}
    BY <1>5, CleansOnly
  <1>9. \A h \in PortsHeldBy(c) : h \in Ports /\ Mine(c, h) /\ pool.call[h] = c
    BY <1>2, SessionFields DEF Calm, Holds
  <1>10. Covered(pool) /\ c \in Keys /\ c # None /\ c # Stray
    BY Constants DEF Books
  <1>11. CASE ClearHere(c, "handler")
    <2> DEFINE freed == {p, q} \cap LocalPorts
    <2>1. /\ Next_(c, "handler", "clear")
          /\ leased' = leased \ freed
          /\ owner' = [x \in Ports |-> IF x \in freed THEN None ELSE owner[x]]
          /\ peers' = [x \in Ports |-> IF x \in {p, q} THEN None ELSE peers[x]]
          /\ pool' = Released(Released(pool, p), q)
      BY <1>11 DEF ClearHere, Handler
    <2>0. s.port \in Ports /\ s.what = "clear" /\ what # "forget"
      BY <1>6, <2>1 DEF Next_, Handler
    <2>2. q \in Ports \cup {None}
      BY <2>0 DEF TypeOK
    <2>3. /\ \A r \in Listed(c, "handler")' : r \in Listed(c, "handler") \/ r.what = "forget"
          /\ Listed(c, "handler") \subseteq Listed(c, "handler")' \cup {s}
      BY <1>11, ForgetsLater DEF Actors, Handler
    <2> HIDE DEF s
    <2>4. /\ \A x \in Ports : pool'.call[x] = IF x \in {p, q} THEN None ELSE pool.call[x]
          /\ pool'.node = pool.node
      <3> HIDE DEF p, q
      <3> QED
        BY <2>0, <1>10, <2>1, <2>2, ReleasingTwo DEF p
    <2>5. \A x \in Ports \ {p, q} : Mine(c, x) => Mine(c, x)'
      BY <2>1 DEF Mine
    <2>6. RecordsOf(c)'
      <3>1. ASSUME NEW x \in Ports, pool'.call[x] = c
            PROVE  \/ Mine(c, x)'
                   \/ x \notin LocalPorts
                      /\ \E r \in Listed(c, "handler")' : r.what = "release" /\ r.port = x
        <4>1. x \notin {p, q} /\ pool.call[x] = c
          BY <1>10, <2>4, <3>1
        <4>2. CASE Mine(c, x)
          BY <2>5, <4>1, <4>2
        <4>3. CASE x \notin LocalPorts
                   /\ \E r \in Listed(c, "handler") : r.what = "release" /\ r.port = x
          BY <2>0, <2>3, <4>3
        <4> QED
          BY <1>2, <4>1, <4>2, <4>3 DEF Calm, RecordsOf
      <3> QED
        BY <3>1 DEF RecordsOf
    <2>7. \A h \in PortsHeldBy(c) : Mine(c, h)' /\ pool'.call[h] = c
                                    /\ pool'.node[c] = pool.node[c]
      BY <1>7, <1>9, <2>0, <2>4, <2>5
    <2>8. \A x \in Ports : peers'[x] = peers[x] \/ peers'[x] = None
      BY <2>1
    <2> HIDE DEF freed
    <2> QED
      BY <1>1, <1>2, <1>6, <1>7, <1>8, <2>0, <2>3, <2>6, <2>7, <2>8, CalmCleaned
  <1>12. CASE ClearThere(c, "handler") \/ ClearLost(c, "handler")
    <2> DEFINE t == Step("release", None, p, None)
    <2>1. /\ Next_(c, "handler", "clear") /\ Then(c, "handler", <<t>>)
          /\ pool' = pool /\ peers' = peers /\ p \notin LocalPorts
          /\ \/ UNCHANGED <<leased, owner>>
             \/ leased' = leased \ {p} /\ owner' = [owner EXCEPT ![p] = None]
      BY <1>12 DEF ClearThere, ClearLost, Handler, relay
    <2>0. s.port \in Ports /\ s.what = "clear" /\ what # "forget"
      BY <1>6, <2>1 DEF Next_, Handler
    <2>2. t \in Steps /\ t.what = "release" /\ t.port = p /\ Cleaning(t)
      BY <2>0, StepsMade DEF Cleaning
    <2> HIDE DEF t
    <2>3. /\ t \in Listed(c, "handler")' /\ Listed(c, "handler")' \subseteq Listed(c, "handler") \cup {t}
          /\ Listed(c, "handler") \subseteq Listed(c, "handler")' \cup {s}
          /\ s.what = "clear"
      BY <2>1, <2>2, CleanerGoesOn DEF Actors, Handler, Next_
    <2> HIDE DEF s
    <2>5. \A x \in Ports \ {p} : Mine(c, x) => Mine(c, x)'
      <3>1. CASE UNCHANGED <<leased, owner>>
        BY <3>1 DEF Mine
      <3>2. CASE leased' = leased \ {p} /\ owner' = [owner EXCEPT ![p] = None]
        BY <3>2 DEF Mine, TypeOK
      <3> QED
        BY <2>1, <3>1, <3>2
    <2>6. RecordsOf(c)'
      <3>1. ASSUME NEW x \in Ports, pool'.call[x] = c
            PROVE  \/ Mine(c, x)'
                   \/ x \notin LocalPorts
                      /\ \E r \in Listed(c, "handler")' : r.what = "release" /\ r.port = x
        <4>1. pool.call[x] = c
          BY <2>1, <3>1
        <4>2. CASE x = p
          BY <2>1, <2>2, <2>3, <4>2
        <4>3. CASE x # p /\ Mine(c, x)
          BY <2>5, <4>3
        <4>4. CASE x # p /\ x \notin LocalPorts
                   /\ \E r \in Listed(c, "handler") : r.what = "release" /\ r.port = x
          BY <2>3, <4>4
        <4> QED
          BY <1>2, <4>1, <4>2, <4>3, <4>4 DEF Calm, RecordsOf
      <3> QED
        BY <3>1 DEF RecordsOf
    <2>7. \A h \in PortsHeldBy(c) : Mine(c, h)' /\ pool'.call[h] = c
                                    /\ pool'.node[c] = pool.node[c]
      BY <1>7, <1>9, <2>0, <2>1, <2>5
    <2> QED
      BY <1>1, <1>2, <1>6, <1>7, <1>8, <2>0, <2>1, <2>2, <2>3, <2>6, <2>7, CalmCleaned
  <1>13. CASE Release(c, "handler")
    <2>1. /\ Next_(c, "handler", "release")
          /\ pool' = Released(pool, p) /\ UNCHANGED <<leased, owner, peers>>
      BY <1>13 DEF Release, Handler, relay
    <2>0. s.port \in Ports /\ s.what = "release" /\ what # "forget"
      BY <1>6, <2>1 DEF Next_, Handler
    <2>3. /\ \A r \in Listed(c, "handler")' : r \in Listed(c, "handler") \/ r.what = "forget"
          /\ Listed(c, "handler") \subseteq Listed(c, "handler")' \cup {s}
      BY <1>13, ForgetsLater DEF Actors, Handler
    <2> HIDE DEF s
    <2>4. /\ Covered(pool')
          /\ \A x \in Ports : pool'.call[x] = IF x = p THEN None ELSE pool.call[x]
          /\ pool'.node = pool.node
      <3>1. p \in Ports \cup {None} /\ p = s.port
        BY <2>0
      <3> HIDE DEF p
      <3> QED
        BY <1>10, <2>1, <3>1, Releasing
    <2>5. \A x \in Ports : Mine(c, x) <=> Mine(c, x)'
      BY <2>1 DEF Mine
    <2>6. RecordsOf(c)'
      <3>1. ASSUME NEW x \in Ports, pool'.call[x] = c
            PROVE  \/ Mine(c, x)'
                   \/ x \notin LocalPorts
                      /\ \E r \in Listed(c, "handler")' : r.what = "release" /\ r.port = x
        <4>1. x # p /\ pool.call[x] = c
          BY <1>10, <2>4, <3>1
        <4> QED
          BY <1>2, <2>3, <2>5, <4>1 DEF Calm, RecordsOf
      <3> QED
        BY <3>1 DEF RecordsOf
    <2>7. \A h \in PortsHeldBy(c) : Mine(c, h)' /\ pool'.call[h] = c
                                    /\ pool'.node[c] = pool.node[c]
      BY <1>7, <1>9, <2>0, <2>4, <2>5
    <2> QED
      BY <1>1, <1>2, <1>6, <1>7, <1>8, <2>0, <2>1, <2>3, <2>6, <2>7, CalmCleaned
  <1>14. CASE Forget(c, "handler")
    <2> DEFINE k == s.why
    <2>1. /\ Next_(c, "handler", "forget") /\ Then(c, "handler", <<>>)
          /\ pool' = Forgotten(k) /\ UNCHANGED <<leased, owner, peers>>
      BY <1>14 DEF Forget, Handler, relay
    <2>2. k \in Keys /\ s.what = "forget" /\ Forgets(c, "handler", k)
      BY <1>6, <2>1 DEF Next_, Handler, Forgets
    <2>3. /\ Listed(c, "handler")' \subseteq Listed(c, "handler")
          /\ Listed(c, "handler") \subseteq Listed(c, "handler")' \cup {s}
      BY <2>1, CleanerEnds DEF Actors, Handler
    <2> HIDE DEF k
    <2>4. pool'.call = pool.call /\ (k # c => pool'.node[c] = pool.node[c])
      BY <1>10, <2>1, <2>2, ForgettingKeeps
    <2>5. \A x \in Ports : Mine(c, x) <=> Mine(c, x)'
      BY <2>1 DEF Mine
    <2>6. PortsHeldBy(c)' = PortsHeldBy(c)
      BY <1>1 DEF PortsHeldBy, Stored
    <2>7. RecordsOf(c)'
      <3>1. ASSUME NEW x \in Ports, pool'.call[x] = c
            PROVE  \/ Mine(c, x)'
                   \/ x \notin LocalPorts
                      /\ \E r \in Listed(c, "handler")' : r.what = "release" /\ r.port = x
        BY <1>2, <2>2, <2>3, <2>4, <2>5, <3>1 DEF Calm, RecordsOf
      <3> QED
        BY <3>1 DEF RecordsOf
    <2>8. ASSUME NEW h \in PortsHeldBy(c) PROVE pool'.node[c] = pool.node[c]
      <3>1. pool.count[c] # 0
        BY <1>2, HeldIsCounted
      <3>2. Young(c)
        BY <1>2 DEF Live, Young
      <3>3. k # c
        BY <2>2, <3>1, <3>2 DEF Emptied, Actors
      <3> QED
        BY <2>4, <3>3
    <2>9. Holds(c)'
      BY <1>2, <1>9, <2>4, <2>5, <2>6, <2>8 DEF Calm, Holds
    <2> HIDE DEF s
    <2>10. \A r \in Listed(c, "handler")' : Underway(c, r)'
      BY <1>2, <1>8, <2>1, <2>3, <2>6 DEF Calm, Underway
    <2> QED
      BY <2>7, <2>9, <2>10 DEF Calm
  <1> QED
    BY <1>4, <1>11, <1>12, <1>13, <1>14 DEF CleanerStep

LEMMA OthersStay ==
  ASSUME TypeOK, Orderly, NEW d \in Calls, NEW c \in Calls, d # c,
         HandlerStep(d) \/ \E who \in Actors : CleanerStep(d, who)
  PROVE  session'[c] = session[c] /\ spent'[c] = spent[c]
  <1>1. \A why : Unserved(d, why) => session'[c] = session[c]
    BY DEF Unserved, TypeOK
  <1>2. CASE Choose(d) \/ LeaseFails(d) \/ LeaseLost(d) \/ RewriteFails(d)
    BY <1>1, <1>2 DEF Choose, LeaseFails, LeaseLost, RewriteFails, marks
  <1>3. CASE Invite(d) \/ Answer(d) \/ LateAnswer(d) \/ Failover(d) \/ Failure(d)
             \/ Teardown(d) \/ Remove(d) \/ Lease(d) \/ Record(d)
             \/ InviteWithoutSdp(d) \/ RewriteWithoutEndpoint(d)
    BY <1>3 DEF InviteWithoutSdp, RewriteWithoutEndpoint, Invite, Answer, LateAnswer, Failover, Failure, Teardown, Remove,
       Lease, Record, marks, TypeOK
  <1>4. CASE Rewrite(d)
    BY <1>4, RewriteIs
  <1>5. CASE \E who \in Actors : CleanerStep(d, who)
    BY <1>5 DEF CleanerStep, ClearHere, ClearThere, ClearLost, Release, Forget, marks
  <1> QED
    BY <1>2, <1>3, <1>4, <1>5 DEF HandlerStep

LEMMA UndisturbedStep ==
  ASSUME TypeOK, Orderly, Books, LocalPairs, Undisturbed, Emptied, Next
  PROVE  Undisturbed'
  <1> SUFFICES ASSUME NEW c \in Calls, Live(c)' PROVE Calm(c)'
    BY UndisturbedWillBe
  <1>1. victims \subseteq victims' /\ c \notin victims'
    BY VictimsStay DEF Live
  <1>2. Live(c) => Calm(c)
    BY UndisturbedIs
  <1>3. PICK d \in Calls : HandlerStep(d) \/ \E who \in Actors : CleanerStep(d, who)
    BY NextIs
  <1>4. CASE d = c
    <2>1. CASE Teardown(c)
      <3>1. session'[c].at = "gone"
        BY <2>1, TeardownOrderly
      <3> QED
        BY <3>1 DEF Live
    <2>2. CASE Remove(c)
      <3>1. session'[c].at = "gone"
        BY <2>2, RemoveOrderly
      <3> QED
        BY <3>1 DEF Live
    <2>3. CASE Invite(c) \/ Answer(c) \/ LateAnswer(c) \/ Failover(c) \/ Failure(c)
      BY <1>1, <1>2, <2>3, CalmStart
    <2>4. CASE Choose(c)
      BY <1>1, <1>2, <2>4, CalmChoose
    <2>5. CASE Lease(c)
      BY <1>1, <1>2, <2>5, CalmLease
    <2>6. CASE LeaseFails(c) \/ LeaseLost(c)
      BY <1>1, <1>2, <2>6, CalmUnleased
    <2>7. CASE Record(c)
      BY <1>1, <1>2, <2>7, CalmRecord
    <2>8. CASE RewriteFails(c)
      BY <1>1, <1>2, <2>8, CalmRewriteFails
    <2>9. CASE Rewrite(c)
      BY <1>1, <1>2, <2>9, CalmRewrite
    <2>11. CASE InviteWithoutSdp(c) \/ RewriteWithoutEndpoint(c)
      BY <1>1, <1>2, <2>11, CalmWithout
    <2>10. CASE \E who \in Actors : CleanerStep(c, who)
      BY <1>1, <1>2, <2>10, CalmCleaner
    <2> QED
      BY <1>3, <1>4, <2>1, <2>2, <2>3, <2>4, <2>5, <2>6, <2>7, <2>8, <2>9, <2>10, <2>11
         DEF HandlerStep
  <1>5. CASE d # c
    <2>1. session'[c] = session[c]
      BY <1>3, <1>5, OthersStay
    <2>2. Live(c) /\ Calm(c)
      BY <1>1, <1>2, <2>1 DEF Live
    <2>3. Spared(c)
      BY <1>1, <1>3, <1>5, <2>2, SparedByHandler, SparedByCleaner
    <2> QED
      BY <2>2, <2>3, SparedIsCalm
  <1> QED
    BY <1>4, <1>5

-----------------------------------------------------------------------------
(* Who cares for a port.                                                   *)
Cares(c, p, kinds) == p \in PortsHeldBy(c) \/ Pending(c, p, kinds)

LeaseKinds == {"record", "rewrite", "clear"}
RecordKinds == {"rewrite", "clear", "release"}

Keeps(c, p, kinds) ==
  /\ Cares(c, p, kinds) => Cares(c, p, kinds)'
  /\ Pending(c, p, kinds) => Pending(c, p, kinds)'

LEMMA CaredKept ==
  ASSUME NEW p, NEW kinds, \A c \in Calls : Keeps(c, p, kinds)
  PROVE  \A k : Cared(k, p, kinds) => Cared(k, p, kinds)'
  <1>1. ASSUME NEW k, Cared(k, p, kinds) PROVE Cared(k, p, kinds)'
    <2>1. CASE k \in Calls /\ Cares(k, p, kinds)
      <3>1. Cares(k, p, kinds)'
        BY <2>1 DEF Keeps
      <3> QED
        BY <2>1, <3>1 DEF Cared, Cares
    <2>2. CASE k = Stray /\ \E c \in Calls : Pending(c, p, kinds)
      <3>1. \E c \in Calls : Pending(c, p, kinds)'
        BY <2>2 DEF Keeps
      <3> QED
        BY <2>2, <3>1 DEF Cared
    <2> QED
      BY <1>1, <2>1, <2>2 DEF Cared, Cares
  <1> QED
    BY <1>1

LEMMA CaredByAnother ==
  ASSUME NEW d \in Calls, NEW p, NEW kinds, NEW k, k \notin {d, Stray}, Cared(k, p, kinds),
         \A c \in Calls : c # d => Keeps(c, p, kinds)
  PROVE  Cared(k, p, kinds)'
  BY DEF Cared, Cares, Keeps

(* The message that c handles drops no step but h, and no port.            *)
Drops(c, h) ==
  /\ \A who \in Actors : \A s \in Listed(c, who) : s = h \/ s \in Listed(c, who)'
  /\ \A p \in PortsHeldBy(c) : p \in PortsHeldBy(c)' \/ Pending(c, p, {"clear"})'

LEMMA DropsKeeps ==
  ASSUME NEW c, NEW h, Drops(c, h), NEW p, NEW kinds, ~(h.what \in kinds /\ h.port = p)
  PROVE  /\ Pending(c, p, kinds) => Pending(c, p, kinds)'
         /\ "clear" \in kinds => Keeps(c, p, kinds)
  <1>1. Pending(c, p, kinds) => Pending(c, p, kinds)'
    BY DEF Drops, Pending
  <1>2. ASSUME "clear" \in kinds, p \in PortsHeldBy(c) PROVE Cares(c, p, kinds)'
    <2>1. Pending(c, p, {"clear"})' => Pending(c, p, kinds)'
      BY <1>2 DEF Pending
    <2> QED
      BY <1>2, <2>1 DEF Drops, Cares
  <1>3. ASSUME "clear" \in kinds PROVE Cares(c, p, kinds) => Cares(c, p, kinds)'
    BY <1>1, <1>2, <1>3 DEF Cares
  <1> QED
    BY <1>1, <1>3 DEF Keeps

(* A step for one call leaves what the others care for.                    *)
LEMMA OthersKeep ==
  ASSUME TypeOK, Orderly, NEW d \in Calls,
         HandlerStep(d) \/ \E who \in Actors : CleanerStep(d, who)
  PROVE  \A c \in Calls : c # d =>
           /\ \A p, kinds : Keeps(c, p, kinds)
           /\ \A who : Listed(c, who)' = Listed(c, who)
  <1> SUFFICES ASSUME NEW c \in Calls, c # d
               PROVE  /\ \A p, kinds : Keeps(c, p, kinds)
                      /\ \A who : Listed(c, who)' = Listed(c, who)
    OBVIOUS
  <1>1. todo'[c] = todo[c]
    <2>1. \A who, L : Then(d, who, L) \/ Start(d, who, L) => todo'[c] = todo[c]
      BY DEF Then, Start, TypeOK
    <2> QED
      BY <2>1 DEF HandlerStep, Invite, InviteWithoutSdp, Answer, LateAnswer, Failover, Failure,
         Teardown, Remove, Choose, Lease, LeaseFails, LeaseLost, Record, RewriteFails, Rewrite,
         RewriteWithoutEndpoint, CleanerStep, ClearHere, ClearThere, ClearLost, Release, Forget
  <1>2. \A who : Listed(c, who)' = Listed(c, who)
    BY <1>1 DEF Listed
  <1>3. PortsHeldBy(c)' = PortsHeldBy(c)
    <2>1. session'[c] = session[c] /\ spent'[c] = spent[c]
      BY OthersStay
    <2> QED
      BY <2>1 DEF PortsHeldBy, Stored
  <1> QED
    BY <1>2, <1>3 DEF Keeps, Cares, Pending

(* A key waits on for what its handler goes on to lease or to record.      *)
LEMMA ComingKept ==
  ASSUME NEW d \in Calls, NEW k, Coming(k),
         \A c \in Calls : c # d => Listed(c, "handler")' = Listed(c, "handler"),
         \A s \in Listed(d, "handler") :
           \/ s.what \notin {"lease", "record"}
           \/ KeyOf(d, s.why) # k
           \/ \E t \in Listed(d, "handler")' : t.what \in {"lease", "record"} /\ t.why = s.why
  PROVE  Coming(k)'
  <1>0. PICK c \in Calls : \E s \in Listed(c, "handler") :
          s.what \in {"lease", "record"} /\ KeyOf(c, s.why) = k
    BY DEF Coming
  <1>1. PICK s \in Listed(c, "handler") :
          s.what \in {"lease", "record"} /\ KeyOf(c, s.why) = k
    BY <1>0
  <1>2. CASE c = d
    <2>1. PICK t \in Listed(d, "handler")' : t.what \in {"lease", "record"} /\ t.why = s.why
      BY <1>1, <1>2
    <2> QED
      BY <1>1, <1>2, <2>1 DEF Coming, KeyOf
  <1>3. CASE c # d
    BY <1>1, <1>3 DEF Coming
  <1> QED
    BY <1>2, <1>3

(* The three parts of Named, and how each is kept.                         *)
LeaseNamed(p) == Cared(owner[p], p, LeaseKinds)
RecordNamed(p) ==
  \/ pool.call[p] = None
  \/ Cared(pool.call[p], p, RecordKinds)
  \/ \E c \in Calls : Pending(c, p, {"record"})
NodeNamed(k) ==
  pool.node[k] # None /\ k \notin pool.entries => (k \in Calls /\ session[k].at = "gone") \/ Coming(k)

LEMMA NamedIs ==
  Named <=> (victims = {} => /\ \A p \in leased \ leaked : LeaseNamed(p)
                             /\ \A p \in Ports \ leaked : RecordNamed(p)
                             /\ \A k \in Keys : NodeNamed(k))
  BY DEF Named, LeaseNamed, RecordNamed, NodeNamed, LeaseKinds, RecordKinds

LEMMA NamedWillBe ==
  Named' <=> (victims' = {} => /\ \A p \in leased' \ leaked' : LeaseNamed(p)'
                               /\ \A p \in Ports \ leaked' : RecordNamed(p)'
                               /\ \A k \in Keys : NodeNamed(k)')
  BY DEF Named, LeaseNamed, RecordNamed, NodeNamed, LeaseKinds, RecordKinds

LEMMA LeaseStaysNamed ==
  ASSUME NEW p, LeaseNamed(p), owner'[p] = owner[p], \A c \in Calls : Keeps(c, p, LeaseKinds)
  PROVE  LeaseNamed(p)'
  <1>1. Cared(owner[p], p, LeaseKinds)'
    BY CaredKept DEF LeaseNamed
  <1> QED
    BY <1>1 DEF LeaseNamed, Cared

LEMMA RecordStaysNamed ==
  ASSUME NEW p, RecordNamed(p), pool'.call[p] = pool.call[p],
         \A c \in Calls : Keeps(c, p, RecordKinds),
         \A c \in Calls : Pending(c, p, {"record"}) => Pending(c, p, {"record"})'
  PROVE  RecordNamed(p)'
  <1>1. CASE pool.call[p] = None
    BY <1>1 DEF RecordNamed
  <1>2. CASE Cared(pool.call[p], p, RecordKinds)
    <2>1. \A k : Cared(k, p, RecordKinds) => Cared(k, p, RecordKinds)'
      BY CaredKept
    <2> QED
      BY <1>2, <2>1 DEF RecordNamed, Cared
  <1>3. CASE \E c \in Calls : Pending(c, p, {"record"})
    BY <1>3 DEF RecordNamed
  <1> QED
    BY <1>1, <1>2, <1>3 DEF RecordNamed

LEMMA NodeStaysNamed ==
  ASSUME TypeOK, Orderly, Next, NEW k \in Keys, NodeNamed(k),
         pool'.node[k] = pool.node[k] \/ pool'.node[k] = None,
         k \notin pool'.entries => k \notin pool.entries,
         Coming(k) => Coming(k)'
  PROVE  NodeNamed(k)'
  <1>1. SUFFICES ASSUME pool'.node[k] # None, k \notin pool'.entries
                 PROVE  (k \in Calls /\ session'[k].at = "gone") \/ Coming(k)'
    BY DEF NodeNamed
  <1>2. (k \in Calls /\ session[k].at = "gone") \/ Coming(k)
    BY <1>1 DEF NodeNamed
  <1> QED
    BY <1>2, GoneStays DEF GoneStay

(* A step that leaves the relays and the pool as they are.                 *)
LEMMA NamedQuiet ==
  ASSUME TypeOK, Orderly, Named, Next, NEW d \in Calls,
         HandlerStep(d) \/ \E who \in Actors : CleanerStep(d, who),
         victims \subseteq victims', UNCHANGED <<leased, owner, leaked, pool>>,
         NEW h, Drops(d, h), h.what \notin LeaseKinds \cup RecordKinds \cup {"lease"}
  PROVE  Named'
  <1> SUFFICES ASSUME victims' = {}
               PROVE  /\ \A p \in leased' \ leaked' : LeaseNamed(p)'
                      /\ \A p \in Ports \ leaked' : RecordNamed(p)'
                      /\ \A k \in Keys : NodeNamed(k)'
    BY NamedWillBe
  <1>1. /\ \A p \in leased \ leaked : LeaseNamed(p)
        /\ \A p \in Ports \ leaked : RecordNamed(p)
        /\ \A k \in Keys : NodeNamed(k)
    BY NamedIs
  <1>2. "clear" \in LeaseKinds /\ "clear" \in RecordKinds /\ h.what # "record"
    BY DEF LeaseKinds, RecordKinds
  <1>3. \A c \in Calls : \A p :
           /\ Keeps(c, p, LeaseKinds) /\ Keeps(c, p, RecordKinds)
           /\ Pending(c, p, {"record"}) => Pending(c, p, {"record"})'
    <2>1. ASSUME NEW c \in Calls, NEW p
          PROVE  /\ Keeps(c, p, LeaseKinds) /\ Keeps(c, p, RecordKinds)
                 /\ Pending(c, p, {"record"}) => Pending(c, p, {"record"})'
      <3>1. CASE c = d
        BY <1>2, <3>1, DropsKeeps
      <3>2. CASE c # d
        BY <3>2, OthersKeep DEF Keeps
      <3> QED
        BY <3>1, <3>2
    <2> QED
      BY <2>1
  <1>4. \A k \in Keys : Coming(k) => Coming(k)'
    <2>1. ASSUME NEW k \in Keys, Coming(k) PROVE Coming(k)'
      <3>1. \A c \in Calls : c # d => Listed(c, "handler")' = Listed(c, "handler")
        BY OthersKeep
      <3>2. \A s \in Listed(d, "handler") : s.what \notin {"lease", "record"}
                                            \/ s \in Listed(d, "handler")'
        BY <1>2 DEF Drops, Actors
      <3> QED
        BY <2>1, <3>1, <3>2, ComingKept
    <2> QED
      BY <2>1
  <1> QED
    BY <1>1, <1>3, <1>4, LeaseStaysNamed, RecordStaysNamed, NodeStaysNamed

LEMMA NamedStart ==
  ASSUME TypeOK, Orderly, Named, Next, NEW d \in Calls, victims \subseteq victims',
         Invite(d) \/ Answer(d) \/ LateAnswer(d) \/ Failover(d) \/ Failure(d) \/ Remove(d)
         \/ InviteWithoutSdp(d)
  PROVE  Named'
  <1> DEFINE h == Step("remove", None, None, None)
  <1>0. /\ h.what \notin LeaseKinds \cup RecordKinds \cup {"lease"}
        /\ HandlerStep(d)
    BY StepsMade DEF HandlerStep, LeaseKinds, RecordKinds
  <1>1. UNCHANGED <<leased, owner, leaked, pool>>
    BY DEF Invite, Answer, LateAnswer, Failover, Failure, Remove, InviteWithoutSdp, relay, marks
  <1> HIDE DEF h
  <1>2. CASE Invite(d) \/ Answer(d) \/ LateAnswer(d)
    <2>1. session' = session /\ spent' = spent
      BY <1>2 DEF Invite, Answer, LateAnswer, marks
    <2>2. PICK why \in Reasons : Start(d, "handler", Choice(why))
      BY <1>2 DEF Invite, Answer, LateAnswer, Reasons
    <2>3. Choice(why) \in Seq(Steps)
      BY StepsMade DEF Choice
    <2>4. Listed(d, "handler") = {} /\ Others(d, "handler")
      <3> DEFINE L == Choice(why)
      <3>1. L \in Seq(Steps) /\ Start(d, "handler", L)
        BY <2>2, <2>3
      <3> HIDE DEF L
      <3> QED
        BY <3>1, Started, OthersFrom DEF Actors
    <2>5. Listed(d, "ender")' = Listed(d, "ender")
      BY <2>4, EnderKept
    <2>6. PortsHeldBy(d)' = PortsHeldBy(d)
      BY <2>1 DEF PortsHeldBy, Stored
    <2>7. Drops(d, h)
      BY <2>4, <2>5, <2>6 DEF Drops, Actors
    <2> QED
      BY <1>0, <1>1, <2>7, NamedQuiet
  <1>3. CASE Failover(d) \/ Failure(d)
    <2>2. /\ Listed(d, "handler") = {} /\ Others(d, "handler")
          /\ \A p \in Stored(d) : \E s \in Listed(d, "handler")' : s.what = "clear" /\ s.port = p
      BY <1>3, GivesUp
    <2>3. Listed(d, "ender")' = Listed(d, "ender")
      BY <2>2, EnderKept
    <2>4. PortsHeldBy(d) \subseteq Stored(d)
      BY DEF PortsHeldBy
    <2>5. \A p \in PortsHeldBy(d) : Pending(d, p, {"clear"})'
      BY <2>2, <2>4 DEF Pending, Actors
    <2>6. Drops(d, h)
      BY <2>2, <2>3, <2>5 DEF Drops, Actors
    <2> QED
      BY <1>0, <1>1, <2>6, NamedQuiet
  <1>4. CASE Remove(d)
    <2> DEFINE r == Head(Handler(d))
    <2>1. /\ PortsHeldBy(d) = {} /\ Others(d, "handler") /\ Listed(d, "handler") = {r}
      BY <1>4, RemoveOrderly
    <2>2. r.what = "remove"
      BY <1>4 DEF Remove, Next_, Handler
    <2>3. Listed(d, "ender")' = Listed(d, "ender")
      BY <2>1, EnderKept
    <2> HIDE DEF r
    <2>4. Drops(d, r)
      BY <2>1, <2>3 DEF Drops, Actors
    <2>5. r.what \notin LeaseKinds \cup RecordKinds \cup {"lease"}
      BY <2>2 DEF LeaseKinds, RecordKinds
    <2> QED
      BY <1>0, <1>1, <2>4, <2>5, NamedQuiet
  <1>5. CASE InviteWithoutSdp(d)
    <2>1. PortsHeldBy(d) = {} /\ todo' = todo
      BY <1>5, WithoutSdpOrderly
    <2>2. Drops(d, h)
      BY <2>1 DEF Drops, Listed
    <2> QED
      BY <1>0, <1>1, <2>2, NamedQuiet
  <1> QED
    BY <1>2, <1>3, <1>4, <1>5

(* What Named says before a step that leaves nobody harmed.                *)
LEMMA NamedParts ==
  ASSUME Named, victims \subseteq victims', victims' = {}
  PROVE  /\ victims = {}
         /\ \A p \in leased \ leaked : LeaseNamed(p)
         /\ \A p \in Ports \ leaked : RecordNamed(p)
         /\ \A k \in Keys : NodeNamed(k)
  BY NamedIs

LEMMA NamedTeardown ==
  ASSUME TypeOK, Orderly, Books, Named, Next, NEW d \in Calls, victims \subseteq victims',
         Teardown(d)
  PROVE  Named'
  <1> SUFFICES ASSUME victims' = {}
               PROVE  /\ \A p \in leased' \ leaked' : LeaseNamed(p)'
                      /\ \A p \in Ports \ leaked' : RecordNamed(p)'
                      /\ \A k \in Keys : NodeNamed(k)'
    BY NamedWillBe
  <1> DEFINE h == Step("remove", None, None, None)
  <1>0. h.what \notin LeaseKinds \cup RecordKinds \cup {"record"} /\ HandlerStep(d)
        /\ "clear" \in LeaseKinds /\ "clear" \in RecordKinds
    BY StepsMade DEF HandlerStep, LeaseKinds, RecordKinds
  <1>1. /\ Others(d, "ender") /\ Listed(d, "ender") = {} /\ session'[d].at = "gone"
        /\ \A p \in Stored(d) : \E s \in Listed(d, "ender")' : s.what = "clear" /\ s.port = p
    BY TeardownOrderly
  <1>2. Listed(d, "handler")' = Listed(d, "handler")
    BY <1>1 DEF Others, Actors
  <1> HIDE DEF h
  <1>3. Drops(d, h)
    BY <1>1, <1>2 DEF Drops, Actors, Pending, PortsHeldBy
  <1>4. /\ UNCHANGED <<leased, owner, leaked>>
        /\ pool'.call = pool.call /\ pool'.entries = pool.entries
        /\ \A k \in Keys : k # d => pool'.node[k] = pool.node[k]
    <2>1. UNCHANGED <<leased, owner, leaked>>
      BY DEF Teardown, relay
    <2>2. CASE pool' = pool
      BY <2>1, <2>2
    <2>3. ASSUME NEW n \in NodesFor(d), pool' = [pool EXCEPT !.node[d] = n]
          PROVE  /\ pool'.call = pool.call /\ pool'.entries = pool.entries
                 /\ \A k \in Keys : k # d => pool'.node[k] = pool.node[k]
      <3>1. d \in Keys /\ n \in Nodes \cup {None} /\ Covered(pool)
        BY Constants, PoolFields DEF NodesFor, Books, Covered
      <3> QED
        BY <2>3, <3>1, Choosing
    <2> QED
      BY <2>1, <2>2, <2>3 DEF Teardown
  <1>5. \A c \in Calls : \A p :
           /\ Keeps(c, p, LeaseKinds) /\ Keeps(c, p, RecordKinds)
           /\ Pending(c, p, {"record"}) => Pending(c, p, {"record"})'
    <2>1. ASSUME NEW c \in Calls, NEW p
          PROVE  /\ Keeps(c, p, LeaseKinds) /\ Keeps(c, p, RecordKinds)
                 /\ Pending(c, p, {"record"}) => Pending(c, p, {"record"})'
      <3>1. CASE c = d
        BY <1>0, <1>3, <3>1, DropsKeeps
      <3>2. CASE c # d
        BY <1>0, <3>2, OthersKeep DEF Keeps
      <3> QED
        BY <3>1, <3>2
    <2> QED
      BY <2>1
  <1>6. \A k \in Keys : Coming(k) => Coming(k)'
    <2>1. \A c \in Calls : Listed(c, "handler")' = Listed(c, "handler")
      BY <1>0, <1>2, OthersKeep
    <2> QED
      BY <2>1 DEF Coming
  <1>7. ASSUME NEW k \in Keys PROVE NodeNamed(k)'
    <2>1. CASE k = d
      BY <1>1, <2>1 DEF NodeNamed
    <2>2. CASE k # d
      <3>1. NodeNamed(k) /\ pool'.node[k] = pool.node[k] /\ (Coming(k) => Coming(k)')
        BY <1>4, <1>6, <1>7, <2>2, NamedParts
      <3> QED
        BY <1>4, <3>1, NodeStaysNamed
    <2> QED
      BY <2>1, <2>2
  <1> QED
    BY <1>4, <1>5, <1>7, NamedParts, LeaseStaysNamed, RecordStaysNamed

LEMMA AllKeep ==
  ASSUME TypeOK, Orderly, NEW d \in Calls,
         HandlerStep(d) \/ \E who \in Actors : CleanerStep(d, who),
         NEW h, Drops(d, h), NEW p
  PROVE  /\ ~(h.what \in LeaseKinds /\ h.port = p) => \A c \in Calls : Keeps(c, p, LeaseKinds)
         /\ ~(h.what \in RecordKinds /\ h.port = p) => \A c \in Calls : Keeps(c, p, RecordKinds)
         /\ ~(h.what = "record" /\ h.port = p) =>
              \A c \in Calls : Pending(c, p, {"record"}) => Pending(c, p, {"record"})'
  <1>0. "clear" \in LeaseKinds /\ "clear" \in RecordKinds
    BY DEF LeaseKinds, RecordKinds
  <1>1. ASSUME NEW c \in Calls
        PROVE  /\ ~(h.what \in LeaseKinds /\ h.port = p) => Keeps(c, p, LeaseKinds)
               /\ ~(h.what \in RecordKinds /\ h.port = p) => Keeps(c, p, RecordKinds)
               /\ ~(h.what = "record" /\ h.port = p) =>
                     (Pending(c, p, {"record"}) => Pending(c, p, {"record"})')
    <2>1. CASE c = d
      BY <1>0, <2>1, DropsKeeps
    <2>2. CASE c # d
      BY <1>0, <2>2, OthersKeep DEF Keeps
    <2> QED
      BY <2>1, <2>2
  <1> QED
    BY <1>1

(* A handler that is done with the one step it had, and stores no port.    *)
LEMMA ServedDrops ==
  ASSUME NEW d \in Calls, NEW h, Others(d, "handler"), Listed(d, "handler") = {h},
         PortsHeldBy(d) \subseteq PortsHeldBy(d)'
  PROVE  Drops(d, h)
  BY EnderKept DEF Drops, Actors

LEMMA UnservedHolds ==
  ASSUME TypeOK, Orderly, NEW d \in Calls, NEW s \in Listed(d, "handler"),
         session' = session \/ Unserved(d, s.why), UNCHANGED spent, Asking(s) \/ Serving(s)
  PROVE  PortsHeldBy(d)' = PortsHeldBy(d)
  <1>1. CASE session' = session
    BY <1>1 DEF PortsHeldBy, Stored
  <1>2. CASE s.why = "offer" /\ session' = [session EXCEPT ![d].at = "refused"]
    <2>1. session[d].at = "new"
      BY <1>2 DEF Orderly, OrderlyFor, Fits
    <2>2. session'[d].at = "refused"
      BY <1>2 DEF TypeOK
    <2> QED
      BY <2>1, <2>2 DEF PortsHeldBy
  <1> QED
    BY <1>1, <1>2 DEF Unserved

LEMMA NamedChoose ==
  ASSUME TypeOK, Orderly, Books, Named, Next, NEW d \in Calls, victims \subseteq victims',
         Choose(d)
  PROVE  Named'
  <1> SUFFICES ASSUME victims' = {}
               PROVE  /\ \A p \in leased' \ leaked' : LeaseNamed(p)'
                      /\ \A p \in Ports \ leaked' : RecordNamed(p)'
                      /\ \A k \in Keys : NodeNamed(k)'
    BY NamedWillBe
  <1> DEFINE h == Head(Handler(d))
  <1>a. PICK key \in Keys : key = KeyOf(d, h.why)
    BY KeyType
  <1>0. HandlerStep(d) /\ UNCHANGED <<leased, owner, leaked, spent>> /\ Next_(d, "handler", "choose")
    BY DEF HandlerStep, Choose, relay, marks
  <1>1. h \in Listed(d, "handler") /\ h.what = "choose" /\ Asking(h)
    BY <1>0, HandlerHead
  <1>2. \/ session' = session /\ pool' = pool /\ Then(d, "handler", <<>>)
        \/ Unserved(d, h.why) /\ pool' = pool /\ Then(d, "handler", <<>>)
        \/ \E n \in NodesFor(key) : /\ pool' = [pool EXCEPT !.node[key] = n]
                                    /\ Then(d, "handler", <<Step("lease", h.why, None, n)>>)
                                    /\ session' = session
    BY <1>a DEF Choose, Handler
  <1>3. PortsHeldBy(d)' = PortsHeldBy(d)
    BY <1>0, <1>1, <1>2, UnservedHolds
  <1>4. /\ Others(d, "handler") /\ Listed(d, "handler") = {h}
        /\ pool'.call = pool.call /\ pool'.entries = pool.entries
        /\ \A k \in Keys : k # key => pool'.node[k] = pool.node[k]
        /\ pool' # pool => Coming(key)'
    <2>1. CASE pool' = pool /\ Then(d, "handler", <<>>)
      BY <1>0, <2>1, HandlerEnds
    <2>2. ASSUME NEW n \in NodesFor(key), pool' = [pool EXCEPT !.node[key] = n],
                 Then(d, "handler", <<Step("lease", h.why, None, n)>>)
          PROVE  /\ Others(d, "handler") /\ Listed(d, "handler") = {h}
                 /\ pool'.call = pool.call /\ pool'.entries = pool.entries
                 /\ \A k \in Keys : k # key => pool'.node[k] = pool.node[k]
                 /\ pool' # pool => Coming(key)'
      <3> DEFINE t == Step("lease", h.why, None, n)
      <3>1. n \in Nodes /\ Covered(pool)
        BY <1>1, PoolFields DEF NodesFor, Books, Covered
      <3>2. t \in Steps /\ t.what = "lease" /\ t.why = h.why
        BY <1>1, <3>1, StepsMade DEF Asking
      <3>3. Then(d, "handler", <<t>>)
        BY <2>2
      <3> HIDE DEF t
      <3>4. Others(d, "handler") /\ Listed(d, "handler")' = {t} /\ Listed(d, "handler") = {h}
        BY <1>0, <3>2, <3>3, HandlerGoesOn
      <3>5. Coming(key)'
        BY <1>a, <3>2, <3>4 DEF Coming, KeyOf
      <3> HIDE DEF h
      <3>6. pool'.call = pool.call /\ \A k \in Keys : k # key => pool'.node[k] = pool.node[k]
        BY <1>1, <2>2, <3>1, Choosing
      <3>7. pool'.entries = pool.entries
        BY <1>1, <2>2, <3>1, Choosing
      <3> QED
        BY <3>4, <3>5, <3>6, <3>7
    <2> QED
      BY <1>2, <2>1, <2>2
  <1> HIDE DEF h
  <1>5. Drops(d, h)
    BY <1>3, <1>4, ServedDrops
  <1>6. h.what \notin LeaseKinds \cup RecordKinds \cup {"record", "lease"}
    BY <1>1 DEF LeaseKinds, RecordKinds
  <1>7. \A k \in Keys : Coming(k) => Coming(k)'
    <2>1. \A c \in Calls : c # d => Listed(c, "handler")' = Listed(c, "handler")
      BY <1>0, OthersKeep
    <2>2. \A s \in Listed(d, "handler") : s.what \notin {"lease", "record"}
      BY <1>4, <1>6
    <2> QED
      BY <2>1, <2>2, ComingKept
  <1>8. ASSUME NEW k \in Keys PROVE NodeNamed(k)'
    <2>1. CASE k = key /\ pool' # pool
      BY <1>4, <2>1 DEF NodeNamed
    <2>2. CASE k # key \/ pool' = pool
      <3>1. NodeNamed(k) /\ pool'.node[k] = pool.node[k] /\ (Coming(k) => Coming(k)')
        BY <1>4, <1>7, <1>8, <2>2, NamedParts
      <3> QED
        BY <1>4, <3>1, NodeStaysNamed
    <2> QED
      BY <2>1, <2>2
  <1>9. \A p : /\ \A c \in Calls : Keeps(c, p, LeaseKinds) /\ Keeps(c, p, RecordKinds)
               /\ \A c \in Calls : Pending(c, p, {"record"}) => Pending(c, p, {"record"})'
    BY <1>0, <1>5, <1>6, AllKeep
  <1> QED
    BY <1>0, <1>4, <1>8, <1>9, NamedParts, LeaseStaysNamed, RecordStaysNamed

LEMMA NamedLease ==
  ASSUME TypeOK, Orderly, Books, Named, Next, NEW d \in Calls, victims \subseteq victims',
         Lease(d)
  PROVE  Named'
  <1> SUFFICES ASSUME victims' = {}
               PROVE  /\ \A p \in leased' \ leaked' : LeaseNamed(p)'
                      /\ \A p \in Ports \ leaked' : RecordNamed(p)'
                      /\ \A k \in Keys : NodeNamed(k)'
    BY NamedWillBe
  <1> DEFINE h == Head(Handler(d))
  <1>a. PICK key \in Keys : key = KeyOf(d, h.why)
    BY KeyType
  <1>0. HandlerStep(d) /\ UNCHANGED <<pool, session, spent>> /\ Next_(d, "handler", "lease")
    BY DEF HandlerStep, Lease
  <1>1. h \in Listed(d, "handler") /\ h.what = "lease" /\ Serving(h)
    BY <1>0, HandlerHead
  <1>2. PICK x \in Ports : /\ x \notin leased /\ Grant(key, x) /\ leaked' = leaked \ {x}
                           /\ Then(d, "handler", <<Step("record", h.why, x, None)>>)
    BY <1>a DEF Lease, Handler, Available
  <1> DEFINE t == Step("record", h.why, x, None)
  <1>3. t \in Steps /\ t.what = "record" /\ t.why = h.why /\ t.port = x
    BY <1>1, StepsMade DEF Serving
  <1>4. Then(d, "handler", <<t>>)
    BY <1>2
  <1> HIDE DEF t
  <1>5. Others(d, "handler") /\ Listed(d, "handler")' = {t} /\ Listed(d, "handler") = {h}
    BY <1>0, <1>3, <1>4, HandlerGoesOn
  <1>6. /\ leased' = leased \cup {x} /\ owner'[x] = key
        /\ \A p \in Ports : p # x => owner'[p] = owner[p]
    BY <1>1, <1>2 DEF Grant, TypeOK
  <1>7. key = d \/ key = Stray
    BY <1>a DEF KeyOf
  <1> HIDE DEF h
  <1>8. Pending(d, x, {"record"})' /\ Pending(d, x, LeaseKinds)'
    BY <1>3, <1>5 DEF Pending, Actors, LeaseKinds
  <1>9. Drops(d, h)
    BY <1>0, <1>5, ServedDrops DEF PortsHeldBy, Stored
  <1>10. h.what \notin LeaseKinds \cup RecordKinds \cup {"record"}
    BY <1>1 DEF LeaseKinds, RecordKinds
  <1>11. \A p : /\ \A c \in Calls : Keeps(c, p, LeaseKinds) /\ Keeps(c, p, RecordKinds)
                /\ \A c \in Calls : Pending(c, p, {"record"}) => Pending(c, p, {"record"})'
    BY <1>0, <1>9, <1>10, AllKeep
  <1>12. ASSUME NEW p \in leased' \ leaked' PROVE LeaseNamed(p)'
    <2>1. CASE p = x
      <3>1. Cared(key, x, LeaseKinds)'
        BY <1>7, <1>8 DEF Cared
      <3> QED
        BY <1>6, <2>1, <3>1 DEF LeaseNamed
    <2>2. CASE p # x
      BY <1>2, <1>6, <1>11, <1>12, <2>2, NamedParts, LeaseStaysNamed DEF TypeOK
    <2> QED
      BY <2>1, <2>2
  <1>13. ASSUME NEW p \in Ports \ leaked' PROVE RecordNamed(p)'
    <2>1. CASE p = x
      BY <1>8, <2>1 DEF RecordNamed
    <2>2. CASE p # x
      BY <1>0, <1>2, <1>11, <1>13, <2>2, NamedParts, RecordStaysNamed
    <2> QED
      BY <2>1, <2>2
  <1>14. ASSUME NEW k \in Keys PROVE NodeNamed(k)'
    <2>1. Coming(k) => Coming(k)'
      <3>1. \A c \in Calls : c # d => Listed(c, "handler")' = Listed(c, "handler")
        BY <1>0, OthersKeep
      <3>2. \A s \in Listed(d, "handler") :
              \E r \in Listed(d, "handler")' : r.what \in {"lease", "record"} /\ r.why = s.why
        BY <1>3, <1>5
      <3> QED
        BY <3>1, <3>2, ComingKept
    <2>2. NodeNamed(k)
      BY NamedParts
    <2> QED
      BY <1>0, <2>1, <2>2, NodeStaysNamed
  <1> QED
    BY <1>12, <1>13, <1>14

LEMMA NamedUnleased ==
  ASSUME TypeOK, Orderly, Books, Named, Next, NEW d \in Calls, victims \subseteq victims',
         LeaseFails(d) \/ LeaseLost(d)
  PROVE  Named'
  <1> SUFFICES ASSUME victims' = {}
               PROVE  /\ \A p \in leased' \ leaked' : LeaseNamed(p)'
                      /\ \A p \in Ports \ leaked' : RecordNamed(p)'
                      /\ \A k \in Keys : NodeNamed(k)'
    BY NamedWillBe
  <1> DEFINE h == Head(Handler(d))
  <1>a. PICK key \in Keys : key = KeyOf(d, h.why)
    BY KeyType
  <1>0. /\ HandlerStep(d) /\ UNCHANGED spent /\ Next_(d, "handler", "lease")
        /\ Unserved(d, h.why) /\ pool' = Cancelled(key) /\ Then(d, "handler", <<>>)
    BY <1>a DEF HandlerStep, LeaseFails, LeaseLost, marks, Handler
  <1>1. h \in Listed(d, "handler") /\ h.what = "lease" /\ Serving(h)
    BY <1>0, HandlerHead
  <1>2. \A p \in leased' \ leaked' : p \in leased \ leaked /\ owner'[p] = owner[p]
    <2>1. CASE UNCHANGED <<leased, owner, leaked>>
      BY <2>1
    <2>2. CASE \E x \in Ports : Grant(key, x) /\ leaked' = leaked \cup {x}
      BY <2>2 DEF Grant, TypeOK
    <2> QED
      BY <1>a, <2>1, <2>2 DEF LeaseFails, LeaseLost, relay, marks, Handler, Available
  <1>3. leaked \subseteq leaked'
    BY DEF LeaseFails, LeaseLost, marks
  <1>4. Others(d, "handler") /\ Listed(d, "handler")' = {} /\ Listed(d, "handler") = {h}
    BY <1>0, HandlerEnds
  <1>5. PortsHeldBy(d)' = PortsHeldBy(d)
    BY <1>0, <1>1, UnservedHolds
  <1> HIDE DEF h
  <1>6. Drops(d, h)
    BY <1>4, <1>5, ServedDrops
  <1>7. h.what \notin LeaseKinds \cup RecordKinds \cup {"record"}
    BY <1>1 DEF LeaseKinds, RecordKinds
  <1>8. \A p : /\ \A c \in Calls : Keeps(c, p, LeaseKinds) /\ Keeps(c, p, RecordKinds)
               /\ \A c \in Calls : Pending(c, p, {"record"}) => Pending(c, p, {"record"})'
    BY <1>0, <1>6, <1>7, AllKeep
  <1>9. /\ pool'.call = pool.call
        /\ \A j \in Keys : j # key => pool'.node[j] = pool.node[j]
        /\ pool'.entries = pool.entries
        /\ key \notin pool.entries => pool'.node[key] = None
    <2> QED
      BY <1>0, <1>1, Cancelling DEF Books
  <1>10. ASSUME NEW k \in Keys PROVE NodeNamed(k)'
    <2>1. CASE k = key
      BY <1>9, <2>1 DEF NodeNamed
    <2>2. CASE k # key
      <3>1. Coming(k) => Coming(k)'
        <4>1. \A c \in Calls : c # d => Listed(c, "handler")' = Listed(c, "handler")
          BY <1>0, OthersKeep
        <4>2. \A s \in Listed(d, "handler") : KeyOf(d, s.why) # k
          BY <1>a, <1>4, <2>2
        <4> QED
          BY <4>1, <4>2, ComingKept
      <3>2. NodeNamed(k) /\ pool'.node[k] = pool.node[k]
        BY <1>9, <2>2, NamedParts
      <3> QED
        BY <1>9, <3>1, <3>2, NodeStaysNamed
    <2> QED
      BY <2>1, <2>2
  <1> QED
    BY <1>2, <1>3, <1>8, <1>9, <1>10, NamedParts, LeaseStaysNamed, RecordStaysNamed

LEMMA NamedRecord ==
  ASSUME TypeOK, Orderly, Books, Named, Next, NEW d \in Calls, victims \subseteq victims',
         Record(d)
  PROVE  Named'
  <1> SUFFICES ASSUME victims' = {}
               PROVE  /\ \A p \in leased' \ leaked' : LeaseNamed(p)'
                      /\ \A p \in Ports \ leaked' : RecordNamed(p)'
                      /\ \A k \in Keys : NodeNamed(k)'
    BY NamedWillBe
  <1> DEFINE h == Head(Handler(d))
  <1>a. PICK key \in Keys : key = KeyOf(d, h.why)
    BY KeyType
  <1>0. HandlerStep(d) /\ UNCHANGED <<leased, owner, leaked, session, spent>>
        /\ Next_(d, "handler", "record")
    BY DEF HandlerStep, Record, relay
  <1>1. h \in Listed(d, "handler") /\ h.what = "record" /\ Serving(h)
    BY <1>0, HandlerHead
  <1>b. PICK x \in Ports : x = h.port
    BY <1>1 DEF Serving
  <1> DEFINE t == Step("rewrite", h.why, x, None)
  <1>2. /\ pool' = Recorded(x, key) /\ victims' = victims \cup ({pool.call[x]} \ {None})
        /\ Then(d, "handler", <<t>>)
    BY <1>a, <1>b DEF Record, Handler
  <1>3. t \in Steps /\ t.what = "rewrite" /\ t.why = h.why /\ t.port = x
    BY <1>1, StepsMade DEF Serving
  <1> HIDE DEF t
  <1>5. Others(d, "handler") /\ Listed(d, "handler")' = {t} /\ Listed(d, "handler") = {h}
    BY <1>0, <1>2, <1>3, HandlerGoesOn
  <1>6. pool.call[x] = None
    BY <1>2
  <1>7. key = d \/ key = Stray
    BY <1>a DEF KeyOf
  <1> HIDE DEF h
  <1>8. Pending(d, x, LeaseKinds)' /\ Pending(d, x, RecordKinds)'
    BY <1>3, <1>5 DEF Pending, Actors, LeaseKinds, RecordKinds
  <1>9. Drops(d, h)
    BY <1>0, <1>5, ServedDrops DEF PortsHeldBy, Stored
  <1>10. h.what \notin RecordKinds
    BY <1>1 DEF RecordKinds
  <1>11. \A p : /\ \A c \in Calls : p # x => Keeps(c, p, LeaseKinds)
                /\ \A c \in Calls : Keeps(c, p, RecordKinds)
                /\ \A c \in Calls : p # x =>
                     (Pending(c, p, {"record"}) => Pending(c, p, {"record"})')
    BY <1>0, <1>b, <1>9, <1>10, AllKeep
  <1>4. /\ \A y \in Ports : pool'.call[y] = IF y = x THEN key ELSE pool.call[y]
        /\ pool'.node = pool.node /\ pool'.entries = pool.entries \cup {key}
    BY <1>2, Recording DEF Books
  <1>12. ASSUME NEW p \in leased' \ leaked' PROVE LeaseNamed(p)'
    <2>1. CASE p = x
      <3>1. Keeps(d, x, LeaseKinds)
        BY <1>8 DEF Keeps, Cares
      <3>2. \A c \in Calls : c # d => Keeps(c, x, LeaseKinds)
        BY <1>0, OthersKeep
      <3>3. \A c \in Calls : Keeps(c, x, LeaseKinds)
        BY <3>1, <3>2
      <3> QED
        BY <1>0, <1>12, <2>1, <3>3, NamedParts, LeaseStaysNamed
    <2>2. CASE p # x
      BY <1>0, <1>11, <1>12, <2>2, NamedParts, LeaseStaysNamed
    <2> QED
      BY <2>1, <2>2
  <1>13. ASSUME NEW p \in Ports \ leaked' PROVE RecordNamed(p)'
    <2>1. CASE p = x
      <3>1. Cared(key, x, RecordKinds)'
        BY <1>7, <1>8 DEF Cared
      <3>2. pool'.call[x] = key
        BY <1>4
      <3> QED
        BY <2>1, <3>1, <3>2 DEF RecordNamed
    <2>2. CASE p # x
      BY <1>0, <1>4, <1>11, <1>13, <2>2, NamedParts, RecordStaysNamed
    <2> QED
      BY <2>1, <2>2
  <1>14. ASSUME NEW k \in Keys PROVE NodeNamed(k)'
    <2>1. CASE k = key
      BY <1>4, <2>1 DEF NodeNamed
    <2>2. CASE k # key
      <3>1. Coming(k) => Coming(k)'
        <4>1. \A c \in Calls : c # d => Listed(c, "handler")' = Listed(c, "handler")
          BY <1>0, OthersKeep
        <4>2. \A s \in Listed(d, "handler") : KeyOf(d, s.why) # k
          BY <1>a, <1>5, <2>2
        <4> QED
          BY <4>1, <4>2, ComingKept
      <3>2. k \notin pool'.entries => k \notin pool.entries
        BY <1>4
      <3>3. NodeNamed(k)
        BY NamedParts
      <3> QED
        BY <1>4, <3>1, <3>2, <3>3, NodeStaysNamed
    <2> QED
      BY <2>1, <2>2
  <1> QED
    BY <1>12, <1>13, <1>14

LEMMA NamedRewriteFails ==
  ASSUME TypeOK, Orderly, Books, Named, Next, NEW d \in Calls, victims \subseteq victims',
         RewriteFails(d)
  PROVE  Named'
  <1> SUFFICES ASSUME victims' = {}
               PROVE  /\ \A p \in leased' \ leaked' : LeaseNamed(p)'
                      /\ \A p \in Ports \ leaked' : RecordNamed(p)'
                      /\ \A k \in Keys : NodeNamed(k)'
    BY NamedWillBe
  <1> DEFINE h == Head(Handler(d))
  <1>0. /\ HandlerStep(d) /\ UNCHANGED <<leased, owner, leaked, pool, spent>>
        /\ Next_(d, "handler", "rewrite") /\ Unserved(d, h.why)
    BY DEF HandlerStep, RewriteFails, relay, marks, Handler
  <1>1. h \in Listed(d, "handler") /\ h.what = "rewrite" /\ Serving(h)
    BY <1>0, HandlerHead
  <1>b. PICK x \in Ports : x = h.port
    BY <1>1 DEF Serving
  <1> DEFINE t == Step("clear", None, x, None)
  <1>2. Then(d, "handler", <<t>>)
    BY <1>b DEF RewriteFails, Handler
  <1>3. t \in Steps /\ t.what = "clear" /\ t.port = x
    BY StepsMade
  <1> HIDE DEF t
  <1>5. Others(d, "handler") /\ Listed(d, "handler")' = {t} /\ Listed(d, "handler") = {h}
    BY <1>0, <1>2, <1>3, HandlerGoesOn
  <1>6. PortsHeldBy(d)' = PortsHeldBy(d)
    BY <1>0, <1>1, UnservedHolds
  <1> HIDE DEF h
  <1>8. Pending(d, x, LeaseKinds)' /\ Pending(d, x, RecordKinds)'
    BY <1>3, <1>5 DEF Pending, Actors, LeaseKinds, RecordKinds
  <1>9. Drops(d, h)
    BY <1>5, <1>6, ServedDrops
  <1>10. h.what # "record"
    BY <1>1
  <1>11. \A p : /\ \A c \in Calls : Keeps(c, p, LeaseKinds) /\ Keeps(c, p, RecordKinds)
                /\ \A c \in Calls : Pending(c, p, {"record"}) => Pending(c, p, {"record"})'
    <2>1. ASSUME NEW p
          PROVE  /\ \A c \in Calls : Keeps(c, p, LeaseKinds) /\ Keeps(c, p, RecordKinds)
                 /\ \A c \in Calls : Pending(c, p, {"record"}) => Pending(c, p, {"record"})'
      <3>1. CASE p # x
        BY <1>0, <1>b, <1>9, <1>10, <3>1, AllKeep
      <3>2. CASE p = x
        <4>1. Keeps(d, p, LeaseKinds) /\ Keeps(d, p, RecordKinds)
          BY <1>8, <3>2 DEF Keeps, Cares
        <4>2. \A c \in Calls : c # d => Keeps(c, p, LeaseKinds) /\ Keeps(c, p, RecordKinds)
          BY <1>0, OthersKeep
        <4>3. \A c \in Calls : Pending(c, p, {"record"}) => Pending(c, p, {"record"})'
          BY <1>0, <1>9, <1>10, AllKeep
        <4> QED
          BY <4>1, <4>2, <4>3
      <3> QED
        BY <3>1, <3>2
    <2> QED
      BY <2>1
  <1>14. ASSUME NEW k \in Keys PROVE NodeNamed(k)'
    <2>1. Coming(k) => Coming(k)'
      <3>1. \A c \in Calls : c # d => Listed(c, "handler")' = Listed(c, "handler")
        BY <1>0, OthersKeep
      <3>2. \A s \in Listed(d, "handler") : s.what \notin {"lease", "record"}
        BY <1>1, <1>5
      <3> QED
        BY <3>1, <3>2, ComingKept
    <2>2. NodeNamed(k)
      BY NamedParts
    <2> QED
      BY <1>0, <2>1, <2>2, NodeStaysNamed
  <1> QED
    BY <1>0, <1>11, <1>14, NamedParts, LeaseStaysNamed, RecordStaysNamed

LEMMA NamedRewrite ==
  ASSUME TypeOK, Orderly, Books, Undisturbed, Named, Next, NEW d \in Calls,
         victims \subseteq victims', Rewrite(d)
  PROVE  Named'
  <1> SUFFICES ASSUME victims' = {}
               PROVE  /\ \A p \in leased' \ leaked' : LeaseNamed(p)'
                      /\ \A p \in Ports \ leaked' : RecordNamed(p)'
                      /\ \A k \in Keys : NodeNamed(k)'
    BY NamedWillBe
  <1> DEFINE h == Head(Handler(d))
  <1>0. /\ HandlerStep(d) /\ UNCHANGED <<leased, owner, pool>>
        /\ Next_(d, "handler", "rewrite")
    BY DEF HandlerStep, Rewrite
  <1>1. h \in Listed(d, "handler") /\ h.what = "rewrite" /\ Serving(h)
    BY <1>0, HandlerHead
  <1>b. PICK x \in Ports : x = h.port
    BY <1>1 DEF Serving
  <1> DEFINE over == Overwritten(d, h.why)
  <1>2. /\ Listed(d, "handler")' = {} /\ Others(d, "handler") /\ Listed(d, "handler") = {h}
        /\ ~Stays(d) => session'[d] = session[d] /\ spent'[d] = spent[d]
                        /\ leaked' = leaked \cup {x}
        /\ Stays(d) => /\ session[d].at \in {"new", "up"} /\ leaked' = leaked \cup over
                       /\ PortsHeldBy(d) \subseteq PortsHeldBy(d)' \cup over
                       /\ x \in PortsHeldBy(d)'
    BY <1>b, RewriteIs
  <1> HIDE DEF h, over
  <1>3. PortsHeldBy(d) \subseteq PortsHeldBy(d)' \cup leaked' /\ leaked \subseteq leaked'
    <2>1. CASE Stays(d)
      BY <1>2, <2>1
    <2>2. CASE ~Stays(d)
      BY <1>2, <2>2 DEF PortsHeldBy, Stored
    <2> QED
      BY <2>1, <2>2
  <1>4. Listed(d, "ender")' = Listed(d, "ender")
    BY <1>2, EnderKept
  <1>d. \A p, kinds : ~(h.what \in kinds /\ x = p) /\ Pending(d, p, kinds) => Pending(d, p, kinds)'
    BY <1>b, <1>2, <1>4 DEF Pending, Actors
  <1>e. "record" # h.what
    BY <1>1
  <1>5. \A p : /\ p # x /\ p \notin leaked' =>
                     \A c \in Calls : Keeps(c, p, LeaseKinds) /\ Keeps(c, p, RecordKinds)
               /\ \A c \in Calls : Pending(c, p, {"record"}) => Pending(c, p, {"record"})'
    <2> SUFFICES ASSUME NEW p, NEW c \in Calls
                 PROVE  /\ p # x /\ p \notin leaked' =>
                             Keeps(c, p, LeaseKinds) /\ Keeps(c, p, RecordKinds)
                        /\ Pending(c, p, {"record"}) => Pending(c, p, {"record"})'
      OBVIOUS
    <2>1. CASE c = d
      BY <1>3, <1>d, <1>e, <2>1 DEF Keeps, Cares
    <2>2. CASE c # d
      BY <1>0, <2>2, OthersKeep DEF Keeps
    <2> QED
      BY <2>1, <2>2
  <1>6. ASSUME Stays(d)
        PROVE  /\ \A p \in leased' \ leaked' : LeaseNamed(p)'
               /\ \A p \in Ports \ leaked' : RecordNamed(p)'
    <2>1. Live(d) /\ Calm(d)
      BY <1>2, <1>6, NamedParts, UndisturbedIs DEF Live
    <2>2. owner[x] = d /\ pool.call[x] = d
      BY <1>1, <1>b, <2>1 DEF Calm, Underway, Mine
    <2>3. x \in PortsHeldBy(d)'
      BY <1>2, <1>6
    <2>4. LeaseNamed(x)' /\ RecordNamed(x)'
      BY <1>0, <2>2, <2>3 DEF LeaseNamed, RecordNamed, Cared
    <2>5. \A p \in leased' \ leaked' : LeaseNamed(p)'
      BY <1>0, <1>2, <1>5, <1>6, <2>4, NamedParts, LeaseStaysNamed
    <2>6. \A p \in Ports \ leaked' : RecordNamed(p)'
      BY <1>0, <1>2, <1>5, <1>6, <2>4, NamedParts, RecordStaysNamed
    <2> QED
      BY <2>5, <2>6
  <1>7. ASSUME ~Stays(d)
        PROVE  /\ \A p \in leased' \ leaked' : LeaseNamed(p)'
               /\ \A p \in Ports \ leaked' : RecordNamed(p)'
    <2>1. \A p \in Ports : p \notin leaked' => p \notin leaked /\ p # x
      BY <1>2, <1>7
    <2>2. \A p \in leased' \ leaked' : LeaseNamed(p)'
      BY <1>0, <1>5, <2>1, NamedParts, LeaseStaysNamed DEF TypeOK
    <2>3. \A p \in Ports \ leaked' : RecordNamed(p)'
      BY <1>0, <1>5, <2>1, NamedParts, RecordStaysNamed
    <2> QED
      BY <2>2, <2>3
  <1>14. ASSUME NEW k \in Keys PROVE NodeNamed(k)'
    <2>1. Coming(k) => Coming(k)'
      <3>1. \A c \in Calls : c # d => Listed(c, "handler")' = Listed(c, "handler")
        BY <1>0, OthersKeep
      <3>2. \A s \in Listed(d, "handler") : s.what \notin {"lease", "record"}
        BY <1>1, <1>2
      <3> QED
        BY <3>1, <3>2, ComingKept
    <2>2. NodeNamed(k)
      BY NamedParts
    <2> QED
      BY <1>0, <2>1, <2>2, NodeStaysNamed
  <1>c. /\ \A p \in leased' \ leaked' : LeaseNamed(p)'
        /\ \A p \in Ports \ leaked' : RecordNamed(p)'
    BY <1>6, <1>7
  <1> QED
    BY <1>14, <1>c

LEMMA CleanerComing ==
  ASSUME TypeOK, Orderly, NEW d \in Calls, NEW who \in Actors, CleanerStep(d, who), NEW h,
         \A s \in Listed(d, who) : s = h \/ s \in Listed(d, who)',
         h.what \in {"clear", "release", "forget"}, Others(d, who)
  PROVE  \A k : Coming(k) => Coming(k)'
  <1>1. \A c \in Calls : c # d => Listed(c, "handler")' = Listed(c, "handler")
    BY OthersKeep
  <1>2. \A s \in Listed(d, "handler") : s = h \/ s \in Listed(d, "handler")'
    BY DEF Others, Actors
  <1>3. \A s \in Listed(d, "handler") :
          s.what \notin {"lease", "record"} \/ s \in Listed(d, "handler")'
    BY <1>2
  <1> QED
    BY <1>1, <1>3, ComingKept

LEMMA CleanerDrops ==
  ASSUME TypeOK, Orderly, NEW d \in Calls, NEW who \in Actors, CleanerStep(d, who), NEW h,
         \A s \in Listed(d, who) : s = h \/ s \in Listed(d, who)', Others(d, who)
  PROVE  Drops(d, h)
  <1>1. session' = session /\ spent' = spent
    BY DEF CleanerStep, ClearHere, ClearThere, ClearLost, Release, Forget, marks
  <1>2. PortsHeldBy(d)' = PortsHeldBy(d)
    BY <1>1 DEF PortsHeldBy, Stored
  <1>3. \A w \in Actors : w # who => Listed(d, w)' = Listed(d, w)
    BY DEF Others
  <1> QED
    BY <1>2, <1>3 DEF Drops

(* A lease that somebody else has is named by what that one does.          *)
LEMMA LeaseOfAnother ==
  ASSUME NEW d \in Calls, NEW p, LeaseNamed(p), owner'[p] = owner[p], owner[p] \notin {d, Stray},
         \A c \in Calls : c # d => Keeps(c, p, LeaseKinds)
  PROVE  LeaseNamed(p)'
  <1>1. Cared(owner[p], p, LeaseKinds)'
    BY CaredByAnother DEF LeaseNamed
  <1> QED
    BY <1>1 DEF LeaseNamed, Cared

LEMMA NamedClearHere ==
  ASSUME TypeOK, Orderly, Books, LocalPairs, Named, Next, NEW d \in Calls, NEW who \in Actors,
         victims \subseteq victims', ClearHere(d, who)
  PROVE  Named'
  <1> SUFFICES ASSUME victims' = {}
               PROVE  /\ \A p \in leased' \ leaked' : LeaseNamed(p)'
                      /\ \A p \in Ports \ leaked' : RecordNamed(p)'
                      /\ \A k \in Keys : NodeNamed(k)'
    BY NamedWillBe
  <1> DEFINE h == Head(todo[d][who])
  <1>0. CleanerStep(d, who) /\ Next_(d, who, "clear")
    BY DEF CleanerStep, ClearHere
  <1>1. h \in Listed(d, who) /\ h.what = "clear" /\ h.port \in Ports
    BY <1>0, CleaningHead
  <1>2. PICK x \in Ports : x = h.port
    BY <1>1
  <1>3. PICK y \in Ports \cup {None} : y = peers[x]
    BY DEF TypeOK
  <1>4. PICK freed : freed = {x, y} \cap LocalPorts
    OBVIOUS
  <1>5. /\ leased' = leased \ freed
        /\ owner' = [z \in Ports |-> IF z \in freed THEN None ELSE owner[z]]
        /\ pool' = Released(Released(pool, x), y)
        /\ leaked' = IF x \notin LocalPorts /\ owner[x] \in {d, Stray}
                     THEN leaked \cup {x} ELSE leaked
    BY <1>2, <1>3, <1>4 DEF ClearHere
  <1>6. /\ \A s \in Listed(d, who) : s = h \/ s \in Listed(d, who)'
        /\ Others(d, who)
    <2>1. ClearHere(d, who) \/ Release(d, who)
      OBVIOUS
    <2>2. Listed(d, who) \subseteq Listed(d, who)' \cup {Head(todo[d][who])}
      BY <2>1, ForgetsLater
    <2>3. Others(d, who)
      BY <2>1, ForgetsLater
    <2> QED
      BY <2>2, <2>3
  <1> HIDE DEF h
  <1>7. Drops(d, h) /\ \A k : Coming(k) => Coming(k)'
    BY <1>0, <1>1, <1>6, CleanerDrops, CleanerComing
  <1>8. \A p : /\ p # x => \A c \in Calls : Keeps(c, p, LeaseKinds) /\ Keeps(c, p, RecordKinds)
               /\ \A c \in Calls : Pending(c, p, {"record"}) => Pending(c, p, {"record"})'
               /\ \A c \in Calls : c # d => Keeps(c, p, LeaseKinds)
    BY <1>0, <1>1, <1>2, <1>7, AllKeep, OthersKeep
  <1>9. /\ \A z \in Ports : pool'.call[z] = IF z \in {x, y} THEN None ELSE pool.call[z]
        /\ pool'.node = pool.node /\ pool'.entries = pool.entries
    BY <1>5, ReleasingTwo
  <1>10. ASSUME NEW p \in leased' \ leaked' PROVE LeaseNamed(p)'
    <2>1. p \in leased \ leaked /\ p \notin freed /\ p \in Ports /\ owner'[p] = owner[p]
      BY <1>5, <1>10 DEF TypeOK
    <2>2. CASE p = x
      <3>1. owner[p] \notin {d, Stray}
        BY <1>4, <1>5, <1>10, <2>1, <2>2
      <3> QED
        BY <1>8, <2>1, <3>1, NamedParts, LeaseOfAnother
    <2>3. CASE p # x
      BY <1>8, <2>1, <2>3, NamedParts, LeaseStaysNamed
    <2> QED
      BY <2>2, <2>3
  <1>11. ASSUME NEW p \in Ports \ leaked' PROVE RecordNamed(p)'
    <2>1. CASE p \in {x, y}
      BY <1>9, <2>1 DEF RecordNamed
    <2>2. CASE p \notin {x, y}
      <3>1. p \notin leaked /\ pool'.call[p] = pool.call[p]
        BY <1>5, <1>9, <1>11, <2>2
      <3> QED
        BY <1>8, <1>11, <2>2, <3>1, NamedParts, RecordStaysNamed
    <2> QED
      BY <2>1, <2>2
  <1>12. \A k \in Keys : NodeNamed(k)'
    BY <1>7, <1>9, NamedParts, NodeStaysNamed
  <1> QED
    BY <1>10, <1>11, <1>12

LEMMA NamedClearThere ==
  ASSUME TypeOK, Orderly, Books, Named, Next, NEW d \in Calls, NEW who \in Actors,
         victims \subseteq victims', ClearThere(d, who) \/ ClearLost(d, who)
  PROVE  Named'
  <1> SUFFICES ASSUME victims' = {}
               PROVE  /\ \A p \in leased' \ leaked' : LeaseNamed(p)'
                      /\ \A p \in Ports \ leaked' : RecordNamed(p)'
                      /\ \A k \in Keys : NodeNamed(k)'
    BY NamedWillBe
  <1> DEFINE h == Head(todo[d][who])
  <1>0. CleanerStep(d, who) /\ Next_(d, who, "clear") /\ pool' = pool /\ session' = session
    BY DEF CleanerStep, ClearThere, ClearLost
  <1>1. h \in Listed(d, who) /\ h.what = "clear" /\ h.port \in Ports
    BY <1>0, CleaningHead
  <1>2. PICK x \in Ports : x = h.port
    BY <1>1
  <1> DEFINE t == Step("release", None, x, None)
  <1>3. Then(d, who, <<t>>)
    BY <1>2 DEF ClearThere, ClearLost
  <1>4. t \in Steps /\ Cleaning(t) /\ t.what = "release" /\ t.port = x
    BY StepsMade DEF Cleaning
  <1>5. \/ leased' = leased \ {x} /\ owner' = [owner EXCEPT ![x] = None] /\ leaked' = leaked
        \/ /\ UNCHANGED <<leased, owner>>
           /\ leaked' = IF owner[x] \in {d, Stray} THEN leaked \cup {x} ELSE leaked
    BY <1>2 DEF ClearThere, ClearLost, relay
  <1> HIDE DEF t
  <1>6. /\ \A s \in Listed(d, who) : s = h \/ s \in Listed(d, who)'
        /\ Others(d, who) /\ t \in Listed(d, who)'
    BY <1>0, <1>3, <1>4, CleanerGoesOn
  <1> HIDE DEF h
  <1>7. Drops(d, h) /\ \A k : Coming(k) => Coming(k)'
    BY <1>0, <1>1, <1>6, CleanerDrops, CleanerComing
  <1>8. \A p : /\ p # x => \A c \in Calls : Keeps(c, p, LeaseKinds) /\ Keeps(c, p, RecordKinds)
               /\ \A c \in Calls : Pending(c, p, {"record"}) => Pending(c, p, {"record"})'
               /\ \A c \in Calls : c # d => Keeps(c, p, LeaseKinds) /\ Keeps(c, p, RecordKinds)
    BY <1>0, <1>1, <1>2, <1>7, AllKeep, OthersKeep
  <1>9. \A c \in Calls : Keeps(c, x, RecordKinds)
    <2>1. Pending(d, x, RecordKinds)'
      BY <1>4, <1>6 DEF Pending, RecordKinds
    <2>2. Keeps(d, x, RecordKinds)
      BY <2>1 DEF Keeps, Cares
    <2> QED
      BY <1>8, <2>2
  <1>10. ASSUME NEW p \in leased' \ leaked' PROVE LeaseNamed(p)'
    <2>1. CASE p = x
      <3>1. p \in leased \ leaked /\ owner'[p] = owner[p] /\ owner[p] \notin {d, Stray}
        BY <1>5, <1>10, <2>1
      <3> QED
        BY <1>8, <3>1, NamedParts, LeaseOfAnother
    <2>2. CASE p # x
      <3>1. p \in leased \ leaked /\ owner'[p] = owner[p]
        BY <1>5, <1>10, <2>2 DEF TypeOK
      <3> QED
        BY <1>8, <2>2, <3>1, NamedParts, LeaseStaysNamed
    <2> QED
      BY <2>1, <2>2
  <1>11. ASSUME NEW p \in Ports \ leaked' PROVE RecordNamed(p)'
    <2>1. p \notin leaked /\ pool'.call[p] = pool.call[p]
      BY <1>0, <1>5, <1>11
    <2>2. \A c \in Calls : Keeps(c, p, RecordKinds)
      BY <1>8, <1>9
    <2> QED
      BY <1>8, <1>11, <2>1, <2>2, NamedParts, RecordStaysNamed
  <1>12. \A k \in Keys : NodeNamed(k)'
    BY <1>0, <1>7, NamedParts, NodeStaysNamed
  <1> QED
    BY <1>10, <1>11, <1>12

LEMMA NamedRelease ==
  ASSUME TypeOK, Orderly, Books, Named, Next, NEW d \in Calls, NEW who \in Actors,
         victims \subseteq victims', Release(d, who)
  PROVE  Named'
  <1> SUFFICES ASSUME victims' = {}
               PROVE  /\ \A p \in leased' \ leaked' : LeaseNamed(p)'
                      /\ \A p \in Ports \ leaked' : RecordNamed(p)'
                      /\ \A k \in Keys : NodeNamed(k)'
    BY NamedWillBe
  <1> DEFINE h == Head(todo[d][who])
  <1>0. /\ CleanerStep(d, who) /\ Next_(d, who, "release")
        /\ UNCHANGED <<leased, owner, leaked>>
    BY DEF CleanerStep, Release, relay
  <1>1. h \in Listed(d, who) /\ h.what = "release" /\ h.port \in Ports
    BY <1>0, CleaningHead
  <1>2. PICK x \in Ports \cup {None} : x = h.port
    BY <1>1
  <1>3. pool' = Released(pool, x)
    BY <1>2 DEF Release
  <1>6. /\ \A s \in Listed(d, who) : s = h \/ s \in Listed(d, who)'
        /\ Others(d, who)
    <2>1. ClearHere(d, who) \/ Release(d, who)
      OBVIOUS
    <2>2. Listed(d, who) \subseteq Listed(d, who)' \cup {Head(todo[d][who])}
      BY <2>1, ForgetsLater
    <2>3. Others(d, who)
      BY <2>1, ForgetsLater
    <2> QED
      BY <2>2, <2>3
  <1> HIDE DEF h
  <1>7. Drops(d, h) /\ \A k : Coming(k) => Coming(k)'
    BY <1>0, <1>1, <1>6, CleanerDrops, CleanerComing
  <1>8. \A p : /\ \A c \in Calls : Keeps(c, p, LeaseKinds)
               /\ p # x => \A c \in Calls : Keeps(c, p, RecordKinds)
               /\ \A c \in Calls : Pending(c, p, {"record"}) => Pending(c, p, {"record"})'
    <2>1. h.what # "record" /\ h.what \notin LeaseKinds
      BY <1>1 DEF LeaseKinds
    <2> QED
      BY <1>0, <1>2, <1>7, <2>1, AllKeep
  <1>9. /\ \A z \in Ports : pool'.call[z] = IF z = x THEN None ELSE pool.call[z]
        /\ pool'.node = pool.node /\ pool'.entries = pool.entries
    BY <1>3, Releasing DEF Books
  <1>11. ASSUME NEW p \in Ports \ leaked' PROVE RecordNamed(p)'
    <2>1. CASE p = x
      BY <1>9, <2>1 DEF RecordNamed
    <2>2. CASE p # x
      <3>1. p \notin leaked /\ pool'.call[p] = pool.call[p]
        BY <1>0, <1>9, <1>11, <2>2
      <3> QED
        BY <1>8, <1>11, <2>2, <3>1, NamedParts, RecordStaysNamed
    <2> QED
      BY <2>1, <2>2
  <1>12. \A k \in Keys : NodeNamed(k)'
    BY <1>7, <1>9, NamedParts, NodeStaysNamed
  <1> QED
    BY <1>0, <1>8, <1>11, <1>12, NamedParts, LeaseStaysNamed

LEMMA NamedForget ==
  ASSUME TypeOK, Orderly, Books, Named, Next, NEW d \in Calls, NEW who \in Actors,
         victims \subseteq victims', Forget(d, who)
  PROVE  Named'
  <1> SUFFICES ASSUME victims' = {}
               PROVE  /\ \A p \in leased' \ leaked' : LeaseNamed(p)'
                      /\ \A p \in Ports \ leaked' : RecordNamed(p)'
                      /\ \A k \in Keys : NodeNamed(k)'
    BY NamedWillBe
  <1> DEFINE h == Head(todo[d][who])
  <1>0. /\ CleanerStep(d, who) /\ Next_(d, who, "forget") /\ Then(d, who, <<>>)
        /\ UNCHANGED <<leased, owner, leaked>> /\ pool' = Forgotten(h.why)
    BY DEF CleanerStep, Forget, relay, marks
  <1>1. h \in Listed(d, who) /\ h.what = "forget" /\ h.why \in Keys
    BY <1>0, CleaningHead
  <1>6. /\ \A s \in Listed(d, who) : s = h \/ s \in Listed(d, who)'
        /\ Others(d, who)
    BY <1>0, CleanerEnds
  <1>9. /\ pool'.call = pool.call /\ pool'.entries = pool.entries \ {h.why}
        /\ pool'.node[h.why] = None
        /\ \A k \in Keys : k # h.why => pool'.node[k] = pool.node[k]
    BY <1>0, <1>1, ForgettingKeeps DEF Books
  <1> HIDE DEF h
  <1>7. Drops(d, h) /\ \A k : Coming(k) => Coming(k)'
    BY <1>0, <1>1, <1>6, CleanerDrops, CleanerComing
  <1>8. \A p : /\ \A c \in Calls : Keeps(c, p, LeaseKinds) /\ Keeps(c, p, RecordKinds)
               /\ \A c \in Calls : Pending(c, p, {"record"}) => Pending(c, p, {"record"})'
    <2>1. h.what # "record" /\ h.what \notin LeaseKinds /\ h.what \notin RecordKinds
      BY <1>1 DEF LeaseKinds, RecordKinds
    <2> QED
      BY <1>0, <1>7, <2>1, AllKeep
  <1>12. ASSUME NEW k \in Keys PROVE NodeNamed(k)'
    <2>1. CASE k = h.why
      BY <1>9, <2>1 DEF NodeNamed
    <2>2. CASE k # h.why
      <3>1. NodeNamed(k) /\ pool'.node[k] = pool.node[k]
        BY <1>9, <2>2, NamedParts
      <3>2. k \notin pool'.entries => k \notin pool.entries
        BY <1>9, <2>2
      <3> QED
        BY <1>7, <3>1, <3>2, NodeStaysNamed
    <2> QED
      BY <2>1, <2>2
  <1> QED
    BY <1>0, <1>8, <1>9, <1>12, NamedParts, LeaseStaysNamed, RecordStaysNamed

LEMMA NamedWithoutEndpoint ==
  ASSUME TypeOK, Orderly, Named, Next, NEW d \in Calls, victims \subseteq victims',
         RewriteWithoutEndpoint(d)
  PROVE  Named'
  <1> SUFFICES ASSUME victims' = {}
               PROVE  /\ \A p \in leased' \ leaked' : LeaseNamed(p)'
                      /\ \A p \in Ports \ leaked' : RecordNamed(p)'
                      /\ \A k \in Keys : NodeNamed(k)'
    BY NamedWillBe
  <1> DEFINE h == Head(Handler(d))
  <1>0. HandlerStep(d) /\ UNCHANGED <<leased, owner, pool>>
    BY DEF HandlerStep, RewriteWithoutEndpoint, relay
  <1>1. /\ h.what = "rewrite" /\ UNCHANGED <<session, spent>>
        /\ Others(d, "handler") /\ Listed(d, "handler") = {h}
        /\ leaked' = leaked \cup {h.port}
    BY WithoutEndpointIs
  <1> HIDE DEF h
  <1>2. Drops(d, h)
    <2>1. PortsHeldBy(d)' = PortsHeldBy(d)
      BY <1>1 DEF PortsHeldBy, Stored
    <2> QED
      BY <1>1, <2>1, ServedDrops
  <1>3. \A p : /\ p # h.port =>
                    \A c \in Calls : Keeps(c, p, LeaseKinds) /\ Keeps(c, p, RecordKinds)
               /\ \A c \in Calls : Pending(c, p, {"record"}) => Pending(c, p, {"record"})'
    BY <1>0, <1>1, <1>2, AllKeep
  <1>4. \A k \in Keys : NodeNamed(k)'
    <2>1. \A c \in Calls : c # d => Listed(c, "handler")' = Listed(c, "handler")
      BY <1>0, OthersKeep
    <2>2. \A s \in Listed(d, "handler") : s.what \notin {"lease", "record"}
      BY <1>1
    <2>3. \A k : Coming(k) => Coming(k)'
      BY <2>1, <2>2, ComingKept
    <2> QED
      BY <1>0, <2>3, NamedParts, NodeStaysNamed
  <1>5. \A p : p \notin leaked' => p \notin leaked /\ p # h.port
    BY <1>1
  <1>6. \A p \in leased' \ leaked' : LeaseNamed(p)'
    BY <1>0, <1>3, <1>5, NamedParts, LeaseStaysNamed
  <1>7. \A p \in Ports \ leaked' : RecordNamed(p)'
    BY <1>0, <1>3, <1>5, NamedParts, RecordStaysNamed
  <1> QED
    BY <1>4, <1>6, <1>7

LEMMA NamedStep ==
  ASSUME TypeOK, Orderly, Books, LocalPairs, Undisturbed, Named, Next
  PROVE  Named'
  <1>1. PICK d \in Calls : HandlerStep(d) \/ \E who \in Actors : CleanerStep(d, who)
    BY NextIs
  <1>2. victims \subseteq victims'
    BY VictimsStay
  <1>3. CASE Invite(d) \/ Answer(d) \/ LateAnswer(d) \/ Failover(d) \/ Failure(d) \/ Remove(d)
             \/ InviteWithoutSdp(d)
    BY <1>2, <1>3, NamedStart
  <1>4. CASE Teardown(d)
    BY <1>2, <1>4, NamedTeardown
  <1>5. CASE Choose(d)
    BY <1>2, <1>5, NamedChoose
  <1>6. CASE Lease(d)
    BY <1>2, <1>6, NamedLease
  <1>7. CASE LeaseFails(d) \/ LeaseLost(d)
    BY <1>2, <1>7, NamedUnleased
  <1>8. CASE Record(d)
    BY <1>2, <1>8, NamedRecord
  <1>9. CASE RewriteFails(d)
    BY <1>2, <1>9, NamedRewriteFails
  <1>10. CASE Rewrite(d)
    BY <1>2, <1>10, NamedRewrite
  <1>12. CASE RewriteWithoutEndpoint(d)
    BY <1>2, <1>12, NamedWithoutEndpoint
  <1>11. ASSUME NEW who \in Actors, CleanerStep(d, who) PROVE Named'
    <2>1. CASE ClearHere(d, who)
      BY <1>2, <2>1, NamedClearHere
    <2>2. CASE ClearThere(d, who) \/ ClearLost(d, who)
      BY <1>2, <2>2, NamedClearThere
    <2>3. CASE Release(d, who)
      BY <1>2, <2>3, NamedRelease
    <2>4. CASE Forget(d, who)
      BY <1>2, <2>4, NamedForget
    <2> QED
      BY <1>11, <2>1, <2>2, <2>3, <2>4 DEF CleanerStep
  <1> QED
    BY <1>1, <1>3, <1>4, <1>5, <1>6, <1>7, <1>8, <1>9, <1>10, <1>11, <1>12 DEF HandlerStep

-----------------------------------------------------------------------------
(* An entry without a count is about to be forgotten.                      *)

(* A session that a step leaves in use was in use before.                  *)
LiveStay == \A d \in Calls : session'[d].at \in {"new", "up"} => session[d].at \in {"new", "up"}

LEMMA LivesStay ==
  ASSUME TypeOK, Orderly, Next
  PROVE  LiveStay
  <1>0. session \in [Calls -> [at : {"new", "refused", "up", "gone"},
                              gateway : Ports \cup {None}, caller : Ports \cup {None}]]
    BY DEF TypeOK
  <1>1. PICK c \in Calls : HandlerStep(c) \/ \E who \in Actors : CleanerStep(c, who)
    BY NextIs
  <1>2. CASE UNCHANGED session
    BY <1>2 DEF LiveStay
  <1>3. CASE InviteWithoutSdp(c)
    BY <1>0, <1>3 DEF InviteWithoutSdp, LiveStay
  <1>4. CASE Teardown(c) \/ Remove(c)
    BY <1>0, <1>4 DEF Teardown, Remove, Gone, LiveStay
  <1>5. ASSUME NEW why, Unserved(c, why) PROVE LiveStay
    BY <1>0, <1>5 DEF Unserved, LiveStay
  <1>6. CASE Choose(c) \/ LeaseFails(c) \/ LeaseLost(c) \/ RewriteFails(c)
    BY <1>2, <1>5, <1>6 DEF Choose, LeaseFails, LeaseLost, RewriteFails
  <1>7. CASE Rewrite(c)
    <2>1. ASSUME NEW d \in Calls, d # c PROVE session'[d] = session[d]
      BY <1>0, <1>7, <2>1 DEF Rewrite
    <2>2. Stays(c) \/ session'[c] = session[c]
      BY <1>7, RewriteIs
    <2>3. Stays(c) => session[c].at \in {"new", "up"}
      BY <1>7, RewriteIs
    <2> QED
      BY <2>1, <2>2, <2>3 DEF LiveStay
  <1>8. CASE Invite(c) \/ Answer(c) \/ LateAnswer(c) \/ Failover(c) \/ Failure(c) \/ Lease(c)
             \/ Record(c) \/ RewriteWithoutEndpoint(c)
    BY <1>2, <1>8 DEF Invite, Answer, LateAnswer, Failover, Failure, Lease, Record,
                      RewriteWithoutEndpoint
  <1>9. ASSUME NEW who \in Actors, CleanerStep(c, who) PROVE LiveStay
    BY <1>2, <1>9 DEF CleanerStep, ClearHere, ClearThere, ClearLost, Release, Forget
  <1> QED
    BY <1>1, <1>3, <1>4, <1>6, <1>7, <1>8, <1>9 DEF HandlerStep

LEMMA LiveWas ==
  ASSUME LiveStay, victims \subseteq victims', NEW c \in Calls, Live(c)'
  PROVE  Live(c)
  BY DEF LiveStay, Live

(* A step that has nothing to do with what is forgotten.                   *)
SameForgets ==
  \A c \in Calls, who \in Actors : \A k : Forgets(c, who, k)' <=> Forgets(c, who, k)

LEMMA ForgetsSame ==
  ASSUME NEW d \in Calls, NEW who \in Actors, Others(d, who),
         \A s \in Listed(d, who) : s.what = "forget" => s \in Listed(d, who)',
         \A s \in Listed(d, who)' : s.what = "forget" => s \in Listed(d, who)
  PROVE  SameForgets
  <1> SUFFICES ASSUME NEW c \in Calls, NEW w \in Actors, NEW k
               PROVE  Forgets(c, w, k)' <=> Forgets(c, w, k)
    BY DEF SameForgets
  <1>1. CASE c = d /\ w = who
    BY <1>1 DEF Forgets
  <1>2. CASE c # d \/ w # who
    <2>1. Listed(c, w)' = Listed(c, w)
      BY <1>2 DEF Others
    <2> QED
      BY <2>1 DEF Forgets
  <1> QED
    BY <1>1, <1>2

LEMMA EmptiedKept ==
  ASSUME Emptied, GoneStay, LiveStay, victims \subseteq victims', SameForgets,
         pool'.count = pool.count, pool'.entries = pool.entries
  PROVE  Emptied'
  <1>1. \A k : BeingForgotten(k) => BeingForgotten(k)'
    BY DEF BeingForgotten, SameForgets
  <1>2. \A k \in pool'.entries : pool'.count[k] = 0 => BeingForgotten(k)'
    BY <1>1 DEF Emptied
  <1>3. ASSUME NEW c \in Calls, NEW d \in Calls, NEW who \in Actors, Young(c)',
               Forgets(d, who, c)'
        PROVE  pool'.count[c] = 0 /\ (Live(c)' => d = c /\ who = "handler")
    BY <1>3, YoungWas, LiveWas DEF Emptied, SameForgets
  <1> QED
    BY <1>2, <1>3 DEF Emptied

LEMMA EmptiedStart ==
  ASSUME TypeOK, Orderly, NEW d \in Calls,
         Invite(d) \/ InviteWithoutSdp(d) \/ Answer(d) \/ LateAnswer(d) \/ Failover(d)
         \/ Failure(d) \/ Teardown(d) \/ Remove(d)
  PROVE  SameForgets
  <1>0. "handler" \in Actors /\ "ender" \in Actors
    BY DEF Actors
  <1>1. CASE Invite(d) \/ Answer(d) \/ LateAnswer(d)
    <2>1. PICK why \in Reasons : Start(d, "handler", Choice(why))
      BY <1>1 DEF Invite, Answer, LateAnswer, Reasons
    <2> DEFINE t == Step("choose", why, None, None)
    <2>2. Choice(why) = <<t>> /\ t \in Steps /\ t.what = "choose"
      BY StepsMade DEF Choice
    <2> DEFINE L == <<t>>
    <2>3. L \in Seq(Steps) /\ Start(d, "handler", L) /\ {L[i] : i \in 1..Len(L)} = {t}
      BY <2>1, <2>2, OneStep
    <2> HIDE DEF t, L
    <2>4. /\ Listed(d, "handler") = {} /\ Listed(d, "handler")' = {L[i] : i \in 1..Len(L)}
          /\ \A e \in Calls, w \in Actors : e # d \/ w # "handler" => todo'[e][w] = todo[e][w]
      BY <1>0, <2>3, Started
    <2>5. Listed(d, "handler")' = {t}
      BY <2>3, <2>4
    <2>6. Others(d, "handler")
      BY <2>4, OthersFrom
    <2> QED
      BY <1>0, <2>2, <2>4, <2>5, <2>6, ForgetsSame
  <1>2. CASE InviteWithoutSdp(d)
    <2>1. todo' = todo
      BY <1>2 DEF InviteWithoutSdp
    <2>2. \A c, who : Listed(c, who)' = Listed(c, who)
      BY <2>1 DEF Listed
    <2> QED
      BY <2>2 DEF SameForgets, Forgets
  <1>3. CASE Failover(d) \/ Failure(d)
    <2>1. /\ Others(d, "handler") /\ Listed(d, "handler") = {}
          /\ \A s \in Listed(d, "handler")' : s.what # "forget"
      BY <1>3, GivesUp
    <2> QED
      BY <1>0, <2>1, ForgetsSame
  <1>4. CASE Teardown(d)
    <2>1. /\ Others(d, "ender") /\ Listed(d, "ender") = {}
          /\ \A s \in Listed(d, "ender")' : s.what # "forget"
      BY <1>4, TeardownOrderly
    <2> QED
      BY <1>0, <2>1, ForgetsSame
  <1>5. CASE Remove(d)
    <2>1. /\ Others(d, "handler") /\ Listed(d, "handler")' = {}
          /\ Listed(d, "handler") = {Head(Handler(d))}
      BY <1>5, RemoveOrderly
    <2>2. Head(Handler(d)).what = "remove"
      BY <1>5 DEF Remove, Next_, Handler
    <2> QED
      BY <1>0, <2>1, <2>2, ForgetsSame
  <1> QED
    BY <1>1, <1>2, <1>3, <1>4, <1>5

(* What a handler does for a message it serves.                            *)
LEMMA EmptiedServes ==
  ASSUME TypeOK, Orderly, NEW d \in Calls,
         Choose(d) \/ Lease(d) \/ LeaseFails(d) \/ LeaseLost(d) \/ Record(d) \/ RewriteFails(d)
         \/ Rewrite(d) \/ RewriteWithoutEndpoint(d)
  PROVE  SameForgets /\ \A k : ~Forgets(d, "handler", k)
  <1> DEFINE h == Head(Handler(d))
  <1>1. PICK what \in {"choose", "lease", "record", "rewrite"} : Next_(d, "handler", what)
    BY DEF Choose, Lease, LeaseFails, LeaseLost, Record, RewriteFails, Rewrite,
           RewriteWithoutEndpoint
  <1>2. h.what = what /\ h.what # "forget"
    BY <1>1 DEF Next_, Handler
  <1>3. /\ what = "lease" => h.why \in Reasons
        /\ what \in {"record", "rewrite"} => h.why \in Reasons /\ h.port \in Ports
        /\ what = "choose" => h.why \in Reasons
    BY <1>1, HandlerHead DEF Serving, Asking
  <1>4. \/ Then(d, "handler", <<>>)
        \/ \E t \in Steps : t.what # "forget" /\ Then(d, "handler", <<t>>)
    <2>1. CASE Choose(d)
      <3>1. what = "choose"
        BY <1>2, <2>1 DEF Choose, Next_, Handler
      <3>2. ASSUME NEW n \in NodesFor(KeyOf(d, h.why)),
                   Then(d, "handler", <<Step("lease", h.why, None, n)>>)
            PROVE  \E t \in Steps : t.what # "forget" /\ Then(d, "handler", <<t>>)
        <4>1. n \in Nodes
          <5>1. KeyOf(d, h.why) \in Keys
            BY KeyType
          <5> QED
            BY <5>1 DEF NodesFor, TypeOK
        <4>2. Step("lease", h.why, None, n) \in Steps
          BY <1>3, <3>1, <4>1, StepsMade
        <4> QED
          BY <3>2, <4>2, StepsMade
      <3> QED
        BY <2>1, <3>2 DEF Choose, Handler
    <2>2. CASE Lease(d)
      <3>1. what = "lease"
        BY <1>2, <2>2 DEF Lease, Next_, Handler
      <3>2. PICK p \in Ports : Then(d, "handler", <<Step("record", h.why, p, None)>>)
        BY <2>2 DEF Lease, Available, Handler
      <3>3. Step("record", h.why, p, None) \in Steps
        BY <1>3, <3>1, StepsMade
      <3> QED
        BY <3>2, <3>3, StepsMade
    <2>3. CASE Record(d)
      <3>1. what = "record"
        BY <1>2, <2>3 DEF Record, Next_, Handler
      <3>2. Then(d, "handler", <<Step("rewrite", h.why, h.port, None)>>)
        BY <2>3 DEF Record, Handler
      <3>3. Step("rewrite", h.why, h.port, None) \in Steps
        BY <1>3, <3>1, StepsMade
      <3> QED
        BY <3>2, <3>3, StepsMade
    <2>4. CASE RewriteFails(d)
      <3>1. what = "rewrite"
        BY <1>2, <2>4 DEF RewriteFails, Next_, Handler
      <3>2. Then(d, "handler", <<Step("clear", None, h.port, None)>>)
        BY <2>4 DEF RewriteFails, Handler
      <3>3. Step("clear", None, h.port, None) \in Steps
        BY <1>3, <3>1, StepsMade
      <3> QED
        BY <3>2, <3>3, StepsMade
    <2>5. CASE LeaseFails(d) \/ LeaseLost(d) \/ Rewrite(d) \/ RewriteWithoutEndpoint(d)
      BY <2>5 DEF LeaseFails, LeaseLost, Rewrite, RewriteWithoutEndpoint
    <2> QED
      BY <2>1, <2>2, <2>3, <2>4, <2>5
  <1> HIDE DEF h
  <1>5. /\ Others(d, "handler") /\ Listed(d, "handler") = {h}
        /\ \A s \in Listed(d, "handler")' : s.what # "forget"
    <2>1. CASE Then(d, "handler", <<>>)
      BY <1>1, <2>1, HandlerEnds DEF h
    <2>2. ASSUME NEW t \in Steps, t.what # "forget", Then(d, "handler", <<t>>)
          PROVE  /\ Others(d, "handler") /\ Listed(d, "handler") = {h}
                 /\ \A s \in Listed(d, "handler")' : s.what # "forget"
      <3>1. Others(d, "handler") /\ Listed(d, "handler") = {h} /\ Listed(d, "handler")' = {t}
        BY <1>1, <2>2, HandlerGoesOn DEF h
      <3> QED
        BY <2>2, <3>1
    <2> QED
      BY <1>4, <2>1, <2>2
  <1>6. SameForgets
    BY <1>2, <1>5, ForgetsSame DEF Actors
  <1> QED
    BY <1>2, <1>5, <1>6 DEF Forgets

LEMMA EmptiedRecord ==
  ASSUME TypeOK, Orderly, Books, Emptied, GoneStay, LiveStay, NEW d \in Calls,
         victims \subseteq victims', Record(d)
  PROVE  Emptied'
  <1> DEFINE h == Head(Handler(d))
             key == KeyOf(d, h.why)
  <1>1. h.port \in Ports /\ Fits(d, h) /\ Serving(h)
    BY HandlerHead DEF Record, Serving
  <1>2. key \in Keys /\ pool' = Recorded(h.port, key)
    BY KeyType DEF Record, Handler
  <1>3. key \in Calls /\ session[d].at # "gone" => key = d /\ session[d].at \in {"new", "up"}
    BY <1>1, Constants DEF Fits, KeyOf, Serving, Reasons
  <1>9. h.why = "stray" => key \notin Calls
    BY Constants DEF KeyOf
  <1>a. h.why # "stray" => key = d
    BY DEF KeyOf
  <1>4. SameForgets /\ \A k : ~Forgets(d, "handler", k)
    BY EmptiedServes
  <1> HIDE DEF h, key
  <1>5. /\ pool'.entries = pool.entries \cup {key}
        /\ pool'.count[key] = pool.count[key] + 1 /\ pool.count[key] \in Nat
        /\ \A j \in Keys : j # key => pool'.count[j] = pool.count[j]
    BY <1>1, <1>2, Recording DEF Books
  <1>6. ASSUME NEW k \in pool'.entries, pool'.count[k] = 0 PROVE BeingForgotten(k)'
    <2>1. k # key
      BY <1>5, <1>6
    <2>2. k \in pool.entries /\ k \in Keys
      BY <1>5, <2>1 DEF TypeOK
    <2>3. BeingForgotten(k)
      BY <1>5, <1>6, <2>1, <2>2 DEF Emptied
    <2> QED
      BY <1>4, <2>3 DEF BeingForgotten, SameForgets
  <1>7. ASSUME NEW c \in Calls, NEW e \in Calls, NEW who \in Actors, Young(c)',
               Forgets(e, who, c)'
        PROVE  pool'.count[c] = 0 /\ (Live(c)' => e = c /\ who = "handler")
    <2>1. Young(c) /\ (Live(c)' => Live(c)) /\ Forgets(e, who, c)
      BY <1>4, <1>7, YoungWas, LiveWas DEF SameForgets
    <2>2. c # key
      <3>1. SUFFICES ASSUME c = key PROVE FALSE
        OBVIOUS
      <3>2. c = d /\ session[d].at # "gone"
        BY <1>9, <1>a, <2>1, <3>1 DEF Young
      <3>3. Live(c)
        BY <1>3, <2>1, <3>1, <3>2 DEF Live, Young
      <3>4. e = c /\ who = "handler"
        BY <2>1, <3>3 DEF Emptied
      <3> QED
        BY <1>4, <2>1, <3>2, <3>4
    <2>3. pool'.count[c] = pool.count[c]
      BY <1>5, <2>2, Constants
    <2> QED
      BY <2>1, <2>3 DEF Emptied
  <1> QED
    BY <1>6, <1>7 DEF Emptied

(* The call whose record a live one clears or releases is itself.          *)
LEMMA ClearsItsOwn ==
  ASSUME TypeOK, Orderly, LocalPairs, Undisturbed, NEW d \in Calls, NEW who \in Actors,
         ClearHere(d, who) \/ Release(d, who), NEW c \in Calls, Live(c), c \notin victims',
         NEW z \in Ports, pool.call[z] = c,
         LET p == Head(todo[d][who]).port
         IN  z = p \/ (ClearHere(d, who) /\ z = peers[p])
  PROVE  d = c /\ who = "handler"
  <1> DEFINE p == Head(todo[d][who]).port
  <1>0. c # None /\ c # Stray
    BY Constants
  <1>1. c = d
    <2>1. CASE Release(d, who) /\ z = p
      BY <1>0, <2>1 DEF Release
    <2>2. CASE ClearHere(d, who)
      <3> DEFINE q == peers[p]
                 freed == {p, q} \cap LocalPorts
      <3>1. /\ p \in LocalPorts \/ pool.call[p] = None
            /\ victims' = victims \cup OwnersBut(freed, d)
        BY <2>2 DEF ClearHere
      <3>2. p \in Ports
        BY <2>2, CleaningHead DEF ClearHere
      <3>3. z \in {p, q}
        OBVIOUS
      <3>4. z \in LocalPorts
        BY <1>0, <3>1, <3>2, Constants DEF LocalPairs
      <3>5. Mine(c, z)
        BY <3>4 DEF Undisturbed, RecordsOf
      <3>6. z \in freed /\ owner[z] = c
        BY <3>3, <3>4, <3>5 DEF Mine
      <3> HIDE DEF freed
      <3>7. c # d => c \in OwnersBut(freed, d)
        BY <1>0, <3>6 DEF OwnersBut
      <3> QED
        BY <3>1, <3>7
    <2> QED
      BY <2>1, <2>2
  <1>2. who = "handler"
    <2>1. SUFFICES ASSUME who = "ender" PROVE FALSE
      BY DEF Actors
    <2>2. Ender(d) # <<>>
      BY <2>1 DEF ClearHere, Release, Next_, Idle, Ender
    <2>3. session[c].at = "gone"
      BY <1>1, <2>2 DEF Orderly, OrderlyFor
    <2> QED
      BY <2>3 DEF Live
  <1> QED
    BY <1>1, <1>2

LEMMA EmptiedCleaner ==
  ASSUME TypeOK, Orderly, Books, LocalPairs, Undisturbed, Emptied, GoneStay, LiveStay,
         NEW d \in Calls, NEW who \in Actors, victims \subseteq victims',
         ClearHere(d, who) \/ Release(d, who)
  PROVE  Emptied'
  <1> DEFINE h == Head(todo[d][who])
             p == h.port
             q == peers[p]
             g == Released(pool, p)
  <1>0. PICK here \in BOOLEAN : here <=> ClearHere(d, who)
    OBVIOUS
  <1>1. p \in Ports /\ q \in Ports \cup {None} /\ Others(d, who)
    BY ForgetsLater
  <1>2. ASSUME NEW s \in Listed(d, who)', s \notin Listed(d, who)
        PROVE  \/ s.why = pool.call[p] /\ pool.count[s.why] <= 1
               \/ here /\ q # None /\ s.why = g.call[q] /\ g.count[s.why] <= 1
    BY <1>0, <1>2, ForgetsLater
  <1>3. Listed(d, who) \subseteq Listed(d, who)' \cup {h} /\ h.what # "forget"
    <2>1. Listed(d, who) \subseteq Listed(d, who)' \cup {h}
      BY ForgetsLater
    <2>2. h.what # "forget"
      BY DEF ClearHere, Release, Next_
    <2> QED
      BY <2>1, <2>2
  <1>4. ASSUME NEW k, k = pool.call[p], k \in pool.entries, ~(pool.count[k] > 1)
        PROVE  Forgets(d, who, k)'
    <2>1. \E s \in Listed(d, who)' : s.what = "forget" /\ s.why = pool.call[p]
      BY <1>4, ForgetsLater
    <2> QED
      BY <1>4, <2>1 DEF Forgets
  <1>5. ASSUME here, q # None, NEW k, k = g.call[q], k \in g.entries, ~(g.count[k] > 1)
        PROVE  Forgets(d, who, k)'
    <2>1. \E s \in Listed(d, who)' : s.what = "forget" /\ s.why = g.call[q]
      BY <1>0, <1>5, ForgetsLater
    <2> QED
      BY <1>5, <2>1 DEF Forgets
  (* The pool: one release in a Release, two in a ClearHere.               *)
  <1>6. /\ Covered(pool) /\ Freed(pool, p, g)
        /\ here => Freed(g, q, pool')
        /\ ~here => pool' = g
    <2>1. Covered(pool)
      BY DEF Books
    <2>2. Freed(pool, p, g)
      BY <1>1, <2>1, ReleasingFrees
    <2>3. Covered(g)
      BY <2>2 DEF Freed, Kept
    <2>4. Freed(g, q, Released(g, q))
      BY <1>1, <2>3, ReleasingFrees
    <2>5. here => pool' = Released(g, q)
      BY <1>0 DEF ClearHere
    <2>6. ~here => pool' = g
      BY <1>0 DEF Release
    <2> QED
      BY <2>1, <2>2, <2>4, <2>5, <2>6, Zenon
  <1>7. \A c \in Calls, z \in Ports :
          Live(c) /\ c \notin victims' /\ pool.call[z] = c /\ (z = p \/ (here /\ z = q))
            => d = c /\ who = "handler"
    BY <1>0, ClearsItsOwn
  <1> HIDE DEF h, p, q, g
  <1>8. /\ pool.count \in [Keys -> Nat] /\ pool.entries \subseteq Keys
        /\ \A k \in Keys : /\ g.count[k] = IF pool.call[p] = k THEN Less(pool.count[k])
                                           ELSE pool.count[k]
                           /\ here => pool'.count[k] = IF q \in Ports /\ g.call[q] = k
                                                       THEN Less(g.count[k]) ELSE g.count[k]
                           /\ ~here => pool'.count[k] = g.count[k]
        /\ g.entries = pool.entries /\ pool'.entries = pool.entries
        /\ q \in Ports /\ g.call[q] # None => g.call[q] = pool.call[q]
    <2>1. pool.count \in [Keys -> Nat] /\ pool.entries \subseteq Keys
      BY <1>6, PoolFields DEF Covered
    <2>2. /\ \A k \in Keys : g.count[k] = IF pool.call[p] = k THEN Less(pool.count[k])
                                          ELSE pool.count[k]
          /\ g.entries = pool.entries
          /\ q \in Ports /\ g.call[q] # None => g.call[q] = pool.call[q]
      BY <1>1, <1>6 DEF Freed
    <2>3. CASE here
      BY <1>6, <2>1, <2>2, <2>3 DEF Freed
    <2>4. CASE ~here
      BY <1>6, <2>1, <2>2, <2>4
    <2> QED
      BY <2>1, <2>2, <2>3, <2>4
  <1>9. ASSUME NEW k \in Keys
        PROVE  /\ pool.count[k] \in Nat /\ g.count[k] \in Nat /\ pool'.count[k] \in Nat
               /\ g.count[k] <= pool.count[k] /\ pool'.count[k] <= g.count[k]
    BY <1>8 DEF Less
  <1>10. \A c \in Calls, w \in Actors : \A k : Forgets(c, w, k) => Forgets(c, w, k)'
    <2> SUFFICES ASSUME NEW c \in Calls, NEW w \in Actors, NEW k, Forgets(c, w, k)
                 PROVE  Forgets(c, w, k)'
      OBVIOUS
    <2>1. CASE c = d /\ w = who
      BY <1>3, <2>1 DEF Forgets
    <2>2. CASE c # d \/ w # who
      <3>1. Listed(c, w)' = Listed(c, w)
        BY <1>1, <2>2 DEF Others
      <3> QED
        BY <3>1 DEF Forgets
    <2> QED
      BY <2>1, <2>2
  <1>11. ASSUME NEW k \in pool'.entries, pool'.count[k] = 0 PROVE BeingForgotten(k)'
    <2>0. k \in pool.entries /\ k \in Keys
      BY <1>8
    <2>1. CASE pool.count[k] = 0
      <3>1. BeingForgotten(k)
        BY <2>0, <2>1 DEF Emptied
      <3> QED
        BY <1>10, <3>1 DEF BeingForgotten
    <2>2. CASE pool.count[k] # 0 /\ g.count[k] = 0
      <3>1. pool.call[p] = k /\ ~(pool.count[k] > 1)
        BY <1>8, <1>9, <2>0, <2>2 DEF Less
      <3> QED
        BY <1>4, <2>0, <3>1 DEF BeingForgotten
    <2>3. CASE g.count[k] # 0
      <3>1. here /\ q \in Ports /\ g.call[q] = k /\ ~(g.count[k] > 1)
        BY <1>8, <1>9, <1>11, <2>0, <2>3 DEF Less
      <3>2. q # None
        BY <3>1, Constants
      <3> QED
        BY <1>5, <1>8, <2>0, <3>1, <3>2 DEF BeingForgotten
    <2> QED
      BY <2>1, <2>2, <2>3
  <1>12. ASSUME NEW c \in Calls, NEW e \in Calls, NEW w \in Actors, Young(c)',
                Forgets(e, w, c)'
         PROVE  pool'.count[c] = 0 /\ (Live(c)' => e = c /\ w = "handler")
    <2>0. Young(c) /\ (Live(c)' => Live(c) /\ c \notin victims') /\ c \in Keys /\ c # None
      BY <1>12, YoungWas, LiveWas, Constants DEF Live
    <2>1. CASE Forgets(e, w, c)
      <3>1. pool.count[c] = 0 /\ (Live(c) => e = c /\ w = "handler")
        BY <2>0, <2>1 DEF Emptied
      <3> QED
        BY <1>9, <2>0, <3>1
    <2>2. CASE ~Forgets(e, w, c)
      <3>1. e = d /\ w = who
        <4>1. SUFFICES ASSUME e # d \/ w # who PROVE FALSE
          OBVIOUS
        <4>2. Listed(e, w)' = Listed(e, w)
          BY <1>1, <4>1 DEF Others
        <4> QED
          BY <1>12, <2>2, <4>2 DEF Forgets
      <3>2. PICK s \in Listed(d, who)' : s.what = "forget" /\ s.why = c
        BY <1>12, <3>1 DEF Forgets
      <3>3. s \notin Listed(d, who)
        BY <2>2, <3>1, <3>2 DEF Forgets
      <3>4. \/ c = pool.call[p] /\ pool.count[c] <= 1
            \/ here /\ q # None /\ c = g.call[q] /\ g.count[c] <= 1
        BY <1>2, <3>2, <3>3
      <3>5. CASE c = pool.call[p] /\ pool.count[c] <= 1
        <4>1. g.count[c] = 0
          BY <1>8, <1>9, <2>0, <3>5 DEF Less
        <4>2. pool'.count[c] = 0
          BY <1>9, <2>0, <4>1
        <4>3. p \in Ports /\ pool.call[p] = c
          BY <1>1, <3>5
        <4>4. Live(c)' => d = c /\ who = "handler"
          BY <1>7, <2>0, <4>3
        <4> QED
          BY <3>1, <4>2, <4>4
      <3>6. CASE here /\ q # None /\ c = g.call[q] /\ g.count[c] <= 1
        <4>1. q \in Ports /\ pool.call[q] = c
          BY <1>1, <1>8, <2>0, <3>6
        <4>2. pool'.count[c] = 0
          BY <1>8, <1>9, <2>0, <3>6, <4>1 DEF Less
        <4> QED
          BY <1>7, <2>0, <3>1, <3>6, <4>1, <4>2
      <3> QED
        BY <3>4, <3>5, <3>6
    <2> QED
      BY <2>1, <2>2
  <1> QED
    BY <1>11, <1>12 DEF Emptied

LEMMA EmptiedForget ==
  ASSUME TypeOK, Orderly, Books, Emptied, GoneStay, LiveStay, NEW d \in Calls, NEW who \in Actors,
         victims \subseteq victims', Forget(d, who)
  PROVE  Emptied'
  <1> DEFINE h == Head(todo[d][who])
  <1>1. /\ Next_(d, who, "forget") /\ Then(d, who, <<>>) /\ pool' = Forgotten(h.why)
    BY DEF Forget
  <1>2. h.why \in Keys
    BY <1>1, CleaningHead
  <1>3. /\ Listed(d, who)' \subseteq Listed(d, who)
        /\ Listed(d, who) \subseteq Listed(d, who)' \cup {h} /\ Others(d, who)
    BY <1>1, CleanerEnds
  <1>4. /\ pool'.entries = pool.entries \ {h.why} /\ pool'.count[h.why] = 0
        /\ \A k \in Keys : k # h.why => pool'.count[k] = pool.count[k]
    BY <1>1, <1>2, ForgettingKeeps DEF Books
  <1> HIDE DEF h
  <1>5. ASSUME NEW c \in Calls, NEW w \in Actors, NEW k
        PROVE  /\ Forgets(c, w, k)' => Forgets(c, w, k)
               /\ k # h.why /\ Forgets(c, w, k) => Forgets(c, w, k)'
    <2>1. CASE c = d /\ w = who
      BY <1>3, <2>1 DEF Forgets
    <2>2. CASE c # d \/ w # who
      <3>1. Listed(c, w)' = Listed(c, w)
        BY <1>3, <2>2 DEF Others
      <3> QED
        BY <3>1 DEF Forgets
    <2> QED
      BY <2>1, <2>2
  <1>6. ASSUME NEW k \in pool'.entries, pool'.count[k] = 0 PROVE BeingForgotten(k)'
    <2>1. k # h.why /\ k \in pool.entries /\ k \in Keys
      BY <1>4, <1>6 DEF TypeOK
    <2>2. BeingForgotten(k)
      BY <1>4, <1>6, <2>1 DEF Emptied
    <2> QED
      BY <1>5, <2>1, <2>2 DEF BeingForgotten
  <1>7. ASSUME NEW c \in Calls, NEW e \in Calls, NEW w \in Actors, Young(c)',
               Forgets(e, w, c)'
        PROVE  pool'.count[c] = 0 /\ (Live(c)' => e = c /\ w = "handler")
    <2>1. Young(c) /\ (Live(c)' => Live(c)) /\ Forgets(e, w, c) /\ c \in Keys
      BY <1>5, <1>7, YoungWas, LiveWas, Constants
    <2>2. pool.count[c] = 0 /\ (Live(c) => e = c /\ w = "handler")
      BY <2>1 DEF Emptied
    <2> QED
      BY <1>4, <2>1, <2>2
  <1> QED
    BY <1>6, <1>7 DEF Emptied

LEMMA EmptiedStep ==
  ASSUME TypeOK, Orderly, Books, LocalPairs, Undisturbed, Emptied, Next
  PROVE  Emptied'
  <1>0. GoneStay /\ LiveStay /\ victims \subseteq victims'
    BY GoneStays, LivesStay, VictimsStay
  <1>1. PICK d \in Calls : HandlerStep(d) \/ \E who \in Actors : CleanerStep(d, who)
    BY NextIs
  <1>2. CASE Invite(d) \/ InviteWithoutSdp(d) \/ Answer(d) \/ LateAnswer(d) \/ Failover(d)
             \/ Failure(d) \/ Teardown(d) \/ Remove(d)
    <2>1. pool'.count = pool.count /\ pool'.entries = pool.entries
      <3>1. CASE pool' = pool
        BY <3>1
      <3>2. ASSUME Teardown(d), NEW n \in NodesFor(d), pool' = [pool EXCEPT !.node[d] = n]
            PROVE  pool'.count = pool.count /\ pool'.entries = pool.entries
        <4>1. d \in Keys /\ n \in Nodes \cup {None} /\ Covered(pool)
          BY Constants, PoolFields DEF NodesFor, Books, Covered
        <4> QED
          BY <3>2, <4>1, Choosing
      <3>3. CASE ~Teardown(d)
        BY <1>2, <3>1, <3>3 DEF Invite, InviteWithoutSdp, Answer, LateAnswer, Failover, Failure,
                                Remove
      <3> QED
        BY <3>1, <3>2, <3>3 DEF Teardown
    <2> QED
      BY <1>0, <1>2, <2>1, EmptiedStart, EmptiedKept
  <1>3. CASE Choose(d) \/ Lease(d) \/ LeaseFails(d) \/ LeaseLost(d) \/ RewriteFails(d)
             \/ Rewrite(d) \/ RewriteWithoutEndpoint(d)
    <2> DEFINE k == KeyOf(d, Head(Handler(d)).why)
    <2>1. k \in Keys
      BY KeyType
    <2>2. \/ pool' = pool \/ pool' = Cancelled(k)
          \/ \E n \in NodesFor(k) : pool' = [pool EXCEPT !.node[k] = n]
      <3>1. CASE Choose(d)
        BY <3>1 DEF Choose, Handler
      <3>2. CASE LeaseFails(d) \/ LeaseLost(d)
        BY <3>2 DEF LeaseFails, LeaseLost, Handler
      <3>3. CASE Lease(d) \/ RewriteFails(d) \/ Rewrite(d) \/ RewriteWithoutEndpoint(d)
        BY <3>3 DEF Lease, RewriteFails, Rewrite, RewriteWithoutEndpoint
      <3> QED
        BY <1>3, <3>1, <3>2, <3>3
    <2> HIDE DEF k
    <2>3. pool' = Cancelled(k) => pool'.count = pool.count /\ pool'.entries = pool.entries
      BY <2>1, Cancelling DEF Books
    <2>4. ASSUME NEW n \in NodesFor(k), pool' = [pool EXCEPT !.node[k] = n]
          PROVE  pool'.count = pool.count /\ pool'.entries = pool.entries
      <3>1. n \in Nodes \cup {None} /\ Covered(pool)
        BY <2>1, PoolFields DEF NodesFor, Books, Covered
      <3> QED
        BY <2>1, <2>4, <3>1, Choosing
    <2>5. pool'.count = pool.count /\ pool'.entries = pool.entries
      BY <2>2, <2>3, <2>4
    <2> QED
      BY <1>0, <1>3, <2>5, EmptiedServes, EmptiedKept
  <1>4. CASE Record(d)
    BY <1>0, <1>4, EmptiedRecord
  <1>5. ASSUME NEW who \in Actors, ClearThere(d, who) \/ ClearLost(d, who) PROVE Emptied'
    <2> DEFINE h == Head(todo[d][who])
               t == Step("release", None, h.port, None)
    <2>1. Next_(d, who, "clear") /\ Then(d, who, <<t>>) /\ pool' = pool
      BY <1>5 DEF ClearThere, ClearLost
    <2>2. h.port \in Ports /\ h.what = "clear"
      BY <2>1, CleaningHead
    <2>3. t \in Steps /\ t.what = "release" /\ Cleaning(t)
      BY <2>2, StepsMade DEF Cleaning
    <2> HIDE DEF t
    <2>4. /\ Others(d, who) /\ Listed(d, who)' \subseteq Listed(d, who) \cup {t}
          /\ Listed(d, who) \subseteq Listed(d, who)' \cup {h}
      BY <2>1, <2>3, CleanerGoesOn
    <2> HIDE DEF h
    <2>5. SameForgets
      BY <2>2, <2>3, <2>4, ForgetsSame
    <2> QED
      BY <1>0, <2>1, <2>5, EmptiedKept
  <1>6. ASSUME NEW who \in Actors, ClearHere(d, who) \/ Release(d, who) PROVE Emptied'
    BY <1>0, <1>6, EmptiedCleaner
  <1>7. ASSUME NEW who \in Actors, Forget(d, who) PROVE Emptied'
    BY <1>0, <1>7, EmptiedForget
  <1> QED
    BY <1>1, <1>2, <1>3, <1>4, <1>5, <1>6, <1>7 DEF HandlerStep, CleanerStep

-----------------------------------------------------------------------------
LEMMA InitSound ==
  ASSUME Init
  PROVE  IInv
  <1>1. TypeOK
    BY Constants DEF Init, TypeOK, Keys, Actors
  <1>2. \A c \in Calls, who \in Actors : todo[c][who] = <<>> /\ Listed(c, who) = {}
    BY DEF Init, Listed
  <1>3. \A c \in Calls : PortsHeldBy(c) = {}
    BY DEF Init, PortsHeldBy
  <1>4. Orderly
    <2>1. HandlerList(<<>>)
      BY EmptyList
    <2> QED
      BY <1>2, <2>1 DEF Init, Orderly, OrderlyFor, Handler, Ender, Actors
  <1>5. Books
    <2>1. /\ \A k \in Keys : Of(pool, k) = {} /\ pool.count[k] = 0
          /\ \A n \in Nodes : On(pool, n) = {} /\ pool.endpoints[n] = 0
      BY Constants DEF Init, Of, On
    <2>2. Cardinality({}) = 0
      BY FS_EmptySet
    <2>3. pool \in Pools
      BY <1>1 DEF TypeOK, Pools
    <2>4. Covered(pool)
      BY <2>1, <2>2, <2>3 DEF Covered
    <2>5. \A k \in Keys : ExactFor(pool, k) /\ WithinFor(pool, k)
      BY <2>1, <2>2 DEF ExactFor, WithinFor
    <2>6. \A n \in Nodes : ExactOn(pool, n)
      BY <2>1, <2>2 DEF ExactOn
    <2> QED
      BY <2>4, <2>5, <2>6, Constants DEF Books
  <1>6. LocalPairs
    BY DEF Init, LocalPairs
  <1>7. Undisturbed
    <2>1. \A c \in Calls : RecordsOf(c)
      BY Constants DEF Init, RecordsOf
    <2> QED
      BY <1>2, <1>3, <2>1 DEF Undisturbed, Holds, Actors
  <1>8. Named
    BY DEF Init, Named
  <1>9. Emptied
    BY <1>2 DEF Init, Emptied, Forgets
  <1> QED
    BY <1>1, <1>4, <1>5, <1>6, <1>7, <1>8, <1>9 DEF IInv

LEMMA StepSound ==
  ASSUME IInv, [Next]_vars
  PROVE  IInv'
  <1> USE DEF IInv
  <1>1. CASE Next
    <2>1. Typed /\ Orderly'
      BY <1>1, OrderlyStep
    <2>2. Books'
      BY <1>1, BooksStep
    <2>3. TypeOK'
      BY <1>1, <2>1, <2>2, TypeStep
    <2>4. LocalPairs'
      BY <1>1, PairsStep
    <2>5. Undisturbed'
      BY <1>1, UndisturbedStep
    <2>6. Named'
      BY <1>1, NamedStep
    <2>7. Emptied'
      BY <1>1, EmptiedStep
    <2> QED
      BY <2>1, <2>2, <2>3, <2>4, <2>5, <2>6, <2>7
  <1>2. CASE UNCHANGED vars
    <2>1. UNCHANGED <<leased, peers, pool, session, todo, troubles, owner, leaked, spent, victims>>
      BY <1>2 DEF vars, relay, marks
    <2>2. TypeOK' /\ LocalPairs'
      BY <2>1 DEF TypeOK, LocalPairs
    <2>3. Orderly'
      BY <2>1 DEF Orderly, OrderlyFor, Handler, Ender, Listed, Fits, PortsHeldBy, Stored
    <2>0. GoneStay /\ LiveStay
      BY <2>1 DEF GoneStay, LiveStay
    <2>4. Books'
      BY <2>0, <2>1, BooksKept
    <2>5. Undisturbed'
      <3> SUFFICES ASSUME NEW c \in Calls, Live(c)' PROVE Calm(c)'
        BY UndisturbedWillBe
      <3>1. Calm(c)
        BY <2>1, UndisturbedIs DEF Live
      <3>2. Spared(c)
        BY <2>1 DEF Spared, Mine, Listed
      <3> QED
        BY <3>1, <3>2, SparedIsCalm
    <2>6. Named'
      BY <2>1 DEF Named, Cared, Coming, Pending, Listed, PortsHeldBy, Stored, Of
    <2>7. Emptied'
      <3>1. SameForgets
        BY <2>1 DEF SameForgets, Forgets, Listed
      <3> QED
        BY <2>0, <2>1, <3>1, EmptiedKept
    <2> QED
      BY <2>2, <2>3, <2>4, <2>5, <2>6, <2>7
  <1> QED
    BY <1>1, <1>2

(* The inductive invariant holds.                                          *)
THEOREM InvariantHolds == Spec => []IInv
  <1>1. Init => IInv
    BY InitSound
  <1>2. IInv /\ [Next]_vars => IInv'
    BY StepSound
  <1> QED
    BY <1>1, <1>2, PTL DEF Spec

(* A session in use has what it stores: each port is leased to it, recorded *)
(* for it and on its node, whatever the pool, the lists of the two actors  *)
(* and the requests that are lost, unless another call has cleared,        *)
(* recorded over or paired one of its ports.                               *)
THEOREM SessionsKeepTheirPorts == Spec => []SessionsHoldTheirPorts
  <1>1. IInv => SessionsHoldTheirPorts
    <2> SUFFICES ASSUME IInv, NEW c \in Calls \ victims, NEW p \in PortsHeldBy(c)
                 PROVE  /\ p \in leased /\ owner[p] = c
                        /\ pool.call[p] = c /\ pool.node[c] = NodeOf[p]
      BY DEF SessionsHoldTheirPorts, IInv
    <2>1. Live(c)
      BY DEF Live, PortsHeldBy
    <2> QED
      BY <2>1 DEF IInv, Undisturbed, Holds, Mine
  <1> QED
    BY <1>1, InvariantHolds, PTL

(* Once nothing is in progress, and if no call has harmed another, every    *)
(* port that is leased or recorded belongs to a session in use or leaked    *)
(* in one of the six named ways.  The pool counts for a key no more ports  *)
(* than it has recorded, and exactly those for a call that was not torn    *)
(* down; what it counts on a node is exact.                                *)
THEOREM LeaksAreOfSixKinds == Spec => []LeaksAreNamed
  <1>1. IInv => LeaksAreNamed
    <2> SUFFICES ASSUME IInv, Quiet, victims = {} PROVE LeaksAreNamed
      BY DEF LeaksAreNamed
    <2>1. \A c \in Calls, who \in Actors : Listed(c, who) = {}
      BY DEF Quiet, Idle, Listed
    <2>2. \A c \in Calls : \A p, kinds : ~Pending(c, p, kinds)
      BY <2>1 DEF Pending
    <2>3. \A k : ~Coming(k) /\ ~BeingForgotten(k)
      BY <2>1 DEF Coming, BeingForgotten, Forgets, Actors
    <2>4. \A k, p, kinds : Cared(k, p, kinds) => k \in Calls /\ p \in PortsHeldBy(k)
      BY <2>2 DEF Cared
    <2>5. leased \ leaked \subseteq UNION {PortsHeldBy(c) : c \in Calls}
      BY <2>4 DEF IInv, Named
    <2>6. {p \in Ports : pool.call[p] # None} \ leaked \subseteq UNION {PortsHeldBy(c) : c \in Calls}
      BY <2>2, <2>4 DEF IInv, Named
    <2>7. ASSUME NEW k \in Keys
          PROVE  /\ pool.count[k] <= Cardinality(Of(pool, k))
                 /\ k \in Calls /\ session[k].at # "gone" =>
                      pool.count[k] = Cardinality(Of(pool, k))
                 /\ pool.node[k] # None /\ Of(pool, k) = {} =>
                      k \in Calls /\ session[k].at = "gone"
      <3>1. pool.count[k] <= Cardinality(Of(pool, k)) /\ pool.count[k] \in Nat
        BY DEF IInv, Books, WithinFor, TypeOK
      <3>2. k \in Calls /\ session[k].at # "gone" => pool.count[k] = Cardinality(Of(pool, k))
        BY DEF IInv, Books, ExactFor, Young
      <3>3. ASSUME pool.node[k] # None, Of(pool, k) = {}
            PROVE  k \in Calls /\ session[k].at = "gone"
        <4>1. pool.count[k] = 0
          BY <3>1, <3>3, FS_EmptySet
        <4>2. k \notin pool.entries
          BY <2>3, <4>1 DEF IInv, Emptied
        <4> QED
          BY <2>3, <3>3, <4>2 DEF IInv, Named
      <3> QED
        BY <3>1, <3>2, <3>3
    <2>8. \A n \in Nodes : pool.endpoints[n] =
            Cardinality({p \in Ports : NodeOf[p] = n /\ pool.call[p] # None})
      BY DEF IInv, Books, ExactOn, On
    <2> QED
      BY <2>5, <2>6, <2>7, <2>8 DEF LeaksAreNamed, Of
  <1> QED
    BY <1>1, InvariantHolds, PTL
=============================================================================
