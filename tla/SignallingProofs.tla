-------------------------- MODULE SignallingProofs --------------------------
(***************************************************************************)
(* The two models of the way to the caller: InterNode, for any messages,   *)
(* any number of tries and any capacity of the write queue, and            *)
(* ServerTransaction, for any capacity of the event channel, any timers    *)
(* and any number of copies and losses.                                    *)
(*                                                                         *)
(* InterNode.  That a message is queued once rests on what the owner       *)
(* remembers: as long as a publisher can still ask, its id is in the       *)
(* table, because the table outlives all tries of publish().  That         *)
(* responses keep their order rests on the mutex, which a response holds   *)
(* until publish() returns, and on the order in which NATS delivers        *)
(* requests.                                                               *)
(*                                                                         *)
(* ServerTransaction.  One INVITE makes one call because a task stays      *)
(* registered for it, and only two things end a task: Timer H and an ACK.  *)
(* So the invariant follows an ACK back to the caller: what is in the      *)
(* inbox and in the channel came from a caller that has acknowledged.      *)
(***************************************************************************)
EXTENDS InterNode, ServerTransaction, TLAPS, SequenceTheorems

Step(m) ==
  \/ (m \in Responses /\ (Process(m) \/ ProcessLate(m)))
  \/ SendDropped(m) \/ Send(m)
  \/ Accepted(m) \/ (stage[m] = "waiting" /\ TryFails(m)) \/ Retry(m)
  \/ Expire(m) \/ LoseAck(m)

(* The linear part of the assumptions. *)
LEMMA Numbers ==
  /\ MaxRetries \in Nat /\ TtlTries \in Nat /\ TtlTries > MaxRetries
  /\ QueueMax \in Nat /\ QueueMax > 0 /\ MaxFaults \in Nat
  /\ Provisional \subseteq Responses /\ Responses \subseteq Msgs /\ None \notin Msgs
  BY TriesAssumption, ResponsesAssumption, NumbersAssumption

(* What the operators of Sequences do. *)
LEMMA AppendIs ==
  ASSUME NEW S, NEW s \in Seq(S), NEW e \in S
  PROVE  /\ Append(s, e) \in Seq(S) /\ Len(Append(s, e)) = Len(s) + 1
         /\ \A i \in 1 .. Len(s) : Append(s, e)[i] = s[i]
         /\ Append(s, e)[Len(s) + 1] = e
  BY DEF Append

LEMMA ElementIs ==
  ASSUME NEW S, NEW s \in Seq(S)
  PROVE  Len(s) \in Nat /\ \A i \in 1 .. Len(s) : s[i] \in S
  OBVIOUS

LEMMA EmptyIs ==
  ASSUME NEW S
  PROVE  <<>> \in Seq(S) /\ Len(<<>>) = 0
  OBVIOUS

LEMMA TailIs ==
  ASSUME NEW S, NEW s \in Seq(S), s # <<>>
  PROVE  /\ Head(s) = s[1] /\ Head(s) \in S /\ Len(s) \in Nat /\ Len(s) >= 1
         /\ Tail(s) \in Seq(S) /\ Len(Tail(s)) = Len(s) - 1
         /\ \A i \in 1 .. Len(s) - 1 : Tail(s)[i] = s[i + 1]
  BY DEF Head, Tail

(* What a step is. *)
LEMMA Steps ==
  ASSUME [Next]_vars
  PROVE  \/ \E m \in Msgs : Step(m)
         \/ AcceptAgain \/ Accept \/ Reject
         \/ Write \/ Close \/ Register \/ Restart \/ LoseRequest
         \/ UNCHANGED vars
  BY Zenon DEF Next, Step, Rejected, AckTimeout, TimesOut

(* An answer goes to the try that asked, or nowhere. *)
LEMMA ReplyIs ==
  ASSUME TypeOK, NEW r \in Requests, NEW accepted \in BOOLEAN
  PROVE  /\ Reply(r, accepted) \subseteq [msg : Msgs, accepted : BOOLEAN]
         /\ \A a \in Reply(r, accepted) :
              a \in acks \/ (a.msg = r.msg /\ a.accepted = accepted)
  BY DEF Reply, TypeOK, Requests

(* The first request, and what is left. *)
LEMMA FirstRequest ==
  ASSUME TypeOK, requests # <<>>
  PROVE  /\ Head(requests) = requests[1] /\ Head(requests) \in Requests
         /\ Head(requests).msg \in Msgs /\ Head(requests).try \in Tries
         /\ Len(requests) \in Nat /\ Len(requests) >= 1
         /\ Tail(requests) \in Seq(Requests) /\ Len(Tail(requests)) = Len(requests) - 1
         /\ \A i \in 1 .. Len(requests) - 1 : Tail(requests)[i] = requests[i + 1]
<1>1. requests \in Seq(Requests)
  BY DEF TypeOK
<1>2. Head(requests) \in Requests
  BY <1>1, TailIs
<1> QED
  BY <1>1, <1>2, TailIs DEF Requests

LEMMA Typed ==
  ASSUME TypeOK, TriesLeft, [Next]_vars
  PROVE  TypeOK' /\ TriesLeft'
<1> USE Numbers DEF TypeOK, TriesLeft, Stages, Tries, Requests, Ended
<1>1. ASSUME NEW m \in Msgs, Process(m), m \in Responses PROVE TypeOK' /\ TriesLeft'
  BY <1>1 DEF Process, owner
<1>2. ASSUME NEW m \in Msgs, ProcessLate(m) PROVE TypeOK' /\ TriesLeft'
  BY <1>2 DEF ProcessLate, owner
<1>3. ASSUME NEW m \in Msgs, SendDropped(m) PROVE TypeOK' /\ TriesLeft'
  BY <1>3 DEF SendDropped, owner
<1>4. ASSUME NEW m \in Msgs, Send(m) PROVE TypeOK' /\ TriesLeft'
  <2>1. requests' \in Seq(Requests)
    BY <1>4, AppendIs DEF Send
  <2>2. /\ stage' \in [Msgs -> Stages] /\ lock' \in Responses \cup {None}
        /\ order' \in [seen : BOOLEAN, started : BOOLEAN]
    BY <1>4 DEF Send, Locked
  <2>3. TriesLeft'
    BY <1>4 DEF Send
  <2> QED
    BY <1>4, <2>1, <2>2, <2>3 DEF Send, owner
<1>5. ASSUME NEW m \in Msgs, Accepted(m) PROVE TypeOK' /\ TriesLeft'
  BY <1>5 DEF Accepted, Unlocked, Answers, owner
<1>6. ASSUME NEW m \in Msgs, TryFails(m) PROVE TypeOK' /\ TriesLeft'
  BY <1>6 DEF TryFails, Unlocked, Answers, owner
<1>7. ASSUME NEW m \in Msgs, Retry(m) PROVE TypeOK' /\ TriesLeft'
  BY <1>7 DEF Retry, owner
<1>8. ASSUME NEW m \in Msgs, Expire(m) PROVE TypeOK' /\ TriesLeft'
  BY <1>8 DEF Expire, publisher
<1>9. ASSUME NEW m \in Msgs, LoseAck(m) PROVE TypeOK' /\ TriesLeft'
  BY <1>9 DEF LoseAck, Fault, Answers, publisher, owner
<1>10. CASE AcceptAgain
  BY <1>10, FirstRequest, ReplyIs DEF AcceptAgain, publisher, owner
<1>11. CASE Accept
  <2> DEFINE r == Head(requests)
  <2>1. /\ r \in Requests /\ r.msg \in Msgs /\ r.try \in Tries
        /\ requests' \in Seq(Requests)
    BY <1>11, FirstRequest DEF Accept
  <2>2. acks' \subseteq [msg : Msgs, accepted : BOOLEAN]
    BY <1>11, <2>1, ReplyIs DEF Accept
  <2>3. queue' \in Seq(Msgs) /\ Len(queue') <= QueueMax
    BY <1>11, <2>1, AppendIs DEF Accept, HasRoom
  <2>4. log' \in Seq([msg : Msgs, life : Nat])
    BY <1>11, <2>1, AppendIs DEF Accept
  <2> QED
    BY <1>11, <2>1, <2>2, <2>3, <2>4 DEF Accept, Remembered, publisher
<1>12. CASE Reject
  BY <1>12, FirstRequest, ReplyIs DEF Reject, publisher, owner
<1>13. CASE Write
  <2>1. queue' \in Seq(Msgs) /\ Len(queue') <= QueueMax
    BY <1>13, TailIs DEF Write
  <2> QED
    BY <1>13, <2>1 DEF Write, publisher
<1>14. CASE Close
  <2>1. queue' \in Seq(Msgs) /\ Len(queue') <= QueueMax
    BY <1>14, EmptyIs DEF Close
  <2>2. faults' \in 0 .. MaxFaults
    BY <1>14 DEF Close, Fault
  <2>3. open' \in BOOLEAN
    BY <1>14 DEF Close
  <2> QED
    BY <1>14, <2>1, <2>2, <2>3 DEF Close, publisher
<1>15. CASE Register
  BY <1>15 DEF Register, publisher
<1>16. CASE Restart
  <2>1. queue' \in Seq(Msgs) /\ Len(queue') <= QueueMax /\ requests' \in Seq(Requests)
    BY <1>16, EmptyIs DEF Restart
  <2>2. faults' \in 0 .. MaxFaults /\ life' \in Nat
    BY <1>16 DEF Restart, Fault
  <2> QED
    BY <1>16, <2>1, <2>2 DEF Restart, publisher
<1>17. CASE LoseRequest
  BY <1>17 DEF LoseRequest, Fault, publisher, owner
<1>18. CASE UNCHANGED vars
  BY <1>18 DEF vars, publisher, owner
<1> QED
  BY Steps, <1>1, <1>2, <1>3, <1>4, <1>5, <1>6, <1>7, <1>8, <1>9, <1>10, <1>11,
     <1>12, <1>13, <1>14, <1>15, <1>16, <1>17, <1>18 DEF Step

-----------------------------------------------------------------------------
(* The end of publish() is final, and nobody asks again after it. *)
LEMMA EndIsFinal ==
  ASSUME TypeOK, TriesLeft, [Next]_vars, NEW n \in Msgs, stage[n] \in Ended
  PROVE  stage'[n] \in Ended /\ (OnTheWay(n)' => OnTheWay(n))
<1> USE DEF TypeOK
<1>1. ASSUME NEW m \in Msgs, m \in Responses, Process(m) \/ ProcessLate(m)
      PROVE  stage'[n] \in Ended /\ requests' = requests
  BY <1>1 DEF Process, ProcessLate, Ended
<1>2. ASSUME NEW m \in Msgs, SendDropped(m) \/ Accepted(m) \/ (stage[m] = "waiting" /\ TryFails(m))
      PROVE  stage'[n] \in Ended /\ requests' = requests
  BY <1>2 DEF SendDropped, Accepted, TryFails, Ended
<1>3. ASSUME NEW m \in Msgs, Expire(m) \/ LoseAck(m)
      PROVE  stage'[n] \in Ended /\ requests' = requests
  BY <1>3 DEF Expire, LoseAck, publisher
<1>4. ASSUME NEW m \in Msgs, Send(m) \/ Retry(m)
      PROVE  /\ stage'[n] \in Ended /\ m # n
             /\ \E r \in Requests : r.msg = m /\ requests' = Append(requests, r)
  <2>1. m # n /\ stage'[n] = stage[n]
    BY <1>4 DEF Send, Retry, Ended
  <2>2. CASE Send(m)
    <3>1. [msg |-> m, try |-> 0] \in Requests
      BY Numbers DEF Requests, Tries
    <3> QED
      BY <2>1, <2>2, <3>1 DEF Send
  <2>3. CASE Retry(m)
    <3>1. attempt[m] + 1 \in Tries
      BY <2>3, Numbers DEF Retry, TriesLeft, Tries
    <3>2. [msg |-> m, try |-> attempt[m] + 1] \in Requests
      BY <3>1 DEF Requests
    <3> QED
      BY <2>1, <2>3, <3>2 DEF Retry
  <2> QED
    BY <1>4, <2>2, <2>3
<1>5. ASSUME AcceptAgain \/ Accept \/ Reject \/ LoseRequest
      PROVE  stage' = stage /\ requests # <<>> /\ requests' = Tail(requests)
  BY <1>5 DEF AcceptAgain, Accept, Reject, LoseRequest, publisher
<1>6. ASSUME Write \/ Close \/ Register
      PROVE  stage' = stage /\ requests' = requests
  BY <1>6 DEF Write, Close, Register, publisher
<1>7. ASSUME Restart PROVE stage' = stage /\ requests' = <<>>
  BY <1>7 DEF Restart, publisher
<1>8. ASSUME UNCHANGED vars PROVE stage' = stage /\ requests' = requests
  BY <1>8 DEF vars, publisher
<1>9. ASSUME NEW m \in Msgs, Send(m) \/ Retry(m) PROVE OnTheWay(n)' => OnTheWay(n)
  <2>1. PICK r \in Requests : r.msg = m /\ requests' = Append(requests, r)
    BY <1>4, <1>9
  <2> QED
    BY <1>4, <1>9, <2>1, AppendIs DEF OnTheWay
<1>10. ASSUME requests # <<>>, requests' = Tail(requests) PROVE OnTheWay(n)' => OnTheWay(n)
  BY <1>10, FirstRequest DEF OnTheWay
<1>11. ASSUME requests' = <<>> PROVE ~OnTheWay(n)'
  BY <1>11, EmptyIs DEF OnTheWay
<1>12. ASSUME requests' = requests PROVE OnTheWay(n)' = OnTheWay(n)
  BY <1>12 DEF OnTheWay
<1> QED
  BY Steps, <1>1, <1>2, <1>3, <1>4, <1>5, <1>6, <1>7, <1>8, <1>9, <1>10, <1>11, <1>12 DEF Step

(* An entry of the log. *)
LEMMA LogIs ==
  ASSUME TypeOK
  PROVE  /\ Len(log) \in Nat /\ life \in Nat
         /\ \A i \in 1 .. Len(log) : log[i].msg \in Msgs /\ log[i].life \in Nat
<1>1. log \in Seq([msg : Msgs, life : Nat]) /\ life \in Nat
  BY DEF TypeOK
<1>2. Len(log) \in Nat /\ \A i \in 1 .. Len(log) : log[i] \in [msg : Msgs, life : Nat]
  BY <1>1, ElementIs, Zenon
<1> QED
  BY <1>1, <1>2

(* The owner's memory changes in three ways. *)
LEMMA OwnerSteps ==
  ASSUME [Next]_vars
  PROVE  \/ Accept \/ Restart \/ \E m \in Msgs : Expire(m)
         \/ UNCHANGED <<log, life, dedupe>>
  BY Steps DEF Step, Process, ProcessLate, SendDropped, Send, Accepted, TryFails, Retry,
     LoseAck, AcceptAgain, Reject, Write, Close, Register, LoseRequest, vars, owner

(* What goes into a queue goes to the end of the log. *)
LEMMA LogGrows ==
  ASSUME TypeOK, [Next]_vars
  PROVE  /\ Len(log) \in Nat /\ Len(log') \in Nat /\ Len(log) <= Len(log')
         /\ \A i \in 1 .. Len(log) : log'[i] = log[i]
         /\ \A m \in Msgs : HasQueued(m) => HasQueued(m)'
         /\ \/ log' = log
            \/ /\ Accept
               /\ Len(log') = Len(log) + 1
               /\ log'[Len(log) + 1] = [msg |-> Head(requests).msg, life |-> life]
<1>1. CASE Accept
  <2>1. log \in Seq([msg : Msgs, life : Nat]) /\ life \in Nat /\ Head(requests).msg \in Msgs
    BY <1>1, FirstRequest DEF Accept, TypeOK
  <2>2. log' = Append(log, [msg |-> Head(requests).msg, life |-> life])
    BY <1>1 DEF Accept
  <2> QED
    BY <1>1, <2>1, <2>2, AppendIs DEF HasQueued
<1>2. CASE log' = log
  BY <1>2 DEF TypeOK, HasQueued
<1>3. Accept \/ log' = log
  <2>1. ASSUME NEW m \in Msgs, Expire(m) PROVE log' = log
    BY <2>1 DEF Expire
  <2>2. ASSUME Restart PROVE log' = log
    BY <2>2 DEF Restart
  <2> QED
    BY <2>1, <2>2, OwnerSteps
<1> QED
  BY <1>1, <1>2, <1>3

LEMMA Remembers ==
  ASSUME TypeOK, TriesLeft, Remembering, [Next]_vars
  PROVE  Remembering'
<1> DEFINE Known(m) == m \in dedupe \/ (stage[m] \in Ended /\ ~OnTheWay(m))
<1>0. \A i \in 1 .. Len(log) : log[i].msg \in Msgs /\ log[i].life \in Nat
  BY LogIs
<1>1. CASE Accept
  <2>1. \A m \in Msgs : Known(m) => Known(m)'
    BY <1>1, EndIsFinal DEF Accept, Remembered
  <2>2. Head(requests).msg \in dedupe' /\ life' = life /\ life \in Nat
    BY <1>1, FirstRequest DEF Accept, Remembered, TypeOK
  <2> QED
    BY <1>0, <1>1, <2>1, <2>2, LogGrows DEF Remembering
<1>2. CASE Restart
  BY <1>0, <1>2 DEF Restart, Remembering, TypeOK
<1>3. ASSUME NEW m \in Msgs, Expire(m) PROVE Remembering'
  <2>1. stage[m] \in Ended /\ ~OnTheWay(m)
    BY <1>3, Numbers DEF Expire, Expired, TypeOK, Tries
  <2>2. \A n \in Msgs : Known(n) => Known(n)'
    BY <1>3, <2>1, EndIsFinal DEF Expire
  <2> QED
    BY <1>0, <1>3, <2>2 DEF Remembering, Expire
<1>4. CASE UNCHANGED <<log, life, dedupe>>
  <2>1. \A m \in Msgs : Known(m) => Known(m)'
    BY <1>4, EndIsFinal
  <2> QED
    BY <1>0, <1>4, <2>1 DEF Remembering
<1> QED
  BY <1>1, <1>2, <1>3, <1>4, OwnerSteps

(* An answer that says yes, and a known id, are about a queued message. *)
LEMMA StaysHonest ==
  ASSUME TypeOK, Honest, [Next]_vars
  PROVE  Honest'
<1>1. \A m \in Msgs : HasQueued(m) => HasQueued(m)'
  BY LogGrows
<1>2. CASE Accept
  <2>0. PICK n \in Msgs : n = Head(requests).msg
    BY <1>2, FirstRequest DEF Accept
  <2>1. Head(requests) \in Requests
    BY <1>2, FirstRequest DEF Accept
  <2>2. HasQueued(n)'
    <3>1. log' = Append(log, [msg |-> n, life |-> life]) /\ log \in Seq([msg : Msgs, life : Nat])
      BY <1>2, <2>0 DEF Accept, TypeOK
    <3>2. [msg |-> n, life |-> life] \in [msg : Msgs, life : Nat]
      BY <2>1 DEF TypeOK
    <3>3. Len(log') = Len(log) + 1 /\ log'[Len(log) + 1].msg = n /\ Len(log) \in Nat
      BY <3>1, <3>2, AppendIs
    <3>4. Len(log) + 1 \in 1 .. Len(log')
      BY <3>3
    <3>5. \E i \in 1 .. Len(log') : log'[i].msg = n
      BY <3>3, <3>4
    <3> QED
      BY <3>5, Zenon DEF HasQueued
  <2>3. dedupe' = dedupe \cup {n} /\ acks' = Reply(Head(requests), TRUE)
    BY <1>2, <2>0 DEF Accept, Remembered
  <2>4. \A a \in acks' : a \in acks \/ a.msg = n
    BY <2>0, <2>1, <2>3, ReplyIs
  <2>5. \A m \in dedupe' : HasQueued(m)'
    <3>1. \A m \in dedupe : m \in Msgs /\ HasQueued(m)
      BY DEF Honest, TypeOK
    <3>2. \A m \in dedupe : HasQueued(m)'
      BY <1>1, <3>1, Zenon
    <3> QED
      BY <2>2, <2>3, <3>2, Zenon
  <2>6. \A a \in acks' : a.accepted => HasQueued(a.msg)'
    <3>1. \A a \in acks : a.accepted => HasQueued(a.msg)'
      BY <1>1 DEF Honest, TypeOK
    <3>2. \A a \in acks' : a \notin acks => HasQueued(a.msg)'
      <4>1. TAKE a \in acks'
      <4>2. HAVE a \notin acks
      <4>3. a.msg = n
        BY <2>4, <4>2
      <4>4. \E i \in 1 .. Len(log') : log'[i].msg = a.msg
        BY <2>2, <4>3 DEF HasQueued
      <4> QED
        BY <4>4 DEF HasQueued
    <3> QED
      BY <3>1, <3>2
  <2> QED
    BY <2>5, <2>6 DEF Honest
<1>3. CASE AcceptAgain
  <2>1. /\ Head(requests) \in Requests /\ Head(requests).msg \in dedupe
        /\ acks' = Reply(Head(requests), TRUE) /\ dedupe' = dedupe
    BY <1>3, FirstRequest DEF AcceptAgain, owner
  <2>2. \A a \in acks' : a \in acks \/ a.msg = Head(requests).msg
    BY <2>1, ReplyIs
  <2> QED
    BY <1>1, <2>1, <2>2 DEF Honest, TypeOK
<1>4. CASE Reject
  <2>1. /\ Head(requests) \in Requests
        /\ acks' = Reply(Head(requests), FALSE) /\ dedupe' = dedupe
    BY <1>4, FirstRequest DEF Reject, owner
  <2>2. \A a \in acks' : a \in acks \/ ~a.accepted
    BY <2>1, ReplyIs
  <2> QED
    BY <1>1, <2>1, <2>2 DEF Honest, TypeOK
<1>5. CASE acks' \subseteq acks /\ dedupe' \subseteq dedupe
  BY <1>1, <1>5 DEF Honest, TypeOK
<1>6. ASSUME NEW m \in Msgs, Step(m) PROVE acks' \subseteq acks /\ dedupe' \subseteq dedupe
  BY <1>6 DEF Step, Process, ProcessLate, SendDropped, Send, Accepted, TryFails, Retry, Expire,
     LoseAck, owner
<1>7. ASSUME Write \/ Close \/ Register \/ Restart \/ LoseRequest \/ UNCHANGED vars
      PROVE  acks' \subseteq acks /\ dedupe' \subseteq dedupe
  BY <1>7 DEF Write, Close, Register, Restart, LoseRequest, vars, owner
<1> QED
  BY Steps, <1>2, <1>3, <1>4, <1>5, <1>6, <1>7

(* A message is put into a queue when the owner does not know it: then it  *)
(* has not been there in this life.                                        *)
LEMMA OnceMore ==
  ASSUME TypeOK, Remembering, WrittenOnce, [Next]_vars
  PROVE  WrittenOnce'
<1>1. CASE log' = log
  BY <1>1 DEF WrittenOnce
<1>2. CASE /\ Accept
           /\ Len(log') = Len(log) + 1
           /\ log'[Len(log) + 1] = [msg |-> Head(requests).msg, life |-> life]
  <2>1. OnTheWay(Head(requests).msg) /\ Head(requests).msg \notin dedupe
    BY <1>2, FirstRequest DEF Accept, OnTheWay
  <2>2. \A i \in 1 .. Len(log) : log[i].msg = Head(requests).msg => log[i].life # life
    BY <2>1 DEF Remembering
  <2>3. \A i \in 1 .. Len(log) : log'[i] = log[i]
    BY LogGrows
  <2> QED
    BY <1>2, <2>2, <2>3, LogIs DEF WrittenOnce
<1> QED
  BY <1>1, <1>2, LogGrows

LEMMA Confirmed ==
  ASSUME TypeOK, Honest, OkMeansQueued, [Next]_vars
  PROVE  OkMeansQueued'
<1>1. ASSUME NEW m \in Msgs, stage'[m] = "ok", stage[m] # "ok" PROVE HasQueued(m)
  <2>1. ASSUME NEW n \in Msgs, Step(n) PROVE n = m /\ Accepted(m)
    BY <1>1, <2>1 DEF TypeOK, Step, Process, ProcessLate, SendDropped, Send, Accepted, TryFails,
       Retry, Expire, LoseAck, publisher
  <2>2. ~(\/ AcceptAgain \/ Accept \/ Reject \/ Write \/ Close \/ Register
          \/ Restart \/ LoseRequest \/ UNCHANGED vars)
    BY <1>1 DEF AcceptAgain, Accept, Reject, Write, Close, Register, Restart, LoseRequest,
       vars, publisher
  <2>3. Accepted(m)
    BY Steps, <2>1, <2>2
  <2> QED
    BY <2>3 DEF Accepted, Answers, Honest
<1> QED
  BY <1>1, LogGrows DEF OkMeansQueued, HasQueued

-----------------------------------------------------------------------------
(* What a step does that is not one of the workers'. *)
LEMMA OwnersOnly ==
  ASSUME [Next]_vars, ~\E m \in Msgs : Step(m)
  PROVE  UNCHANGED publisher
  BY Steps DEF AcceptAgain, Accept, Reject, Write, Close, Register, Restart, LoseRequest, vars

LEMMA StillOne ==
  ASSUME TypeOK, OneResponseAtATime, [Next]_vars
  PROVE  OneResponseAtATime'
<1> USE Numbers DEF TypeOK, OneResponseAtATime, Sending, Final
<1>1. ASSUME NEW m \in Msgs, m \in Responses, Process(m) \/ ProcessLate(m)
      PROVE  OneResponseAtATime'
  BY <1>1 DEF Process, ProcessLate
<1>2. ASSUME NEW m \in Msgs, SendDropped(m) PROVE OneResponseAtATime'
  BY <1>2 DEF SendDropped
<1>3. ASSUME NEW m \in Msgs, Send(m) PROVE OneResponseAtATime'
  BY <1>3 DEF Send, MayLock, Locked, Superseded
<1>4. ASSUME NEW m \in Msgs, Accepted(m) \/ (stage[m] = "waiting" /\ TryFails(m))
      PROVE  OneResponseAtATime'
  BY <1>4 DEF Accepted, TryFails, Unlocked
<1>5. ASSUME NEW m \in Msgs, Retry(m) PROVE OneResponseAtATime'
  BY <1>5 DEF Retry
<1>6. CASE UNCHANGED publisher
  BY <1>6 DEF publisher
<1>7. ASSUME NEW m \in Msgs, Expire(m) \/ LoseAck(m) PROVE OneResponseAtATime'
  BY <1>6, <1>7 DEF Expire, LoseAck
<1> QED
  BY OwnersOnly, <1>1, <1>2, <1>3, <1>4, <1>5, <1>6, <1>7 DEF Step

(* The requests on their way change in three ways; the mark that a final   *)
(* response has started is never taken back.                               *)
LEMMA RequestSteps ==
  ASSUME TypeOK, TriesLeft, OneResponseAtATime, [Next]_vars
  PROVE  /\ order.started => order'.started
         /\ \/ requests' = requests
            \/ requests # <<>> /\ requests' = Tail(requests)
            \/ requests' = <<>>
            \/ \E r \in Requests :
                 /\ requests' = Append(requests, r)
                 /\ Final(r.msg) => order'.started
                 /\ r.msg \in Provisional => ~order.started
<1> USE Numbers DEF TypeOK
<1>1. ASSUME NEW m \in Msgs, Send(m)
      PROVE  /\ order.started => order'.started
             /\ \E r \in Requests :
                 /\ requests' = Append(requests, r)
                 /\ Final(r.msg) => order'.started
                 /\ r.msg \in Provisional => ~order.started
  <2>1. [msg |-> m, try |-> 0] \in Requests
    BY DEF Requests, Tries
  <2> QED
    BY <1>1, <2>1 DEF Send, Superseded
<1>2. ASSUME NEW m \in Msgs, Retry(m)
      PROVE  /\ order' = order
             /\ \E r \in Requests :
                 /\ requests' = Append(requests, r)
                 /\ Final(r.msg) => order'.started
                 /\ r.msg \in Provisional => ~order.started
  <2>1. attempt[m] + 1 \in Tries
    BY <1>2 DEF Retry, TriesLeft, Tries
  <2>2. [msg |-> m, try |-> attempt[m] + 1] \in Requests
    BY <2>1 DEF Requests
  <2> QED
    BY <1>2, <2>2 DEF Retry, OneResponseAtATime, Sending
<1>3. ASSUME NEW m \in Msgs, Step(m), ~Send(m), ~Retry(m)
      PROVE  /\ order.started => order'.started
             /\ requests' = requests
  BY <1>3 DEF Step, Process, ProcessLate, SendDropped, Accepted, TryFails, Expire, LoseAck,
     publisher
<1>4. ASSUME AcceptAgain \/ Accept \/ Reject \/ LoseRequest
      PROVE  order' = order /\ requests # <<>> /\ requests' = Tail(requests)
  BY <1>4 DEF AcceptAgain, Accept, Reject, LoseRequest, publisher
<1>5. ASSUME Write \/ Close \/ Register \/ UNCHANGED vars
      PROVE  order' = order /\ requests' = requests
  BY <1>5 DEF Write, Close, Register, vars, publisher
<1>6. ASSUME Restart PROVE order' = order /\ requests' = <<>>
  BY <1>6 DEF Restart, publisher
<1> QED
  BY Steps, <1>1, <1>2, <1>3, <1>4, <1>5, <1>6

(* Requests and the log keep the order in which responses are started. *)
LEMMA StillInOrder ==
  ASSUME TypeOK, TriesLeft, OneResponseAtATime, RequestsInOrder, ResponsesInOrder, [Next]_vars
  PROVE  RequestsInOrder' /\ ResponsesInOrder'
<1> DEFINE Started(s) == \A i \in 1 .. Len(s) : Final(s[i].msg) => order'.started
           Sorted(s) == \A i, j \in 1 .. Len(s) :
                          i < j /\ Final(s[i].msg) => s[j].msg \notin Provisional
           Clear(s) == \A j \in 1 .. Len(s) : s[j].msg \notin Provisional
           FinalLogged == \E i \in 1 .. Len(log) : Final(log[i].msg)
<1>0. requests \in Seq(Requests) /\ Len(requests) \in Nat
  BY DEF TypeOK
<1>1. /\ Started(requests) /\ Sorted(requests) /\ (FinalLogged => Clear(requests))
      /\ (FinalLogged => order.started /\ order'.started)
      /\ \A i \in 1 .. Len(requests) : Final(requests[i].msg) => order.started
  BY RequestSteps DEF RequestsInOrder
<1>2. Started(requests') /\ Sorted(requests') /\ (FinalLogged => Clear(requests'))
  <2>1. CASE requests' = requests
    BY <1>1, <2>1
  <2>2. CASE requests # <<>> /\ requests' = Tail(requests)
    <3>1. /\ Len(requests') = Len(requests) - 1
          /\ \A i \in 1 .. Len(requests) - 1 : requests'[i] = requests[i + 1]
      BY <2>2, FirstRequest
    <3>2. \A i \in 1 .. Len(requests') : i + 1 \in 1 .. Len(requests)
      BY <1>0, <3>1
    <3>3. Started(requests') /\ (FinalLogged => Clear(requests'))
      BY <1>1, <3>1, <3>2
    <3>4. Sorted(requests')
      BY <1>0, <1>1, <3>1, <3>2
    <3> QED
      BY <3>3, <3>4
  <2>3. CASE requests' = <<>>
    BY <2>3, EmptyIs
  <2>4. ASSUME NEW r \in Requests, requests' = Append(requests, r),
               Final(r.msg) => order'.started, r.msg \in Provisional => ~order.started
        PROVE  Started(requests') /\ Sorted(requests') /\ (FinalLogged => Clear(requests'))
    <3>1. /\ Len(requests') = Len(requests) + 1
          /\ \A i \in 1 .. Len(requests) : requests'[i] = requests[i]
          /\ requests'[Len(requests) + 1] = r
      BY <1>0, <2>4, AppendIs
    <3>2. \A i \in 1 .. Len(requests') : i \in 1 .. Len(requests) \/ i = Len(requests) + 1
      BY <1>0, <3>1
    <3>3. Started(requests') /\ (FinalLogged => Clear(requests'))
      BY <1>1, <2>4, <3>1, <3>2
    <3>4. Sorted(requests')
      <4>1. SUFFICES ASSUME NEW i \in 1 .. Len(requests'), NEW j \in 1 .. Len(requests'),
                            i < j, Final(requests'[i].msg)
                     PROVE  requests'[j].msg \notin Provisional
        OBVIOUS
      <4>2. i \in 1 .. Len(requests) /\ requests'[i] = requests[i]
        BY <1>0, <3>1, <3>2, <4>1
      <4> QED
        BY <1>1, <2>4, <3>1, <3>2, <4>1, <4>2
    <3> QED
      BY <3>3, <3>4
  <2> QED
    BY RequestSteps, <2>1, <2>2, <2>3, <2>4
<1>3. CASE log' = log
  BY <1>1, <1>2, <1>3 DEF RequestsInOrder, ResponsesInOrder
<1>4. CASE /\ Accept
           /\ Len(log') = Len(log) + 1
           /\ log'[Len(log) + 1] = [msg |-> Head(requests).msg, life |-> life]
  <2>1. /\ requests # <<>> /\ requests' = Tail(requests) /\ order' = order
        /\ Head(requests) = requests[1] /\ Len(requests) >= 1
    BY <1>4, FirstRequest DEF Accept, publisher
  <2>2. \A i \in 1 .. Len(log) : log'[i] = log[i]
    BY LogGrows
  <2>3. log'[Len(log) + 1].msg = requests[1].msg /\ Len(log) \in Nat
    BY <1>4, <2>1, LogIs
  <2>4. Final(requests[1].msg) => Clear(requests') /\ order'.started
    BY <1>0, <1>1, <2>1, FirstRequest
  <2>5. FinalLogged => requests[1].msg \notin Provisional
    BY <1>0, <1>1, <2>1
  <2>6. Final(requests[1].msg) => requests[1].msg \notin Provisional
    BY DEF Final
  <2>7. RequestsInOrder'
    <3>1. \A i \in 1 .. Len(log') : i \in 1 .. Len(log) \/ i = Len(log) + 1
      BY <1>4, <2>3
    <3>2. \A i \in 1 .. Len(log') : Final(log'[i].msg) => Clear(requests') /\ order'.started
      BY <1>1, <1>2, <2>2, <2>3, <2>4, <3>1
    <3> QED
      BY <1>2, <3>2 DEF RequestsInOrder, Final
  <2>8. ResponsesInOrder'
    <3>1. \A i \in 1 .. Len(log') : i \in 1 .. Len(log) \/ i = Len(log) + 1
      BY <1>4, <2>3
    <3>2. SUFFICES ASSUME NEW i \in 1 .. Len(log'), NEW j \in 1 .. Len(log'),
                          Final(log'[i].msg), log'[j].msg \in Provisional
                   PROVE  j < i
      BY DEF ResponsesInOrder, Final
    <3>3. j \in 1 .. Len(log)
      BY <2>2, <2>3, <2>5, <2>6, <3>1, <3>2
    <3> QED
      BY <2>2, <2>3, <3>1, <3>2, <3>3 DEF ResponsesInOrder
  <2> QED
    BY <2>7, <2>8
<1> QED
  BY <1>3, <1>4, LogGrows

-----------------------------------------------------------------------------
LEMMA InitialInvariant == Init => IInv
<1> SUFFICES ASSUME Init PROVE IInv
  OBVIOUS
<1> USE Numbers DEF Init
<1>1. TypeOK /\ TriesLeft
  BY EmptyIs DEF TypeOK, TriesLeft, Stages, Tries
<1>2. Remembering /\ ExactlyOnce /\ Honest
  BY EmptyIs DEF Remembering, ExactlyOnce, WrittenOnce, OkMeansQueued, Honest
<1>3. OneResponseAtATime /\ RequestsInOrder /\ ResponsesInOrder
  <2>1. Len(requests) = 0 /\ Len(log) = 0
    BY EmptyIs
  <2>2. OneResponseAtATime
    BY DEF OneResponseAtATime, Sending
  <2> QED
    BY <2>1, <2>2 DEF RequestsInOrder, ResponsesInOrder
<1> QED
  BY <1>1, <1>2, <1>3 DEF IInv

(* The invariant: types, the owner's memory, the honesty of its answers,   *)
(* and one response at a time on the way (publish, accept_message,         *)
(* send_sip_datagram).                                                     *)
THEOREM InvariantHolds == Spec => []IInv
<1>1. ASSUME IInv, [Next]_vars PROVE IInv'
  <2> USE <1>1 DEF IInv, ExactlyOnce
  <2>1. TypeOK' /\ TriesLeft'
    BY Typed
  <2>2. Remembering' /\ Honest'
    BY Remembers, StaysHonest
  <2>3. ExactlyOnce'
    BY OnceMore, Confirmed
  <2>4. OneResponseAtATime' /\ RequestsInOrder' /\ ResponsesInOrder'
    BY StillOne, StillInOrder
  <2> QED
    BY <2>1, <2>2, <2>3, <2>4
<1> QED
  BY <1>1, InitialInvariant, PTL DEF Spec

(* Types of the publisher and of the owner; a write queue never holds more *)
(* than its capacity (accept_message).                                     *)
THEOREM TypeCorrect == Spec => []TypeOK
  BY InvariantHolds, PTL DEF IInv

(* However many requests and answers are lost and repeated: an owner puts  *)
(* a message into a queue once in its life, and publish() returns success  *)
(* only for a message that has been in one (publish, accept_message).      *)
THEOREM QueuedExactlyOnce == Spec => []ExactlyOnce
  BY InvariantHolds, PTL DEF IInv

(* No provisional response of the INVITE reaches a write queue after a     *)
(* final one (InviteResponseOrder, send_sip_datagram).                     *)
THEOREM ResponsesKeepOrder == Spec => []ResponsesInOrder
  BY InvariantHolds, PTL DEF IInv

-----------------------------------------------------------------------------
(* ServerTransaction. *)

(* What the inbox and the channel can hold.                                *)
Messages == {"INVITE", "CANCEL"} \cup (IF acked THEN {"ACK"} ELSE {})
Events ==
  {e \in [kind : EventKinds, response : ServerResponses \cup {Nothing}] :
     /\ e.kind = "response" => e.response \in ServerResponses
     /\ e.kind = "ack" => acked}

Genuine ==
  /\ inbox \in Seq(Messages)
  /\ chan \in Seq(Events)
  /\ held.step # Nothing => held.response \in ServerResponses

(* Something other than a copy has ended the INVITE's transaction.         *)
Excused == acked \/ local \/ expired

Watched == runs > 0 /\ ~Excused => entry /\ task \in {"proceeding", "final"}

ServerIInv == ServerTypeOK /\ Genuine /\ Watched /\ (runs > 1 => Excused)

-----------------------------------------------------------------------------
(* Sequences. *)

LEMMA PutAndTaken ==
  ASSUME NEW S, NEW q \in Seq(S)
  PROVE  /\ \A x \in S : Append(q, x) \in Seq(S) /\ Len(Append(q, x)) = Len(q) + 1
         /\ q # <<>> => /\ q[1] \in S /\ Head(q) = q[1] /\ Tail(q) \in Seq(S)
                        /\ Len(Tail(q)) = Len(q) - 1
         /\ Len(q) \in Nat
  BY AppendProperties, HeadTailProperties, ElementOfSeq, LenProperties, EmptySeq

LEMMA One ==
  ASSUME NEW S, NEW x \in S
  PROVE  <<x>> \in Seq(S) /\ Len(<<x>>) = 1
  OBVIOUS

(* What the caller has acknowledged is never taken back. *)
LEMMA StillGenuine ==
  ASSUME ServerTypeOK, acked => acked'
  PROVE  /\ Messages \subseteq Messages' /\ Events \subseteq Events'
         /\ \A q \in Seq(Messages) : q \in Seq(Messages')
         /\ \A q \in Seq(Events) : q \in Seq(Events')
  <1>1. Messages \subseteq Messages'
    BY DEF Messages
  <1>2. Events \subseteq Events'
    BY DEF Events, ServerResponses, EventKinds
  <1> QED
    BY <1>1, <1>2, SeqMonotonic

LEMMA EventsAre ==
  /\ Event("request", Nothing) \in Events
  /\ \A r \in ServerResponses : /\ Event("response", r) \in Events
                          /\ Event("observe", r) \in Events /\ Event("update", r) \in Events
  /\ acked => Event("ack", Nothing) \in Events
  BY DEF Event, Events, EventKinds

-----------------------------------------------------------------------------
(* What goes out to the caller. *)

LEMMA TransmitTypes ==
  ASSUME ServerTypeOK, NEW r \in ServerResponses, Transmit(r)
  PROVE  /\ sent' \in Seq(ServerResponses) /\ got' \subseteq ServerResponses
         /\ toAck' \in BOOLEAN /\ lost' \in 0 .. MaxLosses
         /\ acked' = acked /\ cancelled' = cancelled /\ copies' = copies
  <1>1. sent' \in Seq(ServerResponses)
    BY PutAndTaken DEF Transmit, ServerTypeOK
  <1>2. lost' \in 0 .. MaxLosses
    BY BoundsAssumption DEF Transmit, Loses, ServerTypeOK, BoundsAssumption
  <1> QED
    BY <1>1, <1>2 DEF Transmit, ServerTypeOK

(* A response the task takes from its channel, and what it repeats.         *)
LEMMA TaskSends ==
  ASSUME ServerTypeOK, Genuine
  PROVE  /\ Is("response") => chan[1].response \in ServerResponses
         /\ Kept \in ServerResponses /\ FinalResponse \in ServerResponses /\ ProvisionalResponse \in ServerResponses
  <1>1. chan # <<>> => chan[1] \in Events
    BY PutAndTaken DEF Genuine
  <1>2. Is("response") => chan[1].response \in ServerResponses
    BY <1>1 DEF Is, Events
  <1> QED
    BY <1>2 DEF Kept, ServerResponses

CallerOK ==
  /\ sent \in Seq(ServerResponses) /\ got \subseteq ServerResponses
  /\ toAck \in BOOLEAN /\ acked \in BOOLEAN /\ cancelled \in BOOLEAN
  /\ copies \in 0 .. MaxCopies /\ lost \in 0 .. MaxLosses

LEMMA CallerStep ==
  ASSUME ServerTypeOK, Genuine, ServerNext
  PROVE  CallerOK' /\ (acked => acked')
  <1>t. CallerOK
    BY DEF ServerTypeOK, CallerOK
  <1>1. CASE Caller
    <2>1. /\ sent' = sent /\ got' = got /\ toAck' \in BOOLEAN /\ acked' \in BOOLEAN
          /\ cancelled' \in BOOLEAN /\ (acked => acked')
      BY <1>1, <1>t DEF Caller, Copy, Acknowledge, Cancel, CallerOK
    <2>2. copies' \in 0 .. MaxCopies
      BY <1>1, <1>t, BoundsAssumption
         DEF Caller, Copy, Acknowledge, Cancel, CallerOK, BoundsAssumption
    <2>3. lost' \in 0 .. MaxLosses
      BY <1>1, <1>t, BoundsAssumption
         DEF Caller, Copy, Acknowledge, Cancel, Loses, CallerOK, BoundsAssumption
    <2> QED
      BY <1>t, <2>1, <2>2, <2>3 DEF CallerOK
  <1>2. CASE AnswerLocally
    BY <1>2, <1>t, TransmitTypes, TaskSends DEF AnswerLocally, CallerOK
  <1>3. CASE FeedCopy \/ Place \/ Refuse \/ Suppress \/ TakeAck \/ TakeCancel
    BY <1>3, <1>t DEF FeedCopy, Place, Refuse, Suppress, TakeAck, TakeCancel, caller, CallerOK
  <1>4. CASE Forward
    BY <1>4, <1>t, TransmitTypes DEF Forward, CallerOK, Genuine, Nothing
  <1>5. CASE (\E r \in ServerResponses : TakeResponse(r)) \/ Notify \/ \E r \in ServerResponses : GatewaySends(r)
    BY <1>5, <1>t DEF TakeResponse, Notify, GatewaySends, caller, CallerOK
  <1>6. CASE TaskResponds
    BY <1>6, <1>t, TransmitTypes, TaskSends DEF TaskResponds, CallerOK
  <1>7. CASE TaskRepeats \/ TimerG
    BY <1>7, <1>t, TransmitTypes, TaskSends DEF TaskRepeats, TimerG, CallerOK
  <1>8. CASE TaskObserves \/ TaskAcked \/ TaskIgnores \/ TimerH
    BY <1>8, <1>t DEF TaskObserves, TaskAcked, TaskIgnores, TimerH, quiet, caller, CallerOK
  <1> QED
    BY <1>1, <1>2, <1>3, <1>4, <1>5, <1>6, <1>7, <1>8
       DEF ServerNext, CallerWorker, GatewayWorker, Task, TaskEvent

-----------------------------------------------------------------------------
(* The inbox and the channel. *)

LEMMA InboxStep ==
  ASSUME ServerTypeOK, Genuine, ServerNext
  PROVE  inbox' \in Seq(Messages')
  <1>1. /\ inbox \in Seq(Messages') /\ (acked' => "ACK" \in Messages')
        /\ "INVITE" \in Messages' /\ "CANCEL" \in Messages'
    BY CallerStep, StillGenuine DEF Genuine, Messages
  <1>2. \/ inbox' = inbox
        \/ inbox # <<>> /\ inbox' = Tail(inbox)
        \/ inbox' = Append(inbox, "INVITE") \/ inbox' = Append(inbox, "CANCEL")
        \/ inbox' = Append(inbox, "ACK") /\ acked'
    <2>1. CASE Caller
      BY <2>1 DEF Caller, Copy, Acknowledge, Cancel
    <2>2. CASE CallerWorker
      BY <2>2 DEF CallerWorker, FeedCopy, Place, Refuse, AnswerLocally, Suppress, TakeAck,
                  TakeCancel, Taken, Comes
    <2>3. CASE GatewayWorker \/ \E r \in ServerResponses : GatewaySends(r)
      BY <2>3 DEF GatewayWorker, TakeResponse, Notify, Forward, GatewaySends
    <2>4. CASE Task
      BY <2>4 DEF Task, TaskEvent, TaskResponds, TaskObserves, TaskRepeats, TaskAcked,
                  TaskIgnores, TimerG, TimerH, aside
    <2> QED
      BY <2>1, <2>2, <2>3, <2>4 DEF ServerNext
  <1> QED
    BY <1>1, <1>2, PutAndTaken

(* The worker takes an ACK only from a caller that has sent one.           *)
LEMMA AckIsGenuine ==
  ASSUME Genuine
  PROVE  /\ Comes("ACK") => acked
         /\ Is("ack") => acked
  <1>1. Comes("ACK") => "ACK" \in Messages
    BY PutAndTaken DEF Genuine, Comes
  <1>2. Is("ack") => chan[1] \in Events
    BY PutAndTaken DEF Genuine, Is
  <1> QED
    BY <1>1, <1>2 DEF Messages, Is, Events

LEMMA ChanStep ==
  ASSUME ServerTypeOK, Genuine, ServerNext
  PROVE  chan' \in Seq(Events') /\ Len(chan') <= ChanMax
  <1>1. acked => acked'
    BY CallerStep
  <1>2. /\ chan \in Seq(Events) /\ Len(chan) \in Nat /\ Len(chan) <= ChanMax
        /\ ChanMax \in Nat \ {0}
    BY BoundsAssumption, PutAndTaken DEF ServerTypeOK, Genuine, BoundsAssumption
  <1>3. /\ <<>> \in Seq(Events) /\ Len(<<>>) = 0
    OBVIOUS
  <1>4. \/ chan' = chan
        \/ chan # <<>> /\ chan' = Tail(chan)
        \/ chan' = <<>>
        \/ \E e \in Events : chan' = <<e>> \/ (Room /\ chan' = Append(chan, e))
    <2>1. CASE Caller
      BY <2>1 DEF Caller, Copy, Acknowledge, Cancel, tx
    <2>2. CASE CallerWorker
      <3>1. CASE FeedCopy \/ TakeAck
        BY <3>1, EventsAre, AckIsGenuine DEF FeedCopy, TakeAck, Push
      <3>2. CASE Place \/ Refuse
        BY <3>2, EventsAre, TaskSends DEF Place, Refuse, Spawn
      <3>3. CASE AnswerLocally \/ Suppress \/ TakeCancel
        BY <3>3 DEF AnswerLocally, Suppress, TakeCancel, tx
      <3> QED
        BY <2>2, <3>1, <3>2, <3>3 DEF CallerWorker
    <2>3. CASE Notify
      <3>1. held.response \in ServerResponses
        BY <2>3 DEF Notify, Genuine, Nothing
      <3> QED
        BY <2>3, <3>1, EventsAre DEF Notify, Push
    <2>4. CASE (\E r \in ServerResponses : TakeResponse(r)) \/ Forward \/ \E r \in ServerResponses : GatewaySends(r)
      BY <2>4 DEF TakeResponse, Forward, GatewaySends, tx
    <2>5. CASE Task
      BY <2>5 DEF Task, TaskEvent, TaskResponds, TaskObserves, TaskRepeats, TaskAcked,
                  TaskIgnores, TimerG, TimerH, Popped, Is
    <2> QED
      BY <2>1, <2>2, <2>3, <2>4, <2>5 DEF ServerNext, GatewayWorker
  <1>5. chan' \in Seq(Events) /\ Len(chan') <= ChanMax
    <2>1. CASE chan' = chan
      BY <1>2, <2>1
    <2>5. CASE chan' = <<>>
      <3>1. 0 <= ChanMax
        BY <1>2
      <3>2. chan' \in Seq(Events) /\ Len(chan') = 0
        BY <1>3, <2>5
      <3> QED
        BY <3>1, <3>2
    <2>2. CASE chan # <<>> /\ chan' = Tail(chan)
      <3>1. Tail(chan) \in Seq(Events) /\ Len(Tail(chan)) = Len(chan) - 1
        BY <1>2, <2>2, PutAndTaken
      <3> QED
        BY <1>2, <2>2, <3>1
    <2>3. ASSUME NEW e \in Events, chan' = <<e>>
          PROVE  chan' \in Seq(Events) /\ Len(chan') <= ChanMax
      BY <1>2, <2>3, One
    <2>4. ASSUME NEW e \in Events, Room, chan' = Append(chan, e)
          PROVE  chan' \in Seq(Events) /\ Len(chan') <= ChanMax
      <3>1. Append(chan, e) \in Seq(Events) /\ Len(Append(chan, e)) = Len(chan) + 1
        BY <1>2, PutAndTaken
      <3> QED
        BY <1>2, <2>4, <3>1 DEF Room
    <2> QED
      BY <1>4, <2>1, <2>2, <2>3, <2>4, <2>5
  <1> QED
    BY <1>1, <1>5, StillGenuine

-----------------------------------------------------------------------------
(* The rest of the state. *)

RestOK ==
  /\ entry \in BOOLEAN
  /\ task \in {"none", "proceeding", "final", "done"}
  /\ resends \in 0 .. Resends /\ expired \in BOOLEAN
  /\ session \in BOOLEAN /\ finalSeen \in BOOLEAN /\ local \in BOOLEAN
  /\ gateway \subseteq ServerResponses /\ decided \in BOOLEAN /\ runs \in Nat

LEMMA RestStep ==
  ASSUME ServerTypeOK, ServerNext
  PROVE  RestOK'
  <1>t. RestOK
    BY DEF ServerTypeOK, RestOK
  <1>r. Resends \in Nat
    BY BoundsAssumption DEF BoundsAssumption
  <1>1. CASE Caller
    BY <1>1, <1>t DEF Caller, Copy, Acknowledge, Cancel, tx, call, RestOK
  <1>2. CASE Place \/ Refuse
    <2>1. runs' \in Nat /\ resends' \in 0 .. Resends
      BY <1>2, <1>t, <1>r DEF Place, Refuse, Spawn, RestOK
    <2>2. /\ entry' \in BOOLEAN /\ task' = "proceeding"
          /\ session' \in BOOLEAN /\ finalSeen' \in BOOLEAN
          /\ UNCHANGED <<expired, local, gateway, decided>>
      BY <1>2, <1>t DEF Place, Refuse, Spawn, Registered, RestOK
    <2> QED
      BY <1>t, <2>1, <2>2 DEF RestOK
  <1>3. CASE AnswerLocally \/ Suppress \/ TakeAck \/ TakeCancel \/ FeedCopy
    <2>1. runs' \in Nat
      BY <1>3, <1>t DEF AnswerLocally, Suppress, TakeAck, TakeCancel, FeedCopy, call, RestOK
    <2>2. /\ entry' \in BOOLEAN /\ session' \in BOOLEAN /\ local' \in BOOLEAN
          /\ UNCHANGED <<task, resends, expired, finalSeen, gateway, decided>>
      BY <1>3, <1>t DEF AnswerLocally, Suppress, TakeAck, TakeCancel, FeedCopy, tx, call, RestOK
    <2> QED
      BY <1>t, <2>1, <2>2 DEF RestOK
  <1>4. CASE (\E r \in ServerResponses : TakeResponse(r)) \/ \E r \in ServerResponses : GatewaySends(r)
    BY <1>4, <1>t DEF TakeResponse, GatewaySends, tx, RestOK
  <1>5. CASE Notify \/ Forward
    BY <1>5, <1>t DEF Notify, Forward, tx, RestOK
  <1>6. CASE TaskEvent
    BY <1>6, <1>t DEF TaskEvent, TaskResponds, TaskObserves, TaskRepeats, TaskAcked, TaskIgnores,
                      aside, call, RestOK
  <1>7. CASE TimerG
    BY <1>7, <1>t, <1>r DEF TimerG, call, RestOK
  <1>8. CASE TimerH
    BY <1>8, <1>t DEF TimerH, call, RestOK
  <1> QED
    BY <1>1, <1>2, <1>3, <1>4, <1>5, <1>6, <1>7, <1>8
       DEF ServerNext, CallerWorker, GatewayWorker, Task

LEMMA HeldStep ==
  ASSUME ServerTypeOK, Genuine, ServerNext
  PROVE  /\ held' \in [response : ServerResponses \cup {Nothing}, step : {Nothing, "notify", "send"}]
         /\ held'.step # Nothing => held'.response \in ServerResponses
  <1>t. /\ held \in [response : ServerResponses \cup {Nothing}, step : {Nothing, "notify", "send"}]
        /\ held.step # Nothing => held.response \in ServerResponses
    BY DEF ServerTypeOK, Genuine
  <1>1. CASE \E r \in ServerResponses : TakeResponse(r)
    BY <1>1, <1>t DEF TakeResponse
  <1>2. CASE Notify
    BY <1>2, <1>t DEF Notify, Nothing
  <1>3. CASE Forward
    BY <1>3 DEF Forward
  <1>4. CASE Caller \/ CallerWorker \/ Task \/ \E r \in ServerResponses : GatewaySends(r)
    <2>1. held' = held
      BY <1>4 DEF Caller, Copy, Acknowledge, Cancel, CallerWorker, FeedCopy, Place, Refuse,
                  AnswerLocally, Suppress, TakeAck, TakeCancel, Task, TaskEvent, TaskResponds,
                  TaskObserves, TaskRepeats, TaskAcked, TaskIgnores, TimerG, TimerH, GatewaySends,
                  aside, call
    <2> QED
      BY <1>t, <2>1
  <1> QED
    BY <1>1, <1>2, <1>3, <1>4 DEF ServerNext, GatewayWorker

(* The channel and the inbox have the types ServerTypeOK asks for. *)
LEMMA TypesFrom ==
  ASSUME NEW q \in Seq(Events), NEW m \in Seq(Messages)
  PROVE  /\ q \in Seq([kind : EventKinds, response : ServerResponses \cup {Nothing}])
         /\ m \in Seq({"INVITE", "ACK", "CANCEL"})
  <1>1. Events \subseteq [kind : EventKinds, response : ServerResponses \cup {Nothing}]
    BY DEF Events
  <1>2. Messages \subseteq {"INVITE", "ACK", "CANCEL"}
    BY DEF Messages
  <1> QED
    BY <1>1, <1>2, SeqMonotonic

LEMMA TypesStep ==
  ASSUME ServerTypeOK, Genuine, ServerNext
  PROVE  ServerTypeOK' /\ Genuine'
  <1>1. CallerOK' /\ RestOK'
    BY CallerStep, RestStep
  <1>2. /\ held' \in [response : ServerResponses \cup {Nothing}, step : {Nothing, "notify", "send"}]
        /\ held'.step # Nothing => held'.response \in ServerResponses
    BY HeldStep
  <1>3. inbox' \in Seq(Messages') /\ chan' \in Seq(Events') /\ Len(chan') <= ChanMax
    BY InboxStep, ChanStep
  <1>4. /\ Messages' \subseteq {"INVITE", "ACK", "CANCEL"}
        /\ Events' \subseteq [kind : EventKinds, response : ServerResponses \cup {Nothing}]
    BY DEF Messages, Events, ServerResponses, EventKinds
  <1>5. /\ inbox' \in Seq({"INVITE", "ACK", "CANCEL"})
        /\ chan' \in Seq([kind : EventKinds, response : ServerResponses \cup {Nothing}])
    BY <1>3, <1>4, SeqMonotonic
  <1>6. ServerTypeOK'
    BY <1>1, <1>2, <1>3, <1>5 DEF ServerTypeOK, CallerOK, RestOK
  <1> QED
    BY <1>2, <1>3, <1>6 DEF Genuine

-----------------------------------------------------------------------------
(* The transaction is watched until something else ends it. *)

LEMMA ExcuseStays ==
  ASSUME ServerTypeOK, Genuine, ServerNext
  PROVE  Excused => Excused'
  <1>1. acked => acked'
    BY CallerStep
  <1>2. local => local'
    BY DEF ServerNext, Caller, Copy, Acknowledge, Cancel, CallerWorker, FeedCopy, Place, Refuse,
           AnswerLocally, Suppress, TakeAck, TakeCancel, GatewayWorker, TakeResponse, Notify,
           Forward, Task, TaskEvent, TaskResponds, TaskObserves, TaskRepeats, TaskAcked,
           TaskIgnores, TimerG, TimerH, GatewaySends, aside, call
  <1>3. expired => expired'
    BY DEF ServerNext, Caller, Copy, Acknowledge, Cancel, CallerWorker, FeedCopy, Place, Refuse,
           AnswerLocally, Suppress, TakeAck, TakeCancel, GatewayWorker, TakeResponse, Notify,
           Forward, Task, TaskEvent, TaskResponds, TaskObserves, TaskRepeats, TaskAcked,
           TaskIgnores, TimerG, TimerH, GatewaySends, aside, tx
  <1> QED
    BY <1>1, <1>2, <1>3 DEF Excused

LEMMA WatchedStep ==
  ASSUME ServerIInv, ServerNext
  PROVE  Watched' /\ (runs' > 1 => Excused')
  <1>i. ServerTypeOK /\ Genuine /\ Watched /\ (runs > 1 => Excused) /\ runs \in Nat
    BY DEF ServerIInv, ServerTypeOK
  <1>1. Excused => Excused'
    BY <1>i, ExcuseStays
  <1>2. CASE Place \/ Refuse
    <2>1. /\ runs' = runs + 1 /\ entry' = TRUE /\ task' = "proceeding" /\ ~Live
      BY <1>2 DEF Place, Refuse, Spawn, Registered
    <2>2. runs > 0 => Excused
      BY <1>i, <2>1 DEF Watched, Live
    <2> QED
      BY <1>i, <1>1, <2>1, <2>2 DEF Watched
  <1>3. CASE AnswerLocally
    <2>1. Excused'
      BY <1>3 DEF AnswerLocally, Excused
    <2> QED
      BY <2>1 DEF Watched
  <1>4. CASE Suppress
    <2>1. /\ runs' = runs /\ runs > 0 /\ ~Live
      BY <1>4 DEF Suppress, call
    <2>2. Excused
      BY <1>i, <2>1 DEF Watched, Live
    <2> QED
      BY <1>1, <2>2 DEF Watched
  <1>5. CASE TakeAck \/ TaskAcked
    <2>1. Excused
      BY <1>i, <1>5, AckIsGenuine DEF TakeAck, TaskAcked, Excused
    <2> QED
      BY <1>1, <2>1 DEF Watched
  <1>6. CASE TimerH
    <2>1. Excused'
      BY <1>6 DEF TimerH, Excused
    <2> QED
      BY <2>1 DEF Watched
  <1>7. CASE Caller \/ FeedCopy \/ TakeCancel \/ GatewayWorker \/ \E r \in ServerResponses : GatewaySends(r)
    <2>1. runs' = runs /\ entry' = entry /\ task' = task
      BY <1>7 DEF Caller, Copy, Acknowledge, Cancel, FeedCopy, TakeCancel, GatewayWorker,
                  TakeResponse, Notify, Forward, GatewaySends, tx, call
    <2> QED
      BY <1>i, <1>1, <2>1 DEF Watched
  <1>8. CASE TaskResponds \/ TaskObserves \/ TaskRepeats \/ TaskIgnores \/ TimerG
    <2>1. /\ runs' = runs /\ entry' = entry
          /\ task' = task \/ (task = "proceeding" /\ task' = "final")
      BY <1>8 DEF TaskResponds, TaskObserves, TaskRepeats, TaskIgnores, TimerG, aside, call
    <2> QED
      BY <1>i, <1>1, <2>1 DEF Watched
  <1> QED
    BY <1>2, <1>3, <1>4, <1>5, <1>6, <1>7, <1>8 DEF ServerNext, CallerWorker, Task, TaskEvent

(* Types, genuine ACKs, and a registered task for every call that is not     *)
(* excused, together.                                                      *)
THEOREM ServerInvariantHolds == ServerSpec => []ServerIInv
  <1>1. ServerInit => ServerIInv
    <2> SUFFICES ASSUME ServerInit
                 PROVE  ServerIInv
      OBVIOUS
    <2>1. ServerTypeOK
      <3>1. inbox \in Seq({"INVITE", "ACK", "CANCEL"})
        BY DEF ServerInit
      <3>2. Len(chan) <= ChanMax
        BY BoundsAssumption DEF ServerInit, BoundsAssumption
      <3>3. resends \in 0 .. Resends /\ copies \in 0 .. MaxCopies /\ lost \in 0 .. MaxLosses
        BY BoundsAssumption DEF ServerInit, BoundsAssumption
      <3>4. /\ chan \in Seq([kind : EventKinds, response : ServerResponses \cup {Nothing}])
            /\ sent \in Seq(ServerResponses)
        BY DEF ServerInit
      <3>5. held \in [response : ServerResponses \cup {Nothing}, step : {Nothing, "notify", "send"}]
        BY DEF ServerInit
      <3>6. gateway \subseteq ServerResponses /\ got \subseteq ServerResponses /\ runs \in Nat
        BY DEF ServerInit
      <3>7. /\ entry \in BOOLEAN /\ task \in {"none", "proceeding", "final", "done"}
            /\ expired \in BOOLEAN /\ session \in BOOLEAN /\ finalSeen \in BOOLEAN
            /\ local \in BOOLEAN /\ decided \in BOOLEAN
            /\ toAck \in BOOLEAN /\ acked \in BOOLEAN /\ cancelled \in BOOLEAN
        BY DEF ServerInit
      <3> QED
        BY <3>1, <3>2, <3>3, <3>4, <3>5, <3>6, <3>7 DEF ServerTypeOK
    <2>2. Genuine
      BY DEF ServerInit, Genuine, Messages
    <2> QED
      BY <2>1, <2>2 DEF ServerIInv, ServerInit, Watched
  <1>2. ServerIInv /\ [ServerNext]_serverVars => ServerIInv'
    <2> SUFFICES ASSUME ServerIInv, [ServerNext]_serverVars
                 PROVE  ServerIInv'
      OBVIOUS
    <2>1. CASE ServerNext
      <3>1. ServerTypeOK' /\ Genuine'
        BY <2>1, TypesStep DEF ServerIInv
      <3> QED
        BY <2>1, <3>1, WatchedStep DEF ServerIInv
    <2>2. CASE UNCHANGED serverVars
      <3>1. UNCHANGED <<inbox, entry, task, chan, resends, expired, session, finalSeen, gateway,
                        decided, held, runs, local, sent, got, toAck, acked, cancelled, copies, lost>>
        BY <2>2 DEF serverVars, tx, call, caller
      <3> QED
        BY <3>1 DEF ServerIInv, ServerTypeOK, Genuine, Messages, Events, Watched, Excused
    <2> QED
      BY <2>1, <2>2
  <1> QED
    BY <1>1, <1>2, PTL DEF ServerSpec

(* However many copies of the INVITE come, and whatever is lost and overtaken, *)
(* the handler runs again only after an ACK of the caller, the end of Timer H  *)
(* or a 2xx of its own (dispatch_request, server.rs).                       *)
THEOREM OneCallPerInvite == ServerSpec => []OneCall
  <1>1. ServerIInv => OneCall
    BY DEF ServerIInv, OneCall, Excused
  <1> QED
    BY <1>1, ServerInvariantHolds, PTL
=============================================================================
