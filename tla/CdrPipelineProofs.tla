------------------------- MODULE CdrPipelineProofs -------------------------
(***************************************************************************)
(* The CDR pipeline of an edge implements CdrLog, for any calls, any sizes  *)
(* of queue and batch, and any number of faults.                           *)
(*                                                                         *)
(* Most steps change one part of the log only.  The two that forget lines   *)
(* of the spool need the invariant of the replay loop: what it has read of  *)
(* its file and no longer to send is with the sink or in the archive, and  *)
(* it has read the file to its end unless the disk has failed.             *)
(*                                                                         *)
(* At the end, the bound on what faults can cost.                          *)
(***************************************************************************)
EXTENDS CdrPipeline, TLAPS, FiniteSetTheorems

LEMMA Sizes ==
  /\ Poison \subseteq Calls
  /\ QueueMax \in Nat \ {0} /\ BatchMax \in Nat \ {0} /\ Attempts \in Nat \ {0}
  /\ InboxMax \in Nat \ {0} /\ MaxDeliver \in Nat \ {0} /\ MaxFaults \in Nat
  BY PipelineAssumption

(* Sequences as sets of their elements. *)
LEMMA ElementIs ==
  ASSUME NEW S, NEW s \in Seq(S)
  PROVE  /\ Len(s) \in Nat /\ DOMAIN s = 1 .. Len(s) /\ \A i \in 1 .. Len(s) : s[i] \in S
         /\ \A x : x \in ToSet(s) <=> \E i \in 1 .. Len(s) : x = s[i]
         /\ ToSet(s) \subseteq S
  BY DEF ToSet

LEMMA EmptyIs ==
  ASSUME NEW S
  PROVE  <<>> \in Seq(S) /\ Len(<<>>) = 0 /\ ToSet(<<>>) = {}
<1>1. <<>> \in Seq(S) /\ Len(<<>>) = 0
  OBVIOUS
<1>2. DOMAIN <<>> = {}
  OBVIOUS
<1> QED
  BY <1>1, <1>2 DEF ToSet

LEMMA AppendIs ==
  ASSUME NEW S, NEW s \in Seq(S), NEW e \in S
  PROVE  /\ Append(s, e) \in Seq(S) /\ Len(Append(s, e)) = Len(s) + 1
         /\ \A i \in 1 .. Len(s) : Append(s, e)[i] = s[i]
         /\ Append(s, e)[Len(s) + 1] = e
         /\ ToSet(Append(s, e)) = ToSet(s) \cup {e}
<1> DEFINE t == Append(s, e)
<1>1. /\ t \in Seq(S) /\ Len(t) = Len(s) + 1 /\ Len(s) \in Nat
      /\ \A i \in 1 .. Len(s) : t[i] = s[i]
      /\ t[Len(s) + 1] = e
  OBVIOUS
<1> HIDE DEF t
<1>2. \A x : x \in ToSet(t) <=> \E i \in 1 .. Len(t) : x = t[i]
  BY <1>1, ElementIs
<1>3. \A x : x \in ToSet(s) <=> \E i \in 1 .. Len(s) : x = s[i]
  BY <1>1, ElementIs
<1>4. \A i : i \in 1 .. Len(t) <=> i \in 1 .. Len(s) \/ i = Len(s) + 1
  BY <1>1
<1>5. \A x : x \in ToSet(t) <=> x \in ToSet(s) \cup {e}
  BY <1>1, <1>2, <1>3, <1>4
<1> QED
  BY <1>1, <1>5 DEF t

LEMMA TailIs ==
  ASSUME NEW S, NEW s \in Seq(S), s # <<>>
  PROVE  /\ Head(s) \in S /\ Len(s) \in Nat /\ Len(s) >= 1
         /\ Tail(s) \in Seq(S) /\ Len(Tail(s)) = Len(s) - 1
         /\ ToSet(s) = ToSet(Tail(s)) \cup {Head(s)}
<1> DEFINE t == Tail(s)
           h == Head(s)
<1>1. /\ h = s[1] /\ h \in S /\ Len(s) \in Nat /\ Len(s) >= 1
      /\ t \in Seq(S) /\ Len(t) = Len(s) - 1
      /\ \A i \in 1 .. Len(s) - 1 : t[i] = s[i + 1]
  OBVIOUS
<1> HIDE DEF t, h
<1>2. \A x : x \in ToSet(t) <=> \E i \in 1 .. Len(t) : x = t[i]
  BY <1>1, ElementIs
<1>3. \A x : x \in ToSet(s) <=> \E i \in 1 .. Len(s) : x = s[i]
  BY <1>1, ElementIs
<1>4. /\ \A i \in 1 .. Len(s) : i = 1 \/ (i - 1 \in 1 .. Len(t) /\ t[i - 1] = s[i])
      /\ \A i \in 1 .. Len(t) : i + 1 \in 1 .. Len(s)
      /\ 1 \in 1 .. Len(s)
  BY <1>1
<1>5. \A x : x \in ToSet(s) <=> x \in ToSet(t) \cup {h}
  BY <1>1, <1>2, <1>3, <1>4
<1> QED
  BY <1>1, <1>5 DEF t, h

LEMMA JoinIs ==
  ASSUME NEW S, NEW s \in Seq(S), NEW t \in Seq(S)
  PROVE  /\ s \o t \in Seq(S) /\ Len(s \o t) = Len(s) + Len(t)
         /\ ToSet(s \o t) = ToSet(s) \cup ToSet(t)
<1> DEFINE u == s \o t
<1>1. /\ Len(s) \in Nat /\ Len(t) \in Nat
      /\ u \in Seq(S) /\ Len(u) = Len(s) + Len(t)
      /\ \A i \in 1 .. Len(s) : u[i] = s[i]
      /\ \A i \in 1 .. Len(u) : i > Len(s) => u[i] = t[i - Len(s)]
  OBVIOUS
<1> HIDE DEF u
<1>2. /\ \A x : x \in ToSet(s) <=> \E i \in 1 .. Len(s) : x = s[i]
      /\ \A x : x \in ToSet(t) <=> \E i \in 1 .. Len(t) : x = t[i]
      /\ \A x : x \in ToSet(u) <=> \E i \in 1 .. Len(u) : x = u[i]
  BY <1>1, ElementIs
<1>3. /\ \A i \in 1 .. Len(u) : i \in 1 .. Len(s) \/ (i > Len(s) /\ i - Len(s) \in 1 .. Len(t))
      /\ \A i \in 1 .. Len(t) : /\ Len(s) + i \in 1 .. Len(u) /\ Len(s) + i > Len(s)
                                /\ u[Len(s) + i] = t[i]
      /\ \A i \in 1 .. Len(s) : i \in 1 .. Len(u)
  BY <1>1
<1>4. ToSet(u) \subseteq ToSet(s) \cup ToSet(t)
  BY <1>1, <1>2, <1>3
<1>5. ToSet(s) \cup ToSet(t) \subseteq ToSet(u)
  <2>1. \A i \in 1 .. Len(s) : s[i] \in ToSet(u)
    BY <1>1, <1>2, <1>3
  <2>2. \A i \in 1 .. Len(t) : t[i] \in ToSet(u)
    <3>1. TAKE i \in 1 .. Len(t)
    <3>2. Len(s) + i \in 1 .. Len(u) /\ u[Len(s) + i] = t[i]
      BY <1>3
    <3> QED
      BY <1>2, <3>2
  <2> QED
    BY <1>2, <2>1, <2>2
<1> QED
  BY <1>1, <1>4, <1>5 DEF u

(* The records of a file. *)
LEMMA OfIs ==
  ASSUME NEW s \in Seq(Lines)
  PROVE  /\ \A x : x \in Of(s) <=> \E i \in 1 .. Len(s) : x \in s[i].of
         /\ DOMAIN s = 1 .. Len(s) /\ Len(s) \in Nat
         /\ \A i \in 1 .. Len(s) : s[i].of \subseteq Calls
         /\ Of(s) \subseteq Calls
<1>0. \A x : x \in ToSet(s) <=> \E i \in 1 .. Len(s) : x = s[i]
  BY ElementIs
<1>1. \A x : x \in Of(s) <=> \E i \in 1 .. Len(s) : x \in s[i].of
  BY <1>0 DEF Of
<1>2. DOMAIN s = 1 .. Len(s) /\ Len(s) \in Nat /\ \A i \in 1 .. Len(s) : s[i].of \subseteq Calls
  <2>1. DOMAIN s = 1 .. Len(s) /\ Len(s) \in Nat /\ \A i \in 1 .. Len(s) : s[i] \in Lines
    BY ElementIs
  <2> QED
    BY <2>1 DEF Lines
<1> QED
  BY <1>1, <1>2

(* The records of a file, split where the reading ends. *)
Valid(file) == Records(file, Len(file) + 1)

OneEach(file) == \A i \in Valid(file) : \E d \in Calls : file[i].of = {d}

Clean(file) == \A i \in 1 .. Len(file) : file[i].kind # "unreadable"

LEMMA ReadIs ==
  ASSUME NEW file \in Seq(Lines), NEW upto \in 1 .. Len(file) + 1
  PROVE  /\ Records(file, upto) \subseteq Valid(file) /\ Valid(file) \subseteq 1 .. Len(file)
         /\ Records(file, upto) \subseteq Nat
         /\ Broken(file, upto) \subseteq Of(file) /\ Behind(file, upto) \subseteq Of(file)
         /\ \A i \in 1 .. upto - 1 :
              i \in Records(file, upto) \/ file[i].of \subseteq Broken(file, upto)
         /\ \A i \in upto .. Len(file) : file[i].of \subseteq Behind(file, upto)
         /\ upto = Len(file) + 1 => Behind(file, upto) = {}
<1>1. Len(file) \in Nat /\ \A x : x \in Of(file) <=> \E i \in 1 .. Len(file) : x \in file[i].of
  BY OfIs
<1>2. /\ \A i \in 1 .. upto - 1 : i \in 1 .. Len(file)
      /\ \A i \in upto .. Len(file) : i \in 1 .. Len(file)
  BY <1>1
<1>3. /\ Records(file, upto) \subseteq Valid(file) /\ Valid(file) \subseteq 1 .. Len(file)
      /\ Records(file, upto) \subseteq Nat
  BY <1>1 DEF Records, Valid
<1>4. Broken(file, upto) \subseteq Of(file)
  BY <1>1, <1>2 DEF Broken
<1>5. Behind(file, upto) \subseteq Of(file)
  BY <1>1, <1>2 DEF Behind
<1>6. \A i \in 1 .. upto - 1 :
        i \in Records(file, upto) \/ file[i].of \subseteq Broken(file, upto)
  BY DEF Records, Broken
<1>7. \A i \in upto .. Len(file) : file[i].of \subseteq Behind(file, upto)
  BY DEF Behind
<1>8. ASSUME upto = Len(file) + 1 PROVE Behind(file, upto) = {}
  <2>1. upto .. Len(file) = {}
    BY <1>1, <1>8
  <2> QED
    BY <2>1 DEF Behind
<1> QED
  BY <1>3, <1>4, <1>5, <1>6, <1>7, <1>8

(* A line is written: the record is added, what parses is still one record, *)
(* and no line becomes unreadable unless the write breaks a character.     *)
LEMMA WrittenIs ==
  ASSUME active \in Seq(Lines), NEW c \in Calls,
         NEW kind \in {"record", "broken", "unreadable"}, NEW ended \in BOOLEAN,
         OneEach(active)
  PROVE  /\ Written(c, kind, ended) \in Seq(Lines)
         /\ Of(Written(c, kind, ended)) = Of(active) \cup {c}
         /\ OneEach(Written(c, kind, ended))
         /\ Clean(active) /\ kind # "unreadable" => Clean(Written(c, kind, ended))
<1> DEFINE W == Written(c, kind, ended)
           n == Len(active)
<1>0. n \in Nat /\ \A i \in 1 .. n : active[i] \in Lines
  BY ElementIs
<1>1. CASE active # <<>> /\ ~Last(active).ended
  <2> DEFINE damage == IF "unreadable" \in {kind, active[n].kind} THEN "unreadable" ELSE "broken"
             line == Line(damage, ended, active[n].of \cup {c})
  <2>1. n >= 1 /\ active[n] \in Lines
    BY <1>0, <1>1, EmptyIs
  <2>2. W = [active EXCEPT ![n] = line]
    BY <1>1 DEF Written
  <2>3. line \in Lines /\ line.of = active[n].of \cup {c} /\ line.kind = damage
    BY <2>1 DEF Line, Lines
  <2>d. damage # "record"
    OBVIOUS
  <2> HIDE DEF line
  <2>4. /\ W \in Seq(Lines) /\ Len(W) = n
        /\ \A i \in 1 .. n : i # n => W[i] = active[i]
        /\ W[n] = line
    <3>1. DOMAIN active = 1 .. n /\ n \in 1 .. n
      BY <1>0, <2>1, ElementIs
    <3>2. DOMAIN W = 1 .. n /\ \A i \in 1 .. n : W[i] \in Lines
      BY <1>0, <2>2, <2>3, <3>1
    <3>3. W \in [1 .. n -> Lines]
      BY <2>2, <3>1, <3>2
    <3> QED
      BY <1>0, <2>2, <3>1, <3>3
  <2>5. W[n].of = active[n].of \cup {c} /\ W[n].kind = damage
    BY <2>3, <2>4
  <2>6. \A x : x \in Of(W) <=> x \in Of(active) \cup {c}
    <3>1. /\ \A x : x \in Of(active) <=> \E i \in 1 .. n : x \in active[i].of
          /\ n \in 1 .. n
      BY <1>0, <2>1, OfIs
    <3>2. \A x : x \in Of(W) <=> \E i \in 1 .. n : x \in W[i].of
      BY <2>4, OfIs
    <3> HIDE DEF W
    <3> QED
      BY <2>4, <2>5, <3>1, <3>2
  <2>7. \A i \in Valid(W) : i \in Valid(active) /\ W[i].of = active[i].of
    <3> HIDE DEF W, damage
    <3>1. \A i \in 1 .. n : W[i].kind = "record" => i # n
      BY <2>5, <2>d
    <3> QED
      BY <1>0, <2>4, <3>1 DEF Valid, Records
  <2>8. Clean(active) /\ kind # "unreadable" => Clean(W)
    <3> SUFFICES ASSUME Clean(active), kind # "unreadable" PROVE Clean(W)
      OBVIOUS
    <3>1. damage # "unreadable"
      BY <1>0, <2>1 DEF Clean
    <3> HIDE DEF W, damage
    <3> QED
      BY <2>4, <2>5, <3>1 DEF Clean
  <2> HIDE DEF W
  <2> QED
    BY <2>4, <2>6, <2>7, <2>8 DEF W, OneEach
<1>2. CASE ~(active # <<>> /\ ~Last(active).ended)
  <2>1. W = Append(active, Line(kind, ended, {c})) /\ Line(kind, ended, {c}) \in Lines
    BY <1>2 DEF Written, Line, Lines
  <2>2. /\ W \in Seq(Lines) /\ Len(W) = n + 1
        /\ \A i \in 1 .. n : W[i] = active[i]
        /\ W[n + 1].of = {c} /\ W[n + 1].kind = kind
    BY <2>1, AppendIs, ElementIs DEF Line
  <2> HIDE DEF W
  <2>3. \A x : x \in Of(W) <=> x \in Of(active) \cup {c}
    BY <1>0, <2>2, OfIs
  <2>4. \A i \in Valid(W) : (i \in Valid(active) /\ W[i].of = active[i].of) \/ W[i].of = {c}
    BY <1>0, <2>2 DEF Valid, Records
  <2>5. Clean(active) /\ kind # "unreadable" => Clean(W)
    BY <1>0, <2>2 DEF Clean
  <2> QED
    BY <2>2, <2>3, <2>4, <2>5 DEF W, OneEach
<1> QED
  BY <1>1, <1>2

-----------------------------------------------------------------------------
(* The types, part by part. *)
EdgeTyped ==
  /\ edge \in {"up", "draining", "closed", "down"}
  /\ raised \subseteq Calls /\ late \subseteq Calls
  /\ queue \in Seq(Calls) /\ Len(queue) <= QueueMax
  /\ batch \in Seq(Calls) /\ Len(batch) <= BatchMax + QueueMax
  /\ flush \in [phase : {"fill", "send", "spool"}, try : 1..Attempts, done : Nat]
  /\ flush.done <= Len(batch)
  /\ BatchFits
SpoolTyped ==
  /\ active \in Seq(Lines)
  /\ segments \subseteq Seq(Lines)
  /\ replay \in [todo : SUBSET Seq(Lines), file : Seq(Lines), upto : Nat, left : SUBSET Nat]
  /\ replay.left \subseteq Nat
  /\ archived \subseteq Calls /\ unread \subseteq Calls
SinkTyped ==
  /\ sink \in {"nats", "postgres"} /\ sinkUp \in BOOLEAN
  /\ sunk \subseteq Calls /\ stream \subseteq Calls /\ rows \subseteq Calls
WorkerTyped ==
  /\ deliveries \in [Calls -> 0..MaxDeliver]
  /\ handling = NoMessage \/ handling \in [step : {"got", "taken"}, of : Calls]
  /\ inbox \subseteq Calls /\ dlq \subseteq Calls
FaultsTyped ==
  /\ faults \in [{"left", "edge", "append", "read", "worker"} -> 0..MaxFaults]
  /\ FaultsAddUp

Typed == EdgeTyped /\ SpoolTyped /\ SinkTyped /\ WorkerTyped /\ FaultsTyped

LEMMA TypesInParts == Typed <=> TypeOK /\ FaultsAddUp /\ BatchFits
  BY DEF Typed, EdgeTyped, SpoolTyped, SinkTyped, WorkerTyped, FaultsTyped, TypeOK

LEMMA EdgeKept == EdgeTyped /\ UNCHANGED edgeVars => EdgeTyped'
  BY DEF EdgeTyped, edgeVars, BatchFits
LEMMA SpoolKept == SpoolTyped /\ UNCHANGED spoolVars => SpoolTyped'
  BY DEF SpoolTyped, spoolVars
LEMMA SinkKept == SinkTyped /\ UNCHANGED <<sinkVars, stream, rows>> => SinkTyped'
  BY DEF SinkTyped, sinkVars
LEMMA WorkerKept == WorkerTyped /\ UNCHANGED workerVars => WorkerTyped'
  BY DEF WorkerTyped, workerVars

(* A fault is taken from what is left and counted at most once. *)
LEMMA FaultCounted ==
  ASSUME FaultsTyped,
         \/ Fault \/ NoFault
         \/ Costs("edge") \/ Costs("append") \/ Costs("read") \/ Costs("worker")
  PROVE  FaultsTyped'
<1> USE Sizes DEF FaultsTyped, FaultsAddUp
<1> DEFINE Kinds == {"left", "edge", "append", "read", "worker"}
<1>1. CASE Fault
  <2>1. faults.left > 0 /\ faults' = [faults EXCEPT !.left = faults.left - 1]
    BY <1>1 DEF Fault
  <2>2. \A k \in Kinds : faults[k] \in Nat
    OBVIOUS
  <2> QED
    BY <2>1, <2>2
<1>2. CASE NoFault
  BY <1>2 DEF NoFault
<1>3. ASSUME NEW kind \in {"edge", "append", "read", "worker"}, Costs(kind) PROVE FaultsTyped'
  <2>1. /\ faults.left > 0
        /\ faults' = [faults EXCEPT !["left"] = faults["left"] - 1, ![kind] = faults[kind] + 1]
    BY <1>3 DEF Costs
  <2>2. \A k \in Kinds : faults[k] \in Nat
    OBVIOUS
  <2>3. /\ faults'["left"] = faults["left"] - 1 /\ faults'[kind] = faults[kind] + 1
        /\ \A k \in Kinds \ {"left", kind} : faults'[k] = faults[k]
        /\ DOMAIN faults' = Kinds /\ faults' = [k \in Kinds |-> faults'[k]]
    BY <2>1
  <2>4. FaultsAddUp'
    BY <2>2, <2>3
  <2>5. \A k \in Kinds : faults'[k] \in 0 .. MaxFaults
    BY <2>1, <2>2, <2>3
  <2> QED
    BY <2>3, <2>4, <2>5
<1> QED
  BY <1>1, <1>2, <1>3

(* The sink takes a record, the flush ends. *)
LEMMA SunkTyped ==
  ASSUME SinkTyped, NEW c \in Calls, Sunk(c), UNCHANGED <<sink, sinkUp>>
  PROVE  SinkTyped'
  BY DEF SinkTyped, Sunk

LEMMA FlushEndsTyped ==
  ASSUME EdgeTyped, FlushEnds, UNCHANGED <<raised, late>>
  PROVE  EdgeTyped'
<1>1. batch' \in Seq(Calls) /\ Len(batch') = 0
  BY EmptyIs DEF FlushEnds
<1>2. queue' \in Seq(Calls) /\ Len(queue') <= QueueMax
  <2>1. CASE edge = "draining"
    <3>1. queue' = <<>>
      BY <2>1 DEF FlushEnds
    <3>2. <<>> \in Seq(Calls) /\ Len(<<>>) = 0
      BY EmptyIs
    <3> QED
      BY <3>1, <3>2, Sizes
  <2>2. CASE edge # "draining"
    BY <2>2 DEF FlushEnds, EdgeTyped
  <2> QED
    BY <2>1, <2>2
<1>3. /\ flush' \in [phase : {"fill", "send", "spool"}, try : 1..Attempts, done : Nat]
      /\ flush'.done = 0
  BY Sizes DEF FlushEnds, Filling
<1>4. edge' \in {"up", "draining", "closed", "down"}
  BY DEF FlushEnds, EdgeTyped
<1> QED
  BY <1>1, <1>2, <1>3, <1>4, Sizes DEF EdgeTyped, BatchFits

(* What an append leaves in the file. *)
LEMMA AppendIsWritten ==
  ASSUME NEW c, AppendOk(c) \/ AppendFails(c)
  PROVE  \/ UNCHANGED active
         \/ \E kind \in {"record", "broken", "unreadable"}, ended \in BOOLEAN :
              active' = Written(c, kind, ended)
  BY DEF AppendOk, AppendFails

LEMMA AppendTyped ==
  ASSUME SpoolTyped, OneRecordALine, NEW c \in Calls, AppendOk(c) \/ AppendFails(c),
         UNCHANGED <<segments, replay, archived, unread>>
  PROVE  SpoolTyped'
<1>1. OneEach(active)
  BY DEF OneRecordALine, OneEach, Valid
<1>2. \A kind \in {"record", "broken", "unreadable"}, ended \in BOOLEAN :
        Written(c, kind, ended) \in Seq(Lines)
  BY <1>1, WrittenIs DEF SpoolTyped
<1>3. active' \in Seq(Lines)
  BY <1>2, AppendIsWritten DEF SpoolTyped
<1> QED
  BY <1>3 DEF SpoolTyped

(* A line the replay loop has still to send. *)
LEMMA NextOf ==
  ASSUME SpoolTyped, RoundOnSegments, Replaying, NEW i \in NextLines
  PROVE  /\ i \in replay.left /\ i \in Valid(replay.file) /\ i \in 1 .. Len(replay.file)
         /\ replay.file[i].of \subseteq Calls
<1>1. replay.file \in Seq(Lines)
  BY DEF SpoolTyped
<1>2. replay.upto \in 1 .. Len(replay.file) + 1 /\ i \in replay.left
      /\ i \in Records(replay.file, replay.upto)
  BY DEF NextLines, RoundOnSegments, Replaying
<1>3. i \in Valid(replay.file) /\ i \in 1 .. Len(replay.file)
  BY <1>1, <1>2, ReadIs
<1> QED
  BY <1>1, <1>2, <1>3, OfIs

LEMMA StaysTyped ==
  ASSUME Typed, OneRecordALine, RoundOnSegments, [Next]_vars
  PROVE  Typed'
<1> USE DEF Typed
<1>1. ASSUME NEW c \in Calls, Send(c) PROVE Typed'
  <2>1. EdgeTyped'
    <3>1. queue' \in Seq(Calls) /\ Len(queue') <= QueueMax
      <4>1. /\ Append(queue, c) \in Seq(Calls) /\ Len(Append(queue, c)) = Len(queue) + 1
            /\ Len(queue) \in Nat
        BY AppendIs, ElementIs DEF EdgeTyped
      <4>2. CASE edge # "closed" /\ Room
        <5>1. queue' = Append(queue, c) /\ Len(queue) < QueueMax
          BY <1>1, <4>2 DEF Send, Room
        <5> QED
          BY <4>1, <5>1, Sizes
      <4>3. CASE ~(edge # "closed" /\ Room)
        <5>1. queue' = queue
          BY <1>1, <4>3 DEF Send
        <5> QED
          BY <5>1 DEF EdgeTyped
      <4> QED
        BY <4>2, <4>3
    <3>2. /\ UNCHANGED <<edge, batch, flush>> /\ raised' \subseteq Calls
          /\ late' \subseteq Calls
      BY <1>1 DEF Send, EdgeTyped
    <3> QED
      BY <3>1, <3>2 DEF EdgeTyped, BatchFits
  <2>2. SpoolTyped'
    BY <1>1, AppendTyped, SpoolKept DEF Send, spoolVars
  <2>3. FaultsTyped'
    BY <1>1, FaultCounted DEF Send, AppendOk, AppendFails, NoFault
  <2> QED
    BY <1>1, <2>1, <2>2, <2>3, SinkKept, WorkerKept DEF Send, edgeVars, spoolVars, sinkVars, workerVars
<1>2. CASE Take
  <2>1. EdgeTyped'
    BY <1>2, Sizes, AppendIs, TailIs DEF Take, EdgeTyped, BatchFits, Filling
  <2> QED
    BY <1>2, <2>1, SpoolKept, SinkKept, WorkerKept DEF Take, FaultsTyped, FaultsAddUp, edgeVars, spoolVars, sinkVars, workerVars
<1>3. CASE Tick
  <2>1. EdgeTyped'
    BY <1>3, Sizes DEF Tick, EdgeTyped, BatchFits, Filling
  <2> QED
    BY <1>3, <2>1, SpoolKept, SinkKept, WorkerKept DEF Tick, FaultsTyped, FaultsAddUp, edgeVars, spoolVars, sinkVars, workerVars
<1>4. CASE Drain
  <2>1. EdgeTyped'
    BY <1>4, Sizes, JoinIs, EmptyIs DEF Drain, EdgeTyped, BatchFits, Filling
  <2>2. FaultsTyped'
    BY <1>4, FaultCounted DEF Drain
  <2> QED
    BY <1>4, <2>1, <2>2, SpoolKept, SinkKept, WorkerKept DEF Drain, edgeVars, spoolVars, sinkVars, workerVars
<1>5. CASE SendRecord
  <2>1. EdgeTyped'
    BY <1>5 DEF SendRecord, EdgeTyped, BatchFits
  <2>2. SinkTyped'
    BY <1>5, ElementIs, SunkTyped DEF SendRecord, EdgeTyped
  <2> QED
    BY <1>5, <2>1, <2>2, SpoolKept, WorkerKept DEF SendRecord, FaultsTyped, FaultsAddUp, edgeVars, spoolVars, sinkVars, workerVars
<1>6. CASE SendFails
  <2>1. EdgeTyped'
    <3>1. /\ flush \in [phase : {"fill", "send", "spool"}, try : 1..Attempts, done : Nat]
          /\ Len(batch) \in Nat
      BY ElementIs DEF EdgeTyped
    <3>2. \/ /\ flush.try < Attempts
             /\ flush' = [flush EXCEPT !.try = flush.try + 1, !.done = 0]
          \/ flush' = [flush EXCEPT !.phase = "spool", !.done = 0]
      BY <1>6 DEF SendFails, GivenUp
    <3>3. /\ flush' \in [phase : {"fill", "send", "spool"}, try : 1..Attempts, done : Nat]
          /\ flush'.done = 0
      <4>1. /\ flush.phase \in {"fill", "send", "spool"} /\ flush.try \in 1..Attempts
            /\ flush.try \in Nat /\ Attempts \in Nat
        BY <3>1, Sizes
      <4>2. CASE /\ flush.try < Attempts
                 /\ flush' = [flush EXCEPT !.try = flush.try + 1, !.done = 0]
        <5>1. flush.try + 1 \in 1..Attempts
          BY <4>1, <4>2
        <5>2. flush' = [phase |-> flush.phase, try |-> flush.try + 1, done |-> 0]
          BY <3>1, <4>2
        <5> QED
          BY <4>1, <5>1, <5>2
      <4>3. CASE flush' = [flush EXCEPT !.phase = "spool", !.done = 0]
        <5>1. flush' = [phase |-> "spool", try |-> flush.try, done |-> 0]
          BY <3>1, <4>3
        <5> QED
          BY <4>1, <5>1
      <4> QED
        BY <3>2, <4>2, <4>3
    <3>4. UNCHANGED <<edge, raised, queue, batch, late>>
      BY <1>6 DEF SendFails
    <3> QED
      BY <3>1, <3>3, <3>4 DEF EdgeTyped, BatchFits
  <2>2. SinkTyped'
    <3>1. batch[flush.done + 1] \in Calls
      BY <1>6, ElementIs DEF SendFails, EdgeTyped
    <3>2. /\ Sunk(batch[flush.done + 1]) \/ UNCHANGED <<sunk, stream, rows>>
          /\ UNCHANGED <<sink, sinkUp>>
      BY <1>6 DEF SendFails
    <3> QED
      BY <3>1, <3>2, SunkTyped, SinkKept DEF sinkVars
  <2> QED
    BY <1>6, <2>1, <2>2, SpoolKept, WorkerKept DEF SendFails, FaultsTyped, FaultsAddUp, edgeVars, spoolVars, sinkVars, workerVars
<1>7. CASE FlushDone
  <2>1. EdgeTyped'
    BY <1>7, FlushEndsTyped DEF FlushDone
  <2> QED
    BY <1>7, <2>1, SpoolKept, SinkKept, WorkerKept DEF FlushDone, FaultsTyped, FaultsAddUp, edgeVars, spoolVars, sinkVars, workerVars
<1>8. CASE SpoolRecord
  <2>1. EdgeTyped'
    BY <1>8 DEF SpoolRecord, EdgeTyped, BatchFits
  <2>2. SpoolTyped'
    BY <1>8, ElementIs, AppendTyped DEF SpoolRecord, EdgeTyped
  <2>3. FaultsTyped'
    BY <1>8, FaultCounted DEF SpoolRecord, AppendOk
  <2> QED
    BY <1>8, <2>1, <2>2, <2>3, SinkKept, WorkerKept DEF SpoolRecord, edgeVars, spoolVars, sinkVars, workerVars
<1>9. CASE SpoolFails
  <2>1. EdgeTyped'
    BY <1>9, FlushEndsTyped DEF SpoolFails
  <2>2. SpoolTyped'
    BY <1>9, ElementIs, AppendTyped DEF SpoolFails, EdgeTyped
  <2>3. FaultsTyped'
    BY <1>9, FaultCounted DEF SpoolFails, AppendFails
  <2> QED
    BY <1>9, <2>1, <2>2, <2>3, SinkKept, WorkerKept DEF SpoolFails, edgeVars, spoolVars, sinkVars, workerVars
<1>10. CASE Rotate
  <2>1. SpoolTyped'
    BY <1>10, EmptyIs DEF Rotate, SpoolTyped, NoRound
  <2> QED
    BY <1>10, <2>1, EdgeKept, SinkKept, WorkerKept DEF Rotate, FaultsTyped, FaultsAddUp, edgeVars, spoolVars, sinkVars, workerVars
<1>11. ASSUME NEW file \in replay.todo, NEW upto \in 1 .. Len(file) + 1, Read(file, upto)
       PROVE  Typed'
  <2>1. SpoolTyped'
    <3>1. /\ file \in Seq(Lines) /\ Records(file, upto) \subseteq Nat /\ upto \in Nat
          /\ Broken(file, upto) \subseteq Calls /\ Behind(file, upto) \subseteq Calls
      <4>1. file \in Seq(Lines) /\ Len(file) \in Nat
        BY OfIs DEF SpoolTyped
      <4> QED
        BY <4>1, OfIs, ReadIs
    <3>2. archived' \subseteq Calls /\ unread' \subseteq Calls
      BY <1>11, <3>1 DEF Read, SpoolTyped
    <3>3. segments' \subseteq Seq(Lines) /\ UNCHANGED active
      BY <1>11 DEF Read, SpoolTyped
    <3>4. \/ replay' = [replay EXCEPT !.todo = replay.todo \ {file}]
          \/ replay' = [todo |-> replay.todo \ {file}, file |-> file, upto |-> upto,
                        left |-> Records(file, upto)]
      BY <1>11 DEF Read
    <3>5. replay.todo \ {file} \subseteq Seq(Lines)
      BY DEF SpoolTyped
    <3> HIDE DEF Typed
    <3>6. replay' \in [todo : SUBSET Seq(Lines), file : Seq(Lines), upto : Nat, left : SUBSET Nat]
      BY <3>1, <3>4, <3>5 DEF Typed, SpoolTyped
    <3>7. replay'.left \subseteq Nat
      BY <3>6
    <3> QED
      BY <3>2, <3>3, <3>6, <3>7 DEF Typed, SpoolTyped
  <2>2. FaultsTyped'
    BY <1>11, FaultCounted DEF Read, BreaksOff
  <2> QED
    BY <1>11, <2>1, <2>2, EdgeKept, SinkKept, WorkerKept DEF Read, edgeVars, spoolVars, sinkVars, workerVars
<1>26. ASSUME NEW file \in replay.todo, ReadFails(file) PROVE Typed'
  <2>1. SpoolTyped'
    <3>1. file \in Seq(Lines) /\ Len(file) \in Nat /\ Len(file) + 1 \in 1 .. Len(file) + 1
      BY OfIs DEF SpoolTyped
    <3>2. /\ Of(file) \subseteq Calls
          /\ \A upto \in 1 .. Len(file) + 1 : Broken(file, upto) \subseteq Of(file)
      BY <3>1, OfIs, ReadIs
    <3>3. /\ archived' \subseteq Calls /\ unread' \subseteq Calls
          /\ segments' \subseteq Seq(Lines) /\ UNCHANGED active
      BY <1>26, <3>2 DEF ReadFails, SpoolTyped
    <3>4. replay' = [replay EXCEPT !.todo = replay.todo \ {file}]
      BY <1>26 DEF ReadFails
    <3> QED
      BY <3>3, <3>4 DEF SpoolTyped
  <2>2. FaultsTyped'
    BY <1>26, FaultCounted DEF ReadFails
  <2> QED
    BY <1>26, <2>1, <2>2, EdgeKept, SinkKept, WorkerKept DEF ReadFails, edgeVars, spoolVars, sinkVars, workerVars
<1>12. CASE ReplayRecord
  <2>1. SpoolTyped'
    BY <1>12 DEF ReplayRecord, SpoolTyped
  <2>2. SinkTyped'
    <3>1. PICK i \in NextLines : \E c \in replay.file[i].of : Sunk(c)
      BY <1>12 DEF ReplayRecord
    <3>2. replay.file[i].of \subseteq Calls
      BY <1>12, NextOf DEF ReplayRecord
    <3>3. UNCHANGED <<sink, sinkUp>>
      BY <1>12 DEF ReplayRecord
    <3> QED
      BY <3>1, <3>2, <3>3, SunkTyped
  <2> QED
    BY <1>12, <2>1, <2>2, EdgeKept, WorkerKept DEF ReplayRecord, FaultsTyped, FaultsAddUp, edgeVars, spoolVars, sinkVars, workerVars
<1>13. CASE ReplayFails
  <2>1. SpoolTyped'
    BY <1>13, EmptyIs DEF ReplayFails, SpoolTyped, NoRound
  <2>2. SinkTyped'
    <3>1. UNCHANGED <<sink, sinkUp>>
      BY <1>13 DEF ReplayFails
    <3>2. CASE UNCHANGED <<sunk, stream, rows>>
      BY <3>1, <3>2, SinkKept DEF sinkVars
    <3>3. ASSUME NEW i \in NextLines, NEW c \in replay.file[i].of, Sunk(c) PROVE SinkTyped'
      <4>1. c \in Calls
        BY <1>13, NextOf DEF ReplayFails
      <4> QED
        BY <3>1, <3>3, <4>1, SunkTyped
    <3> QED
      BY <1>13, <3>2, <3>3 DEF ReplayFails
  <2> QED
    BY <1>13, <2>1, <2>2, EdgeKept, WorkerKept DEF ReplayFails, FaultsTyped, FaultsAddUp, edgeVars, spoolVars, sinkVars, workerVars
<1>14. CASE ReplayDone
  <2>1. SpoolTyped'
    <3>1. replay.file \in Seq(Lines) /\ replay.todo \subseteq Seq(Lines)
      BY DEF SpoolTyped
    <3>2. Replaying /\ replay.upto \in 1 .. Len(replay.file) + 1
      BY <1>14 DEF ReplayDone, RoundOnSegments, Replaying
    <3>3. Behind(replay.file, replay.upto) \subseteq Calls
      BY <3>1, <3>2, OfIs, ReadIs
    <3>4. /\ unread' \subseteq Calls /\ segments' \subseteq Seq(Lines)
          /\ UNCHANGED <<active, archived>>
      BY <1>14, <3>3 DEF ReplayDone, SpoolTyped
    <3>5. replay' = [todo |-> replay.todo, file |-> <<>>, upto |-> 0, left |-> {}]
      BY <1>14 DEF ReplayDone, NoRound
    <3> QED
      BY <3>1, <3>4, <3>5, EmptyIs DEF SpoolTyped
  <2>2. FaultsTyped'
    BY <1>14, FaultCounted DEF ReplayDone
  <2> QED
    BY <1>14, <2>1, <2>2, EdgeKept, SinkKept, WorkerKept DEF ReplayDone, edgeVars, spoolVars, sinkVars, workerVars
<1>15. CASE EdgeStops
  <2>1. EdgeTyped'
    BY <1>15, Sizes, EmptyIs DEF EdgeStops, EdgeTyped, BatchFits, Filling
  <2>2. SpoolTyped'
    BY <1>15, EmptyIs DEF EdgeStops, SpoolTyped, NoRound
  <2>3. FaultsTyped'
    BY <1>15, FaultCounted DEF EdgeStops
  <2> QED
    BY <1>15, <2>1, <2>2, <2>3, SinkKept, WorkerKept DEF EdgeStops, edgeVars, spoolVars, sinkVars, workerVars
<1>16. CASE EdgeStarts
  <2>1. EdgeTyped'
    BY <1>16 DEF EdgeStarts, EdgeTyped, BatchFits
  <2>2. SinkTyped'
    BY <1>16 DEF EdgeStarts, SinkTyped
  <2> QED
    BY <1>16, <2>1, <2>2, SpoolKept, WorkerKept DEF EdgeStarts, FaultsTyped, FaultsAddUp, edgeVars, spoolVars, sinkVars, workerVars
<1>17. CASE SinkFails
  <2>1. SinkTyped'
    BY <1>17 DEF SinkFails, SinkTyped
  <2>2. FaultsTyped'
    BY <1>17, FaultCounted DEF SinkFails
  <2> QED
    BY <1>17, <2>1, <2>2, EdgeKept, SpoolKept, WorkerKept DEF SinkFails, edgeVars, spoolVars, sinkVars, workerVars
<1>18. CASE SinkReturns
  <2>1. SinkTyped'
    BY <1>18 DEF SinkReturns, SinkTyped
  <2> QED
    BY <1>18, <2>1, EdgeKept, SpoolKept, WorkerKept DEF SinkReturns, FaultsTyped, FaultsAddUp, edgeVars, spoolVars, sinkVars, workerVars
<1>19. ASSUME NEW c \in Calls, Deliver(c) PROVE Typed'
  <2>1. WorkerTyped'
    BY <1>19, Sizes DEF Deliver, WorkerTyped, NoMessage
  <2> QED
    BY <1>19, <2>1, EdgeKept, SpoolKept, SinkKept DEF Deliver, FaultsTyped, FaultsAddUp, edgeVars, spoolVars, sinkVars, workerVars
<1>20. CASE Handle
  <2>1. WorkerTyped'
    BY <1>20 DEF Handle, WorkerTyped, NoMessage
  <2> QED
    BY <1>20, <2>1, EdgeKept, SpoolKept, SinkKept DEF Handle, FaultsTyped, FaultsAddUp, edgeVars, spoolVars, sinkVars, workerVars
<1>21. CASE Bury
  <2>1. WorkerTyped'
    BY <1>21 DEF Bury, WorkerTyped, NoMessage
  <2>2. FaultsTyped'
    BY <1>21, FaultCounted DEF Bury
  <2> QED
    BY <1>21, <2>1, <2>2, EdgeKept, SpoolKept, SinkKept DEF Bury, edgeVars, spoolVars, sinkVars, workerVars
<1>22. CASE Ack
  <2>1. SinkTyped'
    BY <1>22 DEF Ack, SinkTyped, sinkVars
  <2>2. WorkerTyped'
    BY <1>22, Sizes DEF Ack, WorkerTyped, NoMessage
  <2>3. FaultsTyped'
    BY <1>22, FaultCounted DEF Ack
  <2> QED
    BY <1>22, <2>1, <2>2, <2>3, EdgeKept, SpoolKept DEF Ack, edgeVars, spoolVars, sinkVars, workerVars
<1>23. ASSUME NEW S \in SUBSET inbox, Insert(S) PROVE Typed'
  <2>1. SinkTyped'
    BY <1>23 DEF Insert, SinkTyped, WorkerTyped, sinkVars
  <2>2. WorkerTyped'
    BY <1>23 DEF Insert, WorkerTyped
  <2>3. FaultsTyped'
    BY <1>23, FaultCounted DEF Insert
  <2> QED
    BY <1>23, <2>1, <2>2, <2>3, EdgeKept, SpoolKept DEF Insert, edgeVars, spoolVars, sinkVars, workerVars
<1>24. CASE WorkerRestarts
  <2>1. WorkerTyped'
    BY <1>24 DEF WorkerRestarts, WorkerTyped, NoMessage
  <2>2. FaultsTyped'
    BY <1>24, FaultCounted DEF WorkerRestarts
  <2> QED
    BY <1>24, <2>1, <2>2, EdgeKept, SpoolKept, SinkKept DEF WorkerRestarts, edgeVars, spoolVars, sinkVars, workerVars
<1>25. CASE UNCHANGED vars
  <2> QED
    BY <1>25, EdgeKept, SpoolKept, SinkKept, WorkerKept DEF vars, FaultsTyped, FaultsAddUp, edgeVars, spoolVars, sinkVars, workerVars
<1> QED
  BY <1>1, <1>2, <1>3, <1>4, <1>5, <1>6, <1>7, <1>8, <1>9, <1>10, <1>11, <1>12, <1>13, <1>14,
     <1>15, <1>16, <1>17, <1>18, <1>19, <1>20, <1>21, <1>22, <1>23, <1>24, <1>25, <1>26
     DEF Next, Flushing, Replay, Worker
-----------------------------------------------------------------------------
(* What a step does to the log. *)
OnLog == [Log!LogNext]_<<Memory, Spooled, sunk, archived, unread>> /\ OnlyRaised'

LEMMA LogStays ==
  ASSUME OnlyRaised, UNCHANGED <<sunk, archived, unread>>, raised \subseteq raised',
         Memory' = Memory, Spooled' = Spooled
  PROVE  OnLog
  BY DEF OnLog, OnlyRaised

LEMMA LogLoses ==
  ASSUME OnlyRaised, UNCHANGED <<sunk, archived, unread, raised>>,
         Memory' \subseteq Memory, Spooled' = Spooled
  PROVE  OnLog
  BY DEF OnLog, OnlyRaised, Log!LogNext, Log!Lose

LEMMA LogStores ==
  ASSUME OnlyRaised, UNCHANGED <<archived, unread, raised>>, NEW c \in Calls,
         c \in Memory \cup Spooled, Sunk(c), Memory' = Memory, Spooled' = Spooled
  PROVE  OnLog
  BY DEF OnLog, OnlyRaised, Log!LogNext, Log!Store, Sunk

LEMMA LogSaves ==
  ASSUME OnlyRaised, UNCHANGED <<sunk, archived, unread, raised>>, NEW c \in Calls, c \in Memory,
         Memory' \subseteq Memory, Spooled' \in {Spooled, Spooled \cup {c}}
  PROVE  OnLog
<1>1. CASE Spooled' = Spooled
  BY <1>1, LogLoses
<1>2. CASE Spooled' = Spooled \cup {c}
  BY <1>2 DEF OnLog, OnlyRaised, Log!LogNext, Log!Save
<1> QED
  BY <1>1, <1>2

LEMMA LogAccepts ==
  ASSUME OnlyRaised, UNCHANGED <<sunk, archived, unread>>, NEW c \in Calls, c \notin raised,
         raised' = raised \cup {c},
         \/ Memory' = Memory \cup {c} /\ Spooled' = Spooled
         \/ Memory' = Memory /\ Spooled' \in {Spooled, Spooled \cup {c}}
  PROVE  OnLog
<1>1. c \notin Memory \cup Spooled \cup sunk \cup archived \cup unread
  BY DEF OnlyRaised
<1>2. CASE Memory' = Memory /\ Spooled' = Spooled
  BY <1>2, LogStays
<1>3. CASE \/ Memory' = Memory \cup {c} /\ Spooled' = Spooled
           \/ Memory' = Memory /\ Spooled' = Spooled \cup {c}
  BY <1>1, <1>3 DEF OnLog, OnlyRaised, Log!LogNext, Log!Accept
<1> QED
  BY <1>2, <1>3

LEMMA LogForgets ==
  ASSUME OnlyRaised, UNCHANGED <<sunk, raised>>, Memory' = Memory,
         NEW S \in SUBSET Spooled, archived' = archived \cup S,
         NEW T \in SUBSET Spooled, unread' = unread \cup T, T = {} \/ Damaged',
         Spooled' \subseteq Spooled, Spooled \ Spooled' \subseteq sunk \cup archived' \cup unread'
  PROVE  OnLog
<1>1. Spooled' = Spooled \ (Spooled \ Spooled')
  OBVIOUS
<1>2. Spooled \ Spooled' \in SUBSET (sunk \cup archived' \cup unread')
  OBVIOUS
<1>3. T \in IF Damaged' THEN SUBSET Spooled ELSE {{}}
  OBVIOUS
<1>4. Log!Forget
  BY <1>1, <1>2, <1>3 DEF Log!Forget
<1>5. OnlyRaised'
  BY DEF OnlyRaised
<1> QED
  BY <1>4, <1>5 DEF OnLog, Log!LogNext

LEMMA LogArchives ==
  ASSUME OnlyRaised, UNCHANGED <<sunk, unread, raised>>, Memory' = Memory,
         NEW S \in SUBSET Spooled, archived' = archived \cup S,
         Spooled' \subseteq Spooled, Spooled \ Spooled' \subseteq sunk \cup archived'
  PROVE  OnLog
<1> DEFINE T == {}
<1>1. T \in SUBSET Spooled /\ unread' = unread \cup T /\ T = {}
  OBVIOUS
<1>2. Spooled \ Spooled' \subseteq sunk \cup archived' \cup unread'
  OBVIOUS
<1> HIDE DEF T
<1> QED
  BY <1>1, <1>2, LogForgets

(* What the parts of a step do to memory and spool. *)
LEMMA MemoryKept == UNCHANGED <<queue, batch>> => Memory' = Memory
  BY DEF Memory
LEMMA SpooledKept == UNCHANGED <<active, segments>> => Spooled' = Spooled
  BY DEF Spooled

LEMMA FlushForgets ==
  ASSUME FlushEnds
  PROVE  Memory' \subseteq Memory
<1>1. batch' = <<>> /\ (queue' = <<>> \/ queue' = queue)
  BY DEF FlushEnds
<1>2. ToSet(<<>>) = {}
  BY EmptyIs
<1>3. Memory' = ToSet(queue') \cup ToSet(batch')
  BY DEF Memory
<1>4. CASE queue' = <<>>
  BY <1>1, <1>2, <1>3, <1>4
<1>5. CASE queue' = queue
  BY <1>1, <1>2, <1>3, <1>5 DEF Memory
<1> QED
  BY <1>1, <1>4, <1>5

LEMMA InBatch ==
  ASSUME EdgeTyped, flush.done < Len(batch)
  PROVE  batch[flush.done + 1] \in Calls /\ batch[flush.done + 1] \in Memory
<1>1. flush.done + 1 \in 1 .. Len(batch)
  BY ElementIs DEF EdgeTyped
<1>2. batch[flush.done + 1] \in Calls /\ batch[flush.done + 1] \in ToSet(batch)
  BY <1>1, ElementIs DEF EdgeTyped
<1> QED
  BY <1>2 DEF Memory

LEMMA AppendSpools ==
  ASSUME SpoolTyped, OneRecordALine, NEW c \in Calls, AppendOk(c) \/ AppendFails(c),
         UNCHANGED segments
  PROVE  Spooled' \in {Spooled, Spooled \cup {c}} /\ OneRecordALine'
<1>1. active \in Seq(Lines) /\ \A file \in segments \cup {active} : OneEach(file)
  BY DEF SpoolTyped, OneRecordALine, OneEach, Valid
<1>2. \A kind \in {"record", "broken", "unreadable"}, ended \in BOOLEAN :
        /\ Of(Written(c, kind, ended)) = Of(active) \cup {c}
        /\ OneEach(Written(c, kind, ended))
  BY <1>1, WrittenIs
<1>3. PICK A : A = active'
  OBVIOUS
<1>4. \/ A = active
      \/ \E kind \in {"record", "broken", "unreadable"}, ended \in BOOLEAN :
           A = Written(c, kind, ended)
  BY <1>3, AppendIsWritten
<1>5. Of(A) \in {Of(active), Of(active) \cup {c}} /\ OneEach(A)
  BY <1>1, <1>2, <1>4
<1>6. Spooled' = Of(A) \cup UNION {Of(file) : file \in segments}
  BY <1>3 DEF Spooled
<1>7. \A file \in segments' \cup {active'} : OneEach(file)
  BY <1>1, <1>3, <1>5
<1> QED
  BY <1>5, <1>6, <1>7 DEF Spooled, OneRecordALine, OneEach, Valid

LEMMA LinesKept == OneRecordALine /\ UNCHANGED <<active, segments>> => OneRecordALine'
  BY DEF OneRecordALine, Records

LEMMA RoundKept ==
  ASSUME RoundOnSegments, UNCHANGED <<segments, replay>>,
         sunk \subseteq sunk', archived \subseteq archived'
  PROVE  RoundOnSegments'
<1>1. replay' = replay /\ segments' = segments
  OBVIOUS
<1>2. Records(replay'.file, replay'.upto) = Records(replay.file, replay.upto)
  BY <1>1
<1> QED
  BY <1>1, <1>2 DEF RoundOnSegments, Records

(* A segment is removed from the spool. *)
LEMMA SegmentGoes ==
  ASSUME NEW file \in segments, segments' = segments \ {file}, UNCHANGED active
  PROVE  /\ Spooled' \subseteq Spooled /\ Spooled \ Spooled' \subseteq Of(file)
         /\ OneRecordALine => OneRecordALine'
<1>1. Spooled' = Of(active) \cup UNION {Of(f) : f \in segments \ {file}}
  BY DEF Spooled
<1>2. Spooled' \subseteq Spooled /\ Spooled \ Spooled' \subseteq Of(file)
  BY <1>1 DEF Spooled
<1>3. OneRecordALine => OneRecordALine'
  BY DEF OneRecordALine, Records
<1> QED
  BY <1>2, <1>3

LEMMA OfSegment ==
  ASSUME NEW file \in segments
  PROVE  Of(file) \subseteq Spooled
  BY DEF Spooled

(* Damage of the disk is counted, and stays. *)
LEMMA StepCharges ==
  ASSUME [Next]_vars
  PROVE  \/ NoFault \/ Fault
         \/ Costs("edge") \/ Costs("append") \/ Costs("read") \/ Costs("worker")
  BY DEF Next, Flushing, Replay, Worker, Send, Take, Tick, Drain, SendRecord, SendFails, FlushDone,
         SpoolRecord, SpoolFails, AppendOk, AppendFails, Rotate, Read, BreaksOff, ReadFails,
         ReplayRecord, ReplayFails, ReplayDone, EdgeStops, EdgeStarts, SinkFails, SinkReturns,
         Deliver, Handle, Bury, Ack, Insert, WorkerRestarts, vars, NoFault

LEMMA DamageCounted ==
  ASSUME FaultsTyped
  PROVE  /\ Costs("append") \/ Costs("read") => Damaged'
         /\ NoFault \/ Fault \/ Costs("edge") \/ Costs("worker") => Damaged' = Damaged
<1>1. /\ faults.append \in Nat /\ faults.read \in Nat
      /\ faults = [k \in {"left", "edge", "append", "read", "worker"} |-> faults[k]]
  BY Sizes DEF FaultsTyped
<1>2. ASSUME Costs("append") \/ Costs("read") PROVE Damaged'
  <2>1. \/ faults'.append = faults.append + 1 /\ faults'.read = faults.read
        \/ faults'.append = faults.append /\ faults'.read = faults.read + 1
    BY <1>1, <1>2 DEF Costs
  <2> QED
    BY <1>1, <2>1 DEF Damaged
<1>3. ASSUME NoFault \/ Fault \/ Costs("edge") \/ Costs("worker") PROVE Damaged' = Damaged
  <2>1. faults'.append = faults.append /\ faults'.read = faults.read
    BY <1>1, <1>3 DEF NoFault, Fault, Costs
  <2> QED
    BY <2>1 DEF Damaged
<1> QED
  BY <1>2, <1>3

LEMMA DamageStays ==
  ASSUME FaultsTyped, [Next]_vars, Damaged
  PROVE  Damaged'
  BY StepCharges, DamageCounted

(* A file is read to its end unless the disk has failed. *)
LEMMA ReadToItsEnd ==
  ASSUME Typed, RoundOnSegments, DamageHasACause,
         NEW file \in replay.todo, NEW upto \in 1 .. Len(file) + 1, Read(file, upto)
  PROVE  Damaged' \/ upto = Len(file) + 1
<1>1. file \in segments /\ file \in Seq(Lines) /\ Len(file) \in Nat /\ FaultsTyped
  BY ElementIs DEF RoundOnSegments, Typed, SpoolTyped
<1>2. CASE Costs("read")
  BY <1>1, <1>2, DamageCounted
<1>3. CASE NoFault /\ upto <= Len(file) /\ file[upto].kind = "unreadable"
  <2>1. upto \in 1 .. Len(file)
    BY <1>1, <1>3
  <2>2. Damaged
    BY <1>1, <1>3, <2>1 DEF DamageHasACause
  <2> QED
    BY <1>1, <1>3, <2>2, DamageCounted
<1> QED
  BY <1>2, <1>3 DEF Read, BreaksOff

LEMMA CauseStep ==
  ASSUME Typed, OneRecordALine, RoundOnSegments, DamageHasACause, [Next]_vars
  PROVE  DamageHasACause'
<1> SUFFICES ASSUME ~Damaged' PROVE DamageHasACause'
  BY DEF DamageHasACause
<1>t. SpoolTyped /\ FaultsTyped
  BY DEF Typed
<1>o. /\ ~Damaged /\ ~Costs("append")
      /\ \A file \in segments \cup {active} : Clean(file)
      /\ replay.file # <<>> => replay.upto = Len(replay.file) + 1
      /\ unread = {}
  <2>1. ~Damaged
    BY <1>t, DamageStays
  <2>2. ~Costs("append")
    BY <1>t, DamageCounted
  <2> QED
    BY <2>1, <2>2 DEF DamageHasACause, Clean
<1>n. ASSUME \A file \in segments' \cup {active'} : Clean(file), unread' = {},
             \/ replay'.file = <<>>
             \/ replay'.file = replay.file /\ replay'.upto = replay.upto /\ replay.file # <<>>
             \/ replay'.upto = Len(replay'.file) + 1
      PROVE  DamageHasACause'
  BY <1>n, <1>o DEF DamageHasACause, Clean
<1>a. ASSUME NEW c \in Calls, AppendOk(c) \/ AppendFails(c), UNCHANGED <<segments, replay, unread>>
      PROVE  DamageHasACause'
  <2>1. active' = Written(c, "record", TRUE)
    BY <1>a, <1>o DEF AppendOk, AppendFails
  <2>2. OneEach(active)
    BY DEF OneRecordALine, OneEach, Valid
  <2>3. Clean(active) => Clean(Written(c, "record", TRUE))
    BY <1>t, <2>2, WrittenIs DEF SpoolTyped
  <2>4. \A file \in segments' \cup {active'} : Clean(file)
    BY <1>a, <1>o, <2>1, <2>3
  <2> QED
    BY <1>a, <1>n, <1>o, <2>4
<1>u. ASSUME UNCHANGED <<active, segments, replay, unread>>
      PROVE  DamageHasACause'
  BY <1>n, <1>o, <1>u
<1>1. ASSUME NEW c \in Calls, Send(c) PROVE DamageHasACause'
  <2>1. UNCHANGED active \/ AppendOk(c) \/ AppendFails(c)
    BY <1>1 DEF Send
  <2>2. UNCHANGED <<segments, replay, unread>>
    BY <1>1 DEF Send
  <2> QED
    BY <1>a, <1>u, <2>1, <2>2
<1>2. CASE SpoolRecord \/ SpoolFails
  <2>1. /\ flush.done < Len(batch) /\ UNCHANGED <<segments, replay, unread>>
        /\ AppendOk(batch[flush.done + 1]) \/ AppendFails(batch[flush.done + 1])
    BY <1>2 DEF SpoolRecord, SpoolFails
  <2>2. batch[flush.done + 1] \in Calls
    BY <2>1, InBatch DEF Typed
  <2> QED
    BY <1>a, <2>1, <2>2
<1>3. CASE Rotate
  <2>1. /\ active' = <<>> /\ replay'.file = <<>> /\ unread' = unread
        /\ segments' \subseteq segments \cup {active}
    BY <1>3 DEF Rotate, NoRound
  <2>2. Clean(<<>>)
    BY EmptyIs DEF Clean
  <2> QED
    BY <1>n, <1>o, <2>1, <2>2
<1>4. ASSUME NEW file \in replay.todo, NEW upto \in 1 .. Len(file) + 1, Read(file, upto)
      PROVE  DamageHasACause'
  <2>1. upto = Len(file) + 1
    BY <1>4, ReadToItsEnd
  <2>2. file \in Seq(Lines) /\ Behind(file, upto) = {}
    BY <1>t, <1>4, <2>1, ReadIs DEF SpoolTyped
  <2>3. /\ UNCHANGED active /\ segments' \subseteq segments /\ unread' = {} /\ replay.file = <<>>
        /\ \/ replay' = [replay EXCEPT !.todo = replay.todo \ {file}]
           \/ replay' = [todo |-> replay.todo \ {file}, file |-> file, upto |-> upto,
                         left |-> Records(file, upto)]
    BY <1>4, <1>o, <2>2 DEF Read
  <2>4. replay'.file = <<>> \/ replay'.upto = Len(replay'.file) + 1
    BY <1>t, <2>1, <2>3 DEF SpoolTyped
  <2> QED
    BY <1>n, <1>o, <2>3, <2>4
<1>5. ASSUME NEW file \in replay.todo, ReadFails(file) PROVE DamageHasACause'
  <2>1. /\ UNCHANGED <<active, unread>> /\ segments' \subseteq segments /\ replay.file = <<>>
        /\ replay' = [replay EXCEPT !.todo = replay.todo \ {file}]
    BY <1>5 DEF ReadFails
  <2>2. replay'.file = <<>>
    BY <1>t, <2>1 DEF SpoolTyped
  <2> QED
    BY <1>n, <1>o, <2>1, <2>2
<1>6. CASE ReplayRecord
  <2>1. /\ UNCHANGED <<active, segments, unread>> /\ replay.file # <<>>
        /\ \E i \in NextLines : replay' = [replay EXCEPT !.left = replay.left \ {i}]
    BY <1>6 DEF ReplayRecord, Replaying
  <2>2. replay'.file = replay.file /\ replay'.upto = replay.upto
    BY <1>t, <2>1 DEF SpoolTyped
  <2> QED
    BY <1>n, <1>o, <2>1, <2>2
<1>7. CASE ReplayFails \/ EdgeStops
  <2>1. UNCHANGED <<active, segments, unread>> /\ replay'.file = <<>>
    BY <1>7 DEF ReplayFails, EdgeStops, NoRound
  <2> QED
    BY <1>n, <1>o, <2>1
<1>8. CASE ReplayDone
  <2>1. /\ replay.file \in Seq(Lines) /\ Len(replay.file) + 1 \in 1 .. Len(replay.file) + 1
        /\ replay.upto = Len(replay.file) + 1
    BY <1>t, <1>8, <1>o, ElementIs DEF ReplayDone, Replaying, SpoolTyped
  <2>2. Behind(replay.file, replay.upto) = {}
    BY <2>1, ReadIs
  <2>3. /\ UNCHANGED active /\ segments' \subseteq segments /\ unread' = {} /\ replay'.file = <<>>
    BY <1>8, <1>o, <2>2 DEF ReplayDone, NoRound
  <2> QED
    BY <1>n, <1>o, <2>3
<1>9. CASE \/ Take \/ Tick \/ Drain \/ SendRecord \/ SendFails \/ FlushDone
           \/ EdgeStarts \/ SinkFails \/ SinkReturns \/ Worker \/ WorkerRestarts
           \/ UNCHANGED vars
  <2>1. UNCHANGED <<active, segments, replay, unread>>
    BY <1>9 DEF Take, Tick, Drain, SendRecord, SendFails, FlushDone, EdgeStarts, SinkFails,
                SinkReturns, Worker, Deliver, Handle, Bury, Ack, Insert, WorkerRestarts, vars,
                spoolVars
  <2> QED
    BY <1>u, <2>1
<1> QED
  BY <1>1, <1>2, <1>3, <1>4, <1>5, <1>6, <1>7, <1>8, <1>9 DEF Next, Flushing, Replay

(* Every step is one of the log, and keeps lines and replay round in order. *)
LEMMA StepOnLog ==
  ASSUME Typed, OnlyRaised, OneRecordALine, RoundOnSegments, DamageHasACause, [Next]_vars
  PROVE  OnLog /\ OneRecordALine' /\ RoundOnSegments'
<1>t. EdgeTyped /\ SpoolTyped /\ SinkTyped /\ WorkerTyped
  BY DEF Typed
<1>1. ASSUME NEW c \in Calls, Send(c) PROVE OnLog /\ OneRecordALine' /\ RoundOnSegments'
  <2>1. /\ UNCHANGED <<batch, segments, replay, archived, unread, sunk>>
        /\ c \notin raised /\ raised' = raised \cup {c}
    BY <1>1 DEF Send, sinkVars
  <2>2. CASE edge # "closed" /\ Room
    <3>1. queue' = Append(queue, c) /\ UNCHANGED active
      BY <1>1, <2>2 DEF Send
    <3>2. ToSet(queue') = ToSet(queue) \cup {c}
      BY <1>t, <3>1, AppendIs DEF EdgeTyped
    <3>3. Memory' = Memory \cup {c}
      BY <2>1, <3>2 DEF Memory
    <3>4. Spooled' = Spooled /\ OneRecordALine'
      BY <2>1, <3>1, SpooledKept, LinesKept
    <3> QED
      BY <2>1, <3>3, <3>4, LogAccepts, RoundKept
  <2>3. CASE ~(edge # "closed" /\ Room)
    <3>1. UNCHANGED queue /\ (AppendOk(c) \/ AppendFails(c))
      BY <1>1, <2>3 DEF Send
    <3>2. Spooled' \in {Spooled, Spooled \cup {c}} /\ OneRecordALine'
      BY <1>t, <2>1, <3>1, AppendSpools
    <3>3. Memory' = Memory
      BY <2>1, <3>1, MemoryKept
    <3> QED
      BY <2>1, <3>2, <3>3, LogAccepts, RoundKept
  <2> QED
    BY <2>2, <2>3
<1>2. CASE Take
  <2>1. /\ UNCHANGED <<active, segments, replay, archived, unread, sunk, raised>>
        /\ queue # <<>> /\ batch' = Append(batch, Head(queue)) /\ queue' = Tail(queue)
    BY <1>2 DEF Take, spoolVars, sinkVars
  <2>2. /\ Head(queue) \in Calls
        /\ ToSet(queue) = ToSet(Tail(queue)) \cup {Head(queue)}
    BY <1>t, <2>1, TailIs DEF EdgeTyped
  <2>3. ToSet(Append(batch, Head(queue))) = ToSet(batch) \cup {Head(queue)}
    BY <1>t, <2>2, AppendIs DEF EdgeTyped
  <2>4. Memory' = Memory
    <3>1. Memory' = ToSet(Tail(queue)) \cup ToSet(Append(batch, Head(queue)))
      BY <2>1 DEF Memory
    <3> QED
      BY <2>2, <2>3, <3>1 DEF Memory
  <2> QED
    BY <2>1, <2>4, SpooledKept, LogStays, LinesKept, RoundKept
<1>3. CASE Drain
  <2>1. /\ UNCHANGED <<active, segments, replay, archived, unread, sunk, raised>>
        /\ batch' = batch \o queue /\ queue' = <<>>
    BY <1>3 DEF Drain, spoolVars, sinkVars
  <2>2. ToSet(batch \o queue) = ToSet(batch) \cup ToSet(queue) /\ ToSet(<<>>) = {}
    BY <1>t, JoinIs, EmptyIs DEF EdgeTyped
  <2>3. Memory' = Memory
    <3>1. Memory' = ToSet(<<>>) \cup ToSet(batch \o queue)
      BY <2>1 DEF Memory
    <3> QED
      BY <2>2, <3>1 DEF Memory
  <2> QED
    BY <2>1, <2>3, SpooledKept, LogStays, LinesKept, RoundKept
<1>4. CASE SendRecord \/ SendFails
  <2>1. /\ UNCHANGED <<queue, batch, active, segments, replay, archived, unread, raised>>
        /\ flush.done < Len(batch)
        /\ Sunk(batch[flush.done + 1]) \/ UNCHANGED sunk
    BY <1>4 DEF SendRecord, SendFails, spoolVars
  <2>2. Memory' = Memory /\ Spooled' = Spooled
    BY <2>1, MemoryKept, SpooledKept
  <2>3. CASE Sunk(batch[flush.done + 1])
    <3>1. batch[flush.done + 1] \in Calls /\ batch[flush.done + 1] \in Memory
      BY <1>t, <2>1, InBatch
    <3>2. OnLog /\ sunk \subseteq sunk'
      BY <2>1, <2>2, <2>3, <3>1, LogStores DEF Sunk
    <3> QED
      BY <2>1, <3>2, LinesKept, RoundKept
  <2>4. CASE UNCHANGED sunk
    BY <2>1, <2>2, <2>4, LogStays, LinesKept, RoundKept
  <2> QED
    BY <2>1, <2>3, <2>4
<1>5. CASE FlushDone
  <2>1. UNCHANGED <<active, segments, replay, archived, unread, sunk, raised>> /\ FlushEnds
    BY <1>5 DEF FlushDone, spoolVars, sinkVars
  <2> QED
    BY <2>1, FlushForgets, SpooledKept, LogLoses, LinesKept, RoundKept
<1>6. CASE SpoolRecord \/ SpoolFails
  <2>1. /\ UNCHANGED <<segments, replay, archived, unread, sunk, raised>>
        /\ flush.done < Len(batch)
        /\ AppendOk(batch[flush.done + 1]) \/ AppendFails(batch[flush.done + 1])
    BY <1>6 DEF SpoolRecord, SpoolFails, sinkVars
  <2>2. Memory' \subseteq Memory
    BY <1>6, MemoryKept, FlushForgets DEF SpoolRecord, SpoolFails
  <2>3. batch[flush.done + 1] \in Calls /\ batch[flush.done + 1] \in Memory
    BY <1>t, <2>1, InBatch
  <2>4. /\ Spooled' \in {Spooled, Spooled \cup {batch[flush.done + 1]}}
        /\ OneRecordALine'
    BY <1>t, <2>1, <2>3, AppendSpools
  <2> QED
    BY <2>1, <2>2, <2>3, <2>4, LogSaves, RoundKept
<1>7. CASE Rotate
  <2>1. /\ UNCHANGED <<queue, batch, archived, unread, sunk, raised>> /\ active' = <<>>
        /\ segments' = IF active = <<>> THEN segments ELSE segments \cup {active}
        /\ replay' = [NoRound EXCEPT !.todo = segments']
    BY <1>7 DEF Rotate, edgeVars, sinkVars
  <2>2. Of(<<>>) = {} /\ DOMAIN <<>> = {}
    BY EmptyIs DEF Of
  <2>3. Spooled' = Spooled
    <3>1. Spooled' = UNION {Of(file) : file \in segments'}
      BY <2>1, <2>2 DEF Spooled
    <3> QED
      BY <2>1, <2>2, <3>1 DEF Spooled
  <2>4. OneRecordALine'
    <3>1. Valid(<<>>) = {}
      BY EmptyIs DEF Valid, Records
    <3>2. OneEach(<<>>) /\ \A file \in segments \cup {active} : OneEach(file)
      BY <3>1 DEF OneRecordALine, OneEach, Valid
    <3>3. \A file \in segments' \cup {active'} : OneEach(file)
      BY <2>1, <3>2
    <3> QED
      BY <3>3 DEF OneRecordALine, OneEach, Valid
  <2>5. RoundOnSegments'
    BY <2>1 DEF RoundOnSegments, NoRound
  <2> QED
    BY <2>1, <2>3, <2>4, <2>5, MemoryKept, LogStays
<1>8. ASSUME NEW file \in replay.todo, NEW upto \in 1 .. Len(file) + 1, Read(file, upto)
      PROVE  OnLog /\ OneRecordALine' /\ RoundOnSegments'
  <2> DEFINE B == Broken(file, upto)
             T == Behind(file, upto)
             R == Records(file, upto)
  <2>1. /\ UNCHANGED <<queue, batch, active, sunk, raised>> /\ archived' = archived \cup B
        /\ file \in segments /\ file \in Seq(Lines) /\ replay.file = <<>>
    BY <1>t, <1>8 DEF Read, edgeVars, sinkVars, RoundOnSegments, SpoolTyped
  <2>2. /\ \A x : x \in Of(file) <=> \E i \in 1 .. Len(file) : x \in file[i].of
        /\ Len(file) \in Nat
    BY <2>1, OfIs
  <2>3. /\ B \subseteq Of(file) /\ T \subseteq Of(file)
        /\ \A i \in 1 .. upto - 1 : i \in R \/ file[i].of \subseteq B
        /\ \A i \in upto .. Len(file) : file[i].of \subseteq T
        /\ upto = Len(file) + 1 => T = {}
    BY <2>1, ReadIs
  <2>4. /\ B \subseteq Spooled /\ T \subseteq Spooled /\ {} \subseteq Spooled
        /\ T = {} \/ Damaged'
    BY <1>8, <2>1, <2>3, OfSegment, ReadToItsEnd
  <2>5. CASE R = {}
    <3>1. /\ segments' = segments \ {file} /\ unread' = unread \cup T
          /\ replay' = [replay EXCEPT !.todo = replay.todo \ {file}]
      BY <1>8, <2>5 DEF Read
    <3>2. Of(file) \subseteq B \cup T
      <4>1. \A i \in 1 .. Len(file) : i \in 1 .. upto - 1 \/ i \in upto .. Len(file)
        BY <2>2
      <4> HIDE DEF B, T, R
      <4> QED
        BY <2>2, <2>3, <2>5, <4>1
    <3>3. /\ Spooled' \subseteq Spooled /\ Spooled \ Spooled' \subseteq Of(file)
          /\ OneRecordALine'
      BY <2>1, <3>1, SegmentGoes
    <3>4. OnLog
      <4>1. Spooled \ Spooled' \subseteq sunk \cup archived' \cup unread'
        BY <2>1, <3>1, <3>2, <3>3
      <4> HIDE DEF B, T
      <4> QED
        BY <2>1, <2>4, <3>1, <3>3, <4>1, MemoryKept, LogForgets
    <3>5. RoundOnSegments'
      <4>1. replay'.todo = replay.todo \ {file} /\ replay'.file = <<>>
        BY <1>t, <2>1, <3>1 DEF SpoolTyped
      <4> QED
        BY <3>1, <4>1 DEF RoundOnSegments
    <3> QED
      BY <3>3, <3>4, <3>5
  <2>6. CASE R # {}
    <3>1. /\ UNCHANGED <<segments, unread>>
          /\ replay' = [todo |-> replay.todo \ {file}, file |-> file, upto |-> upto, left |-> R]
      BY <1>8, <2>6 DEF Read
    <3>2. Spooled' = Spooled /\ OneRecordALine'
      BY <2>1, <3>1, SpooledKept, LinesKept
    <3>3. OnLog
      <4> HIDE DEF B
      <4> QED
        BY <2>1, <2>4, <3>1, <3>2, MemoryKept, LogArchives
    <3>4. RoundOnSegments'
      <4>1. /\ replay'.todo = replay.todo \ {file} /\ replay'.file = file
            /\ replay'.upto = upto /\ replay'.left = R
        BY <3>1
      <4>2. \A i \in 1 .. upto - 1 : i \in R \/ file[i].of \subseteq archived'
        BY <2>1, <2>3
      <4>3. Records(replay'.file, replay'.upto) = R
        BY <4>1
      <4>4. Records(replay.file, replay.upto)' = R
        BY <4>1 DEF Records
      <4>5. replay'.todo \subseteq segments' /\ file \in segments' \ replay'.todo
        BY <2>1, <3>1, <4>1 DEF RoundOnSegments
      <4> HIDE DEF B, R
      <4> QED
        BY <2>1, <3>1, <4>1, <4>2, <4>4, <4>5 DEF RoundOnSegments
    <3> QED
      BY <3>2, <3>3, <3>4
  <2> QED
    BY <2>5, <2>6
<1>15. ASSUME NEW file \in replay.todo, ReadFails(file)
       PROVE  OnLog /\ OneRecordALine' /\ RoundOnSegments'
  <2>1. /\ UNCHANGED <<queue, batch, active, unread, sunk, raised>>
        /\ file \in segments /\ file \in Seq(Lines) /\ replay.file = <<>>
        /\ replay' = [replay EXCEPT !.todo = replay.todo \ {file}]
    BY <1>t, <1>15 DEF ReadFails, edgeVars, sinkVars, RoundOnSegments, SpoolTyped
  <2>2. Memory' = Memory /\ Of(file) \subseteq Spooled /\ {} \subseteq Spooled
    BY <2>1, MemoryKept, OfSegment
  <2>3. RoundOnSegments'
    <3>1. replay'.todo = replay.todo \ {file} /\ replay'.file = <<>>
      BY <1>t, <2>1 DEF SpoolTyped
    <3>2. segments \ {file} \subseteq segments'
      BY <1>15 DEF ReadFails
    <3> QED
      BY <3>1, <3>2 DEF RoundOnSegments
  <2>4. CASE archived' = archived \cup Of(file) /\ segments' = segments \ {file}
    <3>1. /\ Spooled' \subseteq Spooled /\ Spooled \ Spooled' \subseteq Of(file)
          /\ OneRecordALine'
      BY <2>1, <2>4, SegmentGoes
    <3>3. OnLog
      BY <2>1, <2>2, <2>4, <3>1, LogArchives
    <3> QED
      BY <2>3, <3>1, <3>3
  <2>5. CASE /\ \E upto \in 1 .. Len(file) + 1 : archived' = archived \cup Broken(file, upto)
             /\ UNCHANGED segments
    <3>1. Spooled' = Spooled /\ OneRecordALine'
      BY <2>1, <2>5, SpooledKept, LinesKept
    <3>2. PICK upto \in 1 .. Len(file) + 1 : archived' = archived \cup Broken(file, upto)
      BY <2>5
    <3>3. Broken(file, upto) \subseteq Spooled
      BY <2>1, <2>2, ReadIs
    <3>5. PICK S \in SUBSET Spooled : archived' = archived \cup S
      BY <3>2, <3>3
    <3>6. OnLog
      BY <2>1, <2>2, <3>1, <3>5, LogArchives
    <3> QED
      BY <2>3, <3>1, <3>6
  <2> QED
    BY <1>15, <2>4, <2>5 DEF ReadFails
<1>9. CASE ReplayRecord
  <2>1. /\ UNCHANGED <<queue, batch, active, segments, archived, unread, raised>> /\ Replaying
        /\ \E i \in NextLines : /\ \E c \in replay.file[i].of : Sunk(c)
                                /\ replay' = [replay EXCEPT !.left = replay.left \ {i}]
    BY <1>9 DEF ReplayRecord, edgeVars
  <2>2. PICK i \in NextLines : /\ \E c \in replay.file[i].of : Sunk(c)
                               /\ replay' = [replay EXCEPT !.left = replay.left \ {i}]
    BY <2>1
  <2>3. PICK c \in replay.file[i].of : Sunk(c)
    BY <2>2
  <2>4. /\ replay.file \in segments /\ replay.file \in Seq(Lines)
        /\ i \in replay.left /\ i \in Valid(replay.file) /\ i \in 1 .. Len(replay.file)
        /\ c \in Calls
    BY <1>t, <2>1, <2>3, NextOf DEF RoundOnSegments, Replaying, SpoolTyped
  <2>5. replay.file[i].of = {c}
    BY <2>3, <2>4 DEF OneRecordALine, Valid
  <2>6. c \in Spooled
    <3>2. c \in Of(replay.file)
      BY <2>3, <2>4, OfIs
    <3> QED
      BY <2>4, <3>2, OfSegment
  <2>7. OnLog /\ OneRecordALine'
    BY <2>1, <2>3, <2>4, <2>6, MemoryKept, SpooledKept, LogStores, LinesKept
  <2>8. RoundOnSegments'
    <3>1. sunk' = sunk \cup {c}
      BY <2>3 DEF Sunk
    <3>2. /\ replay'.todo = replay.todo /\ replay'.file = replay.file
          /\ replay'.upto = replay.upto /\ replay'.left = replay.left \ {i}
      BY <1>t, <2>2 DEF SpoolTyped
    <3>3. Records(replay.file, replay.upto)' = Records(replay.file, replay.upto)
      BY <3>2 DEF Records
    <3>4. /\ replay.todo \subseteq segments /\ replay.file \in segments \ replay.todo
          /\ replay.upto \in 1 .. Len(replay.file) + 1
          /\ replay.left \subseteq Records(replay.file, replay.upto)
          /\ \A j \in 1 .. replay.upto - 1 :
               j \in replay.left \/ replay.file[j].of \subseteq sunk \cup archived
      BY <2>1 DEF RoundOnSegments, Replaying
    <3>5. \A j \in 1 .. replay.upto - 1 :
            j \in replay.left \ {i} \/ replay.file[j].of \subseteq sunk' \cup archived
      BY <2>5, <3>1, <3>4
    <3> QED
      BY <2>1, <3>2, <3>3, <3>4, <3>5 DEF RoundOnSegments
  <2> QED
    BY <2>7, <2>8
<1>10. CASE ReplayFails
  <2>1. /\ UNCHANGED <<queue, batch, active, segments, archived, unread, raised>> /\ Replaying
        /\ \/ \E i \in NextLines : \E c \in replay.file[i].of : Sunk(c)
           \/ UNCHANGED sunk
        /\ replay' = NoRound
    BY <1>10 DEF ReplayFails, edgeVars
  <2>2. Memory' = Memory /\ Spooled' = Spooled /\ OneRecordALine'
    BY <2>1, MemoryKept, SpooledKept, LinesKept
  <2>3. RoundOnSegments'
    BY <2>1 DEF RoundOnSegments, NoRound
  <2>4. ASSUME NEW i \in NextLines, NEW c \in replay.file[i].of, Sunk(c)
        PROVE  OnLog
    <3>1. /\ replay.file \in segments /\ replay.file \in Seq(Lines)
          /\ i \in 1 .. Len(replay.file) /\ c \in Calls
      BY <1>t, <2>1, NextOf DEF RoundOnSegments, Replaying, SpoolTyped
    <3>3. c \in Of(replay.file)
      BY <3>1, OfIs
    <3>4. c \in Spooled
      BY <3>1, <3>3, OfSegment
    <3> QED
      BY <2>1, <2>2, <2>4, <3>1, <3>4, LogStores
  <2>5. CASE UNCHANGED sunk
    <3>1. UNCHANGED <<sunk, archived, unread>> /\ raised \subseteq raised'
      BY <2>1, <2>5
    <3> QED
      BY <2>2, <2>3, <3>1, LogStays
  <2> QED
    BY <2>1, <2>2, <2>3, <2>4, <2>5
<1>11. CASE ReplayDone
  <2> DEFINE T == Behind(replay.file, replay.upto)
  <2>1. /\ UNCHANGED <<queue, batch, active, archived, sunk, raised>> /\ Replaying
        /\ replay.left = {} /\ replay' = [NoRound EXCEPT !.todo = replay.todo]
        /\ \/ segments' = segments \ {replay.file} /\ unread' = unread \cup T /\ NoFault
           \/ UNCHANGED <<segments, unread>>
    BY <1>11 DEF ReplayDone, Left, edgeVars, sinkVars
  <2>2. /\ replay.todo \subseteq segments /\ replay.file \in segments \ replay.todo
        /\ replay.file \in Seq(Lines) /\ replay.upto \in 1 .. Len(replay.file) + 1
        /\ \A i \in 1 .. replay.upto - 1 : replay.file[i].of \subseteq sunk \cup archived
    BY <1>t, <2>1 DEF RoundOnSegments, Replaying, SpoolTyped
  <2>3. RoundOnSegments'
    <3>1. replay'.todo = replay.todo /\ replay'.file = <<>>
      BY <2>1 DEF NoRound
    <3> QED
      BY <2>1, <2>2, <3>1 DEF RoundOnSegments
  <2>4. CASE UNCHANGED <<segments, unread>>
    BY <2>1, <2>3, <2>4, MemoryKept, SpooledKept, LogStays, LinesKept
  <2>5. CASE segments' = segments \ {replay.file} /\ unread' = unread \cup T /\ NoFault
    <3>1. /\ \A x : x \in Of(replay.file) <=>
                    \E i \in 1 .. Len(replay.file) : x \in replay.file[i].of
          /\ Len(replay.file) \in Nat
      BY <2>2, OfIs
    <3>2. /\ T \subseteq Of(replay.file)
          /\ \A i \in replay.upto .. Len(replay.file) : replay.file[i].of \subseteq T
          /\ replay.upto = Len(replay.file) + 1 => T = {}
      BY <2>2, ReadIs
    <3>3. Of(replay.file) \subseteq sunk \cup archived \cup T
      <4>1. \A i \in 1 .. Len(replay.file) :
              i \in 1 .. replay.upto - 1 \/ i \in replay.upto .. Len(replay.file)
        BY <2>2, <3>1
      <4> HIDE DEF T
      <4> QED
        BY <2>2, <3>1, <3>2, <4>1
    <3>4. /\ Spooled' \subseteq Spooled /\ Spooled \ Spooled' \subseteq Of(replay.file)
          /\ OneRecordALine'
      BY <2>1, <2>2, <2>5, SegmentGoes
    <3>5. /\ {} \in SUBSET Spooled /\ archived' = archived \cup {}
          /\ T \in SUBSET Spooled
      BY <2>1, <2>2, <3>2, OfSegment
    <3>6. T = {} \/ Damaged'
      <4>1. Damaged' = Damaged
        BY <2>5, DamageCounted DEF Typed
      <4> QED
        BY <2>1, <3>2, <4>1 DEF DamageHasACause, Replaying
    <3>7. Spooled \ Spooled' \subseteq sunk \cup archived' \cup unread'
      BY <2>1, <2>5, <3>3, <3>4
    <3> HIDE DEF T
    <3>8. OnLog
      BY <2>1, <2>5, <3>4, <3>5, <3>6, <3>7, MemoryKept, LogForgets
    <3> QED
      BY <2>3, <3>4, <3>8
  <2> QED
    BY <2>1, <2>4, <2>5
<1>12. CASE EdgeStops
  <2>1. /\ UNCHANGED <<raised, active, segments, archived, unread, sunk>>
        /\ queue' = <<>> /\ batch' = <<>> /\ replay' = NoRound
    BY <1>12 DEF EdgeStops, sinkVars
  <2>2. Memory' = {}
    BY <2>1, EmptyIs DEF Memory
  <2>3. RoundOnSegments'
    BY <2>1 DEF RoundOnSegments, NoRound
  <2> QED
    BY <2>1, <2>2, <2>3, SpooledKept, LogLoses, LinesKept
<1>13. CASE UNCHANGED <<queue, batch, raised, active, segments, replay, archived, unread, sunk>>
  BY <1>13, MemoryKept, SpooledKept, LogStays, LinesKept, RoundKept
<1>14. CASE \/ Tick \/ EdgeStarts \/ SinkFails \/ SinkReturns \/ Worker \/ WorkerRestarts
            \/ UNCHANGED vars
  BY <1>13, <1>14
     DEF Tick, EdgeStarts, SinkFails, SinkReturns, Worker, Deliver, Handle, Bury, Ack, Insert,
         WorkerRestarts, vars, edgeVars, spoolVars, sinkVars
<1> QED
  BY <1>1, <1>2, <1>3, <1>4, <1>5, <1>6, <1>7, <1>8, <1>9, <1>10, <1>11, <1>12, <1>14, <1>15
     DEF Next, Flushing, Replay

LEMMA InitialInvariant == Init => IInv /\ Log!LogInit
<1> SUFFICES ASSUME Init PROVE IInv /\ Log!LogInit
  OBVIOUS
<1>1. EdgeTyped /\ SpoolTyped
  BY EmptyIs, Sizes DEF Init, EdgeTyped, SpoolTyped, BatchFits, Filling, NoRound
<1>2. SinkTyped /\ WorkerTyped /\ FaultsTyped
  BY Sizes DEF Init, SinkTyped, WorkerTyped, FaultsTyped, FaultsAddUp
<1>3. Memory = {} /\ Spooled = {} /\ sunk = {} /\ archived = {} /\ unread = {}
  BY EmptyIs DEF Init, Memory, Spooled, Of
<1>4. OneRecordALine /\ RoundOnSegments
  <2>1. Records(<<>>, Len(<<>>) + 1) = {}
    BY EmptyIs DEF Records
  <2> QED
    BY <2>1 DEF Init, OneRecordALine, RoundOnSegments, NoRound
<1>5. DamageHasACause
  BY EmptyIs DEF Init, DamageHasACause, NoRound
<1> QED
  BY <1>1, <1>2, <1>3, <1>4, <1>5, TypesInParts DEF Typed, IInv, OnlyRaised, Log!LogInit

LEMMA InvariantKept ==
  ASSUME IInv, [Next]_vars
  PROVE  IInv' /\ OnLog
<1>1. Typed
  BY TypesInParts DEF IInv
<1>2. Typed'
  BY <1>1, StaysTyped DEF IInv
<1>3. OnLog /\ OneRecordALine' /\ RoundOnSegments' /\ DamageHasACause'
  BY <1>1, StepOnLog, CauseStep DEF IInv
<1>4. (Typed <=> TypeOK /\ FaultsAddUp /\ BatchFits)'
  BY TypesInParts, PTL
<1> QED
  BY <1>2, <1>3, <1>4 DEF IInv, OnLog

(* The invariant: types, only what was handed over is anywhere, one record  *)
(* in a line that parses, a replay round that works on segments that are    *)
(* there and has passed on what it has behind it, and no line unreadable    *)
(* or unread unless the disk has failed (CdrSpool, replay_once).            *)
THEOREM InvariantHolds == Spec => []IInv
<1>1. Init => IInv
  BY InitialInvariant
<1>2. IInv /\ [Next]_vars => IInv'
  BY InvariantKept
<1> QED
  BY <1>1, <1>2, PTL DEF Spec

(* Types; the queue and the batch stay within their sizes, also when the    *)
(* shutdown drains one into the other (runtime.rs).                        *)
THEOREM TypeCorrect == Spec => []TypeOK
  BY InvariantHolds, PTL DEF IInv

(* The edge implements the log: through rotations, failed replays, torn     *)
(* lines, crashes and restarts a record leaves the spool only for the sink  *)
(* or the archive, or, once a write or a read of the disk has failed, with  *)
(* a file that read_spool_file did not read to its end (CdrSpool,           *)
(* flush_cdr_batch_with_retry_and_spool).                                   *)
THEOREM SpoolImplementsLog == Spec => SpoolKeeps
<1>1. IInv /\ [Next]_vars => [Log!LogNext]_<<Memory, Spooled, sunk, archived, unread>>
  BY InvariantKept DEF OnLog
<1> QED
  BY <1>1, InitialInvariant, InvariantHolds, PTL DEF Spec, SpoolKeeps, Log!LogSpec, Log!log
-----------------------------------------------------------------------------
(* What is lost, and what has been charged for it.  A record is lost at the *)
(* edge before the sink had it, or by the cdr-worker after it.  Most steps  *)
(* lose nothing; a fault loses no more than what was in memory.            *)
Placed == Memory \cup Spooled \cup sunk \cup archived \cup unread
LostAtEdge == raised \ Placed

\* A message the worker is about to acknowledge is as good as gone.
Waiting == IF handling.step = "taken" THEN stream \ {handling.of} ELSE stream
LostAtWorker == sunk \ (Waiting \cup inbox \cup rows \cup dlq)

\* What a flush has behind it is with the sink or has reached the disk.
Flushed == \A i \in 1 .. flush.done : batch[i] \in sunk \cup Spooled \cup archived \cup unread

\* What is in the queue of an edge that drains came late; a closed one has nothing.
Closing ==
  /\ edge = "draining" => ToSet(queue) \subseteq late
  /\ edge \in {"closed", "down"} => queue = <<>> /\ batch = <<>>

Streamed == stream \subseteq sunk /\ (handling # NoMessage => handling.of \in sunk)

EdgeCharged ==
  Cardinality(LostAtEdge \ late) <= faults.edge * (QueueMax + BatchMax)
                                      + faults.append * (QueueMax + BatchMax)
WorkerCharged ==
  Cardinality(LostAtWorker) <= faults.worker * InboxMax /\ Cardinality(inbox) <= InboxMax

Charged == Flushed /\ Closing /\ Streamed /\ EdgeCharged /\ WorkerCharged

(* Sizes of sets. *)
LEMMA CallsFinite ==
  ASSUME NEW S, S \subseteq Calls
  PROVE  IsFiniteSet(S) /\ Cardinality(S) \in Nat
  BY PipelineAssumption, FS_Subset, FS_CardinalityType

LEMMA SmallerSet ==
  ASSUME NEW T, T \subseteq Calls, NEW S, S \subseteq T
  PROVE  Cardinality(S) <= Cardinality(T)
  BY CallsFinite, FS_Subset

LEMMA UnionAtMost ==
  ASSUME NEW S, S \subseteq Calls, NEW T, T \subseteq Calls
  PROVE  Cardinality(S \cup T) <= Cardinality(S) + Cardinality(T)
<1>1. IsFiniteSet(S) /\ IsFiniteSet(T) /\ Cardinality(S) \in Nat /\ Cardinality(T) \in Nat
  BY CallsFinite
<1>2. Cardinality(S \cap T) \in Nat /\ Cardinality(S \cup T) \in Nat
  BY CallsFinite
<1>3. Cardinality(S \cup T) = Cardinality(S) + Cardinality(T) - Cardinality(S \cap T)
  BY <1>1, FS_Union
<1> QED
  BY <1>1, <1>2, <1>3

LEMMA ElementsAtMost ==
  ASSUME NEW s \in Seq(Calls)
  PROVE  Cardinality(ToSet(s)) <= Len(s)
<1>1. Len(s) \in Nat /\ DOMAIN s = 1 .. Len(s)
  BY ElementIs
<1>2. s \in [1 .. Len(s) -> ToSet(s)] /\ \A x \in ToSet(s) : \E i \in 1 .. Len(s) : s[i] = x
  BY <1>1, ElementIs
<1>3. ExistsSurjection(1 .. Len(s), ToSet(s))
  BY <1>2 DEF ExistsSurjection, Surjection
<1> QED
  BY <1>1, <1>3, FS_SurjCardinalityBound

LEMMA OnceMore ==
  ASSUME NEW n \in Nat, NEW k \in Nat
  PROVE  n * k \in Nat /\ (n + 1) * k = n * k + k
  OBVIOUS

(* What is charged. *)
Uncharged == faults'.edge = faults.edge /\ faults'.append = faults.append
             /\ faults'.worker = faults.worker

LEMMA NoCharge ==
  ASSUME FaultsTyped, NoFault \/ Fault
  PROVE  Uncharged
<1>1. CASE NoFault
  BY <1>1 DEF NoFault, Uncharged
<1>2. CASE Fault
  BY <1>2 DEF Fault, Uncharged, FaultsTyped
<1> QED
  BY <1>1, <1>2

LEMMA ChargedOnce ==
  ASSUME FaultsTyped, NEW kind \in {"edge", "append", "read", "worker"}, Costs(kind)
  PROVE  /\ faults'[kind] = faults[kind] + 1
         /\ \A k \in {"edge", "append", "read", "worker"} \ {kind} : faults'[k] = faults[k]
  BY DEF Costs, FaultsTyped

LEMMA FaultCounts ==
  ASSUME FaultsTyped
  PROVE  faults.edge \in Nat /\ faults.append \in Nat /\ faults.worker \in Nat
  BY Sizes DEF FaultsTyped

-----------------------------------------------------------------------------
(* The log remembers what it stored, archived and did not read; what leaves *)
(* the disk is one of these.                                               *)
Remembers == /\ sunk \subseteq sunk' /\ archived \subseteq archived' /\ unread \subseteq unread'
             /\ Spooled \subseteq Spooled' \cup sunk' \cup archived' \cup unread'

LEMMA LogRemembers ==
  ASSUME OnLog
  PROVE  Remembers
<1> USE DEF Remembers
<1>1. CASE UNCHANGED <<Memory, Spooled, sunk, archived, unread>>
  BY <1>1
<1>2. CASE Log!Lose
  BY <1>2 DEF Log!Lose
<1>3. CASE Log!Forget
  BY <1>3 DEF Log!Forget
<1>4. ASSUME NEW c \in Calls, Log!Accept(c) \/ Log!Save(c) \/ Log!Store(c)
      PROVE  Remembers
  BY <1>4 DEF Log!Accept, Log!Save, Log!Store
<1> QED
  BY <1>1, <1>2, <1>3, <1>4 DEF OnLog, Log!LogNext

(* A step that loses L from memory, or at the door, and is charged for it. *)
LEMMA EdgeLoses ==
  ASSUME Remembers, NEW L,
         (raised' \ raised) \cup Memory \subseteq Placed' \cup L
  PROVE  LostAtEdge' \subseteq LostAtEdge \cup L
  BY DEF Remembers, LostAtEdge, Placed

LEMMA WithinCalls ==
  ASSUME Typed
  PROVE  LostAtEdge \subseteq Calls /\ LostAtWorker \subseteq Calls /\ inbox \subseteq Calls
         /\ raised \subseteq Calls /\ late \subseteq Calls
  BY DEF Typed, EdgeTyped, SinkTyped, WorkerTyped, LostAtEdge, LostAtWorker

(* No fault of the edge: only what came late is lost.                      *)
LEMMA EdgeFree ==
  ASSUME Typed, EdgeCharged, Remembers, late \subseteq late',
         faults'.edge = faults.edge, faults'.append = faults.append,
         (raised' \ raised) \cup Memory \subseteq Placed' \cup late'
  PROVE  EdgeCharged'
<1>1. LostAtEdge' \subseteq LostAtEdge \cup late'
  BY EdgeLoses
<1>2. LostAtEdge' \ late' \subseteq LostAtEdge \ late
  BY <1>1
<1>3. LostAtEdge \ late \subseteq Calls
  BY WithinCalls
<1>4. Cardinality(LostAtEdge' \ late') <= Cardinality(LostAtEdge \ late)
  BY <1>2, <1>3, SmallerSet
<1>5. /\ Cardinality(LostAtEdge \ late) \in Nat /\ Cardinality(LostAtEdge' \ late') \in Nat
  BY <1>2, <1>3, CallsFinite
<1>6. /\ faults.edge * (QueueMax + BatchMax) \in Nat
      /\ faults.append * (QueueMax + BatchMax) \in Nat
  BY FaultCounts, OnceMore, Sizes DEF Typed
<1> QED
  BY <1>4, <1>5, <1>6 DEF EdgeCharged

(* A fault of the edge pays for a queue and a batch.                       *)
LEMMA EdgePays ==
  ASSUME Typed, EdgeCharged, Remembers, late \subseteq late',
         Costs("edge") \/ Costs("append"),
         NEW L, L \subseteq Calls, Cardinality(L) <= QueueMax + BatchMax,
         (raised' \ raised) \cup Memory \subseteq Placed' \cup late' \cup L
  PROVE  EdgeCharged'
<1> DEFINE K == QueueMax + BatchMax
           Old == LostAtEdge \ late
           New == LostAtEdge' \ late'
<1>1. New \subseteq Old \cup L
  <2>1. LostAtEdge' \subseteq LostAtEdge \cup (late' \cup L)
    BY EdgeLoses
  <2> QED
    BY <2>1
<1>2. Old \subseteq Calls
  BY WithinCalls
<1> HIDE DEF Old, New
<1>3. Cardinality(New) <= Cardinality(Old \cup L)
  BY <1>1, <1>2, SmallerSet
<1>4. Cardinality(Old \cup L) <= Cardinality(Old) + Cardinality(L)
  BY <1>2, UnionAtMost
<1>5. /\ Cardinality(New) \in Nat /\ Cardinality(Old \cup L) \in Nat
      /\ Cardinality(Old) \in Nat /\ Cardinality(L) \in Nat
  BY <1>1, <1>2, CallsFinite
<1>6. K \in Nat
  BY Sizes
<1>7. faults.edge \in Nat /\ faults.append \in Nat
  BY FaultCounts DEF Typed
<1>8. Cardinality(Old) <= faults.edge * K + faults.append * K
  BY DEF EdgeCharged, Old
<1>9. \/ faults'.edge = faults.edge + 1 /\ faults'.append = faults.append
      \/ faults'.edge = faults.edge /\ faults'.append = faults.append + 1
  BY ChargedOnce DEF Typed
<1> HIDE DEF K
<1>10. /\ faults.edge * K \in Nat /\ (faults.edge + 1) * K = faults.edge * K + K
       /\ faults.append * K \in Nat /\ (faults.append + 1) * K = faults.append * K + K
  BY <1>6, <1>7, OnceMore
<1>11. faults'.edge * K + faults'.append * K = faults.edge * K + faults.append * K + K
  BY <1>6, <1>9, <1>10
<1>12. Cardinality(L) <= K
  BY DEF K
<1>13. Cardinality(New) <= faults'.edge * K + faults'.append * K
  BY <1>3, <1>4, <1>5, <1>6, <1>8, <1>10, <1>11, <1>12
<1> QED
  BY <1>13 DEF EdgeCharged, New, K

LEMMA AppendOkSpools ==
  ASSUME SpoolTyped, OneRecordALine, NEW c \in Calls, AppendOk(c), UNCHANGED segments
  PROVE  Spooled' = Spooled \cup {c}
<1>1. OneEach(active)
  BY DEF OneRecordALine, OneEach, Valid
<1>2. Of(Written(c, "record", TRUE)) = Of(active) \cup {c}
  BY <1>1, WrittenIs DEF SpoolTyped
<1> QED
  BY <1>2 DEF AppendOk, Spooled

(* The flush. *)
LEMMA FlushedStep ==
  ASSUME Typed, OneRecordALine, Remembers, Flushed, [Next]_vars
  PROVE  Flushed'
<1>t. EdgeTyped /\ SpoolTyped
  BY DEF Typed
<1>d. flush.done \in Nat /\ flush.done <= Len(batch) /\ Len(batch) \in Nat
  BY <1>t, ElementIs DEF EdgeTyped
<1>1. CASE UNCHANGED <<flush, batch>>
  BY <1>1 DEF Flushed, Remembers
<1>2. CASE flush'.done = 0
  BY <1>2 DEF Flushed
<1>3. ASSUME UNCHANGED batch, flush'.done = flush.done + 1,
             batch[flush.done + 1] \in sunk' \cup Spooled' \cup archived' \cup unread'
      PROVE  Flushed'
  <2>1. \A i \in 1 .. flush'.done : i \in 1 .. flush.done \/ i = flush.done + 1
    BY <1>d, <1>3
  <2> QED
    BY <1>3, <2>1 DEF Flushed, Remembers
<1>4. CASE SendRecord
  <2>1. UNCHANGED batch /\ batch[flush.done + 1] \in sunk'
    BY <1>4 DEF SendRecord, Sunk
  <2>2. flush'.done = flush.done + 1
    BY <1>4, <1>t DEF SendRecord, EdgeTyped
  <2> QED
    BY <1>3, <2>1, <2>2
<1>5. CASE SpoolRecord
  <2>1. UNCHANGED <<batch, segments>> /\ AppendOk(batch[flush.done + 1]) /\ flush.done < Len(batch)
    BY <1>5 DEF SpoolRecord
  <2>2. batch[flush.done + 1] \in Calls
    BY <1>t, <2>1, InBatch
  <2>3. batch[flush.done + 1] \in Spooled'
    BY <1>t, <2>1, <2>2, AppendOkSpools
  <2>4. flush'.done = flush.done + 1
    BY <1>5, <1>t DEF SpoolRecord, EdgeTyped
  <2> QED
    BY <1>3, <2>1, <2>3, <2>4
<1>6. CASE SendFails
  <2>1. flush' = [flush EXCEPT !.try = flush.try + 1, !.done = 0]
        \/ flush' = [flush EXCEPT !.phase = "spool", !.done = 0]
    BY <1>6 DEF SendFails, GivenUp
  <2>2. flush'.done = 0
    BY <1>t, <2>1 DEF EdgeTyped
  <2> QED
    BY <1>2, <2>2
<1>7. CASE Take \/ Tick \/ Drain
  <2>1. flush'.done = 0
    BY <1>7 DEF Take, Tick, Drain, Filling
  <2> QED
    BY <1>2, <2>1
<1>8. CASE FlushDone \/ SpoolFails \/ EdgeStops
  <2>1. flush'.done = 0
    BY <1>8 DEF FlushDone, SpoolFails, EdgeStops, FlushEnds, Filling
  <2> QED
    BY <1>2, <2>1
<1>9. CASE \/ \E c \in Calls : Send(c)
           \/ Replay \/ EdgeStarts \/ SinkFails \/ SinkReturns \/ Worker \/ WorkerRestarts
           \/ UNCHANGED vars
  <2>1. UNCHANGED <<flush, batch>>
    BY <1>9 DEF Send, Replay, Rotate, Read, ReadFails, ReplayRecord, ReplayFails, ReplayDone, EdgeStarts,
                SinkFails, SinkReturns, Worker, Deliver, Handle, Bury, Ack, Insert,
                WorkerRestarts, vars, edgeVars
  <2> QED
    BY <1>1, <2>1
<1> QED
  BY <1>4, <1>5, <1>6, <1>7, <1>8, <1>9 DEF Next, Flushing

(* The queue of an edge that goes. *)
LEMMA ClosingStep ==
  ASSUME Typed, Closing, [Next]_vars
  PROVE  Closing' /\ late \subseteq late'
<1>t. EdgeTyped
  BY DEF Typed
<1>1. ASSUME NEW c \in Calls, Send(c) PROVE Closing' /\ late \subseteq late'
  <2>1. CASE edge # "closed" /\ Room
    <3>1. /\ queue' = Append(queue, c) /\ edge # "down" /\ UNCHANGED <<edge, batch>>
          /\ late' = IF edge = "draining" THEN late \cup {c} ELSE late
      BY <1>1, <2>1 DEF Send
    <3>2. ToSet(queue') = ToSet(queue) \cup {c}
      BY <1>t, <3>1, AppendIs DEF EdgeTyped
    <3> QED
      BY <2>1, <3>1, <3>2 DEF Closing
  <2>2. CASE ~(edge # "closed" /\ Room)
    <3>1. UNCHANGED <<edge, queue, batch, late>>
      BY <1>1, <2>2 DEF Send
    <3> QED
      BY <3>1 DEF Closing
  <2> QED
    BY <2>1, <2>2
<1>2. CASE Take \/ Tick
  <2>1. edge' = "up" /\ late' = late
    BY <1>2 DEF Take, Tick
  <2> QED
    BY <2>1 DEF Closing
<1>3. CASE Drain
  <2>1. edge' = "draining" /\ queue' = <<>> /\ late' = late
    BY <1>3 DEF Drain
  <2>2. ToSet(<<>>) = {}
    BY EmptyIs
  <2> QED
    BY <2>1, <2>2 DEF Closing
<1>4. CASE FlushDone \/ SpoolFails
  <2>1. FlushEnds /\ late' = late
    BY <1>4 DEF FlushDone, SpoolFails
  <2>2. CASE edge = "draining"
    <3>1. edge' = "closed" /\ queue' = <<>> /\ batch' = <<>>
      BY <2>1, <2>2 DEF FlushEnds
    <3> QED
      BY <2>1, <3>1 DEF Closing
  <2>3. CASE edge # "draining"
    <3>1. edge' = edge /\ queue' = queue /\ batch' = <<>>
      BY <2>1, <2>3 DEF FlushEnds
    <3> QED
      BY <2>1, <2>3, <3>1 DEF Closing
  <2> QED
    BY <2>2, <2>3
<1>5. CASE EdgeStops
  <2>1. edge' = "down" /\ queue' = <<>> /\ batch' = <<>> /\ late' = late
    BY <1>5 DEF EdgeStops
  <2> QED
    BY <2>1 DEF Closing
<1>6. CASE EdgeStarts
  <2>1. edge' = "up" /\ late' = late
    BY <1>6 DEF EdgeStarts
  <2> QED
    BY <2>1 DEF Closing
<1>7. CASE \/ SendRecord \/ SendFails \/ SpoolRecord
           \/ Replay \/ SinkFails \/ SinkReturns \/ Worker \/ WorkerRestarts
           \/ UNCHANGED vars
  <2>1. UNCHANGED <<edge, queue, batch, late>>
    BY <1>7 DEF SendRecord, SendFails, SpoolRecord,
                Replay, Rotate, Read, ReadFails, ReplayRecord, ReplayFails, ReplayDone,
                SinkFails, SinkReturns, Worker, Deliver, Handle, Bury, Ack, Insert,
                WorkerRestarts, vars, edgeVars
  <2> QED
    BY <2>1 DEF Closing
<1> QED
  BY <1>1, <1>2, <1>3, <1>4, <1>5, <1>6, <1>7 DEF Next, Flushing

(* The stream holds what the sink took.                                    *)
LEMMA StreamedStep ==
  ASSUME Typed, Streamed, Remembers, [Next]_vars
  PROVE  Streamed'
<1>1. ASSUME NEW c \in Calls, Sunk(c), UNCHANGED handling PROVE Streamed'
  BY <1>1 DEF Sunk, Streamed
<1>2. CASE UNCHANGED <<stream, handling>>
  BY <1>2 DEF Streamed, Remembers
<1>3. CASE SendRecord \/ SendFails
  <2>1. /\ flush.done < Len(batch) /\ UNCHANGED handling
        /\ Sunk(batch[flush.done + 1]) \/ UNCHANGED stream
    BY <1>3 DEF SendRecord, SendFails, workerVars
  <2>2. batch[flush.done + 1] \in Calls
    BY <2>1, InBatch DEF Typed
  <2> QED
    BY <1>1, <1>2, <2>1, <2>2
<1>4. CASE ReplayRecord \/ ReplayFails
  <2>1. UNCHANGED handling /\ ((\E c : Sunk(c)) \/ UNCHANGED stream)
    BY <1>4 DEF ReplayRecord, ReplayFails, workerVars
  <2>2. ASSUME NEW c, Sunk(c) PROVE Streamed'
    BY <2>1, <2>2 DEF Sunk, Streamed
  <2> QED
    BY <1>2, <2>1, <2>2
<1>5. ASSUME NEW c \in Calls, Deliver(c) PROVE Streamed'
  <2>1. handling' = [step |-> "got", of |-> c] /\ c \in stream /\ UNCHANGED <<stream, sunk>>
    BY <1>5 DEF Deliver, sinkVars
  <2> QED
    BY <2>1 DEF Streamed
<1>6. CASE Handle \/ Bury \/ Ack \/ WorkerRestarts
  <2>1. stream' \subseteq stream /\ sunk' = sunk
    BY <1>6 DEF Handle, Bury, Ack, WorkerRestarts, sinkVars
  <2>2. handling' = NoMessage \/ (handling # NoMessage /\ handling'.of = handling.of)
    <3>1. CASE Handle \/ Bury
      <4>1. handling.step = "got" /\ (handling' = NoMessage \/ handling' = [handling EXCEPT !.step = "taken"])
        BY <3>1 DEF Handle, Bury
      <4>2. handling # NoMessage /\ handling \in [step : {"got", "taken"}, of : Calls]
        BY <4>1 DEF Typed, WorkerTyped, NoMessage
      <4> QED
        BY <4>1, <4>2
    <3>2. CASE Ack \/ WorkerRestarts
      BY <3>2 DEF Ack, WorkerRestarts
    <3> QED
      BY <1>6, <3>1, <3>2
  <2> QED
    BY <2>1, <2>2 DEF Streamed
<1>7. CASE \/ \E c \in Calls : Send(c)
           \/ Take \/ Tick \/ Drain \/ FlushDone \/ SpoolRecord \/ SpoolFails
           \/ Rotate \/ (\E file \in replay.todo : \E upto \in 1 .. Len(file) + 1 : Read(file, upto))
           \/ (\E file \in replay.todo : ReadFails(file)) \/ ReplayDone
           \/ EdgeStops \/ EdgeStarts \/ SinkFails \/ SinkReturns
           \/ (\E S \in SUBSET inbox : Insert(S)) \/ UNCHANGED vars
  <2>1. UNCHANGED <<stream, handling>>
    BY <1>7 DEF Send, Take, Tick, Drain, FlushDone, SpoolRecord, SpoolFails, Rotate, Read,
                ReadFails, ReplayDone, EdgeStops, EdgeStarts, SinkFails, SinkReturns, Insert, vars, workerVars
  <2> QED
    BY <1>2, <2>1
<1> QED
  BY <1>3, <1>4, <1>5, <1>6, <1>7 DEF Next, Flushing, Replay, Worker

(* What the edge loses, step by step.                                      *)
LEMMA EdgeChargedStep ==
  ASSUME IInv, Charged, Remembers, late \subseteq late', [Next]_vars
  PROVE  EdgeCharged'
<1>t. Typed /\ EdgeTyped /\ SpoolTyped /\ FaultsTyped /\ EdgeCharged
  BY TypesInParts DEF IInv, Typed, Charged
<1>1. ASSUME UNCHANGED <<raised, queue, batch>>,
             Uncharged \/ Costs("read") \/ Costs("worker")
      PROVE  EdgeCharged'
  <2>1. Memory' = Memory
    BY <1>1, MemoryKept
  <2>2. faults'.edge = faults.edge /\ faults'.append = faults.append
    BY <1>t, <1>1, ChargedOnce DEF Uncharged
  <2> QED
    BY <1>t, <1>1, <2>1, <2>2, EdgeFree DEF Placed
<1>2. ASSUME NEW c \in Calls, Send(c) PROVE EdgeCharged'
  <2>1. raised' \ raised \subseteq {c} /\ UNCHANGED <<batch, segments>>
    BY <1>2 DEF Send
  <2>2. CASE edge # "closed" /\ Room
    <3>1. queue' = Append(queue, c) /\ NoFault
      BY <1>2, <2>2 DEF Send
    <3>2. ToSet(queue') = ToSet(queue) \cup {c}
      BY <1>t, <3>1, AppendIs DEF EdgeTyped
    <3>3. Memory' = Memory \cup {c}
      BY <2>1, <3>2 DEF Memory
    <3>4. Uncharged
      BY <1>t, <3>1, NoCharge
    <3> QED
      BY <1>t, <2>1, <3>3, <3>4, EdgeFree DEF Placed, Uncharged
  <2>3. CASE ~(edge # "closed" /\ Room)
    <3>1. queue' = queue /\ (AppendOk(c) \/ AppendFails(c))
      BY <1>2, <2>3 DEF Send
    <3>2. Memory' = Memory
      BY <2>1, <3>1, MemoryKept
    <3>3. CASE AppendOk(c)
      <4>1. Spooled' = Spooled \cup {c}
        BY <1>t, <2>1, <3>3, AppendOkSpools DEF IInv
      <4>2. Uncharged
        BY <1>t, <3>3, NoCharge DEF AppendOk
      <4> QED
        BY <1>t, <2>1, <3>2, <4>1, <4>2, EdgeFree DEF Placed, Uncharged
    <3>4. CASE AppendFails(c)
      <4>1. Costs("append")
        BY <3>4 DEF AppendFails
      <4>2. Cardinality({c}) <= QueueMax + BatchMax
        BY Sizes, FS_Singleton
      <4> QED
        BY <1>t, <2>1, <3>2, <4>1, <4>2, EdgePays DEF Placed
    <3> QED
      BY <3>1, <3>3, <3>4
  <2> QED
    BY <2>2, <2>3
<1>3. CASE Take
  <2>1. /\ queue # <<>> /\ batch' = Append(batch, Head(queue)) /\ queue' = Tail(queue)
        /\ UNCHANGED <<raised, faults>>
    BY <1>3 DEF Take
  <2>2. Head(queue) \in Calls /\ ToSet(queue) = ToSet(Tail(queue)) \cup {Head(queue)}
    BY <1>t, <2>1, TailIs DEF EdgeTyped
  <2>3. ToSet(Append(batch, Head(queue))) = ToSet(batch) \cup {Head(queue)}
    BY <1>t, <2>2, AppendIs DEF EdgeTyped
  <2>4. Memory' = ToSet(Tail(queue)) \cup ToSet(Append(batch, Head(queue)))
    BY <2>1 DEF Memory
  <2>5. Memory \subseteq Memory'
    BY <2>2, <2>3, <2>4 DEF Memory
  <2> QED
    BY <1>t, <2>1, <2>5, EdgeFree DEF Placed
<1>4. CASE Drain
  <2>1. batch' = batch \o queue /\ raised' = raised /\ Fault
    BY <1>4 DEF Drain
  <2>2. ToSet(batch \o queue) = ToSet(batch) \cup ToSet(queue)
    BY <1>t, JoinIs DEF EdgeTyped
  <2>3. Memory \subseteq Memory'
    <3>1. Memory' = ToSet(queue') \cup ToSet(batch \o queue)
      BY <2>1 DEF Memory
    <3> QED
      BY <2>2, <3>1 DEF Memory
  <2>4. Uncharged
    BY <1>t, <2>1, NoCharge
  <2> QED
    BY <1>t, <2>1, <2>3, <2>4, EdgeFree DEF Placed, Uncharged
<1>5. ASSUME FlushEnds PROVE ToSet(queue) \subseteq Memory' \cup late
  <2>1. CASE edge = "draining"
    BY <2>1 DEF Charged, Closing
  <2>2. CASE edge # "draining"
    <3>1. queue' = queue
      BY <1>5, <2>2 DEF FlushEnds
    <3> QED
      BY <3>1 DEF Memory
  <2> QED
    BY <2>1, <2>2
<1>6. CASE FlushDone
  <2>1. FlushEnds /\ flush.done = Len(batch) /\ UNCHANGED <<raised, faults>>
    BY <1>6 DEF FlushDone
  <2>2. ToSet(batch) \subseteq sunk \cup Spooled \cup archived \cup unread
    <3>1. \A x : x \in ToSet(batch) <=> \E i \in 1 .. Len(batch) : x = batch[i]
      BY <1>t, ElementIs DEF EdgeTyped
    <3> QED
      BY <2>1, <3>1 DEF Charged, Flushed
  <2>3. Memory \subseteq Placed' \cup late'
    BY <1>5, <2>1, <2>2 DEF Memory, Placed, Remembers
  <2> QED
    BY <1>t, <2>1, <2>3, EdgeFree
<1>7. CASE SpoolFails
  <2>1. FlushEnds /\ Costs("append") /\ raised' = raised
    BY <1>7 DEF SpoolFails, AppendFails
  <2>2. ToSet(batch) \subseteq Calls /\ Cardinality(ToSet(batch)) <= QueueMax + BatchMax
    <3>1. batch \in Seq(Calls) /\ Len(batch) <= BatchMax + QueueMax /\ Len(batch) \in Nat
      BY <1>t, ElementIs DEF EdgeTyped
    <3>2. ToSet(batch) \subseteq Calls /\ Cardinality(ToSet(batch)) <= Len(batch)
      BY <3>1, ElementIs, ElementsAtMost
    <3>3. Cardinality(ToSet(batch)) \in Nat
      BY <3>2, CallsFinite
    <3> QED
      BY <3>1, <3>2, <3>3, Sizes
  <2>3. Memory \subseteq Placed' \cup late' \cup ToSet(batch)
    BY <1>5, <2>1 DEF Memory, Placed
  <2> QED
    BY <1>t, <2>1, <2>2, <2>3, EdgePays
<1>8. CASE EdgeStops
  <2>1. raised' = raised /\ (IF edge = "closed" THEN NoFault ELSE Costs("edge")) /\ edge # "down"
    BY <1>8 DEF EdgeStops
  <2>2. CASE edge = "closed"
    <3>1. Memory = {}
      BY <2>2, EmptyIs DEF Charged, Closing, Memory
    <3>2. Uncharged
      BY <1>t, <2>1, <2>2, NoCharge
    <3> QED
      BY <1>t, <2>1, <3>1, <3>2, EdgeFree DEF Uncharged
  <2>3. CASE edge # "closed"
    <3> DEFINE L == Memory \ late
    <3>0. /\ queue \in Seq(Calls) /\ batch \in Seq(Calls)
          /\ Len(queue) <= QueueMax /\ Len(batch) <= BatchMax + QueueMax
          /\ edge # "draining" => Len(batch) <= BatchMax
          /\ Len(queue) \in Nat /\ Len(batch) \in Nat
      BY <1>t, ElementIs DEF EdgeTyped, BatchFits
    <3>1. /\ ToSet(queue) \subseteq Calls /\ ToSet(batch) \subseteq Calls
          /\ Cardinality(ToSet(queue)) <= Len(queue) /\ Cardinality(ToSet(batch)) <= Len(batch)
      BY <3>0, ElementIs, ElementsAtMost
    <3>2. /\ Cardinality(ToSet(queue)) \in Nat /\ Cardinality(ToSet(batch)) \in Nat
          /\ Cardinality(ToSet(queue) \cup ToSet(batch)) \in Nat
          /\ Cardinality(L) \in Nat /\ L \subseteq Calls
      BY <3>1, CallsFinite DEF Memory
    <3>3. CASE edge = "draining"
      <4>1. L \subseteq ToSet(batch)
        BY <3>3 DEF Charged, Closing, Memory
      <4>2. Cardinality(L) <= Cardinality(ToSet(batch))
        BY <3>1, <4>1, SmallerSet
      <4> HIDE DEF L
      <4>3. Cardinality(L) <= QueueMax + BatchMax
        BY <3>0, <3>1, <3>2, <4>2, Sizes
      <4>4. Memory \subseteq Placed' \cup late' \cup L
        BY DEF L
      <4> QED
        BY <1>t, <2>1, <2>3, <3>2, <4>3, <4>4, EdgePays
    <3>4. CASE edge # "draining"
      <4>1. Cardinality(L) <= Cardinality(ToSet(queue) \cup ToSet(batch))
        BY <3>1, SmallerSet DEF Memory
      <4>2. Cardinality(ToSet(queue) \cup ToSet(batch))
              <= Cardinality(ToSet(queue)) + Cardinality(ToSet(batch))
        BY <3>1, UnionAtMost
      <4> HIDE DEF L
      <4>3. Cardinality(L) <= QueueMax + BatchMax
        BY <3>0, <3>1, <3>2, <3>4, <4>1, <4>2, Sizes
      <4>4. Memory \subseteq Placed' \cup late' \cup L
        BY DEF L
      <4> QED
        BY <1>t, <2>1, <2>3, <3>2, <4>3, <4>4, EdgePays
    <3> QED
      BY <3>3, <3>4
  <2> QED
    BY <2>2, <2>3
<1>9. CASE \/ Tick \/ SendRecord \/ SendFails \/ SpoolRecord
           \/ Replay \/ EdgeStarts \/ SinkFails \/ SinkReturns
           \/ (\E c \in Calls : Deliver(c)) \/ Handle \/ Bury \/ Ack
           \/ (\E S \in SUBSET inbox : Insert(S)) \/ WorkerRestarts \/ UNCHANGED vars
  <2>1. UNCHANGED <<raised, queue, batch>>
    BY <1>9 DEF Tick, SendRecord, SendFails, SpoolRecord, Replay, Rotate, Read, ReadFails, ReplayRecord,
                ReplayFails, ReplayDone, EdgeStarts, SinkFails, SinkReturns, Deliver, Handle, Bury,
                Ack, Insert, WorkerRestarts, vars, edgeVars
  <2>2. NoFault \/ Fault \/ Costs("read") \/ Costs("worker")
    BY <1>9 DEF Tick, SendRecord, SendFails, SpoolRecord, AppendOk, Replay, Rotate, Read, BreaksOff,
                ReadFails, ReplayRecord, ReplayFails, ReplayDone, EdgeStarts, SinkFails, SinkReturns, Deliver,
                Handle, Bury, Ack, Insert, WorkerRestarts, vars, NoFault
  <2> QED
    BY <1>1, <1>t, <2>1, <2>2, NoCharge
<1> QED
  BY <1>2, <1>3, <1>4, <1>6, <1>7, <1>8, <1>9 DEF Next, Flushing, Worker

(* What the cdr-worker loses.                                              *)
Kept == Waiting \cup inbox \cup rows \cup dlq

LEMMA WorkerFree ==
  ASSUME Typed, WorkerCharged, faults'.worker = faults.worker,
         Kept \subseteq Kept', sunk' \ sunk \subseteq Kept', Cardinality(inbox') <= InboxMax
  PROVE  WorkerCharged'
<1>1. LostAtWorker' \subseteq LostAtWorker
  BY DEF LostAtWorker, Kept
<1>2. LostAtWorker \subseteq Calls
  BY WithinCalls
<1>3. Cardinality(LostAtWorker') <= Cardinality(LostAtWorker)
  BY <1>1, <1>2, SmallerSet
<1>4. Cardinality(LostAtWorker) \in Nat /\ Cardinality(LostAtWorker') \in Nat
  BY <1>1, <1>2, CallsFinite
<1>5. faults.worker * InboxMax \in Nat
  BY FaultCounts, OnceMore, Sizes DEF Typed
<1> QED
  BY <1>3, <1>4, <1>5 DEF WorkerCharged

(* A fault of the worker pays for what its batch held.                     *)
LEMMA WorkerPays ==
  ASSUME Typed, WorkerCharged, Costs("worker"), sunk' = sunk,
         Kept \subseteq Kept' \cup inbox, inbox' \subseteq inbox
  PROVE  WorkerCharged'
<1>1. LostAtWorker' \subseteq LostAtWorker \cup inbox
  BY DEF LostAtWorker, Kept
<1>2. LostAtWorker \subseteq Calls /\ inbox \subseteq Calls
  BY WithinCalls
<1>3. Cardinality(LostAtWorker') <= Cardinality(LostAtWorker \cup inbox)
  BY <1>1, <1>2, SmallerSet
<1>4. Cardinality(LostAtWorker \cup inbox) <= Cardinality(LostAtWorker) + Cardinality(inbox)
  BY <1>2, UnionAtMost
<1>5. /\ Cardinality(LostAtWorker) \in Nat /\ Cardinality(LostAtWorker') \in Nat
      /\ Cardinality(LostAtWorker \cup inbox) \in Nat /\ Cardinality(inbox) \in Nat
      /\ Cardinality(inbox') \in Nat
  BY <1>1, <1>2, CallsFinite
<1>6. Cardinality(inbox') <= Cardinality(inbox)
  BY <1>2, SmallerSet
<1>7. faults.worker \in Nat /\ InboxMax \in Nat
  BY FaultCounts, Sizes DEF Typed
<1>8. faults'.worker = faults.worker + 1
  BY ChargedOnce DEF Typed
<1>9. /\ faults.worker * InboxMax \in Nat
      /\ (faults.worker + 1) * InboxMax = faults.worker * InboxMax + InboxMax
  BY <1>7, OnceMore
<1>10. Cardinality(LostAtWorker) <= faults.worker * InboxMax /\ Cardinality(inbox) <= InboxMax
  BY DEF WorkerCharged
<1>11. Cardinality(LostAtWorker') <= faults.worker * InboxMax + InboxMax
  BY <1>3, <1>4, <1>5, <1>7, <1>9, <1>10
<1>12. Cardinality(inbox') <= InboxMax
  BY <1>5, <1>6, <1>7, <1>10
<1> QED
  BY <1>8, <1>9, <1>11, <1>12 DEF WorkerCharged

LEMMA WorkerChargedStep ==
  ASSUME IInv, Charged, [Next]_vars
  PROVE  WorkerCharged'
<1>t. Typed /\ EdgeTyped /\ SinkTyped /\ WorkerTyped /\ FaultsTyped /\ WorkerCharged /\ Streamed
  BY TypesInParts DEF IInv, Typed, Charged
<1>i. Cardinality(inbox) <= InboxMax
  BY <1>t DEF WorkerCharged
<1>s. ASSUME NEW c, Sunk(c), UNCHANGED <<handling, inbox, dlq, faults>>
      PROVE  WorkerCharged'
  <2>1. Kept \subseteq Kept'
    BY <1>s DEF Sunk, Kept, Waiting
  <2>2. sunk' \ sunk \subseteq Kept'
    <3>1. CASE c \in sunk
      BY <1>s, <3>1 DEF Sunk
    <3>2. CASE c \notin sunk
      <4>1. handling.step = "taken" => handling.of # c
        BY <1>t, <3>2 DEF Streamed, NoMessage
      <4>2. c \in stream' \/ c \in rows'
        BY <1>s, <3>2 DEF Sunk
      <4>3. c \in Kept'
        BY <1>s, <4>1, <4>2 DEF Kept, Waiting
      <4> QED
        BY <1>s, <4>3 DEF Sunk
    <3> QED
      BY <3>1, <3>2
  <2> QED
    BY <1>s, <1>t, <1>i, <2>1, <2>2, WorkerFree
<1>k. ASSUME UNCHANGED <<sunk, stream, handling, inbox, dlq, rows>>,
             Uncharged \/ Costs("edge") \/ Costs("append") \/ Costs("read")
      PROVE  WorkerCharged'
  <2>1. Kept' = Kept
    BY <1>k DEF Kept, Waiting
  <2>2. faults'.worker = faults.worker
    BY <1>t, <1>k, ChargedOnce DEF Uncharged
  <2> QED
    BY <1>t, <1>i, <1>k, <2>1, <2>2, WorkerFree
<1>1. CASE SendRecord \/ SendFails \/ ReplayRecord \/ ReplayFails
  <2>1. /\ UNCHANGED <<handling, inbox, dlq, faults>>
        /\ (\E c : Sunk(c)) \/ UNCHANGED <<sunk, stream, rows>>
    BY <1>1 DEF SendRecord, SendFails, ReplayRecord, ReplayFails, workerVars
  <2> QED
    BY <1>s, <1>k, <2>1 DEF Uncharged
<1>2. ASSUME NEW c \in Calls, Deliver(c) PROVE WorkerCharged'
  <2>1. /\ handling = NoMessage /\ handling' = [step |-> "got", of |-> c]
        /\ UNCHANGED <<sunk, stream, inbox, dlq, rows, faults>>
    BY <1>2 DEF Deliver, sinkVars
  <2>2. Kept' = Kept
    BY <2>1 DEF Kept, Waiting, NoMessage
  <2> QED
    BY <1>t, <1>i, <2>1, <2>2, WorkerFree
<1>3. CASE Handle
  <2>1. /\ handling.step = "got" /\ handling' = [handling EXCEPT !.step = "taken"]
        /\ inbox' = inbox \cup {handling.of} /\ Cardinality(inbox) < InboxMax
        /\ UNCHANGED <<sunk, stream, dlq, rows, faults>>
    BY <1>3 DEF Handle, sinkVars
  <2>2. handling \in [step : {"got", "taken"}, of : Calls]
    BY <1>t, <2>1 DEF WorkerTyped, NoMessage
  <2>3. handling'.of = handling.of
    BY <2>1, <2>2
  <2>4. Kept \subseteq Kept'
    BY <2>1, <2>3 DEF Kept, Waiting
  <2>5. Cardinality(inbox') <= InboxMax
    <3>1. IsFiniteSet(inbox) /\ Cardinality(inbox) \in Nat
      BY <1>t, WithinCalls, CallsFinite
    <3>2. Cardinality(inbox') \in {Cardinality(inbox), Cardinality(inbox) + 1}
      BY <2>1, <3>1, FS_AddElement
    <3> QED
      BY <2>1, <3>1, <3>2, Sizes
  <2> QED
    BY <1>t, <2>1, <2>4, <2>5, WorkerFree
<1>4. CASE Bury
  <2>1. /\ handling.step = "got" /\ UNCHANGED <<sunk, stream, inbox, rows>>
        /\ \/ /\ dlq' = dlq \cup {handling.of}
              /\ handling' = [handling EXCEPT !.step = "taken"]
           \/ dlq' = dlq /\ handling' = NoMessage
        /\ NoFault \/ Fault
    BY <1>4 DEF Bury, sinkVars
  <2>2. handling \in [step : {"got", "taken"}, of : Calls]
    BY <1>t, <2>1 DEF WorkerTyped, NoMessage
  <2>3. Kept \subseteq Kept'
    <3>1. CASE dlq' = dlq /\ handling' = NoMessage
      BY <2>1, <3>1 DEF Kept, Waiting, NoMessage
    <3>2. CASE dlq' = dlq \cup {handling.of} /\ handling' = [handling EXCEPT !.step = "taken"]
      <4>1. handling'.of = handling.of
        BY <2>2, <3>2
      <4> QED
        BY <2>1, <3>2, <4>1 DEF Kept, Waiting
    <3> QED
      BY <2>1, <3>1, <3>2
  <2>4. faults'.worker = faults.worker
    BY <1>t, <2>1, NoCharge DEF Uncharged
  <2> QED
    BY <1>t, <1>i, <2>1, <2>3, <2>4, WorkerFree
<1>5. CASE Ack
  <2>1. /\ handling.step = "taken" /\ handling' = NoMessage
        /\ UNCHANGED <<sunk, inbox, rows, dlq>>
        /\ stream' \in {stream, stream \ {handling.of}}
        /\ NoFault \/ Fault
    BY <1>5 DEF Ack, sinkVars
  <2>2. Kept \subseteq Kept'
    BY <2>1 DEF Kept, Waiting, NoMessage
  <2>3. faults'.worker = faults.worker
    BY <1>t, <2>1, NoCharge DEF Uncharged
  <2> QED
    BY <1>t, <1>i, <2>1, <2>2, <2>3, WorkerFree
<1>6. ASSUME NEW S \in SUBSET inbox, Insert(S) PROVE WorkerCharged'
  <2>1. /\ inbox' = inbox \ S /\ UNCHANGED <<sunk, stream, handling, dlq>>
        /\ (rows' = rows \cup S /\ NoFault) \/ (Costs("worker") /\ rows' = rows)
    BY <1>6 DEF Insert, sinkVars
  <2>2. CASE rows' = rows \cup S /\ NoFault
    <3>1. Kept \subseteq Kept'
      BY <2>1, <2>2 DEF Kept, Waiting
    <3>2. Cardinality(inbox') <= InboxMax
      <4>1. Cardinality(inbox') <= Cardinality(inbox)
        BY <1>t, <2>1, WithinCalls, SmallerSet
      <4>2. Cardinality(inbox') \in Nat /\ Cardinality(inbox) \in Nat
        BY <1>t, <2>1, WithinCalls, CallsFinite
      <4> QED
        BY <1>i, <4>1, <4>2, Sizes
    <3>3. faults'.worker = faults.worker
      BY <1>t, <2>2, NoCharge DEF Uncharged
    <3> QED
      BY <1>t, <2>1, <3>1, <3>2, <3>3, WorkerFree
  <2>3. CASE Costs("worker") /\ rows' = rows
    <3>1. Kept \subseteq Kept' \cup inbox
      BY <2>1, <2>3 DEF Kept, Waiting
    <3> QED
      BY <1>t, <2>1, <2>3, <3>1, WorkerPays
  <2> QED
    BY <2>1, <2>2, <2>3
<1>7. CASE WorkerRestarts
  <2>1. /\ Costs("worker") /\ handling' = NoMessage /\ inbox' = {}
        /\ UNCHANGED <<sunk, stream, dlq, rows>>
    BY <1>7 DEF WorkerRestarts, sinkVars
  <2>2. Kept \subseteq Kept' \cup inbox
    BY <2>1 DEF Kept, Waiting, NoMessage
  <2> QED
    BY <1>t, <2>1, <2>2, WorkerPays
<1>8. CASE \/ \E c \in Calls : Send(c)
           \/ Take \/ Tick \/ Drain \/ FlushDone \/ SpoolRecord \/ SpoolFails
           \/ Rotate \/ (\E file \in replay.todo : \E upto \in 1 .. Len(file) + 1 : Read(file, upto))
           \/ (\E file \in replay.todo : ReadFails(file)) \/ ReplayDone
           \/ EdgeStops \/ EdgeStarts \/ SinkFails \/ SinkReturns \/ UNCHANGED vars
  <2>1. UNCHANGED <<sunk, stream, handling, inbox, dlq, rows>>
    BY <1>8 DEF Send, Take, Tick, Drain, FlushDone, SpoolRecord, SpoolFails, Rotate, Read,
                ReadFails, ReplayDone, EdgeStops, EdgeStarts, SinkFails, SinkReturns, vars, workerVars, sinkVars
  <2>2. NoFault \/ Fault \/ Costs("edge") \/ Costs("append") \/ Costs("read")
    BY <1>8 DEF Send, Take, Tick, Drain, FlushDone, SpoolRecord, SpoolFails, AppendOk, AppendFails,
                Rotate, Read, BreaksOff, ReadFails, ReplayDone, EdgeStops, EdgeStarts, SinkFails,
                SinkReturns, vars, NoFault
  <2> QED
    BY <1>k, <1>t, <2>1, <2>2, NoCharge
<1> QED
  BY <1>1, <1>2, <1>3, <1>4, <1>5, <1>6, <1>7, <1>8 DEF Next, Flushing, Replay, Worker

LEMMA InitCharged == Init => Charged
<1> SUFFICES ASSUME Init PROVE Charged
  OBVIOUS
<1>1. Flushed
  BY DEF Init, Flushed, Filling
<1>2. Closing /\ Streamed
  BY DEF Init, Closing, Streamed
<1>3. LostAtEdge \ late = {} /\ LostAtWorker = {} /\ inbox = {}
  BY DEF Init, LostAtEdge, LostAtWorker
<1>4. Cardinality({}) = 0
  BY FS_EmptySet
<1>5. /\ faults.edge * (QueueMax + BatchMax) \in Nat
      /\ faults.append * (QueueMax + BatchMax) \in Nat /\ faults.worker * InboxMax \in Nat
  BY Sizes, OnceMore DEF Init
<1>6. EdgeCharged
  <2>1. Cardinality(LostAtEdge \ late) = 0
    BY <1>3, <1>4
  <2>2. ASSUME NEW a \in Nat, NEW b \in Nat PROVE 0 <= a + b
    OBVIOUS
  <2>3. 0 <= faults.edge * (QueueMax + BatchMax) + faults.append * (QueueMax + BatchMax)
    BY <1>5, <2>2
  <2> QED
    BY <2>1, <2>3 DEF EdgeCharged
<1>7. WorkerCharged
  BY <1>3, <1>4, <1>5, Sizes DEF WorkerCharged
<1> QED
  BY <1>1, <1>2, <1>6, <1>7 DEF Charged

(* Every record that is missing was lost by a fault that has been counted,   *)
(* came while its edge drained, or went with a file that was not read to    *)
(* its end, and then the disk has failed (LossBounded): outages of the sink *)
(* and restarts on top of them, with their retries and replays, cost none.  *)
THEOREM LossIsBounded == Spec => []LossBounded
<1>1. IInv /\ Charged /\ [Next]_vars => Charged'
  <2> SUFFICES ASSUME IInv, Charged, [Next]_vars PROVE Charged'
    OBVIOUS
  <2>1. Typed /\ OneRecordALine /\ Flushed /\ Closing /\ Streamed
    BY TypesInParts DEF IInv, Charged
  <2>2. Remembers
    BY InvariantKept, LogRemembers
  <2>3. Closing' /\ late \subseteq late'
    BY <2>1, ClosingStep
  <2> QED
    BY <2>1, <2>2, <2>3, FlushedStep, StreamedStep, EdgeChargedStep, WorkerChargedStep DEF Charged
<1>2. IInv /\ Charged => LossBounded
  <2> SUFFICES ASSUME IInv, Charged PROVE LossBounded
    OBVIOUS
  <2>1. Typed
    BY TypesInParts DEF IInv
  <2> DEFINE Edge == LostAtEdge \ late
             EdgeCost == faults.edge * (QueueMax + BatchMax)
             AppendCost == faults.append * (QueueMax + BatchMax)
             WorkerCost == faults.worker * InboxMax
  <2>0. unread # {} => Damaged
    BY DEF IInv, DamageHasACause
  <2>2. Gone \ unread \subseteq (late \cup Edge) \cup LostAtWorker
    BY DEF Gone, LostAtEdge, Placed, LostAtWorker, Waiting
  <2>3. late \subseteq Calls /\ Edge \subseteq Calls /\ LostAtWorker \subseteq Calls
    BY <2>1, WithinCalls
  <2>4. Cardinality(Edge) <= EdgeCost + AppendCost /\ Cardinality(LostAtWorker) <= WorkerCost
    BY DEF Charged, EdgeCharged, WorkerCharged
  <2>5. EdgeCost \in Nat /\ AppendCost \in Nat /\ WorkerCost \in Nat
    BY <2>1, FaultCounts, OnceMore, Sizes DEF Typed
  <2>6. LossBounded <=> /\ Cardinality(Gone \ unread)
                             <= Cardinality(late) + EdgeCost + AppendCost + WorkerCost
                        /\ unread # {} => Damaged
    BY DEF LossBounded
  <2> HIDE DEF Edge, EdgeCost, AppendCost, WorkerCost
  <2>7. /\ Cardinality(Gone \ unread) <= Cardinality((late \cup Edge) \cup LostAtWorker)
        /\ Cardinality((late \cup Edge) \cup LostAtWorker)
             <= Cardinality(late \cup Edge) + Cardinality(LostAtWorker)
        /\ Cardinality(late \cup Edge) <= Cardinality(late) + Cardinality(Edge)
    BY <2>2, <2>3, SmallerSet, UnionAtMost
  <2>8. /\ Cardinality(Gone \ unread) \in Nat /\ Cardinality((late \cup Edge) \cup LostAtWorker) \in Nat
        /\ Cardinality(late \cup Edge) \in Nat /\ Cardinality(LostAtWorker) \in Nat
        /\ Cardinality(late) \in Nat /\ Cardinality(Edge) \in Nat
    BY <2>2, <2>3, CallsFinite
  <2> QED
    BY <2>0, <2>4, <2>5, <2>6, <2>7, <2>8
<1>3. Spec => [](IInv /\ Charged)
  BY <1>1, InitCharged, InvariantHolds, PTL DEF Spec
<1> QED
  BY <1>2, <1>3, PTL
=============================================================================
