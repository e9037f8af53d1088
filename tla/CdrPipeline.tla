----------------------------- MODULE CdrPipeline -----------------------------
(***************************************************************************)
(* The way of a CDR from the end of its call to the table call_cdrs: the    *)
(* queue and the batch worker of the edge (runtime.rs), the spool on its    *)
(* disk with the loop that replays it (cdr/spool), the sink, which is NATS  *)
(* or, when NATS was not there at the start, PostgreSQL (cdr/pipeline.rs),  *)
(* and the cdr-worker that brings the stream into PostgreSQL (consumer.rs,  *)
(* batch.rs).  Edge and worker crash and restart, the sink has outages, the *)
(* disk refuses writes.                                                    *)
(*                                                                         *)
(* A CDR is known by its call; a call hands over one.                      *)
(***************************************************************************)
EXTENDS Naturals, Sequences, FiniteSets, SequencesExt

CONSTANTS
  Calls,      \* calls that end
  Poison,     \* calls whose event the worker cannot decode
  QueueMax,   \* capacity of the queue of the edge
  BatchMax,   \* records of a batch (100)
  Attempts,   \* flush_cdr_batch_with_retry_and_spool: 3
  InboxMax,   \* channel and batch of the cdr-worker
  MaxDeliver, \* max_deliver of the consumer
  MaxFaults   \* bound: faults of all kinds and planned stops

ASSUME PipelineAssumption ==
  /\ IsFiniteSet(Calls) /\ Poison \subseteq Calls
  /\ {QueueMax, BatchMax, Attempts, InboxMax, MaxDeliver} \subseteq Nat \ {0}
  /\ MaxFaults \in Nat

VARIABLES
  edge,       \* "closed": the batch worker has ended, the process not yet
  raised,     \* calls that have handed over their CDR
  queue,      \* mpsc channel to the batch worker
  batch,      \* what the batch worker has taken
  flush,      \* how far it is with it
  active,     \* lines of active.jsonl
  segments,   \* replay-*.jsonl: sets of sequences of lines
  replay,     \* what the replay loop has left to do in this round
  archived,   \* records in .corrupt files
  unread,     \* records of lines that were not read when their file went
  sink,       \* what the edge writes to
  sinkUp,
  sunk,       \* records the sink has taken, ever
  stream,     \* messages of the JetStream work queue
  deliveries, \* how often the stream has delivered a message
  handling,   \* the message the cdr-worker is at
  inbox,      \* records in its channel and its batch
  dlq,        \* dead letters
  rows,       \* call_cdrs
  late,       \* records handed over while the batch worker drained
  faults      \* how many are left, and how many there were

edgeVars == <<edge, raised, queue, batch, flush, late>>
spoolVars == <<active, segments, replay, archived, unread>>
sinkVars == <<sink, sinkUp, sunk>>
workerVars == <<deliveries, handling, inbox, dlq>>
vars == <<edgeVars, spoolVars, sinkVars, stream, workerVars, rows, faults>>

(* A line parses ("record"), does not ("broken"), or is not even UTF-8      *)
(* ("unreadable"); one that has not ended goes on with the next write.      *)
Line(kind, ended, S) == [kind |-> kind, ended |-> ended, of |-> S]
Lines == [kind : {"record", "broken", "unreadable"}, ended : BOOLEAN, of : SUBSET Calls]

Of(lines) == UNION {line.of : line \in ToSet(lines)}

Filling == [phase |-> "fill", try |-> 1, done |-> 0]
NoRound == [todo |-> {}, file |-> <<>>, upto |-> 0, left |-> {}]
NoMessage == [step |-> "none"]

TypeOK ==
  /\ edge \in {"up", "draining", "closed", "down"}
  /\ raised \subseteq Calls /\ late \subseteq Calls
  /\ queue \in Seq(Calls) /\ Len(queue) <= QueueMax
  /\ batch \in Seq(Calls) /\ Len(batch) <= BatchMax + QueueMax
  /\ flush \in [phase : {"fill", "send", "spool"}, try : 1..Attempts, done : Nat]
  /\ flush.done <= Len(batch)
  /\ active \in Seq(Lines)
  /\ segments \subseteq Seq(Lines)
  /\ replay \in [todo : SUBSET Seq(Lines), file : Seq(Lines), upto : Nat, left : SUBSET Nat]
  /\ archived \subseteq Calls /\ unread \subseteq Calls
  /\ sink \in {"nats", "postgres"} /\ sinkUp \in BOOLEAN
  /\ sunk \subseteq Calls /\ stream \subseteq Calls
  /\ deliveries \in [Calls -> 0..MaxDeliver]
  /\ handling = NoMessage \/ handling \in [step : {"got", "taken"}, of : Calls]
  /\ inbox \subseteq Calls /\ dlq \subseteq Calls /\ rows \subseteq Calls
  /\ faults \in [{"left", "edge", "append", "read", "worker"} -> 0..MaxFaults]

Init ==
  /\ edge = "up" /\ raised = {} /\ late = {}
  /\ queue = <<>> /\ batch = <<>> /\ flush = Filling
  /\ active = <<>> /\ segments = {} /\ replay = NoRound
  /\ archived = {} /\ unread = {}
  /\ sink \in {"nats", "postgres"} /\ sinkUp = TRUE /\ sunk = {}
  /\ stream = {} /\ deliveries = [c \in Calls |-> 0] /\ handling = NoMessage
  /\ inbox = {} /\ dlq = {} /\ rows = {}
  /\ faults = [left |-> MaxFaults, edge |-> 0, append |-> 0, read |-> 0, worker |-> 0]

(* Faults that can cost records are counted by what they cost. *)
Fault == faults.left > 0 /\ faults' = [faults EXCEPT !.left = @ - 1]

Costs(kind) == faults.left > 0 /\ faults' = [faults EXCEPT !.left = @ - 1, ![kind] = @ + 1]

NoFault == UNCHANGED faults

-----------------------------------------------------------------------------
(* The edge: CdrSpool::append writes at the end of the file, behind what a  *)
(* failed write has left there.                                            *)
Written(c, kind, ended) ==
  IF active # <<>> /\ ~Last(active).ended
  THEN [active EXCEPT ![Len(active)] =
          Line(IF "unreadable" \in {kind, @.kind} THEN "unreadable" ELSE "broken",
               ended, @.of \cup {c})]
  ELSE Append(active, Line(kind, ended, {c}))

AppendOk(c) == active' = Written(c, "record", TRUE) /\ NoFault

(* The disk is full or the sync fails: all was written, nothing, or a part, *)
(* which lacks only the end of its line, or ends between two characters or  *)
(* within one.                                                             *)
AppendFails(c) ==
  /\ Costs("append")
  /\ \/ UNCHANGED active
     \/ active' = Written(c, "record", TRUE)
     \/ \E kind \in {"record", "broken", "unreadable"} : active' = Written(c, kind, FALSE)

Room_OffByOne == Len(queue) <= QueueMax

Room == Len(queue) < QueueMax

(* DurableCdrSink::try_send_cdr: the queue, or the spool when it is full or *)
(* its reader has gone.                                                    *)
Send(c) ==
  /\ edge # "down" /\ c \notin raised
  /\ raised' = raised \cup {c}
  /\ IF edge # "closed" /\ Room
     THEN /\ queue' = Append(queue, c)
          /\ late' = IF edge = "draining" THEN late \cup {c} ELSE late
          /\ UNCHANGED active /\ NoFault
     ELSE /\ AppendOk(c) \/ AppendFails(c)
          /\ UNCHANGED <<queue, late>>
  /\ UNCHANGED <<edge, batch, flush, segments, replay, archived, unread, sinkVars, stream,
                 workerVars, rows>>

(* spawn_cdr_worker: recv, and a flush when the batch is full or on a tick. *)
Take ==
  /\ edge = "up" /\ flush = Filling /\ queue # <<>> /\ Len(batch) < BatchMax
  /\ batch' = Append(batch, Head(queue))
  /\ queue' = Tail(queue)
  /\ UNCHANGED <<edge, raised, flush, late, spoolVars, sinkVars, stream, workerVars,
                 rows, faults>>

Tick ==
  /\ edge = "up" /\ flush = Filling /\ batch # <<>>
  /\ flush' = [Filling EXCEPT !.phase = "send"]
  /\ UNCHANGED <<edge, raised, queue, batch, late, spoolVars, sinkVars, stream,
                 workerVars, rows, faults>>

(* The shutdown drains the queue into the batch and flushes it. *)
Drain ==
  /\ edge = "up" /\ flush = Filling
  /\ Fault
  /\ edge' = "draining"
  /\ batch' = batch \o queue
  /\ queue' = <<>>
  /\ flush' = [Filling EXCEPT !.phase = "send"]
  /\ UNCHANGED <<raised, late, spoolVars, sinkVars, stream, workerVars, rows>>

(* The worker of a draining edge ends with its flush; the channel goes, and *)
(* whatever was sent meanwhile goes with it.                               *)
FlushEnds ==
  /\ batch' = <<>>
  /\ flush' = Filling
  /\ IF edge = "draining" THEN edge' = "closed" /\ queue' = <<>>
                          ELSE UNCHANGED <<edge, queue>>

(* The sink takes a record: the stream by its message id, which it forgets  *)
(* in time, the table by its key.                                          *)
Sunk(c) ==
  /\ sunk' = sunk \cup {c}
  /\ IF sink = "nats"
     THEN /\ \/ stream' = stream \cup {c}
             \/ c \in sunk /\ UNCHANGED stream
          /\ UNCHANGED rows
     ELSE rows' = rows \cup {c} /\ UNCHANGED stream

(* flush_cdr_batch sends one record after the other; an error, also one     *)
(* that hides a success, has the whole batch sent again.                   *)
SendRecord ==
  /\ flush.phase = "send" /\ flush.done < Len(batch) /\ sinkUp
  /\ Sunk(batch[flush.done + 1])
  /\ flush' = [flush EXCEPT !.done = @ + 1]
  /\ UNCHANGED <<edge, raised, queue, batch, late, spoolVars, sink, sinkUp, workerVars, faults>>

GivenUp_Dropped == [flush EXCEPT !.done = Len(batch)]

GivenUp == [flush EXCEPT !.phase = "spool", !.done = 0]

SendFails ==
  /\ flush.phase = "send" /\ flush.done < Len(batch) /\ ~sinkUp
  /\ Sunk(batch[flush.done + 1]) \/ UNCHANGED <<sunk, stream, rows>>
  /\ flush' = IF flush.try < Attempts THEN [flush EXCEPT !.try = @ + 1, !.done = 0]
              ELSE GivenUp
  /\ UNCHANGED <<edge, raised, queue, batch, late, spoolVars, sink, sinkUp, workerVars, faults>>

FlushDone ==
  /\ flush.phase \in {"send", "spool"} /\ flush.done = Len(batch)
  /\ FlushEnds
  /\ UNCHANGED <<raised, late, spoolVars, sinkVars, stream, workerVars, rows, faults>>

(* append_batch stops at the first error. *)
SpoolRecord ==
  /\ flush.phase = "spool" /\ flush.done < Len(batch)
  /\ AppendOk(batch[flush.done + 1])
  /\ flush' = [flush EXCEPT !.done = @ + 1]
  /\ UNCHANGED <<edge, raised, queue, batch, late, segments, replay, archived, unread,
                 sinkVars, stream, workerVars, rows>>

SpoolFails ==
  /\ flush.phase = "spool" /\ flush.done < Len(batch)
  /\ AppendFails(batch[flush.done + 1])
  /\ FlushEnds
  /\ UNCHANGED <<raised, late, segments, replay, archived, unread, sinkVars, stream, workerVars,
                 rows>>

-----------------------------------------------------------------------------
Pending_NewOnly == active # <<>>

Pending == active # <<>> \/ segments # {}

(* replay_once: the active file becomes a segment, and the segments are     *)
(* listed.  Rounds do not overlap.                                         *)
Rotate ==
  /\ edge # "down" /\ replay = NoRound
  /\ Pending
  /\ segments' = IF active = <<>> THEN segments ELSE segments \cup {active}
  /\ replay' = [NoRound EXCEPT !.todo = segments']
  /\ active' = <<>>
  /\ UNCHANGED <<edgeVars, archived, unread, sinkVars, stream, workerVars, rows, faults>>

(* read_spool_file breaks off at the first line that is not UTF-8, or where *)
(* the disk fails; the lines before it that do not parse are copied to the  *)
(* archive.                                                                *)
Records(file, upto) == {i \in 1 .. upto - 1 : file[i].kind = "record"}
Broken(file, upto) == UNION {file[i].of : i \in {j \in 1 .. upto - 1 : file[j].kind # "record"}}
Behind(file, upto) == UNION {file[i].of : i \in upto .. Len(file)}

Readable(file, upto) ==
  /\ upto \in 1 .. Len(file) + 1
  /\ \A i \in 1 .. upto - 1 : file[i].kind # "unreadable"

BreaksOff(file, upto) ==
  \/ upto <= Len(file) /\ file[upto].kind = "unreadable" /\ NoFault
  \/ upto = Len(file) + 1 /\ NoFault
  \/ upto <= Len(file) /\ Costs("read")

(* What was read is sent; when that is nothing the file is removed.        *)
Read(file, upto) ==
  /\ file \in replay.todo /\ replay.file = <<>>
  /\ Readable(file, upto) /\ BreaksOff(file, upto)
  /\ archived' = archived \cup Broken(file, upto)
  /\ IF Records(file, upto) = {}
     THEN /\ replay' = [replay EXCEPT !.todo = @ \ {file}]
          /\ segments' = segments \ {file}
          /\ unread' = unread \cup Behind(file, upto)
     ELSE /\ replay' = [todo |-> replay.todo \ {file}, file |-> file, upto |-> upto,
                        left |-> Records(file, upto)]
          /\ UNCHANGED <<segments, unread>>
  /\ UNCHANGED <<edgeVars, active, sinkVars, stream, workerVars, rows>>

(* archive_corrupt_file: a file that cannot be opened, or whose broken     *)
(* lines cannot be copied, goes to the archive itself, or stays when it    *)
(* cannot be renamed, with the lines that were copied in the archive, too.  *)
(* So does a file of which nothing is to be sent and that is not removed.   *)
ReadFails(file) ==
  /\ file \in replay.todo /\ replay.file = <<>>
  /\ Fault
  /\ replay' = [replay EXCEPT !.todo = @ \ {file}]
  /\ \/ archived' = archived \cup Of(file) /\ segments' = segments \ {file}
     \/ /\ \E upto \in 1 .. Len(file) + 1 :
             Readable(file, upto) /\ archived' = archived \cup Broken(file, upto)
        /\ UNCHANGED segments
  /\ UNCHANGED <<edgeVars, active, unread, sinkVars, stream, workerVars, rows>>

Replaying == replay.file # <<>>
Left_SkipsLast == \E i, j \in replay.left : i # j

Left == replay.left # {}
NextLines == {i \in replay.left : \A j \in replay.left : i <= j}

ReplayRecord ==
  /\ Replaying /\ Left /\ sinkUp
  /\ \E i \in NextLines : /\ \E c \in replay.file[i].of : Sunk(c)
                          /\ replay' = [replay EXCEPT !.left = @ \ {i}]
  /\ UNCHANGED <<edgeVars, active, segments, archived, unread, sink, sinkUp, workerVars, faults>>

ReplayFails ==
  /\ Replaying /\ Left /\ ~sinkUp
  /\ \/ \E i \in NextLines : \E c \in replay.file[i].of : Sunk(c)
     \/ UNCHANGED <<sunk, stream, rows>>
  /\ replay' = NoRound
  /\ UNCHANGED <<edgeVars, active, segments, archived, unread, sink, sinkUp, workerVars, faults>>

(* complete_replay; a file that cannot be removed is replayed again.  With  *)
(* it go the lines that were not read.                                     *)
ReplayDone ==
  /\ Replaying /\ ~Left
  /\ \/ /\ segments' = segments \ {replay.file}
        /\ unread' = unread \cup Behind(replay.file, replay.upto)
        /\ NoFault
     \/ Fault /\ UNCHANGED <<segments, unread>>
  /\ replay' = [NoRound EXCEPT !.todo = replay.todo]
  /\ UNCHANGED <<edgeVars, active, archived, sinkVars, stream, workerVars, rows>>

-----------------------------------------------------------------------------
(* The process ends, drained, in a crash, or because the drain took too     *)
(* long, and is started again: it looks for NATS once.                     *)
EdgeStops ==
  /\ edge # "down"
  /\ edge' = "down"
  /\ IF edge = "closed" THEN NoFault ELSE Costs("edge")
  /\ queue' = <<>> /\ batch' = <<>> /\ flush' = Filling /\ replay' = NoRound
  /\ UNCHANGED <<raised, late, active, segments, archived, unread, sinkVars, stream, workerVars,
                 rows>>

EdgeStarts ==
  /\ edge = "down"
  /\ edge' = "up"
  /\ sink' \in {"nats", "postgres"}
  /\ UNCHANGED <<raised, queue, batch, flush, late, spoolVars, sinkUp, sunk, stream,
                 workerVars, rows, faults>>

SinkFails ==
  /\ sinkUp /\ Fault /\ sinkUp' = FALSE
  /\ UNCHANGED <<edgeVars, spoolVars, sink, sunk, stream, workerVars, rows>>

SinkReturns ==
  /\ ~sinkUp /\ sinkUp' = TRUE
  /\ UNCHANGED <<edgeVars, spoolVars, sink, sunk, stream, workerVars, rows, faults>>

-----------------------------------------------------------------------------
(* The cdr-worker.  A message stays in the stream until it is acknowledged. *)
Deliver(c) ==
  /\ c \in stream /\ handling = NoMessage /\ deliveries[c] < MaxDeliver
  /\ deliveries' = [deliveries EXCEPT ![c] = @ + 1]
  /\ handling' = [step |-> "got", of |-> c]
  /\ UNCHANGED <<edgeVars, spoolVars, sinkVars, stream, inbox, dlq, rows, faults>>

(* process_nats_message: an event goes into the channel, then is            *)
(* acknowledged.                                                           *)
Handle ==
  /\ handling.step = "got" /\ handling.of \notin Poison
  /\ Cardinality(inbox) < InboxMax
  /\ inbox' = inbox \cup {handling.of}
  /\ handling' = [handling EXCEPT !.step = "taken"]
  /\ UNCHANGED <<edgeVars, spoolVars, sinkVars, stream, deliveries, dlq, rows, faults>>

(* A poison message goes to the dead letters before it is ended. *)
Bury ==
  /\ handling.step = "got" /\ handling.of \in Poison
  /\ \/ /\ dlq' = dlq \cup {handling.of} /\ NoFault
        /\ handling' = [handling EXCEPT !.step = "taken"]
     \/ /\ Fault /\ UNCHANGED dlq
        /\ handling' = NoMessage
  /\ UNCHANGED <<edgeVars, spoolVars, sinkVars, stream, deliveries, inbox, rows>>

Ack ==
  /\ handling.step = "taken"
  /\ \/ /\ stream' = stream \ {handling.of}
        /\ deliveries' = [deliveries EXCEPT ![handling.of] = 0]
        /\ NoFault
     \/ Fault /\ UNCHANGED <<stream, deliveries>>
  /\ handling' = NoMessage
  /\ UNCHANGED <<edgeVars, spoolVars, sinkVars, inbox, dlq, rows>>

(* flush_batch: one statement; an error is logged and the batch is gone. *)
Insert(S) ==
  /\ S # {} /\ S \subseteq inbox
  /\ inbox' = inbox \ S
  /\ \/ rows' = rows \cup S /\ NoFault
     \/ Costs("worker") /\ UNCHANGED rows
  /\ UNCHANGED <<edgeVars, spoolVars, sinkVars, stream, deliveries, handling, dlq>>

WorkerRestarts ==
  /\ handling # NoMessage \/ inbox # {}
  /\ Costs("worker")
  /\ handling' = NoMessage /\ inbox' = {}
  /\ UNCHANGED <<edgeVars, spoolVars, sinkVars, stream, deliveries, dlq, rows>>

-----------------------------------------------------------------------------
Flushing == SendRecord \/ SendFails \/ FlushDone \/ SpoolRecord \/ SpoolFails

Replay ==
  \/ Rotate \/ ReplayRecord \/ ReplayFails \/ ReplayDone
  \/ \E file \in replay.todo :
       \/ \E upto \in 1 .. Len(file) + 1 : Read(file, upto)
       \/ ReadFails(file)

Worker == (\E c \in Calls : Deliver(c)) \/ Handle \/ Bury \/ Ack
          \/ (\E S \in SUBSET inbox : Insert(S))

Next ==
  \/ \E c \in Calls : Send(c)
  \/ Take \/ Tick \/ Drain \/ Flushing \/ Replay
  \/ EdgeStops \/ EdgeStarts \/ SinkFails \/ SinkReturns
  \/ Worker \/ WorkerRestarts

Spec == Init /\ [][Next]_vars

(* Tasks run, an outage ends, a stopped edge is started again ("restart:    *)
(* unless-stopped", deploy/docker/docker-compose.yml), and the replay loop  *)
(* and the stream give every file and message its turn.                    *)
FairSpec ==
  /\ Spec
  /\ WF_vars(Take) /\ WF_vars(Tick) /\ WF_vars(Flushing) /\ SF_vars(Rotate)
  /\ SF_vars(ReplayRecord) /\ WF_vars(Replay)
  /\ WF_vars(EdgeStarts) /\ WF_vars(SinkReturns)
  /\ \A c \in Calls : WF_vars(Deliver(c))
  /\ WF_vars(Handle \/ Bury \/ Ack) /\ WF_vars(Insert(inbox))

-----------------------------------------------------------------------------
Memory == ToSet(queue) \cup ToSet(batch)
Spooled == Of(active) \cup UNION {Of(file) : file \in segments}
Gone == raised \ (Memory \cup Spooled \cup archived \cup stream \cup inbox \cup rows \cup dlq)

(* What a fault may cost, from the end of a call to the table: an edge that *)
(* stops loses its queue and one batch, a write that fails the rest of one  *)
(* batch, a cdr-worker that stops or a failed INSERT what the worker has    *)
(* acknowledged and not written; what was sent while the last batch was     *)
(* flushed is lost with its channel.  Lines that were not read go with      *)
(* their file, however many they are, but only once a write or a read of    *)
(* the disk has failed.  Nothing else ever loses a record: not an outage,   *)
(* however the retries, the spool and its replay go, nor any restart on     *)
(* top of it.                                                              *)
Damaged == faults.append + faults.read > 0

LossBounded ==
  /\ Cardinality(Gone \ unread) <=
       Cardinality(late) + faults.edge * (QueueMax + BatchMax)
         + faults.append * (QueueMax + BatchMax)
         + faults.worker * InboxMax
  /\ unread # {} => Damaged

(* The edge keeps what CdrLog promises: as long as no write and no read of  *)
(* the disk has failed, a record on the spool stays there until the sink    *)
(* has it or it is put aside, through rotations, failed replays, crashes    *)
(* and restarts; after that it may also go as a line that was not read      *)
(* (cdr/spool/mod.rs).                                                     *)
Log == INSTANCE CdrLog WITH volatile <- Memory, durable <- Spooled, stored <- sunk,
                            damaged <- Damaged
SpoolKeeps == Log!LogSpec

(* What these rest on: every fault is counted once; the batch grows past    *)
(* its size only to drain the queue.                                       *)
FaultsAddUp ==
  faults.left + faults.edge + faults.append + faults.read + faults.worker <= MaxFaults
BatchFits == edge # "draining" => Len(batch) <= BatchMax

(* Only what was handed over is anywhere; the replay loop works on segments *)
(* that are there, and what it has read of its file is with the sink or the *)
(* archive unless it is still to be sent.                                  *)
OnlyRaised == Memory \cup Spooled \cup sunk \cup archived \cup unread \subseteq raised

OneRecordALine ==
  \A file \in segments \cup {active} : \A i \in Records(file, Len(file) + 1) :
    \E c \in Calls : file[i].of = {c}

RoundOnSegments ==
  /\ replay.todo \subseteq segments
  /\ replay.file # <<>> =>
       /\ replay.file \in segments \ replay.todo
       /\ replay.upto \in 1 .. Len(replay.file) + 1
       /\ replay.left \subseteq Records(replay.file, replay.upto)
       /\ \A i \in 1 .. replay.upto - 1 :
            i \in replay.left \/ replay.file[i].of \subseteq sunk \cup archived

(* A line is unreadable, and a reading breaks off, because the disk failed. *)
DamageHasACause ==
  \/ Damaged
  \/ /\ \A file \in segments \cup {active} :
          \A i \in 1 .. Len(file) : file[i].kind # "unreadable"
     /\ replay.file # <<>> => replay.upto = Len(replay.file) + 1
     /\ unread = {}

IInv == TypeOK /\ FaultsAddUp /\ BatchFits /\ OnlyRaised /\ OneRecordALine /\ RoundOnSegments
        /\ DamageHasACause

(* Every record that is handed over comes to rest: in the table, with the   *)
(* dead letters, in the archive, lost to a fault, or left in the stream     *)
(* after its last delivery, which nobody looks at again.                   *)
Rests(c) ==
  \/ c \in rows \cup dlq \cup archived \cup Gone
  \/ c \in stream /\ deliveries[c] = MaxDeliver
Delivered == \A c \in Calls : c \in raised ~> Rests(c)
=============================================================================
