------------------------------- MODULE CdrLog -------------------------------
(***************************************************************************)
(* What the CDR pipeline of an edge promises to a call that hands over its  *)
(* record: in memory a record is at the mercy of the process, on the spool  *)
(* it is not, and it leaves the spool only for the sink or, when its line   *)
(* does not parse, for the file that is kept for manual recovery; once the *)
(* disk has failed, also with a file that could not be read to its end.     *)
(***************************************************************************)
EXTENDS FiniteSets

CONSTANT Calls

VARIABLES
  volatile,  \* records only the process has
  durable,   \* records on the disk of the edge, to be replayed
  stored,    \* records the sink has taken
  archived,  \* records put aside for manual recovery
  unread,    \* records that went with a file that was not read to its end
  damaged    \* a write or a read of the disk has failed

log == <<volatile, durable, stored, archived, unread>>

LogInit == volatile = {} /\ durable = {} /\ stored = {} /\ archived = {} /\ unread = {}

(* A record comes in, or is lost at the door. *)
Accept(c) ==
  /\ c \notin volatile \cup durable \cup stored \cup archived \cup unread
  /\ \/ volatile' = volatile \cup {c} /\ UNCHANGED durable
     \/ durable' = durable \cup {c} /\ UNCHANGED volatile
  /\ UNCHANGED <<stored, archived, unread>>

(* The process may lose what only it has; what is saved is saved. *)
Save(c) ==
  /\ c \in volatile
  /\ durable' = durable \cup {c}
  /\ volatile' \in SUBSET volatile
  /\ UNCHANGED <<stored, archived, unread>>

Lose ==
  /\ volatile' \in SUBSET volatile
  /\ UNCHANGED <<durable, stored, archived, unread>>

(* A record the sink has may still be known to the process or the spool:    *)
(* it will be sent again.                                                  *)
Store(c) ==
  /\ c \in volatile \cup durable
  /\ stored' = stored \cup {c}
  /\ volatile' \in SUBSET volatile
  /\ UNCHANGED <<durable, archived, unread>>

(* Only what the sink or the archive has is forgotten by the spool, or,     *)
(* when the disk has failed, what was not read.                            *)
Forget ==
  /\ archived' \in {archived \cup S : S \in SUBSET durable}
  /\ unread' \in {unread \cup S : S \in IF damaged' THEN SUBSET durable ELSE {{}}}
  /\ durable' \in {durable \ S : S \in SUBSET (stored \cup archived' \cup unread')}
  /\ UNCHANGED <<volatile, stored>>

LogNext ==
  \/ Lose \/ Forget
  \/ \E c \in Calls : Accept(c) \/ Save(c) \/ Store(c)

LogSpec == LogInit /\ [][LogNext]_log
=============================================================================
