----------------------------- MODULE AuditOutbox -----------------------------
(***************************************************************************)
(* The audit pipeline: services append events to the outbox table, the     *)
(* outbox workers (one per server) publish them to a Kafka topic and mark  *)
(* them processed, and the consumer group stores them in audit_events.     *)
(*                                                                         *)
(* Workers, consumers and the database take steps in any order; a worker   *)
(* or a consumer may stop or crash between any two of its calls.           *)
(*                                                                         *)
(* Abstractions.  An event is its id; ids are numbered by created_at, which *)
(* is the order of a batch, while transactions commit in any order.  The   *)
(* topic keeps what it acknowledged (acks=all) and the group starts at the *)
(* earliest offset, both the defaults.  A partition is read by one member  *)
(* of the group at a time.                                                 *)
(***************************************************************************)
EXTENDS Naturals, Sequences, FiniteSets

CONSTANTS
  Entry,          \* outbox entries, numbered in the order of created_at
  Worker,         \* outbox workers, one per server process
  Partition,      \* partitions of the topic
  PartitionOf,    \* the partition a key is hashed to
  BatchSize,      \* entries per poll
  HandlerFails,   \* whether storing an event can fail
  MaxFaults       \* bound: crashes, stops, lost acknowledgements, failed writes

ASSUME OutboxAssumption ==
  /\ Entry \subseteq Nat
  /\ PartitionOf \in [Entry -> Partition]
  /\ BatchSize \in Nat \ {0} /\ MaxFaults \in Nat
  /\ HandlerFails \in BOOLEAN

VARIABLES
  outbox,       \* outbox table: "absent", "pending" (processed_at null), "processed"
  worker,       \* local state of every worker
  log,          \* the records of every partition
  committed,    \* records the group has committed, per partition
  reader,       \* local state of the consumer that reads a partition
  events,       \* audit_events: number of rows with the event's id
  faults        \* history: faults so far

kafka == <<log, committed>>
vars == <<outbox, worker, log, committed, reader, events, faults>>

WorkerState == [mode: {"run", "drain", "off"}, pc: {"poll", "publish", "mark"},
                batch: SUBSET Entry]
ReaderState == [pos: Nat, pc: {"handle", "commit"}]

\* The variables range over tables, partition logs and program counters; a
\* worker has a batch exactly while it is in its loop.
TypeOK ==
  /\ outbox \in [Entry -> {"absent", "pending", "processed"}]
  /\ worker \in [Worker -> WorkerState]
  /\ \A w \in Worker : (worker[w].pc = "poll") <=> (worker[w].batch = {})
  /\ log \in [Partition -> Seq(Entry)]
  /\ committed \in [Partition -> Nat]
  /\ reader \in [Partition -> ReaderState]
  /\ events \in [Entry -> Nat]
  /\ faults \in Nat

Started == [mode |-> "run", pc |-> "poll", batch |-> {}]

Init ==
  /\ outbox = [e \in Entry |-> "absent"]
  /\ worker = [w \in Worker |-> Started]
  /\ log = [k \in Partition |-> <<>>]
  /\ committed = [k \in Partition |-> 0]
  /\ reader = [k \in Partition |-> [pos |-> 0, pc |-> "handle"]]
  /\ events = [e \in Entry |-> 0]
  /\ faults = 0

Fault == faults < MaxFaults /\ faults' = faults + 1

-----------------------------------------------------------------------------
\* Store.Append: the insert commits, alone or with the caller's transaction.
AppendEvent(e) ==
  /\ outbox[e] = "absent"
  /\ outbox' = [outbox EXCEPT ![e] = "pending"]
  /\ UNCHANGED <<worker, kafka, reader, events, faults>>

-----------------------------------------------------------------------------
(* The outbox worker *)

Pending == {e \in Entry : outbox[e] = "pending"}

\* The oldest of the entries, at most BatchSize of them.
Oldest(S) == {e \in S : Cardinality({d \in S : d < e}) < BatchSize}

\* Rows a statement of another worker holds at this moment.  The row locks of
\* FOR UPDATE SKIP LOCKED end with the statement: they reserve nothing.
MayBeLocked(w, S) ==
  S # {} => \E v \in Worker \ {w} : worker[v].mode # "off"

\* poll (and each round of drain): FetchUnprocessed, skipping locked rows.
\* drain ends when nothing comes back.
Fetch(w, locked) ==
  LET free == Pending \ locked IN
  /\ worker[w].mode # "off" /\ worker[w].pc = "poll"
  /\ MayBeLocked(w, locked)
  /\ \/ /\ free = {} /\ worker[w].mode = "drain"
        /\ worker' = [worker EXCEPT ![w] = [@ EXCEPT !.mode = "off"]]
     \/ /\ free # {}
        /\ worker' = [worker EXCEPT ![w] =
                        [@ EXCEPT !.pc = "publish", !.batch = Oldest(free)]]
  /\ UNCHANGED <<outbox, kafka, reader, events, faults>>

\* The entry of the batch whose turn it is.
Current(w, e) == e \in worker[w].batch /\ \A d \in worker[w].batch : e <= d

\* The loop goes on to the next entry, or the poll is over.
NextEntry(w, e) ==
  LET rest == worker[w].batch \ {e} IN
  worker' = [worker EXCEPT ![w] = [@ EXCEPT !.batch = rest,
               !.pc = IF rest = {} THEN "poll" ELSE "publish"]]

\* publishEntry: the record is in the log and acknowledged.
Publish(w, e) ==
  /\ worker[w].pc = "publish" /\ Current(w, e)
  /\ log' = [log EXCEPT ![PartitionOf[e]] = Append(@, e)]
  /\ worker' = [worker EXCEPT ![w] = [@ EXCEPT !.pc = "mark"]]
  /\ UNCHANGED <<outbox, committed, reader, events, faults>>

\* Mutant: the error is not looked at.
PublishFails_Ignored(w, e) ==
  /\ worker[w].pc = "publish" /\ Current(w, e)
  /\ Fault
  /\ log' = log \/ log' = [log EXCEPT ![PartitionOf[e]] = Append(@, e)]
  /\ worker' = [worker EXCEPT ![w] = [@ EXCEPT !.pc = "mark"]]
  /\ UNCHANGED <<outbox, committed, reader, events>>

\* publishEntry returns an error; the record may be in the log all the same.
PublishFails(w, e) ==
  /\ worker[w].pc = "publish" /\ Current(w, e)
  /\ Fault
  /\ log' = log \/ log' = [log EXCEPT ![PartitionOf[e]] = Append(@, e)]
  /\ NextEntry(w, e)
  /\ UNCHANGED <<outbox, committed, reader, events>>

\* MarkProcessed; an entry another worker has marked is an error that is logged.
Mark(w, e) ==
  /\ worker[w].pc = "mark" /\ Current(w, e)
  /\ outbox' = [outbox EXCEPT ![e] = "processed"]
  /\ NextEntry(w, e)
  /\ UNCHANGED <<kafka, reader, events, faults>>

\* MarkProcessed returns an error: an entry that stays pending will be published
\* again.  The row may have been updated all the same.
MarkFails(w, e) ==
  /\ worker[w].pc = "mark" /\ Current(w, e)
  /\ Fault
  /\ outbox' = outbox \/ outbox' = [outbox EXCEPT ![e] = "processed"]
  /\ NextEntry(w, e)
  /\ UNCHANGED <<kafka, reader, events>>

\* The context of the loop is cancelled: the rest of the batch fails and the
\* worker drains with a context of its own.
Draining(w) == [mode |-> "drain", pc |-> "poll", batch |-> {}]

Stop(w) ==
  /\ worker[w].mode = "run"
  /\ Fault
  /\ worker' = [worker EXCEPT ![w] = Draining(w)]
  /\ UNCHANGED <<outbox, kafka, reader, events>>

\* The drain times out or the process dies, at any point.
Crash(w) ==
  /\ worker[w].mode # "off"
  /\ Fault
  /\ worker' = [worker EXCEPT ![w] = [mode |-> "off", pc |-> "poll", batch |-> {}]]
  /\ UNCHANGED <<outbox, kafka, reader, events>>

\* A server comes up with a fresh worker.
Start(w) ==
  /\ worker[w].mode = "off"
  /\ worker' = [worker EXCEPT ![w] = Started]
  /\ UNCHANGED <<outbox, kafka, reader, events, faults>>

-----------------------------------------------------------------------------
(* The consumer group: handleRecord for the record at the reader's position. *)

Unread(k) == reader[k].pos < Len(log[k])
Record(k) == log[k][reader[k].pos + 1]

\* Mutant: a plain insert into a table without the key.
InsertAuditEvent_NoConflict(e) == events' = [events EXCEPT ![e] = @ + 1]

\* AppendWithID: ON CONFLICT (id) DO NOTHING.
InsertAuditEvent(e) ==
  events' = [events EXCEPT ![e] = IF @ = 0 THEN 1 ELSE @]

\* Handle succeeds: the event is stored.
Handle(k) ==
  /\ reader[k].pc = "handle" /\ Unread(k)
  /\ InsertAuditEvent(Record(k))
  /\ reader' = [reader EXCEPT ![k] = [@ EXCEPT !.pc = "commit"]]
  /\ UNCHANGED <<outbox, worker, kafka, faults>>

\* Handle fails, with or without the row: nothing is committed and the loop goes
\* on with the next record.
HandleFails(k) ==
  /\ HandlerFails
  /\ reader[k].pc = "handle" /\ Unread(k)
  /\ Fault
  /\ UNCHANGED events \/ InsertAuditEvent(Record(k))
  /\ reader' = [reader EXCEPT ![k] = [pos |-> @.pos + 1, pc |-> "handle"]]
  /\ UNCHANGED <<outbox, worker, kafka>>

\* CommitRecords: everything up to this record counts as read.
Commit(k) ==
  /\ reader[k].pc = "commit"
  /\ committed' = [committed EXCEPT ![k] = reader[k].pos + 1]
  /\ reader' = [reader EXCEPT ![k] = [pos |-> @.pos + 1, pc |-> "handle"]]
  /\ UNCHANGED <<outbox, worker, log, events, faults>>

\* A commit that fails is logged only.
CommitFails(k) ==
  /\ reader[k].pc = "commit"
  /\ Fault
  /\ reader' = [reader EXCEPT ![k] = [pos |-> @.pos + 1, pc |-> "handle"]]
  /\ UNCHANGED <<outbox, worker, kafka, events>>

\* Where the next member of the group begins to read a partition.
ResumeOffset(k) == committed[k]

\* The reader stops, crashes or loses the partition.
Restart(k) ==
  /\ Fault
  /\ reader' = [reader EXCEPT ![k] = [pos |-> ResumeOffset(k), pc |-> "handle"]]
  /\ UNCHANGED <<outbox, worker, kafka, events>>

-----------------------------------------------------------------------------
WorkerStep(w) ==
  \/ \E locked \in SUBSET Pending : Fetch(w, locked)
  \/ \E e \in Entry : \/ Publish(w, e) \/ PublishFails(w, e)
                       \/ Mark(w, e) \/ MarkFails(w, e)
  \/ Stop(w) \/ Crash(w) \/ Start(w)

ReaderStep(k) ==
  Handle(k) \/ HandleFails(k) \/ Commit(k) \/ CommitFails(k) \/ Restart(k)

Next ==
  \/ \E e \in Entry : AppendEvent(e)
  \/ \E w \in Worker : WorkerStep(w)
  \/ \E k \in Partition : ReaderStep(k)

Spec == Init /\ [][Next]_vars

(***************************************************************************)
(* Fairness.  The poll ticker fires and row locks do not last, Kafka and   *)
(* the database answer, a server that is down comes up again.  Callers     *)
(* need not append anything; faults need not happen.                       *)
(***************************************************************************)
Fairness ==
  /\ \A w \in Worker :
       /\ SF_vars(Fetch(w, {})) /\ WF_vars(Start(w))
       /\ SF_vars(\E e \in Entry : Publish(w, e)) /\ SF_vars(\E e \in Entry : Mark(w, e))
  /\ \A k \in Partition : SF_vars(Handle(k)) /\ SF_vars(Commit(k))

FairSpec == Spec /\ Fairness

-----------------------------------------------------------------------------
(* Properties *)

Published(e) == \E i \in 1..Len(log[PartitionOf[e]]) : log[PartitionOf[e]][i] = e
Appended == {e \in Entry : outbox[e] # "absent"}
Stored == {e \in Entry : events[e] > 0}

\* An entry is marked processed only once its record is in the topic, whichever
\* worker published it and however calls fail in between (worker.poll).
ProcessedIsPublished == \A e \in Entry : outbox[e] = "processed" => Published(e)

\* However often an entry is published and redelivered, audit_events has at most
\* one row for it, and only if it was appended (AppendWithID).
StoredOnce == \A e \in Entry : events[e] <= 1 /\ (events[e] = 1 => e \in Appended)

\* The committed offset never passes a record that is not stored: what the
\* consumer leaves behind is in the table ("message will be redelivered").
CommittedStored ==
  \A k \in Partition : \A i \in 1..committed[k] : events[log[k][i]] > 0

\* Offsets only move forward, and never past the end of the log.
OffsetsAdvance ==
  [][\A k \in Partition : /\ committed[k] <= committed'[k]
                          /\ committed'[k] <= Len(log'[k])]_vars

\* The pipeline implements the audit trail: every appended event is stored in
\* the end, once, although workers and readers crash and calls fail.
Trail == INSTANCE AuditTrail WITH appended <- Appended, stored <- Stored

\* Every appended entry is marked processed in the end, so the outbox drains.
OutboxDrains == \A e \in Entry : (outbox[e] = "pending") ~> (outbox[e] = "processed")
=============================================================================
