-------------------------- MODULE AuditOutboxProofs --------------------------
(***************************************************************************)
(* Proofs about AuditOutbox for any entries, workers and partitions.       *)
(***************************************************************************)
EXTENDS AuditOutbox, FiniteSetTheorems, WellFoundedInduction, TLAPS

\* What a worker holds: entries of the table, and before MarkProcessed a
\* current entry whose record is in the topic.
WorkerInv ==
  \A w \in Worker :
    /\ worker[w].batch \subseteq Appended
    /\ worker[w].pc = "mark" => \A e \in Entry : Current(w, e) => Published(e)

\* The topic holds appended entries only.
LogInv == \A k \in Partition : \A i \in 1..Len(log[k]) : log[k][i] \in Appended

\* A reader is between the committed offset and the end; what it is about to
\* commit is stored.
ReaderInv ==
  \A k \in Partition :
    /\ committed[k] <= reader[k].pos /\ reader[k].pos <= Len(log[k])
    /\ reader[k].pc = "commit" => Unread(k) /\ events[Record(k)] > 0

\* Unless the handler fails, everything the reader has passed is stored.
PassedStored ==
  ~HandlerFails =>
    \A k \in Partition : \A i \in 1..reader[k].pos : events[log[k][i]] > 0

IInv ==
  /\ TypeOK /\ WorkerInv /\ LogInv /\ ProcessedIsPublished
  /\ StoredOnce /\ ReaderInv /\ PassedStored

-----------------------------------------------------------------------------
(* Steps by what they write *)

\* A worker's own state only.
LocalStep(w) ==
  (\E locked \in SUBSET Pending : Fetch(w, locked)) \/ Stop(w) \/ Crash(w) \/ Start(w)

\* Every step is one of these; the proofs split on it.
LEMMA NextCases ==
  ASSUME Next
  PROVE  \/ \E e \in Entry : AppendEvent(e)
         \/ \E w \in Worker : LocalStep(w)
         \/ \E w \in Worker, e \in Entry :
              Publish(w, e) \/ PublishFails(w, e) \/ Mark(w, e) \/ MarkFails(w, e)
         \/ \E k \in Partition : ReaderStep(k)
BY Zenon DEF Next, WorkerStep, LocalStep

\* The topic is only appended to.
LogGrows ==
  \A k \in Partition :
    /\ Len(log[k]) <= Len(log'[k])
    /\ \A i \in 1..Len(log[k]) : log'[k][i] = log[k][i]

\* Appending a record to the partition of an entry puts the entry in the topic
\* and keeps what is there (kgo ProduceSync).
LEMMA AppendRecord ==
  ASSUME TypeOK, NEW e \in Entry,
         log' = [log EXCEPT ![PartitionOf[e]] = Append(@, e)]
  PROVE  /\ log' \in [Partition -> Seq(Entry)]
         /\ LogGrows
         /\ Published(e)'
         /\ \A k \in Partition : \A i \in 1..Len(log'[k]) :
              (i \in 1..Len(log[k]) /\ log'[k][i] = log[k][i]) \/ log'[k][i] = e
<1> DEFINE p == PartitionOf[e]
<1>1. p \in Partition /\ log[p] \in Seq(Entry)
  BY OutboxAssumption, Zenon DEF TypeOK
<1>2. log'[p] = Append(log[p], e) /\ \A k \in Partition \ {p} : log'[k] = log[k]
  BY <1>1, Zenon DEF TypeOK
<1>3. log' \in [Partition -> Seq(Entry)]
  BY <1>1 DEF TypeOK
<1>4. /\ Len(log'[p]) = Len(log[p]) + 1 /\ log'[p][Len(log[p]) + 1] = e
      /\ \A i \in 1..Len(log[p]) : log'[p][i] = log[p][i]
  BY <1>1, <1>2
<1>5. Published(e)'
  BY <1>1, <1>4 DEF Published
<1>6. \A k \in Partition : Len(log[k]) \in Nat
  BY DEF TypeOK
<1>7. LogGrows
  BY <1>1, <1>2, <1>4, <1>6 DEF LogGrows
<1>8. ASSUME NEW k \in Partition, NEW i \in 1..Len(log'[k])
      PROVE  (i \in 1..Len(log[k]) /\ log'[k][i] = log[k][i]) \/ log'[k][i] = e
  <2>1. CASE k = p
    BY <2>1, <1>4, <1>6
  <2>2. CASE k # p
    BY <2>2, <1>2
  <2> QED BY <2>1, <2>2
<1> QED BY <1>3, <1>5, <1>7, <1>8

\* What is published stays published when the topic grows.
LEMMA PublishedStays ==
  ASSUME TypeOK, LogGrows, NEW e \in Entry, Published(e)
  PROVE  Published(e)'
<1>1. PICK i \in 1..Len(log[PartitionOf[e]]) : log[PartitionOf[e]][i] = e
  BY Zenon DEF Published
<1>2. PartitionOf[e] \in Partition /\ Len(log[PartitionOf[e]]) \in Nat
  BY OutboxAssumption DEF TypeOK
<1>3. i \in 1..Len(log'[PartitionOf[e]]) /\ log'[PartitionOf[e]][i] = e
  <2>1. Len(log[PartitionOf[e]]) <= Len(log'[PartitionOf[e]])
        /\ log'[PartitionOf[e]][i] = log[PartitionOf[e]][i]
    BY <1>1, <1>2, Zenon DEF LogGrows
  <2> HIDE DEF Published
  <2> QED BY <1>1, <1>2, <2>1
<1> QED BY <1>3, Zenon DEF Published

-----------------------------------------------------------------------------
(* What the invariant says of the variables a step leaves alone *)

\* What the invariant says of one partition and its reader.
LEMMA ReaderFacts ==
  ASSUME IInv, NEW k \in Partition
  PROVE  /\ reader \in [Partition -> ReaderState] /\ committed \in [Partition -> Nat]
         /\ events \in [Entry -> Nat] /\ log[k] \in Seq(Entry)
         /\ reader[k] \in ReaderState /\ reader[k].pos \in Nat
         /\ committed[k] \in Nat /\ Len(log[k]) \in Nat
         /\ committed[k] <= reader[k].pos /\ reader[k].pos <= Len(log[k])
<1>1. /\ reader \in [Partition -> ReaderState] /\ committed \in [Partition -> Nat]
      /\ events \in [Entry -> Nat] /\ log \in [Partition -> Seq(Entry)]
  BY Zenon DEF IInv, TypeOK
<1>2. reader[k] \in ReaderState /\ committed[k] \in Nat /\ log[k] \in Seq(Entry)
  BY <1>1, Zenon
<1>3. reader[k].pos \in Nat
  BY <1>2, Zenon DEF ReaderState
<1>4. Len(log[k]) \in Nat
  BY <1>2
<1>5. committed[k] <= reader[k].pos /\ reader[k].pos <= Len(log[k])
  BY Zenon DEF IInv, ReaderInv
<1> QED BY <1>1, <1>2, <1>3, <1>4, <1>5, Zenon

\* The entries of the table are never removed.
LEMMA TopicFrame ==
  ASSUME IInv, UNCHANGED kafka, Appended \subseteq Appended'
  PROVE  LogInv' /\ \A e \in Entry : Published(e) <=> Published(e)'
BY DEF IInv, LogInv, Published, kafka

\* The consumer's part of the invariant depends on its own variables and the topic.
LEMMA ReaderFrame ==
  ASSUME IInv, UNCHANGED <<kafka, reader, events>>
  PROVE  ReaderInv' /\ PassedStored'
<1>1. ReaderInv'
  BY Zenon DEF IInv, ReaderInv, Unread, Record, kafka
<1>2. PassedStored'
  BY Zenon DEF IInv, PassedStored, kafka
<1> QED BY <1>1, <1>2

\* The consumer's part survives when the topic grows.
LEMMA ReaderGrows ==
  ASSUME IInv, LogGrows, UNCHANGED <<committed, reader, events>>
  PROVE  ReaderInv' /\ PassedStored'
<1>1. ASSUME NEW k \in Partition
      PROVE  /\ committed[k] \in Nat /\ reader[k].pos \in Nat /\ Len(log[k]) \in Nat
             /\ committed[k] <= reader[k].pos /\ reader[k].pos <= Len(log[k])
  BY <1>1, ReaderFacts, Zenon
<1>2. ASSUME NEW k \in Partition
      PROVE  /\ committed'[k] <= reader'[k].pos /\ reader'[k].pos <= Len(log'[k])
             /\ reader'[k].pc = "commit" => Unread(k)' /\ events'[Record(k)'] > 0
  <2>2. CASE reader[k].pc = "commit"
    <3>1. reader[k].pos < Len(log[k]) /\ events[log[k][reader[k].pos + 1]] > 0
      BY <2>2, <1>2, Zenon DEF IInv, ReaderInv, Unread, Record
    <3>2. reader[k].pos + 1 \in 1..Len(log[k])
      BY <3>1, <1>1
    <3>3. log'[k][reader[k].pos + 1] = log[k][reader[k].pos + 1]
      BY <3>2, Zenon DEF LogGrows
    <3> QED BY <3>1, <3>3, <1>1 DEF LogGrows, Unread, Record
  <2>3. CASE reader[k].pc # "commit"
    BY <2>3, <1>1 DEF LogGrows
  <2> QED BY <2>2, <2>3
<1>3. ReaderInv'
  BY <1>2, Zenon DEF ReaderInv
<1>4. PassedStored'
  <2>1. ASSUME ~HandlerFails, NEW k \in Partition, NEW i \in 1..reader'[k].pos
        PROVE  events'[log'[k][i]] > 0
    <3>1. events[log[k][i]] > 0
      BY <2>1, Zenon DEF IInv, PassedStored
    <3>2. i \in 1..Len(log[k])
      BY <1>1
    <3> QED BY <3>1, <3>2, Zenon DEF LogGrows
  <2> QED BY <2>1, Zenon DEF PassedStored
<1> QED BY <1>3, <1>4

\* A worker that has no current entry to mark, and whose batch is appended,
\* keeps its part of the invariant; so do the others.
LEMMA WorkerFrame ==
  ASSUME IInv, NEW w \in Worker, NEW r \in WorkerState,
         worker' = [worker EXCEPT ![w] = r], r.batch \subseteq Appended,
         (r.pc = "poll") <=> (r.batch = {}),
         r.pc = "mark" => \A e \in r.batch : (\A d \in r.batch : e <= d) => Published(e)',
         Appended \subseteq Appended',
         \A e \in Entry : Published(e) => Published(e)'
  PROVE  /\ WorkerInv'
         /\ worker' \in [Worker -> WorkerState]
         /\ \A v \in Worker : (worker'[v].pc = "poll") <=> (worker'[v].batch = {})
<1>0. /\ worker \in [Worker -> WorkerState]
      /\ \A v \in Worker : (worker[v].pc = "poll") <=> (worker[v].batch = {})
  BY Zenon DEF IInv, TypeOK
<1>1. worker' \in [Worker -> WorkerState]
  BY <1>0
<1>2. worker'[w] = r /\ \A v \in Worker \ {w} : worker'[v] = worker[v]
  BY <1>0
<1>3. \A v \in Worker : (worker'[v].pc = "poll") <=> (worker'[v].batch = {})
  BY <1>0, <1>2
<1>4. ASSUME NEW v \in Worker
      PROVE  /\ worker'[v].batch \subseteq Appended'
             /\ worker'[v].pc = "mark" => \A e \in Entry : Current(v, e)' => Published(e)'
  <2>1. CASE v = w
    BY <2>1, <1>2, Zenon DEF Current
  <2>2. CASE v # w
    BY <2>2, <1>2, Zenon DEF IInv, WorkerInv, Current
  <2> QED BY <2>1, <2>2
<1> QED BY <1>1, <1>3, <1>4, Zenon DEF WorkerInv

-----------------------------------------------------------------------------
(* The steps *)

\* Append: the new row is pending and in nobody's hands.
LEMMA AppendEventStep ==
  ASSUME IInv, NEW e \in Entry, AppendEvent(e)
  PROVE  IInv'
<1>1. /\ outbox' \in [Entry -> {"absent", "pending", "processed"}]
      /\ outbox'[e] = "pending" /\ \A d \in Entry \ {e} : outbox'[d] = outbox[d]
  BY Zenon DEF IInv, TypeOK, AppendEvent
<1>2. UNCHANGED <<worker, kafka, reader, events, faults>> /\ UNCHANGED <<log, committed>>
  BY Zenon DEF AppendEvent, kafka
<1>3. TypeOK'
  BY <1>1, <1>2, Zenon DEF IInv, TypeOK
<1>4. Appended \subseteq Appended'
  BY <1>1, Zenon DEF Appended
<1>5. LogInv' /\ \A d \in Entry : Published(d) <=> Published(d)'
  BY <1>2, <1>4, TopicFrame
<1>6. WorkerInv'
  BY <1>2, <1>4, <1>5, Zenon DEF IInv, WorkerInv, Current
<1>7. ProcessedIsPublished'
  BY <1>1, <1>5, Zenon DEF IInv, ProcessedIsPublished
<1>8. StoredOnce'
  BY <1>2, <1>4, Zenon DEF IInv, StoredOnce
<1> QED BY <1>2, <1>3, <1>5, <1>6, <1>7, <1>8, ReaderFrame, Zenon DEF IInv

\* FetchUnprocessed returns something when something is free: the oldest entry is
\* within any positive limit.
LEMMA OldestExists ==
  ASSUME NEW S \in SUBSET Entry, S # {}
  PROVE  Oldest(S) # {}
<1>1. S \subseteq Nat
  BY OutboxAssumption
<1>2. PICK x \in S : \A y \in S : ~(<<y, x>> \in OpToRel(<, Nat))
  BY <1>1, NatLessThanWellFounded, WFMin, Zenon
<1>3. \A y \in S : ~(y < x)
  BY <1>1, <1>2, Zenon DEF OpToRel
<1>4. {d \in S : d < x} = {}
  BY <1>3
<1>5. Cardinality({d \in S : d < x}) = 0
  BY <1>4, FS_EmptySet
<1> QED BY <1>5, OutboxAssumption DEF Oldest

\* The worker goes to a state in which it is not about to mark anything.
GoesTo(w, r) ==
  /\ worker' = [worker EXCEPT ![w] = r] /\ r.batch \subseteq Appended
  /\ (r.pc = "poll") <=> (r.batch = {})
  /\ r.pc # "mark"

\* Fetch, Stop, Crash, Start: the worker is not about to mark anything.
LEMMA LocalStepKeeps ==
  ASSUME IInv, NEW w \in Worker, LocalStep(w)
  PROVE  IInv'
<1>1. UNCHANGED <<outbox, log, committed, reader, events>> /\ faults' \in Nat
  <2>1. faults \in Nat
    BY Zenon DEF IInv, TypeOK
  <2>2. CASE Stop(w) \/ Crash(w) \/ Start(w)
    BY <2>1, <2>2 DEF Stop, Crash, Start, Fault, kafka
  <2>3. ASSUME NEW locked \in SUBSET Pending, Fetch(w, locked)
        PROVE  UNCHANGED <<outbox, log, committed, reader, events, faults>>
    BY <2>3, Zenon DEF Fetch, kafka
  <2> QED BY <2>1, <2>2, <2>3, Zenon DEF LocalStep
<1>2. \E r \in WorkerState : GoesTo(w, r)
  <2>1. ASSUME NEW locked \in SUBSET Pending, Fetch(w, locked)
        PROVE  \E r \in WorkerState : GoesTo(w, r)
    <3> DEFINE free == Pending \ locked
               busy == [worker[w] EXCEPT !.pc = "publish", !.batch = Oldest(free)]
               off == [worker[w] EXCEPT !.mode = "off"]
    <3>1. worker[w] \in WorkerState /\ worker[w].pc = "poll" /\ worker[w].batch = {}
      BY <2>1, Zenon DEF IInv, TypeOK, Fetch
    <3>2. CASE free # {} /\ worker' = [worker EXCEPT ![w] = busy]
      <4>1. Oldest(free) \subseteq Appended /\ Appended \subseteq Entry
        BY Zenon DEF Oldest, Pending, Appended
      <4>2. Oldest(free) # {}
        BY <3>2, OldestExists, Zenon DEF Pending
      <4> HIDE DEF free
      <4>3. busy \in WorkerState /\ busy.batch = Oldest(free) /\ busy.pc = "publish"
        BY <3>1, <4>1, Zenon DEF WorkerState
      <4> QED BY <3>2, <4>1, <4>2, <4>3, Zenon DEF GoesTo
    <3>3. CASE worker' = [worker EXCEPT ![w] = off]
      <4>1. off \in WorkerState /\ off.batch = {} /\ off.pc = "poll"
        BY <3>1, Zenon DEF WorkerState
      <4> QED BY <3>3, <4>1, Zenon DEF GoesTo
    <3>4. \/ free # {} /\ worker' = [worker EXCEPT ![w] = busy]
          \/ worker' = [worker EXCEPT ![w] = off]
      BY <2>1, Zenon DEF Fetch
    <3> QED BY <3>2, <3>3, <3>4
  <2>2. CASE Stop(w) \/ Crash(w) \/ Start(w)
    <3>1. \E m \in {"run", "drain", "off"} :
            worker' = [worker EXCEPT ![w] = [mode |-> m, pc |-> "poll", batch |-> {}]]
      BY <2>2, Zenon DEF Stop, Crash, Start, Started, Draining
    <3>2. PICK m \in {"run", "drain", "off"} :
            worker' = [worker EXCEPT ![w] = [mode |-> m, pc |-> "poll", batch |-> {}]]
      BY <3>1, Zenon
    <3> DEFINE idle == [mode |-> m, pc |-> "poll", batch |-> {}]
    <3>3. idle \in WorkerState /\ idle.batch = {} /\ idle.pc = "poll"
      BY Zenon DEF WorkerState
    <3>4. GoesTo(w, idle)
      BY <3>2, <3>3, Zenon DEF GoesTo
    <3> QED BY <3>3, <3>4
  <2> QED BY <2>1, <2>2, Zenon DEF LocalStep
<1>3. PICK r \in WorkerState : GoesTo(w, r)
  BY <1>2
<1>4. Appended = Appended' /\ UNCHANGED kafka
  BY <1>1, Zenon DEF Appended, kafka
<1>5. LogInv' /\ \A e \in Entry : Published(e) <=> Published(e)'
  BY <1>4, TopicFrame
<1>6. /\ WorkerInv'
      /\ worker' \in [Worker -> WorkerState]
      /\ \A v \in Worker : (worker'[v].pc = "poll") <=> (worker'[v].batch = {})
  BY <1>3, <1>4, <1>5, WorkerFrame, Zenon DEF GoesTo
<1>7. TypeOK'
  BY <1>1, <1>6, Zenon DEF IInv, TypeOK
<1>8. ProcessedIsPublished' /\ StoredOnce'
  BY <1>1, <1>4, <1>5, Zenon DEF IInv, ProcessedIsPublished, StoredOnce
<1> QED BY <1>1, <1>4, <1>5, <1>6, <1>7, <1>8, ReaderFrame, Zenon DEF IInv

\* The loop of poll goes on: the next entry is not published yet.
LEMMA NextEntryGoes ==
  ASSUME IInv, NEW w \in Worker, NEW e \in Entry, NextEntry(w, e)
  PROVE  \E r \in WorkerState : GoesTo(w, r)
<1> DEFINE rest == worker[w].batch \ {e}
           r == [worker[w] EXCEPT !.batch = rest,
                   !.pc = IF rest = {} THEN "poll" ELSE "publish"]
<1>1. worker[w] \in WorkerState /\ worker[w].batch \subseteq Appended
  BY Zenon DEF IInv, TypeOK, WorkerInv
<1>2. rest \subseteq Appended /\ Appended \subseteq Entry
  BY <1>1, Zenon DEF Appended
<1>3. worker' = [worker EXCEPT ![w] = r]
  BY Zenon DEF NextEntry
<1> HIDE DEF rest
<1>4. /\ r \in WorkerState /\ r.batch = rest
      /\ r.pc = IF rest = {} THEN "poll" ELSE "publish"
  BY <1>1, <1>2, Zenon DEF WorkerState
<1> HIDE DEF r
<1>5. GoesTo(w, r)
  BY <1>2, <1>3, <1>4, Zenon DEF GoesTo
<1> QED BY <1>4, <1>5

\* Publish and PublishFails write the topic, the worker goes on.
LEMMA PublishStep ==
  ASSUME IInv, NEW w \in Worker, NEW e \in Entry, Publish(w, e) \/ PublishFails(w, e)
  PROVE  IInv'
<1>1. /\ UNCHANGED <<outbox, committed, reader, events>> /\ faults' \in Nat
      /\ Current(w, e)
  BY DEF IInv, TypeOK, Publish, PublishFails, Fault
<1>2. log' = log \/ log' = [log EXCEPT ![PartitionOf[e]] = Append(@, e)]
  BY Zenon DEF Publish, PublishFails
<1>3. Appended' = Appended /\ e \in Appended
  BY <1>1, Zenon DEF IInv, WorkerInv, Appended, Current
<1>4. TypeOK
  BY Zenon DEF IInv
<1>5. log' \in [Partition -> Seq(Entry)] /\ LogGrows /\ LogInv'
  <2>1. CASE log' = log
    <3>1. \A k \in Partition : Len(log[k]) \in Nat
      BY <1>4 DEF TypeOK
    <3> QED BY <2>1, <3>1, <1>3, <1>4 DEF IInv, TypeOK, LogInv, LogGrows
  <2>2. CASE log' = [log EXCEPT ![PartitionOf[e]] = Append(@, e)]
    <3>1. /\ log' \in [Partition -> Seq(Entry)] /\ LogGrows
          /\ \A k \in Partition : \A i \in 1..Len(log'[k]) :
               (i \in 1..Len(log[k]) /\ log'[k][i] = log[k][i]) \/ log'[k][i] = e
      BY <2>2, <1>4, AppendRecord, Zenon
    <3> QED BY <3>1, <1>3, Zenon DEF IInv, LogInv
  <2> QED BY <1>2, <2>1, <2>2
<1>6. \A d \in Entry : Published(d) => Published(d)'
  BY <1>4, <1>5, PublishedStays
<1>7. /\ WorkerInv'
      /\ worker' \in [Worker -> WorkerState]
      /\ \A v \in Worker : (worker'[v].pc = "poll") <=> (worker'[v].batch = {})
  <2>1. CASE PublishFails(w, e)
    <3>1. PICK r \in WorkerState : GoesTo(w, r)
      BY <2>1, NextEntryGoes, Zenon DEF PublishFails
    <3> QED BY <3>1, <1>3, <1>6, WorkerFrame, Zenon DEF GoesTo
  <2>2. CASE Publish(w, e)
    <3> DEFINE r == [worker[w] EXCEPT !.pc = "mark"]
    <3>1. worker[w] \in WorkerState /\ worker[w].batch \subseteq Appended
      BY Zenon DEF IInv, TypeOK, WorkerInv
    <3>2. r \in WorkerState /\ r.pc = "mark" /\ r.batch = worker[w].batch
      BY <3>1, Zenon DEF WorkerState
    <3>3. worker' = [worker EXCEPT ![w] = r] /\ Published(e)'
      BY <2>2, <1>4, AppendRecord, Zenon DEF Publish
    <3> HIDE DEF r
    <3>4. e \in r.batch /\ \A d \in r.batch : e <= d
      BY <1>1, <3>2, Zenon DEF Current
    <3>5. r.batch \subseteq Nat
      BY <3>2, <3>1, OutboxAssumption, Zenon DEF Appended
    <3>6. \A d \in r.batch : (\A x \in r.batch : d <= x) => d = e
      BY <3>4, <3>5
    <3>7. \A d \in r.batch : (\A x \in r.batch : d <= x) => Published(d)'
      BY <3>3, <3>6
    <3> QED BY <3>1, <3>2, <3>3, <3>4, <3>7, <1>3, <1>6, WorkerFrame, Zenon
  <2> QED BY <2>1, <2>2
<1>8. TypeOK'
  BY <1>1, <1>5, <1>7, Zenon DEF IInv, TypeOK
<1>9. ProcessedIsPublished' /\ StoredOnce'
  BY <1>1, <1>3, <1>6, Zenon DEF IInv, ProcessedIsPublished, StoredOnce
<1>10. ReaderInv' /\ PassedStored'
  BY <1>1, <1>5, ReaderGrows
<1> QED BY <1>5, <1>7, <1>8, <1>9, <1>10, Zenon DEF IInv

\* Mark and MarkFails write the entry the worker has published.
LEMMA MarkStep ==
  ASSUME IInv, NEW w \in Worker, NEW e \in Entry, Mark(w, e) \/ MarkFails(w, e)
  PROVE  IInv'
<1>1. /\ UNCHANGED <<log, committed, reader, events>> /\ UNCHANGED kafka
      /\ Current(w, e) /\ worker[w].pc = "mark" /\ NextEntry(w, e)
  BY Zenon DEF Mark, MarkFails, kafka
<1>2. outbox' = outbox \/ outbox' = [outbox EXCEPT ![e] = "processed"]
  BY Zenon DEF Mark, MarkFails
<1>3. faults' \in Nat
  BY DEF IInv, TypeOK, Mark, MarkFails, Fault
<1>4. e \in Appended /\ Published(e)
  BY <1>1, Zenon DEF IInv, WorkerInv, Current
<1>5. /\ outbox' \in [Entry -> {"absent", "pending", "processed"}]
      /\ \A d \in Entry \ {e} : outbox'[d] = outbox[d]
      /\ outbox'[e] \in {outbox[e], "processed"}
  BY <1>2, Zenon DEF IInv, TypeOK
<1>6. Appended' = Appended
  BY <1>4, <1>5, Zenon DEF Appended
<1>7. LogInv' /\ \A d \in Entry : Published(d) <=> Published(d)'
  BY <1>1, <1>6, TopicFrame
<1>8. PICK r \in WorkerState : GoesTo(w, r)
  BY <1>1, NextEntryGoes
<1>9. /\ WorkerInv'
      /\ worker' \in [Worker -> WorkerState]
      /\ \A v \in Worker : (worker'[v].pc = "poll") <=> (worker'[v].batch = {})
  BY <1>6, <1>7, <1>8, WorkerFrame, Zenon DEF GoesTo
<1>10. TypeOK'
  BY <1>1, <1>3, <1>5, <1>9, Zenon DEF IInv, TypeOK
<1>11. ProcessedIsPublished'
  BY <1>4, <1>5, <1>7, Zenon DEF IInv, ProcessedIsPublished
<1>12. StoredOnce'
  BY <1>1, <1>6, Zenon DEF IInv, StoredOnce
<1> QED BY <1>1, <1>7, <1>9, <1>10, <1>11, <1>12, ReaderFrame, Zenon DEF IInv

\* The steps of a reader change the consumer's variables only.
LEMMA ReaderSame ==
  ASSUME IInv, NEW k \in Partition, ReaderStep(k)
  PROVE  /\ UNCHANGED <<outbox, worker, log>> /\ faults' \in Nat
         /\ Appended' = Appended
         /\ WorkerInv' /\ LogInv' /\ ProcessedIsPublished'
<1>1. UNCHANGED <<outbox, worker, log>>
  BY Zenon DEF ReaderStep, Handle, HandleFails, Commit, CommitFails, Restart, kafka
<1>2. faults' \in Nat
  BY DEF IInv, TypeOK, ReaderStep, Handle, HandleFails, Commit, CommitFails, Restart, Fault
<1>3. Appended' = Appended
  BY <1>1, Zenon DEF Appended
<1>4. \A e \in Entry : Published(e) <=> Published(e)'
  BY <1>1, Zenon DEF Published
<1>5. WorkerInv'
  BY <1>1, <1>3, <1>4, Zenon DEF IInv, WorkerInv, Current
<1>6. LogInv' /\ ProcessedIsPublished'
  BY <1>1, <1>3, <1>4, Zenon DEF IInv, LogInv, ProcessedIsPublished
<1> QED BY <1>1, <1>2, <1>3, <1>5, <1>6

\* AppendWithID stores an appended event and nothing else, and keeps the rows.
LEMMA InsertKeeps ==
  ASSUME IInv, NEW e \in Appended, UNCHANGED outbox,
         UNCHANGED events \/ InsertAuditEvent(e)
  PROVE  /\ events' \in [Entry -> Nat]
         /\ InsertAuditEvent(e) => events'[e] > 0
         /\ \A d \in Entry : events[d] > 0 => events'[d] > 0
         /\ StoredOnce'
<1>1. events \in [Entry -> Nat] /\ e \in Entry
  BY Zenon DEF IInv, TypeOK, Appended
<1>2. CASE UNCHANGED events /\ ~InsertAuditEvent(e)
  BY <1>1, <1>2, Zenon DEF IInv, StoredOnce, Appended
<1>3. CASE InsertAuditEvent(e)
  <2>1. /\ events' \in [Entry -> Nat]
        /\ events'[e] = IF events[e] = 0 THEN 1 ELSE events[e]
        /\ \A d \in Entry \ {e} : events'[d] = events[d]
    BY <1>1, <1>3, Zenon DEF InsertAuditEvent
  <2>2. events'[e] > 0 /\ \A d \in Entry : events[d] > 0 => events'[d] > 0
    BY <1>1, <2>1
  <2>3. Appended' = Appended
    BY Zenon DEF Appended
  <2>4. \A d \in Entry : events'[d] <= 1
    BY <1>1, <2>1 DEF IInv, StoredOnce
  <2>5. StoredOnce'
    BY <1>1, <2>1, <2>3, <2>4, Zenon DEF IInv, StoredOnce
  <2> QED BY <2>1, <2>2, <2>5
<1> QED BY <1>2, <1>3

\* The reader goes to offset p: the rest of the invariant follows from what is
\* known at p.
LEMMA ReaderMoves ==
  ASSUME IInv, NEW k \in Partition, ReaderStep(k), StoredOnce',
         NEW r \in ReaderState, reader' = [reader EXCEPT ![k] = r],
         NEW c \in Nat, committed' = [committed EXCEPT ![k] = c],
         events' \in [Entry -> Nat], \A d \in Entry : events[d] > 0 => events'[d] > 0,
         c <= r.pos, r.pos <= Len(log[k]),
         r.pc = "commit" => r.pos < Len(log[k]) /\ events'[log[k][r.pos + 1]] > 0,
         ~HandlerFails => \A i \in 1..r.pos : events'[log[k][i]] > 0
  PROVE  IInv'
<1>1. /\ UNCHANGED <<outbox, worker, log>> /\ faults' \in Nat
      /\ WorkerInv' /\ LogInv' /\ ProcessedIsPublished'
  BY ReaderSame
<1>2. /\ reader' \in [Partition -> ReaderState] /\ committed' \in [Partition -> Nat]
      /\ reader'[k] = r /\ committed'[k] = c
      /\ \A j \in Partition \ {k} : reader'[j] = reader[j] /\ committed'[j] = committed[j]
  <2>1. reader \in [Partition -> ReaderState] /\ committed \in [Partition -> Nat]
    BY ReaderFacts, Zenon
  <2> QED BY <2>1
<1>3. TypeOK'
  BY <1>1, <1>2, Zenon DEF IInv, TypeOK
<1>4. ASSUME NEW j \in Partition, NEW i \in 1..Len(log[j]), events[log[j][i]] > 0
      PROVE  events'[log[j][i]] > 0
  <2>1. log[j][i] \in Entry
    <3>1. log[j] \in Seq(Entry)
      BY ReaderFacts, Zenon
    <3> QED BY <3>1
  <2> QED BY <2>1, <1>4
<1>5. ASSUME NEW j \in Partition, j # k
      PROVE  /\ committed[j] \in Nat /\ reader[j].pos \in Nat /\ Len(log[j]) \in Nat
             /\ committed[j] <= reader[j].pos /\ reader[j].pos <= Len(log[j])
             /\ reader[j].pc = "commit" =>
                  reader[j].pos < Len(log[j]) /\ events'[log[j][reader[j].pos + 1]] > 0
  <2>1. /\ committed[j] \in Nat /\ reader[j].pos \in Nat /\ Len(log[j]) \in Nat
        /\ committed[j] <= reader[j].pos /\ reader[j].pos <= Len(log[j])
    BY ReaderFacts, Zenon
  <2>2. reader[j].pc = "commit" =>
          reader[j].pos < Len(log[j]) /\ events[log[j][reader[j].pos + 1]] > 0
    BY Zenon DEF IInv, ReaderInv, Unread, Record
  <2>3. reader[j].pos < Len(log[j]) => reader[j].pos + 1 \in 1..Len(log[j])
    BY <2>1
  <2> QED BY <2>1, <2>2, <2>3, <1>4, Zenon
<1>6. ReaderInv'
  <2>1. ASSUME NEW j \in Partition
        PROVE  /\ committed'[j] <= reader'[j].pos /\ reader'[j].pos <= Len(log'[j])
               /\ reader'[j].pc = "commit" => Unread(j)' /\ events'[Record(j)'] > 0
    <3>1. CASE j = k
      BY <3>1, <1>1, <1>2, Zenon DEF Unread, Record
    <3>2. CASE j # k
      BY <3>2, <1>1, <1>2, <1>5, Zenon DEF Unread, Record
    <3> QED BY <3>1, <3>2
  <2> QED BY <2>1, Zenon DEF ReaderInv
<1>7. PassedStored'
  <2>1. ASSUME ~HandlerFails, NEW j \in Partition, NEW i \in 1..reader'[j].pos
        PROVE  events'[log'[j][i]] > 0
    <3>1. CASE j = k
      BY <2>1, <3>1, <1>1, <1>2
    <3>2. CASE j # k
      <4>1. events[log[j][i]] > 0
        BY <2>1, <3>2, <1>2, Zenon DEF IInv, PassedStored
      <4>2. i \in 1..Len(log[j])
        BY <3>2, <1>2, <1>5
      <4> QED BY <4>1, <4>2, <1>1, <1>4
    <3> QED BY <3>1, <3>2
  <2> QED BY <2>1, Zenon DEF PassedStored
<1> QED BY <1>1, <1>3, <1>6, <1>7, Zenon DEF IInv

\* handleRecord, a failed commit and a restart of the reader.
LEMMA ReaderStepKeeps ==
  ASSUME IInv, NEW k \in Partition, ReaderStep(k)
  PROVE  IInv'
<1> DEFINE p == reader[k].pos
<1>1. /\ p \in Nat /\ committed[k] \in Nat /\ Len(log[k]) \in Nat
      /\ committed[k] <= p /\ p <= Len(log[k])
      /\ reader[k] \in ReaderState /\ reader \in [Partition -> ReaderState]
      /\ committed \in [Partition -> Nat] /\ events \in [Entry -> Nat]
  BY ReaderFacts, Zenon
<1>2. Unread(k) => p + 1 \in 1..Len(log[k]) /\ Record(k) \in Appended
  <2>1. \A i \in 1..Len(log[k]) : log[k][i] \in Appended
    BY Zenon DEF IInv, LogInv
  <2>2. p < Len(log[k]) => p + 1 \in 1..Len(log[k])
    BY <1>1
  <2> QED BY <2>1, <2>2, Zenon DEF Unread, Record
<1>3. ~HandlerFails => \A i \in 1..p : events[log[k][i]] > 0
  BY Zenon DEF IInv, PassedStored
<1>4. \A i \in 1..Len(log[k]) : log[k][i] \in Entry
  <2>1. log[k] \in Seq(Entry)
    BY ReaderFacts, Zenon
  <2> QED BY <2>1
<1>5. UNCHANGED outbox /\ Appended' = Appended
  BY ReaderSame
<1>6. UNCHANGED events => StoredOnce'
  BY <1>5, Zenon DEF IInv, StoredOnce
<1>7. UNCHANGED committed => committed' = [committed EXCEPT ![k] = committed[k]]
  BY <1>1
<1>8. CASE Handle(k)
  <2> DEFINE r == [reader[k] EXCEPT !.pc = "commit"]
  <2>1. /\ events' \in [Entry -> Nat] /\ events'[Record(k)] > 0 /\ StoredOnce'
        /\ \A d \in Entry : events[d] > 0 => events'[d] > 0
    BY <1>8, <1>2, <1>5, InsertKeeps, Zenon DEF Handle
  <2>2. r \in ReaderState /\ r.pos = p /\ r.pc = "commit"
    BY <1>1, Zenon DEF ReaderState
  <2>3. reader' = [reader EXCEPT ![k] = r] /\ UNCHANGED committed /\ Unread(k)
    BY <1>8, Zenon DEF Handle, kafka
  <2>4. ~HandlerFails => \A i \in 1..p : events'[log[k][i]] > 0
    BY <1>1, <1>3, <1>4, <2>1
  <2>5. p < Len(log[k]) /\ events'[log[k][p + 1]] > 0
    BY <2>1, <2>3, Zenon DEF Unread, Record
  <2> HIDE DEF r, p
  <2> QED BY <1>1, <1>7, <2>1, <2>2, <2>3, <2>4, <2>5, ReaderMoves, Zenon
<1>9. CASE HandleFails(k)
  <2> DEFINE r == [pos |-> p + 1, pc |-> "handle"]
  <2>1. /\ events' \in [Entry -> Nat] /\ StoredOnce'
        /\ \A d \in Entry : events[d] > 0 => events'[d] > 0
    BY <1>9, <1>2, <1>5, InsertKeeps, Zenon DEF HandleFails
  <2>2. r \in ReaderState /\ r.pos = p + 1 /\ r.pc = "handle"
    BY <1>1 DEF ReaderState
  <2>3. reader' = [reader EXCEPT ![k] = r] /\ UNCHANGED committed /\ Unread(k)
    BY <1>9, Zenon DEF HandleFails, kafka
  <2>4. committed[k] <= p + 1 /\ p + 1 <= Len(log[k])
    BY <1>1, <2>3 DEF Unread
  <2>5. ~HandlerFails => \A i \in 1..r.pos : events'[log[k][i]] > 0
    BY <1>9, Zenon DEF HandleFails
  <2>6. committed[k] <= r.pos /\ r.pos <= Len(log[k]) /\ r.pc # "commit"
    BY <2>2, <2>4
  <2> HIDE DEF r, p
  <2> QED BY <1>1, <1>7, <2>1, <2>2, <2>3, <2>5, <2>6, ReaderMoves, Zenon
<1>10. CASE Commit(k) \/ CommitFails(k)
  <2> DEFINE r == [pos |-> p + 1, pc |-> "handle"]
  <2>1. r \in ReaderState /\ r.pos = p + 1 /\ r.pc = "handle"
    BY <1>1 DEF ReaderState
  <2>2. /\ reader' = [reader EXCEPT ![k] = r] /\ UNCHANGED events
        /\ reader[k].pc = "commit"
    BY <1>10, Zenon DEF Commit, CommitFails
  <2>3. p + 1 <= Len(log[k]) /\ events[log[k][p + 1]] > 0
    <3>1. Unread(k) /\ events[Record(k)] > 0
      BY <2>2, Zenon DEF IInv, ReaderInv
    <3>2. p < Len(log[k]) /\ events[log[k][p + 1]] > 0
      BY <3>1, Zenon DEF Unread, Record
    <3> QED BY <1>1, <3>2
  <2>4. ~HandlerFails => \A i \in 1..(p + 1) : events[log[k][i]] > 0
    BY <1>1, <1>3, <2>3, SMTT(30)
  <2>5. PICK c \in Nat : c <= p + 1 /\ committed' = [committed EXCEPT ![k] = c]
    BY <1>1, <1>7, <1>10 DEF Commit, CommitFails, kafka
  <2>6. events' \in [Entry -> Nat] /\ StoredOnce'
        /\ \A d \in Entry : events[d] > 0 => events'[d] > 0
    BY <1>1, <1>6, <2>2
  <2>7. ~HandlerFails => \A i \in 1..r.pos : events'[log[k][i]] > 0
    BY <2>1, <2>2, <2>4, Zenon
  <2>8. c <= r.pos /\ r.pos <= Len(log[k]) /\ r.pc # "commit"
    BY <2>1, <2>3, <2>5
  <2> HIDE DEF r, p
  <2> QED BY <2>1, <2>2, <2>5, <2>6, <2>7, <2>8, ReaderMoves, Zenon
<1>11. CASE Restart(k)
  <2> DEFINE r == [pos |-> committed[k], pc |-> "handle"]
  <2>1. r \in ReaderState /\ r.pos = committed[k] /\ r.pc = "handle"
    BY <1>1, Zenon DEF ReaderState
  <2>2. reader' = [reader EXCEPT ![k] = r] /\ UNCHANGED <<committed, events>>
    BY <1>11, Zenon DEF Restart, ResumeOffset, kafka
  <2>3. committed[k] <= Len(log[k])
    BY <1>1
  <2>4. ~HandlerFails => \A i \in 1..committed[k] : events[log[k][i]] > 0
    BY <1>1, <1>3
  <2>5. events' \in [Entry -> Nat] /\ \A d \in Entry : events[d] > 0 => events'[d] > 0
    BY <1>1, <2>2
  <2>6. ~HandlerFails => \A i \in 1..r.pos : events'[log[k][i]] > 0
    BY <2>1, <2>2, <2>4
  <2>7. committed' = [committed EXCEPT ![k] = committed[k]] /\ StoredOnce'
    BY <1>6, <1>7, <2>2
  <2>8. committed[k] <= r.pos /\ r.pos <= Len(log[k]) /\ r.pc # "commit"
    BY <1>1, <2>1, <2>3
  <2> HIDE DEF r, p
  <2> QED BY <1>1, <2>1, <2>2, <2>5, <2>6, <2>7, <2>8, ReaderMoves, Zenon
<1> QED BY <1>8, <1>9, <1>10, <1>11, Zenon DEF ReaderStep

-----------------------------------------------------------------------------
(* Theorems *)

\* A step that changes nothing keeps the invariant.
LEMMA Stutter == ASSUME IInv, UNCHANGED vars PROVE IInv'
<1>1. UNCHANGED <<outbox, worker, log, committed, reader, events, faults>>
  BY Zenon DEF vars
<1>2. Appended' = Appended /\ UNCHANGED kafka
  BY <1>1, Zenon DEF Appended, kafka
<1>3. TypeOK'
  BY <1>1, Zenon DEF IInv, TypeOK
<1>4. LogInv' /\ \A e \in Entry : Published(e) <=> Published(e)'
  BY <1>2, TopicFrame
<1>5. WorkerInv'
  BY <1>1, <1>2, <1>4, Zenon DEF IInv, WorkerInv, Current
<1>6. ProcessedIsPublished' /\ StoredOnce'
  BY <1>1, <1>2, <1>4, Zenon DEF IInv, ProcessedIsPublished, StoredOnce
<1> QED BY <1>1, <1>2, <1>3, <1>4, <1>5, <1>6, ReaderFrame, Zenon DEF IInv

\* Every step keeps the inductive invariant.
LEMMA Inductive == IInv /\ [Next]_vars => IInv'
<1> SUFFICES ASSUME IInv, [Next]_vars PROVE IInv'
  OBVIOUS
<1>1. CASE UNCHANGED vars
  BY <1>1, Stutter
<1>2. CASE Next
  <2>1. ASSUME NEW e \in Entry, AppendEvent(e) PROVE IInv'
    BY <2>1, AppendEventStep
  <2>2. ASSUME NEW w \in Worker, LocalStep(w) PROVE IInv'
    BY <2>2, LocalStepKeeps
  <2>3. ASSUME NEW w \in Worker, NEW e \in Entry,
               Publish(w, e) \/ PublishFails(w, e) \/ Mark(w, e) \/ MarkFails(w, e)
        PROVE  IInv'
    BY <2>3, PublishStep, MarkStep
  <2>4. ASSUME NEW k \in Partition, ReaderStep(k) PROVE IInv'
    BY <2>4, ReaderStepKeeps
  <2> HIDE DEF IInv
  <2> QED BY <1>2, <2>1, <2>2, <2>3, <2>4, NextCases, Zenon
<1> QED BY <1>1, <1>2

\* The inductive invariant holds of the empty tables and topic.
LEMMA Initially == Init => IInv
<1> SUFFICES ASSUME Init PROVE IInv
  OBVIOUS
<1>1. TypeOK
  <2>1. Started \in WorkerState /\ Started.pc = "poll" /\ Started.batch = {}
    BY Zenon DEF Started, WorkerState
  <2>2. worker \in [Worker -> WorkerState]
        /\ \A w \in Worker : (worker[w].pc = "poll") <=> (worker[w].batch = {})
    BY <2>1, Zenon DEF Init
  <2>3. reader \in [Partition -> ReaderState]
    BY Zenon DEF Init, ReaderState
  <2> QED BY <2>2, <2>3 DEF Init, TypeOK
<1>2. WorkerInv
  BY Zenon DEF Init, WorkerInv, Started
<1>3. LogInv /\ ReaderInv /\ PassedStored
  BY DEF Init, LogInv, ReaderInv, PassedStored
<1>4. ProcessedIsPublished /\ StoredOnce
  BY DEF Init, ProcessedIsPublished, StoredOnce
<1> QED BY <1>1, <1>2, <1>3, <1>4, Zenon DEF IInv

\* The inductive invariant of the pipeline: what workers, topic and readers hold
\* at every point, through crashes and failed calls.
THEOREM PipelineInvariant == Spec => []IInv
BY Initially, Inductive, PTL DEF Spec

\* Tables, topic and program counters stay within their types.
THEOREM OutboxTypes == Spec => []TypeOK
<1>1. IInv => TypeOK
  BY Zenon DEF IInv
<1> QED BY <1>1, PipelineInvariant, PTL

\* poll marks an entry processed only after its record is in the topic: nothing
\* leaves the outbox unpublished.
THEOREM NothingUnpublished == Spec => []ProcessedIsPublished
<1>1. IInv => ProcessedIsPublished
  BY Zenon DEF IInv
<1> QED BY <1>1, PipelineInvariant, PTL

\* AppendWithID stores an event at most once, and only an appended one, however
\* often it is published and redelivered.
THEOREM NoDuplicates == Spec => []StoredOnce
<1>1. IInv => StoredOnce
  BY Zenon DEF IInv
<1> QED BY <1>1, PipelineInvariant, PTL

\* As long as the handler does not fail, the committed offset never passes a
\* record that is not stored, whatever crashes or fails elsewhere.
THEOREM CommittedIsStored == Spec => [](~HandlerFails => CommittedStored)
<1>1. IInv => (~HandlerFails => CommittedStored)
  <2> SUFFICES ASSUME IInv, ~HandlerFails, NEW k \in Partition, NEW i \in 1..committed[k]
               PROVE  events[log[k][i]] > 0
    BY Zenon DEF CommittedStored
  <2>1. committed[k] \in Nat /\ reader[k].pos \in Nat /\ committed[k] <= reader[k].pos
    BY ReaderFacts, Zenon
  <2>2. i \in 1..reader[k].pos
    BY <2>1
  <2> QED BY <2>2, Zenon DEF IInv, PassedStored
<1> QED BY <1>1, PipelineInvariant, PTL

\* CommitRecords never takes an offset back and never goes past the end of the
\* partition, through restarts and failed commits.
THEOREM OffsetsOnlyAdvance == Spec => OffsetsAdvance
<1>1. IInv /\ IInv' /\ [Next]_vars =>
        [\A k \in Partition : /\ committed[k] <= committed'[k]
                              /\ committed'[k] <= Len(log'[k])]_vars
  <2> SUFFICES ASSUME IInv, IInv', [Next]_vars, NEW j \in Partition
               PROVE  committed[j] <= committed'[j] /\ committed'[j] <= Len(log'[j])
    OBVIOUS
  <2>1. committed[j] \in Nat /\ reader[j].pos \in Nat /\ committed[j] <= reader[j].pos
    BY ReaderFacts, Zenon
  <2>2. committed'[j] \in Nat /\ reader'[j].pos \in Nat /\ Len(log'[j]) \in Nat
        /\ committed'[j] <= reader'[j].pos /\ reader'[j].pos <= Len(log'[j])
    <3>1. reader' \in [Partition -> ReaderState] /\ committed' \in [Partition -> Nat]
          /\ log' \in [Partition -> Seq(Entry)]
      BY Zenon DEF IInv, TypeOK
    <3>2. reader'[j] \in ReaderState /\ committed'[j] \in Nat /\ log'[j] \in Seq(Entry)
      BY <3>1, Zenon
    <3>3. reader'[j].pos \in Nat /\ Len(log'[j]) \in Nat
      BY <3>2 DEF ReaderState
    <3>4. committed'[j] <= reader'[j].pos /\ reader'[j].pos <= Len(log'[j])
      BY Zenon DEF IInv, ReaderInv
    <3> QED BY <3>2, <3>3, <3>4
  <2>3. UNCHANGED committed \/ \E k \in Partition : Commit(k)
    <3>1. CASE UNCHANGED vars
      BY <3>1, Zenon DEF vars
    <3>2. CASE Next
      <4>1. ASSUME NEW e \in Entry, AppendEvent(e) PROVE UNCHANGED committed
        BY <4>1, Zenon DEF AppendEvent, kafka
      <4>2. ASSUME NEW w \in Worker, LocalStep(w) PROVE UNCHANGED committed
        BY <4>2, Zenon DEF LocalStep, Fetch, Stop, Crash, Start, kafka
      <4>3. ASSUME NEW w \in Worker, NEW e \in Entry,
                   Publish(w, e) \/ PublishFails(w, e) \/ Mark(w, e) \/ MarkFails(w, e)
            PROVE  UNCHANGED committed
        BY <4>3, Zenon DEF Publish, PublishFails, Mark, MarkFails, kafka
      <4>4. ASSUME NEW k \in Partition, ReaderStep(k)
            PROVE  UNCHANGED committed \/ Commit(k)
        BY <4>4, Zenon DEF ReaderStep, Handle, HandleFails, CommitFails, Restart, kafka
      <4> QED BY <3>2, <4>1, <4>2, <4>3, <4>4, NextCases, Zenon
    <3> QED BY <3>1, <3>2
  <2>4. ASSUME NEW k \in Partition, Commit(k) PROVE committed[j] <= committed'[j]
    <3>1. committed' = [committed EXCEPT ![k] = reader[k].pos + 1]
          /\ committed \in [Partition -> Nat]
      BY <2>4, Zenon DEF Commit, IInv, TypeOK
    <3> QED BY <3>1, <2>1
  <2> QED BY <2>1, <2>2, <2>3, <2>4
<1> QED BY <1>1, PipelineInvariant, PTL DEF Spec, OffsetsAdvance

-----------------------------------------------------------------------------
(* Refinement *)

\* AppendWithID of an appended event is Store of the trail, or nothing when the
\* event is stored already.
LEMMA InsertIsStore ==
  ASSUME IInv, NEW e \in Appended, Appended' = Appended,
         UNCHANGED events \/ InsertAuditEvent(e)
  PROVE  Trail!Next \/ UNCHANGED Trail!vars
<1>1. events \in [Entry -> Nat] /\ e \in Entry
  BY Zenon DEF IInv, TypeOK, Appended
<1>2. CASE UNCHANGED events \/ events[e] # 0
  <2>1. UNCHANGED events
    BY <1>1, <1>2, Zenon DEF InsertAuditEvent
  <2> QED BY <2>1, Zenon DEF Stored, Trail!vars
<1>3. CASE InsertAuditEvent(e) /\ events[e] = 0
  <2>1. events'[e] = 1 /\ \A d \in Entry \ {e} : events'[d] = events[d]
    BY <1>1, <1>3, Zenon DEF InsertAuditEvent
  <2>2. e \notin Stored /\ Stored' = Stored \cup {e}
    BY <1>1, <1>3, <2>1 DEF Stored
  <2> QED BY <1>1, <2>2, Zenon DEF Trail!Next, Trail!Store
<1> QED BY <1>2, <1>3

\* Every step of the pipeline is a step of the trail or changes nothing there.
LEMMA StepSimulation ==
  ASSUME IInv, Next
  PROVE  Trail!Next \/ UNCHANGED Trail!vars
<1>1. ASSUME NEW e \in Entry, AppendEvent(e) PROVE Trail!Next
  <2>1. /\ UNCHANGED events /\ outbox[e] = "absent" /\ outbox'[e] = "pending"
        /\ \A d \in Entry \ {e} : outbox'[d] = outbox[d]
    BY <1>1, Zenon DEF AppendEvent, IInv, TypeOK
  <2>2. e \notin Appended /\ Appended' = Appended \cup {e} /\ UNCHANGED Stored
    BY <2>1, Zenon DEF Appended, Stored
  <2> QED BY <2>2, Zenon DEF Trail!Next, Trail!Append
<1>2. ASSUME NEW w \in Worker, LocalStep(w) PROVE UNCHANGED Trail!vars
  <2>1. UNCHANGED <<outbox, events>>
    BY <1>2, Zenon DEF LocalStep, Fetch, Stop, Crash, Start
  <2> QED BY <2>1, Zenon DEF Trail!vars, Appended, Stored
<1>3. ASSUME NEW w \in Worker, NEW e \in Entry,
             Publish(w, e) \/ PublishFails(w, e) \/ Mark(w, e) \/ MarkFails(w, e)
      PROVE  UNCHANGED Trail!vars
  <2>1. UNCHANGED events /\ e \in Appended
        /\ (outbox' = outbox \/ outbox' = [outbox EXCEPT ![e] = "processed"])
    BY <1>3, Zenon DEF Publish, PublishFails, Mark, MarkFails, Current, IInv, WorkerInv
  <2>2. Appended' = Appended
    BY <2>1, Zenon DEF IInv, TypeOK, Appended
  <2> QED BY <2>1, <2>2, Zenon DEF Trail!vars, Stored
<1>4. ASSUME NEW k \in Partition, ReaderStep(k)
      PROVE  Trail!Next \/ UNCHANGED Trail!vars
  <2>1. Appended' = Appended
    BY <1>4, ReaderSame
  <2>2. Unread(k) => Record(k) \in Appended
    <3>1. reader[k].pos \in Nat /\ Len(log[k]) \in Nat
      BY ReaderFacts, Zenon
    <3>2. \A i \in 1..Len(log[k]) : log[k][i] \in Appended
      BY Zenon DEF IInv, LogInv
    <3>3. reader[k].pos < Len(log[k]) => reader[k].pos + 1 \in 1..Len(log[k])
      BY <3>1
    <3> QED BY <3>2, <3>3, Zenon DEF Unread, Record
  <2>3. CASE Handle(k) \/ HandleFails(k)
    BY <2>1, <2>2, <2>3, InsertIsStore, Zenon DEF Handle, HandleFails
  <2>4. CASE Commit(k) \/ CommitFails(k) \/ Restart(k)
    BY <2>1, <2>4, Zenon DEF Commit, CommitFails, Restart, Trail!vars, Stored
  <2> QED BY <1>4, <2>3, <2>4, Zenon DEF ReaderStep
<1> QED BY <1>1, <1>2, <1>3, <1>4, NextCases, Zenon

\* The pipeline implements the audit trail as far as safety goes: events are
\* appended once, and stored once and only after that.
THEOREM ImplementsTrail == Spec => Trail!Safe
<1>1. Init => Trail!Init
  BY DEF Init, Trail!Init, Appended, Stored
<1>2. IInv /\ [Next]_vars => [Trail!Next]_(Trail!vars)
  <2>1. UNCHANGED vars => UNCHANGED Trail!vars
    BY Zenon DEF vars, Trail!vars, Appended, Stored
  <2> QED BY <2>1, StepSimulation
<1> QED BY <1>1, <1>2, PipelineInvariant, PTL DEF Spec, Trail!Safe
=============================================================================
