-------------------------- MODULE SecurityPublisher --------------------------
(***************************************************************************)
(* The asynchronous publisher of security audit events: emitters put events*)
(* into a ring buffer that drops the oldest, a background loop takes       *)
(* batches and writes each event with retries, and Close stops the loop and*)
(* drains what is left.                                                    *)
(*                                                                         *)
(* Events are numbered in the order of Emit.  Three flushers can hold      *)
(* batches: the loop, the goroutine that calls Close, and one that calls   *)
(* Flush with a context that outlives the call.                            *)
(***************************************************************************)
EXTENDS Integers, FiniteSets, Sequences, SequencesExt

CONSTANTS
  Capacity,       \* of the ring buffer
  BatchSize,
  MaxRetries,
  MaxEvents,      \* bound: events emitted
  StoreFails,     \* the store may fail
  Closes,         \* the publisher is closed at some time
  FlushCalls      \* somebody calls Flush

VARIABLES
  events, head, tail, count, dropped,     \* RingBuffer
  emitted,                                \* number of the last event
  flusher,                                \* what loop and closer are doing
  cancelled,                              \* p.ctx is done
  expired,                                \* the five seconds of Close are over
  phase,                                  \* of Close
  closedAt,                               \* history: events emitted before Close
  stored,                                 \* what the store holds, in order
  flushed, retries, droppedAfterRetry,    \* the events that each figure of Stats counts
  abandoned                               \* history: events given up with the context

ring == <<events, head, tail, count, dropped>>
outcome == <<stored, flushed, retries, droppedAfterRetry, abandoned>>
vars == <<ring, emitted, flusher, cancelled, expired, phase, closedAt, outcome>>
-----------------------------------------------------------------------------

Empty == 0
Flushers == {"loop", "closer", "caller"}
Idle == [pc |-> "idle", batch |-> <<>>, attempt |-> 0]
Exited == [pc |-> "exited", batch |-> <<>>, attempt |-> 0]

\* The indices stay inside the ring, the head is count places after the tail,
\* and an event is tried at most MaxRetries + 1 times.
TypeOK ==
  /\ events \in [0 .. Capacity - 1 -> 0 .. MaxEvents]
  /\ head \in 0 .. Capacity - 1 /\ tail \in 0 .. Capacity - 1 /\ count \in 0 .. Capacity
  /\ head = (tail + count) % Capacity
  /\ dropped \in 0 .. MaxEvents /\ emitted \in 0 .. MaxEvents
  /\ \A f \in Flushers :
       /\ flusher[f].pc \in {"idle", "append", "backoff", "exited"}
       /\ Len(flusher[f].batch) <= BatchSize
       /\ flusher[f].attempt \in 0 .. MaxRetries
  /\ cancelled \in BOOLEAN /\ expired \in BOOLEAN
  /\ phase \in {"open", "waiting", "draining", "closed"} /\ closedAt \in 0 .. MaxEvents
  /\ stored \in Seq(1 .. MaxEvents)
  /\ UNION {flushed, retries, droppedAfterRetry, abandoned} \subseteq 1 .. MaxEvents

NewRingBuffer ==
  /\ events = [i \in 0 .. Capacity - 1 |-> Empty]
  /\ head = 0 /\ tail = 0 /\ count = 0 /\ dropped = 0

\* New, with its background flusher.
Init ==
  /\ NewRingBuffer
  /\ emitted = 0
  /\ flusher = [f \in Flushers |-> Idle]
  /\ cancelled = FALSE /\ expired = FALSE /\ phase = "open" /\ closedAt = MaxEvents
  /\ stored = <<>> /\ flushed = {} /\ retries = {} /\ droppedAfterRetry = {} /\ abandoned = {}
-----------------------------------------------------------------------------
(* buffer.go: every operation runs under the buffer's mutex                *)

\* Mutant: the newest event gives way, not the oldest.
Enqueue_DropNewest(e) ==
  LET full == count >= Capacity
  IN /\ dropped' = IF full THEN dropped + 1 ELSE dropped
     /\ events' = IF full THEN events ELSE [events EXCEPT ![head] = e]
     /\ head' = IF full THEN head ELSE (head + 1) % Capacity
     /\ count' = IF full THEN count ELSE count + 1
     /\ UNCHANGED tail

Enqueue(e) ==
  LET full == count >= Capacity
  IN /\ tail' = IF full THEN (tail + 1) % Capacity ELSE tail
     /\ dropped' = IF full THEN dropped + 1 ELSE dropped
     /\ events' = [events EXCEPT ![head] = e]
     /\ head' = (head + 1) % Capacity
     /\ count' = IF full THEN count ELSE count + 1

\* The events DequeueBatch(n) returns, oldest first.
Taken(n) == [i \in 1 .. n |-> events[(tail + i - 1) % Capacity]]

DequeueBatch(n) ==
  /\ tail' = (tail + n) % Capacity
  /\ count' = count - n
  /\ UNCHANGED <<events, head, dropped>>
-----------------------------------------------------------------------------
(* publisher.go                                                            *)

Emit ==
  /\ emitted < MaxEvents
  /\ emitted' = emitted + 1
  /\ Enqueue(emitted')
  /\ UNCHANGED <<flusher, cancelled, expired, phase, closedAt, outcome>>

\* The context of the flusher's calls is done.
Done(f) == (f = "loop" /\ cancelled) \/ (f = "closer" /\ expired)

\* flushBatch takes up to batchSize events: the loop on its ticker, also when
\* the context is done and select picks the ticker, Close while the buffer is
\* not empty, Flush when it is called.
TakeBatch(f) ==
  /\ flusher[f].pc = "idle" /\ count > 0
  /\ f = "closer" => phase = "draining"
  /\ f = "caller" => FlushCalls
  /\ LET n == IF BatchSize > count THEN count ELSE BatchSize
     IN /\ flusher' = [flusher EXCEPT ![f] = [pc |-> "append", batch |-> Taken(n), attempt |-> 0]]
        /\ DequeueBatch(n)
  /\ UNCHANGED <<emitted, cancelled, expired, phase, closedAt, outcome>>

\* The flusher is through with the first event of its batch.
NextEvent(f) ==
  flusher' = [flusher EXCEPT ![f] =
    IF Len(@.batch) = 1 THEN Idle ELSE [pc |-> "append", batch |-> Tail(@.batch), attempt |-> 0]]

\* store.Append, which gives every row a new id: the event is stored, or the call
\* fails, which it does for want of time, too, and may have stored it all the same.
PersistEvent(f) ==
  /\ flusher[f].pc = "append"
  /\ LET e == flusher[f].batch[1]
     IN  \/ /\ stored' = Append(stored, e) /\ flushed' = flushed \cup {e}
            /\ NextEvent(f)
            /\ UNCHANGED retries
         \/ /\ StoreFails \/ Done(f)
            /\ stored' \in {stored, Append(stored, e)} /\ retries' = retries \cup {e}
            /\ flusher' = [flusher EXCEPT ![f].pc = "backoff"]
            /\ UNCHANGED flushed
  /\ UNCHANGED <<ring, emitted, cancelled, expired, phase, closedAt, droppedAfterRetry, abandoned>>

\* Mutant: an event given up after the last attempt is counted nowhere.
RetryEvent_Uncounted(f) ==
  /\ flusher[f].pc = "backoff"
  /\ IF flusher[f].attempt < MaxRetries
     THEN /\ flusher' = [flusher EXCEPT ![f].pc = "append", ![f].attempt = @ + 1]
     ELSE /\ NextEvent(f)
  /\ UNCHANGED <<ring, emitted, cancelled, expired, phase, closedAt, outcome>>

\* The backoff is over: the next attempt, or the event is dropped after the
\* last one.
RetryEvent(f) ==
  /\ flusher[f].pc = "backoff"
  /\ IF flusher[f].attempt < MaxRetries
     THEN /\ flusher' = [flusher EXCEPT ![f].pc = "append", ![f].attempt = @ + 1]
          /\ UNCHANGED droppedAfterRetry
     ELSE /\ droppedAfterRetry' = droppedAfterRetry \cup {flusher[f].batch[1]}
          /\ NextEvent(f)
  /\ UNCHANGED <<ring, emitted, cancelled, expired, phase, closedAt, stored, flushed, retries, abandoned>>

\* The context is done first: persistWithRetry returns, and no figure has the event.
AbandonEvent(f) ==
  /\ flusher[f].pc = "backoff" /\ Done(f)
  /\ abandoned' = abandoned \cup {flusher[f].batch[1]}
  /\ NextEvent(f)
  /\ UNCHANGED <<ring, emitted, cancelled, expired, phase, closedAt, stored, flushed, retries,
                 droppedAfterRetry>>

\* Mutant: the loop does not listen for the end of its context.
LoopExit_Deaf == FALSE /\ UNCHANGED vars

LoopExit ==
  /\ flusher["loop"].pc = "idle" /\ cancelled
  /\ flusher' = [flusher EXCEPT !["loop"] = Exited]
  /\ UNCHANGED <<ring, emitted, cancelled, expired, phase, closedAt, outcome>>

\* Close: p.cancel()
Close ==
  /\ Closes /\ phase = "open"
  /\ cancelled' = TRUE /\ phase' = "waiting" /\ closedAt' = emitted
  /\ UNCHANGED <<ring, emitted, flusher, expired, outcome>>

\* wg.Wait()
LoopStopped ==
  /\ phase = "waiting" /\ flusher["loop"].pc = "exited"
  /\ phase' = "draining"
  /\ UNCHANGED <<ring, emitted, flusher, cancelled, expired, closedAt, outcome>>

DrainTimeout ==
  /\ phase = "draining" /\ ~expired
  /\ expired' = TRUE
  /\ UNCHANGED <<ring, emitted, flusher, cancelled, phase, closedAt, outcome>>

\* The buffer is empty after the last batch.
Closed ==
  /\ phase = "draining" /\ flusher["closer"].pc = "idle" /\ count = 0
  /\ phase' = "closed"
  /\ UNCHANGED <<ring, emitted, flusher, cancelled, expired, closedAt, outcome>>

Next ==
  \/ Emit \/ LoopExit \/ Close \/ LoopStopped \/ DrainTimeout \/ Closed
  \/ \E f \in Flushers : TakeBatch(f) \/ PersistEvent(f) \/ RetryEvent(f) \/ AbandonEvent(f)

Spec == Init /\ [][Next]_vars

\* The loop and the closing goroutine are scheduled; the ticker fires again and
\* again.  Nobody has to emit, to close or to call Flush.
Fairness ==
  /\ WF_vars(TakeBatch("loop")) /\ WF_vars(TakeBatch("closer"))
  /\ \A f \in Flushers : WF_vars(PersistEvent(f) \/ RetryEvent(f) \/ AbandonEvent(f))
  /\ WF_vars(LoopExit) /\ WF_vars(LoopStopped) /\ WF_vars(Closed)

FairSpec == Spec /\ Fairness
-----------------------------------------------------------------------------
(* properties                                                              *)

InHand == UNION {Range(flusher[f].batch) : f \in Flushers}

\* The ring buffer implements a bounded queue that drops its oldest element:
\* head, tail and count never lose, repeat or reorder an event
\* (Enqueue and DequeueBatch of RingBuffer, under wrap-around).
BQ == INSTANCE BoundedQueue WITH
  Item <- 1 .. MaxEvents, Bound <- Capacity, queue <- Taken(count), lossCount <- dropped
QueueSpec == BQ!Queue

\* Every event emitted is in the buffer, in the batch being written, flushed or
\* counted as dropped, one of these only; or Close has cut its retries off, after an
\* Append that failed.  So the figures of Stats add up until Close, and miss no more
\* than the events cut off after it.  What counts as flushed is in the store.
StatsAddUp ==
  /\ emitted = count + Cardinality(InHand) + Cardinality(flushed) + dropped
                + Cardinality(droppedAfterRetry) + Cardinality(abandoned)
  /\ ~cancelled => abandoned = {}
  /\ abandoned \subseteq retries /\ flushed \subseteq Range(stored)

\* Events reach the store in the order they were emitted, also when Close takes
\* over from the loop, and each once, unless an Append of it was told as failed.
InOrder ==
  \A i, j \in DOMAIN stored : i < j =>
    stored[i] < stored[j] \/ (stored[i] = stored[j] /\ stored[i] \in retries)

\* Every event emitted before Close has been written when Close returns in
\* time, but for what was dropped and counted ("Close drains the buffer and
\* shuts down the publisher").
\* The code does not keep this statement.
ClosedDrained ==
  phase = "closed" /\ ~expired /\ dropped = 0 =>
    1 .. closedAt \subseteq Range(stored) \cup droppedAfterRetry

\* Every event leaves the buffer and the hands of the flusher in the end,
\* however often the store fails, unless it is emitted into a closed publisher.
EventsLeave ==
  \A e \in 1 .. MaxEvents :
    (emitted >= e /\ phase = "open") ~> (e \notin InHand \cup Range(Taken(count)))

\* Close returns once emitters are silent: emitters are bounded here.
CloseReturns == (phase = "waiting") ~> (phase = "closed")
=============================================================================
