----------------------------- MODULE MCPublishers -----------------------------
(***************************************************************************)
(* The two asynchronous audit publishers and the shutdown of the server    *)
(* that hosts them.  The three share no state, so no step of one matters   *)
(* to another: in every behaviour one of them runs and the others rest in  *)
(* their initial states.                                                   *)
(***************************************************************************)
EXTENDS OpsPublisher

CONSTANTS e1, e2, e3, e4, login, r1, r2

VARIABLES
  part,                                   \* what runs in this behaviour
  events, head, tail, count, dropped, emitted, flusher, cancelled, expired, phase, closedAt,
  stored, flushed, retries, droppedAfterRetry, abandoned,   \* SecurityPublisher
  main, contextExpired, listening, request, acked, buffer, lost, outbox, published, worker,
  consumer, producer, db                  \* ServerShutdown

\* A publisher whose loop alone writes, and one without retries on which Flush is
\* called, too.
Loop == INSTANCE SecurityPublisher WITH
  Capacity <- 2, BatchSize <- 2, MaxRetries <- 1, MaxEvents <- 3,
  StoreFails <- TRUE, Closes <- TRUE, FlushCalls <- FALSE
Flushed == INSTANCE SecurityPublisher WITH
  Capacity <- 2, BatchSize <- 2, MaxRetries <- 0, MaxEvents <- 3,
  StoreFails <- TRUE, Closes <- TRUE, FlushCalls <- TRUE

Server == INSTANCE ServerShutdown WITH
  Requests <- {r1, r2}, Faults <- {"kafka", "hang"}, expired <- contextExpired, dropped <- lost

securityVars == <<events, head, tail, count, dropped, emitted, flusher, cancelled, expired,
                  phase, closedAt, stored, flushed, retries, droppedAfterRetry, abandoned>>
serverVars == <<main, contextExpired, listening, request, acked, buffer, lost, outbox, published,
                worker, consumer, producer, db>>

MCInit ==
  /\ part \in {"ops", "loop", "flushed", "server"}
  /\ Init /\ Loop!Init /\ Server!Init
  /\ part # "ops" => defaultRate = "all"

MCNext ==
  \/ part = "ops" /\ Next /\ UNCHANGED <<part, securityVars, serverVars>>
  \/ part = "loop" /\ Loop!Next /\ UNCHANGED <<part, vars, serverVars>>
  \/ part = "flushed" /\ Flushed!Next /\ UNCHANGED <<part, vars, serverVars>>
  \/ part = "server" /\ Server!Next /\ UNCHANGED <<part, vars, securityVars>>

\* A part at rest asks for nothing: what is fair is disabled in its Init.
MCSpec ==
  /\ MCInit /\ [][MCNext]_<<part, vars, securityVars, serverVars>>
  /\ Loop!Fairness /\ Server!Fairness
-----------------------------------------------------------------------------
(* The properties of the parts.                                            *)

\* Every variable of the three has its type.
AllTypes == TypeOK /\ Loop!TypeOK /\ Server!TypeOK

\* The ring buffer is a bounded queue that drops its oldest element.
QueueSpec == Loop!QueueSpec

\* No event is lost without a trace while the server runs: a security event is
\* buffered, in hand, flushed or counted as dropped, until Close cuts off the retries
\* of a write that failed; without calls of Flush events are stored in the order of
\* Emit, and again only after a failure.  A compliance event that was acknowledged is
\* in the outbox or published, and the database outlives its users unless the
\* shutdown ran out of time.
NothingLost ==
  /\ AllTypes /\ Loop!StatsAddUp
  /\ part = "loop" => Loop!InOrder
  /\ Server!AckedPersisted /\ Server!UsersGoneBeforeClose

\* Publishing ends: every event leaves the buffer and the hands of the flushers,
\* Close returns, and the process exits after an interrupt.
PublishingEnds == Loop!EventsLeave /\ Loop!CloseReturns /\ Server!ShutdownEnds
=============================================================================
