---------------------------- MODULE ServerShutdown ----------------------------
(***************************************************************************)
(* The life of the server process, from serving to exit: the HTTP servers, *)
(* the outbox worker, the Kafka consumer, the connections they use, and the*)
(* audit events that requests leave behind on the way.                     *)
(*                                                                         *)
(* A request writes its compliance event to the outbox before it goes on,  *)
(* and leaves its security event in the buffer of a publisher whose loop   *)
(* writes it to the outbox.  The outbox is a table: it survives the exit,  *)
(* the buffer does not.  With a database and Kafka configured.             *)
(***************************************************************************)
CONSTANTS
  Requests,
  Faults            \* subset of {"kafka", "hang"}: Kafka fails, a request hangs

MainSrv == "main"
AdminSrv == "admin"
Servers == {MainSrv, AdminSrv}

VARIABLES
  main,             \* where waitForShutdown is
  expired,          \* its 30 second context has expired
  listening,        \* servers that accept requests
  request,          \* the requests
  acked,            \* requests told that their compliance event is written
  buffer, dropped,  \* security events in memory, and given up
  outbox, published,\* events in the table, and on the topic
  worker, consumer, \* "running", "stopping" or "stopped"
  producer, db      \* open connections

vars == <<main, expired, listening, request, acked, buffer, dropped, outbox, published,
          worker, consumer, producer, db>>
audit == <<acked, buffer, dropped, outbox, published>>
background == <<worker, consumer>>
connections == <<producer, db>>

Alive == main # "exited"
-----------------------------------------------------------------------------
(* Requests. *)

Accept(r, srv) ==
  /\ Alive /\ srv \in listening
  /\ request[r].pc = "new"
  /\ request' = [request EXCEPT ![r] = [pc |-> "running", server |-> srv]]
  /\ UNCHANGED <<main, expired, listening, audit, background, connections>>

\* Fail-closed: an event that cannot be written ends the request.
EmitCompliance(r) ==
  /\ Alive /\ request[r].pc = "running" /\ r \notin acked
  /\ IF db
       THEN /\ outbox' = outbox \cup {<<"compliance", r>>}
            /\ acked' = acked \cup {r}
            /\ UNCHANGED request
       ELSE request' = [request EXCEPT ![r].pc = "done"] /\ UNCHANGED <<outbox, acked>>
  /\ UNCHANGED <<main, expired, listening, buffer, dropped, published, background, connections>>

\* The event goes to the buffer; the request ends.
EmitSecurity(r) ==
  /\ Alive /\ request[r].pc = "running"
  /\ buffer' = buffer \cup {<<"security", r>>}
  /\ request' = [request EXCEPT ![r].pc = "done"]
  /\ UNCHANGED <<main, expired, listening, acked, dropped, outbox, published, background, connections>>

\* The request ends without a security event.
Finish(r) ==
  /\ Alive /\ request[r].pc = "running"
  /\ request' = [request EXCEPT ![r].pc = "done"]
  /\ UNCHANGED <<main, expired, listening, audit, background, connections>>

\* A request that does not end by itself.
Hang(r) ==
  /\ "hang" \in Faults
  /\ Alive /\ request[r].pc = "running"
  /\ request' = [request EXCEPT ![r].pc = "hung"]
  /\ UNCHANGED <<main, expired, listening, audit, background, connections>>

InFlight(srv) == {r \in Requests : request[r].pc \in {"running", "hung"} /\ request[r].server = srv}
-----------------------------------------------------------------------------
(* Background work. *)

\* The flush loop of the security publisher; without a database its retries fail.
FlushSecurity ==
  /\ Alive /\ buffer # {}
  /\ buffer' = {}
  /\ IF db THEN outbox' = outbox \cup buffer /\ UNCHANGED dropped
           ELSE dropped' = dropped \cup buffer /\ UNCHANGED outbox
  /\ UNCHANGED <<main, expired, listening, request, acked, published, background, connections>>

\* The outbox worker publishes an entry, in a poll or while it drains.
Publish(e) ==
  /\ Alive /\ worker # "stopped" /\ db /\ producer
  /\ e \in outbox
  /\ outbox' = outbox \ {e} /\ published' = published \cup {e}
  /\ UNCHANGED <<main, expired, listening, request, acked, buffer, dropped, background, connections>>

\* drain() returns on an empty fetch, or when its own ten seconds are over.
WorkerDrained ==
  /\ Alive /\ worker = "stopping"
  /\ outbox = {} \/ "kafka" \in Faults \/ ~db
  /\ worker' = "stopped"
  /\ UNCHANGED <<main, expired, listening, request, audit, consumer, connections>>

ConsumerStops ==
  /\ Alive /\ consumer = "stopping"
  /\ consumer' = "stopped"
  /\ UNCHANGED <<main, expired, listening, request, audit, worker, connections>>
-----------------------------------------------------------------------------
(* Startup and shutdown. *)

startServer == listening = Servers
startPhase2Workers == worker = "running" /\ consumer = "running"

\* The interrupt arrives: the context starts and the worker is cancelled.
Interrupt ==
  /\ main = "serving"
  /\ main' = "stop_worker" /\ worker' = "stopping"
  /\ UNCHANGED <<expired, listening, request, audit, consumer, connections>>

Expire ==
  /\ main \notin {"serving", "exited"} /\ ~expired
  /\ expired' = TRUE
  /\ UNCHANGED <<main, listening, request, audit, background, connections>>

\* First the worker, then the consumer; each wait ends with the context at the latest.
stopPhase2Workers ==
  /\ \/ /\ main = "stop_worker"
        /\ worker = "stopped" \/ expired
        /\ main' = "stop_consumer" /\ consumer' = "stopping"
     \/ /\ main = "stop_consumer"
        /\ consumer = "stopped" \/ expired
        /\ main' = "close_main" /\ UNCHANGED consumer
  /\ UNCHANGED <<expired, listening, request, audit, worker, connections>>

\* srv.Shutdown closes the listeners of one server...
CloseListener(srv) ==
  /\ main = (IF srv = MainSrv THEN "close_main" ELSE "close_admin")
  /\ listening' = listening \ {srv}
  /\ main' = IF srv = MainSrv THEN "wait_main" ELSE "wait_admin"
  /\ UNCHANGED <<expired, request, audit, background, connections>>

\* ... and waits for its requests, or for the context.
ShutdownWait(srv) ==
  /\ main = (IF srv = MainSrv THEN "wait_main" ELSE "wait_admin")
  /\ InFlight(srv) = {} \/ expired
  /\ main' = IF srv = MainSrv THEN "close_admin" ELSE "close_infra"
  /\ UNCHANGED <<expired, listening, request, audit, background, connections>>

\* Kafka producer, Redis and database are closed in turn; then main returns.
closePhase2Infra ==
  /\ \/ main = "close_infra" /\ main' = "close_db" /\ producer' = FALSE /\ UNCHANGED db
     \/ main = "close_db" /\ main' = "exiting" /\ db' = FALSE /\ UNCHANGED producer
  /\ UNCHANGED <<expired, listening, request, audit, background>>

\* "shutdown complete": what is in memory is gone with the process.
Exit ==
  /\ main = "exiting"
  /\ main' = "exited"
  /\ UNCHANGED <<expired, listening, request, audit, background, connections>>
-----------------------------------------------------------------------------

Init ==
  /\ main = "serving" /\ expired = FALSE /\ startServer /\ startPhase2Workers
  /\ request = [r \in Requests |-> [pc |-> "new", server |-> MainSrv]]
  /\ acked = {} /\ buffer = {} /\ dropped = {} /\ outbox = {} /\ published = {}
  /\ producer = TRUE /\ db = TRUE

Shutdown ==
  \/ stopPhase2Workers
  \/ \E srv \in Servers : CloseListener(srv) \/ ShutdownWait(srv)
  \/ closePhase2Infra
  \/ Exit

Next ==
  \/ \E r \in Requests :
       \/ \E srv \in Servers : Accept(r, srv)
       \/ EmitCompliance(r) \/ EmitSecurity(r) \/ Finish(r) \/ Hang(r)
  \/ FlushSecurity \/ (\E e \in outbox : Publish(e)) \/ WorkerDrained \/ ConsumerStops
  \/ Interrupt \/ Expire \/ Shutdown

Spec == Init /\ [][Next]_vars

\* The shutdown runs by itself, and its context expires in the end.
Fairness == WF_vars(Shutdown) /\ WF_vars(Expire)

FairSpec == Spec /\ Fairness
-----------------------------------------------------------------------------
(* Properties. *)

AuditEvents == {"compliance", "security"} \X Requests

\* Where the process is, and where every event is.
TypeOK ==
  /\ main \in {"serving", "stop_worker", "stop_consumer", "close_main", "wait_main",
               "close_admin", "wait_admin", "close_infra", "close_db", "exiting", "exited"}
  /\ {expired, producer, db} \subseteq BOOLEAN /\ (expired => main # "serving")
  /\ listening \subseteq Servers /\ acked \subseteq Requests
  /\ buffer \cup dropped \cup outbox \cup published \subseteq AuditEvents
  /\ {worker, consumer} \subseteq {"running", "stopping", "stopped"}
  /\ \A r \in Requests : request[r].pc \in {"new", "running", "hung", "done"}

\* A compliance event that a request was told is written is in the outbox or on
\* the topic, at any moment of the shutdown and after the exit (fail-closed Emit).
AckedPersisted == \A r \in acked : <<"compliance", r>> \in outbox \cup published

\* The database is closed only when no request runs and worker and consumer have
\* stopped, unless the thirty seconds were over (order of waitForShutdown).
UsersGoneBeforeClose ==
  ~db /\ ~expired =>
    /\ \A srv \in Servers : InFlight(srv) = {}
    /\ worker = "stopped" /\ consumer = "stopped"

\* After the interrupt the process exits, whatever hangs (the thirty seconds).
ShutdownEnds == main # "serving" ~> main = "exited"

\* A shutdown in time leaves no security event behind ("flushes outstanding events
\* on shutdown"; System.Close: "Security publisher needs graceful drain").
\* The code does not keep this statement.
SecurityFlushed == main = "exited" /\ ~expired => buffer = {} /\ dropped = {}

\* A shutdown in time leaves the outbox empty ("Stop Phase 2 workers first (drain
\* outbox, flush Kafka)").
\* The code does not keep this statement.
OutboxDrained == main = "exited" /\ ~expired => outbox = {}
=============================================================================
