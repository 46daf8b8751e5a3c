---------------------------- MODULE MCAuditOutbox ----------------------------
(***************************************************************************)
(* Instances of AuditOutbox.  Storing an event fails in some behaviours:   *)
(* the event is lost then (see CommittedStored), so what holds only when   *)
(* it never fails is stated of the other behaviours.  One event is enough  *)
(* to see the failures.                                                    *)
(***************************************************************************)
EXTENDS AuditOutbox

CONSTANT k1

VARIABLE storing      \* whether storing an event works throughout

\* One partition.
Together == [e \in Entry |-> k1]

Unlucky == INSTANCE AuditOutbox WITH HandlerFails <- TRUE

MCInit == Init /\ storing \in BOOLEAN

MCNext ==
  \/ storing /\ Next /\ UNCHANGED storing
  \/ ~storing /\ Unlucky!Next /\ Appended' \subseteq {1} /\ UNCHANGED storing

MCSpec == MCInit /\ [][MCNext]_<<vars, storing>> /\ Fairness

\* Only what AuditOutbox says, with the constants of the configuration.
PlainSpec == Init /\ storing = FALSE /\ [][Next /\ UNCHANGED storing]_<<vars, storing>>

Watched(S) == IF storing THEN S ELSE {}
StoringTrail == INSTANCE AuditTrail WITH appended <- Watched(Appended), stored <- Watched(Stored)

\* Every entry leaves the outbox and, where storing works, the pipeline implements
\* the audit trail: every appended event is stored in the end, once, although
\* workers and readers crash and calls fail.
TrailKept == OutboxDrains /\ StoringTrail!Spec
=============================================================================
