----------------------------- MODULE AuditTrail -----------------------------
(* What the audit pipeline promises: every event that was appended is stored
   in the audit table, once. *)
CONSTANT Entry      \* audit events

VARIABLES appended, stored

vars == <<appended, stored>>

Init == appended = {} /\ stored = {}

Append(e) ==
  /\ e \notin appended
  /\ appended' = appended \cup {e}
  /\ UNCHANGED stored

Store(e) ==
  /\ e \in appended \ stored
  /\ stored' = stored \cup {e}
  /\ UNCHANGED appended

Next == \E e \in Entry : Append(e) \/ Store(e)

Safe == Init /\ [][Next]_vars
Spec == Safe /\ \A e \in Entry : WF_vars(Store(e))
=============================================================================
