---------------------------- MODULE LookupContract ----------------------------
(***************************************************************************)
(* What the registry service relies on when it calls the orchestrator: a   *)
(* lookup for some evidence types ends at most once, with evidence for     *)
(* some of those types, and with an error exactly when it has none.        *)
(***************************************************************************)
CONSTANTS EvidenceType

VARIABLES asked,     \* the types of the lookup under way, {} when there is none
          outcome    \* what it returned, Pending before

Pending == [done |-> FALSE]

\* The results a caller has to be ready for.
Outcomes(types) ==
  {[done |-> TRUE, got |-> got, failed |-> got = {}] : got \in SUBSET types}

ContractInit == asked = {} /\ outcome = Pending

Ask ==
  /\ asked = {}
  /\ asked' \in SUBSET EvidenceType \ {{}}
  /\ UNCHANGED outcome

Return ==
  /\ asked # {} /\ outcome = Pending
  /\ outcome' \in Outcomes(asked)
  /\ UNCHANGED asked

ContractNext == Ask \/ Return

Contract == ContractInit /\ [][ContractNext]_<<asked, outcome>>
=============================================================================
