----------------------------- MODULE MCDecisions -----------------------------
(***************************************************************************)
(* Credentials and the decisions that read them.  A scenario chooses what  *)
(* is called, for how many users, and what may fail.                       *)
(***************************************************************************)
EXTENDS DecisionService, TLC

CONSTANTS c1, c2

VARIABLE part

evalVars == <<eval, trail>>

\* Only the store of credentials may fail, and its lookup.
Reading == INSTANCE DecisionService WITH
  Faults <- {"store"}, Outages <- {"credential"}, MaxTime <- 1

MCInit == part \in {"credentials", "evaluate", "presence"} /\ Init /\ (regulated => part = "credentials")

\* One issuance beside an evaluation; consent, once given, stays with the user.
Issuing ==
  /\ vcall'[c2] = NewCall /\ vcall'[c1].op # "verify"
  /\ \A p \in consent \ consent' : p[1] \notin users'

MCNext ==
  \/ part = "credentials" /\ VCNext /\ UNCHANGED <<part, evalVars>>
  \/ part = "evaluate" /\ Next /\ UNCHANGED <<part, vcall, users>>
  \/ part = "presence" /\ Reading!Next /\ Issuing /\ UNCHANGED part

MCSpec == MCInit /\ [][MCNext]_<<part, vars>>

Symmetry == Permutations(Users)
=============================================================================
