------------------------------ MODULE MCConsent ------------------------------
(* Safety of Consent: one of four scenarios runs in each behaviour. *)
EXTENDS Consent, TLC

CONSTANTS login, registry, r4

VARIABLE part     \* the scenario of this behaviour

\* The clock matters: cooldown, window and expiry, for one purpose.
Times == INSTANCE Consent WITH ConsentTTL <- 2, MaxTime <- 4, AuditFails <- FALSE
\* Grants of one purpose that was never granted, and deletions in between.
Conflict == INSTANCE Consent WITH
  Ops <- {"grant", "delete"}, MaxTime <- 2, AuditFails <- FALSE
\* All operations on two purposes without a database.
InMemory == INSTANCE Consent WITH Backend <- "memory"

\* At most n requests, for the purposes in P; the fourth request is r4.
Within(n, P) ==
  /\ Cardinality({r \in Req : req'[r].pc # "idle"}) <= n
  /\ \A r \in Req : req'[r].todo \subseteq P
  /\ n < 4 => req'[r4].pc = "idle"

MCInit == Init /\ part \in {"times", "conflict", "sql", "memory"}

MCNext ==
  \/ part = "times" /\ Times!Next /\ Within(3, {login}) /\ UNCHANGED part
  \/ part = "conflict" /\ Conflict!Next /\ Within(4, {login}) /\ UNCHANGED part
  \/ part = "sql" /\ Next /\ Within(2, Purpose) /\ UNCHANGED part
  \/ part = "memory" /\ InMemory!Next /\ Within(2, Purpose) /\ UNCHANGED part

MCSpec == MCInit /\ [][MCNext]_<<part, vars>>

ReqSymmetry == Permutations(Req \ {r4})

\* In SQL, a request on several purposes that is answered with an error has
\* changed none of them (forEachScope in RunInTx).
AllOrNothingInSQL == part # "memory" => AllOrNothing

\* In SQL, a revoked consent is not active again before the cooldown has passed
\* since the revocation became visible, up to the age a request may have.  The
\* mutex bounds nothing: once it is taken the deadline is not looked at again,
\* and the revocation may show as late as the scheduler likes.
RegrantSpacedInSQL ==
  [][\A p \in Purpose :
       (/\ part # "memory" /\ table[p] # NoRow /\ table[p].revoked # Never
        /\ table'[p] # NoRow /\ table'[p].revoked = Never)
       => now - revokedOn[p] >= ReGrantCooldown - Timeout]_vars
=============================================================================
