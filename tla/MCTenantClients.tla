--------------------------- MODULE MCTenantClients ---------------------------
(* Safety of TenantClients: one of four scenarios runs in each behaviour, three of
   them defined here; the fourth has requests in the name of a tenant. *)
EXTENDS TenantClients, FiniteSets, TLC

CONSTANTS t1, c1, acme, umbra, plain, upper

VARIABLE part     \* the scenario of this behaviour

\* Several administrators at one client.
Secrets == INSTANCE TenantClients WITH Scoped <- FALSE, Faults <- TRUE,
  Ops <- {"update_client", "rotate_secret", "deactivate_client"}
\* Tenants and clients come into being.
Creation == INSTANCE TenantClients WITH Scoped <- FALSE, Faults <- TRUE,
  Ops <- {"create_tenant", "create_client", "deactivate_tenant"}
\* A client is resolved while it and its tenant come and go.
Resolution == INSTANCE TenantClients WITH Scoped <- FALSE,
  Ops <- {"resolve", "deactivate_client", "reactivate_client", "deactivate_tenant", "reactivate_tenant"}

\* At most n requests.
Within(n) == Cardinality({r \in Req : req'[r].pc # "idle"}) <= n

\* Tenants are inactive, names differ and clients are public where it matters.
MCInit ==
  /\ part \in {"secrets", "creation", "resolution", "scoping"}
  /\ Init
  /\ part = "secrets" => tenant[t1].status = "active"
  /\ part = "creation" => client[c1].status = "active"
  /\ part # "creation" => tenant[t1].name = <<acme, plain>>
  /\ part # "secrets" => client[c1].grants = {"authorization_code"} /\ client[c1].secret = c1

MCNext ==
  \/ part = "secrets" /\ Secrets!Next /\ UNCHANGED part
  \/ part = "creation" /\ Creation!Next /\ UNCHANGED part
  \/ part = "resolution" /\ Resolution!Next /\ UNCHANGED part
  \/ part = "scoping" /\ Next /\ Within(2) /\ UNCHANGED part

MCSpec == MCInit /\ [][MCNext]_<<part, vars>>

ReqSymmetry == Permutations(Req)
=============================================================================
