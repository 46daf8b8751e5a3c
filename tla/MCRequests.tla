------------------------------ MODULE MCRequests ------------------------------
(***************************************************************************)
(* Requests return: those that wait for rows and mutexes, in the consent   *)
(* service and the tenant service, in SQL and in memory, and those that    *)
(* wait for other services, in the decision service and the orchestrator   *)
(* of the registries.  They share no state, so one of them runs in each    *)
(* behaviour.                                                              *)
(***************************************************************************)
EXTENDS Consent

CONSTANTS t1, c1, NoSecret, acme, plain, upper, e1, u1, NoUser, NoCall, p1, p2, p4, ghost

VARIABLES
  part,           \* what runs in this behaviour
  tenant, client, rowLock, call, emitted, committed, rotations, born, witness,    \* TenantClients
  clock, regulated, backend, users, granted, rows, vcall, tracked, eval, trail,   \* DecisionService
  pc, asked, chain, attempt, delay, budget, pending, evidence, errors, ctx,
  result, log                                                                     \* RegistryOrchestrator

decisionVars == <<clock, regulated, backend, users, granted, rows, vcall, tracked, eval, trail>>
orchVars == <<pc, asked, chain, attempt, delay, budget, pending, evidence, errors, ctx, result, log>>
tenantVars == <<tenant, client, rowLock, call, emitted, committed, rotations, born, witness>>

InMemory == INSTANCE Consent WITH Backend <- "memory", AuditFails <- FALSE, MaxTime <- 2

Rows == INSTANCE TenantClients WITH
  SeedTenant <- {t1}, SeedClient <- {c1}, Base <- {acme}, Letters <- {plain, upper},
  Ops <- {"create_client", "deactivate_tenant", "update_client"},
  GrantSets <- {{"authorization_code"}}, Scoped <- TRUE, Faults <- FALSE,
  lock <- rowLock, req <- call
Maps == INSTANCE TenantClients WITH
  SeedTenant <- {t1}, SeedClient <- {c1}, Base <- {acme}, Letters <- {plain, upper},
  Backend <- "memory",
  Ops <- {"create_tenant", "create_client", "deactivate_tenant", "rotate_secret", "resolve"},
  GrantSets <- {{"authorization_code"}}, Scoped <- FALSE, Faults <- TRUE,
  lock <- rowLock, req <- call

Decisions == INSTANCE DecisionService WITH
  VCCalls <- {}, Users <- {u1}, MaxTime <- 2, Micro <- 1, Backends <- {"memory"},
  Modes <- {FALSE}, Faults <- {},
  Evals <- {e1}, EvidenceTimeout <- 1, Outages <- {"registry", "credential"},
  now <- clock, consent <- granted

\* A chain for citizens, one provider for sanctions, in every strategy.
Registries == INSTANCE RegistryOrchestrator WITH
  ProviderId <- {p1, p2, p4, ghost}, Registered <- {p1, p2, p4},
  CapType <- [p \in {p1, p2, p4} |-> IF p = p4 THEN "sanctions" ELSE "citizen"],
  Chains <- [t \in {"citizen"} |-> [primary |-> p1, secondary |-> <<ghost, p2>>]],
  Rules <- <<>>, Weights <- [t \in {"citizen", "sanctions"} |-> 0],
  Requests <- {[types |-> <<"citizen", "sanctions">>, strategy |-> s] : s \in {"parallel", "health", "fallback"}},
  Responses <- {"200", "404", "503"}, Names <- {"n"}, Confidences <- {1},
  MaxRetries <- 2, GlobalRetryBudget <- 10, InitialDelay <- 1, MaxDelay <- 3, Multiplier <- 2, req <- asked

Deciding == {"decision", "decision, no clock"}

MCInit ==
  /\ part \in {"consent sql", "consent memory", "tenant sql", "tenant memory", "lookup"} \cup Deciding
  /\ Init /\ Rows!Init /\ Decisions!Init /\ Registries!Init
  /\ tenant[t1].name = <<acme, plain>> /\ client[c1].secret = c1
  /\ part \notin {"tenant sql", "tenant memory"} => Rows!IsActive(tenant[t1]) /\ Rows!IsActive(client[c1])
  /\ part # "lookup" => asked.strategy = "health"

MCNext ==
  /\ UNCHANGED part
  /\ \/ /\ \/ part = "consent sql" /\ Next
           \/ part = "consent memory" /\ InMemory!Next
        /\ UNCHANGED <<tenantVars, decisionVars, orchVars>>
     \/ /\ \/ part = "tenant sql" /\ Rows!Next
           \/ part = "tenant memory" /\ Maps!Next
        /\ UNCHANGED <<vars, decisionVars, orchVars>>
     \/ part \in Deciding /\ Decisions!Next /\ UNCHANGED <<vars, tenantVars, orchVars>>
     \/ part = "lookup" /\ Registries!Next /\ UNCHANGED <<vars, tenantVars, decisionVars>>

\* The fairness of the specifications, for the one that runs.
MCFairness ==
  /\ WF_vars(part = "consent sql" /\ Tick)
  /\ WF_vars(part = "consent memory" /\ InMemory!Tick)
  /\ \A r \in Req :
       /\ WF_vars(part = "consent sql" /\ Step(r))
       /\ WF_vars(part = "consent sql" /\ Abort(r) /\ now > req[r].at + Timeout)
       /\ WF_vars(part = "consent memory" /\ InMemory!Step(r))
       /\ WF_vars(part = "consent memory" /\ InMemory!Abort(r) /\ now > req[r].at + Timeout)
       /\ WF_tenantVars(part = "tenant sql" /\ Rows!Step(r) /\ Rows!Observe)
       /\ WF_tenantVars(part = "tenant memory" /\ Maps!Step(r) /\ Maps!Observe)
  /\ WF_decisionVars(part \in Deciding /\ Decisions!requireConsent(e1))
  /\ WF_decisionVars(part \in Deciding /\ Decisions!gatherEvidence(e1))
  /\ WF_decisionVars(part \in Deciding /\ Decisions!CtxDone(e1) /\ Decisions!citizenTask(e1))
  /\ WF_decisionVars(part \in Deciding /\ Decisions!CtxDone(e1) /\ Decisions!sanctionsTask(e1))
  /\ WF_decisionVars(part \in Deciding /\ Decisions!CtxDone(e1) /\ Decisions!credentialTask(e1))
  /\ WF_decisionVars(part \in Deciding /\ Decisions!Evaluate(e1))
  /\ WF_decisionVars(part \in Deciding /\ Decisions!emitDecision(e1))
  /\ WF_decisionVars(part = "decision" /\ Decisions!Tick)
  /\ WF_orchVars(part = "lookup" /\ Registries!Proceed)
  /\ \A p \in {p1, p2, p4} : WF_orchVars(part = "lookup" /\ (Registries!ProviderReturns(p) \/ Registries!Health(p)))

MCSpec ==
  MCInit /\ [][MCNext]_<<part, vars, tenantVars, decisionVars, orchVars>> /\ MCFairness

\* Every request returns: a consent request or a call of the tenant service that
\* waits for rows or a mutex, an evaluation when its deadline has passed (with a
\* failed lookup even if the clock stands still), and every lookup and health
\* check of the orchestrator.
AllReturn ==
  /\ RequestsReturn
  /\ Maps!RequestsReturn
  /\ part = "decision" => Decisions!EvaluateReturns
  /\ part = "decision, no clock" => Decisions!FailsFast
  /\ part = "lookup" => Registries!LookupReturns
=============================================================================
