------------------------- MODULE RegistryOrchestrator -------------------------
(***************************************************************************)
(* One lookup of the evidence orchestrator, from LookupRequest to          *)
(* LookupResult: the four strategies, retries with backoff and budget, the *)
(* correlation rules, the HTTP adapter that turns what a registry answers  *)
(* into evidence or a categorised error, and the translation of the errors *)
(* for the caller.  Lookups share nothing but the providers, so one lookup *)
(* is the whole system.  Health checks are the other operation.            *)
(*                                                                         *)
(* Evidence keeps its provider, type, confidence (a fraction) and the name *)
(* it carries; other data does not influence any decision.                 *)
(***************************************************************************)
EXTENDS Integers, FiniteSets, Sequences, FiniteSetsExt, SequencesExt

CONSTANTS
  ProviderId,        \* provider ids, registered or only named by a chain
  Registered,        \* the ids in the provider registry
  CapType,           \* provider -> the evidence type it produces
  Chains,            \* configured chains: type -> [primary, secondary]
  Rules,             \* the correlation rules, in order
  Weights,           \* WeightedAverageRule.Weights, 0 where not configured
  Requests,          \* the lookup requests made: [types, strategy]
  Responses,         \* what a registry may answer
  Names, Confidences,
  MaxRetries, GlobalRetryBudget, InitialDelay, MaxDelay, Multiplier

EvidenceType == {"citizen", "sanctions"}

VARIABLES
  pc,
  req,        \* the request, with the types still to do
  chain,      \* providers of the current chain still to try
  attempt, delay, budget,
  pending,    \* goroutines of a parallel lookup or a health check
  evidence,   \* result.Evidence
  errors,     \* result.Errors: provider -> category
  ctx,        \* the deadline of the lookup: "live" or "expired"
  result,     \* what the lookup returned
  log         \* history: provider -> what its calls returned

vars == <<pc, req, chain, attempt, delay, budget, pending, evidence, errors, ctx, result, log>>
retry == <<attempt, delay>>
-----------------------------------------------------------------------------

NoResult == [done |-> FALSE]
NoProvider == "no-provider"
PCs == {"start", "type", "try", "backoff", "call", "gather", "correlate", "finish", "health", "done"}
Categories == {"timeout", "bad_data", "authentication", "provider_outage", "not_found",
               "rate_limited", "unknown_provider", "no_providers", "ctx"}

\* Every provider is retried at most MaxRetries times, and the backoff delay
\* never exceeds its maximum.
TypeOK ==
  /\ pc \in PCs
  /\ attempt \in 0 .. MaxRetries
  /\ delay \in 0 .. MaxDelay
  /\ budget \in Nat
  /\ pending \subseteq Registered
  /\ ctx \in {"live", "expired"}
  /\ DOMAIN errors \subseteq ProviderId \cup {NoProvider}
  /\ \A p \in DOMAIN errors : errors[p] \in Categories
  /\ \A i \in DOMAIN evidence : evidence[i].type \in EvidenceType

Init ==
  /\ pc = "start"
  /\ req \in {[types |-> r.types, strategy |-> r.strategy, asked |-> Range(r.types)] : r \in Requests}
  /\ chain = <<>> /\ attempt = 0 /\ delay = 0 /\ budget = 0
  /\ pending = {} /\ evidence = <<>> /\ errors = <<>>
  /\ ctx = "live" /\ result = NoResult
  /\ log = [p \in Registered |-> <<>>]
-----------------------------------------------------------------------------
(* providers: errors and the HTTP adapter                                  *)

\* NewProviderError and IsRetryable; an error that is no ProviderError (a
\* context error, a sentinel) is not retryable.
IsRetryable(category) == category \in {"timeout", "provider_outage", "rate_limited"}

\* The adapter's request: no connection is an outage, unless the lookup's
\* deadline is what ended it; a body that cannot be read, or is too large, is
\* bad data.
executeRequest(response) ==
  CASE response = "no_connection" -> "provider_outage"
    [] response = "deadline" -> "timeout"
    [] response \in {"read_error", "too_large"} -> "bad_data"
    [] OTHER -> "none"

checkStatusCode(response) ==
  CASE response \in {"401", "403"} -> "authentication"
    [] response = "404" -> "not_found"
    [] response = "429" -> "rate_limited"
    [] response \in {"503", "504"} -> "provider_outage"
    [] OTHER -> "none"

\* parseCitizenResponse and parseSanctionsResponse accept status 200 with a
\* body they can decode; whatever else the status was is a parse error.
parseResponse(response) == IF response = "200" THEN "none" ELSE "bad_data"

\* Lookup of the adapter: the first check that fails names the category.
LookupCategory(response) ==
  LET checks == <<executeRequest(response), checkStatusCode(response), parseResponse(response)>>
      failed == SelectSeq(checks, LAMBDA c : c # "none")
  IN IF failed = <<>> THEN "none" ELSE failed[1]

\* parseAndEnrich: evidence with the adapter's id and type.
parseAndEnrich(p, name, confidence) ==
  [provider |-> p, type |-> CapType[p], confidence |-> <<confidence, 1>>, name |-> name, conflicts |-> FALSE]

\* What a call of a registered provider may return: once the deadline has
\* passed the client gives up, connecting or reading the body.
Answers(p) ==
  LET possible == IF ctx = "expired" THEN {"deadline", "read_error"} ELSE Responses \ {"deadline"}
      bad == {[category |-> LookupCategory(r)] : r \in {s \in possible : LookupCategory(s) # "none"}}
      good == {[category |-> "none", evidence |-> parseAndEnrich(p, n, c)] : n \in Names, c \in Confidences}
  IN bad \cup (IF "200" \in possible THEN good ELSE {})

Logged(p, category) == log' = [log EXCEPT ![p] = Append(@, category)]

Failed(p, category) ==
  errors' = [q \in DOMAIN errors \cup {p} |-> IF q = p THEN category ELSE errors[q]]
-----------------------------------------------------------------------------
(* providers: the registry                                                 *)

ListByType(type) == {p \in Registered : CapType[p] = type}

\* getChainForType: the configured chain, else one of the providers of the
\* type, whichever the iteration of the registry's map yields first.
getChainForType(type) ==
  IF type \in DOMAIN Chains
  THEN {<<Chains[type].primary>> \o Chains[type].secondary}
  ELSE {<<p>> : p \in ListByType(type)}
-----------------------------------------------------------------------------
(* orchestrator: dispatch, and the primary and fallback strategies         *)

newRetryBudget(limit) == Max({limit, 1000})

\* Lookup dispatches on the strategy (New's default is filled in already);
\* lookupParallel starts one goroutine per provider of the types asked for,
\* HealthCheck one per provider.
Lookup ==
  /\ pc = "start"
  /\ \/ /\ req.strategy \in {"primary", "fallback"}
        /\ pc' = "type"
        /\ budget' = IF req.strategy = "fallback" THEN newRetryBudget(GlobalRetryBudget) ELSE 0
        /\ UNCHANGED pending
     \/ /\ req.strategy \in {"parallel", "voting"}
        /\ pc' = "gather"
        /\ pending' = UNION {ListByType(req.types[i]) : i \in DOMAIN req.types}
        /\ UNCHANGED budget
     \/ /\ req.strategy = "health"
        /\ pc' = "health"
        /\ pending' = Registered
        /\ UNCHANGED budget
  /\ UNCHANGED <<req, chain, retry, evidence, errors, ctx, result, log>>

\* The next type of the request; a type without provider is an error of its
\* own and is skipped.
NextType ==
  /\ pc = "type" /\ req.types # <<>>
  /\ IF getChainForType(req.types[1]) = {}
     THEN /\ Failed(NoProvider, "no_providers")
          /\ req' = [req EXCEPT !.types = Tail(@)]
          /\ UNCHANGED <<pc, chain, retry>>
     ELSE /\ \E c \in getChainForType(req.types[1]) :
               chain' = IF req.strategy = "primary" THEN <<c[1]>> ELSE c
          /\ pc' = "try" /\ attempt' = 0 /\ delay' = InitialDelay
          /\ UNCHANGED <<errors, req>>
  /\ UNCHANGED <<budget, pending, evidence, ctx, result, log>>

LastType ==
  /\ pc = "type" /\ req.types = <<>>
  /\ pc' = "finish"
  /\ UNCHANGED <<req, chain, retry, budget, pending, evidence, errors, ctx, result, log>>

\* After provider p failed with this category: the next one of the chain, or
\* the next type when the chain is used up.
GiveUp(p, category) ==
  /\ Failed(p, category)
  /\ chain' = Tail(chain)
  /\ attempt' = 0 /\ delay' = InitialDelay
  /\ IF Len(chain) > 1
     THEN pc' = "try" /\ UNCHANGED req
     ELSE pc' = "type" /\ req' = [req EXCEPT !.types = Tail(@)]

\* tryProviderWithBackoff (and lookupPrimary) look the provider up first.
FindProvider ==
  /\ pc = "try"
  /\ IF chain[1] \in Registered
     THEN pc' = "call" /\ UNCHANGED <<errors, chain, retry, req>>
     ELSE GiveUp(chain[1], "unknown_provider")
  /\ UNCHANGED <<budget, pending, evidence, ctx, result, log>>

\* Mutant: one retry too few.
CallProvider_OneLess ==
  /\ pc = "call"
  /\ \E a \in Answers(chain[1]) :
       /\ Logged(chain[1], a.category)
       /\ IF a.category = "none"
          THEN /\ evidence' = Append(evidence, a.evidence)
               /\ pc' = "type" /\ req' = [req EXCEPT !.types = Tail(@)]
               /\ UNCHANGED <<errors, chain, retry>>
          ELSE IF req.strategy = "fallback" /\ IsRetryable(a.category) /\ attempt + 1 < MaxRetries
          THEN /\ pc' = "backoff" /\ attempt' = attempt + 1
               /\ UNCHANGED <<evidence, errors, chain, delay, req>>
          ELSE GiveUp(chain[1], a.category) /\ UNCHANGED evidence
  /\ UNCHANGED <<budget, pending, ctx, result>>

\* provider.Lookup: evidence ends the chain; a retryable error is tried again
\* while attempts are left, under the fallback strategy only.
CallProvider ==
  /\ pc = "call"
  /\ \E a \in Answers(chain[1]) :
       /\ Logged(chain[1], a.category)
       /\ IF a.category = "none"
          THEN /\ evidence' = Append(evidence, a.evidence)
               /\ pc' = "type" /\ req' = [req EXCEPT !.types = Tail(@)]
               /\ UNCHANGED <<errors, chain, retry>>
          ELSE IF req.strategy = "fallback" /\ IsRetryable(a.category) /\ attempt < MaxRetries
          THEN /\ pc' = "backoff" /\ attempt' = attempt + 1
               /\ UNCHANGED <<evidence, errors, chain, delay, req>>
          ELSE GiveUp(chain[1], a.category) /\ UNCHANGED evidence
  /\ UNCHANGED <<budget, pending, ctx, result>>

\* Before a retry: the budget, then the wait, which the deadline may end; the
\* delay of the next retry is computed after the wait.
Backoff ==
  /\ pc = "backoff"
  /\ \/ /\ budget <= 0
        /\ GiveUp(chain[1], Last(log[chain[1]]))
        /\ UNCHANGED budget
     \/ /\ budget > 0 /\ ctx = "expired"
        /\ budget' = budget - 1
        /\ GiveUp(chain[1], "ctx")
     \/ /\ budget > 0 /\ ctx = "live"
        /\ budget' = budget - 1
        /\ delay' = Min({delay * Multiplier, MaxDelay})
        /\ pc' = "call"
        /\ UNCHANGED <<errors, chain, attempt, req>>
  /\ UNCHANGED <<pending, evidence, ctx, result, log>>

\* context.WithTimeout: the deadline passes at any time.
Expire ==
  /\ ctx = "live" /\ pc \notin {"start", "finish", "done"}
  /\ ctx' = "expired"
  /\ UNCHANGED <<pc, req, chain, retry, budget, pending, evidence, errors, result, log>>
-----------------------------------------------------------------------------
(* orchestrator: the parallel and voting strategies                        *)

\* One goroutine of lookupParallel: the call, then evidence or error under
\* the mutex.
ProviderReturns(p) ==
  /\ pc = "gather" /\ p \in pending
  /\ \E a \in Answers(p) :
       /\ Logged(p, a.category)
       /\ IF a.category = "none"
          THEN evidence' = Append(evidence, a.evidence) /\ UNCHANGED errors
          ELSE Failed(p, a.category) /\ UNCHANGED evidence
  /\ pending' = pending \ {p}
  /\ UNCHANGED <<pc, req, chain, retry, budget, ctx, result>>

\* wg.Wait
AllReturned ==
  /\ pc = "gather" /\ pending = {}
  /\ pc' = "correlate"
  /\ UNCHANGED <<req, chain, retry, budget, pending, evidence, errors, ctx, result, log>>

Exceeds(c, d) == c[1] * d[2] > d[1] * c[2]

\* The first of the entries no other exceeds in confidence.
Best(seq) ==
  FoldLeft(LAMBDA best, e : IF Exceeds(e.confidence, best.confidence) THEN e ELSE best, seq[1], seq)

OfType(seq, type) == SelectSeq(seq, LAMBDA e : e.type = type)

Applicable(rule, seq) ==
  CASE rule = "citizen_name" -> Len(OfType(seq, "citizen")) > 1
    [] rule = "weighted_average" -> Len(seq) > 1

\* The sources name different names; date of birth is compared the same way.
detectConflicts(seq) == Cardinality({seq[i].name : i \in DOMAIN seq}) > 1

\* CitizenNameRule.Merge: the citizen evidence with the highest confidence.
MergeCitizenName(seq) ==
  LET citizens == OfType(seq, "citizen")
      best == Best(citizens)
  IN [provider |-> "correlation:citizen_name", type |-> "citizen", confidence |-> best.confidence,
      name |-> best.name, conflicts |-> detectConflicts(citizens)]

\* WeightedAverageRule.Merge: a missing weight counts as 1, the type is the
\* first one's, and later data overrides earlier.
MergeWeightedAverage(seq) ==
  LET weight(e) == IF Weights[e.type] = 0 THEN 1 ELSE Weights[e.type]
      total == FoldLeft(LAMBDA sum, e : sum + weight(e), 0, seq)
      weighted == FoldLeft(LAMBDA sum, e : sum + e.confidence[1] * weight(e), 0, seq)
  IN [provider |-> "correlation:weighted_average", type |-> seq[1].type,
      confidence |-> <<weighted, total>>, name |-> Last(seq).name, conflicts |-> FALSE]

Merge(rule, seq) ==
  IF rule = "citizen_name" THEN MergeCitizenName(seq) ELSE MergeWeightedAverage(seq)

\* applyCorrelationRules: the first rule that applies replaces all evidence
\* (neither rule's Merge fails on evidence it applies to).
applyCorrelationRules(seq) ==
  LET usable == SelectSeq(Rules, LAMBDA rule : Applicable(rule, seq))
  IN IF Len(seq) < 2 \/ usable = <<>> THEN seq ELSE <<Merge(usable[1], seq)>>

\* The selection of lookupVoting: the best evidence of every type, in the
\* order the map yields.
SelectBest(seq) ==
  LET types == {seq[i].type : i \in DOMAIN seq}
  IN SetToSeq({Best(OfType(seq, t)) : t \in types})

Correlate ==
  /\ pc = "correlate"
  /\ LET merged == applyCorrelationRules(evidence)
     IN evidence' = IF req.strategy = "voting" /\ merged # <<>> THEN SelectBest(merged) ELSE merged
  /\ pc' = "finish"
  /\ UNCHANGED <<req, chain, retry, budget, pending, errors, ctx, result, log>>
-----------------------------------------------------------------------------
(* the end of a lookup, and the service's error boundary                   *)

translateProviderError(category) ==
  CASE category = "timeout" -> "CodeTimeout"
    [] category = "not_found" -> "CodeNotFound"
    [] category = "bad_data" -> "CodeBadRequest"
    [] OTHER -> "CodeInternal"

\* translateOrchestratorError: the error of some provider, whichever the map
\* yields first; without one, a sentinel that becomes an internal error.
translateOrchestratorError(errs) ==
  IF DOMAIN errs = {} THEN {"CodeInternal"} ELSE {translateProviderError(errs[p]) : p \in DOMAIN errs}

\* Mutant: a lookup with any error fails.
Finish_AnyError ==
  /\ pc = "finish"
  /\ \E code \in translateOrchestratorError(errors) :
       result' = [done |-> TRUE,
                  failed |-> DOMAIN errors # {},
                  got |-> {evidence[i].type : i \in DOMAIN evidence},
                  code |-> code]
  /\ pc' = "done"
  /\ UNCHANGED <<req, chain, retry, budget, pending, evidence, errors, ctx, log>>

\* The common end of the strategies: ErrAllProvidersFailed when there is no
\* evidence and at least one error.
Finish ==
  /\ pc = "finish"
  /\ \E code \in translateOrchestratorError(errors) :
       result' = [done |-> TRUE,
                  failed |-> evidence = <<>> /\ DOMAIN errors # {},
                  got |-> {evidence[i].type : i \in DOMAIN evidence},
                  code |-> code]
  /\ pc' = "done"
  /\ UNCHANGED <<req, chain, retry, budget, pending, evidence, errors, ctx, log>>

\* Health of one provider: healthy only on status 200.
Health(p) ==
  /\ pc = "health" /\ p \in pending
  /\ \E r \in (IF ctx = "expired" THEN {"deadline"} ELSE Responses \ {"deadline"}) :
       Logged(p, IF r = "200" THEN "none" ELSE "provider_outage")
  /\ pending' = pending \ {p}
  /\ UNCHANGED <<pc, req, chain, retry, budget, evidence, errors, ctx, result>>

HealthCheck ==
  /\ pc = "health" /\ pending = {}
  /\ pc' = "done"
  /\ result' = [done |-> TRUE, failed |-> FALSE, got |-> {}, code |-> "none"]
  /\ UNCHANGED <<req, chain, retry, budget, pending, evidence, errors, ctx, log>>

Next ==
  \/ Lookup \/ NextType \/ LastType \/ FindProvider \/ CallProvider \/ Backoff \/ Expire
  \/ AllReturned \/ Correlate \/ Finish \/ HealthCheck
  \/ \E p \in Registered : ProviderReturns(p) \/ Health(p)

Spec == Init /\ [][Next]_vars

\* What the goroutine of the lookup does itself.
Proceed ==
  \/ Lookup \/ NextType \/ LastType \/ FindProvider \/ CallProvider \/ Backoff
  \/ AllReturned \/ Correlate \/ Finish \/ HealthCheck

\* Goroutines run, and a call to a provider returns: its client has a
\* timeout and the lookup's context a deadline.  Nothing obliges the deadline
\* to pass while the lookup is under way.
FairSpec ==
  /\ Spec
  /\ WF_vars(Proceed)
  /\ \A p \in Registered : WF_vars(ProviderReturns(p) \/ Health(p))
-----------------------------------------------------------------------------
(* properties                                                              *)

Done == pc = "done" /\ req.strategy # "health"

\* A lookup never loses an answer silently: every provider it called left
\* evidence of its type in the result or an error under its id
\* (lookupFallback and lookupParallel, for all the interleavings of the
\* providers' answers).
CallsAccounted ==
  Done => \A p \in Registered :
            log[p] # <<>> => \/ CapType[p] \in result.got
                             \/ p \in DOMAIN errors

\* Evidence the fallback strategy returns comes from the first provider of the
\* chain that could deliver it: whoever stands before it has failed for good,
\* with an error that is not retryable or after all retries, unless the
\* deadline ended them.
FallbackInOrder ==
  Done /\ req.strategy = "fallback" =>
    \A t \in DOMAIN Chains :
      LET c == <<Chains[t].primary>> \o Chains[t].secondary
      IN \A i, j \in DOMAIN c :
           i < j /\ c[j] \in Registered /\ log[c[j]] # <<>> =>
             /\ c[i] \in DOMAIN errors
             /\ c[i] \in Registered =>
                  \/ ~IsRetryable(Last(log[c[i]])) \/ Len(log[c[i]]) = MaxRetries + 1
                  \/ errors[c[i]] = "ctx"

\* An error that is not retryable, or evidence, is the last word of a provider:
\* tryProviderWithBackoff calls it again only after a timeout, an outage or a
\* rate limit.
RetriesJustified ==
  \A p \in Registered : \A i \in DOMAIN log[p] :
    i < Len(log[p]) => IsRetryable(log[p][i])

\* A lookup makes no more retries than its global budget, over all providers
\* ("Maximum total retries across all providers", BackoffConfig).
\* The code does not keep this statement.
RetriesWithinBudget ==
  FoldSet(LAMBDA p, sum : sum + Max({Len(log[p]) - 1, 0}), 0, Registered) <= GlobalRetryBudget

\* Whatever order the answers arrive in, voting returns one record per type,
\* and no provider of that type delivered a higher confidence
\* (lookupVoting's selection).
VotingBest ==
  [][pc = "correlate" /\ pc' = "finish" /\ req.strategy = "voting" /\ Rules = <<>> =>
       \A i \in DOMAIN evidence :
         Cardinality({j \in DOMAIN evidence' :
                        /\ evidence'[j].type = evidence[i].type
                        /\ ~Exceeds(evidence[i].confidence, evidence'[j].confidence)}) = 1]_vars

\* A single citizen record stands for sources that agree, unless its conflict
\* marker is set (CitizenNameRule.Merge, detectConflicts).
MarksConflicts ==
  pc = "correlate" /\ pc' = "finish" /\ "citizen_name" \in Range(Rules) /\ Len(evidence) > 1 =>
    \A i, j \in DOMAIN evidence :
      (evidence[i].type = "citizen" /\ evidence[j].type = "citizen" /\ evidence[i].name # evidence[j].name)
        => \A k \in DOMAIN evidence' : evidence'[k].conflicts

\* The average confidence lies between the lowest and the highest of the
\* sources (WeightedAverageRule.Merge, whichever weights are configured).
AveragesBetween ==
  pc = "correlate" /\ pc' = "finish" /\ Rules = <<"weighted_average">> /\ Len(evidence) > 1 =>
    LET c == evidence'[1].confidence
    IN /\ \E i \in DOMAIN evidence : ~Exceeds(c, evidence[i].confidence)
       /\ \E i \in DOMAIN evidence : ~Exceeds(evidence[i].confidence, c)

\* Correlating citizen evidence leaves the evidence of other types alone
\* (CitizenNameRule.Applicable: the rule "does not apply to sanctions or
\* other provider types").
\* The code does not keep this statement.
OtherTypesKept ==
  Done => \A p \in Registered :
            (log[p] # <<>> /\ Last(log[p]) = "none") => CapType[p] \in result.got

\* A lookup whose types have no evidence fails (ErrNoProvidersAvailable: "no
\* providers registered for requested type").
\* The code does not keep this statement.
EmptyFails ==
  Done /\ result.got = {} => result.failed

\* A lookup that failed because its deadline passed is reported as a timeout
\* (translateProviderError: "ErrorTimeout -> CodeTimeout (retryable by
\* caller)").
\* The code does not keep this statement.
TimeoutReported ==
  Done /\ result.failed /\ (\A p \in DOMAIN errors \cap Registered : log[p] = <<"timeout">>) =>
    result.code = "CodeTimeout"

\* Every lookup and every health check returns, whatever the providers answer.
LookupReturns == <>(pc = "done")

\* The orchestrator implements the contract its caller, the registry service,
\* relies on: it answers once, with evidence of the types asked for only, and
\* fails exactly when it has none.
LC == INSTANCE LookupContract WITH
  asked <- IF pc = "start" THEN {} ELSE req.asked,
  outcome <- IF result.done THEN [done |-> TRUE, got |-> result.got, failed |-> result.failed]
             ELSE [done |-> FALSE]
ContractKept == LC!Contract
=============================================================================
