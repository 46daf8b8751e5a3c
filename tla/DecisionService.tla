---------------------------- MODULE DecisionService ---------------------------
(***************************************************************************)
(* Decisions: the handler, the service that gathers evidence in parallel,  *)
(* the rules and the compliance audit, beside the credential service whose *)
(* store one of the lookups reads.                                         *)
(*                                                                         *)
(* An evaluation is one HTTP request and happens once.  Its lookups run in *)
(* goroutines of an errgroup under a context with a deadline.  A lookup may*)
(* hang until its context is done; after that it soon returns, with an     *)
(* error or, if it just had its answer, without.  The registry may answer  *)
(* anything: its own consent check, caching and fallbacks are modelled     *)
(* elsewhere.                                                              *)
(***************************************************************************)
EXTENDS CredentialService

CONSTANTS
  Evals,
  EvidenceTimeout,  \* evidenceTimeout
  Outages           \* subset of {"consent", "registry", "credential", "audit"}

ASSUME DecisionAssumption == EvidenceTimeout \in Nat \ {0}

VARIABLES
  eval,             \* the evaluations
  trail             \* compliance records: <<evaluation, status>>

vars == <<now, regulated, backend, users, consent, rows, vcall, tracked, eval, trail>>
-----------------------------------------------------------------------------
(* Evidence. *)

AgeVerification == "age_verification"
SanctionsScreening == "sanctions_screening"
Tasks == {"citizen", "sanctions", "credential"}

\* GatheredEvidence: pointers that may be nil.
Nothing == [citizen    |-> [nil |-> TRUE, record |-> NoCitizen],
            sanctions  |-> [nil |-> TRUE, listed |-> FALSE],
            credential |-> [nil |-> TRUE, presence |-> Absent]]

buildEvidenceTasks(purpose) ==
  IF purpose = AgeVerification THEN Tasks ELSE {"sanctions"}

deriveIsOver18(dob, at) == dob.parses /\ IsOver18(dob, at)

deriveIdentity(evidence, at) ==
  [citizenValid |-> ~evidence.citizen.nil /\ evidence.citizen.record.valid,
   isOver18     |-> ~evidence.citizen.nil /\ deriveIsOver18(evidence.citizen.record.dob, at)]

\* len(input.Credential) counts the claims.
buildInput(evidence, derived) ==
  [identity   |-> derived,
   listed     |-> ~evidence.sanctions.nil /\ evidence.sanctions.listed,
   credential |-> IF ~evidence.credential.nil /\ evidence.credential.presence.exists
                    THEN DOMAIN evidence.credential.presence.claims ELSE {}]
-----------------------------------------------------------------------------
(* Rules. *)

evaluateAgeVerification(input) ==
  IF input.listed THEN "fail"
  ELSE IF ~input.identity.citizenValid THEN "fail"
  ELSE IF ~input.identity.isOver18 THEN "fail"
  ELSE IF input.credential # {} THEN "pass"
  ELSE "pass_with_conditions"

evaluateSanctionsScreening(input) == IF input.listed THEN "fail" ELSE "pass"

EvaluateDecision(purpose, input) ==
  IF purpose = AgeVerification THEN evaluateAgeVerification(input)
                               ELSE evaluateSanctionsScreening(input)

\* The rules once more, on the evidence: why the decision failed.
reasonForAgeVerification(outcome, evidence, derived) ==
  IF outcome = "pass" THEN "all_checks_passed"
  ELSE IF outcome = "pass_with_conditions" THEN "missing_credential"
  ELSE IF ~evidence.sanctions.nil /\ evidence.sanctions.listed THEN "sanctioned"
  ELSE IF evidence.citizen.nil \/ ~evidence.citizen.record.valid THEN "invalid_citizen"
  ELSE IF ~derived.isOver18 THEN "underage"
  ELSE Empty

\* The evidence shown to the caller; absent for a screening.
setAgeVerificationEvidence(evidence, derived) ==
  [citizenValid  |-> ~evidence.citizen.nil /\ evidence.citizen.record.valid,
   isOver18      |-> derived.isOver18,
   hasCredential |-> ~evidence.credential.nil /\ evidence.credential.presence.exists]

NotShown == [citizenValid |-> FALSE, isOver18 |-> FALSE, hasCredential |-> FALSE]

buildSanctionsResult(outcome) == IF outcome = "fail" THEN "sanctioned" ELSE "not_sanctioned"

buildAgeVerificationResult(outcome, listed, evidence, derived) ==
  [status |-> outcome, listed |-> listed,
   reason |-> reasonForAgeVerification(outcome, evidence, derived),
   shown  |-> setAgeVerificationEvidence(evidence, derived)]

BuildResult(purpose, outcome, evidence, derived) ==
  LET listed == ~evidence.sanctions.nil /\ evidence.sanctions.listed
  IN  IF purpose = AgeVerification
        THEN buildAgeVerificationResult(outcome, listed, evidence, derived)
        ELSE [status |-> outcome, listed |-> listed,
              reason |-> buildSanctionsResult(outcome), shown |-> NotShown]

NoResult == [status |-> "none", listed |-> FALSE, reason |-> Empty, shown |-> NotShown]
-----------------------------------------------------------------------------
(* Evaluations. *)

NewEval == [pc |-> "new", user |-> NoUser, purpose |-> "none", at |-> 0,
            running |-> {},              \* lookups that have not returned
            deadline |-> 0,              \* of the evidence context
            err |-> "none",              \* first error of the group, which cancels its context
            evidence |-> Nothing, result |-> NoResult, code |-> "none",
            held |-> FALSE,              \* history: consent was active at some moment
            owed |-> FALSE,              \* history: a credential had been issued before the request
            failed |-> {}]               \* history: what failed on the way

Fail(e, code, why) ==
  eval' = [eval EXCEPT ![e].pc = "done", ![e].code = code, ![e].failed = @ \cup {why}]

ParsePurpose(s) == IF s \in {AgeVerification, SanctionsScreening} THEN "ok" ELSE "bad_request"

DecisionBodies == [purpose: {AgeVerification, SanctionsScreening, "other", Empty},
                   nationalID: {"valid", "malformed", "too_long", Empty}]

\* EvaluateRequest.Validate, in its order.
EvaluateValidate(body) ==
  IF body.nationalID = "too_long" THEN "validation"
  ELSE IF body.purpose = Empty THEN "validation"
  ELSE IF ParsePurpose(body.purpose) # "ok" THEN ParsePurpose(body.purpose)
  ELSE IF body.nationalID = Empty THEN "validation"
  ELSE IF body.nationalID = "malformed" THEN "validation"
  ELSE "ok"

\* POST /decision/evaluate, up to the consent check.
HandleEvaluate(e, user, body) ==
  /\ eval[e].pc = "new"
  /\ now + EvidenceTimeout <= MaxTime     \* bound
  /\ LET code == IF user = NoUser THEN "unauthorized" ELSE EvaluateValidate(body)
     IN  eval' = [eval EXCEPT ![e] =
           IF code # "ok"
             THEN [NewEval EXCEPT !.pc = "done", !.code = code, !.failed = {"request"}]
             ELSE [NewEval EXCEPT !.pc = "consent", !.user = user, !.purpose = body.purpose,
                     !.at = now, !.held = <<user, Decision>> \in consent,
                     !.owed = \E c \in VCCalls : vcall[c].op = "issue" /\ vcall[c].code = "ok"
                                                 /\ vcall[c].cred.subject = user]]
  /\ UNCHANGED <<now, regulated, backend, users, consent, rows, vcall, tracked, trail>>

\* The gate in front of every lookup.
requireConsent(e) ==
  /\ eval[e].pc = "consent"
  /\ \/ /\ <<eval[e].user, Decision>> \in consent
        /\ eval' = [eval EXCEPT ![e].pc = "launch"]
     \/ <<eval[e].user, Decision>> \notin consent /\ Fail(e, "missing_consent", "consent")
     \/ "consent" \in Outages /\ Fail(e, "internal", "consent")
  /\ UNCHANGED <<now, regulated, backend, users, consent, rows, vcall, tracked, trail>>

\* The deadline is set and the lookups of the purpose are launched.
gatherEvidence(e) ==
  /\ eval[e].pc = "launch"
  /\ eval' = [eval EXCEPT ![e].pc = "gather", ![e].deadline = now + EvidenceTimeout,
                ![e].running = buildEvidenceTasks(eval[e].purpose)]
  /\ UNCHANGED <<now, regulated, backend, users, consent, rows, vcall, tracked, trail>>

CtxDone(e) == eval[e].err # "none" \/ now >= eval[e].deadline

\* A goroutine of the group ends: the first error is kept.
launchEvidenceFetch(e, task, err, evidence, why) ==
  /\ eval' = [eval EXCEPT ![e].running = @ \ {task},
                ![e].err = IF @ = "none" THEN err ELSE @,
                ![e].evidence = evidence, ![e].failed = @ \cup why]
  /\ UNCHANGED <<now, regulated, backend, users, consent, rows, vcall, tracked, trail>>

LookupErrors(e, outage) ==
  (IF outage \in Outages THEN RegistryErrors ELSE {}) \cup (IF CtxDone(e) THEN {"timeout"} ELSE {})

citizenTask(e) ==
  /\ "citizen" \in eval[e].running
  /\ \/ \E citizen \in Citizens :
          launchEvidenceFetch(e, "citizen", "none",
            [eval[e].evidence EXCEPT !.citizen = [nil |-> FALSE, record |-> citizen]], {})
     \/ \E err \in LookupErrors(e, "registry") :
          launchEvidenceFetch(e, "citizen", err, eval[e].evidence, {"registry"})

\* Mutant: a failed screening is soft, like a failed credential lookup.
sanctionsTask_Soft(e) ==
  /\ "sanctions" \in eval[e].running
  /\ \/ \E listed \in BOOLEAN :
          launchEvidenceFetch(e, "sanctions", "none",
            [eval[e].evidence EXCEPT !.sanctions = [nil |-> FALSE, listed |-> listed]], {})
     \/ \E err \in LookupErrors(e, "registry") :
          launchEvidenceFetch(e, "sanctions", "none", eval[e].evidence, {})

sanctionsTask(e) ==
  /\ "sanctions" \in eval[e].running
  /\ \/ \E listed \in BOOLEAN :
          launchEvidenceFetch(e, "sanctions", "none",
            [eval[e].evidence EXCEPT !.sanctions = [nil |-> FALSE, listed |-> listed]], {})
     \/ \E err \in LookupErrors(e, "registry") :
          launchEvidenceFetch(e, "sanctions", err, eval[e].evidence, {"registry"})

\* The lookup of the credential is soft: an error leaves the evidence nil.
credentialTask(e) ==
  /\ "credential" \in eval[e].running
  /\ \/ \E presence \in FindCredentialPresence(eval[e].user) :
          launchEvidenceFetch(e, "credential", "none",
            [eval[e].evidence EXCEPT !.credential = [nil |-> FALSE, presence |-> presence]], {})
     \/ \E err \in LookupErrors(e, "credential") :
          launchEvidenceFetch(e, "credential", "none", eval[e].evidence, {"credential"})

\* Mutant: the first error is returned at once, the other lookups are left running.
Evaluate_NoWait(e) ==
  /\ eval[e].pc = "gather"
  /\ eval[e].running = {} \/ eval[e].err # "none"
  /\ LET x == eval[e]
         derived == deriveIdentity(x.evidence, x.at)
         outcome == EvaluateDecision(x.purpose, buildInput(x.evidence, derived))
     IN  eval' = [eval EXCEPT ![e] =
           IF x.err # "none" THEN [x EXCEPT !.pc = "done", !.code = x.err]
           ELSE [x EXCEPT !.pc = "audit",
                          !.result = BuildResult(x.purpose, outcome, x.evidence, derived)]]
  /\ UNCHANGED <<now, regulated, backend, users, consent, rows, vcall, tracked, trail>>

\* g.Wait() has seen every lookup return: the decision is made, or the error returned.
Evaluate(e) ==
  /\ eval[e].pc = "gather"
  /\ eval[e].running = {}
  /\ LET x == eval[e]
         derived == deriveIdentity(x.evidence, x.at)
         outcome == EvaluateDecision(x.purpose, buildInput(x.evidence, derived))
     IN  eval' = [eval EXCEPT ![e] =
           IF x.err # "none" THEN [x EXCEPT !.pc = "done", !.code = x.err]
           ELSE [x EXCEPT !.pc = "audit",
                          !.result = BuildResult(x.purpose, outcome, x.evidence, derived)]]
  /\ UNCHANGED <<now, regulated, backend, users, consent, rows, vcall, tracked, trail>>

\* Mutant: what the comment at the call says: age verifications fail open.
emitDecision_FailOpen(e) ==
  /\ eval[e].pc = "audit"
  /\ \/ /\ trail' = trail \cup {<<e, eval[e].result.status>>}
        /\ eval' = [eval EXCEPT ![e].pc = "done", ![e].code = "ok"]
     \/ /\ backend = "postgres" /\ "audit" \in Outages /\ eval[e].purpose = AgeVerification
        /\ eval' = [eval EXCEPT ![e].pc = "done", ![e].code = "ok"]
        /\ UNCHANGED trail
  /\ UNCHANGED <<now, regulated, backend, users, consent, rows, vcall, tracked>>

\* emitAudit of the decision service: no record, no answer.  The write to the
\* outbox may fail before or after it has committed; the store in memory does not.
emitDecision(e) ==
  /\ eval[e].pc = "audit"
  /\ \/ /\ trail' = trail \cup {<<e, eval[e].result.status>>}
        /\ eval' = [eval EXCEPT ![e].pc = "done", ![e].code = "ok"]
     \/ /\ backend = "postgres" /\ "audit" \in Outages
        /\ Fail(e, "internal", "audit")
        /\ trail' \in {trail, trail \cup {<<e, eval[e].result.status>>}}
  /\ UNCHANGED <<now, regulated, backend, users, consent, rows, vcall, tracked>>
-----------------------------------------------------------------------------

\* The user grants consent, as the consent service stores it.
Grant(user, purpose) ==
  /\ VCGrant(user, purpose)
  /\ eval' = [e \in Evals |->
       IF eval[e].pc = "consent" /\ eval[e].user = user /\ purpose = Decision
         THEN [eval[e] EXCEPT !.held = TRUE] ELSE eval[e]]
  /\ UNCHANGED trail

Init == VCInit /\ eval = [e \in Evals |-> NewEval] /\ trail = {}

EvalStep(e) ==
  \/ \E user \in Users \cup {NoUser}, body \in DecisionBodies : HandleEvaluate(e, user, body)
  \/ requireConsent(e)
  \/ gatherEvidence(e)
  \/ citizenTask(e)
  \/ sanctionsTask(e)
  \/ credentialTask(e)
  \/ Evaluate(e)
  \/ emitDecision(e)

World ==
  \/ \E c \in VCCalls : VCStep(c)
  \/ \E user \in Users, purpose \in Purposes : VCRevoke(user, purpose)
  \/ \E user \in Users : DeleteUser(user)

\* Bound: MaxTime leaves every evaluation the time to meet its deadline.
DeadlineReachable ==
  \A e \in Evals : eval[e].pc \in {"consent", "launch"} => now + EvidenceTimeout < MaxTime

Tick == DeadlineReachable /\ VCTick /\ UNCHANGED <<eval, trail>>

Next ==
  \/ \E e \in Evals : EvalStep(e)
  \/ World /\ UNCHANGED <<eval, trail>>
  \/ \E user \in Users, purpose \in Purposes : Grant(user, purpose)
  \/ Tick

Spec == Init /\ [][Next]_vars

\* Local steps and the calls to the consent and the audit store are taken; a
\* lookup is only sure to return once its context is done.
EvalFairness(e) ==
  /\ WF_vars(requireConsent(e)) /\ WF_vars(gatherEvidence(e))
  /\ WF_vars(CtxDone(e) /\ citizenTask(e))
  /\ WF_vars(CtxDone(e) /\ sanctionsTask(e))
  /\ WF_vars(CtxDone(e) /\ credentialTask(e))
  /\ WF_vars(Evaluate(e)) /\ WF_vars(emitDecision(e))

\* Fair but for the clock.
NoClockSpec == Spec /\ \A e \in Evals : EvalFairness(e)

FairSpec == NoClockSpec /\ WF_vars(Tick)
-----------------------------------------------------------------------------
(* Properties. *)

\* The evaluations and the trail have the shapes of their Go types.
TypeOK ==
  /\ VCTypeOK
  /\ \A e \in Evals :
       /\ eval[e].pc \in {"new", "consent", "launch", "gather", "audit", "done"}
       /\ eval[e].running \subseteq Tasks /\ eval[e].deadline \in 0..MaxTime
       /\ eval[e].code \in Codes /\ eval[e].at \in 0..now
       /\ eval[e].result.status \in {"none", "fail", "pass", "pass_with_conditions"}
  /\ trail \subseteq Evals \X {"fail", "pass", "pass_with_conditions"}

\* Nobody passes without an answer of the sanctions registry, in this request,
\* that the subject is not listed; nobody passes an age verification without a
\* valid record of a citizen who is 18 at the time of the request, and in full
\* only with a credential.  Whatever order the lookups end in, whatever was
\* cancelled or timed out (gatherEvidence, evaluateAgeVerification).
PassOnEvidence ==
  \A e \in Evals : LET x == eval[e] IN
    x.code = "ok" /\ x.result.status # "fail" =>
      /\ ~x.evidence.sanctions.nil /\ ~x.evidence.sanctions.listed
      /\ x.purpose = AgeVerification =>
           /\ ~x.evidence.citizen.nil /\ x.evidence.citizen.record.valid
           /\ x.evidence.citizen.record.dob.parses
           /\ x.at >= x.evidence.citizen.record.dob.adultAt
           /\ x.result.status = "pass" <=> x.evidence.credential.presence.exists

\* The reason and the evidence shown tell the rule that decided: the chain in
\* evaluateAgeVerification and the one in reasonForAgeVerification never
\* disagree, and no decision goes without a reason.
ReasonTellsRule ==
  \A e \in Evals : LET r == eval[e].result IN
    r.status # "none" /\ eval[e].purpose = AgeVerification =>
      r.reason = IF r.listed THEN "sanctioned"
                 ELSE IF ~r.shown.citizenValid THEN "invalid_citizen"
                 ELSE IF ~r.shown.isOver18 THEN "underage"
                 ELSE IF r.shown.hasCredential THEN "all_checks_passed"
                 ELSE "missing_credential"

\* A decision that reached its caller is in the compliance trail with the same
\* status.  The trail has one status of an evaluation at most, that of the decision
\* made, and a decision that did not reach its caller only when the write of the
\* record was told as failed (emitAudit).
AnswersAudited ==
  \A e \in Evals :
    /\ eval[e].code = "ok" => <<e, eval[e].result.status>> \in trail
    /\ \A status \in {"fail", "pass", "pass_with_conditions"} :
         <<e, status>> \in trail =>
           /\ eval[e].result.status = status
           /\ \/ eval[e].code = "ok"
              \/ eval[e].code = "internal" /\ "audit" \in eval[e].failed

\* No lookup is launched for a user who had consented to decisions at no moment
\* of the request, however grants and revocations fall (Evaluate: "Check consent
\* before accessing registry data").
ConsentFirst ==
  \A e \in Evals : eval[e].pc \in {"gather", "audit"} => eval[e].held

\* No lookup of an evaluation still runs once the evaluation has returned, so
\* none writes into its results (gatherEvidence: "safe - all goroutines completed").
NoLookupLeftBehind ==
  \A e \in Evals : eval[e].pc \in {"new", "audit", "done"} => eval[e].running = {}

\* An outage of the credential lookup alone never costs the caller an answer: it
\* "degrades to pass_with_conditions" (credentialTask).
OutageDegrades ==
  \A e \in Evals : eval[e].pc = "done" /\ eval[e].failed \subseteq {"credential"}
    => eval[e].code = "ok"

\* A credential whose issue was answered before the request is seen by it: an
\* eligible subject is told "missing_credential" only if the lookup failed, or if
\* they were deleted meanwhile.
CredentialHonoured ==
  \A e \in Evals : eval[e].owed /\ eval[e].result.status = "pass_with_conditions" =>
    "credential" \in eval[e].failed \/ eval[e].user \notin users

\* A credential is issued only on its grounds, is stored and verified as it was
\* issued as long as its user exists, carries no more than the mode allows, and a
\* lookup that fails is not told as a credential that does not exist.
CredentialsKept == TypeOK /\ IssuedOnGrounds /\ StoredAsIssued /\ RegulatedMinimal /\ VerifyHonest

\* An evaluation asks for nothing without consent and leaves no lookup behind, an
\* outage of the credential lookup alone degrades it, a credential that is found
\* counts, and the reason is that of the rule that decided.
EvaluationsSound ==
  ConsentFirst /\ NoLookupLeftBehind /\ OutageDegrades /\ CredentialHonoured /\ ReasonTellsRule

\* Every evaluation returns, however long the lookups hang (evidenceTimeout).
EvaluateReturns == \A e \in Evals : eval[e].pc # "new" ~> eval[e].pc = "done"

\* Once a lookup has failed the evaluation returns without waiting for the
\* deadline (errgroup: "early cancellation on first failure").
FailsFast == \A e \in Evals : eval[e].err # "none" ~> eval[e].pc = "done"

\* An age verification is answered although its audit record could not be written
\* ("fail-open for non-sanctions, fail-closed for sanctions").
\* The code does not keep this statement.
AgeFailsOpen ==
  \A e \in Evals : eval[e].pc = "done" /\ eval[e].purpose = AgeVerification
    => "audit" \notin eval[e].failed \/ eval[e].code = "ok"
=============================================================================
