--------------------------- MODULE CredentialService --------------------------
(***************************************************************************)
(* Issuing and verifying AgeOver18 credentials: the VC handlers, the       *)
(* service and its two stores.                                             *)
(*                                                                         *)
(* A call is one HTTP request and happens once, so its record also tells   *)
(* what it saw.  A credential gets a new UUID, here the call that issues   *)
(* it.  The registry and the consent service answer a call in any way they *)
(* can; consent is granted and revoked, and a user deleted, at any moment. *)
(* A date of birth is the moment its holder turns 18, or does not parse.   *)
(* The clock of the process is finer than a TIMESTAMPTZ.                   *)
(***************************************************************************)
EXTENDS Integers, FiniteSets

CONSTANTS
  VCCalls, Users,
  MaxTime,          \* bound
  Micro,            \* ticks of the clock in the microsecond of a TIMESTAMPTZ
  Backends,         \* stores the server may be started with: subset of {"memory", "postgres"}
  Modes,            \* values of REGULATED_MODE: subset of BOOLEAN
  Faults,           \* subset of {"consent", "registry", "store"}
  NoUser, NoCall    \* model values: the nil UUID, no credential

ASSUME CredentialAssumption ==
  /\ MaxTime \in Nat /\ Micro \in Nat \ {0}
  /\ Backends \subseteq {"memory", "postgres"} /\ Modes \subseteq BOOLEAN
  /\ NoUser \notin Users /\ NoCall \notin VCCalls

VARIABLES
  now,
  regulated, backend,   \* configuration of this process
  users,                \* users that have not been deleted from Postgres
  consent,              \* <<user, purpose>> pairs with active consent
  rows,                 \* the store: credential id -> row
  vcall,                \* the calls
  tracked               \* operational events given to the ops publisher

vcVars == <<now, regulated, backend, users, consent, rows, vcall, tracked>>
-----------------------------------------------------------------------------
(* Domain. *)

Empty == ""           \* the empty string

VCIssuance == "vc_issuance"
Decision == "decision_evaluation"
Purposes == {VCIssuance, Decision}

\* A birthday begins with a whole microsecond.
Midnights == {t \in 0..MaxTime + Micro : t % Micro = 0}

BirthDates == [parses: {TRUE}, adultAt: Midnights] \cup [parses: {FALSE}, adultAt: {0}]
Citizens == [valid: BOOLEAN, dob: BirthDates]

\* The nil record.
NoCitizen == [valid |-> FALSE, dob |-> [parses |-> FALSE, adultAt |-> 0]]

\* What a registry lookup may fail with, as codes of domain errors.
RegistryErrors == {"not_found", "missing_consent", "timeout", "internal"}

IsOver18(dob, at) == at >= dob.adultAt

NewAgeOver18Claims(isOver18, verifiedVia) ==
  [isOver18 |-> isOver18, verifiedVia |-> verifiedVia]

Minimized(claims) == NewAgeOver18Claims(claims.isOver18, Empty)

\* The claims as a map: an empty verified_via is left out.
ToMap(claims) ==
  IF claims.verifiedVia # Empty
    THEN [is_over_18 |-> claims.isOver18, verified_via |-> claims.verifiedVia]
    ELSE [is_over_18 |-> claims.isOver18]

\* The invariants of credential.New hold by construction: id, issuer and time are set.
NewCredential(id, subject, at, claims) ==
  [id |-> id, subject |-> subject, issuedAt |-> at, claims |-> claims]

MinimizedCredential(cred) ==
  NewCredential(cred.id, cred.subject, cred.issuedAt, Minimized(cred.claims))

ToModel(cred) == NewCredential(cred.id, cred.subject, cred.issuedAt, ToMap(cred.claims))

NoCredential == [id |-> NoCall, subject |-> NoUser, issuedAt |-> 0, claims |-> <<>>]

buildCredentialModel(c, user, citizen, at) ==
  LET cred == NewCredential(c, user, at, NewAgeOver18Claims(TRUE, "national_registry"))
  IN  IF ~citizen.dob.parses \/ ~IsOver18(citizen.dob, at)
        THEN [code |-> "bad_request", cred |-> NoCredential]
        ELSE [code |-> "ok",
              cred |-> ToModel(IF regulated THEN MinimizedCredential(cred) ELSE cred)]

\* Internal errors are replaced, other domain errors pass, anything else becomes internal.
sanitizeExternalError(code) ==
  IF code \in {"not_found", "missing_consent", "timeout"} THEN code ELSE "internal"
-----------------------------------------------------------------------------
(* Stores.  A row of vc_credentials keeps the claims as JSON and, for      *)
(* AgeOver18, again in two nullable columns.                               *)

\* Mutant: the source of the verification does not get its column.
extractAgeOver18Claims_NoVia(cred) ==
  [is_over_18 |-> [null |-> FALSE, value |-> cred.claims.is_over_18],
   verified_via |-> [null |-> TRUE, value |-> Empty]]

extractAgeOver18Claims(cred) ==
  LET via == "verified_via" \in DOMAIN cred.claims
  IN  [is_over_18 |-> [null |-> FALSE, value |-> cred.claims.is_over_18],
       verified_via |-> [null |-> ~via, value |-> IF via THEN cred.claims.verified_via ELSE Empty]]

NoColumns == [is_over_18 |-> [null |-> TRUE, value |-> FALSE],
              verified_via |-> [null |-> TRUE, value |-> Empty]]

\* The entry of the map, or the row, that replaces any other of that id.
Put(id, row) == [i \in DOMAIN rows \cup {id} |-> IF i = id THEN row ELSE rows[i]]

\* The driver sends whole microseconds.
Timestamptz(t) == t - (t % Micro)

UpsertCredential(cred) ==
  Put(cred.id, [cred |-> [cred EXCEPT !.issuedAt = Timestamptz(@)],
                columns |-> extractAgeOver18Claims(cred)])

\* store.Save.
MemorySave(cred) == Put(cred.id, [cred |-> cred, columns |-> NoColumns])
PostgresSave(cred) == UpsertCredential(cred)

\* A selected row has no JSON for AgeOver18: the claims come from the columns.
ColumnClaims(over18, via) ==
  LET noVia == via.null \/ via.value = Empty
  IN  CASE over18.null /\ noVia  -> <<>>
        [] ~over18.null /\ noVia -> [is_over_18 |-> over18.value]
        [] over18.null /\ ~noVia -> [verified_via |-> via.value]
        [] OTHER -> [is_over_18 |-> over18.value, verified_via |-> via.value]

toCredentialRecord(row) ==
  NewCredential(row.cred.id, row.cred.subject, row.cred.issuedAt,
                ColumnClaims(row.columns.is_over_18, row.columns.verified_via))

\* Store.FindByID: the credential found, or none (ErrNotFound).
MemoryFindByID(id) == IF id \in DOMAIN rows THEN {rows[id].cred} ELSE {}
GetCredentialByID(id) == IF id \in DOMAIN rows THEN {rows[id]} ELSE {}
PostgresFindByID(id) == {toCredentialRecord(row) : row \in GetCredentialByID(id)}

FindByID(id) == IF backend = "memory" THEN MemoryFindByID(id) ELSE PostgresFindByID(id)

\* FindBySubjectAndType: which of several credentials issued at the same latest
\* time is found depends on the order of the map or of the table.
LatestOf(user) ==
  {id \in DOMAIN rows :
     /\ rows[id].cred.subject = user
     /\ \A other \in DOMAIN rows : rows[other].cred.subject = user
          => rows[other].cred.issuedAt <= rows[id].cred.issuedAt}

MemoryFindBySubjectAndType(user) == {rows[id].cred : id \in LatestOf(user)}
PostgresFindBySubjectAndType(user) == {toCredentialRecord(rows[id]) : id \in LatestOf(user)}

Absent == [exists |-> FALSE, claims |-> <<>>]

\* What a lookup by the decision service may be answered, an outage apart.
FindCredentialPresence(user) ==
  LET found == IF backend = "memory" THEN MemoryFindBySubjectAndType(user)
                                     ELSE PostgresFindBySubjectAndType(user)
  IN  IF found = {} THEN {Absent}
      ELSE {[exists |-> TRUE, claims |-> cred.claims] : cred \in found}
-----------------------------------------------------------------------------
(* Requests. *)

IssueBodies == [type: {"AgeOver18", "other", Empty}, nationalID: {"valid", "malformed", "too_long", Empty}]

\* IssueRequest.Validate: every failure is a validation error.
IssueValidate(body) ==
  IF body.nationalID # "too_long" /\ body.type # Empty /\ body.nationalID # Empty
       /\ body.type = "AgeOver18" /\ body.nationalID # "malformed"
    THEN "ok" ELSE "validation"

\* VerifyRequest.Validate: a well-formed id is a prefix and a UUID.
VerifyValidate(id) ==
  CASE id \in {"too_long", Empty} -> "validation"
    [] id = "malformed"        -> "bad_request"
    [] OTHER                   -> "ok"

\* The service checks once more what the handler has parsed.
validateIssueRequest(user, body) ==
  IF user = NoUser THEN "unauthorized"
  ELSE IF body.type # "AgeOver18" \/ body.nationalID = Empty THEN "bad_request"
  ELSE "ok"

NewCall == [pc |-> "new", op |-> "none", user |-> NoUser, at |-> 0, held |-> FALSE,
            citizen |-> NoCitizen, id |-> NoCall, stored |-> FALSE,
            code |-> "none", cred |-> NoCredential]

Return(c, code, cred) ==
  vcall' = [vcall EXCEPT ![c].pc = "done", ![c].code = code, ![c].cred = cred]

\* POST /vc/issue, up to the consent check.
HandleIssue(c, user, body) ==
  /\ vcall[c].pc = "new"
  /\ LET code == IF user = NoUser THEN "unauthorized"
                 ELSE IF IssueValidate(body) # "ok" THEN IssueValidate(body)
                 ELSE validateIssueRequest(user, body)
     IN  vcall' = [vcall EXCEPT ![c] =
           IF code # "ok"
             THEN [NewCall EXCEPT !.op = "issue", !.pc = "done", !.code = code]
             ELSE [NewCall EXCEPT !.op = "issue", !.pc = "consent", !.user = user, !.at = now,
                                  !.held = <<user, VCIssuance>> \in consent]]
  /\ UNCHANGED <<now, regulated, backend, users, consent, rows, tracked>>

requireVCIssuanceConsent(c) ==
  /\ vcall[c].pc = "consent"
  /\ \/ /\ <<vcall[c].user, VCIssuance>> \in consent
        /\ vcall' = [vcall EXCEPT ![c].pc = "fetch"]
     \/ /\ <<vcall[c].user, VCIssuance>> \notin consent
        /\ Return(c, sanitizeExternalError("missing_consent"), NoCredential)
     \/ /\ "consent" \in Faults
        /\ Return(c, sanitizeExternalError("internal"), NoCredential)
  /\ UNCHANGED <<now, regulated, backend, users, consent, rows, tracked>>

\* The registry answers; what is built from its record is local to the call.
fetchCitizenRecord(c) ==
  /\ vcall[c].pc = "fetch"
  /\ \/ /\ "registry" \in Faults
        /\ \E code \in RegistryErrors : Return(c, sanitizeExternalError(code), NoCredential)
     \/ \E citizen \in Citizens :
          IF ~citizen.valid THEN Return(c, "bad_request", NoCredential)
          ELSE LET built == buildCredentialModel(c, vcall[c].user, citizen, vcall[c].at)
               IN  IF built.code # "ok" THEN Return(c, built.code, NoCredential)
                   ELSE vcall' = [vcall EXCEPT ![c].pc = "save", ![c].citizen = citizen,
                                               ![c].cred = built.cred]
  /\ UNCHANGED <<now, regulated, backend, users, consent, rows, tracked>>

emitAudit(cred) == tracked' = tracked \cup {<<"vc_issued", cred.subject>>}
emitVerifyAudit(cred) == tracked' = tracked \cup {<<"vc_verified", cred.subject>>}

\* Save and return.  Postgres may fail before or after it has committed, and
\* refuses the row of a user who is gone.
Issue(c) ==
  /\ vcall[c].pc = "save"
  /\ LET cred == vcall[c].cred
     IN  \/ /\ cred.subject \in users
            /\ rows' = IF backend = "memory" THEN MemorySave(cred) ELSE PostgresSave(cred)
            /\ emitAudit(cred)
            /\ Return(c, "ok", cred)
         \/ /\ backend = "postgres"
            /\ \/ "store" \in Faults /\ rows' = rows
               \/ "store" \in Faults /\ cred.subject \in users /\ rows' = PostgresSave(cred)
               \/ cred.subject \notin users /\ rows' = rows
            /\ Return(c, "internal", NoCredential)
            /\ UNCHANGED tracked
  /\ UNCHANGED <<now, regulated, backend, users, consent>>

\* POST /vc/verify, up to the lookup.
HandleVerify(c, user, id) ==
  /\ vcall[c].pc = "new"
  /\ LET code == IF user = NoUser THEN "unauthorized" ELSE VerifyValidate(id)
     IN  vcall' = [vcall EXCEPT ![c] =
           IF code # "ok"
             THEN [NewCall EXCEPT !.op = "verify", !.pc = "done", !.code = code]
             ELSE [NewCall EXCEPT !.op = "verify", !.pc = "find", !.user = user, !.at = now,
                                  !.id = id, !.stored = id \in DOMAIN rows]]
  /\ UNCHANGED <<now, regulated, backend, users, consent, rows, tracked>>

\* Verify: whatever is stored under the id is valid.
Verify(c) ==
  /\ vcall[c].pc = "find"
  /\ \/ \E cred \in FindByID(vcall[c].id) : Return(c, "ok", cred) /\ emitVerifyAudit(cred)
     \/ FindByID(vcall[c].id) = {} /\ Return(c, "not_found", NoCredential) /\ UNCHANGED tracked
     \/ /\ backend = "postgres" /\ "store" \in Faults
        /\ Return(c, "internal", NoCredential) /\ UNCHANGED tracked
  /\ UNCHANGED <<now, regulated, backend, users, consent, rows>>
-----------------------------------------------------------------------------
(* The world around the calls. *)

\* The user grants consent, as the consent service stores it.
VCGrant(user, purpose) ==
  /\ user \in users
  /\ consent' = consent \cup {<<user, purpose>>}
  /\ vcall' = [c \in VCCalls |->
       IF vcall[c].pc = "consent" /\ vcall[c].user = user /\ purpose = VCIssuance
         THEN [vcall[c] EXCEPT !.held = TRUE] ELSE vcall[c]]
  /\ UNCHANGED <<now, regulated, backend, users, rows, tracked>>

VCRevoke(user, purpose) ==
  /\ consent' = consent \ {<<user, purpose>>}
  /\ UNCHANGED <<now, regulated, backend, users, rows, vcall, tracked>>

\* An administrator deletes the user.  Credentials and consents in Postgres refer
\* to users ON DELETE CASCADE; the stores in memory do not hear of it.
DeleteUser(user) ==
  /\ backend = "postgres" /\ user \in users
  /\ users' = users \ {user}
  /\ consent' = {p \in consent : p[1] # user}
  /\ rows' = [i \in {j \in DOMAIN rows : rows[j].cred.subject # user} |-> rows[i]]
  /\ UNCHANGED <<now, regulated, backend, vcall, tracked>>

VCTick ==
  /\ now < MaxTime
  /\ now' = now + 1
  /\ UNCHANGED <<regulated, backend, users, consent, rows, vcall, tracked>>

VCInit ==
  /\ now = 0 /\ regulated \in Modes /\ backend \in Backends
  /\ users = Users /\ consent = {} /\ rows = <<>> /\ tracked = {}
  /\ vcall = [c \in VCCalls |-> NewCall]

VCStep(c) ==
  \/ \E user \in Users \cup {NoUser}, body \in IssueBodies : HandleIssue(c, user, body)
  \/ requireVCIssuanceConsent(c)
  \/ fetchCitizenRecord(c)
  \/ Issue(c)
  \/ \E user \in Users \cup {NoUser}, id \in VCCalls \cup {"too_long", "malformed", Empty} :
       HandleVerify(c, user, id)
  \/ Verify(c)

VCNext ==
  \/ \E c \in VCCalls : VCStep(c)
  \/ \E user \in Users :
       VCGrant(user, VCIssuance) \/ VCRevoke(user, VCIssuance) \/ DeleteUser(user)
  \/ VCTick

VCSpec == VCInit /\ [][VCNext]_vcVars
-----------------------------------------------------------------------------
(* Properties. *)

Codes == {"none", "ok", "unauthorized", "validation", "bad_request", "not_found",
          "missing_consent", "timeout", "internal"}

\* The calls, the store and the events have the shapes of their Go types.
VCTypeOK ==
  /\ now \in 0..MaxTime /\ regulated \in BOOLEAN /\ backend \in Backends
  /\ users \subseteq Users /\ consent \subseteq Users \X Purposes
  /\ DOMAIN rows \subseteq VCCalls
  /\ tracked \subseteq {"vc_issued", "vc_verified"} \X Users
  /\ \A c \in VCCalls :
       /\ vcall[c].pc \in {"new", "consent", "fetch", "save", "find", "done"}
       /\ vcall[c].code \in Codes /\ vcall[c].user \in Users \cup {NoUser}
       /\ vcall[c].citizen \in Citizens /\ vcall[c].at \in 0..now

\* A credential in the store was issued to a user who had consented at some
\* moment of the request, on a valid record of a citizen who was 18 at the time
\* of issue the row shows, rounded as it is (Issue: consent, then registry, then age).
IssuedOnGrounds ==
  \A id \in DOMAIN rows :
    LET call == vcall[id] IN
    /\ call.held /\ call.citizen.valid /\ call.citizen.dob.parses
    /\ rows[id].cred.issuedAt >= call.citizen.dob.adultAt
    /\ rows[id].cred.subject = call.user

\* What is read back of a credential: Postgres keeps whole microseconds.
AsStored(cred) ==
  IF backend = "memory" THEN cred ELSE [cred EXCEPT !.issuedAt = Timestamptz(@)]

\* What Issue answered is what any later lookup of that credential finds, and so
\* what Verify answers, until the user is deleted: the columns of Postgres lose no
\* claim and add none, only the time of issue is cut to the microsecond.  With the
\* user the credential is gone.
StoredAsIssued ==
  \A c \in VCCalls : vcall[c].op = "issue" /\ vcall[c].code = "ok" =>
    /\ FindByID(c) = IF vcall[c].user \in users THEN {AsStored(vcall[c].cred)} ELSE {}
    /\ \A v \in VCCalls : vcall[v].op = "verify" /\ vcall[v].id = c /\ vcall[v].code = "ok"
         => vcall[v].cred = AsStored(vcall[c].cred)

\* A server in regulated mode stores nowhere how the age was verified: neither in
\* the claims nor in a column (Minimized before Save).
RegulatedMinimal ==
  regulated => \A id \in DOMAIN rows :
    /\ DOMAIN rows[id].cred.claims = {"is_over_18"}
    /\ rows[id].columns.verified_via.null

\* Verify says "credential_not_found" only of a credential that was not stored
\* when the request came in, or whose holder has been deleted: an outage of the
\* store is never told as an invalid credential.
VerifyHonest ==
  \A c \in VCCalls :
    vcall[c].op = "verify" /\ vcall[c].code = "not_found" /\ vcall[c].stored
      => vcall[vcall[c].id].user \notin users
=============================================================================
