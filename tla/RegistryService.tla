--------------------------- MODULE RegistryService ---------------------------
(***************************************************************************)
(* The registry service over its cache: Check, Citizen, CitizenWithDetails *)
(* and Sanctions, run by concurrent requests step by step.  Between the    *)
(* steps the user may revoke the consent, other requests may write the     *)
(* cache, time passes, and the process may restart in the other mode.      *)
(*                                                                         *)
(* The orchestrator is what LookupContract says of it.  Codes and wording  *)
(* of errors are left out: an operation answers with records or fails.     *)
(***************************************************************************)
EXTENDS RegistryCache

CONSTANTS
  Req,
  Ops,             \* of "check", "citizen", "details", "sanctions"
  Faults,          \* of "find", "save", "audit", "convert", "lookup"
  Modes,           \* regulated modes the process is started in
  Ages,            \* bound: how far a registry's time stamp is behind the clock
  Revocations,     \* bound: how often consent is withdrawn
  Restarts         \* bound

VARIABLES
  regulated,       \* s.regulated
  consent,         \* the user's consent for registry_check is in force
  revocations, restarts,
  req,             \* local state of every request
  last             \* the answer of the last step

LC == INSTANCE LookupContract WITH
  EvidenceType <- {"citizen", "sanctions"}, asked <- {}, outcome <- {}

vars == <<cache, now, regulated, consent, revocations, restarts, req, last>>
world == <<now, regulated, consent, revocations, restarts>>
-----------------------------------------------------------------------------

Idle == [pc |-> "idle"]
None == [record |-> FALSE]
NoAnswer == [op |-> "none", ok |-> FALSE]
PCs == {"idle", "consent", "cache", "lookup", "save", "audit", "return"}

\* The types of evidence an operation needs.
Types(op) ==
  CASE op = "check" -> {"citizen", "sanctions"}
    [] op \in {"citizen", "details"} -> {"citizen"}
    [] op = "sanctions" -> {"sanctions"}

\* Requests and clocks have their types; a request only saves what it did not
\* find in the cache.
TypeOK ==
  /\ now \in 0 .. MaxTime /\ regulated \in Modes /\ consent \in BOOLEAN
  /\ revocations \in 0 .. Revocations /\ restarts \in 0 .. Restarts
  /\ \A r \in Req :
       /\ req[r].pc \in PCs
       /\ req[r] # Idle =>
            /\ req[r].op \in Ops /\ req[r].nid \in NationalID /\ req[r].at \in 0 .. now
            /\ req[r].todo \subseteq Types(req[r].op)
            /\ req[r].hits \subseteq Types(req[r].op)
            /\ req[r].saved \cap req[r].hits = {}

Init ==
  /\ CacheInit /\ now = 0
  /\ regulated \in Modes /\ consent = TRUE
  /\ revocations = 0 /\ restarts = 0
  /\ req = [r \in Req |-> Idle] /\ last = NoAnswer

Step(r, q) == req' = [req EXCEPT ![r] = q] /\ last' = NoAnswer

\* The operation ends: what the caller gets, and what the request did.
Answer(r, ok) ==
  /\ req' = [req EXCEPT ![r] = Idle]
  /\ last' = [op |-> req[r].op, ok |-> ok, nid |-> req[r].nid, at |-> req[r].at,
              regulated |-> regulated, covered |-> req[r].covered,
              citizen |-> req[r].citizen, sanction |-> req[r].sanction,
              fetched |-> Types(req[r].op) \ req[r].hits, saved |-> req[r].saved, audited |-> req[r].audited]
-----------------------------------------------------------------------------
(* evidence to records: converter.go and the domain aggregates             *)

\* What the registry for a type of evidence responds: whom it is about, which nothing compares
\* with the person asked for, whether they are listed, and when they were checked,
\* which may be long ago or ahead of the clock; without that stamp the provider's
\* adapter takes the time of the request.
Responses(r, type) ==
  [national_id : NationalID, listed : IF type = "sanctions" THEN BOOLEAN ELSE {FALSE},
   checked_at : {req[r].at} \cup {now - age : age \in Ages}]

\* EvidenceToCitizenVerification and citizen.New: a complete record of what the
\* response says, answered to the question about nid.
EvidenceToCitizenVerification(nid, response) ==
  [record |-> TRUE, asked |-> nid, id |-> response.national_id, details |-> TRUE,
   checkedAt |-> response.checked_at]

Minimized(record) == [record EXCEPT !.details = FALSE]
WithoutNationalID(record) == [Minimized(record) EXCEPT !.id = Blank]

citizenRecordFromEvidence(nid, response) ==
  IF regulated THEN WithoutNationalID(EvidenceToCitizenVerification(nid, response))
  ELSE EvidenceToCitizenVerification(nid, response)

\* EvidenceToSanctionsCheck with NewSanctionsCheck or NewListedSanctionsCheck.
EvidenceToSanctionsCheck(nid, response) ==
  [record |-> TRUE, asked |-> nid, id |-> response.national_id, listed |-> response.listed,
   checkedAt |-> response.checked_at]
-----------------------------------------------------------------------------
(* the operations                                                          *)

\* HandleCitizenLookup, HandleSanctionsLookup and the internal callers start
\* an operation; the request carries its time stamp.
Begin(r, op, nid) ==
  /\ req[r] = Idle
  /\ Step(r, [pc |-> "consent", op |-> op, nid |-> nid, at |-> now,
              todo |-> {}, hits |-> {}, saved |-> {}, citizen |-> None, sanction |-> None,
              audited |-> "no", covered |-> TRUE])
  /\ UNCHANGED <<cache, world>>

\* requireConsent; details goes past the cache.
requireConsent(r) ==
  /\ req[r].pc = "consent"
  /\ IF ~consent THEN Answer(r, FALSE)
     ELSE IF req[r].op = "details" THEN Step(r, [req[r] EXCEPT !.pc = "lookup"])
     ELSE Step(r, [req[r] EXCEPT !.pc = "cache", !.todo = Types(req[r].op)])
  /\ UNCHANGED <<cache, world>>

CacheFails(r) ==
  /\ req[r].pc = "cache" /\ "find" \in Faults
  /\ Answer(r, FALSE)
  /\ UNCHANGED <<cache, world>>

\* The finds of checkCache run in two goroutines, in either order; Citizen and
\* Sanctions have one.
LookCitizen(r) ==
  /\ req[r].pc = "cache" /\ "citizen" \in req[r].todo
  /\ FindCitizen(req[r].nid, regulated)
  /\ LET found == FoundCitizen(req[r].nid, regulated, req[r].at)
         q == [req[r] EXCEPT !.todo = @ \ {"citizen"}]
     IN Step(r, IF found.found
                THEN [q EXCEPT !.hits = @ \cup {"citizen"}, !.citizen = found.record, !.covered = @ /\ consent]
                ELSE q)
  /\ UNCHANGED world

LookSanction(r) ==
  /\ req[r].pc = "cache" /\ "sanctions" \in req[r].todo
  /\ FindSanction(req[r].nid)
  /\ LET found == FoundSanction(req[r].nid, req[r].at)
         q == [req[r] EXCEPT !.todo = @ \ {"sanctions"}]
     IN Step(r, IF found.found
                THEN [q EXCEPT !.hits = @ \cup {"sanctions"}, !.sanction = found.record, !.covered = @ /\ consent]
                ELSE q)
  /\ UNCHANGED world

\* AllCached: everything was there; a sanctions record is audited first.
CacheDone(r) ==
  /\ req[r].pc = "cache" /\ req[r].todo = {}
  /\ IF req[r].hits # Types(req[r].op) THEN Step(r, [req[r] EXCEPT !.pc = "lookup"])
     ELSE IF req[r].op = "sanctions" THEN Step(r, [req[r] EXCEPT !.pc = "audit"])
     ELSE Answer(r, TRUE)
  /\ UNCHANGED <<cache, world>>

\* The orchestrator is asked for what is missing (fetchMissing); a lookup that
\* failed, or evidence the conversion rejects, ends the operation.  Types the
\* lookup did not deliver leave their record nil, which is an error too.
Lookup(r) ==
  /\ req[r].pc = "lookup"
  /\ LET missing == Types(req[r].op) \ req[r].hits
     IN \E out \in LC!Outcomes(missing),
           person \in Responses(r, "citizen"), list \in Responses(r, "sanctions") :
          /\ "lookup" \in Faults \/ out.got = missing
          /\ IF out.failed \/ out.got # missing THEN Answer(r, FALSE)
             ELSE Step(r, [req[r] EXCEPT
                    !.pc = IF req[r].op = "details" THEN "return" ELSE "save",
                    !.todo = missing,
                    !.covered = @ /\ consent,
                    !.citizen = IF "citizen" \notin missing THEN @
                                ELSE IF req[r].op = "details" THEN EvidenceToCitizenVerification(req[r].nid, person)
                                ELSE citizenRecordFromEvidence(req[r].nid, person),
                    !.sanction = IF "sanctions" \in missing
                                 THEN EvidenceToSanctionsCheck(req[r].nid, list) ELSE @])
  /\ UNCHANGED <<cache, world>>

\* convertEvidence rejects what the provider sent (no source, bad id).
ConvertFails(r) ==
  /\ req[r].pc = "lookup" /\ "convert" \in Faults
  /\ Answer(r, FALSE)
  /\ UNCHANGED <<cache, world>>

\* Mutant: the full record is cached as well.
ReturnRecord_Cached(r) ==
  /\ req[r].pc = "return"
  /\ IF req[r].op = "details" THEN SaveCitizen(req[r].nid, req[r].citizen, regulated) ELSE UNCHANGED cache
  /\ Answer(r, TRUE)
  /\ UNCHANGED world

\* The end of Sanctions, and of the internal operation, which returns the full
\* record and caches nothing.
ReturnRecord(r) ==
  /\ req[r].pc = "return"
  /\ Answer(r, TRUE)
  /\ UNCHANGED <<cache, world>>

Saved(r, type, ok) ==
  [req[r] EXCEPT !.todo = @ \ {type}, !.saved = IF ok THEN @ \cup {type} ELSE @]

\* cacheNewlyFetched: citizen first, then sanctions.  An error is logged and nothing
\* else, so a save that failed after it took effect is like one that succeeded.
StoreCitizen(r) ==
  /\ req[r].pc = "save" /\ "citizen" \in req[r].todo
  /\ \/ /\ SaveCitizen(req[r].nid, req[r].citizen, regulated)
        /\ Step(r, Saved(r, "citizen", TRUE))
     \/ /\ "save" \in Faults
        /\ Step(r, Saved(r, "citizen", FALSE)) /\ UNCHANGED cache
  /\ UNCHANGED world

StoreSanction(r) ==
  /\ req[r].pc = "save" /\ req[r].todo = {"sanctions"}
  /\ \/ /\ SaveSanction(req[r].nid, req[r].sanction)
        /\ Step(r, Saved(r, "sanctions", TRUE))
     \/ /\ "save" \in Faults
        /\ Step(r, Saved(r, "sanctions", FALSE)) /\ UNCHANGED cache
  /\ UNCHANGED world

SaveDone(r) ==
  /\ req[r].pc = "save" /\ req[r].todo = {}
  /\ IF req[r].op = "sanctions" THEN Step(r, [req[r] EXCEPT !.pc = "audit"]) ELSE Answer(r, TRUE)
  /\ UNCHANGED <<cache, world>>

\* auditSanctionsCheck: the record is returned only when the audit event is
\* stored.
auditSanctionsCheck(r) ==
  /\ req[r].pc = "audit"
  /\ \/ Step(r, [req[r] EXCEPT !.pc = "return",
                               !.audited = IF req[r].sanction.listed THEN "listed" ELSE "not_listed"])
     \/ "audit" \in Faults /\ Answer(r, FALSE)
  /\ UNCHANGED <<cache, world>>
-----------------------------------------------------------------------------
(* around the requests                                                     *)

Tick ==
  /\ now < MaxTime
  /\ now' = now + 1 /\ last' = NoAnswer
  /\ UNCHANGED <<cache, regulated, consent, revocations, restarts, req>>

\* The consent service, as the consent port sees it.
Revoke ==
  /\ consent /\ revocations < Revocations
  /\ consent' = FALSE /\ revocations' = revocations + 1 /\ last' = NoAnswer
  /\ UNCHANGED <<cache, now, regulated, restarts, req>>

Grant ==
  /\ ~consent
  /\ consent' = TRUE /\ last' = NoAnswer
  /\ UNCHANGED <<cache, now, regulated, revocations, restarts, req>>

\* The process restarts, possibly in the other mode: requests are gone, and so
\* is the in-memory cache.
Restart ==
  /\ restarts < Restarts
  /\ restarts' = restarts + 1
  /\ regulated' \in Modes
  /\ req' = [r \in Req |-> Idle] /\ last' = NoAnswer
  /\ IF Backend = "memory" THEN ClearAll ELSE UNCHANGED cache
  /\ UNCHANGED <<now, consent, revocations>>

Next ==
  \/ Tick \/ Revoke \/ Grant \/ Restart
  \/ \E r \in Req :
       \/ \E op \in Ops, nid \in NationalID : Begin(r, op, nid)
       \/ requireConsent(r) \/ CacheFails(r) \/ LookCitizen(r) \/ LookSanction(r) \/ CacheDone(r)
       \/ Lookup(r) \/ ConvertFails(r) \/ ReturnRecord(r)
       \/ StoreCitizen(r) \/ StoreSanction(r) \/ SaveDone(r) \/ auditSanctionsCheck(r)

Spec == Init /\ [][Next]_vars
-----------------------------------------------------------------------------
(* properties                                                              *)

\* A sanctions record leaves Sanctions only with an audit event for the same
\* verdict, from the cache as from the registry (auditSanctionsCheck fails
\* closed).
SanctionsAudited ==
  last.ok /\ last.op = "sanctions" =>
    last.audited = IF last.sanction.listed THEN "listed" ELSE "not_listed"

\* Every operation that returns a sanctions record has audited it
\* (auditSanctionsCheck: "Fail-closed semantics ensure every sanctions check is
\* audited").
\* The code does not keep this statement.
EveryCheckAudited ==
  last.ok /\ last.sanction # None => last.audited # "no"

\* A record is what a registry answered when it was asked for this person, now or
\* earlier: minimised records, and records in which the registry names somebody
\* else, are not mixed up in the cache ("used to avoid cache collisions when records
\* are minimized").
AnswersAsked ==
  last.ok => \A record \in {last.citizen, last.sanction} : record # None => record.asked = last.nid

\* The record answered names the person asked for.
\* The code does not keep this statement.
AnswersSubject ==
  last.ok => \A record \in {last.citizen, last.sanction} :
               record # None => record.id \in {last.nid, Blank}

\* A Check that fails has written nothing: one lookup without the other leaves
\* the cache as it was.
FailedCheckSavesNothing ==
  last.op = "check" /\ ~last.ok => last.saved = {}

\* Check caches both fetched records or neither ("Atomic commit: Caches results
\* only if BOTH lookups succeeded ... no partial state is cached").
\* The code does not keep this statement.
CommitAtomic ==
  last.op = "check" => last.saved \in {{}, last.fetched}

\* In regulated mode the citizen record an external caller gets carries neither
\* personal details nor the national id, cached or not, also after a change of
\* mode ("PII is stripped from the record before returning and caching").
RegulatedStripped ==
  last.ok /\ last.regulated /\ last.op \in {"check", "citizen"} =>
    ~last.citizen.details /\ last.citizen.id = Blank

\* Personal details never come from the cache to a regulated caller, also when
\* the cache was filled in the other mode.
DetailsStripped ==
  last.ok /\ last.regulated /\ last.op \in {"check", "citizen"} => ~last.citizen.details

\* What comes from the Postgres cache was, by its own stamp, checked no longer than
\* the time to live before the request; what was fetched may be of any age.
CachedAnswerFresh ==
  last.ok => \A <<type, record>> \in {<<"citizen", last.citizen>>, <<"sanctions", last.sanction>>} :
               record # None /\ type \notin last.fetched => record.checkedAt >= last.at - CacheTTL

\* What is answered was checked no longer than the time to live before the request.
\* The code does not keep this statement.
AnswerFresh ==
  last.ok => \A record \in {last.citizen, last.sanction} :
               record # None => record.checkedAt >= last.at - CacheTTL

\* Registry data is only read while the consent is in force ("called atomically
\* within service methods to prevent TOCTOU races").
\* The code does not keep this statement.
ConsentCovers == last.ok => last.covered
=============================================================================
