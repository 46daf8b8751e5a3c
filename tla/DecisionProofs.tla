---------------------------- MODULE DecisionProofs ----------------------------
(***************************************************************************)
(* Proofs about DecisionService and the credential service it reads, for   *)
(* any calls, evaluations, users and times, and whatever fails.            *)
(***************************************************************************)
EXTENDS DecisionService, TLAPS

-----------------------------------------------------------------------------
(* Credentials: a credential is determined by the call that issues it.     *)

ClaimsOf ==
  IF regulated THEN [is_over_18 |-> TRUE]
               ELSE [is_over_18 |-> TRUE, verified_via |-> "national_registry"]

\* What call c issues, what is stored of it, and the row it becomes.
Built(c) == [id |-> c, subject |-> vcall[c].user, issuedAt |-> vcall[c].at, claims |-> ClaimsOf]

Stamp(t) == IF backend = "memory" THEN t ELSE Timestamptz(t)
Saved(c) ==
  [id |-> c, subject |-> vcall[c].user, issuedAt |-> Stamp(vcall[c].at), claims |-> ClaimsOf]

Columns ==
  IF backend = "memory" THEN NoColumns
  ELSE [is_over_18 |-> [null |-> FALSE, value |-> TRUE],
        verified_via |-> IF regulated THEN [null |-> TRUE, value |-> Empty]
                                      ELSE [null |-> FALSE, value |-> "national_registry"]]

RowFor(c) == [cred |-> Saved(c), columns |-> Columns]

\* The grounds on which call c issues.
Grounds(c) ==
  /\ vcall[c].op = "issue" /\ vcall[c].user \in Users /\ vcall[c].held
  /\ vcall[c].citizen.valid /\ vcall[c].citizen.dob.parses
  /\ vcall[c].at >= vcall[c].citizen.dob.adultAt

Creds == {NoCredential} \cup [id: VCCalls, subject: Users, issuedAt: 0..MaxTime, claims: {ClaimsOf}]

CallSet ==
  [pc: {"new", "consent", "fetch", "save", "find", "done"}, op: {"none", "issue", "verify"},
   user: Users \cup {NoUser}, at: 0..MaxTime, held: BOOLEAN, citizen: Citizens,
   id: VCCalls \cup {NoCall}, stored: BOOLEAN, code: Codes, cred: Creds]

\* A call that an id names, and that is over.
Over(id) == id \in VCCalls /\ vcall[id].pc = "done"

\* What is known of call c at each point of it, and of the row it left.
CallOf(c) ==
  LET x == vcall[c] IN
  /\ x.at <= now
  /\ x.pc # "done" => x.code = "none"
  /\ x.pc = "consent" => /\ x.op = "issue" /\ x.user \in Users
                         /\ <<x.user, VCIssuance>> \in consent => x.held
  /\ x.pc = "fetch" => x.op = "issue" /\ x.user \in Users /\ x.held
  /\ x.pc = "save" => Grounds(c) /\ x.cred = Built(c)
  /\ x.pc = "find" => x.op = "verify" /\ x.id \in VCCalls
  /\ c \in DOMAIN rows => x.pc = "done" /\ Grounds(c) /\ rows[c] = RowFor(c) /\ x.user \in users
  /\ x.op = "issue" /\ x.code = "ok" => x.cred = Built(c) /\ (x.user \in users => c \in DOMAIN rows)
  /\ x.op = "verify" =>
       /\ x.stored => Over(x.id) /\ (vcall[x.id].user \in users => x.id \in DOMAIN rows)
       /\ x.code = "ok" => Over(x.id) /\ x.cred = Saved(x.id)
       /\ x.stored /\ x.code = "not_found" => vcall[x.id].user \notin users

WorldTypes ==
  /\ now \in 0..MaxTime /\ regulated \in BOOLEAN /\ backend \in Backends
  /\ users \subseteq Users /\ consent \subseteq Users \X Purposes
  /\ DOMAIN rows \subseteq VCCalls
  /\ tracked \subseteq {"vc_issued", "vc_verified"} \X Users
  /\ vcall \in [VCCalls -> CallSet]

\* A user with a credential has a latest one.
HasLatest ==
  \A c \in DOMAIN rows : \E l \in DOMAIN rows :
    /\ rows[l].cred.subject = rows[c].cred.subject
    /\ \A i \in DOMAIN rows : rows[i].cred.subject = rows[c].cred.subject
                                 => rows[i].cred.issuedAt <= rows[l].cred.issuedAt

WorldInv == WorldTypes /\ HasLatest /\ \A c \in VCCalls : CallOf(c)
-----------------------------------------------------------------------------
(* Evaluations.                                                            *)

Statuses == {"fail", "pass", "pass_with_conditions"}
PresenceSet == {Absent, [exists |-> TRUE, claims |-> ClaimsOf]}

EvidenceSet ==
  [citizen: [nil: BOOLEAN, record: Citizens],
   sanctions: [nil: BOOLEAN, listed: BOOLEAN],
   credential: {Nothing.credential} \cup [nil: {FALSE}, presence: PresenceSet]]

Reasons == {"all_checks_passed", "missing_credential", "sanctioned", "invalid_citizen", "underage",
            "not_sanctioned", Empty}

ResultSet ==
  [status: Statuses \cup {"none"}, listed: BOOLEAN, reason: Reasons,
   shown: [citizenValid: BOOLEAN, isOver18: BOOLEAN, hasCredential: BOOLEAN]]

EvalSet ==
  [pc: {"new", "consent", "launch", "gather", "audit", "done"}, user: Users \cup {NoUser},
   purpose: {"none", AgeVerification, SanctionsScreening}, at: 0..MaxTime,
   running: SUBSET Tasks, deadline: 0..MaxTime, err: {"none"} \cup RegistryErrors,
   evidence: EvidenceSet, result: ResultSet, code: Codes, held: BOOLEAN, owed: BOOLEAN,
   failed: SUBSET {"request", "consent", "registry", "credential", "audit"}]

\* Without an error, a lookup that has returned left its evidence; the lookup of
\* the credential may have failed instead.
Gathered(x) ==
  x.err = "none" =>
    /\ "sanctions" \in x.running \/ ~x.evidence.sanctions.nil
    /\ x.purpose = AgeVerification =>
         /\ "citizen" \in x.running \/ ~x.evidence.citizen.nil
         /\ "credential" \in x.running \/ ~x.evidence.credential.nil \/ "credential" \in x.failed

\* The result is what the rules make of the evidence.
Decided(x) ==
  /\ x.err = "none" /\ x.running = {} /\ x.purpose \in {AgeVerification, SanctionsScreening}
  /\ Gathered(x)
  /\ LET derived == deriveIdentity(x.evidence, x.at)
         outcome == EvaluateDecision(x.purpose, buildInput(x.evidence, derived))
     IN  x.result = BuildResult(x.purpose, outcome, x.evidence, derived)

\* What an evaluation is about, and what has failed on its way.
Course(x) ==
  /\ x.pc # "gather" => x.running = {}
  /\ x.pc \in {"consent", "launch", "gather", "audit"} =>
       x.user \in Users /\ x.purpose \in {AgeVerification, SanctionsScreening}
  /\ x.pc # "done" => x.code = "none"
  /\ x.pc \in {"launch", "gather", "audit"} => x.held
  /\ x.pc = "gather" => Gathered(x)
  /\ x.err # "none" => "registry" \in x.failed
  /\ x.pc = "done" => x.code = "ok" \/ ~(x.failed \subseteq {"credential"})
  /\ x.pc \notin {"audit", "done"} => x.result = NoResult
  /\ x.result = NoResult \/ Decided(x)
  /\ x.pc = "audit" \/ x.code = "ok" => Decided(x)

\* A user who was issued a credential before the request has one still, and the
\* lookup has found it if it has found anything; or the user is gone.
Honoured(x, us, rs) ==
  x.owed /\ x.user \in us =>
    /\ \E c \in DOMAIN rs : rs[c].cred.subject = x.user
    /\ x.evidence.credential.nil \/ x.evidence.credential.presence.exists

\* An evaluation whose record may be in the trail.
Emitted(x) == x.code = "ok" \/ (x.code = "internal" /\ "audit" \in x.failed)

\* What ties an evaluation to the world and to the trail.
EvalOf(e) ==
  LET x == eval[e] IN
  /\ Course(x)
  /\ x.at <= now
  /\ x.pc \in {"consent", "launch"} => now + EvidenceTimeout <= MaxTime
  /\ x.pc = "consent" /\ <<x.user, Decision>> \in consent => x.held
  /\ Honoured(x, users, rows)
  /\ x.code = "ok" => <<e, x.result.status>> \in trail
  /\ \A status \in Statuses : <<e, status>> \in trail => Emitted(x) /\ x.result.status = status

EvalInv ==
  /\ eval \in [Evals -> EvalSet]
  /\ trail \subseteq Evals \X Statuses
  /\ \A e \in Evals : EvalOf(e)

Inv == WorldInv /\ EvalInv
-----------------------------------------------------------------------------
(* The world of the calls.                                                 *)

\* The source that claims name is not the empty string.
LEMMA SourceNamed == "national_registry" # Empty
BY Zenon DEF Empty

\* A time is so many microseconds and less than one more.
LEMMA Microseconds ==
  ASSUME NEW t \in Nat
  PROVE  /\ t \div Micro \in Nat /\ t % Micro \in 0..Micro - 1
         /\ t = Micro * (t \div Micro) + (t % Micro)
BY CredentialAssumption

\* Cutting a time to the microsecond brings it forward, but not before a birthday.
LEMMA StampFacts ==
  ASSUME NEW t \in 0..MaxTime
  PROVE  /\ Stamp(t) \in 0..MaxTime
         /\ \A a \in Midnights : a <= t => a <= Stamp(t)
<1>1. Micro \in Nat \ {0} /\ MaxTime \in Nat /\ t \in Nat
  BY CredentialAssumption
<1>2. PICK q \in Nat, r \in 0..Micro - 1 : t = Micro * q + r /\ r = t % Micro
  BY <1>1, Microseconds
<1>3. Micro * q \in Nat
  BY <1>1
<1>4. Timestamptz(t) = Micro * q
  BY <1>1, <1>2, <1>3 DEF Timestamptz
<1>5. ASSUME NEW a \in Midnights, a <= t
      PROVE  a <= Micro * q
  <2>1. a \in Nat /\ a % Micro = 0
    BY <1>1 DEF Midnights
  <2>2. PICK k \in Nat : a = Micro * k
    <3> DEFINE d == a \div Micro
    <3>1. d \in Nat /\ a = Micro * d + (a % Micro)
      BY <2>1, Microseconds
    <3> HIDE DEF d
    <3>2. Micro * d \in Int
      BY <1>1, <3>1
    <3>3. a = Micro * d
      BY <2>1, <3>1, <3>2
    <3> QED BY <3>1, <3>3
  <2>3. k <= q
    <3>1. SUFFICES ASSUME k >= q + 1 PROVE FALSE
      BY SMT
    <3>2. Micro * k >= Micro * (q + 1)
      BY <1>1, <3>1
    <3>3. Micro * (q + 1) = Micro * q + Micro
      BY <1>1
    <3>4. Micro * q \in Int /\ Micro * k \in Int
      BY <1>1
    <3> QED BY <1>1, <1>2, <1>5, <2>2, <3>2, <3>3, <3>4
  <2>4. Micro * k <= Micro * q
    BY <1>1, <2>3
  <2> QED BY <2>2, <2>4
<1>6. Stamp(t) \in {t, Micro * q}
  BY <1>4, Zenon DEF Stamp
<1>7. Micro * q <= t
  BY <1>2, <1>3
<1>8. Stamp(t) \in 0..MaxTime
  BY <1>1, <1>3, <1>6, <1>7
<1>9. ASSUME NEW a \in Midnights, a <= t
      PROVE  a <= Stamp(t)
  BY <1>5, <1>6, <1>9
<1> QED BY <1>8, <1>9

\* What is read back of a credential, as AsStored says it.
LEMMA SavedFacts ==
  ASSUME NEW c
  PROVE  Saved(c) = AsStored(Built(c)) /\ Saved(c).subject = Built(c).subject
<1>1. CASE backend = "memory"
  BY <1>1, Zenon DEF Saved, Built, AsStored, Stamp
<1>2. CASE backend # "memory"
  <2>1. AsStored(Built(c)) = [Built(c) EXCEPT !.issuedAt = Timestamptz(Built(c).issuedAt)]
    BY <1>2, Zenon DEF AsStored
  <2>2. Stamp(vcall[c].at) = Timestamptz(vcall[c].at)
    BY <1>2, Zenon DEF Stamp
  <2> QED BY <2>1, <2>2 DEF Saved, Built
<1> QED BY <1>1, <1>2

\* buildCredentialModel makes what Built says, of an adult only.
LEMMA BuiltByModel ==
  ASSUME regulated \in BOOLEAN, NEW c, NEW user, NEW citizen \in Citizens, NEW at,
         buildCredentialModel(c, user, citizen, at).code = "ok"
  PROVE  /\ buildCredentialModel(c, user, citizen, at).cred =
              [id |-> c, subject |-> user, issuedAt |-> at, claims |-> ClaimsOf]
         /\ citizen.dob.parses /\ at >= citizen.dob.adultAt
<1>1. citizen.dob.parses /\ at >= citizen.dob.adultAt
  BY Zenon DEF buildCredentialModel, IsOver18
<1>2. buildCredentialModel(c, user, citizen, at).cred =
        ToModel(IF regulated
          THEN MinimizedCredential(NewCredential(c, user, at, NewAgeOver18Claims(TRUE, "national_registry")))
          ELSE NewCredential(c, user, at, NewAgeOver18Claims(TRUE, "national_registry")))
  BY <1>1, Zenon DEF buildCredentialModel, IsOver18
<1>3. CASE regulated
  BY <1>1, <1>2, <1>3, Zenon
  DEF MinimizedCredential, Minimized, ToModel, ToMap, ClaimsOf, NewCredential, NewAgeOver18Claims
<1>4. CASE ~regulated
  BY <1>1, <1>2, <1>4, SourceNamed, Zenon DEF ToModel, ToMap, ClaimsOf, NewCredential, NewAgeOver18Claims
<1> QED BY <1>3, <1>4

\* Save of a credential that a call has built writes the row RowFor says.
LEMMA SavedRow ==
  ASSUME regulated \in BOOLEAN, NEW c, NEW new,
         new = IF backend = "memory" THEN MemorySave(Built(c)) ELSE PostgresSave(Built(c))
  PROVE  /\ DOMAIN new = DOMAIN rows \cup {c}
         /\ new[c] = RowFor(c)
         /\ \A i \in DOMAIN rows : i # c => new[i] = rows[i]
<1>1. Built(c).id = c /\ Built(c).claims = ClaimsOf
  BY Zenon DEF Built
<1>2. backend # "memory" => extractAgeOver18Claims(Built(c)) = Columns
  <2>1. ClaimsOf.is_over_18 = TRUE
    BY Zenon DEF ClaimsOf
  <2>2. CASE regulated
    <3>1. DOMAIN ClaimsOf = {"is_over_18"}
      BY <2>2, Zenon DEF ClaimsOf
    <3> QED BY <1>1, <2>1, <2>2, <3>1, Zenon DEF extractAgeOver18Claims, Columns
  <2>3. CASE ~regulated
    <3>1. "verified_via" \in DOMAIN ClaimsOf /\ ClaimsOf.verified_via = "national_registry"
      BY <2>3, Zenon DEF ClaimsOf
    <3> QED BY <1>1, <2>1, <2>3, <3>1, Zenon DEF extractAgeOver18Claims, Columns
  <2> QED BY <2>2, <2>3
<1>3. new = Put(c, RowFor(c))
  <2>1. CASE backend = "memory"
    BY <1>1, <2>1, SavedFacts, Zenon DEF MemorySave, RowFor, Columns, AsStored
  <2>2. CASE backend # "memory"
    BY <1>1, <1>2, <2>2, SavedFacts, Zenon DEF RowFor, PostgresSave, UpsertCredential, AsStored
  <2> QED BY <2>1, <2>2
<1> QED BY <1>3, Zenon DEF Put

\* What is read back of such a row is what was saved: the columns of Postgres lose
\* no claim and add none.
LEMMA ReadBack ==
  ASSUME regulated \in BOOLEAN, NEW c, backend # "memory"
  PROVE  toCredentialRecord(RowFor(c)) = Saved(c)
<1>1. RowFor(c).cred = Saved(c) /\ RowFor(c).columns = Columns
  BY Zenon DEF RowFor
<1>2. ColumnClaims(Columns.is_over_18, Columns.verified_via) = ClaimsOf
  BY SourceNamed, Zenon DEF Columns, ColumnClaims, ClaimsOf
<1> QED BY <1>1, <1>2 DEF toCredentialRecord, NewCredential, Saved

\* FindByID finds what the call of that id saved.
LEMMA FoundById ==
  ASSUME WorldInv, NEW c \in VCCalls
  PROVE  FindByID(c) = IF c \in DOMAIN rows THEN {Saved(c)} ELSE {}
<1>1. regulated \in BOOLEAN /\ (c \in DOMAIN rows => rows[c] = RowFor(c)) /\ RowFor(c).cred = Saved(c)
  BY Zenon DEF WorldInv, WorldTypes, CallOf, RowFor
<1>2. CASE backend = "memory"
  BY <1>1, <1>2, Zenon DEF FindByID, MemoryFindByID
<1>3. CASE backend # "memory"
  BY <1>1, <1>3, ReadBack, Zenon DEF GetCredentialByID, FindByID, PostgresFindByID
<1> QED BY <1>2, <1>3

\* What is known of a row.
LEMMA RowFacts ==
  ASSUME WorldInv, NEW c \in DOMAIN rows
  PROVE  /\ c \in VCCalls /\ vcall[c].pc = "done" /\ Grounds(c) /\ vcall[c].user \in users
         /\ rows[c].cred = Saved(c) /\ rows[c].columns = Columns
         /\ rows[c].cred.subject = vcall[c].user
         /\ rows[c].cred.issuedAt = Stamp(vcall[c].at) /\ vcall[c].at \in 0..MaxTime
         /\ rows[c].cred.issuedAt \in 0..MaxTime
         /\ rows[c].cred.claims = ClaimsOf
         /\ backend # "memory" => toCredentialRecord(rows[c]) = Saved(c)
<1>1. c \in VCCalls
  BY Zenon DEF WorldInv, WorldTypes
<1>2. vcall[c].pc = "done" /\ Grounds(c) /\ rows[c] = RowFor(c) /\ vcall[c].user \in users
  BY <1>1, Zenon DEF WorldInv, CallOf
<1>3. vcall[c].at \in 0..MaxTime /\ regulated \in BOOLEAN
  BY <1>1, Zenon DEF WorldInv, WorldTypes, CallSet
<1>4. RowFor(c).cred = Saved(c) /\ RowFor(c).columns = Columns
  BY Zenon DEF RowFor
<1>5. Saved(c).subject = vcall[c].user /\ Saved(c).issuedAt = Stamp(vcall[c].at)
      /\ Saved(c).claims = ClaimsOf
  BY Zenon DEF Saved
<1>6. backend # "memory" => toCredentialRecord(rows[c]) = Saved(c)
  BY <1>2, <1>3, ReadBack
<1>7. Stamp(vcall[c].at) \in 0..MaxTime
  BY <1>3, StampFacts
<1> QED BY <1>1, <1>2, <1>3, <1>4, <1>5, <1>6, <1>7, Zenon

\* What the decision service may be told of the credentials of a user; of one who
\* has a credential, that it exists.
LEMMA PresenceFacts ==
  ASSUME WorldInv, NEW user
  PROVE  /\ FindCredentialPresence(user) \subseteq PresenceSet
         /\ (\E c \in DOMAIN rows : rows[c].cred.subject = user)
              => \A p \in FindCredentialPresence(user) : p.exists
<1> DEFINE found == IF backend = "memory" THEN MemoryFindBySubjectAndType(user)
                                         ELSE PostgresFindBySubjectAndType(user)
<1>1. LatestOf(user) \subseteq DOMAIN rows
  BY Zenon DEF LatestOf
<1>2. \A c \in LatestOf(user) : rows[c].cred.claims = ClaimsOf /\ rows[c].cred = Saved(c)
        /\ (backend # "memory" => toCredentialRecord(rows[c]) = Saved(c))
  BY <1>1, RowFacts
<1>3. found = {rows[c].cred : c \in LatestOf(user)}
  BY <1>2, Zenon DEF MemoryFindBySubjectAndType, PostgresFindBySubjectAndType
<1>4. \A cred \in found : cred.claims = ClaimsOf
  BY <1>2, <1>3
<1>5. FindCredentialPresence(user) =
        IF found = {} THEN {Absent} ELSE {[exists |-> TRUE, claims |-> cred.claims] : cred \in found}
  BY Zenon DEF FindCredentialPresence
<1> HIDE DEF found
<1>6. ASSUME NEW p \in FindCredentialPresence(user)
      PROVE  p \in PresenceSet /\ (found # {} => p.exists)
  BY <1>5, <1>6, <1>4 DEF PresenceSet
<1>7. (\E c \in DOMAIN rows : rows[c].cred.subject = user) => found # {}
  BY <1>3 DEF WorldInv, HasLatest, LatestOf
<1> QED BY <1>6, <1>7
-----------------------------------------------------------------------------
(* Steps of the world.                                                     *)

\* A row stays as it is as long as its user does, and a call that is over stays so.
RowsLast ==
  /\ users' \subseteq users
  /\ \A i \in DOMAIN rows : rows[i].cred.subject \in users' => i \in DOMAIN rows' /\ rows'[i] = rows[i]
  /\ \A i \in VCCalls : vcall[i].pc = "done" => vcall'[i] = vcall[i]

\* A call that a step leaves alone keeps what is known of it.
LEMMA CallFrame ==
  ASSUME WorldInv, NEW c \in VCCalls, vcall'[c] = vcall[c],
         UNCHANGED <<regulated, backend>>, RowsLast, now' \in Int, now <= now',
         c \in DOMAIN rows' => c \in DOMAIN rows /\ rows'[c] = rows[c] /\ vcall[c].user \in users',
         vcall[c].pc = "consent" /\ <<vcall[c].user, VCIssuance>> \in consent'
           => <<vcall[c].user, VCIssuance>> \in consent \/ vcall[c].held
  PROVE  CallOf(c)'
<1>1. CallOf(c) /\ now \in Int /\ vcall[c].at \in Int
  BY DEF WorldInv, WorldTypes, CallSet
<1>2. ClaimsOf' = ClaimsOf /\ Columns' = Columns
  BY Zenon DEF ClaimsOf, Columns
<1>3. Built(c)' = Built(c) /\ Saved(c)' = Saved(c) /\ Grounds(c)' = Grounds(c)
  BY <1>2, Zenon DEF Built, Saved, Stamp, Grounds
<1>4. RowFor(c)' = RowFor(c)
  BY <1>2, <1>3, Zenon DEF RowFor
<1>5. (vcall[c].at <= now)'
  BY <1>1 DEF CallOf
<1>6. vcall[c].pc = "consent" /\ <<vcall[c].user, VCIssuance>> \in consent' => vcall[c].held
  BY <1>1, Zenon DEF CallOf
<1>7. c \in DOMAIN rows' => vcall[c].pc = "done" /\ Grounds(c) /\ rows'[c] = RowFor(c)
                             /\ vcall[c].user \in users'
  BY <1>1, Zenon DEF CallOf
<1>8. ASSUME NEW i \in DOMAIN rows, vcall[i].user \in users'
      PROVE  i \in DOMAIN rows'
  <2>1. rows[i].cred.subject = vcall[i].user
    BY RowFacts
  <2> QED BY <1>8, <2>1, Zenon DEF RowsLast
<1>9. vcall[c].op = "issue" /\ vcall[c].code = "ok"
        => vcall[c].cred = Built(c) /\ (vcall[c].user \in users' => c \in DOMAIN rows')
  BY <1>1, <1>8, Zenon DEF CallOf, RowsLast
<1>10. ASSUME vcall[c].op = "verify"
       PROVE  LET id == vcall[c].id IN
              /\ vcall[c].stored => Over(id)' /\ (vcall'[id].user \in users' => id \in DOMAIN rows')
              /\ vcall[c].code = "ok" => Over(id)' /\ vcall[c].cred = Saved(id)'
              /\ vcall[c].stored /\ vcall[c].code = "not_found" => vcall'[id].user \notin users'
  <2> DEFINE id == vcall[c].id
  <2>1. Over(id) => Over(id)' /\ vcall'[id] = vcall[id]
    BY Zenon DEF Over, RowsLast
  <2>2. Over(id) => Saved(id)' = Saved(id)
    BY <1>2, <2>1, Zenon DEF Saved, Stamp
  <2>3. /\ vcall[c].stored => Over(id) /\ (vcall[id].user \in users => id \in DOMAIN rows)
        /\ vcall[c].code = "ok" => Over(id) /\ vcall[c].cred = Saved(id)
        /\ vcall[c].stored /\ vcall[c].code = "not_found" => vcall[id].user \notin users
    BY <1>1, <1>10, Zenon DEF CallOf
  <2>4. users' \subseteq users
    BY Zenon DEF RowsLast
  <2> QED BY <1>8, <2>1, <2>2, <2>3, <2>4, Zenon
<1> QED BY <1>1, <1>3, <1>4, <1>5, <1>6, <1>7, <1>9, <1>10, Zenon DEF CallOf

\* Whatever row is added, each of the users has a latest credential still.
LEMMA LatestGrows ==
  ASSUME HasLatest, NEW d, DOMAIN rows \subseteq DOMAIN rows', DOMAIN rows' \subseteq DOMAIN rows \cup {d},
         \A i \in DOMAIN rows : rows'[i] = rows[i],
         \A i \in DOMAIN rows' : rows'[i].cred.issuedAt \in Int
  PROVE  HasLatest'
<1> DEFINE Who(i) == rows'[i].cred.subject
           When(i) == rows'[i].cred.issuedAt
<1>1. \A c \in DOMAIN rows : \E l \in DOMAIN rows :
        Who(l) = Who(c) /\ \A i \in DOMAIN rows : Who(i) = Who(c) => When(i) <= When(l)
  BY Zenon DEF HasLatest
<1>2. \A i \in DOMAIN rows' : When(i) \in Int
  OBVIOUS
<1>3. HasLatest' <=> \A c \in DOMAIN rows' : \E l \in DOMAIN rows' :
        Who(l) = Who(c) /\ \A i \in DOMAIN rows' : Who(i) = Who(c) => When(i) <= When(l)
  BY Zenon DEF HasLatest
<1> HIDE DEF Who, When
<1>4. ASSUME NEW c \in DOMAIN rows'
      PROVE  \E l \in DOMAIN rows' :
               Who(l) = Who(c) /\ \A i \in DOMAIN rows' : Who(i) = Who(c) => When(i) <= When(l)
  BY <1>1, <1>2
<1> QED BY <1>3, <1>4

\* A step of one call, which was not done.
LEMMA OneCall ==
  ASSUME WorldInv, NEW d \in VCCalls, NEW r \in CallSet, vcall' = [vcall EXCEPT ![d] = r],
         vcall[d].pc # "done", UNCHANGED <<now, regulated, backend, users, consent>>,
         DOMAIN rows \subseteq DOMAIN rows', DOMAIN rows' \subseteq DOMAIN rows \cup {d},
         \A i \in DOMAIN rows : rows'[i] = rows[i],
         tracked' \subseteq {"vc_issued", "vc_verified"} \X Users,
         CallOf(d)'
  PROVE  WorldInv' /\ RowsLast
<1>1. \A i \in DOMAIN rows : vcall[i].user \in users
  BY RowFacts
<1>2. vcall \in [VCCalls -> CallSet] /\ DOMAIN rows \subseteq VCCalls /\ now \in Int
  BY DEF WorldInv, WorldTypes
<1>3. RowsLast
  BY <1>2, Zenon DEF RowsLast
<1>4. CallSet' = CallSet
  BY Zenon DEF CallSet, Creds, ClaimsOf
<1>5. WorldTypes'
  BY <1>2, <1>4, Zenon DEF WorldInv, WorldTypes
<1>6. ASSUME NEW c \in VCCalls
      PROVE  CallOf(c)'
  <2>1. CASE c = d
    BY <2>1
  <2>2. CASE c # d
    <3>1. /\ vcall'[c] = vcall[c]
          /\ c \in DOMAIN rows' => c \in DOMAIN rows /\ rows'[c] = rows[c] /\ vcall[c].user \in users'
      BY <1>1, <1>2, <2>2
    <3>2. UNCHANGED <<regulated, backend>> /\ now' \in Int /\ now <= now'
      BY <1>2
    <3>3. vcall[c].pc = "consent" /\ <<vcall[c].user, VCIssuance>> \in consent'
            => <<vcall[c].user, VCIssuance>> \in consent \/ vcall[c].held
      OBVIOUS
    <3> QED BY <1>3, <3>1, <3>2, <3>3, CallFrame
  <2> QED BY <2>1, <2>2
<1>7. HasLatest'
  <2>1. \A i \in DOMAIN rows : rows[i].cred.issuedAt \in Int
    BY RowFacts
  <2>2. d \in DOMAIN rows' => rows'[d].cred.issuedAt \in Int
    <3>1. vcall'[d] = r /\ r.at \in 0..MaxTime
      BY <1>2 DEF CallSet
    <3>2. d \in DOMAIN rows' => rows'[d].cred.issuedAt = Stamp(r.at)
      <4>1. d \in DOMAIN rows' => rows'[d] = RowFor(d)'
        BY Zenon DEF CallOf
      <4>2. RowFor(d)'.cred = Saved(d)'
        BY Zenon DEF RowFor
      <4>3. Saved(d)'.issuedAt = Stamp(r.at)
        <5>1. backend' = backend /\ vcall'[d].at = r.at
          BY <3>1, Zenon
        <5>2. Saved(d)'.issuedAt = Stamp(vcall[d].at)'
          BY Zenon DEF Saved
        <5> QED BY <5>1, <5>2, Zenon DEF Stamp, Timestamptz
      <4> QED BY <4>1, <4>2, <4>3, Zenon
    <3>3. Stamp(r.at) \in 0..MaxTime
      BY <3>1, StampFacts
    <3> QED BY <3>2, <3>3
  <2>3. \A i \in DOMAIN rows' : rows'[i].cred.issuedAt \in Int
    BY <2>1, <2>2
  <2> QED BY <2>3, LatestGrows, Zenon DEF WorldInv
<1> QED BY <1>3, <1>5, <1>6, <1>7, Zenon DEF WorldInv

\* What a call is when it has returned.
LEMMA Returned ==
  ASSUME WorldInv, NEW c \in VCCalls, NEW code \in Codes, NEW cred \in Creds, Return(c, code, cred)
  PROVE  \E r \in CallSet :
           /\ vcall' = [vcall EXCEPT ![c] = r]
           /\ vcall'[c] = r
           /\ r.pc = "done" /\ r.code = code /\ r.cred = cred
           /\ r.op = vcall[c].op /\ r.user = vcall[c].user /\ r.at = vcall[c].at
           /\ r.held = vcall[c].held /\ r.citizen = vcall[c].citizen
           /\ r.id = vcall[c].id /\ r.stored = vcall[c].stored
<1> DEFINE r == [vcall[c] EXCEPT !.pc = "done", !.code = code, !.cred = cred]
<1>1. vcall \in [VCCalls -> CallSet] /\ vcall[c] \in CallSet
  BY Zenon DEF WorldInv, WorldTypes
<1>2. r \in CallSet
  BY <1>1, Zenon DEF CallSet
<1>3. vcall' = [vcall EXCEPT ![c] = r]
  BY <1>1, Zenon DEF Return
<1>4. vcall'[c] = r
  BY <1>1, <1>3
<1>5. /\ r.pc = "done" /\ r.code = code /\ r.cred = cred
      /\ r.op = vcall[c].op /\ r.user = vcall[c].user /\ r.at = vcall[c].at
      /\ r.held = vcall[c].held /\ r.citizen = vcall[c].citizen
      /\ r.id = vcall[c].id /\ r.stored = vcall[c].stored
  BY <1>1, Zenon DEF CallSet
<1> QED BY <1>2, <1>3, <1>4, <1>5, Zenon

\* An issue that is refused leaves the store alone.
LEMMA IssueRefused ==
  ASSUME WorldInv, NEW c \in VCCalls, vcall[c].pc \in {"consent", "fetch"},
         NEW code \in Codes, code # "ok", Return(c, code, NoCredential),
         UNCHANGED <<now, regulated, backend, users, consent, rows, tracked>>
  PROVE  WorldInv' /\ RowsLast
<1>1. NoCredential \in Creds
  BY Zenon DEF Creds
<1>2. PICK r \in CallSet :
           /\ vcall' = [vcall EXCEPT ![c] = r]
           /\ vcall'[c] = r
           /\ r.pc = "done" /\ r.code = code
           /\ r.op = vcall[c].op /\ r.at = vcall[c].at
  BY <1>1, Returned
<1>3. CallOf(c) /\ tracked \subseteq {"vc_issued", "vc_verified"} \X Users
  BY Zenon DEF WorldInv, WorldTypes
<1>4. vcall[c].op = "issue" /\ c \notin DOMAIN rows /\ vcall[c].at <= now
  BY <1>3, Zenon DEF CallOf
<1>5. CallOf(c)'
  BY <1>2, <1>4, Zenon DEF CallOf
<1> QED BY <1>2, <1>3, <1>5, OneCall, Zenon

\* HandleIssue keeps the invariant.
LEMMA HandleIssueStep ==
  ASSUME WorldInv, NEW c \in VCCalls, NEW user \in Users \cup {NoUser}, NEW body,
         HandleIssue(c, user, body)
  PROVE  WorldInv' /\ RowsLast
<1> DEFINE code == IF user = NoUser THEN "unauthorized"
                   ELSE IF IssueValidate(body) # "ok" THEN IssueValidate(body)
                   ELSE validateIssueRequest(user, body)
           r == IF code # "ok"
                  THEN [NewCall EXCEPT !.op = "issue", !.pc = "done", !.code = code]
                  ELSE [NewCall EXCEPT !.op = "issue", !.pc = "consent", !.user = user, !.at = now,
                                       !.held = <<user, VCIssuance>> \in consent]
<1>1. code \in Codes /\ (code = "ok" => user \in Users)
  BY Zenon DEF Codes, IssueValidate, validateIssueRequest
<1>2. /\ now \in 0..MaxTime /\ vcall \in [VCCalls -> CallSet] /\ CallOf(c)
      /\ tracked \subseteq {"vc_issued", "vc_verified"} \X Users
  BY Zenon DEF WorldInv, WorldTypes
<1>3. vcall[c].pc = "new" /\ UNCHANGED <<now, regulated, backend, users, consent, rows, tracked>>
      /\ vcall' = [vcall EXCEPT ![c] = r]
  BY Zenon DEF HandleIssue
<1>4. c \notin DOMAIN rows
  BY <1>2, <1>3, Zenon DEF CallOf
<1> HIDE DEF code
<1>5. NewCall \in CallSet
  BY CredentialAssumption DEF NewCall, CallSet, Creds, Codes, NoCitizen, Citizens, BirthDates
<1>6. r \in CallSet /\ r.op = "issue" /\ r.at <= now /\ r.at \in Int
      /\ (code # "ok" => r.pc = "done" /\ r.code = code)
      /\ (code = "ok" => r.pc = "consent" /\ r.code = "none" /\ r.user = user
                         /\ r.held = (<<user, VCIssuance>> \in consent))
  <2>1. CASE code # "ok"
    <3>1. r = [NewCall EXCEPT !.op = "issue", !.pc = "done", !.code = code]
      BY <2>1
    <3> HIDE DEF r
    <3>2. r \in CallSet
      BY <1>1, <1>5, <3>1, Zenon DEF CallSet
    <3>3. r.op = "issue" /\ r.at = 0 /\ r.pc = "done" /\ r.code = code
      BY <3>1, Zenon DEF NewCall
    <3> QED BY <1>2, <2>1, <3>2, <3>3
  <2>2. CASE code = "ok"
    <3> DEFINE held == <<user, VCIssuance>> \in consent
    <3>1. held \in BOOLEAN
      OBVIOUS
    <3>2. r = [NewCall EXCEPT !.op = "issue", !.pc = "consent", !.user = user, !.at = now, !.held = held]
      BY <2>2
    <3> HIDE DEF held, r
    <3>3. r \in CallSet
      BY <1>1, <1>2, <1>5, <3>1, <3>2, Zenon DEF CallSet
    <3>4. r.op = "issue" /\ r.at = now /\ r.pc = "consent" /\ r.code = "none" /\ r.user = user
          /\ r.held = held
      BY <3>2, Zenon DEF NewCall
    <3> QED BY <1>2, <2>2, <3>3, <3>4 DEF held
  <2> QED BY <2>1, <2>2
<1> HIDE DEF r
<1>7. vcall'[c] = r
  BY <1>2, <1>3
<1>8. CallOf(c)'
  BY <1>1, <1>3, <1>4, <1>6, <1>7, Zenon DEF CallOf
<1> QED BY <1>2, <1>3, <1>6, <1>8, OneCall, Zenon

\* RequireConsent keeps the invariant.
LEMMA RequireConsentStep ==
  ASSUME WorldInv, NEW c \in VCCalls, requireVCIssuanceConsent(c)
  PROVE  WorldInv' /\ RowsLast
<1>1. /\ vcall[c].pc = "consent"
      /\ UNCHANGED <<now, regulated, backend, users, consent, rows, tracked>>
  BY Zenon DEF requireVCIssuanceConsent
<1>2. /\ vcall \in [VCCalls -> CallSet] /\ vcall[c] \in CallSet /\ CallOf(c)
      /\ tracked \subseteq {"vc_issued", "vc_verified"} \X Users
  BY Zenon DEF WorldInv, WorldTypes
<1>3. CASE /\ <<vcall[c].user, VCIssuance>> \in consent
           /\ vcall' = [vcall EXCEPT ![c].pc = "fetch"]
  <2> DEFINE r == [vcall[c] EXCEPT !.pc = "fetch"]
  <2>1. r \in CallSet /\ r.pc = "fetch" /\ r.op = vcall[c].op /\ r.user = vcall[c].user
        /\ r.held = vcall[c].held /\ r.code = vcall[c].code /\ r.at = vcall[c].at
    BY <1>2, Zenon DEF CallSet
  <2>2. vcall' = [vcall EXCEPT ![c] = r] /\ vcall'[c] = r
    BY <1>2, <1>3
  <2> HIDE DEF r
  <2>3. vcall[c].op = "issue" /\ vcall[c].user \in Users /\ vcall[c].held /\ vcall[c].code = "none"
        /\ vcall[c].at <= now /\ c \notin DOMAIN rows
    BY <1>1, <1>2, <1>3, Zenon DEF CallOf
  <2>4. CallOf(c)'
    BY <1>1, <2>1, <2>2, <2>3, Zenon DEF CallOf
  <2> QED BY <1>1, <1>2, <2>1, <2>2, <2>4, OneCall, Zenon
<1>4. ASSUME NEW code \in {"missing_consent", "internal"},
             Return(c, sanitizeExternalError(code), NoCredential)
      PROVE  WorldInv' /\ RowsLast
  BY <1>1, <1>4, IssueRefused, Zenon DEF sanitizeExternalError, Codes
<1> QED BY <1>3, <1>4, Zenon DEF requireVCIssuanceConsent

\* Fetch keeps the invariant.
LEMMA FetchStep ==
  ASSUME WorldInv, NEW c \in VCCalls, fetchCitizenRecord(c)
  PROVE  WorldInv' /\ RowsLast
<1>1. /\ vcall[c].pc = "fetch"
      /\ UNCHANGED <<now, regulated, backend, users, consent, rows, tracked>>
  BY Zenon DEF fetchCitizenRecord
<1>2. /\ vcall \in [VCCalls -> CallSet] /\ vcall[c] \in CallSet /\ CallOf(c)
      /\ tracked \subseteq {"vc_issued", "vc_verified"} \X Users /\ regulated \in BOOLEAN
  BY Zenon DEF WorldInv, WorldTypes
<1>3. ASSUME NEW code \in RegistryErrors, Return(c, sanitizeExternalError(code), NoCredential)
      PROVE  WorldInv' /\ RowsLast
  BY <1>1, <1>3, IssueRefused, Zenon DEF sanitizeExternalError, Codes
<1>4. ASSUME Return(c, "bad_request", NoCredential)
      PROVE  WorldInv' /\ RowsLast
  BY <1>1, <1>4, IssueRefused, Zenon DEF Codes
<1>5. ASSUME NEW citizen \in Citizens, citizen.valid,
             buildCredentialModel(c, vcall[c].user, citizen, vcall[c].at).code = "ok",
             vcall' = [vcall EXCEPT ![c].pc = "save", ![c].citizen = citizen,
               ![c].cred = buildCredentialModel(c, vcall[c].user, citizen, vcall[c].at).cred]
      PROVE  WorldInv' /\ RowsLast
  <2>1. /\ buildCredentialModel(c, vcall[c].user, citizen, vcall[c].at).cred = Built(c)
        /\ citizen.dob.parses /\ vcall[c].at >= citizen.dob.adultAt
    BY <1>2, <1>5, BuiltByModel, Zenon DEF Built
  <2>2. vcall[c].op = "issue" /\ vcall[c].user \in Users /\ vcall[c].held /\ vcall[c].code = "none"
        /\ vcall[c].at <= now /\ c \notin DOMAIN rows
    BY <1>1, <1>2, Zenon DEF CallOf
  <2>3. Built(c) \in Creds
    BY <1>2, <2>2, Zenon DEF CallSet, Built, Creds
  <2> DEFINE r == [vcall[c] EXCEPT !.pc = "save", !.citizen = citizen, !.cred = Built(c)]
  <2>4. r \in CallSet
    BY <1>2, <1>5, <2>3, Zenon DEF CallSet
  <2>5. r.pc = "save" /\ r.op = vcall[c].op /\ r.user = vcall[c].user /\ r.at = vcall[c].at
        /\ r.held = vcall[c].held /\ r.code = vcall[c].code /\ r.citizen = citizen /\ r.cred = Built(c)
    BY <1>2, Zenon DEF CallSet
  <2>6. vcall' = [vcall EXCEPT ![c] = r] /\ vcall'[c] = r
    BY <1>2, <1>5, <2>1, Zenon
  <2> HIDE DEF r
  <2>7. Built(c)' = Built(c)
    BY <1>1, <2>5, <2>6, Zenon DEF Built, ClaimsOf
  <2>8. Grounds(c)'
    BY <1>5, <2>1, <2>2, <2>5, <2>6, Zenon DEF Grounds
  <2>9. CallOf(c)'
    BY <1>1, <2>2, <2>5, <2>6, <2>7, <2>8, Zenon DEF CallOf
  <2> QED BY <1>1, <1>2, <2>4, <2>6, <2>9, OneCall, Zenon
<1>6. ASSUME NEW citizen \in Citizens,
             buildCredentialModel(c, vcall[c].user, citizen, vcall[c].at).code # "ok"
      PROVE  buildCredentialModel(c, vcall[c].user, citizen, vcall[c].at).code = "bad_request"
  BY <1>6, Zenon DEF buildCredentialModel
<1> QED BY <1>3, <1>4, <1>5, <1>6, Zenon DEF fetchCitizenRecord

\* Issue: the row is there when the caller is told so, and may be there otherwise.
LEMMA IssueStep ==
  ASSUME WorldInv, NEW c \in VCCalls, Issue(c)
  PROVE  WorldInv' /\ RowsLast
<1>1. vcall[c].pc = "save" /\ UNCHANGED <<now, regulated, backend, users, consent>>
  BY Zenon DEF Issue
<1>2. /\ vcall \in [VCCalls -> CallSet] /\ vcall[c] \in CallSet /\ CallOf(c)
      /\ tracked \subseteq {"vc_issued", "vc_verified"} \X Users /\ regulated \in BOOLEAN
  BY Zenon DEF WorldInv, WorldTypes
<1>3. Grounds(c) /\ vcall[c].cred = Built(c) /\ c \notin DOMAIN rows /\ vcall[c].at <= now
      /\ vcall[c].op = "issue"
  BY <1>1, <1>2, Zenon DEF CallOf, Grounds
<1>4. NoCredential \in Creds /\ Built(c) \in Creds /\ "ok" \in Codes /\ "internal" \in Codes
  BY <1>2, <1>3, Zenon DEF CallSet, Grounds, Built, Creds, Codes
<1> DEFINE saved == IF backend = "memory" THEN MemorySave(Built(c)) ELSE PostgresSave(Built(c))
<1>5. /\ DOMAIN saved = DOMAIN rows \cup {c} /\ saved[c] = RowFor(c)
      /\ \A i \in DOMAIN rows : saved[i] = rows[i]
  <2>1. saved = IF backend = "memory" THEN MemorySave(Built(c)) ELSE PostgresSave(Built(c))
    OBVIOUS
  <2> HIDE DEF saved
  <2>2. /\ DOMAIN saved = DOMAIN rows \cup {c} /\ saved[c] = RowFor(c)
        /\ \A i \in DOMAIN rows : i # c => saved[i] = rows[i]
    BY <1>2, <2>1, SavedRow, Zenon
  <2> QED BY <1>3, <2>2
<1>6. /\ \/ /\ rows' = saved /\ Return(c, "ok", Built(c))
            /\ tracked' = tracked \cup {<<"vc_issued", Built(c).subject>>}
         \/ rows' \in {rows, saved} /\ Return(c, "internal", NoCredential) /\ UNCHANGED tracked
      /\ rows' = saved => rows' = rows \/ vcall[c].user \in users
  <2>1. Built(c).subject = vcall[c].user
    BY Zenon DEF Built
  <2>2. backend = "postgres" => saved = PostgresSave(Built(c))
    BY Zenon
  <2> QED BY <1>3, <2>1, <2>2, Zenon DEF Issue, emitAudit
<1> HIDE DEF saved
<1>7. tracked' \subseteq {"vc_issued", "vc_verified"} \X Users
  BY <1>3, <1>2, <1>6 DEF Built, Grounds
<1>8. PICK r \in CallSet :
           /\ vcall' = [vcall EXCEPT ![c] = r]
           /\ vcall'[c] = r
           /\ r.pc = "done" /\ r.op = "issue" /\ r.user = vcall[c].user /\ r.at = vcall[c].at
           /\ r.held = vcall[c].held /\ r.citizen = vcall[c].citizen
           /\ \/ r.code = "ok" /\ r.cred = Built(c) /\ rows' = saved
              \/ r.code = "internal" /\ rows' \in {rows, saved}
  BY <1>3, <1>4, Returned, <1>6
<1>9. Built(c)' = Built(c) /\ RowFor(c)' = RowFor(c) /\ Grounds(c)'
      /\ (c \in DOMAIN rows' => vcall[c].user \in users)
  <2>1. Columns' = Columns /\ ClaimsOf' = ClaimsOf
    BY <1>1, Zenon DEF Columns, ClaimsOf
  <2>2. Built(c)' = Built(c) /\ Saved(c)' = Saved(c)
    <3>1. vcall'[c].user = vcall[c].user /\ vcall'[c].at = vcall[c].at /\ backend' = backend
      BY <1>1, <1>8, Zenon
    <3> QED BY <2>1, <3>1, Zenon DEF Built, Saved, Stamp, Timestamptz
  <2>3. c \in DOMAIN rows' => vcall[c].user \in users
    BY <1>3, <1>6, <1>8, Zenon
  <2> QED BY <1>3, <1>8, <2>1, <2>2, <2>3, Zenon DEF RowFor, Grounds
<1>10. c \in DOMAIN rows' => rows'[c] = RowFor(c)'
  BY <1>3, <1>5, <1>8, <1>9, SMTT(20)
<1>11. CallOf(c)'
  <2>1. r.code = "ok" => r.cred = Built(c)' /\ c \in DOMAIN rows'
    BY <1>5, <1>8, <1>9, Zenon
  <2>2. vcall'[c].at <= now'
    BY <1>1, <1>3, <1>8, Zenon
  <2>3. c \in DOMAIN rows' => vcall'[c].user \in users'
    <3>1. users' = users /\ vcall'[c].user = vcall[c].user
      BY <1>1, <1>8, Zenon
    <3> QED BY <1>9, <3>1, Zenon
  <2> QED BY <1>8, <1>9, <1>10, <2>1, <2>2, <2>3, Zenon DEF CallOf
<1>12. /\ DOMAIN rows \subseteq DOMAIN rows' /\ DOMAIN rows' \subseteq DOMAIN rows \cup {c}
       /\ \A i \in DOMAIN rows : rows'[i] = rows[i]
  BY <1>5, <1>8
<1> QED BY <1>1, <1>7, <1>8, <1>11, <1>12, OneCall, Zenon

\* HandleVerify keeps the invariant.
LEMMA HandleVerifyStep ==
  ASSUME WorldInv, NEW c \in VCCalls, NEW user \in Users \cup {NoUser},
         NEW id \in VCCalls \cup {"too_long", "malformed", Empty},
         HandleVerify(c, user, id)
  PROVE  WorldInv' /\ RowsLast
<1> DEFINE code == IF user = NoUser THEN "unauthorized" ELSE VerifyValidate(id)
           stored == id \in DOMAIN rows
           r == IF code # "ok"
                  THEN [NewCall EXCEPT !.op = "verify", !.pc = "done", !.code = code]
                  ELSE [NewCall EXCEPT !.op = "verify", !.pc = "find", !.user = user, !.at = now,
                                       !.id = id, !.stored = stored]
<1>1. code \in Codes \ {"not_found"} /\ (code = "ok" => id \in VCCalls)
  BY Zenon DEF Codes, VerifyValidate
<1>2. /\ now \in 0..MaxTime /\ vcall \in [VCCalls -> CallSet] /\ CallOf(c)
      /\ tracked \subseteq {"vc_issued", "vc_verified"} \X Users
  BY Zenon DEF WorldInv, WorldTypes
<1>3. vcall[c].pc = "new" /\ UNCHANGED <<now, regulated, backend, users, consent, rows, tracked>>
      /\ vcall' = [vcall EXCEPT ![c] = r]
  BY Zenon DEF HandleVerify
<1>4. c \notin DOMAIN rows /\ stored \in BOOLEAN
  BY <1>2, <1>3 DEF CallOf
<1>5. NewCall \in CallSet
  BY CredentialAssumption DEF NewCall, CallSet, Creds, Codes, NoCitizen, Citizens, BirthDates
<1> HIDE DEF code, stored
<1>6. r \in CallSet /\ r.op = "verify" /\ r.at <= now
      /\ (code # "ok" => r.pc = "done" /\ r.code = code /\ r.stored = FALSE)
      /\ (code = "ok" => r.pc = "find" /\ r.code = "none" /\ r.id = id /\ r.stored = stored)
  <2>1. CASE code # "ok"
    <3>1. r = [NewCall EXCEPT !.op = "verify", !.pc = "done", !.code = code]
      BY <2>1
    <3> HIDE DEF r
    <3>2. r \in CallSet
      BY <1>1, <1>5, <3>1, Zenon DEF CallSet
    <3>3. r.op = "verify" /\ r.at = 0 /\ r.pc = "done" /\ r.code = code /\ r.stored = FALSE
      BY <3>1, Zenon DEF NewCall
    <3> QED BY <1>2, <2>1, <3>2, <3>3
  <2>2. CASE code = "ok"
    <3>1. r = [NewCall EXCEPT !.op = "verify", !.pc = "find", !.user = user, !.at = now,
                              !.id = id, !.stored = stored]
      BY <2>2
    <3> HIDE DEF r
    <3>2. r \in CallSet
      BY <1>1, <1>2, <1>4, <1>5, <2>2, <3>1, Zenon DEF CallSet
    <3>3. r.op = "verify" /\ r.at = now /\ r.pc = "find" /\ r.code = "none" /\ r.id = id
          /\ r.stored = stored
      BY <3>1, Zenon DEF NewCall
    <3> QED BY <1>2, <2>2, <3>2, <3>3
  <2> QED BY <2>1, <2>2, Zenon
<1> HIDE DEF r
<1>7. vcall'[c] = r
  BY <1>2, <1>3
<1>8. r.stored => code = "ok" /\ r.id \in DOMAIN rows /\ r.id \in VCCalls /\ vcall'[r.id].pc = "done"
  <2>1. r.stored => code = "ok" /\ r.id \in DOMAIN rows
    BY <1>6, Zenon DEF stored
  <2>2. r.id \in DOMAIN rows => Over(r.id) /\ r.id # c
    BY <1>4, RowFacts DEF Over
  <2>3. r.id \in DOMAIN rows => r.id \in VCCalls /\ vcall'[r.id] = vcall[r.id] /\ vcall[r.id].pc = "done"
    BY <1>2, <1>3, <2>2 DEF Over
  <2> QED BY <2>1, <2>3, Zenon
<1>9. CallOf(c)'
  BY <1>1, <1>3, <1>4, <1>6, <1>7, <1>8, Zenon DEF CallOf, Over
<1> QED BY <1>2, <1>3, <1>6, <1>9, OneCall, Zenon

\* Verify keeps the invariant.
LEMMA VerifyStep ==
  ASSUME WorldInv, NEW c \in VCCalls, Verify(c)
  PROVE  WorldInv' /\ RowsLast
<1>1. vcall[c].pc = "find" /\ UNCHANGED <<now, regulated, backend, users, consent, rows>>
  BY Zenon DEF Verify
<1>2. /\ vcall \in [VCCalls -> CallSet] /\ vcall[c] \in CallSet /\ CallOf(c)
      /\ tracked \subseteq {"vc_issued", "vc_verified"} \X Users
  BY Zenon DEF WorldInv, WorldTypes
<1>3. PICK id \in VCCalls :
        /\ id = vcall[c].id
        /\ vcall[c].op = "verify" /\ c \notin DOMAIN rows /\ vcall[c].at <= now
        /\ vcall[c].stored => Over(id) /\ (vcall[id].user \in users => id \in DOMAIN rows)
  BY <1>1, <1>2, Zenon DEF CallOf
<1>4. FindByID(id) = IF id \in DOMAIN rows THEN {Saved(id)} ELSE {}
  BY <1>3, FoundById, SMTT(20)
<1>5. id \in DOMAIN rows => Saved(id) \in Creds /\ Saved(id).subject \in Users /\ Over(id)
  <2>1. id \in DOMAIN rows => /\ vcall[id].user \in Users /\ vcall[id].at \in 0..MaxTime /\ Over(id)
    BY <1>3, RowFacts, Zenon DEF Grounds, Over
  <2>2. id \in DOMAIN rows => Stamp(vcall[id].at) \in 0..MaxTime
    BY <2>1, StampFacts
  <2> QED BY <1>3, <2>1, <2>2, Zenon DEF Saved, Creds
<1>6. NoCredential \in Creds /\ {"ok", "not_found", "internal"} \subseteq Codes
  BY Zenon DEF Creds, Codes
<1>7. \/ /\ id \in DOMAIN rows /\ Return(c, "ok", Saved(id))
         /\ tracked' = tracked \cup {<<"vc_verified", Saved(id).subject>>}
      \/ id \notin DOMAIN rows /\ Return(c, "not_found", NoCredential) /\ UNCHANGED tracked
      \/ Return(c, "internal", NoCredential) /\ UNCHANGED tracked
  BY <1>3, <1>4, Zenon DEF Verify, emitVerifyAudit
<1>8. tracked' \subseteq {"vc_issued", "vc_verified"} \X Users
  BY <1>2, <1>5, <1>7, SMTT(20)
<1>9. PICK r \in CallSet :
        /\ vcall' = [vcall EXCEPT ![c] = r] /\ vcall'[c] = r
        /\ r.pc = "done" /\ r.op = "verify" /\ r.at = vcall[c].at
        /\ r.id = id /\ r.stored = vcall[c].stored
        /\ \/ r.code = "ok" /\ r.cred = Saved(id) /\ id \in DOMAIN rows
           \/ r.code = "not_found" /\ id \notin DOMAIN rows
           \/ r.code = "internal"
  <2>1. CASE id \in DOMAIN rows /\ Return(c, "ok", Saved(id))
    BY <1>3, <1>5, <1>6, <2>1, Returned
  <2>2. CASE id \notin DOMAIN rows /\ Return(c, "not_found", NoCredential)
    BY <1>3, <1>6, <2>2, Returned
  <2>3. CASE Return(c, "internal", NoCredential)
    BY <1>3, <1>6, <2>3, Returned
  <2> QED BY <1>7, <2>1, <2>2, <2>3, SMTT(20)
<1>10. Over(id) => Over(id)' /\ vcall'[id] = vcall[id] /\ Saved(id)' = Saved(id)
  <2>1. Over(id) => id # c
    BY <1>1, Zenon DEF Over
  <2>2. Over(id) => vcall'[id] = vcall[id]
    BY <1>2, <1>3, <1>9, <2>1
  <2> QED BY <1>1, <2>2, Zenon DEF Over, Saved, Stamp, ClaimsOf
<1>11. /\ r.stored => Over(id)' /\ (vcall'[id].user \in users' => id \in DOMAIN rows')
       /\ r.code = "ok" => Over(id)' /\ r.cred = Saved(id)'
       /\ r.stored /\ r.code = "not_found" => vcall'[id].user \notin users'
  <2>1. r.stored => Over(id) /\ (vcall[id].user \in users => id \in DOMAIN rows)
    BY <1>3, <1>9, Zenon
  <2>2. r.code = "ok" => Over(id) /\ r.cred = Saved(id)
    BY <1>5, <1>9, Zenon
  <2>3. r.code = "not_found" => id \notin DOMAIN rows
    BY <1>9, Zenon
  <2> QED BY <1>1, <1>10, <2>1, <2>2, <2>3, Zenon
<1>12. CallOf(c)'
  BY <1>1, <1>3, <1>9, <1>11, Zenon DEF CallOf
<1> QED BY <1>1, <1>8, <1>9, <1>12, OneCall, Zenon

\* A step of a call.
LEMMA CallStep ==
  ASSUME WorldInv, NEW c \in VCCalls, VCStep(c)
  PROVE  WorldInv' /\ RowsLast /\ UNCHANGED <<now, regulated, consent>>
<1>1. WorldInv' /\ RowsLast
  BY HandleIssueStep, RequireConsentStep, FetchStep, IssueStep, HandleVerifyStep, VerifyStep, Zenon
     DEF VCStep
<1>2. UNCHANGED <<now, regulated, consent>>
  BY Zenon DEF VCStep, HandleIssue, requireVCIssuanceConsent, fetchCitizenRecord, Issue, HandleVerify, Verify
<1> QED BY <1>1, <1>2

\* A step that leaves calls and store alone and grants nothing.
LEMMA CallsAlone ==
  ASSUME WorldInv, UNCHANGED <<regulated, backend, users, rows, vcall, tracked>>,
         now' \in 0..MaxTime, now <= now', consent' \subseteq consent
  PROVE  WorldInv' /\ RowsLast
<1>1. RowsLast
  BY Zenon DEF RowsLast
<1>2. CallSet' = CallSet
  BY Zenon DEF CallSet, Creds, ClaimsOf
<1>3. WorldTypes'
  BY <1>2, Zenon DEF WorldInv, WorldTypes
<1>4. ASSUME NEW c \in VCCalls
      PROVE  CallOf(c)'
  <2>1. vcall'[c] = vcall[c] /\ UNCHANGED <<regulated, backend>> /\ now' \in Int
        /\ (c \in DOMAIN rows' =>
              c \in DOMAIN rows /\ rows'[c] = rows[c] /\ vcall[c].user \in users')
    BY RowFacts
  <2>2. vcall[c].pc = "consent" /\ <<vcall[c].user, VCIssuance>> \in consent'
          => <<vcall[c].user, VCIssuance>> \in consent \/ vcall[c].held
    OBVIOUS
  <2> QED BY <1>1, <2>1, <2>2, CallFrame
<1>5. HasLatest'
  BY DEF WorldInv, HasLatest
<1> QED BY <1>1, <1>3, <1>4, <1>5, Zenon DEF WorldInv

\* Revoke keeps the invariant.
LEMMA RevokeStep ==
  ASSUME WorldInv, NEW user, NEW purpose, VCRevoke(user, purpose)
  PROVE  WorldInv' /\ RowsLast
<1>1. UNCHANGED <<regulated, backend, users, rows, vcall, tracked>> /\ now' = now /\ consent' \subseteq consent
  BY Zenon DEF VCRevoke
<1>2. now' \in 0..MaxTime /\ now <= now'
  BY <1>1 DEF WorldInv, WorldTypes
<1> QED BY <1>1, <1>2, CallsAlone

\* With a user go all the rows that name them, and no other.
LEMMA DeleteUserStep ==
  ASSUME WorldInv, NEW user \in Users, DeleteUser(user)
  PROVE  WorldInv' /\ RowsLast /\ UNCHANGED <<now, regulated>> /\ consent' \subseteq consent
<1>1. /\ UNCHANGED <<now, regulated, backend, vcall, tracked>>
      /\ users' = users \ {user} /\ consent' \subseteq consent
      /\ rows' = [i \in {j \in DOMAIN rows : rows[j].cred.subject # user} |-> rows[i]]
  BY Zenon DEF DeleteUser
<1>2. /\ \A i : i \in DOMAIN rows' <=> i \in DOMAIN rows /\ rows[i].cred.subject # user
      /\ \A i \in DOMAIN rows' : rows'[i] = rows[i]
  BY <1>1
<1>3. RowsLast
  BY <1>1, <1>2 DEF RowsLast
<1>4. CallSet' = CallSet
  BY <1>1, Zenon DEF CallSet, Creds, ClaimsOf
<1>5. now' \in 0..MaxTime /\ now' \in Int /\ now <= now'
  BY <1>1 DEF WorldInv, WorldTypes
<1>6. WorldTypes'
  <2>1. users' \subseteq Users /\ consent' \subseteq Users \X Purposes /\ DOMAIN rows' \subseteq VCCalls
    BY <1>1, <1>2, Zenon DEF WorldInv, WorldTypes
  <2> QED BY <1>1, <1>4, <2>1, Zenon DEF WorldInv, WorldTypes
<1>7. ASSUME NEW c \in VCCalls
      PROVE  CallOf(c)'
  <2>1. vcall'[c] = vcall[c] /\ UNCHANGED <<regulated, backend>>
    BY <1>1
  <2>2. c \in DOMAIN rows' => c \in DOMAIN rows /\ rows'[c] = rows[c] /\ vcall[c].user \in users'
    BY <1>1, <1>2, RowFacts
  <2>3. vcall[c].pc = "consent" /\ <<vcall[c].user, VCIssuance>> \in consent'
          => <<vcall[c].user, VCIssuance>> \in consent \/ vcall[c].held
    BY <1>1, Zenon
  <2> QED BY <1>3, <1>5, <2>1, <2>2, <2>3, CallFrame
<1>8. HasLatest'
  <2>1. HasLatest
    BY Zenon DEF WorldInv
  <2> QED BY <1>2, <2>1 DEF HasLatest
<1> QED BY <1>1, <1>3, <1>6, <1>7, <1>8, Zenon DEF WorldInv

\* Tick keeps the invariant.
LEMMA TickStep ==
  ASSUME WorldInv, VCTick
  PROVE  WorldInv' /\ RowsLast
<1>1. UNCHANGED <<regulated, backend, users, rows, vcall, tracked>> /\ consent' \subseteq consent
  BY Zenon DEF VCTick
<1>2. now' \in 0..MaxTime /\ now <= now'
  BY CredentialAssumption DEF WorldInv, WorldTypes, VCTick
<1> QED BY <1>1, <1>2, CallsAlone

\* A grant is remembered by the calls about to check for it.
LEMMA GrantStep ==
  ASSUME WorldInv, NEW user \in Users, NEW purpose \in Purposes, VCGrant(user, purpose)
  PROVE  WorldInv' /\ RowsLast
<1>1. UNCHANGED <<now, regulated, backend, users, rows, tracked>> /\ consent' = consent \cup {<<user, purpose>>}
  BY Zenon DEF VCGrant
<1>2. vcall \in [VCCalls -> CallSet] /\ DOMAIN rows \subseteq VCCalls /\ now \in Int
  BY DEF WorldInv, WorldTypes
<1>3. \A c \in VCCalls :
        /\ vcall'[c] \in CallSet
        /\ \/ vcall'[c] = vcall[c]
           \/ vcall[c].pc = "consent" /\ vcall'[c] = [vcall[c] EXCEPT !.held = TRUE]
        /\ vcall'[c] = vcall[c] => ~(vcall[c].pc = "consent" /\ vcall[c].user = user /\ purpose = VCIssuance)
                                   \/ vcall[c].held
  <2> SUFFICES ASSUME NEW c \in VCCalls
               PROVE  /\ vcall'[c] \in CallSet
                      /\ \/ vcall'[c] = vcall[c]
                         \/ vcall[c].pc = "consent" /\ vcall'[c] = [vcall[c] EXCEPT !.held = TRUE]
                      /\ vcall'[c] = vcall[c] =>
                           ~(vcall[c].pc = "consent" /\ vcall[c].user = user /\ purpose = VCIssuance)
                             \/ vcall[c].held
    OBVIOUS
  <2>1. vcall[c] \in CallSet /\ [vcall[c] EXCEPT !.held = TRUE] \in CallSet
        /\ [vcall[c] EXCEPT !.held = TRUE].held
    BY <1>2, Zenon DEF CallSet
  <2>2. vcall'[c] = IF vcall[c].pc = "consent" /\ vcall[c].user = user /\ purpose = VCIssuance
                      THEN [vcall[c] EXCEPT !.held = TRUE] ELSE vcall[c]
    BY Zenon DEF VCGrant
  <2> QED BY <2>1, <2>2, Zenon
<1>4. RowsLast
  BY <1>1, <1>3, Zenon DEF RowsLast
<1>5. WorldTypes'
  <2>1. CallSet' = CallSet
    BY <1>1, Zenon DEF CallSet, Creds, ClaimsOf
  <2>2. vcall' \in [VCCalls -> CallSet]
    BY <1>3, Zenon DEF VCGrant
  <2> QED BY <1>1, <2>1, <2>2 DEF WorldInv, WorldTypes
<1>6. ASSUME NEW c \in VCCalls
      PROVE  CallOf(c)'
  <2>1. CASE vcall'[c] = vcall[c]
    <3>1. UNCHANGED <<regulated, backend>> /\ now' \in Int /\ now <= now'
          /\ (c \in DOMAIN rows' =>
                c \in DOMAIN rows /\ rows'[c] = rows[c] /\ vcall[c].user \in users')
      BY <1>1, <1>2, RowFacts
    <3>2. vcall[c].pc = "consent" /\ <<vcall[c].user, VCIssuance>> \in consent'
            => <<vcall[c].user, VCIssuance>> \in consent \/ vcall[c].held
      BY <1>1, <1>3, <2>1, Zenon
    <3> QED BY <1>4, <2>1, <3>1, <3>2, CallFrame
  <2>2. CASE vcall[c].pc = "consent" /\ vcall'[c] = [vcall[c] EXCEPT !.held = TRUE]
    <3>1. CallOf(c) /\ vcall[c] \in CallSet
      BY <1>2, Zenon DEF WorldInv
    <3>2. vcall'[c].pc = "consent" /\ vcall'[c].held /\ vcall'[c].op = vcall[c].op
          /\ vcall'[c].user = vcall[c].user /\ vcall'[c].at = vcall[c].at
          /\ vcall'[c].code = vcall[c].code
      BY <2>2, <3>1, Zenon DEF CallSet
    <3>3. vcall[c].op = "issue" /\ vcall[c].user \in Users /\ vcall[c].at <= now
          /\ vcall[c].code = "none" /\ c \notin DOMAIN rows
      BY <2>2, <3>1, Zenon DEF CallOf
    <3> QED BY <1>1, <3>2, <3>3, Zenon DEF CallOf
  <2> QED BY <1>3, <2>1, <2>2
<1>7. HasLatest'
  BY <1>1 DEF WorldInv, HasLatest
<1> QED BY <1>4, <1>5, <1>6, <1>7, Zenon DEF WorldInv
-----------------------------------------------------------------------------
(* The rules.                                                              *)

Listed(ev) == ~ev.sanctions.nil /\ ev.sanctions.listed
ValidCitizen(ev) == ~ev.citizen.nil /\ ev.citizen.record.valid
Adult(ev, at) ==
  ~ev.citizen.nil /\ ev.citizen.record.dob.parses /\ at >= ev.citizen.record.dob.adultAt
Credentialed(ev) == ~ev.credential.nil /\ ev.credential.presence.exists

\* What the service computes from the evidence of an evaluation.
ResultOf(purpose, ev, at) ==
  LET derived == deriveIdentity(ev, at)
      outcome == EvaluateDecision(purpose, buildInput(ev, derived))
  IN  BuildResult(purpose, outcome, ev, derived)

\* What the record of the gathered evidence has in its fields.
LEMMA EvidenceFacts ==
  ASSUME NEW ev \in EvidenceSet
  PROVE  /\ ev.sanctions.nil \in BOOLEAN /\ ev.sanctions.listed \in BOOLEAN
         /\ ev.citizen.nil \in BOOLEAN /\ ev.citizen.record \in Citizens
         /\ ev.citizen.record.valid \in BOOLEAN /\ ev.citizen.record.dob.parses \in BOOLEAN
         /\ ev.credential.nil \in BOOLEAN /\ ev.credential.presence.exists \in BOOLEAN
         /\ ev.credential.nil => ~ev.credential.presence.exists
         /\ ev.credential.presence.exists => ev.credential.presence.claims = ClaimsOf
<1>1. /\ ev.sanctions \in [nil: BOOLEAN, listed: BOOLEAN]
      /\ ev.citizen \in [nil: BOOLEAN, record: Citizens]
      /\ ev.credential \in {Nothing.credential} \cup [nil: {FALSE}, presence: PresenceSet]
  BY Zenon DEF EvidenceSet
<1>2. /\ ev.citizen.record \in Citizens /\ ev.citizen.record.valid \in BOOLEAN
      /\ ev.citizen.record.dob.parses \in BOOLEAN
  BY <1>1, Zenon DEF Citizens, BirthDates
<1>3. /\ ev.credential.nil \in BOOLEAN /\ ev.credential.presence.exists \in BOOLEAN
      /\ ev.credential.nil => ~ev.credential.presence.exists
      /\ ev.credential.presence.exists => ev.credential.presence.claims = ClaimsOf
  <2>1. CASE ev.credential = Nothing.credential
    <3>1. Nothing.credential.nil = TRUE /\ Nothing.credential.presence = Absent /\ Absent.exists = FALSE
      BY Zenon DEF Nothing, Absent
    <3> QED BY <2>1, <3>1, Zenon
  <2>2. CASE ev.credential \in [nil: {FALSE}, presence: PresenceSet]
    <3>1. ev.credential.nil = FALSE /\ ev.credential.presence \in PresenceSet
      BY <2>2, Zenon
    <3>2. CASE ev.credential.presence = Absent
      <4>1. Absent.exists = FALSE
        BY Zenon DEF Absent
      <4> QED BY <3>1, <3>2, <4>1, Zenon
    <3>3. CASE ev.credential.presence = [exists |-> TRUE, claims |-> ClaimsOf]
      <4>1. ev.credential.presence.exists = TRUE /\ ev.credential.presence.claims = ClaimsOf
        BY <3>3
      <4> QED BY <3>1, <4>1, Zenon
    <3> QED BY <3>1, <3>2, <3>3, Zenon DEF PresenceSet
  <2> QED BY <1>1, <2>1, <2>2, Zenon
<1>4. ev.sanctions.nil \in BOOLEAN /\ ev.sanctions.listed \in BOOLEAN /\ ev.citizen.nil \in BOOLEAN
  BY <1>1
<1> QED BY <1>2, <1>3, <1>4

\* The age rule and its result, in terms of the evidence.
LEMMA AgeRule ==
  ASSUME regulated \in BOOLEAN, NEW ev \in EvidenceSet, NEW at
  PROVE  LET r == ResultOf(AgeVerification, ev, at) IN
         /\ r.listed = Listed(ev)
         /\ r.shown = [citizenValid |-> ValidCitizen(ev), isOver18 |-> Adult(ev, at),
                       hasCredential |-> Credentialed(ev)]
         /\ Listed(ev) => r.status = "fail" /\ r.reason = "sanctioned"
         /\ ~Listed(ev) /\ ~ValidCitizen(ev) => r.status = "fail" /\ r.reason = "invalid_citizen"
         /\ ~Listed(ev) /\ ValidCitizen(ev) /\ ~Adult(ev, at)
              => r.status = "fail" /\ r.reason = "underage"
         /\ ~Listed(ev) /\ ValidCitizen(ev) /\ Adult(ev, at) /\ Credentialed(ev)
              => r.status = "pass" /\ r.reason = "all_checks_passed"
         /\ ~Listed(ev) /\ ValidCitizen(ev) /\ Adult(ev, at) /\ ~Credentialed(ev)
              => r.status = "pass_with_conditions" /\ r.reason = "missing_credential"
<1> DEFINE derived == deriveIdentity(ev, at)
           input == buildInput(ev, derived)
           outcome == evaluateAgeVerification(input)
           r == ResultOf(AgeVerification, ev, at)
<1>1. derived = [citizenValid |-> ValidCitizen(ev), isOver18 |-> Adult(ev, at)]
  BY Zenon DEF deriveIdentity, deriveIsOver18, IsOver18, ValidCitizen, Adult
<1>2. input.identity = derived /\ input.listed = Listed(ev)
  BY Zenon DEF buildInput, Listed
<1>3. (input.credential # {}) <=> Credentialed(ev)
  BY EvidenceFacts DEF ClaimsOf, Credentialed, buildInput
<1>4. r = [status |-> outcome, listed |-> Listed(ev),
           reason |-> reasonForAgeVerification(outcome, ev, derived),
           shown |-> [citizenValid |-> ValidCitizen(ev), isOver18 |-> derived.isOver18,
                      hasCredential |-> Credentialed(ev)]]
  BY Zenon DEF ResultOf, EvaluateDecision, BuildResult, buildAgeVerificationResult,
     setAgeVerificationEvidence, Listed, ValidCitizen, Credentialed
<1>5. /\ Listed(ev) => outcome = "fail"
      /\ ~Listed(ev) /\ ~ValidCitizen(ev) => outcome = "fail"
      /\ ~Listed(ev) /\ ValidCitizen(ev) /\ ~Adult(ev, at) => outcome = "fail"
      /\ ~Listed(ev) /\ ValidCitizen(ev) /\ Adult(ev, at) /\ Credentialed(ev) => outcome = "pass"
      /\ ~Listed(ev) /\ ValidCitizen(ev) /\ Adult(ev, at) /\ ~Credentialed(ev)
           => outcome = "pass_with_conditions"
  <2> HIDE DEF input, derived
  <2>1. input.identity.citizenValid = ValidCitizen(ev) /\ input.identity.isOver18 = Adult(ev, at)
    BY <1>1, <1>2, SMTT(20)
  <2>2. CASE Listed(ev)
    BY <1>2, <2>2, Zenon DEF evaluateAgeVerification
  <2>3. CASE ~Listed(ev) /\ ~ValidCitizen(ev)
    BY <1>2, <2>1, <2>3, Zenon DEF evaluateAgeVerification
  <2>4. CASE ~Listed(ev) /\ ValidCitizen(ev) /\ ~Adult(ev, at)
    BY <1>2, <2>1, <2>4, Zenon DEF evaluateAgeVerification
  <2>5. CASE ~Listed(ev) /\ ValidCitizen(ev) /\ Adult(ev, at) /\ Credentialed(ev)
    BY <1>2, <1>3, <2>1, <2>5, Zenon DEF evaluateAgeVerification
  <2>6. CASE ~Listed(ev) /\ ValidCitizen(ev) /\ Adult(ev, at) /\ ~Credentialed(ev)
    BY <1>2, <1>3, <2>1, <2>6, Zenon DEF evaluateAgeVerification
  <2> QED BY <2>2, <2>3, <2>4, <2>5, <2>6, SMTT(20)
<1>6. derived.isOver18 = Adult(ev, at)
  BY <1>1, SMTT(20)
<1> HIDE DEF outcome, derived, r
<1>7. /\ outcome = "pass" => reasonForAgeVerification(outcome, ev, derived) = "all_checks_passed"
      /\ outcome = "pass_with_conditions"
           => reasonForAgeVerification(outcome, ev, derived) = "missing_credential"
      /\ outcome = "fail" /\ Listed(ev) => reasonForAgeVerification(outcome, ev, derived) = "sanctioned"
      /\ outcome = "fail" /\ ~Listed(ev) /\ ~ValidCitizen(ev)
           => reasonForAgeVerification(outcome, ev, derived) = "invalid_citizen"
      /\ outcome = "fail" /\ ~Listed(ev) /\ ValidCitizen(ev) /\ ~Adult(ev, at)
           => reasonForAgeVerification(outcome, ev, derived) = "underage"
  BY <1>6, Zenon DEF reasonForAgeVerification, Listed, ValidCitizen
<1>8. /\ r.listed = Listed(ev) /\ r.status = outcome
      /\ r.reason = reasonForAgeVerification(outcome, ev, derived)
      /\ r.shown = [citizenValid |-> ValidCitizen(ev), isOver18 |-> Adult(ev, at),
                    hasCredential |-> Credentialed(ev)]
  BY <1>4, <1>6
<1> QED BY <1>5, <1>7, <1>8, Zenon DEF r

\* The same, read from the status.
LEMMA AgeStatus ==
  ASSUME regulated \in BOOLEAN, NEW ev \in EvidenceSet, NEW at, NEW status,
         status = ResultOf(AgeVerification, ev, at).status
  PROVE  /\ status # "fail" => ~Listed(ev) /\ ValidCitizen(ev) /\ Adult(ev, at)
         /\ status = "pass" => Credentialed(ev)
         /\ status = "pass_with_conditions" => ~Credentialed(ev)
         /\ status \in Statuses
<1>1. /\ Listed(ev) => status = "fail"
      /\ ~Listed(ev) /\ ~ValidCitizen(ev) => status = "fail"
      /\ ~Listed(ev) /\ ValidCitizen(ev) /\ ~Adult(ev, at) => status = "fail"
      /\ ~Listed(ev) /\ ValidCitizen(ev) /\ Adult(ev, at) /\ Credentialed(ev) => status = "pass"
      /\ ~Listed(ev) /\ ValidCitizen(ev) /\ Adult(ev, at) /\ ~Credentialed(ev)
           => status = "pass_with_conditions"
  BY AgeRule, Zenon
<1> QED BY <1>1, Zenon DEF Statuses

\* The screening rule and its result.
LEMMA ScreeningRule ==
  ASSUME NEW ev \in EvidenceSet, NEW at
  PROVE  LET r == ResultOf(SanctionsScreening, ev, at) IN
         /\ r = [status |-> r.status, listed |-> Listed(ev), reason |-> r.reason, shown |-> NotShown]
         /\ Listed(ev) => r.status = "fail" /\ r.reason = "sanctioned"
         /\ ~Listed(ev) => r.status = "pass" /\ r.reason = "not_sanctioned"
<1> DEFINE r == ResultOf(SanctionsScreening, ev, at)
           outcome == IF Listed(ev) THEN "fail" ELSE "pass"
<1>1. r = [status |-> outcome, listed |-> Listed(ev), reason |-> buildSanctionsResult(outcome),
           shown |-> NotShown]
  BY Zenon DEF SanctionsScreening, AgeVerification, ResultOf, EvaluateDecision,
     evaluateSanctionsScreening, BuildResult, buildInput, Listed
<1> QED BY <1>1 DEF buildSanctionsResult
-----------------------------------------------------------------------------
(* Steps of the evaluations.                                               *)

\* What is owed is kept, or its user goes.
LEMMA HonouredLasts ==
  ASSUME RowsLast, NEW x, Honoured(x, users, rows)
  PROVE  Honoured(x, users', rows')
BY Zenon DEF RowsLast, Honoured

\* An evaluation that a step leaves alone keeps what is known of it.
LEMMA EvalFrame ==
  ASSUME WorldInv, EvalInv, NEW e \in Evals, eval'[e] = eval[e],
         \A status \in Statuses : <<e, status>> \in trail' <=> <<e, status>> \in trail,
         RowsLast, now' \in Int, now <= now',
         eval[e].pc \in {"consent", "launch"} => now' + EvidenceTimeout <= MaxTime,
         eval[e].pc = "consent" /\ <<eval[e].user, Decision>> \in consent'
           => <<eval[e].user, Decision>> \in consent \/ eval[e].held
  PROVE  EvalOf(e)'
<1>1. EvalOf(e) /\ eval[e] \in EvalSet /\ now \in Int /\ trail \subseteq Evals \X Statuses
  BY SMTT(20) DEF EvalInv, WorldInv, WorldTypes
<1>2. eval[e].at \in Int
  BY <1>1, SMTT(20) DEF EvalSet
<1>3. Course(eval[e])
  BY <1>1, Zenon DEF EvalOf
<1>4. (eval[e].at <= now)'
  BY <1>1, <1>2, SMTT(20) DEF EvalOf
<1>5. eval[e].pc = "consent" /\ <<eval[e].user, Decision>> \in consent' => eval[e].held
  BY <1>1, Zenon DEF EvalOf
<1>6. Honoured(eval[e], users', rows')
  BY <1>1, HonouredLasts, Zenon DEF EvalOf
<1>7. eval[e].code = "ok" => <<e, eval[e].result.status>> \in trail'
  BY <1>1, Zenon DEF EvalOf
<1>8. \A status \in Statuses :
        <<e, status>> \in trail' => Emitted(eval[e]) /\ eval[e].result.status = status
  BY <1>1, Zenon DEF EvalOf
<1> QED BY <1>3, <1>4, <1>5, <1>6, <1>7, <1>8, Zenon DEF EvalOf

\* A step that leaves the evaluations alone.
LEMMA EvalsAlone ==
  ASSUME WorldInv, EvalInv, UNCHANGED <<eval, trail, regulated>>, RowsLast,
         now' \in Int, now <= now', consent' \subseteq consent,
         \A e \in Evals : eval[e].pc \in {"consent", "launch"} => now' + EvidenceTimeout <= MaxTime
  PROVE  EvalInv'
<1>1. EvalSet' = EvalSet
  BY Zenon DEF EvalSet, EvidenceSet, PresenceSet, ClaimsOf
<1>2. ASSUME NEW e \in Evals
      PROVE  EvalOf(e)'
  BY EvalFrame
<1> QED BY <1>1, <1>2, Zenon DEF EvalInv

\* A step of one evaluation: the world stands still.
LEMMA OneEval ==
  ASSUME WorldInv, EvalInv, NEW e \in Evals, NEW r \in EvalSet, eval' = [eval EXCEPT ![e] = r],
         UNCHANGED <<now, regulated, backend, users, consent, rows, vcall, tracked>>,
         trail' \subseteq Evals \X Statuses,
         \A f \in Evals \ {e} : \A status \in Statuses :
           <<f, status>> \in trail' <=> <<f, status>> \in trail,
         EvalOf(e)'
  PROVE  WorldInv' /\ EvalInv'
<1>1. now' \in 0..MaxTime /\ now <= now' /\ consent' \subseteq consent
  BY DEF WorldInv, WorldTypes
<1>2. WorldInv' /\ RowsLast
  BY <1>1, CallsAlone
<1>3. eval \in [Evals -> EvalSet]
  BY Zenon DEF EvalInv
<1>4. EvalSet' = EvalSet
  BY Zenon DEF EvalSet, EvidenceSet, PresenceSet, ClaimsOf
<1>5. ASSUME NEW f \in Evals
      PROVE  EvalOf(f)'
  <2>1. CASE f = e
    BY <2>1
  <2>2. CASE f # e
    <3>1. eval'[f] = eval[f] /\ \A status \in Statuses : <<f, status>> \in trail' <=> <<f, status>> \in trail
      BY <1>3, <2>2, SMTT(20)
    <3>2. eval[f].pc \in {"consent", "launch"} => now' + EvidenceTimeout <= MaxTime
      BY Zenon DEF EvalInv, EvalOf
    <3>3. eval[f].pc = "consent" /\ <<eval[f].user, Decision>> \in consent'
            => <<eval[f].user, Decision>> \in consent \/ eval[f].held
      BY <1>1
    <3>4. now' \in Int
      BY <1>1
    <3> QED BY <1>1, <1>2, <3>1, <3>2, <3>3, <3>4, EvalFrame
  <2> QED BY <2>1, <2>2
<1>6. eval' \in [Evals -> EvalSet]
  BY <1>3, SMTT(20)
<1> QED BY <1>2, <1>4, <1>5, <1>6, Zenon DEF EvalInv

\* The decision depends on the evidence, not on where the evaluation stands.
LEMMA StillDecided ==
  ASSUME NEW x, NEW y, Decided(x), y.err = x.err, y.running = x.running, y.purpose = x.purpose,
         y.evidence = x.evidence, y.at = x.at, y.result = x.result, x.failed \subseteq y.failed
  PROVE  Decided(y)
BY DEF Decided, Gathered

\* An evaluation that fails, and how it differs then.
LEMMA Failed ==
  ASSUME EvalInv, NEW e \in Evals, NEW code \in Codes, NEW why \in {"consent", "audit"},
         Fail(e, code, why)
  PROVE  \E r \in EvalSet :
           /\ eval' = [eval EXCEPT ![e] = r] /\ eval'[e] = r
           /\ r.pc = "done" /\ r.code = code /\ r.failed = eval[e].failed \cup {why}
           /\ r.user = eval[e].user /\ r.purpose = eval[e].purpose /\ r.at = eval[e].at
           /\ r.running = eval[e].running /\ r.err = eval[e].err
           /\ r.evidence = eval[e].evidence /\ r.result = eval[e].result
           /\ r.held = eval[e].held /\ r.owed = eval[e].owed
<1> DEFINE r == [eval[e] EXCEPT !.pc = "done", !.code = code, !.failed = @ \cup {why}]
<1>1. eval \in [Evals -> EvalSet] /\ eval[e] \in EvalSet
  BY Zenon DEF EvalInv
<1>2. eval[e].failed \cup {why} \in SUBSET {"request", "consent", "registry", "credential", "audit"}
  BY <1>1, Zenon DEF EvalSet
<1>3. r \in EvalSet
  BY <1>1, <1>2, Zenon DEF EvalSet
<1>4. eval' = [eval EXCEPT ![e] = r] /\ eval'[e] = r
  BY <1>1, Zenon DEF Fail
<1>5. /\ r.pc = "done" /\ r.code = code /\ r.failed = eval[e].failed \cup {why}
      /\ r.user = eval[e].user /\ r.purpose = eval[e].purpose /\ r.at = eval[e].at
      /\ r.running = eval[e].running /\ r.err = eval[e].err
      /\ r.evidence = eval[e].evidence /\ r.result = eval[e].result
      /\ r.held = eval[e].held /\ r.owed = eval[e].owed
  BY <1>1, Zenon DEF EvalSet
<1> QED BY <1>3, <1>4, <1>5, Zenon

\* The result of an evaluation has the shape of EvaluateResult.
LEMMA ResultType ==
  ASSUME regulated \in BOOLEAN, NEW ev \in EvidenceSet, NEW at,
         NEW purpose \in {AgeVerification, SanctionsScreening}
  PROVE  ResultOf(purpose, ev, at) \in ResultSet /\ ResultOf(purpose, ev, at).status \in Statuses
<1> DEFINE r == ResultOf(purpose, ev, at)
<1>1. Listed(ev) \in BOOLEAN /\ ValidCitizen(ev) \in BOOLEAN /\ Adult(ev, at) \in BOOLEAN
      /\ Credentialed(ev) \in BOOLEAN
  BY EvidenceFacts, Zenon DEF Listed, ValidCitizen, Adult, Credentialed
<1>2. CASE purpose = AgeVerification
  <2>1. r.status \in Statuses /\ r.reason \in Reasons
    BY <1>2, AgeRule, Zenon DEF Statuses, Reasons
  <2>2. r.listed \in BOOLEAN /\ r.shown \in [citizenValid: BOOLEAN, isOver18: BOOLEAN, hasCredential: BOOLEAN]
    <3>1. r.listed = Listed(ev)
          /\ r.shown = [citizenValid |-> ValidCitizen(ev), isOver18 |-> Adult(ev, at),
                        hasCredential |-> Credentialed(ev)]
      BY <1>2, AgeRule, Zenon
    <3> HIDE DEF r
    <3> QED BY <1>1, <3>1
  <2>3. r = [status |-> r.status, listed |-> r.listed, reason |-> r.reason, shown |-> r.shown]
    BY <1>2, Zenon DEF ResultOf, BuildResult, buildAgeVerificationResult
  <2> HIDE DEF r
  <2> QED BY <2>1, <2>2, <2>3, Zenon DEF r, ResultSet
<1>3. CASE purpose = SanctionsScreening
  <2>1. r = [status |-> r.status, listed |-> Listed(ev), reason |-> r.reason, shown |-> NotShown]
        /\ r.status \in Statuses /\ r.reason \in Reasons
    BY <1>3, ScreeningRule, Zenon DEF Statuses, Reasons
  <2>2. NotShown \in [citizenValid: BOOLEAN, isOver18: BOOLEAN, hasCredential: BOOLEAN]
    BY Zenon DEF NotShown
  <2> HIDE DEF r
  <2> QED BY <1>1, <2>1, <2>2, SMTT(20) DEF r, ResultSet
<1> QED BY <1>2, <1>3, SMTT(20)

\* A decision has one of the three statuses.
LEMMA DecidedStatus ==
  ASSUME WorldInv, EvalInv, NEW e \in Evals, Decided(eval[e])
  PROVE  eval[e].result.status \in Statuses
<1>1. regulated \in BOOLEAN /\ eval[e].evidence \in EvidenceSet
  BY Zenon DEF WorldInv, WorldTypes, EvalInv, EvalSet
<1>2. /\ eval[e].purpose \in {AgeVerification, SanctionsScreening}
      /\ eval[e].result = ResultOf(eval[e].purpose, eval[e].evidence, eval[e].at)
  BY Zenon DEF Decided, ResultOf
<1> QED BY <1>1, <1>2, ResultType

\* A failure gives no answer; a record it leaves only if it is one of the audit.
LEMMA FailStep ==
  ASSUME WorldInv, EvalInv, NEW e \in Evals, eval[e].pc \in {"consent", "audit"},
         NEW code \in Codes, code # "ok", NEW why \in {"consent", "audit"}, Fail(e, code, why),
         UNCHANGED <<now, regulated, backend, users, consent, rows, vcall, tracked>>,
         \/ trail' = trail
         \/ /\ eval[e].pc = "audit" /\ code = "internal" /\ why = "audit"
            /\ trail' = trail \cup {<<e, eval[e].result.status>>}
  PROVE  WorldInv' /\ EvalInv'
<1>1. PICK r \in EvalSet :
           /\ eval' = [eval EXCEPT ![e] = r] /\ eval'[e] = r
           /\ r.pc = "done" /\ r.code = code /\ r.failed = eval[e].failed \cup {why}
           /\ r.user = eval[e].user /\ r.purpose = eval[e].purpose /\ r.at = eval[e].at
           /\ r.running = eval[e].running /\ r.err = eval[e].err
           /\ r.evidence = eval[e].evidence /\ r.result = eval[e].result
           /\ r.held = eval[e].held /\ r.owed = eval[e].owed
  BY Failed, SMTT(20)
<1>2. EvalOf(e) /\ Course(eval[e]) /\ trail \subseteq Evals \X Statuses
  BY Zenon DEF EvalInv, EvalOf
<1>3. eval[e].running = {} /\ eval[e].code = "none"
  BY <1>2, Zenon DEF Course
<1>4. r.result = NoResult \/ Decided(r)
  <2>1. eval[e].result = NoResult \/ Decided(eval[e])
    BY <1>2, Zenon DEF Course
  <2>2. Decided(eval[e]) => Decided(r)
    BY <1>1, StillDecided
  <2> QED BY <1>1, <2>1, <2>2, SMTT(20)
<1>5. r.err # "none" => "registry" \in r.failed
  BY <1>1, <1>2, Zenon DEF Course
<1>6. Honoured(r, users', rows')
  BY <1>1, <1>2, Zenon DEF EvalOf, Honoured
<1>7. Course(r)
  BY <1>1, <1>3, <1>4, <1>5, Zenon DEF Course
<1>8. /\ trail' \subseteq Evals \X Statuses
      /\ \A f \in Evals \ {e} : \A status \in Statuses :
           <<f, status>> \in trail' <=> <<f, status>> \in trail
      /\ \A status \in Statuses : <<e, status>> \in trail' => Emitted(r) /\ r.result.status = status
  <2>1. \A status \in Statuses : <<e, status>> \notin trail
    BY <1>2, <1>3, Zenon DEF EvalOf, Emitted
  <2>2. CASE trail' = trail
    BY <1>2, <2>1, <2>2, Zenon
  <2>3. CASE /\ eval[e].pc = "audit" /\ code = "internal" /\ why = "audit"
             /\ trail' = trail \cup {<<e, eval[e].result.status>>}
    <3>1. eval[e].result.status \in Statuses
      BY <1>2, <2>3, DecidedStatus, Zenon DEF Course
    <3>2. Emitted(r)
      BY <1>1, <2>3, Zenon DEF Emitted
    <3> QED BY <1>1, <1>2, <2>1, <2>3, <3>1, <3>2
  <2> QED BY <2>2, <2>3
<1>9. EvalOf(e)'
  BY <1>1, <1>2, <1>6, <1>7, <1>8, Zenon DEF EvalOf
<1> QED BY <1>1, <1>8, <1>9, OneEval, Zenon

\* The record of an evaluation that begins has its type.
LEMMA NewEvalType == NewEval \in EvalSet
<1>1. NoCitizen \in Citizens
  BY CredentialAssumption, Zenon DEF NoCitizen, Citizens, BirthDates
<1>2. Nothing \in EvidenceSet
  BY <1>1, Zenon DEF Nothing, EvidenceSet
<1>3. NoResult \in ResultSet
  BY Zenon DEF NoResult, NotShown, ResultSet, Reasons
<1>4. 0 \in 0..MaxTime
  BY CredentialAssumption
<1>5. "none" \in Codes
  BY Zenon DEF Codes
<1> QED BY <1>2, <1>3, <1>4, <1>5, Zenon DEF NewEval, EvalSet

\* HandleEvaluate keeps the invariant.
LEMMA HandleEvaluateStep ==
  ASSUME WorldInv, EvalInv, NEW e \in Evals, NEW user \in Users \cup {NoUser},
         NEW body \in DecisionBodies, HandleEvaluate(e, user, body)
  PROVE  WorldInv' /\ EvalInv'
<1> DEFINE code == IF user = NoUser THEN "unauthorized" ELSE EvaluateValidate(body)
           held == <<user, Decision>> \in consent
           owed == \E c \in VCCalls : vcall[c].op = "issue" /\ vcall[c].code = "ok"
                                      /\ vcall[c].cred.subject = user
           r == IF code # "ok"
                  THEN [NewEval EXCEPT !.pc = "done", !.code = code, !.failed = {"request"}]
                  ELSE [NewEval EXCEPT !.pc = "consent", !.user = user, !.purpose = body.purpose,
                          !.at = now, !.held = held, !.owed = owed]
<1>1. /\ eval[e].pc = "new" /\ now + EvidenceTimeout <= MaxTime
      /\ eval' = [eval EXCEPT ![e] = r]
      /\ UNCHANGED <<now, regulated, backend, users, consent, rows, vcall, tracked, trail>>
  BY Zenon DEF HandleEvaluate
<1>2. /\ eval \in [Evals -> EvalSet] /\ EvalOf(e) /\ trail \subseteq Evals \X Statuses
      /\ now \in 0..MaxTime
  BY Zenon DEF EvalInv, WorldInv, WorldTypes
<1>3. \A status \in Statuses : <<e, status>> \notin trail
  BY <1>1, <1>2, Zenon DEF EvalOf, Course, Emitted
<1>4. /\ code \in Codes
      /\ code = "ok" => user \in Users /\ body.purpose \in {AgeVerification, SanctionsScreening}
  BY Zenon DEF Codes, EvaluateValidate, ParsePurpose
<1>5. owed /\ user \in users => \E c \in DOMAIN rows : rows[c].cred.subject = user
  <2> SUFFICES ASSUME NEW c \in VCCalls, vcall[c].op = "issue", vcall[c].code = "ok",
                      vcall[c].cred.subject = user, user \in users
               PROVE  \E i \in DOMAIN rows : rows[i].cred.subject = user
    BY Zenon
  <2>1. CallOf(c)
    BY Zenon DEF WorldInv
  <2>2. Built(c).subject = vcall[c].user
    BY Zenon DEF Built
  <2>3. c \in DOMAIN rows /\ vcall[c].user = user
    BY <2>1, <2>2, Zenon DEF CallOf
  <2> QED BY <2>3, RowFacts
<1>6. held \in BOOLEAN /\ owed \in BOOLEAN
  BY SMT
<1> HIDE DEF code, held, owed
<1>7. /\ r \in EvalSet
      /\ r.err = "none" /\ r.running = {} /\ r.result = NoResult /\ r.evidence = Nothing
      /\ code # "ok" => /\ r.pc = "done" /\ r.code = code /\ r.failed = {"request"}
                        /\ r.at = 0 /\ r.owed = FALSE
      /\ code = "ok" => /\ r.pc = "consent" /\ r.code = "none" /\ r.user = user
                        /\ r.purpose = body.purpose /\ r.at = now /\ r.held = held /\ r.owed = owed
  <2>1. CASE code # "ok"
    <3>1. r = [NewEval EXCEPT !.pc = "done", !.code = code, !.failed = {"request"}]
      BY <2>1
    <3> HIDE DEF r
    <3>2. r \in EvalSet
      BY <1>4, <3>1, NewEvalType, Zenon DEF EvalSet
    <3>3. /\ r.err = "none" /\ r.running = {} /\ r.result = NoResult /\ r.evidence = Nothing
          /\ r.pc = "done" /\ r.code = code /\ r.failed = {"request"} /\ r.at = 0 /\ r.owed = FALSE
      BY <3>1, Zenon DEF NewEval
    <3> QED BY <2>1, <3>2, <3>3
  <2>2. CASE code = "ok"
    <3>1. r = [NewEval EXCEPT !.pc = "consent", !.user = user, !.purpose = body.purpose,
                 !.at = now, !.held = held, !.owed = owed]
      BY <2>2
    <3> HIDE DEF r
    <3>2. r \in EvalSet
      BY <1>2, <1>4, <1>6, <2>2, <3>1, NewEvalType, Zenon DEF EvalSet
    <3>3. /\ r.err = "none" /\ r.running = {} /\ r.result = NoResult /\ r.evidence = Nothing
          /\ r.pc = "consent" /\ r.code = "none" /\ r.user = user
          /\ r.purpose = body.purpose /\ r.at = now /\ r.held = held /\ r.owed = owed
      BY <3>1, Zenon DEF NewEval
    <3> QED BY <2>2, <3>2, <3>3
  <2> QED BY <2>1, <2>2, Zenon
<1> HIDE DEF r
<1>8. eval'[e] = r
  BY <1>1, <1>2, SMTT(20)
<1>9. Course(r)
  BY <1>4, <1>7 DEF Course
<1>10. EvalOf(e)'
  <2>1. Honoured(r, users', rows')
    <3>1. Nothing.credential.nil
      BY Zenon DEF Nothing
    <3>2. r.owed => code = "ok" /\ r.user = user /\ owed
      BY <1>7, Zenon
    <3> QED BY <1>1, <1>5, <1>7, <3>1, <3>2, Zenon DEF Honoured
  <2>2. r.pc = "consent" /\ <<r.user, Decision>> \in consent' => r.held
    BY <1>1, <1>7, Zenon DEF held
  <2>3. r.at <= now
    BY <1>2, <1>7
  <2>4. r.pc \in {"consent", "launch"} => now + EvidenceTimeout <= MaxTime
    BY <1>1, SMTT(20)
  <2>5. r.code # "ok"
    BY <1>7
  <2> QED BY <1>1, <1>3, <1>8, <1>9, <2>1, <2>2, <2>3, <2>4, <2>5, Zenon DEF EvalOf
<1> QED BY <1>1, <1>2, <1>7, <1>10, OneEval, Zenon

\* The consent check lets pass only a user who has consented.
LEMMA ConsentStep ==
  ASSUME WorldInv, EvalInv, NEW e \in Evals, requireConsent(e)
  PROVE  WorldInv' /\ EvalInv'
<1>1. /\ eval[e].pc = "consent"
      /\ UNCHANGED <<now, regulated, backend, users, consent, rows, vcall, tracked, trail>>
  BY Zenon DEF requireConsent
<1>2. /\ eval \in [Evals -> EvalSet] /\ eval[e] \in EvalSet /\ EvalOf(e) /\ Course(eval[e])
      /\ trail \subseteq Evals \X Statuses
  BY Zenon DEF EvalInv, EvalOf
<1>3. CASE /\ <<eval[e].user, Decision>> \in consent
           /\ eval' = [eval EXCEPT ![e].pc = "launch"]
  <2> DEFINE r == [eval[e] EXCEPT !.pc = "launch"]
  <2>1. r \in EvalSet
    BY <1>2, Zenon DEF EvalSet
  <2>2. /\ r.pc = "launch" /\ r.code = eval[e].code /\ r.failed = eval[e].failed
        /\ r.user = eval[e].user /\ r.purpose = eval[e].purpose /\ r.at = eval[e].at
        /\ r.running = eval[e].running /\ r.err = eval[e].err
        /\ r.evidence = eval[e].evidence /\ r.result = eval[e].result
        /\ r.held = eval[e].held /\ r.owed = eval[e].owed
    BY <1>2, Zenon DEF EvalSet
  <2>3. eval' = [eval EXCEPT ![e] = r] /\ eval'[e] = r
    BY <1>2, <1>3
  <2> HIDE DEF r
  <2>4. eval[e].held
    BY <1>1, <1>2, <1>3, Zenon DEF EvalOf
  <2>5. Course(r)
    BY <1>1, <1>2, <2>2, <2>4, ZenonT(30) DEF Course
  <2>6. Honoured(r, users', rows') /\ Emitted(r) = Emitted(eval[e])
    BY <1>1, <1>2, <2>2, Zenon DEF EvalOf, Honoured, Emitted
  <2>7. EvalOf(e)'
    BY <1>1, <1>2, <2>2, <2>3, <2>5, <2>6, SMTT(20) DEF EvalOf
  <2> QED BY <1>1, <1>2, <2>1, <2>3, <2>7, OneEval, Zenon
<1>4. ASSUME NEW code \in {"missing_consent", "internal"}, Fail(e, code, "consent")
      PROVE  WorldInv' /\ EvalInv'
  BY <1>1, <1>4, FailStep, Zenon DEF Codes
<1> QED BY <1>3, <1>4, Zenon DEF requireConsent

\* Gather keeps the invariant.
LEMMA GatherStep ==
  ASSUME WorldInv, EvalInv, NEW e \in Evals, gatherEvidence(e)
  PROVE  WorldInv' /\ EvalInv'
<1>1. /\ eval[e].pc = "launch"
      /\ UNCHANGED <<now, regulated, backend, users, consent, rows, vcall, tracked, trail>>
  BY Zenon DEF gatherEvidence
<1>2. /\ eval \in [Evals -> EvalSet] /\ eval[e] \in EvalSet /\ EvalOf(e) /\ Course(eval[e])
      /\ trail \subseteq Evals \X Statuses /\ now \in 0..MaxTime
  BY Zenon DEF EvalInv, EvalOf, WorldInv, WorldTypes
<1>3. now + EvidenceTimeout \in 0..MaxTime
  BY <1>1, <1>2, CredentialAssumption, DecisionAssumption, SMTT(20) DEF EvalOf
<1> DEFINE tasks == buildEvidenceTasks(eval[e].purpose)
           r == [eval[e] EXCEPT !.pc = "gather", !.deadline = now + EvidenceTimeout, !.running = tasks]
<1>4. /\ tasks \subseteq Tasks /\ "sanctions" \in tasks
      /\ eval[e].purpose = AgeVerification => "citizen" \in tasks /\ "credential" \in tasks
  BY Zenon DEF buildEvidenceTasks, Tasks
<1>5. eval' = [eval EXCEPT ![e] = r] /\ eval'[e] = r
  BY <1>2, Zenon DEF gatherEvidence
<1> HIDE DEF tasks
<1>6. r \in EvalSet
  BY <1>2, <1>3, <1>4, Zenon DEF EvalSet
<1>7. /\ r.pc = "gather" /\ r.code = eval[e].code /\ r.failed = eval[e].failed
      /\ r.user = eval[e].user /\ r.purpose = eval[e].purpose /\ r.at = eval[e].at
      /\ r.running = tasks /\ r.err = eval[e].err
      /\ r.evidence = eval[e].evidence /\ r.result = eval[e].result
      /\ r.held = eval[e].held /\ r.owed = eval[e].owed
  BY <1>2, Zenon DEF EvalSet
<1> HIDE DEF r
<1>8. Gathered(r)
  BY <1>4, <1>7, Zenon DEF Gathered
<1>9. Course(r)
  BY <1>1, <1>2, <1>7, <1>8, Zenon DEF Course
<1>10. Honoured(r, users', rows') /\ Emitted(r) = Emitted(eval[e])
  BY <1>1, <1>2, <1>7, Zenon DEF EvalOf, Honoured, Emitted
<1>11. EvalOf(e)'
  BY <1>1, <1>2, <1>5, <1>7, <1>9, <1>10, Zenon DEF EvalOf
<1> QED BY <1>1, <1>2, <1>5, <1>6, <1>11, OneEval, Zenon

\* A lookup that ends has left its evidence, or an error, or, for the credential,
\* a note that it failed.
LEMMA LookupEnds ==
  ASSUME WorldInv, EvalInv, NEW e \in Evals, NEW task \in Tasks, task \in eval[e].running,
         NEW err \in {"none"} \cup RegistryErrors, NEW evidence \in EvidenceSet,
         NEW why \in SUBSET {"registry", "credential"},
         launchEvidenceFetch(e, task, err, evidence, why),
         err # "none" => "registry" \in why,
         err = "none" => /\ task = "sanctions" => ~evidence.sanctions.nil
                         /\ task = "citizen" => ~evidence.citizen.nil
                         /\ task = "credential" => ~evidence.credential.nil \/ "credential" \in why,
         ~eval[e].evidence.sanctions.nil => ~evidence.sanctions.nil,
         ~eval[e].evidence.citizen.nil => ~evidence.citizen.nil,
         ~eval[e].evidence.credential.nil => ~evidence.credential.nil,
         eval[e].owed /\ eval[e].user \in users
           => evidence.credential.nil \/ evidence.credential.presence.exists
  PROVE  WorldInv' /\ EvalInv'
<1>1. UNCHANGED <<now, regulated, backend, users, consent, rows, vcall, tracked, trail>>
  BY Zenon DEF launchEvidenceFetch
<1>2. /\ eval \in [Evals -> EvalSet] /\ eval[e] \in EvalSet /\ EvalOf(e) /\ Course(eval[e])
      /\ trail \subseteq Evals \X Statuses
  BY Zenon DEF EvalInv, EvalOf
<1>3. eval[e].pc = "gather" /\ Gathered(eval[e]) /\ eval[e].code = "none" /\ eval[e].result = NoResult
  BY <1>2, Zenon DEF Course
<1> DEFINE first == IF eval[e].err = "none" THEN err ELSE eval[e].err
           r == [eval[e] EXCEPT !.running = @ \ {task}, !.err = first,
                   !.evidence = evidence, !.failed = @ \cup why]
<1>4. eval' = [eval EXCEPT ![e] = r] /\ eval'[e] = r
  BY <1>2, Zenon DEF launchEvidenceFetch
<1>5. /\ first \in {"none"} \cup RegistryErrors /\ eval[e].running \ {task} \in SUBSET Tasks
      /\ eval[e].failed \cup why \in SUBSET {"request", "consent", "registry", "credential", "audit"}
  BY <1>2, ZenonT(30) DEF EvalSet
<1>6. first = "none" => eval[e].err = "none" /\ err = "none"
  OBVIOUS
<1>7. first # "none" => "registry" \in eval[e].failed \cup why
  BY <1>2, Zenon DEF Course
<1> HIDE DEF first
<1>8. r \in EvalSet
  BY <1>2, <1>5, Zenon DEF EvalSet
<1>9. /\ r.pc = "gather" /\ r.code = "none" /\ r.failed = eval[e].failed \cup why
      /\ r.user = eval[e].user /\ r.purpose = eval[e].purpose /\ r.at = eval[e].at
      /\ r.running = eval[e].running \ {task} /\ r.err = first
      /\ r.evidence = evidence /\ r.result = NoResult
      /\ r.held = eval[e].held /\ r.owed = eval[e].owed
  BY <1>2, <1>3, Zenon DEF EvalSet
<1> HIDE DEF r
<1>10. Gathered(r)
  BY <1>3, <1>6, <1>9, Zenon DEF Gathered
<1>11. Course(r)
  BY <1>2, <1>3, <1>7, <1>9, <1>10, Zenon DEF Course
<1>12. Honoured(r, users', rows')
  BY <1>1, <1>2, <1>9, Zenon DEF EvalOf, Honoured
<1>13. \A status \in Statuses : <<e, status>> \notin trail'
  BY <1>1, <1>2, <1>3, Zenon DEF EvalOf, Emitted
<1>14. EvalOf(e)'
  BY <1>1, <1>2, <1>4, <1>9, <1>11, <1>12, <1>13, Zenon DEF EvalOf
<1> QED BY <1>1, <1>2, <1>4, <1>8, <1>14, OneEval, Zenon

\* The errors of lookups have their type.
LEMMA LookupErrorType ==
  ASSUME NEW e, NEW outage
  PROVE  LookupErrors(e, outage) \subseteq RegistryErrors
BY DEF LookupErrors, RegistryErrors

\* Citizen keeps the invariant.
LEMMA CitizenStep ==
  ASSUME WorldInv, EvalInv, NEW e \in Evals, citizenTask(e)
  PROVE  WorldInv' /\ EvalInv'
<1>1. "citizen" \in eval[e].running /\ "citizen" \in Tasks
  BY Zenon DEF citizenTask, Tasks
<1>2. eval[e].evidence \in EvidenceSet
      /\ (eval[e].owed /\ eval[e].user \in users
            => eval[e].evidence.credential.nil \/ eval[e].evidence.credential.presence.exists)
  BY Zenon DEF EvalInv, EvalOf, Honoured, EvalSet
<1>3. ASSUME NEW citizen \in Citizens,
             launchEvidenceFetch(e, "citizen", "none",
               [eval[e].evidence EXCEPT !.citizen = [nil |-> FALSE, record |-> citizen]], {})
      PROVE  WorldInv' /\ EvalInv'
  <2> DEFINE evidence == [eval[e].evidence EXCEPT !.citizen = [nil |-> FALSE, record |-> citizen]]
  <2>1. evidence \in EvidenceSet
    BY <1>2, Zenon DEF EvidenceSet
  <2>2. ~evidence.citizen.nil /\ evidence.sanctions = eval[e].evidence.sanctions
        /\ evidence.credential = eval[e].evidence.credential
    BY <1>2, Zenon DEF EvidenceSet
  <2>3. launchEvidenceFetch(e, "citizen", "none", evidence, {})
    BY <1>3
  <2> HIDE DEF evidence
  <2> QED BY <1>1, <1>2, <2>1, <2>2, <2>3, LookupEnds, Zenon
<1>4. ASSUME NEW err \in LookupErrors(e, "registry"),
             launchEvidenceFetch(e, "citizen", err, eval[e].evidence, {"registry"})
      PROVE  WorldInv' /\ EvalInv'
  <2>1. err \in RegistryErrors /\ err # "none"
    BY LookupErrorType, Zenon DEF RegistryErrors
  <2> QED BY <1>1, <1>2, <1>4, <2>1, LookupEnds, Zenon
<1> QED BY <1>3, <1>4, Zenon DEF citizenTask

\* Sanctions keeps the invariant.
LEMMA SanctionsStep ==
  ASSUME WorldInv, EvalInv, NEW e \in Evals, sanctionsTask(e)
  PROVE  WorldInv' /\ EvalInv'
<1>1. "sanctions" \in eval[e].running /\ "sanctions" \in Tasks
  BY Zenon DEF sanctionsTask, Tasks
<1>2. eval[e].evidence \in EvidenceSet
      /\ (eval[e].owed /\ eval[e].user \in users
            => eval[e].evidence.credential.nil \/ eval[e].evidence.credential.presence.exists)
  BY Zenon DEF EvalInv, EvalOf, Honoured, EvalSet
<1>3. ASSUME NEW listed \in BOOLEAN,
             launchEvidenceFetch(e, "sanctions", "none",
               [eval[e].evidence EXCEPT !.sanctions = [nil |-> FALSE, listed |-> listed]], {})
      PROVE  WorldInv' /\ EvalInv'
  <2> DEFINE evidence == [eval[e].evidence EXCEPT !.sanctions = [nil |-> FALSE, listed |-> listed]]
  <2>1. evidence \in EvidenceSet
    BY <1>2, Zenon DEF EvidenceSet
  <2>2. ~evidence.sanctions.nil /\ evidence.citizen = eval[e].evidence.citizen
        /\ evidence.credential = eval[e].evidence.credential
    BY <1>2, Zenon DEF EvidenceSet
  <2>3. launchEvidenceFetch(e, "sanctions", "none", evidence, {})
    BY <1>3
  <2> HIDE DEF evidence
  <2> QED BY <1>1, <1>2, <2>1, <2>2, <2>3, LookupEnds
<1>4. ASSUME NEW err \in LookupErrors(e, "registry"),
             launchEvidenceFetch(e, "sanctions", err, eval[e].evidence, {"registry"})
      PROVE  WorldInv' /\ EvalInv'
  <2>1. err \in RegistryErrors /\ err # "none"
    BY LookupErrorType, Zenon DEF RegistryErrors
  <2> QED BY <1>1, <1>2, <1>4, <2>1, LookupEnds, Zenon
<1> QED BY <1>3, <1>4, Zenon DEF sanctionsTask

\* The lookup of a credential that was issued before the request finds one.
LEMMA CredentialStep ==
  ASSUME WorldInv, EvalInv, NEW e \in Evals, credentialTask(e)
  PROVE  WorldInv' /\ EvalInv'
<1>1. "credential" \in eval[e].running /\ "credential" \in Tasks
  BY Zenon DEF credentialTask, Tasks
<1>2. eval[e].evidence \in EvidenceSet
      /\ (eval[e].owed /\ eval[e].user \in users =>
            /\ eval[e].evidence.credential.nil \/ eval[e].evidence.credential.presence.exists
            /\ \E c \in DOMAIN rows : rows[c].cred.subject = eval[e].user)
  BY Zenon DEF EvalInv, EvalOf, Honoured, EvalSet
<1>3. ASSUME NEW presence \in FindCredentialPresence(eval[e].user),
             launchEvidenceFetch(e, "credential", "none",
               [eval[e].evidence EXCEPT !.credential = [nil |-> FALSE, presence |-> presence]], {})
      PROVE  WorldInv' /\ EvalInv'
  <2> DEFINE evidence == [eval[e].evidence EXCEPT !.credential = [nil |-> FALSE, presence |-> presence]]
  <2>1. presence \in PresenceSet /\ (eval[e].owed /\ eval[e].user \in users => presence.exists)
    BY <1>2, PresenceFacts
  <2>2. evidence \in EvidenceSet
    BY <1>2, <2>1, Zenon DEF EvidenceSet
  <2>3. ~evidence.credential.nil /\ evidence.credential.presence = presence
        /\ evidence.citizen = eval[e].evidence.citizen
        /\ evidence.sanctions = eval[e].evidence.sanctions
    BY <1>2, Zenon DEF EvidenceSet
  <2>4. launchEvidenceFetch(e, "credential", "none", evidence, {})
    BY <1>3, SMTT(20)
  <2> HIDE DEF evidence
  <2> QED BY <1>1, <2>1, <2>2, <2>3, <2>4, LookupEnds, Zenon
<1>4. ASSUME NEW err \in LookupErrors(e, "credential"),
             launchEvidenceFetch(e, "credential", "none", eval[e].evidence, {"credential"})
      PROVE  WorldInv' /\ EvalInv'
  BY <1>1, <1>2, <1>4, LookupEnds
<1> QED BY <1>3, <1>4, Zenon DEF credentialTask

\* Evaluate, when every lookup has returned.
LEMMA EvaluateStep ==
  ASSUME WorldInv, EvalInv, NEW e \in Evals, Evaluate(e)
  PROVE  WorldInv' /\ EvalInv'
<1> DEFINE x == eval[e]
           result == ResultOf(x.purpose, x.evidence, x.at)
           r == IF x.err # "none" THEN [x EXCEPT !.pc = "done", !.code = x.err]
                ELSE [x EXCEPT !.pc = "audit", !.result = result]
<1>1. /\ x.pc = "gather" /\ x.running = {}
      /\ eval' = [eval EXCEPT ![e] = r]
      /\ UNCHANGED <<now, regulated, backend, users, consent, rows, vcall, tracked, trail>>
  BY ZenonT(30) DEF Evaluate, ResultOf
<1>2. /\ eval \in [Evals -> EvalSet] /\ x \in EvalSet /\ EvalOf(e) /\ Course(x)
      /\ trail \subseteq Evals \X Statuses /\ regulated \in BOOLEAN
  BY Zenon DEF EvalInv, EvalOf, WorldInv, WorldTypes
<1>3. /\ x.purpose \in {AgeVerification, SanctionsScreening} /\ x.user \in Users /\ x.held
      /\ Gathered(x) /\ x.code = "none" /\ x.result = NoResult
      /\ x.err # "none" => "registry" \in x.failed
      /\ Honoured(x, users, rows) /\ \A status \in Statuses : <<e, status>> \notin trail
  BY <1>1, <1>2, Zenon DEF Course, EvalOf, Emitted
<1>4. result \in ResultSet
  BY <1>2, <1>3, ResultType, Zenon DEF EvalSet
<1>5. CASE x.err # "none"
  <2>1. r = [x EXCEPT !.pc = "done", !.code = x.err]
    BY <1>5, SMTT(20)
  <2>2. x.err \in Codes /\ x.err # "ok"
    BY <1>2, <1>5, Zenon DEF EvalSet, RegistryErrors, Codes
  <2> HIDE DEF r, result
  <2>3. r \in EvalSet
    BY <1>2, <2>1, <2>2, Zenon DEF EvalSet
  <2>4. /\ r.pc = "done" /\ r.code = x.err /\ r.failed = x.failed
        /\ r.user = x.user /\ r.purpose = x.purpose /\ r.at = x.at
        /\ r.running = {} /\ r.err = x.err /\ r.evidence = x.evidence /\ r.result = NoResult
        /\ r.held = x.held /\ r.owed = x.owed
    BY <1>1, <1>2, <1>3, <2>1, Zenon DEF EvalSet
  <2>5. eval'[e] = r
    BY <1>1, <1>2, SMTT(20)
  <2>6. Course(r)
    BY <1>3, <1>5, <2>2, <2>4 DEF Course
  <2>7. Honoured(r, users', rows')
    BY <1>1, <1>3, <2>4, Zenon DEF Honoured
  <2>8. EvalOf(e)'
    BY <1>1, <1>2, <1>3, <2>2, <2>4, <2>5, <2>6, <2>7, Zenon DEF EvalOf
  <2> QED BY <1>1, <1>2, <2>3, <2>8, OneEval, Zenon
<1>6. CASE x.err = "none"
  <2>1. r = [x EXCEPT !.pc = "audit", !.result = result]
    BY <1>6
  <2> HIDE DEF r, result
  <2>2. r \in EvalSet
    BY <1>2, <1>4, <2>1, Zenon DEF EvalSet
  <2>3. /\ r.pc = "audit" /\ r.code = "none" /\ r.failed = x.failed
        /\ r.user = x.user /\ r.purpose = x.purpose /\ r.at = x.at
        /\ r.running = {} /\ r.err = "none" /\ r.evidence = x.evidence /\ r.result = result
        /\ r.held = x.held /\ r.owed = x.owed
    BY <1>1, <1>2, <1>3, <1>6, <2>1, Zenon DEF EvalSet
  <2>4. eval'[e] = r
    BY <1>1, <1>2
  <2>5. Decided(r)
    <3>1. Gathered(r)
      BY <1>1, <1>3, <1>6, <2>3, Zenon DEF Gathered
    <3>2. r.result = ResultOf(r.purpose, r.evidence, r.at)
      BY <2>3, Zenon DEF result
    <3> QED BY <1>3, <2>3, <3>1, <3>2, ZenonT(30) DEF Decided, ResultOf
  <2>6. Course(r)
    BY <1>3, <2>3, <2>5, Zenon DEF Course
  <2>7. Honoured(r, users', rows')
    BY <1>1, <1>3, <2>3, Zenon DEF Honoured
  <2>8. EvalOf(e)'
    BY <1>1, <1>2, <1>3, <2>3, <2>4, <2>6, <2>7, Zenon DEF EvalOf
  <2> QED BY <1>1, <1>2, <2>2, <2>8, OneEval, Zenon
<1> QED BY <1>5, <1>6

\* No answer goes out before its record is in.
LEMMA EmitStep ==
  ASSUME WorldInv, EvalInv, NEW e \in Evals, emitDecision(e)
  PROVE  WorldInv' /\ EvalInv'
<1>1. eval[e].pc = "audit" /\ UNCHANGED <<now, regulated, backend, users, consent, rows, vcall, tracked>>
  BY Zenon DEF emitDecision
<1>2. /\ eval \in [Evals -> EvalSet] /\ eval[e] \in EvalSet /\ EvalOf(e) /\ Course(eval[e])
      /\ trail \subseteq Evals \X Statuses /\ regulated \in BOOLEAN
  BY Zenon DEF EvalInv, EvalOf, WorldInv, WorldTypes
<1>3. eval[e].code = "none" /\ Decided(eval[e]) /\ eval[e].running = {}
  BY <1>1, <1>2, Zenon DEF Course
<1>4. CASE /\ trail' = trail \cup {<<e, eval[e].result.status>>}
           /\ eval' = [eval EXCEPT ![e].pc = "done", ![e].code = "ok"]
  <2> DEFINE r == [eval[e] EXCEPT !.pc = "done", !.code = "ok"]
  <2>1. eval[e].result.status \in Statuses
    BY <1>3, DecidedStatus
  <2>2. r \in EvalSet
    BY <1>2, Zenon DEF EvalSet, Codes
  <2>3. /\ r.pc = "done" /\ r.code = "ok" /\ r.failed = eval[e].failed
        /\ r.user = eval[e].user /\ r.purpose = eval[e].purpose /\ r.at = eval[e].at
        /\ r.running = eval[e].running /\ r.err = eval[e].err
        /\ r.evidence = eval[e].evidence /\ r.result = eval[e].result
        /\ r.held = eval[e].held /\ r.owed = eval[e].owed
    BY <1>2, Zenon DEF EvalSet
  <2>4. eval' = [eval EXCEPT ![e] = r] /\ eval'[e] = r
    BY <1>2, <1>4, Zenon
  <2> HIDE DEF r
  <2>5. Decided(r)
    BY <1>3, <2>3, StillDecided
  <2>6. Course(r)
    BY <1>2, <1>3, <2>3, <2>5, Zenon DEF Course
  <2>7. \A status \in Statuses : <<e, status>> \notin trail
    BY <1>2, <1>3, Zenon DEF EvalOf, Emitted
  <2>8. /\ trail' \subseteq Evals \X Statuses
        /\ <<e, r.result.status>> \in trail'
        /\ \A status \in Statuses : <<e, status>> \in trail' => r.result.status = status
        /\ \A f \in Evals \ {e} : \A status \in Statuses :
             <<f, status>> \in trail' <=> <<f, status>> \in trail
    BY <1>2, <1>4, <2>1, <2>3, <2>7
  <2>9. Honoured(r, users', rows') /\ Emitted(r)
    BY <1>1, <1>2, <2>3, Zenon DEF EvalOf, Honoured, Emitted
  <2>10. EvalOf(e)'
    BY <1>1, <1>2, <2>3, <2>4, <2>6, <2>8, <2>9 DEF EvalOf
  <2> QED BY <1>1, <2>2, <2>4, <2>8, <2>10, OneEval, Zenon
<1>5. CASE /\ Fail(e, "internal", "audit")
           /\ trail' \in {trail, trail \cup {<<e, eval[e].result.status>>}}
  BY <1>1, <1>5, FailStep, Zenon DEF Codes
<1> QED BY <1>4, <1>5, Zenon DEF emitDecision

\* A grant is remembered by the evaluations about to check for it.
LEMMA GrantBothStep ==
  ASSUME WorldInv, EvalInv, NEW user \in Users, NEW purpose \in Purposes, Grant(user, purpose)
  PROVE  WorldInv' /\ EvalInv'
<1>1. VCGrant(user, purpose) /\ UNCHANGED trail
  BY Zenon DEF Grant
<1>2. UNCHANGED <<now, regulated>> /\ consent' = consent \cup {<<user, purpose>>}
  BY <1>1, Zenon DEF VCGrant
<1>3. WorldInv' /\ RowsLast
  BY <1>1, GrantStep
<1>4. eval \in [Evals -> EvalSet] /\ trail \subseteq Evals \X Statuses /\ now \in Int
  BY DEF EvalInv, WorldInv, WorldTypes
<1>5. \A e \in Evals :
        eval'[e] = IF eval[e].pc = "consent" /\ eval[e].user = user /\ purpose = Decision
                     THEN [eval[e] EXCEPT !.held = TRUE] ELSE eval[e]
  BY Zenon DEF Grant
<1>6. ASSUME NEW e \in Evals
      PROVE  [eval[e] EXCEPT !.held = TRUE] \in EvalSet
  <2>1. eval[e] \in EvalSet
    BY <1>4
  <2> QED BY <2>1, Zenon DEF EvalSet
<1>7. eval' \in [Evals -> EvalSet]
  BY <1>4, <1>6, Zenon DEF Grant
<1>8. EvalSet' = EvalSet
  BY <1>2, Zenon DEF EvalSet, EvidenceSet, PresenceSet, ClaimsOf
<1>9. ASSUME NEW e \in Evals
      PROVE  EvalOf(e)'
  <2>1. CASE eval[e].pc = "consent" /\ eval[e].user = user /\ purpose = Decision
    <3> DEFINE r == [eval[e] EXCEPT !.held = TRUE]
    <3>1. eval'[e] = r
      BY <1>5, <2>1
    <3>2. /\ r.pc = "consent" /\ r.code = eval[e].code /\ r.failed = eval[e].failed
          /\ r.user = eval[e].user /\ r.purpose = eval[e].purpose /\ r.at = eval[e].at
          /\ r.running = eval[e].running /\ r.err = eval[e].err
          /\ r.evidence = eval[e].evidence /\ r.result = eval[e].result
          /\ r.held = TRUE /\ r.owed = eval[e].owed
      BY <1>4, <2>1 DEF EvalSet
    <3> HIDE DEF r
    <3>3. EvalOf(e) /\ Course(eval[e])
      BY Zenon DEF EvalInv, EvalOf
    <3>4. Course(r)
      BY <2>1, <3>2, <3>3, Zenon DEF Course
    <3>5. Honoured(r, users', rows')
      <4>1. Honoured(r, users, rows)
        BY <3>2, <3>3, Zenon DEF EvalOf, Honoured
      <4> QED BY <1>3, <4>1, HonouredLasts
    <3>6. \A status \in Statuses : <<e, status>> \notin trail'
      BY <1>1, <2>1, <3>3, Zenon DEF EvalOf, Course, Emitted
    <3> QED BY <1>1, <1>2, <2>1, <3>1, <3>2, <3>3, <3>4, <3>5, <3>6, Zenon DEF EvalOf
  <2>2. CASE ~(eval[e].pc = "consent" /\ eval[e].user = user /\ purpose = Decision)
    <3>1. eval'[e] = eval[e]
      BY <1>5, <2>2, Zenon
    <3>2. now' \in Int /\ now <= now'
          /\ \A status \in Statuses : <<e, status>> \in trail' <=> <<e, status>> \in trail
      BY <1>1, <1>2, <1>4
    <3>3. eval[e].pc \in {"consent", "launch"} => now' + EvidenceTimeout <= MaxTime
      BY <1>2, Zenon DEF EvalInv, EvalOf
    <3>4. eval[e].pc = "consent" /\ <<eval[e].user, Decision>> \in consent'
            => <<eval[e].user, Decision>> \in consent \/ eval[e].held
      BY <1>2, <2>2, SMTT(20)
    <3> QED BY <1>3, <3>1, <3>2, <3>3, <3>4, EvalFrame, Zenon
  <2> QED BY <2>1, <2>2
<1> QED BY <1>1, <1>3, <1>4, <1>7, <1>8, <1>9, Zenon DEF EvalInv

\* Time passes for calls and evaluations at once.
LEMMA TickBothStep ==
  ASSUME WorldInv, EvalInv, Tick
  PROVE  WorldInv' /\ EvalInv'
<1>1. WorldInv' /\ RowsLast
  BY TickStep, Zenon DEF Tick
<1>2. now' = now + 1 /\ now \in Int /\ UNCHANGED <<eval, trail, regulated>> /\ consent' \subseteq consent
  BY DEF Tick, VCTick, WorldInv, WorldTypes
<1>3. \A e \in Evals : eval[e].pc \in {"consent", "launch"} => now' + EvidenceTimeout <= MaxTime
  BY <1>2, CredentialAssumption, DecisionAssumption DEF Tick, DeadlineReachable
<1>4. now' \in Int /\ now <= now'
  BY <1>2
<1> QED BY <1>1, <1>2, <1>3, <1>4, EvalsAlone

\* A step of the world, as the evaluations see it.
LEMMA WorldStep ==
  ASSUME WorldInv, EvalInv, World, UNCHANGED <<eval, trail>>
  PROVE  WorldInv' /\ EvalInv'
<1>1. WorldInv' /\ RowsLast /\ UNCHANGED <<now, regulated>> /\ consent' \subseteq consent
  BY CallStep, RevokeStep, DeleteUserStep, Zenon DEF VCRevoke, World
<1>2. now' \in Int /\ now <= now'
  BY <1>1 DEF WorldInv, WorldTypes
<1>3. \A e \in Evals : eval[e].pc \in {"consent", "launch"} => now' + EvidenceTimeout <= MaxTime
  BY <1>1, Zenon DEF EvalInv, EvalOf
<1> QED BY <1>1, <1>2, <1>3, EvalsAlone

\* Every step of an evaluation keeps the invariant.
LEMMA EvaluationStep ==
  ASSUME WorldInv, EvalInv, NEW e \in Evals, EvalStep(e)
  PROVE  WorldInv' /\ EvalInv'
BY HandleEvaluateStep, ConsentStep, GatherStep, CitizenStep, SanctionsStep, CredentialStep,
   EvaluateStep, EmitStep
DEF EvalStep
-----------------------------------------------------------------------------
(* The invariant and what follows from it.                                 *)

\* The invariant holds at the start.
LEMMA InitInv == Init => Inv
<1> SUFFICES ASSUME Init PROVE Inv
  OBVIOUS
<1>1. /\ now = 0 /\ regulated \in BOOLEAN /\ backend \in Backends /\ consent = {}
      /\ users = Users /\ DOMAIN rows = {} /\ tracked = {} /\ trail = {}
      /\ vcall = [c \in VCCalls |-> NewCall] /\ eval = [e \in Evals |-> NewEval]
  BY CredentialAssumption, SMTT(20) DEF Init, VCInit
<1>2. NewCall \in CallSet
  BY CredentialAssumption, SMTT(20) DEF NewCall, CallSet, Creds, Codes, NoCitizen, Citizens, BirthDates
<1>3. NewCall.pc = "new" /\ NewCall.op = "none" /\ NewCall.code = "none" /\ NewCall.at = 0
  BY Zenon DEF NewCall
<1>4. WorldTypes
  BY <1>1, <1>2, CredentialAssumption, SMTT(20) DEF WorldTypes
<1>5. \A c \in VCCalls : CallOf(c)
  BY <1>1, <1>3, SMTT(20) DEF CallOf
<1>6. /\ NewEval.pc = "new" /\ NewEval.running = {} /\ NewEval.code = "none" /\ NewEval.err = "none"
      /\ NewEval.result = NoResult /\ NewEval.owed = FALSE /\ NewEval.at = 0
  BY Zenon DEF NewEval
<1>7. Course(NewEval)
  BY <1>6, Zenon DEF Course
<1>8. \A e \in Evals : EvalOf(e)
  BY <1>1, <1>6, <1>7 DEF EvalOf, Honoured
<1>9. HasLatest
  BY <1>1, Zenon DEF HasLatest
<1> QED BY <1>1, <1>4, <1>5, <1>8, <1>9, NewEvalType, Zenon DEF Inv, WorldInv, EvalInv

\* Every step keeps the invariant.
LEMMA NextInv == Inv /\ [Next]_vars => Inv'
<1> SUFFICES ASSUME Inv, [Next]_vars PROVE Inv'
  OBVIOUS
<1>1. WorldInv /\ EvalInv
  BY Zenon DEF Inv
<1>2. CASE Next
  BY <1>1, <1>2, EvaluationStep, WorldStep, GrantBothStep, TickBothStep, Zenon DEF Next, Inv
<1>3. CASE UNCHANGED vars
  <2>1. UNCHANGED <<now, regulated, backend, users, consent, rows, vcall, tracked, eval, trail>>
    BY <1>3, Zenon DEF vars
  <2>2. now' \in 0..MaxTime /\ now' \in Int /\ now <= now' /\ consent' \subseteq consent
    BY <1>1, <2>1 DEF WorldInv, WorldTypes
  <2>3. WorldInv' /\ RowsLast
    BY <1>1, <2>1, <2>2, CallsAlone
  <2>4. \A e \in Evals : eval[e].pc \in {"consent", "launch"} => now' + EvidenceTimeout <= MaxTime
    BY <1>1, <2>1, Zenon DEF EvalInv, EvalOf
  <2>5. EvalInv'
    BY <1>1, <2>1, <2>2, <2>3, <2>4, EvalsAlone
  <2> QED BY <2>3, <2>5, Zenon DEF Inv
<1> QED BY <1>2, <1>3

\* The invariant holds in every behaviour.
LEMMA Invariance == Spec => []Inv
BY InitInv, NextInv, PTL DEF Spec

\* What the invariant says of a decision, in terms of the evidence.
LEMMA DecidedFacts ==
  ASSUME Inv, NEW e \in Evals, Decided(eval[e])
  PROVE  /\ eval[e].evidence \in EvidenceSet /\ regulated \in BOOLEAN
         /\ ~eval[e].evidence.sanctions.nil
         /\ eval[e].purpose \in {AgeVerification, SanctionsScreening}
         /\ eval[e].purpose = AgeVerification =>
              /\ ~eval[e].evidence.citizen.nil
              /\ ~eval[e].evidence.credential.nil \/ "credential" \in eval[e].failed
         /\ eval[e].result = ResultOf(eval[e].purpose, eval[e].evidence, eval[e].at)
<1>1. eval[e] \in EvalSet /\ regulated \in BOOLEAN
  BY Zenon DEF Inv, EvalInv, WorldInv, WorldTypes
<1>2. eval[e].evidence \in EvidenceSet
  BY <1>1, Zenon DEF EvalSet
<1>3. Gathered(eval[e]) /\ eval[e].err = "none" /\ eval[e].running = {}
      /\ eval[e].purpose \in {AgeVerification, SanctionsScreening}
      /\ eval[e].result = ResultOf(eval[e].purpose, eval[e].evidence, eval[e].at)
  BY Zenon DEF Decided, ResultOf
<1> QED BY <1>1, <1>2, <1>3, Zenon DEF Gathered

\* The types follow from the invariant.
LEMMA InvTypeOK == Inv => TypeOK
<1> SUFFICES ASSUME Inv PROVE TypeOK
  OBVIOUS
<1>1. WorldInv /\ EvalInv /\ now \in 0..MaxTime
  BY Zenon DEF Inv, WorldInv, WorldTypes
<1>2. ASSUME NEW c \in VCCalls
      PROVE  /\ vcall[c].pc \in {"new", "consent", "fetch", "save", "find", "done"}
             /\ vcall[c].code \in Codes /\ vcall[c].user \in Users \cup {NoUser}
             /\ vcall[c].citizen \in Citizens /\ vcall[c].at \in 0..now
  <2>1. vcall[c] \in CallSet /\ vcall[c].at <= now
    BY <1>1, Zenon DEF WorldInv, WorldTypes, CallOf
  <2> QED BY <1>1, <2>1 DEF CallSet
<1>3. VCTypeOK
  BY <1>1, <1>2, Zenon DEF VCTypeOK, WorldInv, WorldTypes
<1>4. ASSUME NEW e \in Evals
      PROVE  /\ eval[e].pc \in {"new", "consent", "launch", "gather", "audit", "done"}
             /\ eval[e].running \subseteq Tasks /\ eval[e].deadline \in 0..MaxTime
             /\ eval[e].code \in Codes /\ eval[e].at \in 0..now
             /\ eval[e].result.status \in {"none", "fail", "pass", "pass_with_conditions"}
  <2>1. eval[e] \in EvalSet /\ eval[e].at <= now
    BY <1>1, Zenon DEF EvalInv, EvalOf
  <2>2. eval[e].result \in ResultSet
    BY <2>1, Zenon DEF EvalSet
  <2> QED BY <1>1, <2>1, <2>2 DEF EvalSet, ResultSet, Statuses
<1> QED BY <1>1, <1>3, <1>4, Zenon DEF TypeOK, EvalInv, Statuses

\* What is said of credentials follows from the invariant.
LEMMA InvCredentials == Inv => CredentialsKept
<1> SUFFICES ASSUME Inv PROVE CredentialsKept
  OBVIOUS
<1>1. WorldInv /\ regulated \in BOOLEAN
  BY Zenon DEF Inv, WorldInv, WorldTypes
<1>2. ASSUME NEW c \in DOMAIN rows
      PROVE  /\ vcall[c].held /\ vcall[c].citizen.valid /\ vcall[c].citizen.dob.parses
             /\ rows[c].cred.issuedAt >= vcall[c].citizen.dob.adultAt
             /\ rows[c].cred.subject = vcall[c].user
  <2>1. /\ c \in VCCalls /\ Grounds(c) /\ vcall[c].at \in 0..MaxTime
        /\ rows[c].cred.issuedAt = Stamp(vcall[c].at) /\ rows[c].cred.subject = vcall[c].user
    BY <1>1, RowFacts
  <2>2. vcall[c].citizen.dob \in BirthDates
    BY <1>1, <2>1, Zenon DEF WorldInv, WorldTypes, CallSet, Citizens
  <2>3. vcall[c].citizen.dob.parses /\ vcall[c].at >= vcall[c].citizen.dob.adultAt
    BY <2>1, Zenon DEF Grounds
  <2>4. vcall[c].citizen.dob.adultAt \in Midnights
    BY <2>2, <2>3 DEF BirthDates
  <2>5. Stamp(vcall[c].at) >= vcall[c].citizen.dob.adultAt
    <3> DEFINE t == vcall[c].at
               a == vcall[c].citizen.dob.adultAt
    <3>1. a \in Midnights /\ a \in Int /\ t \in 0..MaxTime /\ a <= t
      BY <2>1, <2>3, <2>4, CredentialAssumption DEF Midnights
    <3> HIDE DEF t, a
    <3>2. a <= Stamp(t) /\ Stamp(t) \in 0..MaxTime
      BY <3>1, StampFacts
    <3>3. Stamp(t) >= a
      BY <3>1, <3>2
    <3> QED BY <3>3 DEF t, a
  <2> QED BY <2>1, <2>5, Zenon DEF Grounds
<1>3. IssuedOnGrounds
  BY <1>2, Zenon DEF IssuedOnGrounds
<1>4. StoredAsIssued
  <2> SUFFICES ASSUME NEW c \in VCCalls, vcall[c].op = "issue", vcall[c].code = "ok"
               PROVE  /\ FindByID(c) =
                           IF vcall[c].user \in users THEN {AsStored(vcall[c].cred)} ELSE {}
                      /\ \A v \in VCCalls :
                           vcall[v].op = "verify" /\ vcall[v].id = c /\ vcall[v].code = "ok"
                             => vcall[v].cred = AsStored(vcall[c].cred)
    BY Zenon DEF StoredAsIssued
  <2>1. vcall[c].cred = Built(c) /\ (c \in DOMAIN rows <=> vcall[c].user \in users)
    BY <1>1, Zenon DEF WorldInv, CallOf
  <2>2. FindByID(c) = IF c \in DOMAIN rows THEN {Saved(c)} ELSE {}
    BY <1>1, FoundById
  <2>3. ASSUME NEW v \in VCCalls, vcall[v].op = "verify", vcall[v].id = c, vcall[v].code = "ok"
        PROVE  vcall[v].cred = Saved(c)
    BY <1>1, <2>3, Zenon DEF WorldInv, CallOf
  <2>4. Saved(c) = AsStored(vcall[c].cred)
    BY <2>1, SavedFacts
  <2> QED BY <2>1, <2>2, <2>3, <2>4, Zenon
<1>5. RegulatedMinimal
  BY <1>1, RowFacts DEF RegulatedMinimal, ClaimsOf, Columns, NoColumns
<1>6. VerifyHonest
  BY <1>1, Zenon DEF VerifyHonest, WorldInv, CallOf
<1> QED BY <1>3, <1>4, <1>5, <1>6, InvTypeOK, Zenon DEF CredentialsKept

\* What is said of who passes follows from the invariant.
LEMMA InvPass == Inv => PassOnEvidence
<1> SUFFICES ASSUME Inv, NEW e \in Evals, eval[e].code = "ok", eval[e].result.status # "fail"
             PROVE  /\ ~eval[e].evidence.sanctions.nil /\ ~eval[e].evidence.sanctions.listed
                    /\ eval[e].purpose = AgeVerification =>
                         /\ ~eval[e].evidence.citizen.nil /\ eval[e].evidence.citizen.record.valid
                         /\ eval[e].evidence.citizen.record.dob.parses
                         /\ eval[e].at >= eval[e].evidence.citizen.record.dob.adultAt
                         /\ eval[e].result.status = "pass"
                              <=> eval[e].evidence.credential.presence.exists
  BY Zenon DEF PassOnEvidence
<1>1. Decided(eval[e])
  BY Zenon DEF Inv, EvalInv, EvalOf, Course
<1> DEFINE ev == eval[e].evidence
<1>2. /\ ev \in EvidenceSet /\ regulated \in BOOLEAN /\ ~ev.sanctions.nil
      /\ eval[e].purpose \in {AgeVerification, SanctionsScreening}
      /\ eval[e].result = ResultOf(eval[e].purpose, ev, eval[e].at)
  BY <1>1, DecidedFacts, SMTT(20)
<1> HIDE DEF ev
<1>3. ev.credential.presence.exists <=> Credentialed(ev)
  BY <1>2, EvidenceFacts, Zenon DEF Credentialed
<1>4. CASE eval[e].purpose = AgeVerification
  <2>1. /\ ~Listed(ev) /\ ValidCitizen(ev) /\ Adult(ev, eval[e].at)
        /\ eval[e].result.status = "pass" <=> Credentialed(ev)
    BY <1>2, <1>4, AgeStatus, Zenon DEF Statuses
  <2> QED BY <1>2, <1>3, <2>1, Zenon DEF ev, Listed, ValidCitizen, Adult
<1>5. CASE eval[e].purpose = SanctionsScreening
  BY <1>2, <1>5, ScreeningRule DEF AgeVerification, SanctionsScreening, ev, Listed
<1> QED BY <1>2, <1>4, <1>5, Zenon

\* What is said of answers and audit records follows from the invariant.
LEMMA InvAudited == Inv => AnswersAudited
BY Zenon DEF Inv, EvalInv, EvalOf, Emitted, AnswersAudited, Statuses

\* What is said of evaluations follows from the invariant.
LEMMA InvSound == Inv => EvaluationsSound
<1> SUFFICES ASSUME Inv PROVE EvaluationsSound
  OBVIOUS
<1>1. ConsentFirst
  BY Zenon DEF Inv, EvalInv, EvalOf, Course, ConsentFirst
<1>2. NoLookupLeftBehind
  BY Zenon DEF Inv, EvalInv, EvalOf, Course, NoLookupLeftBehind
<1>3. OutageDegrades
  BY Zenon DEF Inv, EvalInv, EvalOf, Course, OutageDegrades
<1>4. ASSUME NEW e \in Evals, eval[e].result.status # "none"
      PROVE  Decided(eval[e])
  <2>1. NoResult.status = "none"
    BY Zenon DEF NoResult
  <2> QED BY <1>4, <2>1, Zenon DEF Inv, EvalInv, EvalOf, Course
<1>5. CredentialHonoured
  <2> SUFFICES ASSUME NEW e \in Evals, eval[e].owed,
                      eval[e].result.status = "pass_with_conditions"
               PROVE  "credential" \in eval[e].failed \/ eval[e].user \notin users
    BY Zenon DEF CredentialHonoured
  <2> DEFINE ev == eval[e].evidence
  <2>1. Decided(eval[e])
    BY <1>4, SMTT(20)
  <2>2. /\ ev \in EvidenceSet /\ regulated \in BOOLEAN
        /\ eval[e].purpose \in {AgeVerification, SanctionsScreening}
        /\ eval[e].purpose = AgeVerification => ~ev.credential.nil \/ "credential" \in eval[e].failed
        /\ eval[e].result = ResultOf(eval[e].purpose, ev, eval[e].at)
    BY <2>1, DecidedFacts
  <2>3. eval[e].user \in users => ev.credential.nil \/ ev.credential.presence.exists
    BY Zenon DEF Inv, EvalInv, EvalOf, Honoured
  <2> HIDE DEF ev
  <2>4. eval[e].purpose # SanctionsScreening
    BY <2>2, ScreeningRule, SMTT(20)
  <2>5. ~Credentialed(ev)
    BY <2>2, <2>4, AgeStatus, SMTT(20)
  <2> QED BY <2>2, <2>3, <2>4, <2>5, Zenon DEF Credentialed
<1>6. ReasonTellsRule
  <2> SUFFICES ASSUME NEW e \in Evals, eval[e].result.status # "none",
                      eval[e].purpose = AgeVerification
               PROVE  LET r == eval[e].result IN
                      r.reason = IF r.listed THEN "sanctioned"
                                 ELSE IF ~r.shown.citizenValid THEN "invalid_citizen"
                                 ELSE IF ~r.shown.isOver18 THEN "underage"
                                 ELSE IF r.shown.hasCredential THEN "all_checks_passed"
                                 ELSE "missing_credential"
    BY Zenon DEF ReasonTellsRule
  <2> DEFINE ev == eval[e].evidence
  <2>1. Decided(eval[e])
    BY <1>4, SMTT(20)
  <2>2. ev \in EvidenceSet /\ regulated \in BOOLEAN
        /\ eval[e].result = ResultOf(AgeVerification, ev, eval[e].at)
    BY <2>1, DecidedFacts
  <2> HIDE DEF ev
  <2> DEFINE R == ResultOf(AgeVerification, ev, eval[e].at)
  <2>3. /\ R.listed = Listed(ev)
        /\ R.shown = [citizenValid |-> ValidCitizen(ev), isOver18 |-> Adult(ev, eval[e].at),
                      hasCredential |-> Credentialed(ev)]
        /\ Listed(ev) => R.reason = "sanctioned"
        /\ ~Listed(ev) /\ ~ValidCitizen(ev) => R.reason = "invalid_citizen"
        /\ ~Listed(ev) /\ ValidCitizen(ev) /\ ~Adult(ev, eval[e].at) => R.reason = "underage"
        /\ ~Listed(ev) /\ ValidCitizen(ev) /\ Adult(ev, eval[e].at) /\ Credentialed(ev)
             => R.reason = "all_checks_passed"
        /\ ~Listed(ev) /\ ValidCitizen(ev) /\ Adult(ev, eval[e].at) /\ ~Credentialed(ev)
             => R.reason = "missing_credential"
    BY <2>2, AgeRule, Zenon
  <2>4. eval[e].result = R
    BY <2>2, SMTT(20)
  <2> HIDE DEF R
  <2>5. /\ R.shown.citizenValid = ValidCitizen(ev)
        /\ R.shown.isOver18 = Adult(ev, eval[e].at)
        /\ R.shown.hasCredential = Credentialed(ev)
    BY <2>3
  <2> QED BY <2>3, <2>4, <2>5
<1> QED BY <1>1, <1>2, <1>3, <1>5, <1>6, Zenon DEF EvaluationsSound
-----------------------------------------------------------------------------
(* Theorems.                                                               *)

\* Whatever calls run at once, and whatever the registry, the consent service and
\* the store do: a credential is issued only on its grounds; until its user is
\* deleted any lookup and any Verify finds what Issue answered, but for the time of
\* issue, which Postgres cuts to the microsecond, and never to before the holder is
\* 18; a server in regulated mode stores no source; and Verify says "not found" of a
\* credential that was stored when it was asked only if its user is gone.
THEOREM CredentialsAreKept == Spec => []CredentialsKept
BY Invariance, InvCredentials, PTL

\* Nobody passes without the evidence for it, in whatever order the lookups end,
\* fail or time out.
THEOREM PassesRestOnEvidence == Spec => []PassOnEvidence
BY Invariance, InvPass, PTL

\* A decision that reached its caller is in the compliance trail, and one in the
\* trail reached its caller unless the write of its record was told as failed.
THEOREM AnswersAreAudited == Spec => []AnswersAudited
BY Invariance, InvAudited, PTL

\* No evaluation asks before consent or leaves a lookup behind; an outage of the
\* credential lookup alone degrades it; a credential issued before the request
\* counts while its user exists; the reason is that of the rule that decided.
THEOREM EvaluationsAreSound == Spec => []EvaluationsSound
BY Invariance, InvSound, PTL
=============================================================================
