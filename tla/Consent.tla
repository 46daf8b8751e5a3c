------------------------------- MODULE Consent -------------------------------
(***************************************************************************)
(* Purpose-based consent: a user grants, revokes and erases consents while *)
(* other services require them.  A request works on several purposes in    *)
(* one SQL transaction (READ COMMITTED, row locks kept to the end), or,    *)
(* without a database, under one mutex that rolls nothing back.            *)
(*                                                                         *)
(* Requests interleave at every statement.  A request uses the time of its *)
(* arrival throughout, so requests apply times that are older than the     *)
(* row they meet; the server's request timeout bounds how old.             *)
(*                                                                         *)
(* Abstractions.  Users share nothing, so the table is that of one user.   *)
(* The purposes of a request are a set taken in any order, as the client   *)
(* chooses the order and the handler removes duplicates.                   *)
(***************************************************************************)
EXTENDS Integers, FiniteSets

Op == {"grant", "revoke", "revokeall", "delete", "require"}

CONSTANTS
  Purpose,        \* the supported purposes
  Req,            \* requests, each used once
  NoReq,
  Backend,        \* "postgres" or "memory"
  ConsentTTL, GrantWindow, ReGrantCooldown,
  Timeout,        \* how long after its arrival a request may still write
  AuditFails,     \* whether the audit store may refuse an event
  Ops,            \* the operations clients ask for
  MaxTime         \* bound of the clock

ASSUME ConsentAssumption ==
  /\ NoReq \notin Req
  /\ Backend \in {"postgres", "memory"}
  /\ ConsentTTL \in Nat \ {0} /\ GrantWindow \in Nat \ {0}
  /\ ReGrantCooldown \in Nat \ {0} /\ Timeout \in Nat /\ MaxTime \in Nat
  /\ AuditFails \in BOOLEAN /\ Ops \subseteq Op

VARIABLES
  now,        \* the clock
  table,      \* consents: the committed row of each purpose
  lock,       \* the transaction that holds the row (or its unique key)
  mutex,      \* the holder of inMemoryConsentTx.mu
  req,        \* local state of every request
  audit,      \* audit events of every request, named by their purpose
  changed,    \* history: purposes a request changed visibly
  revokedOn   \* history: the clock when a row was last seen to become revoked

vars == <<now, table, lock, mutex, req, audit, changed, revokedOn>>
history == <<changed, revokedOn>>

Never == -1
NoRow == [granted |-> Never, expires |-> Never, revoked |-> Never]
Unwritten == [granted |-> Never, expires |-> 0, revoked |-> Never]
AllPurposes == "all purposes"
NoPurpose == "no purpose"

Time == 0 .. MaxTime
Row == [granted: Nat, expires: Nat, revoked: Nat \cup {Never}]

\* A request: where it is, what it was asked, the purposes still to do, the one
\* in hand, failed inserts of it, what its transaction has written, and the
\* audit events it has yet to emit.
Request == [pc: {"idle", "begin", "execute", "insert", "audit", "done"},
            op: Op, at: Nat, todo: SUBSET Purpose,
            cur: Purpose \cup {NoPurpose}, tries: {0, 1},
            writes: [Purpose -> Row \cup {NoRow, Unwritten}],
            events: SUBSET (Purpose \cup {AllPurposes}),
            result: {"none", "ok", "failed", "unknown"}]

\* Tables, locks and request records have their types.
TypeOK ==
  /\ now \in Nat
  /\ table \in [Purpose -> Row \cup {NoRow}]
  /\ lock \in [Purpose -> Req \cup {NoReq}]
  /\ mutex \in Req \cup {NoReq}
  /\ req \in [Req -> Request]
  /\ audit \in [Req -> SUBSET (Purpose \cup {AllPurposes})]
  /\ changed \in [Req -> SUBSET Purpose]
  /\ revokedOn \in [Purpose -> Nat]

Nothing == [p \in Purpose |-> Unwritten]
Idle == [pc |-> "idle", op |-> "require", at |-> 0, todo |-> {},
         cur |-> NoPurpose, tries |-> 0, writes |-> Nothing, events |-> {},
         result |-> "none"]

Init ==
  /\ now = 0
  /\ table = [p \in Purpose |-> NoRow]
  /\ lock = [p \in Purpose |-> NoReq]
  /\ mutex = NoReq
  /\ req = [r \in Req |-> Idle]
  /\ audit = [r \in Req |-> {}]
  /\ changed = [r \in Req |-> {}]
  /\ revokedOn = [p \in Purpose |-> 0]

-----------------------------------------------------------------------------
(* The record's rules (models.go) *)

\* NewRecord as createGrantTx calls it.
NewRecord(t) == [granted |-> t, expires |-> t + ConsentTTL, revoked |-> Never]

\* ComputeStatus: revoked wins over expired; the last instant is still active.
ComputeStatus(row, t) ==
  CASE row.revoked # Never -> "revoked"
    [] row.revoked = Never /\ row.expires < t -> "expired"
    [] OTHER -> "active"

IsActive(row, t) == row.revoked = Never /\ ~(row.expires < t)

\* CanRevoke, and the WHERE clause of RevokeAllConsentsByUser.
CanRevoke(row, t) == row.revoked = Never /\ row.expires >= t

\* Mutant: the cooldown counts from the grant.
CanReGrant_SinceGrant(row, t) ==
  row.revoked = Never \/ t - row.granted >= ReGrantCooldown

CanReGrant(row, t) ==
  row.revoked = Never \/ t - row.revoked >= ReGrantCooldown

RenewAt(row, t) ==
  [row EXCEPT !.granted = t, !.expires = t + ConsentTTL, !.revoked = Never]

RevokeAt(row, t) == [row EXCEPT !.revoked = t]

\* Mutant: the idempotency window is forgotten.
EvaluateGrant_NoWindow(row, t) == IF CanReGrant(row, t) THEN "renew" ELSE "refuse"

\* EvaluateGrant: an active consent granted within the window stays as it is.
EvaluateGrant(row, t) ==
  CASE IsActive(row, t) /\ t - row.granted < GrantWindow -> "keep"
    [] ~(IsActive(row, t) /\ t - row.granted < GrantWindow)
         /\ ~CanReGrant(row, t) -> "refuse"
    [] OTHER -> "renew"

-----------------------------------------------------------------------------
(* Transactions *)

\* The context's deadline has not passed.
InTime(r) == now <= req[r].at + Timeout

\* What a statement of r reads: its own writes over what is committed.
Seen(r, p) ==
  IF req[r].writes[p] # Unwritten THEN req[r].writes[p] ELSE table[p]

Free(r, p) == lock[p] \in {NoReq, r}

Unlocked(r) == [p \in Purpose |-> IF lock[p] = r THEN NoReq ELSE lock[p]]

\* A request that is over keeps its operation and its result.
Over(r, result) ==
  req' = [req EXCEPT ![r] = [Idle EXCEPT !.pc = "done", !.op = req[r].op,
                                         !.result = result]]

\* Rows become visible to others: bookkeeping of what r did and of revocations.
Show(r, W, rows) ==
  LET new == [p \in Purpose |-> IF p \in W THEN rows[p] ELSE table[p]]
      Revoked(row) == row # NoRow /\ row.revoked # Never
  IN /\ table' = new
     /\ changed' = [changed EXCEPT ![r] = @ \cup W]
     /\ revokedOn' = [p \in Purpose |->
          IF Revoked(new[p]) /\ ~Revoked(table[p]) THEN now ELSE revokedOn[p]]

\* The rows in W are written: in the transaction, under their locks, or at
\* once.  W is taken off the list of purposes to do.
Write(r, W, rows) ==
  /\ req' = [req EXCEPT ![r].todo = @ \ W, ![r].cur = NoPurpose,
       ![r].tries = 0, ![r].pc = "execute",
       ![r].writes = [p \in Purpose |-> IF p \in W THEN rows[p] ELSE @[p]]]
  /\ IF Backend = "memory"
       THEN Show(r, W, rows) /\ UNCHANGED lock
       ELSE /\ lock' = [p \in Purpose |-> IF p \in W THEN r ELSE lock[p]]
            /\ UNCHANGED <<table, history>>

\* A scope is done without a write; a row that was read stays locked.
Pass(r, p) ==
  /\ req' = [req EXCEPT ![r].todo = @ \ {p}, ![r].cur = NoPurpose, ![r].tries = 0]
  /\ lock' = [lock EXCEPT ![p] =
       IF Backend = "postgres" /\ Seen(r, p) # NoRow THEN r ELSE @]
  /\ UNCHANGED <<table, history>>

\* The deferred Unlock.
Release(r) == mutex' = IF mutex = r THEN NoReq ELSE mutex

\* Mutant: the deferred call commits.
RollBack_Commits(r) ==
  /\ lock' = Unlocked(r) /\ Release(r)
  /\ Show(r, {p \in Purpose : req[r].writes[p] # Unwritten}, req[r].writes)

\* The transaction ends without a commit.  The mutex has nothing to undo.
RollBack(r) ==
  /\ lock' = Unlocked(r)
  /\ Release(r)
  /\ UNCHANGED <<table, history>>

-----------------------------------------------------------------------------
(* Operations of the service *)

\* What a handler lets through: a grant or a revocation names a purpose.
Accepts(op, S) ==
  CASE op \in {"grant", "revoke"} -> S # {}
    [] op = "require" -> Cardinality(S) = 1
    [] OTHER -> S = {}

\* A handler knows the user and has read the request, and calls the service.
Arrive(r, op, S) ==
  /\ req[r].pc = "idle" /\ Accepts(op, S)
  /\ now + Timeout < MaxTime          \* bound: every deadline passes
  /\ req' = [req EXCEPT ![r] = [Idle EXCEPT !.pc = "begin", !.op = op,
                                            !.at = now, !.todo = S]]
  /\ UNCHANGED <<now, table, lock, mutex, audit, history>>

\* The rows the single statement of revokeall or delete finds at its start.
Matching(r) ==
  {p \in Purpose : /\ table[p] # NoRow
                   /\ req[r].op = "revokeall" => CanRevoke(table[p], req[r].at)}

\* RunInTx: BeginTx, or the mutex and a second look at the context.
Begin(r) ==
  /\ req[r].pc = "begin" /\ req[r].op # "require" /\ InTime(r)
  /\ Backend = "memory" => mutex = NoReq
  /\ mutex' = IF Backend = "memory" THEN r ELSE mutex
  /\ req' = [req EXCEPT ![r].pc = "execute",
       ![r].todo = IF req[r].op \in {"revokeall", "delete"} THEN Matching(r) ELSE @]
  /\ UNCHANGED <<now, table, lock, audit, history>>

\* r may work on p: it is its turn and, in SQL, nobody else holds the row.
Turn(r, p) ==
  /\ req[r].pc = "execute" /\ p \in req[r].todo /\ req[r].cur \in {p, NoPurpose}
  /\ Backend = "postgres" => InTime(r)

\* SELECT ... FOR UPDATE waits for the holder of a row that exists; a row that
\* is not committed yet is not seen, and nothing is locked.
CanRead(r, p) == Seen(r, p) # NoRow => Free(r, p)

\* upsertGrantTx, Execute: evaluate the grant on the locked row.
GrantScope(r, p) ==
  LET row == Seen(r, p)  t == req[r].at IN
  /\ req[r].op = "grant" /\ Turn(r, p) /\ CanRead(r, p)
  /\ \/ /\ row = NoRow                                   \* ErrNotFound
        /\ req' = [req EXCEPT ![r].pc = "insert", ![r].cur = p]
        /\ UNCHANGED <<table, lock, mutex, history>>
     \/ /\ row # NoRow /\ EvaluateGrant(row, t) = "keep"
        /\ Pass(r, p) /\ UNCHANGED mutex
     \/ /\ row # NoRow /\ EvaluateGrant(row, t) = "renew"
        /\ Write(r, {p}, [q \in {p} |-> RenewAt(row, t)]) /\ UNCHANGED mutex
     \/ /\ row # NoRow /\ EvaluateGrant(row, t) = "refuse"
        /\ Over(r, "failed") /\ RollBack(r)
  /\ UNCHANGED <<now, audit>>

\* Another transaction has inserted or deleted the row and is not over yet: an
\* insert of the same key waits for it.
KeyInDoubt(r, p) ==
  /\ ~Free(r, p)
  /\ \/ table[p] = NoRow
     \/ req[lock[p]].writes[p] = NoRow

\* createGrantTx: INSERT ... ON CONFLICT DO NOTHING.  A conflict is retried
\* from Execute; the second one fails the request.
InsertScope(r) ==
  LET p == req[r].cur IN
  /\ req[r].pc = "insert" /\ (Backend = "postgres" => InTime(r))
  /\ ~KeyInDoubt(r, p)
  /\ \/ /\ table[p] = NoRow
        /\ Write(r, {p}, [q \in {p} |-> NewRecord(req[r].at)]) /\ UNCHANGED mutex
     \/ /\ table[p] # NoRow /\ req[r].tries = 0
        /\ req' = [req EXCEPT ![r].pc = "execute", ![r].tries = 1]
        /\ UNCHANGED <<table, lock, mutex, history>>
     \/ /\ table[p] # NoRow /\ req[r].tries = 1
        /\ Over(r, "failed") /\ RollBack(r)
  /\ UNCHANGED <<now, audit>>

\* tryRevokeScopeTx: a missing, expired or revoked record is passed over.
RevokeScope(r, p) ==
  LET row == Seen(r, p) IN
  /\ req[r].op = "revoke" /\ Turn(r, p) /\ CanRead(r, p)
  /\ \/ /\ row = NoRow \/ ~CanRevoke(row, req[r].at)
        /\ Pass(r, p)
     \/ /\ row # NoRow /\ CanRevoke(row, req[r].at)
        /\ Write(r, {p}, [q \in {p} |-> RevokeAt(row, req[r].at)])
  /\ UNCHANGED <<now, mutex, audit>>

\* What revokeall or delete makes of a row it has locked.
Swept(r, row) ==
  IF req[r].op = "delete" THEN NoRow ELSE RevokeAt(row, req[r].at)

\* RevokeAllByUser, DeleteByUser in SQL: one statement that locks and changes
\* its rows one after the other, and looks again at a row it had to wait for.
SweepRow(r, p) ==
  LET row == Seen(r, p) IN
  /\ Backend = "postgres" /\ req[r].op \in {"revokeall", "delete"}
  /\ Turn(r, p) /\ Free(r, p)
  /\ \/ /\ row = NoRow \/ (req[r].op = "revokeall" /\ ~CanRevoke(row, req[r].at))
        /\ Pass(r, p)
     \/ /\ row # NoRow /\ (req[r].op = "revokeall" => CanRevoke(row, req[r].at))
        /\ Write(r, {p}, [q \in {p} |-> Swept(r, row)])
  /\ UNCHANGED <<now, mutex, audit>>

\* RevokeAllByUser, DeleteByUser in memory: all rows under the store's lock.
SweepAll(r) ==
  /\ Backend = "memory" /\ req[r].op \in {"revokeall", "delete"}
  /\ req[r].pc = "execute" /\ req[r].todo # {}
  /\ Write(r, req[r].todo, [p \in req[r].todo |-> Swept(r, table[p])])
  /\ UNCHANGED <<now, mutex, audit>>

Written(r) == {p \in Purpose : req[r].writes[p] # Unwritten}

\* Grant and Revoke: one event per purpose that was changed.
GrantEvents(r) == Written(r)
RevokeEvents(r) == Written(r)

\* RevokeAll: one event, if anything was revoked.
RevokeAllEvents(r) == IF Written(r) = {} THEN {} ELSE {AllPurposes}

\* DeleteAll: one event, also when nothing was there.
DeleteAllEvents(r) == {AllPurposes}

\* The events that follow the commit.
Effects(r) ==
  CASE req[r].op = "grant" -> GrantEvents(r)
    [] req[r].op = "revoke" -> RevokeEvents(r)
    [] req[r].op = "revokeall" -> RevokeAllEvents(r)
    [] OTHER -> DeleteAllEvents(r)

\* The transaction commits (in memory: the mutex is released) and the request
\* goes on to its audit events.  The answer of a commit may be lost.
Commit(r, answered) ==
  /\ req[r].pc = "execute" /\ req[r].op # "require" /\ req[r].todo = {}
  /\ Backend = "postgres" => InTime(r)
  /\ answered \/ Backend = "postgres"
  /\ IF Backend = "postgres"
       THEN Show(r, Written(r), req[r].writes)
       ELSE UNCHANGED <<table, history>>
  /\ lock' = Unlocked(r) /\ Release(r)
  /\ IF answered
       THEN req' = [req EXCEPT ![r] = [Idle EXCEPT !.pc = "audit", !.op = req[r].op,
                      !.at = req[r].at, !.result = "ok", !.events = Effects(r)]]
       ELSE Over(r, "unknown")
  /\ UNCHANGED <<now, audit>>

\* Mutant: the error of the transaction is ignored and its events are emitted.
Abort_StillAudits(r) ==
  /\ req[r].pc \in {"begin", "execute", "insert"} /\ req[r].op # "require"
  /\ Backend = "postgres" \/ req[r].pc = "begin"
  /\ req' = [req EXCEPT ![r].pc = "audit", ![r].events = Effects(r)]
  /\ RollBack(r) /\ UNCHANGED <<now, audit>>

\* A statement fails, the context is cancelled or past its deadline, or the
\* database picks r as the victim of a deadlock.  In memory only the check of
\* the context can fail, once the mutex is free and before the first write.
Abort(r) ==
  /\ req[r].pc \in {"begin", "execute", "insert"}
  /\ Backend = "postgres" \/ (req[r].pc = "begin" /\ mutex = NoReq)
  /\ Over(r, "failed") /\ RollBack(r) /\ UNCHANGED <<now, audit>>

\* A missing, revoked or expired consent fails the check.
CheckOutcome(row, t) ==
  IF row # NoRow /\ ComputeStatus(row, t) = "active" THEN "ok" ELSE "failed"

\* Require: the committed row decides, at the time of the request's arrival.
Require(r, p) ==
  /\ req[r].pc = "begin" /\ req[r].op = "require" /\ p \in req[r].todo
  /\ InTime(r)
  /\ req' = [req EXCEPT ![r].pc = "audit", ![r].todo = {}, ![r].events = {p},
       ![r].result = CheckOutcome(table[p], req[r].at)]
  /\ UNCHANGED <<now, table, lock, mutex, audit, history>>

\* Publisher.Emit: the append fails with the store, and always once the context
\* has expired.
Appends(r, stored) == IF stored THEN InTime(r) ELSE AuditFails \/ ~InTime(r)

\* emitAudit: outside the transaction, and a failure is only logged.
Emit(r, e, stored) ==
  /\ req[r].pc = "audit" /\ e \in req[r].events /\ Appends(r, stored)
  /\ audit' = [audit EXCEPT ![r] = IF stored THEN @ \cup {e} ELSE @]
  /\ req' = [req EXCEPT ![r].events = @ \ {e}]
  /\ UNCHANGED <<now, table, lock, mutex, history>>

\* The service returns.
Return(r) ==
  /\ req[r].pc = "audit" /\ req[r].events = {}
  /\ Over(r, req[r].result)
  /\ UNCHANGED <<now, table, lock, mutex, audit, history>>

Tick ==
  /\ now < MaxTime /\ now' = now + 1
  /\ UNCHANGED <<table, lock, mutex, req, audit, history>>

\* What a request does by itself once it has arrived.
Step(r) ==
  \/ Begin(r) \/ InsertScope(r) \/ SweepAll(r) \/ Return(r)
  \/ \E p \in Purpose : \/ GrantScope(r, p) \/ RevokeScope(r, p)
                        \/ SweepRow(r, p) \/ Require(r, p)
  \/ \E e \in req[r].events, stored \in BOOLEAN : Emit(r, e, stored)
  \/ \E answered \in BOOLEAN : Commit(r, answered)

Next ==
  \/ \E r \in Req : \/ \E op \in Ops, S \in SUBSET Purpose : Arrive(r, op, S)
                   \/ Step(r)
                   \/ Abort(r)
  \/ Tick

Spec == Init /\ [][Next]_vars

\* A statement ends with a result, or the context cancels it; the clock runs.
Fairness ==
  /\ WF_vars(Tick)
  /\ \A r \in Req : /\ WF_vars(Step(r))
                    /\ WF_vars(Abort(r) /\ now > req[r].at + Timeout)

FairSpec == Spec /\ Fairness
-----------------------------------------------------------------------------
(* Properties *)

\* A revoked consent is not active again before the cooldown has passed since
\* the revocation became visible, up to the age a request may have: requests
\* that carry older times and locks that are held long do not shorten it more
\* (EvaluateGrant in Execute, FOR UPDATE).  This is of SQL; under the mutex a
\* revocation may become visible long after its time.
RegrantSpaced ==
  [][\A p \in Purpose :
       (/\ table[p] # NoRow /\ table[p].revoked # Never
        /\ table'[p] # NoRow /\ table'[p].revoked = Never)
       => now - revokedOn[p] >= ReGrantCooldown - Timeout]_vars

\* The grant time of a record never goes back, although slow requests apply
\* old times: the idempotency window and the cooldown keep them off a record
\* that is younger than they are (EvaluateGrant).
GrantedAdvances ==
  [][\A p \in Purpose :
       table[p] # NoRow /\ table'[p] # NoRow
       => table'[p].granted >= table[p].granted]_vars

\* A request on several purposes that is answered with an error has changed
\* none of them (forEachScope in RunInTx).
AllOrNothing ==
  \A r \in Req : req[r].result = "failed" => changed[r] = {}

\* Every event about a grant or a revocation is about a change that is visible
\* (effects are emitted after the commit, and only then).
AuditTruthful ==
  \A r \in Req : req[r].op \in {"grant", "revoke"} => audit[r] \subseteq changed[r]

\* The calling operation fails if its audit event cannot be persisted.
\* The code does not keep this statement.
FailClosed ==
  \A r \in Req :
    (req[r].pc = "done" /\ req[r].result = "ok" /\ req[r].op \in {"grant", "revoke"})
    => changed[r] \subseteq audit[r]

\* Two transactions never hold uncommitted versions of the same record, so no
\* decision is taken on a row that another one is about to replace (FOR UPDATE
\* in executeWithTx, the unique key of InsertConsent).
WritesExclusive ==
  \A r, s \in Req, p \in Purpose :
    (/\ req[r].writes[p] # Unwritten /\ req[s].writes[p] # Unwritten
     /\ req[r].pc \in {"execute", "insert"} /\ req[s].pc \in {"execute", "insert"})
    => r = s

\* Every request ends, also when transactions wait for each other's rows in a
\* cycle (the deadline of the context, Rollback in RunInTx).
RequestsReturn ==
  \A r \in Req : (req[r].pc = "begin") ~> (req[r].pc = "done")
=============================================================================
