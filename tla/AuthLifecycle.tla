---------------------------- MODULE AuthLifecycle ----------------------------
(***************************************************************************)
(* The session and token lifecycle of internal/auth on the Postgres        *)
(* stores: authorize, authorization-code exchange, refresh, the three      *)
(* revocation paths, user deletion and the cleanup worker.                 *)
(*                                                                         *)
(* A request is a process of one server.  It is split where the code gives *)
(* other requests a chance to run: at every store call (each store call is *)
(* its own database transaction) and at the service's transaction mutex    *)
(* (authTx, one per server process, which never rolls back).  Several      *)
(* servers may share the database; one server has one mutex.               *)
(*                                                                         *)
(* Abstractions.  A session has one authorization code, so the code is     *)
(* named by its session.  One issuance names both the access token's JTI   *)
(* and the refresh token created with it.  Every early return that leaves  *)
(* the state alone (unknown grant, client, tenant or redirect URI          *)
(* mismatch, inactive user, a store error, a cancelled context, a crash of *)
(* the server) is the action Reject.                                       *)
(***************************************************************************)
EXTENDS Naturals, FiniteSets

CONSTANTS
  Session,      \* session ids, never reused; also names the session's code
  Tok,          \* issuance ids: a JTI and the refresh token issued with it
  User,         \* user ids, never reused
  EmailOf,      \* the e-mail address a user id belongs to
  Proc,         \* concurrent requests
  Server,       \* server processes, each with its own authTx mutex
  ServerOf,     \* the server that runs a request
  None,
  SessionTTL, CodeTTL, RefreshTTL, TokenTTL,
  TRLFailureMode,   \* "warn" (the default) or "fail"
  Ops,              \* bound: the operations clients call in this instance
  MaxTime           \* bound: the clock stops here

ASSUME IdsAssumption ==
  /\ Session \cap Tok = {} /\ Proc \cap (Session \cup Tok) = {}
  /\ None \notin Session \cup Tok \cup User \cup Proc
  /\ ServerOf \in [Proc -> Server]

ASSUME TimesAssumption ==
  /\ SessionTTL \in Nat /\ CodeTTL \in Nat
  /\ RefreshTTL \in Nat /\ TokenTTL \in Nat \ {0}
  /\ MaxTime \in Nat
  /\ TRLFailureMode \in {"warn", "fail"}

VARIABLES
  now,          \* wall clock
  users,        \* users table: "free" (never inserted), "live", "gone"
  sessions,     \* sessions table
  codes,        \* authorization_codes table
  refresh,      \* refresh_tokens table
  access,       \* access tokens minted so far (no table: they are JWTs)
  trl,          \* token revocation list: expiry of the entry, 0 when absent
  lock,         \* holder of each server's authTx mutex
  req,          \* local state of every request
  cleaner       \* local state of the cleanup worker

store == <<users, sessions, codes, refresh, access, trl>>
vars == <<now, users, sessions, codes, refresh, access, trl, lock, req, cleaner>>

Grant == Session \cup Tok     \* what a token request presents: code or refresh token

SessionRow == [st: {"free", "pending_consent", "active", "revoked", "gone"},
               user: User \cup {None}, jti: Tok \cup {None}, exp: Nat]
CodeRow == [st: {"free", "unused", "used", "gone"}, exp: Nat]
RefreshRow == [st: {"free", "unused", "used", "gone"},
               sess: Session \cup {None}, exp: Nat]
AccessToken == [sess: Session \cup {None}, parent: Grant \cup {None}, exp: Nat]
Op == {"none", "authorize", "exchange", "refresh", "revokeSession", "revokeToken",
       "logoutAll", "deleteUser"}
PC == {"idle", "load", "lock", "user", "session", "code", "consume", "replay", "advance",
       "create", "resolve", "revoke", "trl", "delRefresh", "delSessions", "delUser"}
Request == [op: Op, pc: PC, at: Nat, sess: Session \cup {None}, user: User \cup {None},
            grant: Grant \cup {None}, jti: Tok \cup {None},
            todo: SUBSET (Session \X (Tok \cup {None}))]

\* The variables range over the values of their tables and program counters.
TypeOK ==
  /\ now \in Nat
  /\ users \in [User -> {"free", "live", "gone"}]
  /\ sessions \in [Session -> SessionRow]
  /\ codes \in [Session -> CodeRow]
  /\ refresh \in [Tok -> RefreshRow]
  /\ access \in [Tok -> AccessToken]
  /\ trl \in [Tok -> Nat]
  /\ lock \in [Server -> Proc \cup {None}]
  /\ req \in [Proc -> Request]
  /\ cleaner \in [pc: 0..4, at: Nat]

-----------------------------------------------------------------------------
\* Local state of a request: made for a user or a grant, or to revoke sessions.
Made(op, pc, at, user, sess, grant) ==
  [op |-> op, pc |-> pc, at |-> at, sess |-> sess, user |-> user, grant |-> grant,
   jti |-> None, todo |-> {}]
Revoking(op, pc, sess, jti, todo) ==
  [op |-> op, pc |-> pc, at |-> 0, sess |-> sess, user |-> None, grant |-> None,
   jti |-> jti, todo |-> todo]
Idle == Made("none", "idle", 0, None, None, None)

Init ==
  /\ now = 0
  /\ users = [u \in User |-> "free"]
  /\ sessions = [s \in Session |-> [st |-> "free", user |-> None, jti |-> None, exp |-> 0]]
  /\ codes = [s \in Session |-> [st |-> "free", exp |-> 0]]
  /\ refresh = [t \in Tok |-> [st |-> "free", sess |-> None, exp |-> 0]]
  /\ access = [t \in Tok |-> [sess |-> None, parent |-> None, exp |-> 0]]
  /\ trl = [t \in Tok |-> 0]
  /\ lock = [v \in Server |-> None]
  /\ req = [p \in Proc |-> Idle]
  /\ cleaner = [pc |-> 0, at |-> 0]

HasRow(s) == sessions[s].st \in {"pending_consent", "active", "revoked"}
Stored(st) == st \in {"unused", "used"}
Minted(t) == access[t].sess # None

At(p, op, pc) == req[p].op \in op /\ req[p].pc = pc
Goto(p, pc) == req' = [req EXCEPT ![p].pc = pc]
Return(p) == req' = [req EXCEPT ![p] = Idle]
Begin(p, r) == req[p] = Idle /\ r.op \in Ops /\ req' = [req EXCEPT ![p] = r]
Release(p) == lock' = [lock EXCEPT ![ServerOf[p]] = None]
InTx(p) == req[p].pc \in {"user", "session", "code", "consume", "replay",
                          "advance", "create", "delSessions", "delUser"}

\* RunInTx: the mutex is taken and the closure entered at its first store call.
Lock(p) ==
  /\ req[p].pc = "lock"
  /\ lock[ServerOf[p]] = None
  /\ lock' = [lock EXCEPT ![ServerOf[p]] = p]
  /\ \/ req[p].op = "authorize" /\ Goto(p, "user")
     \/ req[p].op = "deleteUser" /\ Goto(p, "delSessions")
     \/ req[p].op \in {"exchange", "refresh"} /\ Goto(p, "consume")
  /\ UNCHANGED <<now, store, cleaner>>

(***************************************************************************)
(* Early returns and failures: nothing done so far is undone, the mutex is *)
(* released.  A request waiting for the mutex sees a cancelled context     *)
(* only once it has it.                                                    *)
(***************************************************************************)
Reject(p) ==
  /\ req[p].pc # "idle"
  /\ req[p].pc = "lock" => lock[ServerOf[p]] = None
  /\ Return(p)
  /\ IF InTx(p) THEN Release(p) ELSE UNCHANGED lock
  /\ UNCHANGED <<now, store, cleaner>>

-----------------------------------------------------------------------------
(* POST /auth/authorize *)

\* Authorize up to authorizeInTx: the request time is fixed here.
Authorize(p, u) ==
  /\ Begin(p, Made("authorize", "lock", now, u, None, None))
  /\ UNCHANGED <<now, store, lock, cleaner>>

\* findOrCreateUser: the live user of the e-mail address, else a new one.
FindOrCreateUser(p) ==
  LET same == {u \in User : EmailOf[u] = EmailOf[req[p].user]} IN
  /\ req[p].pc = "user"
  /\ \E u \in same :
       /\ \/ users[u] = "live"
          \/ users[u] = "free" /\ \A w \in same : users[w] # "live"
       /\ users' = [users EXCEPT ![u] = "live"]
       /\ req' = [req EXCEPT ![p] = [@ EXCEPT !.user = u, !.pc = "session"]]
  /\ UNCHANGED <<now, sessions, codes, refresh, access, trl, lock, cleaner>>

\* Sessions.Create; the foreign key to users makes the insert fail otherwise.
CreateSession(p) ==
  /\ req[p].pc = "session"
  /\ users[req[p].user] = "live"
  /\ \E s \in Session :
       /\ sessions[s].st = "free"
       /\ sessions' = [sessions EXCEPT ![s] = [st |-> "pending_consent",
            user |-> req[p].user, jti |-> None, exp |-> req[p].at + SessionTTL]]
       /\ req' = [req EXCEPT ![p] = [@ EXCEPT !.sess = s, !.pc = "code"]]
  /\ UNCHANGED <<now, users, codes, refresh, access, trl, lock, cleaner>>

\* Mutant: the mutex is not released.
CreateCode_NoUnlock(p) ==
  /\ req[p].pc = "code"
  /\ HasRow(req[p].sess)
  /\ codes' = [codes EXCEPT ![req[p].sess] =
                 [st |-> "unused", exp |-> req[p].at + CodeTTL]]
  /\ Return(p)
  /\ UNCHANGED <<now, users, sessions, refresh, access, trl, lock, cleaner>>

\* Codes.Create (foreign key to sessions), then the transaction ends.
CreateCode(p) ==
  /\ req[p].pc = "code"
  /\ HasRow(req[p].sess)
  /\ codes' = [codes EXCEPT ![req[p].sess] =
                 [st |-> "unused", exp |-> req[p].at + CodeTTL]]
  /\ Return(p) /\ Release(p)
  /\ UNCHANGED <<now, users, sessions, refresh, access, trl, cleaner>>

-----------------------------------------------------------------------------
(* POST /auth/token *)

\* exchangeAuthorizationCode: FindByCode outside the transaction.
ExchangeCode(p, s) ==
  /\ Stored(codes[s].st)
  /\ Begin(p, Made("exchange", "load", now, None, s, s))
  /\ UNCHANGED <<now, store, lock, cleaner>>

\* refreshWithRefreshToken: RefreshTokens.Find outside the transaction.
RefreshToken(p, t) ==
  /\ Stored(refresh[t].st)
  /\ Begin(p, Made("refresh", "load", now, None, refresh[t].sess, t))
  /\ UNCHANGED <<now, store, lock, cleaner>>

\* Sessions.FindByID and prepareTokenFlow: reads only, before the mutex.
PrepareTokenFlow(p) ==
  /\ req[p].pc = "load"
  /\ HasRow(req[p].sess)
  /\ Goto(p, "lock")
  /\ UNCHANGED <<now, store, lock, cleaner>>

\* Mutant: the used flag is not looked at.
ValidateForConsume_NoUsed(row, at) == IF at > row.exp THEN "expired" ELSE "ok"

\* ValidateForConsume: the expiry is looked at before the used flag.
ValidateForConsume(row, at) ==
  IF at > row.exp THEN "expired" ELSE IF row.st = "used" THEN "used" ELSE "ok"

\* consumeCodeWithReplayProtection up to the end of Codes.Execute.
ConsumeCode(p) ==
  LET g == req[p].grant
      verdict == ValidateForConsume(codes[g], req[p].at) IN
  /\ At(p, {"exchange"}, "consume")
  /\ Stored(codes[g].st)
  /\ \/ /\ verdict = "ok"
        /\ codes' = [codes EXCEPT ![g].st = "used"]
        /\ Goto(p, "advance")
     \/ verdict = "used" /\ Goto(p, "replay") /\ UNCHANGED codes
  /\ UNCHANGED <<now, users, sessions, refresh, access, trl, lock, cleaner>>

\* consumeRefreshTokenWithReplayProtection up to the end of RefreshTokens.Execute.
ConsumeRefreshToken(p) ==
  LET g == req[p].grant
      verdict == ValidateForConsume(refresh[g], req[p].at) IN
  /\ At(p, {"refresh"}, "consume")
  /\ Stored(refresh[g].st)
  /\ \/ /\ verdict = "ok"
        /\ refresh' = [refresh EXCEPT ![g].st = "used"]
        /\ Goto(p, "advance")
     \/ verdict = "used" /\ Goto(p, "replay") /\ UNCHANGED refresh
  /\ UNCHANGED <<now, users, sessions, codes, access, trl, lock, cleaner>>

\* RevokeSessionIfActive under the row lock: no effect unless CanRevoke.
RevokeIfActive(s) ==
  sessions' = IF sessions[s].st \in {"pending_consent", "active"}
              THEN [sessions EXCEPT ![s].st = "revoked"] ELSE sessions

\* revokeSessionOnReplay: only the session row changes; the request fails.
RevokeOnReplay(p) ==
  /\ req[p].pc = "replay"
  /\ RevokeIfActive(req[p].sess)
  /\ Return(p) /\ Release(p)
  /\ UNCHANGED <<now, users, codes, refresh, access, trl, cleaner>>

\* Mutant: only the pending state is refused, not the revoked one.
ValidateForAdvance_NoRevoked(row, at, allowPending) ==
  /\ row.st \in {"active", "revoked"} \/ (allowPending /\ row.st = "pending_consent")
  /\ at <= row.exp

\* Session.ValidateForAdvance with CanAdvance.
ValidateForAdvance(row, at, allowPending) ==
  /\ row.st = "active" \/ (allowPending /\ row.st = "pending_consent")
  /\ at <= row.exp

\* GenerateAccessToken: the expiry counts from the time of the request.
AccessExpiry(at) == at + TokenTTL

\* ApplyTokenJTI: what the session row remembers of the issuance.
IssuedJTI(p, t) == t

\* Activate (a pending session only) and ApplyTokenJTI.
Advanced(row, jti) ==
  [row EXCEPT !.jti = jti, !.st = IF row.st = "pending_consent" THEN "active" ELSE row.st]

\* executeTokenFlowTx, Sessions.Execute: activates a pending session and
\* records the JTI of the access token the request hands out.
AdvanceSession(p) ==
  LET s == req[p].sess IN
  /\ req[p].pc = "advance"
  /\ ValidateForAdvance(sessions[s], req[p].at, req[p].op = "exchange")
  /\ \E t \in Tok :
       /\ ~Minted(t)
       /\ sessions' = [sessions EXCEPT ![s] = Advanced(sessions[s], IssuedJTI(p, t))]
       /\ access' = [access EXCEPT ![t] = [sess |-> s, parent |-> req[p].grant,
                                           exp |-> AccessExpiry(req[p].at)]]
       /\ req' = [req EXCEPT ![p] = [@ EXCEPT !.jti = t, !.pc = "create"]]
  /\ UNCHANGED <<now, users, codes, refresh, trl, lock, cleaner>>

\* RefreshTokens.Create (foreign key to sessions), commit and answer.
CreateRefreshToken(p) ==
  /\ req[p].pc = "create"
  /\ HasRow(req[p].sess)
  /\ refresh' = [refresh EXCEPT ![req[p].jti] =
       [st |-> "unused", sess |-> req[p].sess, exp |-> req[p].at + RefreshTTL]]
  /\ Return(p) /\ Release(p)
  /\ UNCHANGED <<now, users, sessions, codes, access, trl, cleaner>>

-----------------------------------------------------------------------------
(* Revocation: none of these paths takes the mutex. *)

DeleteRefreshOf(s) ==
  refresh' = [t \in Tok |-> IF refresh[t].sess = s
                             THEN [st |-> "gone", sess |-> None, exp |-> 0]
                             ELSE refresh[t]]

\* The rest of a revocation: the next session of LogoutAll, or the answer.
NextSession(p, todo) ==
  req' = [req EXCEPT ![p] =
    IF todo = {} THEN Idle
    ELSE Revoking(req[p].op, "revoke", None, None, todo)]

\* After the session row is revoked: on to the revocation list, when the
\* session has issued an access token, else to the refresh tokens.
RevokeTokens(p, op, s, jti, todo) ==
  req' = [req EXCEPT ![p] =
    Revoking(op, IF jti = None THEN "delRefresh" ELSE "trl", s, jti, todo)]

\* RevokeSession: ownership and CanRevoke are checked under the row lock and
\* the JTI comes from the row as it was updated.
RevokeSession(p, u, s) ==
  /\ req[p] = Idle /\ "revokeSession" \in Ops
  /\ sessions[s].user = u
  /\ sessions[s].st \in {"pending_consent", "active"}
  /\ sessions' = [sessions EXCEPT ![s].st = "revoked"]
  /\ RevokeTokens(p, "revokeSession", s, sessions[s].jti, {})
  /\ UNCHANGED <<now, users, codes, refresh, access, trl, lock, cleaner>>

\* RevokeToken with an access token: the JTI is the token's own.
RevokeAccessToken(p, t) ==
  /\ Minted(t) /\ HasRow(access[t].sess)
  /\ Begin(p, Revoking("revokeToken", "revoke", None, None, {<<access[t].sess, t>>}))
  /\ UNCHANGED <<now, store, lock, cleaner>>

\* RevokeToken with a refresh token: findSessionByRefreshToken, first read ...
RevokeRefreshToken(p, t) ==
  /\ Stored(refresh[t].st)
  /\ Begin(p, Revoking("revokeToken", "resolve", refresh[t].sess, None, {}))
  /\ UNCHANGED <<now, store, lock, cleaner>>

\* ... and second read: the session is a copy, its JTI may be stale when used.
ResolveSession(p) ==
  LET s == req[p].sess IN
  /\ req[p].pc = "resolve"
  /\ HasRow(s)
  /\ NextSession(p, {<<s, sessions[s].jti>>})
  /\ UNCHANGED <<now, store, lock, cleaner>>

\* LogoutAll: a snapshot of the user's sessions, keeping the current one or none.
LogoutAll(p, u, keep) ==
  LET mine == {s \in Session \ {keep} : HasRow(s) /\ sessions[s].user = u} IN
  /\ mine # {}
  /\ Begin(p, Revoking("logoutAll", "revoke", None, None,
                       {<<s, sessions[s].jti>> : s \in mine}))
  /\ UNCHANGED <<now, store, lock, cleaner>>

\* revokeSessionInternal, first call: RevokeSessionIfActive.  A session that is
\* gone or already revoked is passed over.
RevokeSessionInternal(p) ==
  /\ req[p].pc = "revoke"
  /\ \E x \in req[p].todo :
       LET rest == req[p].todo \ {x} IN
       /\ RevokeIfActive(x[1])
       /\ IF sessions[x[1]].st \in {"pending_consent", "active"}
          THEN RevokeTokens(p, req[p].op, x[1], x[2], rest)
          ELSE NextSession(p, rest)
  /\ UNCHANGED <<now, users, codes, refresh, access, trl, lock, cleaner>>

\* A store error on one session of LogoutAll is counted and passed over.
SkipSession(p) ==
  /\ At(p, {"logoutAll"}, "revoke")
  /\ \E x \in req[p].todo : NextSession(p, req[p].todo \ {x})
  /\ UNCHANGED <<now, store, lock, cleaner>>

\* Mutant: the lifetime counts from the start of the request.
WriteTRL_RequestTime(p) ==
  /\ req[p].pc = "trl"
  /\ trl' = [trl EXCEPT ![req[p].jti] = req[p].at + TokenTTL]
  /\ Goto(p, "delRefresh")
  /\ UNCHANGED <<now, users, sessions, codes, refresh, access, lock, cleaner>>

\* trl.RevokeToken: upsert with the configured token lifetime.
WriteTRL(p) ==
  /\ req[p].pc = "trl"
  /\ trl' = [trl EXCEPT ![req[p].jti] = now + TokenTTL]
  /\ Goto(p, "delRefresh")
  /\ UNCHANGED <<now, users, sessions, codes, refresh, access, lock, cleaner>>

\* The write fails: "warn" goes on, "fail" gives up on this session.
FailTRL(p) ==
  /\ req[p].pc = "trl"
  /\ IF TRLFailureMode = "warn" THEN Goto(p, "delRefresh")
                               ELSE NextSession(p, req[p].todo)
  /\ UNCHANGED <<now, store, lock, cleaner>>

\* refreshTokens.DeleteBySessionID; its failure is only logged.
DeleteRefreshTokens(p) ==
  /\ req[p].pc = "delRefresh"
  /\ DeleteRefreshOf(req[p].sess) \/ UNCHANGED refresh
  /\ NextSession(p, req[p].todo)
  /\ UNCHANGED <<now, users, sessions, codes, access, trl, lock, cleaner>>

-----------------------------------------------------------------------------
(* Deletion of rows; ON DELETE CASCADE takes codes and refresh tokens along. *)

DeleteSessionRows(S) ==
  /\ sessions' = [s \in Session |-> IF s \in S
       THEN [st |-> "gone", user |-> None, jti |-> None, exp |-> 0] ELSE sessions[s]]
  /\ codes' = [s \in Session |-> IF s \in S THEN [st |-> "gone", exp |-> 0] ELSE codes[s]]
  /\ refresh' = [t \in Tok |-> IF refresh[t].sess \in S
       THEN [st |-> "gone", sess |-> None, exp |-> 0] ELSE refresh[t]]

\* DeleteUser: the user is looked up before the transaction.
DeleteUser(p, u) ==
  /\ users[u] = "live"
  /\ Begin(p, Made("deleteUser", "lock", 0, u, None, None))
  /\ UNCHANGED <<now, store, lock, cleaner>>

SessionsOf(u) == {s \in Session : HasRow(s) /\ sessions[s].user = u}

\* DeleteSessionsByUser; no session at all is not an error.
DeleteSessionsByUser(p) ==
  /\ req[p].pc = "delSessions"
  /\ DeleteSessionRows(SessionsOf(req[p].user))
  /\ Goto(p, "delUser")
  /\ UNCHANGED <<now, users, access, trl, lock, cleaner>>

\* Users.Delete, cascading to sessions another server created meanwhile.
DeleteUserRow(p) ==
  /\ req[p].pc = "delUser"
  /\ users[req[p].user] = "live"
  /\ users' = [users EXCEPT ![req[p].user] = "gone"]
  /\ DeleteSessionRows(SessionsOf(req[p].user))
  /\ Return(p) /\ Release(p)
  /\ UNCHANGED <<now, access, trl, cleaner>>

-----------------------------------------------------------------------------
(* The cleanup worker: RunOnce is four store calls with one time stamp. *)

CleanupStart ==
  /\ "cleanup" \in Ops
  /\ cleaner.pc = 0
  /\ cleaner' = [pc |-> 1, at |-> now]
  /\ UNCHANGED <<now, store, lock, req>>

\* The call for one table returns; its error is collected and the next follows.
CleanupStep(i) ==
  /\ cleaner.pc = i
  /\ cleaner' = IF i = 4 THEN [pc |-> 0, at |-> 0] ELSE [cleaner EXCEPT !.pc = i + 1]
  /\ UNCHANGED <<now, users, access, trl, lock, req>>

DeleteExpiredCodes ==
  /\ CleanupStep(1)
  /\ codes' = [s \in Session |-> IF Stored(codes[s].st) /\ codes[s].exp < cleaner.at
                                  THEN [st |-> "gone", exp |-> 0] ELSE codes[s]]
  /\ UNCHANGED <<sessions, refresh>>

DropTokens(T) ==
  refresh' = [t \in Tok |-> IF t \in T THEN [st |-> "gone", sess |-> None, exp |-> 0]
                                       ELSE refresh[t]]

DeleteExpiredTokens ==
  /\ CleanupStep(2)
  /\ DropTokens({t \in Tok : Stored(refresh[t].st) /\ refresh[t].exp < cleaner.at})
  /\ UNCHANGED <<sessions, codes>>

DeleteUsedTokens ==
  /\ CleanupStep(3)
  /\ DropTokens({t \in Tok : refresh[t].st = "used"})
  /\ UNCHANGED <<sessions, codes>>

\* Mutant: only the sessions that are still active are removed.
DeleteExpiredSessions_ActiveOnly ==
  /\ CleanupStep(4)
  /\ DeleteSessionRows({s \in Session : sessions[s].st = "active"
                                         /\ sessions[s].exp < cleaner.at})

DeleteExpiredSessions ==
  /\ CleanupStep(4)
  /\ DeleteSessionRows({s \in Session : HasRow(s) /\ sessions[s].exp < cleaner.at})

CleanupFails ==
  \E i \in 1..4 : CleanupStep(i) /\ UNCHANGED <<sessions, codes, refresh>>

Tick ==
  /\ now < MaxTime
  /\ now' = now + 1
  /\ UNCHANGED <<store, lock, req, cleaner>>

-----------------------------------------------------------------------------
\* A client calls an endpoint.
Call(p) ==
  \/ \E u \in User : Authorize(p, u) \/ DeleteUser(p, u)
  \/ \E s \in Session : ExchangeCode(p, s)
  \/ \E t \in Tok : RefreshToken(p, t) \/ RevokeAccessToken(p, t)
                     \/ RevokeRefreshToken(p, t)
  \/ \E u \in User, s \in Session : RevokeSession(p, u, s)
  \/ \E u \in User, keep \in Session \cup {None} : LogoutAll(p, u, keep)

\* A request in progress: its next store call returns.
Step(p) ==
  \/ Lock(p) \/ Reject(p)
  \/ FindOrCreateUser(p) \/ CreateSession(p) \/ CreateCode(p)
  \/ PrepareTokenFlow(p) \/ ConsumeCode(p) \/ ConsumeRefreshToken(p)
  \/ RevokeOnReplay(p) \/ AdvanceSession(p) \/ CreateRefreshToken(p)
  \/ ResolveSession(p) \/ RevokeSessionInternal(p) \/ SkipSession(p)
  \/ WriteTRL(p) \/ FailTRL(p) \/ DeleteRefreshTokens(p)
  \/ DeleteSessionsByUser(p) \/ DeleteUserRow(p)

Cleanup ==
  \/ CleanupStart \/ DeleteExpiredCodes \/ DeleteExpiredTokens
  \/ DeleteUsedTokens \/ DeleteExpiredSessions \/ CleanupFails

Next == Tick \/ Cleanup \/ \E p \in Proc : Call(p) \/ Step(p)

Spec == Init /\ [][Next]_vars

(***************************************************************************)
(* Fairness.  A store call returns, with a result or an error, and Go's    *)
(* mutex does not starve a waiter (strong fairness of Step); the cleanup   *)
(* ticker fires, and the database does not refuse the last deletion for    *)
(* ever; time passes.  Clients need not call anything.                     *)
(***************************************************************************)
Fairness ==
  /\ \A p \in Proc : SF_vars(Step(p))
  /\ WF_vars(Cleanup) /\ SF_vars(DeleteExpiredSessions)
  /\ WF_vars(Tick)

FairSpec == Spec /\ Fairness

-----------------------------------------------------------------------------
(* Properties *)

\* One grant, one issuance: no authorization code and no refresh token is ever
\* exchanged for two access tokens, however requests, servers and the cleanup
\* worker interleave (Codes.Execute / RefreshTokens.Execute before issuance).
SingleUse ==
  \A t1, t2 \in Tok :
    Minted(t1) /\ Minted(t2) /\ access[t1].parent = access[t2].parent => t1 = t2

\* The credentials from which a session can still get tokens: its unused code,
\* its unused refresh tokens, and requests that consumed one and go on.
Credentials(s) ==
  {x \in {s} : codes[x].st = "unused"}
    \cup {t \in Tok : refresh[t].sess = s /\ refresh[t].st = "unused"}
    \cup {p \in Proc : req[p].pc \in {"advance", "create"} /\ req[p].sess = s}

\* Rotation is linear: a session never has two credentials at once, so a second
\* refresh chain can not start from one login.
OneCredential ==
  \A s \in Session : \A x, y \in Credentials(s) : x = y

\* An active session was activated by its code, and refresh tokens exist only
\* for sessions that have been activated (code first, session second, refresh
\* token last, also when a request dies between two of them).
ActivationOrder ==
  /\ \A s \in Session : sessions[s].st = "active" => codes[s].st \in {"used", "gone"}
  /\ \A t \in Tok : Stored(refresh[t].st) =>
        sessions[refresh[t].sess].st \in {"active", "revoked"}

\* A revoked session is final: its row never changes again (no activation, no
\* new JTI) until it is deleted, whatever requests were under way.
RevokedIsFinal ==
  [][\A s \in Session : sessions[s].st = "revoked" =>
        sessions'[s] = sessions[s] \/ sessions'[s].st = "gone"]_vars

\* What RequireAuth accepts: the JWT has not expired and its JTI is not listed.
IsRevoked(t) == trl[t] > 0 /\ now <= trl[t]
Accepted(t) == Minted(t) /\ now < access[t].exp /\ ~IsRevoked(t)

\* An access token that was put on the revocation list is never accepted again:
\* the entry outlives the token although both count from different clocks.
ListedTokenRefused == \A t \in Tok : trl[t] > 0 => ~Accepted(t)

\* RevokeSession lists the session's latest access token: no refresh can slip a
\* newer JTI in between the revocation of the row and the write to the list.
RevokeSessionListsLatest ==
  \A p \in Proc : At(p, {"revokeSession"}, "trl") /\ HasRow(req[p].sess) =>
    req[p].jti = sessions[req[p].sess].jti

\* Every request is answered: no wait for the mutex is for ever.
RequestsReturn == \A p \in Proc : (req[p].pc # "idle") ~> (req[p].pc = "idle")

\* A session past its expiry is eventually removed by the cleanup worker,
\* together with its codes and refresh tokens.
ExpiredSwept ==
  \A s \in Session : (HasRow(s) /\ sessions[s].exp < now) ~>
    (sessions[s].st = "gone" /\ \A t \in Tok : refresh[t].sess # s)

-----------------------------------------------------------------------------
(* The inductive invariant behind the safety properties. *)

\* A grant that can not be consumed (any more).
Spent(g) == IF g \in Session THEN codes[g].st \in {"used", "gone"}
                             ELSE refresh[g].st \in {"used", "gone"}

\* A minted token names its session and the grant it was exchanged for, the
\* grant is spent, and the session's code is no longer to be created.
MintedFrom ==
  \A t \in Tok :
    /\ ~Minted(t) => access[t].parent = None /\ refresh[t].st = "free"
    /\ Minted(t) => /\ access[t].parent \in Grant /\ Spent(access[t].parent)
                    /\ codes[access[t].sess].st # "free"
                    /\ access[t].exp <= now + TokenTTL

\* Rows refer to rows: a refresh token to the activated session it was minted
\* for, a session's JTI to a minted token, a code to a session.
Referential ==
  /\ \A t \in Tok :
       /\ Stored(refresh[t].st) <=> refresh[t].sess # None
       /\ refresh[t].sess # None => Minted(t) /\ refresh[t].sess = access[t].sess
  /\ \A s \in Session :
       /\ sessions[s].jti # None => Minted(sessions[s].jti)
       /\ sessions[s].st = "free" => codes[s].st = "free"

\* What a token request holds at each point.
TokenRequest(p) ==
  req[p].op \in {"exchange", "refresh"} =>
    /\ req[p].sess # None /\ req[p].at <= now
    /\ codes[req[p].sess].st # "free"
    /\ req[p].op = "exchange" => req[p].grant = req[p].sess
    /\ req[p].op = "refresh" =>
         req[p].grant \in Tok /\ access[req[p].grant].sess = req[p].sess
    /\ req[p].pc \in {"load", "lock", "consume", "replay", "advance", "create"}
    /\ req[p].pc = "advance" =>
         /\ Spent(req[p].grant)
         /\ \A t \in Tok : access[t].parent # req[p].grant
    /\ req[p].pc = "create" =>
         /\ req[p].jti # None /\ refresh[req[p].jti].st = "free"
         /\ access[req[p].jti].sess = req[p].sess
         /\ sessions[req[p].sess].st \in {"active", "revoked", "gone"}

\* What any request holds: a token request is the only one to consume, advance
\* and create; the session an authorize request inserted is its own until the
\* code exists; JTIs on their way to the list are minted.
OtherRequest(p) ==
  /\ req[p].pc \in {"load", "consume", "replay", "advance", "create"} =>
       req[p].op \in {"exchange", "refresh"} /\ req[p].sess # None
  /\ req[p].pc = "lock" => req[p].op \in {"authorize", "exchange", "refresh", "deleteUser"}
  /\ req[p].pc \in {"resolve", "revoke"} => req[p].op \in {"revokeToken", "logoutAll"}
  /\ req[p].pc \in {"trl", "delRefresh"} =>
       req[p].op \in {"revokeSession", "revokeToken", "logoutAll"}
  /\ req[p].pc \in {"code", "resolve", "trl", "delRefresh"} => req[p].sess # None
  /\ req[p].pc = "code" => /\ sessions[req[p].sess].st # "free"
                           /\ HasRow(req[p].sess) => codes[req[p].sess].st = "free"
  /\ req[p].pc = "trl" => req[p].jti # None /\ Minted(req[p].jti)
  /\ \A x \in req[p].todo : x[2] # None => Minted(x[2])
  /\ req[p].op = "revokeSession" => req[p].todo = {}
  /\ At(p, {"revokeSession"}, "trl") => sessions[req[p].sess].st \in {"revoked", "gone"}

Requests ==
  /\ \A p \in Proc : TokenRequest(p) /\ OtherRequest(p)
  /\ \A p, q \in Proc : req[p].pc = "code" /\ req[q].pc = "code"
                        /\ req[p].sess = req[q].sess => p = q

\* A listed token was minted; its entry is not older than the token.
ListOutlives == \A t \in Tok : trl[t] > 0 => Minted(t) /\ access[t].exp <= trl[t]

IInv ==
  /\ TypeOK /\ MintedFrom /\ Referential /\ Requests /\ ListOutlives
  /\ SingleUse /\ OneCredential /\ ActivationOrder /\ RevokeSessionListsLatest

-----------------------------------------------------------------------------
(* What comments and documents say and the code does not keep. *)

\* models.go on the authorization code: the used flag "must be set atomically
\* with session activation".  With no request under way, no code is used up
\* while its session still waits for activation.
\* The code does not keep this statement.
CodeUsedWithActivation ==
  (\A p \in Proc : req[p] = Idle) =>
    \A s \in Session : codes[s].st = "used" => sessions[s].st # "pending_consent"

\* token_revocation.go on revokeSessionInternal without a JTI: "otherwise, the
\* last access token is revoked".  The JTI LogoutAll is about to list is the
\* last one of the session.
\* The code does not keep this statement.
LogoutListsLatest ==
  \A p \in Proc : At(p, {"logoutAll"}, "trl") /\ HasRow(req[p].sess) =>
    req[p].jti = sessions[req[p].sess].jti

\* README of internal/auth: a replay of a used refresh token revokes the
\* session.  That takes the used row to be there as long as the session is
\* active and the token has not expired.
\* The code does not keep this statement.
ReplayRecognised ==
  \A t, next \in Tok :
    /\ access[next].parent = t
    /\ sessions[access[t].sess].st = "active"
    /\ now + TokenTTL <= access[t].exp + RefreshTTL
    => refresh[t].st = "used"
=============================================================================
