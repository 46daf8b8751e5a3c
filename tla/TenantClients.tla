---------------------------- MODULE TenantClients ----------------------------
(***************************************************************************)
(* Tenants and their OAuth clients: the administrators' operations on both *)
(* and the two operations of the OAuth flows, ResolveClient and the check  *)
(* of a client secret.                                                     *)
(*                                                                         *)
(* A change of one entity goes through Execute: SELECT ... FOR UPDATE,     *)
(* validate, mutate, UPDATE, COMMIT; its audit event follows the commit.   *)
(* A creation runs in RunInTx and emits its event before the commit.       *)
(* Without a database, the stores apply each call at once, under a mutex.  *)
(*                                                                         *)
(* Abstractions.  Times are left out: nothing reads created_at or          *)
(* updated_at.  The identifiers and the secret a request generates are     *)
(* fresh, so they are named after the request.  A name is its lower-case   *)
(* form and the letters used; redirect URIs and scopes are stored as given *)
(* and compared with nothing here.  bcrypt holds for the hashed secret     *)
(* only.                                                                   *)
(***************************************************************************)
EXTENDS Integers, Sequences

CONSTANTS
  SeedTenant, SeedClient,   \* rows of an earlier life of the server
  Req,                      \* requests, each used once
  NoReq, NoSecret,
  Base, Letters,            \* lower-case names and ways to write them
  Backend,                  \* "postgres" or "memory"
  Ops,                      \* the operations asked for
  GrantSets,                \* the sets of grant types asked for
  Scoped,                   \* whether the ...ForTenant variants are called
  Faults                    \* whether statements and commits may fail

Op == {"create_tenant", "deactivate_tenant", "reactivate_tenant",
       "create_client", "update_client", "deactivate_client",
       "reactivate_client", "rotate_secret", "resolve", "verify"}

GrantType == {"authorization_code", "client_credentials"}

ASSUME TenantAssumption ==
  /\ SeedTenant \cap SeedClient = {} /\ Req \cap (SeedTenant \cup SeedClient) = {}
  /\ NoReq \notin Req \cup SeedTenant \cup SeedClient
  /\ NoSecret \notin Req \cup SeedTenant \cup SeedClient
  /\ Backend \in {"postgres", "memory"} /\ Ops \subseteq Op
  /\ GrantSets \subseteq SUBSET GrantType
  /\ Scoped \in BOOLEAN /\ Faults \in BOOLEAN

VARIABLES
  tenant,     \* tenants: the committed row of each identifier
  client,     \* clients: the committed row of each identifier
  lock,       \* the transaction holding a row FOR UPDATE; "tx" is inMemoryStoreTx.mu
  req,        \* local state of every request
  emitted,    \* requests whose audit event was given to the publisher
  committed,  \* history: requests whose change became visible
  rotations,  \* history: the secrets of a client, in the order they took effect
  born,       \* history: the status of the tenant when the client appeared
  witness     \* history: what was active at some moment of a request

vars == <<tenant, client, lock, req, emitted, committed, rotations, born, witness>>
db == <<tenant, client, rotations, born, committed>>

Tenants == SeedTenant \cup Req
Clients == SeedClient \cup Req
Status == {"active", "inactive"}
Name == Base \X Letters
Lower(n) == n[1]
AnyTenant == "any tenant"

NoName == <<>>
NoTenant == [name |-> NoName, status |-> "none"]
NoClient == [tenant |-> NoReq, secret |-> NoSecret, grants |-> {}, status |-> "none"]
TenantRow == [name: Name, status: Status]
ClientRow == [tenant: Tenants, secret: Clients \cup {NoSecret},
              grants: SUBSET GrantType, status: Status]

Scopes(T) == {AnyTenant} \cup (IF Scoped THEN T ELSE {})

\* Commands over tenants T and clients C, as the handlers pass them on.
Commands(T, C) ==
  [op: {"create_tenant"}, name: Name]
    \cup [op: {"deactivate_tenant", "reactivate_tenant"}, tenant: T]
    \cup [op: {"create_client"}, tenant: T, public: BOOLEAN, grants: GrantSets]
    \cup [op: {"update_client"}, client: C, scope: Scopes(T),
          hasGrants: {TRUE}, grants: GrantSets, rotate: BOOLEAN]
    \cup [op: {"update_client"}, client: C, scope: Scopes(T),
          hasGrants: {FALSE}, grants: {{}}, rotate: BOOLEAN]
    \cup [op: {"rotate_secret"}, client: C, scope: Scopes(T)]
    \cup [op: {"deactivate_client", "reactivate_client", "resolve"}, client: C]
    \cup [op: {"verify"}, client: C, secret: Clients]
Command == Commands(Tenants, Clients)
NoCommand == [op |-> "none"]

Request == [pc: {"idle", "begin", "insert", "tenant", "commit", "emit", "done"},
            cmd: Command \cup {NoCommand},
            row: TenantRow \cup ClientRow \cup {NoClient},
            result: {"none", "ok", "refused", "failed"}]

\* Tables, locks, requests and histories have their types.
TypeOK ==
  /\ tenant \in [Tenants -> TenantRow \cup {NoTenant}]
  /\ client \in [Clients -> ClientRow \cup {NoClient}]
  /\ lock \in [Tenants \cup Clients \cup {"tx"} -> Req \cup {NoReq}]
  /\ req \in [Req -> Request]
  /\ emitted \subseteq Req /\ committed \subseteq Req
  /\ \A c \in Clients : rotations[c] \in Seq(Clients)
  /\ born \in [Clients -> Status \cup {"none"}]
  /\ witness \in [Req -> SUBSET {"client", "tenant", "both"}]

\* Public clients never hold the client_credentials grant.
Fits(c) == "client_credentials" \in c.grants => c.secret # NoSecret

Init ==
  /\ \E name \in [SeedTenant -> Name], status \in [SeedTenant -> Status] :
       /\ \A s, t \in SeedTenant : Lower(name[s]) = Lower(name[t]) => s = t
       /\ tenant = [t \in Tenants |-> IF t \in SeedTenant
            THEN [name |-> name[t], status |-> status[t]] ELSE NoTenant]
  /\ \E row \in [SeedClient -> ClientRow] :
       /\ \A c \in SeedClient :
            /\ row[c].tenant \in SeedTenant /\ row[c].secret \in {c, NoSecret}
            /\ row[c].grants \in GrantSets \ {{}} /\ Fits(row[c])
       /\ client = [c \in Clients |-> IF c \in SeedClient THEN row[c] ELSE NoClient]
  /\ lock = [k \in Tenants \cup Clients \cup {"tx"} |-> NoReq]
  /\ req = [r \in Req |-> [pc |-> "idle", cmd |-> NoCommand, row |-> NoClient,
                           result |-> "none"]]
  /\ emitted = {} /\ committed = {}
  /\ rotations = [c \in Clients |->
                    IF client[c].secret = c THEN <<c>> ELSE <<>>]
  /\ born = [c \in Clients |-> "none"]
  /\ witness = [r \in Req |-> {}]

-----------------------------------------------------------------------------
(* The rules of the aggregates (models) and of the commands *)

CanTransitionTo(s, target) ==
  <<s, target>> \in {<<"active", "inactive">>, <<"inactive", "active">>}

IsActive(row) == row.status = "active"
IsConfidential(c) == c.secret # NoSecret
RequiresConfidentialClient(grant) == grant = "client_credentials"
CanUseGrant(c, grant) == RequiresConfidentialClient(grant) => IsConfidential(c)

\* NewTenant and NewClient: created active.
NewTenant(name) == [name |-> name, status |-> "active"]
NewClient(t, secret, grants) ==
  [tenant |-> t, secret |-> secret, grants |-> grants, status |-> "active"]

\* generateSecret: none for a public client.
GenerateSecret(r, public) == IF public THEN NoSecret ELSE r

\* CreateClientCommand.Validate.
ValidCreate(cmd) ==
  /\ cmd.grants # {}
  /\ ~(cmd.public /\ "client_credentials" \in cmd.grants)

\* UpdateClientCommand.Validate: a field that is given is not empty.
ValidUpdate(cmd) == cmd.hasGrants => cmd.grants # {}

\* The handlers' and commands' checks before any store is called.
Validate(cmd) ==
  /\ cmd.op = "create_client" => ValidCreate(cmd)
  /\ cmd.op = "update_client" => ValidUpdate(cmd)

ValidateGrantChanges(c, cmd) ==
  cmd.hasGrants => \A g \in cmd.grants : CanUseGrant(c, g)

\* Whether the command gives its client a new secret.
Rotates(cmd) ==
  \/ cmd.op = "rotate_secret"
  \/ cmd.op = "update_client" /\ cmd.rotate
  \/ cmd.op = "create_client" /\ ~cmd.public

\* The ownership check of the ...ForTenant variants.
Owned(c, cmd) == cmd.scope \in {AnyTenant, c.tenant}

RotationAllowed(c) == IsConfidential(c)

CanDeactivate(row) == CanTransitionTo(row.status, "inactive")
CanReactivate(row) == CanTransitionTo(row.status, "active")

\* The validate callbacks given to Execute.
DeactivateTenant(t) == CanDeactivate(t)
ReactivateTenant(t) == CanReactivate(t)
DeactivateClient(c) == CanDeactivate(c)
ReactivateClient(c) == CanReactivate(c)
RotateClientSecret(c) == RotationAllowed(c)
RotateClientSecretForTenant(c, cmd) == Owned(c, cmd) /\ RotateClientSecret(c)
UpdateClient(c, cmd) ==
  (cmd.rotate => RotationAllowed(c)) /\ ValidateGrantChanges(c, cmd)
UpdateClientForTenant(c, cmd) == Owned(c, cmd) /\ UpdateClient(c, cmd)

Allows(row, cmd) ==
  /\ cmd.op = "deactivate_tenant" => DeactivateTenant(row)
  /\ cmd.op = "reactivate_tenant" => ReactivateTenant(row)
  /\ cmd.op = "deactivate_client" => DeactivateClient(row)
  /\ cmd.op = "reactivate_client" => ReactivateClient(row)
  /\ cmd.op = "rotate_secret" => RotateClientSecretForTenant(row, cmd)
  /\ cmd.op = "update_client" => UpdateClientForTenant(row, cmd)

ApplyDeactivation(row) == [row EXCEPT !.status = "inactive"]
ApplyReactivation(row) == [row EXCEPT !.status = "active"]
ApplyFieldUpdates(c, cmd) ==
  [c EXCEPT !.grants = IF cmd.hasGrants THEN cmd.grants ELSE @]

\* The mutate callbacks.
Mutate(row, r, cmd) ==
  IF cmd.op \in {"deactivate_tenant", "deactivate_client"} THEN ApplyDeactivation(row)
  ELSE IF cmd.op \in {"reactivate_tenant", "reactivate_client"} THEN ApplyReactivation(row)
  ELSE IF cmd.op = "rotate_secret" THEN [row EXCEPT !.secret = GenerateSecret(r, FALSE)]
  ELSE ApplyFieldUpdates([row EXCEPT !.secret =
         IF cmd.rotate THEN GenerateSecret(r, FALSE) ELSE @], cmd)

-----------------------------------------------------------------------------
(* Transactions *)

TenantOps == {"create_tenant", "deactivate_tenant", "reactivate_tenant"}
Executed == {"deactivate_tenant", "reactivate_tenant", "update_client",
             "deactivate_client", "reactivate_client", "rotate_secret"}

\* The row a request changes; a creation inserts one under a new identifier.
Key(r) ==
  LET cmd == req[r].cmd
  IN IF cmd.op \in {"create_tenant", "create_client"} THEN r
     ELSE IF cmd.op \in {"deactivate_tenant", "reactivate_tenant"} THEN cmd.tenant
     ELSE cmd.client

Row(r) == IF req[r].cmd.op \in TenantOps THEN tenant[Key(r)] ELSE client[Key(r)]
Found(row) == row.status # "none"
FindTenantByID(t) == tenant[t]
FindByID(c) == client[c]
FindByOAuthClientID(c) == client[c]

At(r, pc, ops) == req[r].pc = pc /\ req[r].cmd.op \in ops
Goto(r, pc, row) == req' = [req EXCEPT ![r].pc = pc, ![r].row = row]
Answer(r, result) == req' = [req EXCEPT ![r].pc = "done", ![r].row = NoClient,
                                        ![r].result = result]

Unlocked(r) == [k \in DOMAIN lock |-> IF lock[k] = r THEN NoReq ELSE lock[k]]

\* Rows written by r become visible.
Show(r, row) ==
  LET cmd == req[r].cmd
      k == Key(r)
  IN /\ tenant' = IF cmd.op \in TenantOps THEN [tenant EXCEPT ![k] = row] ELSE tenant
     /\ client' = IF cmd.op \in TenantOps THEN client ELSE [client EXCEPT ![k] = row]
     /\ rotations' = IF Rotates(cmd) THEN [rotations EXCEPT ![k] = Append(@, r)]
                     ELSE rotations
     /\ born' = IF cmd.op = "create_client"
                THEN [born EXCEPT ![k] = tenant[cmd.tenant].status] ELSE born
     /\ committed' = committed \cup {r}

\* Mutant: the early return of a refused change forgets the rollback.
Refuse_KeepsLock(r) ==
  /\ Answer(r, "refused")
  /\ lock' = IF req[r].cmd.op \in Executed THEN [lock EXCEPT ![Key(r)] = r]
             ELSE Unlocked(r)
  /\ UNCHANGED <<db, emitted>>

\* Any domain error: the transaction is rolled back.
Refuse(r) ==
  /\ Answer(r, "refused")
  /\ lock' = Unlocked(r)
  /\ UNCHANGED <<db, emitted>>

\* INSERT ... REFERENCES tenants takes the tenant's row FOR KEY SHARE, which
\* FOR UPDATE waits for, and the other way round.
Referenced(t) ==
  \E r \in Req : At(r, "commit", {"create_client"}) /\ req[r].cmd.tenant = t

\* Mutant: the row is read without FOR UPDATE.
CanLock_PlainRead(k) == TRUE

\* GetClientForUpdate, GetTenantForUpdate.
CanLock(k) == lock[k] = NoReq /\ ~Referenced(k)

\* RunInTx of the in-memory stores holds one mutex.
MutexFree == Backend = "memory" => lock["tx"] = NoReq

-----------------------------------------------------------------------------
(* Requests *)

\* A handler decodes the request and parses identifiers; Validate refuses.
\* Callers name rows that exist, or an identifier of nothing (here r).
Arrive(r, cmd) ==
  /\ req[r].pc = "idle"
  /\ cmd.op \in Ops
  /\ req' = [req EXCEPT ![r] =
       [@ EXCEPT !.pc = IF Validate(cmd) THEN "begin" ELSE "done", !.cmd = cmd,
                 !.result = IF Validate(cmd) THEN "none" ELSE "refused"]]
  /\ UNCHANGED <<db, lock, emitted>>

\* The end of a creation in RunInTx of the in-memory stores: the row is there,
\* the event is emitted, the mutex is released.
CreateInMemory(r, row) ==
  /\ Show(r, row)
  /\ Answer(r, "ok")
  /\ emitted' = emitted \cup {r}
  /\ lock' = Unlocked(r)

Arrivals(r) ==
  \E cmd \in Commands({t \in Tenants : Found(tenant[t])} \cup {r},
                      {c \in Clients : Found(client[c])} \cup {r}) : Arrive(r, cmd)

\* The unique index on lower(name).
NameTaken(n) == \E t \in Tenants : Found(tenant[t]) /\ Lower(tenant[t].name) = Lower(n)

\* An insert waits for the transaction that inserted the same key.
NameInDoubt(n) ==
  \E r \in Req : At(r, "commit", {"create_tenant"})
                   /\ Lower(req[r].cmd.name) = Lower(n)

\* CreateTenant up to the commit: insert, then emit.
CreateTenant(r) ==
  /\ At(r, "begin", {"create_tenant"}) /\ MutexFree
  /\ LET name == req[r].cmd.name
     IN IF NameTaken(name) THEN Refuse(r)
        ELSE IF Backend = "memory" THEN CreateInMemory(r, NewTenant(name))
        ELSE /\ ~NameInDoubt(name)
             /\ Goto(r, "commit", NewTenant(name))
             /\ emitted' = emitted \cup {r}
             /\ UNCHANGED <<db, lock>>

\* CreateClient: the tenant exists and is active, as far as this read shows.
LoadTenant(r) ==
  /\ At(r, "begin", {"create_client"}) /\ MutexFree
  /\ IF IsActive(FindTenantByID(req[r].cmd.tenant))
     THEN /\ Goto(r, "insert", NoClient)
          /\ lock' = IF Backend = "memory" THEN [lock EXCEPT !["tx"] = r] ELSE lock
          /\ UNCHANGED <<db, emitted>>
     ELSE Refuse(r)

\* CreateClient: secret, insert, event.
InsertClient(r) ==
  /\ At(r, "insert", {"create_client"})
  /\ LET cmd == req[r].cmd
         row == NewClient(cmd.tenant, GenerateSecret(r, cmd.public), cmd.grants)
     IN IF Backend = "memory" THEN CreateInMemory(r, row)
        ELSE /\ lock[cmd.tenant] = NoReq
             /\ Goto(r, "commit", row)
             /\ emitted' = emitted \cup {r}
             /\ UNCHANGED <<db, lock>>

\* Execute of the in-memory stores: one critical section.
ExecuteInMemory(r, row) ==
  /\ Show(r, Mutate(row, r, req[r].cmd))
  /\ Goto(r, "emit", NoClient)
  /\ UNCHANGED <<lock, emitted>>

\* Execute: read under the lock, validate.
Execute(r) ==
  /\ At(r, "begin", Executed)
  /\ CanLock(Key(r))
  /\ LET row == Row(r)
         cmd == req[r].cmd
     IN IF ~(Found(row) /\ Allows(row, cmd)) THEN Refuse(r)
        ELSE IF Backend = "memory" THEN ExecuteInMemory(r, row)
        ELSE /\ Goto(r, "commit", row)
             /\ lock' = [lock EXCEPT ![Key(r)] = r]
             /\ UNCHANGED <<db, emitted>>

\* The row a transaction leaves behind.
After(r) == IF req[r].cmd.op \in Executed THEN Mutate(req[r].row, r, req[r].cmd)
            ELSE req[r].row

\* COMMIT returns an error and nothing was written.
CommitFails(r) ==
  /\ Answer(r, "failed")
  /\ lock' = Unlocked(r)
  /\ UNCHANGED <<db, emitted>>

\* UPDATE and COMMIT.  The answer may be lost after the change is durable.
Commit(r) ==
  /\ req[r].pc = "commit"
  /\ \/ /\ Show(r, After(r))
        /\ IF req[r].cmd.op \in Executed THEN Goto(r, "emit", NoClient)
           ELSE Answer(r, "ok")
        /\ lock' = Unlocked(r) /\ UNCHANGED emitted
     \/ /\ Faults
        /\ Show(r, After(r))
        /\ Answer(r, "failed")
        /\ lock' = Unlocked(r) /\ UNCHANGED emitted
     \/ Faults /\ CommitFails(r)

\* What leaves an event: every creation, rotation and change of status.  An
\* update that does not rotate the secret leaves none.
Audited(cmd) == cmd.op = "update_client" => cmd.rotate

\* Mutant: the event of a change is left to the next one.
Emit_Nothing(r) ==
  /\ req[r].pc = "emit"
  /\ Answer(r, "ok")
  /\ UNCHANGED <<db, lock, emitted>>

\* The audit event after Execute; the publisher buffers it and returns.
Emit(r) ==
  /\ req[r].pc = "emit"
  /\ emitted' = IF Audited(req[r].cmd) THEN emitted \cup {r} ELSE emitted
  /\ Answer(r, "ok")
  /\ UNCHANGED <<db, lock>>

\* A statement fails, or the context is done.  The in-memory stores look at
\* the context only before and after they wait for the transaction's mutex.
Abort(r) ==
  /\ Faults
  /\ IF Backend = "memory"
     THEN At(r, "begin", {"create_tenant", "create_client"})
     ELSE req[r].pc \in {"begin", "insert", "tenant", "commit"}
  /\ Answer(r, "failed")
  /\ lock' = Unlocked(r)
  /\ UNCHANGED <<db, emitted>>

\* Mutant: the client's own status is not looked at.
ResolveRead_AnyStatus(c) == Found(c)

ResolveRead(c) == IsActive(c)

\* ResolveClient: FindByOAuthClientID.
ResolveClient(r) ==
  /\ At(r, "begin", {"resolve"})
  /\ LET c == FindByOAuthClientID(req[r].cmd.client)
     IN IF ResolveRead(c)
        THEN Goto(r, "tenant", c) /\ UNCHANGED <<db, lock, emitted>>
        ELSE Refuse(r)

\* ResolveClient: tenants.FindByID of the client's tenant.
ResolveTenant(r) ==
  /\ At(r, "tenant", {"resolve"})
  /\ IF IsActive(FindTenantByID(req[r].row.tenant))
     THEN Answer(r, "ok") /\ UNCHANGED <<db, lock, emitted>>
     ELSE Refuse(r)

\* VerifyClientSecret and VerifyClientSecretByOAuthID.
VerifyClientSecret(r) ==
  /\ At(r, "begin", {"verify"})
  /\ LET c == FindByID(req[r].cmd.client)
     IN IF IsConfidential(c) /\ c.secret = req[r].cmd.secret
        THEN Answer(r, "ok") /\ UNCHANGED <<db, lock, emitted>>
        ELSE Refuse(r)

\* What is active for the client a request resolves.
ActiveFor(r) ==
  LET c == client[req[r].cmd.client]
  IN (IF IsActive(c) THEN {"client"} ELSE {})
       \cup (IF Found(c) /\ IsActive(tenant[c.tenant]) THEN {"tenant"} ELSE {})
       \cup (IF IsActive(c) /\ IsActive(tenant[c.tenant]) THEN {"both"} ELSE {})

Observe ==
  witness' = [r \in Req |->
    IF req[r].pc # "done" /\ req'[r].cmd.op = "resolve"
    THEN witness[r] \cup ActiveFor(r)' ELSE witness[r]]

Step(r) ==
  \/ CreateTenant(r) \/ LoadTenant(r) \/ InsertClient(r)
  \/ Execute(r) \/ Commit(r) \/ Emit(r)
  \/ ResolveClient(r) \/ ResolveTenant(r) \/ VerifyClientSecret(r)

Next ==
  /\ \E r \in Req : Step(r) \/ Abort(r) \/ Arrivals(r)
  /\ Observe

Spec == Init /\ [][Next]_vars

\* A request that can go on does; nobody relies on the request timeout.
FairSpec == Spec /\ \A r \in Req : WF_vars(Step(r) /\ Observe)

-----------------------------------------------------------------------------
(* Properties *)

\* Two tenants never have names that differ in upper and lower case only
\* (README.md: "Name must be unique (case-insensitive)").
NamesUnique ==
  \A s, t \in Tenants : Found(tenant[s]) /\ Found(tenant[t])
    /\ Lower(tenant[s].name) = Lower(tenant[t].name) => s = t

\* client_credentials stays with confidential clients, whatever sequence of
\* creations, updates and rotations led here (client.go, the invariants).
GrantsFit == \A c \in Clients : Found(client[c]) => Fits(client[c])

\* A change asked for in the name of a tenant happens to its own clients only
\* (UpdateClientForTenant, RotateClientSecretForTenant).
ScopeKept ==
  \A r \in committed : req[r].cmd.op \in {"update_client", "rotate_secret"} =>
    req[r].cmd.scope \in {AnyTenant, client[req[r].cmd.client].tenant}

\* What Execute validated is what it overwrites: nobody changes the row between
\* its SELECT ... FOR UPDATE and its COMMIT, so no update is lost.
ReadIsCurrent ==
  \A r \in Req : At(r, "commit", Executed) => req[r].row = Row(r)

\* The secret in force is the one of the last rotation, and a request that
\* returned a secret has put it in force: an administrator is never handed a
\* secret that was never stored.
SecretInForce ==
  /\ \A c \in Clients : IsConfidential(client[c]) =>
       client[c].secret = rotations[c][Len(rotations[c])]
  /\ \A r \in Req : At(r, "done", Op) /\ req[r].result = "ok" /\ Rotates(req[r].cmd)
       => \E i \in 1 .. Len(rotations[Key(r)]) : rotations[Key(r)][i] = r

\* Concurrent administrators keep the rows consistent: names differ in more than
\* case, the grants fit the kind of client, a change in the name of a tenant stays
\* with its clients, a row is overwritten as it was read, and the secret that was
\* answered last is in force.
RowsKept == TypeOK /\ NamesUnique /\ GrantsFit /\ ScopeKept /\ ReadIsCurrent /\ SecretInForce

\* Events and changes: an answer "ok" has its change, and its event unless it is an
\* update that kept the secret; a refusal has neither; and an event without a
\* change is that of a creation whose commit is open or failed.
EventsMatchChanges ==
  \A r \in Req : At(r, "done", Op \ {"resolve", "verify"}) \/ At(r, "commit", Op) =>
    /\ req[r].result = "ok" =>
         r \in committed /\ (r \in emitted <=> Audited(req[r].cmd))
    /\ req[r].result = "refused" => r \notin emitted /\ r \notin committed
    /\ r \in emitted \ committed =>
         req[r].cmd.op \in {"create_tenant", "create_client"}

\* A client that was resolved was active at some moment of the call, and so was
\* its tenant.
ResolveSound ==
  \A r \in Req : At(r, "done", {"resolve"}) /\ req[r].result = "ok" =>
    {"client", "tenant"} \subseteq witness[r]

\* A client that was resolved was active together with its tenant at some
\* moment of the call (client_service.go: "If the client or tenant is inactive,
\* returns an invalid_client error").
\* The code does not keep this statement.
ResolveAtomic ==
  \A r \in Req : At(r, "done", {"resolve"}) /\ req[r].result = "ok" =>
    "both" \in witness[r]

\* A client appears only under an active tenant (README.md: "Client must belong
\* to an active tenant").
\* The code does not keep this statement.
BornUnderActiveTenant == \A c \in Clients : born[c] # "inactive"

\* Every request is answered, without the help of the request timeout.
RequestsReturn ==
  \A r \in Req : req[r].pc = "begin" ~> req[r].pc = "done"

=============================================================================
