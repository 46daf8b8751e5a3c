----------------------------- MODULE TenantProofs -----------------------------
(***************************************************************************)
(* TenantClients, for any sets of tenants, clients and requests, either    *)
(* backend and any mix of operations: the rows stay consistent, events     *)
(* match changes and a resolved client was active.                         *)
(*                                                                         *)
(* The invariant has a part about the tables and a part about every        *)
(* request.  A step either leaves the database alone (QuietStep) or makes  *)
(* the rows of one request visible (ShowStep); what the other requests     *)
(* know of the database survives both.                                     *)
(***************************************************************************)
EXTENDS TenantClients, TLAPS

Creations == {"create_tenant", "create_client"}
Lockable == Tenants \cup Clients \cup {"tx"}

\* The types; a history of secrets is a sequence for every client.
Types == TypeOK /\ rotations \in [Clients -> Seq(Clients)]

\* A row named after a request is the one that request created.
Fresh ==
  \A r \in Req :
    /\ Found(tenant[r]) => r \in committed /\ req[r].cmd.op = "create_tenant"
    /\ Found(client[r]) => r \in committed /\ req[r].cmd.op = "create_client"

\* A committed change of a client was allowed there, and its secret is recorded.
Effects ==
  \A r \in committed :
    /\ req[r].cmd.op \in {"update_client", "rotate_secret"} =>
         /\ Found(client[req[r].cmd.client])
         /\ req[r].cmd.scope \in {AnyTenant, client[req[r].cmd.client].tenant}
    /\ Rotates(req[r].cmd) =>
         \E i \in 1 .. Len(rotations[Key(r)]) : rotations[Key(r)][i] = r

\* The secret in force is the last one of the history.
LastSecret ==
  \A c \in Clients : IsConfidential(client[c]) =>
    client[c].secret = rotations[c][Len(rotations[c])]

Tables == NamesUnique /\ GrantsFit /\ Fresh /\ Effects /\ LastSecret

\* What the program counter of a request says about its event and its change.
Shape(r) ==
  LET pc == req[r].pc
      op == req[r].cmd.op
      result == req[r].result
  IN /\ pc = "idle" \/ req[r].cmd \in Command
     /\ pc # "done" => result = "none"
     /\ pc \in {"idle", "begin", "insert", "tenant"} => r \notin emitted /\ r \notin committed
     /\ pc \in {"begin", "insert"} => Validate(req[r].cmd)
     /\ pc = "insert" => op = "create_client"
     /\ pc = "tenant" => op = "resolve"
     /\ pc = "commit" => /\ Backend = "postgres" /\ op \in Executed \cup Creations
                         /\ r \notin committed /\ (r \in emitted <=> op \in Creations)
     /\ pc = "emit" => op \in Executed /\ r \in committed /\ r \notin emitted
     /\ pc = "done" => /\ result = "ok" /\ op \notin {"resolve", "verify"}
                            => r \in committed /\ (r \in emitted <=> Audited(req[r].cmd))
                       /\ result = "refused" => r \notin emitted /\ r \notin committed
                       /\ r \in emitted /\ r \notin committed => op \in Creations

\* A transaction that read a row FOR UPDATE holds its lock; the row is as read.
Held(r) ==
  At(r, "commit", Executed) =>
    /\ lock[Key(r)] = r /\ req[r].row = Row(r)
    /\ Found(Row(r)) /\ Allows(Row(r), req[r].cmd)

\* A tenant name inserted and not yet committed is nobody else's.
Reserved(r) ==
  At(r, "commit", {"create_tenant"}) =>
    /\ req[r].row = NewTenant(req[r].cmd.name) /\ ~NameTaken(req[r].cmd.name)
    /\ \A q \in Req \ {r} : At(q, "commit", {"create_tenant"}) =>
         Lower(req[q].cmd.name) # Lower(req[r].cmd.name)

\* A client inserted and not yet committed is as the command asked.
Inserted(r) ==
  At(r, "commit", {"create_client"}) =>
    /\ ValidCreate(req[r].cmd)
    /\ req[r].row = NewClient(req[r].cmd.tenant,
                              GenerateSecret(r, req[r].cmd.public), req[r].cmd.grants)

\* A resolver between its two reads has seen the client active, and the client
\* still belongs to the tenant it goes on to read.
Resolving(r) ==
  At(r, "tenant", {"resolve"}) =>
    /\ "client" \in witness[r] /\ Found(client[req[r].cmd.client])
    /\ client[req[r].cmd.client].tenant = req[r].row.tenant

Resolved(r) ==
  At(r, "done", {"resolve"}) /\ req[r].result = "ok" =>
    {"client", "tenant"} \subseteq witness[r]

Local(r) ==
  /\ Shape(r) /\ Held(r) /\ Reserved(r) /\ Inserted(r) /\ Resolving(r) /\ Resolved(r)

Inv == Types /\ Tables /\ \A r \in Req : Local(r)

-----------------------------------------------------------------------------
(* Commands, rows and histories *)

\* The fields that the commands of each operation have.
LEMMA CommandFacts ==
  ASSUME NEW cmd \in Command
  PROVE  /\ cmd.op \in Op
         /\ cmd.op = "create_tenant" => cmd.name \in Name
         /\ cmd.op \in {"deactivate_tenant", "reactivate_tenant"} => cmd.tenant \in Tenants
         /\ cmd.op = "create_client" =>
              cmd.tenant \in Tenants /\ cmd.public \in BOOLEAN /\ cmd.grants \subseteq GrantType
         /\ cmd.op \in Op \ (TenantOps \cup {"create_client"}) => cmd.client \in Clients
         /\ cmd.op = "update_client" => /\ cmd.rotate \in BOOLEAN /\ cmd.hasGrants \in BOOLEAN
                                        /\ cmd.grants \subseteq GrantType
BY TenantAssumption, Zenon DEF Command, Commands, Op, TenantOps

\* The commands of a caller are commands.
LEMMA CallersCommand ==
  ASSUME NEW T \in SUBSET Tenants, NEW C \in SUBSET Clients, NEW cmd \in Commands(T, C)
  PROVE  cmd \in Command
<1>1. Scopes(T) \subseteq Scopes(Tenants)
  BY Zenon DEF Scopes
<1>2. [op: {"deactivate_tenant", "reactivate_tenant"}, tenant: T]
        \subseteq [op: {"deactivate_tenant", "reactivate_tenant"}, tenant: Tenants]
  OBVIOUS
<1>3. [op: {"create_client"}, tenant: T, public: BOOLEAN, grants: GrantSets]
        \subseteq [op: {"create_client"}, tenant: Tenants, public: BOOLEAN, grants: GrantSets]
  OBVIOUS
<1>4. ASSUME NEW h, NEW g
      PROVE  [op: {"update_client"}, client: C, scope: Scopes(T), hasGrants: h, grants: g, rotate: BOOLEAN]
               \subseteq [op: {"update_client"}, client: Clients, scope: Scopes(Tenants),
                          hasGrants: h, grants: g, rotate: BOOLEAN]
  BY <1>1
<1>5. [op: {"rotate_secret"}, client: C, scope: Scopes(T)]
        \subseteq [op: {"rotate_secret"}, client: Clients, scope: Scopes(Tenants)]
  BY <1>1
<1>6. [op: {"deactivate_client", "reactivate_client", "resolve"}, client: C]
        \subseteq [op: {"deactivate_client", "reactivate_client", "resolve"}, client: Clients]
  OBVIOUS
<1>7. [op: {"verify"}, client: C, secret: Clients]
        \subseteq [op: {"verify"}, client: Clients, secret: Clients]
  OBVIOUS
<1>8. QED
  BY <1>2, <1>3, <1>4, <1>5, <1>6, <1>7, Zenon DEF Command, Commands

\* A history that grows keeps its entries and ends with the new one.
LEMMA AppendFacts ==
  ASSUME NEW S, NEW h \in Seq(S), NEW e \in S
  PROVE  /\ Append(h, e) \in Seq(S) /\ Append(h, e)[Len(Append(h, e))] = e
         /\ Len(h) \in Nat /\ Len(Append(h, e)) = Len(h) + 1
         /\ \A i \in 1 .. Len(h) : Append(h, e)[i] = h[i]
OBVIOUS

\* What a change makes of a tenant's row.
LEMMA TenantMutated ==
  ASSUME NEW r \in Req, NEW row \in TenantRow, NEW cmd,
         cmd.op \in {"deactivate_tenant", "reactivate_tenant"}
  PROVE  /\ Mutate(row, r, cmd) \in TenantRow /\ Found(Mutate(row, r, cmd))
         /\ Mutate(row, r, cmd).name = row.name
BY DEF Mutate, ApplyDeactivation, ApplyReactivation, TenantRow, Status, Found

\* An allowed change of a client keeps its tenant and the rule on its grants.
LEMMA ClientMutated ==
  ASSUME NEW r \in Req, NEW row \in ClientRow, NEW cmd \in Command,
         cmd.op \in Executed \ TenantOps, Allows(row, cmd), Fits(row)
  PROVE  /\ Mutate(row, r, cmd) \in ClientRow /\ Found(Mutate(row, r, cmd))
         /\ Mutate(row, r, cmd).tenant = row.tenant /\ Fits(Mutate(row, r, cmd))
         /\ Mutate(row, r, cmd).secret = IF Rotates(cmd) THEN r ELSE row.secret
<1>1. CASE cmd.op = "deactivate_client"
  BY <1>1, Zenon DEF Mutate, ApplyDeactivation, ClientRow, Status, Found, Fits, Rotates
<1>2. CASE cmd.op = "reactivate_client"
  BY <1>2, Zenon DEF Mutate, ApplyReactivation, ClientRow, Status, Found, Fits, Rotates
<1>3. CASE cmd.op = "rotate_secret"
  BY <1>3, TenantAssumption, Zenon DEF Mutate, GenerateSecret, ClientRow, Status, Found, Fits,
     Rotates, Clients
<1>4. CASE cmd.op = "update_client"
  BY <1>4, CommandFacts, TenantAssumption, Zenon DEF Mutate, ApplyFieldUpdates, GenerateSecret,
     ClientRow, Status, Found, Fits, Rotates, Clients, Allows, UpdateClientForTenant, UpdateClient,
     ValidateGrantChanges, CanUseGrant, RequiresConfidentialClient, IsConfidential
<1>5. QED
  BY <1>1, <1>2, <1>3, <1>4, Zenon DEF Executed, TenantOps

-----------------------------------------------------------------------------
(* Steps of one request, as the others see them *)

\* Only r moves: the others keep their state, their events and their locks.
Moved(r) ==
  /\ req' \in [Req -> Request] /\ \A q \in Req \ {r} : req'[q] = req[q]
  /\ req[r].pc # "idle" => req'[r].cmd = req[r].cmd
  /\ emitted' \subseteq Req /\ \A q \in Req \ {r} : q \in emitted' <=> q \in emitted
  /\ lock' \in [Lockable -> Req \cup {NoReq}]
  /\ \A k \in Lockable : lock[k] \notin {NoReq, r} => lock'[k] = lock[k]

\* A row that is there stays, under its name and its tenant.
Kept ==
  /\ \A t \in Tenants : Found(tenant[t]) => Found(tenant'[t]) /\ tenant'[t].name = tenant[t].name
  /\ \A c \in Clients : Found(client[c]) => Found(client'[c]) /\ client'[c].tenant = client[c].tenant

\* The key of a command names a tenant or a client.
LEMMA KeyFacts ==
  ASSUME NEW r \in Req, req[r].cmd \in Command
  PROVE  /\ req[r].cmd.op \in TenantOps => Key(r) \in Tenants
         /\ req[r].cmd.op \notin TenantOps => Key(r) \in Clients
         /\ req[r].cmd.op \in Creations => Key(r) = r
         /\ req[r].cmd.op \notin TenantOps \cup Creations => Key(r) = req[r].cmd.client
BY CommandFacts DEF Key, Creations, TenantOps, Tenants, Clients, Op

\* The witnesses of a request grow, by what is active for it.
LEMMA ObserveFacts ==
  ASSUME witness \in [Req -> SUBSET {"client", "tenant", "both"}], Observe
  PROVE  /\ witness' \in [Req -> SUBSET {"client", "tenant", "both"}]
         /\ \A q \in Req : witness[q] \subseteq witness'[q]
         /\ \A q \in Req : req[q].pc # "done" /\ req'[q].cmd.op = "resolve"
              => ActiveFor(q)' \subseteq witness'[q]
<1>1. \A q \in Req : ActiveFor(q)' \subseteq {"client", "tenant", "both"}
  BY Zenon DEF ActiveFor
<1>2. QED
  BY <1>1, Zenon DEF Observe

\* What a request knows survives a step of another one.
LEMMA OthersKeep ==
  ASSUME NEW r \in Req, NEW q \in Req \ {r}, Moved(r), Local(q), Reserved(r)', Kept,
         q \in committed' <=> q \in committed, witness[q] \subseteq witness'[q],
         At(q, "commit", Executed) => Row(q)' = Row(q),
         At(q, "commit", {"create_tenant"}) => ~NameTaken(req[q].cmd.name)'
  PROVE  Local(q)'
<1>1. /\ req'[q] = req[q] /\ Key(q)' = Key(q) /\ (q \in emitted' <=> q \in emitted)
      /\ req[q].pc # "idle" => req[q].cmd \in Command
  BY Zenon DEF Moved, Key, Local, Shape
<1>2. Shape(q)'
  BY <1>1, Zenon DEF Local, Shape
<1>3. Held(q)'
  <2>1. SUFFICES ASSUME At(q, "commit", Executed) PROVE lock'[Key(q)] = q /\ Row(q)' = Row(q)
    BY <1>1, Zenon DEF Local, Held, At
  <2>2. Key(q) \in Lockable /\ lock[Key(q)] = q
    BY <1>1, <2>1, KeyFacts, Zenon DEF Local, Held, At, Lockable
  <2>3. QED
    BY <2>1, <2>2, TenantAssumption, Zenon DEF Moved
<1>4. Reserved(q)'
  <2>1. SUFFICES ASSUME At(q, "commit", {"create_tenant"}), NEW p \in Req \ {q},
                        At(p, "commit", {"create_tenant"})'
                 PROVE  Lower(req'[p].cmd.name) # Lower(req'[q].cmd.name)
    BY <1>1, Zenon DEF Local, Reserved, At
  <2>2. CASE p = r
    BY <1>1, <2>1, <2>2, Zenon DEF Reserved, At
  <2>3. CASE p # r
    BY <1>1, <2>1, <2>3, Zenon DEF Local, Reserved, At, Moved
  <2>4. QED
    BY <2>2, <2>3
<1>5. Inserted(q)' /\ Resolved(q)'
  BY <1>1, Zenon DEF Local, Inserted, Resolved, At
<1>6. Resolving(q)'
  BY <1>1, CommandFacts DEF Local, Resolving, At, Kept, Op, TenantOps
<1>7. QED
  BY <1>2, <1>3, <1>4, <1>5, <1>6, Zenon DEF Local

\* A step that leaves the database alone.
LEMMA QuietStep ==
  ASSUME Inv, NEW r \in Req, Moved(r), UNCHANGED db, Observe, Local(r)'
  PROVE  Inv'
<1>1. /\ tenant' = tenant /\ client' = client /\ rotations' = rotations
      /\ born' = born /\ committed' = committed
  BY Zenon DEF db
<1>2. Types'
  BY <1>1, ObserveFacts, Zenon DEF Inv, Types, TypeOK, Moved, Lockable
<1>3. \A q \in committed : req'[q].cmd = req[q].cmd /\ Key(q)' = Key(q)
  BY Zenon DEF Inv, Types, TypeOK, Local, Shape, Moved, Key
<1>4. Tables'
  <2>1. NamesUnique' /\ GrantsFit' /\ LastSecret'
    BY <1>1, Zenon DEF Inv, Tables, NamesUnique, GrantsFit, LastSecret
  <2>2. Fresh' /\ Effects'
    BY <1>1, <1>3 DEF Inv, Tables, Fresh, Effects
  <2>3. QED
    BY <2>1, <2>2, Zenon DEF Tables
<1>5. ASSUME NEW q \in Req \ {r} PROVE Local(q)'
  <2>1. At(q, "commit", Executed) => Row(q)' = Row(q)
    BY <1>1, Zenon DEF Moved, Row, Key
  <2>2. At(q, "commit", {"create_tenant"}) => ~NameTaken(req[q].cmd.name)'
    BY <1>1 DEF Inv, Local, Reserved, NameTaken, Moved, At
  <2>3. Local(q) /\ Reserved(r)' /\ Kept /\ witness[q] \subseteq witness'[q]
    BY <1>1, ObserveFacts, Zenon DEF Inv, Types, TypeOK, Local, Kept
  <2>4. QED
    BY <1>1, <2>1, <2>2, <2>3, OthersKeep
<1>6. QED
  BY <1>2, <1>4, <1>5, Zenon DEF Inv

-----------------------------------------------------------------------------
(* A change becomes visible *)

\* What r makes visible: a change it was allowed to make of a row nobody else
\* has locked, a tenant with a name of its own, or a valid client.
Changed(r, row) ==
  LET cmd == req[r].cmd
  IN \/ /\ cmd.op \in Executed
        /\ Found(Row(r)) /\ Allows(Row(r), cmd) /\ row = Mutate(Row(r), r, cmd)
        /\ \A q \in Req \ {r} : At(q, "commit", Executed) => Key(q) # Key(r)
     \/ /\ cmd.op = "create_tenant" /\ r \notin committed
        /\ row = NewTenant(cmd.name) /\ ~NameTaken(cmd.name)
        /\ \A q \in Req \ {r} : At(q, "commit", {"create_tenant"}) =>
             Lower(req[q].cmd.name) # Lower(cmd.name)
     \/ /\ cmd.op = "create_client" /\ r \notin committed /\ ValidCreate(cmd)
        /\ row = NewClient(cmd.tenant, GenerateSecret(r, cmd.public), cmd.grants)

\* The row a request makes visible: its type and what it keeps of the old one.
LEMMA ChangedRow ==
  ASSUME Inv, NEW r \in Req, req[r].cmd \in Command, NEW row, Changed(r, row)
  PROVE  /\ Found(row)
         /\ req[r].cmd.op \in TenantOps =>
              /\ row \in TenantRow /\ Key(r) \in Tenants
              /\ Found(tenant[Key(r)]) => row.name = tenant[Key(r)].name
              /\ ~Found(tenant[Key(r)]) => ~NameTaken(row.name)
         /\ req[r].cmd.op \notin TenantOps =>
              /\ row \in ClientRow /\ Key(r) \in Clients /\ Fits(row)
              /\ Found(client[Key(r)]) => row.tenant = client[Key(r)].tenant
              /\ IsConfidential(row) =>
                   row.secret = IF Rotates(req[r].cmd) THEN r ELSE client[Key(r)].secret
              /\ IsConfidential(row) /\ ~Rotates(req[r].cmd) => IsConfidential(client[Key(r)])
<1> DEFINE cmd == req[r].cmd
<1>k. /\ cmd.op \in TenantOps => Key(r) \in Tenants
      /\ cmd.op \notin TenantOps => Key(r) \in Clients
      /\ cmd.op \in Creations => Key(r) = r
  BY KeyFacts
<1>1. CASE cmd.op \in Executed \cap TenantOps
  <2>1. Found(tenant[Key(r)]) /\ row = Mutate(tenant[Key(r)], r, cmd)
    BY <1>1, Zenon DEF Changed, Row, Executed
  <2>2. tenant[Key(r)] \in TenantRow
    BY <1>1, <1>k, <2>1 DEF Inv, Types, TypeOK, Found, NoTenant
  <2>3. cmd.op \in {"deactivate_tenant", "reactivate_tenant"}
    BY <1>1, Zenon DEF Executed, TenantOps
  <2>4. QED
    BY <1>1, <1>k, <2>1, <2>2, <2>3, TenantMutated
<1>2. CASE cmd.op \in Executed \ TenantOps
  <2>1. /\ Found(client[Key(r)]) /\ row = Mutate(client[Key(r)], r, cmd)
        /\ Allows(client[Key(r)], cmd)
    BY <1>2, Zenon DEF Changed, Row, Executed, TenantOps
  <2>2. client[Key(r)] \in ClientRow /\ Fits(client[Key(r)])
    BY <1>2, <1>k, <2>1 DEF Inv, Types, TypeOK, Found, NoClient, Tables, GrantsFit
  <2>3. QED
    BY <1>2, <1>k, <2>1, <2>2, ClientMutated, Zenon DEF IsConfidential
<1>3. CASE cmd.op = "create_tenant"
  <2>1. cmd.op \in TenantOps /\ row = NewTenant(cmd.name) /\ ~NameTaken(cmd.name) /\ cmd.name \in Name
    BY <1>3, CommandFacts, Zenon DEF Changed, Executed, TenantOps
  <2>2. ~Found(tenant[Key(r)])
    BY <1>3, <1>k, Zenon DEF Inv, Tables, Fresh, Changed, Executed, Creations
  <2>3. QED
    BY <1>k, <2>1, <2>2, Zenon DEF NewTenant, TenantRow, Status, Found
<1>4. CASE cmd.op = "create_client"
  <2>1. /\ cmd.op \notin TenantOps /\ row = NewClient(cmd.tenant, GenerateSecret(r, cmd.public), cmd.grants)
        /\ ValidCreate(cmd) /\ cmd.tenant \in Tenants /\ cmd.grants \subseteq GrantType
        /\ cmd.public \in BOOLEAN
    BY <1>4, CommandFacts, Zenon DEF Changed, Executed, TenantOps
  <2>2. ~Found(client[Key(r)])
    BY <1>4, <1>k, Zenon DEF Inv, Tables, Fresh, Changed, Executed, Creations
  <2>3. QED
    BY <1>4, <1>k, <2>1, <2>2, TenantAssumption, Zenon DEF NewClient, GenerateSecret, ValidCreate,
       ClientRow, Status, Found, Fits, IsConfidential, Rotates, Clients
<1>5. QED
  BY <1>1, <1>2, <1>3, <1>4, Zenon DEF Changed

\* A change that becomes visible keeps what is said of the tables.
LEMMA ShowTables ==
  ASSUME Inv, NEW r \in Req, Moved(r), req[r].pc # "idle", NEW row, Changed(r, row), Show(r, row)
  PROVE  /\ tenant' \in [Tenants -> TenantRow \cup {NoTenant}]
         /\ client' \in [Clients -> ClientRow \cup {NoClient}]
         /\ rotations' \in [Clients -> Seq(Clients)]
         /\ born' \in [Clients -> Status \cup {"none"}]
         /\ committed' = committed \cup {r} /\ committed' \subseteq Req
         /\ Kept /\ Tables'
<1> DEFINE cmd == req[r].cmd
           k == Key(r)
<1>c. cmd \in Command
  BY Zenon DEF Inv, Local, Shape
<1>t. /\ tenant \in [Tenants -> TenantRow \cup {NoTenant}]
      /\ client \in [Clients -> ClientRow \cup {NoClient}]
      /\ rotations \in [Clients -> Seq(Clients)] /\ committed \subseteq Req
      /\ born \in [Clients -> Status \cup {"none"}]
  BY Zenon DEF Inv, Types, TypeOK
<1>r. /\ Found(row)
      /\ cmd.op \in TenantOps =>
           /\ row \in TenantRow /\ k \in Tenants
           /\ Found(tenant[k]) => row.name = tenant[k].name
           /\ ~Found(tenant[k]) => ~NameTaken(row.name)
      /\ cmd.op \notin TenantOps =>
           /\ row \in ClientRow /\ k \in Clients /\ Fits(row)
           /\ Found(client[k]) => row.tenant = client[k].tenant
           /\ IsConfidential(row) =>
                row.secret = IF Rotates(cmd) THEN r ELSE client[k].secret
           /\ IsConfidential(row) /\ ~Rotates(cmd) => IsConfidential(client[k])
  BY <1>c, ChangedRow
<1>s. /\ cmd.op \in TenantOps => tenant' = [tenant EXCEPT ![k] = row] /\ client' = client
      /\ cmd.op \notin TenantOps => client' = [client EXCEPT ![k] = row] /\ tenant' = tenant
      /\ committed' = committed \cup {r}
  BY Zenon DEF Show
<1>h. ASSUME Rotates(cmd)
      PROVE  /\ cmd.op \notin TenantOps /\ k \in Clients
             /\ rotations' = [rotations EXCEPT ![k] = Append(rotations[k], r)]
             /\ rotations'[k] \in Seq(Clients) /\ Len(rotations'[k]) \in 1 .. Len(rotations'[k])
             /\ rotations'[k][Len(rotations'[k])] = r
             /\ \A i \in 1 .. Len(rotations[k]) :
                  i \in 1 .. Len(rotations'[k]) /\ rotations'[k][i] = rotations[k][i]
  <2>1. /\ cmd.op \notin TenantOps
        /\ rotations' = [rotations EXCEPT ![k] = Append(rotations[k], r)]
    BY <1>h, Zenon DEF Show, Rotates, TenantOps
  <2>2. k \in Clients /\ rotations[k] \in Seq(Clients) /\ rotations'[k] = Append(rotations[k], r)
    BY <1>t, <1>r, <2>1
  <2>3. r \in Clients
    BY Zenon DEF Clients
  <2>4. QED
    BY <2>1, <2>2, <2>3, AppendFacts
<1>i. \A c \in Clients : ~Rotates(cmd) \/ c # k => rotations'[c] = rotations[c]
  BY <1>t, <1>h, Zenon DEF Show
<1>1. rotations' \in [Clients -> Seq(Clients)]
  BY <1>t, <1>h, <1>i, Zenon DEF Show
<1>2. born' \in [Clients -> Status \cup {"none"}]
  <2>1. cmd.op = "create_client" => tenant[cmd.tenant].status \in Status \cup {"none"}
    BY <1>c, <1>t, CommandFacts DEF TenantRow, NoTenant
  <2>2. QED
    BY <1>t, <2>1, Zenon DEF Show
<1>3. Kept
  BY <1>t, <1>r, <1>s, Zenon DEF Kept
<1>4. NamesUnique'
  BY <1>t, <1>r, <1>s, Zenon DEF Inv, Tables, NamesUnique, NameTaken
<1>5. GrantsFit'
  BY <1>t, <1>r, <1>s, Zenon DEF Inv, Tables, GrantsFit
<1>6. \A q \in committed' : req'[q].cmd = req[q].cmd /\ Key(q)' = Key(q)
  BY <1>t, <1>s, Zenon DEF Inv, Local, Shape, Moved, Key
<1>7. Fresh'
  <2>1. ~Found(tenant[k]) /\ cmd.op \in TenantOps => k = r /\ cmd.op = "create_tenant"
    BY <1>c, KeyFacts, Zenon DEF Changed, Row, Creations, Executed, TenantOps
  <2>2. ~Found(client[k]) /\ cmd.op \notin TenantOps => k = r /\ cmd.op = "create_client"
    BY <1>c, KeyFacts, Zenon DEF Changed, Row, Creations, Executed, TenantOps
  <2>3. QED
    BY <1>t, <1>s, <1>6, <2>1, <2>2, Zenon DEF Inv, Tables, Fresh, Tenants, Clients
<1>8. LastSecret'
  <2>1. SUFFICES ASSUME NEW c \in Clients, IsConfidential(client'[c])
                 PROVE  client'[c].secret = rotations'[c][Len(rotations'[c])]
    BY Zenon DEF LastSecret
  <2>2. CASE cmd.op \in TenantOps \/ c # k
    BY <1>t, <1>s, <1>h, <1>i, <2>1, <2>2, Zenon DEF Inv, Tables, LastSecret
  <2>3. CASE cmd.op \notin TenantOps /\ c = k
    BY <1>t, <1>r, <1>s, <1>h, <1>i, <2>1, <2>3 DEF Inv, Tables, LastSecret
  <2>4. QED
    BY <2>2, <2>3
<1>9. Effects'
  <2>1. SUFFICES ASSUME NEW q \in committed'
                 PROVE  /\ req[q].cmd.op \in {"update_client", "rotate_secret"} =>
                             /\ Found(client'[req[q].cmd.client])
                             /\ req[q].cmd.scope \in {AnyTenant, client'[req[q].cmd.client].tenant}
                        /\ Rotates(req[q].cmd) =>
                             \E i \in 1 .. Len(rotations'[Key(q)]) : rotations'[Key(q)][i] = q
    BY <1>6, Zenon DEF Effects
  <2>2. /\ req[q].cmd.op \in {"update_client", "rotate_secret"} => req[q].cmd.client \in Clients
        /\ Rotates(req[q].cmd) => Key(q) \in Clients
    BY <1>c, <1>t, <1>s, <2>1, CommandFacts, KeyFacts, Zenon DEF Inv, Local, Shape, Op, TenantOps,
       Rotates
  <2>3. CASE q # r
    <3>1. req[q].cmd.op \in {"update_client", "rotate_secret"} =>
            /\ Found(client'[req[q].cmd.client])
            /\ req[q].cmd.scope \in {AnyTenant, client'[req[q].cmd.client].tenant}
      <4>1. req[q].cmd.op \in {"update_client", "rotate_secret"} =>
              /\ Found(client[req[q].cmd.client])
              /\ req[q].cmd.scope \in {AnyTenant, client[req[q].cmd.client].tenant}
        BY <1>s, <2>1, <2>3, Zenon DEF Inv, Tables, Effects
      <4>2. QED
        BY <1>3, <2>2, <4>1, Zenon DEF Kept
    <3>2. ASSUME Rotates(req[q].cmd)
          PROVE  \E i \in 1 .. Len(rotations'[Key(q)]) : rotations'[Key(q)][i] = q
      <4>1. PICK i \in 1 .. Len(rotations[Key(q)]) : rotations[Key(q)][i] = q
        BY <1>s, <2>1, <2>3, <3>2, Zenon DEF Inv, Tables, Effects
      <4>2. QED
        BY <1>h, <1>i, <2>2, <3>2, <4>1
    <3>3. QED
      BY <3>1, <3>2
  <2>4. CASE q = r
    <3>1. cmd.op \in {"update_client", "rotate_secret"} =>
            /\ Found(client'[cmd.client])
            /\ cmd.scope \in {AnyTenant, client'[cmd.client].tenant}
      <4>1. SUFFICES ASSUME cmd.op \in {"update_client", "rotate_secret"}
                     PROVE  /\ Found(client'[cmd.client])
                            /\ cmd.scope \in {AnyTenant, client'[cmd.client].tenant}
        OBVIOUS
      <4>2. /\ Found(client[k]) /\ Allows(client[k], cmd)
            /\ cmd.op \notin TenantOps /\ k = cmd.client
        BY <1>c, <4>1, KeyFacts, Zenon DEF Changed, Row, Executed, TenantOps, Creations
      <4>3. cmd.scope \in {AnyTenant, client[k].tenant}
        BY <4>1, <4>2, Zenon DEF Allows, UpdateClientForTenant, RotateClientSecretForTenant, Owned
      <4>4. QED
        BY <1>3, <1>r, <4>2, <4>3, Zenon DEF Kept
    <3>2. Rotates(cmd) => \E i \in 1 .. Len(rotations'[k]) : rotations'[k][i] = r
      BY <1>h
    <3>3. QED
      BY <2>4, <3>1, <3>2
  <2>5. QED
    BY <2>3, <2>4
<1>10. QED
  BY <1>t, <1>r, <1>s, <1>1, <1>2, <1>3, <1>4, <1>5, <1>7, <1>8, <1>9, Zenon DEF Tables

\* A step that makes the change of one request visible.
LEMMA ShowStep ==
  ASSUME Inv, NEW r \in Req, Moved(r), req[r].pc # "idle", NEW row, Changed(r, row), Show(r, row),
         Observe, Local(r)'
  PROVE  Inv'
<1>c. req[r].cmd \in Command
  BY Zenon DEF Inv, Local, Shape
<1>1. Types' /\ Tables' /\ Kept /\ committed' = committed \cup {r}
  BY ShowTables, ObserveFacts, Zenon DEF Inv, Types, TypeOK, Moved, Lockable
<1>2. ASSUME NEW q \in Req \ {r} PROVE Local(q)'
  <2>1. At(q, "commit", Executed) => Row(q)' = Row(q)
    <3>1. SUFFICES ASSUME At(q, "commit", Executed), Key(q) = Key(r),
                          req[q].cmd.op \in TenantOps <=> req[r].cmd.op \in TenantOps
                   PROVE  FALSE
      <4>1. req'[q] = req[q] /\ Key(q)' = Key(q)
        BY Zenon DEF Moved, Key
      <4>2. At(q, "commit", Executed) =>
              /\ req[q].cmd.op \in TenantOps => Key(q) \in Tenants
              /\ req[q].cmd.op \notin TenantOps => Key(q) \in Clients
        BY KeyFacts, Zenon DEF Inv, Local, Shape, At
      <4>3. QED
        BY <4>1, <4>2 DEF Show, Row, Inv, Types, TypeOK
    <3>2. req[r].cmd.op \in Creations /\ r \notin committed
      BY <3>1, Zenon DEF Changed, Creations
    <3>3. Found(Row(q)) /\ Key(q) = r
      BY <1>c, <3>1, <3>2, KeyFacts, Zenon DEF Inv, Local, Held
    <3>4. QED
      BY <3>2, <3>3, Zenon DEF Inv, Tables, Fresh, Row
  <2>2. At(q, "commit", {"create_tenant"}) => ~NameTaken(req[q].cmd.name)'
    <3>1. SUFFICES ASSUME At(q, "commit", {"create_tenant"}), NEW t \in Tenants, Found(tenant'[t]),
                          Lower(tenant'[t].name) = Lower(req[q].cmd.name)
                   PROVE  FALSE
      BY Zenon DEF NameTaken, Moved
    <3>2. ~Found(tenant[t]) \/ tenant'[t].name # tenant[t].name
      BY <3>1, Zenon DEF Inv, Local, Reserved, NameTaken
    <3>3. ~Found(tenant[t])
      BY <1>1, <3>1, <3>2, Zenon DEF Kept
    <3>4. req[r].cmd.op = "create_tenant" /\ tenant'[t] = NewTenant(req[r].cmd.name)
      BY <1>c, <3>1, <3>3, KeyFacts, Zenon DEF Changed, Show, Row, Executed, TenantOps, Inv, Types,
         TypeOK
    <3>5. QED
      BY <3>1, <3>4 DEF Changed, NewTenant, Executed
  <2>3. Local(q) /\ Reserved(r)' /\ witness[q] \subseteq witness'[q]
    BY ObserveFacts, Zenon DEF Inv, Types, TypeOK, Local
  <2>4. QED
    BY <1>1, <2>1, <2>2, <2>3, OthersKeep
<1>3. QED
  BY <1>1, <1>2, Zenon DEF Inv

-----------------------------------------------------------------------------
(* Steps *)

\* A request that unlocks, or locks what is free, leaves the locks of others.
LEMMA LockFrame ==
  ASSUME Inv, NEW r \in Req,
         \/ lock' = lock \/ lock' = Unlocked(r)
         \/ \E k \in Lockable : lock[k] = NoReq /\ lock' = [lock EXCEPT ![k] = r]
  PROVE  /\ lock' \in [Lockable -> Req \cup {NoReq}]
         /\ \A k \in Lockable : lock[k] \notin {NoReq, r} => lock'[k] = lock[k]
BY DEF Inv, Types, TypeOK, Lockable, Unlocked

\* What Goto changes, and what it leaves.
LEMMA GotoMoves ==
  ASSUME Inv, NEW r \in Req, NEW pc \in {"insert", "tenant", "commit", "emit"},
         NEW row \in TenantRow \cup ClientRow \cup {NoClient}, Goto(r, pc, row),
         emitted' = emitted \/ emitted' = emitted \cup {r},
         \/ lock' = lock \/ lock' = Unlocked(r)
         \/ \E k \in Lockable : lock[k] = NoReq /\ lock' = [lock EXCEPT ![k] = r]
  PROVE  /\ Moved(r) /\ req'[r].pc = pc /\ req'[r].row = row
         /\ req'[r].cmd = req[r].cmd /\ req'[r].result = req[r].result
<1>1. /\ req \in [Req -> Request] /\ emitted \subseteq Req
      /\ req' = [req EXCEPT ![r] = [req[r] EXCEPT !.pc = pc, !.row = row]]
  BY Zenon DEF Inv, Types, TypeOK, Goto
<1>2. [req[r] EXCEPT !.pc = pc, !.row = row] \in Request
  BY <1>1, Zenon DEF Request
<1>3. req' \in [Req -> Request] /\ \A q \in Req \ {r} : req'[q] = req[q]
  BY <1>1, <1>2
<1>4. /\ req'[r].pc = pc /\ req'[r].row = row
      /\ req'[r].cmd = req[r].cmd /\ req'[r].result = req[r].result
  BY <1>1, Zenon DEF Request
<1>5. QED
  BY <1>1, <1>3, <1>4, LockFrame, Zenon DEF Moved

\* What Answer changes, and what it leaves.
LEMMA AnswerMoves ==
  ASSUME Inv, NEW r \in Req, NEW result \in {"ok", "refused", "failed"}, Answer(r, result),
         emitted' = emitted \/ emitted' = emitted \cup {r}, lock' = lock \/ lock' = Unlocked(r)
  PROVE  /\ Moved(r) /\ req'[r].pc = "done" /\ req'[r].result = result
         /\ req'[r].cmd = req[r].cmd
<1>1. /\ req \in [Req -> Request] /\ emitted \subseteq Req
      /\ req' = [req EXCEPT ![r] = [req[r] EXCEPT !.pc = "done", !.row = NoClient, !.result = result]]
  BY Zenon DEF Inv, Types, TypeOK, Answer
<1>2. [req[r] EXCEPT !.pc = "done", !.row = NoClient, !.result = result] \in Request
  BY <1>1, Zenon DEF Request
<1>3. req' \in [Req -> Request] /\ \A q \in Req \ {r} : req'[q] = req[q]
  BY <1>1, <1>2
<1>4. req'[r].pc = "done" /\ req'[r].result = result /\ req'[r].cmd = req[r].cmd
  BY <1>1 DEF Request
<1>5. QED
  BY <1>1, <1>3, <1>4, LockFrame, Zenon DEF Moved

\* A request that is refused, or fails before its commit, changed nothing.
LEMMA RefuseStep ==
  ASSUME Inv, NEW r \in Req, req[r].pc \in {"begin", "insert", "tenant"}, Refuse(r), Observe
  PROVE  Inv'
<1>1. /\ Moved(r) /\ req'[r].pc = "done" /\ req'[r].result = "refused"
      /\ req'[r].cmd = req[r].cmd
  BY AnswerMoves, Zenon DEF Refuse
<1>2. Local(r)'
  BY <1>1, Zenon DEF Inv, Local, Shape, Held, Reserved, Inserted, Resolving, Resolved, At, Refuse,
     db
<1>3. QED
  BY <1>1, <1>2, QuietStep, Zenon DEF Refuse

\* A failure keeps the invariant.
LEMMA FailStep ==
  ASSUME Inv, NEW r \in Req, req[r].pc \in {"begin", "insert", "tenant", "commit"},
         CommitFails(r), Observe
  PROVE  Inv'
<1>1. /\ Moved(r) /\ req'[r].pc = "done" /\ req'[r].result = "failed"
      /\ req'[r].cmd = req[r].cmd
  BY AnswerMoves, Zenon DEF CommitFails
<1>2. Local(r)'
  BY <1>1, Zenon DEF Inv, Local, Shape, Held, Reserved, Inserted, Resolving, Resolved, At,
     CommitFails, db
<1>3. QED
  BY <1>1, <1>2, QuietStep, Zenon DEF CommitFails

\* A creation in the in-memory stores.
LEMMA CreateInMemoryStep ==
  ASSUME Inv, NEW r \in Req, req[r].pc \in {"begin", "insert"}, req[r].cmd.op \in Creations,
         NEW row, Changed(r, row), CreateInMemory(r, row), Observe
  PROVE  Inv'
<1>1. /\ Moved(r) /\ req'[r].pc = "done" /\ req'[r].result = "ok" /\ req'[r].cmd = req[r].cmd
  BY AnswerMoves, Zenon DEF CreateInMemory
<1>2. Local(r)'
  BY <1>1, Zenon DEF Inv, Local, Shape, Held, Reserved, Inserted, Resolving, Resolved, At,
     CreateInMemory, Show, Creations, Audited
<1>3. QED
  BY <1>1, <1>2, ShowStep, Zenon DEF CreateInMemory

\* CreateTenant keeps the invariant.
LEMMA CreateTenantStep ==
  ASSUME Inv, NEW r \in Req, CreateTenant(r), Observe
  PROVE  Inv'
<1> DEFINE name == req[r].cmd.name
<1>1. /\ req[r].pc = "begin" /\ req[r].cmd.op = "create_tenant" /\ req[r].cmd \in Command
      /\ r \notin emitted /\ r \notin committed /\ req[r].result = "none"
  BY Zenon DEF CreateTenant, At, Inv, Local, Shape
<1>2. CASE NameTaken(name)
  BY <1>1, <1>2, RefuseStep, Zenon DEF CreateTenant
<1>3. CASE ~NameTaken(name) /\ Backend = "memory"
  <2>1. \A q \in Req : req[q].pc # "commit"
    BY <1>3, Zenon DEF Inv, Local, Shape
  <2>2. Changed(r, NewTenant(name)) /\ CreateInMemory(r, NewTenant(name))
    BY <1>1, <1>3, <2>1, Zenon DEF Changed, CreateTenant, At
  <2>3. QED
    BY <1>1, <2>2, CreateInMemoryStep, Zenon DEF Creations
<1>4. CASE ~NameTaken(name) /\ Backend # "memory"
  <2>1. /\ Goto(r, "commit", NewTenant(name)) /\ ~NameInDoubt(name)
        /\ emitted' = emitted \cup {r} /\ lock' = lock /\ UNCHANGED db /\ Backend = "postgres"
    BY <1>4, TenantAssumption, Zenon DEF CreateTenant
  <2>2. NewTenant(name) \in TenantRow
    BY <1>1, CommandFacts, Zenon DEF NewTenant, TenantRow, Status
  <2>3. /\ Moved(r) /\ req'[r].pc = "commit" /\ req'[r].row = NewTenant(name)
        /\ req'[r].cmd = req[r].cmd /\ req'[r].result = "none"
    BY <1>1, <2>1, <2>2, GotoMoves
  <2>4. Reserved(r)'
    BY <1>1, <1>4, <2>1, <2>3, Zenon DEF Reserved, At, NameTaken, NameInDoubt, Moved, db
  <2>5. Local(r)'
    BY <1>1, <2>1, <2>3, <2>4, Zenon DEF Local, Shape, Held, Inserted, Resolving, Resolved, At,
       Creations, Executed, db
  <2>6. QED
    BY <2>1, <2>3, <2>5, QuietStep
<1>5. QED
  BY <1>2, <1>3, <1>4

\* LoadTenant keeps the invariant.
LEMMA LoadTenantStep ==
  ASSUME Inv, NEW r \in Req, LoadTenant(r), Observe
  PROVE  Inv'
<1>1. req[r].pc = "begin" /\ req[r].cmd.op = "create_client" /\ MutexFree
  BY Zenon DEF LoadTenant, At
<1>2. CASE Refuse(r)
  BY <1>1, <1>2, RefuseStep
<1>3. CASE /\ Goto(r, "insert", NoClient) /\ UNCHANGED <<db, emitted>>
           /\ lock' = IF Backend = "memory" THEN [lock EXCEPT !["tx"] = r] ELSE lock
  <2>1. \/ lock' = lock
        \/ \E k \in Lockable : lock[k] = NoReq /\ lock' = [lock EXCEPT ![k] = r]
    BY <1>1, <1>3, Zenon DEF MutexFree, Lockable
  <2>2. /\ Moved(r) /\ req'[r].pc = "insert"
        /\ req'[r].cmd = req[r].cmd /\ req'[r].result = req[r].result
    BY <1>3, <2>1, GotoMoves, Zenon
  <2>3. Local(r)'
    BY <1>1, <1>3, <2>2, Zenon DEF Inv, Local, Shape, Held, Reserved, Inserted, Resolving, Resolved,
       At, db
  <2>4. QED
    BY <1>3, <2>2, <2>3, QuietStep
<1>4. QED
  BY <1>2, <1>3, Zenon DEF LoadTenant

\* InsertClient keeps the invariant.
LEMMA InsertClientStep ==
  ASSUME Inv, NEW r \in Req, InsertClient(r), Observe
  PROVE  Inv'
<1> DEFINE cmd == req[r].cmd
           row == NewClient(cmd.tenant, GenerateSecret(r, cmd.public), cmd.grants)
<1>1. /\ req[r].pc = "insert" /\ cmd.op = "create_client" /\ cmd \in Command /\ ValidCreate(cmd)
      /\ r \notin emitted /\ r \notin committed /\ req[r].result = "none"
  BY Zenon DEF InsertClient, At, Inv, Local, Shape, Validate
<1>2. CASE Backend = "memory"
  <2>1. Changed(r, row) /\ CreateInMemory(r, row)
    BY <1>1, <1>2, Zenon DEF Changed, InsertClient
  <2>2. QED
    BY <1>1, <2>1, CreateInMemoryStep, Zenon DEF Creations
<1>3. CASE Backend # "memory"
  <2>1. /\ Goto(r, "commit", row) /\ emitted' = emitted \cup {r} /\ lock' = lock
        /\ UNCHANGED db /\ Backend = "postgres"
    BY <1>3, TenantAssumption, Zenon DEF InsertClient
  <2>2. row \in ClientRow
    BY <1>1, CommandFacts, Zenon DEF NewClient, GenerateSecret, ClientRow, Status, Clients
  <2>3. /\ Moved(r) /\ req'[r].pc = "commit" /\ req'[r].row = row
        /\ req'[r].cmd = cmd /\ req'[r].result = "none"
    BY <1>1, <2>1, <2>2, GotoMoves
  <2>4. Local(r)'
    BY <1>1, <2>1, <2>3, Zenon DEF Local, Shape, Held, Reserved, Inserted, Resolving, Resolved, At,
       Creations, Executed, db
  <2>5. QED
    BY <2>1, <2>3, <2>4, QuietStep
<1>4. QED
  BY <1>2, <1>3

\* The row a change reads has the type of its table.
LEMMA RowType ==
  ASSUME Inv, NEW r \in Req, req[r].cmd \in Command, Found(Row(r))
  PROVE  Row(r) \in TenantRow \cup ClientRow
BY KeyFacts DEF Inv, Types, TypeOK, Row, Found, NoTenant, NoClient

\* Execute keeps the invariant.
LEMMA ExecuteStep ==
  ASSUME Inv, NEW r \in Req, Execute(r), Observe
  PROVE  Inv'
<1>1. /\ req[r].pc = "begin" /\ req[r].cmd.op \in Executed /\ req[r].cmd \in Command
      /\ r \notin emitted /\ r \notin committed /\ req[r].result = "none"
      /\ lock[Key(r)] = NoReq /\ Key(r) \in Lockable
  BY KeyFacts, Zenon DEF Execute, At, CanLock, Lockable, Inv, Local, Shape
<1>2. CASE ~(Found(Row(r)) /\ Allows(Row(r), req[r].cmd))
  BY <1>1, <1>2, RefuseStep, Zenon DEF Execute
<1>3. CASE Found(Row(r)) /\ Allows(Row(r), req[r].cmd) /\ Backend = "memory"
  <2>1. ExecuteInMemory(r, Row(r))
    BY <1>3, Zenon DEF Execute
  <2>2. Changed(r, Mutate(Row(r), r, req[r].cmd))
    BY <1>1, <1>3, TenantAssumption, Zenon DEF Changed, Inv, Local, Held
  <2>3. /\ Moved(r) /\ req'[r].pc = "emit" /\ req'[r].cmd = req[r].cmd /\ req'[r].result = "none"
    BY <1>1, <2>1, GotoMoves, Zenon DEF ExecuteInMemory
  <2>4. Local(r)'
    BY <1>1, <2>1, <2>3, Zenon DEF Local, Shape, Held, Reserved, Inserted, Resolving, Resolved, At,
       ExecuteInMemory, Show
  <2>5. QED
    BY <1>1, <2>1, <2>2, <2>3, <2>4, ShowStep, Zenon DEF ExecuteInMemory
<1>4. CASE Found(Row(r)) /\ Allows(Row(r), req[r].cmd) /\ Backend # "memory"
  <2>1. /\ Goto(r, "commit", Row(r)) /\ lock' = [lock EXCEPT ![Key(r)] = r]
        /\ UNCHANGED <<db, emitted>> /\ Backend = "postgres"
    BY <1>4, TenantAssumption, Zenon DEF Execute
  <2>2. /\ Moved(r) /\ req'[r].pc = "commit" /\ req'[r].row = Row(r)
        /\ req'[r].cmd = req[r].cmd /\ req'[r].result = "none"
    BY <1>1, <1>4, <2>1, RowType, GotoMoves, Zenon
  <2>3. Row(r)' = Row(r) /\ Key(r)' = Key(r) /\ lock'[Key(r)] = r
    BY <1>1, <2>1, <2>2, Zenon DEF Row, Key, db, Inv, Types, TypeOK, Lockable
  <2>4. Local(r)'
    BY <1>1, <1>4, <2>1, <2>2, <2>3, Zenon DEF Local, Shape, Held, Reserved, Inserted, Resolving,
       Resolved, At, Creations, Executed, db
  <2>5. QED
    BY <2>1, <2>2, <2>4, QuietStep
<1>5. QED
  BY <1>2, <1>3, <1>4

\* Commit keeps the invariant.
LEMMA CommitStep ==
  ASSUME Inv, NEW r \in Req, Commit(r), Observe
  PROVE  Inv'
<1>1. /\ req[r].pc = "commit" /\ req[r].cmd.op \in Executed \cup Creations /\ req[r].cmd \in Command
      /\ r \notin committed /\ (r \in emitted <=> req[r].cmd.op \in Creations)
      /\ req[r].result = "none"
  BY Zenon DEF Commit, Inv, Local, Shape
<1>2. Changed(r, After(r))
  <2>1. CASE req[r].cmd.op \in Executed
    <3>1. /\ lock[Key(r)] = r /\ After(r) = Mutate(Row(r), r, req[r].cmd)
          /\ Found(Row(r)) /\ Allows(Row(r), req[r].cmd)
      BY <1>1, <2>1, Zenon DEF Inv, Local, Held, At, After
    <3>2. QED
      BY <2>1, <3>1, Zenon DEF Changed, Inv, Local, Held
  <2>2. CASE req[r].cmd.op \in Creations
    <3>1. After(r) = req[r].row
      BY <2>2, Zenon DEF After, Executed, Creations
    <3>2. QED
      BY <1>1, <2>2, <3>1, Zenon DEF Changed, Inv, Local, Reserved, Inserted, At, Creations
  <2>3. QED
    BY <1>1, <2>1, <2>2
<1>3. CASE CommitFails(r)
  BY <1>1, <1>3, FailStep
<1>4. CASE Show(r, After(r)) /\ Answer(r, "failed") /\ lock' = Unlocked(r) /\ UNCHANGED emitted
  <2>1. /\ Moved(r) /\ req'[r].pc = "done" /\ req'[r].result = "failed" /\ req'[r].cmd = req[r].cmd
    BY <1>4, AnswerMoves
  <2>2. Local(r)'
    BY <1>1, <1>4, <2>1, Zenon DEF Local, Shape, Held, Reserved, Inserted, Resolving, Resolved, At,
       Show
  <2>3. QED
    BY <1>1, <1>2, <1>4, <2>1, <2>2, ShowStep
<1>5. CASE /\ Show(r, After(r)) /\ lock' = Unlocked(r) /\ UNCHANGED emitted
           /\ req[r].cmd.op \in Executed /\ Goto(r, "emit", NoClient)
  <2>1. /\ Moved(r) /\ req'[r].pc = "emit" /\ req'[r].cmd = req[r].cmd /\ req'[r].result = "none"
    BY <1>1, <1>5, GotoMoves
  <2>2. Local(r)'
    BY <1>1, <1>5, <2>1, Zenon DEF Local, Shape, Held, Reserved, Inserted, Resolving, Resolved, At,
       Show, Executed, Creations
  <2>3. QED
    BY <1>1, <1>2, <1>5, <2>1, <2>2, ShowStep
<1>6. CASE /\ Show(r, After(r)) /\ lock' = Unlocked(r) /\ UNCHANGED emitted
           /\ req[r].cmd.op \notin Executed /\ Answer(r, "ok")
  <2>1. /\ Moved(r) /\ req'[r].pc = "done" /\ req'[r].result = "ok" /\ req'[r].cmd = req[r].cmd
    BY <1>6, AnswerMoves
  <2>2. Local(r)'
    BY <1>1, <1>6, <2>1, Zenon DEF Local, Shape, Held, Reserved, Inserted, Resolving, Resolved, At,
       Show, Creations, Audited
  <2>3. QED
    BY <1>1, <1>2, <1>6, <2>1, <2>2, ShowStep
<1>7. QED
  BY <1>3, <1>4, <1>5, <1>6, Zenon DEF Commit

\* Emit keeps the invariant.
LEMMA EmitStep ==
  ASSUME Inv, NEW r \in Req, Emit(r), Observe
  PROVE  Inv'
<1>1. /\ Moved(r) /\ req'[r].pc = "done" /\ req'[r].result = "ok" /\ req'[r].cmd = req[r].cmd
  BY AnswerMoves, Zenon DEF Emit
<1>2. Local(r)'
  BY <1>1, Zenon DEF Inv, Local, Shape, Held, Reserved, Inserted, Resolving, Resolved, At, Emit,
     Executed, db
<1>3. QED
  BY <1>1, <1>2, QuietStep, Zenon DEF Emit

\* ResolveClient keeps the invariant.
LEMMA ResolveClientStep ==
  ASSUME Inv, NEW r \in Req, ResolveClient(r), Observe
  PROVE  Inv'
<1> DEFINE c == client[req[r].cmd.client]
<1>1. /\ req[r].pc = "begin" /\ req[r].cmd.op = "resolve" /\ req[r].cmd \in Command
      /\ r \notin emitted /\ r \notin committed /\ req[r].result = "none"
  BY Zenon DEF ResolveClient, At, Inv, Local, Shape
<1>2. CASE Refuse(r)
  BY <1>1, <1>2, RefuseStep
<1>3. CASE IsActive(c) /\ Goto(r, "tenant", c) /\ UNCHANGED <<db, lock, emitted>>
  <2>1. c \in ClientRow
    <3>1. req[r].cmd.client \in Clients
      BY <1>1, CommandFacts, Zenon DEF Op, TenantOps
    <3>2. QED
      BY <1>3, <3>1 DEF Inv, Types, TypeOK, IsActive, NoClient
  <2>2. /\ Moved(r) /\ req'[r].pc = "tenant" /\ req'[r].row = c
        /\ req'[r].cmd = req[r].cmd /\ req'[r].result = "none"
    BY <1>1, <1>3, <2>1, GotoMoves
  <2>3. "client" \in witness'[r]
    <3>1. "client" \in ActiveFor(r)'
      BY <1>3, <2>2, Zenon DEF ActiveFor, db
    <3>2. QED
      BY <1>1, <2>2, <3>1, ObserveFacts, Zenon DEF Inv, Types, TypeOK
  <2>4. Local(r)'
    BY <1>1, <1>3, <2>2, <2>3, Zenon DEF Local, Shape, Held, Reserved, Inserted, Resolving,
       Resolved, At, IsActive, Found, db
  <2>5. QED
    BY <1>3, <2>2, <2>4, QuietStep
<1>4. QED
  BY <1>2, <1>3, Zenon DEF ResolveClient, ResolveRead, FindByOAuthClientID

\* ResolveTenant keeps the invariant.
LEMMA ResolveTenantStep ==
  ASSUME Inv, NEW r \in Req, ResolveTenant(r), Observe
  PROVE  Inv'
<1>1. /\ req[r].pc = "tenant" /\ req[r].cmd.op = "resolve" /\ req[r].cmd \in Command
      /\ r \notin emitted /\ r \notin committed /\ Resolving(r)
  BY Zenon DEF ResolveTenant, At, Inv, Local, Shape
<1>2. CASE Refuse(r)
  BY <1>1, <1>2, RefuseStep
<1>3. CASE /\ IsActive(tenant[req[r].row.tenant])
           /\ Answer(r, "ok") /\ UNCHANGED <<db, lock, emitted>>
  <2>1. /\ Moved(r) /\ req'[r].pc = "done" /\ req'[r].result = "ok" /\ req'[r].cmd = req[r].cmd
    BY <1>3, AnswerMoves
  <2>2. "tenant" \in ActiveFor(r)'
    BY <1>1, <1>3, <2>1, Zenon DEF ActiveFor, Resolving, At, db
  <2>3. {"client", "tenant"} \subseteq witness'[r]
    BY <1>1, <2>1, <2>2, ObserveFacts DEF Resolving, At, Inv, Types, TypeOK
  <2>4. Local(r)'
    BY <1>1, <1>3, <2>1, <2>3, Zenon DEF Local, Shape, Held, Reserved, Inserted, Resolving,
       Resolved, At, db
  <2>5. QED
    BY <1>3, <2>1, <2>4, QuietStep
<1>4. QED
  BY <1>2, <1>3, Zenon DEF ResolveTenant, FindTenantByID

\* VerifyClientSecret keeps the invariant.
LEMMA VerifyClientSecretStep ==
  ASSUME Inv, NEW r \in Req, VerifyClientSecret(r), Observe
  PROVE  Inv'
<1>1. req[r].pc = "begin" /\ req[r].cmd.op = "verify"
  BY Zenon DEF VerifyClientSecret, At
<1>2. CASE Refuse(r)
  BY <1>1, <1>2, RefuseStep
<1>3. CASE Answer(r, "ok") /\ UNCHANGED <<db, lock, emitted>>
  <2>1. /\ Moved(r) /\ req'[r].pc = "done" /\ req'[r].result = "ok" /\ req'[r].cmd = req[r].cmd
    BY <1>3, AnswerMoves
  <2>2. Local(r)'
    BY <1>1, <1>3, <2>1, Zenon DEF Inv, Local, Shape, Held, Reserved, Inserted, Resolving, Resolved,
       At, db
  <2>3. QED
    BY <1>3, <2>1, <2>2, QuietStep
<1>4. QED
  BY <1>2, <1>3, Zenon DEF VerifyClientSecret

\* The arrival of a request keeps the invariant.
LEMMA ArriveStep ==
  ASSUME Inv, NEW r \in Req, NEW cmd \in Command, Arrive(r, cmd), Observe
  PROVE  Inv'
<1> DEFINE pc == IF Validate(cmd) THEN "begin" ELSE "done"
           result == IF Validate(cmd) THEN "none" ELSE "refused"
           x == [req[r] EXCEPT !.pc = pc, !.cmd = cmd, !.result = result]
<1>1. /\ req[r].pc = "idle" /\ r \notin emitted /\ r \notin committed
      /\ req \in [Req -> Request] /\ emitted \subseteq Req
      /\ req' = [req EXCEPT ![r] = x] /\ UNCHANGED <<db, lock, emitted>>
  BY Zenon DEF Arrive, Inv, Types, TypeOK, Local, Shape
<1>2. x \in Request /\ x.pc = pc /\ x.cmd = cmd /\ x.result = result
  BY <1>1, Zenon DEF Request
<1>3. Moved(r)
  BY <1>1, <1>2, LockFrame, Zenon DEF Moved
<1>4. req'[r].pc = pc /\ req'[r].cmd = cmd /\ req'[r].result = result
  BY <1>1, <1>2
<1>5. Local(r)'
  BY <1>1, <1>4 DEF Local, Shape, Held, Reserved, Inserted, Resolving, Resolved, At, db
<1>6. QED
  BY <1>1, <1>3, <1>5, QuietStep

-----------------------------------------------------------------------------
(* Results *)

\* The invariant holds at the start.
LEMMA InvInit == Init => Inv
<1> SUFFICES ASSUME Init PROVE Inv
  OBVIOUS
<1>1. /\ tenant \in [Tenants -> TenantRow \cup {NoTenant}] /\ NamesUnique
      /\ \A r \in Req : tenant[r] = NoTenant
  <2>1. PICK name \in [SeedTenant -> Name], status \in [SeedTenant -> Status] :
          /\ \A s, t \in SeedTenant : Lower(name[s]) = Lower(name[t]) => s = t
          /\ tenant = [t \in Tenants |-> IF t \in SeedTenant
               THEN [name |-> name[t], status |-> status[t]] ELSE NoTenant]
    BY Zenon DEF Init
  <2>2. \A t \in Tenants : IF t \in SeedTenant
          THEN tenant[t] \in TenantRow /\ tenant[t].name = name[t] ELSE tenant[t] = NoTenant
    BY <2>1, Zenon DEF TenantRow
  <2>3. tenant \in [Tenants -> TenantRow \cup {NoTenant}]
    BY <2>1, <2>2
  <2>4. NamesUnique
    BY <2>1, <2>2, Zenon DEF NamesUnique, Found, NoTenant
  <2>5. QED
    BY <2>2, <2>3, <2>4, TenantAssumption, Zenon DEF Tenants
<1>2. /\ client \in [Clients -> ClientRow \cup {NoClient}] /\ GrantsFit
      /\ \A r \in Req : client[r] = NoClient
      /\ \A c \in Clients : IsConfidential(client[c]) => client[c].secret = c
  BY TenantAssumption DEF Init, Clients, GrantsFit, Found, NoClient, IsConfidential
<1>3. rotations \in [Clients -> Seq(Clients)] /\ LastSecret
  BY <1>2 DEF Init, LastSecret
<1>4. \A r \in Req : /\ req[r].pc = "idle" /\ req[r].cmd = NoCommand
                     /\ req[r].row = NoClient /\ req[r].result = "none"
  BY Zenon DEF Init
<1>5. req \in [Req -> Request]
  BY Zenon DEF Init, Request
<1>6. Types
  BY <1>1, <1>2, <1>3, <1>5, Zenon DEF Init, Types, TypeOK
<1>7. Tables
  <2>1. Fresh
    BY <1>1, <1>2 DEF Fresh, Found, NoTenant, NoClient
  <2>2. Effects
    BY Zenon DEF Init, Effects
  <2>3. QED
    BY <1>1, <1>2, <1>3, <2>1, <2>2, Zenon DEF Tables
<1>8. \A r \in Req : Local(r)
  BY <1>4 DEF Init, Local, Shape, Held, Reserved, Inserted, Resolving, Resolved, At
<1>9. QED
  BY <1>6, <1>7, <1>8, Zenon DEF Inv

\* Every step keeps the invariant.
LEMMA InvNext == Inv /\ [Next]_vars => Inv'
<1> SUFFICES ASSUME Inv, [Next]_vars PROVE Inv'
  OBVIOUS
<1>1. CASE UNCHANGED vars
  <2>1. Types' /\ Tables'
    <3>1. Types'
      BY <1>1, Zenon DEF vars, Inv, Types, TypeOK, Lockable
    <3>2. NamesUnique' /\ GrantsFit' /\ Fresh'
      BY <1>1, Zenon DEF vars, Inv, Tables, NamesUnique, GrantsFit, Fresh
    <3>3. LastSecret'
      BY <1>1, Zenon DEF vars, Inv, Tables, LastSecret
    <3>4. /\ committed' = committed /\ req' = req /\ client' = client /\ rotations' = rotations
          /\ \A r \in committed : Key(r)' = Key(r)
      BY <1>1, Zenon DEF vars, Key
    <3>5. Effects'
      BY <3>4, Zenon DEF Inv, Tables, Effects
    <3>6. QED
      BY <3>1, <3>2, <3>3, <3>5, Zenon DEF Tables
  <2>2. ASSUME NEW r \in Req PROVE Local(r)'
    <3>1. Shape(r)' /\ Inserted(r)' /\ Resolving(r)' /\ Resolved(r)'
      BY <1>1, Zenon DEF vars, Inv, Local, Shape, Inserted, Resolving, Resolved, At
    <3>2. Held(r)' /\ Reserved(r)'
      BY <1>1, Zenon DEF vars, Inv, Local, Held, Row, Key, Reserved, NameTaken, At
    <3>3. QED
      BY <3>1, <3>2, Zenon DEF Local
  <2>3. QED
    BY <2>1, <2>2, Zenon DEF Inv
<1>2. ASSUME NEW r \in Req, Step(r), Observe PROVE Inv'
  BY <1>2, CreateTenantStep, LoadTenantStep, InsertClientStep, ExecuteStep, CommitStep, EmitStep,
     ResolveClientStep, ResolveTenantStep, VerifyClientSecretStep, Zenon DEF Step
<1>3. ASSUME NEW r \in Req, Abort(r), Observe PROVE Inv'
  BY <1>3, FailStep, Zenon DEF Abort, At, CommitFails
<1>4. ASSUME NEW r \in Req, Arrivals(r), Observe PROVE Inv'
  <2>1. PICK cmd \in Commands({t \in Tenants : Found(tenant[t])} \cup {r},
                              {c \in Clients : Found(client[c])} \cup {r}) : Arrive(r, cmd)
    BY <1>4, Zenon DEF Arrivals
  <2>2. cmd \in Command
    BY CallersCommand, Zenon DEF Tenants, Clients
  <2>3. QED
    BY <1>4, <2>1, <2>2, ArriveStep
<1>5. QED
  BY <1>1, <1>2, <1>3, <1>4, Zenon DEF Next

\* The invariant holds in every behaviour.
LEMMA InvHolds == Spec => []Inv
BY InvInit, InvNext, PTL DEF Spec

\* The rows of tenants and clients stay consistent whatever the administrators do
\* at the same time: unique names, grants that fit, changes within their scope,
\* rows overwritten as they were read, and the secret last answered in force.
THEOREM RowsStayKept == Spec => []RowsKept
<1>1. Inv => RowsKept
  <2> SUFFICES ASSUME Inv PROVE RowsKept
    OBVIOUS
  <2>1. TypeOK /\ NamesUnique /\ GrantsFit /\ ScopeKept
    BY Zenon DEF Inv, Types, Tables, Effects, ScopeKept
  <2>2. ReadIsCurrent
    BY Zenon DEF Inv, Local, Held, ReadIsCurrent
  <2>3. ASSUME NEW r \in Req, At(r, "done", Op), req[r].result = "ok", Rotates(req[r].cmd)
        PROVE  \E i \in 1 .. Len(rotations[Key(r)]) : rotations[Key(r)][i] = r
    <3>1. r \in committed
      BY <2>3, Zenon DEF Inv, Local, Shape, At, Rotates
    <3>2. QED
      BY <2>3, <3>1, Zenon DEF Inv, Tables, Effects
  <2>4. SecretInForce
    BY <2>3, Zenon DEF SecretInForce, Inv, Tables, LastSecret
  <2>5. QED
    BY <2>1, <2>2, <2>4, Zenon DEF RowsKept
<1>2. QED
  BY <1>1, InvHolds, PTL

\* An answered change has its event and its effect, a refused one neither, and an
\* event without an effect is that of a creation whose commit is open or failed.
THEOREM EventsAreMatched == Spec => []EventsMatchChanges
<1>1. Inv => EventsMatchChanges
  BY Zenon DEF Inv, Local, Shape, EventsMatchChanges, At, Creations
<1>2. QED
  BY <1>1, InvHolds, PTL

\* ResolveClient answers with a client that was active, and whose tenant was
\* active, at some moment of the call.
THEOREM ResolveIsSound == Spec => []ResolveSound
<1>1. Inv => ResolveSound
  BY Zenon DEF Inv, Local, Resolved, ResolveSound
<1>2. QED
  BY <1>1, InvHolds, PTL
=============================================================================
