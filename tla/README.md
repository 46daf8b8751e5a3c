# Credo in TLA+

A verification development for Credo, the modular identity platform under
`src/`. TLA+ modules model its stateful parts, TLC explores small instances of
them, and TLAPS proves the main safety properties of eight parts for every
instance. `PROJECT.json` maps every definition to the lines it models and lists
the hazards of the code with the properties that would catch them.

## 1. The system

One Go process (`src/cmd/server`) holds all services; several processes may run
beside each other on one Postgres database. Background work runs in goroutines
(cleanup, outbox worker, security flush loop) and in a Kafka consumer.

| Part | Module | What makes it hard |
|---|---|---|
| auth: sessions, tokens, cleanup, bearer tokens | `AuthLifecycle` | a request is several database transactions; the mutex around them is per process and does not roll back; revocation takes no mutex; the cleanup deletes rows that replay detection reads |
| auth: revocation lists | `RevocationList` | eviction order and map; several expiry mechanisms |
| auth: session store in Redis | `SessionRedis`, implements `SessionStore` | pipelines that others interleave with and that break half way, keys that expire, WATCH |
| auth: client resolver, cache, breaker | `ClientResolver` | stale answers while the circuit is open |
| consent | `Consent` | idempotency window, cooldown, first grants at once, slow requests that apply old times, audit |
| audit: outbox, Kafka, consumer | `AuditOutbox`, implements `AuditTrail` | crashes between any two steps, redelivery, reordering |
| audit: security publisher | `SecurityPublisher`, implements `BoundedQueue` | overwriting at capacity, shutdown during a retry |
| audit: ops publisher | `OpsPublisher` | goroutines that report to the breaker long after they were let through |
| rate limiting: buckets, throttle, quotas | `RateBuckets`, `GlobalThrottle`, `APIKeyQuota` | compare-and-swap at window boundaries, stamps out of order, records shared by pointer |
| rate limiting: middleware, allowlist, admin | `RequestLimit` | breakers and fallback, two tiers of counters |
| rate limiting: lockout of log-ins | `AuthLockout` | counts that are read, awaited on and written |
| tenants and clients | `TenantClients` | status of client and tenant read in different statements, secrets rotated at once |
| evidence: orchestrator and providers | `RegistryOrchestrator`, implements `LookupContract` | strategies, retries, deadlines, one of two failing |
| evidence: registry service and caches | `RegistryService` on `RegistryCache` and `LookupContract` | consent withdrawn, cache written by others, mode changed between restarts |
| evidence: credentials | `CredentialService` | consent checked before issuance, store and audit that fail |
| decision | `DecisionService` on `CredentialService` | lookups in parallel under one deadline |
| start and shutdown of the server | `ServerShutdown` | order in which workers, servers and connections end |

The parts meet in the database and in a few calls: auth asks the tenant service
for a client on every request, services write audit events through the
publishers, and decision, credentials and registry ask consent before they go
on. `DecisionService` extends `CredentialService`, as one of its lookups reads
the credential store; `RegistryService` uses the orchestrator by the contract
that `RegistryOrchestrator` is shown to keep.

Not all of this is wired by `cmd/server/main.go`. It mounts the middleware of the global
throttle on no route, and does not construct the quota service, the fallback limiter
(`WithFallbackLimiter`), the Redis session store, the Redis cache of the registry or the
cleanup worker of the lockouts (it starts the other workers only). The auth handler asks
the lockout service before a log-in, but nothing calls `RecordAuthFailure` or
`ClearAuthFailures`. The models are of these components as written, for a server that
uses them; what is said of them is not a statement about the server as it is wired today.

## 2. Modules

Conventions in all of them: a table or map is a function from ids to rows; a
request, goroutine or client is a record of its local variables with a program
counter `pc`; a step is one store call, SQL statement, Redis command, atomic
operation or critical section, since that is where others can run. A call
that writes and fails may have had its effect or not: the answer is lost after the commit.
Where a model calls such an outcome "unknown", the caller of the Go code gets an error
(`consent_tx.go` returns the error of `Commit`). `Faults`, `Ops`, `Outages` and the like
say which failures and operations an instance has; `MaxTime`, `MaxFaults`,
`MaxUsage`… only bound. Variables marked *history* record what happened for the
properties and influence nothing.

**AuthLifecycle** (`internal/auth/service`, Postgres stores, cleanup worker,
`RequireAuth`). `users`, `sessions`, `codes`, `refresh` are the tables, where `free`
is an id not inserted yet and `gone` a deleted row (ids are random and never
reused); `trl` is the revocation list, `access` the JWTs handed out, `lock` the
`authTx` mutex of each server, `req` the requests, `cleaner` the worker. A request
remembers its arrival (`at`), because `requestcontext.Now` is fixed once per
request. `RunInTx` of `authTx` only takes the mutex: nothing is rolled back, and
two servers do not exclude each other. A store's `Execute` (row lock, validate,
mutate, write) is one step; foreign keys are guards of inserts and cascades of
deletes. `Reject` is every early return, store error, cancelled context and crash:
what was written stays. A session has one code, named by its session; one issuance
id stands for the JTI and the refresh token made with it.

**RevocationList** has the three lists (memory with a bound and eviction, Redis,
Postgres) behind one set of operations; a batch may repeat a token and be larger than
the list. **SessionRedis** has a key with TTL per session and a set per user, and a clock
that runs between any two commands. TTL answers whole seconds, rounded to the nearest, and
EXPIRE takes whole seconds, rounded down (`Second` is their length in ticks); `Latency` is
the time between the computation of a TTL and the SET that uses it. `Create` is a pipeline
of three commands, `Execute` a WATCH transaction, `UpdateSession` EXISTS, TTL and SET, `DeleteSessionsByUser` a
list, deletions and the removal of the set. `SessionStore` is the same store under
one lock. **ClientResolver** composes
breaker, cache and the tenant service as the source of truth; ages are kept
instead of times.

**Consent** (`internal/consent`). The committed rows of one user, the row locks of
the SQL transactions (READ COMMITTED) or the mutex of the in-memory store, and
requests that take their purposes in any order. A request applies the time of its
arrival, so it meets rows that are newer; the request timeout bounds by how much.

**AuditOutbox**. `outbox` is the table, `worker` the loop of each server's worker,
`log` and `committed` the topic's partitions and the group's offsets, `reader` the
member that reads a partition, `events` the rows per event id. `FOR UPDATE SKIP
LOCKED` is modelled by what it does in autocommit mode: the locks end with the
statement, so two workers may hold the same entries. Workers and readers stop,
crash and come up again anywhere. `AuditTrail` says what the pipeline is for: an
event that is appended is stored later, once.

**SecurityPublisher** has the ring with its indices, the flush loop, `Flush`, retries
and `Close`. Every `Append` mints a new row id, so a retry after a lost answer stores the
event again; what `Close` cuts off between two attempts is in no figure (`abandoned`); **OpsPublisher** sampling, the breaker with its read and write locks and
the writing goroutines; **ServerShutdown** the order in which `waitForShutdown` ends
things, and where audit events are at that moment.

**GlobalThrottle**, **RateBuckets**, **APIKeyQuota**, **AuthLockout** have both stores of
each, with requests whose stamps are up to `MaxLag` old. The memory stores of the
last two hand out pointers to their records, which the models keep.
**RequestLimit** abstracts a bucket to the requests of the window.

**TenantClients** has every operation that changes a tenant or a client, split at
its statements, `ResolveClient` and the check of a secret, over both stores. An update
that does not rotate the secret emits no event.

**RegistryOrchestrator** is one lookup (lookups share nothing but providers); the
HTTP exchange is its outcome. **RegistryService** is split at every call of cache,
orchestrator, consent and audit. What a registry responds is any person and, up to `Ages`
back, any stamp: nothing compares `national_id` and `checked_at` with the request. Which
person was asked for (`asked`) is history. **CredentialService** and **DecisionService** are
split likewise; the lookups of a decision are goroutines of an errgroup. An administrator may
delete a user, which takes credentials and consents in Postgres along, and Postgres keeps
times to the microsecond (`Micro`, in ticks).

`MC*` modules hold the instances, `*Proofs` modules the proofs.

## 3. Runs

Parts that share no state are checked in one run: the MC module extends one of
them and instantiates the others, and a variable `part` says which of them, in
which scenario, runs in the behaviour. No step of one part matters to another.

| Run | Scenarios | What it shows |
|---|---|---|
| `auth_tokens` | the tokens of one session with three issuances while deadlines pass; two sessions of two users with one address, ended in every way; 2 requests on 2 servers | codes and refresh tokens are exchanged once (`SingleUse`), a session has one credential at a time (`OneCredential`), a listed token stays refused (`ListedTokenRefused`), `RevokeSession` lists the latest token (`RevokeSessionListsLatest`), a revoked row never changes again but by deletion (`RevokedIsFinal`) |
| `auth_liveness` | 2 requests on 1 server, cleanup, fair | requests return (`RequestsReturn`), expired sessions are swept (`ExpiredSwept`) |
| `audit` | 2 events, 2 workers, batches of 2, 1 fault; with and without failures of storing | processed is published (`ProcessedIsPublished`), an event is stored once (`StoredOnce`), the outbox drains and, where storing works, the pipeline implements `AuditTrail` with its fairness (`TrailKept`) |
| `audit_skipped` | 1 worker, 1 handler error | a documented claim, refuted (section 5) |
| `consent` | the clock on one purpose with 3 requests; 4 grants and deletions of one purpose; 2 requests on 2 purposes in SQL, and in memory | an error in SQL means no change (`AllOrNothingInSQL`), events are about visible changes (`AuditTruthful`), regrants keep their distance (`RegrantSpacedInSQL`), grant times advance (`GrantedAdvances`) |
| `tenant` | 3 requests: administrators at one client; creations; resolution while client and tenant come and go; 2 requests in the name of a tenant | `RowsKept`: names unique, grants fit the kind of client, no lost update, the secret that was answered is in force; events match changes (`EventsMatchChanges`); what was resolved was active (`ResolveSound`) |
| `requests_return` | consent and tenant calls in SQL and in memory, an evaluation with and without a clock, lookups and health checks; fair | every request returns, an evaluation with a failed lookup although the clock stands still (`AllReturn`) |
| `counters` | throttle on atomics with 3 requests at once and with 2 late ones, and on rows with 3, whose largest count is above the limits or below one of them; ring, shard and table of the buckets; quotas; failed log-ins in Postgres | the counters of the throttle keep their bounds, and so does what they admit (`ThrottleBounded`, with limits at which a second admits more than twice its limit); `AdmissionsBounded`: so do rows (those with a limit above their largest count only count), late requests and sliding windows, and a refused client is admitted after `ResetAt`; `CountsKept`: counters agree with what was admitted, used and failed; a lock is never shortened (`LockNotShortened`) |
| `limits` | four kinds of limited requests through an outage, the allowlist, lockout in memory; failing log-ins of one identifier in Postgres; the resolver; fair | `LimitsKept`: no nil result, both tiers keep their limits, refusals only at the limit, no more log-ins beyond it than were under way; the failures with stamps of one window are no more than the attempts it allows and those under way, whatever the worker resets (`WindowKept`); circuits close again (`CircuitsClose`) |
| `decisions` | credential calls and deleted users; an evaluation; an evaluation beside an issuance, with consents that are not withdrawn | `CredentialsKept`: issued on grounds, kept as issued, minimal, verified honestly; nobody passes without evidence (`PassOnEvidence`); what was answered is audited, and what is audited was answered unless the write of its record was told as failed (`AnswersAudited`); `EvaluationsSound`: consent first, no lookup outlives its request, an outage of the credential lookup degrades only, a credential found counts, the reason tells the rule |
| `publishers` | ops breaker with 4 events; security ring of 2 with and without `Flush`; shutdown with 2 requests; fair | the breaker keeps its cooldown (`CooldownHolds`); the ring is a queue that drops its oldest (`QueueSpec`); `NothingLost`: every event is accounted for or cut off by `Close`, they are stored in order, twice only after an `Append` told as failed, and acknowledged compliance events persist; `PublishingEnds`: events leave, `Close` and the shutdown end |
| `lookups` | Redis sessions deleted, listed and updated; three revocation lists, with and without batches that repeat a token; four registry caches; five orchestrator configurations; the resolver | `ListByUser` takes no session out of its set that is there (`UnlistsOnlyGone`), the Redis store implements `SessionStore` (`StoreSpec`); revocation lists forget only what they may (`ListsForget`); `RecordsKept`: records are what was answered to a question about this person, audited, in regulated mode minimised, and from the cache in Postgres not older than its time to live; `EvidenceSound`: order of fallbacks, retries, voting, averages, conflicts; the orchestrator keeps `LookupContract` (`ContractKept`); a deactivated client is resolved only as long as the cache and the calls under way allow (`StalenessBounded`) |

Where a run has several parts, a property of the MC module is often a conjunction
of the statements that the parts make about the same matter, each stated and
explained in its own module and guarded by the scenarios it is about. The type
invariant of every module is a conjunct of such a property, or is proved
(section 4).

*Bounds.* Two concurrent requests give every race between two callers; three or
four are used where a third matters (a cooldown between two grants, a deletion
between two inserts). Clocks go as far as every deadline of the instance needs, so
codes, tokens, keys, windows, locks, entries and cooldowns all expire in some
behaviour. Capacities are one below what the behaviours put in (ring of 2 with 3
events, shard of 2 with 3 keys, list of 2 with 4 tokens), so eviction and overwriting
happen; a batch of 3 tokens is larger than the list. In `audit` a batch holds the whole
backlog. Limits and thresholds are 1 to 3. A second is 3 ticks where Redis rounds it, a
microsecond 2 where Postgres does. The requests of consent that only read are in
`consent`, not in `requests_return`. A request whose deadline is to pass comes
early enough for it (in `requests_return` at the first moment in memory, at the first
two in SQL). One partition is enough, as partitions share nothing; the proofs have any
number. Symmetry is used for ids that are only compared, in runs without liveness; the
two users of `auth_tokens`, which are interchangeable too, appear in a fixed order.
`CHECK_DEADLOCK FALSE` is used throughout:
clients need not call anything, ids run out and bounded clocks stop.

*Fairness* is stated in each module beside its `FairSpec`, and for the composed runs
in `MCFairness`. A store call returns with a result or an error, and a waiter is not
passed over for ever by a Go mutex or a row lock: weak or strong fairness of a request's
steps, strong where another request can disable the step again and again. Tickers
fire (cleanup, poll and flush loops), contexts expire, time passes, a server or
database that is down comes up again. The calls of a lookup are fair only
once its context is done: until then it may hang. No client has to call anything,
except where the property is about what calls bring about (a circuit closes by
requests that try it), and nothing has to fail.

## 4. Proofs

Eight modules hold machine-checked proofs, for every value of the constants
that satisfies the named assumptions of the component (identifier sets do not overlap
where they share a variable, durations and bounds are naturals, thresholds
positive). Each follows the same plan: an inductive invariant `Inv` (or `IInv`), one
lemma per action or class of actions, and theorems that combine them.

### Sessions and tokens: AuthLifecycleProofs

`TypeCorrect`, `GrantsAreSingleUse`, `RotationIsLinear`, `ActivationIsOrdered`,
`ListedStaysRefused`, `RevocationListsLatest` state that `TypeOK`, the invariants of
`auth_tokens` and `ActivationOrder` (code used, then session active, then refresh token)
hold of `Spec`, and `RevokedStaysRevoked` its action property, for any numbers of
sessions, issuances, users, requests and servers, and any lifetimes.

None of them is inductive alone. `IInv` adds `MintedFrom` (a minted token's grant is
spent and names it), `Referential` (refresh tokens and JTIs refer to minted tokens of
the same session), `Requests` (what a request holds at each program point: at
`advance` a spent grant from which nothing was minted, at `create` a token with no
refresh row yet, at `code` a session that is its own) and `ListOutlives` (an entry
expires no earlier than its token, because it counts from a later moment). Steps that
only take away (revoke, delete, reject, read) satisfy `Shrinks`, and one lemma
(`ShrinkStep`) covers them all; steps that issue satisfy `Monotone` for what they do not
touch, and each has a lemma for the row it writes.

### Audit pipeline: AuditOutboxProofs

`OutboxTypes`, `NothingUnpublished`, `NoDuplicates`, `OffsetsOnlyAdvance`,
`CommittedIsStored` (if the handler does not fail) and `ImplementsTrail` (the safety part
of `AuditTrail`), for any entries, workers, partitions, batch sizes and faults.

`IInv` adds `WorkerInv` (a batch is in the table, and the entry about to be marked is in the
topic), `LogInv` (the topic holds appended entries only), `ReaderInv` (a reader is between
the committed offset and the end, and what it is about to commit is stored) and
`PassedStored` (unless the handler fails, everything before the reader is stored). The
refinement maps `appended` to the entries of the table and `stored` to the events with
a row; only `AppendEvent`, `Handle` and `HandleFails` are not stutters. That a fetch
returns something when something is free needs a least element, from the library's
theorem on well-founded sets.

### Sessions in Redis: SessionRedisProofs

For any clients, sessions, users and times to live:

- `TypesHold`, with every operation and broken connections. `Inv` says that a key that was
  set is there or in the history of removed ones, that a client works on keys that were
  set, and that the time to live it is about to write is not negative.
- `RemovedStaysRemoved`, `DeletesAllListed` and `ImplementsStore`, if `UpdateSession` is
  not called: a removed session does not come back, a deletion leaves none of the
  sessions it listed, and the store implements the atomic `SessionStore`. `WatchInv`
  is what makes WATCH work: as long as a transaction's watch is not broken, its copy is
  the key's value. The hypothesis is needed: with `UpdateSession` a removed session
  does come back (section 5).
- `UnlistsGone`, under the same hypothesis: the SREM that `ListByUser` leaves behind, however
  late, takes no session out of its user's set that is there (`UnlistsOnlyGone`). `SremInv`
  says that what waits for the SREM was set once; gone keys stay gone by `Watched`.

### Ops publisher: OpsPublisherProofs

`CooldownKept`, `OpensOnStreak` and `OverrideKept`, for any events, actions, thresholds and
cooldowns. `BreakerInv` ties the breaker to the history: its count is the streak, it is
open exactly when the count reaches the threshold, and `openUntil` is a cooldown after
the failure that opened it last. A goroutine that read the state before others
changed it is harmless because `Allow` looks again under the write lock.

### Consent: ConsentProofs

For any purposes, requests, windows, cooldowns and timeouts, in SQL and in memory:

- `TypesHold`, `WritersExclude`, `EventsTruthful`, without further hypotheses;
- `FailureChangesNothing` (`AllOrNothing`) and `RegrantIsSpaced` in SQL. In memory both
  are wrong: the mutex undoes nothing (section 5), and a request that has the mutex does
  not look at its deadline again, so the revocation it makes may show arbitrarily late.
  The proof attempt brought the second to light; the run had passed in
  memory only because its clock was too short, and now states the property of SQL alone
  (`RegrantSpacedInSQL`);
- `GrantTimeAdvances`, if a request takes no longer than the cooldown. The code has 30
  seconds (`cmd/server/main.go`) and 5 minutes (`config.go`).

The invariant is stated per request and per purpose, so that a step of one request is
shown to keep the others by one frame lemma (`RequestStep`). `LockOf`: an uncommitted version
is under its writer's lock and follows from the committed row by the rules of the
record (`Successor`). `MutexOf`: the active request has the mutex and finds the rows it has
not reached as they were. `EventOf`: events, those to come included, are about
visible changes. `RowOf`: expiry is grant plus TTL, a revocation is at most a timeout older than
its grant, and becomes visible at most a timeout after its time. Every step is `Lawful`:
a row that changes becomes a successor of what it was; the two action properties
follow from `Lawful` and `RowOf` alone.

### Credentials and decisions: DecisionProofs

`CredentialsAreKept`, `PassesRestOnEvidence`, `AnswersAreAudited` and `EvaluationsAreSound`
state the four invariants of the run `decisions` for any calls, evaluations, users and
times, both stores, both modes, and any faults and outages.

`Inv` rests on one idea per half. A credential is determined by the call that issues
it (`Built`): the row of a call is `RowFor` that call, whichever store writes it, and a
call with a row is done, on its `Grounds`. So what Postgres reads back from its
columns is what was built, to the microsecond (`ReadBack`), and rows never change once
written, but for going with their user.
Of an evaluation, `Gathered` says what each lookup that has returned has left, unless the
group has an error, and `Decided` that the result is what the rules make of the evidence.
A credential that was issued before the request has a row, and a user who has a row has a
latest one (`HasLatest`, kept as a part of the invariant, since a new row is the latest or
leaves the latest as it was), so the lookup that succeeds finds it. The rules are restated once in terms of the evidence
(`AgeRule`, `ScreeningRule`); the properties follow from that.

The attempt to prove `AgeRule` showed that the rules had been written as a `CASE` with
overlapping guards, which has a value in TLA+ only by the order in which TLC tries them.
They are now chains of `IF`, as in the Go code, and so are the other operators in which
guards overlapped.

### Tenants and clients: TenantProofs

`RowsStayKept`, `EventsAreMatched` and `ResolveIsSound` state the three invariants of the run
`tenant` for any tenants, clients, names and requests, over Postgres and in memory.

`Inv` has a part about the tables and one about each request. `Tables`: names are unique,
grants fit, a row named after a request was created by it (`Fresh`), a committed change was
allowed where it went and is in the history of secrets (`Effects`), and the secret in force
is the last of that history (`LastSecret`). `Local`: what a program point says of event and
commit (`Shape`), that the row a transaction holds is the row of the table, under its lock
(`Held`), that a name about to be inserted is still free (`Reserved`), and what a resolution has
seen (`Resolving`, `Resolved`). Two lemmas carry the actions: `QuietStep` for those that leave
the tables alone and `ShowStep` for those that make one change visible; the lock is why a change
shown by one request is not a row held by another.

### Global throttle: GlobalThrottleProofs

`ThrottleTypes` and `ThrottleStaysBounded`: `TypeOK` and `ThrottleBounded` hold of `Spec` for any
finite set of requests, any positive limits, any length of an hour and any `MaxLag`, with
atomic counters and with rows. No counter exceeds its limit or falls below minus the number of
the other requests. Requests that are decided in the second they came in (`MaxLag = 0`) get at
most twice the limit of an hour, and in a second one more for every other request. Locked rows
count every admission up to the largest count that `updateBucket` writes, and admit at most a
limit that is not above it (`RowsWithinLimit`). The configured limits are above it (section 5).

`Inv` has a part for each claim. `CountInv` says that the counter of the second is at least the
number of requests it has counted and the hour has not decided (`Held`), less all requests but
one: a roll-back takes one from both sides, and the winner who stores zero is not among those
held. `MemoryInv`: a window is claimed once (`Claims`), so before the winner's store nothing that
was admitted in it is missing from the counter but what the counter lacked at the start, and
afterwards at most the limit besides (`Accounts`: admissions plus `Held` minus the counter, which
only the store of zero raises). `RowsInv`: a transaction past a `SELECT ... FOR UPDATE` holds the
lock and has the row as it is (`RowOf`). That a window starts no later than it is used, and never
goes back, rests on two lemmas about division (`DivFacts`, `CurrentFacts`).

The attempt to prove that a second admits at most twice its limit failed, for a good reason: when
the hour is full, `secondCount.Add(-1)` may come after the counter was reset, which leaves it below
zero, and goroutines of the next second that get in before that second's reset start from there.
TLC had not met it because the limits of the run were too large for its clock. `AtMostTwice` now
has the bound that is true, and the run has limits (1 a second, 2 an hour, 3 requests) at which a
second admits 3.

### Only model-checked

- Liveness under fairness: `RequestsReturn`, `ExpiredSwept`, `TrailKept` beyond the safety
  part of `AuditTrail`, `AllReturn`, `PublishingEnds`, `CircuitsClose`. The prover has no
  rule for it.
- What sums, averages or sequences built up by recursion amount to (in
  `AdmissionsBounded`, `CountsKept`, `WindowKept`, `EvidenceSound`, `NothingLost`, `QueueSpec`,
  `ListsForget`): proofs by induction over data, which the provers cannot do.
- The safety of the other parts: lockouts and the middleware of the rate limiter
  (`LimitsKept`), lookups through caches (`RecordsKept`, `StalenessBounded`), shutdown.
  Nothing stands in the way of proofs there; they are not written.

## 5. Statements the code does not keep

Modelling met statements of documents, comments and configuration that the code does not keep. Each is a
definition in its module, and TLC has a counterexample to it on a small instance of that
module; `audit_skipped` is kept as a run, for `CommittedIsStored` and the trail rest on what
it refutes. Paths are below `src/`.

| Statement | Says | The code |
|---|---|---|
| `CommittedStored` (AuditOutbox, run `audit_skipped`) | `kafka/consumer/consumer.go:178` "Don't commit - message will be redelivered" | `poll` goes on with the next record; committing it passes the failed one |
| `CodeUsedWithActivation` (AuthLifecycle) | `internal/auth/models/models.go:235` "must be set atomically with session activation" | two store calls under a mutex that cannot roll back |
| `LogoutListsLatest` (AuthLifecycle) | `internal/auth/service/token_revocation.go:142` "otherwise, the last access token is revoked" | the JTI is of a copy read before the revocation; a refresh may come between. `RevokeSession` is free of this (proved) |
| `ReplayRecognised` (AuthLifecycle) | `internal/auth/README.md:121` replay "revokes session" | the cleanup deletes used tokens; their replay is then merely unknown |
| `NoResurrection` with `UpdateSession` (SessionRedis) | `store/session/store_memory.go:19` "Return ErrNotFound when the requested entity does not exist" | EXISTS and SET are separate commands |
| `IndexComplete` (SessionRedis) | `store/session/store_redis.go:196` "Use pipeline for atomic operations" | a pipeline is neither isolated nor all-or-nothing, and the set of an earlier session may expire between SADD and EXPIRE: no list finds the session then. Beyond 100 sessions a list is a sample anyway |
| `KeyWithinExpiry` (SessionRedis) | `store/session/store_redis.go:190` "Calculate TTL from session expiry" | TTL rounds to the nearest second and the SET comes later than the TTL, so a key may outlive `ExpiresAt` |
| `BatchRevoked` (RevocationList) | `store/revocation/revocation.go:138` "revokes multiple tokens" | known tokens of a batch are prolonged, then evicted for its new ones. With a repeated token the slice names it twice, and eviction is not first in, first out (so `OnlyOldestForgotten` asks for batches without repeats) |
| `DeactivationImmediate` (ClientResolver) | `internal/tenant/models/tenant.go:20` "all OAuth flows for its clients MUST fail" | while the circuit is open the cache answers, up to the TTL |
| `FailClosed` (Consent) | `publishers/compliance/publisher.go:5` "the calling operation MUST fail" | `emitAudit` logs the error and the operation succeeds |
| `AllOrNothing` in memory (Consent) | `internal/consent/README.md` "prevents partial state" | the mutex undoes nothing |
| `BornUnderActiveTenant` (TenantClients) | `internal/tenant/README.md:59` "Client must belong to an active tenant" | the tenant is read without a lock before the insert |
| `ResolveAtomic` (TenantClients) | `client_service.go:496` "If the client or tenant is inactive, returns an invalid_client error." | two reads outside a transaction |
| `ClosedDrained` (SecurityPublisher) | `publishers/security/publisher.go:145` "Close drains the buffer" | the context is cancelled before the loop is through with its batch |
| `SecurityFlushed`, `OutboxDrained` (ServerShutdown) | `factory.go:94` "needs graceful drain", `main.go:1078` "drain outbox" | the publishers are not closed; the worker stops before the HTTP servers |
| `OneProbe` (OpsPublisher) | `circuitbreaker.go:51` "allow one request through" | the circuit is closed after the cooldown |
| `WithinLimit` on atomics (GlobalThrottle) | `globalthrottle/store_memory.go:59` "preventing TOCTOU races" | the bucket is claimed before its counter is zeroed, and roll-backs may reach the next one (section 4 has the bound) |
| `WithinLimit` on rows with a limit above `CountCap` (GlobalThrottle) | `cmd/server/main.go:250`, `:275`, `ratelimit/config/config.go:91-95`: limits of 10000 and 100000 | `store_postgres.go:154` writes a count of 1000 at most: with the configured limits a row never refuses |
| `CountExact` of ring and table (RateBuckets) | `bucket/store_memory.go:33`, `store_postgres.go:147` "within the window" | stamps out of order; a stored window of at least 10000 s |
| `RetryAfterSuffices` (RateBuckets) | `ratelimit/models/models.go:113` "seconds to wait before retrying" | rounded down |
| `UsageOfThisMonth` (APIKeyQuota) | `service/quota/service.go:4` "reset on the first day of each calendar month" | only the admin operation resets |
| `BlockedOnlyInWindow`, `DailyFailuresLock` (AuthLockout) | `ratelimit/models/models.go:196`, `:197` | `Check` ignores the time of the failures; the hard lock counts those of the window |
| `FailClosedKept`, `OpenMeansDegraded` (RequestLimit) | `middleware/ratelimit.go:92`, `circuitbreaker.go:8` | `failClosed` is never read; without a fallback an open circuit is not reported |
| `RefusedAtLimit` beyond plain IP limits (RequestLimit) | `ratelimit/README.md:186` "10 req/min" | middleware and handler charge one bucket; users share the bucket of the zero id |
| `ResetAtomic`, `ExpiredRemoved` (RequestLimit) | PRD-017:1163 "atomic", `allowlist/store_postgres.go:89` "until ctx is cancelled" | keys are reset one by one; the clean-up ends at its first error |
| `RetriesWithinBudget`, `OtherTypesKept`, `EmptyFails`, `TimeoutReported` (RegistryOrchestrator) | `orchestrator.go:84`, `rules.go:39`, `errors.go:109`, `service.go:658` | budget raised to 1000; correlation replaces all evidence; no error without providers; a timeout becomes an internal error |
| `AnswersSubject`, `AnswerFresh` (RegistryService) | the lookup is for one person, the cache has a time to live | whom a response is about and when it was checked come from the response unverified (`citizen.go:68`, `sanctions.go:54`, `converter.go:30`) |
| `RegulatedStripped` in Postgres, `CommitAtomic`, `EveryCheckAudited`, `ConsentCovers` (RegistryService) | `registry/service/service.go:371`, `:117`, `:589`, `:201` | the row returns the national id; one record may be cached alone; `Check` is not audited; consent may be withdrawn after its check |
| `AgeFailsOpen` (DecisionService) | `decision/service.go:145` "fail-open for non-sanctions" | every decision whose audit record fails is blocked |

## 6. Not modelled

HTTP parsing and formatting, metrics, logging, configuration, demo seeding and the
admin read models have no state of their own. Device binding is only logged.
Cryptography (JWT signatures, secret hashing) is taken as perfect. Generated `sqlc` code is
modelled by what its statements do. Left out because nothing in the server calls them:
`DeleteProcessedBefore`, `CountPending` and `ProduceAsync` of the outbox, `TryEnqueue`
and `DropOldest` of the ring, `Update` of the tenant stores. The memory
stores of codes, refresh tokens and users do under one lock what `AuthLifecycle` does
to the tables.
