------------------------------ MODULE MCLookups ------------------------------
(***************************************************************************)
(* What requests look up: sessions in Redis, revoked tokens, registry      *)
(* records behind their cache, evidence of the registries behind the       *)
(* orchestrator, and clients behind their breaker.  They share no state,   *)
(* so one of them, in one scenario, runs in each behaviour.                *)
(***************************************************************************)
EXTENDS SessionRedis, TLC

CONSTANTS s1, s2, ann, c1, c2, j1, j2, j3, j4, n1, n2, n3, r1, r2, p1, p2, p3, p4, ghost

VARIABLES
  part,                                                             \* what runs
  clock2, keys2, expires2, expiresAt2, index2, indexExpires2, client2, removed2,    \* SessionRedis
  listClock, revoked, order, recent, promised, batch,               \* RevocationList
  registryClock, citizens, sanctions, citizenLRU, sanctionLRU, regulated, consent,
  revocations, restarts, call, last,                                \* RegistryService
  pc, asked, chain, attempt, delay, budget, pending, evidence, errors, ctx,
  result, log,                                                      \* RegistryOrchestrator
  active, since, up, outages, changes, state, failureCount, successCount,
  entries, resolve, resolved                                        \* ClientResolver

updateVars == <<clock2, keys2, expires2, expiresAt2, index2, indexExpires2, client2, removed2>>
trlVars == <<listClock, revoked, order, recent, promised, batch>>
registryVars == <<registryClock, citizens, sanctions, citizenLRU, sanctionLRU, regulated, consent,
                  revocations, restarts, call, last>>
orchVars == <<pc, asked, chain, attempt, delay, budget, pending, evidence, errors, ctx, result, log>>
resolverVars == <<active, since, up, outages, changes, state, failureCount, successCount,
                  entries, resolve, resolved>>
-----------------------------------------------------------------------------
(* The scenarios.                                                          *)

\* Sessions that are created, advanced and listed over a connection that holds.
Listing == INSTANCE SessionRedis WITH Ops <- {"create", "execute", "list"}, Faults <- {}
\* A session that Execute and UpdateSession overwrite, in thirds of a second.
Updating == INSTANCE SessionRedis WITH
  Session <- {s1}, Ops <- {"create", "update", "execute"}, Faults <- {},
  Second <- 3, SessionTTL <- 3, DefaultTTL <- 5, Latency <- 1, MaxTime <- 4,
  now <- clock2, keys <- keys2, expires <- expires2, expiresAt <- expiresAt2, index <- index2,
  indexExpires <- indexExpires2, client <- client2, srem <- [u \in User |-> {}], removed <- removed2

\* Batches without and with a token that comes twice; three tokens are more than
\* the list in memory holds.
Batch3 == {<<j1, j2>>, <<j2, j1>>, <<j3, j1>>, <<j3, j4>>, <<j2, j3, j1>>}
Repeats == {<<j1, j1>>, <<j1, j2, j1>>, <<j3, j2>>}
ListInMemory == INSTANCE RevocationList WITH
  Jti <- {j1, j2, j3, j4}, Backend <- "memory", maxSize <- 2, Ttls <- {0, 1, 2}, Batches <- Batch3,
  MaxTime <- 2, now <- listClock
RepeatsInMemory == INSTANCE RevocationList WITH
  Jti <- {j1, j2, j3}, Backend <- "memory", maxSize <- 2, Ttls <- {0, 2}, Batches <- Repeats,
  MaxTime <- 3, now <- listClock
ListInRedis == INSTANCE RevocationList WITH
  Jti <- {j1, j2, j3}, Backend <- "redis", maxSize <- 0, Ttls <- {0, 2}, Batches <- Repeats,
  MaxTime <- 4, now <- listClock
ListInPostgres == INSTANCE RevocationList WITH
  Jti <- {j1, j2, j3}, Backend <- "postgres", maxSize <- 0, Ttls <- {0, 2}, Batches <- Repeats,
  MaxTime <- 4, now <- listClock

\* Two persons and a cache for one, in the memory of the process.
Cached == INSTANCE RegistryService WITH
  NationalID <- {n1, n2}, Backend <- "memory", CacheTTL <- 1, MaxSize <- 1, MaxTime <- 1,
  Req <- {r1, r2}, Ops <- {"check"}, Faults <- {}, Modes <- {TRUE}, Ages <- {},
  Revocations <- 0, Restarts <- 0, now <- registryClock, req <- call
\* Every step may fail, and the consent may be withdrawn.
Failing == INSTANCE RegistryService WITH
  NationalID <- {n3}, Backend <- "postgres", CacheTTL <- 1, MaxSize <- 0, MaxTime <- 0, Ages <- {},
  Req <- {r1, r2}, Ops <- {"check", "citizen", "details", "sanctions"},
  Faults <- {"find", "save", "audit", "convert", "lookup"}, Modes <- {TRUE},
  Revocations <- 1, Restarts <- 0, now <- registryClock, req <- call
\* The shared caches, over restarts in the other mode.
InRedis == INSTANCE RegistryService WITH
  NationalID <- {n3}, Backend <- "redis", CacheTTL <- 1, MaxSize <- 0, MaxTime <- 2, Ages <- {},
  Req <- {r1, r2}, Ops <- {"citizen", "details"}, Faults <- {"save"}, Modes <- {TRUE, FALSE},
  Revocations <- 0, Restarts <- 2, now <- registryClock, req <- call
InPostgres == INSTANCE RegistryService WITH
  NationalID <- {n3}, Backend <- "postgres", CacheTTL <- 1, MaxSize <- 0, MaxTime <- 2, Ages <- {2},
  Req <- {r1, r2}, Ops <- {"citizen"}, Faults <- {}, Modes <- {TRUE, FALSE},
  Revocations <- 0, Restarts <- 1, now <- registryClock, req <- call

\* A citizen chain with a fallback and an id nobody registered, and one
\* sanctions provider.
TypesOf(ps) == [p \in ps |-> IF p = p4 THEN "sanctions" ELSE "citizen"]
Both == <<"citizen", "sanctions">>
Ask(strategies) == {[types |-> t, strategy |-> s] : t \in {Both, <<"sanctions">>}, s \in strategies}
AskBoth(strategies) == {[types |-> Both, strategy |-> s] : s \in strategies}
CitizenChain == [t \in {"citizen"} |-> [primary |-> p1, secondary |-> <<ghost, p2>>]]
NoWeight == [t \in {"citizen", "sanctions"} |-> 0]
Provider == {p1, p2, p3, p4, ghost}
AllResponses == {"200", "401", "404", "429", "503", "500", "no_connection", "read_error", "too_large"}

Chained == INSTANCE RegistryOrchestrator WITH
  ProviderId <- Provider, Registered <- {p1, p2, p4}, CapType <- TypesOf({p1, p2, p4}),
  Chains <- CitizenChain, Rules <- <<>>, Weights <- NoWeight, Requests <- Ask({"primary", "fallback"}),
  Responses <- AllResponses, Names <- {"n"}, Confidences <- {1},
  MaxRetries <- 2, GlobalRetryBudget <- 10, InitialDelay <- 1, MaxDelay <- 3, Multiplier <- 2, req <- asked
\* Nobody delivers sanctions.
Unserved == INSTANCE RegistryOrchestrator WITH
  ProviderId <- Provider, Registered <- {p1, p2}, CapType <- TypesOf({p1, p2}),
  Chains <- <<>>, Rules <- <<>>, Weights <- NoWeight, Requests <- Ask({"primary", "fallback"}),
  Responses <- AllResponses, Names <- {"n"}, Confidences <- {1},
  MaxRetries <- 2, GlobalRetryBudget <- 10, InitialDelay <- 1, MaxDelay <- 3, Multiplier <- 2, req <- asked
\* All providers at once: the best of them, their average, and their conflicts.
Voting == INSTANCE RegistryOrchestrator WITH
  ProviderId <- Provider, Registered <- {p1, p2, p3, p4}, CapType <- TypesOf({p1, p2, p3, p4}),
  Chains <- <<>>, Rules <- <<>>, Weights <- NoWeight, Requests <- AskBoth({"parallel", "voting"}),
  Responses <- {"200", "503"}, Names <- {"n"}, Confidences <- {1, 2, 3},
  MaxRetries <- 1, GlobalRetryBudget <- 10, InitialDelay <- 1, MaxDelay <- 3, Multiplier <- 2, req <- asked
Average == INSTANCE RegistryOrchestrator WITH
  ProviderId <- Provider, Registered <- {p1, p2, p3, p4}, CapType <- TypesOf({p1, p2, p3, p4}),
  Chains <- <<>>, Rules <- <<"weighted_average">>, Weights <- [NoWeight EXCEPT !["citizen"] = 2],
  Requests <- AskBoth({"parallel"}), Responses <- {"200", "503"}, Names <- {"n"}, Confidences <- {1, 2, 3},
  MaxRetries <- 1, GlobalRetryBudget <- 10, InitialDelay <- 1, MaxDelay <- 3, Multiplier <- 2, req <- asked
Conflicting == INSTANCE RegistryOrchestrator WITH
  ProviderId <- Provider, Registered <- {p1, p2, p3, p4}, CapType <- TypesOf({p1, p2, p3, p4}),
  Chains <- <<>>, Rules <- <<"citizen_name">>, Weights <- NoWeight, Requests <- AskBoth({"parallel"}),
  Responses <- {"200", "503"}, Names <- {"n", "m"}, Confidences <- {1, 2},
  MaxRetries <- 1, GlobalRetryBudget <- 10, InitialDelay <- 1, MaxDelay <- 3, Multiplier <- 2, req <- asked

Resolver == INSTANCE ClientResolver WITH
  Client <- {c1, c2}, Req <- {r1, r2}, Unknown <- {c2}, FailureThreshold <- 2, SuccessThreshold <- 2,
  TTL <- 1, MaxCleanup <- 1, Outages <- 1, Changes <- 1, MaxLag <- 1, req <- resolve, last <- resolved
-----------------------------------------------------------------------------

Sessions == {"deleting", "listing"}
Lists == {"memory list", "repeating list", "redis list", "postgres list"}
Records == {"cached", "failing", "redis records", "postgres records"}
\* The two requests of the registry, or of the resolver, have the same role, and so
\* have the two persons.
Symmetry == Permutations({r1, r2}) \cup Permutations({n1, n2})

Evidence == {"chained", "unserved", "voting", "average", "conflicting"}

MCInit ==
  /\ part \in Sessions \cup {"updating"} \cup Lists \cup Records \cup Evidence \cup {"resolver"}
  /\ Init /\ Updating!Init /\ Resolver!Init
  /\ IF part = "memory list" THEN ListInMemory!Init ELSE ListInRedis!Init
  /\ CASE part = "failing" -> Failing!Init
       [] part = "redis records" -> InRedis!Init
       [] part = "postgres records" -> InPostgres!Init
       [] OTHER -> Cached!Init
  /\ CASE part = "chained" -> Chained!Init
       [] part = "unserved" -> Unserved!Init
       [] part = "voting" -> Voting!Init
       [] OTHER -> Average!Init

\* One client creates and deletes, or lists, the other creates, advances and revokes.
Deleting ==
  /\ now' <= 2 /\ client'[c1].pc \in {"idle", "sadd", "expire", "delKeys", "delIndex"}
  /\ client'[c2].pc \notin {"delKeys", "delIndex", "listGet"}
Browsing ==
  /\ client'[c1].pc \in {"idle", "sadd", "expire", "listGet"}
  /\ client'[c2].pc # "listGet"
\* One advances and revokes, the other updates.
Overwriting ==
  /\ client2'[c1].pc \notin {"upExists", "upTTL", "upSet"}
  /\ client2'[c2].pc \notin {"exTTL", "exExec"}

MCNext ==
  /\ UNCHANGED part
  /\ \/ /\ \/ part = "listing" /\ Listing!Next /\ Browsing
           \/ part = "deleting" /\ Next /\ Deleting
        /\ UNCHANGED <<updateVars, trlVars, registryVars, orchVars, resolverVars>>
     \/ /\ part = "updating" /\ Updating!Next /\ Overwriting
        /\ UNCHANGED <<vars, trlVars, registryVars, orchVars, resolverVars>>
     \/ /\ \/ part = "memory list" /\ ListInMemory!Next
           \/ part = "repeating list" /\ RepeatsInMemory!Next
           \/ part = "redis list" /\ ListInRedis!Next
           \/ part = "postgres list" /\ ListInPostgres!Next
        /\ UNCHANGED <<vars, updateVars, registryVars, orchVars, resolverVars>>
     \/ /\ \/ part = "cached" /\ Cached!Next
           \/ part = "failing" /\ Failing!Next
           \/ part = "redis records" /\ InRedis!Next
           \/ part = "postgres records" /\ InPostgres!Next
        /\ UNCHANGED <<vars, updateVars, trlVars, orchVars, resolverVars>>
     \/ /\ \/ part = "chained" /\ Chained!Next
           \/ part = "unserved" /\ Unserved!Next
           \/ part = "voting" /\ Voting!Next
           \/ part = "average" /\ Average!Next
           \/ part = "conflicting" /\ Conflicting!Next
        /\ UNCHANGED <<vars, updateVars, trlVars, registryVars, resolverVars>>
     \/ /\ part = "resolver" /\ Resolver!Next
        /\ UNCHANGED <<vars, updateVars, trlVars, registryVars, orchVars>>

MCSpec == MCInit /\ [][MCNext]_<<part, vars, updateVars, trlVars, registryVars, orchVars, resolverVars>>
-----------------------------------------------------------------------------
(* The properties of the parts.                                            *)

\* The variables of the part that runs have their types.
AllTypes ==
  /\ part \in Sessions => TypeOK
  /\ part = "updating" => Updating!TypeOK
  /\ part = "memory list" => ListInMemory!TypeOK
  /\ part = "cached" => Cached!TypeOK
  /\ part = "failing" => Failing!TypeOK
  /\ part = "redis records" => InRedis!TypeOK
  /\ part = "postgres records" => InPostgres!TypeOK
  /\ part = "chained" => Chained!TypeOK
  /\ part = "unserved" => Unserved!TypeOK
  /\ part \in {"voting", "average", "conflicting"} => Voting!TypeOK
  /\ part = "resolver" => Resolver!TypeOK

\* What the lists of revoked tokens forget: the shared lists none before it expires,
\* the list in memory only those that were added first, its map and its slice in step
\* as far as a batch that repeats a token allows.
ListsForget ==
  /\ part = "memory list" => ListInMemory!OrderAgrees /\ ListInMemory!OnlyOldestForgotten
  /\ part = "repeating list" => RepeatsInMemory!OrderAgrees
  /\ part = "redis list" => ListInRedis!RevokedUntilExpiry
  /\ part = "postgres list" => ListInPostgres!RevokedUntilExpiry

\* What the registry service answers, caches and audits: what a registry answered
\* about the person asked for, sanctions only with their event, nothing of a Check
\* that failed, in regulated mode no details (and, but for Postgres, no national id),
\* from Postgres nothing stamped before the time to live; the LRU lists name the
\* entries of the maps.
RecordsKept ==
  /\ AllTypes
  /\ part \in Records => /\ Failing!SanctionsAudited /\ Failing!FailedCheckSavesNothing
                         /\ Cached!AnswersAsked
  /\ part = "cached" => Cached!LruConsistent
  /\ part \in {"cached", "redis records"} => InRedis!RegulatedStripped
  /\ part \in {"failing", "postgres records"} => InPostgres!DetailsStripped /\ InPostgres!CachedAnswerFresh
  /\ part = "redis records" => InRedis!CacheMinimised
  /\ part = "postgres records" => InPostgres!CacheMinimised

\* What the orchestrator gathers: every call left evidence or an error, a chain
\* answers with the first provider that could deliver, only what may pass is tried
\* again, voting returns the best record, an average lies between its sources, and
\* a merged record whose sources disagree is marked.
EvidenceSound ==
  /\ [](/\ part = "chained" => /\ Chained!CallsAccounted
                                /\ Chained!FallbackInOrder /\ Chained!RetriesJustified
        /\ part = "voting" => Voting!CallsAccounted)
  /\ Voting!VotingBest
  /\ [][part = "average" => Average!AveragesBetween]_<<part, orchVars>>
  /\ [][part = "conflicting" => Conflicting!MarksConflicts]_<<part, orchVars>>

\* The orchestrator keeps the contract that the registry service relies on.
ContractKept == Chained!ContractKept

\* A client that was deactivated is resolved no longer than the cache and the calls
\* under way allow.
StalenessBounded == Resolver!StalenessBounded
=============================================================================
