---------------------------- MODULE RegistryCache ----------------------------
(***************************************************************************)
(* The registry's evidence cache in its three forms: the in-memory LRU     *)
(* cache, the Postgres tables and the Redis keys.  A citizen record keeps  *)
(* whom it is about, whether it carries the national id and the personal   *)
(* details, and when the registry was asked; a sanctions record its        *)
(* verdict.  The saved entry adds when it was stored and in which mode.    *)
(***************************************************************************)
EXTENDS Integers, FiniteSets, Sequences, SequencesExt

CONSTANTS
  NationalID,
  Backend,         \* "memory", "postgres" or "redis"
  CacheTTL,
  MaxSize,         \* of the in-memory cache, for each record type
  MaxTime          \* bound: the clock

VARIABLES
  citizens, sanctions,        \* key -> entry or NoEntry
  citizenLRU, sanctionLRU,    \* of the in-memory cache, most recent first
  now

cache == <<citizens, sanctions, citizenLRU, sanctionLRU>>
-----------------------------------------------------------------------------

NoEntry == [entry |-> FALSE]
NotFound == [found |-> FALSE]
Blank == "blank"

\* The in-memory cache has one slot per national id and remembers the mode in
\* it; Postgres' key (national_id, regulated) and Redis' key name hold the mode.
citizenKey(nid, regulated) == <<nid, IF Backend = "memory" THEN "any" ELSE regulated>>
CitizenKeys == NationalID \X (IF Backend = "memory" THEN {"any"} ELSE BOOLEAN)

Entry(record, regulated) == [entry |-> TRUE, record |-> record, storedAt |-> now, regulated |-> regulated]

CacheInit ==
  /\ citizens = [k \in CitizenKeys |-> NoEntry]
  /\ sanctions = [n \in NationalID |-> NoEntry]
  /\ citizenLRU = <<>> /\ sanctionLRU = <<>>
-----------------------------------------------------------------------------
(* store_memory.go                                                         *)

MoveToFront(lru, k) == <<k>> \o SelectSeq(lru, LAMBDA x : x # k)
Without(lru, k) == SelectSeq(lru, LAMBDA x : x # k)

evictOldestCitizenLocked(entries) ==
  IF citizenLRU = <<>> THEN entries ELSE [entries EXCEPT ![Last(citizenLRU)] = NoEntry]

evictOldestSanctionLocked(entries) ==
  IF sanctionLRU = <<>> THEN entries ELSE [entries EXCEPT ![Last(sanctionLRU)] = NoEntry]

\* A key already there is updated in place; a new one may evict the oldest.
MemorySaveCitizen(nid, record, regulated) ==
  LET k == citizenKey(nid, regulated)
      full == citizens[k] = NoEntry /\ Len(citizenLRU) >= MaxSize
      kept == IF full THEN evictOldestCitizenLocked(citizens) ELSE citizens
  IN /\ citizens' = [kept EXCEPT ![k] = Entry(record, regulated)]
     /\ citizenLRU' = MoveToFront(IF full THEN Front(citizenLRU) ELSE citizenLRU, k)

MemorySaveSanction(nid, record) ==
  LET full == sanctions[nid] = NoEntry /\ Len(sanctionLRU) >= MaxSize
      kept == IF full THEN evictOldestSanctionLocked(sanctions) ELSE sanctions
  IN /\ sanctions' = [kept EXCEPT ![nid] = Entry(record, FALSE)]
     /\ sanctionLRU' = MoveToFront(IF full THEN Front(sanctionLRU) ELSE sanctionLRU, nid)

Expired(e) == now - e.storedAt >= CacheTTL

\* What FindCitizen returns: not an expired entry, and not one stored in the
\* other mode.
MemoryCitizen(nid, regulated) ==
  LET e == citizens[citizenKey(nid, regulated)]
  IN IF e = NoEntry \/ Expired(e) \/ e.regulated # regulated THEN NotFound
     ELSE [found |-> TRUE, record |-> e.record]

\* What FindCitizen does to the cache: an expired entry is removed, a hit
\* moves to the front, the other mode's entry stays where it is.
MemoryFindCitizen(nid, regulated) ==
  LET k == citizenKey(nid, regulated)
      e == citizens[k]
      gone == e # NoEntry /\ Expired(e)
  IN /\ citizens' = IF gone THEN [citizens EXCEPT ![k] = NoEntry] ELSE citizens
     /\ citizenLRU' = IF gone THEN Without(citizenLRU, k)
                      ELSE IF MemoryCitizen(nid, regulated).found THEN MoveToFront(citizenLRU, k)
                      ELSE citizenLRU

MemorySanction(nid) ==
  LET e == sanctions[nid]
  IN IF e = NoEntry \/ Expired(e) THEN NotFound ELSE [found |-> TRUE, record |-> e.record]

MemoryFindSanction(nid) ==
  LET gone == sanctions[nid] # NoEntry /\ Expired(sanctions[nid])
  IN /\ sanctions' = IF gone THEN [sanctions EXCEPT ![nid] = NoEntry] ELSE sanctions
     /\ sanctionLRU' = IF gone THEN Without(sanctionLRU, nid)
                       ELSE IF MemorySanction(nid).found THEN MoveToFront(sanctionLRU, nid)
                       ELSE sanctionLRU

ClearAll == CacheInit'
-----------------------------------------------------------------------------
(* store_postgres.go and its queries                                       *)

\* Rows whose checked_at is not before the cutoff.
GetSanctionsCache(nid, cutoff) ==
  IF sanctions[nid] # NoEntry /\ sanctions[nid].record.checkedAt >= cutoff
  THEN [found |-> TRUE, record |-> sanctions[nid].record] ELSE NotFound

GetCitizenCache(nid, regulated, cutoff) ==
  LET e == citizens[<<nid, regulated>>]
  IN IF e # NoEntry /\ e.record.checkedAt >= cutoff THEN [found |-> TRUE, record |-> e.record] ELSE NotFound

\* The row's national_id is the key, whatever the record carries.
UpsertCitizenCache(nid, record, regulated) ==
  citizens' = [citizens EXCEPT ![<<nid, regulated>>] = Entry([record EXCEPT !.id = nid], regulated)]

UpsertSanctionsCache(nid, record) ==
  sanctions' = [sanctions EXCEPT ![nid] = Entry([record EXCEPT !.id = nid], FALSE)]

\* FindCitizen and FindSanction of the Postgres cache: the cutoff is taken
\* from the time stamp of the request.
PostgresCitizen(nid, regulated, at) == GetCitizenCache(nid, regulated, at - CacheTTL)
PostgresSanction(nid, at) == GetSanctionsCache(nid, at - CacheTTL)
-----------------------------------------------------------------------------
(* store_redis.go: Redis forgets a key when its time to live is over       *)

RedisGet(e) ==
  IF e = NoEntry \/ Expired(e) THEN NotFound ELSE [found |-> TRUE, record |-> e.record]

RedisCitizen(nid, regulated) == RedisGet(citizens[citizenKey(nid, regulated)])
RedisSanction(nid) == RedisGet(sanctions[nid])
RedisSaveCitizen(nid, record, regulated) ==
  citizens' = [citizens EXCEPT ![citizenKey(nid, regulated)] = Entry(record, regulated)]
RedisSaveSanction(nid, record) == sanctions' = [sanctions EXCEPT ![nid] = Entry(record, FALSE)]
-----------------------------------------------------------------------------
(* the CacheStore interface                                                *)

FoundCitizen(nid, regulated, at) ==
  CASE Backend = "memory" -> MemoryCitizen(nid, regulated)
    [] Backend = "postgres" -> PostgresCitizen(nid, regulated, at)
    [] Backend = "redis" -> RedisCitizen(nid, regulated)

FoundSanction(nid, at) ==
  CASE Backend = "memory" -> MemorySanction(nid)
    [] Backend = "postgres" -> PostgresSanction(nid, at)
    [] Backend = "redis" -> RedisSanction(nid)

FindCitizen(nid, regulated) ==
  /\ IF Backend = "memory" THEN MemoryFindCitizen(nid, regulated) ELSE UNCHANGED <<citizens, citizenLRU>>
  /\ UNCHANGED <<sanctions, sanctionLRU>>

FindSanction(nid) ==
  /\ IF Backend = "memory" THEN MemoryFindSanction(nid) ELSE UNCHANGED <<sanctions, sanctionLRU>>
  /\ UNCHANGED <<citizens, citizenLRU>>

SaveCitizen(nid, record, regulated) ==
  /\ CASE Backend = "memory" -> MemorySaveCitizen(nid, record, regulated)
       [] Backend = "postgres" -> UpsertCitizenCache(nid, record, regulated) /\ UNCHANGED citizenLRU
       [] Backend = "redis" -> RedisSaveCitizen(nid, record, regulated) /\ UNCHANGED citizenLRU
  /\ UNCHANGED <<sanctions, sanctionLRU>>

SaveSanction(nid, record) ==
  /\ CASE Backend = "memory" -> MemorySaveSanction(nid, record)
       [] Backend = "postgres" -> UpsertSanctionsCache(nid, record) /\ UNCHANGED sanctionLRU
       [] Backend = "redis" -> RedisSaveSanction(nid, record) /\ UNCHANGED sanctionLRU
  /\ UNCHANGED <<citizens, citizenLRU>>
-----------------------------------------------------------------------------
(* properties of the cache                                                 *)

Agree(entries, lru) ==
  /\ IsInjective(lru)
  /\ Range(lru) = {k \in DOMAIN entries : entries[k] # NoEntry}
  /\ Len(lru) <= MaxSize

\* The maps and the lists of the in-memory cache hold the same keys, each key
\* once, and never more than maxSize: no entry is lost to eviction and none
\* escapes it, whatever the order of saves, hits and lazy expiry.
LruConsistent ==
  Backend = "memory" => Agree(citizens, citizenLRU) /\ Agree(sanctions, sanctionLRU)

\* What the cache holds for the regulated mode carries no personal details,
\* in any backend, over mode switches and restarts ("If regulated mode is
\* enabled, citizen PII is stripped before caching").
CacheMinimised ==
  \A k \in CitizenKeys :
    citizens[k] # NoEntry /\ citizens[k].regulated => ~citizens[k].record.details
=============================================================================
