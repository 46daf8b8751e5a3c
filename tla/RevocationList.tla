---------------------------- MODULE RevocationList ----------------------------
(***************************************************************************)
(* The three token revocation lists behind the auth service: in memory with*)
(* a bound and first-in-first-out eviction, in Redis with a TTL per key,   *)
(* and in Postgres with an expiry column.                                  *)
(*                                                                         *)
(* An entry is the time at which it expires, 0 when there is none.  Time   *)
(* starts at 1, so that no entry expires at 0.                             *)
(***************************************************************************)
EXTENDS Integers, Sequences, FiniteSets, SequencesExt, FiniteSetsExt

CONSTANTS
  Jti,
  Backend,        \* "memory", "redis" or "postgres"
  maxSize,        \* of the list in memory, 0 for unlimited
  Ttls,           \* time to live of a revocation
  Batches,        \* arguments of RevokeSessionTokens, which may repeat a token
  MaxTime         \* bound

VARIABLES
  now,
  revoked,        \* the entries
  order,          \* in memory: the entries in the order they were added
  recent,         \* history: the last maxSize tokens that were added
  promised,       \* history: the expiry of the last revocation that succeeded
  batch           \* history: the tokens of the call that has just returned

vars == <<now, revoked, order, recent, promised, batch>>
-----------------------------------------------------------------------------

Present == {j \in Jti : revoked[j] # 0}
Longest == Max(Ttls)

\* No entry outlives the longest time to live from now on.
TypeOK ==
  /\ now \in 1 .. MaxTime
  /\ revoked \in [Jti -> 0 .. now + Longest]
  /\ order \in Seq(Jti) /\ recent \in Seq(Jti)
  /\ promised \in [Jti -> 0 .. now + Longest]
  /\ batch \subseteq Jti

NewList ==
  /\ revoked = [j \in Jti |-> 0]
  /\ order = <<>>

Init ==
  /\ now = 1
  /\ NewList
  /\ recent = <<>> /\ promised = [j \in Jti |-> 0] /\ batch = {}

validateTTL(ttl) == ttl > 0

\* In memory the entry counts up to its expiry, and so in Postgres.
ExpiryIsRevoked(j) == revoked[j] # 0 /\ ~(now > revoked[j])
\* Redis drops the key when its TTL has run out.
RedisIsRevoked(j) == revoked[j] # 0 /\ now < revoked[j]

IsRevoked(j) == IF Backend = "redis" THEN RedisIsRevoked(j) ELSE ExpiryIsRevoked(j)

\* History: js were added, and the call revoked all of them.
Added(js) ==
  LET all == SelectSeq(recent, LAMBDA j : j \notin Range(js)) \o js
  IN recent' = IF maxSize > 0 /\ Len(all) > maxSize
               THEN SubSeq(all, Len(all) - maxSize + 1, Len(all)) ELSE all
Promise(js, expiry) ==
  /\ promised' = [j \in Jti |-> IF j \in js THEN expiry ELSE promised[j]]
  /\ batch' = js
-----------------------------------------------------------------------------
(* InMemoryTRL                                                             *)

\* How many entries go from the order until n new ones fit into the map.
Evictions(n) ==
  IF maxSize = 0 THEN 0
  ELSE Min({k \in 0 .. Len(order) :
              k = Len(order) \/ Cardinality(Present \ Range(SubSeq(order, 1, k))) + n <= maxSize})

\* Mutant: the newest entries go.
evictIfNeeded_Newest(n) ==
  LET k == Evictions(n)
  IN [gone |-> Range(SubSeq(order, Len(order) - k + 1, Len(order))), left |-> SubSeq(order, 1, Len(order) - k)]

\* Who has to go so that n new entries fit, and the order that is left.
evictIfNeeded(n) ==
  LET k == Evictions(n)
  IN [gone |-> Range(SubSeq(order, 1, k)), left |-> SubSeq(order, k + 1, Len(order))]

\* New tokens join the list after an eviction, as often as the batch names them;
\* known ones get a new expiry first, and keep their place.
MemoryRevoke(js, expiry) ==
  LET new == SelectSeq(js, LAMBDA j : revoked[j] = 0)
      evicted == evictIfNeeded(Len(new))
  IN /\ revoked' = [j \in Jti |->
          IF j \in Range(new) THEN expiry
          ELSE IF j \in evicted.gone THEN 0
          ELSE IF j \in Range(js) THEN expiry
          ELSE revoked[j]]
     /\ order' = evicted.left \o new
     /\ Added(new)

\* The ticker of cleanup: expired entries leave, and compactOrder follows.
cleanup ==
  /\ Backend = "memory" /\ \E j \in Present : now > revoked[j]
  /\ revoked' = [j \in Jti |-> IF now > revoked[j] THEN 0 ELSE revoked[j]]
  /\ order' = SelectSeq(order, LAMBDA j : revoked'[j] # 0)
  /\ batch' = {}
  /\ UNCHANGED <<now, recent, promised>>
-----------------------------------------------------------------------------
(* RedisTRL and PostgresTRL                                                *)

\* SET with a TTL, pipelined for a batch.
RedisSet(js, expiry) ==
  revoked' = [j \in Jti |-> IF j \in js THEN expiry ELSE revoked[j]]

\* One INSERT ... ON CONFLICT DO UPDATE, which refuses a token that comes twice.
UpsertTokenRevocations(js, expiry) ==
  /\ IsInjective(js)
  /\ revoked' = [j \in Jti |-> IF j \in Range(js) THEN expiry ELSE revoked[j]]

\* The key is gone when its TTL has run out.
RedisExpiry ==
  /\ Backend = "redis" /\ \E j \in Present : now >= revoked[j]
  /\ revoked' = [j \in Jti |-> IF now >= revoked[j] THEN 0 ELSE revoked[j]]
  /\ batch' = {}
  /\ UNCHANGED <<now, order, recent, promised>>

\* The caller gets an error when the connection breaks: some of the keys of the
\* pipeline are set, the one INSERT is done or not.
RevokeFails(js, ttl) ==
  /\ validateTTL(ttl)
  /\ \/ Backend = "redis" /\ \E some \in SUBSET Range(js) : RedisSet(some, now + ttl)
     \/ Backend = "postgres" /\ (UpsertTokenRevocations(js, now + ttl) \/ UNCHANGED revoked)
  /\ batch' = {}
  /\ UNCHANGED <<now, order, recent, promised>>
-----------------------------------------------------------------------------

Revoke(js, ttl) ==
  /\ validateTTL(ttl)
  /\ CASE Backend = "memory" -> MemoryRevoke(js, now + ttl)
       [] Backend = "redis" -> RedisSet(Range(js), now + ttl) /\ UNCHANGED <<order, recent>>
       [] OTHER -> UpsertTokenRevocations(js, now + ttl) /\ UNCHANGED <<order, recent>>
  /\ Promise(Range(js), now + ttl)
  /\ UNCHANGED now

\* In memory a known token gets a new expiry, and nothing is evicted.
Prolong(j, ttl) ==
  /\ validateTTL(ttl)
  /\ revoked' = [revoked EXCEPT ![j] = now + ttl]
  /\ Promise({j}, now + ttl)
  /\ UNCHANGED <<now, order, recent>>

RevokeToken(j, ttl) ==
  IF Backend = "memory" /\ revoked[j] # 0 THEN Prolong(j, ttl) ELSE Revoke(<<j>>, ttl)
RevokeSessionTokens(js, ttl) == Revoke(js, ttl)

Tick ==
  /\ now < MaxTime
  /\ now' = now + 1
  /\ batch' = {}
  /\ UNCHANGED <<revoked, order, recent, promised>>

Next ==
  \/ Tick \/ cleanup \/ RedisExpiry
  \/ \E ttl \in Ttls :
       \/ \E j \in Jti : RevokeToken(j, ttl) \/ RevokeFails(<<j>>, ttl)
       \/ \E js \in Batches : RevokeSessionTokens(js, ttl) \/ RevokeFails(js, ttl)

Spec == Init /\ [][Next]_vars
-----------------------------------------------------------------------------
(* properties                                                              *)

\* No batch names a token twice.
Distinct == \A js \in Batches : IsInjective(js)

\* The order names every entry of the map, so that eviction reaches them all, and
\* the list is never larger than its bound or the largest batch (evictIfNeeded runs
\* before a batch is added).  Without repeated tokens the order names every entry
\* once and nothing else, whatever is revoked, evicted and cleaned up in between.
OrderAgrees ==
  /\ Present \subseteq Range(order)
  /\ maxSize > 0 => Cardinality(Present) <= Max({maxSize} \cup {Len(js) : js \in Batches})
  /\ Distinct => Range(order) = Present /\ IsInjective(order)

\* Without repeated tokens a revocation that has not expired is only forgotten when
\* maxSize tokens were added after the token (FIFO): eviction, cleanup and a
\* repeated revocation lose nothing else.
OnlyOldestForgotten ==
  Distinct => \A j \in Range(recent) : promised[j] > now => IsRevoked(j)

\* In Redis and Postgres a revocation lasts until it expires, also when some
\* later call fails half way or after its write.
RevokedUntilExpiry ==
  \A j \in Jti : promised[j] > now => IsRevoked(j)

\* Every token of a call that has returned is revoked ("RevokeSessionTokens
\* revokes multiple tokens associated with a session").
\* The code does not keep this statement.
BatchRevoked == \A j \in batch : IsRevoked(j)
=============================================================================
