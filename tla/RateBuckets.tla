----------------------------- MODULE RateBuckets -----------------------------
(***************************************************************************)
(* The two bucket stores of the rate limiter: a ring of time stamps per    *)
(* key behind a shard mutex, with LRU eviction, and a table of events per  *)
(* key behind a Postgres advisory lock.                                    *)
(*                                                                         *)
(* A request is stamped with its arrival time (requestcontext.Now) and     *)
(* reaches the store later, so stamps reach the store out of order; MaxLag *)
(* bounds the delay.  Events of one key with one stamp are told apart by   *)
(* nothing: the table keeps the cost of each stamp.                        *)
(***************************************************************************)
EXTENDS Integers, Sequences, FiniteSets, SequencesExt, FiniteSetsExt

CONSTANTS
  Key, Req, NoReq,
  Costs,        \* the costs AllowN is called with
  Limit,        \* limit of every key
  Window,       \* windowDuration, in ticks
  Second,       \* ticks of a second
  Ring,         \* circularBufferSize
  Skew,         \* maxClockSkewTolerance, in ticks
  MaxBuckets,   \* buckets of a shard before LRU eviction
  StoredWindow, \* the least window_seconds the Postgres store writes, in ticks
  CostCap,      \* the largest cost it writes
  Backend,      \* "memory" or "postgres"
  MaxLag,       \* bound: from the arrival of a request to its decision
  MaxTime,      \* bound: the last tick
  Faults        \* whether a Postgres transaction may fail

VARIABLES
  now,
  buckets,   \* memory: the sliding window of each key that has one
  lru,       \* memory: keys of the shard, most recently used first
  events,    \* rate_limit_events: the cost recorded at each time, by key
  lock,      \* the transaction holding the advisory lock of a key
  req,       \* local state of every request
  admitted,  \* history: the cost admitted at each time since the key was forgotten
  last       \* the request decided by the last step

vars == <<now, buckets, lru, events, lock, req, admitted, last>>
store == <<buckets, lru, events>>

Time == 0 .. MaxTime
Nothing == [t \in Time |-> 0]

slidingWindow == [timestamps: [0 .. Ring - 1 -> Time], writePos: 0 .. Ring - 1,
                  size: 0 .. Ring]
NewWindow == [timestamps |-> [i \in 0 .. Ring - 1 |-> 0], writePos |-> 0, size |-> 0]

Idle == [pc |-> "idle"]
Asked(pc, k, c, t) == [pc |-> pc, key |-> k, cost |-> c, at |-> t]
\* RateLimitResult.
Result == [pc: {"done"}, key: Key, cost: Costs, at: Time, allowed: BOOLEAN,
           remaining: 0 .. Limit, resetAt: 0 .. MaxTime + Window, retryAfter: Nat]

\* Buckets, table, locks and requests have their types.
TypeOK ==
  /\ now \in Time
  /\ DOMAIN buckets \subseteq Key /\ \A k \in DOMAIN buckets : buckets[k] \in slidingWindow
  /\ lru \in Seq(Key)
  /\ events \in [Key -> [Time -> Nat]] /\ admitted \in [Key -> [Time -> Nat]]
  /\ lock \in [Key -> Req \cup {NoReq}]
  /\ \A r \in Req : req[r].pc \in {"idle", "begin", "locked", "counted", "done"}
                    /\ (req[r].pc = "done" => req[r] \in Result)
  /\ last \in Req \cup {NoReq}

Init ==
  /\ now = 0 /\ buckets = [k \in {} |-> NewWindow] /\ lru = <<>>
  /\ events = [k \in Key |-> Nothing] /\ admitted = [k \in Key |-> Nothing]
  /\ lock = [k \in Key |-> NoReq]
  /\ req = [r \in Req |-> Idle] /\ last = NoReq

-----------------------------------------------------------------------------
(* slidingWindow *)

bufferIndex(sw, position) == (sw.writePos - sw.size + position + Ring) % Ring

\* Positions of the stamps inside the window that ends at t.
InWindow(sw, t) ==
  {i \in 0 .. sw.size - 1 :
     LET ts == sw.timestamps[bufferIndex(sw, i)] IN ts > t - Window /\ ts <= t + Skew}

\* countRequestsInWindow: how many there are, and the oldest (t when none is older).
countRequestsInWindow(sw, t) ==
  [count |-> Cardinality(InWindow(sw, t)),
   oldest |-> Min({t} \cup {sw.timestamps[bufferIndex(sw, i)] : i \in InWindow(sw, t)})]

\* recordRequests: a stamp equal to now is never clamped.
recordRequests(sw, cost, t) ==
  [sw EXCEPT !.timestamps = [i \in 0 .. Ring - 1 |->
                IF \E j \in 0 .. cost - 1 : i = (sw.writePos + j) % Ring THEN t ELSE @[i]],
             !.writePos = (@ + cost) % Ring,
             !.size = Min({@ + cost, Ring})]

\* What is left of the limit.
Left(count, cost) == Limit - (count + cost)

\* When the oldest entry leaves the window.
retryAt(oldest, t) == oldest + Window

\* tryConsume: the size shrinks to the number of valid entries, then grows by the cost.
tryConsume(sw, cost, t) ==
  LET seen == countRequestsInWindow(sw, t)
      kept == [sw EXCEPT !.size = seen.count]
      allowed == seen.count + cost <= Limit
  IN [allowed |-> allowed,
      window |-> IF allowed THEN recordRequests(kept, cost, t) ELSE kept,
      remaining |-> IF allowed THEN Left(seen.count, cost) ELSE 0,
      resetAt |-> IF allowed THEN t + Window ELSE retryAt(seen.oldest, t)]

\* currentCount.
currentCount(sw, t) == countRequestsInWindow(sw, t).count

-----------------------------------------------------------------------------
(* shard *)

MoveToFront(order, k) == <<k>> \o SelectSeq(order, LAMBDA x : x # k)

\* Mutant: the most recently used key is evicted from the list.
evict_Newest(order) == IF Len(order) >= MaxBuckets THEN Tail(order) ELSE order

\* set: at capacity the least recently used key leaves the list.
evict(order) == IF Len(order) >= MaxBuckets THEN Front(order) ELSE order

\* get, and set with a new window when the key has none.
Touch(k) == MoveToFront(IF k \in DOMAIN buckets THEN lru ELSE evict(lru), k)

\* The keys of the map after that.
Kept(k) == IF k \in DOMAIN buckets \/ Len(lru) < MaxBuckets
           THEN DOMAIN buckets \cup {k}
           ELSE (DOMAIN buckets \ {Last(lru)}) \cup {k}

-----------------------------------------------------------------------------
(* Requests *)

Decide(r, allowed, remaining, resetAt) ==
  /\ req' = [req EXCEPT ![r] =
       [pc |-> "done", key |-> req[r].key, cost |-> req[r].cost, at |-> req[r].at,
        allowed |-> allowed, remaining |-> remaining, resetAt |-> resetAt,
        \* retryAfterSeconds: whole seconds, rounded down
        retryAfter |-> IF allowed \/ resetAt < req[r].at THEN 0
                       ELSE (resetAt - req[r].at) \div Second]]
  /\ last' = r

Arrive(r) ==
  /\ req[r].pc \in {"idle", "done"}
  /\ \E k \in Key, c \in Costs : req' = [req EXCEPT ![r] = Asked("begin", k, c, now)]
  /\ last' = NoReq
  /\ UNCHANGED <<now, store, lock, admitted>>

Record(history, k, t, c) == [history EXCEPT ![k][t] = @ + c]
Forget(history, keys) ==
  [k \in Key |-> IF k \in keys THEN Nothing ELSE history[k]]

\* InMemoryBucketStore.AllowN, under the mutex of the shard.
AllowNInMemory(r) ==
  /\ Backend = "memory" /\ req[r].pc = "begin"
  /\ LET k == req[r].key
         sw == IF k \in DOMAIN buckets THEN buckets[k] ELSE NewWindow
         res == tryConsume(sw, req[r].cost, req[r].at)
         evicted == DOMAIN buckets \ Kept(k)
     IN /\ buckets' = [x \in Kept(k) |-> IF x = k THEN res.window ELSE buckets[x]]
        /\ lru' = Touch(k)
        /\ admitted' = IF res.allowed
             THEN Record(Forget(admitted, evicted), k, req[r].at, req[r].cost)
             ELSE Forget(admitted, evicted)
        /\ Decide(r, res.allowed, res.remaining, res.resetAt)
  /\ UNCHANGED <<now, events, lock>>

\* InMemoryBucketStore.Reset.
ResetInMemory(k) ==
  /\ Backend = "memory"
  /\ buckets' = [x \in DOMAIN buckets \ {k} |-> buckets[x]]
  /\ lru' = SelectSeq(lru, LAMBDA x : x # k)
  /\ admitted' = Forget(admitted, {k}) /\ last' = NoReq
  /\ UNCHANGED <<now, events, lock, req>>

-----------------------------------------------------------------------------
(* PostgresBucketStore *)

\* LockRateLimitKey: the advisory lock, held to the end of the transaction.
LockRateLimitKey(k) == lock[k] = NoReq

\* DeleteRateLimitEventsBefore.
DeleteRateLimitEventsBefore(table, cutoff) ==
  [t \in Time |-> IF t < cutoff THEN 0 ELSE table[t]]

\* SumRateLimitCost and SumRateLimitCostSince.
SumRateLimitCost(table) == FoldSet(LAMBDA t, s : s + table[t], 0, Time)
SumRateLimitCostSince(table, cutoff) ==
  FoldSet(LAMBDA t, s : s + table[t], 0, {t \in Time : t >= cutoff})

\* MinRateLimitOccurredAt; NULL is a time after all others.
MinRateLimitOccurredAt(table) ==
  Min({MaxTime + 1} \cup {t \in Time : table[t] > 0})

\* InsertRateLimitEvent.
InsertRateLimitEvent(table, t, cost) == [table EXCEPT ![t] = @ + Min({CostCap, cost})]

BeginTx(r) ==
  /\ Backend = "postgres" /\ req[r].pc = "begin"
  /\ LockRateLimitKey(req[r].key)
  /\ lock' = [lock EXCEPT ![req[r].key] = r]
  /\ req' = [req EXCEPT ![r].pc = "locked"] /\ last' = NoReq
  /\ UNCHANGED <<now, store, admitted>>

\* PostgresBucketStore.AllowN: delete, sum and minimum, seen by this transaction only.
CountEvents(r) ==
  /\ req[r].pc = "locked"
  /\ LET own == DeleteRateLimitEventsBefore(events[req[r].key], req[r].at - Window)
     IN req' = [req EXCEPT ![r] =
          [pc |-> "counted", key |-> req[r].key, cost |-> req[r].cost, at |-> req[r].at,
           current |-> SumRateLimitCost(own), oldest |-> MinRateLimitOccurredAt(own)]]
  /\ last' = NoReq
  /\ UNCHANGED <<now, store, lock, admitted>>

\* PostgresBucketStore.AllowN: insert if it fits, and commit.
CommitAllow(r) ==
  /\ req[r].pc = "counted"
  /\ LET k == req[r].key
         t == req[r].at
         allowed == req[r].current + req[r].cost <= Limit
         kept == DeleteRateLimitEventsBefore(events[k], t - Window)
     IN /\ events' = [events EXCEPT ![k] =
             IF allowed THEN InsertRateLimitEvent(kept, t, req[r].cost) ELSE kept]
        /\ admitted' = IF allowed THEN Record(admitted, k, t, req[r].cost) ELSE admitted
        /\ lock' = [lock EXCEPT ![k] = NoReq]
        /\ Decide(r, allowed,
             IF allowed THEN Left(req[r].current, Min({CostCap, req[r].cost})) ELSE 0,
             IF ~allowed /\ req[r].oldest <= MaxTime THEN retryAt(req[r].oldest, t)
             ELSE t + Window)
  /\ UNCHANGED <<now, buckets, lru>>

\* A statement or the commit fails, or the request is cancelled: Rollback.
Rollback(r) ==
  /\ Faults /\ req[r].pc \in {"locked", "counted"}
  /\ lock' = [lock EXCEPT ![req[r].key] = NoReq]
  /\ req' = [req EXCEPT ![r] = Idle] /\ last' = NoReq
  /\ UNCHANGED <<now, store, admitted>>

\* PostgresBucketStore.Reset: one DELETE, without the advisory lock.
ResetInPostgres(k) ==
  /\ Backend = "postgres"
  /\ events' = [events EXCEPT ![k] = Nothing]
  /\ admitted' = Forget(admitted, {k}) /\ last' = NoReq
  /\ UNCHANGED <<now, buckets, lru, lock, req>>

\* GetCurrentCount: the window of the latest event is max(10_000, windowSeconds).
Since(t) == t - Max({StoredWindow, Window})

\* GetCurrentCount of the two stores, at time t.
GetCurrentCount(k, t) ==
  IF Backend = "postgres" THEN SumRateLimitCostSince(events[k], Since(t))
  ELSE IF k \in DOMAIN buckets THEN currentCount(buckets[k], t) ELSE 0

-----------------------------------------------------------------------------

Pending == {r \in Req : req[r].pc \in {"begin", "locked", "counted"}}

\* Time passes, but no request is older than MaxLag when it is decided.
Tick ==
  /\ now < MaxTime /\ \A r \in Pending : now < req[r].at + MaxLag
  /\ now' = now + 1 /\ last' = NoReq
  /\ UNCHANGED <<store, lock, req, admitted>>

Next ==
  \/ \E r \in Req : Arrive(r) \/ AllowNInMemory(r) \/ BeginTx(r) \/ CountEvents(r)
                    \/ CommitAllow(r) \/ Rollback(r)
  \/ \E k \in Key : ResetInMemory(k) \/ ResetInPostgres(k)
  \/ Tick

Spec == Init /\ [][Next]_vars

-----------------------------------------------------------------------------
(* Properties *)

\* The cost admitted at times in S.
Cost(k, S) == FoldSet(LAMBDA t, s : s + admitted[k][t], 0, S \cap Time)

\* However requests interleave, and in whatever order their stamps reach the
\* store, no stretch of Window - MaxLag ticks holds more than Limit: the size
\* that tryConsume shrinks and the rows a later transaction deletes lose only
\* entries that are about to leave the window.
AdmittedBounded ==
  \A k \in Key, t \in Time : Cost(k, t .. t + Window - MaxLag - 1) <= Limit

\* The map and the list of a shard hold the same keys, no more than MaxBuckets.
ShardConsistent ==
  /\ Range(lru) = DOMAIN buckets /\ IsInjective(lru) /\ Len(lru) <= MaxBuckets

\* A client that is refused and comes back after ResetAt, with nobody else on
\* its key, is admitted ("when the oldest request expires (allowing new
\* requests)", tryConsume).
WouldAdmit(k, t) ==
  IF Backend = "memory" THEN currentCount(buckets[k], t) < Limit
  ELSE SumRateLimitCost(DeleteRateLimitEventsBefore(events[k], t - Window)) < Limit
ResetAtSuffices ==
  \A r \in Req : last = r /\ ~req[r].allowed /\ req[r].cost = 1 =>
    WouldAdmit(req[r].key, req[r].resetAt + 1)

\* The same for a client that waits the whole seconds of Retry-After
\* (models.go: "RetryAfter: seconds to wait before retrying").
\* The code does not keep this statement.
RetryAfterSuffices ==
  \A r \in Req : last = r /\ ~req[r].allowed /\ req[r].cost = 1 =>
    WouldAdmit(req[r].key, req[r].at + req[r].retryAfter * Second)

\* A counted window holds every admitted request that is inside it (the store's
\* comment: "we count how many timestamps fall within the window").
CountExact ==
  LET first == IF Backend = "memory" THEN now - Window + 1 ELSE now - Window
  IN \A k \in Key : GetCurrentCount(k, now) = Cost(k, first .. now)

=============================================================================
