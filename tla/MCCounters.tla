------------------------------ MODULE MCCounters ------------------------------
(***************************************************************************)
(* The counters of the rate limiter: the global throttle, the buckets of   *)
(* the sliding windows, the quotas of API keys and the failed log-ins in   *)
(* Postgres.  They share no state, so one of them, in one scenario, runs   *)
(* in each behaviour.                                                      *)
(***************************************************************************)
EXTENDS GlobalThrottle, TLC

CONSTANTS r1, r2, k1, k2, k3

VARIABLES
  part,                                                             \* what runs
  now2, bucket2, count2, lock2, req2, admitted2,                    \* GlobalThrottle
  clock, buckets, lru, events, keyLock, call, admittedCost, last,   \* RateBuckets
  month, quotas, pending, counted, monthly, over, logged,           \* APIKeyQuota
  hour, records, heap, attempt, cleanup, cutoff, returned           \* AuthLockout

otherVars == <<now2, bucket2, count2, lock2, req2, admitted2>>
rateVars == <<clock, buckets, lru, events, keyLock, call, admittedCost, last>>
quotaVars == <<month, quotas, pending, counted, monthly, over, logged>>
lockoutVars == <<hour, records, heap, attempt, cleanup, cutoff, returned>>

\* The rows of Postgres, the same with an hour whose limit is above the largest count,
\* and atomic counters with late requests.
Rows == INSTANCE GlobalThrottle WITH
  Backend <- "postgres", SecondLimit <- 2, HourLimit <- 3, MaxTime <- 4,
  now <- now2, bucket <- bucket2, count <- count2, lock <- lock2, req <- req2, admitted <- admitted2
Capped == INSTANCE GlobalThrottle WITH
  Backend <- "postgres", SecondLimit <- 2, HourLimit <- 3, CountCap <- 2, MaxTime <- 4,
  now <- now2, bucket <- bucket2, count <- count2, lock <- lock2, req <- req2, admitted <- admitted2
Late == INSTANCE GlobalThrottle WITH
  Req <- {r1, r2}, SecondLimit <- 2, HourLimit <- 3, MaxLag <- 1, MaxTime <- 4,
  now <- now2, bucket <- bucket2, count <- count2, lock <- lock2, req <- req2, admitted <- admitted2

\* The ring of one key, with requests that reach it out of order.
Buffer == INSTANCE RateBuckets WITH
  Key <- {k1}, Req <- {r1, r2}, Costs <- {1, 2}, Limit <- 3, Window <- 3, Second <- 1,
  Ring <- 3, Skew <- 1, MaxBuckets <- 2, StoredWindow <- 5, CostCap <- 1000, Backend <- "memory",
  MaxLag <- 1, MaxTime <- 4, Faults <- FALSE,
  now <- clock, lock <- keyLock, req <- call, admitted <- admittedCost
\* One key more than a shard holds.
Shard == INSTANCE RateBuckets WITH
  Key <- {k1, k2, k3}, Req <- {r1, r2}, Costs <- {1}, Limit <- 2, Window <- 2, Second <- 1,
  Ring <- 2, Skew <- 0, MaxBuckets <- 2, StoredWindow <- 5, CostCap <- 1000, Backend <- "memory",
  MaxLag <- 0, MaxTime <- 2, Faults <- FALSE,
  now <- clock, lock <- keyLock, req <- call, admitted <- admittedCost
\* The table of events.
Table == INSTANCE RateBuckets WITH
  Key <- {k1}, Req <- {r1, r2}, Costs <- {1, 2}, Limit <- 2, Window <- 3, Second <- 1,
  Ring <- 2, Skew <- 1, MaxBuckets <- 2, StoredWindow <- 5, CostCap <- 1000, Backend <- "postgres",
  MaxLag <- 1, MaxTime <- 6, Faults <- TRUE,
  now <- clock, lock <- keyLock, req <- call, admitted <- admittedCost

Quota == INSTANCE APIKeyQuota WITH
  Callers <- {r1, r2}, Keys <- {k1, k2}, Counts <- {1, 2}, FreeLimit <- 1, StarterLimit <- 2,
  Month <- 1, MaxTime <- 1, MaxUsage <- 4, now <- month

\* Attempts on one account, while calls of the store may fail.
Failures == INSTANCE AuthLockout WITH
  Key <- {k1}, Req <- {r1, r2}, AttemptsPerWindow <- 2, HardLockThreshold <- 2,
  CaptchaAfterLockouts <- 1, WindowDuration <- 1, HardLockDuration <- 2, Day <- 3,
  Outcomes <- {"record", "clear"}, Backend <- "postgres", Worker <- TRUE, MaxLag <- 1,
  MaxTime <- 4, MaxFailures <- 3, Faults <- TRUE,
  now <- hour, req <- attempt, last <- returned

MCInit ==
  /\ part \in {"counters", "rows", "capped rows", "late", "ring", "shard", "table", "quota", "failures"}
  /\ Init /\ Quota!Init /\ Failures!Init
  /\ IF part = "late" THEN Late!Init ELSE Rows!Init
  /\ IF part = "ring" THEN Buffer!Init ELSE IF part = "shard" THEN Shard!Init ELSE Table!Init

MCNext ==
  /\ UNCHANGED part
  /\ \/ part = "counters" /\ Next /\ UNCHANGED <<otherVars, rateVars, quotaVars, lockoutVars>>
     \/ /\ \/ part = "rows" /\ Rows!Next
           \/ part = "capped rows" /\ Capped!Next
           \/ part = "late" /\ Late!Next
        /\ UNCHANGED <<vars, rateVars, quotaVars, lockoutVars>>
     \/ /\ \/ part = "ring" /\ Buffer!Next
           \/ part = "shard" /\ Shard!Next
           \/ part = "table" /\ Table!Next
        /\ UNCHANGED <<vars, otherVars, quotaVars, lockoutVars>>
     \/ part = "quota" /\ Quota!Next /\ UNCHANGED <<vars, otherVars, rateVars, lockoutVars>>
     \/ part = "failures" /\ Failures!Next /\ UNCHANGED <<vars, otherVars, rateVars, quotaVars>>

MCSpec == MCInit /\ [][MCNext]_<<part, vars, otherVars, rateVars, quotaVars, lockoutVars>>

Symmetry == Permutations({r1, r2})
-----------------------------------------------------------------------------
(* The properties of the parts.                                            *)

\* The variables of the part that runs have their types.
AllTypes ==
  /\ part = "counters" => TypeOK
  /\ part \in {"rows", "capped rows"} => Rows!TypeOK
  /\ part = "late" => Late!TypeOK
  /\ part = "quota" => Quota!TypeOK
  /\ part = "failures" => Failures!TypeOK
  /\ part = "ring" => Buffer!TypeOK
  /\ part = "shard" => Shard!TypeOK
  /\ part = "table" => Table!TypeOK

\* What a window admits is bounded: in every stretch of a sliding window, although
\* requests reach it out of order, and by its limit in the rows of Postgres, if that
\* is not above the largest count they hold; up to there they count every admission.
\* Late requests drive no counter of the throttle out of its bounds, and whoever a
\* sliding window refuses is admitted after its ResetAt.
AdmissionsBounded ==
  /\ part = "rows" => Rows!ThrottleBounded
  /\ part = "capped rows" => Capped!ThrottleBounded
  /\ part = "late" => Late!ThrottleBounded
  /\ part = "ring" => Buffer!AdmittedBounded /\ Buffer!ResetAtSuffices
  /\ part = "table" => Table!AdmittedBounded /\ Table!ResetAtSuffices

\* Counters agree with what happened: the shard counts what it admitted and evicts
\* a key from map and list, the usage of an API key is what was added to it and its
\* overage has an event, and the failed log-ins of the window are among those of
\* the day.
CountsKept ==
  /\ AllTypes
  /\ part = "shard" => Shard!ShardConsistent /\ Shard!CountExact
  /\ part = "quota" => Quota!UsageExact /\ Quota!OverageLogged
  /\ part = "failures" => Failures!WindowWithinDay

\* A hard lock in force is never shortened but by a successful log-in.
LockNotShortened == Failures!LockNotShortened
=============================================================================
