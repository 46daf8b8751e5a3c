---------------------------- MODULE GlobalThrottle ----------------------------
(***************************************************************************)
(* The two stores behind the global throttle: a pair of atomic counters    *)
(* with tumbling windows, and a pair of rows in Postgres.                  *)
(*                                                                         *)
(* One tick is a second.  A step of the memory store is one atomic         *)
(* operation; the loop of tryIncrementWithLimit is one step, for only its  *)
(* last Load or its successful CompareAndSwap has an effect.               *)
(***************************************************************************)
EXTENDS Integers, FiniteSets

CONSTANTS
  Req, NoReq,
  SecondLimit, HourLimit,  \* perSecondLimit, perHourLimit
  HourLen,                 \* seconds of an hour
  CountCap,                \* the largest count updateBucket writes
  Backend,                 \* "memory" or "postgres"
  MaxLag,                  \* bound: from the arrival of a request to its decision
  MaxTime,                 \* bound: the last second
  Faults                   \* whether a Postgres transaction may fail

ASSUME ThrottleAssumption ==
  /\ NoReq \notin Req /\ IsFiniteSet(Req) /\ Req # {}
  /\ Backend \in {"memory", "postgres"} /\ Faults \in BOOLEAN
  /\ {SecondLimit, HourLimit, CountCap, HourLen} \subseteq Nat \ {0}
  /\ MaxLag \in Nat /\ MaxTime \in Nat /\ HourLen <= MaxTime

VARIABLES
  now,       \* time, in seconds since an hour before the start
  bucket,    \* window -> the start of the bucket that is counted
  count,     \* window -> its counter
  lock,      \* Postgres: the transaction holding the row of a window
  req,       \* local state of every request
  admitted   \* history: window -> start -> requests admitted with that start

vars == <<now, bucket, count, lock, req, admitted>>
-----------------------------------------------------------------------------

Windows == {"second", "hour"}
Time == 0 .. MaxTime
limit == [w \in Windows |-> IF w = "second" THEN SecondLimit ELSE HourLimit]

\* currentSecond and currentHour: time truncated to the window.
Current(w, t) == IF w = "second" THEN t ELSE HourLen * (t \div HourLen)

\* bucket 0 stands for the zero value of the counters, and for rows not there yet.
NoBucket == 0

Idle == [pc |-> "idle", at |-> 0, seen |-> 0,
         own |-> [w \in Windows |-> 0]]

PCs == {"idle", "start", "second_cas", "second_zero", "hour_load", "hour_cas",
        "hour_zero", "second_inc", "hour_inc", "undo", "second_row", "rows",
        "allowed", "blocked", "error"}

\* Counters, rows and requests have their types.
TypeOK ==
  /\ now \in Time
  /\ bucket \in [Windows -> Time] /\ count \in [Windows -> Int]
  /\ lock \in [Windows -> Req \cup {NoReq}]
  /\ req \in [Req -> [pc: PCs, at: Time, seen: Time, own: [Windows -> Nat]]]
  /\ admitted \in [Windows -> [Time -> Nat]]

\* Time starts at the first second of an hour that is not the zero time.
Init ==
  /\ now = HourLen
  /\ bucket = [w \in Windows |-> NoBucket] /\ count = [w \in Windows |-> 0]
  /\ lock = [w \in Windows |-> NoReq]
  /\ req = [r \in Req |-> Idle]
  /\ admitted = [w \in Windows |-> [t \in Time |-> 0]]

Goto(r, pc) == req' = [req EXCEPT ![r].pc = pc]

Return(r, pc) == req' = [req EXCEPT ![r] = [Idle EXCEPT !.pc = pc]]

\* The request is stamped (requestcontext.Now) when it arrives.
Arrive(r) ==
  /\ req[r].pc \in {"idle", "allowed", "blocked", "error"}
  /\ req' = [req EXCEPT ![r] = [Idle EXCEPT !.pc = "start", !.at = now]]
  /\ UNCHANGED <<now, bucket, count, lock, admitted>>

\* Service.Check: an admitted request is one the store did not block.
Admit(r) ==
  /\ Return(r, "allowed")
  /\ admitted' = [w \in Windows |-> [admitted[w] EXCEPT ![Current(w, req[r].at)] = @ + 1]]

-----------------------------------------------------------------------------
(* InMemoryGlobalThrottleStore.IncrementGlobal *)

\* secondBucket.Load and hourBucket.Load.
Load(r, w, from, cas, next) ==
  /\ Backend = "memory" /\ req[r].pc = from
  /\ req' = [req EXCEPT ![r].seen = bucket[w],
                        ![r].pc = IF bucket[w] = Current(w, req[r].at) THEN next ELSE cas]
  /\ UNCHANGED <<now, bucket, count, lock, admitted>>

\* CompareAndSwap: the winner goes on to Store(0), a loser goes on.
Claim(r, w, from, zero, next) ==
  /\ req[r].pc = from
  /\ IF bucket[w] = req[r].seen
     THEN bucket' = [bucket EXCEPT ![w] = Current(w, req[r].at)] /\ Goto(r, zero)
     ELSE Goto(r, next) /\ UNCHANGED bucket
  /\ UNCHANGED <<now, count, lock, admitted>>

\* Store(0).
Zero(r, w, from, next) ==
  /\ req[r].pc = from
  /\ count' = [count EXCEPT ![w] = 0] /\ Goto(r, next)
  /\ UNCHANGED <<now, bucket, lock, admitted>>

\* Mutant: the limit itself is still let through.
Full_Above(w) == count[w] > limit[w]

\* tryIncrementWithLimit: the counter is at its limit.
Full(w) == count[w] >= limit[w]

LoadSecond(r) == Load(r, "second", "start", "second_cas", "hour_load")
ClaimSecond(r) == Claim(r, "second", "second_cas", "second_zero", "hour_load")
ZeroSecond(r) == Zero(r, "second", "second_zero", "hour_load")
LoadHour(r) == Load(r, "hour", "hour_load", "hour_cas", "second_inc")
ClaimHour(r) == Claim(r, "hour", "hour_cas", "hour_zero", "second_inc")
ZeroHour(r) == Zero(r, "hour", "hour_zero", "second_inc")

\* tryIncrementWithLimit of the second.
IncrementSecond(r) ==
  /\ req[r].pc = "second_inc"
  /\ IF Full("second") THEN Return(r, "blocked") /\ UNCHANGED count
     ELSE Goto(r, "hour_inc") /\ count' = [count EXCEPT !["second"] = @ + 1]
  /\ UNCHANGED <<now, bucket, lock, admitted>>

\* tryIncrementWithLimit of the hour.
IncrementHour(r) ==
  /\ req[r].pc = "hour_inc"
  /\ IF Full("hour") THEN Goto(r, "undo") /\ UNCHANGED <<count, admitted>>
     ELSE Admit(r) /\ count' = [count EXCEPT !["hour"] = @ + 1]
  /\ UNCHANGED <<now, bucket, lock>>

\* The hour is full: secondCount.Add(-1).
Undo(r) ==
  /\ req[r].pc = "undo" /\ Return(r, "blocked")
  /\ count' = [count EXCEPT !["second"] = @ - 1]
  /\ UNCHANGED <<now, bucket, lock, admitted>>

-----------------------------------------------------------------------------
(* PostgresStore.IncrementGlobal *)

\* Mutant: SELECT without FOR UPDATE.
GetGlobalThrottleBucketForUpdate_NoLock(r, w) == TRUE

\* GetGlobalThrottleBucketForUpdate, and InsertGlobalThrottleBucket of a row that
\* is not there: both wait for the transaction that holds the row.
GetGlobalThrottleBucketForUpdate(r, w) == lock[w] = NoReq

\* ensureBucketCurrent, after initBucket where there is no row: what the
\* transaction sees in the row.
ensureBucketCurrent(w, current) == IF bucket[w] = current THEN count[w] ELSE 0

loadBucket(r, w, from, next) ==
  /\ Backend = "postgres" /\ req[r].pc = from
  /\ GetGlobalThrottleBucketForUpdate(r, w)
  /\ lock' = [lock EXCEPT ![w] = r]
  /\ req' = [req EXCEPT ![r].pc = next,
                        ![r].own[w] = ensureBucketCurrent(w, Current(w, req[r].at))]
  /\ UNCHANGED <<now, bucket, count, admitted>>

LoadSecondRow(r) == loadBucket(r, "second", "start", "second_row")
LoadHourRow(r) == loadBucket(r, "hour", "second_row", "rows")

\* secCount+1 > perSecondLimit, and the same of the hour.
Fits(r) == \A w \in Windows : req[r].own[w] + 1 <= limit[w]

\* updateBucket: the count is capped before it is written.
updateBucket(n) == IF n > CountCap THEN CountCap ELSE n

\* The end of a transaction frees its rows.
Unlocked(r) == [w \in Windows |-> IF lock[w] = r THEN NoReq ELSE lock[w]]

\* Both rows are written whether the request is admitted or blocked: a blocked
\* one commits what ensureBucketCurrent reset.
WriteRows(r) ==
  /\ bucket' = [w \in Windows |-> Current(w, req[r].at)]
  /\ count' = [w \in Windows |->
       IF Fits(r) THEN updateBucket(req[r].own[w] + 1) ELSE req[r].own[w]]
  /\ lock' = Unlocked(r)

\* Commit.
CommitIncrement(r) ==
  /\ req[r].pc = "rows" /\ WriteRows(r)
  /\ IF Fits(r) THEN Admit(r) ELSE Return(r, "blocked") /\ UNCHANGED admitted
  /\ UNCHANGED now

\* The commit takes effect but its answer is lost.
CommitUnknown(r) ==
  /\ Faults /\ req[r].pc = "rows" /\ WriteRows(r)
  /\ Return(r, "error")
  /\ UNCHANGED <<now, admitted>>

\* A statement or the commit fails, or the request is cancelled.
Rollback(r) ==
  /\ Faults /\ req[r].pc \in {"second_row", "rows"}
  /\ lock' = Unlocked(r) /\ Return(r, "error")
  /\ UNCHANGED <<now, bucket, count, admitted>>

-----------------------------------------------------------------------------

Pending == {r \in Req : req[r].pc \notin {"idle", "allowed", "blocked", "error"}}

\* Time passes, but no request is older than MaxLag when it is decided.
Tick ==
  /\ now < MaxTime /\ \A r \in Pending : now < req[r].at + MaxLag
  /\ now' = now + 1
  /\ UNCHANGED <<bucket, count, lock, req, admitted>>

Step(r) ==
  \/ LoadSecond(r) \/ ClaimSecond(r) \/ ZeroSecond(r)
  \/ LoadHour(r) \/ ClaimHour(r) \/ ZeroHour(r)
  \/ IncrementSecond(r) \/ IncrementHour(r) \/ Undo(r)
  \/ LoadSecondRow(r) \/ LoadHourRow(r) \/ CommitIncrement(r)

Next ==
  \/ \E r \in Req : Arrive(r) \/ Step(r) \/ CommitUnknown(r) \/ Rollback(r)
  \/ Tick

Spec == Init /\ [][Next]_vars

\* The scheduler runs every goroutine and Postgres grants a free row lock to
\* whoever waits for it.
Fairness == \A r \in Req : SF_vars(Step(r))

FairSpec == Spec /\ Fairness

-----------------------------------------------------------------------------
(* Properties *)

\* The counters never exceed their limits, even for a moment, whatever the
\* order in which requests claim, reset, increment and roll back
\* (tryIncrementWithLimit).
NeverAboveLimit == \A w \in Windows : count[w] <= limit[w]

\* The roll-back of a request the hour blocked can reach a second that was reset
\* in between, but never takes more than one per request from it: a counter
\* stays above minus the number of the other requests.
NeverFarBelow == count["second"] > 0 - Cardinality(Req) /\ count["hour"] >= 0

\* Requests that are decided in the second they came in: an hour admits at most
\* twice its limit, what was counted before the winner of CompareAndSwap stored
\* its zero and what was counted after.  A second admits at most one more for
\* every other request, for roll-backs that found the counter reset leave it
\* below zero, and the next second starts from there.
AtMostTwice ==
  \A t \in Time :
    /\ admitted["hour"][t] <= 2 * HourLimit
    /\ admitted["second"][t] <= 2 * SecondLimit + Cardinality(Req) - 1

\* A window admits at most its limit (IncrementGlobal: "preventing TOCTOU races
\* where multiple goroutines could temporarily exceed the limit").
\* The code does not keep this statement.
WithinLimit == \A w \in Windows, t \in Time : admitted[w][t] <= limit[w]

\* A row whose limit is no larger than what updateBucket writes admits at most its
\* limit.  Nothing bounds the others, those of the default configuration among
\* them: their count stops at CountCap, below the limit.
RowsWithinLimit ==
  \A w \in Windows : limit[w] <= CountCap => \A t \in Time : admitted[w][t] <= limit[w]

\* Every admitted request of the current window is counted in its row, as far as
\* updateBucket counts, also when transactions interleave, fail, or commit without
\* an answer.
EveryAdmissionCounted ==
  \A w \in Windows : bucket[w] # NoBucket => updateBucket(admitted[w][bucket[w]]) <= count[w]

\* Whatever the order in which requests claim, reset, increment and roll back: the
\* counters keep their bounds in both stores.  If requests are decided in the
\* second they came in, what the atomic counters admit is bounded as well; the rows
\* of Postgres count every admission up to CountCap and bound what they admit where
\* the limit is not above it.
ThrottleBounded ==
  /\ NeverAboveLimit /\ NeverFarBelow
  /\ MaxLag = 0 /\ Backend = "memory" => AtMostTwice
  /\ MaxLag = 0 /\ Backend = "postgres" => RowsWithinLimit /\ EveryAdmissionCounted

\* Every request is decided: no two transactions wait for each other's row.
RequestsReturn == \A r \in Req : [](r \in Pending => <>(r \notin Pending))
=============================================================================
