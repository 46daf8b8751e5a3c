----------------------------- MODULE AuthLockout -----------------------------
(***************************************************************************)
(* Failed log-ins: the lockout service over its two stores, the adapter    *)
(* the auth handlers call, and the worker that resets old counts.          *)
(*                                                                         *)
(* An attempt checks the lockout, then the IP limit, validates the         *)
(* credentials and records a failure or clears the record.  The in-memory  *)
(* store hands out pointers to its records, so a record has an address;    *)
(* a row of the Postgres store has one as well, never seen by the service. *)
(***************************************************************************)
EXTENDS Integers, FiniteSets, FiniteSetsExt

CONSTANTS
  Key,                  \* identifiers: user and IP
  Req,
  AttemptsPerWindow, HardLockThreshold, CaptchaAfterLockouts,
  WindowDuration, HardLockDuration, Day,
  Outcomes,             \* what an attempt leads to: "record", "clear" or "none"
  Backend,              \* "memory" or "postgres"
  Worker,               \* whether the cleanup worker runs
  MaxLag,               \* bound: from the arrival of an attempt to its end
  MaxTime,              \* bound: the last tick
  MaxFailures,          \* bound: failures counted by one record
  Faults                \* whether a call of the store may fail

VARIABLES
  now,
  records,   \* identifier -> address of its record, or Nil
  heap,      \* address -> AuthLockout
  req,       \* local state of every attempt
  cleanup,   \* the cleanup worker: "wait", or "daily" between its two calls
  cutoff,    \* its dailyCutoff
  last       \* what the last step answered an attempt

vars == <<now, records, heap, req, cleanup, cutoff, last>>
-----------------------------------------------------------------------------

Time == 0 .. MaxTime
Nil == 0
Address == 1 .. Cardinality(Key) + Cardinality(Req)
Never == -1                          \* LockedUntil is nil

AuthLockout == [FailureCount: Nat, DailyFailures: Nat,
                LockedUntil: {Never} \cup Nat, LastFailureAt: Time,
                RequiresCaptcha: BOOLEAN]

\* NewAuthLockout, and the record GetOrCreate inserts.
NewAuthLockout(t) == [FailureCount |-> 0, DailyFailures |-> 0, LockedUntil |-> Never,
                      LastFailureAt |-> t, RequiresCaptcha |-> FALSE]

Idle == [pc |-> "idle"]
NoAnswer == [answer |-> "none"]
PCs == {"check", "ip", "validate", "record", "read", "write",
        "read_daily", "write_daily", "apply", "lock",
        "captcha", "update", "clear"}

\* Records, addresses and attempts have their types.
TypeOK ==
  /\ now \in Time /\ cutoff \in Int /\ cleanup \in {"wait", "daily"}
  /\ records \in [Key -> Address \cup {Nil}]
  /\ heap \in [Address -> AuthLockout]
  /\ \A r \in Req : req[r] = Idle \/ req[r].pc \in PCs
  /\ last.answer \in {"none", "blocked", "done"}

Init ==
  /\ now = 0 /\ cleanup = "wait" /\ cutoff = 0
  /\ records = [k \in Key |-> Nil]
  /\ heap = [a \in Address |-> NewAuthLockout(0)]
  /\ req = [r \in Req |-> Idle]
  /\ last = NoAnswer

\* The zero record stands in for one that is not there (Check).
Record(k) == IF records[k] = Nil THEN NewAuthLockout(0) ELSE heap[records[k]]

\* An address nobody refers to.
Held == {req[r].ptr : r \in {x \in Req : "ptr" \in DOMAIN req[x]}}
Fresh == Min(Address \ ({records[k] : k \in Key} \cup Held))
-----------------------------------------------------------------------------
(* AuthLockout *)

IsLockedAt(l, t) == l.LockedUntil # Never /\ t < l.LockedUntil

IsAttemptLimitReached(l) == l.FailureCount >= AttemptsPerWindow

\* RecordFailure of the record.
RecordFailure(l, t) ==
  [l EXCEPT !.FailureCount = @ + 1, !.DailyFailures = @ + 1, !.LastFailureAt = t]

ShouldHardLock(l) == l.FailureCount >= HardLockThreshold

ApplyHardLock(l, t) == [l EXCEPT !.LockedUntil = t + HardLockDuration]

ShouldRequireCaptcha(l) == l.DailyFailures >= CaptchaAfterLockouts

\* BackoffPolicy.ResetTime.
ResetTime(l) == l.LastFailureAt + WindowDuration
-----------------------------------------------------------------------------
(* The adapter and Service.Check *)

Goto(r, pc) == req' = [req EXCEPT ![r].pc = pc]
Return(r, answer) == /\ last' = [answer |-> answer, key |-> req[r].key, at |-> req[r].at]
                     /\ req' = [req EXCEPT ![r] = Idle]

\* An attempt of a user arrives and is stamped.
Arrive(r) ==
  /\ req[r] = Idle
  /\ \E k \in Key : req' = [req EXCEPT ![r] = [pc |-> "check", key |-> k, at |-> now]]
  /\ last' = NoAnswer
  /\ UNCHANGED <<now, records, heap, cleanup, cutoff>>

\* Service.Check: hard lock, then attempt limit.
Refused(l, t) == IsLockedAt(l, t) \/ IsAttemptLimitReached(l)

Check(r) ==
  /\ req[r].pc = "check"
  /\ IF Refused(Record(req[r].key), req[r].at)
     THEN Return(r, "blocked")
     ELSE Goto(r, "ip") /\ last' = NoAnswer
  /\ UNCHANGED <<now, records, heap, cleanup, cutoff>>

\* Handler.checkRateLimit: a rate limiter that is unavailable lets the attempt pass.
CheckFails(r) ==
  /\ Faults /\ req[r].pc \in {"check", "ip"}
  /\ Goto(r, "validate") /\ last' = NoAnswer
  /\ UNCHANGED <<now, records, heap, cleanup, cutoff>>

\* CheckAuthRateLimit: the IP limit is asked, and charged, only after the lockout.
CheckIP(r) ==
  /\ req[r].pc = "ip"
  /\ \/ Goto(r, "validate") /\ last' = NoAnswer
     \/ Return(r, "blocked")
  /\ UNCHANGED <<now, records, heap, cleanup, cutoff>>

\* The credentials are right, or not; the auth handlers call neither operation.
Validate(r) ==
  /\ req[r].pc = "validate"
  /\ \E outcome \in Outcomes :
       /\ outcome = "record" => Record(req[r].key).DailyFailures < MaxFailures
       /\ IF outcome = "none" THEN Return(r, "done") ELSE Goto(r, outcome) /\ last' = NoAnswer
  /\ UNCHANGED <<now, records, heap, cleanup, cutoff>>

\* DeleteAuthLockout, and delete of the map's entry: the record is gone, save for
\* an attempt that holds a pointer to it.
Clear(r) ==
  /\ req[r].pc = "clear"
  /\ records' = [records EXCEPT ![req[r].key] = Nil]
  /\ Return(r, "done")
  /\ heap' = [a \in Address |-> IF a = records[req[r].key] /\ a \notin Held
                                THEN NewAuthLockout(0) ELSE heap[a]]
  /\ UNCHANGED <<now, cleanup, cutoff>>

\* A call of the store fails: the caller gets the error, what was done stays.  A call
\* that failed after it took effect is like one after which the next fails.
CallFails(r) ==
  /\ Faults /\ req[r].pc \in {"record", "lock", "captcha", "clear"}
  /\ Return(r, "done")
  /\ UNCHANGED <<now, records, heap, cleanup, cutoff>>

-----------------------------------------------------------------------------
(* recordFailureAtomic, over Postgres *)

\* The service goes on to the next call that the row it was returned asks for.
AfterCount(l) == IF ShouldHardLock(l) THEN "lock"
                 ELSE IF ShouldRequireCaptcha(l) /\ ~l.RequiresCaptcha THEN "captcha"
                 ELSE "done"
AfterLock(l) == IF ShouldRequireCaptcha(l) /\ ~l.RequiresCaptcha THEN "captcha" ELSE "done"

Continue(r, pc, l) ==
  IF pc = "done" THEN Return(r, pc)
  ELSE /\ req' = [req EXCEPT ![r] = [pc |-> pc, key |-> req[r].key, at |-> req[r].at, row |-> l]]
       /\ last' = NoAnswer

\* RecordFailureAtomic: one INSERT ... ON CONFLICT DO UPDATE ... RETURNING.
RecordFailureAtomic(r) ==
  /\ Backend = "postgres" /\ req[r].pc = "record"
  /\ LET k == req[r].key
         a == IF records[k] = Nil THEN Fresh ELSE records[k]
         l == RecordFailure(IF records[k] = Nil THEN NewAuthLockout(req[r].at) ELSE heap[a],
                            req[r].at)
     IN /\ records' = [records EXCEPT ![k] = a]
        /\ heap' = [heap EXCEPT ![a] = l]
        /\ Continue(r, AfterCount(l), l)
  /\ UNCHANGED <<now, cleanup, cutoff>>

\* Mutant: the lock is written whether one is in force or not.
Lockable_Always(l) == l.DailyFailures >= HardLockThreshold

\* WHERE of ApplyHardLock: enough failures in the day, and no lock in force.
Lockable(l) ==
  /\ l.DailyFailures >= HardLockThreshold
  /\ l.LockedUntil = Never \/ l.LockedUntil < now

\* ApplyHardLockAtomic.
ApplyHardLockAtomic(r) ==
  /\ Backend = "postgres" /\ req[r].pc = "lock"
  /\ LET k == req[r].key
     IN IF records[k] # Nil /\ Lockable(heap[records[k]])
        THEN heap' = [heap EXCEPT ![records[k]] = ApplyHardLock(@, req[r].at)]
        ELSE UNCHANGED heap
  /\ Continue(r, AfterLock(req[r].row), req[r].row)
  /\ UNCHANGED <<now, records, cleanup, cutoff>>

\* SetRequiresCaptchaAtomic.
SetRequiresCaptchaAtomic(r) ==
  /\ Backend = "postgres" /\ req[r].pc = "captcha"
  /\ LET a == records[req[r].key]
     IN heap' = IF a # Nil /\ ~heap[a].RequiresCaptcha
                   /\ heap[a].DailyFailures >= CaptchaAfterLockouts * HardLockThreshold
                THEN [heap EXCEPT ![a].RequiresCaptcha = TRUE] ELSE heap
  /\ Return(r, "done")
  /\ UNCHANGED <<now, records, cleanup, cutoff>>
-----------------------------------------------------------------------------
(* recordFailureNonAtomic, over the in-memory store *)

\* GetOrCreate returns the address of the record.
GetOrCreate(r) ==
  /\ Backend = "memory" /\ req[r].pc = "record"
  /\ LET k == req[r].key
         a == IF records[k] = Nil THEN Fresh ELSE records[k]
     IN /\ records' = [records EXCEPT ![k] = a]
        /\ heap' = IF records[k] = Nil THEN [heap EXCEPT ![a] = NewAuthLockout(req[r].at)]
                   ELSE heap
        /\ req' = [req EXCEPT ![r] = [pc |-> "read", key |-> k, at |-> req[r].at, ptr |-> a]]
  /\ last' = NoAnswer
  /\ UNCHANGED <<now, cleanup, cutoff>>

\* RecordFailure without a lock: a counter is read ...
ReadCounter(r, from, field, to) ==
  /\ req[r].pc = from
  /\ req' = [req EXCEPT ![r] = [pc |-> to, key |-> req[r].key, at |-> req[r].at,
                                ptr |-> req[r].ptr, seen |-> heap[req[r].ptr][field]]]
  /\ last' = NoAnswer
  /\ UNCHANGED <<now, records, heap, cleanup, cutoff>>

ReadFailureCount(r) == ReadCounter(r, "read", "FailureCount", "write")
ReadDailyFailures(r) == ReadCounter(r, "read_daily", "DailyFailures", "write_daily")

\* ... and written later, so that one of two increments may be lost.
WriteFailureCount(r) ==
  /\ req[r].pc = "write"
  /\ heap' = [heap EXCEPT ![req[r].ptr].FailureCount = req[r].seen + 1]
  /\ Goto(r, "read_daily") /\ last' = NoAnswer
  /\ UNCHANGED <<now, records, cleanup, cutoff>>

WriteDailyFailures(r) ==
  /\ req[r].pc = "write_daily"
  /\ heap' = [heap EXCEPT ![req[r].ptr].DailyFailures = req[r].seen + 1,
                          ![req[r].ptr].LastFailureAt = req[r].at]
  /\ Goto(r, "apply") /\ last' = NoAnswer
  /\ UNCHANGED <<now, records, cleanup, cutoff>>

\* The state transitions, on the shared record.
ComputeTransitions(r) ==
  /\ req[r].pc = "apply"
  /\ LET l == heap[req[r].ptr]
         locked == IF ShouldHardLock(l) THEN ApplyHardLock(l, req[r].at) ELSE l
     IN /\ heap' = [heap EXCEPT ![req[r].ptr] =
             [locked EXCEPT !.RequiresCaptcha = @ \/ ShouldRequireCaptcha(l)]]
  /\ Goto(r, "update") /\ last' = NoAnswer
  /\ UNCHANGED <<now, records, cleanup, cutoff>>

\* Update puts the record back, also when it was cleared in between.
Update(r) ==
  /\ req[r].pc = "update"
  /\ records' = [records EXCEPT ![req[r].key] = req[r].ptr]
  /\ Return(r, "done")
  /\ UNCHANGED <<now, heap, cleanup, cutoff>>

-----------------------------------------------------------------------------
(* AuthLockoutCleanupService.RunOnce *)

\* The records of the store whose last failure is before t.
Before(t) == {records[k] : k \in {x \in Key : records[x] # Nil
                                              /\ heap[records[x]].LastFailureAt < t}}

\* Mutant: the cutoff is the time of the run.
WindowCutoff_Now == now

\* windowCutoff.
WindowCutoff == now - WindowDuration

\* ResetFailureCount.
ResetFailureCount ==
  /\ Worker /\ cleanup = "wait"
  /\ heap' = [a \in Address |-> IF a \in Before(WindowCutoff)
                                THEN [heap[a] EXCEPT !.FailureCount = 0] ELSE heap[a]]
  /\ cleanup' = "daily" /\ cutoff' = now - Day /\ last' = NoAnswer
  /\ UNCHANGED <<now, records, req>>

\* ResetDailyFailures.
ResetDailyFailures ==
  /\ cleanup = "daily"
  /\ heap' = [a \in Address |-> IF a \in Before(cutoff)
                                THEN [heap[a] EXCEPT !.DailyFailures = 0] ELSE heap[a]]
  /\ cleanup' = "wait" /\ cutoff' = 0 /\ last' = NoAnswer
  /\ UNCHANGED <<now, records, req>>

\* One of the two calls fails; the next tick starts again.
CleanupFails ==
  /\ Faults /\ cleanup = "daily"
  /\ cleanup' = "wait" /\ cutoff' = 0 /\ last' = NoAnswer
  /\ UNCHANGED <<now, records, heap, req>>

-----------------------------------------------------------------------------

Pending == {r \in Req : req[r] # Idle}

\* Time passes; no attempt takes longer than MaxLag, no run of the worker spans
\* more than one tick.
Tick ==
  /\ now < MaxTime /\ \A r \in Pending : now < req[r].at + MaxLag
  /\ cleanup = "daily" => now < cutoff + Day + 1
  /\ now' = now + 1 /\ last' = NoAnswer
  /\ UNCHANGED <<records, heap, req, cleanup, cutoff>>

Step(r) ==
  \/ Check(r) \/ CheckIP(r) \/ Validate(r) \/ Clear(r)
  \/ RecordFailureAtomic(r) \/ ApplyHardLockAtomic(r) \/ SetRequiresCaptchaAtomic(r)
  \/ GetOrCreate(r) \/ ReadFailureCount(r) \/ WriteFailureCount(r)
  \/ ReadDailyFailures(r) \/ WriteDailyFailures(r) \/ ComputeTransitions(r) \/ Update(r)

RunOnce == ResetFailureCount \/ ResetDailyFailures

Next ==
  \/ \E r \in Req : Arrive(r) \/ Step(r) \/ CheckFails(r) \/ CallFails(r)
  \/ RunOnce \/ CleanupFails
  \/ Tick

Spec == Init /\ [][Next]_vars
-----------------------------------------------------------------------------
(* Properties *)

\* Attempts that are under way when the limit is reached still fail, but no more
\* than those: the count a check reads is stale by at most the other attempts.
OvershootBounded ==
  \A k \in Key : Record(k).FailureCount <= AttemptsPerWindow + Cardinality(Req) - 1

\* The failures of the window are failures of the day, whatever is recorded
\* between the two resets of the worker or after a run that stopped half-way; the
\* row lock of ApplyHardLock (daily_failures) never misses what ShouldHardLock
\* (FailureCount) asks for.
WindowWithinDay == \A k \in Key : Record(k).FailureCount <= Record(k).DailyFailures

\* A hard lock in force is never shortened but by a successful log-in, also by
\* attempts that were stamped earlier and recorded later.
LockKept ==
  \A k \in Key : records[k] # Nil /\ records'[k] = records[k]
                 /\ now < heap[records[k]].LockedUntil
       => heap'[records[k]].LockedUntil >= heap[records[k]].LockedUntil
LockNotShortened == [][LockKept]_vars

\* A history of the failures that a step counts, by identifier and time stamp.
NoFailures == [k \in Key |-> [t \in Time |-> 0]]
CountedBy(failed) ==
  [k \in Key |-> IF Record(k)'.DailyFailures > Record(k).DailyFailures
                 THEN [failed[k] EXCEPT ![Record(k)'.LastFailureAt] = @ + 1] ELSE failed[k]]

\* While nobody logs in, the attempts that fail with stamps of one window are those
\* the limit allows and those under way when it was reached (FR-2b: "5 attempts/15
\* min"), whatever the worker resets in between.  It goes by the last failure
\* recorded, whose stamp can be older than that of an earlier one, so the window is
\* shorter by the time that attempts take.
WindowKept(failed) ==
  \A k \in Key, t \in Time :
    MapThenSumSet(LAMBDA u : failed[k][u], t .. Min({t + WindowDuration - 2 * MaxLag, MaxTime}))
      <= AttemptsPerWindow + Cardinality(Req) - 1

\* A blocked attempt that is not hard-locked came before the reset time
\* (Check: "5 attempts/15 min", ResetTime).
\* The code does not keep this statement.
BlockedOnlyInWindow ==
  last.answer = "blocked" =>
    LET l == Record(last.key)
    IN IsAttemptLimitReached(l) /\ ~IsLockedAt(l, last.at) => last.at <= ResetTime(l)

\* When a failure has been recorded, enough failures in the day mean a hard lock
\* (AuthLockout: "After 10 daily failures: hard lock for 15 minutes").
\* The code does not keep this statement.
DailyFailuresLock ==
  last.answer = "done" =>
    LET l == Record(last.key) IN l.DailyFailures >= HardLockThreshold => l.LockedUntil # Never
=============================================================================
