--------------------------- MODULE ClientResolver ---------------------------
(***************************************************************************)
(* Client resolution in the auth service: the tenant service behind a      *)
(* circuit breaker, with a cache that answers while the circuit is open.   *)
(*                                                                         *)
(* The tenant service is the truth: an active client is resolved, any      *)
(* other is an error, and a call may fail while the service is down.  Ages *)
(* are kept instead of times, so that time may pass for ever: an entry's   *)
(* age stops at TTL + 1, where it is expired.                              *)
(***************************************************************************)
EXTENDS Integers, FiniteSets, FiniteSetsExt

CONSTANTS
  Client, Req,
  Unknown,              \* client ids no tenant has
  FailureThreshold, SuccessThreshold,
  TTL,                  \* cacheTTL
  MaxCleanup,           \* expired entries removed by one Set
  Outages,              \* bound: how often the tenant service goes down
  Changes,              \* bound: deactivations and reactivations
  MaxLag                \* bound: ticks one call takes

VARIABLES
  active,    \* client -> the tenant service resolves it
  since,     \* client -> ticks since that last changed, up to Horizon
  up,        \* the tenant service answers
  outages, changes,
  state, failureCount, successCount,      \* the breaker
  entries,   \* client -> age of its cache entry, or NoEntry
  req,       \* local state of every call
  last       \* the answer of the last step

vars == <<active, since, up, outages, changes, state, failureCount, successCount, entries, req, last>>
breaker == <<state, failureCount, successCount>>
world == <<active, since, up, outages, changes>>
-----------------------------------------------------------------------------

Horizon == TTL + MaxLag + 1
NoEntry == -1
Idle == [pc |-> "idle"]
NoAnswer == [answer |-> "none"]
PCs == {"idle", "start", "cached", "delegate", "failure", "fallback", "success", "set"}

\* Breaker, cache and calls have their types; the counters stay below the
\* thresholds they are compared with.
TypeOK ==
  /\ active \in [Client -> BOOLEAN] /\ since \in [Client -> 0 .. Horizon]
  /\ up \in BOOLEAN /\ outages \in 0 .. Outages /\ changes \in 0 .. Changes
  /\ state \in {"closed", "open"}
  /\ failureCount \in 0 .. FailureThreshold /\ successCount \in 0 .. SuccessThreshold - 1
  /\ entries \in [Client -> {NoEntry} \cup 0 .. TTL + 1]
  /\ \A r \in Req : req[r].pc \in PCs

\* NewResilientClientResolver, with a new breaker and an empty cache.
Init ==
  /\ active = [c \in Client |-> c \notin Unknown]
  /\ since = [c \in Client |-> Horizon]
  /\ up = TRUE /\ outages = 0 /\ changes = 0
  /\ state = "closed" /\ failureCount = 0 /\ successCount = 0
  /\ entries = [c \in Client |-> NoEntry]
  /\ req = [r \in Req |-> Idle]
  /\ last = NoAnswer
-----------------------------------------------------------------------------
(* The breaker, each operation under its mutex.                            *)

IsOpen == state = "open"

\* The count of failures is only compared with the threshold, and stops there.
RecordFailure ==
  /\ failureCount' = Min({failureCount + 1, FailureThreshold})
  /\ successCount' = 0
  /\ state' = IF IsOpen \/ failureCount + 1 >= FailureThreshold THEN "open" ELSE "closed"

RecordSuccess ==
  LET recovered == IsOpen /\ successCount + 1 >= SuccessThreshold IN
  /\ state' = IF recovered THEN "closed" ELSE state
  /\ successCount' = IF IsOpen /\ ~recovered THEN successCount + 1 ELSE 0
  /\ failureCount' = IF IsOpen /\ ~recovered THEN failureCount ELSE 0
-----------------------------------------------------------------------------
(* The cache.                                                              *)

\* Mutant: an entry is used however old it is.
Hit_AnyAge(c) == entries[c] # NoEntry

\* Get finds an entry that has not expired.
Hit(c) == entries[c] # NoEntry /\ entries[c] <= TTL

Expired(c) == entries[c] # NoEntry /\ entries[c] > TTL

\* cleanupExpiredLocked removes up to MaxCleanup of them, in map order.
Cleaned(c) == {s \in SUBSET {d \in Client \ {c} : Expired(d)} :
                 Cardinality(s) = Min({MaxCleanup, Cardinality({d \in Client \ {c} : Expired(d)})})}

Set(c) ==
  \E s \in Cleaned(c) :
    entries' = [d \in Client |-> IF d = c THEN 0 ELSE IF d \in s THEN NoEntry ELSE entries[d]]
-----------------------------------------------------------------------------
(* ResolveClient.                                                          *)

Goto(r, pc) == req' = [req EXCEPT ![r].pc = pc] /\ last' = NoAnswer

Return(r, answer, source) ==
  /\ last' = [answer |-> answer, source |-> source, client |-> req[r].client, lag |-> req[r].lag]
  /\ req' = [req EXCEPT ![r] = Idle]

Call(r, c) ==
  /\ req[r] = Idle
  /\ req' = [req EXCEPT ![r] = [pc |-> "start", client |-> c, lag |-> 0]]
  /\ last' = NoAnswer
  /\ UNCHANGED <<world, breaker, entries>>

CheckOpen(r) ==
  /\ req[r].pc = "start"
  /\ Goto(r, IF IsOpen THEN "cached" ELSE "delegate")
  /\ UNCHANGED <<world, breaker, entries>>

\* A hit while the circuit is open answers without asking the tenant service.
GetCached(r) ==
  /\ req[r].pc = "cached"
  /\ IF Hit(req[r].client) THEN Return(r, "resolved", "cache") ELSE Goto(r, "delegate")
  /\ UNCHANGED <<world, breaker, entries>>

\* The tenant service's answer: a refusal is an error like any other.
Delegate(r) ==
  /\ req[r].pc = "delegate"
  /\ \/ active[req[r].client] /\ Goto(r, "success")
     \/ ~active[req[r].client] /\ Goto(r, "failure")
     \/ ~up /\ Goto(r, "failure")
  /\ UNCHANGED <<world, breaker, entries>>

Failed(r) ==
  /\ req[r].pc = "failure"
  /\ RecordFailure
  /\ IF state' = "open" THEN Goto(r, "fallback") ELSE Return(r, "error", "tenant")
  /\ UNCHANGED <<world, entries>>

GetFallback(r) ==
  /\ req[r].pc = "fallback"
  /\ IF Hit(req[r].client) THEN Return(r, "resolved", "cache") ELSE Return(r, "error", "tenant")
  /\ UNCHANGED <<world, breaker, entries>>

Succeeded(r) ==
  /\ req[r].pc = "success"
  /\ RecordSuccess
  /\ Goto(r, "set")
  /\ UNCHANGED <<world, entries>>

SetCache(r) ==
  /\ req[r].pc = "set"
  /\ Set(req[r].client)
  /\ Return(r, "resolved", "tenant")
  /\ UNCHANGED <<world, breaker>>
-----------------------------------------------------------------------------
(* The tenant service and time.                                            *)

Change(c) ==
  /\ changes < Changes /\ c \notin Unknown
  /\ active' = [active EXCEPT ![c] = ~@] /\ since' = [since EXCEPT ![c] = 0]
  /\ changes' = changes + 1 /\ last' = NoAnswer
  /\ UNCHANGED <<up, outages, breaker, entries, req>>

GoesDown ==
  /\ up /\ outages < Outages
  /\ up' = FALSE /\ outages' = outages + 1 /\ last' = NoAnswer
  /\ UNCHANGED <<active, since, changes, breaker, entries, req>>

ComesUp ==
  /\ ~up /\ up' = TRUE /\ last' = NoAnswer
  /\ UNCHANGED <<active, since, outages, changes, breaker, entries, req>>

Older(n, limit) == IF n < limit THEN n + 1 ELSE n

Tick ==
  /\ \A r \in Req : req[r] # Idle => req[r].lag < MaxLag
  /\ entries' = [c \in Client |-> IF entries[c] = NoEntry THEN NoEntry ELSE Older(entries[c], TTL + 1)]
  /\ since' = [c \in Client |-> Older(since[c], Horizon)]
  /\ req' = [r \in Req |-> IF req[r] = Idle THEN Idle ELSE [req[r] EXCEPT !.lag = @ + 1]]
  /\ last' = NoAnswer
  /\ UNCHANGED <<active, up, outages, changes, breaker>>

Step(r) ==
  \/ CheckOpen(r) \/ GetCached(r) \/ Delegate(r) \/ Failed(r)
  \/ GetFallback(r) \/ Succeeded(r) \/ SetCache(r)

Next ==
  \/ \E r \in Req : (\E c \in Client : Call(r, c)) \/ Step(r)
  \/ \E c \in Client : Change(c)
  \/ GoesDown \/ ComesUp \/ Tick

Spec == Init /\ [][Next]_vars

\* Calls end, time passes, and every client that can be resolved is asked for.
Fairness ==
  /\ \A r \in Req : WF_vars(Step(r)) /\ \A c \in Client \ Unknown : SF_vars(Call(r, c))
  /\ WF_vars(Tick)

FairSpec == Spec /\ Fairness
-----------------------------------------------------------------------------
(* Properties.                                                             *)

\* However breaker, cache and callers interleave, a client that the tenant
\* service no longer resolves is resolved from the cache for at most the TTL
\* and the time the call that filled the cache took.
StalenessBounded ==
  last.answer = "resolved" /\ ~active[last.client] =>
    since[last.client] <= IF last.source = "cache" THEN TTL + MaxLag ELSE last.lag

\* The circuit cannot stay open on a full cache: once the tenant service is up
\* for good and only resolvable clients are asked for, it closes for good.
CircuitCloses ==
  <>[](up /\ \A r \in Req : req[r] # Idle => active[req[r].client]) => <>[](state = "closed")

\* A client whose tenant or own status is inactive is not resolved, save by a
\* call that was under way when it was deactivated.
\* The code does not keep this statement.
DeactivationImmediate ==
  last.answer = "resolved" /\ ~active[last.client] => since[last.client] <= last.lag
=============================================================================
