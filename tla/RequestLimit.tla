----------------------------- MODULE RequestLimit -----------------------------
(***************************************************************************)
(* The rate-limit middleware: per-IP, combined and per-client checks over  *)
(* the bucket store and the allowlist, each behind its circuit breaker,    *)
(* with the optional in-memory fallback limiter, and the administration of *)
(* allowlist and buckets.                                                  *)
(*                                                                         *)
(* A bucket is abstracted to the requests of the current window: it admits *)
(* up to its limit (RateBuckets shows what the stores do) and is emptied   *)
(* when the window passes.  The two tiers are the primary stores and the   *)
(* buckets of the fallback limiter.  While the database is down a call of  *)
(* a primary store, or of the allowlist, may fail.                         *)
(***************************************************************************)
EXTENDS Integers, FiniteSets, FiniteSetsExt

CONSTANTS
  Req,
  IPs, Users, Clients,
  NilUser,              \* id.UserID{}: no user in the request context
  Confidential,         \* the confidential clients
  Kinds,                \* what arrives: "ip", "auth", "both", "client"
  Configured,           \* the classes the configuration has limits for
  Requested,            \* the classes of the routes
  IPLimit, UserLimit, PublicLimit, ConfidentialLimit,
  FailureThreshold, SuccessThreshold,
  Fallback,             \* whether the middleware has a fallback limiter
  FailClosed,           \* the option WithFailClosed
  Memory,               \* whether the allowlist is the in-memory one
  AdminOps,             \* "add", "remove", "reset"
  Expiries,             \* expiry times the administrator chooses
  Cleanup,              \* whether the clean-up of the allowlist runs
  MaxTime,              \* bound: the last tick
  MaxOutages            \* bound: outages of the database

Forever == -1           \* an entry without an expiry time

ASSUME LimitAssumption ==
  /\ IsFiniteSet(Req) /\ NilUser \notin Users /\ Confidential \subseteq Clients
  /\ Kinds \subseteq {"ip", "auth", "both", "client"}
  /\ {IPLimit, UserLimit, PublicLimit, ConfidentialLimit} \subseteq Nat
  /\ {FailureThreshold, SuccessThreshold} \subseteq Nat \ {0}
  /\ {Fallback, FailClosed, Memory, Cleanup} \subseteq BOOLEAN
  /\ Expiries \subseteq Nat /\ {MaxTime, MaxOutages} \subseteq Nat

VARIABLES
  now,
  up, outages,   \* the database answers; outages so far
  used,          \* tier -> key -> requests of this window
  entries,       \* the allowlist: identifier -> expiry time, Forever or None
  sweep,         \* the clean-up goroutine: "running" or "stopped"
  breaker,       \* breaker name -> [state, failureCount, successCount]
  req,           \* local state of every request
  admin,         \* the ResetRateLimit call in progress
  served,        \* history: requests of this window let through, by identifier and class
  last           \* the decision of the last step, or Undecided

vars == <<now, up, outages, used, entries, sweep, breaker, req, admin, served, last>>
-----------------------------------------------------------------------------

Classes == Configured \cup Requested \cup {"auth", "sensitive", "read", "write", "admin"}
Ids == IPs \cup Users \cup {NilUser} \cup Clients
Key == {"ip", "user", "client"} \X Ids \X Classes
Tiers == {"primary", "fallback"}
Breakers == {"ip", "combined", "client"}
None == -2

Idle == [pc |-> "idle"]
Undecided == [verdict |-> "none"]
Quiet == [pc |-> "idle", reset |-> {}]
Closed == [state |-> "closed", failureCount |-> 0, successCount |-> 0]
PCs == {"idle", "lookup", "charge", "charge_user", "breaker", "handler"}

\* Buckets, breakers, allowlist and requests have their types.
TypeOK ==
  /\ now \in 0 .. MaxTime /\ up \in BOOLEAN /\ outages \in 0 .. MaxOutages
  /\ used \in [Tiers -> [Key -> Nat]]
  /\ entries \in [IPs \cup Users -> Expiries \cup {Forever, None}]
  /\ sweep \in {"running", "stopped"}
  /\ breaker \in [Breakers -> [state: {"closed", "open"}, failureCount: 0 .. FailureThreshold,
                            successCount: 0 .. SuccessThreshold - 1]]
  /\ \A r \in Req : req[r].pc \in PCs
  /\ admin.pc \in {"idle", "reset", "failed"}
  /\ served \in [Ids \X Requested -> Nat]
  /\ last.verdict \in {"none", "passed", "refused", "panic"}

Init ==
  /\ now = 0 /\ up = TRUE /\ outages = 0
  /\ used = [t \in Tiers |-> [k \in Key |-> 0]]
  /\ entries = [i \in IPs \cup Users |-> None]
  /\ sweep = IF Cleanup THEN "running" ELSE "stopped"
  /\ breaker = [b \in Breakers |-> Closed]
  /\ req = [r \in Req |-> Idle]
  /\ admin = Quiet
  /\ served = [i \in Ids \X Requested |-> 0]
  /\ last = Undecided
-----------------------------------------------------------------------------
(* The circuit breaker.                                                    *)

BreakerOf(kind) == CASE kind \in {"ip", "auth"} -> "ip" [] kind = "both" -> "combined" [] OTHER -> "client"

\* The failure count is capped at the threshold, which is all the code compares it with.
RecordFailure(b) ==
  LET n == IF b.failureCount >= FailureThreshold THEN FailureThreshold ELSE b.failureCount + 1
  IN  [state |-> IF b.state = "open" \/ n >= FailureThreshold THEN "open" ELSE "closed",
       failureCount |-> n, successCount |-> 0]

\* Mutant: the counter of successes is not advanced while the circuit is open.
RecordSuccess_Forgets(b) ==
  IF b.state = "open" THEN b ELSE [b EXCEPT !.failureCount = 0]

RecordSuccess(b) ==
  IF b.state = "closed" THEN [b EXCEPT !.failureCount = 0]
  ELSE IF b.successCount + 1 >= SuccessThreshold THEN Closed
  ELSE [b EXCEPT !.successCount = @ + 1]
-----------------------------------------------------------------------------
(* What the middleware does with the outcome of a check.                   *)

Nil == [nil |-> TRUE]
Result(allowed, bypassed) == [nil |-> FALSE, allowed |-> allowed, bypassed |-> bypassed]

\* The identifiers whose limits a request is held to.
Held(q) == CASE q.kind \in {"ip", "auth"} -> {q.ip} [] q.kind = "both" -> {q.ip, q.user} [] OTHER -> {q.client}

\* The request ends; what it was, and how it ended, is the last decision.
Decide(r, verdict, degraded, failOpen, bypassed) ==
  LET q == req[r] IN
  /\ last' = [verdict |-> verdict, kind |-> q.kind, ip |-> q.ip, user |-> q.user,
              client |-> q.client, class |-> q.class, limit |-> q.limit, degraded |-> degraded,
              failOpen |-> failOpen, bypassed |-> bypassed,
              open |-> breaker'[BreakerOf(q.kind)].state = "open"]
  /\ served' = IF verdict = "passed" /\ ~failOpen /\ ~bypassed
               THEN [s \in Ids \X Requested |->
                       IF s \in Held(q) \X {q.class} THEN served[s] + 1 ELSE served[s]]
               ELSE served
  /\ req' = [req EXCEPT ![r] = Idle]

\* The next handler runs; for the auth endpoints it has a check of its own.
Serve(r, degraded, failOpen, bypassed) ==
  IF req[r].kind = "auth"
  THEN /\ req' = [req EXCEPT ![r] = [@ EXCEPT !.pc = "handler"]]
       /\ last' = Undecided /\ UNCHANGED served
  ELSE Decide(r, "passed", degraded, failOpen, bypassed)

\* RateLimit, RateLimitAuthenticated and RateLimitClient after their check:
\* an error that is not degraded lets the request pass.
Answer(r, result, degraded, failed) ==
  IF failed /\ ~degraded THEN Serve(r, degraded, TRUE, FALSE)
  ELSE IF result.nil THEN Decide(r, "panic", degraded, FALSE, FALSE)
  ELSE IF ~result.allowed THEN Decide(r, "refused", degraded, FALSE, FALSE)
  ELSE Serve(r, degraded, FALSE, result.bypassed)

\* The end of one tier's check: the primary goes through the breaker, the
\* fallback's outcome is final.  A failed fallback leaves the primary's.
\* Mutant: a failed fallback still counts as degraded service.
TryFallback_Degraded(r, result, failed) ==
  LET q == req[r] IN
  IF failed THEN Answer(r, q.result, TRUE, q.failed) ELSE Answer(r, result, TRUE, q.failed)

TryFallback(r, result, failed) ==
  LET q == req[r] IN
  IF failed THEN Answer(r, q.result, FALSE, q.failed) ELSE Answer(r, result, TRUE, q.failed)

CheckEnds(r, result, failed) ==
  /\ UNCHANGED <<now, up, outages, entries, sweep, breaker, admin>>
  /\ IF req[r].tier = "fallback" THEN TryFallback(r, result, failed)
     ELSE /\ req' = [req EXCEPT ![r] = [@ EXCEPT !.pc = "breaker", !.result = result, !.failed = failed]]
          /\ last' = Undecided /\ UNCHANGED served

\* handlePrimaryFailure and handlePrimarySuccess.
WithCircuitBreaker(r) ==
  LET q == req[r]
      b == BreakerOf(q.kind)
      after == IF q.failed THEN RecordFailure(breaker[b]) ELSE RecordSuccess(breaker[b])
  IN
  /\ q.pc = "breaker"
  /\ breaker' = [breaker EXCEPT ![b] = after]
  /\ IF after.state = "open" /\ Fallback
     THEN /\ req' = [req EXCEPT ![r] = [@ EXCEPT !.pc = "lookup", !.tier = "fallback"]]
          /\ last' = Undecided /\ UNCHANGED served
     ELSE Answer(r, q.result, FALSE, q.failed)
  /\ UNCHANGED <<now, up, outages, used, entries, sweep, admin>>
-----------------------------------------------------------------------------
(* The checks.                                                             *)

\* A request enters the middleware.  The combined check runs before
\* RequireAuth, so the context it reads holds no user.
ContextUser(q) == NilUser

FirstKey(q) == IF q.kind = "client" THEN <<"client", q.client, q.class>> ELSE <<"ip", q.ip, q.class>>
UserKey(q) == <<"user", ContextUser(q), q.class>>

Arrive(r) ==
  /\ req[r] = Idle
  /\ \E kind \in Kinds, ip \in IPs, user \in Users, client \in Clients, class \in Requested :
       req' = [req EXCEPT ![r] =
                 [pc |-> "lookup", kind |-> kind, tier |-> "primary", class |-> class, ip |-> ip,
                  user |-> IF kind = "both" THEN user ELSE NilUser,
                  client |-> IF kind = "client" THEN client ELSE NilUser,
                  at |-> now, bypass |-> FALSE, limit |-> IPLimit, first |-> FALSE,
                  result |-> Nil, failed |-> FALSE]]
  /\ last' = Undecided
  /\ UNCHANGED <<now, up, outages, used, entries, sweep, breaker, admin, served>>

\* The comparison of the in-memory store and that of the query differ at the
\* expiry time itself.
InForceMemory(e, t) == e = Forever \/ t <= e
InForceQuery(e, t) == e = Forever \/ t < e

IsAllowlisted(i, t) ==
  /\ i \in DOMAIN entries /\ entries[i] # None
  /\ IF Memory THEN InForceMemory(entries[i], t) ELSE InForceQuery(entries[i], t)

\* A class without a limit is refused before anything is looked up or charged.
LimitMissing(r) ==
  /\ req[r].pc = "lookup" /\ req[r].kind # "client" /\ req[r].class \notin Configured
  /\ CheckEnds(r, Result(FALSE, FALSE), FALSE)
  /\ UNCHANGED used

Looked(r, bypass, limit) ==
  /\ req' = [req EXCEPT ![r] = [@ EXCEPT !.pc = "charge", !.bypass = bypass, !.limit = limit]]
  /\ last' = Undecided
  /\ UNCHANGED <<now, up, outages, used, entries, sweep, breaker, admin, served>>

\* checkRateLimit: the allowlist is asked; its failure fails the check.
LookupIP(r) ==
  LET q == req[r] IN
  /\ q.pc = "lookup" /\ q.kind \in {"ip", "auth"} /\ q.class \in Configured
  /\ \/ Looked(r, IsAllowlisted(q.ip, q.at), IPLimit)
     \/ ~up /\ CheckEnds(r, Nil, TRUE) /\ UNCHANGED used

\* checkAllowlistStatus: both identifiers are asked and failures are ignored.
LookupBoth(r) ==
  LET q == req[r] IN
  /\ q.pc = "lookup" /\ q.kind = "both" /\ q.class \in Configured
  /\ \E ipErr, userErr \in IF up THEN {FALSE} ELSE BOOLEAN :
       Looked(r, (~ipErr /\ IsAllowlisted(q.ip, q.at))
                 \/ (~userErr /\ IsAllowlisted(ContextUser(q), q.at)), IPLimit)

\* The client's type decides its limit; a failed lookup means public limits,
\* which the fallback client limiter always uses.
LookupClient(r) ==
  LET q == req[r] IN
  /\ q.pc = "lookup" /\ q.kind = "client"
  /\ \/ Looked(r, FALSE, IF q.tier = "primary" /\ q.client \in Confidential
                         THEN ConfidentialLimit ELSE PublicLimit)
     \/ ~up /\ Looked(r, FALSE, PublicLimit)

\* Allow of the bucket store.
Room(tier, k, limit) == used[tier][k] < limit

Allow(tier, k, limit) ==
  used' = [used EXCEPT ![tier][k] = IF Room(tier, k, limit) THEN @ + 1 ELSE @]

StoreFails(q) == q.tier = "primary" /\ ~up

\* The bucket is charged whether or not the identifier is on the allowlist.
Charge(r) ==
  LET q == req[r]
      k == FirstKey(q)
  IN
  /\ q.pc = "charge"
  /\ \/ StoreFails(q) /\ CheckEnds(r, Nil, TRUE) /\ UNCHANGED used
     \/ /\ Allow(q.tier, k, q.limit)
        /\ IF q.kind = "both"
           THEN /\ req' = [req EXCEPT ![r] = [@ EXCEPT !.pc = "charge_user",
                                                       !.first = Room(q.tier, k, q.limit)]]
                /\ last' = Undecided
                /\ UNCHANGED <<now, up, outages, entries, sweep, breaker, admin, served>>
           ELSE CheckEnds(r, Result(q.bypass \/ Room(q.tier, k, q.limit), q.bypass), FALSE)

\* The second half of CheckBoth: both buckets must have had room.
ChargeUser(r) ==
  LET q == req[r]
      k == UserKey(q)
  IN
  /\ q.pc = "charge_user"
  /\ \/ StoreFails(q) /\ CheckEnds(r, Nil, TRUE) /\ UNCHANGED used
     \/ /\ Allow(q.tier, k, UserLimit)
        /\ CheckEnds(r, Result(q.bypass \/ (q.first /\ Room(q.tier, k, UserLimit)), q.bypass), FALSE)

\* The handlers of the auth endpoints ask for the IP limit of class auth
\* again, without breaker; an error lets the request pass.
HandlerCheck(r) ==
  LET q == req[r]
      k == FirstKey(q)
      room == Room("primary", k, IPLimit)
      bypass == IsAllowlisted(q.ip, q.at)
  IN
  /\ q.pc = "handler"
  /\ UNCHANGED <<now, up, outages, entries, sweep, breaker, admin>>
  /\ \/ ~up /\ Decide(r, "passed", FALSE, TRUE, FALSE) /\ UNCHANGED used
     \/ /\ Allow("primary", k, IPLimit)
        /\ Decide(r, IF bypass \/ room THEN "passed" ELSE "refused", FALSE, FALSE, bypass)
-----------------------------------------------------------------------------
(* Administration, clean-up and environment.                               *)

AddToAllowlist(i, e) ==
  /\ "add" \in AdminOps /\ (e = Forever \/ e > now)
  /\ entries' = [entries EXCEPT ![i] = e]
  /\ last' = Undecided
  /\ UNCHANGED <<now, up, outages, used, sweep, breaker, req, admin, served>>

RemoveFromAllowlist(i) ==
  /\ "remove" \in AdminOps /\ entries[i] # None
  /\ entries' = [entries EXCEPT ![i] = None]
  /\ last' = Undecided
  /\ UNCHANGED <<now, up, outages, used, sweep, breaker, req, admin, served>>

\* ResetRateLimit without a class goes through these, one Reset after another.
ResetClasses == <<"auth", "sensitive", "read", "write">>

ResetRateLimit(i) ==
  /\ "reset" \in AdminOps /\ admin.pc # "reset"
  /\ admin' = [pc |-> "reset", key |-> IF i \in IPs THEN "ip" ELSE "user", id |-> i,
               next |-> 1, reset |-> {}]
  /\ last' = Undecided
  /\ UNCHANGED <<now, up, outages, used, entries, sweep, breaker, req, served>>

ResetNext ==
  /\ admin.pc = "reset"
  /\ LET k == <<admin.key, admin.id, ResetClasses[admin.next]>> IN
     \/ /\ used' = [used EXCEPT !["primary"][k] = 0]
        /\ served' = [s \in DOMAIN served |-> IF s = <<k[2], k[3]>> THEN 0 ELSE served[s]]
        /\ admin' = IF admin.next = 4 THEN Quiet
                    ELSE [admin EXCEPT !.next = @ + 1, !.reset = @ \cup {k}]
     \/ ~up /\ admin' = [admin EXCEPT !.pc = "failed"] /\ UNCHANGED <<used, served>>
  /\ last' = Undecided
  /\ UNCHANGED <<now, up, outages, entries, sweep, breaker, req>>

Expired(e, t) == e # None /\ e # Forever /\ (IF Memory THEN t > e ELSE e <= t)

\* RemoveExpiredAt, called by StartCleanup at every tick of its timer.
RemoveExpiredAt ==
  /\ sweep = "running"
  /\ \E i \in DOMAIN entries : Expired(entries[i], now)
  /\ entries' = [i \in DOMAIN entries |-> IF Expired(entries[i], now) THEN None ELSE entries[i]]
  /\ last' = Undecided
  /\ UNCHANGED <<now, up, outages, used, sweep, breaker, req, admin, served>>

\* The Postgres store's StartCleanup returns at the first failed deletion.
StartCleanupReturns ==
  /\ sweep = "running" /\ ~Memory /\ ~up
  /\ sweep' = "stopped"
  /\ last' = Undecided
  /\ UNCHANGED <<now, up, outages, used, entries, breaker, req, admin, served>>

Tick ==
  /\ now < MaxTime /\ now' = now + 1
  /\ last' = Undecided
  /\ UNCHANGED <<up, outages, used, entries, sweep, breaker, req, admin, served>>

\* The window passes: buckets, and the count of what they let through, start
\* again.  A request belongs to the window it arrived in.
NewWindow ==
  /\ \A r \in Req : req[r] = Idle
  /\ \E t \in Tiers, k \in Key : used[t][k] > 0
  /\ used' = [t \in Tiers |-> [k \in Key |-> 0]]
  /\ served' = [i \in Ids \X Requested |-> 0]
  /\ last' = Undecided
  /\ UNCHANGED <<now, up, outages, entries, sweep, breaker, req, admin>>

DatabaseDown ==
  /\ up /\ outages < MaxOutages
  /\ up' = FALSE /\ outages' = outages + 1 /\ last' = Undecided
  /\ UNCHANGED <<now, used, entries, sweep, breaker, req, admin, served>>

DatabaseUp ==
  /\ ~up /\ up' = TRUE /\ last' = Undecided
  /\ UNCHANGED <<now, outages, used, entries, sweep, breaker, req, admin, served>>

Step(r) ==
  \/ LimitMissing(r) \/ LookupIP(r) \/ LookupBoth(r) \/ LookupClient(r)
  \/ Charge(r) \/ ChargeUser(r) \/ WithCircuitBreaker(r) \/ HandlerCheck(r)

Next ==
  \/ \E r \in Req : Arrive(r) \/ Step(r)
  \/ \E i \in IPs \cup Users : \E e \in Expiries \cup {Forever} : AddToAllowlist(i, e)
  \/ \E i \in IPs \cup Users : RemoveFromAllowlist(i)
  \/ \E i \in IPs \cup Users : ResetRateLimit(i)
  \/ ResetNext \/ RemoveExpiredAt \/ StartCleanupReturns
  \/ Tick \/ NewWindow \/ DatabaseDown \/ DatabaseUp

Spec == Init /\ [][Next]_vars

\* Requests keep coming, handlers run, and so does the clean-up goroutine.
Fairness ==
  /\ \A r \in Req : WF_vars(Arrive(r)) /\ WF_vars(Step(r))
  /\ WF_vars(RemoveExpiredAt) /\ WF_vars(DatabaseUp)

FairSpec == Spec /\ Fairness
-----------------------------------------------------------------------------
(* Properties.                                                             *)

InFlight(i) == Cardinality({r \in Req : req[r] # Idle /\ i \in Held(req[r])})
LimitFor(i) == CASE i \in IPs -> IPLimit [] i \in Users -> UserLimit
                 [] i \in Clients -> IF i \in Confidential THEN ConfidentialLimit ELSE PublicLimit

\* The middleware reads the result only when there is one: whatever store,
\* allowlist and fallback do, addRateLimitHeaders never sees a nil result.
ResultNeverNil == last.verdict # "panic"

\* In one window an identifier gets at most what both tiers admit: the limit
\* of the primary, and once more that of the fallback when there is one.
\* Requests let through on an error or by the allowlist are not counted.
ServedWithinLimits ==
  \A i \in IPs \cup Clients, c \in Requested :
    served[<<i, c>>] <= LimitFor(i) + (IF Fallback THEN LimitFor(i) ELSE 0)

\* An identifier is refused only when its limit is used up by requests that
\* were let through, or are being decided: no request is charged twice, and
\* nobody's requests are charged to somebody else.
RefusedAtLimit ==
  last.verdict = "refused" =>
    \/ last.class \notin Configured
    \/ \E i \in Held(last) :
         served[<<i, last.class>>] + InFlight(i) >= IF i \in Users THEN UserLimit ELSE last.limit

\* An expired entry is eventually gone from the allowlist.
\* The code does not keep this statement.
ExpiredRemoved ==
  \A i \in IPs \cup Users : [](Expired(entries[i], now) => <>~Expired(entries[i], now))

\* WithFailClosed: a request is not let through when the limiter is
\* unavailable and no fallback succeeded.
\* The code does not keep this statement.
FailClosedKept == FailClosed /\ last.verdict # "none" => ~last.failOpen

\* When the circuit is open the answer carries X-RateLimit-Status: degraded.
\* The code does not keep this statement.
OpenMeansDegraded == last.verdict # "none" /\ last.open => last.degraded

\* A reset of several keys that fails has reset none of them.
\* The code does not keep this statement.
ResetAtomic == admin.pc = "failed" => admin.reset = {}
=============================================================================
