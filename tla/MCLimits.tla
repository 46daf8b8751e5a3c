------------------------------ MODULE MCLimits ------------------------------
(***************************************************************************)
(* What stands before the handlers: the rate-limit middleware with its     *)
(* breakers and allowlist, the lockout of failed log-ins, and the resolver *)
(* of clients.  They share no state, so one of them, in one scenario, runs *)
(* in each behaviour.                                                      *)
(***************************************************************************)
EXTENDS RequestLimit

CONSTANTS r1, r2, k1, c1, c2

VARIABLES
  part,                                                             \* what runs
  clock, records, heap, attempt, cleanup, cutoff, returned,         \* AuthLockout
  failed,                                                           \* the failed log-ins
  active, since, tenantUp, tenantOutages, changes, state, failureCount, successCount,
  cache, call, answer                                               \* ClientResolver

lockoutVars == <<clock, records, heap, attempt, cleanup, cutoff, returned, failed>>
resolverVars == <<active, since, tenantUp, tenantOutages, changes, state, failureCount,
                  successCount, cache, call, answer>>

\* The middleware without its administration, over the Postgres stores.
Stores == INSTANCE RequestLimit WITH Memory <- FALSE, AdminOps <- {}, MaxTime <- 0

\* Attempts over the in-memory store, whose records are shared.
Pointers == INSTANCE AuthLockout WITH
  Key <- {k1}, Req <- {r1}, AttemptsPerWindow <- 2, HardLockThreshold <- 2,
  CaptchaAfterLockouts <- 1, WindowDuration <- 1, HardLockDuration <- 2, Day <- 3,
  Outcomes <- {"record", "clear"}, Backend <- "memory", Worker <- TRUE, MaxLag <- 1,
  MaxTime <- 4, MaxFailures <- 3, Faults <- FALSE,
  now <- clock, req <- attempt, last <- returned
\* Attempts over Postgres: nobody logs in, and the store answers.
Guesses == INSTANCE AuthLockout WITH
  Key <- {k1}, Req <- {r1, r2}, AttemptsPerWindow <- 2, HardLockThreshold <- 3,
  CaptchaAfterLockouts <- 1, WindowDuration <- 3, HardLockDuration <- 2, Day <- 9,
  Outcomes <- {"record", "none"}, Backend <- "postgres", Worker <- TRUE, MaxLag <- 1,
  MaxTime <- 5, MaxFailures <- 5, Faults <- FALSE,
  now <- clock, req <- attempt, last <- returned

Resolver == INSTANCE ClientResolver WITH
  Client <- {c1, c2}, Req <- {r1}, Unknown <- {c2}, TTL <- 1, MaxCleanup <- 1,
  Outages <- 1, Changes <- 1, MaxLag <- 1,
  up <- tenantUp, outages <- tenantOutages, entries <- cache, req <- call, last <- answer

Middleware == {"ip", "auth", "both", "client"}
ClassesOf == [k \in Middleware |->
                CASE k = "ip" -> {"read", "admin"} [] k = "both" -> {"read"} [] OTHER -> {"auth"}]

\* A scenario of the middleware has the requests of one kind.
Arrivals == \A r \in Req : req'[r] # Idle => req'[r].kind = part /\ req'[r].class \in ClassesOf[part]
\* The allowlist is administered while requests come, one after another.
OneByOne == up' /\ req'[r2] = Idle /\ (req'[r1] # Idle => req'[r1].kind = "ip" /\ req'[r1].class = "auth")

MCInit ==
  /\ part \in Middleware \cup {"allowlist", "pointers", "guesses", "resolver"}
  /\ IF part = "allowlist" THEN Init ELSE Stores!Init
  /\ IF part = "pointers" THEN Pointers!Init ELSE Guesses!Init
  /\ failed = Guesses!NoFailures
  /\ Resolver!Init

MCNext ==
  \/ part = "allowlist" /\ Next /\ OneByOne /\ UNCHANGED <<part, lockoutVars, resolverVars>>
  \/ part \in Middleware /\ Stores!Next /\ Arrivals /\ UNCHANGED <<part, lockoutVars, resolverVars>>
  \/ part = "pointers" /\ Pointers!Next /\ UNCHANGED <<part, failed, vars, resolverVars>>
  \/ /\ part = "guesses" /\ Guesses!Next /\ failed' = Guesses!CountedBy(failed)
     /\ UNCHANGED <<part, vars, resolverVars>>
  \/ part = "resolver" /\ Resolver!Next /\ UNCHANGED <<part, vars, lockoutVars>>

\* The fairness of the parts, each for the scenarios that run it.
MCFairness ==
  /\ \A r \in Req : /\ WF_vars(part \in Middleware /\ Stores!Arrive(r) /\ Arrivals)
                    /\ WF_vars(part \in Middleware /\ Stores!Step(r))
  /\ WF_vars(part \in Middleware /\ Stores!DatabaseUp)
  /\ WF_resolverVars(part = "resolver" /\ Resolver!Step(r1))
  /\ SF_resolverVars(part = "resolver" /\ Resolver!Call(r1, c1))
  /\ WF_resolverVars(part = "resolver" /\ Resolver!Tick)

MCSpec ==
  MCInit /\ [][MCNext]_<<part, vars, lockoutVars, resolverVars>> /\ MCFairness
-----------------------------------------------------------------------------
(* The properties of the parts.                                            *)

\* The variables of the part that runs have their types.
AllTypes ==
  /\ part \in Middleware \cup {"allowlist"} => TypeOK
  /\ part = "pointers" => Pointers!TypeOK
  /\ part = "guesses" => Guesses!TypeOK
  /\ part = "resolver" => Resolver!TypeOK

\* Limits hold through an outage of the stores: no check goes without a result,
\* an identifier gets at most what both tiers admit in a window, a request that
\* is charged once is refused only at its limit, and log-ins beyond the limit are
\* those that were under way when it was reached.
LimitsKept ==
  /\ AllTypes
  /\ part \in Middleware \cup {"allowlist"} => ResultNeverNil
  /\ part \in Middleware => ServedWithinLimits
  /\ part = "ip" => RefusedAtLimit
  /\ part = "pointers" => Pointers!OvershootBounded
  /\ part = "guesses" => Guesses!OvershootBounded

\* Once the database is up for good the circuit of the requests that come closes,
\* and so does the circuit before the tenant service once that is up.
CircuitsClose ==
  /\ <>[](part \in Middleware /\ up) =>
       <>[](part \in Middleware /\ breaker[BreakerOf(part)].state = "closed")
  /\ part = "resolver" => Resolver!CircuitCloses

\* In a window no more log-ins fail than the limit allows and were under way.
WindowKept == part = "guesses" => Guesses!WindowKept(failed)
=============================================================================
