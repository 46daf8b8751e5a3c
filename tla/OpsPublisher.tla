----------------------------- MODULE OpsPublisher -----------------------------
(***************************************************************************)
(* The fire-and-forget publisher of operational audit events: Track samples*)
(* the event, asks the circuit breaker, and writes the event in a goroutine*)
(* that reports success or failure to the breaker.                         *)
(*                                                                         *)
(* Each call of Track is an event of its own; its goroutine may report long*)
(* after others.  rand.Float64() is in [0, 1): an event is kept for sure at*)
(* rate 1, never at rate 0, and either way in between ("some").            *)
(***************************************************************************)
EXTENDS Integers, FiniteSets

CONSTANTS
  Events,         \* calls of Track
  Actions,        \* actions of the events
  Threshold, Cooldown,
  MaxTime,        \* bound
  Operated,       \* rates are changed and the circuit is reset by hand
  StoreSick       \* the store may fail

ASSUME OpsAssumption ==
  /\ Threshold \in Nat \ {0} /\ Cooldown \in Nat \ {0} /\ MaxTime \in Nat
  /\ {Operated, StoreSick} \subseteq BOOLEAN

VARIABLES
  now,
  failures, openUntil, isOpen,           \* CircuitBreaker
  defaultRate, rateByAction,             \* Sampler
  call,                                  \* where each call of Track is
  opened,                                \* history: the last failure that opened the circuit, if nothing closed it since
  streak,                                \* history: failures since the circuit was last closed or a success
  probes                                 \* history: events let through after a cooldown before one of them reported

vars == <<now, failures, openUntil, isOpen, defaultRate, rateByAction, call, opened, streak, probes>>
breaker == <<failures, openUntil, isOpen>>
sampler == <<defaultRate, rateByAction>>
-----------------------------------------------------------------------------

Rates == {"none", "some", "all"}
NoRate == "default"
NotOpened == [at |-> 0, open |-> FALSE]
States == {"new", "allow", "expired", "persist", "tracked", "sampled", "breaker", "failed"}

\* A circuit is open only after Threshold failures, and openUntil is a cooldown
\* after a time that has been.
TypeOK ==
  /\ now \in 0 .. MaxTime
  /\ failures \in 0 .. Cardinality(Events) /\ isOpen \in BOOLEAN
  /\ openUntil \in {0} \cup Cooldown .. now + Cooldown
  /\ isOpen => failures >= Threshold
  /\ defaultRate \in Rates /\ rateByAction \in [Actions -> Rates \cup {NoRate}]
  /\ call \in [Events -> [pc : States, action : Actions]]
  /\ opened \in [at : 0 .. MaxTime, open : BOOLEAN] /\ streak \in 0 .. Cardinality(Events)
  /\ probes \subseteq Events

NewCircuitBreaker == failures = 0 /\ openUntil = 0 /\ isOpen = FALSE
NewSampler == defaultRate \in {"some", "all"} /\ rateByAction = [a \in Actions |-> NoRate]

Init ==
  /\ now = 0
  /\ NewCircuitBreaker
  /\ NewSampler
  /\ call \in [Events -> [pc : {"new"}, action : Actions]]
  /\ opened = NotOpened /\ streak = 0 /\ probes = {}
-----------------------------------------------------------------------------
(* sampler.go                                                              *)

rateFor(a) == IF rateByAction[a] = NoRate THEN defaultRate ELSE rateByAction[a]

\* What ShouldSample may answer.
ShouldSample(a) ==
  CASE rateFor(a) = "none" -> {FALSE}
    [] rateFor(a) = "all" -> {TRUE}
    [] OTHER -> BOOLEAN

SetRate ==
  /\ Operated
  /\ \E a \in Actions, r \in Rates : rateByAction' = [rateByAction EXCEPT ![a] = r]
  /\ UNCHANGED <<now, breaker, defaultRate, call, opened, streak, probes>>

SetDefaultRate ==
  /\ Operated
  /\ \E r \in Rates : defaultRate' = r
  /\ UNCHANGED <<now, breaker, rateByAction, call, opened, streak, probes>>
-----------------------------------------------------------------------------
(* circuitbreaker.go                                                       *)

cooldownOver == now > openUntil

\* The transition of Allow, taken under the write lock.
HalfOpen == isOpen' = FALSE /\ failures' = 0 /\ UNCHANGED openUntil

RecordSuccess == failures' = 0 /\ isOpen' = FALSE /\ UNCHANGED openUntil

RecordFailure ==
  /\ failures' = failures + 1
  /\ IF failures' >= Threshold
     THEN isOpen' = TRUE /\ openUntil' = now + Cooldown
     ELSE UNCHANGED <<isOpen, openUntil>>

Reset ==
  /\ Operated
  /\ failures' = 0 /\ isOpen' = FALSE
  /\ opened' = NotOpened /\ streak' = 0 /\ probes' = {}
  /\ UNCHANGED <<now, openUntil, sampler, call>>
-----------------------------------------------------------------------------
(* publisher.go                                                            *)

Goto(e, pc) == call' = [call EXCEPT ![e].pc = pc]

Track(e) ==
  /\ call[e].pc = "new"
  /\ \E keep \in ShouldSample(call[e].action) : Goto(e, IF keep THEN "allow" ELSE "sampled")
  /\ UNCHANGED <<now, breaker, sampler, opened, streak, probes>>

LetThrough(e) ==
  Goto(e, "persist") /\ probes' = IF probes = {} THEN {} ELSE probes \cup {e}

\* Allow under the read lock.
AllowRead(e) ==
  /\ call[e].pc = "allow"
  /\ CASE ~isOpen                 -> LetThrough(e)
       [] isOpen /\ cooldownOver  -> Goto(e, "expired") /\ UNCHANGED probes
       [] isOpen /\ ~cooldownOver -> Goto(e, "breaker") /\ UNCHANGED probes
  /\ UNCHANGED <<now, breaker, sampler, opened, streak>>

\* Mutant: no second look under the write lock.
AllowWrite_NoRecheck(e) ==
  /\ call[e].pc = "expired"
  /\ HalfOpen /\ LetThrough(e) /\ streak' = 0 /\ UNCHANGED opened
  /\ UNCHANGED <<now, sampler>>

\* Allow under the write lock: the circuit may have been closed, or opened
\* anew, since the read lock was released.
AllowWrite(e) ==
  /\ call[e].pc = "expired"
  /\ CASE isOpen /\ cooldownOver ->
            HalfOpen /\ Goto(e, "persist") /\ probes' = {e} /\ opened' = NotOpened /\ streak' = 0
       [] ~isOpen -> LetThrough(e) /\ UNCHANGED <<breaker, opened, streak>>
       [] OTHER   -> Goto(e, "breaker") /\ UNCHANGED <<breaker, opened, streak, probes>>
  /\ UNCHANGED <<now, sampler>>

\* persist, and what it reports to the breaker.
PersistOk(e) ==
  /\ call[e].pc = "persist"
  /\ RecordSuccess
  /\ Goto(e, "tracked")
  /\ opened' = NotOpened /\ streak' = 0 /\ probes' = {}
  /\ UNCHANGED <<now, sampler>>

PersistFails(e) ==
  /\ StoreSick
  /\ call[e].pc = "persist"
  /\ RecordFailure
  /\ Goto(e, "failed")
  /\ opened' = IF isOpen' THEN [at |-> now, open |-> TRUE] ELSE opened
  /\ streak' = streak + 1
  /\ probes' = IF e \in probes THEN {} ELSE probes
  /\ UNCHANGED <<now, sampler>>

Tick ==
  /\ now < MaxTime
  /\ now' = now + 1
  /\ UNCHANGED <<breaker, sampler, call, opened, streak, probes>>

Next ==
  \/ Tick \/ SetRate \/ SetDefaultRate \/ Reset
  \/ \E e \in Events :
       Track(e) \/ AllowRead(e) \/ AllowWrite(e) \/ PersistOk(e) \/ PersistFails(e)

Spec == Init /\ [][Next]_vars

\* Goroutines are scheduled and the store answers.
FairSpec ==
  /\ Spec
  /\ \A e \in Events :
       WF_vars(Track(e) \/ AllowRead(e) \/ AllowWrite(e) \/ PersistOk(e) \/ PersistFails(e))
-----------------------------------------------------------------------------
(* properties                                                              *)

\* No event is let through within the cooldown of the last failure that opened
\* the circuit, unless a success has closed it or it was reset since: the check
\* under the read lock is repeated under the write lock (Allow).
CooldownHolds ==
  [][\A e \in Events :
       call[e].pc # "persist" /\ call'[e].pc = "persist" =>
         opened = NotOpened \/ now > opened.at + Cooldown]_vars

\* The circuit opens on Threshold failures in a row: failures from before a
\* success, a cooldown or a reset do not count ("number of consecutive failures
\* to open the circuit").
ConsecutiveFailures == [][~isOpen /\ isOpen' => streak' = Threshold]_vars

\* After the cooldown a single event goes through until it has reported
\* ("Transition to half-open - allow one request through").
\* The code does not keep this statement.
OneProbe == Cardinality(probes) <= 1

\* An action with a rate of its own is sampled by it, whatever the default:
\* rate 1 keeps every event and rate 0 none.
OverrideApplies ==
  [][\A e \in Events :
       call[e].pc = "new" /\ call'[e].pc # "new" =>
         /\ rateByAction[call[e].action] = "all" => call'[e].pc = "allow"
         /\ rateByAction[call[e].action] = "none" => call'[e].pc = "sampled"]_vars
=============================================================================
