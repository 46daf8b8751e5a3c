-------------------------- MODULE OpsPublisherProofs --------------------------
(***************************************************************************)
(* Proofs about OpsPublisher for any number of events, threshold and       *)
(* cooldown.                                                               *)
(***************************************************************************)
EXTENDS OpsPublisher, TLAPS

Types ==
  /\ now \in Nat
  /\ failures \in Nat /\ isOpen \in BOOLEAN /\ openUntil \in Nat
  /\ rateByAction \in [Actions -> Rates \cup {NoRate}]
  /\ call \in [Events -> [pc : States, action : Actions]]
  /\ opened \in [at : Nat, open : BOOLEAN] /\ streak \in Nat

\* The breaker counts the failures of the streak; it is open exactly when they
\* reach the threshold, and then until a cooldown after the last of them.  The
\* history of the opening is kept just as long.
BreakerInv ==
  /\ streak = failures
  /\ isOpen <=> failures >= Threshold
  /\ isOpen => opened.open /\ openUntil = opened.at + Cooldown
  /\ ~isOpen => opened = NotOpened

Inv == Types /\ BreakerInv
-----------------------------------------------------------------------------

\* The value for a circuit that never opened has its type.
LEMMA NotOpenedType == NotOpened \in [at : Nat, open : BOOLEAN]
BY DEF NotOpened

\* The invariant holds at the start.
LEMMA InitInv == Init => Inv
<1>. SUFFICES ASSUME Init PROVE Inv
  OBVIOUS
<1>1. call \in [Events -> [pc : States, action : Actions]]
  BY Zenon DEF Init, States
<1>2. rateByAction \in [Actions -> Rates \cup {NoRate}]
  BY Zenon DEF Init, NewSampler
<1>3. failures = 0 /\ openUntil = 0 /\ isOpen = FALSE /\ now = 0 /\ streak = 0 /\ opened = NotOpened
  BY Zenon DEF Init, NewCircuitBreaker
<1>4. Types
  BY <1>1, <1>2, <1>3, NotOpenedType, Zenon DEF Types
<1>5. BreakerInv
  BY <1>3, OpsAssumption DEF BreakerInv
<1>. QED
  BY <1>4, <1>5, Zenon DEF Inv

\* The moves of one call between its states.
LEMMA GotoType ==
  ASSUME Types, NEW e \in Events, NEW pc \in States, Goto(e, pc)
  PROVE  /\ call' \in [Events -> [pc : States, action : Actions]]
         /\ call'[e].pc = pc /\ \A d \in Events : d # e => call'[d] = call[d]
BY DEF Types, Goto

\* A success, a reset, and the end of a cooldown close the circuit.
LEMMA ClosedInv ==
  ASSUME Inv, now' = now, failures' = 0, isOpen' = FALSE, openUntil' = openUntil, rateByAction' = rateByAction,
         call' \in [Events -> [pc : States, action : Actions]], opened' = NotOpened, streak' = 0
  PROVE  Inv'
<1>1. Types'
  BY NotOpenedType, Zenon DEF Inv, Types
<1>2. BreakerInv'
  BY OpsAssumption DEF BreakerInv
<1>. QED
  BY <1>1, <1>2, Zenon DEF Inv

\* Every step keeps the invariant.
LEMMA InvStep == Inv /\ [Next]_vars => Inv'
<1>. SUFFICES ASSUME Inv, [Next]_vars PROVE Inv'
  OBVIOUS
<1>. USE OpsAssumption
<1>1. CASE Tick
  BY <1>1 DEF Tick, breaker, sampler, Inv, Types, BreakerInv
<1>2. CASE SetRate
  BY <1>2 DEF SetRate, breaker, Inv, Types, BreakerInv
<1>3. CASE SetDefaultRate
  BY <1>3, Zenon DEF SetDefaultRate, breaker, Inv, Types, BreakerInv
<1>4. CASE Reset
  BY <1>4, ClosedInv, Zenon DEF Reset, sampler, Inv, Types
<1>5. ASSUME NEW e \in Events, Track(e) PROVE Inv'
  <2>1. call' \in [Events -> [pc : States, action : Actions]]
    <3>1. PICK keep \in ShouldSample(call[e].action) : Goto(e, IF keep THEN "allow" ELSE "sampled")
      BY <1>5, Zenon DEF Track
    <3>2. CASE keep
      BY <3>1, <3>2, GotoType, Zenon DEF Inv, States
    <3>3. CASE ~keep
      BY <3>1, <3>3, GotoType, Zenon DEF Inv, States
    <3>. QED
      BY <3>2, <3>3
  <2>. QED
    BY <1>5, <2>1, Zenon DEF Track, breaker, sampler, Inv, Types, BreakerInv
<1>6. ASSUME NEW e \in Events, AllowRead(e) PROVE Inv'
  <2>1. \E pc \in {"persist", "expired", "breaker"} : Goto(e, pc)
    BY <1>6, Zenon DEF AllowRead, LetThrough
  <2>2. call' \in [Events -> [pc : States, action : Actions]]
    BY <2>1, GotoType, Zenon DEF Inv, States
  <2>. QED
    BY <1>6, <2>2, Zenon DEF AllowRead, breaker, sampler, Inv, Types, BreakerInv
<1>7. ASSUME NEW e \in Events, AllowWrite(e) PROVE Inv'
  <2>1. \E pc \in {"persist", "breaker"} : Goto(e, pc)
    BY <1>7, Zenon DEF AllowWrite, LetThrough
  <2>2. call' \in [Events -> [pc : States, action : Actions]]
    BY <2>1, GotoType, Zenon DEF Inv, States
  <2>3. CASE isOpen /\ cooldownOver
    BY <1>7, <2>2, <2>3, ClosedInv, Zenon DEF AllowWrite, HalfOpen, sampler
  <2>4. CASE ~(isOpen /\ cooldownOver)
    BY <1>7, <2>2, <2>4, Zenon DEF AllowWrite, breaker, sampler, Inv, Types, BreakerInv
  <2>. QED
    BY <2>3, <2>4
<1>8. ASSUME NEW e \in Events, PersistOk(e) PROVE Inv'
  <2>1. call' \in [Events -> [pc : States, action : Actions]]
    BY <1>8, GotoType, Zenon DEF PersistOk, Inv, States
  <2>. QED
    BY <1>8, <2>1, ClosedInv, Zenon DEF PersistOk, RecordSuccess, sampler
<1>9. ASSUME NEW e \in Events, PersistFails(e) PROVE Inv'
  <2>1. call' \in [Events -> [pc : States, action : Actions]]
    BY <1>9, GotoType, Zenon DEF PersistFails, Inv, States
  <2>2. failures' = failures + 1 /\ streak' = streak + 1 /\ UNCHANGED <<now, defaultRate, rateByAction>>
    BY <1>9, Zenon DEF PersistFails, RecordFailure, sampler
  <2>3. CASE failures + 1 >= Threshold
    <3>1. isOpen' = TRUE /\ openUntil' = now + Cooldown /\ opened' = [at |-> now, open |-> TRUE]
      BY <1>9, <2>2, <2>3, Zenon DEF PersistFails, RecordFailure
    <3>. QED
      BY <2>1, <2>2, <2>3, <3>1 DEF Inv, Types, BreakerInv
  <2>4. CASE ~(failures + 1 >= Threshold)
    <3>1. UNCHANGED <<isOpen, openUntil>> /\ ~isOpen
      BY <1>9, <2>2, <2>4 DEF PersistFails, RecordFailure, Inv, Types, BreakerInv
    <3>2. opened' = opened
      BY <1>9, <3>1, Zenon DEF PersistFails
    <3>. QED
      BY <2>1, <2>2, <2>4, <3>1, <3>2 DEF Inv, Types, BreakerInv
  <2>. QED
    BY <2>3, <2>4
<1>10. CASE UNCHANGED vars
  BY <1>10, Zenon DEF vars, Inv, Types, BreakerInv
<1>. QED
  BY <1>1, <1>2, <1>3, <1>4, <1>5, <1>6, <1>7, <1>8, <1>9, <1>10, Zenon DEF Next

\* The inductive invariant of the circuit breaker holds in every state.
THEOREM InvHolds == Spec => []Inv
BY InitInv, InvStep, PTL DEF Spec
-----------------------------------------------------------------------------
(* what a step may never do                                                *)

\* Only Allow lets a call through, and only the goroutine's failure opens the
\* circuit.
LEMMA LetThroughBy ==
  ASSUME Inv, Next, NEW e \in Events, call[e].pc # "persist", call'[e].pc = "persist"
  PROVE  (AllowRead(e) /\ ~isOpen) \/ (AllowWrite(e) /\ (~isOpen \/ cooldownOver))
<1>1. ASSUME NEW d \in Events, NEW pc \in States, Goto(d, pc)
      PROVE  pc = "persist" /\ d = e
  BY <1>1, GotoType, Zenon DEF Inv
<1>2. call' # call
  OBVIOUS
<1>3. ~(Tick \/ SetRate \/ SetDefaultRate \/ Reset)
  BY <1>2, Zenon DEF Tick, SetRate, SetDefaultRate, Reset
<1>4. ASSUME NEW d \in Events PROVE ~Track(d) /\ ~PersistOk(d) /\ ~PersistFails(d)
  <2>1. ~Track(d)
    <3>. SUFFICES ASSUME Track(d) PROVE FALSE
      OBVIOUS
    <3>1. \E pc \in {"allow", "sampled"} : Goto(d, pc)
      BY Zenon DEF Track
    <3>. QED
      BY <1>1, <3>1, Zenon DEF States
  <2>2. ~PersistOk(d) /\ ~PersistFails(d)
    BY <1>1, Zenon DEF PersistOk, PersistFails, States
  <2>. QED
    BY <2>1, <2>2
<1>5. ASSUME NEW d \in Events, AllowRead(d) PROVE d = e /\ ~isOpen
  <2>1. CASE isOpen
    <3>1. \E pc \in {"expired", "breaker"} : Goto(d, pc)
      BY <1>5, <2>1, Zenon DEF AllowRead
    <3>. QED
      BY <1>1, <3>1, Zenon DEF States
  <2>2. CASE ~isOpen
    BY <1>1, <1>5, <2>2, Zenon DEF AllowRead, LetThrough, States
  <2>. QED
    BY <2>1, <2>2
<1>6. ASSUME NEW d \in Events, AllowWrite(d) PROVE d = e /\ (~isOpen \/ cooldownOver)
  <2>1. CASE isOpen /\ ~cooldownOver
    <3>1. Goto(d, "breaker")
      BY <1>6, <2>1, Zenon DEF AllowWrite
    <3>. QED
      BY <1>1, <3>1, Zenon DEF States
  <2>2. CASE ~isOpen \/ cooldownOver
    <3>1. Goto(d, "persist")
      BY <1>6, <2>2, Zenon DEF AllowWrite, LetThrough
    <3>. QED
      BY <1>1, <2>2, <3>1, Zenon DEF States
  <2>. QED
    BY <2>1, <2>2
<1>. QED
  BY <1>3, <1>4, <1>5, <1>6, Zenon DEF Next

\* No event goes to the store within the cooldown of the failure that opened
\* the circuit: the state that Allow read under the read lock may be stale, and
\* the second look under the write lock decides.
THEOREM CooldownKept == Spec => CooldownHolds
<1>1. Inv /\ [Next]_vars =>
        [\A e \in Events :
           call[e].pc # "persist" /\ call'[e].pc = "persist" =>
             opened = NotOpened \/ now > opened.at + Cooldown]_vars
  <2>. SUFFICES ASSUME Inv, Next, NEW e \in Events, call[e].pc # "persist", call'[e].pc = "persist",
                       opened # NotOpened
                PROVE  now > opened.at + Cooldown
    OBVIOUS
  <2>1. isOpen /\ openUntil = opened.at + Cooldown
    BY Zenon DEF Inv, BreakerInv
  <2>2. cooldownOver
    BY <2>1, LetThroughBy
  <2>. QED
    BY <2>1, <2>2, Zenon DEF cooldownOver
<1>. QED
  BY <1>1, InvHolds, PTL DEF Spec, CooldownHolds

\* The circuit opens on exactly Threshold failures since a success, a reset or
\* the end of a cooldown, although the goroutines report in any order.
THEOREM OpensOnStreak == Spec => ConsecutiveFailures
<1>1. Inv /\ Inv' /\ [Next]_vars => [~isOpen /\ isOpen' => streak' = Threshold]_vars
  <2>. SUFFICES ASSUME Inv, Inv', Next, ~isOpen, isOpen' PROVE streak' = Threshold
    OBVIOUS
  <2>1. failures' <= failures + 1
    <3>1. failures' \in {0, failures, failures + 1}
      BY Zenon DEF Next, Tick, SetRate, SetDefaultRate, Reset, Track, AllowRead, AllowWrite, PersistOk, PersistFails,
             HalfOpen, RecordSuccess, RecordFailure, breaker
    <3>. QED
      BY <3>1 DEF Inv, Types
  <2>. QED
    BY <2>1, OpsAssumption DEF Inv, Types, BreakerInv
<1>. QED
  BY <1>1, InvHolds, PTL DEF Spec, ConsecutiveFailures

\* An action with a rate of its own is sampled by that rate, whatever the
\* default rate is changed to.
THEOREM OverrideKept == Spec => OverrideApplies
<1>1. Inv /\ [Next]_vars =>
        [\A e \in Events :
           call[e].pc = "new" /\ call'[e].pc # "new" =>
             /\ rateByAction[call[e].action] = "all" => call'[e].pc = "allow"
             /\ rateByAction[call[e].action] = "none" => call'[e].pc = "sampled"]_vars
  <2>. SUFFICES ASSUME Inv, Next, NEW e \in Events, call[e].pc = "new", call'[e].pc # "new"
                PROVE  /\ rateByAction[call[e].action] = "all" => call'[e].pc = "allow"
                       /\ rateByAction[call[e].action] = "none" => call'[e].pc = "sampled"
    OBVIOUS
  <2>1. ASSUME NEW d \in Events, NEW pc \in States, Goto(d, pc), d # e PROVE FALSE
    BY <2>1, GotoType, Zenon DEF Inv
  <2>2. ~(Tick \/ SetRate \/ SetDefaultRate \/ Reset)
    BY Zenon DEF Tick, SetRate, SetDefaultRate, Reset
  <2>3. ASSUME NEW d \in Events, AllowRead(d) \/ AllowWrite(d) \/ PersistOk(d) \/ PersistFails(d) PROVE FALSE
    <3>1. d # e
      BY <2>3, Zenon DEF AllowRead, AllowWrite, PersistOk, PersistFails
    <3>2. \E pc \in {"persist", "expired", "breaker", "tracked", "failed"} : Goto(d, pc)
      BY <2>3, Zenon DEF AllowRead, AllowWrite, PersistOk, PersistFails, LetThrough
    <3>. QED
      BY <2>1, <3>1, <3>2, Zenon DEF States
  <2>4. PICK d \in Events : Track(d)
    BY <2>2, <2>3, Zenon DEF Next
  <2>5. PICK keep \in ShouldSample(call[d].action) : Goto(d, IF keep THEN "allow" ELSE "sampled")
    BY <2>4, Zenon DEF Track
  <2>6. d = e
    <3>1. \E pc \in {"allow", "sampled"} : Goto(d, pc)
      BY <2>5
    <3>. QED
      BY <2>1, <3>1, Zenon DEF States
  <2>7. CASE rateByAction[call[e].action] = "all"
    <3>1. keep
      BY <2>5, <2>6, <2>7, Zenon DEF ShouldSample, rateFor, NoRate
    <3>. QED
      BY <2>5, <2>6, <2>7, <3>1, GotoType, Zenon DEF Inv, States
  <2>8. CASE rateByAction[call[e].action] = "none"
    <3>1. ~keep
      BY <2>5, <2>6, <2>8, Zenon DEF ShouldSample, rateFor, NoRate
    <3>. QED
      BY <2>5, <2>6, <2>8, <3>1, GotoType, Zenon DEF Inv, States
  <2>. QED
    BY <2>7, <2>8
<1>. QED
  BY <1>1, InvHolds, PTL DEF Spec, OverrideApplies
=============================================================================
