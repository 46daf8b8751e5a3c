------------------------- MODULE GlobalThrottleProofs -------------------------
(***************************************************************************)
(* The bounds of the global throttle, for any requests, limits and lengths *)
(* of an hour, in both stores.                                             *)
(***************************************************************************)
EXTENDS GlobalThrottle, FiniteSetTheorems, TLAPS

RequestSet == [pc : PCs, at : Time, seen : Time, own : [Windows -> Nat]]
OnRows == {"idle", "start", "second_row", "rows", "allowed", "blocked", "error"}
Decided == {"idle", "allowed", "blocked", "error"}

\* The number of requests beside one.
Others == Cardinality(Req) - 1

\* Requests that the second has counted and the hour has not decided.
Held == {r \in Req : req[r].pc \in {"hour_inc", "undo"}}

\* Program counters belong to their store.
OwnSteps ==
  \A r \in Req :
    /\ req[r].pc \in {"second_row", "rows"} => Backend = "postgres"
    /\ Backend = "postgres" => req[r].pc \in OnRows

\* A roll-back takes one from the counter and one request from those held, a
\* reset finds at most Others of them.
CountInv ==
  /\ \A w \in Windows : count[w] <= limit[w] /\ (Backend = "postgres" => count[w] >= 0)
  /\ count["hour"] >= 0 /\ count["second"] >= Cardinality(Held) - Others
  /\ \A r \in Req, w \in Windows : req[r].own[w] <= limit[w]

Base == TypeOK /\ OwnSteps /\ CountInv
-----------------------------------------------------------------------------
(* Requests that are decided in the second they came in.                   *)

Punctual == \A r \in Req : req[r].pc \notin Decided => req[r].at = now

\* Nothing was admitted in a bucket later than the current one.
Past ==
  \A w \in Windows :
    /\ bucket[w] <= Current(w, now)
    /\ \A t \in Time : t > bucket[w] => admitted[w][t] = 0

\* Where a request stands that has passed the CompareAndSwap of a window, is
\* about to try it, and has won it.
Passed(w) == IF w = "second"
             THEN {"second_zero", "hour_load", "hour_cas", "hour_zero", "second_inc", "hour_inc", "undo"}
             ELSE {"hour_zero", "second_inc", "hour_inc", "undo"}
Trying(w) == IF w = "second" THEN "second_cas" ELSE "hour_cas"
Winning(w) == IF w = "second" THEN "second_zero" ELSE "hour_zero"

\* The bucket of a window is claimed once.
Claims(w, r) ==
  /\ req[r].pc \in Passed(w) => bucket[w] = Current(w, now)
  /\ req[r].pc = Trying(w) => /\ req[r].seen # Current(w, now)
                              /\ bucket[w] \in {req[r].seen, Current(w, now)}
  /\ req[r].pc = Winning(w) => \A q \in Req : req[q].pc = Winning(w) => q = r

\* What was admitted and is not in the counter: nothing of this window before
\* the reset but for a counter that started below zero, and the limit after it.
Uncounted(w) == IF \E r \in Req : req[r].pc = Winning(w) THEN 0 ELSE limit[w]
Accounts ==
  /\ admitted["hour"][bucket["hour"]] - count["hour"] <= Uncounted("hour")
  /\ admitted["second"][bucket["second"]] + Cardinality(Held) - count["second"]
       <= Others + Uncounted("second")

MemoryInv == /\ Punctual /\ Past /\ Accounts /\ AtMostTwice
             /\ \A w \in Windows, r \in Req : Claims(w, r)

\* A transaction holds the rows it has read, as it has read them.
RowOf(r) ==
  /\ req[r].pc \in {"second_row", "rows"} =>
       /\ lock["second"] = r
       /\ req[r].own["second"] = ensureBucketCurrent("second", Current("second", now))
  /\ req[r].pc = "rows" =>
       /\ lock["hour"] = r
       /\ req[r].own["hour"] = ensureBucketCurrent("hour", Current("hour", now))

RowsInv == /\ Punctual /\ Past /\ RowsWithinLimit
           /\ \A w \in Windows : updateBucket(admitted[w][bucket[w]]) <= count[w]
           /\ \A r \in Req : RowOf(r)

Inv ==
  /\ Base
  /\ MaxLag = 0 /\ Backend = "memory" => MemoryInv
  /\ MaxLag = 0 /\ Backend = "postgres" => RowsInv
-----------------------------------------------------------------------------
(* Operators.                                                              *)

\* Division and product, as far as they are needed.
LEMMA DivFacts ==
  ASSUME NEW m \in Nat \ {0}, NEW x \in Nat
  PROVE  x \div m \in Nat /\ m * (x \div m) <= x /\ x < m * (x \div m) + m
OBVIOUS

\* A product grows with its factor.
LEMMA ProductFacts ==
  ASSUME NEW m \in Nat, NEW a \in Nat, NEW b \in Nat
  PROVE  m * a \in Nat /\ m * (b + 1) = m * b + m /\ (a >= b + 1 => m * a >= m * (b + 1))
<1>1. m * a \in Nat /\ m * (b + 1) = m * b + m
  OBVIOUS
<1>2. a >= b + 1 => m * (a - (b + 1)) >= 0
  OBVIOUS
<1>3. m * (a - (b + 1)) = m * a - m * (b + 1)
  OBVIOUS
<1>4. QED
  BY <1>1, <1>2, <1>3

\* A window starts at a multiple of its length, no later than now.
LEMMA CurrentFacts ==
  ASSUME NEW w \in Windows, NEW t \in Time
  PROVE  /\ Current(w, t) \in Time /\ Current(w, t) <= t
         /\ \A u \in Time : t <= u => Current(w, t) <= Current(w, u)
<1>1. CASE w = "second"
  BY <1>1, ThrottleAssumption DEF Time, Current
<1>2. CASE w # "second"
  <2> DEFINE q(x) == x \div HourLen
             p(x) == HourLen * q(x)
  <2>1. HourLen \in Nat \ {0} /\ Time \subseteq Nat /\ MaxTime \in Nat
    BY ThrottleAssumption DEF Time
  <2>2. \A x \in Time : q(x) \in Nat /\ p(x) <= x /\ x < p(x) + HourLen
    BY <2>1, DivFacts
  <2>3. \A x \in Time : Current(w, x) = p(x)
    BY <1>2, Zenon DEF Current
  <2> HIDE DEF q
  <2>4. \A x \in Time : p(x) \in Nat
    BY <2>1, <2>2, ProductFacts
  <2>5. \A u \in Time : q(t) >= q(u) + 1 => p(t) >= p(u) + HourLen
    BY <2>1, <2>2, ProductFacts
  <2>6. \A u \in Time : ~(q(t) >= q(u) + 1) => p(t) <= p(u)
    <3>1. TAKE u \in Time
    <3>2. HAVE ~(q(t) >= q(u) + 1)
    <3>3. q(t) = q(u) \/ q(u) >= q(t) + 1
      BY <2>2, <3>2
    <3>4. q(u) >= q(t) + 1 => p(u) >= p(t) + HourLen
      BY <2>1, <2>2, ProductFacts
    <3>5. QED
      BY <2>1, <2>4, <3>3, <3>4
  <2> HIDE DEF p
  <2>7. QED
    BY <2>1, <2>2, <2>3, <2>4, <2>5, <2>6 DEF Time
<1>3. QED
  BY <1>1, <1>2

\* Limits are positive.
LEMMA LimitFacts == \A w \in Windows : limit[w] \in Nat /\ limit[w] >= 1
BY ThrottleAssumption DEF limit, Windows

\* The requests held are finitely many, at most Others if one is not among them,
\* and a step of one request adds it or takes it away.
LEMMA HeldFacts ==
  ASSUME NEW r \in Req, \A q \in Req \ {r} : req'[q] = req[q]
  PROVE  /\ Cardinality(Held) \in Nat /\ Cardinality(Held)' \in Nat /\ Others \in Nat
         /\ req[r].pc \notin {"hour_inc", "undo"} => Cardinality(Held) <= Others
         /\ Cardinality(Held)' = Cardinality(Held)
              + (IF req'[r].pc \in {"hour_inc", "undo"} THEN 1 ELSE 0)
              - (IF req[r].pc \in {"hour_inc", "undo"} THEN 1 ELSE 0)
<1> DEFINE rest == Held \ {r}
<1>1. IsFiniteSet(Req) /\ Req # {} /\ Cardinality(Req) \in Nat /\ Cardinality(Req) # 0
  BY ThrottleAssumption, FS_CardinalityType, FS_EmptySet
<1>2. IsFiniteSet(Held) /\ IsFiniteSet(rest) /\ Cardinality(Held) \in Nat /\ Cardinality(rest) \in Nat
  BY <1>1, FS_Subset, FS_CardinalityType, Zenon DEF Held
<1>3. IsFiniteSet(Req \ {r}) /\ Cardinality(Req \ {r}) = Cardinality(Req) - 1
  BY <1>1, FS_RemoveElement
<1>4. Cardinality(rest) <= Others
  BY <1>3, FS_Subset DEF Held, Others
<1>5. Held = IF req[r].pc \in {"hour_inc", "undo"} THEN rest \cup {r} ELSE rest
  BY Zenon DEF Held
<1>6. Held' = IF req'[r].pc \in {"hour_inc", "undo"} THEN rest \cup {r} ELSE rest
  BY Zenon DEF Held
<1>7. Cardinality(rest \cup {r}) = Cardinality(rest) + 1
  BY <1>2, FS_AddElement
<1> HIDE DEF rest
<1>8. QED
  BY <1>1, <1>2, <1>4, <1>5, <1>6, <1>7 DEF Others
-----------------------------------------------------------------------------
(* Steps of a request.                                                     *)

\* Only the request r changes.
Moved(r) == req' \in [Req -> RequestSet] /\ \A q \in Req \ {r} : req'[q] = req[q]

\* The request keeps its time, and what it has read from the rows.
Kept(r) == req'[r].at = req[r].at /\ req'[r].own = req[r].own

\* What Goto changes, and what it leaves.
LEMMA GotoMoves ==
  ASSUME TypeOK, NEW r \in Req, NEW pc \in PCs, Goto(r, pc)
  PROVE  Moved(r) /\ Kept(r) /\ req'[r].pc = pc /\ req'[r].seen = req[r].seen
<1>1. req \in [Req -> RequestSet] /\ req[r] \in RequestSet
  BY Zenon DEF TypeOK, RequestSet
<1>2. [req[r] EXCEPT !.pc = pc] \in RequestSet
  BY <1>1, Zenon DEF RequestSet
<1>3. req' = [req EXCEPT ![r] = [req[r] EXCEPT !.pc = pc]]
  BY Zenon DEF Goto
<1>4. req'[r] = [req[r] EXCEPT !.pc = pc] /\ Moved(r)
  BY <1>1, <1>2, <1>3, Zenon DEF Moved
<1>5. QED
  BY <1>1, <1>4, Zenon DEF RequestSet, Kept

\* What Return changes, and what it leaves.
LEMMA ReturnMoves ==
  ASSUME TypeOK, NEW r \in Req, NEW pc \in PCs, Return(r, pc)
  PROVE  Moved(r) /\ req'[r].pc = pc /\ \A w \in Windows : req'[r].own[w] = 0
<1>1. req \in [Req -> RequestSet] /\ 0 \in Time
  BY ThrottleAssumption DEF TypeOK, RequestSet, Time
<1>2. [Idle EXCEPT !.pc = pc] \in RequestSet
  BY <1>1, Zenon DEF RequestSet, Idle
<1>3. req' = [req EXCEPT ![r] = [Idle EXCEPT !.pc = pc]]
  BY Zenon DEF Return
<1>4. req'[r] = [Idle EXCEPT !.pc = pc] /\ Moved(r)
  BY <1>1, <1>2, <1>3, Zenon DEF Moved
<1>5. QED
  BY <1>4, Zenon DEF Idle

\* A step that moves one request keeps types and bounds if what it writes is
\* within them.
LEMMA BaseStep ==
  ASSUME Base, NEW r \in Req, Moved(r), UNCHANGED now,
         bucket' \in [Windows -> Time], count' \in [Windows -> Int],
         lock' \in [Windows -> Req \cup {NoReq}], admitted' \in [Windows -> [Time -> Nat]],
         req'[r].pc \in {"second_row", "rows"} => Backend = "postgres",
         Backend = "postgres" => req'[r].pc \in OnRows,
         \A w \in Windows : req'[r].own[w] <= limit[w],
         \A w \in Windows : count'[w] <= limit[w] /\ (Backend = "postgres" => count'[w] >= 0),
         count'["hour"] >= 0, count'["second"] >= Cardinality(Held)' - Others
  PROVE  Base'
<1>1. TypeOK'
  BY Zenon DEF Base, TypeOK, Moved, RequestSet
<1>2. OwnSteps'
  BY Zenon DEF Base, OwnSteps, Moved
<1>3. CountInv'
  <2>1. \A q \in Req, w \in Windows : req'[q].own[w] <= limit[w]
    BY Zenon DEF Base, CountInv, Moved
  <2>2. QED
    BY <2>1, Zenon DEF CountInv, Others
<1>4. QED
  BY <1>1, <1>2, <1>3, Zenon DEF Base

\* In the window of a request that is admitted one is added to the history.
LEMMA AdmitFacts ==
  ASSUME TypeOK, NEW r \in Req, Admit(r)
  PROVE  /\ admitted' \in [Windows -> [Time -> Nat]]
         /\ \A w \in Windows, t \in Time :
              admitted'[w][t] = IF t = Current(w, req[r].at) THEN admitted[w][t] + 1 ELSE admitted[w][t]
<1>1. req[r].at \in Time
  BY Zenon DEF TypeOK
<1>2. \A w \in Windows : Current(w, req[r].at) \in Time
  BY <1>1, CurrentFacts
<1>3. QED
  BY <1>2 DEF TypeOK, Admit
-----------------------------------------------------------------------------
(* The atomic counters.                                                    *)

\* A step of the memory store.
LEMMA MemoryStep ==
  ASSUME Backend = "memory", Base', MaxLag = 0 => MemoryInv'
  PROVE  Inv'
BY Zenon DEF Inv

\* The program counters of the memory store are none of Postgres.
LEMMA MemoryBackend ==
  ASSUME Base, NEW r \in Req, req[r].pc \notin OnRows
  PROVE  Backend = "memory"
BY ThrottleAssumption, Zenon DEF Base, OwnSteps

\* A step that touches neither counters nor buckets, and neither claims nor holds.
LEMMA QuietMemory ==
  ASSUME Base, MemoryInv, NEW r \in Req, Moved(r), UNCHANGED <<now, bucket, count, admitted>>,
         req'[r].pc \notin Decided => req'[r].at = now,
         req'[r].pc \in {"hour_inc", "undo"} <=> req[r].pc \in {"hour_inc", "undo"},
         \A w \in Windows : req[r].pc # Winning(w) /\ req'[r].pc # Winning(w),
         \A w \in Windows : Claims(w, r)'
  PROVE  MemoryInv'
<1>1. Punctual' /\ Past' /\ AtMostTwice'
  <2>1. Punctual'
    BY Zenon DEF MemoryInv, Punctual, Moved
  <2>2. Past' /\ AtMostTwice'
    BY Zenon DEF MemoryInv, Past, AtMostTwice
  <2>3. QED
    BY <2>1, <2>2
<1>2. Held' = Held
  BY Zenon DEF Held, Moved
<1>3. Uncounted("hour")' = Uncounted("hour") /\ Uncounted("second")' = Uncounted("second")
  BY Zenon DEF Uncounted, Moved, Windows
<1>4. Accounts'
  BY <1>2, <1>3, Zenon DEF MemoryInv, Accounts, Others
<1>5. \A w \in Windows, q \in Req : Claims(w, q)'
  <2>1. SUFFICES ASSUME NEW w \in Windows, NEW q \in Req \ {r} PROVE Claims(w, q)'
    BY Zenon
  <2>2. req'[q] = req[q] /\ Claims(w, q)
    BY Zenon DEF Moved, MemoryInv
  <2>3. ASSUME req[q].pc = Winning(w), NEW o \in Req, req'[o].pc = Winning(w) PROVE o = q
    BY <2>2, <2>3, Zenon DEF Moved, Claims
  <2>4. QED
    BY <2>2, <2>3, Zenon DEF Claims
<1>6. QED
  BY <1>1, <1>4, <1>5, Zenon DEF MemoryInv

\* What a Load changes, and what it leaves.
LEMMA LoadMoves ==
  ASSUME TypeOK, NEW r \in Req, NEW w \in Windows, NEW from, NEW cas \in PCs, NEW next \in PCs,
         Load(r, w, from, cas, next)
  PROVE  /\ Moved(r) /\ Kept(r) /\ req'[r].seen = bucket[w]
         /\ req'[r].pc = IF bucket[w] = Current(w, req[r].at) THEN next ELSE cas
<1> DEFINE pc == IF bucket[w] = Current(w, req[r].at) THEN next ELSE cas
           l == [req[r] EXCEPT !.seen = bucket[w], !.pc = pc]
<1>1. /\ req \in [Req -> RequestSet] /\ req[r] \in RequestSet /\ pc \in PCs /\ bucket[w] \in Time
  BY Zenon DEF TypeOK, RequestSet
<1>2. req' = [req EXCEPT ![r] = l]
  BY Zenon DEF Load
<1> HIDE DEF pc
<1>3. l \in RequestSet /\ l.seen = bucket[w] /\ l.pc = pc /\ l.at = req[r].at /\ l.own = req[r].own
  BY <1>1, Zenon DEF RequestSet
<1> HIDE DEF l
<1>4. req'[r] = l /\ Moved(r)
  BY <1>1, <1>2, <1>3, Zenon DEF Moved
<1>5. QED
  BY <1>3, <1>4, Zenon DEF Kept, pc

\* A step that only moves a request, and may claim a bucket, keeps types and bounds.
LEMMA BaseQuiet ==
  ASSUME Base, NEW r \in Req, Moved(r), UNCHANGED <<now, count, lock, admitted>>,
         bucket' \in [Windows -> Time],
         req'[r].pc \in {"second_row", "rows"} => Backend = "postgres",
         Backend = "postgres" => req'[r].pc \in OnRows,
         \A w \in Windows : req'[r].own[w] <= limit[w],
         req'[r].pc \in {"hour_inc", "undo"} => req[r].pc \in {"hour_inc", "undo"}
  PROVE  Base'
<1>1. Cardinality(Held)' <= Cardinality(Held) /\ Cardinality(Held)' \in Nat /\ Others \in Nat
      /\ Cardinality(Held) \in Nat
  BY HeldFacts DEF Moved
<1>2. count["second"] >= Cardinality(Held)' - Others
  <2>1. count["second"] \in Int /\ count["second"] >= Cardinality(Held) - Others
    BY Zenon DEF Base, TypeOK, CountInv, Windows
  <2>2. QED
    BY <1>1, <2>1
<1>3. /\ count' \in [Windows -> Int]
      /\ lock' \in [Windows -> Req \cup {NoReq}] /\ admitted' \in [Windows -> [Time -> Nat]]
  BY Zenon DEF Base, TypeOK
<1>4. /\ \A w \in Windows : count'[w] <= limit[w] /\ (Backend = "postgres" => count'[w] >= 0)
      /\ count'["hour"] >= 0 /\ count'["second"] >= Cardinality(Held)' - Others
  BY <1>2, Zenon DEF Base, CountInv
<1>5. QED
  BY <1>3, <1>4, BaseStep, Zenon

\* A request in the memory store, and what Kept says of its rows.
LEMMA KeptOwn ==
  ASSUME Base, NEW r \in Req, Kept(r)
  PROVE  \A w \in Windows : req'[r].own[w] <= limit[w]
BY Zenon DEF Base, CountInv, Kept

\* secondBucket.Load keeps the invariant.
LEMMA LoadSecondStep ==
  ASSUME Inv, NEW r \in Req, LoadSecond(r)
  PROVE  Inv'
<1>1. /\ Base /\ TypeOK /\ Backend = "memory" /\ req[r].pc = "start"
      /\ bucket' \in [Windows -> Time] /\ UNCHANGED <<now, bucket, count, lock, admitted>>
  BY Zenon DEF Inv, Base, LoadSecond, Load, TypeOK
<1>2. /\ Moved(r) /\ Kept(r) /\ req'[r].seen = bucket["second"]
      /\ req'[r].pc = IF bucket["second"] = Current("second", req[r].at) THEN "hour_load" ELSE "second_cas"
  <2>1. "hour_load" \in PCs /\ "second_cas" \in PCs /\ "second" \in Windows
    BY Zenon DEF PCs, Windows
  <2>2. QED
    BY <1>1, <2>1, LoadMoves, Zenon DEF LoadSecond
<1>3. Base'
  BY <1>1, <1>2, KeptOwn, BaseQuiet
<1>4. ASSUME MaxLag = 0 PROVE MemoryInv'
  <2>1. MemoryInv /\ req[r].at = now /\ req'[r].at = now
    BY <1>1, <1>2, <1>4, Zenon DEF Inv, MemoryInv, Punctual, Kept, Decided
  <2>2. \A w \in Windows : Claims(w, r)'
    BY <1>1, <1>2, <2>1, Zenon DEF Claims, Passed, Trying, Winning, Windows
  <2>3. QED
    BY <1>1, <1>2, <2>1, <2>2, QuietMemory, Zenon DEF Winning, Decided
<1>5. QED
  BY <1>1, <1>3, <1>4, MemoryStep

\* hourBucket.Load keeps the invariant.
LEMMA LoadHourStep ==
  ASSUME Inv, NEW r \in Req, LoadHour(r)
  PROVE  Inv'
<1>1. /\ Base /\ TypeOK /\ Backend = "memory" /\ req[r].pc = "hour_load"
      /\ bucket' \in [Windows -> Time] /\ UNCHANGED <<now, bucket, count, lock, admitted>>
  BY Zenon DEF Inv, Base, LoadHour, Load, TypeOK
<1>2. /\ Moved(r) /\ Kept(r) /\ req'[r].seen = bucket["hour"]
      /\ req'[r].pc = IF bucket["hour"] = Current("hour", req[r].at) THEN "second_inc" ELSE "hour_cas"
  <2>1. "second_inc" \in PCs /\ "hour_cas" \in PCs /\ "hour" \in Windows
    BY Zenon DEF PCs, Windows
  <2>2. QED
    BY <1>1, <2>1, LoadMoves, Zenon DEF LoadHour
<1>3. Base'
  BY <1>1, <1>2, KeptOwn, BaseQuiet
<1>4. ASSUME MaxLag = 0 PROVE MemoryInv'
  <2>1. MemoryInv /\ req[r].at = now /\ req'[r].at = now /\ Claims("second", r)
    BY <1>1, <1>2, <1>4, Zenon DEF Inv, MemoryInv, Punctual, Kept, Decided, Windows
  <2>2. \A w \in Windows : Claims(w, r)'
    BY <1>1, <1>2, <2>1, Zenon DEF Claims, Passed, Trying, Winning, Windows
  <2>3. QED
    BY <1>1, <1>2, <2>1, <2>2, QuietMemory, Zenon DEF Winning, Decided
<1>5. QED
  BY <1>1, <1>3, <1>4, MemoryStep

\* The winner of CompareAndSwap finds nothing admitted in the window, and nobody
\* past it.
LEMMA WinMemory ==
  ASSUME Base, MemoryInv, NEW w \in Windows, NEW r \in Req, req[r].pc = Trying(w),
         bucket[w] = req[r].seen, bucket' = [bucket EXCEPT ![w] = Current(w, req[r].at)],
         Goto(r, Winning(w)), UNCHANGED <<now, count, admitted>>
  PROVE  MemoryInv'
<1>1. TypeOK /\ CountInv /\ now \in Time /\ bucket \in [Windows -> Time]
  BY Zenon DEF Base, TypeOK
<1>2. Moved(r) /\ Kept(r) /\ req'[r].pc = Winning(w)
  <2>1. Winning(w) \in PCs
    BY Zenon DEF Winning, PCs
  <2>2. QED
    BY <1>1, <2>1, GotoMoves, Zenon
<1>3. req[r].at = now /\ req'[r].at = now
  BY <1>2, Zenon DEF MemoryInv, Punctual, Kept, Trying, Decided
<1> DEFINE C == Current(w, now)
<1>4. C \in Time /\ bucket[w] # C /\ bucket[w] < C /\ admitted[w][C] = 0
  <2>1. C \in Time
    BY <1>1, CurrentFacts
  <2>2. bucket[w] # C
    BY Zenon DEF MemoryInv, Claims
  <2>3. bucket[w] <= C /\ \A t \in Time : t > bucket[w] => admitted[w][t] = 0
    BY Zenon DEF MemoryInv, Past
  <2>4. bucket[w] < C
    BY <1>1, <2>1, <2>2, <2>3 DEF Time
  <2>5. QED
    BY <2>1, <2>2, <2>3, <2>4
<1>5. bucket'[w] = C /\ \A v \in Windows \ {w} : bucket'[v] = bucket[v]
  BY <1>1, <1>3
<1>6. \A q \in Req : req[q].pc \notin Passed(w)
  BY <1>4, Zenon DEF MemoryInv, Claims
<1> HIDE DEF C
<1>7. Punctual' /\ AtMostTwice'
  BY <1>2, <1>3, Zenon DEF MemoryInv, Punctual, AtMostTwice, Moved
<1>8. Past'
  <2>1. SUFFICES ASSUME NEW v \in Windows
                 PROVE  /\ bucket'[v] <= Current(v, now)
                        /\ \A t \in Time : t > bucket'[v] => admitted[v][t] = 0
    BY Zenon DEF Past
  <2>2. CASE v # w
    BY <1>5, <2>2, Zenon DEF MemoryInv, Past
  <2>3. CASE v = w
    BY <1>1, <1>4, <1>5, <2>3 DEF MemoryInv, Past, C, Time
  <2>4. QED
    BY <2>2, <2>3
<1>9. Accounts'
  <2>1. \A q \in Req : req[q].pc \notin {"hour_inc", "undo"}
    BY <1>6, Zenon DEF Passed
  <2>2. Held = {} /\ Held' = {}
    <3>1. Held = {}
      BY <2>1, Zenon DEF Held
    <3>2. Held' = {}
      BY <1>2, <2>1, Zenon DEF Held, Moved, Winning
    <3>3. QED
      BY <3>1, <3>2
  <2>3. Cardinality(Held) = 0 /\ Cardinality(Held)' = 0
    BY <2>2, FS_EmptySet
  <2>4. Uncounted(w)' = 0
    BY <1>2, Zenon DEF Uncounted
  <2>5. \A v \in Windows \ {w} : Uncounted(v)' = Uncounted(v)
    BY <1>2, Zenon DEF Uncounted, Moved, Windows, Winning, Trying
  <2>6. /\ count["second"] \in Int /\ count["hour"] \in Int /\ Others \in Int
        /\ count["hour"] >= 0 /\ count["second"] >= 0 - Others
    BY <1>1, <2>3, HeldFacts, <1>2 DEF TypeOK, CountInv, Windows, Moved
  <2>7. CASE w = "second"
    BY <1>4, <1>5, <2>3, <2>4, <2>5, <2>6, <2>7 DEF Windows, MemoryInv, Accounts, Others
  <2>8. CASE w = "hour"
    BY <1>4, <1>5, <2>3, <2>4, <2>5, <2>6, <2>8 DEF Windows, MemoryInv, Accounts, Others
  <2>9. QED
    BY <2>7, <2>8, Zenon DEF Windows
<1>10. ASSUME NEW v \in Windows, NEW q \in Req PROVE Claims(v, q)'
  <2>1. CASE q # r /\ v # w
    <3>1. req'[q] = req[q] /\ bucket'[v] = bucket[v] /\ Claims(v, q)
      BY <1>2, <1>5, <2>1, Zenon DEF Moved, MemoryInv
    <3>2. req'[r].pc # Winning(v)
      BY <1>2, <2>1 DEF Winning, Windows
    <3>3. QED
      BY <1>2, <3>1, <3>2, Zenon DEF Claims, Moved
  <2>2. CASE q # r /\ v = w
    <3>1. req'[q] = req[q] /\ bucket'[w] = C /\ Claims(w, q) /\ req[q].pc \notin Passed(w)
      BY <1>2, <1>5, <1>6, <2>2, Zenon DEF Moved, MemoryInv
    <3>2. Winning(w) \in Passed(w)
      BY Zenon DEF Winning, Passed
    <3>3. QED
      BY <2>2, <3>1, <3>2, Zenon DEF Claims, C
  <2>3. CASE q = r /\ v = w
    <3>1. \A o \in Req : req'[o].pc = Winning(w) => o = r
      BY <1>2, <1>6, Zenon DEF Moved, Winning, Passed
    <3>2. req'[r].pc # Trying(w)
      BY <1>2, Zenon DEF Winning, Trying
    <3>3. QED
      BY <1>5, <2>3, <3>1, <3>2, Zenon DEF Claims, C
  <2>4. CASE q = r /\ v # w
    BY <1>2, <1>5, <2>4, Zenon DEF MemoryInv, Claims, Passed, Trying, Winning, Windows
  <2>5. QED
    BY <2>1, <2>2, <2>3, <2>4
<1>11. QED
  BY <1>7, <1>8, <1>9, <1>10, Zenon DEF MemoryInv

\* The store of zero by the winner: what was counted is admitted beside the limit.
LEMMA ZeroMemory ==
  ASSUME Base, MemoryInv, NEW w \in Windows, NEW r \in Req, req[r].pc = Winning(w),
         count' = [count EXCEPT ![w] = 0],
         Goto(r, IF w = "second" THEN "hour_load" ELSE "second_inc"),
         UNCHANGED <<now, bucket, admitted>>
  PROVE  MemoryInv'
<1> DEFINE pc == IF w = "second" THEN "hour_load" ELSE "second_inc"
<1>1. TypeOK /\ CountInv /\ count \in [Windows -> Int]
  BY Zenon DEF Base, TypeOK
<1>2. Moved(r) /\ Kept(r) /\ req'[r].pc = pc
  <2>1. pc \in PCs
    BY Zenon DEF PCs
  <2>2. QED
    BY <1>1, <2>1, GotoMoves, Zenon
<1>3. req[r].at = now /\ req'[r].at = now
  BY <1>2, Zenon DEF MemoryInv, Punctual, Kept, Winning, Decided
<1>4. Punctual' /\ Past' /\ AtMostTwice'
  <2>1. Punctual'
    BY <1>2, <1>3, Zenon DEF MemoryInv, Punctual, Moved
  <2>2. Past' /\ AtMostTwice'
    BY Zenon DEF MemoryInv, Past, AtMostTwice
  <2>3. QED
    BY <2>1, <2>2
<1>5. Accounts'
  <2>1. Cardinality(Held)' = Cardinality(Held) /\ Cardinality(Held) \in Nat /\ Others \in Nat
    BY <1>2, HeldFacts DEF Moved, Winning
  <2>2. Uncounted(w) = 0
    BY Zenon DEF Uncounted
  <2>3. Uncounted(w)' = limit[w]
    BY <1>2 DEF Uncounted, Moved, Winning, MemoryInv, Claims
  <2>4. \A v \in Windows \ {w} : Uncounted(v)' = Uncounted(v)
    BY <1>2, Zenon DEF Uncounted, Moved, Windows, Winning
  <2>5. \A v \in Windows : /\ count[v] \in Int /\ limit[v] \in Nat /\ count[v] <= limit[v]
                           /\ admitted[v][bucket[v]] \in Nat
    BY <1>1, LimitFacts, Zenon DEF CountInv, TypeOK
  <2>6. count'[w] = 0 /\ \A v \in Windows \ {w} : count'[v] = count[v]
    BY <1>1
  <2>7. CASE w = "second"
    BY <2>1, <2>2, <2>3, <2>4, <2>5, <2>6, <2>7 DEF Windows, MemoryInv, Accounts, Others
  <2>8. CASE w = "hour"
    BY <2>1, <2>2, <2>3, <2>4, <2>5, <2>6, <2>8 DEF Windows, MemoryInv, Accounts, Others
  <2>9. QED
    BY <2>7, <2>8, Zenon DEF Windows
<1>6. ASSUME NEW v \in Windows, NEW q \in Req PROVE Claims(v, q)'
  <2>1. CASE q # r
    <3>1. req'[q] = req[q] /\ Claims(v, q)
      BY <1>2, <2>1, Zenon DEF Moved, MemoryInv
    <3>2. req'[r].pc # Winning(v)
      BY <1>2, Zenon DEF Winning
    <3>3. QED
      BY <1>2, <3>1, <3>2, Zenon DEF Claims, Moved
  <2>2. CASE q = r
    <3>1. Claims("second", r) /\ Claims("hour", r)
      BY Zenon DEF MemoryInv, Windows
    <3>2. QED
      BY <1>2, <2>2, <3>1, Zenon DEF Claims, Passed, Trying, Winning, Windows
  <2>3. QED
    BY <2>1, <2>2
<1>7. QED
  BY <1>4, <1>5, <1>6, Zenon DEF MemoryInv

\* CompareAndSwap of either window keeps the invariant.
LEMMA ClaimStep ==
  ASSUME Inv, NEW r \in Req, NEW w \in Windows,
         Claim(r, w, Trying(w), Winning(w), IF w = "second" THEN "hour_load" ELSE "second_inc")
  PROVE  Inv'
<1> DEFINE next == IF w = "second" THEN "hour_load" ELSE "second_inc"
<1>1. Base /\ TypeOK /\ req[r].pc = Trying(w) /\ UNCHANGED <<now, count, lock, admitted>>
  BY Zenon DEF Inv, Base, Claim
<1>2. Backend = "memory"
  BY <1>1, MemoryBackend, Zenon DEF Trying, OnRows
<1>3. CASE bucket[w] = req[r].seen
  <2>1. bucket' = [bucket EXCEPT ![w] = Current(w, req[r].at)] /\ Goto(r, Winning(w))
    BY <1>3, Zenon DEF Claim
  <2>2. Moved(r) /\ Kept(r) /\ req'[r].pc = Winning(w)
    <3>1. Winning(w) \in PCs
      BY Zenon DEF Winning, PCs
    <3>2. QED
      BY <1>1, <2>1, <3>1, GotoMoves, Zenon
  <2>3. bucket' \in [Windows -> Time]
    <3>1. req[r].at \in Time /\ bucket \in [Windows -> Time]
      BY <1>1, Zenon DEF TypeOK
    <3>2. Current(w, req[r].at) \in Time
      BY <3>1, CurrentFacts
    <3>3. QED
      BY <2>1, <3>1, <3>2, Zenon
  <2>4. Base'
    <3>1. req'[r].pc \notin {"hour_inc", "undo", "second_row", "rows"}
      BY <2>2, Zenon DEF Winning
    <3>2. QED
      BY <1>1, <1>2, <2>2, <2>3, <3>1, KeptOwn, BaseQuiet
  <2>5. ASSUME MaxLag = 0 PROVE MemoryInv'
    BY <1>1, <1>2, <1>3, <2>1, <2>5, WinMemory, Zenon DEF Inv
  <2>6. QED
    BY <1>2, <2>4, <2>5, MemoryStep
<1>4. CASE bucket[w] # req[r].seen
  <2>1. Goto(r, next) /\ UNCHANGED bucket
    BY <1>4, Zenon DEF Claim
  <2>2. Moved(r) /\ Kept(r) /\ req'[r].pc = next
    <3>1. next \in PCs
      BY Zenon DEF PCs
    <3>2. QED
      BY <1>1, <2>1, <3>1, GotoMoves, Zenon
  <2>3. Base'
    <3>1. bucket' \in [Windows -> Time]
      BY <1>1, <2>1, Zenon DEF TypeOK
    <3>2. QED
      BY <1>1, <1>2, <2>1, <2>2, <3>1, KeptOwn, BaseQuiet
  <2>4. ASSUME MaxLag = 0 PROVE MemoryInv'
    <3>1. MemoryInv
      BY <1>2, <2>4, Zenon DEF Inv
    <3>2. req[r].at = now /\ req'[r].at = now /\ Claims("second", r) /\ Claims("hour", r)
      BY <1>1, <2>2, <3>1, Zenon DEF MemoryInv, Punctual, Kept, Decided, Windows, Trying
    <3>3. \A v \in Windows : Claims(v, r)'
      BY <1>1, <1>4, <2>1, <2>2, <3>2, Zenon DEF Claims, Passed, Trying, Winning, Windows
    <3>4. QED
      BY <1>1, <2>1, <2>2, <3>1, <3>2, <3>3, QuietMemory, Zenon DEF Winning, Decided, Trying
  <2>5. QED
    BY <1>2, <2>3, <2>4, MemoryStep
<1>5. QED
  BY <1>3, <1>4

\* Store(0) of either window keeps the invariant.
LEMMA ZeroStep ==
  ASSUME Inv, NEW r \in Req, NEW w \in Windows,
         Zero(r, w, Winning(w), IF w = "second" THEN "hour_load" ELSE "second_inc")
  PROVE  Inv'
<1> DEFINE next == IF w = "second" THEN "hour_load" ELSE "second_inc"
<1>1. /\ Base /\ TypeOK /\ CountInv /\ req[r].pc = Winning(w) /\ Goto(r, next)
      /\ UNCHANGED <<now, bucket, lock, admitted>> /\ count' = [count EXCEPT ![w] = 0]
  BY Zenon DEF Inv, Base, Zero
<1>2. Backend = "memory"
  BY <1>1, MemoryBackend, Zenon DEF Winning, OnRows
<1>3. Moved(r) /\ Kept(r) /\ req'[r].pc = next
  <2>1. next \in PCs
    BY Zenon DEF PCs
  <2>2. QED
    BY <1>1, <2>1, GotoMoves, Zenon
<1>4. Base'
  <2>1. /\ bucket' \in [Windows -> Time] /\ lock' \in [Windows -> Req \cup {NoReq}]
        /\ admitted' \in [Windows -> [Time -> Nat]] /\ count \in [Windows -> Int]
    BY <1>1, Zenon DEF TypeOK
  <2>2. count' \in [Windows -> Int] /\ \A v \in Windows : count'[v] = IF v = w THEN 0 ELSE count[v]
    BY <1>1, <2>1
  <2>3. /\ Cardinality(Held) \in Nat /\ Cardinality(Held)' = Cardinality(Held) /\ Others \in Nat
        /\ Cardinality(Held) <= Others
    BY <1>1, <1>3, HeldFacts DEF Moved, Winning
  <2>4. \A v \in Windows : limit[v] \in Nat /\ count[v] \in Int
    BY <2>1, LimitFacts, Zenon
  <2>5. /\ \A v \in Windows : count'[v] <= limit[v]
        /\ count'["hour"] >= 0 /\ count'["second"] >= Cardinality(Held)' - Others
    BY <1>1, <2>2, <2>3, <2>4 DEF CountInv, Windows
  <2>6. QED
    BY <1>1, <1>2, <1>3, <2>1, <2>2, <2>5, KeptOwn, BaseStep
<1>5. ASSUME MaxLag = 0 PROVE MemoryInv'
  BY <1>1, <1>2, <1>5, ZeroMemory, Zenon DEF Inv
<1>6. QED
  BY <1>2, <1>4, <1>5, MemoryStep

\* A step of a request that leaves time and buckets alone, and claims nothing.
LEMMA MoveMemory ==
  ASSUME MemoryInv, NEW r \in Req, Moved(r), UNCHANGED <<now, bucket>>,
         req'[r].pc \notin Decided => req'[r].at = now,
         \A w \in Windows : req[r].pc # Winning(w) /\ req'[r].pc # Winning(w),
         \A w \in Windows : Claims(w, r)'
  PROVE  /\ Punctual' /\ \A w \in Windows : Uncounted(w)' = Uncounted(w)
         /\ \A w \in Windows, q \in Req : Claims(w, q)'
<1>1. Punctual'
  BY Zenon DEF MemoryInv, Punctual, Moved
<1>2. \A w \in Windows : Uncounted(w)' = Uncounted(w)
  BY Zenon DEF Uncounted, Moved
<1>3. \A w \in Windows, q \in Req : Claims(w, q)'
  <2>1. SUFFICES ASSUME NEW w \in Windows, NEW q \in Req \ {r} PROVE Claims(w, q)'
    BY Zenon
  <2>2. req'[q] = req[q] /\ Claims(w, q)
    BY Zenon DEF Moved, MemoryInv
  <2>3. ASSUME req[q].pc = Winning(w), NEW o \in Req, req'[o].pc = Winning(w) PROVE o = q
    BY <2>2, <2>3, Zenon DEF Moved, Claims
  <2>4. QED
    BY <2>2, <2>3, Zenon DEF Claims
<1>4. QED
  BY <1>1, <1>2, <1>3

\* tryIncrementWithLimit of the second keeps the invariant.
LEMMA IncrementSecondStep ==
  ASSUME Inv, NEW r \in Req, IncrementSecond(r)
  PROVE  Inv'
<1>1. /\ Base /\ TypeOK /\ CountInv /\ req[r].pc = "second_inc" /\ count \in [Windows -> Int]
      /\ UNCHANGED <<now, bucket, lock, admitted>>
  BY Zenon DEF Inv, Base, IncrementSecond, TypeOK
<1>2. Backend = "memory"
  BY <1>1, MemoryBackend, Zenon DEF OnRows
<1>3. /\ bucket' \in [Windows -> Time] /\ lock' \in [Windows -> Req \cup {NoReq}]
      /\ admitted' \in [Windows -> [Time -> Nat]]
  BY <1>1, Zenon DEF TypeOK
<1>4. "hour_inc" \in PCs /\ "blocked" \in PCs
  BY Zenon DEF PCs
<1>5. \A w \in Windows : limit[w] \in Nat /\ count[w] \in Int
  BY <1>1, LimitFacts, Zenon
<1>6. CASE Full("second")
  <2>1. Return(r, "blocked") /\ UNCHANGED count
    BY <1>6, Zenon DEF IncrementSecond
  <2>2. Moved(r) /\ req'[r].pc = "blocked" /\ \A w \in Windows : req'[r].own[w] = 0
    BY <1>1, <1>4, <2>1, ReturnMoves, Zenon
  <2>3. Base'
    BY <1>1, <1>2, <1>3, <1>5, <2>1, <2>2, BaseQuiet
  <2>4. ASSUME MaxLag = 0 PROVE MemoryInv'
    <3>1. \A w \in Windows : Claims(w, r)'
      BY <2>2, Zenon DEF Claims, Passed, Trying, Winning
    <3>2. QED
      BY <1>1, <1>2, <2>1, <2>2, <2>4, <3>1, QuietMemory, Zenon DEF Inv, Decided, Winning
  <2>5. QED
    BY <1>2, <2>3, <2>4, MemoryStep
<1>7. CASE ~Full("second")
  <2>1. Goto(r, "hour_inc") /\ count' = [count EXCEPT !["second"] = @ + 1]
    BY <1>7, Zenon DEF IncrementSecond
  <2>2. Moved(r) /\ Kept(r) /\ req'[r].pc = "hour_inc"
    BY <1>1, <1>4, <2>1, GotoMoves, Zenon
  <2>3. /\ count' \in [Windows -> Int] /\ count'["hour"] = count["hour"]
        /\ count'["second"] = count["second"] + 1 /\ count'["second"] <= limit["second"]
    BY <1>1, <1>5, <1>7, <2>1 DEF Full, Windows
  <2>4. /\ Cardinality(Held) \in Nat /\ Others \in Nat
        /\ Cardinality(Held)' = Cardinality(Held) + 1
    BY <1>1, <2>2, HeldFacts DEF Moved
  <2>5. Base'
    <3>1. count'["hour"] >= 0 /\ count'["second"] >= Cardinality(Held)' - Others
      BY <1>1, <1>5, <2>3, <2>4 DEF CountInv, Windows
    <3>2. \A w \in Windows : count'[w] <= limit[w]
      BY <1>1, <2>3, Zenon DEF CountInv, Windows
    <3>3. QED
      BY <1>1, <1>2, <1>3, <2>2, <2>3, <3>1, <3>2, KeptOwn, BaseStep
  <2>6. ASSUME MaxLag = 0 PROVE MemoryInv'
    <3>1. MemoryInv
      BY <1>2, <2>6, Zenon DEF Inv
    <3>2. req[r].at = now /\ req'[r].at = now /\ Claims("second", r) /\ Claims("hour", r)
      BY <1>1, <2>2, <3>1, Zenon DEF MemoryInv, Punctual, Kept, Decided, Windows
    <3>3. \A w \in Windows : Claims(w, r)'
      BY <1>1, <2>2, <3>2, Zenon DEF Claims, Passed, Trying, Winning, Windows
    <3>4. /\ Punctual' /\ \A w \in Windows : Uncounted(w)' = Uncounted(w)
          /\ \A w \in Windows, q \in Req : Claims(w, q)'
      BY <1>1, <2>2, <3>1, <3>2, <3>3, MoveMemory, Zenon DEF Winning
    <3>5. Past' /\ AtMostTwice'
      BY <1>1, <3>1, Zenon DEF MemoryInv, Past, AtMostTwice
    <3>6. \A w \in Windows : admitted[w][bucket[w]] \in Nat /\ Uncounted(w) \in Nat
      BY <1>1, LimitFacts, Zenon DEF TypeOK, Uncounted
    <3>7. Accounts'
      BY <1>1, <1>5, <2>3, <2>4, <3>1, <3>4, <3>6 DEF MemoryInv, Accounts, Windows, Others
    <3>8. QED
      BY <3>4, <3>5, <3>7, Zenon DEF MemoryInv
  <2>7. QED
    BY <1>2, <2>5, <2>6, MemoryStep
<1>8. QED
  BY <1>6, <1>7

\* secondCount.Add(-1) keeps the invariant.
LEMMA UndoStep ==
  ASSUME Inv, NEW r \in Req, Undo(r)
  PROVE  Inv'
<1>1. /\ Base /\ TypeOK /\ CountInv /\ req[r].pc = "undo" /\ count \in [Windows -> Int]
      /\ Return(r, "blocked") /\ count' = [count EXCEPT !["second"] = @ - 1]
      /\ UNCHANGED <<now, bucket, lock, admitted>>
  BY Zenon DEF Inv, Base, Undo, TypeOK
<1>2. Backend = "memory"
  BY <1>1, MemoryBackend, Zenon DEF OnRows
<1>3. /\ bucket' \in [Windows -> Time] /\ lock' \in [Windows -> Req \cup {NoReq}]
      /\ admitted' \in [Windows -> [Time -> Nat]]
  BY <1>1, Zenon DEF TypeOK
<1>4. Moved(r) /\ req'[r].pc = "blocked" /\ \A w \in Windows : req'[r].own[w] = 0
  <2>1. "blocked" \in PCs
    BY Zenon DEF PCs
  <2>2. QED
    BY <1>1, <2>1, ReturnMoves, Zenon
<1>5. \A w \in Windows : limit[w] \in Nat /\ count[w] \in Int
  BY <1>1, LimitFacts, Zenon
<1>6. /\ count' \in [Windows -> Int] /\ count'["hour"] = count["hour"]
      /\ count'["second"] = count["second"] - 1
  BY <1>1 DEF Windows
<1>7. /\ Cardinality(Held) \in Nat /\ Others \in Nat
      /\ Cardinality(Held)' = Cardinality(Held) - 1
  BY <1>1, <1>4, HeldFacts DEF Moved
<1>8. Base'
  <2>1. count'["hour"] >= 0 /\ count'["second"] >= Cardinality(Held)' - Others
    BY <1>1, <1>5, <1>6, <1>7 DEF CountInv, Windows
  <2>2. \A w \in Windows : count'[w] <= limit[w] /\ req'[r].own[w] <= limit[w]
    BY <1>1, <1>4, <1>5, <1>6 DEF CountInv, Windows
  <2>3. QED
    BY <1>1, <1>2, <1>3, <1>4, <1>6, <2>1, <2>2, BaseStep
<1>9. ASSUME MaxLag = 0 PROVE MemoryInv'
  <2>1. MemoryInv
    BY <1>2, <1>9, Zenon DEF Inv
  <2>2. \A w \in Windows : Claims(w, r)'
    BY <1>4, Zenon DEF Claims, Passed, Trying, Winning
  <2>3. /\ Punctual' /\ \A w \in Windows : Uncounted(w)' = Uncounted(w)
        /\ \A w \in Windows, q \in Req : Claims(w, q)'
    BY <1>1, <1>4, <2>1, <2>2, MoveMemory, Zenon DEF Winning, Decided
  <2>4. Past' /\ AtMostTwice'
    BY <1>1, <2>1, Zenon DEF MemoryInv, Past, AtMostTwice
  <2>5. \A w \in Windows : admitted[w][bucket[w]] \in Nat /\ Uncounted(w) \in Nat
    BY <1>1, LimitFacts, Zenon DEF TypeOK, Uncounted
  <2>6. Accounts'
    BY <1>1, <1>5, <1>6, <1>7, <2>1, <2>3, <2>5 DEF MemoryInv, Accounts, Windows, Others
  <2>7. QED
    BY <2>3, <2>4, <2>6, Zenon DEF MemoryInv
<1>10. QED
  BY <1>2, <1>8, <1>9, MemoryStep

\* tryIncrementWithLimit of the hour keeps the invariant.
LEMMA IncrementHourStep ==
  ASSUME Inv, NEW r \in Req, IncrementHour(r)
  PROVE  Inv'
<1>1. /\ Base /\ TypeOK /\ CountInv /\ req[r].pc = "hour_inc" /\ count \in [Windows -> Int]
      /\ UNCHANGED <<now, bucket, lock>>
  BY Zenon DEF Inv, Base, IncrementHour, TypeOK
<1>2. Backend = "memory"
  BY <1>1, MemoryBackend, Zenon DEF OnRows
<1>3. bucket' \in [Windows -> Time] /\ lock' \in [Windows -> Req \cup {NoReq}] /\ bucket \in [Windows -> Time]
  BY <1>1, Zenon DEF TypeOK
<1>4. "undo" \in PCs /\ "allowed" \in PCs
  BY Zenon DEF PCs
<1>5. \A w \in Windows : limit[w] \in Nat /\ count[w] \in Int
  BY <1>1, LimitFacts, Zenon
<1>6. CASE Full("hour")
  <2>1. Goto(r, "undo") /\ UNCHANGED <<count, admitted>>
    BY <1>6, Zenon DEF IncrementHour
  <2>2. Moved(r) /\ Kept(r) /\ req'[r].pc = "undo"
    BY <1>1, <1>4, <2>1, GotoMoves, Zenon
  <2>3. Base'
    BY <1>1, <1>2, <1>3, <2>1, <2>2, KeptOwn, BaseQuiet
  <2>4. ASSUME MaxLag = 0 PROVE MemoryInv'
    <3>1. MemoryInv
      BY <1>2, <2>4, Zenon DEF Inv
    <3>2. req[r].at = now /\ req'[r].at = now /\ Claims("second", r) /\ Claims("hour", r)
      BY <1>1, <2>2, <3>1, Zenon DEF MemoryInv, Punctual, Kept, Decided, Windows
    <3>3. \A w \in Windows : Claims(w, r)'
      BY <1>1, <2>2, <3>2, Zenon DEF Claims, Passed, Trying, Winning, Windows
    <3>4. QED
      BY <1>1, <2>1, <2>2, <3>1, <3>2, <3>3, QuietMemory, Zenon DEF Winning
  <2>5. QED
    BY <1>2, <2>3, <2>4, MemoryStep
<1>7. CASE ~Full("hour")
  <2>1. Admit(r) /\ Return(r, "allowed") /\ count' = [count EXCEPT !["hour"] = @ + 1]
    BY <1>7, Zenon DEF IncrementHour, Admit
  <2>2. Moved(r) /\ req'[r].pc = "allowed" /\ \A w \in Windows : req'[r].own[w] = 0
    BY <1>1, <1>4, <2>1, ReturnMoves, Zenon
  <2>3. /\ count' \in [Windows -> Int] /\ count'["second"] = count["second"]
        /\ count'["hour"] = count["hour"] + 1 /\ count'["hour"] <= limit["hour"]
    BY <1>1, <1>5, <1>7, <2>1 DEF Full, Windows
  <2>4. /\ Cardinality(Held) \in Nat /\ Cardinality(Held)' \in Nat /\ Others \in Nat
        /\ Cardinality(Held)' = Cardinality(Held) - 1
    BY <1>1, <2>2, HeldFacts DEF Moved
  <2>5. /\ admitted' \in [Windows -> [Time -> Nat]]
        /\ \A w \in Windows, t \in Time :
             admitted'[w][t] = IF t = Current(w, req[r].at) THEN admitted[w][t] + 1 ELSE admitted[w][t]
    BY <1>1, <2>1, AdmitFacts, Zenon
  <2>6. Base'
    <3>1. count'["hour"] >= 0 /\ count'["second"] >= Cardinality(Held)' - Others
      BY <1>1, <1>5, <2>3, <2>4 DEF CountInv, Windows
    <3>2. \A w \in Windows : count'[w] <= limit[w] /\ req'[r].own[w] <= limit[w]
      BY <1>1, <1>5, <2>2, <2>3 DEF CountInv, Windows
    <3>3. QED
      BY <1>1, <1>2, <1>3, <2>2, <2>3, <2>5, <3>1, <3>2, BaseStep
  <2>7. ASSUME MaxLag = 0 PROVE MemoryInv'
    <3>1. MemoryInv
      BY <1>2, <2>7, Zenon DEF Inv
    <3>2. req[r].at = now /\ \A w \in Windows : bucket[w] = Current(w, now)
      <4>1. req[r].at = now
        BY <1>1, <3>1, Zenon DEF MemoryInv, Punctual, Decided
      <4>2. \A w \in Windows : req[r].pc \in Passed(w)
        BY <1>1, Zenon DEF Passed
      <4>3. QED
        BY <3>1, <4>1, <4>2, Zenon DEF MemoryInv, Claims
    <3>3. \A w \in Windows, t \in Time :
             admitted'[w][t] = IF t = bucket[w] THEN admitted[w][t] + 1 ELSE admitted[w][t]
      BY <2>5, <3>2
    <3>4. \A w \in Windows : Claims(w, r)'
      BY <2>2, Zenon DEF Claims, Passed, Trying, Winning
    <3>5. /\ Punctual' /\ \A w \in Windows : Uncounted(w)' = Uncounted(w)
          /\ \A w \in Windows, q \in Req : Claims(w, q)'
      BY <1>1, <2>2, <3>1, <3>4, MoveMemory, Zenon DEF Winning, Decided
    <3>6. \A w \in Windows : /\ admitted[w][bucket[w]] \in Nat /\ Uncounted(w) \in Nat
                             /\ Uncounted(w) <= limit[w]
                             /\ admitted'[w][bucket[w]] = admitted[w][bucket[w]] + 1
      <4>1. \A w \in Windows : bucket[w] \in Time /\ admitted[w][bucket[w]] \in Nat
        BY <1>1, Zenon DEF TypeOK
      <4>2. \A w \in Windows : Uncounted(w) \in Nat /\ Uncounted(w) <= limit[w]
        BY <1>5 DEF Uncounted
      <4>3. QED
        BY <3>3, <4>1, <4>2
    <3>7. Past'
      <4>1. SUFFICES ASSUME NEW w \in Windows, NEW t \in Time, t > bucket[w]
                     PROVE  admitted'[w][t] = 0
        BY <1>1, <3>1, Zenon DEF MemoryInv, Past
      <4>2. bucket[w] \in Time /\ Time \subseteq Int
        BY <1>3 DEF Time
      <4>3. t # bucket[w]
        BY <4>1, <4>2
      <4>4. QED
        BY <3>1, <3>3, <4>1, <4>3 DEF MemoryInv, Past
    <3>8. Accounts'
      BY <1>1, <1>5, <2>3, <2>4, <3>1, <3>5, <3>6 DEF MemoryInv, Accounts, Windows, Others
    <3>9. AtMostTwice'
      <4>1. /\ admitted'["hour"][bucket["hour"]] <= 2 * limit["hour"]
            /\ admitted'["second"][bucket["second"]] <= 2 * limit["second"] + Others
        BY <1>1, <1>5, <2>3, <2>4, <3>5, <3>6, <3>8 DEF Accounts, Windows, Others, CountInv
      <4>2. limit["hour"] = HourLimit /\ limit["second"] = SecondLimit
        BY Zenon DEF limit, Windows
      <4>3. Cardinality(Req) \in Int /\ SecondLimit \in Nat
        BY ThrottleAssumption, FS_CardinalityType
      <4>4. 2 * SecondLimit + Others = 2 * SecondLimit + Cardinality(Req) - 1
        BY <4>3, Zenon DEF Others
      <4>5. SUFFICES ASSUME NEW t \in Time
                     PROVE  /\ admitted'["hour"][t] <= 2 * HourLimit
                            /\ admitted'["second"][t] <= 2 * SecondLimit + Cardinality(Req) - 1
        BY Zenon DEF AtMostTwice
      <4>6. /\ admitted["hour"][t] <= 2 * HourLimit
            /\ admitted["second"][t] <= 2 * SecondLimit + Cardinality(Req) - 1
        BY <3>1, Zenon DEF MemoryInv, AtMostTwice
      <4>7. "hour" \in Windows /\ "second" \in Windows
        BY Zenon DEF Windows
      <4>8. admitted'["hour"][t] <= 2 * HourLimit
        BY <3>3, <4>1, <4>2, <4>6, <4>7, Zenon
      <4>9. admitted'["second"][t] <= 2 * SecondLimit + Cardinality(Req) - 1
        BY <3>3, <4>1, <4>2, <4>4, <4>6, <4>7, Zenon
      <4>10. QED
        BY <4>8, <4>9
    <3>10. QED
      BY <3>5, <3>7, <3>8, <3>9, Zenon DEF MemoryInv
  <2>8. QED
    BY <1>2, <2>6, <2>7, MemoryStep
<1>8. QED
  BY <1>6, <1>7
-----------------------------------------------------------------------------
(* The rows.                                                               *)

\* A step of the Postgres store.
LEMMA PostgresStep ==
  ASSUME Backend = "postgres", Base', MaxLag = 0 => RowsInv'
  PROVE  Inv'
BY Zenon DEF Inv

\* A step that writes no row, and takes no lock from another transaction.
LEMMA QuietRows ==
  ASSUME RowsInv, NEW r \in Req, Moved(r), UNCHANGED <<now, bucket, count, admitted>>,
         req'[r].pc \notin Decided => req'[r].at = now, RowOf(r)',
         \A q \in Req \ {r}, w \in Windows : lock[w] = q => lock'[w] = q
  PROVE  RowsInv'
<1>1. Punctual' /\ Past' /\ RowsWithinLimit'
  BY Zenon DEF RowsInv, Punctual, Past, RowsWithinLimit, Moved
<1>2. \A w \in Windows : updateBucket(admitted'[w][bucket'[w]]) <= count'[w]
  BY Zenon DEF RowsInv
<1>3. ASSUME NEW q \in Req \ {r} PROVE RowOf(q)'
  <2>1. RowOf(q) /\ req'[q] = req[q] /\ q \in Req
    BY Zenon DEF RowsInv, Moved
  <2>2. "second" \in Windows /\ "hour" \in Windows
    BY Zenon DEF Windows
  <2>3. QED
    BY <2>1, <2>2, Zenon DEF RowOf, ensureBucketCurrent
<1>4. \A q \in Req : RowOf(q)'
  BY <1>3, Zenon
<1>5. QED
  BY <1>1, <1>2, <1>4, Zenon DEF RowsInv

\* The arrival of a request keeps the invariant.
LEMMA ArriveStep ==
  ASSUME Inv, NEW r \in Req, Arrive(r)
  PROVE  Inv'
<1> DEFINE l == [Idle EXCEPT !.pc = "start", !.at = now]
<1>1. /\ Base /\ TypeOK /\ req[r].pc \in Decided /\ req' = [req EXCEPT ![r] = l]
      /\ bucket' \in [Windows -> Time] /\ UNCHANGED <<now, bucket, count, lock, admitted>>
  BY Zenon DEF Inv, Base, Arrive, TypeOK, Decided
<1>2. l \in RequestSet /\ l.pc = "start" /\ l.at = now /\ \A w \in Windows : l.own[w] = 0
  <2>1. now \in Time /\ 0 \in Time /\ "start" \in PCs
    BY <1>1, ThrottleAssumption DEF TypeOK, Time, PCs
  <2>2. QED
    BY <2>1, Zenon DEF Idle, RequestSet
<1> HIDE DEF l
<1>3. Moved(r) /\ req'[r] = l
  <2>1. req \in [Req -> RequestSet]
    BY <1>1, Zenon DEF TypeOK, RequestSet
  <2>2. QED
    BY <1>1, <1>2, <2>1, Zenon DEF Moved
<1>4. Base'
  <2>1. \A w \in Windows : req'[r].own[w] <= limit[w]
    BY <1>2, <1>3, LimitFacts
  <2>2. req'[r].pc = "start" /\ "start" \in OnRows
    BY <1>2, <1>3, Zenon DEF OnRows
  <2>3. QED
    BY <1>1, <1>3, <2>1, <2>2, BaseQuiet
<1>5. ASSUME MaxLag = 0, Backend = "memory" PROVE MemoryInv'
  <2>1. \A w \in Windows : Claims(w, r)'
    BY <1>2, <1>3, Zenon DEF Claims, Passed, Trying, Winning
  <2>2. QED
    BY <1>1, <1>2, <1>3, <1>5, <2>1, QuietMemory DEF Inv, Decided, Winning
<1>6. ASSUME MaxLag = 0, Backend = "postgres" PROVE RowsInv'
  <2>1. RowOf(r)'
    BY <1>2, <1>3, Zenon DEF RowOf
  <2>2. RowsInv
    BY <1>6, Zenon DEF Inv
  <2>3. QED
    BY <1>1, <1>2, <1>3, <2>1, <2>2, QuietRows, Zenon
<1>7. QED
  BY <1>4, <1>5, <1>6, Zenon DEF Inv

\* The passage of time keeps the invariant: no request is under way.
LEMMA TickStep ==
  ASSUME Inv, Tick
  PROVE  Inv'
<1>1. Base /\ TypeOK /\ UNCHANGED <<bucket, count, lock, req, admitted>>
  BY Zenon DEF Inv, Base, Tick
<1>2. now \in Time /\ now' \in Time /\ now <= now'
  BY <1>1, ThrottleAssumption DEF Tick, TypeOK, Time
<1>3. Base'
  <2>1. TypeOK'
    BY <1>1, <1>2, Zenon DEF TypeOK
  <2>2. OwnSteps' /\ CountInv'
    BY <1>1, Zenon DEF Base, OwnSteps, CountInv, Held, Others
  <2>3. QED
    BY <2>1, <2>2, Zenon DEF Base
<1>4. ASSUME MaxLag = 0, Punctual PROVE \A r \in Req : req[r].pc \in Decided
  <2>1. SUFFICES ASSUME NEW r \in Req, req[r].pc \notin Decided PROVE FALSE
    BY Zenon
  <2>2. req[r].at = now /\ r \in Pending
    BY <1>4, <2>1, Zenon DEF Punctual, Pending, Decided
  <2>3. now < now + 0
    BY <1>4, <2>2, Zenon DEF Tick
  <2>4. QED
    BY <1>2, <2>3 DEF Time
<1>5. ASSUME Past PROVE Past'
  <2>1. SUFFICES ASSUME NEW w \in Windows PROVE bucket[w] <= Current(w, now')
    BY <1>1, <1>5, Zenon DEF Past
  <2>2. /\ bucket[w] \in Time /\ bucket[w] <= Current(w, now)
    BY <1>1, <1>5, Zenon DEF TypeOK, Past
  <2>3. /\ Current(w, now) \in Time /\ Current(w, now') \in Time
        /\ Current(w, now) <= Current(w, now')
    BY <1>2, CurrentFacts
  <2>4. QED
    BY <2>2, <2>3 DEF Time
<1>6. ASSUME MaxLag = 0, Backend = "memory" PROVE MemoryInv'
  <2>1. MemoryInv /\ \A r \in Req : req'[r].pc \in Decided
    BY <1>1, <1>4, <1>6, Zenon DEF Inv, MemoryInv
  <2>2. Punctual' /\ Past' /\ AtMostTwice'
    BY <1>1, <1>5, <2>1, Zenon DEF MemoryInv, Punctual, AtMostTwice
  <2>3. Accounts'
    BY <1>1, <2>1, Zenon DEF MemoryInv, Accounts, Held, Others, Uncounted
  <2>4. \A w \in Windows, r \in Req : Claims(w, r)'
    BY <2>1 DEF Claims, Decided, Passed, Trying, Winning
  <2>5. QED
    BY <2>2, <2>3, <2>4, Zenon DEF MemoryInv
<1>7. ASSUME MaxLag = 0, Backend = "postgres" PROVE RowsInv'
  <2>1. RowsInv /\ \A r \in Req : req'[r].pc \in Decided
    BY <1>1, <1>4, <1>7, Zenon DEF Inv, RowsInv
  <2>2. Punctual' /\ Past' /\ RowsWithinLimit'
    BY <1>1, <1>5, <2>1, Zenon DEF RowsInv, Punctual, RowsWithinLimit
  <2>3. \A r \in Req : RowOf(r)'
    BY <2>1, Zenon DEF RowOf, Decided
  <2>4. QED
    BY <1>1, <2>1, <2>2, <2>3, Zenon DEF RowsInv
<1>8. QED
  BY <1>3, <1>6, <1>7, Zenon DEF Inv

\* What reading a row changes, and what it leaves.
LEMMA LoadRowMoves ==
  ASSUME Base, NEW r \in Req, NEW w \in Windows, NEW from, NEW next \in PCs,
         loadBucket(r, w, from, next)
  PROVE  /\ Moved(r) /\ req'[r].pc = next /\ req'[r].at = req[r].at
         /\ \A v \in Windows : req'[r].own[v] =
              IF v = w THEN ensureBucketCurrent(w, Current(w, req[r].at)) ELSE req[r].own[v]
         /\ ensureBucketCurrent(w, Current(w, req[r].at)) <= limit[w]
<1> DEFINE n == ensureBucketCurrent(w, Current(w, req[r].at))
           o == [req[r].own EXCEPT ![w] = n]
           l == [req[r] EXCEPT !.pc = next, !.own = o]
<1>1. req \in [Req -> RequestSet] /\ req[r] \in RequestSet /\ req[r].own \in [Windows -> Nat]
  BY Zenon DEF Base, TypeOK, RequestSet
<1>2. n \in Nat /\ n <= limit[w]
  <2>1. Backend = "postgres"
    BY Zenon DEF loadBucket
  <2>2. count[w] \in Int /\ count[w] >= 0 /\ count[w] <= limit[w]
    BY <2>1, Zenon DEF Base, TypeOK, CountInv
  <2>3. limit[w] \in Nat
    BY LimitFacts, Zenon
  <2>4. QED
    BY <2>2, <2>3 DEF ensureBucketCurrent
<1>3. req' = [req EXCEPT ![r] = l]
  BY Zenon DEF loadBucket
<1> HIDE DEF n
<1>4. o \in [Windows -> Nat] /\ \A v \in Windows : o[v] = IF v = w THEN n ELSE req[r].own[v]
  BY <1>1, <1>2
<1> HIDE DEF o
<1>5. l \in RequestSet /\ l.pc = next /\ l.at = req[r].at /\ l.own = o
  BY <1>1, <1>4, Zenon DEF RequestSet
<1> HIDE DEF l
<1>6. req'[r] = l /\ Moved(r)
  BY <1>1, <1>3, <1>5, Zenon DEF Moved
<1>7. QED
  BY <1>2, <1>4, <1>5, <1>6, Zenon DEF n

\* Reading a row of either window keeps the invariant.
LEMMA LoadRowStep ==
  ASSUME Inv, NEW r \in Req, LoadSecondRow(r) \/ LoadHourRow(r)
  PROVE  Inv'
<1> DEFINE w == IF req[r].pc = "start" THEN "second" ELSE "hour"
           next == IF req[r].pc = "start" THEN "second_row" ELSE "rows"
<1>1. loadBucket(r, w, req[r].pc, next) /\ req[r].pc \in {"start", "second_row"}
  BY Zenon DEF LoadSecondRow, LoadHourRow, loadBucket
<1>2. w \in Windows /\ next \in PCs /\ next \in OnRows
  BY Zenon DEF Windows, PCs, OnRows
<1>3. /\ Base /\ TypeOK /\ Backend = "postgres" /\ UNCHANGED <<now, bucket, count, admitted>>
      /\ lock[w] = NoReq /\ lock' = [lock EXCEPT ![w] = r] /\ lock \in [Windows -> Req \cup {NoReq}]
  BY <1>1, Zenon DEF Inv, Base, loadBucket, GetGlobalThrottleBucketForUpdate, TypeOK
<1>4. /\ Moved(r) /\ req'[r].pc = next /\ req'[r].at = req[r].at
      /\ \A v \in Windows : req'[r].own[v] =
           IF v = w THEN ensureBucketCurrent(w, Current(w, req[r].at)) ELSE req[r].own[v]
      /\ ensureBucketCurrent(w, Current(w, req[r].at)) <= limit[w]
  BY <1>1, <1>2, <1>3, LoadRowMoves
<1>5. /\ lock' \in [Windows -> Req \cup {NoReq}] /\ lock'[w] = r
      /\ \A v \in Windows \ {w} : lock'[v] = lock[v]
  BY <1>2, <1>3
<1>6. Base'
  <2>1. \A v \in Windows : req'[r].own[v] <= limit[v]
    BY <1>3, <1>4, Zenon DEF Base, CountInv
  <2>2. Cardinality(Held)' = Cardinality(Held)
    <3>1. next \notin {"hour_inc", "undo"} /\ Cardinality(Held) \in Nat
      BY <1>4, HeldFacts, Zenon DEF Moved
    <3>2. QED
      BY <1>1, <1>4, <3>1, HeldFacts DEF Moved
  <2>3. /\ bucket' \in [Windows -> Time] /\ count' \in [Windows -> Int]
        /\ admitted' \in [Windows -> [Time -> Nat]]
    BY <1>3, Zenon DEF TypeOK
  <2>4. /\ \A v \in Windows : count'[v] <= limit[v] /\ count'[v] >= 0
        /\ count'["hour"] >= 0 /\ count'["second"] >= Cardinality(Held)' - Others
    BY <1>3, <2>2, Zenon DEF Base, CountInv
  <2>5. req'[r].pc \in OnRows
    BY <1>2, <1>4, Zenon
  <2>6. QED
    BY <1>3, <1>4, <1>5, <2>1, <2>3, <2>4, <2>5, BaseStep, Zenon
<1>7. ASSUME MaxLag = 0 PROVE RowsInv'
  <2>1. RowsInv
    BY <1>3, <1>7, Zenon DEF Inv
  <2>2. req[r].at = now /\ req'[r].at = now /\ RowOf(r)
    BY <1>1, <1>4, <2>1, Zenon DEF RowsInv, Punctual, Decided
  <2>3. \A v \in Windows, t \in Time : ensureBucketCurrent(v, t)' = ensureBucketCurrent(v, t)
    BY <1>3, Zenon DEF ensureBucketCurrent
  <2>4. \A v \in Windows : Current(v, now) \in Time
    BY <1>3, CurrentFacts, Zenon DEF TypeOK
  <2>5. RowOf(r)'
    <3>1. CASE req[r].pc = "start"
      BY <1>3, <1>4, <1>5, <2>2, <2>3, <2>4, <3>1, Zenon DEF RowOf, Windows, ensureBucketCurrent
    <3>2. CASE req[r].pc = "second_row"
      BY <1>3, <1>4, <1>5, <2>2, <2>3, <2>4, <3>2, Zenon DEF RowOf, Windows, ensureBucketCurrent
    <3>3. QED
      BY <1>1, <3>1, <3>2
  <2>6. \A q \in Req \ {r}, v \in Windows : lock[v] = q => lock'[v] = q
    <3>1. NoReq \notin Req
      BY ThrottleAssumption
    <3>2. QED
      BY <1>3, <1>5, <3>1, Zenon
  <2>7. QED
    BY <1>3, <1>4, <2>1, <2>2, <2>5, <2>6, QuietRows, Zenon
<1>8. QED
  BY <1>3, <1>6, <1>7, PostgresStep, Zenon

\* The end of a transaction frees its rows and no others.
LEMMA UnlockedFacts ==
  ASSUME TypeOK, NEW r \in Req
  PROVE  /\ Unlocked(r) \in [Windows -> Req \cup {NoReq}]
         /\ \A q \in Req \ {r}, w \in Windows : lock[w] = q => Unlocked(r)[w] = q
BY DEF TypeOK, Unlocked

\* A transaction that fails writes nothing.
LEMMA RollbackStep ==
  ASSUME Inv, NEW r \in Req, Rollback(r)
  PROVE  Inv'
<1>1. /\ Base /\ TypeOK /\ req[r].pc \in {"second_row", "rows"} /\ lock' = Unlocked(r)
      /\ Return(r, "error") /\ UNCHANGED <<now, bucket, count, admitted>>
  BY Zenon DEF Inv, Base, Rollback
<1>2. Backend = "postgres" /\ "error" \in PCs /\ "error" \in OnRows
  BY <1>1, Zenon DEF Base, OwnSteps, PCs, OnRows
<1>3. Moved(r) /\ req'[r].pc = "error" /\ \A w \in Windows : req'[r].own[w] = 0
  BY <1>1, <1>2, ReturnMoves, Zenon
<1>4. Base'
  <2>1. Cardinality(Held)' = Cardinality(Held) /\ Cardinality(Held) \in Nat
    BY <1>1, <1>3, HeldFacts DEF Moved
  <2>2. /\ bucket' \in [Windows -> Time] /\ count' \in [Windows -> Int]
        /\ admitted' \in [Windows -> [Time -> Nat]] /\ lock' \in [Windows -> Req \cup {NoReq}]
    BY <1>1, UnlockedFacts, Zenon DEF TypeOK
  <2>3. /\ \A v \in Windows : count'[v] <= limit[v] /\ count'[v] >= 0
        /\ count'["hour"] >= 0 /\ count'["second"] >= Cardinality(Held)' - Others
    BY <1>1, <1>2, <2>1, Zenon DEF Base, CountInv
  <2>4. \A w \in Windows : req'[r].own[w] <= limit[w]
    BY <1>3, LimitFacts
  <2>5. QED
    BY <1>1, <1>2, <1>3, <2>2, <2>3, <2>4, BaseStep, Zenon
<1>5. ASSUME MaxLag = 0 PROVE RowsInv'
  <2>1. RowsInv
    BY <1>2, <1>5, Zenon DEF Inv
  <2>2. RowOf(r)' /\ req'[r].pc \in Decided
    BY <1>3, Zenon DEF RowOf, Decided
  <2>3. QED
    <3>1. \A q \in Req \ {r}, w \in Windows : lock[w] = q => lock'[w] = q
      BY <1>1, UnlockedFacts
    <3>2. QED
      BY <1>1, <1>3, <2>1, <2>2, <3>1, QuietRows, Zenon
<1>6. QED
  BY <1>2, <1>4, <1>5, PostgresStep, Zenon

\* The commit of both rows keeps the invariant, whether the request is admitted,
\* blocked, or never hears of it.
LEMMA WriteRowsStep ==
  ASSUME Inv, NEW r \in Req, req[r].pc = "rows", WriteRows(r), UNCHANGED now,
         Moved(r), req'[r].pc \in {"allowed", "blocked", "error"},
         \A w \in Windows : req'[r].own[w] = 0,
         (Fits(r) /\ Admit(r)) \/ UNCHANGED admitted
  PROVE  Inv'
<1>1. Base /\ TypeOK /\ CountInv
  BY Zenon DEF Inv, Base
<1>2. Backend = "postgres"
  BY <1>1, Zenon DEF Base, OwnSteps
<1>3. req[r].at \in Time /\ \A w \in Windows : Current(w, req[r].at) \in Time
  BY <1>1, CurrentFacts, Zenon DEF TypeOK
<1>4. \A w \in Windows : /\ req[r].own[w] \in Nat /\ req[r].own[w] <= limit[w]
                         /\ limit[w] \in Nat /\ bucket[w] \in Time /\ count[w] \in Int
  BY <1>1, LimitFacts, Zenon DEF TypeOK, CountInv
<1>5. \A w \in Windows : /\ bucket'[w] = Current(w, req[r].at)
                         /\ count'[w] = IF Fits(r) THEN updateBucket(req[r].own[w] + 1) ELSE req[r].own[w]
  BY Zenon DEF WriteRows
<1>6. bucket' \in [Windows -> Time] /\ lock' = Unlocked(r) /\ lock' \in [Windows -> Req \cup {NoReq}]
  BY <1>1, <1>3, UnlockedFacts, Zenon DEF WriteRows
<1>7. \A w \in Windows : count'[w] \in Nat /\ count'[w] <= limit[w]
  <2>1. CountCap \in Nat
    BY ThrottleAssumption
  <2>2. QED
    BY <1>4, <1>5, <2>1 DEF Fits, updateBucket
<1>8. count' \in [Windows -> Int]
  <2>1. count' = [w \in Windows |-> count'[w]]
    BY Zenon DEF WriteRows
  <2>2. QED
    BY <1>7, <2>1
<1>9. /\ admitted' \in [Windows -> [Time -> Nat]]
      /\ \A w \in Windows, t \in Time :
           admitted'[w][t] = IF ~UNCHANGED admitted /\ t = Current(w, req[r].at)
                             THEN admitted[w][t] + 1 ELSE admitted[w][t]
  <2>1. CASE UNCHANGED admitted
    BY <1>1, <2>1, Zenon DEF TypeOK
  <2>2. CASE ~UNCHANGED admitted
    BY <1>1, <2>2, AdmitFacts
  <2>3. QED
    BY <2>1, <2>2
<1>10. Base'
  <2>1. /\ Cardinality(Held)' = Cardinality(Held) /\ Cardinality(Held) \in Nat
        /\ Cardinality(Held) <= Others /\ Others \in Nat
    BY HeldFacts DEF Moved
  <2>2. count'["hour"] >= 0 /\ count'["second"] >= Cardinality(Held)' - Others
    BY <1>7, <2>1 DEF Windows
  <2>3. /\ \A w \in Windows : count'[w] <= limit[w] /\ count'[w] >= 0
        /\ \A w \in Windows : req'[r].own[w] <= limit[w]
    BY <1>4, <1>7
  <2>4. req'[r].pc \in OnRows
    BY Zenon DEF OnRows
  <2>5. QED
    BY <1>1, <1>2, <1>6, <1>8, <1>9, <2>2, <2>3, <2>4, BaseStep, Zenon
<1>11. ASSUME MaxLag = 0 PROVE RowsInv'
  <2>1. RowsInv
    BY <1>2, <1>11, Zenon DEF Inv
  <2>2. req[r].at = now
    BY <2>1, Zenon DEF RowsInv, Punctual, Decided
  <2>3. lock["second"] = r /\ \A w \in Windows : req[r].own[w] = ensureBucketCurrent(w, Current(w, now))
    BY <2>1, Zenon DEF RowsInv, RowOf, Windows
  <2>4. Punctual'
    BY <2>1, Zenon DEF RowsInv, Punctual, Moved, Decided
  <2>5. \A q \in Req : req'[q].pc \notin {"second_row", "rows"}
    <3>1. \A q \in Req \ {r} : req'[q] = req[q] /\ RowOf(q)
      BY <2>1, Zenon DEF RowsInv, Moved
    <3>2. QED
      BY <2>3, <3>1, Zenon DEF RowOf
  <2>6. \A q \in Req : RowOf(q)'
    BY <2>5, Zenon DEF RowOf
  <2>7. ASSUME NEW w \in Windows
        PROVE  /\ admitted[w][Current(w, now)] \in Nat
               /\ updateBucket(admitted[w][Current(w, now)]) <= req[r].own[w]
               /\ bucket[w] <= Current(w, now) /\ bucket'[w] = Current(w, now)
    <3>1. /\ bucket[w] <= Current(w, now) /\ \A t \in Time : t > bucket[w] => admitted[w][t] = 0
          /\ updateBucket(admitted[w][bucket[w]]) <= count[w]
      BY <2>1, Zenon DEF RowsInv, Past
    <3>2. Current(w, now) \in Time /\ admitted[w][Current(w, now)] \in Nat
      BY <1>1, <1>3, <2>2, Zenon DEF TypeOK
    <3>3. bucket'[w] = Current(w, now)
      BY <1>5, <2>2, Zenon
    <3>4. CASE bucket[w] = Current(w, now)
      BY <2>3, <3>1, <3>2, <3>3, <3>4, Zenon DEF ensureBucketCurrent
    <3>5. CASE bucket[w] # Current(w, now)
      <4>1. Current(w, now) > bucket[w]
        BY <1>4, <3>1, <3>2, <3>5 DEF Time
      <4>2. admitted[w][Current(w, now)] = 0 /\ req[r].own[w] = 0
        BY <2>3, <3>1, <3>2, <3>5, <4>1, Zenon DEF ensureBucketCurrent
      <4>3. QED
        BY <3>1, <3>2, <3>3, <4>2, ThrottleAssumption DEF updateBucket
    <3>6. QED
      BY <3>4, <3>5
  <2>8. Past'
    <3> \A w \in Windows : bucket'[w] <= Current(w, now')
      <4>1. now' = now /\ \A w \in Windows : Current(w, now) \in Int
        BY <1>3, <2>2 DEF Time
      <4>2. QED
        BY <2>7, <4>1
    <3>1. SUFFICES ASSUME NEW w \in Windows, NEW t \in Time, t > bucket'[w]
                   PROVE  admitted'[w][t] = 0
      BY Zenon DEF Past
    <3>2. /\ Current(w, now) \in Time /\ bucket[w] \in Time /\ bucket[w] <= Current(w, now)
          /\ t > Current(w, now)
      BY <1>3, <1>4, <2>2, <2>7, <3>1
    <3>3. t > bucket[w] /\ t # Current(w, now)
      BY <3>2 DEF Time
    <3>4. admitted[w][t] = 0
      BY <2>1, <3>3, Zenon DEF RowsInv, Past
    <3>5. QED
      BY <1>9, <2>2, <3>3, <3>4
  <2>9. \A w \in Windows : updateBucket(admitted'[w][bucket'[w]]) <= count'[w]
    <3>1. SUFFICES ASSUME NEW w \in Windows
                   PROVE  updateBucket(admitted'[w][Current(w, now)]) <= count'[w]
      BY <2>7
    <3>2. Current(w, now) \in Time /\ CountCap \in Nat
      BY <1>3, <2>2, ThrottleAssumption
    <3>3. CASE UNCHANGED admitted
      <4>1. count'[w] >= updateBucket(req[r].own[w])
        BY <1>4, <1>5, <3>2 DEF updateBucket
      <4>2. QED
        BY <1>4, <1>7, <2>7, <3>2, <3>3, <4>1 DEF updateBucket
    <3>4. CASE ~UNCHANGED admitted
      <4>1. Fits(r)
        BY <3>4
      <4>2. count'[w] = updateBucket(req[r].own[w] + 1)
        BY <1>5, <4>1
      <4>3. admitted'[w][Current(w, now)] = admitted[w][Current(w, now)] + 1
        BY <1>9, <2>2, <3>2, <3>4
      <4>4. QED
        BY <1>4, <2>7, <3>2, <4>2, <4>3 DEF updateBucket
    <3>5. QED
      BY <3>3, <3>4
  <2>10. RowsWithinLimit'
    <3>1. SUFFICES ASSUME NEW w \in Windows, limit[w] <= CountCap, NEW t \in Time
                   PROVE  admitted'[w][t] <= limit[w]
      BY Zenon DEF RowsWithinLimit
    <3>2. CASE t = Current(w, now) /\ ~UNCHANGED admitted
      <4>1. /\ req[r].own[w] + 1 <= limit[w] /\ CountCap \in Nat
            /\ admitted'[w][t] = admitted[w][t] + 1 /\ admitted[w][t] \in Nat
        BY <1>9, <2>2, <2>7, <3>2, ThrottleAssumption DEF Fits
      <4>2. admitted[w][t] <= req[r].own[w]
        BY <1>4, <2>7, <3>1, <3>2, <4>1 DEF updateBucket
      <4>3. QED
        BY <1>4, <4>1, <4>2
    <3>3. CASE ~(t = Current(w, now) /\ ~UNCHANGED admitted)
      BY <1>9, <2>1, <2>2, <3>1, <3>3, Zenon DEF RowsInv, RowsWithinLimit
    <3>4. QED
      BY <3>2, <3>3
  <2>11. QED
    BY <2>4, <2>6, <2>8, <2>9, <2>10, Zenon DEF RowsInv
<1>12. QED
  BY <1>2, <1>10, <1>11, PostgresStep, Zenon

\* Both ways of committing keep the invariant.
LEMMA CommitStep ==
  ASSUME Inv, NEW r \in Req, CommitIncrement(r) \/ CommitUnknown(r)
  PROVE  Inv'
<1>1. TypeOK /\ req[r].pc = "rows" /\ WriteRows(r) /\ UNCHANGED now
  BY Zenon DEF Inv, Base, CommitIncrement, CommitUnknown
<1>2. PICK pc \in {"allowed", "blocked", "error"} : Return(r, pc)
  BY Zenon DEF CommitIncrement, CommitUnknown, Admit
<1>3. (Fits(r) /\ Admit(r)) \/ UNCHANGED admitted
  BY Zenon DEF CommitIncrement, CommitUnknown
<1>4. pc \in PCs
  BY Zenon DEF PCs
<1>5. Moved(r) /\ req'[r].pc = pc /\ \A w \in Windows : req'[r].own[w] = 0
  BY <1>1, <1>2, <1>4, ReturnMoves, Zenon
<1>6. QED
  BY <1>1, <1>2, <1>3, <1>5, WriteRowsStep, Zenon
-----------------------------------------------------------------------------
(* The theorem.                                                            *)

\* The initial state satisfies the invariant.
LEMMA InitInv == Init => Inv
<1>1. SUFFICES ASSUME Init PROVE Inv
  OBVIOUS
<1>2. /\ \A w \in Windows : bucket[w] = 0 /\ count[w] = 0 /\ lock[w] = NoReq
      /\ \A w \in Windows, t \in Time : admitted[w][t] = 0
      /\ \A r \in Req : req[r].pc = "idle" /\ \A w \in Windows : req[r].own[w] = 0
  BY <1>1, Zenon DEF Init, NoBucket, Idle
<1>3. 0 \in Time /\ HourLen \in Time /\ now = HourLen
  BY <1>1, ThrottleAssumption DEF Time, Init
<1>4. TypeOK
  <2>1. Idle \in [pc : PCs, at : Time, seen : Time, own : [Windows -> Nat]]
    BY <1>3, Zenon DEF Idle, PCs
  <2>2. QED
    BY <1>1, <1>3, <2>1 DEF TypeOK, Init, NoBucket
<1>5. \A w \in Windows : limit[w] \in Nat
  BY LimitFacts, Zenon
<1>6. Held = {} /\ Cardinality(Held) = 0 /\ Cardinality(Req) \in Nat /\ Cardinality(Req) # 0
  <2>1. Held = {}
    BY <1>2, Zenon DEF Held
  <2>2. QED
    BY <2>1, ThrottleAssumption, FS_EmptySet, FS_CardinalityType
<1>7. Base
  <2>1. OwnSteps
    BY <1>2, Zenon DEF OwnSteps, OnRows
  <2>2. CountInv
    BY <1>2, <1>5, <1>6 DEF CountInv, Windows, Others
  <2>3. QED
    BY <1>4, <2>1, <2>2, Zenon DEF Base
<1>8. Punctual /\ \A r \in Req : req[r].pc \in Decided
  BY <1>2, Zenon DEF Punctual, Decided
<1>9. Past
  BY <1>2, <1>3, CurrentFacts DEF Past, Time
<1>10. MemoryInv
  <2>1. \A w \in Windows : Uncounted(w) \in Nat
    BY <1>5, Zenon DEF Uncounted
  <2>2. Accounts
    BY <1>2, <1>3, <1>6, <2>1 DEF Accounts, Windows, Others
  <2>3. AtMostTwice
    BY <1>2, <1>6, ThrottleAssumption DEF AtMostTwice, Windows
  <2>4. \A w \in Windows, r \in Req : Claims(w, r)
    BY <1>8 DEF Claims, Decided, Passed, Trying, Winning
  <2>5. QED
    BY <1>8, <1>9, <2>2, <2>3, <2>4, Zenon DEF MemoryInv
<1>11. RowsInv
  <2>1. RowsWithinLimit /\ \A w \in Windows : updateBucket(admitted[w][bucket[w]]) <= count[w]
    BY <1>2, <1>3, <1>5, ThrottleAssumption DEF RowsWithinLimit, updateBucket
  <2>2. \A r \in Req : RowOf(r)
    BY <1>8, Zenon DEF RowOf, Decided
  <2>3. QED
    BY <1>8, <1>9, <2>1, <2>2, Zenon DEF RowsInv
<1>12. QED
  BY <1>7, <1>10, <1>11, Zenon DEF Inv

\* Every step keeps the invariant.
LEMMA NextInv == Inv /\ [Next]_vars => Inv'
<1>1. SUFFICES ASSUME Inv, [Next]_vars PROVE Inv'
  OBVIOUS
<1>2. CASE UNCHANGED vars
  <2>1. UNCHANGED <<now, bucket, count, lock, req, admitted>>
    BY <1>2, Zenon DEF vars
  <2>2. Base'
    BY <1>1, <2>1, Zenon DEF Inv, Base, TypeOK, OwnSteps, CountInv, Held, Others
  <2>3. ASSUME MemoryInv PROVE MemoryInv'
    <3>1. Punctual' /\ Past' /\ AtMostTwice'
      BY <2>1, <2>3, Zenon DEF MemoryInv, Punctual, Past, AtMostTwice
    <3>2. Accounts'
      BY <2>1, <2>3, Zenon DEF MemoryInv, Accounts, Held, Others, Uncounted
    <3>3. \A w \in Windows, r \in Req : Claims(w, r)'
      BY <2>1, <2>3, Zenon DEF MemoryInv, Claims
    <3>4. QED
      BY <3>1, <3>2, <3>3, Zenon DEF MemoryInv
  <2>4. ASSUME RowsInv PROVE RowsInv'
    BY <2>1, <2>4, Zenon DEF RowsInv, Punctual, Past, RowsWithinLimit, RowOf, ensureBucketCurrent
  <2>5. QED
    BY <1>1, <2>2, <2>3, <2>4, Zenon DEF Inv
<1>3. CASE Tick
  BY <1>1, <1>3, TickStep, Zenon
<1>4. ASSUME NEW r \in Req, Arrive(r) \/ Step(r) \/ CommitUnknown(r) \/ Rollback(r)
      PROVE  Inv'
  <2>1. "second" \in Windows /\ "hour" \in Windows
    BY Zenon DEF Windows
  <2>2. CASE Arrive(r)
    BY <1>1, <2>2, ArriveStep, Zenon
  <2>3. CASE LoadSecond(r)
    BY <1>1, <2>3, LoadSecondStep, Zenon
  <2>4. CASE LoadHour(r)
    BY <1>1, <2>4, LoadHourStep, Zenon
  <2>5. CASE ClaimSecond(r)
    BY <1>1, <2>1, <2>5, ClaimStep, Zenon DEF ClaimSecond, Trying, Winning
  <2>6. CASE ClaimHour(r)
    BY <1>1, <2>1, <2>6, ClaimStep, Zenon DEF ClaimHour, Trying, Winning
  <2>7. CASE ZeroSecond(r)
    BY <1>1, <2>1, <2>7, ZeroStep, Zenon DEF ZeroSecond, Winning
  <2>8. CASE ZeroHour(r)
    BY <1>1, <2>1, <2>8, ZeroStep, Zenon DEF ZeroHour, Winning
  <2>9. CASE IncrementSecond(r)
    BY <1>1, <2>9, IncrementSecondStep, Zenon
  <2>10. CASE IncrementHour(r)
    BY <1>1, <2>10, IncrementHourStep, Zenon
  <2>11. CASE Undo(r)
    BY <1>1, <2>11, UndoStep, Zenon
  <2>12. CASE LoadSecondRow(r) \/ LoadHourRow(r)
    BY <1>1, <2>12, LoadRowStep, Zenon
  <2>13. CASE CommitIncrement(r) \/ CommitUnknown(r)
    BY <1>1, <2>13, CommitStep, Zenon
  <2>14. CASE Rollback(r)
    BY <1>1, <2>14, RollbackStep, Zenon
  <2>15. QED
    BY <1>4, <2>2, <2>3, <2>4, <2>5, <2>6, <2>7, <2>8, <2>9, <2>10, <2>11, <2>12, <2>13, <2>14, Zenon
       DEF Step
<1>5. QED
  BY <1>1, <1>2, <1>3, <1>4, Zenon DEF Next

\* The bounds follow from the invariant.
LEMMA InvBounds == Inv => ThrottleBounded
<1>1. SUFFICES ASSUME Inv PROVE ThrottleBounded
  OBVIOUS
<1>2. NeverAboveLimit
  BY <1>1, Zenon DEF Inv, Base, CountInv, NeverAboveLimit
<1>3. NeverFarBelow
  <2>1. /\ count["second"] \in Int /\ count["hour"] >= 0
        /\ count["second"] >= Cardinality(Held) - Others
    BY <1>1, Zenon DEF Inv, Base, TypeOK, CountInv, Windows
  <2>2. Cardinality(Held) \in Nat /\ Cardinality(Req) \in Nat
    <3>1. Held \subseteq Req
      BY Zenon DEF Held
    <3>2. QED
      BY <3>1, ThrottleAssumption, FS_Subset, FS_CardinalityType
  <2>3. QED
    BY <2>1, <2>2 DEF NeverFarBelow, Others
<1>4. QED
  BY <1>1, <1>2, <1>3, Zenon
     DEF Inv, MemoryInv, RowsInv, ThrottleBounded, EveryAdmissionCounted

\* Counters, rows and requests of the throttle have their types.
THEOREM ThrottleTypes == Spec => []TypeOK
<1>1. Inv => TypeOK
  BY Zenon DEF Inv, Base
<1>2. QED
  BY <1>1, InitInv, NextInv, PTL DEF Spec

\* In every order of arrivals, claims, resets, increments, roll-backs, commits and
\* failures the counters of the throttle stay within their limits and never fall
\* below minus the number of the other requests; with requests decided in the
\* second they came in, the atomic counters of IncrementGlobal admit at most twice
\* the limit of an hour, and of a second one more for every other request, while
\* the locked rows count every admission up to the cap of updateBucket and admit at
\* most a limit that is not above it.
THEOREM ThrottleStaysBounded == Spec => []ThrottleBounded
BY InitInv, NextInv, InvBounds, PTL DEF Spec
=============================================================================
