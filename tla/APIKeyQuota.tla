----------------------------- MODULE APIKeyQuota ------------------------------
(***************************************************************************)
(* Monthly quotas of partner API keys: the quota service, its admin        *)
(* handlers and the in-memory store.                                       *)
(*                                                                         *)
(* The store hands out pointers to its records: Increment tests the limit  *)
(* after the lock is released, on the record as it is by then.  Time is    *)
(* counted in units of which Month make a calendar month; the first month  *)
(* begins at 0.  The enterprise tier has the limit -1, "unlimited".        *)
(***************************************************************************)
EXTENDS Integers, TLC

CONSTANTS
  Callers, Keys,
  Counts,                     \* what a caller adds in one call
  FreeLimit, StarterLimit,
  Month, MaxTime, MaxUsage    \* length of a month; bounds

VARIABLES
  now,
  quotas,     \* API key -> record, for the keys that have one
  pending,    \* caller -> the key it has incremented and not yet tested, or "none"
  counted,    \* history: key -> requests added since the last reset
  monthly,    \* history: key -> those of them added in the current month
  over,       \* history: keys an Increment took over their limit since it was last set
  logged      \* history: of those, the ones with an api_key_quota_exceeded event

vars == <<now, quotas, pending, counted, monthly, over, logged>>
-----------------------------------------------------------------------------

\* Business differs from starter in numbers only.
Tiers == {"free", "starter", "enterprise"}

QuotaTiers(tier) ==
  CASE tier = "free"       -> [monthly |-> FreeLimit, overage |-> FALSE]
    [] tier = "starter"    -> [monthly |-> StarterLimit, overage |-> TRUE]
    [] tier = "enterprise" -> [monthly |-> -1, overage |-> TRUE]

\* The record the store makes; its period begins now, not with the month.
NewQuota(tier) ==
  [tier |-> tier, limit |-> QuotaTiers(tier).monthly, overage |-> QuotaTiers(tier).overage,
   usage |-> 0, start |-> now, end |-> now + Month]

Exceeds(q) == q.usage > q.limit /\ q.limit > 0

Init ==
  /\ now = 0
  /\ quotas = <<>>
  /\ pending = [c \in Callers |-> "none"]
  /\ counted = [k \in Keys |-> 0]
  /\ monthly = [k \in Keys |-> 0]
  /\ over = {}
  /\ logged = {}

\* Increment, as far as the store's lock reaches.
IncrementUsage(c, key, n) ==
  LET q == IF key \in DOMAIN quotas THEN quotas[key] ELSE NewQuota("free")
      raised == [q EXCEPT !.usage = @ + n]
  IN  /\ pending[c] = "none"
      /\ counted[key] + n <= MaxUsage     \* bound
      /\ quotas' = (key :> raised) @@ quotas
      /\ pending' = [pending EXCEPT ![c] = key]
      /\ counted' = [counted EXCEPT ![key] = @ + n]
      /\ monthly' = [monthly EXCEPT ![key] = @ + n]
      /\ over' = IF Exceeds(raised) THEN over \cup {key} ELSE over
      /\ UNCHANGED <<now, logged>>

\* The rest of Increment: the test reads the shared record once more.
Increment(c) ==
  LET q == quotas[pending[c]]
  IN  /\ pending[c] # "none"
      /\ logged' = IF Exceeds(q) THEN logged \cup {pending[c]} ELSE logged
      /\ pending' = [pending EXCEPT ![c] = "none"]
      /\ UNCHANGED <<now, quotas, counted, monthly, over>>

\* HandleResetQuota: Reset, ResetQuota; a key without a record is left alone.
ResetQuota(key) ==
  /\ key \in DOMAIN quotas
  /\ quotas' = [quotas EXCEPT ![key].usage = 0, ![key].start = now, ![key].end = now + Month]
  /\ counted' = [counted EXCEPT ![key] = 0]
  /\ monthly' = [monthly EXCEPT ![key] = 0]
  /\ over' = over \ {key}
  /\ logged' = logged \ {key}
  /\ UNCHANGED <<now, pending>>

SetTier(key, tier) ==
  IF key \in DOMAIN quotas
    THEN [quotas[key] EXCEPT !.tier = tier, !.limit = QuotaTiers(tier).monthly,
                             !.overage = QuotaTiers(tier).overage]
    ELSE NewQuota(tier)

\* HandleUpdateQuotaTier: UpdateTier; an invalid tier changes nothing.
UpdateTier(key, tier) ==
  /\ tier \in Tiers
  /\ quotas' = (key :> SetTier(key, tier)) @@ quotas
  /\ over' = over \ {key}
  /\ logged' = logged \ {key}
  /\ UNCHANGED <<now, pending, counted, monthly>>

Tick ==
  /\ now < MaxTime     \* bound
  /\ now' = now + 1
  /\ monthly' = IF now' % Month = 0 THEN [k \in Keys |-> 0] ELSE monthly
  /\ UNCHANGED <<quotas, pending, counted, over, logged>>

Next ==
  \/ \E c \in Callers, k \in Keys, n \in Counts : IncrementUsage(c, k, n)
  \/ \E c \in Callers : Increment(c)
  \/ \E k \in Keys : ResetQuota(k)
  \/ \E k \in Keys, t \in Tiers : UpdateTier(k, t)
  \/ Tick

Spec == Init /\ [][Next]_vars
-----------------------------------------------------------------------------

\* Type invariant; the limit and the overage rule are always the tier's own.
TypeOK ==
  /\ now \in 0..MaxTime
  /\ DOMAIN quotas \subseteq Keys
  /\ \A k \in DOMAIN quotas :
       /\ quotas[k].tier \in Tiers
       /\ quotas[k].limit = QuotaTiers(quotas[k].tier).monthly
       /\ quotas[k].overage = QuotaTiers(quotas[k].tier).overage
       /\ quotas[k].end = quotas[k].start + Month /\ quotas[k].start <= now
  /\ pending \in [Callers -> Keys \cup {"none"}]
  /\ over \subseteq Keys /\ logged \subseteq Keys

\* The usage of a key is what its callers added since the last reset, whatever
\* increments, resets and tier changes ran between (UpdateTier "does not reset
\* current usage").
UsageExact ==
  \A k \in Keys : counted[k] = IF k \in DOMAIN quotas THEN quotas[k].usage ELSE 0

\* A key that a request took over its limit has its exceeded event once no
\* call is under way, although the test runs after the unlock: a later
\* increment only adds to the usage, and a reset or a tier change starts anew.
OverageLogged ==
  \A k \in over : k \in logged \/ \E c \in Callers : pending[c] = k

\* "Quotas reset on the first day of each calendar month": a key's usage is
\* that of the current month.
\* The code does not keep this statement.
UsageOfThisMonth ==
  \A k \in DOMAIN quotas : quotas[k].usage = monthly[k]
=============================================================================
