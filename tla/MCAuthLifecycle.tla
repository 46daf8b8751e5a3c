--------------------------- MODULE MCAuthLifecycle ---------------------------
(* Small instances of AuthLifecycle. *)
EXTENDS AuthLifecycle, TLC

CONSTANTS p1, p2, v1, v2, u1, u2

VARIABLE part     \* the scenario of this behaviour

OneServer == [p \in Proc |-> v1]
TwoServers == (p1 :> v1) @@ (p2 :> v2)
OneEmail == [u \in User |-> "a"]

\* The tokens of one session, while the clock runs and deadlines pass.
Tokens == INSTANCE AuthLifecycle WITH
  Ops <- {"authorize", "exchange", "refresh", "revokeSession"}, TRLFailureMode <- "warn"
\* Whatever ends a session, on two sessions and two users with the same address.
Endings == INSTANCE AuthLifecycle WITH
  Ops <- {"authorize", "exchange", "revokeSession", "revokeToken", "logoutAll", "deleteUser"},
  MaxTime <- 0

\* The session, user and token identifiers in use.  Users differ in their names
\* only, so the first of them is u1.
Uses(sessionCount, tokenCount, U) ==
  /\ Cardinality({s \in Session : sessions'[s].st # "free"}) <= sessionCount
  /\ Cardinality({t \in Tok : access'[t].sess # None}) <= tokenCount
  /\ \A u \in User \ U : users'[u] = "free"
  /\ \A p \in Proc : req'[p].user \in U \cup {None}
  /\ users'[u1] = "free" => users'[u2] = "free"
  /\ \A p \in Proc : req'[p].grant \in Session => sessions'[req'[p].grant].st # "free"

MCInit == Init /\ part \in {"tokens", "endings"}

MCNext ==
  \/ part = "tokens" /\ Tokens!Next /\ Uses(1, 3, {u1}) /\ UNCHANGED part
  \/ part = "endings" /\ Endings!Next /\ Uses(2, 2, User) /\ UNCHANGED part

MCSpec == MCInit /\ [][MCNext]_<<part, vars>>

\* Only what AuthLifecycle says, with the constants of the configuration.
PlainSpec == part = "plain" /\ Init /\ [][Next /\ UNCHANGED part]_<<part, vars>> /\ Fairness

Symmetry == Permutations(Tok) \cup Permutations(Session)
=============================================================================
