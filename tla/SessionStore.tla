----------------------------- MODULE SessionStore -----------------------------
(***************************************************************************)
(* What a session store promises its callers, as the store in memory does  *)
(* it under one lock: every operation is atomic, and a session that was    *)
(* removed does not come back.                                             *)
(***************************************************************************)
EXTENDS FiniteSets

CONSTANTS Session, User, Client

VARIABLE sessions     \* status, owner, and the clients whose activity it records

Absent == [status |-> "absent", user |-> "nobody", seen |-> {}]
Gone == [status |-> "gone", user |-> "nobody", seen |-> {}]
Here(d) == d.status \in {"active", "revoked"}

StoreInit == sessions = [s \in Session |-> Absent]

Create(s, u) ==
  /\ sessions[s] = Absent
  /\ sessions' = [sessions EXCEPT ![s] = [status |-> "active", user |-> u, seen |-> {}]]

\* Execute with the callbacks of a revocation: CanRevoke and ApplyRevocation.
RevokeSessionIfActive(s) ==
  /\ sessions[s].status = "active"
  /\ sessions' = [sessions EXCEPT ![s].status = "revoked"]

\* Execute with the callbacks of a refresh: a session that may be advanced, and
\* RecordActivity.
Execute(s, c) ==
  /\ sessions[s].status = "active"
  /\ sessions' = [sessions EXCEPT ![s].seen = @ \cup {c}]

DeleteSessionsByUser(u) ==
  /\ \E s \in Session : Here(sessions[s]) /\ sessions[s].user = u
  /\ sessions' = [s \in Session |-> IF sessions[s].user = u THEN Gone ELSE sessions[s]]

DeleteExpiredSessions(gone) ==
  /\ gone # {} /\ \A s \in gone : Here(sessions[s])
  /\ sessions' = [s \in Session |-> IF s \in gone THEN Gone ELSE sessions[s]]

StoreNext ==
  \/ \E s \in Session :
       \/ \E u \in User : Create(s, u)
       \/ RevokeSessionIfActive(s)
       \/ \E c \in Client : Execute(s, c)
  \/ \E u \in User : DeleteSessionsByUser(u)
  \/ \E gone \in SUBSET Session : DeleteExpiredSessions(gone)

Store == StoreInit /\ [][StoreNext]_sessions
=============================================================================
