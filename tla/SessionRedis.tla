----------------------------- MODULE SessionRedis -----------------------------
(***************************************************************************)
(* The session store in Redis: a key per session with a TTL, and a set per *)
(* user that lists the user's sessions.  Clients run their operations as   *)
(* single commands, pipelines that others may interleave with, or a WATCH  *)
(* transaction.                                                            *)
(*                                                                         *)
(* Time is counted in fractions of a second: TTL answers whole seconds.    *)
(***************************************************************************)
EXTENDS Integers, FiniteSets

CONSTANTS
  Session, User, Client,
  Ops,            \* what clients do: "create", "execute", "list", "update", "delete"
  Faults,         \* {"connection"}: a pipeline may break half way
  Second,         \* units of time in a second
  SessionTTL, DefaultTTL, Slack,
  maxSessionsPerUser,
  Latency,        \* bound: age of the times that a request brings along
  MaxTime         \* bound

ASSUME RedisAssumption ==
  /\ Ops \subseteq {"create", "execute", "list", "update", "delete"}
  /\ Faults \subseteq {"connection"} /\ Session # {} /\ User # {}
  /\ {SessionTTL, DefaultTTL, Slack, maxSessionsPerUser, Latency, MaxTime} \subseteq Nat
  /\ Second \in Nat \ {0} /\ Latency <= SessionTTL

VARIABLES
  now,
  keys,           \* session:<id>, as in SessionStore
  expires,        \* when the key goes
  expiresAt,      \* ExpiresAt of the session
  index,          \* user_sessions:<user>
  indexExpires,   \* when the set goes, 0 when it has no expiry
  client,
  srem,           \* members of user sets that ListByUser will remove
  removed         \* history: sessions that were deleted or have expired

vars == <<now, keys, expires, expiresAt, index, indexExpires, client, srem, removed>>
-----------------------------------------------------------------------------

SS == INSTANCE SessionStore WITH sessions <- keys

Idle == [pc |-> "idle", s |-> CHOOSE s \in Session : TRUE, user |-> CHOOSE u \in User : TRUE,
         copy |-> SS!Absent, ttl |-> 0, dirty |-> FALSE, ids |-> {}, known |-> {}]
Here(s) == SS!Here(keys[s])

TypeOK ==
  /\ now \in 0 .. MaxTime
  /\ \A s \in Session : keys[s].status \in {"absent", "active", "revoked", "gone"} /\ keys[s].seen \subseteq Client
  /\ \A s \in Session : Here(s) => keys[s].user \in User
  /\ index \in [User -> SUBSET Session]
  /\ \A c \in Client : client[c].ttl >= 0 /\ client[c].ids \subseteq Session
  /\ srem \in [User -> SUBSET Session] /\ removed \subseteq Session

Init ==
  /\ now = 0
  /\ keys = [s \in Session |-> SS!Absent]
  /\ expires = [s \in Session |-> 0] /\ expiresAt = [s \in Session |-> 0]
  /\ index = [u \in User |-> {}] /\ indexExpires = [u \in User |-> 0]
  /\ client = [c \in Client |-> Idle]
  /\ srem = [u \in User |-> {}] /\ removed = {}

\* Clients that watch one of the keys ss learn at EXEC that it has changed.
Touched(cl, ss) ==
  [c \in Client |-> IF cl[c].pc \in {"exTTL", "exExec"} /\ cl[c].s \in ss THEN [cl[c] EXCEPT !.dirty = TRUE] ELSE cl[c]]
At(c, pc) == client[c].pc = pc
Goto(c, pc) == [client EXCEPT ![c].pc = pc]
Return(c) == [client EXCEPT ![c] = Idle]

\* SET of the key with a TTL.
Set(s, data, ttl) ==
  /\ keys' = [keys EXCEPT ![s] = data]
  /\ expires' = [expires EXCEPT ![s] = now + ttl]

\* DEL of keys, or their expiry.
Remove(ss) ==
  /\ keys' = [s \in Session |-> IF s \in ss /\ Here(s) THEN SS!Gone ELSE keys[s]]
  /\ removed' = removed \cup {s \in ss : Here(s)}
-----------------------------------------------------------------------------
(* Create: SET, SADD and EXPIRE in a pipeline                              *)

\* EXPIRE takes whole seconds, and TTL answers them: the one cuts the rest of a
\* second off, the other rounds it to the nearest.
WholeSeconds(d) == (d \div Second) * Second
NearestSecond(d) == WholeSeconds(d + (Second \div 2))

\* ttl was computed before the SET, so the key gets more time than the session has.
Create(c, s, u) ==
  /\ "create" \in Ops /\ At(c, "idle")
  /\ keys[s] = SS!Absent
  /\ Set(s, [status |-> "active", user |-> u, seen |-> {}], SessionTTL)
  /\ \E late \in 0 .. Latency : expiresAt' = [expiresAt EXCEPT ![s] = now + SessionTTL - late]
  /\ client' = [client EXCEPT ![c] = [Idle EXCEPT !.pc = "sadd", !.s = s, !.user = u]]
  /\ UNCHANGED <<now, index, indexExpires, srem, removed>>

CreateSAdd(c) ==
  /\ At(c, "sadd")
  /\ index' = [index EXCEPT ![client[c].user] = @ \cup {client[c].s}]
  /\ client' = Goto(c, "expire")
  /\ UNCHANGED <<now, keys, expires, expiresAt, indexExpires, srem, removed>>

\* EXPIRE does nothing for a set that is gone.
CreateExpire(c) ==
  /\ At(c, "expire")
  /\ indexExpires' = [indexExpires EXCEPT ![client[c].user] =
       IF index[client[c].user] = {} THEN @ ELSE now + WholeSeconds(SessionTTL + Slack)]
  /\ client' = Return(c)
  /\ UNCHANGED <<now, keys, expires, expiresAt, index, srem, removed>>

\* The connection breaks in the pipeline; the caller gets an error.
PipelineBreaks(c) ==
  /\ "connection" \in Faults
  /\ client[c].pc \in {"sadd", "expire", "delKeys", "delIndex"}
  /\ client' = Return(c)
  /\ UNCHANGED <<now, keys, expires, expiresAt, index, indexExpires, srem, removed>>
-----------------------------------------------------------------------------
(* Execute: WATCH, GET, TTL, MULTI and EXEC                                *)

\* GET and the callbacks: a session that is not there, may not be revoked, or may
\* not be advanced (also when it has expired for the time of the request), is refused.
ExecuteGet(c, s, op) ==
  /\ "execute" \in Ops /\ At(c, "idle")
  /\ keys[s].status = "active"
  /\ op = "touch" => now - Latency <= expiresAt[s]
  /\ client' = [client EXCEPT ![c] = [Idle EXCEPT !.pc = "exTTL", !.s = s, !.copy =
       IF op = "revoke" THEN [keys[s] EXCEPT !.status = "revoked"]
       ELSE [keys[s] EXCEPT !.seen = @ \cup {c}]]]
  /\ UNCHANGED <<now, keys, expires, expiresAt, index, indexExpires, srem, removed>>

\* What getOrComputeTTL returns: the TTL of the key, unless that is zero seconds or
\* the key is gone; then what is left of the session, or the default.
getOrComputeTTL(s) ==
  LET ttl == IF Here(s) THEN NearestSecond(expires[s] - now) ELSE 0
  IN CASE ttl > 0 -> ttl
       [] ttl = 0 /\ expiresAt[s] > now -> expiresAt[s] - now
       [] OTHER -> DefaultTTL

ExecuteTTL(c) ==
  /\ At(c, "exTTL")
  /\ client' = [client EXCEPT ![c].pc = "exExec", ![c].ttl = getOrComputeTTL(client[c].s)]
  /\ UNCHANGED <<now, keys, expires, expiresAt, index, indexExpires, srem, removed>>

\* Mutant: the key is not watched.
ExecuteExec_Unwatched(c) ==
  /\ At(c, "exExec")
  /\ Set(client[c].s, client[c].copy, client[c].ttl)
  /\ client' = Touched(Return(c), {client[c].s})
  /\ UNCHANGED <<now, expiresAt, index, indexExpires, srem, removed>>

\* EXEC fails when the key has changed or has expired since the WATCH.
ExecuteExec(c) ==
  /\ At(c, "exExec")
  /\ IF client[c].dirty
     THEN client' = Return(c) /\ UNCHANGED <<keys, expires>>
     ELSE /\ Set(client[c].s, client[c].copy, client[c].ttl)
          /\ client' = Touched(Return(c), {client[c].s})
  /\ UNCHANGED <<now, expiresAt, index, indexExpires, srem, removed>>
-----------------------------------------------------------------------------
(* UpdateSession: EXISTS, TTL and SET, of a session read before            *)

FindByID(s) == keys[s]

\* The caller's copy.
UpdateRead(c, s) ==
  /\ "update" \in Ops /\ At(c, "idle") /\ Here(s)
  /\ client' = [client EXCEPT ![c] =
       [Idle EXCEPT !.pc = "upExists", !.s = s, !.copy = [FindByID(s) EXCEPT !.seen = @ \cup {c}]]]
  /\ UNCHANGED <<now, keys, expires, expiresAt, index, indexExpires, srem, removed>>

UpdateExists(c) ==
  /\ At(c, "upExists")
  /\ client' = IF Here(client[c].s) THEN Goto(c, "upTTL") ELSE Return(c)
  /\ UNCHANGED <<now, keys, expires, expiresAt, index, indexExpires, srem, removed>>

UpdateTTL(c) ==
  /\ At(c, "upTTL")
  /\ client' = [client EXCEPT ![c].pc = "upSet", ![c].ttl = getOrComputeTTL(client[c].s)]
  /\ UNCHANGED <<now, keys, expires, expiresAt, index, indexExpires, srem, removed>>

UpdateSet(c) ==
  /\ At(c, "upSet")
  /\ Set(client[c].s, client[c].copy, client[c].ttl)
  /\ client' = Touched(Return(c), {client[c].s})
  /\ UNCHANGED <<now, expiresAt, index, indexExpires, srem, removed>>
-----------------------------------------------------------------------------
(* DeleteSessionsByUser: SMEMBERS, then DEL of the keys and of the set     *)

DeleteMembers(c, u) ==
  /\ "delete" \in Ops /\ At(c, "idle") /\ index[u] # {}
  /\ client' = [client EXCEPT ![c] = [Idle EXCEPT !.pc = "delKeys", !.user = u, !.ids = index[u], !.known = index[u]]]
  /\ UNCHANGED <<now, keys, expires, expiresAt, index, indexExpires, srem, removed>>

DeleteKeys(c) ==
  /\ At(c, "delKeys")
  /\ \E s \in client[c].ids :
       /\ Remove({s})
       /\ client' = Touched([client EXCEPT ![c].ids = @ \ {s},
                                           ![c].pc = IF client[c].ids = {s} THEN "delIndex" ELSE @], {s})
  /\ UNCHANGED <<now, expires, expiresAt, index, indexExpires, srem>>

DeleteIndex(c) ==
  /\ At(c, "delIndex")
  /\ index' = [index EXCEPT ![client[c].user] = {}]
  /\ indexExpires' = [indexExpires EXCEPT ![client[c].user] = 0]
  /\ client' = Return(c)
  /\ UNCHANGED <<now, keys, expires, expiresAt, srem, removed>>
-----------------------------------------------------------------------------
(* ListByUser: SRANDMEMBER, a pipeline of GETs, and an SREM left behind    *)

ListPick(c, u) ==
  /\ "list" \in Ops /\ At(c, "idle") /\ index[u] # {}
  /\ \E ids \in SUBSET index[u] :
       /\ Cardinality(ids) = IF Cardinality(index[u]) > maxSessionsPerUser THEN maxSessionsPerUser ELSE Cardinality(index[u])
       /\ client' = [client EXCEPT ![c] = [Idle EXCEPT !.pc = "listGet", !.user = u, !.ids = ids]]
  /\ UNCHANGED <<now, keys, expires, expiresAt, index, indexExpires, srem, removed>>

\* Mutant: revoked sessions count as expired.
ListGet_Revoked(c) ==
  /\ At(c, "listGet")
  /\ srem' = [srem EXCEPT ![client[c].user] = @ \cup {s \in client[c].ids : keys[s].status # "active"}]
  /\ client' = Return(c)
  /\ UNCHANGED <<now, keys, expires, expiresAt, index, indexExpires, removed>>

ListGet(c) ==
  /\ At(c, "listGet")
  /\ srem' = [srem EXCEPT ![client[c].user] = @ \cup {s \in client[c].ids : ~Here(s)}]
  /\ client' = Return(c)
  /\ UNCHANGED <<now, keys, expires, expiresAt, index, indexExpires, removed>>

\* The goroutine's SREM, which may also fail.  A set that becomes empty is gone, and
\* its expiry with it.
CleanIndex(u) ==
  /\ srem[u] # {}
  /\ srem' = [srem EXCEPT ![u] = {}]
  /\ index' \in {index, [index EXCEPT ![u] = @ \ srem[u]]}
  /\ indexExpires' = [indexExpires EXCEPT ![u] = IF index'[u] = {} THEN 0 ELSE @]
  /\ UNCHANGED <<now, keys, expires, expiresAt, client, removed>>
-----------------------------------------------------------------------------
(* Redis                                                                   *)

\* Keys and sets go when their time has come.
Tick ==
  /\ now < MaxTime
  /\ now' = now + 1
  /\ LET late == {s \in Session : Here(s) /\ now' >= expires[s]}
         lateIndex == {u \in User : indexExpires[u] # 0 /\ now' >= indexExpires[u]}
     IN /\ Remove(late)
        /\ index' = [u \in User |-> IF u \in lateIndex THEN {} ELSE index[u]]
        /\ indexExpires' = [u \in User |-> IF u \in lateIndex THEN 0 ELSE indexExpires[u]]
        /\ client' = Touched(client, late)
  /\ UNCHANGED <<expires, expiresAt, srem>>

Next ==
  \/ Tick
  \/ \E u \in User : CleanIndex(u)
  \/ \E c \in Client :
       \/ CreateSAdd(c) \/ CreateExpire(c) \/ PipelineBreaks(c)
       \/ ExecuteTTL(c) \/ ExecuteExec(c)
       \/ UpdateExists(c) \/ UpdateTTL(c) \/ UpdateSet(c)
       \/ DeleteKeys(c) \/ DeleteIndex(c) \/ ListGet(c)
       \/ \E u \in User : DeleteMembers(c, u) \/ ListPick(c, u)
       \/ \E s \in Session :
            \/ UpdateRead(c, s)
            \/ \E u \in User : Create(c, s, u)
            \/ \E op \in {"revoke", "touch"} : ExecuteGet(c, s, op)

Spec == Init /\ [][Next]_vars
-----------------------------------------------------------------------------
(* properties                                                              *)

\* The store in Redis does what the store in memory does: the optimistic
\* transaction of Execute loses no update, and neither expiry nor a delete is
\* undone by a write that was under way.
StoreSpec == SS!Store

\* What the goroutine of ListByUser will remove from a user's set, long after the
\* list was read, is gone by then: no session that is there loses its place to it,
\* whatever was created, revoked or deleted in between.
UnlistsOnlyGone == \A u \in User : \A s \in srem[u] : ~Here(s)

\* Every session that is there is in the set of its user once its Create is
\* through, so that ListByUser and DeleteSessionsByUser find it ("Use pipeline
\* for atomic operations").
\* The code does not keep this statement.
IndexComplete ==
  \A s \in Session :
    Here(s) =>
      \/ s \in index[keys[s].user]
      \/ \E c \in Client : At(c, "sadd") /\ client[c].s = s

\* The key of a session never outlives the session, whatever Execute writes over it
\* ("Calculate TTL from session expiry").
\* The code does not keep this statement.
KeyWithinExpiry == \A s \in Session : Here(s) => expires[s] <= expiresAt[s]

\* When DeleteSessionsByUser is through with the keys, every session that it
\* listed is gone, and no transaction has brought one back.
DeleteComplete ==
  \A c \in Client : At(c, "delIndex") => \A s \in client[c].known : ~Here(s)

\* A session that was deleted or has expired does not come back ("Return
\* ErrNotFound when the requested entity does not exist").
NoResurrection == \A s \in removed : ~Here(s)
=============================================================================
