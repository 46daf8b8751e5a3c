-------------------------- MODULE SessionRedisProofs --------------------------
(***************************************************************************)
(* Proofs about SessionRedis for any sessions, users and clients, and any  *)
(* times to live.                                                          *)
(***************************************************************************)
EXTENDS SessionRedis, TLAPS

Data == [status : {"absent", "active", "revoked", "gone"}, user : User \cup {"nobody"}, seen : SUBSET Client]
PCs == {"idle", "sadd", "expire", "exTTL", "exExec", "upExists", "upTTL", "upSet", "delKeys", "delIndex", "listGet"}
Locals == [pc : PCs, s : Session, user : User, copy : Data, ttl : Nat, dirty : BOOLEAN,
           ids : SUBSET Session, known : SUBSET Session]

Types ==
  /\ now \in 0 .. MaxTime
  /\ keys \in [Session -> Data]
  /\ expires \in [Session -> Nat] /\ expiresAt \in [Session -> Nat]
  /\ index \in [User -> SUBSET Session] /\ indexExpires \in [User -> Nat]
  /\ client \in [Client -> Locals]
  /\ srem \in [User -> SUBSET Session] /\ removed \in SUBSET Session

\* The key of s has been set.
Made(s) == keys[s] # SS!Absent

\* A key has its owner and time left; one that was set and is gone is in the
\* history, and it is never absent again.
KeyInv ==
  \A s \in Session :
    /\ Here(s) => now <= expires[s] /\ keys[s].user \in User
    /\ Made(s) /\ ~Here(s) => s \in removed
    /\ s \in removed => Made(s)

Writing == {"exTTL", "exExec", "upExists", "upTTL", "upSet"}

\* A client works on keys that were set.  What it is about to write is a
\* session.
LocalInv(l) ==
  /\ l.pc \in Writing \cup {"sadd", "expire"} => Made(l.s)
  /\ l.pc \in Writing => SS!Here(l.copy) /\ l.copy.user \in User
  /\ \A s \in l.ids \cup l.known : Made(s)
ClientInv == \A c \in Client : LocalInv(client[c])

\* The sets of the users name keys that were set.
IndexInv == \A u \in User : \A s \in index[u] : Made(s)

Inv == Types /\ KeyInv /\ ClientInv /\ IndexInv
-----------------------------------------------------------------------------

\* The local state of an idle client has its type.
LEMMA IdleType ==
  /\ Idle \in Locals /\ SS!Absent \in Data /\ SS!Gone \in Data
  /\ Idle.pc = "idle" /\ Idle.ids = {} /\ Idle.known = {} /\ ~Idle.dirty
<1>1. (CHOOSE s \in Session : TRUE) \in Session
  BY RedisAssumption
<1>2. (CHOOSE u \in User : TRUE) \in User
  BY RedisAssumption
<1>3. SS!Absent \in Data /\ SS!Gone \in Data
  BY Zenon DEF SS!Absent, SS!Gone, Data
<1>. QED
  BY <1>1, <1>2, <1>3, Zenon DEF Idle, Locals, PCs

\* What Touched changes: the watch of a client, and nothing else.
LEMMA TouchedType ==
  ASSUME NEW cl \in [Client -> Locals], NEW ss
  PROVE  /\ Touched(cl, ss) \in [Client -> Locals]
         /\ \A c \in Client : /\ Touched(cl, ss)[c].pc = cl[c].pc
                              /\ Touched(cl, ss)[c].s = cl[c].s
                              /\ Touched(cl, ss)[c].user = cl[c].user
                              /\ Touched(cl, ss)[c].copy = cl[c].copy
                              /\ Touched(cl, ss)[c].ttl = cl[c].ttl
                              /\ Touched(cl, ss)[c].ids = cl[c].ids
                              /\ Touched(cl, ss)[c].known = cl[c].known
                              /\ ~Touched(cl, ss)[c].dirty =>
                                   /\ ~cl[c].dirty
                                   /\ cl[c].pc \in {"exTTL", "exExec"} => cl[c].s \notin ss
BY Zenon DEF Touched, Locals

\* The invariant holds at the start.
LEMMA InitInv == Init => Inv
BY IdleType, RedisAssumption
   DEF Init, Inv, Types, KeyInv, ClientInv, LocalInv, IndexInv, Made, Here, SS!Here, SS!Absent, Writing

\* A step that leaves the keys alone and gives one client a sound record.
LEMMA LocalStep ==
  ASSUME Types, KeyInv, ClientInv,
         NEW c \in Client, NEW l \in Locals, LocalInv(l),
         client' = [client EXCEPT ![c] = l],
         UNCHANGED <<now, keys, expires, expiresAt, removed>>
  PROVE  client' \in [Client -> Locals] /\ KeyInv' /\ ClientInv'
<1>1. client' \in [Client -> Locals]
  BY Zenon DEF Types
<1>2. KeyInv'
  BY Zenon DEF KeyInv, Here, Made
<1>3. \A d \in Client : client'[d] = IF d = c THEN l ELSE client[d]
  BY Zenon DEF Types
<1>4. ClientInv'
  BY DEF ClientInv, LocalInv, Made
<1>. QED
  BY <1>1, <1>2, <1>4

\* Whole seconds are a time.
LEMMA SecondsNat ==
  ASSUME NEW d \in Nat
  PROVE  WholeSeconds(d) \in Nat /\ NearestSecond(d) \in Nat
<1>1. ASSUME NEW n \in Nat PROVE n \div Second \in Nat
  BY RedisAssumption
<1>2. Second \div 2 \in Nat /\ d + (Second \div 2) \in Nat
  BY RedisAssumption
<1>3. \A n \in Nat : n * Second \in Nat
  BY RedisAssumption
<1>. QED
  BY <1>1, <1>2, <1>3 DEF WholeSeconds, NearestSecond

\* What getOrComputeTTL returns is a time to live.
LEMMA TTLNat ==
  ASSUME Types, KeyInv, NEW s \in Session
  PROVE  getOrComputeTTL(s) \in Nat
<1>1. Here(s) => expires[s] - now \in Nat
  BY DEF Types, KeyInv
<1>2. Here(s) => NearestSecond(expires[s] - now) \in Nat
  BY <1>1, SecondsNat, Zenon
<1>3. expiresAt[s] > now => expiresAt[s] - now \in Nat
  BY DEF Types
<1>. QED
  BY <1>2, <1>3, RedisAssumption DEF getOrComputeTTL

\* The steps of a client that leave the keys alone.
LEMMA InvLocal ==
  ASSUME Inv, NEW c \in Client,
         \/ CreateSAdd(c) \/ CreateExpire(c) \/ PipelineBreaks(c) \/ ExecuteTTL(c) \/ UpdateExists(c)
         \/ UpdateTTL(c) \/ DeleteIndex(c) \/ ListGet(c)
  PROVE  Inv'
<1>1. CASE CreateSAdd(c)
  <2>. DEFINE l == [client[c] EXCEPT !.pc = "expire"]
  <2>1. client' = [client EXCEPT ![c] = l] /\ UNCHANGED <<now, keys, expires, expiresAt, removed>>
    BY <1>1, Zenon DEF CreateSAdd, Goto, At, Inv, Types, Locals
  <2>2. l \in Locals /\ LocalInv(l)
    BY <1>1, SMTT(30) DEF CreateSAdd, Goto, At, Inv, Types, Locals, PCs, ClientInv, LocalInv, Writing
  <2>. HIDE DEF l
  <2>3. /\ client[c].s \in Session /\ client[c].user \in User /\ Made(client[c].s)
        /\ index' = [index EXCEPT ![client[c].user] = @ \cup {client[c].s}]
        /\ UNCHANGED <<indexExpires, srem>>
    BY <1>1, Zenon DEF CreateSAdd, At, Inv, Types, Locals, ClientInv, LocalInv
  <2>4. client' \in [Client -> Locals]
    BY <2>1, <2>2, Zenon DEF Inv, Types
  <2>5. Types'
    BY <2>1, <2>3, <2>4, Zenon DEF Inv, Types
  <2>6. \A u \in User : index'[u] \subseteq index[u] \cup {client[c].s}
    BY <2>3, Zenon DEF Inv, Types
  <2>7. IndexInv'
    BY <2>1, <2>3 DEF Inv, IndexInv, Made
  <2>. QED
    BY <2>1, <2>2, <2>5, <2>7, LocalStep, Zenon DEF Inv
<1>2. CASE CreateExpire(c)
  <2>. DEFINE l == Idle
  <2>1. client' = [client EXCEPT ![c] = l] /\ UNCHANGED <<now, keys, expires, expiresAt, removed>>
    BY <1>2, Zenon DEF CreateExpire, Return, At, Inv, Types, Locals
  <2>2. l \in Locals /\ LocalInv(l)
    BY IdleType, Zenon DEF CreateExpire, Return, At, Inv, Types, Locals, PCs, ClientInv, LocalInv,
       Writing
  <2>. HIDE DEF l
  <2>0. now + WholeSeconds(SessionTTL + Slack) \in Nat
    BY SecondsNat, RedisAssumption DEF Inv, Types
  <2>3. Types' /\ IndexInv'
    BY <1>2, <2>0, <2>1, <2>2, RedisAssumption DEF CreateExpire, At, Inv, Types, Locals, IndexInv,
       ClientInv, LocalInv, Made
  <2>. QED
    BY <2>1, <2>2, <2>3, LocalStep, Zenon DEF Inv
<1>3. CASE PipelineBreaks(c)
  <2>. DEFINE l == Idle
  <2>1. client' = [client EXCEPT ![c] = l] /\ UNCHANGED <<now, keys, expires, expiresAt, removed>>
    BY <1>3, Zenon DEF PipelineBreaks, Return, Inv, Types, Locals
  <2>2. l \in Locals /\ LocalInv(l)
    BY IdleType, Zenon DEF PipelineBreaks, Return, Inv, Types, Locals, PCs, ClientInv, LocalInv,
       Writing
  <2>. HIDE DEF l
  <2>3. Types' /\ IndexInv'
    BY <1>3, <2>1, <2>2, Zenon DEF PipelineBreaks, Return, Inv, Types, Locals, IndexInv, ClientInv,
       LocalInv, Made
  <2>. QED
    BY <2>1, <2>2, <2>3, LocalStep, Zenon DEF Inv
<1>4. CASE ExecuteTTL(c)
  <2>. DEFINE l == [client[c] EXCEPT !.pc = "exExec", !.ttl = getOrComputeTTL(client[c].s)]
  <2>0. Made(client[c].s) /\ getOrComputeTTL(client[c].s) \in Nat
    BY <1>4, TTLNat, Zenon DEF ExecuteTTL, At, Inv, Types, Locals, ClientInv, LocalInv, Writing
  <2>1. client' = [client EXCEPT ![c] = l] /\ UNCHANGED <<now, keys, expires, expiresAt, removed>>
    BY <1>4, Zenon DEF ExecuteTTL, At, Inv, Types, Locals
  <2>2. l \in Locals /\ LocalInv(l)
    BY <1>4, IdleType, <2>0, Zenon DEF ExecuteTTL, At, Inv, Types, Locals, PCs, ClientInv, LocalInv,
       Writing
  <2>. HIDE DEF l
  <2>3. Types' /\ IndexInv'
    BY <1>4, <2>1, <2>2, LocalStep, RedisAssumption, Zenon DEF ExecuteTTL, At, Inv, Types, Locals, IndexInv, ClientInv, LocalInv, Made
  <2>. QED
    BY <2>1, <2>2, <2>3, LocalStep, Zenon DEF Inv
<1>5. CASE UpdateExists(c)
  <2>. DEFINE l == IF Here(client[c].s) THEN [client[c] EXCEPT !.pc = "upTTL"] ELSE Idle
  <2>1. client' = [client EXCEPT ![c] = l] /\ UNCHANGED <<now, keys, expires, expiresAt, removed>>
    BY <1>5, Zenon DEF UpdateExists, Goto, Return, At, Inv, Types, Locals
  <2>2. l \in Locals /\ LocalInv(l)
    BY <1>5, IdleType, Zenon DEF UpdateExists, Goto, Return, At, Inv, Types, Locals, PCs, ClientInv,
       LocalInv, Writing
  <2>. HIDE DEF l
  <2>3. Types' /\ IndexInv'
    BY <1>5, <2>1, <2>2, LocalStep, Zenon DEF UpdateExists, At, Inv, Types, IndexInv, Made
  <2>. QED
    BY <2>1, <2>2, <2>3, LocalStep, Zenon DEF Inv
<1>6. CASE UpdateTTL(c)
  <2>. DEFINE l == [client[c] EXCEPT !.pc = "upSet", !.ttl = getOrComputeTTL(client[c].s)]
  <2>0. Made(client[c].s) /\ getOrComputeTTL(client[c].s) \in Nat
    BY <1>6, TTLNat, Zenon DEF UpdateTTL, At, Inv, Types, Locals, ClientInv, LocalInv, Writing
  <2>1. client' = [client EXCEPT ![c] = l] /\ UNCHANGED <<now, keys, expires, expiresAt, removed>>
    BY <1>6, Zenon DEF UpdateTTL, At, Inv, Types, Locals
  <2>2. l \in Locals /\ LocalInv(l)
    BY <1>6, IdleType, <2>0, Zenon DEF UpdateTTL, At, Inv, Types, Locals, PCs, ClientInv, LocalInv, Writing
  <2>. HIDE DEF l
  <2>3. Types' /\ IndexInv'
    BY <1>6, <2>1, <2>2, LocalStep, RedisAssumption, Zenon DEF UpdateTTL, At, Inv, Types, Locals,
       IndexInv, ClientInv, LocalInv, Made
  <2>. QED
    BY <2>1, <2>2, <2>3, LocalStep, Zenon DEF Inv
<1>7. CASE DeleteIndex(c)
  <2>. DEFINE l == Idle
  <2>1. client' = [client EXCEPT ![c] = l] /\ UNCHANGED <<now, keys, expires, expiresAt, removed>>
    BY <1>7, Zenon DEF DeleteIndex, Return, At, Inv, Types, Locals
  <2>2. l \in Locals /\ LocalInv(l)
    BY IdleType, Zenon DEF DeleteIndex, Return, At, Inv, Types, Locals, PCs, ClientInv, LocalInv,
       Writing
  <2>. HIDE DEF l
  <2>3. Types' /\ IndexInv'
    BY <1>7, <2>1, <2>2 DEF DeleteIndex, At, Inv, Types, Locals, IndexInv, ClientInv, LocalInv, Made
  <2>. QED
    BY <2>1, <2>2, <2>3, LocalStep, Zenon DEF Inv
<1>8. CASE ListGet(c)
  <2>. DEFINE l == Idle
  <2>1. client' = [client EXCEPT ![c] = l] /\ UNCHANGED <<now, keys, expires, expiresAt, removed>>
    BY <1>8, Zenon DEF ListGet, Return, At, Inv, Types, Locals
  <2>2. l \in Locals /\ LocalInv(l)
    BY IdleType, Zenon DEF ListGet, Return, At, Inv, Types, Locals, PCs, ClientInv, LocalInv,
       Writing
  <2>. HIDE DEF l
  <2>3. Types' /\ IndexInv'
    BY <1>8, <2>1, <2>2 DEF ListGet, At, Inv, Types, Locals, IndexInv, ClientInv, LocalInv, Made
  <2>. QED
    BY <2>1, <2>2, <2>3, LocalStep, Zenon DEF Inv
<1>. QED
  BY <1>1, <1>2, <1>3, <1>4, <1>5, <1>6, <1>7, <1>8

\* The copies that callers write back are sessions of the same user.
LEMMA CopyType ==
  ASSUME NEW k \in Data, SS!Here(k), k.user \in User, NEW c \in Client
  PROVE  \A d \in {[k EXCEPT !.status = "revoked"], [k EXCEPT !.seen = @ \cup {c}]} :
           d \in Data /\ SS!Here(d) /\ d.user = k.user
BY SMTT(20) DEF Data, SS!Here

\* A session that is there has been made.
LEMMA HereMade ==
  ASSUME Types, KeyInv, NEW s \in Session, Here(s)
  PROVE  keys[s] \in Data /\ SS!Here(keys[s]) /\ keys[s].user \in User /\ Made(s)
BY DEF Types, KeyInv, Here, SS!Here, Made, SS!Absent

\* The steps that begin an operation on keys that are there.
LEMMA InvBegin ==
  ASSUME Inv, NEW c \in Client,
         \/ \E s \in Session, op \in {"revoke", "touch"} : ExecuteGet(c, s, op)
         \/ \E s \in Session : UpdateRead(c, s)
         \/ \E u \in User : DeleteMembers(c, u)
         \/ \E u \in User : ListPick(c, u)
  PROVE  Inv'
<1>1. ASSUME NEW s \in Session, NEW op \in {"revoke", "touch"}, ExecuteGet(c, s, op)
      PROVE  Inv'
  <2>. DEFINE d == IF op = "revoke" THEN [keys[s] EXCEPT !.status = "revoked"] ELSE [keys[s] EXCEPT !.seen = @ \cup {c}]
  <2>1. d \in Data /\ SS!Here(d) /\ d.user \in User /\ Made(s)
    BY <1>1, HereMade, CopyType, Zenon DEF ExecuteGet, At, Here, SS!Here, Inv
  <2>2. client' = [client EXCEPT ![c] = [Idle EXCEPT !.pc = "exTTL", !.s = s, !.copy = d]]
    BY <1>1, Zenon DEF ExecuteGet, At
  <2>. HIDE DEF d
  <2>. DEFINE l == [Idle EXCEPT !.pc = "exTTL", !.s = s, !.copy = d]
  <2>3. l \in Locals /\ LocalInv(l)
    BY <2>1, IdleType, Zenon DEF Locals, PCs, LocalInv, Writing
  <2>. HIDE DEF l
  <2>4. UNCHANGED <<now, keys, expires, expiresAt, index, indexExpires, srem, removed>> /\ client' = [client EXCEPT ![c] = l]
    BY <1>1, <2>2, Zenon DEF ExecuteGet, At, l
  <2>. QED
    BY <2>3, <2>4, LocalStep, Zenon DEF Inv, Types, IndexInv, Made
<1>2. ASSUME NEW s \in Session, UpdateRead(c, s)
      PROVE  Inv'
  <2>. DEFINE d == [keys[s] EXCEPT !.seen = @ \cup {c}]
  <2>1. d \in Data /\ SS!Here(d) /\ d.user \in User /\ Made(s)
    BY <1>2, HereMade, CopyType, Zenon DEF UpdateRead, FindByID, At, Here, SS!Here, Inv
  <2>2. client' = [client EXCEPT ![c] = [Idle EXCEPT !.pc = "upExists", !.s = s, !.copy = d]]
    BY <1>2, Zenon DEF UpdateRead, FindByID, At
  <2>. HIDE DEF d
  <2>. DEFINE l == [Idle EXCEPT !.pc = "upExists", !.s = s, !.copy = d]
  <2>3. l \in Locals /\ LocalInv(l)
    BY <2>1, IdleType, Zenon DEF Locals, PCs, LocalInv, Writing
  <2>. HIDE DEF l
  <2>4. UNCHANGED <<now, keys, expires, expiresAt, index, indexExpires, srem, removed>> /\ client' = [client EXCEPT ![c] = l]
    BY <1>2, <2>2, Zenon DEF UpdateRead, FindByID, At, l
  <2>. QED
    BY <2>3, <2>4, LocalStep, Zenon DEF Inv, Types, IndexInv, Made
<1>3. ASSUME NEW u \in User, DeleteMembers(c, u)
      PROVE  Inv'
  <2>. DEFINE l == [Idle EXCEPT !.pc = "delKeys", !.user = u, !.ids = index[u], !.known = index[u]]
  <2>1. l \in Locals /\ LocalInv(l)
    BY IdleType, Zenon DEF Inv, Types, Locals, PCs, LocalInv, Writing, IndexInv
  <2>2. UNCHANGED <<now, keys, expires, expiresAt, index, indexExpires, srem, removed>> /\ client' = [client EXCEPT ![c] = l]
    BY <1>3, Zenon DEF DeleteMembers
  <2>. HIDE DEF l
  <2>. QED
    BY <2>1, <2>2, LocalStep, Zenon DEF Inv, Types, IndexInv, Made
<1>. ASSUME NEW u \in User, ListPick(c, u)
      PROVE  Inv'
  <2>1. PICK ids \in SUBSET index[u] :
          client' = [client EXCEPT ![c] = [Idle EXCEPT !.pc = "listGet", !.user = u, !.ids = ids]]
    BY Zenon DEF ListPick
  <2>. DEFINE l == [Idle EXCEPT !.pc = "listGet", !.user = u, !.ids = ids]
  <2>2. l \in Locals /\ LocalInv(l)
    BY IdleType, Zenon DEF Inv, Types, Locals, PCs, LocalInv, Writing, IndexInv
  <2>3. UNCHANGED <<now, keys, expires, expiresAt, index, indexExpires, srem, removed>> /\ client' = [client EXCEPT ![c] = l]
    BY <2>1, Zenon DEF ListPick
  <2>. HIDE DEF l
  <2>. QED
    BY <2>2, <2>3, LocalStep, Zenon DEF Inv, Types, IndexInv, Made
<1>. QED
  BY <1>1, <1>2, <1>3

\* Create, and the writes of Execute and UpdateSession.
LEMMA InvCreate ==
  ASSUME Inv, NEW c \in Client, NEW s \in Session, NEW u \in User, Create(c, s, u)
  PROVE  Inv'
<1>. DEFINE d == [status |-> "active", user |-> u, seen |-> {}]
            l == [Idle EXCEPT !.pc = "sadd", !.s = s, !.user = u]
<1>1. d \in Data /\ SS!Here(d) /\ d.user = u /\ d # SS!Absent
  BY Zenon DEF Data, SS!Here, SS!Absent
<1>2. l \in Locals /\ l.pc = "sadd" /\ l.s = s /\ l.ids = {} /\ l.known = {}
  BY IdleType, Zenon DEF Locals, PCs
<1>0. PICK late \in 0 .. Latency : expiresAt' = [expiresAt EXCEPT ![s] = now + SessionTTL - late]
  BY Zenon DEF Create
<1>. /\ keys' = [keys EXCEPT ![s] = d] /\ expires' = [expires EXCEPT ![s] = now + SessionTTL]
      /\ client' = [client EXCEPT ![c] = l] /\ UNCHANGED <<now, index, indexExpires, srem, removed>>
      /\ ~Made(s)
  BY Zenon DEF Create, Set, Made
<1>. HIDE DEF d, l
<1>3. now + SessionTTL - late \in Nat /\ now + SessionTTL \in Nat
  BY RedisAssumption DEF Inv, Types
<1>4. Types'
  BY <1>0, <1>1, <1>2, <1>3, Zenon DEF Inv, Types
<1>5. \A t \in Session : Made(t) => Made(t)' /\ t # s
  BY Zenon DEF Inv, Types, Made
<1>6. KeyInv'
  BY <1>1, RedisAssumption DEF Inv, Types, KeyInv, Here, Made
<1>7. ClientInv'
  <2>. SUFFICES ASSUME NEW e \in Client PROVE LocalInv(client[e])'
    BY Zenon DEF ClientInv
  <2>. CASE e = c
    BY <1>1, <1>2, Zenon DEF Inv, Types, Made, LocalInv, Writing
  <2>. CASE e # c
    BY <1>5, Zenon DEF Inv, Types, ClientInv, LocalInv, Writing, Locals
  <2>. QED
    OBVIOUS
<1>8. IndexInv'
  BY <1>5, Zenon DEF Inv, Types, IndexInv
<1>. QED
  BY <1>4, <1>6, <1>7, <1>8, Zenon DEF Inv

\* A write over a key that was set.
LEMMA InvWrite ==
  ASSUME Inv, NEW c \in Client, NEW s \in Session, NEW d \in Data, NEW ttl \in Nat,
         SS!Here(d), d.user \in User, Made(s),
         Set(s, d, ttl), client' = Touched(Return(c), {s}),
         UNCHANGED <<now, expiresAt, index, indexExpires, srem, removed>>
  PROVE  Inv'
<1>1. Return(c) \in [Client -> Locals] /\ \A e \in Client : Return(c)[e] = IF e = c THEN Idle ELSE client[e]
  BY IdleType, Zenon DEF Inv, Types, Return
<1>2. keys' = [keys EXCEPT ![s] = d] /\ expires' = [expires EXCEPT ![s] = now + ttl]
  BY Zenon DEF Set
<1>3. Types'
  BY <1>1, <1>2, TouchedType DEF Inv, Types
<1>4. d # SS!Absent
  BY DEF SS!Here, SS!Absent
<1>5. \A t \in Session : Made(t) => Made(t)'
  BY <1>2, <1>4, Zenon DEF Inv, Types, Made
<1>6. KeyInv'
  BY <1>2, <1>4 DEF Inv, Types, KeyInv, Here, Made
<1>7. ClientInv'
  <2>. SUFFICES ASSUME NEW e \in Client PROVE LocalInv(client[e])'
    BY Zenon DEF ClientInv
  <2>1. LocalInv(Return(c)[e]) /\ Return(c)[e] \in Locals
    BY <1>1, IdleType, Zenon DEF Inv, ClientInv, LocalInv, Writing
  <2>. QED
    BY <1>1, <1>5, <2>1, TouchedType DEF LocalInv, Writing, Locals
<1>8. IndexInv'
  BY <1>5, Zenon DEF Inv, Types, IndexInv
<1>. QED
  BY <1>3, <1>6, <1>7, <1>8, Zenon DEF Inv

\* EXEC of a transaction keeps the invariant.
LEMMA InvExec ==
  ASSUME Inv, NEW c \in Client, ExecuteExec(c)
  PROVE  Inv'
<1>1. CASE client[c].dirty
  BY IdleType, <1>1, LocalStep, Zenon DEF LocalInv, Writing, ExecuteExec, Return, Inv, Types,
     IndexInv, Made
<1>. CASE ~client[c].dirty
  <2>1. client[c] \in Locals /\ LocalInv(client[c]) /\ client[c].pc = "exExec"
    BY Zenon DEF Inv, Types, ClientInv, ExecuteExec, At
  <2>. QED
    BY <2>1, InvWrite, Zenon DEF ExecuteExec, Locals, LocalInv, Writing
<1>. QED
  BY <1>1

\* The SET of UpdateSession keeps the invariant.
LEMMA InvUpdateSet ==
  ASSUME Inv, NEW c \in Client, UpdateSet(c)
  PROVE  Inv'
<1>1. client[c] \in Locals /\ LocalInv(client[c]) /\ client[c].pc = "upSet"
  BY Zenon DEF Inv, Types, ClientInv, UpdateSet, At
<1>. QED
  BY <1>1, InvWrite, Zenon DEF UpdateSet, Locals, LocalInv, Writing

\* What DEL and expiry do to the keys.
LEMMA RemoveKeys ==
  ASSUME Types, NEW ss \in SUBSET Session, Remove(ss)
  PROVE  /\ keys' \in [Session -> Data] /\ removed' \in SUBSET Session
         /\ \A t \in Session : /\ Made(t)' <=> Made(t)
                               /\ Here(t)' <=> Here(t) /\ t \notin ss
                               /\ Here(t)' => keys'[t] = keys[t]
                               /\ t \in removed' <=> t \in removed \/ (t \in ss /\ Here(t))
<1>1. SS!Gone \in Data /\ ~SS!Here(SS!Gone) /\ SS!Gone # SS!Absent
  BY IdleType, Zenon DEF SS!Here, SS!Gone, SS!Absent
<1>2. ~SS!Here(SS!Absent)
  BY Zenon DEF SS!Here, SS!Absent
<1>3. /\ keys' = [s \in Session |-> IF s \in ss /\ Here(s) THEN SS!Gone ELSE keys[s]]
      /\ removed' = removed \cup {s \in ss : Here(s)}
  BY Zenon DEF Remove
<1>. QED
  BY <1>1, <1>2, <1>3, Zenon DEF Types, Made, Here

\* The removal of a key keeps the invariant.
LEMMA RemoveInv ==
  ASSUME Types, KeyInv, IndexInv, NEW ss \in SUBSET Session, Remove(ss),
         UNCHANGED <<expires, expiresAt>>, \A s \in Session \ ss : Here(s) => now' <= expires[s],
         \A u \in User : index'[u] \subseteq index[u]
  PROVE  KeyInv' /\ IndexInv'
<1>1. \A t \in Session : /\ Made(t)' <=> Made(t)
                         /\ Here(t)' <=> Here(t) /\ t \notin ss
                         /\ Here(t)' => keys'[t] = keys[t]
                         /\ t \in removed' <=> t \in removed \/ (t \in ss /\ Here(t))
  BY RemoveKeys
<1>2. \A t \in Session : Here(t) => Made(t)
  BY DEF Here, Made, SS!Here, SS!Absent
<1>3. KeyInv'
  BY <1>1, <1>2, Zenon DEF KeyInv
<1>5. IndexInv'
  BY <1>1, Zenon DEF IndexInv, Types
<1>. QED
  BY <1>3, <1>5

\* The deletion of the listed keys keeps the invariant.
LEMMA InvDeleteKeys ==
  ASSUME Inv, NEW c \in Client, DeleteKeys(c)
  PROVE  Inv'
<1>. DEFINE cl(s) == [client EXCEPT ![c].ids = @ \ {s}, ![c].pc = IF client[c].ids = {s} THEN "delIndex" ELSE @]
<1>1. PICK s \in client[c].ids : Remove({s}) /\ client' = Touched(cl(s), {s})
  BY Zenon DEF DeleteKeys
<1>2. client[c] \in Locals /\ LocalInv(client[c]) /\ s \in Session /\ client[c].pc = "delKeys"
  BY Zenon DEF Inv, Types, ClientInv, DeleteKeys, At, Locals
<1>3. cl(s)[c] = [client[c] EXCEPT !.ids = @ \ {s}, !.pc = IF client[c].ids = {s} THEN "delIndex" ELSE @]
      /\ \A e \in Client : e # c => cl(s)[e] = client[e]
  BY Zenon DEF Inv, Types
<1>. HIDE DEF cl
<1>4. /\ cl(s)[c] \in Locals /\ cl(s)[c].pc \in {"delKeys", "delIndex"}
      /\ cl(s)[c].ids \subseteq client[c].ids /\ cl(s)[c].known = client[c].known
  BY <1>2, <1>3, Zenon DEF Locals, PCs
<1>5. cl(s) \in [Client -> Locals] /\ \A e \in Client : LocalInv(cl(s)[e])
  <2>1. LocalInv(cl(s)[c])
    BY <1>2, <1>4, Zenon DEF LocalInv, Writing
  <2>2. cl(s) \in [Client -> Locals]
    BY <1>4, Zenon DEF Inv, Types, cl
  <2>. QED
    BY <1>3, <2>1, <2>2, Zenon DEF Inv, ClientInv
<1>6. UNCHANGED <<now, expires, expiresAt, index, indexExpires, srem>>
  BY Zenon DEF DeleteKeys
<1>7. Types' /\ KeyInv' /\ IndexInv'
  <2>1. Types'
    BY <1>1, <1>2, <1>5, <1>6, TouchedType, RemoveKeys DEF Inv, Types
  <2>2. \A t \in Session : Here(t) => now' <= expires[t]
    BY <1>6, Zenon DEF Inv, KeyInv
  <2>. QED
    BY <1>1, <1>2, <1>6, <2>1, <2>2, RemoveInv, Zenon DEF Inv
<1>8. ClientInv'
  <2>. SUFFICES ASSUME NEW e \in Client PROVE LocalInv(client[e])'
    BY Zenon DEF ClientInv
  <2>1. \A t \in Session : (Made(t)' <=> Made(t)) /\ (t \in removed => t \in removed')
    BY <1>1, <1>2, RemoveKeys, Zenon DEF Inv
  <2>2. LocalInv(cl(s)[e]) /\ cl(s)[e] \in Locals
    BY <1>5
  <2>. QED
    BY <1>1, <1>5, <1>6, <2>1, TouchedType DEF LocalInv, Writing, Locals
<1>. QED
  BY <1>7, <1>8, Zenon DEF Inv

\* The passing of time, with the keys that expire, keeps the invariant.
LEMMA InvTick ==
  ASSUME Inv, Tick
  PROVE  Inv'
<1>. DEFINE late == {s \in Session : Here(s) /\ now + 1 >= expires[s]}
<1>1. /\ now < MaxTime /\ now' = now + 1 /\ Remove(late) /\ client' = Touched(client, late)
      /\ UNCHANGED <<expires, expiresAt, srem>>
  BY Zenon DEF Tick
<1>2. /\ index' \in [User -> SUBSET Session] /\ indexExpires' \in [User -> Nat]
      /\ \A u \in User : index'[u] \subseteq index[u]
  BY Zenon DEF Tick, Inv, Types
<1>3. \A s \in Session : s \in late <=> Here(s) /\ now + 1 >= expires[s]
  OBVIOUS
<1>. HIDE DEF late
<1>4. late \in SUBSET Session
  BY Zenon DEF late
<1>5. Types'
  BY <1>1, <1>2, <1>4, TouchedType, RemoveKeys, RedisAssumption DEF Inv, Types
<1>6. KeyInv' /\ IndexInv'
  BY <1>1, <1>2, <1>3, <1>4, RemoveInv DEF Inv, Types
<1>7. ClientInv'
  <2>. SUFFICES ASSUME NEW e \in Client PROVE LocalInv(client[e])'
    BY Zenon DEF ClientInv
  <2>1. \A t \in Session : (Made(t)' <=> Made(t)) /\ (t \in removed => t \in removed')
    BY <1>1, <1>4, RemoveKeys, Zenon DEF Inv
  <2>2. LocalInv(client[e]) /\ client[e] \in Locals
    BY Zenon DEF Inv, Types, ClientInv
  <2>. QED
    BY <1>1, <2>1, <2>2, TouchedType DEF LocalInv, Writing, Locals, Inv, Types
<1>. QED
  BY <1>5, <1>6, <1>7, Zenon DEF Inv

\* Every step keeps the invariant.
LEMMA InvStep == Inv /\ [Next]_vars => Inv'
<1>. SUFFICES ASSUME Inv, [Next]_vars PROVE Inv'
  BY SMTT(20)
<1>. ASSUME NEW u \in User, CleanIndex(u) PROVE Inv'
  BY SMTT(20) DEF CleanIndex, Inv, Types, KeyInv, ClientInv, LocalInv, IndexInv, Here, Made
<1>. CASE UNCHANGED vars
  BY Zenon DEF vars, Inv, Types, KeyInv, ClientInv, LocalInv, IndexInv, Here, Made
<1>. QED
  BY InvLocal, InvBegin, InvCreate, InvExec, InvUpdateSet, InvDeleteKeys, InvTick, Zenon DEF Next

\* The inductive invariant of the keys holds in every state.
THEOREM InvHolds == Spec => []Inv
BY InitInv, InvStep, PTL DEF Spec

\* The store keeps the types of its state: in particular no time to live that
\* a client computes is negative, and only a key that is gone has no owner.
THEOREM TypesHold == Spec => []TypeOK
<1>1. Inv => TypeOK
  BY DEF Inv, Types, Data, Locals, TypeOK, KeyInv
<1>. QED
  BY <1>1, InvHolds, PTL
-----------------------------------------------------------------------------
(* Without UpdateSession: Execute is the only write                        *)

\* While the watch of client c is clean, its copy is the key with its own
\* change: EXEC loses no other client's update.
CleanCopy(c, l) ==
  l.pc \in {"exTTL", "exExec"} /\ ~l.dirty =>
    /\ keys[l.s].status = "active"
    /\ \/ l.copy = [keys[l.s] EXCEPT !.status = "revoked"]
       \/ l.copy = [keys[l.s] EXCEPT !.seen = @ \cup {c}]

\* A delete is through with the keys that it no longer lists, once ss are gone.
Deleting(l, ss) ==
  /\ l.pc \in {"delKeys", "delIndex"} => \A s \in l.known \ l.ids : Here(s) => s \in ss
  /\ l.pc = "delIndex" => l.ids = {}

LocalWatch(c, l) == l.pc \notin {"upExists", "upTTL", "upSet"} /\ CleanCopy(c, l) /\ Deleting(l, {})
WatchInv == \A c \in Client : LocalWatch(c, client[c])

Watched == Inv /\ WatchInv /\ NoResurrection

\* Watches are sound at the start.
LEMMA WatchedInit == Init => Watched
<1>. ASSUME Init PROVE WatchInv /\ NoResurrection
  BY IdleType, Zenon DEF Init, WatchInv, LocalWatch, CleanCopy, Deleting, NoResurrection
<1>. QED
  BY InitInv, Zenon DEF Watched

\* A step that leaves the keys alone.
LEMMA LocalWatchStep ==
  ASSUME Types, WatchInv, NoResurrection, UNCHANGED <<keys, removed>>,
         NEW c \in Client, NEW l, LocalWatch(c, l), client' = [client EXCEPT ![c] = l]
  PROVE  WatchInv' /\ NoResurrection'
<1>1. NoResurrection'
  BY Zenon DEF NoResurrection, Here
<1>2. \A e \in Client : LocalWatch(e, client'[e])
  BY Zenon DEF Types, WatchInv
<1>3. WatchInv'
  BY <1>2 DEF WatchInv, LocalWatch, CleanCopy, Deleting, Here
<1>. QED
  BY <1>1, <1>3

\* A step of a client that writes no key keeps the watches sound.
LEMMA WatchLocal ==
  ASSUME Watched, NEW c \in Client, "update" \notin Ops,
         \/ CreateSAdd(c) \/ CreateExpire(c) \/ PipelineBreaks(c) \/ ExecuteTTL(c) \/ UpdateExists(c)
         \/ UpdateTTL(c) \/ DeleteIndex(c) \/ ListGet(c)
         \/ \E u \in User : DeleteMembers(c, u)
         \/ \E u \in User : ListPick(c, u)
  PROVE  WatchInv' /\ NoResurrection'
<1>. DEFINE l == client'[c]
<1>0. client[c] \in Locals /\ LocalWatch(c, client[c]) /\ client \in [Client -> Locals]
  BY Zenon DEF Watched, Inv, Types, WatchInv
<1>1. UNCHANGED <<keys, removed>> /\ client' = [client EXCEPT ![c] = l]
  BY <1>0, Zenon DEF CreateSAdd, CreateExpire, PipelineBreaks, ExecuteTTL, UpdateExists, UpdateTTL,
     DeleteIndex, ListGet, DeleteMembers, ListPick, Goto, Return
<1>2. LocalWatch(c, Idle)
  BY IdleType, Zenon DEF LocalWatch, CleanCopy, Deleting
<1>3. CASE CreateExpire(c) \/ PipelineBreaks(c) \/ DeleteIndex(c) \/ ListGet(c)
  <2>1. l = Idle
    BY <1>0, <1>3, Zenon DEF CreateExpire, PipelineBreaks, DeleteIndex, ListGet, Return
  <2>. QED
    BY <1>1, <1>2, <2>1, LocalWatchStep, Zenon DEF Watched, Inv
<1>4. CASE CreateSAdd(c)
  BY <1>0, <1>4, <1>1, LocalWatchStep, Zenon DEF CreateSAdd, Goto, Locals, Watched, Inv, LocalWatch,
     CleanCopy, Deleting
<1>5. CASE ExecuteTTL(c)
  <2>1. l.pc = "exExec" /\ l.dirty = client[c].dirty /\ l.s = client[c].s /\ l.copy = client[c].copy
    BY <1>0, <1>5, Zenon DEF ExecuteTTL, Locals
  <2>2. LocalWatch(c, l)
    BY <1>0, <1>5 DEF LocalWatch, CleanCopy, Deleting, ExecuteTTL, At
  <2>. QED
    BY <1>1, <2>2, LocalWatchStep, Zenon DEF Watched, Inv
<1>6. ~UpdateExists(c) /\ ~UpdateTTL(c)
  BY <1>0, Zenon DEF UpdateExists, UpdateTTL, At, LocalWatch, CleanCopy, Deleting
<1>7. ASSUME NEW u \in User, DeleteMembers(c, u) PROVE LocalWatch(c, l)
  BY <1>0, <1>7, IdleType, Zenon DEF DeleteMembers, Locals, LocalWatch, CleanCopy, Deleting
<1>8. ASSUME NEW u \in User, ListPick(c, u) PROVE LocalWatch(c, l)
  <2>1. PICK ids : l = [Idle EXCEPT !.pc = "listGet", !.user = u, !.ids = ids]
    BY <1>0, <1>8, Zenon DEF ListPick
  <2>2. l.pc = "listGet"
    BY <2>1 DEF Locals
  <2>. QED
    BY <2>2, Zenon DEF LocalWatch, CleanCopy, Deleting
<1>. CASE \E u \in User : DeleteMembers(c, u) \/ ListPick(c, u)
  BY <1>1, <1>7, <1>8, LocalWatchStep, Zenon DEF Watched, Inv
<1>. QED
  BY <1>3, <1>4, <1>5, <1>6

\* GET under WATCH: the copy is the key with the client's change.
LEMMA WatchGet ==
  ASSUME Watched, NEW c \in Client, NEW s \in Session, NEW op \in {"revoke", "touch"}, ExecuteGet(c, s, op)
  PROVE  WatchInv' /\ NoResurrection'
<1>. DEFINE d == IF op = "revoke" THEN [keys[s] EXCEPT !.status = "revoked"] ELSE [keys[s] EXCEPT !.seen = @ \cup {c}]
            l == [Idle EXCEPT !.pc = "exTTL", !.s = s, !.copy = d]
<1>1. client' = [client EXCEPT ![c] = l] /\ UNCHANGED <<keys, removed>> /\ keys[s].status = "active"
  BY Zenon DEF ExecuteGet
<1>2. d = [keys[s] EXCEPT !.status = "revoked"] \/ d = [keys[s] EXCEPT !.seen = @ \cup {c}]
  OBVIOUS
<1>. HIDE DEF d
<1>3. l.pc = "exTTL" /\ l.s = s /\ l.copy = d
  BY DEF Locals
<1>. HIDE DEF l
<1>4. LocalWatch(c, l)
  BY <1>1, <1>2, <1>3, Zenon DEF LocalWatch, CleanCopy, Deleting
<1>. QED
  BY <1>1, <1>4, LocalWatchStep, Zenon DEF Watched, Inv

\* A Create keeps the watches sound.
LEMMA WatchCreate ==
  ASSUME Watched, NEW c \in Client, NEW s \in Session, NEW u \in User, Create(c, s, u)
  PROVE  WatchInv' /\ NoResurrection'
<1>. DEFINE d == [status |-> "active", user |-> u, seen |-> {}]
            l == [Idle EXCEPT !.pc = "sadd", !.s = s, !.user = u]
<1>1. keys' = [keys EXCEPT ![s] = d] /\ client' = [client EXCEPT ![c] = l] /\ UNCHANGED removed /\ ~Made(s)
  BY Zenon DEF Create, Set, Made
<1>2. l.pc = "sadd"
  BY DEF Locals
<1>. HIDE DEF d, l
<1>3. \A t \in Session : Made(t) => t # s /\ keys'[t] = keys[t]
  BY <1>1, Zenon DEF Watched, Inv, Types
<1>4. \A t \in Session : keys[t].status = "active" => Made(t)
  BY DEF Made, SS!Absent
<1>5. NoResurrection'
  BY <1>1, Zenon DEF Watched, Inv, Types, KeyInv, NoResurrection, Here
<1>6. ASSUME NEW e \in Client PROVE LocalWatch(e, client[e])'
  <2>1. CASE e = c
    BY <1>1, <1>2, <2>1, Zenon DEF Watched, Inv, Types, LocalWatch, CleanCopy, Deleting
  <2>. CASE e # c
    <3>1. client'[e] = client[e] /\ client[e] \in Locals /\ LocalInv(client[e]) /\ LocalWatch(e, client[e])
      BY <1>1, Zenon DEF Watched, Inv, Types, ClientInv, WatchInv
    <3>. QED
      BY <1>3, <1>4, <3>1, Zenon DEF LocalWatch, CleanCopy, Deleting, LocalInv, Locals, Here
  <2>. QED
    BY <2>1
<1>. QED
  BY <1>5, <1>6, Zenon DEF WatchInv

\* EXEC: every other client that watches the key finds its watch broken.
LEMMA WatchExec ==
  ASSUME Watched, NEW c \in Client, ExecuteExec(c)
  PROVE  WatchInv' /\ NoResurrection'
<1>0. client[c] \in Locals /\ LocalWatch(c, client[c]) /\ LocalInv(client[c]) /\ client[c].pc = "exExec"
  BY Zenon DEF Watched, Inv, Types, ClientInv, WatchInv, ExecuteExec, At
<1>1. LocalWatch(c, Idle)
  BY IdleType, Zenon DEF LocalWatch, CleanCopy, Deleting
<1>2. CASE client[c].dirty
  BY <1>1, <1>2, LocalWatchStep, Zenon DEF ExecuteExec, Return, Watched, Inv
<1>3. CASE ~client[c].dirty
  <2>. DEFINE s == client[c].s
  <2>1. /\ keys' = [keys EXCEPT ![s] = client[c].copy] /\ UNCHANGED removed
        /\ client' = Touched(Return(c), {s}) /\ s \in Session /\ keys[s].status = "active"
    BY <1>0, <1>3, Zenon DEF ExecuteExec, Set, Locals, LocalWatch, CleanCopy, Deleting
  <2>. HIDE DEF s
  <2>2. Here(s)
    BY <2>1, Zenon DEF Here, SS!Here
  <2>3. \A t \in Session : t # s => keys'[t] = keys[t]
    BY <2>1, Zenon DEF Watched, Inv, Types
  <2>4. Return(c) \in [Client -> Locals] /\ \A e \in Client : Return(c)[e] = IF e = c THEN Idle ELSE client[e]
    BY IdleType, Zenon DEF Watched, Inv, Types, Return
  <2>5. NoResurrection'
    BY <2>1, <2>2, Zenon DEF Watched, Inv, Types, NoResurrection, Here
  <2>6. ASSUME NEW e \in Client PROVE LocalWatch(e, client[e])'
    <3>1. LocalWatch(e, Return(c)[e]) /\ Return(c)[e] \in Locals
      BY <1>1, <2>4, Zenon DEF Watched, WatchInv
    <3>2. \A t \in Session : ~Here(t) => ~Here(t)'
      BY <2>2, <2>3, Zenon DEF Here
    <3>3. CleanCopy(e, client[e])'
      <4>. DEFINE r == Return(c)[e]
      <4>1. /\ client'[e].pc = r.pc /\ client'[e].s = r.s /\ client'[e].copy = r.copy
            /\ ~client'[e].dirty /\ r.pc \in {"exTTL", "exExec"} => ~r.dirty /\ r.s # s
        BY <2>1, <2>4, TouchedType
      <4>2. r \in Locals /\ CleanCopy(e, r)
        BY <3>1, Zenon DEF LocalWatch
      <4>. HIDE DEF r
      <4>. QED
        BY <2>3, <4>1, <4>2, Zenon DEF CleanCopy, Locals
    <3>4. Deleting(client[e], {})'
      <4>. DEFINE r == Return(c)[e]
      <4>1. client'[e].pc = r.pc /\ client'[e].ids = r.ids /\ client'[e].known = r.known
        BY <2>1, <2>4, TouchedType
      <4>. r \in Locals /\ Deleting(r, {})
        BY <3>1, Zenon DEF LocalWatch
      <4>3. r.known \subseteq Session
        BY Zenon DEF Locals
      <4>. HIDE DEF r
      <4>. QED
        BY <3>2, <4>1, <4>3, Zenon DEF Deleting
    <3>. QED
      BY <2>1, <2>4, <3>1, <3>3, <3>4, TouchedType DEF LocalWatch
  <2>. QED
    BY <2>5, <2>6, Zenon DEF WatchInv
<1>. QED
  BY <1>2, <1>3

\* DEL and expiry: a client that watches a removed key finds its watch broken.
LEMMA WatchRemove ==
  ASSUME Watched, NEW ss \in SUBSET Session, Remove(ss),
         NEW cl \in [Client -> Locals], client' = Touched(cl, ss),
         \A e \in Client : /\ cl[e].pc \notin {"upExists", "upTTL", "upSet"}
                           /\ CleanCopy(e, cl[e]) /\ Deleting(cl[e], ss)
  PROVE  WatchInv' /\ NoResurrection'
<1>1. \A t \in Session : /\ Here(t)' <=> Here(t) /\ t \notin ss
                         /\ t \in removed' <=> t \in removed \/ (t \in ss /\ Here(t))
                         /\ t \notin ss => keys'[t] = keys[t]
  BY RemoveKeys, Zenon DEF Watched, Inv, Remove
<1>2. removed' \subseteq Session
  BY RemoveKeys, Zenon DEF Watched, Inv
<1>3. NoResurrection'
  BY <1>1, <1>2, Zenon DEF Watched, NoResurrection
<1>4. ASSUME NEW e \in Client PROVE LocalWatch(e, client[e])'
  <2>1. CleanCopy(e, client[e])'
    BY <1>1, TouchedType, SMTT(20) DEF CleanCopy, Locals
  <2>2. Deleting(client[e], {})'
    BY <1>1, TouchedType DEF Deleting, Locals
  <2>. QED
    BY <2>1, <2>2, TouchedType DEF LocalWatch
<1>. QED
  BY <1>3, <1>4, Zenon DEF WatchInv

\* Every step without UpdateSession keeps the watches sound.
LEMMA WatchedStep ==
  ASSUME Watched, [Next]_vars, "update" \notin Ops
  PROVE  Watched'
<1>1. ASSUME NEW c \in Client, DeleteKeys(c) PROVE WatchInv' /\ NoResurrection'
  <2>. DEFINE cl(s) == [client EXCEPT ![c].ids = @ \ {s}, ![c].pc = IF client[c].ids = {s} THEN "delIndex" ELSE @]
  <2>1. PICK s \in client[c].ids : Remove({s}) /\ client' = Touched(cl(s), {s})
    BY <1>1, Zenon DEF DeleteKeys
  <2>2. client[c] \in Locals /\ LocalWatch(c, client[c]) /\ s \in Session /\ client[c].pc = "delKeys"
    BY <1>1, Zenon DEF Watched, Inv, Types, WatchInv, DeleteKeys, At, Locals
  <2>3. cl(s)[c] = [client[c] EXCEPT !.ids = @ \ {s}, !.pc = IF client[c].ids = {s} THEN "delIndex" ELSE @]
        /\ \A e \in Client : e # c => cl(s)[e] = client[e]
    BY Zenon DEF Watched, Inv, Types
  <2>. HIDE DEF cl
  <2>4. /\ cl(s)[c] \in Locals /\ cl(s)[c].pc = IF client[c].ids = {s} THEN "delIndex" ELSE "delKeys"
        /\ cl(s)[c].ids = client[c].ids \ {s} /\ cl(s)[c].known = client[c].known
    BY <2>2, <2>3, Zenon DEF Locals, PCs
  <2>5. cl(s) \in [Client -> Locals]
    BY <2>4, Zenon DEF Watched, Inv, Types, cl
  <2>6. ASSUME NEW e \in Client
        PROVE  cl(s)[e].pc \notin {"upExists", "upTTL", "upSet"} /\ CleanCopy(e, cl(s)[e]) /\ Deleting(cl(s)[e], {s})
    <3>. CASE e = c
      BY <2>2, <2>4, Zenon DEF LocalWatch, CleanCopy, Deleting
    <3>. CASE e # c
      BY <2>3, Zenon DEF Watched, WatchInv, LocalWatch, Deleting
    <3>. QED
      OBVIOUS
  <2>. QED
    BY <2>1, <2>2, <2>5, <2>6, WatchRemove
<1>2. ASSUME Tick PROVE WatchInv' /\ NoResurrection'
  <2>. DEFINE late == {s \in Session : Here(s) /\ now' >= expires[s]}
  <2>1. Remove(late) /\ client' = Touched(client, late) /\ late \in SUBSET Session
    BY <1>2, Zenon DEF Tick
  <2>. HIDE DEF late
  <2>2. client \in [Client -> Locals]
        /\ \A e \in Client : /\ client[e].pc \notin {"upExists", "upTTL", "upSet"}
                             /\ CleanCopy(e, client[e]) /\ Deleting(client[e], late)
    BY Zenon DEF Watched, Inv, Types, WatchInv, LocalWatch, Deleting
  <2>. QED
    BY <2>1, <2>2, WatchRemove
<1>3. ASSUME NEW u \in User, CleanIndex(u) PROVE WatchInv' /\ NoResurrection'
  BY <1>3, Zenon DEF CleanIndex, Watched, WatchInv, LocalWatch, CleanCopy, Deleting, NoResurrection,
     Here
<1>4. CASE UNCHANGED vars
  BY <1>4, InvStep, Zenon DEF vars, Watched, WatchInv, LocalWatch, CleanCopy, Deleting,
     NoResurrection, Here
<1>5. ASSUME NEW c \in Client PROVE ~UpdateSet(c) /\ \A s \in Session : ~UpdateRead(c, s)
  BY Zenon DEF UpdateSet, UpdateRead, At, Watched, WatchInv, LocalWatch
<1>6. Inv'
  BY InvStep, Zenon DEF Watched
<1>. CASE Next
  BY <1>1, <1>2, <1>3, <1>5, WatchLocal, WatchGet, WatchCreate, WatchExec, <1>6, Zenon DEF Next,
     Watched
<1>. QED
  BY <1>4

\* Watches are sound in every behaviour without UpdateSession.
LEMMA WatchedHolds ==
  ASSUME "update" \notin Ops
  PROVE  Spec => []Watched
<1>1. Watched /\ [Next]_vars => Watched'
  BY WatchedStep
<1>. QED
  BY <1>1, WatchedInit, PTL DEF Spec

\* As long as nobody calls UpdateSession, a session that was deleted or has
\* expired does not come back, whatever transactions were under way.
THEOREM RemovedStaysRemoved ==
  ASSUME "update" \notin Ops
  PROVE  Spec => []NoResurrection
<1>1. Watched => NoResurrection
  BY Zenon DEF Watched
<1>. QED
  BY <1>1, WatchedHolds, PTL

\* DeleteSessionsByUser leaves none of the sessions that it listed.
THEOREM DeletesAllListed ==
  ASSUME "update" \notin Ops
  PROVE  Spec => []DeleteComplete
<1>1. Watched => DeleteComplete
  BY Zenon DEF Watched, WatchInv, LocalWatch, Deleting, DeleteComplete, At
<1>. QED
  BY <1>1, WatchedHolds, PTL
-----------------------------------------------------------------------------
(* The store in memory                                                     *)

\* DEL and expiry remove sessions that are there, or nothing.
LEMMA RemoveImplements ==
  ASSUME Types, NEW ss \in SUBSET Session, Remove(ss)
  PROVE  [SS!StoreNext]_keys
<1>. DEFINE gone == {s \in ss : Here(s)}
<1>1. keys' = [s \in Session |-> IF s \in gone THEN SS!Gone ELSE keys[s]]
  BY Zenon DEF Remove
<1>2. gone \in SUBSET Session /\ \A s \in gone : SS!Here(keys[s])
  BY Zenon DEF Here
<1>. HIDE DEF gone
<1>. CASE gone = {}
  BY <1>1, Zenon DEF Types
<1>. CASE gone # {}
  BY <1>1, <1>2, Zenon DEF SS!DeleteExpiredSessions, SS!StoreNext
<1>. QED
  OBVIOUS

\* EXEC is an Execute of the store in memory, or changes nothing.
LEMMA ExecImplements ==
  ASSUME Watched, NEW c \in Client, ExecuteExec(c)
  PROVE  [SS!StoreNext]_keys
<1>. client[c] \in Locals /\ client[c].s \in Session /\ CleanCopy(c, client[c]) /\ client[c].pc = "exExec"
  BY Zenon DEF Watched, Inv, Types, Locals, WatchInv, LocalWatch, ExecuteExec, At
<1>1. CASE client[c].dirty
  BY <1>1, Zenon DEF ExecuteExec
<1>. CASE ~client[c].dirty
  <2>. DEFINE s == client[c].s
  <2>. keys' = [keys EXCEPT ![s] = client[c].copy] /\ keys[s].status = "active"
    BY Zenon DEF ExecuteExec, Set, CleanCopy
  <2>. CASE client[c].copy = [keys[s] EXCEPT !.status = "revoked"]
    BY Zenon DEF SS!RevokeSessionIfActive, Watched, Inv, Types, SS!StoreNext
  <2>. CASE client[c].copy = [keys[s] EXCEPT !.seen = @ \cup {c}]
    BY Zenon DEF SS!Execute, Watched, Inv, Types, SS!StoreNext
  <2>. QED
    BY Zenon DEF CleanCopy
<1>. QED
  BY <1>1

\* Every step is one of the atomic store, or a stutter.
LEMMA StepImplements ==
  ASSUME Watched, [Next]_vars, "update" \notin Ops
  PROVE  [SS!StoreNext]_keys
<1>1. ASSUME NEW c \in Client, NEW s \in Session, NEW u \in User, Create(c, s, u) PROVE [SS!StoreNext]_keys
  BY <1>1, Zenon DEF Create, Set, SS!Create, SS!StoreNext
<1>2. ASSUME NEW c \in Client, DeleteKeys(c) PROVE [SS!StoreNext]_keys
  BY <1>2, RemoveImplements, Zenon DEF DeleteKeys, Watched, Inv, Types, Locals
<1>3. ASSUME Tick PROVE [SS!StoreNext]_keys
  BY <1>3, RemoveImplements, Zenon DEF Tick, Watched, Inv
<1>4. ASSUME NEW c \in Client PROVE ~UpdateSet(c) /\ \A s \in Session : ~UpdateRead(c, s)
  BY Zenon DEF UpdateSet, UpdateRead, At, Watched, WatchInv, LocalWatch
<1>5. CASE UNCHANGED vars
  BY <1>5, Zenon DEF vars
<1>6. CASE \/ \E u \in User : CleanIndex(u)
           \/ \E c \in Client :
                \/ CreateSAdd(c) \/ CreateExpire(c) \/ PipelineBreaks(c) \/ ExecuteTTL(c) \/ UpdateExists(c)
                \/ UpdateTTL(c) \/ DeleteIndex(c) \/ ListGet(c)
                \/ \E u \in User : DeleteMembers(c, u) \/ ListPick(c, u)
                \/ \E s \in Session, op \in {"revoke", "touch"} : ExecuteGet(c, s, op)
  BY <1>6, Zenon DEF CleanIndex, CreateSAdd, CreateExpire, PipelineBreaks, ExecuteTTL, UpdateExists, UpdateTTL, DeleteIndex,
              ListGet, DeleteMembers, ListPick, ExecuteGet
<1>. QED
  BY <1>1, <1>2, <1>3, <1>4, <1>5, <1>6, ExecImplements, Zenon DEF Next

\* The store in Redis implements the store in memory: every interleaving of
\* pipelines, transactions, deletes and expiry does to the sessions what a
\* sequence of atomic operations under one lock does.
THEOREM ImplementsStore ==
  ASSUME "update" \notin Ops
  PROVE  Spec => StoreSpec
<1>1. Init => SS!StoreInit
  BY Zenon DEF Init, SS!StoreInit
<1>2. Watched /\ [Next]_vars => [SS!StoreNext]_keys
  BY StepImplements
<1>. QED
  BY <1>1, <1>2, WatchedHolds, PTL DEF Spec, StoreSpec, SS!Store
-----------------------------------------------------------------------------
(* The clean-up of ListByUser                                              *)

\* What waits for an SREM was set once, and is gone.
SremInv == \A u \in User : \A s \in srem[u] : Made(s) /\ ~Here(s)

\* No step brings a key back that was set once and is gone.
LEMMA GoneStaysGone ==
  ASSUME Watched, Watched', [Next]_vars, NEW s \in Session, Made(s), ~Here(s)
  PROVE  Made(s)' /\ ~Here(s)'
<1>1. s \in removed
  BY Zenon DEF Watched, Inv, KeyInv
<1>2. removed \subseteq removed'
  BY Zenon DEF Next, vars, Tick, CleanIndex, Create, CreateSAdd, CreateExpire, PipelineBreaks, ExecuteGet, ExecuteTTL,
     ExecuteExec, UpdateRead, UpdateExists, UpdateTTL, UpdateSet, DeleteMembers, DeleteKeys, DeleteIndex, ListPick,
     ListGet, Remove
<1>. QED
  BY <1>1, <1>2, Zenon DEF Watched, Inv, KeyInv, NoResurrection

\* Only ListByUser adds to what waits for an SREM, and only what it found gone.
LEMMA SremGrows ==
  ASSUME Watched, [Next]_vars, NEW u \in User, NEW s \in srem'[u]
  PROVE  s \in srem[u] \/ (s \in Session /\ Made(s) /\ ~Here(s))
<1>1. ASSUME NEW c \in Client, ListGet(c) PROVE s \in srem[u] \/ (s \in Session /\ Made(s) /\ ~Here(s))
  <2>1. client[c] \in Locals /\ LocalInv(client[c])
    BY Zenon DEF Watched, Inv, Types, ClientInv
  <2>2. srem' = [srem EXCEPT ![client[c].user] = @ \cup {t \in client[c].ids : ~Here(t)}]
    BY <1>1, Zenon DEF ListGet
  <2>3. s \in srem[u] \/ s \in {t \in client[c].ids : ~Here(t)}
    BY <2>2, Zenon DEF Watched, Inv, Types
  <2>. QED
    BY <2>1, <2>3, Zenon DEF LocalInv, Locals
<1>2. ASSUME NEW v \in User, CleanIndex(v) PROVE s \in srem[u]
  BY <1>2, Zenon DEF CleanIndex, Watched, Inv, Types
<1>3. CASE UNCHANGED srem
  BY <1>3, Zenon
<1>. QED
  BY <1>1, <1>2, <1>3, Zenon DEF Next, vars, Tick, Create, CreateSAdd, CreateExpire, PipelineBreaks, ExecuteGet,
     ExecuteTTL, ExecuteExec, UpdateRead, UpdateExists, UpdateTTL, UpdateSet, DeleteMembers, DeleteKeys, DeleteIndex,
     ListPick

\* Every step keeps the clean-up sound.
LEMMA SremStep ==
  ASSUME Watched, SremInv, [Next]_vars, "update" \notin Ops
  PROVE  Watched' /\ SremInv'
<1>1. Watched'
  BY WatchedStep
<1>. SUFFICES ASSUME NEW u \in User, NEW s \in srem'[u] PROVE Made(s)' /\ ~Here(s)'
  BY <1>1, Zenon DEF SremInv
<1>2. s \in Session /\ Made(s) /\ ~Here(s)
  BY SremGrows, Zenon DEF SremInv, Watched, Inv, Types
<1>. QED
  BY <1>1, <1>2, GoneStaysGone

\* As long as nobody calls UpdateSession, the SREM that ListByUser leaves behind,
\* however late it comes, takes no session out of its user's set that is there.
THEOREM UnlistsGone ==
  ASSUME "update" \notin Ops
  PROVE  Spec => []UnlistsOnlyGone
<1>1. Init => SremInv
  BY Zenon DEF Init, SremInv
<1>2. Watched /\ SremInv /\ [Next]_vars => Watched' /\ SremInv'
  BY SremStep
<1>3. SremInv => UnlistsOnlyGone
  BY Zenon DEF SremInv, UnlistsOnlyGone
<1>. QED
  BY <1>1, <1>2, <1>3, WatchedInit, PTL DEF Spec
=============================================================================
