---------------------------- MODULE ConsentProofs ----------------------------
(***************************************************************************)
(* What Consent keeps for every set of purposes and of requests, for every *)
(* choice of the durations, and with both backends.                        *)
(*                                                                         *)
(* The argument is about ownership.  A version that a transaction has not  *)
(* committed is under that transaction's row lock, so the committed row it *)
(* was computed from is still the committed row when it is published: each *)
(* change of a row follows the record's rules from the row it replaces.    *)
(* Without a database the mutex gives the same.                            *)
(***************************************************************************)
EXTENDS Consent, TLAPS

\* Inside the transaction.
Active(r) == req[r].pc \in {"execute", "insert"}

\* Before the end of the transaction.
Early(r) == req[r].pc \in {"idle", "begin", "execute", "insert"}

\* What the record's rules let a request of time t make of a row.
Successor(old, new, t) ==
  \/ new = NoRow
  \/ old = NoRow /\ new = NewRecord(t)
  \/ old # NoRow /\ EvaluateGrant(old, t) = "renew" /\ new = RenewAt(old, t)
  \/ old # NoRow /\ CanRevoke(old, t) /\ new = RevokeAt(old, t)

\* A purpose still to do is not written yet; only a transaction has writes.
LocalOf(r) ==
  /\ req[r].at <= now
  /\ \A p \in req[r].todo : req[r].writes[p] = Unwritten
  /\ req[r].pc = "insert" => req[r].cur \in req[r].todo /\ req[r].op = "grant"
  /\ ~Active(r) => req[r].writes = Nothing
  /\ Active(r) => req[r].op # "require"

\* In SQL an uncommitted version is under its writer's lock, and follows from
\* the committed row.
LockOf(r) ==
  Backend = "postgres" /\ Active(r) =>
    \A p \in Purpose :
      req[r].writes[p] # Unwritten
      => lock[p] = r /\ Successor(table[p], req[r].writes[p], req[r].at)

\* Without a database the transaction has the mutex; what it writes is visible
\* at once, and the rows it has not reached are as it found them.
MutexOf(r) ==
  Backend = "memory" /\ Active(r) =>
    /\ mutex = r
    /\ \A p \in Purpose : req[r].writes[p] # Unwritten => p \in changed[r]
    /\ \A p \in req[r].todo :
         /\ table[p] # NoRow => table[p].granted <= req[r].at + Timeout
         /\ req[r].op \in {"revokeall", "delete"} => table[p] # NoRow
         /\ req[r].op = "revokeall" => CanRevoke(table[p], req[r].at)

\* Events, the ones to come included, are about visible changes.
EventOf(r) ==
  /\ req[r].op \in {"grant", "revoke"} => audit[r] \cup req[r].events \subseteq changed[r]
  /\ Early(r) => audit[r] = {} /\ req[r].events = {} /\ req[r].result = "none"
  /\ req[r].pc \in {"idle", "begin"} => changed[r] = {}
  /\ Early(r) /\ Backend = "postgres" => changed[r] = {}
  /\ req[r].op = "require" => changed[r] = {}
  /\ req[r].result = "failed" /\ Backend = "postgres" => changed[r] = {}

\* A row's times: a revocation applies to a grant that is younger than it by no
\* more than a request's age.
RowOf(p) ==
  table[p] # NoRow =>
    /\ table[p].granted <= now
    /\ table[p].expires = table[p].granted + ConsentTTL
    /\ table[p].revoked # Never =>
         /\ table[p].granted <= table[p].revoked + Timeout
         /\ Backend = "postgres" => revokedOn[p] <= table[p].revoked + Timeout

ReqInv == \A r \in Req : LocalOf(r) /\ LockOf(r) /\ MutexOf(r) /\ EventOf(r)
RowInv == \A p \in Purpose : RowOf(p)

Inv == TypeOK /\ ReqInv /\ RowInv

\* Every row that changes becomes a successor of what it is now.
Lawful ==
  \A p \in Purpose :
    \/ table'[p] = table[p]
    \/ \E t \in Nat : t <= now /\ Successor(table[p], table'[p], t)

-----------------------------------------------------------------------------
(* The record's rules *)

\* Rows and the two marks are different, and the rules make rows.
LEMMA RowTypes ==
  /\ NoRow \notin Row /\ Unwritten \notin Row /\ NoRow # Unwritten
  /\ Never \notin Nat
  /\ \A t \in Nat : NewRecord(t) \in Row
  /\ \A row \in Row, t \in Nat : RenewAt(row, t) \in Row /\ RevokeAt(row, t) \in Row
<1>1. Never \notin Nat BY DEF Never
<1>2. NoRow \notin Row /\ Unwritten \notin Row BY <1>1, Zenon DEF NoRow, Unwritten, Row
<1>3. NoRow.expires # Unwritten.expires BY DEF NoRow, Unwritten, Never
<1>4. ASSUME NEW t \in Nat PROVE NewRecord(t) \in Row
  BY ConsentAssumption DEF NewRecord, Row
<1>5. ASSUME NEW row \in Row, NEW t \in Nat
      PROVE  RenewAt(row, t) \in Row /\ RevokeAt(row, t) \in Row
  <2>1. t + ConsentTTL \in Nat BY ConsentAssumption
  <2>2. RenewAt(row, t) \in Row BY <2>1, Zenon DEF RenewAt, Row
  <2>3. RevokeAt(row, t) \in Row BY Zenon DEF RevokeAt, Row
  <2> QED BY <2>2, <2>3
<1> QED BY <1>1, <1>2, <1>3, <1>4, <1>5

\* A renewal sees no revocation, or one the cooldown lies behind; and a row that
\* is not revoked is renewed by a later request only.
LEMMA RenewalRule ==
  ASSUME NEW row \in Row, NEW t \in Nat, EvaluateGrant(row, t) = "renew",
         row.expires = row.granted + ConsentTTL
  PROVE  /\ row.revoked # Never => t >= row.revoked + ReGrantCooldown
         /\ row.revoked = Never => t >= row.granted
<1>1. ~(IsActive(row, t) /\ t - row.granted < GrantWindow) /\ CanReGrant(row, t)
  BY Zenon DEF EvaluateGrant
<1>2. row.granted \in Nat /\ row.revoked \in Nat \cup {Never}
  BY Zenon DEF Row
<1>3. row.revoked # Never => t >= row.revoked + ReGrantCooldown
  BY <1>1, <1>2, ConsentAssumption DEF CanReGrant, Never
<1>4. row.revoked = Never => t >= row.granted
  BY <1>1, <1>2, ConsentAssumption DEF IsActive
<1> QED BY <1>3, <1>4

\* The fields of what the rules make.
LEMMA RuleFields ==
  ASSUME NEW row \in Row, NEW t \in Nat
  PROVE  /\ NewRecord(t).granted = t /\ NewRecord(t).expires = t + ConsentTTL
         /\ NewRecord(t).revoked = Never
         /\ RenewAt(row, t).granted = t /\ RenewAt(row, t).expires = t + ConsentTTL
         /\ RenewAt(row, t).revoked = Never
         /\ RevokeAt(row, t).granted = row.granted
         /\ RevokeAt(row, t).expires = row.expires
         /\ RevokeAt(row, t).revoked = t
BY DEF Row, NewRecord, RenewAt, RevokeAt

\* A successor is a row or none.
LEMMA SuccessorType ==
  ASSUME NEW old \in Row \cup {NoRow}, NEW new, NEW t \in Nat, Successor(old, new, t)
  PROVE  new \in Row \cup {NoRow}
BY RowTypes DEF Successor

-----------------------------------------------------------------------------
(* The parts steps are made of *)

\* Requests start with nothing.
LEMMA IdleType ==
  /\ Idle \in Request
  /\ Nothing \in [Purpose -> Row \cup {NoRow, Unwritten}]
  /\ \A p \in Purpose : Nothing[p] = Unwritten
<1>1. Nothing \in [Purpose -> Row \cup {NoRow, Unwritten}] /\ \A p \in Purpose : Nothing[p] = Unwritten
  BY Zenon DEF Nothing
<1> HIDE DEF Nothing
<1>2. Idle \in Request
  BY <1>1, Zenon DEF Idle, Request, Op
<1> QED BY <1>1, <1>2

\* The request that is over.
LEMMA OverStep ==
  ASSUME TypeOK, NEW r \in Req, NEW res \in {"none", "ok", "failed", "unknown"}, Over(r, res)
  PROVE  /\ req' \in [Req -> Request]
         /\ \A s \in Req \ {r} : req'[s] = req[s]
         /\ req'[r].pc = "done" /\ req'[r].op = req[r].op /\ req'[r].at = 0
         /\ req'[r].todo = {} /\ req'[r].writes = Nothing /\ req'[r].events = {}
         /\ req'[r].result = res
<1> DEFINE new == [Idle EXCEPT !.pc = "done", !.op = req[r].op, !.result = res]
<1>1. req[r] \in Request /\ req \in [Req -> Request] BY Zenon DEF TypeOK
<1>2. req[r].op \in Op BY <1>1, Zenon DEF Request
<1>3. new \in Request BY <1>2, IdleType, Zenon DEF Request
<1>4. /\ new.pc = "done" /\ new.op = req[r].op /\ new.at = 0 /\ new.todo = {}
      /\ new.writes = Nothing /\ new.events = {} /\ new.result = res
  BY Zenon DEF Idle
<1>5. req' = [req EXCEPT ![r] = new] BY Zenon DEF Over
<1> HIDE DEF new
<1> QED BY <1>1, <1>3, <1>4, <1>5

\* The request that has written the rows in W.
LEMMA WriteStep ==
  ASSUME TypeOK, NEW r \in Req, NEW W \in SUBSET Purpose, NEW rows,
         \A p \in W : rows[p] \in Row \cup {NoRow},
         Write(r, W, rows)
  PROVE  /\ req' \in [Req -> Request]
         /\ \A s \in Req \ {r} : req'[s] = req[s]
         /\ req'[r].pc = "execute" /\ req'[r].op = req[r].op /\ req'[r].at = req[r].at
         /\ req'[r].todo = req[r].todo \ W /\ req'[r].events = req[r].events
         /\ req'[r].result = req[r].result
         /\ \A p \in W : req'[r].writes[p] = rows[p]
         /\ \A p \in Purpose \ W : req'[r].writes[p] = req[r].writes[p]
<1> DEFINE writes == [p \in Purpose |-> IF p \in W THEN rows[p] ELSE req[r].writes[p]]
           new == [req[r] EXCEPT !.todo = @ \ W, !.cur = NoPurpose, !.tries = 0,
                                 !.pc = "execute", !.writes = writes]
<1>1. req[r] \in Request /\ req \in [Req -> Request] BY Zenon DEF TypeOK
<1>2. req[r].writes \in [Purpose -> Row \cup {NoRow, Unwritten}] BY <1>1, Zenon DEF Request
<1>3. /\ writes \in [Purpose -> Row \cup {NoRow, Unwritten}]
      /\ \A p \in W : writes[p] = rows[p]
      /\ \A p \in Purpose \ W : writes[p] = req[r].writes[p]
  BY <1>2
<1>4. req' = [req EXCEPT ![r] = new] BY <1>1, Zenon DEF Write
<1> HIDE DEF writes
<1>5. new \in Request BY <1>1, <1>3, Zenon DEF Request
<1>6. /\ new.pc = "execute" /\ new.op = req[r].op /\ new.at = req[r].at
      /\ new.todo = req[r].todo \ W /\ new.events = req[r].events
      /\ new.result = req[r].result /\ new.writes = writes
  BY <1>1, Zenon DEF Request
<1> HIDE DEF new
<1> QED BY <1>1, <1>3, <1>4, <1>5, <1>6

\* The request that has passed a purpose.
LEMMA PassStep ==
  ASSUME TypeOK, NEW r \in Req, NEW p \in Purpose, Pass(r, p)
  PROVE  /\ req' \in [Req -> Request]
         /\ \A s \in Req \ {r} : req'[s] = req[s]
         /\ req'[r].pc = req[r].pc /\ req'[r].op = req[r].op /\ req'[r].at = req[r].at
         /\ req'[r].todo = req[r].todo \ {p} /\ req'[r].events = req[r].events
         /\ req'[r].result = req[r].result /\ req'[r].writes = req[r].writes
<1> DEFINE new == [req[r] EXCEPT !.todo = @ \ {p}, !.cur = NoPurpose, !.tries = 0]
<1>1. req[r] \in Request /\ req \in [Req -> Request] BY Zenon DEF TypeOK
<1>2. new \in Request BY <1>1, Zenon DEF Request
<1>3. /\ new.pc = req[r].pc /\ new.op = req[r].op /\ new.at = req[r].at
      /\ new.todo = req[r].todo \ {p} /\ new.events = req[r].events
      /\ new.result = req[r].result /\ new.writes = req[r].writes
  BY <1>1, Zenon DEF Request
<1>4. req' = [req EXCEPT ![r] = new] BY <1>1, Zenon DEF Pass
<1> HIDE DEF new
<1> QED BY <1>1, <1>2, <1>3, <1>4

\* Rows that become visible are successors of the rows they replace, made by a
\* request that is no older than the transaction allows.
LEMMA ShowStep ==
  ASSUME Inv, NEW r \in Req, NEW W \in SUBSET Purpose, NEW rows, NEW t \in Nat,
         now' = now, Show(r, W, rows), t <= now,
         Backend = "postgres" => now <= t + Timeout,
         \A p \in W : /\ Successor(table[p], rows[p], t)
                      /\ table[p] # NoRow => table[p].granted <= t + Timeout
  PROVE  /\ table' \in [Purpose -> Row \cup {NoRow}] /\ revokedOn' \in [Purpose -> Nat]
         /\ changed' = [changed EXCEPT ![r] = @ \cup W]
         /\ \A p \in Purpose \ W : table'[p] = table[p]
         /\ \A p \in W : table'[p] = rows[p]
         /\ RowInv'
<1> DEFINE Revoked(row) == row # NoRow /\ row.revoked # Never
           new == [p \in Purpose |-> IF p \in W THEN rows[p] ELSE table[p]]
<1>1. now \in Nat /\ table \in [Purpose -> Row \cup {NoRow}] /\ revokedOn \in [Purpose -> Nat]
  BY Zenon DEF Inv, TypeOK
<1>2. \A p \in W : rows[p] \in Row \cup {NoRow}
  BY <1>1, SuccessorType
<1>3. /\ table' \in [Purpose -> Row \cup {NoRow}]
      /\ \A p \in Purpose \ W : table'[p] = table[p]
      /\ \A p \in W : table'[p] = rows[p]
  BY <1>1, <1>2, Zenon DEF Show
<1>4. \A p \in Purpose : revokedOn'[p] =
        IF Revoked(table'[p]) /\ ~Revoked(table[p]) THEN now ELSE revokedOn[p]
  BY <1>3, Zenon DEF Show
<1>5. revokedOn' \in [Purpose -> Nat]
  BY <1>1, Zenon DEF Show
<1>6. ASSUME NEW p \in Purpose PROVE RowOf(p)'
  <2>1. RowOf(p) /\ (table[p] # NoRow => table[p] \in Row)
    BY <1>1, Zenon DEF Inv, RowInv
  <2>2. CASE p \notin W
    <3>1. table'[p] = table[p] /\ revokedOn'[p] = revokedOn[p]
      BY <2>2, <1>3, <1>4
    <3> QED BY <3>1, <2>1, Zenon DEF RowOf
  <2>3. CASE p \in W
    <3> DEFINE old == table[p]
    <3>0. table'[p] = rows[p] /\ Successor(old, rows[p], t)
          /\ (old # NoRow => old.granted <= t + Timeout)
      BY <2>3, <1>3
    <3> HIDE DEF Revoked
    <3>1. CASE rows[p] = NoRow BY <3>0, <3>1, Zenon DEF RowOf
    <3>2. CASE old = NoRow /\ rows[p] = NewRecord(t)
      <4>1. /\ rows[p].granted = t /\ rows[p].expires = t + ConsentTTL
            /\ rows[p].revoked = Never
        BY <3>2 DEF NewRecord
      <4> QED BY <4>1, <3>0, Zenon DEF RowOf
    <3>3. CASE old # NoRow /\ rows[p] = RenewAt(old, t)
      <4>1. /\ rows[p].granted = t /\ rows[p].expires = t + ConsentTTL
            /\ rows[p].revoked = Never
        BY <3>3, <2>1, RuleFields
      <4> QED BY <4>1, <3>0, Zenon DEF RowOf
    <3>4. CASE old # NoRow /\ CanRevoke(old, t) /\ rows[p] = RevokeAt(old, t)
      <4>1. /\ rows[p].granted = old.granted /\ rows[p].expires = old.expires
            /\ rows[p].revoked = t
        BY <3>4, <2>1, RuleFields
      <4>2. old.granted <= now /\ old.expires = old.granted + ConsentTTL
        BY <3>4, <2>1, Zenon DEF RowOf
      <4>3. ~Revoked(old) BY <3>4, Zenon DEF CanRevoke, Revoked
      <4>4. rows[p] \in Row BY <3>4, <2>1, RowTypes
      <4>5. Revoked(rows[p]) BY <4>1, <4>4, RowTypes, Zenon DEF Revoked
      <4>6. revokedOn'[p] = now BY <1>4, <3>0, <4>3, <4>5
      <4> QED BY <4>1, <4>2, <4>6, <3>0, <3>4, Zenon DEF RowOf
    <3> QED BY <3>0, <3>1, <3>2, <3>3, <3>4, Zenon DEF Successor
  <2> QED BY <2>2, <2>3
<1>7. RowInv' BY <1>6, Zenon DEF RowInv
<1>8. changed' = [changed EXCEPT ![r] = @ \cup W] BY Zenon DEF Show
<1> QED BY <1>3, <1>5, <1>7, <1>8

-----------------------------------------------------------------------------
(* Steps of one request *)

\* A step of r keeps Inv if it keeps what concerns r and the rows, and leaves
\* the others what is theirs: in SQL the rows they have locked, without a
\* database everything while one of them has the mutex.
LEMMA RequestStep ==
  ASSUME Inv, NEW r \in Req, TypeOK', now' = now, RowInv',
         \A s \in Req \ {r} : /\ req'[s] = req[s] /\ audit'[s] = audit[s]
                              /\ changed'[s] = changed[s],
         \A s \in Req \ {r}, p \in Purpose :
           Backend = "postgres" /\ lock[p] = s => lock'[p] = s /\ table'[p] = table[p],
         \A s \in Req \ {r} :
           Backend = "memory" /\ mutex = s => mutex' = s /\ table' = table,
         LocalOf(r)', LockOf(r)', MutexOf(r)', EventOf(r)'
  PROVE  Inv'
<1>1. ASSUME NEW s \in Req \ {r}
      PROVE  (LocalOf(s) /\ LockOf(s) /\ MutexOf(s) /\ EventOf(s))'
  <2>0. LocalOf(s) /\ LockOf(s) /\ MutexOf(s) /\ EventOf(s)
    BY Zenon DEF Inv, ReqInv
  <2>1. LocalOf(s)' BY <2>0, Zenon DEF LocalOf, Active
  <2>2. LockOf(s)' BY <2>0 DEF LockOf, Active
  <2>3. MutexOf(s)' BY <2>0, Zenon DEF MutexOf, Active
  <2>4. EventOf(s)' BY <2>0, Zenon DEF EventOf, Early
  <2> QED BY <2>1, <2>2, <2>3, <2>4
<1>2. ReqInv' BY <1>1, Zenon DEF ReqInv
<1> QED BY <1>2, Zenon DEF Inv

\* A step that changes the request alone.
LEMMA LocalStep ==
  ASSUME Inv, NEW r \in Req, req' \in [Req -> Request],
         UNCHANGED <<now, table, lock, mutex, audit, history>>,
         \A s \in Req \ {r} : req'[s] = req[s],
         LocalOf(r)', LockOf(r)', MutexOf(r)', EventOf(r)'
  PROVE  Inv' /\ Lawful
<1>1. TypeOK' BY Zenon DEF Inv, TypeOK, history
<1>2. RowInv' BY Zenon DEF Inv, RowInv, RowOf, history
<1>3. Inv' BY <1>1, <1>2, RequestStep, Zenon DEF history
<1> QED BY <1>3, Zenon DEF Lawful

\* The transaction ends without a commit.
LEMMA EndStep ==
  ASSUME Inv, NEW r \in Req, Over(r, "failed"), RollBack(r), UNCHANGED <<now, audit>>,
         Early(r), Backend = "memory" => Active(r) \/ mutex = NoReq
  PROVE  Inv' /\ Lawful
<1>0. TypeOK /\ EventOf(r) /\ MutexOf(r) BY Zenon DEF Inv, ReqInv
<1>1. /\ req' \in [Req -> Request] /\ \A s \in Req \ {r} : req'[s] = req[s]
      /\ req'[r].pc = "done" /\ req'[r].op = req[r].op /\ req'[r].at = 0
      /\ req'[r].todo = {} /\ req'[r].writes = Nothing /\ req'[r].events = {}
      /\ req'[r].result = "failed"
  BY <1>0, OverStep
<1>2. UNCHANGED <<table, changed, revokedOn>> BY Zenon DEF RollBack, history
<1>3. /\ lock' \in [Purpose -> Req \cup {NoReq}]
      /\ \A s \in Req \ {r}, p \in Purpose : lock[p] = s => lock'[p] = s
  BY <1>0, Zenon DEF RollBack, Unlocked, TypeOK
<1>4. /\ mutex' \in Req \cup {NoReq}
      /\ \A s \in Req \ {r} : mutex = s => mutex' = s
  BY <1>0, Zenon DEF RollBack, Release, TypeOK
<1>5. TypeOK' BY <1>0, <1>1, <1>2, <1>3, <1>4, Zenon DEF TypeOK
<1>6. RowInv' BY <1>2, Zenon DEF Inv, RowInv, RowOf
<1>7. LocalOf(r)' BY <1>0, <1>1, SMTT(20) DEF LocalOf, Active, TypeOK
<1>8. LockOf(r)' /\ MutexOf(r)' BY <1>1, Zenon DEF LockOf, MutexOf, Active
<1>9. EventOf(r)' BY <1>0, <1>1, <1>2, Zenon DEF EventOf, Early
<1>10. Inv' BY <1>1, <1>2, <1>3, <1>4, <1>5, <1>6, <1>7, <1>8, <1>9, RequestStep
<1> QED BY <1>2, <1>10, Zenon DEF Lawful

\* A purpose is done without a write.
LEMMA PassInv ==
  ASSUME Inv, NEW r \in Req, NEW p \in Purpose, req[r].pc = "execute",
         Pass(r, p), UNCHANGED <<now, mutex, audit>>,
         Seen(r, p) # NoRow => Free(r, p)
  PROVE  Inv' /\ Lawful
<1>0. TypeOK /\ LocalOf(r) /\ LockOf(r) /\ MutexOf(r) /\ EventOf(r) BY Zenon DEF Inv, ReqInv
<1>1. /\ req' \in [Req -> Request] /\ \A s \in Req \ {r} : req'[s] = req[s]
      /\ req'[r].pc = req[r].pc /\ req'[r].op = req[r].op /\ req'[r].at = req[r].at
      /\ req'[r].todo = req[r].todo \ {p} /\ req'[r].events = req[r].events
      /\ req'[r].result = req[r].result /\ req'[r].writes = req[r].writes
  BY <1>0, PassStep
<1>2. UNCHANGED <<table, changed, revokedOn>> BY Zenon DEF Pass, history
<1>3. /\ lock' \in [Purpose -> Req \cup {NoReq}]
      /\ \A q \in Purpose : lock'[q] = lock[q] \/ (q = p /\ lock'[q] = r /\ Free(r, p))
  BY <1>0, Zenon DEF Pass, TypeOK
<1>4. \A s \in Req \ {r}, q \in Purpose : lock[q] = s => lock'[q] = s
  BY <1>3, ConsentAssumption, Zenon DEF Free
<1>5. TypeOK' BY <1>0, <1>1, <1>2, <1>3, Zenon DEF TypeOK
<1>6. RowInv' BY <1>2, Zenon DEF Inv, RowInv, RowOf
<1>7. LocalOf(r)' BY <1>0, <1>1, Zenon DEF LocalOf, Active
<1>8. LockOf(r)' BY <1>0, <1>1, <1>2, <1>3, Zenon DEF LockOf, Active
<1>9. MutexOf(r)' BY <1>0, <1>1, <1>2, Zenon DEF MutexOf, Active
<1>10. EventOf(r)' BY <1>0, <1>1, <1>2, Zenon DEF EventOf, Early
<1>11. Inv' BY <1>1, <1>2, <1>4, <1>5, <1>6, <1>7, <1>8, <1>9, <1>10, RequestStep, SMTT(20)
<1> QED BY <1>2, <1>11, Zenon DEF Lawful

\* Successors of the rows in W are written.
LEMMA WriteInv ==
  ASSUME Inv, NEW r \in Req, Active(r), NEW W \in SUBSET req[r].todo, NEW rows,
         Write(r, W, rows), UNCHANGED <<now, mutex, audit>>,
         Backend = "postgres" => \A p \in W : Free(r, p),
         \A p \in W : Successor(table[p], rows[p], req[r].at)
  PROVE  Inv' /\ Lawful
<1>0. TypeOK /\ LocalOf(r) /\ LockOf(r) /\ MutexOf(r) /\ EventOf(r) BY Zenon DEF Inv, ReqInv
<1>1. /\ req[r].at \in Nat /\ req[r].todo \subseteq Purpose /\ W \in SUBSET Purpose
      /\ table \in [Purpose -> Row \cup {NoRow}]
  BY <1>0, Zenon DEF TypeOK, Request
<1>2. \A p \in W : rows[p] \in Row \cup {NoRow}
  BY <1>1, SuccessorType, SMTT(20)
<1>3. /\ req' \in [Req -> Request] /\ \A s \in Req \ {r} : req'[s] = req[s]
      /\ req'[r].pc = "execute" /\ req'[r].op = req[r].op /\ req'[r].at = req[r].at
      /\ req'[r].todo = req[r].todo \ W /\ req'[r].events = req[r].events
      /\ req'[r].result = req[r].result
      /\ \A p \in W : req'[r].writes[p] = rows[p]
      /\ \A p \in Purpose \ W : req'[r].writes[p] = req[r].writes[p]
  <2>1. req' \in [Req -> Request] BY <1>0, <1>1, <1>2, WriteStep, Zenon
  <2>2. \A s \in Req \ {r} : req'[s] = req[s] BY <1>0, <1>1, <1>2, WriteStep, Zenon
  <2>3. req'[r].pc = "execute" /\ req'[r].op = req[r].op /\ req'[r].at = req[r].at
    BY <1>0, <1>1, <1>2, WriteStep, SMTT(20)
  <2>4. /\ req'[r].todo = req[r].todo \ W /\ req'[r].events = req[r].events
        /\ req'[r].result = req[r].result
    BY <1>0, <1>1, <1>2, WriteStep, Zenon
  <2>5. \A p \in W : req'[r].writes[p] = rows[p] BY <1>0, <1>1, <1>2, WriteStep
  <2>6. \A p \in Purpose \ W : req'[r].writes[p] = req[r].writes[p]
    BY <1>0, <1>1, <1>2, WriteStep, Zenon
  <2> QED BY <2>1, <2>2, <2>3, <2>4, <2>5, <2>6, SMTT(20)
<1>4. LocalOf(r)' BY <1>0, <1>1, <1>3, Zenon DEF LocalOf, Active
<1>5. CASE Backend = "memory"
  <2>1. Show(r, W, rows) /\ lock' = lock BY <1>5, Zenon DEF Write
  <2>2. \A p \in W : table[p] # NoRow => table[p].granted <= req[r].at + Timeout
    BY <1>0, <1>5, Zenon DEF MutexOf
  <2>3. req[r].at <= now BY <1>0, Zenon DEF LocalOf
  <2>4. /\ table' \in [Purpose -> Row \cup {NoRow}] /\ revokedOn' \in [Purpose -> Nat]
        /\ changed' = [changed EXCEPT ![r] = @ \cup W]
        /\ \A p \in Purpose \ W : table'[p] = table[p]
        /\ \A p \in W : table'[p] = rows[p]
        /\ RowInv'
    BY <1>1, <1>5, <2>1, <2>2, <2>3, ShowStep, Zenon
  <2>5. /\ changed' \in [Req -> SUBSET Purpose] /\ changed'[r] = changed[r] \cup W
        /\ \A s \in Req \ {r} : changed'[s] = changed[s]
    BY <1>0, <1>1, <2>4, Zenon DEF TypeOK
  <2>6. TypeOK' BY <1>0, <1>3, <2>1, <2>4, <2>5, Zenon DEF TypeOK
  <2>7. mutex = r BY <1>0, <1>5, Zenon DEF MutexOf
  <2>8. MutexOf(r)'
    <3>1. \A p \in Purpose : req'[r].writes[p] # Unwritten => p \in changed'[r]
      BY <1>0, <1>3, <1>5, <2>5, Zenon DEF MutexOf
    <3>2. \A p \in req'[r].todo : p \in req[r].todo /\ table'[p] = table[p]
      BY <1>1, <1>3, <2>4, Zenon
    <3>3. ASSUME NEW p \in req'[r].todo
          PROVE  /\ table'[p] # NoRow => table'[p].granted <= req'[r].at + Timeout
                 /\ req'[r].op \in {"revokeall", "delete"} => table'[p] # NoRow
                 /\ req'[r].op = "revokeall" => CanRevoke(table'[p], req'[r].at)
      BY <1>0, <1>3, <1>5, <3>2 DEF MutexOf, CanRevoke
    <3> QED BY <2>7, <3>1, <3>3, Zenon DEF MutexOf, CanRevoke
  <2>9. EventOf(r)'
    BY <1>0, <1>3, <1>5, <2>5, Zenon DEF EventOf, Early, Active, LocalOf
  <2>10. LockOf(r)' BY <1>5, Zenon DEF LockOf
  <2>11. \A s \in Req \ {r} : mutex # s BY <2>7, Zenon
  <2>12. Inv' BY <1>3, <1>4, <1>5, <2>4, <2>5, <2>6, <2>8, <2>9, <2>10, <2>11, RequestStep, Zenon
  <2>13. Lawful BY <1>1, <2>3, <2>4, Zenon DEF Lawful
  <2> QED BY <2>12, <2>13
<1>6. CASE Backend = "postgres"
  <2>1. /\ UNCHANGED <<table, changed, revokedOn>>
        /\ lock' = [p \in Purpose |-> IF p \in W THEN r ELSE lock[p]]
    BY <1>6, Zenon DEF Write, history
  <2>2. lock' \in [Purpose -> Req \cup {NoReq}] BY <1>0, <2>1, Zenon DEF TypeOK
  <2>3. \A s \in Req \ {r}, p \in Purpose : lock[p] = s => lock'[p] = s
    BY <1>6, <2>1, ConsentAssumption, Zenon DEF Free
  <2>4. TypeOK' BY <1>0, <1>3, <2>1, <2>2, Zenon DEF TypeOK
  <2>5. RowInv' BY <2>1, Zenon DEF Inv, RowInv, RowOf
  <2>6. ASSUME NEW p \in Purpose, req'[r].writes[p] # Unwritten
        PROVE  lock'[p] = r /\ Successor(table'[p], req'[r].writes[p], req'[r].at)
    <3>1. CASE p \in W BY <3>1, <1>3, <2>1
    <3>2. CASE p \notin W BY <3>2, <2>6, <1>0, <1>3, <1>6, <2>1, Zenon DEF LockOf
    <3> QED BY <3>1, <3>2, SMTT(20)
  <2>7. LockOf(r)' BY <2>6, <1>3, Zenon DEF LockOf, Successor
  <2>8. MutexOf(r)' BY <1>6, Zenon DEF MutexOf
  <2>9. EventOf(r)' BY <1>0, <1>3, <2>1, Zenon DEF EventOf, Early, Active
  <2>10. Inv' BY <1>3, <1>4, <1>6, <2>1, <2>3, <2>4, <2>5, <2>7, <2>8, <2>9, RequestStep, Zenon
  <2> QED BY <2>1, <2>10, Zenon DEF Lawful
<1> QED BY <1>5, <1>6, ConsentAssumption, SMTT(20)

\* The purpose in turn is not written yet, so the request reads the committed row.
LEMMA TurnSees ==
  ASSUME Inv, NEW r \in Req, NEW p \in req[r].todo
  PROVE  /\ p \in Purpose /\ Seen(r, p) = table[p] /\ table[p] \in Row \cup {NoRow}
         /\ req[r].at \in Nat
<1>1. req[r] \in Request /\ LocalOf(r) /\ table \in [Purpose -> Row \cup {NoRow}]
  BY Zenon DEF Inv, ReqInv, TypeOK
<1>2. p \in Purpose /\ req[r].at \in Nat BY <1>1, Zenon DEF Request
<1> QED BY <1>1, <1>2, Zenon DEF LocalOf, Seen

\* The transaction of a request ends with its commit.
LEMMA CommitInv ==
  ASSUME Inv, NEW r \in Req, NEW answered \in BOOLEAN, Commit(r, answered)
  PROVE  Inv' /\ Lawful
<1>0. TypeOK /\ LocalOf(r) /\ LockOf(r) /\ MutexOf(r) /\ EventOf(r) BY Zenon DEF Inv, ReqInv
<1>1. /\ req[r] \in Request /\ req \in [Req -> Request] /\ now' = now /\ audit' = audit
      /\ req[r].pc = "execute" /\ req[r].op # "require" /\ Active(r)
  BY <1>0, Zenon DEF TypeOK, Commit, Active
<1>2. /\ lock' \in [Purpose -> Req \cup {NoReq}]
      /\ \A s \in Req \ {r}, p \in Purpose : lock[p] = s => lock'[p] = s
  BY <1>0, Zenon DEF Commit, Unlocked, TypeOK
<1>3. /\ mutex' \in Req \cup {NoReq}
      /\ \A s \in Req \ {r} : mutex = s => mutex' = s
  BY <1>0, Zenon DEF Commit, Release, TypeOK
<1>4. Written(r) \in SUBSET Purpose BY Zenon DEF Written
<1>5. /\ table' \in [Purpose -> Row \cup {NoRow}] /\ revokedOn' \in [Purpose -> Nat]
      /\ changed' \in [Req -> SUBSET Purpose] /\ Written(r) \subseteq changed'[r]
      /\ \A s \in Req \ {r} : changed'[s] = changed[s]
      /\ Backend = "postgres" => \A p \in Purpose \ Written(r) : table'[p] = table[p]
      /\ Backend = "memory" => table' = table
      /\ RowInv' /\ Lawful
  <2>1. CASE Backend = "memory"
    <3>1. UNCHANGED <<table, changed, revokedOn>> BY <2>1, Zenon DEF Commit, history
    <3>2. Written(r) \subseteq changed[r] BY <1>0, <1>1, <2>1, Zenon DEF MutexOf, Written
    <3>3. RowInv' BY <1>1, <3>1, Zenon DEF Inv, RowInv, RowOf
    <3> QED BY <1>0, <2>1, <3>1, <3>2, <3>3, Zenon DEF TypeOK, Lawful
  <2>2. CASE Backend = "postgres"
    <3>1. Show(r, Written(r), req[r].writes) /\ now <= req[r].at + Timeout
      BY <2>2, Zenon DEF Commit, InTime
    <3>2. req[r].at <= now /\ req[r].at \in Nat BY <1>0, <1>1, Zenon DEF LocalOf, Request
    <3>3. \A p \in Written(r) : Successor(table[p], req[r].writes[p], req[r].at)
      BY <1>0, <1>1, <2>2, Zenon DEF LockOf, Written
    <3>4. \A p \in Written(r) : table[p] # NoRow => table[p].granted <= req[r].at + Timeout
      <4>1. TAKE p \in Written(r)
      <4>2. HAVE table[p] # NoRow
      <4>3. RowOf(p) /\ table[p] \in Row BY <1>0, <1>4, <4>2, Zenon DEF Inv, RowInv, TypeOK
      <4>4. table[p].granted <= now /\ table[p].granted \in Nat BY <4>2, <4>3, Zenon DEF RowOf, Row
      <4> QED BY <1>0, <3>1, <3>2, <4>4, ConsentAssumption DEF TypeOK
    <3>5. /\ table' \in [Purpose -> Row \cup {NoRow}] /\ revokedOn' \in [Purpose -> Nat]
          /\ changed' = [changed EXCEPT ![r] = @ \cup Written(r)]
          /\ \A p \in Purpose \ Written(r) : table'[p] = table[p]
          /\ \A p \in Written(r) : table'[p] = req[r].writes[p]
          /\ RowInv'
      BY <1>1, <1>4, <3>1, <3>2, <3>3, <3>4, ShowStep, Zenon
    <3>6. /\ changed' \in [Req -> SUBSET Purpose] /\ Written(r) \subseteq changed'[r]
          /\ \A s \in Req \ {r} : changed'[s] = changed[s]
      BY <1>0, <1>4, <3>5, Zenon DEF TypeOK
    <3>7. Lawful BY <3>2, <3>3, <3>5, Zenon DEF Lawful
    <3> QED BY <2>2, <3>5, <3>6, <3>7
  <2> QED BY <2>1, <2>2, ConsentAssumption
<1>6. /\ req' \in [Req -> Request] /\ \A s \in Req \ {r} : req'[s] = req[s]
      /\ req'[r].pc \in {"audit", "done"} /\ req'[r].op = req[r].op
      /\ req'[r].at \in {0, req[r].at} /\ req'[r].todo = {} /\ req'[r].writes = Nothing
      /\ req'[r].result \in {"ok", "unknown"}
      /\ req[r].op \in {"grant", "revoke"} => req'[r].events \subseteq Written(r)
  <2>1. CASE ~answered
    <3>1. Over(r, "unknown") BY <2>1, Zenon DEF Commit
    <3> QED BY <1>0, <3>1, OverStep
  <2>2. CASE answered
    <3> DEFINE new == [Idle EXCEPT !.pc = "audit", !.op = req[r].op, !.at = req[r].at,
                                   !.result = "ok", !.events = Effects(r)]
    <3>1. Effects(r) \in SUBSET (Purpose \cup {AllPurposes})
      BY <1>4, Zenon DEF Effects, GrantEvents, RevokeEvents, RevokeAllEvents, DeleteAllEvents
    <3>2. req[r].op \in {"grant", "revoke"} => Effects(r) = Written(r)
      BY Zenon DEF Effects, GrantEvents, RevokeEvents
    <3>3. req[r].op \in Op /\ req[r].at \in Nat BY <1>1, Zenon DEF Request
    <3>4. req' = [req EXCEPT ![r] = new] BY <2>2, Zenon DEF Commit
    <3>5. new \in Request BY <3>1, <3>3, IdleType, Zenon DEF Request
    <3>6. /\ new.pc = "audit" /\ new.op = req[r].op /\ new.at = req[r].at
          /\ new.todo = {} /\ new.writes = Nothing /\ new.result = "ok"
          /\ new.events = Effects(r)
      BY Zenon DEF Idle
    <3> HIDE DEF new
    <3> QED BY <1>1, <3>2, <3>4, <3>5, <3>6
  <2> QED BY <2>1, <2>2, SMTT(20)
<1>7. \A s \in Req \ {r}, p \in Purpose :
        Backend = "postgres" /\ lock[p] = s => lock'[p] = s /\ table'[p] = table[p]
  <2>1. Backend = "postgres" => \A p \in Written(r) : lock[p] = r
    BY <1>0, <1>1, Zenon DEF LockOf, Written
  <2> QED BY <2>1, <1>2, <1>5
<1>8. TypeOK' BY <1>0, <1>1, <1>2, <1>3, <1>5, <1>6, Zenon DEF TypeOK
<1>9. LocalOf(r)' BY <1>0, <1>1, <1>6 DEF LocalOf, Active, TypeOK
<1>10. LockOf(r)' /\ MutexOf(r)' BY <1>6, Zenon DEF LockOf, MutexOf, Active
<1>11. EventOf(r)'
  BY <1>0, <1>1, <1>5, <1>6, Zenon DEF EventOf, Early
<1>12. Inv' BY <1>1, <1>3, <1>5, <1>6, <1>7, <1>8, <1>9, <1>10, <1>11, RequestStep, Zenon
<1> QED BY <1>5, <1>12

-----------------------------------------------------------------------------
(* The actions *)

\* The first states.
LEMMA InitInv == Init => Inv
<1> SUFFICES ASSUME Init PROVE Inv OBVIOUS
<1>1. TypeOK BY IdleType, Zenon DEF Init, TypeOK
<1>2. ASSUME NEW r \in Req PROVE LocalOf(r) /\ LockOf(r) /\ MutexOf(r) /\ EventOf(r)
  <2>1. /\ req[r].pc = "idle" /\ req[r].at = 0 /\ req[r].todo = {} /\ req[r].writes = Nothing
        /\ req[r].events = {} /\ req[r].result = "none" /\ req[r].op = "require"
    BY Zenon DEF Init, Idle
  <2>2. audit[r] = {} /\ changed[r] = {} /\ now = 0 BY Zenon DEF Init
  <2> QED BY <2>1, <2>2 DEF LocalOf, LockOf, MutexOf, EventOf, Active, Early
<1>3. RowInv BY Zenon DEF Init, RowInv, RowOf
<1> QED BY <1>1, <1>2, <1>3, Zenon DEF Inv, ReqInv

\* A request arrives.
LEMMA ArriveInv ==
  ASSUME Inv, NEW r \in Req, NEW op \in Ops, NEW S \in SUBSET Purpose, Arrive(r, op, S)
  PROVE  Inv' /\ Lawful
<1> DEFINE new == [Idle EXCEPT !.pc = "begin", !.op = op, !.at = now, !.todo = S]
<1>0. TypeOK /\ EventOf(r) /\ req[r].pc = "idle" BY Zenon DEF Inv, ReqInv, Arrive
<1>1. op \in Op /\ now \in Nat BY <1>0, ConsentAssumption, Zenon DEF TypeOK
<1>2. new \in Request BY <1>1, IdleType, Zenon DEF Request
<1>3. /\ new.pc = "begin" /\ new.op = op /\ new.at = now /\ new.todo = S
      /\ new.writes = Nothing /\ new.events = {} /\ new.result = "none"
  BY Zenon DEF Idle
<1>4. req' = [req EXCEPT ![r] = new] /\ UNCHANGED <<now, table, lock, mutex, audit, history>>
  BY Zenon DEF Arrive
<1> HIDE DEF new
<1>5. req' \in [Req -> Request] /\ req'[r] = new /\ \A s \in Req \ {r} : req'[s] = req[s]
  BY <1>0, <1>2, <1>4, Zenon DEF TypeOK
<1>6. LocalOf(r)' BY <1>1, <1>3, <1>4, <1>5, IdleType DEF LocalOf, Active
<1>7. LockOf(r)' /\ MutexOf(r)' BY <1>3, <1>5, Zenon DEF LockOf, MutexOf, Active
<1>8. audit'[r] = {} /\ changed'[r] = {} BY <1>0, <1>4, Zenon DEF EventOf, Early, history
<1>9. EventOf(r)' BY <1>3, <1>5, <1>8, Zenon DEF EventOf, Early
<1> QED BY <1>4, <1>5, <1>6, <1>7, <1>9, LocalStep

\* The rows of revokeall and delete are there, and can be revoked.
LEMMA BeginInv ==
  ASSUME Inv, NEW r \in Req, Begin(r)
  PROVE  Inv' /\ Lawful
<1> DEFINE todo == IF req[r].op \in {"revokeall", "delete"} THEN Matching(r) ELSE req[r].todo
           new == [req[r] EXCEPT !.pc = "execute", !.todo = todo]
<1>0. TypeOK /\ LocalOf(r) /\ EventOf(r) BY Zenon DEF Inv, ReqInv
<1>1. /\ req[r] \in Request /\ req \in [Req -> Request] /\ req[r].pc = "begin"
      /\ req[r].op # "require" /\ now <= req[r].at + Timeout
      /\ UNCHANGED <<now, table, lock, audit, history>>
  BY <1>0, Zenon DEF Begin, TypeOK, InTime
<1>2. req[r].at \in Nat /\ req[r].writes = Nothing BY <1>0, <1>1, Zenon DEF Request, LocalOf, Active
<1>3. todo \subseteq Purpose BY <1>1, Zenon DEF Matching, Request
<1>4. req' = [req EXCEPT ![r] = new] BY <1>1, Zenon DEF Begin
<1>5. \A p \in todo :
        /\ req[r].op \in {"revokeall", "delete"} => table[p] # NoRow
        /\ req[r].op = "revokeall" => CanRevoke(table[p], req[r].at)
  BY Zenon DEF Matching
<1> HIDE DEF todo
<1>6. /\ new \in Request /\ new.pc = "execute" /\ new.op = req[r].op /\ new.at = req[r].at
      /\ new.todo = todo /\ new.writes = Nothing /\ new.events = req[r].events
      /\ new.result = req[r].result
  BY <1>1, <1>2, <1>3, Zenon DEF Request
<1> HIDE DEF new
<1>7. req' \in [Req -> Request] /\ req'[r] = new /\ \A s \in Req \ {r} : req'[s] = req[s]
  BY <1>1, <1>4, <1>6
<1>8. mutex' \in Req \cup {NoReq} BY <1>0, Zenon DEF Begin, TypeOK
<1>9. TypeOK' BY <1>0, <1>1, <1>7, <1>8, Zenon DEF TypeOK, history
<1>10. RowInv' BY <1>1, Zenon DEF Inv, RowInv, RowOf, history
<1>11. LocalOf(r)' BY <1>0, <1>1, <1>3, <1>6, <1>7, IdleType, Zenon DEF LocalOf, Active
<1>12. LockOf(r)' BY <1>6, <1>7, IdleType, Zenon DEF LockOf
<1>13. EventOf(r)' BY <1>0, <1>1, <1>6, <1>7, Zenon DEF EventOf, Early, history
<1>14. Backend = "memory" => mutex = NoReq /\ mutex' = r BY Zenon DEF Begin
<1>15. MutexOf(r)'
  <2>1. ASSUME NEW p \in todo, table[p] # NoRow PROVE table[p].granted <= req[r].at + Timeout
    <3>1. p \in Purpose /\ RowOf(p) BY <1>3, Zenon DEF Inv, RowInv
    <3>2. table[p] \in Row BY <1>0, <2>1, <3>1, Zenon DEF TypeOK
    <3>3. table[p].granted <= now /\ table[p].granted \in Nat
      BY <2>1, <3>1, <3>2, Zenon DEF RowOf, Row
    <3> QED BY <1>0, <1>1, <1>2, <3>3, ConsentAssumption DEF TypeOK
  <2>2. \A p \in Purpose : req'[r].writes[p] = Unwritten BY <1>6, <1>7, IdleType
  <2> QED BY <1>1, <1>5, <1>6, <1>7, <1>14, <2>1, <2>2, Zenon DEF MutexOf, CanRevoke
<1>16. \A s \in Req \ {r} : Backend = "memory" => mutex # s BY <1>14, ConsentAssumption, SMTT(20)
<1>17. Inv'
  BY <1>1, <1>7, <1>9, <1>10, <1>11, <1>12, <1>13, <1>15, <1>16, RequestStep, Zenon DEF history
<1> QED BY <1>1, <1>17, Zenon DEF Lawful

\* A grant is evaluated on the row.
LEMMA GrantInv ==
  ASSUME Inv, NEW r \in Req, NEW p \in Purpose, GrantScope(r, p)
  PROVE  Inv' /\ Lawful
<1> DEFINE row == Seen(r, p)  t == req[r].at
<1>0. TypeOK /\ LocalOf(r) /\ LockOf(r) /\ MutexOf(r) /\ EventOf(r) BY Zenon DEF Inv, ReqInv
<1>1. /\ req[r].op = "grant" /\ req[r].pc = "execute" /\ p \in req[r].todo
      /\ (row # NoRow => Free(r, p)) /\ UNCHANGED <<now, audit>>
  BY Zenon DEF GrantScope, Turn, CanRead
<1>2. row = table[p] /\ row \in Row \cup {NoRow} /\ t \in Nat BY <1>1, TurnSees
<1>3. CASE /\ req' = [req EXCEPT ![r].pc = "insert", ![r].cur = p]
           /\ UNCHANGED <<table, lock, mutex, history>>
  <2> DEFINE new == [req[r] EXCEPT !.pc = "insert", !.cur = p]
  <2>1. req[r] \in Request /\ req \in [Req -> Request] BY <1>0, Zenon DEF TypeOK
  <2>2. /\ new \in Request /\ new.pc = "insert" /\ new.cur = p /\ new.op = req[r].op
        /\ new.at = req[r].at /\ new.todo = req[r].todo /\ new.writes = req[r].writes
        /\ new.events = req[r].events /\ new.result = req[r].result
    BY <2>1, Zenon DEF Request
  <2>3. req' = [req EXCEPT ![r] = new] BY <1>3, <2>1, Zenon
  <2> HIDE DEF new
  <2>4. req' \in [Req -> Request] /\ req'[r] = new /\ \A s \in Req \ {r} : req'[s] = req[s]
    BY <2>1, <2>2, <2>3
  <2>5. LocalOf(r)' BY <1>0, <1>1, <2>2, <2>4, Zenon DEF LocalOf, Active
  <2>6. LockOf(r)' BY <1>0, <1>1, <1>3, <2>2, <2>4 DEF LockOf, Active
  <2>7. MutexOf(r)' BY <1>0, <1>1, <1>3, <2>2, <2>4 DEF MutexOf, Active, history
  <2>8. EventOf(r)' BY <1>0, <1>1, <1>3, <2>2, <2>4, Zenon DEF EventOf, Early, history
  <2> QED BY <1>1, <1>3, <2>4, <2>5, <2>6, <2>7, <2>8, LocalStep
<1>4. CASE Pass(r, p) /\ UNCHANGED mutex
  BY <1>1, <1>4, PassInv, Zenon
<1>5. CASE /\ row # NoRow /\ EvaluateGrant(row, t) = "renew"
           /\ Write(r, {p}, [q \in {p} |-> RenewAt(row, t)]) /\ UNCHANGED mutex
  <2> DEFINE rows == [q \in {p} |-> RenewAt(row, t)]
  <2>1. \A q \in {p} : Successor(table[q], rows[q], t) BY <1>2, <1>5, Zenon DEF Successor
  <2>2. Write(r, {p}, rows) BY <1>5, SMTT(20)
  <2> HIDE DEF rows
  <2>3. Active(r) /\ {p} \in SUBSET req[r].todo /\ UNCHANGED <<now, mutex, audit>> /\ Free(r, p)
    BY <1>1, <1>5, Zenon DEF Active
  <2> QED BY <2>1, <2>2, <2>3, WriteInv, Zenon
<1>6. CASE Over(r, "failed") /\ RollBack(r)
  BY <1>1, <1>6, EndStep, Zenon DEF Early, Active
<1> QED BY <1>3, <1>4, <1>5, <1>6, Zenon DEF GrantScope

\* A row is inserted, or the conflict is met.
LEMMA InsertInv ==
  ASSUME Inv, NEW r \in Req, InsertScope(r)
  PROVE  Inv' /\ Lawful
<1> DEFINE p == req[r].cur  t == req[r].at
<1>0. TypeOK /\ LocalOf(r) /\ LockOf(r) /\ MutexOf(r) /\ EventOf(r) BY Zenon DEF Inv, ReqInv
<1>1. /\ req[r].pc = "insert" /\ ~KeyInDoubt(r, p) /\ UNCHANGED <<now, audit>>
      /\ p \in req[r].todo /\ req[r].op = "grant"
  BY <1>0, Zenon DEF InsertScope, LocalOf
<1>2. table[p] \in Row \cup {NoRow} /\ t \in Nat BY <1>1, TurnSees
<1>3. CASE /\ table[p] = NoRow /\ UNCHANGED mutex
           /\ Write(r, {p}, [q \in {p} |-> NewRecord(t)])
  <2> DEFINE rows == [q \in {p} |-> NewRecord(t)]
  <2>1. \A q \in {p} : Successor(table[q], rows[q], t) BY <1>3, Zenon DEF Successor
  <2>2. Write(r, {p}, rows) BY <1>3, SMTT(20)
  <2>3. Free(r, p) BY <1>1, <1>3, Zenon DEF KeyInDoubt
  <2>4. {p} \in SUBSET req[r].todo BY <1>1
  <2> HIDE DEF rows, p
  <2> QED BY <1>1, <1>3, <2>1, <2>2, <2>3, <2>4, WriteInv, Zenon DEF Active
<1>4. CASE /\ req' = [req EXCEPT ![r].pc = "execute", ![r].tries = 1]
           /\ UNCHANGED <<table, lock, mutex, history>>
  <2> DEFINE new == [req[r] EXCEPT !.pc = "execute", !.tries = 1]
  <2>1. req[r] \in Request /\ req \in [Req -> Request] BY <1>0, Zenon DEF TypeOK
  <2>2. /\ new \in Request /\ new.pc = "execute" /\ new.op = req[r].op
        /\ new.at = req[r].at /\ new.todo = req[r].todo /\ new.writes = req[r].writes
        /\ new.events = req[r].events /\ new.result = req[r].result
    BY <2>1, Zenon DEF Request
  <2>3. req' = [req EXCEPT ![r] = new] BY <1>4, <2>1, Zenon
  <2> HIDE DEF new
  <2>4. req' \in [Req -> Request] /\ req'[r] = new /\ \A s \in Req \ {r} : req'[s] = req[s]
    BY <2>1, <2>2, <2>3
  <2>5. LocalOf(r)' BY <1>0, <1>1, <2>2, <2>4, Zenon DEF LocalOf, Active
  <2>6. LockOf(r)' BY <1>0, <1>1, <1>4, <2>2, <2>4 DEF LockOf, Active
  <2>7. MutexOf(r)' BY <1>0, <1>1, <1>4, <2>2, <2>4 DEF MutexOf, Active, history
  <2>8. EventOf(r)' BY <1>0, <1>1, <1>4, <2>2, <2>4, Zenon DEF EventOf, Early, history
  <2> QED BY <1>1, <1>4, <2>4, <2>5, <2>6, <2>7, <2>8, LocalStep
<1>5. CASE Over(r, "failed") /\ RollBack(r)
  BY <1>1, <1>5, EndStep, Zenon DEF Early, Active
<1> QED BY <1>3, <1>4, <1>5, Zenon DEF InsertScope

\* A row is revoked, or passed over.
LEMMA RevokeInv ==
  ASSUME Inv, NEW r \in Req, NEW p \in Purpose, RevokeScope(r, p)
  PROVE  Inv' /\ Lawful
<1> DEFINE row == Seen(r, p)  t == req[r].at
<1>1. /\ req[r].pc = "execute" /\ p \in req[r].todo /\ (row # NoRow => Free(r, p))
      /\ UNCHANGED <<now, mutex, audit>>
  BY Zenon DEF RevokeScope, Turn, CanRead
<1>2. row = table[p] /\ t \in Nat BY <1>1, TurnSees, SMTT(20)
<1>3. CASE Pass(r, p) BY <1>1, <1>3, PassInv
<1>4. CASE /\ row # NoRow /\ CanRevoke(row, t)
           /\ Write(r, {p}, [q \in {p} |-> RevokeAt(row, t)])
  <2> DEFINE rows == [q \in {p} |-> RevokeAt(row, t)]
  <2>1. \A q \in {p} : Successor(table[q], rows[q], t) BY <1>2, <1>4, Zenon DEF Successor
  <2>2. Write(r, {p}, rows) BY <1>4
  <2> HIDE DEF rows
  <2>3. Active(r) /\ {p} \in SUBSET req[r].todo /\ UNCHANGED <<now, mutex, audit>> /\ Free(r, p)
    BY <1>1, <1>4, Zenon DEF Active
  <2> QED BY <2>1, <2>2, <2>3, WriteInv, Zenon
<1> QED BY <1>3, <1>4, Zenon DEF RevokeScope

\* A row of revokeall or delete, in SQL.
LEMMA SweepRowInv ==
  ASSUME Inv, NEW r \in Req, NEW p \in Purpose, SweepRow(r, p)
  PROVE  Inv' /\ Lawful
<1> DEFINE row == Seen(r, p)  t == req[r].at
<1>1. /\ req[r].pc = "execute" /\ p \in req[r].todo /\ Free(r, p)
      /\ req[r].op \in {"revokeall", "delete"} /\ UNCHANGED <<now, mutex, audit>>
  BY Zenon DEF SweepRow, Turn
<1>2. row = table[p] /\ t \in Nat BY <1>1, TurnSees, SMTT(20)
<1>3. CASE Pass(r, p) BY <1>1, <1>3, PassInv
<1>4. CASE /\ row # NoRow /\ (req[r].op = "revokeall" => CanRevoke(row, t))
           /\ Write(r, {p}, [q \in {p} |-> Swept(r, row)])
  <2> DEFINE rows == [q \in {p} |-> Swept(r, row)]
  <2>1. \A q \in {p} : Successor(table[q], rows[q], t)
    BY <1>1, <1>2, <1>4, Zenon DEF Successor, Swept
  <2>2. Write(r, {p}, rows) BY <1>4, Zenon
  <2> HIDE DEF rows
  <2>3. Active(r) /\ {p} \in SUBSET req[r].todo /\ UNCHANGED <<now, mutex, audit>> /\ Free(r, p)
    BY <1>1, <1>4, Zenon DEF Active
  <2> QED BY <2>1, <2>2, <2>3, WriteInv, Zenon
<1> QED BY <1>3, <1>4, Zenon DEF SweepRow

\* All rows of revokeall or delete, under the mutex.
LEMMA SweepAllInv ==
  ASSUME Inv, NEW r \in Req, SweepAll(r)
  PROVE  Inv' /\ Lawful
<1> DEFINE todo == req[r].todo  rows == [p \in todo |-> Swept(r, table[p])]
<1>0. MutexOf(r) BY Zenon DEF Inv, ReqInv
<1>1. /\ req[r].pc = "execute" /\ req[r].op \in {"revokeall", "delete"}
      /\ Backend = "memory" /\ UNCHANGED <<now, mutex, audit>> /\ Write(r, todo, rows)
  BY Zenon DEF SweepAll
<1>2. \A p \in todo : Successor(table[p], rows[p], req[r].at)
  BY <1>0, <1>1, Zenon DEF Successor, Swept, MutexOf, Active
<1> HIDE DEF rows
<1> QED BY <1>1, <1>2, WriteInv, Zenon DEF Active

\* A consent is checked.
LEMMA RequireInv ==
  ASSUME Inv, NEW r \in Req, NEW p \in Purpose, Require(r, p)
  PROVE  Inv' /\ Lawful
<1> DEFINE res == CheckOutcome(table[p], req[r].at)
           new == [req[r] EXCEPT !.pc = "audit", !.todo = {}, !.events = {p}, !.result = res]
<1>0. TypeOK /\ LocalOf(r) /\ EventOf(r) BY Zenon DEF Inv, ReqInv
<1>1. /\ req[r] \in Request /\ req \in [Req -> Request] /\ req[r].pc = "begin"
      /\ req[r].op = "require" /\ UNCHANGED <<now, table, lock, mutex, audit, history>>
  BY <1>0, Zenon DEF Require, TypeOK
<1>2. res \in {"ok", "failed"} BY Zenon DEF CheckOutcome
<1>3. req' = [req EXCEPT ![r] = new] BY <1>1, Zenon DEF Require
<1> HIDE DEF res
<1>4. /\ new \in Request /\ new.pc = "audit" /\ new.op = req[r].op /\ new.at = req[r].at
      /\ new.todo = {} /\ new.writes = req[r].writes
  BY <1>1, <1>2, Zenon DEF Request
<1> HIDE DEF new
<1>5. req' \in [Req -> Request] /\ req'[r] = new /\ \A s \in Req \ {r} : req'[s] = req[s]
  BY <1>1, <1>3, <1>4, Zenon
<1>6. LocalOf(r)' BY <1>0, <1>1, <1>4, <1>5, Zenon DEF LocalOf, Active
<1>7. LockOf(r)' /\ MutexOf(r)' BY <1>4, <1>5, Zenon DEF LockOf, MutexOf, Active
<1>8. EventOf(r)' BY <1>0, <1>1, <1>4, <1>5, Zenon DEF EventOf, Early, history
<1> QED BY <1>1, <1>5, <1>6, <1>7, <1>8, LocalStep

\* An event is stored or lost.
LEMMA EmitInv ==
  ASSUME Inv, NEW r \in Req, NEW e \in req[r].events, NEW stored \in BOOLEAN,
         Emit(r, e, stored)
  PROVE  Inv' /\ Lawful
<1> DEFINE new == [req[r] EXCEPT !.events = @ \ {e}]
<1>0. TypeOK /\ LocalOf(r) /\ EventOf(r) BY Zenon DEF Inv, ReqInv
<1>1. /\ req[r] \in Request /\ req \in [Req -> Request] /\ req[r].pc = "audit"
      /\ UNCHANGED <<now, table, lock, mutex, changed, revokedOn>>
  BY <1>0, Zenon DEF Emit, TypeOK, history
<1>2. req' = [req EXCEPT ![r] = new] BY <1>1, Zenon DEF Emit
<1>3. /\ new \in Request /\ new.pc = "audit" /\ new.op = req[r].op /\ new.at = req[r].at
      /\ new.todo = req[r].todo /\ new.writes = req[r].writes
      /\ new.events = req[r].events \ {e} /\ new.result = req[r].result
  BY <1>1, Zenon DEF Request
<1> HIDE DEF new
<1>4. req' \in [Req -> Request] /\ req'[r] = new /\ \A s \in Req \ {r} : req'[s] = req[s]
  BY <1>1, <1>2, <1>3, Zenon
<1>5. req[r].events \subseteq Purpose \cup {AllPurposes} BY <1>1, Zenon DEF Request
<1>6. /\ audit' \in [Req -> SUBSET (Purpose \cup {AllPurposes})]
      /\ audit'[r] \subseteq audit[r] \cup {e}
      /\ \A s \in Req \ {r} : audit'[s] = audit[s]
  BY <1>0, <1>5 DEF Emit, TypeOK
<1>7. TypeOK' BY <1>0, <1>1, <1>4, <1>6, Zenon DEF TypeOK
<1>8. RowInv' BY <1>1, Zenon DEF Inv, RowInv, RowOf
<1>9. LocalOf(r)' BY <1>0, <1>1, <1>3, <1>4, Zenon DEF LocalOf, Active
<1>10. LockOf(r)' /\ MutexOf(r)' BY <1>3, <1>4, Zenon DEF LockOf, MutexOf, Active
<1>11. EventOf(r)' BY <1>0, <1>1, <1>3, <1>4, <1>6, Zenon DEF EventOf, Early
<1>12. Inv' BY <1>1, <1>4, <1>6, <1>7, <1>8, <1>9, <1>10, <1>11, RequestStep, Zenon
<1> QED BY <1>1, <1>12, Zenon DEF Lawful

\* The service returns.
LEMMA ReturnInv ==
  ASSUME Inv, NEW r \in Req, Return(r)
  PROVE  Inv' /\ Lawful
<1>0. TypeOK /\ LocalOf(r) /\ EventOf(r) BY Zenon DEF Inv, ReqInv
<1>1. /\ req[r].pc = "audit" /\ UNCHANGED <<now, table, lock, mutex, audit, history>>
      /\ req[r].result \in {"none", "ok", "failed", "unknown"}
  BY <1>0, Zenon DEF Return, TypeOK, Request
<1>2. /\ req' \in [Req -> Request] /\ \A s \in Req \ {r} : req'[s] = req[s]
      /\ req'[r].pc = "done" /\ req'[r].op = req[r].op /\ req'[r].at = 0
      /\ req'[r].todo = {} /\ req'[r].writes = Nothing /\ req'[r].events = {}
      /\ req'[r].result = req[r].result
  BY <1>0, <1>1, OverStep, Zenon DEF Return
<1>3. LocalOf(r)'
  <2>1. req'[r].at <= now' BY <1>0, <1>1, <1>2 DEF TypeOK
  <2> QED BY <1>2, <2>1, Zenon DEF LocalOf, Active
<1>4. LockOf(r)' /\ MutexOf(r)' BY <1>2, Zenon DEF LockOf, MutexOf, Active
<1>5. EventOf(r)' BY <1>0, <1>1, <1>2, Zenon DEF EventOf, Early, history
<1> QED BY <1>1, <1>2, <1>3, <1>4, <1>5, LocalStep, Zenon

\* A transaction is given up.
LEMMA AbortInv ==
  ASSUME Inv, NEW r \in Req, Abort(r)
  PROVE  Inv' /\ Lawful
BY ConsentAssumption, EndStep, Zenon DEF Abort, Early

\* Time passes.
LEMMA TickInv ==
  ASSUME Inv, Tick
  PROVE  Inv' /\ Lawful
<1>0. now \in Nat /\ now' = now + 1
      /\ UNCHANGED <<table, lock, mutex, req, audit, changed, revokedOn>>
  BY Zenon DEF Inv, TypeOK, Tick, history
<1>1. TypeOK' BY <1>0 DEF Inv, TypeOK
<1>2. ASSUME NEW r \in Req PROVE (LocalOf(r) /\ LockOf(r) /\ MutexOf(r) /\ EventOf(r))'
  <2>1. LocalOf(r) /\ LockOf(r) /\ MutexOf(r) /\ EventOf(r) /\ req[r].at \in Nat
    BY Zenon DEF Inv, ReqInv, TypeOK, Request
  <2>2. LocalOf(r)'
    <3>1. req[r].at <= now' BY <1>0, <2>1 DEF LocalOf
    <3> QED BY <1>0, <2>1, <3>1, Zenon DEF LocalOf, Active
  <2>3. LockOf(r)' BY <1>0, <2>1, Zenon DEF LockOf, Active
  <2>4. MutexOf(r)' BY <1>0, <2>1, Zenon DEF MutexOf, Active
  <2>5. EventOf(r)' BY <1>0, <2>1, Zenon DEF EventOf, Early
  <2> QED BY <2>2, <2>3, <2>4, <2>5, SMTT(20)
<1>3. ASSUME NEW p \in Purpose PROVE RowOf(p)'
  <2>1. RowOf(p) /\ (table[p] # NoRow => table[p] \in Row) BY Zenon DEF Inv, RowInv, TypeOK
  <2>2. CASE table[p] = NoRow BY <1>0, <2>2, Zenon DEF RowOf
  <2>3. CASE table[p] # NoRow
    <3>1. table[p].granted \in Nat /\ table[p].granted <= now BY <2>1, <2>3, Zenon DEF Row, RowOf
    <3>2. table[p].granted <= now' BY <1>0, <3>1
    <3> QED BY <1>0, <2>1, <3>2, Zenon DEF RowOf
  <2> QED BY <2>2, <2>3
<1>4. Inv' BY <1>1, <1>2, <1>3, Zenon DEF Inv, ReqInv, RowInv
<1> QED BY <1>0, <1>4, Zenon DEF Lawful

\* Every step keeps the invariant, and changes rows by the rules.
LEMMA NextInv == Inv /\ [Next]_vars => Inv' /\ (Lawful \/ UNCHANGED vars)
<1> SUFFICES ASSUME Inv, [Next]_vars PROVE Inv' /\ (Lawful \/ UNCHANGED vars)
  OBVIOUS
<1>1. CASE UNCHANGED vars
  <2>1. UNCHANGED <<now, table, lock, mutex, req, audit, changed, revokedOn>>
    BY <1>1, Zenon DEF vars, history
  <2>2. TypeOK' BY <2>1, Zenon DEF Inv, TypeOK
  <2>3. RowInv' BY <2>1, Zenon DEF Inv, RowInv, RowOf
  <2>4. ASSUME NEW r \in Req PROVE (LocalOf(r) /\ LockOf(r) /\ MutexOf(r) /\ EventOf(r))'
    <3>1. LocalOf(r) /\ LockOf(r) /\ MutexOf(r) /\ EventOf(r) BY Zenon DEF Inv, ReqInv
    <3>2. LocalOf(r)' BY <2>1, <3>1, Zenon DEF LocalOf, Active
    <3>3. LockOf(r)' BY <2>1, <3>1, Zenon DEF LockOf, Active
    <3>4. MutexOf(r)' BY <2>1, <3>1, Zenon DEF MutexOf, Active
    <3>5. EventOf(r)' BY <2>1, <3>1, Zenon DEF EventOf, Early
    <3> QED BY <3>2, <3>3, <3>4, <3>5
  <2> QED BY <1>1, <2>2, <2>3, <2>4, Zenon DEF Inv, ReqInv
<1>2. CASE Tick BY <1>2, TickInv
<1>3. ASSUME NEW r \in Req, Step(r) PROVE Inv' /\ Lawful
  <2>1. CASE Begin(r) BY <2>1, BeginInv
  <2>2. CASE InsertScope(r) BY <2>2, InsertInv
  <2>3. CASE SweepAll(r) BY <2>3, SweepAllInv
  <2>4. CASE Return(r) BY <2>4, ReturnInv
  <2>5. CASE \E p \in Purpose : \/ GrantScope(r, p) \/ RevokeScope(r, p)
                                \/ SweepRow(r, p) \/ Require(r, p)
    BY <2>5, GrantInv, RevokeInv, SweepRowInv, RequireInv
  <2>6. CASE \E e \in req[r].events, stored \in BOOLEAN : Emit(r, e, stored)
    BY <2>6, EmitInv, Zenon
  <2>7. CASE \E answered \in BOOLEAN : Commit(r, answered)
    BY <2>7, CommitInv
  <2> QED BY <1>3, <2>1, <2>2, <2>3, <2>4, <2>5, <2>6, <2>7, Zenon DEF Step
<1>4. ASSUME NEW r \in Req, \E op \in Ops, S \in SUBSET Purpose : Arrive(r, op, S)
      PROVE  Inv' /\ Lawful
  BY <1>4, ArriveInv
<1>5. ASSUME NEW r \in Req, Abort(r) PROVE Inv' /\ Lawful BY <1>5, AbortInv
<1> QED BY <1>1, <1>2, <1>3, <1>4, <1>5, Zenon DEF Next

-----------------------------------------------------------------------------
(* Theorems *)

\* The inductive invariant holds in every state.
THEOREM InvHolds == Spec => []Inv
<1>1. Inv /\ [Next]_vars => Inv' BY NextInv
<1> QED BY <1>1, InitInv, PTL DEF Spec

\* Tables, locks and request records keep their types (TypeOK).
THEOREM TypesHold == Spec => []TypeOK
<1>1. Inv => TypeOK BY Zenon DEF Inv
<1> QED BY <1>1, InvHolds, PTL

\* Two transactions never hold uncommitted versions of the same record, with
\* row locks or with the mutex (executeWithTx, InsertConsent, RunInTx).
THEOREM WritersExclude == Spec => []WritesExclusive
<1>1. Inv => WritesExclusive
  <2>1. SUFFICES ASSUME Inv, NEW r \in Req, NEW s \in Req, NEW p \in Purpose,
                        req[r].writes[p] # Unwritten, req[s].writes[p] # Unwritten,
                        req[r].pc \in {"execute", "insert"},
                        req[s].pc \in {"execute", "insert"}
                 PROVE  r = s
    BY Zenon DEF WritesExclusive
  <2>2. LockOf(r) /\ LockOf(s) /\ MutexOf(r) /\ MutexOf(s) BY <2>1, Zenon DEF Inv, ReqInv
  <2>3. CASE Backend = "postgres" BY <2>1, <2>2, <2>3, Zenon DEF LockOf, Active
  <2>4. CASE Backend = "memory" BY <2>1, <2>2, <2>4, Zenon DEF MutexOf, Active
  <2> QED BY <2>3, <2>4, ConsentAssumption, SMTT(20)
<1> QED BY <1>1, InvHolds, PTL

\* Every event about a grant or a revocation is about a visible change: effects
\* are emitted after the commit, and only then (Grant, Revoke, emitAudit).
THEOREM EventsTruthful == Spec => []AuditTruthful
<1>1. Inv => AuditTruthful BY Zenon DEF Inv, ReqInv, EventOf, AuditTruthful
<1> QED BY <1>1, InvHolds, PTL

\* In SQL a request that is answered with an error has changed nothing
\* (forEachScope in RunInTx).
THEOREM FailureChangesNothing ==
  ASSUME Backend = "postgres"
  PROVE  Spec => []AllOrNothing
<1>1. Inv => AllOrNothing BY Zenon DEF Inv, ReqInv, EventOf, AllOrNothing
<1> QED BY <1>1, InvHolds, PTL

\* The grant time of a record never goes back if the cooldown is at least as
\* long as a request may take (EvaluateGrant on the locked row).
THEOREM GrantTimeAdvances ==
  ASSUME Timeout <= ReGrantCooldown
  PROVE  Spec => GrantedAdvances
<1>1. Inv /\ [Next]_vars =>
        [\A p \in Purpose : table[p] # NoRow /\ table'[p] # NoRow
           => table'[p].granted >= table[p].granted]_vars
  <2>1. SUFFICES ASSUME Inv, Lawful, NEW p \in Purpose, table[p] # NoRow, table'[p] # NoRow
                 PROVE  table'[p].granted >= table[p].granted
    BY NextInv
  <2>2. table[p] \in Row /\ RowOf(p) BY <2>1, Zenon DEF Inv, RowInv, TypeOK
  <2>3. /\ table[p].granted \in Nat /\ table[p].revoked \in Nat \cup {Never}
        /\ table[p].expires = table[p].granted + ConsentTTL
        /\ table[p].revoked # Never => table[p].granted <= table[p].revoked + Timeout
    BY <2>1, <2>2, Zenon DEF Row, RowOf
  <2>4. CASE table'[p] = table[p] BY <2>3, <2>4, SMTT(20)
  <2>5. ASSUME NEW t \in Nat, Successor(table[p], table'[p], t)
        PROVE  table'[p].granted >= table[p].granted
    <3>1. CASE EvaluateGrant(table[p], t) = "renew" /\ table'[p] = RenewAt(table[p], t)
      <4>0. RenewAt(table[p], t).granted = t BY <2>2, <2>5, RuleFields
      <4>1. table'[p].granted = t BY <3>1, <4>0, Zenon
      <4>2. /\ table[p].revoked # Never => t >= table[p].revoked + ReGrantCooldown
            /\ table[p].revoked = Never => t >= table[p].granted
        BY <3>1, <2>2, <2>3, RenewalRule, Zenon
      <4>3. CASE table[p].revoked = Never BY <4>1, <4>2, <4>3
      <4>4. CASE table[p].revoked # Never
        <5>1. table[p].revoked \in Nat /\ table[p].granted <= table[p].revoked + Timeout BY <2>3, <4>4
        <5>2. t >= table[p].revoked + ReGrantCooldown BY <4>2, <4>4
        <5> QED BY <4>1, <5>1, <5>2, <2>3, ConsentAssumption
      <4> QED BY <4>3, <4>4
    <3>2. CASE table'[p] = RevokeAt(table[p], t)
      <4>0. RevokeAt(table[p], t).granted = table[p].granted BY <2>2, <2>5, RuleFields
      <4>1. table'[p].granted = table[p].granted BY <3>2, <4>0, Zenon
      <4> QED BY <4>1, <2>3, SMTT(20)
    <3> QED BY <2>1, <2>5, <3>1, <3>2, Zenon DEF Successor
  <2> QED BY <2>1, <2>4, <2>5, Zenon DEF Lawful
<1> QED BY <1>1, InvHolds, PTL DEF Spec, GrantedAdvances

\* In SQL a revoked consent is not active again before the cooldown has passed
\* since the revocation became visible, less the age a request may have
\* (EvaluateGrant in Execute, FOR UPDATE, the deadline of the context).
THEOREM RegrantIsSpaced ==
  ASSUME Backend = "postgres"
  PROVE  Spec => RegrantSpaced
<1>1. Inv /\ [Next]_vars =>
        [\A p \in Purpose :
           (/\ table[p] # NoRow /\ table[p].revoked # Never
            /\ table'[p] # NoRow /\ table'[p].revoked = Never)
           => now - revokedOn[p] >= ReGrantCooldown - Timeout]_vars
  <2>1. SUFFICES ASSUME Inv, Lawful, NEW p \in Purpose,
                        table[p] # NoRow, table[p].revoked # Never,
                        table'[p] # NoRow, table'[p].revoked = Never
                 PROVE  now - revokedOn[p] >= ReGrantCooldown - Timeout
    BY NextInv
  <2>2. table[p] \in Row /\ RowOf(p) BY <2>1, Zenon DEF Inv, RowInv, TypeOK
  <2>3. /\ table[p].revoked \in Nat /\ now \in Nat /\ revokedOn[p] \in Nat
        /\ table[p].expires = table[p].granted + ConsentTTL
        /\ revokedOn[p] <= table[p].revoked + Timeout
    BY <2>1, <2>2, Zenon DEF Row, RowOf, Inv, TypeOK
  <2>4. PICK t \in Nat : t <= now /\ Successor(table[p], table'[p], t)
    BY <2>1, Zenon DEF Lawful
  <2>5. EvaluateGrant(table[p], t) = "renew"
    <3>1. ~CanRevoke(table[p], t) BY <2>1, Zenon DEF CanRevoke
    <3> QED BY <2>1, <2>4, <3>1, Zenon DEF Successor
  <2>6. t >= table[p].revoked + ReGrantCooldown BY <2>1, <2>2, <2>3, <2>5, RenewalRule, Zenon
  <2> QED BY <2>3, <2>4, <2>6, ConsentAssumption
<1> QED BY <1>1, InvHolds, PTL DEF Spec, RegrantSpaced
=============================================================================
