------------------------- MODULE AuthLifecycleProofs -------------------------
(***************************************************************************)
(* Proofs about AuthLifecycle for any number of requests, servers,         *)
(* sessions, tokens and users: every step keeps the types, the steps that  *)
(* issue nothing and then the steps that issue keep the inductive          *)
(* invariant, and the theorems follow.                                     *)
(***************************************************************************)
EXTENDS AuthLifecycle, TLAPS

-----------------------------------------------------------------------------
(* Types *)

\* The calls that clients begin keep the types.
LEMMA CallType ==
  ASSUME TypeOK, NEW p \in Proc, Call(p)
  PROVE  TypeOK'
<1>1. ASSUME NEW u \in User, Authorize(p, u)
      PROVE  TypeOK'
  <2>1. req' \in [Proc -> Request]
    BY <1>1, Zenon DEF Authorize, Begin, Made, TypeOK, Request, Op, PC
  <2>2. QED
    BY <1>1, <2>1, Zenon DEF Authorize, TypeOK, store
<1>2. ASSUME NEW u \in User, DeleteUser(p, u)
      PROVE  TypeOK'
  <2>1. req' \in [Proc -> Request]
    BY <1>2, Zenon DEF DeleteUser, Begin, Made, TypeOK, Request, Op, PC
  <2>2. QED
    BY <1>2, <2>1, Zenon DEF DeleteUser, TypeOK, store
<1>3. ASSUME NEW s \in Session, ExchangeCode(p, s)
      PROVE  TypeOK'
  <2>1. req' \in [Proc -> Request]
    BY <1>3, Zenon DEF ExchangeCode, Begin, Made, Grant, TypeOK, Request, Op, PC
  <2>2. QED
    BY <1>3, <2>1, Zenon DEF ExchangeCode, TypeOK, store
<1>4. ASSUME NEW t \in Tok, RefreshToken(p, t)
      PROVE  TypeOK'
  <2>1. req' \in [Proc -> Request]
    BY <1>4 DEF RefreshToken, Begin, Made, Grant, RefreshRow, TypeOK, Request, Op, PC
  <2>2. QED
    BY <1>4, <2>1, Zenon DEF RefreshToken, TypeOK, store
<1>5. ASSUME NEW t \in Tok, RevokeAccessToken(p, t)
      PROVE  TypeOK'
  <2>1. req' \in [Proc -> Request]
    BY <1>5 DEF RevokeAccessToken, Begin, Revoking, Minted, AccessToken, TypeOK, Request, Op, PC
  <2>2. QED
    BY <1>5, <2>1, Zenon DEF RevokeAccessToken, TypeOK, store
<1>6. ASSUME NEW t \in Tok, RevokeRefreshToken(p, t)
      PROVE  TypeOK'
  <2>1. req' \in [Proc -> Request]
    BY <1>6 DEF RevokeRefreshToken, Begin, Revoking, RefreshRow, TypeOK, Request, Op, PC
  <2>2. QED
    BY <1>6, <2>1, Zenon DEF RevokeRefreshToken, TypeOK, store
<1>7. ASSUME NEW u \in User, NEW s \in Session, RevokeSession(p, u, s)
      PROVE  TypeOK'
  <2>1. req' \in [Proc -> Request]
    BY <1>7 DEF RevokeSession, RevokeTokens, Revoking, SessionRow, TypeOK, Request, Op, PC
  <2>2. sessions' \in [Session -> SessionRow]
    BY <1>7 DEF RevokeSession, TypeOK, SessionRow
  <2>3. QED
    BY <1>7, <2>1, <2>2, Zenon DEF RevokeSession, TypeOK
<1>8. ASSUME NEW u \in User, NEW keep \in Session \cup {None}, LogoutAll(p, u, keep)
      PROVE  TypeOK'
  <2>1. req' \in [Proc -> Request]
    BY <1>8 DEF LogoutAll, Begin, Revoking, SessionRow, TypeOK, Request, Op, PC
  <2>2. QED
    BY <1>8, <2>1, Zenon DEF LogoutAll, TypeOK, store
<1>9. QED
  BY <1>1, <1>2, <1>3, <1>4, <1>5, <1>6, <1>7, <1>8, Zenon DEF Call

\* RevokeIfActive writes a row of the table's type.
LEMMA RevokeIfActiveType ==
  ASSUME TypeOK, NEW s, RevokeIfActive(s)
  PROVE  sessions' \in [Session -> SessionRow]
<1>1. ASSUME NEW r \in SessionRow PROVE [r EXCEPT !.st = "revoked"] \in SessionRow
  BY Zenon DEF SessionRow
<1>2. CASE s \in Session
  <2>1. [sessions[s] EXCEPT !.st = "revoked"] \in SessionRow
    BY <1>1, <1>2, Zenon DEF TypeOK
  <2>2. QED
    BY <2>1, <1>2, Zenon DEF RevokeIfActive, TypeOK
<1>3. CASE s \notin Session
  BY ZenonT(30), <1>3 DEF RevokeIfActive, TypeOK
<1>4. QED
  BY <1>2, <1>3

\* Going on with the next session of a request keeps the types.
LEMMA NextSessionType ==
  ASSUME TypeOK, NEW p \in Proc, NEW todo \in SUBSET (Session \X (Tok \cup {None})),
         NextSession(p, todo)
  PROVE  req' \in [Proc -> Request]
BY DEF NextSession, Revoking, Idle, Made, TypeOK, Request, Op, PC

\* Moving the program counter keeps the type of the requests.
LEMMA GotoType ==
  ASSUME TypeOK, NEW p \in Proc, NEW pc \in PC, Goto(p, pc)
  PROVE  req' \in [Proc -> Request]
<1>1. req \in [Proc -> Request] /\ req[p] \in Request
  BY Zenon DEF TypeOK
<1>2. req' = [req EXCEPT ![p] = [req[p] EXCEPT !.pc = pc]]
  BY Zenon DEF Goto
<1>3. [req[p] EXCEPT !.pc = pc] \in Request
  BY <1>1, Zenon DEF Request
<1>4. QED
  BY <1>1, <1>2, <1>3

\* The steps of a request keep the types.
LEMMA StepType ==
  ASSUME TypeOK, NEW p \in Proc, OtherRequest(p), Step(p)
  PROVE  TypeOK'
<1> USE IdsAssumption, TimesAssumption
<1>a. req[p] \in Request
  BY Zenon DEF TypeOK
<1>1. ASSUME Lock(p) PROVE TypeOK'
  <2>1. lock' \in [Server -> Proc \cup {None}]
    BY <1>a, <1>1, Zenon DEF Lock, TypeOK
  <2>2. req' \in [Proc -> Request]
    <3>1. \E pc \in PC : Goto(p, pc)
      BY <1>1, Zenon DEF Lock, PC
    <3>2. QED
      BY ZenonT(30), <3>1, GotoType
  <2>3. QED
    BY <1>1, <2>1, <2>2, Zenon DEF Lock, TypeOK, store
<1>2. ASSUME Reject(p) PROVE TypeOK'
  <2>1. lock' \in [Server -> Proc \cup {None}]
    BY <1>a, <1>2, Zenon DEF Reject, Release, TypeOK
  <2>2. req' \in [Proc -> Request]
    BY <1>a, <1>2, Zenon DEF Reject, Return, Idle, Made, TypeOK, Request, Op, PC
  <2>3. QED
    BY <1>2, <2>1, <2>2, Zenon DEF Reject, TypeOK, store
<1>3. ASSUME FindOrCreateUser(p) PROVE TypeOK'
  <2>1. users' \in [User -> {"free", "live", "gone"}]
    BY <1>a, <1>3 DEF FindOrCreateUser, TypeOK
  <2>2. req' \in [Proc -> Request]
    <3>1. PICK u \in User : req' = [req EXCEPT ![p] = [@ EXCEPT !.user = u, !.pc = "session"]]
      BY ZenonT(30), <1>3 DEF FindOrCreateUser
    <3>2. [req[p] EXCEPT !.user = u, !.pc = "session"] \in Request
      BY ZenonT(30), <1>a DEF Request, PC
    <3>3. QED
      BY <3>1, <3>2, Zenon DEF TypeOK
  <2>3. QED
    BY <1>3, <2>1, <2>2, Zenon DEF FindOrCreateUser, TypeOK
<1>4. ASSUME CreateSession(p) PROVE TypeOK'
  <2>1. sessions' \in [Session -> SessionRow]
    BY <1>a, <1>4 DEF CreateSession, Request, TypeOK, SessionRow
  <2>2. req' \in [Proc -> Request]
    <3>1. PICK s \in Session : req' = [req EXCEPT ![p] = [@ EXCEPT !.sess = s, !.pc = "code"]]
      BY ZenonT(30), <1>4 DEF CreateSession
    <3>2. [req[p] EXCEPT !.sess = s, !.pc = "code"] \in Request
      BY ZenonT(30), <1>a DEF Request, PC
    <3>3. QED
      BY <3>1, <3>2, Zenon DEF TypeOK
  <2>3. QED
    BY <1>4, <2>1, <2>2, Zenon DEF CreateSession, TypeOK
<1>5. ASSUME CreateCode(p) PROVE TypeOK'
  <2>1. codes' \in [Session -> CodeRow]
    <3>1. [st |-> "unused", exp |-> req[p].at + CodeTTL] \in CodeRow
      BY <1>a DEF Request, CodeRow
    <3>2. QED
      BY ZenonT(30), <1>5, <3>1 DEF CreateCode, TypeOK
  <2>2. lock' \in [Server -> Proc \cup {None}]
    BY <1>a, <1>5, Zenon DEF CreateCode, Release, TypeOK
  <2>3. req' \in [Proc -> Request]
    BY <1>a, <1>5, Zenon DEF CreateCode, Return, Idle, Made, TypeOK, Request, Op, PC
  <2>4. QED
    BY <1>5, <2>1, <2>2, <2>3, Zenon DEF CreateCode, TypeOK
<1>6. ASSUME PrepareTokenFlow(p) PROVE TypeOK'
  <2>1. req' \in [Proc -> Request]
    BY <1>6, GotoType, Zenon DEF PrepareTokenFlow, PC
  <2>2. QED
    BY <1>6, <2>1, Zenon DEF PrepareTokenFlow, TypeOK, store
<1>7. ASSUME ConsumeCode(p) PROVE TypeOK'
  <2>1. codes' \in [Session -> CodeRow]
    BY <1>a, <1>7 DEF ConsumeCode, TypeOK, CodeRow
  <2>2. req' \in [Proc -> Request]
    <3>1. \E pc \in PC : Goto(p, pc)
      BY <1>7, Zenon DEF ConsumeCode, PC
    <3>2. QED
      BY ZenonT(30), <3>1, GotoType
  <2>3. QED
    BY <1>7, <2>1, <2>2, Zenon DEF ConsumeCode, TypeOK
<1>8. ASSUME ConsumeRefreshToken(p) PROVE TypeOK'
  <2>1. refresh' \in [Tok -> RefreshRow]
    BY SMTT(30), <1>a, <1>8 DEF ConsumeRefreshToken, TypeOK, RefreshRow
  <2>2. req' \in [Proc -> Request]
    <3>1. \E pc \in PC : Goto(p, pc)
      BY <1>8, Zenon DEF ConsumeRefreshToken, PC
    <3>2. QED
      BY ZenonT(30), <3>1, GotoType
  <2>3. QED
    BY <1>8, <2>1, <2>2, Zenon DEF ConsumeRefreshToken, TypeOK
<1>9. ASSUME RevokeOnReplay(p) PROVE TypeOK'
  <2>1. sessions' \in [Session -> SessionRow]
    BY <1>9, RevokeIfActiveType, Zenon DEF RevokeOnReplay
  <2>2. lock' \in [Server -> Proc \cup {None}]
    BY <1>a, <1>9, Zenon DEF RevokeOnReplay, Release, TypeOK
  <2>3. req' \in [Proc -> Request]
    BY <1>a, <1>9, Zenon DEF RevokeOnReplay, Return, Idle, Made, TypeOK, Request, Op, PC
  <2>4. QED
    BY <1>9, <2>1, <2>2, <2>3, Zenon DEF RevokeOnReplay, TypeOK
<1>10. ASSUME AdvanceSession(p) PROVE TypeOK'
  <2>1. sessions' \in [Session -> SessionRow]
    <3> DEFINE s == req[p].sess
    <3>1. PICK t \in Tok : sessions' = [sessions EXCEPT ![s] = Advanced(sessions[s], t)]
      BY ZenonT(30), <1>10 DEF AdvanceSession, IssuedJTI
    <3>2. CASE s \in Session
      <4>1. ASSUME NEW r \in SessionRow PROVE Advanced(r, t) \in SessionRow
        BY ZenonT(30) DEF SessionRow, Advanced
      <4>2. QED
        BY <3>1, <3>2, <4>1, Zenon DEF TypeOK
    <3>3. CASE s \notin Session
      BY ZenonT(30), <3>1, <3>3 DEF TypeOK
    <3>4. QED
      BY <3>2, <3>3
  <2>2. access' \in [Tok -> AccessToken]
    BY <1>a, <1>10 DEF AdvanceSession, AccessExpiry, Request, TypeOK, AccessToken
  <2>3. req' \in [Proc -> Request]
    <3>1. PICK t \in Tok : req' = [req EXCEPT ![p] = [@ EXCEPT !.jti = t, !.pc = "create"]]
      BY ZenonT(30), <1>10 DEF AdvanceSession
    <3>2. [req[p] EXCEPT !.jti = t, !.pc = "create"] \in Request
      BY ZenonT(30), <1>a DEF Request, PC
    <3>3. QED
      BY <3>1, <3>2, Zenon DEF TypeOK
  <2>4. QED
    BY <1>10, <2>1, <2>2, <2>3, Zenon DEF AdvanceSession, TypeOK
<1>11. ASSUME CreateRefreshToken(p) PROVE TypeOK'
  <2>1. refresh' \in [Tok -> RefreshRow]
    <3>1. [st |-> "unused", sess |-> req[p].sess, exp |-> req[p].at + RefreshTTL]
            \in RefreshRow
      BY <1>a DEF Request, RefreshRow
    <3>2. QED
      BY ZenonT(30), <1>11, <3>1 DEF CreateRefreshToken, TypeOK
  <2>2. lock' \in [Server -> Proc \cup {None}]
    BY <1>a, <1>11, Zenon DEF CreateRefreshToken, Release, TypeOK
  <2>3. req' \in [Proc -> Request]
    BY <1>a, <1>11, Zenon DEF CreateRefreshToken, Return, Idle, Made, TypeOK, Request, Op, PC
  <2>4. QED
    BY <1>11, <2>1, <2>2, <2>3, Zenon DEF CreateRefreshToken, TypeOK
<1>12. ASSUME ResolveSession(p) PROVE TypeOK'
  <2>1. req' \in [Proc -> Request]
    <3> DEFINE s == req[p].sess
    <3>1. s \in Session /\ {<<s, sessions[s].jti>>} \subseteq Session \X (Tok \cup {None})
      BY <1>a, <1>12 DEF ResolveSession, OtherRequest, TypeOK, Request, SessionRow
    <3>2. QED
      BY <1>12, <3>1, NextSessionType, Zenon DEF ResolveSession
  <2>2. QED
    BY <1>12, <2>1, Zenon DEF ResolveSession, TypeOK, store
<1>13. ASSUME RevokeSessionInternal(p) PROVE TypeOK'
  <2>1. sessions' \in [Session -> SessionRow]
    BY <1>13, RevokeIfActiveType, Zenon DEF RevokeSessionInternal
  <2>2. req' \in [Proc -> Request]
    <3>1. PICK x \in req[p].todo :
            \/ RevokeTokens(p, req[p].op, x[1], x[2], req[p].todo \ {x})
            \/ NextSession(p, req[p].todo \ {x})
      BY ZenonT(30), <1>13 DEF RevokeSessionInternal
    <3>2. /\ x[1] \in Session /\ x[2] \in Tok \cup {None}
          /\ req[p].todo \ {x} \in SUBSET (Session \X (Tok \cup {None}))
      BY <1>a, Zenon DEF Request
    <3>3. CASE NextSession(p, req[p].todo \ {x})
      BY <3>2, <3>3, NextSessionType
    <3>4. CASE RevokeTokens(p, req[p].op, x[1], x[2], req[p].todo \ {x})
      BY <1>a, <3>2, <3>4, Zenon DEF RevokeTokens, Revoking, TypeOK, Request, PC
    <3>5. QED
      BY <3>1, <3>3, <3>4
  <2>3. QED
    BY <1>13, <2>1, <2>2, Zenon DEF RevokeSessionInternal, TypeOK
<1>14. ASSUME SkipSession(p) PROVE TypeOK'
  <2>1. req' \in [Proc -> Request]
    <3>1. \E todo \in SUBSET (Session \X (Tok \cup {None})) : NextSession(p, todo)
      BY <1>a, <1>14, Zenon DEF SkipSession, Request
    <3>2. QED
      BY <3>1, NextSessionType
  <2>2. QED
    BY <1>14, <2>1, Zenon DEF SkipSession, TypeOK, store
<1>15. ASSUME WriteTRL(p) PROVE TypeOK'
  <2>1. trl' \in [Tok -> Nat]
    <3>1. now + TokenTTL \in Nat
      BY DEF TypeOK
    <3>2. QED
      BY ZenonT(30), <1>15, <3>1 DEF WriteTRL, TypeOK
  <2>2. req' \in [Proc -> Request]
    BY <1>15, GotoType, Zenon DEF WriteTRL, PC
  <2>3. QED
    BY <1>15, <2>1, <2>2, Zenon DEF WriteTRL, TypeOK
<1>16. ASSUME FailTRL(p) PROVE TypeOK'
  <2>1. req' \in [Proc -> Request]
    <3>1. Goto(p, "delRefresh") \/ NextSession(p, req[p].todo)
      BY <1>16, Zenon DEF FailTRL
    <3>2. CASE Goto(p, "delRefresh")
      BY <3>2, GotoType, Zenon DEF PC
    <3>3. CASE NextSession(p, req[p].todo)
      BY <1>a, <3>3, NextSessionType, Zenon DEF Request
    <3>4. QED
      BY <3>1, <3>2, <3>3
  <2>2. QED
    BY <1>16, <2>1, Zenon DEF FailTRL, TypeOK, store
<1>17. ASSUME DeleteRefreshTokens(p) PROVE TypeOK'
  <2>1. refresh' \in [Tok -> RefreshRow]
    BY SMTT(20), <1>a, <1>17 DEF DeleteRefreshTokens, DeleteRefreshOf, TypeOK, RefreshRow
  <2>2. req' \in [Proc -> Request]
    BY <1>a, <1>17, Zenon DEF DeleteRefreshTokens, NextSession, Revoking, Idle, Made, TypeOK,
       Request, Op, PC
  <2>3. QED
    BY <1>17, <2>1, <2>2, Zenon DEF DeleteRefreshTokens, TypeOK
<1>18. ASSUME DeleteSessionsByUser(p) PROVE TypeOK'
  <2>1. sessions' \in [Session -> SessionRow]
    BY <1>a, <1>18, Zenon DEF DeleteSessionsByUser, DeleteSessionRows, TypeOK, SessionRow
  <2>2. codes' \in [Session -> CodeRow]
    BY <1>a, <1>18, Zenon DEF DeleteSessionsByUser, DeleteSessionRows, TypeOK, CodeRow
  <2>3. refresh' \in [Tok -> RefreshRow]
    BY <1>a, <1>18, Zenon DEF DeleteSessionsByUser, DeleteSessionRows, TypeOK, RefreshRow
  <2>4. req' \in [Proc -> Request]
    BY <1>18, GotoType, Zenon DEF DeleteSessionsByUser, PC
  <2>5. QED
    BY <1>18, <2>1, <2>2, <2>3, <2>4, Zenon DEF DeleteSessionsByUser, TypeOK
<1>19. ASSUME DeleteUserRow(p) PROVE TypeOK'
  <2>1. users' \in [User -> {"free", "live", "gone"}]
    BY ZenonT(30), <1>a, <1>19 DEF DeleteUserRow, TypeOK
  <2>2. sessions' \in [Session -> SessionRow]
    BY <1>a, <1>19, Zenon DEF DeleteUserRow, DeleteSessionRows, TypeOK, SessionRow
  <2>3. codes' \in [Session -> CodeRow]
    BY <1>a, <1>19, Zenon DEF DeleteUserRow, DeleteSessionRows, TypeOK, CodeRow
  <2>4. refresh' \in [Tok -> RefreshRow]
    BY <1>a, <1>19, Zenon DEF DeleteUserRow, DeleteSessionRows, TypeOK, RefreshRow
  <2>5. lock' \in [Server -> Proc \cup {None}]
    BY <1>a, <1>19, Zenon DEF DeleteUserRow, Release, TypeOK
  <2>6. req' \in [Proc -> Request]
    BY <1>a, <1>19, Zenon DEF DeleteUserRow, Return, Idle, Made, TypeOK, Request, Op, PC
  <2>7. QED
    BY <1>19, <2>1, <2>2, <2>3, <2>4, <2>5, <2>6, Zenon DEF DeleteUserRow, TypeOK
<1>20. QED
  BY <1>1, <1>2, <1>3, <1>4, <1>5, <1>6, <1>7, <1>8, <1>9, <1>10, <1>11, <1>12, <1>13, <1>14, <1>15,
     <1>16, <1>17, <1>18, <1>19, Zenon DEF Step

\* The cleanup worker keeps the types.
LEMMA CleanupType ==
  ASSUME TypeOK, Cleanup
  PROVE  TypeOK'
<1>1. ASSUME CleanupStart PROVE TypeOK'
  <2>1. cleaner' \in [pc: 0..4, at: Nat]
    BY <1>1 DEF CleanupStart, TypeOK
  <2>2. QED
    BY <1>1, <2>1, Zenon DEF CleanupStart, TypeOK, store
<1>2. ASSUME DeleteExpiredCodes PROVE TypeOK'
  <2>1. cleaner' \in [pc: 0..4, at: Nat]
    BY <1>2 DEF DeleteExpiredCodes, CleanupStep, TypeOK
  <2>2. codes' \in [Session -> CodeRow]
    BY <1>2, Zenon DEF DeleteExpiredCodes, TypeOK, CodeRow
  <2>3. QED
    BY <1>2, <2>1, <2>2, Zenon DEF DeleteExpiredCodes, TypeOK, CleanupStep
<1>3. ASSUME DeleteExpiredTokens PROVE TypeOK'
  <2>1. cleaner' \in [pc: 0..4, at: Nat]
    BY <1>3 DEF DeleteExpiredTokens, CleanupStep, TypeOK
  <2>2. refresh' \in [Tok -> RefreshRow]
    BY <1>3, Zenon DEF DeleteExpiredTokens, DropTokens, TypeOK, RefreshRow
  <2>3. QED
    BY <1>3, <2>1, <2>2, Zenon DEF DeleteExpiredTokens, TypeOK, CleanupStep
<1>4. ASSUME DeleteUsedTokens PROVE TypeOK'
  <2>1. cleaner' \in [pc: 0..4, at: Nat]
    BY <1>4 DEF DeleteUsedTokens, CleanupStep, TypeOK
  <2>2. refresh' \in [Tok -> RefreshRow]
    BY <1>4, Zenon DEF DeleteUsedTokens, DropTokens, TypeOK, RefreshRow
  <2>3. QED
    BY <1>4, <2>1, <2>2, Zenon DEF DeleteUsedTokens, TypeOK, CleanupStep
<1>5. ASSUME DeleteExpiredSessions PROVE TypeOK'
  <2>1. cleaner' \in [pc: 0..4, at: Nat]
    BY <1>5 DEF DeleteExpiredSessions, CleanupStep, TypeOK
  <2>2. sessions' \in [Session -> SessionRow]
    BY <1>5, Zenon DEF DeleteExpiredSessions, DeleteSessionRows, TypeOK, SessionRow
  <2>3. codes' \in [Session -> CodeRow]
    BY <1>5, Zenon DEF DeleteExpiredSessions, DeleteSessionRows, TypeOK, CodeRow
  <2>4. refresh' \in [Tok -> RefreshRow]
    BY <1>5, Zenon DEF DeleteExpiredSessions, DeleteSessionRows, TypeOK, RefreshRow
  <2>5. QED
    BY <1>5, <2>1, <2>2, <2>3, <2>4, Zenon DEF DeleteExpiredSessions, TypeOK, CleanupStep
<1>6. ASSUME CleanupFails PROVE TypeOK'
  <2>1. cleaner' \in [pc: 0..4, at: Nat]
    BY <1>6 DEF CleanupFails, CleanupStep, TypeOK
  <2>2. QED
    BY <1>6, <2>1, Zenon DEF CleanupFails, TypeOK, CleanupStep
<1>7. QED
  BY <1>1, <1>2, <1>3, <1>4, <1>5, <1>6, Zenon DEF Cleanup

\* Every step keeps the types.
LEMMA NextType ==
  ASSUME TypeOK, Requests, [Next]_vars
  PROVE  TypeOK'
<1>1. ASSUME Tick PROVE TypeOK'
  BY <1>1 DEF Tick, TypeOK, store
<1>2. ASSUME UNCHANGED vars PROVE TypeOK'
  BY <1>2, Zenon DEF vars, TypeOK
<1>3. QED
  BY <1>1, <1>2, CallType, StepType, CleanupType, Zenon DEF Next, Requests

\* The types hold at the start.
LEMMA InitType == Init => TypeOK
<1> SUFFICES ASSUME Init PROVE TypeOK
  OBVIOUS
<1>1. req \in [Proc -> Request]
  BY Zenon DEF Init, Idle, Made, Request, Op, PC
<1>2. QED
  BY <1>1 DEF Init, TypeOK, SessionRow, CodeRow, RefreshRow, AccessToken
-----------------------------------------------------------------------------
(* Steps that only take away: rows are revoked or deleted, nothing is issued. *)

SessionShrinks(s) ==
  \/ sessions'[s] = sessions[s]
  \/ /\ sessions[s].st \in {"pending_consent", "active"}
     /\ sessions'[s].st = "revoked" /\ sessions'[s].jti = sessions[s].jti
  \/ HasRow(s) /\ sessions'[s].st = "gone" /\ sessions'[s].jti = None

CodeShrinks(s) ==
  \/ codes'[s] = codes[s]
  \/ codes'[s].st = "gone" /\ (Stored(codes[s].st) \/ sessions'[s].st = "gone")

\* A refresh token goes, and it does when its session goes.
RefreshShrinks(t) ==
  \/ refresh'[t] = refresh[t]
     /\ (refresh[t].sess # None => sessions'[refresh[t].sess].st # "gone"
                                     \/ sessions[refresh[t].sess].st = "gone")
  \/ Stored(refresh[t].st) /\ refresh'[t].st = "gone" /\ refresh'[t].sess = None

\* A request that changes its local state without becoming a credential.
QuietRequest(q) ==
  /\ TokenRequest(q)' /\ OtherRequest(q)'
  /\ req'[q].pc \notin {"advance", "create", "code"}
  /\ (At(q, {"revokeSession"}, "trl"))' => req'[q].jti = sessions'[req'[q].sess].jti

Shrinks ==
  /\ now' \in Nat /\ now <= now' /\ UNCHANGED access
  /\ \A t \in Tok : trl'[t] = trl[t] \/ (Minted(t) /\ access[t].exp <= trl'[t])
  /\ \A s \in Session : SessionShrinks(s) /\ CodeShrinks(s)
  /\ \A t \in Tok : RefreshShrinks(t)
  /\ \A q \in Proc : req'[q] = req[q] \/ QuietRequest(q)

\* A step that only takes away keeps the invariant.
LEMMA ShrinkStep ==
  ASSUME IInv, TypeOK', Shrinks
  PROVE  IInv'
<1> USE IdsAssumption, TimesAssumption
<1>a. TypeOK /\ MintedFrom /\ Referential /\ Requests
  BY Zenon DEF IInv
<1>s. \A g \in Grant : Spent(g) => Spent(g)'
  BY <1>a, Zenon DEF Shrinks, CodeShrinks, RefreshShrinks, Stored, Spent, Grant, TypeOK
<1>c. \A s \in Session : codes[s].st # "free" => codes'[s].st # "free"
  BY Zenon DEF Shrinks, CodeShrinks
<1>1. MintedFrom'
  <2> SUFFICES ASSUME NEW t \in Tok
               PROVE  /\ ~Minted(t) => access[t].parent = None /\ refresh'[t].st = "free"
                      /\ Minted(t) => /\ access[t].parent \in Grant /\ Spent(access[t].parent)'
                                      /\ codes'[access[t].sess].st # "free"
                                      /\ access[t].exp <= now' + TokenTTL
    BY Zenon DEF Shrinks, MintedFrom, Minted
  <2>1. CASE ~Minted(t)
    BY <1>a, <2>1, Zenon DEF MintedFrom, Shrinks, RefreshShrinks, Stored
  <2>2. CASE Minted(t)
    <3>1. access[t].sess \in Session /\ access[t].exp \in Nat
      BY <1>a, <2>2 DEF TypeOK, AccessToken, Minted
    <3>2. QED
      BY <1>a, <1>s, <1>c, <2>2, <3>1 DEF MintedFrom, Shrinks, TypeOK
  <2>3. QED
    BY <2>1, <2>2
<1>2. Referential'
  <2>1. ASSUME NEW t \in Tok
        PROVE  /\ Stored(refresh'[t].st) <=> refresh'[t].sess # None
               /\ refresh'[t].sess # None => Minted(t) /\ refresh'[t].sess = access[t].sess
    BY <1>a, Zenon DEF Referential, Shrinks, RefreshShrinks, Stored
  <2>2. ASSUME NEW s \in Session
        PROVE  /\ sessions'[s].jti # None => Minted(sessions'[s].jti)
               /\ sessions'[s].st = "free" => codes'[s].st = "free"
    BY <1>a DEF Referential, Shrinks, SessionShrinks, CodeShrinks, Stored, HasRow
  <2>3. QED
    BY <2>1, <2>2, Zenon DEF Referential, Shrinks, Minted
<1>3. ASSUME NEW q \in Proc, req'[q] = req[q]
      PROVE  TokenRequest(q)' /\ OtherRequest(q)'
  <2>0. req[q] \in Request /\ TokenRequest(q) /\ OtherRequest(q)
    BY <1>a, Zenon DEF TypeOK, Requests
  <2>1. TokenRequest(q)'
    <3> SUFFICES ASSUME req[q].op \in {"exchange", "refresh"} PROVE TokenRequest(q)'
      BY <1>3, Zenon DEF TokenRequest
    <3>1. req[q].sess \in Session /\ req[q].grant \in Grant
      BY <2>0, Zenon DEF TokenRequest, Request, Grant
    <3>a. req[q].at \in Nat /\ now \in Nat /\ now' \in Nat /\ now <= now'
      BY <2>0, <1>a, Zenon DEF Shrinks, Request, TypeOK
    <3>b. req[q].at <= now /\ codes[req[q].sess].st # "free"
      BY ZenonT(30), <2>0 DEF TokenRequest
    <3>c. codes'[req[q].sess].st # "free"
      BY ZenonT(30), <3>1, <3>b, <1>c
    <3>2. req[q].at <= now' /\ codes'[req[q].sess].st # "free"
      BY SMT, <3>a, <3>b, <3>c
    <3>3. req[q].pc = "advance" => Spent(req[q].grant)'
      BY <1>3, <1>s, <2>0, <3>1, Zenon DEF TokenRequest
    <3>4. req[q].pc = "create" =>
            /\ req[q].jti \in Tok /\ refresh'[req[q].jti].st = "free"
            /\ sessions'[req[q].sess].st \in {"active", "revoked", "gone"}
      BY <2>0, <3>1, Zenon DEF TokenRequest, Shrinks, SessionShrinks, RefreshShrinks, Stored,
         Request
    <3>5. QED
      BY <1>3, <2>0, <3>2, <3>3, <3>4, Zenon DEF TokenRequest, Shrinks
  <2>2. OtherRequest(q)'
    <3>1. req[q].pc = "code" =>
            /\ sessions'[req[q].sess].st # "free"
            /\ HasRow(req[q].sess)' => codes'[req[q].sess].st = "free"
      BY <1>3, <2>0 DEF OtherRequest, Shrinks, SessionShrinks, CodeShrinks, HasRow, Stored,
                         Request
    <3>2. At(q, {"revokeSession"}, "trl") => sessions'[req[q].sess].st \in {"revoked", "gone"}
      BY <2>0, Zenon DEF OtherRequest, At, Shrinks, SessionShrinks, HasRow, Request
    <3>3. QED
      BY ZenonT(30), <1>3, <2>0, <3>1, <3>2 DEF OtherRequest, At, Shrinks, Minted
  <2>3. QED
    BY <2>1, <2>2
<1>4. Requests'
  <2>1. \A q \in Proc : TokenRequest(q)' /\ OtherRequest(q)'
    BY <1>3, Zenon DEF Shrinks, QuietRequest
  <2>2. \A q \in Proc : req'[q].pc = "code" => req'[q] = req[q]
    BY Zenon DEF Shrinks, QuietRequest
  <2>3. QED
    BY <1>a, <2>1, <2>2, Zenon DEF Requests
<1>5. ListOutlives' /\ SingleUse'
  BY Zenon DEF IInv, ListOutlives, SingleUse, Minted, Shrinks
<1>6. OneCredential'
  <2>1. ASSUME NEW s \in Session PROVE Credentials(s)' \subseteq Credentials(s)
    <3>1. codes'[s].st = "unused" => codes[s].st = "unused"
      BY Zenon DEF Shrinks, CodeShrinks
    <3>2. \A t \in Tok : refresh'[t].sess = s => refresh'[t] = refresh[t]
      BY Zenon DEF Shrinks, RefreshShrinks
    <3>3. \A q \in Proc : req'[q].pc \in {"advance", "create"} => req'[q] = req[q]
      BY Zenon DEF Shrinks, QuietRequest
    <3>4. QED
      BY <3>1, <3>2, <3>3, Zenon DEF Credentials
  <2>2. QED
    BY <2>1, Zenon DEF IInv, OneCredential
<1>7. ActivationOrder'
  <2>1. ASSUME NEW s \in Session, sessions'[s].st = "active"
        PROVE  codes'[s].st \in {"used", "gone"}
    BY <2>1, Zenon DEF IInv, ActivationOrder, Shrinks, SessionShrinks, CodeShrinks, HasRow
  <2>2. ASSUME NEW t \in Tok, Stored(refresh'[t].st)
        PROVE  sessions'[refresh'[t].sess].st \in {"active", "revoked"}
    <3>1. refresh'[t] = refresh[t] /\ refresh[t].sess \in Session
      BY <1>a, <2>2 DEF Shrinks, RefreshShrinks, Stored, Referential, TypeOK, RefreshRow
    <3>2. sessions[refresh[t].sess].st \in {"active", "revoked"}
      BY <2>2, <3>1, Zenon DEF IInv, ActivationOrder
    <3>3. sessions'[refresh[t].sess].st # "gone"
      BY <2>2, <3>1, <3>2, Zenon DEF Shrinks, RefreshShrinks, Stored
    <3>4. QED
      BY <3>1, <3>2, <3>3, Zenon DEF Shrinks, SessionShrinks
  <2>3. QED
    BY <2>1, <2>2, Zenon DEF ActivationOrder
<1>8. RevokeSessionListsLatest'
  <2> SUFFICES ASSUME NEW q \in Proc, At(q, {"revokeSession"}, "trl")', HasRow(req[q].sess)'
               PROVE  req'[q].jti = sessions'[req'[q].sess].jti
    BY Zenon DEF RevokeSessionListsLatest
  <2>1. CASE QuietRequest(q)
    BY <2>1, Zenon DEF QuietRequest
  <2>2. CASE req'[q] = req[q]
    <3>1. At(q, {"revokeSession"}, "trl") /\ OtherRequest(q) /\ req[q].sess \in Session
      BY <1>a, <2>2 DEF At, Requests, OtherRequest, TypeOK, Request
    <3>2. sessions'[req[q].sess] = sessions[req[q].sess]
      BY <2>2, <3>1, Zenon DEF OtherRequest, Shrinks, SessionShrinks, HasRow
    <3>3. QED
      BY <2>2, <3>1, <3>2, Zenon DEF IInv, RevokeSessionListsLatest, HasRow
  <2>3. QED
    BY <2>1, <2>2, Zenon DEF Shrinks
<1>9. QED
  BY <1>1, <1>2, <1>4, <1>5, <1>6, <1>7, <1>8, Zenon DEF IInv

\* The tables stay; one request moves on without becoming a credential.
LEMMA QuietStep ==
  ASSUME IInv, TypeOK', NEW p \in Proc, UNCHANGED <<now, sessions, codes, refresh, access, trl>>,
         \A q \in Proc : q # p => req'[q] = req[q],
         TokenRequest(p)', OtherRequest(p)',
         req'[p].pc \notin {"advance", "create", "code"},
         (At(p, {"revokeSession"}, "trl"))' => req'[p].jti = sessions'[req'[p].sess].jti
  PROVE  IInv'
<1>1. Shrinks
  <2>1. now' \in Nat /\ now <= now'
    BY SMT DEF IInv, TypeOK
  <2>2. \A s \in Session : SessionShrinks(s) /\ CodeShrinks(s)
    BY ZenonT(30) DEF SessionShrinks, CodeShrinks
  <2>3. \A t \in Tok : RefreshShrinks(t)
    BY ZenonT(30) DEF RefreshShrinks
  <2>4. \A q \in Proc : req'[q] = req[q] \/ QuietRequest(q)
    BY ZenonT(30) DEF QuietRequest
  <2>5. QED
    BY ZenonT(30), <2>1, <2>2, <2>3, <2>4 DEF Shrinks
<1>2. QED
  BY <1>1, ShrinkStep

\* An idle request satisfies what the invariant says of requests.
LEMMA IdleRequest ==
  ASSUME NEW p \in Proc, req'[p] = Idle
  PROVE  TokenRequest(p)' /\ OtherRequest(p)' /\ req'[p].pc = "idle"
BY DEF TokenRequest, OtherRequest, Idle, Made, At

\* A request that goes on with its next session satisfies what the invariant says of it.
LEMMA NextSessionRequest ==
  ASSUME IInv, TypeOK', NEW p \in Proc, UNCHANGED access, NEW todo, NextSession(p, todo),
         req[p].pc \in {"resolve", "revoke", "trl", "delRefresh"},
         \A x \in todo : x[2] # None => Minted(x[2]),
         req[p].op = "revokeSession" => todo = {}
  PROVE  /\ \A q \in Proc : q # p => req'[q] = req[q]
         /\ TokenRequest(p)' /\ OtherRequest(p)'
         /\ req'[p].pc \in {"idle", "revoke"}
<1>1. TypeOK /\ TokenRequest(p) /\ OtherRequest(p)
  BY Zenon DEF IInv, Requests
<1>2. CASE todo = {}
  BY <1>1, <1>2, IdleRequest, Zenon DEF NextSession, TypeOK
<1>3. CASE todo # {}
  <2>1. req'[p] = Revoking(req[p].op, "revoke", None, None, todo)
    BY <1>1, <1>3, Zenon DEF NextSession, TypeOK
  <2>2. req[p].op \in {"revokeToken", "logoutAll"}
    BY <1>1, <1>3, Zenon DEF OtherRequest
  <2>3. /\ req'[p].op = req[p].op /\ req'[p].pc = "revoke"
        /\ req'[p].jti = None /\ req'[p].todo = todo
    BY <2>1 DEF Revoking
  <2>4. \A q \in Proc : q # p => req'[q] = req[q]
    BY <1>1, Zenon DEF NextSession, TypeOK
  <2>5. QED
    BY ZenonT(30), <1>1, <2>2, <2>3, <2>4 DEF TokenRequest, OtherRequest, At, Minted
<1>4. QED
  BY <1>2, <1>3

\* The calls that only start a request.
LEMMA CallStep ==
  ASSUME IInv, TypeOK', NEW p \in Proc, Call(p)
  PROVE  IInv'
<1> USE IdsAssumption, TimesAssumption
<1>a. TypeOK /\ MintedFrom /\ Referential /\ Requests
  BY Zenon DEF IInv
<1>1. ASSUME NEW u \in User, Authorize(p, u)
      PROVE  IInv'
  <2>1. TokenRequest(p)' /\ OtherRequest(p)' /\ req'[p].pc \in {"load", "lock", "resolve", "revoke"}
    BY ZenonT(30), <1>a, <1>1 DEF Authorize, Begin, store, Made, TokenRequest, OtherRequest, At, TypeOK
  <2>2. QED
    BY <1>a, <1>1, <2>1, QuietStep, Zenon DEF Authorize, Begin, store, At, TypeOK
<1>2. ASSUME NEW u \in User, DeleteUser(p, u)
      PROVE  IInv'
  <2>1. TokenRequest(p)' /\ OtherRequest(p)' /\ req'[p].pc \in {"load", "lock", "resolve", "revoke"}
    BY ZenonT(30), <1>a, <1>2 DEF DeleteUser, Begin, store, Made, TokenRequest, OtherRequest, At, TypeOK
  <2>2. QED
    BY ZenonT(30), <1>a, <1>2, <2>1, QuietStep DEF DeleteUser, Begin, store, At, TypeOK
<1>3. ASSUME NEW s \in Session, ExchangeCode(p, s)
      PROVE  IInv'
  <2>1. TokenRequest(p)' /\ OtherRequest(p)' /\ req'[p].pc \in {"load", "lock", "resolve", "revoke"}
    <3>1. /\ req'[p].op = "exchange" /\ req'[p].pc = "load" /\ req'[p].at = now
          /\ req'[p].sess = s /\ req'[p].grant = s /\ req'[p].todo = {}
      BY <1>a, <1>3, Zenon DEF ExchangeCode, Begin, Made, TypeOK
    <3>2. now' = now /\ codes' = codes /\ codes[s].st # "free"
      BY <1>3, Zenon DEF ExchangeCode, Stored, store
    <3>3. s # None /\ now <= now
      BY SMT, <1>a DEF TypeOK
    <3>4. QED
      BY ZenonT(30), <3>1, <3>2, <3>3 DEF TokenRequest, OtherRequest, At
  <2>2. QED
    BY ZenonT(30), <1>a, <1>3, <2>1, QuietStep DEF ExchangeCode, Begin, store, At, TypeOK
<1>4. ASSUME NEW t \in Tok, RefreshToken(p, t)
      PROVE  IInv'
  <2>1. TokenRequest(p)' /\ OtherRequest(p)' /\ req'[p].pc \in {"load", "lock", "resolve", "revoke"}
    <3> DEFINE s == refresh[t].sess
    <3>1. /\ req'[p].op = "refresh" /\ req'[p].pc = "load" /\ req'[p].at = now
          /\ req'[p].sess = s /\ req'[p].grant = t /\ req'[p].todo = {}
      BY <1>a, <1>4, Zenon DEF RefreshToken, Begin, Made, TypeOK
    <3>2. now' = now /\ codes' = codes /\ access' = access /\ Stored(refresh[t].st)
      BY <1>4, Zenon DEF RefreshToken, store
    <3>3. s # None /\ Minted(t) /\ access[t].sess = s
      BY ZenonT(30), <1>a, <3>2 DEF Referential
    <3>4. codes[s].st # "free" /\ now <= now
      BY <1>a, <3>3 DEF MintedFrom, TypeOK
    <3>5. QED
      BY ZenonT(30), <3>1, <3>2, <3>3, <3>4 DEF TokenRequest, OtherRequest, At
  <2>2. QED
    BY ZenonT(30), <1>a, <1>4, <2>1, QuietStep DEF RefreshToken, Begin, store, At, TypeOK
<1>5. ASSUME NEW t \in Tok, RevokeAccessToken(p, t)
      PROVE  IInv'
  <2>1. TokenRequest(p)' /\ OtherRequest(p)' /\ req'[p].pc \in {"load", "lock", "resolve", "revoke"}
    <3>1. /\ req'[p].op = "revokeToken" /\ req'[p].pc = "revoke" /\ req'[p].jti = None
          /\ req'[p].todo = {<<access[t].sess, t>>}
      BY <1>a, <1>5, Zenon DEF RevokeAccessToken, Begin, Revoking, TypeOK
    <3>2. access' = access /\ Minted(t)
      BY <1>5, Zenon DEF RevokeAccessToken, store
    <3>3. \A x \in req'[p].todo : x[2] = t
      BY <3>1
    <3>4. QED
      BY ZenonT(30), <3>1, <3>2, <3>3 DEF TokenRequest, OtherRequest, At, Minted
  <2>2. QED
    BY ZenonT(30), <1>a, <1>5, <2>1, QuietStep DEF RevokeAccessToken, Begin, store, At, TypeOK
<1>6. ASSUME NEW t \in Tok, RevokeRefreshToken(p, t)
      PROVE  IInv'
  <2>1. TokenRequest(p)' /\ OtherRequest(p)' /\ req'[p].pc \in {"load", "lock", "resolve", "revoke"}
    BY ZenonT(30), <1>a, <1>6 DEF RevokeRefreshToken, Begin, store, Revoking, Stored, Referential, TokenRequest, OtherRequest, At, TypeOK
  <2>2. QED
    BY <1>a, <1>6, <2>1, QuietStep, Zenon DEF RevokeRefreshToken, Begin, store, At, TypeOK
<1>7. ASSUME NEW u \in User, NEW keep \in Session \cup {None}, LogoutAll(p, u, keep)
      PROVE  IInv'
  <2>1. TokenRequest(p)' /\ OtherRequest(p)' /\ req'[p].pc \in {"load", "lock", "resolve", "revoke"}
    <3> DEFINE mine == {s \in Session \ {keep} : HasRow(s) /\ sessions[s].user = u}
    <3>1. Begin(p, Revoking("logoutAll", "revoke", None, None,
                            {<<s, sessions[s].jti>> : s \in mine}))
      BY ZenonT(30), <1>7 DEF LogoutAll
    <3>2. /\ req'[p].op = "logoutAll" /\ req'[p].pc = "revoke" /\ req'[p].jti = None
          /\ req'[p].todo = {<<s, sessions[s].jti>> : s \in mine}
      BY <1>a, <3>1, Zenon DEF Begin, Revoking, TypeOK
    <3>3. access' = access
      BY <1>7, Zenon DEF LogoutAll, store
    <3>4. ASSUME NEW x \in req'[p].todo, x[2] # None PROVE Minted(x[2])
      <4>1. PICK s \in mine : x = <<s, sessions[s].jti>>
        BY ZenonT(30), <3>2
      <4>2. x[2] = sessions[s].jti
        BY <4>1
      <4>3. QED
        BY ZenonT(30), <1>a, <3>4, <4>2 DEF Referential
    <3>5. QED
      BY ZenonT(30), <3>2, <3>3, <3>4 DEF TokenRequest, OtherRequest, At, Minted
  <2>2. QED
    BY ZenonT(30), <1>a, <1>7, <2>1, QuietStep DEF LogoutAll, Begin, store, At, TypeOK
<1>8. ASSUME NEW u \in User, NEW s \in Session, RevokeSession(p, u, s)
      PROVE  IInv'
  <2>0. req'[p] = Revoking("revokeSession", IF sessions[s].jti = None THEN "delRefresh" ELSE "trl",
                           s, sessions[s].jti, {})
    BY <1>a, <1>8, Zenon DEF RevokeSession, RevokeTokens, TypeOK
  <2>1. /\ sessions'[s].st = "revoked" /\ sessions'[s].jti = sessions[s].jti
        /\ \A r \in Session : r # s => sessions'[r] = sessions[r]
    BY <1>a, <1>8 DEF RevokeSession, TypeOK, SessionRow
  <2>2. TokenRequest(p)' /\ OtherRequest(p)'
    BY <1>a, <1>8, <2>0, <2>1 DEF RevokeSession, Revoking, Referential, TokenRequest, OtherRequest,
                                  At, Minted
  <2>3. QuietRequest(p)
    <3>1. req'[p].pc \in {"delRefresh", "trl"} /\ req'[p].jti = sessions[s].jti /\ req'[p].sess = s
      BY <2>0 DEF Revoking
    <3>2. QED
      BY ZenonT(30), <2>1, <2>2, <3>1 DEF QuietRequest
  <2>4. \A r \in Session : SessionShrinks(r) /\ CodeShrinks(r)
    BY <1>8, <2>1, Zenon DEF RevokeSession, SessionShrinks, CodeShrinks
  <2>5. \A t \in Tok : RefreshShrinks(t)
    BY <1>8, <2>1, <1>a, Zenon DEF RevokeSession, RefreshShrinks, TypeOK, RefreshRow
  <2>6. Shrinks
    BY <1>a, <1>8, <2>3, <2>4, <2>5 DEF Shrinks, RevokeSession, RevokeTokens, TypeOK
  <2>7. QED
    BY <2>6, ShrinkStep
<1>9. QED
  BY <1>1, <1>2, <1>3, <1>4, <1>5, <1>6, <1>7, <1>8, Zenon DEF Call

\* A session row that RevokeIfActive leaves behind.
LEMMA RevokeIfActiveShrinks ==
  ASSUME TypeOK, NEW s \in Session, RevokeIfActive(s)
  PROVE  /\ \A r \in Session : SessionShrinks(r)
         /\ \A r \in Session : sessions'[r].st = "gone" => sessions[r].st = "gone"
         /\ sessions[s].st \in {"pending_consent", "active"} => sessions'[s].st = "revoked"
<1>1. CASE sessions[s].st \in {"pending_consent", "active"}
  <2>1. /\ sessions'[s].st = "revoked" /\ sessions'[s].jti = sessions[s].jti
        /\ \A r \in Session : r # s => sessions'[r] = sessions[r]
    BY <1>1, Zenon DEF RevokeIfActive, TypeOK, SessionRow
  <2>2. QED
    BY <1>1, <2>1, Zenon DEF SessionShrinks
<1>2. CASE sessions[s].st \notin {"pending_consent", "active"}
  BY <1>2, Zenon DEF RevokeIfActive, SessionShrinks
<1>3. QED
  BY <1>1, <1>2

\* A step that touches the session rows only by revoking them.
LEMMA RevokeStep ==
  ASSUME IInv, TypeOK', NEW p \in Proc, UNCHANGED <<now, codes, refresh, access, trl>>,
         \A r \in Session : SessionShrinks(r),
         \A r \in Session : sessions'[r].st = "gone" => sessions[r].st = "gone",
         \A q \in Proc : q # p => req'[q] = req[q],
         QuietRequest(p)
  PROVE  IInv'
<1>1. \A r \in Session : CodeShrinks(r)
  BY Zenon DEF CodeShrinks
<1>2. \A t \in Tok : RefreshShrinks(t)
  BY Zenon DEF RefreshShrinks, IInv, TypeOK, RefreshRow
<1>3. Shrinks
  BY <1>1, <1>2 DEF Shrinks, IInv, TypeOK
<1>4. QED
  BY <1>3, ShrinkStep

\* Rows of sessions with their codes and refresh tokens are deleted.
LEMMA DeleteRowsStep ==
  ASSUME IInv, TypeOK', NEW S, S \subseteq {s \in Session : HasRow(s)}, DeleteSessionRows(S),
         UNCHANGED <<now, access, trl>>,
         \A q \in Proc : req'[q] = req[q] \/ QuietRequest(q)
  PROVE  IInv'
<1>a. TypeOK /\ Referential
  BY Zenon DEF IInv
<1>1. \A s \in Session : SessionShrinks(s) /\ CodeShrinks(s)
  BY <1>a, Zenon DEF DeleteSessionRows, SessionShrinks, CodeShrinks, HasRow
<1>2. ASSUME NEW t \in Tok PROVE RefreshShrinks(t)
  <2>1. CASE refresh[t].sess \in S
    BY <1>a, <2>1, IdsAssumption, Zenon DEF DeleteSessionRows, RefreshShrinks, Referential
  <2>2. CASE refresh[t].sess \notin S
    BY <1>a, <2>2, Zenon DEF DeleteSessionRows, RefreshShrinks, TypeOK, RefreshRow
  <2>3. QED
    BY <2>1, <2>2
<1>3. Shrinks
  BY SMTT(20), <1>a, <1>1, <1>2 DEF Shrinks, TypeOK
<1>4. QED
  BY <1>3, ShrinkStep

\* Only refresh tokens are deleted.
LEMMA DropTokensStep ==
  ASSUME IInv, TypeOK', NEW T, T \subseteq {t \in Tok : Stored(refresh[t].st)}, DropTokens(T),
         UNCHANGED <<now, sessions, codes, access, trl>>,
         \A q \in Proc : req'[q] = req[q] \/ QuietRequest(q)
  PROVE  IInv'
<1>1. \A s \in Session : SessionShrinks(s) /\ CodeShrinks(s)
  BY Zenon DEF SessionShrinks, CodeShrinks
<1>2. \A t \in Tok : RefreshShrinks(t)
  BY Zenon DEF DropTokens, RefreshShrinks
<1>3. Shrinks
  BY <1>1, <1>2 DEF Shrinks, IInv, TypeOK
<1>4. QED
  BY <1>3, ShrinkStep

\* The cleanup worker keeps the invariant.
LEMMA CleanupPreserves ==
  ASSUME IInv, TypeOK', Cleanup
  PROVE  IInv'
<1>a. IInv => TypeOK
  BY Zenon DEF IInv
<1>1. ASSUME CleanupStart \/ CleanupFails PROVE IInv'
  <2>1. Shrinks
    BY <1>a, <1>1 DEF CleanupStart, CleanupFails, CleanupStep, store, Shrinks, SessionShrinks,
                      CodeShrinks, RefreshShrinks, TypeOK
  <2>2. QED
    BY <2>1, ShrinkStep
<1>2. ASSUME DeleteExpiredCodes PROVE IInv'
  <2>1. Shrinks
    BY <1>a, <1>2 DEF DeleteExpiredCodes, CleanupStep, Shrinks, SessionShrinks, CodeShrinks,
                      RefreshShrinks, TypeOK
  <2>2. QED
    BY <2>1, ShrinkStep
<1>3. ASSUME DeleteExpiredTokens PROVE IInv'
  BY <1>3, DropTokensStep, Zenon DEF DeleteExpiredTokens, CleanupStep
<1>4. ASSUME DeleteUsedTokens PROVE IInv'
  <2>1. {t \in Tok : refresh[t].st = "used"} \subseteq {t \in Tok : Stored(refresh[t].st)}
    BY Zenon DEF Stored
  <2>2. QED
    BY <1>4, <2>1, DropTokensStep, Zenon DEF DeleteUsedTokens, CleanupStep
<1>5. ASSUME DeleteExpiredSessions PROVE IInv'
  BY <1>5, DeleteRowsStep, Zenon DEF DeleteExpiredSessions, CleanupStep
<1>6. QED
  BY <1>1, <1>2, <1>3, <1>4, <1>5, Zenon DEF Cleanup

\* The passing of time keeps the invariant.
LEMMA TickPreserves ==
  ASSUME IInv, TypeOK', Tick
  PROVE  IInv'
<1>1. Shrinks
  BY DEF Tick, store, Shrinks, SessionShrinks, CodeShrinks, RefreshShrinks, IInv, TypeOK
<1>2. QED
  BY <1>1, ShrinkStep

\* Only the program counter of p moves.
MovedTo(p, pc) ==
  /\ \A q \in Proc : q # p => req'[q] = req[q]
  /\ req'[p].pc = pc /\ req'[p].op = req[p].op /\ req'[p].sess = req[p].sess
  /\ req'[p].jti = req[p].jti /\ req'[p].todo = req[p].todo
  /\ req'[p].grant = req[p].grant /\ req'[p].at = req[p].at

\* What Goto changes, and what it leaves.
LEMMA GotoMoves ==
  ASSUME TypeOK, NEW p \in Proc, NEW pc, Goto(p, pc)
  PROVE  MovedTo(p, pc)
BY DEF Goto, TypeOK, Request, MovedTo

\* What Return changes, and what it leaves.
LEMMA ReturnEffect ==
  ASSUME TypeOK, NEW p \in Proc, Return(p)
  PROVE  /\ \A q \in Proc : q # p => req'[q] = req[q]
         /\ TokenRequest(p)' /\ OtherRequest(p)' /\ req'[p].pc = "idle"
BY IdleRequest DEF Return, TypeOK

\* What the invariant says of one request.
LEMMA RequestFacts ==
  ASSUME IInv, NEW p \in Proc
  PROVE  /\ TypeOK /\ MintedFrom /\ Referential /\ Requests /\ req[p] \in Request
         /\ TokenRequest(p) /\ OtherRequest(p)
BY DEF IInv, Requests, TypeOK

\* Lock keeps the invariant.
LEMMA LockStep ==
  ASSUME IInv, TypeOK', NEW p \in Proc, Lock(p)
  PROVE  IInv'
<1>a. /\ TypeOK /\ MintedFrom /\ Referential /\ Requests /\ req[p] \in Request
      /\ TokenRequest(p) /\ OtherRequest(p)
  BY RequestFacts
<1>1. PICK pc \in {"user", "delSessions", "consume"} :
         /\ Goto(p, pc) /\ req[p].pc = "lock"
         /\ pc = "consume" => req[p].op \in {"exchange", "refresh"}
         /\ pc # "consume" => req[p].op \in {"authorize", "deleteUser"}
  BY Zenon DEF Lock
<1>2. MovedTo(p, pc)
  BY <1>a, <1>1, GotoMoves
<1>3. UNCHANGED <<now, sessions, codes, refresh, access, trl>>
  BY Zenon DEF Lock, store
<1>4. TokenRequest(p)'
  BY <1>a, <1>1, <1>2, <1>3, Zenon DEF MovedTo, TokenRequest, Spent
<1>5. OtherRequest(p)'
  BY ZenonT(30), <1>a, <1>1, <1>2, <1>3 DEF MovedTo, TokenRequest, OtherRequest, At, Minted
<1>6. QED
  BY <1>1, <1>2, <1>3, <1>4, <1>5, QuietStep, Zenon DEF MovedTo, At

\* Reject keeps the invariant.
LEMMA RejectStep ==
  ASSUME IInv, TypeOK', NEW p \in Proc, Reject(p)
  PROVE  IInv'
<1>a. /\ TypeOK /\ MintedFrom /\ Referential /\ Requests /\ req[p] \in Request
      /\ TokenRequest(p) /\ OtherRequest(p)
  BY RequestFacts
<1>1. UNCHANGED <<now, sessions, codes, refresh, access, trl>> /\ Return(p)
  BY Zenon DEF Reject, store
<1>2. QED
  BY ZenonT(30), <1>a, <1>1, ReturnEffect, QuietStep DEF At

\* FindOrCreateUser keeps the invariant.
LEMMA FindOrCreateUserStep ==
  ASSUME IInv, TypeOK', NEW p \in Proc, FindOrCreateUser(p)
  PROVE  IInv'
<1>a. /\ TypeOK /\ MintedFrom /\ Referential /\ Requests /\ req[p] \in Request
      /\ TokenRequest(p) /\ OtherRequest(p)
  BY RequestFacts
<1>1. PICK u \in User : req' = [req EXCEPT ![p] = [@ EXCEPT !.user = u, !.pc = "session"]]
  BY ZenonT(30) DEF FindOrCreateUser
<1>2. MovedTo(p, "session")
  BY <1>a, <1>1, Zenon DEF TypeOK, Request, MovedTo
<1>3. UNCHANGED <<now, sessions, codes, refresh, access, trl>> /\ req[p].pc = "user"
  BY Zenon DEF FindOrCreateUser
<1>4. TokenRequest(p)' /\ OtherRequest(p)'
  BY ZenonT(30), <1>a, <1>2, <1>3 DEF MovedTo, TokenRequest, OtherRequest, At, Minted
<1>5. QED
  BY <1>2, <1>3, <1>4, QuietStep, Zenon DEF MovedTo, At

\* PrepareTokenFlow keeps the invariant.
LEMMA PrepareTokenFlowStep ==
  ASSUME IInv, TypeOK', NEW p \in Proc, PrepareTokenFlow(p)
  PROVE  IInv'
<1>a. /\ TypeOK /\ MintedFrom /\ Referential /\ Requests /\ req[p] \in Request
      /\ TokenRequest(p) /\ OtherRequest(p)
  BY RequestFacts
<1>1. /\ MovedTo(p, "lock") /\ req[p].pc = "load"
      /\ UNCHANGED <<now, sessions, codes, refresh, access, trl>>
  BY ZenonT(30), <1>a, GotoMoves DEF PrepareTokenFlow, store
<1>2. TokenRequest(p)'
  BY ZenonT(30), <1>a, <1>1 DEF MovedTo, TokenRequest, Spent
<1>3. OtherRequest(p)'
  BY ZenonT(30), <1>a, <1>1 DEF MovedTo, TokenRequest, OtherRequest, At, Minted
<1>4. QED
  BY ZenonT(30), <1>1, <1>2, <1>3, QuietStep DEF MovedTo, At

\* ResolveSession keeps the invariant.
LEMMA ResolveSessionStep ==
  ASSUME IInv, TypeOK', NEW p \in Proc, ResolveSession(p)
  PROVE  IInv'
<1>a. /\ TypeOK /\ MintedFrom /\ Referential /\ Requests /\ req[p] \in Request
      /\ TokenRequest(p) /\ OtherRequest(p)
  BY RequestFacts
<1> DEFINE s == req[p].sess
           todo == {<<s, sessions[s].jti>>}
<1>1. /\ req[p].pc = "resolve" /\ NextSession(p, todo)
      /\ UNCHANGED <<now, sessions, codes, refresh, access, trl>>
  BY ZenonT(30) DEF ResolveSession, store
<1>2. s \in Session /\ req[p].op # "revokeSession"
  BY <1>a, <1>1, Zenon DEF OtherRequest, Request
<1>3. \A x \in todo : x[2] # None => Minted(x[2])
  BY <1>a, <1>2 DEF Referential
<1> HIDE DEF todo
<1>4. /\ \A q \in Proc : q # p => req'[q] = req[q]
      /\ TokenRequest(p)' /\ OtherRequest(p)' /\ req'[p].pc \in {"idle", "revoke"}
  BY <1>1, <1>2, <1>3, NextSessionRequest
<1>5. QED
  BY ZenonT(30), <1>1, <1>4, QuietStep DEF At

\* SkipSession keeps the invariant.
LEMMA SkipSessionStep ==
  ASSUME IInv, TypeOK', NEW p \in Proc, SkipSession(p)
  PROVE  IInv'
<1>a. /\ TypeOK /\ MintedFrom /\ Referential /\ Requests /\ req[p] \in Request
      /\ TokenRequest(p) /\ OtherRequest(p)
  BY RequestFacts
<1>1. PICK x \in req[p].todo : NextSession(p, req[p].todo \ {x})
  BY Zenon DEF SkipSession
<1>2. /\ req[p].pc = "revoke" /\ req[p].op = "logoutAll"
      /\ UNCHANGED <<now, sessions, codes, refresh, access, trl>>
  BY ZenonT(30) DEF SkipSession, store, At
<1>3. \A y \in req[p].todo \ {x} : y[2] # None => Minted(y[2])
  BY ZenonT(30), <1>a DEF OtherRequest
<1>4. /\ \A q \in Proc : q # p => req'[q] = req[q]
      /\ TokenRequest(p)' /\ OtherRequest(p)' /\ req'[p].pc \in {"idle", "revoke"}
  BY <1>1, <1>2, <1>3, NextSessionRequest
<1>5. QED
  BY ZenonT(30), <1>2, <1>4, QuietStep DEF At

\* FailTRL keeps the invariant.
LEMMA FailTRLStep ==
  ASSUME IInv, TypeOK', NEW p \in Proc, FailTRL(p)
  PROVE  IInv'
<1>a. /\ TypeOK /\ MintedFrom /\ Referential /\ Requests /\ req[p] \in Request
      /\ TokenRequest(p) /\ OtherRequest(p)
  BY RequestFacts
<1>1. /\ req[p].pc = "trl" /\ UNCHANGED <<now, sessions, codes, refresh, access, trl>>
      /\ Goto(p, "delRefresh") \/ NextSession(p, req[p].todo)
  BY Zenon DEF FailTRL, store
<1>2. CASE NextSession(p, req[p].todo)
  <2>1. /\ \A q \in Proc : q # p => req'[q] = req[q]
        /\ TokenRequest(p)' /\ OtherRequest(p)' /\ req'[p].pc \in {"idle", "revoke"}
    BY ZenonT(30), <1>a, <1>1, <1>2, NextSessionRequest DEF OtherRequest
  <2>2. QED
    BY <1>1, <2>1, QuietStep, Zenon DEF At
<1>3. CASE Goto(p, "delRefresh")
  <2>1. MovedTo(p, "delRefresh")
    BY <1>a, <1>3, GotoMoves
  <2>2. TokenRequest(p)' /\ OtherRequest(p)'
    BY ZenonT(30), <1>a, <1>1, <2>1 DEF MovedTo, TokenRequest, OtherRequest, At, Minted
  <2>3. QED
    BY ZenonT(30), <1>1, <2>1, <2>2, QuietStep DEF MovedTo, At
<1>4. QED
  BY <1>1, <1>2, <1>3

\* WriteTRL keeps the invariant.
LEMMA WriteTRLStep ==
  ASSUME IInv, TypeOK', NEW p \in Proc, WriteTRL(p)
  PROVE  IInv'
<1>a. /\ TypeOK /\ MintedFrom /\ Referential /\ Requests /\ req[p] \in Request
      /\ TokenRequest(p) /\ OtherRequest(p)
  BY RequestFacts
<1>1. /\ MovedTo(p, "delRefresh") /\ req[p].pc = "trl"
      /\ UNCHANGED <<now, sessions, codes, refresh, access>>
  BY ZenonT(30), <1>a, GotoMoves DEF WriteTRL
<1>2. req[p].jti \in Tok /\ Minted(req[p].jti)
  BY <1>a, <1>1, Zenon DEF OtherRequest, Request
<1>3. TokenRequest(p)' /\ OtherRequest(p)'
  BY ZenonT(30), <1>a, <1>1 DEF MovedTo, TokenRequest, OtherRequest, At, Minted
<1>4. \A t \in Tok : trl'[t] = trl[t] \/ (Minted(t) /\ access[t].exp <= trl'[t])
  BY <1>a, <1>2, Zenon DEF WriteTRL, MintedFrom, TypeOK
<1>5. \A q \in Proc : req'[q] = req[q] \/ QuietRequest(q)
  BY ZenonT(30), <1>1, <1>3 DEF MovedTo, QuietRequest, At
<1>6. Shrinks
  <2>1. now' = now /\ now \in Nat /\ now <= now
    BY <1>a DEF WriteTRL, TypeOK
  <2>2. UNCHANGED <<sessions, codes, refresh, access>>
    BY ZenonT(30) DEF WriteTRL
  <2>3. \A r \in Session : SessionShrinks(r) /\ CodeShrinks(r)
    BY ZenonT(30), <2>2 DEF SessionShrinks, CodeShrinks
  <2>4. \A t \in Tok : RefreshShrinks(t)
    BY ZenonT(30), <2>2 DEF RefreshShrinks
  <2>5. QED
    BY ZenonT(30), <1>4, <1>5, <2>1, <2>2, <2>3, <2>4 DEF Shrinks
<1>7. QED
  BY <1>6, ShrinkStep

\* RevokeOnReplay keeps the invariant.
LEMMA RevokeOnReplayStep ==
  ASSUME IInv, TypeOK', NEW p \in Proc, RevokeOnReplay(p)
  PROVE  IInv'
<1>a. /\ TypeOK /\ MintedFrom /\ Referential /\ Requests /\ req[p] \in Request
      /\ TokenRequest(p) /\ OtherRequest(p)
  BY RequestFacts
<1>1. req[p].sess \in Session
  BY ZenonT(30), <1>a DEF RevokeOnReplay, OtherRequest, Request
<1>2. QuietRequest(p) /\ \A q \in Proc : q # p => req'[q] = req[q]
  BY ZenonT(30), <1>a, ReturnEffect DEF RevokeOnReplay, QuietRequest, At
<1>3. QED
  BY ZenonT(30), <1>a, <1>1, <1>2, RevokeIfActiveShrinks, RevokeStep DEF RevokeOnReplay

\* RevokeSessionInternal keeps the invariant.
LEMMA RevokeSessionInternalStep ==
  ASSUME IInv, TypeOK', NEW p \in Proc, RevokeSessionInternal(p)
  PROVE  IInv'
<1>a. /\ TypeOK /\ MintedFrom /\ Referential /\ Requests /\ req[p] \in Request
      /\ TokenRequest(p) /\ OtherRequest(p)
  BY RequestFacts
<1>1. PICK x \in req[p].todo :
        /\ RevokeIfActive(x[1])
        /\ \/ RevokeTokens(p, req[p].op, x[1], x[2], req[p].todo \ {x})
           \/ NextSession(p, req[p].todo \ {x})
  BY ZenonT(30) DEF RevokeSessionInternal
<1> DEFINE rest == req[p].todo \ {x}
<1>2. x[1] \in Session /\ x[2] \in Tok \cup {None} /\ (x[2] # None => Minted(x[2]))
  BY <1>a, Zenon DEF Request, OtherRequest
<1>3. /\ req[p].pc = "revoke" /\ req[p].op \in {"revokeToken", "logoutAll"}
      /\ UNCHANGED <<now, codes, refresh, access, trl>>
  BY ZenonT(30), <1>a DEF RevokeSessionInternal, OtherRequest
<1>4. \A y \in rest : y[2] # None => Minted(y[2])
  BY ZenonT(30), <1>a DEF OtherRequest
<1> HIDE DEF rest
<1>5. QuietRequest(p) /\ \A q \in Proc : q # p => req'[q] = req[q]
  <2>1. CASE NextSession(p, rest)
    <3>1. /\ \A q \in Proc : q # p => req'[q] = req[q]
          /\ TokenRequest(p)' /\ OtherRequest(p)' /\ req'[p].pc \in {"idle", "revoke"}
      BY <1>3, <1>4, <2>1, NextSessionRequest
    <3>2. QED
      BY <3>1, Zenon DEF QuietRequest, At
  <2>2. CASE RevokeTokens(p, req[p].op, x[1], x[2], rest)
    <3>1. /\ req'[p] = Revoking(req[p].op, IF x[2] = None THEN "delRefresh" ELSE "trl",
                               x[1], x[2], rest)
          /\ \A q \in Proc : q # p => req'[q] = req[q]
      BY <1>a, <2>2, Zenon DEF RevokeTokens, TypeOK
    <3>2. TokenRequest(p)' /\ OtherRequest(p)' /\ req'[p].op # "revokeSession"
          /\ req'[p].pc \in {"delRefresh", "trl"}
      <4>1. /\ req'[p].op = req[p].op /\ req'[p].sess = x[1] /\ req'[p].jti = x[2]
            /\ req'[p].todo = rest
            /\ req'[p].pc = IF x[2] = None THEN "delRefresh" ELSE "trl"
        BY <3>1 DEF Revoking
      <4>2. x[1] # None
        BY <1>2, IdsAssumption
      <4>3. QED
        BY ZenonT(30), <1>2, <1>3, <1>4, <4>1, <4>2 DEF TokenRequest, OtherRequest, At, Minted
    <3>3. QED
      BY <3>1, <3>2, Zenon DEF QuietRequest, At
  <2>3. QED
    BY ZenonT(30), <1>1, <2>1, <2>2 DEF rest
<1>6. QED
  BY ZenonT(30), <1>a, <1>1, <1>2, <1>3, <1>5, RevokeIfActiveShrinks, RevokeStep

\* DeleteRefreshTokens keeps the invariant.
LEMMA DeleteRefreshTokensStep ==
  ASSUME IInv, TypeOK', NEW p \in Proc, DeleteRefreshTokens(p)
  PROVE  IInv'
<1>a. /\ TypeOK /\ MintedFrom /\ Referential /\ Requests /\ req[p] \in Request
      /\ TokenRequest(p) /\ OtherRequest(p)
  BY RequestFacts
<1> DEFINE T == IF UNCHANGED refresh THEN {} ELSE {t \in Tok : refresh[t].sess = req[p].sess}
<1>1. req[p].pc = "delRefresh" /\ UNCHANGED <<now, sessions, codes, access, trl>>
  BY Zenon DEF DeleteRefreshTokens
<1>2. T \subseteq {t \in Tok : Stored(refresh[t].st)}
  BY ZenonT(30), <1>a, <1>1 DEF OtherRequest, Referential
<1>3. DropTokens(T)
  BY <1>a, Zenon DEF DeleteRefreshTokens, DeleteRefreshOf, DropTokens, TypeOK
<1> HIDE DEF T
<1>4. /\ \A q \in Proc : q # p => req'[q] = req[q]
      /\ TokenRequest(p)' /\ OtherRequest(p)' /\ req'[p].pc \in {"idle", "revoke"}
  BY ZenonT(30), <1>a, <1>1, NextSessionRequest DEF DeleteRefreshTokens, OtherRequest
<1>5. \A q \in Proc : req'[q] = req[q] \/ QuietRequest(q)
  BY <1>4, Zenon DEF QuietRequest, At
<1>6. QED
  BY ZenonT(30), <1>1, <1>2, <1>3, <1>5, DropTokensStep

\* DeleteSessionsByUser keeps the invariant.
LEMMA DeleteSessionsByUserStep ==
  ASSUME IInv, TypeOK', NEW p \in Proc, DeleteSessionsByUser(p)
  PROVE  IInv'
<1>a. /\ TypeOK /\ MintedFrom /\ Referential /\ Requests /\ req[p] \in Request
      /\ TokenRequest(p) /\ OtherRequest(p)
  BY RequestFacts
<1>1. /\ MovedTo(p, "delUser") /\ req[p].pc = "delSessions" /\ UNCHANGED <<now, access, trl>>
      /\ DeleteSessionRows(SessionsOf(req[p].user))
  BY <1>a, GotoMoves, Zenon DEF DeleteSessionsByUser
<1>2. TokenRequest(p)' /\ OtherRequest(p)'
  BY ZenonT(30), <1>a, <1>1 DEF MovedTo, TokenRequest, OtherRequest, At, Minted
<1>3. \A q \in Proc : req'[q] = req[q] \/ QuietRequest(q)
  BY ZenonT(30), <1>1, <1>2 DEF MovedTo, QuietRequest, At
<1>4. SessionsOf(req[p].user) \subseteq {s \in Session : HasRow(s)}
  BY Zenon DEF SessionsOf
<1>5. QED
  BY <1>1, <1>3, <1>4, DeleteRowsStep

\* DeleteUserRow keeps the invariant.
LEMMA DeleteUserRowStep ==
  ASSUME IInv, TypeOK', NEW p \in Proc, DeleteUserRow(p)
  PROVE  IInv'
<1>a. /\ TypeOK /\ MintedFrom /\ Referential /\ Requests /\ req[p] \in Request
      /\ TokenRequest(p) /\ OtherRequest(p)
  BY RequestFacts
<1>1. UNCHANGED <<now, access, trl>> /\ DeleteSessionRows(SessionsOf(req[p].user)) /\ Return(p)
  BY Zenon DEF DeleteUserRow
<1>2. \A q \in Proc : req'[q] = req[q] \/ QuietRequest(q)
  BY <1>a, <1>1, ReturnEffect, Zenon DEF QuietRequest, At
<1>3. SessionsOf(req[p].user) \subseteq {s \in Session : HasRow(s)}
  BY Zenon DEF SessionsOf
<1>4. QED
  BY <1>1, <1>2, <1>3, DeleteRowsStep
-----------------------------------------------------------------------------
(* Steps that issue: a session, a code, a refresh token, an access token. *)

\* What no step undoes.
Monotone ==
  /\ now' = now
  /\ \A g \in Grant : Spent(g) => Spent(g)'
  /\ \A s \in Session : codes[s].st # "free" => codes'[s].st # "free"
  /\ \A t \in Tok : Minted(t) => access'[t] = access[t]
  /\ \A s \in Session :
       /\ sessions[s].st # "free" => sessions'[s].st # "free"
       /\ sessions[s].st \in {"active", "revoked", "gone"} =>
            sessions'[s].st \in {"active", "revoked", "gone"}
       /\ sessions[s].st \in {"revoked", "gone"} => sessions'[s] = sessions[s]

\* The requests that did not move keep what they hold.
LEMMA OthersKeep ==
  ASSUME IInv, Monotone, NEW q \in Proc, req'[q] = req[q],
         req[q].pc = "advance" => \A t \in Tok : access'[t].parent # req[q].grant,
         req[q].pc = "create" => refresh'[req[q].jti].st = "free",
         req[q].pc = "code" /\ sessions'[req[q].sess].st \in {"pending_consent", "active", "revoked"}
           => codes'[req[q].sess].st = "free"
  PROVE  TokenRequest(q)' /\ OtherRequest(q)'
<1>a. TypeOK /\ req[q] \in Request /\ TokenRequest(q) /\ OtherRequest(q)
  BY RequestFacts
<1>1. TokenRequest(q)'
  <2> SUFFICES ASSUME req[q].op \in {"exchange", "refresh"} PROVE TokenRequest(q)'
    BY ZenonT(30) DEF TokenRequest
  <2>1. req[q].sess \in Session /\ req[q].grant \in Grant
    BY ZenonT(30), <1>a DEF TokenRequest, Request, Grant
  <2>2. req[q].at <= now' /\ codes'[req[q].sess].st # "free"
    BY ZenonT(30), <1>a, <2>1 DEF TokenRequest, Monotone
  <2>3. req[q].op = "refresh" => access'[req[q].grant].sess = req[q].sess
    BY <1>a, Zenon DEF TokenRequest, Monotone, Minted
  <2>4. req[q].pc = "advance" => Spent(req[q].grant)'
    BY ZenonT(30), <1>a, <2>1 DEF TokenRequest, Monotone
  <2>5. req[q].pc = "create" => /\ req[q].jti \in Tok
                                /\ access'[req[q].jti].sess = req[q].sess
                                /\ sessions'[req[q].sess].st \in {"active", "revoked", "gone"}
    BY ZenonT(30), <1>a, <2>1 DEF TokenRequest, Monotone, Minted, Request
  <2>6. QED
    BY <1>a, <2>2, <2>3, <2>4, <2>5, IdsAssumption, Zenon DEF TokenRequest
<1>2. OtherRequest(q)'
  <2>1. req[q].pc = "code" => sessions'[req[q].sess].st # "free"
    BY ZenonT(30), <1>a DEF OtherRequest, Monotone, Request
  <2>2. req[q].pc = "trl" => Minted(req[q].jti)'
    BY ZenonT(30), <1>a DEF OtherRequest, Monotone, Request, Minted
  <2>3. \A x \in req[q].todo : x[2] # None => Minted(x[2])'
    BY <1>a DEF OtherRequest, Monotone, Request, Minted
  <2>4. At(q, {"revokeSession"}, "trl") => sessions'[req[q].sess].st \in {"revoked", "gone"}
    BY ZenonT(30), <1>a DEF OtherRequest, Monotone, Request, At
  <2>5. QED
    BY ZenonT(30), <1>a, <2>1, <2>2, <2>3, <2>4 DEF OtherRequest, HasRow, At
<1>3. QED
  BY <1>1, <1>2

\* A listing on its way stays the latest: its session is revoked or gone.
LEMMA LatestKeeps ==
  ASSUME IInv, Monotone, NEW p \in Proc, \A q \in Proc : q # p => req'[q] = req[q],
         req'[p].pc # "trl"
  PROVE  RevokeSessionListsLatest'
<1> SUFFICES ASSUME NEW q \in Proc, (At(q, {"revokeSession"}, "trl"))', HasRow(req[q].sess)'
             PROVE  req'[q].jti = sessions'[req'[q].sess].jti
  BY Zenon DEF RevokeSessionListsLatest
<1>1. req'[q] = req[q] /\ At(q, {"revokeSession"}, "trl")
  BY Zenon DEF At
<1>2. req[q].sess \in Session /\ sessions[req[q].sess].st \in {"revoked", "gone"}
  BY <1>1, RequestFacts, Zenon DEF OtherRequest, Request, At
<1>3. sessions'[req[q].sess] = sessions[req[q].sess]
  BY <1>2, Zenon DEF Monotone
<1>4. QED
  BY <1>1, <1>3, Zenon DEF IInv, RevokeSessionListsLatest, HasRow

\* CreateSession keeps the invariant.
LEMMA CreateSessionStep ==
  ASSUME IInv, TypeOK', NEW p \in Proc, CreateSession(p)
  PROVE  IInv'
<1>a. /\ TypeOK /\ MintedFrom /\ Referential /\ Requests /\ req[p] \in Request
      /\ TokenRequest(p) /\ OtherRequest(p)
  BY RequestFacts
<1>1. PICK s \in Session :
        /\ sessions[s].st = "free"
        /\ sessions' = [sessions EXCEPT ![s] = [st |-> "pending_consent",
             user |-> req[p].user, jti |-> None, exp |-> req[p].at + SessionTTL]]
        /\ req' = [req EXCEPT ![p] = [@ EXCEPT !.sess = s, !.pc = "code"]]
  BY ZenonT(30) DEF CreateSession
<1>2. req[p].pc = "session" /\ UNCHANGED <<now, codes, refresh, access, trl>>
  BY Zenon DEF CreateSession
<1>3. /\ sessions'[s].st = "pending_consent" /\ sessions'[s].jti = None
      /\ \A r \in Session : r # s => sessions'[r] = sessions[r]
  BY <1>a, <1>1, Zenon DEF TypeOK
<1>4. /\ \A q \in Proc : q # p => req'[q] = req[q]
      /\ req'[p].sess = s /\ req'[p].pc = "code" /\ req'[p].op = req[p].op
      /\ req'[p].todo = req[p].todo
  BY <1>a, <1>1, Zenon DEF TypeOK, Request
<1>5. Monotone
  BY <1>1, <1>2, <1>3, Zenon DEF Monotone, Spent
<1>6. MintedFrom' /\ ListOutlives' /\ SingleUse'
  BY <1>2 DEF IInv, MintedFrom, ListOutlives, SingleUse, Minted, Spent
<1>7. Referential'
  BY <1>a, <1>2, <1>3, Zenon DEF Referential, Minted
<1>8. ASSUME NEW q \in Proc, q # p PROVE TokenRequest(q)' /\ OtherRequest(q)'
  <2>1. req'[q] = req[q] /\ TokenRequest(q) /\ OtherRequest(q)
    BY <1>4, <1>8, RequestFacts
  <2>2. req[q].pc = "create" => refresh'[req[q].jti].st = "free"
    BY ZenonT(30), <1>2, <2>1 DEF TokenRequest, OtherRequest
  <2>3. req[q].pc = "advance" => \A t \in Tok : access'[t].parent # req[q].grant
    BY ZenonT(30), <1>2, <2>1 DEF TokenRequest, OtherRequest
  <2>4. req[q].pc = "code" => req[q].sess # s /\ req[q].sess \in Session
    BY <1>1, <2>1, RequestFacts, Zenon DEF OtherRequest, Request
  <2>5. QED
    BY ZenonT(30), <1>2, <1>3, <1>5, <2>1, <2>2, <2>3, <2>4, OthersKeep DEF OtherRequest, HasRow
<1>9. TokenRequest(p)' /\ OtherRequest(p)'
  <2>1. codes'[s].st = "free" /\ s # None
    BY <1>a, <1>1, <1>2, IdsAssumption, Zenon DEF Referential
  <2>2. QED
    BY ZenonT(30), <1>a, <1>2, <1>3, <1>4, <2>1 DEF TokenRequest, OtherRequest, At, Minted
<1>10. Requests'
  <2>1. ASSUME NEW q \in Proc, q # p, req[q].pc = "code" PROVE req[q].sess # s
    BY <1>1, <2>1, RequestFacts, Zenon DEF OtherRequest
  <2>2. QED
    BY ZenonT(30), <1>a, <1>4, <1>8, <1>9, <2>1 DEF Requests
<1>11. OneCredential'
  <2>1. ASSUME NEW r \in Session PROVE Credentials(r)' \subseteq Credentials(r)
    BY <1>2, <1>4, Zenon DEF Credentials
  <2>2. QED
    BY <2>1, Zenon DEF IInv, OneCredential
<1>12. ActivationOrder'
  <2>1. \A t \in Tok : Stored(refresh[t].st) =>
           refresh[t].sess \in Session /\ refresh[t].sess # s
    BY <1>1, <1>a DEF IInv, ActivationOrder, Referential, TypeOK, RefreshRow
  <2>2. QED
    BY <1>2, <1>3, <2>1, Zenon DEF IInv, ActivationOrder
<1>13. RevokeSessionListsLatest'
  BY <1>4, <1>5, LatestKeeps
<1>14. QED
  BY <1>6, <1>7, <1>10, <1>11, <1>12, <1>13, Zenon DEF IInv

\* CreateCode keeps the invariant.
LEMMA CreateCodeStep ==
  ASSUME IInv, TypeOK', NEW p \in Proc, CreateCode(p)
  PROVE  IInv'
<1>a. /\ TypeOK /\ MintedFrom /\ Referential /\ Requests /\ req[p] \in Request
      /\ TokenRequest(p) /\ OtherRequest(p)
  BY RequestFacts
<1>1. /\ req[p].pc = "code" /\ HasRow(req[p].sess) /\ Return(p)
      /\ UNCHANGED <<now, sessions, refresh, access, trl>>
  BY Zenon DEF CreateCode
<1>2. PICK s \in Session : s = req[p].sess /\ codes[s].st = "free"
  BY ZenonT(30), <1>a, <1>1 DEF OtherRequest, Request
<1>3. codes'[s].st = "unused" /\ \A r \in Session : r # s => codes'[r] = codes[r]
  BY ZenonT(30), <1>a, <1>2 DEF CreateCode, TypeOK
<1>4. /\ \A q \in Proc : q # p => req'[q] = req[q]
      /\ TokenRequest(p)' /\ OtherRequest(p)' /\ req'[p].pc = "idle"
  BY ZenonT(30), <1>a, <1>1, ReturnEffect
<1>5. Monotone
  BY <1>1, <1>2, <1>3, Zenon DEF Monotone, Spent, Grant
<1>6. MintedFrom'
  <2>1. \A t \in Tok : Minted(t) => access[t].sess \in Session /\ access[t].sess # s
    <3>1. ASSUME NEW t \in Tok, access[t].sess # None PROVE access[t].sess \in Session
      BY <1>a, <3>1, Zenon DEF TypeOK, AccessToken
    <3>2. ASSUME NEW t \in Tok, Minted(t) PROVE codes[access[t].sess].st # "free"
      BY ZenonT(30), <1>a, <3>2 DEF MintedFrom
    <3>3. QED
      BY ZenonT(30), <1>2, <3>1, <3>2 DEF Minted
  <2>2. QED
    BY ZenonT(30), <1>a, <1>1, <1>3, <1>5, <2>1 DEF MintedFrom, Minted, Monotone
<1>7. Referential' /\ ListOutlives' /\ SingleUse'
  BY ZenonT(30), <1>a, <1>1, <1>2, <1>3 DEF IInv, Referential, ListOutlives, SingleUse, Minted, HasRow
<1>8. ASSUME NEW q \in Proc, q # p PROVE TokenRequest(q)' /\ OtherRequest(q)'
  <2>1. req'[q] = req[q] /\ TokenRequest(q) /\ OtherRequest(q)
    BY ZenonT(30), <1>4, <1>8, RequestFacts
  <2>2. req[q].pc = "create" => refresh'[req[q].jti].st = "free"
    BY ZenonT(30), <1>1, <2>1 DEF TokenRequest, OtherRequest
  <2>3. req[q].pc = "advance" => \A t \in Tok : access'[t].parent # req[q].grant
    BY ZenonT(30), <1>1, <2>1 DEF TokenRequest, OtherRequest
  <2>4. req[q].pc = "code" => req[q].sess # s /\ req[q].sess \in Session
    BY ZenonT(30), <1>a, <1>1, <1>2, <1>8, <2>1, RequestFacts DEF Requests, OtherRequest, Request
  <2>5. QED
    BY ZenonT(30), <1>1, <1>3, <1>5, <2>1, <2>2, <2>3, <2>4, OthersKeep DEF OtherRequest, HasRow
<1>9. Requests'
  BY ZenonT(30), <1>a, <1>4, <1>8 DEF Requests
<1>10. OneCredential'
  <2>1. ASSUME NEW r \in Session, r # s PROVE Credentials(r)' \subseteq Credentials(r)
    BY <1>1, <1>3, <1>4, <2>1, Zenon DEF Credentials
  <2>2. Credentials(s)' \subseteq {s}
    <3>1. ASSUME NEW t \in Tok, refresh[t].sess = s PROVE FALSE
      <4>1. Minted(t) /\ access[t].sess = s
        BY <1>a, <1>2, <3>1, IdsAssumption, Zenon DEF Referential
      <4>2. QED
        BY ZenonT(30), <1>a, <1>2, <4>1 DEF MintedFrom
    <3>2. ASSUME NEW q \in Proc, q # p, req[q].pc \in {"advance", "create"}, req[q].sess = s
          PROVE  FALSE
      BY ZenonT(30), <1>2, <3>2, RequestFacts DEF TokenRequest, OtherRequest
    <3>3. QED
      BY <1>1, <1>4, <3>1, <3>2, Zenon DEF Credentials
  <2>3. QED
    BY <2>1, <2>2, Zenon DEF IInv, OneCredential
<1>11. ActivationOrder'
  <2>1. sessions[s].st # "active"
    BY ZenonT(30), <1>2 DEF IInv, ActivationOrder
  <2>2. QED
    BY ZenonT(30), <1>1, <1>3, <2>1 DEF IInv, ActivationOrder
<1>12. RevokeSessionListsLatest'
  BY <1>4, <1>5, LatestKeeps
<1>13. QED
  BY <1>6, <1>7, <1>9, <1>10, <1>11, <1>12, Zenon DEF IInv

\* A code or a refresh token is consumed: the request takes its place as the
\* session's credential.
LEMMA ConsumeStep ==
  ASSUME IInv, TypeOK', NEW p \in Proc, req[p].pc = "consume", MovedTo(p, "advance"),
         UNCHANGED <<now, sessions, access, trl>>, NEW g \in Grant, g = req[p].grant,
         g \in Session => /\ codes[g].st = "unused" /\ codes'[g].st = "used"
                          /\ \A r \in Session : r # g => codes'[r] = codes[r]
                          /\ refresh' = refresh /\ req[p].op = "exchange",
         g \in Tok => /\ refresh[g].st = "unused" /\ refresh'[g].st = "used"
                      /\ refresh'[g].sess = refresh[g].sess
                      /\ \A t \in Tok : t # g => refresh'[t] = refresh[t]
                      /\ codes' = codes /\ req[p].op = "refresh"
  PROVE  IInv'
<1>a. /\ TypeOK /\ MintedFrom /\ Referential /\ Requests /\ req[p] \in Request
      /\ TokenRequest(p) /\ OtherRequest(p)
  BY RequestFacts
<1>b. PICK s \in Session : s = req[p].sess
  BY ZenonT(30), <1>a DEF OtherRequest, Request
<1>c. (g \in Session => g = s) /\ (g \in Tok => refresh[g].sess = s)
  BY ZenonT(30), <1>a, <1>b DEF TokenRequest, Referential, Stored
<1>d. \A q \in Proc : q # p => req'[q] = req[q]
  BY ZenonT(30) DEF MovedTo
<1>1. Monotone /\ Spent(g)' /\ ~Spent(g)
  BY IdsAssumption, Zenon DEF Monotone, Spent, Grant
<1>2. MintedFrom'
  <2>1. ASSUME NEW t \in Tok, ~Minted(t) PROVE refresh'[t].st = "free"
    BY ZenonT(30), <1>a, <2>1, IdsAssumption DEF MintedFrom, Grant
  <2>2. \A t \in Tok : Minted(t) => access[t].sess \in Session
    BY <1>a, Zenon DEF TypeOK, AccessToken, Minted
  <2>3. QED
    BY ZenonT(30), <1>a, <1>1, <2>1, <2>2 DEF MintedFrom, Minted, Monotone
<1>3. Referential'
  <2>1. ASSUME NEW t \in Tok
        PROVE  (Stored(refresh'[t].st) <=> Stored(refresh[t].st)) /\ refresh'[t].sess = refresh[t].sess
    BY <2>1, IdsAssumption, Zenon DEF Stored, Grant
  <2>2. ASSUME NEW r \in Session, sessions[r].st = "free" PROVE codes'[r].st = "free"
    BY ZenonT(30), <1>a, <2>2, IdsAssumption DEF Referential, Grant
  <2>3. QED
    BY ZenonT(30), <1>a, <2>1, <2>2 DEF Referential, Minted
<1>4. ListOutlives' /\ SingleUse'
  BY ZenonT(30) DEF IInv, ListOutlives, SingleUse, Minted
<1>5. ASSUME NEW q \in Proc, q # p PROVE TokenRequest(q)' /\ OtherRequest(q)'
  <2>1. req'[q] = req[q] /\ TokenRequest(q) /\ OtherRequest(q)
    BY ZenonT(30), <1>d, <1>5, RequestFacts
  <2>2. req[q].pc = "create" => refresh'[req[q].jti].st = "free"
    BY ZenonT(30), <2>1, RequestFacts, IdsAssumption DEF TokenRequest, OtherRequest, Request, Grant
  <2>3. req[q].pc = "advance" => \A t \in Tok : access'[t].parent # req[q].grant
    BY ZenonT(30), <2>1 DEF TokenRequest, OtherRequest
  <2>4. req[q].pc = "code" /\ HasRow(req[q].sess) => codes'[req[q].sess].st = "free"
    BY ZenonT(30), <2>1, RequestFacts, IdsAssumption DEF OtherRequest, Request, Grant
  <2>5. QED
    BY ZenonT(30), <1>1, <2>1, <2>2, <2>3, <2>4, OthersKeep DEF HasRow
<1>6. TokenRequest(p)' /\ OtherRequest(p)'
  <2>1. \A t \in Tok : access[t].parent # g
    BY ZenonT(30), <1>a, <1>1, IdsAssumption DEF MintedFrom, Grant
  <2>2. codes'[req[p].sess].st # "free"
    BY ZenonT(30), <1>a, <1>b, <1>1 DEF TokenRequest, OtherRequest, Monotone
  <2>3. Spent(req[p].grant)'
    BY ZenonT(30), <1>1 DEF MovedTo
  <2>4. QED
    BY ZenonT(30), <1>a, <2>1, <2>2, <2>3 DEF MovedTo, TokenRequest, OtherRequest, At, Minted
<1>7. Requests'
  BY ZenonT(30), <1>a, <1>5, <1>6 DEF Requests, MovedTo
<1>8. OneCredential'
  <2>1. ASSUME NEW r \in Session, r # s PROVE Credentials(r)' \subseteq Credentials(r)
    <3>1. codes'[r].st = codes[r].st
      BY ZenonT(30), <1>c, <2>1, IdsAssumption DEF Grant
    <3>2. ASSUME NEW t \in Tok, refresh'[t].sess = r, refresh'[t].st = "unused"
          PROVE  refresh[t].sess = r /\ refresh[t].st = "unused"
      BY <1>c, <2>1, <3>2, IdsAssumption, Zenon DEF Grant
    <3>3. ASSUME NEW q \in Proc, req'[q].sess = r
          PROVE  req'[q] = req[q]
      BY ZenonT(30), <1>b, <1>d, <2>1, <3>3 DEF MovedTo
    <3>4. QED
      BY ZenonT(30), <3>1, <3>2, <3>3 DEF Credentials
  <2>2. Credentials(s)' \subseteq {p}
    <3>1. g \in Credentials(s)
      BY ZenonT(30), <1>c, IdsAssumption DEF Credentials, Grant
    <3>2. Credentials(s) \subseteq {g}
      BY ZenonT(30), <3>1 DEF IInv, OneCredential
    <3>3. Credentials(s)' \subseteq (Credentials(s) \ {g}) \cup {p}
      BY <1>b, <1>c, IdsAssumption DEF Credentials, MovedTo, Grant
    <3>4. QED
      BY ZenonT(30), <3>2, <3>3
  <2>3. QED
    BY <2>1, <2>2 DEF IInv, OneCredential
<1>9. ActivationOrder'
  <2>1. ASSUME NEW r \in Session, sessions[r].st = "active" PROVE codes'[r].st \in {"used", "gone"}
    BY ZenonT(30), <2>1, IdsAssumption DEF IInv, ActivationOrder, Grant
  <2>2. ASSUME NEW t \in Tok, Stored(refresh'[t].st)
        PROVE  sessions[refresh'[t].sess].st \in {"active", "revoked"}
    BY ZenonT(30), <2>2, IdsAssumption DEF IInv, ActivationOrder, Grant, Stored
  <2>3. QED
    BY ZenonT(30), <2>1, <2>2 DEF ActivationOrder
<1>10. RevokeSessionListsLatest'
  BY ZenonT(30), <1>1, <1>d, LatestKeeps DEF MovedTo
<1>11. QED
  BY <1>2, <1>3, <1>4, <1>7, <1>8, <1>9, <1>10, Zenon DEF IInv

\* The used flag is found set: the request goes on to revoke the session.
LEMMA ReplayMoveStep ==
  ASSUME IInv, TypeOK', NEW p \in Proc, req[p].pc = "consume", Goto(p, "replay"),
         UNCHANGED <<now, sessions, codes, refresh, access, trl>>
  PROVE  IInv'
<1>a. TypeOK /\ req[p] \in Request /\ TokenRequest(p) /\ OtherRequest(p)
  BY RequestFacts
<1>1. MovedTo(p, "replay")
  BY <1>a, GotoMoves
<1>2. TokenRequest(p)'
  BY ZenonT(30), <1>a, <1>1 DEF MovedTo, TokenRequest, Spent
<1>3. OtherRequest(p)'
  BY ZenonT(30), <1>a, <1>1 DEF MovedTo, TokenRequest, OtherRequest, At, Minted
<1>4. QED
  BY <1>1, <1>2, <1>3, QuietStep, Zenon DEF MovedTo, At

\* ConsumeCode keeps the invariant.
LEMMA ConsumeCodeStep ==
  ASSUME IInv, TypeOK', NEW p \in Proc, ConsumeCode(p)
  PROVE  IInv'
<1>a. TypeOK /\ req[p] \in Request /\ TokenRequest(p) /\ OtherRequest(p)
  BY RequestFacts
<1>1. /\ req[p].pc = "consume" /\ req[p].op = "exchange"
      /\ UNCHANGED <<now, sessions, refresh, access, trl>>
  BY Zenon DEF ConsumeCode, At
<1>2. PICK g \in Session : g = req[p].grant
  BY <1>a, <1>1, Zenon DEF TokenRequest, Request
<1>3. CASE Goto(p, "replay") /\ UNCHANGED codes
  BY <1>1, <1>3, ReplayMoveStep
<1>4. CASE /\ ValidateForConsume(codes[g], req[p].at) = "ok"
           /\ codes' = [codes EXCEPT ![g].st = "used"]
           /\ Goto(p, "advance")
  <2>1. codes[g].st = "unused"
    BY <1>2, <1>4, Zenon DEF ConsumeCode, ValidateForConsume, Stored
  <2>2. codes'[g].st = "used" /\ \A r \in Session : r # g => codes'[r] = codes[r]
    BY <1>a, <1>4 DEF TypeOK, CodeRow
  <2>3. MovedTo(p, "advance") /\ g \in Grant /\ g \notin Tok
    BY <1>a, <1>4, GotoMoves, IdsAssumption, Zenon DEF Grant
  <2>4. QED
    BY <1>1, <1>2, <2>1, <2>2, <2>3, ConsumeStep
<1>5. QED
  BY <1>2, <1>3, <1>4, Zenon DEF ConsumeCode

\* ConsumeRefreshToken keeps the invariant.
LEMMA ConsumeRefreshTokenStep ==
  ASSUME IInv, TypeOK', NEW p \in Proc, ConsumeRefreshToken(p)
  PROVE  IInv'
<1>a. TypeOK /\ req[p] \in Request /\ TokenRequest(p) /\ OtherRequest(p)
  BY RequestFacts
<1>1. /\ req[p].pc = "consume" /\ req[p].op = "refresh"
      /\ UNCHANGED <<now, sessions, codes, access, trl>>
  BY Zenon DEF ConsumeRefreshToken, At
<1>2. PICK g \in Tok : g = req[p].grant
  BY <1>a, <1>1, Zenon DEF TokenRequest, Request
<1>3. CASE Goto(p, "replay") /\ UNCHANGED refresh
  BY <1>1, <1>3, ReplayMoveStep
<1>4. CASE /\ ValidateForConsume(refresh[g], req[p].at) = "ok"
           /\ refresh' = [refresh EXCEPT ![g].st = "used"]
           /\ Goto(p, "advance")
  <2>1. refresh[g].st = "unused"
    BY <1>2, <1>4, Zenon DEF ConsumeRefreshToken, ValidateForConsume, Stored
  <2>2. /\ refresh'[g].st = "used" /\ refresh'[g].sess = refresh[g].sess
        /\ \A t \in Tok : t # g => refresh'[t] = refresh[t]
    BY <1>a, <1>4 DEF TypeOK, RefreshRow
  <2>3. MovedTo(p, "advance") /\ g \in Grant /\ g \notin Session
    BY <1>a, <1>4, GotoMoves, IdsAssumption, Zenon DEF Grant
  <2>4. QED
    BY <1>1, <1>2, <2>1, <2>2, <2>3, ConsumeStep
<1>5. QED
  BY <1>2, <1>3, <1>4, Zenon DEF ConsumeRefreshToken

\* Two requests that present one grant are of one session.
LEMMA GrantNamesSession ==
  ASSUME IInv, NEW p \in Proc, NEW q \in Proc, req[p].grant = req[q].grant,
         req[p].pc = "advance", req[q].pc = "advance"
  PROVE  p = q
<1>a. /\ req[p] \in Request /\ TokenRequest(p) /\ OtherRequest(p)
      /\ req[q] \in Request /\ TokenRequest(q) /\ OtherRequest(q)
  BY RequestFacts
<1>1. req[p].sess \in Session /\ req[p].sess = req[q].sess
  BY ZenonT(30), <1>a, IdsAssumption DEF TokenRequest, OtherRequest, Request
<1>2. p \in Credentials(req[p].sess) /\ q \in Credentials(req[p].sess)
  BY ZenonT(30), <1>1 DEF Credentials
<1>3. QED
  BY <1>1, <1>2, Zenon DEF IInv, OneCredential

\* AdvanceSession keeps the invariant.
LEMMA AdvanceSessionStep ==
  ASSUME IInv, TypeOK', NEW p \in Proc, AdvanceSession(p)
  PROVE  IInv'
<1>a. /\ TypeOK /\ MintedFrom /\ Referential /\ Requests /\ req[p] \in Request
      /\ TokenRequest(p) /\ OtherRequest(p)
  BY RequestFacts
<1>1. PICK t \in Tok :
        /\ ~Minted(t)
        /\ sessions' = [sessions EXCEPT ![req[p].sess] = Advanced(sessions[req[p].sess], t)]
        /\ access' = [access EXCEPT ![t] = [sess |-> req[p].sess, parent |-> req[p].grant,
                                            exp |-> req[p].at + TokenTTL]]
        /\ req' = [req EXCEPT ![p] = [@ EXCEPT !.jti = t, !.pc = "create"]]
  BY ZenonT(30) DEF AdvanceSession, IssuedJTI, AccessExpiry
<1>2. /\ req[p].pc = "advance" /\ UNCHANGED <<now, codes, refresh, trl>>
      /\ ValidateForAdvance(sessions[req[p].sess], req[p].at, req[p].op = "exchange")
  BY Zenon DEF AdvanceSession
<1>3. PICK s \in Session : s = req[p].sess
  BY ZenonT(30), <1>a, <1>2 DEF OtherRequest, Request
<1>4. /\ sessions[s].st \in {"pending_consent", "active"}
      /\ sessions'[s].st = "active" /\ sessions'[s].jti = t
      /\ \A r \in Session : r # s => sessions'[r] = sessions[r]
  BY <1>a, <1>1, <1>2, <1>3, Zenon DEF ValidateForAdvance, Advanced, TypeOK, SessionRow
<1>5. /\ access'[t].sess = s /\ access'[t].parent = req[p].grant
      /\ access'[t].exp = req[p].at + TokenTTL
      /\ \A u \in Tok : u # t => access'[u] = access[u]
  BY <1>a, <1>1, <1>3, Zenon DEF TypeOK
<1>6. /\ \A q \in Proc : q # p => req'[q] = req[q]
      /\ req'[p].pc = "create" /\ req'[p].jti = t /\ req'[p].op = req[p].op
      /\ req'[p].sess = s /\ req'[p].grant = req[p].grant /\ req'[p].at = req[p].at
      /\ req'[p].todo = req[p].todo
  BY <1>a, <1>1, <1>3, Zenon DEF TypeOK, Request
<1>7. /\ req[p].grant \in Grant /\ Spent(req[p].grant) /\ codes[s].st # "free"
      /\ \A u \in Tok : access[u].parent # req[p].grant
      /\ req[p].at \in Nat /\ req[p].at <= now
  BY ZenonT(30), <1>a, <1>2, <1>3 DEF TokenRequest, OtherRequest, Request, Grant
<1>8. Monotone
  BY <1>1, <1>2, <1>4, <1>5, Zenon DEF Monotone, Spent
<1>9. MintedFrom'
  <2>1. ASSUME NEW u \in Tok, u # t
        PROVE  /\ ~Minted(u)' => access'[u].parent = None /\ refresh'[u].st = "free"
               /\ Minted(u)' => /\ access'[u].parent \in Grant /\ Spent(access[u].parent)'
                                /\ codes'[access'[u].sess].st # "free"
                                /\ access'[u].exp <= now' + TokenTTL
    BY <1>a, <1>2, <1>5, <1>8, <2>1 DEF MintedFrom, Minted, Monotone
  <2>2. Minted(t)' /\ Spent(access[t].parent)'
    BY ZenonT(30), <1>2, <1>5, <1>7, IdsAssumption DEF Minted, Spent
  <2>3. access'[t].exp <= now' + TokenTTL
    <3>1. now' = now /\ req[p].at <= now /\ access'[t].exp = req[p].at + TokenTTL
      BY ZenonT(30), <1>2, <1>5, <1>7
    <3>2. now \in Nat /\ req[p].at \in Nat
      BY <1>a, Zenon DEF TypeOK, Request
    <3>3. QED
      BY SMT, <3>1, <3>2, TimesAssumption
  <2>4. QED
    BY ZenonT(30), <1>2, <1>5, <1>7, <2>1, <2>2, <2>3 DEF MintedFrom
<1>10. Referential'
  <2>1. ASSUME NEW u \in Tok
        PROVE  /\ Stored(refresh[u].st) <=> refresh[u].sess # None
               /\ refresh[u].sess # None => Minted(u)' /\ refresh[u].sess = access'[u].sess
    BY <1>a, <1>1, <1>5, Zenon DEF Referential, Minted
  <2>2. ASSUME NEW r \in Session
        PROVE  /\ sessions'[r].jti # None => Minted(sessions[r].jti)'
               /\ sessions'[r].st = "free" => codes[r].st = "free"
    <3>1. CASE r = s
      BY <1>4, <1>5, <3>1, IdsAssumption, Zenon DEF Minted
    <3>2. CASE r # s
      <4>1. sessions'[r] = sessions[r] /\ sessions[r].jti \in Tok \cup {None}
        BY <1>a, <1>4, <3>2, Zenon DEF TypeOK, SessionRow
      <4>2. \A u \in Tok : Minted(u) => Minted(u)'
        BY ZenonT(30), <1>8 DEF Monotone, Minted
      <4>3. QED
        BY ZenonT(30), <1>a, <4>1, <4>2 DEF Referential
    <3>3. QED
      BY <3>1, <3>2
  <2>3. QED
    BY ZenonT(30), <1>2, <2>1, <2>2 DEF Referential
<1>11. ListOutlives'
  BY <1>1, <1>2, <1>5, Zenon DEF IInv, ListOutlives, Minted
<1>12. SingleUse'
  <2>1. ASSUME NEW u \in Tok, NEW v \in Tok, u # v, Minted(u)', Minted(v)',
               access'[u].parent = access'[v].parent
        PROVE  FALSE
    <3>1. CASE u # t /\ v # t
      BY <1>5, <2>1, <3>1 DEF IInv, SingleUse, Minted
    <3>2. CASE u = t \/ v = t
      BY ZenonT(30), <1>5, <1>7, <2>1, <3>2
    <3>3. QED
      BY <3>1, <3>2
  <2>2. QED
    BY <2>1, Zenon DEF SingleUse
<1>13. ASSUME NEW q \in Proc, q # p PROVE TokenRequest(q)' /\ OtherRequest(q)'
  <2>1. req'[q] = req[q] /\ TokenRequest(q) /\ OtherRequest(q)
    BY ZenonT(30), <1>6, <1>13, RequestFacts
  <2>2. req[q].pc = "create" => refresh'[req[q].jti].st = "free"
    BY ZenonT(30), <1>2, <2>1 DEF TokenRequest, OtherRequest
  <2>3. req[q].pc = "advance" => \A u \in Tok : access'[u].parent # req[q].grant
    <3>1. req[q].pc = "advance" => req[q].grant # req[p].grant
      BY ZenonT(30), <1>2, <1>13, GrantNamesSession
    <3>2. QED
      BY ZenonT(30), <1>5, <2>1, <3>1 DEF TokenRequest, OtherRequest
  <2>4. req[q].pc = "code" /\ HasRow(req[q].sess) => codes'[req[q].sess].st = "free"
    BY ZenonT(30), <1>2, <2>1 DEF OtherRequest
  <2>5. req[q].pc = "code" /\ sessions'[req[q].sess].st \in {"pending_consent", "active", "revoked"}
          => HasRow(req[q].sess)
    BY ZenonT(30), <1>4, <2>1, RequestFacts DEF HasRow, OtherRequest, Request
  <2>6. QED
    BY ZenonT(30), <1>8, <2>1, <2>2, <2>3, <2>4, <2>5, OthersKeep
<1>14. TokenRequest(p)' /\ OtherRequest(p)'
  <2>1. refresh'[t].st = "free" /\ t # None
    BY <1>a, <1>1, <1>2, IdsAssumption, Zenon DEF MintedFrom
  <2>2. req[p].op = "refresh" => access'[req[p].grant].sess = s
    BY ZenonT(30), <1>a, <1>2, <1>3, <1>8, IdsAssumption DEF TokenRequest, Monotone, Minted
  <2>3. TokenRequest(p)'
    BY ZenonT(30), <1>a, <1>2, <1>3, <1>4, <1>5, <1>6, <1>7, <2>1, <2>2 DEF TokenRequest, OtherRequest
  <2>4. \A x \in req[p].todo : x[2] # None => Minted(x[2])'
    BY ZenonT(30), <1>a, <1>8 DEF OtherRequest, Monotone, Request, Minted
  <2>5. OtherRequest(p)'
    BY ZenonT(30), <1>a, <1>2, <1>3, <1>6, <2>4, IdsAssumption DEF OtherRequest, At
  <2>6. QED
    BY <2>3, <2>5
<1>15. Requests'
  BY ZenonT(30), <1>a, <1>6, <1>13, <1>14 DEF Requests
<1>16. OneCredential'
  <2>1. ASSUME NEW r \in Session PROVE Credentials(r)' \subseteq Credentials(r)
    BY <1>2, <1>3, <1>6 DEF Credentials
  <2>2. QED
    BY <2>1, Zenon DEF IInv, OneCredential
<1>17. ActivationOrder'
  <2>1. codes[s].st \in {"used", "gone"}
    <3>1. CASE sessions[s].st = "active"
      BY <3>1, Zenon DEF IInv, ActivationOrder
    <3>2. CASE sessions[s].st = "pending_consent"
      BY ZenonT(30), <1>a, <1>2, <1>3, <1>7, <3>2 DEF ValidateForAdvance, TokenRequest, Spent
    <3>3. QED
      BY <1>4, <3>1, <3>2
  <2>2. \A u \in Tok : Stored(refresh[u].st) => refresh[u].sess \in Session
    BY ZenonT(30), <1>a DEF Referential, TypeOK, RefreshRow
  <2>3. QED
    BY <1>2, <1>4, <2>1, <2>2, Zenon DEF IInv, ActivationOrder
<1>18. RevokeSessionListsLatest'
  BY ZenonT(30), <1>6, <1>8, LatestKeeps
<1>19. QED
  BY <1>9, <1>10, <1>11, <1>12, <1>15, <1>16, <1>17, <1>18, Zenon DEF IInv

\* CreateRefreshToken keeps the invariant.
LEMMA CreateRefreshTokenStep ==
  ASSUME IInv, TypeOK', NEW p \in Proc, CreateRefreshToken(p)
  PROVE  IInv'
<1>a. /\ TypeOK /\ MintedFrom /\ Referential /\ Requests /\ req[p] \in Request
      /\ TokenRequest(p) /\ OtherRequest(p)
  BY RequestFacts
<1>1. /\ req[p].pc = "create" /\ HasRow(req[p].sess) /\ Return(p)
      /\ UNCHANGED <<now, sessions, codes, access, trl>>
  BY Zenon DEF CreateRefreshToken
<1>2. PICK s \in Session, t \in Tok :
        /\ s = req[p].sess /\ t = req[p].jti /\ refresh[t].st = "free"
        /\ access[t].sess = s /\ sessions[s].st \in {"active", "revoked"}
  BY ZenonT(30), <1>a, <1>1 DEF TokenRequest, OtherRequest, Request, HasRow
<1>3. /\ refresh'[t].st = "unused" /\ refresh'[t].sess = s
      /\ \A u \in Tok : u # t => refresh'[u] = refresh[u]
  BY ZenonT(30), <1>a, <1>2 DEF CreateRefreshToken, TypeOK
<1>4. /\ \A q \in Proc : q # p => req'[q] = req[q]
      /\ TokenRequest(p)' /\ OtherRequest(p)' /\ req'[p].pc = "idle"
  BY ZenonT(30), <1>a, <1>1, ReturnEffect
<1>5. Monotone /\ Minted(t)
  BY ZenonT(30), <1>1, <1>2, <1>3, IdsAssumption DEF Monotone, Spent, Grant, Minted
<1>6. MintedFrom'
  <2>1. \A u \in Tok : Minted(u) => access[u].sess \in Session
    BY <1>a, Zenon DEF TypeOK, AccessToken, Minted
  <2>2. QED
    BY ZenonT(30), <1>a, <1>1, <1>3, <1>5, <2>1 DEF MintedFrom, Minted, Monotone
<1>7. Referential' /\ ListOutlives' /\ SingleUse'
  <2>1. s # None
    BY IdsAssumption
  <2>2. ASSUME NEW u \in Tok
        PROVE  /\ Stored(refresh'[u].st) <=> refresh'[u].sess # None
               /\ refresh'[u].sess # None => Minted(u)' /\ refresh'[u].sess = access'[u].sess
    <3>1. CASE u = t
      BY <1>1, <1>2, <1>3, <1>5, <2>1, <3>1, Zenon DEF Minted, Stored
    <3>2. CASE u # t
      BY ZenonT(30), <1>a, <1>1, <1>3, <3>2 DEF Referential, Minted
    <3>3. QED
      BY <3>1, <3>2
  <2>3. ListOutlives' /\ SingleUse'
    BY ZenonT(30), <1>1 DEF IInv, ListOutlives, SingleUse, Minted
  <2>4. QED
    BY ZenonT(30), <1>a, <1>1, <2>2, <2>3 DEF Referential, Minted
<1>8. ASSUME NEW q \in Proc, q # p PROVE TokenRequest(q)' /\ OtherRequest(q)'
  <2>1. req'[q] = req[q] /\ TokenRequest(q) /\ OtherRequest(q)
    BY ZenonT(30), <1>4, <1>8, RequestFacts
  <2>2. ASSUME req[q].pc = "create" PROVE refresh'[req[q].jti].st = "free"
    <3>1. /\ req[q].jti \in Tok /\ refresh[req[q].jti].st = "free"
          /\ access[req[q].jti].sess = req[q].sess
      BY ZenonT(30), <2>1, <2>2, RequestFacts DEF TokenRequest, OtherRequest, Request
    <3>2. CASE req[q].jti = t
      <4>1. p \in Credentials(s) /\ q \in Credentials(s)
        BY ZenonT(30), <1>1, <1>2, <2>2, <3>1, <3>2 DEF Credentials
      <4>2. QED
        BY ZenonT(30), <1>8, <4>1 DEF IInv, OneCredential
    <3>3. CASE req[q].jti # t
      BY <1>3, <3>1, <3>3
    <3>4. QED
      BY <3>2, <3>3
  <2>3. req[q].pc = "advance" => \A u \in Tok : access'[u].parent # req[q].grant
    BY ZenonT(30), <1>1, <2>1 DEF TokenRequest, OtherRequest
  <2>4. req[q].pc = "code" /\ HasRow(req[q].sess) => codes'[req[q].sess].st = "free"
    BY ZenonT(30), <1>1, <2>1 DEF OtherRequest
  <2>5. QED
    BY ZenonT(30), <1>1, <1>5, <2>1, <2>2, <2>3, <2>4, OthersKeep DEF HasRow
<1>9. Requests'
  BY <1>a, <1>4, <1>8, Zenon DEF Requests
<1>10. OneCredential'
  <2>1. ASSUME NEW r \in Session, r # s PROVE Credentials(r)' \subseteq Credentials(r)
    BY <1>1, <1>3, <1>4, <2>1, Zenon DEF Credentials
  <2>2. Credentials(s)' \subseteq {t}
    <3>1. p \in Credentials(s)
      BY ZenonT(30), <1>1, <1>2 DEF Credentials
    <3>2. Credentials(s) \subseteq {p}
      BY <3>1, Zenon DEF IInv, OneCredential
    <3>3. Credentials(s)' \subseteq (Credentials(s) \ {p}) \cup {t}
      BY <1>1, <1>3, <1>4, IdsAssumption DEF Credentials
    <3>4. QED
      BY <3>2, <3>3
  <2>3. QED
    BY <2>1, <2>2 DEF IInv, OneCredential
<1>11. ActivationOrder'
  BY ZenonT(30), <1>1, <1>2, <1>3 DEF IInv, ActivationOrder
<1>12. RevokeSessionListsLatest'
  BY <1>4, <1>5, LatestKeeps
<1>13. QED
  BY <1>6, <1>7, <1>9, <1>10, <1>11, <1>12, Zenon DEF IInv

-----------------------------------------------------------------------------
(* The invariant and the theorems *)

\* The invariant holds at the start.
LEMMA InitIInv == Init => IInv
<1> SUFFICES ASSUME Init PROVE IInv
  OBVIOUS
<1>1. TypeOK
  BY InitType
<1>2. MintedFrom /\ Referential /\ ListOutlives /\ SingleUse /\ ActivationOrder
  BY DEF Init, MintedFrom, Referential, ListOutlives, SingleUse, ActivationOrder, Minted, Stored
<1>3. \A p \in Proc : req[p] = Idle
  BY Zenon DEF Init
<1>4. Requests
  <2>1. \A p \in Proc : req[p].op = "none" /\ req[p].pc = "idle" /\ req[p].todo = {}
    BY <1>3 DEF Idle, Made
  <2>2. QED
    BY ZenonT(30), <2>1 DEF Requests, TokenRequest, OtherRequest, At
<1>5. OneCredential
  BY ZenonT(30), <1>3 DEF Init, OneCredential, Credentials, Idle, Made
<1>6. RevokeSessionListsLatest
  <2>1. \A p \in Proc : req[p].pc = "idle"
    BY <1>3 DEF Idle, Made
  <2>2. QED
    BY ZenonT(30), <2>1 DEF RevokeSessionListsLatest, At
<1>7. QED
  BY <1>1, <1>2, <1>4, <1>5, <1>6, Zenon DEF IInv

\* A step that changes nothing keeps the invariant.
LEMMA StutterIInv == IInv /\ UNCHANGED vars => IInv'
<1> SUFFICES ASSUME IInv, UNCHANGED vars PROVE IInv'
  OBVIOUS
<1>1. TypeOK'
  BY Zenon DEF IInv, TypeOK, vars
<1>2. Shrinks
  <2>1. now' \in Nat /\ now <= now'
    BY SMT DEF vars, IInv, TypeOK
  <2>2. \A s \in Session : SessionShrinks(s) /\ CodeShrinks(s)
    BY ZenonT(30) DEF vars, SessionShrinks, CodeShrinks
  <2>3. \A t \in Tok : RefreshShrinks(t)
    BY ZenonT(30) DEF vars, RefreshShrinks
  <2>4. QED
    BY ZenonT(30), <2>1, <2>2, <2>3 DEF vars, Shrinks
<1>3. QED
  BY <1>1, <1>2, ShrinkStep

\* Every step keeps the invariant.
LEMMA NextIInv == IInv /\ [Next]_vars => IInv'
<1> SUFFICES ASSUME IInv, [Next]_vars PROVE IInv'
  OBVIOUS
<1>1. TypeOK'
  BY NextType, Zenon DEF IInv
<1>2. ASSUME NEW p \in Proc, Step(p) PROVE IInv'
  BY <1>1, <1>2, LockStep, RejectStep, FindOrCreateUserStep, CreateSessionStep, CreateCodeStep,
     PrepareTokenFlowStep, ConsumeCodeStep, ConsumeRefreshTokenStep, RevokeOnReplayStep,
     AdvanceSessionStep, CreateRefreshTokenStep, ResolveSessionStep, RevokeSessionInternalStep,
     SkipSessionStep, WriteTRLStep, FailTRLStep, DeleteRefreshTokensStep, DeleteSessionsByUserStep,
     DeleteUserRowStep, Zenon DEF Step
<1>3. QED
  BY <1>1, <1>2, CallStep, CleanupPreserves, TickPreserves, StutterIInv, Zenon DEF Next

\* Every reachable state satisfies the inductive invariant.
THEOREM Invariance == Spec => []IInv
BY InitIInv, NextIInv, PTL DEF Spec

\* The tables and the program counters keep their types; in particular the JTI
\* a session row remembers is one the token service issued (TypeOK).
THEOREM TypeCorrect == Spec => []TypeOK
<1>1. IInv => TypeOK
  BY Zenon DEF IInv
<1>2. QED
  BY <1>1, Invariance, PTL

\* However many requests, servers and cleanup runs interleave, no authorization
\* code and no refresh token is exchanged for two access tokens (SingleUse).
THEOREM GrantsAreSingleUse == Spec => []SingleUse
<1>1. IInv => SingleUse
  BY Zenon DEF IInv
<1>2. QED
  BY <1>1, Invariance, PTL

\* A session never has two credentials from which tokens can be issued: rotation
\* keeps one chain per login (OneCredential).
THEOREM RotationIsLinear == Spec => []OneCredential
<1>1. IInv => OneCredential
  BY Zenon DEF IInv
<1>2. QED
  BY <1>1, Invariance, PTL

\* Sessions are activated by their code and get refresh tokens only afterwards,
\* also when requests die half-way or rows are deleted (ActivationOrder).
THEOREM ActivationIsOrdered == Spec => []ActivationOrder
<1>1. IInv => ActivationOrder
  BY Zenon DEF IInv
<1>2. QED
  BY <1>1, Invariance, PTL

\* An access token that was put on the revocation list is never accepted again:
\* the entry does not expire before the token does (ListedTokenRefused).
THEOREM ListedStaysRefused == Spec => []ListedTokenRefused
<1>1. IInv => ListedTokenRefused
  <2> SUFFICES ASSUME IInv, NEW t \in Tok, trl[t] > 0 PROVE ~Accepted(t)
    BY Zenon DEF ListedTokenRefused
  <2>1. access[t].exp <= trl[t] /\ access[t].exp \in Nat /\ trl[t] \in Nat /\ now \in Nat
    BY Zenon DEF IInv, ListOutlives, TypeOK, AccessToken
  <2>2. QED
    BY <2>1 DEF Accepted, IsRevoked
<1>2. QED
  BY <1>1, Invariance, PTL

\* The JTI RevokeSession is about to list is the session's latest: nothing is
\* issued for a session whose row is revoked (RevokeSessionListsLatest).
THEOREM RevocationListsLatest == Spec => []RevokeSessionListsLatest
<1>1. IInv => RevokeSessionListsLatest
  BY Zenon DEF IInv
<1>2. QED
  BY <1>1, Invariance, PTL

\* The steps that write session rows.
WritesSessions ==
  \/ \E p \in Proc : CreateSession(p) \/ RevokeOnReplay(p) \/ AdvanceSession(p)
                      \/ RevokeSessionInternal(p) \/ DeleteSessionsByUser(p) \/ DeleteUserRow(p)
  \/ \E p \in Proc, u \in User, s \in Session : RevokeSession(p, u, s)
  \/ DeleteExpiredSessions

\* Sessions are written by the steps of WritesSessions alone.
LEMMA OthersLeaveSessions == [Next]_vars => WritesSessions \/ UNCHANGED sessions
<1> SUFFICES ASSUME [Next]_vars, ~WritesSessions PROVE UNCHANGED sessions
  OBVIOUS
<1>1. ASSUME NEW p \in Proc, Step(p) PROVE UNCHANGED sessions
  BY ZenonT(30), <1>1 DEF WritesSessions, Step, Lock, Reject, FindOrCreateUser, CreateCode, PrepareTokenFlow,
     ConsumeCode, ConsumeRefreshToken, CreateRefreshToken, ResolveSession, SkipSession, WriteTRL,
     FailTRL, DeleteRefreshTokens, store
<1>2. ASSUME NEW p \in Proc, Call(p) PROVE UNCHANGED sessions
  BY ZenonT(30), <1>2 DEF WritesSessions, Call, Authorize, DeleteUser, ExchangeCode, RefreshToken,
     RevokeAccessToken, RevokeRefreshToken, LogoutAll, store
<1>3. ASSUME Cleanup PROVE UNCHANGED sessions
  BY ZenonT(30), <1>3 DEF WritesSessions, Cleanup, CleanupStart, DeleteExpiredCodes, DeleteExpiredTokens,
     DeleteUsedTokens, CleanupFails, store
<1>4. QED
  BY <1>1, <1>2, <1>3, Zenon DEF Next, Tick, store, vars

\* A revoked session row never changes again until it is deleted, whatever
\* requests were under way when it was revoked (RevokedIsFinal).
THEOREM RevokedStaysRevoked == Spec => RevokedIsFinal
<1> DEFINE Final(s) == sessions[s].st = "revoked" =>
                         sessions'[s] = sessions[s] \/ sessions'[s].st = "gone"
<1>1. IInv /\ [Next]_vars => [\A s \in Session : Final(s)]_vars
  <2> SUFFICES ASSUME IInv, [Next]_vars, NEW s \in Session, sessions[s].st = "revoked"
               PROVE  sessions'[s] = sessions[s] \/ sessions'[s].st = "gone"
    OBVIOUS
  <2>a. TypeOK
    BY Zenon DEF IInv
  <2>1. ASSUME NEW S, DeleteSessionRows(S) PROVE Final(s)
    BY <2>1, Zenon DEF DeleteSessionRows
  <2>2. ASSUME NEW r, RevokeIfActive(r) PROVE Final(s)
    BY <2>a, <2>2, Zenon DEF RevokeIfActive, TypeOK
  <2>3. ASSUME NEW p \in Proc, CreateSession(p) PROVE Final(s)
    BY <2>a, <2>3, Zenon DEF CreateSession, TypeOK
  <2>4. ASSUME NEW p \in Proc, AdvanceSession(p) PROVE Final(s)
    BY <2>a, <2>4, Zenon DEF AdvanceSession, ValidateForAdvance, TypeOK
  <2>5. ASSUME NEW p \in Proc, NEW u \in User, NEW r \in Session, RevokeSession(p, u, r)
        PROVE  Final(s)
    BY <2>a, <2>5, Zenon DEF RevokeSession, TypeOK
  <2>6. ASSUME WritesSessions PROVE Final(s)
    BY ZenonT(30), <2>1, <2>2, <2>3, <2>4, <2>5, <2>6 DEF WritesSessions, RevokeOnReplay,
       RevokeSessionInternal, DeleteSessionsByUser, DeleteUserRow, DeleteExpiredSessions
  <2>7. QED
    BY <2>6, OthersLeaveSessions
<1>2. QED
  BY <1>1, Invariance, PTL DEF Spec, RevokedIsFinal
==============================================================================
