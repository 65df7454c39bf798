------------------------ MODULE RefreshTokensProofs ------------------------
(***************************************************************************)
(* Proofs about RefreshTokens, for every number of users, tokens and       *)
(* requests.                                                               *)
(***************************************************************************)
EXTENDS RefreshTokens, FiniteSetTheorems, TLAPS

\* What the read half of a request is entered with.
WellFormed(txn) ==
    /\ txn \in RequestState
    /\ txn.pc = "read"
    /\ txn.user \in Users
    /\ txn.new = NoToken
    /\ txn.op = "refresh" => txn.presented \in Tokens
    /\ Current(txn)
    /\ Entitled(txn)
    /\ UpdatesOf(txn)

\* Every handler that passes its checks begins a well-formed transaction; the
\* only other thing a read does is to refuse a refresh.
LEMMA ReadsBegin ==
    ASSUME TypeOK, NEW r \in Requests, Read(r)
    PROVE  \/ \E txn : WellFormed(txn) /\ Begin(r, txn)
           \/ \E t \in Tokens : RefreshRefused(r, t)
<1> USE ConstantsAssumption DEF TypeOK, WellFormed, Idle, RequestState, Ops, Current, Entitled, UpdatesOf
<1>1. \A u : RevokeAllUserTokens(u) \subseteq Tokens /\ SessionsOf(u) \subseteq Tokens
  BY DEF RevokeAllUserTokens, SessionsOf, LiveTokens
<1>2. \A u \in Users, s \in Statuses : Written(u, s) \in Statuses \union {"unchanged"}
  BY DEF Written
<1>3. CASE \E u \in Users : LoginRead(r, u)
  BY <1>3 DEF LoginRead
<1>4. CASE \E t \in Tokens : RefreshRead(r, t)
  <2>1. PICK t \in Tokens : RefreshRead(r, t)
    BY <1>4
  <2> DEFINE txn == [Idle EXCEPT !.op = "refresh", !.pc = "read", !.user = subject[t],
                                 !.presented = t, !.revokes = {t}]
  <2>2. subject[t] \in Users /\ row[t] = "live"
    BY <2>1 DEF RefreshRead, Accepted
  <2>3. WellFormed(txn)
    BY <2>1, <2>2 DEF RefreshRead
  <2>4. QED
    BY <2>1, <2>3, SMTT(30), ZenonT(30) DEF RefreshRead
<1>5. CASE \E t \in Tokens : RefreshRefused(r, t)
  BY <1>5
<1>6. CASE \E t \in Tokens : LogoutRead(r, t)
  BY <1>1, <1>6 DEF LogoutRead
<1>7. CASE \E u \in Users : ResetRead(r, u)
  BY <1>1, <1>7 DEF ResetRead
<1>8. CASE \E u \in Users : VerifyRead(r, u)
  BY <1>2, <1>8, SMTT(30), ZenonT(30) DEF VerifyRead
<1>9. CASE \E u \in Users, s \in Statuses : StatusRead(r, u, s)
  BY <1>2, <1>9, SMTT(30), ZenonT(30) DEF StatusRead
<1>10. CASE \E u \in Users : CompleteRead(r, u)
  BY <1>2, <1>10, SMTT(30), ZenonT(30) DEF CompleteRead
<1>11. QED
  BY <1>3, <1>4, <1>5, <1>6, <1>7, <1>8, <1>9, <1>10, SMTT(30), ZenonT(30) DEF Read

\* The variables are always of their types.
THEOREM Typing == Spec => []TypeOK
<1> USE ConstantsAssumption
<1>1. Init => TypeOK
  BY DEF Init, TypeOK, Idle, RequestState, Ops, RowStates
<1>2. TypeOK /\ [Next]_vars => TypeOK'
  <2> SUFFICES ASSUME TypeOK, [Next]_vars PROVE TypeOK'
    OBVIOUS
  <2>1. ASSUME NEW r \in Requests, Read(r) PROVE TypeOK'
    <3>1. CASE \E txn : WellFormed(txn) /\ Begin(r, txn)
      BY <3>1 DEF TypeOK, WellFormed, Begin
    <3>2. CASE \E t \in Tokens : RefreshRefused(r, t)
      BY <3>2 DEF TypeOK, RefreshRefused, RowStates
    <3>3. QED
      BY <2>1, <3>1, <3>2, ReadsBegin
  <2>2. ASSUME NEW r \in Requests, Answer(r) PROVE TypeOK'
    <3>1. PICK n \in Tokens \union {NoToken} : AnswerWith(r, n)
      BY <2>2 DEF Answer
    <3>2. req[r].pc = "read"
      BY <2>2 DEF Answer
    <3>3. req' \in [Requests -> RequestState]
      <4> DEFINE txn == [req[r] EXCEPT !.pc = "answered", !.new = n]
      <4>1. req[r] \in RequestState
        BY DEF TypeOK
      <4>2. txn \in RequestState
        BY <4>1 DEF RequestState
      <4>3. req' = [req EXCEPT ![r] = txn]
        BY <3>1 DEF AnswerWith
      <4>4. QED
        BY <4>2, <4>3 DEF TypeOK
    <3>4. QED
      BY <3>1, <3>2, <3>3 DEF AnswerWith, TypeOK, RequestState
  <2>3. ASSUME NEW r \in Requests, Commit(r) PROVE TypeOK'
    <3> USE <2>3 DEF Commit, TypeOK, RequestState
    <3>1. Idle \in RequestState /\ Idle.pc = "idle"
      BY DEF Idle, Ops
    <3>2. row' \in [Tokens -> RowStates]
      BY DEF RowAfter, RowStates
    <3>3. rotatedFrom' \in [Tokens -> Tokens \union {NoToken}]
      OBVIOUS
    <3>4. session' \in [Tokens -> Tokens]
      BY DEF SessionOfNew
    <3>5. provenBy' \in [Tokens -> Nat]
      BY DEF VoucherOfNew
    <3>6. status' \in [Users -> Statuses]
      BY DEF StatusAfter
    <3>7. password' \in [Users -> Nat] /\ verified' \subseteq Users /\ ended' \subseteq Tokens
      OBVIOUS
    <3>8. QED
      BY <3>1, <3>2, <3>3, <3>4, <3>5, <3>6, <3>7
  <2>4. ASSUME NEW r \in Requests, Rollback(r) PROVE TypeOK'
    BY <2>4 DEF Rollback, TypeOK, RequestState, Idle, Ops
  <2>5. ASSUME NEW t \in Tokens, Expire(t) PROVE TypeOK'
    BY <2>5 DEF Expire, TypeOK
  <2>6. CASE UNCHANGED vars
    BY <2>6 DEF vars, TypeOK
  <2>7. ASSUME NEW r \in Requests, Lock(r) PROVE TypeOK'
    <3>1. req[r].revokes \subseteq Tokens /\ req[r].user \in Users
      BY <2>7 DEF Lock, TypeOK, RequestState
    <3>2. NextRows(r) \subseteq Rows
      BY <3>1 DEF NextRows, Unflushed, Updates, Rows
    <3>3. QED
      BY <2>7, <3>2 DEF Lock, TypeOK
  <2>8. ASSUME NEW r \in Requests, Activate(r) PROVE TypeOK'
    <3> USE <2>8 DEF Activate, TypeOK
    <3>1. req[r].user \in Users /\ req[r] \in RequestState
      OBVIOUS
    <3>2. status' \in [Users -> Statuses]
      BY <3>1 DEF StatusAfter, RequestState
    <3>3. req'[r] \in RequestState /\ req' = [req EXCEPT ![r] = req'[r]]
      BY <3>1 DEF Idle, RequestState, Ops
    <3>4. req' \in [Requests -> RequestState]
      BY <3>3
    <3>5. \A s \in Requests : req'[s].pc # "idle" =>
              req'[s].user \in Users /\ (req'[s].op = "refresh" => req'[s].presented \in Tokens)
      BY <3>1 DEF Idle
    <3>6. QED
      BY <3>1, <3>2, <3>4, <3>5
  <2>9. QED
    BY <2>1, <2>2, <2>3, <2>4, <2>5, <2>6, <2>7, <2>8 DEF Next
<1>3. QED
  BY <1>1, <1>2, PTL DEF Spec

----------------------------------------------------------------------------
(* Any number of concurrent requests                                       *)

LEMMA RotationInit == Init => RotationInv
BY ConstantsAssumption
   DEF Init, RotationInv, TypeOK, RowsFit, WritesFit, NewTokensDistinct,
       RotationSpendsParent, Idle, RequestState, Ops, RowStates

LEMMA RotationNext ==
    ASSUME RotationInv, TypeOK', [Next]_vars
    PROVE  RotationInv'
<1> USE ConstantsAssumption DEF RotationInv
<1>1. ASSUME NEW r \in Requests, NEW txn, WellFormed(txn), Begin(r, txn)
      PROVE  RotationInv'
  <2> USE <1>1
  <2>1. /\ \A t \in txn.revokes : row[t] # "none" /\ subject[t] = txn.user
        /\ txn.op = "refresh" =>
             txn.revokes = {txn.presented} /\ row[txn.presented] # "none"
    BY DEF WellFormed, Current, RevokeAllUserTokens, LiveTokens, RequestState, Ops
  <2>2. WritesFit'
    BY <2>1 DEF Begin, WellFormed, WritesFit, TypeOK
  <2>3. NewTokensDistinct'
    BY DEF Begin, WellFormed, NewTokensDistinct, TypeOK
  <2>4. RowsFit' /\ RotationSpendsParent'
    BY DEF Begin, RowsFit, RotationSpendsParent
  <2>5. QED
    BY <2>2, <2>3, <2>4
<1>2. ASSUME NEW r \in Requests, NEW t \in Tokens, RefreshRefused(r, t)
      PROVE  RotationInv'
  BY <1>2 DEF RefreshRefused, RowsFit, WritesFit, NewTokensDistinct, RotationSpendsParent
<1>3. ASSUME NEW r \in Requests, Answer(r)
      PROVE  RotationInv'
  <2>1. PICK n \in Tokens \union {NoToken} :
           /\ AnswerWith(r, n)
           /\ n # NoToken => subject[n] = NoUser
           /\ (n # NoToken) <=> Mints(req[r].op)
    BY <1>3 DEF Answer
  <2>2. req[r].pc = "read" /\ req[r].user \in Users
    BY <1>3 DEF Answer, TypeOK
  <2>3. n # NoToken => row[n] = "none"
    BY <2>1 DEF RowsFit
  <2>4. req' = [req EXCEPT ![r] = [@ EXCEPT !.pc = "answered", !.new = n]]
    BY <2>1 DEF AnswerWith
  <2>5. /\ req'[r].pc = "answered" /\ req'[r].new = n
        /\ req'[r].user = req[r].user /\ req'[r].revokes = req[r].revokes
        /\ req'[r].op = req[r].op /\ req'[r].presented = req[r].presented
        /\ \A s \in Requests : s # r => req'[s] = req[s]
    BY <2>4 DEF TypeOK, RequestState
  <2>6. /\ row' = row /\ rotatedFrom' = rotatedFrom /\ session' = session
        /\ \A t \in Tokens : t # n => subject'[t] = subject[t]
        /\ n # NoToken => subject'[n] = req[r].user
    BY <2>1 DEF AnswerWith, TypeOK
  <2>7. \A t \in Tokens : row[t] # "none" => subject'[t] = subject[t]
    BY <2>3, <2>6
  <2>8. RowsFit'
    BY <2>6, <2>7 DEF RowsFit, TypeOK
  <2>9. WritesFit'
    <3>1. WritesFit!(r)'
      BY <2>1, <2>2, <2>3, <2>5, <2>6, <2>7 DEF WritesFit, TypeOK, RequestState
    <3>2. ASSUME NEW s \in Requests, s # r PROVE WritesFit!(s)'
      <4>1. req[s].new # NoToken => req[s].new # n
        BY <2>1, <2>2, <3>2 DEF WritesFit, TypeOK
      <4>2. QED
        BY <2>5, <2>6, <2>7, <3>2, <4>1 DEF WritesFit, TypeOK, RequestState
    <3>3. QED
      BY <3>1, <3>2 DEF WritesFit
  <2>10. NewTokensDistinct'
    <3>1. ASSUME NEW s \in Requests, n # NoToken, req[s].new = n PROVE FALSE
      <4>1. req[s].pc = "answered" /\ subject[n] = req[s].user
        BY <3>1 DEF WritesFit
      <4>2. QED
        BY <2>1, <3>1, <4>1 DEF TypeOK
    <3>2. QED
      BY <2>5, <3>1 DEF NewTokensDistinct
  <2>11. RotationSpendsParent'
    BY <2>6, <2>7 DEF RotationSpendsParent, TypeOK
  <2>12. QED
    BY <2>8, <2>9, <2>10, <2>11
<1>4. ASSUME NEW r \in Requests, Commit(r)
      PROVE  RotationInv'
  <2> DEFINE new == req[r].new
  <2> USE <1>4
  <2>1. /\ req[r].pc = "answered" /\ req[r].user \in Users
        /\ new \in Tokens \union {NoToken} /\ req[r].revokes \subseteq Tokens
        /\ req[r].op = "refresh" => req[r].presented \in Tokens
    BY DEF Commit, TypeOK, RequestState
  <2>2. /\ new # NoToken => row[new] = "none" /\ subject[new] = req[r].user
        /\ \A t \in req[r].revokes : row[t] # "none" /\ subject[t] = req[r].user
        /\ req[r].op = "refresh" =>
             req[r].revokes = {req[r].presented} /\ row[req[r].presented] # "none"
    BY <2>1 DEF WritesFit
  <2>3. /\ subject' = subject
        /\ \A t \in Tokens :
             /\ row'[t] = RowAfter(r, t)
             /\ rotatedFrom'[t] = IF t = new /\ req[r].op = "refresh"
                                  THEN req[r].presented ELSE rotatedFrom[t]
             /\ session'[t] = IF t = new THEN SessionOfNew(r) ELSE session[t]
    BY DEF Commit
  <2>4. /\ \A t \in Tokens : row[t] = "revoked" => row'[t] = "revoked"
        /\ \A t \in Tokens : row[t] # "none" => row'[t] # "none"
        /\ \A t \in Tokens : row'[t] # "none" => row[t] # "none" \/ t = new
        /\ \A t \in req[r].revokes : row'[t] = "revoked"
        /\ new # NoToken => row'[new] = "live"
    BY <2>1, <2>2, <2>3 DEF RowAfter
  <2>5. RowsFit'
    <3>1. ASSUME NEW t \in Tokens, t = new PROVE RowsFit!(t)'
      <4>1. /\ row[SessionOfNew(r)] # "none" \/ SessionOfNew(r) = new
            /\ subject[SessionOfNew(r)] = subject[new]
            /\ SessionOfNew(r) \in Tokens
        BY <2>1, <2>2, <3>1 DEF SessionOfNew, RowsFit, TypeOK
      <4>2. QED
        BY <2>1, <2>2, <2>3, <2>4, <3>1, <4>1
    <3>2. ASSUME NEW t \in Tokens, t # new PROVE RowsFit!(t)'
      BY <2>3, <2>4, <3>2 DEF RowsFit, TypeOK
    <3>3. QED
      BY <3>1, <3>2 DEF RowsFit
  <2>6. req' = [req EXCEPT ![r] = Idle]
    BY DEF Commit
  <2>7. WritesFit'
    <3>1. WritesFit!(r)'
      BY <2>6 DEF TypeOK, Idle
    <3>2. ASSUME NEW s \in Requests, s # r PROVE WritesFit!(s)'
      <4>1. req'[s] = req[s] /\ req[s] \in RequestState
        BY <2>6, <3>2 DEF TypeOK
      <4>2. req[s].new # NoToken => req[s].new # new /\ row'[req[s].new] = "none"
        BY <2>4, <3>2, <4>1 DEF NewTokensDistinct, WritesFit, RequestState
      <4>3. req[s].op = "refresh" /\ req[s].pc # "idle" =>
                row'[req[s].presented] # "none"
        BY <2>4 DEF WritesFit, TypeOK
      <4>4. \A t \in req[s].revokes : row'[t] # "none"
        BY <2>4, <4>1 DEF WritesFit, RequestState
      <4>5. QED
        BY <2>3, <4>1, <4>2, <4>3, <4>4 DEF WritesFit
    <3>3. QED
      BY <3>1, <3>2 DEF WritesFit
  <2>8. NewTokensDistinct'
    BY <2>6 DEF NewTokensDistinct, TypeOK, Idle
  <2>9. RotationSpendsParent'
    <3> SUFFICES ASSUME NEW t \in Tokens, row'[t] # "none", rotatedFrom'[t] # NoToken
                 PROVE  /\ row'[rotatedFrom'[t]] = "revoked"
                        /\ subject'[rotatedFrom'[t]] = subject'[t]
      BY DEF RotationSpendsParent
    <3>1. CASE t = new /\ req[r].op = "refresh"
      BY <2>1, <2>2, <2>3, <2>4, <3>1
    <3>2. CASE t = new /\ req[r].op # "refresh"
      BY <2>1, <2>2, <2>3, <3>2 DEF RowsFit
    <3>3. CASE t # new
      BY <2>3, <2>4, <3>3 DEF RotationSpendsParent, TypeOK
    <3>4. QED
      BY <3>1, <3>2, <3>3
  <2>10. QED
    BY <2>5, <2>7, <2>8, <2>9
<1>5. ASSUME NEW r \in Requests, Rollback(r)
      PROVE  RotationInv'
  BY <1>5 DEF Rollback, TypeOK, RowsFit, WritesFit, NewTokensDistinct,
              RotationSpendsParent, Idle
<1>6. ASSUME NEW t \in Tokens, Expire(t)
      PROVE  RotationInv'
  BY <1>6 DEF Expire, RowsFit, WritesFit, NewTokensDistinct, RotationSpendsParent
<1>7. CASE UNCHANGED vars
  BY <1>7 DEF vars, RowsFit, WritesFit, NewTokensDistinct, RotationSpendsParent
<1>8. ASSUME NEW r \in Requests, Lock(r)
      PROVE  RotationInv'
  BY <1>8 DEF Lock, RowsFit, WritesFit, NewTokensDistinct, RotationSpendsParent
<1>9. ASSUME NEW r \in Requests, Activate(r)
      PROVE  RotationInv'
  <2>1. /\ req' = [req EXCEPT ![r] = [Idle EXCEPT !.op = "session", !.pc = "read",
                                                 !.user = req[r].user]]
        /\ UNCHANGED <<row, subject, rotatedFrom, session>>
    BY <1>9 DEF Activate
  <2>2. WritesFit'
    BY <2>1 DEF WritesFit, TypeOK, Idle
  <2>3. NewTokensDistinct'
    BY <2>1 DEF NewTokensDistinct, TypeOK, Idle
  <2>4. RowsFit' /\ RotationSpendsParent'
    BY <2>1 DEF RowsFit, RotationSpendsParent
  <2>5. QED
    BY <2>2, <2>3, <2>4
<1>10. QED
  BY <1>1, <1>2, <1>3, <1>4, <1>5, <1>6, <1>7, <1>8, <1>9, ReadsBegin DEF Next

\* The inductive invariant of a service under any concurrency.
LEMMA RotationInvariance == Spec => []RotationInv
<1>1. RotationInv /\ TypeOK' /\ [Next]_vars => RotationInv'
  BY RotationNext
<1>2. QED
  BY RotationInit, Typing, <1>1, PTL DEF Spec

\* However many requests run at once, a rotated token's parent is revoked and
\* belongs to the same user.
THEOREM RotationIsSafe == Spec => []RotationSpendsParent
<1>1. RotationInv => RotationSpendsParent
  BY DEF RotationInv
<1>2. QED
  BY RotationInvariance, <1>1, PTL

----------------------------------------------------------------------------
(* One request at a time                                                   *)

LEMMA SerialInit == Init => SerialInv
<1>1. Init => SnapshotsCurrent /\ ChildrenUnique /\ EndedStored
               /\ EndedSessionsStayDead /\ LiveTokensUseCurrentPassword
  BY DEF Init, SnapshotsCurrent, ChildrenUnique, EndedStored, EndedSessionsStayDead,
         LiveTokensUseCurrentPassword, LiveTokens, Idle
<1>2. QED
  BY <1>1, RotationInit DEF SerialInv

\* A step that changes no row and no password keeps the snapshot of a
\* transaction current.
LEMMA CurrentKept ==
    ASSUME NEW txn, Current(txn), TypeOK, RowsFit, UNCHANGED <<row, session, password>>,
           \A t \in Tokens : row[t] # "none" => subject'[t] = subject[t],
           txn.op = "refresh" => txn.presented \in Tokens
    PROVE  Current(txn)'
<1>1. LiveTokens' = LiveTokens
  BY DEF LiveTokens
<1>2. RevokeAllUserTokens(txn.user)' = RevokeAllUserTokens(txn.user)
  BY <1>1 DEF RevokeAllUserTokens, LiveTokens
<1>3. SessionsOf(txn.user)' = SessionsOf(txn.user)
  BY <1>1 DEF SessionsOf, LiveTokens
<1>4. QED
  BY <1>2, <1>3 DEF Current

\* Commits of a lone request.
LEMMA SerialCommit ==
    ASSUME Serial, SerialInv, TypeOK', RotationInv', NEW r \in Requests, Commit(r)
    PROVE  SerialInv'
<1> USE ConstantsAssumption
<1> DEFINE new == req[r].new
<1> DEFINE u == req[r].user
<1>1. /\ TypeOK /\ RowsFit /\ WritesFit /\ RotationSpendsParent
      /\ req[r].pc = "answered" /\ Current(req[r]) /\ req[r] \in RequestState
      /\ u \in Users
      /\ req[r].op = "refresh" => req[r].presented \in Tokens
  BY DEF SerialInv, RotationInv, Commit, SnapshotsCurrent, TypeOK
<1>2. /\ new # NoToken => new \in Tokens /\ row[new] = "none" /\ subject[new] = u
      /\ \A t \in req[r].revokes : row[t] # "none" /\ subject[t] = u
  BY <1>1 DEF WritesFit, RequestState
<1>3. /\ subject' = subject /\ ended' = ended \union req[r].ends
      /\ password' = IF req[r].op = "reset" THEN [password EXCEPT ![u] = @ + 1]
                     ELSE password
      /\ \A t \in Tokens :
           /\ row'[t] = RowAfter(r, t)
           /\ rotatedFrom'[t] = IF t = new /\ req[r].op = "refresh"
                                THEN req[r].presented ELSE rotatedFrom[t]
           /\ session'[t] = IF t = new THEN SessionOfNew(r) ELSE session[t]
           /\ provenBy'[t] = IF t = new THEN VoucherOfNew(r) ELSE provenBy[t]
  BY DEF Commit
<1>4. /\ \A t \in Tokens : row'[t] = "live" => t = new \/ (row[t] = "live" /\ t \notin req[r].revokes)
      /\ \A t \in Tokens : row'[t] # "none" => t = new \/ row[t] # "none"
      /\ \A t \in Tokens : row[t] # "none" => row'[t] # "none"
  BY <1>2, <1>3 DEF RowAfter
<1>5. SnapshotsCurrent'
  BY DEF Serial, Commit, SnapshotsCurrent, TypeOK, SerialInv, RotationInv, Idle
<1>6. ChildrenUnique'
  <2> SUFFICES ASSUME NEW a \in Tokens, NEW b \in Tokens,
                      row'[a] # "none", row'[b] # "none",
                      rotatedFrom'[a] = rotatedFrom'[b], rotatedFrom'[a] # NoToken
               PROVE  a = b
    BY DEF ChildrenUnique
  <2>1. ASSUME NEW t \in Tokens, t # new, row'[t] # "none", rotatedFrom'[t] # NoToken
        PROVE  row[t] # "none" /\ rotatedFrom'[t] = rotatedFrom[t]
               /\ row[rotatedFrom[t]] = "revoked"
    BY <1>1, <1>3, <1>4, <2>1 DEF RotationSpendsParent
  <2>2. new \in Tokens /\ rotatedFrom'[new] # NoToken =>
          req[r].op = "refresh" /\ rotatedFrom'[new] = req[r].presented
          /\ row[req[r].presented] = "live"
    BY <1>1, <1>2, <1>3 DEF RowsFit, Current
  <2>3. CASE a # new /\ b # new
    BY <2>1, <2>3 DEF SerialInv, ChildrenUnique
  <2>4. CASE a = new \/ b = new
    BY <2>1, <2>2, <2>4
  <2>5. QED
    BY <2>3, <2>4
<1>7. req[r].ends \subseteq {session[t] : t \in {t \in LiveTokens : subject[t] = u}}
  BY <1>1 DEF Current, SessionsOf, RequestState, Ops
<1>8. EndedStored'
  <2>1. \A t \in req[r].ends : t \in Tokens /\ row[t] # "none"
    BY <1>1, <1>7 DEF RowsFit, LiveTokens, TypeOK
  <2>2. QED
    BY <1>1, <1>3, <1>4, <2>1 DEF EndedStored, SerialInv, TypeOK
<1>9. EndedSessionsStayDead'
  <2> SUFFICES ASSUME NEW t \in Tokens, row'[t] = "live" PROVE session'[t] \notin ended'
    BY DEF EndedSessionsStayDead, LiveTokens
  <2>1. \A x \in req[r].ends : subject[x] = u
    BY <1>1, <1>7 DEF RowsFit, LiveTokens, TypeOK
  <2>2. CASE t = new
    <3>1. req[r].op \notin {"logout", "reset"} /\ req[r].ends = {}
      BY <1>1, <1>2, <2>2, ConstantsAssumption DEF Current, RequestState, Ops
    <3>2. SessionOfNew(r) \notin ended
      BY <1>1, <1>2, <2>2 DEF SessionOfNew, Current, SerialInv, EndedStored,
                              EndedSessionsStayDead, LiveTokens, TypeOK
    <3>3. QED
      BY <1>3, <2>2, <3>1, <3>2
  <2>3. CASE t # new
    <3>1. row[t] = "live" /\ t \notin req[r].revokes /\ session'[t] = session[t]
          /\ session[t] \notin ended /\ subject[session[t]] = subject[t]
      BY <1>1, <1>3, <1>4, <2>3 DEF SerialInv, EndedSessionsStayDead, LiveTokens, RowsFit
    <3>2. CASE req[r].op \in {"logout", "reset"}
      <4>1. subject[t] # u
        BY <1>1, <3>1, <3>2 DEF Current, RevokeAllUserTokens, LiveTokens
      <4>2. QED
        BY <1>3, <2>1, <3>1, <4>1
    <3>3. CASE req[r].op \notin {"logout", "reset"}
      BY <1>1, <1>3, <3>1, <3>3 DEF Current, RequestState, Ops
    <3>4. QED
      BY <3>2, <3>3
  <2>4. QED
    BY <2>2, <2>3
<1>10. LiveTokensUseCurrentPassword'
  <2> SUFFICES ASSUME NEW t \in Tokens, row'[t] = "live"
               PROVE  provenBy'[t] = password'[subject'[t]]
    BY DEF LiveTokensUseCurrentPassword, LiveTokens
  <2>1. CASE t = new
    <3>1. req[r].op # "reset"
      BY <1>1, <1>2, <2>1, ConstantsAssumption DEF Current
    <3>2. VoucherOfNew(r) = password[u]
      BY <1>1 DEF VoucherOfNew, Current, SerialInv, LiveTokensUseCurrentPassword, LiveTokens
    <3>3. QED
      BY <1>2, <1>3, <2>1, <3>1, <3>2
  <2>2. CASE t # new
    <3>1. row[t] = "live" /\ t \notin req[r].revokes /\ provenBy'[t] = provenBy[t]
          /\ provenBy[t] = password[subject[t]]
      BY <1>3, <1>4, <2>2 DEF SerialInv, LiveTokensUseCurrentPassword, LiveTokens
    <3>2. CASE req[r].op = "reset"
      <4>1. subject[t] # u
        BY <1>1, <3>1, <3>2 DEF Current, RevokeAllUserTokens, LiveTokens
      <4>2. subject[t] \in Users
        BY <1>1, <3>1 DEF RowsFit
      <4>3. QED
        BY <1>1, <1>3, <3>1, <3>2, <4>1, <4>2 DEF TypeOK
    <3>3. CASE req[r].op # "reset"
      BY <1>3, <3>1, <3>3
    <3>4. QED
      BY <3>2, <3>3
  <2>3. QED
    BY <2>1, <2>2
<1>11. QED
  BY <1>5, <1>6, <1>8, <1>9, <1>10 DEF SerialInv

LEMMA SerialNext ==
    ASSUME Serial, SerialInv, RotationInv', [Next]_vars
    PROVE  SerialInv'
<1> USE DEF SerialInv
<1>1. /\ TypeOK /\ RowsFit /\ WritesFit /\ TypeOK'
  BY DEF RotationInv
<1>2. ASSUME UNCHANGED <<row, rotatedFrom, session, ended, provenBy, password>>,
             \A t \in Tokens : row[t] # "none" => subject'[t] = subject[t],
             \A s \in Requests : req'[s].pc # "idle" => Current(req'[s])
      PROVE  SerialInv'
  <2>1. SnapshotsCurrent'
    <3>1. ASSUME NEW s \in Requests, req'[s].pc # "idle" PROVE Current(req[s])'
      BY <1>1, <1>2, <3>1, CurrentKept DEF TypeOK
    <3>2. QED
      BY <3>1 DEF SnapshotsCurrent
  <2>2. ChildrenUnique' /\ EndedStored' /\ EndedSessionsStayDead'
    BY <1>2 DEF ChildrenUnique, EndedStored, EndedSessionsStayDead, LiveTokens
  <2>3. LiveTokensUseCurrentPassword'
    BY <1>2 DEF LiveTokensUseCurrentPassword, LiveTokens
  <2>4. QED
    BY <2>1, <2>2, <2>3
<1>3. ASSUME NEW r \in Requests, NEW txn, WellFormed(txn), Begin(r, txn)
      PROVE  SerialInv'
  BY <1>1, <1>2, <1>3 DEF Begin, WellFormed, SnapshotsCurrent, TypeOK
<1>4. ASSUME NEW r \in Requests, NEW t \in Tokens, RefreshRefused(r, t)
      PROVE  SerialInv'
  BY <1>2, <1>4 DEF RefreshRefused, SnapshotsCurrent
<1>5. ASSUME NEW r \in Requests, Answer(r)
      PROVE  SerialInv'
  <2>1. PICK n \in Tokens \union {NoToken} :
           /\ AnswerWith(r, n)
           /\ n # NoToken => subject[n] = NoUser /\ Mints(req[r].op)
    BY <1>5 DEF Answer
  <2>2. Current(req[r]) /\ req[r] \in RequestState
    BY <1>1, <1>5 DEF Answer, SnapshotsCurrent, TypeOK
  <2>3. req' = [req EXCEPT ![r] = [@ EXCEPT !.pc = "answered", !.new = n]]
    BY <2>1 DEF AnswerWith
  <2>4. /\ req'[r].new = n
        /\ req'[r].user = req[r].user /\ req'[r].revokes = req[r].revokes
        /\ req'[r].op = req[r].op /\ req'[r].presented = req[r].presented
        /\ req'[r].ends = req[r].ends /\ req'[r].password = req[r].password
        /\ \A s \in Requests : s # r => req'[s] = req[s]
    BY <1>1, <2>3 DEF TypeOK, RequestState
  <2>5. Current(req'[r])
    BY <2>1, <2>2, <2>4 DEF Current, Mints
  <2>6. \A t \in Tokens : row[t] # "none" => subject'[t] = subject[t]
    BY <1>1, <2>1, ConstantsAssumption DEF AnswerWith, RowsFit, TypeOK
  <2>7. QED
    BY <1>2, <2>1, <2>4, <2>5, <2>6 DEF AnswerWith, SnapshotsCurrent
<1>6. ASSUME NEW r \in Requests, Commit(r)
      PROVE  SerialInv'
  BY <1>1, <1>6, SerialCommit
<1>7. ASSUME NEW r \in Requests, Rollback(r)
      PROVE  SerialInv'
  BY <1>1, <1>2, <1>7 DEF Rollback, SnapshotsCurrent, TypeOK, Idle
<1>8. ASSUME NEW t \in Tokens, Expire(t)
      PROVE  SerialInv'
  BY <1>2, <1>8 DEF Expire, SnapshotsCurrent
<1>9. CASE UNCHANGED vars
  BY <1>2, <1>9 DEF vars, SnapshotsCurrent
<1>10. ASSUME NEW r \in Requests, Lock(r)
       PROVE  SerialInv'
  BY <1>2, <1>10 DEF Lock, SnapshotsCurrent
<1>11. ASSUME NEW r \in Requests, Activate(r)
       PROVE  SerialInv'
  <2>1. Current(req'[r])
    BY <1>1, <1>11 DEF Activate, TypeOK, Idle, Current
  <2>2. QED
    BY <1>1, <1>2, <1>11, <2>1 DEF Activate, SnapshotsCurrent, TypeOK
<1>12. QED
  BY <1>1, <1>3, <1>4, <1>5, <1>6, <1>7, <1>8, <1>9, <1>10, <1>11, ReadsBegin DEF Next

LEMMA SerialInvariance == Serial => (Spec => []SerialInv)
<1> SUFFICES ASSUME Serial PROVE Spec => []SerialInv
  OBVIOUS
<1>1. SerialInv /\ RotationInv' /\ [Next]_vars => SerialInv'
  BY SerialNext
<1>2. QED
  BY SerialInit, RotationInvariance, <1>1, PTL DEF Spec

\* Served one at a time, a logout or a password reset ends every session of its
\* user for good.
THEOREM SerialSessionsEnd == Serial => (Spec => []EndedSessionsStayDead)
<1>1. SerialInv => EndedSessionsStayDead
  BY DEF SerialInv
<1>2. QED
  BY SerialInvariance, <1>1, PTL

\* Served one at a time, no live token outlives the password it was obtained with.
THEOREM SerialPasswordsCurrent == Serial => (Spec => []LiveTokensUseCurrentPassword)
<1>1. SerialInv => LiveTokensUseCurrentPassword
  BY DEF SerialInv
<1>2. QED
  BY SerialInvariance, <1>1, PTL

\* Served one at a time, no token is exchanged twice.
THEOREM SerialSingleUse == Serial => (Spec => []RotatedOnce)
<1> SUFFICES ASSUME Serial PROVE Spec => []RotatedOnce
  OBVIOUS
<1>1. SerialInv => RotatedOnce
  <2> SUFFICES ASSUME SerialInv, NEW t \in Tokens PROVE Cardinality(Children(t)) <= 1
    BY DEF RotatedOnce
  <2>1. t # NoToken
    BY ConstantsAssumption
  <2>2. CASE Children(t) = {}
    <3>1. Cardinality({}) = 0
      BY FS_EmptySet
    <3>2. QED
      BY <2>2, <3>1
  <2>3. ASSUME NEW c \in Children(t) PROVE Cardinality(Children(t)) <= 1
    <3>1. Children(t) = {c}
      BY <2>1, <2>3 DEF Children, SerialInv, ChildrenUnique
    <3>2. Cardinality({c}) = 1
      BY FS_Singleton, Zenon
    <3>3. Cardinality(Children(t)) = 1
      BY <3>1, <3>2
    <3>4. QED
      BY <3>3
  <2>4. QED
    BY <2>2, <2>3
<1>2. QED
  BY SerialInvariance, <1>1, PTL

\* What one step of a lone service is in terms of a rotation chain.
LEMMA SerialStep ==
    ASSUME Serial, SerialInv, RotationInv', [Next]_vars
    PROVE  [Chain!Next]_(Chain!vars)
<1> USE ConstantsAssumption DEF SerialInv
<1> DEFINE owner == [t \in Tokens |-> IF row[t] = "none" THEN NoUser ELSE subject[t]]
<1>1. /\ TypeOK /\ RowsFit /\ WritesFit /\ TypeOK'
  BY DEF RotationInv
<1>2. ASSUME UNCHANGED row, \A t \in Tokens : row[t] # "none" => subject'[t] = subject[t]
      PROVE  UNCHANGED Chain!vars
  BY <1>2 DEF Chain!vars, LiveTokens
<1>3. ASSUME NEW r \in Requests, Read(r) PROVE UNCHANGED Chain!vars
  BY <1>1, <1>2, <1>3, ReadsBegin DEF Begin, RefreshRefused
<1>4. ASSUME NEW r \in Requests, Answer(r) PROVE UNCHANGED Chain!vars
  <2>1. UNCHANGED row
    BY <1>4 DEF Answer, AnswerWith
  <2>2. subject' = subject \/ \E n \in Tokens : /\ subject[n] = NoUser
                                               /\ subject' = [subject EXCEPT ![n] = req[r].user]
    BY <1>4 DEF Answer, AnswerWith
  <2>3. \A t \in Tokens : row[t] # "none" => subject[t] # NoUser
    BY <1>1 DEF RowsFit
  <2>4. \A t \in Tokens : row[t] # "none" => subject'[t] = subject[t]
    BY <1>1, <2>2, <2>3 DEF TypeOK
  <2>5. QED
    BY <1>2, <2>1, <2>4
<1>5. ASSUME NEW r \in Requests, Commit(r) PROVE [Chain!Next]_(Chain!vars)
  <2> DEFINE new == req[r].new
  <2> DEFINE u == req[r].user
  <2>1. /\ req[r].pc = "answered" /\ Current(req[r]) /\ req[r] \in RequestState
        /\ u \in Users
        /\ req[r].op = "refresh" => req[r].presented \in Tokens
    BY <1>1, <1>5 DEF Commit, SnapshotsCurrent, TypeOK
  <2>2. /\ new # NoToken => new \in Tokens /\ row[new] = "none" /\ subject[new] = u
        /\ new # NoToken <=> Mints(req[r].op)
    BY <1>1, <2>1 DEF WritesFit, RequestState
  <2>3. subject' = subject /\ \A t \in Tokens : row'[t] = RowAfter(r, t)
    BY <1>5 DEF Commit
  <2>4. CASE req[r].op \in {"logout", "reset"}
    <3>1. owner' = owner
      BY <1>1, <2>1, <2>3, <2>4 DEF RowAfter, Current, RevokeAllUserTokens, LiveTokens, TypeOK
    <3>2. LiveTokens' = {t \in LiveTokens : owner[t] # u}
      BY <1>1, <2>1, <2>3, <2>4 DEF RowAfter, Current, RevokeAllUserTokens, LiveTokens, TypeOK
    <3>3. Chain!EndAll(u)
      BY <3>1, <3>2 DEF Chain!EndAll
    <3>4. QED
      BY <2>1, <3>3 DEF Chain!Next
  <2>5. CASE req[r].op = "refresh"
    <3> DEFINE p == req[r].presented
    <3>1. p \in Tokens /\ row[p] = "live" /\ subject[p] = u /\ req[r].revokes = {p}
      BY <2>1, <2>5 DEF Current
    <3>2. new \in Tokens /\ row[new] = "none" /\ subject[new] = u
      BY <2>2, <2>5 DEF Mints
    <3>3. owner' = [owner EXCEPT ![new] = owner[p]]
      BY <1>1, <2>3, <3>1, <3>2 DEF RowAfter, TypeOK
    <3>4. LiveTokens' = (LiveTokens \ {p}) \union {new}
      BY <1>1, <2>3, <3>1, <3>2 DEF RowAfter, LiveTokens, TypeOK
    <3>5. \E a, b \in Tokens : Chain!Rotate(a, b)
      BY <3>1, <3>2, <3>3, <3>4, SMTT(30), ZenonT(30) DEF Chain!Rotate, LiveTokens
    <3>6. QED
      BY <3>5 DEF Chain!Next
  <2>6. CASE req[r].op \in {"login", "verify", "complete", "session"}
    <3>1. req[r].revokes = {}
      BY <2>1, <2>6 DEF Current
    <3>2. new \in Tokens /\ row[new] = "none" /\ subject[new] = u
      BY <2>2, <2>6 DEF Mints
    <3>3. owner' = [owner EXCEPT ![new] = u]
      BY <1>1, <2>3, <3>1, <3>2 DEF RowAfter, TypeOK
    <3>4. LiveTokens' = LiveTokens \union {new}
      BY <1>1, <2>3, <3>1, <3>2 DEF RowAfter, LiveTokens, TypeOK
    <3>5. \E a \in Users, b \in Tokens : Chain!Open(a, b)
      BY <2>1, <3>2, <3>3, <3>4 DEF Chain!Open
    <3>6. QED
      BY <3>5 DEF Chain!Next
  <2>7. CASE req[r].op = "status"
    <3>1. req[r].revokes = {} /\ new = NoToken
      BY <2>1, <2>2, <2>7 DEF Current, Mints
    <3>2. row' = row
      BY <1>1, <2>3, <3>1 DEF RowAfter, TypeOK
    <3>3. QED
      BY <1>2, <2>3, <3>2
  <2>8. QED
    BY <2>1, <2>4, <2>5, <2>6, <2>7 DEF RequestState, Ops
<1>6. ASSUME NEW r \in Requests, Rollback(r) PROVE UNCHANGED Chain!vars
  BY <1>2, <1>6 DEF Rollback
<1>7. ASSUME NEW t \in Tokens, Expire(t) PROVE UNCHANGED Chain!vars
  BY <1>2, <1>7 DEF Expire
<1>8. CASE UNCHANGED vars
  BY <1>2, <1>8 DEF vars
<1>9. ASSUME NEW r \in Requests, Lock(r) \/ Activate(r) PROVE UNCHANGED Chain!vars
  BY <1>2, <1>9 DEF Lock, Activate
<1>10. QED
  BY <1>3, <1>4, <1>5, <1>6, <1>7, <1>8, <1>9 DEF Next

\* Served one at a time, the refresh tokens are a chain of rotations: each is
\* exchanged at most once, and ending a user's sessions spares none of them.
THEOREM SerialRotationChain == Serial => (Spec => ImplementsRotationChain)
<1> SUFFICES ASSUME Serial PROVE Spec => Chain!Spec
  BY DEF ImplementsRotationChain
<1>1. Init => Chain!Init
  BY DEF Init, Chain!Init, LiveTokens
<1>2. SerialInv /\ RotationInv' /\ [Next]_vars => [Chain!Next]_(Chain!vars)
  BY SerialStep
<1>3. QED
  BY SerialInvariance, RotationInvariance, <1>1, <1>2, PTL DEF Spec, Chain!Spec

----------------------------------------------------------------------------
(* Who gets a token, and who is refused one                                *)

\* A lone transaction is entitled to what it commits, whenever that is.
LEMMA EntitledNext ==
    ASSUME Serial, RotationInv, StatusesCurrent, [Next]_vars
    PROVE  StatusesCurrent'
<1> USE DEF StatusesCurrent
<1>1. TypeOK
  BY DEF RotationInv
<1>2. ASSUME NEW txn, Entitled(txn), status' = status PROVE Entitled(txn)'
  BY <1>2 DEF Entitled, Written
<1>3. ASSUME NEW r \in Requests, NEW txn, WellFormed(txn), Begin(r, txn)
      PROVE  StatusesCurrent'
  <2>1. /\ req'[r] = txn /\ status' = status /\ Entitled(txn)
        /\ \A s \in Requests : s # r => req'[s] = req[s]
    BY <1>1, <1>3 DEF Begin, WellFormed, TypeOK
  <2>2. QED
    BY <1>2, <2>1 DEF Serial
<1>4. ASSUME NEW r \in Requests, NEW t \in Tokens, RefreshRefused(r, t)
      PROVE  StatusesCurrent'
  BY <1>2, <1>4 DEF RefreshRefused
<1>5. ASSUME NEW r \in Requests, Answer(r) PROVE StatusesCurrent'
  <2>1. PICK n \in Tokens \union {NoToken} : AnswerWith(r, n)
    BY <1>5 DEF Answer
  <2>2. /\ req'[r].op = req[r].op /\ req'[r].user = req[r].user
        /\ req'[r].status = req[r].status /\ status' = status
    BY <1>1, <2>1 DEF AnswerWith, TypeOK, RequestState
  <2>3. Entitled(req[r])
    BY <1>5 DEF Answer
  <2>4. Entitled(req[r])'
    BY <2>2, <2>3 DEF Entitled, Written
  <2>5. QED
    BY <2>4 DEF Serial
<1>6. ASSUME NEW r \in Requests, Commit(r) \/ Rollback(r) PROVE StatusesCurrent'
  BY <1>1, <1>6 DEF Commit, Rollback, Serial, TypeOK, Idle
<1>7. ASSUME NEW t \in Tokens, Expire(t) PROVE StatusesCurrent'
  BY <1>2, <1>7 DEF Expire
<1>8. CASE UNCHANGED vars
  BY <1>2, <1>8 DEF vars
<1>9. ASSUME NEW r \in Requests, Lock(r) PROVE StatusesCurrent'
  BY <1>2, <1>9 DEF Lock
<1>10. ASSUME NEW r \in Requests, Activate(r) PROVE StatusesCurrent'
  <2>1. /\ Entitled(req[r]) /\ req[r].op = "complete" /\ status' = StatusAfter(r)
        /\ req[r].user \in Users /\ status \in [Users -> Statuses]
        /\ req'[r] = [Idle EXCEPT !.op = "session", !.pc = "read", !.user = req[r].user]
    BY <1>1, <1>10 DEF Activate, TypeOK
  <2>2. status'[req[r].user] = "active"
    BY <2>1, ConstantsAssumption DEF Entitled, Written, StatusAfter
  <2>3. Entitled(req[r])'
    BY <2>1, <2>2 DEF Entitled, Idle
  <2>4. QED
    BY <2>3 DEF Serial
<1>11. QED
  BY <1>1, <1>3, <1>4, <1>5, <1>6, <1>7, <1>8, <1>9, <1>10, ReadsBegin DEF Next

\* A row becomes live when the transaction that minted its token commits.
LEMMA GoesLive ==
    ASSUME RotationInv, [Next]_vars, NEW t \in Tokens, row[t] # "live", row'[t] = "live"
    PROVE  \E r \in Requests : Commit(r) /\ req[r].new = t /\ Mints(req[r].op)
                               /\ subject[t] = req[r].user
<1>1. TypeOK /\ WritesFit
  BY DEF RotationInv
<1>2. ASSUME NEW r \in Requests, Read(r) PROVE row' = row
  BY <1>1, <1>2, ReadsBegin DEF Begin, RefreshRefused
<1>3. ASSUME NEW r \in Requests, Lock(r) \/ Answer(r) \/ Activate(r) \/ Rollback(r)
      PROVE  row' = row
  BY <1>3 DEF Lock, Answer, AnswerWith, Activate, Rollback
<1>4. ASSUME NEW x \in Tokens, Expire(x) PROVE row' = row
  BY <1>4 DEF Expire
<1>5. PICK r \in Requests : Commit(r)
  BY <1>2, <1>3, <1>4 DEF Next, vars
<1>6. row'[t] = RowAfter(r, t)
  BY <1>5 DEF Commit
<1>7. req[r].new = t
  BY <1>6 DEF RowAfter
<1>8. QED
  BY <1>1, <1>5, <1>7, ConstantsAssumption DEF WritesFit

\* Served one at a time, a session is opened or renewed only for an active user.
THEOREM SerialSessionsActive == Serial => (Spec => SessionsStartActive)
<1> SUFFICES ASSUME Serial PROVE Spec => SessionsStartActive
  OBVIOUS
<1> DEFINE Started ==
      \A t \in Tokens :
          row[t] # "live" /\ row'[t] = "live" => status'[subject'[t]] = "active"
<1>1. Init => StatusesCurrent
  BY DEF Init, StatusesCurrent, Idle
<1>2. RotationInv /\ StatusesCurrent /\ [Next]_vars => StatusesCurrent'
  BY EntitledNext
<1>3. RotationInv /\ StatusesCurrent /\ [Next]_vars => [Started]_vars
  <2> SUFFICES ASSUME RotationInv, StatusesCurrent, [Next]_vars, NEW t \in Tokens,
                      row[t] # "live", row'[t] = "live"
               PROVE  status'[subject'[t]] = "active"
    OBVIOUS
  <2>1. PICK r \in Requests : /\ Commit(r) /\ Mints(req[r].op) /\ subject[t] = req[r].user
    BY GoesLive
  <2>2. /\ subject' = subject /\ status' = StatusAfter(r) /\ Entitled(req[r])
        /\ status \in [Users -> Statuses] /\ req[r].user \in Users
        /\ req[r].op \in {"login", "refresh", "verify", "complete", "session"}
    BY <2>1 DEF Commit, StatusesCurrent, RotationInv, TypeOK, Mints
  <2>3. QED
    BY <2>1, <2>2, ConstantsAssumption DEF StatusAfter, Entitled, Written
<1>4. QED
  BY <1>1, <1>2, <1>3, RotationInvariance, PTL DEF Spec, SessionsStartActive

\* A token refused for what its row says is never live and unexpired afterwards,
\* however many requests run at once.
THEOREM StoredRefusalsFinal == Spec => []RefusalsOfStoredFinal
<1>1. Init => RefusedAreOver
  BY DEF Init, RefusedAreOver
<1>2. RotationInv /\ RotationInv' /\ RefusedAreOver /\ [Next]_vars => RefusedAreOver'
  <2> SUFFICES ASSUME RotationInv, RotationInv', RefusedAreOver, [Next]_vars
               PROVE  RefusedAreOver'
    OBVIOUS
  <2>1. TypeOK /\ WritesFit /\ \A p \in refused : p[1] \in Tokens
    BY DEF RotationInv, TypeOK
  <2>2. ASSUME UNCHANGED <<row, refused>>, expired \subseteq expired' PROVE RefusedAreOver'
    BY <2>2 DEF RefusedAreOver
  <2>3. ASSUME NEW r \in Requests, NEW t \in Tokens, RefreshRefused(r, t)
        PROVE  RefusedAreOver'
    BY <2>1, <2>3 DEF RefreshRefused, RefusedAreOver, Accepted, TypeOK, RowStates
  <2>4. ASSUME NEW r \in Requests, Commit(r) PROVE RefusedAreOver'
    <3>1. /\ refused' = refused /\ expired' = expired
          /\ \A t \in Tokens : row'[t] = RowAfter(r, t)
      BY <2>4 DEF Commit
    <3>2. \A t \in Tokens : row[t] = "revoked" => row'[t] = "revoked"
      BY <2>1, <3>1, ConstantsAssumption DEF RowAfter, WritesFit
    <3>3. QED
      BY <2>1, <3>1, <3>2 DEF RefusedAreOver
  <2>5. ASSUME NEW r \in Requests, NEW txn, Begin(r, txn) PROVE RefusedAreOver'
    BY <2>2, <2>5 DEF Begin
  <2>6. ASSUME NEW r \in Requests, Lock(r) \/ Answer(r) \/ Activate(r) \/ Rollback(r)
        PROVE  RefusedAreOver'
    BY <2>2, <2>6 DEF Lock, Answer, AnswerWith, Activate, Rollback
  <2>7. ASSUME NEW t \in Tokens, Expire(t) PROVE RefusedAreOver'
    BY <2>2, <2>7 DEF Expire
  <2>8. CASE UNCHANGED vars
    BY <2>2, <2>8 DEF vars
  <2>9. QED
    BY <2>1, <2>3, <2>4, <2>5, <2>6, <2>7, <2>8, ReadsBegin DEF Next
<1>3. RefusedAreOver => RefusalsOfStoredFinal
  BY DEF RefusedAreOver, RefusalsOfStoredFinal
<1>4. QED
  BY <1>1, <1>2, <1>3, RotationInvariance, PTL DEF Spec

----------------------------------------------------------------------------
(* How often a token is exchanged                                          *)

\* The exchanges of a token and those under way, after a step.
LEMMA ReuseKept ==
    ASSUME NEW C, NEW D, NEW P, NEW Q, NEW N \in Nat,
           IsFiniteSet(C), IsFiniteSet(P), Cardinality(C) + Cardinality(P) <= N,
           Q \subseteq P,
           D = C \/ \E c : D = C \union {c} /\ \E r \in P : r \notin Q
    PROVE  IsFiniteSet(D) /\ Cardinality(D) + Cardinality(Q) <= N
<1>1. Cardinality(C) \in Nat /\ Cardinality(P) \in Nat
  BY FS_CardinalityType
<1>2. IsFiniteSet(Q) /\ Cardinality(Q) \in Nat /\ Cardinality(Q) <= Cardinality(P)
  BY FS_Subset, FS_CardinalityType
<1>3. CASE D = C
  BY <1>1, <1>2, <1>3
<1>4. CASE \E c : D = C \union {c} /\ \E r \in P : r \notin Q
  <2>1. PICK c : D = C \union {c} /\ \E r \in P : r \notin Q
    BY <1>4
  <2>2. IsFiniteSet(D) /\ (Cardinality(D) = Cardinality(C) \/ Cardinality(D) = Cardinality(C) + 1)
    BY <2>1, FS_AddElement
  <2>3. PICK r \in P : r \notin Q
    BY <2>1
  <2>4. IsFiniteSet(P \ {r}) /\ Cardinality(P \ {r}) = Cardinality(P) - 1
    BY <2>3, FS_RemoveElement
  <2>5. Q \subseteq P \ {r}
    BY <2>3
  <2>6. Cardinality(Q) <= Cardinality(P \ {r})
    BY <2>4, <2>5, FS_Subset
  <2>7. QED
    BY <1>1, <1>2, <2>2, <2>4, <2>6
<1>5. QED
  BY <1>3, <1>4

LEMMA ReuseNext ==
    ASSUME RotationInv, ReuseInv, [Next]_vars
    PROVE  ReuseInv'
<1> USE RequestsAssumption
<1>1. TypeOK /\ RowsFit /\ WritesFit /\ RotationSpendsParent
  BY DEF RotationInv
<1>2. Cardinality(Requests) \in Nat
  BY FS_CardinalityType
<1>3. \A t : /\ IsFiniteSet(Pending(t))
             /\ Cardinality(Pending(t)) \in Nat
             /\ Cardinality(Pending(t)) <= Cardinality(Requests)
  <2>1. \A t : Pending(t) \subseteq Requests
    BY DEF Pending
  <2>2. QED
    BY <2>1, FS_Subset, FS_CardinalityType
<1> SUFFICES ASSUME NEW t \in Tokens
             PROVE  /\ IsFiniteSet(Children(t)')
                    /\ Cardinality(Children(t)') + Cardinality(Pending(t)') <= Cardinality(Requests)
  BY DEF ReuseInv
<1>4. /\ IsFiniteSet(Children(t))
      /\ Cardinality(Children(t)) + Cardinality(Pending(t)) <= Cardinality(Requests)
  BY DEF ReuseInv
<1>5. ASSUME Children(t)' = Children(t), Pending(t)' \subseteq Pending(t)
      PROVE  /\ IsFiniteSet(Children(t)')
             /\ Cardinality(Children(t)') + Cardinality(Pending(t)') <= Cardinality(Requests)
  BY <1>2, <1>3, <1>4, <1>5, ReuseKept
<1>6. ASSUME NEW r \in Requests, NEW txn, WellFormed(txn), Begin(r, txn)
      PROVE  /\ IsFiniteSet(Children(t)')
             /\ Cardinality(Children(t)') + Cardinality(Pending(t)') <= Cardinality(Requests)
  <2>1. Children(t)' = Children(t)
    BY <1>6 DEF Begin, Children
  <2>2. req' = [req EXCEPT ![r] = txn]
    BY <1>6 DEF Begin
  <2>3. CASE txn.op = "refresh" /\ txn.presented = t
    <3>1. row[t] = "live"
      BY <1>6, <2>3 DEF WellFormed, Current
    <3>2. Children(t) = {}
      BY <1>1, <3>1, ConstantsAssumption DEF Children, RotationSpendsParent
    <3>3. Pending(t)' \subseteq Requests
      BY DEF Pending
    <3>4. Cardinality(Pending(t)') \in Nat /\ Cardinality(Pending(t)') <= Cardinality(Requests)
      BY <3>3, FS_Subset, FS_CardinalityType
    <3>5. IsFiniteSet({}) /\ Cardinality({}) = 0
      BY FS_EmptySet
    <3>6. QED
      BY <1>2, <2>1, <3>2, <3>4, <3>5
  <2>4. CASE ~(txn.op = "refresh" /\ txn.presented = t)
    <3>1. Pending(t)' \subseteq Pending(t)
      BY <1>1, <2>2, <2>4 DEF Pending, TypeOK
    <3>2. QED
      BY <1>5, <2>1, <3>1
  <2>5. QED
    BY <2>3, <2>4
<1>7. ASSUME NEW r \in Requests, NEW x \in Tokens, RefreshRefused(r, x)
      PROVE  Children(t)' = Children(t) /\ Pending(t)' = Pending(t)
  BY <1>7 DEF RefreshRefused, Children, Pending
<1>8. ASSUME NEW r \in Requests, Answer(r)
      PROVE  Children(t)' = Children(t) /\ Pending(t)' = Pending(t)
  <2>1. PICK n \in Tokens \union {NoToken} : AnswerWith(r, n)
    BY <1>8 DEF Answer
  <2>2. /\ req'[r].op = req[r].op /\ req'[r].presented = req[r].presented
        /\ req'[r].pc = "answered" /\ req[r].pc = "read"
        /\ \A s \in Requests : s # r => req'[s] = req[s]
    BY <1>1, <1>8, <2>1 DEF Answer, AnswerWith, TypeOK, RequestState
  <2>3. Pending(t)' = Pending(t)
    BY <2>2 DEF Pending
  <2>4. Children(t)' = Children(t)
    BY <2>1 DEF AnswerWith, Children
  <2>5. QED
    BY <2>3, <2>4
<1>9. ASSUME NEW r \in Requests, Commit(r)
      PROVE  /\ IsFiniteSet(Children(t)')
             /\ Cardinality(Children(t)') + Cardinality(Pending(t)') <= Cardinality(Requests)
  <2> DEFINE new == req[r].new
  <2>1. /\ \A x \in Tokens :
             /\ row'[x] = RowAfter(r, x)
             /\ rotatedFrom'[x] = IF x = new /\ req[r].op = "refresh" THEN req[r].presented
                                  ELSE rotatedFrom[x]
        /\ req' = [req EXCEPT ![r] = Idle] /\ req[r].pc = "answered"
    BY <1>9 DEF Commit
  <2>2. Pending(t)' \subseteq Pending(t) /\ r \notin Pending(t)'
    BY <1>1, <2>1 DEF Pending, TypeOK, Idle
  <2>3. \A x \in Tokens : row'[x] # "none" <=> row[x] # "none" \/ x = new
    <3>1. \A x \in req[r].revokes : row[x] # "none"
      BY <1>1 DEF WritesFit
    <3>2. QED
      BY <2>1, <3>1 DEF RowAfter
  <2>4. new \in Tokens => row[new] = "none" /\ rotatedFrom[new] = NoToken
    BY <1>1, ConstantsAssumption DEF WritesFit, RowsFit
  <2>5. t # NoToken
    BY ConstantsAssumption
  <2>6. CASE r \in Pending(t) /\ new \in Tokens
    <3>1. Children(t)' = Children(t) \union {new}
      BY <2>1, <2>3, <2>4, <2>5, <2>6 DEF Children, Pending
    <3>2. \E c : Children(t)' = Children(t) \union {c}
                   /\ \E s \in Pending(t) : s \notin Pending(t)'
      BY <2>2, <2>6, <3>1
    <3>3. QED
      BY <1>2, <1>3, <1>4, <2>2, <3>2, ReuseKept
  <2>7. CASE ~(r \in Pending(t) /\ new \in Tokens)
    <3>1. \A x \in Tokens : x = new => ~(req[r].op = "refresh" /\ req[r].presented = t)
      BY <2>1, <2>7 DEF Pending
    <3>2. Children(t)' = Children(t)
      BY <2>1, <2>3, <2>4, <2>5, <3>1 DEF Children
    <3>3. QED
      BY <1>5, <2>2, <3>2
  <2>8. QED
    BY <2>6, <2>7
<1>10. ASSUME NEW r \in Requests, Rollback(r)
       PROVE  Children(t)' = Children(t) /\ Pending(t)' \subseteq Pending(t)
  BY <1>1, <1>10 DEF Rollback, Children, Pending, TypeOK, Idle
<1>11. ASSUME NEW x \in Tokens, Expire(x)
       PROVE  Children(t)' = Children(t) /\ Pending(t)' = Pending(t)
  BY <1>11 DEF Expire, Children, Pending
<1>12. CASE UNCHANGED vars
  <2>1. Children(t)' = Children(t) /\ Pending(t)' = Pending(t)
    BY <1>12 DEF vars, Children, Pending
  <2>2. QED
    BY <1>5, <2>1
<1>13. ASSUME NEW r \in Requests, Lock(r)
       PROVE  Children(t)' = Children(t) /\ Pending(t)' = Pending(t)
  BY <1>13 DEF Lock, Children, Pending
<1>14. ASSUME NEW r \in Requests, Activate(r)
       PROVE  Children(t)' = Children(t) /\ Pending(t)' \subseteq Pending(t)
  BY <1>1, <1>14 DEF Activate, Children, Pending, TypeOK, Idle
<1>15. QED
  BY <1>1, <1>5, <1>6, <1>7, <1>8, <1>9, <1>10, <1>11, <1>12, <1>13, <1>14, ReadsBegin
     DEF Next

\* However many requests run at once, a token is exchanged at most as often as they are.
THEOREM ReuseIsBounded == Spec => []ReuseBoundedByConcurrency
<1>1. Init => ReuseInv
  <2> SUFFICES ASSUME Init, NEW t \in Tokens
               PROVE  /\ IsFiniteSet(Children(t))
                      /\ Cardinality(Children(t)) + Cardinality(Pending(t))
                           <= Cardinality(Requests)
    BY DEF ReuseInv
  <2>1. Children(t) = {} /\ Pending(t) = {}
    BY DEF Init, Children, Pending, Idle
  <2>2. IsFiniteSet({}) /\ Cardinality({}) = 0 /\ Cardinality(Requests) \in Nat
    BY RequestsAssumption, FS_EmptySet, FS_CardinalityType
  <2>3. QED
    BY <2>1, <2>2
<1>2. RotationInv /\ ReuseInv /\ [Next]_vars => ReuseInv'
  BY ReuseNext
<1>3. ReuseInv => ReuseBoundedByConcurrency
  <2> SUFFICES ASSUME ReuseInv, NEW t \in Tokens
               PROVE  Cardinality(Children(t)) <= Cardinality(Requests)
    BY DEF ReuseBoundedByConcurrency
  <2>1. Pending(t) \subseteq Requests
    BY DEF Pending
  <2>2. /\ Cardinality(Pending(t)) \in Nat /\ Cardinality(Requests) \in Nat
        /\ Cardinality(Children(t)) \in Nat
    BY <2>1, RequestsAssumption, FS_Subset, FS_CardinalityType DEF ReuseInv
  <2>3. QED
    BY <2>2 DEF ReuseInv
<1>4. QED
  BY <1>1, <1>2, <1>3, RotationInvariance, PTL DEF Spec

----------------------------------------------------------------------------
(* Who can wait for whom                                                   *)

LEMMA LockInit == Init => LockInv
<1>1. Init => TypeOK
  BY ConstantsAssumption DEF Init, TypeOK, Idle, RequestState, Ops, RowStates
<1>2. Init => LocksFit /\ UpdatesFit
  BY DEF Init, LocksFit, UpdatesFit, UpdatesOf, Idle
<1>3. QED
  BY <1>1, <1>2 DEF LockInv

LEMMA LockNext ==
    ASSUME LockInv, TypeOK', [Next]_vars
    PROVE  LockInv'
<1> USE DEF LockInv
<1> DEFINE Fits(txn, held) ==
      /\ txn.pc = "idle" => held = {}
      /\ held \subseteq Updates(txn)
      /\ \A x \in held, y \in Updates(txn) : FlushedBefore(txn.op, y, x) => y \in held
<1>1. ASSUME NEW r \in Requests,
             \A s \in Requests \ {r} : req'[s] = req[s] /\ locks'[s] = locks[s],
             Fits(req'[r], locks'[r]), UpdatesOf(req'[r])
      PROVE  LockInv'
  <2>1. LocksFit'
    <3> SUFFICES ASSUME NEW s \in Requests PROVE Fits(req'[s], locks'[s])
      BY DEF LocksFit, Updates, FlushedBefore
    <3>1. CASE s = r
      BY <1>1, <3>1
    <3>2. CASE s # r
      <4>1. Fits(req[s], locks[s])
        BY DEF LocksFit
      <4>2. QED
        BY <1>1, <3>2, <4>1
    <3>3. QED
      BY <3>1, <3>2
  <2>2. UpdatesFit'
    BY <1>1 DEF UpdatesFit, UpdatesOf
  <2>3. QED
    BY <2>1, <2>2
<1>2. ASSUME UNCHANGED <<req, locks>> PROVE LockInv'
  BY <1>2 DEF LocksFit, UpdatesFit, Updates, UpdatesOf, FlushedBefore
<1>3. ASSUME NEW r \in Requests, NEW txn, WellFormed(txn), Begin(r, txn)
      PROVE  LockInv'
  <2>1. req[r].pc = "idle" /\ req' = [req EXCEPT ![r] = txn] /\ locks' = locks
    BY <1>3 DEF Begin
  <2>2. locks[r] = {}
    BY <2>1 DEF LocksFit, TypeOK
  <2>3. QED
    BY <1>1, <1>3, <2>1, <2>2 DEF WellFormed, TypeOK
<1>4. ASSUME NEW r \in Requests, NEW t \in Tokens, RefreshRefused(r, t)
      PROVE  LockInv'
  BY <1>2, <1>4 DEF RefreshRefused
<1>5. ASSUME NEW r \in Requests, Lock(r)
      PROVE  LockInv'
  <2>1. PICK x \in NextRows(r) : locks' = [locks EXCEPT ![r] = @ \union {x}]
    BY <1>5 DEF Lock
  <2>2. req' = req /\ locks'[r] = locks[r] \union {x}
        /\ \A s \in Requests \ {r} : locks'[s] = locks[s]
    BY <1>5, <2>1 DEF Lock, TypeOK
  <2>3. Fits(req[r], locks[r])
    BY DEF LocksFit
  <2>4. x \in Updates(req[r])
        /\ \A y \in Updates(req[r]) : FlushedBefore(req[r].op, y, x) => y \in locks[r]
    BY <2>1 DEF NextRows, Unflushed
  <2>5. Fits(req'[r], locks'[r])
    BY <1>5, <2>2, <2>3, <2>4 DEF Lock
  <2>6. QED
    BY <1>1, <2>2, <2>5 DEF UpdatesFit
<1>6. ASSUME NEW r \in Requests, Answer(r)
      PROVE  LockInv'
  <2>1. PICK n \in Tokens \union {NoToken} : AnswerWith(r, n)
    BY <1>6 DEF Answer
  <2>2. req' = [req EXCEPT ![r] = [@ EXCEPT !.pc = "answered", !.new = n]] /\ locks' = locks
    BY <2>1 DEF AnswerWith
  <2>3. /\ req'[r].op = req[r].op /\ req'[r].user = req[r].user
        /\ req'[r].status = req[r].status /\ req'[r].verifies = req[r].verifies
        /\ req'[r].revokes = req[r].revokes /\ req'[r].pc = "answered"
        /\ \A s \in Requests \ {r} : req'[s] = req[s]
    BY <2>2 DEF TypeOK, RequestState
  <2>4. Updates(req'[r]) = Updates(req[r])
    BY <2>3 DEF Updates
  <2>5. Fits(req[r], locks[r]) /\ UpdatesOf(req[r])
    BY DEF LocksFit, UpdatesFit
  <2>6. Fits(req'[r], locks'[r]) /\ UpdatesOf(req'[r])
    BY <2>2, <2>3, <2>4, <2>5 DEF UpdatesOf
  <2>7. QED
    BY <1>1, <2>2, <2>3, <2>6
<1>7. ASSUME NEW r \in Requests, Activate(r) \/ Commit(r) \/ Rollback(r)
      PROVE  LockInv'
  <2> DEFINE opened == [Idle EXCEPT !.op = "session", !.pc = "read", !.user = req[r].user]
  <2>1. UpdatesOf(Idle) /\ UpdatesOf(opened)
    BY DEF UpdatesOf, Idle
  <2>2. /\ locks' = [locks EXCEPT ![r] = {}]
        /\ req' = [req EXCEPT ![r] = Idle] \/ req' = [req EXCEPT ![r] = opened]
    BY <1>7 DEF Activate, Commit, Rollback
  <2> HIDE DEF opened
  <2>3. /\ locks'[r] = {} /\ (req'[r] = Idle \/ req'[r] = opened)
        /\ \A s \in Requests \ {r} : req'[s] = req[s] /\ locks'[s] = locks[s]
    BY <2>2 DEF TypeOK
  <2>4. UpdatesOf(req'[r])
    BY <2>1, <2>3
  <2>5. Fits(req'[r], locks'[r])
    BY <2>3
  <2>6. QED
    BY <1>1, <2>3, <2>4, <2>5
<1>8. ASSUME NEW t \in Tokens, Expire(t) PROVE LockInv'
  BY <1>2, <1>8 DEF Expire
<1>9. CASE UNCHANGED vars
  BY <1>2, <1>9 DEF vars
<1>10. QED
  BY <1>3, <1>4, <1>5, <1>6, <1>7, <1>8, <1>9, ReadsBegin DEF Next

\* Rows of refresh_tokens come last and in the order of their keys: requests that wait
\* for each other in a circle do not wait for them.
LEMMA NoTokenCircle ==
    ASSUME LockInv, KeysOrdered, NEW S \in SUBSET Requests, WaitForEachOther(S),
           NEW q \in S, NEW s \in S, NEW z \in NextRows(q), z \in locks[s], q # s
    PROVE  z[1] # "refresh_tokens"
<1> SUFFICES ASSUME z[1] = "refresh_tokens" PROVE FALSE
  OBVIOUS
<1>1. ASSUME NEW r \in S, NEW x \in NextRows(r), x[1] = "refresh_tokens"
      PROVE  \E t \in Tokens : x = <<"refresh_tokens", t>>
  <2>1. x \in Updates(req[r]) /\ req[r].revokes \subseteq Tokens
    BY DEF NextRows, Unflushed, LockInv, TypeOK, RequestState
  <2>2. QED
    BY <1>1, <2>1 DEF Updates
<1> DEFINE Awaited == {t \in Tokens : \E r \in S, v \in S :
                          /\ r # v
                          /\ <<"refresh_tokens", t>> \in NextRows(r)
                          /\ <<"refresh_tokens", t>> \in locks[v]}
<1>2. Awaited # {}
  <2>1. PICK t \in Tokens : z = <<"refresh_tokens", t>>
    BY <1>1
  <2>2. QED
    BY <2>1
<1>3. PICK t \in Awaited : \A y \in Awaited : <<t, y>> \notin KeyOrder
  <2>1. Awaited \in SUBSET Tokens
    OBVIOUS
  <2>2. QED
    BY <1>2, <2>1, KeyOrderAssumption
<1>4. PICK v \in S : <<"refresh_tokens", t>> \in locks[v]
  OBVIOUS
<1>5. PICK w \in S : v # w /\ NextRows(v) \intersect locks[w] # {}
  BY DEF WaitForEachOther, Waits
<1>6. PICK y \in NextRows(v) : y \in locks[w]
  BY <1>5
<1>7. y \in Updates(req[v]) /\ y \notin locks[v]
  BY <1>6 DEF NextRows, Unflushed
<1>8. ~FlushedBefore(req[v].op, y, <<"refresh_tokens", t>>)
  BY <1>4, <1>7 DEF LockInv, LocksFit
<1>9. y[1] = "refresh_tokens"
  BY <1>8 DEF FlushedBefore
<1>10. PICK u \in Tokens : y = <<"refresh_tokens", u>>
  BY <1>1, <1>6, <1>9
<1>11. u \in Awaited
  BY <1>5, <1>6, <1>10
<1>12. <<u, t>> \notin KeyOrder /\ u # t
  BY <1>4, <1>7, <1>8, <1>10 DEF FlushedBefore
<1>13. QED
  BY <1>3, <1>11, <1>12 DEF KeysOrdered

\* Whoever holds rows of two tables or waits for a second one does so in its own order.
LEMMA TwoTables ==
    ASSUME LockInv, NEW r \in Requests, NEW x \in locks[r], NEW y \in NextRows(r),
           y[1] # "refresh_tokens"
    PROVE  \/ /\ req[r].op = "complete"
              /\ x = <<"users", req[r].user>> /\ y = <<"auth_credentials", req[r].user>>
           \/ /\ req[r].op = "verify"
              /\ x = <<"auth_credentials", req[r].user>> /\ y = <<"users", req[r].user>>
<1> DEFINE txn == req[r]
<1>1. /\ x \in Updates(txn) /\ y \in Updates(txn) /\ y \notin locks[r]
      /\ ~FlushedBefore(txn.op, y, x)
      /\ UpdatesOf(txn)
  BY DEF LockInv, LocksFit, UpdatesFit, NextRows, Unflushed
<1>2. x[1] # "refresh_tokens" /\ x # y
  BY <1>1 DEF FlushedBefore
<1>3. /\ \/ x = <<"users", txn.user>> /\ txn.status # "unchanged"
         \/ x = <<"auth_credentials", txn.user>> /\ (txn.op = "reset" \/ txn.verifies)
      /\ \/ y = <<"users", txn.user>> /\ txn.status # "unchanged"
         \/ y = <<"auth_credentials", txn.user>> /\ (txn.op = "reset" \/ txn.verifies)
  BY <1>1, <1>2 DEF Updates
<1>4. txn.op \in {"verify", "complete"}
  BY <1>2, <1>3, <1>1 DEF UpdatesOf
<1>5. QED
  BY <1>1, <1>2, <1>3, <1>4 DEF FlushedBefore

\* For any number of requests, users and tokens, a deadlock has the two verifications
\* of one email in it.
THEOREM OnlyVerificationsDeadlock ==
    KeysOrdered => (Spec => []DeadlocksAreVerifications)
<1> SUFFICES ASSUME KeysOrdered PROVE Spec => []DeadlocksAreVerifications
  OBVIOUS
<1>1. LockInv /\ TypeOK' /\ [Next]_vars => LockInv'
  BY LockNext
<1>2. LockInv => DeadlocksAreVerifications
  <2> SUFFICES ASSUME LockInv, NEW S \in SUBSET Requests, S # {}, WaitForEachOther(S)
               PROVE  \E r, s \in S : /\ req[r].op = "complete" /\ req[s].op = "verify"
                                      /\ req[r].user = req[s].user
    BY DEF DeadlocksAreVerifications
  <2>1. ASSUME NEW q \in S
        PROVE  \E s \in S, x \in NextRows(q) : x \in locks[s] /\ x[1] # "refresh_tokens"
    <3>1. PICK s \in S : q # s /\ NextRows(q) \intersect locks[s] # {}
      BY DEF WaitForEachOther, Waits
    <3>2. PICK x \in NextRows(q) : x \in locks[s]
      BY <3>1
    <3>3. x[1] # "refresh_tokens"
      BY <3>1, <3>2, NoTokenCircle
    <3>4. QED
      BY <3>2, <3>3
  <2>2. PICK q \in S : TRUE
    OBVIOUS
  <2>3. PICK s \in S, x \in NextRows(q) : x \in locks[s] /\ x[1] # "refresh_tokens"
    BY <2>1
  <2>4. PICK v \in S, y \in NextRows(s) : y \in locks[v] /\ y[1] # "refresh_tokens"
    BY <2>1
  <2>5. PICK w \in S, z \in NextRows(v) : z \in locks[w] /\ z[1] # "refresh_tokens"
    BY <2>1
  <2>6. \/ /\ req[s].op = "complete" /\ y = <<"auth_credentials", req[s].user>>
        \/ /\ req[s].op = "verify" /\ y = <<"users", req[s].user>>
    BY <2>3, <2>4, TwoTables
  <2>7. \/ /\ req[v].op = "complete" /\ y = <<"users", req[v].user>>
        \/ /\ req[v].op = "verify" /\ y = <<"auth_credentials", req[v].user>>
    BY <2>4, <2>5, TwoTables
  <2>8. QED
    BY <2>6, <2>7
<1>3. QED
  BY LockInit, Typing, <1>1, <1>2, PTL DEF Spec
============================================================================
