-------------------------- MODULE CookieTokensProofs --------------------------
(***************************************************************************)
(* The theorem of CookieFlows about what a browser may rely on: the        *)
(* refresh token in its jar is accepted. A token is minted for an account  *)
(* that is active for good, and its row is stored unless a commit fails;   *)
(* what revokes it is a logout, a reset, or the refresh that stored its    *)
(* child (SessionsFit). With what CookieHoldersProofs says of a rotated    *)
(* token, that leaves the cases HeldTokensAccepted lists, and no other.    *)
(***************************************************************************)
EXTENDS CookieHoldersProofs

----------------------------------------------------------------------------
(* What a handler leaves to its commit                                     *)

\* The revocations left in w end sessions, or replace what they revoke by a token
\* that is stored with them.
Justified(w, rows) ==
    \A t \in w.tx.revoke \intersect Tokens :
        \/ w.op \in {"logout", "reset"}
        \/ \E n \in w.tx.store \intersect Tokens : rows[n].parent = t

\* What a handler of request r changes of accounts and sessions: it revokes no session
\* at once, and leaves what it mints, for an active account, to be stored.
Booked(r) ==
    /\ UNCHANGED <<stored, unsaved, ended>>
    /\ revoked' \intersect Tokens = revoked \intersect Tokens
    /\ \A e \in Emails : user[e] = "active" => user'[e] = "active"
    /\ \A t \in Tokens : session[t] # None => session'[t] = session[t]
    /\ \E w : /\ wire' = [wire EXCEPT ![r] = w]
              /\ Justified(w, session')
              /\ \A t \in Tokens : session[t] = None /\ session'[t] # None =>
                     t \in w.tx.store /\ user'[session'[t].email] = "active"

LEMMA RefuseBooked ==
    ASSUME FlowInv, NEW r \in Requests, Refuse(r), UNCHANGED <<user, session, stored>>,
           revoked' \intersect Tokens = revoked \intersect Tokens
    PROVE  Booked(r)
<1>1. PICK w : w = Idle OBVIOUS
<1>2. w.tx.revoke = {} BY <1>1 DEF Idle, Nothing
<1>3. wire' = [wire EXCEPT ![r] = w] /\ UNCHANGED <<unsaved, ended>>
    BY <1>1 DEF Refuse, Over, history
<1>4. Justified(w, session') BY <1>2 DEF Justified
<1> QED BY <1>3, <1>4 DEF Booked

\* The record of an answer.
LEMMA AnswerBooked ==
    ASSUME FlowInv, NEW r \in Requests, NEW q \in RequestState, NEW set, NEW tx,
           Answer(r, q, set, tx), stored' = stored,
           revoked' \intersect Tokens = revoked \intersect Tokens,
           \A e \in Emails : user[e] = "active" => user'[e] = "active",
           \A t \in Tokens : session[t] # None => session'[t] = session[t],
           \A t \in tx.revoke \intersect Tokens :
               \/ q.op \in {"logout", "reset"}
               \/ \E n \in tx.store \intersect Tokens : session'[n].parent = t,
           \A t \in Tokens : session[t] = None /\ session'[t] # None =>
               t \in tx.store /\ user'[session'[t].email] = "active"
    PROVE  Booked(r)
<1>1. PICK pc : pc = IF tx = Nothing THEN "committed" ELSE "served" OBVIOUS
<1>2. PICK w : w = [q EXCEPT !.pc = pc, !.set = set, !.tx = tx] OBVIOUS
<1>3. w.op = q.op /\ w.tx = tx BY <1>2 DEF RequestState
<1>4. wire' = [wire EXCEPT ![r] = w] /\ UNCHANGED <<unsaved, ended>>
    BY <1>1, <1>2 DEF Answer, history
<1>5. Justified(w, session') BY <1>3 DEF Justified
<1> QED BY <1>3, <1>4, <1>5 DEF Booked

\* The refusals, and a wrong guess, which revokes a code only.
LEMMA RefusalsBooked ==
    ASSUME FlowInv, NEW r \in Requests, NEW q \in RequestState, Fits(q),
           \/ Malformed(r, q) \/ LoginRefused(r, q) \/ OrganizationMissing(r, q)
           \/ \E e \in Emails : RegisterRefused(r, q, e) \/ ForgotUnknown(r, q, e)
           \/ ResendRefused(r, q) \/ VerifyRefused(r, q) \/ ResetRefused(r, q) \/ RefreshRefused(r, q)
           \/ VerifyWrong(r, q)
    PROVE  Booked(r)
<1>1. CASE VerifyWrong(r, q)
    <2>1. PICK o \in Compared(q) :
              revoked' = IF attempts[o] + 1 >= MaxAttempts THEN revoked \union {o} ELSE revoked
        BY <1>1 DEF VerifyWrong
    <2>2. o \in Otps BY ComparedFacts
    <2>3. o \notin Tokens BY <2>2, ConstantsAssumption
    <2>4. revoked' \intersect Tokens = revoked \intersect Tokens BY <2>1, <2>3
    <2>5. Refuse(r) /\ UNCHANGED <<user, session, stored>> BY <1>1 DEF VerifyWrong
    <2> QED BY <2>4, <2>5, RefuseBooked
<1>2. CASE ~VerifyWrong(r, q)
    <2>1. Refuse(r) /\ UNCHANGED tables
        BY <1>2 DEF Malformed, RegisterRefused, ForgotUnknown, LoginRefused, ResendRefused,
           VerifyRefused, ResetRefused, RefreshRefused, OrganizationMissing
    <2>2. UNCHANGED <<user, session, stored, revoked>> BY <2>1 DEF tables
    <2> QED BY <2>1, <2>2, RefuseBooked
<1> QED BY <1>1, <1>2

\* The handlers that issue a code revoke codes.
LEMMA IssuersBooked ==
    ASSUME FlowInv, NEW r \in Requests, NEW q \in RequestState,
           (\E e \in Emails : Register(r, q, e) \/ ForgotPassword(r, q, e)) \/ Resend(r, q)
    PROVE  Booked(r)
<1>1. \A e \in Emails : user[e] = "active" => user'[e] = "active"
    BY DEF Register, ForgotPassword, Resend, FlowInv, TypeOK
<1>2. PICK e, purpose : Issue(r, q, e, purpose) BY DEF Register, ForgotPassword, Resend
<1>3. PICK o \in Otps :
          /\ Answer(r, q, SetOtpToken(o),
                    [Nothing EXCEPT !.store = {o}, !.revoke = Active(e, purpose)])
          /\ UNCHANGED <<session, stored, revoked>>
    BY <1>2 DEF Issue
<1>4. PICK tx : tx = [Nothing EXCEPT !.store = {o}, !.revoke = Active(e, purpose)] OBVIOUS
<1>5. tx.revoke \intersect Tokens = {}
    BY <1>4, QueryFacts, ConstantsAssumption DEF Nothing
<1>6. PICK set : set = SetOtpToken(o) OBVIOUS
<1>7. Answer(r, q, set, tx) BY <1>3, <1>4, <1>6
<1> QED BY <1>1, <1>3, <1>5, <1>7, AnswerBooked

\* The handlers that answer with a session.
LEMMA SessionBooked ==
    ASSUME FlowInv, NEW r \in Requests, NEW q \in RequestState, NEW set, NEW tx,
           Answer(r, q, set, tx), stored' = stored,
           revoked' \intersect Tokens = revoked \intersect Tokens,
           \A e \in Emails : user[e] = "active" => user'[e] = "active",
           NEW t \in Tokens, session[t] = None, NEW row \in SessionRow,
           session' = [session EXCEPT ![t] = row], user'[row.email] = "active",
           tx.store = {t}, (\A s \in tx.revoke : s = row.parent)
    PROVE  Booked(r)
<1>1. session'[t] = row /\ \A s \in Tokens \ {t} : session'[s] = session[s]
    BY DEF FlowInv, TypeOK
<1>2. \A s \in Tokens : session[s] # None => session'[s] = session[s] BY <1>1
<1>3. \A s \in tx.revoke \intersect Tokens :
          \E n \in tx.store \intersect Tokens : session'[n].parent = s
    BY <1>1
<1>4. \A s \in Tokens : session[s] = None /\ session'[s] # None =>
          s \in tx.store /\ user'[session'[s].email] = "active"
    BY <1>1
<1> QED BY <1>2, <1>3, <1>4, AnswerBooked

LEMMA LoginBooked ==
    ASSUME FlowInv, NEW r \in Requests, NEW q \in RequestState, NEW e \in Emails, Login(r, q, e)
    PROVE  Booked(r)
<1>1. PICK t \in Tokens :
          /\ session[t] = None
          /\ session' = [session EXCEPT ![t] = [email |-> e, parent |-> None, at |-> now]]
          /\ Answer(r, q, SetSession(t), [Nothing EXCEPT !.store = {t}])
    BY DEF Login
<1>2. PICK row : row = [email |-> e, parent |-> None, at |-> now] OBVIOUS
<1>3. row \in SessionRow /\ row.email = e BY <1>2 DEF SessionRow, FlowInv, TypeOK
<1>4. PICK tx : tx = [Nothing EXCEPT !.store = {t}] OBVIOUS
<1>5. tx.store = {t} /\ tx.revoke = {} BY <1>4 DEF Nothing
<1>6. PICK set : set = SetSession(t) OBVIOUS
<1>7. session' = [session EXCEPT ![t] = row] /\ Answer(r, q, set, tx)
    BY <1>1, <1>2, <1>4, <1>6
<1>8. user[e] = "active" /\ UNCHANGED <<user, stored, revoked>> BY DEF Login
<1>9. /\ stored' = stored /\ revoked' \intersect Tokens = revoked \intersect Tokens
      /\ \A e2 \in Emails : user[e2] = "active" => user'[e2] = "active"
      /\ user'[row.email] = "active" /\ (\A s \in tx.revoke : s = row.parent)
    BY <1>3, <1>5, <1>8
<1> QED BY <1>1, <1>3, <1>5, <1>7, <1>9, SessionBooked

LEMMA RefreshBooked ==
    ASSUME FlowInv, NEW r \in Requests, NEW q \in RequestState, Fits(q), Refresh(r, q)
    PROVE  Booked(r)
<1>1. PICK t : t = q.cookie OBVIOUS
<1>2. q.op = "refresh" /\ t # None BY <1>1 DEF Refresh
<1>3. Minted("refresh_token", t) BY <1>1, <1>2, ReadsFacts DEF Fits
<1>4. t \in Tokens /\ session[t] # None BY <1>2, <1>3 DEF Minted
<1>5. session[t].email \in Emails BY <1>4 DEF FlowInv, TypeOK, SessionRow
<1>6. PICK n \in Tokens :
          /\ session[n] = None
          /\ session' = [session EXCEPT ![n] =
                            [email |-> session[t].email, parent |-> t, at |-> now]]
          /\ Answer(r, q, SetSession(n), [Nothing EXCEPT !.store = {n}, !.revoke = {t}])
    BY <1>1 DEF Refresh
<1>7. PICK row : row = [email |-> session[t].email, parent |-> t, at |-> now] OBVIOUS
<1>8. row \in SessionRow /\ row.email = session[t].email /\ row.parent = t
    BY <1>4, <1>5, <1>7 DEF SessionRow, FlowInv, TypeOK
<1>9. PICK tx : tx = [Nothing EXCEPT !.store = {n}, !.revoke = {t}] OBVIOUS
<1>10. tx.store = {n} /\ tx.revoke = {t} BY <1>9 DEF Nothing
<1>11. PICK set : set = SetSession(n) OBVIOUS
<1>12. session' = [session EXCEPT ![n] = row] /\ Answer(r, q, set, tx)
    BY <1>6, <1>7, <1>9, <1>11
<1>13. user[session[t].email] = "active" /\ UNCHANGED <<user, stored, revoked>>
    BY <1>1 DEF Refresh, Accepted
<1>14. /\ stored' = stored /\ revoked' \intersect Tokens = revoked \intersect Tokens
       /\ \A e \in Emails : user[e] = "active" => user'[e] = "active"
       /\ user'[row.email] = "active" /\ (\A s \in tx.revoke : s = row.parent)
    BY <1>8, <1>10, <1>13
<1> QED BY <1>6, <1>8, <1>10, <1>12, <1>14, SessionBooked

LEMMA CompleteBooked ==
    ASSUME FlowInv, NEW r \in Requests, NEW q \in RequestState, Fits(q),
           CompleteRegistration(r, q)
    PROVE  Booked(r)
<1>1. PICK o : o = q.cookie OBVIOUS
<1>2. o \in Compared(q) BY <1>1 DEF CompleteRegistration
<1>3. o \in Otps /\ code[o].email \in Emails BY <1>2, ComparedFacts
<1>4. PICK t \in Tokens :
          /\ session[t] = None
          /\ session' = [session EXCEPT ![t] =
                            [email |-> code[o].email, parent |-> None, at |-> now]]
          /\ Answer(r, q,
                    [c \in {"access_token", "refresh_token", "otp_token"} |->
                        IF c = "otp_token" THEN None ELSE t],
                    [Nothing EXCEPT !.store = {t}])
    BY <1>1 DEF CompleteRegistration
<1>5. PICK row : row = [email |-> code[o].email, parent |-> None, at |-> now] OBVIOUS
<1>6. row \in SessionRow /\ row.email = code[o].email
    BY <1>3, <1>5 DEF SessionRow, FlowInv, TypeOK
<1>7. PICK tx : tx = [Nothing EXCEPT !.store = {t}] OBVIOUS
<1>8. tx.store = {t} /\ tx.revoke = {} BY <1>7 DEF Nothing
<1>9. PICK set : set = [c \in {"access_token", "refresh_token", "otp_token"} |->
                           IF c = "otp_token" THEN None ELSE t]
    OBVIOUS
<1>10. session' = [session EXCEPT ![t] = row] /\ Answer(r, q, set, tx)
    BY <1>4, <1>5, <1>7, <1>9
<1>11. /\ user' = [user EXCEPT ![code[o].email] = "active"]
       /\ revoked' = revoked \union {o} /\ stored' = stored
    BY <1>1 DEF CompleteRegistration
<1>12. /\ user'[code[o].email] = "active"
       /\ \A e \in Emails : user[e] = "active" => user'[e] = "active"
    BY <1>3, <1>11 DEF FlowInv, TypeOK
<1>13. revoked' \intersect Tokens = revoked \intersect Tokens
    BY <1>3, <1>11, ConstantsAssumption
<1>14. stored' = stored /\ user'[row.email] = "active" /\ (\A s \in tx.revoke : s = row.parent)
    BY <1>6, <1>8, <1>11, <1>12
<1> QED BY <1>4, <1>6, <1>8, <1>10, <1>12, <1>13, <1>14, SessionBooked

\* Trading a code, resetting and logging out mint no session.
LEMMA OthersBooked ==
    ASSUME FlowInv, NEW r \in Requests, NEW q \in RequestState, Fits(q),
           VerifyForgot(r, q) \/ ResetPassword(r, q) \/ Logout(r, q)
    PROVE  Booked(r)
<1>1. CASE VerifyForgot(r, q)
    <2>1. PICK o : o = q.cookie OBVIOUS
    <2>2. o \in Otps BY <1>1, <2>1, ComparedFacts DEF VerifyForgot
    <2>3. PICK set, tx : tx = [Nothing EXCEPT !.revoke = {o}] /\ Answer(r, q, set, tx)
        BY <1>1, <2>1 DEF VerifyForgot
    <2>4. tx.revoke \intersect Tokens = {} BY <2>2, <2>3, ConstantsAssumption DEF Nothing
    <2>5. UNCHANGED <<user, session, stored, revoked>> BY <1>1 DEF VerifyForgot
    <2> QED BY <2>3, <2>4, <2>5, AnswerBooked
<1>2. CASE ResetPassword(r, q) \/ Logout(r, q)
    <2>1. q.op \in {"logout", "reset"} /\ UNCHANGED <<user, session, stored, revoked>>
        BY <1>2 DEF ResetPassword, Logout, tables
    <2>2. PICK set, tx : Answer(r, q, set, tx) BY <1>2 DEF ResetPassword, Logout
    <2> QED BY <2>1, <2>2, AnswerBooked
<1> QED BY <1>1, <1>2

LEMMA ServeBooked ==
    ASSUME FlowInv, NEW r \in Requests, NEW q \in Arriving(r), Serve(r, q)
    PROVE  Booked(r)
<1>1. q \in RequestState /\ Fits(q) BY ArrivingFits
<1> QED BY <1>1, RefusalsBooked, IssuersBooked, LoginBooked, RefreshBooked, CompleteBooked,
           OthersBooked DEF Serve
----------------------------------------------------------------------------
(* The sessions that commits and failures leave                            *)

\* The three parts of SessionsFit.
Kept(t) ==
    /\ user[session[t].email] = "active"
    /\ t \in stored \union unsaved \/ \E r \in Requests : t \in wire[r].tx.store

Spent(t) == t \in ended \/ \E n \in stored \intersect Tokens : session[n].parent = t

LEMMA SessionsFitParts ==
    SessionsFit <=> /\ \A t \in Tokens : session[t] # None => Kept(t)
                    /\ \A t \in revoked \intersect Tokens : Spent(t)
                    /\ \A r \in Requests : Justified(wire[r], session)
BY DEF SessionsFit, Kept, Spent, Justified

\* What was said of tokens stays true when a request r changes, whose writes are
\* stored, lost for good or still in its record.
LEMMA SettledSessions ==
    ASSUME FlowInv, SessionsFit, NEW r \in Requests, NEW w, wire' = [wire EXCEPT ![r] = w],
           UNCHANGED <<user, session>>,
           stored \subseteq stored', unsaved \subseteq unsaved', ended \subseteq ended',
           \/ w.tx = wire[r].tx /\ w.op = wire[r].op
           \/ w.tx = Nothing /\ wire[r].tx.store \intersect Tokens \subseteq stored' \union unsaved',
           \A t \in Tokens : t \in revoked' => t \in revoked \/ Spent(t)'
    PROVE  SessionsFit'
<1>1. \A s \in Requests : wire'[s] = IF s = r THEN w ELSE wire[s] BY DEF FlowInv, TypeOK
<1>2. Nothing.store = {} /\ Nothing.revoke = {} BY DEF Nothing
<1>3. /\ \A t \in Tokens : session[t] # None => Kept(t)
      /\ \A t \in revoked \intersect Tokens : Spent(t)
      /\ \A s \in Requests : Justified(wire[s], session)
    BY SessionsFitParts
<1>4. ASSUME NEW t \in Tokens, session'[t] # None PROVE Kept(t)'
    <2>1. Kept(t) BY <1>3, <1>4
    <2>2. ASSUME NEW s \in Requests, t \in wire[s].tx.store
          PROVE  t \in stored' \union unsaved' \/ \E s2 \in Requests : t \in wire'[s2].tx.store
        <3>1. CASE s # r BY <1>1, <2>2, <3>1
        <3>2. CASE s = r /\ w.tx = wire[r].tx BY <1>1, <2>2, <3>2
        <3>3. CASE s = r /\ wire[r].tx.store \intersect Tokens \subseteq stored' \union unsaved'
            BY <2>2, <3>3
        <3> QED BY <3>1, <3>2, <3>3
    <2> QED BY <2>1, <2>2 DEF Kept
<1>5. ASSUME NEW t \in Tokens, Spent(t) PROVE Spent(t)'
    BY <1>5 DEF Spent
<1>6. \A t \in revoked' \intersect Tokens : Spent(t)' BY <1>3, <1>5
<1>7. ASSUME NEW s \in Requests PROVE Justified(wire'[s], session')
    <2>1. CASE s # r BY <1>1, <1>3, <2>1 DEF Justified
    <2>2. CASE s = r /\ w.tx = wire[r].tx /\ w.op = wire[r].op
        BY <1>1, <1>3, <2>2 DEF Justified
    <2>3. CASE s = r /\ w.tx = Nothing BY <1>1, <1>2, <2>3 DEF Justified
    <2> QED BY <2>1, <2>2, <2>3
<1> QED BY <1>4, <1>6, <1>7 DEF SessionsFit, Kept, Spent, Justified

LEMMA BookedSessions ==
    ASSUME FlowInv, SessionsFit, NEW r \in Requests, wire[r].tx = Nothing, Booked(r)
    PROVE  SessionsFit'
<1>1. PICK w : /\ wire' = [wire EXCEPT ![r] = w]
               /\ Justified(w, session')
               /\ \A t \in Tokens : session[t] = None /\ session'[t] # None =>
                      t \in w.tx.store /\ user'[session'[t].email] = "active"
    BY DEF Booked
<1>2. \A s \in Requests : wire'[s] = IF s = r THEN w ELSE wire[s]
    BY <1>1 DEF FlowInv, TypeOK
<1>3. Nothing.store = {} BY DEF Nothing
<1>4. /\ \A t \in Tokens : session[t] # None => Kept(t)
      /\ \A t \in revoked \intersect Tokens : Spent(t)
      /\ \A s \in Requests : Justified(wire[s], session)
    BY SessionsFitParts
<1>5. \A t \in Tokens : session[t] # None => session'[t] = session[t] /\ session[t].email \in Emails
    BY DEF Booked, FlowInv, TypeOK, SessionRow
<1>6. ASSUME NEW t \in Tokens, session'[t] # None PROVE Kept(t)'
    <2>1. CASE session[t] = None BY <1>1, <1>2, <1>6, <2>1 DEF Kept
    <2>2. CASE session[t] # None
        <3>1. user'[session'[t].email] = "active" BY <1>4, <1>5, <2>2 DEF Booked, Kept
        <3>2. ASSUME NEW s \in Requests, t \in wire[s].tx.store
              PROVE  t \in wire'[s].tx.store
            BY <1>2, <1>3, <3>2
        <3> QED BY <1>4, <2>2, <3>1, <3>2 DEF Booked, Kept
    <2> QED BY <2>1, <2>2
<1>7. ASSUME NEW t \in revoked' \intersect Tokens PROVE Spent(t)'
    <2>1. t \in revoked \intersect Tokens BY DEF Booked
    <2>2. \A n \in stored \intersect Tokens : session[n] # None BY DEF FlowInv, RowsMinted
    <2> QED BY <1>4, <1>5, <2>1, <2>2 DEF Booked, Spent
<1>8. ASSUME NEW s \in Requests PROVE Justified(wire'[s], session')
    <2>1. CASE s = r BY <1>1, <1>2, <2>1
    <2>2. CASE s # r
        <3>1. \A n \in wire[s].tx.store \intersect Tokens : session[n] # None
            BY DEF FlowInv, Fits, RowsMinted
        <3> QED BY <1>2, <1>4, <1>5, <2>2, <3>1 DEF Justified
    <2> QED BY <2>1, <2>2
<1> QED BY <1>6, <1>7, <1>8 DEF SessionsFit, Kept, Spent, Justified

----------------------------------------------------------------------------
(* Theorems                                                                *)

LEMMA StepSessions == FlowInv /\ HolderInv /\ SessionsFit /\ [Next]_vars => SessionsFit'
<1> SUFFICES ASSUME FlowInv, HolderInv, SessionsFit, [Next]_vars PROVE SessionsFit' OBVIOUS
<1>1. ASSUME NEW r \in Requests, NEW b \in Browsers, NEW op \in Ops, Send(r, b, op)
      PROVE  SessionsFit'
    <2>1. PICK w : w = Request(b, op) OBVIOUS
    <2>2. w.tx = Nothing BY <2>1, RequestRecord
    <2>3. /\ wire' = [wire EXCEPT ![r] = w] /\ wire[r].pc = "idle"
          /\ UNCHANGED <<user, session, stored, revoked, unsaved, ended>>
        BY <1>1, <2>1 DEF Send, tables, history
    <2>4. wire[r].tx = Nothing BY <2>3 DEF HolderInv, StageFits
    <2>5. wire[r].tx.store \intersect Tokens \subseteq stored' \union unsaved'
        BY <2>4, NothingSet DEF NothingFacts
    <2> QED BY <2>2, <2>3, <2>5, SettledSessions
<1>2. ASSUME NEW r \in Requests, NEW q \in Arriving(r), Serve(r, q) PROVE SessionsFit'
    <2>1. StageFits(wire[r]) BY DEF HolderInv
    <2>2. wire[r].tx = Nothing BY <2>1, ArrivingRecord DEF StageFits
    <2> QED BY <1>2, <2>2, ServeBooked, BookedSessions
<1>3. ASSUME NEW r \in Requests, Commit(r) PROVE SessionsFit'
    <2>1. PICK w : wire' = [wire EXCEPT ![r] = w] /\ Settled(wire[r], w)
        BY <1>3, SettledRecord DEF Commit
    <2>2. w.tx = Nothing BY <2>1 DEF Settled, Ended
    <2>3. /\ stored' = stored \union wire[r].tx.store /\ revoked' = revoked \union wire[r].tx.revoke
          /\ UNCHANGED <<user, session, unsaved>>
          /\ ended \subseteq ended'
          /\ wire[r].op \in {"logout", "reset"} => wire[r].tx.revoke \intersect Tokens \subseteq ended'
        BY <1>3 DEF Commit
    <2>4. Justified(wire[r], session) BY SessionsFitParts
    <2>5. \A t \in Tokens : t \in revoked' => t \in revoked \/ Spent(t)'
        BY <2>3, <2>4 DEF Justified, Spent
    <2> QED BY <2>1, <2>2, <2>3, <2>5, SettledSessions
<1>4. ASSUME NEW r \in Requests, CommitFails(r) \/ Fail(r) PROVE SessionsFit'
    <2>1. \E w : wire' = [wire EXCEPT ![r] = w] /\ w.tx = Nothing
        <3>1. CASE CommitFails(r)
            BY <3>1, SettledRecord DEF CommitFails, Settled, Ended
        <3>2. CASE Fail(r) BY <3>2, FailedRecord DEF Ended
        <3> QED BY <1>4, <3>1, <3>2
    <2>2. /\ wire[r].tx.store \intersect Tokens \subseteq unsaved' /\ unsaved \subseteq unsaved'
          /\ UNCHANGED <<user, session, stored, revoked, ended>>
        BY <1>4 DEF CommitFails, Fail, tables
    <2> QED BY <2>1, <2>2, SettledSessions
<1>5. ASSUME NEW r \in Requests, Deliver(r) \/ Lose(r) PROVE SessionsFit'
    <2>1. wire[r].pc \in {"served", "committed"} /\ wire' = AfterAnswer(r)
        BY <1>5 DEF Deliver, Lose
    <2>2. PICK w : wire' = [wire EXCEPT ![r] = w] /\ Received(wire[r], w)
        BY <2>1, ReceivedRecord
    <2>3. UNCHANGED <<user, session, stored, revoked, unsaved, ended>>
        BY <1>5 DEF Deliver, Lose, tables, history
    <2>4. \/ w.tx = wire[r].tx /\ w.op = wire[r].op
          \/ w.tx = Nothing /\ wire[r].tx = Nothing
        BY <2>2 DEF Received, Ended, HolderInv, StageFits
    <2>5. \/ w.tx = wire[r].tx /\ w.op = wire[r].op
          \/ w.tx = Nothing /\ wire[r].tx.store \intersect Tokens \subseteq stored' \union unsaved'
        BY <2>4, NothingSet DEF NothingFacts
    <2> QED BY <2>2, <2>3, <2>5, SettledSessions
<1>6. CASE UNCHANGED <<user, session, stored, revoked, wire, unsaved, ended>>
    BY <1>6 DEF SessionsFit
<1> QED BY <1>1, <1>2, <1>3, <1>4, <1>5, <1>6 DEF Next, Forget, Tick, vars, tables, history

\* The refresh token a browser holds is accepted until it expires, unless a logout or a
\* reset ended its session, a commit failed or is to come, or a refresh replaced it
\* whose answer is on its way or lost.
THEOREM HeldTokensWork == Spec => []HeldTokensAccepted
<1>1. Init => SessionsFit
    <2> SUFFICES ASSUME Init PROVE SessionsFit OBVIOUS
    <2>1. \A r \in Requests : wire[r].tx.revoke = {} BY DEF Init, Idle, Nothing
    <2> QED BY <2>1 DEF Init, SessionsFit
<1>2. FlowInv /\ SessionsFit /\ RotatedOnlyInFlight => HeldTokensAccepted
    <2> SUFFICES ASSUME FlowInv, SessionsFit, RotatedOnlyInFlight,
                        NEW b \in Browsers, NEW t, t = jar[b]["refresh_token"],
                        t # None, now < session[t].at + RefreshExpire,
                        t \notin ended \union unsaved,
                        \A r \in Requests : t \notin wire[r].tx.store,
                        ~Accepted(t)
                 PROVE  \E n \in stored \intersect Tokens : session[n].parent = t /\ Rotating(b, t, n)
        BY DEF HeldTokensAccepted
    <2>1. Minted("refresh_token", t) BY DEF FlowInv, Cookies
    <2>2. t \in Tokens /\ session[t] # None BY <2>1 DEF Minted
    <2>3. Kept(t) BY <2>2, SessionsFitParts
    <2>4. user[session[t].email] = "active" /\ t \in stored BY <2>3 DEF Kept
    <2>5. t \in revoked BY <2>4 DEF Accepted
    <2>6. Spent(t) BY <2>2, <2>5, SessionsFitParts
    <2>7. PICK n \in stored \intersect Tokens : session[n].parent = t BY <2>6 DEF Spent
    <2>8. Rotating(b, t, n) BY <2>7 DEF RotatedOnlyInFlight
    <2> QED BY <2>7, <2>8
<1> QED BY <1>1, <1>2, FlowsSafe, HoldersSafe, StepSessions, RotatedTokensLeave, PTL DEF Spec
=============================================================================
