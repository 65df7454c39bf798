------------------------- MODULE CookieHoldersProofs -------------------------
(***************************************************************************)
(* Theorems of CookieFlows about where an id is. Each id is on its way to  *)
(* one browser or in the jar of one (OneHolder), because an answer sets    *)
(* only what was just minted. From there: a token that was rotated away    *)
(* leaves its browser with the answer that replaces it, and a reset token  *)
(* is used no more often than requests and faults overlap.                 *)
(***************************************************************************)
EXTENDS CookieFlowsProofs, FiniteSetTheorems

----------------------------------------------------------------------------
(* The record a handler leaves                                             *)

\* The record of a request that is over.
Ended(w) == w.pc = "idle" /\ w.cookie = None /\ w.set = NoCookies /\ w.tx = Nothing

\* What an answer sets is deleted or was just minted.
Fresh(set) == \A c \in DOMAIN set : set[c] = None \/ ~Minted(c, set[c])

\* The record w of request q after its handler: ended, or an answer on its way
\* with cookies that are fresh. Only a refresh mints a session with a parent.
Left(q, w) ==
    \/ Ended(w) /\ session' = session
    \/ /\ w.pc = IF w.tx = Nothing THEN "committed" ELSE "served"
       /\ w.op = q.op /\ w.from = q.from /\ w.cookie = q.cookie
       /\ Fresh(w.set)
       /\ IF w.op = "reset" THEN w.set = ClearReset /\ w.cookie # None /\ w.tx.reset = w.cookie
          ELSE w.tx.reset = None
       /\ \/ session' = session
          \/ \E t \in Tokens, row \in SessionRow :
                 /\ session[t] = None
                 /\ session' = [session EXCEPT ![t] = row]
                 /\ \/ row.parent = None
                    \/ /\ w.op = "refresh" /\ row.parent = w.cookie
                       /\ "refresh_token" \in DOMAIN w.set /\ w.set["refresh_token"] = t

\* What a handler changes, beside the codes, the revocations and the counts.
Handled(r, q) ==
    /\ UNCHANGED <<jar, faults, stored, resets, lost>>
    /\ \A p \in Resets : proof[p] # None => proof'[p] = proof[p]
    /\ \E w : wire' = [wire EXCEPT ![r] = w] /\ Left(q, w)

LEMMA RefuseHandled ==
    ASSUME FlowInv, NEW r \in Requests, NEW q \in RequestState,
           Refuse(r), UNCHANGED <<session, proof, stored, resets>>
    PROVE  Handled(r, q)
<1>1. PICK w : w = Idle OBVIOUS
<1>2. Ended(w) BY <1>1 DEF Idle, Ended
<1>3. wire' = [wire EXCEPT ![r] = w] /\ UNCHANGED <<jar, faults, lost>>
    BY <1>1 DEF Refuse, Over, history
<1>4. Left(q, w) BY <1>2 DEF Left
<1> QED BY <1>3, <1>4 DEF Handled

LEMMA AnswerHandled ==
    ASSUME FlowInv, NEW r \in Requests, NEW q \in RequestState,
           NEW set, NEW tx, Answer(r, q, set, tx), UNCHANGED <<stored, resets>>,
           \A p \in Resets : proof[p] # None => proof'[p] = proof[p],
           Fresh(set),
           IF q.op = "reset" THEN set = ClearReset /\ q.cookie # None /\ tx.reset = q.cookie
           ELSE tx.reset = None,
           \/ session' = session
           \/ \E t \in Tokens, row \in SessionRow :
                  /\ session[t] = None
                  /\ session' = [session EXCEPT ![t] = row]
                  /\ \/ row.parent = None
                     \/ /\ q.op = "refresh" /\ row.parent = q.cookie
                        /\ "refresh_token" \in DOMAIN set /\ set["refresh_token"] = t
    PROVE  Handled(r, q)
<1>1. PICK pc : pc = IF tx = Nothing THEN "committed" ELSE "served" OBVIOUS
<1>2. PICK w : w = [q EXCEPT !.pc = pc, !.set = set, !.tx = tx] OBVIOUS
<1>3. /\ w.pc = pc /\ w.set = set /\ w.tx = tx
      /\ w.op = q.op /\ w.from = q.from /\ w.cookie = q.cookie
    BY <1>2 DEF RequestState
<1>4. wire' = [wire EXCEPT ![r] = w] /\ UNCHANGED <<jar, faults, lost>>
    BY <1>1, <1>2 DEF Answer, history
<1>5. Left(q, w) BY <1>1, <1>3 DEF Left
<1> QED BY <1>4, <1>5 DEF Handled

LEMMA IssueHandled ==
    ASSUME FlowInv, NEW r \in Requests, NEW q \in RequestState, NEW e, NEW purpose,
           q.op # "reset", Issue(r, q, e, purpose)
    PROVE  Handled(r, q)
<1>1. PICK o \in Otps :
          /\ code[o] = None
          /\ Answer(r, q, SetOtpToken(o),
                    [Nothing EXCEPT !.store = {o}, !.revoke = Active(e, purpose)])
          /\ UNCHANGED <<session, proof, stored, resets>>
    BY DEF Issue
<1>2. PICK tx : tx = [Nothing EXCEPT !.store = {o}, !.revoke = Active(e, purpose)] OBVIOUS
<1>3. PICK set : set = SetOtpToken(o) OBVIOUS
<1>4. tx.reset = None BY <1>2 DEF Nothing
<1>5. ~Minted("otp_token", o) BY <1>1, ConstantsAssumption DEF Minted, Ids
<1>6. DOMAIN set = {"otp_token"} /\ set["otp_token"] = o BY <1>3 DEF SetOtpToken
<1>7. Fresh(set) BY <1>5, <1>6 DEF Fresh
<1>8. Answer(r, q, set, tx) BY <1>1, <1>2, <1>3
<1> QED BY <1>1, <1>4, <1>7, <1>8, AnswerHandled

\* A handler that answers with a new session.
LEMMA SessionHandled ==
    ASSUME FlowInv, NEW r \in Requests, NEW q \in RequestState,
           q.op # "reset", NEW t \in Tokens, session[t] = None, NEW row \in SessionRow,
           session' = [session EXCEPT ![t] = row],
           row.parent = None \/ (q.op = "refresh" /\ row.parent = q.cookie),
           NEW set, set["access_token"] = t, set["refresh_token"] = t,
           DOMAIN set \subseteq {"access_token", "refresh_token", "otp_token"},
           "refresh_token" \in DOMAIN set,
           "otp_token" \in DOMAIN set => set["otp_token"] = None,
           NEW tx, tx.reset = None, Answer(r, q, set, tx),
           UNCHANGED <<proof, stored, resets>>
    PROVE  Handled(r, q)
<1>1. ~Minted("access_token", t) /\ ~Minted("refresh_token", t)
    BY ConstantsAssumption DEF Minted, Ids
<1>2. Fresh(set) BY <1>1 DEF Fresh
<1> QED BY <1>2, AnswerHandled, SMTT(30), ZenonT(30)

\* The refusals, and a wrong guess.
LEMMA RefusalsHandled ==
    ASSUME FlowInv, NEW r \in Requests, NEW q \in RequestState,
           \/ Malformed(r, q) \/ LoginRefused(r, q) \/ OrganizationMissing(r, q)
           \/ \E e \in Emails : RegisterRefused(r, q, e) \/ ForgotUnknown(r, q, e)
           \/ ResendRefused(r, q) \/ VerifyRefused(r, q) \/ ResetRefused(r, q) \/ RefreshRefused(r, q)
           \/ VerifyWrong(r, q)
    PROVE  Handled(r, q)
<1>1. Refuse(r) /\ UNCHANGED <<session, proof, stored, resets>>
    BY DEF Malformed, RegisterRefused, ForgotUnknown, LoginRefused, ResendRefused,
           VerifyRefused, ResetRefused, RefreshRefused, VerifyWrong, OrganizationMissing, tables
<1> QED BY <1>1, RefuseHandled

\* The handlers that issue a code.
LEMMA IssuersHandled ==
    ASSUME FlowInv, NEW r \in Requests, NEW q \in RequestState,
           (\E e \in Emails : Register(r, q, e) \/ ForgotPassword(r, q, e)) \/ Resend(r, q)
    PROVE  Handled(r, q)
<1>1. q.op # "reset" /\ \E e, purpose : Issue(r, q, e, purpose)
    BY DEF Register, ForgotPassword, Resend
<1> QED BY <1>1, IssueHandled

\* The handlers that answer with a session.
LEMMA LoginHandled ==
    ASSUME FlowInv, NEW r \in Requests, NEW q \in RequestState, NEW e \in Emails, Login(r, q, e)
    PROVE  Handled(r, q)
<1>1. PICK t \in Tokens :
          /\ session[t] = None
          /\ session' = [session EXCEPT ![t] = [email |-> e, parent |-> None, at |-> now]]
          /\ Answer(r, q, SetSession(t), [Nothing EXCEPT !.store = {t}])
    BY DEF Login
<1>2. PICK row : row = [email |-> e, parent |-> None, at |-> now] OBVIOUS
<1>3. row \in SessionRow /\ row.parent = None BY <1>2 DEF SessionRow, FlowInv, TypeOK
<1>4. PICK tx : tx = [Nothing EXCEPT !.store = {t}] OBVIOUS
<1>5. tx.reset = None BY <1>4 DEF Nothing
<1>6. PICK set : set = SetSession(t) OBVIOUS
<1>7. /\ DOMAIN set = {"access_token", "refresh_token"}
      /\ set["access_token"] = t /\ set["refresh_token"] = t
    BY <1>6, SetSessionFacts
<1>8. session' = [session EXCEPT ![t] = row] /\ Answer(r, q, set, tx)
    BY <1>1, <1>2, <1>4, <1>6
<1>9. q.op = "login" /\ UNCHANGED <<proof, stored, resets>> BY DEF Login
<1> QED BY <1>1, <1>3, <1>5, <1>7, <1>8, <1>9, SessionHandled

LEMMA RefreshHandled ==
    ASSUME FlowInv, NEW r \in Requests, NEW q \in RequestState, Fits(q), Refresh(r, q)
    PROVE  Handled(r, q)
<1>1. PICK t : t = q.cookie OBVIOUS
<1>2. q.op = "refresh" /\ t # None BY <1>1 DEF Refresh
<1>3. Minted("refresh_token", t) BY <1>1, <1>2, ReadsFacts DEF Fits
<1>5. t \in Tokens /\ session[t] # None BY <1>2, <1>3 DEF Minted
<1>6. session[t].email \in Emails BY <1>5 DEF FlowInv, TypeOK, SessionRow
<1>7. PICK n \in Tokens :
          /\ session[n] = None
          /\ session' = [session EXCEPT ![n] =
                            [email |-> session[t].email, parent |-> t, at |-> now]]
          /\ Answer(r, q, SetSession(n), [Nothing EXCEPT !.store = {n}, !.revoke = {t}])
    BY <1>1 DEF Refresh
<1>8. PICK row : row = [email |-> session[t].email, parent |-> t, at |-> now] OBVIOUS
<1>9. row \in SessionRow /\ row.parent = t
    BY <1>5, <1>6, <1>8 DEF SessionRow, FlowInv, TypeOK
<1>10. PICK tx : tx = [Nothing EXCEPT !.store = {n}, !.revoke = {t}] OBVIOUS
<1>11. tx.reset = None BY <1>10 DEF Nothing
<1>12. PICK set : set = SetSession(n) OBVIOUS
<1>13. /\ DOMAIN set = {"access_token", "refresh_token"}
       /\ set["access_token"] = n /\ set["refresh_token"] = n
    BY <1>12, SetSessionFacts
<1>14. session' = [session EXCEPT ![n] = row] /\ Answer(r, q, set, tx)
    BY <1>7, <1>8, <1>10, <1>12
<1>15. UNCHANGED <<proof, stored, resets>> BY DEF Refresh
<1> QED BY <1>1, <1>2, <1>7, <1>9, <1>11, <1>13, <1>14, <1>15, SessionHandled,
          SMTT(30), ZenonT(30)

LEMMA CompleteHandled ==
    ASSUME FlowInv, NEW r \in Requests, NEW q \in RequestState, Fits(q),
           CompleteRegistration(r, q)
    PROVE  Handled(r, q)
<1>1. PICK o : o = q.cookie OBVIOUS
<1>2. o \in Compared(q) BY <1>1 DEF CompleteRegistration
<1>3. o \in Otps /\ code[o].email \in Emails BY <1>2, ComparedFacts
<1>4. PICK t \in Tokens :
          /\ session[t] = None
          /\ session' = [session EXCEPT ![t] =
                            [email |-> code[o].email, parent |-> None, at |-> now]]
          /\ Answer(r, q,
                    [c \in {"access_token", "refresh_token", "otp_token"} |->
                        IF c = "otp_token" THEN None ELSE t],
                    [Nothing EXCEPT !.store = {t}])
    BY <1>1 DEF CompleteRegistration
<1>5. PICK row : row = [email |-> code[o].email, parent |-> None, at |-> now] OBVIOUS
<1>6. row \in SessionRow /\ row.parent = None BY <1>3, <1>5 DEF SessionRow, FlowInv, TypeOK
<1>7. PICK tx : tx = [Nothing EXCEPT !.store = {t}] OBVIOUS
<1>8. tx.reset = None BY <1>7 DEF Nothing
<1>9. PICK set : set = [c \in {"access_token", "refresh_token", "otp_token"} |->
                           IF c = "otp_token" THEN None ELSE t]
    OBVIOUS
<1>10. /\ DOMAIN set = {"access_token", "refresh_token", "otp_token"}
       /\ set["access_token"] = t /\ set["refresh_token"] = t /\ set["otp_token"] = None
    BY <1>9
<1>11. session' = [session EXCEPT ![t] = row] /\ Answer(r, q, set, tx)
    BY <1>4, <1>5, <1>7, <1>9
<1>12. q.op = "verify" /\ UNCHANGED <<proof, stored, resets>> BY DEF CompleteRegistration
<1> QED BY <1>4, <1>6, <1>8, <1>10, <1>11, <1>12, SessionHandled, SMTT(30), ZenonT(30)

\* A reset token is fresh when it is traded.
LEMMA TradeHandled ==
    ASSUME FlowInv, NEW r \in Requests, NEW q \in RequestState, VerifyForgot(r, q)
    PROVE  Handled(r, q)
<1>1. PICK o : o = q.cookie OBVIOUS
<1>2. PICK p \in Resets : \E row :
          /\ proof[p] = None
          /\ proof' = [proof EXCEPT ![p] = row]
          /\ Answer(r, q,
                    [c \in {"otp_token", "reset_token"} |-> IF c = "otp_token" THEN None ELSE p],
                    [Nothing EXCEPT !.revoke = {o}])
          /\ UNCHANGED <<session, stored, resets>>
    BY <1>1 DEF VerifyForgot
<1>3. PICK tx : tx = [Nothing EXCEPT !.revoke = {o}] OBVIOUS
<1>4. tx.reset = None BY <1>3 DEF Nothing
<1>5. PICK set : set = [c \in {"otp_token", "reset_token"} |->
                           IF c = "otp_token" THEN None ELSE p]
    OBVIOUS
<1>6. DOMAIN set = {"otp_token", "reset_token"} /\ set["reset_token"] = p /\ set["otp_token"] = None
    BY <1>5
<1>7. ~Minted("reset_token", p) BY <1>2, ConstantsAssumption DEF Minted, Ids
<1>8. Fresh(set) BY <1>6, <1>7 DEF Fresh
<1>9. q.op = "verify_forgot" BY DEF VerifyForgot
<1>10. \A p2 \in Resets : proof[p2] # None => proof'[p2] = proof[p2]
    BY <1>2 DEF FlowInv, TypeOK
<1>11. Answer(r, q, set, tx) BY <1>2, <1>3, <1>5
<1> QED BY <1>2, <1>4, <1>8, <1>9, <1>10, <1>11, AnswerHandled

\* The reset and the logout only delete cookies.
LEMMA ClearsHandled ==
    ASSUME FlowInv, NEW r \in Requests, NEW q \in RequestState,
           ResetPassword(r, q) \/ Logout(r, q)
    PROVE  Handled(r, q)
<1>1. CASE ResetPassword(r, q)
    <2>1. PICK p : p = q.cookie OBVIOUS
    <2>2. PICK tx : tx = [Nothing EXCEPT !.reset = p,
                              !.revoke = Active(proof[p].email, "forgot_password")
                                         \union Live(proof[p].email)]
        OBVIOUS
    <2>3. tx.reset = p BY <2>2 DEF Nothing
    <2>4. Fresh(ClearReset) BY DEF Fresh, ClearReset
    <2>5. /\ q.op = "reset" /\ q.cookie # None
          /\ Answer(r, q, ClearReset, tx)
          /\ UNCHANGED <<session, proof, stored, resets>>
        BY <1>1, <2>1, <2>2 DEF ResetPassword, Unexpired, tables
    <2> QED BY <2>1, <2>3, <2>4, <2>5, AnswerHandled
<1>2. CASE Logout(r, q)
    <2>1. PICK R : R = IF q.cookie # None /\ now < session[q.cookie].at + RefreshExpire
                       THEN Live(session[q.cookie].email) ELSE {}
        OBVIOUS
    <2>2. PICK tx : tx = [Nothing EXCEPT !.revoke = R] OBVIOUS
    <2>3. tx.reset = None BY <2>2 DEF Nothing
    <2>4. PICK set : set = [c \in {"refresh_token", "access_token", "otp_token"} |-> None] OBVIOUS
    <2>5. Fresh(set) BY <2>4 DEF Fresh
    <2>6. /\ q.op = "logout"
          /\ Answer(r, q, set, tx)
          /\ UNCHANGED <<session, proof, stored, resets>>
        BY <1>2, <2>1, <2>2, <2>4 DEF Logout, tables
    <2> QED BY <2>3, <2>5, <2>6, AnswerHandled
<1> QED BY <1>1, <1>2

LEMMA ServeHandled ==
    ASSUME FlowInv, NEW r \in Requests, NEW q \in Arriving(r), Serve(r, q)
    PROVE  Handled(r, q)
<1>1. q \in RequestState /\ Fits(q) BY ArrivingFits
<1> QED BY <1>1, RefusalsHandled, IssuersHandled, LoginHandled, RefreshHandled,
           CompleteHandled, TradeHandled, ClearsHandled DEF Serve

----------------------------------------------------------------------------
(* The record of a request after its sending, commit, answer or failure    *)

\* A request as a browser sends it.
LEMMA RequestRecord ==
    ASSUME NEW b \in Browsers, NEW op \in Ops, NEW w, w = Request(b, op)
    PROVE  /\ w.pc = "sent" /\ w.from = b /\ w.op = op
           /\ w.set = NoCookies /\ w.tx = Nothing
           /\ w.cookie = IF op \in DOMAIN Reads THEN jar[b][Reads[op]] ELSE None
BY DEF Request, Idle

\* What arrives was sent, and carries the cookie of its browser unless it is late.
LEMMA ArrivingRecord ==
    ASSUME FlowInv, NEW r \in Requests, StageFits(wire[r]), NEW q \in Arriving(r)
    PROVE  /\ q.from \in Browsers
           /\ wire[r].pc \in {"idle", "sent"}
           /\ \/ q = wire[r] /\ wire[r].pc = "sent"
              \/ q.op \notin DOMAIN Reads /\ q.cookie = None
<1>1. CASE wire[r].pc = "sent" BY <1>1 DEF Arriving, StageFits
<1>2. CASE wire[r].pc # "sent"
    <2>1. PICK b \in Browsers, op \in Ops \ DOMAIN Reads : q = Request(b, op) /\ wire[r].pc = "idle"
        BY <1>2 DEF Arriving
    <2> QED BY <2>1, RequestRecord
<1> QED BY <1>1, <1>2

\* The record w of a request v after a commit, or the failure of one.
Settled(v, w) ==
    \/ v.pc = "answered" /\ Ended(w)
    \/ /\ v.pc = "served" /\ w.pc = "committed" /\ w.tx = Nothing /\ w.op = v.op
       /\ w.from = v.from /\ w.cookie = v.cookie /\ w.set = v.set

\* The record w of a request v after its answer arrived or was lost.
Received(v, w) ==
    \/ v.pc = "committed" /\ Ended(w)
    \/ /\ v.pc = "served" /\ w.pc = "answered" /\ w.tx = v.tx /\ w.op = v.op
       /\ w.cookie = None /\ w.set = NoCookies

LEMMA SettledRecord ==
    ASSUME FlowInv, NEW r \in Requests, wire[r].pc \in {"served", "answered"},
           wire' = AfterCommit(r)
    PROVE  \E w : wire' = [wire EXCEPT ![r] = w] /\ Settled(wire[r], w)
<1>1. PICK v : v = wire[r] OBVIOUS
<1>2. v \in RequestState BY <1>1 DEF FlowInv, TypeOK
<1>3. CASE v.pc = "answered"
    <2>1. PICK w : w = Idle OBVIOUS
    <2>2. Ended(w) BY <2>1 DEF Idle, Ended
    <2> QED BY <1>1, <1>3, <2>1, <2>2 DEF AfterCommit, Over, Settled
<1>4. CASE v.pc = "served"
    <2>1. PICK w : w = [v EXCEPT !.pc = "committed", !.tx = Nothing] OBVIOUS
    <2>2. /\ w.op = v.op /\ w.pc = "committed" /\ w.tx = Nothing
          /\ w.from = v.from /\ w.cookie = v.cookie /\ w.set = v.set
        BY <1>2, <2>1 DEF RequestState
    <2> QED BY <1>1, <1>4, <2>1, <2>2 DEF AfterCommit, Settled
<1> QED BY <1>1, <1>3, <1>4

LEMMA ReceivedRecord ==
    ASSUME FlowInv, NEW r \in Requests, wire[r].pc \in {"served", "committed"},
           wire' = AfterAnswer(r)
    PROVE  \E w : wire' = [wire EXCEPT ![r] = w] /\ Received(wire[r], w)
<1>1. PICK v : v = wire[r] OBVIOUS
<1>2. CASE v.pc = "committed"
    <2>1. PICK w : w = Idle OBVIOUS
    <2>2. Ended(w) BY <2>1 DEF Idle, Ended
    <2> QED BY <1>1, <1>2, <2>1, <2>2 DEF AfterAnswer, Over, Received
<1>3. CASE v.pc = "served"
    <2>1. PICK w : w = [Idle EXCEPT !.pc = "answered", !.op = v.op, !.tx = v.tx] OBVIOUS
    <2>2. /\ w.op = v.op /\ w.pc = "answered" /\ w.tx = v.tx
          /\ w.cookie = None /\ w.set = NoCookies
        BY <2>1 DEF Idle
    <2> QED BY <1>1, <1>3, <2>1, <2>2 DEF AfterAnswer, Received
<1> QED BY <1>1, <1>2, <1>3

LEMMA FailedRecord ==
    ASSUME NEW r \in Requests, Fail(r)
    PROVE  \E w : wire' = [wire EXCEPT ![r] = w] /\ Ended(w)
<1>1. PICK w : w = Idle OBVIOUS
<1>2. Ended(w) BY <1>1 DEF Idle, Ended
<1> QED BY <1>1, <1>2 DEF Fail, Over

----------------------------------------------------------------------------
(* An id is in one place                                                   *)

NothingFacts == Nothing.reset = None /\ DOMAIN NoCookies = {} /\ Nothing.store = {}

LEMMA NothingSet == NothingFacts
BY DEF NothingFacts, Nothing, NoCookies

\* Every record a step leaves fits its stage.
LEMMA StagesKept ==
    ASSUME FlowInv, \A s \in Requests : StageFits(wire[s]), NEW r \in Requests, NEW w,
           wire' = [wire EXCEPT ![r] = w],
           \/ Ended(w)
           \/ \E b \in Browsers, op \in Ops : w = Request(b, op)
           \/ \E q \in Arriving(r) : Left(q, w)
           \/ Settled(wire[r], w)
           \/ Received(wire[r], w)
    PROVE  (\A s \in Requests : StageFits(wire[s]))'
<1>1. StageFits(w)
    <2>1. CASE Ended(w) BY <2>1, NothingSet DEF Ended, StageFits, NothingFacts
    <2>2. CASE \E b \in Browsers, op \in Ops : w = Request(b, op)
        BY <2>2, RequestRecord, NothingSet DEF StageFits, NothingFacts
    <2>3. ASSUME NEW q \in Arriving(r), Left(q, w) PROVE StageFits(w)
        <3>1. q.from \in Browsers BY ArrivingRecord
        <3> QED BY <2>1, <2>3, <3>1, NothingSet DEF Left, StageFits, NothingFacts
    <2>4. CASE Settled(wire[r], w)
        BY <2>1, <2>4, NothingSet DEF Settled, StageFits, NothingFacts
    <2>5. CASE Received(wire[r], w)
        BY <2>1, <2>5, NothingSet DEF Received, StageFits, NothingFacts
    <2> QED BY <2>1, <2>2, <2>3, <2>4, <2>5
<1>2. \A s \in Requests : wire'[s] = IF s = r THEN w ELSE wire[s] BY DEF FlowInv, TypeOK
<1> QED BY <1>1, <1>2 DEF StageFits

\* An id that was not minted is nowhere.
LEMMA UnmintedNowhere ==
    ASSUME FlowInv, NEW c \in Cookies, NEW v \in Ids, ~Minted(c, v)
    PROVE  /\ \A b \in Browsers : jar[b][c] # v
           /\ \A s \in Requests : ~Sets(s, c, v)
           /\ \A s \in Requests :
                  wire[s].op \in DOMAIN Reads /\ Reads[wire[s].op] = c => wire[s].cookie # v
<1>1. \A b \in Browsers : jar[b][c] # v BY DEF FlowInv
<1>2. ASSUME NEW s \in Requests PROVE ~Sets(s, c, v) BY DEF FlowInv, Fits, Sets
<1>3. ASSUME NEW s \in Requests, wire[s].op \in DOMAIN Reads, Reads[wire[s].op] = c
      PROVE  wire[s].cookie # v
    BY <1>3 DEF FlowInv, Fits
<1> QED BY <1>1, <1>2, <1>3

\* One request changes, the jars do not: what its record sets was set by it before
\* or is fresh, and its cookie was its own or is that of its browser.
LEMMA HolderKept ==
    ASSUME FlowInv, OneHolder, NEW r \in Requests, NEW w,
           wire' = [wire EXCEPT ![r] = w], jar' = jar,
           \A c \in DOMAIN w.set \intersect Cookies :
               \/ w.set[c] = None
               \/ ~Minted(c, w.set[c])
               \/ Sets(r, c, w.set[c]),
           w.cookie # None /\ w.op \in DOMAIN Reads =>
               \/ w.op = wire[r].op /\ w.cookie = wire[r].cookie /\ w.from = wire[r].from
               \/ w.from \in Browsers /\ w.cookie = jar[w.from][Reads[w.op]] /\ w.set = NoCookies
    PROVE  OneHolder'
<1> SUFFICES ASSUME NEW c \in Cookies, NEW v \in Ids
             PROVE  /\ \A b1, b2 \in Browsers : jar'[b1][c] = v /\ jar'[b2][c] = v => b1 = b2
                    /\ \A r1, r2 \in Requests : Sets(r1, c, v)' /\ Sets(r2, c, v)' => r1 = r2
                    /\ \A b \in Browsers, s \in Requests : ~(jar'[b][c] = v /\ Sets(s, c, v)')
                    /\ \A s \in Requests :
                         wire'[s].op \in DOMAIN Reads /\ Reads[wire'[s].op] = c
                           /\ wire'[s].cookie = v =>
                             /\ \A s2 \in Requests : ~Sets(s2, c, v)'
                             /\ \A b \in Browsers : jar'[b][c] = v => wire'[s].from = b
    BY DEF OneHolder
<1>1. \A s \in Requests : wire'[s] = IF s = r THEN w ELSE wire[s] BY DEF FlowInv, TypeOK
<1>2. v # None BY ConstantsAssumption
<1>3. \A s \in Requests : s # r => (Sets(s, c, v)' <=> Sets(s, c, v)) BY <1>1 DEF Sets
<1>4. Sets(r, c, v)' => Sets(r, c, v) \/ ~Minted(c, v) BY <1>1, <1>2 DEF Sets
<1>5. /\ \A b1, b2 \in Browsers : jar[b1][c] = v /\ jar[b2][c] = v => b1 = b2
      /\ \A r1, r2 \in Requests : Sets(r1, c, v) /\ Sets(r2, c, v) => r1 = r2
      /\ \A b \in Browsers, s \in Requests : ~(jar[b][c] = v /\ Sets(s, c, v))
      /\ \A s \in Requests :
             wire[s].op \in DOMAIN Reads /\ Reads[wire[s].op] = c /\ wire[s].cookie = v =>
                 /\ \A s2 \in Requests : ~Sets(s2, c, v)
                 /\ \A b \in Browsers : jar[b][c] = v => wire[s].from = b
    BY DEF OneHolder
<1>6. ASSUME ~Minted(c, v)
      PROVE  /\ \A b \in Browsers : jar[b][c] # v
             /\ \A s \in Requests : ~Sets(s, c, v)
             /\ \A s \in Requests :
                    wire[s].op \in DOMAIN Reads /\ Reads[wire[s].op] = c => wire[s].cookie # v
    BY <1>6, UnmintedNowhere
<1>7. \A r1, r2 \in Requests : Sets(r1, c, v)' /\ Sets(r2, c, v)' => r1 = r2
    BY <1>3, <1>4, <1>5, <1>6
<1>8. \A b \in Browsers, s \in Requests : ~(jar'[b][c] = v /\ Sets(s, c, v)')
    BY <1>3, <1>4, <1>5, <1>6
<1>9. ASSUME NEW s \in Requests, wire'[s].op \in DOMAIN Reads, Reads[wire'[s].op] = c,
             wire'[s].cookie = v
      PROVE  /\ \A s2 \in Requests : ~Sets(s2, c, v)'
             /\ \A b \in Browsers : jar'[b][c] = v => wire'[s].from = b
    <2>1. CASE /\ wire[s].op \in DOMAIN Reads /\ Reads[wire[s].op] = c /\ wire[s].cookie = v
               /\ wire'[s].from = wire[s].from
        BY <1>3, <1>4, <1>5, <1>6, <2>1
    <2>2. CASE s = r /\ w.from \in Browsers /\ w.cookie = jar[w.from][Reads[w.op]] /\ w.set = NoCookies
        <3>1. jar[w.from][c] = v /\ wire'[s].from = w.from BY <1>1, <1>9, <2>2
        <3>2. ~Sets(r, c, v)' BY <1>1, <2>2, NothingSet DEF Sets, NothingFacts
        <3> QED BY <1>3, <1>5, <2>2, <3>1, <3>2
    <2> QED BY <1>1, <1>2, <1>9, <2>1, <2>2
<1> QED BY <1>5, <1>7, <1>8, <1>9

\* An answer arrives: what it sets moves to the jar of its browser.
LEMMA HolderDelivered ==
    ASSUME FlowInv, HolderInv, NEW r \in Requests, NEW w, Deliver(r),
           wire' = [wire EXCEPT ![r] = w], Received(wire[r], w)
    PROVE  OneHolder'
<1> SUFFICES ASSUME NEW c \in Cookies, NEW v \in Ids
             PROVE  /\ \A b1, b2 \in Browsers : jar'[b1][c] = v /\ jar'[b2][c] = v => b1 = b2
                    /\ \A r1, r2 \in Requests : Sets(r1, c, v)' /\ Sets(r2, c, v)' => r1 = r2
                    /\ \A b \in Browsers, s \in Requests : ~(jar'[b][c] = v /\ Sets(s, c, v)')
                    /\ \A s \in Requests :
                         wire'[s].op \in DOMAIN Reads /\ Reads[wire'[s].op] = c
                           /\ wire'[s].cookie = v =>
                             /\ \A s2 \in Requests : ~Sets(s2, c, v)'
                             /\ \A b \in Browsers : jar'[b][c] = v => wire'[s].from = b
    BY DEF OneHolder
<1>1. \A s \in Requests : wire'[s] = IF s = r THEN w ELSE wire[s] BY DEF FlowInv, TypeOK
<1>2. v # None /\ w.set = NoCookies /\ w.cookie = None
    BY ConstantsAssumption DEF Received, Ended
<1>3. \A s \in Requests : Sets(s, c, v)' <=> s # r /\ Sets(s, c, v)
    BY <1>1, <1>2, NothingSet DEF Sets, NothingFacts
<1>4. \A b \in Browsers :
          jar'[b][c] = v <=> IF b = wire[r].from /\ c \in DOMAIN wire[r].set THEN Sets(r, c, v)
                             ELSE jar[b][c] = v
    BY DEF Deliver, FlowInv, TypeOK, Sets
<1>5. wire[r].from \in Browsers BY DEF Deliver, HolderInv, StageFits
<1>6. /\ \A b1, b2 \in Browsers : jar[b1][c] = v /\ jar[b2][c] = v => b1 = b2
      /\ \A r1, r2 \in Requests : Sets(r1, c, v) /\ Sets(r2, c, v) => r1 = r2
      /\ \A b \in Browsers, s \in Requests : ~(jar[b][c] = v /\ Sets(s, c, v))
      /\ \A s \in Requests :
             wire[s].op \in DOMAIN Reads /\ Reads[wire[s].op] = c /\ wire[s].cookie = v =>
                 /\ \A s2 \in Requests : ~Sets(s2, c, v)
                 /\ \A b \in Browsers : jar[b][c] = v => wire[s].from = b
    BY DEF HolderInv, OneHolder
<1>7. \A s \in Requests :
          wire'[s].op \in DOMAIN Reads /\ Reads[wire'[s].op] = c /\ wire'[s].cookie = v =>
              wire'[s] = wire[s]
    BY <1>1, <1>2
<1>8. Sets(r, c, v) => c \in DOMAIN wire[r].set BY DEF Sets
<1>9. \A b1, b2 \in Browsers : jar'[b1][c] = v /\ jar'[b2][c] = v => b1 = b2
    BY <1>4, <1>5, <1>6, <1>8
<1>10. \A b \in Browsers, s \in Requests : ~(jar'[b][c] = v /\ Sets(s, c, v)')
    BY <1>3, <1>4, <1>6
<1>11. \A s \in Requests :
           wire'[s].op \in DOMAIN Reads /\ Reads[wire'[s].op] = c /\ wire'[s].cookie = v =>
               /\ \A s2 \in Requests : ~Sets(s2, c, v)'
               /\ \A b \in Browsers : jar'[b][c] = v => wire'[s].from = b
    BY <1>3, <1>4, <1>6, <1>7
<1> QED BY <1>3, <1>6, <1>9, <1>10, <1>11

\* What a step makes of one request, when it leaves the jars alone.
LEMMA RecordHolder ==
    ASSUME FlowInv, HolderInv, NEW r \in Requests, NEW w,
           wire' = [wire EXCEPT ![r] = w], jar' = jar,
           \/ Ended(w)
           \/ \E b \in Browsers, op \in Ops : w = Request(b, op)
           \/ \E q \in Arriving(r) : Left(q, w)
           \/ Settled(wire[r], w)
           \/ Received(wire[r], w)
    PROVE  OneHolder'
<1>1. StageFits(wire[r]) /\ OneHolder BY DEF HolderInv
<1>2. CASE Ended(w) BY <1>1, <1>2, NothingSet, HolderKept DEF Ended, NothingFacts
<1>3. CASE \E b \in Browsers, op \in Ops : w = Request(b, op)
    <2>1. PICK b \in Browsers, op \in Ops : w = Request(b, op) BY <1>3
    <2>2. /\ w.set = NoCookies /\ w.op = op /\ w.from = b
          /\ op \in DOMAIN Reads => w.cookie = jar[b][Reads[op]]
        BY <2>1, RequestRecord
    <2> QED BY <1>1, <2>2, NothingSet, HolderKept DEF NothingFacts
<1>4. ASSUME NEW q \in Arriving(r), Left(q, w) PROVE OneHolder'
    <2>1. q = wire[r] \/ q.op \notin DOMAIN Reads BY <1>1, ArrivingRecord
    <2>2. CASE Ended(w) BY <1>2, <2>2
    <2>3. CASE ~Ended(w)
        <3>1. w.op = q.op /\ w.from = q.from /\ w.cookie = q.cookie /\ Fresh(w.set)
            BY <1>4, <2>3 DEF Left
        <3> QED BY <1>1, <2>1, <3>1, HolderKept DEF Fresh
    <2> QED BY <2>2, <2>3
<1>5. CASE Settled(wire[r], w)
    <2>1. CASE Ended(w) BY <1>2, <2>1
    <2>2. CASE ~Ended(w)
        <3>1. /\ w.op = wire[r].op /\ w.from = wire[r].from /\ w.cookie = wire[r].cookie
              /\ w.set = wire[r].set
            BY <1>5, <2>2 DEF Settled
        <3>2. \A c \in DOMAIN w.set \intersect Cookies : Sets(r, c, w.set[c])
            BY <3>1 DEF Sets
        <3> QED BY <1>1, <3>1, <3>2, HolderKept
    <2> QED BY <2>1, <2>2
<1>6. CASE Received(wire[r], w)
    BY <1>1, <1>6, NothingSet, HolderKept DEF Received, Ended, NothingFacts
<1> QED BY <1>2, <1>3, <1>4, <1>5, <1>6

\* A browser that drops a cookie keeps the others.
LEMMA ForgetLoses ==
    ASSUME FlowInv, NEW b \in Browsers, NEW c \in Cookies, Forget(b, c)
    PROVE  \A b2 \in Browsers, c2 \in Cookies : jar'[b2][c2] \in {jar[b2][c2], None}
BY DEF Forget, FlowInv, TypeOK, Jars

LEMMA StepHolder == FlowInv /\ HolderInv /\ [Next]_vars => HolderInv'
<1> SUFFICES ASSUME FlowInv, HolderInv, [Next]_vars PROVE HolderInv' OBVIOUS
<1>1. \A s \in Requests : StageFits(wire[s]) BY DEF HolderInv
<1>2. ASSUME NEW r \in Requests, NEW w, wire' = [wire EXCEPT ![r] = w], jar' = jar,
             \/ Ended(w)
             \/ \E b \in Browsers, op \in Ops : w = Request(b, op)
             \/ \E q \in Arriving(r) : Left(q, w)
             \/ Settled(wire[r], w)
             \/ Received(wire[r], w)
      PROVE  HolderInv'
    BY <1>1, <1>2, StagesKept, RecordHolder DEF HolderInv
<1>3. ASSUME NEW r \in Requests, NEW b \in Browsers, NEW op \in Ops, Send(r, b, op)
      PROVE  HolderInv'
    BY <1>2, <1>3 DEF Send
<1>4. ASSUME NEW r \in Requests, NEW q \in Arriving(r), Serve(r, q) PROVE HolderInv'
    <2>1. Handled(r, q) BY <1>4, ServeHandled
    <2> QED BY <1>2, <2>1 DEF Handled
<1>5. ASSUME NEW r \in Requests, Commit(r) \/ CommitFails(r) PROVE HolderInv'
    <2>1. /\ wire[r].pc \in {"served", "answered"} /\ wire' = AfterCommit(r) /\ jar' = jar
        BY <1>5 DEF Commit, CommitFails
    <2> QED BY <1>2, <2>1, SettledRecord
<1>6. ASSUME NEW r \in Requests, Fail(r) PROVE HolderInv'
    BY <1>2, <1>6, FailedRecord, SMTT(30), ZenonT(30) DEF Fail
<1>7. ASSUME NEW r \in Requests, Lose(r) PROVE HolderInv'
    <2>1. wire[r].pc \in {"served", "committed"} /\ wire' = AfterAnswer(r) /\ jar' = jar
        BY <1>7 DEF Lose
    <2> QED BY <1>2, <2>1, ReceivedRecord
<1>8. ASSUME NEW r \in Requests, Deliver(r) PROVE HolderInv'
    <2>1. PICK w : wire' = [wire EXCEPT ![r] = w] /\ Received(wire[r], w)
        BY <1>8, ReceivedRecord DEF Deliver
    <2>2. (\A s \in Requests : StageFits(wire[s]))' BY <1>1, <2>1, StagesKept
    <2> QED BY <1>8, <2>1, <2>2, HolderDelivered DEF HolderInv
<1>9. CASE UNCHANGED <<jar, wire>>
    BY <1>9 DEF HolderInv, OneHolder, Sets, StageFits
<1>10. ASSUME NEW b \in Browsers, NEW c \in Cookies, Forget(b, c) PROVE HolderInv'
    <2>1. wire' = wire BY <1>10 DEF Forget
    <2>2. \A b2 \in Browsers, c2 \in Cookies : jar'[b2][c2] \in {jar[b2][c2], None}
        BY <1>10, ForgetLoses
    <2>3. \A v \in Ids : v # None BY ConstantsAssumption
    <2>4. \A b2 \in Browsers, c2 \in Cookies, v \in Ids : jar'[b2][c2] = v => jar[b2][c2] = v
        BY <2>2, <2>3
    <2>5. OneHolder' BY <2>1, <2>4 DEF HolderInv, OneHolder, Sets
    <2> QED BY <2>1, <2>5 DEF HolderInv, StageFits
<1> QED BY <1>3, <1>4, <1>5, <1>6, <1>7, <1>8, <1>9, <1>10 DEF Next, Tick, vars

LEMMA HoldersSafe == Spec => []HolderInv
<1>1. Init => HolderInv
    <2> SUFFICES ASSUME Init PROVE HolderInv OBVIOUS
    <2>1. \A r \in Requests : wire[r] = Idle BY DEF Init
    <2>2. Ended(Idle) BY DEF Ended, Idle
    <2>3. StageFits(Idle) BY <2>2, NothingSet DEF Ended, StageFits, NothingFacts
    <2>4. \A b \in Browsers, c \in Cookies : jar[b][c] = None BY DEF Init
    <2>5. \A v \in Ids : v # None BY ConstantsAssumption
    <2>6. OneHolder
        BY <2>1, <2>2, <2>4, <2>5, NothingSet DEF OneHolder, Sets, Ended, NothingFacts
    <2> QED BY <2>1, <2>3, <2>6 DEF HolderInv
<1> QED BY <1>1, FlowsSafe, StepHolder, PTL DEF Spec

\* Every id is on its way to one browser, or in the jar of one, whose requests
\* alone carry it: two browsers never share a token.
THEOREM IdsHaveOneHolder == Spec => []OneHolder
<1>1. HolderInv => OneHolder BY DEF HolderInv
<1> QED BY <1>1, HoldersSafe, PTL

----------------------------------------------------------------------------
(* A token that was rotated away leaves its browser                        *)

\* What ParentsLeave says of the token t that n replaces.
Leaves(n, t) ==
    /\ session[t] # None
    /\ \A r \in Requests : ~Sets(r, "refresh_token", t)
    /\ \/ n \in lost
       \/ \A b \in Browsers : jar[b]["refresh_token"] # t
       \/ \E r \in Requests : /\ wire[r].op = "refresh"
                              /\ wire[r].cookie = t
                              /\ Sets(r, "refresh_token", n)

\* A token that was rotated away before stays on its way out when request r
\* changes, unless r is a failure, keeps what it sets or is delivered.
LEMMA OldParentLeaves ==
    ASSUME FlowInv, HolderInv, NEW n \in Tokens, NEW t \in Tokens, Leaves(n, t),
           session'[t] = session[t], lost \subseteq lost',
           NEW r \in Requests, NEW w, wire' = [wire EXCEPT ![r] = w],
           "refresh_token" \in DOMAIN w.set => w.set["refresh_token"] # t,
           jar' = jar \/ Deliver(r),
           Sets(r, "refresh_token", n) =>
               \/ n \in lost'
               \/ Deliver(r)
               \/ w.op = wire[r].op /\ w.cookie = wire[r].cookie /\ w.set = wire[r].set
    PROVE  Leaves(n, t)'
<1>1. \A s \in Requests : wire'[s] = IF s = r THEN w ELSE wire[s] BY DEF FlowInv, TypeOK
<1>2. \A s \in Requests : ~Sets(s, "refresh_token", t)' BY <1>1 DEF Sets, Leaves
<1>3. "refresh_token" \in Cookies /\ t \in Ids BY DEF Cookies, Ids
<1>4. ASSUME Deliver(r), NEW b \in Browsers
      PROVE  \/ jar'[b]["refresh_token"] = jar[b]["refresh_token"]
             \/ /\ b = wire[r].from /\ "refresh_token" \in DOMAIN wire[r].set
                /\ jar'[b]["refresh_token"] = wire[r].set["refresh_token"]
    BY <1>3, <1>4 DEF Deliver, FlowInv, TypeOK
<1>5. ASSUME \A b \in Browsers : jar[b]["refresh_token"] # t
      PROVE  \A b \in Browsers : jar'[b]["refresh_token"] # t
    BY <1>4, <1>5 DEF Leaves, Sets
<1>6. ASSUME NEW s \in Requests, wire[s].op = "refresh", wire[s].cookie = t,
             Sets(s, "refresh_token", n)
      PROVE  \/ n \in lost'
             \/ \A b \in Browsers : jar'[b]["refresh_token"] # t
             \/ \E s2 \in Requests : /\ wire'[s2].op = "refresh"
                                     /\ wire'[s2].cookie = t
                                     /\ Sets(s2, "refresh_token", n)'
    <2>1. CASE s # r BY <1>1, <1>6, <2>1 DEF Sets
    <2>2. CASE s = r /\ ~Deliver(r) BY <1>1, <1>6, <2>2 DEF Sets
    <2>3. CASE s = r /\ Deliver(r)
        <3>1. n # t BY <1>6 DEF Leaves
        <3>2. \A b \in Browsers : jar[b]["refresh_token"] = t => b = wire[s].from
            BY <1>3, <1>6, ReadsFacts DEF HolderInv, OneHolder
        <3>3. wire[r].set["refresh_token"] = n /\ "refresh_token" \in DOMAIN wire[r].set
            BY <1>6, <2>3 DEF Sets
        <3>4. jar' = [jar EXCEPT ![wire[r].from] =
                  [c \in Cookies |-> IF c \in DOMAIN wire[r].set THEN wire[r].set[c] ELSE @[c]]]
            BY <2>3 DEF Deliver
        <3>5. \A b \in Browsers : b = wire[r].from => jar'[b]["refresh_token"] = n
            BY <1>3, <3>3, <3>4 DEF FlowInv, TypeOK
        <3> QED BY <1>4, <2>3, <3>1, <3>2, <3>3, <3>5
    <2> QED BY <2>1, <2>2, <2>3
<1>7. \/ n \in lost'
      \/ \A b \in Browsers : jar'[b]["refresh_token"] # t
      \/ \E s \in Requests : /\ wire'[s].op = "refresh"
                             /\ wire'[s].cookie = t
                             /\ Sets(s, "refresh_token", n)'
    <2>1. CASE n \in lost BY <2>1
    <2>2. CASE n \notin lost BY <1>5, <1>6, <2>2 DEF Leaves
    <2> QED BY <2>1, <2>2
<1> QED BY <1>2, <1>7 DEF Leaves

\* A refresh finds its own cookie on the way out of its browser.
LEMMA NewParentLeaves ==
    ASSUME FlowInv, HolderInv, NEW r \in Requests, NEW q \in Arriving(r), NEW w,
           wire' = [wire EXCEPT ![r] = w], w.op = "refresh", w.op = q.op, w.cookie = q.cookie,
           Fresh(w.set), NEW n \in Tokens, NEW t \in Tokens, t = w.cookie,
           session[n] = None, NEW row, session' = [session EXCEPT ![n] = row],
           Sets(r, "refresh_token", n)'
    PROVE  Leaves(n, t)'
<1>1. \A s \in Requests : wire'[s] = IF s = r THEN w ELSE wire[s] BY DEF FlowInv, TypeOK
<1>2. q = wire[r] /\ Fits(q) BY ArrivingFits, ReadsFacts
<1>3. "refresh_token" \in Cookies /\ t \in Ids BY DEF Cookies, Ids
<1>4. Minted("refresh_token", t) BY <1>2, ReadsFacts DEF Fits
<1>5. t # None BY <1>3, ConstantsAssumption
<1>6. session[t] # None
    <2>1. t \notin Otps /\ t \notin Resets BY ConstantsAssumption
    <2> QED BY <1>4, <1>5, <2>1 DEF Minted
<1>7. session'[t] # None BY <1>6 DEF FlowInv, TypeOK
<1>8. \A s \in Requests : ~Sets(s, "refresh_token", t)
    BY <1>2, <1>3, ReadsFacts DEF HolderInv, OneHolder
<1>9. ~Sets(r, "refresh_token", t)' BY <1>1, <1>4, <1>5 DEF Sets, Fresh
<1>10. \A s \in Requests : ~Sets(s, "refresh_token", t)' BY <1>1, <1>8, <1>9 DEF Sets
<1>11. wire'[r].op = "refresh" /\ wire'[r].cookie = t BY <1>1
<1> QED BY <1>7, <1>10, <1>11 DEF Leaves

LEMMA ParentsAreLeft ==
    ParentsLeave <=> \A n \in Tokens : session[n] # None /\ session[n].parent # None =>
                         Leaves(n, session[n].parent)
BY DEF ParentsLeave, Leaves

LEMMA StepParents == FlowInv /\ HolderInv /\ ParentsLeave /\ [Next]_vars => ParentsLeave'
<1> SUFFICES ASSUME FlowInv, HolderInv, ParentsLeave, [Next]_vars PROVE ParentsLeave' OBVIOUS
<1>1. TypeOK /\ TypeOK' BY StepFlows DEF FlowInv
<1>2. \A n \in Tokens : session[n] # None /\ session[n].parent # None => Leaves(n, session[n].parent)
    BY ParentsAreLeft
<1> SUFFICES ASSUME NEW n \in Tokens, session'[n] # None, session'[n].parent # None,
                    NEW t, t = session'[n].parent
             PROVE  Leaves(n, t)'
    BY DEF ParentsLeave, Leaves
<1>3. t \in Tokens BY <1>1 DEF TypeOK, SessionRow
<1>4. ASSUME session'[n] = session[n]
      PROVE  Leaves(n, t) /\ Minted("refresh_token", t) /\ t # None /\ t \in Ids
    <2>1. Leaves(n, t) BY <1>2, <1>4
    <2> QED BY <1>3, <2>1, ConstantsAssumption DEF Leaves, Minted, Ids
<1>5. ASSUME UNCHANGED session, lost \subseteq lost',
             NEW r \in Requests, NEW w, wire' = [wire EXCEPT ![r] = w],
             jar' = jar \/ Deliver(r),
             \/ w.set = NoCookies
             \/ w.set = wire[r].set
             \/ Fresh(w.set),
             Sets(r, "refresh_token", n) =>
                 \/ n \in lost'
                 \/ Deliver(r)
                 \/ w.op = wire[r].op /\ w.cookie = wire[r].cookie /\ w.set = wire[r].set
      PROVE  Leaves(n, t)'
    <2>1. Leaves(n, t) /\ Minted("refresh_token", t) /\ t # None BY <1>4, <1>5
    <2>2. "refresh_token" \in DOMAIN w.set => w.set["refresh_token"] # t
        BY <1>5, <2>1, NothingSet DEF Leaves, Sets, Fresh, NothingFacts
    <2> QED BY <1>3, <1>5, <2>1, <2>2, OldParentLeaves
<1>7. \A r \in Requests : wire[r].pc \in {"idle", "sent", "answered"} => ~Sets(r, "refresh_token", n)
    BY NothingSet DEF HolderInv, StageFits, Sets, NothingFacts
<1>8. ASSUME NEW r \in Requests, NEW b \in Browsers, NEW op \in Ops, Send(r, b, op)
      PROVE  Leaves(n, t)'
    <2>1. PICK w : w = Request(b, op) OBVIOUS
    <2>2. w.set = NoCookies BY <2>1, RequestRecord
    <2>3. /\ wire[r].pc = "idle" /\ wire' = [wire EXCEPT ![r] = w]
          /\ UNCHANGED <<session, lost, jar>>
        BY <1>8, <2>1 DEF Send, tables, history
    <2> QED BY <1>5, <1>7, <2>2, <2>3
<1>9. ASSUME NEW r \in Requests, NEW q \in Arriving(r), Serve(r, q) PROVE Leaves(n, t)'
    <2>1. Handled(r, q) BY <1>9, ServeHandled
    <2>2. PICK w : wire' = [wire EXCEPT ![r] = w] /\ Left(q, w) BY <2>1 DEF Handled
    <2>3. UNCHANGED <<jar, lost>> BY <2>1 DEF Handled
    <2>4. ~Sets(r, "refresh_token", n) BY <1>7, ArrivingRecord DEF HolderInv
    <2>5. w.set = NoCookies \/ Fresh(w.set) BY <2>2 DEF Left, Ended
    <2>6. CASE session' = session BY <1>5, <2>2, <2>3, <2>4, <2>5, <2>6
    <2>7. CASE session' # session
        <3>1. PICK t2 \in Tokens, row \in SessionRow :
                  /\ session[t2] = None
                  /\ session' = [session EXCEPT ![t2] = row]
                  /\ \/ row.parent = None
                     \/ /\ w.op = "refresh" /\ row.parent = w.cookie
                        /\ "refresh_token" \in DOMAIN w.set /\ w.set["refresh_token"] = t2
            BY <2>2, <2>7 DEF Left
        <3>2. w.op = q.op /\ w.cookie = q.cookie /\ Fresh(w.set) BY <2>2, <2>7 DEF Left
        <3>3. CASE t2 = n
            <4>1. session'[n] = row BY <1>1, <3>1, <3>3 DEF TypeOK
            <4>2. w.op = "refresh" /\ t = w.cookie /\ "refresh_token" \in DOMAIN w.set
                  /\ w.set["refresh_token"] = n
                BY <3>1, <3>3, <4>1
            <4>3. Sets(r, "refresh_token", n)' BY <1>1, <2>2, <4>2 DEF Sets, TypeOK
            <4> QED BY <1>3, <2>2, <3>1, <3>2, <3>3, <4>2, <4>3, NewParentLeaves
        <3>4. CASE t2 # n
            <4>1. session'[n] = session[n] BY <1>1, <3>1, <3>4 DEF TypeOK
            <4>2. Leaves(n, t) /\ Minted("refresh_token", t) /\ t # None BY <1>4, <4>1
            <4>3. session'[t] = session[t] BY <1>1, <1>3, <3>1, <4>2 DEF Leaves, TypeOK
            <4>4. "refresh_token" \in DOMAIN w.set => w.set["refresh_token"] # t
                BY <3>2, <4>2 DEF Fresh
            <4> QED BY <1>3, <2>2, <2>3, <2>4, <4>2, <4>3, <4>4, OldParentLeaves
        <3> QED BY <3>3, <3>4
    <2> QED BY <2>6, <2>7
<1>10. ASSUME NEW r \in Requests, Commit(r) \/ CommitFails(r) PROVE Leaves(n, t)'
    <2>1. /\ wire[r].pc \in {"served", "answered"} /\ wire' = AfterCommit(r)
          /\ UNCHANGED <<jar, session, lost>>
        BY <1>10 DEF Commit, CommitFails, tables
    <2>2. PICK w : wire' = [wire EXCEPT ![r] = w] /\ Settled(wire[r], w)
        BY <2>1, SettledRecord
    <2>3. w.set = NoCookies \/ w.set = wire[r].set BY <2>2 DEF Settled, Ended
    <2>4. Sets(r, "refresh_token", n) =>
              w.op = wire[r].op /\ w.cookie = wire[r].cookie /\ w.set = wire[r].set
        BY <1>7, <2>2 DEF Settled
    <2> QED BY <1>5, <2>1, <2>2, <2>3, <2>4
<1>11. ASSUME NEW r \in Requests, Fail(r) PROVE Leaves(n, t)'
    <2>1. PICK w : wire' = [wire EXCEPT ![r] = w] /\ Ended(w) BY <1>11, FailedRecord
    <2>2. UNCHANGED <<jar, session>> BY <1>11 DEF Fail, tables
    <2>3. lost \subseteq lost' /\ (Sets(r, "refresh_token", n) => n \in lost')
        BY <1>11 DEF Fail
    <2> QED BY <1>5, <2>1, <2>2, <2>3 DEF Ended
<1>12. ASSUME NEW r \in Requests, Lose(r) PROVE Leaves(n, t)'
    <2>1. /\ wire[r].pc \in {"served", "committed"} /\ wire' = AfterAnswer(r)
          /\ UNCHANGED <<jar, session>>
        BY <1>12 DEF Lose, tables
    <2>2. PICK w : wire' = [wire EXCEPT ![r] = w] /\ Received(wire[r], w)
        BY <2>1, ReceivedRecord
    <2>3. lost \subseteq lost' /\ (Sets(r, "refresh_token", n) => n \in lost')
        BY <1>12 DEF Lose
    <2> QED BY <1>5, <2>1, <2>2, <2>3 DEF Received, Ended
<1>13. ASSUME NEW r \in Requests, Deliver(r) PROVE Leaves(n, t)'
    <2>1. /\ wire[r].pc \in {"served", "committed"} /\ wire' = AfterAnswer(r)
          /\ UNCHANGED <<session, lost>>
        BY <1>13 DEF Deliver, tables, history
    <2>2. PICK w : wire' = [wire EXCEPT ![r] = w] /\ Received(wire[r], w)
        BY <2>1, ReceivedRecord
    <2> QED BY <1>5, <1>13, <2>1, <2>2 DEF Received, Ended
<1>14. CASE UNCHANGED <<session, jar, wire, lost>>
    <2>1. Leaves(n, t) BY <1>4, <1>14
    <2> QED BY <1>14, <2>1 DEF Leaves, Sets
<1>15. ASSUME NEW b \in Browsers, NEW c \in Cookies, Forget(b, c) PROVE Leaves(n, t)'
    <2>1. UNCHANGED <<session, wire, lost>> BY <1>15 DEF Forget, tables, history
    <2>2. Leaves(n, t) /\ t # None BY <1>4, <2>1
    <2>3. \A b2 \in Browsers : jar'[b2]["refresh_token"] \in {jar[b2]["refresh_token"], None}
        BY <1>15, ForgetLoses DEF Cookies
    <2> QED BY <2>1, <2>2, <2>3 DEF Leaves, Sets
<1> QED BY <1>8, <1>9, <1>10, <1>11, <1>12, <1>13, <1>14, <1>15
        DEF Next, Tick, vars, tables, history

\* A browser holds a token that was rotated away only until the answer that
\* replaces it arrives, or for good if that answer is lost.
THEOREM RotatedTokensLeave == Spec => []RotatedOnlyInFlight
<1>1. Init => ParentsLeave BY DEF Init, ParentsLeave
<1>2. FlowInv /\ HolderInv /\ ParentsLeave => RotatedOnlyInFlight
    <2> SUFFICES ASSUME FlowInv, HolderInv, ParentsLeave,
                        NEW b \in Browsers, NEW n \in stored \intersect Tokens,
                        NEW t, t = session[n].parent, t # None,
                        jar[b]["refresh_token"] = t, n \notin lost
                 PROVE  \E r \in Requests :
                            /\ wire[r].from = b /\ wire[r].op = "refresh" /\ wire[r].cookie = t
                            /\ Sets(r, "refresh_token", n)
        BY DEF RotatedOnlyInFlight, Rotating
    <2>1. session[n] # None /\ n \in Tokens BY DEF FlowInv, RowsMinted
    <2>2. t \in Tokens BY <2>1 DEF FlowInv, TypeOK, SessionRow
    <2>3. Leaves(n, t) BY <2>1, ParentsAreLeft
    <2>4. PICK r \in Requests : /\ wire[r].op = "refresh" /\ wire[r].cookie = t
                                /\ Sets(r, "refresh_token", n)
        BY <2>3 DEF Leaves
    <2>5. wire[r].from = b
        BY <2>2, <2>4, ReadsFacts DEF HolderInv, OneHolder, Ids, Cookies
    <2> QED BY <2>4, <2>5
<1> QED BY <1>1, <1>2, FlowsSafe, HoldersSafe, StepParents, PTL DEF Spec

----------------------------------------------------------------------------
(* How often a reset token is used                                         *)

\* Where request w stands with reset token p.
Place(p, w) ==
    IF w.pc = "answered" /\ w.tx.reset = p THEN "answered"
    ELSE IF w.op = "reset" /\ w.cookie = p /\ w.pc \in {"sent", "served"} THEN "opening"
    ELSE IF w.op = "reset" /\ w.cookie = p /\ w.pc = "committed" THEN "closing"
    ELSE "none"

\* One, if place x is z.
One(x, z) == IF x = z THEN 1 ELSE 0

\* Sets of requests that differ at most in r.
LEMMA OneMoves ==
    ASSUME NEW S \in SUBSET Requests, NEW T \in SUBSET Requests, NEW r \in Requests,
           S \ {r} = T \ {r}
    PROVE  /\ Cardinality(S) \in Nat /\ Cardinality(T) \in Nat
           /\ Cardinality(T) = Cardinality(S) - (IF r \in S THEN 1 ELSE 0) + (IF r \in T THEN 1 ELSE 0)
<1>1. IsFiniteSet(S) /\ IsFiniteSet(T) BY ConstantsAssumption, FS_Subset
<1>2. PICK U : U = S \ {r} OBVIOUS
<1>3. IsFiniteSet(U) BY <1>1, <1>2, FS_Subset
<1>4. Cardinality(S) \in Nat /\ Cardinality(T) \in Nat /\ Cardinality(U) \in Nat
    BY <1>1, <1>3, FS_CardinalityType
<1>5. r \notin U BY <1>2
<1>6. Cardinality(U \union {r}) = Cardinality(U) + 1 BY <1>3, <1>5, FS_AddElement
<1>7. Cardinality(S) = Cardinality(U) + (IF r \in S THEN 1 ELSE 0)
    <2>1. CASE r \in S
        <3>1. S = U \union {r} BY <1>2, <2>1
        <3> QED BY <1>6, <2>1, <3>1
    <2>2. CASE r \notin S
        <3>1. S = U BY <1>2, <2>2
        <3> QED BY <1>4, <2>2, <3>1
    <2> QED BY <2>1, <2>2
<1>8. Cardinality(T) = Cardinality(U) + (IF r \in T THEN 1 ELSE 0)
    <2>1. CASE r \in T
        <3>1. T = U \union {r} BY <1>2, <2>1
        <3> QED BY <1>6, <2>1, <3>1
    <2>2. CASE r \notin T
        <3>1. T = U BY <1>2, <2>2
        <3> QED BY <1>4, <2>2, <3>1
    <2> QED BY <2>1, <2>2
<1> QED BY <1>4, <1>7, <1>8

\* Apart from the places, a request with p is not both opening and closing.
LEMMA OpeningOrClosing ==
    ASSUME NEW p \in Resets
    PROVE  /\ Cardinality(Opening(p)) + Cardinality(Closing(p)) <= Cardinality(Requests)
           /\ Cardinality(Requests) \in Nat
<1>1. PICK S : S = Opening(p) OBVIOUS
<1>2. PICK T : T = Closing(p) OBVIOUS
<1>3. S \in SUBSET Requests /\ T \in SUBSET Requests /\ S \intersect T = {}
    BY <1>1, <1>2 DEF Opening, Closing, With
<1>4. IsFiniteSet(Requests) BY ConstantsAssumption
<1>5. IsFiniteSet(S) /\ IsFiniteSet(T) BY <1>3, <1>4, FS_Subset
<1>6. Cardinality(S \union T) = Cardinality(S) + Cardinality(T) - Cardinality(S \intersect T)
    BY <1>5, FS_Union
<1>7. Cardinality(S \intersect T) = 0 BY <1>3, FS_EmptySet
<1>8. S \union T \in SUBSET Requests BY <1>3
<1>9. Cardinality(S \union T) <= Cardinality(Requests) BY <1>4, <1>8, FS_Subset
<1>10. Cardinality(S) \in Nat /\ Cardinality(T) \in Nat /\ Cardinality(Requests) \in Nat
    BY <1>4, <1>5, FS_CardinalityType
<1> QED BY <1>1, <1>2, <1>6, <1>7, <1>9, <1>10

\* One request moves from place x to place y, while the count of uses grows by d
\* and that of faults by f.
LEMMA UsesKept ==
    ASSUME FlowInv, NEW p \in Resets, UsesFit(p), NEW r \in Requests, NEW w,
           wire' = [wire EXCEPT ![r] = w],
           NEW x, x = Place(p, wire[r]), NEW y, y = Place(p, w),
           NEW d \in {0, 1}, resets'[p] = resets[p] + d,
           NEW f \in {0, 1}, faults' = faults + f,
           Held(p)' =>
               /\ Held(p)
               /\ d + One(y, "answered") + One(x, "closing")
                      <= One(x, "answered") + One(y, "closing") + f,
           ~Held(p)' => d + One(y, "answered") + One(y, "opening")
                            <= One(x, "answered") + One(x, "opening") + f
    PROVE  UsesFit(p)'
<1>0. \A s \in Requests : wire'[s] = IF s = r THEN w ELSE wire[s] BY DEF FlowInv, TypeOK
<1>1. PICK o : o = Cardinality(Opening(p)) OBVIOUS
<1>2. PICK c : c = Cardinality(Closing(p)) OBVIOUS
<1>3. PICK a : a = Cardinality(Answered(p)) OBVIOUS
<1>4. PICK o2 : o2 = Cardinality(Opening(p))' OBVIOUS
<1>5. PICK c2 : c2 = Cardinality(Closing(p))' OBVIOUS
<1>6. PICK a2 : a2 = Cardinality(Answered(p))' OBVIOUS
<1>7. PICK n : n = Cardinality(Requests) OBVIOUS
<1>8. o \in Nat /\ o2 = o - One(x, "opening") + One(y, "opening")
    <2>1. PICK S : S = Opening(p) OBVIOUS
    <2>2. PICK T : T = Opening(p)' OBVIOUS
    <2>3. S \in SUBSET Requests /\ T \in SUBSET Requests
        BY <2>1, <2>2 DEF Opening, With
    <2>4. \A s \in Requests : /\ s \in S <=> Place(p, wire[s]) = "opening"
                              /\ s \in T <=> Place(p, wire'[s]) = "opening"
        BY <2>1, <2>2 DEF Opening, With, Place
    <2>5. S \ {r} = T \ {r} BY <1>0, <2>3, <2>4
    <2>6. (r \in S <=> x = "opening") /\ (r \in T <=> y = "opening") BY <1>0, <2>4
    <2>7. /\ Cardinality(S) \in Nat
          /\ Cardinality(T) = Cardinality(S) - (IF r \in S THEN 1 ELSE 0)
                                            + (IF r \in T THEN 1 ELSE 0)
        BY <2>3, <2>5, OneMoves
    <2> QED BY <1>1, <1>4, <2>1, <2>2, <2>6, <2>7 DEF One
<1>9. c \in Nat /\ c2 = c - One(x, "closing") + One(y, "closing")
    <2>1. PICK S : S = Closing(p) OBVIOUS
    <2>2. PICK T : T = Closing(p)' OBVIOUS
    <2>3. S \in SUBSET Requests /\ T \in SUBSET Requests
        BY <2>1, <2>2 DEF Closing, With
    <2>4. \A s \in Requests : /\ s \in S <=> Place(p, wire[s]) = "closing"
                              /\ s \in T <=> Place(p, wire'[s]) = "closing"
        BY <2>1, <2>2 DEF Closing, With, Place
    <2>5. S \ {r} = T \ {r} BY <1>0, <2>3, <2>4
    <2>6. (r \in S <=> x = "closing") /\ (r \in T <=> y = "closing") BY <1>0, <2>4
    <2>7. /\ Cardinality(S) \in Nat
          /\ Cardinality(T) = Cardinality(S) - (IF r \in S THEN 1 ELSE 0)
                                            + (IF r \in T THEN 1 ELSE 0)
        BY <2>3, <2>5, OneMoves
    <2> QED BY <1>2, <1>5, <2>1, <2>2, <2>6, <2>7 DEF One
<1>10. a \in Nat /\ a2 = a - One(x, "answered") + One(y, "answered")
    <2>1. PICK S : S = Answered(p) OBVIOUS
    <2>2. PICK T : T = Answered(p)' OBVIOUS
    <2>3. S \in SUBSET Requests /\ T \in SUBSET Requests
        BY <2>1, <2>2 DEF Answered, With
    <2>4. \A s \in Requests : /\ s \in S <=> Place(p, wire[s]) = "answered"
                              /\ s \in T <=> Place(p, wire'[s]) = "answered"
        BY <2>1, <2>2 DEF Answered, With, Place
    <2>5. S \ {r} = T \ {r} BY <1>0, <2>3, <2>4
    <2>6. (r \in S <=> x = "answered") /\ (r \in T <=> y = "answered") BY <1>0, <2>4
    <2>7. /\ Cardinality(S) \in Nat
          /\ Cardinality(T) = Cardinality(S) - (IF r \in S THEN 1 ELSE 0)
                                            + (IF r \in T THEN 1 ELSE 0)
        BY <2>3, <2>5, OneMoves
    <2> QED BY <1>3, <1>6, <2>1, <2>2, <2>6, <2>7 DEF One
<1>11. o + c <= n /\ n \in Nat BY <1>1, <1>2, <1>7, OpeningOrClosing
<1>12. resets[p] \in Nat /\ faults \in Nat BY DEF FlowInv, TypeOK
<1>13. \A z : One(x, z) \in {0, 1} /\ One(y, z) \in {0, 1} BY DEF One
<1>14. IF Held(p) THEN resets[p] + a <= c + faults ELSE resets[p] + a + o <= n + faults
    BY <1>1, <1>2, <1>3, <1>7 DEF UsesFit
<1>15. resets[p] + a + o <= n + faults BY <1>8, <1>9, <1>10, <1>11, <1>12, <1>14
<1>16. CASE Held(p)'
    <2>1. resets'[p] + a2 <= c2 + faults'
        BY <1>9, <1>10, <1>12, <1>13, <1>14, <1>16
    <2> QED BY <1>5, <1>6, <1>16, <2>1 DEF UsesFit
<1>17. CASE ~Held(p)'
    <2>1. resets'[p] + a2 + o2 <= n + faults'
        BY <1>8, <1>10, <1>11, <1>12, <1>13, <1>15, <1>17
    <2> QED BY <1>4, <1>6, <1>7, <1>17, <2>1 DEF UsesFit
<1> QED BY <1>16, <1>17

\* The place of a request moves on with its commit and with its answer.
LEMMA PlaceSettles ==
    ASSUME NEW p \in Resets, NEW v, StageFits(v), NEW w, Settled(v, w),
           NEW x, x = Place(p, v), NEW y, y = Place(p, w)
    PROVE  /\ v.tx.reset = p <=> x \in {"opening", "answered"}
           /\ \/ x = "opening" /\ y = "closing"
              \/ x \in {"answered", "none"} /\ y = "none"
<1>1. p # None BY ConstantsAssumption DEF Ids
<1>2. CASE v.pc = "answered"
    <2>1. w.pc = "idle" BY <1>2 DEF Settled, Ended
    <2> QED BY <1>2, <2>1 DEF Place
<1>3. CASE v.pc = "served"
    <2>1. w.pc = "committed" /\ w.op = v.op /\ w.cookie = v.cookie BY <1>3 DEF Settled
    <2>2. v.tx.reset = p <=> v.op = "reset" /\ v.cookie = p BY <1>1, <1>3 DEF StageFits
    <2> QED BY <1>3, <2>1, <2>2 DEF Place
<1> QED BY <1>2, <1>3 DEF Settled

LEMMA PlaceReceives ==
    ASSUME NEW p \in Resets, NEW v, StageFits(v), NEW w, Received(v, w),
           NEW x, x = Place(p, v), NEW y, y = Place(p, w)
    PROVE  \/ x = "opening" /\ y = "answered"
           \/ x \in {"closing", "none"} /\ y = "none"
<1>1. p # None BY ConstantsAssumption DEF Ids
<1>2. CASE v.pc = "committed"
    <2>1. w.pc = "idle" BY <1>2 DEF Received, Ended
    <2> QED BY <1>2, <2>1 DEF Place
<1>3. CASE v.pc = "served"
    <2>1. w.pc = "answered" /\ w.tx = v.tx BY <1>3 DEF Received
    <2>2. v.tx.reset = p <=> v.op = "reset" /\ v.cookie = p BY <1>1, <1>3 DEF StageFits
    <2> QED BY <1>3, <2>1, <2>2 DEF Place
<1> QED BY <1>2, <1>3 DEF Received

\* A request that is served keeps its place, or leaves.
LEMMA PlaceServed ==
    ASSUME FlowInv, NEW p \in Resets, NEW r \in Requests, StageFits(wire[r]),
           NEW q \in Arriving(r), NEW w, Left(q, w),
           NEW x, x = Place(p, wire[r]), NEW y, y = Place(p, w)
    PROVE  x \in {"opening", "none"} /\ y \in {x, "none"}
<1>1. CASE Ended(w)
    <2>1. w.pc = "idle" BY <1>1 DEF Ended
    <2> QED BY <2>1, ArrivingRecord DEF Place
<1>2. CASE ~Ended(w)
    <2>1. /\ w.pc = IF w.tx = Nothing THEN "committed" ELSE "served"
          /\ w.op = q.op /\ w.cookie = q.cookie
          /\ w.op = "reset" => w.cookie # None /\ w.tx.reset = w.cookie
        BY <1>2 DEF Left
    <2>2. w.op = "reset" => w.pc = "served" BY <2>1, NothingSet DEF NothingFacts
    <2>3. CASE q = wire[r] /\ wire[r].pc = "sent" BY <2>1, <2>2, <2>3 DEF Place
    <2>4. CASE q.op \notin DOMAIN Reads
        <3>1. w.op # "reset" BY <2>1, <2>4, ReadsFacts
        <3> QED BY <2>1, <3>1, ArrivingRecord DEF Place
    <2> QED BY <2>3, <2>4, ArrivingRecord
<1> QED BY <1>1, <1>2

\* A token that nobody holds does not come back.
LEMMA HeldKept ==
    ASSUME FlowInv, NEW p \in Resets, NEW r \in Requests, NEW w,
           wire' = [wire EXCEPT ![r] = w], jar' = jar \/ Deliver(r),
           Held(p)'
    PROVE  Held(p) \/ ("reset_token" \in DOMAIN w.set /\ w.set["reset_token"] = p)
<1>1. \A s \in Requests : wire'[s] = IF s = r THEN w ELSE wire[s] BY DEF FlowInv, TypeOK
<1>2. "reset_token" \in Cookies BY DEF Cookies
<1>3. ASSUME NEW b \in Browsers, jar'[b]["reset_token"] = p PROVE Held(p)
    BY <1>2, <1>3 DEF Deliver, FlowInv, TypeOK, Held, Sets
<1>4. ASSUME NEW s \in Requests, Sets(s, "reset_token", p)'
      PROVE  Held(p) \/ ("reset_token" \in DOMAIN w.set /\ w.set["reset_token"] = p)
    BY <1>1, <1>4 DEF Sets, Held
<1> QED BY <1>3, <1>4 DEF Held

\* The answer to a reset takes the token from the one browser that had it.
LEMMA ResetUnholds ==
    ASSUME FlowInv, HolderInv, NEW p \in Resets, NEW r \in Requests, NEW w,
           wire' = [wire EXCEPT ![r] = w], Deliver(r), w.set = NoCookies,
           Place(p, wire[r]) \in {"opening", "closing"}
    PROVE  ~Held(p)'
<1>1. \A s \in Requests : wire'[s] = IF s = r THEN w ELSE wire[s] BY DEF FlowInv, TypeOK
<1>2. /\ "reset_token" \in Cookies /\ p \in Ids /\ p # None
      /\ "reset" \in DOMAIN Reads /\ Reads["reset"] = "reset_token"
    BY ConstantsAssumption, ReadsFacts DEF Cookies, Ids
<1>3. wire[r].pc \in {"served", "committed"} /\ wire[r].op = "reset" /\ wire[r].cookie = p
    BY DEF Deliver, Place
<1>4. wire[r].set = ClearReset BY <1>3 DEF HolderInv, StageFits
<1>5. /\ \A s \in Requests : ~Sets(s, "reset_token", p)
      /\ \A b \in Browsers : jar[b]["reset_token"] = p => wire[r].from = b
    BY <1>2, <1>3 DEF HolderInv, OneHolder
<1>6. "reset_token" \in DOMAIN ClearReset /\ ClearReset["reset_token"] = None BY DEF ClearReset
<1>7. ASSUME NEW b \in Browsers PROVE jar'[b]["reset_token"] # p
    BY <1>2, <1>4, <1>5, <1>6 DEF Deliver, FlowInv, TypeOK
<1>8. ASSUME NEW s \in Requests PROVE ~Sets(s, "reset_token", p)'
    BY <1>1, <1>5, NothingSet DEF Sets, NothingFacts
<1> QED BY <1>7, <1>8 DEF Held

LEMMA StepUses ==
    ASSUME FlowInv, HolderInv, ResetsFit, [Next]_vars, NEW p \in Resets
    PROVE  UsesFit(p)'
<1>1. UsesFit(p) BY DEF ResetsFit
<1>2. faults \in Nat /\ resets[p] \in Nat BY DEF FlowInv, TypeOK
<1>3. \A r \in Requests : StageFits(wire[r]) BY DEF HolderInv
<1>4. p # None /\ "reset_token" \in Cookies /\ p \in Ids BY ConstantsAssumption DEF Ids, Cookies
<1>5. ASSUME NEW r \in Requests, NEW b \in Browsers, NEW op \in Ops, Send(r, b, op)
      PROVE  UsesFit(p)'
    <2>1. PICK w : w = Request(b, op) OBVIOUS
    <2>2. /\ wire[r].pc = "idle" /\ wire' = [wire EXCEPT ![r] = w]
          /\ UNCHANGED <<jar, faults, resets>>
        BY <1>5, <2>1 DEF Send, tables
    <2>3. /\ w.set = NoCookies /\ w.op = op
          /\ w.cookie = IF op \in DOMAIN Reads THEN jar[b][Reads[op]] ELSE None
        BY <2>1, RequestRecord
    <2>4. PICK x : x = Place(p, wire[r]) OBVIOUS
    <2>5. PICK y : y = Place(p, w) OBVIOUS
    <2>6. x = "none" BY <2>2, <2>4 DEF Place
    <2>7. y = "none" \/ (y = "opening" /\ w.op = "reset" /\ w.cookie = p)
        BY <2>1, <2>5, RequestRecord DEF Place
    <2>8. y = "opening" => jar[b]["reset_token"] = p BY <1>4, <2>3, <2>7, ReadsFacts
    <2>9. y = "opening" => Held(p)' BY <2>2, <2>8 DEF Held
    <2>10. Held(p)' => Held(p) BY <2>2, <2>3, HeldKept, NothingSet DEF NothingFacts
    <2>11. Held(p)' => 0 + One(y, "answered") + One(x, "closing")
                           <= One(x, "answered") + One(y, "closing") + 0
        BY <2>6, <2>7 DEF One
    <2>12. ~Held(p)' => 0 + One(y, "answered") + One(y, "opening")
                            <= One(x, "answered") + One(x, "opening") + 0
        BY <2>6, <2>7, <2>9 DEF One
    <2>13. resets'[p] = resets[p] + 0 /\ faults' = faults + 0 BY <1>2, <2>2
    <2> QED BY <1>1, <2>2, <2>4, <2>5, <2>10, <2>11, <2>12, <2>13, UsesKept
<1>6. ASSUME NEW r \in Requests, NEW q \in Arriving(r), Serve(r, q) PROVE UsesFit(p)'
    <2>1. Handled(r, q) BY <1>6, ServeHandled
    <2>2. PICK w : wire' = [wire EXCEPT ![r] = w] /\ Left(q, w) BY <2>1 DEF Handled
    <2>3. UNCHANGED <<jar, faults, resets>> BY <2>1 DEF Handled
    <2>4. PICK x : x = Place(p, wire[r]) OBVIOUS
    <2>5. PICK y : y = Place(p, w) OBVIOUS
    <2>6. x \in {"opening", "none"} /\ y \in {x, "none"}
        BY <1>3, <2>2, <2>4, <2>5, PlaceServed
    <2>7. resets'[p] = resets[p] + 0 /\ faults' = faults + 0 BY <1>2, <2>3
    <2>8. Held(p)' => Held(p) \/ ("reset_token" \in DOMAIN w.set /\ w.set["reset_token"] = p)
        BY <2>2, <2>3, HeldKept
    <2>9. CASE Held(p)' => Held(p)
        <3>1. Held(p)' => 0 + One(y, "answered") + One(x, "closing")
                              <= One(x, "answered") + One(y, "closing") + 0
            BY <2>6 DEF One
        <3>2. ~Held(p)' => 0 + One(y, "answered") + One(y, "opening")
                               <= One(x, "answered") + One(x, "opening") + 0
            BY <2>6 DEF One
        <3> QED BY <1>1, <2>2, <2>4, <2>5, <2>7, <2>9, <3>1, <3>2, UsesKept
    <2>10. CASE Held(p)' /\ ~Held(p)
        <3>1. "reset_token" \in DOMAIN w.set /\ w.set["reset_token"] = p BY <2>8, <2>10
        <3>2. Fresh(w.set) BY <2>2, <3>1, NothingSet DEF Left, Ended, NothingFacts
        <3>3. proof[p] = None BY <1>4, <3>1, <3>2 DEF Fresh, Minted
        <3>4. resets[p] = 0 /\ \A s \in Requests : wire[s].tx.reset # p
            BY <3>3 DEF ResetsFit
        <3>5. y # "answered" BY <2>6
        <3>6. \A s \in Requests : wire'[s] = IF s = r THEN w ELSE wire[s]
            BY <2>2 DEF FlowInv, TypeOK
        <3>7. Answered(p)' = {}
            BY <2>5, <3>4, <3>5, <3>6 DEF Answered, Place
        <3>8. Cardinality(Answered(p)') = 0 BY <3>7, FS_EmptySet
        <3>9. Cardinality(Closing(p)') \in Nat
            <4>1. Closing(p)' \in SUBSET Requests BY DEF Closing, With
            <4> QED BY <4>1, ConstantsAssumption, FS_Subset, FS_CardinalityType
        <3> QED BY <1>2, <2>3, <2>10, <3>4, <3>8, <3>9 DEF UsesFit
    <2> QED BY <2>9, <2>10
<1>7. ASSUME NEW r \in Requests, Commit(r) \/ CommitFails(r) PROVE UsesFit(p)'
    <2>1. wire[r].pc \in {"served", "answered"} /\ wire' = AfterCommit(r) /\ jar' = jar
        BY <1>7 DEF Commit, CommitFails
    <2>2. PICK w : wire' = [wire EXCEPT ![r] = w] /\ Settled(wire[r], w)
        BY <2>1, SettledRecord
    <2>3. PICK x : x = Place(p, wire[r]) OBVIOUS
    <2>4. PICK y : y = Place(p, w) OBVIOUS
    <2>5. /\ wire[r].tx.reset = p <=> x \in {"opening", "answered"}
          /\ \/ x = "opening" /\ y = "closing"
             \/ x \in {"answered", "none"} /\ y = "none"
        BY <1>3, <2>2, <2>3, <2>4, PlaceSettles
    <2>6. Held(p)' => Held(p)
        <3>1. ASSUME NEW s \in Requests, Sets(s, "reset_token", p)' PROVE Sets(s, "reset_token", p)
            BY <2>2, <3>1, NothingSet DEF Settled, Ended, NothingFacts, Sets, FlowInv, TypeOK
        <3> QED BY <2>1, <3>1 DEF Held
    <2>7. PICK d \in {0, 1}, f \in {0, 1} :
              /\ resets'[p] = resets[p] + d /\ faults' = faults + f
              /\ \/ d = 1 /\ f = 0 /\ x # "none"
                 \/ d = 0 /\ f = 1
                 \/ d = 0 /\ f = 0 /\ x = "none"
        <3>1. CASE Commit(r)
            <4>1. faults' = faults + 0 BY <1>2, <3>1 DEF Commit
            <4>2. resets'[p] = resets[p] + IF wire[r].tx.reset = p THEN 1 ELSE 0
                BY <3>1 DEF Commit
            <4> QED BY <2>5, <4>1, <4>2
        <3>2. CASE CommitFails(r)
            <4>1. faults' = faults + 1 BY <3>2 DEF CommitFails
            <4>2. resets'[p] = resets[p] + 0 BY <1>2, <3>2 DEF CommitFails, tables
            <4> QED BY <4>1, <4>2
        <3> QED BY <1>7, <3>1, <3>2
    <2>8. Held(p)' => d + One(y, "answered") + One(x, "closing")
                          <= One(x, "answered") + One(y, "closing") + f
        BY <2>5, <2>7 DEF One
    <2>9. ~Held(p)' => d + One(y, "answered") + One(y, "opening")
                           <= One(x, "answered") + One(x, "opening") + f
        BY <2>5, <2>7 DEF One
    <2> QED BY <1>1, <2>2, <2>3, <2>4, <2>6, <2>7, <2>8, <2>9, UsesKept
<1>8. ASSUME NEW r \in Requests, Fail(r) PROVE UsesFit(p)'
    <2>1. PICK w : wire' = [wire EXCEPT ![r] = w] /\ Ended(w) BY <1>8, FailedRecord
    <2>2. wire[r].pc = "served" /\ jar' = jar /\ faults' = faults + 1 /\ resets'[p] = resets[p] + 0
        BY <1>2, <1>8 DEF Fail, tables
    <2>3. PICK x : x = Place(p, wire[r]) OBVIOUS
    <2>4. PICK y : y = Place(p, w) OBVIOUS
    <2>5. x \in {"opening", "none"} /\ y = "none" BY <2>1, <2>2, <2>3, <2>4 DEF Place, Ended
    <2>6. Held(p)' => Held(p) BY <2>1, <2>2, HeldKept, NothingSet DEF Ended, NothingFacts
    <2>7. Held(p)' => 0 + One(y, "answered") + One(x, "closing")
                          <= One(x, "answered") + One(y, "closing") + 1
        BY <2>5 DEF One
    <2>8. ~Held(p)' => 0 + One(y, "answered") + One(y, "opening")
                           <= One(x, "answered") + One(x, "opening") + 1
        BY <2>5 DEF One
    <2> QED BY <1>1, <2>1, <2>2, <2>3, <2>4, <2>6, <2>7, <2>8, UsesKept
<1>9. ASSUME NEW r \in Requests, Deliver(r) \/ Lose(r) PROVE UsesFit(p)'
    <2>1. wire[r].pc \in {"served", "committed"} /\ wire' = AfterAnswer(r)
        BY <1>9 DEF Deliver, Lose
    <2>2. PICK w : wire' = [wire EXCEPT ![r] = w] /\ Received(wire[r], w)
        BY <2>1, ReceivedRecord
    <2>3. PICK x : x = Place(p, wire[r]) OBVIOUS
    <2>4. PICK y : y = Place(p, w) OBVIOUS
    <2>5. \/ x = "opening" /\ y = "answered"
          \/ x \in {"closing", "none"} /\ y = "none"
        BY <1>3, <2>2, <2>3, <2>4, PlaceReceives
    <2>6. w.set = NoCookies BY <2>2 DEF Received, Ended
    <2>7. Held(p)' => Held(p)
        <3>1. jar' = jar \/ Deliver(r) BY <1>9 DEF Lose
        <3> QED BY <2>2, <2>6, <3>1, HeldKept, NothingSet DEF NothingFacts
    <2>8. resets'[p] = resets[p] + 0 BY <1>2, <1>9 DEF Deliver, Lose, tables
    <2>9. PICK f \in {0, 1} : faults' = faults + f /\ (f = 1 \/ (x = "none" \/ ~Held(p)'))
        <3>1. CASE Deliver(r)
            <4>1. faults' = faults + 0 BY <1>2, <3>1 DEF Deliver
            <4>2. x = "none" \/ ~Held(p)' BY <2>2, <2>3, <2>5, <2>6, <3>1, ResetUnholds
            <4> QED BY <4>1, <4>2
        <3>2. CASE Lose(r) BY <3>2 DEF Lose
        <3> QED BY <1>9, <3>1, <3>2
    <2>10. Held(p)' => 0 + One(y, "answered") + One(x, "closing")
                           <= One(x, "answered") + One(y, "closing") + f
        BY <2>5, <2>9 DEF One
    <2>11. ~Held(p)' => 0 + One(y, "answered") + One(y, "opening")
                            <= One(x, "answered") + One(x, "opening") + f
        BY <2>5, <2>9 DEF One
    <2> QED BY <1>1, <2>2, <2>3, <2>4, <2>7, <2>8, <2>9, <2>10, <2>11, UsesKept
<1>10. CASE UNCHANGED <<jar, wire, faults, resets>>
    BY <1>1, <1>10 DEF UsesFit, Held, Sets, Answered, Closing, Opening, With
<1>11. ASSUME NEW b \in Browsers, NEW c \in Cookies, Forget(b, c) PROVE UsesFit(p)'
    <2>1. UNCHANGED <<wire, faults, resets>> BY <1>11 DEF Forget, tables
    <2>2. \A b2 \in Browsers : jar'[b2]["reset_token"] \in {jar[b2]["reset_token"], None}
        BY <1>4, <1>11, ForgetLoses
    <2>3. Held(p)' => Held(p) BY <1>4, <2>1, <2>2 DEF Held, Sets
    <2>4. PICK o : o = Cardinality(Opening(p)) OBVIOUS
    <2>5. PICK k : k = Cardinality(Closing(p)) OBVIOUS
    <2>6. PICK a : a = Cardinality(Answered(p)) OBVIOUS
    <2>7. o \in Nat /\ k \in Nat /\ a \in Nat
        <3>1. \A S \in SUBSET Requests : Cardinality(S) \in Nat
            BY ConstantsAssumption, FS_Subset, FS_CardinalityType
        <3> QED BY <2>4, <2>5, <2>6, <3>1 DEF Opening, Closing, Answered, With
    <2>8. o + k <= Cardinality(Requests) /\ Cardinality(Requests) \in Nat
        BY <2>4, <2>5, OpeningOrClosing
    <2>9. IF Held(p) THEN resets[p] + a <= k + faults
          ELSE resets[p] + a + o <= Cardinality(Requests) + faults
        BY <1>1, <2>4, <2>5, <2>6 DEF UsesFit
    <2>10. resets[p] + a + o <= Cardinality(Requests) + faults BY <1>2, <2>7, <2>8, <2>9
    <2>11. /\ o = Cardinality(Opening(p))' /\ k = Cardinality(Closing(p))'
           /\ a = Cardinality(Answered(p))'
        BY <2>1, <2>4, <2>5, <2>6 DEF Opening, Closing, Answered, With
    <2> QED BY <2>1, <2>3, <2>9, <2>10, <2>11 DEF UsesFit
<1> QED BY <1>5, <1>6, <1>7, <1>8, <1>9, <1>10, <1>11 DEF Next, Tick, vars, tables

\* A token that was not traded yet is not used: no request can carry it.
LEMMA StepUntraded ==
    ASSUME FlowInv, HolderInv, ResetsFit, [Next]_vars, NEW p \in Resets, proof'[p] = None
    PROVE  resets'[p] = 0 /\ \A s \in Requests : wire'[s].tx.reset # p
<1>1. resets[p] \in Nat /\ p # None BY ConstantsAssumption DEF FlowInv, TypeOK, Ids
<1>2. ASSUME proof[p] = None PROVE resets[p] = 0 /\ \A s \in Requests : wire[s].tx.reset # p
    BY <1>2 DEF ResetsFit
<1>3. ASSUME NEW r \in Requests, NEW w, wire' = [wire EXCEPT ![r] = w], proof[p] = None,
             w.tx.reset = None \/ w.tx.reset = wire[r].tx.reset, resets'[p] = resets[p]
      PROVE  resets'[p] = 0 /\ \A s \in Requests : wire'[s].tx.reset # p
    BY <1>1, <1>2, <1>3 DEF FlowInv, TypeOK
<1>4. ASSUME NEW r \in Requests, NEW b \in Browsers, NEW op \in Ops, Send(r, b, op)
      PROVE  resets'[p] = 0 /\ \A s \in Requests : wire'[s].tx.reset # p
    <2>1. PICK w : w = Request(b, op) OBVIOUS
    <2>2. w.tx.reset = None BY <2>1, RequestRecord, NothingSet DEF NothingFacts
    <2>3. /\ wire' = [wire EXCEPT ![r] = w] /\ proof[p] = None /\ resets'[p] = resets[p]
        BY <1>4, <2>1 DEF Send, tables
    <2> QED BY <1>3, <2>2, <2>3
<1>5. ASSUME NEW r \in Requests, NEW q \in Arriving(r), Serve(r, q)
      PROVE  resets'[p] = 0 /\ \A s \in Requests : wire'[s].tx.reset # p
    <2>1. Handled(r, q) BY <1>5, ServeHandled
    <2>2. PICK w : wire' = [wire EXCEPT ![r] = w] /\ Left(q, w) BY <2>1 DEF Handled
    <2>3. proof[p] = None /\ resets'[p] = resets[p] BY <2>1 DEF Handled
    <2>4. w.tx.reset # p
        <3>1. CASE w.tx.reset = None BY <1>1, <3>1
        <3>2. CASE w.tx.reset # None
            <4>1. q.op = "reset" /\ w.tx.reset = q.cookie
                BY <2>2, <3>2, NothingSet DEF Left, Ended, NothingFacts
            <4>2. Minted("reset_token", q.cookie)
                BY <4>1, ArrivingFits, ReadsFacts DEF Fits
            <4> QED BY <1>1, <2>3, <4>1, <4>2 DEF Minted
        <3> QED BY <3>1, <3>2
    <2>5. \A s \in Requests : wire'[s] = IF s = r THEN w ELSE wire[s]
        BY <2>2 DEF FlowInv, TypeOK
    <2> QED BY <1>2, <2>3, <2>4, <2>5
<1>6. ASSUME NEW r \in Requests, Commit(r) \/ CommitFails(r)
      PROVE  resets'[p] = 0 /\ \A s \in Requests : wire'[s].tx.reset # p
    <2>1. /\ wire[r].pc \in {"served", "answered"} /\ wire' = AfterCommit(r)
          /\ proof[p] = None
        BY <1>6 DEF Commit, CommitFails, tables
    <2>2. PICK w : wire' = [wire EXCEPT ![r] = w] /\ Settled(wire[r], w)
        BY <2>1, SettledRecord
    <2>3. w.tx.reset = None BY <2>2, NothingSet DEF Settled, Ended, NothingFacts
    <2>4. wire[r].tx.reset # p BY <1>2, <2>1
    <2>5. resets'[p] = resets[p] BY <1>1, <1>6, <2>4 DEF Commit, CommitFails, tables
    <2> QED BY <1>3, <2>1, <2>2, <2>3, <2>5
<1>7. ASSUME NEW r \in Requests, Fail(r)
      PROVE  resets'[p] = 0 /\ \A s \in Requests : wire'[s].tx.reset # p
    <2>1. PICK w : wire' = [wire EXCEPT ![r] = w] /\ Ended(w) BY <1>7, FailedRecord
    <2>2. w.tx.reset = None BY <2>1, NothingSet DEF Ended, NothingFacts
    <2>3. proof[p] = None /\ resets'[p] = resets[p] BY <1>7 DEF Fail, tables
    <2> QED BY <1>3, <2>1, <2>2, <2>3
<1>8. ASSUME NEW r \in Requests, Deliver(r) \/ Lose(r)
      PROVE  resets'[p] = 0 /\ \A s \in Requests : wire'[s].tx.reset # p
    <2>1. /\ wire[r].pc \in {"served", "committed"} /\ wire' = AfterAnswer(r)
          /\ proof[p] = None /\ resets'[p] = resets[p]
        BY <1>8 DEF Deliver, Lose, tables
    <2>2. PICK w : wire' = [wire EXCEPT ![r] = w] /\ Received(wire[r], w)
        BY <2>1, ReceivedRecord
    <2>3. w.tx.reset = None \/ w.tx.reset = wire[r].tx.reset
        BY <2>2, NothingSet DEF Received, Ended, NothingFacts
    <2> QED BY <1>3, <2>1, <2>2, <2>3
<1>9. CASE UNCHANGED <<wire, proof, resets>> BY <1>2, <1>9
<1> QED BY <1>4, <1>5, <1>6, <1>7, <1>8, <1>9 DEF Next, Forget, Tick, vars, tables

\* A reset token replaces a password no more often than requests and faults can
\* overlap: once its cookie is gone, nobody can send it again.
THEOREM ResetsAreBounded == Spec => []ResetsBounded
<1>1. Init => ResetsFit
    <2> SUFFICES ASSUME Init, NEW p \in Resets
                 PROVE  UsesFit(p) /\ resets[p] = 0 /\ \A r \in Requests : wire[r].tx.reset # p
        BY DEF ResetsFit
    <2>1. p # None BY ConstantsAssumption DEF Ids
    <2>2. \A r \in Requests : wire[r] = Idle BY DEF Init
    <2>3. Ended(Idle) BY DEF Ended, Idle
    <2>4. ~Held(p)
        BY <2>1, <2>2, <2>3, NothingSet DEF Init, Held, Sets, Cookies, Ended, NothingFacts
    <2>5. Answered(p) = {} /\ Opening(p) = {}
        BY <2>1, <2>2, <2>3 DEF Answered, Opening, With, Ended
    <2>6. Cardinality(Answered(p)) = 0 /\ Cardinality(Opening(p)) = 0 BY <2>5, FS_EmptySet
    <2>7. Cardinality(Requests) \in Nat BY OpeningOrClosing
    <2>8. resets[p] = 0 /\ faults = 0 BY DEF Init
    <2>9. UsesFit(p) BY <2>4, <2>6, <2>7, <2>8 DEF UsesFit
    <2> QED BY <2>1, <2>2, <2>3, <2>8, <2>9, NothingSet DEF Ended, NothingFacts
<1>2. FlowInv /\ HolderInv /\ ResetsFit /\ [Next]_vars => ResetsFit'
    BY StepUses, StepUntraded DEF ResetsFit
<1>3. FlowInv /\ ResetsFit => ResetsBounded
    <2> SUFFICES ASSUME FlowInv, ResetsFit, NEW p \in Resets
                 PROVE  resets[p] <= Cardinality(Requests) + faults
        BY DEF ResetsBounded
    <2>1. UsesFit(p) BY DEF ResetsFit
    <2>2. resets[p] \in Nat /\ faults \in Nat BY DEF FlowInv, TypeOK
    <2>3. /\ Cardinality(Opening(p)) + Cardinality(Closing(p)) <= Cardinality(Requests)
          /\ Cardinality(Requests) \in Nat
        BY OpeningOrClosing
    <2>4. \A S \in SUBSET Requests : Cardinality(S) \in Nat
        BY ConstantsAssumption, FS_Subset, FS_CardinalityType
    <2>5. /\ Cardinality(Opening(p)) \in Nat /\ Cardinality(Closing(p)) \in Nat
          /\ Cardinality(Answered(p)) \in Nat
        BY <2>4 DEF Opening, Closing, Answered, With
    <2> QED BY <2>1, <2>2, <2>3, <2>5 DEF UsesFit
<1> QED BY <1>1, <1>2, <1>3, FlowsSafe, HoldersSafe, PTL DEF Spec
=============================================================================
