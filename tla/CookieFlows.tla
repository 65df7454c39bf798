----------------------------- MODULE CookieFlows -----------------------------
(***************************************************************************)
(* The endpoints under /auth as browsers use them: registration, login,    *)
(* refresh, logout and password reset, chained by four cookies.            *)
(*                                                                         *)
(* The server keeps no record of a flow. What a request may do follows     *)
(* from the cookie it carries, which the browser attached when it sent it; *)
(* answers change the browser's cookies when they arrive, in any order.    *)
(* The session of a request is committed by get_db, a dependency that is   *)
(* left after the answer has gone out, so that the commit may follow the   *)
(* arrival of the answer, or fail after it.                                *)
(***************************************************************************)
EXTENDS Naturals, FiniteSets

CONSTANTS
    Browsers, Emails,
    Otps,        \* ids of rows of otp_verifications
    Tokens,      \* ids of rows of refresh_tokens
    Resets,      \* the password-reset tokens minted
    Requests,    \* the requests that can be under way at the same time
    Organizations, \* the emails that register as organizations
    Endpoints,   \* bound: the endpoints that browsers call
    None,
    AccessExpire,  \* ACCESS_TOKEN_EXPIRE_MINUTES
    RefreshExpire, \* REFRESH_TOKEN_EXPIRE_DAYS
    OtpExpire,   \* OTP_EXPIRE_MINUTES
    TokenExpire, \* OTP_TOKEN_EXPIRE_MINUTES, of reset tokens too
    ResetExpire, \* RESET_TOKEN_EXPIRE_MINUTES
    Cooldown,    \* OTP_RESEND_COOLDOWN_SECONDS
    Window,      \* OTP_RESEND_WINDOW_MINUTES
    MaxResends,  \* OTP_MAX_RESENDS
    MaxAttempts, \* OTP_MAX_ATTEMPTS
    MaxTime,     \* bound: the clock stops there
    MaxFaults    \* bound: answers lost and commits failed

Ids == Otps \union Tokens \union Resets

ASSUME ConstantsAssumption ==
    /\ Otps \intersect Tokens = {} /\ Otps \intersect Resets = {}
    /\ Tokens \intersect Resets = {}
    /\ None \notin Ids \union Emails \union Browsers
    /\ {AccessExpire, RefreshExpire, OtpExpire, TokenExpire, ResetExpire, Cooldown, Window,
        MaxResends, MaxAttempts, MaxTime, MaxFaults} \subseteq Nat
    /\ IsFiniteSet(Requests) /\ IsFiniteSet(Otps)

VARIABLES
    now,      \* the clock
    user,     \* user[e]: the status of the account of e, or "none"
    code,     \* code[o]: the channel and the time of a code, with its txn cookie
    session,  \* session[t]: the account, the time and the parent of a refresh token
    proof,    \* proof[p]: the account and the time of a reset token, and its code
    stored,   \* the rows of codes and of refresh tokens that are committed
    revoked,  \* those of them that are revoked
    attempts, \* attempts[o]: attempt_count
    resets,   \* resets[p]: how often the password was replaced by means of p
    jar,      \* jar[b]: the cookies of browser b
    wire,     \* wire[r]: request r, from its sending to its answer and its commit
    faults,   \* how many answers were lost and commits failed
    lost,     \* the refresh tokens whose answer never arrives
    unsaved,  \* the refresh tokens whose row was never committed
    ended     \* the refresh tokens revoked by a logout or a reset

history == <<lost, unsaved, ended>>
vars == <<now, user, code, session, proof, stored, revoked, attempts, resets, jar, wire,
          faults, lost, unsaved, ended>>
tables == <<user, code, session, proof, stored, revoked, attempts, resets>>

Purposes == {"registration", "forgot_password"}
Cookies == {"otp_token", "reset_token", "access_token", "refresh_token"}

\* The cookie each endpoint reads.
Reads == [verify |-> "otp_token", resend |-> "otp_token", verify_forgot |-> "otp_token",
          reset |-> "reset_token", refresh |-> "refresh_token", logout |-> "refresh_token"]
Ops == DOMAIN Reads \union {"register", "login", "forgot"}

\* How long a browser keeps each cookie.
Life == [otp_token |-> TokenExpire, reset_token |-> ResetExpire,
         access_token |-> AccessExpire, refresh_token |-> RefreshExpire]

\* The uncommitted writes of a request.
Nothing == [store |-> {}, revoke |-> {}, reset |-> None]
Writes == [store : SUBSET (Otps \union Tokens), revoke : SUBSET (Otps \union Tokens),
           reset : Resets \union {None}]

Jars == [Cookies -> Ids \union {None}]

\* The cookies an answer sets; None deletes one.
NoCookies == [c \in {} |-> None]
Settings == UNION {[C -> Ids \union {None}] : C \in SUBSET Cookies}

Idle == [pc |-> "idle", from |-> None, op |-> "login", cookie |-> None,
         set |-> NoCookies, tx |-> Nothing]
RequestState ==
    [pc : {"idle", "sent", "served", "committed", "answered"}, from : Browsers \union {None},
     op : Ops, cookie : Ids \union {None}, set : Settings, tx : Writes]

CodeRow == [email : Emails, purpose : Purposes, at : Nat]
SessionRow == [email : Emails, parent : Tokens \union {None}, at : Nat]
ProofRow == [email : Emails, code : Otps, at : Nat]

ASSUME NoneAssumption == None \notin CodeRow \union SessionRow \union ProofRow

TypeOK ==
    /\ now \in Nat
    /\ user \in [Emails -> {"none", "pending", "active"}]
    /\ code \in [Otps -> CodeRow \union {None}]
    /\ session \in [Tokens -> SessionRow \union {None}]
    /\ proof \in [Resets -> ProofRow \union {None}]
    /\ stored \subseteq Otps \union Tokens
    /\ revoked \subseteq Otps \union Tokens
    /\ attempts \in [Otps -> Nat]
    /\ resets \in [Resets -> Nat]
    /\ jar \in [Browsers -> Jars]
    /\ wire \in [Requests -> RequestState]
    /\ faults \in Nat
    /\ lost \subseteq Tokens /\ unsaved \subseteq Tokens /\ ended \subseteq Tokens

Init ==
    /\ now = 0
    /\ user = [e \in Emails |-> "none"]
    /\ code = [o \in Otps |-> None]
    /\ session = [t \in Tokens |-> None]
    /\ proof = [p \in Resets |-> None]
    /\ stored = {}
    /\ revoked = {}
    /\ attempts = [o \in Otps |-> 0]
    /\ resets = [p \in Resets |-> 0]
    /\ jar = [b \in Browsers |-> [c \in Cookies |-> None]]
    /\ wire = [r \in Requests |-> Idle]
    /\ faults = 0
    /\ lost = {} /\ unsaved = {} /\ ended = {}

----------------------------------------------------------------------------
(* Queries over the committed rows                                         *)

\* The stored codes of an email and a purpose.
Rows(e, purpose) ==
    {o \in stored \intersect Otps : code[o].email = e /\ code[o].purpose = purpose}

Active(e, purpose) ==
    {o \in Rows(e, purpose) : o \notin revoked /\ code[o].at + OtpExpire > now}

\* get_active_otp orders by created_at, whose resolution leaves ties open.
Newest(S) == {o \in S : \A o2 \in S : code[o2].at <= code[o].at}

\* The refresh tokens of e that are not revoked.
Live(e) == {t \in stored \intersect Tokens : session[t].email = e /\ t \notin revoked}

CoolingDown(e, purpose) == \E o \in Rows(e, purpose) : now < code[o].at + Cooldown

CapReached(e, purpose) ==
    Cardinality({o \in Rows(e, purpose) : code[o].at + Window >= now}) >= MaxResends

----------------------------------------------------------------------------
(* Requests and their answers                                              *)

\* A request as browser b sends it, with its cookie of the moment.
Request(b, op) ==
    [Idle EXCEPT !.pc = "sent", !.from = b, !.op = op,
                 !.cookie = IF op \in DOMAIN Reads THEN jar[b][Reads[op]] ELSE None]

Send(r, b, op) ==
    /\ wire[r].pc = "idle"
    /\ op \in DOMAIN Reads \intersect Endpoints
    /\ wire' = [wire EXCEPT ![r] = Request(b, op)]
    /\ UNCHANGED <<now, tables, jar, faults, history>>

\* What r may bring to the server: the request it was sent with, or a new one to
\* an endpoint that reads no cookie.
Arriving(r) ==
    IF wire[r].pc = "sent" THEN {wire[r]}
    ELSE {Request(b, op) : b \in Browsers,
          op \in {o \in Endpoints \intersect (Ops \ DOMAIN Reads) : wire[r].pc = "idle"}}

\* The handler of request q returns with cookies to set, leaving tx uncommitted.
Answer(r, q, set, tx) ==
    /\ wire' = [wire EXCEPT ![r] =
           [q EXCEPT !.pc = IF tx = Nothing THEN "committed" ELSE "served",
                     !.set = set, !.tx = tx]]
    /\ UNCHANGED <<now, jar, faults, history>>

\* Request r is over.
Over(r) == [wire EXCEPT ![r] = Idle]

\* An answer without cookies or writes, most often that of an exception, for
\* which get_db rolls back: its arrival makes no difference.
Refuse(r) == wire' = Over(r) /\ UNCHANGED <<now, jar, faults, history>>

\* 422: a malformed body, different passwords or a weak one.
Malformed(r, q) ==
    /\ q.op \in {"register", "verify", "login", "forgot", "verify_forgot", "reset"}
    /\ Refuse(r)
    /\ UNCHANGED tables

----------------------------------------------------------------------------
(* Codes: registration, resend, forgot_password                            *)

SetOtpToken(o) == [c \in {"otp_token"} |-> o]

\* OtpService.issue_otp, and the cookie with the txn of the new code.
Issue(r, q, e, purpose) ==
    \E o \in Otps :
        /\ code[o] = None
        /\ code' = [code EXCEPT ![o] = [email |-> e, purpose |-> purpose, at |-> now]]
        /\ Answer(r, q, SetOtpToken(o),
                  [Nothing EXCEPT !.store = {o}, !.revoke = Active(e, purpose)])
        /\ UNCHANGED <<session, proof, stored, revoked, attempts, resets>>

\* The pending account is committed before its code is stored.
Register(r, q, e) ==
    /\ q.op = "register"
    /\ user[e] = "none"
    /\ user' = [user EXCEPT ![e] = "pending"]
    /\ Issue(r, q, e, "registration")

RegisterRefused(r, q, e) ==
    /\ q.op = "register"
    /\ user[e] # "none"
    /\ Refuse(r)
    /\ UNCHANGED tables

ForgotPassword(r, q, e) ==
    /\ q.op = "forgot"
    /\ user[e] # "none"
    /\ Issue(r, q, e, "forgot_password")
    /\ UNCHANGED user

\* The same answer to an unknown email, without a cookie.
ForgotUnknown(r, q, e) ==
    /\ q.op = "forgot"
    /\ user[e] = "none"
    /\ Refuse(r)
    /\ UNCHANGED tables

\* validate_otp_token: the cookie o is there and not expired.
Valid(o) == o # None /\ now < code[o].at + TokenExpire

Resend(r, q) ==
    LET o == q.cookie IN
    /\ q.op = "resend"
    /\ Valid(o)
    /\ ~CoolingDown(code[o].email, code[o].purpose)
    /\ ~CapReached(code[o].email, code[o].purpose)
    /\ Issue(r, q, code[o].email, code[o].purpose)
    /\ UNCHANGED user

ResendRefused(r, q) ==
    LET o == q.cookie IN
    /\ q.op = "resend"
    /\ Valid(o) => \/ CoolingDown(code[o].email, code[o].purpose)
                   \/ CapReached(code[o].email, code[o].purpose)
    /\ Refuse(r)
    /\ UNCHANGED tables

----------------------------------------------------------------------------
(* Verification, of a registration or of a forgot_password code            *)

Purpose == [verify |-> "registration", verify_forgot |-> "forgot_password"]

\* Faulty variant: the purpose in the cookie is not checked.
InAnyFlow(q) == q.op \in DOMAIN Purpose /\ Valid(q.cookie)

\* The cookie of q belongs to the flow of its endpoint.
InFlow(q) ==
    /\ q.op \in DOMAIN Purpose
    /\ Valid(q.cookie)
    /\ code[q.cookie].purpose = Purpose[q.op]

\* The codes r's guess may be compared with: any of the newest.
Compared(q) ==
    IF InFlow(q) THEN Newest(Active(code[q.cookie].email, Purpose[q.op])) ELSE {}

\* No valid cookie, no active code, or the code of another transaction.
VerifyRefused(r, q) ==
    /\ q.op \in DOMAIN Purpose
    /\ Compared(q) = {} \/ Compared(q) \ {q.cookie} # {}
    /\ Refuse(r)
    /\ UNCHANGED tables

\* The count, and the revocation at the limit, are committed before the answer.
VerifyWrong(r, q) ==
    /\ \E o \in Compared(q) :
           /\ attempts' = [attempts EXCEPT ![o] = @ + 1]
           /\ revoked' = IF attempts[o] + 1 >= MaxAttempts THEN revoked \union {o} ELSE revoked
    /\ Refuse(r)
    /\ UNCHANGED <<user, code, session, proof, stored, resets>>

\* Faulty variants: the new refresh token is not set; or a cookie has a name that no
\* endpoint reads.
SetAccessOnly(t) == [c \in {"access_token"} |-> t]

SetMisnamed(t) == [c \in {"access", "refresh_token"} |-> t]

\* Both session cookies, for the tokens issued together.
SetSession(t) == [c \in {"access_token", "refresh_token"} |-> t]

\* complete_registration: the account is activated and the code revoked by a
\* commit of its own; the session follows.
CompleteRegistration(r, q) ==
    /\ q.op = "verify"
    /\ q.cookie \in Compared(q)
    /\ LET o == q.cookie IN
       /\ user' = [user EXCEPT ![code[o].email] = "active"]
       /\ revoked' = revoked \union {o}
       /\ \E t \in Tokens :
              /\ session[t] = None
              /\ session' = [session EXCEPT ![t] =
                                [email |-> code[o].email, parent |-> None, at |-> now]]
              /\ Answer(r, q,
                        [c \in {"access_token", "refresh_token", "otp_token"} |->
                            IF c = "otp_token" THEN None ELSE t],
                        [Nothing EXCEPT !.store = {t}])
    /\ UNCHANGED <<code, proof, stored, attempts, resets>>

\* The organization is looked up by the email its account was registered with, and not
\* found if its profile names another by now: the code is not used up.
OrganizationMissing(r, q) ==
    /\ q.op = "verify"
    /\ q.cookie \in Compared(q)
    /\ code[q.cookie].email \in Organizations
    /\ Refuse(r)
    /\ UNCHANGED tables

\* The code is traded for a reset token.
VerifyForgot(r, q) ==
    /\ q.op = "verify_forgot"
    /\ q.cookie \in Compared(q)
    /\ LET o == q.cookie IN
       \E p \in Resets :
           /\ proof[p] = None
           /\ proof' = [proof EXCEPT ![p] = [email |-> code[o].email, code |-> o, at |-> now]]
           /\ Answer(r, q,
                     [c \in {"otp_token", "reset_token"} |->
                         IF c = "otp_token" THEN None ELSE p],
                     [Nothing EXCEPT !.revoke = {o}])
    /\ UNCHANGED <<user, code, session, stored, revoked, attempts, resets>>

----------------------------------------------------------------------------
(* Password reset and sessions                                             *)

\* Faulty variant: the token lives as long as its cookie.
UnexpiredCookie(p) == p # None /\ now < proof[p].at + ResetExpire

\* validate_otp_token: the token expires like any OTP token, whatever the life
\* of the cookie that holds it.
Unexpired(p) == p # None /\ now < proof[p].at + TokenExpire

\* Faulty variant: the token that was used stays in the jar.
ClearOtp == [c \in {"otp_token"} |-> None]

ClearReset == [c \in {"reset_token", "otp_token"} |-> None]

ResetPassword(r, q) ==
    LET p == q.cookie IN
    /\ q.op = "reset"
    /\ Unexpired(p)
    /\ Answer(r, q, ClearReset,
              [Nothing EXCEPT !.reset = p,
                              !.revoke = Active(proof[p].email, "forgot_password")
                                         \union Live(proof[p].email)])
    /\ UNCHANGED tables

ResetRefused(r, q) ==
    /\ q.op = "reset"
    /\ ~Unexpired(q.cookie)
    /\ Refuse(r)
    /\ UNCHANGED tables

\* The right password of an active account.
Login(r, q, e) ==
    /\ q.op = "login"
    /\ user[e] = "active"
    /\ \E t \in Tokens :
           /\ session[t] = None
           /\ session' = [session EXCEPT ![t] = [email |-> e, parent |-> None, at |-> now]]
           /\ Answer(r, q, SetSession(t), [Nothing EXCEPT !.store = {t}])
    /\ UNCHANGED <<user, code, proof, stored, revoked, attempts, resets>>

\* An unknown email, a wrong password, or an account that is not active yet.
LoginRefused(r, q) ==
    /\ q.op = "login"
    /\ Refuse(r)
    /\ UNCHANGED tables

\* The refresh token t is neither spent nor expired, and its account is active.
Accepted(t) ==
    /\ t \in stored \ revoked
    /\ now < session[t].at + RefreshExpire
    /\ user[session[t].email] = "active"

\* Faulty variant: the new token is not stored.
RefreshUnstored(r, q) ==
    LET t == q.cookie IN
    /\ q.op = "refresh"
    /\ t # None /\ Accepted(t)
    /\ \E n \in Tokens :
           /\ session[n] = None
           /\ session' = [session EXCEPT ![n] =
                             [email |-> session[t].email, parent |-> t, at |-> now]]
           /\ Answer(r, q, SetSession(n), [Nothing EXCEPT !.revoke = {t}])
    /\ UNCHANGED <<user, code, proof, stored, revoked, attempts, resets>>

\* Nothing here deactivates an account, so the 403 of a refresh does not arise.
Refresh(r, q) ==
    LET t == q.cookie IN
    /\ q.op = "refresh"
    /\ t # None /\ Accepted(t)
    /\ \E n \in Tokens :
           /\ session[n] = None
           /\ session' = [session EXCEPT ![n] =
                             [email |-> session[t].email, parent |-> t, at |-> now]]
           /\ Answer(r, q, SetSession(n), [Nothing EXCEPT !.store = {n}, !.revoke = {t}])
    /\ UNCHANGED <<user, code, proof, stored, revoked, attempts, resets>>

RefreshRefused(r, q) ==
    /\ q.op = "refresh"
    /\ q.cookie = None \/ ~Accepted(q.cookie)
    /\ Refuse(r)
    /\ UNCHANGED tables

\* Whatever the state of its token, unless it is expired, the tokens of its account are
\* revoked.
Logout(r, q) ==
    LET t == q.cookie IN
    /\ q.op = "logout"
    /\ Answer(r, q, [c \in {"refresh_token", "access_token", "otp_token"} |-> None],
              [Nothing EXCEPT !.revoke = IF t # None /\ now < session[t].at + RefreshExpire
                                         THEN Live(session[t].email) ELSE {}])
    /\ UNCHANGED tables

----------------------------------------------------------------------------
(* Commits, answers and the clock                                          *)

\* The answer to r, still on its way, sets cookie c to v.
Sets(r, c, v) == c \in DOMAIN wire[r].set /\ wire[r].set[c] = v

\* The requests after r has committed or rolled back, and after its answer.
AfterCommit(r) ==
    IF wire[r].pc = "answered" THEN Over(r)
    ELSE [wire EXCEPT ![r] = [@ EXCEPT !.pc = "committed", !.tx = Nothing]]
AfterAnswer(r) ==
    IF wire[r].pc = "committed" THEN Over(r)
    ELSE [wire EXCEPT ![r] = [Idle EXCEPT !.pc = "answered", !.op = wire[r].op,
                                          !.tx = wire[r].tx]]

Commit(r) ==
    /\ wire[r].pc \in {"served", "answered"}
    /\ stored' = stored \union wire[r].tx.store
    /\ revoked' = revoked \union wire[r].tx.revoke
    /\ resets' = [p \in Resets |-> resets[p] + IF wire[r].tx.reset = p THEN 1 ELSE 0]
    /\ ended' = IF wire[r].op \in {"logout", "reset"}
                THEN ended \union (wire[r].tx.revoke \intersect Tokens) ELSE ended
    /\ wire' = AfterCommit(r)
    /\ UNCHANGED <<now, user, code, session, proof, attempts, jar, faults, lost, unsaved>>

\* The commit fails when the answer may have gone out already.
CommitFails(r) ==
    /\ wire[r].pc \in {"served", "answered"}
    /\ faults < MaxFaults
    /\ faults' = faults + 1
    /\ unsaved' = unsaved \union (wire[r].tx.store \intersect Tokens)
    /\ wire' = AfterCommit(r)
    /\ UNCHANGED <<now, tables, jar, lost, ended>>

\* The handler fails after its reads, as when a mail cannot be sent.
Fail(r) ==
    /\ wire[r].pc = "served"
    /\ faults < MaxFaults
    /\ faults' = faults + 1
    /\ lost' = lost \union {t \in Tokens : Sets(r, "refresh_token", t)}
    /\ unsaved' = unsaved \union (wire[r].tx.store \intersect Tokens)
    /\ wire' = Over(r)
    /\ UNCHANGED <<now, tables, jar, ended>>

Deliver(r) ==
    /\ wire[r].pc \in {"served", "committed"}
    /\ jar' = [jar EXCEPT ![wire[r].from] =
                  [c \in Cookies |-> IF c \in DOMAIN wire[r].set THEN wire[r].set[c] ELSE @[c]]]
    /\ wire' = AfterAnswer(r)
    /\ UNCHANGED <<now, tables, faults, history>>

\* The answer does not reach the browser.
Lose(r) ==
    /\ wire[r].pc \in {"served", "committed"}
    /\ faults < MaxFaults
    /\ faults' = faults + 1
    /\ lost' = lost \union {t \in Tokens : Sets(r, "refresh_token", t)}
    /\ wire' = AfterAnswer(r)
    /\ UNCHANGED <<now, tables, jar, unsaved, ended>>

\* When id v was minted.
Born(v) ==
    CASE v \in Otps -> code[v].at
      [] v \in Resets -> proof[v].at
      [] OTHER -> session[v].at

\* The max_age of a cookie is over: it counts from the arrival of the answer that set it,
\* which is not before the id in it was minted.
Forget(b, c) ==
    /\ jar[b][c] # None
    /\ now >= Born(jar[b][c]) + Life[c]
    /\ jar' = [jar EXCEPT ![b][c] = None]
    /\ UNCHANGED <<now, tables, wire, faults, history>>

Tick ==
    /\ now < MaxTime
    /\ now' = now + 1
    /\ UNCHANGED <<tables, jar, wire, faults, history>>

Serve(r, q) ==
    \/ Malformed(r, q)
    \/ \E e \in Emails :
           \/ Register(r, q, e) \/ RegisterRefused(r, q, e)
           \/ ForgotPassword(r, q, e) \/ ForgotUnknown(r, q, e)
           \/ Login(r, q, e)
    \/ LoginRefused(r, q)
    \/ Resend(r, q) \/ ResendRefused(r, q)
    \/ VerifyRefused(r, q) \/ VerifyWrong(r, q) \/ CompleteRegistration(r, q)
    \/ OrganizationMissing(r, q) \/ VerifyForgot(r, q)
    \/ ResetPassword(r, q) \/ ResetRefused(r, q)
    \/ Refresh(r, q) \/ RefreshRefused(r, q) \/ Logout(r, q)

Next ==
    \/ \E r \in Requests :
           \/ \E b \in Browsers, op \in Ops : Send(r, b, op)
           \/ \E q \in Arriving(r) : Serve(r, q)
           \/ Commit(r) \/ CommitFails(r) \/ Fail(r) \/ Deliver(r) \/ Lose(r)
    \/ \E b \in Browsers, c \in Cookies : Forget(b, c)
    \/ Tick

Spec == Init /\ [][Next]_vars

----------------------------------------------------------------------------
(* Properties                                                              *)

\* The answer that brings browser b the token n for its token t is on its way, or lost.
Rotating(b, t, n) ==
    \/ n \in lost
    \/ \E r \in Requests : /\ wire[r].from = b /\ wire[r].op = "refresh" /\ wire[r].cookie = t
                           /\ Sets(r, "refresh_token", n)

\* A browser holds a refresh token that was rotated away only until the answer to that
\* refresh arrives, if it does: two tabs cannot leave it with a spent one.
RotatedOnlyInFlight ==
    \A b \in Browsers, n \in stored \intersect Tokens :
        LET t == session[n].parent IN
        t # None /\ jar[b]["refresh_token"] = t => Rotating(b, t, n)

\* The refresh token a browser holds is accepted until it expires, but for these cases:
\* a logout or a reset ended the session; the commit that follows its answer is still to
\* come, or failed; it was rotated, and that answer is on its way, or lost.
HeldTokensAccepted ==
    \A b \in Browsers :
        LET t == jar[b]["refresh_token"] IN
        t # None /\ now < session[t].at + RefreshExpire /\ t \notin ended \union unsaved =>
            \/ Accepted(t)
            \/ \E r \in Requests : t \in wire[r].tx.store
            \/ \E n \in stored \intersect Tokens : session[n].parent = t /\ Rotating(b, t, n)

\* A reset token replaces a password once for each request that can be under way
\* with it, and once more for each fault: nothing on the server spends it.
ResetsBounded == \A p \in Resets : resets[p] <= Cardinality(Requests) + faults

\* A password is replaced only within the lifetime of a reset token that was
\* traded for an unexpired forgot_password code of the same account.
ResetsProved ==
    [][\A r \in Requests, p \in Resets :
          wire'[r].tx.reset = p /\ wire[r].tx.reset # p =>
              /\ proof[p] # None
              /\ now < proof[p].at + TokenExpire
              /\ LET o == proof[p].code IN
                 /\ code[o].purpose = "forgot_password"
                 /\ code[o].email = proof[p].email
                 /\ proof[p].at < code[o].at + OtpExpire]_vars

\* A guess counts only against a code of the flow its endpoint serves and of the
\* email in its cookie: a flow begun in another tab, which replaces the one cookie
\* both flows share, does not spend the guesses of this one.
GuessesInFlow ==
    [][\A o \in Otps :
          attempts'[o] > attempts[o] =>
              \E r \in Requests :
                  /\ wire[r].op \in DOMAIN Purpose
                  /\ code[o].purpose = Purpose[wire[r].op]
                  /\ wire[r].cookie \in Otps
                  /\ code[wire[r].cookie].email = code[o].email
                  /\ code[wire[r].cookie].purpose = code[o].purpose]_vars

----------------------------------------------------------------------------
(* Inductive invariant, the strengthening the proofs need                  *)

\* What a cookie of name c may hold: an id that was minted for it.
Minted(c, v) ==
    \/ v = None
    \/ c = "otp_token" /\ v \in Otps /\ code[v] # None
    \/ c = "reset_token" /\ v \in Resets /\ proof[v] # None
    \/ c \in {"access_token", "refresh_token"} /\ v \in Tokens /\ session[v] # None

\* The rows of S were minted.
RowsMinted(S) ==
    /\ \A o \in S \intersect Otps : code[o] # None
    /\ \A t \in S \intersect Tokens : session[t] # None

\* An answer sets both session cookies, to the same session, or neither.
Paired(set) ==
    /\ "access_token" \in DOMAIN set <=> "refresh_token" \in DOMAIN set
    /\ "access_token" \in DOMAIN set => set["access_token"] = set["refresh_token"]

\* What request w carries and is about to set or store was minted.
Fits(w) ==
    /\ w.op \in DOMAIN Reads => Minted(Reads[w.op], w.cookie)
    /\ \A c \in DOMAIN w.set : Minted(c, w.set[c])
    /\ Paired(w.set)
    /\ RowsMinted(w.tx.store)

\* Reset token p was traded for a code of its account that had not expired.
Proved(p) ==
    LET o == proof[p].code IN
    /\ code[o] # None
    /\ code[o].purpose = "forgot_password"
    /\ code[o].email = proof[p].email
    /\ proof[p].at < code[o].at + OtpExpire

\* The access and the refresh cookie of a browser, while it has both, are of one session,
\* in whatever order the answers to its requests arrive.
JarCoherent ==
    \A b \in Browsers :
        LET jb == jar[b] IN
        jb["access_token"] # None /\ jb["refresh_token"] # None =>
            jb["access_token"] = jb["refresh_token"]

FlowInv ==
    /\ TypeOK
    /\ JarCoherent
    /\ \A b \in Browsers, c \in Cookies : Minted(c, jar[b][c])
    /\ \A r \in Requests : Fits(wire[r])
    /\ RowsMinted(stored)
    /\ \A p \in Resets : proof[p] # None => Proved(p)

----------------------------------------------------------------------------
(* Who holds a cookie, and how often a reset token can be used             *)

\* What the stage of request w says of the rest of its record.
StageFits(w) ==
    /\ w.pc \in {"sent", "served", "committed"} => w.from \in Browsers
    /\ w.pc \in {"idle", "answered"} => w.cookie = None
    /\ w.pc \in {"idle", "sent", "answered"} => w.set = NoCookies
    /\ w.pc \in {"idle", "sent", "committed"} => w.tx = Nothing
    /\ w.pc \in {"served", "committed"} /\ w.op = "reset" => w.set = ClearReset
    /\ w.pc = "served" /\ w.op = "reset" => w.tx.reset = w.cookie
    /\ w.tx.reset # None => w.op = "reset"

\* An id is in one place: on its way to a browser, or in the jar of one, whose
\* requests alone carry it.
OneHolder ==
    \A c \in Cookies, v \in Ids :
        /\ \A b1, b2 \in Browsers : jar[b1][c] = v /\ jar[b2][c] = v => b1 = b2
        /\ \A r1, r2 \in Requests : Sets(r1, c, v) /\ Sets(r2, c, v) => r1 = r2
        /\ \A b \in Browsers, r \in Requests : ~(jar[b][c] = v /\ Sets(r, c, v))
        /\ \A s \in Requests :
               wire[s].op \in DOMAIN Reads /\ Reads[wire[s].op] = c /\ wire[s].cookie = v =>
                   /\ \A r \in Requests : ~Sets(r, c, v)
                   /\ \A b \in Browsers : jar[b][c] = v => wire[s].from = b

HolderInv == (\A r \in Requests : StageFits(wire[r])) /\ OneHolder

\* The token t that n replaces is not on its way to a browser again, and leaves its
\* browser with the answer that brings n, unless that answer is lost.
ParentsLeave ==
    \A n \in Tokens : session[n] # None /\ session[n].parent # None =>
        LET t == session[n].parent IN
        /\ session[t] # None
        /\ \A r \in Requests : ~Sets(r, "refresh_token", t)
        /\ \/ n \in lost
           \/ \A b \in Browsers : jar[b]["refresh_token"] # t
           \/ \E r \in Requests : /\ wire[r].op = "refresh"
                                  /\ wire[r].cookie = t
                                  /\ Sets(r, "refresh_token", n)

\* A refresh token was minted for an active account, and its row is stored, was never
\* saved or is still to be committed; and one that is revoked was rotated or ended.
SessionsFit ==
    /\ \A t \in Tokens : session[t] # None =>
         /\ user[session[t].email] = "active"
         /\ t \in stored \union unsaved \/ \E r \in Requests : t \in wire[r].tx.store
    /\ \A t \in revoked \intersect Tokens :
         t \in ended \/ \E n \in stored \intersect Tokens : session[n].parent = t
    /\ \A r \in Requests : \A t \in wire[r].tx.revoke \intersect Tokens :
         \/ wire[r].op \in {"logout", "reset"}
         \/ \E n \in wire[r].tx.store \intersect Tokens : session[n].parent = t

\* Reset token p can still be sent again.
Held(p) ==
    \/ \E b \in Browsers : jar[b]["reset_token"] = p
    \/ \E r \in Requests : Sets(r, "reset_token", p)

\* The requests with p that have still to be answered and to commit, that have
\* still to be answered only, or to commit only.
With(p) == {r \in Requests : wire[r].op = "reset" /\ wire[r].cookie = p}
Opening(p) == {r \in With(p) : wire[r].pc \in {"sent", "served"}}
Closing(p) == {r \in With(p) : wire[r].pc = "committed"}
Answered(p) == {r \in Requests : wire[r].pc = "answered" /\ wire[r].tx.reset = p}

\* While p is held, each use of it but one per fault has its answer on the way;
\* afterwards no request with p is added to those under way.
UsesFit(p) ==
    IF Held(p)
    THEN resets[p] + Cardinality(Answered(p)) <= Cardinality(Closing(p)) + faults
    ELSE resets[p] + Cardinality(Answered(p)) + Cardinality(Opening(p))
           <= Cardinality(Requests) + faults

ResetsFit ==
    \A p \in Resets :
        /\ UsesFit(p)
        /\ proof[p] = None => resets[p] = 0 /\ \A r \in Requests : wire[r].tx.reset # p
=============================================================================
