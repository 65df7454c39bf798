----------------------------- MODULE OtpService -----------------------------
(***************************************************************************)
(* The one-time passwords (OTPs) of the authentication service: issuing,   *)
(* resending, verifying and revoking the codes mailed for a channel, an    *)
(* email address and a purpose, by requests that run concurrently over one *)
(* database.                                                               *)
(*                                                                         *)
(* A request reads its snapshot and decides (...Read, or ...Refused for an *)
(* early return), then commits or rolls back; time may pass in between.    *)
(* Its updates are blind writes of values computed from the snapshot. Row  *)
(* locks only order the commits of two requests that update one row.       *)
(***************************************************************************)
EXTENDS Naturals, FiniteSets

CONSTANTS
    Channels,       \* pairs of an email and an OtpPurpose
    CookieChannels, \* those verified with an otp_token cookie: registration, forgot_password
    ForgotChannels, \* those of purpose forgot_password
    Otps,           \* ids of rows of otp_verifications
    Requests,       \* the requests the server can work on at the same time
    NoChannel, NoOtp,
    OtpExpire,      \* OTP_EXPIRE_MINUTES
    TokenExpire,    \* OTP_TOKEN_EXPIRE_MINUTES
    Cooldown,       \* OTP_RESEND_COOLDOWN_SECONDS
    Window,         \* OTP_RESEND_WINDOW_MINUTES
    MaxResends,     \* OTP_MAX_RESENDS
    MaxAttempts,    \* OTP_MAX_ATTEMPTS
    MaxTime         \* bound: the clock stops there

ASSUME ConstantsAssumption ==
    /\ ForgotChannels \subseteq CookieChannels
    /\ CookieChannels \subseteq Channels
    /\ NoChannel \notin Channels
    /\ NoOtp \notin Otps
    /\ {OtpExpire, TokenExpire, Cooldown, Window, MaxResends, MaxTime} \subseteq Nat
    /\ MaxAttempts \in Nat \ {0}
    /\ IsFiniteSet(Requests)

VARIABLES
    now,       \* the clock
    chan,      \* chan[o]: the channel of a stored row, or NoChannel
    via,       \* via[o]: what issued it, a "first" code, a "legacy" or "cookie" resend
    created,   \* created[o]: created_at; expires_at is OtpExpire later
    revoked,   \* the rows whose revoked_at is set
    attempts,  \* attempts[o]: attempt_count
    req,       \* req[r]: the transaction of request r
    used,      \* used[o]: how many verifications with o have succeeded
    guessed    \* history: guessed[o]: how many wrong guesses at o were answered

vars == <<now, chan, via, created, revoked, attempts, req, used, guessed>>

Issues == {"first", "legacy", "cookie"}
Ops == Issues \union {"wrong", "right", "reset"}

Idle == [op |-> "reset", pc |-> "idle", chan |-> NoChannel, target |-> NoOtp,
         revokes |-> {}, attempts |-> 0, at |-> 0]

RequestState ==
    [op : Ops, pc : {"idle", "open"}, chan : Channels \union {NoChannel},
     target : Otps \union {NoOtp}, revokes : SUBSET Otps, attempts : Nat, at : Nat]

TypeOK ==
    /\ now \in Nat
    /\ chan \in [Otps -> Channels \union {NoChannel}]
    /\ via \in [Otps -> Issues]
    /\ created \in [Otps -> Nat]
    /\ revoked \subseteq Otps
    /\ attempts \in [Otps -> Nat]
    /\ req \in [Requests -> RequestState]
    /\ used \in [Otps -> Nat]
    /\ guessed \in [Otps -> Nat]

Init ==
    /\ now = 0
    /\ chan = [o \in Otps |-> NoChannel]
    /\ via = [o \in Otps |-> "first"]
    /\ created = [o \in Otps |-> 0]
    /\ revoked = {}
    /\ attempts = [o \in Otps |-> 0]
    /\ req = [r \in Requests |-> Idle]
    /\ used = [o \in Otps |-> 0]
    /\ guessed = [o \in Otps |-> 0]

----------------------------------------------------------------------------
(* Queries of AuthRepository                                               *)

Rows(c) == {o \in Otps : chan[o] = c}

\* Faulty variant: the queries forget the purpose or the email.
ActiveAnywhere(c) ==
    {o \in Otps : chan[o] # NoChannel /\ o \notin revoked /\ created[o] + OtpExpire > now}

\* Not revoked and not expired: revoke_active_otps and get_active_otp.
Active(c) == {o \in Rows(c) : o \notin revoked /\ created[o] + OtpExpire > now}

\* get_active_otp orders by created_at, whose resolution leaves ties open.
Newest(S) == {o \in S : \A p \in S : created[p] <= created[o]}

\* Faulty variant: the cooldown is counted from codes that can still be used.
CoolingDownIfActive(c) == \E o \in Active(c) : now < created[o] + Cooldown

\* get_last_otp, revoked or not, is younger than the cooldown.
CoolingDown(c) == \E o \in Rows(c) : now < created[o] + Cooldown

\* Faulty variant: one resend too many.
CapReachedLate(c) ==
    Cardinality({o \in Rows(c) : created[o] + Window >= now}) > MaxResends

\* count_otps_issued since the start of the window has reached the cap.
CapReached(c) ==
    Cardinality({o \in Rows(c) : created[o] + Window >= now}) >= MaxResends

\* The client of c holds an unexpired otp_token whose txn claim is o. Codes
\* that the legacy resend issues come without one.
HoldsCookie(c, o) ==
    /\ c \in CookieChannels
    /\ o \in Rows(c)
    /\ via[o] # "legacy"
    /\ created[o] + TokenExpire > now

\* What a verification of c presents: a cookie, or nothing on a legacy channel.
Presents(c, t) == IF c \in CookieChannels THEN HoldsCookie(c, t) ELSE t = NoOtp

----------------------------------------------------------------------------
(* Reads: the checks and decisions of each handler                         *)

\* Bound: a request that issues a code begins only while one is left for it.
RoomToIssue ==
    Cardinality({s \in Requests : req[s].pc = "open" /\ req[s].op \in Issues})
      < Cardinality(Rows(NoChannel))

Begin(r, txn) ==
    /\ req[r].pc = "idle"
    /\ txn.op \in Issues => RoomToIssue
    /\ req' = [req EXCEPT ![r] = txn]
    /\ UNCHANGED <<now, chan, via, created, revoked, attempts, used, guessed>>

\* Faulty variant: the previous code stays valid.
IssueReadKeepingOld(r, c, how) ==
    Begin(r, [Idle EXCEPT !.op = how, !.pc = "open", !.chan = c, !.at = now])

\* OtpService.issue_otp: the active codes are revoked, a new row is inserted.
IssueRead(r, c, how) ==
    Begin(r, [Idle EXCEPT !.op = how, !.pc = "open", !.chan = c, !.at = now,
                          !.revokes = Active(c)])

\* AuthService.resend_otp_from_cookie and OtpService.resend_otp.
ResendRead(r, c) ==
    /\ \E o \in Otps : HoldsCookie(c, o)
    /\ ~CoolingDown(c)
    /\ ~CapReached(c)
    /\ IssueRead(r, c, "cookie")

\* 429: too soon, or too many.
ResendRefused(r, c) ==
    /\ req[r].pc = "idle"
    /\ \E o \in Otps : HoldsCookie(c, o)
    /\ CoolingDown(c) \/ CapReached(c)
    /\ UNCHANGED vars

\* Faulty variant: one guess too many.
WrongReadOneMore(r, c, t) ==
    /\ Presents(c, t)
    /\ \E o \in Newest(Active(c)) :
           Begin(r, [Idle EXCEPT !.op = "wrong", !.pc = "open", !.chan = c, !.target = o,
                                 !.attempts = attempts[o] + 1,
                                 !.revokes = IF attempts[o] + 1 > MaxAttempts
                                             THEN {o} ELSE {}])

\* OtpService.verify_otp with a code that does not match: the count is raised
\* and the last allowed guess revokes the row.
WrongRead(r, c, t) ==
    /\ Presents(c, t)
    /\ \E o \in Newest(Active(c)) :
           Begin(r, [Idle EXCEPT !.op = "wrong", !.pc = "open", !.chan = c, !.target = o,
                                 !.attempts = attempts[o] + 1,
                                 !.revokes = IF attempts[o] + 1 >= MaxAttempts
                                             THEN {o} ELSE {}])

\* Faulty variant: a verified code is not invalidated.
RightReadReusable(r, c, t) ==
    /\ Presents(c, t)
    /\ \E o \in Newest(Active(c)) :
           /\ c \in CookieChannels => t = o
           /\ Begin(r, [Idle EXCEPT !.op = "right", !.pc = "open", !.chan = c,
                                    !.target = o])

\* OtpService.verify_otp with the code that matches, which the caller then
\* compares with the txn of the cookie.
RightRead(r, c, t) ==
    /\ Presents(c, t)
    /\ \E o \in Newest(Active(c)) :
           /\ c \in CookieChannels => t = o
           /\ Begin(r, [Idle EXCEPT !.op = "right", !.pc = "open", !.chan = c,
                                    !.target = o, !.revokes = {o}])

\* 400: a missing, foreign or expired cookie; no active code; or a matching code
\* with the cookie of an earlier one, whose revocation is rolled back.
VerifyRefused(r, c, t) ==
    /\ req[r].pc = "idle"
    /\ \/ ~Presents(c, t)
       \/ Active(c) = {}
       \/ c \in CookieChannels /\ \E o \in Newest(Active(c)) : t # o
    /\ UNCHANGED vars

\* AuthService.reset_password, entitled by a code of the channel verified before.
ResetRead(r, c) ==
    /\ c \in ForgotChannels
    /\ \E o \in Rows(c) : used[o] > 0
    /\ Begin(r, [Idle EXCEPT !.op = "reset", !.pc = "open", !.chan = c,
                             !.revokes = Active(c)])

----------------------------------------------------------------------------
(* Commit, rollback and the clock                                          *)

\* The rows after request r inserted row n, or none if n is NoOtp.
Insert(r, n) ==
    /\ chan' = [o \in Otps |-> IF o = n THEN req[r].chan ELSE chan[o]]
    /\ via' = [o \in Otps |-> IF o = n THEN req[r].op ELSE via[o]]
    /\ created' = [o \in Otps |-> IF o = n THEN req[r].at ELSE created[o]]

\* Faulty variants: the error response rolls the count back; or the column
\* counts down.
AttemptsAfterRollback(r) == attempts

AttemptsAfterCountdown(r) ==
    IF req[r].op = "wrong" THEN [attempts EXCEPT ![req[r].target] = @ - 1] ELSE attempts

\* attempt_count after request r: the value computed from its snapshot.
AttemptsAfter(r) ==
    IF req[r].op = "wrong" THEN [attempts EXCEPT ![req[r].target] = req[r].attempts]
    ELSE attempts

\* How often each row is the target of r's operation op: once or not at all.
Hit(r, op, o) == IF req[r].op = op /\ req[r].target = o THEN 1 ELSE 0

\* A wrong guess commits before it is answered with an error; everything else
\* commits with the handler or after its response.
Commit(r) ==
    /\ req[r].pc = "open"
    /\ IF req[r].op \in Issues THEN \E n \in Rows(NoChannel) : Insert(r, n)
       ELSE UNCHANGED <<chan, via, created>>
    /\ revoked' = revoked \union req[r].revokes
    /\ attempts' = AttemptsAfter(r)
    /\ used' = [o \in Otps |-> used[o] + Hit(r, "right", o)]
    /\ guessed' = [o \in Otps |-> guessed[o] + Hit(r, "wrong", o)]
    /\ req' = [req EXCEPT ![r] = Idle]
    /\ UNCHANGED now

\* An exception after the read, such as a mail that cannot be sent, or a crash.
Rollback(r) ==
    /\ req[r].pc = "open"
    /\ req' = [req EXCEPT ![r] = Idle]
    /\ UNCHANGED <<now, chan, via, created, revoked, attempts, used, guessed>>

Tick ==
    /\ now < MaxTime
    /\ now' = now + 1
    /\ UNCHANGED <<chan, via, created, revoked, attempts, req, used, guessed>>

Read(r) ==
    \E c \in Channels :
        \/ \E how \in {"first", "legacy"} : IssueRead(r, c, how)
        \/ ResendRead(r, c)
        \/ ResendRefused(r, c)
        \/ \E t \in Otps \union {NoOtp} : WrongRead(r, c, t)
        \/ \E t \in Otps \union {NoOtp} : RightRead(r, c, t)
        \/ \E t \in Otps \union {NoOtp} : VerifyRefused(r, c, t)
        \/ ResetRead(r, c)

Next ==
    \/ \E r \in Requests : Read(r) \/ Commit(r) \/ Rollback(r)
    \/ Tick

Spec == Init /\ [][Next]_vars

----------------------------------------------------------------------------
(* Properties that hold for any number of concurrent requests              *)

\* A code that verified, or that used up its guesses, is never active again:
\* the stale attempt_count a concurrent guess writes back cannot revive it.
SpentStaysRevoked ==
    \A o \in Otps : used[o] > 0 \/ attempts[o] >= MaxAttempts => o \in revoked

\* A code verifies at most once for each request the server can have in
\* flight, so exactly once when requests do not overlap.
UsesBounded == \A o \in Otps : used[o] <= Cardinality(Requests)

\* Overlapping issues leave at most one active code each in a channel; without
\* overlap a channel has one.
ActiveBounded == \A c \in Channels : Cardinality(Active(c)) <= Cardinality(Requests)

\* However resends overlap, the window that ends with one of them holds no more
\* codes than the cap, and one for every other request in flight. (Codes issued
\* otherwise in the very tick of that resend may come after it.)
ResendsBounded ==
    \A o \in Otps :
        via[o] = "cookie" =>
            Cardinality({p \in Rows(chan[o]) :
                            /\ \/ created[p] < created[o]
                               \/ created[p] = created[o] /\ via[p] = "cookie"
                            /\ created[o] <= created[p] + Window})
              < MaxResends + Cardinality(Requests)

----------------------------------------------------------------------------
(* Properties that hold when requests are served one at a time             *)

\* Wrong attempts increment the retry count: each one answered is counted, as
\* verify_otp commits the count before it raises.
AttemptsCounted == \A o \in Otps : attempts[o] = guessed[o]

\* No code of a channel is older than a resend of it by less than the cooldown.
ResendsSpaced ==
    \A o, p \in Otps :
        /\ via[o] = "cookie"
        /\ chan[p] = chan[o]
        /\ created[p] < created[o]
        => created[p] + Cooldown <= created[o]

\* The active code of a channel is an OtpChallenge.
Challenge == INSTANCE OtpChallenge
    WITH current <- [c \in Channels |-> IF Active(c) = {} THEN NoOtp
                                        ELSE CHOOSE o \in Active(c) : TRUE],
         issued <- {o \in Otps : chan[o] # NoChannel},
         failures <- attempts

ImplementsChallenge == Challenge!Spec

----------------------------------------------------------------------------
(* Inductive invariants, the strengthenings the proofs need                *)

\* An open transaction that raises attempt_count to the limit, or that verified
\* a code, revokes that code.
WritesFit ==
    \A r \in Requests : req[r].pc = "open" =>
        /\ req[r].op = "right" => req[r].target \in Otps /\ req[r].revokes = {req[r].target}
        /\ req[r].op = "wrong" =>
               /\ req[r].target \in Otps
               /\ req[r].attempts >= MaxAttempts => req[r].target \in req[r].revokes

\* The open verifications that matched code o.
Matching(o) ==
    {r \in Requests : req[r].pc = "open" /\ req[r].op = "right" /\ req[r].target = o}

\* None can join them once the first has committed.
UsesFit ==
    \A o \in Otps : used[o] + Cardinality(Matching(o)) <= Cardinality(Requests)

ConcurrentInv == TypeOK /\ WritesFit /\ SpentStaysRevoked /\ UsesFit

\* Requests are served one at a time.
Serial == \A r, s \in Requests : r = s

\* What the transaction txn read is still what the rows say, but for the codes
\* that expire.
Current(txn) ==
    IF txn.op = "wrong"
    THEN /\ txn.target \in Otps
         /\ chan[txn.target] # NoChannel
         /\ txn.attempts = attempts[txn.target] + 1
         /\ attempts[txn.target] < MaxAttempts
         /\ txn.revokes = IF txn.attempts >= MaxAttempts THEN {txn.target} ELSE {}
    ELSE /\ txn.chan \in Channels
         /\ Active(txn.chan) \subseteq txn.revokes
         /\ txn.revokes \subseteq Rows(txn.chan)

SnapshotsCurrent == \A r \in Requests : req[r].pc = "open" => Current(req[r])

OneActive == \A c \in Channels : \A o, p \in Active(c) : o = p

SerialInv == SnapshotsCurrent /\ OneActive /\ AttemptsCounted

----------------------------------------------------------------------------
(* Those of the bounds on active codes and on resends                      *)

Stored == {o \in Otps : chan[o] # NoChannel}

\* What is stored was read before, and only channels have resends.
Dated ==
    /\ \A o \in Stored : created[o] <= now
    /\ \A o \in Otps : via[o] = "cookie" => chan[o] \in Channels
    /\ \A r \in Requests :
           req[r].pc = "open" /\ req[r].op \in Issues =>
               req[r].at <= now /\ req[r].chan \in Channels
    /\ IsFiniteSet(Stored)

\* Who issued the active codes of a channel: a request each, because the next
\* issue of the same request revokes what is left of its last.
Issuer(f) ==
    /\ \A c \in Channels : \A o, p \in Active(c) : f[o] = f[p] => o = p
    /\ \A r \in Requests :
           req[r].pc = "open" /\ req[r].op \in Issues =>
               \A o \in Active(req[r].chan) : f[o] = r => o \in req[r].revokes

ActiveInv == \E f \in [Stored -> Requests] : Issuer(f)

\* The codes of c that a resend at time t has to share its window with, and the
\* open requests that can still add one.
Sharing(c, t) ==
    {p \in Rows(c) : /\ \/ created[p] < t
                        \/ created[p] = t /\ via[p] = "cookie"
                     /\ t <= created[p] + Window}

Joining(c, t) ==
    {r \in Requests : /\ req[r].pc = "open"
                      /\ req[r].op \in Issues
                      /\ req[r].chan = c
                      /\ \/ req[r].at < t
                         \/ req[r].at = t /\ req[r].op = "cookie"
                      /\ t <= req[r].at + Window}

\* A resend of c at time t is stored or under way.
Resent(c, t) ==
    \/ \E o \in Rows(c) : via[o] = "cookie" /\ created[o] = t
    \/ \E r \in Requests : /\ req[r].pc = "open"
                           /\ req[r].op = "cookie"
                           /\ req[r].chan = c
                           /\ req[r].at = t

\* Its window has room for them all.
WindowsFit ==
    \A c \in Channels : \A t \in Nat :
        Resent(c, t) =>
            Cardinality(Sharing(c, t)) + Cardinality(Joining(c, t))
              < MaxResends + Cardinality(Requests)

\* Served one at a time, an open issue is no older than the codes of its
\* channel, and a resend is a cooldown younger.
IssuesSpaced ==
    \A r \in Requests : req[r].pc = "open" =>
        \A o \in Rows(req[r].chan) :
            /\ req[r].op \in Issues => created[o] <= req[r].at
            /\ req[r].op = "cookie" => created[o] + Cooldown <= req[r].at
=============================================================================
