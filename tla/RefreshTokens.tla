--------------------------- MODULE RefreshTokens ---------------------------
(***************************************************************************)
(* The refresh-token sessions of the authentication service: login,        *)
(* refresh with rotation, logout, password reset, the two verifications of *)
(* an email and the user-status update, as requests that run concurrently  *)
(* in the thread pool of one or more server processes over one database.   *)
(*                                                                         *)
(* A request is a database transaction:                                    *)
(*   ...Read   the handler reads its snapshot and decides (every check and *)
(*             early return is a guard here);                              *)
(*   Lock      it flushes an UPDATE, which takes the lock of that row or   *)
(*             waits for it: one step for each row, in the order of the    *)
(*             handler's flushes;                                          *)
(*   Answer    with its updates flushed it mints its tokens and sends the  *)
(*             response;                                                   *)
(*   Commit    get_db commits after the response; or Rollback.             *)
(* The completion of a registration commits before it opens its session    *)
(* (Activate) and goes on in a second transaction.                         *)
(* With one request at a time (Serial) the steps of a transaction follow   *)
(* each other, as in the repository's tests.                               *)
(***************************************************************************)
EXTENDS Naturals, FiniteSets

CONSTANTS
    Users,       \* user ids
    Tokens,      \* jti values: one JWT and at most one refresh_tokens row each
    Requests,    \* the requests the server can work on at the same time
    Statuses,    \* the values of UserStatus used
    NoUser, NoToken,
    KeyOrder,    \* pairs of tokens, the first row's primary key before the second's
    Handlers,    \* bound: the handlers that clients call
    MaxResets    \* bound: password resets begin while fewer have committed

ASSUME ConstantsAssumption ==
    /\ NoUser \notin Users
    /\ NoToken \notin Tokens
    /\ {"pending", "active"} \subseteq Statuses
    /\ "unchanged" \notin Statuses
    /\ MaxResets \in Nat

\* Primary keys are ordered: no set of rows has a later one for each of its rows.
ASSUME KeyOrderAssumption ==
    \A T \in SUBSET Tokens : T # {} => \E t \in T : \A s \in T : <<t, s>> \notin KeyOrder

\* The threads of the pool.
ASSUME RequestsAssumption == IsFiniteSet(Requests)

VARIABLES
    subject,     \* subject[t]: `sub` of the JWT handed out with jti t, or NoUser
    row,         \* row[t]: the refresh_tokens row, "none", "live" or "revoked"
    rotatedFrom, \* rotatedFrom[t]: the row's rotated_from column
    expired,     \* tokens past their exp claim and expires_at column
    status,      \* status[u]: users.status
    verified,    \* users whose auth_credentials row is active and email_verified
    password,    \* password[u]: which password_hash is stored, by version
    req,         \* req[r]: the transaction of request r
    locks,       \* locks[r]: the rows request r has updated and not committed
    refused,     \* history: tokens a refresh was answered 401 for, each with its row
    session,     \* history: session[t] is the token the login of t's session got
    ended,       \* history: sessions that a logout or a reset has ended
    provenBy     \* history: the password version vouching for a session

vars == <<subject, row, rotatedFrom, expired, status, verified,
          password, req, locks, refused, session, ended, provenBy>>

\* "complete" is the first transaction of complete_registration, "session" its second.
Ops == {"login", "refresh", "logout", "reset", "verify", "complete", "session", "status"}

RowStates == {"none", "live", "revoked"}

\* The rows that requests update.
Rows == ({"users", "auth_credentials"} \X Users) \union ({"refresh_tokens"} \X Tokens)

Idle == [op |-> "login", pc |-> "idle", user |-> NoUser, presented |-> NoToken,
         revokes |-> {}, ends |-> {}, new |-> NoToken, status |-> "unchanged",
         verifies |-> FALSE, password |-> 0]

RequestState ==
    [op : Ops, pc : {"idle", "read", "answered"}, user : Users \union {NoUser},
     presented : Tokens \union {NoToken}, revokes : SUBSET Tokens,
     ends : SUBSET Tokens, new : Tokens \union {NoToken},
     status : Statuses \union {"unchanged"}, verifies : BOOLEAN, password : Nat]

TypeOK ==
    /\ subject \in [Tokens -> Users \union {NoUser}]
    /\ row \in [Tokens -> RowStates]
    /\ rotatedFrom \in [Tokens -> Tokens \union {NoToken}]
    /\ expired \subseteq Tokens
    /\ status \in [Users -> Statuses]
    /\ verified \subseteq Users
    /\ password \in [Users -> Nat]
    /\ req \in [Requests -> RequestState]
    /\ \A r \in Requests : req[r].pc # "idle" =>
           /\ req[r].user \in Users
           /\ req[r].op = "refresh" => req[r].presented \in Tokens
    /\ locks \in [Requests -> SUBSET Rows]
    /\ refused \subseteq Tokens \X RowStates
    /\ session \in [Tokens -> Tokens]
    /\ ended \subseteq Tokens
    /\ provenBy \in [Tokens -> Nat]

LiveTokens == {t \in Tokens : row[t] = "live"}
Children(t) == {c \in Tokens : row[c] # "none" /\ rotatedFrom[c] = t}

----------------------------------------------------------------------------
(* Reads: the checks of each handler, on the snapshot it starts from       *)

Init ==
    /\ subject = [t \in Tokens |-> NoUser]
    /\ row = [t \in Tokens |-> "none"]
    /\ rotatedFrom = [t \in Tokens |-> NoToken]
    /\ expired = {}
    /\ status = [u \in Users |-> "pending"]
    /\ verified = {}
    /\ password = [u \in Users |-> 0]
    /\ req = [r \in Requests |-> Idle]
    /\ locks = [r \in Requests |-> {}]
    /\ refused = {}
    /\ session = [t \in Tokens |-> t]
    /\ ended = {}
    /\ provenBy = [t \in Tokens |-> 0]

Mints(op) == op \in {"login", "refresh", "verify", "complete", "session"}

\* Bound: a request that mints a token begins only while one is left for it.
RoomToMint ==
    Cardinality({s \in Requests : req[s].pc = "read" /\ Mints(req[s].op)})
      < Cardinality({t \in Tokens : subject[t] = NoUser})

Begin(r, txn) ==
    /\ req[r].pc = "idle"
    /\ txn.op \in Handlers
    /\ Mints(txn.op) => RoomToMint
    /\ req' = [req EXCEPT ![r] = txn]
    /\ UNCHANGED <<subject, row, rotatedFrom, expired, status, verified,
                   password, locks, refused, session, ended, provenBy>>

\* AuthService.login: the password matches the stored hash, the account is active.
LoginRead(r, u) ==
    /\ u \in verified
    /\ status[u] = "active"
    /\ Begin(r, [Idle EXCEPT !.op = "login", !.pc = "read", !.user = u,
                             !.password = password[u]])

\* Faulty variants: the is_revoked check is missing; a 401 for inactive users.
AcceptedUnchecked(t) == row[t] # "none" /\ t \notin expired
AcceptedIfActive(t) ==
    row[t] = "live" /\ t \notin expired /\ status[subject[t]] = "active"

\* The record of a presented token, as refresh looks it up and checks it.
Accepted(t) == row[t] = "live" /\ t \notin expired

\* Faulty variant: the user's status is not checked.
RefreshReadAnyStatus(r, t) ==
    /\ subject[t] # NoUser
    /\ Accepted(t)
    /\ Begin(r, [Idle EXCEPT !.op = "refresh", !.pc = "read", !.user = subject[t],
                             !.presented = t, !.revokes = {t}])

\* AuthService.refresh, past its two checks.
RefreshRead(r, t) ==
    /\ subject[t] # NoUser
    /\ Accepted(t)
    /\ status[subject[t]] = "active"
    /\ Begin(r, [Idle EXCEPT !.op = "refresh", !.pc = "read", !.user = subject[t],
                             !.presented = t, !.revokes = {t}])

\* AuthService.refresh answering 401: the client is told the session is over.
RefreshRefused(r, t) ==
    /\ req[r].pc = "idle"
    /\ subject[t] # NoUser
    /\ ~Accepted(t)
    /\ refused' = refused \union {<<t, row[t]>>}
    /\ UNCHANGED <<subject, row, rotatedFrom, expired, status, verified,
                   password, req, locks, session, ended, provenBy>>

\* Faulty variant: only tokens that a login handed out are selected.
RevokeLoginTokens(u) ==
    {t \in LiveTokens : subject[t] = u /\ rotatedFrom[t] = NoToken}

\* revoke_all_user_tokens selects the rows of the user not yet revoked.
RevokeAllUserTokens(u) == {t \in LiveTokens : subject[t] = u}

\* History: the sessions u has when a logout or a reset of u begins.
SessionsOf(u) == {session[t] : t \in {t \in LiveTokens : subject[t] = u}}

\* AuthService.logout: any unexpired token identifies the user, revoked or not.
LogoutRead(r, t) ==
    /\ subject[t] # NoUser
    /\ t \notin expired
    /\ Begin(r, [Idle EXCEPT !.op = "logout", !.pc = "read", !.user = subject[t],
                             !.revokes = RevokeAllUserTokens(subject[t]),
                             !.ends = SessionsOf(subject[t])])

\* Faulty variant: the new password leaves the open sessions alone.
ResetReadKeepingSessions(r, u) ==
    /\ password[u] < MaxResets
    /\ Begin(r, [Idle EXCEPT !.op = "reset", !.pc = "read", !.user = u])

\* AuthService.reset_password, entitled by a reset token.
ResetRead(r, u) ==
    /\ password[u] < MaxResets
    /\ Begin(r, [Idle EXCEPT !.op = "reset", !.pc = "read", !.user = u,
                             !.revokes = RevokeAllUserTokens(u),
                             !.ends = SessionsOf(u)])

\* The ORM writes a column only when the value it read is different.
Written(u, s) == IF status[u] = s THEN "unchanged" ELSE s

\* complete_email_verification, entitled by a verified OTP.
VerifyRead(r, u) ==
    Begin(r, [Idle EXCEPT !.op = "verify", !.pc = "read", !.user = u,
                          !.status = Written(u, "active"), !.verifies = u \notin verified])

\* complete_registration up to its commit, entitled by a verified OTP.
CompleteRead(r, u) ==
    Begin(r, [Idle EXCEPT !.op = "complete", !.pc = "read", !.user = u,
                          !.status = Written(u, "active"), !.verifies = u \notin verified])

\* PATCH /users/me/status by a user with an access token whose account is active.
StatusRead(r, u, s) ==
    /\ status[u] = "active"
    /\ Begin(r, [Idle EXCEPT !.op = "status", !.pc = "read", !.user = u,
                             !.status = Written(u, s)])

----------------------------------------------------------------------------
(* Locks, answer, commit and rollback: the same for every handler          *)

\* The rows that transaction txn updates.
Updates(txn) ==
    {x \in {<<"users", txn.user>>} : txn.status # "unchanged"}
      \union {x \in {<<"auth_credentials", txn.user>>} : txn.op = "reset" \/ txn.verifies}
      \union ({"refresh_tokens"} \X txn.revokes)

\* Faulty variant: the UPDATEs of a flush are issued in no particular order.
FlushedBeforeUnsorted(op, x, y) ==
    \/ y[1] = "refresh_tokens" /\ x[1] # "refresh_tokens"
    \/ op = "complete" /\ x[1] = "users" /\ y[1] = "auth_credentials"
    \/ op # "complete" /\ x[1] = "auth_credentials" /\ y[1] = "users"

\* A handler of kind op updates row x before row y: each repository call flushes, and
\* the UPDATEs of one flush go by primary key.
FlushedBefore(op, x, y) ==
    \/ y[1] = "refresh_tokens" /\ x[1] # "refresh_tokens"
    \/ op = "complete" /\ x[1] = "users" /\ y[1] = "auth_credentials"
    \/ op # "complete" /\ x[1] = "auth_credentials" /\ y[1] = "users"
    \/ /\ x[1] = "refresh_tokens" /\ y[1] = "refresh_tokens"
       /\ <<x[2], y[2]>> \in KeyOrder

\* The updates request r has still to flush, and those that may be the next.
Unflushed(r) == Updates(req[r]) \ locks[r]
NextRows(r) ==
    {x \in Unflushed(r) : \A y \in Unflushed(r) : ~FlushedBefore(req[r].op, y, x)}

\* The next UPDATE goes out; InnoDB gives its row to one transaction at a time.
Lock(r) ==
    /\ req[r].pc = "read"
    /\ \E x \in NextRows(r) :
          /\ \A s \in Requests \ {r} : x \notin locks[s]
          /\ locks' = [locks EXCEPT ![r] = @ \union {x}]
    /\ UNCHANGED <<subject, row, rotatedFrom, expired, status, verified, password,
                   req, refused, session, ended, provenBy>>

AnswerWith(r, n) ==
    /\ req' = [req EXCEPT ![r] = [@ EXCEPT !.pc = "answered", !.new = n]]
    /\ subject' = IF n = NoToken THEN subject
                  ELSE [subject EXCEPT ![n] = req[r].user]
    /\ UNCHANGED <<row, rotatedFrom, expired, status, verified, password, locks,
                   refused, session, ended, provenBy>>

Answer(r) ==
    /\ req[r].pc = "read"
    /\ req[r].op # "complete"
    /\ Unflushed(r) = {}
    /\ IF Mints(req[r].op)
       THEN \E n \in Tokens : subject[n] = NoUser /\ AnswerWith(r, n)
       ELSE AnswerWith(r, NoToken)

\* Faulty variant: the revocation is never flushed.
RowAfterInsertOnly(r, t) == IF t = req[r].new THEN "live" ELSE row[t]

\* The rows of refresh_tokens after request r commits.
RowAfter(r, t) ==
    IF t \in req[r].revokes THEN "revoked"
    ELSE IF t = req[r].new THEN "live"
    ELSE row[t]

\* The session the token inserted by r belongs to, and the password version
\* that vouches for that session.
SessionOfNew(r) ==
    IF req[r].op = "refresh" THEN session[req[r].presented] ELSE req[r].new

VoucherOfNew(r) ==
    CASE req[r].op = "login"   -> req[r].password
      [] req[r].op = "refresh" -> provenBy[req[r].presented]
      [] OTHER                 -> password[req[r].user]

\* Faulty variant: the marker itself is written as the status.
StatusAfterBadValue(r) ==
    IF req[r].user = NoUser THEN status
    ELSE [status EXCEPT ![req[r].user] = req[r].status]

\* The users rows after request r commits.
StatusAfter(r) ==
    IF req[r].status = "unchanged" THEN status
    ELSE [status EXCEPT ![req[r].user] = req[r].status]

\* complete_registration commits the activation and goes on to open the session.
Activate(r) ==
    /\ req[r].pc = "read"
    /\ req[r].op = "complete"
    /\ Unflushed(r) = {}
    /\ status' = StatusAfter(r)
    /\ verified' = verified \union {req[r].user}
    /\ req' = [req EXCEPT ![r] = [Idle EXCEPT !.op = "session", !.pc = "read",
                                              !.user = req[r].user]]
    /\ locks' = [locks EXCEPT ![r] = {}]
    /\ UNCHANGED <<subject, row, rotatedFrom, expired, password, refused, session,
                   ended, provenBy>>

Commit(r) ==
    /\ req[r].pc = "answered"
    /\ row' = [t \in Tokens |-> RowAfter(r, t)]
    /\ rotatedFrom' = [t \in Tokens |->
           IF t = req[r].new /\ req[r].op = "refresh" THEN req[r].presented
           ELSE rotatedFrom[t]]
    /\ session' = [t \in Tokens |->
           IF t = req[r].new THEN SessionOfNew(r) ELSE session[t]]
    /\ provenBy' = [t \in Tokens |->
           IF t = req[r].new THEN VoucherOfNew(r) ELSE provenBy[t]]
    /\ ended' = ended \union req[r].ends
    /\ status' = StatusAfter(r)
    /\ verified' = IF req[r].op = "verify" THEN verified \union {req[r].user}
                   ELSE verified
    /\ password' = IF req[r].op = "reset"
                   THEN [password EXCEPT ![req[r].user] = @ + 1] ELSE password
    /\ req' = [req EXCEPT ![r] = Idle]
    /\ locks' = [locks EXCEPT ![r] = {}]
    /\ UNCHANGED <<subject, expired, refused>>

\* Faulty variant: the session is not rolled back, and its connection keeps the rows.
RollbackForgotten(r) ==
    /\ req[r].pc \in {"read", "answered"}
    /\ req' = [req EXCEPT ![r] = Idle]
    /\ UNCHANGED <<subject, row, rotatedFrom, expired, status, verified,
                   password, locks, refused, session, ended, provenBy>>

\* An exception, a lost connection, a crash before the commit, or a deadlock's victim.
Rollback(r) ==
    /\ req[r].pc \in {"read", "answered"}
    /\ req' = [req EXCEPT ![r] = Idle]
    /\ locks' = [locks EXCEPT ![r] = {}]
    /\ UNCHANGED <<subject, row, rotatedFrom, expired, status, verified,
                   password, refused, session, ended, provenBy>>

\* Seven days pass since t was minted.
Expire(t) ==
    /\ subject[t] # NoUser
    /\ t \notin expired
    /\ expired' = expired \union {t}
    /\ UNCHANGED <<subject, row, rotatedFrom, status, verified, password, req,
                   locks, refused, session, ended, provenBy>>

Read(r) ==
    \/ \E u \in Users : LoginRead(r, u)
    \/ \E t \in Tokens : RefreshRead(r, t)
    \/ \E t \in Tokens : RefreshRefused(r, t)
    \/ \E t \in Tokens : LogoutRead(r, t)
    \/ \E u \in Users : ResetRead(r, u)
    \/ \E u \in Users : VerifyRead(r, u)
    \/ \E u \in Users : CompleteRead(r, u)
    \/ \E u \in Users, s \in Statuses : StatusRead(r, u, s)

Next ==
    \/ \E r \in Requests :
          Read(r) \/ Lock(r) \/ Answer(r) \/ Activate(r) \/ Commit(r) \/ Rollback(r)
    \/ \E t \in Tokens : Expire(t)

Spec == Init /\ [][Next]_vars

\* Request r waits for a row that request s has updated.
Waits(r, s) == r # s /\ NextRows(r) \intersect locks[s] # {}

\* Each request of S waits for another of S: none of them can go on.
WaitForEachOther(S) == \A r \in S : \E s \in S : Waits(r, s)

\* InnoDB's deadlock detection: one of those that wait for each other is rolled back.
Abort ==
    \E S \in SUBSET Requests, r \in Requests : r \in S /\ WaitForEachOther(S) /\ Rollback(r)

\* A thread of the pool runs its request to the end; InnoDB queues lock waits
\* first come first served, so a request that can take its row again and
\* again gets it, and breaks deadlocks. Other rollbacks, clients and the clock
\* owe nothing.
Fairness ==
    /\ \A r \in Requests :
          /\ SF_vars(Lock(r))
          /\ WF_vars(Answer(r)) /\ WF_vars(Activate(r)) /\ WF_vars(Commit(r))
    /\ WF_vars(Abort)

FairSpec == Spec /\ Fairness

----------------------------------------------------------------------------
(* Properties that hold for any number of concurrent requests              *)

\* A token that came out of a rotation belongs to the user of the token it
\* replaced, and that one is spent for good: AuthService.refresh revokes the
\* old row and inserts the new one in one transaction.
RotationSpendsParent ==
    \A t \in Tokens :
        row[t] # "none" /\ rotatedFrom[t] # NoToken =>
            /\ row[rotatedFrom[t]] = "revoked"
            /\ subject[rotatedFrom[t]] = subject[t]

\* Concurrent refreshes of one token can each succeed, but never more of them
\* than there are requests in flight: whoever reads after the first commit is
\* refused.
ReuseBoundedByConcurrency ==
    \A t \in Tokens : Cardinality(Children(t)) <= Cardinality(Requests)

\* A 401 for a token whose row is stored is final: the row was revoked or has expired,
\* and whatever stale transaction commits later, it is not live and unexpired again.
RefusalsOfStoredFinal ==
    \A p \in refused : p[2] # "none" /\ row[p[1]] = "live" => p[1] \in expired

\* Only the two verifications of one email can deadlock: complete_registration updates
\* users before auth_credentials, complete_email_verification the other way round. All
\* other handlers take the rows they share in one order.
DeadlocksAreVerifications ==
    \A S \in SUBSET Requests :
        S # {} /\ WaitForEachOther(S) =>
            \E r, s \in S :
                req[r].op = "complete" /\ req[s].op = "verify" /\ req[r].user = req[s].user

\* Every request comes to an end: each row lock is given back, at a commit or at
\* a rollback, and those who wait for it go on.
RequestsFinish ==
    \A r \in Requests : (req[r].pc # "idle") ~> (req[r].pc = "idle")

----------------------------------------------------------------------------
(* Properties that hold when requests are served one at a time             *)

\* A refresh token is exchanged at most once: the documented rejection of the
\* reuse of a rotated token.
RotatedOnce == \A t \in Tokens : Cardinality(Children(t)) <= 1

\* No session that a user had when a logout or a password reset of that user
\* began has a live token once it has committed, however often it rotated.
EndedSessionsStayDead == \A t \in LiveTokens : session[t] \notin ended

\* Whoever holds a live refresh token got it, maybe through many rotations,
\* from a login with the password that is stored now.
LiveTokensUseCurrentPassword ==
    \A t \in LiveTokens : provenBy[t] = password[subject[t]]

\* A session is opened or renewed only for a user who is active at that commit.
SessionsStartActive ==
    [][\A t \in Tokens :
          row[t] # "live" /\ row'[t] = "live" => status'[subject'[t]] = "active"]_vars

\* The rows of refresh_tokens, seen by their owners, are a RotationChain.
Chain == INSTANCE RotationChain
    WITH owner <- [t \in Tokens |-> IF row[t] = "none" THEN NoUser ELSE subject[t]],
         live <- LiveTokens

ImplementsRotationChain == Chain!Spec

----------------------------------------------------------------------------
(* Inductive invariants, the strengthenings the proofs need                *)

\* A stored row has a subject, shared by its session's first row; a row not
\* stored came from nowhere.
RowsFit ==
    \A t \in Tokens :
        IF row[t] = "none" THEN rotatedFrom[t] = NoToken
        ELSE /\ subject[t] \in Users
             /\ row[session[t]] # "none"
             /\ subject[session[t]] = subject[t]

\* The write set of an open transaction fits the rows, whatever has been
\* committed since its snapshot.
WritesFit ==
    \A r \in Requests :
        /\ (req[r].new # NoToken) <=> (req[r].pc = "answered" /\ Mints(req[r].op))
        /\ req[r].pc = "idle" => req[r] = Idle
        /\ \A t \in req[r].revokes : row[t] # "none" /\ subject[t] = req[r].user
        /\ req[r].op = "refresh" /\ req[r].pc # "idle" =>
               /\ req[r].revokes = {req[r].presented}
               /\ row[req[r].presented] # "none"
        /\ req[r].new # NoToken =>
               row[req[r].new] = "none" /\ subject[req[r].new] = req[r].user

\* A fresh jti belongs to one transaction.
NewTokensDistinct ==
    \A r, s \in Requests : req[r].new = req[s].new /\ req[r].new # NoToken => r = s

RotationInv == TypeOK /\ RowsFit /\ WritesFit /\ NewTokensDistinct /\ RotationSpendsParent

\* The refreshes under way with token t.
Pending(t) ==
    {r \in Requests : req[r].pc # "idle" /\ req[r].op = "refresh" /\ req[r].presented = t}

\* A token that was exchanged is revoked, so that those still under way are all that
\* can follow.
ReuseInv ==
    \A t \in Tokens :
        /\ IsFiniteSet(Children(t))
        /\ Cardinality(Children(t)) + Cardinality(Pending(t)) <= Cardinality(Requests)

\* Requests are served one at a time.
Serial == \A r, s \in Requests : r = s

\* What transaction txn read is still what the rows say.
Current(txn) ==
    CASE txn.op = "login" ->
             txn.revokes = {} /\ txn.ends = {} /\ txn.password = password[txn.user]
      [] txn.op = "refresh" ->
             /\ txn.revokes = {txn.presented} /\ txn.ends = {}
             /\ row[txn.presented] = "live" /\ subject[txn.presented] = txn.user
      [] txn.op \in {"logout", "reset"} ->
             /\ txn.revokes = RevokeAllUserTokens(txn.user)
             /\ txn.ends = SessionsOf(txn.user)
             /\ txn.new = NoToken
      [] OTHER -> txn.revokes = {} /\ txn.ends = {}

SnapshotsCurrent == \A r \in Requests : req[r].pc # "idle" => Current(req[r])

ChildrenUnique ==
    \A a, b \in Tokens :
        /\ row[a] # "none" /\ row[b] # "none"
        /\ rotatedFrom[a] = rotatedFrom[b] /\ rotatedFrom[a] # NoToken
        => a = b

EndedStored == \A t \in ended : row[t] # "none"

SerialInv ==
    /\ RotationInv
    /\ SnapshotsCurrent
    /\ ChildrenUnique
    /\ EndedStored
    /\ EndedSessionsStayDead
    /\ LiveTokensUseCurrentPassword

\* What entitled transaction txn to its token is still so, and what it writes makes it so.
Entitled(txn) ==
    /\ txn.op \in {"login", "refresh", "session"} =>
           status[txn.user] = "active" /\ txn.status = "unchanged"
    /\ txn.op \in {"verify", "complete"} => txn.status = Written(txn.user, "active")

StatusesCurrent == \A r \in Requests : req[r].pc # "idle" => Entitled(req[r])

\* A refused token whose row is stored is revoked or expired, and stays so.
RefusedAreOver ==
    \A p \in refused :
        p[2] # "none" => row[p[1]] = "revoked" \/ p[1] \in expired

\* What a transaction has locked is what it has flushed: its updates, from the first on.
LocksFit ==
    \A r \in Requests :
        /\ req[r].pc = "idle" => locks[r] = {}
        /\ locks[r] \subseteq Updates(req[r])
        /\ \A x \in locks[r], y \in Updates(req[r]) :
              FlushedBefore(req[r].op, y, x) => y \in locks[r]

\* Only a verification updates both a users row and an auth_credentials row.
UpdatesOf(txn) ==
    /\ txn.op = "reset" => txn.status = "unchanged"
    /\ txn.verifies => txn.op \in {"verify", "complete"}

UpdatesFit == \A r \in Requests : UpdatesOf(req[r])

LockInv == TypeOK /\ LocksFit /\ UpdatesFit

\* Any two rows of refresh_tokens have their keys in an order.
KeysOrdered ==
    \A s, t \in Tokens : s # t => <<s, t>> \in KeyOrder \/ <<t, s>> \in KeyOrder
============================================================================
