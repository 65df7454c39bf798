# Formal models of the workflow platform's services

TLA+ models of the authentication side of the Mini Enterprise Workflow
microservices (`src/backend`), checked with TLC and proved with TLAPS. Paths
below are relative to `src/backend`; `AUTH` stands for
`services/authentication-service/app`, `TEN` for
`services/tenant-service/tenant`, `NOTIF` for
`services/notification-service/notification`.

## 1. The system

### Components, their state and their operations

| Component | State | Operations |
|---|---|---|
| Sessions (`AUTH/services/auth_service.py`, `repositories/auth_repo.py`) | `refresh_tokens` (token hash, user, `is_revoked`, `rotated_from`, expiry); JWTs held by clients | login, refresh, logout; revocation by a password reset |
| OTP service (`AUTH/services/otp_service.py`) | `otp_verifications` (email, purpose, hash, `attempt_count`, expiry, `revoked_at`, `created_at`); `otp_token` cookies held by clients | issue, resend (cookie and legacy), verify, revoke |
| Registration (`AUTH/services/auth_service.py`) | `users`, `auth_credentials`, `tenants`, `tenant_admins` | begin individual / organization, complete, legacy register and verify, accept invitation |
| Password reset (same file) | `auth_credentials.password_hash`; `reset_token` cookies | forgot password, verify the OTP, reset |
| User service (`AUTH/services/user_service.py`) | `users`, `user_profiles` | create, status, profile, counts |
| Tenant service (`TEN`) | `tenants`, `tenant_admins`, `tenant_invitations` | create, profile, status, activate, invite, accept, dashboard |
| Browser cookies (`AUTH/api/auth_routes.py`, `core/security.py`) | `otp_token`, `reset_token`, `access_token`, `refresh_token` in each browser | set by answers, read by verify, resend, reset, refresh, logout |
| Internal clients (`shared/clients`) | none | one HTTP request per call; remote statuses become exceptions; timeouts become 503/504 |
| Notification service (`NOTIF`) | none | send one mail per event |

### How they interact

Handlers are synchronous functions run by a thread pool; each has its own
database session (`get_db`, `AUTH/db/session.py:21-30`). The session reads from
a snapshot (InnoDB, REPEATABLE READ), takes no `SELECT ... FOR UPDATE` lock,
and commits when the handler has returned and its response has been sent. An
exception rolls it back. A few handlers also commit in the middle
(`_issue_challenge`, `_complete_individual`, `_complete_organization`,
`verify_otp`).

The system runs in one of two modes. As one process, tenant and notification
services are Python objects on the caller's own session, so everything a
handler does is one transaction and a mail that cannot be sent is an exception.
As microservices, tenants and users live in different databases and are reached
over HTTP: every remote call is a transaction of its own that may be applied
although its answer is lost, and notifications are best effort.

### What is hard

* **Interleaving.** Two requests read the same rows and both act on them: two
  refreshes of one token, two verifications of one code, a logout and a
  refresh, two issues for one channel.
* **Atomicity.** `attempt_count += 1` writes a value computed from an earlier
  read. Rotation is a revocation and an insertion.
* **Order.** The response leaves before the commit; time passes between a
  decision and its commit.
* **Partial failure.** Commits in the middle of a handler, remote calls before
  a local failure, mails after a commit.
* **Long histories.** A session lives through many rotations, a channel through
  many codes; cookies of earlier codes stay around.

### What makes each component correct

* Sessions: a token is exchanged once; its parent is spent; a logout or a reset
  ends every session the user had, however often rotated; live tokens trace
  back to the current password; a refusal is final; requests that wait for each
  other's rows are few and all of them end.
* OTP: one current code per channel; a code verifies once and is dead
  afterwards, also after its last allowed guess; every wrong guess counts;
  resends keep their distance and their cap.
* Registration: an email has one account; user, credentials and tenant become
  active together; a failed attempt can be repeated.
* Password reset: only a verified code of the same email entitles to it, for a
  few minutes.
* Cookies: the two session cookies, while both are there, belong together; flows
  that share a cookie do not use each other's codes; the refresh token a browser
  holds is accepted, but for named faults, and two tabs do not leave it with a
  spent one.
* Tenants: accounts and links name the same administrators; an invitation is
  accepted once; a completed profile is mailed and committed; the dashboard
  opens only then and counts people once.

## 2. The modules

| Module | What it is |
|---|---|
| `RotationChain` | abstract: what refresh tokens promise |
| `RefreshTokens` | the sessions, as concurrent transactions |
| `RefreshTokensProofs` | theorems about `RefreshTokens` |
| `MCRefreshTokens` | instances for TLC |
| `OtpChallenge` | abstract: what one-time passwords promise |
| `OtpService` | the OTP rows, as concurrent transactions |
| `OtpServiceProofs` | theorems about `OtpService` |
| `MCOtpService` | instances for TLC |
| `AccountRegistry` | abstract: accounts and organizations appear and become active together |
| `Registration` | registration and activation over two services |
| `RegistrationProofs` | theorems about `Registration`, in any mode |
| `RegistrationProcessProofs` | those about the one-process mode |
| `MCRegistration` | instances for TLC |
| `Tenants` | invitations, profiles, status and dashboard of organizations |
| `TenantsProofs` | theorems about `Tenants` |
| `MCTenants` | instances for TLC |
| `CookieFlows` | the endpoints under `/auth`, chained by a browser's cookies |
| `CookieFlowsProofs` | theorems about `CookieFlows`: what was minted, and for whom |
| `CookieHoldersProofs` | those about where an id is and how often it is used |
| `CookieTokensProofs` | the one about the refresh token a browser holds |
| `MCCookieFlows` | instances for TLC |

The three views of a request differ on purpose. `RefreshTokens` and `OtpService`
look into the transactions of one table. `Registration` and `Tenants` follow the
steps of one handler over several tables and two services. `CookieFlows`
composes the flows a browser goes through, with the handlers as single steps,
and adds what lies between server and browser.

### RefreshTokens

State: `row`, `rotatedFrom` and `expired` are the table `refresh_tokens`,
keyed by jti; `subject` is the `sub` claim of the JWT with that jti, which
exists from the moment it is minted, before its row is committed. `status`,
`verified` and `password` are the columns of `users` and `auth_credentials`
that these handlers read or write. `req[r]` is the open transaction of request
`r`. The history variables (`refused`, `session`, `ended`, `provenBy`) record
what properties speak of and guard nothing; `session` names, for every token,
the token its session began with.

A request begins with a read (`LoginRead`, `RefreshRead`, `LogoutRead`,
`ResetRead`, `VerifyRead`, `CompleteRead`, `StatusRead`), which makes all the
handler's checks on its snapshot and computes what it will write. Its UPDATEs
then go out one after the other (`Lock`), in the order of the repository calls,
each of which flushes (`FlushedBefore`): every one takes the lock of its row,
or waits until whoever has it commits or rolls back. `Answer` is the response:
the client has its token. `Commit` writes and gives the locks back. `Rollback`
may come instead, and is what the victim of a deadlock meets. `RefreshRefused`
is the 401. `Expire` is the end of a token's seven days. `StatusRead` stands for
`PATCH /users/me/status` with its `get_current_user`; `VerifyRead` for the
legacy verification, which logs the user in; `CompleteRead` for
`complete_registration`, whose first transaction `Activate` commits before the
session is opened in a second one (op `"session"`). The OTP check of both is
left to `OtpService`.

Reads and writes are separate because no handler locks what it reads: its reads
see one snapshot, and its writes become visible together. Locks decide who
waits for whom. They are the exclusive row locks of InnoDB on `users`,
`auth_credentials` and the existing rows of `refresh_tokens`; the ORM sends no
UPDATE for a column that keeps its value (`Written`, `verifies`), and the
UPDATEs of one flush go by primary key (`KeyOrder`; without an order given, any
one will do). Inserts take no row another request waits for: the jti is new and
the schema has no foreign keys. Rows of `otp_verifications` and `tenants` are
left out of the locks: a verification takes that of its code, and an
organization's that of its tenant, before all others; a reset takes those of
forgot-password codes; and whoever else holds such a row waits for no row of the
three tables, so no cycle goes through it.

Left out: signatures and hashes (a token is its jti), access tokens (they are
not stored), cookies, notification mails (their failure is a `Rollback`), the
claim `type` (a logout also accepts an access token of the user, which selects
the same rows).

### OtpService

State: `chan`, `via`, `created`, `revoked`, `attempts` are the table
`otp_verifications`; a channel is an email with a purpose, and `via` tells
which path issued a code, hence whether a client has its cookie. `now` is the
clock, in units of the smallest setting. `used` counts successful
verifications, which entitle to a reset; `guessed` is a history variable.

`IssueRead`, `ResendRead`, `WrongRead`, `RightRead`, `ResetRead` read and
decide; `ResendRefused` and `VerifyRefused` are the early returns. `Commit`
inserts, revokes and writes counts. A guess is right or wrong by choice: which
six digits were typed does not matter. `IssueRead` covers registration, forgot
password and the legacy paths, which all call `issue_otp`; it lets a channel
begin more often than a registration can. `expires_at` is `created + OtpExpire`;
`max_attempts` is the setting it is copied from. `created_at` has whole
seconds, so `Newest` leaves ties open.

A matching code with another code's cookie is refused after `verify_otp`
revoked it: the exception rolls the revocation back, so nothing changes, which
is what `VerifyRefused` says. A wrong code with such a cookie does count.

### Registration

State: `accounts` (a row of `users` with its row of `auth_credentials`),
`tenants` and `admins` are the committed rows; `writes` are the uncommitted
ones, with the request that made them. `challenges` and `verifiable` are the
emails with a live code, of a registration with a cookie and of the legacy
endpoints. `req[r].pc` is the next call the handler of request `r` makes.

`Begin` is the lookups of `begin_individual_registration`,
`begin_organization_registration` and the two legacy registrations; `Check`,
`Create` and `FindTenant` are the calls to the tenant service; `Insert`,
`AddAdmin` and `Persist` write the account, its link and, with the commit
`_issue_challenge` starts with, publish them; `Challenge` stores and mails the
code. `BeginComplete`, `FindTenant`, `Activate`, `Mark` and `Greet` are
`complete_registration`. `VerifyEmail` and `ResendOtp` are the legacy
verification and resend, `ChangeOrgEmail` the one operation of a profile that
registration notices.

`Remote` is the mode. In one process every write of a request belongs to its
transaction. As microservices the writes of the tenant service are transactions
of its own: `TenantCommit` commits one after its answer (`TEN/database.py:35`),
`TenantLose` loses it, `Unanswered` applies a call whose answer never comes.
`Fail` is everything that raises: the database, a mail in one process, a
refused call, the end of the process. A second insertion of a unique value waits
for the first (`Claimed`) and fails if that one commits.

Left out: the code itself (`OtpService`), credentials apart from the account
(they are written with it), profile data, the mails over HTTP (their failure is
swallowed).

### Tenants

State: the tables `users`, `tenants`, `tenant_admins` and
`tenant_invitations`; `req[r]` is the open transaction of a request: what it
decided on its snapshot and will write. `users[u].from` names the invitation an
account came from, `mails` counts the mails that say a profile is complete, and
`undone` those among them whose request then rolled back: history, which guards
nothing but the bound `MaxUndone`.

`Invite`, `Accept`, `UpdateProfile` and `UpdateStatus` are the operations of
`TenantService`; `Register`, `Verify` and `UpdateMyStatus` are what other
endpoints do meanwhile to the accounts they read. `Mail` is the middle of
`update_profile`: the row of `tenants` is updated, hence locked (`RowHeld`), and
the completion mailed, by whoever found the profile incomplete, before the
commit (`TEN/services/tenant_service.py:67-77`). `Commit` writes, unless the
unique index of `users.email` refuses (`Clashes`); `Rollback` may come instead,
also after the mail.
`Dashboard` is `get_dashboard` with its counts. Organizations begin registered
and verified, as `Registration` leaves them. One process only: over HTTP
`AuthClient` has no `get_by_email`, which `create_invitation` and
`accept_invitation` call (`TEN/services/tenant_service.py:108` and `:132`), so
that they fail before they write anything.

### CookieFlows

State: `jar[b]` is the four cookies of a browser, each with its `max_age`
(`Life`, `Forget`), `wire[r]` a request from its
sending to its answer and commit. `code`, `session` and `proof` are what was
minted (rows of `otp_verifications`, of `refresh_tokens`, and reset tokens,
which are in no table), `stored` the rows that are committed, `revoked` those
that are revoked. A cookie is the id of what it carries; the id of an access
token is that of the refresh token issued with it.

`Send` attaches the cookie of the moment. `Serve` is the handler: one action
per endpoint and outcome, each with the cookies it sets. `Commit`,
`CommitFails` and `Fail` end its transaction, `Deliver` and `Lose` its answer,
in either order: `get_db` is a dependency with `yield`, which FastAPI leaves
after the response is sent, so the commit may follow the arrival of the answer
or fail after it. Writes committed inside a handler (the pending account, a
wrong guess, the activation) are part of its step. An account of
`Organizations` can also be refused at `/auth/verify-otp` with a 404
(`OrganizationMissing`), when its organization is not found under its email;
whether it is, is `Registration`'s matter and a free choice here. The history
variables `lost`, `unsaved` and `ended` name the refresh tokens whose answer
never arrives, whose commit failed, and which a logout or a reset revoked.

A browser counts a `max_age` from the arrival of the answer. `Forget` may drop
a cookie from `Life` after its id was minted on, and need not, so it covers every
arrival; that a cookie is kept too long is covered by the checks of the server.
Statuses and bodies of the answers are left out, so are the attributes of
cookies other than their lifetime; signatures are assumed.

## 3. The runs

Run by name, with the properties each one checks:

| Run | Shows |
|---|---|
| `refresh_serial` | One request at a time, two users, three tokens: `RotatedOnce`, `EndedSessionsStayDead`, `LiveTokensUseCurrentPassword`, `SessionsStartActive`, and that the rows implement `RotationChain`. |
| `refresh_concurrent` | Two overlapping requests of every kind: `RotationSpendsParent`; `RefusalsOfStoredFinal`: only a token whose row is missing can be refused first and accepted later; `ReuseBoundedByConcurrency`. |
| `refresh_locks` | Two overlapping requests that lock row by row: `DeadlocksAreVerifications`, and under fairness every request ends (`RequestsFinish`), also those that deadlock. |
| `refresh_reuse` | Violation: two overlapping refreshes of one token both succeed. |
| `otp_serial` | One request at a time, a cookie channel and a legacy one: `AttemptsCounted`, `ResendsSpaced`, and that channels implement `OtpChallenge`. |
| `otp_concurrent` | Two overlapping requests: `SpentStaysRevoked`, `UsesBounded`, `ActiveBounded`, `ResendsBounded`. |
| `otp_lost_count` | Violation: two overlapping wrong guesses count once. |
| `reg_monolith` | One process, two overlapping requests, personal and business emails, two faults: `EmailsUnique`, `TenantsOwned`, `ActivationAtomic`, `ConflictMeansRegistered`, under fairness `RequestsFinish`, and that the rows implement `AccountRegistry`. |
| `reg_remote` | Two services, all organization paths, legacy included, one fault: what is left of that. `AccountsHaveTenant`, and of `LegacyFailureLeavesNothing` the half about accounts: the organization may stay. (That it does not in one process is `LegacyIsAtomic`.) |
| `reg_orphan` | Violation: one registration, no fault, and the email is refused for good. |
| `tenants` | Two organizations, two overlapping requests, two invitations: `InvitationsSingleUse`, `NoLateAcceptance`, `AdminsBelong`, `DashboardCountsPeople`; and two rollbacks after a mail for each: `CompletionsMailed`. |
| `browser` | One browser with two requests of any flow under way, cookies that expire, one fault: `ResetsBounded`, `ResetsProved`, `GuessesInFlow`, `RotatedOnlyInFlight`, `HeldTokensAccepted`. |

`serial` runs have one request slot. They are not trivial: between the steps of
that request and between requests, time passes, tokens expire and transactions
roll back, and the properties are about histories of several requests. With two
slots the same properties become false where the code relies on requests not
overlapping; the violation runs show it, and the concurrent properties say what
is left.

### What the violations show

* `refresh_reuse`. Login gives t1. Two refreshes read t1 as live; both are
  answered and commit, the second waiting for the first's row lock and then
  writing the same `is_revoked = true`. Two live children. The documentation of
  `/auth/refresh-token` (`AUTH/api/auth_routes.py:558-559`) says that reuse of a
  rotated token is rejected, as `AUTH/tests/test_refresh_token.py:129-136` tests
  for one request after the other.
* `otp_lost_count`. Two wrong guesses read `attempt_count = 0`, and both write 1.
  `AUTH/services/otp_service.py:96-97` says that wrong attempts increment the
  count.
* `reg_orphan`. Over HTTP `begin_organization_registration` creates the tenant
  in one call and looks it up in the next. The tenant service commits after it
  answers, so the lookup may answer 404; the registration fails, and the tenant
  commits. From then on the email is answered 409, "an account with this email
  already exists" (`AUTH/api/auth_routes.py:145`), without an account.

### Known disagreements without a run

These follow from the modelled code. Each is a property of a module that is
false beyond the instances above, or a sequence of steps a reader can replay;
the runs keep to what remains true.

* A token can be refused and accepted later. Login answers t1; before its `get_db`
  commits (`AUTH/db/session.py:25`) the client refreshes with t1: no row, 401. Then
  the commit, and t1 is live: the next refresh with it succeeds. The documentation
  (`AUTH/api/auth_routes.py:558-559`) has a 401 for a token that is missing, expired,
  revoked, or malformed, and t1 is none of these. In `RefreshTokens`: `LoginRead`,
  `Answer`, `RefreshRefused`, `Commit`. `RefusalsOfStoredFinal` says, with requests
  that overlap, that a missing row is the only reason for it.
* The right code with its cookie can be answered 404. An organization registers
  under `/auth/register`, its account is verified by a legacy code, its
  administrator moves `org_email`, and the cookie of the registration finds no
  organization (`AUTH/services/auth_service.py:247`), where
  `AUTH/api/auth_routes.py:207-212` lists 200, 400, 422 and 429. In `Registration`:
  `ResendOtp`, `VerifyEmail`, `ChangeOrgEmail`, `BeginComplete`, `FindTenant`.
* A logout misses the token of a refresh that was answered and has not
  committed: `EndedSessionsStayDead` holds for requests one at a time
  (`refresh_serial`, `SerialSessionsEnd`) and not with two slots.
  `docs/architecture/service-boundaries.md:671` promises that logout revokes
  every active refresh token. In `CookieFlows` the answer of such a refresh,
  arriving after that of the logout, also sets the cookies again. In the same
  way a login, or the rotation of a session, whose reads precede a password reset
  or a change of status may commit after it: `LiveTokensUseCurrentPassword` and
  `SessionsStartActive` are properties of requests one at a time too.
* `complete_email_verification` updates `auth_credentials` and then `users`
  (`AUTH/services/auth_service.py:357-359`), `complete_registration` `users` and
  then `auth_credentials` (`:230-231`, `:249-250`). For one account the two can
  wait for each other; InnoDB rolls one back, which is answered 500, and its code
  stays unused. `DeadlocksAreVerifications` says that no other handlers here do.
* The dashboard counts pending invitations by `accepted_at` alone
  (`TEN/repositories/tenant_repo.py:100-106`): one that has expired, or whose
  email has an account by now, counts for ever. A person invited twice who
  accepted once is counted as a user and as pending. `DashboardCountsPeople`
  therefore bounds the pending count from one side only, and is exact about
  users.
* The completion of a profile is mailed before it is committed; if the commit
  fails the mail was wrong, and the next update mails again. `CompletionsMailed`
  counts those mails apart.
* The legacy resend enforces no cooldown and no cap (`resend_otp`,
  `AUTH/services/auth_service.py:310`), which `AUTH/api/auth_routes.py:389-391`
  documents for it. `ResendsSpaced` is therefore about resends with a cookie.
* Over HTTP the activation of a tenant commits before that of its
  administrator; a failure in between leaves half of it, although the comment
  at `AUTH/services/auth_service.py:245-246` calls it atomic.
  `ActivationAtomic` is a property of the one-process run.
* A mail that fails after the first commit of `/auth/register` leaves a pending
  account, and registering again answers 409;
  `docs/architecture/service-boundaries.md:818` against
  `AUTH/services/auth_service.py:179`. `LegacyFailureLeavesNothing` shows that
  the legacy endpoints do not.
* An organization registered and verified through the legacy endpoints is never
  activated: `complete_email_verification` touches no tenant
  (`AUTH/services/auth_service.py:352`, against `AUTH/api/auth_routes.py:303-305`).
* `complete_registration` finds the organization by the registered email, which
  a profile update may have moved to another one
  (`TEN/services/tenant_service.py:87-88`): an organization registers with e and
  is verified by the legacy path, changes its email, a legacy registration with
  another address takes e for its organization, and the cookie of the first
  registration activates the second organization.
* The `reset_token` cookie lives ten minutes, the token in it five
  (`AUTH/api/auth_routes.py:707-710`, `AUTH/core/security.py`): the token
  decides (`Unexpired`), as `ResetsProved` shows.
* Over HTTP invitations answer 500 (see Tenants above).
* `PATCH /users/me` and `POST /users/me/profile` pass `full_name` to a method that
  does not take it (`AUTH/api/user_routes.py:23-51`): 500. No modelled state
  depends on it.
* Accepting an expired invitation answers 422, documented as 400
  (`AUTH/api/auth_routes.py:860`, `:874`).
* `/auth/forgot-password` answers an unknown email as a known one
  (`docs/architecture/service-boundaries.md:158`), except that
  in one process a mail that fails is a 500 for a known email only.
* Registration stores an address in lower case (`AUTH/core/emails.py:29`), login
  and forgot password look it up as typed: whether they meet is up to the
  collation of the database.

### Bounds, and why they are enough

* Requests: two slots. What fails between three requests here fails between
  two, since conflicts are pairwise: one reads what the other overwrites. The
  bounds on reuse, uses, active codes, resends, resets and completions are stated
  in the number of slots, and proved for any number; so is
  `DeadlocksAreVerifications`, whose cycles of waits need not be pairs.
* Tokens: three give a session of a login and two rotations, or two sessions of
  two users and a rotation, or, with two slots, one token exchanged twice.
  `refresh_concurrent` has a fourth, without which a third exchange could not
  happen, and lets it be minted only there; once a password was replaced it has
  two (`TokensInUse`). `refresh_locks` has two
  tokens, which a revocation could lock in either order, numbered by their keys.
  `RoomToMint` and `RoomToIssue` name this
  bound: a request that would mint begins only while one is left.
* `MaxResets = 1`: one reset separates an old password from a new one.
* OTP settings are scaled down and keep their order where a run needs it:
  several expiries, cooldowns and windows pass within `MaxTime`.
  `otp_concurrent` has a window shorter than the cookie's life, so that with few
  rows the window slides past the first code while a resend is still possible.
* `reg_monolith`: one personal and two business emails, so that two
  organizations and an individual compete; two faults, so that a retry can fail
  too. `reg_remote` has one email of each kind, one fault, and all the paths
  that touch a tenant. A fault is a failed step, a lost answer or a lost commit.
* `tenants`: two invitations let the same person be invited twice, by one
  organization or by both, or two persons by one; four accounts are the two
  founders and one for each invitation or registration; one address is free. Up
  to two requests fail after their mail, for each organization (`MaxUndone`). To keep
  it small, people change their own status while no more than one invitation is
  stored, and nobody is invited or registers once a mail was undone or while the
  status of an organization is being written (`InvitedOrUndone`). The theorems have
  no such bound.
* `browser`: one browser with two requests under way, in three scenarios that share
  their beginning (`Scenarios`). First, all endpoints, two codes, so that a resend
  replaces one, one refresh token and one fault; the clock moves once, past the life
  of a code, of an `otp_token`, which a reset token shares, and of the access cookie.
  Second, the same with two refresh tokens, no fault and no wrong guess, so that a session
  is rotated beside a password reset. Third, three refresh tokens, one code without a wrong
  guess, one fault and the endpoints that open, rotate and end sessions: two refreshes that overlap, or a
  refresh and a login, of two tabs; the clock moves twice, past the life of the
  access cookie and then past that of the refresh cookie. The clock never passes the
  life of the `reset_token` cookie after a token was minted, which would only take
  the cookie away. Not every pair of endpoints meets in every state: a resend beside
  two refreshes, a reset after two rotations or after a fault in one are left to the
  theorems, which cover them all. The ids are interchangeable and taken in one order
  (`InOrder`). One account: nothing in a flow compares two, and the theorems are for
  any number.
* VIEWs leave out what no step and no checked state property reads: the history
  variables of `refresh_concurrent` (but for the refusals of stored tokens),
  `refresh_locks` and `otp_concurrent`, the refusals in `refresh_serial`, the last
  answer in the passing `reg_` runs, the status of organizations in `tenants`, and
  the operation of answers that are out in `browser`. Action
  properties are evaluated on every step, before the view is taken.
* Symmetry over tokens, requests and rows, in runs that check safety only.

`tenants` and `browser` disable deadlock checking: the instance runs out of
accounts and addresses, or of ids, where the program does not. The other runs
check it.

### Fairness

`FairSpec` of `RefreshTokens` assumes strong fairness of `Lock`, weak fairness of
`Answer`, `Activate` and `Commit` for each request, and weak fairness of `Abort`.
A thread of the pool that has begun a handler finishes it, which gives weak
fairness of each step. `Lock` may be disabled again while it waits, when another
request takes the row first; InnoDB grants locks in the order of arrival, so a
waiting request is not passed over for ever. `Abort` is InnoDB's deadlock
detection, on by default: of requests that wait for each other one is rolled
back. Nothing is assumed of clients, of the clock or of other rollbacks.

`FairSpec` of `Registration` assumes weak fairness of each request's steps and
of the commits of the tenant service: a thread that has begun a handler goes
on, and a service that has answered leaves its handler. A request that waits
for a unique index is released by the commit or the rollback of the other, so
weak fairness is enough. Nothing is assumed of clients or of faults.

## 4. The proofs

All theorems are for every value of the constants, under the named assumptions
of the module, which TLC evaluates on every run. `ConstantsAssumption`: null
values that are no ids, natural-number settings, at least one allowed attempt,
disjoint kinds of ids and of emails, finite sets where something is counted.
`NoneAssumption` (`Registration`, `Tenants`, `CookieFlows`): the null value that
stands for a missing row is not a row. `RequestsAssumption` (`RefreshTokens`):
there are finitely many request slots. `KeyOrderAssumption` (`RefreshTokens`): no
set of rows has a later key for each of its rows.

Every safety property a passing run checks is also proved. Three kinds of
hypothesis occur. Most theorems have none: any number of overlapping requests
and any faults. `Serial` is one request at a time, where the code relies on it;
the violation runs show that it does. `~Remote` and `OneProcess` are the mode,
and in `OneProcess` the endpoints.

### RefreshTokensProofs

* `Typing`: the type invariant.
* `RotationIsSafe`: `RotationSpendsParent`, whatever overlaps. Not inductive
  alone: a commit needs to know that the write set of the open transaction fits
  the rows as they are now. `RotationInv` adds `RowsFit` (a stored row has a
  subject, a row not stored has no parent), `WritesFit` (what a transaction
  will write concerns rows of its user, whatever was committed since its
  snapshot) and `NewTokensDistinct` (a fresh jti belongs to one transaction).
* `ReuseIsBounded`: `ReuseBoundedByConcurrency`, whatever overlaps, by counting.
  The tokens a token was exchanged for and the refreshes still under way with it
  (`Pending`) are together no more than the requests there are (`ReuseInv`): a
  refresh that commits moves from one to the other, and none begins once there
  is a child, because then the token is revoked.
* `SerialSessionsEnd`, `SerialPasswordsCurrent`, `SerialSingleUse`: with one
  request at a time, `EndedSessionsStayDead`, `LiveTokensUseCurrentPassword` and
  `RotatedOnce`. `SerialInv` adds that the snapshot of the open transaction is
  current (`SnapshotsCurrent`), that a token has one child (`ChildrenUnique`)
  and that ended sessions began with a stored row (`EndedStored`).
* `SerialSessionsActive`: what entitled the open transaction to its token still
  holds when it commits, or is what the transaction itself writes (`Entitled`).
* `StoredRefusalsFinal`: `RefusalsOfStoredFinal`, whatever overlaps. A token that
  was refused while stored is revoked or expired, and stays so (`RefusedAreOver`):
  a commit inserts only rows that were not there and revokes others.
* `OnlyVerificationsDeadlock`: `DeadlocksAreVerifications`, for any number of
  requests, if the rows of `refresh_tokens` have an order of keys (`KeysOrdered`).
  What a request holds is what it updates first (`LocksFit`), and only a
  verification updates both `users` and `auth_credentials` (`UpdatesFit`). Who
  waits in `refresh_tokens` waits for someone who holds that row and waits for a
  later one; since the keys have an order, the waiting ends in another table, and
  of the other two tables only verifications hold one row and wait for the other.
* `SerialRotationChain`: every step of `RefreshTokens` is a step of
  `RotationChain` or changes neither owners nor live tokens.

### OtpServiceProofs

* `Typing`, `SpentCodesStayRevoked`, `UsesAreBounded`, whatever overlaps, from
  `ConcurrentInv`. The counting argument of `UsesFit`: the verifications of a
  code that succeeded and those still open that matched it are together no more
  than the requests there are, because none can match it once the first has
  committed.
* `ActiveCodesBounded`, whatever overlaps. There is a map from stored codes to
  the requests that issued them which is injective on the active codes of a
  channel (`Issuer`): the next issue by the same request slot sees, and revokes,
  what is left of its last one, since that was committed before its snapshot.
* `ResendsAreBounded`, whatever overlaps. For every resend, stored or under way,
  the codes that share its window (`Sharing`) and the open issues that may still
  join them (`Joining`) are together less than the cap and the requests
  (`WindowsFit`): a resend finds fewer stored codes than the cap and no more open
  issues than requests, and an issue that begins later does not count for it, or
  is a resend of the same moment, for which the same holds. `Dated` says that
  nothing stored or open is dated in the future.
* `SerialAttemptsCounted`: the count is exact.
* `SerialResendsSpaced`: an open resend is a cooldown younger than every code of
  its channel (`IssuesSpaced`).
* `SerialChallenge`: every step is a step of `OtpChallenge`. `OneActive` makes
  the refinement mapping, which chooses an active code, well defined.

### RegistrationProofs and RegistrationProcessProofs

For any paths, either mode, any overlapping requests and any faults, from
`RegistrationInv` (`RegistrationFits`):

* `EmailsAreUnique`. Uniqueness of the committed rows (`RowsUnique`) is not
  inductive alone: the rows of two transactions may both be on their way. What
  an open transaction holds follows from where its request is (`Journal`); two
  open transactions never insert one value of a unique column, since the second
  waits for the first (`WritesDistinct`); and what an open transaction inserts
  is not committed by another (`WriteFits`). So a commit adds rows beside those
  there are.
* `TenantsAreStored`: the same invariant; the organization of an account under
  way is in the same transaction, or, over HTTP, was committed before the
  lookup found it.
* `RegistrationTyped`.
* `LegacyIsAtomic`: until a legacy endpoint answers ok nothing of it is committed
  (`LegacyAllOrNothing`), and its account is not stored before; in one process
  neither is its organization (`LegacyIsOpen`). Over HTTP the organization may
  stay, and the theorem does not say otherwise.

In one process:

* `OrganizationsAreOwned` (`~Remote`, any paths): a commit publishes an
  organization with its account and their link, or nothing.
* `ActivationsAreAtomic`, `ConflictsAreAccounts` and `ProcessIsRegistry`, from
  `ProcessInv` (`ProcessFits`): every step is one of `AccountRegistry` or changes
  no stage. `RowsAgree` (an account is linked to its organization, which has its
  email) and `CompletionsAgree` (a completion works on the organization of its
  account) are what the refinement needs when an account is activated.
  `OneProcess` also restricts the paths to those of `/auth/register` and
  `/auth/verify-otp`. Neither can be dropped: over HTTP `reg_orphan` is a
  counterexample, and the legacy endpoints and the profile separate an account
  from its organization (section 3).

### TenantsProofs

For any number of organizations, accounts, invitations and overlapping requests,
from `TenantInv` (`TenantsAgree`):

* `TenantsTyped`, `LinksAreAdministrators`, `InvitationsMakeOneAccount`,
  `AcceptancesAreInTime`. The single use of an invitation is not inductive
  alone: a request that found it open may commit after another one accepted it.
  What a request will write still fits the rows when it commits (`WritesFit`),
  but for the email, which may be taken by then; the unique index refuses it,
  and since the account of an accepted invitation has the email it names
  (`EmailsUnique`), no second acceptance gets through.
* `CompletionsAreMailed`, by counting (`CompletionsFit`): the mails, and the
  requests that have one still to send, are together no more than the requests
  there are and the mails whose request rolled back, since none that begins after
  a commit finds the profile incomplete; and a mail that was neither undone nor
  belongs to an open request was committed.
* `DashboardShowsPeople`: accounts of an organization other than its founder's and
  the emails of its accepted invitations are in bijection (`FoundersFit`,
  `EmailsUnique` and `InvitationsSingleUse`), and whoever can still accept has a
  pending invitation of their own.

### CookieFlowsProofs, CookieHoldersProofs and CookieTokensProofs

For any number of browsers, requests, accounts and ids. From `FlowInv`:

* `FlowsTyped`, `JarsCoherent`. That the session cookies of a browser, while it has
  both, belong together is not inductive alone: the answers under way must set both to the
  same session or neither (`Paired`), and everything held, carried or about to
  be set must have been minted for the cookie it is in (`Minted`, `Fits`,
  `RowsMinted`). What was minted never changes (`Grows`), so a step keeps the
  invariant if the record it leaves of its request fits; the proof of a handler
  is that its record does.
* `ResetsAreProved`: the same invariant says of a reset token, when it is
  minted, that its code had not expired (`Proved`), and a code never changes; a
  step that decides a reset is `ResetPassword` with the token in its cookie.
* `GuessesStayInFlow`: only `VerifyWrong` counts, and what it compares is an
  active code of the email and purpose of the cookie.

`CookieHoldersProofs` first says once what any handler leaves (`Handled`), any
commit (`Settled`) and any answer (`Received`), and then argues on those records:

* `IdsHaveOneHolder`, from `HolderInv`: an id is on its way to one browser or in
  the jar of one, and only requests of that browser carry it (`OneHolder`). An
  answer sets only ids that were just minted, and an id that was not minted is
  nowhere (`UnmintedNowhere`).
* `RotatedTokensLeave`: `RotatedOnlyInFlight`, from `ParentsLeave`. A refresh
  replaces the token of its own cookie, which by `OneHolder` no other browser
  has; its answer brings the new token and overwrites the old one, which is
  never set again, or is lost (`lost`). Two tabs may have their answers in any
  order.
* `ResetsAreBounded`, from `ResetsFit`. Nothing on the server spends a reset
  token; what ends its use is that the answer to a reset deletes the cookie.
  While a browser holds the token, its uses are no more than the answers to
  resets still on their way and the faults. Once nobody holds it, no request is
  added to those that carry it, and each can use it once more. A step moves one
  request from one place to the next (`Place`), so the counts change by one.

`CookieTokensProofs` has `HeldTokensWork`: `HeldTokensAccepted`, from
`SessionsFit` (a minted token is stored, unsaved or about to be committed, and a
revoked one was rotated or ended) with `ParentsLeave` for the rotated ones.

### Only model-checked

* `RequestsFinish` of `RefreshTokens` and `Registration`: liveness under
  fairness is out of the prover's reach.
* That `Serial` and `OneProcess` are needed: the violation runs are instances.

### Only proved

* `JarCoherent` (`JarsCoherent`), for which no run has room.
* That a legacy registration that fails in one process leaves no organization: the
  half of `LegacyFailureLeavesNothing` that `reg_remote` has nothing to say of
  (`LegacyIsAtomic`).

## 5. Not modelled

* Signatures, password hashing and random numbers are assumed to work. (bcrypt 5
  refuses a password of more than 72 bytes; the policy allows 128 characters.)
* How a string is classified as a personal or a business email, and the
  character rules of a password: pure functions of strings without state; the
  models have the classes and the refusal.
* Mail texts and SMTP: a mail matters by its failure, which is modelled.
* Request schemas, health endpoints, logging, headers and keys of internal
  calls, migrations, configuration and start-up: no behaviour over time. The
  settings appear as constants.
* The columns of a profile: data that no modelled decision reads.
* The time zone of the database: `created_at` is set by the database and
  compared with the application's UTC; the models have one clock.

## 6. Plan

1. Organizations in `CookieFlows`, by composing it with `Registration`.
2. What is left of `ActivationAtomic` and of the registry over HTTP, stated as a
   weaker abstract specification of the endpoints of `/auth/register`: an
   organization may be there, or active, before its account, and not the other
   way round.
3. An abstract specification of a browser session (signed out, signed in,
   renewing) that `CookieFlows` implements while no answer is lost.
