---------------------------- MODULE Registration ----------------------------
(***************************************************************************)
(* Registration and activation of accounts: the individual and the         *)
(* organization flow with their otp_token cookie, the legacy endpoints,    *)
(* and the change of an organization's email that interferes with them.    *)
(*                                                                         *)
(* The rows live in two services. As one process (SERVICE_MODE monolith)   *)
(* a request has one transaction over all of them. As microservices every  *)
(* call to the tenant service is a transaction of its own there, which     *)
(* commits after the call is answered, or never.                           *)
(*                                                                         *)
(* A request reads a snapshot when it begins; what it writes is in writes  *)
(* until it commits. An insert waits for an uncommitted row with the same  *)
(* value of a unique column, and fails if that row commits.                *)
(***************************************************************************)
EXTENDS Naturals, FiniteSets

CONSTANTS
    Personal,  \* emails of a personal domain
    Business,  \* the other emails
    Accounts,  \* ids of rows of users, with their row of auth_credentials
    Tenants,   \* ids of rows of tenants
    Requests,  \* the requests the server can work on at the same time
    Remote,    \* whether the tenant service is another process
    Paths,     \* the endpoints clients use
    None,
    MaxFaults  \* bound: failed steps, lost answers and lost commits

Flows == {"individual", "organization", "legacy_individual", "legacy_tenant"}
Legacy == {"legacy_individual", "legacy_tenant"}
Endpoints == Flows \union {"complete", "verify", "resend", "profile"}

ASSUME ConstantsAssumption ==
    /\ Personal \intersect Business = {}
    /\ Remote \in BOOLEAN
    /\ Paths \subseteq Endpoints
    /\ None \notin Personal \union Business \union Accounts \union Tenants
    /\ MaxFaults \in Nat

Emails == Personal \union Business

VARIABLES
    accounts,   \* accounts[a]: the committed rows of users and auth_credentials
    tenants,    \* tenants[t]: the committed row of tenants
    admins,     \* the committed rows of tenant_admins: pairs of a tenant and an account
    writes,     \* the writes of open transactions
    challenges, \* the emails with a live registration code and its cookie
    verifiable, \* the emails with a live email_verify code
    req,        \* req[r]: what request r is doing
    outcome,    \* the last answer: for which endpoint and email, and which
    faults      \* how many faults have happened

vars == <<accounts, tenants, admins, writes, challenges, verifiable, req, outcome, faults>>
tables == <<accounts, tenants, admins>>
codes == <<challenges, verifiable>>

Row(email, tenant) == [email |-> email, tenant |-> tenant, active |-> FALSE]
AccountRow == [email : Emails, tenant : Tenants \union {None}, active : BOOLEAN]
TenantRow == [org : Emails, active : BOOLEAN]

LocalOps == {"account", "verify"}
Write == [by : Requests, op : LocalOps \union {"tenant", "admin", "activate"},
          email : Emails, account : Accounts \union {None}, tenant : Tenants \union {None}]

Idle == [pc |-> "idle", path |-> "complete", email |-> None, org |-> None,
         account |-> None, tenant |-> None]
Steps == {"idle", "check", "create", "find", "insert", "admin", "persist", "challenge",
          "own", "activate", "mark", "greet"}
RequestState ==
    [pc : Steps, path : Flows \union {"complete"}, email : Emails \union {None},
     org : Emails \union {None}, account : Accounts \union {None},
     tenant : Tenants \union {None}]

ASSUME NoneAssumption == None \notin AccountRow \union TenantRow

TypeOK ==
    /\ accounts \in [Accounts -> AccountRow \union {None}]
    /\ tenants \in [Tenants -> TenantRow \union {None}]
    /\ admins \subseteq Tenants \X Accounts
    /\ writes \subseteq Write
    /\ challenges \subseteq Emails
    /\ verifiable \subseteq Emails
    /\ req \in [Requests -> RequestState]
    /\ faults \in 0..MaxFaults

Init ==
    /\ accounts = [a \in Accounts |-> None]
    /\ tenants = [t \in Tenants |-> None]
    /\ admins = {}
    /\ writes = {}
    /\ challenges = {}
    /\ verifiable = {}
    /\ req = [r \in Requests |-> Idle]
    /\ outcome = [path |-> "none", email |-> None, answer |-> "ok"]
    /\ faults = 0

-----------------------------------------------------------------------------
(* Rows and transactions *)

AccountsOf(e) == {a \in Accounts : accounts[a] # None /\ accounts[a].email = e}
TenantsOf(o) == {t \in Tenants : tenants[t] # None /\ tenants[t].org = o}

\* Faulty variant: the columns have no unique index.
ClaimedUnindexed(op, e) == FALSE

\* An open transaction has inserted a row with this value of the unique column.
Claimed(op, e) == \E w \in writes : w.op = op /\ w.email = e

FreeAccounts == {a \in Accounts : accounts[a] = None /\ \A w \in writes : w.account # a}
FreeTenants == {t \in Tenants : tenants[t] = None /\ \A w \in writes : w.tenant # t}

\* The transaction of the request itself.
Own(r) == {w \in writes : w.by = r /\ (Remote => w.op \in LocalOps)}

Inserts(W, a) == {w \in W : w.op = "account" /\ w.account = a}
Founds(W, t) == {w \in W : w.op = "tenant" /\ w.tenant = t}

Publish(W) ==
    /\ accounts' = [a \in Accounts |->
         IF Inserts(W, a) # {}
         THEN LET w == CHOOSE x \in Inserts(W, a) : TRUE IN Row(w.email, w.tenant)
         ELSE IF \E w \in W : w.op = "verify" /\ w.account = a
         THEN [accounts[a] EXCEPT !.active = TRUE] ELSE accounts[a]]
    /\ tenants' = [t \in Tenants |->
         IF Founds(W, t) # {}
         THEN [org |-> (CHOOSE x \in Founds(W, t) : TRUE).email, active |-> FALSE]
         ELSE IF \E w \in W : w.op = "activate" /\ w.tenant = t
         THEN [tenants[t] EXCEPT !.active = TRUE] ELSE tenants[t]]
    /\ admins' = admins \union
         {<<w.tenant, w.account>> : w \in {x \in W : x.op = "admin"}}

\* Faulty variant: the arguments of the row are swapped.
WriteOfSwapped(r, op, e, a, t) == [by |-> r, op |-> op, email |-> a, account |-> e, tenant |-> t]

\* The write a step of request r makes.
WriteOf(r, op, e, a, t) == [by |-> r, op |-> op, email |-> e, account |-> a, tenant |-> t]

GoTo(r, pc) == req' = [req EXCEPT ![r].pc = pc]

Finish(r, path, e, answer) ==
    /\ req' = [req EXCEPT ![r] = Idle]
    /\ outcome' = [path |-> path, email |-> e, answer |-> answer]

\* An exception, or an error answer of the tenant service, rolls the request back.
Refuse(r, answer) ==
    /\ Finish(r, req[r].path, req[r].email, answer)
    /\ writes' = writes \ Own(r)
    /\ UNCHANGED <<tables, codes, faults>>

-----------------------------------------------------------------------------
(* Registration: /auth/register and the two legacy endpoints *)

\* Which emails the payload of an endpoint may hold.
Accepts(path, e, o) ==
    CASE path = "individual" -> e \in Personal /\ o = None
      [] path = "organization" -> e \in Business /\ o = e
      [] path = "legacy_individual" -> e \in Emails /\ o = None
      [] path = "legacy_tenant" -> e \in Emails /\ o \in Emails

\* The lookups of the service: in one process they all read one snapshot.
Begin(r, path, e, o) ==
    /\ req[r].pc = "idle"
    /\ path \in Paths \intersect Flows
    /\ Accepts(path, e, o)
    /\ IF AccountsOf(e) # {} \/ (~Remote /\ TenantsOf(o) # {})
       THEN Finish(r, path, e, "conflict")
       ELSE /\ req' = [req EXCEPT ![r] =
                 [Idle EXCEPT !.path = path, !.email = e, !.org = o,
                     !.pc = IF o = None THEN "insert"
                            ELSE IF Remote /\ path = "organization" THEN "check"
                            ELSE "create"]]
            /\ UNCHANGED outcome
    /\ UNCHANGED <<tables, writes, codes, faults>>

\* get_tenant_by_org_email over HTTP, before anything is written.
Check(r) ==
    /\ req[r].pc = "check"
    /\ IF TenantsOf(req[r].org) # {} THEN Refuse(r, "conflict")
       ELSE GoTo(r, "create") /\ UNCHANGED <<tables, writes, codes, outcome, faults>>

\* create_tenant. Over HTTP its own lookup finds what committed since (409); a call that
\* waited for the unique index fails as a database error does.
Create(r) ==
    /\ req[r].pc = "create"
    /\ ~Claimed("tenant", req[r].org)
    /\ IF TenantsOf(req[r].org) # {}
       THEN \E answer \in {"failed"} \union (IF Remote THEN {"conflict"} ELSE {}) :
                Refuse(r, answer)
       ELSE \E t \in FreeTenants :
              /\ writes' = writes \union {WriteOf(r, "tenant", req[r].org, None, t)}
              /\ req' = [req EXCEPT ![r].pc = IF Remote THEN "find" ELSE "insert",
                                    ![r].tenant = IF Remote THEN None ELSE t]
              /\ UNCHANGED <<tables, codes, outcome, faults>>

\* Faulty variant: the answer to the creation is taken for the stored organization.
FindTenantUncommitted(r) ==
    /\ req[r].pc \in {"find", "own"}
    /\ \E t \in Tenants :
         /\ \/ t \in TenantsOf(req[r].org)
            \/ \E w \in writes : w.op = "tenant" /\ w.tenant = t /\ w.email = req[r].org
         /\ req' = [req EXCEPT ![r].tenant = t,
                               ![r].pc = IF @ = "find" THEN "insert" ELSE "activate"]
    /\ UNCHANGED <<tables, writes, codes, outcome, faults>>

\* get_tenant_by_org_email after the creation, over HTTP: the creation may not have
\* committed yet, or never, and the answer is then 404.
FindTenant(r) ==
    /\ req[r].pc \in {"find", "own"}
    /\ LET found == TenantsOf(IF req[r].pc = "find" THEN req[r].org ELSE req[r].email)
       IN  IF found = {} THEN Refuse(r, "failed")
           ELSE /\ \E t \in found :
                     req' = [req EXCEPT ![r].tenant = t,
                                        ![r].pc = IF @ = "find" THEN "insert" ELSE "activate"]
                /\ UNCHANGED <<tables, writes, codes, outcome, faults>>

\* create_user.
Insert(r) ==
    /\ req[r].pc = "insert"
    /\ ~Claimed("account", req[r].email)
    /\ IF AccountsOf(req[r].email) # {} THEN Refuse(r, "failed")
       ELSE \E a \in FreeAccounts :
              /\ writes' = writes \union {WriteOf(r, "account", req[r].email, a, req[r].tenant)}
              /\ req' = [req EXCEPT ![r].account = a,
                     ![r].pc = IF req[r].org # None THEN "admin"
                               ELSE IF req[r].path = "individual" THEN "persist"
                               ELSE "challenge"]
              /\ UNCHANGED <<tables, codes, outcome, faults>>

\* Faulty variant: the administrator is not linked to the organization.
AddAdminUnlinked(r) ==
    /\ req[r].pc = "admin"
    /\ GoTo(r, IF req[r].path = "organization" THEN "persist" ELSE "challenge")
    /\ UNCHANGED <<tables, writes, codes, outcome, faults>>

AddAdmin(r) ==
    /\ req[r].pc = "admin"
    /\ writes' = writes \union 
         {WriteOf(r, "admin", req[r].email, req[r].account, req[r].tenant)}
    /\ GoTo(r, IF req[r].path = "organization" THEN "persist" ELSE "challenge")
    /\ UNCHANGED <<tables, codes, outcome, faults>>

\* create_credentials, and the commit with which _issue_challenge starts.
Persist(r) ==
    /\ req[r].pc = "persist"
    /\ Publish(Own(r))
    /\ writes' = writes \ Own(r)
    /\ GoTo(r, "challenge")
    /\ UNCHANGED <<codes, outcome, faults>>

\* The code is stored and mailed, the request answered and its transaction committed.
Challenge(r) ==
    /\ req[r].pc = "challenge"
    /\ Publish(Own(r))
    /\ writes' = writes \ Own(r)
    /\ IF req[r].path \in {"individual", "organization"}
       THEN challenges' = challenges \union {req[r].email} /\ UNCHANGED verifiable
       ELSE verifiable' = verifiable \union {req[r].email} /\ UNCHANGED challenges
    /\ Finish(r, req[r].path, req[r].email, "ok")
    /\ UNCHANGED faults

-----------------------------------------------------------------------------
(* Verification: /auth/verify-otp completes a registration *)

\* The right code for the cookie; the rows of the email are read in one snapshot.
BeginComplete(r, e) ==
    /\ req[r].pc = "idle"
    /\ "complete" \in Paths
    /\ e \in challenges
    /\ \E a \in AccountsOf(e) :
         IF accounts[a].tenant # None /\ ~Remote /\ TenantsOf(e) = {}
         THEN Finish(r, "complete", e, "failed")
         ELSE /\ \E t \in IF accounts[a].tenant # None /\ ~Remote THEN TenantsOf(e)
                          ELSE {None} :
                   req' = [req EXCEPT ![r] =
                      [Idle EXCEPT !.path = "complete", !.email = e, !.account = a,
                          !.tenant = t,
                          !.pc = IF accounts[a].tenant = None THEN "mark"
                                 ELSE IF Remote THEN "own" ELSE "activate"]]
              /\ UNCHANGED outcome
    /\ UNCHANGED <<tables, writes, codes, faults>>

\* Faulty variant: the organization is activated in a transaction of its own.
ActivateAtOnce(r) ==
    /\ req[r].pc = "activate"
    /\ Publish({WriteOf(r, "activate", req[r].email, None, req[r].tenant)})
    /\ GoTo(r, "mark")
    /\ UNCHANGED <<writes, codes, outcome, faults>>

\* activate_tenant_account.
Activate(r) ==
    /\ req[r].pc = "activate"
    /\ writes' = writes \union {WriteOf(r, "activate", req[r].email, None, req[r].tenant)}
    /\ GoTo(r, "mark")
    /\ UNCHANGED <<tables, codes, outcome, faults>>

\* Faulty variant: the organization is left out of the commit.
MarkAccountOnly(r) ==
    /\ req[r].pc = "mark"
    /\ Publish({WriteOf(r, "verify", req[r].email, req[r].account, None)})
    /\ writes' = writes \ Own(r)
    /\ challenges' = challenges \ {req[r].email}
    /\ GoTo(r, "greet")
    /\ UNCHANGED <<verifiable, outcome, faults>>

\* activate_user, set_active, mark_email_verified and the commit, which spends the code.
Mark(r) ==
    /\ req[r].pc = "mark"
    /\ LET W == Own(r) \union {WriteOf(r, "verify", req[r].email, req[r].account, None)}
       IN  Publish(W) /\ writes' = writes \ W
    /\ challenges' = challenges \ {req[r].email}
    /\ GoTo(r, "greet")
    /\ UNCHANGED <<verifiable, outcome, faults>>

\* The mails and the tokens, after the commit.
Greet(r) ==
    /\ req[r].pc = "greet"
    /\ Finish(r, "complete", req[r].email, "ok")
    /\ UNCHANGED <<tables, writes, codes, faults>>

-----------------------------------------------------------------------------
(* The legacy endpoints and the organization's profile *)

\* complete_email_verification: one transaction, which never touches a tenant.
VerifyEmail(e) ==
    /\ "verify" \in Paths
    /\ e \in verifiable
    /\ \E a \in AccountsOf(e) : accounts' = [accounts EXCEPT ![a].active = TRUE]
    /\ verifiable' = verifiable \ {e}
    /\ UNCHANGED <<tenants, admins, writes, challenges, req, outcome, faults>>

\* resend_otp with purpose email_verify: it looks neither at the account nor at a cookie.
ResendOtp(e) ==
    /\ "resend" \in Paths
    /\ e \notin verifiable
    /\ verifiable' = verifiable \union {e}
    /\ UNCHANGED <<tables, writes, challenges, req, outcome, faults>>

\* PATCH /tenants/{id}/profile with a new org_email, by an active administrator.
ChangeOrgEmail(a, o) ==
    /\ "profile" \in Paths
    /\ accounts[a] # None
    /\ accounts[a].active
    /\ accounts[a].tenant # None
    /\ o \in Business
    /\ TenantsOf(o) = {}
    /\ ~Claimed("tenant", o)
    /\ tenants' = [tenants EXCEPT ![accounts[a].tenant].org = o]
    /\ UNCHANGED <<accounts, admins, writes, codes, req, outcome, faults>>

-----------------------------------------------------------------------------
(* Faults and the other service *)

Fault == faults < MaxFaults /\ faults' = faults + 1

\* Faulty variant: get_db commits in its finally clause.
FailCommits(r) ==
    /\ req[r].pc # "idle"
    /\ Fault
    /\ Finish(r, req[r].path, req[r].email, "failed")
    /\ Publish(Own(r))
    /\ writes' = writes \ Own(r)
    /\ UNCHANGED codes

\* Faulty variant: a session whose request failed is neither rolled back nor closed.
FailLeaked(r) ==
    /\ req[r].pc # "idle"
    /\ Fault
    /\ Finish(r, req[r].path, req[r].email, "failed")
    /\ UNCHANGED <<tables, writes, codes>>

\* A step raises: the database, the mail server of the one process, a refused or an
\* unreachable tenant service; or the process stops. A failed mail or token after the
\* last commit only spoils the answer.
Fail(r) ==
    /\ req[r].pc # "idle"
    /\ Fault
    /\ Finish(r, req[r].path, req[r].email, "failed")
    /\ writes' = writes \ Own(r)
    /\ UNCHANGED <<tables, codes>>

\* The tenant service applies a call whose answer never comes.
Unanswered(r) ==
    /\ Remote
    /\ Fault
    /\ \/ /\ req[r].pc = "create"
          /\ TenantsOf(req[r].org) = {} /\ ~Claimed("tenant", req[r].org)
          /\ \E t \in FreeTenants :
               writes' = writes \union {WriteOf(r, "tenant", req[r].org, None, t)}
       \/ /\ req[r].pc = "admin"
          /\ writes' = (writes \ Own(r)) \union
               {WriteOf(r, "admin", req[r].email, req[r].account, req[r].tenant)}
       \/ /\ req[r].pc = "activate"
          /\ writes' = writes \union {WriteOf(r, "activate", req[r].email, None, req[r].tenant)}
    /\ Finish(r, req[r].path, req[r].email, "failed")
    /\ UNCHANGED <<tables, codes>>

\* get_db of the tenant service commits once its answer is sent, or fails to.
TenantCommit(w) ==
    /\ Remote
    /\ w.op \notin LocalOps
    /\ Publish({w})
    /\ writes' = writes \ {w}
    /\ UNCHANGED <<codes, req, outcome, faults>>

TenantLose(w) ==
    /\ Remote
    /\ w.op \notin LocalOps
    /\ Fault
    /\ writes' = writes \ {w}
    /\ UNCHANGED <<tables, codes, req, outcome>>

-----------------------------------------------------------------------------
(* The specification *)

Step(r) ==
    \/ Check(r) \/ Create(r) \/ FindTenant(r) \/ Insert(r) \/ AddAdmin(r)
    \/ Persist(r) \/ Challenge(r) \/ Activate(r) \/ Mark(r) \/ Greet(r)

Start(r) ==
    \/ \E path \in Flows, e \in Emails, o \in Emails \union {None} : Begin(r, path, e, o)
    \/ \E e \in Emails : BeginComplete(r, e)

Next ==
    \/ \E r \in Requests : Start(r) \/ Step(r) \/ Fail(r) \/ Unanswered(r)
    \/ \E e \in Emails : VerifyEmail(e) \/ ResendOtp(e)
    \/ \E a \in Accounts, o \in Emails : ChangeOrgEmail(a, o)
    \/ \E w \in writes : TenantCommit(w) \/ TenantLose(w)

Spec == Init /\ [][Next]_vars

\* A request that has begun goes on, and the tenant service commits what it answered.
FairSpec ==
    /\ Spec
    /\ \A r \in Requests : WF_vars(Step(r))
    /\ WF_vars(\E w \in writes : TenantCommit(w))

-----------------------------------------------------------------------------
(* Properties *)

\* No two accounts and no two organizations have one email, however registrations
\* overlap: the lookups let both through, the unique indexes decide.
EmailsUnique ==
    \A e \in Emails : Cardinality(AccountsOf(e)) <= 1 /\ Cardinality(TenantsOf(e)) <= 1

\* No organization is without an account that administers it, and no link of
\* tenant_admins points at a missing account.
TenantsOwned ==
    /\ \A t \in Tenants : tenants[t] # None => \E a \in Accounts : <<t, a>> \in admins
    /\ \A p \in admins : accounts[p[2]] # None /\ accounts[p[2]].tenant = p[1]

\* The tenant_id of a stored account is a stored organization, although no foreign key
\* spans the services.
AccountsHaveTenant ==
    \A a \in Accounts : accounts[a] # None /\ accounts[a].tenant # None =>
        tenants[accounts[a].tenant] # None

\* An administrator's account and the organization are active together or not at all.
ActivationAtomic ==
    \A a \in Accounts : accounts[a] # None /\ accounts[a].tenant # None =>
        (accounts[a].active <=> tenants[accounts[a].tenant].active)

\* /auth/register answers 409 only for the email of an existing account.
ConflictMeansRegistered ==
    [][outcome'.path \in {"individual", "organization"} /\ outcome'.answer = "conflict"
         => AccountsOf(outcome.email)' # {}]_vars

\* The legacy endpoints commit what they write together with the code: a failure, the
\* failed mail included, leaves no account whose email is taken and which nobody can
\* verify, and in one process no organization either. (Over HTTP the organization is the
\* tenant service's own transaction and stays. The endpoints under /auth/register commit
\* first, and a failure after that leaves both.)
LegacyFailureLeavesNothing ==
    [][\A r \in Requests :
         req[r].path \in Legacy /\ req'[r].pc = "idle" /\ outcome'.answer # "ok" =>
           /\ \A a \in Accounts : req[r].account = a => accounts'[a] = None
           /\ \A t \in Tenants : ~Remote /\ req[r].tenant = t => tenants'[t] = None]_vars

\* Every request is answered in the end: the waits for unique indexes never form a cycle
\* and are released by commits and rollbacks.
RequestsFinish == \A r \in Requests : req[r].pc # "idle" ~> req[r].pc = "idle"

\* The account of an email, and whether its organization is there and linked to it.
StageOf(e) ==
    IF AccountsOf(e) = {} THEN "none"
    ELSE IF \E a \in AccountsOf(e) : accounts[a].active THEN "active" ELSE "pending"

OrgStageOf(e) ==
    LET linked == {t \in Tenants : tenants[t] # None /\
                     \E a \in AccountsOf(e) : <<t, a>> \in admins /\ accounts[a].tenant = t}
    IN  IF linked = {} THEN "none"
        ELSE IF \A t \in linked : tenants[t].active THEN "active" ELSE "pending"

Registry == INSTANCE AccountRegistry WITH
    Emails <- Emails,
    stage <- [e \in Emails |-> StageOf(e)],
    orgStage <- [e \in Emails |-> OrgStageOf(e)]

\* In one process accounts and organizations appear and become active together, whatever
\* fails and whichever requests overlap.
ImplementsAccountRegistry == Registry!Spec

-----------------------------------------------------------------------------
(* Inductive invariant, the strengthening the proofs need *)

\* The account of request q is in its open transaction.
Inserted(q) ==
    q.pc \in {"admin", "persist"} \/ (q.pc = "challenge" /\ q.path \in Legacy)

\* Its organization is.
Founded(q) == ~Remote /\ q.org # None /\ (q.pc = "insert" \/ Inserted(q))

\* What the open transaction of r holds follows from where the request q is.
Journal(r, q) ==
    {w \in Write :
        \/ Founded(q) /\ w = WriteOf(r, "tenant", q.org, None, q.tenant)
        \/ Inserted(q) /\ w = WriteOf(r, "account", q.email, q.account, q.tenant)
        \/ Founded(q) /\ Inserted(q) /\ q.pc # "admin"
             /\ w = WriteOf(r, "admin", q.email, q.account, q.tenant)
        \/ ~Remote /\ q.pc = "mark" /\ q.tenant # None
             /\ w = WriteOf(r, "activate", q.email, None, q.tenant)}

\* The steps of a registration and those of its completion.
Registers(q) == q.pc \in {"check", "create", "find", "insert", "admin", "persist", "challenge"}
Completes(q) == q.pc \in {"own", "activate", "mark", "greet"}

\* What request q has found or inserted is still there.
RequestFits(q) ==
    /\ q.pc = "idle" => q = Idle
    /\ Registers(q) =>
         /\ q.path \in Paths \intersect Flows
         /\ q.email \in Emails
         /\ Accepts(q.path, q.email, q.org)
    /\ q.pc \in {"check", "create", "find", "admin"} => q.org \in Emails
    /\ q.pc \in {"check", "find", "own"} => Remote
    /\ q.pc = "persist" => q.path \notin Legacy
    /\ q.pc \in {"check", "create", "find", "insert"} => q.account = None
    /\ q.pc \in {"check", "create", "find"} => q.tenant = None
    /\ q.pc = "insert" =>
         /\ q.org = None => q.tenant = None
         /\ q.org # None => q.tenant \in Tenants
         /\ Remote /\ q.tenant # None => tenants[q.tenant] # None
    /\ Inserted(q) =>
         /\ q.account \in Accounts
         /\ IF q.org = None THEN q.tenant = None ELSE q.tenant \in Tenants
    /\ Completes(q) =>
         /\ q.path = "complete"
         /\ q.account \in Accounts
         /\ accounts[q.account] # None
         /\ accounts[q.account].email = q.email
    /\ q.pc = "activate" => q.tenant \in Tenants /\ tenants[q.tenant] # None

\* The rows write w will make are not taken.
WriteFits(w) ==
    /\ w.op \in {"account", "tenant", "admin", "activate"}
    /\ w.op = "account" =>
         /\ w.account \in Accounts /\ accounts[w.account] = None /\ AccountsOf(w.email) = {}
         /\ w.tenant # None => \/ Remote /\ tenants[w.tenant] # None
                               \/ ~Remote /\ \E v \in writes :
                                    v.op = "tenant" /\ v.by = w.by /\ v.tenant = w.tenant
    /\ w.op = "tenant" =>
         w.tenant \in Tenants /\ tenants[w.tenant] = None /\ TenantsOf(w.email) = {}
    /\ w.op = "admin" => w.tenant \in Tenants /\ w.account \in Accounts
    /\ w.op = "activate" => w.tenant \in Tenants /\ tenants[w.tenant] # None

\* No two open transactions insert one row or one value of a unique column.
WritesDistinct ==
    \A v, w \in writes :
        /\ v.op = "account" /\ w.op = "account" /\ (v.email = w.email \/ v.account = w.account)
             => v = w
        /\ v.op = "tenant" /\ w.op = "tenant" /\ (v.email = w.email \/ v.tenant = w.tenant)
             => v = w

RowsUnique ==
    /\ \A a, b \in Accounts : accounts[a] # None /\ accounts[b] # None
                                /\ accounts[a].email = accounts[b].email => a = b
    /\ \A s, t \in Tenants : tenants[s] # None /\ tenants[t] # None
                                /\ tenants[s].org = tenants[t].org => s = t

RegistrationInv ==
    /\ TypeOK
    /\ RowsUnique
    /\ AccountsHaveTenant
    /\ WritesDistinct
    /\ \A w \in writes : WriteFits(w)
    /\ \A r \in Requests : RequestFits(req[r]) /\ Own(r) = Journal(r, req[r])

\* In one process, with the endpoints under /auth/register, an account with a tenant is
\* linked to it and has its email.
RowsAgree ==
    \A a \in Accounts : accounts[a] # None /\ accounts[a].tenant # None =>
        /\ tenants[accounts[a].tenant].org = accounts[a].email
        /\ <<accounts[a].tenant, a>> \in admins

\* A completion works on the organization of its account.
CompletionsAgree ==
    \A r \in Requests : Completes(req[r]) => req[r].tenant = accounts[req[r].account].tenant

ConflictsKnown ==
    outcome.path \in {"individual", "organization"} /\ outcome.answer = "conflict"
        => AccountsOf(outcome.email) # {}

ProcessInv ==
    /\ RegistrationInv
    /\ TenantsOwned
    /\ ActivationAtomic
    /\ RowsAgree
    /\ CompletionsAgree
    /\ ConflictsKnown
=============================================================================
