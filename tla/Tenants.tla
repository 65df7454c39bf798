------------------------------- MODULE Tenants -------------------------------
(***************************************************************************)
(* The tenant service: invitations and their acceptance, the profile and   *)
(* the status of an organization and its dashboard, with what other        *)
(* endpoints do meanwhile to the accounts these operations read.           *)
(*                                                                         *)
(* One process, one database (in microservices mode AuthClient lacks the   *)
(* get_by_email that invitations call). A request reads one snapshot,      *)
(* decides, and commits its writes later or rolls them back; other         *)
(* requests commit in between. Organizations are registered already.       *)
(***************************************************************************)
EXTENDS Naturals, FiniteSets

CONSTANTS
    Tenants,   \* ids of rows of tenants
    Users,     \* ids of rows of users
    Emails,
    Founder,   \* Founder[t]: the account that registered t
    Address,   \* Address[t]: its email
    Invites,   \* ids of rows of tenant_invitations
    Requests,  \* the requests the server can work on at the same time
    Statuses,  \* the values of UserStatus and TenantStatus used
    Handlers,  \* bound: the handlers that clients call
    MaxUndone, \* bound: requests fail after their mail while fewer of t have
    None

Roles == {"tenant_user", "tenant_admin", "individual"}
InviteRoles == {"tenant_user", "tenant_admin"}

ASSUME ConstantsAssumption ==
    /\ None \notin Tenants \union Users \union Emails \union Invites \union Requests
    /\ {"pending", "active"} \subseteq Statuses
    /\ None \notin Statuses \union Roles
    /\ Founder \in [Tenants -> Users]
    /\ Address \in [Tenants -> Emails]
    /\ \A s, t \in Tenants : s # t => Founder[s] # Founder[t] /\ Address[s] # Address[t]
    /\ MaxUndone \in Nat
    /\ IsFiniteSet(Users) /\ IsFiniteSet(Invites) /\ IsFiniteSet(Requests)

VARIABLES
    users,       \* users[u]: the row of users, with the invitation it came from
    tenants,     \* tenants[t]: the row of tenants
    admins,      \* the rows of tenant_admins: pairs of a tenant and a user
    invites,     \* invites[i]: the row of tenant_invitations
    req,         \* req[r]: the transaction of request r
    mails,       \* mails[t]: how many mails said that the profile of t is complete
    undone       \* undone[t]: how many of them are of requests that then rolled back

tables == <<users, tenants, admins, invites>>
vars == <<users, tenants, admins, invites, req, mails, undone>>

UserRow == [email : Emails, role : Roles, tenant : Tenants \union {None},
            status : Statuses, from : Invites \union {None}]
TenantRow == [status : Statuses, completed : BOOLEAN]
InviteRow == [tenant : Tenants, email : Emails, role : InviteRoles,
              accepted : BOOLEAN, expired : BOOLEAN]

Idle == [op |-> "idle", user |-> None, tenant |-> None, invite |-> None,
         email |-> None, role |-> None, status |-> None, mail |-> "none"]
Ops == {"idle", "invite", "accept", "register", "verify", "self_status", "profile", "status"}
RequestState ==
    [op : Ops, user : Users \union {None}, tenant : Tenants \union {None},
     invite : Invites \union {None}, email : Emails \union {None},
     role : Roles \union {None}, status : Statuses \union {None},
     mail : {"none", "due", "sent"}]

ASSUME NoneAssumption == None \notin UserRow \union InviteRow

TypeOK ==
    /\ users \in [Users -> UserRow \union {None}]
    /\ tenants \in [Tenants -> TenantRow]
    /\ admins \subseteq Tenants \X Users
    /\ invites \in [Invites -> InviteRow \union {None}]
    /\ req \in [Requests -> RequestState]
    /\ mails \in [Tenants -> Nat]
    /\ undone \in [Tenants -> Nat]

\* Every organization has been registered and verified by its first administrator.
Init ==
    /\ users = [u \in Users |->
         IF \E t \in Tenants : Founder[t] = u
         THEN LET t == CHOOSE t \in Tenants : Founder[t] = u
              IN  [email |-> Address[t], role |-> "tenant_admin", tenant |-> t,
                   status |-> "active", from |-> None]
         ELSE None]
    /\ admins = {<<t, Founder[t]>> : t \in Tenants}
    /\ tenants = [t \in Tenants |-> [status |-> "active", completed |-> FALSE]]
    /\ invites = [i \in Invites |-> None]
    /\ req = [r \in Requests |-> Idle]
    /\ mails = [t \in Tenants |-> 0]
    /\ undone = [t \in Tenants |-> 0]

-----------------------------------------------------------------------------
(* Who may do what *)

Taken(e) == \E u \in Users : users[u] # None /\ users[u].email = e

\* get_current_user.
Authenticated(u) == users[u] # None /\ users[u].status = "active"

\* require_role(TENANT_ADMIN).
Administrator(u) == Authenticated(u) /\ users[u].role = "tenant_admin"

\* require_tenant.
Belongs(u, t) == users[u].tenant = t

\* is_admin.
IsAdmin(t, u) == <<t, u>> \in admins

Open(r, txn) ==
    /\ req[r] = Idle
    /\ txn.op \in Handlers
    /\ req' = [req EXCEPT ![r] = txn]
    /\ UNCHANGED <<tables, mails, undone>>

-----------------------------------------------------------------------------
(* The requests: what each reads and decides *)

\* Faulty variant: the role of the invitation is not checked.
InviteAnyRole(r, u, t, e, role) ==
    /\ Administrator(u)
    /\ IsAdmin(t, u)
    /\ ~Taken(e)
    /\ Open(r, [Idle EXCEPT !.op = "invite", !.tenant = t, !.email = e, !.role = role])

\* create_invitation; send_invite_email takes the token out before the commit.
Invite(r, u, t, e, role) ==
    /\ Administrator(u)
    /\ IsAdmin(t, u)
    /\ role \in InviteRoles
    /\ ~Taken(e)
    /\ Open(r, [Idle EXCEPT !.op = "invite", !.tenant = t, !.email = e, !.role = role])

Acceptable(i) ==
    /\ invites[i] # None
    /\ ~invites[i].accepted
    /\ ~invites[i].expired
    /\ ~Taken(invites[i].email)

\* accept_invitation of both services: the account, its profile and credentials, the
\* administrator's link, the invitation and the code are one transaction.
Accept(r, i) ==
    /\ Acceptable(i)
    /\ Open(r, [Idle EXCEPT !.op = "accept", !.invite = i, !.tenant = invites[i].tenant,
                            !.email = invites[i].email, !.role = invites[i].role,
                            !.status = "pending"])

\* The invited person registers without the invitation.
Register(r, e) ==
    /\ ~Taken(e)
    /\ Open(r, [Idle EXCEPT !.op = "register", !.email = e, !.role = "individual",
                            !.status = "pending"])

\* The ORM writes a column only when the value it read is different.
Written(u, s) == IF users[u].status = s THEN None ELSE s

\* complete_email_verification with a code mailed to the account.
Verify(r, u) ==
    /\ users[u] # None
    /\ Open(r, [Idle EXCEPT !.op = "verify", !.user = u, !.status = Written(u, "active")])

\* PATCH /users/me/status.
UpdateMyStatus(r, u, s) ==
    /\ Authenticated(u)
    /\ Open(r, [Idle EXCEPT !.op = "self_status", !.user = u, !.status = Written(u, s)])

\* PATCH /tenants/{id}/profile. Whoever finds the profile incomplete mails its completion.
UpdateProfile(r, u, t) ==
    /\ Administrator(u)
    /\ Belongs(u, t)
    /\ Open(r, [Idle EXCEPT !.op = "profile", !.tenant = t,
                            !.mail = IF tenants[t].completed THEN "none" ELSE "due"])

\* PATCH /tenants/{id}/status. (No path makes a SUPER_ADMIN, who need not belong.)
UpdateStatus(r, u, t, s) ==
    /\ Administrator(u)
    /\ Belongs(u, t)
    /\ Open(r, [Idle EXCEPT !.op = "status", !.tenant = t, !.status = s])

Read(r) ==
    \/ \E u \in Users, t \in Tenants, e \in Emails, role \in Roles : Invite(r, u, t, e, role)
    \/ \E i \in Invites : Accept(r, i)
    \/ \E e \in Emails : Register(r, e)
    \/ \E u \in Users : Verify(r, u)
    \/ \E u \in Users, s \in Statuses : UpdateMyStatus(r, u, s)
    \/ \E u \in Users, t \in Tenants : UpdateProfile(r, u, t)
    \/ \E u \in Users, t \in Tenants, s \in Statuses : UpdateStatus(r, u, t, s)

-----------------------------------------------------------------------------
(* The end of a request *)

Inserts(r) == req[r].op \in {"accept", "register"}

\* The row a request changes: a new one if it inserts.
Target(r) ==
    IF Inserts(r) THEN {u \in Users : users[u] = None} ELSE {req[r].user}

InviteTarget(r) ==
    IF req[r].op = "invite" THEN {i \in Invites : invites[i] = None} ELSE {req[r].invite}

UsersAfter(r, u) ==
    CASE Inserts(r) ->
           [users EXCEPT ![u] =
              [email |-> req[r].email, role |-> req[r].role, tenant |-> req[r].tenant,
               status |-> req[r].status, from |-> req[r].invite]]
      [] req[r].op \in {"verify", "self_status"} /\ req[r].status # None ->
           [users EXCEPT ![u].status = req[r].status]
      [] OTHER -> users

\* Faulty variant: the link of an accepted administrator is not stored.
AdminsAfterNoLink(r, u) == admins

AdminsAfter(r, u) ==
    IF req[r].op = "accept" /\ req[r].role = "tenant_admin"
    THEN admins \union {<<req[r].tenant, u>>} ELSE admins

\* Faulty variant: the acceptance is not recorded.
InvitesAfterUnrecorded(r, i) ==
    IF req[r].op = "invite"
    THEN [invites EXCEPT ![i] =
            [tenant |-> req[r].tenant, email |-> req[r].email, role |-> req[r].role,
             accepted |-> FALSE, expired |-> FALSE]]
    ELSE invites

InvitesAfter(r, i) ==
    CASE req[r].op = "invite" ->
           [invites EXCEPT ![i] =
              [tenant |-> req[r].tenant, email |-> req[r].email, role |-> req[r].role,
               accepted |-> FALSE, expired |-> FALSE]]
      [] req[r].op = "accept" -> [invites EXCEPT ![i].accepted = TRUE]
      [] OTHER -> invites

TenantsAfter(r) ==
    CASE req[r].op = "profile" -> [tenants EXCEPT ![req[r].tenant].completed = TRUE]
      [] req[r].op = "status" -> [tenants EXCEPT ![req[r].tenant].status = req[r].status]
      [] OTHER -> tenants

\* Faulty variant: users.email has no unique index.
ClashesNever(r) == FALSE

\* The unique index of users.email: of two requests that insert one email the second
\* waits for the first, and fails if that one commits.
Clashes(r) == Inserts(r) /\ Taken(req[r].email)

\* Another request has updated the row of tenants that r updates, and not ended.
RowHeld(r) ==
    \E s \in Requests \ {r} : req[s].mail = "sent" /\ req[s].tenant = req[r].tenant

\* Faulty variant: the completion is mailed before the row is updated.
MailFirst(r) ==
    /\ req[r].mail = "due"
    /\ req' = [req EXCEPT ![r].mail = "none"]
    /\ mails' = [mails EXCEPT ![req[r].tenant] = @ + 1]
    /\ UNCHANGED <<tables, undone>>

\* update_profile has updated the row, and mails the completion before it commits.
Mail(r) ==
    /\ req[r].mail = "due"
    /\ ~RowHeld(r)
    /\ req' = [req EXCEPT ![r].mail = "sent"]
    /\ mails' = [mails EXCEPT ![req[r].tenant] = @ + 1]
    /\ UNCHANGED <<tables, undone>>

Commit(r) ==
    /\ req[r] # Idle
    /\ req[r].mail # "due"
    /\ ~Clashes(r)
    /\ req[r].op \in {"profile", "status"} => ~RowHeld(r)
    /\ \E u \in Target(r), i \in InviteTarget(r) :
         /\ users' = UsersAfter(r, u)
         /\ admins' = AdminsAfter(r, u)
         /\ invites' = InvitesAfter(r, i)
    /\ tenants' = TenantsAfter(r)
    /\ req' = [req EXCEPT ![r] = Idle]
    /\ UNCHANGED <<mails, undone>>

\* A check, a mail or the commit fails: what was written is undone, a mail is not.
Rollback(r) ==
    /\ req[r] # Idle
    /\ IF req[r].mail = "sent"
       THEN /\ undone[req[r].tenant] < MaxUndone
            /\ undone' = [undone EXCEPT ![req[r].tenant] = @ + 1]
       ELSE UNCHANGED undone
    /\ req' = [req EXCEPT ![r] = Idle]
    /\ UNCHANGED <<tables, mails>>

\* Seven days pass.
Expire(i) ==
    /\ invites[i] # None
    /\ ~invites[i].expired
    /\ invites' = [invites EXCEPT ![i].expired = TRUE]
    /\ UNCHANGED <<users, tenants, admins, req, mails, undone>>

Next ==
    \/ \E r \in Requests : Read(r) \/ Mail(r) \/ Commit(r) \/ Rollback(r)
    \/ \E i \in Invites : Expire(i)

Spec == Init /\ [][Next]_vars

-----------------------------------------------------------------------------
(* The dashboard *)

TotalUsers(t) == Cardinality({u \in Users : users[u] # None /\ users[u].tenant = t})

ActiveUsers(t) ==
    Cardinality({u \in Users : users[u] # None /\ users[u].tenant = t
                               /\ users[u].status = "active"})

PendingInvitations(t) ==
    Cardinality({i \in Invites : invites[i] # None /\ invites[i].tenant = t
                                 /\ ~invites[i].accepted})

\* The emails that joined t by an invitation, and those that still can.
Joined(t) ==
    {invites[i].email : i \in {i \in Invites : invites[i] # None /\ invites[i].tenant = t
                                              /\ invites[i].accepted}}
Welcome(t) ==
    {invites[i].email : i \in {i \in Invites : Acceptable(i) /\ invites[i].tenant = t}}

\* The requests that have the completion of t still to mail, and those that have mailed it.
Due(t) == {r \in Requests : req[r].mail = "due" /\ req[r].tenant = t}
Sent(t) == {r \in Requests : req[r].mail = "sent" /\ req[r].tenant = t}

\* What user u is shown of t, or None: refused.
Dashboard(u, t) ==
    IF Administrator(u) /\ IsAdmin(t, u) /\ tenants[t].completed
    THEN [total |-> TotalUsers(t), active |-> ActiveUsers(t),
          pending |-> PendingInvitations(t)]
    ELSE None

-----------------------------------------------------------------------------
(* Properties *)

\* The links of tenant_admins are the administrators' accounts: what is_admin and what
\* require_role and require_tenant answer of an organization never disagree.
AdminsBelong ==
    \A t \in Tenants, u \in Users :
        <<t, u>> \in admins <=>
            users[u] # None /\ users[u].role = "tenant_admin" /\ users[u].tenant = t

\* An invitation makes one account and no more, for the person, the organization and the
\* role it names, and is accepted exactly when that account exists.
InvitationsSingleUse ==
    /\ \A i \in Invites : invites[i] # None /\ invites[i].accepted =>
         \E u \in Users : users[u] # None /\ users[u].from = i
    /\ \A u, v \in Users :
         users[u] # None /\ users[v] # None /\ users[u].from # None
           /\ users[u].from = users[v].from => u = v
    /\ \A u \in Users : users[u] # None /\ users[u].from # None =>
         /\ invites[users[u].from] # None
         /\ invites[users[u].from].accepted
         /\ invites[users[u].from].email = users[u].email
         /\ invites[users[u].from].tenant = users[u].tenant
         /\ invites[users[u].from].role = users[u].role

\* Once its email has an account, an invitation is never accepted any more, although a
\* request that found the email free may still be open.
NoLateAcceptance ==
    [][\A i \in Invites :
         invites[i] # None /\ ~invites[i].accepted /\ Taken(invites[i].email)
           => ~invites'[i].accepted]_vars

\* The users the dashboard counts are the first administrator and, once each, the people
\* who accepted an invitation, however often they were invited; the pending invitations
\* leave out nobody who can still accept; and it is shown only after a completion that
\* was mailed has been committed.
DashboardCountsPeople ==
    \A u \in Users, t \in Tenants : Dashboard(u, t) # None =>
        /\ Dashboard(u, t).total = 1 + Cardinality(Joined(t))
        /\ Cardinality(Welcome(t)) <= Dashboard(u, t).pending
        /\ Dashboard(u, t).active \in 1..Dashboard(u, t).total
        /\ mails[t] > undone[t]

\* The completion of a profile is mailed at most once for each request that can overlap
\* and once more for each that fails after its mail; and the profile is complete exactly
\* when, of the requests that mailed so, one has committed.
CompletionsMailed ==
    \A t \in Tenants :
        /\ mails[t] <= Cardinality(Requests) + undone[t]
        /\ tenants[t].completed <=> mails[t] > undone[t] + Cardinality(Sent(t))

-----------------------------------------------------------------------------
(* Inductive invariant, the strengthening the proofs need *)

\* No two accounts share an email, however acceptances and registrations overlap.
EmailsUnique ==
    \A u, v \in Users :
        users[u] # None /\ users[v] # None /\ users[u].email = users[v].email => u = v

\* What the open transaction q will write still fits the rows as they are now.
WritesFit(q) ==
    /\ q.op = "idle" => q = Idle
    /\ q.op = "invite" => q.tenant \in Tenants /\ q.email \in Emails /\ q.role \in InviteRoles
    /\ q.op = "accept" =>
         /\ q.invite \in Invites /\ invites[q.invite] # None
         /\ q.tenant = invites[q.invite].tenant
         /\ q.email = invites[q.invite].email
         /\ q.role = invites[q.invite].role
         /\ q.status = "pending"
    /\ q.op = "register" =>
         /\ q.email \in Emails /\ q.role = "individual" /\ q.status = "pending"
         /\ q.tenant = None /\ q.invite = None
    /\ q.op \in {"verify", "self_status"} =>
         q.user \in Users /\ users[q.user] # None
    /\ q.op = "profile" =>
         q.tenant \in Tenants /\ (q.mail = "none" => tenants[q.tenant].completed)
    /\ q.op = "status" => q.tenant \in Tenants /\ q.status \in Statuses
    /\ q.mail # "none" => q.op = "profile"

\* The accounts of an organization are its founder's and those its invitations made.
FoundersFit ==
    /\ \A t \in Tenants : /\ users[Founder[t]] # None
                          /\ users[Founder[t]].tenant = t
                          /\ users[Founder[t]].from = None
    /\ \A u \in Users, t \in Tenants :
         users[u] # None /\ users[u].tenant = t /\ users[u].from = None => u = Founder[t]

\* Who mailed the completion of a profile, and who has it still to mail, found it incomplete.
CompletionsFit ==
    \A t \in Tenants :
        /\ mails[t] >= undone[t] + Cardinality(Sent(t))
        /\ tenants[t].completed <=> mails[t] > undone[t] + Cardinality(Sent(t))
        /\ mails[t] + Cardinality(Due(t)) <= Cardinality(Requests) + undone[t]

TenantInv ==
    /\ TypeOK
    /\ EmailsUnique
    /\ AdminsBelong
    /\ InvitationsSingleUse
    /\ FoundersFit
    /\ CompletionsFit
    /\ \A r \in Requests : WritesFit(req[r])
=============================================================================
