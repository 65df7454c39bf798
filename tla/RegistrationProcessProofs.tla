---------------------- MODULE RegistrationProcessProofs ----------------------
(***************************************************************************)
(* Theorems of Registration as one process: a request has one transaction  *)
(* over all the tables.                                                    *)
(*                                                                         *)
(* There a commit publishes all the rows of a registration, or the         *)
(* activation of the account with that of its organization (CommitsWhole), *)
(* so that organizations and accounts agree, and the tables implement the  *)
(* registry of accounts.                                                   *)
(***************************************************************************)
EXTENDS RegistrationProofs

----------------------------------------------------------------------------
(* What a commit does                                                      *)

\* The request of a commit and the writes of its transaction.
LEMMA CommitWrites ==
    ASSUME ~Remote, RegistrationInv, NEW r \in Requests, NEW W,
           req[r].pc \in {"persist", "challenge", "mark"}, W \intersect writes = Own(r),
           Publishable(W)
    PROVE  LET p == req[r] IN
           /\ \A w \in W : w.op = "account" =>
                  /\ Inserted(p)
                  /\ w.email = p.email /\ w.account = p.account /\ w.tenant = p.tenant
           /\ \A w \in W : w.op = "tenant" =>
                  Inserted(p) /\ p.org # None /\ w.email = p.org /\ w.tenant = p.tenant
           /\ \A w \in W : w.op = "admin" =>
                  Inserted(p) /\ p.org # None /\ w.tenant = p.tenant /\ w.account = p.account
           /\ \A w \in W : w.op = "activate" =>
                  p.pc = "mark" /\ p.tenant # None /\ w.tenant = p.tenant
           /\ Inserted(p) => WriteOf(r, "account", p.email, p.account, p.tenant) \in W
           /\ Inserted(p) /\ p.org # None =>
                  /\ WriteOf(r, "tenant", p.org, None, p.tenant) \in W
                  /\ WriteOf(r, "admin", p.email, p.account, p.tenant) \in W
           /\ p.pc = "mark" /\ p.tenant # None =>
                  WriteOf(r, "activate", p.email, None, p.tenant) \in W
           /\ Inserted(p) => p.account \in Accounts /\ p.tenant \in Tenants \union {None}
                               /\ p.email \in Emails /\ p.org \in Emails \union {None}
                               /\ (p.org # None => p.tenant \in Tenants)
<1>1. PICK p : p = req[r] OBVIOUS
<1>2. /\ p \in RequestState /\ RequestFits(p) /\ Own(r) = Journal(r, p)
      /\ p.pc \in {"persist", "challenge", "mark"}
    BY <1>1 DEF RegistrationInv, TypeOK
<1>3. \A w \in W : w.op # "verify" => w \in Journal(r, p)
    BY <1>2 DEF Publishable, Own
<1>4. Founded(p) <=> p.org # None /\ Inserted(p) BY <1>2 DEF Founded
<1>5. Inserted(p) => p.pc \notin {"mark", "admin"} BY <1>2 DEF Inserted
<1>6. /\ Inserted(p) => p.account \in Accounts /\ p.email \in Emails
      /\ Inserted(p) /\ p.org # None => p.tenant \in Tenants
      /\ p.org \in Emails \union {None} /\ p.tenant \in Tenants \union {None}
    BY <1>2 DEF RequestFits, Registers, Inserted, RequestState
<1>7. p.pc = "mark" => p.email \in Emails
    BY <1>2 DEF RequestFits, Completes, RegistrationInv, TypeOK, AccountRow
<1>8. ASSUME NEW w \in W, w.op = "account"
      PROVE  /\ Inserted(p)
             /\ w.email = p.email /\ w.account = p.account /\ w.tenant = p.tenant
    BY <1>3, <1>8 DEF Journal, WriteOf
<1>9. ASSUME NEW w \in W, w.op = "tenant"
      PROVE  Inserted(p) /\ p.org # None /\ w.email = p.org /\ w.tenant = p.tenant
    BY <1>3, <1>4, <1>9 DEF Journal, WriteOf
<1>10. ASSUME NEW w \in W, w.op = "admin"
       PROVE  Inserted(p) /\ p.org # None /\ w.tenant = p.tenant /\ w.account = p.account
    BY <1>3, <1>4, <1>10 DEF Journal, WriteOf
<1>11. ASSUME NEW w \in W, w.op = "activate"
       PROVE  p.pc = "mark" /\ p.tenant # None /\ w.tenant = p.tenant
    BY <1>3, <1>11 DEF Journal, WriteOf
<1>12. Own(r) \subseteq W OBVIOUS
<1>13. Inserted(p) => WriteOf(r, "account", p.email, p.account, p.tenant) \in W
    <2> SUFFICES ASSUME Inserted(p)
                 PROVE WriteOf(r, "account", p.email, p.account, p.tenant) \in Journal(r, p)
        BY <1>2, <1>12
    <2> QED BY <1>6 DEF Journal, WriteOf, Write, LocalOps
<1>14. Inserted(p) /\ p.org # None => WriteOf(r, "tenant", p.org, None, p.tenant) \in W
    <2> SUFFICES ASSUME Inserted(p), p.org # None
                 PROVE WriteOf(r, "tenant", p.org, None, p.tenant) \in Journal(r, p)
        BY <1>2, <1>12
    <2> QED BY <1>4, <1>6 DEF Journal, WriteOf, Write, LocalOps
<1>15. Inserted(p) /\ p.org # None => WriteOf(r, "admin", p.email, p.account, p.tenant) \in W
    <2> SUFFICES ASSUME Inserted(p), p.org # None
                 PROVE WriteOf(r, "admin", p.email, p.account, p.tenant) \in Journal(r, p)
        BY <1>2, <1>12
    <2> QED BY <1>4, <1>5, <1>6 DEF Journal, WriteOf, Write, LocalOps
<1>16. p.pc = "mark" /\ p.tenant # None => WriteOf(r, "activate", p.email, None, p.tenant) \in W
    <2> SUFFICES ASSUME p.pc = "mark", p.tenant # None
                 PROVE WriteOf(r, "activate", p.email, None, p.tenant) \in Journal(r, p)
        BY <1>2, <1>12
    <2> QED BY <1>6, <1>7 DEF Journal, WriteOf, Write, LocalOps
<1> QED BY <1>1, <1>6, <1>8, <1>9, <1>10, <1>11, <1>13, <1>14, <1>15, <1>16

\* The three steps that commit: what they publish, and the verification among it.
LEMMA CommitOf ==
    ASSUME RegistrationInv, NEW r \in Requests, Persist(r) \/ Challenge(r) \/ Mark(r)
    PROVE  /\ req[r].pc \in {"persist", "challenge", "mark"}
           /\ \E W : /\ Publish(W) /\ Publishable(W) /\ W \intersect writes = Own(r)
                     /\ \A a \in Accounts : (\E w \in W : w.op = "verify" /\ w.account = a)
                          <=> req[r].pc = "mark" /\ req[r].account = a
<1>1. \A w \in Own(r) : w \in writes /\ w \in Write /\ w.op # "verify"
    BY DEF Own, RegistrationInv, TypeOK, WriteFits
<1>2. CASE Persist(r) \/ Challenge(r)
    <2>1. Publishable(Own(r)) /\ Own(r) \intersect writes = Own(r)
        BY <1>1 DEF Publishable
    <2>2. Publish(Own(r)) /\ req[r].pc \in {"persist", "challenge"}
        BY <1>2 DEF Persist, Challenge
    <2> QED BY <1>1, <2>1, <2>2
<1>3. CASE Mark(r)
    <2>1. PICK p : p = req[r] OBVIOUS
    <2>2. p \in RequestState /\ RequestFits(p) /\ p.pc = "mark"
        BY <1>3, <2>1 DEF RegistrationInv, TypeOK, Mark
    <2>3. p.account \in Accounts /\ accounts[p.account] # None /\ p.email \in Emails
        BY <2>2 DEF RequestFits, Completes, RegistrationInv, TypeOK, AccountRow
    <2>4. PICK v : v = WriteOf(r, "verify", p.email, p.account, None) OBVIOUS
    <2>5. v \in Write /\ v.op = "verify" /\ v.account = p.account
        BY <2>3, <2>4 DEF WriteOf, Write, LocalOps
    <2>6. PICK W : W = Own(r) \union {v} OBVIOUS
    <2>7. Publish(W) BY <1>3, <2>1, <2>4, <2>6 DEF Mark
    <2>8. Publishable(W) BY <1>1, <2>3, <2>5, <2>6 DEF Publishable
    <2>9. W \intersect writes = Own(r)
        BY <1>1, <2>5, <2>6 DEF RegistrationInv, WriteFits
    <2>10. \A a \in Accounts : (\E w \in W : w.op = "verify" /\ w.account = a)
               <=> p.pc = "mark" /\ p.account = a
        BY <1>1, <2>2, <2>5, <2>6
    <2> QED BY <2>1, <2>2, <2>7, <2>8, <2>9, <2>10
<1> QED BY <1>2, <1>3

\* A registration commits its account, and its organization with its administrator if it
\* has one; a completion the activation of both.
LEMMA CommitsWhole ==
    ASSUME ~Remote, RegistrationInv, NEW r \in Requests, NEW p, p = req[r],
           Persist(r) \/ Challenge(r) \/ Mark(r)
    PROVE  /\ \A a \in Accounts : accounts[a] = None =>
                  IF Inserted(p) /\ a = p.account
                  THEN accounts'[a] = Row(p.email, p.tenant) /\ AccountsOf(p.email) = {}
                  ELSE accounts'[a] = None
           /\ \A a \in Accounts : accounts[a] # None =>
                  /\ accounts'[a] # None /\ ~(Inserted(p) /\ a = p.account)
                  /\ accounts'[a].email = accounts[a].email
                  /\ accounts'[a].tenant = accounts[a].tenant
                  /\ accounts'[a].active <=> accounts[a].active \/ (p.pc = "mark" /\ p.account = a)
           /\ \A t \in Tenants : tenants[t] = None =>
                  IF Inserted(p) /\ p.org # None /\ t = p.tenant
                  THEN tenants'[t] # None /\ tenants'[t].org = p.org /\ ~tenants'[t].active
                  ELSE tenants'[t] = None
           /\ \A t \in Tenants : tenants[t] # None =>
                  /\ tenants'[t] # None /\ ~(Inserted(p) /\ p.org # None /\ t = p.tenant)
                  /\ tenants'[t].org = tenants[t].org
                  /\ tenants'[t].active <=> tenants[t].active \/ (p.pc = "mark" /\ p.tenant = t)
           /\ admins' = admins \union
                  {x \in {<<p.tenant, p.account>>} : Inserted(p) /\ p.org # None}
           /\ Inserted(p) =>
                  /\ p.account \in Accounts /\ p.tenant \in Tenants \union {None}
                  /\ p.email \in Emails /\ p.org \in Emails \union {None}
                  /\ p.org = None <=> p.tenant = None
<1>1. req[r].pc \in {"persist", "challenge", "mark"} /\ p.pc \in {"persist", "challenge", "mark"}
    BY CommitOf
<1>2. PICK W : /\ Publish(W) /\ Publishable(W) /\ W \intersect writes = Own(r)
               /\ \A a \in Accounts : (\E w \in W : w.op = "verify" /\ w.account = a)
                          <=> p.pc = "mark" /\ p.account = a
    BY CommitOf
<1>3. /\ \A w \in W : w.op = "account" =>
             Inserted(p) /\ w.email = p.email /\ w.account = p.account /\ w.tenant = p.tenant
      /\ \A w \in W : w.op = "tenant" =>
             Inserted(p) /\ p.org # None /\ w.email = p.org /\ w.tenant = p.tenant
      /\ \A w \in W : w.op = "admin" =>
             Inserted(p) /\ p.org # None /\ w.tenant = p.tenant /\ w.account = p.account
      /\ \A w \in W : w.op = "activate" => p.pc = "mark" /\ p.tenant # None /\ w.tenant = p.tenant
      /\ Inserted(p) => WriteOf(r, "account", p.email, p.account, p.tenant) \in W
      /\ Inserted(p) /\ p.org # None =>
             /\ WriteOf(r, "tenant", p.org, None, p.tenant) \in W
             /\ WriteOf(r, "admin", p.email, p.account, p.tenant) \in W
      /\ p.pc = "mark" /\ p.tenant # None => WriteOf(r, "activate", p.email, None, p.tenant) \in W
      /\ Inserted(p) => p.account \in Accounts /\ p.tenant \in Tenants \union {None}
                          /\ p.email \in Emails /\ p.org \in Emails \union {None}
                          /\ (p.org # None => p.tenant \in Tenants)
    BY <1>1, <1>2, CommitWrites
<1>4. /\ \A w \in W : w.op = "account" => accounts'[w.account] = Row(w.email, w.tenant)
      /\ \A a \in Accounts : accounts[a] # None =>
             /\ accounts'[a] # None
             /\ accounts'[a].email = accounts[a].email
             /\ accounts'[a].tenant = accounts[a].tenant
             /\ accounts'[a].active <=>
                  accounts[a].active \/ \E w \in W : w.op = "verify" /\ w.account = a
      /\ \A a \in Accounts : accounts[a] = None /\ accounts'[a] # None =>
             \E w \in W : w.op = "account" /\ w.account = a
    BY <1>2, PublishedAccounts
<1>5. /\ \A w \in W : w.op = "tenant" =>
             /\ tenants'[w.tenant] # None
             /\ tenants'[w.tenant].org = w.email /\ ~tenants'[w.tenant].active
      /\ \A t \in Tenants : tenants[t] # None =>
             /\ tenants'[t] # None
             /\ tenants'[t].org = tenants[t].org
             /\ tenants'[t].active <=>
                  tenants[t].active \/ \E w \in W : w.op = "activate" /\ w.tenant = t
      /\ \A t \in Tenants : tenants[t] = None /\ tenants'[t] # None =>
             \E w \in W : w.op = "tenant" /\ w.tenant = t
    BY <1>2, PublishedTenants
<1>6. ASSUME Inserted(p)
      PROVE  /\ accounts[p.account] = None /\ AccountsOf(p.email) = {}
             /\ accounts'[p.account] = Row(p.email, p.tenant)
             /\ p.org = None => p.tenant = None
    <2>1. PICK w \in W : w = WriteOf(r, "account", p.email, p.account, p.tenant)
        BY <1>3, <1>6
    <2>2. /\ w.op = "account" /\ w.email = p.email /\ w.account = p.account
          /\ w.tenant = p.tenant /\ w.by = r
        BY <2>1 DEF WriteOf
    <2>3. w \in writes /\ WriteFits(w)
        BY <1>2, <2>2 DEF Publishable, RegistrationInv
    <2>4. accounts'[p.account] = Row(p.email, p.tenant) BY <1>4, <2>2
    <2>5. ASSUME p.tenant # None PROVE p.org # None
        <3>1. PICK v \in writes : v.op = "tenant" /\ v.by = w.by /\ v.tenant = w.tenant
            BY <2>2, <2>3, <2>5 DEF WriteFits
        <3>2. v \in W BY <1>2, <2>2, <3>1 DEF Own
        <3> QED BY <1>3, <3>1, <3>2
    <2> QED BY <2>2, <2>3, <2>4, <2>5 DEF WriteFits
<1>7. ASSUME Inserted(p), p.org # None
      PROVE  /\ p.tenant \in Tenants /\ tenants[p.tenant] = None
             /\ tenants'[p.tenant] # None
             /\ tenants'[p.tenant].org = p.org /\ ~tenants'[p.tenant].active
    <2>1. PICK w \in W : w = WriteOf(r, "tenant", p.org, None, p.tenant)
        BY <1>3, <1>7
    <2>2. w.op = "tenant" /\ w.email = p.org /\ w.tenant = p.tenant
        BY <2>1 DEF WriteOf
    <2>3. w \in writes /\ WriteFits(w)
        BY <1>2, <2>2 DEF Publishable, RegistrationInv
    <2> QED BY <1>3, <1>5, <1>7, <2>2, <2>3 DEF WriteFits
<1>8. \A a \in Accounts : accounts[a] = None =>
          IF Inserted(p) /\ a = p.account
          THEN accounts'[a] = Row(p.email, p.tenant) /\ AccountsOf(p.email) = {}
          ELSE accounts'[a] = None
    BY <1>3, <1>4, <1>6
<1>9. \A a \in Accounts : accounts[a] # None =>
          /\ accounts'[a] # None /\ ~(Inserted(p) /\ a = p.account)
          /\ accounts'[a].email = accounts[a].email
          /\ accounts'[a].tenant = accounts[a].tenant
          /\ accounts'[a].active <=> accounts[a].active \/ (p.pc = "mark" /\ p.account = a)
    BY <1>2, <1>4, <1>6
<1>10. \A t \in Tenants : tenants[t] = None =>
           IF Inserted(p) /\ p.org # None /\ t = p.tenant
           THEN tenants'[t] # None /\ tenants'[t].org = p.org /\ ~tenants'[t].active
           ELSE tenants'[t] = None
    BY <1>3, <1>5, <1>7
<1>11. ASSUME NEW t \in Tenants
       PROVE  (\E w \in W : w.op = "activate" /\ w.tenant = t) <=> p.pc = "mark" /\ p.tenant = t
    <2>1. t # None BY NotNull
    <2>2. ASSUME p.pc = "mark", p.tenant = t PROVE \E w \in W : w.op = "activate" /\ w.tenant = t
        <3>1. PICK w \in W : w = WriteOf(r, "activate", p.email, None, p.tenant)
            BY <1>3, <2>1, <2>2
        <3> QED BY <2>2, <3>1 DEF WriteOf
    <2> QED BY <1>3, <2>2
<1>12. \A t \in Tenants : tenants[t] # None =>
           /\ tenants'[t] # None /\ ~(Inserted(p) /\ p.org # None /\ t = p.tenant)
           /\ tenants'[t].org = tenants[t].org
           /\ tenants'[t].active <=> tenants[t].active \/ (p.pc = "mark" /\ p.tenant = t)
    BY <1>5, <1>7, <1>11
<1>13. admins' = admins \union {x \in {<<p.tenant, p.account>>} : Inserted(p) /\ p.org # None}
    <2>1. admins' = admins \union {<<w.tenant, w.account>> : w \in {x \in W : x.op = "admin"}}
        BY <1>2 DEF Publish
    <2>2. \A w \in W : w.op = "admin" =>
              Inserted(p) /\ p.org # None /\ w.tenant = p.tenant /\ w.account = p.account
        BY <1>3
    <2>3. Inserted(p) /\ p.org # None =>
              \E w \in W : w.op = "admin" /\ w.tenant = p.tenant /\ w.account = p.account
        BY <1>3 DEF WriteOf
    <2> QED BY <2>1, <2>2, <2>3
<1>14. Inserted(p) => (p.org = None <=> p.tenant = None) BY <1>3, <1>6, NotNull
<1> QED BY <1>3, <1>8, <1>9, <1>10, <1>12, <1>13, <1>14

\* No other step of a request changes a row.
LEMMA OthersLeaveTables ==
    ASSUME NEW r \in Requests, Start(r) \/ Step(r) \/ Fail(r) \/ Unanswered(r)
    PROVE  UNCHANGED tables \/ Persist(r) \/ Challenge(r) \/ Mark(r)
<1>1. CASE Start(r) BY <1>1 DEF Start, Begin, BeginComplete
<1>2. CASE Step(r)
    BY <1>2 DEF Step, Check, Create, FindTenant, Insert, AddAdmin, Activate, Greet, Refuse
<1>3. CASE Fail(r) \/ Unanswered(r) BY <1>3 DEF Fail, Unanswered
<1> QED BY <1>1, <1>2, <1>3

----------------------------------------------------------------------------
(* Every organization has its administrator                                *)

\* Accounts keep their tenant, and no row or link goes.
LEMMA StaysOwned ==
    ASSUME TypeOK, TenantsOwned, admins' = admins,
           \A a \in Accounts : accounts[a] # None =>
               accounts'[a] # None /\ accounts'[a].tenant = accounts[a].tenant,
           \A t \in Tenants : tenants'[t] # None => tenants[t] # None
    PROVE  TenantsOwned'
<1>1. \A x \in admins : x \in Tenants \X Accounts BY DEF TypeOK
<1> QED BY <1>1 DEF TenantsOwned

LEMMA CommitOwned ==
    ASSUME ~Remote, RegistrationInv, TenantsOwned, NEW r \in Requests,
           Persist(r) \/ Challenge(r) \/ Mark(r)
    PROVE  TenantsOwned'
<1>1. PICK p : p = req[r] OBVIOUS
<1>2. /\ \A a \in Accounts : accounts[a] = None =>
             IF Inserted(p) /\ a = p.account
             THEN accounts'[a] = Row(p.email, p.tenant) ELSE accounts'[a] = None
      /\ \A a \in Accounts : accounts[a] # None =>
             /\ accounts'[a] # None /\ ~(Inserted(p) /\ a = p.account)
             /\ accounts'[a].tenant = accounts[a].tenant
      /\ \A t \in Tenants : tenants[t] = None /\ tenants'[t] # None =>
             Inserted(p) /\ p.org # None /\ t = p.tenant
      /\ admins' = admins \union {x \in {<<p.tenant, p.account>>} : Inserted(p) /\ p.org # None}
      /\ Inserted(p) => p.account \in Accounts /\ p.email \in Emails
    BY <1>1, CommitsWhole
<1>3. \A x \in admins : x \in Tenants \X Accounts BY DEF RegistrationInv, TypeOK
<1>4. ASSUME NEW t \in Tenants, tenants'[t] # None
      PROVE  \E a \in Accounts : <<t, a>> \in admins'
    <2>1. CASE tenants[t] # None BY <1>2, <2>1 DEF TenantsOwned
    <2>2. CASE tenants[t] = None BY <1>2, <1>4, <2>2
    <2> QED BY <2>1, <2>2
<1>5. ASSUME NEW x \in admins' PROVE accounts'[x[2]] # None /\ accounts'[x[2]].tenant = x[1]
    <2>1. CASE x \in admins BY <1>2, <1>3, <2>1 DEF TenantsOwned
    <2>2. CASE x = <<p.tenant, p.account>> /\ Inserted(p) /\ p.org # None
        <3>1. accounts'[p.account] # None /\ accounts'[p.account].tenant = p.tenant
            <4>1. CASE accounts[p.account] = None
                <5>1. accounts'[p.account] = Row(p.email, p.tenant) BY <1>2, <2>2, <4>1
                <5>2. p.tenant \in Tenants \union {None}
                    BY <1>1 DEF RegistrationInv, TypeOK, RequestState
                <5>3. PICK row : row = Row(p.email, p.tenant) OBVIOUS
                <5>4. row \in AccountRow /\ row.tenant = p.tenant
                    BY <1>2, <2>2, <5>2, <5>3 DEF Row, AccountRow
                <5> QED BY <5>1, <5>3, <5>4, NotNull
            <4>2. CASE accounts[p.account] # None BY <1>2, <2>2, <4>2
            <4> QED BY <4>1, <4>2
        <3> QED BY <2>2, <3>1
    <2> QED BY <1>2, <2>1, <2>2
<1> QED BY <1>4, <1>5 DEF TenantsOwned

LEMMA StepOwned ==
    ASSUME ~Remote, RegistrationInv, TenantsOwned, [Next]_vars
    PROVE  TenantsOwned'
<1> USE DEF RegistrationInv
<1>1. CASE UNCHANGED tables BY <1>1, StaysOwned DEF tables
<1>2. CASE \E r \in Requests : Start(r) \/ Step(r) \/ Fail(r) \/ Unanswered(r)
    BY <1>1, <1>2, OthersLeaveTables, CommitOwned
<1>3. CASE \E e \in Emails : VerifyEmail(e) \/ ResendOtp(e)
    <2>1. PICK e \in Emails : VerifyEmail(e) \/ ResendOtp(e) BY <1>3
    <2>2. CASE VerifyEmail(e)
        <3>1. tenants' = tenants /\ admins' = admins BY <2>2 DEF VerifyEmail
        <3>2. PICK a \in Accounts : /\ accounts[a] # None
                                    /\ accounts' = [accounts EXCEPT ![a].active = TRUE]
            BY <2>2 DEF VerifyEmail, AccountsOf
        <3>3. accounts \in [Accounts -> AccountRow \union {None}] /\ accounts[a] \in AccountRow
            BY <3>2 DEF TypeOK
        <3>4. PICK row : row = [accounts[a] EXCEPT !.active = TRUE] OBVIOUS
        <3>5. row \in AccountRow /\ row # None /\ row.tenant = accounts[a].tenant
            BY <3>3, <3>4, NotNull DEF AccountRow
        <3>6. \A b \in Accounts : accounts[b] # None =>
                  accounts'[b] # None /\ accounts'[b].tenant = accounts[b].tenant
            BY <3>2, <3>3, <3>4, <3>5
        <3> QED BY <3>1, <3>6, StaysOwned
    <2>3. CASE ResendOtp(e) BY <1>1, <2>3 DEF ResendOtp
    <2> QED BY <2>1, <2>2, <2>3
<1>4. CASE \E a \in Accounts, o \in Emails : ChangeOrgEmail(a, o)
    <2>1. PICK a \in Accounts, o \in Emails : ChangeOrgEmail(a, o) BY <1>4
    <2>2. PICK t : t = accounts[a].tenant OBVIOUS
    <2>3. /\ accounts' = accounts /\ admins' = admins /\ accounts[a] # None /\ t # None
          /\ tenants' = [tenants EXCEPT ![t].org = o]
        BY <2>1, <2>2 DEF ChangeOrgEmail
    <2>4. accounts[a] \in AccountRow BY <2>3 DEF TypeOK
    <2>5. t \in Tenants /\ tenants[t] # None
        BY <2>2, <2>3, <2>4 DEF AccountRow, AccountsHaveTenant
    <2>6. \A s \in Tenants : tenants'[s] # None => tenants[s] # None
        <3>1. tenants \in [Tenants -> TenantRow \union {None}] BY DEF TypeOK
        <3>2. \A s \in Tenants \ {t} : tenants'[s] = tenants[s] BY <2>3, <3>1
        <3> QED BY <2>5, <3>2
    <2> QED BY <2>3, <2>6, StaysOwned
<1>5. CASE \E w \in writes : TenantCommit(w) \/ TenantLose(w)
    BY <1>5 DEF TenantCommit, TenantLose
<1>6. CASE UNCHANGED vars BY <1>1, <1>6 DEF vars, tables
<1> QED BY <1>2, <1>3, <1>4, <1>5, <1>6 DEF Next

\* In one process an organization is stored together with its administrator, whatever
\* endpoints are used; and a link of tenant_admins is that of a stored account.
THEOREM OrganizationsAreOwned == ~Remote => (Spec => []TenantsOwned)
<1> SUFFICES ASSUME ~Remote PROVE Spec => []TenantsOwned
    OBVIOUS
<1>1. Init => TenantsOwned BY DEF Init, TenantsOwned
<1>2. RegistrationInv /\ TenantsOwned /\ [Next]_vars => TenantsOwned' BY StepOwned
<1> QED BY <1>1, <1>2, RegistrationFits, PTL DEF Spec

----------------------------------------------------------------------------
(* Organizations and accounts agree                                        *)

\* One process, whose clients use the endpoints under /auth/register and /auth/verify-otp.
OneProcess == ~Remote /\ Paths \subseteq {"individual", "organization", "complete"}

\* Their registrations have the email of the organization for the account.
LEMMA OrgIsEmail ==
    ASSUME OneProcess, NEW q, RequestFits(q), Registers(q)
    PROVE  q.path \notin Legacy /\ (q.org = None \/ q.org = q.email)
BY DEF OneProcess, RequestFits, Accepts, Legacy, Flows

\* A request that steps leaves the completions agreeing, if it agrees itself.
LEMMA CompletionsStay ==
    ASSUME ProcessInv, NEW r \in Requests, NEW q \in RequestState, req' = [req EXCEPT ![r] = q],
           \A a \in Accounts : accounts[a] # None => accounts'[a].tenant = accounts[a].tenant,
           Completes(q) => q.tenant = accounts'[q.account].tenant
    PROVE  CompletionsAgree'
<1> SUFFICES ASSUME NEW s \in Requests, Completes(req[s])'
             PROVE  req'[s].tenant = accounts'[req'[s].account].tenant
    BY DEF CompletionsAgree
<1>1. CASE s = r
    <2>1. req'[s] = q BY <1>1 DEF ProcessInv, RegistrationInv, TypeOK
    <2>2. Completes(q) BY <2>1 DEF Completes
    <2> QED BY <2>1, <2>2
<1>2. CASE s # r
    <2>1. PICK p : p = req[s] OBVIOUS
    <2>2. req'[s] = p BY <1>2, <2>1 DEF ProcessInv, RegistrationInv, TypeOK
    <2>3. Completes(p) BY <2>2 DEF Completes
    <2>4. RequestFits(p) /\ p.tenant = accounts[p.account].tenant
        BY <2>1, <2>3 DEF ProcessInv, RegistrationInv, CompletionsAgree
    <2>5. p.account \in Accounts /\ accounts[p.account] # None BY <2>3, <2>4 DEF RequestFits
    <2> QED BY <2>2, <2>4, <2>5
<1> QED BY <1>1, <1>2

\* An answer, the last one or another, is no conflict without an account.
LEMMA ConflictsStay ==
    ASSUME ProcessInv,
           \A a \in Accounts : accounts[a] # None =>
               accounts'[a] # None /\ accounts'[a].email = accounts[a].email,
           outcome' = outcome \/ outcome'.answer # "conflict"
    PROVE  ConflictsKnown'
<1>1. ASSUME outcome' = outcome, outcome.path \in {"individual", "organization"},
             outcome.answer = "conflict"
      PROVE  AccountsOf(outcome.email)' # {}
    <2>1. PICK a \in AccountsOf(outcome.email) : TRUE
        BY <1>1 DEF ProcessInv, ConflictsKnown
    <2>2. a \in AccountsOf(outcome.email)' BY <1>1, <2>1 DEF AccountsOf
    <2> QED BY <2>2
<1> QED BY <1>1 DEF ConflictsKnown

\* A step that leaves the tables alone.
LEMMA TablesStay ==
    ASSUME ProcessInv, RegistrationInv', UNCHANGED tables, NEW r \in Requests,
           NEW q \in RequestState, req' = [req EXCEPT ![r] = q],
           Completes(q) => q.tenant = accounts[q.account].tenant,
           ConflictsKnown'
    PROVE  ProcessInv'
<1>1. accounts' = accounts /\ tenants' = tenants /\ admins' = admins BY DEF tables
<1>2. CompletionsAgree' BY <1>1, CompletionsStay
<1>3. TenantsOwned' /\ ActivationAtomic' /\ RowsAgree'
    BY <1>1 DEF ProcessInv, TenantsOwned, ActivationAtomic, RowsAgree
<1> QED BY <1>2, <1>3 DEF ProcessInv

\* A commit leaves rows that agree: it stores both of an organization, inactive, or
\* activates both.
LEMMA CommitAgrees ==
    ASSUME OneProcess, ProcessInv, NEW r \in Requests, Persist(r) \/ Challenge(r) \/ Mark(r)
    PROVE  ActivationAtomic' /\ RowsAgree'
<1>1. PICK p : p = req[r] OBVIOUS
<1>2. ~Remote /\ RegistrationInv BY DEF OneProcess, ProcessInv
<1>3. /\ \A a \in Accounts : accounts[a] = None =>
             IF Inserted(p) /\ a = p.account
             THEN accounts'[a] = Row(p.email, p.tenant) ELSE accounts'[a] = None
      /\ \A a \in Accounts : accounts[a] # None =>
             /\ accounts'[a] # None
             /\ accounts'[a].email = accounts[a].email
             /\ accounts'[a].tenant = accounts[a].tenant
             /\ accounts'[a].active <=> accounts[a].active \/ (p.pc = "mark" /\ p.account = a)
      /\ \A t \in Tenants : tenants[t] = None =>
             IF Inserted(p) /\ p.org # None /\ t = p.tenant
             THEN tenants'[t] # None /\ tenants'[t].org = p.org /\ ~tenants'[t].active
             ELSE tenants'[t] = None
      /\ \A t \in Tenants : tenants[t] # None =>
             /\ tenants'[t] # None /\ ~(Inserted(p) /\ p.org # None /\ t = p.tenant)
             /\ tenants'[t].org = tenants[t].org
             /\ tenants'[t].active <=> tenants[t].active \/ (p.pc = "mark" /\ p.tenant = t)
      /\ admins' = admins \union {x \in {<<p.tenant, p.account>>} : Inserted(p) /\ p.org # None}
      /\ Inserted(p) => p.tenant \in Tenants \union {None} /\ (p.org = None <=> p.tenant = None)
    BY <1>1, <1>2, CommitsWhole
<1>4. p \in RequestState /\ RequestFits(p) BY <1>1, <1>2 DEF RegistrationInv, TypeOK
<1>5. ASSUME Inserted(p), p.org # None PROVE p.org = p.email
    BY <1>4, <1>5, OrgIsEmail DEF Inserted, Registers
<1>6. ASSUME NEW a \in Accounts, accounts[a] # None, accounts[a].tenant # None
      PROVE  /\ accounts[a].tenant \in Tenants /\ tenants[accounts[a].tenant] # None
             /\ tenants[accounts[a].tenant].org = accounts[a].email
             /\ <<accounts[a].tenant, a>> \in admins
             /\ accounts[a].active <=> tenants[accounts[a].tenant].active
    <2>1. accounts[a] \in AccountRow BY <1>2, <1>6 DEF RegistrationInv, TypeOK
    <2> QED BY <1>2, <1>6, <2>1
            DEF AccountRow, RegistrationInv, AccountsHaveTenant, ProcessInv, RowsAgree,
                ActivationAtomic
<1>7. p.pc = "mark" => /\ p.account \in Accounts /\ accounts[p.account] # None
                       /\ p.tenant = accounts[p.account].tenant
    BY <1>1, <1>4 DEF RequestFits, Completes, ProcessInv, CompletionsAgree
<1>8. ASSUME NEW a \in Accounts, accounts[a] # None, accounts[a].tenant # None
      PROVE  p.pc = "mark" => (p.account = a <=> p.tenant = accounts[a].tenant)
    <2>1. ASSUME p.pc = "mark", p.tenant = accounts[a].tenant PROVE p.account = a
        <3>1. PICK b \in Accounts : b = p.account BY <1>7, <2>1
        <3>2. accounts[b] # None /\ accounts[b].tenant = accounts[a].tenant
            BY <1>7, <2>1, <3>1
        <3>3. accounts[b].email = accounts[a].email BY <1>6, <1>8, <3>2
        <3> QED BY <1>2, <1>8, <3>1, <3>2, <3>3 DEF RegistrationInv, RowsUnique
    <2> QED BY <1>7, <2>1
<1>9. ASSUME NEW a \in Accounts, accounts'[a] # None, accounts'[a].tenant # None
      PROVE  /\ tenants'[accounts'[a].tenant].org = accounts'[a].email
             /\ <<accounts'[a].tenant, a>> \in admins'
             /\ accounts'[a].active <=> tenants'[accounts'[a].tenant].active
    <2>1. CASE accounts[a] # None
        <3>1. PICK t : t = accounts[a].tenant OBVIOUS
        <3>2. accounts'[a].tenant = t /\ t # None BY <1>3, <1>9, <2>1, <3>1
        <3>3. /\ t \in Tenants /\ tenants[t] # None /\ tenants[t].org = accounts[a].email
              /\ <<t, a>> \in admins /\ (accounts[a].active <=> tenants[t].active)
            BY <1>6, <2>1, <3>1, <3>2
        <3>4. p.pc = "mark" => (p.account = a <=> p.tenant = t)
            BY <1>8, <2>1, <3>1, <3>2
        <3> QED BY <1>3, <2>1, <3>2, <3>3, <3>4
    <2>2. CASE accounts[a] = None
        <3>1. Inserted(p) /\ a = p.account /\ accounts'[a] = Row(p.email, p.tenant)
            BY <1>3, <1>9, <2>2
        <3>2. /\ accounts'[a].email = p.email /\ accounts'[a].tenant = p.tenant
              /\ ~accounts'[a].active
            BY <3>1 DEF Row
        <3>3. p.tenant \in Tenants /\ p.org # None /\ p.org = p.email
            BY <1>3, <1>5, <1>9, <3>1, <3>2
        <3>4. tenants'[p.tenant].org = p.org /\ ~tenants'[p.tenant].active
            BY <1>3, <3>1, <3>3
        <3>5. <<p.tenant, a>> \in admins' BY <1>3, <3>1, <3>3
        <3> QED BY <3>2, <3>3, <3>4, <3>5
    <2> QED BY <2>1, <2>2
<1> QED BY <1>9 DEF ActivationAtomic, RowsAgree

LEMMA CommitProcess ==
    ASSUME OneProcess, ProcessInv, RegistrationInv', NEW r \in Requests,
           Persist(r) \/ Challenge(r) \/ Mark(r)
    PROVE  ProcessInv'
<1>1. PICK p : p = req[r] OBVIOUS
<1>2. ~Remote /\ RegistrationInv /\ TenantsOwned BY DEF OneProcess, ProcessInv
<1>3. \A a \in Accounts : accounts[a] # None =>
          /\ accounts'[a] # None /\ accounts'[a].email = accounts[a].email
          /\ accounts'[a].tenant = accounts[a].tenant
    BY <1>1, <1>2, CommitsWhole
<1>4. p \in RequestState /\ RequestFits(p) BY <1>1, <1>2 DEF RegistrationInv, TypeOK
<1>5. outcome' = outcome \/ outcome'.answer # "conflict"
    BY DEF Persist, Challenge, Mark, Finish
<1>6. CompletionsAgree'
    <2>1. CASE Persist(r)
        <3>1. PICK q : q = [p EXCEPT !.pc = "challenge"] OBVIOUS
        <3>2. q \in RequestState /\ q.pc = "challenge" BY <1>4, <3>1 DEF RequestState, Steps
        <3>3. req' = [req EXCEPT ![r] = q]
            BY <1>1, <1>2, <2>1, <3>1 DEF Persist, GoTo, RegistrationInv, TypeOK
        <3>4. ~Completes(q) BY <3>2 DEF Completes
        <3> QED BY <1>3, <3>2, <3>3, <3>4, CompletionsStay
    <2>2. CASE Challenge(r)
        <3>1. ~Completes(Idle) BY IdleFits DEF Completes
        <3>2. req' = [req EXCEPT ![r] = Idle] BY <2>2 DEF Challenge, Finish
        <3> QED BY <1>3, <3>1, <3>2, IdleFits, CompletionsStay
    <2>3. CASE Mark(r)
        <3>1. PICK q : q = [p EXCEPT !.pc = "greet"] OBVIOUS
        <3>2. /\ q \in RequestState /\ q.account = p.account /\ q.tenant = p.tenant
            BY <1>4, <3>1 DEF RequestState, Steps
        <3>3. req' = [req EXCEPT ![r] = q]
            BY <1>1, <1>2, <2>3, <3>1 DEF Mark, GoTo, RegistrationInv, TypeOK
        <3>4. /\ p.account \in Accounts /\ accounts[p.account] # None
              /\ p.tenant = accounts[p.account].tenant
            BY <1>1, <1>4, <2>3 DEF Mark, RequestFits, Completes, ProcessInv, CompletionsAgree
        <3>5. q.tenant = accounts'[q.account].tenant BY <1>3, <3>2, <3>4
        <3> QED BY <1>3, <3>2, <3>3, <3>5, CompletionsStay
    <2> QED BY <2>1, <2>2, <2>3
<1>7. ConflictsKnown' BY <1>3, <1>5, ConflictsStay
<1> QED BY <1>2, <1>6, <1>7, CommitOwned, CommitAgrees DEF ProcessInv

\* A registration is refused because the account is there, or an organization of that
\* email, which then has an account of it.
LEMMA BeginProcess ==
    ASSUME OneProcess, ProcessInv, RegistrationInv', NEW r \in Requests,
           NEW path \in Flows, NEW e \in Emails, NEW o \in Emails \union {None},
           Begin(r, path, e, o)
    PROVE  ProcessInv'
<1>1. /\ UNCHANGED tables /\ path \in {"individual", "organization"} /\ Accepts(path, e, o)
      /\ ~Remote /\ RegistrationInv /\ (path = "individual" => o = None)
      /\ (path = "organization" => o = e)
    BY DEF Begin, OneProcess, Accepts, Flows, ProcessInv
<1>2. CASE AccountsOf(e) # {} \/ TenantsOf(o) # {}
    <2>1. req' = [req EXCEPT ![r] = Idle] /\ outcome' = [path |-> path, email |-> e, answer |-> "conflict"]
        BY <1>1, <1>2 DEF Begin, Finish
    <2>2. AccountsOf(e) # {}
        <3> SUFFICES ASSUME TenantsOf(o) # {} PROVE AccountsOf(e) # {} BY <1>2
        <3>1. PICK t \in Tenants : tenants[t] # None /\ tenants[t].org = o BY DEF TenantsOf
        <3>2. o \in Emails
            BY <1>1, <3>1 DEF RegistrationInv, TypeOK, TenantRow
        <3>3. o = e BY <1>1, <3>2, NotNull
        <3>4. PICK a \in Accounts : <<t, a>> \in admins BY <3>1 DEF ProcessInv, TenantsOwned
        <3>5. PICK x \in admins : x = <<t, a>> BY <3>4
        <3>6. accounts[a] # None /\ accounts[a].tenant = t
            BY <3>5 DEF ProcessInv, TenantsOwned
        <3>7. t # None BY NotNull
        <3>8. accounts[a].email = o BY <3>1, <3>6, <3>7 DEF ProcessInv, RowsAgree
        <3> QED BY <3>3, <3>6, <3>8 DEF AccountsOf
    <2>3. ConflictsKnown' BY <1>1, <2>1, <2>2 DEF ConflictsKnown, AccountsOf, tables
    <2>4. ~Completes(Idle) BY IdleFits DEF Completes
    <2> QED BY <1>1, <2>1, <2>3, <2>4, IdleFits, TablesStay
<1>3. CASE ~(AccountsOf(e) # {} \/ TenantsOf(o) # {})
    <2>1. PICK pc : pc = IF o = None THEN "insert"
                         ELSE IF Remote /\ path = "organization" THEN "check" ELSE "create"
        OBVIOUS
    <2>2. PICK q : q = [Idle EXCEPT !.path = path, !.email = e, !.org = o, !.pc = pc]
        OBVIOUS
    <2>3. req' = [req EXCEPT ![r] = q] /\ outcome' = outcome
        BY <1>1, <1>3, <2>1, <2>2 DEF Begin
    <2>4. q \in RequestState /\ q.pc \in {"insert", "check", "create"}
        BY <2>1, <2>2, IdleFits DEF Idle, RequestState, Steps
    <2>5. ~Completes(q) BY <2>4 DEF Completes
    <2>6. ConflictsKnown' BY <1>1, <2>3, ConflictsStay DEF tables
    <2> QED BY <1>1, <2>3, <2>4, <2>5, <2>6, TablesStay
<1> QED BY <1>1, <1>2, <1>3 DEF Begin

\* The organization found by the email is that of the account.
LEMMA BeginCompleteProcess ==
    ASSUME OneProcess, ProcessInv, RegistrationInv', NEW r \in Requests, NEW e \in Emails,
           BeginComplete(r, e)
    PROVE  ProcessInv'
<1>1. UNCHANGED tables /\ ~Remote /\ RegistrationInv
    BY DEF BeginComplete, OneProcess, ProcessInv
<1>2. PICK a \in AccountsOf(e) :
          IF accounts[a].tenant # None /\ TenantsOf(e) = {}
          THEN Finish(r, "complete", e, "failed")
          ELSE /\ \E t \in IF accounts[a].tenant # None THEN TenantsOf(e) ELSE {None} :
                   req' = [req EXCEPT ![r] =
                      [Idle EXCEPT !.path = "complete", !.email = e, !.account = a,
                          !.tenant = t,
                          !.pc = IF accounts[a].tenant = None THEN "mark" ELSE "activate"]]
               /\ UNCHANGED outcome
    BY <1>1 DEF BeginComplete
<1>3. a \in Accounts /\ accounts[a] # None /\ accounts[a].email = e BY DEF AccountsOf
<1>4. CASE accounts[a].tenant # None /\ TenantsOf(e) = {}
    <2>1. req' = [req EXCEPT ![r] = Idle] /\ outcome'.answer # "conflict"
        BY <1>2, <1>4 DEF Finish
    <2>2. ConflictsKnown' BY <1>1, <2>1, ConflictsStay DEF tables
    <2>3. ~Completes(Idle) BY IdleFits DEF Completes
    <2> QED BY <1>1, <2>1, <2>2, <2>3, IdleFits, TablesStay
<1>5. CASE ~(accounts[a].tenant # None /\ TenantsOf(e) = {})
    <2>1. PICK pc : pc = IF accounts[a].tenant = None THEN "mark" ELSE "activate" OBVIOUS
    <2>2. PICK t \in IF accounts[a].tenant # None THEN TenantsOf(e) ELSE {None} :
              req' = [req EXCEPT ![r] =
                      [Idle EXCEPT !.path = "complete", !.email = e, !.account = a,
                          !.tenant = t, !.pc = pc]]
        BY <1>2, <1>5, <2>1
    <2>3. PICK q : q = [Idle EXCEPT !.path = "complete", !.email = e, !.account = a,
                          !.tenant = t, !.pc = pc]
        OBVIOUS
    <2>4. t \in Tenants \union {None} /\ pc \in {"mark", "activate"}
        BY <2>1, <2>2 DEF TenantsOf
    <2>5. q \in RequestState /\ q.tenant = t /\ q.account = a
        BY <1>3, <2>3, <2>4, IdleFits DEF Idle, RequestState, Steps
    <2>6. t = accounts[a].tenant
        <3>1. CASE accounts[a].tenant = None BY <2>2, <3>1
        <3>2. CASE accounts[a].tenant # None
            <4>1. PICK s : s = accounts[a].tenant OBVIOUS
            <4>2. accounts[a] \in AccountRow BY <1>1, <1>3 DEF RegistrationInv, TypeOK
            <4>3. s \in Tenants /\ tenants[s] # None /\ tenants[s].org = e
                BY <1>1, <1>3, <3>2, <4>1, <4>2
                DEF AccountRow, RegistrationInv, AccountsHaveTenant, ProcessInv, RowsAgree
            <4>4. t \in Tenants /\ tenants[t] # None /\ tenants[t].org = e
                BY <2>2, <3>2 DEF TenantsOf
            <4> QED BY <1>1, <4>1, <4>3, <4>4 DEF RegistrationInv, RowsUnique
        <3> QED BY <3>1, <3>2
    <2>7. req' = [req EXCEPT ![r] = q] /\ outcome' = outcome BY <1>2, <1>5, <2>2, <2>3
    <2>8. ConflictsKnown' BY <1>1, <2>7, ConflictsStay DEF tables
    <2> QED BY <1>1, <2>5, <2>6, <2>7, <2>8, TablesStay
<1> QED BY <1>4, <1>5

\* The other steps of a request that do not commit: they end it without a conflict, or go
\* on with the account and the organization they have.
LEMMA UncommittedProcess ==
    ASSUME OneProcess, ProcessInv, RegistrationInv', NEW r \in Requests,
           Step(r) \/ Fail(r) \/ Unanswered(r), ~(Persist(r) \/ Challenge(r) \/ Mark(r))
    PROVE  ProcessInv'
<1>1. PICK p : p = req[r] OBVIOUS
<1>2. /\ ~Remote /\ RegistrationInv /\ p \in RequestState /\ RequestFits(p)
      /\ req \in [Requests -> RequestState]
    BY <1>1 DEF OneProcess, ProcessInv, RegistrationInv, TypeOK
<1>3. UNCHANGED tables BY OthersLeaveTables
<1>4. ASSUME req' = [req EXCEPT ![r] = Idle], outcome'.answer # "conflict" PROVE ProcessInv'
    <2>1. ConflictsKnown' BY <1>3, <1>4, ConflictsStay DEF tables
    <2>2. ~Completes(Idle) BY IdleFits DEF Completes
    <2> QED BY <1>3, <1>4, <2>1, <2>2, IdleFits, TablesStay
<1>5. ASSUME NEW q \in RequestState, req' = [req EXCEPT ![r] = q], ~Completes(q),
             outcome' = outcome
      PROVE  ProcessInv'
    <2>1. ConflictsKnown' BY <1>3, <1>5, ConflictsStay DEF tables
    <2> QED BY <1>3, <1>5, <2>1, TablesStay
<1>6. CASE Create(r)
    <2>1. CASE TenantsOf(p.org) # {}
        BY <1>1, <1>2, <1>4, <1>6, <2>1 DEF Create, Refuse, Finish
    <2>2. CASE TenantsOf(p.org) = {}
        <3>1. PICK t \in FreeTenants :
                  /\ req' = [req EXCEPT ![r].pc = "insert", ![r].tenant = t]
                  /\ outcome' = outcome
            BY <1>1, <1>2, <1>6, <2>2 DEF Create
        <3>2. t \in Tenants BY DEF FreeTenants
        <3>3. PICK q : q = [p EXCEPT !.pc = "insert", !.tenant = t] OBVIOUS
        <3>4. q \in RequestState /\ q.pc = "insert"
            BY <1>2, <3>2, <3>3 DEF RequestState, Steps
        <3>5. req' = [req EXCEPT ![r] = q] BY <1>1, <1>2, <3>1, <3>3
        <3> QED BY <1>5, <3>1, <3>4, <3>5 DEF Completes
    <2> QED BY <2>1, <2>2
<1>7. CASE Insert(r)
    <2>1. CASE AccountsOf(p.email) # {}
        BY <1>1, <1>4, <1>7, <2>1 DEF Insert, Refuse, Finish
    <2>2. CASE AccountsOf(p.email) = {}
        <3>1. PICK pc : pc = IF p.org # None THEN "admin"
                             ELSE IF p.path = "individual" THEN "persist" ELSE "challenge"
            OBVIOUS
        <3>2. PICK a \in FreeAccounts :
                  req' = [req EXCEPT ![r].account = a, ![r].pc = pc] /\ outcome' = outcome
            BY <1>1, <1>7, <2>2, <3>1 DEF Insert
        <3>3. a \in Accounts /\ pc \in {"admin", "persist", "challenge"}
            BY <3>1 DEF FreeAccounts
        <3>4. PICK q : q = [p EXCEPT !.account = a, !.pc = pc] OBVIOUS
        <3>5. q \in RequestState /\ q.pc = pc BY <1>2, <3>3, <3>4 DEF RequestState, Steps
        <3>6. req' = [req EXCEPT ![r] = q] BY <1>1, <1>2, <3>2, <3>4
        <3> QED BY <1>5, <3>2, <3>3, <3>5, <3>6 DEF Completes
    <2> QED BY <2>1, <2>2
<1>8. CASE AddAdmin(r)
    <2>1. PICK pc : pc = IF p.path = "organization" THEN "persist" ELSE "challenge" OBVIOUS
    <2>2. PICK q : q = [p EXCEPT !.pc = pc] OBVIOUS
    <2>3. q \in RequestState /\ q.pc \in {"persist", "challenge"}
        BY <1>2, <2>1, <2>2 DEF RequestState, Steps
    <2>4. req' = [req EXCEPT ![r] = q] /\ outcome' = outcome
        BY <1>1, <1>2, <1>8, <2>1, <2>2 DEF AddAdmin, GoTo
    <2> QED BY <1>5, <2>3, <2>4 DEF Completes
<1>9. CASE Activate(r)
    <2>1. PICK q : q = [p EXCEPT !.pc = "mark"] OBVIOUS
    <2>2. q \in RequestState /\ q.account = p.account /\ q.tenant = p.tenant
        BY <1>2, <2>1 DEF RequestState, Steps
    <2>3. req' = [req EXCEPT ![r] = q] /\ outcome' = outcome
        BY <1>1, <1>2, <1>9, <2>1 DEF Activate, GoTo
    <2>4. p.tenant = accounts[p.account].tenant
        BY <1>1, <1>9 DEF Activate, Completes, ProcessInv, CompletionsAgree
    <2>5. ConflictsKnown' BY <1>3, <2>3, ConflictsStay DEF tables
    <2> QED BY <1>3, <2>2, <2>3, <2>4, <2>5, TablesStay
<1>10. CASE Greet(r) \/ Fail(r) BY <1>4, <1>10 DEF Greet, Fail, Finish
<1>11. ~(Check(r) \/ FindTenant(r) \/ Unanswered(r))
    BY <1>1, <1>2 DEF Check, FindTenant, Unanswered, RequestFits
<1> QED BY <1>6, <1>7, <1>8, <1>9, <1>10, <1>11 DEF Step

LEMMA StepProcess ==
    ASSUME OneProcess, ProcessInv, RegistrationInv', [Next]_vars
    PROVE  ProcessInv'
<1>1. ASSUME NEW r \in Requests, Start(r) PROVE ProcessInv'
    <2>1. CASE \E path \in Flows, e \in Emails, o \in Emails \union {None} : Begin(r, path, e, o)
        BY <2>1, BeginProcess
    <2>2. CASE \E e \in Emails : BeginComplete(r, e) BY <2>2, BeginCompleteProcess
    <2> QED BY <1>1, <2>1, <2>2 DEF Start
<1>2. CASE \E r \in Requests : Start(r) \/ Step(r) \/ Fail(r) \/ Unanswered(r)
    BY <1>1, <1>2, CommitProcess, UncommittedProcess
<1>3. ~\E e \in Emails : VerifyEmail(e) \/ ResendOtp(e)
    BY DEF OneProcess, VerifyEmail, ResendOtp
<1>4. ~\E a \in Accounts, o \in Emails : ChangeOrgEmail(a, o)
    BY DEF OneProcess, ChangeOrgEmail
<1>5. ~\E w \in writes : TenantCommit(w) \/ TenantLose(w)
    BY DEF OneProcess, TenantCommit, TenantLose
<1>6. CASE UNCHANGED vars
    <2>1. ConflictsKnown' BY <1>6, ConflictsStay DEF vars
    <2> QED BY <1>6, <2>1 DEF vars, ProcessInv, TenantsOwned, ActivationAtomic, RowsAgree,
                              CompletionsAgree, Completes
<1> QED BY <1>2, <1>3, <1>4, <1>5, <1>6 DEF Next

\* What holds of one process.
THEOREM ProcessFits == OneProcess => (Spec => []ProcessInv)
<1> SUFFICES ASSUME OneProcess PROVE Spec => []ProcessInv
    OBVIOUS
<1>1. Init => ProcessInv
    BY InitFits, IdleFits DEF Init, ProcessInv, TenantsOwned, ActivationAtomic, RowsAgree,
                              CompletionsAgree, Completes, ConflictsKnown
<1>2. ProcessInv /\ RegistrationInv' /\ [Next]_vars => ProcessInv' BY StepProcess
<1> QED BY <1>1, <1>2, RegistrationFits, PTL DEF Spec

\* In one process an administrator's account and the organization are active together or
\* not at all, whatever fails and however requests overlap.
THEOREM ActivationsAreAtomic == OneProcess => (Spec => []ActivationAtomic)
<1> SUFFICES ASSUME OneProcess PROVE Spec => []ActivationAtomic
    OBVIOUS
<1>1. ProcessInv => ActivationAtomic BY DEF ProcessInv
<1> QED BY <1>1, ProcessFits, PTL

\* In one process /auth/register answers 409 only for the email of an existing account.
THEOREM ConflictsAreAccounts == OneProcess => (Spec => ConflictMeansRegistered)
<1> SUFFICES ASSUME OneProcess PROVE Spec => ConflictMeansRegistered
    OBVIOUS
<1> DEFINE Known ==
        outcome'.path \in {"individual", "organization"} /\ outcome'.answer = "conflict"
            => AccountsOf(outcome.email)' # {}
<1>1. ProcessInv' /\ [Next]_vars => [Known]_vars BY DEF ProcessInv, ConflictsKnown
<1> QED BY <1>1, ProcessFits, PTL DEF Spec, ConflictMeansRegistered

----------------------------------------------------------------------------
(* The registry of accounts                                                *)

\* The stages of an email are those of its one account, whose organization, if it has one,
\* is at the same stage.
StagesFollow ==
    \A e \in Emails :
        /\ AccountsOf(e) = {} => StageOf(e) = "none" /\ OrgStageOf(e) = "none"
        /\ \A a \in AccountsOf(e) :
             /\ StageOf(e) = IF accounts[a].active THEN "active" ELSE "pending"
             /\ OrgStageOf(e) = IF accounts[a].tenant = None THEN "none" ELSE StageOf(e)

LEMMA StagesAre == ProcessInv => StagesFollow
<1> SUFFICES ASSUME ProcessInv, NEW e \in Emails
             PROVE  /\ AccountsOf(e) = {} => StageOf(e) = "none" /\ OrgStageOf(e) = "none"
                    /\ \A a \in AccountsOf(e) :
                         /\ StageOf(e) = IF accounts[a].active THEN "active" ELSE "pending"
                         /\ OrgStageOf(e) = IF accounts[a].tenant = None THEN "none"
                                            ELSE StageOf(e)
    BY DEF StagesFollow
<1> DEFINE linked == {t \in Tenants : tenants[t] # None /\
                        \E a \in AccountsOf(e) : <<t, a>> \in admins /\ accounts[a].tenant = t}
<1>1. OrgStageOf(e) = IF linked = {} THEN "none"
                      ELSE IF \A t \in linked : tenants[t].active THEN "active" ELSE "pending"
    BY DEF OrgStageOf
<1>2. AccountsOf(e) = {} => StageOf(e) = "none" /\ OrgStageOf(e) = "none"
    BY <1>1 DEF StageOf
<1>3. ASSUME NEW a \in AccountsOf(e)
      PROVE  /\ StageOf(e) = IF accounts[a].active THEN "active" ELSE "pending"
             /\ OrgStageOf(e) = IF accounts[a].tenant = None THEN "none" ELSE StageOf(e)
    <2>1. a \in Accounts /\ accounts[a] # None /\ accounts[a].email = e
        BY DEF AccountsOf
    <2>2. \A b \in AccountsOf(e) : b = a
        BY <2>1 DEF AccountsOf, ProcessInv, RegistrationInv, RowsUnique
    <2>3. StageOf(e) = IF accounts[a].active THEN "active" ELSE "pending"
        BY <2>2 DEF StageOf
    <2>4. accounts[a] \in AccountRow BY <2>1 DEF ProcessInv, RegistrationInv, TypeOK
    <2>5. CASE accounts[a].tenant = None
        <3>1. linked = {} BY <2>2, <2>5, NotNull
        <3> QED BY <1>1, <2>3, <2>5, <3>1
    <2>6. CASE accounts[a].tenant # None
        <3>1. PICK t : t = accounts[a].tenant OBVIOUS
        <3>2. /\ t \in Tenants /\ tenants[t] # None /\ <<t, a>> \in admins
              /\ accounts[a].active <=> tenants[t].active
            BY <2>1, <2>4, <2>6, <3>1
               DEF AccountRow, ProcessInv, RegistrationInv, AccountsHaveTenant, RowsAgree,
                   ActivationAtomic
        <3>3. linked = {t} BY <2>2, <3>1, <3>2
        <3> QED BY <1>1, <2>3, <2>6, <3>2, <3>3
    <2> QED BY <2>3, <2>5, <2>6
<1> QED BY <1>2, <1>3

LEMMA StagesAreNext == ProcessInv' => StagesFollow'
BY StagesAre, PTL

\* An email whose account stays as it is, or away, keeps its stages.
LEMMA SameStages ==
    ASSUME ProcessInv, ProcessInv', NEW e \in Emails, AccountsOf(e)' = AccountsOf(e),
           \A a \in AccountsOf(e) : /\ accounts'[a].active <=> accounts[a].active
                                    /\ accounts'[a].tenant = accounts[a].tenant
    PROVE  StageOf(e)' = StageOf(e) /\ OrgStageOf(e)' = OrgStageOf(e)
<1>1. StagesFollow /\ StagesFollow' BY StagesAre, StagesAreNext
<1>2. CASE AccountsOf(e) = {} BY <1>1, <1>2 DEF StagesFollow
<1>3. CASE AccountsOf(e) # {}
    <2>1. PICK a \in AccountsOf(e) : TRUE BY <1>3
    <2>2. a \in AccountsOf(e)' BY <2>1
    <2>3. /\ StageOf(e)' = IF accounts'[a].active THEN "active" ELSE "pending"
          /\ OrgStageOf(e)' = IF accounts'[a].tenant = None THEN "none" ELSE StageOf(e)'
        BY <1>1, <2>2 DEF StagesFollow
    <2>4. /\ StageOf(e) = IF accounts[a].active THEN "active" ELSE "pending"
          /\ OrgStageOf(e) = IF accounts[a].tenant = None THEN "none" ELSE StageOf(e)
        BY <1>1, <2>1 DEF StagesFollow
    <2> QED BY <2>1, <2>3, <2>4
<1> QED BY <1>2, <1>3

\* Rows that keep email, activity and tenant keep all stages.
LEMMA SameRegistry ==
    ASSUME ProcessInv, ProcessInv',
           \A a \in Accounts : (accounts'[a] # None <=> accounts[a] # None),
           \A a \in Accounts : accounts[a] # None =>
               /\ accounts'[a].email = accounts[a].email
               /\ accounts'[a].tenant = accounts[a].tenant
               /\ accounts'[a].active <=> accounts[a].active
    PROVE  /\ [e \in Emails |-> StageOf(e)]' = [e \in Emails |-> StageOf(e)]
           /\ [e \in Emails |-> OrgStageOf(e)]' = [e \in Emails |-> OrgStageOf(e)]
<1>1. ASSUME NEW e \in Emails
      PROVE  StageOf(e)' = StageOf(e) /\ OrgStageOf(e)' = OrgStageOf(e)
    <2>1. AccountsOf(e)' = AccountsOf(e) BY DEF AccountsOf
    <2>2. \A a \in AccountsOf(e) : /\ accounts'[a].active <=> accounts[a].active
                                   /\ accounts'[a].tenant = accounts[a].tenant
        BY DEF AccountsOf
    <2> QED BY <2>1, <2>2, SameStages
<1> QED BY <1>1

\* The emails of the other accounts.
LEMMA OtherStages ==
    ASSUME ProcessInv, ProcessInv', NEW b \in Accounts, accounts'[b] # None,
           accounts[b] # None => accounts'[b].email = accounts[b].email,
           \A a \in Accounts \ {b} : (accounts'[a] # None <=> accounts[a] # None),
           \A a \in Accounts \ {b} : accounts[a] # None =>
               /\ accounts'[a].email = accounts[a].email
               /\ accounts'[a].tenant = accounts[a].tenant
               /\ accounts'[a].active <=> accounts[a].active,
           NEW e \in Emails, e # accounts'[b].email
    PROVE  StageOf(e)' = StageOf(e) /\ OrgStageOf(e)' = OrgStageOf(e)
<1>1. AccountsOf(e)' = AccountsOf(e) BY DEF AccountsOf
<1>2. \A a \in AccountsOf(e) : /\ accounts'[a].active <=> accounts[a].active
                               /\ accounts'[a].tenant = accounts[a].tenant
    BY DEF AccountsOf
<1> QED BY <1>1, <1>2, SameStages

\* The commit of a registration registers the email.
LEMMA RegistersEmail ==
    ASSUME OneProcess, ProcessInv, ProcessInv', NEW r \in Requests,
           Persist(r) \/ Challenge(r), Inserted(req[r])
    PROVE  Registry!Register(req[r].email)
<1>1. PICK p : p = req[r] OBVIOUS
<1>2. ~Remote /\ RegistrationInv /\ p.pc # "mark" /\ Inserted(p)
    BY <1>1 DEF OneProcess, ProcessInv, Persist, Challenge
<1>3. /\ \A a \in Accounts : accounts[a] = None =>
             IF Inserted(p) /\ a = p.account
             THEN accounts'[a] = Row(p.email, p.tenant) /\ AccountsOf(p.email) = {}
             ELSE accounts'[a] = None
      /\ \A a \in Accounts : accounts[a] # None =>
             /\ accounts'[a] # None /\ ~(Inserted(p) /\ a = p.account)
             /\ accounts'[a].email = accounts[a].email
             /\ accounts'[a].tenant = accounts[a].tenant
             /\ accounts'[a].active <=> accounts[a].active \/ (p.pc = "mark" /\ p.account = a)
      /\ p.account \in Accounts /\ p.email \in Emails /\ p.tenant \in Tenants \union {None}
    BY <1>1, <1>2, CommitsWhole
<1>4. PICK b \in Accounts : b = p.account BY <1>3
<1>5. accounts[b] = None /\ accounts'[b] = Row(p.email, p.tenant) /\ AccountsOf(p.email) = {}
    BY <1>2, <1>3, <1>4
<1>6. /\ accounts'[b].email = p.email /\ accounts'[b].tenant = p.tenant
      /\ ~accounts'[b].active /\ accounts'[b] # None
    <2>1. PICK row : row = Row(p.email, p.tenant) OBVIOUS
    <2>2. row \in AccountRow /\ row.email = p.email /\ row.tenant = p.tenant /\ ~row.active
        BY <1>3, <2>1 DEF Row, AccountRow
    <2> QED BY <1>5, <2>1, <2>2, NotNull
<1>7. \A e \in Emails : e # p.email => StageOf(e)' = StageOf(e) /\ OrgStageOf(e)' = OrgStageOf(e)
    BY <1>2, <1>3, <1>4, <1>5, <1>6, OtherStages
<1>8. StageOf(p.email) = "none" BY <1>3, <1>5, StagesAre DEF StagesFollow
<1>9. StageOf(p.email)' = "pending" /\ OrgStageOf(p.email)' \in {"none", "pending"}
    <2>1. b \in AccountsOf(p.email)' BY <1>6 DEF AccountsOf
    <2> QED BY <1>3, <1>6, <2>1, StagesAreNext DEF StagesFollow
<1>10. [e \in Emails |-> StageOf(e)]' =
           [[e \in Emails |-> StageOf(e)] EXCEPT ![p.email] = "pending"]
    BY <1>3, <1>7, <1>9
<1>11. PICK s \in {"none", "pending"} : s = OrgStageOf(p.email)' BY <1>9
<1>12. [e \in Emails |-> OrgStageOf(e)]' =
           [[e \in Emails |-> OrgStageOf(e)] EXCEPT ![p.email] = s]
    BY <1>3, <1>7, <1>11
<1> QED BY <1>1, <1>3, <1>8, <1>10, <1>11, <1>12 DEF Registry!Register

\* The commit of a completion activates the email, or has nothing to change.
LEMMA ActivatesEmail ==
    ASSUME OneProcess, ProcessInv, ProcessInv', NEW r \in Requests, Mark(r)
    PROVE  \/ Registry!Activate(req[r].email)
           \/ /\ [e \in Emails |-> StageOf(e)]' = [e \in Emails |-> StageOf(e)]
              /\ [e \in Emails |-> OrgStageOf(e)]' = [e \in Emails |-> OrgStageOf(e)]
<1>1. PICK p : p = req[r] OBVIOUS
<1>2. ~Remote /\ RegistrationInv /\ p.pc = "mark" /\ ~Inserted(p) /\ RequestFits(p)
    BY <1>1 DEF OneProcess, ProcessInv, Mark, Inserted, RegistrationInv
<1>3. /\ \A a \in Accounts : accounts[a] = None => accounts'[a] = None
      /\ \A a \in Accounts : accounts[a] # None =>
             /\ accounts'[a] # None
             /\ accounts'[a].email = accounts[a].email
             /\ accounts'[a].tenant = accounts[a].tenant
             /\ accounts'[a].active <=> accounts[a].active \/ p.account = a
    BY <1>1, <1>2, CommitsWhole
<1>4. PICK b \in Accounts : b = p.account /\ accounts[b] # None /\ accounts[b].email = p.email
    BY <1>2 DEF RequestFits, Completes
<1>5. p.email \in Emails BY <1>2, <1>4 DEF RegistrationInv, TypeOK, AccountRow
<1>6. CASE accounts[b].active
    <2>1. \A a \in Accounts : accounts[a] # None =>
              (accounts'[a].active <=> accounts[a].active)
        BY <1>3, <1>4, <1>6
    <2> QED BY <1>3, <2>1, SameRegistry
<1>7. CASE ~accounts[b].active
    <2>1. \A e \in Emails : e # p.email =>
              StageOf(e)' = StageOf(e) /\ OrgStageOf(e)' = OrgStageOf(e)
        BY <1>3, <1>4, OtherStages
    <2>2. b \in AccountsOf(p.email) /\ b \in AccountsOf(p.email)' /\ accounts'[b].active
        BY <1>3, <1>4 DEF AccountsOf
    <2>3. /\ StageOf(p.email) = "pending"
          /\ OrgStageOf(p.email) = IF accounts[b].tenant = None THEN "none" ELSE "pending"
        BY <1>5, <1>7, <2>2, StagesAre DEF StagesFollow
    <2>4. /\ StageOf(p.email)' = "active"
          /\ OrgStageOf(p.email)' = IF accounts[b].tenant = None THEN "none" ELSE "active"
        BY <1>3, <1>4, <1>5, <2>2, StagesAreNext DEF StagesFollow
    <2>5. OrgStageOf(p.email)' = IF OrgStageOf(p.email) = "pending" THEN "active"
                                 ELSE OrgStageOf(p.email)
        BY <2>3, <2>4
    <2>6. [e \in Emails |-> StageOf(e)]' =
              [[e \in Emails |-> StageOf(e)] EXCEPT ![p.email] = "active"]
        BY <1>5, <2>1, <2>4
    <2>7. PICK s : s = OrgStageOf(p.email)' OBVIOUS
    <2>8. [e \in Emails |-> OrgStageOf(e)]' =
              [[e \in Emails |-> OrgStageOf(e)] EXCEPT ![p.email] =
                  IF @ = "pending" THEN "active" ELSE @]
        BY <1>5, <2>1, <2>5
    <2> QED BY <1>1, <1>5, <2>3, <2>6, <2>8 DEF Registry!Activate
<1> QED BY <1>6, <1>7

LEMMA RegistryStep ==
    ASSUME OneProcess, ProcessInv, ProcessInv', [Next]_vars
    PROVE  \/ Registry!Next
           \/ /\ [e \in Emails |-> StageOf(e)]' = [e \in Emails |-> StageOf(e)]
              /\ [e \in Emails |-> OrgStageOf(e)]' = [e \in Emails |-> OrgStageOf(e)]
<1>1. CASE UNCHANGED tables BY <1>1, SameRegistry DEF tables
<1>2. ASSUME NEW r \in Requests, Persist(r) \/ Challenge(r)
      PROVE  \/ Registry!Next
             \/ /\ [e \in Emails |-> StageOf(e)]' = [e \in Emails |-> StageOf(e)]
                /\ [e \in Emails |-> OrgStageOf(e)]' = [e \in Emails |-> OrgStageOf(e)]
    <2>1. CASE Inserted(req[r])
        <3>1. Registry!Register(req[r].email) BY <1>2, <2>1, RegistersEmail
        <3>2. req[r].email \in Emails
            BY <2>1 DEF ProcessInv, RegistrationInv, RequestFits, Inserted, Registers
        <3> QED BY <3>1, <3>2 DEF Registry!Next
    <2>2. CASE ~Inserted(req[r])
        <3>1. PICK p : p = req[r] OBVIOUS
        <3>2. ~Remote /\ RegistrationInv /\ p.pc # "mark"
            BY <1>2, <3>1 DEF OneProcess, ProcessInv, Persist, Challenge
        <3>3. /\ \A a \in Accounts : accounts[a] = None => accounts'[a] = None
              /\ \A a \in Accounts : accounts[a] # None =>
                     /\ accounts'[a] # None
                     /\ accounts'[a].email = accounts[a].email
                     /\ accounts'[a].tenant = accounts[a].tenant
                     /\ accounts'[a].active <=> accounts[a].active
            BY <1>2, <2>2, <3>1, <3>2, CommitsWhole
        <3> QED BY <3>3, SameRegistry
    <2> QED BY <2>1, <2>2
<1>3. ASSUME NEW r \in Requests, Mark(r)
      PROVE  \/ Registry!Next
             \/ /\ [e \in Emails |-> StageOf(e)]' = [e \in Emails |-> StageOf(e)]
                /\ [e \in Emails |-> OrgStageOf(e)]' = [e \in Emails |-> OrgStageOf(e)]
    <2>1. req[r].email \in Emails
        BY <1>3 DEF Mark, ProcessInv, RegistrationInv, TypeOK, AccountRow, RequestFits, Completes
    <2> QED BY <1>3, <2>1, ActivatesEmail DEF Registry!Next
<1>4. CASE \E r \in Requests : Start(r) \/ Step(r) \/ Fail(r) \/ Unanswered(r)
    BY <1>1, <1>2, <1>3, <1>4, OthersLeaveTables
<1>5. ~\E e \in Emails : VerifyEmail(e) \/ ResendOtp(e)
    BY DEF OneProcess, VerifyEmail, ResendOtp
<1>6. ~\E a \in Accounts, o \in Emails : ChangeOrgEmail(a, o)
    BY DEF OneProcess, ChangeOrgEmail
<1>7. ~\E w \in writes : TenantCommit(w) \/ TenantLose(w)
    BY DEF OneProcess, TenantCommit, TenantLose
<1>8. CASE UNCHANGED vars BY <1>1, <1>8 DEF vars, tables
<1> QED BY <1>4, <1>5, <1>6, <1>7, <1>8 DEF Next

\* One process keeps the registry of accounts: an email's account appears with its
\* organization, and becomes active with it, each in one step.
THEOREM ProcessIsRegistry == OneProcess => (Spec => ImplementsAccountRegistry)
<1> SUFFICES ASSUME OneProcess PROVE Spec => Registry!Spec
    BY DEF ImplementsAccountRegistry
<1>1. Init => Registry!Init
    BY DEF Init, Registry!Init, StageOf, OrgStageOf, AccountsOf
<1>2. ProcessInv /\ ProcessInv' /\ [Next]_vars =>
          [Registry!Next]_<<[e \in Emails |-> StageOf(e)], [e \in Emails |-> OrgStageOf(e)]>>
    BY RegistryStep
<1> QED BY <1>1, <1>2, ProcessFits, PTL DEF Spec, Registry!Spec
=============================================================================
