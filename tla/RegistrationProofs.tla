-------------------------- MODULE RegistrationProofs --------------------------
(***************************************************************************)
(* Theorems of Registration for any number of emails, rows, overlapping    *)
(* requests and faults, with their proofs.                                 *)
(*                                                                         *)
(* What an open transaction will write follows from where its request is   *)
(* (Journal), and the unique indexes keep open transactions apart          *)
(* (WritesDistinct) and away from committed rows (WriteFits).              *)
(***************************************************************************)
EXTENDS Registration, FiniteSetTheorems, TLAPS

----------------------------------------------------------------------------
(* The constants of the specification                                      *)

\* The values rows are made of are not the null value.
LEMMA NotNull ==
    /\ \A x \in AccountRow \union TenantRow : x # None
    /\ \A x \in Emails \union Accounts \union Tenants : x # None
BY NoneAssumption, ConstantsAssumption DEF Emails

\* A request that does nothing fits and has nothing to write.
LEMMA IdleFits ==
    /\ Idle \in RequestState /\ RequestFits(Idle) /\ Idle.pc = "idle"
    /\ Idle.path = "complete"
    /\ \A r \in Requests : Journal(r, Idle) = {}
<1>1. /\ Idle \in RequestState /\ Idle.pc = "idle" /\ ~Registers(Idle) /\ ~Completes(Idle)
      /\ ~Inserted(Idle) /\ Idle.org = None /\ Idle.path = "complete"
    BY DEF Idle, RequestState, Steps, Registers, Completes, Inserted
<1>2. RequestFits(Idle) BY <1>1 DEF RequestFits
<1>3. \A r \in Requests : Journal(r, Idle) = {} BY <1>1 DEF Journal, Founded
<1> QED BY <1>1, <1>2, <1>3

\* What a write is made of.
LEMMA WriteIs ==
    ASSUME NEW r \in Requests, NEW op \in LocalOps \union {"tenant", "admin", "activate"},
           NEW e \in Emails, NEW a \in Accounts \union {None}, NEW t \in Tenants \union {None}
    PROVE  /\ WriteOf(r, op, e, a, t) \in Write
           /\ WriteOf(r, op, e, a, t).by = r /\ WriteOf(r, op, e, a, t).op = op
           /\ WriteOf(r, op, e, a, t).email = e /\ WriteOf(r, op, e, a, t).account = a
           /\ WriteOf(r, op, e, a, t).tenant = t
BY DEF WriteOf, Write

----------------------------------------------------------------------------
(* Steps that leave the tables alone                                       *)

\* A step of request r that drops its transaction or goes on with it, and may add a write
\* that no open transaction contradicts.
LEMMA RequestStep ==
    ASSUME RegistrationInv, NEW r \in Requests, NEW q \in RequestState,
           NEW base \in {writes, writes \ Own(r)}, NEW new \in SUBSET Write,
           req' = [req EXCEPT ![r] = q], writes' = base \union new,
           UNCHANGED tables,
           challenges' \subseteq Emails, verifiable' \subseteq Emails, faults' \in 0..MaxFaults,
           \A w \in new : w.by = r /\ WriteFits(w)',
           \A v, w \in new : v = w,
           \A v \in writes, w \in new :
               /\ v.op = "account" /\ w.op = "account" =>
                      v.email # w.email /\ v.account # w.account
               /\ v.op = "tenant" /\ w.op = "tenant" =>
                      v.email # w.email /\ v.tenant # w.tenant,
           RequestFits(q), Own(r)' = Journal(r, q)
    PROVE  RegistrationInv'
<1>1. accounts' = accounts /\ tenants' = tenants /\ admins' = admins BY DEF tables
<1>2. TypeOK' BY <1>1 DEF RegistrationInv, TypeOK
<1>3. RowsUnique' /\ AccountsHaveTenant'
    BY <1>1 DEF RegistrationInv, RowsUnique, AccountsHaveTenant
<1>4. WritesDistinct' BY DEF RegistrationInv, WritesDistinct
<1>5. ASSUME NEW w \in writes' PROVE WriteFits(w)'
    <2>1. CASE w \in new BY <2>1
    <2>2. CASE w \in base
        <3>1. w \in writes /\ WriteFits(w) BY <2>2 DEF RegistrationInv
        <3>2. ASSUME ~Remote, NEW v \in writes, v.by = w.by PROVE v \in writes'
            BY <2>2, <3>1, <3>2 DEF Own
        <3>3. AccountsOf(w.email)' = AccountsOf(w.email)
              /\ TenantsOf(w.email)' = TenantsOf(w.email)
            BY <1>1 DEF AccountsOf, TenantsOf
        <3>4. w.op = "account" /\ w.tenant # None =>
                  \/ Remote /\ tenants'[w.tenant] # None
                  \/ ~Remote /\ \E v \in writes' :
                       v.op = "tenant" /\ v.by = w.by /\ v.tenant = w.tenant
            BY <1>1, <3>1, <3>2 DEF WriteFits
        <3> QED BY <1>1, <3>1, <3>3, <3>4 DEF WriteFits
    <2> QED BY <2>1, <2>2
<1>6. ASSUME NEW s \in Requests PROVE RequestFits(req[s])' /\ Own(s)' = Journal(s, req'[s])
    <2>1. CASE s = r
        <3>1. req'[s] = q BY <2>1 DEF RegistrationInv, TypeOK
        <3>2. RequestFits(q)' BY <1>1 DEF RequestFits
        <3>3. RequestFits(req[s])' BY <3>1, <3>2
        <3> QED BY <2>1, <3>1, <3>3
    <2>2. CASE s # r
        <3>1. PICK p : p = req[s] OBVIOUS
        <3>2. req'[s] = p BY <2>2, <3>1 DEF RegistrationInv, TypeOK
        <3>3. RequestFits(p) /\ Own(s) = Journal(s, p) BY <3>1 DEF RegistrationInv
        <3>4. RequestFits(p)' BY <1>1, <3>3 DEF RequestFits
        <3>5. Own(s)' = Own(s) BY <2>2 DEF Own
        <3> QED BY <3>2, <3>3, <3>4, <3>5
    <2> QED BY <2>1, <2>2
<1>7. \A s \in Requests : RequestFits(req[s])' /\ Own(s)' = Journal(s, req[s])'
    BY <1>6 DEF Journal, Founded, Inserted
<1> QED BY <1>2, <1>3, <1>4, <1>5, <1>7 DEF RegistrationInv

\* A request ends without a commit.
LEMMA Dropped ==
    ASSUME RegistrationInv, NEW r \in Requests, req' = [req EXCEPT ![r] = Idle],
           writes' = writes \ Own(r), UNCHANGED <<tables, codes>>, faults' \in 0..MaxFaults
    PROVE  RegistrationInv'
<1>1. Own(r)' = {} BY DEF Own
<1>2. Own(r)' = Journal(r, Idle) BY <1>1, IdleFits
<1>3. challenges' \subseteq Emails /\ verifiable' \subseteq Emails
    BY DEF RegistrationInv, TypeOK, codes
<1>4. PICK base \in {writes, writes \ Own(r)}, new \in SUBSET Write :
          base = writes \ Own(r) /\ new = {}
    OBVIOUS
<1>5. writes' = base \union new BY <1>4
<1> QED BY <1>2, <1>3, <1>4, <1>5, IdleFits, RequestStep

\* A request goes on without a write.
LEMMA Moved ==
    ASSUME RegistrationInv, NEW r \in Requests, NEW q \in RequestState,
           req' = [req EXCEPT ![r] = q], UNCHANGED <<tables, writes, codes, faults>>,
           RequestFits(q), Journal(r, q) = Journal(r, req[r])
    PROVE  RegistrationInv'
<1>1. Own(r)' = Own(r) BY DEF Own
<1>2. Own(r)' = Journal(r, q) BY <1>1 DEF RegistrationInv
<1>3. challenges' \subseteq Emails /\ verifiable' \subseteq Emails /\ faults' \in 0..MaxFaults
    BY DEF RegistrationInv, TypeOK, codes
<1>4. PICK base \in {writes, writes \ Own(r)}, new \in SUBSET Write :
          base = writes /\ new = {}
    OBVIOUS
<1>5. writes' = base \union new BY <1>4
<1> QED BY <1>2, <1>3, <1>4, <1>5, RequestStep

LEMMA RefuseKeeps ==
    ASSUME RegistrationInv, NEW r \in Requests, NEW answer, Refuse(r, answer)
    PROVE  RegistrationInv'
<1>1. faults' \in 0..MaxFaults BY DEF Refuse, RegistrationInv, TypeOK
<1> QED BY <1>1, Dropped DEF Refuse, Finish

LEMMA FailKeeps ==
    ASSUME RegistrationInv, NEW r \in Requests, Fail(r)
    PROVE  RegistrationInv'
<1>1. faults' \in 0..MaxFaults
    BY ConstantsAssumption DEF Fail, Fault, RegistrationInv, TypeOK
<1> QED BY <1>1, Dropped DEF Fail, Finish

LEMMA BeginKeeps ==
    ASSUME RegistrationInv, NEW r \in Requests, NEW path \in Flows, NEW e \in Emails,
           NEW o \in Emails \union {None}, Begin(r, path, e, o)
    PROVE  RegistrationInv'
<1>1. req[r] = Idle /\ path \in Paths /\ Accepts(path, e, o)
    BY DEF Begin, RegistrationInv, RequestFits
<1>2. Journal(r, req[r]) = {} BY <1>1, IdleFits
<1>3. UNCHANGED <<tables, writes, codes, faults>> BY DEF Begin
<1>4. CASE AccountsOf(e) # {} \/ (~Remote /\ TenantsOf(o) # {})
    <2>1. req' = [req EXCEPT ![r] = Idle] BY <1>4 DEF Begin, Finish
    <2> QED BY <1>2, <1>3, <2>1, IdleFits, Moved
<1>5. CASE ~(AccountsOf(e) # {} \/ (~Remote /\ TenantsOf(o) # {}))
    <2>1. PICK pc : pc = IF o = None THEN "insert"
                         ELSE IF Remote /\ path = "organization" THEN "check" ELSE "create"
        OBVIOUS
    <2>2. PICK q : q = [Idle EXCEPT !.path = path, !.email = e, !.org = o, !.pc = pc]
        OBVIOUS
    <2>3. req' = [req EXCEPT ![r] = q] BY <1>5, <2>1, <2>2 DEF Begin
    <2>4. pc \in {"insert", "check", "create"} BY <2>1
    <2>5. /\ q.pc = pc /\ q.path = path /\ q.email = e /\ q.org = o
          /\ q.account = None /\ q.tenant = None /\ q \in RequestState
        BY <2>2, <2>4, IdleFits DEF Idle, RequestState, Steps
    <2>6. RequestFits(q)
        <3>1. ~Completes(q) /\ ~Inserted(q) BY <2>4, <2>5 DEF Completes, Inserted
        <3>2. pc = "insert" <=> o = None BY <2>1
        <3>3. pc = "check" => Remote BY <2>1
        <3> QED BY <1>1, <2>4, <2>5, <3>1, <3>2, <3>3 DEF RequestFits
    <2>7. Journal(r, q) = {}
        <3>1. ~Founded(q) /\ ~Inserted(q) /\ q.pc # "mark"
            BY <2>1, <2>4, <2>5 DEF Founded, Inserted
        <3> QED BY <3>1 DEF Journal
    <2> QED BY <1>2, <1>3, <2>3, <2>5, <2>6, <2>7, Moved
<1> QED BY <1>4, <1>5

LEMMA CheckKeeps ==
    ASSUME RegistrationInv, NEW r \in Requests, Check(r)
    PROVE  RegistrationInv'
<1>1. CASE TenantsOf(req[r].org) # {} BY <1>1, RefuseKeeps DEF Check
<1>2. CASE TenantsOf(req[r].org) = {}
    <2>1. PICK p : p = req[r] OBVIOUS
    <2>2. PICK q : q = [p EXCEPT !.pc = "create"] OBVIOUS
    <2>3. p \in RequestState /\ RequestFits(p) /\ p.pc = "check"
        BY <2>1 DEF RegistrationInv, TypeOK, Check
    <2>4. /\ q \in RequestState /\ q.pc = "create" /\ q.path = p.path /\ q.email = p.email
          /\ q.org = p.org /\ q.account = p.account /\ q.tenant = p.tenant
        BY <2>2, <2>3 DEF RequestState, Steps
    <2>5. req' = [req EXCEPT ![r] = q] /\ UNCHANGED <<tables, writes, codes, faults>>
        BY <1>2, <2>1, <2>2 DEF Check, GoTo, RegistrationInv, TypeOK
    <2>6. RequestFits(q)
        BY <2>3, <2>4 DEF RequestFits, Registers, Completes, Inserted
    <2>7. Journal(r, q) = {} /\ Journal(r, p) = {}
        BY <2>3, <2>4 DEF Journal, Founded, Inserted
    <2> QED BY <2>1, <2>4, <2>5, <2>6, <2>7, Moved
<1> QED BY <1>1, <1>2

LEMMA FindTenantKeeps ==
    ASSUME RegistrationInv, NEW r \in Requests, FindTenant(r)
    PROVE  RegistrationInv'
<1>1. PICK p : p = req[r] OBVIOUS
<1>2. p \in RequestState /\ RequestFits(p) /\ p.pc \in {"find", "own"}
    BY <1>1 DEF RegistrationInv, TypeOK, FindTenant
<1>3. PICK found : found = TenantsOf(IF p.pc = "find" THEN p.org ELSE p.email) OBVIOUS
<1>4. CASE found = {}
    <2>1. Refuse(r, "failed") BY <1>1, <1>3, <1>4 DEF FindTenant
    <2> QED BY <2>1, RefuseKeeps
<1>5. CASE found # {}
    <2>1. PICK pc : pc = IF p.pc = "find" THEN "insert" ELSE "activate" OBVIOUS
    <2>2. PICK t \in found : req' = [req EXCEPT ![r].tenant = t, ![r].pc = pc]
        <3>1. req[r].pc = p.pc BY <1>1
        <3>2. req \in [Requests -> RequestState] BY DEF RegistrationInv, TypeOK
        <3> QED BY <1>1, <1>3, <1>5, <2>1, <3>1, <3>2 DEF FindTenant
    <2>3. t \in Tenants /\ tenants[t] # None BY <1>3, <2>2 DEF TenantsOf
    <2>4. UNCHANGED <<tables, writes, codes, faults>> BY <1>1, <1>3, <1>5 DEF FindTenant
    <2>5. PICK q : q = [p EXCEPT !.tenant = t, !.pc = pc] OBVIOUS
    <2>6. req' = [req EXCEPT ![r] = q]
        BY <1>1, <2>2, <2>5 DEF RegistrationInv, TypeOK, RequestState
    <2>7. /\ q \in RequestState /\ q.pc = pc /\ q.tenant = t /\ q.path = p.path
          /\ q.email = p.email /\ q.org = p.org /\ q.account = p.account
        BY <1>2, <2>1, <2>3, <2>5 DEF RequestState, Steps
    <2>8. Remote BY <1>2 DEF RequestFits
    <2>9. RequestFits(q)
        <3>1. CASE p.pc = "find"
            <4>1. Registers(p) /\ p.org \in Emails BY <1>2, <3>1 DEF RequestFits, Registers
            <4>2. p.org # None BY <4>1, NotNull
            <4> QED BY <1>2, <2>1, <2>3, <2>7, <3>1, <4>1, <4>2
                    DEF RequestFits, Registers, Completes, Inserted
        <3>2. CASE p.pc = "own"
            BY <1>2, <2>1, <2>3, <2>7, <3>2 DEF RequestFits, Registers, Completes, Inserted
        <3> QED BY <1>2, <3>1, <3>2
    <2>10. Journal(r, q) = {} /\ Journal(r, p) = {}
        BY <1>2, <2>1, <2>7, <2>8 DEF Journal, Founded, Inserted
    <2> QED BY <1>1, <2>4, <2>6, <2>7, <2>9, <2>10, Moved
<1> QED BY <1>4, <1>5

LEMMA BeginCompleteKeeps ==
    ASSUME RegistrationInv, NEW r \in Requests, NEW e \in Emails, BeginComplete(r, e)
    PROVE  RegistrationInv'
<1>1. req[r] = Idle BY DEF BeginComplete, RegistrationInv, RequestFits
<1>2. Journal(r, req[r]) = {} BY <1>1, IdleFits
<1>3. UNCHANGED <<tables, writes, codes, faults>> BY DEF BeginComplete
<1>4. CASE req' = [req EXCEPT ![r] = Idle] BY <1>2, <1>3, <1>4, IdleFits, Moved
<1>5. CASE \E a \in AccountsOf(e), t \in Tenants \union {None} :
               /\ t = None => accounts[a].tenant = None \/ Remote
               /\ t # None => t \in TenantsOf(e) /\ ~Remote /\ accounts[a].tenant # None
               /\ req' = [req EXCEPT ![r] =
                      [Idle EXCEPT !.path = "complete", !.email = e, !.account = a,
                          !.tenant = t,
                          !.pc = IF accounts[a].tenant = None THEN "mark"
                                 ELSE IF Remote THEN "own" ELSE "activate"]]
    <2>1. PICK a \in AccountsOf(e), t \in Tenants \union {None} :
               /\ t = None => accounts[a].tenant = None \/ Remote
               /\ t # None => t \in TenantsOf(e) /\ ~Remote /\ accounts[a].tenant # None
               /\ req' = [req EXCEPT ![r] =
                      [Idle EXCEPT !.path = "complete", !.email = e, !.account = a,
                          !.tenant = t,
                          !.pc = IF accounts[a].tenant = None THEN "mark"
                                 ELSE IF Remote THEN "own" ELSE "activate"]]
        BY <1>5
    <2>2. a \in Accounts /\ accounts[a] # None /\ accounts[a].email = e
        BY <2>1 DEF AccountsOf
    <2>3. PICK pc : pc = IF accounts[a].tenant = None THEN "mark"
                         ELSE IF Remote THEN "own" ELSE "activate"
        OBVIOUS
    <2>4. PICK q : q = [Idle EXCEPT !.path = "complete", !.email = e, !.account = a,
                                    !.tenant = t, !.pc = pc]
        OBVIOUS
    <2>5. req' = [req EXCEPT ![r] = q] BY <2>1, <2>3, <2>4
    <2>6. pc \in {"mark", "own", "activate"} BY <2>3
    <2>7. /\ q \in RequestState /\ q.pc = pc /\ q.tenant = t /\ q.path = "complete"
          /\ q.email = e /\ q.org = None /\ q.account = a
        BY <2>2, <2>4, <2>6, IdleFits DEF Idle, RequestState, Steps
    <2>8. pc = "own" => Remote BY <2>3
    <2>9. pc = "activate" => t \in Tenants /\ tenants[t] # None
        BY <2>1, <2>3 DEF TenantsOf
    <2>10. RequestFits(q)
        BY <2>2, <2>6, <2>7, <2>8, <2>9 DEF RequestFits, Registers, Completes, Inserted
    <2>11. pc = "mark" => t = None BY <2>1, <2>3
    <2>12. Journal(r, q) = {}
        BY <2>6, <2>7, <2>11 DEF Journal, Founded, Inserted
    <2> QED BY <1>2, <1>3, <2>5, <2>7, <2>10, <2>12, Moved
<1>6. QED
    <2>1. PICK a \in AccountsOf(e) :
            IF accounts[a].tenant # None /\ ~Remote /\ TenantsOf(e) = {}
            THEN Finish(r, "complete", e, "failed")
            ELSE \E t \in IF accounts[a].tenant # None /\ ~Remote THEN TenantsOf(e)
                          ELSE {None} :
                   req' = [req EXCEPT ![r] =
                      [Idle EXCEPT !.path = "complete", !.email = e, !.account = a,
                          !.tenant = t,
                          !.pc = IF accounts[a].tenant = None THEN "mark"
                                 ELSE IF Remote THEN "own" ELSE "activate"]]
        BY DEF BeginComplete
    <2>2. CASE accounts[a].tenant # None /\ ~Remote /\ TenantsOf(e) = {}
        BY <1>4, <2>1, <2>2 DEF Finish
    <2>3. CASE accounts[a].tenant # None /\ ~Remote /\ TenantsOf(e) # {}
        <3>1. \A t \in TenantsOf(e) : t \in Tenants \union {None} /\ t # None
            BY NotNull DEF TenantsOf
        <3> QED BY <1>5, <2>1, <2>3, <3>1
    <2>4. CASE accounts[a].tenant = None \/ Remote
        BY <1>5, <2>1, <2>4
    <2> QED BY <2>2, <2>3, <2>4

LEMMA GreetKeeps ==
    ASSUME RegistrationInv, NEW r \in Requests, Greet(r)
    PROVE  RegistrationInv'
<1>1. Journal(r, req[r]) = {} BY DEF Greet, Journal, Founded, Inserted
<1>2. req' = [req EXCEPT ![r] = Idle] /\ UNCHANGED <<tables, writes, codes, faults>>
    BY DEF Greet, Finish
<1> QED BY <1>1, <1>2, IdleFits, Moved

----------------------------------------------------------------------------
(* Steps that write                                                        *)

\* A request goes on with one more write, or ends and leaves one to the other service.
LEMMA Wrote ==
    ASSUME RegistrationInv, NEW r \in Requests, NEW q \in RequestState,
           NEW base \in {writes, writes \ Own(r)}, NEW w \in Write,
           req' = [req EXCEPT ![r] = q], writes' = base \union {w},
           UNCHANGED <<tables, codes>>, faults' \in 0..MaxFaults,
           w.by = r, WriteFits(w)', RequestFits(q), Own(r)' = Journal(r, q),
           w.op = "account" => ~Claimed("account", w.email) /\ w.account \in FreeAccounts,
           w.op = "tenant" => ~Claimed("tenant", w.email) /\ w.tenant \in FreeTenants
    PROVE  RegistrationInv'
<1>1. challenges' \subseteq Emails /\ verifiable' \subseteq Emails
    BY DEF RegistrationInv, TypeOK, codes
<1>2. \A v \in writes :
          /\ v.op = "account" /\ w.op = "account" => v.email # w.email /\ v.account # w.account
          /\ v.op = "tenant" /\ w.op = "tenant" => v.email # w.email /\ v.tenant # w.tenant
    BY DEF Claimed, FreeAccounts, FreeTenants
<1>3. PICK new \in SUBSET Write : new = {w} OBVIOUS
<1>4. writes' = base \union new BY <1>3
<1>5. \A x \in new : x.by = r /\ WriteFits(x)' BY <1>3
<1>6. \A x, y \in new : x = y BY <1>3
<1>7. UNCHANGED tables OBVIOUS
<1>8. \A v \in writes, x \in new :
          /\ v.op = "account" /\ x.op = "account" => v.email # x.email /\ v.account # x.account
          /\ v.op = "tenant" /\ x.op = "tenant" => v.email # x.email /\ v.tenant # x.tenant
    BY <1>2, <1>3
<1> QED BY <1>1, <1>4, <1>5, <1>6, <1>7, <1>8, RequestStep, SMTT(30), ZenonT(30)

\* A new organization: what is said of its write fits, whichever service makes it.
LEMMA TenantWriteFits ==
    ASSUME RegistrationInv, NEW r \in Requests, NEW e \in Emails, NEW t \in FreeTenants,
           TenantsOf(e) = {}, UNCHANGED tables
    PROVE  /\ WriteOf(r, "tenant", e, None, t) \in Write
           /\ WriteFits(WriteOf(r, "tenant", e, None, t))'
           /\ WriteOf(r, "tenant", e, None, t).by = r
           /\ WriteOf(r, "tenant", e, None, t).op = "tenant"
           /\ WriteOf(r, "tenant", e, None, t).email = e
           /\ WriteOf(r, "tenant", e, None, t).tenant = t
<1>1. PICK w : w = WriteOf(r, "tenant", e, None, t) OBVIOUS
<1>2. t \in Tenants /\ tenants[t] = None BY DEF FreeTenants
<1>3. /\ w \in Write /\ w.by = r /\ w.op = "tenant" /\ w.email = e /\ w.tenant = t
    BY <1>1, <1>2, WriteIs
<1>4. WriteFits(w)'
    BY <1>2, <1>3 DEF WriteFits, TenantsOf, tables
<1> QED BY <1>1, <1>3, <1>4

\* The organization is the first write of the request's transaction; over HTTP it is one of the
\* tenant service's own, and the transaction stays empty.
LEMMA CreateKeeps ==
    ASSUME RegistrationInv, NEW r \in Requests, Create(r)
    PROVE  RegistrationInv'
<1>1. PICK p : p = req[r] OBVIOUS
<1>2. p \in RequestState /\ RequestFits(p) /\ p.pc = "create"
    BY <1>1 DEF RegistrationInv, TypeOK, Create
<1>3. /\ p.org \in Emails /\ p.org # None /\ p.email \in Emails /\ p.path \in Paths \intersect Flows
      /\ Accepts(p.path, p.email, p.org) /\ p.account = None
    BY <1>2, NotNull DEF RequestFits, Registers
<1>4. CASE TenantsOf(p.org) # {}
    <2>1. \E answer : Refuse(r, answer) BY <1>1, <1>4 DEF Create
    <2> QED BY <2>1, RefuseKeeps
<1>5. CASE TenantsOf(p.org) = {}
    <2>1. PICK t \in FreeTenants :
              /\ writes' = writes \union {WriteOf(r, "tenant", p.org, None, t)}
              /\ req' = [req EXCEPT ![r].pc = IF Remote THEN "find" ELSE "insert",
                                    ![r].tenant = IF Remote THEN None ELSE t]
              /\ UNCHANGED <<tables, codes, outcome, faults>>
        BY <1>1, <1>5 DEF Create
    <2>2. ~Claimed("tenant", p.org) BY <1>1 DEF Create
    <2>3. t \in Tenants BY DEF FreeTenants
    <2>4. PICK w : w = WriteOf(r, "tenant", p.org, None, t) OBVIOUS
    <2>5. /\ w \in Write /\ WriteFits(w)' /\ w.by = r /\ w.op = "tenant" /\ w.email = p.org
          /\ w.tenant = t
        BY <1>3, <1>5, <2>1, <2>4, TenantWriteFits
    <2>6. PICK pc : pc = IF Remote THEN "find" ELSE "insert" OBVIOUS
    <2>7. PICK at : at = IF Remote THEN None ELSE t OBVIOUS
    <2>8. PICK q : q = [p EXCEPT !.pc = pc, !.tenant = at] OBVIOUS
    <2>9. req' = [req EXCEPT ![r] = q]
        BY <1>1, <2>1, <2>6, <2>7, <2>8 DEF RegistrationInv, TypeOK
    <2>10. /\ q \in RequestState /\ q.pc = pc /\ q.tenant = at /\ q.path = p.path
           /\ q.email = p.email /\ q.org = p.org /\ q.account = p.account
        BY <1>2, <2>3, <2>6, <2>7, <2>8, SMTT(30), ZenonT(30) DEF RequestState, Steps
    <2>11. RequestFits(q)
        BY <1>3, <2>3, <2>6, <2>7, <2>10, ConstantsAssumption
            DEF RequestFits, Registers, Completes, Inserted
    <2>12. Own(r)' = Journal(r, q)
        <3>1. Own(r) = {} BY <1>1, <1>2 DEF RegistrationInv, Journal, Founded, Inserted
        <3>2. Own(r)' = IF Remote THEN {} ELSE {w}
            BY <2>1, <2>4, <2>5, <3>1 DEF Own, LocalOps
        <3>3. CASE Remote BY <2>6, <2>10, <3>2, <3>3 DEF Journal, Founded, Inserted
        <3>4. CASE ~Remote
            <4>1. Founded(q) /\ ~Inserted(q) /\ q.pc # "mark"
                BY <1>3, <2>6, <2>10, <3>4 DEF Founded, Inserted
            <4>2. q.tenant = t /\ q.org = p.org BY <2>7, <2>10, <3>4
            <4> QED BY <2>4, <2>5, <3>2, <3>4, <4>1, <4>2 DEF Journal
        <3> QED BY <3>3, <3>4
    <2>13. faults' \in 0..MaxFaults BY <2>1 DEF RegistrationInv, TypeOK
    <2>14. writes' = writes \union {w} /\ UNCHANGED <<tables, codes>> BY <2>1, <2>4
    <2> QED BY <2>2, <2>5, <2>9, <2>10, <2>11, <2>12, <2>13, <2>14, Wrote
<1> QED BY <1>4, <1>5

LEMMA InsertKeeps ==
    ASSUME RegistrationInv, NEW r \in Requests, Insert(r)
    PROVE  RegistrationInv'
<1>1. PICK p : p = req[r] OBVIOUS
<1>2. p \in RequestState /\ RequestFits(p) /\ p.pc = "insert" /\ Own(r) = Journal(r, p)
    BY <1>1 DEF RegistrationInv, TypeOK, Insert
<1>3. /\ p.email \in Emails /\ p.path \in Paths \intersect Flows
      /\ Accepts(p.path, p.email, p.org)
      /\ p.org = None => p.tenant = None
      /\ p.org # None => p.tenant \in Tenants
      /\ Remote /\ p.tenant # None => tenants[p.tenant] # None
      /\ p.org \in Emails \union {None} /\ p.tenant \in Tenants \union {None}
    BY <1>2 DEF RequestFits, Registers, RequestState
<1>4. CASE AccountsOf(p.email) # {}
    <2>1. \E answer : Refuse(r, answer) BY <1>1, <1>4 DEF Insert
    <2> QED BY <2>1, RefuseKeeps
<1>5. CASE AccountsOf(p.email) = {}
    <2>1. PICK pc : pc = IF p.org # None THEN "admin"
                         ELSE IF p.path = "individual" THEN "persist" ELSE "challenge"
        OBVIOUS
    <2>2. PICK a \in FreeAccounts :
              /\ writes' = writes \union {WriteOf(r, "account", p.email, a, p.tenant)}
              /\ req' = [req EXCEPT ![r].account = a, ![r].pc = pc]
              /\ UNCHANGED <<tables, codes, outcome, faults>>
        BY <1>1, <1>5, <2>1 DEF Insert
    <2>3. ~Claimed("account", p.email) BY <1>1 DEF Insert
    <2>4. a \in Accounts /\ accounts[a] = None BY DEF FreeAccounts
    <2>5. PICK w : w = WriteOf(r, "account", p.email, a, p.tenant) OBVIOUS
    <2>6. /\ w \in Write /\ w.by = r /\ w.op = "account" /\ w.email = p.email
          /\ w.account = a /\ w.tenant = p.tenant
        BY <1>3, <2>4, <2>5, WriteIs DEF LocalOps
    <2>7. PICK q : q = [p EXCEPT !.account = a, !.pc = pc] OBVIOUS
    <2>8. req' = [req EXCEPT ![r] = q]
        BY <1>1, <2>2, <2>7 DEF RegistrationInv, TypeOK
    <2>9. pc \in {"admin", "persist", "challenge"} BY <2>1
    <2>10. /\ q \in RequestState /\ q.pc = pc /\ q.account = a /\ q.path = p.path
           /\ q.email = p.email /\ q.org = p.org /\ q.tenant = p.tenant
        BY <1>2, <2>4, <2>7, <2>9 DEF RequestState, Steps
    <2>11. Inserted(q)
        <3>1. p.org = None => p.path \notin {"organization", "legacy_tenant"}
            BY <1>3, NotNull, ConstantsAssumption DEF Accepts, Emails
        <3>2. pc = "challenge" => p.path \in Legacy
            BY <1>3, <2>1, <3>1 DEF Flows, Legacy
        <3> QED BY <2>9, <2>10, <3>2 DEF Inserted
    <2>12. RequestFits(q)
        <3>1. pc = "persist" => p.path \notin Legacy BY <2>1 DEF Legacy
        <3>2. pc = "admin" => p.org \in Emails BY <1>3, <2>1
        <3> QED BY <1>3, <2>4, <2>9, <2>10, <2>11, <3>1, <3>2
                DEF RequestFits, Registers, Completes
    <2>13. WriteFits(w)'
        <3>1. AccountsOf(w.email)' = {} /\ accounts' = accounts /\ tenants' = tenants
            BY <1>5, <2>2, <2>6 DEF AccountsOf, tables
        <3>2. ASSUME ~Remote, w.tenant # None
              PROVE  \E v \in writes' : v.op = "tenant" /\ v.by = w.by /\ v.tenant = w.tenant
            <4>1. p.org # None /\ p.org \in Emails /\ p.tenant \in Tenants
                BY <1>3, <2>6, <3>2
            <4>2. PICK v : v = WriteOf(r, "tenant", p.org, None, p.tenant) OBVIOUS
            <4>3. v \in Write /\ v.op = "tenant" /\ v.by = r /\ v.tenant = p.tenant
                BY <1>2, <1>3, <4>1, <4>2 DEF WriteOf, Write
            <4>4. v \in Journal(r, p) BY <1>2, <3>2, <4>1, <4>2, <4>3 DEF Journal, Founded
            <4>5. v \in writes BY <1>2, <4>4 DEF Own
            <4> QED BY <2>2, <2>6, <4>3, <4>5
        <3> QED BY <1>3, <2>4, <2>6, <3>1, <3>2 DEF WriteFits
    <2>14. Own(r)' = Journal(r, q)
        <3>1. Own(r)' = Own(r) \union {w} BY <2>2, <2>5, <2>6 DEF Own, LocalOps
        <3>2. Founded(q) <=> Founded(p) BY <1>2, <2>10, <2>11 DEF Founded
        <3>3. ~Inserted(p) /\ p.pc # "mark" BY <1>2 DEF Inserted
        <3>4. Founded(q) /\ q.pc # "admin" => FALSE
            BY <2>1, <2>10 DEF Founded
        <3>5. WriteOf(r, "account", q.email, q.account, q.tenant) = w BY <2>5, <2>10
        <3>6. q.pc # "mark" BY <2>9, <2>10
        <3> QED BY <1>2, <2>6, <2>10, <2>11, <3>1, <3>2, <3>3, <3>4, <3>5, <3>6 DEF Journal
    <2>15. faults' \in 0..MaxFaults BY <2>2 DEF RegistrationInv, TypeOK
    <2>16. writes' = writes \union {w} /\ UNCHANGED <<tables, codes>> BY <2>2, <2>5
    <2> QED BY <2>3, <2>6, <2>8, <2>10, <2>12, <2>13, <2>14, <2>15, <2>16, Wrote
<1> QED BY <1>4, <1>5

LEMMA AddAdminKeeps ==
    ASSUME RegistrationInv, NEW r \in Requests, AddAdmin(r)
    PROVE  RegistrationInv'
<1>1. PICK p : p = req[r] OBVIOUS
<1>2. p \in RequestState /\ RequestFits(p) /\ p.pc = "admin" /\ Own(r) = Journal(r, p)
    BY <1>1 DEF RegistrationInv, TypeOK, AddAdmin
<1>3. /\ p.email \in Emails /\ p.path \in Paths \intersect Flows /\ p.org \in Emails
      /\ Accepts(p.path, p.email, p.org) /\ p.org # None
      /\ p.account \in Accounts /\ p.tenant \in Tenants
    BY <1>2, NotNull DEF RequestFits, Registers, Inserted
<1>4. PICK pc : pc = IF p.path = "organization" THEN "persist" ELSE "challenge" OBVIOUS
<1>5. PICK q : q = [p EXCEPT !.pc = pc] OBVIOUS
<1>6. PICK w : w = WriteOf(r, "admin", p.email, p.account, p.tenant) OBVIOUS
<1>7. /\ req' = [req EXCEPT ![r] = q] /\ writes' = writes \union {w}
      /\ UNCHANGED <<tables, codes, faults>>
    BY <1>1, <1>4, <1>5, <1>6 DEF AddAdmin, GoTo, RegistrationInv, TypeOK
<1>8. /\ w \in Write /\ w.by = r /\ w.op = "admin" /\ w.email = p.email
      /\ w.account = p.account /\ w.tenant = p.tenant
    BY <1>3, <1>6 DEF WriteOf, Write
<1>9. pc \in {"persist", "challenge"} BY <1>4
<1>10. /\ q \in RequestState /\ q.pc = pc /\ q.account = p.account /\ q.path = p.path
       /\ q.email = p.email /\ q.org = p.org /\ q.tenant = p.tenant
    BY <1>2, <1>5, <1>9 DEF RequestState, Steps
<1>11. Inserted(q)
    <2>1. p.path \notin {"individual", "legacy_individual"}
        BY <1>3 DEF Accepts
    <2>2. pc = "challenge" => p.path \in Legacy BY <1>3, <1>4, <2>1 DEF Flows, Legacy
    <2> QED BY <1>9, <1>10, <2>2 DEF Inserted
<1>12. RequestFits(q)
    <2>1. pc = "persist" => p.path \notin Legacy BY <1>4 DEF Legacy
    <2> QED BY <1>3, <1>9, <1>10, <1>11, <2>1 DEF RequestFits, Registers, Completes
<1>13. WriteFits(w)' BY <1>3, <1>8 DEF WriteFits
<1>14. Own(r)' = Journal(r, q)
    <2>1. Own(r)' = IF Remote THEN Own(r) ELSE Own(r) \union {w}
        BY <1>7, <1>8 DEF Own, LocalOps
    <2>2. Founded(q) <=> ~Remote BY <1>3, <1>10, <1>11 DEF Founded
    <2>3. Founded(p) <=> ~Remote BY <1>2, <1>3 DEF Founded, Inserted
    <2>4. Inserted(p) /\ p.pc = "admin" /\ q.pc \notin {"admin", "mark"}
        BY <1>2, <1>9, <1>10 DEF Inserted
    <2> QED BY <1>2, <1>6, <1>8, <1>10, <1>11, <2>1, <2>2, <2>3, <2>4 DEF Journal
<1>15. faults' \in 0..MaxFaults BY <1>7 DEF RegistrationInv, TypeOK
<1> QED BY <1>7, <1>8, <1>10, <1>12, <1>13, <1>14, <1>15, Wrote

LEMMA ActivateKeeps ==
    ASSUME RegistrationInv, NEW r \in Requests, Activate(r)
    PROVE  RegistrationInv'
<1>1. PICK p : p = req[r] OBVIOUS
<1>2. p \in RequestState /\ RequestFits(p) /\ p.pc = "activate" /\ Own(r) = Journal(r, p)
    BY <1>1 DEF RegistrationInv, TypeOK, Activate
<1>3. /\ p.path = "complete" /\ p.account \in Accounts /\ accounts[p.account] # None
      /\ accounts[p.account].email = p.email /\ p.tenant \in Tenants /\ tenants[p.tenant] # None
      /\ p.email \in Emails /\ p.tenant # None
    BY <1>2, NotNull DEF RequestFits, Completes, RegistrationInv, TypeOK, AccountRow
<1>4. PICK q : q = [p EXCEPT !.pc = "mark"] OBVIOUS
<1>5. PICK w : w = WriteOf(r, "activate", p.email, None, p.tenant) OBVIOUS
<1>6. /\ req' = [req EXCEPT ![r] = q] /\ writes' = writes \union {w}
      /\ UNCHANGED <<tables, codes, faults>>
    BY <1>1, <1>4, <1>5 DEF Activate, GoTo, RegistrationInv, TypeOK
<1>7. w \in Write /\ w.by = r /\ w.op = "activate" /\ w.tenant = p.tenant
    BY <1>3, <1>5 DEF WriteOf, Write
<1>8. /\ q \in RequestState /\ q.pc = "mark" /\ q.account = p.account /\ q.path = p.path
      /\ q.email = p.email /\ q.org = p.org /\ q.tenant = p.tenant
    BY <1>2, <1>4 DEF RequestState, Steps
<1>9. RequestFits(q) BY <1>3, <1>8 DEF RequestFits, Registers, Completes, Inserted
<1>10. WriteFits(w)' BY <1>3, <1>6, <1>7 DEF WriteFits, tables
<1>11. Own(r)' = Journal(r, q)
    <2>1. Own(r) = {} BY <1>2 DEF Journal, Founded, Inserted
    <2>2. Own(r)' = IF Remote THEN {} ELSE {w} BY <1>6, <1>7, <2>1 DEF Own, LocalOps
    <2> QED BY <1>3, <1>5, <1>7, <1>8, <2>2 DEF Journal, Founded, Inserted
<1>12. faults' \in 0..MaxFaults BY <1>6 DEF RegistrationInv, TypeOK
<1> QED BY <1>6, <1>7, <1>8, <1>9, <1>10, <1>11, <1>12, Wrote

\* A write that only the other service has, and that its request knows nothing of.
LEMMA UnansweredKeeps ==
    ASSUME RegistrationInv, NEW r \in Requests, Unanswered(r)
    PROVE  RegistrationInv'
<1>1. PICK p : p = req[r] OBVIOUS
<1>2. p \in RequestState /\ RequestFits(p) /\ Own(r) = Journal(r, p)
    BY <1>1 DEF RegistrationInv, TypeOK
<1>3. /\ Remote /\ req' = [req EXCEPT ![r] = Idle] /\ UNCHANGED <<tables, codes>>
      /\ faults' \in 0..MaxFaults
    BY ConstantsAssumption DEF Unanswered, Fault, Finish, RegistrationInv, TypeOK
<1>4. ASSUME NEW w \in Write, w.by = r, WriteFits(w)', w.op \in {"tenant", "admin", "activate"},
             writes' = (writes \ Own(r)) \union {w},
             w.op = "tenant" => ~Claimed("tenant", w.email) /\ w.tenant \in FreeTenants
      PROVE  RegistrationInv'
    <2>1. Own(r)' = {} BY <1>3, <1>4 DEF Own, LocalOps
    <2>2. Own(r)' = Journal(r, Idle) BY <2>1, IdleFits
    <2>3. PICK base \in {writes, writes \ Own(r)} : base = writes \ Own(r) OBVIOUS
    <2>4. writes' = base \union {w} BY <1>4, <2>3
    <2> QED BY <1>3, <1>4, <2>2, <2>4, IdleFits, Wrote
<1>5. CASE p.pc = "create"
    <2>1. p.org \in Emails /\ Own(r) = {}
        BY <1>2, <1>5 DEF RequestFits, Journal, Founded, Inserted
    <2>2. PICK t \in FreeTenants : writes' = writes \union {WriteOf(r, "tenant", p.org, None, t)}
        BY <1>1, <1>5 DEF Unanswered
    <2>3. TenantsOf(p.org) = {} /\ ~Claimed("tenant", p.org) BY <1>1, <1>5 DEF Unanswered
    <2>4. PICK w : w = WriteOf(r, "tenant", p.org, None, t) OBVIOUS
    <2>5. /\ w \in Write /\ WriteFits(w)' /\ w.by = r /\ w.op = "tenant" /\ w.email = p.org
          /\ w.tenant = t
        BY <1>3, <2>1, <2>3, <2>4, TenantWriteFits
    <2>6. writes' = (writes \ Own(r)) \union {w} BY <2>1, <2>2, <2>4
    <2> QED BY <1>4, <2>3, <2>5, <2>6
<1>6. CASE p.pc = "admin"
    <2>1. /\ p.email \in Emails /\ p.org \in Emails /\ p.org # None
          /\ p.account \in Accounts /\ p.tenant \in Tenants
        BY <1>2, <1>6, NotNull DEF RequestFits, Registers, Inserted
    <2>2. PICK w : w = WriteOf(r, "admin", p.email, p.account, p.tenant) OBVIOUS
    <2>3. /\ w \in Write /\ w.by = r /\ w.op = "admin" /\ w.account = p.account
          /\ w.tenant = p.tenant
        BY <2>1, <2>2 DEF WriteOf, Write
    <2>4. writes' = (writes \ Own(r)) \union {w} BY <1>1, <1>6, <2>2 DEF Unanswered
    <2>5. WriteFits(w)' BY <2>1, <2>3 DEF WriteFits
    <2> QED BY <1>4, <2>3, <2>4, <2>5
<1>7. CASE p.pc = "activate"
    <2>1. /\ p.tenant \in Tenants /\ tenants[p.tenant] # None /\ p.email \in Emails
          /\ Own(r) = {}
        BY <1>2, <1>7 DEF RequestFits, Completes, RegistrationInv, TypeOK, AccountRow,
                          Journal, Founded, Inserted
    <2>2. PICK w : w = WriteOf(r, "activate", p.email, None, p.tenant) OBVIOUS
    <2>3. w \in Write /\ w.by = r /\ w.op = "activate" /\ w.tenant = p.tenant
        BY <2>1, <2>2 DEF WriteOf, Write
    <2>4. writes' = (writes \ Own(r)) \union {w} BY <1>1, <1>7, <2>1, <2>2 DEF Unanswered
    <2>5. WriteFits(w)' BY <1>3, <2>1, <2>3 DEF WriteFits, tables
    <2> QED BY <1>4, <2>3, <2>4, <2>5
<1> QED BY <1>1, <1>5, <1>6, <1>7 DEF Unanswered

----------------------------------------------------------------------------
(* Steps that commit                                                       *)

\* What can be published: writes of open transactions, and verifications of stored accounts.
Publishable(W) ==
    /\ W \subseteq Write
    /\ \A w \in W : \/ w \in writes
                    \/ w.op = "verify" /\ w.account \in Accounts /\ accounts[w.account] # None

\* What a commit does to the accounts.
LEMMA PublishedAccounts ==
    ASSUME RegistrationInv, NEW W, Publishable(W), Publish(W)
    PROVE  /\ accounts' \in [Accounts -> AccountRow \union {None}]
           /\ \A w \in W : w.op = "account" => accounts'[w.account] = Row(w.email, w.tenant)
           /\ \A a \in Accounts : accounts[a] # None =>
                  /\ accounts'[a] # None
                  /\ accounts'[a].email = accounts[a].email
                  /\ accounts'[a].tenant = accounts[a].tenant
                  /\ accounts'[a].active <=>
                       accounts[a].active \/ \E w \in W : w.op = "verify" /\ w.account = a
           /\ \A a \in Accounts : accounts[a] = None /\ accounts'[a] # None =>
                  \E w \in W : w.op = "account" /\ w.account = a
<1>1. ASSUME NEW w \in W, w.op = "account"
      PROVE  /\ w \in writes /\ w.account \in Accounts /\ accounts[w.account] = None
             /\ w.email \in Emails /\ w.tenant \in Tenants \union {None}
    BY <1>1 DEF Publishable, RegistrationInv, WriteFits, Write
<1>2. ASSUME NEW w \in W, w.op = "account"
      PROVE  accounts'[w.account] = Row(w.email, w.tenant)
    <2>1. PICK a : a = w.account OBVIOUS
    <2>2. \A x \in Inserts(W, a) : x = w
        BY <1>1, <1>2, <2>1 DEF Inserts, RegistrationInv, WritesDistinct
    <2>3. w \in Inserts(W, a) BY <1>2, <2>1 DEF Inserts
    <2>4. (CHOOSE x \in Inserts(W, a) : TRUE) = w BY <2>2, <2>3
    <2>5. accounts'[a] = LET x == CHOOSE y \in Inserts(W, a) : TRUE IN Row(x.email, x.tenant)
        BY <1>1, <1>2, <2>1, <2>3 DEF Publish
    <2> QED BY <2>1, <2>4, <2>5
<1>3. ASSUME NEW a \in Accounts, Inserts(W, a) = {}
      PROVE  accounts'[a] = IF \E w \in W : w.op = "verify" /\ w.account = a
                            THEN [accounts[a] EXCEPT !.active = TRUE] ELSE accounts[a]
    BY <1>3 DEF Publish
<1>4. ASSUME NEW a \in Accounts, accounts[a] # None
      PROVE  /\ accounts'[a] \in AccountRow /\ accounts'[a] # None
             /\ accounts'[a].email = accounts[a].email
             /\ accounts'[a].tenant = accounts[a].tenant
             /\ accounts'[a].active <=>
                  accounts[a].active \/ \E w \in W : w.op = "verify" /\ w.account = a
    <2>1. Inserts(W, a) = {} BY <1>1, <1>4 DEF Inserts
    <2>2. accounts[a] \in AccountRow BY <1>4 DEF RegistrationInv, TypeOK
    <2>3. CASE \E w \in W : w.op = "verify" /\ w.account = a
        <3>1. PICK row : row = [accounts[a] EXCEPT !.active = TRUE] OBVIOUS
        <3>2. /\ row \in AccountRow /\ row.email = accounts[a].email
              /\ row.tenant = accounts[a].tenant /\ row.active = TRUE
            BY <2>2, <3>1 DEF AccountRow
        <3>3. accounts'[a] = row BY <1>3, <2>1, <2>3, <3>1
        <3> QED BY <2>3, <3>2, <3>3, NotNull
    <2>4. CASE ~\E w \in W : w.op = "verify" /\ w.account = a
        BY <1>3, <1>4, <2>1, <2>2, <2>4
    <2> QED BY <2>3, <2>4
<1>5. ASSUME NEW a \in Accounts, accounts[a] = None, Inserts(W, a) = {}
      PROVE  accounts'[a] = None
    <2>1. ~\E w \in W : w.op = "verify" /\ w.account = a
        BY <1>5 DEF Publishable, RegistrationInv, WriteFits
    <2> QED BY <1>3, <1>5, <2>1
<1>6. ASSUME NEW a \in Accounts PROVE accounts'[a] \in AccountRow \union {None}
    <2>1. CASE accounts[a] # None BY <1>4, <2>1
    <2>2. CASE Inserts(W, a) # {}
        <3>1. PICK w \in W : w.op = "account" /\ w.account = a BY <2>2 DEF Inserts
        <3>2. Row(w.email, w.tenant) \in AccountRow BY <1>1, <3>1 DEF Row, AccountRow
        <3> QED BY <1>2, <3>1, <3>2
    <2> QED BY <1>5, <2>1, <2>2
<1>7. accounts' = [a \in Accounts |-> accounts'[a]] BY DEF Publish
<1>8. accounts' \in [Accounts -> AccountRow \union {None}] BY <1>6, <1>7
<1>9. \A a \in Accounts : accounts[a] = None /\ accounts'[a] # None =>
          \E w \in W : w.op = "account" /\ w.account = a
    BY <1>5 DEF Inserts
<1> QED BY <1>2, <1>4, <1>8, <1>9

\* What it does to the organizations and their administrators.
LEMMA PublishedTenants ==
    ASSUME RegistrationInv, NEW W, Publishable(W), Publish(W)
    PROVE  /\ tenants' \in [Tenants -> TenantRow \union {None}]
           /\ admins' \subseteq Tenants \X Accounts
           /\ \A w \in W : w.op = "tenant" =>
                  /\ tenants'[w.tenant] # None
                  /\ tenants'[w.tenant].org = w.email /\ ~tenants'[w.tenant].active
           /\ \A t \in Tenants : tenants[t] # None =>
                  /\ tenants'[t] # None
                  /\ tenants'[t].org = tenants[t].org
                  /\ tenants'[t].active <=>
                       tenants[t].active \/ \E w \in W : w.op = "activate" /\ w.tenant = t
           /\ \A t \in Tenants : tenants[t] = None /\ tenants'[t] # None =>
                  \E w \in W : w.op = "tenant" /\ w.tenant = t
<1>1. ASSUME NEW w \in W, w.op = "tenant"
      PROVE  /\ w \in writes /\ w.tenant \in Tenants /\ tenants[w.tenant] = None
             /\ w.email \in Emails
    BY <1>1 DEF Publishable, RegistrationInv, WriteFits, Write
<1>2. ASSUME NEW w \in W, w.op = "tenant"
      PROVE  /\ tenants'[w.tenant] \in TenantRow
             /\ tenants'[w.tenant].org = w.email /\ ~tenants'[w.tenant].active
    <2>1. PICK t : t = w.tenant OBVIOUS
    <2>2. \A x \in Founds(W, t) : x = w
        BY <1>1, <1>2, <2>1 DEF Founds, RegistrationInv, WritesDistinct
    <2>3. w \in Founds(W, t) BY <1>2, <2>1 DEF Founds
    <2>4. (CHOOSE x \in Founds(W, t) : TRUE) = w BY <2>2, <2>3
    <2>5. tenants'[t] = [org |-> (CHOOSE x \in Founds(W, t) : TRUE).email, active |-> FALSE]
        BY <1>1, <1>2, <2>1, <2>3 DEF Publish
    <2>6. tenants'[t] = [org |-> w.email, active |-> FALSE] BY <2>4, <2>5
    <2> QED BY <1>1, <1>2, <2>1, <2>6 DEF TenantRow
<1>3. ASSUME NEW t \in Tenants, Founds(W, t) = {}
      PROVE  tenants'[t] = IF \E w \in W : w.op = "activate" /\ w.tenant = t
                           THEN [tenants[t] EXCEPT !.active = TRUE] ELSE tenants[t]
    BY <1>3 DEF Publish
<1>4. ASSUME NEW t \in Tenants, tenants[t] # None
      PROVE  /\ tenants'[t] \in TenantRow /\ tenants'[t] # None
             /\ tenants'[t].org = tenants[t].org
             /\ tenants'[t].active <=>
                  tenants[t].active \/ \E w \in W : w.op = "activate" /\ w.tenant = t
    <2>1. Founds(W, t) = {} BY <1>1, <1>4 DEF Founds
    <2>2. tenants[t] \in TenantRow BY <1>4 DEF RegistrationInv, TypeOK
    <2>3. CASE \E w \in W : w.op = "activate" /\ w.tenant = t
        <3>1. PICK row : row = [tenants[t] EXCEPT !.active = TRUE] OBVIOUS
        <3>2. row \in TenantRow /\ row.org = tenants[t].org /\ row.active = TRUE
            BY <2>2, <3>1 DEF TenantRow
        <3>3. tenants'[t] = row BY <1>3, <2>1, <2>3, <3>1
        <3> QED BY <2>3, <3>2, <3>3, NotNull
    <2>4. CASE ~\E w \in W : w.op = "activate" /\ w.tenant = t
        BY <1>3, <1>4, <2>1, <2>2, <2>4
    <2> QED BY <2>3, <2>4
<1>5. ASSUME NEW t \in Tenants, tenants[t] = None, Founds(W, t) = {}
      PROVE  tenants'[t] = None
    <2>1. ~\E w \in W : w.op = "activate" /\ w.tenant = t
        BY <1>5 DEF Publishable, RegistrationInv, WriteFits
    <2> QED BY <1>3, <1>5, <2>1
<1>6. ASSUME NEW t \in Tenants PROVE tenants'[t] \in TenantRow \union {None}
    <2>1. CASE tenants[t] # None BY <1>4, <2>1
    <2>2. CASE Founds(W, t) # {}
        <3>1. PICK w \in W : w.op = "tenant" /\ w.tenant = t BY <2>2 DEF Founds
        <3> QED BY <1>2, <3>1
    <2> QED BY <1>5, <2>1, <2>2
<1>7. tenants' = [t \in Tenants |-> tenants'[t]] BY DEF Publish
<1>8. tenants' \in [Tenants -> TenantRow \union {None}] BY <1>6, <1>7
<1>9. admins' \subseteq Tenants \X Accounts
    <2>1. ASSUME NEW w \in W, w.op = "admin" PROVE <<w.tenant, w.account>> \in Tenants \X Accounts
        BY <2>1 DEF Publishable, RegistrationInv, WriteFits
    <2> QED BY <2>1 DEF Publish, RegistrationInv, TypeOK
<1>10. \A t \in Tenants : tenants[t] = None /\ tenants'[t] # None =>
           \E w \in W : w.op = "tenant" /\ w.tenant = t
    BY <1>5 DEF Founds
<1> QED BY <1>2, <1>4, <1>8, <1>9, <1>10, NotNull

\* Rows only appear and keep their email: whatever a request found is still there.
LEMMA FitsStay ==
    ASSUME NEW q, RequestFits(q),
           \A a \in Accounts : accounts[a] # None =>
               accounts'[a] # None /\ accounts'[a].email = accounts[a].email,
           \A t \in Tenants : tenants[t] # None => tenants'[t] # None,
           q \in RequestState
    PROVE  RequestFits(q)'
<1>1. q.tenant \in Tenants \union {None} BY DEF RequestState
<1> QED BY <1>1 DEF RequestFits

\* The rows, and what the writes still to come expect of them.
LEMMA Committed ==
    ASSUME RegistrationInv, NEW W, Publishable(W), Publish(W), writes' = writes \ W,
           \A w \in W, v \in writes : ~Remote /\ w \in writes /\ v.by = w.by => v \in W
    PROVE  /\ RowsUnique' /\ AccountsHaveTenant' /\ WritesDistinct'
           /\ \A w \in writes' : WriteFits(w)'
           /\ \A q \in RequestState : RequestFits(q) => RequestFits(q)'
<1>1. /\ \A w \in W : w.op = "account" => accounts'[w.account] = Row(w.email, w.tenant)
      /\ \A a \in Accounts : accounts[a] # None =>
             /\ accounts'[a] # None /\ accounts'[a].email = accounts[a].email
             /\ accounts'[a].tenant = accounts[a].tenant
      /\ \A a \in Accounts : accounts[a] = None /\ accounts'[a] # None =>
             \E w \in W : w.op = "account" /\ w.account = a
    BY PublishedAccounts
<1>2. /\ \A w \in W : w.op = "tenant" =>
             tenants'[w.tenant] # None /\ tenants'[w.tenant].org = w.email
      /\ \A t \in Tenants : tenants[t] # None =>
             tenants'[t] # None /\ tenants'[t].org = tenants[t].org
      /\ \A t \in Tenants : tenants[t] = None /\ tenants'[t] # None =>
             \E w \in W : w.op = "tenant" /\ w.tenant = t
    BY PublishedTenants
<1>3. \A w \in W : w.op \in {"account", "tenant"} => w \in writes /\ WriteFits(w)
    BY DEF Publishable, RegistrationInv
<1>4. ASSUME NEW a \in Accounts, accounts'[a] # None
      PROVE  \/ accounts[a] # None /\ accounts'[a].email = accounts[a].email
                 /\ accounts'[a].tenant = accounts[a].tenant
             \/ \E w \in W : /\ w.op = "account" /\ w.account = a /\ w \in writes
                             /\ accounts'[a].email = w.email
                             /\ accounts'[a].tenant = w.tenant
    <2>1. CASE accounts[a] # None BY <1>1, <2>1
    <2>2. CASE accounts[a] = None
        <3>1. PICK w \in W : w.op = "account" /\ w.account = a BY <1>1, <1>4, <2>2
        <3>2. accounts'[a] = Row(w.email, w.tenant) BY <1>1, <3>1
        <3> QED BY <1>3, <3>1, <3>2 DEF Row
    <2> QED BY <2>1, <2>2
<1>5. ASSUME NEW t \in Tenants, tenants'[t] # None
      PROVE  \/ tenants[t] # None /\ tenants'[t].org = tenants[t].org
             \/ \E w \in W : /\ w.op = "tenant" /\ w.tenant = t /\ w \in writes
                             /\ tenants'[t].org = w.email
    BY <1>2, <1>3, <1>5
<1>6. ASSUME NEW w \in writes, w.op = "account", NEW a \in Accounts, accounts[a] # None
      PROVE  accounts[a].email # w.email /\ a # w.account
    BY <1>6 DEF RegistrationInv, WriteFits, AccountsOf
<1>7. ASSUME NEW w \in writes, w.op = "tenant", NEW t \in Tenants, tenants[t] # None
      PROVE  tenants[t].org # w.email /\ t # w.tenant
    BY <1>7 DEF RegistrationInv, WriteFits, TenantsOf
<1>8. RowsUnique'
    <2>1. ASSUME NEW a \in Accounts, NEW b \in Accounts, accounts'[a] # None,
                 accounts'[b] # None, accounts'[a].email = accounts'[b].email
          PROVE  a = b
        <3>1. CASE accounts[a] # None /\ accounts[b] # None
            BY <1>1, <2>1, <3>1 DEF RegistrationInv, RowsUnique
        <3>2. CASE accounts[a] = None /\ accounts[b] # None
            BY <1>1, <1>4, <1>6, <2>1, <3>2
        <3>3. CASE accounts[a] # None /\ accounts[b] = None
            BY <1>1, <1>4, <1>6, <2>1, <3>3
        <3>4. CASE accounts[a] = None /\ accounts[b] = None
            <4>1. PICK v \in W : v.op = "account" /\ v.account = a /\ v \in writes
                                 /\ accounts'[a].email = v.email
                BY <1>4, <2>1, <3>4
            <4>2. PICK w \in W : w.op = "account" /\ w.account = b /\ w \in writes
                                 /\ accounts'[b].email = w.email
                BY <1>4, <2>1, <3>4
            <4> QED BY <2>1, <4>1, <4>2 DEF RegistrationInv, WritesDistinct
        <3> QED BY <3>1, <3>2, <3>3, <3>4
    <2>2. ASSUME NEW s \in Tenants, NEW t \in Tenants, tenants'[s] # None,
                 tenants'[t] # None, tenants'[s].org = tenants'[t].org
          PROVE  s = t
        <3>1. CASE tenants[s] # None /\ tenants[t] # None
            BY <1>2, <2>2, <3>1 DEF RegistrationInv, RowsUnique
        <3>2. CASE tenants[s] = None /\ tenants[t] # None
            BY <1>2, <1>5, <1>7, <2>2, <3>2
        <3>3. CASE tenants[s] # None /\ tenants[t] = None
            BY <1>2, <1>5, <1>7, <2>2, <3>3
        <3>4. CASE tenants[s] = None /\ tenants[t] = None
            <4>1. PICK v \in W : v.op = "tenant" /\ v.tenant = s /\ v \in writes
                                 /\ tenants'[s].org = v.email
                BY <1>5, <2>2, <3>4
            <4>2. PICK w \in W : w.op = "tenant" /\ w.tenant = t /\ w \in writes
                                 /\ tenants'[t].org = w.email
                BY <1>5, <2>2, <3>4
            <4> QED BY <2>2, <4>1, <4>2 DEF RegistrationInv, WritesDistinct
        <3> QED BY <3>1, <3>2, <3>3, <3>4
    <2> QED BY <2>1, <2>2 DEF RowsUnique
<1>9. AccountsHaveTenant'
    <2>1. ASSUME NEW a \in Accounts, accounts'[a] # None, accounts'[a].tenant # None
          PROVE  tenants'[accounts'[a].tenant] # None
        <3>1. CASE accounts[a] # None
            <4>1. accounts[a] \in AccountRow BY <3>1 DEF RegistrationInv, TypeOK
            <4>2. accounts[a].tenant \in Tenants BY <1>1, <2>1, <3>1, <4>1 DEF AccountRow
            <4> QED BY <1>1, <1>2, <2>1, <3>1, <4>2 DEF RegistrationInv, AccountsHaveTenant
        <3>2. CASE accounts[a] = None
            <4>1. PICK w \in W : w.op = "account" /\ w.account = a /\ w \in writes
                                 /\ accounts'[a].tenant = w.tenant
                BY <1>4, <2>1, <3>2
            <4>2. w.tenant \in Tenants BY <2>1, <4>1 DEF Publishable, Write
            <4>3. CASE Remote
                <5>1. tenants[w.tenant] # None BY <2>1, <4>1, <4>3 DEF RegistrationInv, WriteFits
                <5> QED BY <1>2, <4>1, <4>2, <5>1
            <4>4. CASE ~Remote
                <5>1. PICK v \in writes : v.op = "tenant" /\ v.by = w.by /\ v.tenant = w.tenant
                    BY <2>1, <4>1, <4>4 DEF RegistrationInv, WriteFits
                <5>2. v \in W BY <4>1, <4>4, <5>1
                <5> QED BY <1>2, <4>1, <5>1, <5>2
            <4> QED BY <4>3, <4>4
        <3> QED BY <3>1, <3>2
    <2> QED BY <2>1 DEF AccountsHaveTenant
<1>10. WritesDistinct' BY DEF RegistrationInv, WritesDistinct
<1>11. ASSUME NEW w \in writes' PROVE WriteFits(w)'
    <2>1. w \in writes /\ w \notin W /\ WriteFits(w) /\ w \in Write
        BY DEF RegistrationInv, TypeOK
    <2>2. CASE w.op = "account"
        <3>1. accounts'[w.account] = None
            <4>1. SUFFICES ASSUME accounts'[w.account] # None PROVE FALSE OBVIOUS
            <4>2. w.account \in Accounts /\ accounts[w.account] = None
                BY <2>1, <2>2 DEF WriteFits
            <4>3. PICK v \in W : v.op = "account" /\ v.account = w.account /\ v \in writes
                BY <1>4, <4>1, <4>2
            <4> QED BY <2>1, <2>2, <4>3 DEF RegistrationInv, WritesDistinct
        <3>2. ASSUME NEW a \in Accounts, accounts'[a] # None PROVE accounts'[a].email # w.email
            <4>1. CASE accounts[a] # None BY <1>1, <1>6, <2>1, <2>2, <4>1
            <4>2. CASE accounts[a] = None
                <5>1. PICK v \in W : v.op = "account" /\ v \in writes
                                     /\ accounts'[a].email = v.email
                    BY <1>4, <3>2, <4>2
                <5> QED BY <2>1, <2>2, <5>1 DEF RegistrationInv, WritesDistinct
            <4> QED BY <4>1, <4>2
        <3>3. ASSUME Remote, w.tenant # None PROVE tenants'[w.tenant] # None
            <4>1. w.tenant \in Tenants BY <2>1, <3>3 DEF Write
            <4> QED BY <1>2, <2>1, <2>2, <3>3, <4>1 DEF WriteFits
        <3>4. ASSUME ~Remote, w.tenant # None
              PROVE  \E v \in writes' : v.op = "tenant" /\ v.by = w.by /\ v.tenant = w.tenant
            <4>1. PICK v \in writes : v.op = "tenant" /\ v.by = w.by /\ v.tenant = w.tenant
                BY <2>1, <2>2, <3>4 DEF WriteFits
            <4>2. v \notin W BY <2>1, <3>4, <4>1
            <4> QED BY <4>1, <4>2
        <3> QED BY <2>1, <2>2, <3>1, <3>2, <3>3, <3>4, ConstantsAssumption DEF WriteFits, AccountsOf
    <2>3. CASE w.op = "tenant"
        <3>1. tenants'[w.tenant] = None
            <4>1. SUFFICES ASSUME tenants'[w.tenant] # None PROVE FALSE OBVIOUS
            <4>2. w.tenant \in Tenants /\ tenants[w.tenant] = None
                BY <2>1, <2>3 DEF WriteFits
            <4>3. PICK v \in W : v.op = "tenant" /\ v.tenant = w.tenant /\ v \in writes
                BY <1>5, <4>1, <4>2
            <4> QED BY <2>1, <2>3, <4>3 DEF RegistrationInv, WritesDistinct
        <3>2. ASSUME NEW t \in Tenants, tenants'[t] # None PROVE tenants'[t].org # w.email
            <4>1. CASE tenants[t] # None BY <1>2, <1>7, <2>1, <2>3, <4>1
            <4>2. CASE tenants[t] = None
                <5>1. PICK v \in W : v.op = "tenant" /\ v \in writes
                                     /\ tenants'[t].org = v.email
                    BY <1>5, <3>2, <4>2
                <5> QED BY <2>1, <2>3, <5>1 DEF RegistrationInv, WritesDistinct
            <4> QED BY <4>1, <4>2
        <3> QED BY <2>1, <2>3, <3>1, <3>2 DEF WriteFits, TenantsOf
    <2>4. CASE w.op \in {"admin", "activate"} BY <1>2, <2>1, <2>4 DEF WriteFits
    <2> QED BY <2>1, <2>2, <2>3, <2>4 DEF WriteFits
<1>12. \A q \in RequestState : RequestFits(q) => RequestFits(q)'
    BY <1>1, <1>2, FitsStay
<1> QED BY <1>8, <1>9, <1>10, <1>11, <1>12

\* Request r commits its transaction, with verifications perhaps, and goes on as q.
LEMMA CommitStep ==
    ASSUME RegistrationInv, NEW r \in Requests, NEW q \in RequestState, NEW W,
           Publish(W), writes' = writes \ W, Publishable(W), W \intersect writes = Own(r),
           req' = [req EXCEPT ![r] = q], RequestFits(q), Journal(r, q) = {},
           challenges' \subseteq Emails, verifiable' \subseteq Emails, faults' = faults
    PROVE  RegistrationInv'
<1>1. \A w \in W, v \in writes : ~Remote /\ w \in writes /\ v.by = w.by => v \in W
    BY DEF Own
<1>2. /\ RowsUnique' /\ AccountsHaveTenant' /\ WritesDistinct'
      /\ \A w \in writes' : WriteFits(w)'
      /\ \A p \in RequestState : RequestFits(p) => RequestFits(p)'
    BY <1>1, Committed
<1>3. TypeOK'
    <2>1. accounts' \in [Accounts -> AccountRow \union {None}] BY PublishedAccounts
    <2>2. tenants' \in [Tenants -> TenantRow \union {None}] /\ admins' \subseteq Tenants \X Accounts
        BY PublishedTenants
    <2>3. req' \in [Requests -> RequestState] /\ writes' \subseteq Write /\ faults' \in 0..MaxFaults
        BY DEF RegistrationInv, TypeOK
    <2> QED BY <2>1, <2>2, <2>3 DEF TypeOK
<1>4. ASSUME NEW s \in Requests PROVE RequestFits(req[s])' /\ Own(s)' = Journal(s, req'[s])
    <2>1. CASE s = r
        <3>1. req'[s] = q BY <2>1 DEF RegistrationInv, TypeOK
        <3>2. Own(s)' = {} BY <2>1 DEF Own
        <3> QED BY <1>2, <2>1, <3>1, <3>2
    <2>2. CASE s # r
        <3>1. PICK p : p = req[s] OBVIOUS
        <3>2. req'[s] = p BY <2>2, <3>1 DEF RegistrationInv, TypeOK
        <3>3. p \in RequestState /\ RequestFits(p) /\ Own(s) = Journal(s, p)
            BY <3>1 DEF RegistrationInv, TypeOK
        <3>4. RequestFits(p)' BY <1>2, <3>3
        <3>5. Own(s)' = Own(s) BY <2>2 DEF Own
        <3> QED BY <3>2, <3>3, <3>4, <3>5
    <2> QED BY <2>1, <2>2
<1>5. \A s \in Requests : RequestFits(req[s])' /\ Own(s)' = Journal(s, req[s])'
    BY <1>4 DEF Journal, Founded, Inserted
<1> QED BY <1>2, <1>3, <1>5 DEF RegistrationInv

LEMMA PersistKeeps ==
    ASSUME RegistrationInv, NEW r \in Requests, Persist(r)
    PROVE  RegistrationInv'
<1>1. PICK p : p = req[r] OBVIOUS
<1>2. p \in RequestState /\ RequestFits(p) /\ p.pc = "persist"
    BY <1>1 DEF RegistrationInv, TypeOK, Persist
<1>3. PICK q : q = [p EXCEPT !.pc = "challenge"] OBVIOUS
<1>4. /\ q \in RequestState /\ q.pc = "challenge" /\ q.account = p.account
      /\ q.path = p.path /\ q.email = p.email /\ q.org = p.org /\ q.tenant = p.tenant
    BY <1>2, <1>3 DEF RequestState, Steps
<1>5. q.path \notin Legacy BY <1>2, <1>4 DEF RequestFits
<1>6. RequestFits(q) /\ Journal(r, q) = {}
    BY <1>2, <1>4, <1>5 DEF RequestFits, Registers, Completes, Inserted, Journal, Founded
<1>7. PICK W : W = Own(r) OBVIOUS
<1>8. /\ Publish(W) /\ writes' = writes \ W /\ req' = [req EXCEPT ![r] = q]
      /\ faults' = faults /\ UNCHANGED codes
    BY <1>1, <1>3, <1>7 DEF Persist, GoTo, RegistrationInv, TypeOK
<1>9. Publishable(W) /\ W \intersect writes = Own(r)
    BY <1>7 DEF Publishable, Own, RegistrationInv, TypeOK
<1>10. challenges' \subseteq Emails /\ verifiable' \subseteq Emails
    BY <1>8 DEF codes, RegistrationInv, TypeOK
<1> QED BY <1>4, <1>6, <1>8, <1>9, <1>10, CommitStep

LEMMA ChallengeKeeps ==
    ASSUME RegistrationInv, NEW r \in Requests, Challenge(r)
    PROVE  RegistrationInv'
<1>1. PICK W : W = Own(r) OBVIOUS
<1>2. /\ Publish(W) /\ writes' = writes \ W /\ req' = [req EXCEPT ![r] = Idle]
      /\ faults' = faults
    BY <1>1 DEF Challenge, Finish
<1>3. Publishable(W) /\ W \intersect writes = Own(r)
    BY <1>1 DEF Publishable, Own, RegistrationInv, TypeOK
<1>4. req[r].email \in Emails
    BY DEF Challenge, RegistrationInv, RequestFits, Registers
<1>5. challenges' \subseteq Emails /\ verifiable' \subseteq Emails
    BY <1>4 DEF Challenge, RegistrationInv, TypeOK
<1> QED BY <1>2, <1>3, <1>5, IdleFits, CommitStep

LEMMA MarkKeeps ==
    ASSUME RegistrationInv, NEW r \in Requests, Mark(r)
    PROVE  RegistrationInv'
<1>1. PICK p : p = req[r] OBVIOUS
<1>2. p \in RequestState /\ RequestFits(p) /\ p.pc = "mark"
    BY <1>1 DEF RegistrationInv, TypeOK, Mark
<1>3. /\ p.account \in Accounts /\ accounts[p.account] # None /\ p.path = "complete"
      /\ accounts[p.account].email = p.email /\ p.email \in Emails
    BY <1>2 DEF RequestFits, Completes, RegistrationInv, TypeOK, AccountRow
<1>4. PICK q : q = [p EXCEPT !.pc = "greet"] OBVIOUS
<1>5. /\ q \in RequestState /\ q.pc = "greet" /\ q.account = p.account
      /\ q.path = p.path /\ q.email = p.email /\ q.org = p.org /\ q.tenant = p.tenant
    BY <1>2, <1>4 DEF RequestState, Steps
<1>6. RequestFits(q) /\ Journal(r, q) = {}
    BY <1>3, <1>5 DEF RequestFits, Registers, Completes, Inserted, Journal, Founded
<1>7. PICK v : v = WriteOf(r, "verify", p.email, p.account, None) OBVIOUS
<1>8. v \in Write /\ v.op = "verify" /\ v.account = p.account
    BY <1>3, <1>7 DEF WriteOf, Write, LocalOps
<1>9. PICK W : W = Own(r) \union {v} OBVIOUS
<1>10. /\ Publish(W) /\ writes' = writes \ W /\ req' = [req EXCEPT ![r] = q]
       /\ faults' = faults
    BY <1>1, <1>4, <1>7, <1>9 DEF Mark, GoTo, RegistrationInv, TypeOK
<1>11. Publishable(W)
    BY <1>3, <1>8, <1>9 DEF Publishable, Own, RegistrationInv, TypeOK
<1>12. W \intersect writes = Own(r)
    BY <1>8, <1>9 DEF Own, RegistrationInv, WriteFits
<1>13. challenges' \subseteq Emails /\ verifiable' \subseteq Emails
    BY DEF Mark, RegistrationInv, TypeOK
<1> QED BY <1>5, <1>6, <1>10, <1>11, <1>12, <1>13, CommitStep

----------------------------------------------------------------------------
(* Steps of the other service and of the other endpoints                   *)

LEMMA TenantCommitKeeps ==
    ASSUME RegistrationInv, NEW w \in writes, TenantCommit(w)
    PROVE  RegistrationInv'
<1>1. PICK v \in writes : v = w OBVIOUS
<1>2. PICK W : W = {v} OBVIOUS
<1>3. /\ Remote /\ v.op \notin LocalOps /\ Publish(W) /\ writes' = writes \ W
      /\ UNCHANGED <<codes, req, faults>>
    BY <1>1, <1>2 DEF TenantCommit
<1>4. Publishable(W) BY <1>2 DEF Publishable, RegistrationInv, TypeOK
<1>5. /\ RowsUnique' /\ AccountsHaveTenant' /\ WritesDistinct'
      /\ \A x \in writes' : WriteFits(x)'
      /\ \A p \in RequestState : RequestFits(p) => RequestFits(p)'
    BY <1>3, <1>4, Committed
<1>6. TypeOK'
    <2>1. accounts' \in [Accounts -> AccountRow \union {None}] BY <1>3, <1>4, PublishedAccounts
    <2>2. tenants' \in [Tenants -> TenantRow \union {None}] /\ admins' \subseteq Tenants \X Accounts
        BY <1>3, <1>4, PublishedTenants
    <2> QED BY <1>3, <2>1, <2>2 DEF RegistrationInv, TypeOK, codes
<1>7. ASSUME NEW s \in Requests PROVE RequestFits(req[s])' /\ Own(s)' = Journal(s, req[s])'
    <2>1. PICK p : p = req[s] OBVIOUS
    <2>2. req'[s] = p /\ p \in RequestState /\ RequestFits(p) /\ Own(s) = Journal(s, p)
        BY <1>3, <2>1 DEF RegistrationInv, TypeOK
    <2>3. RequestFits(p)' BY <1>5, <2>2
    <2>4. Own(s)' = Own(s) BY <1>2, <1>3 DEF Own
    <2>5. Own(s)' = Journal(s, req'[s]) BY <2>2, <2>4
    <2> QED BY <2>2, <2>3, <2>5 DEF Journal, Founded, Inserted
<1> QED BY <1>5, <1>6, <1>7 DEF RegistrationInv

\* Rows change without appearing, and no write or request does.
LEMMA Edited ==
    ASSUME RegistrationInv, UNCHANGED <<writes, req, faults>>,
           accounts' \in [Accounts -> AccountRow \union {None}],
           tenants' \in [Tenants -> TenantRow \union {None}], admins' = admins,
           challenges' \subseteq Emails, verifiable' \subseteq Emails,
           \A a \in Accounts : accounts'[a] # None <=> accounts[a] # None,
           \A a \in Accounts : accounts[a] # None =>
               accounts'[a].email = accounts[a].email /\ accounts'[a].tenant = accounts[a].tenant,
           \A t \in Tenants : tenants'[t] # None <=> tenants[t] # None,
           \A s, t \in Tenants : tenants'[s] # None /\ tenants'[t] # None
                                   /\ tenants'[s].org = tenants'[t].org => s = t,
           \A w \in writes : w.op = "tenant" =>
               \A t \in Tenants : tenants'[t] # None => tenants'[t].org # w.email
    PROVE  RegistrationInv'
<1>1. TypeOK' BY DEF RegistrationInv, TypeOK
<1>2. RowsUnique' BY DEF RegistrationInv, RowsUnique
<1>3. AccountsHaveTenant'
    <2>1. \A a \in Accounts : accounts[a] # None =>
              accounts[a].tenant \in Tenants \union {None}
        BY DEF RegistrationInv, TypeOK, AccountRow
    <2> QED BY <2>1 DEF RegistrationInv, AccountsHaveTenant
<1>4. WritesDistinct' BY DEF RegistrationInv, WritesDistinct
<1>5. ASSUME NEW w \in writes' PROVE WriteFits(w)'
    <2>1. w \in writes /\ WriteFits(w) /\ w.tenant \in Tenants \union {None}
        BY DEF RegistrationInv, TypeOK, Write
    <2>2. w.op = "account" => AccountsOf(w.email)' = {}
        BY <2>1 DEF WriteFits, AccountsOf
    <2>3. w.op = "tenant" => TenantsOf(w.email)' = {} BY <2>1 DEF TenantsOf
    <2> QED BY <2>1, <2>2, <2>3 DEF WriteFits
<1>6. ASSUME NEW s \in Requests PROVE RequestFits(req[s])' /\ Own(s)' = Journal(s, req[s])'
    <2>1. PICK p : p = req[s] OBVIOUS
    <2>2. req'[s] = p /\ p \in RequestState /\ RequestFits(p) /\ Own(s) = Journal(s, p)
        BY <2>1 DEF RegistrationInv, TypeOK
    <2>3. RequestFits(p)' BY <2>2, FitsStay
    <2>4. Own(s)' = Own(s) BY DEF Own
    <2>5. Own(s)' = Journal(s, req'[s]) BY <2>2, <2>4
    <2> QED BY <2>2, <2>3, <2>5 DEF Journal, Founded, Inserted
<1> QED BY <1>1, <1>2, <1>3, <1>4, <1>5, <1>6 DEF RegistrationInv

\* The tables are untouched.
LEMMA Untouched ==
    ASSUME RegistrationInv, UNCHANGED <<accounts, tenants, admins, writes, req, faults>>,
           challenges' \subseteq Emails, verifiable' \subseteq Emails
    PROVE  RegistrationInv'
<1>1. accounts' \in [Accounts -> AccountRow \union {None}]
      /\ tenants' \in [Tenants -> TenantRow \union {None}]
    BY DEF RegistrationInv, TypeOK
<1>2. \A s, t \in Tenants : tenants'[s] # None /\ tenants'[t] # None
                              /\ tenants'[s].org = tenants'[t].org => s = t
    BY DEF RegistrationInv, RowsUnique
<1>3. \A w \in writes : w.op = "tenant" =>
          \A t \in Tenants : tenants'[t] # None => tenants'[t].org # w.email
    BY DEF RegistrationInv, WriteFits, TenantsOf
<1> QED BY <1>1, <1>2, <1>3, Edited

LEMMA ResendOtpKeeps ==
    ASSUME RegistrationInv, NEW e \in Emails, ResendOtp(e)
    PROVE  RegistrationInv'
<1>1. challenges' \subseteq Emails /\ verifiable' \subseteq Emails
    BY DEF ResendOtp, RegistrationInv, TypeOK
<1>2. UNCHANGED <<accounts, tenants, admins, writes, req, faults>>
    BY DEF ResendOtp, tables
<1> QED BY <1>1, <1>2, Untouched

LEMMA StutterKeeps ==
    ASSUME RegistrationInv, UNCHANGED vars
    PROVE  RegistrationInv'
<1>1. challenges' \subseteq Emails /\ verifiable' \subseteq Emails
    BY DEF vars, RegistrationInv, TypeOK
<1> QED BY <1>1, Untouched DEF vars

LEMMA VerifyEmailKeeps ==
    ASSUME RegistrationInv, NEW e \in Emails, VerifyEmail(e)
    PROVE  RegistrationInv'
<1>1. PICK a \in Accounts : accounts[a] # None /\ accounts' = [accounts EXCEPT ![a].active = TRUE]
    BY DEF VerifyEmail, AccountsOf
<1>2. PICK row : row = [accounts[a] EXCEPT !.active = TRUE] OBVIOUS
<1>3. accounts[a] \in AccountRow BY <1>1 DEF RegistrationInv, TypeOK
<1>4. /\ row \in AccountRow /\ row # None /\ row.email = accounts[a].email
      /\ row.tenant = accounts[a].tenant
    BY <1>2, <1>3, NotNull DEF AccountRow
<1>5. accounts' = [accounts EXCEPT ![a] = row] BY <1>1, <1>2
<1>6. /\ accounts' \in [Accounts -> AccountRow \union {None}]
      /\ \A b \in Accounts : accounts'[b] # None <=> accounts[b] # None
      /\ \A b \in Accounts : accounts[b] # None =>
             accounts'[b].email = accounts[b].email /\ accounts'[b].tenant = accounts[b].tenant
    BY <1>1, <1>4, <1>5 DEF RegistrationInv, TypeOK
<1>7. /\ tenants' = tenants /\ admins' = admins /\ UNCHANGED <<writes, req, faults>>
      /\ challenges' \subseteq Emails /\ verifiable' \subseteq Emails
    BY DEF VerifyEmail, RegistrationInv, TypeOK
<1>8. tenants' \in [Tenants -> TenantRow \union {None}] BY <1>7 DEF RegistrationInv, TypeOK
<1>9. \A s, t \in Tenants : tenants'[s] # None /\ tenants'[t] # None
                              /\ tenants'[s].org = tenants'[t].org => s = t
    BY <1>7 DEF RegistrationInv, RowsUnique
<1>10. \A w \in writes : w.op = "tenant" =>
           \A t \in Tenants : tenants'[t] # None => tenants'[t].org # w.email
    BY <1>7 DEF RegistrationInv, WriteFits, TenantsOf
<1> QED BY <1>6, <1>7, <1>8, <1>9, <1>10, Edited

LEMMA ChangeOrgEmailKeeps ==
    ASSUME RegistrationInv, NEW a \in Accounts, NEW o \in Emails, ChangeOrgEmail(a, o)
    PROVE  RegistrationInv'
<1>1. PICK t : t = accounts[a].tenant OBVIOUS
<1>2. t \in Tenants /\ tenants[t] # None
    BY <1>1 DEF ChangeOrgEmail, RegistrationInv, TypeOK, AccountRow, AccountsHaveTenant
<1>3. PICK row : row = [tenants[t] EXCEPT !.org = o] OBVIOUS
<1>4. tenants[t] \in TenantRow BY <1>2 DEF RegistrationInv, TypeOK
<1>5. row \in TenantRow /\ row # None /\ row.org = o BY <1>3, <1>4, NotNull DEF TenantRow
<1>6. tenants' = [tenants EXCEPT ![t] = row] BY <1>1, <1>3 DEF ChangeOrgEmail
<1>7. /\ tenants' \in [Tenants -> TenantRow \union {None}] /\ tenants'[t] = row
      /\ \A s \in Tenants \ {t} : tenants'[s] = tenants[s]
    BY <1>2, <1>5, <1>6 DEF RegistrationInv, TypeOK
<1>8. \A s \in Tenants : tenants'[s] # None <=> tenants[s] # None BY <1>2, <1>5, <1>7
<1>9. \A s \in Tenants : tenants[s] # None => tenants[s].org # o
    BY DEF ChangeOrgEmail, TenantsOf
<1>10. \A s, x \in Tenants : tenants'[s] # None /\ tenants'[x] # None
                               /\ tenants'[s].org = tenants'[x].org => s = x
    BY <1>5, <1>7, <1>8, <1>9 DEF RegistrationInv, RowsUnique
<1>11. \A w \in writes : w.op = "tenant" =>
           \A s \in Tenants : tenants'[s] # None => tenants'[s].org # w.email
    <2> SUFFICES ASSUME NEW w \in writes, w.op = "tenant", NEW s \in Tenants, tenants'[s] # None
                 PROVE  tenants'[s].org # w.email
        OBVIOUS
    <2>1. CASE s = t BY <1>5, <1>7, <2>1 DEF ChangeOrgEmail, Claimed
    <2>2. CASE s # t BY <1>7, <2>2 DEF RegistrationInv, WriteFits, TenantsOf
    <2> QED BY <2>1, <2>2
<1>12. /\ accounts' = accounts /\ admins' = admins /\ UNCHANGED <<writes, req, faults>>
       /\ challenges' \subseteq Emails /\ verifiable' \subseteq Emails
    BY DEF ChangeOrgEmail, codes, RegistrationInv, TypeOK
<1>13. accounts' \in [Accounts -> AccountRow \union {None}]
    BY <1>12 DEF RegistrationInv, TypeOK
<1> QED BY <1>7, <1>8, <1>10, <1>11, <1>12, <1>13, Edited

\* A write the other service loses was in no transaction of a request.
LEMMA TenantLoseKeeps ==
    ASSUME RegistrationInv, NEW w \in writes, TenantLose(w)
    PROVE  RegistrationInv'
<1>1. PICK v \in writes : v = w OBVIOUS
<1>2. /\ Remote /\ v.op \notin LocalOps /\ writes' = writes \ {v}
      /\ UNCHANGED <<accounts, tenants, admins, challenges, verifiable, req>>
      /\ faults' \in 0..MaxFaults
    BY <1>1, ConstantsAssumption DEF TenantLose, Fault, tables, codes, RegistrationInv, TypeOK
<1>3. TypeOK' BY <1>2 DEF RegistrationInv, TypeOK
<1>4. RowsUnique' /\ AccountsHaveTenant' /\ WritesDistinct'
    BY <1>2 DEF RegistrationInv, RowsUnique, AccountsHaveTenant, WritesDistinct
<1>5. ASSUME NEW x \in writes' PROVE WriteFits(x)'
    <2>1. WriteFits(x) BY <1>2 DEF RegistrationInv
    <2>2. AccountsOf(x.email)' = AccountsOf(x.email) /\ TenantsOf(x.email)' = TenantsOf(x.email)
        BY <1>2 DEF AccountsOf, TenantsOf
    <2> QED BY <1>2, <2>1, <2>2 DEF WriteFits
<1>6. ASSUME NEW s \in Requests PROVE RequestFits(req[s])' /\ Own(s)' = Journal(s, req[s])'
    <2>1. PICK p : p = req[s] OBVIOUS
    <2>2. req'[s] = p /\ p \in RequestState /\ RequestFits(p) /\ Own(s) = Journal(s, p)
        BY <1>2, <2>1 DEF RegistrationInv, TypeOK
    <2>3. RequestFits(p)' BY <1>2, <2>2, FitsStay
    <2>4. Own(s)' = Own(s) BY <1>2 DEF Own
    <2>5. Own(s)' = Journal(s, req'[s]) BY <2>2, <2>4
    <2> QED BY <2>2, <2>3, <2>5 DEF Journal, Founded, Inserted
<1> QED BY <1>3, <1>4, <1>5, <1>6 DEF RegistrationInv

----------------------------------------------------------------------------
(* Every step keeps the invariant                                          *)

LEMMA InitFits ==
    ASSUME Init
    PROVE  RegistrationInv
<1>1. TypeOK BY IdleFits, ConstantsAssumption DEF Init, TypeOK
<1>2. RowsUnique /\ AccountsHaveTenant /\ WritesDistinct
    BY DEF Init, RowsUnique, AccountsHaveTenant, WritesDistinct
<1>3. \A r \in Requests : RequestFits(req[r]) /\ Own(r) = Journal(r, req[r])
    BY IdleFits DEF Init, Own
<1> QED BY <1>1, <1>2, <1>3 DEF Init, RegistrationInv

LEMMA StepKeeps == RegistrationInv /\ [Next]_vars => RegistrationInv'
<1> SUFFICES ASSUME RegistrationInv, [Next]_vars PROVE RegistrationInv'
    OBVIOUS
<1>1. ASSUME NEW r \in Requests, Start(r) PROVE RegistrationInv'
    <2>1. CASE \E path \in Flows, e \in Emails, o \in Emails \union {None} : Begin(r, path, e, o)
        BY <2>1, BeginKeeps
    <2>2. CASE \E e \in Emails : BeginComplete(r, e) BY <2>2, BeginCompleteKeeps
    <2> QED BY <1>1, <2>1, <2>2 DEF Start
<1>2. ASSUME NEW r \in Requests, Step(r) PROVE RegistrationInv'
    BY <1>2, CheckKeeps, CreateKeeps, FindTenantKeeps, InsertKeeps, AddAdminKeeps,
       PersistKeeps, ChallengeKeeps, ActivateKeeps, MarkKeeps, GreetKeeps DEF Step
<1>3. CASE \E r \in Requests : Start(r) \/ Step(r) \/ Fail(r) \/ Unanswered(r)
    BY <1>1, <1>2, <1>3, FailKeeps, UnansweredKeeps
<1>4. CASE \E e \in Emails : VerifyEmail(e) \/ ResendOtp(e)
    BY <1>4, VerifyEmailKeeps, ResendOtpKeeps
<1>5. CASE \E a \in Accounts, o \in Emails : ChangeOrgEmail(a, o)
    BY <1>5, ChangeOrgEmailKeeps
<1>6. CASE \E w \in writes : TenantCommit(w) \/ TenantLose(w)
    BY <1>6, TenantCommitKeeps, TenantLoseKeeps
<1>7. CASE UNCHANGED vars BY <1>7, StutterKeeps
<1> QED BY <1>3, <1>4, <1>5, <1>6, <1>7 DEF Next

\* Whatever overlaps, fails or is lost, rows, open transactions and requests fit together.
THEOREM RegistrationFits == Spec => []RegistrationInv
<1>1. Init => RegistrationInv BY InitFits
<1> QED BY <1>1, StepKeeps, PTL DEF Spec

\* The variables are of their types.
THEOREM RegistrationTyped == Spec => []TypeOK
<1>1. RegistrationInv => TypeOK BY DEF RegistrationInv
<1> QED BY <1>1, RegistrationFits, PTL

\* The tenant_id of a stored account is a stored organization, also across the services:
\* over HTTP because the organization was found stored first.
THEOREM TenantsAreStored == Spec => []AccountsHaveTenant
<1>1. RegistrationInv => AccountsHaveTenant BY DEF RegistrationInv
<1> QED BY <1>1, RegistrationFits, PTL

\* A set without two different elements has at most one.
LEMMA AtMostOne ==
    ASSUME NEW S, \A x, y \in S : x = y
    PROVE  Cardinality(S) <= 1
<1>1. CASE S = {} BY <1>1, FS_EmptySet
<1>2. CASE S # {}
    <2>1. PICK x \in S : TRUE BY <1>2
    <2>2. S = {x} BY <2>1
    <2> QED BY <2>2, FS_Singleton
<1> QED BY <1>1, <1>2

\* No two accounts and no two organizations have one email, in one process or two.
THEOREM EmailsAreUnique == Spec => []EmailsUnique
<1>1. RegistrationInv => EmailsUnique
    <2> SUFFICES ASSUME RegistrationInv, NEW e \in Emails
                 PROVE  Cardinality(AccountsOf(e)) <= 1 /\ Cardinality(TenantsOf(e)) <= 1
        BY DEF EmailsUnique
    <2>1. \A a, b \in AccountsOf(e) : a = b BY DEF RegistrationInv, RowsUnique, AccountsOf
    <2>2. \A s, t \in TenantsOf(e) : s = t BY DEF RegistrationInv, RowsUnique, TenantsOf
    <2> QED BY <2>1, <2>2, AtMostOne
<1> QED BY <1>1, RegistrationFits, PTL

----------------------------------------------------------------------------
(* Failures of the legacy endpoints                                        *)

\* A registration that has an account in its transaction, and nothing of it committed.
LEMMA InsertedIsOpen ==
    ASSUME RegistrationInv, NEW r \in Requests, Inserted(req[r])
    PROVE  accounts[req[r].account] = None
<1>1. PICK p : p = req[r] OBVIOUS
<1>2. /\ p \in RequestState /\ RequestFits(p) /\ Own(r) = Journal(r, p) /\ Inserted(p)
      /\ p.account \in Accounts /\ p.email \in Emails /\ p.tenant \in Tenants \union {None}
    BY <1>1 DEF RegistrationInv, TypeOK, RequestState, RequestFits, Registers, Inserted
<1>3. PICK w : w = WriteOf(r, "account", p.email, p.account, p.tenant) OBVIOUS
<1>4. w \in Write /\ w.op = "account" /\ w.account = p.account
    BY <1>2, <1>3 DEF WriteOf, Write, LocalOps
<1>5. w \in Own(r) BY <1>2, <1>3, <1>4 DEF Journal
<1> QED BY <1>1, <1>4, <1>5 DEF Own, RegistrationInv, WriteFits

\* In one process a registration has its organization in its transaction.
LEMMA FoundedIsOpen ==
    ASSUME RegistrationInv, NEW r \in Requests, Founded(req[r])
    PROVE  tenants[req[r].tenant] = None
<1>1. PICK p : p = req[r] OBVIOUS
<1>2. /\ p \in RequestState /\ RequestFits(p) /\ Own(r) = Journal(r, p) /\ Founded(p)
      /\ p.org \in Emails /\ p.tenant \in Tenants
    BY <1>1 DEF RegistrationInv, TypeOK, RequestState, RequestFits, Founded
<1>3. PICK w : w = WriteOf(r, "tenant", p.org, None, p.tenant) OBVIOUS
<1>4. w \in Write /\ w.op = "tenant" /\ w.tenant = p.tenant
    BY <1>2, <1>3 DEF WriteOf, Write, LocalOps
<1>5. w \in Own(r) BY <1>2, <1>3, <1>4 DEF Journal
<1> QED BY <1>1, <1>4, <1>5 DEF Own, RegistrationInv, WriteFits

\* A legacy endpoint that does not answer ok commits nothing.
LEMMA LegacyAllOrNothing ==
    ASSUME RegistrationInv, [Next]_vars, NEW r \in Requests,
           req[r].path \in Legacy, req'[r].pc = "idle", outcome'.answer # "ok"
    PROVE  UNCHANGED <<accounts, tenants>>
<1>1. req[r].pc # "idle" /\ req[r].pc \in Steps /\ RequestFits(req[r])
    BY IdleFits DEF RegistrationInv, TypeOK, RequestState, RequestFits, Legacy
<1>2. ~Completes(req[r]) /\ req[r].pc # "persist" BY <1>1 DEF RequestFits, Legacy
<1>3. req[r].pc \in {"check", "create", "find", "insert", "admin", "challenge"}
    BY <1>1, <1>2 DEF Completes, Steps
<1>5. ASSUME req'[r] = req[r] PROVE FALSE BY <1>1, <1>5
<1>6. ASSUME NEW s \in Requests, Start(s) \/ Step(s) \/ Fail(s) \/ Unanswered(s)
      PROVE  UNCHANGED <<accounts, tenants>>
    <2>1. CASE s # r
        <3>1. req'[r] = req[r] \/ UNCHANGED tables
            <4>1. req \in [Requests -> RequestState] BY DEF RegistrationInv, TypeOK
            <4>2. CASE \E path \in Flows, e \in Emails, o \in Emails \union {None} :
                           Begin(s, path, e, o)
                BY <4>2 DEF Begin
            <4>3. CASE \E e \in Emails : BeginComplete(s, e)
                BY <4>3 DEF BeginComplete
            <4>4. CASE Step(s)
                BY <2>1, <4>1, <4>4 DEF Step, Check, Create, FindTenant, Insert, AddAdmin,
                        Persist, Challenge, Activate, Mark, Greet, Refuse, Finish, GoTo
            <4>5. CASE Fail(s) \/ Unanswered(s) BY <4>5 DEF Fail, Unanswered
            <4> QED BY <1>6, <4>2, <4>3, <4>4, <4>5 DEF Start
        <3> QED BY <1>5, <3>1 DEF tables
    <2>2. CASE s = r
        <3>1. CASE Start(s)
            <4>1. req[r].pc = "idle"
                BY <2>2, <3>1 DEF Start, Begin, BeginComplete
            <4> QED BY <1>1, <4>1
        <3>2. CASE Step(s)
            <4>1. \/ Check(r) \/ Create(r) \/ FindTenant(r) \/ Insert(r) \/ AddAdmin(r)
                  \/ Challenge(r)
                BY <1>3, <2>2, <3>2 DEF Step, Persist, Activate, Mark, Greet
            <4>2. CASE Check(r) \/ Create(r) \/ FindTenant(r) \/ Insert(r) \/ AddAdmin(r)
                BY <4>2 DEF Check, Create, FindTenant, Insert, AddAdmin, Refuse, tables
            <4>3. CASE Challenge(r) BY <4>3 DEF Challenge, Finish
            <4> QED BY <4>1, <4>2, <4>3
        <3>3. CASE Fail(s) \/ Unanswered(s) BY <3>3 DEF Fail, Unanswered, tables
        <3> QED BY <1>6, <3>1, <3>2, <3>3
    <2> QED BY <2>1, <2>2
<1>7. CASE \E e \in Emails : VerifyEmail(e) \/ ResendOtp(e)
    BY <1>5, <1>7 DEF VerifyEmail, ResendOtp
<1>8. CASE \E b \in Accounts, o \in Emails : ChangeOrgEmail(b, o)
    BY <1>5, <1>8 DEF ChangeOrgEmail
<1>9. CASE \E w \in writes : TenantCommit(w) \/ TenantLose(w)
    BY <1>5, <1>9 DEF TenantCommit, TenantLose
<1>10. CASE UNCHANGED vars BY <1>5, <1>10 DEF vars
<1> QED BY <1>6, <1>7, <1>8, <1>9, <1>10 DEF Next

\* What a legacy registration has under way is not stored: its account, and in one
\* process its organization.
LEMMA LegacyIsOpen ==
    ASSUME RegistrationInv, NEW r \in Requests, req[r].path \in Legacy
    PROVE  /\ req[r].account \in Accounts => accounts[req[r].account] = None
           /\ ~Remote /\ req[r].tenant \in Tenants => tenants[req[r].tenant] = None
<1>1. PICK p : p = req[r] OBVIOUS
<1>2. p \in RequestState /\ RequestFits(p) /\ p.path \in Legacy
    BY <1>1 DEF RegistrationInv, TypeOK
<1>3. p.pc # "idle" BY <1>2, IdleFits DEF RequestFits, Legacy
<1>4. p.pc \in {"check", "create", "find", "insert"} \/ Inserted(p)
    BY <1>2, <1>3 DEF RequestFits, RequestState, Steps, Completes, Inserted, Legacy
<1>5. ASSUME p.account \in Accounts PROVE accounts[p.account] = None
    <2>1. p.account # None BY <1>5, NotNull
    <2>2. Inserted(p) BY <1>2, <1>4, <2>1 DEF RequestFits
    <2> QED BY <1>1, <2>2, InsertedIsOpen
<1>6. ASSUME ~Remote, p.tenant \in Tenants PROVE tenants[p.tenant] = None
    <2>1. p.tenant # None BY <1>6, NotNull
    <2>2. p.org # None /\ (p.pc = "insert" \/ Inserted(p))
        BY <1>2, <1>4, <2>1 DEF RequestFits
    <2> QED BY <1>1, <1>6, <2>2, FoundedIsOpen DEF Founded
<1> QED BY <1>1, <1>5, <1>6

\* The legacy endpoints commit the account together with its code, or neither; in one
\* process the organization too.
THEOREM LegacyIsAtomic == Spec => LegacyFailureLeavesNothing
<1> DEFINE AllOrNothing ==
        \A r \in Requests :
            req[r].path \in Legacy /\ req'[r].pc = "idle" /\ outcome'.answer # "ok" =>
              /\ \A a \in Accounts : req[r].account = a => accounts'[a] = None
              /\ \A t \in Tenants : ~Remote /\ req[r].tenant = t => tenants'[t] = None
<1>1. RegistrationInv /\ [Next]_vars => [AllOrNothing]_vars
    BY LegacyAllOrNothing, LegacyIsOpen
<1> QED BY <1>1, RegistrationFits, PTL DEF Spec, LegacyFailureLeavesNothing
=============================================================================
