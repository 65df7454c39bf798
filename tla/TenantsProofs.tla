---------------------------- MODULE TenantsProofs ----------------------------
(***************************************************************************)
(* Theorems of Tenants for any number of organizations, accounts,          *)
(* invitations and overlapping requests, with their proofs.                *)
(*                                                                         *)
(* What a request decided on its snapshot still fits the rows when it      *)
(* commits (WritesFit), with one exception: an email that was free may be  *)
(* taken by then, and only the unique index finds out. That emails are     *)
(* unique is therefore what makes an invitation single use.                *)
(***************************************************************************)
EXTENDS Tenants, FiniteSetTheorems, TLAPS

----------------------------------------------------------------------------
(* The constants of the specification                                      *)

\* The record of a request that does nothing is one, and decides nothing.
LEMMA IdleFits == Idle \in RequestState /\ WritesFit(Idle) /\ Idle.op = "idle" /\ Idle.mail = "none"
BY DEF Idle, RequestState, Ops, WritesFit

\* The values rows are made of are not the null value.
LEMMA NotNull ==
    /\ \A u \in UserRow : u # None
    /\ \A i \in InviteRow : i # None
    /\ \A i \in Invites : i # None
    /\ \A t \in Tenants : t # None
BY NoneAssumption, ConstantsAssumption

\* The sets that are counted are finite.
LEMMA MarkedFinite ==
    ASSUME NEW t
    PROVE  /\ IsFiniteSet(Due(t)) /\ Cardinality(Due(t)) \in Nat
           /\ IsFiniteSet(Sent(t)) /\ Cardinality(Sent(t)) \in Nat
           /\ Cardinality(Requests) \in Nat
<1>1. Due(t) \in SUBSET Requests /\ Sent(t) \in SUBSET Requests BY DEF Due, Sent
<1>2. IsFiniteSet(Requests) BY ConstantsAssumption
<1> QED BY <1>1, <1>2, FS_Subset, FS_CardinalityType

\* What the transaction of one request adds to the requests counted, or takes from them.
LEMMA MarkedAfter ==
    ASSUME TenantInv, NEW r \in Requests, NEW txn \in RequestState,
           req' = [req EXCEPT ![r] = txn], NEW t
    PROVE  /\ Cardinality(Due(t)') \in Nat
           /\ (req[r].mail = "due" /\ req[r].tenant = t <=> txn.mail = "due" /\ txn.tenant = t) =>
                Cardinality(Due(t)') = Cardinality(Due(t))
           /\ ~(req[r].mail = "due" /\ req[r].tenant = t) /\ txn.mail = "due" /\ txn.tenant = t =>
                Cardinality(Due(t)') = Cardinality(Due(t)) + 1
           /\ req[r].mail = "due" /\ req[r].tenant = t /\ ~(txn.mail = "due" /\ txn.tenant = t) =>
                Cardinality(Due(t)') = Cardinality(Due(t)) - 1
           /\ Cardinality(Sent(t)') \in Nat
           /\ (req[r].mail = "sent" /\ req[r].tenant = t <=> txn.mail = "sent" /\ txn.tenant = t) =>
                Cardinality(Sent(t)') = Cardinality(Sent(t))
           /\ ~(req[r].mail = "sent" /\ req[r].tenant = t) /\ txn.mail = "sent" /\ txn.tenant = t =>
                Cardinality(Sent(t)') = Cardinality(Sent(t)) + 1
           /\ req[r].mail = "sent" /\ req[r].tenant = t /\ ~(txn.mail = "sent" /\ txn.tenant = t) =>
                Cardinality(Sent(t)') = Cardinality(Sent(t)) - 1
<1>1. req'[r] = txn /\ \A s \in Requests \ {r} : req'[s] = req[s] BY DEF TenantInv, TypeOK
<1>2. PICK D, E : D = Due(t) /\ E = Due(t)' OBVIOUS
<1>3. PICK S, T : S = Sent(t) /\ T = Sent(t)' OBVIOUS
<1>4. IsFiniteSet(D) /\ IsFiniteSet(S) BY <1>2, <1>3, MarkedFinite
<1>5. /\ IsFiniteSet(D \union {r}) /\ IsFiniteSet(D \ {r})
      /\ Cardinality(D \union {r}) =
           IF r \in D THEN Cardinality(D) ELSE Cardinality(D) + 1
      /\ Cardinality(D \ {r}) = IF r \in D THEN Cardinality(D) - 1 ELSE Cardinality(D)
      /\ Cardinality(D) \in Nat
    BY <1>4, FS_AddElement, FS_RemoveElement, FS_CardinalityType
<1>6. /\ Cardinality(E) \in Nat
      /\ (r \in D <=> txn.mail = "due" /\ txn.tenant = t) => Cardinality(E) = Cardinality(D)
      /\ r \notin D /\ txn.mail = "due" /\ txn.tenant = t => Cardinality(E) = Cardinality(D) + 1
      /\ r \in D /\ ~(txn.mail = "due" /\ txn.tenant = t) => Cardinality(E) = Cardinality(D) - 1
    <2>1. E = IF txn.mail = "due" /\ txn.tenant = t THEN D \union {r} ELSE D \ {r}
        BY <1>1, <1>2, <1>3 DEF Due
    <2>2. CASE txn.mail = "due" /\ txn.tenant = t
        <3>1. E = D \union {r} BY <2>1, <2>2
        <3>2. Cardinality(E) \in Nat BY <1>5, <3>1, FS_CardinalityType
        <3> QED BY <1>5, <2>2, <3>1, <3>2
    <2>3. CASE ~(txn.mail = "due" /\ txn.tenant = t)
        <3>1. E = D \ {r} BY <2>1, <2>3
        <3>2. Cardinality(E) \in Nat BY <1>5, <3>1, FS_CardinalityType
        <3> QED BY <1>5, <2>3, <3>1, <3>2
    <2> QED BY <2>2, <2>3
<1>7. /\ IsFiniteSet(S \union {r}) /\ IsFiniteSet(S \ {r})
      /\ Cardinality(S \union {r}) =
           IF r \in S THEN Cardinality(S) ELSE Cardinality(S) + 1
      /\ Cardinality(S \ {r}) = IF r \in S THEN Cardinality(S) - 1 ELSE Cardinality(S)
      /\ Cardinality(S) \in Nat
    BY <1>4, FS_AddElement, FS_RemoveElement, FS_CardinalityType
<1>8. /\ Cardinality(T) \in Nat
      /\ (r \in S <=> txn.mail = "sent" /\ txn.tenant = t) => Cardinality(T) = Cardinality(S)
      /\ r \notin S /\ txn.mail = "sent" /\ txn.tenant = t => Cardinality(T) = Cardinality(S) + 1
      /\ r \in S /\ ~(txn.mail = "sent" /\ txn.tenant = t) => Cardinality(T) = Cardinality(S) - 1
    <2>1. T = IF txn.mail = "sent" /\ txn.tenant = t THEN S \union {r} ELSE S \ {r}
        BY <1>1, <1>2, <1>3 DEF Sent
    <2>2. CASE txn.mail = "sent" /\ txn.tenant = t
        <3>1. T = S \union {r} BY <2>1, <2>2
        <3>2. Cardinality(T) \in Nat BY <1>7, <3>1, FS_CardinalityType
        <3> QED BY <1>7, <2>2, <3>1, <3>2
    <2>3. CASE ~(txn.mail = "sent" /\ txn.tenant = t)
        <3>1. T = S \ {r} BY <2>1, <2>3
        <3>2. Cardinality(T) \in Nat BY <1>7, <3>1, FS_CardinalityType
        <3> QED BY <1>7, <2>3, <3>1, <3>2
    <2> QED BY <2>2, <2>3
<1>9. r \in D <=> req[r].mail = "due" /\ req[r].tenant = t BY <1>2 DEF Due
<1>10. r \in S <=> req[r].mail = "sent" /\ req[r].tenant = t BY <1>3 DEF Sent
<1> QED BY <1>2, <1>3, <1>6, <1>8, <1>9, <1>10

\* A request that mails no completion leaves the counts as they are.
LEMMA MarkedStay ==
    ASSUME TenantInv, NEW r \in Requests, NEW txn \in RequestState,
           req' = [req EXCEPT ![r] = txn], req[r].mail = "none", txn.mail = "none",
           \A t \in Tenants : tenants'[t].completed = tenants[t].completed,
           mails' = mails, undone' = undone
    PROVE  CompletionsFit'
<1> SUFFICES ASSUME NEW t \in Tenants
             PROVE  /\ mails[t] >= undone[t] + Cardinality(Sent(t)')
                    /\ tenants[t].completed <=>
                         mails[t] > undone[t] + Cardinality(Sent(t)')
                    /\ mails[t] + Cardinality(Due(t)')
                         <= Cardinality(Requests) + undone[t]
    BY DEF CompletionsFit
<1>1. Cardinality(Sent(t)') = Cardinality(Sent(t)) BY MarkedAfter
<1>2. Cardinality(Due(t)') = Cardinality(Due(t)) BY MarkedAfter
<1> QED BY <1>1, <1>2 DEF TenantInv, CompletionsFit

----------------------------------------------------------------------------
(* A request begins, or ends without a write                               *)

\* The tables keep what is said of them alone.
LEMMA TablesKept ==
    ASSUME TenantInv, UNCHANGED <<users, tenants, admins, invites>>,
           req' \in [Requests -> RequestState],
           mails' \in [Tenants -> Nat], undone' \in [Tenants -> Nat],
           \A r \in Requests : WritesFit(req'[r]), CompletionsFit'
    PROVE  TenantInv'
<1>1. TypeOK' BY DEF TenantInv, TypeOK
<1>2. EmailsUnique' /\ AdminsBelong' BY DEF TenantInv, EmailsUnique, AdminsBelong
<1>3. InvitationsSingleUse' BY DEF TenantInv, InvitationsSingleUse
<1>4. FoundersFit' BY DEF TenantInv, FoundersFit
<1>5. \A r \in Requests : WritesFit(req[r])' BY DEF WritesFit
<1> QED BY <1>1, <1>2, <1>3, <1>4, <1>5 DEF TenantInv

\* A request begins with a decision that fits.
LEMMA OpenKeeps ==
    ASSUME TenantInv, NEW r \in Requests, NEW txn \in RequestState,
           WritesFit(txn), txn.mail = "none", Open(r, txn)
    PROVE  TenantInv'
<1>1. /\ req' = [req EXCEPT ![r] = txn] /\ req[r] = Idle
      /\ UNCHANGED <<users, tenants, admins, invites>> /\ mails' = mails /\ undone' = undone
    BY DEF Open, tables
<1>2. req' \in [Requests -> RequestState] BY <1>1 DEF TenantInv, TypeOK
<1>3. \A s \in Requests : WritesFit(req'[s]) BY <1>1 DEF TenantInv, TypeOK
<1>4. CompletionsFit' BY <1>1, IdleFits, MarkedStay
<1> QED BY <1>1, <1>2, <1>3, <1>4, TablesKept DEF TenantInv, TypeOK

\* A request that finds the profile incomplete is the first, or overlaps all that were.
LEMMA DueKeeps ==
    ASSUME TenantInv, NEW r \in Requests, NEW t \in Tenants, NEW txn \in RequestState,
           WritesFit(txn), txn.mail = "due", txn.tenant = t, ~tenants[t].completed, Open(r, txn)
    PROVE  TenantInv'
<1>1. /\ req' = [req EXCEPT ![r] = txn] /\ req[r] = Idle
      /\ UNCHANGED <<users, tenants, admins, invites>> /\ mails' = mails /\ undone' = undone
    BY DEF Open, tables
<1>2. req' \in [Requests -> RequestState] BY <1>1 DEF TenantInv, TypeOK
<1>3. \A s \in Requests : WritesFit(req'[s]) BY <1>1 DEF TenantInv, TypeOK
<1>4. ASSUME NEW s \in Tenants
      PROVE  /\ mails[s] >= undone[s] + Cardinality(Sent(s)')
             /\ tenants[s].completed <=>
                  mails[s] > undone[s] + Cardinality(Sent(s)')
             /\ mails[s] + Cardinality(Due(s)')
                  <= Cardinality(Requests) + undone[s]
    <2>1. Cardinality(Sent(s)') = Cardinality(Sent(s))
        BY <1>1, IdleFits, MarkedAfter
    <2>2. CASE s # t
        <3>1. Cardinality(Due(s)') = Cardinality(Due(s))
            BY <1>1, <2>2, IdleFits, MarkedAfter
        <3> QED BY <2>1, <3>1 DEF TenantInv, CompletionsFit
    <2>3. CASE s = t
        <3>1. Cardinality(Due(s)') = Cardinality(Due(s)) + 1
            BY <1>1, <2>3, IdleFits, MarkedAfter
        <3>2. PICK D : D = Due(s) OBVIOUS
        <3>3. PICK S : S = Sent(s) OBVIOUS
        <3>4. /\ D \union {r} \in SUBSET Requests /\ S \in SUBSET Requests /\ r \notin D
              /\ (D \union {r}) \intersect S = {}
            BY <1>1, <3>2, <3>3, IdleFits DEF Due, Sent
        <3>5. /\ IsFiniteSet(D) /\ Cardinality(D) \in Nat
              /\ IsFiniteSet(S) /\ Cardinality(S) \in Nat /\ Cardinality(Requests) \in Nat
            BY <3>2, <3>3, MarkedFinite
        <3>6. IsFiniteSet(D \union {r}) /\ Cardinality(D \union {r}) = Cardinality(D) + 1
            BY <3>4, <3>5, FS_AddElement
        <3>7. Cardinality((D \union {r}) \union S) = Cardinality(D \union {r}) + Cardinality(S)
                 - Cardinality((D \union {r}) \intersect S)
            BY <3>5, <3>6, FS_Union
        <3>8. Cardinality((D \union {r}) \intersect S) = 0 BY <3>4, FS_EmptySet
        <3>9. (D \union {r}) \union S \in SUBSET Requests BY <3>4
        <3>10. Cardinality((D \union {r}) \union S) <= Cardinality(Requests)
            BY <3>9, ConstantsAssumption, FS_Subset
        <3>11. Cardinality(D) + 1 + Cardinality(S) <= Cardinality(Requests)
            BY <3>5, <3>6, <3>7, <3>8, <3>10
        <3>12. mails[s] \in Nat /\ undone[s] \in Nat BY DEF TenantInv, TypeOK
        <3>13. /\ mails[s] >= undone[s] + Cardinality(S)
               /\ ~(mails[s] > undone[s] + Cardinality(S))
            BY <2>3, <3>3 DEF TenantInv, CompletionsFit
        <3>14. mails[s] + (Cardinality(D) + 1) <= Cardinality(Requests) + undone[s]
            BY <3>5, <3>11, <3>12, <3>13
        <3>15. Cardinality(Due(s)') = Cardinality(D) + 1 BY <3>1, <3>2
        <3>16. Cardinality(Sent(s)') = Cardinality(S) BY <2>1, <3>3
        <3> QED BY <2>3, <3>13, <3>14, <3>15, <3>16
    <2> QED BY <2>2, <2>3
<1>5. CompletionsFit' BY <1>1, <1>4 DEF CompletionsFit
<1> QED BY <1>1, <1>2, <1>3, <1>5, TablesKept DEF TenantInv, TypeOK

\* The decision every request takes on its snapshot fits.
LEMMA ReadKeeps ==
    ASSUME TenantInv, NEW r \in Requests, Read(r)
    PROVE  TenantInv'
<1>1. ASSUME NEW u \in Users, NEW t \in Tenants, NEW e \in Emails, NEW role \in Roles,
             Invite(r, u, t, e, role)
      PROVE  TenantInv'
    <2>1. PICK txn : txn = [Idle EXCEPT !.op = "invite", !.tenant = t, !.email = e, !.role = role]
        OBVIOUS
    <2>2. txn \in RequestState /\ txn.op = "invite" /\ txn.mail = "none"
          /\ txn.tenant = t /\ txn.email = e /\ txn.role = role
        BY <2>1, IdleFits DEF RequestState, Ops
    <2>3. role \in InviteRoles /\ Open(r, txn) BY <1>1, <2>1 DEF Invite
    <2>4. WritesFit(txn) BY <2>2, <2>3 DEF WritesFit
    <2> QED BY <2>2, <2>3, <2>4, OpenKeeps
<1>2. ASSUME NEW i \in Invites, Accept(r, i) PROVE TenantInv'
    <2>1. invites[i] # None BY <1>2 DEF Accept, Acceptable
    <2>2. invites[i] \in InviteRow BY <2>1 DEF TenantInv, TypeOK
    <2>3. /\ invites[i].tenant \in Tenants /\ invites[i].email \in Emails
          /\ invites[i].role \in Roles
        BY <2>2 DEF InviteRow, InviteRoles, Roles
    <2>4. PICK txn : txn = [Idle EXCEPT !.op = "accept", !.invite = i,
                                !.tenant = invites[i].tenant, !.email = invites[i].email,
                                !.role = invites[i].role, !.status = "pending"]
        OBVIOUS
    <2>5. txn \in RequestState /\ txn.op = "accept" /\ txn.mail = "none" /\ txn.invite = i
          /\ txn.tenant = invites[i].tenant /\ txn.email = invites[i].email
          /\ txn.role = invites[i].role /\ txn.status = "pending"
        BY <2>3, <2>4, IdleFits, ConstantsAssumption DEF RequestState, Ops
    <2>6. WritesFit(txn) BY <2>1, <2>5 DEF WritesFit
    <2>7. Open(r, txn) BY <1>2, <2>4 DEF Accept
    <2> QED BY <2>5, <2>6, <2>7, OpenKeeps
<1>3. ASSUME NEW e \in Emails, Register(r, e) PROVE TenantInv'
    <2>1. PICK txn : txn = [Idle EXCEPT !.op = "register", !.email = e, !.role = "individual",
                                        !.status = "pending"]
        OBVIOUS
    <2>2. Idle.tenant = None /\ Idle.invite = None BY DEF Idle
    <2>3. txn \in RequestState /\ txn.op = "register" /\ txn.mail = "none" /\ txn.email = e
          /\ txn.role = "individual" /\ txn.status = "pending"
          /\ txn.tenant = None /\ txn.invite = None
        BY <2>1, <2>2, IdleFits, ConstantsAssumption DEF RequestState, Ops, Roles
    <2>4. WritesFit(txn) BY <2>3 DEF WritesFit
    <2>5. Open(r, txn) BY <1>3, <2>1 DEF Register
    <2> QED BY <2>3, <2>4, <2>5, OpenKeeps
<1>4. ASSUME NEW u \in Users, NEW op \in {"verify", "self_status"}, NEW s \in Statuses,
             users[u] # None,
             Open(r, [Idle EXCEPT !.op = op, !.user = u, !.status = Written(u, s)])
      PROVE  TenantInv'
    <2>1. PICK w : w = Written(u, s) OBVIOUS
    <2>2. w \in Statuses \union {None} BY <2>1 DEF Written
    <2>3. PICK txn : txn = [Idle EXCEPT !.op = op, !.user = u, !.status = w] OBVIOUS
    <2>4. txn \in RequestState /\ txn.op = op /\ txn.mail = "none" /\ txn.user = u
        BY <2>2, <2>3, IdleFits DEF RequestState, Ops
    <2>5. WritesFit(txn) BY <1>4, <2>4 DEF WritesFit
    <2>6. Open(r, txn) BY <1>4, <2>1, <2>3
    <2> QED BY <2>4, <2>5, <2>6, OpenKeeps
<1>5. ASSUME NEW u \in Users, Verify(r, u) PROVE TenantInv'
    BY <1>4, <1>5, ConstantsAssumption DEF Verify
<1>6. ASSUME NEW u \in Users, NEW s \in Statuses, UpdateMyStatus(r, u, s) PROVE TenantInv'
    BY <1>4, <1>6 DEF UpdateMyStatus, Authenticated
<1>7. ASSUME NEW u \in Users, NEW t \in Tenants, UpdateProfile(r, u, t) PROVE TenantInv'
    <2>1. PICK m : m = IF tenants[t].completed THEN "none" ELSE "due" OBVIOUS
    <2>2. tenants[t].completed \in BOOLEAN BY DEF TenantInv, TypeOK, TenantRow
    <2>3. PICK txn : txn = [Idle EXCEPT !.op = "profile", !.tenant = t, !.mail = m]
        OBVIOUS
    <2>4. m \in {"none", "due"} BY <2>1
    <2>5. txn \in RequestState /\ txn.op = "profile" /\ txn.mail = m /\ txn.tenant = t
        BY <2>3, <2>4, IdleFits DEF RequestState, Ops
    <2>6. WritesFit(txn)
        <3>1. m = "none" => tenants[t].completed BY <2>1
        <3> QED BY <2>5, <3>1 DEF WritesFit
    <2>7. Open(r, txn) BY <1>7, <2>1, <2>3 DEF UpdateProfile
    <2>8. CASE m = "none" BY <2>5, <2>6, <2>7, <2>8, OpenKeeps
    <2>9. CASE m = "due"
        <3>1. ~tenants[t].completed BY <2>1, <2>9
        <3> QED BY <2>5, <2>6, <2>7, <2>9, <3>1, DueKeeps
    <2> QED BY <2>4, <2>8, <2>9
<1>8. ASSUME NEW u \in Users, NEW t \in Tenants, NEW s \in Statuses, UpdateStatus(r, u, t, s)
      PROVE  TenantInv'
    <2>1. PICK txn : txn = [Idle EXCEPT !.op = "status", !.tenant = t, !.status = s] OBVIOUS
    <2>2. txn \in RequestState /\ txn.op = "status" /\ txn.mail = "none" /\ txn.tenant = t
          /\ txn.status = s
        BY <2>1, IdleFits DEF RequestState, Ops
    <2>3. WritesFit(txn) BY <2>2 DEF WritesFit
    <2>4. Open(r, txn) BY <1>8, <2>1 DEF UpdateStatus
    <2> QED BY <2>2, <2>3, <2>4, OpenKeeps
<1>9. CASE \E u \in Users, t \in Tenants, e \in Emails, role \in Roles : Invite(r, u, t, e, role)
    BY <1>1, <1>9
<1>10. CASE \E u \in Users, t \in Tenants, s \in Statuses : UpdateStatus(r, u, t, s)
    BY <1>8, <1>10
<1> QED BY <1>2, <1>3, <1>5, <1>6, <1>7, <1>9, <1>10 DEF Read

\* A completion is mailed: one request less has it to mail, one more has mailed it.
LEMMA MailKeeps ==
    ASSUME TenantInv, NEW r \in Requests, Mail(r)
    PROVE  TenantInv'
<1>1. PICK q : q = req[r] OBVIOUS
<1>2. PICK txn : txn = [q EXCEPT !.mail = "sent"] OBVIOUS
<1>3. q \in RequestState /\ WritesFit(q) /\ q.mail = "due"
    BY <1>1 DEF TenantInv, TypeOK, Mail
<1>4. q.op = "profile" /\ q.tenant \in Tenants BY <1>3 DEF WritesFit
<1>5. PICK t : t = q.tenant OBVIOUS
<1>6. /\ txn \in RequestState /\ txn.mail = "sent" /\ txn.op = "profile" /\ txn.tenant = t
    BY <1>2, <1>3, <1>4, <1>5 DEF RequestState
<1>7. WritesFit(txn) BY <1>4, <1>5, <1>6 DEF WritesFit
<1>8. /\ req' = [req EXCEPT ![r] = txn] /\ mails' = [mails EXCEPT ![t] = @ + 1]
      /\ undone' = undone /\ UNCHANGED <<users, tenants, admins, invites>>
    BY <1>1, <1>2, <1>5 DEF Mail, tables
<1>9. req' \in [Requests -> RequestState] /\ \A s \in Requests : WritesFit(req'[s])
    BY <1>6, <1>7, <1>8 DEF TenantInv, TypeOK
<1>10. ASSUME NEW s \in Tenants
       PROVE  /\ mails'[s] >= undone[s] + Cardinality(Sent(s)')
              /\ tenants[s].completed <=>
                   mails'[s] > undone[s] + Cardinality(Sent(s)')
              /\ mails'[s] + Cardinality(Due(s)')
                   <= Cardinality(Requests) + undone[s]
    <2>1. /\ mails[s] \in Nat /\ undone[s] \in Nat /\ Cardinality(Requests) \in Nat
          /\ Cardinality(Sent(s)) \in Nat /\ Cardinality(Due(s)) \in Nat
        BY MarkedFinite DEF TenantInv, TypeOK
    <2>2. /\ mails[s] >= undone[s] + Cardinality(Sent(s))
          /\ tenants[s].completed <=> mails[s] > undone[s] + Cardinality(Sent(s))
          /\ mails[s] + Cardinality(Due(s)) <= Cardinality(Requests) + undone[s]
        BY DEF TenantInv, CompletionsFit
    <2>3. CASE s = t
        <3>1. mails'[s] = mails[s] + 1 BY <1>8, <2>3 DEF TenantInv, TypeOK
        <3>2. Cardinality(Sent(s)') = Cardinality(Sent(s)) + 1
            BY <1>1, <1>3, <1>6, <1>8, <2>3, MarkedAfter
        <3>3. Cardinality(Due(s)') = Cardinality(Due(s)) - 1
            BY <1>1, <1>3, <1>5, <1>6, <1>8, <2>3, MarkedAfter
        <3> QED BY <2>1, <2>2, <3>1, <3>2, <3>3
    <2>4. CASE s # t
        <3>1. mails'[s] = mails[s] BY <1>8, <2>4 DEF TenantInv, TypeOK
        <3>2. Cardinality(Sent(s)') = Cardinality(Sent(s))
            BY <1>1, <1>5, <1>6, <1>8, <2>4, MarkedAfter
        <3>3. Cardinality(Due(s)') = Cardinality(Due(s))
            BY <1>1, <1>5, <1>6, <1>8, <2>4, MarkedAfter
        <3> QED BY <2>2, <3>1, <3>2, <3>3
    <2> QED BY <2>3, <2>4
<1>11. CompletionsFit' BY <1>8, <1>10 DEF CompletionsFit
<1>12. mails' \in [Tenants -> Nat] /\ undone' \in [Tenants -> Nat]
    BY <1>4, <1>5, <1>8 DEF TenantInv, TypeOK
<1> QED BY <1>8, <1>9, <1>11, <1>12, TablesKept

\* A request that fails takes back what it wrote, and not what it mailed.
LEMMA RollbackKeeps ==
    ASSUME TenantInv, NEW r \in Requests, Rollback(r)
    PROVE  TenantInv'
<1>1. PICK q : q = req[r] OBVIOUS
<1>2. /\ req' = [req EXCEPT ![r] = Idle] /\ mails' = mails
      /\ undone' = IF q.mail = "sent" THEN [undone EXCEPT ![q.tenant] = @ + 1] ELSE undone
      /\ UNCHANGED <<users, tenants, admins, invites>>
    BY <1>1 DEF Rollback, tables
<1>3. q \in RequestState /\ WritesFit(q) BY <1>1 DEF TenantInv, TypeOK
<1>4. q.mail = "sent" => q.tenant \in Tenants BY <1>3 DEF WritesFit
<1>5. req' \in [Requests -> RequestState] /\ \A s \in Requests : WritesFit(req'[s])
    BY <1>2, IdleFits DEF TenantInv, TypeOK
<1>6. /\ undone' \in [Tenants -> Nat]
      /\ \A s \in Tenants : undone'[s] =
             IF q.mail = "sent" /\ q.tenant = s THEN undone[s] + 1 ELSE undone[s]
    BY <1>2, <1>4 DEF TenantInv, TypeOK
<1>7. ASSUME NEW s \in Tenants
      PROVE  /\ mails[s] >= undone'[s] + Cardinality(Sent(s)')
             /\ tenants[s].completed <=>
                  mails[s] > undone'[s] + Cardinality(Sent(s)')
             /\ mails[s] + Cardinality(Due(s)')
                  <= Cardinality(Requests) + undone'[s]
    <2>1. /\ mails[s] \in Nat /\ undone[s] \in Nat /\ Cardinality(Requests) \in Nat
          /\ Cardinality(Sent(s)) \in Nat /\ Cardinality(Due(s)) \in Nat
          /\ Cardinality(Due(s)') \in Nat
        BY <1>2, IdleFits, MarkedFinite, MarkedAfter DEF TenantInv, TypeOK
    <2>2. /\ mails[s] >= undone[s] + Cardinality(Sent(s))
          /\ tenants[s].completed <=> mails[s] > undone[s] + Cardinality(Sent(s))
          /\ mails[s] + Cardinality(Due(s)) <= Cardinality(Requests) + undone[s]
        BY DEF TenantInv, CompletionsFit
    <2>3. Cardinality(Due(s)') <= Cardinality(Due(s))
        <3>1. \/ Cardinality(Due(s)') = Cardinality(Due(s))
              \/ Cardinality(Due(s)') = Cardinality(Due(s)) - 1
            BY <1>2, IdleFits, MarkedAfter
        <3> QED BY <2>1, <3>1
    <2>4. CASE q.mail = "sent" /\ q.tenant = s
        <3>1. Cardinality(Sent(s)') = Cardinality(Sent(s)) - 1
            BY <1>1, <1>2, <2>4, IdleFits, MarkedAfter
        <3>2. undone'[s] = undone[s] + 1 BY <1>6, <2>4
        <3> QED BY <2>1, <2>2, <2>3, <3>1, <3>2
    <2>5. CASE ~(q.mail = "sent" /\ q.tenant = s)
        <3>1. Cardinality(Sent(s)') = Cardinality(Sent(s))
            BY <1>1, <1>2, <2>5, IdleFits, MarkedAfter
        <3>2. undone'[s] = undone[s] BY <1>6, <2>5
        <3> QED BY <2>1, <2>2, <2>3, <3>1, <3>2
    <2> QED BY <2>4, <2>5
<1>8. CompletionsFit' BY <1>2, <1>7 DEF CompletionsFit
<1>9. mails' \in [Tenants -> Nat] BY <1>2 DEF TenantInv, TypeOK
<1> QED BY <1>2, <1>5, <1>6, <1>8, <1>9, TablesKept

----------------------------------------------------------------------------
(* A request commits                                                       *)

\* What the other requests will write still fits when rows are added and flags set.
LEMMA WritesStay ==
    ASSUME TenantInv, NEW r \in Requests, req' = [req EXCEPT ![r] = Idle],
           \A u \in Users : users[u] # None => users'[u] # None,
           \A i \in Invites : invites[i] # None =>
               /\ invites'[i] # None
               /\ invites'[i].tenant = invites[i].tenant
               /\ invites'[i].email = invites[i].email
               /\ invites'[i].role = invites[i].role,
           \A t \in Tenants : tenants[t].completed => tenants'[t].completed
    PROVE  req' \in [Requests -> RequestState] /\ \A s \in Requests : WritesFit(req[s])'
<1>1. req' \in [Requests -> RequestState] BY IdleFits DEF TenantInv, TypeOK
<1>2. ASSUME NEW s \in Requests PROVE WritesFit(req[s])'
    <2>1. CASE s = r
        <3>1. req'[s] = Idle BY <2>1 DEF TenantInv, TypeOK
        <3> QED BY <3>1 DEF WritesFit, Idle
    <2>2. CASE s # r
        <3>1. PICK q : q = req[s] OBVIOUS
        <3>2. req'[s] = q BY <2>2, <3>1 DEF TenantInv, TypeOK
        <3>3. WritesFit(q) BY <3>1 DEF TenantInv
        <3> QED BY <3>2, <3>3 DEF WritesFit
    <2> QED BY <2>1, <2>2
<1> QED BY <1>1, <1>2

\* A request that completes no profile leaves the counts as they are.
LEMMA CountsStay ==
    ASSUME TenantInv, NEW r \in Requests, req' = [req EXCEPT ![r] = Idle],
           req[r].mail = "none",
           \A t \in Tenants : tenants'[t].completed = tenants[t].completed,
           mails' = mails, undone' = undone
    PROVE  CompletionsFit'
BY IdleFits, MarkedStay

\* The new row of an invitation.
LEMMA CommitInvite ==
    ASSUME TenantInv, NEW r \in Requests, Commit(r), req[r].op = "invite"
    PROVE  TenantInv'
<1>1. PICK q : q = req[r] OBVIOUS
<1>2. /\ q.op = "invite" /\ q.tenant \in Tenants /\ q.email \in Emails
      /\ q.role \in InviteRoles /\ q.mail = "none"
    BY <1>1 DEF TenantInv, WritesFit
<1>3. PICK i \in Invites :
          /\ invites[i] = None
          /\ invites' = [invites EXCEPT ![i] = [tenant |-> q.tenant, email |-> q.email,
                             role |-> q.role, accepted |-> FALSE, expired |-> FALSE]]
          /\ users' = users /\ admins' = admins
    BY <1>1, <1>2 DEF Commit, InviteTarget, UsersAfter, AdminsAfter, InvitesAfter, Inserts
<1>4. tenants' = tenants /\ mails' = mails /\ undone' = undone /\ req' = [req EXCEPT ![r] = Idle]
    BY <1>1, <1>2 DEF Commit, TenantsAfter
<1>5. PICK row : row = [tenant |-> q.tenant, email |-> q.email, role |-> q.role,
                        accepted |-> FALSE, expired |-> FALSE]
    OBVIOUS
<1>6. row \in InviteRow /\ ~row.accepted BY <1>2, <1>5 DEF InviteRow
<1>7. invites' = [invites EXCEPT ![i] = row] BY <1>3, <1>5
<1>8. req' \in [Requests -> RequestState] /\ \A s \in Requests : WritesFit(req[s])'
    BY <1>3, <1>4, <1>7, WritesStay DEF TenantInv, TypeOK
<1>9. CompletionsFit' BY <1>1, <1>2, <1>4, CountsStay
<1>10. TypeOK' BY <1>3, <1>4, <1>6, <1>7, <1>8 DEF TenantInv, TypeOK
<1>11. EmailsUnique' /\ AdminsBelong' /\ FoundersFit'
    BY <1>3 DEF TenantInv, EmailsUnique, AdminsBelong, FoundersFit
<1>12. InvitationsSingleUse'
    <2>1. \A u \in Users : users[u] # None /\ users[u].from # None =>
              users[u].from \in Invites /\ invites'[users[u].from] = invites[users[u].from]
        BY <1>3, <1>7 DEF TenantInv, TypeOK, UserRow, InvitationsSingleUse
    <2>2. \A j \in Invites : invites'[j] # None /\ invites'[j].accepted =>
              invites[j] # None /\ invites[j].accepted
        BY <1>3, <1>6, <1>7 DEF TenantInv, TypeOK
    <2> QED BY <1>3, <2>1, <2>2 DEF TenantInv, InvitationsSingleUse
<1> QED BY <1>8, <1>9, <1>10, <1>11, <1>12 DEF TenantInv

\* A new row of users, whose email the unique index found free.
LEMMA NewUser ==
    ASSUME TenantInv, NEW u \in Users, users[u] = None, NEW row \in UserRow,
           ~Taken(row.email), users' = [users EXCEPT ![u] = row]
    PROVE  /\ users' \in [Users -> UserRow \union {None}]
           /\ users'[u] = row /\ users'[u] # None
           /\ \A v \in Users \ {u} : users'[v] = users[v]
           /\ \A v \in Users : users[v] # None => v # u /\ users'[v] = users[v]
           /\ EmailsUnique'
<1>1. users' \in [Users -> UserRow \union {None}] BY DEF TenantInv, TypeOK
<1>2. users'[u] = row /\ users'[u] # None BY NotNull DEF TenantInv, TypeOK
<1>3. \A v \in Users \ {u} : users'[v] = users[v] BY DEF TenantInv, TypeOK
<1>4. EmailsUnique' BY <1>2, <1>3 DEF TenantInv, EmailsUnique, Taken
<1> QED BY <1>1, <1>2, <1>3, <1>4

\* The account of an accepted invitation.
LEMMA CommitAccept ==
    ASSUME TenantInv, NEW r \in Requests, Commit(r), req[r].op = "accept"
    PROVE  TenantInv'
<1>1. PICK q : q = req[r] OBVIOUS
<1>2. /\ q.op = "accept" /\ q.invite \in Invites /\ invites[q.invite] # None
      /\ q.tenant = invites[q.invite].tenant /\ q.email = invites[q.invite].email
      /\ q.role = invites[q.invite].role /\ q.status = "pending" /\ q.mail = "none"
    BY <1>1 DEF TenantInv, WritesFit
<1>3. PICK i : i = q.invite OBVIOUS
<1>4. PICK u \in Users :
          /\ users[u] = None
          /\ users' = [users EXCEPT ![u] = [email |-> q.email, role |-> q.role,
                           tenant |-> q.tenant, status |-> q.status, from |-> q.invite]]
          /\ admins' = IF q.role = "tenant_admin" THEN admins \union {<<q.tenant, u>>} ELSE admins
          /\ invites' = [invites EXCEPT ![i].accepted = TRUE]
    BY <1>1, <1>2, <1>3 DEF Commit, Target, InviteTarget, UsersAfter, AdminsAfter, InvitesAfter,
                            Inserts
<1>5. /\ tenants' = tenants /\ mails' = mails /\ undone' = undone /\ req' = [req EXCEPT ![r] = Idle]
      /\ ~Taken(q.email)
    BY <1>1, <1>2 DEF Commit, TenantsAfter, Clashes, Inserts
<1>6. invites[i] \in InviteRow /\ i \in Invites BY <1>2, <1>3 DEF TenantInv, TypeOK
<1>7. q.tenant \in Tenants /\ q.email \in Emails /\ q.role \in InviteRoles
    BY <1>2, <1>3, <1>6 DEF InviteRow
<1>8. PICK row : row = [email |-> q.email, role |-> q.role, tenant |-> q.tenant,
                        status |-> q.status, from |-> q.invite]
    OBVIOUS
<1>9. /\ row \in UserRow /\ row.email = q.email /\ row.role = q.role
      /\ row.tenant = q.tenant /\ row.from = i
    BY <1>2, <1>3, <1>7, <1>8, ConstantsAssumption DEF UserRow, Roles, InviteRoles
<1>10. /\ users' \in [Users -> UserRow \union {None}]
       /\ users'[u] = row /\ users'[u] # None
       /\ \A v \in Users \ {u} : users'[v] = users[v]
       /\ \A v \in Users : users[v] # None => v # u /\ users'[v] = users[v]
       /\ EmailsUnique'
    <2>1. users' = [users EXCEPT ![u] = row] BY <1>4, <1>8
    <2> QED BY <1>4, <1>5, <1>9, <2>1, NewUser
<1>11. PICK new : new = [invites[i] EXCEPT !.accepted = TRUE] OBVIOUS
<1>12. /\ new \in InviteRow /\ new # None /\ new.accepted
       /\ new.tenant = invites[i].tenant /\ new.email = invites[i].email
       /\ new.role = invites[i].role
    BY <1>6, <1>11, NotNull DEF InviteRow
<1>13. /\ invites' \in [Invites -> InviteRow \union {None}] /\ invites'[i] = new
       /\ \A j \in Invites \ {i} : invites'[j] = invites[j]
    BY <1>4, <1>6, <1>11, <1>12 DEF TenantInv, TypeOK
<1>14. req' \in [Requests -> RequestState] /\ \A s \in Requests : WritesFit(req[s])'
    <2>1. \A j \in Invites : invites[j] # None =>
              /\ invites'[j] # None
              /\ invites'[j].tenant = invites[j].tenant
              /\ invites'[j].email = invites[j].email
              /\ invites'[j].role = invites[j].role
        BY <1>12, <1>13
    <2>2. \A v \in Users : users[v] # None => users'[v] # None BY <1>10
    <2> QED BY <1>5, <2>1, <2>2, WritesStay
<1>15. CompletionsFit' BY <1>1, <1>2, <1>5, CountsStay
<1>16. admins' \subseteq Tenants \X Users BY <1>4, <1>7 DEF TenantInv, TypeOK
<1>17. TypeOK' BY <1>5, <1>10, <1>13, <1>14, <1>16 DEF TenantInv, TypeOK
<1>18. AdminsBelong'
    <2> SUFFICES ASSUME NEW t \in Tenants, NEW v \in Users
                 PROVE  <<t, v>> \in admins' <=>
                          users'[v] # None /\ users'[v].role = "tenant_admin"
                            /\ users'[v].tenant = t
        BY DEF AdminsBelong
    <2>1. <<t, v>> \in admins <=>
            users[v] # None /\ users[v].role = "tenant_admin" /\ users[v].tenant = t
        BY DEF TenantInv, AdminsBelong
    <2>2. <<t, v>> = <<q.tenant, u>> <=> t = q.tenant /\ v = u OBVIOUS
    <2>3. CASE v = u BY <1>4, <1>9, <1>10, <2>1, <2>2, <2>3
    <2>4. CASE v # u
        <3>1. users'[v] = users[v] BY <1>10, <2>4
        <3>2. <<t, v>> \in admins' <=> <<t, v>> \in admins BY <1>4, <2>2, <2>4
        <3> QED BY <2>1, <3>1, <3>2
    <2> QED BY <2>3, <2>4
<1>19. FoundersFit'
    <2>1. \A t \in Tenants : Founder[t] \in Users BY ConstantsAssumption
    <2>2. row.from # None BY <1>6, <1>9, NotNull
    <2> QED BY <1>10, <2>1, <2>2 DEF TenantInv, FoundersFit
<1>20. \A v \in Users : users[v] # None => users[v].from # i
    <2>1. ASSUME NEW v \in Users, users[v] # None, users[v].from = i PROVE FALSE
        <3>1. i # None BY <1>6, NotNull
        <3>2. invites[i].email = users[v].email
            BY <2>1, <3>1 DEF TenantInv, InvitationsSingleUse
        <3> QED BY <1>2, <1>3, <1>5, <2>1, <3>2 DEF Taken
    <2> QED BY <2>1
<1>21. InvitationsSingleUse'
    <2>1. ASSUME NEW j \in Invites, invites'[j] # None, invites'[j].accepted
          PROVE  \E v \in Users : users'[v] # None /\ users'[v].from = j
        <3>1. CASE j = i BY <1>9, <1>10, <3>1
        <3>2. CASE j # i
            <4>1. PICK v \in Users : users[v] # None /\ users[v].from = j
                BY <1>13, <2>1, <3>2 DEF TenantInv, InvitationsSingleUse
            <4> QED BY <1>10, <4>1
        <3> QED BY <3>1, <3>2
    <2>2. ASSUME NEW v \in Users, NEW w \in Users, users'[v] # None, users'[w] # None,
                 users'[v].from # None, users'[v].from = users'[w].from
          PROVE  v = w
        <3>1. CASE v # u /\ w # u
            BY <1>10, <2>2, <3>1 DEF TenantInv, InvitationsSingleUse
        <3>2. CASE v = u /\ w # u
            BY <1>9, <1>10, <1>20, <2>2, <3>2
        <3>3. CASE v # u /\ w = u
            BY <1>9, <1>10, <1>20, <2>2, <3>3
        <3> QED BY <3>1, <3>2, <3>3
    <2>3. ASSUME NEW v \in Users, users'[v] # None, users'[v].from # None
          PROVE  /\ invites'[users'[v].from] # None
                 /\ invites'[users'[v].from].accepted
                 /\ invites'[users'[v].from].email = users'[v].email
                 /\ invites'[users'[v].from].tenant = users'[v].tenant
                 /\ invites'[users'[v].from].role = users'[v].role
        <3>1. CASE v = u BY <1>2, <1>3, <1>9, <1>10, <1>12, <1>13, <3>1
        <3>2. CASE v # u
            <4>1. users'[v] = users[v] /\ users[v] # None BY <1>10, <2>3, <3>2
            <4>2. users[v].from \in Invites \ {i}
                BY <1>20, <2>3, <4>1 DEF TenantInv, TypeOK, UserRow
            <4>3. invites'[users[v].from] = invites[users[v].from] BY <1>13, <4>2
            <4> QED BY <2>3, <4>1, <4>3 DEF TenantInv, InvitationsSingleUse
        <3> QED BY <3>1, <3>2
    <2> QED BY <2>1, <2>2, <2>3 DEF InvitationsSingleUse
<1> QED BY <1>10, <1>14, <1>15, <1>17, <1>18, <1>19, <1>21 DEF TenantInv

\* The account of a registration without an invitation.
LEMMA CommitRegister ==
    ASSUME TenantInv, NEW r \in Requests, Commit(r), req[r].op = "register"
    PROVE  TenantInv'
<1>1. PICK q : q = req[r] OBVIOUS
<1>2. /\ q.op = "register" /\ q.email \in Emails /\ q.role = "individual"
      /\ q.status = "pending" /\ q.tenant = None /\ q.invite = None /\ q.mail = "none"
    BY <1>1 DEF TenantInv, WritesFit
<1>3. PICK u \in Users :
          /\ users[u] = None
          /\ users' = [users EXCEPT ![u] = [email |-> q.email, role |-> q.role,
                           tenant |-> q.tenant, status |-> q.status, from |-> q.invite]]
          /\ admins' = admins /\ invites' = invites
    BY <1>1, <1>2 DEF Commit, Target, UsersAfter, AdminsAfter, InvitesAfter, Inserts
<1>4. /\ tenants' = tenants /\ mails' = mails /\ undone' = undone /\ req' = [req EXCEPT ![r] = Idle]
      /\ ~Taken(q.email)
    BY <1>1, <1>2 DEF Commit, TenantsAfter, Clashes, Inserts
<1>5. PICK row : row = [email |-> q.email, role |-> q.role, tenant |-> q.tenant,
                        status |-> q.status, from |-> q.invite]
    OBVIOUS
<1>6. row \in UserRow /\ row.email = q.email /\ row.tenant = None /\ row.from = None
    BY <1>2, <1>5, ConstantsAssumption DEF UserRow, Roles
<1>7. /\ users' \in [Users -> UserRow \union {None}]
      /\ users'[u] = row /\ users'[u] # None
      /\ \A v \in Users \ {u} : users'[v] = users[v]
      /\ \A v \in Users : users[v] # None => v # u /\ users'[v] = users[v]
      /\ EmailsUnique'
    <2>1. users' = [users EXCEPT ![u] = row] BY <1>3, <1>5
    <2> QED BY <1>3, <1>4, <1>6, <2>1, NewUser
<1>8. req' \in [Requests -> RequestState] /\ \A s \in Requests : WritesFit(req[s])'
    BY <1>3, <1>4, <1>7, WritesStay
<1>9. CompletionsFit' BY <1>1, <1>2, <1>4, CountsStay
<1>10. TypeOK' BY <1>3, <1>4, <1>7, <1>8 DEF TenantInv, TypeOK
<1>11. AdminsBelong'
    <2> SUFFICES ASSUME NEW t \in Tenants, NEW v \in Users
                 PROVE  <<t, v>> \in admins <=>
                          users'[v] # None /\ users'[v].role = "tenant_admin"
                            /\ users'[v].tenant = t
        BY <1>3 DEF AdminsBelong
    <2>1. <<t, v>> \in admins <=>
            users[v] # None /\ users[v].role = "tenant_admin" /\ users[v].tenant = t
        BY DEF TenantInv, AdminsBelong
    <2>2. CASE v = u BY <1>3, <1>6, <1>7, <2>1, <2>2, NotNull
    <2>3. CASE v # u BY <1>7, <2>1, <2>3
    <2> QED BY <2>2, <2>3
<1>12. FoundersFit'
    <2>1. \A t \in Tenants : Founder[t] \in Users /\ t # None
        BY ConstantsAssumption, NotNull
    <2> QED BY <1>6, <1>7, <2>1 DEF TenantInv, FoundersFit
<1>13. InvitationsSingleUse'
    <2>1. ASSUME NEW j \in Invites, invites[j] # None, invites[j].accepted
          PROVE  \E v \in Users : users'[v] # None /\ users'[v].from = j
        <3>1. PICK v \in Users : users[v] # None /\ users[v].from = j
            BY <2>1 DEF TenantInv, InvitationsSingleUse
        <3> QED BY <1>7, <3>1
    <2>2. \A v \in Users : users'[v] # None /\ users'[v].from # None =>
              users[v] # None /\ users'[v] = users[v]
        BY <1>6, <1>7
    <2> QED BY <1>3, <2>1, <2>2 DEF TenantInv, InvitationsSingleUse
<1> QED BY <1>7, <1>8, <1>9, <1>10, <1>11, <1>12, <1>13 DEF TenantInv

\* The status of an account: what an account is otherwise never changes.
LEMMA CommitUserStatus ==
    ASSUME TenantInv, NEW r \in Requests, Commit(r), req[r].op \in {"verify", "self_status"}
    PROVE  TenantInv'
<1>1. PICK q : q = req[r] OBVIOUS
<1>2. /\ q.op \in {"verify", "self_status"} /\ q.user \in Users /\ users[q.user] # None
      /\ q.status \in Statuses \union {None} /\ q.mail = "none"
    BY <1>1 DEF TenantInv, TypeOK, RequestState, WritesFit
<1>3. PICK u : u = q.user OBVIOUS
<1>4. /\ users' = IF q.status # None THEN [users EXCEPT ![u].status = q.status] ELSE users
      /\ admins' = admins /\ invites' = invites
    BY <1>1, <1>2, <1>3 DEF Commit, Target, UsersAfter, AdminsAfter, InvitesAfter, Inserts
<1>5. tenants' = tenants /\ mails' = mails /\ undone' = undone /\ req' = [req EXCEPT ![r] = Idle]
    BY <1>1, <1>2 DEF Commit, TenantsAfter
<1>6. PICK row : row = IF q.status # None THEN [users[u] EXCEPT !.status = q.status]
                       ELSE users[u]
    OBVIOUS
<1>7. users[u] \in UserRow BY <1>2, <1>3 DEF TenantInv, TypeOK
<1>8. /\ row \in UserRow /\ row # None
      /\ row.email = users[u].email /\ row.role = users[u].role
      /\ row.tenant = users[u].tenant /\ row.from = users[u].from
    BY <1>2, <1>6, <1>7, NotNull DEF UserRow
<1>9. users' = [users EXCEPT ![u] = row]
    BY <1>2, <1>3, <1>4, <1>6 DEF TenantInv, TypeOK
<1>10. /\ users' \in [Users -> UserRow \union {None}]
       /\ \A v \in Users : users'[v] # None <=> users[v] # None
       /\ \A v \in Users : users[v] # None =>
              /\ users'[v].email = users[v].email /\ users'[v].role = users[v].role
              /\ users'[v].tenant = users[v].tenant /\ users'[v].from = users[v].from
    BY <1>2, <1>3, <1>8, <1>9 DEF TenantInv, TypeOK
<1>11. req' \in [Requests -> RequestState] /\ \A s \in Requests : WritesFit(req[s])'
    BY <1>4, <1>5, <1>10, WritesStay
<1>12. CompletionsFit' BY <1>1, <1>2, <1>5, CountsStay
<1>13. TypeOK' BY <1>4, <1>5, <1>10, <1>11 DEF TenantInv, TypeOK
<1>14. EmailsUnique' BY <1>10 DEF TenantInv, EmailsUnique
<1>15. AdminsBelong'
    <2> SUFFICES ASSUME NEW t \in Tenants, NEW v \in Users
                 PROVE  <<t, v>> \in admins <=>
                          users'[v] # None /\ users'[v].role = "tenant_admin"
                            /\ users'[v].tenant = t
        BY <1>4 DEF AdminsBelong
    <2>1. <<t, v>> \in admins <=>
            users[v] # None /\ users[v].role = "tenant_admin" /\ users[v].tenant = t
        BY DEF TenantInv, AdminsBelong
    <2> QED BY <1>10, <2>1
<1>16. FoundersFit' BY <1>10, ConstantsAssumption DEF TenantInv, FoundersFit
<1>17. InvitationsSingleUse'
    <2>1. ASSUME NEW j \in Invites, invites[j] # None, invites[j].accepted
          PROVE  \E v \in Users : users'[v] # None /\ users'[v].from = j
        <3>1. PICK v \in Users : users[v] # None /\ users[v].from = j
            BY <2>1 DEF TenantInv, InvitationsSingleUse
        <3> QED BY <1>10, <3>1
    <2>2. ASSUME NEW v \in Users, NEW w \in Users, users'[v] # None, users'[w] # None,
                 users'[v].from # None, users'[v].from = users'[w].from
          PROVE  v = w
        BY <1>10, <2>2 DEF TenantInv, InvitationsSingleUse
    <2>3. ASSUME NEW v \in Users, users'[v] # None, users'[v].from # None
          PROVE  /\ invites[users'[v].from] # None
                 /\ invites[users'[v].from].accepted
                 /\ invites[users'[v].from].email = users'[v].email
                 /\ invites[users'[v].from].tenant = users'[v].tenant
                 /\ invites[users'[v].from].role = users'[v].role
        BY <1>10, <2>3 DEF TenantInv, InvitationsSingleUse
    <2> QED BY <1>4, <2>1, <2>2, <2>3 DEF InvitationsSingleUse
<1> QED BY <1>11, <1>12, <1>13, <1>14, <1>15, <1>16, <1>17 DEF TenantInv

\* A profile or a status of an organization: no account or invitation changes.
LEMMA OrganizationStep ==
    ASSUME TenantInv, NEW r \in Requests, UNCHANGED <<users, admins, invites>>,
           req' = [req EXCEPT ![r] = Idle],
           tenants' \in [Tenants -> TenantRow], mails' = mails, undone' = undone,
           \A t \in Tenants : tenants[t].completed => tenants'[t].completed,
           CompletionsFit'
    PROVE  TenantInv'
<1>1. req' \in [Requests -> RequestState] /\ \A s \in Requests : WritesFit(req[s])'
    BY WritesStay
<1>2. TypeOK' BY <1>1 DEF TenantInv, TypeOK
<1>3. EmailsUnique' /\ AdminsBelong' /\ FoundersFit'
    BY DEF TenantInv, EmailsUnique, AdminsBelong, FoundersFit
<1>4. InvitationsSingleUse' BY DEF TenantInv, InvitationsSingleUse
<1> QED BY <1>1, <1>2, <1>3, <1>4 DEF TenantInv

LEMMA CommitStatus ==
    ASSUME TenantInv, NEW r \in Requests, Commit(r), req[r].op = "status"
    PROVE  TenantInv'
<1>1. PICK q : q = req[r] OBVIOUS
<1>2. q.op = "status" /\ q.tenant \in Tenants /\ q.status \in Statuses /\ q.mail = "none"
    BY <1>1 DEF TenantInv, WritesFit
<1>3. /\ UNCHANGED <<users, admins, invites>> /\ mails' = mails /\ undone' = undone
      /\ req' = [req EXCEPT ![r] = Idle]
      /\ tenants' = [tenants EXCEPT ![q.tenant].status = q.status]
    BY <1>1, <1>2 DEF Commit, UsersAfter, AdminsAfter, InvitesAfter, TenantsAfter, Inserts
<1>4. PICK row : row = [tenants[q.tenant] EXCEPT !.status = q.status] OBVIOUS
<1>5. tenants[q.tenant] \in TenantRow BY <1>2 DEF TenantInv, TypeOK
<1>6. row \in TenantRow /\ row.completed = tenants[q.tenant].completed
    BY <1>2, <1>4, <1>5 DEF TenantRow
<1>7. tenants' = [tenants EXCEPT ![q.tenant] = row] BY <1>3, <1>4
<1>8. /\ tenants' \in [Tenants -> TenantRow]
      /\ \A t \in Tenants : tenants'[t].completed = tenants[t].completed
    BY <1>2, <1>6, <1>7 DEF TenantInv, TypeOK
<1>9. CompletionsFit' BY <1>1, <1>2, <1>3, <1>8, CountsStay
<1> QED BY <1>3, <1>8, <1>9, OrganizationStep

\* Whoever completes a profile has mailed its completion, or found it complete.
LEMMA CommitProfile ==
    ASSUME TenantInv, NEW r \in Requests, Commit(r), req[r].op = "profile"
    PROVE  TenantInv'
<1>1. PICK q : q = req[r] OBVIOUS
<1>2. /\ q.op = "profile" /\ q.tenant \in Tenants /\ q.mail \in {"none", "sent"}
      /\ q.mail = "none" => tenants[q.tenant].completed
    BY <1>1 DEF TenantInv, TypeOK, RequestState, WritesFit, Commit
<1>3. PICK t : t = q.tenant OBVIOUS
<1>4. /\ UNCHANGED <<users, admins, invites>> /\ req' = [req EXCEPT ![r] = Idle]
      /\ tenants' = [tenants EXCEPT ![t].completed = TRUE]
      /\ mails' = mails /\ undone' = undone
    BY <1>1, <1>2, <1>3 DEF Commit, UsersAfter, AdminsAfter, InvitesAfter, TenantsAfter, Inserts
<1>5. PICK row : row = [tenants[t] EXCEPT !.completed = TRUE] OBVIOUS
<1>6. tenants[t] \in TenantRow BY <1>2, <1>3 DEF TenantInv, TypeOK
<1>7. row \in TenantRow /\ row.completed BY <1>5, <1>6 DEF TenantRow
<1>8. tenants' = [tenants EXCEPT ![t] = row] BY <1>4, <1>5
<1>9. /\ tenants' \in [Tenants -> TenantRow] /\ tenants'[t].completed
      /\ \A s \in Tenants \ {t} : tenants'[s] = tenants[s]
    BY <1>2, <1>3, <1>7, <1>8 DEF TenantInv, TypeOK
<1>10. ASSUME NEW s \in Tenants
       PROVE  /\ mails[s] >= undone[s] + Cardinality(Sent(s)')
              /\ tenants'[s].completed <=>
                   mails[s] > undone[s] + Cardinality(Sent(s)')
              /\ mails[s] + Cardinality(Due(s)')
                   <= Cardinality(Requests) + undone[s]
    <2>1. /\ mails[s] \in Nat /\ undone[s] \in Nat
          /\ Cardinality(Sent(s)) \in Nat
        BY MarkedFinite DEF TenantInv, TypeOK
    <2>2. /\ mails[s] >= undone[s] + Cardinality(Sent(s))
          /\ tenants[s].completed <=> mails[s] > undone[s] + Cardinality(Sent(s))
          /\ mails[s] + Cardinality(Due(s)) <= Cardinality(Requests) + undone[s]
        BY DEF TenantInv, CompletionsFit
    <2>3. Cardinality(Due(s)') = Cardinality(Due(s))
        BY <1>1, <1>2, <1>4, IdleFits, MarkedAfter
    <2>4. CASE s = t /\ q.mail = "sent"
        <3>1. Cardinality(Sent(s)') = Cardinality(Sent(s)) - 1
            BY <1>1, <1>3, <1>4, <2>4, IdleFits, MarkedAfter
        <3> QED BY <1>9, <2>1, <2>2, <2>3, <2>4, <3>1
    <2>5. CASE ~(s = t /\ q.mail = "sent")
        <3>1. Cardinality(Sent(s)') = Cardinality(Sent(s))
            BY <1>1, <1>3, <1>4, <2>5, IdleFits, MarkedAfter
        <3>2. tenants'[s].completed <=> tenants[s].completed
            <4>1. CASE s = t BY <1>2, <1>3, <1>9, <2>5, <4>1
            <4>2. CASE s # t BY <1>9, <4>2
            <4> QED BY <4>1, <4>2
        <3> QED BY <2>2, <2>3, <3>1, <3>2
    <2> QED BY <2>4, <2>5
<1>11. CompletionsFit' BY <1>4, <1>10 DEF CompletionsFit
<1>12. \A s \in Tenants : tenants[s].completed => tenants'[s].completed BY <1>9
<1> QED BY <1>4, <1>9, <1>11, <1>12, OrganizationStep

\* Seven days pass for an invitation.
LEMMA ExpireKeeps ==
    ASSUME TenantInv, NEW i \in Invites, Expire(i)
    PROVE  TenantInv'
<1>1. /\ UNCHANGED <<users, tenants, admins, req, mails, undone>>
      /\ invites[i] # None /\ invites' = [invites EXCEPT ![i].expired = TRUE]
    BY DEF Expire
<1>2. PICK row : row = [invites[i] EXCEPT !.expired = TRUE] OBVIOUS
<1>3. invites[i] \in InviteRow BY <1>1 DEF TenantInv, TypeOK
<1>4. /\ row \in InviteRow /\ row # None /\ row.accepted = invites[i].accepted
      /\ row.tenant = invites[i].tenant /\ row.email = invites[i].email
      /\ row.role = invites[i].role
    BY <1>2, <1>3, NotNull DEF InviteRow
<1>5. /\ invites' \in [Invites -> InviteRow \union {None}]
      /\ \A j \in Invites : invites'[j] # None <=> invites[j] # None
      /\ \A j \in Invites : invites[j] # None =>
             /\ invites'[j].accepted = invites[j].accepted
             /\ invites'[j].tenant = invites[j].tenant /\ invites'[j].email = invites[j].email
             /\ invites'[j].role = invites[j].role
    <2>1. invites' = [invites EXCEPT ![i] = row] BY <1>1, <1>2
    <2> QED BY <1>1, <1>4, <2>1 DEF TenantInv, TypeOK
<1>6. TypeOK' BY <1>1, <1>5 DEF TenantInv, TypeOK
<1>7. EmailsUnique' /\ AdminsBelong' /\ FoundersFit'
    BY <1>1 DEF TenantInv, EmailsUnique, AdminsBelong, FoundersFit
<1>8. CompletionsFit' BY <1>1 DEF TenantInv, CompletionsFit, Due, Sent
<1>9. InvitationsSingleUse'
    <2>1. \A u \in Users : users[u] # None /\ users[u].from # None => users[u].from \in Invites
        BY DEF TenantInv, TypeOK, UserRow
    <2> QED BY <1>1, <1>5, <2>1 DEF TenantInv, InvitationsSingleUse
<1>10. \A s \in Requests : WritesFit(req[s])'
    BY <1>1, <1>5 DEF TenantInv, WritesFit
<1> QED BY <1>6, <1>7, <1>8, <1>9, <1>10 DEF TenantInv

----------------------------------------------------------------------------
(* Every step keeps the invariant                                          *)

\* Every operation a request can commit.
LEMMA CommitKeeps ==
    ASSUME TenantInv, NEW r \in Requests, Commit(r)
    PROVE  TenantInv'
<1>1. req[r] \in RequestState /\ WritesFit(req[r]) /\ req[r] # Idle
    BY DEF TenantInv, TypeOK, Commit
<1>2. req[r].op \in Ops /\ req[r].op # "idle" BY <1>1 DEF RequestState, WritesFit
<1>3. CASE req[r].op = "invite" BY <1>3, CommitInvite
<1>4. CASE req[r].op = "accept" BY <1>4, CommitAccept
<1>5. CASE req[r].op = "register" BY <1>5, CommitRegister
<1>6. CASE req[r].op \in {"verify", "self_status"} BY <1>6, CommitUserStatus
<1>7. CASE req[r].op = "profile" BY <1>7, CommitProfile
<1>8. CASE req[r].op = "status" BY <1>8, CommitStatus
<1> QED BY <1>2, <1>3, <1>4, <1>5, <1>6, <1>7, <1>8 DEF Ops

\* The registered organizations the specification starts with.
LEMMA InitKeeps ==
    ASSUME Init
    PROVE  TenantInv
<1>1. ASSUME NEW t \in Tenants
      PROVE  users[Founder[t]] = [email |-> Address[t], role |-> "tenant_admin", tenant |-> t,
                                  status |-> "active", from |-> None]
    <2>1. Founder[t] \in Users /\ \A s \in Tenants : Founder[s] = Founder[t] => s = t
        BY ConstantsAssumption
    <2>2. (CHOOSE s \in Tenants : Founder[s] = Founder[t]) = t BY <2>1
    <2> QED BY <2>1, <2>2 DEF Init
<1>2. ASSUME NEW t \in Tenants
      PROVE  /\ users[Founder[t]] \in UserRow /\ users[Founder[t]] # None
             /\ users[Founder[t]].email = Address[t]
             /\ users[Founder[t]].role = "tenant_admin"
             /\ users[Founder[t]].tenant = t /\ users[Founder[t]].from = None
    <2>1. PICK row : row = [email |-> Address[t], role |-> "tenant_admin", tenant |-> t,
                            status |-> "active", from |-> None]
        OBVIOUS
    <2>2. Address[t] \in Emails /\ "active" \in Statuses /\ "tenant_admin" \in Roles
        BY ConstantsAssumption DEF Roles
    <2>3. /\ row \in UserRow /\ row.email = Address[t] /\ row.role = "tenant_admin"
          /\ row.tenant = t /\ row.from = None
        BY <2>1, <2>2 DEF UserRow
    <2>4. users[Founder[t]] = row BY <1>1, <2>1
    <2> QED BY <2>3, <2>4, NotNull
<1>3. ASSUME NEW u \in Users, users[u] # None
      PROVE  \E t \in Tenants : u = Founder[t]
    BY <1>3 DEF Init
<1>4. users \in [Users -> UserRow \union {None}]
    <2>1. \A u \in Users : users[u] \in UserRow \union {None} BY <1>2, <1>3
    <2>2. users = [u \in Users |-> users[u]] BY DEF Init
    <2> QED BY <2>1, <2>2
<1>5. TypeOK
    <2>1. tenants \in [Tenants -> TenantRow] BY ConstantsAssumption DEF Init, TenantRow
    <2>2. admins \subseteq Tenants \X Users BY ConstantsAssumption DEF Init
    <2>3. req \in [Requests -> RequestState] BY IdleFits DEF Init
    <2> QED BY <1>4, <2>1, <2>2, <2>3 DEF Init, TypeOK
<1>6. EmailsUnique BY <1>2, <1>3, ConstantsAssumption DEF EmailsUnique
<1>7. AdminsBelong
    <2> SUFFICES ASSUME NEW t \in Tenants, NEW u \in Users
                 PROVE  <<t, u>> \in admins <=>
                          users[u] # None /\ users[u].role = "tenant_admin"
                            /\ users[u].tenant = t
        BY DEF AdminsBelong
    <2>1. <<t, u>> \in admins <=> u = Founder[t] BY DEF Init
    <2>2. CASE u = Founder[t] BY <1>2, <2>1, <2>2
    <2>3. CASE u # Founder[t]
        <3>1. ASSUME users[u] # None PROVE users[u].tenant # t
            <4>1. PICK s \in Tenants : u = Founder[s] BY <1>3, <3>1
            <4> QED BY <1>2, <2>3, <4>1
        <3> QED BY <2>1, <2>3, <3>1
    <2> QED BY <2>2, <2>3
<1>8. InvitationsSingleUse BY <1>2, <1>3 DEF Init, InvitationsSingleUse
<1>9. FoundersFit BY <1>2, <1>3 DEF FoundersFit
<1>10. CompletionsFit
    <2> SUFFICES ASSUME NEW t \in Tenants
                 PROVE  /\ mails[t] >= undone[t] + Cardinality(Sent(t))
                        /\ tenants[t].completed <=>
                             mails[t] > undone[t] + Cardinality(Sent(t))
                        /\ mails[t] + Cardinality(Due(t))
                             <= Cardinality(Requests) + undone[t]
        BY DEF CompletionsFit
    <2>1. Sent(t) = {} /\ Due(t) = {} BY IdleFits DEF Due, Sent, Init
    <2>2. Cardinality(Sent(t)) = 0 /\ Cardinality(Due(t)) = 0
        BY <2>1, FS_EmptySet
    <2>3. Cardinality(Requests) \in Nat BY ConstantsAssumption, FS_CardinalityType
    <2>4. mails[t] = 0 /\ undone[t] = 0 /\ ~tenants[t].completed BY DEF Init
    <2> QED BY <2>2, <2>3, <2>4
<1>11. \A r \in Requests : WritesFit(req[r]) BY IdleFits DEF Init
<1> QED BY <1>5, <1>6, <1>7, <1>8, <1>9, <1>10, <1>11 DEF TenantInv

LEMMA StepKeeps == TenantInv /\ [Next]_vars => TenantInv'
<1> SUFFICES ASSUME TenantInv, [Next]_vars PROVE TenantInv'
    OBVIOUS
<1>1. CASE \E r \in Requests : Read(r) \/ Mail(r) \/ Commit(r) \/ Rollback(r)
    BY <1>1, ReadKeeps, MailKeeps, CommitKeeps, RollbackKeeps
<1>2. CASE \E i \in Invites : Expire(i) BY <1>2, ExpireKeeps
<1>3. CASE UNCHANGED vars
    <2>1. UNCHANGED <<users, tenants, admins, invites>> /\ req' = req
          /\ mails' = mails /\ undone' = undone
        BY <1>3 DEF vars
    <2>2. CompletionsFit' BY <2>1 DEF Due, Sent, TenantInv, CompletionsFit
    <2>3. /\ req' \in [Requests -> RequestState] /\ \A r \in Requests : WritesFit(req'[r])
          /\ mails' \in [Tenants -> Nat] /\ undone' \in [Tenants -> Nat]
        BY <2>1 DEF TenantInv, TypeOK
    <2> QED BY <2>1, <2>2, <2>3, TablesKept
<1> QED BY <1>1, <1>2, <1>3 DEF Next

----------------------------------------------------------------------------
(* Theorems                                                                *)

\* Whatever requests overlap, the rows agree with one another and with the writes to come.
THEOREM TenantsAgree == Spec => []TenantInv
<1>1. Init => TenantInv BY InitKeeps
<1>2. TenantInv /\ [Next]_vars => TenantInv' BY StepKeeps
<1> QED BY <1>1, <1>2, PTL DEF Spec

\* Type correctness: every id a row or a request refers to is one the tables can hold.
THEOREM TenantsTyped == Spec => []TypeOK
<1>1. TenantInv => TypeOK BY DEF TenantInv
<1> QED BY <1>1, TenantsAgree, PTL

\* The links of tenant_admins are exactly the administrators' accounts: the two tests of
\* an administrator of an organization, by link and by role, never disagree.
THEOREM LinksAreAdministrators == Spec => []AdminsBelong
<1>1. TenantInv => AdminsBelong BY DEF TenantInv
<1> QED BY <1>1, TenantsAgree, PTL

\* An invitation makes one account and no more, the one it names.
THEOREM InvitationsMakeOneAccount == Spec => []InvitationsSingleUse
<1>1. TenantInv => InvitationsSingleUse BY DEF TenantInv
<1> QED BY <1>1, TenantsAgree, PTL

\* The completion of a profile is mailed at most once for each request that can overlap
\* and once more for each that fails after its mail; and the profile is complete exactly
\* when one of the requests that mailed so has committed.
THEOREM CompletionsAreMailed == Spec => []CompletionsMailed
<1>1. TenantInv => CompletionsMailed
    <2> SUFFICES ASSUME TenantInv, NEW t \in Tenants
                 PROVE  /\ mails[t] <= Cardinality(Requests) + undone[t]
                        /\ tenants[t].completed <=>
                             mails[t] > undone[t] + Cardinality(Sent(t))
        BY DEF CompletionsMailed
    <2>1. /\ mails[t] \in Nat /\ undone[t] \in Nat
          /\ Cardinality(Due(t)) \in Nat /\ Cardinality(Requests) \in Nat
        BY MarkedFinite DEF TenantInv, TypeOK
    <2>2. /\ mails[t] + Cardinality(Due(t)) <= Cardinality(Requests) + undone[t]
          /\ tenants[t].completed <=>
               mails[t] > undone[t] + Cardinality(Sent(t))
        BY DEF TenantInv, CompletionsFit
    <2> QED BY <2>1, <2>2
<1> QED BY <1>1, TenantsAgree, PTL

\* Only a commit accepts an invitation, and only while its email has no account.
LEMMA AcceptancesFindTheEmailFree ==
    ASSUME TenantInv, [Next]_vars, NEW i \in Invites,
           invites[i] # None, ~invites[i].accepted, Taken(invites[i].email)
    PROVE  ~invites'[i].accepted
<1>1. CASE \E r \in Requests : Read(r) \/ Mail(r) \/ Rollback(r)
    <2>1. invites' = invites
        <3>1. PICK r \in Requests : Read(r) \/ Mail(r) \/ Rollback(r) BY <1>1
        <3>2. CASE Mail(r) \/ Rollback(r) BY <3>2 DEF Mail, Rollback, tables
        <3>3. CASE \E u \in Users, t \in Tenants, e \in Emails, role \in Roles :
                       Invite(r, u, t, e, role)
            BY <3>3 DEF Invite, Open, tables
        <3>4. CASE \E u \in Users, t \in Tenants, s \in Statuses : UpdateStatus(r, u, t, s)
            BY <3>4 DEF UpdateStatus, Open, tables
        <3>5. CASE \E j \in Invites : Accept(r, j) BY <3>5 DEF Accept, Open, tables
        <3> QED BY <3>1, <3>2, <3>3, <3>4, <3>5
                DEF Read, Register, Verify, UpdateMyStatus, UpdateProfile, Open, tables
    <2> QED BY <2>1
<1>2. ASSUME NEW r \in Requests, Commit(r) PROVE ~invites'[i].accepted
    <2>1. PICK q : q = req[r] OBVIOUS
    <2>2. CASE q.op = "invite"
        <3>1. PICK j \in Invites :
                  /\ invites[j] = None
                  /\ invites' = [invites EXCEPT ![j] =
                         [tenant |-> q.tenant, email |-> q.email, role |-> q.role,
                          accepted |-> FALSE, expired |-> FALSE]]
            BY <1>2, <2>1, <2>2 DEF Commit, InviteTarget, InvitesAfter
        <3>2. invites'[i] = invites[i] BY <3>1 DEF TenantInv, TypeOK
        <3> QED BY <3>2
    <2>3. CASE q.op = "accept"
        <3>1. q.invite \in Invites /\ invites[q.invite] # None
              /\ q.email = invites[q.invite].email
            BY <2>1, <2>3 DEF TenantInv, WritesFit
        <3>2. invites' = [invites EXCEPT ![q.invite].accepted = TRUE] /\ ~Taken(q.email)
            BY <1>2, <2>1, <2>3, <3>1 DEF Commit, InviteTarget, InvitesAfter, Clashes, Inserts
        <3>3. i # q.invite BY <3>1, <3>2
        <3>4. invites'[i] = invites[i] BY <3>2, <3>3 DEF TenantInv, TypeOK
        <3> QED BY <3>4
    <2>4. CASE q.op \notin {"invite", "accept"}
        <3>1. invites' = invites BY <1>2, <2>1, <2>4 DEF Commit, InvitesAfter
        <3> QED BY <3>1
    <2> QED BY <2>2, <2>3, <2>4
<1>3. ASSUME NEW j \in Invites, Expire(j) PROVE ~invites'[i].accepted
    <2>1. invites[j] \in InviteRow /\ invites' = [invites EXCEPT ![j].expired = TRUE]
        BY <1>3 DEF Expire, TenantInv, TypeOK
    <2>2. PICK row : row = [invites[j] EXCEPT !.expired = TRUE] OBVIOUS
    <2>3. row.accepted = invites[j].accepted BY <2>1, <2>2 DEF InviteRow
    <2>4. invites' = [invites EXCEPT ![j] = row] BY <2>1, <2>2
    <2> QED BY <2>3, <2>4 DEF TenantInv, TypeOK
<1>4. CASE UNCHANGED vars BY <1>4 DEF vars
<1> QED BY <1>1, <1>2, <1>3, <1>4 DEF Next

\* Once its email has an account, an invitation is never accepted any more.
THEOREM AcceptancesAreInTime == Spec => NoLateAcceptance
<1> DEFINE InTime ==
        \A i \in Invites :
            invites[i] # None /\ ~invites[i].accepted /\ Taken(invites[i].email)
              => ~invites'[i].accepted
<1>1. TenantInv /\ [Next]_vars => [InTime]_vars BY AcceptancesFindTheEmailFree
<1> QED BY <1>1, TenantsAgree, PTL DEF Spec, NoLateAcceptance

\* Every account of an organization but its founder's is that of one person who accepted
\* an invitation, and every such person has one.
LEMMA AccountsCounted ==
    ASSUME TenantInv, NEW t \in Tenants
    PROVE  TotalUsers(t) = 1 + Cardinality(Joined(t))
<1> DEFINE U == {u \in Users : users[u] # None /\ users[u].tenant = t}
           J == Joined(t)
           F == Founder[t]
           email == [u \in U \ {F} |-> users[u].email]
<1>1. IsFiniteSet(U)
    <2>1. U \in SUBSET Users OBVIOUS
    <2> HIDE DEF U
    <2> QED BY <2>1, ConstantsAssumption, FS_Subset
<1>2. F \in U
    BY ConstantsAssumption DEF TenantInv, FoundersFit
<1>3. email \in [U \ {F} -> J]
    <2> SUFFICES ASSUME NEW u \in U \ {F} PROVE users[u].email \in J
        OBVIOUS
    <2>1. u \in Users /\ users[u] # None /\ users[u].tenant = t OBVIOUS
    <2>2. users[u] \in UserRow BY <2>1 DEF TenantInv, TypeOK
    <2>3. users[u].from # None BY <2>1 DEF TenantInv, FoundersFit
    <2>4. users[u].from \in Invites BY <2>2, <2>3 DEF UserRow
    <2> QED BY <2>1, <2>3, <2>4 DEF TenantInv, InvitationsSingleUse, Joined
<1>4. IsInjective(email)
    <2> SUFFICES ASSUME NEW u \in U \ {F}, NEW v \in U \ {F}, users[u].email = users[v].email
                 PROVE  u = v
        BY DEF IsInjective
    <2> QED BY DEF TenantInv, EmailsUnique
<1>5. \A e \in J : \E u \in U \ {F} : email[u] = e
    <2> SUFFICES ASSUME NEW e \in J PROVE \E u \in U \ {F} : users[u].email = e
        OBVIOUS
    <2>1. PICK i \in Invites : /\ invites[i] # None /\ invites[i].tenant = t
                              /\ invites[i].accepted /\ e = invites[i].email
        BY DEF Joined
    <2>2. PICK u \in Users : users[u] # None /\ users[u].from = i
        BY <2>1 DEF TenantInv, InvitationsSingleUse
    <2>3. i # None BY NotNull
    <2>4. users[u].tenant = t /\ users[u].email = e
        BY <2>1, <2>2, <2>3 DEF TenantInv, InvitationsSingleUse
    <2>5. u # F BY <2>2, <2>3 DEF TenantInv, FoundersFit
    <2> QED BY <2>2, <2>4, <2>5
<1>6. TotalUsers(t) = Cardinality(U) BY DEF TotalUsers
<1> HIDE DEF U, F, email
<1>7. ExistsBijection(U \ {F}, J)
    <2>1. email \in Bijection(U \ {F}, J)
        BY <1>3, <1>4, <1>5 DEF Bijection, Injection, Surjection
    <2> QED BY <2>1 DEF ExistsBijection
<1>8. IsFiniteSet(U \ {F}) /\ Cardinality(U \ {F}) = Cardinality(U) - 1
    BY <1>1, <1>2, FS_RemoveElement
<1>9. Cardinality(J) = Cardinality(U \ {F}) BY <1>7, <1>8, FS_Bijection
<1>10. Cardinality(U) \in Nat BY <1>1, FS_CardinalityType
<1> QED BY <1>6, <1>8, <1>9, <1>10

\* Whoever can still accept an invitation has a pending one.
LEMMA WelcomeArePending ==
    ASSUME TenantInv, NEW t \in Tenants
    PROVE  Cardinality(Welcome(t)) <= PendingInvitations(t)
<1> DEFINE P == {i \in Invites : invites[i] # None /\ invites[i].tenant = t
                                 /\ ~invites[i].accepted}
           A == {i \in Invites : Acceptable(i) /\ invites[i].tenant = t}
           email == [i \in A |-> invites[i].email]
<1>1. A \in SUBSET P BY DEF Acceptable
<1>2. IsFiniteSet(P)
    <2>1. P \in SUBSET Invites OBVIOUS
    <2> HIDE DEF P
    <2> QED BY <2>1, ConstantsAssumption, FS_Subset
<1>3. email \in Surjection(A, Welcome(t)) BY DEF Surjection, Welcome
<1>4. PendingInvitations(t) = Cardinality(P) BY DEF PendingInvitations
<1> HIDE DEF P, A, email
<1>5. IsFiniteSet(A) /\ Cardinality(A) <= Cardinality(P) BY <1>1, <1>2, FS_Subset
<1>6. IsFiniteSet(Welcome(t)) /\ Cardinality(Welcome(t)) <= Cardinality(A)
    BY <1>3, <1>5, FS_Surjection
<1>7. /\ Cardinality(A) \in Nat /\ Cardinality(P) \in Nat
      /\ Cardinality(Welcome(t)) \in Nat
    BY <1>2, <1>5, <1>6, FS_CardinalityType
<1> QED BY <1>4, <1>5, <1>6, <1>7

\* The administrator who looks at the dashboard is one of the accounts counted as active.
LEMMA SomeoneIsActive ==
    ASSUME TenantInv, NEW t \in Tenants, NEW u \in Users, Administrator(u), IsAdmin(t, u)
    PROVE  ActiveUsers(t) \in 1..TotalUsers(t)
<1> DEFINE U == {v \in Users : users[v] # None /\ users[v].tenant = t}
           Act == {v \in Users : users[v] # None /\ users[v].tenant = t
                                 /\ users[v].status = "active"}
<1>1. u \in Act
    <2>1. users[u] # None /\ users[u].status = "active" BY DEF Administrator, Authenticated
    <2>2. users[u].tenant = t BY DEF IsAdmin, TenantInv, AdminsBelong
    <2> QED BY <2>1, <2>2
<1>2. U \in SUBSET Users /\ Act \in SUBSET U OBVIOUS
<1>3. ActiveUsers(t) = Cardinality(Act) /\ TotalUsers(t) = Cardinality(U)
    BY DEF ActiveUsers, TotalUsers
<1> HIDE DEF U, Act
<1>4. IsFiniteSet(U) BY <1>2, ConstantsAssumption, FS_Subset
<1>5. IsFiniteSet(Act) /\ Cardinality(Act) <= Cardinality(U) BY <1>2, <1>4, FS_Subset
<1>6. Cardinality(Act) \in Nat /\ Cardinality(U) \in Nat BY <1>4, <1>5, FS_CardinalityType
<1>7. Cardinality(Act) # 0 BY <1>1, <1>5, FS_EmptySet
<1> QED BY <1>3, <1>5, <1>6, <1>7

\* The users the dashboard counts are the first administrator and, once each, the people
\* who accepted an invitation; its pending invitations leave out nobody who can still
\* accept; and it is shown only after a completion that was mailed has been committed.
THEOREM DashboardShowsPeople == Spec => []DashboardCountsPeople
<1>1. TenantInv => DashboardCountsPeople
    <2> SUFFICES ASSUME TenantInv, NEW u \in Users, NEW t \in Tenants, Dashboard(u, t) # None
                 PROVE  /\ Dashboard(u, t).total = 1 + Cardinality(Joined(t))
                        /\ Cardinality(Welcome(t)) <= Dashboard(u, t).pending
                        /\ Dashboard(u, t).active \in 1..Dashboard(u, t).total
                        /\ mails[t] > undone[t]
        BY DEF DashboardCountsPeople
    <2>1. Administrator(u) /\ IsAdmin(t, u) /\ tenants[t].completed BY DEF Dashboard
    <2>2. /\ Dashboard(u, t).total = TotalUsers(t)
          /\ Dashboard(u, t).active = ActiveUsers(t)
          /\ Dashboard(u, t).pending = PendingInvitations(t)
        BY <2>1 DEF Dashboard
    <2>3. mails[t] > undone[t]
        <3>1. mails[t] > undone[t] + Cardinality(Sent(t))
            BY <2>1 DEF TenantInv, CompletionsFit
        <3>2. mails[t] \in Nat /\ undone[t] \in Nat /\ Cardinality(Sent(t)) \in Nat
            BY MarkedFinite DEF TenantInv, TypeOK
        <3> QED BY <3>1, <3>2
    <2>4. TotalUsers(t) = 1 + Cardinality(Joined(t)) BY AccountsCounted
    <2>5. Cardinality(Welcome(t)) <= PendingInvitations(t) BY WelcomeArePending
    <2>6. ActiveUsers(t) \in 1..TotalUsers(t) BY <2>1, SomeoneIsActive
    <2> QED BY <2>2, <2>3, <2>4, <2>5, <2>6
<1> QED BY <1>1, TenantsAgree, PTL
=============================================================================
