------------------------------ MODULE MCTenants ------------------------------
(* Instances of Tenants for TLC. *)
EXTENDS Tenants, TLC

CONSTANTS t1, t2, u1, u2, e1, e2

\* Two organizations, whose founders and addresses are told apart.
MCFounder == t1 :> u1 @@ t2 :> u2
MCAddress == t1 :> e1 @@ t2 :> e2

\* The two organizations trade places with their founders; the other rows and the requests
\* are model values that only equality tells apart.
Trades ==
    {[x \in {t1, t2, u1, u2, e1, e2} |-> x],
     t1 :> t2 @@ t2 :> t1 @@ u1 :> u2 @@ u2 :> u1 @@ e1 :> e2 @@ e2 :> e1}

Symmetry ==
    {i @@ r @@ u @@ x : i \in Permutations(Invites), r \in Permutations(Requests),
                        u \in Permutations(Users \ {u1, u2}), x \in Trades}

\* The state without the status of the organizations, which no operation reads.
ReadState ==
    <<users, [t \in Tenants |-> tenants[t].completed], admins, invites, mails, undone,
      [r \in Requests |-> IF req[r].op = "status" THEN [req[r] EXCEPT !.status = None]
                          ELSE req[r]]>>

\* Bound: two people are invited or one, who may change statuses; or none, when mails of
\* completed profiles are undone and the statuses of organizations written.
InvitedOrUndone ==
    \/ /\ \A t \in Tenants : undone[t] = 0
       /\ \A r \in Requests : req[r].op # "status"
       /\ \/ \A r \in Requests : req[r].op # "self_status"
          \/ Cardinality({i \in Invites : invites[i] # None}) <= 1
    \/ /\ \A i \in Invites : invites[i] = None
       /\ \A r \in Requests : ~Inserts(r) /\ req[r].op # "invite"
       /\ \A u \in Users \ {u1, u2} : users[u] = None
=============================================================================
