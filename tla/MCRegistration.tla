--------------------------- MODULE MCRegistration ---------------------------
(* Instances of Registration for TLC. *)
EXTENDS Registration, TLC

\* Rows, requests and emails of one kind are model values that only equality tells apart.
Symmetry ==
    {a @@ t @@ r @@ p @@ b :
        a \in Permutations(Accounts), t \in Permutations(Tenants),
        r \in Permutations(Requests), p \in Permutations(Personal),
        b \in Permutations(Business)}

\* What the program itself keeps: no step depends on the last answer.
ProgramState ==
    <<accounts, tenants, admins, writes, challenges, verifiable, req, faults>>
=============================================================================
