-------------------------- MODULE MCRefreshTokens --------------------------
(* Instances of RefreshTokens for TLC.                                     *)
EXTENDS RefreshTokens, TLC

\* A token that TokensInUse keeps apart from the others.
CONSTANT Spare

\* Users, tokens and requests are model values that only equality tells apart.
Symmetry ==
    Permutations(Users) \union Permutations(Tokens \ {Spare}) \union Permutations(Requests)

\* With an order of keys the tokens are numbers: rows are stored in the order of their keys.
AscendingKeys == {p \in Tokens \X Tokens : p[1] < p[2]}

\* What the program itself keeps. No step of it depends on a history variable,
\* so a run whose properties are about this part may leave the rest out. Of the
\* refusals it keeps those of tokens whose row was stored.
Unrecorded(txn) == [txn EXCEPT !.ends = {}, !.password = 0]

ProgramState ==
    <<subject, row, rotatedFrom, expired, status, verified, password,
      [r \in Requests |-> Unrecorded(req[r])], locks, {p \in refused : p[2] # "none"}>>

\* The same without the refusals, for the runs about locks.
LockState ==
    <<subject, row, rotatedFrom, expired, status, verified, password,
      [r \in Requests |-> Unrecorded(req[r])], locks>>

\* Everything but the refusals.
Sessions ==
    <<subject, row, rotatedFrom, expired, status, verified, password, req, locks,
      session, ended, provenBy>>

\* Bound: three tokens are minted or being minted, or two and the password replaced; and the
\* spare one only where it would be the third rotation of one of them.
TokensInUse ==
    \/ /\ subject[Spare] = NoUser
       /\ Cardinality({t \in Tokens : subject[t] # NoUser})
            + Cardinality({r \in Requests : req[r].pc = "read" /\ Mints(req[r].op)})
            + Cardinality({u \in Users : password[u] > 0}) <= 3
    \/ \E t \in Tokens : Cardinality(Children(t)) + Cardinality(Pending(t)) >= 3
============================================================================
