--------------------------- MODULE RotationChain ---------------------------
(***************************************************************************)
(* What the refresh tokens of the authentication service promise: a login  *)
(* opens a session with one token, a refresh exchanges a live token for    *)
(* one new token and spends the old one, and a logout or password reset    *)
(* ends every session of its user.                                         *)
(***************************************************************************)
CONSTANTS Users, Tokens, NoUser

VARIABLES
    owner,   \* owner[t]: the user a token was handed out to, NoUser before
    live     \* the tokens a refresh would accept

vars == <<owner, live>>

Init ==
    /\ owner = [t \in Tokens |-> NoUser]
    /\ live = {}

Open(u, t) ==
    /\ owner[t] = NoUser
    /\ owner' = [owner EXCEPT ![t] = u]
    /\ live' = live \union {t}

Rotate(t, n) ==
    /\ t \in live
    /\ owner[n] = NoUser
    /\ owner' = [owner EXCEPT ![n] = owner[t]]
    /\ live' = (live \ {t}) \union {n}

EndAll(u) ==
    /\ live' = {t \in live : owner[t] # u}
    /\ UNCHANGED owner

Next ==
    \/ \E u \in Users, t \in Tokens : Open(u, t)
    \/ \E t, n \in Tokens : Rotate(t, n)
    \/ \E u \in Users : EndAll(u)

Spec == Init /\ [][Next]_vars
============================================================================
