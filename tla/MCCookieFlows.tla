---------------------------- MODULE MCCookieFlows ----------------------------
(* Instances of CookieFlows for TLC. *)
EXTENDS CookieFlows, TLC

CONSTANTS o1, o2, k1, k2, k3

\* The requests are model values that only equality tells apart.
Symmetry == Permutations(Requests)

\* The ids are such values too, and are taken in this order.
InOrder ==
    /\ code[o2] # None => code[o1] # None
    /\ session[k2] # None => session[k1] # None
    /\ session[k3] # None => session[k2] # None

\* One code at most and no reset token.
OneCode == code[o2] = None /\ \A p \in Resets : proof[p] = None

NoWrongGuess == \A o \in Otps : attempts[o] = 0

\* Bound: one refresh token until time 1; or two, if no guess is wrong and nothing is lost or
\* fails; or three until the end, with one code and no request that needs a second.
Scenarios ==
    /\ InOrder
    /\ \/ now <= 1 /\ session[k2] = None
       \/ now <= 1 /\ session[k3] = None /\ NoWrongGuess /\ faults = 0
       \/ OneCode /\ NoWrongGuess
          /\ \A r \in Requests :
                wire[r].op \notin {"resend", "forgot", "verify_forgot", "reset"}

\* The state without the operation of a request whose answer is out, of which only
\* whether its commit ends sessions still matters.
View ==
    <<now, tables, jar, faults, history,
      [r \in Requests |->
          IF wire[r].pc = "answered" /\ wire[r].op \notin {"logout", "reset"}
          THEN [wire[r] EXCEPT !.op = "login"] ELSE wire[r]]>>
=============================================================================
