---------------------------- MODULE OtpChallenge ----------------------------
(***************************************************************************)
(* What the one-time passwords of the authentication service promise: each *)
(* channel (an email and a purpose) has at most one code that a            *)
(* verification can match. A new code replaces it; a match, the last       *)
(* allowed wrong guess, a revocation or the clock ends it, for good.       *)
(***************************************************************************)
EXTENDS Naturals

CONSTANTS Channels, Otps, NoOtp, MaxAttempts

VARIABLES
    current,   \* current[c]: the code of channel c that can be matched, or NoOtp
    issued,    \* the codes issued so far
    failures   \* failures[o]: the wrong guesses counted against code o

vars == <<current, issued, failures>>

Init ==
    /\ current = [c \in Channels |-> NoOtp]
    /\ issued = {}
    /\ failures = [o \in Otps |-> 0]

\* The code may have expired before it was stored.
Issue(c, o) ==
    /\ o \notin issued
    /\ issued' = issued \union {o}
    /\ \E d \in {o, NoOtp} : current' = [current EXCEPT ![c] = d]
    /\ UNCHANGED failures

\* A guess is counted, whether or not the code has expired since it was made.
WrongGuess(o) ==
    /\ o \in issued
    /\ failures[o] < MaxAttempts
    /\ failures' = [failures EXCEPT ![o] = @ + 1]
    /\ current' = [c \in Channels |->
           IF current[c] = o /\ failures'[o] = MaxAttempts THEN NoOtp
           ELSE current[c]]
    /\ UNCHANGED issued

\* A match, a revocation, or the expiry of the codes of several channels.
End(C) ==
    /\ current' = [c \in Channels |-> IF c \in C THEN NoOtp ELSE current[c]]
    /\ UNCHANGED <<issued, failures>>

Next ==
    \/ \E c \in Channels, o \in Otps : Issue(c, o)
    \/ \E o \in Otps : WrongGuess(o)
    \/ \E C \in SUBSET Channels : End(C)

Spec == Init /\ [][Next]_vars
=============================================================================
