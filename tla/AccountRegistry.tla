--------------------------- MODULE AccountRegistry ---------------------------
(***************************************************************************)
(* What registration promises, whichever services take part: an email is   *)
(* free, then has a pending account, then an active one. An organization's *)
(* account comes with its organization, linked to it: both appear in one   *)
(* step and both become active in one step.                                *)
(***************************************************************************)
CONSTANT Emails

VARIABLES
    stage,     \* stage[e]: of the account of email e
    orgStage   \* orgStage[e]: of the organization that account administers

Stages == {"none", "pending", "active"}

Init ==
    /\ stage = [e \in Emails |-> "none"]
    /\ orgStage = [e \in Emails |-> "none"]

Register(e) ==
    /\ stage[e] = "none"
    /\ stage' = [stage EXCEPT ![e] = "pending"]
    /\ \E s \in {"none", "pending"} : orgStage' = [orgStage EXCEPT ![e] = s]

Activate(e) ==
    /\ stage[e] = "pending"
    /\ stage' = [stage EXCEPT ![e] = "active"]
    /\ orgStage' = [orgStage EXCEPT ![e] = IF @ = "pending" THEN "active" ELSE @]

Next == \E e \in Emails : Register(e) \/ Activate(e)

Spec == Init /\ [][Next]_<<stage, orgStage>>
=============================================================================
