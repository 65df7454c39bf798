---------------------------- MODULE MCOtpService ----------------------------
(* Instances of OtpService for TLC.                                        *)
EXTENDS OtpService, TLC

\* Rows and requests are model values that only equality tells apart.
Symmetry == Permutations(Otps) \union Permutations(Requests)

\* What the program itself keeps: no step depends on the history variable.
ProgramState == <<now, chan, via, created, revoked, attempts, req, used>>
=============================================================================
