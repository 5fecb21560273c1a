---------------------------- MODULE MCRegistration ----------------------------
(* TLC instances of Registration. *)
EXTENDS Registration, TLC

CONSTANTS s1, s2, alice, bob, short, eight, long

\* On both sides of the lower bound, and the longest password accepted.
PasswordBytes == (short :> 7) @@ (eight :> 8) @@ (long :> 72)
Symmetry == Permutations(Slots) \cup Permutations(Emails)
=============================================================================
