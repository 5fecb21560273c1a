---------------------------- MODULE MCTokenHandler ----------------------------
(* TLC instances of TokenHandler. *)
EXTENDS TokenHandler, TLC

CONSTANTS s1, s2, t1, t2, t3, alice, read

Symmetry == Permutations(Tokens) \cup Permutations(Slots)
=============================================================================
