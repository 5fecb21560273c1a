----------------------------- MODULE MCLocalStore -----------------------------
(* TLC instance of LocalStore: keys that share files in every way.         *)
EXTENDS LocalStore, TLC

CONSTANTS s1, s2, x, y, z

a == <<"a">>

\* "a", "a.sum", "a/b", the root "." and the refused "../a".
MCKeys == { <<a>>, << <<"a", ".sum">> >>, <<a, <<"b">>>>, << <<".">> >>,
            << <<"..">>, a>> }

MCBlobs == { <<x, y>>, <<z>> }

Symmetry == Permutations(Slots)
=============================================================================
