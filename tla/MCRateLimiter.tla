---------------------------- MODULE MCRateLimiter ----------------------------
(* TLC instances of RateLimiter: one tick stands for half a window. *)
EXTENDS RateLimiter, TLC

CONSTANTS g1, g2, ann, ben, me, list, slow, fast

Two(a, b) == [p \in Policies |-> IF p = slow THEN a ELSE b]

PolicyOfRoute == [r \in Routes |-> IF r = me THEN slow ELSE fast]
OwnScopes == Two("per-key", "per-route")

\* slow: one request in two ticks; fast: one per tick.
Limits == Two(1, 2)
Windows == Two(2, 2)
Bursts == Two(2, 1)
Symmetry == Permutations(Slots) \cup Permutations(Callers)
=============================================================================
