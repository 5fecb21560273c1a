---------------------------- MODULE TokenBucketLaw ----------------------------
(***************************************************************************)
(* What the package ratelimit promises of a policy: to every key an ideal  *)
(* token bucket of its own, refilled evenly up to its capacity, from which *)
(* every admitted request takes one token.  Equivalently, no interval of   *)
(* length d admits more than Burst + d * LimitCount / WindowSec requests   *)
(* of one key.                                                             *)
(***************************************************************************)
EXTENDS Integers

CONSTANTS
  Policies, Keys,
  Capacity,   \* Capacity[p]: units a bucket holds (Burst)
  Flow,       \* Flow[p]: units that accrue per tick (LimitCount / WindowSec)
  Unit        \* units of one token

VARIABLE level  \* level[p][k]: units in the bucket of key k under policy p

LeastOf(a, b) == IF a < b THEN a ELSE b

Init == level = [p \in Policies |-> [k \in Keys |-> Capacity[p]]]

Refill ==
  level' = [p \in Policies |-> [k \in Keys |->
              LeastOf(Capacity[p], level[p][k] + Flow[p])]]

Admit(p, k) ==
  /\ level[p][k] >= Unit
  /\ level' = [level EXCEPT ![p][k] = @ - Unit]

Next == Refill \/ \E p \in Policies, k \in Keys : Admit(p, k)

Spec == Init /\ [][Next]_level
=============================================================================
