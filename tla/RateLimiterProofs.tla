-------------------------- MODULE RateLimiterProofs --------------------------
(***************************************************************************)
(* Proofs about RateLimiter, for any policies, callers and goroutines.     *)
(*                                                                         *)
(* The law of the token bucket holds of a sound configuration: the cache   *)
(* answers and the wall clock is left alone, no two policies share a       *)
(* scope, and what accrues until an idle entry expires fills the bucket.   *)
(* The runs show that the last two are needed.                             *)
(*                                                                         *)
(* The inductive invariant says that the tokens on record, together with   *)
(* what has accrued since, never exceed the ideal bucket.  The record of a *)
(* key is its cache entry, or the locals of the request that holds the     *)
(* mutex once that one has taken its token and has not stored it yet.      *)
(***************************************************************************)
EXTENDS RateLimiter, TLAPS

LEMMA ConstantTypes ==
  /\ Flow \in [Policies -> Nat]
  /\ Capacity \in [Policies -> Nat]
  /\ \A p \in Policies : TTL(p) \in Nat
<1>1. ASSUME NEW p \in Policies, WindowSec[p] # 0
      PROVE  LimitCount[p] * (Unit \div WindowSec[p]) \in Nat
  <2>1. WindowSec[p] \in Nat \ {0} /\ LimitCount[p] \in Nat /\ Unit \in Nat
    BY <1>1, RateLimiterAssumption
  <2>2. Unit \div WindowSec[p] \in Nat
    BY <2>1
  <2> QED
    BY <2>1, <2>2
<1>2. \A p \in Policies : Burst[p] * Unit \in Nat
  BY RateLimiterAssumption
<1> QED
  BY <1>1, <1>2, RateLimiterAssumption DEF Flow, Capacity, TTL

LEMMA KeyType ==
  ASSUME NEW c \in Callers, NEW r \in Routes, NEW scope
  PROVE  ScopeKey(c, r, scope) \in Keys
BY DEF ScopeKey, Keys

(* Slots inside Allow have a proper request. *)
LEMMA Serving ==
  ASSUME TypeOK, NEW s \in Slots, pc[s] # "idle"
  PROVE  /\ req[s] \in Request
         /\ Bucket(s) \in Scopes \X Keys
<1>1. req[s] \in Request
  BY DEF TypeOK
<1> QED
  BY <1>1 DEF Request, Bucket, Scopes

LEMMA RefilledType ==
  ASSUME TypeOK, NEW s \in Slots, req[s] \in Request
  PROVE  Refilled(s) \in Int
<1>1. /\ req[s].tokens \in Int /\ req[s].last \in Int
      /\ Capacity[req[s].policy] \in Int /\ Flow[req[s].policy] \in Int
      /\ clock \in Int /\ Wall \in Int
  BY ConstantTypes DEF Request, TypeOK, Wall
<1> DEFINE elapsed == (IF req[s].fresh THEN clock ELSE Wall) - req[s].last
<1>2. elapsed \in Int
  BY <1>1
<1>3. elapsed * Flow[req[s].policy] \in Int
  BY <1>1, <1>2
<1> QED
  BY <1>1, <1>3 DEF Refilled, LeastOf

(* The type invariant, the mutex included, is inductive. *)
LEMMA TypeStep == TypeOK /\ [Next]_vars => TypeOK'
<1> SUFFICES ASSUME TypeOK, [Next]_vars PROVE TypeOK'
  OBVIOUS
<1> USE NoRequestAssumption, NoEntryAssumption
<1>1. ASSUME NEW s \in Slots, NEW c \in Callers, NEW r \in Routes, Arrive(s, c, r)
      PROVE  TypeOK'
  <2>1. PolicyOf[r] \in Policies
    BY RateLimiterAssumption
  <2> DEFINE key == ScopeKey(c, r, Scope[PolicyOf[r]])
  <2> HIDE DEF key
  <2>a. key \in Keys
    BY KeyType DEF key
  <2> DEFINE q == [policy |-> PolicyOf[r], key |-> key, tokens |-> 0, last |-> 0,
                   fresh |-> TRUE, allowed |-> FALSE]
  <2>b. q \in Request
    BY <2>1, <2>a DEF Request
  <2>2. req' = [req EXCEPT ![s] = q]
    BY <1>1 DEF Arrive, key
  <2> HIDE DEF q
  <2> QED
    BY ZenonT(60), <1>1, <2>b, <2>2 DEF Arrive, Goto, TypeOK, Critical
<1>2. ASSUME NEW s \in Slots, Lock(s) PROVE TypeOK'
  <2>1. req[s] \in Request /\ Capacity[req[s].policy] \in Int /\ clock \in Int
    BY <1>2, Serving, ConstantTypes DEF Lock, TypeOK, Request
  <2>2. [req[s] EXCEPT !.tokens = Capacity[req[s].policy], !.last = clock] \in Request
    BY <2>1 DEF Request
  <2>3. req' = [req EXCEPT ![s] = [req[s] EXCEPT !.tokens = Capacity[req[s].policy], !.last = clock]]
    BY <1>2 DEF Lock, TypeOK
  <2>4. req' \in [Slots -> Request \cup {NoRequest}] /\ req'[s] # NoRequest
        /\ \A t \in Slots : t # s => req'[t] = req[t]
    BY <2>2, <2>3 DEF TypeOK
  <2> QED
    BY <1>2, <2>4, RateLimiterAssumption DEF Lock, Goto, TypeOK, Critical
<1>3. ASSUME NEW s \in Slots, Load(s) PROVE TypeOK'
  <2>1. req[s] \in Request /\ Bucket(s) \in Scopes \X Keys
    BY <1>3, Serving DEF Load
  <2>2. req' \in [Slots -> Request \cup {NoRequest}] /\ req'[s] # NoRequest
        /\ \A t \in Slots : t # s => req'[t] = req[t]
    <3>1. CASE Live(Bucket(s))
      <4>1. cell[Bucket(s)] \in Entry
        BY <3>1, <2>1 DEF Live, TypeOK
      <4>2. cell[Bucket(s)].tokens \in Int /\ cell[Bucket(s)].last \in Int
        BY <4>1 DEF Entry
      <4>3. [req[s] EXCEPT !.tokens = cell[Bucket(s)].tokens,
                           !.last = cell[Bucket(s)].last, !.fresh = FALSE] \in Request
        BY <2>1, <4>2 DEF Request
      <4>4. req' = [req EXCEPT ![s] =
              [req[s] EXCEPT !.tokens = cell[Bucket(s)].tokens,
                             !.last = cell[Bucket(s)].last, !.fresh = FALSE]]
        BY <1>3, <3>1 DEF Load, TypeOK
      <4> QED
        BY <4>3, <4>4 DEF TypeOK
    <3>2. CASE ~Live(Bucket(s))
      BY <1>3, <3>2, <2>1 DEF Load, TypeOK
    <3> QED
      BY <3>1, <3>2
  <2> QED
    BY <1>3, <2>2 DEF Load, Goto, TypeOK, Critical
<1>4. ASSUME NEW s \in Slots, LoadFails(s) PROVE TypeOK'
  BY <1>4, RateLimiterAssumption DEF LoadFails, Unlock, Goto, TypeOK, Critical
<1>5. ASSUME NEW s \in Slots, Take(s) PROVE TypeOK'
  <2>1. req[s] \in Request /\ Refilled(s) \in Int /\ Unit \in Int
    BY <1>5, Serving, RefilledType, RateLimiterAssumption DEF Take
  <2> DEFINE ok == Refilled(s) >= Unit
             n == Refilled(s) - (IF ok THEN Unit ELSE 0)
  <2>a. n \in Int /\ ok \in BOOLEAN
    BY <2>1
  <2>2. req' = [req EXCEPT ![s] = [req[s] EXCEPT !.tokens = n, !.allowed = ok]]
    BY <1>5 DEF Take, TypeOK
  <2> HIDE DEF n, ok
  <2>3. [req[s] EXCEPT !.tokens = n, !.allowed = ok] \in Request
    BY <2>1, <2>a DEF Request
  <2>4. req' \in [Slots -> Request \cup {NoRequest}] /\ req'[s] # NoRequest
        /\ \A t \in Slots : t # s => req'[t] = req[t]
    BY <2>2, <2>3 DEF TypeOK
  <2>5. level' \in [Policies -> [Keys -> Int]]
    <3>1. req[s].policy \in Policies /\ req[s].key \in Keys
      BY <2>1 DEF Request
    <3>2. Drained(level[req[s].policy][req[s].key]) \in Int
      BY <3>1, <2>1 DEF Drained, TypeOK
    <3> QED
      BY <1>5, <3>1, <3>2 DEF Take, TypeOK
  <2> QED
    BY <1>5, <2>4, <2>5 DEF Take, Goto, TypeOK, Critical
<1>6. ASSUME NEW s \in Slots, Stamp(s) PROVE TypeOK'
  <2>1. req[s] \in Request /\ Wall \in Int
    BY <1>6, Serving DEF Stamp, Wall, TypeOK
  <2>2. [req[s] EXCEPT !.last = Wall] \in Request
    BY <2>1 DEF Request
  <2>3. req' = [req EXCEPT ![s] = [req[s] EXCEPT !.last = Wall]]
    BY <1>6 DEF Stamp, TypeOK
  <2> QED
    BY <1>6, <2>2, <2>3 DEF Stamp, Goto, TypeOK, Critical
<1>7. ASSUME NEW s \in Slots, Store(s) PROVE TypeOK'
  <2>1. req[s] \in Request /\ Bucket(s) \in Scopes \X Keys
    BY <1>7, Serving DEF Store
  <2>2. clock + TTL(req[s].policy) \in Int
    BY <2>1, ConstantTypes DEF Request, TypeOK
  <2>3. [tokens |-> req[s].tokens, last |-> req[s].last,
         expiresAt |-> clock + TTL(req[s].policy)] \in Entry
    BY <2>1, <2>2 DEF Request, Entry
  <2>4. cell' \in [Scopes \X Keys -> Entry \cup {NoEntry}]
    BY <1>7, <2>1, <2>3 DEF Store, TypeOK
  <2> QED
    BY <1>7, <2>4, RateLimiterAssumption DEF Store, Unlock, Goto, TypeOK, Critical
<1>7a. ASSUME NEW s \in Slots, StoreFails(s) PROVE TypeOK'
  BY <1>7a, RateLimiterAssumption DEF StoreFails, Unlock, Goto, TypeOK, Critical
<1>8. ASSUME Tick PROVE TypeOK'
  <2>1. ASSUME NEW p \in Policies, NEW k \in Keys
        PROVE  LeastOf(Capacity[p], level[p][k] + Flow[p]) \in Int
    BY ConstantTypes DEF LeastOf, TypeOK
  <2>2. level' \in [Policies -> [Keys -> Int]]
    BY <1>8, <2>1 DEF Tick
  <2> QED
    BY <1>8, <2>2 DEF Tick, TypeOK
<1>9. ASSUME Slew PROVE TypeOK'
  BY <1>9, RateLimiterAssumption DEF Slew, TypeOK
<1>10. CASE UNCHANGED vars
  BY <1>10 DEF vars, TypeOK, Critical
<1> QED
  BY <1>1, <1>2, <1>3, <1>4, <1>5, <1>6, <1>7, <1>8, <1>9, <1>10, <1>7a
     DEF Next, Undisturbed

LEMMA TypeInit == Init => TypeOK
BY ConstantTypes, RateLimiterAssumption DEF Init, TypeOK, Critical

(* Every variable keeps its type, and mu is held exactly by the request    *)
(* inside Allow.                                                           *)
THEOREM TypeCorrect == Spec => []TypeOK
<1> QED
  BY TypeInit, TypeStep, PTL DEF Spec
-----------------------------------------------------------------------------
(* The configurations the law holds of. *)
Sound ==
  /\ ~CacheFaults
  /\ MaxSlew = 0
  /\ \A p, q \in Policies : Scope[p] = Scope[q] => p = q
  /\ \A p \in Policies : Capacity[p] <= TTL(p) * Flow[p]

(* What a record of tokens and last is worth now, and that the ideal bucket *)
(* holds at least as much.                                                  *)
Accrued(p, tokens, last) == LeastOf(Capacity[p], tokens + (clock - last) * Flow[p])
Backed(p, k, tokens, last) ==
  /\ 0 <= tokens /\ last <= clock
  /\ Accrued(p, tokens, last) <= level[p][k]

Recorded(p, k) ==
  LET e == cell[<<Scope[p], k>>] IN
  IF e = NoEntry
    THEN level[p][k] = Capacity[p]
    ELSE /\ Backed(p, k, e.tokens, e.last)
         /\ e.last + TTL(p) <= e.expiresAt

Pending(p, k) ==
  \E s \in Slots : /\ pc[s] \in {"stamp", "store"}
                   /\ req[s].policy = p /\ req[s].key = k

LocalsBacked(s) ==
  LET r == req[s] IN
  /\ pc[s] = "load" => r.tokens = Capacity[r.policy] /\ r.last <= clock
  /\ pc[s] \in {"take", "store"} => Backed(r.policy, r.key, r.tokens, r.last)
  /\ pc[s] = "stamp" => 0 <= r.tokens /\ r.tokens <= level[r.policy][r.key]

InRange == \A p \in Policies, k \in Keys : 0 <= level[p][k] /\ level[p][k] <= Capacity[p]

Credit ==
  /\ slew = 0
  /\ InRange
  /\ \A s \in Slots : LocalsBacked(s)
  /\ \A p \in Policies, k \in Keys : Pending(p, k) \/ Recorded(p, k)

(* Arithmetic. *)
LEMMA OneMoreTick ==
  ASSUME NEW c \in Int, NEW f \in Nat, NEW v \in Int, NEW d \in Int, NEW t \in Int,
         LeastOf(c, t + d * f) <= v
  PROVE  LeastOf(c, t + (d + 1) * f) <= LeastOf(c, v + f)
<1>1. (d + 1) * f = d * f + f
  OBVIOUS
<1> DEFINE m == d * f
<1>2. m \in Int
  OBVIOUS
<1> HIDE DEF m
<1>3. LeastOf(c, t + m) <= v
  BY DEF m
<1>4. LeastOf(c, t + m + f) <= LeastOf(c, v + f)
  BY <1>2, <1>3 DEF LeastOf
<1>5. t + (d + 1) * f = t + m + f
  BY <1>1, <1>2 DEF m
<1> QED
  BY <1>4, <1>5

LEMMA LongEnough ==
  ASSUME NEW c \in Int, NEW f \in Nat, NEW d \in Int, NEW w \in Nat, NEW t \in Int,
         w <= d, 0 <= t, c <= w * f
  PROVE  c <= t + d * f
<1>1. PICK e \in Nat : d = w + e
  <2>1. d - w \in Nat /\ d = w + (d - w)
    OBVIOUS
  <2> QED
    BY <2>1
<1>2. d * f = w * f + e * f
  BY <1>1
<1>3. e * f \in Nat /\ w * f \in Nat
  OBVIOUS
<1> QED
  BY <1>2, <1>3

LEMMA BackedTick ==
  ASSUME TypeOK, Tick, NEW p \in Policies, NEW k \in Keys,
         NEW t \in Int, NEW l \in Int, Backed(p, k, t, l)
  PROVE  /\ l <= clock'
         /\ LeastOf(Capacity[p], t + (clock' - l) * Flow[p]) <= level'[p][k]
<1>1. /\ Capacity[p] \in Int /\ Flow[p] \in Nat /\ level[p][k] \in Int
      /\ clock \in Int /\ clock' = clock + 1
      /\ level'[p][k] = LeastOf(Capacity[p], level[p][k] + Flow[p])
  BY ConstantTypes DEF TypeOK, Tick
<1>2. LeastOf(Capacity[p], t + (clock - l) * Flow[p]) <= level[p][k] /\ l <= clock
  BY DEF Backed, Accrued
<1> DEFINE d == clock - l
<1>3. d \in Int /\ clock' - l = d + 1 /\ LeastOf(Capacity[p], t + d * Flow[p]) <= level[p][k]
  BY <1>1, <1>2
<1> HIDE DEF d
<1>4. LeastOf(Capacity[p], t + (d + 1) * Flow[p]) <= level'[p][k]
  BY <1>1, <1>3, OneMoreTick
<1> QED
  BY <1>1, <1>2, <1>3, <1>4

(* An entry that has expired, like one that was never written, stands for  *)
(* a full bucket, and the ideal bucket is full.                            *)
LEMMA MissMeansFull ==
  ASSUME Sound, TypeOK, Credit, NEW p \in Policies, NEW k \in Keys,
         Recorded(p, k), ~Live(<<Scope[p], k>>)
  PROVE  level[p][k] = Capacity[p]
<1> DEFINE e == cell[<<Scope[p], k>>]
<1>1. CASE e = NoEntry
  BY <1>1 DEF Recorded
<1>2. CASE e # NoEntry
  <2>1. e \in Entry
    BY <1>2 DEF TypeOK, Scopes
  <2>2. e.tokens \in Int /\ e.last \in Int /\ e.expiresAt \in Int /\ clock \in Int
    BY <2>1 DEF Entry, TypeOK
  <2>3. Backed(p, k, e.tokens, e.last) /\ e.last + TTL(p) <= e.expiresAt
    BY <1>2 DEF Recorded
  <2>4. clock > e.expiresAt
    BY <1>2, <2>2 DEF Live
  <2>5. Capacity[p] \in Int /\ Flow[p] \in Nat /\ TTL(p) \in Nat
        /\ Capacity[p] <= TTL(p) * Flow[p]
    BY ConstantTypes DEF Sound
  <2>6. TTL(p) <= clock - e.last /\ clock - e.last \in Int
    BY <2>2, <2>3, <2>4, <2>5
  <2>7. 0 <= e.tokens /\ LeastOf(Capacity[p], e.tokens + (clock - e.last) * Flow[p]) <= level[p][k]
    BY <2>3 DEF Backed, Accrued
  <2> HIDE DEF e
  <2>8. Capacity[p] <= e.tokens + (clock - e.last) * Flow[p]
    BY <2>2, <2>5, <2>6, <2>7, LongEnough
  <2>9. (clock - e.last) * Flow[p] \in Int
    BY <2>5, <2>6
  <2>10. Capacity[p] <= level[p][k]
    BY <2>2, <2>5, <2>7, <2>8, <2>9 DEF LeastOf
  <2>11. level[p][k] \in Int
    BY DEF TypeOK
  <2> QED
    BY <2>5, <2>10, <2>11 DEF Credit, InRange
<1> QED
  BY <1>1, <1>2

(* Only the holder of mu is inside Allow. *)
LEMMA Alone ==
  ASSUME TypeOK, NEW s \in Slots, pc[s] \in Critical, NEW t \in Slots, t # s
  PROVE  pc[t] \notin Critical
BY DEF TypeOK

LEMMA NothingPending ==
  ASSUME TypeOK, NEW s \in Slots, pc[s] \in {"load", "take"}, NEW p, NEW k
  PROVE  ~Pending(p, k)
BY Alone DEF Pending, Critical

(* A request that only moves towards "take" leaves all records alone. *)
LEMMA RecordsStay ==
  ASSUME TypeOK, Credit, UNCHANGED <<clock, cell, level>>, NEW s \in Slots,
         pc[s] \notin {"stamp", "store"},
         \A t \in Slots : t # s => pc'[t] = pc[t] /\ req'[t] = req[t],
         NEW p \in Policies, NEW k \in Keys
  PROVE  Pending(p, k)' \/ Recorded(p, k)'
<1>1. CASE Pending(p, k)
  BY <1>1 DEF Pending
<1>2. CASE Recorded(p, k)
  BY <1>2 DEF Recorded, Backed, Accrued
<1> QED
  BY <1>1, <1>2 DEF Credit

LEMMA OthersStay ==
  ASSUME Credit, UNCHANGED <<clock, level>>, NEW t \in Slots,
         pc'[t] = pc[t], req'[t] = req[t]
  PROVE  LocalsBacked(t)'
BY DEF Credit, LocalsBacked, Backed, Accrued

LEMMA LockStep ==
  ASSUME TypeOK, Credit, NEW s \in Slots, Lock(s)
  PROVE  Credit'
<1>1. /\ UNCHANGED <<clock, slew, cell, level>>
      /\ pc'[s] = "load" /\ pc[s] = "lock"
      /\ \A t \in Slots : t # s => pc'[t] = pc[t] /\ req'[t] = req[t]
  BY DEF Lock, Goto, TypeOK
<1>2. req'[s].tokens = Capacity[req[s].policy] /\ req'[s].last = clock
      /\ req'[s].policy = req[s].policy
  <2>1. req[s] \in Request
    BY <1>1, Serving
  <2> QED
    BY <2>1 DEF Lock, TypeOK, Request
<1>3. LocalsBacked(s)'
  BY <1>1, <1>2 DEF LocalsBacked, TypeOK
<1>4. \A t \in Slots : LocalsBacked(t)'
  BY <1>1, <1>3, OthersStay
<1>5. \A p \in Policies, k \in Keys : Pending(p, k)' \/ Recorded(p, k)'
  BY <1>1, RecordsStay
<1> QED
  BY <1>1, <1>4, <1>5 DEF Credit, InRange

LEMMA LoadStep ==
  ASSUME Sound, TypeOK, Credit, NEW s \in Slots, Load(s)
  PROVE  Credit'
<1> DEFINE p == req[s].policy
           k == req[s].key
           e == cell[Bucket(s)]
<1>1. /\ UNCHANGED <<clock, slew, cell, level>>
      /\ pc'[s] = "take" /\ pc[s] = "load"
      /\ \A t \in Slots : t # s => pc'[t] = pc[t] /\ req'[t] = req[t]
  BY DEF Load, Goto, TypeOK
<1>2. req[s] \in Request /\ p \in Policies /\ k \in Keys
  BY <1>1, Serving DEF Request
<1>3. Recorded(p, k) /\ Bucket(s) = <<Scope[p], k>>
  BY <1>1, <1>2, NothingPending DEF Credit, Bucket
<1>4. Backed(p, k, req'[s].tokens, req'[s].last) /\ req'[s].policy = p /\ req'[s].key = k
  <2>1. CASE Live(Bucket(s))
    <3>1. req'[s] = [req[s] EXCEPT !.tokens = e.tokens, !.last = e.last, !.fresh = FALSE]
      BY <2>1 DEF Load, TypeOK
    <3>2. /\ req'[s].tokens = e.tokens /\ req'[s].last = e.last
          /\ req'[s].policy = p /\ req'[s].key = k
      BY <1>2, <3>1 DEF Request
    <3>3. Backed(p, k, e.tokens, e.last)
      BY <1>3, <2>1 DEF Recorded, Live
    <3> QED
      BY <3>2, <3>3
  <2>2. CASE ~Live(Bucket(s))
    <3>1. level[p][k] = Capacity[p]
      BY <1>2, <1>3, <2>2, MissMeansFull
    <3>2. req'[s] = req[s] /\ req[s].tokens = Capacity[p] /\ req[s].last <= clock
      BY <1>1, <2>2 DEF Load, Credit, LocalsBacked
    <3>3. /\ Capacity[p] \in Nat /\ Flow[p] \in Nat
          /\ req[s].last \in Int /\ clock \in Int
      BY <1>2, ConstantTypes DEF Request, TypeOK
    <3>4. Capacity[p] + (clock - req[s].last) * Flow[p] \in Int
      BY <3>3
    <3>5. Accrued(p, req[s].tokens, req[s].last) <= level[p][k]
      BY <3>1, <3>2, <3>3, <3>4 DEF Accrued, LeastOf
    <3> QED
      BY <3>2, <3>3, <3>5 DEF Backed
  <2> QED
    BY <2>1, <2>2
<1>5. LocalsBacked(s)'
  BY <1>1, <1>4 DEF LocalsBacked, Backed, Accrued
<1>6. \A t \in Slots : LocalsBacked(t)'
  BY <1>1, <1>5, OthersStay
<1>7. \A q \in Policies, j \in Keys : Pending(q, j)' \/ Recorded(q, j)'
  BY <1>1, RecordsStay
<1> QED
  BY <1>1, <1>6, <1>7 DEF Credit, InRange

(* What a request finds after the refill is backed by the ideal bucket. *)
LEMMA RefilledBacked ==
  ASSUME TypeOK, Credit, NEW s \in Slots, pc[s] = "take"
  PROVE  /\ Refilled(s) \in Int /\ 0 <= Refilled(s)
         /\ Refilled(s) <= level[req[s].policy][req[s].key]
<1> DEFINE p == req[s].policy
           k == req[s].key
           r == req[s]
<1>1. /\ r \in Request /\ p \in Policies /\ k \in Keys
      /\ r.tokens \in Int /\ r.last \in Int /\ clock \in Int
      /\ Capacity[p] \in Nat /\ Flow[p] \in Nat
  <2>1. r \in Request
    BY Serving
  <2> QED
    BY <2>1, ConstantTypes DEF Request, TypeOK
<1>2. Backed(p, k, r.tokens, r.last)
  BY DEF Credit, LocalsBacked
<1>3. Refilled(s) = LeastOf(Capacity[p], r.tokens + (clock - r.last) * Flow[p])
  BY <1>1 DEF Refilled, Credit, Wall
<1>4. 0 <= (clock - r.last) * Flow[p] /\ (clock - r.last) * Flow[p] \in Int
  <2>1. clock - r.last \in Nat
    BY <1>1, <1>2 DEF Backed
  <2> QED
    BY <2>1, <1>1
<1> QED
  BY <1>1, <1>2, <1>3, <1>4 DEF Backed, Accrued, LeastOf

LEMMA TakeStep ==
  ASSUME TypeOK, Credit, NEW s \in Slots, Take(s)
  PROVE  Credit'
<1> DEFINE p == req[s].policy
           k == req[s].key
           n == Refilled(s)
<1>1. /\ UNCHANGED <<clock, slew, cell>>
      /\ pc'[s] = "stamp" /\ pc[s] = "take"
      /\ \A t \in Slots : t # s => pc'[t] = pc[t] /\ req'[t] = req[t]
  BY DEF Take, Goto, TypeOK
<1>2. req[s] \in Request /\ p \in Policies /\ k \in Keys
  BY <1>1, Serving DEF Request
<1>3. n \in Int /\ 0 <= n /\ n <= level[p][k]
  BY <1>1, RefilledBacked
<1>4. req'[s].policy = p /\ req'[s].key = k
      /\ req'[s].tokens = n - (IF n >= Unit THEN Unit ELSE 0)
  BY <1>2 DEF Take, TypeOK, Request
<1>5. level'[p][k] = IF n >= Unit THEN level[p][k] - Unit ELSE level[p][k]
  <2>1. level[p][k] \in Int /\ Unit \in Nat
    BY <1>2, RateLimiterAssumption DEF TypeOK
  <2>2. n >= Unit => level[p][k] >= Unit
    BY <2>1, <1>3
  <2> QED
    BY <1>2, <2>2 DEF Take, TypeOK, Drained
<1>6. \A q \in Policies, j \in Keys : q # p \/ j # k => level'[q][j] = level[q][j]
  BY <1>2 DEF Take, TypeOK
<1>7. 0 <= level'[p][k] /\ level'[p][k] <= Capacity[p]
      /\ 0 <= req'[s].tokens /\ req'[s].tokens <= level'[p][k]
  <2>1. level[p][k] \in Int /\ Unit \in Nat /\ Capacity[p] \in Nat
        /\ level[p][k] <= Capacity[p]
    BY <1>2, RateLimiterAssumption, ConstantTypes DEF TypeOK, Credit, InRange
  <2> QED
    BY <2>1, <1>3, <1>4, <1>5
<1>8. \A t \in Slots : LocalsBacked(t)'
  <2>1. LocalsBacked(s)'
    BY <1>1, <1>4, <1>7 DEF LocalsBacked
  <2>2. ASSUME NEW t \in Slots, t # s PROVE LocalsBacked(t)'
    <3>1. pc'[t] \notin Critical
      BY <1>1, <2>2, Alone DEF Critical
    <3> QED
      BY <3>1 DEF LocalsBacked, Critical
  <2> QED
    BY <2>1, <2>2
<1>9. ASSUME NEW q \in Policies, NEW j \in Keys PROVE Pending(q, j)' \/ Recorded(q, j)'
  <2>1. CASE q = p /\ j = k
    BY <2>1, <1>1, <1>4 DEF Pending
  <2>2. CASE q # p \/ j # k
    <3>1. Recorded(q, j)
      BY <1>1, NothingPending DEF Credit
    <3> QED
      BY <3>1, <2>2, <1>1, <1>6 DEF Recorded, Backed, Accrued
  <2> QED
    BY <2>1, <2>2
<1>10. InRange'
  BY <1>2, <1>6, <1>7 DEF Credit, InRange
<1> QED
  BY <1>1, <1>8, <1>9, <1>10 DEF Credit

LEMMA StampStep ==
  ASSUME TypeOK, Credit, NEW s \in Slots, Stamp(s)
  PROVE  Credit'
<1> DEFINE p == req[s].policy
           k == req[s].key
<1>1. /\ UNCHANGED <<clock, slew, cell, level>>
      /\ pc'[s] = "store" /\ pc[s] = "stamp"
      /\ \A t \in Slots : t # s => pc'[t] = pc[t] /\ req'[t] = req[t]
  BY DEF Stamp, Goto, TypeOK
<1>2. /\ p \in Policies /\ k \in Keys /\ req[s].tokens \in Int /\ clock \in Int
      /\ Capacity[p] \in Nat /\ Flow[p] \in Nat /\ level[p][k] \in Int
  <2>1. req[s] \in Request
    BY <1>1, Serving
  <2> QED
    BY <2>1, ConstantTypes DEF Request, TypeOK
<1>3. /\ req'[s].policy = p /\ req'[s].key = k
      /\ req'[s].tokens = req[s].tokens /\ req'[s].last = clock
  <2>1. req[s] \in Request
    BY <1>1, Serving
  <2> QED
    BY <2>1 DEF Stamp, TypeOK, Request, Credit, Wall
<1>4. Backed(p, k, req[s].tokens, clock)
  <2>1. (clock - clock) * Flow[p] = 0
    BY <1>2
  <2>2. 0 <= req[s].tokens /\ req[s].tokens <= level[p][k]
    BY <1>1 DEF Credit, LocalsBacked
  <2> QED
    BY <1>2, <2>1, <2>2 DEF Backed, Accrued, LeastOf
<1>5. LocalsBacked(s)'
  BY <1>1, <1>3, <1>4 DEF LocalsBacked, Backed, Accrued
<1>6. \A t \in Slots : LocalsBacked(t)'
  BY <1>1, <1>5, OthersStay
<1>7. ASSUME NEW q \in Policies, NEW j \in Keys PROVE Pending(q, j)' \/ Recorded(q, j)'
  <2>1. CASE Pending(q, j)
    BY <2>1, <1>1, <1>3 DEF Pending
  <2>2. CASE Recorded(q, j)
    BY <2>2, <1>1 DEF Recorded, Backed, Accrued
  <2> QED
    BY <2>1, <2>2 DEF Credit
<1> QED
  BY <1>1, <1>6, <1>7 DEF Credit, InRange

LEMMA StoreStep ==
  ASSUME Sound, TypeOK, Credit, NEW s \in Slots, Store(s)
  PROVE  Credit'
<1>a. PICK p : p = req[s].policy
  OBVIOUS
<1>b. PICK k : k = req[s].key
  OBVIOUS
<1> DEFINE e == [tokens |-> req[s].tokens, last |-> req[s].last,
                expiresAt |-> clock + TTL(p)]
<1>1. /\ UNCHANGED <<clock, slew, level>>
      /\ pc'[s] = "idle" /\ pc[s] = "store"
      /\ cell' = [cell EXCEPT ![Bucket(s)] = e]
      /\ \A t \in Slots : t # s => pc'[t] = pc[t] /\ req'[t] = req[t]
  BY <1>a DEF Store, Unlock, Goto, TypeOK, Sound
<1>2. /\ p \in Policies /\ k \in Keys /\ req[s].tokens \in Int /\ req[s].last \in Int
      /\ clock \in Int /\ TTL(p) \in Nat /\ Bucket(s) \in Scopes \X Keys
  <2>1. req[s] \in Request
    BY <1>1, Serving
  <2> QED
    BY <2>1, <1>1, <1>a, <1>b, Serving, ConstantTypes DEF Request, TypeOK
<1>3. e \in Entry /\ e # NoEntry
  BY <1>2, NoEntryAssumption DEF Entry
<1>4. Backed(p, k, e.tokens, e.last) /\ e.last + TTL(p) <= e.expiresAt
  <2>1. Backed(p, k, req[s].tokens, req[s].last)
    BY <1>1, <1>a, <1>b DEF Credit, LocalsBacked
  <2> QED
    BY <2>1, <1>2 DEF Backed
<1>5. Recorded(p, k)'
  <2>1. cell'[<<Scope[p], k>>] = e
    BY <1>1, <1>2, <1>a, <1>b DEF Bucket, TypeOK
  <2> QED
    BY <2>1, <1>1, <1>3, <1>4 DEF Recorded, Backed, Accrued
<1>6. ASSUME NEW q \in Policies, NEW j \in Keys, q # p \/ j # k
      PROVE  Recorded(q, j)'
  <2>1. ~Pending(q, j)
    <3>1. \A t \in Slots : t # s => pc[t] \notin Critical
      BY <1>1, Alone DEF Critical
    <3> QED
      BY <3>1, <1>6, <1>a, <1>b DEF Pending, Critical
  <2>2. <<Scope[q], j>> # Bucket(s)
    BY <1>2, <1>6, <1>a, <1>b DEF Sound, Bucket
  <2>3. cell'[<<Scope[q], j>>] = cell[<<Scope[q], j>>]
    BY <2>2, <1>1, <1>2 DEF TypeOK, Scopes
  <2> QED
    BY <1>1, <2>1, <2>3 DEF Credit, Recorded, Backed, Accrued
<1>7. LocalsBacked(s)'
  BY <1>1 DEF LocalsBacked
<1>8. \A t \in Slots : LocalsBacked(t)'
  BY <1>1, <1>7, OthersStay
<1>9. \A q \in Policies, j \in Keys : Recorded(q, j)'
  BY <1>5, <1>6
<1> QED
  BY <1>1, <1>8, <1>9 DEF Credit, InRange

LEMMA TickStep ==
  ASSUME TypeOK, Credit, Tick
  PROVE  Credit'
<1>1. /\ clock' = clock + 1 /\ clock \in Int
      /\ UNCHANGED <<slew, cell, pc, req>>
  BY DEF Tick, TypeOK
<1>2. ASSUME NEW p \in Policies, NEW k \in Keys
      PROVE  /\ level'[p][k] = LeastOf(Capacity[p], level[p][k] + Flow[p])
             /\ Capacity[p] \in Nat /\ Flow[p] \in Nat /\ level[p][k] \in Int
             /\ 0 <= level[p][k] /\ level[p][k] <= Capacity[p]
  BY ConstantTypes DEF Tick, TypeOK, Credit, InRange
<1>3. ASSUME NEW p \in Policies, NEW k \in Keys
      PROVE  0 <= level'[p][k] /\ level'[p][k] <= Capacity[p] /\ level[p][k] <= level'[p][k]
  BY <1>2 DEF LeastOf
<1>4. ASSUME NEW s \in Slots PROVE LocalsBacked(s)'
  <2>1. CASE pc[s] \notin Critical
    BY <2>1, <1>1 DEF LocalsBacked, Critical
  <2>2. CASE pc[s] \in Critical
    <3>1. /\ req[s].policy \in Policies /\ req[s].key \in Keys
          /\ req[s].tokens \in Int /\ req[s].last \in Int
      <4>1. req[s] \in Request
        BY <2>2, Serving DEF Critical
      <4> QED
        BY <4>1 DEF Request
    <3>2. CASE pc[s] = "load"
      BY <3>1, <3>2, <1>1 DEF Credit, LocalsBacked
    <3>3. CASE pc[s] \in {"take", "store"}
      <4>1. Backed(req[s].policy, req[s].key, req[s].tokens, req[s].last)
        BY <3>3 DEF Credit, LocalsBacked
      <4>2. /\ req[s].last <= clock'
            /\ LeastOf(Capacity[req[s].policy],
                       req[s].tokens + (clock' - req[s].last) * Flow[req[s].policy])
                 <= level'[req[s].policy][req[s].key]
        BY <3>1, <4>1, BackedTick
      <4> QED
        BY <3>3, <4>1, <4>2, <1>1 DEF LocalsBacked, Backed, Accrued
    <3>4. CASE pc[s] = "stamp"
      <4>1. 0 <= req[s].tokens /\ req[s].tokens <= level[req[s].policy][req[s].key]
        BY <3>4 DEF Credit, LocalsBacked
      <4>2. level'[req[s].policy][req[s].key] \in Int
        BY <3>1, <1>2 DEF LeastOf
      <4>3. req[s].tokens <= level'[req[s].policy][req[s].key]
        BY <3>1, <4>1, <4>2, <1>2, <1>3
      <4> QED
        BY <3>4, <4>1, <4>3, <1>1 DEF LocalsBacked
    <3> QED
      BY <2>2, <3>2, <3>3, <3>4 DEF Critical
  <2> QED
    BY <2>1, <2>2
<1>5. ASSUME NEW p \in Policies, NEW k \in Keys PROVE Pending(p, k)' \/ Recorded(p, k)'
  <2>1. CASE Pending(p, k)
    BY <2>1, <1>1 DEF Pending
  <2>2. CASE Recorded(p, k) /\ cell[<<Scope[p], k>>] = NoEntry
    BY <2>2, <1>1, <1>2 DEF Recorded, LeastOf
  <2>3. CASE Recorded(p, k) /\ cell[<<Scope[p], k>>] # NoEntry
    <3> DEFINE e == cell[<<Scope[p], k>>]
    <3>1. e \in Entry
      BY <2>3 DEF TypeOK, Scopes
    <3>2. e.tokens \in Int /\ e.last \in Int
      BY <3>1 DEF Entry
    <3>3. Backed(p, k, e.tokens, e.last) /\ e.last + TTL(p) <= e.expiresAt
      BY <2>3 DEF Recorded
    <3>4. /\ e.last <= clock'
          /\ LeastOf(Capacity[p], e.tokens + (clock' - e.last) * Flow[p]) <= level'[p][k]
      BY <3>2, <3>3, BackedTick
    <3> QED
      BY <2>3, <3>3, <3>4, <1>1 DEF Recorded, Backed, Accrued
  <2> QED
    BY <2>1, <2>2, <2>3 DEF Credit
<1> QED
  BY <1>1, <1>3, <1>4, <1>5 DEF Credit, InRange

LEMMA ArriveStep ==
  ASSUME TypeOK, Credit, NEW s \in Slots, NEW c \in Callers, NEW r \in Routes,
         Arrive(s, c, r)
  PROVE  Credit'
<1>1. /\ UNCHANGED <<clock, slew, cell, level>>
      /\ pc'[s] = "lock" /\ pc[s] = "idle"
      /\ \A t \in Slots : t # s => pc'[t] = pc[t] /\ req'[t] = req[t]
  BY DEF Arrive, Goto, TypeOK
<1>2. \A t \in Slots : LocalsBacked(t)'
  <2>1. LocalsBacked(s)'
    BY <1>1 DEF LocalsBacked
  <2> QED
    BY <1>1, <2>1, OthersStay
<1>3. \A p \in Policies, k \in Keys : Pending(p, k)' \/ Recorded(p, k)'
  BY <1>1, RecordsStay
<1> QED
  BY <1>1, <1>2, <1>3 DEF Credit, InRange

LEMMA CreditStep ==
  ASSUME Sound, TypeOK, Credit, [Next]_vars
  PROVE  Credit'
<1>1. CASE UNCHANGED vars
  BY <1>1 DEF vars, Credit, InRange, LocalsBacked, Pending, Recorded, Backed, Accrued
<1>2. ASSUME NEW s \in Slots, LoadFails(s) PROVE FALSE
  BY <1>2 DEF LoadFails, Sound
<1>3. CASE Slew
  BY <1>3 DEF Slew, Sound
<1>4. ASSUME NEW s \in Slots, StoreFails(s) PROVE FALSE
  BY <1>4 DEF StoreFails, Sound
<1> QED
  BY <1>1, <1>2, <1>3, <1>4, ArriveStep, LockStep, LoadStep, TakeStep, StampStep,
     StoreStep, TickStep DEF Next, Undisturbed

LEMMA CreditInit == Init => Credit
<1> SUFFICES ASSUME Init PROVE Credit
  OBVIOUS
<1>1. ASSUME NEW p \in Policies, NEW k \in Keys
      PROVE  level[p][k] = Capacity[p] /\ Capacity[p] \in Nat /\ Recorded(p, k)
  BY ConstantTypes DEF Init, Recorded, Scopes
<1>2. \A s \in Slots : LocalsBacked(s)
  BY DEF Init, LocalsBacked
<1>3. slew = 0
  BY DEF Init
<1> QED
  BY <1>1, <1>2, <1>3 DEF Credit, InRange

(* In a sound configuration the limiter implements the law of the token     *)
(* bucket: Tick is the refill, the step that lets a request through takes   *)
(* its token from the ideal bucket of its policy and key, and everything    *)
(* else, entries expiring included, leaves the ideal buckets as they are.   *)
THEOREM LawKept ==
  ASSUME Sound
  PROVE  Spec => KeepsTheLaw
<1>1. Init => Law!Init
  BY DEF Init, Law!Init
<1>2. TypeOK /\ Credit /\ [Next]_vars => [Law!Next]_level
  <2> SUFFICES ASSUME TypeOK, Credit, [Next]_vars PROVE [Law!Next]_level
    OBVIOUS
  <2>1. CASE Tick
    BY <2>1 DEF Tick, Law!Next, Law!Refill, LeastOf, Law!LeastOf
  <2>2. ASSUME NEW s \in Slots, Take(s) PROVE [Law!Next]_level
    <3> DEFINE p == req[s].policy
               k == req[s].key
    <3>1. /\ p \in Policies /\ k \in Keys /\ Refilled(s) \in Int
          /\ Refilled(s) <= level[p][k] /\ level[p][k] \in Int /\ Unit \in Nat
      <4>1. req[s] \in Request
        BY <2>2, Serving DEF Take
      <4> QED
        BY <4>1, <2>2, RefilledBacked, RateLimiterAssumption DEF Take, Request, TypeOK
    <3>2. CASE Refilled(s) >= Unit
      <4>1. level[p][k] >= Unit
        BY <3>1, <3>2
      <4>2. level' = [level EXCEPT ![p][k] = @ - Unit]
        BY <2>2, <3>2, <4>1 DEF Take, Drained
      <4>3. Law!Admit(p, k)
        BY <4>1, <4>2 DEF Law!Admit
      <4> QED
        BY <3>1, <4>3 DEF Law!Next
    <3>3. CASE ~(Refilled(s) >= Unit)
      BY <2>2, <3>3 DEF Take
    <3> QED
      BY <3>2, <3>3
  <2>3. CASE UNCHANGED level
    BY <2>3
  <2> QED
    BY <2>1, <2>2, <2>3
       DEF Next, Undisturbed, Arrive, Lock, Load, LoadFails, Stamp, Store, StoreFails,
           Slew, vars
<1>3. Credit /\ TypeOK /\ [Next]_vars => Credit'
  BY CreditStep
<1> QED
  BY <1>1, <1>2, <1>3, CreditInit, TypeCorrect, PTL DEF Spec, KeepsTheLaw, Law!Spec
=============================================================================
