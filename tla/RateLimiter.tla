------------------------------ MODULE RateLimiter ------------------------------
(***************************************************************************)
(* internal/ratelimit: the token bucket behind the gateway's RateLimit     *)
(* middleware, over the in-process cache of internal/persistence/cache.    *)
(*                                                                         *)
(* Allow is serialised by a mutex but reads the clock five times on its    *)
(* way: for the state a missing entry starts with, in Get (expiry), for    *)
(* the time elapsed, for the new `last`, and in Set (the entry's own       *)
(* expiry).  Each step below holds at most one reading, so time may pass   *)
(* between any two.  Expiry is judged on Go's monotonic clock; `last` went *)
(* through JSON, which drops the monotonic reading, so the elapsed time of *)
(* a cached state is a difference of wall clock times.                     *)
(*                                                                         *)
(* Tokens are counted in units, Unit to a token, such that every policy    *)
(* accrues a whole number of them per tick.  Cache entries always hold     *)
(* JSON that Allow wrote itself, so the branch for corrupt data is out.    *)
(* The module covers one life of the process: the cache dies with it.      *)
(***************************************************************************)
EXTENDS Integers

CONSTANTS
  Slots,       \* goroutines serving requests
  NoSlot,
  Callers,     \* user ids (requests reach the limiter authenticated)
  Routes,      \* request paths
  Policies,
  PolicyOf,    \* PolicyOf[r]: the policy of route r
  Scope,       \* Scope[p], and so on: the fields of policy p
  LimitCount, WindowSec, Burst,
  Unit,        \* units of one token
  Minute,      \* ticks of the minute ttlFor adds to the window
  NoEntry, NoRequest,
  CacheFaults, \* the cache may fail (memory never does, a remote one may)
  MaxSlew,     \* bound: how far the wall clock is set away from true time
  MaxTime      \* bound: last tick

Keys == Callers \cup Routes \cup {"global"}
Scopes == {Scope[p] : p \in Policies}

ASSUME RateLimiterAssumption ==
  /\ NoSlot \notin Slots
  /\ PolicyOf \in [Routes -> Policies]
  /\ LimitCount \in [Policies -> Nat]
  /\ WindowSec \in [Policies -> Nat]
  /\ Burst \in [Policies -> Nat]
  /\ Unit \in Nat \ {0}
  /\ \A p \in Policies : WindowSec[p] > 0 => Unit % WindowSec[p] = 0
  /\ Minute \in Nat
  /\ CacheFaults \in BOOLEAN
  /\ MaxSlew \in Nat
  /\ MaxTime \in Nat

Flow == [p \in Policies |->
          IF WindowSec[p] = 0 THEN 0 ELSE LimitCount[p] * (Unit \div WindowSec[p])]
Capacity == [p \in Policies |-> Burst[p] * Unit]
TTL(p) == (IF WindowSec[p] = 0 THEN Minute ELSE WindowSec[p]) + Minute

VARIABLES
  clock,  \* monotonic time, in ticks
  slew,   \* wall clock minus clock
  cell,   \* cell[b]: the cache entry of bucket b, or NoEntry
  mu,     \* the slot that holds TokenBucket.mu, or NoSlot
  pc,
  req,    \* req[s]: the request of slot s and the locals of Allow
  level   \* history: the ideal buckets of TokenBucketLaw

vars == <<clock, slew, cell, mu, pc, req, level>>

Entry == [tokens : Int, last : Int, expiresAt : Int]

ASSUME NoEntryAssumption == NoEntry \notin Entry

\* fresh: the state did not come from the cache.
Request == [policy : Policies, key : Keys, tokens : Int, last : Int,
            fresh : BOOLEAN, allowed : BOOLEAN]

ASSUME NoRequestAssumption == NoRequest \notin Request

Wall == clock + slew
LeastOf(a, b) == IF a < b THEN a ELSE b

\* ckey: the policy's name is not part of it.
Bucket(s) == <<Scope[req[s].policy], req[s].key>>

ScopeKey(c, r, scope) ==
  CASE scope = "per-key" -> c
    [] scope = "per-route" -> r
    [] OTHER -> "global"

Init ==
  /\ clock = 0
  /\ slew = 0
  /\ cell = [b \in Scopes \X Keys |-> NoEntry]
  /\ mu = NoSlot
  /\ pc = [s \in Slots |-> "idle"]
  /\ req = [s \in Slots |-> NoRequest]
  /\ level = [p \in Policies |-> [k \in Keys |-> Capacity[p]]]

Goto(s, l) == pc' = [pc EXCEPT ![s] = l]
-----------------------------------------------------------------------------
\* The middleware picks the key and calls Allow.
Arrive(s, c, r) ==
  LET p == PolicyOf[r] IN
  /\ pc[s] = "idle"
  /\ Goto(s, "lock")
  /\ req' = [req EXCEPT ![s] =
       [policy |-> p, key |-> ScopeKey(c, r, Scope[p]), tokens |-> 0,
        last |-> 0, fresh |-> TRUE, allowed |-> FALSE]]
  /\ UNCHANGED <<clock, slew, cell, mu, level>>

\* Mutant: TokenBucket.mu is not taken.
LockNothing(s) ==
  /\ pc[s] = "lock"
  /\ Goto(s, "load")
  /\ req' = [req EXCEPT ![s].tokens = Capacity[req[s].policy],
                        ![s].last = clock]
  /\ UNCHANGED <<clock, slew, cell, mu, level>>

\* The mutex, then the full bucket a missing entry stands for.
Lock(s) ==
  /\ pc[s] = "lock" /\ mu = NoSlot
  /\ mu' = s
  /\ Goto(s, "load")
  /\ req' = [req EXCEPT ![s].tokens = Capacity[req[s].policy],
                        ![s].last = clock]
  /\ UNCHANGED <<clock, slew, cell, level>>

\* The handler goes on, or 429 is written: Allow has returned.
Unlock(s) ==
  /\ mu' = NoSlot
  /\ Goto(s, "idle")
  /\ req' = [req EXCEPT ![s] = NoRequest]

Live(b) == cell[b] # NoEntry /\ clock <= cell[b].expiresAt

\* Memory.Get: an entry replaces the full bucket unless it has expired.
Load(s) ==
  LET b == Bucket(s) IN
  /\ pc[s] = "load"
  /\ Goto(s, "take")
  /\ IF Live(b)
       THEN req' = [req EXCEPT ![s].tokens = cell[b].tokens,
                               ![s].last = cell[b].last,
                               ![s].fresh = FALSE]
       ELSE UNCHANGED req
  /\ UNCHANGED <<clock, slew, cell, mu, level>>

\* Mutant: fail-open without the deferred Unlock.
LoadFailsLocked(s) ==
  /\ CacheFaults /\ pc[s] = "load"
  /\ Goto(s, "idle")
  /\ req' = [req EXCEPT ![s] = NoRequest]
  /\ UNCHANGED <<clock, slew, cell, mu, level>>

\* An error of the cache other than ErrMiss: fail-open, nothing is written.
LoadFails(s) ==
  /\ CacheFaults /\ pc[s] = "load"
  /\ Unlock(s)
  /\ UNCHANGED <<clock, slew, cell, level>>

\* The lazy refill, minFloat(p.Burst, st.Tokens + refill).
Refilled(s) ==
  LET r == req[s]
      elapsed == (IF r.fresh THEN clock ELSE Wall) - r.last
  IN
  LeastOf(Capacity[r.policy], r.tokens + elapsed * Flow[r.policy])

\* The ideal bucket after a request was let through; -1: it was not full enough.
Drained(units) == IF units >= Unit THEN units - Unit ELSE -1

\* Refill, and consume a token if there is one.
Take(s) ==
  LET r == req[s]
      ok == Refilled(s) >= Unit
  IN
  /\ pc[s] = "take"
  /\ Goto(s, "stamp")
  /\ req' = [req EXCEPT ![s].tokens = Refilled(s) - (IF ok THEN Unit ELSE 0),
                        ![s].allowed = ok]
  /\ level' = IF ok THEN [level EXCEPT ![r.policy][r.key] = Drained(@)] ELSE level
  /\ UNCHANGED <<clock, slew, cell, mu>>

\* Mutant: `last` is not moved on after a request that was refused.
StampRejected(s) ==
  /\ pc[s] = "stamp"
  /\ Goto(s, "store")
  /\ IF req[s].allowed THEN req' = [req EXCEPT ![s].last = Wall] ELSE UNCHANGED req
  /\ UNCHANGED <<clock, slew, cell, mu, level>>

\* st.Last = t.now(), whether the request was let through or not.
Stamp(s) ==
  /\ pc[s] = "stamp"
  /\ Goto(s, "store")
  /\ req' = [req EXCEPT ![s].last = Wall]
  /\ UNCHANGED <<clock, slew, cell, mu, level>>

\* Memory.Set and the deferred Unlock.
Store(s) ==
  LET r == req[s] IN
  /\ pc[s] = "store"
  /\ cell' = [cell EXCEPT ![Bucket(s)] =
       [tokens |-> r.tokens, last |-> r.last, expiresAt |-> clock + TTL(r.policy)]]
  /\ Unlock(s)
  /\ UNCHANGED <<clock, slew, level>>

\* An error of Set is ignored: the caller's token is not taken.
StoreFails(s) ==
  /\ CacheFaults /\ pc[s] = "store"
  /\ Unlock(s)
  /\ UNCHANGED <<clock, slew, cell, level>>
-----------------------------------------------------------------------------
Tick ==
  /\ clock < MaxTime
  /\ clock' = clock + 1
  /\ level' = [p \in Policies |-> [k \in Keys |->
                LeastOf(Capacity[p], level[p][k] + Flow[p])]]
  /\ UNCHANGED <<slew, cell, mu, pc, req>>

\* Somebody sets the machine's clock (bound: once).
Slew ==
  /\ slew = 0
  /\ \E d \in -MaxSlew .. MaxSlew : d # 0 /\ slew' = d
  /\ UNCHANGED <<clock, cell, mu, pc, req, level>>

\* The cache works and nobody sets the clock.
Undisturbed ==
  \/ \E s \in Slots :
       \/ \E c \in Callers, r \in Routes : Arrive(s, c, r)
       \/ Lock(s) \/ Load(s) \/ Take(s) \/ Stamp(s) \/ Store(s)
  \/ Tick

Next ==
  \/ Undisturbed
  \/ \E s \in Slots : LoadFails(s) \/ StoreFails(s)
  \/ Slew

Spec == Init /\ [][Next]_vars

\* What Spec comes to without CacheFaults and with MaxSlew = 0.
UndisturbedSpec == Init /\ [][Undisturbed]_vars
-----------------------------------------------------------------------------
(* Properties *)

Critical == {"load", "take", "stamp", "store"}

\* mu is held by exactly the request inside Allow.
TypeOK ==
  /\ clock \in Nat
  /\ slew \in Int
  /\ cell \in [Scopes \X Keys -> Entry \cup {NoEntry}]
  /\ pc \in [Slots -> {"idle", "lock"} \cup Critical]
  /\ req \in [Slots -> Request \cup {NoRequest}]
  /\ \A s \in Slots : pc[s] # "idle" => req[s] # NoRequest
  /\ \A s \in Slots : mu = s <=> pc[s] \in Critical
  /\ level \in [Policies -> [Keys -> Int]]

\* The limiter keeps the law of the token bucket for every policy and key,
\* although it refills lazily, forgets entries and reads several clocks.
Law == INSTANCE TokenBucketLaw
KeepsTheLaw == Law!Spec
=============================================================================
