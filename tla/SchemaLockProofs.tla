--------------------------- MODULE SchemaLockProofs ---------------------------
(***************************************************************************)
(* The schema lock is right for every number of runs, lease, clock skew    *)
(* and number of migrations, with every fault switched on or off.          *)
(*                                                                         *)
(* FreshExclusive is not inductive: that two runs hold the lock only after *)
(* an overrun follows from what each holder knows of the row               *)
(* (HeldOrOverrun), which in turn needs that the row's acquired_at is the  *)
(* one its owner remembers (RowIsLease) and that `now` never runs ahead of *)
(* the machine's clock (NowPast), so that a takeover proves an overrun.    *)
(* SuccessMeansMigrated and ClashOnlyAfterOverrun rest on what a run       *)
(* remembers of the schema it planned for: Migrated, and PlannedIsPast     *)
(* with StaleAfterOverrun.                                                 *)
(***************************************************************************)
EXTENDS SchemaLock, TLAPS

RowIsLease == \A i \in Runs : holder = i => acquiredAt = lease[i]

NowPast == \A i \in Runs : now[i] <= Wall(i)

HeldOrOverrun == \A i \in Runs : Holding(i) => holder = i \/ Overrun(i)

LockInv == RowIsLease /\ NowPast /\ HeldOrOverrun

PlanInRange == \A i \in Runs : pc[i] = "apply" => next[i] \in 1 .. Migrations

-----------------------------------------------------------------------------
(* Whole seconds of the half second clock. *)

\* Truncation to seconds (time.Time.Unix) is monotonic and stays in Nat.
LEMMA SecMonotone ==
  \A s, t \in Nat : Sec(s) \in Nat /\ (s <= t => Sec(s) <= Sec(t))
BY SMT DEF Sec

\* A machine's wall clock shows whole seconds.
LEMMA WallNat ==
  ASSUME TypeOK, NEW i \in Runs
  PROVE  Wall(i) \in Nat
<1>1. clock + Skew[i] \in Nat
  BY SchemaLockAssumption DEF TypeOK
<1>. QED BY <1>1, SecMonotone DEF Wall

\* It never runs backwards.
LEMMA WallMonotone ==
  ASSUME TypeOK, clock' \in Nat, clock <= clock', NEW i \in Runs
  PROVE  Wall(i) \in Nat /\ Wall(i)' \in Nat /\ Wall(i) <= Wall(i)'
<1>1. clock \in Nat /\ Skew[i] \in Nat
  BY SchemaLockAssumption DEF TypeOK
<1>2. /\ clock + Skew[i] \in Nat
      /\ clock' + Skew[i] \in Nat
      /\ clock + Skew[i] <= clock' + Skew[i]
  BY <1>1
<1>. QED BY <1>2, SecMonotone DEF Wall

\* Once a row is older than lockTTL it stays so.
LEMMA OverrunStable ==
  ASSUME TypeOK, clock' \in Nat, clock <= clock',
         NEW i \in Runs, lease'[i] = lease[i], Overrun(i)
  PROVE  Overrun(i)'
<1>1. PICK j \in Runs \ {i} : Wall(j) > lease[i] + LockTTL
  BY DEF Overrun
<1>2. Wall(j) \in Nat /\ Wall(j)' \in Nat /\ Wall(j) <= Wall(j)'
  BY WallMonotone
<1>3. lease[i] \in Nat /\ LockTTL \in Nat
  BY SchemaLockAssumption DEF TypeOK
<1>4. Wall(j)' > lease'[i] + LockTTL
  BY <1>1, <1>2, <1>3
<1>. QED BY <1>4 DEF Overrun
-----------------------------------------------------------------------------
(* Types *)

\* What goose applies next is a file that exists; without this the version
\* table could not be shown to keep its type.
LEMMA PlanStep ==
  ASSUME TypeOK, PlanInRange, [Next]_vars
  PROVE  PlanInRange'
<1>. USE SchemaLockAssumption DEF TypeOK, PlanInRange, Goto
<1>1. ASSUME NEW i \in Runs, Plan(i) PROVE PlanInRange'
  BY <1>1 DEF Plan
<1>2. ASSUME NEW i \in Runs, Apply(i) PROVE PlanInRange'
  BY <1>2 DEF Apply
<1>3. ASSUME NEW i \in Runs,
             \/ Start(i) \/ Insert(i) \/ Takeover(i) \/ Confirm(i) \/ Poll(i)
             \/ Release(i) \/ Cancel(i) \/ Crash(i)
      PROVE  PlanInRange'
  BY <1>3 DEF Start, Insert, Takeover, Confirm, Poll, Release, Cancel, Crash,
              gooseVars
<1>4. CASE Tick \/ UNCHANGED vars
  BY <1>4 DEF Tick, vars, gooseVars
<1>. QED BY <1>1, <1>2, <1>3, <1>4 DEF Next, Step

LEMMA TypeInit == Init => TypeOK /\ PlanInRange
BY SchemaLockAssumption DEF Init, TypeOK, Labels, PlanInRange

LEMMA TypeStep ==
  ASSUME TypeOK, PlanInRange, [Next]_vars
  PROVE  TypeOK'
<1>. USE SchemaLockAssumption DEF TypeOK
<1>1. ASSUME NEW i \in Runs, Start(i) PROVE TypeOK'
  <2>1. Wall(i) \in Nat
    BY WallNat
  <2>. QED BY <1>1, <2>1 DEF Start, Goto, Labels, lockVars, gooseVars
<1>2. ASSUME NEW i \in Runs, Insert(i) PROVE TypeOK'
  BY <1>2 DEF Insert, WriteRow, Goto, Labels, lockVars, gooseVars
<1>3. ASSUME NEW i \in Runs, Takeover(i) PROVE TypeOK'
  BY <1>3 DEF Takeover, WriteRow, Goto, Labels, lockVars, gooseVars
<1>4. ASSUME NEW i \in Runs, Confirm(i) PROVE TypeOK'
  BY <1>4 DEF Confirm, Goto, Labels, lockVars, gooseVars
<1>5. ASSUME NEW i \in Runs, Poll(i) PROVE TypeOK'
  <2>1. Wall(i) \in Nat
    BY WallNat
  <2>. QED BY <1>5, <2>1 DEF Poll, Goto, Labels, lockVars, gooseVars
<1>6. ASSUME NEW i \in Runs, Cancel(i) PROVE TypeOK'
  BY <1>6 DEF Cancel, Goto, Labels, lockVars, gooseVars
<1>7. ASSUME NEW i \in Runs, Plan(i) PROVE TypeOK'
  <2>1. applied + 1 \in 0 .. Migrations + 1
    OBVIOUS
  <2>2. next' \in [Runs -> 0 .. Migrations + 1]
    BY <1>7, <2>1 DEF Plan
  <2>3. pc' \in [Runs -> Labels]
    BY <1>7 DEF Plan, Goto, Labels
  <2>4. err' \in [Runs -> BOOLEAN]
    BY <1>7 DEF Plan
  <2>. QED BY <1>7, <2>2, <2>3, <2>4 DEF Plan, lockVars
<1>8. ASSUME NEW i \in Runs, Apply(i) PROVE TypeOK'
  BY <1>8 DEF Apply, Goto, Labels, lockVars, PlanInRange
<1>9. ASSUME NEW i \in Runs, Release(i) PROVE TypeOK'
  BY <1>9 DEF Release, Goto, Labels, lockVars, gooseVars
<1>10. ASSUME NEW i \in Runs, Crash(i) PROVE TypeOK'
  BY <1>10 DEF Crash, Goto, Labels, lockVars, gooseVars
<1>11. CASE Tick
  BY <1>11 DEF Tick, lockVars, gooseVars
<1>12. CASE UNCHANGED vars
  BY <1>12 DEF vars
<1>. QED
  BY <1>1, <1>2, <1>3, <1>4, <1>5, <1>6, <1>7, <1>8, <1>9, <1>10, <1>11, <1>12
  DEF Next, Step

\* Every variable keeps its type: in particular goose never records a
\* migration beyond the last file.
THEOREM TypeCorrect == Spec => []TypeOK
<1>1. Spec => [](TypeOK /\ PlanInRange)
  BY TypeInit, TypeStep, PlanStep, PTL DEF Spec
<1>. QED BY <1>1, PTL
-----------------------------------------------------------------------------
(* Mutual exclusion *)

LEMMA LockInit == Init => LockInv
<1>. SUFFICES ASSUME Init PROVE LockInv
  OBVIOUS
<1>1. \A i \in Runs : Wall(i) \in Nat
  BY TypeInit, WallNat
<1>2. RowIsLease /\ HeldOrOverrun
  BY SchemaLockAssumption DEF Init, RowIsLease, HeldOrOverrun, Holding
<1>3. ASSUME NEW i \in Runs PROVE now[i] <= Wall(i)
  <2>1. now[i] = 0 /\ Wall(i) \in Nat
    BY <1>1 DEF Init
  <2>. QED BY <2>1
<1>. QED BY <1>2, <1>3 DEF LockInv, NowPast

\* A run that writes the row while another one holds the lock has read a
\* clock that says the holder's lease is over.
LEMMA TakeoverMeansOverrun ==
  ASSUME TypeOK, RowIsLease, NowPast,
         NEW i \in Runs, NEW k \in Runs, k # i, holder = k,
         acquiredAt < now[i] - LockTTL
  PROVE  Overrun(k)
<1>1. now[i] <= Wall(i) /\ Wall(i) \in Nat
  BY WallNat DEF NowPast
<1>2. /\ acquiredAt = lease[k] /\ lease[k] \in Nat
      /\ now[i] \in Nat /\ LockTTL \in Nat
  BY SchemaLockAssumption DEF RowIsLease, TypeOK
<1>3. Wall(i) > lease[k] + LockTTL
  BY <1>1, <1>2
<1>. QED BY <1>3 DEF Overrun

LEMMA ClockStep ==
  ASSUME TypeOK, [Next]_vars
  PROVE  clock' \in Nat /\ clock <= clock'
<1>. USE DEF TypeOK
<1>1. CASE Tick
  BY <1>1 DEF Tick
<1>2. ASSUME NEW i \in Runs, Start(i) \/ Step(i) \/ Cancel(i) \/ Crash(i)
      PROVE  clock' = clock
  BY <1>2 DEF Start, Step, Insert, Takeover, Confirm, Poll, Plan, Apply,
              Release, Cancel, Crash
<1>3. CASE UNCHANGED vars
  BY <1>3 DEF vars
<1>. QED BY <1>1, <1>2, <1>3 DEF Next

LEMMA RowIsLeaseStep ==
  ASSUME TypeOK, RowIsLease, [Next]_vars
  PROVE  RowIsLease'
<1>. USE SchemaLockAssumption DEF TypeOK, RowIsLease, lockVars
<1>1. ASSUME NEW i \in Runs, Insert(i) \/ Takeover(i) PROVE RowIsLease'
  BY <1>1 DEF Insert, Takeover, WriteRow
<1>2. ASSUME NEW i \in Runs, Release(i) PROVE RowIsLease'
  BY <1>2 DEF Release
<1>3. ASSUME NEW i \in Runs,
             \/ Start(i) \/ Confirm(i) \/ Poll(i) \/ Plan(i) \/ Apply(i)
             \/ Cancel(i) \/ Crash(i)
      PROVE  RowIsLease'
  BY <1>3 DEF Start, Confirm, Poll, Plan, Apply, Cancel, Crash
<1>4. CASE Tick \/ UNCHANGED vars
  BY <1>4 DEF Tick, vars
<1>. QED BY <1>1, <1>2, <1>3, <1>4 DEF Next, Step

LEMMA NowPastStep ==
  ASSUME TypeOK, TypeOK', NowPast, [Next]_vars
  PROVE  NowPast'
<1>. SUFFICES ASSUME NEW k \in Runs PROVE now'[k] <= Wall(k)'
  BY DEF NowPast
<1>1. Wall(k) \in Nat /\ Wall(k)' \in Nat /\ Wall(k) <= Wall(k)'
  BY ClockStep, WallMonotone
<1>2. now[k] <= Wall(k) /\ now[k] \in Nat
  BY DEF NowPast, TypeOK
<1>3. now'[k] = now[k] \/ now'[k] = Wall(k)
  <2>. USE DEF TypeOK
  <2>1. ASSUME NEW i \in Runs, Start(i) \/ Poll(i)
        PROVE  now'[k] = now[k] \/ now'[k] = Wall(k)
    BY <2>1 DEF Start, Poll
  <2>2. ASSUME NEW i \in Runs,
               \/ Insert(i) \/ Takeover(i) \/ Confirm(i) \/ Plan(i)
               \/ Apply(i) \/ Release(i) \/ Cancel(i) \/ Crash(i)
        PROVE  now' = now
    BY <2>2 DEF Insert, Takeover, Confirm, Plan, Apply, Release, Cancel, Crash
  <2>3. CASE Tick \/ UNCHANGED vars
    BY <2>3 DEF Tick, vars
  <2>. QED BY <2>1, <2>2, <2>3 DEF Next, Step
<1>. QED BY <1>1, <1>2, <1>3

\* The heart of the argument: a holder keeps the row, or has outlived it.
LEMMA HeldOrOverrunStep ==
  ASSUME TypeOK, LockInv, [Next]_vars
  PROVE  HeldOrOverrun'
<1>. SUFFICES ASSUME NEW k \in Runs, Holding(k)'
              PROVE  holder' = k \/ Overrun(k)'
  BY DEF HeldOrOverrun
<1>. USE SchemaLockAssumption DEF TypeOK, LockInv
<1>1. clock' \in Nat /\ clock <= clock'
  BY ClockStep
<1>2. ASSUME Holding(k), lease'[k] = lease[k], holder' = holder \/ Overrun(k)
      PROVE  holder' = k \/ Overrun(k)'
  BY <1>1, <1>2, OverrunStable DEF HeldOrOverrun
<1>3. ASSUME NEW i \in Runs, Insert(i) PROVE holder' = k \/ Overrun(k)'
  <2>1. CASE k = i
    BY <1>3, <2>1 DEF Insert, WriteRow, Goto, Holding
  <2>2. CASE k # i
    <3>1. Holding(k) /\ lease'[k] = lease[k]
      BY <1>3, <2>2 DEF Insert, WriteRow, Goto, Holding, lockVars
    <3>2. holder' = holder \/ holder = NoRun
      BY <1>3 DEF Insert, WriteRow, lockVars
    <3>3. holder = k \/ Overrun(k)
      BY <3>1 DEF HeldOrOverrun
    <3>. QED BY <1>2, <3>1, <3>2, <3>3
  <2>. QED BY <2>1, <2>2
<1>4. ASSUME NEW i \in Runs, Takeover(i) PROVE holder' = k \/ Overrun(k)'
  <2>1. k # i /\ Holding(k) /\ lease'[k] = lease[k]
    BY <1>4 DEF Takeover, WriteRow, Goto, Holding, lockVars
  <2>2. holder' = holder \/ acquiredAt < now[i] - LockTTL
    BY <1>4 DEF Takeover, WriteRow, lockVars
  <2>3. holder = k /\ acquiredAt < now[i] - LockTTL => Overrun(k)
    BY <2>1, TakeoverMeansOverrun
  <2>4. holder = k \/ Overrun(k)
    BY <2>1 DEF HeldOrOverrun
  <2>. QED BY <1>2, <2>1, <2>2, <2>3, <2>4
<1>5. ASSUME NEW i \in Runs, Confirm(i) PROVE holder' = k \/ Overrun(k)'
  <2>1. CASE k = i
    BY <1>5, <2>1 DEF Confirm, Goto, Holding, lockVars
  <2>2. CASE k # i
    <3>1. Holding(k) /\ lease' = lease /\ holder' = holder
      BY <1>5, <2>2 DEF Confirm, Goto, Holding, lockVars
    <3>. QED BY <1>2, <3>1
  <2>. QED BY <2>1, <2>2
<1>6. ASSUME NEW i \in Runs, Release(i) PROVE holder' = k \/ Overrun(k)'
  <2>1. k # i /\ Holding(k) /\ lease'[k] = lease[k]
    BY <1>6 DEF Release, Goto, Holding, lockVars
  <2>2. holder' = holder \/ holder = i
    BY <1>6 DEF Release, lockVars
  <2>3. holder = k \/ Overrun(k)
    BY <2>1 DEF HeldOrOverrun
  <2>. QED BY <1>2, <2>1, <2>2, <2>3
<1>7. ASSUME NEW i \in Runs,
             Start(i) \/ Poll(i) \/ Plan(i) \/ Apply(i) \/ Cancel(i) \/ Crash(i)
      PROVE  holder' = k \/ Overrun(k)'
  <2>1. Holding(k) /\ lease' = lease /\ holder' = holder
    BY <1>7 DEF Start, Poll, Plan, Apply, Cancel, Crash, Goto, Holding, lockVars
  <2>. QED BY <1>2, <2>1
<1>8. CASE Tick \/ UNCHANGED vars
  <2>1. Holding(k) /\ lease' = lease /\ holder' = holder
    BY <1>8 DEF Tick, vars, Holding, lockVars
  <2>. QED BY <1>2, <2>1
<1>. QED BY <1>3, <1>4, <1>5, <1>6, <1>7, <1>8 DEF Next, Step

LEMMA LockInvariant == Spec => [](TypeOK /\ PlanInRange /\ LockInv)
<1>1. TypeOK /\ PlanInRange /\ LockInv /\ [Next]_vars
        => (TypeOK /\ PlanInRange /\ LockInv)'
  BY TypeStep, PlanStep, RowIsLeaseStep, NowPastStep, HeldOrOverrunStep DEF LockInv
<1>. QED BY TypeInit, LockInit, <1>1, PTL DEF Spec

\* At most one run is between acquireLock and releaseLock unless one of them
\* has outlived the lease it wrote.
THEOREM Exclusive == Spec => []FreshExclusive
<1>1. LockInv => FreshExclusive
  BY DEF LockInv, HeldOrOverrun, FreshExclusive
<1>. QED BY LockInvariant, <1>1, PTL

\* A row is deleted by its owner or replaced after lockTTL, never before.
THEOREM LeaseKept == Spec => LeaseRespected
<1>1. ASSUME TypeOK, LockInv, [Next]_vars,
             NEW i \in Runs, holder = i, holder' # i
      PROVE  pc[i] = "release" \/ Overrun(i)
  <2>. USE SchemaLockAssumption DEF TypeOK, LockInv, lockVars
  <2>1. ASSUME NEW j \in Runs, Takeover(j) PROVE Overrun(i)
    BY <1>1, <2>1, TakeoverMeansOverrun DEF Takeover, WriteRow
  <2>2. ASSUME NEW j \in Runs, Release(j) PROVE pc[i] = "release"
    BY <1>1, <2>2 DEF Release
  <2>3. ASSUME NEW j \in Runs,
               \/ Start(j) \/ Insert(j) \/ Confirm(j) \/ Poll(j) \/ Plan(j)
               \/ Apply(j) \/ Cancel(j) \/ Crash(j)
        PROVE  FALSE
    BY <1>1, <2>3 DEF Start, Insert, Confirm, Poll, Plan, Apply, Cancel, Crash
  <2>4. CASE Tick \/ UNCHANGED vars
    BY <1>1, <2>4 DEF Tick, vars
  <2>. QED BY <1>1, <2>1, <2>2, <2>3, <2>4 DEF Next, Step
<1>2. TypeOK /\ LockInv /\ [Next]_vars =>
        [\A i \in Runs : holder = i /\ holder' # i
           => pc[i] = "release" \/ Overrun(i)]_vars
  BY <1>1
<1>. QED BY LockInvariant, <1>2, PTL DEF Spec, LeaseRespected

\* The run that applies a migration holds the row or has outlived its lease.
THEOREM MigrationsSafe == Spec => MigratesUnderLock
<1>1. TypeOK /\ LockInv /\ [Next]_vars =>
        [applied' # applied =>
           \E i \in Runs :
             /\ pc[i] = "apply" /\ (pc'[i] # pc[i] \/ next'[i] # next[i])
             /\ holder = i \/ Overrun(i)]_vars
  <2>. SUFFICES ASSUME TypeOK, LockInv, [Next]_vars, applied' # applied
                PROVE  \E i \in Runs :
                         /\ pc[i] = "apply" /\ (pc'[i] # pc[i] \/ next'[i] # next[i])
                         /\ holder = i \/ Overrun(i)
    OBVIOUS
  <2>1. ASSUME NEW j \in Runs,
               \/ Start(j) \/ Insert(j) \/ Takeover(j) \/ Confirm(j) \/ Poll(j)
               \/ Plan(j) \/ Release(j) \/ Cancel(j) \/ Crash(j)
        PROVE  FALSE
    BY <2>1 DEF Start, Insert, Takeover, Confirm, Poll, Plan, Release, Cancel,
                Crash, gooseVars
  <2>2. PICK i \in Runs : Apply(i)
    BY <2>1 DEF Next, Step, Tick, vars, gooseVars
  <2>3. pc[i] = "apply" /\ (holder = i \/ Overrun(i))
    BY <2>2 DEF Apply, LockInv, HeldOrOverrun, Holding
  <2>4. pc'[i] # pc[i] \/ next'[i] # next[i]
    <3>1. CASE pc'[i] = "release"
      BY <2>3, <3>1
    <3>2. CASE next' = [next EXCEPT ![i] = @ + 1]
      BY <3>2 DEF TypeOK
    <3>. QED BY <2>2, <3>1, <3>2 DEF Apply, Goto, TypeOK
  <2>. QED BY <2>3, <2>4
<1>. QED BY LockInvariant, <1>1, PTL DEF Spec, MigratesUnderLock
-----------------------------------------------------------------------------
(* What a run that returns nil leaves behind *)

\* A run on its way to `return nil` has seen the last migration applied.
Migrated ==
  \A i \in Runs : pc[i] = "done" \/ (pc[i] = "release" /\ ~err[i])
                    => applied = Migrations

LEMMA MigratedStep ==
  ASSUME TypeOK, PlanInRange, Migrated, [Next]_vars
  PROVE  Migrated'
<1>. USE SchemaLockAssumption DEF TypeOK, PlanInRange
<1>1. ASSUME NEW i \in Runs, Plan(i) PROVE Migrated'
  BY <1>1 DEF Plan, Goto, Migrated
<1>2. ASSUME NEW i \in Runs, Apply(i) PROVE Migrated'
  <2>1. applied \in 0 .. Migrations /\ next[i] \in 1 .. Migrations
        /\ pc[i] = "apply" /\ pc' = [pc EXCEPT ![i] = pc'[i]]
    BY <1>2 DEF Apply, Goto
  <2>2. applied' \in {applied, next[i]} /\ applied <= applied'
    BY <1>2, <2>1 DEF Apply
  <2>3. pc'[i] = "release" /\ ~err'[i] => applied' = Migrations
    BY <1>2, <2>1 DEF Apply, Goto
  <2>4. pc'[i] # "done"
    BY <1>2 DEF Apply, Goto
  <2>5. \A k \in Runs \ {i} : pc'[k] = pc[k] /\ err'[k] = err[k]
    BY <1>2 DEF Apply, Goto
  <2>6. applied = Migrations => applied' = Migrations
    BY <2>1, <2>2
  <2>. QED BY <2>3, <2>4, <2>5, <2>6 DEF Migrated
<1>3. ASSUME NEW i \in Runs, Release(i) PROVE Migrated'
  BY <1>3 DEF Release, Goto, gooseVars, Migrated
<1>4. ASSUME NEW i \in Runs,
             \/ Start(i) \/ Insert(i) \/ Takeover(i) \/ Confirm(i) \/ Poll(i)
             \/ Cancel(i) \/ Crash(i)
      PROVE  Migrated'
  BY <1>4 DEF Start, Insert, Takeover, Confirm, Poll, Cancel, Crash, Goto,
              gooseVars, Migrated
<1>5. CASE Tick \/ UNCHANGED vars
  BY <1>5 DEF Tick, vars, gooseVars, Migrated
<1>. QED BY <1>1, <1>2, <1>3, <1>4, <1>5 DEF Next, Step

\* nil is only returned on a schema that has every migration.
THEOREM MigratedSafe == Spec => []SuccessMeansMigrated
<1>1. Init => Migrated
  BY DEF Init, Migrated
<1>2. Migrated => SuccessMeansMigrated
  BY DEF Migrated, SuccessMeansMigrated
<1>. QED BY LockInvariant, <1>1, MigratedStep, <1>2, PTL DEF Spec
-----------------------------------------------------------------------------
(* Why a migration finds the schema changed *)

\* A run that planned has outlived its lease.
Suspect(k) == next[k] > 0 /\ Overrun(k)

\* A run that has planned never writes its row again, so it stays suspect.
PlannedIsPast ==
  \A k \in Runs : next[k] > 0 =>
    pc[k] \in {"apply", "release", "done", "failed", "crashed"}

\* A plan is stale only if two runs migrated at once.
StaleAfterOverrun ==
  \A i \in Runs : pc[i] = "apply" /\ applied >= next[i] => \E k \in Runs : Suspect(k)

ClashInv == PlannedIsPast /\ StaleAfterOverrun /\ ClashOnlyAfterOverrun

LEMMA PlannedStep ==
  ASSUME TypeOK, PlanInRange, PlannedIsPast, [Next]_vars
  PROVE  /\ PlannedIsPast'
         /\ \A k \in Runs : next[k] > 0 => next'[k] > 0 /\ lease'[k] = lease[k]
<1>. USE SchemaLockAssumption DEF TypeOK, PlanInRange, PlannedIsPast, Goto
<1>. DEFINE P == /\ PlannedIsPast'
                 /\ \A k \in Runs : next[k] > 0 => next'[k] > 0 /\ lease'[k] = lease[k]
<1>1. ASSUME NEW i \in Runs, Plan(i) PROVE P
  BY <1>1 DEF Plan, lockVars
<1>2. ASSUME NEW i \in Runs, Apply(i) PROVE P
  BY <1>2 DEF Apply, lockVars
<1>3. ASSUME NEW i \in Runs, Insert(i) \/ Takeover(i) PROVE P
  BY <1>3 DEF Insert, Takeover, WriteRow, lockVars, gooseVars
<1>4. ASSUME NEW i \in Runs, Release(i) PROVE P
  BY <1>4 DEF Release, lockVars, gooseVars
<1>5. ASSUME NEW i \in Runs,
             \/ Start(i) \/ Confirm(i) \/ Poll(i) \/ Cancel(i) \/ Crash(i)
      PROVE  P
  BY <1>5 DEF Start, Confirm, Poll, Cancel, Crash, lockVars, gooseVars
<1>6. CASE Tick \/ UNCHANGED vars
  BY <1>6 DEF Tick, vars, lockVars, gooseVars
<1>. QED BY <1>1, <1>2, <1>3, <1>4, <1>5, <1>6 DEF Next, Step

LEMMA SuspectStep ==
  ASSUME TypeOK, PlanInRange, PlannedIsPast, [Next]_vars, NEW k \in Runs, Suspect(k)
  PROVE  Suspect(k)'
<1>1. next'[k] > 0 /\ lease'[k] = lease[k]
  BY PlannedStep DEF Suspect
<1>2. clock' \in Nat /\ clock <= clock'
  BY ClockStep
<1>3. Overrun(k)'
  BY <1>1, <1>2, OverrunStable DEF Suspect
<1>. QED BY <1>1, <1>3 DEF Suspect

LEMMA ClashStep ==
  ASSUME TypeOK, PlanInRange, LockInv, ClashInv, [Next]_vars
  PROVE  ClashInv'
<1>1. PlannedIsPast'
  BY PlannedStep DEF ClashInv
<1>2. ASSUME NEW k \in Runs, Suspect(k) PROVE \E l \in Runs : Suspect(l)'
  BY <1>2, SuspectStep DEF ClashInv
<1>3. CASE \E k \in Runs : Suspect(k)
  BY <1>1, <1>2, <1>3 DEF ClashInv, StaleAfterOverrun, ClashOnlyAfterOverrun, Suspect
<1>4. CASE ~\E k \in Runs : Suspect(k)
  <2>. USE SchemaLockAssumption DEF TypeOK, PlanInRange, Goto
  <2>1. clashed = {} /\ \A i \in Runs : pc[i] = "apply" => applied < next[i]
    <3>1. \A i \in Runs : applied \in Nat /\ next[i] \in Nat
      OBVIOUS
    <3>. QED BY <1>4, <3>1 DEF ClashInv, StaleAfterOverrun, ClashOnlyAfterOverrun, Suspect
  <2>2. SUFFICES clashed' = {} /\ \A i \in Runs : pc'[i] = "apply" => applied' < next'[i]
    <3>1. applied' \in Nat /\ \A i \in Runs : next'[i] \in Nat
      BY TypeStep
    <3>. QED BY <1>1, <2>2, <3>1 DEF ClashInv, StaleAfterOverrun, ClashOnlyAfterOverrun
  <2>3. ASSUME NEW i \in Runs, Apply(i)
        PROVE  clashed' = {} /\ \A j \in Runs : pc'[j] = "apply" => applied' < next'[j]
    <3>1. clashed' = {}
      BY <2>1, <2>3 DEF Apply
    <3>2. pc'[i] = "apply" => applied' < next'[i]
      BY <2>1, <2>3 DEF Apply
    <3>3. ASSUME NEW j \in Runs \ {i}, pc'[j] = "apply" PROVE FALSE
      <4>1. pc[j] = "apply" /\ pc[i] = "apply"
        BY <2>3, <3>3 DEF Apply
      <4>2. holder = i \/ Overrun(i)
        BY <4>1 DEF LockInv, HeldOrOverrun, Holding
      <4>3. holder = j \/ Overrun(j)
        BY <4>1 DEF LockInv, HeldOrOverrun, Holding
      <4>4. next[i] > 0 /\ next[j] > 0
        BY <4>1
      <4>. QED BY <1>4, <4>2, <4>3, <4>4 DEF Suspect
    <3>. QED BY <3>1, <3>2, <3>3
  <2>4. ASSUME NEW i \in Runs, Plan(i)
        PROVE  clashed' = {} /\ \A j \in Runs : pc'[j] = "apply" => applied' < next'[j]
    BY <2>1, <2>4 DEF Plan
  <2>5. ASSUME NEW i \in Runs,
               \/ Start(i) \/ Insert(i) \/ Takeover(i) \/ Confirm(i) \/ Poll(i)
               \/ Release(i) \/ Cancel(i) \/ Crash(i)
        PROVE  clashed' = {} /\ \A j \in Runs : pc'[j] = "apply" => applied' < next'[j]
    BY <2>1, <2>5 DEF Start, Insert, Takeover, Confirm, Poll, Release, Cancel,
                      Crash, gooseVars
  <2>6. CASE Tick \/ UNCHANGED vars
    BY <2>1, <2>6 DEF Tick, vars, gooseVars
  <2>. QED BY <2>3, <2>4, <2>5, <2>6 DEF Next, Step
<1>. QED BY <1>3, <1>4

\* goose finds the schema changed under it only when a run that was migrating
\* has outlived its lease.
THEOREM ClashSafe == Spec => []ClashOnlyAfterOverrun
<1>1. Init => ClashInv
  BY SchemaLockAssumption DEF Init, ClashInv, PlannedIsPast, StaleAfterOverrun, ClashOnlyAfterOverrun
<1>2. ClashInv => ClashOnlyAfterOverrun
  BY DEF ClashInv
<1>. QED BY LockInvariant, <1>1, ClashStep, <1>2, PTL DEF Spec
=============================================================================
