------------------------------ MODULE SchemaLock ------------------------------
(***************************************************************************)
(* internal/persistence/migrate: schema migration behind a table lock.     *)
(*                                                                         *)
(* Every service instance calls migrate.Run when it starts.  Run takes the *)
(* single row of the table schema_lock, applies the pending migrations     *)
(* through goose and deletes the row again.  The row carries the caller's  *)
(* token and the second it was written: a row older than lockTTL may be    *)
(* taken over, because its writer is presumed to have crashed.             *)
(*                                                                         *)
(* An element of Runs is one call of Run (it draws a fresh UUID, so an     *)
(* instance that restarts is another element).  Each action is one SQL     *)
(* statement together with the local code up to the next one; the database *)
(* executes a statement atomically.  With Faults a statement may fail, or  *)
(* take effect and have its answer lost, and a process may die anywhere.   *)
(*                                                                         *)
(* The clock counts half seconds, the poll interval of acquireLock.        *)
(* acquired_at and its cutoff are wall clock seconds, which differ from    *)
(* one machine to the next by Skew; the caller's own deadline is compared  *)
(* on Go's monotonic clock, which skew does not touch.                     *)
(***************************************************************************)
EXTENDS Integers

CONSTANTS
  Runs,          \* calls of migrate.Run
  NoRun,         \* the absence of a row in schema_lock
  LockTTL,       \* lockTTL, in seconds
  Skew,          \* Skew[i]: half seconds the wall clock of run i is ahead
  Cancellable,   \* runs whose context may be cancelled (main uses Background)
  Migrations,    \* number of migration files in fsys
  Faults,        \* statements may fail and processes may crash
  MaxStart,      \* bound: last tick at which a run may start
  MaxTime        \* bound: last tick of the clock while nobody sleeps

ASSUME SchemaLockAssumption ==
  /\ NoRun \notin Runs
  /\ LockTTL \in Nat
  /\ Skew \in [Runs -> Nat]
  /\ Cancellable \subseteq Runs
  /\ Migrations \in Nat
  /\ Faults \in BOOLEAN
  /\ MaxStart \in Nat
  /\ MaxTime \in Nat

VARIABLES
  clock,       \* half seconds since the epoch of the run
  holder,      \* schema_lock.token, NoRun when the table is empty
  acquiredAt,  \* schema_lock.acquired_at (0 when the table is empty)
  applied,     \* highest migration recorded in goose's version table
  pc,          \* where each run is
  now,         \* now[i]: the local `now` of acquireLock, in seconds
  deadline,    \* deadline[i]: the local `deadline`
  wake,        \* wake[i]: when time.After fires
  next,        \* next[i]: the migration goose applies next (0: not planned)
  err,         \* err[i]: Run will return an error
  lease,       \* history: the acquired_at run i wrote last
  clashed      \* history: runs whose migration found the schema changed

lockVars == <<holder, acquiredAt, lease>>
gooseVars == <<applied, next, clashed>>
vars == <<clock, holder, acquiredAt, applied, pc, now, deadline, wake, next,
          err, lease, clashed>>

Labels == {"idle", "insert", "takeover", "confirm", "sleep", "plan", "apply",
           "release", "done", "failed", "crashed"}
Holding(i) == pc[i] \in {"plan", "apply", "release"}
Over(i) == pc[i] \in {"done", "failed", "crashed"}

Sec(t) == t \div 2
Wall(i) == Sec(clock + Skew[i])        \* time.Now().Unix() on run i's machine

Goto(i, l) == pc' = [pc EXCEPT ![i] = l]

\* What the caller learns of a statement; after "lost" it took effect.
Answers == IF Faults THEN {"ok", "fail", "lost"} ELSE {"ok"}

WriteRow(i) ==
  /\ holder' = i
  /\ acquiredAt' = now[i]
  /\ lease' = [lease EXCEPT ![i] = now[i]]

Init ==
  /\ clock = 0
  /\ holder = NoRun
  /\ acquiredAt = 0
  /\ applied = 0
  /\ pc = [i \in Runs |-> "idle"]
  /\ now = [i \in Runs |-> 0]
  /\ deadline = [i \in Runs |-> 0]
  /\ wake = [i \in Runs |-> 0]
  /\ next = [i \in Runs |-> 0]
  /\ err = [i \in Runs |-> FALSE]
  /\ lease = [i \in Runs |-> 0]
  /\ clashed = {}
-----------------------------------------------------------------------------
(* acquireLock *)

\* CREATE TABLE IF NOT EXISTS, then the deadline and the first `now`.
Start(i) ==
  /\ pc[i] = "idle" /\ clock <= MaxStart
  /\ \E a \in Answers :
       IF a = "ok"
         THEN /\ deadline' = [deadline EXCEPT ![i] = clock + 2 * LockTTL]
              /\ now' = [now EXCEPT ![i] = Wall(i)]
              /\ Goto(i, "insert")
         ELSE Goto(i, "failed") /\ UNCHANGED <<deadline, now>>
  /\ UNCHANGED <<clock, lockVars, gooseVars, wake, err>>

\* INSERT ... ON CONFLICT (id) DO NOTHING: the row is ours iff it was absent.
Insert(i) ==
  /\ pc[i] = "insert"
  /\ \E a \in Answers :
       /\ IF a # "fail" /\ holder = NoRun
            THEN WriteRow(i)
            ELSE UNCHANGED lockVars
       /\ Goto(i, IF a # "ok" THEN "failed"
                  ELSE IF holder = NoRun THEN "plan" ELSE "takeover")
  /\ UNCHANGED <<clock, gooseVars, now, deadline, wake, err>>

\* Mutant: the UPDATE without its acquired_at condition.
TakeoverNoCutoff(i) ==
  /\ pc[i] = "takeover"
  /\ IF holder # NoRun THEN WriteRow(i) ELSE UNCHANGED lockVars
  /\ Goto(i, "confirm")
  /\ UNCHANGED <<clock, gooseVars, now, deadline, wake, err>>

\* UPDATE ... WHERE id = 1 AND acquired_at < cutoff.
Takeover(i) ==
  /\ pc[i] = "takeover"
  /\ \E a \in Answers :
       /\ IF a # "fail" /\ holder # NoRun /\ acquiredAt < now[i] - LockTTL
            THEN WriteRow(i)
            ELSE UNCHANGED lockVars
       /\ Goto(i, IF a = "ok" THEN "confirm" ELSE "failed")
  /\ UNCHANGED <<clock, gooseVars, now, deadline, wake, err>>

\* Mutant: any row that scans is taken for ours.
ConfirmAnyHolder(i) ==
  /\ pc[i] = "confirm"
  /\ IF holder # NoRun
       THEN Goto(i, "plan") /\ UNCHANGED wake
       ELSE Goto(i, "sleep") /\ wake' = [wake EXCEPT ![i] = clock + 1]
  /\ UNCHANGED <<clock, lockVars, gooseVars, now, deadline, err>>

\* Mutant: the loop continues without the select and the deadline test.
ConfirmSpins(i) ==
  /\ pc[i] = "confirm"
  /\ Goto(i, IF holder = i THEN "plan" ELSE "insert")
  /\ UNCHANGED <<clock, lockVars, gooseVars, now, deadline, wake, err>>

\* SELECT token: an error, an empty table and a stranger's token all mean
\* another round of the loop, after 500 ms.
Confirm(i) ==
  /\ pc[i] = "confirm"
  /\ \E a \in Answers :
       IF a = "ok" /\ holder = i
         THEN Goto(i, "plan") /\ UNCHANGED wake
         ELSE Goto(i, "sleep") /\ wake' = [wake EXCEPT ![i] = clock + 1]
  /\ UNCHANGED <<clock, lockVars, gooseVars, now, deadline, err>>

\* The timer fires: give up after the deadline, else read the clock again.
Poll(i) ==
  /\ pc[i] = "sleep" /\ clock >= wake[i]
  /\ IF clock > deadline[i]
       THEN Goto(i, "failed") /\ UNCHANGED now
       ELSE Goto(i, "insert") /\ now' = [now EXCEPT ![i] = Wall(i)]
  /\ UNCHANGED <<clock, lockVars, gooseVars, deadline, wake, err>>

\* ctx.Done() wins the select.
Cancel(i) ==
  /\ pc[i] = "sleep" /\ i \in Cancellable
  /\ Goto(i, "failed")
  /\ UNCHANGED <<clock, lockVars, gooseVars, now, deadline, wake, err>>
-----------------------------------------------------------------------------
(* goose.Provider.Up and the deferred releaseLock *)

\* Mutant: the error of NewProvider and of Up's listing is dropped.
PlanIgnoresError(i) ==
  /\ pc[i] = "plan"
  /\ \E a \in Answers :
       IF a = "ok"
         THEN /\ next' = [next EXCEPT ![i] = applied + 1]
              /\ Goto(i, IF applied = Migrations THEN "release" ELSE "apply")
         ELSE Goto(i, "release") /\ UNCHANGED next
  /\ UNCHANGED <<clock, lockVars, applied, clashed, now, deadline, wake, err>>

\* Mutant: off by one, the last file is not recognised as the last.
PlanPastTheEnd(i) ==
  /\ pc[i] = "plan"
  /\ next' = [next EXCEPT ![i] = applied + 1]
  /\ Goto(i, IF applied > Migrations THEN "release" ELSE "apply")
  /\ UNCHANGED <<clock, lockVars, applied, clashed, now, deadline, wake, err>>

\* Up lists the pending migrations once, before it applies the first one.
Plan(i) ==
  /\ pc[i] = "plan"
  /\ \E a \in Answers :
       IF a = "ok"
         THEN /\ next' = [next EXCEPT ![i] = applied + 1]
              /\ Goto(i, IF applied = Migrations THEN "release" ELSE "apply")
              /\ UNCHANGED err
         ELSE /\ Goto(i, "release")
              /\ err' = [err EXCEPT ![i] = TRUE]
              /\ UNCHANGED next
  /\ UNCHANGED <<clock, lockVars, applied, clashed, now, deadline, wake>>

\* One migration with its version row, in a transaction.  The files create
\* tables without IF NOT EXISTS: applying one a second time is an error.
Apply(i) ==
  /\ pc[i] = "apply"
  /\ \E a \in Answers :
       LET works == a # "fail" /\ applied < next[i]
           good == a = "ok" /\ applied < next[i]
       IN /\ applied' = IF works THEN next[i] ELSE applied
          /\ next' = IF good THEN [next EXCEPT ![i] = @ + 1] ELSE next
          /\ err' = IF good THEN err ELSE [err EXCEPT ![i] = TRUE]
          /\ clashed' = IF applied < next[i] THEN clashed ELSE clashed \cup {i}
          /\ Goto(i, IF good /\ next[i] < Migrations THEN "apply" ELSE "release")
  /\ UNCHANGED <<clock, lockVars, now, deadline, wake>>

\* Mutant: the DELETE without the token in its WHERE clause.
ReleaseAnyToken(i) ==
  /\ pc[i] = "release"
  /\ holder' = NoRun /\ acquiredAt' = 0
  /\ Goto(i, IF err[i] THEN "failed" ELSE "done")
  /\ UNCHANGED <<clock, gooseVars, lease, now, deadline, wake, err>>

\* DELETE ... WHERE id = 1 AND token = ?; a failure is logged and dropped.
Release(i) ==
  /\ pc[i] = "release"
  /\ \E a \in Answers :
       IF a # "fail" /\ holder = i
         THEN holder' = NoRun /\ acquiredAt' = 0 /\ UNCHANGED lease
         ELSE UNCHANGED lockVars
  /\ Goto(i, IF err[i] THEN "failed" ELSE "done")
  /\ UNCHANGED <<clock, gooseVars, now, deadline, wake, err>>
-----------------------------------------------------------------------------
\* The process dies; whatever it wrote stays in the database.
Crash(i) ==
  /\ Faults /\ pc[i] # "idle" /\ ~Over(i)
  /\ Goto(i, "crashed")
  /\ UNCHANGED <<clock, lockVars, gooseVars, now, deadline, wake, err>>

\* Past MaxTime the clock only moves to let the sleepers reach their deadline.
Tick ==
  /\ clock < MaxTime \/ \E i \in Runs : pc[i] = "sleep" /\ wake[i] > clock
  /\ clock' = clock + 1
  /\ UNCHANGED <<lockVars, gooseVars, pc, now, deadline, wake, err>>

Step(i) ==
  \/ Insert(i) \/ Takeover(i) \/ Confirm(i) \/ Poll(i)
  \/ Plan(i) \/ Apply(i) \/ Release(i)

Next ==
  \/ \E i \in Runs : Start(i) \/ Step(i) \/ Cancel(i) \/ Crash(i)
  \/ Tick

Spec == Init /\ [][Next]_vars

\* A goroutine that can run runs, and time passes: nothing else is assumed.
FairSpec == Spec /\ (\A i \in Runs : WF_vars(Step(i))) /\ WF_vars(Tick)
-----------------------------------------------------------------------------
(* Properties *)

TypeOK ==
  /\ clock \in Nat
  /\ holder \in Runs \cup {NoRun}
  /\ acquiredAt \in Nat
  /\ applied \in 0 .. Migrations
  /\ pc \in [Runs -> Labels]
  /\ now \in [Runs -> Nat]
  /\ deadline \in [Runs -> Nat]
  /\ wake \in [Runs -> Nat]
  /\ next \in [Runs -> 0 .. Migrations + 1]
  /\ err \in [Runs -> BOOLEAN]
  /\ lease \in [Runs -> Nat]
  /\ clashed \subseteq Runs

\* Some other machine's clock says that run i's row is older than lockTTL.
Overrun(i) == \E j \in Runs \ {i} : Wall(j) > lease[i] + LockTTL

\* Two runs are past acquireLock at once only when one has outlived the row
\* it wrote: neither the retry after a failed SELECT, nor an INSERT racing a
\* DELETE, nor a `now` read long before its UPDATE lets a second run in early.
FreshExclusive ==
  \A i, j \in Runs : i # j /\ Holding(i) /\ Holding(j) => Overrun(i) \/ Overrun(j)

\* A migration trips over another run's schema change (goose reads the
\* version table once, then applies) only when a run that was migrating
\* outlived its lease.
ClashOnlyAfterOverrun ==
  clashed # {} => \E k \in Runs : next[k] > 0 /\ Overrun(k)

\* Run returns nil only with every migration applied, whoever applied it.
SuccessMeansMigrated == \A i \in Runs : pc[i] = "done" => applied = Migrations

\* The row changes hands or goes away only by its owner's DELETE or once it
\* is older than lockTTL; releaseLock never deletes a successor's row.
LeaseRespected ==
  [][\A i \in Runs : holder = i /\ holder' # i => pc[i] = "release" \/ Overrun(i)]_vars

\* A migration is applied by the run whose row is in the table, or by one
\* that has outlived its row: the run that moves in the step, not another one
\* that is parked before its own migration.
MigratesUnderLock ==
  [][applied' # applied =>
       \E i \in Runs :
         /\ pc[i] = "apply" /\ (pc'[i] # pc[i] \/ next'[i] # next[i])
         /\ holder = i \/ Overrun(i)]_vars

\* migrate.Run always returns: a waiter behind a crashed holder, a lost
\* answer or a competitor ends within its deadline.
Terminates == \A i \in Runs : pc[i] # "idle" ~> Over(i)

\* migrate.go:36 "take the lock first, so that instances do not migrate at
\* the same time and conflict": not so once a migration outlives lockTTL,
\* because the holder never renews acquired_at.
MutualExclusion == \A i, j \in Runs : i # j => ~(Holding(i) /\ Holding(j))
=============================================================================
