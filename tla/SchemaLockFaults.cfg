\* Two runs, failing statements, crashes, one context that may be cancelled,
\* and one machine whose clock is a second and a half ahead.
CONSTANTS
  r1 = r1
  r2 = r2
  NoRun = NoRun
  Runs = {r1, r2}
  LockTTL = 1
  Skew <- OneAhead
  Cancellable = {r2}
  Migrations = 2
  Faults = TRUE
  MaxStart = 3
  MaxTime = 7
SPECIFICATION FairSpec
INVARIANTS TypeOK FreshExclusive ClashOnlyAfterOverrun SuccessMeansMigrated
PROPERTIES LeaseRespected MigratesUnderLock Terminates
CHECK_DEADLOCK FALSE
