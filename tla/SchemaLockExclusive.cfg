\* The lock as migrate.go describes it: one migrating instance at a time.
CONSTANTS
  r1 = r1
  r2 = r2
  NoRun = NoRun
  Runs = {r1, r2}
  LockTTL = 1
  Skew <- NoSkew
  Cancellable = {}
  Migrations = 1
  Faults = FALSE
  MaxStart = 3
  MaxTime = 6
SPECIFICATION Spec
INVARIANTS MutualExclusion
CHECK_DEADLOCK FALSE
