\* Two goroutines, two policies with scopes of their own.
CONSTANTS
  g1 = g1
  g2 = g2
  ann = ann
  ben = ben
  me = me
  list = list
  slow = slow
  fast = fast
  Slots = {g1, g2}
  NoSlot = NoSlot
  Callers = {ann}
  Routes = {me, list}
  Policies = {slow, fast}
  PolicyOf <- PolicyOfRoute
  Scope <- OwnScopes
  LimitCount <- Limits
  WindowSec <- Windows
  Burst <- Bursts
  Unit = 2
  Minute = 2
  NoEntry = NoEntry
  NoRequest = NoRequest
  CacheFaults = FALSE
  MaxSlew = 0
  MaxTime = 7
SPECIFICATION UndisturbedSpec
INVARIANTS TypeOK
PROPERTIES KeepsTheLaw
SYMMETRY Symmetry
