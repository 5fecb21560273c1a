\* One request at a time, with handlers that may panic.
CONSTANTS
  g1 = g1
  g2 = g2
  ann = ann
  me = me
  policy = policy
  short = short
  root = root
  writer = writer
  blank = blank
  forged = forged
  Slots = {g1}
  NoSlot = NoSlot
  Callers = {ann}
  Routes = {me}
  Policies = {policy}
  PolicyOf <- PolicyOfRoute
  Scope <- PerKey
  LimitCount <- Ones
  WindowSec <- Ones
  Burst <- Ones
  Unit = 1
  Minute = 1
  NoEntry = NoEntry
  NoRequest = NoRequest
  CacheFaults = FALSE
  MaxSlew = 0
  MaxTime = 1
  Tokens = {short, root, writer, blank, forged}
  NoToken = NoToken
  Claims <- ClaimsOf
  Me = me
  Panics = TRUE
  NoCall = NoCall
SPECIFICATION ServerSpec
INVARIANTS LinesTellAnswers
CHECK_DEADLOCK FALSE
