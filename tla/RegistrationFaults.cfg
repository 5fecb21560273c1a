\* Two requests at a time for two emails, every fault.
CONSTANTS
  s1 = s1
  s2 = s2
  alice = alice
  bob = bob
  short = short
  eight = eight
  long = long
  Slots = {s1, s2}
  Emails = {alice, bob}
  Passwords = {short, eight, long}
  Bytes <- PasswordBytes
  NoID = NoID
  NoRow = NoRow
  NoForm = NoForm
  IDCallbacks = TRUE
  Faults = TRUE
SPECIFICATION Spec
INVARIANTS TypeOK AcknowledgedAccountsKept ConflictIsTrue
SYMMETRY Symmetry
