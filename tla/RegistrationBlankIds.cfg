\* One request at a time on the connections cmd/auth opens: no id callback.
CONSTANTS
  s1 = s1
  s2 = s2
  alice = alice
  bob = bob
  short = short
  eight = eight
  long = long
  Slots = {s1}
  Emails = {alice, bob}
  Passwords = {short, eight, long}
  Bytes <- PasswordBytes
  NoID = NoID
  NoRow = NoRow
  NoForm = NoForm
  IDCallbacks = FALSE
  Faults = FALSE
SPECIFICATION Spec
INVARIANTS RefusedMeansTaken
