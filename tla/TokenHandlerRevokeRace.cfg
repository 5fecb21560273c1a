\* Two requests at a time: a refresh in flight survives /revoke.
CONSTANTS
  s1 = s1
  s2 = s2
  t1 = t1
  t2 = t2
  t3 = t3
  alice = alice
  read = read
  Slots = {s1, s2}
  Users = {alice}
  Scopes = {read}
  Tokens = {t1, t2, t3}
  NoToken = NoToken
  NoUser = NoUser
  NoRow = NoRow
  RefreshTTL = 1
  IDCallbacks = TRUE
  Faults = FALSE
  MaxTime = 2
SPECIFICATION Spec
PROPERTIES NoRedeemAfterRevoke
