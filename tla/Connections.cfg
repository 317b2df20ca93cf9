SPECIFICATION Spec
CONSTANTS
  Accounts = {a1, a2}
  States = {s1, s2}
  Users = {u1, u2}
  Browsers = {b1}
  Requests = {r1, r2}
  NoAccount = NoAccount
  NoState = NoState
  NoUser = NoUser
  MaxRows = 2
  MaxEvents = 5
SYMMETRY Interchangeable
CHECK_DEADLOCK FALSE
INVARIANTS
  TokenServesAccount
  RowsFit
PROPERTIES
  StaysDown
