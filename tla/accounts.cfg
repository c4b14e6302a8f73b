CONSTANTS
  Users = {u1, u2}
  MaxPasswords = 3
  MaxRequests = 2
SPECIFICATION AccountsSpec
SYMMETRY Logins
INVARIANTS
  LastAdmin
  SessionsAreCurrent
  CredentialsNeedOwner
CHECK_DEADLOCK FALSE
