SPECIFICATION FairSpec
CONSTANTS
  Accounts = {a, b}
  Probers = {p1, p2}
  None = None
  Linked = a
  MaxLogins = 1
  MaxEvents = 2
INVARIANTS
  RefreshOnlyExpired
  LogoutHolds
PROPERTIES
  AccountSettles
