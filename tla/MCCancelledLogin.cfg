SPECIFICATION FairSpec
CONSTANTS
  Accounts = {a}
  Probers = {p1, p2}
  None = None
  Linked = None
  MaxLogins = 1
  MaxEvents = 1
PROPERTIES
  DiscardsLogin
