CONSTANTS
  AccountCalls = {p1, p2}
  AccountNames = {n1, n2}
  NoName = NoName
  Owned = {a1, a2}
  NoOwned = NoOwned
  MaxPages = 2
  MaxOnFile = 2
SPECIFICATION AccountsSpec
INVARIANT BoundToAccount
CHECK_DEADLOCK FALSE
