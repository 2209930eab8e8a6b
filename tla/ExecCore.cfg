CONSTANTS
  o1 = o1
  o2 = o2
  o3 = o3
  p1 = p1
  p2 = p2
  a1 = a1
  a2 = a2
  None = None
  Dead = Dead
  Ops = {o1, o2}
  Procs = {p1, p2}
  Accounts = {a1}
  AccountOf <- OneAccount
  External = {}
  Expiring = {o1, o2}
  Commands = {"prepare", "execute", "status", "cancel"}
  MaxNonce = 1
  MaxFee = 0
  MaxReorgs = 0
  MaxCrashes = 1
  Budget = 2
  Yolo = FALSE
  Outcomes = {TRUE, FALSE}
SYMMETRY Symmetry
SPECIFICATION Spec
INVARIANT TypeOK
INVARIANT LockHeld
INVARIANT SentIsJournaled
INVARIANT SettledHappened
PROPERTY CancelledIsFinal
INVARIANT AccountsAreSafe
