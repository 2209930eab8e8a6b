CONSTANTS
  o1 = o1
  o2 = o2
  o3 = o3
  p1 = p1
  p2 = p2
  a1 = a1
  a2 = a2
  None = None
  Dead = Dead
  Ops = {o1, o2}
  Procs = {p1, p2}
  Accounts = {a1, a2}
  AccountOf <- TwoChains
  External = {}
  Expiring = {o1}
  Commands = {"prepare", "execute", "status"}
  MaxNonce = 0
  MaxFee = 0
  MaxReorgs = 1
  MaxCrashes = 1
  Budget = 1
  Yolo = TRUE
  Outcomes = {TRUE}
SYMMETRY ProcSymmetry
SPECIFICATION Spec
INVARIANT SentIsJournaled
INVARIANT SentIsCharged
