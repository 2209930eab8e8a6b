CONSTANTS
  o1 = o1
  o2 = o2
  o3 = o3
  p1 = p1
  p2 = p2
  a1 = a1
  a2 = a2
  None = None
  Dead = Dead
  Ops = {o1}
  Procs = {p1}
  Accounts = {a1}
  AccountOf <- OneAccount
  External = {}
  Expiring = {o1}
  Commands = {"execute", "status", "prepare"}
  MaxNonce = 0
  MaxFee = 0
  MaxReorgs = 1
  MaxCrashes = 1
  Budget = 2
  Yolo = FALSE
  Outcomes = {TRUE}
SPECIFICATION FairSpec
PROPERTY SignedResolves
PROPERTY InclusionIsShown
PROPERTY ReorgIsShown
