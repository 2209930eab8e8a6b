CONSTANTS
  o1 = o1
  o2 = o2
  o3 = o3
  p1 = p1
  p2 = p2
  a1 = a1
  a2 = a2
  None = None
  Dead = Dead
  Ops = {o1, o2}
  Procs = {p1, p2}
  Accounts = {a1}
  AccountOf <- OneAccount
  External = {}
  Expiring = {o1, o2}
  Commands = {"prepare", "execute", "replace"}
  MaxNonce = 1
  MaxFee = 2
  MaxReorgs = 0
  MaxCrashes = 0
  Budget = 2
  Yolo = FALSE
  Outcomes = {TRUE}
SYMMETRY Symmetry
SPECIFICATION Spec
INVARIANT SignsApproved
