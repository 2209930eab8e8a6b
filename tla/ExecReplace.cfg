CONSTANTS
  o1 = o1
  o2 = o2
  o3 = o3
  p1 = p1
  p2 = p2
  a1 = a1
  a2 = a2
  None = None
  Dead = Dead
  Ops = {o1, o2, o3}
  Procs = {p1, p2}
  Accounts = {a1}
  AccountOf <- OneAccount
  External = {}
  Expiring = {}
  Commands = {"prepare", "execute", "replace"}
  MaxNonce = 1
  MaxFee = 1
  MaxReorgs = 0
  MaxCrashes = 0
  Budget = 3
  Yolo = FALSE
  Outcomes = {TRUE}
SYMMETRY FirstSymmetry
SPECIFICATION FirstSpec
CONSTRAINT NoneOverwrites
ACTION_CONSTRAINT OffersMost
INVARIANT ReplacementHolds
