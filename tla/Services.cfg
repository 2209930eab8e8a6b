CONSTANTS
  Pollers = {p1, p2}
  FromBlock = 0
  Confirmations = 1
  Window = 2
  Rewind = 3
  MaxHeight = 3
  MaxForks = 1
  MaxUpsets = 1
  NoBlock = NoBlock
  BatchProcs = {p1, p2}
  BatchReorgs = 1
  BatchCrashes = 1
  SmartProcs = {p1, p2}
  SmartTxs = {t1, t2}
  SmartReorgs = 1
  SmartCrashes = 1
  NoSmart = NoSmart
  Clients = {p1, p2}
  Owners = {w1, w2}
  Threshold = 1
  MaxRemovals = 1
  RelayReorgs = 1
  Runners = {p1, p2}
  FlowLength = 2
  Checked = {1}
  FlowReorgs = 1
  SendProcs = {p1, p2}
  Plans = {q1, q2}
  PlanLength = 2
  SendTroubles = 1
  NoOwner = NoOwner
  Gone = Gone
SPECIFICATION ServicesSpec
INVARIANT ServicesTypeOK
INVARIANT NothingTwice
INVARIANT WorkflowHolds
PROPERTY MonitorAdvances
PROPERTY RelayIsRecorded
PROPERTY KeepsPromise
PROPERTY Delivered
PROPERTY OutcomesAreShown
PROPERTY PlanEnds
CHECK_DEADLOCK FALSE
