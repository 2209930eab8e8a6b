CONSTANTS
  SendProcs = {p1, p2}
  Plans = {q1, q2, q3, q4}
  PlanLength = 1
  SendTroubles = 1
  NoOwner = NoOwner
  Gone = Gone
  Skipped = {"claim"}
  Day = 2
  Cooldown = 1
  MaxPerDay = 1
  MaxClock = 1
  OwnPlans = {}
  CycleKinds = {"rebalance", "compound"}
  MaxAmount = 2
  Buffer = 1
  ApprovalTime = 3
  MaxTime = 1
  MaxPlans = 2
  Pools <- SwapPools
  From = "a"
  To = "b"
  Listed = {"c", "d"}
  MaxPaths = {1, 3}
  MaxHops = 3
  VisitsPerPath = 4
  MaxOut = 4
  Spacing = 2
  MaxAbsTick = 15
  DefaultWidth = 4
  Rules <- SomeRules
  Ranges <- SomeRanges
  Markets <- AllMarkets
  Window = 3
  MaxGap = 2
  SampleTicks = {0, 1, 5}
  Stocks = {p1, p2}
  Names = {n1}
  NoIndex = NoIndex
  NoPlan = NoPlan
  Whole = 4
  Nudge = 1
  Prices = {1, 2}
  Slippages = {0, 1}
  SlippageUnit = 2
  MaxHeld = 2
  MaxCash = 2
  MaxEdits = 2
  RewardContracts = {p1, p2}
  ZeroContract = ZeroContract
  RewardTokens = {t1, t2}
  PageLimit = 2
  PageCeiling = 4
  RewardAmounts = {0, 1}
  MaxRewardRows = 3
  MaxClaims = 1
  AlmPools = {w1, w2}
  ServePlaces = {p1, p2}
  Troubles = {e1}
  NoTrouble = ok
  NoPlace = nowhere
  SnapshotTtl = 1
  NotifyTime = 1
  NotifyGrace = 1
  MaxEarned = 1
  MaxPasses = 3
  MaxServeTime = 2
  MaxWorldMoves = 1
  MaxInits = 1
  pool1 = pool1
  pool2 = pool2
  pool3 = pool3
  nfpm1 = nfpm1
  nfpm2 = nfpm2
  gauge1 = gauge1
  gauge2 = gauge2
  weth = weth
  usdc = usdc
  aero = aero
  Avatar = safe
  Stranger = other
  Swapper = swapper
  RolePools = {pool1, pool2, pool3}
  NfpmOf <- ItsNfpm
  GaugeOf <- ItsGauge
  LegsOf <- ItsLegs
  EmissionsOf <- ItsEmissions
  NoContract = none
  MaxEntries = 2
SYMMETRY LiquiditySymmetry
SPECIFICATION LiquiditySpec
INVARIANT LiquidityTypeOK
INVARIANT TracksTheFunds
INVARIANT CycleIsSound
INVARIANT PlansHold
INVARIANT QuoteHolds
INVARIANT RangeIsSound
INVARIANT SpareIsUntouched
INVARIANT KeeperHolds
CHECK_DEADLOCK FALSE
