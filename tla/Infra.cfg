CONSTANTS
  Readers = {p1, p2}
  Catalogs = {a1, a2}
  RpcUrls = 2
  MaxRetries = 1
  BaseDelay = 0
  ReadDeadline = 1
  Ttl = 1
  RequestConcurrency = 1
  PageMin = 1
  PageMax = 1
  TargetCalls = 1
  Slack = 0
  MaxPools = 2
  MaxTime = 3
  MaxInvalidations = 1
  ReadKeys = {k1}
  SavedKeys = {k1}
  NoKey = NoKey
  MaxAsks = 3
  MaxWorkers = 2
  MaxFetches = 2
  MaxHeight = 1
  pool1 = pool1
  nft1 = nft1
  nft2 = nft2
  Pools = {pool1, pool2}
  Nfts = {nft1, nft2}
  PoolOf <- ItsPool
  CatalogClients = {v1}
  ScanPage = 1
  NftPage = 1
  Overscan = 1
  MaxMoves = 3
  Nowhere = Nowhere
  eth = eth
  foo = foo
  foo2 = foo2
  xeth = xeth
  Tokens = {eth, foo, foo2, xeth}
  Native = eth
  NoToken = NoToken
  MaxListings = 1
  Stable = foo
  Emerging = {foo2}
  BatchSize = 2
  RateTimeout = 1
  ReadTime = 1
  MaxTokenTime = 2
  sEth = sEth
  sFoo = sFoo
  part = part
  Texts = {sEth, sFoo, part, NoText}
  NoText = NoText
  SymbolOf <- Symbols
  Score <- Scores
  Page = 2
  Networks = {a1, a2}
  NoNetwork = NoNetwork
  CachedSources = {dune}
  DirectSources = {sugar}
  AllNeeded = {}
  SourceQueries = {q1}
  ReportTtl = 1
  SourceTtl = 1
  MaxQueries = 2
  MaxMinute = 1
  MaxDeaths = 1
  WeekLen = 2
  Weeks = 2
  Now = 17
  Points <- SomePoints
  RowWeeks = {6, 7, 8}
  Fields = {a1, a2}
  GenesisWeek = 4
  EpochTop = 5
  WeekTop = 10
  SecondTop = 20
  Milli = 2
  PoolKinds <- SomePools
  VoteFloor = 1
  Top = 1
  MaxPoints = 3
  MaxRows = 2
  MaxScored = 2
  Chains = {c1, c2}
  Base = c1
  Wallets = {w1}
  NoWallet = NoWallet
  MaxMounts = 4
  MaxDepth = 3
  MaxAnswers = 3
  MaxSends = 2
  Txs = {p1, p2}
  MaxBridges = 2
  MaxTries = 2
  Procs = {p1, p2}
  Addresses = {a1, a2}
  NoAddress = NoAddress
  PlanSteps = 1
  MaxTopics = 1
  MaxCommands = 3
  AccountCalls = {p1, p2}
  AccountNames = {a1, a2}
  NoName = NoName
  Owned = {o1}
  NoOwned = NoOwned
  MaxPages = 2
  MaxOnFile = 2
  Signers = {"bound", "free"}
  SignerPolicy <- SignersPolicy
  PolicyNames = {"session"}
  NoPolicy = NoPolicy
  Terms <- SomeTerms
  PlanIds = {1, 2, 3, 4, 5}
  PlanOf <- OrderedPlans
  TypedKeys = {k1}
  Payloads = {a1, a2}
  NoPayload = NoPayload
  MaxPolicyTime = 1
  SafeAddresses = {1, 2, 3}
  Modules = {7, 8}
  AllowanceModule = 7
  SponsorModule = 8
  Sentinel = 0
  MaxOwners = 2
  MaxNonce = 2
  MaxProposed = 2
  MaxPrepared = 2
  MaxDrafts = 1
  BridgeProcs = {p1, p2}
  BridgeKeys = {k1}
  Transfers = {a1, a2}
  NoTransfer = none
  Amount = 2
  MinOut = 1
  MaxQuotes = 2
  MaxForks = 1
  MaxBridgeTime = 1
  QuoteLife = 1
  MaxSpent = 1
SYMMETRY InfraSymmetry
SPECIFICATION InfraSpec
INVARIANT InfraTypeOK
INVARIANT ReadsAnswer
INVARIANT BrowserHolds
INVARIANT TableIsCurrent
INVARIANT CatalogHolds
INVARIANT PricesHold
INVARIANT WalletsHold
INVARIANT ScreensAreTrue
INVARIANT BridgeHolds
CHECK_DEADLOCK FALSE
