------------------------------ MODULE MCInfra ------------------------------
(***************************************************************************)
(* One instance for TLC of what both packages stand on: reads and caches,  *)
(* screens, wallets, Safe owners and bridges.  None of them waits for      *)
(* another, so the first state picks the one that runs.                    *)
(***************************************************************************)
EXTENDS SugarReads, ScreenReads, Catalog, Prices, TokenFlags, Reports, Scorecards, TuiScreens,
        BrowserBridge, Wallets, Accounts, Policies, SafeOwners, Bridge, TLC

CONSTANTS
  eth, foo, foo2, xeth,        \* tokens: two of them have one symbol
  sEth, sFoo, part,            \* texts: symbols, and a part of some
  pool1, nft1, nft2

VARIABLE running  \* the one that runs

Parts == {"reads", "screens", "catalog", "prices", "flags", "reports", "scores", "tui", "browser", "wallets", "accounts",
          "policies", "safe", "bridge"}

\* two NFTs of one pool
ItsPool == (nft1 :> pool1) @@ (nft2 :> pool1)

Symbols == (eth :> sEth) @@ (foo :> sFoo) @@ (foo2 :> sFoo) @@ (xeth :> sEth)
Scores ==
  (sEth :> ((eth :> 1) @@ (xeth :> 1) @@ (foo :> 0) @@ (foo2 :> 0))) @@
  (sFoo :> ((eth :> 0) @@ (xeth :> 0) @@ (foo :> 1) @@ (foo2 :> 1))) @@
  (part :> ((eth :> 0) @@ (xeth :> 3) @@ (foo :> 2) @@ (foo2 :> 2)))

\* on both sides of the window, and twice in a week
SomePoints == {<<t, v>> : t \in {12, 13, 14, 15, 18}, v \in {1, 2}}
\* pools of every pair of assets, and pools that compete for the best of an epoch
SomePool(a, b, f, v, e) ==
  [token0 |-> a, token1 |-> b, cl |-> a = "eth", stable |-> FALSE, tvl |-> 1,
   fees |-> f, incentives |-> 0, votes |-> v, epoch |-> e]
SomePools ==
  {SomePool(a, b, 2, 1, 1) : a \in {"eth", "stable", "aero"}, b \in {"btc", "stable", "other"}} \cup
  {SomePool("eth", "stable", f, v, e) : f \in {0, 2, 3}, v \in {0, 1, 2}, e \in {-1, 1, 2}}

\* One signer is bound to the policy, the other to none.  The plans come to more
\* than either terms allow, in the native token and in the other one.
SignersPolicy == "bound" :> "session" @@ "free" :> NoPolicy
OrderedPlan(policy, kind, to, recipient, value, amount) ==
  [policy |-> policy, account |-> "own", call |-> kind, to |-> to, from |-> "own",
   recipient |-> recipient, value |-> value, amount |-> amount, fee |-> 1]
OrderedPlans ==
  <<OrderedPlan("session", "none", "friend", "friend", 2, 0),
    OrderedPlan("session", "transfer", "token", "friend", 0, 2),
    OrderedPlan("session", "approve", "token", "friend", 1, 1),
    OrderedPlan("session", "transferFrom", "token", "stranger", 0, 1),
    OrderedPlan(NoPolicy, "transfer", "token", "stranger", 0, 2)>>
SomeTerms ==
  {[account |-> "own", expires |-> e, maxFee |-> 1, native |-> 2, recipients |-> {"friend"},
    contracts |-> {"token"} \X Metered, budget |-> [token |-> 2]] : e \in 1..2}

\* Readers, processes, calls and transactions are named alike, and so are catalogs,
\* addresses, accounts, networks, transfers and the fields of a row: no part tells
\* those of a kind apart, and each permutation is one of every part.
InfraSymmetry == Permutations(Readers) \cup Permutations(Catalogs)

-----------------------------------------------------------------------------
\* The parts that do not run have no values.
Unset == 0

InfraInit ==
  /\ running \in Parts
  /\ IF running = "reads" THEN ReadsInit
     ELSE /\ now = Unset /\ pools = Unset /\ entry = Unset /\ countSlot = Unset /\ job = Unset
          /\ known = Unset /\ missed = Unset
  /\ IF running = "screens" THEN ScreenInit
     ELSE /\ height = Unset /\ client = Unset /\ asked = Unset /\ inbox = Unset /\ outbox = Unset
          /\ alive = Unset /\ table = Unset /\ fetches = Unset /\ stored = Unset /\ disk = Unset
          /\ cleared = Unset
  /\ IF running = "catalog" THEN CatalogInit
     ELSE /\ listing = Unset /\ homes = Unset /\ holding = Unset /\ moves = Unset
          /\ offsetStore = Unset /\ countCache = Unset /\ catalogCache = Unset /\ lookups = Unset
  /\ IF running = "reports" THEN ReportsInit
     ELSE /\ minute = Unset /\ view = Unset /\ queries = Unset /\ mail = Unset /\ loads = Unset
          /\ entries = Unset /\ pulled = Unset /\ shelf = Unset /\ deaths = Unset
  /\ IF running = "scores" THEN ScorecardsInit
     ELSE points = Unset /\ duneRows = Unset /\ scoredPools = Unset
  /\ IF running = "tui" THEN TuiInit
     ELSE /\ app = Unset /\ routes = Unset /\ screen = Unset /\ dialogs = Unset /\ asks = Unset
          /\ questions = Unset /\ sends = Unset /\ sentOnce = Unset
  /\ IF running = "browser" THEN BridgeInit
     ELSE /\ bridge = Unset /\ page = Unset /\ toPage = Unset /\ toBridge = Unset /\ active = Unset
          /\ selected = Unset /\ call = Unset /\ wallet = Unset /\ submitted = Unset
  /\ IF running = "wallets" THEN WalletsInit
     ELSE /\ files = Unset /\ sessions = Unset /\ onDisk = Unset /\ signClient = Unset
          /\ paired = Unset /\ proc = Unset /\ topics = Unset /\ commands = Unset /\ crowded = Unset
          /\ chosen = Unset /\ walletAsked = Unset
  /\ IF running = "accounts" THEN AccountsInit
     ELSE accountFile = Unset /\ pages = Unset /\ held = Unset /\ accountCalls = Unset
  /\ IF running = "policies" THEN PoliciesInit
     ELSE /\ policyTime = Unset /\ policyDocs = Unset /\ typedRows = Unset /\ order = Unset
          /\ signedPlans = Unset /\ typedSigned = Unset
  /\ IF running = "safe" THEN SafeInit
     ELSE /\ vault = Unset /\ approvals = Unset /\ proposed = Unset /\ drafts = Unset
          /\ prepared = Unset /\ administered = Unset
  /\ IF running = "bridge" THEN TransferInit
     ELSE /\ bridgeTime = Unset /\ quotes = Unset /\ records = Unset /\ flows = Unset
          /\ callers = Unset /\ allowance = Unset /\ spent = Unset /\ deliveries = Unset
          /\ fork = Unset /\ verified = Unset
  /\ IF running \in {"prices", "flags"} THEN ListInit ELSE listed = Unset /\ listings = Unset
  /\ IF running = "prices" THEN PricesInit /\ xeth \notin listed
     ELSE tokenTime = Unset /\ rateCache = Unset /\ pricing = Unset
  /\ IF running = "flags" THEN FlagsInit ELSE cliCatalog = Unset /\ flag = Unset

Only(name) ==
  /\ running = name /\ UNCHANGED running
  /\ name # "reads" => UNCHANGED readsVars
  /\ name # "screens" => UNCHANGED screenVars
  /\ name # "catalog" => UNCHANGED catalogVars
  /\ name \notin {"prices", "flags"} => UNCHANGED listVars
  /\ name # "prices" => UNCHANGED <<tokenTime, rateCache, pricing>>
  /\ name # "flags" => UNCHANGED <<cliCatalog, flag>>
  /\ name # "reports" => UNCHANGED reportVars
  /\ name # "scores" => UNCHANGED scoreVars
  /\ name # "tui" => UNCHANGED tuiVars
  /\ name # "browser" => UNCHANGED bridgeVars
  /\ name # "wallets" => UNCHANGED walletVars
  /\ name # "accounts" => UNCHANGED accountVars
  /\ name # "policies" => UNCHANGED policyVars
  /\ name # "safe" => UNCHANGED safeVars
  /\ name # "bridge" => UNCHANGED transferVars

InfraNext ==
  \/ Only("reads") /\ ReadsNext
  \/ Only("screens") /\ ScreenNext
  \/ Only("catalog") /\ CatalogNext
  \/ Only("prices") /\ PricesNext /\ xeth \notin listed' \cup pricing'.asked
  \/ Only("flags") /\ FlagsNext
  \/ Only("reports") /\ ReportsNext
  \/ Only("scores") /\ ScorecardsNext
  \/ Only("tui") /\ TuiNext
  \/ Only("browser") /\ BridgeNext
  \/ Only("wallets") /\ WalletsNext
  \/ Only("accounts") /\ AccountsNext
  \/ Only("policies") /\ PoliciesNext
  \/ Only("safe") /\ SafeNext
  \/ Only("bridge") /\ TransferNext

infraVars ==
  <<running, readsVars, screenVars, catalogVars, priceVars, cliCatalog, flag, reportVars,
    scoreVars, tuiVars, bridgeVars, walletVars, accountVars, policyVars, safeVars, transferVars>>

InfraSpec == InfraInit /\ [][InfraNext]_infraVars

-----------------------------------------------------------------------------
\* Every value of the part that runs is one the code can have; among them, an ask
\* waits only for the worker that runs, and a call for the page it was made to.
InfraTypeOK ==
  /\ running = "reads" => ReadsTypeOK
  /\ running = "screens" => ScreenTypeOK
  /\ running = "catalog" => CatalogTypeOK
  /\ running = "prices" => PricesTypeOK
  /\ running = "flags" => FlagsTypeOK
  /\ running = "reports" => ReportsTypeOK
  /\ running = "tui" => TuiTypeOK
  /\ running = "browser" => BridgeTypeOK
  /\ running = "wallets" => WalletsTypeOK
  /\ running = "accounts" => AccountsTypeOK
  /\ running = "policies" => PoliciesTypeOK
  /\ running = "safe" => SafeTypeOK
  /\ running = "bridge" => TransferTypeOK

\* A cached catalog is one that was read from the chain after the last
\* invalidation, and whoever waits for it, behind another caller or a retry, is
\* answered or told why not before the deadline (internal/caches.ts,
\* internal/rpc-executor.ts).
ReadsAnswer == running = "reads" => KnownIsRead /\ WaitsEnd

\* The page of the browser wallet: nothing is submitted twice by callers that
\* believe what the bridge tells them (packages/sugar/src/browser-wallet.ts).
BrowserHolds == running = "browser" => SubmittedOnce

\* The reads of the terminal screens: a row shown as live was read since the
\* last clear, and no ask waits for a worker that is gone
\* (tui/sugar-runtime.ts, worker-client.ts).
TableIsCurrent == running = "screens" => LiveIsCurrent /\ NobodyWaitsInVain

\* Lookups over catalogs that are paged while they change (pools.ts,
\* positions.ts, internal/pagination.ts), and lookups of a token: the one that a
\* flag or a prompt names is the one the user means (cli/tokens.ts). The figures
\* that a scorecard makes of what was fetched add up (tui/analytics/metrics.ts).
CatalogHolds ==
  /\ running = "catalog" => PositionsAreFound
  /\ running = "scores" => WeeksAddUp /\ SharesAddUp
  /\ running = "flags" => TokenIsMeant

\* A rate is no older than its time to live, whether it is kept, read or awaited,
\* however late its batch is answered (prices.ts).
PricesHold == running = "prices" => RatesAreFresh

\* What is signed is what was reviewed, by the account that is active; whoever
\* waits for a page of the browser bridge is answered, and a page that was
\* replaced is closed (packages/sugar wallets, src/wallets.ts); a policy bounds all
\* that is signed under its name (policy.ts, signatures.ts); and a Safe
\* transaction that was prepared, which its simulation allowed, runs as the owners
\* signed it, but for a sponsored change of the Safe meanwhile (safe/execution.ts).
WalletsHold ==
  /\ running = "wallets" => SignsWhatWasReviewed /\ ConnectedIsActive
  /\ running = "accounts" => PagesAreSettled
  /\ running = "policies" => SpendingIsBounded /\ BoundSignersObey
  /\ running = "safe" => PreparedRuns

\* What the terminal shows belongs to the chain and wallet it shows beside it
\* (screens/action.tsx, store.tsx). A report does once its load has ended well;
\* until then, and when it failed, it may be of a chain the screen was on before
\* (analytics.tsx:156, 160). A refresh ends with a load begun after it.
ScreensAreTrue ==
  /\ running = "tui" => ShownIsCurrent
  /\ running = "reports" => ReportIsOfChain /\ RefreshIsFresh

\* A transfer is shown as what the chains say of it: started once as it was
\* quoted, and completed only by a delivery that stands and pays the minimum (socket.ts).
BridgeHolds == running = "bridge" => BridgeIsTrue
=============================================================================
