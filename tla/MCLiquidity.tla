---------------------------- MODULE MCLiquidity ----------------------------
(***************************************************************************)
(* One instance for TLC of the liquidity tool and what it computes with.   *)
(* Its parts meet only through values (a plan, a quote, an interval), so   *)
(* the first state picks the one that runs; the others have no values.     *)
(***************************************************************************)
EXTENDS AlmCycle, TxPlans, Routes, RangeStrategy, StockIndex, VeNfts, AlmServe,
        RoleTree, TLC

CONSTANTS
  pool1, pool2, pool3,       \* pools a role may be about
  nfpm1, nfpm2, gauge1, gauge2, weth, usdc, aero   \* contracts of those pools

VARIABLE part  \* the one that runs

Parts == {"cycle", "plans", "routes", "range", "history", "index", "venfts", "serve", "role"}
Unset == "unset"

\* the pools a swap may go through: two routes with one more hop each, and a
\* pool as good as another
LegPool(id, a, b) == [id |-> id, t0 |-> a, t1 |-> b]
SwapPools == {LegPool(1, "a", "b"), LegPool(2, "a", "c"), LegPool(3, "b", "c"),
              LegPool(4, "c", "d"), LegPool(5, "b", "d"), LegPool(6, "a", "c")}

\* prices beyond both ends of the tick domain, limits beyond its size, and each strategy with and
\* without what it can do without
AllMarkets == -MaxAbsTick..MaxAbsTick
SomeRules == [strategy : {"original", "lazy-syncing", "lazy-ascending", "lazy-descending", "expand"},
              width : {4, 8}, neighborhood : {0, 1}, step : {0, 4}, maxWidth : {0, 12, 36}]
SomeRanges == {r \in [lower : {-14, -4, 0, 8}, upper : {-10, 0, 4, 10}] : r.lower < r.upper}

\* what the catalog says of the pools of a role
ItsNfpm == (pool1 :> nfpm1) @@ (pool2 :> nfpm1) @@ (pool3 :> nfpm2)
ItsGauge == (pool1 :> gauge1) @@ (pool2 :> gauge2) @@ (pool3 :> NoContract)
ItsLegs == (pool1 :> <<weth, usdc>>) @@ (pool2 :> <<usdc, aero>>) @@ (pool3 :> <<weth, aero>>)
ItsEmissions == (pool1 :> aero) @@ (pool2 :> NoContract) @@ (pool3 :> NoContract)

\* Processes, stocks, the places of the daemon and the contracts that pay rewards are
\* named alike: no part tells those of a kind apart.
LiquiditySymmetry == Permutations(SendProcs)

-----------------------------------------------------------------------------
\* The legs are interchangeable, and plans lead to positions in between and to
\* permits that last.
PlansBegin ==
  IF part = "plans"
  THEN /\ PlansInit /\ pool.legs["t0"] = "erc"
       /\ world.permit["t0"].expires <= Buffer
       /\ {world.pos.liquidity, world.pos.staked} \subseteq {0, MaxAmount}
  ELSE pool = Unset /\ world = Unset /\ plan = <<>> /\ builtAt = 0 /\ planClock = 0 /\ plans = 0

RangeBegins ==
  IF part = "range" THEN RangeInit
  ELSE rule = Unset /\ range = Unset /\ tick = 0 /\ firstMax = 0

IndexBegins ==
  IF part = "index" THEN IndexInit
  ELSE /\ indices = Unset /\ editor = Unset /\ edits = 0 /\ held = Unset /\ cash = 0
       /\ basket = Unset /\ spare = 0

ServeBegins ==
  IF part = "serve" THEN ServeInit
  ELSE /\ serveTime = 0 /\ serveFile = <<>> /\ inits = NoInit /\ daemon = Off /\ watched = <<>>
       /\ spots = Unset /\ nfts = Unset /\ child = NoChild /\ said = <<>> /\ worldMoves = 0

LiquidityInit ==
  /\ part \in Parts
  /\ AlmInit /\ RoutesInit /\ HistoryInit /\ VeNftsInit /\ RoleInit
  /\ PlansBegin /\ RangeBegins /\ IndexBegins /\ ServeBegins

Only(name) ==
  /\ part = name /\ UNCHANGED part
  /\ name # "cycle" => UNCHANGED almVars
  /\ name # "plans" => UNCHANGED planVars
  /\ name # "routes" => UNCHANGED routeVars
  /\ name # "range" => UNCHANGED rangeVars
  /\ name # "history" => UNCHANGED samples
  /\ name # "index" => UNCHANGED indexVars
  /\ name # "venfts" => UNCHANGED veVars
  /\ name # "serve" => UNCHANGED serveVars
  /\ name # "role" => UNCHANGED roleVars

LiquidityNext ==
  \/ Only("cycle") /\ AlmNext
  \/ Only("plans") /\ PlansNext
  \/ Only("routes") /\ RoutesNext
  \/ Only("range") /\ RangeNext
  \/ Only("history") /\ Poll
  \/ Only("index") /\ IndexNext
  \/ Only("venfts") /\ VeNftsNext
  \/ Only("serve") /\ ServeNext
  \/ Only("role") /\ RoleNext

liquidityVars ==
  <<part, almVars, planVars, routeVars, rangeVars, samples, indexVars, veVars, serveVars, roleVars>>

LiquiditySpec == LiquidityInit /\ [][LiquidityNext]_liquidityVars

-----------------------------------------------------------------------------
\* Every value of the part that runs is one the code can have; among them, the
\* rebalances on file stay within the daily cap.
LiquidityTypeOK ==
  /\ AlmTypeOK
  /\ part = "plans" => PlansTypeOK
  /\ part = "index" => IndexTypeOK
  /\ VeNftsTypeOK
  /\ part = "serve" => ServeTypeOK
  /\ RoleTypeOK

\* Every transaction of a plan finds the approvals, permits and amounts it
\* needs, whatever was left of earlier plans, and leaves nothing with the
\* position manager: no fees it was to unwrap, and no value that a deposit or an
\* increase did not take (transactions.ts, alm/engine.ts:698).
PlansHold == part = "plans" => PlanRuns /\ NothingStranded

\* What is computed in one call is what it is to be: the path search finds the
\* routes there are, the quote is the best of them, and the swap planned from it
\* delivers; a claim of rewards leaves none that it read; the average tick is
\* that of the whole window; and the role that the manager may act under, in Safe
\* mode, lets its plans through and nothing that pays anybody else.
QuoteHolds ==
  /\ PathsAreRight /\ QuoteIsBest /\ FundsArrive
  /\ RewardsAreClaimed
  /\ AverageIsFair
  /\ RoleIsExact

\* A rebalance moves to the interval its strategy promises, and does so at most
\* twice at one tick.
RangeIsSound == part = "range" => RangeFollows /\ RangeSettles

\* The daemon says what it must, once, and is held up no longer than it allows.
KeeperHolds == part = "serve" => NotesAreTold
=============================================================================
