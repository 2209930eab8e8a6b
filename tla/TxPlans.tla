------------------------------ MODULE TxPlans ------------------------------
(***************************************************************************)
(* The transaction plans of the liquidity tool (packages/sugar:            *)
(* transactions.ts, the builders of venfts.ts, withdrawalFromPosition of   *)
(* models.ts, buildIncreaseLiquidity of alm/engine.ts): a builder reads    *)
(* allowances and permits and returns a sequence of transactions,          *)
(* approvals first, that the wallet sends one by one, or not at all.  The  *)
(* contracts are external: what a call needs from the state it meets and   *)
(* what it leaves behind.                                                  *)
(*                                                                         *)
(* One wallet, one pool with the legs "t0" and "t1" and one position in    *)
(* it.  Balances suffice, amounts out are whatever the pool gives, and a   *)
(* deposit takes whatever its ratio needs, up to the amounts offered: the  *)
(* minimum amounts are not part of the model.                              *)
(***************************************************************************)
EXTENDS Integers, SequencesExt

CONSTANTS
  MaxAmount,     \* amounts of a request
  Buffer,        \* PERMIT2_VALIDITY_BUFFER_MINUTES
  ApprovalTime,  \* PERMIT2_APPROVAL_MINUTES, and the deadline of a call
  MaxTime, MaxPlans

VARIABLES
  pool,     \* [cl, legs, gauge]: kind, what each leg is, its gauge
  world,    \* what the contracts hold of the wallet
  plan,     \* the transactions still to be sent
  builtAt,  \* when the plan was built
  planClock, plans

planVars == <<pool, world, plan, builtAt, planClock, plans>>

Amount == 1..MaxAmount
Legs == {"t0", "t1"}

\* the token contracts of the requests and the spenders their builders approve
Pairs == (Legs \X {"permit2", "router", "nfpm"})
           \cup {<<"lp", "router">>, <<"lp", "gauge">>, <<"t0", "bridge">>,
                 <<"t0", "incentive">>, <<"gov", "escrow">>}

Position == [liquidity : 0..MaxAmount, staked : 0..MaxAmount,
             owed : BOOLEAN, lentTo : {"nobody", "gauge"}, burnt : BOOLEAN]

\* isNativeLeg, tokenContractAddress
Native(t) == pool.legs[t] = "native"
IsWeth(t) == pool.legs[t] \in {"native", "weth"}
Other(t)  == IF t = "t0" THEN "t1" ELSE "t0"

------------------------------------------------------------------------------
(***************************************************************************)
(* The contracts.  A call takes [ok, w], whether all before it went        *)
(* through and what they left, to the same after it.                       *)
(***************************************************************************)

Take(w, pair, n) == [ok |-> w.allow[pair] >= n,
                     w  |-> IF w.allow[pair] >= n
                              THEN [w EXCEPT !.allow[pair] = @ - n] ELSE w]

\* Permit2 moves the input of a swap for the swapper
TakePermitted(acc, in) ==
  LET pair == <<in.token, "permit2">>
      fits == acc.w.permit[in.token].amount >= in.amount /\ acc.w.permit[in.token].expires >= planClock
      took == Take(acc.w, pair, in.amount)
  IN [ok |-> acc.ok /\ fits /\ took.ok,
      w  |-> IF fits THEN [took.w EXCEPT !.permit[in.token].amount = @ - in.amount] ELSE acc.w]

\* a leg is paid in: from the value sent when it is the wrapped native token
PayIn(acc, leg, spender, n, value) ==
  IF IsWeth(leg) /\ value >= n THEN acc
  ELSE LET took == Take(acc.w, <<leg, spender>>, n) IN [ok |-> acc.ok /\ took.ok, w |-> took.w]
PayLegs(acc, c, value, used) ==
  LET one == PayIn(acc, "t0", c.spender, used.t0, value)
      two == PayIn(one, "t1", c.spender, used.t1, value)
  IN [two EXCEPT !.ok = @ /\ c.until >= planClock]

\* what the pool takes of the amounts a call offers
Offers(c) ==
  IF c.call = "add" THEN {c}
  ELSE IF c.call = "multicall" THEN {d \in Range(c.calls) : d.call \in {"mint", "increase"}} ELSE {}
NoUse == [t \in Legs |-> 0]
Uses(c) ==
  IF Offers(c) = {} THEN {NoUse}
  ELSE {used \in [Legs -> 0..MaxAmount] \ {NoUse} :
          \A d \in Offers(c), t \in Legs : used[t] <= d.amounts[t]}

\* the calls of the position manager that a multicall strings together: value
\* that a position does not take is the manager's until it is asked back
NfpmCall(acc, c, value, used) ==
  LET pos == acc.w.pos IN
  CASE c.call \in {"mint", "increase"} ->
         LET paid == PayLegs(acc, c, value, used) IN
         [paid EXCEPT !.w.held = IF \E t \in Legs : IsWeth(t) /\ value > used[t]
                                   THEN @ \cup {"native"} ELSE @,
                      !.w.pos.liquidity =
                        IF c.call = "increase" /\ @ < MaxAmount THEN @ + 1 ELSE @]
    [] c.call = "refund" -> [acc EXCEPT !.w.held = @ \ {"native"}]
    [] c.call = "decrease" ->
         [ok |-> acc.ok /\ pos.liquidity >= c.amount /\ c.until >= planClock,
          w  |-> [acc.w EXCEPT !.pos.liquidity = IF @ >= c.amount THEN @ - c.amount ELSE @,
                               !.pos.owed = TRUE]]
    [] c.call = "collect" ->
         [ok |-> acc.ok /\ ~pos.burnt /\ pos.staked = 0,
          w  |-> [acc.w EXCEPT !.pos.owed = FALSE,
                               !.held = IF c.to = "nfpm" /\ pos.owed THEN Legs ELSE @]]
    [] c.call = "unwrap" -> [acc EXCEPT !.w.held = {t \in @ : ~IsWeth(t)}]
    [] c.call = "sweep"  -> [acc EXCEPT !.w.held = @ \ {c.token}]
    [] c.call = "burn"   ->
         [ok |-> acc.ok /\ pos.liquidity = 0 /\ ~pos.owed,
          w  |-> [acc.w EXCEPT !.pos.burnt = TRUE]]

Call(acc, c, used) ==
  CASE c.call = "approve" -> [acc EXCEPT !.w.allow[<<c.token, c.spender>>] = c.amount]
    [] c.call = "permit"  -> [acc EXCEPT !.w.permit[c.token] = [amount |-> c.amount, expires |-> c.until]]
    [] c.call = "execute" -> FoldLeft(TakePermitted, acc, c.inputs)
    [] c.call = "pull"    -> LET took == Take(acc.w, <<c.token, c.spender>>, c.amount)
                             IN [ok |-> acc.ok /\ took.ok, w |-> took.w]
    [] c.call = "add" -> PayLegs(acc, c, c.value, used)  \* the router sends back what is left
    [] c.call = "remove"  ->
         LET took == Take(acc.w, <<"lp", "router">>, c.amount)
         IN [ok |-> acc.ok /\ took.ok /\ acc.w.pos.liquidity >= c.amount /\ c.until >= planClock,
             w  |-> [took.w EXCEPT !.pos.liquidity = IF @ >= c.amount THEN @ - c.amount ELSE @]]
    [] c.call = "multicall" -> FoldLeft(LAMBDA x, d : NfpmCall(x, d, c.value, used), acc, c.calls)
    [] c.call = "lend"    -> [acc EXCEPT !.w.pos.lentTo = "gauge"]
    [] c.call = "deposit" -> \* into the gauge: the NFT, or that much of the LP token
         LET took == IF pool.cl THEN [ok |-> acc.w.pos.lentTo = "gauge", w |-> acc.w]
                                ELSE Take(acc.w, <<"lp", "gauge">>, c.amount)
         IN [ok |-> acc.ok /\ took.ok /\ acc.w.pos.liquidity >= c.amount,
             w  |-> [took.w EXCEPT !.pos.staked = @ + c.amount, !.pos.liquidity = @ - c.amount,
                                   !.pos.lentTo = "nobody"]]
    [] c.call = "withdraw" ->
         [ok |-> acc.ok /\ acc.w.pos.staked >= c.amount,
          w  |-> [acc.w EXCEPT !.pos.staked = @ - c.amount, !.pos.liquidity = @ + c.amount]]
    [] c.call = "claim" -> acc

Runs(c, used)  == Call([ok |-> TRUE, w |-> world], c, used).ok
After(c, used) == Call([ok |-> TRUE, w |-> world], c, used).w

------------------------------------------------------------------------------
(***************************************************************************)
(* The builders: the plans that requests of each kind come to.             *)
(***************************************************************************)

Maybe(wanted, step) == IF wanted THEN <<step>> ELSE <<>>

Allowed(token, spender, n) == world.allow[<<token, spender>>] >= n

\* approveAddressIfNeeded, setTokenAllowance
ApproveIfNeeded(token, spender, n) ==
  Maybe(~Allowed(token, spender, n),
        [call |-> "approve", token |-> token, spender |-> spender, amount |-> n])

PermitAmountStands(t, n) == world.permit[t].amount >= n
PermitStands(t, n) == PermitAmountStands(t, n) /\ world.permit[t].expires > planClock + Buffer

Permit2Approvals(t, n) ==
  ApproveIfNeeded(t, "permit2", n)
    \o Maybe(~PermitStands(t, n),
             [call |-> "permit", token |-> t, amount |-> n, until |-> planClock + ApprovalTime])

\* swapFromQuote: a native input is sent along and needs no approval
SwapPlans ==
  {IF Native(t) THEN <<[call |-> "execute", inputs |-> <<>>]>>
   ELSE Permit2Approvals(t, n)
          \o <<[call |-> "execute", inputs |-> <<[token |-> t, amount |-> n]>>]>>
   : t \in Legs, n \in Amount}

\* swapBasketFromQuotes: one approval for all the quotes that sell a token
TotalInput(inputs, t) ==
  FoldLeft(LAMBDA n, in : IF in.token = t THEN n + in.amount ELSE n, 0, inputs)

BasketApprovals(inputs, t) ==
  IF \E i \in DOMAIN inputs : inputs[i].token = t
    THEN Permit2Approvals(t, TotalInput(inputs, t)) ELSE <<>>

BasketPlans ==
  {BasketApprovals(q, q[1].token) \o
     (IF q[2].token = q[1].token THEN <<>> ELSE BasketApprovals(q, q[2].token))
     \o <<[call |-> "execute", inputs |-> q]>>
   : q \in {i \in [1..2 -> [token : Legs, amount : {1}]] : \A k \in 1..2 : ~Native(i[k].token)}}

\* bridge, createVeNft and increaseVeNftAmount, incentivizePool: approve and let the contract pull
PullPlans ==
  {ApproveIfNeeded(p[1], p[2], n)
     \o <<[call |-> "pull", token |-> p[1], spender |-> p[2], amount |-> n]>>
   : p \in {<<"t0", "bridge">>, <<"gov", "escrow">>, <<"t0", "incentive">>}, n \in Amount}

\* collectApprovals and deposit: native legs are sent as value, the others approved
LegApproval(t, target, n) == IF Native(t) THEN <<>> ELSE ApproveIfNeeded(t, target, n)
ValueOf(a) == IF Native("t0") THEN a.t0 ELSE IF Native("t1") THEN a.t1 ELSE 0

\* quoteBasicDeposit, quoteConcentratedDeposit: one amount is given and the
\* pool says what goes with it, nothing outside its interval (a new basic pool
\* takes both as given, which is among these)
Quotes(t, n) == {q \in [t0 : 0..MaxAmount, t1 : 0..MaxAmount] : q[t] = n}
DepositQuotes == UNION {Quotes(t, n) : t \in Legs, n \in Amount}

NfpmOffer(do, a) == [call |-> do, spender |-> "nfpm", amounts |-> a, until |-> planClock + ApprovalTime]

\* mint and increaseLiquidity of the position manager: what is left of the value
\* sent along is asked back in the same transaction
HasNative == \E t \in Legs : Native(t)
AndNoRefund(call) == <<call>>
AndRefund(call) == <<call>> \o Maybe(HasNative, [call |-> "refund"])
NfpmPays(do, a) ==
  [call |-> "multicall", value |-> ValueOf(a), calls |-> AndRefund(NfpmOffer(do, a))]

AddLiquidity(a) == [call |-> "add", value |-> ValueOf(a), spender |-> "router", amounts |-> a,
                    until |-> planClock + ApprovalTime]
DepositPlans ==
  LET target == IF pool.cl THEN "nfpm" ELSE "router" IN
  {LegApproval("t0", target, a.t0) \o LegApproval("t1", target, a.t1)
     \o <<IF pool.cl THEN NfpmPays("mint", a) ELSE AddLiquidity(a)>>
   : a \in DepositQuotes}

\* buildIncreaseLiquidity: quoted by one leg of the funds claimed, then by the
\* other when that asks for more than there is; refused when both do, or neither pays
Within(q, funds) == \A t \in Legs : q[t] <= funds[t]

IncreaseQuotes ==
  {q \in DepositQuotes :
     \E funds \in [t0 : 0..MaxAmount, t1 : 0..MaxAmount], by \in Legs :
       /\ by = "t0" => funds.t0 > 0
       /\ Within(q, funds)
       /\ \/ q[by] = funds[by]
          \/ /\ \E first \in Quotes(by, funds[by]) : ~Within(first, funds)
             /\ q[Other(by)] = funds[Other(by)]}

IncreasePlans ==
  IF ~pool.cl \/ world.pos.staked > 0 THEN {}
  ELSE {LegApproval("t0", "nfpm", a.t0) \o LegApproval("t1", "nfpm", a.t1)
          \o <<NfpmPays("increase", a)>>
        : a \in IncreaseQuotes}

\* cleanupCalls: collect, to the position manager itself when the native leg is unwrapped
WethLeg == CHOOSE t \in Legs : pool.legs[t] = "weth"
CleanupCalls(unwrap, burn) ==
  <<[call |-> "collect", to |-> IF unwrap THEN "nfpm" ELSE "wallet"]>>
    \o Maybe(unwrap, [call |-> "unwrap"])
    \o (IF unwrap THEN <<[call |-> "sweep", token |-> Other(WethLeg)]>> ELSE <<>>)
    \o Maybe(burn, [call |-> "burn"])

\* cleanupCalls refuses to unwrap where no leg is the wrapped token by its own address
MayUnwrap(unwrap) == unwrap => \E t \in Legs : pool.legs[t] = "weth"

\* withdrawalFromPosition: all of it, or half rounded down, and a full close to burn
Withdrawn(half) == IF half THEN world.pos.liquidity \div 2 ELSE world.pos.liquidity
MayWithdraw(half, burn) == /\ burn => ~half /\ pool.cl
                           /\ Withdrawn(half) > 0

WithdrawPlan(half, burn, collect, unwrap) ==
  LET n == Withdrawn(half) IN
  IF ~pool.cl
    THEN ApproveIfNeeded("lp", "router", n)
           \o <<[call |-> "remove", amount |-> n, until |-> planClock + ApprovalTime]>>
    ELSE <<[call |-> "multicall", value |-> 0,
            calls |-> <<[call |-> "decrease", amount |-> n, until |-> planClock + ApprovalTime]>>
                        \o (IF collect THEN CleanupCalls(unwrap, burn) ELSE <<>>)]>>

WithdrawPlans ==
  {WithdrawPlan(o.half, o.burn, o.collect, o.unwrap)
   : o \in {x \in [half : BOOLEAN, burn : BOOLEAN, collect : BOOLEAN, unwrap : BOOLEAN] :
              /\ MayWithdraw(x.half, x.burn)
              /\ pool.cl => (x.burn \/ x.unwrap => x.collect) /\ MayUnwrap(x.unwrap)}}

\* assertPosition and stake: a live gauge, nothing staked of an NFT, something to stake
StakePlans ==
  IF pool.gauge # "alive" \/ world.pos.liquidity = 0 \/ (pool.cl /\ world.pos.staked > 0) THEN {}
  ELSE {(IF pool.cl THEN <<[call |-> "lend"]>>
                    ELSE ApproveIfNeeded("lp", "gauge", world.pos.liquidity))
          \o <<[call |-> "deposit", amount |-> world.pos.liquidity]>>}

\* unstake: the NFT, or up to what is staked; a killed gauge still gives it back
UnstakePlans ==
  IF pool.gauge = "none" THEN {}
  ELSE {<<[call |-> "withdraw", amount |-> n]>>
        : n \in {k \in Amount : IF pool.cl THEN k = world.pos.staked ELSE k <= world.pos.staked}}

\* claimEmissions and claimFees
MayClaimFees(burn) == world.pos.staked = 0 /\ (burn => world.pos.liquidity = 0)

ClaimPlans ==
  (IF pool.gauge = "none" THEN {} ELSE {<<[call |-> "claim"]>>})
    \cup IF ~pool.cl THEN {<<[call |-> "claim"]>>}
         ELSE {<<[call |-> "multicall", value |-> 0, calls |-> CleanupCalls(o.unwrap, o.burn)]>>
               : o \in {x \in [unwrap : BOOLEAN, burn : BOOLEAN] :
                          MayClaimFees(x.burn) /\ MayUnwrap(x.unwrap)}}

\* revokeTokenAllowance, revokePermit2Allowance: only what is still spendable
RevokePlans ==
  {Maybe(world.allow[p] # 0, [call |-> "approve", token |-> p[1], spender |-> p[2], amount |-> 0])
   : p \in {<<"t0", "router">>}}
  \cup {Maybe(world.allow[<<t, "permit2">>] > 0,
              [call |-> "approve", token |-> t, spender |-> "permit2", amount |-> 0])
          \o Maybe(world.permit[t].amount > 0,
                   [call |-> "permit", token |-> t, amount |-> 0, until |-> 0])
        : t \in {u \in Legs : ~Native(u)}}

PlansNow ==
  SwapPlans \cup BasketPlans \cup PullPlans \cup DepositPlans \cup RevokePlans
    \cup (IF world.pos.burnt THEN {}
          ELSE WithdrawPlans \cup StakePlans \cup UnstakePlans \cup ClaimPlans \cup IncreasePlans)

------------------------------------------------------------------------------
PlansInit ==
  /\ pool \in [cl : BOOLEAN, gauge : {"none", "alive", "dead"},
               legs : {l \in [Legs -> {"erc", "weth", "native"}] :
                         \E t \in Legs : l[t] = "erc"}]
  /\ \E n \in {0, MaxAmount}, until \in 0..(Buffer + 1), p \in Position :
       /\ p.lentTo = "nobody" /\ ~p.burnt /\ p.liquidity + p.staked <= MaxAmount
       /\ p.owed => pool.cl
       /\ p.staked > 0 => pool.gauge # "none" /\ (pool.cl => p.liquidity = 0)
       /\ world = [allow  |-> [pair \in Pairs |-> n],
                   permit |-> [t \in Legs |-> [amount |-> MaxAmount, expires |-> until]],
                   pos    |-> p, held |-> {}]
  /\ plan = <<>> /\ builtAt = 0 /\ planClock = 0 /\ plans = 0

Build ==
  /\ plan = <<>> /\ plans < MaxPlans
  /\ \E p \in PlansNow : plan' = p
  /\ builtAt' = planClock /\ plans' = plans + 1
  /\ UNCHANGED <<pool, world, planClock>>

\* The wallet sends the next transaction; one that would revert fails its simulation.
SendNextTx ==
  /\ plan # <<>>
  /\ \E used \in Uses(Head(plan)) : Runs(Head(plan), used) /\ world' = After(Head(plan), used)
  /\ plan' = Tail(plan)
  /\ UNCHANGED <<pool, builtAt, planClock, plans>>

Abandon == plan # <<>> /\ plan' = <<>> /\ UNCHANGED <<pool, world, builtAt, planClock, plans>>

PlanTick == /\ planClock < MaxTime /\ plan # <<>> /\ planClock' = planClock + 1
            /\ UNCHANGED <<pool, world, plan, builtAt, plans>>

PlansNext == Build \/ SendNextTx \/ Abandon \/ PlanTick
PlansSpec == PlansInit /\ [][PlansNext]_planVars

------------------------------------------------------------------------------
PlansTypeOK ==
  /\ world.allow \in [Pairs -> 0..MaxAmount]
  /\ world.permit \in [Legs -> [amount : 0..MaxAmount, expires : 0..(MaxTime + ApprovalTime)]]
  /\ world.pos \in Position /\ world.held \subseteq Legs \cup {"native"}

\* Whatever was approved, permitted, staked or left over by plans given up half way: as long as
\* the permits it relied on must last (transactions.ts:35), the next transaction of a plan finds
\* the allowances, permits, value and position it needs, whatever the pool takes of an offer.
PlanRuns ==
  plan # <<>> /\ planClock <= builtAt + Buffer =>
    \A used \in Uses(Head(plan)) : Runs(Head(plan), used)

\* What is collected to the position manager to be unwrapped (transactions.ts:357), and what a
\* mint or an increase leaves of the value sent with it (transactions.ts:350, alm/engine.ts:697),
\* is all paid out in the same transaction: what stays there belongs to whoever asks first.
NothingStranded == world.held = {}
=============================================================================
