----------------------------- MODULE StockIndex -----------------------------
(***************************************************************************)
(* Indices of tokenized stocks (packages/sugar/src/stocks, the editor of   *)
(* tui/screens/indices.tsx and cli/stock-commands.ts): target weights in   *)
(* files, edited on a screen or by commands of other processes, and the    *)
(* basket of trades that moves the holdings of a wallet toward them.       *)
(***************************************************************************)
EXTENDS Integers, FiniteSets, FiniteSetsExt

CONSTANTS
  Stocks, Names, NoIndex, NoPlan,
  Whole,          \* 100% (10000 basis points)
  Nudge,          \* what an arrow key adds or takes (1%)
  Prices,         \* USDC a unit of a stock is quoted at
  Slippages,      \* tolerances, of SlippageUnit
  SlippageUnit,
  MaxHeld, MaxCash,   \* bounds: units of a stock, USDC
  MaxEdits            \* bound: keys and commands

ASSUME IndexAssumption ==
  /\ IsFiniteSet(Stocks) /\ Prices \subseteq Nat /\ {MaxHeld, MaxCash} \subseteq Nat
  /\ Whole \in Nat \ {0} /\ Nudge \in 0..Whole
  /\ SlippageUnit \in Nat \ {0} /\ Slippages \subseteq 0..SlippageUnit

VARIABLES
  indices,        \* per name: the saved weights
  editor,         \* the index being edited
  edits,          \* keys and commands taken
  held,           \* per stock: units in the wallet
  cash,           \* USDC in the wallet
  basket,         \* the plan that is reviewed
  spare           \* USDC that was not contributed to it

indexVars == <<indices, editor, edits, held, cash, basket, spare>>

Weights == UNION {[S -> 0..Whole] : S \in SUBSET Stocks}
NoWeights == [s \in {} |-> 0]
SumOf(f, S) == MapThenSumSet(LAMBDA s : f[s], S)
TotalWeight(w) == SumOf(w, DOMAIN w)
NoEditor == [open |-> FALSE, name |-> NoIndex, weights |-> NoWeights, original |-> NoWeights]

IndexTypeOK ==
  /\ \A n \in Names : indices[n] = NoIndex \/ (indices[n].of \in Weights /\ TotalWeight(indices[n].of) = Whole)
  /\ editor.weights \in Weights /\ (~editor.open => editor = NoEditor)
  /\ held \in [Stocks -> 0..MaxHeld] /\ cash \in Nat
  /\ basket # NoPlan => spare <= cash

IndexInit ==
  /\ indices = [n \in Names |-> NoIndex] /\ editor = NoEditor /\ edits = 0
  /\ held \in [Stocks -> 0..MaxHeld] /\ cash \in 0..MaxCash
  /\ basket = NoPlan /\ spare = 0

-----------------------------------------------------------------------------
(* Weights: what the editor does to them *)

WeightOf(w, s) == IF s \in DOMAIN w THEN w[s] ELSE 0
With(w, s, v) == [t \in DOMAIN w \cup {s} |-> IF t = s THEN v ELSE w[t]]
Clipped(v) == IF v < 0 THEN 0 ELSE IF v > Whole THEN Whole ELSE v

\* space, left and right, f
Toggled(w, s) == IF s \in DOMAIN w THEN [t \in DOMAIN w \ {s} |-> w[t]] ELSE With(w, s, Nudge)
Nudged(w, s, by) == With(w, s, Clipped(WeightOf(w, s) + by))
Filled(w, s) == With(w, s, Clipped(Whole - (TotalWeight(w) - WeightOf(w, s))))

\* equalWeights: the remainder goes one by one to the first; the order is that
\* of the map, any order here.
Included(w) == {s \in DOMAIN w : w[s] > 0}
IsEqualSplit(w, e) ==
  LET n == Cardinality(Included(w)) IN
  /\ DOMAIN e = DOMAIN w
  /\ \A s \in DOMAIN w \ Included(w) : e[s] = w[s]
  /\ \E more \in kSubset(Whole % n, Included(w)) :
       \A s \in Included(w) : e[s] = Whole \div n + (IF s \in more THEN 1 ELSE 0)

\* indexAllocations: a stock the index had stays in it, at 0 to be sold.
Retained(w, original) == [s \in DOMAIN w \cup DOMAIN original |-> WeightOf(w, s)]

-----------------------------------------------------------------------------
(* The editor, and the commands of the CLI *)

Key == edits < MaxEdits /\ edits' = edits + 1

OpenEditor ==
  /\ Key /\ ~editor.open
  /\ \E n \in Names :
       LET was == IF indices[n] = NoIndex THEN NoWeights ELSE indices[n].of IN
       editor' = [open |-> TRUE, name |-> n, weights |-> was, original |-> was]
  /\ UNCHANGED <<indices, held, cash, basket, spare>>

EditWeight ==
  /\ Key /\ editor.open
  /\ \E s \in Stocks :
       \/ editor' = [editor EXCEPT !.weights = Toggled(@, s)]
       \/ \E by \in {Nudge, -Nudge} : editor' = [editor EXCEPT !.weights = Nudged(@, s, by)]
       \/ editor' = [editor EXCEPT !.weights = Filled(@, s)]
       \/ \E v \in 0..Whole : editor' = [editor EXCEPT !.weights = With(@, s, v)]
       \/ /\ Included(editor.weights) # {}
          /\ \E e \in [DOMAIN editor.weights -> 0..Whole] :
               IsEqualSplit(editor.weights, e) /\ editor' = [editor EXCEPT !.weights = e]
  /\ UNCHANGED <<indices, held, cash, basket, spare>>

\* saveIndex: only weights of 100% in all; a new index never replaces one, and
\* an update needs one to replace.
Saves(n, w, replace) ==
  /\ TotalWeight(w) = Whole /\ (replace <=> indices[n] # NoIndex)
  /\ indices' = [indices EXCEPT ![n] = [of |-> w]]

SaveEditor ==
  /\ Key /\ editor.open
  /\ Saves(editor.name, Retained(editor.weights, editor.original), editor.original # NoWeights)
  /\ editor' = NoEditor /\ UNCHANGED <<held, cash, basket, spare>>

CloseEditor ==
  /\ editor.open /\ editor' = NoEditor
  /\ UNCHANGED <<indices, edits, held, cash, basket, spare>>

IndexCommand ==
  /\ Key
  /\ \E n \in Names :
       \/ \E w \in Weights, replace \in BOOLEAN : Saves(n, w, replace)
       \/ indices[n] # NoIndex /\ indices' = [indices EXCEPT ![n] = NoIndex]
  /\ UNCHANGED <<editor, held, cash, basket, spare>>

-----------------------------------------------------------------------------
(* rebalanceIndex, and the trades of one stock *)

\* applySlippage: the least a sale may yield, rounded up.
AtLeast(out, slippage) ==
  (out * (SlippageUnit - slippage) + SlippageUnit - 1) \div SlippageUnit

\* Faulty variant: a sale is counted on for what it is quoted at.
Quoted(out, slippage) == out

\* What the budget of the buys counts of a sale.
CountedOn(out, slippage) == AtLeast(out, slippage)

\* Holdings above their target are sold down to it; what they bring at the
\* least, with the contribution, is shared by what is below its target.
Rebalanced(w, price, contribution, slippage) ==
  LET S == DOMAIN w
      value == [s \in S |-> held[s] * price[s]]
      total == contribution + SumOf(value, S)
      target == [s \in S |-> (total * w[s]) \div Whole]
      sold == [s \in S |-> IF value[s] > target[s]
                           THEN (held[s] * (value[s] - target[s])) \div value[s] ELSE 0]
      counted == [s \in S |-> CountedOn(sold[s] * price[s], slippage)]
      budget == contribution + SumOf(counted, S)
      deficit == [s \in S |-> IF target[s] > value[s] THEN target[s] - value[s] ELSE 0]
      needed == SumOf(deficit, S)
      spend == IF budget < needed THEN budget ELSE needed
  IN [sells |-> [s \in S |-> [amount |-> sold[s], quote |-> sold[s] * price[s],
                              least |-> AtLeast(sold[s] * price[s], slippage)]],
      buys |-> [s \in S |-> IF needed = 0 THEN 0 ELSE (spend * deficit[s]) \div needed],
      contribution |-> contribution, total |-> total]

PlanRebalance ==
  /\ basket = NoPlan
  /\ \E n \in Names, price \in [Stocks -> Prices], slippage \in Slippages,
        contribution \in 0..cash :
       /\ indices[n] # NoIndex
       /\ LET plan == Rebalanced(indices[n].of, price, contribution, slippage) IN
          plan.total > 0 /\ basket' = plan
       /\ spare' = cash - contribution
  /\ UNCHANGED <<indices, editor, edits, held, cash>>

\* A stock is bought for cash the wallet has, or units it has are sold.
TradeStock ==
  /\ basket = NoPlan
  /\ \E s \in Stocks, price \in Prices, slippage \in Slippages :
       \/ \E units \in 1..held[s] :
            /\ basket' = [sells |-> [t \in {s} |-> [amount |-> units, quote |-> units * price,
                                      least |-> AtLeast(units * price, slippage)]],
                          buys |-> [t \in {s} |-> 0], contribution |-> 0, total |-> 0]
            /\ spare' = cash
       \/ \E spend \in 1..cash :
            /\ basket' = [sells |-> [t \in {s} |-> [amount |-> 0, quote |-> 0, least |-> 0]],
                          buys |-> [t \in {s} |-> spend], contribution |-> spend, total |-> 0]
            /\ spare' = cash - spend
  /\ UNCHANGED <<indices, editor, edits, held, cash>>

\* swapBasketFromQuotes: one transaction, the sales before the buys.  A sale
\* yields anything from its least to its quote, or the whole is reverted.
RunBasket ==
  /\ basket # NoPlan
  /\ \E short \in BOOLEAN :
       LET S == DOMAIN basket.sells
           yields == [s \in S |-> IF short THEN basket.sells[s].least
                                          ELSE basket.sells[s].quote] IN
       /\ cash' = cash + SumOf(yields, S) - SumOf(basket.buys, S)
       /\ held' = [s \in Stocks |-> IF s \in S THEN held[s] - basket.sells[s].amount
                                               ELSE held[s]]
  /\ basket' = NoPlan /\ UNCHANGED <<indices, editor, edits, spare>>

DropBasket ==
  /\ basket # NoPlan /\ basket' = NoPlan /\ spare' = 0
  /\ UNCHANGED <<indices, editor, edits, held, cash>>

IndexNext ==
  \/ OpenEditor \/ EditWeight \/ SaveEditor \/ CloseEditor \/ IndexCommand
  \/ PlanRebalance \/ TradeStock \/ RunBasket \/ DropBasket

IndexSpec == IndexInit /\ [][IndexNext]_indexVars

-----------------------------------------------------------------------------
(* Whatever its sales yield above their least, a basket leaves the USDC that
   was not contributed to it: "other wallet USDC stays untouched"
   (action-schema.ts, index_rebalance). *)
SpareIsUntouched == cash >= spare

=============================================================================
