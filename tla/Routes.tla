------------------------------- MODULE Routes -------------------------------
(***************************************************************************)
(* Routes and quotes of the liquidity tool (packages/sugar: helpers.ts     *)
(* findAllPaths, quotes.ts, planner.ts, superswap.ts): the search for      *)
(* paths through the pools, the choice among the quotes of the paths, and  *)
(* the commands that the swap contract carries out along the chosen path,  *)
(* on one chain or across two.                                             *)
(*                                                                         *)
(* Each function is one call: an action picks an input and keeps it with   *)
(* what the function makes of it.  The swap contract is external: the      *)
(* commands move the funds of a swap from holder to holder.                *)
(***************************************************************************)
EXTENDS Integers, FiniteSets, SequencesExt

CONSTANTS
  Pools,      \* the pools of the chain: [id, t0, t1]
  From, To,   \* the token contracts to swap
  Listed,     \* connectorTokenAddresses, of which a test uses any part
  MaxPaths,   \* values of quoteMaxPaths to try
  MaxHops,    \* longest route, 3 in quotes.ts:42
  VisitsPerPath, \* the search budget per path, 64 in helpers.ts:211
  MaxOut      \* amounts out

\* findAllPaths refuses a longer cutoff (helpers.ts:195).
ASSUME RoutesAssumption == MaxHops \in 1..3

VARIABLE job  \* the last call: [call, in, out]

routeVars == <<job>>
NoJob == [call |-> "none"]

------------------------------------------------------------------------------
(***************************************************************************)
(* Path search                                                             *)
(***************************************************************************)

TokensOf(p) == {p.t0, p.t1}

\* the hop from token t through pool p; a pool that lists t twice is not in the catalog
NextToken(p, t) == IF p.t1 = t THEN p.t0 ELSE p.t1
Hop(p, t) == [pool |-> p, reversed |-> p.t1 = t]
HopInput(h) == IF h.reversed THEN h.pool.t1 ELSE h.pool.t0
HopOutput(h) == IF h.reversed THEN h.pool.t0 ELSE h.pool.t1

\* filterPoolsForSwap and getPathsForQuote: pools between swap tokens and vetted connectors
Vetted(in) == (in.connectors \ (in.excluded \ {From, To})) \cup {From, To}
AllPools(in) == in.pools
Eligible(in) == SelectSeq(in.pools, LAMBDA p : TokensOf(p) \subseteq Vetted(in))

\* visit of findAllPaths, as a fold over the pools that hold the current token; Deeper visits
\* what is behind them
VisitPools(Deeper(_, _, _, _, _), acc, current, path, seen, in) ==
  IF Len(path) >= in.depth THEN acc
  ELSE FoldLeft(
    LAMBDA a, p :
      IF a.stop \/ current \notin TokensOf(p) THEN a
      ELSE IF Len(a.found) >= in.maxPaths \/ a.visits >= in.budget
        THEN [a EXCEPT !.stop = TRUE, !.visits = IF Len(a.found) >= in.maxPaths THEN @ ELSE @ + 1]
      ELSE LET b    == [a EXCEPT !.visits = @ + 1]
               next == NextToken(p, current)
               long == Append(path, Hop(p, current))
           IN IF next \in seen THEN b
              ELSE IF next = To
                THEN IF Len(long) = in.depth THEN [b EXCEPT !.found = Append(@, long)] ELSE b
              ELSE IF Len(long) < in.depth
                THEN [Deeper(b, next, long, seen \cup {next}, in) EXCEPT !.stop = FALSE]
                ELSE b,
    acc, in.pools)

\* The third hop is the last.
VisitNone(acc, current, path, seen, in) == acc
VisitThird(acc, current, path, seen, in) == VisitPools(VisitNone, acc, current, path, seen, in)
VisitSecond(acc, current, path, seen, in) == VisitPools(VisitThird, acc, current, path, seen, in)
Visit(acc, current, path, seen, in) == VisitPools(VisitSecond, acc, current, path, seen, in)

FromStart(in, acc, depth) ==
  [Visit(acc, From, <<>>, {From},
         [pools |-> Eligible(in), depth |-> depth, maxPaths |-> in.maxPaths,
          budget |-> in.maxPaths * VisitsPerPath])
   EXCEPT !.stop = FALSE]

\* findAllPaths: by length, while the limit of paths and the budget of visits last
FindAllPaths(in) ==
  FoldLeft(LAMBDA acc, depth :
             IF Len(acc.found) < in.maxPaths /\ acc.visits < in.maxPaths * VisitsPerPath
               THEN FromStart(in, acc, depth) ELSE acc,
           [found |-> <<>>, visits |-> 0, stop |-> FALSE],
           [i \in 1..MaxHops |-> i])

AskForPaths ==
  /\ job = NoJob
  /\ \E pools \in SUBSET Pools, connectors \in SUBSET Listed,
        excluded \in SUBSET Listed, n \in MaxPaths :
       LET in == [pools |-> SetToSeq(pools), connectors |-> connectors, excluded |-> excluded,
                  maxPaths |-> n]
       IN job' = [call |-> "paths", in |-> in, out |-> FindAllPaths(in)]

\* A route enters with From, leaves with To, hands each token on and meets none twice.
\* (a token between them that is not a vetted connector may refuse to be moved on)
IsRoute(path, in) ==
  LET tokens == <<HopInput(path[1])>> \o [i \in DOMAIN path |-> HopOutput(path[i])]
  IN /\ tokens[1] = From /\ Last(tokens) = To
     /\ \A i \in DOMAIN path : HopInput(path[i]) = tokens[i]
     /\ IsInjective(tokens)
     /\ \A i \in 2..Len(path) : tokens[i] \in in.connectors /\ tokens[i] \notin in.excluded

AllRoutes(in) ==
  LET hops == {[pool |-> p, reversed |-> r] : p \in ToSet(in.pools), r \in BOOLEAN}
  IN {path \in UNION {[1..n -> hops] : n \in 1..MaxHops} : IsRoute(path, in)}

------------------------------------------------------------------------------
(***************************************************************************)
(* Quotes                                                                  *)
(***************************************************************************)

\* What the quoter answers for a path: in a multicall batch, where a failed batch, a failed call
\* and an answer that cannot be read come to the same, and directly; and what the oracle says the
\* amount is worth, 0 when it says nothing: each time it is read.
Answers == {"ok", "revert", "unclear"}
FairOutputs == 0..(MaxOut \div 2)
QuoteInputs ==
  [paths : {<<a, b>> : a, b \in [hops : 1..2, out : 1..MaxOut, batch : Answers,
                                 direct : {"ok", "failed"}]},
   listed : BOOLEAN,  \* both tokens are
   filterFair : FairOutputs, quoteFair : FairOutputs, shownFair : FairOutputs]

\* every path but those the quoter rejected is asked again directly when its batch did not say
AskDirect(p) == p.batch = "unclear"
HasQuote(p) == p.batch = "ok" \/ (AskDirect(p) /\ p.direct = "ok")

\* applySlippage of a quarter: rounded up
ApplySlippage(n) == (3 * n + 3) \div 4

\* tooGoodToBeTrueFilter: more than twice its worth is bait; getQuote asks the same of the oracle
TooGood(in, out) ==
  in.listed /\ \E fair \in {in.filterFair, in.quoteFair} : fair > 0 /\ out >= 2 * fair

\* getQuote: the shortest route whose output is within the slippage of the best
BelowCeiling(in) == SelectSeq(in.paths, LAMBDA p : HasQuote(p) /\ ~TooGood(in, p.out))
\* Faulty variant: a longer route for a better output.
BetterOutput(safest, p) == p.out > safest.out \/ p.hops < safest.hops
Better(safest, p) == \/ p.hops < safest.hops
                     \/ p.hops = safest.hops /\ p.out > safest.out
NoQuote == [hops |-> 0]
GetQuote(in) ==
  LET valid == BelowCeiling(in)
      best  == FoldLeft(LAMBDA n, p : IF p.out > n THEN p.out ELSE n, 0, valid)
  IN FoldLeft(LAMBDA safest, p :
                IF p.out < ApplySlippage(best) THEN safest
                ELSE IF safest = NoQuote \/ Better(safest, p) THEN p ELSE safest,
              NoQuote, valid)

\* quoteJson: what the swap costs against the oracle; no price, no impact, and still a quote
Impact(in, quote) == IF in.shownFair = 0 \/ quote = NoQuote THEN <<>>
                     ELSE <<in.shownFair - quote.out>>

\* resolveSwapQuote, and the quote as it is shown
AskForQuote ==
  /\ job = NoJob
  /\ \E in \in QuoteInputs :
       LET quote == GetQuote(in) IN
       job' = [call |-> "quote", in |-> in, out |-> quote, impact |-> Impact(in, quote)]

------------------------------------------------------------------------------
(***************************************************************************)
(* The commands of a swap                                                  *)
(*                                                                         *)
(* The token before hop i is i - 1; hop i goes through pool i.  Funds are  *)
(* pairs <<holder, token>>: where all of the amount is.                    *)
(***************************************************************************)

\* groupPath: where a run of pools of one kind begins and ends
Starts(cl) == {i \in DOMAIN cl : i = 1 \/ cl[i] # cl[i - 1]}
EndOf(cl, i) == CHOOSE k \in i..Len(cl) :
                  (k = Len(cl) \/ cl[k + 1] # cl[i]) /\ \A m \in i..k : cl[m] = cl[i]
Groups(cl) == LET s == SetToSortSeq(Starts(cl), <)
              IN [g \in DOMAIN s |-> [first |-> s[g], last |-> EndOf(cl, s[g]), v3 |-> cl[s[g]]]]

\* setupPlanner: a basic pool pays to the swap contract, a concentrated one to the pool after it
Recipient(groups, g) == IF groups[g].v3 THEN <<"pool", groups[g + 1].first>> ELSE "router"

SwapCommands(q, account) ==
  LET groups == Groups(q.cl)
      final  == IF q.toNative THEN "router" ELSE account
  IN [g \in DOMAIN groups |->
       [command |-> "swap", first |-> groups[g].first, last |-> groups[g].last, v3 |-> groups[g].v3,
        recipient |-> IF g = Len(groups) THEN final ELSE Recipient(groups, g),
        amount |-> IF g = 1 THEN "input" ELSE IF groups[g].v3 THEN "balance" ELSE "zero",
        payerIsUser |-> g = 1 /\ ~q.fromNative /\ q.exact]]

SetupPlanner(q, account) ==
  (IF q.fromNative THEN <<[command |-> "wrap"]>> ELSE <<>>)
    \o SwapCommands(q, account)
    \o (IF q.toNative THEN <<[command |-> "unwrap", to |-> account, token |-> Len(q.cl)]>> ELSE <<>>)

\* The swap contract
Move(acc, source, target) == [ok |-> acc.ok /\ source \in acc.funds,
                              funds |-> (acc.funds \ {source}) \cup {target}]

SourceOf(c) == IF c.payerIsUser THEN <<"user", c.first - 1>>
               ELSE IF c.amount = "zero" /\ ~c.v3 THEN << <<"pool", c.first>>, c.first - 1>>
               ELSE <<"router", c.first - 1>>

Run(acc, c) ==
  CASE c.command = "wrap"   -> Move(acc, <<"user", "native">>, <<"router", 0>>)
    [] c.command = "swap"   -> Move(acc, SourceOf(c), <<c.recipient, c.last>>)
    [] c.command = "unwrap" -> Move(acc, <<"router", c.token>>, <<c.to, "native">>)

RunAll(funds, commands) == FoldLeft(Run, [ok |-> TRUE, funds |-> funds], commands)

SwapQuotes == [cl : UNION {[1..n -> BOOLEAN] : n \in 1..MaxHops},
               fromNative : BOOLEAN, toNative : BOOLEAN, exact : {TRUE}]

StartOf(q) == IF q.fromNative THEN <<"user", "native">> ELSE <<"user", 0>>
EndToken(q) == IF q.toNative THEN "native" ELSE Len(q.cl)

SwapAlong == /\ job = NoJob
             /\ \E q \in SwapQuotes :
                  job' = [call |-> "swap", in |-> q,
                          out |-> RunAll({StartOf(q)}, SetupPlanner(q, "user"))]

------------------------------------------------------------------------------
(***************************************************************************)
(* Swaps across two chains: a swap to the bridge token, the bridge, and on *)
(* the other chain calls of the interchain account, which anyone may       *)
(* relay.  "bridged" is the bridge token on either chain.                  *)
(***************************************************************************)
Absent == [cl |-> <<>>]
Superquotes ==
  [origin : {Absent} \cup {q \in SwapQuotes : ~q.toNative /\ Len(q.cl) = 2},
   destination : {Absent} \cup {[q EXCEPT !.exact = FALSE] : q \in
                                 {s \in SwapQuotes : ~s.fromNative /\ Len(s.cl) = 2}},
   destinationFails : BOOLEAN]

\* buildSuperSwapData: to whom the bridge pays, and out of whose pocket
BridgeTo(s) == IF s.destination = Absent THEN "account" ELSE "ica"
StartsWithBridgeToken(s) == s.origin = Absent
OriginEnd(s) == IF s.origin = Absent THEN 0 ELSE Len(s.origin.cl)
Bridge(acc, s) ==
  Move(acc, <<IF StartsWithBridgeToken(s) THEN "user" ELSE "router", OriginEnd(s)>>,
       <<BridgeTo(s), "bridged">>)

\* swapFromQuote of Superswap: the output of the origin swap stays in the swap contract
OnOrigin(s) ==
  LET start == IF s.origin = Absent THEN <<"user", 0>> ELSE StartOf(s.origin)
  IN Bridge(RunAll({start}, IF s.origin = Absent THEN <<>> ELSE SetupPlanner(s.origin, "router")), s)

\* the two sub-plans, each of which may revert: the swap, and the refund of what is left
Swapped(acc, s) ==
  LET paid == Move(acc, <<"ica", "bridged">>, <<"router", 0>>)
      ran  == FoldLeft(Run, paid, SetupPlanner(s.destination, "account"))
  IN IF s.destinationFails \/ ~ran.ok THEN acc ELSE ran
\* Faulty variant: the account keeps it.
Unrefunded(acc) == acc
Refunded(acc) == IF <<"ica", "bridged">> \in acc.funds
                   THEN Move(acc, <<"ica", "bridged">>, <<"account", "bridged">>) ELSE acc

OnDestination(acc, s) == IF s.destination = Absent THEN acc ELSE Refunded(Swapped(acc, s))

SwapAcross ==
  /\ job = NoJob
  /\ \E s \in Superquotes :
       job' = [call |-> "across", in |-> s, out |-> OnDestination(OnOrigin(s), s)]

RoutesInit == job = NoJob
RoutesNext == AskForPaths \/ AskForQuote \/ SwapAlong \/ SwapAcross
RoutesSpec == RoutesInit /\ [][RoutesNext]_routeVars

------------------------------------------------------------------------------
\* The search of helpers.ts:188 finds routes only, the shorter before the longer, none twice, and
\* all there are unless it ran into its limits.
PathsAreRight ==
  job.call = "paths" =>
    LET found == job.out.found IN
    /\ Len(found) <= job.in.maxPaths
    /\ \A i \in DOMAIN found : IsRoute(found[i], job.in)
    /\ \A i, k \in DOMAIN found : i < k => found[i] # found[k] /\ Len(found[i]) <= Len(found[k])
    /\ \/ Len(found) = job.in.maxPaths
       \/ job.out.visits >= job.in.maxPaths * VisitsPerPath
       \/ ToSet(found) = AllRoutes(job.in)

\* quotes.ts:188 settles for less than the best output only for a shorter route, and never for
\* less than the slippage allows; an answer that any of the two ways of asking gave is considered.
\* A route that pays more than double what listed tokens are worth neither wins nor sets the mark
\* for the others (actions.ts:207), so the impact shown at the same prices is above -100%.
QuoteIsBest ==
  job.call = "quote" =>
    LET in    == job.in
        good  == {p \in ToSet(in.paths) :
                    /\ p.batch = "ok" \/ (p.batch # "revert" /\ p.direct = "ok")
                    /\ in.listed /\ in.filterFair > 0 => p.out < 2 * in.filterFair
                    /\ in.listed /\ in.quoteFair > 0 => p.out < 2 * in.quoteFair}
    IN /\ IF good = {} THEN job.out = NoQuote
          ELSE /\ job.out \in good
               /\ \A p \in good : /\ job.out.out >= ApplySlippage(p.out)
                                  /\ p.out > job.out.out => p.hops > job.out.hops
       /\ in.listed /\ in.shownFair \in {in.filterFair, in.quoteFair} =>
            \A i \in DOMAIN job.impact : job.impact[i] > -in.shownFair

\* Carried out in order, the commands of planner.ts:95 find what they spend where the one before
\* put it, and leave the output, and nothing else, with the account: never in the swap contract, a
\* pool or the interchain account.  Across chains that is the token asked for or, when the second
\* swap fails, the bridge token (planner.ts:203).
FundsArrive ==
  /\ job.call = "swap" => job.out = [ok |-> TRUE, funds |-> {<<"user", EndToken(job.in)>>}]
  /\ job.call = "across" =>
       LET s == job.in IN
       job.out = [ok |-> TRUE,
                  funds |-> {<<"account", IF s.destination = Absent \/ s.destinationFails
                                            THEN "bridged" ELSE EndToken(s.destination)>>}]
=============================================================================
