--------------------------- MODULE RangeStrategy ---------------------------
(***************************************************************************)
(* packages/sugar/src/alm/strategy.ts, the settings of alm/config.ts and   *)
(* the tick history of alm/chain.ts: where the liquidity manager moves a   *)
(* position to when the market tick leaves its interval, and the average   *)
(* tick that guards the move.  Two small machines: a position that follows *)
(* a market, pass after pass (the gates in between are in AlmCycle), and   *)
(* the samples that one daemon collects.                                   *)
(***************************************************************************)
EXTENDS Integers, Sequences, SequencesExt

CONSTANTS
  Spacing,      \* tick spacing of the pool
  MaxAbsTick,   \* MAX_ABS_TICK
  DefaultWidth, \* defaultWidthTicks of that spacing
  Markets,      \* ticks the market visits
  Rules,        \* configurations: [strategy, width, neighborhood, step, maxWidth], 0 for unset
  Ranges,       \* intervals that a position may have at first: [lower, upper]
  Window,       \* the TWAP window
  MaxGap,       \* longest gap between samples
  SampleTicks   \* ticks the samples see

ASSUME RangeAssumption ==
  /\ Markets \subseteq -MaxAbsTick..MaxAbsTick
  /\ Spacing \in Nat \ {0} /\ MaxAbsTick \in Nat /\ MaxAbsTick > Spacing /\ DefaultWidth \in Nat
  /\ \A r \in Rules : /\ {r.width, r.neighborhood, r.step, r.maxWidth} \subseteq Nat
                      /\ r.strategy \in {"original", "lazy-syncing", "lazy-ascending", "lazy-descending", "expand"}
  /\ Window \in Nat \ {0} /\ MaxGap \in Nat
  /\ \A r \in Ranges : /\ {r.lower, r.upper} \subseteq -MaxAbsTick..MaxAbsTick /\ r.lower < r.upper
                       /\ r.lower % Spacing = 0 /\ r.upper % Spacing = 0

VARIABLES
  rule,     \* the configuration
  range,    \* the interval of the position
  tick,     \* of the market
  firstMax, \* maxWidthTicks when the position came under management
  samples   \* the history, oldest first: [age, tick]

rangeVars == <<rule, range, tick, firstMax>>

MaxOf(a, b) == IF a > b THEN a ELSE b
Abs(n) == IF n < 0 THEN -n ELSE n
Width(r) == r.upper - r.lower

------------------------------------------------------------------------------
(* Settings *)

Or(value, default) == IF value = 0 THEN default ELSE value

\* defaultStrategySettings and strategySettingsFor: what is not configured comes from the width
\* that the position has now
Settings(r, width) ==
  LET w == Or(r.width, width) IN
  [strategy |-> r.strategy, width |-> w, neighborhood |-> r.neighborhood,
   step |-> Or(r.step, Spacing * MaxOf(1, (DefaultWidth + 5 * Spacing) \div (10 * Spacing))),
   maxWidth |-> Or(r.maxWidth, MaxOf(w * 2, DefaultWidth * 2))]

\* validateStrategySettings
Valid(s) == /\ s.width > 0 /\ s.width % Spacing = 0 /\ s.neighborhood * 2 < s.width
            /\ s.strategy = "expand" =>
                 s.step > 0 /\ s.step % Spacing = 0 /\ s.maxWidth >= s.width

------------------------------------------------------------------------------
(* Intervals *)

AlignDown(t) == (t \div Spacing) * Spacing
AlignUp(t) == -AlignDown(-t)

\* Faulty variant: an interval is cut at the end of the domain.
ClampCut(lower, upper) ==
  LET max == AlignDown(MaxAbsTick)
  IN [lower |-> MaxOf(lower, -max), upper |-> IF upper > max THEN max ELSE upper]

\* clampInterval, but for the error of an interval that collapses
Clamp(lower, upper) ==
  LET max == AlignDown(MaxAbsTick)
      l1  == IF upper > max THEN lower - (upper - max) ELSE lower
      u1  == IF upper > max THEN max ELSE upper
      u2  == IF l1 < -max THEN u1 + (-max - l1) ELSE u1
  IN [lower |-> IF l1 < -max THEN -max ELSE l1, upper |-> IF u2 > max THEN max ELSE u2]

\* centeredInterval: Math.round to the grid
Centered(t, width) ==
  LET lower == ((2 * t - width + Spacing) \div (2 * Spacing)) * Spacing
  IN Clamp(lower, lower + width)

Inside(t, r, n) == t >= r.lower + n /\ t < r.upper - n

\* the decisions: the interval to hold or to move to
Original(t, r, s) == IF Inside(t, r, s.neighborhood) THEN r ELSE Centered(t, s.width)

Lazy(t, r, s, up, down) ==
  IF t < r.lower /\ down THEN Clamp(AlignUp(t), AlignUp(t) + s.width)
  ELSE IF t >= r.upper /\ up THEN Clamp(AlignDown(t) - s.width, AlignDown(t)) ELSE r

\* the interval after k steps on both sides, and the first k that holds the tick or is too wide
Widened(r, s, k) == [lower |-> r.lower - k * s.step, upper |-> r.upper + k * s.step]
TooWide(r, s, k) == Width(Widened(r, s, k)) > s.maxWidth
Steps(t, r, s) == CHOOSE k \in 1..(s.maxWidth + 1) :
  /\ TooWide(r, s, k) \/ Inside(t, Widened(r, s, k), s.neighborhood)
  /\ \A i \in 1..(k - 1) : ~TooWide(r, s, i) /\ ~Inside(t, Widened(r, s, i), s.neighborhood)
Expand(t, r, s) ==
  IF Inside(t, r, s.neighborhood) THEN r
  ELSE LET k == Steps(t, r, s)
       IN IF TooWide(r, s, k) THEN Centered(t, s.width)
          ELSE Clamp(Widened(r, s, k).lower, Widened(r, s, k).upper)

\* decideRange: the new interval, or the one it has
Decide(t, r, s) ==
  CASE s.strategy = "original"        -> Original(t, r, s)
    [] s.strategy = "lazy-syncing"    -> Lazy(t, r, s, TRUE, TRUE)
    [] s.strategy = "lazy-ascending"  -> Lazy(t, r, s, TRUE, FALSE)
    [] s.strategy = "lazy-descending" -> Lazy(t, r, s, FALSE, TRUE)
    [] s.strategy = "expand"          -> Expand(t, r, s)

\* decideExpand does not look whether what it widens to is the interval it has, as the other
\* decisions do: at the ends of the domain it may be.
Repeats(t, r, s) == /\ s.strategy = "expand" /\ ~Inside(t, r, s.neighborhood)
                    /\ ~TooWide(r, s, Steps(t, r, s))

SettingsNow(r) == Settings(rule, Width(r))
DecideNow(r) == IF Valid(SettingsNow(r)) THEN Decide(tick, r, SettingsNow(r)) ELSE r
Rebalances(r) == Valid(SettingsNow(r)) /\ (DecideNow(r) # r \/ Repeats(tick, r, SettingsNow(r)))

------------------------------------------------------------------------------
RangeInit ==
  /\ rule \in Rules /\ range \in Ranges /\ tick \in Markets
  /\ firstMax = Settings(rule, Width(range)).maxWidth

Market == /\ tick' \in Markets
          /\ UNCHANGED <<rule, range, firstMax>>

\* A pass rebalances: the position is closed and opened again where the decision says.
Rebalance == /\ Rebalances(range)
             /\ range' = DecideNow(range)
             /\ UNCHANGED <<rule, tick, firstMax>>

RangeNext == Market \/ Rebalance

------------------------------------------------------------------------------
(* The tick history *)

\* pushTickSample: one sample per instant, none from the future, and as many as cover two windows
AfterClockStep(h, d) ==
  IF d < 0 THEN <<>>
  ELSE IF d = 0 /\ h # <<>> THEN Front(h)
  ELSE [i \in DOMAIN h |-> [h[i] EXCEPT !.age = @ + d]]
Pruned(h) ==
  LET old == {i \in DOMAIN h : h[i].age >= 2 * Window}
  IN IF old = {} THEN h
     ELSE SubSeq(h, CHOOSE i \in old : \A k \in old : k <= i, Len(h))

Push(t, d) == Pruned(Append(AfterClockStep(samples, d), [age |-> 0, tick |-> t]))

\* averageTick: of a history that covers the window without a gap
NextAge(h, i) == IF i = Len(h) THEN 0 ELSE h[i + 1].age
Weight(h, i) == MaxOf(0, (IF h[i].age > Window THEN Window ELSE h[i].age) - NextAge(h, i))
SpansWindow(h) == Len(h) >= 2 /\ Head(h).age >= Window
Covers(h) == /\ SpansWindow(h)
             /\ \A i \in DOMAIN h : NextAge(h, i) < Window => h[i].age - NextAge(h, i) <= MaxGap
Average(h) ==
  FoldLeft(LAMBDA sum, i : sum + h[i].tick * Weight(h, i), 0, [i \in DOMAIN h |-> i]) \div Window

HistoryInit == samples = <<>>

\* The daemon polls, late or early, and the clock of the machine may be set back.
Poll == \E t \in SampleTicks, d \in -1..(MaxGap + 1) : samples' = Push(t, d)

------------------------------------------------------------------------------
\* Wherever the market goes, the interval that strategy.ts:198 moves to is on the grid, within the
\* tick domain and as wide as configured, and holds the tick (or lies right beside it, for a lazy
\* strategy).
OnGrid(r) == /\ r.lower < r.upper /\ r.lower % Spacing = 0 /\ r.upper % Spacing = 0
             /\ r.lower >= -MaxAbsTick /\ r.upper <= MaxAbsTick
Beside(t, r) == \/ r.lower - t \in 0..(Spacing - 1) \/ t - r.upper \in 0..(Spacing - 1)
InDomain(t) == Abs(t) < AlignDown(MaxAbsTick) - Spacing

Follows(t, r, s) ==
  /\ OnGrid(r)
  /\ Width(r) <= MaxOf(s.width, s.maxWidth)
  /\ s.strategy # "expand" => Width(r) = s.width \/ Width(r) = 2 * AlignDown(MaxAbsTick)
  /\ InDomain(t) => \/ Inside(t, r, 0)
                    \/ s.strategy \notin {"original", "expand"} /\ Beside(t, r)

RangeFollows ==
  LET next == DecideNow(range) IN Rebalances(range) => Follows(tick, next, SettingsNow(range))

\* Another pass at the same tick moves the interval at most once more (strategy.ts:198), as long as
\* no interval comes to the ends of the domain: there the expanding strategy may go on closing an
\* interval and opening it again (strategy.ts:201).
FarFromEnds(t, s) == Abs(t) + MaxOf(s.width, s.maxWidth) + Spacing <= AlignDown(MaxAbsTick)

RangeSettles ==
  LET next == DecideNow(range) IN
  Rebalances(range) /\ FarFromEnds(tick, SettingsNow(range)) => ~Rebalances(DecideNow(next))

\* The expanding strategy goes back to its width once the interval is wider than the limit
\* (strategy.ts:19), so no interval is ever wider than the limit that it started under.
ExpandResets == Width(range) <= firstMax

\* chain.ts:54 gives an average only if every instant of the window has a sample that is not too
\* old for it, and then it is the average of those samples over the instants.
SampleAt(h, age) == CHOOSE i \in DOMAIN h : h[i].age >= age /\ NextAge(h, i) < age
AverageIsFair ==
  Covers(samples) =>
    /\ \A age \in 1..Window : \E i \in DOMAIN samples :
         samples[i].age >= age /\ samples[i].age - age < MaxGap /\ NextAge(samples, i) < age
    /\ Average(samples) =
         FoldLeft(LAMBDA sum, age : sum + samples[SampleAt(samples, age)].tick, 0,
                  [age \in 1..Window |-> age]) \div Window

------------------------------------------------------------------------------
\* One instance for TLC: a position of the expanding strategy whose widths are not
\* configured, in a market that moves near it.
OnlyExpand == [strategy : {"expand"}, width : {0}, neighborhood : {0}, step : {0}, maxWidth : {0}]
NarrowRanges == {r \in [lower : {-4, 0}, upper : {0, 4}] : r.lower < r.upper}
NearMarkets == -6..6

ExpandSpec ==
  /\ RangeInit /\ HistoryInit
  /\ [][RangeNext /\ UNCHANGED samples]_<<rangeVars, samples>>
=============================================================================
