----------------------------- MODULE Scorecards -----------------------------
(***************************************************************************)
(* packages/sugar/src/tui/analytics: metrics.ts, dune.ts and llama.ts put  *)
(* what the sources returned into weeks and scores.  Sources send points   *)
(* and rows out of order, outside the window, with parts missing and with  *)
(* four ways of telling the week.  A week is WeekLen units of time.        *)
(***************************************************************************)
EXTENDS Integers, Sequences, FiniteSets, SequencesExt

CONSTANTS
  WeekLen,           \* 604800
  Weeks,             \* 16: weeks shown, ending with the one of Now
  Now,
  Points,            \* <<time, amount>> DefiLlama may send
  RowWeeks,          \* weeks Dune rows may be about
  Fields,            \* of a row
  GenesisWeek,       \* of AERO_GENESIS
  EpochTop,          \* 2000: above it a number is a week's, not an epoch's
  WeekTop,           \* 1e9: above it a number is seconds
  SecondTop, Milli,  \* 1e12 and 1000: above it a number is milliseconds
  PoolKinds,         \* pools with the scores of their epoch
  VoteFloor, Top,    \* 100 and 12, of the voters' table
  MaxPoints, MaxRows, MaxScored   \* bounds

ASSUME ScorecardsAssumption ==
  /\ {WeekLen, Weeks, Milli, Top} \subseteq Nat \ {0}
  /\ {Now, GenesisWeek, EpochTop, WeekTop, SecondTop, VoteFloor, MaxPoints, MaxRows, MaxScored} \subseteq Nat
  /\ \A w \in RowWeeks : \* the encodings are told apart by size
       /\ w - GenesisWeek <= EpochTop /\ w > EpochTop /\ w <= WeekTop
       /\ w * WeekLen > WeekTop /\ (w + 1) * WeekLen <= SecondTop /\ w * WeekLen * Milli > SecondTop

VARIABLES
  points,     \* of a DefiLlama chart, in the order they came
  duneRows,   \* rows of Dune's answers, in order: overview, economics, weekly
  scoredPools \* pools of the chain, with their epochs

scoreVars == <<points, duneRows, scoredPools>>
Missing == -1
Encodings == {"epoch", "week", "seconds", "millis", "text", "none"}
FieldValues == [Fields -> {Missing, 0, 1}]

ScorecardsInit == points = <<>> /\ duneRows = <<>> /\ scoredPools = <<>>

SumOf(S, f(_)) == FoldLeft(LAMBDA acc, x : acc + f(x), 0, SetToSeq(S))

(***************************************************************************)
(* Weeks                                                                   *)
(***************************************************************************)
SameStart(ts) == ts
WeekStart(ts) == ts - (ts % WeekLen)
LastWeek == WeekStart(Now)
Window == {LastWeek - i * WeekLen : i \in 0..Weeks-1}

(* rollupWeekly, "sum" and "last": the latter takes the points by time,    *)
(* equal times in the order they came.                                     *)
Rollup(pts) ==
  LET Add(acc, p) == IF WeekStart(p[1]) \in Window THEN [acc EXCEPT ![WeekStart(p[1])] = @ + p[2]] ELSE acc
  IN FoldLeft(Add, [w \in Window |-> 0], pts)
ByTime(pts) == LET Earlier(i, j) == pts[i][1] < pts[j][1] \/ (pts[i][1] = pts[j][1] /\ i < j)
                   order == SetToSortSeq(DOMAIN pts, Earlier)
               IN [i \in DOMAIN order |-> pts[order[i]]]
LastOf(pts) ==
  LET Put(acc, p) == IF WeekStart(p[1]) \in Window THEN [acc EXCEPT ![WeekStart(p[1])] = p[2]] ELSE acc
  IN FoldLeft(Put, [w \in Window |-> 0], ByTime(pts))

(* assembleLlama: fees and tvl of the same weeks; the tvl of now falls back *)
(* on the last point that came.                                            *)
LlamaWeeks == [w \in Window |-> [fees |-> Rollup(points)[w], tvl |-> LastOf(points)[w]]]

(* Dune's rows tell their week by epoch, week, seconds, milliseconds or a   *)
(* date; EpochToTs tells the numbers apart by their size.                   *)
TimeOf(row) ==
  CASE row.enc = "epoch"   -> row.week - GenesisWeek
    [] row.enc = "week"    -> row.week
    [] row.enc = "seconds" -> row.week * WeekLen + row.late
    [] row.enc = "millis"  -> (row.week * WeekLen + row.late) * Milli + (Milli - 1)
    [] OTHER -> row.week * WeekLen + row.late
EpochToTs(value) ==
  CASE value > SecondTop -> value \div Milli
    [] value > WeekTop   -> value
    [] value > EpochTop  -> value * WeekLen
    [] OTHER -> (GenesisWeek + value) * WeekLen
RowTimestamp(row) ==
  IF row.enc = "none" THEN Missing
  ELSE IF row.enc = "text" THEN WeekStart(TimeOf(row)) ELSE WeekStart(EpochToTs(TimeOf(row)))

(* mergeRow: a row sets the fields it has.                                 *)
MergeRow(week, row) == [f \in Fields |-> IF row.has[f] # Missing THEN row.has[f] ELSE week[f]]
DuneWeeks ==
  LET Put(acc, row) == LET ts == RowTimestamp(row) IN
        IF ts \in Window THEN [acc EXCEPT ![ts] = MergeRow(@, row)] ELSE acc
  IN FoldLeft(Put, [w \in Window |-> [f \in Fields |-> 0]], duneRows)

(***************************************************************************)
(* Scores: buildOnchainAnalytics                                           *)
(***************************************************************************)
Lanes == {"btc", "eth-stable", "stables", "aero", "long-tail"}
ClassifyLane(a, b) ==
  CASE "btc" \in {a, b} -> "btc"
    [] "eth" \in {a, b} /\ "stable" \in {a, b} -> "eth-stable"
    [] {a, b} = {"stable"} -> "stables"
    [] "aero" \in {a, b} -> "aero"
    [] OTHER -> "long-tail"
TypeFamily(pool) == IF pool.cl THEN "slipstream" ELSE IF pool.stable THEN "stable" ELSE "volatile"
Scored == DOMAIN scoredPools
Tvl(i) == scoredPools[i].tvl
TypeTotals == [k \in {"slipstream", "stable", "volatile"} |->
                SumOf({i \in Scored : TypeFamily(scoredPools[i]) = k}, Tvl)]
LaneOf(i) == ClassifyLane(scoredPools[i].token0, scoredPools[i].token1)
LaneTotals == [k \in Lanes |-> SumOf({i \in Scored : LaneOf(i) = k}, Tvl)]

(* Revenue per vote is undefined without votes; the table of the best is   *)
(* sorted by it, equal ones in the order of the pools, and cut.            *)
Revenue(i) == scoredPools[i].fees + scoredPools[i].incentives
HasRpv(i) == scoredPools[i].votes > 0 /\ Revenue(i) > 0
MoreRevenue(i, j) == Revenue(i) > Revenue(j)
BetterRpv(i, j) == Revenue(i) * scoredPools[j].votes > Revenue(j) * scoredPools[i].votes
TopOf(seq) == IF Len(seq) > Top THEN SubSeq(seq, 1, Top) ELSE seq
RpvLeaders == TopOf(SetToSortSeq({i \in Scored : HasRpv(i)},
                LAMBDA i, j : BetterRpv(i, j) \/ (~BetterRpv(j, i) /\ i < j)))

(* parseRpvLeaders: voters of the latest epoch that any row tells, with    *)
(* enough votes; here rows of the pools stand for rows of voters.          *)
Voters == {i \in Scored : scoredPools[i].epoch # Missing}
LatestEpoch == IF Voters = {} THEN Missing
               ELSE CHOOSE e \in {scoredPools[i].epoch : i \in Voters} :
                      \A i \in Voters : scoredPools[i].epoch <= e
VoterLeaders == {i \in Voters : scoredPools[i].epoch = LatestEpoch /\ scoredPools[i].votes >= VoteFloor}

ScorecardsNext ==
  \/ /\ Len(points) < MaxPoints /\ duneRows = <<>> /\ scoredPools = <<>>
     /\ \E p \in Points : points' = Append(points, p)
     /\ UNCHANGED <<duneRows, scoredPools>>
  \/ /\ Len(duneRows) < MaxRows /\ points = <<>> /\ scoredPools = <<>>
     /\ \E w \in RowWeeks, enc \in Encodings, late \in 0..WeekLen-1, has \in FieldValues :
          /\ (enc \in {"epoch", "week"} => late = 0)
          /\ duneRows' = Append(duneRows, [week |-> w, enc |-> enc, late |-> late, has |-> has])
     /\ UNCHANGED <<points, scoredPools>>
  \/ /\ Len(scoredPools) < MaxScored /\ points = <<>> /\ duneRows = <<>>
     /\ \E pool \in PoolKinds : scoredPools' = Append(scoredPools, pool)
     /\ UNCHANGED <<points, duneRows>>

(***************************************************************************)
(* Properties                                                              *)
(***************************************************************************)

(* Every point in the window counts once, in its own week; the tvl of a    *)
(* week is that of its latest point; and whatever the encoding, a field of *)
(* a week is what the last row about that week said of it.                 *)
InWeek(w) == {i \in DOMAIN points : w <= points[i][1] /\ points[i][1] < w + WeekLen}
RowsOf(w, f) == {i \in DOMAIN duneRows :
  duneRows[i].enc # "none" /\ duneRows[i].week * WeekLen = w /\ duneRows[i].has[f] # Missing}
WeeksAddUp ==
  /\ Cardinality(Window) = Weeks /\ \A w \in Window : w <= Now /\ w > Now - Weeks * WeekLen
  /\ \A w \in Window : LlamaWeeks[w].fees = SumOf(InWeek(w), LAMBDA i : points[i][2])
  /\ \A w \in Window : InWeek(w) # {} =>
       \E i \in InWeek(w) : /\ LlamaWeeks[w].tvl = points[i][2]
                            /\ \A j \in InWeek(w) : points[j][1] <= points[i][1]
  /\ \A w \in Window, f \in Fields :
       DuneWeeks[w][f] = IF RowsOf(w, f) = {} THEN 0
                         ELSE duneRows[CHOOSE i \in RowsOf(w, f) : \A j \in RowsOf(w, f) : j <= i].has[f]

(* The shares of a chain's value by kind of pool and by kind of asset each *)
(* add up to all of it; no pool left out of the table of the best beats    *)
(* one in it; and nobody is listed with votes of an earlier epoch.         *)
Listed == {RpvLeaders[i] : i \in DOMAIN RpvLeaders}
SharesAddUp ==
  /\ SumOf(DOMAIN TypeTotals, LAMBDA k : TypeTotals[k]) = SumOf(Scored, Tvl)
  /\ SumOf(Lanes, LAMBDA k : LaneTotals[k]) = SumOf(Scored, Tvl)
  /\ \A i \in Scored \ Listed, j \in Listed :
       HasRpv(i) => Revenue(i) * scoredPools[j].votes <= Revenue(j) * scoredPools[i].votes
  /\ Cardinality(Listed) = Len(RpvLeaders)
  /\ \A i \in VoterLeaders, j \in Voters : scoredPools[j].epoch <= scoredPools[i].epoch
=============================================================================
