------------------------------- MODULE VeNfts -------------------------------
(***************************************************************************)
(* packages/sugar/src/venfts.ts: the rewards of a veNFT are read page by   *)
(* page, while pools go on being incentivised, and claimed by at most two  *)
(* transactions that name the contracts and, for each, the tokens.  The    *)
(* chain's part (RewardsSugar, Voter) is external.                         *)
(***************************************************************************)
EXTENDS Integers, Sequences, FiniteSets, SequencesExt

CONSTANTS
  RewardContracts,    \* fee and incentive voting rewards of the pools
  ZeroContract,       \* ADDRESS_ZERO
  RewardTokens,
  PageLimit,          \* MAX_REWARDS
  PageCeiling,        \* 10000
  RewardAmounts,
  MaxRewardRows, MaxClaims   \* bounds

ASSUME VeNftsAssumption ==
  /\ ZeroContract \notin RewardContracts /\ PageLimit \in Nat \ {0}
  /\ {PageCeiling, MaxRewardRows, MaxClaims} \subseteq Nat /\ RewardAmounts \subseteq Nat

VARIABLES
  rewardRows,   \* of the veNFT, in RewardsSugar's order
  claim,        \* the claim under way: offset, rows read, transactions left
  claims        \* claims begun

veVars == <<rewardRows, claim, claims>>
NoClaim == [at |-> "none", offset |-> 0, read |-> <<>>, seen |-> {}, txs |-> <<>>]
Reward(fee, incentive, token, amount) ==
  [fee |-> fee, incentive |-> incentive, token |-> token, amount |-> amount]

VeNftsTypeOK ==
  /\ Len(rewardRows) <= MaxRewardRows /\ claims \in 0..MaxClaims
  /\ \A i \in DOMAIN rewardRows : rewardRows[i].amount \in Nat
  /\ claim.at \in {"none", "paging", "claiming", "failed"} /\ Len(claim.txs) <= 2

VeNftsInit == rewardRows = <<>> /\ claim = NoClaim /\ claims = 0

(* Rows of the chain: a pool's fees, or what incentivizePool left; the     *)
(* latter needs a contract to leave it with.                               *)
AddReward(fee, incentive, token, amount) ==
  /\ Len(rewardRows) < MaxRewardRows
  /\ rewardRows' = Append(rewardRows, Reward(fee, incentive, token, amount))
  /\ UNCHANGED <<claim, claims>>
CollectFees == \E c \in RewardContracts, t \in RewardTokens, amount \in RewardAmounts :
                 AddReward(c, ZeroContract, t, amount)
IncentivizePool == \E c \in RewardContracts, t \in RewardTokens, amount \in RewardAmounts \ {0} :
                     AddReward(ZeroContract, c, t, amount)

BeginClaim ==
  /\ claim.at \in {"none", "failed"} /\ claims < MaxClaims
  /\ claims' = claims + 1
  /\ claim' = [NoClaim EXCEPT !.at = "paging", !.seen = DOMAIN rewardRows]
  /\ UNCHANGED rewardRows

(* claimVeNftRewards: contracts in the order met, with the tokens met for  *)
(* each; zero amounts and the zero contract are left out.                  *)
Claimable(rows) == SelectSeq(rows, LAMBDA row : row.amount > 0)
TokensLast(rows, side, c) == {Last(SelectSeq(rows, LAMBDA row : row[side] = c)).token}
RewardTokensOf(rows, side, c) == {rows[i].token : i \in {j \in DOMAIN rows : rows[j][side] = c}}
Group(rows, side) ==
  LET contracts == {rows[i][side] : i \in DOMAIN rows} \ {ZeroContract}
  IN [c \in contracts |-> RewardTokensOf(rows, side, c)]
ClaimTxs(rows) ==
  LET Call(side) == [side |-> side, group |-> Group(Claimable(rows), side)]
  IN SelectSeq(<<Call("incentive"), Call("fee")>>, LAMBDA tx : DOMAIN tx.group # {})

(* getVeNftRewards: pages until one is not full, or the ceiling.           *)
Page(offset) ==
  SubSeq(rewardRows, offset + 1, IF offset + PageLimit > Len(rewardRows) THEN Len(rewardRows) ELSE offset + PageLimit)
OnlyPage(page) == TRUE
LastPage(page) == Len(page) < PageLimit
ReadPage ==
  LET page == Page(claim.offset)
      read == claim.read \o page
  IN
  /\ claim.at = "paging"
  /\ claim' = IF LastPage(page)
              THEN [claim EXCEPT !.at = "claiming", !.read = read, !.txs = ClaimTxs(read)]
              ELSE IF claim.offset + PageLimit < PageCeiling
              THEN [claim EXCEPT !.read = read, !.offset = @ + PageLimit]
              ELSE [claim EXCEPT !.at = "failed"]
  /\ UNCHANGED <<rewardRows, claims>>

(* Voter.claimBribes and claimFees pay what is there for the tokens named. *)
PaidBy(tx, row) == row[tx.side] \in DOMAIN tx.group /\ row.token \in tx.group[row[tx.side]]
SendClaim ==
  /\ claim.at = "claiming" /\ claim.txs # <<>>
  /\ rewardRows' = [i \in DOMAIN rewardRows |->
       IF PaidBy(Head(claim.txs), rewardRows[i]) THEN [rewardRows[i] EXCEPT !.amount = 0] ELSE rewardRows[i]]
  /\ claim' = [claim EXCEPT !.txs = Tail(@)]
  /\ UNCHANGED claims
EndClaim ==
  /\ claim.at = "claiming" /\ claim.txs = <<>>
  /\ claim' = NoClaim
  /\ UNCHANGED <<rewardRows, claims>>

VeNftsNext == CollectFees \/ IncentivizePool \/ BeginClaim \/ ReadPage \/ SendClaim \/ EndClaim
VeNftsSpec == VeNftsInit /\ [][VeNftsNext]_veVars

(* A claim whose transactions all ran leaves nothing of what the veNFT had *)
(* when the claim began, on whatever page, contract or token, though rows  *)
(* were added meanwhile.                                                   *)
RewardsAreClaimed ==
  (claim.at = "claiming" /\ claim.txs = <<>>) => \A i \in claim.seen : rewardRows[i].amount = 0
=============================================================================
