----------------------------- MODULE SafeOwners -----------------------------
(***************************************************************************)
(* src/safe: proposals of a Safe, their on-chain approvals and their       *)
(* execution (transactions.ts), batches (batch.ts), modules, budgets and   *)
(* sponsorship (modules.ts, relay.ts).  A call reads the Safe at one block *)
(* and goes on at a later one: a proposal of a module takes its nonce      *)
(* then, an approval or execution is simulated then, and what is prepared  *)
(* lands later or never.  A sponsored operation, which the owners sign off *)
(* the chain, may change the Safe and leave its nonce.  The Safe's         *)
(* contract is external.  A hash is of calls and a nonce.                  *)
(***************************************************************************)
EXTENDS Integers, Sequences, FiniteSets, SequencesExt

CONSTANTS
  SafeAddresses,        \* owners, past and to be, in the order of their bytes
  Modules,          \* modules the toolkit knows
  AllowanceModule,  \* the one budgets need
  SponsorModule,    \* the one sponsored operations need
  Sentinel,         \* before the first owner and module
  MaxOwners,        \* 32
  MaxNonce, MaxProposed, MaxPrepared, MaxDrafts   \* bounds

ASSUME SafeOwnersAssumption ==
  /\ SafeAddresses \subseteq Nat \ {0} /\ Sentinel = 0 /\ {AllowanceModule, SponsorModule} \subseteq Modules
  /\ MaxOwners \in Nat \ {0} /\ {MaxNonce, MaxProposed, MaxPrepared, MaxDrafts} \subseteq Nat
  /\ Cardinality(SafeAddresses) >= 2

VARIABLES
  vault,      \* the Safe: owners and modules in the contract's order, threshold, nonce
  approvals,  \* approveHash of an address
  proposed,   \* transactions that were proposed
  drafts,     \* what calls made of the block they read, and go on with at a later one
  prepared,   \* operations prepared and not yet landed
  administered \* history: a sponsored operation changed the Safe at its nonce

safeVars == <<vault, approvals, proposed, drafts, prepared, administered>>

(***************************************************************************)
(* The contract (external)                                                 *)
(***************************************************************************)
IsSafe(owners, threshold) == IsInjective(owners) /\ threshold \in 1..Len(owners)

(* Before in a list that begins after the sentinel.                        *)
LinkedAfter(list, previous, item) ==
  \E i \in DOMAIN list : list[i] = item /\ previous = IF i = 1 THEN Sentinel ELSE list[i - 1]
Place(list, item) == CHOOSE i \in DOMAIN list : list[i] = item
Dropped(list, item) == RemoveAt(list, Place(list, item))
Swap(list, old, new) == [i \in DOMAIN list |-> IF list[i] = old THEN new ELSE list[i]]

(* A call of the Safe on itself: the Safe after it, or the Safe as it was. *)
Able(v, call) ==
  CASE call.do = "add"     -> call.owner \notin Range(v.owners) /\ call.threshold \in 1..Len(v.owners)+1
    [] call.do = "remove"  -> LinkedAfter(v.owners, call.previous, call.owner) /\ call.threshold \in 1..Len(v.owners)-1
    [] call.do = "swap"    -> LinkedAfter(v.owners, call.previous, call.owner) /\ call.new \notin Range(v.owners)
    [] call.do = "threshold" -> call.threshold \in 1..Len(v.owners)
    [] call.do = "enable"  -> call.module \notin Range(v.modules)
    [] call.do = "disable" -> LinkedAfter(v.modules, call.previous, call.module)
    [] OTHER -> TRUE
Ran(v, call) ==
  CASE call.do = "add"     -> [v EXCEPT !.owners = <<call.owner>> \o @, !.threshold = call.threshold]
    [] call.do = "remove"  -> [v EXCEPT !.owners = Dropped(@, call.owner), !.threshold = call.threshold]
    [] call.do = "swap"    -> [v EXCEPT !.owners = Swap(@, call.owner, call.new)]
    [] call.do = "threshold" -> [v EXCEPT !.threshold = call.threshold]
    [] call.do = "enable"  -> [v EXCEPT !.modules = <<call.module>> \o @]
    [] call.do = "disable" -> [v EXCEPT !.modules = Dropped(@, call.module)]
    [] OTHER -> v
(* A batch: the calls of a proposal are two at most.                       *)
AbleAll(v, calls) ==
  calls # <<>> => Able(v, calls[1]) /\ (Len(calls) = 1 \/ Able(Ran(v, calls[1]), calls[2]))
RanAll(v, calls) ==
  CASE Len(calls) = 0 -> v
    [] Len(calls) = 1 -> Ran(v, calls[1])
    [] OTHER -> Ran(Ran(v, calls[1]), calls[2])

(* execTransaction, which is told no nonce: the hash is of the nonce that  *)
(* the Safe has.  The signers are owners in ascending order, as many as    *)
(* the threshold, each of whom approved it.                                *)
HashOf(tx) == <<tx.calls, tx.nonce>>
Signed(hash, signers) ==
  /\ Len(signers) >= vault.threshold
  /\ \A i \in 1..vault.threshold :
       /\ signers[i] \in Range(vault.owners) /\ <<signers[i], hash>> \in approvals
       /\ i > 1 => signers[i - 1] < signers[i]
Executes(op) == Signed(<<op.tx.calls, vault.nonce>>, op.signers) /\ AbleAll(vault, op.tx.calls)

SafeTypeOK ==
  /\ IsSafe(vault.owners, vault.threshold) /\ Range(vault.modules) \subseteq Modules
  /\ vault.nonce \in 0..MaxNonce /\ administered \in BOOLEAN
  /\ Cardinality(proposed) <= MaxProposed /\ Cardinality(prepared) <= MaxPrepared /\ Cardinality(drafts) <= MaxDrafts
  /\ \A a \in approvals : a[1] \in SafeAddresses /\ \E tx \in proposed : a[2] = HashOf(tx)

SafeInit ==
  /\ \E owner \in SafeAddresses : vault = [owners |-> <<owner>>, threshold |-> 1, modules |-> <<>>, nonce |-> 0]
  /\ approvals = {} /\ proposed = {} /\ drafts = {} /\ prepared = {} /\ administered = FALSE

(***************************************************************************)
(* Proposals                                                               *)
(***************************************************************************)
IsSound(owners, threshold) == IsSafe(owners, threshold) /\ Len(owners) <= MaxOwners

(* What safeInfo reads at one block; it refuses more owners than MaxOwners.*)
SafeInfo == IsSound(vault.owners, vault.threshold)

(* The nonce is the one of the moment.                                     *)
SafePropose(calls, wish) ==
  /\ SafeInfo /\ Cardinality(proposed) < MaxProposed
  /\ proposed' = proposed \cup {[calls |-> calls, nonce |-> vault.nonce, wish |-> wish]}
  /\ UNCHANGED <<vault, approvals, prepared, administered>>

Previous(list, item) == LET i == Place(list, item) IN IF i = 1 THEN Sentinel ELSE list[i - 1]
Owners == Range(vault.owners)
Others(owner) == Dropped(vault.owners, owner)
(* What a change of owners was reviewed for.                               *)
Wish(owners, threshold) == [owners |-> owners, threshold |-> threshold]
NoWish == [owners |-> {}, threshold |-> 0]

AddOwner(owner, t) ==
  /\ IsSound(Append(vault.owners, owner), t) /\ UNCHANGED drafts
  /\ SafePropose(<<[do |-> "add", owner |-> owner, threshold |-> t]>>, Wish(Owners \cup {owner}, t))
RemoveOwner(owner, t) ==
  /\ owner \in Owners /\ IsSound(Others(owner), t) /\ UNCHANGED drafts
  /\ SafePropose(<<[do |-> "remove", previous |-> Previous(vault.owners, owner), owner |-> owner, threshold |-> t]>>,
                 Wish(Owners \ {owner}, t))
ReplaceOwner(owner, new) ==
  /\ owner \in Owners /\ IsSound(Swap(vault.owners, owner, new), vault.threshold) /\ owner # new /\ UNCHANGED drafts
  /\ SafePropose(<<[do |-> "swap", previous |-> Previous(vault.owners, owner), owner |-> owner, new |-> new]>>,
                 Wish((Owners \ {owner}) \cup {new}, vault.threshold))
ChangeThreshold(t) ==
  /\ IsSound(vault.owners, t) /\ UNCHANGED drafts
  /\ SafePropose(<<[do |-> "threshold", threshold |-> t]>>, Wish(Owners, t))
SafeChangeOwner ==
  \/ \E owner \in SafeAddresses, t \in 1..MaxOwners : AddOwner(owner, t) \/ RemoveOwner(owner, t)
  \/ \E owner, new \in SafeAddresses : ReplaceOwner(owner, new)
  \/ \E t \in 1..MaxOwners : ChangeThreshold(t)

Drafts(draft) ==
  /\ SafeInfo /\ Cardinality(drafts) < MaxDrafts /\ drafts' = drafts \cup {draft}
  /\ UNCHANGED <<vault, approvals, proposed, prepared, administered>>
DraftsCalls(calls) == Drafts([kind |-> "propose", calls |-> calls])

(* The module and its neighbour are those of the first block.              *)
ModulePropose(m) ==
  DraftsCalls(IF m \in Range(vault.modules)
              THEN <<[do |-> "disable", previous |-> Previous(vault.modules, m), module |-> m]>>
              ELSE <<[do |-> "enable", module |-> m]>>)
(* A budget, or sponsorship (relay.ts:64), enables its module first, in    *)
(* the same batch, unless it is on.                                        *)
BudgetPropose(m) ==
  LET set == [do |-> "budget"]
  IN DraftsCalls(IF m \in Range(vault.modules) THEN <<set>> ELSE <<[do |-> "enable", module |-> m], set>>)
(* safePropose validates the calls and reads the Safe again, for its nonce.*)
ProposeDraft(draft) ==
  draft.kind = "propose" /\ drafts' = drafts \ {draft} /\ SafePropose(draft.calls, NoWish)
CancelProposal == SafePropose(<<>>, NoWish) /\ UNCHANGED drafts

(***************************************************************************)
(* Approvals and execution                                                 *)
(***************************************************************************)
ApprovedBy(tx) == {owner \in Owners : <<owner, HashOf(tx)>> \in approvals}
InOrder(owners) ==
  CHOOSE s \in [1..Cardinality(owners) -> owners] : \A i, j \in DOMAIN s : i < j => s[i] < s[j]

(* safeApprovals reads all of it at one block.                             *)
SafeApprove(tx, account) ==
  /\ tx.nonce = vault.nonce /\ account \in Owners /\ <<account, HashOf(tx)>> \notin approvals
  /\ Drafts([kind |-> "approve", tx |-> tx, by |-> account, signers |-> <<>>])
SafeExecute(tx) ==
  /\ tx.nonce = vault.nonce
  /\ Cardinality(ApprovedBy(tx)) >= vault.threshold
  /\ Drafts([kind |-> "execute", tx |-> tx, by |-> 0,
              signers |-> SubSeq(InOrder(ApprovedBy(tx)), 1, vault.threshold)])

(* prepare simulates it at a later block: what would revert is not saved.  *)
Simulates(op) == IF op.kind = "approve" THEN op.by \in Owners ELSE Executes(op)
PrepareDraft(op) ==
  /\ op.kind # "propose" /\ drafts' = drafts \ {op}
  /\ Cardinality(prepared) < MaxPrepared
  /\ prepared' = IF Simulates(op) THEN prepared \cup {op} ELSE prepared
  /\ UNCHANGED <<vault, approvals, proposed, administered>>

(* What was prepared lands: whoever is an owner by then may approve, and   *)
(* an execution that cannot run changes nothing.                           *)
ApprovalLands(op) ==
  /\ op.kind = "approve" /\ prepared' = prepared \ {op}
  /\ approvals' = IF op.by \in Owners THEN approvals \cup {<<op.by, HashOf(op.tx)>>} ELSE approvals
  /\ UNCHANGED <<vault, proposed, drafts, administered>>
ExecutionLands(op) ==
  /\ op.kind = "execute" /\ prepared' = prepared \ {op}
  /\ IF Executes(op)
     THEN /\ vault.nonce < MaxNonce /\ administered' = FALSE
          /\ vault' = [RanAll(vault, op.tx.calls) EXCEPT !.nonce = vault.nonce + 1]
     ELSE UNCHANGED <<vault, administered>>
  /\ UNCHANGED <<approvals, proposed, drafts>>

(* A sponsored operation may hold a call of the Safe on itself; the nonce  *)
(* it uses is not the Safe's.  Once per nonce is enough here.              *)
Administrations ==
  [do : {"add"}, owner : SafeAddresses, threshold : 1..Cardinality(SafeAddresses)]
    \cup [do : {"remove"}, previous : SafeAddresses \cup {Sentinel}, owner : SafeAddresses,
          threshold : 1..Cardinality(SafeAddresses)]
    \cup [do : {"swap"}, previous : SafeAddresses \cup {Sentinel}, owner : SafeAddresses, new : SafeAddresses]
    \cup [do : {"threshold"}, threshold : 1..Cardinality(SafeAddresses)]
    \cup [do : {"enable"}, module : Modules]
    \cup [do : {"disable"}, previous : Modules \cup {Sentinel}, module : Modules]
SponsoredLands ==
  /\ SponsorModule \in Range(vault.modules) /\ ~administered
  /\ \E call \in Administrations : Able(vault, call) /\ vault' = Ran(vault, call)
  /\ administered' = TRUE
  /\ UNCHANGED <<approvals, proposed, drafts, prepared>>

SafeNext ==
  \/ SafeChangeOwner
  \/ \E m \in Modules : ModulePropose(m) \/ BudgetPropose(m)
  \/ CancelProposal
  \/ \E tx \in proposed : SafeExecute(tx) \/ \E account \in SafeAddresses : SafeApprove(tx, account)
  \/ \E draft \in drafts : ProposeDraft(draft) \/ PrepareDraft(draft)
  \/ \E op \in prepared : ApprovalLands(op) \/ ExecutionLands(op)
  \/ SponsoredLands

SafeSpec == SafeInit /\ [][SafeNext]_safeVars

(***************************************************************************)
(* Properties                                                              *)
(***************************************************************************)

(* A change of owners that was proposed at the nonce of the Safe is still  *)
(* possible, at the place it names, and leaves the owners and the          *)
(* threshold it was reviewed for; the approvals that an execution takes    *)
(* along suffice, in the order the contract wants; and one that was        *)
(* prepared runs, unless another one is faster.  What else was proposed    *)
(* may be stale at its own nonce, for a proposal of a module reads the     *)
(* modules before the nonce (modules.ts:22, transactions.ts:25): that the  *)
(* simulation keeps from being prepared (execution.ts:64).  It is so only  *)
(* while no sponsored operation changed the Safe at that nonce: it moves   *)
(* none.                                                                   *)
PreparedRuns == ~administered =>
  /\ \A op \in drafts \cup prepared :
       op.kind = "execute" /\ op.tx.nonce = vault.nonce => Signed(HashOf(op.tx), op.signers)
  /\ \A op \in prepared : op.kind = "execute" /\ op.tx.nonce = vault.nonce => Executes(op)
  /\ \A tx \in proposed : tx.nonce = vault.nonce /\ tx.wish # NoWish =>
       LET after == RanAll(vault, tx.calls)
       IN AbleAll(vault, tx.calls) /\ Wish(Range(after.owners), after.threshold) = tx.wish
=============================================================================
