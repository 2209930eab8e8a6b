------------------------------- MODULE Bridge -------------------------------
(***************************************************************************)
(* src/socket.ts: a bridge is prepared from a quote as a workflow that     *)
(* resets and gives an allowance and submits the route, and followed on    *)
(* the other chain.  Preparing may be cut short or raced; destination      *)
(* blocks may be replaced between two reads.  The provider (Socket), both  *)
(* chains and the token are external; running a workflow is Workflow.tla,  *)
(* here one action per step.                                               *)
(***************************************************************************)
EXTENDS Integers, Sequences, FiniteSets, SequencesExt

CONSTANTS
  BridgeProcs,      \* callers
  BridgeKeys, Transfers,   \* idempotency keys, requests (with policy and route selection)
  NoTransfer,
  Amount,           \* of each request, and the approval its routes ask for
  MinOut,           \* minAmountOut of each route
  MaxQuotes, MaxForks, MaxBridgeTime, QuoteLife, MaxSpent   \* bounds

ASSUME TransferAssumption ==
  /\ NoTransfer \notin Transfers /\ MinOut \in Nat \ {0}
  /\ {Amount, MaxQuotes, MaxForks, MaxBridgeTime, QuoteLife, MaxSpent} \subseteq Nat

VARIABLES
  bridgeTime,
  quotes,      \* routes quoted: what for, when they expire
  records,     \* bridge:<id> of each key: request and route
  flows,       \* workflow of each key: steps, steps done, whether the route was sent
  callers,     \* prepareBridge and bridgeStatus under way
  allowance,   \* of the account for the spender of the routes
  spent,       \* allowance other operations of the account set
  deliveries,  \* per route, the destination transaction: where it is, what it paid
  fork,        \* version of the destination chain
  verified     \* routes some caller was told are verified

transferVars == <<bridgeTime, quotes, records, flows, callers, allowance, spent, deliveries, fork, verified>>

NoBridgeRecord == [request |-> NoTransfer, route |-> 0]
NoFlow == [route |-> 0, steps |-> <<>>, done |-> 0, st |-> "none"]
Resting == [at |-> "none", key |-> "none", request |-> NoTransfer, route |-> 0, steps |-> <<>>, block |-> 0]
Undelivered == [block |-> 0, ok |-> FALSE, paid |-> 0]

TransferTypeOK ==
  /\ bridgeTime \in 0..MaxBridgeTime /\ Len(quotes) <= MaxQuotes /\ fork \in 0..MaxForks
  /\ \A k \in BridgeKeys : /\ records[k].route \in 0..Len(quotes)
                           /\ flows[k].done \in 0..Len(flows[k].steps)
                           /\ flows[k].st \in {"none", "open", "failed", "completed"}
  /\ allowance \in 0..Amount + 1 /\ verified \subseteq DOMAIN quotes

TransferInit ==
  /\ bridgeTime = 0 /\ quotes = <<>> /\ deliveries = <<>> /\ fork = 0 /\ spent = 0 /\ verified = {}
  /\ records = [k \in BridgeKeys |-> NoBridgeRecord] /\ flows = [k \in BridgeKeys |-> NoFlow]
  /\ callers = [p \in BridgeProcs |-> Resting]
  /\ allowance = 0

Caller(p) == callers[p]
CallerBecomes(p, c) == callers' = [callers EXCEPT ![p] = c]

(***************************************************************************)
(* prepareBridge                                                           *)
(***************************************************************************)

(* A key that has a record gives it back, or refuses another request.      *)
PrepareBridge(p, k, request) ==
  /\ Caller(p).at = "none"
  /\ records[k] = NoBridgeRecord
  /\ CallerBecomes(p, [Resting EXCEPT !.at = "quoting", !.key = k, !.request = request])
  /\ UNCHANGED <<bridgeTime, quotes, records, flows, allowance, spent, deliveries, fork, verified>>

(* Every quote is a new route, that asks for the amount to be approved or  *)
(* for nothing; expired ones are refused.                                  *)
Quote(p) == \E approval \in BOOLEAN :
  /\ Caller(p).at = "quoting" /\ Len(quotes) < MaxQuotes
  /\ quotes' = Append(quotes, [request |-> Caller(p).request, approval |-> approval,
                               expires |-> bridgeTime + QuoteLife])
  /\ deliveries' = Append(deliveries, Undelivered)
  /\ CallerBecomes(p, [Caller(p) EXCEPT !.at = "planning", !.route = Len(quotes) + 1])
  /\ UNCHANGED <<bridgeTime, records, flows, allowance, spent, fork, verified>>

(* The allowance is read once, when the steps are laid out.                *)
StepsFor(route) ==
  IF ~quotes[route].approval \/ allowance >= Amount THEN <<"submit">>
  ELSE IF allowance > 0 THEN <<"reset", "approve", "submit">> ELSE <<"approve", "submit">>
LayOutSteps(p) ==
  /\ Caller(p).at = "planning"
  /\ CallerBecomes(p, [Caller(p) EXCEPT !.at = "creating", !.steps = StepsFor(Caller(p).route)])
  /\ UNCHANGED <<bridgeTime, quotes, records, flows, allowance, spent, deliveries, fork, verified>>

(* createWorkflow: the same steps give back the workflow, others a         *)
(* conflict; the route's calldata is among the steps.                      *)
TakesAny(k, c) == TRUE
SameSteps(k, c) == flows[k].st = "none" \/ (flows[k].route = c.route /\ flows[k].steps = c.steps)
CreateFlow(p) == LET c == Caller(p) IN
  /\ c.at = "creating"
  /\ IF SameSteps(c.key, c)
     THEN /\ flows' = IF flows[c.key].st # "none" THEN flows
                      ELSE [flows EXCEPT ![c.key] = [route |-> c.route, steps |-> c.steps, done |-> 0, st |-> "open"]]
          /\ CallerBecomes(p, [c EXCEPT !.at = "saving"])
     ELSE CallerBecomes(p, Resting) /\ UNCHANGED flows
  /\ UNCHANGED <<bridgeTime, quotes, records, allowance, spent, deliveries, fork, verified>>
SaveBridge(p) == LET c == Caller(p) IN
  /\ c.at = "saving"
  /\ records' = [records EXCEPT ![c.key] = [request |-> c.request, route |-> c.route]]
  /\ CallerBecomes(p, Resting)
  /\ UNCHANGED <<bridgeTime, quotes, flows, allowance, spent, deliveries, fork, verified>>

(* A quote that is refused, an RPC that fails, a process that dies.        *)
GivesUp(p) ==
  /\ Caller(p).at # "none" /\ CallerBecomes(p, Resting)
  /\ UNCHANGED <<bridgeTime, quotes, records, flows, allowance, spent, deliveries, fork, verified>>

(***************************************************************************)
(* runBridge                                                               *)
(***************************************************************************)

(* A step waits for its transaction and, after an approval, reads the      *)
(* allowance (source chain, external).  A route submitted after its        *)
(* deadline or without allowance is refused when it is simulated.          *)
FlowGoesOn(k, allowed) ==
  LET flow == flows[k]
      kind == flow.steps[flow.done + 1]
      ended == flow.done + 1 = Len(flow.steps)
  IN
  /\ records[k] # NoBridgeRecord /\ flow.st = "open"
  /\ allowance' = allowed
  /\ flows' = [flows EXCEPT ![k].done = @ + 1, ![k].st = IF ended THEN "completed" ELSE "open"]
  /\ UNCHANGED <<bridgeTime, quotes, records, callers, spent, deliveries, fork, verified>>
NextStep(k) == flows[k].steps[flows[k].done + 1]
RunReset(k) == flows[k].st = "open" /\ NextStep(k) = "reset" /\ FlowGoesOn(k, 0)
RunApprove(k) == flows[k].st = "open" /\ NextStep(k) = "approve" /\ FlowGoesOn(k, Amount)
Needs(k) == IF quotes[flows[k].route].approval THEN Amount ELSE 0
RunSubmit(k) ==
  /\ flows[k].st = "open" /\ NextStep(k) = "submit"
  /\ bridgeTime < quotes[flows[k].route].expires /\ allowance >= Needs(k)
  /\ FlowGoesOn(k, allowance - Needs(k))
StepReverts(k) ==
  /\ records[k] # NoBridgeRecord /\ flows[k].st = "open"
  /\ flows' = [flows EXCEPT ![k].st = "failed"]
  /\ UNCHANGED <<bridgeTime, quotes, records, callers, allowance, spent, deliveries, fork, verified>>

(***************************************************************************)
(* bridgeStatus                                                            *)
(***************************************************************************)
Submitted(route) == \E k \in BridgeKeys : flows[k].route = route /\ flows[k].st = "completed"

(* The provider reports completion with the transaction it delivered by;   *)
(* then the receipt is read, then the block of its height.                 *)
AskStatus(p, k) == LET route == records[k].route IN
  /\ Caller(p).at = "none" /\ records[k] # NoBridgeRecord
  /\ flows[k].st = "completed" /\ deliveries[route].block # 0
  /\ CallerBecomes(p, [Resting EXCEPT !.at = "receipt", !.key = k, !.route = route])
  /\ UNCHANGED <<bridgeTime, quotes, records, flows, allowance, spent, deliveries, fork, verified>>
ReadReceipt(p) == LET c == Caller(p) IN
  /\ c.at = "receipt" /\ deliveries[c.route].block # 0
  /\ CallerBecomes(p, IF deliveries[c.route].ok
                THEN [c EXCEPT !.at = "block", !.block = deliveries[c.route].block, !.steps = <<deliveries[c.route].paid>>]
                ELSE Resting)
  /\ UNCHANGED <<bridgeTime, quotes, records, flows, allowance, spent, deliveries, fork, verified>>
AnyBlock(block) == TRUE
IsCanonical(block) == block = fork + 1
Enough(paid) == paid >= MinOut
ReadBlock(p) == LET c == Caller(p) IN
  /\ c.at = "block"
  /\ CallerBecomes(p, Resting)
  /\ verified' = IF IsCanonical(c.block) /\ Enough(c.steps[1]) THEN verified \cup {c.route} ELSE verified
  /\ UNCHANGED <<bridgeTime, quotes, records, flows, allowance, spent, deliveries, fork>>

(***************************************************************************)
(* The world                                                               *)
(***************************************************************************)
Deliver(route) == \E ok \in BOOLEAN, paid \in 0..MinOut :
  /\ Submitted(route) /\ deliveries[route].block = 0
  /\ deliveries' = [deliveries EXCEPT ![route] = [block |-> fork + 1, ok |-> ok, paid |-> paid]]
  /\ UNCHANGED <<bridgeTime, quotes, records, flows, callers, allowance, spent, fork, verified>>
Reorg ==
  /\ fork < MaxForks /\ fork' = fork + 1
  /\ deliveries' = [r \in DOMAIN deliveries |-> Undelivered]
  /\ verified' = {}   \* what was told before is not at stake
  /\ UNCHANGED <<bridgeTime, quotes, records, flows, callers, allowance, spent>>
Spend == \E a \in 0..Amount + 1 :
  /\ spent < MaxSpent /\ spent' = spent + 1 /\ allowance' = a
  /\ UNCHANGED <<bridgeTime, quotes, records, flows, callers, deliveries, fork, verified>>
BridgeTick ==
  /\ bridgeTime < MaxBridgeTime /\ bridgeTime' = bridgeTime + 1
  /\ UNCHANGED <<quotes, records, flows, callers, allowance, spent, deliveries, fork, verified>>

TransferNext ==
  \/ \E p \in BridgeProcs :
       \/ \E k \in BridgeKeys : AskStatus(p, k) \/ \E t \in Transfers : PrepareBridge(p, k, t)
       \/ Quote(p) \/ LayOutSteps(p) \/ CreateFlow(p) \/ SaveBridge(p) \/ GivesUp(p)
       \/ ReadReceipt(p) \/ ReadBlock(p)
  \/ \E k \in BridgeKeys : RunReset(k) \/ RunApprove(k) \/ RunSubmit(k) \/ StepReverts(k)
  \/ \E r \in DOMAIN deliveries : Deliver(r)
  \/ Reorg \/ Spend \/ BridgeTick

TransferSpec == TransferInit /\ [][TransferNext]_transferVars

(***************************************************************************)
(* Properties                                                              *)
(***************************************************************************)

(* However preparations of a key race, are cut short and are repeated, its *)
(* record names the route and the request whose calls its workflow makes,  *)
(* so that what is followed on the other chain is what was sent; and what  *)
(* is told as verified is in the chain and paid the receiver (README.md:52) *)
BridgeIsBound == \A k \in BridgeKeys : records[k] # NoBridgeRecord =>
  /\ records[k].route = flows[k].route
  /\ quotes[records[k].route].request = records[k].request
VerifiedIsPaid == \A r \in verified : Submitted(r) /\ deliveries[r].ok /\ deliveries[r].paid >= MinOut
BridgeIsTrue == BridgeIsBound /\ VerifiedIsPaid
=============================================================================
