------------------------------- MODULE Chain -------------------------------
(***************************************************************************)
(* The EVM chain and its mempool, as the toolkit sees them through RPC.    *)
(* External: modelled from how execution.ts and storage.ts use it.  A      *)
(* transaction is the operation it was built for, its nonce and its fee;   *)
(* signing is deterministic, so these three stand for its bytes and hash.  *)
(***************************************************************************)
EXTENDS Integers, FiniteSets

CONSTANTS
  Ops,        \* operation ids: one per idempotency key
  Accounts,   \* chainId:address pairs
  AccountOf,  \* the account each operation sends from
  MaxNonce,   \* bound: highest nonce the instance reaches
  MaxFee,     \* bound: highest fee cap (fee 0 is the estimate of prepare)
  Outcomes,   \* what inclusion can give: TRUE succeeds, FALSE reverts
  MaxReorgs,  \* bound: number of reorganisations
  None        \* absent optional field

ASSUME BoundsAssumption ==
  MaxNonce \in Nat /\ MaxFee \in Nat /\ MaxReorgs \in Nat

ASSUME OutcomesAssumption == Outcomes \subseteq BOOLEAN

ASSUME AccountOfAssumption == AccountOf \in [Ops -> Accounts]

VARIABLES
  mempool,    \* transactions the network holds and may include
  included,   \* inclusions on the canonical chain
  nonceOf,    \* next nonce of each account on the canonical chain
  reorgs,     \* reorganisations so far; also numbers the forks
  sent        \* history: every transaction ever handed to the network

chainVars == <<mempool, included, nonceOf, reorgs, sent>>

Nonces == 0..MaxNonce
Fees == 0..MaxFee
Tx == [op: Ops, nonce: Nonces, fee: Fees]
Inclusion == [tx: Tx, ok: BOOLEAN, fork: 0..MaxReorgs]

ASSUME NoneAssumption == None \notin Tx \cup Ops \cup Inclusion

ChainTypeOK ==
  /\ mempool \in SUBSET Tx
  /\ included \in SUBSET Inclusion
  /\ nonceOf \in [Accounts -> 0..(MaxNonce + 1)]
  /\ reorgs \in 0..MaxReorgs
  /\ sent \in SUBSET Tx

ChainInit ==
  /\ mempool = {}
  /\ included = {}
  /\ nonceOf = [a \in Accounts |-> 0]
  /\ reorgs = 0
  /\ sent = {}

-----------------------------------------------------------------------------
\* Inclusions of a transaction: at most one on a canonical chain.
InclusionsOf(t) == {i \in included : i.tx = t}
IsIncluded(t) == InclusionsOf(t) # {}

\* eth_getTransactionByHash answers for pooled and for included transactions.
IsKnown(t) == t \in mempool \/ IsIncluded(t)

\* eth_getTransactionCount(account, 'pending').  A node counts the included
\* transactions and those of its own pool, so any prefix of the pool may show.
PendingNonces(a) ==
  {n \in Nonces :
     /\ n >= nonceOf[a]
     /\ \A m \in nonceOf[a]..(n - 1) :
          \E t \in mempool : AccountOf[t.op] = a /\ t.nonce = m}

\* A node accepts a transaction whose nonce is still free on its chain.
Acceptable(t) == t.nonce >= nonceOf[AccountOf[t.op]]
Receive(t) ==
  /\ Acceptable(t)
  /\ mempool' = mempool \cup {t}
  /\ sent' = sent \cup {t}
  /\ UNCHANGED <<included, nonceOf, reorgs>>

-----------------------------------------------------------------------------
\* A pooled transaction with the account's next nonce is included; it
\* succeeds or reverts.  The others of the same nonce can no longer be.
Mine(t) ==
  LET a == AccountOf[t.op] IN
  /\ t \in mempool
  /\ t.nonce = nonceOf[a]
  /\ \E ok \in Outcomes :
       included' = included \cup {[tx |-> t, ok |-> ok, fork |-> reorgs]}
  /\ nonceOf' = [nonceOf EXCEPT ![a] = @ + 1]
  /\ mempool' = {u \in mempool : AccountOf[u.op] # a \/ u.nonce # t.nonce}
  /\ UNCHANGED <<reorgs, sent>>

\* The pool forgets a transaction (eviction, restart of the node).
Evict(t) ==
  /\ t \in mempool
  /\ mempool' = mempool \ {t}
  /\ UNCHANGED <<included, nonceOf, reorgs, sent>>

\* The last inclusion of an account falls off the canonical chain.  Any
\* transaction ever sent with that nonce may be in the pools afterwards, or
\* none of them.
Reorg(a) ==
  /\ reorgs < MaxReorgs
  /\ reorgs' = reorgs + 1
  /\ \E i \in included :
       /\ AccountOf[i.tx.op] = a
       /\ i.tx.nonce + 1 = nonceOf[a]
       /\ included' = included \ {i}
       /\ nonceOf' = [nonceOf EXCEPT ![a] = i.tx.nonce]
       /\ \E back \in SUBSET {t \in sent : AccountOf[t.op] = a
                                            /\ t.nonce = i.tx.nonce} :
            mempool' = mempool \cup back
  /\ UNCHANGED sent

ChainStep ==
  \/ \E t \in mempool : Mine(t) \/ Evict(t)
  \/ \E a \in Accounts : Reorg(a)
=============================================================================
