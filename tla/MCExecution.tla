---------------------------- MODULE MCExecution ----------------------------
(***************************************************************************)
(* Instances of Execution for TLC.                                         *)
(***************************************************************************)
EXTENDS Execution, TLC

CONSTANTS o1, o2, o3, p1, p2, a1, a2

ProcSymmetry == Permutations(Procs)
Symmetry == ProcSymmetry \cup Permutations(Ops)

\* All operations send from one account ...
OneAccount == [o \in Ops |-> a1]
\* ... or the second one from the signer's account on another chain.
TwoChains == [o \in Ops |-> IF o = o2 THEN a2 ELSE a1]

-----------------------------------------------------------------------------
(* Repricing, from a first transaction on *)

\* o1 was prepared and executed: the journal and the network have its
\* transaction, acknowledged.  Nothing else was prepared yet.
FirstTx == TheTx(o1, BasePlan, 0)
FirstInit ==
  /\ mempool = {FirstTx} /\ sent = {FirstTx} /\ included = {}
  /\ nonceOf = [a \in Accounts |-> 0] /\ reorgs = 0
  /\ ops = [o \in Ops |->
       IF o = o1
       THEN [Blank("pending", BasePlan) EXCEPT !.hash = FirstTx, !.nonce = 0,
                                               !.signed = FirstTx]
       ELSE NoOp]
  /\ locks = [a \in Accounts |-> NoLock]
  /\ StatusInit
  /\ pc = [p \in Procs |-> "idle"]
  /\ call = [p \in Procs |-> NoCall]
  /\ work = [p \in Procs |-> NoOp]
  /\ nonce = [p \in Procs |-> NoNonce]
  /\ asks = {} /\ reserved = {o1} /\ expired = {} /\ crashes = 0

FirstSpec == FirstInit /\ [][Next]_vars

\* No replacement is about to be saved over signed bytes, which is what
\* viol_replace_bytes is about: ExecReplace.cfg goes no further from a state
\* where one is (CONSTRAINT).  What the other process does from there it also
\* does where the key was prepared by hand: the rows are the same.
NoneOverwrites ==
  \A p \in Procs : At(p, "replaceSave") => ops[call[p].key].signed = None

\* Bound: a replacement offers the highest fee.
OffersMost == \A p \in Procs : call'[p].key # None => call'[p].fee = MaxFee

FirstSymmetry == ProcSymmetry \cup Permutations(Ops \ {o1})
=============================================================================
