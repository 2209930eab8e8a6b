----------------------------- MODULE Reconcile -----------------------------
(***************************************************************************)
(* Execution.status: reconciliation of one stored operation with the       *)
(* chain.  It takes no lock, reads the row, awaits RPC answers and writes  *)
(* back a row computed from what it read first.  For a replacement it      *)
(* calls itself on the operation it replaces, so a process has a chain of  *)
(* activations: frame[p][o] is the one on operation o, top[p] the          *)
(* innermost, and ret[p] the value the last finished one returned.         *)
(***************************************************************************)
EXTENDS OperationStore

VARIABLES frame, top, ret

statusVars == <<frame, top, ret>>

FramePcs == {"off", "get", "receipt", "original", "block", "finality", "relink"}
Frame == {f \in [pc: FramePcs, snap: Operation, rcpt: Inclusion \cup {None},
                 caller: Ops \cup {None}] :
            /\ f.pc \notin {"off", "get"} => f.snap.hash # None
            /\ f.pc = "finality" => f.rcpt \in Inclusion}
NoFrame == [pc |-> "off", snap |-> NoOp, rcpt |-> None, caller |-> None]

StatusTypeOK ==
  /\ frame \in [Procs -> [Ops -> Frame]]
  /\ top \in [Procs -> Ops \cup {None}]
  /\ ret \in [Procs -> Operation]

StatusInit ==
  /\ frame = [p \in Procs |-> [o \in Ops |-> NoFrame]]
  /\ top = [p \in Procs |-> None]
  /\ ret = [p \in Procs |-> NoOp]

-----------------------------------------------------------------------------
\* Process p calls status(o) from the activation on `caller` (None: from a
\* command).
Enter(p, o, caller) ==
  /\ frame' = [frame EXCEPT ![p][o] = [NoFrame EXCEPT !.pc = "get",
                                                      !.caller = caller]]
  /\ top' = [top EXCEPT ![p] = o]
  /\ UNCHANGED ret

\* The innermost activation returns value.
Return(p, value) ==
  /\ frame' = [frame EXCEPT ![p][top[p]] = NoFrame]
  /\ top' = [top EXCEPT ![p] = frame[p][top[p]].caller]
  /\ ret' = [ret EXCEPT ![p] = value]

\* The whole chain of activations fails, or its process ends.
Unwind(p) ==
  /\ frame' = [frame EXCEPT ![p] = [o \in Ops |-> NoFrame]]
  /\ top' = [top EXCEPT ![p] = None]
  /\ ret' = [ret EXCEPT ![p] = NoOp]

InStatus(p, pc) == top[p] # None /\ frame[p][top[p]].pc = pc
Snap(p) == frame[p][top[p]].snap

-----------------------------------------------------------------------------
\* operation.signed ?? the bytes carried by a submitting or pending state.
SignedOf(s) == IF s.signed = None /\ s.tag \in InFlight
               THEN s.hash ELSE s.signed

\* Faulty variants: a lost receipt is ignored; a settled row drops its bytes,
\* ignores the receipt's status, or invents a tag for a failed one.
RestoredNot(s) == s
OutcomeUnsigned(s, i) ==
  [s EXCEPT !.tag = IF i.ok THEN "confirmed" ELSE "reverted",
            !.nonce = NoNonce, !.signed = None]
OutcomeBlind(s, i) ==
  [s EXCEPT !.tag = "confirmed", !.nonce = NoNonce, !.signed = SignedOf(s)]
OutcomeFailed(s, i) ==
  [s EXCEPT !.tag = IF i.ok THEN "confirmed" ELSE "failed",
            !.nonce = NoNonce, !.signed = SignedOf(s)]

\* What a vanished or non-canonical receipt turns an operation back into.
Restored(s) ==
  LET t == SignedOf(s) IN
  IF t # None
  THEN [s EXCEPT !.tag = "submitting", !.hash = t, !.nonce = t.nonce]
  ELSE [s EXCEPT !.tag = "walletPending"]

Outcome(s, i) ==
  [s EXCEPT !.tag = IF i.ok THEN "confirmed" ELSE "reverted",
            !.nonce = NoNonce, !.signed = SignedOf(s)]

Superseded(s) == [s EXCEPT !.tag = "superseded", !.hash = None, !.nonce = NoNonce]

\* The wallet's transaction is the reviewed one: its nonce is the requested
\* one (unless a reorganisation lost it) and its fee within the cap.
MatchesPlan(s, t) == /\ s.nonce # NoNonce => t.nonce = s.nonce
                     /\ t.fee <= s.plan.fee

-----------------------------------------------------------------------------
\* store.get; an operation without a transaction hash is returned as it is.
StatusGet(p) ==
  /\ InStatus(p, "get")
  /\ LET s == ops[top[p]] IN
     IF s.hash = None THEN Return(p, s)
     ELSE /\ frame' = [frame EXCEPT ![p][top[p]].pc = "receipt",
                                    ![p][top[p]].snap = s]
          /\ UNCHANGED <<top, ret>>
  /\ UNCHANGED <<chainVars, storeVars>>

\* A walletPending transaction the node does not know, or one that differs
\* from the plan, makes status fail.
WalletCheckFails(s) ==
  s.tag = "walletPending" /\ ~(IsKnown(s.hash) /\ MatchesPlan(s, s.hash))

\* getTransactionReceipt has an answer: go on to check its block.
StatusReceipt(p) ==
  /\ InStatus(p, "receipt")
  /\ ~WalletCheckFails(Snap(p))
  /\ \E i \in InclusionsOf(Snap(p).hash) :
       frame' = [frame EXCEPT ![p][top[p]].pc = "block",
                              ![p][top[p]].rcpt = i]
  /\ UNCHANGED <<top, ret, chainVars, storeVars>>

\* No receipt and nothing replaced: a settled operation is saved as
\* unresolved again, an unresolved one returned unchanged.
SettleWithoutReceipt(p) ==
  IF Snap(p).tag \in Settled
  THEN Save(top[p], Restored(Snap(p))) /\ Return(p, Restored(Snap(p)))
  ELSE UNCHANGED ops /\ Return(p, Snap(p))

StatusNoReceipt(p) ==
  /\ InStatus(p, "receipt")
  /\ ~WalletCheckFails(Snap(p))
  /\ ~IsIncluded(Snap(p).hash)
  /\ IF Snap(p).plan.repl # None
     THEN /\ frame' = [frame EXCEPT
                         ![p][top[p]].pc = "original",
                         ![p][Snap(p).plan.repl] =
                            [NoFrame EXCEPT !.pc = "get", !.caller = top[p]]]
          /\ top' = [top EXCEPT ![p] = Snap(p).plan.repl]
          /\ UNCHANGED <<ret, ops>>
     ELSE SettleWithoutReceipt(p)
  /\ UNCHANGED <<locks, chainVars>>

\* The nested status(original) returned: a settled original has won.
StatusOriginal(p) ==
  /\ InStatus(p, "original")
  /\ IF ret[p].tag \in Settled
     THEN Save(top[p], Superseded(Snap(p))) /\ Return(p, Superseded(Snap(p)))
     ELSE SettleWithoutReceipt(p)
  /\ UNCHANGED <<locks, chainVars>>

\* Faulty variant: every receipt is taken for one of a lost fork.
StatusBlockAllLost(p) ==
  /\ InStatus(p, "block")
  /\ Save(top[p], Restored(Snap(p))) /\ Return(p, Restored(Snap(p)))
  /\ UNCHANGED <<locks, chainVars>>

\* getBlock at the receipt's number: another hash there means the receipt
\* is of a lost fork.
StatusBlock(p) ==
  /\ InStatus(p, "block")
  /\ IF frame[p][top[p]].rcpt \notin included
     THEN Save(top[p], Restored(Snap(p))) /\ Return(p, Restored(Snap(p)))
     ELSE /\ frame' = [frame EXCEPT ![p][top[p]].pc = "finality"]
          /\ UNCHANGED <<top, ret, ops>>
  /\ UNCHANGED <<locks, chainVars>>

\* The finalized and the safe block are read, which may fail, for the label
\* alone; then the outcome is saved, whatever became of the block meanwhile.
StatusFinality(p) ==
  /\ InStatus(p, "finality")
  /\ LET settled == Outcome(Snap(p), frame[p][top[p]].rcpt) IN
     /\ Save(top[p], settled)
     /\ IF Snap(p).plan.repl = None THEN Return(p, settled)
        ELSE /\ frame' = [frame EXCEPT ![p][top[p]].pc = "relink",
                                       ![p][top[p]].snap = settled]
             /\ UNCHANGED <<top, ret>>
  /\ UNCHANGED <<locks, chainVars>>

\* After its replacement settled, the original is saved as superseded.
StatusRelink(p) ==
  /\ InStatus(p, "relink")
  /\ LET original == Snap(p).plan.repl IN
     Save(original, Superseded(ops[original]))
  /\ Return(p, Snap(p))
  /\ UNCHANGED <<locks, chainVars>>

StatusStep(p) ==
  \/ StatusGet(p)
  \/ StatusReceipt(p)
  \/ StatusNoReceipt(p)
  \/ StatusOriginal(p)
  \/ StatusBlock(p)
  \/ StatusFinality(p)
  \/ StatusRelink(p)
=============================================================================
