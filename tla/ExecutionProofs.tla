-------------------------- MODULE ExecutionProofs ---------------------------
(***************************************************************************)
(* Theorems about Execution, for every value of its constants: first the   *)
(* locks, the operations in flight and what refines the account, then what *)
(* the journal promises about the bytes that were sent, about what is      *)
(* settled, and about the accounts. The second part goes over the actions  *)
(* twice: once for what a step does to the registers and copies of a       *)
(* process (Moves), once for what it does to rows, requests and network    *)
(* (Effect). Its invariants are then kept by every Moves and Effect.       *)
(***************************************************************************)
EXTENDS Execution, TLAPS, FiniteSetTheorems

-----------------------------------------------------------------------------
(* Values built by the actions have their types *)

LEMMA NoncesType ==
  /\ 0 \in Nonces /\ 0 \in Fees
  /\ \A n \in Nonces : n \in Int /\ n + 1 \in 0..(MaxNonce + 1)
  /\ MaxNonce \in Nat /\ MaxFee \in Nat /\ MaxReorgs \in Nat
BY BoundsAssumption DEF Nonces, Fees

LEMMA NoNonceFresh == NoNonce \notin Nonces
BY BoundsAssumption DEF NoNonce, Nonces

LEMMA BlankType ==
  ASSUME NEW tag \in {"absent", "prepared", "cancelled"}, NEW plan \in Plan
  PROVE  Blank(tag, plan) \in Operation
BY DEF Blank, Operation, Tags, Settled, Unresolved, InFlight

LEMMA BasePlanType == BasePlan \in Plan
BY NoncesType DEF BasePlan, Plan, NoNonce

LEMMA NoOpType == NoOp \in Operation
BY BlankType, BasePlanType DEF NoOp

LEMMA SignedOfType ==
  ASSUME NEW s \in Operation
  PROVE  SignedOf(s) \in Tx \cup {None}
BY DEF SignedOf, Operation

LEMMA RestoredType ==
  ASSUME NEW s \in Operation
  PROVE  Restored(s) \in Operation
<1>1. SignedOf(s) # None => SignedOf(s) \in Tx /\ SignedOf(s).nonce \in Nonces
  BY SignedOfType DEF Tx
<1>2. CASE SignedOf(s) # None
  <2>. DEFINE t == SignedOf(s)
  <2>1. Restored(s) = [s EXCEPT !.tag = "submitting", !.hash = t, !.nonce = t.nonce]
    BY <1>2 DEF Restored
  <2>2. t \in Tx /\ t # None /\ t.nonce \in Nonces /\ t.nonce # NoNonce
    BY <1>1, <1>2, NoNonceFresh
  <2>. HIDE DEF t
  <2>. QED
    BY <2>1, <2>2 DEF Operation, Tags, Unresolved, Settled, InFlight
<1>3. CASE SignedOf(s) = None
  BY <1>3 DEF Restored, Operation, Tags, Unresolved, Settled, InFlight
<1>. QED
  BY <1>2, <1>3

LEMMA OutcomeType ==
  ASSUME NEW s \in Operation, s.hash # None, NEW i \in Inclusion
  PROVE  Outcome(s, i) \in Operation /\ Outcome(s, i).hash # None
BY SignedOfType DEF Outcome, Operation, Tags, Settled, Unresolved, InFlight

LEMMA SupersededType ==
  ASSUME NEW s \in Operation
  PROVE  Superseded(s) \in Operation
BY DEF Superseded, Operation, Tags, Settled, Unresolved, InFlight

LEMMA NoFrameType == NoFrame \in Frame
BY NoOpType DEF NoFrame, Frame, FramePcs

LEMMA NoCallType == NoCall \in Call
BY NoncesType DEF NoCall, Call

-----------------------------------------------------------------------------
(* Building blocks of the actions preserve the types of what they change *)

LEMMA SaveType ==
  ASSUME StoreTypeOK, NEW o \in Ops, NEW s \in Operation, Save(o, s)
  PROVE  ops' \in [Ops -> Operation]
BY DEF StoreTypeOK, Save

LEMMA EnterType ==
  ASSUME StatusTypeOK, NEW p \in Procs, NEW o \in Ops,
         NEW c \in Ops \cup {None}, Enter(p, o, c)
  PROVE  StatusTypeOK'
<1>1. [NoFrame EXCEPT !.pc = "get", !.caller = c] \in Frame
  BY NoFrameType DEF Frame, FramePcs
<1>. QED
  BY <1>1 DEF StatusTypeOK, Enter

LEMMA ReturnType ==
  ASSUME StatusTypeOK, NEW p \in Procs, NEW s \in Operation, top[p] # None,
         Return(p, s)
  PROVE  StatusTypeOK'
<1>1. top[p] \in Ops /\ frame[p][top[p]].caller \in Ops \cup {None}
  BY DEF StatusTypeOK, Frame
<1>. QED
  BY <1>1, NoFrameType DEF StatusTypeOK, Return

LEMMA UnwindType ==
  ASSUME StatusTypeOK, NEW p \in Procs, Unwind(p)
  PROVE  StatusTypeOK'
BY NoFrameType, NoOpType DEF StatusTypeOK, Unwind

LEMMA SetFrameType ==
  ASSUME StatusTypeOK, NEW p \in Procs, NEW o \in Ops, NEW f \in Frame
  PROVE  [frame EXCEPT ![p][o] = f] \in [Procs -> [Ops -> Frame]]
BY DEF StatusTypeOK

LEMMA MoveFrameType ==
  ASSUME StatusTypeOK, NEW p \in Procs, NEW o \in Ops, NEW x \in FramePcs,
         frame[p][o].snap.hash # None, x = "finality" => frame[p][o].rcpt \in Inclusion
  PROVE  [frame EXCEPT ![p][o].pc = x] \in [Procs -> [Ops -> Frame]]
<1>. DEFINE f == [frame[p][o] EXCEPT !.pc = x]
<1>1. frame[p][o] \in Frame
  BY DEF StatusTypeOK
<1>2. f \in Frame
  BY <1>1 DEF Frame
<1>3. [frame EXCEPT ![p][o].pc = x] = [frame EXCEPT ![p][o] = f]
  BY DEF StatusTypeOK
<1>4. [frame EXCEPT ![p][o] = f] \in [Procs -> [Ops -> Frame]]
  <2>. HIDE DEF f
  <2>. QED
    BY <1>2, SetFrameType
<1>. QED
  BY <1>3, <1>4, Zenon

LEMMA MoveReceiptType ==
  ASSUME StatusTypeOK, NEW p \in Procs, NEW o \in Ops, NEW x \in FramePcs,
         x # "finality", frame[p][o].snap.hash # None, NEW i \in Inclusion
  PROVE  [frame EXCEPT ![p][o].pc = x, ![p][o].rcpt = i]
           \in [Procs -> [Ops -> Frame]]
<1>. DEFINE moved == [frame EXCEPT ![p][o].pc = x]
            f == [moved[p][o] EXCEPT !.rcpt = i]
<1>1. moved \in [Procs -> [Ops -> Frame]]
  BY MoveFrameType
<1>. HIDE DEF moved
<1>2. f \in Frame
  BY <1>1 DEF Frame
<1>3. [moved EXCEPT ![p][o].rcpt = i] = [moved EXCEPT ![p][o] = f]
  BY <1>1
<1>. HIDE DEF f
<1>4. [moved EXCEPT ![p][o] = f] \in [Procs -> [Ops -> Frame]]
  BY <1>1, <1>2
<1>. QED
  BY <1>3, <1>4, Zenon DEF moved

LEMMA MoveSnapType ==
  ASSUME StatusTypeOK, NEW p \in Procs, NEW o \in Ops, NEW x \in FramePcs,
         x # "finality", NEW s \in Operation, s.hash # None
  PROVE  [frame EXCEPT ![p][o].pc = x, ![p][o].snap = s]
           \in [Procs -> [Ops -> Frame]]
<1>. DEFINE f == [[frame[p][o] EXCEPT !.pc = x] EXCEPT !.snap = s]
            moved == [frame EXCEPT ![p][o].pc = x]
<1>1. frame[p][o] \in Frame
  BY DEF StatusTypeOK
<1>2. f \in Frame
  BY <1>1 DEF Frame
<1>3. moved[p][o] = [frame[p][o] EXCEPT !.pc = x]
  BY DEF StatusTypeOK
<1>4. [moved EXCEPT ![p][o].snap = s] = [moved EXCEPT ![p][o] = f]
  <2>. HIDE DEF moved
  <2>. QED
    BY <1>3
<1>5. [moved EXCEPT ![p][o] = f] = [frame EXCEPT ![p][o] = f]
  <2>. HIDE DEF f
  <2>. QED
    BY DEF StatusTypeOK
<1>6. [frame EXCEPT ![p][o] = f] \in [Procs -> [Ops -> Frame]]
  <2>. HIDE DEF f
  <2>. QED
    BY <1>2, SetFrameType
<1>. QED
  BY <1>4, <1>5, <1>6, Zenon

LEMMA StutterType ==
  /\ ChainTypeOK /\ UNCHANGED chainVars => ChainTypeOK'
  /\ StoreTypeOK /\ UNCHANGED storeVars => StoreTypeOK'
  /\ StatusTypeOK /\ UNCHANGED statusVars => StatusTypeOK'
  /\ ProcTypeOK /\ UNCHANGED procVars => ProcTypeOK'
  /\ WorldTypeOK /\ UNCHANGED worldVars => WorldTypeOK'
BY DEF ChainTypeOK, chainVars, StoreTypeOK, storeVars, StatusTypeOK, statusVars,
       ProcTypeOK, procVars, WorldTypeOK, worldVars

LEMMA FinishType ==
  ASSUME StatusTypeOK, ProcTypeOK, NEW p \in Procs, Finish(p)
  PROVE  StatusTypeOK' /\ ProcTypeOK'
<1>1. StatusTypeOK'
  BY UnwindType DEF Finish
<1>2. ProcTypeOK'
  BY NoCallType, NoOpType DEF ProcTypeOK, Finish, Goto, Pcs
<1>. QED
  BY <1>1, <1>2

LEMMA ReceiveType ==
  ASSUME ChainTypeOK, NEW t \in Tx, Receive(t)
  PROVE  ChainTypeOK'
BY DEF ChainTypeOK, Receive

LEMMA ReleaseLockType ==
  ASSUME StoreTypeOK, NEW o \in Ops, ReleaseLock(o)
  PROVE  locks' \in [Accounts -> Lock]
BY DEF StoreTypeOK, ReleaseLock, NoLock, Lock

LEMMA TakeLockType ==
  ASSUME StoreTypeOK, NEW p \in Procs, NEW o \in Ops, TakeLock(p, o)
  PROVE  locks' \in [Accounts -> Lock]
BY DEF StoreTypeOK, TakeLock, Lock

LEMMA AbandonLocksType ==
  ASSUME StoreTypeOK, NEW p \in Procs, AbandonLocks(p)
  PROVE  locks' \in [Accounts -> Lock]
BY DEF StoreTypeOK, AbandonLocks, Lock

-----------------------------------------------------------------------------
(* TypeOK is an invariant *)

LEMMA InitType == Init => TypeOK
<1>. SUFFICES ASSUME Init PROVE TypeOK
  OBVIOUS
<1>1. ChainTypeOK
  BY NoncesType DEF Init, ChainInit, ChainTypeOK
<1>2. StoreTypeOK
  BY NoOpType DEF Init, StoreInit, StoreTypeOK, NoLock, Lock
<1>3. StatusTypeOK
  BY NoOpType, NoFrameType DEF Init, StatusInit, StatusTypeOK
<1>4. ProcTypeOK
  BY NoOpType, NoCallType DEF Init, ProcTypeOK, Pcs
<1>5. WorldTypeOK
  BY LimitsAssumption DEF Init, WorldTypeOK
<1>. QED
  BY <1>1, <1>2, <1>3, <1>4, <1>5 DEF TypeOK

LEMMA MineType ==
  ASSUME ChainTypeOK, NEW t \in mempool, Mine(t)
  PROVE  ChainTypeOK'
<1>1. t \in Tx /\ t.nonce \in Nonces /\ AccountOf[t.op] \in Accounts
  BY AccountOfAssumption DEF ChainTypeOK, Tx
<1>2. included' \in SUBSET Inclusion
  BY <1>1, OutcomesAssumption DEF ChainTypeOK, Mine, Inclusion
<1>3. nonceOf' \in [Accounts -> 0..(MaxNonce + 1)]
  BY <1>1, NoncesType DEF ChainTypeOK, Mine
<1>. QED
  BY <1>2, <1>3 DEF ChainTypeOK, Mine

LEMMA ReorgType ==
  ASSUME ChainTypeOK, NEW a \in Accounts, Reorg(a)
  PROVE  ChainTypeOK'
<1>1. PICK i \in included :
        /\ included' = included \ {i}
        /\ nonceOf' = [nonceOf EXCEPT ![a] = i.tx.nonce]
        /\ \E back \in SUBSET {t \in sent : AccountOf[t.op] = a
                                             /\ t.nonce = i.tx.nonce} :
             mempool' = mempool \cup back
  BY DEF Reorg
<1>2. i.tx.nonce \in 0..(MaxNonce + 1)
  BY NoncesType DEF ChainTypeOK, Inclusion, Tx, Nonces
<1>3. reorgs' \in 0..MaxReorgs
  BY NoncesType DEF ChainTypeOK, Reorg
<1>. QED
  BY <1>1, <1>2, <1>3 DEF ChainTypeOK, Reorg

LEMMA ChainStepType ==
  ASSUME ChainTypeOK, ChainStep
  PROVE  ChainTypeOK'
<1>1. CASE \E t \in mempool : Mine(t)
  BY <1>1, MineType
<1>2. CASE \E t \in mempool : Evict(t)
  BY <1>2 DEF ChainTypeOK, Evict
<1>3. CASE \E a \in Accounts : Reorg(a)
  BY <1>3, ReorgType
<1>. QED
  BY <1>1, <1>2, <1>3 DEF ChainStep

LEMMA StatusStepType ==
  ASSUME TypeOK, NEW p \in Procs, Status(p)
  PROVE  TypeOK'
<1>. USE DEF TypeOK
<1>1. ProcTypeOK' /\ WorldTypeOK'
  BY StutterType DEF Status
<1>2. ASSUME top[p] # None
      PROVE  /\ top[p] \in Ops /\ Snap(p) \in Operation
             /\ frame[p][top[p]].rcpt \in Inclusion \cup {None}
             /\ Snap(p).plan.repl \in Ops \cup {None}
             /\ ops[top[p]] \in Operation
  BY <1>2 DEF StatusTypeOK, StoreTypeOK, Snap, Frame, Operation, Plan
<1>0. ASSUME NEW x \in FramePcs, InStatus(p, x), x \notin {"off", "get"}
       PROVE  top[p] # None /\ Snap(p).hash # None
  BY <1>0 DEF StatusTypeOK, InStatus, Snap, Frame
<1>3. CASE StatusGet(p)
  <2>1. top[p] # None
    BY <1>3 DEF StatusGet, InStatus
  <2>2. ChainTypeOK' /\ StoreTypeOK'
    BY <1>3, StutterType DEF StatusGet
  <2>3. CASE ops[top[p]].hash = None
    <3>1. Return(p, ops[top[p]])
      BY <1>3, <2>3 DEF StatusGet
    <3>. QED
      BY <3>1, <2>1, <2>2, <1>1, <1>2, ReturnType
  <2>4. CASE ops[top[p]].hash # None
    <3>1. /\ frame' = [frame EXCEPT ![p][top[p]].pc = "receipt",
                                    ![p][top[p]].snap = ops[top[p]]]
          /\ UNCHANGED <<top, ret>>
      BY <1>3, <2>4 DEF StatusGet
    <3>2. ops[top[p]] \in Operation /\ top[p] \in Ops /\ "receipt" \in FramePcs
      BY <2>1, <1>2 DEF FramePcs
    <3>3. frame' \in [Procs -> [Ops -> Frame]]
      BY <3>1, <3>2, <2>4, MoveSnapType
    <3>4. StatusTypeOK'
      BY <3>1, <3>3 DEF StatusTypeOK
    <3>. QED
      BY <3>4, <2>2, <1>1
  <2>. QED
    BY <2>3, <2>4
<1>4. CASE StatusReceipt(p)
  <2>1. top[p] # None
    BY <1>4 DEF StatusReceipt, InStatus
  <2>2. ChainTypeOK' /\ StoreTypeOK'
    BY <1>4, StutterType DEF StatusReceipt
  <2>3. InclusionsOf(Snap(p).hash) \subseteq Inclusion
    BY DEF InclusionsOf, ChainTypeOK
  <2>4. StatusTypeOK'
    <3>1. frame[p][top[p]].snap.hash # None
      BY <1>4, <1>0 DEF StatusReceipt, FramePcs, Snap
    <3>2. PICK i \in InclusionsOf(Snap(p).hash) :
            frame' = [frame EXCEPT ![p][top[p]].pc = "block",
                                   ![p][top[p]].rcpt = i]
      BY <1>4 DEF StatusReceipt
    <3>3. top[p] \in Ops /\ i \in Inclusion /\ "block" \in FramePcs
      BY <2>1, <2>3, <1>2 DEF FramePcs
    <3>4. frame' \in [Procs -> [Ops -> Frame]]
      BY <3>1, <3>2, <3>3, MoveReceiptType
    <3>. QED
      BY <1>4, <3>4 DEF StatusReceipt, StatusTypeOK
  <2>. QED
    BY <2>2, <2>4, <1>1
<1>5. ASSUME SettleWithoutReceipt(p), top[p] # None, UNCHANGED <<locks, chainVars>>
      PROVE  TypeOK'
  <2>1. ChainTypeOK'
    BY <1>5, StutterType
  <2>2. StoreTypeOK' /\ StatusTypeOK'
    BY <1>5, <1>2, RestoredType, SaveType, ReturnType
       DEF SettleWithoutReceipt, StoreTypeOK
  <2>. QED
    BY <2>1, <2>2, <1>1
<1>6. CASE StatusNoReceipt(p)
  <2>1. top[p] # None
    BY <1>6 DEF StatusNoReceipt, InStatus
  <2>2. CASE Snap(p).plan.repl # None
    <3>1. ChainTypeOK' /\ StoreTypeOK'
      BY <1>6, <2>2, StutterType DEF StatusNoReceipt, StoreTypeOK
    <3>2. [NoFrame EXCEPT !.pc = "get", !.caller = top[p]] \in Frame
      BY <2>1, <1>2, NoFrameType DEF Frame, FramePcs
    <3>. DEFINE called == [NoFrame EXCEPT !.pc = "get", !.caller = top[p]]
                waiting == [frame EXCEPT ![p][top[p]].pc = "original"]
    <3>3. waiting \in [Procs -> [Ops -> Frame]]
      <4>1. frame[p][top[p]].snap.hash # None
        BY <1>6, <1>0 DEF StatusNoReceipt, FramePcs, Snap
      <4>. QED
        BY <4>1, <2>1, <1>2, MoveFrameType DEF FramePcs
    <3>4. frame' = [waiting EXCEPT ![p][Snap(p).plan.repl] = called]
      BY <1>6, <2>2 DEF StatusNoReceipt
    <3>5. frame' \in [Procs -> [Ops -> Frame]]
      <4>. HIDE DEF waiting, called
      <4>1. called \in Frame
        BY <3>2 DEF called
      <4>. QED
        BY <3>3, <3>4, <4>1
    <3>6. StatusTypeOK'
      BY <1>6, <2>1, <2>2, <3>5, <1>2 DEF StatusNoReceipt, StatusTypeOK
    <3>. QED
      BY <3>1, <3>6, <1>1
  <2>3. CASE Snap(p).plan.repl = None
    BY <1>6, <2>1, <2>3, <1>5 DEF StatusNoReceipt
  <2>. QED
    BY <2>2, <2>3
<1>7. CASE StatusOriginal(p)
  <2>1. top[p] # None /\ ChainTypeOK'
    BY <1>7, StutterType DEF StatusOriginal, InStatus
  <2>2. CASE Save(top[p], Superseded(Snap(p))) /\ Return(p, Superseded(Snap(p)))
    <3>1. StoreTypeOK' /\ StatusTypeOK'
      BY <1>7, <2>1, <2>2, <1>2, SupersededType, SaveType, ReturnType
         DEF StatusOriginal, StoreTypeOK
    <3>. QED
      BY <3>1, <2>1, <1>1
  <2>. QED
    BY <1>7, <2>1, <2>2, <1>5 DEF StatusOriginal
<1>8. CASE StatusBlock(p)
  <2>1. top[p] # None /\ ChainTypeOK'
    BY <1>8, StutterType DEF StatusBlock, InStatus
  <2>. DEFINE s == Snap(p)
              i == frame[p][top[p]].rcpt
  <2>2. CASE i \notin included
    <3>1. StoreTypeOK' /\ StatusTypeOK'
      BY <1>8, <2>1, <2>2, <1>2, RestoredType, SaveType, ReturnType
         DEF StatusBlock, StoreTypeOK
    <3>. QED
      BY <3>1, <2>1, <1>1
  <2>3. CASE i \in included
    <3>1. /\ frame' = [frame EXCEPT ![p][top[p]].pc = "finality"]
          /\ UNCHANGED <<top, ret, storeVars>>
      BY <1>8, <2>3 DEF StatusBlock, storeVars
    <3>2. s.hash # None
      BY <1>8, <1>0 DEF StatusBlock, FramePcs
    <3>3. i \in Inclusion /\ frame[p][top[p]].snap.hash # None /\ top[p] \in Ops
      BY <2>1, <2>3, <3>2, <1>2 DEF ChainTypeOK, Snap
    <3>4. StatusTypeOK'
      BY <3>1, <3>3, MoveFrameType DEF StatusTypeOK, FramePcs
    <3>5. StoreTypeOK'
      BY <3>1, StutterType
    <3>. QED
      BY <3>4, <3>5, <2>1, <1>1
  <2>. QED
    BY <2>2, <2>3
<1>10. CASE StatusFinality(p)
  <2>1. top[p] # None /\ ChainTypeOK'
    BY <1>10, StutterType DEF StatusFinality, InStatus
  <2>. DEFINE s == Snap(p)
              i == frame[p][top[p]].rcpt
  <2>2. s.hash # None
    BY <1>10, <1>0 DEF StatusFinality, FramePcs
  <2>3. i \in Inclusion
    BY <1>10, <2>1, <1>2 DEF StatusFinality, InStatus, StatusTypeOK, Frame
  <2>4. Outcome(s, i) \in Operation /\ Outcome(s, i).hash # None
    BY <2>1, <2>2, <2>3, <1>2, OutcomeType
  <2>5. StoreTypeOK'
    BY <1>10, <2>1, <2>4, <1>2, SaveType DEF StatusFinality, StoreTypeOK
  <2>6. CASE s.plan.repl = None
    BY <1>10, <2>1, <2>4, <2>5, <2>6, <1>1, <1>2, ReturnType DEF StatusFinality
  <2>7. CASE s.plan.repl # None
    <3>1. /\ frame' = [frame EXCEPT ![p][top[p]].pc = "relink",
                                     ![p][top[p]].snap = Outcome(s, i)]
          /\ UNCHANGED <<top, ret>>
      BY <1>10, <2>7 DEF StatusFinality
    <3>2. StatusTypeOK'
      BY <3>1, <2>1, <2>4, <1>2, MoveSnapType DEF StatusTypeOK, FramePcs
    <3>. QED
      BY <3>2, <2>5, <2>1, <1>1
  <2>. QED
    BY <2>6, <2>7
<1>9. CASE StatusRelink(p)
  <2>1. top[p] # None /\ ChainTypeOK'
    BY <1>9, StutterType DEF StatusRelink, InStatus
  <2>. DEFINE original == Snap(p).plan.repl
  <2>2. StatusTypeOK'
    BY <1>9, <2>1, <1>2, ReturnType DEF StatusRelink
  <2>3. StoreTypeOK'
    <3>1. ops' \in [Ops -> Operation]
      BY <1>9, SupersededType DEF StatusRelink, Save, StoreTypeOK
    <3>. QED
      BY <1>9, <3>1 DEF StatusRelink, StoreTypeOK
  <2>. QED
    BY <2>1, <2>2, <2>3, <1>1
<1>. QED
  BY <1>3, <1>4, <1>6, <1>7, <1>8, <1>9, <1>10 DEF Status, StatusStep

-----------------------------------------------------------------------------
(* Steps of commands *)

LEMMA FinishTypeOK ==
  ASSUME TypeOK, NEW p \in Procs, Finish(p),
         ChainTypeOK', StoreTypeOK', WorldTypeOK'
  PROVE  TypeOK'
BY FinishType DEF TypeOK

LEMMA CallFacts ==
  ASSUME TypeOK, NEW p \in Procs, pc[p] # "idle"
  PROVE  /\ call[p].op \in Ops
         /\ AccountOf[call[p].op] \in Accounts
         /\ call[p].key \in Ops \cup {None}
         /\ call[p].fee \in Fees
         /\ work[p] \in Operation /\ ret[p] \in Operation
         /\ nonce[p] \in Nonces \cup {NoNonce}
         /\ ops[call[p].op] \in Operation
BY AccountOfAssumption
   DEF TypeOK, ProcTypeOK, StatusTypeOK, StoreTypeOK, Call

\* The transaction of a plan with a known nonce.
LEMMA TheTxType ==
  ASSUME NEW o \in Ops, NEW plan \in Plan, NEW n \in Nonces
  PROVE  /\ TheTx(o, plan, n) \in Tx /\ TheTx(o, plan, n) # None
         /\ TheTx(o, plan, n).op = o
BY NoneAssumption DEF TheTx, Tx, Plan

LEMMA EnvironmentType ==
  ASSUME TypeOK, Environment
  PROVE  TypeOK'
<1>. USE DEF TypeOK
<1>1. CASE ChainStep /\ UNCHANGED <<storeVars, statusVars, procVars, worldVars>>
  BY <1>1, ChainStepType, StutterType
<1>2. ASSUME NEW t \in asks, WalletSubmits(t)
      PROVE  TypeOK'
  <2>1. PICK n \in {t.nonce} \cup PendingNonces(AccountOf[t.op]) :
          Receive([t EXCEPT !.nonce = n])
    BY <1>2 DEF WalletSubmits
  <2>2. [t EXCEPT !.nonce = n] \in Tx
    BY DEF WorldTypeOK, PendingNonces, Tx
  <2>3. ChainTypeOK'
    BY <2>1, <2>2, ReceiveType
  <2>4. StoreTypeOK' /\ StatusTypeOK' /\ ProcTypeOK'
    BY <1>2, StutterType DEF WalletSubmits
  <2>. QED
    BY <1>2, <2>3, <2>4 DEF WalletSubmits, WorldTypeOK
<1>3. ASSUME NEW t \in asks, WalletDrops(t)
      PROVE  TypeOK'
  BY <1>3, StutterType DEF WalletDrops, WorldTypeOK
<1>4. ASSUME NEW o \in Ops, Prepare(o)
      PROVE  TypeOK'
  <2>1. ops' \in [Ops -> Operation]
    BY <1>4, BlankType, BasePlanType, SaveType DEF Prepare
  <2>. QED
    BY <1>4, <2>1, StutterType DEF Prepare, StoreTypeOK
<1>5. ASSUME NEW o \in Ops, Expire(o)
      PROVE  TypeOK'
  BY <1>5, StutterType DEF Expire, WorldTypeOK
<1>. QED
  BY <1>1, <1>2, <1>3, <1>4, <1>5 DEF Environment

LEMMA RequestType ==
  ASSUME TypeOK, NEW p \in Procs, NEW o \in Ops, Request(p, o)
  PROVE  TypeOK'
<1>. USE DEF TypeOK
<1>1. CASE CallStatus(p, o)
  <2>1. StatusTypeOK'
    BY <1>1, EnterType DEF CallStatus
  <2>2. ProcTypeOK'
    BY <1>1, NoCallType DEF CallStatus, Begin, Goto, ProcTypeOK, Pcs, Call
  <2>. QED
    BY <1>1, <2>1, <2>2, StutterType DEF CallStatus
<1>2. CASE CallExecute(p, o)
  <2>1. StatusTypeOK'
    BY <1>2, EnterType DEF CallExecute
  <2>2. PICK approval \in Plan \cup {None} :
          Begin(p, "execute", [NoCall EXCEPT !.op = o, !.approval = approval])
    BY <1>2 DEF CallExecute, StoreTypeOK, Operation
  <2>3. ProcTypeOK'
    BY <1>2, <2>2, NoCallType DEF CallExecute, Begin, Goto, ProcTypeOK, Pcs, Call
  <2>. QED
    BY <1>2, <2>1, <2>3, StutterType DEF CallExecute
<1>3. CASE CallAttach(p, o)
  <2>1. ProcTypeOK'
    BY <1>3, NoCallType
       DEF CallAttach, Begin, Goto, Keep, ProcTypeOK, StoreTypeOK, Pcs, Call
  <2>. QED
    BY <1>3, <2>1, StutterType DEF CallAttach
<1>4. CASE CallCancel(p, o)
  <2>1. ProcTypeOK'
    BY <1>4, NoCallType
       DEF CallCancel, Begin, Goto, ProcTypeOK, Pcs, LockedPcs, Call
  <2>2. StoreTypeOK'
    BY <1>4, TakeLockType DEF CallCancel, StoreTypeOK
  <2>. QED
    BY <1>4, <2>1, <2>2, StutterType DEF CallCancel
<1>5. ASSUME NEW k \in Ops, NEW f \in Fees, CallReplace(p, o, k, f)
      PROVE  TypeOK'
  <2>1. StatusTypeOK'
    BY <1>5, EnterType DEF CallReplace
  <2>2. ProcTypeOK'
    BY <1>5, NoCallType DEF CallReplace, Begin, Goto, ProcTypeOK, Pcs, Call
  <2>. QED
    BY <1>5, <2>1, <2>2, StutterType DEF CallReplace
<1>. QED
  BY <1>1, <1>2, <1>3, <1>4, <1>5 DEF Request

LEMMA ExecuteStepType ==
  ASSUME TypeOK, NEW p \in Procs, ExecuteStep(p)
  PROVE  TypeOK'
<1>. USE DEF TypeOK
<1>1. CASE Acquire(p)
  <2>1. pc[p] # "idle"
    BY <1>1 DEF Acquire, At
  <2>2. StatusTypeOK' /\ StoreTypeOK'
    BY <1>1, <2>1, CallFacts, EnterType, TakeLockType DEF Acquire, StoreTypeOK
  <2>3. ProcTypeOK'
    BY <1>1, <2>1 DEF Acquire, Goto, ProcTypeOK, Pcs, LockedPcs
  <2>. QED
    BY <1>1, <2>2, <2>3, StutterType DEF Acquire
<1>2. CASE Refuse(p)
  BY <1>2, FinishTypeOK, StutterType DEF Refuse
<1>3. CASE Dispatch(p)
  <2>1. pc[p] # "idle"
    BY <1>3 DEF Dispatch, At
  <2>2. ret[p] \in Operation /\ call[p].op \in Ops
    BY <2>1, CallFacts
  <2>3. ret[p].plan.repl \in Ops \cup {None}
    BY <2>2 DEF Operation, Plan
  <2>4. StatusTypeOK'
    BY <1>3, <2>2, <2>3, EnterType, StutterType DEF Dispatch
  <2>5. ProcTypeOK'
    BY <1>3, <2>1, <2>2 DEF Dispatch, Goto, Keep, ProcTypeOK, Pcs, LockedPcs
  <2>. QED
    BY <1>3, <2>4, <2>5, StutterType DEF Dispatch
<1>4. CASE CheckOriginal(p)
  <2>1. ProcTypeOK'
    BY <1>4 DEF CheckOriginal, At, Goto, ProcTypeOK, Pcs, LockedPcs
  <2>. QED
    BY <1>4, <2>1, StutterType DEF CheckOriginal
<1>5. CASE PickNonce(p)
  <2>1. pc[p] # "idle"
    BY <1>5 DEF PickNonce, At
  <2>2. work[p].plan \in Plan /\ call[p].op \in Ops
    BY <2>1, CallFacts DEF Operation
  <2>3. PICK n \in IF work[p].plan.repl # None THEN {work[p].plan.nonce}
                    ELSE PendingNonces(AccountOf[call[p].op]) :
          nonce' = [nonce EXCEPT ![p] = n]
    BY <1>5 DEF PickNonce
  <2>4. n \in Nonces /\ n # NoNonce
    BY <2>2, NoNonceFresh DEF PendingNonces, Plan
  <2>5. ProcTypeOK'
    BY <1>5, <2>1, <2>3, <2>4 DEF PickNonce, Goto, ProcTypeOK, Pcs, LockedPcs
  <2>6. WorldTypeOK'
    BY <1>5, <2>2 DEF PickNonce, WorldTypeOK
  <2>. QED
    BY <1>5, <2>5, <2>6, StutterType DEF PickNonce
<1>6. CASE SignLocal(p)
  <2>. DEFINE t == TheTx(call[p].op, work[p].plan, nonce[p])
              signed == [tag |-> "submitting", plan |-> work[p].plan, hash |-> t,
                         nonce |-> nonce[p], signed |-> t]
  <2>1. pc[p] = "sign" /\ call[p].op \in Ops /\ work[p].plan \in Plan
    BY <1>6, CallFacts DEF SignLocal, At, Operation
  <2>2. nonce[p] \in Nonces /\ nonce[p] # NoNonce
    BY <2>1 DEF ProcTypeOK
  <2>3. t \in Tx /\ t # None
    BY <2>1, <2>2, TheTxType
  <2>4. signed \in Operation
    <3>. HIDE DEF t
    <3>. QED
      BY <2>1, <2>2, <2>3
         DEF Operation, Tags, Unresolved, Settled, InFlight
  <2>5. Save(call[p].op, signed) /\ Keep(p, signed) /\ signed.tag \in InFlight
    BY <1>6 DEF SignLocal, InFlight
  <2>. HIDE DEF signed
  <2>6. ProcTypeOK'
    BY <1>6, <2>1, <2>4, <2>5
       DEF SignLocal, Goto, Keep, ProcTypeOK, Pcs, LockedPcs
  <2>7. StoreTypeOK'
    BY <1>6, <2>1, <2>4, <2>5, SaveType DEF SignLocal, StoreTypeOK
  <2>. QED
    BY <1>6, <2>6, <2>7, StutterType DEF SignLocal
<1>7. ASSUME At(p, "broadcast")
      PROVE  work[p].hash \in Tx /\ call[p].op \in Ops
  BY <1>7, CallFacts DEF At, ProcTypeOK, Operation
<1>8. CASE Broadcast(p)
  <2>1. ChainTypeOK'
    BY <1>8, <1>7, ReceiveType DEF Broadcast
  <2>2. ProcTypeOK'
    BY <1>8 DEF Broadcast, At, Goto, ProcTypeOK, Pcs, LockedPcs
  <2>. QED
    BY <1>8, <2>1, <2>2, StutterType DEF Broadcast
<1>9. CASE BroadcastUnconfirmed(p)
  <2>1. ChainTypeOK'
    BY <1>9, <1>7, ReceiveType, StutterType DEF BroadcastUnconfirmed
  <2>2. StatusTypeOK'
    BY <1>9, <1>7, EnterType DEF BroadcastUnconfirmed
  <2>3. ProcTypeOK'
    BY <1>9 DEF BroadcastUnconfirmed, At, Goto, ProcTypeOK, Pcs, LockedPcs
  <2>. QED
    BY <1>9, <2>1, <2>2, <2>3, StutterType DEF BroadcastUnconfirmed
<1>10. CASE SavePending(p)
  <2>. DEFINE s == [work[p] EXCEPT !.tag = "pending", !.signed = work[p].hash]
  <2>1. pc[p] = "savePending" /\ call[p].op \in Ops /\ work[p] \in Operation
    BY <1>10, CallFacts DEF SavePending, At
  <2>2. work[p].tag \in InFlight
    BY <2>1 DEF ProcTypeOK
  <2>3. s \in Operation
    BY <2>1, <2>2 DEF Operation, Tags, Unresolved, Settled, InFlight
  <2>4. StoreTypeOK'
    <3>1. Save(call[p].op, s)
      BY <1>10 DEF SavePending
    <3>. HIDE DEF s
    <3>. QED
      BY <1>10, <2>1, <2>3, <3>1, SaveType DEF SavePending, StoreTypeOK
  <2>5. StatusTypeOK'
    BY <1>10, <2>1, EnterType DEF SavePending
  <2>6. ProcTypeOK'
    BY <1>10, <2>1 DEF SavePending, Goto, ProcTypeOK, Pcs, LockedPcs
  <2>. QED
    BY <1>10, <2>4, <2>5, <2>6, StutterType DEF SavePending
<1>11. CASE Unlock(p)
  <2>1. StoreTypeOK'
    BY <1>11, CallFacts, ReleaseLockType DEF Unlock, At, StoreTypeOK
  <2>. QED
    BY <1>11, <2>1, FinishTypeOK, StutterType DEF Unlock
<1>. QED
  BY <1>1, <1>2, <1>3, <1>4, <1>5, <1>6, <1>8, <1>9, <1>10, <1>11
     DEF ExecuteStep

LEMMA WalletStepType ==
  ASSUME TypeOK, NEW p \in Procs, WalletStep(p)
  PROVE  TypeOK'
<1>. USE DEF TypeOK
<1>. DEFINE asked == [Blank("walletPending", work[p].plan) EXCEPT !.nonce = nonce[p]]
<1>1. ASSUME pc[p] \in {"sign", "ask"}
      PROVE  /\ call[p].op \in Ops /\ work[p] \in Operation
             /\ nonce[p] \in Nonces
             /\ TheTx(call[p].op, work[p].plan, nonce[p]) \in Tx
             /\ asked \in Operation
             /\ \A t \in Tx : [Blank("walletPending", work[p].plan)
                               EXCEPT !.nonce = nonce[p], !.hash = t] \in Operation
  <2>1. call[p].op \in Ops /\ work[p] \in Operation /\ work[p].plan \in Plan
    BY <1>1, CallFacts DEF Operation
  <2>2. nonce[p] \in Nonces
    BY <1>1 DEF ProcTypeOK
  <2>3. TheTx(call[p].op, work[p].plan, nonce[p]) \in Tx
    BY <2>1, <2>2, TheTxType
  <2>4. asked \in Operation
    BY <2>1, <2>2 DEF Blank, Operation, Tags, Unresolved, Settled, InFlight
  <2>5. \A t \in Tx : [Blank("walletPending", work[p].plan)
                       EXCEPT !.nonce = nonce[p], !.hash = t] \in Operation
    BY <2>1, <2>2 DEF Blank, Operation, Tags, Unresolved, Settled, InFlight
  <2>. QED
    BY <2>1, <2>2, <2>3, <2>4, <2>5
<1>2. CASE AskWallet(p)
  <2>1. pc[p] = "sign"
    BY <1>2 DEF AskWallet, At
  <2>2. StoreTypeOK'
    <3>1. Save(call[p].op, asked)
      BY <1>2 DEF AskWallet
    <3>. HIDE DEF asked
    <3>. QED
      BY <1>2, <2>1, <3>1, <1>1, SaveType DEF AskWallet, StoreTypeOK
  <2>3. ProcTypeOK'
    BY <1>2, <2>1 DEF AskWallet, Goto, ProcTypeOK, Pcs, LockedPcs
  <2>4. WorldTypeOK'
    BY <1>2, <2>1, <1>1 DEF AskWallet, WorldTypeOK
  <2>. QED
    BY <1>2, <2>2, <2>3, <2>4, StutterType DEF AskWallet
<1>3. CASE WalletRejects(p)
  <2>1. pc[p] = "ask"
    BY <1>3 DEF WalletRejects, At
  <2>2. StoreTypeOK'
    BY <1>3, <2>1, <1>1, SaveType DEF WalletRejects, StoreTypeOK
  <2>3. ProcTypeOK'
    BY <1>3, <2>1 DEF WalletRejects, Goto, ProcTypeOK, Pcs, LockedPcs
  <2>4. WorldTypeOK'
    BY <1>3 DEF WalletRejects, WorldTypeOK
  <2>. QED
    BY <1>3, <2>2, <2>3, <2>4, StutterType DEF WalletRejects
<1>4. CASE WalletAnswers(p)
  <2>1. pc[p] = "ask"
    BY <1>4 DEF WalletAnswers, At
  <2>2. PICK t \in sent :
          Save(call[p].op, [Blank("walletPending", work[p].plan)
                              EXCEPT !.nonce = nonce[p], !.hash = t])
    BY <1>4 DEF WalletAnswers
  <2>3. StoreTypeOK'
    BY <1>4, <2>1, <2>2, <1>1, SaveType DEF WalletAnswers, ChainTypeOK, StoreTypeOK
  <2>4. StatusTypeOK'
    BY <1>4, <2>1, <1>1, EnterType DEF WalletAnswers
  <2>5. ProcTypeOK'
    BY <1>4, <2>1 DEF WalletAnswers, Goto, ProcTypeOK, Pcs, LockedPcs
  <2>. QED
    BY <1>4, <2>3, <2>4, <2>5, StutterType DEF WalletAnswers
<1>5. CASE WalletLost(p)
  <2>1. ProcTypeOK'
    BY <1>5 DEF WalletLost, At, Goto, ProcTypeOK, Pcs, LockedPcs
  <2>. QED
    BY <1>5, <2>1, StutterType DEF WalletLost
<1>6. CASE Attach(p)
  <2>1. /\ pc[p] = "attach" /\ call[p].op \in Ops /\ work[p] \in Operation
        /\ work[p].tag = "walletPending"
    BY <1>6, CallFacts DEF Attach, At, ProcTypeOK
  <2>2. PICK t \in Attachable(p) : Save(call[p].op, [work[p] EXCEPT !.hash = t])
    BY <1>6 DEF Attach
  <2>3. t \in Tx
    BY DEF Attachable, ChainTypeOK
  <2>4. [work[p] EXCEPT !.hash = t] \in Operation
    BY <2>1, <2>3 DEF Operation, Unresolved, Settled, InFlight
  <2>5. StoreTypeOK'
    BY <1>6, <2>1, <2>2, <2>4, SaveType DEF Attach, StoreTypeOK
  <2>6. StatusTypeOK'
    BY <1>6, <2>1, EnterType DEF Attach
  <2>7. ProcTypeOK'
    BY <1>6, <2>1 DEF Attach, Goto, ProcTypeOK, Pcs
  <2>. QED
    BY <1>6, <2>5, <2>6, <2>7, StutterType DEF Attach
<1>. QED
  BY <1>2, <1>3, <1>4, <1>5, <1>6 DEF WalletStep

LEMMA OtherStepType ==
  ASSUME TypeOK, NEW p \in Procs, OtherStep(p)
  PROVE  TypeOK'
<1>. USE DEF TypeOK
<1>1. CASE Done(p)
  BY <1>1, FinishTypeOK, StutterType DEF Done
<1>2. CASE Cancel(p)
  <2>1. pc[p] = "cancel" /\ call[p].op \in Ops
    BY <1>2, CallFacts DEF Cancel, At
  <2>2. ops[call[p].op].plan \in Plan
    BY <2>1 DEF StoreTypeOK, Operation
  <2>3. StoreTypeOK'
    BY <1>2, <2>1, <2>2, BlankType, SaveType DEF Cancel, StoreTypeOK
  <2>4. ProcTypeOK'
    BY <1>2, <2>1 DEF Cancel, Goto, ProcTypeOK, Pcs, LockedPcs
  <2>. QED
    BY <1>2, <2>3, <2>4, StutterType DEF Cancel
<1>3. CASE PrepareReplacement(p)
  <2>. DEFINE k == call[p].key
              prepared == IF ops[k].tag = "absent" THEN Blank("prepared", BasePlan)
                                                   ELSE ops[k]
  <2>1. pc[p] = "replace" /\ call[p].op \in Ops /\ ret[p] \in Operation
    BY <1>3, CallFacts DEF PrepareReplacement, At
  <2>2. k \in Ops
    BY <2>1 DEF ProcTypeOK
  <2>3. prepared \in Operation
    BY <2>2, BlankType, BasePlanType DEF StoreTypeOK
  <2>4. StoreTypeOK' /\ ChainTypeOK' /\ WorldTypeOK'
    <3>1. Save(k, prepared)
      BY <1>3 DEF PrepareReplacement
    <3>. HIDE DEF prepared
    <3>. QED
      BY <1>3, <2>2, <2>3, <3>1, SaveType, StutterType
         DEF PrepareReplacement, StoreTypeOK
  <2>5. CASE Finish(p)
    BY <2>4, <2>5, FinishTypeOK
  <2>6. CASE /\ Keep(p, prepared) /\ nonce' = [nonce EXCEPT ![p] = ret[p].nonce]
             /\ Goto(p, "replaceSave") /\ UNCHANGED <<statusVars, call>>
    <3>1. ret[p].nonce \in Nonces /\ ret[p].nonce # NoNonce
      BY <1>3, <2>1 DEF PrepareReplacement, Replaceable, Operation
    <3>2. ProcTypeOK'
      <4>. HIDE DEF prepared
      <4>. QED
        BY <2>1, <2>3, <2>6, <3>1 DEF Keep, Goto, ProcTypeOK, Pcs
    <3>. QED
      BY <2>4, <2>6, <3>2, StutterType
  <2>. QED
    BY <1>3, <2>5, <2>6 DEF PrepareReplacement
<1>4. CASE RefuseReplacement(p)
  BY <1>4, FinishTypeOK, StutterType DEF RefuseReplacement
<1>5. CASE SaveReplacement(p)
  <2>1. pc[p] = "replaceSave" /\ call[p].op \in Ops /\ call[p].fee \in Fees
    BY <1>5, CallFacts DEF SaveReplacement, At
  <2>2. call[p].key \in Ops /\ nonce[p] \in Nonces /\ nonce[p] # NoNonce
    BY <2>1 DEF ProcTypeOK
  <2>3. [fee |-> call[p].fee, repl |-> call[p].op, nonce |-> nonce[p]] \in Plan
    BY <2>1, <2>2, NoneAssumption DEF Plan
  <2>4. StoreTypeOK'
    BY <1>5, <2>2, <2>3, BlankType, SaveType DEF SaveReplacement, StoreTypeOK
  <2>. QED
    BY <1>5, <2>4, FinishTypeOK, StutterType DEF SaveReplacement
<1>. QED
  BY <1>1, <1>2, <1>3, <1>4, <1>5 DEF OtherStep

LEMMA ErrorType ==
  ASSUME TypeOK, NEW p \in Procs, Error(p)
  PROVE  TypeOK'
<1>. USE DEF TypeOK
<1>1. CASE pc[p] \in LockedPcs
  <2>1. ProcTypeOK'
    BY <1>1, <1>1 DEF Error, Goto, ProcTypeOK, Pcs, LockedPcs
  <2>. QED
    BY <1>1, <2>1, UnwindType, StutterType DEF Error
<1>2. CASE pc[p] \notin LockedPcs
  BY <1>2, FinishTypeOK, StutterType DEF Error
<1>. QED
  BY <1>1, <1>2

LEMMA CrashType ==
  ASSUME TypeOK, NEW p \in Procs, Crash(p)
  PROVE  TypeOK'
<1>1. WorldTypeOK'
  BY LimitsAssumption DEF Crash, TypeOK, WorldTypeOK
<1>2. StoreTypeOK'
  BY AbandonLocksType DEF Crash, TypeOK, StoreTypeOK
<1>. QED
  BY <1>1, <1>2, FinishTypeOK, StutterType DEF Crash, TypeOK

LEMMA NextType == TypeOK /\ [Next]_vars => TypeOK'
<1>. SUFFICES ASSUME TypeOK, [Next]_vars PROVE TypeOK'
  OBVIOUS
<1>1. ASSUME NEW p \in Procs, Step(p) PROVE TypeOK'
  BY <1>1, StatusStepType, ExecuteStepType, WalletStepType, OtherStepType,
     ErrorType DEF Step, Deny
<1>2. ASSUME NEW p \in Procs, Fail(p) PROVE TypeOK'
  BY <1>2, ErrorType DEF Fail
<1>3. CASE UNCHANGED vars
  BY <1>3, StutterType DEF vars, TypeOK
<1>. QED
  BY <1>1, <1>2, <1>3, CrashType, RequestType, EnvironmentType DEF Next

\* Every reachable row, lock, activation and register has its type: in
\* particular a submitting or pending row always carries bytes and a nonce
\* (model.ts:63), whoever wrote it back from a stale copy.
THEOREM TypeCorrect == Spec => []TypeOK
BY InitType, NextType, PTL DEF Spec

-----------------------------------------------------------------------------
(* The account lock *)

\* A step that leaves the lock rows alone and gives no process a locked part
\* of a command it was not in keeps LockHeld.
StaysLocked ==
  /\ UNCHANGED locks
  /\ \A q \in Procs : pc'[q] \in LockedPcs =>
       pc[q] \in LockedPcs /\ call'[q].op = call[q].op

LEMMA StaysLockedHeld == LockHeld /\ StaysLocked => LockHeld'
BY DEF LockHeld, StaysLocked

LEMMA FinishStaysLocked ==
  ASSUME TypeOK, NEW p \in Procs, Finish(p), UNCHANGED locks
  PROVE  StaysLocked
BY DEF StaysLocked, Finish, Goto, TypeOK, ProcTypeOK, LockedPcs

LEMMA GotoStaysLocked ==
  ASSUME TypeOK, NEW p \in Procs, NEW step, Goto(p, step),
         UNCHANGED <<call, locks>>, step \in LockedPcs => pc[p] \in LockedPcs
  PROVE  StaysLocked
BY DEF StaysLocked, Goto, TypeOK, ProcTypeOK

LEMMA ErrorStaysLocked ==
  ASSUME TypeOK, NEW p \in Procs, Error(p)
  PROVE  StaysLocked
<1>1. CASE pc[p] \in LockedPcs
  BY <1>1, GotoStaysLocked DEF Error, storeVars
<1>2. CASE pc[p] \notin LockedPcs
  BY <1>2, FinishStaysLocked DEF Error, storeVars
<1>. QED
  BY <1>1, <1>2

\* Taking the lock: MayLock shows that no live process holds the row.
LEMMA TakeHeld ==
  ASSUME TypeOK, LockHeld, NEW p \in Procs, NEW o \in Ops, NEW plan, NEW step,
         MayLock(o, plan), TakeLock(p, o), Goto(p, step), call'[p].op = o,
         \A q \in Procs \ {p} : call'[q] = call[q]
  PROVE  LockHeld'
<1>. SUFFICES ASSUME NEW q \in Procs, pc'[q] \in LockedPcs
              PROVE  locks'[AccountOf[call'[q].op]] = [op |-> call'[q].op, pid |-> q]
  BY DEF LockHeld
<1>1. AccountOf[o] \in Accounts /\ locks \in [Accounts -> Lock]
  BY AccountOfAssumption DEF TypeOK, StoreTypeOK
<1>2. CASE q = p
  BY <1>1, <1>2 DEF TakeLock
<1>3. CASE q # p
  <2>1. pc[q] \in LockedPcs /\ call'[q] = call[q]
    BY <1>3 DEF Goto, TypeOK, ProcTypeOK
  <2>2. locks[AccountOf[call[q].op]] = [op |-> call[q].op, pid |-> q]
    BY <2>1 DEF LockHeld
  <2>3. locks[AccountOf[o]].pid = Dead
    BY DEF MayLock
  <2>4. AccountOf[call[q].op] # AccountOf[o]
    BY <2>2, <2>3, DeadAssumption
  <2>. QED
    BY <1>1, <2>1, <2>2, <2>4 DEF TakeLock
<1>. QED
  BY <1>2, <1>3

\* Releasing it by operation id: no other locked process has a row with it.
LEMMA ReleaseHeld ==
  ASSUME TypeOK, LockHeld, NEW p \in Procs, pc[p] \in LockedPcs,
         ReleaseLock(call[p].op), Finish(p)
  PROVE  LockHeld'
<1>. SUFFICES ASSUME NEW q \in Procs, pc'[q] \in LockedPcs
              PROVE  locks'[AccountOf[call'[q].op]] = [op |-> call'[q].op, pid |-> q]
  BY DEF LockHeld
<1>1. q # p /\ pc[q] \in LockedPcs /\ call'[q] = call[q]
  BY DEF Finish, Goto, TypeOK, ProcTypeOK, LockedPcs
<1>2. pc[q] # "idle" /\ pc[p] # "idle"
  BY <1>1 DEF LockedPcs
<1>3. AccountOf[call[q].op] \in Accounts
  BY <1>2, CallFacts
<1>4. /\ locks[AccountOf[call[q].op]] = [op |-> call[q].op, pid |-> q]
      /\ locks[AccountOf[call[p].op]] = [op |-> call[p].op, pid |-> p]
  BY <1>1 DEF LockHeld
<1>5. call[q].op # call[p].op
  BY <1>1, <1>4
<1>. QED
  BY <1>1, <1>3, <1>4, <1>5 DEF ReleaseLock

\* The death of a process marks no row but its own.
LEMMA CrashHeld ==
  ASSUME TypeOK, LockHeld, NEW p \in Procs, Crash(p)
  PROVE  LockHeld'
<1>. SUFFICES ASSUME NEW q \in Procs, pc'[q] \in LockedPcs
              PROVE  locks'[AccountOf[call'[q].op]] = [op |-> call'[q].op, pid |-> q]
  BY DEF LockHeld
<1>1. q # p /\ pc[q] \in LockedPcs /\ call'[q] = call[q]
  BY DEF Crash, Finish, Goto, TypeOK, ProcTypeOK, LockedPcs
<1>2. AccountOf[call[q].op] \in Accounts
  BY <1>1, CallFacts DEF LockedPcs
<1>3. locks[AccountOf[call[q].op]] = [op |-> call[q].op, pid |-> q]
  BY <1>1 DEF LockHeld
<1>. QED
  BY <1>1, <1>2, <1>3 DEF Crash, AbandonLocks

LEMMA LockHeldNext == TypeOK /\ LockHeld /\ [Next]_vars => LockHeld'
<1>. SUFFICES ASSUME TypeOK, LockHeld, [Next]_vars PROVE LockHeld'
  OBVIOUS
<1>1. CASE UNCHANGED vars
  BY <1>1 DEF LockHeld, vars, storeVars, procVars
<1>2. CASE Environment
  BY <1>2 DEF LockHeld, Environment, WalletSubmits, WalletDrops, Prepare, Expire,
     storeVars, procVars
<1>3. ASSUME NEW p \in Procs, NEW o \in Ops, Request(p, o) PROVE LockHeld'
  <2>1. CASE CallCancel(p, o)
    <3>1. call' = [call EXCEPT ![p] = [NoCall EXCEPT !.op = o]]
      BY <2>1 DEF CallCancel, Begin
    <3>2. call'[p].op = o /\ \A q \in Procs \ {p} : call'[q] = call[q]
      BY <3>1 DEF TypeOK, ProcTypeOK, NoCall
    <3>. QED
      BY <2>1, <3>2, TakeHeld DEF CallCancel
  <2>2. ASSUME NEW step, NEW args, Begin(p, step, args), NEW s, s \notin LockedPcs,
               Goto(p, s), UNCHANGED locks
        PROVE  LockHeld'
    <3>1. StaysLocked
      BY <2>2 DEF StaysLocked, Begin, Goto, TypeOK, ProcTypeOK
    <3>. QED
      BY <3>1, StaysLockedHeld
  <2>3. CASE CallStatus(p, o)
    BY <2>2, <2>3 DEF CallStatus, LockedPcs, storeVars
  <2>4. CASE CallExecute(p, o)
    BY <2>2, <2>4 DEF CallExecute, LockedPcs, storeVars
  <2>5. CASE CallAttach(p, o)
    BY <2>2, <2>5 DEF CallAttach, LockedPcs, storeVars
  <2>6. CASE \E k \in Ops, f \in Fees : CallReplace(p, o, k, f)
    BY <2>2, <2>6 DEF CallReplace, LockedPcs, storeVars
  <2>. QED
    BY <1>3, <2>1, <2>3, <2>4, <2>5, <2>6 DEF Request
<1>4. ASSUME NEW p \in Procs, ExecuteStep(p) PROVE LockHeld'
  <2>1. CASE Acquire(p)
    <3>1. pc[p] # "idle"
      BY <2>1 DEF Acquire, At
    <3>. QED
      BY <2>1, <3>1, CallFacts, TakeHeld DEF Acquire
  <2>2. CASE Unlock(p)
    BY <2>2, ReleaseHeld DEF Unlock, At, LockedPcs
  <2>3. CASE Refuse(p)
    BY <2>3, FinishStaysLocked, StaysLockedHeld DEF Refuse, storeVars
  <2>4. CASE Dispatch(p) \/ CheckOriginal(p) \/ PickNonce(p)
    <3>1. StaysLocked
      BY <2>4, GotoStaysLocked
         DEF Dispatch, CheckOriginal, PickNonce, At, LockedPcs, storeVars
    <3>. QED
      BY <3>1, StaysLockedHeld
  <2>5. CASE SignLocal(p)
    BY <2>5, GotoStaysLocked, StaysLockedHeld DEF SignLocal, At, LockedPcs
  <2>6. CASE Broadcast(p)
    BY <2>6, GotoStaysLocked, StaysLockedHeld DEF Broadcast, At, LockedPcs, storeVars
  <2>7. CASE BroadcastUnconfirmed(p)
    BY <2>7, GotoStaysLocked, StaysLockedHeld
       DEF BroadcastUnconfirmed, At, LockedPcs, storeVars
  <2>8. CASE SavePending(p)
    BY <2>8, GotoStaysLocked, StaysLockedHeld DEF SavePending, At, LockedPcs
  <2>. QED
    BY <1>4, <2>1, <2>2, <2>3, <2>4, <2>5, <2>6, <2>7, <2>8 DEF ExecuteStep
<1>5. ASSUME NEW p \in Procs, WalletStep(p) PROVE LockHeld'
  <2>1. CASE AskWallet(p) \/ WalletRejects(p) \/ WalletAnswers(p)
    BY <2>1, GotoStaysLocked, StaysLockedHeld
       DEF AskWallet, WalletRejects, WalletAnswers, At, LockedPcs
  <2>2. CASE WalletLost(p) \/ Attach(p)
    BY <2>2, GotoStaysLocked, StaysLockedHeld
       DEF WalletLost, Attach, At, LockedPcs, storeVars
  <2>. QED
    BY <1>5, <2>1, <2>2 DEF WalletStep
<1>6. ASSUME NEW p \in Procs, OtherStep(p) PROVE LockHeld'
  <2>1. CASE Cancel(p)
    BY <2>1, GotoStaysLocked, StaysLockedHeld DEF Cancel, At, LockedPcs
  <2>2. CASE PrepareReplacement(p)
    <3>1. CASE Finish(p)
      BY <2>2, <3>1, FinishStaysLocked, StaysLockedHeld DEF PrepareReplacement
    <3>2. CASE Goto(p, "replaceSave") /\ UNCHANGED call
      BY <2>2, <3>2, GotoStaysLocked, StaysLockedHeld
         DEF PrepareReplacement, LockedPcs
    <3>. QED
      BY <2>2, <3>1, <3>2 DEF PrepareReplacement
  <2>3. CASE Done(p) \/ RefuseReplacement(p) \/ SaveReplacement(p)
    BY <2>3, FinishStaysLocked, StaysLockedHeld
       DEF Done, RefuseReplacement, SaveReplacement, storeVars
  <2>. QED
    BY <1>6, <2>1, <2>2, <2>3 DEF OtherStep
<1>7. ASSUME NEW p \in Procs, Status(p) PROVE LockHeld'
  <2>1. UNCHANGED locks /\ UNCHANGED procVars
    BY <1>7 DEF Status, StatusStep, StatusGet, StatusReceipt, StatusNoReceipt,
       StatusOriginal, StatusBlock, StatusFinality, StatusRelink, storeVars
  <2>. QED
    BY <2>1 DEF LockHeld, procVars
<1>8. ASSUME NEW p \in Procs, Deny(p) \/ Fail(p) PROVE LockHeld'
  BY <1>8, ErrorStaysLocked, StaysLockedHeld DEF Deny, Fail
<1>. QED
  BY <1>1, <1>2, <1>3, <1>4, <1>5, <1>6, <1>7, <1>8, CrashHeld DEF Next, Step

LEMMA LockInvariant == Spec => [](TypeOK /\ LockHeld)
<1>1. Init => LockHeld
  BY DEF Init, LockHeld, LockedPcs
<1>. QED
  BY <1>1, InitType, NextType, LockHeldNext, PTL DEF Spec

\* Between acquire and release a process owns the lock row of its account,
\* so unlock by operation id (storage.ts:101) never frees another's lock.
THEOREM LockIsHeld == Spec => []LockHeld
BY LockInvariant, PTL

\* Mutual exclusion: no two processes are inside the locked part of execute
\* or cancel for one account, whatever crashes.
THEOREM MutualExclusion == Spec => []LockExclusive
<1>1. ASSUME LockHeld PROVE LockExclusive
  <2>. SUFFICES ASSUME NEW p \in Procs, NEW q \in Procs,
                       pc[p] \in LockedPcs, pc[q] \in LockedPcs,
                       AccountOf[call[p].op] = AccountOf[call[q].op]
                PROVE  p = q
    BY DEF LockExclusive
  <2>1. locks[AccountOf[call[p].op]] = [op |-> call[p].op, pid |-> p]
    BY <1>1 DEF LockHeld
  <2>2. locks[AccountOf[call[q].op]] = [op |-> call[q].op, pid |-> q]
    BY <1>1 DEF LockHeld
  <2>. QED
    BY <2>1, <2>2
<1>. QED
  BY <1>1, LockInvariant, PTL

-----------------------------------------------------------------------------
(* The policy is charged before anything is sent *)

LEMMA StatusValuesCharged ==
  ASSUME NEW R, NEW s \in Operation, IsCharged(s, R)
  PROVE  /\ IsCharged(Restored(s), R)
         /\ IsCharged(Superseded(s), R)
         /\ \A i : IsCharged(Outcome(s, i), R)
<1>1. SignedOf(s) # None => SignedOf(s).op \in R
  BY DEF SignedOf, IsCharged
<1>2. IsCharged(Restored(s), R)
  <2>1. CASE SignedOf(s) # None
    <3>. DEFINE t == SignedOf(s)
    <3>1. Restored(s) = [s EXCEPT !.tag = "submitting", !.hash = t, !.nonce = t.nonce]
      BY <2>1 DEF Restored
    <3>2. t.op \in R
      BY <1>1, <2>1
    <3>. HIDE DEF t
    <3>. QED
      BY <3>1, <3>2 DEF IsCharged, Operation
  <2>2. CASE SignedOf(s) = None
    BY <2>2 DEF Restored, IsCharged, Operation
  <2>. QED
    BY <2>1, <2>2
<1>3. IsCharged(Superseded(s), R)
  BY DEF Superseded, IsCharged, Operation
<1>4. ASSUME NEW i PROVE IsCharged(Outcome(s, i), R)
  <2>. DEFINE t == SignedOf(s)
              tag == IF i.ok THEN "confirmed" ELSE "reverted"
  <2>1. Outcome(s, i) = [s EXCEPT !.tag = tag, !.nonce = NoNonce, !.signed = t]
    BY DEF Outcome
  <2>2. t # None => t.op \in R
    BY <1>1
  <2>. HIDE DEF t, tag
  <2>. QED
    BY <2>1, <2>2 DEF IsCharged, Operation
<1>. QED
  BY <1>2, <1>3, <1>4

LEMMA BlankCharged ==
  ASSUME NEW R, NEW tag, NEW plan
  PROVE  IsCharged(Blank(tag, plan), R)
BY DEF IsCharged, Blank

LEMMA NoOpCharged == \A R : IsCharged(NoOp, R)
BY BlankCharged DEF NoOp

LEMMA StutterCharged ==
  /\ RowsCharged /\ UNCHANGED <<ops, reserved>> => RowsCharged'
  /\ ActivationsCharged /\ UNCHANGED <<statusVars, reserved>> => ActivationsCharged'
  /\ RegistersCharged /\ UNCHANGED <<procVars, reserved>> => RegistersCharged'
  /\ RequestsCharged /\ UNCHANGED <<asks, sent, reserved>> => RequestsCharged'
BY DEF RowsCharged, ActivationsCharged, statusVars, RegistersCharged, procVars,
       RequestsCharged

LEMMA SaveCharged ==
  ASSUME TypeOK, RowsCharged, NEW o \in Ops, NEW s, IsCharged(s, reserved),
         Save(o, s), UNCHANGED reserved
  PROVE  RowsCharged'
BY DEF RowsCharged, Save, TypeOK, StoreTypeOK

LEMMA EnterCharged ==
  ASSUME TypeOK, ActivationsCharged, NEW p \in Procs, NEW o \in Ops, NEW c,
         Enter(p, o, c), UNCHANGED reserved
  PROVE  ActivationsCharged'
<1>1. [NoFrame EXCEPT !.pc = "get", !.caller = c].snap = NoOp
  BY DEF NoFrame
<1>. QED
  BY <1>1, NoOpCharged DEF ActivationsCharged, Enter, TypeOK, StatusTypeOK

LEMMA ReturnCharged ==
  ASSUME TypeOK, ActivationsCharged, NEW p \in Procs, top[p] # None,
         NEW s, IsCharged(s, reserved), Return(p, s), UNCHANGED reserved
  PROVE  ActivationsCharged'
<1>1. top[p] \in Ops /\ NoFrame.snap = NoOp
  BY DEF TypeOK, StatusTypeOK, NoFrame
<1>. QED
  BY <1>1, NoOpCharged DEF ActivationsCharged, Return, TypeOK, StatusTypeOK

LEMMA UnwindCharged ==
  ASSUME TypeOK, ActivationsCharged, NEW p \in Procs, Unwind(p), UNCHANGED reserved
  PROVE  ActivationsCharged'
<1>1. NoFrame.snap = NoOp
  BY DEF NoFrame
<1>. QED
  BY <1>1, NoOpCharged DEF ActivationsCharged, Unwind, TypeOK, StatusTypeOK

LEMMA GotoCharged ==
  ASSUME TypeOK, RegistersCharged, NEW p \in Procs, NEW step, Goto(p, step),
         step \notin {"sign", "ask"}, \A q \in Procs \ {p} : call'[q] = call[q],
         \/ UNCHANGED work
         \/ \E s : Keep(p, s) /\ IsCharged(s, reserved),
         UNCHANGED reserved
  PROVE  RegistersCharged'
BY DEF RegistersCharged, Goto, Keep, TypeOK, ProcTypeOK

LEMMA FinishCharged ==
  ASSUME TypeOK, ActivationsCharged, RegistersCharged, NEW p \in Procs, Finish(p),
         UNCHANGED reserved
  PROVE  ActivationsCharged' /\ RegistersCharged'
<1>1. ActivationsCharged'
  BY UnwindCharged DEF Finish
<1>2. /\ Goto(p, "idle") /\ Keep(p, NoOp)
      /\ \A q \in Procs \ {p} : call'[q] = call[q]
  BY DEF Finish, Keep, TypeOK, ProcTypeOK
<1>3. RegistersCharged'
  BY <1>2, NoOpCharged, GotoCharged
<1>. QED
  BY <1>1, <1>3

LEMMA ReceiveCharged ==
  ASSUME TypeOK, RequestsCharged, NEW t, t.op \in reserved, Receive(t),
         asks' \subseteq asks, UNCHANGED reserved
  PROVE  RequestsCharged'
BY DEF RequestsCharged, Receive

LEMMA StatusStepCharged ==
  ASSUME TypeOK, ChargedInv, NEW p \in Procs, Status(p)
  PROVE  ChargedInv'
<1>. USE DEF ChargedInv
<1>1. RegistersCharged'
  BY StutterCharged DEF Status, worldVars
<1>2. RequestsCharged'
  <2>1. UNCHANGED sent
    BY DEF Status, StatusStep, StatusGet, StatusReceipt, StatusNoReceipt,
       StatusOriginal, StatusBlock, StatusFinality, StatusRelink, chainVars
  <2>. QED
    BY <2>1, StutterCharged DEF Status, worldVars
<1>3. UNCHANGED reserved
  BY DEF Status, worldVars
<1>4. ASSUME top[p] # None
      PROVE  /\ top[p] \in Ops /\ Snap(p) \in Operation
             /\ IsCharged(Snap(p), reserved)
             /\ IsCharged(ops[top[p]], reserved)
  BY <1>4 DEF TypeOK, StatusTypeOK, Frame, Snap, ActivationsCharged, RowsCharged
\* Moving an activation without changing what it read.
<1>5. ASSUME top[p] # None, UNCHANGED <<ops, ret>>,
             \A q \in Procs, o \in Ops :
               \/ frame'[q][o].snap = frame[q][o].snap
               \/ IsCharged(frame'[q][o].snap, reserved)
      PROVE  ChargedInv'
  BY <1>5, <1>1, <1>2, <1>3 DEF ActivationsCharged, RowsCharged
<1>6. CASE StatusGet(p)
  <2>1. top[p] # None
    BY <1>6 DEF StatusGet, InStatus
  <2>2. CASE ops[top[p]].hash = None
    <3>1. Return(p, ops[top[p]]) /\ UNCHANGED ops
      BY <1>6, <2>2 DEF StatusGet, storeVars
    <3>. QED
      BY <3>1, <2>1, <1>1, <1>2, <1>3, <1>4, ReturnCharged, StutterCharged
  <2>3. CASE ops[top[p]].hash # None
    <3>1. /\ frame' = [frame EXCEPT ![p][top[p]].pc = "receipt",
                                    ![p][top[p]].snap = ops[top[p]]]
          /\ UNCHANGED <<ops, ret>>
      BY <1>6, <2>3 DEF StatusGet, storeVars
    <3>2. ASSUME NEW q \in Procs, NEW o \in Ops
          PROVE  \/ frame'[q][o].snap = frame[q][o].snap
                 \/ frame'[q][o].snap = ops[top[p]]
      BY <3>1, <2>1, <1>4 DEF TypeOK, StatusTypeOK, Frame
    <3>. QED
      BY <3>1, <3>2, <2>1, <1>4, <1>5
  <2>. QED
    BY <2>2, <2>3
<1>7. CASE StatusReceipt(p)
  <2>1. top[p] # None /\ UNCHANGED <<ops, ret>>
    BY <1>7 DEF StatusReceipt, InStatus, storeVars
  <2>2. PICK i \in InclusionsOf(Snap(p).hash) :
          frame' = [frame EXCEPT ![p][top[p]].pc = "block",
                                 ![p][top[p]].rcpt = i]
    BY <1>7 DEF StatusReceipt
  <2>3. ASSUME NEW q \in Procs, NEW o \in Ops
        PROVE  frame'[q][o].snap = frame[q][o].snap
    BY <2>1, <2>2, <1>4 DEF TypeOK, StatusTypeOK, Frame
  <2>. QED
    BY <2>1, <2>3, <1>5
<1>8. ASSUME SettleWithoutReceipt(p), top[p] # None
      PROVE  ChargedInv'
  <2>1. CASE Snap(p).tag \in Settled
    BY <1>1, <1>2, <1>3, <1>4, <1>8, <2>1, StatusValuesCharged, SaveCharged,
       ReturnCharged DEF SettleWithoutReceipt
  <2>2. CASE Snap(p).tag \notin Settled
    BY <1>1, <1>2, <1>3, <1>4, <1>8, <2>2, StutterCharged, ReturnCharged
       DEF SettleWithoutReceipt
  <2>. QED
    BY <2>1, <2>2
<1>9. CASE StatusNoReceipt(p)
  <2>1. top[p] # None
    BY <1>9 DEF StatusNoReceipt, InStatus
  <2>2. CASE Snap(p).plan.repl # None
    <3>. DEFINE called == [NoFrame EXCEPT !.pc = "get", !.caller = top[p]]
    <3>1. /\ frame' = [frame EXCEPT ![p][top[p]].pc = "original",
                                    ![p][Snap(p).plan.repl] = called]
          /\ UNCHANGED <<ops, ret>>
      BY <1>9, <2>2 DEF StatusNoReceipt
    <3>2. called.snap = NoOp
      BY DEF NoFrame
    <3>. HIDE DEF called
    <3>3. ASSUME NEW q \in Procs, NEW o \in Ops
          PROVE  \/ frame'[q][o].snap = frame[q][o].snap
                 \/ frame'[q][o].snap = NoOp
      BY <3>1, <3>2, <2>1, <1>4 DEF TypeOK, StatusTypeOK, Frame
    <3>. QED
      BY <3>1, <3>3, <2>1, <1>5, NoOpCharged
  <2>3. CASE Snap(p).plan.repl = None
    BY <1>9, <2>1, <2>3, <1>8 DEF StatusNoReceipt
  <2>. QED
    BY <2>2, <2>3
<1>10. CASE StatusOriginal(p)
  <2>1. top[p] # None
    BY <1>10 DEF StatusOriginal, InStatus
  <2>2. CASE ret[p].tag \in Settled
    BY <1>10, <2>1, <2>2, <1>1, <1>2, <1>3, <1>4, StatusValuesCharged, SaveCharged,
       ReturnCharged DEF StatusOriginal
  <2>3. CASE ret[p].tag \notin Settled
    BY <1>10, <2>1, <2>3, <1>8 DEF StatusOriginal
  <2>. QED
    BY <2>2, <2>3
<1>11. CASE StatusBlock(p)
  <2>. DEFINE i == frame[p][top[p]].rcpt
  <2>1. top[p] # None
    BY <1>11 DEF StatusBlock, InStatus
  <2>2. CASE i \notin included
    BY <1>11, <2>1, <2>2, <1>1, <1>2, <1>3, <1>4, StatusValuesCharged, SaveCharged,
       ReturnCharged DEF StatusBlock
  <2>3. CASE i \in included
    <3>1. frame' = [frame EXCEPT ![p][top[p]].pc = "finality"] /\ UNCHANGED <<ret, ops>>
      BY <1>11, <2>3 DEF StatusBlock
    <3>2. ASSUME NEW q \in Procs, NEW o \in Ops PROVE frame'[q][o].snap = frame[q][o].snap
      BY <3>1, <2>1, <1>4 DEF TypeOK, StatusTypeOK, Frame
    <3>3. ActivationsCharged'
      BY <3>1, <3>2, <1>3 DEF ActivationsCharged
    <3>4. RowsCharged'
      BY <3>1, <1>3 DEF RowsCharged
    <3>. QED
      BY <3>3, <3>4, <1>1, <1>2
  <2>. QED
    BY <2>2, <2>3
<1>13. CASE StatusFinality(p)
  <2>. DEFINE out == Outcome(Snap(p), frame[p][top[p]].rcpt)
  <2>1. top[p] # None
    BY <1>13 DEF StatusFinality, InStatus
  <2>2. IsCharged(out, reserved)
    BY <2>1, <1>4, StatusValuesCharged
  <2>3. RowsCharged'
    BY <1>13, <2>1, <2>2, <1>3, <1>4, SaveCharged DEF StatusFinality
  <2>4. CASE Snap(p).plan.repl = None
    BY <1>13, <2>1, <2>2, <2>3, <2>4, <1>1, <1>2, <1>3, ReturnCharged
       DEF StatusFinality
  <2>5. CASE Snap(p).plan.repl # None
    <3>1. /\ frame' = [frame EXCEPT ![p][top[p]].pc = "relink",
                                    ![p][top[p]].snap = out]
          /\ UNCHANGED ret
      BY <1>13, <2>5 DEF StatusFinality
    <3>. HIDE DEF out
    <3>2. ASSUME NEW q \in Procs, NEW o \in Ops
          PROVE  \/ frame'[q][o].snap = frame[q][o].snap
                 \/ frame'[q][o].snap = out
      BY <3>1, <2>1, <1>4 DEF TypeOK, StatusTypeOK, Frame
    <3>3. ActivationsCharged'
      BY <3>1, <3>2, <2>2, <1>3 DEF ActivationsCharged
    <3>. QED
      BY <3>3, <2>3, <1>1, <1>2
  <2>. QED
    BY <2>4, <2>5
<1>12. CASE StatusRelink(p)
  <2>. DEFINE original == Snap(p).plan.repl
  <2>1. top[p] # None
    BY <1>12 DEF StatusRelink, InStatus
  <2>2. ActivationsCharged'
    BY <1>12, <2>1, <1>3, <1>4, ReturnCharged DEF StatusRelink
  <2>3. RowsCharged'
    <3>1. CASE original \in Ops
      <4>1. IsCharged(Superseded(ops[original]), reserved)
        BY <3>1, StatusValuesCharged DEF RowsCharged, TypeOK, StoreTypeOK
      <4>. QED
        BY <1>12, <3>1, <4>1, <1>3, SaveCharged DEF StatusRelink
    <3>2. CASE original \notin Ops
      BY <1>12, <3>2, <1>3
         DEF StatusRelink, Save, RowsCharged, TypeOK, StoreTypeOK
    <3>. QED
      BY <3>1, <3>2
  <2>. QED
    BY <2>2, <2>3, <1>1, <1>2
<1>. QED
  BY <1>6, <1>7, <1>9, <1>10, <1>11, <1>12, <1>13 DEF Status, StatusStep

LEMMA ExecuteStepCharged ==
  ASSUME TypeOK, ChargedInv, NEW p \in Procs, ExecuteStep(p)
  PROVE  ChargedInv'
<1>. USE DEF ChargedInv
<1>1. CASE Acquire(p)
  <2>1. ActivationsCharged'
    BY <1>1, CallFacts, EnterCharged DEF Acquire, At, worldVars
  <2>2. RegistersCharged'
    BY <1>1, GotoCharged DEF Acquire, worldVars
  <2>. QED
    BY <1>1, <2>1, <2>2, StutterCharged DEF Acquire, chainVars, worldVars
<1>2. CASE Refuse(p)
  BY <1>2, FinishCharged, StutterCharged DEF Refuse, chainVars, storeVars, worldVars
<1>3. CASE Dispatch(p)
  <2>1. call[p].op \in Ops /\ ret[p].plan.repl \in Ops \cup {None}
    BY <1>3, CallFacts DEF Dispatch, At, Operation, Plan
  <2>2. IsCharged(ret[p], reserved) /\ UNCHANGED reserved
    BY <1>3 DEF ActivationsCharged, Dispatch, worldVars
  <2>3. ActivationsCharged'
    BY <1>3, <2>1, <2>2, EnterCharged, StutterCharged DEF Dispatch
  <2>4. RegistersCharged'
    BY <1>3, <2>2, GotoCharged DEF Dispatch
  <2>. QED
    BY <1>3, <2>2, <2>3, <2>4, StutterCharged DEF Dispatch, chainVars, storeVars, worldVars
<1>4. CASE CheckOriginal(p)
  <2>1. RegistersCharged'
    BY <1>4, GotoCharged DEF CheckOriginal, worldVars
  <2>. QED
    BY <1>4, <2>1, StutterCharged DEF CheckOriginal, chainVars, storeVars, worldVars
<1>5. CASE PickNonce(p)
  <2>. DEFINE o == call[p].op
  <2>1. /\ o \in Ops /\ reserved' = reserved \cup {o}
        /\ Goto(p, "sign") /\ MayCharge(o)
        /\ UNCHANGED <<ops, work, call, sent, asks, statusVars>>
    BY <1>5, CallFacts DEF PickNonce, At, chainVars, storeVars
  <2>2. \A s : IsCharged(s, reserved) => IsCharged(s, reserved')
    BY <2>1 DEF IsCharged
  <2>3. RowsCharged' /\ ActivationsCharged'
    BY <2>1, <2>2 DEF RowsCharged, ActivationsCharged, statusVars
  <2>4. RegistersCharged'
    BY <2>1, <2>2 DEF RegistersCharged, Goto, TypeOK, ProcTypeOK
  <2>5. RequestsCharged'
    <3>1. \A t \in asks' \cup sent' : t.op \in reserved'
      BY <2>1 DEF RequestsCharged
    <3>2. CASE o \in reserved
      BY <2>1, <3>1, <3>2 DEF RequestsCharged
    <3>3. CASE o \notin reserved
      <4>1. Cardinality(reserved) \in Nat /\ Cardinality(reserved) < Budget
        BY <2>1, <3>3, FS_CardinalityType DEF MayCharge, RequestsCharged
      <4>2. /\ IsFiniteSet(reserved')
            /\ Cardinality(reserved') = Cardinality(reserved) + 1
        BY <2>1, <3>3, FS_AddElement DEF RequestsCharged
      <4>. QED
        BY <3>1, <4>1, <4>2, LimitsAssumption DEF RequestsCharged
    <3>. QED
      BY <3>2, <3>3
  <2>. QED
    BY <2>3, <2>4, <2>5
<1>6. CASE SignLocal(p)
  <2>. DEFINE t == TheTx(call[p].op, work[p].plan, nonce[p])
              signed == [tag |-> "submitting", plan |-> work[p].plan, hash |-> t,
                         nonce |-> nonce[p], signed |-> t]
  <2>1. call[p].op \in Ops /\ call[p].op \in reserved
    BY <1>6, CallFacts DEF SignLocal, At, RegistersCharged
  <2>2. t.op = call[p].op
    BY DEF TheTx
  <2>. HIDE DEF t
  <2>3. IsCharged(signed, reserved)
    BY <2>1, <2>2 DEF IsCharged
  <2>4. /\ Save(call[p].op, signed) /\ Keep(p, signed) /\ Goto(p, "broadcast")
        /\ UNCHANGED <<reserved, call>>
    BY <1>6 DEF SignLocal, worldVars, t
  <2>. HIDE DEF signed
  <2>5. RowsCharged' /\ RegistersCharged'
    BY <2>1, <2>3, <2>4, SaveCharged, GotoCharged
  <2>. QED
    BY <1>6, <2>5, StutterCharged DEF SignLocal, chainVars, worldVars
<1>7. ASSUME At(p, "broadcast")
      PROVE  work[p].hash.op \in reserved /\ call[p].op \in Ops
  BY <1>7, CallFacts DEF At, RegistersCharged, IsCharged, TypeOK, ProcTypeOK, Operation
<1>8. CASE Broadcast(p)
  <2>1. RegistersCharged'
    BY <1>8, GotoCharged DEF Broadcast, worldVars
  <2>2. RequestsCharged'
    BY <1>8, <1>7, ReceiveCharged DEF Broadcast, worldVars
  <2>. QED
    BY <1>8, <2>1, <2>2, StutterCharged DEF Broadcast, storeVars, worldVars
<1>9. CASE BroadcastUnconfirmed(p)
  <2>1. ActivationsCharged' /\ RegistersCharged'
    BY <1>9, <1>7, EnterCharged, GotoCharged DEF BroadcastUnconfirmed, worldVars
  <2>2. RequestsCharged'
    BY <1>9, <1>7, ReceiveCharged, StutterCharged
       DEF BroadcastUnconfirmed, chainVars, worldVars
  <2>. QED
    BY <1>9, <2>1, <2>2, StutterCharged DEF BroadcastUnconfirmed, storeVars, worldVars
<1>10. CASE SavePending(p)
  <2>. DEFINE s == [work[p] EXCEPT !.tag = "pending", !.signed = work[p].hash]
  <2>1. call[p].op \in Ops /\ work[p] \in Operation /\ IsCharged(work[p], reserved)
    BY <1>10, CallFacts DEF SavePending, At, RegistersCharged
  <2>2. IsCharged(s, reserved)
    BY <2>1 DEF IsCharged, Operation
  <2>3. RowsCharged'
    <3>1. Save(call[p].op, s)
      BY <1>10 DEF SavePending
    <3>. HIDE DEF s
    <3>. QED
      BY <1>10, <2>1, <2>2, <3>1, SaveCharged DEF SavePending, worldVars
  <2>4. ActivationsCharged' /\ RegistersCharged'
    BY <1>10, <2>1, EnterCharged, GotoCharged DEF SavePending, worldVars
  <2>. QED
    BY <1>10, <2>3, <2>4, StutterCharged DEF SavePending, chainVars, worldVars
<1>11. CASE Unlock(p)
  BY <1>11, FinishCharged, StutterCharged DEF Unlock, chainVars, worldVars
<1>. QED
  BY <1>1, <1>2, <1>3, <1>4, <1>5, <1>6, <1>8, <1>9, <1>10, <1>11
     DEF ExecuteStep

LEMMA WalletStepCharged ==
  ASSUME TypeOK, ChargedInv, NEW p \in Procs, WalletStep(p)
  PROVE  ChargedInv'
<1>. USE DEF ChargedInv
<1>1. CASE AskWallet(p)
  <2>. DEFINE s == [Blank("walletPending", work[p].plan) EXCEPT !.nonce = nonce[p]]
              t == TheTx(call[p].op, work[p].plan, nonce[p])
  <2>1. call[p].op \in Ops /\ call[p].op \in reserved
    BY <1>1, CallFacts DEF AskWallet, At, RegistersCharged
  <2>2. IsCharged(s, reserved) /\ t.op = call[p].op
    BY DEF IsCharged, Blank, TheTx
  <2>3. Save(call[p].op, s) /\ asks' = asks \cup {t} /\ UNCHANGED <<reserved, sent>>
    BY <1>1 DEF AskWallet, chainVars
  <2>. HIDE DEF s, t
  <2>4. RowsCharged'
    BY <2>1, <2>2, <2>3, SaveCharged
  <2>5. RequestsCharged'
    BY <2>1, <2>2, <2>3 DEF RequestsCharged
  <2>6. RegistersCharged'
    BY <1>1, <2>1 DEF AskWallet, RegistersCharged, Goto, TypeOK, ProcTypeOK
  <2>. QED
    BY <1>1, <2>3, <2>4, <2>5, <2>6, StutterCharged DEF AskWallet
<1>2. CASE WalletRejects(p)
  <2>1. call[p].op \in Ops /\ IsCharged(work[p], reserved)
    BY <1>2, CallFacts DEF WalletRejects, At, RegistersCharged
  <2>2. RowsCharged' /\ RegistersCharged'
    BY <1>2, <2>1, SaveCharged, GotoCharged DEF WalletRejects
  <2>3. RequestsCharged'
    BY <1>2 DEF WalletRejects, RequestsCharged, chainVars
  <2>. QED
    BY <1>2, <2>2, <2>3, StutterCharged DEF WalletRejects
<1>3. CASE WalletAnswers(p)
  <2>1. PICK t \in sent :
          /\ t.op = call[p].op
          /\ Save(call[p].op, [Blank("walletPending", work[p].plan)
                                  EXCEPT !.nonce = nonce[p], !.hash = t])
    BY <1>3 DEF WalletAnswers
  <2>. DEFINE s == [Blank("walletPending", work[p].plan)
                      EXCEPT !.nonce = nonce[p], !.hash = t]
  <2>2. call[p].op \in Ops /\ t.op \in reserved
    BY <1>3, CallFacts DEF WalletAnswers, At, RequestsCharged
  <2>3. IsCharged(s, reserved)
    BY <2>2 DEF IsCharged, Blank
  <2>4. RowsCharged'
    <3>1. Save(call[p].op, s)
      BY <2>1
    <3>. HIDE DEF s
    <3>. QED
      BY <1>3, <2>2, <2>3, <3>1, SaveCharged DEF WalletAnswers, worldVars
  <2>5. ActivationsCharged' /\ RegistersCharged'
    BY <1>3, <2>2, EnterCharged, GotoCharged DEF WalletAnswers, worldVars
  <2>. QED
    BY <1>3, <2>4, <2>5, StutterCharged DEF WalletAnswers, chainVars, worldVars
<1>4. CASE WalletLost(p)
  <2>1. RegistersCharged'
    BY <1>4, GotoCharged DEF WalletLost, worldVars
  <2>. QED
    BY <1>4, <2>1, StutterCharged DEF WalletLost, chainVars, storeVars, worldVars
<1>5. CASE Attach(p)
  <2>1. /\ call[p].op \in Ops /\ work[p] \in Operation
        /\ IsCharged(work[p], reserved)
    BY <1>5, CallFacts DEF Attach, At, RegistersCharged
  <2>2. PICK t \in Attachable(p) : Save(call[p].op, [work[p] EXCEPT !.hash = t])
    BY <1>5 DEF Attach
  <2>. DEFINE s == [work[p] EXCEPT !.hash = t]
  <2>3. t.op \in reserved
    BY DEF Attachable, RequestsCharged
  <2>4. IsCharged(s, reserved)
    BY <2>1, <2>3 DEF IsCharged, Operation
  <2>5. RowsCharged'
    <3>1. Save(call[p].op, s)
      BY <2>2
    <3>. HIDE DEF s
    <3>. QED
      BY <1>5, <2>1, <2>4, <3>1, SaveCharged DEF Attach, worldVars
  <2>6. ActivationsCharged' /\ RegistersCharged'
    BY <1>5, <2>1, EnterCharged, GotoCharged DEF Attach, worldVars
  <2>. QED
    BY <1>5, <2>5, <2>6, StutterCharged DEF Attach, chainVars, worldVars
<1>. QED
  BY <1>1, <1>2, <1>3, <1>4, <1>5 DEF WalletStep

LEMMA OtherStepCharged ==
  ASSUME TypeOK, ChargedInv, NEW p \in Procs, OtherStep(p)
  PROVE  ChargedInv'
<1>. USE DEF ChargedInv
<1>1. CASE Done(p)
  BY <1>1, FinishCharged, StutterCharged DEF Done, chainVars, storeVars, worldVars
<1>2. CASE Cancel(p)
  <2>1. call[p].op \in Ops
    BY <1>2, CallFacts DEF Cancel, At
  <2>2. RowsCharged'
    BY <1>2, <2>1, BlankCharged, SaveCharged, StutterCharged DEF Cancel, worldVars
  <2>3. RegistersCharged'
    BY <1>2, GotoCharged DEF Cancel, worldVars
  <2>. QED
    BY <1>2, <2>2, <2>3, StutterCharged DEF Cancel, chainVars, worldVars
<1>3. CASE PrepareReplacement(p)
  <2>. DEFINE k == call[p].key
              prepared == IF ops[k].tag = "absent" THEN Blank("prepared", BasePlan)
                                                   ELSE ops[k]
  <2>1. k \in Ops /\ UNCHANGED <<reserved, asks, sent>>
    BY <1>3 DEF PrepareReplacement, At, TypeOK, ProcTypeOK, worldVars, chainVars
  <2>2. IsCharged(prepared, reserved)
    BY <2>1, BlankCharged DEF RowsCharged
  <2>. HIDE DEF prepared
  <2>3. Save(k, prepared)
    BY <1>3 DEF PrepareReplacement, prepared
  <2>4. RowsCharged' /\ RequestsCharged'
    BY <2>1, <2>2, <2>3, SaveCharged, StutterCharged
  <2>5. CASE Finish(p)
    BY <2>1, <2>4, <2>5, FinishCharged
  <2>6. CASE Keep(p, prepared) /\ Goto(p, "replaceSave") /\ UNCHANGED <<statusVars, call>>
    BY <2>1, <2>2, <2>4, <2>6, GotoCharged, StutterCharged
  <2>. QED
    BY <1>3, <2>5, <2>6 DEF PrepareReplacement, prepared
<1>4. CASE RefuseReplacement(p)
  BY <1>4, FinishCharged, StutterCharged
     DEF RefuseReplacement, chainVars, storeVars, worldVars
<1>5. CASE SaveReplacement(p)
  <2>1. call[p].key \in Ops
    BY <1>5 DEF SaveReplacement, At, TypeOK, ProcTypeOK
  <2>2. RowsCharged'
    BY <1>5, <2>1, BlankCharged, SaveCharged DEF SaveReplacement, worldVars
  <2>. QED
    BY <1>5, <2>2, FinishCharged, StutterCharged
       DEF SaveReplacement, chainVars, worldVars
<1>. QED
  BY <1>1, <1>2, <1>3, <1>4, <1>5 DEF OtherStep

LEMMA ErrorCharged ==
  ASSUME TypeOK, ChargedInv, NEW p \in Procs, Error(p)
  PROVE  ChargedInv'
<1>. USE DEF ChargedInv
<1>1. RowsCharged' /\ RequestsCharged' /\ UNCHANGED reserved
  BY StutterCharged DEF Error, chainVars, storeVars, worldVars
<1>2. CASE pc[p] \in LockedPcs
  BY <1>1, <1>2, UnwindCharged, GotoCharged DEF Error
<1>3. CASE pc[p] \notin LockedPcs
  BY <1>1, <1>3, FinishCharged DEF Error
<1>. QED
  BY <1>2, <1>3

LEMMA RequestCharged ==
  ASSUME TypeOK, ChargedInv, NEW p \in Procs, NEW o \in Ops, Request(p, o)
  PROVE  ChargedInv'
<1>. USE DEF ChargedInv
<1>1. /\ UNCHANGED <<ops, reserved, asks, sent>>
      /\ \A q \in Procs \ {p} : call'[q] = call[q]
  BY DEF Request, CallStatus, CallExecute, CallAttach, CallCancel, CallReplace, Begin,
     chainVars, storeVars, worldVars, TypeOK, ProcTypeOK
<1>2. RowsCharged' /\ RequestsCharged'
  BY <1>1, StutterCharged
<1>3. CASE CallStatus(p, o)
  BY <1>1, <1>2, <1>3, EnterCharged, GotoCharged DEF CallStatus
<1>4. CASE CallExecute(p, o)
  BY <1>1, <1>2, <1>4, EnterCharged, GotoCharged DEF CallExecute
<1>5. CASE CallAttach(p, o)
  BY <1>1, <1>2, <1>5, StutterCharged, GotoCharged DEF CallAttach, RowsCharged
<1>6. CASE CallCancel(p, o)
  BY <1>1, <1>2, <1>6, StutterCharged, GotoCharged DEF CallCancel
<1>7. CASE \E k \in Ops, f \in Fees : CallReplace(p, o, k, f)
  BY <1>1, <1>2, <1>7, EnterCharged, GotoCharged DEF CallReplace
<1>. QED
  BY <1>3, <1>4, <1>5, <1>6, <1>7 DEF Request

LEMMA EnvironmentCharged ==
  ASSUME TypeOK, ChargedInv, Environment
  PROVE  ChargedInv'
<1>. USE DEF ChargedInv
<1>1. CASE ChainStep /\ UNCHANGED <<storeVars, statusVars, procVars, worldVars>>
  <2>1. UNCHANGED sent
    BY <1>1 DEF ChainStep, Mine, Evict, Reorg
  <2>. QED
    BY <1>1, <2>1, StutterCharged DEF storeVars, worldVars
<1>2. ASSUME NEW t \in asks, WalletSubmits(t) PROVE ChargedInv'
  <2>1. PICK n \in {t.nonce} \cup PendingNonces(AccountOf[t.op]) :
          Receive([t EXCEPT !.nonce = n])
    BY <1>2 DEF WalletSubmits
  <2>2. [t EXCEPT !.nonce = n].op \in reserved
    BY DEF RequestsCharged, TypeOK, WorldTypeOK, Tx
  <2>3. RequestsCharged'
    BY <1>2, <2>1, <2>2, ReceiveCharged DEF WalletSubmits
  <2>. QED
    BY <1>2, <2>3, StutterCharged DEF WalletSubmits, storeVars
<1>3. ASSUME NEW t \in asks, WalletDrops(t) PROVE ChargedInv'
  <2>1. RequestsCharged'
    BY <1>3 DEF WalletDrops, RequestsCharged, chainVars
  <2>. QED
    BY <1>3, <2>1, StutterCharged DEF WalletDrops, storeVars
<1>4. ASSUME NEW o \in Ops, Prepare(o) PROVE ChargedInv'
  BY <1>4, BlankCharged, SaveCharged, StutterCharged DEF Prepare, chainVars, worldVars
<1>5. ASSUME NEW o \in Ops, Expire(o) PROVE ChargedInv'
  BY <1>5, StutterCharged DEF Expire, chainVars, storeVars
<1>. QED
  BY <1>1, <1>2, <1>3, <1>4, <1>5 DEF Environment

LEMMA CrashCharged ==
  ASSUME TypeOK, ChargedInv, NEW p \in Procs, Crash(p)
  PROVE  ChargedInv'
BY FinishCharged, StutterCharged DEF ChargedInv, Crash, chainVars

LEMMA ChargedNext == TypeOK /\ ChargedInv /\ [Next]_vars => ChargedInv'
<1>. SUFFICES ASSUME TypeOK, ChargedInv, [Next]_vars PROVE ChargedInv'
  OBVIOUS
<1>1. ASSUME NEW p \in Procs, Step(p) PROVE ChargedInv'
  BY <1>1, StatusStepCharged, ExecuteStepCharged, WalletStepCharged,
     OtherStepCharged, ErrorCharged DEF Step, Deny
<1>2. ASSUME NEW p \in Procs, Fail(p) PROVE ChargedInv'
  BY <1>2, ErrorCharged DEF Fail
<1>3. CASE UNCHANGED vars
  BY <1>3, StutterCharged DEF vars, ChargedInv, chainVars, storeVars, worldVars
<1>. QED
  BY <1>1, <1>2, <1>3, CrashCharged, RequestCharged, EnvironmentCharged DEF Next

LEMMA ChargedInit == Init => ChargedInv
<1>. SUFFICES ASSUME Init PROVE ChargedInv
  OBVIOUS
<1>1. RowsCharged
  BY NoOpCharged DEF Init, StoreInit, RowsCharged
<1>2. ActivationsCharged
  BY NoOpCharged DEF Init, StatusInit, ActivationsCharged, NoFrame
<1>3. RegistersCharged
  BY NoOpCharged DEF Init, RegistersCharged
<1>4. RequestsCharged
  BY FS_EmptySet, LimitsAssumption DEF Init, ChainInit, RequestsCharged
<1>. QED
  BY <1>1, <1>2, <1>3, <1>4 DEF ChargedInv

\* Every transaction that reaches the network or a wallet was charged to the
\* policy before, once, and the budget is never exceeded: also after crashes,
\* retries, reorganisations and stale writes, on any number of accounts.
THEOREM PolicyIsCharged == Spec => []SentIsCharged
<1>1. TypeOK /\ ChargedInv => SentIsCharged
  BY DEF ChargedInv, RequestsCharged, SentIsCharged
<1>. QED
  BY <1>1, InitType, NextType, ChargedInit, ChargedNext, PTL DEF Spec

-----------------------------------------------------------------------------
(* The journal *)

\* No process rewrites a prepared row: prepareReplacement's second save loses
\* bytes (the run viol_replace_bytes), so the theorems are about the rest.
NoReplacement == "replace" \notin Commands

\* Every signer is a key the toolkit holds.
LocalKeys == External = {} /\ NoReplacement

-----------------------------------------------------------------------------
(* The copies of a row that processes hold *)

\* The copies of operation o that process p holds.
Held(p, o) ==
  {frame[p][o].snap} \cup (IF call[p].op = o THEN {ret[p], work[p]} ELSE {})

\* Every copy of o satisfies R: the row and what processes hold of it.
IsPlain(s) == s.plan.repl = None
PlainCopies ==
  \A o \in Ops : /\ IsPlain(ops[o])
                 /\ \A p \in Procs : \A s \in Held(p, o) : IsPlain(s)

\* Without replacements a status never calls itself, and a process runs one on
\* the operation of its command only.
Direct(p) ==
  /\ pc[p] \notin {"original", "replace", "replaceSave"}
  /\ top[p] \in {None, call[p].op}
  /\ pc[p] = "idle" =>
       call[p].op = None /\ top[p] = None /\ ret[p] = NoOp /\ work[p] = NoOp
  /\ pc[p] \in {"nonce", "sign", "ask"} => work[p].tag = "prepared"
  /\ pc[p] = "ask" => p \in External
  /\ \A o \in Ops : frame[p][o].pc \notin {"original", "relink"}
                    /\ frame[p][o].caller = None

PlainInv == PlainCopies /\ \A p \in Procs : Direct(p)

\* p is about to sign, or will be sent there by the status it has read.
IsWorking(p) ==
  \/ pc[p] \in {"nonce", "sign"}
  \/ At(p, "locked") /\ ret[p].tag = "prepared"

-----------------------------------------------------------------------------
(* What a step of process p does to processes *)

OthersKeep(p) ==
  \A q \in Procs \ {p} :
    /\ pc'[q] = pc[q] /\ call'[q] = call[q] /\ work'[q] = work[q]
    /\ nonce'[q] = nonce[q]
    /\ frame'[q] = frame[q] /\ top'[q] = top[q] /\ ret'[q] = ret[q]

\* A receipt was read, and is checked or was.
Checking(f) == f.pc \in {"block", "finality"}

\* An activation starts from nothing, or from the row it reads.
Snaps(p) ==
  \A o \in Ops :
    /\ frame'[p][o].pc \notin {"original", "relink"} /\ frame'[p][o].caller = None
    /\ frame'[p][o].snap \in {NoOp, ops[o], frame[p][o].snap}
    /\ Checking(frame'[p][o]) =>
         /\ frame'[p][o].snap = frame[p][o].snap
         /\ \/ Checking(frame[p][o]) /\ frame'[p][o].rcpt = frame[p][o].rcpt
            \/ frame'[p][o].rcpt \in InclusionsOf(frame[p][o].snap.hash)

\* A register of a command is empty, or a copy the command already had, or the
\* row before or after the step.
IsOwnCopy(p, s, o) ==
  \/ s \in {NoOp, ops[o], ops'[o]}
  \/ call[p].op = o /\ s \in {ret[p], work[p], frame[p][o].snap}

Registers(p) ==
  \A o \in Ops : call'[p].op = o => IsOwnCopy(p, ret'[p], o) /\ IsOwnCopy(p, work'[p], o)

\* Who is about to sign was so before, or has just read the row as prepared.
Works(p) ==
  IsWorking(p)' => /\ call'[p] = call[p] /\ pc[p] \in {"locked", "nonce", "sign"}
                   /\ IsWorking(p) \/ ops[call[p].op].tag = "prepared"

\* Who holds the lock with work to do held it before, or took it while no
\* other operation of the account was unresolved.
HolderPcs == {"locked", "nonce", "sign", "broadcast", "savePending"}
Alone(o) == \A q \in Ops \ {o} : AccountOf[q] = AccountOf[o] => ~IsUnresolved(q)
Holds(p) ==
  pc'[p] \in HolderPcs => /\ call'[p] = call[p]
                          /\ \/ pc[p] \in HolderPcs
                             \/ Alone(call[p].op) /\ UNCHANGED ops

\* A process that signs has just picked its nonce, or keeps the one it had.
Picks(p) ==
  pc'[p] = "sign" => \/ pc[p] = "sign" /\ nonce'[p] = nonce[p]
                     \/ pc[p] = "nonce" /\ nonce'[p] \in PendingNonces(AccountOf[call[p].op])

Moves(p) ==
  /\ OthersKeep(p) /\ Snaps(p) /\ Registers(p) /\ Works(p) /\ Direct(p)'
  /\ Holds(p) /\ Picks(p)

-----------------------------------------------------------------------------
(* Building blocks *)

LEMMA NoneFresh == None \notin Ops
BY NoneAssumption

LEMMA CallPlain ==
  ASSUME TypeOK, PlainInv, NEW p \in Procs, pc[p] # "idle"
  PROVE  /\ call[p].op \in Ops
         /\ IsPlain(ret[p]) /\ IsPlain(work[p])
         /\ \A o \in Ops : IsPlain(frame[p][o].snap)
<1>1. call[p].op \in Ops
  BY CallFacts
<1>. QED
  BY <1>1 DEF PlainInv, PlainCopies, Held

\* A status call of the command ...
LEMMA EnterMoves ==
  ASSUME TypeOK, NEW p \in Procs, NEW o \in Ops, Enter(p, o, None), Direct(p)
  PROVE  /\ Snaps(p) /\ top'[p] = o /\ ret' = ret
         /\ \A q \in Procs \ {p} : frame'[q] = frame[q] /\ top'[q] = top[q]
<1>. DEFINE f == [NoFrame EXCEPT !.pc = "get", !.caller = None]
<1>1. f.pc = "get" /\ f.caller = None /\ f.snap = NoOp
  BY DEF NoFrame
<1>2. frame' = [frame EXCEPT ![p][o] = f] /\ top' = [top EXCEPT ![p] = o]
  BY DEF Enter
<1>. HIDE DEF f
<1>3. Snaps(p)
  BY <1>1, <1>2 DEF Snaps, Checking, Direct, TypeOK, StatusTypeOK
<1>. QED
  BY <1>2, <1>3 DEF Enter, TypeOK, StatusTypeOK

\* ... its return ...
LEMMA ReturnMoves ==
  ASSUME TypeOK, NEW p \in Procs, NEW s, Return(p, s), Direct(p), top[p] # None
  PROVE  /\ Snaps(p) /\ top'[p] = None /\ ret'[p] = s /\ top[p] = call[p].op
         /\ \A q \in Procs \ {p} :
              frame'[q] = frame[q] /\ top'[q] = top[q] /\ ret'[q] = ret[q]
<1>1. top[p] \in Ops /\ top[p] = call[p].op
  BY DEF Direct, TypeOK, StatusTypeOK
<1>2. frame[p][top[p]].caller = None
  BY <1>1 DEF Direct
<1>3. NoFrame.pc = "off" /\ NoFrame.caller = None /\ NoFrame.snap = NoOp
  BY DEF NoFrame
<1>4. Snaps(p)
  BY <1>1, <1>3 DEF Return, Snaps, Checking, Direct, TypeOK, StatusTypeOK
<1>. QED
  BY <1>1, <1>2, <1>4 DEF Return, TypeOK, StatusTypeOK

\* ... and its end with the command.
LEMMA UnwindMoves ==
  ASSUME TypeOK, NEW p \in Procs, Unwind(p)
  PROVE  /\ Snaps(p) /\ top'[p] = None /\ ret'[p] = NoOp
         /\ \A q \in Procs \ {p} :
              frame'[q] = frame[q] /\ top'[q] = top[q] /\ ret'[q] = ret[q]
<1>1. NoFrame.pc = "off" /\ NoFrame.caller = None /\ NoFrame.snap = NoOp
  BY DEF NoFrame
<1>2. Snaps(p)
  BY <1>1 DEF Unwind, Snaps, Checking, TypeOK, StatusTypeOK
<1>. QED
  BY <1>2 DEF Unwind, TypeOK, StatusTypeOK

LEMMA StutterMoves ==
  ASSUME TypeOK, NEW p \in Procs, Direct(p), UNCHANGED statusVars
  PROVE  Snaps(p)
BY DEF Snaps, Direct, statusVars, TypeOK, StatusTypeOK

LEMMA FinishMoves ==
  ASSUME TypeOK, NEW p \in Procs, Finish(p)
  PROVE  Moves(p)
<1>1. /\ Snaps(p) /\ top'[p] = None /\ ret'[p] = NoOp
      /\ \A q \in Procs \ {p} :
           frame'[q] = frame[q] /\ top'[q] = top[q] /\ ret'[q] = ret[q]
  BY UnwindMoves DEF Finish
<1>2. pc'[p] = "idle" /\ call'[p] = NoCall /\ work'[p] = NoOp
  BY DEF Finish, Goto, TypeOK, ProcTypeOK
<1>3. OthersKeep(p)
  BY <1>1 DEF OthersKeep, Finish, Goto, TypeOK, ProcTypeOK
<1>4. NoCall.op = None
  BY DEF NoCall
<1>5. Registers(p)
  BY <1>2, <1>4, NoneFresh DEF Registers
<1>6. Works(p) /\ Holds(p) /\ Picks(p)
  BY <1>2 DEF Works, IsWorking, At, Holds, HolderPcs, Picks
<1>7. Direct(p)'
  BY <1>1, <1>2, <1>4 DEF Direct, Snaps
<1>. QED
  BY <1>1, <1>3, <1>5, <1>6, <1>7 DEF Moves

-----------------------------------------------------------------------------
(* Every step moves one process at most *)

\* A step of p to another pc that leaves its activations alone.
LEMMA GotoMoves ==
  ASSUME TypeOK, NEW p \in Procs, Direct(p), pc[p] # "idle", NEW step,
         Goto(p, step), step \notin {"idle", "original", "replace", "replaceSave"},
         UNCHANGED <<statusVars, call>>,
         \/ UNCHANGED work
         \/ Keep(p, ret[p])
         \/ Keep(p, ops'[call[p].op]),
         step \in {"nonce", "sign"} => IsWorking(p),
         step = "locked" => pc[p] = "locked",
         step = "ask" => p \in External,
         step \in {"nonce", "sign", "ask"} => work'[p].tag = "prepared",
         step \in HolderPcs => pc[p] \in HolderPcs,
         \/ UNCHANGED nonce /\ step # "sign"
         \/ \E n \in PendingNonces(AccountOf[call[p].op]) :
              pc[p] = "nonce" /\ nonce' = [nonce EXCEPT ![p] = n]
  PROVE  Moves(p)
<1>1. /\ pc' = [pc EXCEPT ![p] = step] /\ UNCHANGED <<frame, top, ret, call>>
  BY DEF Goto, statusVars
<1>2. OthersKeep(p)
  BY <1>1 DEF OthersKeep, Keep, TypeOK, ProcTypeOK
<1>3. Snaps(p)
  BY StutterMoves
<1>4. work'[p] \in {work[p], ret[p], ops'[call[p].op]}
  BY DEF Keep, TypeOK, ProcTypeOK
<1>5. Registers(p)
  BY <1>1, <1>4 DEF Registers, IsOwnCopy
<1>6. pc'[p] = step
  BY <1>1 DEF TypeOK, ProcTypeOK
<1>7. Works(p)
  BY <1>1, <1>6 DEF Works, IsWorking, At
<1>8. Direct(p)'
  BY <1>1, <1>6 DEF Direct
<1>9. Holds(p) /\ Picks(p)
  BY <1>1, <1>6 DEF Holds, Picks, TypeOK, ProcTypeOK
<1>. QED
  BY <1>2, <1>3, <1>5, <1>7, <1>8, <1>9 DEF Moves

\* A step of p that ends in a status call of its own operation.
LEMMA StatusCallMoves ==
  ASSUME TypeOK, NEW p \in Procs, Direct(p), pc[p] # "idle", NEW step,
         Goto(p, step), Enter(p, call[p].op, None), UNCHANGED call,
         step \notin {"idle", "original", "replace", "replaceSave",
                      "nonce", "sign", "ask"},
         \/ UNCHANGED work
         \/ Keep(p, ret[p]),
         UNCHANGED nonce, step \in HolderPcs => Alone(call[p].op) /\ UNCHANGED ops
  PROVE  Moves(p)
<1>1. call[p].op \in Ops
  BY CallFacts
<1>2. /\ Snaps(p) /\ top'[p] = call[p].op /\ ret' = ret
      /\ \A q \in Procs \ {p} : frame'[q] = frame[q] /\ top'[q] = top[q]
  BY <1>1, EnterMoves
<1>3. pc' = [pc EXCEPT ![p] = step] /\ pc'[p] = step
  BY DEF Goto, TypeOK, ProcTypeOK
<1>4. OthersKeep(p)
  BY <1>2, <1>3 DEF OthersKeep, Keep, TypeOK, ProcTypeOK
<1>5. work'[p] \in {work[p], ret[p]}
  BY DEF Keep, TypeOK, ProcTypeOK
<1>6. Registers(p)
  BY <1>2, <1>5 DEF Registers, IsOwnCopy
<1>7. Works(p)
  BY <1>1, <1>2, <1>3, NoneFresh DEF Works, IsWorking, At
<1>8. Direct(p)'
  BY <1>2, <1>3 DEF Direct, Snaps
<1>9. Holds(p) /\ Picks(p)
  BY <1>3 DEF Holds, Picks
<1>. QED
  BY <1>2, <1>4, <1>6, <1>7, <1>8, <1>9 DEF Moves

\* A request to a process that is idle.
LEMMA BeginMoves ==
  ASSUME TypeOK, NEW p \in Procs, NEW o \in Ops, PlainInv, NEW step, NEW command,
         NEW args, args.op = o, Begin(p, command, args), Goto(p, step),
         step \notin {"idle", "original", "replace", "replaceSave", "ask"} \cup HolderPcs,
         UNCHANGED statusVars \/ Enter(p, o, None),
         UNCHANGED work \/ Keep(p, ops[o]), UNCHANGED nonce
  PROVE  Moves(p)
<1>1. /\ pc[p] = "idle" /\ call' = [call EXCEPT ![p] = args] /\ call'[p] = args
      /\ pc' = [pc EXCEPT ![p] = step] /\ pc'[p] = step
  BY DEF Begin, Goto, TypeOK, ProcTypeOK
<1>2. top[p] = None /\ ret[p] = NoOp /\ work[p] = NoOp /\ Direct(p)
  BY <1>1 DEF PlainInv, Direct
<1>3. /\ Snaps(p) /\ top'[p] \in {None, o} /\ ret' = ret
      /\ \A q \in Procs \ {p} : frame'[q] = frame[q] /\ top'[q] = top[q]
  <2>1. CASE UNCHANGED statusVars
    BY <2>1, <1>2, StutterMoves DEF statusVars
  <2>2. CASE Enter(p, o, None)
    BY <2>2, <1>2, EnterMoves
  <2>. QED
    BY <2>1, <2>2
<1>4. OthersKeep(p)
  BY <1>1, <1>3 DEF OthersKeep, Keep, TypeOK, ProcTypeOK
<1>5. work'[p] \in {NoOp, ops[o]} /\ ret'[p] = NoOp
  BY <1>2, <1>3 DEF Keep, TypeOK, ProcTypeOK
<1>6. Registers(p)
  BY <1>1, <1>5 DEF Registers, IsOwnCopy
<1>7. Works(p) /\ Holds(p) /\ Picks(p)
  BY <1>1 DEF Works, IsWorking, At, Holds, Picks, HolderPcs
<1>8. Direct(p)'
  BY <1>1, <1>3 DEF Direct, Snaps, HolderPcs
<1>. QED
  BY <1>3, <1>4, <1>6, <1>7, <1>8 DEF Moves

LEMMA RequestMoves ==
  ASSUME TypeOK, PlainInv, NoReplacement, NEW p \in Procs, NEW o \in Ops, Request(p, o)
  PROVE  Moves(p)
<1>. DEFINE args == [NoCall EXCEPT !.op = o]
<1>1. args.op = o
  BY DEF NoCall
<1>. HIDE DEF args
<1>2. CASE CallStatus(p, o)
  BY <1>1, <1>2, BeginMoves DEF CallStatus, args, HolderPcs
<1>3. CASE CallExecute(p, o)
  <2>1. PICK approval : Begin(p, "execute", [NoCall EXCEPT !.op = o, !.approval = approval])
    BY <1>3 DEF CallExecute
  <2>. DEFINE a == [NoCall EXCEPT !.op = o, !.approval = approval]
  <2>2. a.op = o
    BY DEF NoCall
  <2>3. Begin(p, "execute", a)
    BY <2>1
  <2>. HIDE DEF a
  <2>. QED
    BY <1>3, <2>2, <2>3, BeginMoves DEF CallExecute, HolderPcs
<1>4. CASE CallAttach(p, o)
  BY <1>1, <1>4, BeginMoves DEF CallAttach, args, HolderPcs
<1>5. CASE CallCancel(p, o)
  BY <1>1, <1>5, BeginMoves DEF CallCancel, args, HolderPcs
<1>6. ASSUME NEW k, NEW f, CallReplace(p, o, k, f) PROVE FALSE
  BY <1>6 DEF CallReplace, Begin, NoReplacement
<1>. QED
  BY <1>2, <1>3, <1>4, <1>5, <1>6 DEF Request

\* A status that returns a copy the process had, or the row it saved.
LEMMA StatusReturnMoves ==
  ASSUME TypeOK, NEW p \in Procs, Direct(p), top[p] # None, NEW s, Return(p, s),
         IsOwnCopy(p, s, call[p].op), UNCHANGED procVars,
         s.tag = "prepared" => ops[call[p].op].tag = "prepared"
  PROVE  Moves(p)
<1>1. /\ Snaps(p) /\ top'[p] = None /\ ret'[p] = s
      /\ \A q \in Procs \ {p} :
           frame'[q] = frame[q] /\ top'[q] = top[q] /\ ret'[q] = ret[q]
  BY ReturnMoves
<1>2. OthersKeep(p)
  BY <1>1 DEF OthersKeep, procVars
<1>3. pc[p] # "idle"
  BY DEF Direct
<1>4. Registers(p)
  BY <1>1 DEF Registers, IsOwnCopy, procVars
<1>5. Works(p)
  BY <1>1 DEF Works, IsWorking, At, procVars
<1>6. Direct(p)'
  BY <1>1, <1>3 DEF Direct, Snaps, procVars
<1>7. Holds(p) /\ Picks(p)
  BY DEF Holds, Picks, procVars
<1>. QED
  BY <1>1, <1>2, <1>4, <1>5, <1>6, <1>7 DEF Moves

\* A status whose activation goes on.
LEMMA StatusGoesOnMoves ==
  ASSUME TypeOK, NEW p \in Procs, Direct(p), top[p] # None, NEW f,
         frame' = [frame EXCEPT ![p][top[p]] = f],
         f.pc \notin {"original", "relink"}, f.caller = None,
         f.snap \in {ops[top[p]], frame[p][top[p]].snap},
         Checking(f) => /\ f.snap = frame[p][top[p]].snap
                        /\ \/ Checking(frame[p][top[p]]) /\ f.rcpt = frame[p][top[p]].rcpt
                           \/ f.rcpt \in InclusionsOf(frame[p][top[p]].snap.hash),
         UNCHANGED <<top, ret, procVars>>
  PROVE  Moves(p)
<1>1. top[p] \in Ops
  BY DEF TypeOK, StatusTypeOK
<1>2. Snaps(p)
  <2>1. ASSUME NEW o \in Ops PROVE frame'[p][o] = IF o = top[p] THEN f ELSE frame[p][o]
    BY <1>1 DEF TypeOK, StatusTypeOK
  <2>. QED
    BY <1>1, <2>1 DEF Snaps, Direct
<1>3. OthersKeep(p)
  BY <1>1 DEF OthersKeep, procVars, TypeOK, StatusTypeOK
<1>4. Registers(p)
  BY DEF Registers, IsOwnCopy, procVars
<1>5. Works(p)
  BY DEF Works, IsWorking, At, procVars
<1>6. Direct(p)'
  BY <1>2 DEF Direct, Snaps, procVars
<1>7. Holds(p) /\ Picks(p)
  BY DEF Holds, Picks, procVars
<1>. QED
  BY <1>2, <1>3, <1>4, <1>5, <1>6, <1>7 DEF Moves

\* The activation that takes a step is on the operation of the command.
LEMMA ActivationFacts ==
  ASSUME TypeOK, PlainInv, NEW p \in Procs, NEW x, InStatus(p, x)
  PROVE  /\ Direct(p) /\ top[p] # None /\ top[p] \in Ops /\ top[p] = call[p].op
         /\ pc[p] # "idle" /\ Snap(p) = frame[p][call[p].op].snap
         /\ IsPlain(Snap(p)) /\ Snap(p) \in Operation
         /\ x \notin {"off", "get"} => Snap(p).hash # None
<1>1. Direct(p) /\ top[p] # None /\ frame[p][top[p]].pc = x
  BY DEF PlainInv, InStatus
<1>2. top[p] \in Ops /\ top[p] = call[p].op /\ pc[p] # "idle"
  BY <1>1 DEF Direct, TypeOK, StatusTypeOK
<1>3. frame[p][top[p]] \in Frame
  BY <1>2 DEF TypeOK, StatusTypeOK
<1>. QED
  BY <1>1, <1>2, <1>3, CallPlain DEF Snap, Frame

\* A row with a hash, and what status makes of it, is not a prepared plan.
LEMMA StatusValues ==
  ASSUME NEW s \in Operation, s.hash # None
  PROVE  /\ s.tag \notin Tags \ (Unresolved \cup Settled)
         /\ Restored(s).tag \in {"submitting", "walletPending"}
         /\ \A i : Outcome(s, i).tag \in Settled
<1>1. s.tag \in Unresolved \cup Settled
  BY DEF Operation
<1>2. Restored(s).tag \in {"submitting", "walletPending"}
  <2>1. CASE SignedOf(s) # None
    <3>. DEFINE t == SignedOf(s)
    <3>1. Restored(s) = [s EXCEPT !.tag = "submitting", !.hash = t, !.nonce = t.nonce]
      BY <2>1 DEF Restored
    <3>. HIDE DEF t
    <3>. QED
      BY <3>1 DEF Operation
  <2>2. CASE SignedOf(s) = None
    BY <2>2 DEF Restored, Operation
  <2>. QED
    BY <2>1, <2>2
<1>3. ASSUME NEW i PROVE Outcome(s, i).tag \in Settled
  BY DEF Outcome, Operation, Settled
<1>. QED
  BY <1>1, <1>2, <1>3

LEMMA StatusMoves ==
  ASSUME TypeOK, PlainInv, NEW p \in Procs, Status(p)
  PROVE  Moves(p)
<1>1. UNCHANGED procVars
  BY DEF Status
<1>2. ASSUME NEW x, InStatus(p, x), NEW s, Save(top[p], s), Return(p, s),
             s.tag # "prepared"
      PROVE  Moves(p)
  <2>1. Direct(p) /\ top[p] # None /\ top[p] \in Ops /\ top[p] = call[p].op
    BY <1>2, ActivationFacts
  <2>2. IsOwnCopy(p, s, call[p].op)
    BY <1>2, <2>1 DEF IsOwnCopy, Save, TypeOK, StoreTypeOK
  <2>. QED
    BY <1>1, <1>2, <2>1, <2>2, StatusReturnMoves
<1>3. ASSUME InStatus(p, "receipt") \/ InStatus(p, "original"),
             SettleWithoutReceipt(p)
      PROVE  Moves(p)
  <2>1. PICK x \in {"receipt", "original"} : InStatus(p, x)
    BY <1>3
  <2>2. /\ Direct(p) /\ top[p] # None /\ top[p] = call[p].op
        /\ Snap(p) \in Operation /\ Snap(p).hash # None
        /\ Snap(p) = frame[p][call[p].op].snap
    BY <2>1, ActivationFacts
  <2>3. Snap(p).tag # "prepared" /\ Restored(Snap(p)).tag # "prepared"
    BY <2>2, StatusValues DEF Tags, Unresolved, Settled, InFlight
  <2>4. CASE Snap(p).tag \in Settled
    BY <1>2, <1>3, <2>1, <2>3, <2>4 DEF SettleWithoutReceipt
  <2>5. CASE Snap(p).tag \notin Settled
    <3>1. Return(p, Snap(p))
      BY <1>3, <2>5 DEF SettleWithoutReceipt
    <3>2. IsOwnCopy(p, Snap(p), call[p].op)
      BY <2>2 DEF IsOwnCopy
    <3>. QED
      BY <1>1, <2>2, <2>3, <3>1, <3>2, StatusReturnMoves
  <2>. QED
    BY <2>4, <2>5
<1>4. CASE StatusGet(p)
  <2>. DEFINE s == ops[top[p]]
  <2>1. Direct(p) /\ top[p] # None /\ top[p] \in Ops /\ top[p] = call[p].op
    BY <1>4, ActivationFacts DEF StatusGet
  <2>2. CASE s.hash = None
    <3>1. Return(p, s)
      BY <1>4, <2>2 DEF StatusGet
    <3>. QED
      BY <1>1, <2>1, <3>1, StatusReturnMoves DEF IsOwnCopy
  <2>3. CASE s.hash # None
    <3>1. /\ frame' = [frame EXCEPT ![p][top[p]].pc = "receipt",
                                    ![p][top[p]].snap = s]
          /\ UNCHANGED <<top, ret>>
      BY <1>4, <2>3 DEF StatusGet
    <3>. DEFINE g == frame[p][top[p]]
                f == [g EXCEPT !.pc = "receipt", !.snap = s]
    <3>2. frame' = [frame EXCEPT ![p][top[p]] = f]
      BY <2>1, <3>1 DEF TypeOK, StatusTypeOK
    <3>3. g \in Frame /\ g.caller = None
      BY <2>1 DEF TypeOK, StatusTypeOK, Direct
    <3>4. f.pc = "receipt" /\ f.snap = s /\ f.caller = None
      BY <3>3 DEF Frame
    <3>. HIDE DEF f, s
    <3>5. f.snap \in {ops[top[p]], frame[p][top[p]].snap}
      BY <3>4 DEF s
    <3>. QED
      BY <1>1, <2>1, <3>1, <3>2, <3>4, <3>5, StatusGoesOnMoves DEF Checking
  <2>. QED
    BY <2>2, <2>3
<1>5. CASE StatusReceipt(p)
  <2>1. Direct(p) /\ top[p] # None /\ top[p] \in Ops /\ UNCHANGED <<top, ret>>
    BY <1>5, ActivationFacts DEF StatusReceipt
  <2>2. PICK i \in InclusionsOf(Snap(p).hash) :
          frame' = [frame EXCEPT ![p][top[p]].pc = "block",
                                 ![p][top[p]].rcpt = i]
    BY <1>5 DEF StatusReceipt
  <2>. DEFINE g == frame[p][top[p]]
              f == [g EXCEPT !.pc = "block", !.rcpt = i]
  <2>3. frame' = [frame EXCEPT ![p][top[p]] = f]
    BY <2>1, <2>2 DEF TypeOK, StatusTypeOK
  <2>4. g \in Frame /\ g.caller = None
    BY <2>1 DEF TypeOK, StatusTypeOK, Direct
  <2>5. f.pc = "block" /\ f.snap = g.snap /\ f.caller = None /\ f.rcpt = i
    BY <2>4 DEF Frame
  <2>6. i \in InclusionsOf(g.snap.hash)
    BY <2>2 DEF Snap
  <2>. HIDE DEF f
  <2>. QED
    BY <1>1, <2>1, <2>3, <2>5, <2>6, StatusGoesOnMoves
<1>6. CASE StatusNoReceipt(p)
  <2>1. InStatus(p, "receipt") /\ IsPlain(Snap(p))
    BY <1>6, ActivationFacts DEF StatusNoReceipt
  <2>. QED
    BY <1>3, <1>6, <2>1 DEF StatusNoReceipt, IsPlain
<1>7. CASE StatusBlock(p)
  <2>. DEFINE i == frame[p][top[p]].rcpt
  <2>1. InStatus(p, "block") /\ Snap(p) \in Operation /\ Snap(p).hash # None
    BY <1>7, ActivationFacts DEF StatusBlock
  <2>2. Restored(Snap(p)).tag # "prepared"
    BY <2>1, StatusValues DEF Settled
  <2>3. CASE i \notin included
    BY <1>2, <1>7, <2>1, <2>2, <2>3 DEF StatusBlock
  <2>4. CASE i \in included
    <3>. DEFINE g == frame[p][top[p]]
                f == [g EXCEPT !.pc = "finality"]
    <3>1. Direct(p) /\ top[p] # None /\ top[p] \in Ops
      BY <2>1, ActivationFacts
    <3>2. frame' = [frame EXCEPT ![p][top[p]].pc = "finality"] /\ UNCHANGED <<top, ret>>
      BY <1>7, <2>4 DEF StatusBlock
    <3>3. frame' = [frame EXCEPT ![p][top[p]] = f]
      BY <3>1, <3>2 DEF TypeOK, StatusTypeOK
    <3>4. g \in Frame /\ g.caller = None /\ g.pc = "block"
      BY <2>1, <3>1 DEF TypeOK, StatusTypeOK, Direct, InStatus
    <3>5. f.pc = "finality" /\ f.snap = g.snap /\ f.caller = None /\ f.rcpt = g.rcpt
      BY <3>4 DEF Frame
    <3>6. Checking(g)
      BY <3>4 DEF Checking
    <3>. HIDE DEF f
    <3>. QED
      BY <1>1, <3>1, <3>2, <3>3, <3>5, <3>6, StatusGoesOnMoves
  <2>. QED
    BY <2>3, <2>4
<1>9. CASE StatusFinality(p)
  <2>. DEFINE s == Outcome(Snap(p), frame[p][top[p]].rcpt)
  <2>1. /\ InStatus(p, "finality") /\ Snap(p) \in Operation /\ Snap(p).hash # None
        /\ IsPlain(Snap(p))
    BY <1>9, ActivationFacts DEF StatusFinality
  <2>2. s.tag # "prepared"
    BY <2>1, StatusValues DEF Settled
  <2>3. Save(top[p], s) /\ Return(p, s)
    BY <1>9, <2>1 DEF StatusFinality, IsPlain
  <2>. HIDE DEF s
  <2>. QED
    BY <1>2, <2>1, <2>2, <2>3
<1>8. ASSUME StatusOriginal(p) \/ StatusRelink(p) PROVE FALSE
  <2>1. PICK x \in {"original", "relink"} : InStatus(p, x)
    BY <1>8 DEF StatusOriginal, StatusRelink
  <2>2. Direct(p) /\ top[p] \in Ops
    BY <2>1, ActivationFacts
  <2>. QED
    BY <2>1, <2>2 DEF Direct, InStatus
<1>. QED
  BY <1>4, <1>5, <1>6, <1>7, <1>8, <1>9 DEF Status, StatusStep

LEMMA AtFacts ==
  ASSUME TypeOK, PlainInv, NEW p \in Procs, NEW x, At(p, x), x # "idle"
  PROVE  /\ Direct(p) /\ pc[p] = x /\ pc[p] # "idle" /\ call[p].op \in Ops
         /\ IsPlain(ret[p]) /\ IsPlain(work[p])
BY CallPlain DEF At, PlainInv

LEMMA ExecuteStepMoves ==
  ASSUME TypeOK, PlainInv, NEW p \in Procs, ExecuteStep(p)
  PROVE  Moves(p)
<1>1. CASE Acquire(p)
  <2>1. Direct(p) /\ pc[p] # "idle" /\ IsPlain(ret[p])
    BY <1>1, AtFacts DEF Acquire
  <2>2. Alone(call[p].op)
    BY <1>1, <2>1, NoneFresh DEF Acquire, MayLock, Alone, IsPlain
  <2>. QED
    BY <1>1, <2>1, <2>2, StatusCallMoves DEF Acquire
<1>2. CASE Refuse(p)
  BY <1>2, FinishMoves DEF Refuse
<1>3. CASE Dispatch(p)
  <2>1. /\ Direct(p) /\ pc[p] = "locked" /\ pc[p] # "idle" /\ IsPlain(ret[p])
        /\ At(p, "locked") /\ Keep(p, ret[p]) /\ UNCHANGED <<call, nonce>>
    BY <1>3, AtFacts DEF Dispatch
  <2>2. work'[p] = ret[p]
    BY <2>1 DEF Keep, TypeOK, ProcTypeOK
  <2>3. CASE ret[p].tag = "prepared" /\ Goto(p, "nonce") /\ UNCHANGED statusVars
    BY <2>1, <2>2, <2>3, GotoMoves DEF IsWorking, HolderPcs
  <2>4. CASE (Goto(p, "broadcast") \/ Goto(p, "unlock")) /\ UNCHANGED statusVars
    BY <2>1, <2>4, GotoMoves DEF HolderPcs
  <2>5. CASE Goto(p, "unlock") /\ Enter(p, call[p].op, None)
    BY <2>1, <2>5, StatusCallMoves DEF HolderPcs
  <2>. QED
    BY <1>3, <2>1, <2>3, <2>4, <2>5 DEF Dispatch, IsPlain
<1>4. CASE CheckOriginal(p)
  BY <1>4, AtFacts DEF CheckOriginal, Direct
<1>5. CASE PickNonce(p)
  <2>1. /\ Direct(p) /\ pc[p] = "nonce" /\ work[p].tag = "prepared"
        /\ IsPlain(work[p])
    BY <1>5, AtFacts DEF PickNonce, Direct
  <2>2. PICK n \in PendingNonces(AccountOf[call[p].op]) : nonce' = [nonce EXCEPT ![p] = n]
    BY <1>5, <2>1 DEF PickNonce, IsPlain
  <2>. QED
    BY <1>5, <2>1, <2>2, GotoMoves DEF PickNonce, IsWorking, HolderPcs
<1>6. CASE SignLocal(p)
  <2>. DEFINE t == TheTx(call[p].op, work[p].plan, nonce[p])
              s == [tag |-> "submitting", plan |-> work[p].plan, hash |-> t,
                    nonce |-> nonce[p], signed |-> t]
  <2>1. Direct(p) /\ pc[p] = "sign" /\ call[p].op \in Ops
    BY <1>6, AtFacts DEF SignLocal
  <2>2. /\ Save(call[p].op, s) /\ Keep(p, s) /\ Goto(p, "broadcast")
        /\ UNCHANGED <<statusVars, call, nonce>>
    BY <1>6 DEF SignLocal
  <2>. HIDE DEF s
  <2>3. ops'[call[p].op] = s
    BY <2>1, <2>2 DEF Save, TypeOK, StoreTypeOK
  <2>. QED
    BY <2>1, <2>2, <2>3, GotoMoves DEF HolderPcs
<1>7. CASE Broadcast(p)
  <2>1. Direct(p) /\ pc[p] = "broadcast"
    BY <1>7, AtFacts DEF Broadcast
  <2>. QED
    BY <1>7, <2>1, GotoMoves DEF Broadcast, HolderPcs
<1>8. CASE BroadcastUnconfirmed(p)
  <2>1. Direct(p) /\ pc[p] # "idle"
    BY <1>8, AtFacts DEF BroadcastUnconfirmed
  <2>. QED
    BY <1>8, <2>1, StatusCallMoves DEF BroadcastUnconfirmed, HolderPcs
<1>9. CASE SavePending(p)
  <2>1. Direct(p) /\ pc[p] # "idle"
    BY <1>9, AtFacts DEF SavePending
  <2>. QED
    BY <1>9, <2>1, StatusCallMoves DEF SavePending, HolderPcs
<1>10. CASE Unlock(p)
  BY <1>10, FinishMoves DEF Unlock
<1>. QED
  BY <1>1, <1>2, <1>3, <1>4, <1>5, <1>6, <1>7, <1>8, <1>9, <1>10 DEF ExecuteStep

LEMMA WalletStepMoves ==
  ASSUME TypeOK, PlainInv, NEW p \in Procs, WalletStep(p)
  PROVE  Moves(p)
<1>1. CASE AskWallet(p)
  <2>1. Direct(p) /\ pc[p] = "sign" /\ work[p].tag = "prepared"
    BY <1>1, AtFacts DEF AskWallet, Direct
  <2>. QED
    BY <1>1, <2>1, GotoMoves DEF AskWallet, HolderPcs
<1>2. CASE WalletRejects(p)
  <2>1. Direct(p) /\ pc[p] # "idle"
    BY <1>2, AtFacts DEF WalletRejects
  <2>. QED
    BY <1>2, <2>1, GotoMoves DEF WalletRejects, HolderPcs
<1>3. CASE WalletAnswers(p)
  <2>1. Direct(p) /\ pc[p] # "idle"
    BY <1>3, AtFacts DEF WalletAnswers
  <2>. QED
    BY <1>3, <2>1, StatusCallMoves DEF WalletAnswers, HolderPcs
<1>4. CASE WalletLost(p)
  <2>1. Direct(p) /\ pc[p] # "idle"
    BY <1>4, AtFacts DEF WalletLost
  <2>. QED
    BY <1>4, <2>1, GotoMoves DEF WalletLost, HolderPcs
<1>5. CASE Attach(p)
  <2>1. Direct(p) /\ pc[p] # "idle"
    BY <1>5, AtFacts DEF Attach
  <2>. QED
    BY <1>5, <2>1, StatusCallMoves DEF Attach, HolderPcs
<1>. QED
  BY <1>1, <1>2, <1>3, <1>4, <1>5 DEF WalletStep

LEMMA OtherStepMoves ==
  ASSUME TypeOK, PlainInv, NEW p \in Procs, OtherStep(p)
  PROVE  Moves(p)
<1>1. CASE Done(p)
  BY <1>1, FinishMoves DEF Done
<1>2. CASE Cancel(p)
  <2>1. Direct(p) /\ pc[p] # "idle"
    BY <1>2, AtFacts DEF Cancel
  <2>. QED
    BY <1>2, <2>1, GotoMoves DEF Cancel, HolderPcs
<1>3. CASE PrepareReplacement(p) \/ RefuseReplacement(p) \/ SaveReplacement(p)
  BY <1>3, AtFacts
     DEF PrepareReplacement, RefuseReplacement, SaveReplacement, Direct
<1>. QED
  BY <1>1, <1>2, <1>3 DEF OtherStep

LEMMA ErrorMoves ==
  ASSUME TypeOK, PlainInv, NEW p \in Procs, Error(p)
  PROVE  Moves(p)
<1>1. CASE pc[p] \in LockedPcs
  <2>1. /\ Snaps(p) /\ top'[p] = None /\ ret'[p] = NoOp
        /\ \A q \in Procs \ {p} :
             frame'[q] = frame[q] /\ top'[q] = top[q] /\ ret'[q] = ret[q]
    BY <1>1, UnwindMoves DEF Error
  <2>2. /\ pc' = [pc EXCEPT ![p] = "unlock"] /\ pc'[p] = "unlock"
        /\ UNCHANGED <<call, work, nonce>>
    BY <1>1 DEF Error, Goto, TypeOK, ProcTypeOK
  <2>3. OthersKeep(p)
    BY <2>1, <2>2 DEF OthersKeep, TypeOK, ProcTypeOK
  <2>4. Registers(p)
    BY <2>1, <2>2 DEF Registers, IsOwnCopy
  <2>5. Works(p) /\ Holds(p) /\ Picks(p)
    BY <2>2 DEF Works, IsWorking, At, Holds, Picks, HolderPcs
  <2>6. Direct(p)'
    BY <2>1, <2>2 DEF Direct, Snaps
  <2>. QED
    BY <2>1, <2>3, <2>4, <2>5, <2>6 DEF Moves
<1>2. CASE pc[p] \notin LockedPcs
  BY <1>2, FinishMoves DEF Error
<1>. QED
  BY <1>1, <1>2

\* A step moves one process as Moves says, or none.
LEMMA NextMoves ==
  ASSUME TypeOK, PlainInv, NoReplacement, [Next]_vars
  PROVE  \/ \E p \in Procs : Moves(p)
         \/ UNCHANGED <<procVars, statusVars>>
<1>1. CASE UNCHANGED vars
  BY <1>1 DEF vars
<1>2. CASE Environment
  BY <1>2 DEF Environment, WalletSubmits, WalletDrops, Prepare, Expire
<1>3. ASSUME NEW p \in Procs, NEW o \in Ops, Request(p, o) PROVE Moves(p)
  BY <1>3, RequestMoves
<1>4. ASSUME NEW p \in Procs, Step(p) \/ Fail(p) \/ Crash(p) PROVE Moves(p)
  BY <1>4, StatusMoves, ExecuteStepMoves, WalletStepMoves, OtherStepMoves,
     ErrorMoves, FinishMoves DEF Step, Deny, Fail, Crash
<1>. QED
  BY <1>1, <1>2, <1>3, <1>4 DEF Next

\* Whatever process holds a copy of o after a step, somebody held it before or
\* it is the row.
KeepsCopies ==
  \A q \in Procs, o \in Ops : \A s \in Held(q, o)' :
    s \in Held(q, o) \cup {NoOp, ops[o], ops'[o]}

\* Whoever is about to sign was so before, or has just read a prepared row.
KeepsWorkers ==
  \A q \in Procs : IsWorking(q)' =>
    /\ call'[q] = call[q] /\ pc[q] \in {"locked", "nonce", "sign"}
    /\ IsWorking(q) \/ ops[call[q].op].tag = "prepared"

LEMMA MovesKeep ==
  ASSUME NEW p \in Procs, Moves(p), \A q \in Procs : Direct(q)
  PROVE  KeepsCopies /\ KeepsWorkers /\ \A q \in Procs : Direct(q)'
<1>1. ASSUME NEW q \in Procs \ {p}
      PROVE  /\ \A o \in Ops : Held(q, o)' = Held(q, o)
             /\ IsWorking(q)' = IsWorking(q) /\ call'[q] = call[q]
             /\ Direct(q)'
  BY <1>1 DEF Moves, OthersKeep, Held, IsWorking, At, Direct
<1>2. ASSUME NEW o \in Ops, NEW s \in Held(p, o)'
      PROVE  s \in Held(p, o) \cup {NoOp, ops[o], ops'[o]}
  <2>1. CASE s = frame'[p][o].snap
    BY <2>1 DEF Moves, Snaps, Held
  <2>2. CASE call'[p].op = o /\ s \in {ret'[p], work'[p]}
    BY <2>2 DEF Moves, Registers, IsOwnCopy, Held
  <2>. QED
    BY <1>2, <2>1, <2>2 DEF Held
<1>3. KeepsCopies
  BY <1>1, <1>2 DEF KeepsCopies
<1>4. KeepsWorkers
  <2>. SUFFICES ASSUME NEW q \in Procs, IsWorking(q)'
                PROVE  /\ call'[q] = call[q] /\ pc[q] \in {"locked", "nonce", "sign"}
                       /\ IsWorking(q) \/ ops[call[q].op].tag = "prepared"
    BY DEF KeepsWorkers
  <2>1. CASE q = p
    BY <2>1 DEF Moves, Works
  <2>2. CASE q # p
    BY <2>2, <1>1 DEF IsWorking, At
  <2>. QED
    BY <2>1, <2>2
<1>. QED
  BY <1>1, <1>3, <1>4 DEF Moves

LEMMA NextKeeps ==
  ASSUME TypeOK, PlainInv, NoReplacement, [Next]_vars
  PROVE  KeepsCopies /\ KeepsWorkers /\ \A q \in Procs : Direct(q)'
<1>1. CASE UNCHANGED <<procVars, statusVars>>
  BY <1>1 DEF PlainInv, KeepsCopies, KeepsWorkers, Held, IsWorking, At, Direct,
     procVars, statusVars
<1>2. ASSUME NEW p \in Procs, Moves(p)
      PROVE  KeepsCopies /\ KeepsWorkers /\ \A q \in Procs : Direct(q)'
  BY <1>2, MovesKeep DEF PlainInv
<1>. QED
  BY <1>1, <1>2, NextMoves

-----------------------------------------------------------------------------
(* What a step does to rows, requests and network *)

Quiet == UNCHANGED <<ops, asks, sent>>

\* prepare inserts a row.
Inserts(o) ==
  /\ ops[o].tag = "absent"
  /\ Save(o, Blank("prepared", BasePlan)) /\ UNCHANGED <<asks, sent>>

\* cancel, under the lock, finds the row prepared.
Cancels(p, o) ==
  /\ ops[o].tag = "prepared" /\ pc[p] = "cancel"
  /\ Save(o, Blank("cancelled", ops[o].plan)) /\ UNCHANGED <<asks, sent>>

\* The row becomes what status makes of its copy, or a broadcast of its own.
Derives(p, o, c, s) ==
  \/ /\ c = frame[p][o].snap /\ frame[p][o].pc = "finality"
     /\ frame[p][o].rcpt \in Inclusion /\ s = Outcome(c, frame[p][o].rcpt)
  \/ /\ c = frame[p][o].snap /\ s = Restored(c)
     /\ \/ c.tag \in Settled /\ ~IsIncluded(c.hash)
        \/ frame[p][o].pc = "block" /\ frame[p][o].rcpt \notin included
  \/ /\ c = work[p] /\ pc[p] = "savePending" /\ c.tag \in InFlight
     /\ s = [c EXCEPT !.tag = "pending", !.signed = c.hash]

Rewrites(p, o, c, s) ==
  /\ c \in Held(p, o) /\ c.hash # None /\ Derives(p, o, c, s)
  /\ Save(o, s) /\ UNCHANGED <<asks, sent>>

\* A key signs the plan, and the bytes are in the row.
SignedRow(plan, t) ==
  [tag |-> "submitting", plan |-> plan, hash |-> t, nonce |-> t.nonce, signed |-> t]
Signs(p, o, t) ==
  /\ pc[p] = "sign" /\ pc'[p] = "broadcast" /\ p \notin External
  /\ t.op = o /\ t.nonce = nonce[p]
  /\ \E plan : plan.repl = None /\ Save(o, SignedRow(plan, t))
  /\ UNCHANGED <<asks, sent>>

\* A wallet is asked, the row says so.
Asks(p, o, t) ==
  /\ pc[p] = "sign" /\ pc'[p] = "ask" /\ p \in External /\ t.op = o /\ t \in Tx
  /\ \E s : /\ Save(o, s) /\ s.tag = "walletPending" /\ IsPlain(s)
            /\ s.hash = None /\ s.signed = None
  /\ asks' = asks \cup {t} /\ UNCHANGED sent

\* The wallet rejects its request, the plan is prepared again.
Rejects(p, o, t) ==
  /\ pc[p] = "ask" /\ t \in asks /\ t.op = o
  /\ asks' = asks \ {t} /\ Save(o, work[p]) /\ UNCHANGED sent

\* The row learns the hash of a transaction the wallet has sent for it.
Names(p, o, t) ==
  /\ t \in sent /\ t.op = o
  /\ \E s : /\ Save(o, s) /\ s.tag = "walletPending" /\ IsPlain(s) /\ s.hash = t
            /\ \/ pc[p] = "ask" /\ s.signed = None
               \/ work[p].tag = "walletPending" /\ s.signed = work[p].signed
  /\ UNCHANGED <<asks, sent>>

\* The bytes of its copy go to the network.
Sends(p) ==
  /\ pc[p] = "broadcast" /\ work[p].hash # None
  /\ sent' = sent \cup {work[p].hash} /\ UNCHANGED <<ops, asks>>

\* A wallet submits a request, or forgets it.
Submits(t) ==
  /\ t \in asks /\ asks' = asks \ {t} /\ UNCHANGED ops
  /\ \E u \in Tx : u.op = t.op /\ sent' = sent \cup {u}
Drops(t) == t \in asks /\ asks' = asks \ {t} /\ UNCHANGED <<ops, sent>>

\* What process p may do to the row o of its own command.
EffectOf(p, o) ==
  \/ Cancels(p, o)
  \/ \E s : \E c \in Held(p, o) : Rewrites(p, o, c, s)
  \/ \E t \in Tx : Signs(p, o, t) \/ Asks(p, o, t) \/ Rejects(p, o, t) \/ Names(p, o, t)
  \/ Sends(p)

Effect ==
  \/ Quiet
  \/ \E o \in Ops : Inserts(o)
  \/ \E p \in Procs : call[p].op \in Ops /\ EffectOf(p, call[p].op)
  \/ \E t \in asks : Submits(t) \/ Drops(t)

-----------------------------------------------------------------------------
(* Every step has one of these effects *)

LEMMA HeldOwn ==
  ASSUME NEW p, NEW o, call[p].op = o
  PROVE  ret[p] \in Held(p, o) /\ work[p] \in Held(p, o) /\ frame[p][o].snap \in Held(p, o)
BY DEF Held

LEMMA StatusEffect ==
  ASSUME TypeOK, PlainInv, NEW p \in Procs, Status(p)
  PROVE  Effect
<1>1. UNCHANGED <<asks, sent>>
  BY DEF Status, StatusStep, StatusGet, StatusReceipt, StatusNoReceipt,
     StatusOriginal, StatusBlock, StatusFinality, StatusRelink, chainVars, worldVars
<1>. DEFINE o == call[p].op
            c == frame[p][o].snap
<1>2. ASSUME NEW x \in {"receipt", "block", "finality"}, InStatus(p, x), NEW s, Save(top[p], s),
             Derives(p, o, c, s)
      PROVE  Effect
  <2>1. /\ top[p] = o /\ o \in Ops /\ c.hash # None /\ c \in Held(p, o)
    BY <1>2, ActivationFacts, HeldOwn
  <2>. HIDE DEF c
  <2>2. Rewrites(p, o, c, s)
    BY <1>1, <1>2, <2>1 DEF Rewrites
  <2>. HIDE DEF o
  <2>3. EffectOf(p, o)
    BY <2>1, <2>2 DEF EffectOf
  <2>. QED
    BY <2>1, <2>3 DEF Effect, o
<1>3. CASE StatusGet(p) \/ StatusReceipt(p)
  BY <1>1, <1>3 DEF StatusGet, StatusReceipt, storeVars, Effect, Quiet
<1>4. CASE StatusNoReceipt(p)
  <2>1. /\ InStatus(p, "receipt") /\ ~IsIncluded(Snap(p).hash) /\ SettleWithoutReceipt(p)
        /\ Snap(p) = c
    BY <1>4, ActivationFacts DEF StatusNoReceipt, IsPlain
  <2>2. CASE c.tag \in Settled
    <3>1. Derives(p, o, c, Restored(c))
      BY <2>1, <2>2 DEF Derives
    <3>. QED
      BY <1>2, <2>1, <2>2, <3>1 DEF SettleWithoutReceipt
  <2>3. CASE c.tag \notin Settled
    BY <1>1, <2>1, <2>3 DEF SettleWithoutReceipt, Effect, Quiet
  <2>. QED
    BY <2>2, <2>3
<1>5. CASE StatusBlock(p)
  <2>. DEFINE i == frame[p][top[p]].rcpt
  <2>1. InStatus(p, "block") /\ Snap(p) = c /\ top[p] = o
    BY <1>5, ActivationFacts DEF StatusBlock
  <2>2. frame[p][o].pc = "block"
    BY <2>1 DEF InStatus
  <2>3. CASE i \notin included
    <3>1. Derives(p, o, c, Restored(c)) /\ Save(top[p], Restored(c))
      BY <1>5, <2>1, <2>2, <2>3 DEF Derives, StatusBlock
    <3>. QED
      BY <1>2, <2>1, <3>1
  <2>4. CASE i \in included
    BY <1>1, <1>5, <2>4 DEF StatusBlock, Effect, Quiet
  <2>. QED
    BY <2>3, <2>4
<1>7. CASE StatusFinality(p)
  <2>1. InStatus(p, "finality") /\ Snap(p) = c /\ top[p] = o /\ top[p] \in Ops
    BY <1>7, ActivationFacts DEF StatusFinality
  <2>2. frame[p][o].pc = "finality" /\ frame[p][o] \in Frame
    BY <2>1 DEF InStatus, TypeOK, StatusTypeOK
  <2>3. frame[p][o].rcpt \in Inclusion
    BY <2>2 DEF Frame
  <2>4. Derives(p, o, c, Outcome(c, frame[p][o].rcpt)) /\ Save(top[p], Outcome(c, frame[p][o].rcpt))
    BY <1>7, <2>1, <2>2, <2>3 DEF Derives, StatusFinality
  <2>. QED
    BY <1>2, <2>1, <2>4
<1>6. ASSUME StatusOriginal(p) \/ StatusRelink(p) PROVE FALSE
  <2>1. PICK x \in {"original", "relink"} : InStatus(p, x)
    BY <1>6 DEF StatusOriginal, StatusRelink
  <2>2. Direct(p) /\ top[p] \in Ops
    BY <2>1, ActivationFacts
  <2>. QED
    BY <2>1, <2>2 DEF Direct, InStatus
<1>. QED
  BY <1>3, <1>4, <1>5, <1>6, <1>7 DEF Status, StatusStep

LEMMA OwnEffect ==
  ASSUME TypeOK, PlainInv, NEW p \in Procs, pc[p] # "idle", EffectOf(p, call[p].op)
  PROVE  Effect
BY CallFacts DEF Effect

LEMMA ExecuteStepEffect ==
  ASSUME TypeOK, PlainInv, NEW p \in Procs, ExecuteStep(p)
  PROVE  Effect
<1>1. CASE Acquire(p) \/ Refuse(p) \/ Dispatch(p) \/ CheckOriginal(p) \/ PickNonce(p)
           \/ Unlock(p)
  BY <1>1 DEF Acquire, Refuse, Dispatch, CheckOriginal, PickNonce, Unlock,
     chainVars, storeVars, worldVars, Effect, Quiet
<1>2. CASE SignLocal(p)
  <2>. DEFINE t == TheTx(call[p].op, work[p].plan, nonce[p])
              plan == work[p].plan
              s == [tag |-> "submitting", plan |-> plan, hash |-> t,
                    nonce |-> nonce[p], signed |-> t]
  <2>1. pc[p] = "sign" /\ p \notin External /\ call[p].op \in Ops /\ IsPlain(work[p])
    BY <1>2, AtFacts DEF SignLocal
  <2>10. pc'[p] = "broadcast"
    BY <1>2 DEF SignLocal, Goto, TypeOK, ProcTypeOK
  <2>2. nonce[p] \in Nonces
    BY <2>1 DEF TypeOK, ProcTypeOK
  <2>3. t \in Tx
    BY <2>1, <2>2, TheTxType DEF TypeOK, ProcTypeOK, Operation
  <2>4. t.op = call[p].op /\ t.nonce = nonce[p]
    BY DEF TheTx
  <2>5. Save(call[p].op, s) /\ UNCHANGED <<asks, sent>>
    BY <1>2 DEF SignLocal, chainVars, worldVars
  <2>. HIDE DEF t
  <2>6. s = SignedRow(plan, t)
    BY <2>4 DEF SignedRow
  <2>7. plan.repl = None
    BY <2>1 DEF IsPlain
  <2>. HIDE DEF s, plan
  <2>8. Signs(p, call[p].op, t)
    BY <2>1, <2>10, <2>4, <2>5, <2>6, <2>7 DEF Signs
  <2>9. EffectOf(p, call[p].op)
    BY <2>3, <2>8 DEF EffectOf
  <2>. QED
    BY <2>1, <2>9, OwnEffect
<1>3. ASSUME At(p, "broadcast") PROVE pc[p] = "broadcast" /\ work[p].hash # None
  BY <1>3 DEF At, TypeOK, ProcTypeOK, Operation
<1>4. ASSUME At(p, "broadcast"), Receive(work[p].hash), UNCHANGED <<ops, asks>>
      PROVE  Effect
  <2>1. Sends(p)
    BY <1>3, <1>4 DEF Sends, Receive
  <2>. QED
    BY <2>1, <1>3, <1>4, OwnEffect DEF EffectOf
<1>5. CASE Broadcast(p)
  BY <1>4, <1>5 DEF Broadcast, storeVars, worldVars
<1>6. CASE BroadcastUnconfirmed(p)
  BY <1>4, <1>6 DEF BroadcastUnconfirmed, storeVars, worldVars, chainVars, Effect, Quiet
<1>7. CASE SavePending(p)
  <2>. DEFINE c == work[p]
              s == [c EXCEPT !.tag = "pending", !.signed = c.hash]
  <2>1. /\ pc[p] = "savePending" /\ c \in Held(p, call[p].op)
        /\ c.tag \in InFlight /\ c.hash # None
    BY <1>7, HeldOwn DEF SavePending, At, TypeOK, ProcTypeOK, Operation
  <2>2. Save(call[p].op, s) /\ UNCHANGED <<asks, sent>>
    BY <1>7 DEF SavePending, chainVars, worldVars
  <2>3. Derives(p, call[p].op, c, s)
    BY <2>1 DEF Derives
  <2>. HIDE DEF s, c
  <2>4. Rewrites(p, call[p].op, c, s)
    BY <2>1, <2>2, <2>3 DEF Rewrites
  <2>5. EffectOf(p, call[p].op)
    BY <2>1, <2>4 DEF EffectOf
  <2>. QED
    BY <2>1, <2>5, OwnEffect
<1>. QED
  BY <1>1, <1>2, <1>5, <1>6, <1>7 DEF ExecuteStep

LEMMA WalletStepEffect ==
  ASSUME TypeOK, PlainInv, NEW p \in Procs, WalletStep(p)
  PROVE  Effect
<1>. DEFINE o == call[p].op
            t == TheTx(o, work[p].plan, nonce[p])
<1>1. CASE AskWallet(p)
  <2>. DEFINE s == [Blank("walletPending", work[p].plan) EXCEPT !.nonce = nonce[p]]
  <2>1. pc[p] = "sign" /\ p \in External /\ o \in Ops /\ IsPlain(work[p])
    BY <1>1, AtFacts DEF AskWallet
  <2>8. pc'[p] = "ask"
    BY <1>1 DEF AskWallet, Goto, TypeOK, ProcTypeOK
  <2>2. nonce[p] \in Nonces
    BY <2>1 DEF TypeOK, ProcTypeOK
  <2>3. t \in Tx /\ t.op = o
    BY <2>1, <2>2, TheTxType DEF TypeOK, ProcTypeOK, Operation, TheTx
  <2>4. Save(o, s) /\ asks' = asks \cup {t} /\ UNCHANGED sent
    BY <1>1 DEF AskWallet, chainVars
  <2>5. s.tag = "walletPending" /\ IsPlain(s) /\ s.hash = None /\ s.signed = None
    BY <2>1 DEF Blank, IsPlain
  <2>. HIDE DEF s, t, o
  <2>6. Asks(p, o, t)
    BY <2>1, <2>8, <2>3, <2>4, <2>5 DEF Asks
  <2>7. EffectOf(p, o)
    BY <2>3, <2>6 DEF EffectOf
  <2>. QED
    BY <2>1, <2>7, OwnEffect DEF o
<1>2. CASE WalletRejects(p)
  <2>1. pc[p] = "ask" /\ t \in asks /\ t.op = o
    BY <1>2 DEF WalletRejects, At, TheTx
  <2>2. t \in Tx
    BY <2>1 DEF TypeOK, WorldTypeOK
  <2>3. asks' = asks \ {t} /\ Save(o, work[p]) /\ UNCHANGED sent
    BY <1>2 DEF WalletRejects, chainVars
  <2>. HIDE DEF t, o
  <2>4. Rejects(p, o, t)
    BY <2>1, <2>3 DEF Rejects
  <2>5. EffectOf(p, o)
    BY <2>2, <2>4 DEF EffectOf
  <2>. QED
    BY <2>1, <2>5, OwnEffect DEF o
<1>3. CASE WalletAnswers(p)
  <2>1. pc[p] = "ask" /\ IsPlain(work[p]) /\ UNCHANGED <<asks, sent>>
    BY <1>3, AtFacts DEF WalletAnswers, chainVars, worldVars
  <2>2. PICK u \in sent : /\ u.op = o
                          /\ Save(o, [Blank("walletPending", work[p].plan)
                                        EXCEPT !.nonce = nonce[p], !.hash = u])
    BY <1>3 DEF WalletAnswers
  <2>. DEFINE s == [Blank("walletPending", work[p].plan)
                      EXCEPT !.nonce = nonce[p], !.hash = u]
  <2>3. s.tag = "walletPending" /\ IsPlain(s) /\ s.hash = u /\ s.signed = None
    BY <2>1 DEF Blank, IsPlain
  <2>4. Save(o, s)
    BY <2>2
  <2>. HIDE DEF s, o
  <2>5. Names(p, o, u)
    BY <2>1, <2>2, <2>3, <2>4 DEF Names
  <2>6. EffectOf(p, o)
    BY <2>5 DEF EffectOf, TypeOK, ChainTypeOK
  <2>. QED
    BY <2>1, <2>6, OwnEffect DEF o
<1>4. CASE WalletLost(p)
  BY <1>4 DEF WalletLost, chainVars, storeVars, worldVars, Effect, Quiet
<1>5. CASE Attach(p)
  <2>1. /\ pc[p] = "attach" /\ work[p].tag = "walletPending" /\ work[p] \in Operation
        /\ IsPlain(work[p]) /\ UNCHANGED <<asks, sent>>
    BY <1>5, AtFacts DEF Attach, At, chainVars, worldVars, TypeOK, ProcTypeOK
  <2>2. PICK u \in Attachable(p) : Save(o, [work[p] EXCEPT !.hash = u])
    BY <1>5 DEF Attach
  <2>3. u \in sent /\ u.op = o /\ u \in Tx
    BY <2>2 DEF Attachable, TypeOK, ChainTypeOK
  <2>. DEFINE s == [work[p] EXCEPT !.hash = u]
  <2>4. s.tag = "walletPending" /\ IsPlain(s) /\ s.hash = u /\ s.signed = work[p].signed
    BY <2>1 DEF IsPlain, Operation
  <2>5. Save(o, s)
    BY <2>2
  <2>. HIDE DEF s, o
  <2>6. Names(p, o, u)
    BY <2>1, <2>3, <2>4, <2>5 DEF Names
  <2>7. EffectOf(p, o)
    BY <2>3, <2>6 DEF EffectOf
  <2>. QED
    BY <2>1, <2>7, OwnEffect DEF o
<1>. QED
  BY <1>1, <1>2, <1>3, <1>4, <1>5 DEF WalletStep

LEMMA OtherStepEffect ==
  ASSUME TypeOK, PlainInv, NEW p \in Procs, OtherStep(p)
  PROVE  Effect
<1>1. CASE Done(p)
  BY <1>1 DEF Done, chainVars, storeVars, worldVars, Effect, Quiet
<1>2. CASE Cancel(p)
  <2>1. pc[p] = "cancel" /\ UNCHANGED <<asks, sent>>
    BY <1>2 DEF Cancel, At, chainVars, worldVars
  <2>2. CASE ops[call[p].op].tag = "prepared"
    <3>1. Cancels(p, call[p].op)
      BY <1>2, <2>1, <2>2 DEF Cancel, Cancels
    <3>. QED
      BY <2>1, <3>1, OwnEffect DEF EffectOf
  <2>3. CASE ops[call[p].op].tag # "prepared"
    BY <1>2, <2>1, <2>3 DEF Cancel, Effect, Quiet
  <2>. QED
    BY <2>2, <2>3
<1>3. CASE PrepareReplacement(p) \/ RefuseReplacement(p) \/ SaveReplacement(p)
  BY <1>3, AtFacts
     DEF PrepareReplacement, RefuseReplacement, SaveReplacement, Direct
<1>. QED
  BY <1>1, <1>2, <1>3 DEF OtherStep

LEMMA EnvironmentEffect ==
  ASSUME TypeOK, Environment
  PROVE  Effect
<1>1. CASE ChainStep /\ UNCHANGED <<storeVars, statusVars, procVars, worldVars>>
  BY <1>1 DEF ChainStep, Mine, Evict, Reorg, storeVars, worldVars, Effect, Quiet
<1>2. ASSUME NEW t \in asks, WalletSubmits(t) PROVE Effect
  <2>1. t \in Tx
    BY DEF TypeOK, WorldTypeOK
  <2>2. PICK n \in {t.nonce} \cup PendingNonces(AccountOf[t.op]) :
          Receive([t EXCEPT !.nonce = n])
    BY <1>2 DEF WalletSubmits
  <2>3. n \in Nonces
    BY <2>1 DEF PendingNonces, Tx
  <2>. DEFINE u == [t EXCEPT !.nonce = n]
  <2>4. u \in Tx /\ u.op = t.op
    BY <2>1, <2>3 DEF Tx
  <2>5. sent' = sent \cup {u}
    BY <2>2 DEF Receive
  <2>. HIDE DEF u
  <2>6. Submits(t)
    BY <1>2, <2>4, <2>5 DEF Submits, WalletSubmits, storeVars
  <2>. QED
    BY <2>6 DEF Effect
<1>3. ASSUME NEW t \in asks, WalletDrops(t) PROVE Effect
  BY <1>3 DEF WalletDrops, storeVars, chainVars, Drops, Effect
<1>4. ASSUME NEW o \in Ops, Prepare(o) PROVE Effect
  <2>1. Inserts(o)
    BY <1>4 DEF Prepare, chainVars, worldVars, Inserts
  <2>. QED
    BY <2>1 DEF Effect
<1>5. ASSUME NEW o \in Ops, Expire(o) PROVE Effect
  BY <1>5 DEF Expire, chainVars, storeVars, Effect, Quiet
<1>. QED
  BY <1>1, <1>2, <1>3, <1>4, <1>5 DEF Environment

LEMMA NextEffect ==
  ASSUME TypeOK, PlainInv, [Next]_vars
  PROVE  Effect
<1>1. CASE UNCHANGED vars
  BY <1>1 DEF vars, storeVars, worldVars, chainVars, Effect, Quiet
<1>2. ASSUME NEW p \in Procs, NEW o \in Ops, Request(p, o) PROVE Effect
  BY <1>2 DEF Request, CallStatus, CallExecute, CallAttach, CallCancel, CallReplace,
     storeVars, worldVars, chainVars, Effect, Quiet
<1>3. ASSUME NEW p \in Procs, Deny(p) \/ Fail(p) \/ Crash(p) PROVE Effect
  BY <1>3 DEF Deny, Fail, Error, Crash, storeVars, worldVars, chainVars, Effect, Quiet
<1>. QED
  BY <1>1, <1>2, <1>3, EnvironmentEffect, StatusEffect, ExecuteStepEffect,
     WalletStepEffect, OtherStepEffect DEF Next, Step

-----------------------------------------------------------------------------
(* The rows stay plain *)

LEMMA SavedRow ==
  ASSUME TypeOK, NEW o \in Ops, NEW s, Save(o, s)
  PROVE  ops'[o] = s /\ \A q \in Ops \ {o} : ops'[q] = ops[q]
BY DEF Save, TypeOK, StoreTypeOK

LEMMA HeldType ==
  ASSUME TypeOK, NEW p \in Procs, NEW o \in Ops
  PROVE  \A s \in Held(p, o) : s \in Operation
<1>1. frame[p][o] \in Frame /\ ret[p] \in Operation /\ work[p] \in Operation
  BY DEF TypeOK, StatusTypeOK, ProcTypeOK
<1>. QED
  BY <1>1 DEF Held, Frame

Issued == Unresolved \cup Settled

\* A row derived from a copy names a transaction the copy names, as issued.
LEMMA DerivedRow ==
  ASSUME NEW p, NEW o, NEW c \in Operation, NEW s, c.hash # None, Derives(p, o, c, s)
  PROVE  /\ s.plan = c.plan /\ s.tag \in Issued
         /\ s.hash # None /\ s.hash \in {c.hash, c.signed}
         /\ s.signed \in {c.hash, c.signed}
         /\ s.tag = "walletPending" => s.signed = None
         /\ s.signed = None => c.signed = None /\ s.hash = c.hash
<1>. USE DEF Issued, Unresolved, Settled, InFlight
<1>0. SignedOf(c) \in {c.hash, c.signed} /\ (SignedOf(c) = None => c.signed = None)
  BY DEF SignedOf
<1>1. ASSUME NEW i, s = Outcome(c, i)
      PROVE  /\ s.plan = c.plan /\ s.tag \in {"confirmed", "reverted"}
             /\ s.hash = c.hash /\ s.signed = SignedOf(c)
  <2>. DEFINE t == SignedOf(c)
              tag == IF i.ok THEN "confirmed" ELSE "reverted"
  <2>1. s = [c EXCEPT !.tag = tag, !.nonce = NoNonce, !.signed = t]
    BY <1>1 DEF Outcome
  <2>2. tag \in {"confirmed", "reverted"}
    OBVIOUS
  <2>. HIDE DEF t, tag
  <2>3. s.plan = c.plan /\ s.tag = tag /\ s.hash = c.hash /\ s.signed = t
    BY <2>1 DEF Operation
  <2>. QED
    BY <2>2, <2>3 DEF t
<1>2. CASE s = Restored(c)
  <2>1. CASE SignedOf(c) # None
    <3>. DEFINE t == SignedOf(c)
    <3>1. s = [c EXCEPT !.tag = "submitting", !.hash = t, !.nonce = t.nonce]
      BY <1>2, <2>1 DEF Restored
    <3>2. t \in {c.hash, c.signed} /\ t # None /\ (c.signed = None => t = c.hash)
      BY <1>0, <2>1
    <3>. HIDE DEF t
    <3>3. s.plan = c.plan /\ s.tag = "submitting" /\ s.hash = t /\ s.signed = c.signed
      BY <3>1 DEF Operation
    <3>. QED
      BY <3>2, <3>3
  <2>2. CASE SignedOf(c) = None
    <3>1. s = [c EXCEPT !.tag = "walletPending"]
      BY <1>2, <2>2 DEF Restored
    <3>2. s.plan = c.plan /\ s.tag = "walletPending" /\ s.hash = c.hash /\ s.signed = c.signed
      BY <3>1 DEF Operation
    <3>. QED
      BY <1>0, <2>2, <3>2
  <2>. QED
    BY <2>1, <2>2
<1>3. CASE s = [c EXCEPT !.tag = "pending", !.signed = c.hash]
  <2>1. s.plan = c.plan /\ s.tag = "pending" /\ s.hash = c.hash /\ s.signed = c.hash
    BY <1>3 DEF Operation
  <2>. QED
    BY <2>1
<1>4. CASE \E i : s = Outcome(c, i)
  BY <1>0, <1>1, <1>4
<1>. QED
  BY <1>2, <1>3, <1>4 DEF Derives

LEMMA NoOpFacts ==
  NoOp.tag = "absent" /\ NoOp.plan = BasePlan /\ NoOp.hash = None /\ NoOp.signed = None
BY DEF NoOp, Blank

LEMMA PlainNext == TypeOK /\ PlainInv /\ NoReplacement /\ [Next]_vars => PlainInv'
<1>. SUFFICES ASSUME TypeOK, PlainInv, NoReplacement, [Next]_vars PROVE PlainInv'
  OBVIOUS
<1>1. KeepsCopies /\ \A q \in Procs : Direct(q)'
  BY NextKeeps
<1>2. IsPlain(NoOp)
  BY NoOpFacts DEF IsPlain, BasePlan
<1>3. ASSUME NEW o \in Ops, NEW s, Save(o, s), IsPlain(s)
      PROVE  \A q \in Ops : IsPlain(ops'[q])
  BY <1>3, SavedRow DEF PlainInv, PlainCopies
<1>4. \A q \in Ops : IsPlain(ops'[q])
  <2>1. CASE UNCHANGED ops
    BY <2>1 DEF PlainInv, PlainCopies
  <2>2. ASSUME NEW o \in Ops, Inserts(o) PROVE \A q \in Ops : IsPlain(ops'[q])
    BY <1>3, <2>2 DEF Inserts, Blank, BasePlan, IsPlain
  <2>3. ASSUME NEW p \in Procs, NEW o \in Ops, call[p].op = o, EffectOf(p, o)
        PROVE  \A q \in Ops : IsPlain(ops'[q])
    <3>1. \A c \in Held(p, o) : IsPlain(c) /\ c \in Operation
      BY HeldType DEF PlainInv, PlainCopies
    <3>2. IsPlain(work[p]) /\ IsPlain(ops[o])
      BY <2>3, <3>1, HeldOwn DEF PlainInv, PlainCopies
    <3>3. CASE Cancels(p, o)
      BY <1>3, <3>2, <3>3 DEF Cancels, Blank, IsPlain
    <3>4. ASSUME NEW c \in Held(p, o), NEW s, Rewrites(p, o, c, s)
          PROVE  \A q \in Ops : IsPlain(ops'[q])
      <4>1. s.plan = c.plan
        BY <3>1, <3>4, DerivedRow DEF Rewrites
      <4>. QED
        BY <1>3, <3>1, <3>4, <4>1 DEF Rewrites, IsPlain
    <3>5. ASSUME NEW t \in Tx, Signs(p, o, t) PROVE \A q \in Ops : IsPlain(ops'[q])
      BY <1>3, <3>5 DEF Signs, SignedRow, IsPlain
    <3>6. ASSUME NEW t \in Tx, Asks(p, o, t) PROVE \A q \in Ops : IsPlain(ops'[q])
      BY <1>3, <3>6 DEF Asks
    <3>7. ASSUME NEW t \in Tx, Rejects(p, o, t) PROVE \A q \in Ops : IsPlain(ops'[q])
      BY <1>3, <3>2, <3>7 DEF Rejects
    <3>8. ASSUME NEW t \in Tx, Names(p, o, t) PROVE \A q \in Ops : IsPlain(ops'[q])
      BY <1>3, <3>8 DEF Names
    <3>. QED
      BY <2>1, <2>3, <3>3, <3>4, <3>5, <3>6, <3>7, <3>8 DEF EffectOf, Sends
  <2>. QED
    BY <2>1, <2>2, <2>3, NextEffect DEF Effect, Quiet, Submits, Drops
<1>5. ASSUME NEW o \in Ops, NEW p \in Procs, NEW s \in Held(p, o)' PROVE IsPlain(s)
  BY <1>1, <1>2, <1>4, <1>5 DEF KeepsCopies, PlainInv, PlainCopies
<1>. QED
  BY <1>1, <1>4, <1>5 DEF PlainInv, PlainCopies

LEMMA PlainInit == Init => PlainInv
<1>. SUFFICES ASSUME Init PROVE PlainInv
  OBVIOUS
<1>1. ASSUME NEW o \in Ops, NEW p \in Procs
      PROVE  /\ ops[o] = NoOp /\ ret[p] = NoOp /\ work[p] = NoOp
             /\ frame[p][o] = NoFrame /\ top[p] = None /\ pc[p] = "idle"
             /\ call[p] = NoCall
  BY DEF Init, StoreInit, StatusInit
<1>2. IsPlain(NoOp) /\ NoFrame.snap = NoOp /\ NoFrame.pc = "off"
      /\ NoFrame.caller = None /\ NoCall.op = None
  BY NoOpFacts DEF IsPlain, BasePlan, NoFrame, NoCall
<1>3. PlainCopies
  <2>1. \A o \in Ops : IsPlain(ops[o])
    BY <1>2 DEF Init, StoreInit
  <2>2. \A o \in Ops, p \in Procs : \A s \in Held(p, o) : s = NoOp
    BY <1>1, <1>2 DEF Held
  <2>. QED
    BY <1>2, <2>1, <2>2 DEF PlainCopies
<1>4. \A p \in Procs : Direct(p)
  <2>. SUFFICES ASSUME NEW p \in Procs PROVE Direct(p)
    OBVIOUS
  <2>1. pc[p] = "idle" /\ top[p] = None /\ ret[p] = NoOp /\ work[p] = NoOp
        /\ call[p] = NoCall /\ \A o \in Ops : frame[p][o] = NoFrame
    BY DEF Init, StatusInit
  <2>. QED
    BY <1>2, <2>1 DEF Direct
<1>. QED
  BY <1>3, <1>4 DEF PlainInv

-----------------------------------------------------------------------------
(* An operation leaves once *)

\* What has left for the network under the name of o, or is signed for it, or
\* waits in a wallet.
SentOf(o) == {t \in sent : t.op = o}
AskedOf(o) == {t \in asks : t.op = o}
Backed(o) == SentOf(o) \cup ({ops[o].signed} \ {None})

\* A copy names a transaction that was sent or is signed in the row; one that
\* holds no bytes itself, only one that was sent.
Traced(s, beenSent, backed) ==
  /\ s.hash # None => s.hash \in backed
  /\ s.hash # None /\ s.signed = None => s.hash \in beenSent
  /\ s.signed # None => s.signed \in backed
  /\ s.tag \notin Issued \/ s.tag = "walletPending" => s.signed = None

CopiesTraced(o) ==
  /\ Traced(ops[o], SentOf(o), Backed(o))
  /\ \A p \in Procs : \A s \in Held(p, o) : Traced(s, SentOf(o), Backed(o))

\* One transaction for one operation; a row that has one shows it; what waits
\* in a wallet is not sent or signed as well.
LeavesOnce(o) ==
  /\ \A t, u \in AskedOf(o) \cup Backed(o) : t = u
  /\ \A t \in Backed(o) : t.op = o
  /\ AskedOf(o) \cup Backed(o) # {} => ops[o].tag \in Issued
  /\ AskedOf(o) # {} => Backed(o) = {}

\* Who is about to sign does so from a row that is prepared.
WorkersSeePrepared ==
  \A p \in Procs : IsWorking(p) => ops[call[p].op].tag = "prepared"

IssueInv ==
  /\ \A o \in Ops : LeavesOnce(o) /\ CopiesTraced(o)
  /\ WorkersSeePrepared

LEMMA HeldExclusive == LockHeld => LockExclusive
<1>. SUFFICES ASSUME LockHeld, NEW p \in Procs, NEW q \in Procs,
                     pc[p] \in LockedPcs, pc[q] \in LockedPcs,
                     AccountOf[call[p].op] = AccountOf[call[q].op]
              PROVE  p = q
  BY DEF LockExclusive
<1>1. locks[AccountOf[call[p].op]] = [op |-> call[p].op, pid |-> p]
  BY DEF LockHeld
<1>2. locks[AccountOf[call[q].op]] = [op |-> call[q].op, pid |-> q]
  BY DEF LockHeld
<1>. QED
  BY <1>1, <1>2

\* Copies stay traced when what backs them does.
LEMMA TracedKept ==
  ASSUME KeepsCopies, NEW o \in Ops, CopiesTraced(o), SentOf(o) \subseteq SentOf(o)',
         Backed(o) \subseteq Backed(o)',
         ops'[o] = ops[o] \/ Traced(ops'[o], SentOf(o)', Backed(o)')
  PROVE  CopiesTraced(o)'
<1>. DEFINE S == SentOf(o)'
            B == Backed(o)'
<1>1. ASSUME NEW s, Traced(s, SentOf(o), Backed(o)) PROVE Traced(s, S, B)
  BY <1>1 DEF Traced
<1>2. Traced(NoOp, S, B)
  BY NoOpFacts DEF Traced, Issued, Unresolved, Settled, InFlight
<1>3. Traced(ops[o], S, B)
  BY <1>1 DEF CopiesTraced
<1>4. Traced(ops'[o], S, B)
  BY <1>3
<1>5. ASSUME NEW p \in Procs, NEW s \in Held(p, o)' PROVE Traced(s, S, B)
  <2>1. s \in Held(p, o) \cup {NoOp, ops[o], ops'[o]}
    BY <1>5 DEF KeepsCopies
  <2>2. CASE s \in Held(p, o)
    BY <1>1, <2>2 DEF CopiesTraced
  <2>. QED
    BY <1>2, <1>3, <1>4, <2>1, <2>2
<1>. QED
  BY <1>4, <1>5 DEF CopiesTraced

\* A step that is not about o leaves it as it was.
LEMMA UntouchedRow ==
  ASSUME KeepsCopies, NEW o \in Ops, LeavesOnce(o), CopiesTraced(o),
         ops'[o] = ops[o], SentOf(o)' = SentOf(o), AskedOf(o)' \subseteq AskedOf(o)
  PROVE  LeavesOnce(o)' /\ CopiesTraced(o)'
<1>1. Backed(o)' = Backed(o)
  BY DEF Backed
<1>2. CopiesTraced(o)'
  BY <1>1, TracedKept
<1>. QED
  BY <1>1, <1>2 DEF LeavesOnce

\* A step on the row o alone: what it does to requests, network and bytes of o
\* keeps LeavesOnce, and the rest follows.
LEMMA TouchedRow ==
  ASSUME TypeOK, KeepsCopies, IssueInv, NEW o \in Ops,
         \A q \in Ops \ {o} : /\ ops'[q] = ops[q] /\ SentOf(q)' = SentOf(q)
                              /\ AskedOf(q)' \subseteq AskedOf(q),
         SentOf(o) \subseteq SentOf(o)', Backed(o) \subseteq Backed(o)',
         ops'[o] = ops[o] \/ Traced(ops'[o], SentOf(o)', Backed(o)'),
         LeavesOnce(o)'
  PROVE  \A q \in Ops : LeavesOnce(q)' /\ CopiesTraced(q)'
<1>. SUFFICES ASSUME NEW q \in Ops PROVE LeavesOnce(q)' /\ CopiesTraced(q)'
  OBVIOUS
<1>1. LeavesOnce(q) /\ CopiesTraced(q)
  BY DEF IssueInv
<1>2. CASE q = o
  BY <1>1, <1>2, TracedKept
<1>3. CASE q # o
  BY <1>1, <1>3, UntouchedRow
<1>. QED
  BY <1>2, <1>3

\* A step that sends and asks nothing and writes s over the row.
LEMMA WrittenRow ==
  ASSUME TypeOK, KeepsCopies, IssueInv, NEW o \in Ops, NEW s, Save(o, s),
         UNCHANGED <<asks, sent>>,
         Traced(s, SentOf(o), SentOf(o) \cup ({s.signed} \ {None})),
         Backed(o) \subseteq SentOf(o) \cup ({s.signed} \ {None}),
         \A t, u \in AskedOf(o) \cup SentOf(o) \cup ({s.signed} \ {None}) : t = u,
         s.signed # None => s.signed.op = o,
         AskedOf(o) \cup SentOf(o) \cup ({s.signed} \ {None}) # {} => s.tag \in Issued,
         AskedOf(o) # {} => SentOf(o) \cup ({s.signed} \ {None}) = {}
  PROVE  \A q \in Ops : LeavesOnce(q)' /\ CopiesTraced(q)'
<1>1. ops'[o] = s /\ \A q \in Ops \ {o} : ops'[q] = ops[q]
  BY SavedRow
<1>2. \A q \in Ops : SentOf(q)' = SentOf(q) /\ AskedOf(q)' = AskedOf(q)
  BY DEF SentOf, AskedOf
<1>3. Backed(o)' = SentOf(o) \cup ({s.signed} \ {None})
  BY <1>1, <1>2 DEF Backed
<1>4. \A t \in SentOf(o) : t.op = o
  BY DEF SentOf
<1>5. LeavesOnce(o)'
  BY <1>1, <1>2, <1>3, <1>4 DEF LeavesOnce
<1>. QED
  BY <1>1, <1>2, <1>3, <1>5, TouchedRow

LEMMA NothingOut ==
  ASSUME IssueInv, NEW o \in Ops, ops[o].tag \notin Issued
  PROVE  SentOf(o) = {} /\ AskedOf(o) = {} /\ Backed(o) = {} /\ ops[o].signed = None
<1>1. AskedOf(o) \cup Backed(o) = {}
  BY DEF IssueInv, LeavesOnce
<1>. QED
  BY <1>1 DEF Backed

LEMMA IssueKept ==
  ASSUME TypeOK, PlainInv, LockHeld, IssueInv, KeepsCopies, Effect, KeepsWorkers
  PROVE  \A q \in Ops : LeavesOnce(q)' /\ CopiesTraced(q)'
<1>. DEFINE Goal == \A q \in Ops : LeavesOnce(q)' /\ CopiesTraced(q)'
<1>1. \A q \in Ops : LeavesOnce(q) /\ CopiesTraced(q)
  BY DEF IssueInv
<1>2. CASE Quiet
  BY <1>1, <1>2, UntouchedRow DEF Quiet, SentOf, AskedOf
<1>3. ASSUME NEW o \in Ops, ops[o].tag \notin Issued, NEW tag, NEW plan,
             tag \notin Issued, Save(o, Blank(tag, plan)), UNCHANGED <<asks, sent>>
      PROVE  Goal
  <2>. DEFINE s == Blank(tag, plan)
  <2>1. SentOf(o) = {} /\ AskedOf(o) = {} /\ Backed(o) = {}
    BY <1>3, NothingOut
  <2>2. s.hash = None /\ s.signed = None
    BY DEF Blank
  <2>3. Save(o, s)
    BY <1>3
  <2>. HIDE DEF s
  <2>4. Traced(s, SentOf(o), SentOf(o) \cup ({s.signed} \ {None}))
    BY <2>2 DEF Traced
  <2>. QED
    BY <1>3, <2>1, <2>2, <2>3, <2>4, WrittenRow
<1>4. ASSUME NEW o \in Ops, Inserts(o) PROVE Goal
  BY <1>3, <1>4 DEF Inserts, Issued, Unresolved, Settled, InFlight
<1>5. ASSUME NEW t \in asks, Drops(t) PROVE Goal
  <2>1. \A q \in Ops : SentOf(q)' = SentOf(q) /\ AskedOf(q)' \subseteq AskedOf(q)
    BY <1>5 DEF Drops, SentOf, AskedOf
  <2>. QED
    BY <1>1, <1>5, <2>1, UntouchedRow DEF Drops
<1>6. ASSUME NEW t \in asks, Submits(t) PROVE Goal
  <2>. DEFINE o == t.op
  <2>1. o \in Ops
    BY DEF TypeOK, WorldTypeOK, Tx
  <2>2. PICK u \in Tx : u.op = o /\ sent' = sent \cup {u}
    BY <1>6 DEF Submits
  <2>3. t \in AskedOf(o)
    BY DEF AskedOf
  <2>4. Backed(o) = {} /\ AskedOf(o) = {t} /\ ops[o].tag \in Issued /\ SentOf(o) = {}
    BY <1>1, <2>1, <2>3 DEF LeavesOnce, Backed
  <2>5. AskedOf(o)' = {} /\ SentOf(o)' = {u} /\ Backed(o)' = {u}
    BY <1>6, <2>2, <2>4 DEF Submits, AskedOf, SentOf, Backed
  <2>6. \A q \in Ops \ {o} : SentOf(q)' = SentOf(q) /\ AskedOf(q)' \subseteq AskedOf(q)
    BY <1>6, <2>2 DEF Submits, AskedOf, SentOf
  <2>7. UNCHANGED ops
    BY <1>6 DEF Submits
  <2>8. LeavesOnce(o)'
    BY <2>2, <2>4, <2>5, <2>7 DEF LeavesOnce
  <2>. QED
    BY <2>1, <2>4, <2>5, <2>6, <2>7, <2>8, TouchedRow
<1>7. ASSUME NEW p \in Procs, NEW o \in Ops, call[p].op = o, EffectOf(p, o)
      PROVE  Goal
  <2>1. LeavesOnce(o) /\ CopiesTraced(o)
    BY <1>1
  <2>2. \A c \in Held(p, o) : Traced(c, SentOf(o), Backed(o)) /\ c \in Operation
    BY <2>1, HeldType DEF CopiesTraced
  <2>3. CASE Cancels(p, o)
    BY <1>3, <2>3 DEF Cancels, Issued, Unresolved, Settled, InFlight
  <2>4. ASSUME NEW c \in Held(p, o), NEW s, Rewrites(p, o, c, s) PROVE Goal
    <3>1. /\ s.tag \in Issued
          /\ s.hash # None /\ s.hash \in {c.hash, c.signed}
          /\ s.signed \in {c.hash, c.signed}
          /\ s.tag = "walletPending" => s.signed = None
          /\ s.signed = None => c.signed = None /\ s.hash = c.hash
      BY <2>2, <2>4, DerivedRow DEF Rewrites
    <3>2. c.hash # None /\ Traced(c, SentOf(o), Backed(o)) /\ c.hash \in Backed(o)
      BY <2>2, <2>4 DEF Rewrites, Traced
    <3>3. Backed(o) = {c.hash} /\ AskedOf(o) = {}
      BY <2>1, <3>2 DEF LeavesOnce
    <3>4. s.hash = c.hash /\ s.signed \in {None, c.hash}
      BY <3>1, <3>2, <3>3 DEF Traced
    <3>5. s.signed = None => SentOf(o) = {c.hash}
      BY <3>1, <3>2, <3>3 DEF Traced, Backed
    <3>6. SentOf(o) \cup ({s.signed} \ {None}) = {c.hash}
      BY <3>2, <3>3, <3>4, <3>5 DEF Backed
    <3>7. c.hash.op = o
      BY <2>1, <3>2 DEF LeavesOnce
    <3>8. Traced(s, SentOf(o), {c.hash})
      BY <3>1, <3>4, <3>5 DEF Traced
    <3>. QED
      BY <2>4, <3>1, <3>3, <3>4, <3>6, <3>7, <3>8, WrittenRow DEF Rewrites
  <2>5. ASSUME pc[p] = "sign" PROVE ops[o].tag = "prepared" /\ ops[o].tag \notin Issued
    BY <1>7, <2>5 DEF IssueInv, WorkersSeePrepared, IsWorking, Issued, Unresolved,
       Settled, InFlight
  <2>6. ASSUME NEW t \in Tx, Signs(p, o, t) PROVE Goal
    <3>1. SentOf(o) = {} /\ AskedOf(o) = {} /\ Backed(o) = {}
      BY <2>5, <2>6, NothingOut DEF Signs
    <3>2. PICK plan : Save(o, SignedRow(plan, t))
      BY <2>6 DEF Signs
    <3>. DEFINE s == SignedRow(plan, t)
    <3>3. s.tag = "submitting" /\ s.hash = t /\ s.signed = t
      BY DEF SignedRow
    <3>4. Save(o, s) /\ t # None /\ t.op = o /\ UNCHANGED <<asks, sent>>
      BY <2>6, <3>2, NoneAssumption DEF Signs
    <3>. HIDE DEF s
    <3>5. SentOf(o) \cup ({s.signed} \ {None}) = {t}
      BY <3>1, <3>3, <3>4
    <3>6. Traced(s, SentOf(o), {t})
      BY <3>3, <3>4 DEF Traced, Issued, Unresolved, InFlight
    <3>7. s.tag \in Issued
      BY <3>3 DEF Issued, Unresolved, InFlight
    <3>. QED
      BY <3>1, <3>3, <3>4, <3>5, <3>6, <3>7, WrittenRow
  <2>7. ASSUME NEW t \in Tx, Asks(p, o, t) PROVE Goal
    <3>1. SentOf(o) = {} /\ AskedOf(o) = {} /\ Backed(o) = {}
      BY <2>5, <2>7, NothingOut DEF Asks
    <3>2. PICK s : /\ Save(o, s) /\ s.tag = "walletPending"
                   /\ s.hash = None /\ s.signed = None
      BY <2>7 DEF Asks
    <3>3. t.op = o /\ asks' = asks \cup {t} /\ UNCHANGED sent
      BY <2>7 DEF Asks
    <3>4. ops'[o] = s /\ \A q \in Ops \ {o} : ops'[q] = ops[q]
      BY <3>2, SavedRow
    <3>5. AskedOf(o)' = {t} /\ SentOf(o)' = {} /\ Backed(o)' = {}
      BY <3>1, <3>2, <3>3, <3>4 DEF AskedOf, SentOf, Backed
    <3>6. \A q \in Ops \ {o} : SentOf(q)' = SentOf(q) /\ AskedOf(q)' = AskedOf(q)
      BY <3>3 DEF AskedOf, SentOf
    <3>7. LeavesOnce(o)'
      BY <3>2, <3>4, <3>5 DEF LeavesOnce, Issued, Unresolved
    <3>8. Traced(ops'[o], SentOf(o)', Backed(o)')
      BY <3>2, <3>4 DEF Traced
    <3>. QED
      BY <3>1, <3>4, <3>6, <3>7, <3>8, TouchedRow
  <2>8. ASSUME NEW t \in Tx, Rejects(p, o, t) PROVE Goal
    <3>1. t \in AskedOf(o)
      BY <2>8 DEF Rejects, AskedOf
    <3>2. AskedOf(o) = {t} /\ Backed(o) = {} /\ SentOf(o) = {}
      BY <2>1, <3>1 DEF LeavesOnce, Backed
    <3>3. Traced(work[p], {}, {})
      BY <1>7, <2>2, <3>2, HeldOwn
    <3>4. work[p].hash = None /\ work[p].signed = None
      BY <3>3 DEF Traced
    <3>5. ops'[o] = work[p] /\ \A q \in Ops \ {o} : ops'[q] = ops[q]
      BY <2>8, SavedRow DEF Rejects
    <3>6. AskedOf(o)' = {} /\ SentOf(o)' = {} /\ Backed(o)' = {}
      BY <2>8, <3>2, <3>4, <3>5 DEF Rejects, AskedOf, SentOf, Backed
    <3>7. \A q \in Ops \ {o} : SentOf(q)' = SentOf(q) /\ AskedOf(q)' \subseteq AskedOf(q)
      BY <2>8 DEF Rejects, AskedOf, SentOf
    <3>8. LeavesOnce(o)'
      BY <3>6 DEF LeavesOnce
    <3>9. Traced(ops'[o], SentOf(o)', Backed(o)')
      BY <3>3, <3>5, <3>6
    <3>. QED
      BY <3>2, <3>5, <3>7, <3>8, <3>9, TouchedRow
  <2>9. ASSUME NEW t \in Tx, Names(p, o, t) PROVE Goal
    <3>1. t \in SentOf(o)
      BY <2>9 DEF Names, SentOf
    <3>2. Backed(o) = {t} /\ AskedOf(o) = {} /\ SentOf(o) = {t}
      BY <2>1, <3>1 DEF LeavesOnce, Backed
    <3>3. PICK s : /\ Save(o, s) /\ s.tag = "walletPending" /\ s.hash = t
                   /\ \/ pc[p] = "ask" /\ s.signed = None
                      \/ work[p].tag = "walletPending" /\ s.signed = work[p].signed
      BY <2>9 DEF Names
    <3>4. s.signed = None
      BY <1>7, <2>2, <3>3, HeldOwn DEF Traced
    <3>5. SentOf(o) \cup ({s.signed} \ {None}) = {t}
      BY <3>2, <3>4
    <3>6. Traced(s, SentOf(o), {t})
      BY <3>2, <3>3, <3>4 DEF Traced
    <3>7. s.tag \in Issued
      BY <3>3 DEF Issued, Unresolved
    <3>. QED
      BY <2>9, <3>2, <3>3, <3>4, <3>5, <3>6, <3>7, WrittenRow DEF Names
  <2>10. CASE Sends(p)
    <3>. DEFINE t == work[p].hash
    <3>1. t # None /\ sent' = sent \cup {t} /\ UNCHANGED <<ops, asks>>
      BY <2>10 DEF Sends
    <3>2. t \in Backed(o)
      BY <1>7, <2>2, <3>1, HeldOwn DEF Traced
    <3>3. t.op = o /\ Backed(o) = {t} /\ AskedOf(o) = {} /\ ops[o].tag \in Issued
      BY <2>1, <3>2 DEF LeavesOnce
    <3>. HIDE DEF t
    <3>4. \A q \in Ops : AskedOf(q)' = AskedOf(q)
      BY <3>1 DEF AskedOf
    <3>5. \A q \in Ops \ {o} : SentOf(q)' = SentOf(q)
      BY <3>1, <3>3 DEF SentOf
    <3>6. SentOf(o)' = SentOf(o) \cup {t}
      BY <3>1, <3>3 DEF SentOf
    <3>7. Backed(o)' = {t}
      BY <3>1, <3>3, <3>6 DEF Backed
    <3>8. LeavesOnce(o)'
      BY <3>1, <3>3, <3>4, <3>7 DEF LeavesOnce
    <3>. QED
      BY <3>1, <3>3, <3>4, <3>5, <3>6, <3>7, <3>8, TouchedRow
  <2>. QED
    BY <1>7, <2>3, <2>4, <2>6, <2>7, <2>8, <2>9, <2>10 DEF EffectOf
<1>. QED
  BY <1>2, <1>4, <1>5, <1>6, <1>7 DEF Effect

\* A row nothing has left from changes only by prepare, cancel and signing.
LEMMA UnissuedRow ==
  ASSUME TypeOK, IssueInv, Effect, NEW o \in Ops, ops[o].tag \notin Issued,
         ops'[o] # ops[o]
  PROVE  \/ ops[o].tag = "absent"
         \/ \E p \in Procs : /\ call[p].op = o
                             /\ \/ pc[p] = "cancel" /\ ops[o].tag = "prepared"
                                \/ pc[p] = "sign" /\ pc'[p] \in {"broadcast", "ask"}
<1>1. SentOf(o) = {} /\ AskedOf(o) = {} /\ Backed(o) = {}
  BY NothingOut
<1>2. ASSUME NEW q \in Ops, NEW s, Save(q, s) PROVE q = o
  BY <1>2, SavedRow
<1>3. ASSUME NEW q \in Ops, Inserts(q) PROVE ops[o].tag = "absent"
  BY <1>2, <1>3 DEF Inserts
<1>4. ASSUME NEW p \in Procs, NEW q \in Ops, call[p].op = q, EffectOf(p, q)
      PROVE  /\ call[p].op = o
             /\ \/ pc[p] = "cancel" /\ ops[o].tag = "prepared"
                \/ pc[p] = "sign" /\ pc'[p] \in {"broadcast", "ask"}
  <2>1. CASE Cancels(p, q)
    BY <1>2, <1>4, <2>1 DEF Cancels
  <2>2. ASSUME NEW c \in Held(p, q), NEW s, Rewrites(p, q, c, s) PROVE FALSE
    <3>1. q = o /\ c.hash # None
      BY <1>2, <2>2 DEF Rewrites
    <3>2. Traced(c, SentOf(o), Backed(o))
      BY <3>1 DEF IssueInv, CopiesTraced
    <3>. QED
      BY <1>1, <3>1, <3>2 DEF Traced
  <2>3. ASSUME NEW t \in Tx, Signs(p, q, t) \/ Asks(p, q, t)
        PROVE  q = o /\ pc[p] = "sign" /\ pc'[p] \in {"broadcast", "ask"}
    BY <1>2, <2>3 DEF Signs, Asks
  <2>4. ASSUME NEW t \in Tx, Rejects(p, q, t) \/ Names(p, q, t) PROVE FALSE
    <3>1. q = o /\ t \in AskedOf(q) \cup SentOf(q)
      BY <1>2, <2>4 DEF Rejects, Names, AskedOf, SentOf
    <3>. QED
      BY <1>1, <3>1
  <2>5. CASE Sends(p)
    BY <2>5 DEF Sends
  <2>. QED
    BY <1>4, <2>1, <2>2, <2>3, <2>4, <2>5 DEF EffectOf
<1>. QED
  BY <1>3, <1>4 DEF Effect, Quiet, Submits, Drops

LEMMA IssueNext ==
  TypeOK /\ LockHeld /\ PlainInv /\ IssueInv /\ NoReplacement /\ [Next]_vars => IssueInv'
<1>. SUFFICES ASSUME TypeOK, LockHeld, PlainInv, IssueInv, NoReplacement, [Next]_vars
              PROVE  IssueInv'
  OBVIOUS
<1>1. KeepsCopies /\ KeepsWorkers /\ Effect
  BY NextKeeps, NextEffect
<1>2. \A q \in Ops : LeavesOnce(q)' /\ CopiesTraced(q)'
  BY <1>1, IssueKept
<1>3. ASSUME NEW p \in Procs, IsWorking(p)' PROVE ops'[call'[p].op].tag = "prepared"
  <2>. DEFINE o == call[p].op
  <2>1. /\ call'[p] = call[p] /\ pc[p] \in {"locked", "nonce", "sign"}
        /\ ops[o].tag = "prepared"
    BY <1>1, <1>3 DEF KeepsWorkers, IssueInv, WorkersSeePrepared
  <2>2. o \in Ops /\ pc[p] \in LockedPcs
    BY <2>1, CallFacts DEF LockedPcs
  <2>3. CASE ops'[o] = ops[o]
    BY <2>1, <2>3
  <2>4. CASE ops'[o] # ops[o]
    <3>1. ops[o].tag \notin Issued
      BY <2>1 DEF Issued, Unresolved, Settled, InFlight
    <3>2. PICK q \in Procs : /\ call[q].op = o
                             /\ \/ pc[q] = "cancel"
                                \/ pc[q] = "sign" /\ pc'[q] \in {"broadcast", "ask"}
      BY <1>1, <2>1, <2>2, <2>4, <3>1, UnissuedRow
    <3>3. q = p
      BY <2>2, <3>2, HeldExclusive DEF LockExclusive, LockedPcs
    <3>4. pc'[p] \in {"broadcast", "ask"}
      BY <2>1, <3>2, <3>3
    <3>. QED
      BY <1>3, <3>4 DEF IsWorking, At
  <2>. QED
    BY <2>3, <2>4
<1>4. WorkersSeePrepared'
  BY <1>3 DEF WorkersSeePrepared
<1>. QED
  BY <1>2, <1>4 DEF IssueInv

LEMMA IssueInit == Init => IssueInv
<1>. SUFFICES ASSUME Init PROVE IssueInv
  OBVIOUS
<1>1. NoFrame.snap = NoOp /\ NoCall.op = None
  BY DEF NoFrame, NoCall
<1>2. ASSUME NEW o \in Ops
      PROVE  ops[o] = NoOp /\ \A p \in Procs : \A s \in Held(p, o) : s = NoOp
  BY <1>1 DEF Init, StoreInit, StatusInit, Held
<1>3. ASSUME NEW o \in Ops
      PROVE  SentOf(o) = {} /\ AskedOf(o) = {} /\ Backed(o) = {}
  BY <1>2, NoOpFacts DEF Init, ChainInit, SentOf, AskedOf, Backed
<1>4. Traced(NoOp, {}, {})
  BY NoOpFacts DEF Traced, Issued, Unresolved, Settled, InFlight
<1>5. \A o \in Ops : LeavesOnce(o) /\ CopiesTraced(o)
  BY <1>2, <1>3, <1>4 DEF LeavesOnce, CopiesTraced
<1>6. WorkersSeePrepared
  BY DEF Init, WorkersSeePrepared, IsWorking, At
<1>. QED
  BY <1>5, <1>6 DEF IssueInv

LEMMA IssueInvariant ==
  ASSUME NoReplacement
  PROVE  Spec => [](TypeOK /\ LockHeld /\ PlainInv /\ IssueInv)
<1>1. Init => LockHeld
  BY DEF Init, LockHeld, LockedPcs
<1>2. Init => TypeOK /\ LockHeld /\ PlainInv /\ IssueInv
  BY <1>1, InitType, PlainInit, IssueInit
<1>3. TypeOK /\ LockHeld /\ PlainInv /\ IssueInv /\ [Next]_vars
        => (TypeOK /\ LockHeld /\ PlainInv /\ IssueInv)'
  BY NextType, LockHeldNext, PlainNext, IssueNext
<1>. QED
  BY <1>2, <1>3, PTL DEF Spec

\* Without replacements, an operation reaches an external wallet at most once,
\* nobody is about to ask a second time for what is out, and a wallet and a key
\* never both send it, although processes die, lose the wallet's answer, attach
\* transactions and write stale rows back.
THEOREM AskedOnce == NoReplacement => (Spec => []WalletAskedOnce)
<1>. SUFFICES ASSUME NoReplacement PROVE Spec => []WalletAskedOnce
  OBVIOUS
<1>1. ASSUME TypeOK, IssueInv PROVE WalletAskedOnce
  <2>1. ASSUME NEW t \in asks \cup sent, NEW u \in asks \cup sent, t.op = u.op
        PROVE  t = u
    <3>1. t.op \in Ops
      BY <1>1 DEF TypeOK, WorldTypeOK, ChainTypeOK, Tx
    <3>2. t \in AskedOf(t.op) \cup Backed(t.op) /\ u \in AskedOf(t.op) \cup Backed(t.op)
      BY <2>1 DEF AskedOf, Backed, SentOf
    <3>. QED
      BY <1>1, <3>1, <3>2 DEF IssueInv, LeavesOnce
  <2>2. ASSUME NEW p \in External, At(p, "sign"), NEW t \in asks \cup sent
        PROVE  t.op # call[p].op
    <3>. DEFINE o == call[p].op
    <3>1. p \in Procs
      BY ExternalAssumption
    <3>2. o \in Ops
      BY <1>1, <2>2, <3>1 DEF TypeOK, ProcTypeOK, At
    <3>3. ops[o].tag = "prepared"
      BY <1>1, <2>2, <3>1 DEF IssueInv, WorkersSeePrepared, IsWorking, At
    <3>4. ops[o].tag \notin Issued
      BY <3>3 DEF Issued, Unresolved, Settled, InFlight
    <3>5. SentOf(o) = {} /\ AskedOf(o) = {}
      BY <1>1, <3>2, <3>4, NothingOut
    <3>. QED
      BY <3>5 DEF SentOf, AskedOf
  <2>. QED
    BY <2>1, <2>2 DEF WalletAskedOnce
<1>. QED
  BY <1>1, IssueInvariant, PTL

\* What was sent, by a key or a wallet, is never shown as a plan that could be
\* signed again or cancelled, whatever stale row a status writes back.
THEOREM SentStaysKnown == NoReplacement => (Spec => []SentIsNotForgotten)
<1>. SUFFICES ASSUME NoReplacement PROVE Spec => []SentIsNotForgotten
  OBVIOUS
<1>1. ASSUME TypeOK, IssueInv PROVE SentIsNotForgotten
  <2>. SUFFICES ASSUME NEW t \in sent
                PROVE  ops[t.op].tag \notin {"absent", "prepared", "cancelled"}
    BY DEF SentIsNotForgotten
  <2>1. t.op \in Ops
    BY <1>1 DEF TypeOK, ChainTypeOK, Tx
  <2>2. t \in Backed(t.op)
    BY DEF Backed, SentOf
  <2>3. ops[t.op].tag \in Issued
    BY <1>1, <2>1, <2>2 DEF IssueInv, LeavesOnce
  <2>. QED
    BY <2>3 DEF Issued, Unresolved, Settled, InFlight
<1>. QED
  BY <1>1, IssueInvariant, PTL

\* A cancelled operation stays cancelled: no status, attach or broadcast that
\* began before the cancellation brings it back.
THEOREM CancelIsFinal == NoReplacement => (Spec => CancelledIsFinal)
<1>. SUFFICES ASSUME NoReplacement PROVE Spec => CancelledIsFinal
  OBVIOUS
<1>. DEFINE Final == \A o \in Ops : ops[o].tag = "cancelled" => ops'[o].tag = "cancelled"
<1>1. ASSUME TypeOK, LockHeld, PlainInv, IssueInv, [Next]_vars PROVE Final
  <2>. SUFFICES ASSUME NEW o \in Ops, ops[o].tag = "cancelled"
                PROVE  ops'[o].tag = "cancelled"
    OBVIOUS
  <2>1. CASE ops'[o] = ops[o]
    BY <2>1
  <2>2. CASE ops'[o] # ops[o]
    <3>1. ops[o].tag \notin Issued /\ Effect
      BY <1>1, NextEffect DEF Issued, Unresolved, Settled, InFlight
    <3>2. PICK p \in Procs : call[p].op = o /\ pc[p] = "sign"
      BY <1>1, <2>2, <3>1, UnissuedRow
    <3>. QED
      BY <1>1, <3>2 DEF IssueInv, WorkersSeePrepared, IsWorking
  <2>. QED
    BY <2>1, <2>2
<1>2. TypeOK /\ LockHeld /\ PlainInv /\ IssueInv /\ [Next]_vars => [Final]_vars
  BY <1>1
<1>. QED
  BY <1>2, IssueInvariant, PTL DEF Spec, CancelledIsFinal

-----------------------------------------------------------------------------
(* With local keys the journal holds the bytes of what was sent *)

IsLocal(s) == s.signed = s.hash /\ s.tag # "walletPending"

LocalInv ==
  /\ asks = {} /\ SentIsJournaled
  /\ \A o \in Ops : /\ IsLocal(ops[o])
                    /\ \A p \in Procs : \A s \in Held(p, o) : IsLocal(s)

LEMMA LocalNext ==
  TypeOK /\ PlainInv /\ IssueInv /\ LocalInv /\ LocalKeys /\ [Next]_vars => LocalInv'
<1>. SUFFICES ASSUME TypeOK, PlainInv, IssueInv, LocalInv, LocalKeys, [Next]_vars
              PROVE  LocalInv'
  OBVIOUS
<1>1. KeepsCopies /\ Effect /\ \A p \in Procs : pc[p] # "ask"
  BY NextKeeps, NextEffect DEF LocalKeys, PlainInv, Direct
<1>2. IsLocal(NoOp)
  BY NoOpFacts DEF IsLocal
\* What may happen to a row, and what the row keeps.
<1>3. ASSUME NEW o \in Ops
      PROVE  IsLocal(ops'[o]) /\ (ops[o].signed # None => ops'[o].signed = ops[o].signed)
  <2>1. IsLocal(ops[o]) /\ \A p \in Procs : \A s \in Held(p, o) : IsLocal(s)
    BY DEF LocalInv
  <2>2. CASE ops'[o] = ops[o]
    BY <2>1, <2>2
  <2>3. ASSUME NEW q \in Ops, ops'[o] # ops[o], NEW s, Save(q, s) PROVE q = o /\ ops'[o] = s
    BY <2>3, SavedRow
  <2>4. ASSUME NEW q \in Ops, ops'[o] # ops[o], Inserts(q)
        PROVE  IsLocal(ops'[o]) /\ ops[o].signed = None
    <3>1. q = o /\ ops'[o] = Blank("prepared", BasePlan) /\ ops[o].tag = "absent"
      BY <2>3, <2>4 DEF Inserts
    <3>2. ops[o].signed = None
      BY <3>1, NothingOut DEF Issued, Unresolved, Settled, InFlight
    <3>. QED
      BY <3>1, <3>2 DEF IsLocal, Blank
  <2>5. ASSUME NEW p \in Procs, NEW q \in Ops, ops'[o] # ops[o], call[p].op = q,
               EffectOf(p, q)
        PROVE  IsLocal(ops'[o]) /\ (ops[o].signed # None => ops'[o].signed = ops[o].signed)
    <3>1. CASE Cancels(p, q)
      <4>1. /\ q = o /\ ops'[o] = Blank("cancelled", ops[o].plan)
            /\ ops[o].tag = "prepared"
        BY <2>3, <2>5, <3>1 DEF Cancels
      <4>2. ops[o].signed = None
        BY <4>1, NothingOut DEF Issued, Unresolved, Settled, InFlight
      <4>. QED
        BY <4>1, <4>2 DEF IsLocal, Blank
    <3>2. ASSUME NEW c \in Held(p, q), NEW s, Rewrites(p, q, c, s)
          PROVE  IsLocal(ops'[o]) /\ (ops[o].signed # None => ops'[o].signed = ops[o].signed)
      <4>1. q = o /\ ops'[o] = s /\ c \in Held(p, o) /\ c.hash # None /\ c \in Operation
        BY <2>3, <2>5, <3>2, HeldType DEF Rewrites
      <4>2. IsLocal(c)
        BY <2>1, <4>1
      <4>3. /\ s.hash # None /\ s.hash \in {c.hash, c.signed}
            /\ s.signed \in {c.hash, c.signed}
            /\ s.tag = "walletPending" => s.signed = None
        BY <3>2, <4>1, DerivedRow DEF Rewrites
      <4>4. s.signed = c.hash /\ s.hash = c.hash /\ s.tag # "walletPending"
        BY <4>1, <4>2, <4>3 DEF IsLocal
      <4>5. ops[o].signed # None => ops[o].signed = c.hash
        <5>1. c.hash \in Backed(o)
          BY <4>1 DEF IssueInv, CopiesTraced, Traced
        <5>. QED
          BY <5>1 DEF IssueInv, LeavesOnce, Backed
      <4>. QED
        BY <4>1, <4>4, <4>5 DEF IsLocal
    <3>3. ASSUME NEW t \in Tx, Signs(p, q, t)
          PROVE  IsLocal(ops'[o]) /\ ops[o].signed = None
      <4>1. PICK plan : Save(q, SignedRow(plan, t))
        BY <3>3 DEF Signs
      <4>2. q = o /\ ops'[o] = SignedRow(plan, t)
        BY <2>3, <2>5, <4>1
      <4>3. ops[o].tag = "prepared"
        BY <2>5, <3>3, <4>2 DEF Signs, IssueInv, WorkersSeePrepared, IsWorking
      <4>4. ops[o].signed = None
        BY <4>3, NothingOut DEF Issued, Unresolved, Settled, InFlight
      <4>. QED
        BY <4>2, <4>4 DEF SignedRow, IsLocal
    <3>4. ASSUME NEW t \in Tx, Asks(p, q, t) \/ Rejects(p, q, t) PROVE FALSE
      BY <3>4 DEF Asks, Rejects, LocalKeys, LocalInv
    <3>5. ASSUME NEW t \in Tx, Names(p, q, t) PROVE FALSE
      <4>1. q = o /\ work[p].tag = "walletPending"
        BY <1>1, <2>3, <2>5, <3>5 DEF Names
      <4>. QED
        BY <2>1, <2>5, <4>1, HeldOwn DEF IsLocal
    <3>6. CASE Sends(p)
      BY <2>5, <3>6 DEF Sends
    <3>. QED
      BY <2>5, <3>1, <3>2, <3>3, <3>4, <3>5, <3>6 DEF EffectOf
  <2>. QED
    BY <1>1, <2>2, <2>4, <2>5 DEF Effect, Quiet, Submits, Drops
<1>4. ASSUME NEW o \in Ops, NEW p \in Procs, NEW s \in Held(p, o)' PROVE IsLocal(s)
  BY <1>1, <1>2, <1>3, <1>4 DEF KeepsCopies, LocalInv
<1>5. asks' = {} /\ \A t \in sent' : ops'[t.op].signed = t
  <2>1. ASSUME NEW t \in sent PROVE ops'[t.op].signed = t
    <3>1. t.op \in Ops /\ t # None /\ ops[t.op].signed = t
      BY NoneAssumption DEF LocalInv, SentIsJournaled, TypeOK, ChainTypeOK, Tx
    <3>. QED
      BY <1>3, <3>1
  <2>2. CASE asks' = asks /\ sent' = sent
    BY <2>1, <2>2 DEF LocalInv
  <2>3. ASSUME NEW p \in Procs, NEW o \in Ops, call[p].op = o, Sends(p)
        PROVE  asks' = {} /\ \A t \in sent' : ops'[t.op].signed = t
    <3>. DEFINE t == work[p].hash
    <3>1. t # None /\ sent' = sent \cup {t} /\ UNCHANGED <<ops, asks>>
      BY <2>3 DEF Sends
    <3>2. t \in Backed(o) /\ t.op = o
      BY <2>3, <3>1, HeldOwn DEF IssueInv, CopiesTraced, Traced, LeavesOnce
    <3>3. ops[o].signed = t
      BY <3>2 DEF Backed, SentOf, LocalInv, SentIsJournaled
    <3>. QED
      BY <2>1, <3>1, <3>2, <3>3 DEF LocalInv
  <2>4. ASSUME NEW p \in Procs, NEW o \in Ops, call[p].op = o, EffectOf(p, o), ~Sends(p)
        PROVE  asks' = asks /\ sent' = sent
    <3>1. ASSUME NEW t \in Tx, Asks(p, o, t) \/ Rejects(p, o, t) PROVE FALSE
      BY <3>1 DEF Asks, Rejects, LocalKeys, LocalInv
    <3>. QED
      BY <2>4, <3>1 DEF EffectOf, Cancels, Rewrites, Signs, Names
  <2>5. ASSUME NEW t \in asks PROVE FALSE
    BY <2>5 DEF LocalInv
  <2>6. ASSUME NEW p \in Procs, call[p].op \in Ops, EffectOf(p, call[p].op)
        PROVE  asks' = {} /\ \A t \in sent' : ops'[t.op].signed = t
    BY <2>2, <2>3, <2>4, <2>6
  <2>. QED
    BY <1>1, <2>2, <2>5, <2>6 DEF Effect, Quiet, Inserts
<1>. QED
  BY <1>3, <1>4, <1>5 DEF LocalInv, SentIsJournaled

LEMMA LocalInit == Init => LocalInv
<1>. SUFFICES ASSUME Init PROVE LocalInv
  OBVIOUS
<1>1. NoFrame.snap = NoOp
  BY DEF NoFrame
<1>2. \A o \in Ops : ops[o] = NoOp /\ \A p \in Procs : \A s \in Held(p, o) : s = NoOp
  BY <1>1 DEF Init, StoreInit, StatusInit, Held
<1>3. asks = {} /\ sent = {}
  BY DEF Init, ChainInit
<1>. QED
  BY <1>2, <1>3, NoOpFacts DEF LocalInv, IsLocal, SentIsJournaled

LEMMA LocalInvariant ==
  ASSUME LocalKeys
  PROVE  Spec => [](TypeOK /\ LockHeld /\ PlainInv /\ IssueInv /\ LocalInv)
<1>1. TypeOK /\ PlainInv /\ IssueInv /\ LocalInv /\ [Next]_vars => LocalInv'
  BY LocalNext
<1>2. NoReplacement
  BY DEF LocalKeys
<1>3. Spec => [](TypeOK /\ LockHeld /\ PlainInv /\ IssueInv)
  BY <1>2, IssueInvariant
<1>. QED
  BY <1>1, <1>3, LocalInit, PTL DEF Spec

\* With local keys and no replacement the journal holds the exact bytes of
\* everything ever sent, in spite of crashes, reorganisations and rows that
\* several processes write back from copies read long before.
THEOREM SentBytesAreKept == LocalKeys => (Spec => []SentIsJournaled)
<1>. SUFFICES ASSUME LocalKeys PROVE Spec => []SentIsJournaled
  OBVIOUS
<1>1. LocalInv => SentIsJournaled
  BY DEF LocalInv
<1>. QED
  BY <1>1, LocalInvariant, PTL

-----------------------------------------------------------------------------
(* What a settled row and a free account mean while the chain keeps what it
   included.  A reorganisation makes an older operation unresolved next to a
   younger one (storage.ts:95 checks the rows of that moment only), so the
   theorems below assume none; and no replacement, which is made to compete
   with its original. *)

\* What is included stays included.
FinalChain == MaxReorgs = 0 /\ NoReplacement

-----------------------------------------------------------------------------
(* The chain only grows, and what a process keeps across a step *)

\* Each inclusion has consumed its nonce.
NoncesConsumed == \A i \in included : i.tx.nonce < nonceOf[AccountOf[i.tx.op]]

LEMMA ChainGrows ==
  ASSUME TypeOK, MaxReorgs = 0, [Next]_vars
  PROVE  /\ included \subseteq included' /\ (NoncesConsumed => NoncesConsumed')
         /\ \A a \in Accounts : nonceOf[a] <= nonceOf'[a]
<1>. DEFINE Same == UNCHANGED <<included, nonceOf>>
<1>1. nonceOf \in [Accounts -> 0..(MaxNonce + 1)] /\ MaxNonce \in Nat
  BY BoundsAssumption DEF TypeOK, ChainTypeOK
<1>2. CASE Same
  BY <1>1, <1>2 DEF NoncesConsumed
<1>3. ASSUME NEW t \in mempool, Mine(t)
      PROVE  /\ included \subseteq included' /\ (NoncesConsumed => NoncesConsumed')
             /\ \A a \in Accounts : nonceOf[a] <= nonceOf'[a]
  <2>. DEFINE b == AccountOf[t.op]
  <2>1. t \in Tx /\ b \in Accounts /\ included \subseteq Inclusion
    BY AccountOfAssumption DEF TypeOK, ChainTypeOK, Tx
  <2>2. PICK ok \in Outcomes :
          included' = included \cup {[tx |-> t, ok |-> ok, fork |-> reorgs]}
    BY <1>3 DEF Mine
  <2>3. t.nonce = nonceOf[b] /\ nonceOf' = [nonceOf EXCEPT ![b] = @ + 1]
    BY <1>3 DEF Mine
  <2>4. \A a \in Accounts : nonceOf[a] <= nonceOf'[a]
    BY <1>1, <2>1, <2>3
  <2>5. ASSUME NoncesConsumed, NEW i \in included'
        PROVE  i.tx.nonce < nonceOf'[AccountOf[i.tx.op]]
    <3>1. CASE i \in included
      <4>. DEFINE c == AccountOf[i.tx.op]
      <4>1. c \in Accounts /\ i.tx.nonce \in Nat
        BY <1>1, <2>1, <3>1, AccountOfAssumption DEF Inclusion, Tx, Nonces
      <4>2. i.tx.nonce < nonceOf[c]
        BY <2>5, <3>1 DEF NoncesConsumed
      <4>3. nonceOf[c] \in Nat /\ nonceOf'[c] \in Nat /\ nonceOf[c] <= nonceOf'[c]
        BY <1>1, <2>1, <2>3, <2>4, <4>1
      <4>. QED
        BY <4>1, <4>2, <4>3
    <3>2. CASE i \notin included
      <4>1. i.tx = t
        BY <2>2, <3>2
      <4>2. nonceOf'[b] = nonceOf[b] + 1 /\ nonceOf[b] \in Nat
        BY <1>1, <2>1, <2>3
      <4>. QED
        BY <2>3, <4>1, <4>2
    <3>. QED
      BY <3>1, <3>2
  <2>. QED
    BY <2>2, <2>4, <2>5 DEF NoncesConsumed
<1>4. ASSUME NEW a, Reorg(a) PROVE FALSE
  BY <1>4 DEF Reorg, TypeOK, ChainTypeOK
<1>5. ASSUME NEW p \in Procs, Step(p) \/ Fail(p) \/ Crash(p) PROVE Same
  <2>1. CASE Status(p)
    BY <2>1 DEF Status, StatusStep, StatusGet, StatusReceipt, StatusNoReceipt,
       StatusOriginal, StatusBlock, StatusFinality, StatusRelink, chainVars
  <2>2. CASE Acquire(p) \/ Refuse(p) \/ Dispatch(p) \/ CheckOriginal(p) \/ PickNonce(p)
    BY <2>2 DEF Acquire, Refuse, Dispatch, CheckOriginal, PickNonce, chainVars
  <2>3. CASE \/ SignLocal(p) \/ Broadcast(p) \/ BroadcastUnconfirmed(p)
             \/ SavePending(p) \/ Unlock(p)
    BY <2>3 DEF SignLocal, Broadcast, BroadcastUnconfirmed, SavePending, Unlock, Receive, chainVars
  <2>4. CASE WalletStep(p)
    BY <2>4 DEF WalletStep, AskWallet, WalletRejects, WalletAnswers, WalletLost, Attach, chainVars
  <2>5. CASE OtherStep(p) \/ Deny(p)
    BY <2>5 DEF OtherStep, Done, Cancel, PrepareReplacement, RefuseReplacement, SaveReplacement,
       Deny, Error, chainVars
  <2>6. CASE Fail(p) \/ Crash(p)
    BY <2>6 DEF Fail, Crash, Error, chainVars
  <2>. QED
    BY <1>5, <2>1, <2>2, <2>3, <2>4, <2>5, <2>6 DEF Step, ExecuteStep
<1>6. ASSUME NEW p \in Procs, NEW o \in Ops, Request(p, o) PROVE Same
  BY <1>6 DEF Request, CallStatus, CallExecute, CallAttach, CallCancel, CallReplace,
     chainVars
<1>7. CASE Environment
  BY <1>2, <1>3, <1>4, <1>7 DEF Environment, ChainStep, Evict, WalletSubmits, Receive,
     WalletDrops, Prepare, Expire, chainVars
<1>8. CASE UNCHANGED vars
  BY <1>2, <1>8 DEF vars, chainVars
<1>. QED
  BY <1>2, <1>5, <1>6, <1>7, <1>8 DEF Next

\* A receipt a status waits to check is the one it had, or one just seen.
KeepsReceipts ==
  \A q \in Procs, o \in Ops : Checking(frame'[q][o]) =>
    /\ frame'[q][o].snap = frame[q][o].snap
    /\ \/ Checking(frame[q][o]) /\ frame'[q][o].rcpt = frame[q][o].rcpt
       \/ frame'[q][o].rcpt \in InclusionsOf(frame[q][o].snap.hash)

KeepsHolders == \A q \in Procs : Holds(q) /\ Picks(q)

LEMMA NextHolds ==
  ASSUME TypeOK, PlainInv, NoReplacement, [Next]_vars
  PROVE  KeepsReceipts /\ KeepsHolders
<1>1. CASE UNCHANGED <<procVars, statusVars>>
  BY <1>1 DEF KeepsReceipts, KeepsHolders, Holds, Picks, procVars, statusVars
<1>2. ASSUME NEW p \in Procs, Moves(p) PROVE KeepsReceipts /\ KeepsHolders
  <2>1. ASSUME NEW q \in Procs \ {p} PROVE Holds(q) /\ Picks(q) /\ frame'[q] = frame[q]
    BY <1>2 DEF Moves, OthersKeep, Holds, Picks
  <2>2. KeepsHolders
    BY <1>2, <2>1 DEF KeepsHolders, Moves
  <2>3. KeepsReceipts
    BY <1>2, <2>1 DEF KeepsReceipts, Moves, Snaps
  <2>. QED
    BY <2>2, <2>3
<1>. QED
  BY <1>1, <1>2, NextMoves

-----------------------------------------------------------------------------
(* A settled row, or a copy of one, tells what happened *)

Truthful(s, inclusions) ==
  s.tag \in Settled =>
    \E i \in inclusions : i.tx = s.hash /\ (s.tag = "confirmed") = i.ok

ReceiptsStand ==
  \A p \in Procs, o \in Ops : Checking(frame[p][o]) =>
    frame[p][o].rcpt \in included /\ frame[p][o].rcpt.tx = frame[p][o].snap.hash

SettleInv ==
  /\ \A o \in Ops : /\ Truthful(ops[o], included)
                    /\ \A p \in Procs : \A s \in Held(p, o) : Truthful(s, included)
  /\ ReceiptsStand

\* Only the receipt a status has checked settles a row.
LEMMA DerivedTruth ==
  ASSUME NEW p \in Procs, NEW o \in Ops, NEW c \in Operation, NEW s, TypeOK,
         Derives(p, o, c, s), ReceiptsStand
  PROVE  Truthful(s, included)
<1>. USE DEF Settled
<1>1. ASSUME NEW i \in included, i.tx = c.hash, s = Outcome(c, i)
      PROVE  Truthful(s, included)
  <2>1. i.ok \in BOOLEAN
    BY DEF TypeOK, ChainTypeOK, Inclusion
  <2>2. s.hash = c.hash /\ s.tag = IF i.ok THEN "confirmed" ELSE "reverted"
    BY <1>1 DEF Outcome, Operation
  <2>3. CASE i.ok = TRUE
    BY <1>1, <2>2, <2>3 DEF Truthful
  <2>4. CASE i.ok = FALSE
    BY <1>1, <2>2, <2>4 DEF Truthful
  <2>. QED
    BY <2>1, <2>3, <2>4
<1>2. CASE s = Restored(c)
  <2>1. CASE SignedOf(c) # None
    <3>. DEFINE t == SignedOf(c)
    <3>1. s = [c EXCEPT !.tag = "submitting", !.hash = t, !.nonce = t.nonce]
      BY <1>2, <2>1 DEF Restored
    <3>. HIDE DEF t
    <3>. QED
      BY <3>1 DEF Operation, Truthful
  <2>2. CASE SignedOf(c) = None
    BY <1>2, <2>2 DEF Restored, Operation, Truthful
  <2>. QED
    BY <2>1, <2>2
<1>3. CASE s = [c EXCEPT !.tag = "pending", !.signed = c.hash]
  BY <1>3 DEF Operation, Truthful
<1>4. CASE c = frame[p][o].snap /\ frame[p][o].pc = "finality"
           /\ s = Outcome(c, frame[p][o].rcpt)
  BY <1>1, <1>4 DEF ReceiptsStand, Checking
<1>. QED
  BY <1>2, <1>3, <1>4 DEF Derives

LEMMA SettleNext ==
  TypeOK /\ PlainInv /\ IssueInv /\ SettleInv /\ FinalChain /\ [Next]_vars => SettleInv'
<1>. SUFFICES ASSUME TypeOK, PlainInv, IssueInv, SettleInv, FinalChain, [Next]_vars
              PROVE  SettleInv'
  OBVIOUS
<1>. USE DEF FinalChain
<1>1. KeepsCopies /\ KeepsReceipts /\ Effect /\ included \subseteq included'
  BY NextKeeps, NextHolds, NextEffect, ChainGrows
<1>2. ASSUME NEW s, Truthful(s, included) PROVE Truthful(s, included')
  BY <1>1, <1>2 DEF Truthful
<1>3. ASSUME NEW s, s.tag \notin Settled PROVE Truthful(s, included)
  BY <1>3 DEF Truthful
<1>4. ASSUME NEW o \in Ops, NEW s, Save(o, s), Truthful(s, included)
      PROVE  \A q \in Ops : Truthful(ops'[q], included)
  BY <1>4, SavedRow DEF SettleInv
<1>5. \A q \in Ops : Truthful(ops'[q], included)
  <2>1. CASE UNCHANGED ops
    BY <2>1 DEF SettleInv
  <2>2. ASSUME NEW o \in Ops, Inserts(o) PROVE \A q \in Ops : Truthful(ops'[q], included)
    BY <1>3, <1>4, <2>2 DEF Inserts, Blank, Settled
  <2>3. ASSUME NEW p \in Procs, NEW o \in Ops, call[p].op = o, EffectOf(p, o)
        PROVE  \A q \in Ops : Truthful(ops'[q], included)
    <3>1. CASE Cancels(p, o)
      BY <1>3, <1>4, <3>1 DEF Cancels, Blank, Settled
    <3>2. ASSUME NEW c \in Held(p, o), NEW s, Rewrites(p, o, c, s)
          PROVE  \A q \in Ops : Truthful(ops'[q], included)
      <4>1. c \in Operation
        BY HeldType
      <4>2. Truthful(s, included)
        BY <3>2, <4>1, DerivedTruth DEF Rewrites, SettleInv
      <4>. QED
        BY <1>4, <3>2, <4>2 DEF Rewrites
    <3>3. ASSUME NEW t \in Tx, Signs(p, o, t)
          PROVE  \A q \in Ops : Truthful(ops'[q], included)
      BY <1>3, <1>4, <3>3 DEF Signs, SignedRow, Settled
    <3>4. ASSUME NEW t \in Tx, Asks(p, o, t) \/ Names(p, o, t)
          PROVE  \A q \in Ops : Truthful(ops'[q], included)
      BY <1>3, <1>4, <3>4 DEF Asks, Names, Settled
    <3>5. ASSUME NEW t \in Tx, Rejects(p, o, t)
          PROVE  \A q \in Ops : Truthful(ops'[q], included)
      BY <1>4, <2>3, <3>5, HeldOwn DEF Rejects, SettleInv
    <3>. QED
      BY <2>1, <2>3, <3>1, <3>2, <3>3, <3>4, <3>5 DEF EffectOf, Sends
  <2>. QED
    BY <1>1, <2>1, <2>2, <2>3 DEF Effect, Quiet, Submits, Drops
<1>6. ASSUME NEW o \in Ops, NEW p \in Procs, NEW s \in Held(p, o)'
      PROVE  Truthful(s, included')
  <2>1. s \in Held(p, o) \cup {NoOp, ops[o], ops'[o]}
    BY <1>1, <1>6 DEF KeepsCopies
  <2>2. Truthful(NoOp, included)
    BY NoOpFacts DEF Truthful, Settled
  <2>. QED
    BY <1>2, <1>5, <2>1, <2>2 DEF SettleInv
<1>7. ReceiptsStand'
  <2>. SUFFICES ASSUME NEW p \in Procs, NEW o \in Ops, Checking(frame'[p][o])
                PROVE  /\ frame'[p][o].rcpt \in included'
                       /\ frame'[p][o].rcpt.tx = frame'[p][o].snap.hash
    BY DEF ReceiptsStand
  <2>. QED
    BY <1>1 DEF KeepsReceipts, SettleInv, ReceiptsStand, InclusionsOf
<1>. QED
  BY <1>2, <1>5, <1>6, <1>7 DEF SettleInv

LEMMA SettleInit == Init => SettleInv
<1>. SUFFICES ASSUME Init PROVE SettleInv
  OBVIOUS
<1>1. NoFrame.snap = NoOp /\ NoFrame.pc = "off"
  BY DEF NoFrame
<1>2. \A o \in Ops : ops[o] = NoOp /\ \A p \in Procs : \A s \in Held(p, o) : s = NoOp
  BY <1>1 DEF Init, StoreInit, StatusInit, Held
<1>3. Truthful(NoOp, included)
  BY NoOpFacts DEF Truthful, Settled
<1>4. ReceiptsStand
  BY <1>1 DEF Init, StatusInit, ReceiptsStand, Checking
<1>. QED
  BY <1>2, <1>3, <1>4 DEF SettleInv

LEMMA SettleInvariant ==
  ASSUME FinalChain
  PROVE  Spec => [](TypeOK /\ LockHeld /\ PlainInv /\ IssueInv /\ SettleInv)
<1>1. TypeOK /\ PlainInv /\ IssueInv /\ SettleInv /\ [Next]_vars => SettleInv'
  BY SettleNext
<1>2. NoReplacement
  BY DEF FinalChain
<1>3. Spec => [](TypeOK /\ LockHeld /\ PlainInv /\ IssueInv)
  BY <1>2, IssueInvariant
<1>. QED
  BY <1>1, <1>3, SettleInit, PTL DEF Spec

\* A row shown as confirmed or reverted has an inclusion of its own
\* transaction with that outcome, even if the status that settled it read the
\* row, the receipt and the block long before it wrote.
THEOREM SettledIsTrue == FinalChain => (Spec => []SettledHappened)
<1>. SUFFICES ASSUME FinalChain PROVE Spec => []SettledHappened
  OBVIOUS
<1>1. ASSUME TypeOK, IssueInv, SettleInv PROVE SettledHappened
  <2>. SUFFICES ASSUME NEW o \in Ops, ops[o].tag \in Settled
                PROVE  \E i \in included : /\ i.tx = ops[o].hash /\ i.tx.op = o
                                           /\ (ops[o].tag = "confirmed") = i.ok
    BY DEF SettledHappened
  <2>1. PICK i \in included : i.tx = ops[o].hash /\ (ops[o].tag = "confirmed") = i.ok
    BY <1>1 DEF SettleInv, Truthful
  <2>2. ops[o].hash # None
    BY <1>1 DEF TypeOK, StoreTypeOK, Operation
  <2>3. ops[o].hash \in Backed(o)
    BY <1>1, <2>2 DEF IssueInv, CopiesTraced, Traced
  <2>4. ops[o].hash.op = o
    BY <1>1, <2>3 DEF IssueInv, LeavesOnce
  <2>. QED
    BY <2>1, <2>4
<1>. QED
  BY <1>1, SettleInvariant, PTL

-----------------------------------------------------------------------------
(* With local keys, one transaction of an account at a time *)

FinalLocal == FinalChain /\ LocalKeys

SameAccount(o, q) == o # q /\ AccountOf[o] = AccountOf[q]

\* Only one operation of an account is on its way.
OneOnItsWay ==
  \A o, q \in Ops : SameAccount(o, q) => ~(IsUnresolved(o) /\ IsUnresolved(q))

\* Who works under the lock works on the only one that may be.
HoldersAlone == \A p \in Procs : pc[p] \in HolderPcs => Alone(call[p].op)

\* The signed operations of an account have different nonces, and the nonce a
\* process is about to sign with is beyond them all.
NoncesDiffer ==
  \A o, q \in Ops :
    SameAccount(o, q) /\ ops[o].signed # None /\ ops[q].signed # None
      => ops[o].signed.nonce # ops[q].signed.nonce
NonceIsBeyond(p, q) ==
  SameAccount(call[p].op, q) /\ ops[q].signed # None
    => ops[q].signed.nonce < nonce[p]
SignersBeyond == \A p \in Procs : pc[p] = "sign" => \A q \in Ops : NonceIsBeyond(p, q)

AccountInv ==
  NoncesConsumed /\ OneOnItsWay /\ HoldersAlone /\ NoncesDiffer /\ SignersBeyond

\* With local keys, what backs an operation is the bytes in its row.
LEMMA LocalBacked ==
  ASSUME TypeOK, LocalInv, NEW o \in Ops
  PROVE  Backed(o) \subseteq {ops[o].signed} \ {None}
<1>1. ASSUME NEW t \in SentOf(o) PROVE t = ops[o].signed /\ t # None
  BY NoneAssumption DEF LocalInv, SentIsJournaled, SentOf, TypeOK, ChainTypeOK
<1>. QED
  BY <1>1 DEF Backed

\* A row turns unresolved only by the process that works on it under the lock.
LEMMA TurnsUnresolved ==
  ASSUME TypeOK, PlainInv, IssueInv, LocalInv, SettleInv, FinalLocal, Effect,
         NEW o \in Ops, IsUnresolved(o)', ~IsUnresolved(o)
  PROVE  \E p \in Procs : call[p].op = o /\ pc[p] \in HolderPcs
<1>. USE DEF IsUnresolved, FinalLocal
<1>1. ASSUME NEW q \in Ops, NEW s, Save(q, s)
      PROVE  q = o /\ ops'[o] = s /\ s.tag \in Unresolved
  BY <1>1, SavedRow
<1>2. ASSUME NEW q \in Ops, Inserts(q) PROVE FALSE
  <2>1. Save(q, Blank("prepared", BasePlan))
    BY <1>2 DEF Inserts
  <2>2. Blank("prepared", BasePlan).tag \in Unresolved
    BY <1>1, <2>1
  <2>. QED
    BY <2>2 DEF Blank, Unresolved, InFlight
<1>3. ASSUME NEW p \in Procs, NEW q \in Ops, call[p].op = q, EffectOf(p, q)
      PROVE  call[p].op = o /\ pc[p] \in HolderPcs
  <2>1. CASE Cancels(p, q)
    <3>1. Blank("cancelled", ops[q].plan).tag \in Unresolved
      BY <1>1, <2>1 DEF Cancels
    <3>. QED
      BY <3>1 DEF Blank, Unresolved, InFlight
  <2>2. ASSUME NEW c \in Held(p, q), NEW s, Rewrites(p, q, c, s)
        PROVE  call[p].op = o /\ pc[p] \in HolderPcs
    <3>1. q = o /\ s.tag \in Unresolved /\ Derives(p, o, c, s) /\ c \in Operation
      BY <1>1, <2>2, HeldType DEF Rewrites
    <3>2. frame[p][o].pc = "block" => frame[p][o].rcpt \in included
      BY DEF SettleInv, ReceiptsStand, Checking
    <3>3. c.tag \in Settled => IsIncluded(c.hash)
      BY <2>2, <3>1 DEF SettleInv, Truthful, IsIncluded, InclusionsOf
    <3>4. ASSUME NEW i, s = Outcome(c, i) PROVE FALSE
      BY <3>1, <3>4 DEF Outcome, Operation, Unresolved, InFlight
    <3>5. pc[p] = "savePending"
      BY <3>1, <3>2, <3>3, <3>4 DEF Derives
    <3>. QED
      BY <1>3, <3>1, <3>5 DEF HolderPcs
  <2>3. ASSUME NEW t \in Tx, Signs(p, q, t) PROVE call[p].op = o /\ pc[p] \in HolderPcs
    BY <1>1, <1>3, <2>3 DEF Signs, HolderPcs
  <2>4. ASSUME NEW t \in Tx, Asks(p, q, t) \/ Rejects(p, q, t) PROVE FALSE
    BY <2>4 DEF Asks, Rejects, LocalKeys, LocalInv
  <2>5. ASSUME NEW t \in Tx, Names(p, q, t) PROVE FALSE
    <3>1. work[p].tag = "walletPending"
      BY <2>5 DEF Names, LocalKeys, PlainInv, Direct
    <3>. QED
      BY <1>3, <3>1, HeldOwn DEF LocalInv, IsLocal
  <2>6. CASE Sends(p)
    BY <2>6 DEF Sends
  <2>. QED
    BY <1>3, <2>1, <2>2, <2>3, <2>4, <2>5, <2>6 DEF EffectOf
<1>. QED
  BY <1>2, <1>3 DEF Effect, Quiet, Submits, Drops

\* The bytes of a row change once, when its plan is signed.
LEMMA BytesOfRow ==
  ASSUME TypeOK, PlainInv, IssueInv, LocalInv, LocalKeys, Effect, NEW o \in Ops,
         ops'[o].signed # ops[o].signed
  PROVE  /\ ops[o].signed = None
         /\ \E p \in Procs : /\ call[p].op = o /\ pc[p] = "sign" /\ pc'[p] = "broadcast"
                             /\ ops'[o].signed.nonce = nonce[p]
<1>1. ASSUME NEW q \in Ops, NEW s, Save(q, s) PROVE q = o /\ ops'[o] = s
  BY <1>1, SavedRow
<1>2. ASSUME ops[o].tag \notin Issued, NEW tag, NEW plan, ops'[o] = Blank(tag, plan)
      PROVE  FALSE
  BY <1>2, NothingOut DEF Blank
<1>3. ASSUME NEW q \in Ops, Inserts(q) PROVE FALSE
  BY <1>1, <1>2, <1>3 DEF Inserts, Issued, Unresolved, Settled, InFlight
<1>4. ASSUME NEW p \in Procs, NEW q \in Ops, call[p].op = q, EffectOf(p, q)
      PROVE  /\ ops[o].signed = None /\ call[p].op = o
             /\ pc[p] = "sign" /\ pc'[p] = "broadcast" /\ ops'[o].signed.nonce = nonce[p]
  <2>1. CASE Cancels(p, q)
    BY <1>1, <1>2, <2>1 DEF Cancels, Issued, Unresolved, Settled, InFlight
  <2>2. ASSUME NEW c \in Held(p, q), NEW s, Rewrites(p, q, c, s) PROVE FALSE
    <3>1. q = o /\ ops'[o] = s /\ c.hash # None /\ c \in Operation
      BY <1>1, <2>2, HeldType DEF Rewrites
    <3>2. c.signed = c.hash /\ c.hash \in Backed(o)
      BY <3>1 DEF LocalInv, IsLocal, IssueInv, CopiesTraced, Traced
    <3>3. s.signed = c.hash
      BY <2>2, <3>1, <3>2, DerivedRow DEF Rewrites
    <3>. QED
      BY <3>1, <3>2, <3>3, LocalBacked
  <2>3. ASSUME NEW t \in Tx, Signs(p, q, t)
        PROVE  /\ ops[o].signed = None /\ call[p].op = o
               /\ pc[p] = "sign" /\ pc'[p] = "broadcast"
               /\ ops'[o].signed.nonce = nonce[p]
    <3>1. PICK plan : Save(q, SignedRow(plan, t))
      BY <2>3 DEF Signs
    <3>2. q = o /\ ops'[o] = SignedRow(plan, t)
      BY <1>1, <3>1
    <3>3. ops[o].tag = "prepared"
      BY <1>4, <2>3, <3>2 DEF Signs, IssueInv, WorkersSeePrepared, IsWorking
    <3>4. ops[o].signed = None
      BY <3>3, NothingOut DEF Issued, Unresolved, Settled, InFlight
    <3>. QED
      BY <1>4, <2>3, <3>2, <3>4 DEF Signs, SignedRow
  <2>4. ASSUME NEW t \in Tx, Asks(p, q, t) \/ Rejects(p, q, t) PROVE FALSE
    BY <2>4 DEF Asks, Rejects, LocalKeys, LocalInv
  <2>5. ASSUME NEW t \in Tx, Names(p, q, t) PROVE FALSE
    <3>1. work[p].tag = "walletPending"
      BY <2>5 DEF Names, LocalKeys, PlainInv, Direct
    <3>. QED
      BY <1>4, <3>1, HeldOwn DEF LocalInv, IsLocal
  <2>6. CASE Sends(p)
    BY <2>6 DEF Sends
  <2>. QED
    BY <1>4, <2>1, <2>2, <2>3, <2>4, <2>5, <2>6 DEF EffectOf
<1>. QED
  BY <1>3, <1>4 DEF Effect, Quiet, Submits, Drops

\* Two processes that work for one account are one.
LEMMA OneWorker ==
  ASSUME LockHeld, NEW p \in Procs, NEW q \in Procs, pc[p] \in HolderPcs,
         pc[q] \in HolderPcs, AccountOf[call[p].op] = AccountOf[call[q].op]
  PROVE  p = q
BY HeldExclusive DEF LockExclusive, HolderPcs, LockedPcs

\* While one operation may be under way, another of its account is settled
\* when it has bytes, and its nonce is consumed.
LEMMA OtherIsSettled ==
  ASSUME TypeOK, IssueInv, LocalInv, SettleInv, NoncesConsumed, NEW q \in Ops,
         ~IsUnresolved(q), ops[q].signed # None
  PROVE  ops[q].signed \in Tx /\ ops[q].signed.nonce < nonceOf[AccountOf[q]]
<1>1. ops[q].signed \in Backed(q) /\ ops[q].signed = ops[q].hash
  BY DEF Backed, LocalInv, IsLocal
<1>2. ops[q].signed.op = q /\ ops[q].tag \in Settled
  BY <1>1 DEF IssueInv, LeavesOnce, IsUnresolved, Issued
<1>3. PICK i \in included : i.tx = ops[q].signed
  BY <1>1, <1>2 DEF SettleInv, Truthful
<1>. QED
  BY <1>2, <1>3 DEF NoncesConsumed, TypeOK, ChainTypeOK, Inclusion

LEMMA AccountNext ==
  /\ TypeOK /\ LockHeld /\ PlainInv /\ IssueInv /\ LocalInv /\ SettleInv /\ AccountInv
  /\ FinalLocal /\ [Next]_vars
  => AccountInv'
<1>. SUFFICES ASSUME TypeOK, LockHeld, PlainInv, IssueInv, LocalInv, SettleInv, AccountInv,
                     FinalLocal, [Next]_vars
              PROVE  AccountInv'
  OBVIOUS
<1>. USE DEF FinalLocal, FinalChain
<1>1. Effect /\ KeepsHolders /\ NoncesConsumed'
  BY NextEffect, NextHolds, ChainGrows DEF AccountInv
<1>2. ASSUME NEW o \in Ops, IsUnresolved(o)', ~IsUnresolved(o)
      PROVE  \E p \in Procs : call[p].op = o /\ pc[p] \in HolderPcs /\ Alone(o)
  BY <1>1, <1>2, TurnsUnresolved DEF AccountInv, HoldersAlone
<1>3. OneOnItsWay'
  <2>. SUFFICES ASSUME NEW o \in Ops, NEW q \in Ops, SameAccount(o, q),
                       IsUnresolved(o)', IsUnresolved(q)'
                PROVE  FALSE
    BY DEF OneOnItsWay, SameAccount
  <2>1. IsUnresolved(o) => ~IsUnresolved(q)
    BY DEF AccountInv, OneOnItsWay
  <2>2. ASSUME ~IsUnresolved(o), IsUnresolved(q) PROVE FALSE
    BY <1>2, <2>2 DEF Alone, SameAccount
  <2>3. ASSUME IsUnresolved(o), ~IsUnresolved(q) PROVE FALSE
    BY <1>2, <2>3 DEF Alone, SameAccount
  <2>4. ASSUME ~IsUnresolved(o), ~IsUnresolved(q) PROVE FALSE
    BY <1>2, <2>4, OneWorker DEF SameAccount
  <2>. QED
    BY <2>1, <2>2, <2>3, <2>4
<1>4. HoldersAlone'
  <2>. SUFFICES ASSUME NEW p \in Procs, pc'[p] \in HolderPcs, NEW q \in Ops,
                       q # call'[p].op, AccountOf[q] = AccountOf[call'[p].op],
                       IsUnresolved(q)'
                PROVE  FALSE
    BY DEF HoldersAlone, Alone
  <2>1. /\ call'[p] = call[p]
        /\ pc[p] \in HolderPcs \/ (Alone(call[p].op) /\ UNCHANGED ops)
    BY <1>1 DEF KeepsHolders, Holds
  <2>2. ~IsUnresolved(q)
    BY <2>1 DEF AccountInv, HoldersAlone, Alone
  <2>3. PICK r \in Procs : call[r].op = q /\ pc[r] \in HolderPcs
    BY <1>2, <2>2
  <2>4. CASE pc[p] \in HolderPcs
    BY <2>1, <2>3, <2>4, OneWorker
  <2>5. CASE UNCHANGED ops
    BY <2>2, <2>5 DEF IsUnresolved
  <2>. QED
    BY <2>1, <2>4, <2>5
<1>5. NoncesDiffer'
  <2>. SUFFICES ASSUME NEW o \in Ops, NEW q \in Ops, SameAccount(o, q),
                       ops'[o].signed # None, ops'[q].signed # None
                PROVE  ops'[o].signed.nonce # ops'[q].signed.nonce
    BY DEF NoncesDiffer, SameAccount
  <2>1. ASSUME NEW x \in Ops, NEW y \in Ops, SameAccount(x, y),
               ops'[x].signed # ops[x].signed, ops'[y].signed # None
        PROVE  ops'[x].signed.nonce # ops'[y].signed.nonce
    <3>1. PICK p \in Procs : /\ call[p].op = x /\ pc[p] = "sign"
                             /\ ops'[x].signed.nonce = nonce[p]
      BY <1>1, <2>1, BytesOfRow
    <3>2. ops'[y].signed = ops[y].signed
      <4>. SUFFICES ASSUME ops'[y].signed # ops[y].signed PROVE FALSE
        OBVIOUS
      <4>1. PICK r \in Procs : call[r].op = y /\ pc[r] = "sign"
        BY <1>1, BytesOfRow
      <4>2. r = p
        BY <2>1, <3>1, <4>1, OneWorker DEF HolderPcs, SameAccount
      <4>. QED
        BY <2>1, <3>1, <4>1, <4>2 DEF SameAccount
    <3>3. ops[y].signed.nonce < nonce[p]
      BY <2>1, <3>1, <3>2 DEF AccountInv, SignersBeyond, NonceIsBeyond
    <3>4. nonce[p] \in Nonces
      BY <3>1 DEF TypeOK, ProcTypeOK
    <3>. QED
      BY <3>1, <3>2, <3>3, <3>4 DEF Nonces
  <2>2. SameAccount(q, o)
    BY DEF SameAccount
  <2>3. CASE ops'[o].signed = ops[o].signed /\ ops'[q].signed = ops[q].signed
    BY <2>3 DEF AccountInv, NoncesDiffer
  <2>. QED
    BY <2>1, <2>2, <2>3
<1>6. SignersBeyond'
  <2>. SUFFICES ASSUME NEW p \in Procs, pc'[p] = "sign", NEW q \in Ops,
                       SameAccount(call'[p].op, q), ops'[q].signed # None
                PROVE  ops'[q].signed.nonce < nonce'[p]
    BY DEF SignersBeyond, NonceIsBeyond, SameAccount
  <2>1. /\ call'[p] = call[p]
        /\ \/ pc[p] = "sign" /\ nonce'[p] = nonce[p]
           \/ pc[p] = "nonce" /\ nonce'[p] \in PendingNonces(AccountOf[call[p].op])
    BY <1>1 DEF KeepsHolders, Holds, Picks, HolderPcs
  <2>2. pc[p] \in HolderPcs
    BY <2>1 DEF HolderPcs
  <2>3. ops'[q].signed = ops[q].signed
    <3>. SUFFICES ASSUME ops'[q].signed # ops[q].signed PROVE FALSE
      OBVIOUS
    <3>1. PICK r \in Procs : call[r].op = q /\ pc[r] = "sign"
      BY <1>1, BytesOfRow
    <3>2. r = p
      BY <2>1, <2>2, <3>1, OneWorker DEF HolderPcs, SameAccount
    <3>. QED
      BY <2>1, <3>1, <3>2 DEF SameAccount
  <2>4. CASE pc[p] = "sign" /\ nonce'[p] = nonce[p]
    BY <2>1, <2>3, <2>4 DEF AccountInv, SignersBeyond, NonceIsBeyond
  <2>5. CASE nonce'[p] \in PendingNonces(AccountOf[call[p].op])
    <3>1. ~IsUnresolved(q)
      BY <2>1, <2>2 DEF AccountInv, HoldersAlone, Alone, SameAccount
    <3>2. ops[q].signed \in Tx /\ ops[q].signed.nonce < nonceOf[AccountOf[q]]
      BY <2>3, <3>1, OtherIsSettled DEF AccountInv
    <3>3. nonce'[p] >= nonceOf[AccountOf[q]] /\ nonce'[p] \in Nonces
      BY <2>1, <2>5 DEF PendingNonces, SameAccount
    <3>4. nonceOf[AccountOf[q]] \in Nat /\ ops[q].signed.nonce \in Nat
      BY <3>2, AccountOfAssumption, BoundsAssumption
         DEF TypeOK, ChainTypeOK, Tx, Nonces
    <3>. QED
      BY <2>3, <3>2, <3>3, <3>4 DEF Nonces
  <2>. QED
    BY <2>1, <2>4, <2>5
<1>. QED
  BY <1>1, <1>3, <1>4, <1>5, <1>6 DEF AccountInv

LEMMA AccountInit == Init => AccountInv
<1>. SUFFICES ASSUME Init PROVE AccountInv
  OBVIOUS
<1>1. \A o \in Ops : ops[o].tag = "absent" /\ ops[o].signed = None
  BY NoOpFacts DEF Init, StoreInit
<1>2. included = {} /\ \A p \in Procs : pc[p] = "idle"
  BY DEF Init, ChainInit
<1>. QED
  BY <1>1, <1>2 DEF AccountInv, NoncesConsumed, OneOnItsWay, HoldersAlone, NoncesDiffer,
     SignersBeyond, HolderPcs, IsUnresolved, Unresolved, InFlight

LEMMA AccountInvariant ==
  ASSUME FinalLocal
  PROVE  Spec => [](TypeOK /\ PlainInv /\ IssueInv /\ LocalInv /\ AccountInv)
<1>1. /\ TypeOK /\ LockHeld /\ PlainInv /\ IssueInv /\ LocalInv /\ SettleInv /\ AccountInv
      /\ [Next]_vars
      => AccountInv'
  BY AccountNext
<1>2. FinalChain /\ LocalKeys
  BY DEF FinalLocal
<1>3. Spec => [](TypeOK /\ LockHeld /\ PlainInv /\ IssueInv /\ LocalInv)
  BY <1>2, LocalInvariant
<1>4. Spec => [](TypeOK /\ LockHeld /\ PlainInv /\ IssueInv /\ SettleInv)
  BY <1>2, SettleInvariant
<1>. QED
  BY <1>1, <1>3, <1>4, AccountInit, PTL DEF Spec

\* Operations that share an account are never on their way together and never
\* sign the same nonce, although nodes report any prefix of their pool as the
\* next nonce, locks outlive their holders and settled rows are written late.
THEOREM AccountsKeepApart == FinalLocal => (Spec => []AccountsAreSafe)
<1>. SUFFICES ASSUME FinalLocal PROVE Spec => []AccountsAreSafe
  OBVIOUS
<1>1. ASSUME TypeOK, PlainInv, IssueInv, LocalInv, AccountInv PROVE AccountsAreSafe
  <2>1. OneInFlight
    BY <1>1 DEF OneInFlight, AccountInv, OneOnItsWay, SameAccount
  <2>2. NoncesAreApart
    <3>. SUFFICES ASSUME NEW t \in sent, NEW u \in sent,
                         AccountOf[t.op] = AccountOf[u.op]
                  PROVE  IF t.op = u.op THEN t.nonce = u.nonce
                         ELSE t.nonce = u.nonce => Related(t.op, u.op)
      BY DEF NoncesAreApart
    <3>1. /\ t.op \in Ops /\ u.op \in Ops /\ t # None /\ u # None
          /\ ops[t.op].signed = t /\ ops[u.op].signed = u
      BY <1>1, NoneAssumption DEF TypeOK, ChainTypeOK, Tx, LocalInv, SentIsJournaled
    <3>2. CASE t.op = u.op
      BY <3>1, <3>2
    <3>3. CASE t.op # u.op
      BY <1>1, <3>1, <3>3 DEF AccountInv, NoncesDiffer, SameAccount
    <3>. QED
      BY <3>2, <3>3
  <2>. QED
    BY <2>1, <2>2 DEF AccountsAreSafe
<1>. QED
  BY <1>1, AccountInvariant, PTL
=============================================================================
