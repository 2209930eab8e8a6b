----------------------------- MODULE Execution -----------------------------
(***************************************************************************)
(* execution.ts: processes sharing one journal prepare, execute, cancel,   *)
(* replace and reconcile operations.  A command is a sequence of steps,    *)
(* one between any two awaits at which another process could matter; pc[p] *)
(* is the step process p is about to take once no status activation of it  *)
(* is left (top[p] = None).                                                *)
(***************************************************************************)
EXTENDS Reconcile

CONSTANTS
  External,   \* processes whose signer is an external wallet, not a key
  Commands,   \* the commands clients issue in this instance
  Expiring,   \* operations whose plan may expire while it matters
  Yolo,       \* whether clients may skip the approval
  Budget,     \* operations the signer's policy lets be reserved in all
  MaxCrashes  \* bound: number of process deaths

ASSUME ExternalAssumption == External \subseteq Procs /\ Expiring \subseteq Ops
ASSUME LimitsAssumption ==
  Budget \in Nat /\ MaxCrashes \in Nat /\ Yolo \in BOOLEAN

VARIABLES
  pc,         \* next step of each process
  call,       \* arguments of the command each process runs
  work,       \* its local copy of the operation
  nonce,      \* its local nonce
  asks,       \* requests the external wallets have received and not decided
  reserved,   \* operations charged to the policy, which spans all accounts
  expired,    \* operations whose plan.expiresAt has passed
  crashes

procVars == <<pc, call, work, nonce>>
worldVars == <<asks, reserved, expired, crashes>>
vars == <<chainVars, storeVars, statusVars, procVars, worldVars>>

LockedPcs == {"locked", "original", "nonce", "sign", "ask", "broadcast",
              "savePending", "cancel", "unlock"}
Pcs == {"idle", "gate", "attach", "replace", "replaceSave", "done"}
         \cup LockedPcs

\* approval is the fingerprint the caller reviewed, or None for --yolo; key
\* and fee are the arguments of replace.
Call == [op: Ops \cup {None}, approval: Plan \cup {None},
         key: Ops \cup {None}, fee: Fees]
NoCall == [op |-> None, approval |-> None, key |-> None, fee |-> 0]

ProcTypeOK ==
  /\ pc \in [Procs -> Pcs]
  /\ call \in [Procs -> Call]
  /\ work \in [Procs -> Operation]
  /\ nonce \in [Procs -> Nonces \cup {NoNonce}]
  /\ \A p \in Procs :
       /\ pc[p] # "idle" => call[p].op \in Ops
       /\ pc[p] \in {"replace", "replaceSave"} => call[p].key \in Ops
       /\ pc[p] \in {"sign", "ask", "replaceSave"} => nonce[p] # NoNonce
       /\ pc[p] \in {"broadcast", "savePending"} => work[p].tag \in InFlight
       /\ pc[p] = "attach" => work[p].tag = "walletPending"

WorldTypeOK ==
  /\ asks \in SUBSET Tx
  /\ reserved \in SUBSET Ops
  /\ expired \in SUBSET Ops
  /\ crashes \in 0..MaxCrashes

TypeOK == ChainTypeOK /\ StoreTypeOK /\ StatusTypeOK /\ ProcTypeOK /\ WorldTypeOK

Init ==
  /\ ChainInit /\ StoreInit /\ StatusInit
  /\ pc = [p \in Procs |-> "idle"]
  /\ call = [p \in Procs |-> NoCall]
  /\ work = [p \in Procs |-> NoOp]
  /\ nonce = [p \in Procs |-> NoNonce]
  /\ asks = {} /\ reserved = {} /\ expired = {} /\ crashes = 0

-----------------------------------------------------------------------------
Goto(p, step) == pc' = [pc EXCEPT ![p] = step]
Keep(p, operation) == work' = [work EXCEPT ![p] = operation]

\* p stands before step `step`, with no status call under way.
At(p, step) == pc[p] = step /\ top[p] = None

\* The command p runs ends; its registers are gone.
Finish(p) ==
  /\ Goto(p, "idle")
  /\ call' = [call EXCEPT ![p] = NoCall]
  /\ work' = [work EXCEPT ![p] = NoOp]
  /\ nonce' = [nonce EXCEPT ![p] = NoNonce]
  /\ Unwind(p)

Begin(p, command, args) ==
  /\ pc[p] = "idle"
  /\ command \in Commands
  /\ ops[args.op].tag # "absent"
  /\ call' = [call EXCEPT ![p] = args]

TheTx(o, plan, n) == [op |-> o, nonce |-> n, fee |-> plan.fee]

-----------------------------------------------------------------------------
\* prepare: simulates, then inserts the plan unless the key is taken, in
\* which case the stored operation is returned untouched.
Prepare(o) ==
  /\ "prepare" \in Commands
  /\ ops[o].tag = "absent"
  /\ Save(o, Blank("prepared", BasePlan))
  /\ UNCHANGED <<locks, chainVars, statusVars, procVars, worldVars>>

\* Time passes plan.expiresAt.
Expire(o) ==
  /\ o \in Expiring
  /\ ops[o].tag = "prepared"
  /\ expired' = expired \cup {o}
  /\ UNCHANGED <<chainVars, storeVars, statusVars, procVars,
                 asks, reserved, crashes>>

\* status, also one poll of waitForOperation.
CallStatus(p, o) ==
  /\ Begin(p, "status", [NoCall EXCEPT !.op = o])
  /\ Goto(p, "done") /\ Enter(p, o, None)
  /\ UNCHANGED <<chainVars, storeVars, work, nonce, worldVars>>

Done(p) ==
  /\ At(p, "done")
  /\ Finish(p)
  /\ UNCHANGED <<chainVars, storeVars, worldVars>>

-----------------------------------------------------------------------------
(* execute *)

\* The caller passes the fingerprint of the plan it reviewed, or --yolo.
CallExecute(p, o) ==
  /\ \E approval \in {ops[o].plan} \cup (IF Yolo THEN {None} ELSE {}) :
       Begin(p, "execute", [NoCall EXCEPT !.op = o, !.approval = approval])
  /\ Goto(p, "gate") /\ Enter(p, o, None)
  /\ UNCHANGED <<chainVars, storeVars, work, nonce, worldVars>>

\* The checks on the first status, made before the lock is taken.
Approves(p, initial) ==
  /\ initial.tag \notin Settled \cup {"superseded", "cancelled"}
  /\ call[p].approval \in {None, initial.plan}

Acquire(p) ==
  /\ At(p, "gate")
  /\ Approves(p, ret[p])
  /\ MayLock(call[p].op, ret[p].plan)
  /\ TakeLock(p, call[p].op)
  /\ Goto(p, "locked") /\ Enter(p, call[p].op, None)
  /\ UNCHANGED <<chainVars, ops, call, work, nonce, worldVars>>

Refuse(p) ==
  /\ At(p, "gate")
  /\ ~(Approves(p, ret[p]) /\ MayLock(call[p].op, ret[p].plan))
  /\ Finish(p)
  /\ UNCHANGED <<chainVars, storeVars, worldVars>>

\* Under the lock, the second status decides how execute goes on.
Dispatch(p) ==
  LET r == ret[p] IN
  /\ At(p, "locked")
  /\ Keep(p, r)
  /\ \/ /\ r.tag = "prepared" /\ call[p].op \notin expired
        /\ r.plan.repl # None
        /\ Goto(p, "original") /\ Enter(p, r.plan.repl, None)
     \/ /\ r.tag = "prepared" /\ call[p].op \notin expired
        /\ r.plan.repl = None
        /\ Goto(p, "nonce") /\ UNCHANGED statusVars
     \/ /\ r.tag \in InFlight
        /\ Goto(p, "broadcast") /\ UNCHANGED statusVars
     \/ /\ r.tag = "walletPending"
        /\ Goto(p, "unlock") /\ Enter(p, call[p].op, None)
     \/ /\ r.tag \notin {"prepared"} \cup Unresolved
        /\ Goto(p, "unlock") /\ UNCHANGED statusVars
     \/ /\ r.tag = "prepared" /\ call[p].op \in expired
        /\ Goto(p, "unlock") /\ UNCHANGED statusVars
  /\ UNCHANGED <<chainVars, storeVars, call, nonce, worldVars>>

\* sign: a replacement is refused unless its original is still in flight.
CheckOriginal(p) ==
  /\ At(p, "original")
  /\ Goto(p, IF ret[p].tag \in InFlight THEN "nonce"
                                                        ELSE "unlock")
  /\ UNCHANGED <<chainVars, storeVars, statusVars, call, work, nonce, worldVars>>

\* sign: preflight and simulation passed; the nonce is the original's or the
\* one the node reports; expiry is checked again and the policy charged once.
\* Faulty variant: one reservation too many.
MayChargeOneMore(o) == o \in reserved \/ Cardinality(reserved) <= Budget

MayCharge(o) ==
  o \in reserved \/ Cardinality(reserved) < Budget

\* Faulty variant: a replacement does not take its original's nonce.
PickFreshNonce(p) ==
  /\ At(p, "nonce")
  /\ call[p].op \notin expired
  /\ MayCharge(call[p].op)
  /\ reserved' = reserved \cup {call[p].op}
  /\ \E n \in PendingNonces(AccountOf[call[p].op]) :
       nonce' = [nonce EXCEPT ![p] = n]
  /\ Goto(p, "sign")
  /\ UNCHANGED <<chainVars, storeVars, statusVars, call, work,
                 asks, expired, crashes>>

PickNonce(p) ==
  LET plan == work[p].plan IN
  /\ At(p, "nonce")
  /\ call[p].op \notin expired
  /\ MayCharge(call[p].op)
  /\ reserved' = reserved \cup {call[p].op}
  /\ \E n \in IF plan.repl # None THEN {plan.nonce}
              ELSE PendingNonces(AccountOf[call[p].op]) :
       nonce' = [nonce EXCEPT ![p] = n]
  /\ Goto(p, "sign")
  /\ UNCHANGED <<chainVars, storeVars, statusVars, call, work,
                 asks, expired, crashes>>

\* Faulty variant: the signed bytes are not saved before they are sent.
SignUnsaved(p) ==
  LET o == call[p].op
      t == TheTx(o, work[p].plan, nonce[p]) IN
  /\ At(p, "sign") /\ p \notin External
  /\ Keep(p, [tag |-> "submitting", plan |-> work[p].plan, hash |-> t,
              nonce |-> nonce[p], signed |-> t])
  /\ Goto(p, "broadcast")
  /\ UNCHANGED <<storeVars, chainVars, statusVars, call, nonce, worldVars>>

\* A local key signs; bytes, hash and nonce are saved before any broadcast.
SignLocal(p) ==
  LET o == call[p].op
      t == TheTx(o, work[p].plan, nonce[p])
      signed == [tag |-> "submitting", plan |-> work[p].plan, hash |-> t,
                 nonce |-> nonce[p], signed |-> t] IN
  /\ At(p, "sign") /\ p \notin External
  /\ Save(o, signed) /\ Keep(p, signed)
  /\ Goto(p, "broadcast")
  /\ UNCHANGED <<locks, chainVars, statusVars, call, nonce, worldVars>>

\* The stored bytes are sent unless they already have a receipt, and the node
\* acknowledges them.
Broadcast(p) ==
  /\ At(p, "broadcast")
  /\ ~IsIncluded(work[p].hash)
  /\ Receive(work[p].hash)
  /\ Goto(p, "savePending")
  /\ UNCHANGED <<storeVars, statusVars, call, work, nonce, worldVars>>

\* There is a receipt, the node refuses the bytes, or its answer is lost (the
\* network may have them all the same): status follows and execute ends.
BroadcastUnconfirmed(p) ==
  /\ At(p, "broadcast")
  /\ \/ UNCHANGED chainVars
     \/ ~IsIncluded(work[p].hash) /\ Receive(work[p].hash)
  /\ Goto(p, "unlock") /\ Enter(p, call[p].op, None)
  /\ UNCHANGED <<storeVars, call, work, nonce, worldVars>>

SavePending(p) ==
  LET t == work[p].hash IN
  /\ At(p, "savePending")
  /\ Save(call[p].op, [work[p] EXCEPT !.tag = "pending", !.signed = t])
  /\ Goto(p, "unlock") /\ Enter(p, call[p].op, None)
  /\ UNCHANGED <<locks, chainVars, call, work, nonce, worldVars>>

Unlock(p) ==
  /\ At(p, "unlock")
  /\ ReleaseLock(call[p].op)
  /\ Finish(p)
  /\ UNCHANGED <<chainVars, ops, worldVars>>

-----------------------------------------------------------------------------
(* execute with an external wallet *)

\* Mutant: the wallet is asked and nothing is saved until it answers.
AskUnsaved(p) ==
  /\ At(p, "sign") /\ p \in External
  /\ asks' = asks \cup {TheTx(call[p].op, work[p].plan, nonce[p])}
  /\ Goto(p, "ask")
  /\ UNCHANGED <<ops, locks, chainVars, statusVars, call, work, nonce,
                 reserved, expired, crashes>>

\* sign: walletPending without a hash is saved, then the wallet is asked.
AskWallet(p) ==
  LET o == call[p].op IN
  /\ At(p, "sign") /\ p \in External
  /\ Save(o, [Blank("walletPending", work[p].plan) EXCEPT !.nonce = nonce[p]])
  /\ asks' = asks \cup {TheTx(o, work[p].plan, nonce[p])}
  /\ Goto(p, "ask")
  /\ UNCHANGED <<locks, chainVars, statusVars, call, work, nonce,
                 reserved, expired, crashes>>

\* The wallet submits a request it holds, perhaps long after the process gave
\* up waiting, and perhaps under a nonce of its own.
WalletSubmits(t) ==
  /\ \E n \in {t.nonce} \cup PendingNonces(AccountOf[t.op]) :
       Receive([t EXCEPT !.nonce = n])
  /\ asks' = asks \ {t}
  /\ UNCHANGED <<storeVars, statusVars, procVars, reserved, expired, crashes>>

\* The wallet never saw the request or drops it without an answer.
WalletDrops(t) ==
  /\ asks' = asks \ {t}
  /\ UNCHANGED <<chainVars, storeVars, statusVars, procVars,
                 reserved, expired, crashes>>

\* Faulty variant: every failure of the request passes for a rejection.
RejectAnyFailure(p) ==
  LET o == call[p].op IN
  /\ At(p, "ask")
  /\ Save(o, work[p])
  /\ Goto(p, "unlock")
  /\ UNCHANGED <<locks, chainVars, statusVars, call, work, nonce, worldVars>>

\* WalletRejected: nothing was submitted, the plan is prepared again.
WalletRejects(p) ==
  LET o == call[p].op IN
  /\ At(p, "ask")
  /\ TheTx(o, work[p].plan, nonce[p]) \in asks
  /\ asks' = asks \ {TheTx(o, work[p].plan, nonce[p])}
  /\ Save(o, work[p])
  /\ Goto(p, "unlock")
  /\ UNCHANGED <<locks, chainVars, statusVars, call, work, nonce,
                 reserved, expired, crashes>>

\* The wallet answers with the hash of what it submitted.
WalletAnswers(p) ==
  LET o == call[p].op IN
  /\ At(p, "ask")
  /\ \E t \in sent :
       /\ t.op = o
       /\ Save(o, [Blank("walletPending", work[p].plan)
                     EXCEPT !.nonce = nonce[p], !.hash = t])
  /\ Goto(p, "unlock") /\ Enter(p, o, None)
  /\ UNCHANGED <<locks, chainVars, call, work, nonce, worldVars>>

\* Any other failure of the request leaves the outcome unresolved.
WalletLost(p) ==
  /\ At(p, "ask")
  /\ Goto(p, "unlock")
  /\ UNCHANGED <<chainVars, storeVars, statusVars, call, work, nonce, worldVars>>

\* attachTransaction: reads the unresolved row, awaits the transaction ...
CallAttach(p, o) ==
  /\ Begin(p, "attach", [NoCall EXCEPT !.op = o])
  /\ ops[o].tag = "walletPending"
  /\ Keep(p, ops[o]) /\ Goto(p, "attach")
  /\ UNCHANGED <<chainVars, storeVars, statusVars, nonce, worldVars>>

\* ... and, if it matches plan and nonce, saves its hash over the row.
Attachable(p) ==
  {t \in sent : /\ t.op = call[p].op /\ IsKnown(t)
                /\ t.nonce = work[p].nonce /\ t.fee <= work[p].plan.fee}

Attach(p) ==
  /\ At(p, "attach")
  /\ \E t \in Attachable(p) : Save(call[p].op, [work[p] EXCEPT !.hash = t])
  /\ Goto(p, "done") /\ Enter(p, call[p].op, None)
  /\ UNCHANGED <<locks, chainVars, call, work, nonce, worldVars>>

-----------------------------------------------------------------------------
(* cancel *)

CallCancel(p, o) ==
  /\ Begin(p, "cancel", [NoCall EXCEPT !.op = o])
  /\ MayLock(o, ops[o].plan) /\ TakeLock(p, o)
  /\ Goto(p, "cancel")
  /\ UNCHANGED <<chainVars, ops, statusVars, work, nonce, worldVars>>

\* Under the lock the row is read again: only a prepared plan is cancelled.
Cancel(p) ==
  LET o == call[p].op IN
  /\ At(p, "cancel")
  /\ IF ops[o].tag = "prepared"
     THEN Save(o, Blank("cancelled", ops[o].plan)) ELSE UNCHANGED ops
  /\ Goto(p, "unlock")
  /\ UNCHANGED <<locks, chainVars, statusVars, call, work, nonce, worldVars>>

-----------------------------------------------------------------------------
(* replace *)

CallReplace(p, o, k, f) ==
  /\ k # o /\ AccountOf[k] = AccountOf[o]
  /\ Begin(p, "replace", [NoCall EXCEPT !.op = o, !.key = k, !.fee = f])
  /\ Goto(p, "replace") /\ Enter(p, o, None)
  /\ UNCHANGED <<chainVars, storeVars, work, nonce, worldVars>>

\* prepareReplacement: the original must be in flight and the fee higher;
\* prepare returns the operation of the key, inserting it when it is new.
Replaceable(p) ==
  /\ ret[p].tag \in InFlight
  /\ call[p].fee > ret[p].plan.fee

PrepareReplacement(p) ==
  LET k == call[p].key
      prepared == IF ops[k].tag = "absent" THEN Blank("prepared", BasePlan)
                                           ELSE ops[k] IN
  /\ At(p, "replace")
  /\ Replaceable(p)
  /\ Save(k, prepared)
  /\ IF prepared.plan.repl = None /\ prepared.tag = "prepared"
     THEN /\ Keep(p, prepared)
          /\ nonce' = [nonce EXCEPT ![p] = ret[p].nonce]
          /\ Goto(p, "replaceSave") /\ UNCHANGED <<statusVars, call>>
     ELSE Finish(p)
  /\ UNCHANGED <<locks, chainVars, worldVars>>

RefuseReplacement(p) ==
  /\ At(p, "replace")
  /\ ~Replaceable(p)
  /\ Finish(p)
  /\ UNCHANGED <<chainVars, storeVars, worldVars>>

\* The plan with its replacement, fee and new fingerprint overwrites the row.
SaveReplacement(p) ==
  /\ At(p, "replaceSave")
  /\ Save(call[p].key, Blank("prepared", [fee |-> call[p].fee,
                                          repl |-> call[p].op,
                                          nonce |-> nonce[p]]))
  /\ Finish(p)
  /\ UNCHANGED <<locks, chainVars, worldVars>>

-----------------------------------------------------------------------------
\* An error ends the command; acquireUseRelease still releases its lock.
Error(p) ==
  /\ IF pc[p] \in LockedPcs
     THEN Goto(p, "unlock") /\ Unwind(p) /\ UNCHANGED <<call, work, nonce>>
     ELSE Finish(p)
  /\ UNCHANGED <<chainVars, storeVars, worldVars>>

\* Checks that fail: a wallet transaction that is unknown or differs from the
\* plan, an expired plan, an exhausted policy, nothing to attach.
Deny(p) ==
  /\ \/ InStatus(p, "receipt") /\ WalletCheckFails(Snap(p))
     \/ At(p, "nonce") /\ (call[p].op \in expired \/ ~MayCharge(call[p].op))
     \/ At(p, "attach") /\ Attachable(p) = {}
  /\ Error(p)

\* The provider, the simulation or the signer fails where it is awaited, or
\* the provider acknowledges a broadcast with an unexpected hash.
Fail(p) ==
  /\ \/ InStatus(p, "receipt") \/ InStatus(p, "block")
     \/ \E step \in {"nonce", "sign", "broadcast", "savePending",
                     "attach", "replace"} : At(p, step)
  /\ Error(p)

\* The process dies at any point and a new one takes its place: only the
\* journal and its lock row survive.
Crash(p) ==
  /\ pc[p] # "idle" /\ crashes < MaxCrashes
  /\ crashes' = crashes + 1
  /\ Finish(p)
  /\ AbandonLocks(p)
  /\ UNCHANGED <<chainVars, ops, asks, reserved, expired>>

-----------------------------------------------------------------------------
Status(p) == StatusStep(p) /\ UNCHANGED <<procVars, worldVars>>

ExecuteStep(p) ==
  \/ Acquire(p) \/ Refuse(p) \/ Dispatch(p) \/ CheckOriginal(p)
  \/ PickNonce(p) \/ SignLocal(p)
  \/ Broadcast(p) \/ BroadcastUnconfirmed(p) \/ SavePending(p)
  \/ Unlock(p)

WalletStep(p) ==
  \/ AskWallet(p) \/ WalletRejects(p) \/ WalletAnswers(p) \/ WalletLost(p)
  \/ Attach(p)

OtherStep(p) ==
  \/ Done(p) \/ Cancel(p)
  \/ PrepareReplacement(p) \/ RefuseReplacement(p) \/ SaveReplacement(p)

\* What process p does by itself once a command runs.
Step(p) ==
  Status(p) \/ ExecuteStep(p) \/ WalletStep(p) \/ OtherStep(p) \/ Deny(p)

\* What clients ask for.
Request(p, o) ==
  \/ CallStatus(p, o) \/ CallExecute(p, o)
  \/ CallAttach(p, o) \/ CallCancel(p, o)
  \/ \E k \in Ops, f \in Fees : CallReplace(p, o, k, f)

Environment ==
  \/ ChainStep /\ UNCHANGED <<storeVars, statusVars, procVars, worldVars>>
  \/ \E t \in asks : WalletSubmits(t) \/ WalletDrops(t)
  \/ \E o \in Ops : Prepare(o) \/ Expire(o)

Next ==
  \/ \E p \in Procs : Step(p) \/ Fail(p) \/ Crash(p)
  \/ \E p \in Procs, o \in Ops : Request(p, o)
  \/ Environment

Spec == Init /\ [][Next]_vars

\* What a client that keeps retrying may rely on: a process that runs takes
\* its next step; execute and status are called again and again (the retry
\* README.md:76 describes and the polls of waitForOperation); the network
\* acknowledges the bytes infinitely often and includes a transaction that is
\* infinitely often next.
NetworkIncludes(o) ==
  /\ \E t \in mempool : t.op = o /\ Mine(t)
  /\ UNCHANGED <<storeVars, statusVars, procVars, worldVars>>

Fairness ==
  /\ \A p \in Procs : WF_vars(Step(p))
  /\ \A o \in Ops : /\ SF_vars(\E p \in Procs : CallExecute(p, o))
                    /\ SF_vars(\E p \in Procs : CallStatus(p, o))
                    /\ SF_vars(NetworkIncludes(o))
  /\ \A p \in Procs, o \in Ops : SF_vars(call[p].op = o /\ Broadcast(p))

FairSpec == Spec /\ Fairness

-----------------------------------------------------------------------------
(* Safety *)

\* A process between lock and unlock owns the row of its account, with its
\* own operation and pid: unlock by operation id never removes another's row
\* and a dead holder is never a live process that still works.
LockHeld ==
  \A p \in Procs : pc[p] \in LockedPcs =>
    locks[AccountOf[call[p].op]] = [op |-> call[p].op, pid |-> p]

\* Two processes never work under the lock of one account (storage.ts:86).
LockExclusive ==
  \A p, q \in Procs :
    /\ pc[p] \in LockedPcs /\ pc[q] \in LockedPcs
    /\ AccountOf[call[p].op] = AccountOf[call[q].op]
    => p = q

Related(o, q) == ops[o].plan.repl = q \/ ops[q].plan.repl = o

\* README.md:82, "Unresolved operations block new submissions for that account
\* and chain": two unresolved operations of one account are an original and
\* its replacement.
OneInFlight ==
  \A o, q \in Ops :
    /\ o # q /\ AccountOf[o] = AccountOf[q]
    /\ IsUnresolved(o) /\ IsUnresolved(q)
    => Related(o, q)

\* README.md:76, "EOA signing persists bytes, hash and nonce before
\* broadcast": whatever a local key sent is what the journal still holds.
SentIsJournaled == \A t \in sent : ops[t.op].signed = t

\* Whatever was sent, by a key or by a wallet, the journal never again shows
\* as an unsigned plan that could be signed or cancelled.
SentIsNotForgotten ==
  \A t \in sent : ops[t.op].tag \notin {"absent", "prepared", "cancelled"}

\* Transactions of operations that do not replace one another never compete
\* for a nonce, and an operation never uses two.
NoncesAreApart ==
  \A t, u \in sent :
    AccountOf[t.op] = AccountOf[u.op] =>
      IF t.op = u.op THEN t.nonce = u.nonce
      ELSE t.nonce = u.nonce => Related(t.op, u.op)

\* One account, one transaction at a time: operations that share an account
\* and are not an original and its replacement are never in flight together
\* and never compete for a nonce.
AccountsAreSafe == OneInFlight /\ NoncesAreApart

\* A settled operation shows the outcome its transaction had on the chain.
SettledHappened ==
  \A o \in Ops : ops[o].tag \in Settled =>
    \E i \in included : /\ i.tx = ops[o].hash /\ i.tx.op = o
                        /\ (ops[o].tag = "confirmed") = i.ok

\* An operation shown as superseded can no longer be included: its nonce is
\* consumed by another transaction.
SupersededLost ==
  \A o \in Ops : ops[o].tag = "superseded" =>
    \A t \in sent : t.op = o =>
      ~IsIncluded(t) /\ t.nonce < nonceOf[AccountOf[o]]

\* Repricing: only an original and its replacements are in flight together, only
\* they compete for one nonce, and one shown as superseded has lost it.  Not of
\* every behaviour of Spec: a replacement saved over bytes that are with the
\* network (execution.ts:260) frees a nonce in use, and with three operations
\* the freed nonce is taken.  It is checked where no save is about to do that.
ReplacementHolds == AccountsAreSafe /\ SupersededLost

\* Everything sent was charged to the policy before (policy.ts:38), and the
\* policy, shared by accounts that execute concurrently, is never exceeded.
SentIsCharged ==
  /\ \A t \in sent : t.op \in reserved
  /\ Cardinality(reserved) <= Budget

\* Why SentIsCharged holds: whatever names a transaction, a row or a copy of
\* one that a process still holds, names one of an operation charged before.
IsCharged(s, charged) == /\ s.hash # None => s.hash.op \in charged
                         /\ s.signed # None => s.signed.op \in charged
RowsCharged == \A o \in Ops : IsCharged(ops[o], reserved)
ActivationsCharged ==
  \A p \in Procs : /\ IsCharged(ret[p], reserved)
                   /\ \A o \in Ops : IsCharged(frame[p][o].snap, reserved)
RegistersCharged ==
  \A p \in Procs : /\ IsCharged(work[p], reserved)
                   /\ pc[p] \in {"sign", "ask"} => call[p].op \in reserved
RequestsCharged ==
  /\ \A t \in asks \cup sent : t.op \in reserved
  /\ IsFiniteSet(reserved) /\ Cardinality(reserved) <= Budget
ChargedInv ==
  RowsCharged /\ ActivationsCharged /\ RegistersCharged /\ RequestsCharged

\* What is about to be signed is the plan whose fingerprint was approved.
SignsApproved ==
  \A p \in Procs :
    pc[p] \in {"nonce", "sign"} /\ call[p].approval # None =>
      work[p].plan = call[p].approval

\* The wallet is asked, or has submitted, at most once for an operation: what
\* is out under its name is one transaction, and a process that is about to ask
\* finds nothing out, so that not even the same request is made a second time.
WalletAskedOnce ==
  /\ \A t, u \in asks \cup sent : t.op = u.op => t = u
  /\ \A p \in External : At(p, "sign") => \A t \in asks \cup sent : t.op # call[p].op

\* scripts/e2e.ts:101, "cancelled plans cannot execute": cancelled is final.
CancelledIsFinal ==
  [][\A o \in Ops : ops[o].tag = "cancelled" => ops'[o].tag = "cancelled"]_vars

-----------------------------------------------------------------------------
(* Liveness, under FairSpec and a provider that stops failing at some point *)

ProviderRecovers == <>[][\A p \in Procs : ~Fail(p)]_vars

\* README.md:76, "Retrying execute reconciles or broadcasts those same bytes":
\* an operation with signed bytes is eventually settled or superseded.
SignedResolves == ProviderRecovers =>
  \A o \in Ops : ops[o].tag \in InFlight
                   ~> ops[o].tag \in Settled \cup {"superseded"}

HasInclusion(o) == \E i \in included : i.tx.op = o

\* README.md:136, "Call status again to detect reorgs": an operation included
\* on the chain is eventually shown as settled, or no longer included ...
InclusionIsShown == ProviderRecovers =>
  \A o \in Ops :
    HasInclusion(o) ~> (ops[o].tag \in Settled \/ ~HasInclusion(o))

\* ... and one shown as settled that lost its inclusion to a reorganisation is
\* not shown so for ever, unless it is included again.
ReorgIsShown == ProviderRecovers =>
  \A o \in Ops :
    (ops[o].tag \in Settled /\ ~HasInclusion(o))
      ~> (ops[o].tag \notin Settled \/ HasInclusion(o))
=============================================================================
