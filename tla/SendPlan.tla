------------------------------ MODULE SendPlan ------------------------------
(***************************************************************************)
(* packages/sugar/src/send.ts and execution-journal.ts: processes send the *)
(* transactions of plans one by one, keep a journal file per plan and one  *)
(* lock file per wallet, and resume or cancel what is left of a plan.  All *)
(* plans are of one wallet and chain.  What a process does before it has   *)
(* the lock leaves nothing behind, so a command begins with the lock.      *)
(***************************************************************************)
EXTENDS Naturals

CONSTANTS
  SendProcs,    \* processes of the program
  Plans,        \* plan ids
  PlanLength,   \* transactions per plan
  SendTroubles, \* bound: deaths, lost receipts and declined cancellations
  NoOwner,      \* the lock file does not exist
  Gone          \* the process that wrote the lock file died

ASSUME SendAssumption ==
  /\ PlanLength \in Nat \ {0} /\ SendTroubles \in Nat
  /\ NoOwner \notin SendProcs /\ Gone \notin SendProcs \cup {NoOwner}

VARIABLES
  journals,     \* the file of each plan
  lockFile,     \* owner of the wallet's lock file
  planExpired,  \* plans whose expiresAt has passed
  fate,         \* what became of the transaction of each step
  broadcasts,   \* history: transactions broadcast for each step
  sendStep,     \* next step of each process
  sendPlanId,   \* the plan it works on
  journal,      \* its copy of the plan's journal
  sendTroubles

sendWorld == <<planExpired, fate, broadcasts>>
sendLocals == <<sendStep, sendPlanId, journal>>
sendVars == <<journals, lockFile, sendWorld, sendLocals, sendTroubles>>

PlanSteps == 1..PlanLength
StepStates == {"ready", "submitting", "submitted", "confirmed", "reverted"}
Journal == [status: {"none", "active", "complete", "failed", "cancelled"},
            steps: [PlanSteps -> StepStates]]
NewJournal == [status |-> "none", steps |-> [i \in PlanSteps |-> "ready"]]
Fates == {"none", "pending", "success", "reverted", "replaced"}
SendSteps == {"idle", "check", "next", "send", "sent", "wait", "cancel"}

SendTypeOK ==
  /\ journals \in [Plans -> Journal]
  /\ lockFile \in SendProcs \cup {NoOwner, Gone}
  /\ planExpired \in SUBSET Plans
  /\ fate \in [Plans -> [PlanSteps -> Fates]]
  /\ broadcasts \in [Plans -> [PlanSteps -> Nat]]
  /\ sendStep \in [SendProcs -> SendSteps]
  /\ sendPlanId \in [SendProcs -> Plans \cup {NoOwner}]
  /\ journal \in [SendProcs -> Journal]
  /\ \A p \in SendProcs : sendStep[p] # "idle" => sendPlanId[p] \in Plans
  /\ sendTroubles \in 0..SendTroubles

SendInit ==
  /\ journals = [a \in Plans |-> NewJournal]
  /\ lockFile = NoOwner
  /\ planExpired = {}
  /\ fate = [a \in Plans |-> [i \in PlanSteps |-> "none"]]
  /\ broadcasts = [a \in Plans |-> [i \in PlanSteps |-> 0]]
  /\ sendStep = [p \in SendProcs |-> "idle"]
  /\ sendPlanId = [p \in SendProcs |-> NoOwner]
  /\ journal = [p \in SendProcs |-> NewJournal]
  /\ sendTroubles = 0

-----------------------------------------------------------------------------
SendTurn(p, from, to) ==
  sendStep[p] = from /\ sendStep' = [sendStep EXCEPT ![p] = to]

\* save: the file is replaced as a whole, and p goes on with what it saved.
SaveJournal(p, j) ==
  /\ journals' = [journals EXCEPT ![sendPlanId[p]] = j]
  /\ journal' = [journal EXCEPT ![p] = j]

SetStep(j, i, state) == [j EXCEPT !.steps[i] = state]

Forget(p) ==
  /\ sendStep' = [sendStep EXCEPT ![p] = "idle"]
  /\ sendPlanId' = [sendPlanId EXCEPT ![p] = NoOwner]
  /\ journal' = [journal EXCEPT ![p] = NewJournal]

\* The command ends, normally or by an error; its lock file is removed.
EndCommand(p) == Forget(p) /\ lockFile' = NoOwner

\* The same, after a last save.
SaveAndEnd(p, j) ==
  EndCommand(p) /\ journals' = [journals EXCEPT ![sendPlanId[p]] = j]

\* acquire: the lock file is created if there is none.
TakeLockFile(p, a, step) ==
  /\ lockFile = NoOwner /\ lockFile' = p
  /\ SendTurn(p, "idle", step)
  /\ sendPlanId' = [sendPlanId EXCEPT ![p] = a]
  /\ UNCHANGED <<journals, sendWorld, journal, sendTroubles>>

-----------------------------------------------------------------------------
(* sendPlan *)

\* A new plan must not have expired; a known one is resumed.
CallSend(p, a) ==
  /\ journals[a].status # "none" \/ a \notin planExpired
  /\ TakeLockFile(p, a, "check")

\* Faulty variant: a plan waiting for its next transaction does not count.
OthersPending(a) ==
  \E b \in Plans \ {a} : /\ journals[b].status = "active"
                         /\ \E i \in PlanSteps : journals[b].steps[i] = "submitted"

\* Another plan of the wallet is still active.
IsActive(a) == journals[a].status = "active"
OthersActive(a) == \E b \in Plans \ {a} : IsActive(b)

\* The journal is loaded, or begun, and saved.
CheckPlan(p) ==
  LET a == sendPlanId[p]
      known == journals[a]
      j == IF known.status = "none" THEN [known EXCEPT !.status = "active"]
                                    ELSE known IN
  /\ sendStep[p] = "check"
  /\ IF j.status \in {"cancelled", "failed"} \/ OthersActive(a)
     THEN EndCommand(p) /\ UNCHANGED journals
     ELSE SaveJournal(p, j) /\ SendTurn(p, "check", "next")
          /\ UNCHANGED <<lockFile, sendPlanId>>
  /\ UNCHANGED <<sendWorld, sendTroubles>>

\* The steps before i are confirmed and i is not.
IsNext(j, i) ==
  /\ j.steps[i] # "confirmed"
  /\ \A k \in 1..(i - 1) : j.steps[k] = "confirmed"

\* All steps are confirmed: the journal is complete.
CompletePlan(p) ==
  /\ sendStep[p] = "next"
  /\ \A i \in PlanSteps : journal[p].steps[i] = "confirmed"
  /\ SaveAndEnd(p, [journal[p] EXCEPT !.status = "complete"])
  /\ UNCHANGED <<sendWorld, sendTroubles>>

\* The next step's outcome is unknown or it reverted, or it is ready and the
\* plan has expired or beforeSend refuses it.
StopAtStep(p) ==
  /\ sendStep[p] = "next"
  /\ \E i \in PlanSteps : /\ IsNext(journal[p], i)
                          /\ journal[p].steps[i] # "submitted"
  /\ EndCommand(p)
  /\ UNCHANGED <<journals, sendWorld, sendTroubles>>

\* A submitted step is waited for again, without being sent again.
ResumeStep(p) ==
  /\ SendTurn(p, "next", "wait")
  /\ \E i \in PlanSteps : /\ IsNext(journal[p], i)
                          /\ journal[p].steps[i] = "submitted"
  /\ UNCHANGED <<journals, lockFile, sendWorld, sendPlanId, journal, sendTroubles>>

MaySubmit(p, i) ==
  /\ IsNext(journal[p], i) /\ journal[p].steps[i] = "ready"
  /\ sendPlanId[p] \notin planExpired

\* Faulty variant: the journal is saved only once the hash is known.
SubmitUnsaved(p) ==
  /\ SendTurn(p, "next", "send")
  /\ \E i \in PlanSteps :
       /\ MaySubmit(p, i)
       /\ journal' = [journal EXCEPT ![p].steps[i] = "submitting"]
  /\ UNCHANGED <<journals, lockFile, sendWorld, sendPlanId, sendTroubles>>

\* A ready step is saved as submitting before the signer is asked.
Submit(p) ==
  /\ SendTurn(p, "next", "send")
  /\ \E i \in PlanSteps :
       MaySubmit(p, i) /\ SaveJournal(p, SetStep(journal[p], i, "submitting"))
  /\ UNCHANGED <<lockFile, sendWorld, sendPlanId, sendTroubles>>

\* The signer broadcasts the transaction of step i.
Broadcasts(a, i) ==
  /\ broadcasts' = [broadcasts EXCEPT ![a][i] = @ + 1]
  /\ fate' = [fate EXCEPT ![a][i] = "pending"]

\* signer.send returns the hash ...
SignerSends(p) ==
  /\ SendTurn(p, "send", "sent")
  /\ \E i \in PlanSteps : IsNext(journal[p], i) /\ Broadcasts(sendPlanId[p], i)
  /\ UNCHANGED <<journals, lockFile, planExpired, sendPlanId, journal, sendTroubles>>

\* ... which is saved.
SaveHash(p) ==
  /\ SendTurn(p, "sent", "wait")
  /\ \E i \in PlanSteps :
       IsNext(journal[p], i) /\ SaveJournal(p, SetStep(journal[p], i, "submitted"))
  /\ UNCHANGED <<lockFile, sendWorld, sendPlanId, sendTroubles>>

\* Faulty variant: any error of the signer passes for one before broadcast.
AfterAnyError(surely) == "ready"

\* TransactionNotSubmittedError makes the step ready again; after any other
\* error of the signer it stays submitting.
AfterError(surely) == IF surely THEN "ready" ELSE "submitting"

\* The signer fails, before or after it has broadcast.
SignerFails(p) ==
  /\ sendStep[p] = "send"
  /\ \E i \in PlanSteps, surely \in BOOLEAN :
       /\ IsNext(journal[p], i)
       /\ \/ UNCHANGED <<broadcasts, fate>>
          \/ ~surely /\ Broadcasts(sendPlanId[p], i)
       /\ SaveAndEnd(p, SetStep(journal[p], i, AfterError(surely)))
  /\ UNCHANGED <<planExpired, sendTroubles>>

\* waitForTransactionReceipt gives the receipt of the hash.
Receipt(p) ==
  /\ sendStep[p] = "wait"
  /\ \E i \in PlanSteps :
       /\ IsNext(journal[p], i)
       /\ \/ /\ fate[sendPlanId[p]][i] = "success"
             /\ SaveJournal(p, SetStep(journal[p], i, "confirmed"))
             /\ SendTurn(p, "wait", "next")
             /\ UNCHANGED <<lockFile, sendPlanId>>
          \/ /\ fate[sendPlanId[p]][i] = "reverted"
             /\ SaveAndEnd(p, [SetStep(journal[p], i, "reverted")
                                 EXCEPT !.status = "failed"])
  /\ UNCHANGED <<sendWorld, sendTroubles>>

Trouble ==
  sendTroubles < SendTroubles /\ sendTroubles' = sendTroubles + 1

\* It gives up, or gives the receipt of a replacement; or the provider fails.
NoReceipt(p) ==
  /\ sendStep[p] = "wait"
  /\ \E i \in PlanSteps :
       /\ IsNext(journal[p], i)
       /\ IF fate[sendPlanId[p]][i] \in {"success", "reverted"} THEN Trouble
          ELSE UNCHANGED sendTroubles
  /\ EndCommand(p)
  /\ UNCHANGED <<journals, sendWorld>>

-----------------------------------------------------------------------------
(* executions cancel *)

CallPlanCancel(p, a) ==
  journals[a].status # "none" /\ TakeLockFile(p, a, "cancel")

\* Faulty variant: a plan that has begun cannot be cancelled any more.
MayCancelUntouched(j) ==
  j.status = "active" /\ \A i \in PlanSteps : j.steps[i] = "ready"

\* Nothing of an active plan is under way.
MayCancel(j) ==
  /\ j.status = "active"
  /\ \A i \in PlanSteps : j.steps[i] \notin {"submitting", "submitted"}

\* Loaded again under the lock, checked, confirmed by the user, and saved.
CancelPlan(p) ==
  LET j == journals[sendPlanId[p]] IN
  /\ sendStep[p] = "cancel" /\ MayCancel(j)
  /\ SaveAndEnd(p, [j EXCEPT !.status = "cancelled"])
  /\ UNCHANGED <<sendWorld, sendTroubles>>

\* It is not active, a submission is under way, or the user declines.
LeavePlan(p) ==
  /\ sendStep[p] = "cancel"
  /\ IF MayCancel(journals[sendPlanId[p]]) THEN Trouble
     ELSE UNCHANGED sendTroubles
  /\ EndCommand(p)
  /\ UNCHANGED <<journals, sendWorld>>

-----------------------------------------------------------------------------
(* Time, the chain, deaths and the operator *)

ExpirePlan(a) ==
  /\ planExpired' = planExpired \cup {a}
  /\ UNCHANGED <<journals, lockFile, fate, broadcasts, sendLocals, sendTroubles>>

\* A transaction is included, or loses its nonce to one of the wallet's own.
SettleTx(a, i) ==
  /\ fate[a][i] = "pending"
  /\ \E f \in {"success", "reverted", "replaced"} :
       fate' = [fate EXCEPT ![a][i] = f]
  /\ UNCHANGED <<journals, lockFile, planExpired, broadcasts, sendLocals,
                 sendTroubles>>

\* A process dies: its lock file stays.
SendCrash(p) ==
  /\ sendStep[p] # "idle" /\ Trouble
  /\ lockFile' = Gone
  /\ Forget(p)
  /\ UNCHANGED <<journals, sendWorld>>

\* The operator stops the processes, inspects the lock file and removes it.
RemoveLockFile ==
  /\ lockFile = Gone /\ lockFile' = NoOwner
  /\ UNCHANGED <<journals, sendWorld, sendLocals, sendTroubles>>

SendProcStep(p) ==
  \/ CheckPlan(p) \/ CompletePlan(p) \/ StopAtStep(p) \/ ResumeStep(p)
  \/ Submit(p) \/ SignerSends(p) \/ SaveHash(p) \/ SignerFails(p)
  \/ Receipt(p) \/ NoReceipt(p) \/ CancelPlan(p) \/ LeavePlan(p)

SendNext ==
  \/ \E p \in SendProcs : SendProcStep(p) \/ SendCrash(p)
  \/ \E p \in SendProcs, a \in Plans : CallSend(p, a) \/ CallPlanCancel(p, a)
  \/ \E a \in Plans : ExpirePlan(a)
  \/ \E a \in Plans, i \in PlanSteps : SettleTx(a, i)
  \/ RemoveLockFile

SendSpec == SendInit /\ [][SendNext]_sendVars

\* The client's next try at an active plan: to cancel what is left once it has
\* expired, to resume it otherwise.
Retry ==
  \E p \in SendProcs, a \in Plans :
    /\ IsActive(a)
    /\ IF a \in planExpired /\ MayCancel(journals[a]) THEN CallPlanCancel(p, a)
       ELSE CallSend(p, a)

PlanTimePasses == \E a \in Plans : IsActive(a) /\ ExpirePlan(a)

-----------------------------------------------------------------------------
\* What sending promises, seen through the journal files and the chain.
Promise == INSTANCE PlanPromise WITH
  status <- [a \in Plans |-> journals[a].status],
  outcome <- fate,
  times <- broadcasts

\* Whatever fails, dies, is resumed or cancelled, sending implements its
\* promise: a step is broadcast at most once, "without resending"
\* (send.ts:341), and only after all steps before it succeeded; two plans of a
\* wallet are never active together ("Wallet has an unresolved execution",
\* send.ts:300); no transaction is under way in a plan shown as cancelled
\* (cli/execution-commands.ts:40), and a plan is shown as complete or failed
\* only if that is what happened.
KeepsPromise == Promise!PromiseSpec

\* The submission of a step is unknown, or its transaction is not settled or
\* was replaced.
Undecided(a) ==
  \E i \in PlanSteps :
    \/ journals[a].steps[i] = "submitting"
    \/ journals[a].steps[i] = "submitted" /\ fate[a][i] \in {"pending", "replaced"}

\* A plan that is tried again as often as needed, resumed or, once expired,
\* cancelled, ends, unless the outcome of one of its steps remains unknown or the lock
\* file of a dead process is never removed.
PlanEnds ==
  <>[](\/ lockFile = Gone
       \/ \A a \in Plans : IsActive(a) => Undecided(a))
=============================================================================
