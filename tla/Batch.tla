------------------------------- MODULE Batch -------------------------------
(***************************************************************************)
(* batches.ts: one wallet batch (EIP-5792), prepared, run and reconciled   *)
(* by processes that share the documents table.  The wallet keeps its own  *)
(* record of the batch, under the id that the process chose.               *)
(***************************************************************************)
EXTENDS Naturals, FiniteSets

CONSTANTS
  BatchProcs,    \* processes running and polling the batch
  BatchReorgs,   \* bound: reorganisations of the receipts
  BatchCrashes   \* bound: process deaths

ASSUME BatchAssumption == BatchReorgs \in Nat /\ BatchCrashes \in Nat

VARIABLES
  batch,         \* state of document batch:id
  batchExpired,  \* batch.expiresAt has passed
  walletBatch,   \* status code of wallet_getCallsStatus for the id, 0 unknown
  walletSound,   \* its answer has the id, chain and atomicity asked for
  receiptsGone,  \* the receipts' blocks are not canonical at the moment
  batchReorgs,
  batchCrashes,
  sendCalls,     \* history: number of wallet_sendCalls requests made
  batchStep,     \* next step of each process
  batchAnswer    \* the wallet's answer it is about to save

batchWorld ==
  <<walletBatch, walletSound, receiptsGone, batchReorgs, sendCalls>>
batchLocals == <<batchStep, batchAnswer>>
batchVars == <<batch, batchExpired, batchWorld, batchCrashes, batchLocals>>

BatchStates == {"absent", "prepared", "submitting", "pending", "confirmed",
                "failed", "partial"}
FinalCodes == {200, 400, 500, 600}
WalletCodes == {0, 100} \cup FinalCodes
BatchSteps == {"idle", "claim", "send", "status", "ask", "verify", "put"}

BatchTypeOK ==
  /\ batch \in BatchStates /\ batchExpired \in BOOLEAN
  /\ walletBatch \in WalletCodes /\ walletSound \in BOOLEAN
  /\ receiptsGone \in BOOLEAN
  /\ batchReorgs \in 0..BatchReorgs /\ batchCrashes \in 0..BatchCrashes
  /\ sendCalls \in Nat
  /\ batchStep \in [BatchProcs -> BatchSteps]
  /\ batchAnswer \in [BatchProcs -> BatchStates]

BatchInit ==
  /\ batch = "absent" /\ batchExpired = FALSE
  /\ walletBatch = 0 /\ walletSound = TRUE /\ receiptsGone = FALSE
  /\ batchReorgs = 0 /\ batchCrashes = 0 /\ sendCalls = 0
  /\ batchStep = [p \in BatchProcs |-> "idle"]
  /\ batchAnswer = [p \in BatchProcs |-> "absent"]

-----------------------------------------------------------------------------
BatchTurn(p, from, to) ==
  batchStep[p] = from /\ batchStep' = [batchStep EXCEPT ![p] = to]

BatchQuit(p) ==
  /\ batchStep' = [batchStep EXCEPT ![p] = "idle"]
  /\ batchAnswer' = [batchAnswer EXCEPT ![p] = "absent"]

\* prepareBatch: the first caller of the key creates the document.
PrepareBatch ==
  /\ batch = "absent" /\ batch' = "prepared"
  /\ UNCHANGED <<batchExpired, batchWorld, batchCrashes, batchLocals>>

ExpireBatch ==
  /\ batch = "prepared" /\ batchExpired' = TRUE
  /\ UNCHANGED <<batch, batchWorld, batchCrashes, batchLocals>>

-----------------------------------------------------------------------------
(* runBatch *)

\* An approved run reads the batch; one already submitted is only reconciled,
\* an expired one is refused.
RunBatch(p) ==
  /\ \/ batch = "prepared" /\ ~batchExpired /\ BatchTurn(p, "idle", "claim")
     \/ batch \notin {"absent", "prepared"} /\ BatchTurn(p, "idle", "status")
  /\ UNCHANGED <<batch, batchExpired, batchWorld, batchCrashes, batchAnswer>>

\* The wallet is missing, fails its preflight, or the simulation reverts.
BatchRefused(p) ==
  /\ batchStep[p] = "claim"
  /\ BatchQuit(p)
  /\ UNCHANGED <<batch, batchExpired, batchWorld, batchCrashes>>

\* Faulty variant: the state is not looked at again.
Claims(state) == state # "absent"

\* Whether the document may still be taken for submission.
MayClaim(state) == state = "prepared"

\* updateDocument: prepared becomes submitting, in one transaction.
ClaimBatch(p) ==
  /\ batchStep[p] = "claim"
  /\ IF MayClaim(batch)
     THEN /\ batch' = "submitting" /\ BatchTurn(p, "claim", "send")
          /\ UNCHANGED batchAnswer
     ELSE BatchQuit(p) /\ UNCHANGED batch
  /\ UNCHANGED <<batchExpired, batchWorld, batchCrashes>>

\* wallet_sendCalls: the wallet takes the batch under the id, and the process
\* goes on to status or never hears of it.
SendBatch(p) ==
  /\ sendCalls' = sendCalls + 1
  /\ walletBatch' = IF walletBatch = 0 THEN 100 ELSE walletBatch
  /\ \/ BatchTurn(p, "send", "status") /\ UNCHANGED batchAnswer
     \/ batchStep[p] = "send" /\ BatchQuit(p)
  /\ UNCHANGED <<batch, batchExpired, walletSound, receiptsGone, batchReorgs,
                 batchCrashes>>

\* The wallet refuses, or does not keep the id: the outcome is uncertain.
SendBatchFails(p) ==
  /\ batchStep[p] = "send"
  /\ sendCalls' = sendCalls + 1
  /\ BatchQuit(p)
  /\ UNCHANGED <<batch, batchExpired, walletBatch, walletSound, receiptsGone,
                 batchReorgs, batchCrashes>>

-----------------------------------------------------------------------------
(* batchStatus *)

CallBatchStatus(p) ==
  /\ batch # "absent"
  /\ BatchTurn(p, "idle", "status")
  /\ UNCHANGED <<batch, batchExpired, batchWorld, batchCrashes, batchAnswer>>

\* The wallet knows nothing of a batch that is only prepared.
NotSent(state) == state = "prepared"

\* getBatch.
ReadBatch(p) ==
  /\ batchStep[p] = "status"
  /\ IF NotSent(batch) THEN BatchQuit(p)
     ELSE BatchTurn(p, "status", "ask") /\ UNCHANGED batchAnswer
  /\ UNCHANGED <<batch, batchExpired, batchWorld, batchCrashes>>

\* Faulty variant: the bounds are compared from below.
StateFromBelow(code) ==
  IF code >= 200 THEN "confirmed" ELSE IF code >= 400 THEN "failed"
  ELSE IF code >= 600 THEN "partial" ELSE "pending"

\* The state for a wallet's status code.
StateFor(code) ==
  IF code >= 600 THEN "partial" ELSE IF code >= 400 THEN "failed"
  ELSE IF code >= 200 /\ code < 300 THEN "confirmed" ELSE "pending"

\* wallet_getCallsStatus; an unknown id or an unsound answer is an error.
AskBatch(p) ==
  LET state == StateFor(walletBatch) IN
  /\ batchStep[p] = "ask"
  /\ IF walletBatch = 0 \/ ~walletSound THEN BatchQuit(p)
     ELSE /\ batchAnswer' = [batchAnswer EXCEPT ![p] = state]
          /\ BatchTurn(p, "ask",
               IF state = "confirmed" THEN "verify" ELSE "put")
  /\ UNCHANGED <<batch, batchExpired, batchWorld, batchCrashes>>

\* The receipts must be there and their blocks canonical.
VerifyBatch(p) ==
  /\ batchStep[p] = "verify"
  /\ IF receiptsGone THEN BatchQuit(p)
     ELSE BatchTurn(p, "verify", "put") /\ UNCHANGED batchAnswer
  /\ UNCHANGED <<batch, batchExpired, batchWorld, batchCrashes>>

\* putDocument, whatever the document says by now.
PutBatch(p) ==
  /\ batchStep[p] = "put"
  /\ batch' = batchAnswer[p]
  /\ BatchQuit(p)
  /\ UNCHANGED <<batchExpired, batchWorld, batchCrashes>>

-----------------------------------------------------------------------------
(* The wallet, the chain and the processes *)

WalletFinishes ==
  /\ walletBatch = 100 /\ walletBatch' \in FinalCodes
  /\ walletSound' \in BOOLEAN
  /\ UNCHANGED <<batch, batchExpired, receiptsGone, batchReorgs, sendCalls,
                 batchCrashes, batchLocals>>

BatchReorg ==
  /\ batchReorgs < BatchReorgs /\ walletBatch = 200 /\ ~receiptsGone
  /\ receiptsGone' = TRUE /\ batchReorgs' = batchReorgs + 1
  /\ UNCHANGED <<batch, batchExpired, walletBatch, walletSound, sendCalls,
                 batchCrashes, batchLocals>>

BatchReincluded ==
  /\ receiptsGone /\ receiptsGone' = FALSE
  /\ UNCHANGED <<batch, batchExpired, walletBatch, walletSound, batchReorgs,
                 sendCalls, batchCrashes, batchLocals>>

BatchCrash(p) ==
  /\ batchStep[p] # "idle" /\ batchCrashes < BatchCrashes
  /\ batchCrashes' = batchCrashes + 1
  /\ BatchQuit(p)
  /\ UNCHANGED <<batch, batchExpired, batchWorld>>

BatchPoll(p) ==
  \/ CallBatchStatus(p) \/ ReadBatch(p) \/ AskBatch(p) \/ VerifyBatch(p)
  \/ PutBatch(p)
BatchProcStep(p) == BatchPoll(p) \/ ClaimBatch(p) \/ SendBatch(p)

BatchNext ==
  \/ PrepareBatch \/ ExpireBatch
  \/ \E p \in BatchProcs :
       \/ RunBatch(p) \/ BatchRefused(p) \/ SendBatchFails(p)
       \/ BatchProcStep(p) \/ BatchCrash(p)
  \/ WalletFinishes \/ BatchReorg \/ BatchReincluded

BatchSpec == BatchInit /\ [][BatchNext]_batchVars

-----------------------------------------------------------------------------
\* However runs interleave, crash and are repeated, the wallet is asked to
\* send the batch once (batches.ts:65-70).
BatchSentOnce == sendCalls <= 1

\* README.md:80, "recover through wallet status": once the wallet is done with
\* the batch and its receipts are canonical for good, the batch is shown with
\* that outcome for good, whatever stale answers are saved on the way and
\* although the response of wallet_sendCalls may have been lost.
BatchIsShown ==
  <>[](walletBatch \in FinalCodes /\ walletSound /\ ~receiptsGone =>
         batch = CASE walletBatch = 200 -> "confirmed"
                   [] walletBatch = 600 -> "partial" [] OTHER -> "failed")
=============================================================================
