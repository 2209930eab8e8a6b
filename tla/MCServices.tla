----------------------------- MODULE MCServices -----------------------------
(***************************************************************************)
(* One instance for TLC of the services around the journal.  They share no *)
(* document, no lock and no process state, so exploring them one at a time *)
(* loses nothing: the first state picks the service that runs, the others  *)
(* stay at their beginning.                                                *)
(***************************************************************************)
EXTENDS Monitor, Batch, SmartExecution, SafeRelay, Workflow, SendPlan

VARIABLE service  \* the one that runs

Services == {"monitor", "batch", "smart", "relay", "workflow", "send"}

servicesVars ==
  <<service, monVars, batchVars, smartVars, relayVars, flowVars, sendVars>>

ServicesInit ==
  /\ service \in Services
  /\ MonitorInit /\ BatchInit /\ SmartInit /\ RelayInit /\ FlowInit
  /\ SendInit
  /\ service # "workflow" => holds = {}

\* All but one service, and which one that is, stay as they are.
Only(name) ==
  /\ service = name /\ UNCHANGED service
  /\ name # "monitor" => UNCHANGED monVars
  /\ name # "batch" => UNCHANGED batchVars
  /\ name # "smart" => UNCHANGED smartVars
  /\ name # "relay" => UNCHANGED relayVars
  /\ name # "workflow" => UNCHANGED flowVars
  /\ name # "send" => UNCHANGED sendVars

ServicesNext ==
  \/ Only("monitor") /\ MonitorNext
  \/ Only("batch") /\ BatchNext
  \/ Only("smart") /\ SmartExecutionNext
  \/ Only("relay") /\ RelayNext
  \/ Only("workflow") /\ WorkflowNext
  \/ Only("send") /\ SendNext

\* What process p does by itself, whichever service it belongs to.
Processes == UNION {Pollers, BatchProcs, SmartProcs, Clients, SendProcs}
ServiceStep(p) ==
  \/ Only("monitor") /\ p \in Pollers /\ MonitorStep(p)
  \/ Only("batch") /\ p \in BatchProcs /\ BatchProcStep(p)
  \/ Only("smart") /\ p \in SmartProcs /\ SmartProcStep(p)
  \/ Only("relay") /\ p \in Clients /\ RelayGoesOn(p)
  \/ Only("send") /\ p \in SendProcs /\ SendProcStep(p)

\* What somebody tries again however often it comes to nothing.
TriesAgain ==
  \/ Only("relay") /\ \E c \in Clients : PollRelay(c)
  \/ Only("send") /\ Retry

\* Clients poll again and again, acknowledge the batches they get, end the
\* commands they begin, and try an active plan again; time passes.  Nobody has
\* to run, sign, submit, cancel or pause anything else, and neither the chain
\* nor a wallet or provider has to move.  One service runs in a behaviour, so
\* each condition is the conjunction of the conditions of its disjuncts.
ServicesFairness ==
  /\ \A p \in Processes : WF_servicesVars(ServiceStep(p))
  /\ SF_servicesVars(TriesAgain)
  /\ WF_servicesVars(Only("send") /\ PlanTimePasses)

ServicesSpec == ServicesInit /\ [][ServicesNext]_servicesVars /\ ServicesFairness

-----------------------------------------------------------------------------
\* Every value of the service that runs is one the code can have; among them, the
\* cursor of a monitor stays within the chain it has seen.
ServicesTypeOK ==
  /\ service = "monitor" => MonitorTypeOK
  /\ service = "batch" => BatchTypeOK
  /\ service = "smart" => SmartTypeOK
  /\ service = "relay" => RelayTypeOK
  /\ service = "workflow" => FlowTypeOK
  /\ service = "send" => SendTypeOK

\* Monitors: no event below the cursor is skipped, and the cursor never passes
\* one that no client has acknowledged (monitor.ts:24-56).
MonitorAdvances == [][NothingSkipped' /\ AdvancesOnlyAfterAck]_monVars

\* Nothing runs twice: the wallet is asked once to send a batch
\* (batches.ts:65-70), and what was approved at the smart-wallet provider is
\* what the row records (smart-execution.ts:44-63).
NothingTwice == BatchSentOnce /\ ApprovedIsRecorded

\* A batch, a smart-wallet operation and a sponsored Safe operation end up
\* shown as what became of them, whatever stale answers were saved meanwhile.
OutcomesAreShown == BatchIsShown /\ RowFollowsEvent /\ RelayFollowsChain

\* Owners, submitters and cancellers of one sponsored operation: what the
\* bundler was given is on record as pending, and no signature is lost
\* (safe/relay.ts:35-38).
RelayIsRecorded == [][BundledIsRecorded' /\ SignaturesAreKept]_relayVars

\* Workflows go step by step, stop when cancelled, and are shown as completed
\* only when every condition holds (workflows.ts:43-85).
WorkflowHolds == StepsInOrder /\ CancelStops /\ CompletedIsTrue
=============================================================================
