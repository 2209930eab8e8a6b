------------------------------ MODULE Workflow ------------------------------
(***************************************************************************)
(* workflows.ts: a fixed list of operations run one after the other, each  *)
(* checked before the next is prepared, by clients that share the journal  *)
(* and may stop anywhere and run again.  What prepare, execute and status  *)
(* do to an operation is taken as a whole here (see Execution for it): an  *)
(* operation is prepared, sent, included in a block, and reorganised.      *)
(***************************************************************************)
EXTENDS Naturals, FiniteSets

CONSTANTS
  Runners,     \* clients running the workflow
  FlowLength,  \* number of steps
  Checked,     \* steps with a condition to verify
  FlowReorgs   \* bound: reorganisations

ASSUME FlowAssumption ==
  FlowLength \in Nat \ {0} /\ Checked \subseteq 1..FlowLength /\ FlowReorgs \in Nat

VARIABLES
  flow,        \* document workflow:id: "absent", "live" or "cancelled"
  flowOps,     \* row of each step's operation, with the block it shows
  evidence,    \* document workflow-check:id:i: a block, or 0
  included,    \* block of each step's transaction, 0 without one
  failing,     \* steps whose transaction reverts
  holds,       \* <<i, b>>: the condition of i is true once i is in block b
  flowReorgs,
  wasConfirmed, \* history: steps that have been included with success
  wasVerified, \* history: steps that a client has found as wanted
  late,        \* history: steps each client has prepared after the cancellation
  flowStep,    \* next step of each client
  flowAt,      \* the workflow's step it is at
  flowSaw      \* block in which it saw that step confirmed

flowWorld == <<included, failing, holds, flowReorgs>>
flowHistory == <<wasConfirmed, wasVerified, late>>
flowLocals == <<flowStep, flowAt, flowSaw>>
flowVars == <<flow, flowOps, evidence, flowWorld, flowHistory, flowLocals>>

FlowSteps == 1..FlowLength
Blocks == 1..(FlowReorgs + 1)
FlowTags == {"absent", "prepared", "pending", "confirmed", "reverted"}
FlowRow == [tag: FlowTags, block: {0} \cup Blocks]
FlowPcs == {"idle", "loop", "prepare", "execute", "wait", "check", "evidence"}

FlowTypeOK ==
  /\ flow \in {"absent", "live", "cancelled"}
  /\ flowOps \in [FlowSteps -> FlowRow]
  /\ evidence \in [FlowSteps -> {0} \cup Blocks]
  /\ included \in [FlowSteps -> {0} \cup Blocks]
  /\ failing \in SUBSET FlowSteps /\ holds \in SUBSET (FlowSteps \X Blocks)
  /\ flowReorgs \in 0..FlowReorgs
  /\ wasConfirmed \in SUBSET FlowSteps /\ wasVerified \in SUBSET FlowSteps
  /\ late \in [Runners -> 0..FlowLength]
  /\ flowStep \in [Runners -> FlowPcs]
  /\ flowAt \in [Runners -> FlowSteps]
  /\ flowSaw \in [Runners -> {0} \cup Blocks]

FlowInit ==
  /\ flow = "absent"
  /\ flowOps = [i \in FlowSteps |-> [tag |-> "absent", block |-> 0]]
  /\ evidence = [i \in FlowSteps |-> 0]
  /\ included = [i \in FlowSteps |-> 0]
  /\ failing = {} /\ holds \in SUBSET (Checked \X Blocks) /\ flowReorgs = 0
  /\ wasConfirmed = {} /\ wasVerified = {}
  /\ late = [r \in Runners |-> 0]
  /\ flowStep = [r \in Runners |-> "idle"]
  /\ flowAt = [r \in Runners |-> 1]
  /\ flowSaw = [r \in Runners |-> 0]

-----------------------------------------------------------------------------
FlowTo(r, step) == flowStep' = [flowStep EXCEPT ![r] = step]
FlowTurn(r, from, to) == flowStep[r] = from /\ FlowTo(r, to)

FlowQuit(r) ==
  /\ FlowTo(r, "idle")
  /\ flowAt' = [flowAt EXCEPT ![r] = 1]
  /\ flowSaw' = [flowSaw EXCEPT ![r] = 0]

\* What status makes of a step's row: it shows the chain.
RowFor(i) ==
  IF flowOps[i].tag \in {"absent", "prepared"} THEN flowOps[i]
  ELSE IF included[i] = 0 THEN [tag |-> "pending", block |-> 0]
  ELSE [tag |-> IF i \in failing THEN "reverted" ELSE "confirmed",
        block |-> included[i]]

-----------------------------------------------------------------------------
\* createWorkflow: the document is made once and its steps never change.
CreateWorkflow ==
  /\ flow = "absent" /\ flow' = "live"
  /\ UNCHANGED <<flowOps, evidence, flowWorld, flowHistory, flowLocals>>

\* cancelWorkflow: what it reads and puts back is the document's only change.
CancelWorkflow ==
  /\ flow = "live" /\ flow' = "cancelled"
  /\ UNCHANGED <<flowOps, evidence, flowWorld, flowHistory, flowLocals>>

(* runWorkflow *)

RunWorkflow(r) ==
  /\ flow = "live"
  /\ FlowTurn(r, "idle", "loop")
  /\ UNCHANGED <<flow, flowOps, evidence, flowWorld, flowHistory, flowAt,
                 flowSaw>>

\* Faulty variant: the document is read once, before the loop.
GoesOn == TRUE

\* The document, read again before each step, does not say cancelled.
NotCancelled == flow # "cancelled"

LoopWorkflow(r) ==
  /\ flowStep[r] = "loop"
  /\ IF NotCancelled THEN FlowTo(r, "prepare") /\ UNCHANGED <<flowAt, flowSaw>>
     ELSE FlowQuit(r)
  /\ UNCHANGED <<flow, flowOps, evidence, flowWorld, flowHistory>>

\* prepare: the step's own key finds the operation of an earlier run.
PrepareStep(r) ==
  LET i == flowAt[r] new == flowOps[i].tag = "absent" IN
  /\ FlowTurn(r, "prepare", "execute")
  /\ flowOps' = IF new THEN [flowOps EXCEPT ![i].tag = "prepared"] ELSE flowOps
  /\ late' = IF new /\ flow = "cancelled" THEN [late EXCEPT ![r] = @ + 1]
             ELSE late
  /\ UNCHANGED <<flow, evidence, flowWorld, wasConfirmed, wasVerified, flowAt,
                 flowSaw>>

\* execute: sends a prepared operation, reconciles any other, or fails.
ExecuteFlowStep(r) ==
  LET i == flowAt[r] IN
  /\ flowStep[r] = "execute"
  /\ \/ /\ FlowTo(r, "wait") /\ UNCHANGED <<flowAt, flowSaw>>
        /\ flowOps' = [flowOps EXCEPT ![i] =
             IF @.tag = "prepared" THEN [@ EXCEPT !.tag = "pending"]
             ELSE RowFor(i)]
     \/ FlowQuit(r) /\ UNCHANGED flowOps
  /\ UNCHANGED <<flow, evidence, flowWorld, flowHistory>>

\* Faulty variant: a step whose time is up counts as done.
DoneUnlessReverted(tag) == tag # "reverted"

\* Whether the run goes on after waitForOperation.
StepDone(tag) == tag = "confirmed"

\* waitForOperation: polls until it sees an outcome or gives up.
WaitStep(r) ==
  LET i == flowAt[r] seen == RowFor(i) IN
  /\ flowStep[r] = "wait"
  /\ flowOps' = [flowOps EXCEPT ![i] = seen]
  /\ IF StepDone(seen.tag)
     THEN /\ FlowTo(r, "check") /\ UNCHANGED flowAt
          /\ flowSaw' = [flowSaw EXCEPT ![r] = seen.block]
     ELSE FlowQuit(r)
  /\ UNCHANGED <<flow, evidence, flowWorld, flowHistory>>

\* Faulty variant: any evidence will do.
HasEvidence(e, block) == e # 0

\* The condition was verified for this inclusion of the operation.
SameEvidence(e, block) == e = block

\* The run is done with step i.
NextStep(r, i) ==
  IF i = FlowLength THEN FlowQuit(r)
  ELSE /\ FlowTo(r, "loop")
       /\ flowAt' = [flowAt EXCEPT ![r] = i + 1]
       /\ flowSaw' = [flowSaw EXCEPT ![r] = 0]

\* verifyCondition reads the contract on whatever chain there is by now.
CheckStep(r) ==
  LET i == flowAt[r] IN
  /\ flowStep[r] = "check"
  /\ IF i \notin Checked \/ SameEvidence(evidence[i], flowSaw[r])
     THEN NextStep(r, i) /\ UNCHANGED wasVerified
     ELSE \/ /\ included[i] = 0 \/ <<i, included[i]>> \in holds
             /\ FlowTo(r, "evidence") /\ UNCHANGED <<flowAt, flowSaw>>
             /\ wasVerified' = wasVerified \cup {i}
          \/ /\ <<i, included[i]>> \notin holds
             /\ FlowQuit(r) /\ UNCHANGED wasVerified
  /\ UNCHANGED <<flow, flowOps, evidence, flowWorld, wasConfirmed, late>>

\* The evidence names the inclusion that the run saw, not the one it checked.
PutEvidence(r) ==
  LET i == flowAt[r] IN
  /\ flowStep[r] = "evidence"
  /\ evidence' = [evidence EXCEPT ![i] = flowSaw[r]]
  /\ NextStep(r, i)
  /\ UNCHANGED <<flow, flowOps, flowWorld, flowHistory>>

-----------------------------------------------------------------------------
\* workflowStatus: the number of steps it counts as completed, in order, and
\* the state it shows, when no reorganisation comes in between.
CompletedSteps ==
  {i \in FlowSteps : \A j \in 1..i :
     /\ RowFor(j).tag = "confirmed"
     /\ j \in Checked => SameEvidence(evidence[j], RowFor(j).block)}
ShownCompleted == flow = "live" /\ CompletedSteps = FlowSteps

-----------------------------------------------------------------------------
(* The chain *)

\* A block includes the transaction of step i.
IncludeStep(i) ==
  /\ flowOps[i].tag \notin {"absent", "prepared"} /\ included[i] = 0
  /\ included' = [included EXCEPT ![i] = flowReorgs + 1]
  /\ \/ failing' = failing \cup {i} /\ UNCHANGED wasConfirmed
     \/ wasConfirmed' = wasConfirmed \cup {i} /\ UNCHANGED failing
  /\ UNCHANGED <<flow, flowOps, evidence, holds, flowReorgs, wasVerified,
                 late, flowLocals>>

\* The blocks from step i's on are gone, and with them all later steps'.
FlowReorg(i) ==
  /\ flowReorgs < FlowReorgs /\ included[i] # 0
  /\ flowReorgs' = flowReorgs + 1
  /\ included' = [j \in FlowSteps |-> IF j >= i THEN 0 ELSE included[j]]
  /\ failing' = {j \in failing : j < i}
  /\ UNCHANGED <<flow, flowOps, evidence, holds, flowHistory, flowLocals>>

RunStep(r) ==
  \/ RunWorkflow(r) \/ LoopWorkflow(r) \/ PrepareStep(r) \/ ExecuteFlowStep(r)
  \/ WaitStep(r) \/ CheckStep(r) \/ PutEvidence(r)

WorkflowNext ==
  \/ CreateWorkflow \/ CancelWorkflow
  \/ \E r \in Runners : RunStep(r)
  \/ \E i \in FlowSteps : IncludeStep(i) \/ FlowReorg(i)

WorkflowSpec == FlowInit /\ [][WorkflowNext]_flowVars

-----------------------------------------------------------------------------
\* README.md:54, "Workflows are sequential": a step is prepared only after the
\* one before it was included with success and, if it has a condition, found
\* as wanted, by whichever client got there.
StepsInOrder ==
  \A i \in FlowSteps \ {1} : flowOps[i].tag # "absent" =>
    /\ i - 1 \in wasConfirmed
    /\ i - 1 \in Checked => i - 1 \in wasVerified

\* A cancelled workflow goes at most one step further for each client that
\* was running it.
CancelStops == \A r \in Runners : late[r] <= 1

\* A workflow shown as completed has reached what it is for: every condition
\* holds for the inclusion its operation has now, although verifyCondition
\* and the evidence may have met different forks.
CompletedIsTrue ==
  ShownCompleted => \A i \in Checked : <<i, included[i]>> \in holds
=============================================================================
