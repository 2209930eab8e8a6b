------------------------------ MODULE AlmCycle ------------------------------
(***************************************************************************)
(* packages/sugar/src/alm/engine.ts, state.ts, recovery.ts and             *)
(* cli/alm-recovery-commands.ts over SendPlan: a daemon rebalances or      *)
(* compounds one position in phases, each of them a plan with a journal of *)
(* its own, and records the cycle in a state file first.  What is left of  *)
(* an interrupted cycle is reconciled and resolved by commands, while the  *)
(* owner of the wallet runs plans of their own.  Everything here happens   *)
(* under the lock of the state file, so its locals need no process index.  *)
(***************************************************************************)
EXTENDS SendPlan, Sequences, SequencesExt

CONSTANTS
  Skipped,      \* phases this position never needs (nothing earned or staked, no gauge)
  Day,          \* length of the rolling day of the cap, in ticks
  Cooldown,     \* ticks between two rebalances
  MaxPerDay,    \* maxRebalancesPerDay
  MaxClock,     \* bound: ticks
  CycleKinds,   \* what this instance does: "rebalance", "compound"
  OwnPlans      \* bound: plans the owner may start

ASSUME AlmAssumption ==
  /\ Day \in Nat \ {0} /\ MaxPerDay \in Nat /\ MaxClock \in Nat
  /\ Cooldown \in Nat \ {0}   \* no two rebalances begin in the same tick
  /\ CycleKinds \subseteq {"rebalance", "compound"}
  /\ Skipped \subseteq {"claim", "unstake", "stake"}

VARIABLES
  almFile,      \* the entry of the position in alm-state.json
  almLock,      \* owner of the lock of that file
  almStep, almCommand, almTodo, almNft,  \* locals of the owner
  funds,        \* on chain: where the liquidity is and in which NFT
  planPhase,    \* what the transaction of each plan does
  clock,
  begun         \* history: rebalances that went on to send, with their start

almFiles == <<almFile, almLock>>
almLocals == <<almStep, almCommand, almTodo, almNft>>
almWorld == <<funds, planPhase, clock, begun>>
almVars == <<sendVars, almFiles, almLocals, almWorld>>

\* executeRebalance, and executeCompound with a swap for each leg.
RebalancePhases == <<"claim", "unstake", "withdraw", "swap", "deposit", "stake">>
CompoundPhases == <<"claim", "swap", "swap", "unstake", "increase", "stake">>
PhaseNames == Range(RebalancePhases) \cup Range(CompoundPhases)
AlmSteps == {"idle", "decide", "build", "journal", "send", "sending", "mint",
             "reconcile", "held", "inspect", "resolve",
             "resolved"}

NoCycle == [status |-> "none", phases |-> <<>>, result |-> 0, kind |-> "none",
            nft |-> 0, startedAt |-> 0, rebalances |-> {}, compoundAt |-> -1, managed |-> 1]
AlmStatuses == {"none", "active", "complete", "resolved"}
Places == {"staked", "held", "wallet"}

AlmTypeOK ==
  /\ SendTypeOK
  /\ almFile.status \in AlmStatuses /\ almFile.phases \in Seq(Plans)
  /\ almFile.rebalances \subseteq 0..MaxClock
  /\ Cardinality(almFile.rebalances) <= MaxPerDay
  /\ almLock \in SendProcs \cup {NoOwner, Gone}
  /\ almStep \in AlmSteps /\ almCommand \in {"none", "pass", "recover", "resolve"}
  /\ almStep # "idle" <=> almLock \in SendProcs
  /\ almStep = "sending" <=> almLock \in SendProcs /\ sendStep[almLock] # "idle"
  /\ funds.place \in Places /\ almNft \in Nat /\ clock \in 0..MaxClock
  /\ planPhase \in [Plans -> PhaseNames \cup {"none"}]

AlmInit ==
  /\ SendInit
  /\ almFile = NoCycle /\ almLock = NoOwner
  /\ almStep = "idle" /\ almCommand = "none" /\ almTodo = <<>> /\ almNft = 0
  /\ funds = [place |-> IF "unstake" \in Skipped THEN "held" ELSE "staked",
              nft |-> 1]
  /\ planPhase = [a \in Plans |-> "none"]
  /\ clock = 0 /\ begun = {}

-----------------------------------------------------------------------------
AlmGo(from, to) == almStep = from /\ almStep' = to

\* The pass or command is over, by an error or not; its lock file is removed.
AlmEnd ==
  /\ almLock' = NoOwner /\ almStep' = "idle" /\ almCommand' = "none"
  /\ almTodo' = <<>> /\ almNft' = 0

AlmFails == AlmEnd /\ UNCHANGED <<sendVars, almFile, almWorld>>

\* acquireAlmStateLock by a pass, alm recover or alm resolve.  A pass only
\* reconciles a cycle that is active, as the commands do.
AlmAcquire(p, command) ==
  /\ almLock = NoOwner /\ almLock' = p
  /\ sendStep[p] = "idle"
  /\ command # "pass" => almFile.status # "none"
  /\ almCommand' = command
  /\ IF command # "pass" \/ almFile.status = "active"
     THEN AlmGo("idle", "reconcile") /\ almTodo' = almFile.phases
     ELSE AlmGo("idle", "decide") /\ UNCHANGED almTodo
  /\ UNCHANGED <<sendVars, almFile, almNft, almWorld>>

-----------------------------------------------------------------------------
(* A pass: decide, begin a cycle and go through its phases *)

Recent(times) == {at \in times : clock - at < Day}

\* Faulty variant: the attempts before the cooldown count, not the day.
GateWithoutCap(kind) ==
  \A at \in Recent(almFile.rebalances) : clock - at >= Cooldown

\* maybeCompound: once in 24 hours.  What is earned, and whether the position
\* is staked, is left open: BeginCycle need not be taken.
CompoundDue == almFile.compoundAt >= 0 => clock - almFile.compoundAt >= Day

\* checkRebalanceGate, for a compound maybeCompound.
GateAllows(kind) ==
  IF kind = "rebalance"
  THEN /\ Cardinality(Recent(almFile.rebalances)) < MaxPerDay
       /\ \A at \in Recent(almFile.rebalances) : clock - at >= Cooldown
  ELSE CompoundDue

\* ensureSnapshot found the managed NFT, the strategy or the emissions ask for
\* a cycle, and the gates allow it; beginCycle saves it with its attempt.
BeginCycle(kind) ==
  /\ AlmGo("decide", "build")
  /\ GateAllows(kind)
  /\ funds.place # "wallet" /\ funds.nft = almFile.managed
  /\ almFile' = [almFile EXCEPT
       !.status = "active", !.kind = kind, !.phases = <<>>, !.result = 0,
       !.nft = almFile.managed, !.startedAt = clock,
       !.rebalances = IF kind = "rebalance" THEN Recent(@) \cup {clock} ELSE @,
       !.compoundAt = IF kind = "compound" THEN clock ELSE @]
  /\ almTodo' = IF kind = "rebalance" THEN RebalancePhases ELSE CompoundPhases
  /\ UNCHANGED <<sendVars, almLock, almCommand, almNft, almWorld>>

\* Nothing to do, a gate refuses, or a read fails before the cycle.
AlmHold == almStep = "decide" /\ AlmFails

\* A swap of nothing is left out, and what the position does not need.
SkipPhase ==
  /\ almStep = "build" /\ almTodo # <<>> /\ Head(almTodo) \in {"swap"} \cup Skipped
  /\ almTodo' = Tail(almTodo)
  /\ UNCHANGED <<sendVars, almFiles, almStep, almCommand, almNft, almWorld>>

\* A read fails, the simulation reverts, or a guard refuses.
PhaseFails == almStep \in {"build", "mint"} /\ AlmFails

Unused(a) ==
  /\ journals[a].status = "none" /\ planPhase[a] = "none"
  /\ \A p \in SendProcs : sendPlanId[p] # a

\* One new id is as good as another.
Fresh == {a \in Plans \ OwnPlans : Unused(a)}

\* sendPhase: a phase is built from fresh reads, simulated and checked against
\* the TWAP; its new plan is recorded in the cycle ...
RecordPhase ==
  /\ AlmGo("build", "journal") /\ almTodo # <<>> /\ Head(almTodo) \notin Skipped
  /\ Fresh # {}
  /\ LET a == CHOOSE b \in Fresh : TRUE
     IN  /\ almFile' = [almFile EXCEPT !.phases = Append(@, a)]
         /\ planPhase' = [planPhase EXCEPT ![a] = Head(almTodo)]
  /\ UNCHANGED <<sendVars, almLock, almCommand, almTodo, almNft, funds, clock,
                 begun>>

\* ... and its journal is saved, without the lock of the wallet ...
JournalPhase ==
  /\ AlmGo("journal", "send")
  /\ journals' = [journals EXCEPT ![Last(almFile.phases)].status = "active"]
  /\ UNCHANGED <<lockFile, sendWorld, sendLocals, sendTroubles, almFiles,
                 almCommand, almTodo, almNft, almWorld>>

\* ... before sendPlan takes the lock, or finds it taken.
SendPhase ==
  \/ /\ AlmGo("send", "sending")
     /\ CallSend(almLock, Last(almFile.phases))
     /\ begun' = IF almFile.kind = "rebalance"
                 THEN begun \cup {<<almFile.startedAt, Head(almFile.phases)>>}
                 ELSE begun
     /\ UNCHANGED <<almFiles, almCommand, almTodo, almNft, funds, planPhase, clock>>
  \/ almStep = "send" /\ lockFile # NoOwner /\ AlmFails

\* sendPlan goes on; it returns when the plan is complete and throws otherwise.
PhaseGoesOn ==
  /\ almStep = "sending" /\ SendProcStep(almLock)
  /\ LET a == Last(almFile.phases) IN
     CASE sendStep'[almLock] # "idle" -> UNCHANGED <<almLock, almLocals>>
       [] sendStep'[almLock] = "idle" /\ journals'[a].status # "complete" -> AlmEnd
       [] OTHER -> /\ almTodo' = Tail(almTodo)
                   /\ almStep' = IF Head(almTodo) = "deposit" THEN "mint"
                                                              ELSE "build"
                   /\ UNCHANGED <<almLock, almCommand, almNft>>
  /\ UNCHANGED <<almFile, almWorld>>

\* The receipts of the deposit name the minted NFT, which is recorded.
RecordMint ==
  /\ AlmGo("mint", "build")
  /\ funds.place = "held" /\ funds.nft # almFile.nft
  /\ almFile' = [almFile EXCEPT !.result = funds.nft]
  /\ UNCHANGED <<sendVars, almLock, almCommand, almTodo, almNft, almWorld>>

ResultOf(file) == IF file.result # 0 THEN file.result ELSE file.nft

\* updateCycle to complete: the replacement is managed from now on.
CompleteCycle ==
  /\ almStep = "build" /\ almTodo = <<>>
  /\ almFile' = [almFile EXCEPT !.status = "complete",
                                !.managed = ResultOf(almFile)]
  /\ AlmEnd
  /\ UNCHANGED <<sendVars, almWorld>>

-----------------------------------------------------------------------------
(* reconcileAlmCycle, alm recover and alm resolve *)

\* A journal is missing or the wallet is locked.
ReconcileFails ==
  /\ almStep = "reconcile" /\ almTodo # <<>>
  /\ journals[Head(almTodo)].status = "none" \/ lockFile # NoOwner
  /\ AlmFails

ReconcileLocks ==
  /\ AlmGo("reconcile", "held")
  /\ almTodo # <<>> /\ journals[Head(almTodo)].status # "none"
  /\ lockFile = NoOwner /\ lockFile' = almLock
  /\ UNCHANGED <<journals, sendWorld, sendLocals, sendTroubles, almFiles,
                 almCommand, almTodo, almNft, almWorld>>

\* What the receipts of the submitted steps in known say.
Reconciled(j, a, known) ==
  LET steps == [i \in PlanSteps |->
                  IF i \notin known THEN j.steps[i]
                  ELSE IF fate[a][i] = "success" THEN "confirmed" ELSE "reverted"]
  IN [steps |-> steps,
      status |-> IF "reverted" \in Range(steps) THEN "failed"
                 ELSE IF Range(steps) = {"confirmed"} THEN "complete"
                 ELSE j.status]

ReconcileSaves ==
  LET a == Head(almTodo)
      receipts == {i \in PlanSteps : /\ journals[a].steps[i] = "submitted"
                                     /\ fate[a][i] \in {"success", "reverted"}} IN
  /\ AlmGo("held", "reconcile")
  /\ \E known \in SUBSET receipts :
       journals' = [journals EXCEPT ![a] = Reconciled(@, a, known)]
  /\ lockFile' = NoOwner /\ almTodo' = Tail(almTodo)
  /\ UNCHANGED <<sendWorld, sendLocals, sendTroubles, almFiles, almCommand,
                 almNft, almWorld>>

\* Every phase is reconciled: a pass or alm recover ends, alm resolve goes on.
ReconcileEnds ==
  /\ almStep = "reconcile" /\ almTodo = <<>>
  /\ IF almCommand # "resolve" THEN AlmEnd
     ELSE almStep' = "inspect" /\ UNCHANGED <<almLock, almCommand, almTodo, almNft>>
  /\ UNCHANGED <<sendVars, almFile, almWorld>>

\* The NFT to go on with is read from the chain: it must be owned and funded.
\* Then the user is asked.
InspectPosition ==
  /\ AlmGo("inspect", "resolve")
  /\ funds.place # "wallet" /\ almNft' = funds.nft
  /\ UNCHANGED <<sendVars, almFiles, almCommand, almTodo, almWorld>>

\* Faulty variant: only what has a hash is under way.
HasHash(j) == "submitted" \in Range(j.steps)

UnderWay(j) == \E i \in PlanSteps : j.steps[i] \in {"submitting", "submitted"}

\* resolveAlmCycle: the journals are loaded again under the lock of the wallet;
\* if nothing is under way, the rest of each is cancelled ...
ResolveCycle ==
  /\ AlmGo("resolve", "resolved")
  /\ almFile.status = "active" /\ lockFile = NoOwner
  /\ \A a \in Range(almFile.phases) : ~UnderWay(journals[a])
  /\ journals' = [a \in Plans |->
                    IF a \in Range(almFile.phases) /\ IsActive(a)
                    THEN [journals[a] EXCEPT !.status = "cancelled"]
                    ELSE journals[a]]
  /\ UNCHANGED <<lockFile, sendWorld, sendLocals, sendTroubles, almFiles,
                 almCommand, almTodo, almNft, almWorld>>

\* ... and the resolved cycle is saved with the NFT to track.
SaveResolved ==
  /\ almStep = "resolved"
  /\ almFile' = [almFile EXCEPT !.status = "resolved", !.result = almNft,
                                !.managed = almNft]
  /\ AlmEnd
  /\ UNCHANGED <<sendVars, almWorld>>

\* No funded NFT, the user declines, the cycle is not active, or something is
\* under way.
ResolveFails == almStep \in {"inspect", "resolve"} /\ AlmFails

-----------------------------------------------------------------------------
(* The owner's own plans, the chain, time, deaths and the operator.  Plans *)
(* need not expire here: a ready step may be refused anyway (StopAtStep).  *)

\* Faulty variant: it does not look at the state file.
MayResumeAny(a) == TRUE

\* executions resume refuses the phases of the cycle on file.
MayResume(a) == a \notin Range(almFile.phases)

OwnerCalls(p, a) ==
  /\ p # almLock
  /\ \/ /\ IF Unused(a) THEN a \in OwnPlans ELSE journals[a].status # "none" /\ MayResume(a)
        /\ CallSend(p, a)
     \/ CallPlanCancel(p, a)
  /\ UNCHANGED <<almFiles, almLocals, almWorld>>

OwnerGoesOn(p) ==
  /\ p # almLock /\ SendProcStep(p)
  /\ UNCHANGED <<almFiles, almLocals, almWorld>>

Applies(phase) ==
  CASE phase = "unstake" -> funds.place = "staked"
    [] phase \in {"withdraw", "increase", "stake"} -> funds.place = "held"
    [] OTHER -> TRUE

\* What the last transaction of a phase does to the position.
Effect(phase) ==
  CASE phase = "unstake" -> [funds EXCEPT !.place = "held"]
    [] phase = "withdraw" -> [funds EXCEPT !.place = "wallet"]
    [] phase = "deposit" -> [place |-> "held", nft |-> funds.nft + 1]
    [] phase = "stake" -> [funds EXCEPT !.place = "staked"]
    [] OTHER -> funds

\* A transaction of a plan settles: what cannot be executed reverts.
AlmSettle(a, i) ==
  /\ SettleTx(a, i)
  /\ IF i = PlanLength /\ fate'[a][i] = "success"
     THEN Applies(planPhase[a]) /\ funds' = Effect(planPhase[a])
     ELSE UNCHANGED funds
  /\ UNCHANGED <<almFiles, almLocals, planPhase, clock, begun>>

\* The owner deposits by hand what a withdrawal has left in the wallet, when no
\* process is about to do so.
Repair ==
  /\ almFile.status = "active" /\ almLock = NoOwner /\ funds.place = "wallet"
  /\ \A a \in Range(almFile.phases), i \in PlanSteps : fate[a][i] # "pending"
  /\ funds' = [place |-> "held", nft |-> funds.nft + 1]
  /\ UNCHANGED <<sendVars, almFiles, almLocals, planPhase, clock, begun>>

ClockTicks ==
  /\ clock < MaxClock /\ clock' = clock + 1
  /\ UNCHANGED <<sendVars, almFiles, almLocals, funds, planPhase, begun>>

\* A process dies with the lock files it has.
AlmCrash(p) ==
  /\ p = almLock \/ sendStep[p] # "idle"
  /\ Trouble
  /\ lockFile' = IF lockFile = p THEN Gone ELSE lockFile
  /\ Forget(p)
  /\ IF p = almLock
     THEN /\ almLock' = Gone /\ almStep' = "idle" /\ almCommand' = "none"
          /\ almTodo' = <<>> /\ almNft' = 0
     ELSE UNCHANGED <<almLock, almLocals>>
  /\ UNCHANGED <<journals, sendWorld, almFile, almWorld>>

\* The operator inspects the lock files the dead left, and removes them.
RemoveLocks ==
  /\ Gone \in {almLock, lockFile}
  /\ almLock' = IF almLock = Gone THEN NoOwner ELSE almLock
  /\ lockFile' = IF lockFile = Gone THEN NoOwner ELSE lockFile
  /\ UNCHANGED <<journals, sendWorld, sendLocals, sendTroubles, almFile,
                 almLocals, almWorld>>

AlmOwnerStep ==
  \/ AlmHold \/ SkipPhase \/ PhaseFails \/ RecordPhase
  \/ JournalPhase \/ SendPhase \/ PhaseGoesOn \/ RecordMint \/ CompleteCycle
  \/ ReconcileFails \/ ReconcileLocks \/ ReconcileSaves \/ ReconcileEnds
  \/ InspectPosition \/ ResolveCycle \/ SaveResolved \/ ResolveFails
  \/ \E kind \in CycleKinds : BeginCycle(kind)

AlmNext ==
  \/ \E p \in SendProcs, c \in {"pass", "recover", "resolve"} : AlmAcquire(p, c)
  \/ AlmOwnerStep
  \/ \E p \in SendProcs, a \in Plans : OwnerCalls(p, a)
  \/ \E p \in SendProcs : OwnerGoesOn(p) \/ AlmCrash(p)
  \/ \E a \in Plans, i \in PlanSteps : AlmSettle(a, i)
  \/ Repair \/ ClockTicks \/ RemoveLocks

AlmSpec == AlmInit /\ [][AlmNext]_almVars

-----------------------------------------------------------------------------
\* README.md:341, "successful rebalances persist its replacement ID", and :343:
\* once no cycle is active, the NFT on file is the one that has the liquidity,
\* whatever failed, died, was resumed, cancelled or repaired by hand before.
TracksTheFunds ==
  almFile.status # "active" =>
    funds.place # "wallet" /\ almFile.managed = funds.nft

\* README.md:357, "Pending submissions or unknown outcomes without a hash block
\* resolution": when a cycle is over, none of its transactions is left to be
\* sent or included.
CycleIsSettled ==
  almFile.status # "active" =>
    \A a \in Plans, i \in PlanSteps :
      planPhase[a] # "none" => /\ fate[a][i] # "pending"
                               /\ journals[a].status \notin {"none", "active"}

\* packages/sugar/README.md:335-337: in any rolling day, at most MaxPerDay
\* rebalances have sent anything, interrupted and resolved ones included.
CapHolds ==
  \A c \in begun :
    Cardinality({d \in begun : d[1] <= c[1] /\ c[1] - d[1] < Day}) <= MaxPerDay

\* Once a cycle is over nothing of it can still happen, and the cap counts the
\* cycles that were cut short.
CycleIsSound == CycleIsSettled /\ CapHolds
=============================================================================
