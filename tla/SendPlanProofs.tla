--------------------------- MODULE SendPlanProofs ---------------------------
(***************************************************************************)
(* Theorems about SendPlan, for any processes, plans and plan length: its  *)
(* types, its inductive invariant, and that it implements PlanPromise.     *)
(***************************************************************************)
EXTENDS SendPlan, TLAPS

-----------------------------------------------------------------------------
(* The inductive invariant *)

\* Who works on a plan owns the lock file.
Locked == \A p \in SendProcs : sendStep[p] # "idle" => lockFile = p

\* What a process works on is what the file says, and the plan is not over
\* yet, or is complete and about to be found so.
Copied ==
  \A p \in SendProcs : sendStep[p] \in {"next", "send", "sent", "wait"} =>
    /\ journal[p] = journals[sendPlanId[p]]
    /\ journal[p].status \in {"active", "complete"}

\* When the signer is about to be asked, the step is on file as submitting,
\* and nothing of it has ever been broadcast.
Unsent ==
  \A p \in SendProcs : sendStep[p] = "send" =>
    \A i \in PlanSteps : IsNext(journal[p], i) =>
      /\ journal[p].steps[i] = "submitting"
      /\ fate[sendPlanId[p]][i] = "none"

\* A journal j against what became of its steps, f, and how often each was
\* broadcast, b.
StepTrue(j, f, b, i) ==
  /\ b[i] \in {0, 1} /\ (b[i] = 0 <=> f[i] = "none")
  /\ j.steps[i] = "ready" => f[i] = "none"
  /\ j.steps[i] = "confirmed" => f[i] = "success"
  /\ j.steps[i] = "reverted" => j.status = "failed" /\ f[i] = "reverted"
  /\ j.steps[i] # "ready" => \A k \in 1..(i - 1) : j.steps[k] = "confirmed"
  /\ j.status = "complete" => j.steps[i] = "confirmed"

FileTrue(j, f, b) == \A i \in PlanSteps : StepTrue(j, f, b, i)

FilesTrue == \A a \in Plans : FileTrue(journals[a], fate[a], broadcasts[a])

OneActive == \A a, b \in Plans : IsActive(a) /\ IsActive(b) => a = b

\* What holds however journals come to be active ...
SendCore == SendTypeOK /\ Locked /\ Copied /\ Unsent /\ FilesTrue

\* ... and what sending adds to it.
SendInv == SendCore /\ OneActive

-----------------------------------------------------------------------------
(* Types *)

LEMMA NewJournalType == NewJournal \in Journal
BY DEF NewJournal, Journal, StepStates

LEMMA SetStepType ==
  ASSUME NEW j \in Journal, NEW i \in PlanSteps, NEW s \in StepStates
  PROVE  /\ SetStep(j, i, s) \in Journal
         /\ SetStep(j, i, s).status = j.status
         /\ SetStep(j, i, s).steps = [j.steps EXCEPT ![i] = s]
BY DEF SetStep, Journal

LEMMA StatusType ==
  ASSUME NEW j \in Journal,
         NEW s \in {"none", "active", "complete", "failed", "cancelled"}
  PROVE  /\ [j EXCEPT !.status = s] \in Journal
         /\ [j EXCEPT !.status = s].status = s
         /\ [j EXCEPT !.status = s].steps = j.steps
BY DEF Journal

\* What the saves and ends of a command leave well typed.
LEMMA ForgetType ==
  ASSUME SendTypeOK, NEW p \in SendProcs, Forget(p)
  PROVE  /\ sendStep' \in [SendProcs -> SendSteps]
         /\ sendPlanId' \in [SendProcs -> Plans \cup {NoOwner}]
         /\ journal' \in [SendProcs -> Journal]
         /\ \A q \in SendProcs : sendStep'[q] # "idle" => sendPlanId'[q] \in Plans
BY NewJournalType DEF SendTypeOK, Forget, SendSteps

LEMMA TurnType ==
  ASSUME SendTypeOK, NEW p \in SendProcs, NEW from \in SendSteps \ {"idle"},
         NEW to \in SendSteps, SendTurn(p, from, to), UNCHANGED sendPlanId
  PROVE  /\ sendStep' \in [SendProcs -> SendSteps]
         /\ sendPlanId' \in [SendProcs -> Plans \cup {NoOwner}]
         /\ \A q \in SendProcs : sendStep'[q] # "idle" => sendPlanId'[q] \in Plans
BY DEF SendTypeOK, SendTurn, SendSteps

LEMMA SaveType ==
  ASSUME SendTypeOK, NEW p \in SendProcs, sendPlanId[p] \in Plans,
         NEW j \in Journal, SaveJournal(p, j)
  PROVE  /\ journals' \in [Plans -> Journal]
         /\ journal' \in [SendProcs -> Journal]
BY DEF SendTypeOK, SaveJournal

LEMMA FileType ==
  ASSUME SendTypeOK, NEW a \in Plans, NEW j \in Journal,
         journals' = [journals EXCEPT ![a] = j]
  PROVE  journals' \in [Plans -> Journal]
BY DEF SendTypeOK

LEMMA BroadcastsType ==
  ASSUME SendTypeOK, NEW a \in Plans, NEW i \in PlanSteps, Broadcasts(a, i)
  PROVE  /\ fate' \in [Plans -> [PlanSteps -> Fates]]
         /\ broadcasts' \in [Plans -> [PlanSteps -> Nat]]
BY DEF SendTypeOK, Broadcasts, Fates

LEMMA TroubleType ==
  ASSUME SendTypeOK, Trouble \/ UNCHANGED sendTroubles
  PROVE  sendTroubles' \in 0..SendTroubles
BY SendAssumption DEF SendTypeOK, Trouble

LEMMA TypeInit == SendInit => SendTypeOK
<1>1. \A j \in {NewJournal} : j \in Journal
  BY NewJournalType
<1>. QED
  BY <1>1, SendAssumption DEF SendInit, SendTypeOK, SendSteps, Fates

LEMMA TypeStep ==
  ASSUME SendTypeOK, [SendNext]_sendVars
  PROVE  SendTypeOK'
<1>. USE DEF SendTypeOK
<1>1. ASSUME NEW p \in SendProcs, CheckPlan(p) PROVE SendTypeOK'
  <2>. DEFINE j == IF journals[sendPlanId[p]].status = "none"
                   THEN [journals[sendPlanId[p]] EXCEPT !.status = "active"]
                   ELSE journals[sendPlanId[p]]
  <2>1. sendPlanId[p] \in Plans /\ j \in Journal
    BY <1>1, StatusType DEF CheckPlan
  <2>2. CASE EndCommand(p) /\ UNCHANGED journals
    BY <1>1, <2>2, ForgetType DEF CheckPlan, EndCommand, sendWorld
  <2>3. CASE /\ SaveJournal(p, j) /\ SendTurn(p, "check", "next")
             /\ UNCHANGED <<lockFile, sendPlanId>>
    <3>1. journals' \in [Plans -> Journal] /\ journal' \in [SendProcs -> Journal]
      BY <2>1, <2>3, SaveType
    <3>. QED
      BY <1>1, <2>3, <3>1, TurnType DEF CheckPlan, sendWorld, SendSteps
  <2>. QED
    BY <1>1, <2>2, <2>3 DEF CheckPlan
<1>2. ASSUME NEW p \in SendProcs, CompletePlan(p) PROVE SendTypeOK'
  <2>1. sendPlanId[p] \in Plans /\ [journal[p] EXCEPT !.status = "complete"] \in Journal
    BY <1>2, StatusType DEF CompletePlan
  <2>2. journals' \in [Plans -> Journal]
    BY <1>2, <2>1, FileType DEF CompletePlan, SaveAndEnd
  <2>. QED
    BY <1>2, <2>2, ForgetType DEF CompletePlan, SaveAndEnd, EndCommand, sendWorld
<1>3. ASSUME NEW p \in SendProcs, StopAtStep(p) PROVE SendTypeOK'
  BY <1>3, ForgetType DEF StopAtStep, EndCommand, sendWorld
<1>4. ASSUME NEW p \in SendProcs, ResumeStep(p) PROVE SendTypeOK'
  BY <1>4, TurnType DEF ResumeStep, sendWorld, SendSteps
<1>5. ASSUME NEW p \in SendProcs, Submit(p) PROVE SendTypeOK'
  <2>1. PICK i \in PlanSteps : SaveJournal(p, SetStep(journal[p], i, "submitting"))
    BY <1>5 DEF Submit
  <2>2. sendPlanId[p] \in Plans /\ SetStep(journal[p], i, "submitting") \in Journal
    BY <1>5, SetStepType DEF Submit, SendTurn, StepStates
  <2>3. journals' \in [Plans -> Journal] /\ journal' \in [SendProcs -> Journal]
    BY <2>1, <2>2, SaveType
  <2>. QED
    BY <1>5, <2>3, TurnType DEF Submit, sendWorld, SendSteps
<1>6. ASSUME NEW p \in SendProcs, SignerSends(p) PROVE SendTypeOK'
  <2>1. sendPlanId[p] \in Plans
    BY <1>6 DEF SignerSends, SendTurn
  <2>2. /\ fate' \in [Plans -> [PlanSteps -> Fates]]
        /\ broadcasts' \in [Plans -> [PlanSteps -> Nat]]
    BY <1>6, <2>1, BroadcastsType DEF SignerSends
  <2>. QED
    BY <1>6, <2>2, TurnType DEF SignerSends, SendSteps
<1>7. ASSUME NEW p \in SendProcs, SaveHash(p) PROVE SendTypeOK'
  <2>1. PICK i \in PlanSteps : SaveJournal(p, SetStep(journal[p], i, "submitted"))
    BY <1>7 DEF SaveHash
  <2>2. sendPlanId[p] \in Plans /\ SetStep(journal[p], i, "submitted") \in Journal
    BY <1>7, SetStepType DEF SaveHash, SendTurn, StepStates
  <2>3. journals' \in [Plans -> Journal] /\ journal' \in [SendProcs -> Journal]
    BY <2>1, <2>2, SaveType
  <2>. QED
    BY <1>7, <2>3, TurnType DEF SaveHash, sendWorld, SendSteps
<1>8. ASSUME NEW p \in SendProcs, SignerFails(p) PROVE SendTypeOK'
  <2>1. PICK i \in PlanSteps, surely \in BOOLEAN :
          /\ \/ UNCHANGED <<broadcasts, fate>>
             \/ Broadcasts(sendPlanId[p], i)
          /\ SaveAndEnd(p, SetStep(journal[p], i, AfterError(surely)))
    BY <1>8 DEF SignerFails
  <2>2. /\ sendPlanId[p] \in Plans
        /\ SetStep(journal[p], i, AfterError(surely)) \in Journal
    BY <1>8, SetStepType DEF SignerFails, StepStates, AfterError
  <2>3. journals' \in [Plans -> Journal]
    BY <2>1, <2>2, FileType DEF SaveAndEnd
  <2>4. /\ fate' \in [Plans -> [PlanSteps -> Fates]]
        /\ broadcasts' \in [Plans -> [PlanSteps -> Nat]]
    BY <2>1, <2>2, BroadcastsType
  <2>. QED
    BY <1>8, <2>1, <2>3, <2>4, ForgetType DEF SignerFails, SaveAndEnd, EndCommand
<1>9. ASSUME NEW p \in SendProcs, Receipt(p) PROVE SendTypeOK'
  <2>1. PICK i \in PlanSteps :
          \/ /\ SaveJournal(p, SetStep(journal[p], i, "confirmed"))
             /\ SendTurn(p, "wait", "next")
             /\ UNCHANGED <<lockFile, sendPlanId>>
          \/ SaveAndEnd(p, [SetStep(journal[p], i, "reverted")
                              EXCEPT !.status = "failed"])
    BY <1>9 DEF Receipt
  <2>2. /\ sendPlanId[p] \in Plans
        /\ SetStep(journal[p], i, "confirmed") \in Journal
        /\ SetStep(journal[p], i, "reverted") \in Journal
    BY <1>9, SetStepType DEF Receipt, StepStates
  <2>3. [SetStep(journal[p], i, "reverted") EXCEPT !.status = "failed"] \in Journal
    BY <2>2, StatusType
  <2>4. CASE /\ SaveJournal(p, SetStep(journal[p], i, "confirmed"))
             /\ SendTurn(p, "wait", "next")
             /\ UNCHANGED <<lockFile, sendPlanId>>
    <3>1. journals' \in [Plans -> Journal] /\ journal' \in [SendProcs -> Journal]
      BY <2>2, <2>4, SaveType
    <3>. QED
      BY <1>9, <2>4, <3>1, TurnType DEF Receipt, sendWorld, SendSteps
  <2>5. CASE SaveAndEnd(p, [SetStep(journal[p], i, "reverted")
                              EXCEPT !.status = "failed"])
    <3>1. journals' \in [Plans -> Journal]
      BY <2>2, <2>3, <2>5, FileType DEF SaveAndEnd
    <3>. QED
      BY <1>9, <2>5, <3>1, ForgetType DEF Receipt, SaveAndEnd, EndCommand, sendWorld
  <2>. QED
    BY <2>1, <2>4, <2>5
<1>10. ASSUME NEW p \in SendProcs, NoReceipt(p) PROVE SendTypeOK'
  <2>1. Trouble \/ UNCHANGED sendTroubles
    BY <1>10 DEF NoReceipt
  <2>. QED
    BY <1>10, <2>1, ForgetType, TroubleType DEF NoReceipt, EndCommand, sendWorld
<1>11. ASSUME NEW p \in SendProcs, CancelPlan(p) PROVE SendTypeOK'
  <2>1. /\ sendPlanId[p] \in Plans
        /\ [journals[sendPlanId[p]] EXCEPT !.status = "cancelled"] \in Journal
    BY <1>11, StatusType DEF CancelPlan
  <2>2. journals' \in [Plans -> Journal]
    BY <1>11, <2>1, FileType DEF CancelPlan, SaveAndEnd
  <2>. QED
    BY <1>11, <2>2, ForgetType DEF CancelPlan, SaveAndEnd, EndCommand, sendWorld
<1>12. ASSUME NEW p \in SendProcs, LeavePlan(p) PROVE SendTypeOK'
  <2>1. Trouble \/ UNCHANGED sendTroubles
    BY <1>12 DEF LeavePlan
  <2>. QED
    BY <1>12, <2>1, ForgetType, TroubleType DEF LeavePlan, EndCommand, sendWorld
<1>13. ASSUME NEW p \in SendProcs, SendCrash(p) PROVE SendTypeOK'
  BY <1>13, ForgetType, TroubleType DEF SendCrash, sendWorld
<1>14. ASSUME NEW p \in SendProcs, NEW a \in Plans, NEW step \in {"check", "cancel"},
              TakeLockFile(p, a, step)
       PROVE  SendTypeOK'
  BY <1>14 DEF TakeLockFile, SendTurn, sendWorld, SendSteps
<1>15. ASSUME NEW a \in Plans, ExpirePlan(a) PROVE SendTypeOK'
  BY <1>15 DEF ExpirePlan, sendLocals
<1>16. ASSUME NEW a \in Plans, NEW i \in PlanSteps, SettleTx(a, i) PROVE SendTypeOK'
  BY <1>16 DEF SettleTx, sendLocals, Fates
<1>17. CASE RemoveLockFile
  BY <1>17 DEF RemoveLockFile, sendLocals, sendWorld
<1>18. CASE UNCHANGED sendVars
  BY <1>18 DEF sendVars, sendLocals, sendWorld
<1>. QED
  BY <1>1, <1>2, <1>3, <1>4, <1>5, <1>6, <1>7, <1>8, <1>9, <1>10, <1>11, <1>12,
     <1>13, <1>14, <1>15, <1>16, <1>17, <1>18
  DEF SendNext, SendProcStep, CallSend, CallPlanCancel

-----------------------------------------------------------------------------
(* One journal file against what became of its steps *)

LEMMA NextIsFirst ==
  ASSUME NEW j \in Journal, NEW i \in PlanSteps, NEW k \in PlanSteps,
         IsNext(j, i), IsNext(j, k)
  PROVE  i = k
BY DEF IsNext, PlanSteps

LEMMA FileAfterStep ==
  ASSUME NEW j \in Journal, NEW f, NEW b, FileTrue(j, f, b),
         NEW i \in PlanSteps, IsNext(j, i),
         NEW s \in {"ready", "submitting", "submitted", "confirmed"},
         s = "ready" => f[i] = "none", s = "confirmed" => f[i] = "success"
  PROVE  FileTrue(SetStep(j, i, s), f, b)
<1>. DEFINE m == SetStep(j, i, s)
<1>1. /\ m.status = j.status /\ m.steps[i] = s
      /\ \A k \in PlanSteps \ {i} : m.steps[k] = j.steps[k]
  <2>1. s \in StepStates /\ i \in DOMAIN j.steps
    BY DEF StepStates, Journal
  <2>2. m.status = j.status /\ m.steps = [j.steps EXCEPT ![i] = s]
    BY <2>1, SetStepType
  <2>. QED
    BY <2>1, <2>2 DEF Journal
<1>2. \A k \in PlanSteps : k < i => j.steps[k] = "confirmed"
  BY DEF IsNext, PlanSteps
<1>3. \A k \in PlanSteps : k > i => j.steps[k] = "ready"
  BY DEF FileTrue, StepTrue, IsNext, PlanSteps
<1>. HIDE DEF m
<1>4. StepTrue(m, f, b, i)
  <2>1. j.status # "complete"
    BY DEF FileTrue, StepTrue, IsNext
  <2>2. \A k \in 1..(i - 1) : m.steps[k] = "confirmed"
    BY <1>1, <1>2, SendAssumption DEF PlanSteps
  <2>. QED
    BY <1>1, <2>1, <2>2 DEF FileTrue, StepTrue
<1>5. ASSUME NEW k \in PlanSteps, k # i PROVE StepTrue(m, f, b, k)
  <2>1. CASE k < i
    <3>1. \A l \in 1..(k - 1) : m.steps[l] = "confirmed"
      BY <1>1, <1>2, <2>1, SendAssumption DEF PlanSteps
    <3>. QED
      BY <1>1, <1>5, <3>1 DEF FileTrue, StepTrue
  <2>2. CASE k > i
    BY <1>1, <1>3, <1>5, <2>2 DEF FileTrue, StepTrue
  <2>. QED
    BY <1>5, <2>1, <2>2 DEF PlanSteps
<1>. QED
  BY <1>4, <1>5 DEF FileTrue, m

LEMMA FileAfterBroadcast ==
  ASSUME NEW j \in Journal, NEW f \in [PlanSteps -> Fates],
         NEW b \in [PlanSteps -> Nat], FileTrue(j, f, b),
         NEW i \in PlanSteps, IsNext(j, i), j.steps[i] # "ready", f[i] = "none"
  PROVE  FileTrue(j, [f EXCEPT ![i] = "pending"], [b EXCEPT ![i] = @ + 1])
<1>1. b[i] = 0
  BY DEF FileTrue, StepTrue
<1>. QED
  BY <1>1 DEF FileTrue, StepTrue, IsNext

LEMMA FileAfterFate ==
  ASSUME NEW j \in Journal, NEW f \in [PlanSteps -> Fates], NEW b,
         FileTrue(j, f, b), NEW i \in PlanSteps, f[i] = "pending",
         NEW o \in {"success", "reverted", "replaced"}
  PROVE  FileTrue(j, [f EXCEPT ![i] = o], b)
BY DEF FileTrue, StepTrue

LEMMA FileAfterStatus ==
  ASSUME NEW j \in Journal, NEW f, NEW b, FileTrue(j, f, b),
         NEW s \in {"active", "complete", "failed", "cancelled"},
         j.status # "failed",
         s = "complete" => \A i \in PlanSteps : j.steps[i] = "confirmed"
  PROVE  FileTrue([j EXCEPT !.status = s], f, b)
<1>1. /\ [j EXCEPT !.status = s].status = s
      /\ [j EXCEPT !.status = s].steps = j.steps
  BY StatusType
<1>. QED
  BY <1>1 DEF FileTrue, StepTrue

LEMMA FileAfterRevert ==
  ASSUME NEW j \in Journal, NEW f, NEW b, FileTrue(j, f, b),
         NEW i \in PlanSteps, IsNext(j, i), f[i] = "reverted"
  PROVE  FileTrue([SetStep(j, i, "reverted") EXCEPT !.status = "failed"], f, b)
<1>. DEFINE m == [SetStep(j, i, "reverted") EXCEPT !.status = "failed"]
<1>1. /\ m.status = "failed" /\ m.steps[i] = "reverted"
      /\ \A k \in PlanSteps \ {i} : m.steps[k] = j.steps[k]
  <2>1. SetStep(j, i, "reverted") \in Journal /\ i \in DOMAIN j.steps
    BY SetStepType DEF StepStates, Journal
  <2>2. SetStep(j, i, "reverted").steps = [j.steps EXCEPT ![i] = "reverted"]
    BY SetStepType DEF StepStates
  <2>3. m.status = "failed" /\ m.steps = SetStep(j, i, "reverted").steps
    BY <2>1, StatusType
  <2>. QED
    BY <2>1, <2>2, <2>3 DEF Journal
<1>2. \A k \in PlanSteps : k < i => j.steps[k] = "confirmed"
  BY DEF IsNext, PlanSteps
<1>3. \A k \in PlanSteps : k > i => j.steps[k] = "ready"
  BY DEF FileTrue, StepTrue, IsNext, PlanSteps
<1>. HIDE DEF m
<1>4. StepTrue(m, f, b, i)
  <2>1. \A k \in 1..(i - 1) : m.steps[k] = "confirmed"
    BY <1>1, <1>2, SendAssumption DEF PlanSteps
  <2>. QED
    BY <1>1, <2>1 DEF FileTrue, StepTrue
<1>5. ASSUME NEW k \in PlanSteps, k # i PROVE StepTrue(m, f, b, k)
  <2>1. CASE k < i
    <3>1. \A l \in 1..(k - 1) : m.steps[l] = "confirmed"
      BY <1>1, <1>2, <2>1, SendAssumption DEF PlanSteps
    <3>. QED
      BY <1>1, <1>5, <3>1 DEF FileTrue, StepTrue
  <2>2. CASE k > i
    BY <1>1, <1>3, <1>5, <2>2 DEF FileTrue, StepTrue
  <2>. QED
    BY <1>5, <2>1, <2>2 DEF PlanSteps
<1>. QED
  BY <1>4, <1>5 DEF FileTrue, m

-----------------------------------------------------------------------------
(* What the actions have in common *)

SendRest == Locked /\ Copied /\ Unsent /\ FilesTrue
StillOne == OneActive => OneActive'

LEMMA Alone ==
  ASSUME Locked, NEW p \in SendProcs, sendStep[p] # "idle"
  PROVE  /\ lockFile = p
         /\ \A q \in SendProcs \ {p} : sendStep[q] = "idle"
BY DEF Locked

LEMMA OneFileAfter ==
  ASSUME FilesTrue, NEW a \in Plans,
         FileTrue(journals'[a], fate'[a], broadcasts'[a]),
         \A b \in Plans \ {a} : /\ journals'[b] = journals[b]
                                /\ fate'[b] = fate[b]
                                /\ broadcasts'[b] = broadcasts[b]
  PROVE  FilesTrue'
BY DEF FilesTrue

LEMMA OneActiveAfter ==
  ASSUME \A a \in Plans : journals'[a].status = "active" => journals[a].status = "active"
  PROVE  StillOne
BY DEF StillOne, OneActive, IsActive

\* Once a command has ended, by itself or by a death, nobody works.
LEMMA AfterEnd ==
  ASSUME SendTypeOK, Locked, NEW p \in SendProcs, sendStep[p] # "idle", Forget(p)
  PROVE  Locked' /\ Copied' /\ Unsent'
<1>1. \A q \in SendProcs : sendStep'[q] = "idle"
  BY Alone DEF Forget, SendTypeOK
<1>. QED
  BY <1>1 DEF Locked, Copied, Unsent

\* A step forward of the only process that works.
LEMMA AfterTurn ==
  ASSUME SendTypeOK, Locked, NEW p \in SendProcs, sendStep[p] # "idle",
         NEW to \in SendSteps, SendTurn(p, sendStep[p], to), UNCHANGED lockFile
  PROVE  /\ Locked'
         /\ sendStep'[p] = to
         /\ \A q \in SendProcs \ {p} : sendStep'[q] = "idle"
BY Alone DEF SendTurn, SendTypeOK, Locked

\* A process that ends without having written anything.
LEMMA RestAfterEnd ==
  ASSUME SendCore, NEW p \in SendProcs, sendStep[p] # "idle", Forget(p),
         UNCHANGED <<journals, fate, broadcasts>>
  PROVE  SendRest' /\ StillOne
BY AfterEnd DEF SendCore, SendRest, StillOne, FilesTrue, FileTrue, StepTrue, OneActive, IsActive

\* A process that ends with a last save: the file stays true, and the plan is
\* no more active than before.
LEMMA RestAfterSave ==
  ASSUME SendCore, NEW p \in SendProcs, sendStep[p] # "idle", NEW j \in Journal,
         SaveAndEnd(p, j),
         FileTrue(j, fate'[sendPlanId[p]], broadcasts'[sendPlanId[p]]),
         \A b \in Plans \ {sendPlanId[p]} :
           fate'[b] = fate[b] /\ broadcasts'[b] = broadcasts[b],
         j.status = "active" => journals[sendPlanId[p]].status = "active"
  PROVE  SendRest' /\ StillOne
<1>. DEFINE a == sendPlanId[p]
<1>1. /\ a \in Plans /\ journals'[a] = j
      /\ \A b \in Plans \ {a} : journals'[b] = journals[b]
  BY DEF SendCore, SendTypeOK, SaveAndEnd
<1>. HIDE DEF a
<1>2. FilesTrue'
  BY <1>1, OneFileAfter DEF SendCore, a
<1>3. StillOne
  BY <1>1, OneActiveAfter DEF SendCore, a
<1>. QED
  BY <1>2, <1>3, AfterEnd DEF SendCore, SendRest, StillOne, SaveAndEnd, EndCommand

\* A process that saves a true file and goes on with it: the plan's status
\* stays, and it does not go to ask the signer.
LEMMA RestAfterTurn ==
  ASSUME SendCore, NEW p \in SendProcs,
         sendStep[p] \in {"next", "send", "sent", "wait"},
         NEW to \in SendSteps \ {"send"}, SendTurn(p, sendStep[p], to),
         NEW j \in Journal, SaveJournal(p, j), j.status = journal[p].status,
         FileTrue(j, fate[sendPlanId[p]], broadcasts[sendPlanId[p]]),
         UNCHANGED <<lockFile, sendPlanId, fate, broadcasts>>
  PROVE  SendRest' /\ StillOne
<1>. DEFINE a == sendPlanId[p]
<1>1. /\ a \in Plans /\ journals'[a] = j /\ journal'[p] = j
      /\ \A b \in Plans \ {a} : journals'[b] = journals[b]
      /\ journals[a] = journal[p]
  BY DEF SendCore, SendTypeOK, SaveJournal, Copied
<1>2. sendStep'[p] = to /\ \A q \in SendProcs \ {p} : sendStep'[q] = "idle"
  BY AfterTurn DEF SendCore
<1>3. Locked'
  BY AfterTurn DEF SendCore
<1>4. Copied'
  BY <1>1, <1>2 DEF Copied, SendCore
<1>5. Unsent'
  BY <1>2 DEF Unsent
<1>. HIDE DEF a
<1>6. FilesTrue'
  BY <1>1, OneFileAfter DEF SendCore, a
<1>7. StillOne
  BY <1>1, OneActiveAfter DEF SendCore, a
<1>. QED
  BY <1>3, <1>4, <1>5, <1>6, <1>7 DEF SendRest, StillOne

-----------------------------------------------------------------------------
(* The actions keep the invariant *)

LEMMA CheckKeeps ==
  ASSUME SendCore, NEW p \in SendProcs, CheckPlan(p)
  PROVE  SendRest' /\ StillOne
<1>. DEFINE a == sendPlanId[p]
            j == IF journals[a].status = "none"
                 THEN [journals[a] EXCEPT !.status = "active"] ELSE journals[a]
<1>1. a \in Plans /\ journals[a] \in Journal /\ sendStep[p] = "check"
  BY DEF SendCore, SendTypeOK, CheckPlan
<1>2. CASE EndCommand(p) /\ UNCHANGED journals
  BY <1>1, <1>2, RestAfterEnd DEF CheckPlan, EndCommand, sendWorld
<1>3. CASE /\ j.status \notin {"cancelled", "failed"} /\ ~OthersActive(a)
           /\ SaveJournal(p, j) /\ SendTurn(p, "check", "next")
           /\ UNCHANGED <<lockFile, sendPlanId>>
  <2>1. FileTrue(journals[a], fate[a], broadcasts[a])
    BY <1>1 DEF SendCore, FilesTrue
  <2>2. FileTrue(j, fate[a], broadcasts[a])
    BY <1>1, <2>1, FileAfterStatus
  <2>3. /\ j \in Journal /\ j.status \in {"active", "complete"}
    BY <1>1, <1>3, StatusType DEF Journal
  <2>4. /\ journals'[a] = j /\ journal'[p] = j
        /\ \A b \in Plans \ {a} : journals'[b] = journals[b]
        /\ UNCHANGED <<sendPlanId, fate, broadcasts, lockFile>>
    BY <1>1, <1>3 DEF SaveJournal, SendCore, SendTypeOK, CheckPlan, sendWorld
  <2>5. /\ Locked' /\ sendStep'[p] = "next"
        /\ \A q \in SendProcs \ {p} : sendStep'[q] = "idle"
    BY <1>1, <1>3, AfterTurn DEF SendCore, SendSteps
  <2>6. \A b \in Plans \ {a} : journals[b].status # "active"
    BY <1>3 DEF OthersActive, IsActive
  <2>. HIDE DEF j, a
  <2>7. Copied'
    BY <2>3, <2>4, <2>5 DEF Copied, a
  <2>8. Unsent'
    BY <2>5 DEF Unsent
  <2>9. FilesTrue'
    BY <1>1, <2>2, <2>4, OneFileAfter DEF SendCore
  <2>10. StillOne
    BY <2>4, <2>6 DEF StillOne, OneActive, IsActive
  <2>. QED
    BY <2>5, <2>7, <2>8, <2>9, <2>10 DEF SendRest, StillOne
<1>. QED
  BY <1>2, <1>3 DEF CheckPlan

LEMMA CompleteKeeps ==
  ASSUME SendCore, NEW p \in SendProcs, CompletePlan(p)
  PROVE  SendRest' /\ StillOne
<1>. DEFINE a == sendPlanId[p]
            j == [journal[p] EXCEPT !.status = "complete"]
<1>1. /\ a \in Plans /\ journal[p] \in Journal /\ sendStep[p] = "next"
      /\ journal[p] = journals[a] /\ journal[p].status \in {"active", "complete"}
  BY DEF SendCore, SendTypeOK, CompletePlan, Copied
<1>2. j \in Journal /\ j.status = "complete"
  BY <1>1, StatusType
<1>3. FileTrue(journal[p], fate[a], broadcasts[a])
  BY <1>1 DEF SendCore, FilesTrue
<1>4. FileTrue(j, fate[a], broadcasts[a])
  BY <1>1, <1>3, FileAfterStatus DEF CompletePlan
<1>5. SaveAndEnd(p, j) /\ UNCHANGED <<fate, broadcasts>>
  BY DEF CompletePlan, sendWorld
<1>. QED
  BY <1>1, <1>2, <1>4, <1>5, RestAfterSave

LEMMA ResumeKeeps ==
  ASSUME SendCore, NEW p \in SendProcs, ResumeStep(p)
  PROVE  SendRest' /\ StillOne
<1>1. /\ sendPlanId[p] \in Plans /\ journal[p] \in Journal /\ sendStep[p] = "next"
      /\ journal[p] = journals[sendPlanId[p]]
  BY DEF SendCore, SendTypeOK, ResumeStep, SendTurn, Copied
<1>2. SaveJournal(p, journal[p])
  BY <1>1 DEF SendCore, SendTypeOK, ResumeStep, SaveJournal
<1>3. /\ SendTurn(p, "next", "wait") /\ "wait" \in SendSteps \ {"send"}
      /\ UNCHANGED <<lockFile, sendPlanId, fate, broadcasts>>
  BY DEF ResumeStep, sendWorld, SendSteps
<1>4. FileTrue(journal[p], fate[sendPlanId[p]], broadcasts[sendPlanId[p]])
  BY <1>1 DEF SendCore, FilesTrue
<1>. QED
  BY <1>1, <1>2, <1>3, <1>4, RestAfterTurn

LEMMA SubmitKeeps ==
  ASSUME SendCore, NEW p \in SendProcs, Submit(p)
  PROVE  SendRest' /\ StillOne
<1>. DEFINE a == sendPlanId[p]
<1>1. PICK i \in PlanSteps :
        MaySubmit(p, i) /\ SaveJournal(p, SetStep(journal[p], i, "submitting"))
  BY DEF Submit
<1>. DEFINE j == SetStep(journal[p], i, "submitting")
<1>2. /\ a \in Plans /\ journal[p] \in Journal /\ sendStep[p] = "next"
      /\ journal[p] = journals[a] /\ journal[p].status \in {"active", "complete"}
      /\ IsNext(journal[p], i) /\ journal[p].steps[i] = "ready"
  BY <1>1 DEF SendCore, SendTypeOK, Submit, SendTurn, Copied, MaySubmit
<1>3. FileTrue(journal[p], fate[a], broadcasts[a])
  BY <1>2 DEF SendCore, FilesTrue
<1>4. fate[a][i] = "none"
  BY <1>2, <1>3 DEF FileTrue, StepTrue
<1>5. FileTrue(j, fate[a], broadcasts[a])
  BY <1>2, <1>3, FileAfterStep
<1>6. /\ j \in Journal /\ j.status = journal[p].status
      /\ j.steps = [journal[p].steps EXCEPT ![i] = "submitting"]
  BY <1>2, SetStepType DEF StepStates
<1>7. /\ j.steps[i] = "submitting"
      /\ \A k \in PlanSteps \ {i} : j.steps[k] = journal[p].steps[k]
  BY <1>2, <1>6 DEF Journal
<1>8. \A k \in PlanSteps : IsNext(j, k) => k = i
  <2>1. \A k \in PlanSteps : k < i => journal[p].steps[k] = "confirmed"
    BY <1>2 DEF IsNext, PlanSteps
  <2>2. \A k \in PlanSteps : k < i => j.steps[k] = "confirmed"
    BY <1>7, <2>1 DEF PlanSteps
  <2>. HIDE DEF j
  <2>. QED
    BY <1>7, <2>2 DEF IsNext, PlanSteps
<1>9. /\ journals'[a] = j /\ journal'[p] = j
      /\ \A b \in Plans \ {a} : journals'[b] = journals[b]
      /\ UNCHANGED <<sendPlanId, fate, broadcasts, lockFile>>
  BY <1>1, <1>2 DEF SaveJournal, SendCore, SendTypeOK, Submit, sendWorld
<1>10. /\ Locked' /\ sendStep'[p] = "send"
       /\ \A q \in SendProcs \ {p} : sendStep'[q] = "idle"
  BY <1>2, AfterTurn DEF SendCore, Submit, SendSteps
<1>. HIDE DEF j, a
<1>11. Copied'
  BY <1>2, <1>6, <1>9, <1>10 DEF Copied, a
<1>12. Unsent'
  BY <1>4, <1>7, <1>8, <1>9, <1>10 DEF Unsent, a
<1>13. FilesTrue'
  BY <1>2, <1>5, <1>9, OneFileAfter DEF SendCore
<1>14. StillOne
  BY <1>2, <1>6, <1>9, OneActiveAfter DEF SendCore
<1>. QED
  BY <1>10, <1>11, <1>12, <1>13, <1>14 DEF SendRest, StillOne

LEMMA SignerSendsKeeps ==
  ASSUME SendCore, NEW p \in SendProcs, SignerSends(p)
  PROVE  SendRest' /\ StillOne
<1>. DEFINE a == sendPlanId[p]
<1>1. PICK i \in PlanSteps : IsNext(journal[p], i) /\ Broadcasts(a, i)
  BY DEF SignerSends
<1>2. /\ a \in Plans /\ sendStep[p] = "send"
      /\ journal[p] = journals[a] /\ journals[a] \in Journal
      /\ journal[p].steps[i] = "submitting" /\ fate[a][i] = "none"
      /\ fate[a] \in [PlanSteps -> Fates] /\ broadcasts[a] \in [PlanSteps -> Nat]
  BY <1>1 DEF SendCore, SendTypeOK, SignerSends, SendTurn, Copied, Unsent
<1>3. /\ fate'[a] = [fate[a] EXCEPT ![i] = "pending"]
      /\ broadcasts'[a] = [broadcasts[a] EXCEPT ![i] = @ + 1]
      /\ \A b \in Plans \ {a} : fate'[b] = fate[b] /\ broadcasts'[b] = broadcasts[b]
      /\ UNCHANGED <<journals, journal, sendPlanId, lockFile>>
  BY <1>1, <1>2 DEF Broadcasts, SendCore, SendTypeOK, SignerSends
<1>4. FileTrue(journals[a], fate[a], broadcasts[a])
  BY <1>2 DEF SendCore, FilesTrue
<1>5. FileTrue(journals'[a], fate'[a], broadcasts'[a])
  BY <1>1, <1>2, <1>3, <1>4, FileAfterBroadcast
<1>6. /\ Locked' /\ sendStep'[p] = "sent"
      /\ \A q \in SendProcs \ {p} : sendStep'[q] = "idle"
  BY <1>2, AfterTurn DEF SendCore, SignerSends, SendSteps
<1>7. Copied'
  BY <1>2, <1>3, <1>6 DEF Copied, SendCore
<1>8. Unsent'
  BY <1>6 DEF Unsent
<1>. HIDE DEF a
<1>9. FilesTrue'
  BY <1>2, <1>3, <1>5, OneFileAfter DEF SendCore
<1>10. StillOne
  BY <1>3, OneActiveAfter DEF SendCore
<1>. QED
  BY <1>6, <1>7, <1>8, <1>9, <1>10 DEF SendRest, StillOne

LEMMA SaveHashKeeps ==
  ASSUME SendCore, NEW p \in SendProcs, SaveHash(p)
  PROVE  SendRest' /\ StillOne
<1>1. PICK i \in PlanSteps : /\ IsNext(journal[p], i)
                             /\ SaveJournal(p, SetStep(journal[p], i, "submitted"))
  BY DEF SaveHash
<1>. DEFINE j == SetStep(journal[p], i, "submitted")
<1>2. /\ sendPlanId[p] \in Plans /\ journal[p] \in Journal /\ sendStep[p] = "sent"
      /\ journal[p] = journals[sendPlanId[p]]
  BY DEF SendCore, SendTypeOK, SaveHash, SendTurn, Copied
<1>3. FileTrue(journal[p], fate[sendPlanId[p]], broadcasts[sendPlanId[p]])
  BY <1>2 DEF SendCore, FilesTrue
<1>4. FileTrue(j, fate[sendPlanId[p]], broadcasts[sendPlanId[p]])
  BY <1>1, <1>2, <1>3, FileAfterStep
<1>5. j \in Journal /\ j.status = journal[p].status
  BY <1>2, SetStepType DEF StepStates
<1>6. /\ SendTurn(p, "sent", "wait") /\ "wait" \in SendSteps \ {"send"}
      /\ UNCHANGED <<lockFile, sendPlanId, fate, broadcasts>>
  BY DEF SaveHash, sendWorld, SendSteps
<1>. QED
  BY <1>1, <1>2, <1>4, <1>5, <1>6, RestAfterTurn

LEMMA SignerFailsKeeps ==
  ASSUME SendCore, NEW p \in SendProcs, SignerFails(p)
  PROVE  SendRest' /\ StillOne
<1>. DEFINE a == sendPlanId[p]
<1>1. PICK i \in PlanSteps, surely \in BOOLEAN :
        /\ IsNext(journal[p], i)
        /\ \/ UNCHANGED <<broadcasts, fate>>
           \/ ~surely /\ Broadcasts(a, i)
        /\ SaveAndEnd(p, SetStep(journal[p], i, AfterError(surely)))
  BY DEF SignerFails
<1>. DEFINE j == SetStep(journal[p], i, AfterError(surely))
<1>2. /\ a \in Plans /\ sendStep[p] = "send"
      /\ journal[p] = journals[a] /\ journal[p] \in Journal
      /\ journal[p].steps[i] = "submitting" /\ fate[a][i] = "none"
      /\ fate[a] \in [PlanSteps -> Fates] /\ broadcasts[a] \in [PlanSteps -> Nat]
  BY <1>1 DEF SendCore, SendTypeOK, SignerFails, Copied, Unsent
<1>3. FileTrue(journal[p], fate[a], broadcasts[a])
  BY <1>2 DEF SendCore, FilesTrue
<1>4. /\ FileTrue(j, fate'[a], broadcasts'[a])
      /\ \A b \in Plans \ {a} : fate'[b] = fate[b] /\ broadcasts'[b] = broadcasts[b]
  <2>1. CASE UNCHANGED <<broadcasts, fate>>
    BY <1>1, <1>2, <1>3, <2>1, FileAfterStep DEF AfterError
  <2>2. CASE ~surely /\ Broadcasts(a, i)
    <3>1. /\ fate'[a] = [fate[a] EXCEPT ![i] = "pending"]
          /\ broadcasts'[a] = [broadcasts[a] EXCEPT ![i] = @ + 1]
          /\ \A b \in Plans \ {a} : fate'[b] = fate[b] /\ broadcasts'[b] = broadcasts[b]
      BY <1>2, <2>2 DEF Broadcasts, SendCore, SendTypeOK
    <3>2. FileTrue(journal[p], fate'[a], broadcasts'[a])
      BY <1>1, <1>2, <1>3, <3>1, FileAfterBroadcast
    <3>. QED
      BY <1>1, <1>2, <2>2, <3>1, <3>2, FileAfterStep DEF AfterError
  <2>. QED
    BY <1>1, <2>1, <2>2
<1>5. j \in Journal /\ j.status = journal[p].status
  BY <1>2, SetStepType DEF StepStates, AfterError
<1>. QED
  BY <1>1, <1>2, <1>4, <1>5, RestAfterSave

LEMMA ReceiptKeeps ==
  ASSUME SendCore, NEW p \in SendProcs, Receipt(p)
  PROVE  SendRest' /\ StillOne
<1>. DEFINE a == sendPlanId[p]
<1>1. PICK i \in PlanSteps :
        /\ IsNext(journal[p], i)
        /\ \/ /\ fate[a][i] = "success"
              /\ SaveJournal(p, SetStep(journal[p], i, "confirmed"))
              /\ SendTurn(p, "wait", "next")
              /\ UNCHANGED <<lockFile, sendPlanId>>
           \/ /\ fate[a][i] = "reverted"
              /\ SaveAndEnd(p, [SetStep(journal[p], i, "reverted")
                                  EXCEPT !.status = "failed"])
  BY DEF Receipt
<1>2. /\ a \in Plans /\ sendStep[p] = "wait"
      /\ journal[p] = journals[a] /\ journal[p] \in Journal
      /\ UNCHANGED <<fate, broadcasts>>
  BY DEF SendCore, SendTypeOK, Receipt, Copied, sendWorld
<1>3. FileTrue(journal[p], fate[a], broadcasts[a])
  BY <1>2 DEF SendCore, FilesTrue
<1>4. CASE /\ fate[a][i] = "success"
           /\ SaveJournal(p, SetStep(journal[p], i, "confirmed"))
           /\ SendTurn(p, "wait", "next")
           /\ UNCHANGED <<lockFile, sendPlanId>>
  <2>. DEFINE j == SetStep(journal[p], i, "confirmed")
  <2>1. FileTrue(j, fate[a], broadcasts[a])
    BY <1>1, <1>2, <1>3, <1>4, FileAfterStep
  <2>2. j \in Journal /\ j.status = journal[p].status /\ "next" \in SendSteps \ {"send"}
    BY <1>2, SetStepType DEF StepStates, SendSteps
  <2>. QED
    BY <1>2, <1>4, <2>1, <2>2, RestAfterTurn
<1>5. CASE /\ fate[a][i] = "reverted"
           /\ SaveAndEnd(p, [SetStep(journal[p], i, "reverted")
                               EXCEPT !.status = "failed"])
  <2>. DEFINE j == [SetStep(journal[p], i, "reverted") EXCEPT !.status = "failed"]
  <2>1. FileTrue(j, fate[a], broadcasts[a])
    BY <1>1, <1>2, <1>3, <1>5, FileAfterRevert
  <2>2. SetStep(journal[p], i, "reverted") \in Journal
    BY <1>2, SetStepType DEF StepStates
  <2>3. j \in Journal /\ j.status = "failed"
    BY <2>2, StatusType
  <2>. QED
    BY <1>2, <1>5, <2>1, <2>3, RestAfterSave
<1>. QED
  BY <1>1, <1>4, <1>5

LEMMA CancelKeeps ==
  ASSUME SendCore, NEW p \in SendProcs, CancelPlan(p)
  PROVE  SendRest' /\ StillOne
<1>. DEFINE a == sendPlanId[p]
            j == [journals[a] EXCEPT !.status = "cancelled"]
<1>1. /\ a \in Plans /\ sendStep[p] = "cancel" /\ journals[a] \in Journal
      /\ journals[a].status = "active" /\ SaveAndEnd(p, j)
      /\ UNCHANGED <<fate, broadcasts>>
  BY DEF SendCore, SendTypeOK, CancelPlan, MayCancel, sendWorld
<1>2. FileTrue(journals[a], fate[a], broadcasts[a])
  BY <1>1 DEF SendCore, FilesTrue
<1>3. FileTrue(j, fate[a], broadcasts[a])
  BY <1>1, <1>2, FileAfterStatus
<1>4. j \in Journal /\ j.status = "cancelled"
  BY <1>1, StatusType
<1>. QED
  BY <1>1, <1>3, <1>4, RestAfterSave

LEMMA TakeKeeps ==
  ASSUME SendCore, NEW p \in SendProcs, NEW a \in Plans,
         NEW step \in {"check", "cancel"}, TakeLockFile(p, a, step)
  PROVE  SendRest' /\ StillOne
<1>1. \A q \in SendProcs : sendStep[q] = "idle"
  BY SendAssumption DEF SendCore, Locked, TakeLockFile
<1>2. /\ lockFile' = p /\ sendStep'[p] = step
      /\ \A q \in SendProcs \ {p} : sendStep'[q] = "idle"
      /\ UNCHANGED <<journals, fate, broadcasts>>
  BY <1>1 DEF TakeLockFile, SendTurn, SendCore, SendTypeOK, sendWorld
<1>3. Locked' /\ Copied' /\ Unsent'
  BY <1>2 DEF Locked, Copied, Unsent
<1>4. FilesTrue' /\ StillOne
  BY <1>2 DEF SendCore, FilesTrue, FileTrue, StepTrue, StillOne, OneActive, IsActive
<1>. QED
  BY <1>3, <1>4 DEF SendRest

LEMMA SettleKeeps ==
  ASSUME SendCore, NEW a \in Plans, NEW i \in PlanSteps, SettleTx(a, i)
  PROVE  SendRest' /\ StillOne
<1>1. PICK o \in {"success", "reverted", "replaced"} :
        fate' = [fate EXCEPT ![a][i] = o]
  BY DEF SettleTx
<1>2. /\ journals[a] \in Journal /\ fate[a] \in [PlanSteps -> Fates]
      /\ fate[a][i] = "pending" /\ fate'[a] = [fate[a] EXCEPT ![i] = o]
      /\ \A b \in Plans \ {a} : fate'[b] = fate[b]
      /\ UNCHANGED <<journals, broadcasts, lockFile, sendStep, sendPlanId, journal>>
  BY <1>1 DEF SendCore, SendTypeOK, SettleTx, sendLocals
<1>3. FileTrue(journals[a], fate'[a], broadcasts[a])
  <2>1. FileTrue(journals[a], fate[a], broadcasts[a])
    BY DEF SendCore, FilesTrue
  <2>2. \A f \in [PlanSteps -> Fates] :
          FileTrue(journals[a], f, broadcasts[a]) /\ f[i] = "pending" =>
            FileTrue(journals[a], [f EXCEPT ![i] = o], broadcasts[a])
    BY <1>2, FileAfterFate
  <2>. QED
    BY <1>2, <2>1, <2>2
<1>4. FilesTrue'
  BY <1>2, <1>3, OneFileAfter DEF SendCore
<1>5. Locked' /\ Copied' /\ StillOne
  BY <1>2 DEF SendCore, Locked, Copied, StillOne, OneActive, IsActive
<1>6. Unsent'
  <2>1. \A p \in SendProcs : sendStep[p] = "send" => sendPlanId[p] \in Plans
    BY DEF SendCore, SendTypeOK
  <2>2. \A b \in Plans, k \in PlanSteps : fate[b][k] = "none" => fate'[b][k] = "none"
    BY <1>2
  <2>. QED
    BY <1>2, <2>1, <2>2 DEF SendCore, Unsent, IsNext
<1>. QED
  BY <1>4, <1>5, <1>6 DEF SendRest

LEMMA InvInit == SendInit => SendInv
<1>1. SendInit => SendTypeOK
  BY TypeInit
<1>2. SendInit => Locked /\ Copied /\ Unsent
  BY DEF SendInit, Locked, Copied, Unsent
<1>3. SendInit => FilesTrue /\ OneActive
  BY DEF SendInit, FilesTrue, FileTrue, StepTrue, OneActive, IsActive, NewJournal
<1>. QED
  BY <1>1, <1>2, <1>3 DEF SendInv, SendCore

LEMMA CoreStep ==
  ASSUME SendCore, [SendNext]_sendVars
  PROVE  SendCore' /\ StillOne
<1>1. SendTypeOK'
  BY TypeStep DEF SendCore
<1>2. ASSUME NEW p \in SendProcs, StopAtStep(p) \/ NoReceipt(p) \/ LeavePlan(p)
      PROVE  SendRest' /\ StillOne
  BY <1>2, RestAfterEnd DEF StopAtStep, NoReceipt, LeavePlan, EndCommand, sendWorld
<1>3. ASSUME NEW p \in SendProcs, SendCrash(p) PROVE SendRest' /\ StillOne
  BY <1>3, RestAfterEnd DEF SendCrash, sendWorld
<1>4. ASSUME NEW a \in Plans, ExpirePlan(a) PROVE SendRest' /\ StillOne
  <2>1. Locked' /\ Copied' /\ StillOne
    BY <1>4 DEF ExpirePlan, sendLocals, SendCore, Locked, Copied, StillOne, OneActive, IsActive
  <2>2. Unsent' /\ FilesTrue'
    BY <1>4 DEF ExpirePlan, sendLocals, SendCore, Unsent, IsNext, FilesTrue,
                FileTrue, StepTrue
  <2>. QED
    BY <2>1, <2>2 DEF SendRest
<1>5. ASSUME RemoveLockFile PROVE SendRest' /\ StillOne
  <2>1. \A q \in SendProcs : sendStep[q] = "idle"
    BY <1>5, SendAssumption DEF RemoveLockFile, SendCore, Locked
  <2>2. Locked' /\ Copied' /\ Unsent'
    BY <1>5, <2>1 DEF RemoveLockFile, sendLocals, Locked, Copied, Unsent
  <2>3. FilesTrue' /\ StillOne
    BY <1>5 DEF RemoveLockFile, sendWorld, SendCore, FilesTrue, FileTrue, StepTrue,
                StillOne, OneActive, IsActive
  <2>. QED
    BY <2>2, <2>3 DEF SendRest
<1>6. ASSUME UNCHANGED sendVars PROVE SendRest' /\ StillOne
  <2>1. Locked' /\ Copied' /\ StillOne
    BY <1>6 DEF sendVars, sendLocals, SendCore, Locked, Copied, StillOne, OneActive, IsActive
  <2>2. UNCHANGED <<sendStep, sendPlanId, journal, journals, fate, broadcasts>>
    BY <1>6 DEF sendVars, sendLocals, sendWorld
  <2>3. Unsent' /\ FilesTrue'
    BY <2>2 DEF SendCore, Unsent, IsNext, FilesTrue, FileTrue, StepTrue
  <2>. QED
    BY <2>1, <2>3 DEF SendRest
<1>7. SendRest' /\ StillOne
  BY <1>2, <1>3, <1>4, <1>5, <1>6, CheckKeeps, CompleteKeeps, ResumeKeeps, SubmitKeeps,
     SignerSendsKeeps, SaveHashKeeps, SignerFailsKeeps, ReceiptKeeps, CancelKeeps,
     TakeKeeps, SettleKeeps
  DEF SendNext, SendProcStep, CallSend, CallPlanCancel
<1>. QED
  BY <1>1, <1>7 DEF SendCore, SendRest

LEMMA InvStep ==
  ASSUME SendInv, [SendNext]_sendVars
  PROVE  SendInv'
BY CoreStep DEF SendInv, StillOne

\* Every variable of sending keeps its type, for any number of processes, plans
\* and steps (send.ts, execution-journal.ts).
THEOREM SendTypeCorrect == SendSpec => []SendTypeOK
BY TypeInit, TypeStep, PTL DEF SendSpec

\* The inductive invariant holds: the files tell the truth about the chain,
\* whoever works owns the lock file and knows what the file says, and one plan
\* is active at most.
THEOREM SendInvariant == SendSpec => []SendInv
BY InvInit, InvStep, PTL DEF SendSpec

-----------------------------------------------------------------------------
(* Every step is a step of the promise, or changes nothing it shows *)

Shown == [a \in Plans |-> journals[a].status]

LEMMA ShownAfter ==
  ASSUME NEW a \in Plans, NEW s, journals'[a].status = s,
         \A b \in Plans \ {a} : journals'[b] = journals[b]
  PROVE  Shown' = [Shown EXCEPT ![a] = s]
BY DEF Shown

LEMMA ShownSame ==
  ASSUME \A a \in Plans : journals'[a].status = journals[a].status,
         UNCHANGED <<fate, broadcasts>>
  PROVE  UNCHANGED Promise!promiseVars
BY DEF Promise!promiseVars

PromiseStep == Promise!PromiseNext \/ UNCHANGED Promise!promiseVars

LEMMA CheckRefines ==
  ASSUME SendInv, NEW p \in SendProcs, CheckPlan(p)
  PROVE  PromiseStep
<1>. DEFINE a == sendPlanId[p]
<1>1. /\ a \in Plans /\ journals[a] \in Journal /\ UNCHANGED <<fate, broadcasts>>
      /\ journals \in [Plans -> Journal]
  BY DEF SendInv, SendCore, SendTypeOK, CheckPlan, sendWorld
<1>2. CASE UNCHANGED journals
  BY <1>1, <1>2, ShownSame DEF PromiseStep
<1>3. CASE /\ journals[a].status # "none" /\ SaveJournal(p, journals[a])
  BY <1>1, <1>3, ShownSame DEF SaveJournal, PromiseStep
<1>4. CASE /\ journals[a].status = "none" /\ ~OthersActive(a)
           /\ SaveJournal(p, [journals[a] EXCEPT !.status = "active"])
  <2>1. /\ journals'[a].status = "active"
        /\ \A b \in Plans \ {a} : journals'[b] = journals[b]
    BY <1>1, <1>4, StatusType DEF SaveJournal
  <2>2. Shown' = [Shown EXCEPT ![a] = "active"]
    BY <1>1, <2>1, ShownAfter
  <2>3. \A b \in Plans : journals[b].status # "active"
    BY <1>4 DEF OthersActive, IsActive
  <2>4. Promise!BeginPlan(a)
    BY <1>1, <1>4, <2>2, <2>3 DEF Promise!BeginPlan, Shown
  <2>5. \E b \in Plans : Promise!BeginPlan(b)
    BY <1>1, <2>4 DEF Promise!BeginPlan
  <2>. QED
    BY <2>5 DEF Promise!PromiseNext, PromiseStep
<1>. QED
  BY <1>2, <1>3, <1>4 DEF CheckPlan

\* A save that leaves the status of the plan as it was is not seen.
LEMMA SaveUnseen ==
  ASSUME SendInv, NEW p \in SendProcs, sendPlanId[p] \in Plans, NEW j \in Journal,
         journals' = [journals EXCEPT ![sendPlanId[p]] = j],
         j.status = journals[sendPlanId[p]].status,
         UNCHANGED <<fate, broadcasts>>
  PROVE  PromiseStep
BY ShownSame DEF SendInv, SendCore, SendTypeOK, PromiseStep

\* A save that ends an active plan.
LEMMA SaveEnds ==
  ASSUME SendInv, NEW p \in SendProcs, sendPlanId[p] \in Plans, NEW j \in Journal,
         SaveAndEnd(p, j), UNCHANGED <<fate, broadcasts>>,
         journals[sendPlanId[p]].status = "active",
         \/ /\ j.status = "complete"
            /\ \A i \in PlanSteps : fate[sendPlanId[p]][i] = "success"
         \/ /\ j.status = "failed"
            /\ \E i \in PlanSteps : fate[sendPlanId[p]][i] = "reverted"
         \/ /\ j.status = "cancelled"
            /\ \A i \in PlanSteps : broadcasts[sendPlanId[p]][i] > 0 =>
                 fate[sendPlanId[p]][i] = "success"
  PROVE  PromiseStep
<1>. DEFINE a == sendPlanId[p]
<1>1. /\ journals'[a].status = j.status
      /\ \A b \in Plans \ {a} : journals'[b] = journals[b]
  BY DEF SendInv, SendCore, SendTypeOK, SaveAndEnd
<1>2. Shown' = [Shown EXCEPT ![a] = j.status]
  BY <1>1, ShownAfter
<1>3. Shown[a] = "active"
  BY DEF Shown
<1>4. Promise!EndPlan(a, j.status)
  BY <1>2, <1>3 DEF Promise!EndPlan, Promise!Steps, PlanSteps, Shown
<1>. QED
  BY <1>4 DEF Promise!PromiseNext, PromiseStep

LEMMA CompleteRefines ==
  ASSUME SendInv, NEW p \in SendProcs, CompletePlan(p)
  PROVE  PromiseStep
<1>. DEFINE a == sendPlanId[p]
            j == [journal[p] EXCEPT !.status = "complete"]
<1>1. /\ a \in Plans /\ journal[p] \in Journal /\ journal[p] = journals[a]
      /\ journal[p].status \in {"active", "complete"}
      /\ SaveAndEnd(p, j) /\ UNCHANGED <<fate, broadcasts>>
      /\ \A i \in PlanSteps : journal[p].steps[i] = "confirmed"
  BY DEF SendInv, SendCore, SendTypeOK, CompletePlan, Copied, sendWorld
<1>2. j \in Journal /\ j.status = "complete"
  BY <1>1, StatusType
<1>3. \A i \in PlanSteps : fate[a][i] = "success"
  BY <1>1 DEF SendInv, SendCore, FilesTrue, FileTrue, StepTrue
<1>4. CASE journal[p].status = "active"
  BY <1>1, <1>2, <1>3, <1>4, SaveEnds
<1>5. CASE journal[p].status = "complete"
  BY <1>1, <1>2, <1>5, SaveUnseen DEF SaveAndEnd
<1>. QED
  BY <1>1, <1>4, <1>5

LEMMA CancelRefines ==
  ASSUME SendInv, NEW p \in SendProcs, CancelPlan(p)
  PROVE  PromiseStep
<1>. DEFINE a == sendPlanId[p]
            j == [journals[a] EXCEPT !.status = "cancelled"]
<1>1. /\ a \in Plans /\ journals[a] \in Journal /\ journals[a].status = "active"
      /\ \A i \in PlanSteps : journals[a].steps[i] \notin {"submitting", "submitted"}
      /\ SaveAndEnd(p, j) /\ UNCHANGED <<fate, broadcasts>>
  BY DEF SendInv, SendCore, SendTypeOK, CancelPlan, MayCancel, sendWorld
<1>2. j \in Journal /\ j.status = "cancelled"
  BY <1>1, StatusType
<1>3. ASSUME NEW i \in PlanSteps, broadcasts[a][i] > 0
      PROVE  fate[a][i] = "success"
  <2>1. StepTrue(journals[a], fate[a], broadcasts[a], i)
    BY <1>1 DEF SendInv, SendCore, FilesTrue, FileTrue
  <2>2. journals[a].steps[i] \in {"ready", "confirmed", "reverted"}
    BY <1>1 DEF Journal, StepStates
  <2>. QED
    BY <1>1, <1>3, <2>1, <2>2 DEF StepTrue
<1>. QED
  BY <1>1, <1>2, <1>3, SaveEnds

LEMMA TurnsRefine ==
  ASSUME SendInv, NEW p \in SendProcs, Submit(p) \/ SaveHash(p)
  PROVE  PromiseStep
<1>1. PICK i \in PlanSteps, s \in StepStates : SaveJournal(p, SetStep(journal[p], i, s))
  BY DEF Submit, SaveHash, StepStates
<1>2. /\ sendPlanId[p] \in Plans /\ journal[p] \in Journal
      /\ journal[p] = journals[sendPlanId[p]] /\ UNCHANGED <<fate, broadcasts>>
  BY DEF SendInv, SendCore, SendTypeOK, Submit, SaveHash, SendTurn, Copied, sendWorld
<1>3. /\ SetStep(journal[p], i, s) \in Journal
      /\ SetStep(journal[p], i, s).status = journal[p].status
  <2>1. \A j \in Journal : /\ SetStep(j, i, s) \in Journal
                           /\ SetStep(j, i, s).status = j.status
    BY SetStepType
  <2>. QED
    BY <1>2, <2>1
<1>. QED
  BY <1>1, <1>2, <1>3, SaveUnseen DEF SaveJournal

\* The signer's broadcast is the promise's SendNext, whatever is saved with it.
LEMMA BroadcastRefines ==
  ASSUME SendInv, NEW p \in SendProcs, sendStep[p] = "send", NEW i \in PlanSteps,
         IsNext(journal[p], i), Broadcasts(sendPlanId[p], i),
         \A a \in Plans : journals'[a].status = journals[a].status
  PROVE  PromiseStep
<1>. DEFINE a == sendPlanId[p]
<1>1. /\ a \in Plans /\ journal[p] = journals[a]
      /\ journal[p].status \in {"active", "complete"} /\ fate[a][i] = "none"
  BY DEF SendInv, SendCore, SendTypeOK, Copied, Unsent
<1>2. \A k \in PlanSteps : StepTrue(journals[a], fate[a], broadcasts[a], k)
  BY <1>1 DEF SendInv, SendCore, FilesTrue, FileTrue
<1>3. journals[a].status = "active" /\ broadcasts[a][i] = 0
  BY <1>1, <1>2 DEF StepTrue, IsNext
<1>4. \A k \in 1..(i - 1) : fate[a][k] = "success"
  <2>1. \A k \in 1..(i - 1) : k \in PlanSteps
    BY SendAssumption DEF PlanSteps
  <2>. QED
    BY <1>1, <1>2, <2>1 DEF StepTrue, IsNext
<1>5. /\ fate' = [fate EXCEPT ![a][i] = "pending"]
      /\ broadcasts' = [broadcasts EXCEPT ![a][i] = 1]
  BY <1>1, <1>3 DEF Broadcasts, SendInv, SendCore, SendTypeOK
<1>6. Shown' = Shown /\ Shown[a] = "active"
  BY <1>1, <1>3 DEF Shown
<1>7. Promise!SendNext(a, i)
  BY <1>1, <1>3, <1>4, <1>5, <1>6 DEF Promise!SendNext, Shown
<1>. QED
  BY <1>1, <1>7 DEF Promise!PromiseNext, Promise!Steps, PlanSteps, PromiseStep

LEMMA SignerFailsRefines ==
  ASSUME SendInv, NEW p \in SendProcs, SignerFails(p)
  PROVE  PromiseStep
<1>1. PICK i \in PlanSteps, surely \in BOOLEAN :
        /\ IsNext(journal[p], i)
        /\ \/ UNCHANGED <<broadcasts, fate>>
           \/ ~surely /\ Broadcasts(sendPlanId[p], i)
        /\ SaveAndEnd(p, SetStep(journal[p], i, AfterError(surely)))
  BY DEF SignerFails
<1>2. /\ sendPlanId[p] \in Plans /\ journal[p] \in Journal /\ sendStep[p] = "send"
      /\ journal[p] = journals[sendPlanId[p]] /\ journals \in [Plans -> Journal]
  BY DEF SendInv, SendCore, SendTypeOK, SignerFails, Copied
<1>3. /\ SetStep(journal[p], i, AfterError(surely)) \in Journal
      /\ SetStep(journal[p], i, AfterError(surely)).status = journal[p].status
  BY <1>2, SetStepType DEF StepStates, AfterError
<1>4. CASE UNCHANGED <<broadcasts, fate>>
  BY <1>1, <1>2, <1>3, <1>4, SaveUnseen DEF SaveAndEnd
<1>5. CASE Broadcasts(sendPlanId[p], i)
  <2>1. \A a \in Plans : journals'[a].status = journals[a].status
    BY <1>1, <1>2, <1>3 DEF SaveAndEnd
  <2>. QED
    BY <1>1, <1>2, <1>5, <2>1, BroadcastRefines
<1>. QED
  BY <1>1, <1>4, <1>5

LEMMA ReceiptRefines ==
  ASSUME SendInv, NEW p \in SendProcs, Receipt(p)
  PROVE  PromiseStep
<1>. DEFINE a == sendPlanId[p]
<1>1. PICK i \in PlanSteps :
        /\ IsNext(journal[p], i)
        /\ \/ SaveJournal(p, SetStep(journal[p], i, "confirmed"))
           \/ /\ fate[a][i] = "reverted"
              /\ SaveAndEnd(p, [SetStep(journal[p], i, "reverted")
                                  EXCEPT !.status = "failed"])
  BY DEF Receipt
<1>2. /\ a \in Plans /\ journal[p] \in Journal /\ UNCHANGED <<fate, broadcasts>>
      /\ journal[p] = journals[a] /\ journal[p].status \in {"active", "complete"}
  BY DEF SendInv, SendCore, SendTypeOK, Receipt, Copied, sendWorld
<1>3. CASE SaveJournal(p, SetStep(journal[p], i, "confirmed"))
  <2>1. /\ SetStep(journal[p], i, "confirmed") \in Journal
        /\ SetStep(journal[p], i, "confirmed").status = journals[a].status
    BY <1>2, SetStepType DEF StepStates
  <2>. QED
    BY <1>2, <1>3, <2>1, SaveUnseen DEF SaveJournal
<1>4. CASE /\ fate[a][i] = "reverted"
           /\ SaveAndEnd(p, [SetStep(journal[p], i, "reverted")
                               EXCEPT !.status = "failed"])
  <2>. DEFINE j == [SetStep(journal[p], i, "reverted") EXCEPT !.status = "failed"]
  <2>1. StepTrue(journals[a], fate[a], broadcasts[a], i)
    BY <1>2 DEF SendInv, SendCore, FilesTrue, FileTrue
  <2>2. journals[a].status = "active"
    BY <1>1, <1>2, <2>1 DEF StepTrue, IsNext
  <2>3. SetStep(journal[p], i, "reverted") \in Journal
    BY <1>2, SetStepType DEF StepStates
  <2>4. j \in Journal /\ j.status = "failed"
    BY <2>3, StatusType
  <2>. QED
    BY <1>2, <1>4, <2>2, <2>4, SaveEnds
<1>. QED
  BY <1>1, <1>3, <1>4

LEMMA SettleRefines ==
  ASSUME SendInv, NEW a \in Plans, NEW i \in PlanSteps, SettleTx(a, i)
  PROVE  PromiseStep
<1>1. PICK o \in {"success", "reverted", "replaced"} :
        fate' = [fate EXCEPT ![a][i] = o]
  BY DEF SettleTx
<1>2. Promise!Decide(a, i, o)
  BY <1>1 DEF SettleTx, Promise!Decide
<1>. QED
  BY <1>2 DEF Promise!PromiseNext, Promise!Steps, Promise!Outcomes, PlanSteps, PromiseStep

LEMMA PromiseInitially == SendInit => Promise!PromiseInit
BY DEF SendInit, NewJournal, Promise!PromiseInit, Promise!Steps, PlanSteps

LEMMA PromiseAlways ==
  ASSUME SendInv, [SendNext]_sendVars
  PROVE  [Promise!PromiseNext]_(Promise!promiseVars)
<1>1. ASSUME UNCHANGED <<journals, fate, broadcasts>> PROVE PromiseStep
  BY <1>1, ShownSame DEF PromiseStep
<1>2. ASSUME NEW p \in SendProcs,
             \/ StopAtStep(p) \/ NoReceipt(p) \/ LeavePlan(p)
             \/ ResumeStep(p) \/ SendCrash(p)
      PROVE  PromiseStep
  BY <1>1, <1>2 DEF StopAtStep, NoReceipt, LeavePlan, ResumeStep, SendCrash, sendWorld
<1>3. ASSUME NEW p \in SendProcs, NEW a \in Plans, CallSend(p, a) \/ CallPlanCancel(p, a)
      PROVE  PromiseStep
  BY <1>1, <1>3 DEF CallSend, CallPlanCancel, TakeLockFile, sendWorld
<1>4. ASSUME NEW p \in SendProcs, SignerSends(p) PROVE PromiseStep
  <2>1. /\ sendStep[p] = "send" /\ UNCHANGED journals
        /\ \E i \in PlanSteps : IsNext(journal[p], i) /\ Broadcasts(sendPlanId[p], i)
    BY <1>4 DEF SignerSends, SendTurn
  <2>. QED
    BY <2>1, BroadcastRefines
<1>5. ASSUME (\E a \in Plans : ExpirePlan(a)) \/ RemoveLockFile \/ UNCHANGED sendVars
      PROVE  PromiseStep
  BY <1>1, <1>5 DEF ExpirePlan, RemoveLockFile, sendVars, sendWorld
<1>6. PromiseStep
  BY <1>2, <1>3, <1>4, <1>5, CheckRefines, CompleteRefines, CancelRefines, TurnsRefine,
     SignerFailsRefines, ReceiptRefines, SettleRefines
  DEF SendNext, SendProcStep
<1>. QED
  BY <1>6 DEF PromiseStep

\* Whatever the number of processes and plans and the length of the plans, and
\* whatever fails or dies: sending implements its promise (send.ts).
THEOREM SendKeepsPromise == SendSpec => KeepsPromise
<1>1. SendSpec => []SendInv
  BY SendInvariant
<1>2. SendInit => Promise!PromiseInit
  BY PromiseInitially
<1>3. SendInv /\ [SendNext]_sendVars => [Promise!PromiseNext]_(Promise!promiseVars)
  BY PromiseAlways
<1>. QED
  BY <1>1, <1>2, <1>3, PTL DEF SendSpec, KeepsPromise, Promise!PromiseSpec
=============================================================================
