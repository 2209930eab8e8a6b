--------------------------- MODULE LiquidityProofs ---------------------------
(***************************************************************************)
(* Theorems about parts that MCLiquidity composes, for every value of the  *)
(* constants: the cycles of the liquidity manager over plan sending, what  *)
(* a basket of stock trades may spend, what the manager's daemon tells and *)
(* when, and where a rebalance moves a position to. Each has an inductive  *)
(* invariant, or lemmas about what is computed; the composition keeps that *)
(* of the latter three, since no part moves another.                       *)
(***************************************************************************)
EXTENDS MCLiquidity, SendPlanProofs, DataLemmas, SequenceTheorems

-----------------------------------------------------------------------------
(* What a step of sending does to the journals *)

\* Whatever happens to plan a: no step makes it unknown again, a plan that is
\* over stays over, and only what an active plan sends becomes pending.
MovesOn(a) ==
  /\ journals'[a].status = "none" => journals'[a] = journals[a]
  /\ journals[a].status \notin {"none", "active"} =>
       journals'[a].status \notin {"none", "active"}
  /\ journals[a].status = "complete" => journals'[a].status = "complete"
  /\ \A i \in PlanSteps : fate'[a][i] = "pending" =>
       fate[a][i] = "pending" \/ journals[a].status = "active"

PlansMoveOn == \A a \in Plans : MovesOn(a)

LEMMA PlanUnmoved ==
  ASSUME NEW a \in Plans, journals'[a] = journals[a], fate'[a] = fate[a]
  PROVE  MovesOn(a)
BY DEF MovesOn

\* A process works on one plan, and is done with it when it ends.
WorksOn(p, a) ==
  /\ sendStep[p] # "idle" /\ a = sendPlanId[p]
  /\ \A b \in Plans \ {a} : journals'[b] = journals[b] /\ fate'[b] = fate[b]
  /\ \A q \in SendProcs \ {p} :
       sendStep'[q] = sendStep[q] /\ sendPlanId'[q] = sendPlanId[q]
  /\ sendStep'[p] # "idle" => sendPlanId'[p] = a
  /\ sendStep[p] = "cancel" => sendStep'[p] = "idle"
  /\ sendStep'[p] # "cancel"

LEMMA SaveIsLocal ==
  ASSUME SendTypeOK, NEW a, NEW j, journals' = [journals EXCEPT ![a] = j]
  PROVE  \A b \in Plans \ {a} : journals'[b] = journals[b]
BY DEF SendTypeOK

LEMMA ForgetIsLocal ==
  ASSUME SendTypeOK, NEW p \in SendProcs, Forget(p)
  PROVE  /\ sendStep'[p] = "idle"
         /\ \A q \in SendProcs \ {p} :
              sendStep'[q] = sendStep[q] /\ sendPlanId'[q] = sendPlanId[q]
BY DEF SendTypeOK, Forget

LEMMA TurnIsLocal ==
  ASSUME SendTypeOK, NEW p \in SendProcs, NEW from, NEW to, SendTurn(p, from, to)
  PROVE  /\ sendStep[p] = from /\ sendStep'[p] = to
         /\ \A q \in SendProcs \ {p} : sendStep'[q] = sendStep[q]
BY DEF SendTypeOK, SendTurn

LEMMA BroadcastIsLocal ==
  ASSUME SendTypeOK, NEW a, NEW i, Broadcasts(a, i)
  PROVE  \A b \in Plans \ {a} : fate'[b] = fate[b]
BY DEF SendTypeOK, Broadcasts

LEMMA StepIsLocal ==
  ASSUME SendTypeOK, NEW p \in SendProcs, SendProcStep(p)
  PROVE  WorksOn(p, sendPlanId[p])
<1>. DEFINE a == sendPlanId[p]
<1>1. ASSUME StopAtStep(p) \/ NoReceipt(p) \/ LeavePlan(p) PROVE WorksOn(p, a)
  BY <1>1, ForgetIsLocal
  DEF WorksOn, StopAtStep, NoReceipt, LeavePlan, EndCommand, sendWorld
<1>2. ASSUME NEW j, SaveAndEnd(p, j), sendStep[p] # "idle", UNCHANGED fate
      PROVE  WorksOn(p, a)
  BY <1>2, ForgetIsLocal, SaveIsLocal DEF WorksOn, SaveAndEnd, EndCommand
<1>3. CASE CheckPlan(p)
  <2>1. CASE EndCommand(p) /\ UNCHANGED journals
    BY <1>3, <2>1, ForgetIsLocal DEF WorksOn, CheckPlan, EndCommand, sendWorld
  <2>2. CASE ~(EndCommand(p) /\ UNCHANGED journals)
    <3>1. PICK j : /\ SaveJournal(p, j) /\ SendTurn(p, "check", "next")
                   /\ UNCHANGED <<sendPlanId, fate>>
      BY <1>3, <2>2 DEF CheckPlan, sendWorld
    <3>2. \A b \in Plans \ {a} : journals'[b] = journals[b]
      BY <3>1, SaveIsLocal DEF SaveJournal
    <3>. QED
      BY <3>1, <3>2, TurnIsLocal DEF WorksOn
  <2>. QED
    BY <2>1, <2>2
<1>4. CASE CompletePlan(p)
  BY <1>2, <1>4 DEF CompletePlan, sendWorld
<1>5. CASE CancelPlan(p)
  BY <1>2, <1>5 DEF CancelPlan, sendWorld
<1>6. CASE ResumeStep(p)
  BY <1>6, TurnIsLocal DEF WorksOn, ResumeStep, sendWorld
<1>7. CASE Submit(p)
  <2>1. PICK j : SaveJournal(p, j)
    BY <1>7 DEF Submit
  <2>. QED
    BY <1>7, <2>1, TurnIsLocal, SaveIsLocal DEF WorksOn, Submit, SaveJournal, sendWorld
<1>8. CASE SignerSends(p)
  BY <1>8, TurnIsLocal, BroadcastIsLocal DEF WorksOn, SignerSends
<1>9. CASE SaveHash(p)
  <2>1. PICK j : SaveJournal(p, j)
    BY <1>9 DEF SaveHash
  <2>. QED
    BY <1>9, <2>1, TurnIsLocal, SaveIsLocal DEF WorksOn, SaveHash, SaveJournal, sendWorld
<1>10. CASE SignerFails(p)
  <2>1. PICK i, j : /\ UNCHANGED fate \/ Broadcasts(a, i)
                    /\ SaveAndEnd(p, j)
    BY <1>10 DEF SignerFails
  <2>2. \A b \in Plans \ {a} : fate'[b] = fate[b]
    BY <2>1, BroadcastIsLocal
  <2>. QED
    BY <1>10, <2>1, <2>2, ForgetIsLocal, SaveIsLocal
    DEF WorksOn, SignerFails, SaveAndEnd, EndCommand
<1>11. CASE Receipt(p)
  <2>1. CASE \E j : SaveAndEnd(p, j)
    BY <1>2, <1>11, <2>1 DEF Receipt, sendWorld
  <2>2. CASE ~\E j : SaveAndEnd(p, j)
    <3>1. PICK j : SaveJournal(p, j)
      BY <1>11, <2>2 DEF Receipt
    <3>2. SendTurn(p, "wait", "next") /\ UNCHANGED <<sendPlanId, fate>>
      BY <1>11, <2>2 DEF Receipt, sendWorld
    <3>. QED
      BY <3>1, <3>2, TurnIsLocal, SaveIsLocal DEF WorksOn, SaveJournal
  <2>. QED
    BY <2>1, <2>2
<1>. QED
  BY <1>1, <1>3, <1>4, <1>5, <1>6, <1>7, <1>8, <1>9, <1>10, <1>11 DEF SendProcStep

LEMMA SaveMoves ==
  ASSUME SendTypeOK, NEW a \in Plans, NEW j,
         journals' = [journals EXCEPT ![a] = j], j.status # "none",
         \/ journals[a].status = "active"
         \/ j.status = journals[a].status /\ UNCHANGED fate
  PROVE  MovesOn(a)
<1>1. journals'[a] = j
  BY DEF SendTypeOK
<1>. QED
  BY <1>1 DEF MovesOn

LEMMA StepMoves ==
  ASSUME SendCore, NEW p \in SendProcs, SendProcStep(p)
  PROVE  MovesOn(sendPlanId[p])
<1>. DEFINE a == sendPlanId[p]
            j == journal[p]
<1>1. /\ a \in Plans /\ journals[a] \in Journal /\ j \in Journal /\ SendTypeOK
      /\ sendStep[p] # "idle"
  <2>1. sendStep[p] # "idle"
    BY StepIsLocal DEF SendCore, WorksOn
  <2>. QED
    BY <2>1 DEF SendCore, SendTypeOK
<1>2. sendStep[p] \in {"next", "send", "sent", "wait"} =>
        /\ j = journals[a] /\ j.status \in {"active", "complete"}
        /\ \A i \in PlanSteps : IsNext(j, i) => j.status = "active"
  BY <1>1 DEF SendCore, Copied, FilesTrue, FileTrue, StepTrue, IsNext
<1>. HIDE DEF a, j
<1>3. CASE StopAtStep(p) \/ NoReceipt(p) \/ LeavePlan(p) \/ ResumeStep(p)
  BY <1>1, <1>3, PlanUnmoved
  DEF StopAtStep, NoReceipt, LeavePlan, ResumeStep, sendWorld, a
<1>4. CASE CheckPlan(p)
  <2>. DEFINE m == IF journals[a].status = "none"
                   THEN [journals[a] EXCEPT !.status = "active"]
                   ELSE journals[a]
  <2>1. CASE UNCHANGED journals
    BY <1>1, <1>4, <2>1, PlanUnmoved DEF CheckPlan, sendWorld, a
  <2>2. CASE journals' = [journals EXCEPT ![a] = m]
    <3>1. journals'[a] = m /\ UNCHANGED fate
      BY <1>1, <1>4, <2>2 DEF CheckPlan, sendWorld, SendTypeOK
    <3>2. m.status \in {journals[a].status, "active"} /\ m.status # "none"
      BY <1>1, StatusType
    <3>3. journals[a].status # "none" => m = journals[a]
      OBVIOUS
    <3>. QED
      BY <3>1, <3>2, <3>3 DEF MovesOn, a
  <2>. QED
    BY <1>4, <2>1, <2>2 DEF CheckPlan, SaveJournal, a
<1>5. CASE CompletePlan(p)
  <2>1. [j EXCEPT !.status = "complete"].status = "complete"
    BY <1>1, StatusType
  <2>. QED
    BY <1>1, <1>2, <1>5, <2>1, SaveMoves DEF CompletePlan, SaveAndEnd, sendWorld, a, j
<1>6. CASE CancelPlan(p)
  <2>1. [journals[a] EXCEPT !.status = "cancelled"].status = "cancelled"
    BY <1>1, StatusType
  <2>. QED
    BY <1>1, <1>6, <2>1, SaveMoves DEF CancelPlan, SaveAndEnd, MayCancel, a
<1>7. CASE Submit(p) \/ SaveHash(p)
  <2>1. PICK i \in PlanSteps, s \in StepStates : SaveJournal(p, SetStep(j, i, s))
    BY <1>7 DEF Submit, SaveHash, StepStates, j
  <2>2. SetStep(j, i, s).status = j.status
    BY <1>1, SetStepType
  <2>. QED
    BY <1>1, <1>2, <1>7, <2>1, <2>2, SaveMoves
    DEF Submit, SaveHash, SendTurn, SaveJournal, sendWorld, a
<1>8. CASE SignerSends(p)
  <2>1. journals[a].status = "active" /\ UNCHANGED journals
    BY <1>2, <1>8 DEF SignerSends, SendTurn, j
  <2>. QED
    BY <2>1 DEF MovesOn, a
<1>9. CASE SignerFails(p)
  <2>1. PICK i \in PlanSteps, surely \in BOOLEAN :
          /\ IsNext(j, i)
          /\ SaveAndEnd(p, SetStep(j, i, AfterError(surely)))
    BY <1>9 DEF SignerFails, j
  <2>2. SetStep(j, i, AfterError(surely)).status = j.status
    BY <1>1, SetStepType DEF StepStates, AfterError
  <2>. QED
    BY <1>1, <1>2, <1>9, <2>1, <2>2, SaveMoves DEF SignerFails, SaveAndEnd, a
<1>10. CASE Receipt(p)
  <2>1. PICK i \in PlanSteps :
          /\ IsNext(j, i)
          /\ \/ SaveJournal(p, SetStep(j, i, "confirmed"))
             \/ SaveAndEnd(p, [SetStep(j, i, "reverted") EXCEPT !.status = "failed"])
    BY <1>10 DEF Receipt, j
  <2>2. /\ SetStep(j, i, "confirmed").status = j.status
        /\ SetStep(j, i, "reverted") \in Journal
    BY <1>1, SetStepType DEF StepStates
  <2>3. [SetStep(j, i, "reverted") EXCEPT !.status = "failed"].status = "failed"
    BY <2>2, StatusType
  <2>4. sendStep[p] = "wait" /\ UNCHANGED fate
    BY <1>10 DEF Receipt, sendWorld
  <2>5. j.status = "active" /\ journals[a].status = "active"
    BY <1>2, <2>1, <2>4
  <2>. QED
    BY <1>1, <2>1, <2>2, <2>3, <2>5, SaveMoves DEF SaveJournal, SaveAndEnd, a
<1>. QED
  BY <1>3, <1>4, <1>5, <1>6, <1>7, <1>8, <1>9, <1>10 DEF SendProcStep

\* What one process does to all plans.
LEMMA ProcMovesPlans ==
  ASSUME SendCore, NEW p \in SendProcs, SendProcStep(p)
  PROVE  PlansMoveOn
<1>1. WorksOn(p, sendPlanId[p])
  BY StepIsLocal DEF SendCore
<1>. QED
  BY <1>1, StepMoves, PlanUnmoved DEF WorksOn, PlansMoveOn

\* executions cancel leaves alone what is under way.
LEMMA CancelSpares ==
  ASSUME SendCore, NEW p \in SendProcs, SendProcStep(p), sendStep[p] = "cancel",
         UnderWay(journals[sendPlanId[p]])
  PROVE  UNCHANGED journals
BY DEF SendProcStep, CheckPlan, CompletePlan, StopAtStep, ResumeStep, Submit, SignerSends,
       SaveHash, SignerFails, Receipt, NoReceipt, CancelPlan, LeavePlan, SendTurn,
       MayCancel, UnderWay

-----------------------------------------------------------------------------
(* The inductive invariant *)

Cyc == Range(almFile.phases)
Newest == Last(almFile.phases)
Working == almStep \in {"build", "journal", "send", "sending", "mint"}
AtPlans == almStep \in {"journal", "send", "sending"}

\* What a phase moves away or brings back, and a rest of phases that does not.
Moving == {"withdraw", "deposit"}
Gentle(s) == \A i \in DOMAIN s : s[i] \notin Moving

\* What is withdrawn is deposited again, once.
Sound(s) ==
  /\ \A i, k \in DOMAIN s : i < k /\ s[i] = "deposit" => s[k] \notin Moving
  /\ \A i \in DOMAIN s : s[i] = "withdraw" =>
       \E k \in DOMAIN s : i < k /\ s[k] = "deposit"

AlmRecord == [status : AlmStatuses, phases : Seq(Plans), result : Nat,
              kind : {"none", "rebalance", "compound"}, nft : Nat, startedAt : Nat,
              rebalances : SUBSET (0..MaxClock), compoundAt : Int, managed : Nat]

\* AlmTypeOK, and the variables it leaves open.
Typed ==
  /\ almFile \in AlmRecord /\ Cardinality(almFile.rebalances) <= MaxPerDay
  /\ almLock \in SendProcs \cup {NoOwner, Gone}
  /\ almStep \in AlmSteps /\ almCommand \in {"none", "pass", "recover", "resolve"}
  /\ almStep # "idle" <=> almLock \in SendProcs
  /\ almStep = "sending" <=> almLock \in SendProcs /\ sendStep[almLock] # "idle"
  /\ funds \in [place : Places, nft : Nat \ {0}] /\ almNft \in Nat
  /\ clock \in 0..MaxClock /\ planPhase \in [Plans -> PhaseNames \cup {"none"}]

\* The owner of the state file and what it has still to do.
OnTrack ==
  /\ Working => /\ almFile.status = "active"
                /\ almTodo \in Seq(PhaseNames) /\ Sound(almTodo)
  /\ almStep = "mint" => Gentle(almTodo)
  /\ AtPlans => /\ almFile.phases # <<>> /\ almTodo # <<>>
              /\ planPhase[Newest] = Head(almTodo)
  /\ almStep \in {"reconcile", "held"} => almTodo \in Seq(Plans)
  /\ almStep = "held" => almTodo # <<>>
  /\ almStep = "decide" => almFile.status # "active"
  /\ almStep = "resolved" => almFile.status = "active"
  /\ \A a \in Cyc : planPhase[a] # "none"

\* Plan a is over and none of its transactions can still be included.
Over(a) ==
  /\ journals[a].status \notin {"none", "active"}
  /\ \A i \in PlanSteps : fate[a][i] # "pending"

\* The journals of a cycle, phase by phase.
Files ==
  /\ \A a \in Plans : journals[a].status = "none" =>
       \A i \in PlanSteps : journals[a].steps[i] = "ready"
  /\ almStep \in {"build", "mint"} => \A a \in Cyc : journals[a].status = "complete"
  /\ AtPlans => \A i \in 1..(Len(almFile.phases) - 1) :
                journals[almFile.phases[i]].status = "complete"
  /\ almStep = "journal" => journals[Newest].status = "none"
  /\ almStep \in {"send", "sending"} => journals[Newest].status # "none"
  /\ almStep \in {"reconcile", "held"} =>
       \A a \in Cyc : a \in Range(almTodo) \/ journals[a].status # "none"
  /\ almStep = "held" => journals[Head(almTodo)].status # "none"
  /\ almStep \in {"inspect", "resolve"} => \A a \in Cyc : journals[a].status # "none"
  /\ almStep = "resolved" => \A a \in Cyc : Over(a)
  /\ \A a \in Plans :
       planPhase[a] # "none" /\ (almFile.status # "active" \/ a \notin Cyc) => Over(a)

\* Only the owner of the state file sends a plan of the cycle on file, others
\* cancel it at most.
Procs ==
  /\ \A p \in SendProcs : sendStep[p] # "idle" /\ sendPlanId[p] \in Cyc =>
       sendStep[p] = "cancel" \/ (p = almLock /\ almStep = "sending")
  /\ almStep = "journal" =>
       \A p \in SendProcs : sendStep[p] # "idle" => sendPlanId[p] # Newest
  /\ almStep = "sending" => sendPlanId[almLock] = Newest
  /\ almStep = "held" => lockFile = almLock

\* The NFT the cycle will leave on file has the liquidity, as long as nothing
\* that remains to be done moves it.
Tracked == funds.place # "wallet" /\ ResultOf(almFile) = funds.nft
PlaceOnFile == funds.place # "wallet" /\ almNft = funds.nft

Funded ==
  /\ TracksTheFunds
  /\ Working /\ almStep # "mint" /\ Gentle(almTodo) => Tracked
  /\ almStep = "resolve" => PlaceOnFile \/ \E a \in Cyc : UnderWay(journals[a])
  /\ almStep = "resolved" => PlaceOnFile

CycleInv == SendCore /\ Typed /\ OnTrack /\ Files /\ Procs /\ Funded

-----------------------------------------------------------------------------
(* Phases *)

LEMMA PhasesKnown ==
  /\ RebalancePhases \in Seq(PhaseNames) /\ CompoundPhases \in Seq(PhaseNames)
  /\ "none" \notin PhaseNames
BY DEF RebalancePhases, CompoundPhases, PhaseNames, Range

LEMMA RebalanceSound == Sound(RebalancePhases)
<1>1. /\ Len(RebalancePhases) = 6 /\ DOMAIN RebalancePhases = 1..6
      /\ RebalancePhases[1] = "claim" /\ RebalancePhases[2] = "unstake"
      /\ RebalancePhases[3] = "withdraw" /\ RebalancePhases[4] = "swap"
      /\ RebalancePhases[5] = "deposit" /\ RebalancePhases[6] = "stake"
  BY DEF RebalancePhases
<1>2. \A i \in 1..6 : i = 1 \/ i = 2 \/ i = 3 \/ i = 4 \/ i = 5 \/ i = 6
  OBVIOUS
<1>. QED
  BY <1>1, <1>2 DEF Sound, Moving

LEMMA CompoundSound == Sound(CompoundPhases)
<1>1. /\ DOMAIN CompoundPhases = 1..6
      /\ CompoundPhases[1] = "claim" /\ CompoundPhases[2] = "swap"
      /\ CompoundPhases[3] = "swap" /\ CompoundPhases[4] = "unstake"
      /\ CompoundPhases[5] = "increase" /\ CompoundPhases[6] = "stake"
  BY DEF CompoundPhases
<1>2. \A i \in 1..6 : CompoundPhases[i] \notin {"deposit", "withdraw"}
  BY <1>1
<1>. QED
  BY <1>1, <1>2 DEF Sound

LEMMA TailOf ==
  ASSUME NEW S, NEW s \in Seq(S), s # <<>>
  PROVE  /\ Tail(s) \in Seq(S) /\ Head(s) \in S /\ Head(s) = s[1]
         /\ Len(s) \in Nat /\ Len(s) > 0 /\ DOMAIN s = 1..Len(s)
         /\ DOMAIN Tail(s) = 1..(Len(s) - 1)
         /\ \A i \in 1..(Len(s) - 1) : Tail(s)[i] = s[i + 1]
OBVIOUS

LEMMA LastOf ==
  ASSUME NEW S, NEW s \in Seq(S), s # <<>>
  PROVE  Last(s) \in S /\ Last(s) = s[Len(s)] /\ Last(s) \in Range(s)
BY DEF Last, Range

LEMMA AppendOf ==
  ASSUME NEW S, NEW s \in Seq(S), NEW e \in S
  PROVE  /\ Append(s, e) \in Seq(S) /\ Append(s, e) # <<>>
         /\ Len(Append(s, e)) = Len(s) + 1 /\ Len(s) \in Nat
         /\ \A i \in 1..Len(s) : Append(s, e)[i] = s[i]
         /\ Last(Append(s, e)) = e /\ Range(Append(s, e)) = Range(s) \cup {e}
<1>1. /\ Append(s, e) \in Seq(S) /\ Len(Append(s, e)) = Len(s) + 1
      /\ \A i \in 1..Len(s) : Append(s, e)[i] = s[i]
      /\ Append(s, e)[Len(s) + 1] = e /\ Len(s) \in Nat
  OBVIOUS
<1>2. /\ DOMAIN Append(s, e) = 1..(Len(s) + 1) /\ DOMAIN s = 1..Len(s)
      /\ 1..(Len(s) + 1) = 1..Len(s) \cup {Len(s) + 1}
  BY <1>1
<1>3. Range(Append(s, e)) = Range(s) \cup {e}
  BY <1>1, <1>2 DEF Range
<1>. QED
  BY <1>1, <1>3 DEF Last

\* A phase that is done, or left out.
LEMMA SoundTail ==
  ASSUME NEW s \in Seq(PhaseNames), s # <<>>, Sound(s)
  PROVE  /\ Sound(Tail(s))
         /\ Head(s) \notin Moving /\ Gentle(Tail(s)) => Gentle(s)
         /\ Head(s) = "deposit" => Gentle(Tail(s))
         /\ Head(s) = "withdraw" => ~Gentle(Tail(s))
         /\ Gentle(s) => Head(s) \notin Moving
<1>. DEFINE t == Tail(s)
<1>1. /\ Head(s) = s[1] /\ Len(s) \in Nat /\ Len(s) > 0 /\ DOMAIN s = 1..Len(s)
      /\ DOMAIN t = 1..(Len(s) - 1)
      /\ \A i \in 1..(Len(s) - 1) : t[i] = s[i + 1]
  BY TailOf
<1>. HIDE DEF t
<1>2. \A i \in 1..(Len(s) - 1) : i + 1 \in 1..Len(s) /\ 1 < i + 1
  BY <1>1
<1>3. \A i \in 1..Len(s) : i = 1 \/ (i - 1 \in 1..(Len(s) - 1) /\ t[i - 1] = s[i])
  <2>1. ASSUME NEW i \in 1..Len(s), i # 1
        PROVE  i - 1 \in 1..(Len(s) - 1) /\ i - 1 + 1 = i
    BY <1>1, <2>1
  <2>. QED
    BY <1>1, <2>1
<1>4. 1 \in DOMAIN s
  BY <1>1
<1>5. Sound(t)
  <2>1. ASSUME NEW i \in DOMAIN t, NEW k \in DOMAIN t, i < k, t[i] = "deposit"
        PROVE  t[k] \notin Moving
    <3>1. /\ i + 1 \in DOMAIN s /\ k + 1 \in DOMAIN s /\ i + 1 < k + 1
          /\ s[i + 1] = "deposit" /\ t[k] = s[k + 1]
      BY <1>1, <1>2, <2>1
    <3>. QED
      BY <3>1 DEF Sound
  <2>2. ASSUME NEW i \in DOMAIN t, t[i] = "withdraw"
        PROVE  \E k \in DOMAIN t : i < k /\ t[k] = "deposit"
    <3>1. i + 1 \in DOMAIN s /\ s[i + 1] = "withdraw" /\ i \in Nat
      BY <1>1, <1>2, <2>2
    <3>2. PICK k \in DOMAIN s : i + 1 < k /\ s[k] = "deposit"
      BY <3>1 DEF Sound
    <3>3. k - 1 \in DOMAIN t /\ i < k - 1 /\ t[k - 1] = "deposit"
      BY <1>1, <1>3, <3>1, <3>2
    <3>. QED
      BY <3>3
  <2>. QED
    BY <2>1, <2>2 DEF Sound
<1>6. Head(s) \notin Moving /\ Gentle(t) => Gentle(s)
  BY <1>1, <1>3 DEF Gentle
<1>7. Head(s) = "deposit" => Gentle(t)
  BY <1>1, <1>2, <1>4 DEF Gentle, Sound
<1>8. Head(s) = "withdraw" => ~Gentle(t)
  <2>1. ASSUME Head(s) = "withdraw" PROVE ~Gentle(t)
    <3>1. PICK k \in DOMAIN s : 1 < k /\ s[k] = "deposit"
      BY <1>1, <1>4, <2>1 DEF Sound
    <3>2. k - 1 \in DOMAIN t /\ t[k - 1] = "deposit"
      BY <1>1, <1>3, <3>1
    <3>. QED
      BY <3>2 DEF Gentle, Moving
  <2>. QED
    BY <2>1
<1>9. Gentle(s) => Head(s) \notin Moving
  BY <1>1, <1>4 DEF Gentle
<1>. QED
  BY <1>5, <1>6, <1>7, <1>8, <1>9 DEF t

-----------------------------------------------------------------------------
(* What the cycle does to the journals of sending *)

LEMMA CycPlans ==
  ASSUME Typed
  PROVE  /\ Cyc \subseteq Plans /\ almFile.phases \in Seq(Plans)
         /\ almFile.phases # <<>> => Newest \in Cyc
BY LastOf DEF Typed, AlmRecord, Cyc, Newest, Range

\* Nobody sends.
LEMMA IdleCore ==
  ASSUME SendTypeOK', FilesTrue', \A p \in SendProcs : sendStep'[p] = "idle"
  PROVE  SendCore'
BY DEF SendCore, Locked, Copied, Unsent

LEMMA LockFree ==
  ASSUME SendCore, lockFile \in {NoOwner, Gone}
  PROVE  \A p \in SendProcs : sendStep[p] = "idle"
BY SendAssumption DEF SendCore, Locked

LEMMA JournalPhaseCore ==
  ASSUME CycleInv, JournalPhase
  PROVE  SendCore' /\ PlansMoveOn
<1>. DEFINE j == [journals[Newest] EXCEPT !.status = "active"]
<1>1. /\ Newest \in Plans /\ journals[Newest] \in Journal
      /\ journals[Newest].status = "none" /\ journals \in [Plans -> Journal]
      /\ \A p \in SendProcs : sendStep[p] # "idle" => sendPlanId[p] # Newest
  BY CycPlans
  DEF CycleInv, SendCore, SendTypeOK, OnTrack, AtPlans, Files, Procs, JournalPhase, AlmGo
<1>2. /\ journals' = [journals EXCEPT ![Newest] = j]
      /\ UNCHANGED <<lockFile, planExpired, fate, broadcasts, sendStep, sendPlanId,
                     journal, sendTroubles>>
  BY <1>1 DEF JournalPhase, sendWorld, sendLocals, Newest
<1>3. /\ j \in Journal /\ j.status = "active"
      /\ FileTrue(j, fate[Newest], broadcasts[Newest])
  BY <1>1, StatusType, FileAfterStatus DEF CycleInv, SendCore, FilesTrue
<1>. HIDE DEF j
<1>4. /\ journals'[Newest] = j
      /\ \A b \in Plans \ {Newest} : journals'[b] = journals[b]
  BY <1>1, <1>2
<1>5. SendTypeOK'
  BY <1>1, <1>2, <1>3, FileType DEF CycleInv, SendCore, SendTypeOK
<1>6. Locked' /\ Copied'
  BY <1>1, <1>2, <1>4 DEF CycleInv, SendCore, SendTypeOK, Locked, Copied
<1>7. Unsent'
  BY <1>2 DEF CycleInv, SendCore, Unsent, IsNext
<1>8. FilesTrue'
  BY <1>1, <1>2, <1>3, <1>4, OneFileAfter DEF CycleInv, SendCore
<1>9. PlansMoveOn
  BY <1>1, <1>2, <1>3, <1>4 DEF PlansMoveOn, MovesOn
<1>. QED
  BY <1>5, <1>6, <1>7, <1>8, <1>9 DEF SendCore

\* Receipts only say what happened.
LEMMA ReconciledTrue ==
  ASSUME SendCore, NEW a \in Plans, journals[a].status # "none",
         NEW known \in SUBSET {i \in PlanSteps :
           /\ journals[a].steps[i] = "submitted"
           /\ fate[a][i] \in {"success", "reverted"}}
  PROVE  LET r == Reconciled(journals[a], a, known) IN
         /\ r \in Journal /\ r.status # "none"
         /\ FileTrue(r, fate[a], broadcasts[a])
         /\ journals[a].status # "active" => r.status # "active"
         /\ journals[a].status = "complete" => r.status = "complete"
<1>. DEFINE j == journals[a]
            f == fate[a]
            steps == [i \in PlanSteps |->
                        IF i \notin known THEN j.steps[i]
                        ELSE IF f[i] = "success" THEN "confirmed" ELSE "reverted"]
            r == Reconciled(j, a, known)
<1>1. /\ j \in Journal /\ j.steps \in [PlanSteps -> StepStates]
      /\ \A i \in PlanSteps : StepTrue(j, f, broadcasts[a], i)
      /\ j.status \in {"active", "complete", "failed", "cancelled"}
      /\ 1 \in PlanSteps
  <2>1. j \in Journal
    BY DEF SendCore, SendTypeOK
  <2>2. 1 \in PlanSteps
    BY SendAssumption DEF PlanSteps
  <2>3. FileTrue(j, f, broadcasts[a])
    BY DEF SendCore, FilesTrue
  <2>. QED
    BY <2>1, <2>2, <2>3 DEF FileTrue, Journal
<1>2. /\ r.steps = steps
      /\ r.status = IF "reverted" \in Range(steps) THEN "failed"
                    ELSE IF Range(steps) = {"confirmed"} THEN "complete" ELSE j.status
  BY DEF Reconciled
<1>3. \A i \in known : /\ j.steps[i] = "submitted" /\ f[i] \in {"success", "reverted"}
                       /\ i \in PlanSteps
  OBVIOUS
<1>4. steps \in [PlanSteps -> StepStates] /\ r \in Journal
  <2>1. steps \in [PlanSteps -> StepStates]
    BY <1>1 DEF StepStates
  <2>2. r.status \in {"none", "active", "complete", "failed", "cancelled"}
    BY <1>1, <1>2
  <2>. QED
    BY <1>2, <2>1, <2>2 DEF Journal, Reconciled
<1>. HIDE DEF j, f, r
<1>5. \A i \in PlanSteps :
        /\ steps[i] = "ready" => j.steps[i] = "ready"
        /\ steps[i] = "confirmed" => f[i] = "success"
        /\ steps[i] = "reverted" => f[i] = "reverted"
        /\ j.steps[i] = "confirmed" => steps[i] = "confirmed"
        /\ steps[i] # "ready" => j.steps[i] # "ready"
  BY <1>1, <1>3 DEF StepTrue
<1>6. \A i \in PlanSteps : steps[i] \in Range(steps)
  BY DEF Range
<1>. HIDE DEF steps
<1>7. ASSUME NEW i \in PlanSteps PROVE StepTrue(r, f, broadcasts[a], i)
  <2>1. /\ broadcasts[a][i] \in {0, 1}
        /\ broadcasts[a][i] = 0 <=> f[i] = "none"
        /\ j.steps[i] = "ready" => f[i] = "none"
        /\ j.steps[i] # "ready" => \A k \in 1..(i - 1) : j.steps[k] = "confirmed"
        /\ j.status = "complete" => j.steps[i] = "confirmed"
    BY <1>1 DEF StepTrue
  <2>2. \A k \in 1..(i - 1) : k \in PlanSteps
    BY SendAssumption DEF PlanSteps
  <2>3. r.steps[i] # "ready" => \A k \in 1..(i - 1) : r.steps[k] = "confirmed"
    BY <1>2, <1>5, <2>1, <2>2
  <2>4. r.status = "complete" => r.steps[i] = "confirmed"
    BY <1>2, <1>5, <1>6, <2>1
  <2>5. r.steps[i] = "reverted" => r.status = "failed" /\ f[i] = "reverted"
    BY <1>2, <1>5, <1>6
  <2>. QED
    BY <1>2, <1>5, <2>1, <2>3, <2>4, <2>5 DEF StepTrue
<1>8. j.status = "complete" => r.status = "complete"
  <2>1. ASSUME j.status = "complete" PROVE Range(steps) = {"confirmed"}
    <3>1. \A i \in PlanSteps : steps[i] = "confirmed"
      BY <1>1, <1>5, <2>1 DEF StepTrue
    <3>. QED
      BY <1>1, <1>4, <3>1 DEF Range
  <2>. QED
    BY <1>2, <2>1
<1>9. r.status # "none" /\ (j.status # "active" => r.status # "active")
  BY <1>1, <1>2
<1>. QED
  BY <1>4, <1>7, <1>8, <1>9 DEF FileTrue, j, f, r

LEMMA HeldIsIdle ==
  ASSUME CycleInv, almStep = "held"
  PROVE  \A p \in SendProcs : sendStep[p] = "idle"
<1>1. lockFile = almLock /\ almLock \in SendProcs /\ sendStep[almLock] = "idle"
  BY DEF CycleInv, Procs, Typed
<1>. QED
  BY <1>1 DEF CycleInv, SendCore, Locked

LEMMA ReconcileSavesCore ==
  ASSUME CycleInv, ReconcileSaves
  PROVE  SendCore' /\ PlansMoveOn
<1>. DEFINE a == Head(almTodo)
<1>1. /\ a \in Plans /\ journals[a].status # "none" /\ almStep = "held"
      /\ journals \in [Plans -> Journal] /\ SendCore
  BY TailOf DEF CycleInv, SendCore, SendTypeOK, OnTrack, Files, ReconcileSaves, AlmGo
<1>2. UNCHANGED <<planExpired, fate, broadcasts, sendStep, sendPlanId, journal,
                  sendTroubles>>
      /\ lockFile' = NoOwner
  BY DEF ReconcileSaves, sendWorld, sendLocals
<1>3. PICK known \in SUBSET {i \in PlanSteps :
               /\ journals[a].steps[i] = "submitted"
               /\ fate[a][i] \in {"success", "reverted"}} :
        journals' = [journals EXCEPT ![a] = Reconciled(journals[a], a, known)]
  BY <1>1 DEF ReconcileSaves
<1>. DEFINE r == Reconciled(journals[a], a, known)
<1>. HIDE DEF a
<1>4. /\ r \in Journal /\ r.status # "none" /\ FileTrue(r, fate[a], broadcasts[a])
      /\ journals[a].status # "active" => r.status # "active"
      /\ journals[a].status = "complete" => r.status = "complete"
  BY <1>1, ReconciledTrue
<1>. HIDE DEF r
<1>5. journals'[a] = r /\ \A b \in Plans \ {a} : journals'[b] = journals[b]
  BY <1>1, <1>3 DEF r
<1>6. SendTypeOK'
  <2>1. journals' \in [Plans -> Journal]
    BY <1>1, <1>3, <1>4 DEF r
  <2>. QED
    BY <1>1, <1>2, <2>1 DEF SendCore, SendTypeOK
<1>7. FilesTrue'
  BY <1>1, <1>2, <1>4, <1>5, OneFileAfter DEF SendCore
<1>8. \A p \in SendProcs : sendStep'[p] = "idle"
  BY <1>1, <1>2, HeldIsIdle
<1>9. PlansMoveOn
  BY <1>1, <1>2, <1>4, <1>5 DEF PlansMoveOn, MovesOn
<1>. QED
  BY <1>6, <1>7, <1>8, <1>9, IdleCore

LEMMA ResolveCycleCore ==
  ASSUME CycleInv, ResolveCycle
  PROVE  SendCore' /\ PlansMoveOn
<1>1. /\ UNCHANGED <<lockFile, planExpired, fate, broadcasts, sendStep, sendPlanId,
                     journal, sendTroubles>>
      /\ lockFile = NoOwner /\ SendCore /\ journals \in [Plans -> Journal]
      /\ journals' = [a \in Plans |->
                       IF a \in Range(almFile.phases) /\ IsActive(a)
                       THEN [journals[a] EXCEPT !.status = "cancelled"]
                       ELSE journals[a]]
  BY DEF ResolveCycle, sendWorld, sendLocals, CycleInv, SendCore, SendTypeOK
<1>2. ASSUME NEW a \in Plans
      PROVE  /\ journals'[a] \in Journal
             /\ FileTrue(journals'[a], fate[a], broadcasts[a])
             /\ MovesOn(a)
  <2>. DEFINE c == [journals[a] EXCEPT !.status = "cancelled"]
  <2>1. journals[a] \in Journal /\ FileTrue(journals[a], fate[a], broadcasts[a])
    BY <1>1 DEF SendCore, FilesTrue
  <2>2. CASE journals'[a] = journals[a]
    BY <1>1, <2>1, <2>2, PlanUnmoved
  <2>3. CASE journals[a].status = "active" /\ journals'[a] = c
    <3>1. c \in Journal /\ c.status = "cancelled"
      BY <2>1, StatusType
    <3>2. FileTrue(c, fate[a], broadcasts[a])
      BY <2>1, <2>3, FileAfterStatus
    <3>. QED
      BY <1>1, <2>3, <3>1, <3>2 DEF MovesOn
  <2>. QED
    BY <1>1, <2>2, <2>3 DEF IsActive
<1>3. SendTypeOK'
  <2>1. journals' \in [Plans -> Journal]
    BY <1>1, <1>2
  <2>. QED
    BY <1>1, <2>1 DEF SendCore, SendTypeOK
<1>4. FilesTrue'
  BY <1>1, <1>2 DEF FilesTrue
<1>5. \A p \in SendProcs : sendStep'[p] = "idle"
  BY <1>1, LockFree
<1>. QED
  BY <1>2, <1>3, <1>4, <1>5, IdleCore DEF PlansMoveOn

\* The lock file of the wallet changes hands while nobody sends.
LEMMA LockCore ==
  ASSUME SendCore, lockFile \in {NoOwner, Gone},
         lockFile' \in SendProcs \cup {NoOwner, Gone},
         UNCHANGED <<journals, sendWorld, sendLocals, sendTroubles>>
  PROVE  SendCore'
<1>1. UNCHANGED <<journals, planExpired, fate, broadcasts, sendStep, sendPlanId, journal,
                  sendTroubles>>
  BY DEF sendWorld, sendLocals
<1>2. SendTypeOK'
  BY <1>1 DEF SendCore, SendTypeOK
<1>3. FilesTrue'
  BY <1>1 DEF SendCore, FilesTrue, FileTrue, StepTrue
<1>4. \A p \in SendProcs : sendStep'[p] = "idle"
  BY <1>1, LockFree
<1>. QED
  BY <1>2, <1>3, <1>4, IdleCore

LEMMA AlmCrashCore ==
  ASSUME CycleInv, NEW p \in SendProcs, AlmCrash(p)
  PROVE  SendCore'
<1>1. /\ UNCHANGED <<journals, planExpired, fate, broadcasts>> /\ Forget(p) /\ Trouble
      /\ lockFile' = IF lockFile = p THEN Gone ELSE lockFile
      /\ SendTypeOK /\ Locked /\ SendCore
  BY DEF AlmCrash, sendWorld, CycleInv, SendCore
<1>2. SendTypeOK'
  <2>1. lockFile' \in SendProcs \cup {NoOwner, Gone}
    BY <1>1 DEF SendTypeOK
  <2>2. UNCHANGED <<journals, planExpired, fate, broadcasts>> => 
          /\ journals' \in [Plans -> Journal] /\ planExpired' \in SUBSET Plans
          /\ fate' \in [Plans -> [PlanSteps -> Fates]]
          /\ broadcasts' \in [Plans -> [PlanSteps -> Nat]]
    BY <1>1 DEF SendTypeOK
  <2>. QED
    BY <1>1, <2>1, <2>2, ForgetType, TroubleType DEF SendTypeOK
<1>3. FilesTrue'
  BY <1>1 DEF SendCore, FilesTrue, FileTrue, StepTrue
<1>4. CASE lockFile = p
  <2>1. \A q \in SendProcs : sendStep'[q] = "idle"
    BY <1>1, <1>4 DEF Locked, Forget, SendTypeOK
  <2>. QED
    BY <1>2, <1>3, <2>1, IdleCore
<1>5. CASE lockFile # p
  <2>1. sendStep[p] = "idle" /\ lockFile' = lockFile
    BY <1>1, <1>5 DEF Locked
  <2>2. /\ \A q \in SendProcs : sendStep'[q] = sendStep[q]
        /\ \A q \in SendProcs \ {p} :
             sendPlanId'[q] = sendPlanId[q] /\ journal'[q] = journal[q]
    BY <1>1, <2>1 DEF Forget, SendTypeOK
  <2>3. Locked' /\ Copied'
    BY <1>1, <2>1, <2>2 DEF SendCore, Locked, Copied
  <2>4. Unsent'
    BY <1>1, <2>1, <2>2 DEF SendCore, Unsent, IsNext
  <2>. QED
    BY <1>2, <1>3, <2>3, <2>4 DEF SendCore
<1>. QED
  BY <1>4, <1>5

LEMMA QuietMoves ==
  ASSUME UNCHANGED <<journals, fate>>
  PROVE  PlansMoveOn
BY PlanUnmoved DEF PlansMoveOn

LEMMA SettleMoves ==
  ASSUME SendCore, NEW a \in Plans, NEW i \in PlanSteps, SettleTx(a, i)
  PROVE  /\ PlansMoveOn /\ UNCHANGED journals
         /\ \A b \in Plans, k \in PlanSteps : fate'[b][k] = "pending" => fate[b][k] = "pending"
<1>1. PICK f \in {"success", "reverted", "replaced"} :
        fate' = [fate EXCEPT ![a][i] = f]
  BY DEF SettleTx
<1>2. \A b \in Plans, k \in PlanSteps : fate'[b][k] = "pending" => fate[b][k] = "pending"
  BY <1>1 DEF SendCore, SendTypeOK
<1>. QED
  BY <1>2 DEF SettleTx, PlansMoveOn, MovesOn

\* Steps that do not touch what sending has.
SendRests ==
  \/ \E p \in SendProcs, c \in {"pass", "recover", "resolve"} : AlmAcquire(p, c)
  \/ AlmHold \/ SkipPhase \/ PhaseFails \/ RecordPhase \/ RecordMint \/ CompleteCycle
  \/ ReconcileFails \/ ReconcileEnds \/ InspectPosition \/ SaveResolved \/ ResolveFails
  \/ \E kind \in CycleKinds : BeginCycle(kind)
  \/ almStep = "send" /\ lockFile # NoOwner /\ AlmFails
  \/ Repair \/ ClockTicks \/ UNCHANGED almVars

LEMMA RestsUnchanged ==
  ASSUME SendRests PROVE UNCHANGED sendVars
BY DEF SendRests, AlmAcquire, AlmHold, SkipPhase, PhaseFails, RecordPhase, RecordMint,
       CompleteCycle, ReconcileFails, ReconcileEnds, InspectPosition, SaveResolved,
       ResolveFails, BeginCycle, AlmFails, Repair, ClockTicks, almVars

\* The phase is sent.
SendBegins ==
  /\ AlmGo("send", "sending")
  /\ CallSend(almLock, Newest)
  /\ begun' = IF almFile.kind = "rebalance"
              THEN begun \cup {<<almFile.startedAt, Head(almFile.phases)>>}
              ELSE begun
  /\ UNCHANGED <<almFiles, almCommand, almTodo, almNft, funds, planPhase, clock>>

\* The kinds of steps the proofs go through.
LEMMA AlmKinds ==
  ASSUME [AlmNext]_almVars
  PROVE  \/ SendRests \/ SendBegins \/ PhaseGoesOn \/ JournalPhase
         \/ ReconcileLocks \/ ReconcileSaves \/ ResolveCycle \/ RemoveLocks
         \/ \E p \in SendProcs, a \in Plans : OwnerCalls(p, a)
         \/ \E p \in SendProcs : OwnerGoesOn(p) \/ AlmCrash(p)
         \/ \E a \in Plans, i \in PlanSteps : AlmSettle(a, i)
BY DEF AlmNext, AlmOwnerStep, SendRests, SendBegins, SendPhase, Newest

LEMMA LockIsProc ==
  ASSUME CycleInv, almStep # "idle"
  PROVE  almLock \in SendProcs
BY DEF CycleInv, Typed

LEMMA CoreKeeps ==
  ASSUME CycleInv, [AlmNext]_almVars
  PROVE  SendCore' /\ PlansMoveOn
<1>. SendCore
  BY DEF CycleInv
<1>1. CASE SendRests
  <2>1. UNCHANGED sendVars
    BY <1>1, RestsUnchanged
  <2>2. SendCore'
    BY <2>1, CoreStep
  <2>3. UNCHANGED <<journals, fate>>
    BY <2>1 DEF sendVars, sendWorld
  <2>. QED
    BY <2>2, <2>3, QuietMoves
<1>2. CASE SendBegins
  <2>1. almLock \in SendProcs /\ Newest \in Plans
    BY <1>2, LockIsProc, CycPlans DEF SendBegins, AlmGo, CycleInv, OnTrack, AtPlans
  <2>2. SendNext
    BY <1>2, <2>1 DEF SendBegins, SendNext
  <2>3. UNCHANGED <<journals, fate>>
    BY <1>2 DEF SendBegins, CallSend, TakeLockFile, sendWorld
  <2>. QED
    BY <2>2, <2>3, CoreStep, QuietMoves
<1>3. ASSUME NEW p \in SendProcs, SendProcStep(p) PROVE SendCore' /\ PlansMoveOn
  <2>1. SendNext
    BY <1>3 DEF SendNext
  <2>. QED
    BY <1>3, <2>1, CoreStep, ProcMovesPlans
<1>4. CASE PhaseGoesOn
  BY <1>3, <1>4, LockIsProc DEF PhaseGoesOn
<1>5. ASSUME NEW p \in SendProcs, OwnerGoesOn(p) PROVE SendCore' /\ PlansMoveOn
  BY <1>3, <1>5 DEF OwnerGoesOn
<1>6. ASSUME NEW p \in SendProcs, NEW a \in Plans, OwnerCalls(p, a)
      PROVE  SendCore' /\ PlansMoveOn
  <2>1. SendNext
    BY <1>6 DEF OwnerCalls, SendNext
  <2>2. UNCHANGED <<journals, fate>>
    BY <1>6 DEF OwnerCalls, CallSend, CallPlanCancel, TakeLockFile, sendWorld
  <2>. QED
    BY <2>1, <2>2, CoreStep, QuietMoves
<1>7. ASSUME NEW a \in Plans, NEW i \in PlanSteps, AlmSettle(a, i)
      PROVE  SendCore' /\ PlansMoveOn
  <2>1. SendNext
    BY <1>7 DEF AlmSettle, SendNext
  <2>. QED
    BY <1>7, <2>1, CoreStep, SettleMoves DEF AlmSettle
<1>8. CASE ReconcileLocks
  <2>1. almLock \in SendProcs
    BY <1>8, LockIsProc DEF ReconcileLocks, AlmGo
  <2>2. SendCore'
    BY <1>8, <2>1, LockCore DEF ReconcileLocks
  <2>. QED
    BY <1>8, <2>2, QuietMoves DEF ReconcileLocks, sendWorld
<1>9. CASE RemoveLocks
  <2>1. CASE lockFile = Gone
    <3>1. SendCore'
      BY <1>9, <2>1, LockCore DEF RemoveLocks
    <3>. QED
      BY <1>9, <3>1, QuietMoves DEF RemoveLocks, sendWorld
  <2>2. CASE lockFile # Gone
    <3>1. UNCHANGED sendVars
      BY <1>9, <2>2 DEF RemoveLocks, sendVars
    <3>2. SendCore'
      BY <3>1, CoreStep
    <3>. QED
      BY <1>9, <3>2, QuietMoves DEF RemoveLocks, sendWorld
  <2>. QED
    BY <2>1, <2>2
<1>10. ASSUME NEW p \in SendProcs, AlmCrash(p) PROVE SendCore' /\ PlansMoveOn
  BY <1>10, AlmCrashCore, QuietMoves DEF AlmCrash, sendWorld
<1>. QED
  BY <1>1, <1>2, <1>4, <1>5, <1>6, <1>7, <1>8, <1>9, <1>10, JournalPhaseCore,
     ReconcileSavesCore, ResolveCycleCore, AlmKinds

-----------------------------------------------------------------------------
(* Types *)

LEMMA FileChanges ==
  ASSUME [AlmNext]_almVars
  PROVE  \/ UNCHANGED almFile \/ RecordPhase \/ RecordMint \/ CompleteCycle
         \/ SaveResolved \/ \E kind \in CycleKinds : BeginCycle(kind)
BY AlmKinds
DEF SendRests, AlmAcquire, AlmHold, SkipPhase, PhaseFails, ReconcileFails, ReconcileEnds,
    InspectPosition, ResolveFails, AlmFails, Repair, ClockTicks, almVars, SendBegins,
    PhaseGoesOn, JournalPhase, ReconcileLocks, ReconcileSaves, ResolveCycle, RemoveLocks,
    OwnerCalls, OwnerGoesOn, AlmCrash, AlmSettle, almFiles

\* RecordPhase picks one of the unused plans.
LEMMA PhaseRecorded ==
  ASSUME CycleInv, RecordPhase
  PROVE  \E a \in Plans :
           /\ Unused(a) /\ almFile' = [almFile EXCEPT !.phases = Append(@, a)]
           /\ planPhase' = [planPhase EXCEPT ![a] = Head(almTodo)]
           /\ Head(almTodo) \in PhaseNames
<1>1. PICK a \in Fresh :
        /\ almFile' = [almFile EXCEPT !.phases = Append(@, a)]
        /\ planPhase' = [planPhase EXCEPT ![a] = Head(almTodo)]
  <2>1. (CHOOSE b \in Fresh : TRUE) \in Fresh
    BY DEF RecordPhase
  <2>. QED
    BY <2>1 DEF RecordPhase
<1>2. Head(almTodo) \in PhaseNames
  BY TailOf DEF RecordPhase, AlmGo, CycleInv, OnTrack, Working
<1>. QED
  BY <1>1, <1>2 DEF Fresh

\* The gate counts the rebalances of the day.
LEMMA GateCounts ==
  ASSUME Typed, GateAllows("rebalance")
  PROVE  /\ Recent(almFile.rebalances) \cup {clock} \subseteq 0..MaxClock
         /\ Cardinality(Recent(almFile.rebalances) \cup {clock}) <= MaxPerDay
<1>. DEFINE R == Recent(almFile.rebalances)
<1>1. R \subseteq 0..MaxClock /\ clock \in 0..MaxClock
  BY DEF Typed, AlmRecord, Recent
<1>2. IsFiniteSet(R) /\ Cardinality(R) \in Nat
  <2>1. IsFiniteSet(0..MaxClock)
    BY AlmAssumption, FS_Interval
  <2>2. IsFiniteSet(R)
    BY <1>1, <2>1, FS_Subset
  <2>. QED
    BY <2>2, FS_CardinalityType
<1>3. Cardinality(R) < MaxPerDay
  BY DEF GateAllows
<1>4. Cardinality(R \cup {clock}) <= Cardinality(R) + 1
  BY <1>2, FS_AddElement
<1>5. Cardinality(R \cup {clock}) \in Nat
  BY <1>2, FS_AddElement, FS_CardinalityType
<1>. QED
  BY <1>1, <1>2, <1>3, <1>4, <1>5, AlmAssumption

LEMMA FileTyped ==
  ASSUME CycleInv, [AlmNext]_almVars
  PROVE  almFile' \in AlmRecord /\ Cardinality(almFile'.rebalances) <= MaxPerDay
<1>1. /\ almFile \in AlmRecord /\ Cardinality(almFile.rebalances) <= MaxPerDay
      /\ funds.nft \in Nat /\ almNft \in Nat /\ clock \in 0..MaxClock /\ MaxClock \in Nat
  BY AlmAssumption DEF CycleInv, Typed
<1>2. CASE UNCHANGED almFile
  BY <1>1, <1>2
<1>3. CASE RecordPhase
  <2>1. PICK a \in Plans : almFile' = [almFile EXCEPT !.phases = Append(@, a)]
    BY <1>3, PhaseRecorded
  <2>2. Append(almFile.phases, a) \in Seq(Plans)
    BY <1>1, AppendOf DEF AlmRecord
  <2>. QED
    BY <1>1, <2>1, <2>2 DEF AlmRecord
<1>4. CASE RecordMint
  BY <1>1, <1>4 DEF RecordMint, AlmRecord
<1>5. CASE CompleteCycle
  BY <1>1, <1>5 DEF CompleteCycle, AlmRecord, ResultOf, AlmStatuses
<1>6. CASE SaveResolved
  BY <1>1, <1>6 DEF SaveResolved, AlmRecord, AlmStatuses
<1>7. ASSUME NEW kind \in CycleKinds, BeginCycle(kind)
      PROVE  almFile' \in AlmRecord /\ Cardinality(almFile'.rebalances) <= MaxPerDay
  <2>. DEFINE R == IF kind = "rebalance" THEN Recent(almFile.rebalances) \cup {clock}
                                         ELSE almFile.rebalances
              c == IF kind = "compound" THEN clock ELSE almFile.compoundAt
  <2>1. /\ R \in SUBSET (0..MaxClock) /\ Cardinality(R) <= MaxPerDay /\ c \in Int
        /\ kind \in {"rebalance", "compound"}
    <3>1. kind = "rebalance" => R \subseteq 0..MaxClock /\ Cardinality(R) <= MaxPerDay
      BY <1>7, GateCounts DEF BeginCycle, CycleInv
    <3>. QED
      BY <1>1, <3>1, AlmAssumption DEF AlmRecord
  <2>2. almFile' = [almFile EXCEPT
          !.status = "active", !.kind = kind, !.phases = <<>>, !.result = 0,
          !.nft = almFile.managed, !.startedAt = clock, !.rebalances = R,
          !.compoundAt = c]
    BY <1>7 DEF BeginCycle
  <2>. HIDE DEF R, c
  <2>3. <<>> \in Seq(Plans) /\ clock \in Nat /\ "active" \in AlmStatuses
    BY <1>1 DEF AlmStatuses
  <2>. QED
    BY <1>1, <2>1, <2>2, <2>3 DEF AlmRecord
<1>. QED
  BY <1>2, <1>3, <1>4, <1>5, <1>6, <1>7, FileChanges

\* The owner of the state file goes from one step to the next, sending nothing.
Turns ==
  /\ almStep \in AlmSteps \ {"idle", "sending"}
  /\ almStep' \in AlmSteps \ {"idle", "sending"}
  /\ UNCHANGED <<almLock, almCommand, sendStep>>

LEMMA LocalKinds ==
  ASSUME [AlmNext]_almVars
  PROVE  \/ AlmEnd /\ UNCHANGED sendStep
         \/ Turns
         \/ UNCHANGED <<almLock, almLocals, sendStep>>
         \/ \E p \in SendProcs, c \in {"pass", "recover", "resolve"} : AlmAcquire(p, c)
         \/ SendBegins \/ PhaseGoesOn \/ RemoveLocks
         \/ \E p \in SendProcs, a \in Plans : OwnerCalls(p, a)
         \/ \E p \in SendProcs : OwnerGoesOn(p) \/ AlmCrash(p)
<1>. USE DEF sendVars, sendLocals
<1>1. CASE AlmHold \/ PhaseFails \/ CompleteCycle \/ ReconcileFails \/ SaveResolved
           \/ ResolveFails \/ (almStep = "send" /\ lockFile # NoOwner /\ AlmFails)
  BY <1>1 DEF AlmHold, PhaseFails, CompleteCycle, ReconcileFails, SaveResolved,
              ResolveFails, AlmFails
<1>2. CASE SkipPhase \/ RecordPhase \/ RecordMint \/ InspectPosition
           \/ \E kind \in CycleKinds : BeginCycle(kind)
  <2>1. Turns
    BY <1>2 DEF Turns, AlmSteps, SkipPhase, RecordPhase, RecordMint, InspectPosition,
                BeginCycle, AlmGo, almFiles
  <2>. QED
    BY <2>1
<1>3. CASE ReconcileEnds
  BY <1>3 DEF ReconcileEnds, Turns, AlmSteps
<1>4. CASE Repair \/ ClockTicks \/ UNCHANGED almVars
  BY <1>4 DEF Repair, ClockTicks, almVars, almFiles
<1>5. CASE JournalPhase \/ ReconcileLocks \/ ReconcileSaves \/ ResolveCycle
  <2>1. Turns
    BY <1>5 DEF Turns, AlmSteps, JournalPhase, ReconcileLocks, ReconcileSaves,
                ResolveCycle, AlmGo, almFiles
  <2>. QED
    BY <2>1
<1>6. ASSUME NEW a \in Plans, NEW i \in PlanSteps, AlmSettle(a, i)
      PROVE  UNCHANGED <<almLock, almLocals, sendStep>>
  BY <1>6 DEF AlmSettle, SettleTx, almFiles
<1>. QED
  BY <1>1, <1>2, <1>3, <1>4, <1>5, <1>6, AlmKinds DEF SendRests

LEMMA LocksTyped ==
  ASSUME CycleInv, [AlmNext]_almVars
  PROVE  /\ almLock' \in SendProcs \cup {NoOwner, Gone}
         /\ almStep' \in AlmSteps /\ almCommand' \in {"none", "pass", "recover", "resolve"}
         /\ (almStep # "idle" <=> almLock \in SendProcs)'
         /\ (almStep = "sending" <=> almLock \in SendProcs /\ sendStep[almLock] # "idle")'
<1>. DEFINE Goal ==
       /\ almLock' \in SendProcs \cup {NoOwner, Gone}
       /\ almStep' \in AlmSteps /\ almCommand' \in {"none", "pass", "recover", "resolve"}
       /\ almStep' # "idle" <=> almLock' \in SendProcs
       /\ almStep' = "sending" <=> almLock' \in SendProcs /\ sendStep'[almLock'] # "idle"
<1>1. /\ almLock \in SendProcs \cup {NoOwner, Gone}
      /\ almStep \in AlmSteps /\ almCommand \in {"none", "pass", "recover", "resolve"}
      /\ almStep # "idle" <=> almLock \in SendProcs
      /\ almStep = "sending" <=> almLock \in SendProcs /\ sendStep[almLock] # "idle"
      /\ SendTypeOK
  BY DEF CycleInv, Typed, SendCore
<1>2. CASE AlmEnd
  BY <1>2, SendAssumption DEF AlmEnd, AlmSteps
<1>3. CASE Turns
  BY <1>1, <1>3 DEF Turns
<1>4. CASE UNCHANGED <<almLock, almLocals, sendStep>>
  BY <1>1, <1>4 DEF almLocals
<1>5. ASSUME NEW p \in SendProcs, NEW c \in {"pass", "recover", "resolve"}, AlmAcquire(p, c)
      PROVE  Goal
  <2>1. /\ almLock' = p /\ sendStep[p] = "idle" /\ UNCHANGED sendStep /\ almCommand' = c
        /\ almStep' \in {"reconcile", "decide"}
    BY <1>5 DEF AlmAcquire, AlmGo, sendVars, sendLocals
  <2>. QED
    BY <2>1 DEF AlmSteps
<1>6. CASE SendBegins
  <2>1. /\ UNCHANGED <<almLock, almCommand>> /\ almStep' = "sending"
        /\ almLock \in SendProcs /\ sendStep'[almLock] = "check"
    BY <1>1, <1>6, TurnIsLocal DEF SendBegins, AlmGo, CallSend, TakeLockFile, almFiles
  <2>. QED
    BY <1>1, <2>1 DEF AlmSteps
<1>7. CASE PhaseGoesOn
  <2>1. almStep = "sending" /\ almLock \in SendProcs
    BY <1>1, <1>7 DEF PhaseGoesOn
  <2>2. CASE sendStep'[almLock] # "idle" /\ UNCHANGED <<almLock, almLocals>>
    BY <1>1, <2>1, <2>2 DEF almLocals
  <2>3. CASE /\ sendStep'[almLock] = "idle" /\ UNCHANGED <<almLock, almCommand>>
             /\ almStep' \in {"mint", "build"}
    BY <1>1, <2>1, <2>3 DEF AlmSteps
  <2>. QED
    BY <1>2, <1>7, <2>2, <2>3 DEF PhaseGoesOn
<1>8. CASE RemoveLocks
  <2>1. /\ UNCHANGED <<almStep, almCommand, sendStep>>
        /\ almLock' = IF almLock = Gone THEN NoOwner ELSE almLock
    BY <1>8 DEF RemoveLocks, almLocals, sendLocals
  <2>. QED
    BY <1>1, <2>1, SendAssumption
<1>9. ASSUME NEW p \in SendProcs, p # almLock, UNCHANGED <<almLock, almLocals>>,
             \A q \in SendProcs \ {p} : sendStep'[q] = sendStep[q]
      PROVE  Goal
  BY <1>1, <1>9 DEF almLocals
<1>10. ASSUME NEW p \in SendProcs, NEW a \in Plans, OwnerCalls(p, a) PROVE Goal
  <2>1. \A q \in SendProcs \ {p} : sendStep'[q] = sendStep[q]
    BY <1>1, <1>10, TurnIsLocal DEF OwnerCalls, CallSend, CallPlanCancel, TakeLockFile
  <2>. QED
    BY <1>9, <1>10, <2>1 DEF OwnerCalls, almFiles
<1>11. ASSUME NEW p \in SendProcs, OwnerGoesOn(p) PROVE Goal
  <2>1. \A q \in SendProcs \ {p} : sendStep'[q] = sendStep[q]
    BY <1>1, <1>11, StepIsLocal DEF OwnerGoesOn, WorksOn
  <2>. QED
    BY <1>9, <1>11, <2>1 DEF OwnerGoesOn, almFiles
<1>12. ASSUME NEW p \in SendProcs, AlmCrash(p) PROVE Goal
  <2>1. \A q \in SendProcs \ {p} : sendStep'[q] = sendStep[q]
    BY <1>1, <1>12, ForgetIsLocal DEF AlmCrash
  <2>2. CASE p = almLock
    BY <1>12, <2>2, SendAssumption DEF AlmCrash, AlmSteps
  <2>. QED
    BY <1>9, <1>12, <2>1, <2>2 DEF AlmCrash
<1>. QED
  BY <1>2, <1>3, <1>4, <1>5, <1>6, <1>7, <1>8, <1>10, <1>11, <1>12, LocalKinds

LEMMA WorldTyped ==
  ASSUME CycleInv, [AlmNext]_almVars
  PROVE  /\ funds' \in [place : Places, nft : Nat \ {0}] /\ almNft' \in Nat
         /\ clock' \in 0..MaxClock /\ planPhase' \in [Plans -> PhaseNames \cup {"none"}]
<1>1. /\ funds \in [place : Places, nft : Nat \ {0}] /\ almNft \in Nat
      /\ clock \in 0..MaxClock /\ planPhase \in [Plans -> PhaseNames \cup {"none"}]
  BY DEF CycleInv, Typed
<1>2. almNft' \in {almNft, 0, funds.nft}
  BY AlmKinds
  DEF SendRests, AlmAcquire, AlmHold, SkipPhase, PhaseFails, RecordPhase, RecordMint,
      CompleteCycle, ReconcileFails, ReconcileEnds, InspectPosition, SaveResolved,
      ResolveFails, BeginCycle, AlmFails, Repair, ClockTicks, almVars, SendBegins,
      PhaseGoesOn, JournalPhase, ReconcileLocks, ReconcileSaves, ResolveCycle, RemoveLocks,
      OwnerCalls, OwnerGoesOn, AlmCrash, AlmSettle, almLocals, AlmEnd
<1>3. CASE RecordPhase
  <2>1. PICK a \in Plans : /\ planPhase' = [planPhase EXCEPT ![a] = Head(almTodo)]
                           /\ Head(almTodo) \in PhaseNames
    BY <1>3, PhaseRecorded
  <2>2. UNCHANGED <<funds, clock, almNft>>
    BY <1>3 DEF RecordPhase
  <2>. QED
    BY <1>1, <2>1, <2>2
<1>4. ASSUME NEW a \in Plans, NEW i \in PlanSteps, AlmSettle(a, i)
      PROVE  funds' \in [place : Places, nft : Nat \ {0}] /\ UNCHANGED <<clock, planPhase>>
  <2>1. UNCHANGED funds \/ funds' = Effect(planPhase[a])
    BY <1>4 DEF AlmSettle
  <2>2. Effect(planPhase[a]) \in [place : Places, nft : Nat \ {0}]
    BY <1>1 DEF Effect, Places
  <2>. QED
    BY <1>1, <1>4, <2>1, <2>2 DEF AlmSettle
<1>5. ASSUME Repair
      PROVE  funds' \in [place : Places, nft : Nat \ {0}] /\ UNCHANGED <<clock, planPhase>>
  BY <1>1, <1>5 DEF Repair, Places
<1>6. ASSUME ClockTicks PROVE clock' \in 0..MaxClock /\ UNCHANGED <<funds, planPhase>>
  BY <1>1, <1>6, AlmAssumption DEF ClockTicks
<1>7. \/ UNCHANGED <<funds, clock, planPhase>> \/ RecordPhase \/ Repair \/ ClockTicks
      \/ \E a \in Plans, i \in PlanSteps : AlmSettle(a, i)
  BY AlmKinds
  DEF SendRests, AlmAcquire, AlmHold, SkipPhase, PhaseFails, RecordMint,
      CompleteCycle, ReconcileFails, ReconcileEnds, InspectPosition, SaveResolved,
      ResolveFails, BeginCycle, AlmFails, almVars, SendBegins,
      PhaseGoesOn, JournalPhase, ReconcileLocks, ReconcileSaves, ResolveCycle, RemoveLocks,
      OwnerCalls, OwnerGoesOn, AlmCrash, almWorld
<1>8. almNft' \in Nat
  BY <1>1, <1>2
<1>. QED
  BY <1>1, <1>3, <1>4, <1>5, <1>6, <1>7, <1>8

LEMMA TypedKeeps ==
  ASSUME CycleInv, [AlmNext]_almVars
  PROVE  Typed'
BY FileTyped, LocksTyped, WorldTyped DEF Typed

-----------------------------------------------------------------------------
(* The owner of the state file stays on track *)

LEMMA CycChanges ==
  ASSUME CycleInv, [AlmNext]_almVars
  PROVE  \/ almFile'.phases = almFile.phases /\ Cyc' = Cyc /\ Newest' = Newest
            /\ UNCHANGED planPhase
         \/ RecordPhase \/ \E kind \in CycleKinds : BeginCycle(kind)
<1>1. almFile'.phases = almFile.phases \/ RecordPhase \/ \E kind \in CycleKinds : BeginCycle(kind)
  BY FileChanges
  DEF RecordMint, CompleteCycle, SaveResolved, CycleInv, Typed, AlmRecord
<1>2. UNCHANGED planPhase \/ RecordPhase
  BY AlmKinds
  DEF SendRests, AlmAcquire, AlmHold, SkipPhase, PhaseFails, RecordMint,
      CompleteCycle, ReconcileFails, ReconcileEnds, InspectPosition, SaveResolved,
      ResolveFails, BeginCycle, AlmFails, Repair, ClockTicks, almVars, SendBegins,
      PhaseGoesOn, JournalPhase, ReconcileLocks, ReconcileSaves, ResolveCycle, RemoveLocks,
      OwnerCalls, OwnerGoesOn, AlmCrash, AlmSettle, almWorld
<1>. QED
  BY <1>1, <1>2 DEF Cyc, Newest

\* The new plan of RecordPhase.
LEMMA PhaseAdded ==
  ASSUME CycleInv, RecordPhase
  PROVE  \E a \in Plans :
           /\ Unused(a) /\ a \notin Cyc
           /\ Cyc' = Cyc \cup {a} /\ Newest' = a /\ almFile'.phases # <<>>
           /\ almFile'.status = almFile.status
           /\ Len(almFile'.phases) - 1 = Len(almFile.phases)
           /\ \A i \in 1..Len(almFile.phases) :
                almFile'.phases[i] = almFile.phases[i] /\ almFile.phases[i] \in Cyc
           /\ planPhase'[a] = Head(almTodo) /\ planPhase'[a] # "none"
           /\ \A b \in Plans \ {a} : planPhase'[b] = planPhase[b]
<1>1. PICK a \in Plans :
           /\ Unused(a) /\ almFile' = [almFile EXCEPT !.phases = Append(@, a)]
           /\ planPhase' = [planPhase EXCEPT ![a] = Head(almTodo)]
           /\ Head(almTodo) \in PhaseNames
  BY PhaseRecorded
<1>2. /\ almFile \in AlmRecord /\ planPhase \in [Plans -> PhaseNames \cup {"none"}]
      /\ \A b \in Cyc : planPhase[b] # "none"
      /\ almFile.phases \in Seq(Plans)
  BY DEF CycleInv, Typed, OnTrack, AlmRecord
<1>3. /\ almFile'.phases = Append(almFile.phases, a)
      /\ almFile'.status = almFile.status
  BY <1>1, <1>2 DEF AlmRecord
<1>4. /\ Append(almFile.phases, a) # <<>>
      /\ Len(Append(almFile.phases, a)) = Len(almFile.phases) + 1
      /\ Len(almFile.phases) \in Nat
      /\ \A i \in 1..Len(almFile.phases) : Append(almFile.phases, a)[i] = almFile.phases[i]
      /\ Last(Append(almFile.phases, a)) = a
      /\ Range(Append(almFile.phases, a)) = Range(almFile.phases) \cup {a}
  BY <1>2, AppendOf
<1>5. \A i \in 1..Len(almFile.phases) : almFile.phases[i] \in Cyc
  BY <1>2 DEF Cyc, Range
<1>6. a \notin Cyc
  BY <1>1, <1>2 DEF Unused
<1>7. /\ planPhase'[a] = Head(almTodo) /\ planPhase'[a] # "none"
      /\ \A b \in Plans \ {a} : planPhase'[b] = planPhase[b]
  BY <1>1, <1>2, PhasesKnown
<1>. QED
  BY <1>1, <1>3, <1>4, <1>5, <1>6, <1>7 DEF Cyc, Newest

LEMMA TrackKeeps ==
  ASSUME CycleInv, [AlmNext]_almVars
  PROVE  OnTrack'
<1>. DEFINE Same == /\ almFile'.phases = almFile.phases /\ Cyc' = Cyc
                    /\ Newest' = Newest /\ UNCHANGED planPhase
<1>1. OnTrack /\ almFile \in AlmRecord
  BY DEF CycleInv, Typed
<1>2. CASE SkipPhase
  <2>1. /\ almTodo' = Tail(almTodo) /\ almStep' = almStep /\ almFile' = almFile
        /\ almStep = "build" /\ almTodo \in Seq(PhaseNames) /\ almTodo # <<>>
        /\ Sound(almTodo) /\ UNCHANGED planPhase
    BY <1>1, <1>2 DEF SkipPhase, OnTrack, Working, almFiles, almWorld
  <2>2. almTodo' \in Seq(PhaseNames) /\ Sound(almTodo')
    BY <2>1, TailOf, SoundTail
  <2>. QED
    BY <1>1, <2>1, <2>2 DEF OnTrack, Working, AtPlans, Cyc
<1>3. CASE RecordPhase
  <2>1. /\ almStep = "build" /\ almStep' = "journal" /\ almTodo # <<>> /\ almTodo' = almTodo
        /\ almTodo \in Seq(PhaseNames) /\ Sound(almTodo) /\ almFile.status = "active"
    BY <1>1, <1>3 DEF RecordPhase, AlmGo, OnTrack, Working
  <2>2. /\ almFile'.status = "active" /\ almFile'.phases # <<>>
        /\ planPhase'[Newest'] = Head(almTodo)
        /\ \A a \in Cyc' : planPhase'[a] # "none"
    BY <1>1, <1>3, <2>1, PhaseAdded, CycPlans DEF OnTrack, CycleInv
  <2>. QED
    BY <2>1, <2>2 DEF OnTrack, Working, AtPlans
<1>4. ASSUME NEW kind \in CycleKinds, BeginCycle(kind) PROVE OnTrack'
  <2>1. /\ almStep' = "build" /\ almFile'.status = "active" /\ almFile'.phases = <<>>
        /\ almTodo' = IF kind = "rebalance" THEN RebalancePhases ELSE CompoundPhases
    BY <1>1, <1>4 DEF BeginCycle, AlmGo, AlmRecord
  <2>2. almTodo' \in Seq(PhaseNames) /\ Sound(almTodo')
    BY <2>1, PhasesKnown, RebalanceSound, CompoundSound
  <2>3. Cyc' = {}
    BY <2>1 DEF Cyc, Range
  <2>. QED
    BY <2>1, <2>2, <2>3 DEF OnTrack, Working, AtPlans
<1>5. CASE Same /\ almStep' = "idle"
  BY <1>1, <1>5 DEF OnTrack, Working, AtPlans
<1>6. CASE Same /\ (JournalPhase \/ SendBegins)
  BY <1>1, <1>6 DEF JournalPhase, SendBegins, AlmGo, almFiles, OnTrack, Working, AtPlans
<1>7. CASE Same /\ PhaseGoesOn
  <2>1. /\ almStep = "sending" /\ UNCHANGED almFile /\ almTodo \in Seq(PhaseNames)
        /\ Sound(almTodo) /\ almTodo # <<>> /\ almFile.status = "active"
    BY <1>1, <1>7 DEF PhaseGoesOn, OnTrack, Working, AtPlans
  <2>2. CASE UNCHANGED almLocals
    BY <1>1, <1>7, <2>1, <2>2 DEF almLocals, OnTrack, Working, AtPlans
  <2>3. CASE AlmEnd
    BY <1>5, <1>7, <2>3 DEF AlmEnd
  <2>4. CASE /\ almTodo' = Tail(almTodo)
             /\ almStep' = IF Head(almTodo) = "deposit" THEN "mint" ELSE "build"
    <3>1. /\ almTodo' \in Seq(PhaseNames) /\ Sound(almTodo')
          /\ Head(almTodo) = "deposit" => Gentle(almTodo')
      BY <2>1, <2>4, TailOf, SoundTail
    <3>2. almStep' \in {"mint", "build"} /\ (almStep' = "mint" => Gentle(almTodo'))
      BY <2>4, <3>1
    <3>. QED
      BY <1>1, <1>7, <2>1, <3>1, <3>2 DEF OnTrack, Working, AtPlans
  <2>. QED
    BY <1>7, <2>2, <2>3, <2>4 DEF PhaseGoesOn
<1>8. CASE Same /\ RecordMint
  <2>1. almFile'.status = almFile.status
    BY <1>1, <1>8 DEF RecordMint, AlmRecord
  <2>. QED
    BY <1>1, <1>8, <2>1 DEF RecordMint, AlmGo, OnTrack, Working, AtPlans
<1>9. ASSUME NEW p \in SendProcs, NEW c \in {"pass", "recover", "resolve"},
             AlmAcquire(p, c), Same
      PROVE  OnTrack'
  <2>1. /\ UNCHANGED almFile
        /\ \/ almStep' = "reconcile" /\ almTodo' = almFile.phases
           \/ almStep' = "decide" /\ almFile.status # "active"
    BY <1>9 DEF AlmAcquire, AlmGo
  <2>2. almFile.phases \in Seq(Plans)
    BY <1>1 DEF AlmRecord
  <2>. QED
    BY <1>1, <1>9, <2>1, <2>2 DEF OnTrack, Working, AtPlans
<1>10. CASE Same /\ (ReconcileLocks \/ InspectPosition \/ ResolveCycle)
  BY <1>1, <1>10
  DEF ReconcileLocks, InspectPosition, ResolveCycle, AlmGo, almFiles, OnTrack, Working, AtPlans
<1>11. CASE Same /\ ReconcileSaves
  <2>1. /\ almStep' = "reconcile" /\ almTodo' = Tail(almTodo)
        /\ almTodo \in Seq(Plans) /\ almTodo # <<>>
    BY <1>1, <1>11 DEF ReconcileSaves, AlmGo, OnTrack
  <2>2. almTodo' \in Seq(Plans)
    BY <2>1, TailOf
  <2>. QED
    BY <1>1, <1>11, <2>1, <2>2 DEF OnTrack, Working, AtPlans
<1>12. CASE Same /\ ReconcileEnds
  <2>1. almStep' \in {"inspect", "idle"}
    BY <1>12 DEF ReconcileEnds, AlmEnd
  <2>. QED
    BY <1>1, <1>12, <2>1 DEF OnTrack, Working, AtPlans
<1>13. CASE Same /\ UNCHANGED <<almFile, almLocals>>
  BY <1>1, <1>13 DEF almLocals, OnTrack, Working, AtPlans
<1>14. ASSUME NEW p \in SendProcs, AlmCrash(p)
       PROVE  almStep' = "idle" \/ UNCHANGED <<almFile, almLocals>>
  BY <1>14 DEF AlmCrash
<1>15. \/ almStep' = "idle" \/ UNCHANGED <<almFile, almLocals>>
       \/ SkipPhase \/ RecordPhase \/ \E kind \in CycleKinds : BeginCycle(kind)
       \/ JournalPhase \/ SendBegins \/ PhaseGoesOn \/ RecordMint
       \/ \E p \in SendProcs, c \in {"pass", "recover", "resolve"} : AlmAcquire(p, c)
       \/ ReconcileLocks \/ InspectPosition \/ ResolveCycle \/ ReconcileSaves
       \/ ReconcileEnds
  BY <1>14, AlmKinds
  DEF SendRests, AlmHold, PhaseFails, CompleteCycle, ReconcileFails, SaveResolved,
      ResolveFails, AlmFails, AlmEnd, Repair, ClockTicks, almVars, almFiles, RemoveLocks,
      OwnerCalls, OwnerGoesOn, AlmSettle
<1>. HIDE DEF Same
<1>16. Same \/ RecordPhase \/ \E kind \in CycleKinds : BeginCycle(kind)
  BY CycChanges DEF Same
<1>. QED
  BY <1>2, <1>3, <1>4, <1>5, <1>6, <1>7, <1>8, <1>9, <1>10, <1>11, <1>12, <1>13, <1>15, <1>16

-----------------------------------------------------------------------------
(* The processes that send *)

LEMMA RestSteps ==
  ASSUME SendRests, ~RecordPhase
  PROVE  /\ almStep = "sending" => UNCHANGED <<almStep, almLock>>
         /\ almStep' \in {"journal", "sending", "held"} => UNCHANGED <<almStep, almLock>>
         /\ almStep' = "send" => almStep = "send"
         /\ almLock' = almLock \/ almStep' = "idle" \/ almStep' \in {"reconcile", "decide"}
BY DEF SendRests, AlmAcquire, AlmHold, SkipPhase, PhaseFails, RecordMint, CompleteCycle,
       ReconcileFails, ReconcileEnds, InspectPosition, SaveResolved, ResolveFails,
       BeginCycle, AlmFails, AlmEnd, AlmGo, Repair, ClockTicks, almVars, almFiles, almLocals

\* Nothing of what the processes do changes.
LEMMA ProcsStay ==
  ASSUME Procs, Cyc' = Cyc, Newest' = Newest,
         UNCHANGED <<sendStep, sendPlanId, lockFile>>,
         almStep = "sending" => UNCHANGED <<almStep, almLock>>,
         almStep' \in {"journal", "sending", "held"} => UNCHANGED <<almStep, almLock>>
  PROVE  Procs'
BY DEF Procs

LEMMA OwnerKeepsProcs ==
  ASSUME CycleInv, Cyc' = Cyc, Newest' = Newest,
         NEW p \in SendProcs, OwnerGoesOn(p)
  PROVE  Procs'
<1>1. /\ WorksOn(p, sendPlanId[p]) /\ p # almLock /\ UNCHANGED <<almLock, almStep>>
      /\ Procs
  BY StepIsLocal DEF OwnerGoesOn, CycleInv, SendCore, almFiles, almLocals
<1>2. almStep # "held"
  BY <1>1, HeldIsIdle DEF WorksOn
<1>3. \A q \in SendProcs : sendStep'[q] # "idle" =>
        /\ sendStep[q] # "idle" /\ sendPlanId'[q] = sendPlanId[q]
        /\ sendStep'[q] = "cancel" \/ sendStep[q] # "cancel"
        /\ q # p => sendStep'[q] = sendStep[q]
  BY <1>1 DEF WorksOn
<1>4. almStep = "sending" => sendPlanId'[almLock] = sendPlanId[almLock]
  BY <1>1 DEF WorksOn, CycleInv, Typed
<1>. QED
  BY <1>1, <1>2, <1>3, <1>4 DEF Procs

LEMMA CallsKeepProcs ==
  ASSUME CycleInv, Cyc' = Cyc, Newest' = Newest,
         NEW p \in SendProcs, NEW a \in Plans, OwnerCalls(p, a)
  PROVE  Procs'
<1>1. /\ p # almLock /\ UNCHANGED <<almLock, almStep>> /\ Procs /\ lockFile = NoOwner
      /\ SendTypeOK
  BY DEF OwnerCalls, CallSend, CallPlanCancel, TakeLockFile, almFiles, almLocals, CycleInv,
         SendCore
<1>2. PICK step \in {"check", "cancel"} :
        /\ TakeLockFile(p, a, step)
        /\ step = "cancel" => journals[a].status # "none"
        /\ step = "check" => IF Unused(a) THEN a \in OwnPlans
                             ELSE journals[a].status # "none" /\ MayResume(a)
  BY DEF OwnerCalls, CallSend, CallPlanCancel
<1>3. /\ sendStep'[p] = step /\ sendPlanId'[p] = a
      /\ \A q \in SendProcs \ {p} :
           sendStep'[q] = sendStep[q] /\ sendPlanId'[q] = sendPlanId[q]
  BY <1>1, <1>2, TurnIsLocal DEF TakeLockFile, SendTypeOK
<1>4. step = "check" => a \notin Cyc
  BY <1>2 DEF MayResume, Unused, CycleInv, OnTrack, Cyc
<1>5. almStep = "journal" => a # Newest
  BY <1>2, <1>4, CycPlans DEF CycleInv, Files, OnTrack, AtPlans
<1>6. almStep # "held"
  BY <1>1, SendAssumption DEF Procs, CycleInv, Typed
<1>7. almStep = "sending" => almLock \in SendProcs
  BY DEF CycleInv, Typed
<1>. QED
  BY <1>1, <1>2, <1>3, <1>4, <1>5, <1>6, <1>7 DEF Procs

LEMMA PhaseKeepsProcs ==
  ASSUME CycleInv, Cyc' = Cyc, Newest' = Newest, PhaseGoesOn
  PROVE  Procs'
<1>1. /\ almLock \in SendProcs /\ WorksOn(almLock, sendPlanId[almLock]) /\ Procs
      /\ almStep = "sending"
  BY StepIsLocal DEF PhaseGoesOn, CycleInv, SendCore, Typed
<1>2. \A q \in SendProcs : sendStep'[q] # "idle" => q = almLock
  BY <1>1 DEF WorksOn, CycleInv, SendCore, Locked
<1>3. \/ UNCHANGED <<almLock, almStep>> /\ sendStep'[almLock] # "idle"
      \/ sendStep'[almLock] = "idle" /\ almStep' \in {"idle", "mint", "build"}
  BY DEF PhaseGoesOn, AlmEnd, almLocals
<1>. QED
  BY <1>1, <1>2, <1>3 DEF Procs, WorksOn

LEMMA CrashKeepsProcs ==
  ASSUME CycleInv, Cyc' = Cyc, Newest' = Newest, NEW p \in SendProcs, AlmCrash(p)
  PROVE  Procs'
<1>1. /\ sendStep'[p] = "idle" /\ Procs
      /\ \A q \in SendProcs \ {p} :
           sendStep'[q] = sendStep[q] /\ sendPlanId'[q] = sendPlanId[q]
  BY ForgetIsLocal DEF AlmCrash, CycleInv, SendCore
<1>2. CASE p = almLock
  <2>1. almStep' = "idle"
    BY <1>2 DEF AlmCrash
  <2>2. \A q \in SendProcs : sendStep'[q] # "idle" => q # almLock
    BY <1>1, <1>2
  <2>. QED
    BY <1>1, <2>1, <2>2 DEF Procs
<1>3. CASE p # almLock
  <2>1. /\ UNCHANGED <<almLock, almStep>>
        /\ lockFile' = IF lockFile = p THEN Gone ELSE lockFile
    BY <1>3 DEF AlmCrash, almLocals
  <2>2. almStep \in {"sending", "held"} => almLock \in SendProcs
    BY DEF CycleInv, Typed
  <2>. QED
    BY <1>1, <1>3, <2>1, <2>2 DEF Procs
<1>. QED
  BY <1>2, <1>3

LEMMA ProcsKeep ==
  ASSUME CycleInv, [AlmNext]_almVars
  PROVE  Procs'
<1>. DEFINE Same == Cyc' = Cyc /\ Newest' = Newest
<1>1. Procs
  BY DEF CycleInv
<1>2. CASE RecordPhase
  <2>1. PICK a \in Plans : Unused(a) /\ Cyc' = Cyc \cup {a} /\ Newest' = a
    BY <1>2, PhaseAdded
  <2>2. /\ UNCHANGED <<sendStep, sendPlanId>> /\ almStep = "build" /\ almStep' = "journal"
    BY <1>2 DEF RecordPhase, AlmGo, sendVars, sendLocals
  <2>. QED
    BY <1>1, <2>1, <2>2 DEF Procs, Unused
<1>3. ASSUME NEW kind \in CycleKinds, BeginCycle(kind) PROVE Procs'
  <2>1. almFile'.phases = <<>> /\ almStep' = "build"
    BY <1>3 DEF BeginCycle, AlmGo, CycleInv, Typed, AlmRecord
  <2>2. Cyc' = {}
    BY <2>1 DEF Cyc, Range
  <2>. QED
    BY <2>1, <2>2 DEF Procs
<1>4. CASE Same /\ SendRests /\ ~RecordPhase
  <2>1. UNCHANGED <<sendStep, sendPlanId, lockFile>>
    BY <1>4, RestsUnchanged DEF sendVars, sendLocals
  <2>. QED
    BY <1>1, <1>4, <2>1, RestSteps, ProcsStay
<1>5. CASE Same /\ SendBegins
  <2>1. /\ almStep = "send" /\ almStep' = "sending" /\ UNCHANGED almLock
        /\ almLock \in SendProcs /\ SendTypeOK
    BY <1>5 DEF SendBegins, AlmGo, almFiles, CycleInv, Typed, SendCore
  <2>2. /\ sendPlanId'[almLock] = Newest
        /\ \A q \in SendProcs \ {almLock} :
             sendStep'[q] = sendStep[q] /\ sendPlanId'[q] = sendPlanId[q]
    BY <1>5, <2>1, TurnIsLocal DEF SendBegins, CallSend, TakeLockFile, SendTypeOK
  <2>. QED
    BY <1>1, <1>5, <2>1, <2>2 DEF Procs
<1>6. CASE Same /\ (JournalPhase \/ ReconcileSaves \/ ResolveCycle)
  <2>1. /\ UNCHANGED <<sendStep, sendPlanId>> /\ almStep \in {"journal", "held", "resolve"}
        /\ almStep' \in {"send", "reconcile", "resolved"}
    BY <1>6 DEF JournalPhase, ReconcileSaves, ResolveCycle, AlmGo, sendLocals
  <2>. QED
    BY <1>1, <1>6, <2>1 DEF Procs
<1>7. CASE Same /\ ReconcileLocks
  <2>1. /\ UNCHANGED <<sendStep, sendPlanId, almLock>> /\ almStep = "reconcile"
        /\ almStep' = "held" /\ lockFile' = almLock
    BY <1>7 DEF ReconcileLocks, AlmGo, sendLocals, almFiles
  <2>. QED
    BY <1>1, <1>7, <2>1 DEF Procs
<1>8. CASE Same /\ RemoveLocks
  <2>1. /\ UNCHANGED <<sendStep, sendPlanId, almStep>>
        /\ almLock' = IF almLock = Gone THEN NoOwner ELSE almLock
        /\ lockFile' = IF lockFile = Gone THEN NoOwner ELSE lockFile
    BY <1>8 DEF RemoveLocks, sendLocals, almLocals
  <2>2. almStep \in {"sending", "held"} => almLock \in SendProcs
    BY DEF CycleInv, Typed
  <2>. QED
    BY <1>1, <1>8, <2>1, <2>2, SendAssumption DEF Procs
<1>9. ASSUME Same, NEW a \in Plans, NEW i \in PlanSteps, AlmSettle(a, i) PROVE Procs'
  <2>1. UNCHANGED <<sendStep, sendPlanId, lockFile, almStep, almLock>>
    BY <1>9 DEF AlmSettle, SettleTx, sendLocals, almFiles, almLocals
  <2>. QED
    BY <1>1, <1>9, <2>1, ProcsStay
<1>10. Same \/ RecordPhase \/ \E kind \in CycleKinds : BeginCycle(kind)
  BY CycChanges
<1>. QED
  BY <1>2, <1>3, <1>4, <1>5, <1>6, <1>7, <1>8, <1>9, <1>10, AlmKinds, OwnerKeepsProcs,
     CallsKeepProcs, PhaseKeepsProcs, CrashKeepsProcs

-----------------------------------------------------------------------------
(* The journals of the cycle *)

LEMMA MovedOn ==
  ASSUME PlansMoveOn, NEW a \in Plans
  PROVE  /\ journals'[a].status = "none" => journals'[a] = journals[a]
         /\ journals[a].status # "none" => journals'[a].status # "none"
         /\ journals[a].status = "complete" => journals'[a].status = "complete"
         /\ Over(a) => Over(a)'
BY DEF PlansMoveOn, MovesOn, Over

\* What is complete has succeeded, and what is not under way is not pending.
LEMMA CompleteOver ==
  ASSUME SendCore, NEW a \in Plans, journals[a].status = "complete"
  PROVE  Over(a)
BY DEF SendCore, FilesTrue, FileTrue, StepTrue, Over

LEMMA NotPending ==
  ASSUME SendCore, NEW a \in Plans, ~UnderWay(journals[a])
  PROVE  \A i \in PlanSteps : fate[a][i] # "pending"
<1>1. ASSUME NEW i \in PlanSteps PROVE fate[a][i] # "pending"
  <2>1. StepTrue(journals[a], fate[a], broadcasts[a], i)
    BY DEF SendCore, FilesTrue, FileTrue
  <2>2. journals[a].steps[i] \in StepStates
    BY DEF SendCore, SendTypeOK, Journal
  <2>. QED
    BY <2>1, <2>2 DEF StepTrue, UnderWay, StepStates
<1>. QED
  BY <1>1

LEMMA FilesStay ==
  ASSUME CycleInv, PlansMoveOn, UNCHANGED <<almFile, almStep, almTodo, planPhase>>,
         almStep = "journal" => journals'[Newest] = journals[Newest]
  PROVE  Files'
<1>1. /\ Cyc' = Cyc /\ Newest' = Newest /\ AtPlans' = AtPlans /\ Files
      /\ \A a \in Cyc : a \in Plans
      /\ AtPlans => Newest \in Plans
  BY CycPlans DEF Cyc, Newest, AtPlans, CycleInv, OnTrack
<1>2. \A i \in 1..(Len(almFile.phases) - 1) : almFile.phases[i] \in Plans
  BY CycPlans DEF CycleInv
<1>3. \A a \in Plans : journals'[a].status = "none" =>
        \A i \in PlanSteps : journals'[a].steps[i] = "ready"
  BY <1>1, MovedOn DEF Files
<1>4. /\ almStep' \in {"build", "mint"} => \A a \in Cyc' : journals'[a].status = "complete"
      /\ AtPlans' => \A i \in 1..(Len(almFile'.phases) - 1) :
                     journals'[almFile'.phases[i]].status = "complete"
  BY <1>1, <1>2, MovedOn DEF Files
<1>5. /\ almStep' = "journal" => journals'[Newest'].status = "none"
      /\ almStep' \in {"send", "sending"} => journals'[Newest'].status # "none"
  BY <1>1, MovedOn DEF Files, AtPlans
<1>6. /\ almStep' \in {"reconcile", "held"} =>
           \A a \in Cyc' : a \in Range(almTodo') \/ journals'[a].status # "none"
      /\ almStep' \in {"inspect", "resolve"} => \A a \in Cyc' : journals'[a].status # "none"
  BY <1>1, MovedOn DEF Files
<1>7. almStep' = "held" => journals'[Head(almTodo')].status # "none"
  <2>1. almStep = "held" => Head(almTodo) \in Plans
    BY TailOf DEF CycleInv, OnTrack
  <2>. QED
    BY <1>1, <2>1, MovedOn DEF Files
<1>8. /\ almStep' = "resolved" => \A a \in Cyc' : Over(a)'
      /\ \A a \in Plans : planPhase'[a] # "none" /\ (almFile'.status # "active" \/ a \notin Cyc')
           => Over(a)'
  BY <1>1, MovedOn DEF Files
<1>. QED
  BY <1>3, <1>4, <1>5, <1>6, <1>7, <1>8 DEF Files

\* What is left of Files when the owner of the state file goes on.
IsOnRecord == \A a \in Plans : journals[a].status = "none" =>
           \A i \in PlanSteps : journals[a].steps[i] = "ready"
Past == \A a \in Plans :
  planPhase[a] # "none" /\ (almFile.status # "active" \/ a \notin Cyc) => Over(a)

LEMMA KnownKeeps ==
  ASSUME CycleInv, PlansMoveOn
  PROVE  IsOnRecord'
BY MovedOn DEF IsOnRecord, CycleInv, Files

LEMMA PastStays ==
  ASSUME CycleInv, PlansMoveOn, Cyc' = Cyc, UNCHANGED planPhase,
         almFile'.status = almFile.status
  PROVE  Past'
BY MovedOn DEF Past, CycleInv, Files

\* The cycle is over.
LEMMA PastAfter ==
  ASSUME CycleInv, PlansMoveOn, Cyc' = Cyc, UNCHANGED planPhase,
         \A a \in Cyc : Over(a)
  PROVE  Past'
BY MovedOn DEF Past, CycleInv, Files

LEMMA PastKeeps ==
  ASSUME CycleInv, [AlmNext]_almVars
  PROVE  Past'
<1>. DEFINE Same == Cyc' = Cyc /\ UNCHANGED planPhase
<1>1. /\ PlansMoveOn /\ Files /\ SendCore /\ almFile \in AlmRecord /\ Cyc \subseteq Plans
  BY CoreKeeps, CycPlans DEF CycleInv, Typed
<1>2. CASE Same /\ almFile'.status = almFile.status
  BY <1>1, <1>2, PastStays
<1>3. CASE Same /\ (CompleteCycle \/ SaveResolved)
  <2>1. \A a \in Cyc : Over(a)
    BY <1>1, <1>3, CompleteOver DEF CompleteCycle, SaveResolved, Files
  <2>. QED
    BY <1>1, <1>3, <2>1, PastAfter
<1>4. CASE RecordPhase
  <2>1. PICK a \in Plans :
          /\ Cyc' = Cyc \cup {a} /\ almFile'.status = almFile.status
          /\ \A b \in Plans \ {a} : planPhase'[b] = planPhase[b]
    BY <1>4, PhaseAdded
  <2>2. almFile.status = "active"
    BY <1>4 DEF RecordPhase, AlmGo, CycleInv, OnTrack, Working
  <2>. QED
    BY <1>1, <2>1, <2>2, MovedOn DEF Past, Files
<1>5. ASSUME NEW kind \in CycleKinds, BeginCycle(kind) PROVE Past'
  <2>1. almFile.status # "active" /\ UNCHANGED planPhase
    BY <1>5 DEF BeginCycle, AlmGo, CycleInv, OnTrack, almWorld
  <2>. QED
    BY <1>1, <2>1, MovedOn DEF Past, Files
<1>6. CASE Same /\ (RecordMint \/ UNCHANGED almFile)
  BY <1>1, <1>2, <1>6 DEF RecordMint, AlmRecord
<1>7. Same \/ RecordPhase \/ \E kind \in CycleKinds : BeginCycle(kind)
  BY CycChanges
<1>. QED
  BY <1>3, <1>4, <1>5, <1>6, <1>7, FileChanges

LEMMA FilesKeep ==
  ASSUME CycleInv, [AlmNext]_almVars
  PROVE  Files'
<1>. DEFINE Same == /\ almFile'.phases = almFile.phases /\ Cyc' = Cyc
                    /\ Newest' = Newest
<1>1. /\ PlansMoveOn /\ SendCore /\ Cyc \subseteq Plans /\ Files /\ OnTrack
      /\ almFile.phases \in Seq(Plans) /\ (almFile.phases # <<>> => Newest \in Cyc)
  BY CoreKeeps, CycPlans DEF CycleInv
<1>2. IsOnRecord' /\ Past'
  BY <1>1, KnownKeeps, PastKeeps
<1>3. ASSUME almStep' \in {"idle", "decide"} PROVE Files'
  BY <1>2, <1>3 DEF IsOnRecord, Past, Files, AtPlans
<1>4. CASE SkipPhase
  BY <1>1, <1>2, <1>4, MovedOn
  DEF SkipPhase, IsOnRecord, Past, Files, AtPlans, Cyc, almFiles
<1>5. CASE RecordPhase
  <2>1. PICK a \in Plans :
           /\ Unused(a) /\ Newest' = a
           /\ Len(almFile'.phases) - 1 = Len(almFile.phases)
           /\ \A i \in 1..Len(almFile.phases) :
                almFile'.phases[i] = almFile.phases[i] /\ almFile.phases[i] \in Cyc
    BY <1>5, PhaseAdded
  <2>2. /\ almStep = "build" /\ almStep' = "journal" /\ UNCHANGED journals
    BY <1>5 DEF RecordPhase, AlmGo, sendVars
  <2>3. journals'[a].status = "none"
    BY <2>1, <2>2 DEF Unused
  <2>4. \A i \in 1..(Len(almFile'.phases) - 1) :
          journals'[almFile'.phases[i]].status = "complete"
    BY <1>1, <2>1, <2>2 DEF Files
  <2>. QED
    BY <1>2, <2>1, <2>2, <2>3, <2>4 DEF IsOnRecord, Past, Files, AtPlans
<1>6. ASSUME NEW kind \in CycleKinds, BeginCycle(kind) PROVE Files'
  <2>1. almStep' = "build" /\ almFile'.phases = <<>>
    BY <1>6 DEF BeginCycle, AlmGo, CycleInv, Typed, AlmRecord
  <2>2. Cyc' = {}
    BY <2>1 DEF Cyc, Range
  <2>. QED
    BY <1>2, <2>1, <2>2 DEF IsOnRecord, Past, Files, AtPlans
<1>7. CASE Same /\ JournalPhase
  <2>1. /\ almStep = "journal" /\ almStep' = "send" /\ UNCHANGED almFile
        /\ Newest \in Plans
    BY <1>1, <1>7 DEF JournalPhase, AlmGo, almFiles, OnTrack, AtPlans
  <2>2. journals'[Newest].status = "active"
    BY <1>1, <1>7, <2>1 DEF JournalPhase, Newest, SendCore, SendTypeOK, Journal
  <2>3. \A i \in 1..(Len(almFile.phases) - 1) : almFile.phases[i] \in Plans
    BY <1>1
  <2>. QED
    BY <1>1, <1>2, <1>7, <2>1, <2>2, <2>3, MovedOn DEF IsOnRecord, Past, Files, AtPlans
<1>8. CASE Same /\ SendBegins
  <2>1. /\ almStep = "send" /\ almStep' = "sending" /\ UNCHANGED <<almFile, journals>>
    BY <1>8 DEF SendBegins, AlmGo, almFiles, CallSend, TakeLockFile
  <2>. QED
    BY <1>1, <1>2, <1>8, <2>1 DEF IsOnRecord, Past, Files, AtPlans
<1>9. CASE Same /\ PhaseGoesOn
  <2>1. almStep = "sending" /\ UNCHANGED <<almFile, planPhase>>
    BY <1>9 DEF PhaseGoesOn, almWorld
  <2>2. CASE UNCHANGED almLocals
    BY <1>1, <2>1, <2>2, FilesStay DEF almLocals
  <2>3. CASE AlmEnd
    BY <1>3, <2>3 DEF AlmEnd
  <2>4. CASE journals'[Newest].status = "complete" /\ almStep' \in {"mint", "build"}
    <3>1. \A a \in Cyc : journals'[a].status = "complete"
      <4>1. SUFFICES ASSUME NEW i \in 1..Len(almFile.phases)
                     PROVE  journals'[almFile.phases[i]].status = "complete"
        BY <1>1 DEF Cyc, Range
      <4>2. CASE i = Len(almFile.phases)
        BY <1>1, <2>1, <2>4, <4>2, LastOf DEF OnTrack, AtPlans, Newest
      <4>3. CASE i # Len(almFile.phases)
        <5>1. i \in 1..(Len(almFile.phases) - 1) /\ almFile.phases[i] \in Plans
          BY <1>1, <4>3
        <5>. QED
          BY <1>1, <2>1, <5>1, MovedOn DEF Files, AtPlans
      <4>. QED
        BY <4>2, <4>3
    <3>. QED
      BY <1>2, <1>9, <2>4, <3>1 DEF IsOnRecord, Past, Files, AtPlans
  <2>. QED
    BY <1>9, <2>2, <2>3, <2>4 DEF PhaseGoesOn, Newest
<1>10. CASE Same /\ RecordMint
  BY <1>1, <1>2, <1>10, MovedOn
  DEF RecordMint, AlmGo, IsOnRecord, Past, Files, AtPlans
<1>11. ASSUME Same, NEW p \in SendProcs, NEW c \in {"pass", "recover", "resolve"},
              AlmAcquire(p, c)
       PROVE  Files'
  <2>1. almStep' = "decide" \/ (almStep' = "reconcile" /\ almTodo' = almFile.phases)
    BY <1>11 DEF AlmAcquire, AlmGo
  <2>. QED
    BY <1>2, <1>3, <1>11, <2>1 DEF IsOnRecord, Past, Files, AtPlans, Cyc
<1>12. CASE Same /\ ReconcileLocks
  <2>1. /\ almStep = "reconcile" /\ almStep' = "held" /\ UNCHANGED <<almTodo, journals>>
        /\ journals[Head(almTodo)].status # "none"
    BY <1>12 DEF ReconcileLocks, AlmGo
  <2>. QED
    BY <1>1, <1>2, <1>12, <2>1 DEF IsOnRecord, Past, Files, AtPlans
<1>13. CASE Same /\ ReconcileSaves
  <2>1. /\ almStep = "held" /\ almStep' = "reconcile" /\ almTodo' = Tail(almTodo)
        /\ almTodo \in Seq(Plans) /\ almTodo # <<>>
    BY <1>1, <1>13 DEF ReconcileSaves, AlmGo, OnTrack
  <2>2. \A a \in Range(almTodo) : a = Head(almTodo) \/ a \in Range(Tail(almTodo))
    <3>1. SUFFICES ASSUME NEW i \in 1..Len(almTodo), i # 1
                   PROVE  almTodo[i] \in Range(Tail(almTodo))
      BY <2>1, TailOf DEF Range
    <3>2. /\ i - 1 \in DOMAIN Tail(almTodo) /\ Tail(almTodo)[i - 1] = almTodo[i - 1 + 1]
          /\ i - 1 + 1 = i
      BY <2>1, <3>1, TailOf
    <3>. QED
      BY <3>2 DEF Range
  <2>3. \A a \in Cyc : a \in Range(almTodo') \/ journals'[a].status # "none"
    BY <1>1, <2>1, <2>2, MovedOn DEF Files
  <2>. QED
    BY <1>2, <1>13, <2>1, <2>3 DEF IsOnRecord, Past, Files, AtPlans
<1>14. CASE Same /\ ReconcileEnds
  <2>1. CASE almStep' = "inspect"
    <3>1. Range(almTodo) = {} /\ UNCHANGED journals /\ almStep = "reconcile"
      BY <1>14 DEF ReconcileEnds, sendVars, Range
    <3>. QED
      BY <1>1, <1>2, <1>14, <2>1, <3>1 DEF IsOnRecord, Past, Files, AtPlans
  <2>. QED
    BY <1>3, <1>14, <2>1 DEF ReconcileEnds, AlmEnd
<1>15. CASE Same /\ InspectPosition
  BY <1>1, <1>2, <1>15 DEF InspectPosition, AlmGo, sendVars, IsOnRecord, Past, Files, AtPlans
<1>16. CASE Same /\ ResolveCycle
  <2>1. /\ almStep = "resolve" /\ almStep' = "resolved" /\ UNCHANGED fate
        /\ \A a \in Cyc : ~UnderWay(journals[a])
    BY <1>16 DEF ResolveCycle, AlmGo, sendWorld, Cyc
  <2>2. ASSUME NEW a \in Cyc PROVE Over(a)'
    <3>1. journals[a] \in Journal /\ journals[a].status # "none"
      BY <1>1, <2>1 DEF Files, SendCore, SendTypeOK
    <3>2. journals'[a].status \notin {"none", "active"}
      <4>1. CASE journals[a].status = "active"
        <5>1. journals'[a] = [journals[a] EXCEPT !.status = "cancelled"]
          BY <1>1, <1>16, <4>1 DEF ResolveCycle, Cyc, IsActive
        <5>. QED
          BY <3>1, <5>1, StatusType
      <4>2. CASE journals[a].status # "active"
        <5>1. journals'[a] = journals[a]
          BY <1>1, <1>16, <4>2 DEF ResolveCycle, IsActive
        <5>. QED
          BY <3>1, <4>2, <5>1
      <4>. QED
        BY <4>1, <4>2
    <3>3. \A i \in PlanSteps : fate[a][i] # "pending"
      BY <1>1, <2>1, NotPending
    <3>. QED
      BY <2>1, <3>2, <3>3 DEF Over
  <2>. QED
    BY <1>2, <1>16, <2>1, <2>2 DEF IsOnRecord, Past, Files, AtPlans
<1>17. ASSUME UNCHANGED <<almFile, almStep, almTodo, planPhase>>,
              almStep = "journal" => journals'[Newest] = journals[Newest]
       PROVE  Files'
  BY <1>1, <1>17, FilesStay
<1>18. ASSUME NEW p \in SendProcs, OwnerGoesOn(p) PROVE Files'
  <2>1. /\ WorksOn(p, sendPlanId[p]) /\ UNCHANGED <<almFile, almStep, almTodo, planPhase>>
        /\ almStep = "journal" => Newest \in Plans
    BY <1>1, <1>18, StepIsLocal
    DEF OwnerGoesOn, SendCore, almFiles, almLocals, almWorld, OnTrack, AtPlans
  <2>2. almStep = "journal" => journals'[Newest] = journals[Newest]
    BY <2>1 DEF WorksOn, CycleInv, Procs
  <2>. QED
    BY <1>17, <2>1, <2>2
<1>19. ASSUME NEW p \in SendProcs, NEW a \in Plans, OwnerCalls(p, a) PROVE Files'
  <2>1. UNCHANGED <<almFile, almStep, almTodo, planPhase, journals>>
    BY <1>19 DEF OwnerCalls, CallSend, CallPlanCancel, TakeLockFile, almFiles, almLocals,
                 almWorld
  <2>. QED
    BY <1>17, <2>1
<1>20. ASSUME NEW a \in Plans, NEW i \in PlanSteps, AlmSettle(a, i) PROVE Files'
  <2>1. UNCHANGED <<almFile, almStep, almTodo, planPhase, journals>>
    BY <1>20 DEF AlmSettle, SettleTx, almFiles, almLocals
  <2>. QED
    BY <1>17, <2>1
<1>21. ASSUME NEW p \in SendProcs, AlmCrash(p) PROVE Files'
  <2>1. CASE p = almLock
    BY <1>3, <1>21, <2>1 DEF AlmCrash
  <2>2. CASE p # almLock
    <3>1. UNCHANGED <<almFile, almStep, almTodo, planPhase, journals>>
      BY <1>21, <2>2 DEF AlmCrash, almLocals, almWorld
    <3>. QED
      BY <1>17, <3>1
  <2>. QED
    BY <2>1, <2>2
<1>22. CASE RemoveLocks \/ Repair \/ ClockTicks \/ UNCHANGED almVars
  <2>1. UNCHANGED <<almFile, almStep, almTodo, planPhase, journals>>
    BY <1>22 DEF RemoveLocks, Repair, ClockTicks, almVars, sendVars, almFiles, almLocals,
                 almWorld
  <2>. QED
    BY <1>17, <2>1
<1>23. \/ almStep' = "idle" \/ SkipPhase \/ RecordPhase
       \/ \E kind \in CycleKinds : BeginCycle(kind)
       \/ JournalPhase \/ SendBegins \/ PhaseGoesOn \/ RecordMint
       \/ \E p \in SendProcs, c \in {"pass", "recover", "resolve"} : AlmAcquire(p, c)
       \/ ReconcileLocks \/ InspectPosition \/ ResolveCycle \/ ReconcileSaves
       \/ ReconcileEnds \/ RemoveLocks \/ Repair \/ ClockTicks \/ UNCHANGED almVars
       \/ \E p \in SendProcs, a \in Plans : OwnerCalls(p, a)
       \/ \E p \in SendProcs : OwnerGoesOn(p) \/ AlmCrash(p)
       \/ \E a \in Plans, i \in PlanSteps : AlmSettle(a, i)
  BY AlmKinds
  DEF SendRests, AlmHold, PhaseFails, CompleteCycle, ReconcileFails, SaveResolved,
      ResolveFails, AlmFails, AlmEnd
<1>. HIDE DEF Same
<1>24. Same \/ RecordPhase \/ \E kind \in CycleKinds : BeginCycle(kind)
  BY CycChanges DEF Same
<1>. QED
  BY <1>3, <1>4, <1>5, <1>6, <1>7, <1>8, <1>9, <1>10, <1>11, <1>12, <1>13, <1>14, <1>15,
     <1>16, <1>18, <1>19, <1>20, <1>21, <1>22, <1>23, <1>24

-----------------------------------------------------------------------------
(* The liquidity and the NFT on file *)

\* A transaction that moves the position is one of the phase being sent, or of
\* an interrupted cycle.
LEMMA SettleCases ==
  ASSUME CycleInv, NEW a \in Plans, NEW i \in PlanSteps, AlmSettle(a, i)
  PROVE  \/ UNCHANGED funds
         \/ /\ funds' = Effect(planPhase[a])
            /\ almFile.status = "active" /\ a \in Cyc /\ UnderWay(journals[a])
            /\ almStep \notin {"build", "mint", "resolved"}
            /\ AtPlans => planPhase[a] = Head(almTodo)
<1>1. /\ fate[a][i] = "pending" /\ SendCore /\ Files /\ OnTrack
      /\ almFile.phases \in Seq(Plans)
      /\ UNCHANGED funds \/ funds' = Effect(planPhase[a])
  BY CycPlans DEF AlmSettle, SettleTx, CycleInv
<1>2. CASE planPhase[a] = "none"
  <2>1. Effect(planPhase[a]) = funds
    BY <1>2 DEF Effect
  <2>. QED
    BY <1>1, <2>1
<1>3. CASE planPhase[a] # "none"
  <2>1. ~Over(a) /\ journals[a].status # "complete" /\ UnderWay(journals[a])
    BY <1>1, CompleteOver, NotPending DEF Over
  <2>2. almFile.status = "active" /\ a \in Cyc
    BY <1>1, <1>3, <2>1 DEF Files
  <2>3. almStep \notin {"build", "mint", "resolved"}
    BY <1>1, <2>1, <2>2 DEF Files
  <2>4. ASSUME AtPlans PROVE planPhase[a] = Head(almTodo)
    <3>1. PICK k \in 1..Len(almFile.phases) : a = almFile.phases[k]
      BY <1>1, <2>2 DEF Cyc, Range
    <3>2. k = Len(almFile.phases)
      BY <1>1, <2>1, <2>4, <3>1 DEF Files
    <3>3. a = Newest
      BY <1>1, <2>4, <3>1, <3>2, LastOf DEF OnTrack, Newest
    <3>. QED
      BY <1>1, <2>4, <3>3 DEF OnTrack
  <2>. QED
    BY <1>1, <2>1, <2>2, <2>3, <2>4
<1>. QED
  BY <1>2, <1>3

LEMMA GentleEffect ==
  ASSUME Typed, NEW phase, phase \notin Moving
  PROVE  /\ Effect(phase).nft = funds.nft
         /\ funds.place # "wallet" => Effect(phase).place # "wallet"
BY DEF Typed, Effect, Moving

LEMMA SettleFunded ==
  ASSUME CycleInv, NEW a \in Plans, NEW i \in PlanSteps, AlmSettle(a, i)
  PROVE  Funded'
<1>1. /\ UNCHANGED <<almFile, almStep, almTodo, almNft, journals>>
      /\ Funded /\ OnTrack /\ Typed
  BY DEF AlmSettle, SettleTx, almFiles, almLocals, CycleInv
<1>2. CASE UNCHANGED funds
  BY <1>1, <1>2 DEF Funded, TracksTheFunds, Working, Gentle, Tracked, ResultOf, PlaceOnFile, Cyc,
                    UnderWay
<1>3. CASE /\ funds' = Effect(planPhase[a])
           /\ almFile.status = "active" /\ a \in Cyc /\ UnderWay(journals[a])
           /\ almStep \notin {"build", "mint", "resolved"}
           /\ AtPlans => planPhase[a] = Head(almTodo)
  <2>1. ASSUME Working, Gentle(almTodo) PROVE Tracked'
    <3>1. AtPlans /\ almTodo \in Seq(PhaseNames) /\ almTodo # <<>> /\ Sound(almTodo)
      BY <1>1, <1>3, <2>1 DEF Working, AtPlans, OnTrack
    <3>2. planPhase[a] \notin Moving
      BY <1>3, <2>1, <3>1, SoundTail
    <3>3. Tracked
      BY <1>1, <1>3, <2>1 DEF Funded
    <3>. QED
      BY <1>1, <1>3, <3>2, <3>3, GentleEffect DEF Tracked, ResultOf
  <2>2. (\E b \in Cyc : UnderWay(journals[b]))'
    BY <1>1, <1>3 DEF Cyc, UnderWay
  <2>3. TracksTheFunds'
    BY <1>1, <1>3 DEF TracksTheFunds
  <2>4. Working' = Working /\ Gentle(almTodo)' = Gentle(almTodo)
    BY <1>1 DEF Working, Gentle
  <2>. QED
    BY <1>1, <1>3, <2>1, <2>2, <2>3, <2>4 DEF Funded
<1>. QED
  BY <1>2, <1>3, SettleCases

\* Nothing of what Funded is about changes, or less is known to be under way.
LEMMA FundedStays ==
  ASSUME CycleInv, UNCHANGED <<almFile, almStep, almTodo, almNft, funds>>,
         almStep = "resolve" =>
           \A a \in Cyc : UnderWay(journals[a]) => journals'[a] = journals[a]
  PROVE  Funded'
<1>1. /\ Funded /\ Cyc' = Cyc /\ Working' = Working /\ Gentle(almTodo)' = Gentle(almTodo)
      /\ Tracked' = Tracked /\ PlaceOnFile' = PlaceOnFile
  BY DEF CycleInv, Cyc, Working, Gentle, Tracked, ResultOf, PlaceOnFile
<1>2. TracksTheFunds'
  BY <1>1 DEF Funded, TracksTheFunds
<1>3. almStep = "resolve" =>
        ((\E a \in Cyc : UnderWay(journals[a])) => (\E a \in Cyc' : UnderWay(journals'[a])))
  BY <1>1
<1>. QED
  BY <1>1, <1>2, <1>3 DEF Funded

LEMMA FundedEnds ==
  ASSUME CycleInv, UNCHANGED <<almFile, funds>>,
         almStep' \in {"idle", "decide", "reconcile", "held", "inspect"}
  PROVE  Funded'
BY DEF CycleInv, Funded, TracksTheFunds, Working

LEMMA FundedKeeps ==
  ASSUME CycleInv, [AlmNext]_almVars
  PROVE  Funded'
<1>1. /\ Funded /\ OnTrack /\ Typed /\ almFile \in AlmRecord /\ SendCore
      /\ funds.nft \in Nat \ {0}
  BY DEF CycleInv, Typed
<1>2. CASE UNCHANGED <<almFile, funds>> /\ almStep' \in {"idle", "decide", "reconcile", "held", "inspect"}
  BY <1>2, FundedEnds
<1>3. CASE SkipPhase
  <2>1. /\ almStep = "build" /\ almStep' = "build" /\ UNCHANGED <<almFile, funds>>
        /\ almTodo' = Tail(almTodo) /\ almTodo \in Seq(PhaseNames) /\ almTodo # <<>>
        /\ Sound(almTodo) /\ Head(almTodo) \notin Moving
    BY <1>1, <1>3, AlmAssumption
    DEF SkipPhase, OnTrack, Working, Moving, almFiles, almWorld
  <2>2. Gentle(almTodo') => Gentle(almTodo)
    BY <2>1, SoundTail
  <2>3. Gentle(almTodo)' => Tracked'
    BY <1>1, <2>1, <2>2 DEF Funded, Working, Tracked, ResultOf, Gentle
  <2>4. TracksTheFunds'
    BY <1>1, <2>1 DEF Funded, TracksTheFunds
  <2>. QED
    BY <2>1, <2>3, <2>4 DEF Funded
<1>4. CASE RecordPhase
  <2>1. /\ almStep = "build" /\ almStep' = "journal" /\ UNCHANGED <<almTodo, funds>>
        /\ \E a \in Plans : almFile' = [almFile EXCEPT !.phases = Append(@, a)]
        /\ almFile.status = "active"
    BY <1>1, <1>4, PhaseRecorded DEF RecordPhase, AlmGo, OnTrack, Working
  <2>2. /\ almFile'.status = "active" /\ almFile'.result = almFile.result
        /\ almFile'.nft = almFile.nft
    BY <1>1, <2>1 DEF AlmRecord
  <2>. QED
    BY <1>1, <2>1, <2>2 DEF Funded, TracksTheFunds, Working, Gentle, Tracked, ResultOf
<1>5. ASSUME NEW kind \in CycleKinds, BeginCycle(kind) PROVE Funded'
  <2>1. /\ almFile'.status = "active" /\ almFile'.result = 0 /\ almFile'.nft = almFile.managed
        /\ almStep' = "build" /\ UNCHANGED funds /\ funds.place # "wallet"
        /\ funds.nft = almFile.managed
    BY <1>1, <1>5 DEF BeginCycle, AlmGo, AlmRecord, almWorld
  <2>. QED
    BY <2>1 DEF Funded, TracksTheFunds, Tracked, ResultOf
<1>6. CASE JournalPhase \/ SendBegins
  <2>1. /\ almStep \in {"journal", "send"} /\ almStep' \in {"send", "sending"}
        /\ UNCHANGED <<almFile, almTodo, funds>>
    BY <1>6 DEF JournalPhase, SendBegins, AlmGo, almFiles, almWorld
  <2>. QED
    BY <1>1, <2>1 DEF Funded, TracksTheFunds, Working, Gentle, Tracked, ResultOf
<1>7. CASE PhaseGoesOn
  <2>1. /\ almStep = "sending" /\ UNCHANGED <<almFile, funds>>
        /\ almTodo \in Seq(PhaseNames) /\ almTodo # <<>> /\ Sound(almTodo)
    BY <1>1, <1>7 DEF PhaseGoesOn, almWorld, OnTrack, Working, AtPlans
  <2>2. CASE UNCHANGED almLocals
    BY <2>1, <2>2, FundedStays DEF almLocals
  <2>3. CASE AlmEnd
    BY <2>1, <2>3, FundedEnds DEF AlmEnd
  <2>4. CASE /\ almTodo' = Tail(almTodo)
             /\ almStep' = IF Head(almTodo) = "deposit" THEN "mint" ELSE "build"
    <3>1. almStep' = "build" /\ Gentle(almTodo') => Gentle(almTodo)
      BY <2>1, <2>4, SoundTail DEF Moving
    <3>2. almStep' = "build" /\ Gentle(almTodo') => Tracked
      BY <1>1, <2>1, <3>1 DEF Funded, Working
    <3>3. Tracked' = Tracked /\ TracksTheFunds'
      BY <1>1, <2>1 DEF Funded, TracksTheFunds, Tracked, ResultOf
    <3>4. almStep' \in {"mint", "build"} /\ (Gentle(almTodo))' = Gentle(almTodo')
      BY <2>4 DEF Gentle
    <3>. QED
      BY <3>2, <3>3, <3>4 DEF Funded, Working
  <2>. QED
    BY <1>7, <2>2, <2>3, <2>4 DEF PhaseGoesOn
<1>8. CASE RecordMint
  <2>1. /\ almStep = "mint" /\ almStep' = "build" /\ UNCHANGED funds /\ funds.place = "held"
        /\ almFile'.result = funds.nft /\ almFile'.status = almFile.status
        /\ almFile.status = "active"
    BY <1>1, <1>8 DEF RecordMint, AlmGo, AlmRecord, OnTrack, Working, almWorld
  <2>. QED
    BY <1>1, <2>1 DEF Funded, TracksTheFunds, Tracked, ResultOf
<1>9. CASE CompleteCycle
  <2>1. /\ almStep = "build" /\ almTodo = <<>> /\ almStep' = "idle" /\ UNCHANGED funds
        /\ almFile'.managed = ResultOf(almFile)
    BY <1>1, <1>9 DEF CompleteCycle, AlmEnd, AlmRecord, almWorld
  <2>2. Tracked
    BY <1>1, <2>1 DEF Funded, Working, Gentle
  <2>. QED
    BY <2>1, <2>2 DEF Funded, TracksTheFunds, Tracked, Working
<1>10. CASE SaveResolved
  <2>1. /\ almStep = "resolved" /\ almStep' = "idle" /\ UNCHANGED funds
        /\ almFile'.managed = almNft
    BY <1>1, <1>10 DEF SaveResolved, AlmEnd, AlmRecord, almWorld
  <2>. QED
    BY <1>1, <2>1 DEF Funded, TracksTheFunds, PlaceOnFile, Working
<1>11. CASE InspectPosition
  BY <1>1, <1>11
  DEF InspectPosition, AlmGo, almFiles, almWorld, Funded, TracksTheFunds, PlaceOnFile, Working
<1>12. CASE ResolveCycle
  <2>1. /\ almStep = "resolve" /\ almStep' = "resolved" /\ UNCHANGED <<almFile, funds, almNft>>
        /\ \A a \in Cyc : ~UnderWay(journals[a])
    BY <1>12 DEF ResolveCycle, AlmGo, almFiles, almWorld, Cyc
  <2>. QED
    BY <1>1, <2>1 DEF Funded, TracksTheFunds, PlaceOnFile, Working
<1>13. CASE Repair
  <2>1. almStep = "idle" /\ almStep' = "idle" /\ almFile'.status = "active"
    BY <1>1, <1>13, SendAssumption DEF Repair, almFiles, almLocals, Typed
  <2>. QED
    BY <2>1 DEF Funded, TracksTheFunds, Working
<1>14. ASSUME NEW p \in SendProcs, OwnerGoesOn(p) PROVE Funded'
  <2>1. /\ UNCHANGED <<almFile, almStep, almTodo, almNft, funds>> /\ SendProcStep(p)
        /\ p # almLock /\ WorksOn(p, sendPlanId[p])
    BY <1>1, <1>14, StepIsLocal DEF OwnerGoesOn, almFiles, almLocals, almWorld, SendCore
  <2>2. ASSUME NEW a \in Cyc, UnderWay(journals[a]) PROVE journals'[a] = journals[a]
    <3>1. CASE a = sendPlanId[p]
      <4>1. sendStep[p] = "cancel"
        BY <2>1, <3>1 DEF WorksOn, CycleInv, Procs
      <4>. QED
        BY <1>1, <2>1, <2>2, <3>1, <4>1, CancelSpares
    <3>2. CASE a # sendPlanId[p]
      BY <1>1, <2>1, <3>2, CycPlans DEF WorksOn
    <3>. QED
      BY <3>1, <3>2
  <2>. QED
    BY <2>1, <2>2, FundedStays
<1>15. ASSUME UNCHANGED <<almFile, almStep, almTodo, almNft, funds, journals>> PROVE Funded'
  BY <1>15, FundedStays
<1>16. ASSUME NEW p \in SendProcs, NEW a \in Plans, OwnerCalls(p, a) PROVE Funded'
  <2>1. UNCHANGED <<almFile, almStep, almTodo, almNft, funds, journals>>
    BY <1>16 DEF OwnerCalls, CallSend, CallPlanCancel, TakeLockFile, almFiles, almLocals,
                 almWorld
  <2>. QED
    BY <1>15, <2>1
<1>17. ASSUME NEW p \in SendProcs, AlmCrash(p) PROVE Funded'
  <2>1. CASE p = almLock
    BY <1>2, <1>17, <2>1 DEF AlmCrash, almWorld
  <2>2. CASE p # almLock
    <3>1. UNCHANGED <<almFile, almStep, almTodo, almNft, funds, journals>>
      BY <1>17, <2>2 DEF AlmCrash, almLocals, almWorld
    <3>. QED
      BY <1>15, <3>1
  <2>. QED
    BY <2>1, <2>2
<1>18. CASE RemoveLocks \/ ClockTicks \/ UNCHANGED almVars
  <2>1. UNCHANGED <<almFile, almStep, almTodo, almNft, funds, journals>>
    BY <1>18 DEF RemoveLocks, ClockTicks, almVars, sendVars, almFiles, almLocals, almWorld
  <2>. QED
    BY <1>15, <2>1
<1>19. ASSUME \/ AlmHold \/ PhaseFails \/ ReconcileFails \/ ResolveFails \/ ReconcileEnds
              \/ (almStep = "send" /\ lockFile # NoOwner /\ AlmFails)
              \/ \E p \in SendProcs, c \in {"pass", "recover", "resolve"} : AlmAcquire(p, c)
              \/ ReconcileLocks \/ ReconcileSaves
       PROVE  Funded'
  BY <1>2, <1>19
  DEF AlmHold, PhaseFails, ReconcileFails, ResolveFails, ReconcileEnds, AlmFails, AlmEnd,
      AlmAcquire, AlmGo, ReconcileLocks, ReconcileSaves, almFiles, almWorld
<1>. QED
  BY <1>3, <1>4, <1>5, <1>6, <1>7, <1>8, <1>9, <1>10, <1>11, <1>12, <1>13, <1>14, <1>16,
     <1>17, <1>18, <1>19, SettleFunded, AlmKinds
  DEF SendRests

-----------------------------------------------------------------------------
(* The cap on rebalances *)

\* The rebalances that have sent anything, against the times on file: what is
\* less than a day old is on file, and one cycle counts once.
InFlight == almFile.status = "active" /\ almFile.kind = "rebalance"

Counted ==
  /\ begun \subseteq Nat \X Plans
  /\ \A c \in begun : c[1] <= clock /\ (clock - c[1] < Day => c[1] \in almFile.rebalances)
  /\ \A c, d \in begun : c[1] = d[1] => c = d
  /\ InFlight => almFile.startedAt <= clock /\ almFile.startedAt \in almFile.rebalances
  /\ InFlight => \A c \in begun :
       /\ c[1] <= almFile.startedAt
       /\ almFile.startedAt - c[1] < Day => c[1] \in almFile.rebalances
       /\ c[1] = almFile.startedAt => almFile.phases # <<>> /\ c[2] = Head(almFile.phases)

LEMMA CountedStays ==
  ASSUME Counted, Typed, UNCHANGED <<begun, clock>>,
         almFile'.rebalances = almFile.rebalances,
         InFlight' => /\ InFlight /\ almFile'.startedAt = almFile.startedAt
                      /\ almFile.phases # <<>> =>
                           /\ almFile'.phases # <<>>
                           /\ Head(almFile'.phases) = Head(almFile.phases)
  PROVE  Counted'
BY DEF Counted

LEMMA CountedBegin ==
  ASSUME Counted, Typed, NEW kind \in CycleKinds, BeginCycle(kind)
  PROVE  Counted'
<1>. DEFINE R == IF kind = "rebalance" THEN Recent(almFile.rebalances) \cup {clock}
                                       ELSE almFile.rebalances
<1>1. /\ almFile \in AlmRecord /\ clock \in Nat /\ UNCHANGED <<begun, clock>>
      /\ GateAllows(kind)
  BY AlmAssumption DEF Typed, BeginCycle, almWorld
<1>2. /\ almFile'.rebalances = R /\ almFile'.startedAt = clock /\ almFile'.kind = kind
  BY <1>1 DEF BeginCycle, AlmRecord
<1>3. \A c \in begun : c[1] \in Nat /\ c[1] <= clock
  BY DEF Counted
<1>4. \A c \in begun : clock - c[1] < Day => c[1] \in R
  BY DEF Counted, Recent
<1>5. ASSUME kind = "rebalance", NEW c \in begun PROVE c[1] # clock
  <2>1. SUFFICES ASSUME c[1] = clock PROVE FALSE
    OBVIOUS
  <2>2. clock - clock < Day /\ ~(clock - clock >= Cooldown)
    BY <1>1, AlmAssumption
  <2>3. clock \in Recent(almFile.rebalances)
    BY <2>1, <2>2 DEF Counted, Recent
  <2>. QED
    BY <1>1, <1>5, <2>2, <2>3 DEF GateAllows
<1>6. kind = "rebalance" => clock \in R
  OBVIOUS
<1>. HIDE DEF R
<1>7. InFlight' => kind = "rebalance"
  BY <1>2 DEF InFlight
<1>8. InFlight' => almFile'.startedAt <= clock' /\ almFile'.startedAt \in almFile'.rebalances
  BY <1>1, <1>2, <1>6, <1>7
<1>9. InFlight' => \A c \in begun' :
       /\ c[1] <= almFile'.startedAt
       /\ almFile'.startedAt - c[1] < Day => c[1] \in almFile'.rebalances
       /\ c[1] # almFile'.startedAt
  BY <1>1, <1>2, <1>3, <1>4, <1>5, <1>7
<1>. QED
  BY <1>1, <1>2, <1>3, <1>4, <1>8, <1>9 DEF Counted

LEMMA CountedTick ==
  ASSUME Counted, Typed, ClockTicks
  PROVE  Counted'
<1>1. /\ clock \in Nat /\ clock' = clock + 1 /\ UNCHANGED <<almFile, begun>> /\ Day \in Nat
      /\ almFile.startedAt \in Nat
  BY AlmAssumption DEF ClockTicks, Typed, AlmRecord, almFiles
<1>2. \A c \in begun : /\ c[1] \in Nat /\ c[1] <= clock
                       /\ clock - c[1] < Day => c[1] \in almFile.rebalances
  BY DEF Counted
<1>3. \A c \in begun : /\ c[1] <= clock + 1
                       /\ clock + 1 - c[1] < Day => c[1] \in almFile.rebalances
  BY <1>1, <1>2
<1>. QED
  BY <1>1, <1>3 DEF Counted, InFlight

LEMMA BegunChanges ==
  ASSUME [AlmNext]_almVars
  PROVE  UNCHANGED <<begun, clock>> \/ SendBegins \/ ClockTicks
BY AlmKinds
DEF SendRests, AlmAcquire, AlmHold, SkipPhase, PhaseFails, RecordPhase, RecordMint,
    CompleteCycle, ReconcileFails, ReconcileEnds, InspectPosition, SaveResolved,
    ResolveFails, BeginCycle, AlmFails, Repair, almVars,
    PhaseGoesOn, JournalPhase, ReconcileLocks, ReconcileSaves, ResolveCycle, RemoveLocks,
    OwnerCalls, OwnerGoesOn, AlmCrash, AlmSettle, almWorld

\* The cycle that is sent for the first time is the latest and on file.
LEMMA SendCounted ==
  ASSUME CycleInv, Counted, SendBegins
  PROVE  Counted'
<1>. DEFINE c0 == <<almFile.startedAt, Head(almFile.phases)>>
<1>1. /\ UNCHANGED <<almFile, clock>> /\ almFile.status = "active" /\ almFile.phases # <<>>
      /\ almFile \in AlmRecord /\ almFile.startedAt \in Nat
      /\ almFile.phases \in Seq(Plans) /\ Head(almFile.phases) \in Plans
      /\ clock \in Nat /\ Day \in Nat
  BY AlmAssumption, TailOf
  DEF SendBegins, AlmGo, almFiles, CycleInv, OnTrack, Working, AtPlans, Typed, AlmRecord
<1>2. CASE UNCHANGED begun
  BY <1>1, <1>2, CountedStays DEF CycleInv, InFlight
<1>3. CASE almFile.kind = "rebalance" /\ begun' = begun \cup {c0}
  <2>1. InFlight /\ InFlight'
    BY <1>1, <1>3 DEF InFlight
  <2>2. /\ c0 \in Nat \X Plans /\ c0[1] = almFile.startedAt
        /\ c0[2] = Head(almFile.phases)
    BY <1>1
  <2>. HIDE DEF c0
  <2>3. \A c \in begun : c[1] = c0[1] => c = c0
    <3>1. ASSUME NEW c \in begun, c[1] = c0[1] PROVE c = c0
      <4>1. c[2] = c0[2] /\ c \in Nat \X Plans
        BY <2>1, <2>2, <3>1 DEF Counted
      <4>. QED
        BY <2>2, <3>1, <4>1
    <3>. QED
      BY <3>1
  <2>4. c0[1] <= clock /\ c0[1] \in almFile.rebalances
    BY <2>1, <2>2 DEF Counted
  <2>5. begun' \subseteq Nat \X Plans
    BY <1>3, <2>2 DEF Counted
  <2>6. \A c \in begun' : c[1] <= clock /\ (clock - c[1] < Day => c[1] \in almFile.rebalances)
    BY <1>3, <2>4 DEF Counted
  <2>7. \A c, d \in begun' : c[1] = d[1] => c = d
    BY <1>3, <2>3 DEF Counted
  <2>8. \A c \in begun' :
       /\ c[1] <= almFile.startedAt
       /\ almFile.startedAt - c[1] < Day => c[1] \in almFile.rebalances
       /\ c[1] = almFile.startedAt => almFile.phases # <<>> /\ c[2] = Head(almFile.phases)
    BY <1>1, <1>3, <2>1, <2>2, <2>4 DEF Counted
  <2>9. almFile.startedAt <= clock /\ almFile.startedAt \in almFile.rebalances
    BY <2>1 DEF Counted
  <2>. QED
    BY <1>1, <2>5, <2>6, <2>7, <2>8, <2>9 DEF Counted
<1>. QED
  BY <1>2, <1>3 DEF SendBegins

LEMMA CountedKeeps ==
  ASSUME CycleInv, Counted, [AlmNext]_almVars
  PROVE  Counted'
<1>1. Typed /\ almFile \in AlmRecord
  BY DEF CycleInv, Typed
<1>2. CASE UNCHANGED <<almFile, begun, clock>>
  BY <1>1, <1>2, CountedStays DEF InFlight
<1>3. CASE RecordPhase /\ UNCHANGED <<begun, clock>>
  <2>1. PICK a \in Plans : almFile' = [almFile EXCEPT !.phases = Append(@, a)]
    BY <1>3, PhaseRecorded
  <2>2. /\ almFile'.rebalances = almFile.rebalances /\ almFile'.kind = almFile.kind
        /\ almFile'.status = almFile.status /\ almFile'.startedAt = almFile.startedAt
        /\ almFile'.phases = Append(almFile.phases, a) /\ almFile.phases \in Seq(Plans)
    BY <1>1, <2>1 DEF AlmRecord
  <2>3. almFile.phases # <<>> => /\ almFile'.phases # <<>>
                                 /\ Head(almFile'.phases) = Head(almFile.phases)
    BY <2>2
  <2>. QED
    BY <1>1, <1>3, <2>2, <2>3, CountedStays DEF InFlight
<1>4. CASE (RecordMint \/ CompleteCycle \/ SaveResolved) /\ UNCHANGED <<begun, clock>>
  <2>1. /\ almFile'.rebalances = almFile.rebalances /\ almFile'.kind = almFile.kind
        /\ almFile'.startedAt = almFile.startedAt /\ almFile'.phases = almFile.phases
        /\ almFile'.status = almFile.status \/ almFile'.status # "active"
    BY <1>1, <1>4 DEF RecordMint, CompleteCycle, SaveResolved, AlmRecord
  <2>. QED
    BY <1>1, <1>4, <2>1, CountedStays DEF InFlight
<1>5. SendBegins \/ ClockTicks => UNCHANGED almFile
  BY DEF SendBegins, ClockTicks, almFiles
<1>. QED
  BY <1>1, <1>2, <1>3, <1>4, <1>5, FileChanges, BegunChanges, CountedBegin, CountedTick,
     SendCounted

DayWindow == {d \in begun : d[1] <= almFile.startedAt /\ almFile.startedAt - d[1] < Day}

\* As many rebalances as there are times on file.
LEMMA WindowCounted ==
  ASSUME Counted, Typed, InFlight
  PROVE  Cardinality(DayWindow) <= MaxPerDay
<1>. DEFINE R == almFile.rebalances
            S == DayWindow
            at == [d \in S |-> d[1]]
<1>1. IsFiniteSet(0..MaxClock) /\ R \in SUBSET (0..MaxClock)
  <2>1. IsFiniteSet(0..MaxClock)
    BY AlmAssumption, FS_Interval
  <2>2. R \in SUBSET (0..MaxClock)
    BY DEF Typed, AlmRecord
  <2>. QED
    BY <2>1, <2>2
<1>2. IsFiniteSet(R) /\ Cardinality(R) \in Nat /\ Cardinality(R) <= MaxPerDay
      /\ MaxPerDay \in Nat
  BY <1>1, AlmAssumption, FS_Subset, FS_CardinalityType DEF Typed
<1>3. at \in [S -> R]
  BY DEF Counted, DayWindow
<1>4. ASSUME NEW c \in S, NEW d \in S, at[c] = at[d] PROVE c = d
  BY <1>4 DEF Counted, DayWindow
<1>. HIDE DEF at, R, S
<1>5. at \in Injection(S, R)
  BY <1>3, <1>4 DEF Injection, IsInjective
<1>6. IsFiniteSet(S) /\ Cardinality(S) <= Cardinality(R)
  BY <1>2, <1>5, FS_Injection
<1>7. Cardinality(S) \in Nat
  BY <1>6, FS_CardinalityType
<1>. QED
  BY <1>2, <1>6, <1>7 DEF S

LEMMA CapKeeps ==
  ASSUME CycleInv, Counted, CapHolds, [AlmNext]_almVars
  PROVE  CapHolds'
<1>. DEFINE W(t) == {d \in begun : d[1] <= t /\ t - d[1] < Day}
            W1(t) == {d \in begun' : d[1] <= t /\ t - d[1] < Day}
<1>1. Counted' /\ Typed'
  BY CountedKeeps, TypedKeeps
<1>2. CASE UNCHANGED begun
  BY <1>2 DEF CapHolds
<1>3. CASE SendBegins /\ begun' # begun
  <2>. DEFINE c0 == <<almFile.startedAt, Head(almFile.phases)>>
  <2>1. /\ UNCHANGED <<almFile, clock>> /\ almFile.status = "active" /\ almFile.phases # <<>>
        /\ almFile \in AlmRecord /\ almFile.startedAt \in Nat /\ Typed
        /\ almFile.kind = "rebalance" /\ begun' = begun \cup {c0} /\ Day \in Nat
    BY <1>3, AlmAssumption
    DEF SendBegins, AlmGo, almFiles, CycleInv, OnTrack, Working, AtPlans, Typed, AlmRecord
  <2>2. InFlight /\ InFlight'
    BY <2>1 DEF InFlight
  <2>3. ASSUME NEW c \in begun PROVE c[1] \in Nat /\ c[1] < almFile.startedAt
    <3>1. c \in Nat \X Plans /\ c[1] <= almFile.startedAt
          /\ (c[1] = almFile.startedAt => c[2] = Head(almFile.phases))
      BY <2>2 DEF Counted
    <3>2. c # c0
      BY <1>3, <2>1
    <3>3. c[1] # almFile.startedAt
      BY <3>1, <3>2
    <3>. QED
      BY <2>1, <3>1, <3>3
  <2>4. ASSUME NEW c \in begun PROVE Cardinality(W1(c[1])) <= MaxPerDay
    <3>1. c0[1] = almFile.startedAt /\ c[1] \in Nat /\ ~(c0[1] <= c[1])
      BY <2>1, <2>3
    <3>2. W1(c[1]) = W(c[1])
      BY <2>1, <3>1
    <3>3. Cardinality(W(c[1])) <= MaxPerDay
      BY DEF CapHolds
    <3>. HIDE DEF W, W1
    <3>. QED
      BY <3>2, <3>3
  <2>5. Cardinality(W1(almFile.startedAt)) <= MaxPerDay
    <3>1. Counted' /\ Typed' /\ InFlight' => (Cardinality(DayWindow) <= MaxPerDay)'
      BY WindowCounted, PTL
    <3>2. (Cardinality(DayWindow) <= MaxPerDay)'
      BY <1>1, <2>2, <3>1
    <3>. QED
      BY <2>1, <3>2 DEF DayWindow
  <2>6. ASSUME NEW c \in begun' PROVE Cardinality(W1(c[1])) <= MaxPerDay
    <3>1. c \in begun \/ c[1] = almFile.startedAt
      BY <2>1, <2>6
    <3>2. \A t, u : t = u => W1(t) = W1(u)
      OBVIOUS
    <3>. HIDE DEF W1
    <3>. QED
      BY <2>4, <2>5, <3>1, <3>2
  <2>. QED
    BY <2>6 DEF CapHolds
<1>4. CASE ClockTicks
  BY <1>4 DEF CapHolds, ClockTicks
<1>. QED
  BY <1>2, <1>3, <1>4, BegunChanges

-----------------------------------------------------------------------------
(* The theorems *)

CycleHolds == CycleInv /\ Counted /\ CapHolds

LEMMA CycleInit == AlmInit => CycleHolds
<1>. SUFFICES ASSUME AlmInit PROVE CycleHolds
  OBVIOUS
<1>1. SendCore
  BY InvInit DEF AlmInit, SendInv
<1>2. NoCycle \in AlmRecord
  BY AlmAssumption DEF NoCycle, AlmRecord, AlmStatuses
<1>3. Cardinality(NoCycle.rebalances) = 0 /\ MaxPerDay \in Nat /\ MaxClock \in Nat
  BY AlmAssumption, FS_EmptySet DEF NoCycle
<1>4. Typed
  <2>1. almLock \notin SendProcs /\ almStep = "idle" /\ almStep \in AlmSteps
    BY SendAssumption DEF AlmInit, AlmSteps
  <2>. QED
    BY <1>2, <1>3, <2>1 DEF AlmInit, Typed, Places
<1>5. Cyc = {}
  BY DEF AlmInit, Cyc, NoCycle, Range
<1>6. OnTrack
  BY <1>5 DEF AlmInit, OnTrack, Working, AtPlans
<1>7. Files
  BY <1>5 DEF AlmInit, Files, Working, AtPlans, SendInit, NewJournal
<1>8. Procs
  BY <1>5 DEF AlmInit, Procs
<1>9. Funded
  BY DEF AlmInit, Funded, TracksTheFunds, Working, NoCycle
<1>10. Counted /\ CapHolds
  BY DEF AlmInit, Counted, CapHolds, InFlight, NoCycle
<1>. QED
  BY <1>1, <1>4, <1>6, <1>7, <1>8, <1>9, <1>10 DEF CycleHolds, CycleInv

LEMMA CycleStep == CycleHolds /\ [AlmNext]_almVars => CycleHolds'
BY CoreKeeps, TypedKeeps, TrackKeeps, FilesKeep, ProcsKeep, FundedKeeps, CountedKeeps, CapKeeps
DEF CycleHolds, CycleInv

LEMMA CycleAlways == AlmSpec => []CycleHolds
BY CycleInit, CycleStep, PTL DEF AlmSpec

\* The entry of the position, the lock of the state file, what its owner is at,
\* and the journals of sendPlan under it stay well formed; the file never counts
\* more rebalances a day than maxRebalancesPerDay (engine.ts, state.ts).
THEOREM AlmTypeCorrect == AlmSpec => []AlmTypeOK
<1>1. CycleHolds => AlmTypeOK
  BY DEF CycleHolds, CycleInv, SendCore, Typed, AlmRecord, AlmTypeOK
<1>. QED
  BY <1>1, CycleAlways, PTL

\* When no cycle is open the position on file is the NFT that has the liquidity,
\* and the liquidity is not left in the wallet: through interrupted phases,
\* plans the owner cancels or resumes, crashes, and alm recover and alm resolve.
THEOREM FundsAreTracked == AlmSpec => []TracksTheFunds
<1>1. CycleHolds => TracksTheFunds
  BY DEF CycleHolds, CycleInv, Funded
<1>. QED
  BY <1>1, CycleAlways, PTL

\* A cycle that is not active has no plan that is still active or unknown and no
\* transaction that can still be included, and in no rolling day do more than
\* maxRebalancesPerDay rebalances send anything (packages/sugar/README.md:335-337,
\* checkRebalanceGate in engine.ts, resolveCycle in recovery.ts).
THEOREM CyclesAreSound == AlmSpec => []CycleIsSound
<1>1. CycleHolds => CycleIsSound
  BY DEF CycleHolds, CycleInv, Files, Over, CycleIsSound, CycleIsSettled
<1>. QED
  BY <1>1, CycleAlways, PTL


-----------------------------------------------------------------------------
(***************************************************************************)
(* stocks/trading.ts: weights and baskets are sums over the stocks, which  *)
(* DataLemmas is about.                                                    *)
(***************************************************************************)

\* A sum of StockIndex is one of DataLemmas.
LEMMA SumsAre == \A f, S : SumOf(f, S) = SumOver(f, S)
BY DEF SumOf, SumOver

-----------------------------------------------------------------------------
(* The invariant of the indices, the editor and the basket *)

\* Weights of 100% in all
FullWeights == {w \in Weights : TotalWeight(w) = Whole}
SellRecord == [amount : Nat, quote : Nat, least : Nat]
EditorRecord == [open : BOOLEAN, name : Names \cup {NoIndex}, weights : Weights, original : Weights]

\* A basket sells what is held; the contribution and the least of its sales pay for what it buys.
BasketIsRight(b) ==
  /\ DOMAIN b.sells \in SUBSET Stocks
  /\ \A s \in DOMAIN b.sells :
       /\ b.sells[s] \in SellRecord /\ b.sells[s].amount <= held[s]
       /\ b.sells[s].least <= b.sells[s].quote /\ b.buys[s] \in Nat
  /\ b.contribution \in Nat /\ spare + b.contribution = cash
  /\ SumOf(b.buys, DOMAIN b.sells)
       <= b.contribution + SumOf([s \in DOMAIN b.sells |-> b.sells[s].least], DOMAIN b.sells)

StockInv ==
  /\ indices \in [Names -> {NoIndex} \cup [of : FullWeights]]
  /\ editor \in EditorRecord /\ (~editor.open => editor = NoEditor)
  /\ held \in [Stocks -> 0..MaxHeld] /\ cash \in Nat /\ spare \in Nat /\ spare <= cash
  /\ basket # NoPlan => BasketIsRight(basket)

\* Any set of stocks is finite.
LEMMA StocksAreFinite == ASSUME NEW S \in SUBSET Stocks PROVE IsFiniteSet(S)
BY IndexAssumption, FS_Subset

\* What it is to be weights, without the union.
LEMMA WeightsAre ==
  ASSUME NEW w
  PROVE  /\ w \in Weights => DOMAIN w \in SUBSET Stocks /\ w \in [DOMAIN w -> 0..Whole]
         /\ \A S \in SUBSET Stocks : w \in [S -> 0..Whole] => w \in Weights
BY DEF Weights

\* Weights add up to a natural.
LEMMA WeightTotal == ASSUME NEW w \in Weights PROVE TotalWeight(w) \in Nat
<1>1. DOMAIN w \in SUBSET Stocks /\ w \in [DOMAIN w -> 0..Whole] BY WeightsAre
<1>2. IsFiniteSet(DOMAIN w) BY <1>1, StocksAreFinite
<1>3. \A s \in DOMAIN w : w[s] \in Nat BY <1>1
<1> QED BY <1>2, <1>3, SumGrows, SumsAre DEF TotalWeight

\* Whatever key is pressed, weights stay weights: each between nothing and the whole.
LEMMA EditsStay ==
  ASSUME NEW w \in Weights, NEW s \in Stocks
  PROVE  /\ Toggled(w, s) \in Weights /\ Filled(w, s) \in Weights
         /\ \A by \in {Nudge, -Nudge} : Nudged(w, s, by) \in Weights
         /\ \A v \in 0..Whole : With(w, s, v) \in Weights
         /\ \A e \in [DOMAIN w -> 0..Whole] : e \in Weights
<1>1. DOMAIN w \in SUBSET Stocks /\ w \in [DOMAIN w -> 0..Whole] BY WeightsAre
<1>2. Whole \in Nat /\ Nudge \in 0..Whole BY IndexAssumption
<1>3. \A v \in Int : Clipped(v) \in 0..Whole BY <1>2 DEF Clipped
<1>4. ASSUME NEW v \in 0..Whole PROVE With(w, s, v) \in Weights
  <2>1. DOMAIN w \cup {s} \in SUBSET Stocks BY <1>1
  <2>2. With(w, s, v) \in [DOMAIN w \cup {s} -> 0..Whole] BY <1>1, <1>4 DEF With
  <2> QED BY <2>1, <2>2, WeightsAre
<1>5. WeightOf(w, s) \in 0..Whole BY <1>1, <1>2 DEF WeightOf
<1>6. TotalWeight(w) \in Nat BY WeightTotal
<1>7. Filled(w, s) \in Weights
  <2>1. Whole - (TotalWeight(w) - WeightOf(w, s)) \in Int BY <1>2, <1>5, <1>6
  <2> QED BY <1>3, <1>4, <2>1 DEF Filled
<1>8. ASSUME NEW by \in {Nudge, -Nudge} PROVE Nudged(w, s, by) \in Weights
  <2>1. WeightOf(w, s) + by \in Int BY <1>2, <1>5, <1>8
  <2> QED BY <1>3, <1>4, <2>1 DEF Nudged
<1>9. Toggled(w, s) \in Weights
  <2>1. CASE s \in DOMAIN w
    <3>1. DOMAIN w \ {s} \in SUBSET Stocks BY <1>1
    <3>2. Toggled(w, s) \in [DOMAIN w \ {s} -> 0..Whole] BY <1>1, <2>1 DEF Toggled
    <3> QED BY <3>1, <3>2, WeightsAre
  <2>2. CASE s \notin DOMAIN w BY <1>2, <1>4, <2>2 DEF Toggled
  <2> QED BY <2>1, <2>2
<1>10. \A e \in [DOMAIN w -> 0..Whole] : e \in Weights BY <1>1, WeightsAre
<1> QED BY <1>4, <1>7, <1>8, <1>9, <1>10

\* indexAllocations keeps weights weights.
LEMMA RetainedStay ==
  ASSUME NEW w \in Weights, NEW o \in Weights PROVE Retained(w, o) \in Weights
<1>1. DOMAIN w \in SUBSET Stocks /\ w \in [DOMAIN w -> 0..Whole] BY WeightsAre
<1>2. DOMAIN o \in SUBSET Stocks BY WeightsAre
<1>3. Whole \in Nat BY IndexAssumption
<1>4. DOMAIN w \cup DOMAIN o \in SUBSET Stocks BY <1>1, <1>2
<1>5. Retained(w, o) \in [DOMAIN w \cup DOMAIN o -> 0..Whole] BY <1>1, <1>3 DEF Retained, WeightOf
<1> QED BY <1>4, <1>5, WeightsAre

\* An empty index and a closed editor are well formed.
LEMMA NothingWeighs == NoWeights \in Weights /\ NoEditor \in EditorRecord
<1>1. NoWeights \in [{} -> 0..Whole] BY DEF NoWeights
<1>2. NoWeights \in Weights BY <1>1, WeightsAre
<1> QED BY <1>2 DEF NoEditor, EditorRecord

\* The least of a sale, though rounded up, is no more than its quote.
LEMMA SaleYields ==
  ASSUME NEW out \in Nat, NEW slippage \in Slippages
  PROVE  AtLeast(out, slippage) \in Nat /\ AtLeast(out, slippage) <= out
<1> DEFINE kept == SlippageUnit - slippage
           p == out * kept
           r == p + SlippageUnit - 1
           q == r \div SlippageUnit
<1>1. slippage \in 0..SlippageUnit /\ SlippageUnit \in Nat \ {0} BY IndexAssumption
<1>2. kept \in Nat /\ kept <= SlippageUnit BY <1>1
<1> HIDE DEF kept
<1>3. p \in Nat /\ p <= out * SlippageUnit BY <1>1, <1>2
<1> HIDE DEF p
<1>4. r \in Nat /\ r < out * SlippageUnit + SlippageUnit BY <1>1, <1>3
<1>5. AtLeast(out, slippage) = q BY DEF AtLeast, kept, p
<1> HIDE DEF r
<1>6. q \in Nat /\ q * SlippageUnit <= r BY <1>1, <1>4
<1> HIDE DEF q
<1>7. out * SlippageUnit + SlippageUnit = (out + 1) * SlippageUnit BY <1>1
<1>8. q * SlippageUnit < (out + 1) * SlippageUnit BY <1>1, <1>4, <1>6, <1>7
<1>9. q < out + 1 BY <1>1, <1>6, <1>8
<1> QED BY <1>5, <1>6, <1>9

\* Selling a holding down to its target never sells more than there is.
LEMMA SoldIsHeld ==
  ASSUME NEW units \in Nat, NEW worth \in Nat, NEW aim \in Nat, worth > aim
  PROVE  LET q == (units * (worth - aim)) \div worth IN q \in Nat /\ q <= units
<1> DEFINE over == worth - aim
           p == units * over
           q == p \div worth
<1>1. worth \in Nat \ {0} /\ over \in Nat /\ over <= worth OBVIOUS
<1> HIDE DEF over
<1>2. p \in Nat /\ p <= units * worth BY <1>1
<1> HIDE DEF p
<1>3. q \in Nat /\ q * worth <= p BY <1>1, <1>2
<1> HIDE DEF q
<1>4. q * worth <= units * worth BY <1>1, <1>2, <1>3
<1>5. q <= units BY <1>1, <1>3, <1>4
<1> QED BY <1>3, <1>5 DEF q, p, over

Sale(s, b) ==
  /\ b.sells[s] \in SellRecord /\ b.sells[s].amount <= held[s]
  /\ b.sells[s].least <= b.sells[s].quote /\ b.buys[s] \in Nat

\* What rebalanceIndex plans sells what is held and spends no more than the
\* contribution and the least of its sales.
LEMMA RebalancedIsRight ==
  ASSUME held \in [Stocks -> 0..MaxHeld], NEW w \in Weights, NEW price \in [Stocks -> Prices],
         NEW contribution \in Nat, NEW slippage \in Slippages
  PROVE  LET b == Rebalanced(w, price, contribution, slippage) IN
         /\ DOMAIN b.sells = DOMAIN w /\ b.contribution = contribution
         /\ \A s \in DOMAIN w : Sale(s, b)
         /\ SumOf(b.buys, DOMAIN w)
              <= contribution + SumOf([s \in DOMAIN w |-> b.sells[s].least], DOMAIN w)
<1> DEFINE S == DOMAIN w
           value == [s \in S |-> held[s] * price[s]]
           total == contribution + SumOf(value, S)
           target == [s \in S |-> (total * w[s]) \div Whole]
           sold == [s \in S |-> IF value[s] > target[s]
                           THEN (held[s] * (value[s] - target[s])) \div value[s] ELSE 0]
           counted == [s \in S |-> CountedOn(sold[s] * price[s], slippage)]
           budget == contribution + SumOf(counted, S)
           deficit == [s \in S |-> IF target[s] > value[s] THEN target[s] - value[s] ELSE 0]
           needed == SumOf(deficit, S)
           spend == IF budget < needed THEN budget ELSE needed
           sells == [s \in S |-> [amount |-> sold[s], quote |-> sold[s] * price[s],
                              least |-> AtLeast(sold[s] * price[s], slippage)]]
           buys == [s \in S |-> IF needed = 0 THEN 0 ELSE (spend * deficit[s]) \div needed]
           b == Rebalanced(w, price, contribution, slippage)
<1>1. S \in SUBSET Stocks /\ w \in [S -> 0..Whole] BY WeightsAre
<1>2. IsFiniteSet(S) BY <1>1, StocksAreFinite
<1>3. /\ Whole \in Nat \ {0} /\ MaxHeld \in Nat
      /\ \A s \in S : price[s] \in Nat /\ held[s] \in Nat /\ w[s] \in Nat
  BY <1>1, IndexAssumption
<1>4. b = [sells |-> sells, buys |-> buys, contribution |-> contribution, total |-> total]
  BY DEF Rebalanced
<1> HIDE DEF S, b, buys, sells
<1>5. \A s \in S : value[s] \in Nat BY <1>3
<1> HIDE DEF value
<1>6. total \in Nat BY <1>2, <1>5, SumGrows, SumsAre
<1> HIDE DEF total
<1>7. ASSUME NEW s \in S PROVE target[s] \in Nat
  <2> DEFINE share == total * w[s]
  <2>1. share \in Nat BY <1>3, <1>6
  <2> HIDE DEF share
  <2>2. share \div Whole \in Nat BY <1>3, <2>1
  <2> QED BY <2>2 DEF share
<1>8. ASSUME NEW s \in S PROVE sold[s] \in Nat /\ sold[s] <= held[s]
  <2>1. target[s] \in Nat /\ value[s] \in Nat /\ held[s] \in Nat BY <1>3, <1>5, <1>7
  <2> HIDE DEF target
  <2>2. CASE value[s] > target[s] BY <2>1, <2>2, SoldIsHeld
  <2>3. CASE ~(value[s] > target[s]) BY <2>1, <2>3
  <2> QED BY <2>2, <2>3
<1>9. \A s \in S : deficit[s] \in Nat BY <1>5, <1>7
<1> HIDE DEF target, sold, deficit
<1>10. ASSUME NEW s \in S
       PROVE  /\ sold[s] * price[s] \in Nat
              /\ AtLeast(sold[s] * price[s], slippage) \in Nat
              /\ AtLeast(sold[s] * price[s], slippage) <= sold[s] * price[s]
  <2>1. sold[s] * price[s] \in Nat BY <1>3, <1>8
  <2> QED BY <2>1, SaleYields
<1>11. counted = [s \in S |-> AtLeast(sold[s] * price[s], slippage)] BY DEF CountedOn
<1>12. \A s \in S : counted[s] \in Nat BY <1>10, <1>11
<1>13. budget \in Nat
  <2> HIDE DEF counted
  <2>1. SumOf(counted, S) \in Nat BY <1>2, <1>12, SumGrows, SumsAre
  <2> QED BY <2>1
<1>14. needed \in Nat BY <1>2, <1>9, SumGrows, SumsAre
<1> HIDE DEF budget, needed
<1>15. spend \in Nat /\ spend <= budget BY <1>13, <1>14
<1> HIDE DEF spend
<1>16. /\ \A s \in S : buys[s] \in Nat
       /\ SumOf(buys, S) \in Nat /\ SumOf(buys, S) <= spend
  <2>1. CASE needed = 0
    <3>1. \A s \in S : buys[s] = 0 BY <2>1 DEF buys
    <3>2. SumOf(buys, S) = 0 BY <1>2, <3>1, NoneAddUp, SumsAre
    <3> QED BY <1>15, <3>1, <3>2
  <2>2. CASE needed # 0
    <3>1. needed \in Nat \ {0} /\ needed = SumOf(deficit, S) BY <1>14, <2>2 DEF needed
    <3>2. \A s \in S : buys[s] = (spend * deficit[s]) \div needed BY <2>2 DEF buys
    <3>3. SumOf(buys, S) \in Nat /\ SumOf(buys, S) <= spend
      BY <1>2, <1>9, <1>15, <3>1, <3>2, SharesAddUpToLess, SumsAre
    <3>4. ASSUME NEW s \in S PROVE buys[s] \in Nat
      <4> DEFINE share == spend * deficit[s]
      <4>1. share \in Nat BY <1>9, <1>15
      <4> HIDE DEF share
      <4>2. share \div needed \in Nat BY <3>1, <4>1
      <4> QED BY <3>2, <4>2 DEF share
    <3> QED BY <3>3, <3>4
  <2> QED BY <2>1, <2>2
<1>17. ASSUME NEW s \in S PROVE Sale(s, b)
  <2>1. b.sells[s] = [amount |-> sold[s], quote |-> sold[s] * price[s],
                      least |-> AtLeast(sold[s] * price[s], slippage)] BY <1>4 DEF sells
  <2>2. b.buys[s] \in Nat BY <1>4, <1>16
  <2> QED BY <1>8, <1>10, <2>1, <2>2 DEF Sale, SellRecord
<1>18. [s \in S |-> b.sells[s].least] = counted
  <2>1. \A s \in S : b.sells[s].least = AtLeast(sold[s] * price[s], slippage) BY <1>4 DEF sells
  <2> QED BY <1>11, <2>1
<1>19. SumOf(b.buys, S) <= contribution + SumOf([s \in S |-> b.sells[s].least], S)
  BY <1>4, <1>13, <1>15, <1>16, <1>18 DEF budget
<1>20. DOMAIN b.sells = S /\ b.contribution = contribution BY <1>4 DEF sells
<1> QED BY <1>17, <1>19, <1>20 DEF S, b


\* The invariant holds before anything is done.
LEMMA InvStarts == IndexInit => StockInv
<1> SUFFICES ASSUME IndexInit PROVE StockInv OBVIOUS
<1>1. cash \in Nat /\ spare = 0
  <2>1. MaxCash \in Nat BY IndexAssumption
  <2> QED BY <2>1 DEF IndexInit
<1>2. indices \in [Names -> {NoIndex} \cup [of : FullWeights]] BY DEF IndexInit
<1> QED BY <1>1, <1>2, NothingWeighs DEF IndexInit, StockInv

EditorRight == editor \in EditorRecord /\ (~editor.open => editor = NoEditor)

\* Each step keeps the invariant: the editor
LEMMA OpenEditorStays == StockInv /\ OpenEditor => StockInv'
<1> SUFFICES ASSUME StockInv, OpenEditor PROVE StockInv' OBVIOUS
<1>1. UNCHANGED <<indices, held, cash, basket, spare>> BY DEF OpenEditor
<1>2. EditorRight'
  <2> PICK n \in Names :
        LET was == IF indices[n] = NoIndex THEN NoWeights ELSE indices[n].of IN
        editor' = [open |-> TRUE, name |-> n, weights |-> was, original |-> was] BY DEF OpenEditor
  <2> DEFINE was == IF indices[n] = NoIndex THEN NoWeights ELSE indices[n].of
  <2>1. was \in Weights BY NothingWeighs DEF StockInv, FullWeights
  <2> HIDE DEF was
  <2>2. editor' = [open |-> TRUE, name |-> n, weights |-> was, original |-> was] BY DEF was
  <2> QED BY <2>1, <2>2 DEF EditorRight, EditorRecord
<1> QED BY <1>1, <1>2 DEF StockInv, BasketIsRight, EditorRight

\* A key of the editor
LEMMA EditStays == StockInv /\ EditWeight => StockInv'
<1> SUFFICES ASSUME StockInv, EditWeight PROVE StockInv' OBVIOUS
<1>1. UNCHANGED <<indices, held, cash, basket, spare>> BY DEF EditWeight
<1>2. editor.open /\ editor \in EditorRecord BY DEF EditWeight, StockInv
<1> DEFINE w == editor.weights
<1>3. w \in Weights BY <1>2 DEF EditorRecord
<1>4. \E v \in Weights : editor' = [editor EXCEPT !.weights = v]
  <2> PICK s \in Stocks :
       \/ editor' = [editor EXCEPT !.weights = Toggled(@, s)]
       \/ \E by \in {Nudge, -Nudge} : editor' = [editor EXCEPT !.weights = Nudged(@, s, by)]
       \/ editor' = [editor EXCEPT !.weights = Filled(@, s)]
       \/ \E v \in 0..Whole : editor' = [editor EXCEPT !.weights = With(@, s, v)]
       \/ /\ Included(editor.weights) # {}
          /\ \E e \in [DOMAIN editor.weights -> 0..Whole] :
               IsEqualSplit(editor.weights, e) /\ editor' = [editor EXCEPT !.weights = e]
    BY DEF EditWeight
  <2>1. /\ Toggled(w, s) \in Weights /\ Filled(w, s) \in Weights
        /\ \A by \in {Nudge, -Nudge} : Nudged(w, s, by) \in Weights
        /\ \A v \in 0..Whole : With(w, s, v) \in Weights
        /\ \A e \in [DOMAIN w -> 0..Whole] : e \in Weights
    BY <1>3, EditsStay
  <2> QED BY <2>1
<1>5. EditorRight' BY <1>2, <1>4 DEF EditorRight, EditorRecord
<1> QED BY <1>1, <1>5 DEF StockInv, BasketIsRight, EditorRight

\* saveIndex files nothing but weights of 100%.
LEMMA SavedStay ==
  ASSUME StockInv, NEW n, NEW w \in Weights, NEW replace, Saves(n, w, replace)
  PROVE  indices' \in [Names -> {NoIndex} \cup [of : FullWeights]]
<1>1. w \in FullWeights BY DEF Saves, FullWeights
<1>2. [of |-> w] \in [of : FullWeights] BY <1>1
<1> QED BY <1>2 DEF Saves, StockInv

\* Saving what is edited
LEMMA SaveStays == StockInv /\ SaveEditor => StockInv'
<1> SUFFICES ASSUME StockInv, SaveEditor PROVE StockInv' OBVIOUS
<1>1. UNCHANGED <<held, cash, basket, spare>> BY DEF SaveEditor
<1>2. EditorRight' BY NothingWeighs DEF SaveEditor, EditorRight, NoEditor
<1>3. editor.weights \in Weights /\ editor.original \in Weights BY DEF StockInv, EditorRecord
<1>4. Retained(editor.weights, editor.original) \in Weights BY <1>3, RetainedStay
<1>5. Saves(editor.name, Retained(editor.weights, editor.original), editor.original # NoWeights)
  BY DEF SaveEditor
<1>6. indices' \in [Names -> {NoIndex} \cup [of : FullWeights]] BY <1>4, <1>5, SavedStay
<1> QED BY <1>1, <1>2, <1>6 DEF StockInv, BasketIsRight, EditorRight

\* Leaving the editor
LEMMA CloseStays == StockInv /\ CloseEditor => StockInv'
<1> SUFFICES ASSUME StockInv, CloseEditor PROVE StockInv' OBVIOUS
<1>1. UNCHANGED <<indices, held, cash, basket, spare>> BY DEF CloseEditor
<1>2. EditorRight' BY NothingWeighs DEF CloseEditor, EditorRight, NoEditor
<1> QED BY <1>1, <1>2 DEF StockInv, BasketIsRight, EditorRight

\* A command of another process
LEMMA CommandStays == StockInv /\ IndexCommand => StockInv'
<1> SUFFICES ASSUME StockInv, IndexCommand PROVE StockInv' OBVIOUS
<1>1. UNCHANGED <<editor, held, cash, basket, spare>> BY DEF IndexCommand
<1>2. PICK n \in Names :
       \/ \E w \in Weights, replace \in BOOLEAN : Saves(n, w, replace)
       \/ indices[n] # NoIndex /\ indices' = [indices EXCEPT ![n] = NoIndex] BY DEF IndexCommand
<1>3. indices' \in [Names -> {NoIndex} \cup [of : FullWeights]]
  <2>1. CASE \E w \in Weights, replace \in BOOLEAN : Saves(n, w, replace) BY <2>1, SavedStay
  <2>2. CASE indices' = [indices EXCEPT ![n] = NoIndex] BY <2>2 DEF StockInv
  <2> QED BY <1>2, <2>1, <2>2
<1> QED BY <1>1, <1>3 DEF StockInv, BasketIsRight

\* Planning a rebalance
LEMMA PlanStays == StockInv /\ PlanRebalance => StockInv'
<1> SUFFICES ASSUME StockInv, PlanRebalance PROVE StockInv' OBVIOUS
<1>1. UNCHANGED <<indices, editor, held, cash>> BY DEF PlanRebalance
<1>2. PICK n \in Names, price \in [Stocks -> Prices], slippage \in Slippages,
        contribution \in 0..cash :
       /\ indices[n] # NoIndex
       /\ basket' = Rebalanced(indices[n].of, price, contribution, slippage)
       /\ spare' = cash - contribution
  BY DEF PlanRebalance
<1> DEFINE w == indices[n].of
           b == Rebalanced(w, price, contribution, slippage)
<1>3. w \in Weights BY <1>2 DEF StockInv, FullWeights
<1>4. cash \in Nat /\ held \in [Stocks -> 0..MaxHeld] BY DEF StockInv
<1>5. contribution \in Nat /\ contribution <= cash BY <1>4
<1>6. DOMAIN w \in SUBSET Stocks BY <1>3, WeightsAre
<1> HIDE DEF w
<1>7. /\ DOMAIN b.sells = DOMAIN w /\ b.contribution = contribution
      /\ \A s \in DOMAIN w : Sale(s, b)
      /\ SumOf(b.buys, DOMAIN w)
           <= contribution + SumOf([s \in DOMAIN w |-> b.sells[s].least], DOMAIN w)
  BY <1>3, <1>4, <1>5, RebalancedIsRight
<1>8. basket' = b /\ spare' = cash - contribution BY <1>2 DEF w
<1> HIDE DEF b
<1>9. BasketIsRight(basket)' BY <1>1, <1>4, <1>5, <1>6, <1>7, <1>8 DEF BasketIsRight, Sale
<1>10. spare' \in Nat /\ spare' <= cash' BY <1>1, <1>4, <1>5, <1>8
<1> QED BY <1>1, <1>9, <1>10 DEF StockInv

\* A sum of one is that one.
LEMMA OneAddsUp == ASSUME NEW s, NEW f, f[s] \in Int PROVE SumOf(f, {s}) = f[s]
<1>1. IsFiniteSet({s}) BY FS_Singleton
<1>2. SumOf(f, {s}) = f[s] + SumOf(f, {s} \ {s}) /\ SumOf(f, {}) = 0 BY <1>1, SumStep, SumsAre
<1>3. {s} \ {s} = {} OBVIOUS
<1> QED BY <1>2, <1>3

\* Planning a trade of one stock
LEMMA TradeStays == StockInv /\ TradeStock => StockInv'
<1> SUFFICES ASSUME StockInv, TradeStock PROVE StockInv' OBVIOUS
<1>1. UNCHANGED <<indices, editor, held, cash>> BY DEF TradeStock
<1>2. PICK s \in Stocks, price \in Prices, slippage \in Slippages :
       \/ \E units \in 1..held[s] :
            /\ basket' = [sells |-> [t \in {s} |-> [amount |-> units, quote |-> units * price,
                                      least |-> AtLeast(units * price, slippage)]],
                          buys |-> [t \in {s} |-> 0], contribution |-> 0, total |-> 0]
            /\ spare' = cash
       \/ \E spend \in 1..cash :
            /\ basket' = [sells |-> [t \in {s} |-> [amount |-> 0, quote |-> 0, least |-> 0]],
                          buys |-> [t \in {s} |-> spend], contribution |-> spend, total |-> 0]
            /\ spare' = cash - spend
  BY DEF TradeStock
<1>3. cash \in Nat /\ held[s] \in Nat /\ price \in Nat
  BY IndexAssumption DEF StockInv
<1>4. CASE \E units \in 1..held[s] :
            /\ basket' = [sells |-> [t \in {s} |-> [amount |-> units, quote |-> units * price,
                                      least |-> AtLeast(units * price, slippage)]],
                          buys |-> [t \in {s} |-> 0], contribution |-> 0, total |-> 0]
            /\ spare' = cash
  <2> PICK units \in 1..held[s] :
            /\ basket' = [sells |-> [t \in {s} |-> [amount |-> units, quote |-> units * price,
                                      least |-> AtLeast(units * price, slippage)]],
                          buys |-> [t \in {s} |-> 0], contribution |-> 0, total |-> 0]
            /\ spare' = cash BY <1>4
  <2> DEFINE quote == units * price
             least == AtLeast(quote, slippage)
  <2>1. units \in Nat /\ units <= held[s] /\ quote \in Nat BY <1>3
  <2>2. least \in Nat /\ least <= quote BY <2>1, SaleYields
  <2> HIDE DEF quote, least
  <2>3. /\ basket' = [sells |-> [t \in {s} |-> [amount |-> units, quote |-> quote, least |-> least]],
                      buys |-> [t \in {s} |-> 0], contribution |-> 0, total |-> 0]
        /\ spare' = cash BY DEF quote, least
  <2> DEFINE leasts == [t \in {s} |-> basket'.sells[t].least]
  <2>4. leasts = [t \in {s} |-> least] /\ basket'.buys = [t \in {s} |-> 0] BY <2>3
  <2>5. SumOf(leasts, {s}) = least BY <2>2, <2>4, OneAddsUp
  <2>6. SumOf(basket'.buys, {s}) = 0 BY <2>4, OneAddsUp
  <2> HIDE DEF leasts
  <2>7. DOMAIN basket'.sells = {s} BY <2>3
  <2>8. SumOf(basket'.buys, {s}) <= 0 + SumOf(leasts, {s}) BY <2>2, <2>5, <2>6
  <2>9. /\ basket'.sells[s] \in SellRecord /\ basket'.sells[s].amount <= held[s]
        /\ basket'.sells[s].least <= basket'.sells[s].quote /\ basket'.buys[s] \in Nat
        /\ basket'.contribution = 0
    BY <2>1, <2>2, <2>3 DEF SellRecord
  <2>10. BasketIsRight(basket)'
    BY <1>1, <1>3, <2>3, <2>7, <2>8, <2>9 DEF BasketIsRight, leasts
  <2> QED BY <1>1, <1>3, <2>3, <2>10 DEF StockInv
<1>5. CASE \E spend \in 1..cash :
            /\ basket' = [sells |-> [t \in {s} |-> [amount |-> 0, quote |-> 0, least |-> 0]],
                          buys |-> [t \in {s} |-> spend], contribution |-> spend, total |-> 0]
            /\ spare' = cash - spend
  <2> PICK spend \in 1..cash :
            /\ basket' = [sells |-> [t \in {s} |-> [amount |-> 0, quote |-> 0, least |-> 0]],
                          buys |-> [t \in {s} |-> spend], contribution |-> spend, total |-> 0]
            /\ spare' = cash - spend BY <1>5
  <2> DEFINE leasts == [t \in {s} |-> basket'.sells[t].least]
  <2>1. spend \in Nat /\ spend <= cash BY <1>3
  <2>2. leasts = [t \in {s} |-> 0] /\ basket'.buys = [t \in {s} |-> spend] OBVIOUS
  <2>3. SumOf(leasts, {s}) = 0 BY <2>2, OneAddsUp
  <2>4. SumOf(basket'.buys, {s}) = spend BY <2>1, <2>2, OneAddsUp
  <2> HIDE DEF leasts
  <2>5. DOMAIN basket'.sells = {s} /\ basket'.contribution = spend OBVIOUS
  <2>6. SumOf(basket'.buys, {s}) <= spend + SumOf(leasts, {s}) BY <2>1, <2>3, <2>4
  <2>7. /\ basket'.sells[s] \in SellRecord /\ basket'.sells[s].amount <= held[s]
        /\ basket'.sells[s].least <= basket'.sells[s].quote /\ basket'.buys[s] \in Nat
    BY <1>3, <2>1 DEF SellRecord
  <2>8. spare' + spend = cash /\ spare' \in Nat /\ spare' <= cash BY <1>3, <2>1
  <2>9. BasketIsRight(basket)'
    BY <1>1, <2>1, <2>5, <2>6, <2>7, <2>8 DEF BasketIsRight, leasts
  <2> QED BY <1>1, <2>8, <2>9 DEF StockInv
<1> QED BY <1>2, <1>4, <1>5

\* Running a basket: what its sales yield is no less than their least, so what it
\* spends beyond that is at most the contribution.
LEMMA RunStays == StockInv /\ RunBasket => StockInv'
<1> SUFFICES ASSUME StockInv, RunBasket PROVE StockInv' OBVIOUS
<1>1. UNCHANGED <<indices, editor, spare>> /\ basket # NoPlan /\ basket' = NoPlan BY DEF RunBasket
<1>2. BasketIsRight(basket) BY <1>1 DEF StockInv
<1> DEFINE S == DOMAIN basket.sells
           leasts == [s \in S |-> basket.sells[s].least]
<1>3. PICK short \in BOOLEAN :
       /\ cash' = cash + SumOf([s \in S |-> IF short THEN basket.sells[s].least
                                             ELSE basket.sells[s].quote], S)
                  - SumOf(basket.buys, S)
       /\ held' = [s \in Stocks |-> IF s \in S THEN held[s] - basket.sells[s].amount
                                               ELSE held[s]]
  BY DEF RunBasket
<1> DEFINE yields == [s \in S |-> IF short THEN basket.sells[s].least ELSE basket.sells[s].quote]
<1>4. IsFiniteSet(S) BY <1>2, StocksAreFinite DEF BasketIsRight
<1>5. \A s \in S : /\ leasts[s] \in Int /\ yields[s] \in Int /\ leasts[s] <= yields[s]
                   /\ basket.buys[s] \in Int
  BY <1>2 DEF BasketIsRight, SellRecord
<1>6. cash' = cash + SumOf(yields, S) - SumOf(basket.buys, S) BY <1>3
<1>7. SumOf(basket.buys, S) <= basket.contribution + SumOf(leasts, S) BY <1>2 DEF BasketIsRight
<1>8. held' \in [Stocks -> 0..MaxHeld]
  <2>1. MaxHeld \in Nat BY IndexAssumption
  <2>2. ASSUME NEW s \in S PROVE held[s] - basket.sells[s].amount \in 0..MaxHeld
    BY <1>2, <2>1 DEF BasketIsRight, SellRecord, StockInv
  <2>3. held \in [Stocks -> 0..MaxHeld] BY DEF StockInv
  <2> HIDE DEF S
  <2> QED BY <1>3, <2>2, <2>3
<1>9. cash \in Nat /\ spare \in Nat /\ basket.contribution \in Nat /\ spare + basket.contribution = cash
  BY <1>2 DEF BasketIsRight, StockInv
<1> HIDE DEF yields, leasts, S
<1>10. SumOf(leasts, S) \in Int /\ SumOf(yields, S) \in Int /\ SumOf(leasts, S) <= SumOf(yields, S)
  BY <1>4, <1>5, SumIsLess, SumsAre
<1>11. SumOf(basket.buys, S) \in Int BY <1>4, <1>5, SumStep, SumsAre
<1>12. cash' \in Nat /\ spare <= cash' BY <1>6, <1>7, <1>9, <1>10, <1>11
<1> QED BY <1>1, <1>8, <1>9, <1>12 DEF StockInv

\* Giving a basket up
LEMMA DropStays == StockInv /\ DropBasket => StockInv'
BY DEF StockInv, DropBasket

\* The invariant holds in every state.
LEMMA StockInvHolds == IndexSpec => []StockInv
<1>1. ASSUME StockInv, [IndexNext]_indexVars PROVE StockInv'
  <2>1. CASE IndexNext
    BY <1>1, <2>1, OpenEditorStays, EditStays, SaveStays, CloseStays, CommandStays, PlanStays,
       TradeStays, RunStays, DropStays DEF IndexNext
  <2>2. CASE UNCHANGED indexVars BY <1>1, <2>2 DEF indexVars, StockInv, BasketIsRight
  <2> QED BY <1>1, <2>1, <2>2
<1> QED BY InvStarts, <1>1, PTL DEF IndexSpec

\* SpareIsUntouched for any stocks, prices, weights, holdings and tolerances: whatever the
\* sales of a basket yield above their least, the USDC of the wallet that was not contributed
\* stays in it (rebalanceIndex and stockTrade of stocks/trading.ts).
THEOREM SpareStaysUntouched == IndexSpec => []SpareIsUntouched
<1>1. StockInv => SpareIsUntouched BY DEF StockInv, SpareIsUntouched
<1> QED BY StockInvHolds, <1>1, PTL

\* IndexTypeOK: what is filed weighs 100%, what is edited is weights, nothing is held or
\* spent below zero.
THEOREM IndexTypeCorrect == IndexSpec => []IndexTypeOK
<1>1. StockInv => IndexTypeOK BY DEF StockInv, IndexTypeOK, EditorRecord, FullWeights
<1> QED BY StockInvHolds, <1>1, PTL
-----------------------------------------------------------------------------
(***************************************************************************)
(* alm/engine.ts and alm/notify.ts: an error, and a move that a dry run    *)
(* would make, is told once while it lasts. The daemon remembers only the  *)
(* last of each; the invariant relates what it remembers to what was told, *)
(* at the position whose note is still being waited for too.               *)
(***************************************************************************)

\* What the daemon knows and has told
Somewhere == ServePlaces \cup {NoPlace}
Intents == {<<"none">>} \cup {<<"move", c>> : c \in Somewhere} \cup {<<"compound", e>> : e \in Nat}
Snapshots == [place : Somewhere, earned : Nat, at : Nat]
Runtime == [snapshot : Snapshots, lastError : Troubles \cup {NoTrouble}, lastIntent : Intents]
WatchedOne == [pool : AlmPools, rt : Runtime]
Note == [n : Nat, what : Intents \cup {<<m>> : m \in Troubles}]
Notes == [error : Note, move : Note, compound : Note]
Daemon == [at : {"off", "resting", "reading", "deciding", "noting"}, executing : BOOLEAN, pos : Nat,
           tick : Somewhere, after : {"none", "error", "done"}, passes : Nat]
Child == [up : BOOLEAN, age : Nat, stubborn : BOOLEAN]
FileEntry == [pool : AlmPools, sound : BOOLEAN]
Busy == daemon.at \in {"reading", "deciding", "noting"}

ServeTyped ==
  /\ serveTime \in Nat /\ serveFile \in Seq(FileEntry)
  /\ DOMAIN inits = {"begun", "at"} /\ inits = [f \in DOMAIN inits |-> inits[f]]
  /\ daemon \in Daemon /\ child \in Child
  /\ watched \in Seq(WatchedOne) /\ said \in Seq(Notes) /\ Len(said) = Len(watched)
  /\ daemon.at # "off" => watched # <<>>
  /\ Busy => P \in 1..Len(watched)
  /\ spots \in [AlmPools -> Somewhere] /\ nfts \in [AlmPools -> [place : Somewhere, earned : Nat]]

\* The last error of a position was told once and is the one that lasts, unless it is over and only
\* the note of something else has to end.
ErrorIsTold(p) ==
  /\ said[p].error # Nothing =>
       /\ watched[p].rt.lastError # NoTrouble
       /\ said[p].error = [n |-> 1, what |-> <<watched[p].rt.lastError>>]
  /\ watched[p].rt.lastError # NoTrouble /\ said[p].error = Nothing =>
       daemon.at = "noting" /\ daemon.after = "done" /\ p = P

\* So was the last intent, if it was a move, which only a dry run has.
IsMove(intent) == \E c \in Somewhere : intent = <<"move", c>>
MoveIsTold(p) ==
  /\ said[p].move # Nothing => said[p].move = [n |-> 1, what |-> watched[p].rt.lastIntent]
  /\ IsMove(watched[p].rt.lastIntent) => said[p].move # Nothing /\ ~daemon.executing

ServeInv ==
  /\ ServeTyped
  /\ \A p \in 1..Len(watched) : ErrorIsTold(p) /\ MoveIsTold(p)
  /\ daemon.at = "noting" => daemon.after = "error" \/ said[P].error = Nothing
  /\ child.up => child.age <= NotifyTime + NotifyGrace
  /\ inits.at = "wrote" => Accepts(serveFile)

\* Intents of different kinds differ.
LEMMA IntentsDiffer ==
  /\ \A c \in Somewhere : <<"none">> # <<"move", c>>
  /\ \A c \in Somewhere, e \in Nat : <<"compound", e>> # <<"move", c>>
OBVIOUS

\* At first nothing is watched.
LEMMA ServeStarts == ServeInit => ServeInv
<1> SUFFICES ASSUME ServeInit PROVE ServeInv OBVIOUS
<1>1. ServeTyped
  BY AlmServeAssumption DEF ServeInit, ServeTyped, Off, NoChild, NoInit, Busy, Daemon, Child, Somewhere
<1>2. Len(watched) = 0 BY DEF ServeInit
<1>3. ~child.up /\ inits.at = "none" /\ daemon.at = "off" BY DEF ServeInit, NoChild, NoInit, Off
<1> QED BY <1>1, <1>2, <1>3 DEF ServeInv

\* What is noted of the position that is looked at, all else as it was
LEMMA OneNoted ==
  ASSUME ServeInv, Busy, NEW rt \in Runtime, NEW s \in Notes, Sets(rt), said' = [said EXCEPT ![P] = s]
  PROVE  /\ watched' \in Seq(WatchedOne) /\ said' \in Seq(Notes)
         /\ Len(watched') = Len(watched) /\ Len(said') = Len(watched)
         /\ watched'[P].rt = rt /\ said'[P] = s
         /\ \A p \in (1..Len(watched)) \ {P} : watched'[p] = watched[p] /\ said'[p] = said[p]
<1>1. P \in 1..Len(watched) /\ P \in 1..Len(said) BY DEF ServeInv, ServeTyped
<1>0. watched[P] \in WatchedOne BY <1>1 DEF ServeInv, ServeTyped
<1>2. [watched[P] EXCEPT !.rt = rt] \in WatchedOne BY <1>0 DEF WatchedOne
<1>3. watched' = [watched EXCEPT ![P] = [watched[P] EXCEPT !.rt = rt]] BY DEF Sets
<1>4. watched' \in Seq(WatchedOne) /\ Len(watched') = Len(watched)
  BY <1>1, <1>2, <1>3, ExceptSeq DEF ServeInv, ServeTyped
<1>5. said' \in Seq(Notes) /\ Len(said') = Len(said)
  BY <1>1, ExceptSeq DEF ServeInv, ServeTyped
<1>6. watched'[P].rt = rt /\ said'[P] = s
  BY <1>0, <1>1, <1>2, <1>3 DEF ServeInv, ServeTyped, WatchedOne
<1>7. \A p \in (1..Len(watched)) \ {P} : watched'[p] = watched[p] /\ said'[p] = said[p]
  BY <1>1, <1>3 DEF ServeInv, ServeTyped
<1> QED BY <1>4, <1>5, <1>6, <1>7 DEF ServeInv, ServeTyped

\* Runtime, notes and place of the position that is looked at
LEMMA SeenTyped ==
  ASSUME ServeInv, Busy
  PROVE  /\ P \in 1..Len(watched) /\ Rt \in Runtime /\ said[P] \in Notes /\ PoolNow \in AlmPools
         /\ Seen \in Snapshots /\ Quiet \in Notes /\ Nothing \in Note
<1>1. P \in 1..Len(watched) /\ P \in 1..Len(said) BY DEF ServeInv, ServeTyped
<1>2. watched[P] \in WatchedOne /\ said[P] \in Notes BY <1>1 DEF ServeInv, ServeTyped
<1>3. Rt \in Runtime /\ PoolNow \in AlmPools BY <1>2 DEF Rt, PoolNow, WatchedOne
<1>4. NoSnapshot \in Snapshots BY DEF NoSnapshot, Snapshots, Somewhere
<1>5. Nothing \in Note BY DEF Nothing, Note, Intents
<1>6. nfts[PoolNow] \in [place : Somewhere, earned : Nat] BY <1>3 DEF ServeInv, ServeTyped
<1>7. Rt.snapshot \in Snapshots BY <1>3 DEF Runtime
<1>8. [place |-> nfts[PoolNow].place, earned |-> nfts[PoolNow].earned, at |-> serveTime] \in Snapshots
  BY <1>6 DEF Snapshots, ServeInv, ServeTyped
<1>9. Seen \in Snapshots BY <1>4, <1>7, <1>8 DEF Seen
<1>10. Quiet \in Notes BY <1>2, <1>5 DEF Quiet, Notes
<1> QED BY <1>1, <1>2, <1>3, <1>5, <1>9, <1>10

\* What a step that notes something of one position has to show
LEMMA NotingStays ==
  ASSUME ServeInv, Busy, NEW rt \in Runtime, NEW s \in Notes, Sets(rt), said' = [said EXCEPT ![P] = s],
         UNCHANGED <<serveTime, serveFile, inits, spots>>,
         nfts' \in [AlmPools -> [place : Somewhere, earned : Nat]],
         daemon' \in Daemon, daemon'.executing = daemon.executing, daemon'.at # "off",
         Busy' => P' \in 1..Len(watched),
         daemon'.at = "noting" => P' = P /\ (daemon'.after = "error" \/ s.error = Nothing),
         child' \in Child, child'.up => child'.age <= NotifyTime + NotifyGrace,
         /\ s.error # Nothing => rt.lastError # NoTrouble /\ s.error = [n |-> 1, what |-> <<rt.lastError>>]
         /\ rt.lastError # NoTrouble /\ s.error = Nothing =>
              daemon'.at = "noting" /\ daemon'.after = "done" /\ daemon'.pos = P
         /\ s.move # Nothing => s.move = [n |-> 1, what |-> rt.lastIntent]
         /\ IsMove(rt.lastIntent) => s.move # Nothing /\ ~daemon.executing
  PROVE  ServeInv'
<1>1. /\ watched' \in Seq(WatchedOne) /\ said' \in Seq(Notes)
      /\ Len(watched') = Len(watched) /\ Len(said') = Len(watched)
      /\ watched'[P].rt = rt /\ said'[P] = s
      /\ \A p \in (1..Len(watched)) \ {P} : watched'[p] = watched[p] /\ said'[p] = said[p]
  BY OneNoted
<1>2. daemon.at # "off" /\ P \in 1..Len(watched) BY DEF Busy, ServeInv, ServeTyped
<1>3. watched' # <<>> BY <1>1, <1>2
<1>4. ServeTyped' BY <1>1, <1>3 DEF ServeInv, ServeTyped
<1>5. \A p \in {P} : (ErrorIsTold(p) /\ MoveIsTold(p))'
  BY <1>1 DEF ErrorIsTold, MoveIsTold, P
<1>6. ASSUME NEW p \in 1..Len(watched), p # P PROVE (ErrorIsTold(p) /\ MoveIsTold(p))'
  <2>1. watched'[p] = watched[p] /\ said'[p] = said[p] BY <1>1, <1>6
  <2>2. ErrorIsTold(p) /\ MoveIsTold(p) BY DEF ServeInv
  <2>3. ErrorIsTold(p)' BY <2>1, <2>2, <1>6 DEF ErrorIsTold
  <2>4. MoveIsTold(p)' BY <2>1, <2>2 DEF MoveIsTold
  <2> QED BY <2>3, <2>4
<1>7. (child.up => child.age <= NotifyTime + NotifyGrace)' /\ (inits.at = "wrote" => Accepts(serveFile))'
  BY DEF ServeInv, Accepts, SharesNoPool
<1>8. (daemon.at = "noting" => daemon.after = "error" \/ said[P].error = Nothing)' BY <1>1
<1> QED BY <1>1, <1>4, <1>5, <1>6, <1>7, <1>8 DEF ServeInv

\* Where the daemon goes after a position, or to tell of one
LEMMA NextTyped ==
  ASSUME ServeInv, Busy
  PROVE  /\ \A d \in {NextPosition, AfterFailure} :
              /\ d \in Daemon /\ d.executing = daemon.executing /\ d.at \in {"reading", "resting"}
              /\ d.at = "reading" => d.pos \in 1..Len(watched)
         /\ \A after \in {"error", "done"} : Tells(after) =>
              /\ daemon' \in Daemon /\ daemon'.executing = daemon.executing /\ daemon'.at = "noting"
              /\ daemon'.after = after /\ daemon'.pos = P
              /\ child' \in Child /\ child'.age = 0
<1>1. daemon \in Daemon /\ P \in 1..Len(watched) /\ P \in Nat /\ Len(watched) \in Nat
  BY DEF ServeInv, ServeTyped, Daemon
<1>2. /\ NextPosition \in Daemon /\ NextPosition.executing = daemon.executing
      /\ NextPosition.at \in {"reading", "resting"}
      /\ NextPosition.at = "reading" => NextPosition.pos \in 1..Len(watched)
  <2>1. CASE P < Len(watched)
    <3>1. NextPosition = [daemon EXCEPT !.at = "reading", !.pos = P + 1, !.after = "none"]
      BY <2>1 DEF NextPosition, P
    <3>2. P + 1 \in Nat /\ P + 1 \in 1..Len(watched) BY <1>1, <2>1
    <3>3. NextPosition \in Daemon BY <1>1, <3>1, <3>2 DEF Daemon
    <3>4. NextPosition.executing = daemon.executing /\ NextPosition.at = "reading" /\ NextPosition.pos = P + 1
      BY <1>1, <3>1 DEF Daemon
    <3> QED BY <3>2, <3>3, <3>4
  <2>2. CASE ~(P < Len(watched))
    <3>1. NextPosition = [daemon EXCEPT !.at = "resting", !.pos = 0, !.after = "none"]
      BY <2>2 DEF NextPosition
    <3> QED BY <1>1, <3>1 DEF Daemon
  <2> QED BY <2>1, <2>2
<1>3. /\ AfterFailure \in Daemon /\ AfterFailure.executing = daemon.executing
      /\ AfterFailure.at \in {"reading", "resting"}
      /\ AfterFailure.at = "reading" => AfterFailure.pos \in 1..Len(watched)
  BY <1>1, <1>2 DEF AfterFailure, Daemon
<1>4. ASSUME NEW after \in {"error", "done"}, Tells(after)
      PROVE  /\ daemon' \in Daemon /\ daemon'.executing = daemon.executing /\ daemon'.at = "noting"
             /\ daemon'.after = after /\ daemon'.pos = P
             /\ child' \in Child /\ child'.age = 0
  <2>1. daemon' = [daemon EXCEPT !.at = "noting", !.after = after] BY <1>4 DEF Tells
  <2>2. PICK stubborn \in BOOLEAN : child' = [up |-> TRUE, age |-> 0, stubborn |-> stubborn] BY <1>4 DEF Tells
  <2>3. child' \in Child /\ child'.age = 0 BY <2>2 DEF Child
  <2> QED BY <1>1, <2>1, <2>3 DEF Daemon, P
<1> QED BY <1>2, <1>3, <1>4

\* An error is told when it comes up.
LEMMA FailureStays ==
  ASSUME ServeInv, NEW m \in Troubles, daemon.at \in {"reading", "deciding"}, FailsBy(m),
         UNCHANGED <<serveTime, serveFile, inits, spots, nfts>>
  PROVE  ServeInv'
<1>0. Busy BY DEF Busy
<1>1. /\ P \in 1..Len(watched) /\ Rt \in Runtime /\ said[P] \in Notes
      /\ ErrorIsTold(P) /\ MoveIsTold(P)
  BY <1>0, SeenTyped DEF ServeInv
<1>2. m # NoTrouble BY AlmServeAssumption
<1>3. nfts' \in [AlmPools -> [place : Somewhere, earned : Nat]] BY DEF ServeInv, ServeTyped
<1>4. child \in Child /\ (child.up => child.age <= NotifyTime + NotifyGrace) BY DEF ServeInv, ServeTyped
<1>5. NotifyTime + NotifyGrace >= 0 BY AlmServeAssumption
<1> DEFINE heard == Again(said[P].error, <<m>>)
<1>6. heard \in Note BY <1>1 DEF Again, Note, Notes
<1>7. /\ said[P].move # Nothing => said[P].move = [n |-> 1, what |-> Rt.lastIntent]
      /\ IsMove(Rt.lastIntent) => said[P].move # Nothing /\ ~daemon.executing
  BY <1>1 DEF MoveIsTold, Rt
<1>8. CASE Rt.lastError # m
  <2> DEFINE rt == [Rt EXCEPT !.lastError = m]
             s == [said[P] EXCEPT !.error = Told(heard)]
  <2>1. rt \in Runtime /\ rt.lastError = m /\ rt.lastIntent = Rt.lastIntent BY <1>1 DEF Runtime
  <2>2. Told(heard) \in Note BY <1>6 DEF Told, Note
  <2>3. s \in Notes /\ s.error = Told(heard) /\ s.move = said[P].move BY <1>1, <2>2 DEF Notes
  <2>4. said[P].error # Nothing => said[P].error.what # <<m>>
    BY <1>1, <1>8 DEF ErrorIsTold, Rt
  <2>5. heard.n = 0 /\ heard.what = <<m>> BY <2>4 DEF Again, Nothing
  <2>6. Told(heard) = [n |-> 1, what |-> <<m>>] BY <1>6, <2>5 DEF Told, Note
  <2>7. Sets(rt) /\ said' = [said EXCEPT ![P] = s] /\ Tells("error")
    BY <1>8 DEF FailsBy
  <2>8. /\ daemon' \in Daemon /\ daemon'.executing = daemon.executing /\ daemon'.at = "noting"
        /\ daemon'.after = "error" /\ P' = P /\ child' \in Child /\ child'.age = 0
    BY <1>0, <2>7, NextTyped DEF P
  <2>9. s.error # Nothing /\ s.error = [n |-> 1, what |-> <<rt.lastError>>] /\ rt.lastError # NoTrouble
    BY <2>1, <2>3, <2>6, <1>2 DEF Nothing
  <2> HIDE DEF rt, s
  <2> QED BY <1>0, <1>1, <1>3, <1>5, <1>7, <2>1, <2>3, <2>7, <2>8, <2>9, NotingStays
<1>9. CASE Rt.lastError = m
  <2> DEFINE rt == [Rt EXCEPT !.snapshot = NoSnapshot]
             s == [said[P] EXCEPT !.error = heard]
  <2>1. NoSnapshot \in Snapshots BY DEF NoSnapshot, Snapshots, Somewhere
  <2>2. rt \in Runtime /\ rt.lastError = m /\ rt.lastIntent = Rt.lastIntent BY <1>1, <1>9, <2>1 DEF Runtime
  <2>3. s \in Notes /\ s.error = heard /\ s.move = said[P].move BY <1>1, <1>6 DEF Notes
  <2>4. said[P].error # Nothing
    BY <1>1, <1>2, <1>9 DEF ErrorIsTold, Rt
  <2>5. said[P].error = [n |-> 1, what |-> <<m>>] BY <1>1, <1>9, <2>4 DEF ErrorIsTold, Rt
  <2>6. heard = [n |-> 1, what |-> <<m>>] BY <2>5 DEF Again
  <2>7. Sets(rt) /\ said' = [said EXCEPT ![P] = s] /\ daemon' = AfterFailure /\ UNCHANGED child
    BY <1>9 DEF FailsBy
  <2>8. /\ daemon' \in Daemon /\ daemon'.executing = daemon.executing /\ daemon'.at \notin {"off", "noting"}
        /\ Busy' => P' \in 1..Len(watched)
    BY <1>0, <2>7, NextTyped DEF P, Busy
  <2>9. s.error # Nothing /\ s.error = [n |-> 1, what |-> <<rt.lastError>>] /\ rt.lastError # NoTrouble
    BY <2>2, <2>3, <2>6, <1>2 DEF Nothing
  <2> HIDE DEF rt, s
  <2> QED BY <1>0, <1>1, <1>3, <1>4, <1>7, <2>2, <2>3, <2>7, <2>8, <2>9, NotingStays
<1> QED BY <1>8, <1>9

\* The price of a pool is read, or not.
LEMMA SpotStays == ServeInv /\ ReadSpot => ServeInv'
<1> SUFFICES ASSUME ServeInv, ReadSpot PROVE ServeInv' OBVIOUS
<1>1. daemon.at = "reading" /\ UNCHANGED <<serveTime, serveFile, inits, spots, nfts>> BY DEF ReadSpot
<1>2. ASSUME NEW m \in Troubles, FailsBy(m) PROVE ServeInv' BY <1>1, <1>2, FailureStays
<1>3. CASE daemon' = [daemon EXCEPT !.at = "deciding", !.tick = spots[PoolNow]] /\ UNCHANGED <<watched, said, child>>
  <2>1. PoolNow \in AlmPools BY <1>1, SeenTyped DEF Busy
  <2>2. spots[PoolNow] \in Somewhere BY <2>1 DEF ServeInv, ServeTyped
  <2>3. daemon' \in Daemon /\ daemon'.at = "deciding" /\ daemon'.executing = daemon.executing /\ P' = P
    BY <1>3, <2>2 DEF ServeInv, ServeTyped, Daemon, P
  <2>4. ServeTyped' BY <1>1, <1>3, <2>3 DEF ServeInv, ServeTyped, Busy
  <2>5. \A p \in 1..Len(watched) : (ErrorIsTold(p) /\ MoveIsTold(p))'
    BY <1>1, <1>3, <2>3 DEF ServeInv, ErrorIsTold, MoveIsTold
  <2> QED BY <1>1, <1>3, <2>3, <2>4, <2>5 DEF ServeInv, Accepts, SharesNoPool
<1> QED BY <1>2, <1>3 DEF ReadSpot

\* A position's pass that went well and is not told of
LEMMA WellStays ==
  ASSUME ServeInv, daemon.at = "deciding", NEW rt \in Runtime, NEW s \in Notes, GoesWell(rt, s),
         UNCHANGED <<serveTime, serveFile, inits, spots>>,
         nfts' \in [AlmPools -> [place : Somewhere, earned : Nat]],
         s.error = Nothing,
         s.move # Nothing => s.move = [n |-> 1, what |-> rt.lastIntent],
         IsMove(rt.lastIntent) => s.move # Nothing /\ ~daemon.executing
  PROVE  ServeInv'
<1>1. Busy BY DEF Busy
<1>2. Well(rt) \in Runtime /\ Well(rt).lastError = NoTrouble /\ Well(rt).lastIntent = rt.lastIntent
  BY DEF Well, Runtime
<1>3. Sets(Well(rt)) /\ said' = [said EXCEPT ![P] = s] /\ daemon' = NextPosition /\ UNCHANGED child
  BY DEF GoesWell
<1>4. child \in Child /\ (child.up => child.age <= NotifyTime + NotifyGrace) BY DEF ServeInv, ServeTyped
<1>5. /\ daemon' \in Daemon /\ daemon'.executing = daemon.executing /\ daemon'.at \notin {"off", "noting"}
      /\ Busy' => P' \in 1..Len(watched)
  BY <1>1, <1>3, NextTyped DEF P, Busy
<1> QED BY <1>1, <1>2, <1>3, <1>4, <1>5, NotingStays

\* One that is told of
LEMMA TellingStays ==
  ASSUME ServeInv, daemon.at = "deciding", NEW rt \in Runtime, NEW s \in Notes,
         Sets(rt), said' = [said EXCEPT ![P] = s], Tells("done"),
         UNCHANGED <<serveTime, serveFile, inits, spots>>,
         nfts' \in [AlmPools -> [place : Somewhere, earned : Nat]],
         s.error = Nothing,
         s.move # Nothing => s.move = [n |-> 1, what |-> rt.lastIntent],
         IsMove(rt.lastIntent) => s.move # Nothing /\ ~daemon.executing
  PROVE  ServeInv'
<1>1. Busy BY DEF Busy
<1>2. /\ daemon' \in Daemon /\ daemon'.executing = daemon.executing /\ daemon'.at = "noting"
      /\ daemon'.after = "done" /\ daemon'.pos = P /\ P' = P /\ child' \in Child /\ child'.age = 0
  BY <1>1, NextTyped DEF P
<1>3. NotifyTime + NotifyGrace >= 0 BY AlmServeAssumption
<1>4. P \in 1..Len(watched) BY <1>1, SeenTyped
<1> QED BY <1>1, <1>2, <1>3, <1>4, NotingStays

\* No position, or a gate that says no
LEMMA WaitStays ==
  ASSUME ServeInv, daemon.at = "deciding", Waits, UNCHANGED <<serveTime, serveFile, inits, spots>>
  PROVE  ServeInv'
<1>1. /\ P \in 1..Len(watched) /\ Rt \in Runtime /\ said[P] \in Notes /\ Seen \in Snapshots /\ Quiet \in Notes
      /\ MoveIsTold(P)
  BY SeenTyped DEF ServeInv, Busy
<1>2. nfts' \in [AlmPools -> [place : Somewhere, earned : Nat]] BY DEF Waits, ServeInv, ServeTyped
<1> DEFINE rt == [Rt EXCEPT !.snapshot = Seen]
<1>3. rt \in Runtime /\ rt.lastIntent = Rt.lastIntent BY <1>1 DEF Runtime
<1>4. Quiet.error = Nothing /\ Quiet.move = said[P].move BY <1>1 DEF Quiet, Notes
<1>5. /\ Quiet.move # Nothing => Quiet.move = [n |-> 1, what |-> rt.lastIntent]
      /\ IsMove(rt.lastIntent) => Quiet.move # Nothing /\ ~daemon.executing
  BY <1>1, <1>3, <1>4 DEF MoveIsTold, Rt
<1>6. GoesWell(rt, Quiet) BY DEF Waits
<1> HIDE DEF rt
<1> QED BY <1>1, <1>2, <1>3, <1>4, <1>5, <1>6, WellStays

\* In range: no move is wanted any more.
LEMMA HoldStays ==
  ASSUME ServeInv, daemon.at = "deciding", NEW due \in BOOLEAN, Holds(due),
         UNCHANGED <<serveTime, serveFile, inits, spots>>
  PROVE  ServeInv'
<1>1. /\ P \in 1..Len(watched) /\ Rt \in Runtime /\ said[P] \in Notes /\ Seen \in Snapshots /\ Quiet \in Notes
      /\ Nothing \in Note /\ PoolNow \in AlmPools
  BY SeenTyped DEF ServeInv, Busy
<1> DEFINE rt == [Rt EXCEPT !.snapshot = Seen, !.lastIntent = <<"none">>]
           intent == <<"compound", Seen.earned>>
           heard == [Quiet EXCEPT !.move = Nothing, !.compound = Again(@, intent)]
           none == [Quiet EXCEPT !.move = Nothing, !.compound = Nothing]
           again == [rt EXCEPT !.snapshot = NoSnapshot]
           meant == [rt EXCEPT !.lastIntent = intent]
           told == [heard EXCEPT !.compound = Told(@)]
<1>2. Seen.earned \in Nat /\ intent \in Intents /\ ~IsMove(intent)
  BY <1>1, IntentsDiffer DEF Snapshots, Intents, IsMove
<1>3. <<"none">> \in Intents /\ ~IsMove(<<"none">>) BY IntentsDiffer DEF Intents, IsMove
<1>4. NoSnapshot \in Snapshots BY DEF NoSnapshot, Snapshots, Somewhere
<1>5. rt \in Runtime /\ rt.lastIntent = <<"none">> BY <1>1, <1>3 DEF Runtime
<1>6. again \in Runtime /\ again.lastIntent = <<"none">> BY <1>4, <1>5 DEF Runtime
<1>7. meant \in Runtime /\ meant.lastIntent = intent BY <1>2, <1>5 DEF Runtime
<1>8. Quiet.error = Nothing /\ Quiet.compound \in Note BY <1>1 DEF Quiet, Notes
<1>9. Again(Quiet.compound, intent) \in Note BY <1>2, <1>8 DEF Again, Note
<1>10. none \in Notes /\ none.error = Nothing /\ none.move = Nothing BY <1>1, <1>8 DEF Notes
<1>11. heard \in Notes /\ heard.error = Nothing /\ heard.move = Nothing /\ heard.compound \in Note
  BY <1>1, <1>8, <1>9 DEF Notes
<1>12. Told(heard.compound) \in Note BY <1>11 DEF Told, Note
<1>13. told \in Notes /\ told.error = Nothing /\ told.move = Nothing BY <1>11, <1>12 DEF Notes
<1>14. CASE (~due \/ Seen.earned = 0) /\ GoesWell(rt, none) /\ UNCHANGED nfts
  <2>1. nfts' \in [AlmPools -> [place : Somewhere, earned : Nat]] BY <1>14 DEF ServeInv, ServeTyped
  <2> HIDE DEF rt, none
  <2> QED BY <1>3, <1>5, <1>10, <1>14, <2>1, WellStays
<1>15. CASE /\ Sets(again) /\ nfts' = [nfts EXCEPT ![PoolNow].earned = 0]
            /\ said' = [said EXCEPT ![P] = none] /\ Tells("done")
  <2>1. nfts' \in [AlmPools -> [place : Somewhere, earned : Nat]] BY <1>1, <1>15 DEF ServeInv, ServeTyped
  <2> HIDE DEF again, none
  <2> QED BY <1>3, <1>6, <1>10, <1>15, <2>1, TellingStays
<1>16. CASE GoesWell(rt, heard) /\ UNCHANGED nfts
  <2>1. nfts' \in [AlmPools -> [place : Somewhere, earned : Nat]] BY <1>16 DEF ServeInv, ServeTyped
  <2> HIDE DEF rt, heard
  <2> QED BY <1>3, <1>5, <1>11, <1>16, <2>1, WellStays
<1>17. CASE /\ Sets(meant) /\ said' = [said EXCEPT ![P] = told] /\ Tells("done") /\ UNCHANGED nfts
  <2>1. nfts' \in [AlmPools -> [place : Somewhere, earned : Nat]] BY <1>17 DEF ServeInv, ServeTyped
  <2> HIDE DEF meant, told
  <2> QED BY <1>2, <1>7, <1>13, <1>17, <2>1, TellingStays
<1> QED BY <1>14, <1>15, <1>16, <1>17 DEF Holds

\* Out of range: a dry run tells of a move that it has not told of last.
LEMMA MoveStays ==
  ASSUME ServeInv, daemon.at = "deciding", Moves, UNCHANGED <<serveTime, serveFile, inits, spots>>
  PROVE  ServeInv'
<1>1. /\ P \in 1..Len(watched) /\ Rt \in Runtime /\ said[P] \in Notes /\ Seen \in Snapshots /\ Quiet \in Notes
      /\ Nothing \in Note /\ PoolNow \in AlmPools /\ MoveIsTold(P)
  BY SeenTyped DEF ServeInv, Busy
<1> DEFINE rt == [Rt EXCEPT !.snapshot = Seen]
           intent == <<"move", daemon.tick>>
           heard == [Quiet EXCEPT !.move = Again(@, intent), !.compound = Nothing]
           done == [Quiet EXCEPT !.move = Nothing]
           again == [rt EXCEPT !.snapshot = NoSnapshot]
           meant == [rt EXCEPT !.lastIntent = intent]
           told == [heard EXCEPT !.move = Told(@)]
<1>2. daemon.tick \in Somewhere /\ intent \in Intents /\ IsMove(intent)
  BY DEF ServeInv, ServeTyped, Daemon, Intents, IsMove
<1>4. NoSnapshot \in Snapshots BY DEF NoSnapshot, Snapshots, Somewhere
<1>5. rt \in Runtime /\ rt.lastIntent = Rt.lastIntent BY <1>1 DEF Runtime
<1>6. again \in Runtime /\ again.lastIntent = Rt.lastIntent BY <1>4, <1>5 DEF Runtime
<1>7. meant \in Runtime /\ meant.lastIntent = intent BY <1>2, <1>5 DEF Runtime
<1>8. Quiet.error = Nothing /\ Quiet.move = said[P].move /\ Quiet.move \in Note BY <1>1 DEF Quiet, Notes
<1>9. Again(Quiet.move, intent) \in Note BY <1>2, <1>8 DEF Again, Note
<1>10. done \in Notes /\ done.error = Nothing /\ done.move = Nothing BY <1>1, <1>8 DEF Notes
<1>11. heard \in Notes /\ heard.error = Nothing /\ heard.move = Again(said[P].move, intent)
  BY <1>1, <1>8, <1>9 DEF Notes
<1>12. Told(heard.move) \in Note BY <1>9, <1>8, <1>11 DEF Told, Note
<1>13. told \in Notes /\ told.error = Nothing /\ told.move = Told(heard.move) BY <1>11, <1>12 DEF Notes
<1>14. /\ said[P].move # Nothing => said[P].move = [n |-> 1, what |-> Rt.lastIntent]
       /\ IsMove(Rt.lastIntent) => said[P].move # Nothing /\ ~daemon.executing
  BY <1>1 DEF MoveIsTold, Rt
<1>15. CASE /\ daemon.executing /\ Sets(again) /\ nfts' = [nfts EXCEPT ![PoolNow].place = daemon.tick]
            /\ said' = [said EXCEPT ![P] = done] /\ Tells("done")
  <2>1. nfts' \in [AlmPools -> [place : Somewhere, earned : Nat]] BY <1>1, <1>2, <1>15 DEF ServeInv, ServeTyped
  <2>2. ~IsMove(again.lastIntent) BY <1>6, <1>14, <1>15
  <2> HIDE DEF again, done
  <2> QED BY <1>6, <1>10, <1>15, <2>1, <2>2, TellingStays
<1>16. CASE ~daemon.executing /\ Known(rt, intent) /\ GoesWell(rt, heard) /\ UNCHANGED nfts
  <2>1. nfts' \in [AlmPools -> [place : Somewhere, earned : Nat]] BY <1>16 DEF ServeInv, ServeTyped
  <2>2. rt.lastIntent = intent BY <1>16 DEF Known
  <2>3. said[P].move = [n |-> 1, what |-> intent] /\ said[P].move # Nothing BY <1>2, <1>5, <1>14, <2>2
  <2>4. heard.move = said[P].move BY <1>11, <2>3 DEF Again
  <2> HIDE DEF rt, heard, intent
  <2> QED BY <1>5, <1>11, <1>16, <2>1, <2>2, <2>3, <2>4, WellStays
<1>17. CASE /\ ~daemon.executing /\ ~Known(rt, intent) /\ Sets(meant) /\ said' = [said EXCEPT ![P] = told]
            /\ Tells("done") /\ UNCHANGED nfts
  <2>1. nfts' \in [AlmPools -> [place : Somewhere, earned : Nat]] BY <1>17 DEF ServeInv, ServeTyped
  <2>2. Rt.lastIntent # intent BY <1>5, <1>17 DEF Known
  <2>3. said[P].move # Nothing => said[P].move.what # intent BY <1>14, <2>2
  <2>4. heard.move.n = 0 /\ heard.move.what = intent BY <1>11, <2>3 DEF Again, Nothing
  <2>5. told.move = [n |-> 1, what |-> intent] BY <1>9, <1>11, <1>13, <2>4 DEF Told, Note
  <2>6. told.move # Nothing BY <2>5 DEF Nothing
  <2> HIDE DEF meant, told, intent
  <2> QED BY <1>7, <1>13, <1>17, <2>1, <2>5, <2>6, TellingStays
<1> QED BY <1>15, <1>16, <1>17 DEF Moves

\* What the daemon decides of a position
LEMMA DecisionStays == ServeInv /\ Decides => ServeInv'
<1> SUFFICES ASSUME ServeInv, Decides PROVE ServeInv' OBVIOUS
<1>1. daemon.at = "deciding" /\ UNCHANGED <<serveTime, serveFile, inits, spots>> BY DEF Decides
<1>2. ASSUME Waits PROVE ServeInv' BY <1>1, <1>2, WaitStays
<1>3. ASSUME NEW due \in BOOLEAN, Holds(due) PROVE ServeInv' BY <1>1, <1>3, HoldStays
<1>4. ASSUME Moves PROVE ServeInv' BY <1>1, <1>4, MoveStays
<1>5. ASSUME NEW m \in Troubles, FailsBy(m), UNCHANGED nfts PROVE ServeInv' BY <1>1, <1>5, FailureStays
<1> QED BY <1>2, <1>3, <1>4, <1>5 DEF Decides

\* A step that leaves the daemon, what it watches and what it said alone
LEMMA ElsewhereStays ==
  ASSUME ServeInv, UNCHANGED <<daemon, watched, said>>, ServeTyped',
         (child.up => child.age <= NotifyTime + NotifyGrace)', (inits.at = "wrote" => Accepts(serveFile))'
  PROVE  ServeInv'
<1>1. \A p \in 1..Len(watched) : (ErrorIsTold(p) /\ MoveIsTold(p))'
  BY DEF ServeInv, ErrorIsTold, MoveIsTold, P
<1> QED BY <1>1 DEF ServeInv, P

\* alm init begins.
LEMMA InitStays == ASSUME ServeInv, NEW force \in BOOLEAN, InitBegins(force) PROVE ServeInv'
<1>1. UNCHANGED <<serveTime, serveFile, daemon, watched, spots, nfts, child, said>>
  BY DEF InitBegins
<1>2. inits' = [begun |-> inits.begun + 1, at |-> "asking"] BY DEF InitBegins
<1>3. ServeTyped' BY <1>1, <1>2 DEF ServeInv, ServeTyped, Busy, P
<1> QED BY <1>1, <1>2, <1>3, ElsewhereStays DEF ServeInv

\* It writes what serve accepts, or nothing.
LEMMA WriteStays == ServeInv /\ InitEnds => ServeInv'
<1> SUFFICES ASSUME ServeInv, InitEnds PROVE ServeInv' OBVIOUS
<1>1. UNCHANGED <<serveTime, daemon, watched, spots, nfts, child, said>> BY DEF InitEnds
<1> DEFINE found(again) == IF again /\ Found # <<>> THEN Append(Found, Found[1]) ELSE Found
           written(again) == [i \in DOMAIN found(again) |-> Entry(found(again)[i], TRUE)]
<1>2. PICK again \in BOOLEAN :
        /\ inits' = IF MayWrite(written(again)) /\ written(again) # <<>>
                    THEN [inits EXCEPT !.at = "wrote"] ELSE [inits EXCEPT !.at = "none"]
        /\ serveFile' = IF MayWrite(written(again)) /\ written(again) # <<>> THEN written(again) ELSE serveFile
  BY DEF InitEnds
<1>3. Found \in Seq(AlmPools)
  <2>1. {w \in AlmPools : nfts[w].place # NoPlace} \in SUBSET AlmPools OBVIOUS
  <2>2. IsFiniteSet({w \in AlmPools : nfts[w].place # NoPlace}) BY AlmServeAssumption, <2>1, FS_Subset
  <2>3. Found \in Seq({w \in AlmPools : nfts[w].place # NoPlace}) BY <2>2, ListsAll DEF Found
  <2> QED BY <2>1, <2>3
<1>4. found(again) \in Seq(AlmPools)
  <2>1. CASE again /\ Found # <<>>
    <3>1. Found[1] \in AlmPools BY <1>3, <2>1, EmptySeq
    <3> QED BY <1>3, <2>1, <3>1
  <2> QED BY <1>3, <2>1
<1>5. written(again) \in Seq(FileEntry)
  <2> DEFINE pools == found(again)
  <2>1. pools \in Seq(AlmPools) BY <1>4
  <2> HIDE DEF pools
  <2>2. \A i \in 1..Len(pools) : Entry(pools[i], TRUE) \in FileEntry BY <2>1 DEF Entry, FileEntry
  <2>3. DOMAIN pools = 1..Len(pools) /\ Len(pools) \in Nat BY <2>1
  <2>4. [i \in 1..Len(pools) |-> Entry(pools[i], TRUE)] \in [1..Len(pools) -> FileEntry] BY <2>2
  <2>5. [i \in 1..Len(pools) |-> Entry(pools[i], TRUE)] \in Seq(FileEntry)
    <3> DEFINE e == [i \in 1..Len(pools) |-> Entry(pools[i], TRUE)]
               n == Len(pools)
    <3>1. e \in [1..n -> FileEntry] /\ n \in Nat BY <2>3, <2>4
    <3> HIDE DEF e, n
    <3>2. e \in Seq(FileEntry) BY <3>1
    <3> QED BY <3>2 DEF e
  <2>6. [i \in DOMAIN pools |-> Entry(pools[i], TRUE)] \in Seq(FileEntry) BY <2>3, <2>5
  <2> QED BY <2>6 DEF pools
<1>6. \A i \in DOMAIN written(again) : written(again)[i].sound BY DEF Entry
<1>7. inits'.at = "wrote" => Accepts(serveFile') BY <1>2, <1>6 DEF Accepts, MayWrite, ServeInv, ServeTyped
<1>8. serveFile' \in Seq(FileEntry) /\ DOMAIN inits' = {"begun", "at"} /\ inits' = [f \in DOMAIN inits' |-> inits'[f]]
  BY <1>2, <1>5 DEF ServeInv, ServeTyped
<1>9. ServeTyped' BY <1>1, <1>8 DEF ServeInv, ServeTyped, Busy, P
<1>10. (inits.at = "wrote" => Accepts(serveFile))' BY <1>7 DEF Accepts, SharesNoPool
<1> QED BY <1>1, <1>9, <1>10, ElsewhereStays DEF ServeInv

\* The owner edits the file.
LEMMA FileStays ==
  ASSUME ServeInv, NEW w \in AlmPools, NEW sound \in BOOLEAN, EditFile(w, sound) PROVE ServeInv'
<1>1. UNCHANGED <<serveTime, daemon, watched, spots, nfts, child, said>> BY DEF EditFile
<1>2. serveFile' = Append(serveFile, Entry(w, sound)) /\ inits' = [begun |-> inits.begun + 1, at |-> "none"]
  BY DEF EditFile
<1>3. Entry(w, sound) \in FileEntry BY DEF Entry, FileEntry
<1>4. serveFile' \in Seq(FileEntry) BY <1>2, <1>3 DEF ServeInv, ServeTyped
<1>5. ServeTyped' BY <1>1, <1>2, <1>4 DEF ServeInv, ServeTyped, Busy, P
<1> QED BY <1>1, <1>2, <1>5, ElsewhereStays DEF ServeInv

\* A daemon starts with nothing told.
LEMMA DaemonStarts == ASSUME ServeInv, NEW executing \in BOOLEAN, Serve(executing) PROVE ServeInv'
<1>1. /\ daemon' = [Off EXCEPT !.at = "resting", !.executing = executing]
      /\ watched' = [i \in DOMAIN serveFile |-> [pool |-> serveFile[i].pool, rt |-> FreshRuntime]]
      /\ said' = [i \in DOMAIN serveFile |-> Unsaid]
      /\ inits' = [inits EXCEPT !.at = "none"]
      /\ UNCHANGED <<serveTime, serveFile, spots, nfts, child>>
  BY DEF Serve
<1>2. serveFile \in Seq(FileEntry) /\ Len(serveFile) \in Nat /\ DOMAIN serveFile = 1..Len(serveFile)
  BY DEF ServeInv, ServeTyped
<1>3. serveFile # <<>> BY DEF Serve, Accepts
<1>4. FreshRuntime \in Runtime
  BY DEF FreshRuntime, Runtime, NoSnapshot, Snapshots, Somewhere, Intents
<1>5. Unsaid \in Notes BY DEF Unsaid, Notes, Nothing, Note, Intents
<1>6. ASSUME NEW i \in 1..Len(serveFile) PROVE [pool |-> serveFile[i].pool, rt |-> FreshRuntime] \in WatchedOne
  <2>1. serveFile[i] \in FileEntry BY <1>2
  <2>2. serveFile[i].pool \in AlmPools BY <2>1 DEF FileEntry
  <2> QED BY <1>4, <2>2 DEF WatchedOne
<1>7. watched' \in Seq(WatchedOne) /\ Len(watched') = Len(serveFile) BY <1>1, <1>2, <1>6
<1>8. said' \in Seq(Notes) /\ Len(said') = Len(serveFile) BY <1>1, <1>2, <1>5
<1>9. watched' # <<>>
  <2>1. Len(serveFile) # 0 BY <1>2, <1>3, EmptySeq
  <2> QED BY <1>7, <2>1
<1>10. daemon' \in Daemon /\ daemon'.at = "resting" BY <1>1 DEF Off, Daemon, Somewhere
<1>11. DOMAIN inits' = {"begun", "at"} /\ inits' = [f \in DOMAIN inits' |-> inits'[f]] /\ inits'.at = "none"
  BY <1>1 DEF ServeInv, ServeTyped
<1>12. ServeTyped' BY <1>1, <1>7, <1>8, <1>9, <1>10, <1>11 DEF ServeInv, ServeTyped, Busy
<1>13. ASSUME NEW p \in 1..Len(serveFile) PROVE (ErrorIsTold(p) /\ MoveIsTold(p))'
  <2>1. said'[p] = Unsaid /\ watched'[p].rt = FreshRuntime BY <1>1, <1>2
  <2>2. said'[p].error = Nothing /\ said'[p].move = Nothing BY <2>1 DEF Unsaid
  <2>3. watched'[p].rt.lastError = NoTrouble /\ watched'[p].rt.lastIntent = <<"none">> BY <2>1 DEF FreshRuntime
  <2>4. ~IsMove(<<"none">>) BY IntentsDiffer DEF IsMove
  <2> QED BY <2>2, <2>3, <2>4 DEF ErrorIsTold, MoveIsTold
<1> QED BY <1>1, <1>7, <1>10, <1>11, <1>12, <1>13 DEF ServeInv

\* It is interrupted, and what it knew is gone.
LEMMA InterruptStays == ServeInv /\ Interrupt => ServeInv'
<1> SUFFICES ASSUME ServeInv, Interrupt PROVE ServeInv' OBVIOUS
<1>1. /\ daemon' = [Off EXCEPT !.passes = daemon.passes] /\ watched' = <<>> /\ said' = <<>> /\ child' = NoChild
      /\ UNCHANGED <<serveTime, serveFile, inits, spots, nfts>>
  BY DEF Interrupt
<1>2. daemon' \in Daemon /\ daemon'.at = "off" BY <1>1 DEF Off, Daemon, Somewhere, ServeInv, ServeTyped
<1>3. child' \in Child /\ ~child'.up BY <1>1 DEF NoChild, Child
<1>4. watched' \in Seq(WatchedOne) /\ said' \in Seq(Notes) /\ Len(watched') = 0 /\ Len(said') = 0 BY <1>1
<1>5. ServeTyped' BY <1>1, <1>2, <1>3, <1>4 DEF ServeInv, ServeTyped, Busy
<1> QED BY <1>1, <1>2, <1>3, <1>4, <1>5 DEF ServeInv, Accepts, SharesNoPool

\* A pass begins with the first position.
LEMMA PassStays == ServeInv /\ PassBegins => ServeInv'
<1> SUFFICES ASSUME ServeInv, PassBegins PROVE ServeInv' OBVIOUS
<1>1. daemon.at = "resting" /\ UNCHANGED <<serveTime, serveFile, inits, watched, spots, nfts, child, said>>
  BY DEF PassBegins
<1>2. /\ daemon' \in Daemon /\ daemon'.executing = daemon.executing
      /\ daemon'.at \in {"reading", "resting"} /\ (daemon'.at = "reading" => daemon'.pos = 1)
  <2>1. daemon \in Daemon /\ daemon.passes + 1 \in Nat BY DEF ServeInv, ServeTyped, Daemon
  <2>2. CASE daemon' = [daemon EXCEPT !.at = "reading", !.pos = 1, !.passes = @ + 1] BY <2>1, <2>2 DEF Daemon
  <2>3. CASE daemon' = [daemon EXCEPT !.passes = @ + 1] BY <1>1, <2>1, <2>3 DEF Daemon
  <2> QED BY <2>2, <2>3 DEF PassBegins
<1>3. 1 \in 1..Len(watched)
  <2>1. watched # <<>> /\ watched \in Seq(WatchedOne) BY <1>1 DEF ServeInv, ServeTyped
  <2>2. Len(watched) # 0 /\ Len(watched) \in Nat BY <2>1, EmptySeq
  <2> QED BY <2>2
<1>4. ServeTyped' BY <1>1, <1>2, <1>3 DEF ServeInv, ServeTyped, Busy, P
<1>5. \A p \in 1..Len(watched) : (ErrorIsTold(p) /\ MoveIsTold(p))'
  BY <1>1, <1>2 DEF ServeInv, ErrorIsTold, MoveIsTold
<1> QED BY <1>1, <1>2, <1>4, <1>5 DEF ServeInv, Accepts, SharesNoPool

\* The notification's process ends, and the pass goes on.
LEMMA NoteEnds == ServeInv /\ ChildEnds => ServeInv'
<1> SUFFICES ASSUME ServeInv, ChildEnds PROVE ServeInv' OBVIOUS
<1>0. daemon.at = "noting" /\ Busy BY DEF ChildEnds, Busy
<1>1. /\ child' = NoChild /\ UNCHANGED <<serveTime, serveFile, inits, spots, nfts, said>>
  BY DEF ChildEnds
<1>2. /\ P \in 1..Len(watched) /\ P \in 1..Len(said) /\ Rt \in Runtime /\ said[P] \in Notes
      /\ ErrorIsTold(P) /\ MoveIsTold(P)
  BY <1>0, SeenTyped DEF ServeInv, ServeTyped
<1>3. said' = [said EXCEPT ![P] = said[P]] BY <1>1, <1>2 DEF ServeInv, ServeTyped
<1>4. child' \in Child /\ ~child'.up BY <1>1 DEF NoChild, Child
<1>5. nfts' \in [AlmPools -> [place : Somewhere, earned : Nat]] BY <1>1 DEF ServeInv, ServeTyped
<1>6. /\ said[P].move # Nothing => said[P].move = [n |-> 1, what |-> Rt.lastIntent]
      /\ IsMove(Rt.lastIntent) => said[P].move # Nothing /\ ~daemon.executing
  BY <1>2 DEF MoveIsTold, Rt
<1>7. NoSnapshot \in Snapshots BY DEF NoSnapshot, Snapshots, Somewhere
<1>8. CASE daemon.after = "error"
  <2> DEFINE rt == [Rt EXCEPT !.snapshot = NoSnapshot]
  <2>1. rt \in Runtime /\ rt.lastError = Rt.lastError /\ rt.lastIntent = Rt.lastIntent BY <1>2, <1>7 DEF Runtime
  <2>2. Sets(rt) /\ daemon' = AfterFailure BY <1>8 DEF ChildEnds
  <2>3. /\ daemon' \in Daemon /\ daemon'.executing = daemon.executing /\ daemon'.at \notin {"off", "noting"}
        /\ Busy' => P' \in 1..Len(watched)
    BY <1>0, <2>2, NextTyped DEF P, Busy
  <2>4. /\ said[P].error # Nothing => rt.lastError # NoTrouble /\ said[P].error = [n |-> 1, what |-> <<rt.lastError>>]
        /\ ~(rt.lastError # NoTrouble /\ said[P].error = Nothing)
    BY <1>2, <1>8, <2>1 DEF ErrorIsTold, Rt
  <2> HIDE DEF rt
  <2> QED BY <1>0, <1>1, <1>2, <1>3, <1>4, <1>5, <1>6, <2>1, <2>2, <2>3, <2>4, NotingStays
<1>9. CASE daemon.after # "error"
  <2>1. Well(Rt) \in Runtime /\ Well(Rt).lastError = NoTrouble /\ Well(Rt).lastIntent = Rt.lastIntent
    BY <1>2 DEF Well, Runtime
  <2>2. Sets(Well(Rt)) /\ daemon' = NextPosition BY <1>9 DEF ChildEnds
  <2>3. /\ daemon' \in Daemon /\ daemon'.executing = daemon.executing /\ daemon'.at \notin {"off", "noting"}
        /\ Busy' => P' \in 1..Len(watched)
    BY <1>0, <2>2, NextTyped DEF P, Busy
  <2>4. said[P].error = Nothing BY <1>0, <1>9 DEF ServeInv
  <2> QED BY <1>0, <1>1, <1>2, <1>3, <1>4, <1>5, <1>6, <2>1, <2>2, <2>3, <2>4, NotingStays
<1> QED BY <1>8, <1>9

\* A note that must end is not waited for.
LEMMA TickStays == ServeInv /\ ServeTick => ServeInv'
<1> SUFFICES ASSUME ServeInv, ServeTick PROVE ServeInv' OBVIOUS
<1>1. UNCHANGED <<serveFile, inits, daemon, watched, spots, nfts, said>> /\ serveTime' = serveTime + 1
  BY DEF ServeTick
<1>2. child \in Child BY DEF ServeInv, ServeTyped
<1>3. child' \in Child /\ (child'.up => child'.age <= NotifyTime + NotifyGrace)
  <2>1. CASE ~child.up
    <3>1. child' = child BY <2>1 DEF ServeTick
    <3> QED BY <1>2, <2>1, <3>1
  <2>2. CASE child.up
    <3>1. ~(child.age >= NotifyTime + NotifyGrace) BY <2>2 DEF ServeTick, MustEnd, Killed
    <3>2. child' = [child EXCEPT !.age = @ + 1] BY <2>2 DEF ServeTick
    <3>3. child.age \in Nat BY <1>2 DEF Child
    <3>4. child' \in Child /\ child'.age = child.age + 1 BY <1>2, <3>2, <3>3 DEF Child
    <3>5. NotifyTime \in Nat /\ NotifyGrace \in Nat BY AlmServeAssumption
    <3> QED BY <3>1, <3>3, <3>4, <3>5
  <2> QED BY <2>1, <2>2
<1>4. ServeTyped' BY <1>1, <1>3 DEF ServeInv, ServeTyped, Busy, P
<1> QED BY <1>1, <1>3, <1>4, ElsewhereStays DEF ServeInv, Accepts, SharesNoPool

\* Prices and positions move.
LEMMA WorldStays == ServeInv /\ ServeWorld => ServeInv'
<1> SUFFICES ASSUME ServeInv, ServeWorld PROVE ServeInv' OBVIOUS
<1>1. UNCHANGED <<serveTime, serveFile, inits, daemon, watched, child, said>> BY DEF ServeWorld
<1>2. 0..MaxEarned \subseteq Nat BY AlmServeAssumption
<1>3. spots' \in [AlmPools -> Somewhere] /\ nfts' \in [AlmPools -> [place : Somewhere, earned : Nat]]
  <2>0. /\ spots \in [AlmPools -> Somewhere] /\ nfts \in [AlmPools -> [place : Somewhere, earned : Nat]]
        /\ ServePlaces \subseteq Somewhere
    BY DEF ServeInv, ServeTyped, Somewhere
  <2>1. PICK w \in AlmPools :
          \/ \E c \in ServePlaces : spots' = [spots EXCEPT ![w] = c] /\ UNCHANGED nfts
          \/ \E c \in Somewhere, e \in 0..MaxEarned :
               nfts' = [nfts EXCEPT ![w] = [place |-> c, earned |-> e]] /\ UNCHANGED spots
    BY DEF ServeWorld, Somewhere
  <2>2. ASSUME NEW c \in ServePlaces, spots' = [spots EXCEPT ![w] = c], UNCHANGED nfts
        PROVE  spots' \in [AlmPools -> Somewhere] /\ nfts' \in [AlmPools -> [place : Somewhere, earned : Nat]]
    BY <2>0, <2>2
  <2>3. ASSUME NEW c \in Somewhere, NEW e \in 0..MaxEarned,
               nfts' = [nfts EXCEPT ![w] = [place |-> c, earned |-> e]], UNCHANGED spots
        PROVE  spots' \in [AlmPools -> Somewhere] /\ nfts' \in [AlmPools -> [place : Somewhere, earned : Nat]]
    <3>1. [place |-> c, earned |-> e] \in [place : Somewhere, earned : Nat] BY <1>2
    <3> QED BY <2>0, <2>3, <3>1
  <2> QED BY <2>1, <2>2, <2>3
<1>4. ServeTyped' BY <1>1, <1>3 DEF ServeInv, ServeTyped, Busy, P
<1> QED BY <1>1, <1>4, ElsewhereStays DEF ServeInv, Accepts, SharesNoPool

\* Every step of the daemon and its surroundings keeps the invariant.
LEMMA ServeStep == ASSUME ServeInv, [ServeNext]_serveVars PROVE ServeInv'
<1>1. CASE UNCHANGED serveVars
  <2>1. ServeTyped' BY <1>1 DEF serveVars, ServeInv, ServeTyped, Busy, P
  <2> QED BY <1>1, <2>1, ElsewhereStays DEF serveVars, ServeInv, Accepts, SharesNoPool
<1>2. CASE ServeNext
  BY <1>2, InitStays, WriteStays, FileStays, DaemonStarts, InterruptStays, PassStays, SpotStays,
     DecisionStays, NoteEnds, TickStays, WorldStays DEF ServeNext
<1> QED BY <1>1, <1>2

\* The invariant is as strong as the property.
LEMMA NotesTold == ServeInv => NotesAreTold
<1> SUFFICES ASSUME ServeInv PROVE NotesAreTold OBVIOUS
<1>1. ASSUME NEW p \in DOMAIN said PROVE ToldOnce(said[p].error) /\ ToldOnce(said[p].move)
  <2>1. p \in 1..Len(watched) BY DEF ServeInv, ServeTyped
  <2>2. ErrorIsTold(p) /\ MoveIsTold(p) BY <2>1 DEF ServeInv
  <2> QED BY <2>2 DEF ToldOnce, ErrorIsTold, MoveIsTold
<1> QED BY <1>1 DEF ServeInv, NotesAreTold
-----------------------------------------------------------------------------
(***************************************************************************)
(* alm/strategy.ts: where a strategy moves a position to, for any spacing, *)
(* domain, widths and steps. The provers know no division by a number that *)
(* is not a literal: the grid is treated as the multiples of the spacing.  *)
(***************************************************************************)

(* The grid of ticks *)

OnTick(x) == x \in Int /\ x % Spacing = 0
TopTick == AlignDown(MaxAbsTick)

\* Quotient and rest, for a divisor that is not known
LEMMA QuotientAndRest ==
  ASSUME NEW b \in Nat \ {0}, NEW x \in Int
  PROVE  x \div b \in Int /\ x % b \in 0..(b - 1) /\ x = (x \div b) * b + (x % b)
<1>1. x = b * (x \div b) + (x % b) /\ x % b \in 0..(b - 1) BY SMTT(30)
<1>2. x \div b \in Int BY SMTT(30)
<1> QED BY <1>1, <1>2, SMTT(30)

\* A product with a number that is not between -1 and 1 is at least as far from 0.
LEMMA FarProduct ==
  ASSUME NEW b \in Nat \ {0}, NEW j \in Int
  PROVE  (j >= 1 => j * b >= b) /\ (j <= -1 => j * b <= -b) /\ j * b \in Int
<1>1. ASSUME j >= 1 PROVE j * b >= b
  <2>1. j - 1 \in Nat BY <1>1
  <2>2. (j - 1) * b >= 0 BY <2>1, SMTT(30)
  <2>3. j * b = (j - 1) * b + b BY SMTT(30)
  <2> QED BY <2>1, <2>2, <2>3
<1>2. ASSUME j <= -1 PROVE j * b <= -b
  <2>1. -j - 1 \in Nat BY <1>2
  <2>2. (-j - 1) * b >= 0 BY <2>1, SMTT(30)
  <2>3. j * b = -((-j - 1) * b) - b BY SMTT(30)
  <2>4. (-j - 1) * b \in Int BY <2>1
  <2> QED BY <2>2, <2>3, <2>4
<1> QED BY <1>1, <1>2

\* The ticks of the grid are the multiples of the spacing.
LEMMA Multiples ==
  ASSUME NEW x \in Int
  PROVE  x % Spacing = 0 <=> \E k \in Int : x = k * Spacing
<1>0. Spacing \in Nat \ {0} BY RangeAssumption
<1>1. x \div Spacing \in Int /\ x % Spacing \in 0..(Spacing - 1) /\ x = (x \div Spacing) * Spacing + (x % Spacing)
  BY <1>0, QuotientAndRest
<1>2. ASSUME x % Spacing = 0 PROVE \E k \in Int : x = k * Spacing
  <2>1. x = (x \div Spacing) * Spacing
    <3> DEFINE y == (x \div Spacing) * Spacing
    <3>1. y \in Int BY <1>0, <1>1
    <3>2. x = y + 0 BY <1>1, <1>2
    <3> HIDE DEF y
    <3>3. x = y BY <3>1, <3>2
    <3> QED BY <3>3 DEF y
  <2> QED BY <1>1, <2>1
<1>3. ASSUME NEW k \in Int, x = k * Spacing PROVE x % Spacing = 0
  <2> DEFINE q == x \div Spacing
             j == k - q
             r == x % Spacing
  <2>1. q \in Int /\ j \in Int /\ r \in 0..(Spacing - 1) BY <1>1
  <2>2. j * Spacing = r
    <3>1. j * Spacing = k * Spacing - q * Spacing BY <1>0, <2>1, SMTT(30)
    <3>2. k * Spacing = q * Spacing + r BY <1>1, <1>3
    <3>3. k * Spacing \in Int /\ q * Spacing \in Int BY <1>0, <2>1
    <3> HIDE DEF q, j, r
    <3> QED BY <1>0, <2>1, <3>1, <3>2, <3>3
  <2> HIDE DEF q, j, r
  <2>3. ~(j >= 1) /\ ~(j <= -1) BY <1>0, <2>1, <2>2, FarProduct
  <2>4. j = 0 BY <2>1, <2>3
  <2>5. r = 0 BY <1>0, <2>1, <2>2, <2>4
  <2> QED BY <2>5 DEF r
<1> QED BY <1>2, <1>3

\* Sums, differences and multiples of ticks of the grid are on it.
LEMMA GridClosed ==
  ASSUME NEW x, OnTick(x), NEW y, OnTick(y), NEW j \in Int
  PROVE  OnTick(x + y) /\ OnTick(x - y) /\ OnTick(-x) /\ OnTick(j * x) /\ OnTick(j * Spacing)
<1>0. Spacing \in Nat \ {0} /\ x \in Int /\ y \in Int BY RangeAssumption DEF OnTick
<1>1. PICK a \in Int : x = a * Spacing BY <1>0, Multiples DEF OnTick
<1>2. PICK b \in Int : y = b * Spacing BY <1>0, Multiples DEF OnTick
<1>3. x + y = (a + b) * Spacing BY <1>0, <1>1, <1>2, SMTT(30)
<1>4. x - y = (a - b) * Spacing BY <1>0, <1>1, <1>2, SMTT(30)
<1>5. -x = (-a) * Spacing BY <1>0, <1>1, SMTT(30)
<1>6. j * x = (j * a) * Spacing BY <1>0, <1>1, SMTT(30)
<1>7. a + b \in Int /\ a - b \in Int /\ -a \in Int /\ j * a \in Int BY SMTT(30)
<1>8. x + y \in Int /\ x - y \in Int /\ -x \in Int /\ j * x \in Int /\ j * Spacing \in Int BY <1>0, SMTT(30)
<1> QED BY <1>3, <1>4, <1>5, <1>6, <1>7, <1>8, Multiples DEF OnTick

\* Two ticks of the grid are a spacing apart.
LEMMA GridGap ==
  ASSUME NEW x, OnTick(x), NEW y, OnTick(y), x < y
  PROVE  x + Spacing <= y
<1>0. Spacing \in Nat \ {0} /\ x \in Int /\ y \in Int BY RangeAssumption DEF OnTick
<1>1. OnTick(y - x) BY GridClosed
<1>2. PICK k \in Int : y - x = k * Spacing BY <1>0, <1>1, Multiples DEF OnTick
<1>3. k >= 1
  <2>1. y - x > 0 BY <1>0
  <2>2. k = 0 => k * Spacing = 0 BY <1>0
  <2>3. k <= -1 => k * Spacing <= -Spacing BY <1>0, FarProduct
  <2> QED BY <1>0, <1>2, <2>1, <2>2, <2>3
<1>4. k * Spacing >= Spacing BY <1>0, <1>3, FarProduct
<1> QED BY <1>0, <1>2, <1>4

\* What aligning a tick gives
LEMMA Aligned ==
  ASSUME NEW t \in Int
  PROVE  /\ OnTick(AlignDown(t)) /\ AlignDown(t) <= t /\ t < AlignDown(t) + Spacing
         /\ OnTick(AlignUp(t)) /\ t <= AlignUp(t) /\ AlignUp(t) < t + Spacing
<1>0. Spacing \in Nat \ {0} BY RangeAssumption
<1>1. ASSUME NEW x \in Int
      PROVE  OnTick(AlignDown(x)) /\ AlignDown(x) <= x /\ x < AlignDown(x) + Spacing
  <2>1. x \div Spacing \in Int /\ x % Spacing \in 0..(Spacing - 1) /\ x = AlignDown(x) + (x % Spacing)
    BY <1>0, QuotientAndRest DEF AlignDown
  <2>2. AlignDown(x) \in Int BY <1>0, <2>1 DEF AlignDown
  <2>3. AlignDown(x) % Spacing = 0 BY <2>1, <2>2, Multiples DEF AlignDown
  <2> QED BY <1>0, <2>1, <2>2, <2>3 DEF OnTick
<1>2. -t \in Int OBVIOUS
<1>3. OnTick(AlignDown(-t)) /\ AlignDown(-t) <= -t /\ -t < AlignDown(-t) + Spacing BY <1>1, <1>2
<1>4. OnTick(AlignUp(t)) BY <1>3, GridClosed DEF AlignUp
<1>5. AlignDown(-t) \in Int BY <1>3 DEF OnTick
<1> QED BY <1>0, <1>1, <1>3, <1>4, <1>5 DEF AlignUp

\* The ends of the grid
LEMMA Ends == OnTick(TopTick) /\ TopTick \in Int /\ TopTick >= Spacing /\ TopTick <= MaxAbsTick /\ Spacing \in Nat \ {0} /\ OnTick(-TopTick)
<1>1. Spacing \in Nat \ {0} /\ MaxAbsTick \in Nat /\ MaxAbsTick > Spacing BY RangeAssumption
<1>2. OnTick(TopTick) /\ TopTick <= MaxAbsTick /\ MaxAbsTick < TopTick + Spacing BY <1>1, Aligned DEF TopTick
<1>3. TopTick \in Int BY <1>2 DEF OnTick
<1>4. 0 \in Int /\ 0 % Spacing = 0
  <2>1. 0 = 0 * Spacing BY <1>1
  <2> QED BY <2>1, Multiples
<1>5. OnTick(0) BY <1>4 DEF OnTick
<1>6. 0 < TopTick BY <1>1, <1>2, <1>3
<1>7. 0 + Spacing <= TopTick BY <1>2, <1>5, <1>6, GridGap
<1> QED BY <1>1, <1>2, <1>3, <1>7, GridClosed

-----------------------------------------------------------------------------
(* Intervals *)

\* An interval on the grid: what it is, and that it can be clamped
IsRange(r) == OnTick(r.lower) /\ OnTick(r.upper) /\ r.lower < r.upper
ClampedTo(r, lower, upper) ==
  /\ r = [lower |-> r.lower, upper |-> r.upper]
  /\ IsRange(r) /\ r.lower >= -TopTick /\ r.upper <= TopTick
  /\ Width(r) = upper - lower \/ Width(r) = 2 * TopTick
  /\ Width(r) <= upper - lower
  /\ \A t \in Int : t >= lower /\ t < upper /\ t >= -TopTick /\ t < TopTick => Inside(t, r, 0)
  /\ lower >= -TopTick /\ upper <= TopTick => r = [lower |-> lower, upper |-> upper]

\* Clamping keeps the grid, the width (up to that of the domain) and the ticks of the domain.
LEMMA Clamped ==
  ASSUME NEW lower, OnTick(lower), NEW upper, OnTick(upper), lower < upper
  PROVE  ClampedTo(Clamp(lower, upper), lower, upper)
<1> DEFINE l1 == IF upper > TopTick THEN lower - (upper - TopTick) ELSE lower
           u1 == IF upper > TopTick THEN TopTick ELSE upper
           u2 == IF l1 < -TopTick THEN u1 + (-TopTick - l1) ELSE u1
           r == [lower |-> IF l1 < -TopTick THEN -TopTick ELSE l1, upper |-> IF u2 > TopTick THEN TopTick ELSE u2]
<1>0. lower \in Int /\ upper \in Int BY DEF OnTick
<1>1. Clamp(lower, upper) = r BY DEF Clamp, TopTick
<1>2. OnTick(l1)
  <2>1. OnTick(upper - TopTick) BY Ends, GridClosed
  <2> QED BY <2>1, GridClosed
<1>3. OnTick(u1) BY Ends
<1>4. OnTick(u2)
  <2>1. OnTick(-TopTick - l1) BY <1>2, Ends, GridClosed
  <2>2. OnTick(u1 + (-TopTick - l1)) BY <1>3, <2>1, GridClosed
  <2> QED BY <1>3, <2>2
<1>5. l1 \in Int /\ u1 \in Int /\ u2 \in Int BY <1>2, <1>3, <1>4 DEF OnTick
<1>6. TopTick \in Int /\ TopTick > 0 BY Ends
<1>7. l1 < u1 /\ u1 <= TopTick /\ u1 - l1 = upper - lower BY <1>0, <1>6
<1>8. upper <= TopTick => l1 = lower /\ u1 = upper BY <1>0, <1>6
<1>9. upper > TopTick => l1 <= lower /\ u1 = TopTick BY <1>0, <1>6
<1>10. l1 < -TopTick => u2 = u1 + (-TopTick - l1) BY DEF u2
<1>11. l1 >= -TopTick => u2 = u1 BY <1>5, <1>6
<1>12. r.lower = (IF l1 < -TopTick THEN -TopTick ELSE l1) /\ r.upper = (IF u2 > TopTick THEN TopTick ELSE u2)
       /\ r = [lower |-> r.lower, upper |-> r.upper]
  OBVIOUS
<1>13. OnTick(r.lower) /\ OnTick(r.upper) BY <1>2, <1>4, <1>12, Ends
<1>14. r.lower \in Int /\ r.upper \in Int BY <1>13 DEF OnTick
<1> HIDE DEF l1, u1, u2
<1>15. r.lower < r.upper /\ r.lower >= -TopTick /\ r.upper <= TopTick
  BY <1>5, <1>6, <1>7, <1>10, <1>11, <1>12, <1>14
<1>16. /\ r.upper - r.lower = upper - lower \/ r.upper - r.lower = 2 * TopTick
       /\ r.upper - r.lower <= upper - lower
  BY <1>0, <1>5, <1>6, <1>7, <1>10, <1>11, <1>12, <1>14
<1>17. ASSUME NEW t \in Int, t >= lower, t < upper, t >= -TopTick, t < TopTick
       PROVE  t >= r.lower /\ t < r.upper
  <2>1. t >= l1 /\ (upper > TopTick => t < u1) /\ t < u2
    BY <1>0, <1>5, <1>6, <1>7, <1>8, <1>9, <1>10, <1>11, <1>17
  <2> QED BY <1>5, <1>6, <1>12, <1>17, <2>1
<1>18. ASSUME lower >= -TopTick, upper <= TopTick PROVE r.lower = lower /\ r.upper = upper
  BY <1>0, <1>5, <1>6, <1>8, <1>11, <1>12, <1>18
<1>19. /\ r = [lower |-> r.lower, upper |-> r.upper]
       /\ lower >= -TopTick /\ upper <= TopTick => r = [lower |-> lower, upper |-> upper]
  BY <1>12, <1>18
<1> HIDE DEF r
<1>20. \A t \in Int : t >= lower /\ t < upper /\ t >= -TopTick /\ t < TopTick => Inside(t, r, 0)
  BY <1>14, <1>17 DEF Inside
<1> QED BY <1>1, <1>13, <1>15, <1>16, <1>19, <1>20 DEF ClampedTo, IsRange, Width

\* A tick that lies well within the domain
LEMMA WellWithin ==
  ASSUME NEW t \in Int, InDomain(t) PROVE t < TopTick - Spacing /\ -t < TopTick - Spacing
BY Ends DEF InDomain, Abs, TopTick

\* The interval around a tick has the width it is to have and holds the tick.
LEMMA CenteredHolds ==
  ASSUME NEW t \in Int, NEW w, OnTick(w), w > 0
  PROVE  \E lower : /\ OnTick(lower) /\ lower <= t /\ t < lower + w /\ lower > t - w - Spacing
                    /\ Centered(t, w) = Clamp(lower, lower + w) /\ OnTick(lower + w)
<1>0. Spacing \in Nat \ {0} /\ w \in Int BY Ends DEF OnTick
<1> DEFINE x == 2 * t - w + Spacing
           q == x \div (2 * Spacing)
           lower == q * Spacing
<1>1. x \in Int /\ 2 * Spacing \in Nat \ {0} BY <1>0
<1>2. q \in Int /\ x % (2 * Spacing) \in 0..(2 * Spacing - 1) /\ x = q * (2 * Spacing) + (x % (2 * Spacing))
  BY <1>1, QuotientAndRest
<1>3. lower \in Int BY <1>0, <1>2
<1>4. q * (2 * Spacing) = 2 * lower
  <2>1. \A a, b \in Int : a * (2 * b) = 2 * (a * b) BY SMTT(30)
  <2>2. q \in Int /\ Spacing \in Int BY <1>0, <1>2
  <2> HIDE DEF q
  <2> QED BY <2>1, <2>2
<1>5. OnTick(lower) BY <1>2, Ends, GridClosed
<1>6. Centered(t, w) = Clamp(lower, lower + w) BY DEF Centered
<1>7. OnTick(lower + w) BY <1>5, GridClosed
<1>8. w >= Spacing
  <2>1. 0 = 0 * Spacing BY <1>0
  <2>2. OnTick(0) BY <2>1, Multiples DEF OnTick
  <2> QED BY <1>0, <2>2, GridGap
<1> HIDE DEF lower, q
<1>9. 2 * lower <= x /\ x < 2 * lower + 2 * Spacing BY <1>0, <1>1, <1>2, <1>3, <1>4
<1>10. lower <= t /\ t < lower + w /\ lower > t - w - Spacing BY <1>0, <1>3, <1>8, <1>9
<1> QED BY <1>5, <1>6, <1>7, <1>10

\* An interval on the grid that keeps the promise
Lands(t, r, s) == IsRange(r) /\ Follows(t, r, s)

\* What is promised of an interval that was clamped
LEMMA ClampFollows ==
  ASSUME NEW t \in Int, NEW s, s.width \in Nat, s.maxWidth \in Nat,
         NEW lower, OnTick(lower), NEW upper, OnTick(upper), lower < upper,
         upper - lower <= MaxOf(s.width, s.maxWidth),
         s.strategy # "expand" => upper - lower = s.width,
         InDomain(t) => \/ Inside(t, Clamp(lower, upper), 0)
                        \/ s.strategy \notin {"original", "expand"} /\ Beside(t, Clamp(lower, upper))
  PROVE  Lands(t, Clamp(lower, upper), s)
<1> DEFINE r == Clamp(lower, upper)
<1>1. ClampedTo(r, lower, upper) BY Clamped
<1> HIDE DEF r
<1>2. r.lower \in Int /\ r.upper \in Int /\ lower \in Int /\ upper \in Int
  BY <1>1 DEF ClampedTo, IsRange, OnTick
<1>3. OnGrid(r)
  <2>1. r.lower < r.upper /\ r.lower >= -TopTick /\ r.upper <= TopTick BY <1>1 DEF ClampedTo, IsRange
  <2>2. r.lower % Spacing = 0 /\ r.upper % Spacing = 0 BY <1>1 DEF ClampedTo, IsRange, OnTick
  <2>3. TopTick \in Int /\ TopTick <= MaxAbsTick /\ MaxAbsTick \in Int BY Ends, RangeAssumption
  <2>4. r.lower >= -MaxAbsTick /\ r.upper <= MaxAbsTick BY <1>2, <2>1, <2>3
  <2> QED BY <2>1, <2>2, <2>4 DEF OnGrid
<1>4. Width(r) <= MaxOf(s.width, s.maxWidth) BY <1>1, <1>2 DEF ClampedTo, Width, MaxOf
<1>5. s.strategy # "expand" => Width(r) = s.width \/ Width(r) = 2 * AlignDown(MaxAbsTick)
  BY <1>1 DEF ClampedTo, TopTick
<1>6. IsRange(r) BY <1>1 DEF ClampedTo
<1> QED BY <1>3, <1>4, <1>5, <1>6 DEF Lands, Follows, r

\* An interval around the tick follows it.
LEMMA CenteredFollows ==
  ASSUME NEW t \in Int, NEW s, s.width \in Nat, s.maxWidth \in Nat, OnTick(s.width), s.width > 0
  PROVE  Lands(t, Centered(t, s.width), s)
<1>1. PICK lower : /\ OnTick(lower) /\ lower <= t /\ t < lower + s.width
                   /\ Centered(t, s.width) = Clamp(lower, lower + s.width) /\ OnTick(lower + s.width)
  BY CenteredHolds
<1>2. lower \in Int /\ lower < lower + s.width /\ (lower + s.width) - lower = s.width BY <1>1 DEF OnTick
<1>3. s.width <= MaxOf(s.width, s.maxWidth) BY DEF MaxOf
<1>4. InDomain(t) => Inside(t, Clamp(lower, lower + s.width), 0)
  <2>1. ClampedTo(Clamp(lower, lower + s.width), lower, lower + s.width) BY <1>1, <1>2, Clamped
  <2>2. InDomain(t) => t >= -TopTick /\ t < TopTick BY WellWithin, Ends
  <2> QED BY <1>1, <2>1, <2>2 DEF ClampedTo
<1> QED BY <1>1, <1>2, <1>3, <1>4, ClampFollows

-----------------------------------------------------------------------------
(* Settings *)

\* What is used of the settings of a strategy
SoundSettings(s) ==
  /\ s.width \in Nat /\ s.neighborhood \in Nat /\ s.step \in Nat /\ s.maxWidth \in Nat
  /\ s.strategy \in {"original", "lazy-syncing", "lazy-ascending", "lazy-descending", "expand"}

\* Settings are sound, and those of a position that has their width are the same.
LEMMA SettingsSound ==
  ASSUME NEW r \in Rules, NEW w \in Nat
  PROVE  /\ SoundSettings(Settings(r, w))
         /\ Settings(r, Settings(r, w).width) = Settings(r, w)
         /\ Settings(r, w).neighborhood = r.neighborhood /\ Settings(r, w).strategy = r.strategy
<1>0. /\ r.width \in Nat /\ r.neighborhood \in Nat /\ r.step \in Nat /\ r.maxWidth \in Nat /\ DefaultWidth \in Nat
      /\ r.strategy \in {"original", "lazy-syncing", "lazy-ascending", "lazy-descending", "expand"}
      /\ Spacing \in Nat \ {0}
  BY RangeAssumption
<1> DEFINE v == Or(r.width, w)
           unset == Spacing * MaxOf(1, (DefaultWidth + 5 * Spacing) \div (10 * Spacing))
           s == Settings(r, w)
<1>1. v \in Nat BY <1>0 DEF Or
<1>2. unset \in Nat
  <2> DEFINE x == DefaultWidth + 5 * Spacing
             y == 10 * Spacing
  <2>1. x \in Int /\ y \in Nat \ {0} BY <1>0
  <2>2. x \div y \in Int BY <2>1, QuotientAndRest
  <2> HIDE DEF x, y
  <2>3. MaxOf(1, x \div y) \in Nat BY <2>2 DEF MaxOf
  <2>4. Spacing * MaxOf(1, x \div y) \in Nat BY <1>0, <2>3, SMTT(30)
  <2> QED BY <2>4 DEF x, y
<1>3. MaxOf(v * 2, DefaultWidth * 2) \in Nat BY <1>0, <1>1 DEF MaxOf
<1>4. s = [strategy |-> r.strategy, width |-> v, neighborhood |-> r.neighborhood,
           step |-> Or(r.step, unset), maxWidth |-> Or(r.maxWidth, MaxOf(v * 2, DefaultWidth * 2))]
  BY DEF Settings
<1>5. Or(r.width, v) = v BY DEF Or
<1> HIDE DEF unset, s
<1>6. s.width = v /\ s.neighborhood = r.neighborhood /\ s.strategy = r.strategy
      /\ s.step = Or(r.step, unset) /\ s.maxWidth = Or(r.maxWidth, MaxOf(v * 2, DefaultWidth * 2))
  BY <1>4
<1>7. Settings(r, v) = s BY <1>4, <1>5 DEF Settings, unset
<1> HIDE DEF v
<1>8. SoundSettings(s) BY <1>0, <1>1, <1>2, <1>3, <1>6 DEF SoundSettings, Or
<1> QED BY <1>6, <1>7, <1>8 DEF s

-----------------------------------------------------------------------------
(* The expanding strategy *)

\* Interval and settings that a strategy decides with
Deciding(t, r, s) ==
  /\ t \in Int /\ IsRange(r) /\ SoundSettings(s)
  /\ OnTick(s.width) /\ s.width > 0
  /\ s.strategy = "expand" => OnTick(s.step) /\ s.step > 0

\* Widening ends: at the tick or at the limit.
LEMMA WideningEnds ==
  ASSUME NEW t, NEW r, NEW s, Deciding(t, r, s), s.strategy = "expand"
  PROVE  /\ Steps(t, r, s) \in Nat
         /\ \/ TooWide(r, s, Steps(t, r, s))
            \/ Inside(t, Widened(r, s, Steps(t, r, s)), s.neighborhood)
<1>0. /\ t \in Int /\ r.lower \in Int /\ r.upper \in Int /\ r.lower < r.upper
      /\ s.step \in Nat \ {0} /\ s.maxWidth \in Nat
  BY DEF Deciding, IsRange, OnTick, SoundSettings
<1> DEFINE Ends1(k) == TooWide(r, s, k) \/ Inside(t, Widened(r, s, k), s.neighborhood)
           T == {k \in 1..(s.maxWidth + 1) : Ends1(k)}
           top == s.maxWidth + 1
<1>1. top \in T
  <2>1. top \in 1..(s.maxWidth + 1) BY <1>0
  <2>2. TooWide(r, s, top)
    <3>1. top * s.step >= top
      <4>1. s.step - 1 \in Nat /\ top \in Nat BY <1>0
      <4>2. top * (s.step - 1) >= 0 BY <4>1, SMTT(30)
      <4>3. top * s.step = top * (s.step - 1) + top BY <1>0, <4>1, SMTT(30)
      <4>4. top * (s.step - 1) \in Int BY <4>1, SMTT(30)
      <4> QED BY <4>1, <4>2, <4>3, <4>4
    <3>2. top * s.step \in Int BY <1>0
    <3> QED BY <1>0, <3>1, <3>2 DEF TooWide, Widened, Width
  <2> QED BY <2>1, <2>2
<1>2. T \in SUBSET Nat /\ T # {} BY <1>0, <1>1
<1> HIDE DEF T
<1>3. PICK k \in T : \A i \in T : k <= i BY <1>2, LeastNatural
<1>4. k \in 1..(s.maxWidth + 1) /\ Ends1(k) BY <1>3 DEF T
<1>5. ASSUME NEW i \in 1..(k - 1) PROVE ~TooWide(r, s, i) /\ ~Inside(t, Widened(r, s, i), s.neighborhood)
  <2>1. i \in 1..(s.maxWidth + 1) /\ i < k BY <1>0, <1>4
  <2>2. i \notin T BY <1>0, <1>3, <1>4, <2>1
  <2> QED BY <2>1, <2>2 DEF T
<1>6. /\ Steps(t, r, s) \in 1..(s.maxWidth + 1)
      /\ TooWide(r, s, Steps(t, r, s)) \/ Inside(t, Widened(r, s, Steps(t, r, s)), s.neighborhood)
  <2> DEFINE Is(x) == /\ TooWide(r, s, x) \/ Inside(t, Widened(r, s, x), s.neighborhood)
                      /\ \A i \in 1..(x - 1) : ~TooWide(r, s, i) /\ ~Inside(t, Widened(r, s, i), s.neighborhood)
  <2>1. Is(k) BY <1>4, <1>5
  <2>2. Steps(t, r, s) = CHOOSE x \in 1..(s.maxWidth + 1) : Is(x) BY DEF Steps
  <2> HIDE DEF Is
  <2>3. Steps(t, r, s) \in 1..(s.maxWidth + 1) /\ Is(Steps(t, r, s)) BY <1>4, <2>1, <2>2
  <2> QED BY <2>3 DEF Is
<1> QED BY <1>0, <1>6

\* A widened interval stays on the grid.
LEMMA WidenedIs ==
  ASSUME NEW t, NEW r, NEW s, Deciding(t, r, s), s.strategy = "expand", NEW k \in Nat
  PROVE  /\ OnTick(Widened(r, s, k).lower) /\ OnTick(Widened(r, s, k).upper)
         /\ Widened(r, s, k).lower < Widened(r, s, k).upper
<1>1. OnTick(r.lower) /\ OnTick(r.upper) /\ r.lower < r.upper /\ OnTick(s.step) /\ s.step \in Nat
  BY DEF Deciding, IsRange, SoundSettings
<1>2. OnTick(k * s.step) BY <1>1, GridClosed
<1>3. OnTick(r.lower - k * s.step) /\ OnTick(r.upper + k * s.step) 
  <2> DEFINE by == k * s.step
  <2>1. OnTick(by) BY <1>2
  <2> HIDE DEF by
  <2>2. \A x, y : OnTick(x) /\ OnTick(y) => OnTick(x - y) /\ OnTick(x + y) BY GridClosed
  <2>3. OnTick(r.lower - by) BY <1>1, <2>1, <2>2
  <2>4. OnTick(r.upper + by) BY <1>1, <2>1, <2>2
  <2> QED BY <2>3, <2>4 DEF by
<1>4. k * s.step >= 0 BY <1>1, SMTT(30)
<1>5. Widened(r, s, k).lower = r.lower - k * s.step /\ Widened(r, s, k).upper = r.upper + k * s.step
  BY DEF Widened
<1>6. r.lower \in Int /\ r.upper \in Int /\ k * s.step \in Int BY <1>1, <1>2 DEF OnTick
<1>7. r.lower - k * s.step < r.upper + k * s.step BY <1>1, <1>4, <1>6
<1> QED BY <1>3, <1>5, <1>7

-----------------------------------------------------------------------------
(* What the strategies promise *)

\* The strategy that keeps its width
LEMMA OriginalFollows ==
  ASSUME NEW t, NEW r, NEW s, Deciding(t, r, s), Original(t, r, s) # r
  PROVE  Lands(t, Original(t, r, s), s)
<1>1. Original(t, r, s) = Centered(t, s.width) BY DEF Original
<1> QED BY <1>1, CenteredFollows DEF Deciding, SoundSettings

\* Above an interval that a lazy strategy moves up to the tick
LEMMA AboveFollows ==
  ASSUME NEW t, NEW r, NEW s, Deciding(t, r, s), s.strategy \notin {"original", "expand"}
  PROVE  Lands(t, Clamp(AlignUp(t), AlignUp(t) + s.width), s)
<1> DEFINE a == AlignUp(t)
           u == a + s.width
           c == Clamp(a, u)
<1>0. t \in Int /\ OnTick(s.width) /\ s.width > 0 /\ s.width \in Nat /\ s.maxWidth \in Nat
  BY DEF Deciding, SoundSettings
<1>1. OnTick(a) /\ t <= a /\ a < t + Spacing BY <1>0, Aligned
<1>2. OnTick(u) BY <1>0, <1>1, GridClosed
<1>3. a \in Int /\ u \in Int /\ u - a = s.width /\ a < u BY <1>0, <1>1 DEF OnTick
<1>4. ClampedTo(c, a, u) BY <1>1, <1>2, <1>3, Clamped
<1> HIDE DEF c
<1>5. ASSUME InDomain(t) PROVE Inside(t, c, 0) \/ Beside(t, c)
  <2>1. t < TopTick - Spacing /\ -t < TopTick - Spacing BY <1>0, <1>5, WellWithin
  <2>2. Spacing \in Nat \ {0} /\ TopTick \in Int /\ OnTick(TopTick) BY Ends
  <2>3. a >= -TopTick BY <1>0, <1>1, <1>3, <2>1, <2>2
  <2>4. CASE u <= TopTick
    <3>1. c = [lower |-> a, upper |-> u] BY <1>4, <2>3, <2>4 DEF ClampedTo
    <3>2. a - t \in 0..(Spacing - 1) BY <1>0, <1>1, <1>3, <2>2
    <3> QED BY <3>1, <3>2 DEF Beside
  <2>5. CASE u > TopTick
    <3>1. TopTick + Spacing <= u BY <1>2, <2>2, <2>5, GridGap
    <3>2. c.lower <= t /\ t < c.upper
      <4> DEFINE l1 == a - (u - TopTick)
      <4>1. c = [lower |-> IF l1 < -TopTick THEN -TopTick ELSE l1,
                 upper |-> IF (IF l1 < -TopTick THEN TopTick + (-TopTick - l1) ELSE TopTick) > TopTick
                           THEN TopTick
                           ELSE (IF l1 < -TopTick THEN TopTick + (-TopTick - l1) ELSE TopTick)]
        BY <2>5 DEF Clamp, TopTick, c
      <4>2. l1 \in Int /\ l1 <= a - Spacing BY <1>3, <2>2, <3>1
      <4>3. l1 < -TopTick => TopTick + (-TopTick - l1) > TopTick BY <2>2, <4>2
      <4>4. c.upper = TopTick BY <2>2, <4>1, <4>3
      <4>5. c.lower = IF l1 < -TopTick THEN -TopTick ELSE l1 BY <4>1
      <4> HIDE DEF l1
      <4>6. -TopTick <= t /\ l1 <= t /\ t < TopTick BY <1>0, <1>1, <1>3, <2>1, <2>2, <4>2
      <4> QED BY <2>2, <4>2, <4>4, <4>5, <4>6
    <3>3. c.lower \in Int /\ c.upper \in Int BY <1>4 DEF ClampedTo, IsRange, OnTick
    <3> QED BY <1>0, <3>2, <3>3 DEF Inside
  <2> QED BY <1>3, <2>2, <2>4, <2>5
<1>6. u - a <= MaxOf(s.width, s.maxWidth) BY <1>0, <1>3 DEF MaxOf
<1>7. Lands(t, Clamp(a, u), s) BY <1>0, <1>1, <1>2, <1>3, <1>5, <1>6, ClampFollows DEF c
<1> QED BY <1>7

\* Below one that it moves down to the tick
LEMMA BelowFollows ==
  ASSUME NEW t, NEW r, NEW s, Deciding(t, r, s), s.strategy \notin {"original", "expand"}
  PROVE  Lands(t, Clamp(AlignDown(t) - s.width, AlignDown(t)), s)
<1> DEFINE d == AlignDown(t)
           l == d - s.width
           c == Clamp(l, d)
<1>0. t \in Int /\ OnTick(s.width) /\ s.width > 0 /\ s.width \in Nat /\ s.maxWidth \in Nat
  BY DEF Deciding, SoundSettings
<1>1. OnTick(d) /\ d <= t /\ t < d + Spacing BY <1>0, Aligned
<1>2. OnTick(l) BY <1>0, <1>1, GridClosed
<1>3. d \in Int /\ l \in Int /\ d - l = s.width /\ l < d BY <1>0, <1>1 DEF OnTick
<1>4. ClampedTo(c, l, d) BY <1>1, <1>2, <1>3, Clamped
<1> HIDE DEF c
<1>5. ASSUME InDomain(t) PROVE Inside(t, c, 0) \/ Beside(t, c)
  <2>1. t < TopTick - Spacing /\ -t < TopTick - Spacing BY <1>0, <1>5, WellWithin
  <2>2. Spacing \in Nat \ {0} /\ TopTick \in Int /\ OnTick(-TopTick) BY Ends
  <2>3. d <= TopTick BY <1>0, <1>1, <1>3, <2>1, <2>2
  <2>4. CASE l >= -TopTick
    <3>1. c = [lower |-> l, upper |-> d] BY <1>4, <2>3, <2>4 DEF ClampedTo
    <3>2. t - d \in 0..(Spacing - 1) BY <1>0, <1>1, <1>3, <2>2
    <3> QED BY <3>1, <3>2 DEF Beside
  <2>5. CASE l < -TopTick
    <3>1. l + Spacing <= -TopTick BY <1>2, <2>2, <2>5, GridGap
    <3>2. c.lower <= t /\ t < c.upper
      <4> DEFINE u2 == d + (-TopTick - l)
      <4>1. ~(d > TopTick) BY <1>3, <2>2, <2>3
      <4>2. c = [lower |-> -TopTick, upper |-> IF u2 > TopTick THEN TopTick ELSE u2]
        BY <2>5, <4>1 DEF Clamp, TopTick, c
      <4>3. u2 \in Int /\ u2 >= d + Spacing BY <1>3, <2>2, <3>1
      <4>4. c.lower = -TopTick /\ c.upper = (IF u2 > TopTick THEN TopTick ELSE u2) BY <4>2
      <4> HIDE DEF u2
      <4>5. -TopTick <= t /\ t < TopTick /\ t < u2 BY <1>0, <1>1, <1>3, <2>1, <2>2, <4>3
      <4> QED BY <2>2, <4>3, <4>4, <4>5
    <3>3. c.lower \in Int /\ c.upper \in Int BY <1>4 DEF ClampedTo, IsRange, OnTick
    <3> QED BY <1>0, <3>2, <3>3 DEF Inside
  <2> QED BY <1>3, <2>2, <2>4, <2>5
<1>6. d - l <= MaxOf(s.width, s.maxWidth) BY <1>0, <1>3 DEF MaxOf
<1>7. Lands(t, Clamp(l, d), s) BY <1>0, <1>1, <1>2, <1>3, <1>5, <1>6, ClampFollows DEF c
<1> QED BY <1>7

\* The one that widens
LEMMA ExpandFollows ==
  ASSUME NEW t, NEW r, NEW s, Deciding(t, r, s), s.strategy = "expand", ~Inside(t, r, s.neighborhood)
  PROVE  Lands(t, Expand(t, r, s), s)
<1> DEFINE k == Steps(t, r, s)
           v == Widened(r, s, k)
<1>0. t \in Int /\ s.width \in Nat /\ s.maxWidth \in Nat /\ s.neighborhood \in Nat /\ OnTick(s.width) /\ s.width > 0
  BY DEF Deciding, SoundSettings
<1>1. k \in Nat /\ (TooWide(r, s, k) \/ Inside(t, v, s.neighborhood)) BY WideningEnds
<1>2. OnTick(v.lower) /\ OnTick(v.upper) /\ v.lower < v.upper BY <1>1, WidenedIs
<1> HIDE DEF k
<1>3. Expand(t, r, s) = IF TooWide(r, s, k) THEN Centered(t, s.width) ELSE Clamp(v.lower, v.upper)
  BY DEF Expand, k
<1>4. CASE TooWide(r, s, k) BY <1>0, <1>3, <1>4, CenteredFollows
<1>5. CASE ~TooWide(r, s, k)
  <2>1. v.lower \in Int /\ v.upper \in Int BY <1>2 DEF OnTick
  <2>2. v.upper - v.lower <= MaxOf(s.width, s.maxWidth) BY <1>0, <1>5, <2>1 DEF TooWide, Width, MaxOf
  <2>3. t >= v.lower /\ t < v.upper BY <1>0, <1>1, <1>5, <2>1 DEF Inside
  <2>4. ClampedTo(Clamp(v.lower, v.upper), v.lower, v.upper) BY <1>2, Clamped
  <2>5. InDomain(t) => t >= -TopTick /\ t < TopTick BY <1>0, WellWithin, Ends
  <2>6. InDomain(t) => Inside(t, Clamp(v.lower, v.upper), 0) BY <1>0, <2>3, <2>4, <2>5 DEF ClampedTo
  <2> QED BY <1>0, <1>2, <1>3, <1>5, <2>2, <2>6, ClampFollows
<1> QED BY <1>4, <1>5

\* Whatever a strategy decides keeps its promise.
LEMMA DecisionLands ==
  ASSUME NEW t, NEW r, NEW s, Deciding(t, r, s), Decide(t, r, s) # r \/ Repeats(t, r, s)
  PROVE  Lands(t, Decide(t, r, s), s)
<1>1. CASE s.strategy = "original"
  <2>1. Decide(t, r, s) = Original(t, r, s) BY <1>1 DEF Decide
  <2>2. Decide(t, r, s) # r BY <1>1 DEF Repeats
  <2> QED BY <2>1, <2>2, OriginalFollows
<1>2. CASE s.strategy = "expand"
  <2>1. Decide(t, r, s) = Expand(t, r, s) BY <1>2 DEF Decide
  <2>2. ~Inside(t, r, s.neighborhood) BY <2>1 DEF Repeats, Expand
  <2> QED BY <1>2, <2>1, <2>2, ExpandFollows
<1>3. CASE s.strategy \in {"lazy-syncing", "lazy-ascending", "lazy-descending"}
  <2>1. PICK up, down \in BOOLEAN : Decide(t, r, s) = Lazy(t, r, s, up, down) BY <1>3 DEF Decide
  <2>2. s.strategy \notin {"original", "expand"} BY <1>3
  <2>3. Decide(t, r, s) \in {Clamp(AlignUp(t), AlignUp(t) + s.width), Clamp(AlignDown(t) - s.width, AlignDown(t)), r}
    BY <2>1 DEF Lazy
  <2>4. Decide(t, r, s) # r BY <2>2 DEF Repeats
  <2> QED BY <2>2, <2>3, <2>4, AboveFollows, BelowFollows
<1> QED BY <1>1, <1>2, <1>3 DEF Deciding, SoundSettings

-----------------------------------------------------------------------------
(* The invariant of the position *)

RangeInv == rule \in Rules /\ tick \in Markets /\ OnGrid(range) /\ IsRange(range)

\* A decision is made of sound settings, an interval on the grid and a tick.
LEMMA DecidingNow ==
  ASSUME RangeInv, Valid(SettingsNow(range))
  PROVE  /\ Deciding(tick, range, SettingsNow(range))
         /\ DecideNow(range) = Decide(tick, range, SettingsNow(range))
         /\ tick \in Int
<1>1. tick \in Int BY RangeAssumption DEF RangeInv
<1>2. Width(range) \in Nat BY DEF RangeInv, IsRange, OnTick, Width
<1>3. SoundSettings(SettingsNow(range)) BY <1>2, SettingsSound DEF RangeInv, SettingsNow
<1> DEFINE s == SettingsNow(range)
<1> HIDE DEF s
<1>4. OnTick(s.width) /\ s.width > 0 /\ (s.strategy = "expand" => OnTick(s.step) /\ s.step > 0)
  BY <1>3 DEF Valid, SoundSettings, OnTick, s
<1> QED BY <1>1, <1>3, <1>4 DEF Deciding, RangeInv, DecideNow, s

\* A position starts on the grid, stays there, and moves only to where its strategy promises.
LEMMA RangeStarts == RangeInit => RangeInv
<1> SUFFICES ASSUME RangeInit PROVE RangeInv OBVIOUS
<1>1. rule \in Rules /\ range \in Ranges /\ tick \in Markets BY DEF RangeInit
<1>2. /\ range.lower \in -MaxAbsTick..MaxAbsTick /\ range.upper \in -MaxAbsTick..MaxAbsTick
      /\ range.lower < range.upper /\ range.lower % Spacing = 0 /\ range.upper % Spacing = 0 /\ MaxAbsTick \in Nat
  BY <1>1, RangeAssumption
<1> QED BY <1>1, <1>2 DEF RangeInv, OnGrid, IsRange, OnTick

\* A decision to move keeps the promise.
LEMMA NowLands ==
  ASSUME RangeInv, Rebalances(range)
  PROVE  Lands(tick, DecideNow(range), SettingsNow(range))
<1>1. /\ Valid(SettingsNow(range))
      /\ DecideNow(range) # range \/ Repeats(tick, range, SettingsNow(range))
  BY DEF Rebalances
<1> QED BY <1>1, DecidingNow, DecisionLands

\* The market moves, and the position follows.
LEMMA RangeStep == ASSUME RangeInv, [RangeNext]_rangeVars PROVE RangeInv'
<1>1. CASE UNCHANGED rangeVars BY <1>1 DEF rangeVars, RangeInv, OnGrid, IsRange
<1>2. CASE Market BY <1>2 DEF Market, RangeInv, OnGrid, IsRange
<1>3. CASE Rebalance
  <2>1. IsRange(range') /\ OnGrid(range') BY <1>3, NowLands DEF Rebalance, Lands, Follows
  <2> QED BY <1>3, <2>1 DEF Rebalance, RangeInv, OnGrid, IsRange
<1> QED BY <1>1, <1>2, <1>3 DEF RangeNext

\* The invariant is as strong as the promise.
LEMMA MovesFollow == RangeInv => RangeFollows
BY NowLands DEF RangeFollows, Lands

-----------------------------------------------------------------------------
(* It settles *)

\* The ends of the domain are not met.
FarIn(t, s) == /\ t + s.width + Spacing <= TopTick /\ -t + s.width + Spacing <= TopTick
               /\ t + s.maxWidth + Spacing <= TopTick /\ -t + s.maxWidth + Spacing <= TopTick

\* In terms that need no case split
LEMMA FarMeans ==
  ASSUME NEW t \in Int, NEW s, SoundSettings(s), FarFromEnds(t, s) PROVE FarIn(t, s)
<1>1. s.width \in Nat /\ s.maxWidth \in Nat BY DEF SoundSettings
<1> QED BY <1>1, Ends DEF FarFromEnds, FarIn, Abs, MaxOf, TopTick

\* Far from them, an interval around the tick is not cut ...
LEMMA CenteredFar ==
  ASSUME NEW t \in Int, NEW s, SoundSettings(s), FarIn(t, s), OnTick(s.width), s.width > 0
  PROVE  Width(Centered(t, s.width)) = s.width
<1>1. PICK lower : /\ OnTick(lower) /\ lower <= t /\ t < lower + s.width /\ lower > t - s.width - Spacing
                   /\ Centered(t, s.width) = Clamp(lower, lower + s.width) /\ OnTick(lower + s.width)
  BY CenteredHolds
<1>2. lower \in Int /\ s.width \in Nat /\ TopTick \in Int /\ Spacing \in Nat BY <1>1, Ends DEF OnTick, SoundSettings
<1>3. lower >= -TopTick /\ lower + s.width <= TopTick /\ lower < lower + s.width BY <1>1, <1>2 DEF FarIn
<1>4. Clamp(lower, lower + s.width) = [lower |-> lower, upper |-> lower + s.width]
  BY <1>1, <1>3, Clamped DEF ClampedTo
<1> QED BY <1>1, <1>2, <1>4 DEF Width

\* ... nor is one that widened to it.
LEMMA WidenedFar ==
  ASSUME NEW t, NEW r, NEW s, Deciding(t, r, s), s.strategy = "expand", FarIn(t, s),
         ~TooWide(r, s, Steps(t, r, s)), ~Inside(t, r, s.neighborhood)
  PROVE  Inside(t, Expand(t, r, s), s.neighborhood)
<1> DEFINE k == Steps(t, r, s)
           v == Widened(r, s, k)
<1>1. k \in Nat /\ Inside(t, v, s.neighborhood) BY WideningEnds
<1>2. OnTick(v.lower) /\ OnTick(v.upper) /\ v.lower < v.upper BY <1>1, WidenedIs
<1>3. /\ v.lower \in Int /\ v.upper \in Int /\ s.neighborhood \in Nat /\ s.maxWidth \in Nat /\ t \in Int
      /\ TopTick \in Int /\ Spacing \in Nat
  BY <1>2, Ends DEF OnTick, Deciding, SoundSettings
<1>4. v.upper - v.lower <= s.maxWidth BY <1>3 DEF TooWide, Width
<1>5. Expand(t, r, s) = Clamp(v.lower, v.upper) BY DEF Expand
<1> HIDE DEF v, k
<1>6. v.lower + s.neighborhood <= t /\ t < v.upper - s.neighborhood BY <1>1, <1>3 DEF Inside
<1>7. v.lower >= -TopTick /\ v.upper <= TopTick BY <1>3, <1>4, <1>6 DEF FarIn
<1>8. Clamp(v.lower, v.upper) = [lower |-> v.lower, upper |-> v.upper] BY <1>2, <1>7, Clamped DEF ClampedTo
<1> QED BY <1>1, <1>5, <1>8 DEF Inside

\* The expanding strategy holds an interval that the tick is inside of.
LEMMA InsideStays ==
  ASSUME NEW r, rule.strategy = "expand", Inside(tick, r, rule.neighborhood) PROVE ~Rebalances(r)
<1>1. SettingsNow(r).strategy = "expand" /\ SettingsNow(r).neighborhood = rule.neighborhood
  BY DEF SettingsNow, Settings
<1>2. Decide(tick, r, SettingsNow(r)) = Expand(tick, r, SettingsNow(r)) BY <1>1 DEF Decide
<1>3. Expand(tick, r, SettingsNow(r)) = r BY <1>1 DEF Expand
<1>4. DecideNow(r) = r BY <1>2, <1>3 DEF DecideNow
<1>5. ~Repeats(tick, r, SettingsNow(r)) BY <1>1 DEF Repeats
<1> QED BY <1>4, <1>5 DEF Rebalances

\* The others repeat nothing.
LEMMA OthersHold ==
  ASSUME NEW r, rule.strategy # "expand" PROVE Rebalances(r) <=> DecideNow(r) # r
<1>1. SettingsNow(r).strategy # "expand" BY DEF SettingsNow, Settings
<1>2. ~Repeats(tick, r, SettingsNow(r)) BY <1>1 DEF Repeats
<1> QED BY <1>2 DEF Rebalances, DecideNow

\* At one tick a position moves at most twice.
LEMMA MovesSettle == RangeInv => RangeSettles
<1> DEFINE s == SettingsNow(range)
           next == DecideNow(range)
<1> SUFFICES ASSUME RangeInv, Rebalances(range), FarFromEnds(tick, s)
             PROVE  ~Rebalances(DecideNow(next))
  BY DEF RangeSettles
<1>1. Valid(s) BY DEF Rebalances
<1>2. Deciding(tick, range, s) /\ next = Decide(tick, range, s) /\ tick \in Int BY <1>1, DecidingNow
<1>3. SoundSettings(s) /\ OnTick(s.width) /\ s.width > 0 BY <1>2 DEF Deciding
<1>4. FarIn(tick, s) BY <1>2, <1>3, FarMeans
<1>5. Width(range) \in Nat BY DEF RangeInv, IsRange, OnTick, Width
<1>6. /\ Settings(rule, s.width) = s /\ s.neighborhood = rule.neighborhood /\ s.strategy = rule.strategy
  BY <1>5, SettingsSound DEF RangeInv, SettingsNow
<1>7. IsRange(next) BY NowLands DEF Lands
<1>12. next # range \/ Repeats(tick, range, s) BY DEF Rebalances
<1>13. s.strategy # "expand" => next # range BY <1>6, OthersHold
<1>14. s.strategy # "expand" /\ DecideNow(next) = next => ~Rebalances(DecideNow(next)) BY <1>6, OthersHold
<1> HIDE DEF s, next
<1>8. ASSUME Width(next) = s.width
      PROVE  DecideNow(next) = Decide(tick, next, s) /\ Deciding(tick, next, s)
  <2>1. SettingsNow(next) = s BY <1>6, <1>8 DEF SettingsNow
  <2> QED BY <1>1, <1>2, <1>7, <2>1 DEF DecideNow, Deciding
<1>9. CASE s.strategy = "original"
  <2>1. next = Centered(tick, s.width)
    <3>1. next = Original(tick, range, s) BY <1>2, <1>9 DEF Decide
    <3>2. next # range BY <1>9, <1>13
    <3> QED BY <3>1, <3>2 DEF Original
  <2>2. DecideNow(next) = Decide(tick, next, s) BY <1>3, <1>2, <1>4, <1>8, <2>1, CenteredFar
  <2>3. DecideNow(next) = next BY <1>9, <2>1, <2>2 DEF Decide, Original
  <2> QED BY <1>9, <1>14, <2>3
<1>10. CASE s.strategy = "expand"
  <2>1. next = Expand(tick, range, s) BY <1>2, <1>10 DEF Decide
  <2>2. ~Inside(tick, range, s.neighborhood) BY <1>12, <2>1 DEF Expand, Repeats
  <2>3. CASE ~TooWide(range, s, Steps(tick, range, s))
    <3>1. Inside(tick, next, rule.neighborhood) BY <1>2, <1>4, <1>6, <1>10, <2>1, <2>2, <2>3, WidenedFar
    <3>2. ~Rebalances(next) BY <1>6, <1>10, <3>1, InsideStays
    <3>3. DecideNow(next) = next BY <3>2 DEF Rebalances, DecideNow
    <3> QED BY <3>2, <3>3
  <2>4. CASE TooWide(range, s, Steps(tick, range, s))
    <3>1. next = Centered(tick, s.width) BY <2>1, <2>2, <2>4 DEF Expand
    <3>2. DecideNow(next) = Decide(tick, next, s) /\ Deciding(tick, next, s)
      BY <1>2, <1>3, <1>4, <1>8, <3>1, CenteredFar
    <3>3. DecideNow(next) = Expand(tick, next, s) BY <1>10, <3>2 DEF Decide
    <3>4. CASE Inside(tick, next, s.neighborhood) \/ TooWide(next, s, Steps(tick, next, s))
      <4>1. DecideNow(next) = next BY <3>1, <3>3, <3>4 DEF Expand
      <4>2. ~Repeats(tick, next, s) BY <3>4 DEF Repeats
      <4>3. SettingsNow(next) = s BY <1>3, <1>4, <1>6, <1>2, <3>1, CenteredFar DEF SettingsNow
      <4> QED BY <4>1, <4>2, <4>3 DEF Rebalances
    <3>5. CASE ~Inside(tick, next, s.neighborhood) /\ ~TooWide(next, s, Steps(tick, next, s))
      <4>1. Inside(tick, DecideNow(next), rule.neighborhood)
        BY <1>4, <1>6, <1>10, <3>2, <3>3, <3>5, WidenedFar
      <4> QED BY <1>6, <1>10, <4>1, InsideStays
    <3> QED BY <3>4, <3>5
  <2> QED BY <2>3, <2>4
<1>11. CASE s.strategy \in {"lazy-syncing", "lazy-ascending", "lazy-descending"}
  <2>1. PICK up, down \in BOOLEAN : \A r : Decide(tick, r, s) = Lazy(tick, r, s, up, down) BY <1>11 DEF Decide
  <2>2. next = Lazy(tick, range, s, up, down) /\ next # range BY <1>2, <1>11, <1>13, <2>1
  <2>3. Spacing \in Nat /\ TopTick \in Int /\ s.width \in Nat BY <1>3, Ends DEF SoundSettings
  <2>4. CASE tick < range.lower /\ down
    <3> DEFINE a == AlignUp(tick)
    <3>1. OnTick(a) /\ tick <= a /\ a < tick + Spacing /\ a \in Int BY <1>2, Aligned DEF OnTick
    <3>2. next = Clamp(a, a + s.width) BY <2>2, <2>4 DEF Lazy
    <3> HIDE DEF a
    <3>3. OnTick(a + s.width) BY <1>3, <3>1, GridClosed
    <3>4. a >= -TopTick /\ a + s.width <= TopTick /\ a < a + s.width BY <1>2, <1>3, <1>4, <2>3, <3>1 DEF FarIn
    <3>5. next = [lower |-> a, upper |-> a + s.width] BY <3>1, <3>2, <3>3, <3>4, Clamped DEF ClampedTo
    <3>6. Width(next) = s.width BY <2>3, <3>1, <3>5 DEF Width
    <3>7. DecideNow(next) = Lazy(tick, next, s, up, down) BY <1>8, <2>1, <3>6
    <3>8. ~(tick >= next.upper) BY <1>2, <1>3, <2>3, <3>1, <3>5
    <3>9. DecideNow(next) = next BY <3>2, <3>7, <3>8 DEF Lazy, a
    <3> QED BY <1>11, <1>14, <3>9
  <2>5. CASE ~(tick < range.lower /\ down)
    <3> DEFINE d == AlignDown(tick)
    <3>1. OnTick(d) /\ d <= tick /\ tick < d + Spacing /\ d \in Int BY <1>2, Aligned DEF OnTick
    <3>2. next = Clamp(d - s.width, d) BY <2>2, <2>5 DEF Lazy
    <3> HIDE DEF d
    <3>3. OnTick(d - s.width) BY <1>3, <3>1, GridClosed
    <3>4. d - s.width >= -TopTick /\ d <= TopTick /\ d - s.width < d BY <1>2, <1>3, <1>4, <2>3, <3>1 DEF FarIn
    <3>5. next = [lower |-> d - s.width, upper |-> d] BY <3>1, <3>2, <3>3, <3>4, Clamped DEF ClampedTo
    <3>6. Width(next) = s.width BY <2>3, <3>1, <3>5 DEF Width
    <3>7. DecideNow(next) = Lazy(tick, next, s, up, down) BY <1>8, <2>1, <3>6
    <3>8. ~(tick < next.lower) BY <1>2, <1>3, <2>3, <3>1, <3>4, <3>5
    <3>9. DecideNow(next) = next BY <3>2, <3>7, <3>8 DEF Lazy, d
    <3> QED BY <1>11, <1>14, <3>9
  <2> QED BY <2>4, <2>5
<1> QED BY <1>3, <1>9, <1>10, <1>11 DEF SoundSettings

-----------------------------------------------------------------------------
(* The composition *)

\* The invariants, where the parts run
KeeperInv == part = "serve" => ServeInv
PositionInv == part = "range" => RangeInv

\* KeeperHolds for any pools, prices, errors and times: what the daemon fails at or would do is
\* told once while it lasts, a note holds the daemon up no longer than its time and its grace,
\* and serve accepts what init writes (engine.ts, notify.ts:4, config.ts).
THEOREM KeeperStays == LiquiditySpec => []KeeperHolds
<1>1. LiquidityInit => KeeperInv BY ServeStarts DEF LiquidityInit, ServeBegins, KeeperInv
<1>2. KeeperInv /\ [LiquidityNext]_liquidityVars => KeeperInv'
  <2> SUFFICES ASSUME KeeperInv, [LiquidityNext]_liquidityVars PROVE KeeperInv' OBVIOUS
  <2>1. UNCHANGED part BY DEF LiquidityNext, Only, liquidityVars
  <2>2. part = "serve" => [ServeNext]_serveVars BY DEF LiquidityNext, Only, liquidityVars
  <2> QED BY <2>1, <2>2, ServeStep DEF KeeperInv
<1>3. KeeperInv => KeeperHolds BY NotesTold DEF KeeperInv, KeeperHolds
<1> QED BY <1>1, <1>2, <1>3, PTL DEF LiquiditySpec

\* RangeIsSound for any spacing, tick domain, configuration and market: a rebalance moves to an
\* interval on the grid and in the domain, no wider than configured, that holds the tick (or lies
\* beside it, for a lazy strategy), and at one tick there are at most two (strategy.ts:198).
THEOREM PositionsStay == LiquiditySpec => []RangeIsSound
<1>1. LiquidityInit => PositionInv BY RangeStarts DEF LiquidityInit, RangeBegins, PositionInv
<1>2. PositionInv /\ [LiquidityNext]_liquidityVars => PositionInv'
  <2> SUFFICES ASSUME PositionInv, [LiquidityNext]_liquidityVars PROVE PositionInv' OBVIOUS
  <2>1. UNCHANGED part BY DEF LiquidityNext, Only, liquidityVars
  <2>2. part = "range" => [RangeNext]_rangeVars BY DEF LiquidityNext, Only, liquidityVars
  <2> QED BY <2>1, <2>2, RangeStep DEF PositionInv
<1>3. PositionInv => RangeIsSound BY MovesFollow, MovesSettle DEF PositionInv, RangeIsSound
<1> QED BY <1>1, <1>2, <1>3, PTL DEF LiquiditySpec
=============================================================================
