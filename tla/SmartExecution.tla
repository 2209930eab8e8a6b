--------------------------- MODULE SmartExecution ---------------------------
(***************************************************************************)
(* smart-execution.ts: one operation of a Crossmint smart wallet.  execute *)
(* prepares a transaction at the provider, records its id, approves it and *)
(* reconciles the row with the provider and with the UserOperation event   *)
(* on the chain; repeating it resumes the recorded transaction.  Polls of  *)
(* status reconcile the same row without the account's lock.               *)
(***************************************************************************)
EXTENDS Naturals, FiniteSets

CONSTANTS
  SmartProcs,   \* processes executing and polling the operation
  SmartTxs,     \* transactions the provider may create
  SmartReorgs,  \* bound: reorganisations
  SmartCrashes, \* bound: process deaths and failed provider calls
  NoSmart       \* no transaction, or no lock holder

ASSUME SmartAssumption ==
  /\ SmartReorgs \in Nat /\ SmartCrashes \in Nat
  /\ NoSmart \notin SmartProcs \cup SmartTxs

VARIABLES
  row,          \* the operation: its state and the recorded remote id
  smartExpired, \* plan.expiresAt has passed
  smartLock,    \* holder of the account's lock
  smartDead,    \* the holder's process has died
  provider,     \* status of each transaction at the provider
  event,        \* what its canonical UserOperationEvent says
  smartReorgs,
  smartCrashes,
  smartStep,    \* next step of each process
  goal,         \* what it does once the row is reconciled
  smartTx,      \* the provider transaction it works on
  found         \* the state it is about to save

smartStore == <<row, smartExpired, smartLock, smartDead>>
smartWorld == <<provider, event, smartReorgs>>
smartLocals == <<smartStep, goal, smartTx, found>>
smartVars == <<smartStore, smartWorld, smartCrashes, smartLocals>>

SmartSettled == {"confirmed", "reverted"}
SmartTags == {"prepared", "walletPending"} \cup SmartSettled
RemoteId == SmartTxs \cup {NoSmart}
ProviderStates == {"none", "awaiting", "pending", "success", "failed"}
Events == {"none"} \cup SmartSettled
SmartSteps == {"idle", "read", "ask", "receipt", "save", "next", "locked",
               "record", "approve", "unlock"}
Goals == {"status", "execute", "locked", "resumed"}

SmartTypeOK ==
  /\ row \in [tag: SmartTags, remote: RemoteId] /\ smartExpired \in BOOLEAN
  /\ smartLock \in SmartProcs \cup {NoSmart} /\ smartDead \in BOOLEAN
  /\ provider \in [SmartTxs -> ProviderStates]
  /\ event \in [SmartTxs -> Events]
  /\ smartReorgs \in 0..SmartReorgs /\ smartCrashes \in 0..SmartCrashes
  /\ smartStep \in [SmartProcs -> SmartSteps]
  /\ goal \in [SmartProcs -> Goals]
  /\ smartTx \in [SmartProcs -> RemoteId]
  /\ found \in [SmartProcs -> SmartTags]

SmartInit ==
  /\ row = [tag |-> "prepared", remote |-> NoSmart] /\ smartExpired = FALSE
  /\ smartLock = NoSmart /\ smartDead = FALSE
  /\ provider = [t \in SmartTxs |-> "none"]
  /\ event = [t \in SmartTxs |-> "none"]
  /\ smartReorgs = 0 /\ smartCrashes = 0
  /\ smartStep = [p \in SmartProcs |-> "idle"]
  /\ goal = [p \in SmartProcs |-> "status"]
  /\ smartTx = [p \in SmartProcs |-> NoSmart]
  /\ found = [p \in SmartProcs |-> "prepared"]

-----------------------------------------------------------------------------
SmartTo(p, step) == smartStep' = [smartStep EXCEPT ![p] = step]
SmartTurn(p, from, to) == smartStep[p] = from /\ SmartTo(p, to)
Holds(p) == goal[p] \in {"locked", "resumed"}

SmartEnd(p) ==
  /\ SmartTo(p, "idle")
  /\ goal' = [goal EXCEPT ![p] = "status"]
  /\ smartTx' = [smartTx EXCEPT ![p] = NoSmart]
  /\ found' = [found EXCEPT ![p] = "prepared"]

\* An error, or the end: the lock is released on the way out if it is held.
SmartLeave(p) ==
  IF Holds(p) THEN SmartTo(p, "unlock") /\ UNCHANGED <<goal, smartTx, found>>
  ELSE SmartEnd(p)

-----------------------------------------------------------------------------
(* reconcileSmart, which status calls *)

CallSmart(p) ==
  /\ smartStep[p] = "idle"
  /\ SmartTo(p, "read")
  /\ \E g \in {"status", "execute"} : goal' = [goal EXCEPT ![p] = g]
  /\ UNCHANGED <<smartStore, smartWorld, smartCrashes, smartTx, found>>

\* store.get: a row without remote is returned as it is.
SmartRead(p) ==
  /\ SmartTurn(p, "read", IF row.remote = NoSmart THEN "next" ELSE "ask")
  /\ smartTx' = [smartTx EXCEPT ![p] = row.remote]
  /\ found' = [found EXCEPT ![p] = row.tag]
  /\ UNCHANGED <<smartStore, smartWorld, smartCrashes, goal>>

\* adapter.status: a failed transaction is an error that leaves the row.
SmartAsk(p) ==
  /\ smartStep[p] = "ask"
  /\ LET answer == provider[smartTx[p]] IN
     IF answer = "failed" THEN SmartLeave(p)
     ELSE /\ SmartTo(p, IF answer = "success" THEN "receipt" ELSE "save")
          /\ found' = [found EXCEPT ![p] = "walletPending"]
          /\ UNCHANGED <<goal, smartTx>>
  /\ UNCHANGED <<smartStore, smartWorld, smartCrashes>>

\* Faulty variant: the bundle's own success is taken for the inner one.
FoundOuter(e) == IF e = "none" THEN "walletPending" ELSE "confirmed"

\* The state for the canonical event with its inner success flag, if any.
FoundState(e) == IF e = "none" THEN "walletPending" ELSE e

SmartReceipt(p) ==
  /\ SmartTurn(p, "receipt", "save")
  /\ found' = [found EXCEPT ![p] = FoundState(event[smartTx[p]])]
  /\ UNCHANGED <<smartStore, smartWorld, smartCrashes, goal, smartTx>>

\* save({ ...operation, state }).
SmartSave(p) ==
  /\ SmartTurn(p, "save", "next")
  /\ row' = [tag |-> found[p], remote |-> smartTx[p]]
  /\ UNCHANGED <<smartExpired, smartLock, smartDead, smartWorld, smartCrashes,
                 goal, smartTx, found>>

-----------------------------------------------------------------------------
(* execute, executeSmart and resumeSmart *)

\* The first status decides whether there is anything to execute; the lock
\* of a dead process is taken over.
SmartNext(p) ==
  /\ smartStep[p] = "next"
  /\ IF goal[p] # "execute" \/ found[p] \in SmartSettled
     THEN /\ IF goal[p] = "locked" /\ found[p] \notin SmartSettled
             THEN SmartTo(p, "locked") /\ UNCHANGED <<goal, smartTx, found>>
             ELSE SmartLeave(p)
          /\ UNCHANGED <<smartLock, smartDead>>
     ELSE IF smartLock = NoSmart \/ smartDead
     THEN /\ smartLock' = p /\ smartDead' = FALSE
          /\ SmartTo(p, "read") /\ goal' = [goal EXCEPT ![p] = "locked"]
          /\ UNCHANGED <<smartTx, found>>
     ELSE SmartEnd(p) /\ UNCHANGED <<smartLock, smartDead>>
  /\ UNCHANGED <<row, smartExpired, smartWorld, smartCrashes>>

\* Ids the provider has not given out.
UnusedTxs == {t \in SmartTxs : provider[t] = "none"}

\* adapter.prepare, unless the plan has expired; it may fail, before or after
\* the provider has created the transaction.
SmartPrepare(p) ==
  /\ smartStep[p] = "locked" /\ found[p] = "prepared"
  /\ \/ SmartTo(p, "unlock") /\ UNCHANGED <<provider, smartTx>>
     \/ /\ ~smartExpired /\ UnusedTxs # {}
        /\ LET t == CHOOSE t \in UnusedTxs : TRUE IN
             /\ provider' = [provider EXCEPT ![t] = "awaiting"]
             /\ \/ SmartTo(p, "record") /\ smartTx' = [smartTx EXCEPT ![p] = t]
                \/ SmartTo(p, "unlock") /\ UNCHANGED smartTx
  /\ UNCHANGED <<smartStore, event, smartReorgs, smartCrashes, goal, found>>

\* Faulty variant: the approval comes first.
SmartRecordLate(p) ==
  /\ SmartTurn(p, "record", "approve")
  /\ UNCHANGED <<smartStore, smartWorld, smartCrashes, goal, smartTx, found>>

\* The id is saved before the approval is asked for.
SmartRecord(p) ==
  /\ SmartTurn(p, "record", "approve")
  /\ row' = [tag |-> "walletPending", remote |-> smartTx[p]]
  /\ UNCHANGED <<smartExpired, smartLock, smartDead, smartWorld, smartCrashes,
                 goal, smartTx, found>>

\* resumeSmart: only a transaction that awaits its approval is approved.
SmartResume(p) ==
  /\ smartStep[p] = "locked" /\ found[p] = "walletPending"
  /\ IF provider[smartTx[p]] = "awaiting"
     THEN SmartTo(p, "approve") /\ UNCHANGED goal
     ELSE SmartTo(p, "ask") /\ goal' = [goal EXCEPT ![p] = "resumed"]
  /\ UNCHANGED <<smartStore, smartWorld, smartCrashes, smartTx, found>>

\* The provider runs an approved transaction.
Approved(t) ==
  [provider EXCEPT ![t] = IF @ = "awaiting" THEN "pending" ELSE @]

\* adapter.approve looks at the status and the expiry again.
SmartApprove(p) ==
  /\ smartStep[p] = "approve"
  /\ IF smartExpired THEN SmartTo(p, "unlock") /\ UNCHANGED <<provider, goal>>
     ELSE /\ provider' = Approved(smartTx[p])
          /\ SmartTo(p, "ask") /\ goal' = [goal EXCEPT ![p] = "resumed"]
  /\ UNCHANGED <<smartStore, event, smartReorgs, smartCrashes, smartTx, found>>

SmartUnlock(p) ==
  /\ smartStep[p] = "unlock"
  /\ smartLock' = NoSmart /\ SmartEnd(p)
  /\ UNCHANGED <<row, smartExpired, smartDead, smartWorld, smartCrashes>>

-----------------------------------------------------------------------------
(* The provider, the chain and the processes *)

\* plan.expiresAt passes while it matters.
SmartExpire ==
  /\ \A t \in SmartTxs : provider[t] \in {"none", "awaiting"}
  /\ smartExpired' = TRUE
  /\ UNCHANGED <<row, smartLock, smartDead, smartWorld, smartCrashes,
                 smartLocals>>

\* The bundle is included, or the provider gives the transaction up.
ProviderFinishes(t) ==
  /\ provider[t] = "pending"
  /\ \/ /\ provider' = [provider EXCEPT ![t] = "success"]
        /\ \E e \in SmartSettled : event' = [event EXCEPT ![t] = e]
     \/ provider' = [provider EXCEPT ![t] = "failed"] /\ UNCHANGED event
  /\ UNCHANGED <<smartStore, smartReorgs, smartCrashes, smartLocals>>

\* A reorganisation drops the inclusion, or replaces it by another.
SmartReorg(t) ==
  /\ smartReorgs < SmartReorgs /\ provider[t] = "success"
  /\ \E e \in Events \ {event[t]} : event' = [event EXCEPT ![t] = e]
  /\ smartReorgs' = smartReorgs + 1
  /\ UNCHANGED <<smartStore, provider, smartCrashes, smartLocals>>

\* A call of the provider or the RPC fails, before or after its effect.
SmartCallFails(p) ==
  /\ smartStep[p] \in {"ask", "receipt", "locked", "approve"}
  /\ smartCrashes < SmartCrashes /\ smartCrashes' = smartCrashes + 1
  /\ IF smartStep[p] = "approve" /\ ~smartExpired
     THEN provider' \in {provider, Approved(smartTx[p])}
     ELSE UNCHANGED provider
  /\ SmartLeave(p)
  /\ UNCHANGED <<smartStore, event, smartReorgs>>

SmartCrash(p) ==
  /\ smartStep[p] # "idle"
  /\ smartCrashes < SmartCrashes /\ smartCrashes' = smartCrashes + 1
  /\ smartDead' = (smartDead \/ smartLock = p)
  /\ SmartEnd(p)
  /\ UNCHANGED <<row, smartExpired, smartLock, smartWorld>>

SmartProcStep(p) ==
  \/ CallSmart(p) \/ SmartRead(p) \/ SmartAsk(p) \/ SmartReceipt(p)
  \/ SmartSave(p) \/ SmartNext(p) \/ SmartPrepare(p) \/ SmartRecord(p)
  \/ SmartResume(p) \/ SmartApprove(p) \/ SmartUnlock(p)

SmartExecutionNext ==
  \/ \E p \in SmartProcs :
       SmartProcStep(p) \/ SmartCallFails(p) \/ SmartCrash(p)
  \/ \E t \in SmartTxs : ProviderFinishes(t) \/ SmartReorg(t)
  \/ SmartExpire

SmartSpec == SmartInit /\ [][SmartExecutionNext]_smartVars

-----------------------------------------------------------------------------
\* README.md:78, "persists the provider ID [...] before requesting approval":
\* whatever was approved at the provider is the transaction the row records,
\* so no crash or lost answer makes the operation run twice.
ApprovedIsRecorded ==
  \A t \in SmartTxs : provider[t] \notin {"none", "awaiting"} => row.remote = t

\* README.md:78, "A reorg returns the operation to pending": the row ends up
\* showing what the canonical UserOperation event says, inner flag included,
\* although stale polls may save what they saw before.
RowFollowsEvent ==
  <>[](\A t \in SmartTxs : provider[t] = "success" =>
         row.tag = IF event[t] = "none" THEN "walletPending" ELSE event[t])
=============================================================================
