---------------------------- MODULE PlanPromise ----------------------------
(***************************************************************************)
(* What sending the plans of a wallet promises, whatever processes, files, *)
(* locks, signers and deaths are behind it: one plan at a time is under    *)
(* way, its transactions go out once each and in order, each after the one *)
(* before it succeeded, and a plan ends as what became of them.            *)
(***************************************************************************)
EXTENDS Naturals

CONSTANTS
  Plans,        \* plan ids
  PlanLength    \* transactions per plan

VARIABLES
  status,       \* of each plan
  outcome,      \* what became of each of its transactions, "none" before it
  times         \* how often each was sent

promiseVars == <<status, outcome, times>>

Steps == 1..PlanLength
Outcomes == {"success", "reverted", "replaced"}

PromiseInit ==
  /\ status = [a \in Plans |-> "none"]
  /\ outcome = [a \in Plans |-> [i \in Steps |-> "none"]]
  /\ times = [a \in Plans |-> [i \in Steps |-> 0]]

\* A plan begins when no other is under way.
BeginPlan(a) ==
  /\ status[a] = "none"
  /\ \A b \in Plans : status[b] # "active"
  /\ status' = [status EXCEPT ![a] = "active"]
  /\ UNCHANGED <<outcome, times>>

\* A transaction is sent for the first time, and nothing before it failed.
SendNext(a, i) ==
  /\ status[a] = "active"
  /\ times[a][i] = 0
  /\ \A k \in 1..(i - 1) : outcome[a][k] = "success"
  /\ times' = [times EXCEPT ![a][i] = 1]
  /\ outcome' = [outcome EXCEPT ![a][i] = "pending"]
  /\ UNCHANGED status

\* The chain decides.
Decide(a, i, o) ==
  /\ outcome[a][i] = "pending"
  /\ outcome' = [outcome EXCEPT ![a][i] = o]
  /\ UNCHANGED <<status, times>>

\* The plan is over: done, stopped by a transaction that reverted, or given
\* up while every transaction it ever sent has succeeded.
EndPlan(a, as) ==
  /\ status[a] = "active"
  /\ CASE as = "complete" -> \A i \in Steps : outcome[a][i] = "success"
       [] as = "failed" -> \E i \in Steps : outcome[a][i] = "reverted"
       [] as = "cancelled" ->
            \A i \in Steps : times[a][i] > 0 => outcome[a][i] = "success"
  /\ status' = [status EXCEPT ![a] = as]
  /\ UNCHANGED <<outcome, times>>

PromiseNext ==
  \E a \in Plans :
    \/ BeginPlan(a)
    \/ \E i \in Steps : SendNext(a, i)
    \/ \E i \in Steps, o \in Outcomes : Decide(a, i, o)
    \/ \E as \in {"complete", "failed", "cancelled"} : EndPlan(a, as)

PromiseSpec == PromiseInit /\ [][PromiseNext]_promiseVars
=============================================================================
