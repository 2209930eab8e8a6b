--------------------------- MODULE OperationStore ---------------------------
(***************************************************************************)
(* The SQLite execution journal (storage.ts): the operations table and the *)
(* account locks.  Each operator is one SQLite statement or one immediate  *)
(* transaction, hence atomic across processes.  save is a plain UPDATE: it *)
(* overwrites whatever another process wrote since the caller read.        *)
(***************************************************************************)
EXTENDS Chain

CONSTANTS
  Procs,      \* toolkit processes sharing the database
  Dead        \* pid of a process that no longer exists (kill gives ESRCH)

ASSUME DeadAssumption == Dead \notin Procs

VARIABLES
  ops,        \* operations table: id -> operation
  locks       \* locks table: account -> holder row

storeVars == <<ops, locks>>

NoNonce == -1
InFlight == {"submitting", "pending"}
Unresolved == InFlight \cup {"walletPending"}
Settled == {"confirmed", "reverted"}
Tags == {"absent", "prepared", "cancelled", "superseded"}
          \cup Unresolved \cup Settled

\* The reviewed part of a plan; a fingerprint is injective on these fields.
\* repl and nonce are plan.replacement {id, nonce}.
Plan == {plan \in [fee: Fees, repl: Ops \cup {None}, nonce: Nonces \cup {NoNonce}] :
           plan.repl = None <=> plan.nonce = NoNonce}

\* hash is the transaction named by the state, nonce the state's nonce and
\* signed the separately persisted {raw, hash, nonce}.
Operation ==
  {s \in [tag: Tags, plan: Plan, hash: Tx \cup {None},
          nonce: Nonces \cup {NoNonce}, signed: Tx \cup {None}] :
     /\ s.tag \in InFlight => s.nonce # NoNonce
     /\ s.tag \in InFlight \cup Settled => s.hash # None
     /\ s.tag \notin Unresolved => s.nonce = NoNonce
     /\ s.tag \notin Unresolved \cup Settled => s.hash = None}

BasePlan == [fee |-> 0, repl |-> None, nonce |-> NoNonce]
Blank(tag, plan) == [tag |-> tag, plan |-> plan, hash |-> None,
                     nonce |-> NoNonce, signed |-> None]
NoOp == Blank("absent", BasePlan)

Lock == [op: Ops \cup {None}, pid: Procs \cup {Dead}]
NoLock == [op |-> None, pid |-> Dead]

StoreTypeOK ==
  /\ ops \in [Ops -> Operation]
  /\ locks \in [Accounts -> Lock]

StoreInit ==
  /\ ops = [o \in Ops |-> NoOp]
  /\ locks = [a \in Accounts |-> NoLock]

-----------------------------------------------------------------------------
IsUnresolved(o) == ops[o].tag \in Unresolved

\* Store.save
Save(o, operation) == ops' = [ops EXCEPT ![o] = operation]

\* Faulty variants, with a condition of MayLock forgotten: the runs reject them.
MayLockIgnoringRow(o, plan) ==
  \A q \in Ops \ {o, plan.repl} :
    AccountOf[q] = AccountOf[o] => ~IsUnresolved(q)
MayLockIgnoringOthers(o, plan) == locks[AccountOf[o]].pid = Dead

\* Store.lock, the conditions: no other operation of the account, except the
\* one this plan replaces, is unresolved, and no live process holds the row.
MayLock(o, plan) ==
  /\ \A q \in Ops \ {o, plan.repl} :
       AccountOf[q] = AccountOf[o] => ~IsUnresolved(q)
  /\ locks[AccountOf[o]].pid = Dead

\* Store.lock, the insertion: the row of a dead holder is replaced.
TakeLock(p, o) ==
  locks' = [locks EXCEPT ![AccountOf[o]] = [op |-> o, pid |-> p]]

\* Store.unlock: DELETE ... WHERE operation = id, whoever inserted the row.
ReleaseLock(o) ==
  locks' = [a \in Accounts |-> IF locks[a].op = o THEN NoLock ELSE locks[a]]

\* Faulty variants: the pid of a row never shows its holder dead, or always.
AbandonNoLocks(p) == locks' = locks
AbandonAllLocks(p) == locks' = [a \in Accounts |-> [locks[a] EXCEPT !.pid = Dead]]

\* A process dies: its rows stay, but their pid answers ESRCH from now on.
AbandonLocks(p) ==
  locks' = [a \in Accounts |->
              IF locks[a].pid = p THEN [locks[a] EXCEPT !.pid = Dead]
                                  ELSE locks[a]]
=============================================================================
