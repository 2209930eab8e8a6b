------------------------------ MODULE Policies ------------------------------
(***************************************************************************)
(* src/policy.ts and src/signatures.ts: what a signer may sign without     *)
(* being asked.  A named policy is a document with terms that never change *)
(* and the reservations made against its budgets; sign (execution.ts)      *)
(* reserves before it signs, while other processes reserve, save and       *)
(* revoke policies, and die.  Typed data is signed under a key, once.      *)
(***************************************************************************)
EXTENDS Integers, FiniteSets, FiniteSetsExt

CONSTANTS
  Signers,        \* processes that execute and sign
  SignerPolicy,   \* the policy each is configured with, or NoPolicy
  PolicyNames, NoPolicy,
  Terms,          \* terms a user may give a policy
  PlanIds,
  PlanOf,         \* what each plan asks for
  TypedKeys, Payloads, NoPayload,
  MaxPolicyTime   \* bound

ASSUME PoliciesAssumption ==
  /\ NoPolicy \notin PolicyNames /\ NoPayload \notin Payloads
  /\ SignerPolicy \in [Signers -> PolicyNames \cup {NoPolicy}]
  /\ IsFiniteSet(PlanIds) /\ MaxPolicyTime \in Nat
  /\ \A i \in PlanIds : {PlanOf[i].value, PlanOf[i].amount, PlanOf[i].fee} \subseteq Nat
  /\ \A t \in Terms : t.native \in Int /\ \A token \in DOMAIN t.budget : t.budget[token] \in Int

VARIABLES
  policyTime,
  policyDocs,    \* per name: nothing, or its terms, whether it was revoked, what is
                 \* reserved, and (history) what was when it was revoked
  typedRows,     \* per key: the payload whose signature is on record
  order,         \* per process: what it does, and what it has read for it
  signedPlans,   \* history: <<process, plan>> signed
  typedSigned    \* history: [by, payload, verifies] per signature handed out or kept

policyVars == <<policyTime, policyDocs, typedRows, order, signedPlans, typedSigned>>

NoDocument == [terms |-> {}, revoked |-> FALSE, reserved |-> {}, closed |-> {}]
Free == [at |-> "idle", plan |-> 0, now |-> 0, key |-> {}, payload |-> NoPayload,
         verifies |-> FALSE]

PoliciesTypeOK ==
  /\ policyTime \in 0..MaxPolicyTime
  /\ \A n \in PolicyNames : policyDocs[n].reserved \subseteq PlanIds
                         /\ policyDocs[n].revoked \in BOOLEAN
  /\ \A s \in Signers : order[s].at \in {"idle", "reserve", "sign", "typed", "verify"}
  /\ typedRows \in [TypedKeys -> Payloads \cup {NoPayload}]

PoliciesInit ==
  /\ policyTime = 0
  /\ policyDocs = [n \in PolicyNames |-> NoDocument]
  /\ typedRows = [k \in TypedKeys |-> NoPayload]
  /\ order = [s \in Signers |-> Free]
  /\ signedPlans = {} /\ typedSigned = {}

OrderGoes(s, next) == order' = [order EXCEPT ![s] = next]
Saved(n) == policyDocs[n] # NoDocument

-----------------------------------------------------------------------------
(* The documents *)

\* savePolicy: a name is taken for good, also by a policy that was revoked.
NameIsFree(n) == ~Saved(n)
SavePolicy(n, terms) ==
  /\ NameIsFree(n)
  /\ policyDocs' = [policyDocs EXCEPT ![n] = [NoDocument EXCEPT !.terms = {terms}]]
  /\ UNCHANGED <<policyTime, typedRows, order, signedPlans, typedSigned>>

RevokePolicy(n) ==
  /\ Saved(n)
  /\ policyDocs' = [policyDocs EXCEPT ![n].revoked = TRUE,
                         ![n].closed = IF policyDocs[n].revoked THEN @ ELSE policyDocs[n].reserved]
  /\ UNCHANGED <<policyTime, typedRows, order, signedPlans, typedSigned>>

-----------------------------------------------------------------------------
(* reservePolicy *)

\* The token a plan spends or lets be spent, if it is one of the three calls
\* that name an amount; any other call a policy allows is not metered.
Metered == {"transfer", "approve", "transferFrom"}
TokenOf(i) == IF PlanOf[i].call \in Metered THEN {PlanOf[i].to} ELSE {}
Summed(f, ids) == MapThenSumSet(LAMBDA i : f[i], ids)
NativeOf(ids) == Summed([i \in PlanIds |-> PlanOf[i].value], ids)
SpentOf(ids, token) ==
  Summed([i \in PlanIds |-> PlanOf[i].amount], {i \in ids : token \in TokenOf(i)})

\* Which calls the terms let a plan make, and to whom.
Permitted(t, plan) ==
  IF plan.call = "none" THEN plan.to \in t.recipients
  ELSE /\ <<plan.to, plan.call>> \in t.contracts
       /\ plan.call \in Metered => plan.recipient \in t.recipients
       /\ plan.call = "transferFrom" => plan.from = plan.account

Authorized(t, plan, at) ==
  /\ at < t.expires
  /\ plan.account = t.account
  /\ plan.fee <= t.maxFee
  /\ Permitted(t, plan)

WithinBudget(t, reserved, i) ==
  /\ NativeOf(reserved \cup {i}) <= t.native
  /\ \A token \in TokenOf(i) :
       token \in DOMAIN t.budget /\ SpentOf(reserved \cup {i}, token) <= t.budget[token]

\* A plan that is reserved already is not charged again, but is refused all the
\* same once the policy has expired or was revoked.
MayReserve(doc, i, at) ==
  /\ ~doc.revoked
  /\ \E t \in doc.terms : /\ Authorized(t, PlanOf[i], at)
                          /\ i \in doc.reserved \/ WithinBudget(t, doc.reserved, i)

\* sign: a signer bound to a policy signs no plan of another; the clock is read
\* before the transaction of the store begins.
BeginReserve(s, i) ==
  /\ order[s].at = "idle"
  /\ SignerPolicy[s] = NoPolicy \/ PlanOf[i].policy = SignerPolicy[s]
  /\ OrderGoes(s, [Free EXCEPT !.at = IF PlanOf[i].policy = NoPolicy THEN "sign" ELSE "reserve",
                          !.plan = i, !.now = policyTime])
  /\ UNCHANGED <<policyTime, policyDocs, typedRows, signedPlans, typedSigned>>

Reserve(s) ==
  LET i == order[s].plan
      n == PlanOf[i].policy IN
  /\ order[s].at = "reserve"
  /\ IF MayReserve(policyDocs[n], i, order[s].now)
     THEN /\ policyDocs' = [policyDocs EXCEPT ![n].reserved = @ \cup {i}]
          /\ OrderGoes(s, [order[s] EXCEPT !.at = "sign"])
     ELSE OrderGoes(s, Free) /\ UNCHANGED policyDocs
  /\ UNCHANGED <<policyTime, typedRows, signedPlans, typedSigned>>

SignPlan(s) ==
  /\ order[s].at = "sign"
  /\ signedPlans' = signedPlans \cup {<<s, order[s].plan>>}
  /\ OrderGoes(s, Free)
  /\ UNCHANGED <<policyTime, policyDocs, typedRows, typedSigned>>

-----------------------------------------------------------------------------
(* typedSignature *)

\* A key whose record is of other data is a conflict; one that has none is
\* signed for, unless the signer is bound to a policy. A record of the same data
\* is returned as it stands, also to a signer bound to a policy
\* (signatures.ts:19-23): no step, for it changes nothing.
BeginTyped(s, k, payload) ==
  /\ order[s].at = "idle" /\ typedRows[k] = NoPayload
  /\ SignerPolicy[s] = NoPolicy
  /\ OrderGoes(s, [Free EXCEPT !.at = "typed", !.key = {k}, !.payload = payload])
  /\ UNCHANGED <<policyTime, policyDocs, typedRows, signedPlans, typedSigned>>

\* The wallet signs, with the account that was asked for or another.
SignTyped(s) ==
  /\ order[s].at = "typed"
  /\ \E verifies \in BOOLEAN :
       OrderGoes(s, [order[s] EXCEPT !.at = "verify", !.verifies = verifies])
  /\ UNCHANGED <<policyTime, policyDocs, typedRows, signedPlans, typedSigned>>

\* verifyHash, and then the record: what verifies is kept, over what another
\* call kept under the key meanwhile.
VerifyTyped(s) ==
  LET o == order[s] IN
  /\ o.at = "verify"
  /\ OrderGoes(s, Free)
  /\ IF o.verifies
     THEN /\ typedRows' = [k \in TypedKeys |-> IF k \in o.key THEN o.payload ELSE typedRows[k]]
          /\ typedSigned' = typedSigned
               \cup {[by |-> s, payload |-> o.payload, verifies |-> o.verifies]}
     ELSE UNCHANGED <<typedRows, typedSigned>>
  /\ UNCHANGED <<policyTime, policyDocs, signedPlans>>

\* A call fails, is denied, or its process dies, wherever it is.
StopSigning(s) ==
  /\ order[s].at # "idle" /\ OrderGoes(s, Free)
  /\ UNCHANGED <<policyTime, policyDocs, typedRows, signedPlans, typedSigned>>

PolicyTick ==
  /\ policyTime < MaxPolicyTime /\ policyTime' = policyTime + 1
  /\ UNCHANGED <<policyDocs, typedRows, order, signedPlans, typedSigned>>

PoliciesNext ==
  \/ \E n \in PolicyNames : RevokePolicy(n) \/ \E t \in Terms : SavePolicy(n, t)
  \/ \E s \in Signers :
       \/ \E i \in PlanIds : BeginReserve(s, i)
       \/ Reserve(s) \/ SignPlan(s) \/ SignTyped(s) \/ VerifyTyped(s) \/ StopSigning(s)
       \/ \E k \in TypedKeys, payload \in Payloads : BeginTyped(s, k, payload)
  \/ PolicyTick

PoliciesSpec == PoliciesInit /\ [][PoliciesNext]_policyVars

-----------------------------------------------------------------------------
SignedUnder(n) ==
  {i \in PlanIds : PlanOf[i].policy = n /\ \E s \in Signers : <<s, i>> \in signedPlans}

\* policy.ts:22, "Policies are immutable", and the budgets of lines 65 and 69:
\* all that was ever signed under a name stays within the budgets of its terms
\* and within the calls and recipients they name, whoever reserved it, however
\* often, and whatever was revoked or saved in between; and a policy that was
\* revoked authorizes nothing more than it did until then.
SpendingIsBounded ==
  \A n \in PolicyNames :
    /\ policyDocs[n].revoked =>
         SignedUnder(n) \subseteq policyDocs[n].closed /\ policyDocs[n].reserved = policyDocs[n].closed
    /\ \A i \in SignedUnder(n) : \E t \in policyDocs[n].terms :
         /\ Permitted(t, PlanOf[i])
         /\ NativeOf(SignedUnder(n)) <= t.native
         /\ \A token \in TokenOf(i) : SpentOf(SignedUnder(n), token) <= t.budget[token]

\* A signer bound to a policy signs nothing outside it: no plan of another
\* (execution.ts:135) and no typed data, which a policy cannot meter
\* (signatures.ts:25); and no signature is kept that does not verify.
BoundSignersObey ==
  /\ \A s \in Signers, i \in PlanIds :
       <<s, i>> \in signedPlans => SignerPolicy[s] \in {NoPolicy, PlanOf[i].policy}
  /\ \A x \in typedSigned : SignerPolicy[x.by] = NoPolicy /\ x.verifies
=============================================================================
