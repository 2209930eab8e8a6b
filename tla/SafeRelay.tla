----------------------------- MODULE SafeRelay -----------------------------
(***************************************************************************)
(* safe/relay.ts: one sponsored UserOperation of a Safe wallet.  Owners    *)
(* sign the stored record, somebody submits it to the bundler, everybody   *)
(* polls it or cancels it.  Each command reads the record, works, and puts *)
(* a new record back if the old one is still there (commitDocuments).      *)
(***************************************************************************)
EXTENDS Naturals, FiniteSets

CONSTANTS
  Clients,      \* processes working on the operation
  Owners,       \* owners of the Safe at the start
  Threshold,    \* signatures it takes
  MaxRemovals,  \* bound: owners removed from the Safe
  RelayReorgs   \* bound: reorganisations

ASSUME RelayAssumption ==
  /\ Threshold \in 1..Cardinality(Owners)
  /\ MaxRemovals \in Nat /\ RelayReorgs \in Nat

VARIABLES
  record,       \* document safe-relay:id
  relayExpired, \* validUntil has passed
  owners,       \* current owners of the Safe
  bundled,      \* the bundler's view of the operation, or its outcome
  everBundled,  \* history: it was handed to the bundler
  relayReorgs,
  relayStep,    \* next step of each client
  relaySeen,    \* the record it read
  relayNext     \* the record it is about to save

relayWorld == <<relayExpired, owners, bundled, everBundled, relayReorgs>>
relayLocals == <<relayStep, relaySeen, relayNext>>
relayVars == <<record, relayWorld, relayLocals>>

RelayOutcomes == {"confirmed", "reverted"}
RelayStates == {"absent", "prepared", "pending", "cancelled"} \cup RelayOutcomes
\* hashed: userOperationHash is recorded.
Record == [state: RelayStates, signatures: SUBSET Owners, hashed: BOOLEAN]
RelaySteps == {"idle", "save", "submit", "simulate", "savePending", "send",
               "receipt"}

RelayTypeOK ==
  /\ record \in Record /\ relayExpired \in BOOLEAN
  /\ owners \in SUBSET Owners /\ everBundled \in BOOLEAN
  /\ bundled \in {"none", "held"} \cup RelayOutcomes
  /\ relayReorgs \in 0..RelayReorgs
  /\ relayStep \in [Clients -> RelaySteps]
  /\ relaySeen \in [Clients -> Record]
  /\ relayNext \in [Clients -> Record]

NoRecord == [state |-> "absent", signatures |-> {}, hashed |-> FALSE]

RelayInit ==
  /\ record = NoRecord /\ relayExpired = FALSE /\ owners = Owners
  /\ bundled = "none" /\ everBundled = FALSE /\ relayReorgs = 0
  /\ relayStep = [c \in Clients |-> "idle"]
  /\ relaySeen = [c \in Clients |-> NoRecord]
  /\ relayNext = [c \in Clients |-> NoRecord]

-----------------------------------------------------------------------------
RelayTurn(c, from, to) ==
  relayStep[c] = from /\ relayStep' = [relayStep EXCEPT ![c] = to]

RelayQuit(c) ==
  /\ relayStep' = [relayStep EXCEPT ![c] = "idle"]
  /\ relaySeen' = [relaySeen EXCEPT ![c] = NoRecord]
  /\ relayNext' = [relayNext EXCEPT ![c] = NoRecord]

\* c has read the record and will save `value` in its place.
Propose(c, value) ==
  /\ RelayTurn(c, "idle", "save")
  /\ relaySeen' = [relaySeen EXCEPT ![c] = record]
  /\ relayNext' = [relayNext EXCEPT ![c] = value]
  /\ UNCHANGED <<record, relayWorld>>

\* Faulty variant: the record is replaced whatever it says.
SaveAnyway(c) == TRUE

\* Whether commitDocuments finds the record that was read.
MaySave(c) == record = relaySeen[c]

-----------------------------------------------------------------------------
\* safeSponsoredPropose: an existing record is returned.
ProposeRelay(c) ==
  /\ record = NoRecord
  /\ Propose(c, [NoRecord EXCEPT !.state = "prepared"])

\* Prepared and within its validity: the record can be changed.
Editable == record.state = "prepared" /\ ~relayExpired

\* safeSponsoredSignature: the signer must be an owner now; a signature of
\* the same owner is replaced.
SignRelay(c, owner) ==
  /\ Editable /\ owner \in owners
  /\ Propose(c, [record EXCEPT !.signatures = @ \cup {owner}])

\* safeSponsoredCancel: only what has not been submitted, expired or not.
CancelRelay(c) ==
  /\ record.state = "prepared"
  /\ Propose(c, [record EXCEPT !.state = "cancelled"])

\* saveRecord; the error of a conflict ends the command.
SaveRelay(c) ==
  /\ relayStep[c] = "save"
  /\ record' = IF MaySave(c) THEN relayNext[c] ELSE record
  /\ RelayQuit(c)
  /\ UNCHANGED relayWorld

-----------------------------------------------------------------------------
(* safeSponsoredSubmit *)

\* The record is read; a cancelled or finished one is left alone.
SubmitRelay(c) ==
  /\ record.state \in {"prepared", "pending"}
  /\ RelayTurn(c, "idle", IF record.state = "prepared" THEN "submit" ELSE "send")
  /\ relaySeen' = [relaySeen EXCEPT ![c] = record]
  /\ UNCHANGED <<record, relayWorld, relayNext>>

\* editable is read again, but the record of the first read goes on; its
\* signatures are counted.
CountSignatures(c) ==
  /\ relayStep[c] = "submit"
  /\ IF Editable /\ Cardinality(relaySeen[c].signatures) >= Threshold
     THEN /\ RelayTurn(c, "submit", "simulate")
          /\ UNCHANGED <<relaySeen, relayNext>>
     ELSE RelayQuit(c)
  /\ UNCHANGED <<record, relayWorld>>

\* What the EntryPoint accepts: in time, and signed by enough owners of now.
Executable(r) ==
  ~relayExpired /\ Cardinality(r.signatures \cap owners) >= Threshold

\* The call of handleOps is simulated.
SimulateRelay(c) ==
  /\ relayStep[c] = "simulate"
  /\ IF Executable(relaySeen[c])
     THEN /\ RelayTurn(c, "simulate", "savePending")
          /\ UNCHANGED <<relaySeen, relayNext>>
     ELSE RelayQuit(c)
  /\ UNCHANGED <<record, relayWorld>>

\* The hash is saved with the state pending, before the bundler is called.
SavePendingRelay(c) ==
  /\ relayStep[c] = "savePending"
  /\ IF MaySave(c)
     THEN /\ record' = [relaySeen[c] EXCEPT !.state = "pending", !.hashed = TRUE]
          /\ RelayTurn(c, "savePending", "send")
          /\ UNCHANGED <<relaySeen, relayNext>>
     ELSE RelayQuit(c) /\ UNCHANGED record
  /\ UNCHANGED relayWorld

\* executeTransaction: the bundler takes the operation once and refuses what
\* the EntryPoint would; the answer may be lost.
SendRelay(c) ==
  /\ relayStep[c] = "send"
  /\ IF bundled = "none" /\ Executable(relaySeen[c])
     THEN bundled' = "held" /\ everBundled' = TRUE
     ELSE UNCHANGED <<bundled, everBundled>>
  /\ RelayQuit(c)
  /\ UNCHANGED <<record, relayExpired, owners, relayReorgs>>

\* The call does not reach the bundler.
SendRelayFails(c) ==
  /\ relayStep[c] = "send"
  /\ RelayQuit(c)
  /\ UNCHANGED <<record, relayWorld>>

-----------------------------------------------------------------------------
(* safeSponsoredStatus *)

PollRelay(c) ==
  /\ record.hashed
  /\ RelayTurn(c, "idle", "receipt")
  /\ relaySeen' = [relaySeen EXCEPT ![c] = record]
  /\ UNCHANGED <<record, relayWorld, relayNext>>

\* Faulty variant: a settled record stays settled.
Unsettled(r) == r

\* Without a receipt a settled record is pending again.
WithoutReceipt(r) ==
  IF r.state \in RelayOutcomes THEN [r EXCEPT !.state = "pending"] ELSE r

\* getUserOperationReceipt, and the canonical event of its block; without
\* either a record that is not settled is left alone.
ReceiptOfRelay(c) ==
  LET seen == relaySeen[c]
      result == IF bundled \in RelayOutcomes
                THEN [seen EXCEPT !.state = bundled] ELSE WithoutReceipt(seen) IN
  /\ relayStep[c] = "receipt"
  /\ IF bundled \in RelayOutcomes \/ result # seen
     THEN /\ RelayTurn(c, "receipt", "save") /\ UNCHANGED relaySeen
          /\ relayNext' = [relayNext EXCEPT ![c] = result]
     ELSE RelayQuit(c)
  /\ UNCHANGED <<record, relayWorld>>

-----------------------------------------------------------------------------
(* The Safe and the bundler *)

RelayExpires ==
  /\ record.state \in {"prepared", "pending"} /\ relayExpired' = TRUE
  /\ UNCHANGED <<record, owners, bundled, everBundled, relayReorgs, relayLocals>>

OwnerRemoved(owner) ==
  /\ owner \in owners /\ Cardinality(Owners \ owners) < MaxRemovals
  /\ owners' = owners \ {owner}
  /\ UNCHANGED <<record, relayExpired, bundled, everBundled, relayReorgs,
                 relayLocals>>

\* The bundler includes the operation, or drops it.
BundlerActs ==
  /\ bundled = "held"
  /\ bundled' \in {"none"} \cup (IF Executable(record) THEN RelayOutcomes ELSE {})
  /\ UNCHANGED <<record, relayExpired, owners, everBundled, relayReorgs,
                 relayLocals>>

RelayReorg ==
  /\ relayReorgs < RelayReorgs /\ bundled \in RelayOutcomes
  /\ bundled' \in {"none", "held"} /\ relayReorgs' = relayReorgs + 1
  /\ UNCHANGED <<record, relayExpired, owners, everBundled, relayLocals>>

RelayGoesOn(c) ==
  \/ SaveRelay(c) \/ CountSignatures(c) \/ SimulateRelay(c)
  \/ SavePendingRelay(c) \/ SendRelay(c) \/ ReceiptOfRelay(c)

RelayNext ==
  \/ \E c \in Clients :
       \/ ProposeRelay(c) \/ CancelRelay(c) \/ SubmitRelay(c)
       \/ \E owner \in Owners : SignRelay(c, owner)
       \/ PollRelay(c) \/ RelayGoesOn(c) \/ SendRelayFails(c)
  \/ \E owner \in Owners : OwnerRemoved(owner)
  \/ RelayExpires \/ BundlerActs \/ RelayReorg

RelaySpec == RelayInit /\ [][RelayNext]_relayVars

-----------------------------------------------------------------------------
\* docs/39-safe-organization-wallets.md:76 and 78: the record says pending,
\* with its hash, before the bundler can know the operation, and "only cancels
\* a local, unsubmitted record": a cancellation racing a submission never
\* leaves a cancelled record of an operation the bundler was given.
BundledIsRecorded ==
  everBundled => record.hashed /\ record.state \in {"pending"} \cup RelayOutcomes

\* Owners who sign at the same time do not lose each other's signatures.
SignaturesAreKept == record.signatures \subseteq record'.signatures

\* docs/39-safe-organization-wallets.md:76: once the chain has settled, the
\* record shows the outcome of the operation's event, and none without it.
RelayFollowsChain ==
  <>[](IF bundled \in RelayOutcomes THEN record.state = bundled
       ELSE record.state \notin RelayOutcomes)
=============================================================================
