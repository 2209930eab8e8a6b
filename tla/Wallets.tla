------------------------------ MODULE Wallets ------------------------------
(***************************************************************************)
(* The wallets of the Aero CLI and TUI (packages/sugar/src/wallet.ts,      *)
(* walletconnect.ts, browser-wallet.ts, cli/wallet-commands.ts,            *)
(* cli/run-action.ts, tui/screens/wallet.tsx).  Three records on disk say  *)
(* which wallet is active, and every process of the user reads and writes  *)
(* them; a WalletConnect session also lives in the wallet, in the storage  *)
(* of the sign clients and in the memory of each.  A plan is built for the *)
(* wallet that is active, reviewed, and signed by the wallet that is       *)
(* active then.  The bridge to the browser is that of BrowserBridge.       *)
(***************************************************************************)
EXTENDS Integers, FiniteSets

CONSTANTS
  Procs, Addresses,
  NoAddress,       \* no record, no bridge
  PlanSteps,       \* transactions of a plan
  MaxTopics,       \* bound: WalletConnect sessions
  MaxCommands      \* bound: commands

ASSUME WalletsAssumption ==
  /\ NoAddress \notin Addresses /\ {PlanSteps, MaxTopics, MaxCommands} \subseteq Nat

VARIABLES
  files,           \* the records: browser, wc and local
  sessions,        \* per topic: the accounts the wallet grants, none once it is over
  onDisk,          \* the same, as the storage of the sign clients has it
  signClient,          \* per process: sharedClient, its sessions, invalidatedTopic
  paired,          \* per process: account of the connected bridge to the browser
  proc,            \* per process: where its command is
  topics,          \* topics made
  commands,        \* commands begun
  crowded,         \* history: commands of two processes overlapped
  chosen,          \* history: what the last command selected, or Unsure
  walletAsked            \* history: reviewed sender and account asked to sign it

walletVars ==
  <<files, sessions, onDisk, signClient, paired, proc, topics, commands, crowded, chosen, walletAsked>>

Topics == 1..MaxTopics
NoRecord == [topic |-> 0, address |-> NoAddress]
Unsure == [source |-> "unsure", address |-> NoAddress]
Nobody == [source |-> "none", address |-> NoAddress]
NoClient == [on |-> FALSE, knows |-> [t \in Topics |-> {}], invalid |-> 0]
Idle == [at |-> "idle", then |-> "stop", rec |-> NoRecord, sender |-> NoAddress, left |-> 0]

Busy(p) == proc[p].at # "idle"

WalletsTypeOK ==
  /\ files.browser \in Addresses \cup {NoAddress}
  /\ files.local \in Addresses \cup {NoAddress}
  /\ files.wc = NoRecord \/ (files.wc.topic \in 1..topics /\ files.wc.address \in Addresses)
  /\ \A p \in Procs :
       /\ proc[p].at = "idle" => proc[p] = Idle
       /\ proc[p].left > 0 => proc[p].sender \in Addresses
       /\ ~signClient[p].on => signClient[p] = NoClient
       /\ paired[p] \in Addresses \cup {NoAddress}
  /\ \A t \in Topics : sessions[t] # {} => t <= topics

WalletsInit ==
  /\ files = [browser |-> NoAddress, wc |-> NoRecord, local |-> NoAddress]
  /\ sessions = [t \in Topics |-> {}] /\ onDisk = [t \in Topics |-> {}]
  /\ signClient = [p \in Procs |-> NoClient] /\ paired = [p \in Procs |-> NoAddress]
  /\ proc = [p \in Procs |-> Idle]
  /\ topics = 0 /\ commands = 0 /\ crowded = FALSE /\ chosen = Nobody /\ walletAsked = {}

-----------------------------------------------------------------------------
(* The records *)

\* The external wallet selected in f: the browser's before WalletConnect's.
External(f) ==
  CASE f.browser # NoAddress -> [source |-> "browser", address |-> f.browser]
    [] f.browser = NoAddress /\ f.wc # NoRecord ->
         [source |-> "walletconnect", address |-> f.wc.address]
    [] OTHER -> Nobody

getActiveWallet ==
  CASE External(files) # Nobody -> External(files)
    [] External(files) = Nobody /\ files.local # NoAddress ->
         [source |-> "local", address |-> files.local]
    [] OTHER -> Nobody

-----------------------------------------------------------------------------
(* Commands: how one begins, and what its end selects *)

BeginWork(p) ==
  /\ ~Busy(p) /\ commands < MaxCommands /\ commands' = commands + 1
  /\ crowded' = (\E q \in Procs : Busy(q))
  /\ chosen' = IF \E q \in Procs : Busy(q) THEN Unsure ELSE chosen

\* p goes on as `next`; its command selected `what` when that is its end.
Goes(p, next) == proc' = [proc EXCEPT ![p] = next]
Ends(p, what) == Goes(p, Idle) /\ chosen' = (IF crowded THEN Unsure ELSE what)
Continue == UNCHANGED <<commands, crowded>>

\* A command that fails part of the way leaves what it has done.
WorkFails(p) == Ends(p, External(files'))

-----------------------------------------------------------------------------
(* WalletConnect: sharedClient and the end of a session *)

NeedsClient(p) == proc[p].at \in {"ending", "pairingWc", "sendingWc"}

\* initSignClient: the sessions are those of the storage.
OpenClient(p) ==
  /\ NeedsClient(p) /\ ~signClient[p].on
  /\ signClient' = [signClient EXCEPT ![p] = [@ EXCEPT !.on = TRUE, !.knows = onDisk]]
  /\ Continue
  /\ UNCHANGED <<files, sessions, onDisk, paired, proc, topics, chosen, walletAsked>>

\* The topic disconnectWalletConnect ends; 0 when it has nothing to do.
TopicToEnd(p) == IF files.wc # NoRecord THEN files.wc.topic ELSE signClient[p].invalid

\* client.disconnect: tried, and then forgotten whatever came of it.
EndSession(p) ==
  /\ proc[p].at = "ending"
  /\ LET t == proc[p].rec.topic IN
     \/ /\ signClient[p].on /\ signClient[p].knows[t] # {}
        /\ sessions' = [sessions EXCEPT ![t] = {}] /\ onDisk' = [onDisk EXCEPT ![t] = {}]
        /\ signClient' = [signClient EXCEPT ![p].knows[t] = {}]
     \/ UNCHANGED <<sessions, onDisk, signClient>>
  /\ Goes(p, [proc[p] EXCEPT !.at = "ended"])
  /\ Continue /\ UNCHANGED <<files, paired, topics, chosen, walletAsked>>

\* connectBrowserWallet once WalletConnect is disconnected: p's wallet is
\* selected if its bridge still stands.
SaveBrowser(p, f) ==
  IF paired[p] = NoAddress
  THEN files' = f /\ WorkFails(p)
  ELSE /\ files' = [f EXCEPT !.browser = paired[p]]
       /\ IF proc[p].left > 0
          THEN Goes(p, [proc[p] EXCEPT !.at = "sending", !.rec = NoRecord])
               /\ UNCHANGED chosen
          ELSE Ends(p, [source |-> "browser", address |-> paired[p]])

\* disconnectWalletConnect deletes the record there is, then its caller goes on.
ForgetSession(p) ==
  /\ proc[p].at = "ended"
  /\ signClient' = [signClient EXCEPT ![p].invalid = 0]
  /\ LET f == [files EXCEPT !.wc = NoRecord] IN
     CASE proc[p].then = "stop" -> files' = f /\ Ends(p, Nobody)
       [] proc[p].then = "pair" -> /\ files' = f /\ UNCHANGED chosen
                                   /\ Goes(p, [Idle EXCEPT !.at = "pairingWc"])
       [] OTHER -> SaveBrowser(p, f)
  /\ Continue /\ UNCHANGED <<sessions, onDisk, paired, topics, walletAsked>>

-----------------------------------------------------------------------------
(* wallet connect, wallet connect --browser, wallet disconnect *)

ConnectWalletConnect(p) ==
  /\ BeginWork(p)
  /\ IF TopicToEnd(p) # 0
     THEN Goes(p, [Idle EXCEPT !.at = "ending", !.then = "pair", !.rec.topic = TopicToEnd(p)])
     ELSE Goes(p, [Idle EXCEPT !.at = "pairingWc"])
  /\ UNCHANGED <<files, sessions, onDisk, signClient, paired, topics, walletAsked>>

\* Faulty variant: the wallet of the browser stays selected.
BesideBrowser(f, r) == [f EXCEPT !.wc = r]

\* disconnectBrowserWallet, then the record is saved.
InsteadOfBrowser(f, r) == [f EXCEPT !.browser = NoAddress, !.wc = r]

\* The wallet approves: the session is saved, on an account it grants.
PairWalletConnect(p) ==
  /\ proc[p].at = "pairingWc" /\ signClient[p].on /\ topics < MaxTopics
  /\ \E granted \in SUBSET Addresses \ {{}} : \E a \in granted :
       /\ topics' = topics + 1
       /\ sessions' = [sessions EXCEPT ![topics'] = granted]
       /\ onDisk' = [onDisk EXCEPT ![topics'] = granted]
       /\ signClient' = [signClient EXCEPT ![p].knows[topics'] = granted]
       /\ files' = InsteadOfBrowser(files, [topic |-> topics', address |-> a])
       /\ Ends(p, [source |-> "walletconnect", address |-> a])
  /\ paired' = [paired EXCEPT ![p] = NoAddress]
  /\ Continue /\ UNCHANGED walletAsked

\* stopBrowserWallet, and a bridge of its own.
ConnectBrowser(p) ==
  /\ BeginWork(p) /\ Goes(p, [Idle EXCEPT !.at = "pairingBrowser"])
  /\ paired' = [paired EXCEPT ![p] = NoAddress]
  /\ UNCHANGED <<files, sessions, onDisk, signClient, topics, walletAsked>>

\* The page shares an account, the expected one when a plan waits for it.
PairBrowser(p) ==
  /\ proc[p].at = "pairingBrowser"
  /\ \E a \in Addresses :
       /\ proc[p].left > 0 => a = proc[p].sender
       /\ paired' = [paired EXCEPT ![p] = a]
       /\ IF TopicToEnd(p) # 0
          THEN /\ Goes(p, [proc[p] EXCEPT !.at = "ending", !.then = "browser",
                                          !.rec.topic = TopicToEnd(p)])
               /\ UNCHANGED <<files, chosen>>
          ELSE /\ files' = [files EXCEPT !.browser = a]
               /\ IF proc[p].left > 0
                  THEN Goes(p, [proc[p] EXCEPT !.at = "sending", !.then = "browser"])
                       /\ UNCHANGED chosen
                  ELSE Ends(p, [source |-> "browser", address |-> a])
  /\ Continue /\ UNCHANGED <<sessions, onDisk, signClient, topics, walletAsked>>

Disconnect(p) ==
  /\ BeginWork(p)
  /\ paired' = [paired EXCEPT ![p] = NoAddress]
  /\ files' = [files EXCEPT !.browser = NoAddress]
  /\ Goes(p, [Idle EXCEPT !.at = IF TopicToEnd(p) # 0 THEN "ending" ELSE "ended",
                          !.rec.topic = TopicToEnd(p)])
  /\ UNCHANGED <<sessions, onDisk, signClient, topics, walletAsked>>

-----------------------------------------------------------------------------
(* wallet create, restore and remove: prompts, then the record *)

Prompt(p, at) ==
  /\ BeginWork(p) /\ Goes(p, [Idle EXCEPT !.at = at])
  /\ UNCHANGED <<files, sessions, onDisk, signClient, paired, topics, walletAsked>>

CreateLocal(p) == Prompt(p, "creating")
RemoveLocal(p) == files.local # NoAddress /\ Prompt(p, "removing")

Prompted(p, at, local) ==
  /\ proc[p].at = at /\ files' = [files EXCEPT !.local = local]
  /\ Goes(p, Idle)
  /\ Continue /\ UNCHANGED <<sessions, onDisk, signClient, paired, topics, chosen, walletAsked>>

SaveLocal(p) == \E a \in Addresses : Prompted(p, "creating", a)
DeleteLocal(p) == Prompted(p, "removing", NoAddress)

-----------------------------------------------------------------------------
(* runTxAction: plan, review, sign *)

\* The plan is for the active wallet; without one it is only printed.
Review(p) ==
  /\ getActiveWallet # Nobody /\ BeginWork(p)
  /\ Goes(p, [Idle EXCEPT !.at = "review", !.sender = getActiveWallet.address,
                          !.left = PlanSteps])
  /\ UNCHANGED <<files, sessions, onDisk, signClient, paired, topics, walletAsked>>

\* Faulty variant: whatever wallet the signer has.
AnySigner(address, sender) == TRUE

\* sendPlan: the wallet that signs is the sender that was reviewed.
SignerFits(address, sender) == address = sender

\* resolveSigner, of the wallet that is active now; a local one is unlocked first.
Confirm(p) ==
  /\ proc[p].at = "review"
  /\ LET w == getActiveWallet IN
     CASE w.source = "local" ->
            /\ Goes(p, [proc[p] EXCEPT !.at = "unlocking", !.rec.address = w.address])
            /\ UNCHANGED chosen
       [] w.source # "local" /\ w # Nobody /\ SignerFits(w.address, proc[p].sender) ->
            /\ Goes(p, [proc[p] EXCEPT !.at = "sending", !.then = w.source])
            /\ UNCHANGED chosen
       [] OTHER -> Goes(p, Idle) /\ UNCHANGED chosen
  /\ Continue /\ UNCHANGED <<files, sessions, onDisk, signClient, paired, topics, walletAsked>>

\* The passphrase opens the secret that was read before it was asked for.
Unlock(p) ==
  /\ proc[p].at = "unlocking"
  /\ IF SignerFits(proc[p].rec.address, proc[p].sender)
     THEN Goes(p, [proc[p] EXCEPT !.at = "sending", !.then = "local"])
     ELSE Goes(p, Idle)
  /\ Continue
  /\ UNCHANGED <<files, sessions, onDisk, signClient, paired, topics, chosen, walletAsked>>

\* A transaction of the plan is signed by `account`; the plan goes on or is over.
Asks(p, account) ==
  /\ walletAsked' = walletAsked \cup {[sender |-> proc[p].sender, account |-> account]}
  /\ \/ /\ proc[p].left > 1
        /\ Goes(p, [proc[p] EXCEPT !.at = "sending", !.left = @ - 1])
     \/ Goes(p, Idle)

SendLocal(p) ==
  /\ proc[p].at = "sending" /\ proc[p].then = "local"
  /\ Asks(p, proc[p].rec.address)
  /\ Continue /\ UNCHANGED <<files, sessions, onDisk, signClient, paired, topics, chosen>>

\* walletConnectSendTransaction reads the record, and waits for the client.
SendWalletConnect(p) ==
  /\ proc[p].at = "sending" /\ proc[p].then = "walletconnect"
  /\ IF files.wc = NoRecord THEN Goes(p, Idle)
     ELSE Goes(p, [proc[p] EXCEPT !.at = "sendingWc", !.rec = files.wc])
  /\ Continue
  /\ UNCHANGED <<files, sessions, onDisk, signClient, paired, topics, chosen, walletAsked>>

\* A session that is gone takes its record along; one that grants the account
\* is saved and asked.
AskWalletConnect(p) ==
  /\ proc[p].at = "sendingWc" /\ signClient[p].on
  /\ LET r == proc[p].rec
         granted == signClient[p].knows[r.topic] IN
     \/ /\ granted = {} /\ files' = [files EXCEPT !.wc = NoRecord]
        /\ WorkFails(p) /\ UNCHANGED walletAsked
     \/ /\ granted # {} /\ (r.address # proc[p].sender \/ proc[p].sender \notin granted)
        /\ Goes(p, Idle) /\ UNCHANGED <<files, chosen, walletAsked>>
     \/ /\ r.address = proc[p].sender /\ r.address \in granted
        /\ files' = [files EXCEPT !.wc = r]
        /\ Asks(p, r.address) /\ UNCHANGED chosen
  /\ Continue /\ UNCHANGED <<sessions, onDisk, signClient, paired, topics>>

\* browserWalletSendTransaction: the record is of the sender, and so is the
\* account of the bridge; without a bridge one is paired first.
SendBrowser(p) ==
  /\ proc[p].at = "sending" /\ proc[p].then = "browser"
  /\ IF files.browser # proc[p].sender
     THEN Goes(p, Idle) /\ UNCHANGED walletAsked
     ELSE IF paired[p] = NoAddress
     THEN Goes(p, [proc[p] EXCEPT !.at = "pairingBrowser"]) /\ UNCHANGED walletAsked
     ELSE IF paired[p] = proc[p].sender THEN Asks(p, paired[p])
     ELSE Goes(p, Idle) /\ UNCHANGED walletAsked
  /\ Continue /\ UNCHANGED <<files, sessions, onDisk, signClient, paired, topics, chosen>>

-----------------------------------------------------------------------------
(* What ends early: the user declines, a wait is given up, a process exits *)

GiveUp(p) ==
  /\ Continue /\ UNCHANGED <<files, sessions, onDisk, signClient, topics, walletAsked>>
  /\ \/ /\ proc[p].at \in {"creating", "removing", "review", "unlocking", "sendingWc"}
        /\ Goes(p, Idle) /\ UNCHANGED <<chosen, paired>>
     \/ /\ proc[p].at \in {"pairingWc", "pairingBrowser"} /\ WorkFails(p)
        /\ paired' = IF proc[p].at = "pairingBrowser" THEN [paired EXCEPT ![p] = NoAddress]
                     ELSE paired

\* stopWalletConnect and stopBrowserWallet, or the process is killed.
Exit(p) ==
  /\ signClient[p].on \/ paired[p] # NoAddress \/ Busy(p)
  /\ signClient' = [signClient EXCEPT ![p] = NoClient] /\ paired' = [paired EXCEPT ![p] = NoAddress]
  /\ Goes(p, Idle) /\ chosen' = IF Busy(p) THEN Unsure ELSE chosen
  /\ Continue /\ UNCHANGED <<files, sessions, onDisk, topics, walletAsked>>

-----------------------------------------------------------------------------
(* The wallets act: events of a session, of the tab, and of the records *)

\* The user ends a session in the wallet or grants other accounts.
WalletChanges(t) ==
  /\ sessions[t] # {}
  /\ \E granted \in SUBSET Addresses :
       granted # sessions[t] /\ sessions' = [sessions EXCEPT ![t] = granted]
  /\ UNCHANGED <<files, onDisk, signClient, paired, proc, topics, commands, crowded, chosen, walletAsked>>

\* session_delete and session_expire clear the record of the topic;
\* session_update keeps its account, if it may; accountsChanged deletes it.
\* A topic whose record was deleted for its accounts is to be disconnected.
SessionEvent(p, t) ==
  /\ signClient[p].on /\ signClient[p].knows[t] # sessions[t]
  /\ onDisk' = [onDisk EXCEPT ![t] = sessions[t]]
  /\ LET ours == files.wc.topic = t
         clear == [files EXCEPT !.wc = NoRecord]
         heard(invalid) ==
           signClient' = [signClient EXCEPT ![p].knows[t] = sessions[t], ![p].invalid = invalid] IN
     \/ /\ sessions[t] = {}
        /\ files' = IF ours THEN clear ELSE files
        /\ heard(IF signClient[p].invalid = t THEN 0 ELSE signClient[p].invalid)
     \/ /\ sessions[t] # {}
        /\ \/ /\ ~ours \/ files.wc.address \in sessions[t]
              /\ UNCHANGED files /\ heard(signClient[p].invalid)
           \/ ours /\ files' = clear /\ heard(t)
  /\ chosen' = IF files' # files THEN Unsure ELSE chosen
  /\ Continue /\ UNCHANGED <<sessions, paired, proc, topics, walletAsked>>

\* The tab is closed; or it says that it disconnects, which deletes the record.
TabLeaves(p) ==
  /\ paired[p] # NoAddress /\ paired' = [paired EXCEPT ![p] = NoAddress]
  /\ \/ UNCHANGED <<files, chosen>>
     \/ /\ files' = [files EXCEPT !.browser = NoAddress]
        /\ chosen' = IF files' # files THEN Unsure ELSE chosen
  /\ Continue /\ UNCHANGED <<sessions, onDisk, signClient, proc, topics, walletAsked>>

\* onWalletChange: a bridge whose wallet is not the selected one is stopped.
StopUnselected(p) ==
  /\ paired[p] \notin {NoAddress, files.browser}
  /\ proc[p].then # "browser" \/ proc[p].at \notin {"ending", "ended"}
  /\ paired' = [paired EXCEPT ![p] = NoAddress]
  /\ Continue
  /\ UNCHANGED <<files, sessions, onDisk, signClient, proc, topics, chosen, walletAsked>>

WalletsNext ==
  \/ \E p \in Procs :
       \/ ConnectWalletConnect(p) \/ ConnectBrowser(p) \/ Disconnect(p)
       \/ CreateLocal(p) \/ RemoveLocal(p) \/ DeleteLocal(p) \/ Review(p) \/ OpenClient(p) \/ EndSession(p) \/ ForgetSession(p)
       \/ PairWalletConnect(p) \/ PairBrowser(p) \/ SaveLocal(p)
       \/ Confirm(p) \/ Unlock(p) \/ SendLocal(p) \/ SendWalletConnect(p)
       \/ AskWalletConnect(p) \/ SendBrowser(p) \/ GiveUp(p) \/ Exit(p)
       \/ TabLeaves(p) \/ StopUnselected(p)
       \/ \E t \in Topics : SessionEvent(p, t)
  \/ \E t \in Topics : WalletChanges(t)

WalletsSpec == WalletsInit /\ [][WalletsNext]_walletVars

-----------------------------------------------------------------------------
(* No wallet is asked for a transaction of another sender than the one the
   user reviewed, though the signer is resolved only after the review and any
   process may have selected, replaced or unlocked another wallet meanwhile. *)
SignsWhatWasReviewed == \A a \in walletAsked : a.account = a.sender

(* When the commands did not overlap and no wallet ended its session, the
   external wallet that is active is the one the last command selected: a
   connection is never hidden by the record of an older one. *)
ConnectedIsActive ==
  (\A p \in Procs : ~Busy(p)) /\ chosen # Unsure => External(files) = chosen

=============================================================================
