---------------------------- MODULE BrowserBridge ----------------------------
(***************************************************************************)
(* packages/sugar/src/browser-wallet.ts and browser-wallet-client.ts: Aero *)
(* serves a page, the page pairs with a wallet of the browser over a       *)
(* websocket, and transactions are asked of that wallet one at a time.     *)
(* What a caller is told decides whether it may send again (SendPlan):     *)
(* only TransactionNotSubmittedError says that nothing was submitted.      *)
(***************************************************************************)
EXTENDS Integers, Sequences, FiniteSets

CONSTANTS
  Txs,          \* transactions, each wanted by one caller
  MaxBridges,   \* bound: connections
  MaxTries      \* bound: calls for one transaction

ASSUME BridgeAssumption == MaxBridges \in Nat /\ MaxTries \in Nat

VARIABLES
  bridge,       \* per connection: server side
  page,         \* per connection: the tab
  toPage, toBridge,  \* messages under way on the websocket
  active,       \* activeBridge; 0 for none
  selected,     \* whether the record of the browser wallet is the selected one
  call,         \* per transaction: what its caller knows
  wallet,       \* requests the wallet has been asked for and what became of them
  submitted     \* history: how often each transaction was submitted

bridgeVars ==
  <<bridge, page, toPage, toBridge, active, selected, call, wallet, submitted>>

Bridges == 1..MaxBridges
Requests == Txs \X (1..MaxTries)    \* the UUIDs of requests
NoBridge == [st |-> "none", pending |-> {}]
NoPage == [st |-> "none", busy |-> FALSE, doing |-> {}, seen |-> {}]

BridgeTypeOK ==
  /\ \A b \in Bridges :
       /\ bridge[b].st \in {"none", "pairing", "connected", "stopped"}
       /\ bridge[b].pending \subseteq Requests /\ Cardinality(bridge[b].pending) <= 1
       /\ page[b].st \in {"none", "ready", "connected", "ended"}
       /\ page[b].doing \subseteq page[b].seen /\ page[b].seen \subseteq Requests
       /\ bridge[b].pending # {} => bridge[b].st = "connected"
  /\ active \in 0..MaxBridges /\ selected \in BOOLEAN
  /\ \A t \in Txs :
       /\ call[t].st \in {"idle", "connecting", "waiting", "sent", "notSubmitted", "unknown"}
       /\ call[t].st = "waiting" <=> \E b \in Bridges : <<t, call[t].tries>> \in bridge[b].pending
  /\ \A r \in Requests : wallet[r] \in {"none", "asked", "submitted", "rejected", "failed"}

BridgeInit ==
  /\ bridge = [b \in Bridges |-> NoBridge] /\ page = [b \in Bridges |-> NoPage]
  /\ toPage = [b \in Bridges |-> <<>>] /\ toBridge = [b \in Bridges |-> <<>>]
  /\ active = 0 /\ selected = TRUE
  /\ call = [t \in Txs |-> [st |-> "idle", tries |-> 0, on |-> 0]]
  /\ wallet = [r \in Requests |-> "none"] /\ submitted = [t \in Txs |-> 0]

Message(kind, r) == [kind |-> kind, of |-> r]

-----------------------------------------------------------------------------
(* The server *)

\* What the callers of the bridges in stopping are told: the one that connects
\* that nothing was submitted, the one that waits that it may have been.
Told(stopping) ==
  [t \in Txs |->
     IF call[t].on \notin stopping THEN call[t]
     ELSE [call[t] EXCEPT
       !.st = CASE @ = "connecting" -> "notSubmitted"
                [] @ = "waiting" -> "unknown"
                [] OTHER -> @]]

\* stop: the page is told and the socket closed.
Stopped(stopping) ==
  /\ bridge' = [b \in Bridges |->
       IF b \in stopping THEN [st |-> "stopped", pending |-> {}] ELSE bridge[b]]
  /\ toPage' = [b \in Bridges |->
       IF b \in stopping THEN Append(toPage[b], Message("disconnect", {})) ELSE toPage[b]]
  /\ toBridge' = [b \in Bridges |-> IF b \in stopping THEN <<>> ELSE toBridge[b]]
  /\ call' = Told(stopping)

Running(b) == bridge[b].st \in {"pairing", "connected"}

\* The pairing or the approval times out, Aero cancels, or the wallet that is
\* selected in Aero changes.
StopBridge(b) ==
  /\ Running(b) /\ Stopped({b})
  /\ UNCHANGED <<page, active, selected, wallet, submitted>>

SelectOther ==
  /\ selected /\ selected' = FALSE
  /\ Stopped({b \in Bridges : /\ bridge[b].st = "connected"
                              /\ \A t \in Txs : call[t].st = "connecting" => call[t].on # b})
  /\ UNCHANGED <<page, active, wallet, submitted>>

\* browserWalletSendTransaction on an account that has a connected bridge:
\* sendTransaction, one at a time.
Requested(t, b, r) ==
  IF bridge[b].pending # {}
  THEN /\ call' = [call EXCEPT ![t].st = "notSubmitted", ![t].tries = r[2]]
       /\ UNCHANGED <<bridge, toPage>>
  ELSE /\ call' = [call EXCEPT ![t] = [st |-> "waiting", tries |-> r[2], on |-> b]]
       /\ bridge' = [bridge EXCEPT ![b].pending = {r}]
       /\ toPage' = [toPage EXCEPT ![b] = Append(@, Message("transaction", {r}))]

\* isConnected, of the active bridge
Connected == \E b \in Bridges : b = active /\ bridge[b].st = "connected"

\* A caller sends, and again only when it was told that nothing was submitted.
MayCall(t) == call[t].st \in {"idle", "notSubmitted"} /\ call[t].tries < MaxTries

SendOnBridge(t) ==
  /\ MayCall(t) /\ selected /\ Connected
  /\ Requested(t, active, <<t, call[t].tries + 1>>)
  /\ UNCHANGED <<page, toBridge, active, selected, wallet, submitted>>

\* connectBrowserWallet: the bridge there was is stopped, whatever it waits for.
ConnectBridge(t) ==
  /\ MayCall(t) /\ selected /\ ~Connected
  /\ \E b \in Bridges :
       /\ bridge[b].st = "none" /\ \A c \in Bridges : c < b => bridge[c].st # "none"
       /\ LET old == {c \in Bridges : c = active /\ Running(c)} IN
          /\ bridge' = [c \in Bridges |->
               IF c = b THEN [st |-> "pairing", pending |-> {}]
               ELSE IF c \in old THEN [st |-> "stopped", pending |-> {}] ELSE bridge[c]]
          /\ toPage' = [c \in Bridges |->
               IF c \in old THEN Append(toPage[c], Message("disconnect", {})) ELSE toPage[c]]
          /\ toBridge' = [c \in Bridges |-> IF c \in old THEN <<>> ELSE toBridge[c]]
          /\ call' = [Told(old) EXCEPT ![t].st = "connecting", ![t].on = b]
       /\ active' = b
  /\ UNCHANGED <<page, selected, wallet, submitted>>

\* connectBrowserWallet saves its wallet, which selects it, and its caller goes
\* on with the bridge that is active then.
SendConnected(t) ==
  /\ call[t].st = "connecting" /\ bridge[call[t].on].st = "connected"
  /\ IF Connected
     THEN Requested(t, active, <<t, call[t].tries + 1>>)
     ELSE /\ call' = [call EXCEPT ![t].st = "notSubmitted", ![t].tries = @ + 1]
          /\ UNCHANGED <<bridge, toPage>>
  /\ selected' = TRUE
  /\ UNCHANGED <<page, toBridge, active, wallet, submitted>>

\* message: the first of the page is taken from the socket.  A result or error
\* of another request than the pending one is dropped.
ServerReceives(b) ==
  /\ Running(b) /\ toBridge[b] # <<>>
  /\ LET m == Head(toBridge[b])
         rest == [toBridge EXCEPT ![b] = Tail(@)] IN
     \/ /\ m.kind = "connected"
        /\ bridge' = [bridge EXCEPT ![b].st = "connected"]
        /\ toBridge' = rest /\ UNCHANGED <<toPage, call, selected>>
     \/ /\ m.kind = "disconnect"
        /\ Stopped({b}) /\ selected' = FALSE
     \/ /\ m.kind \in {"result", "error", "notSubmitted"}
        /\ bridge' = [bridge EXCEPT ![b].pending = @ \ m.of]
        /\ call' = [t \in Txs |->
             IF \E n \in 1..MaxTries : <<t, n>> \in m.of \cap bridge[b].pending
             THEN [call[t] EXCEPT !.st = CASE m.kind = "result" -> "sent"
                                           [] m.kind = "error" -> "unknown"
                                           [] OTHER -> "notSubmitted"]
             ELSE call[t]]
        /\ toBridge' = rest /\ UNCHANGED <<toPage, selected>>
  /\ UNCHANGED <<page, active, wallet, submitted>>

-----------------------------------------------------------------------------
(* The page *)

Says(b, kind, of) ==
  toBridge' = IF Running(b) THEN [toBridge EXCEPT ![b] = Append(@, Message(kind, of))]
                            ELSE toBridge

\* The tab is opened and authenticates with the token of its link.
OpenPage(b) ==
  /\ bridge[b].st = "pairing" /\ page[b].st = "none"
  /\ page' = [page EXCEPT ![b].st = "ready"]
  /\ UNCHANGED <<bridge, toPage, toBridge, active, selected, call, wallet, submitted>>

\* connect: the wallet shares the expected account on the expected chain.
PageConnects(b) ==
  /\ page[b].st = "ready"
  /\ page' = [page EXCEPT ![b].st = "connected"] /\ Says(b, "connected", {})
  /\ UNCHANGED <<bridge, toPage, active, selected, call, wallet, submitted>>

\* finish: the tab is of no use any more; what the wallet shows stays there.
Finished(b) == page' = [page EXCEPT ![b].st = "ended"]

\* onmessage.  A request is taken once; one that comes while another is in
\* progress is refused.
PageReceives(b) ==
  /\ page[b].st \in {"ready", "connected"} /\ toPage[b] # <<>>
  /\ toPage' = [toPage EXCEPT ![b] = Tail(@)]
  /\ LET m == Head(toPage[b]) IN
     \/ /\ m.kind = "disconnect" /\ Finished(b) /\ UNCHANGED toBridge
     \/ /\ m.kind = "transaction" /\ ~page[b].busy
        /\ page' = [page EXCEPT ![b].busy = TRUE, ![b].doing = m.of, ![b].seen = @ \cup m.of]
        /\ UNCHANGED toBridge
     \/ /\ m.kind = "transaction" /\ page[b].busy
        /\ page' = [page EXCEPT ![b].seen = @ \cup m.of] /\ Says(b, "notSubmitted", m.of)
  /\ UNCHANGED <<bridge, active, selected, call, wallet, submitted>>

\* sendBrowserTransaction: chain and account are checked first ...
AskWalletPage(b, r) ==
  /\ page[b].doing = {r} /\ wallet[r] = "none" /\ page[b].st = "connected"
  /\ wallet' = [wallet EXCEPT ![r] = "asked"]
  /\ UNCHANGED <<bridge, page, toPage, toBridge, active, selected, call, submitted>>

Answered(b, r, kind) ==
  /\ page' = [page EXCEPT ![b].busy = FALSE, ![b].doing = {}]
  /\ IF page[b].st = "connected" THEN Says(b, kind, {r}) ELSE UNCHANGED toBridge
  /\ UNCHANGED <<bridge, toPage, active, selected, call, wallet, submitted>>

\* ... and a check that fails says so.
PreflightFails(b, r) ==
  /\ page[b].doing = {r} /\ wallet[r] = "none" /\ Answered(b, r, "notSubmitted")

\* Faulty variant: whatever the wallet throws is a request that was not submitted.
AnyError(outcome) == IF outcome = "submitted" THEN "result" ELSE "notSubmitted"

\* Only the codes of a user's refusal say that nothing was submitted.
Verdict(outcome) ==
  CASE outcome = "submitted" -> "result"
    [] outcome = "rejected" -> "notSubmitted"
    [] OTHER -> "error"

\* The wallet answers the page, or its answer fails though it submitted.
WalletReplies(b, r) ==
  /\ page[b].doing = {r}
  /\ \/ /\ wallet[r] \in {"submitted", "rejected", "failed"} /\ Answered(b, r, Verdict(wallet[r]))
     \/ /\ wallet[r] \in {"asked", "submitted"} /\ Answered(b, r, Verdict("failed"))

\* The account changes, the wallet disconnects or the user leaves: detach.
PageDetaches(b) ==
  /\ page[b].st = "connected" /\ Finished(b) /\ Says(b, "disconnect", {})
  /\ UNCHANGED <<bridge, toPage, active, selected, call, wallet, submitted>>

\* The tab is closed; the server sees its socket close.
CloseTab(b) ==
  /\ page[b].st \in {"ready", "connected"} /\ Finished(b)
  /\ IF Running(b) THEN Stopped({b}) ELSE UNCHANGED <<bridge, toPage, toBridge, call>>
  /\ UNCHANGED <<active, selected, wallet, submitted>>

\* The user decides in the wallet, also when nobody waits for it any more.
WalletDecides(r) ==
  /\ wallet[r] = "asked"
  /\ \E outcome \in {"submitted", "rejected", "failed"} :
       /\ wallet' = [wallet EXCEPT ![r] = outcome]
       /\ submitted' = IF outcome = "submitted" THEN [submitted EXCEPT ![r[1]] = @ + 1]
                       ELSE submitted
  /\ UNCHANGED <<bridge, page, toPage, toBridge, active, selected, call>>

BridgeNext ==
  \/ \E t \in Txs : SendOnBridge(t) \/ ConnectBridge(t) \/ SendConnected(t)
  \/ \E b \in Bridges :
       \/ StopBridge(b) \/ ServerReceives(b)
       \/ OpenPage(b) \/ PageConnects(b) \/ PageReceives(b) \/ PageDetaches(b) \/ CloseTab(b)
       \/ \E r \in Requests : AskWalletPage(b, r) \/ PreflightFails(b, r) \/ WalletReplies(b, r)
  \/ \E r \in Requests : WalletDecides(r)
  \/ SelectOther

BridgeSpec == BridgeInit /\ [][BridgeNext]_bridgeVars

-----------------------------------------------------------------------------
\* browser-wallet.ts:64, "A transaction may have been submitted. Check wallet
\* activity before retrying": however tabs, timeouts, connections and a late
\* approval fall, callers that send again only when they were told nothing was
\* submitted never submit twice, and what they are told is sent was submitted.
SubmittedOnce ==
  \A t \in Txs :
    /\ submitted[t] <= 1
    /\ call[t].st = "sent" => submitted[t] = 1
    /\ call[t].st \in {"idle", "notSubmitted"} => submitted[t] = 0
=============================================================================
