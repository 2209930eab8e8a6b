------------------------------ MODULE Accounts ------------------------------
(***************************************************************************)
(* src/wallets.ts and src/browser-wallet.ts: the accounts of the toolkit,  *)
(* kept in accounts.json, and the page of the browser that connects and    *)
(* signs for one.  Calls run in one process and give way to each other     *)
(* wherever they await.  Messages over a session of WalletConnect are      *)
(* external; Crossmint accounts use the page as browser accounts do.       *)
(***************************************************************************)
EXTENDS Integers, Sequences, FiniteSets, SequencesExt

CONSTANTS
  AccountCalls,     \* calls that may run at the same time
  AccountNames, NoName,
  Owned,            \* addresses a wallet of the user can offer
  NoOwned,
  MaxPages,         \* bridges started in a behaviour
  MaxOnFile         \* accounts on file

ASSUME AccountsAssumption ==
  /\ NoName \notin AccountNames /\ NoOwned \notin Owned
  /\ {MaxPages, MaxOnFile} \subseteq Nat

VARIABLES
  accountFile,  \* accounts.json
  pages,        \* every bridge started
  held,         \* which of them the variable `bridge` holds, 0 for undefined
  accountCalls  \* the calls under way

accountVars == <<accountFile, pages, held, accountCalls>>

NoCall == [at |-> "idle", name |-> NoName, kind |-> "browser", address |-> NoOwned, page |-> 0, data |-> <<>>]
NewPage(expected) == [expected |-> expected, tab |-> FALSE, identity |-> NoOwned, pending |-> {}, ended |-> FALSE]
AccountKinds == {"browser", "walletconnect"}

AccountsTypeOK ==
  /\ accountFile.active \in AccountNames \cup {NoName}
  /\ held \in 0..Len(pages) /\ Len(pages) <= MaxPages
  /\ \A b \in DOMAIN pages : /\ pages[b].pending \subseteq AccountCalls /\ Cardinality(pages[b].pending) <= 1
                             /\ pages[b].identity \in Owned \cup {NoOwned}
  /\ \A c \in AccountCalls : accountCalls[c].page \in 0..Len(pages)

AccountsInit ==
  /\ accountFile = [active |-> NoName, wallets |-> <<>>]
  /\ pages = <<>> /\ held = 0
  /\ accountCalls = [c \in AccountCalls |-> NoCall]

Call(c) == accountCalls[c]
Is(c, at) == Call(c).at = at
Ongoing(calls, c, call) == [calls EXCEPT ![c] = call]
CallGoes(c, call) == accountCalls' = Ongoing(accountCalls, c, call)
OnFile(name) == {r \in ToSet(accountFile.wallets) : r.name = name}
Active == OnFile(accountFile.active)

(***************************************************************************)
(* The page of a bridge                                                    *)
(***************************************************************************)

(* Nobody answers a bridge that has stopped: its pending request is        *)
(* rejected with it.                                                       *)
Leaves(calls, waiting) == [c \in AccountCalls |-> IF c \in waiting THEN NoCall ELSE calls[c]]
StopForgets(all, b) == [all EXCEPT ![b].ended = TRUE, ![b].tab = FALSE]
Stop(all, b) ==
  IF b = 0 THEN all ELSE [all EXCEPT ![b].ended = TRUE, ![b].tab = FALSE, ![b].pending = {}]
Rejected(calls, all, b) == IF b = 0 THEN calls ELSE Leaves(calls, all[b].pending \ Stop(all, b)[b].pending)

IsConnected(b) == b # 0 /\ pages[b].identity # NoOwned /\ pages[b].tab /\ ~pages[b].ended

StopPage(b) ==
  /\ pages' = Stop(pages, b)
  /\ accountCalls' = Rejected(accountCalls, pages, b)
  /\ UNCHANGED <<accountFile, held>>

(* One authenticated socket per bridge.                                    *)
TabAuth(b) ==
  /\ ~pages[b].ended /\ ~pages[b].tab
  /\ pages' = [pages EXCEPT ![b].tab = TRUE]
  /\ UNCHANGED <<accountFile, held, accountCalls>>

(* A second identity, or another than the expected, ends the bridge.       *)
TabConnects(b, address) ==
  /\ pages[b].tab
  /\ IF pages[b].identity # NoOwned \/ pages[b].expected \notin {NoOwned, address}
     THEN StopPage(b)
     ELSE /\ pages' = [pages EXCEPT ![b].identity = address]
          /\ UNCHANGED <<accountFile, held, accountCalls>>

(* A result or an error with the id of the pending request.                *)
TabAnswers(b) ==
  /\ pages[b].tab /\ pages[b].pending # {}
  /\ pages' = [pages EXCEPT ![b].pending = {}]
  /\ accountCalls' = Leaves(accountCalls, pages[b].pending)
  /\ UNCHANGED <<accountFile, held>>

(* The tab says disconnect or goes away, nobody connects in time, or the   *)
(* pending request is not answered in time.                                *)
PageEnds(b) ==
  /\ ~pages[b].ended
  /\ \/ pages[b].tab
     \/ pages[b].identity = NoOwned
  /\ StopPage(b)

(***************************************************************************)
(* open                                                                    *)
(***************************************************************************)

OpenBeside(c, call, expected) ==
  /\ Len(pages) < MaxPages
  /\ pages' = Append(pages, NewPage(expected))
  /\ held' = Len(pages) + 1
  /\ accountCalls' = Ongoing(accountCalls, c, call)

(* The bridge at hand is stopped, a new one started, and a browser asked   *)
(* to show it.                                                             *)
Open(c, call, expected) ==
  /\ Len(pages) < MaxPages
  /\ pages' = Append(Stop(pages, held), NewPage(expected))
  /\ held' = Len(pages) + 1
  /\ accountCalls' = Ongoing(Rejected(accountCalls, pages, held), c, call)

(* child.exited; what is awaited next is the bridge held by then.          *)
BrowserShown(c) ==
  /\ Is(c, "spawned")
  /\ CallGoes(c, IF held = 0 THEN NoCall ELSE [Call(c) EXCEPT !.at = "awaits", !.page = held])
  /\ UNCHANGED <<accountFile, pages, held>>

(* bridge.request: one at a time.                                          *)
AskPage(c, call) ==
  IF ~IsConnected(held) \/ pages[held].pending # {}
  THEN CallGoes(c, NoCall) /\ UNCHANGED pages
  ELSE /\ CallGoes(c, [call EXCEPT !.at = "asked", !.page = held])
       /\ pages' = [pages EXCEPT ![held].pending = {c}]

(* preflight is over: nothing of it is kept but the page that is held.     *)
PreflightDone(call) == [call EXCEPT !.at = "ready", !.kind = "browser", !.page = 0]

(* bridge.connected is rejected, or resolves and the call goes on: connect *)
(* adds the account, preflight is done, request asks the page.             *)
PageConnected(c) ==
  LET identity == pages[Call(c).page].identity IN
  /\ Is(c, "awaits") /\ UNCHANGED held
  /\ \/ /\ identity = NoOwned /\ pages[Call(c).page].ended
        /\ CallGoes(c, NoCall) /\ UNCHANGED <<accountFile, pages>>
     \/ /\ identity # NoOwned /\ Call(c).address = NoOwned
        /\ accountFile' = [active |-> Call(c).name,
             wallets |-> Append(accountFile.wallets, [name |-> Call(c).name, kind |-> "browser", address |-> identity])]
        /\ CallGoes(c, NoCall) /\ UNCHANGED pages
     \/ /\ identity # NoOwned /\ Call(c).address # NoOwned /\ Call(c).kind = "preflight"
        /\ CallGoes(c, PreflightDone(Call(c))) /\ UNCHANGED <<accountFile, pages>>
     \/ /\ identity # NoOwned /\ Call(c).address # NoOwned /\ Call(c).kind # "preflight"
        /\ AskPage(c, Call(c)) /\ UNCHANGED accountFile

(***************************************************************************)
(* connect, select, disconnect, signer                                     *)
(***************************************************************************)

Connect(c, kind, name) ==
  LET call == [NoCall EXCEPT !.name = name, !.kind = kind] IN
  /\ Is(c, "idle") /\ OnFile(name) = {} /\ Len(accountFile.wallets) < MaxOnFile
  /\ IF kind = "browser" THEN Open(c, [call EXCEPT !.at = "spawned"], NoOwned)
                         ELSE CallGoes(c, [call EXCEPT !.at = "pairing"]) /\ UNCHANGED <<pages, held>>
  /\ UNCHANGED accountFile

(* The session of WalletConnect is approved, or refused.                   *)
Paired(c) ==
  /\ Is(c, "pairing") /\ CallGoes(c, NoCall) /\ UNCHANGED <<pages, held>>
  /\ \/ UNCHANGED accountFile
     \/ \E address \in Owned : accountFile' = [active |-> Call(c).name,
          wallets |-> Append(accountFile.wallets, [name |-> Call(c).name, kind |-> "walletconnect", address |-> address])]

Select(c, name) ==
  /\ Is(c, "idle") /\ OnFile(name) # {}
  /\ pages' = Stop(pages, held) /\ held' = 0
  /\ accountCalls' = Rejected(accountCalls, pages, held)
  /\ accountFile' = [accountFile EXCEPT !.active = name]

(* The file is written as it was read before the session was ended.        *)
Removes(c, name, data, calls) ==
  /\ accountFile' = [active |-> IF data.active = name THEN NoName ELSE data.active,
                     wallets |-> SelectSeq(data.wallets, LAMBDA r : r.name # name)]
  /\ IF data.active = name
     THEN pages' = Stop(pages, held) /\ held' = 0 /\ accountCalls' = Ongoing(Rejected(calls, pages, held), c, NoCall)
     ELSE UNCHANGED <<pages, held>> /\ accountCalls' = Ongoing(calls, c, NoCall)

DisconnectAccount(c, name) ==
  /\ Is(c, "idle")
  /\ IF \E r \in OnFile(name) : r.kind = "walletconnect"
     THEN /\ CallGoes(c, [NoCall EXCEPT !.at = "leaving", !.name = name, !.data = <<accountFile>>])
          /\ UNCHANGED <<accountFile, pages, held>>
     ELSE Removes(c, name, accountFile, accountCalls)

(* The session has ended, or could not be ended.                           *)
Disconnected(c) ==
  /\ Is(c, "leaving")
  /\ \/ Removes(c, Call(c).name, Call(c).data[1], accountCalls)
     \/ CallGoes(c, NoCall) /\ UNCHANGED <<accountFile, pages, held>>

(* signer gives a signer of the active account, to be used later.          *)
Signer(c) == \E r \in Active :
  /\ Is(c, "idle") /\ r.kind = "browser"
  /\ CallGoes(c, [NoCall EXCEPT !.at = "signer", !.name = r.name, !.address = r.address])
  /\ UNCHANGED <<accountFile, pages, held>>

(* preflight sees to it that a page is connected, of the account the       *)
(* signer was made for, active or not ...                                  *)
Preflight(c) ==
  /\ Is(c, "signer") /\ UNCHANGED accountFile
  /\ IF IsConnected(held) THEN CallGoes(c, PreflightDone(Call(c))) /\ UNCHANGED <<pages, held>>
     ELSE Open(c, [Call(c) EXCEPT !.at = "spawned", !.kind = "preflight"], Call(c).address)

(* ... and request and send, with or without it, use the page only for the *)
(* account that is active.                                                 *)
UseSigner(c) ==
  /\ Is(c, "signer") \/ Is(c, "ready")
  /\ UNCHANGED accountFile
  /\ \/ /\ accountFile.active # Call(c).name
        /\ CallGoes(c, NoCall) /\ UNCHANGED <<pages, held>>
     \/ /\ accountFile.active = Call(c).name /\ IsConnected(held)
        /\ AskPage(c, Call(c)) /\ UNCHANGED held
     \/ /\ accountFile.active = Call(c).name /\ ~IsConnected(held)
        /\ Open(c, [Call(c) EXCEPT !.at = "spawned"], Call(c).address)

AccountsNext ==
  \/ \E c \in AccountCalls :
       \/ \E name \in AccountNames : \/ \E kind \in AccountKinds : Connect(c, kind, name)
                                     \/ Select(c, name) \/ DisconnectAccount(c, name)
       \/ Paired(c) \/ Disconnected(c) \/ Signer(c) \/ Preflight(c) \/ UseSigner(c)
       \/ BrowserShown(c) \/ PageConnected(c)
  \/ \E b \in DOMAIN pages : \/ TabAuth(b) \/ TabAnswers(b) \/ PageEnds(b)
                             \/ \E address \in Owned : TabConnects(b, address)

AccountsSpec == AccountsInit /\ [][AccountsNext]_accountVars
-----------------------------------------------------------------------------
(* A request that waits waits for a page that can still answer it, and for *)
(* no other: whatever ends a bridge settles its request                    *)
(* (browser-wallet.ts:30-38, 76-80).                                       *)
AskedIsAnswerable ==
  \A c \in AccountCalls, b \in DOMAIN pages :
    Is(c, "asked") /\ Call(c).page = b => ~pages[b].ended /\ pages[b].pending = {c}

(* A bridge that a later pairing, another selection or a disconnection has *)
(* replaced is closed: no earlier page can connect or answer any more      *)
(* (wallets.ts:60, 105, 110).                                              *)
ReplacedIsClosed == \A b \in DOMAIN pages : b # held => pages[b].ended

PagesAreSettled == AskedIsAnswerable /\ ReplacedIsClosed

(* What README.md:31 says of the bridge: it is bound to an account, so a   *)
(* request for an account reaches only a page that connected as it.        *)
BoundToAccount ==
  \A c \in AccountCalls : Is(c, "asked") => pages[Call(c).page].identity = Call(c).address
=============================================================================
