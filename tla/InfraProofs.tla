---------------------------- MODULE InfraProofs ----------------------------
(***************************************************************************)
(* Theorems about the parts that MCInfra composes, for any number of       *)
(* readers, catalogs, pools, tokens, pages, calls, transfers and retries:  *)
(* the page of the browser wallet, the cache of rates, the shared reads of *)
(* the catalogs and Socket's transfers. Each has an inductive invariant,   *)
(* and lemmas for its steps; the composition keeps it, since no part moves *)
(* another.                                                                *)
(***************************************************************************)
EXTENDS MCInfra, DataLemmas, SequenceTheorems

-----------------------------------------------------------------------------
(***************************************************************************)
(* browser-wallet.ts: whatever the server, the pages, the wallet and the   *)
(* callers do, and in whatever order the messages between them arrive, no  *)
(* transaction is submitted twice and whoever is told of a submission, or  *)
(* that there was none, is told the truth.  What has to be known for that: *)
(* a request is queued for, or in work at, at most one page, and is then   *)
(* unknown to the wallet; every try but the last of a transaction is       *)
(* harmless, for it can no longer be submitted; and what is on its way     *)
(* back to the server is true already.                                     *)
(***************************************************************************)

\* What server and page say to each other
PageMessages == {Message("disconnect", {})} \cup {Message("transaction", {r}) : r \in Requests}
BridgeMessages ==
  {Message("disconnect", {}), Message("connected", {})}
  \cup {Message("result", {r}) : r \in Requests} \cup {Message("error", {r}) : r \in Requests}
  \cup {Message("notSubmitted", {r}) : r \in Requests}

\* The variables hold values of the code; a call that connects has a try left.
BrowserTyped ==
  /\ bridge \in [Bridges -> [st : {"none", "pairing", "connected", "stopped"},
                             pending : SUBSET Requests]]
  /\ page \in [Bridges -> [st : {"none", "ready", "connected", "ended"}, busy : BOOLEAN,
                           doing : SUBSET Requests, seen : SUBSET Requests]]
  /\ toPage \in [Bridges -> Seq(PageMessages)] /\ toBridge \in [Bridges -> Seq(BridgeMessages)]
  /\ active \in 0..MaxBridges
  /\ call \in [Txs -> [st : {"idle", "connecting", "waiting", "sent", "notSubmitted", "unknown"},
                       tries : 0..MaxTries, on : 0..MaxBridges]]
  /\ \A t \in Txs : call[t].st = "connecting" => call[t].tries < MaxTries
  /\ wallet \in [Requests -> {"none", "asked", "submitted", "rejected", "failed"}]

\* Where a request is on its way to the wallet, and one that will never get there
QueuedAt(b, i, r) == i \in 1..Len(toPage[b]) /\ toPage[b][i] = Message("transaction", {r})
IsQueued(r) == \E b \in Bridges : \E i \in Nat : QueuedAt(b, i, r)
IsDone(r) == \E b \in Bridges : page[b].doing = {r}
Harmless(r) == wallet[r] \notin {"asked", "submitted"} /\ ~IsDone(r) /\ ~IsQueued(r)

\* A request is on its way once, and neither the wallet nor a page has seen it then.
QueuedOnce ==
  \A r \in Requests : \A b, c \in Bridges : \A i, j \in Nat :
     QueuedAt(b, i, r) /\ QueuedAt(c, j, r) => b = c /\ i = j
QueuedIsNew == \A r \in Requests : IsQueued(r) => wallet[r] = "none" /\ ~IsDone(r)
DoneOnce ==
  \A r \in Requests : \A b, c \in Bridges : page[b].doing = {r} /\ page[c].doing = {r} => b = c

\* All tries but the last are over, and so is the last one unless its call waits or fails.
Past ==
  \A t \in Txs : \A n \in 1..MaxTries :
     n # call[t].tries \/ call[t].st \in {"idle", "notSubmitted", "connecting"} => Harmless(<<t, n>>)
\* Later tries are unknown to the wallet; a call that was told of a hash has one.
Unasked ==
  \A t \in Txs : \A n \in 1..MaxTries : n > call[t].tries => wallet[<<t, n>>] = "none"
SentIsSubmitted ==
  \A t \in Txs : call[t].st = "sent" =>
     call[t].tries \in 1..MaxTries /\ wallet[<<t, call[t].tries>>] = "submitted"
\* An answer that is on its way to the server is true.
Says1(r, kind) ==
  /\ r[2] <= call[r[1]].tries
  /\ kind = "notSubmitted" => Harmless(r)
  /\ kind = "result" => wallet[r] = "submitted"
InBox(b, m) == \E i \in 1..Len(toBridge[b]) : toBridge[b][i] = m
AnswersHold ==
  \A b \in Bridges : \A r \in Requests : \A kind \in {"result", "error", "notSubmitted"} :
     InBox(b, Message(kind, {r})) => Says1(r, kind)
\* The server awaits an answer only for the try that its caller waits with.
PendingIsLast ==
  \A b \in Bridges : \A r \in bridge[b].pending :
     r[2] = call[r[1]].tries /\ call[r[1]].st = "waiting" /\ call[r[1]].on = b
\* What was submitted, counted
Count ==
  submitted = [t \in Txs |-> IF \E n \in 1..MaxTries : wallet[<<t, n>>] = "submitted" THEN 1 ELSE 0]

\* The inductive invariant of the bridge and its pages
BrowserInv ==
  /\ BrowserTyped /\ QueuedOnce /\ QueuedIsNew /\ DoneOnce /\ Past /\ Unasked /\ SentIsSubmitted
  /\ AnswersHold /\ PendingIsLast /\ Count

LEMMA BrowserInit == BridgeInit => BrowserInv
<1> SUFFICES ASSUME BridgeInit PROVE BrowserInv OBVIOUS
<1> USE BridgeAssumption
<1>1. BrowserTyped BY DEF BridgeInit, BrowserTyped, NoBridge, NoPage, Bridges, PageMessages, BridgeMessages
<1>2. \A b \in Bridges : toPage[b] = <<>> /\ toBridge[b] = <<>> /\ page[b].doing = {} /\ bridge[b].pending = {}
  BY DEF BridgeInit, NoBridge, NoPage
<1>3. \A r : \A b \in Bridges : \A i : ~QueuedAt(b, i, r) BY <1>2 DEF QueuedAt
<1>4. \A r \in Requests : Harmless(r) 
  BY <1>2, <1>3 DEF Harmless, IsDone, IsQueued, BridgeInit
<1>5. \A t \in Txs : \A n \in 1..MaxTries : <<t, n>> \in Requests BY DEF Requests
<1>6. QueuedOnce /\ QueuedIsNew /\ DoneOnce BY <1>2, <1>3 DEF QueuedOnce, QueuedIsNew, DoneOnce, IsQueued
<1>7. Past /\ Unasked BY <1>4, <1>5 DEF Past, Unasked, BridgeInit
<1>8. SentIsSubmitted BY DEF SentIsSubmitted, BridgeInit
<1>9. AnswersHold /\ PendingIsLast BY <1>2 DEF AnswersHold, PendingIsLast, InBox
<1>10. Count BY <1>5 DEF Count, BridgeInit
<1> QED BY <1>1, <1>6, <1>7, <1>8, <1>9, <1>10 DEF BrowserInv

\* The invariant implies what the run checks.
LEMMA BrowserCounts == BrowserInv => SubmittedOnce
<1> SUFFICES ASSUME BrowserInv, NEW t \in Txs
             PROVE /\ submitted[t] <= 1
                   /\ call[t].st = "sent" => submitted[t] = 1
                   /\ call[t].st \in {"idle", "notSubmitted"} => submitted[t] = 0
  BY DEF SubmittedOnce
<1>1. submitted[t] = IF \E n \in 1..MaxTries : wallet[<<t, n>>] = "submitted" THEN 1 ELSE 0
  BY DEF BrowserInv, Count
<1>2. call[t].st = "sent" => submitted[t] = 1 BY <1>1 DEF BrowserInv, SentIsSubmitted
<1>3. call[t].st \in {"idle", "notSubmitted"} => submitted[t] = 0
  BY <1>1 DEF BrowserInv, Past, Harmless
<1> QED BY <1>1, <1>2, <1>3

(* What the proofs of the steps share: a step that moves nothing into or out *)
(* of a page or the wallet leaves every request as harmless as it was. *)
LEMMA QuietStep ==
  ASSUME BrowserInv, UNCHANGED <<wallet, submitted>>,
         \A b \in Bridges : page'[b].doing = page[b].doing,
         \A b \in Bridges : \A i \in Nat : \A r \in Requests : QueuedAt(b, i, r)' <=> QueuedAt(b, i, r)
  PROVE  /\ QueuedOnce' /\ QueuedIsNew' /\ DoneOnce' /\ Count'
         /\ \A r \in Requests : Harmless(r)' <=> Harmless(r)
<1>1. \A r \in Requests : IsDone(r)' <=> IsDone(r) BY DEF IsDone
<1>2. \A r \in Requests : IsQueued(r)' <=> IsQueued(r) BY DEF IsQueued
<1>3. QueuedOnce' BY DEF QueuedOnce, BrowserInv
<1>4. QueuedIsNew' BY <1>1, <1>2 DEF QueuedIsNew, BrowserInv
<1>5. DoneOnce' BY DEF DoneOnce, BrowserInv
<1>6. Count' BY DEF Count, BrowserInv
<1> QED BY <1>1, <1>2, <1>3, <1>4, <1>5, <1>6 DEF Harmless

\* A disconnect at the end of some queues of the pages queues no request.
LEMMA TellingQueuesNothing ==
  ASSUME BrowserTyped, NEW S \in SUBSET Bridges,
         toPage' = [b \in Bridges |-> IF b \in S THEN Append(toPage[b], Message("disconnect", {}))
                                      ELSE toPage[b]]
  PROVE  /\ toPage' \in [Bridges -> Seq(PageMessages)]
         /\ \A b \in Bridges : \A i \in Nat : \A r \in Requests : QueuedAt(b, i, r)' <=> QueuedAt(b, i, r)
<1>1. Message("disconnect", {}) \in PageMessages BY DEF PageMessages
<1>2. \A r : Message("disconnect", {}) # Message("transaction", {r}) BY DEF Message
<1> HIDE DEF Message
<1>3. \A b \in Bridges : toPage[b] \in Seq(PageMessages) BY DEF BrowserTyped
<1>4. toPage' \in [Bridges -> Seq(PageMessages)] BY <1>1, <1>3
<1>5. ASSUME NEW b \in Bridges, NEW i \in Nat, NEW r \in Requests
      PROVE  QueuedAt(b, i, r)' <=> QueuedAt(b, i, r)
  <2> DEFINE s == toPage[b]
  <2>0. s \in Seq(PageMessages) BY <1>3
  <2>1. CASE b \in S
    <3>1. toPage'[b] = Append(s, Message("disconnect", {})) BY <2>1
    <3>2. QueuedAt(b, i, r)' <=> i \in 1..Len(s) + 1 /\ Append(s, Message("disconnect", {}))[i] = Message("transaction", {r})
      BY <2>0, <3>1 DEF QueuedAt
    <3>3. Len(s) \in Nat BY <2>0
    <3>4. CASE i \in 1..Len(s)
      <4>1. Append(s, Message("disconnect", {}))[i] = s[i] BY <2>0, <1>1, <3>4
      <4> QED BY <3>2, <3>3, <3>4, <4>1 DEF QueuedAt
    <3>5. CASE i = Len(s) + 1
      <4>1. Append(s, Message("disconnect", {}))[i] = Message("disconnect", {}) BY <2>0, <1>1, <3>5
      <4>2. Append(s, Message("disconnect", {}))[i] # Message("transaction", {r}) BY <4>1, <1>2
      <4>3. ~QueuedAt(b, i, r)' BY <3>2, <4>2
      <4>4. ~QueuedAt(b, i, r) BY <3>3, <3>5 DEF QueuedAt
      <4> QED BY <4>3, <4>4
    <3> QED BY <3>2, <3>3, <3>4, <3>5 DEF QueuedAt
  <2>2. CASE b \notin S BY <2>2 DEF QueuedAt
  <2> QED BY <2>1, <2>2
<1> QED BY <1>4, <1>5

\* Bridges that stop tell their pages, and the calls that wait on them.
LEMMA StoppedStep ==
  ASSUME BrowserInv, NEW S \in SUBSET Bridges, Stopped(S), UNCHANGED <<wallet, submitted>>,
         \A b \in Bridges : page'[b].doing = page[b].doing,
         page' \in [Bridges -> [st : {"none", "ready", "connected", "ended"}, busy : BOOLEAN,
                                doing : SUBSET Requests, seen : SUBSET Requests]],
         active' \in 0..MaxBridges
  PROVE  BrowserInv'
<1> USE DEF BrowserInv
<1>1. /\ toPage' \in [Bridges -> Seq(PageMessages)]
      /\ \A b \in Bridges : \A i \in Nat : \A r \in Requests : QueuedAt(b, i, r)' <=> QueuedAt(b, i, r)
  BY TellingQueuesNothing DEF Stopped
<1>2. /\ QueuedOnce' /\ QueuedIsNew' /\ DoneOnce' /\ Count'
      /\ \A r \in Requests : Harmless(r)' <=> Harmless(r)
  BY <1>1, QuietStep
<1>3. ASSUME NEW t \in Txs
      PROVE  /\ call'[t] \in [st : {"idle", "connecting", "waiting", "sent", "notSubmitted", "unknown"},
                              tries : 0..MaxTries, on : 0..MaxBridges]
             /\ call'[t].tries = call[t].tries
             /\ call'[t].st = call[t].st \/ /\ call[t].on \in S
                                            /\ \/ call[t].st = "connecting" /\ call'[t].st = "notSubmitted"
                                               \/ call[t].st = "waiting" /\ call'[t].st = "unknown"
  <2> DEFINE c == call[t]
             d == call'[t]
  <2>1. c \in [st : {"idle", "connecting", "waiting", "sent", "notSubmitted", "unknown"},
              tries : 0..MaxTries, on : 0..MaxBridges]
    BY DEF BrowserTyped
  <2>2. CASE call[t].on \notin S
    <3>1. d = c BY <2>2 DEF Stopped, Told
    <3> QED BY <2>1, <3>1
  <2>3. CASE call[t].on \in S
    <3>1. d = [c EXCEPT !.st = CASE @ = "connecting" -> "notSubmitted"
                                 [] @ = "waiting" -> "unknown"
                                 [] OTHER -> @]
      BY <2>3 DEF Stopped, Told
    <3> HIDE DEF c, d
    <3>2. d.tries = c.tries /\ d.on = c.on
          /\ d.st = CASE c.st = "connecting" -> "notSubmitted" [] c.st = "waiting" -> "unknown" [] OTHER -> c.st
      BY <2>1, <3>1
    <3>3. d \in [st : {"idle", "connecting", "waiting", "sent", "notSubmitted", "unknown"},
                tries : 0..MaxTries, on : 0..MaxBridges]
      BY <2>1, <3>1, <3>2
    <3> QED BY <2>3, <3>2, <3>3 DEF c, d
  <2> QED BY <2>2, <2>3
<1>4. \A b \in Bridges : b \notin S => bridge'[b] = bridge[b] /\ toBridge'[b] = toBridge[b]
  BY DEF Stopped
<1>5. \A b \in S : bridge'[b] = [st |-> "stopped", pending |-> {}] /\ toBridge'[b] = <<>>
  BY DEF Stopped
<1>6. BrowserTyped'
  <2>1. call' \in [Txs -> [st : {"idle", "connecting", "waiting", "sent", "notSubmitted", "unknown"},
                       tries : 0..MaxTries, on : 0..MaxBridges]]
    BY <1>3 DEF Stopped, Told
  <2>2. bridge' \in [Bridges -> [st : {"none", "pairing", "connected", "stopped"},
                             pending : SUBSET Requests]]
    BY DEF Stopped, BrowserTyped
  <2>3. toBridge' \in [Bridges -> Seq(BridgeMessages)] BY DEF Stopped, BrowserTyped
  <2> QED BY <1>1, <1>3, <2>1, <2>2, <2>3 DEF BrowserTyped
<1>7. Past' /\ Unasked' BY <1>2, <1>3 DEF Past, Unasked, Requests
<1>8. SentIsSubmitted' BY <1>3 DEF SentIsSubmitted
<1>9. AnswersHold'
  <2>1. \A b \in Bridges : \A m : InBox(b, m)' => InBox(b, m) BY <1>4, <1>5 DEF InBox
  <2>2. ASSUME NEW r \in Requests, NEW kind, Says1(r, kind) PROVE Says1(r, kind)'
    <3>1. r[1] \in Txs BY DEF Requests
    <3>2. call'[r[1]].tries = call[r[1]].tries BY <1>3, <3>1
    <3>3. Harmless(r)' <=> Harmless(r) BY <1>2
    <3> QED BY <2>2, <3>2, <3>3 DEF Says1
  <2> QED BY <2>1, <2>2 DEF AnswersHold
<1>10. PendingIsLast'
  <2>1. \A b \in Bridges : \A r \in bridge[b].pending : r[1] \in Txs BY DEF BrowserTyped, Requests
  <2>2. \A t \in Txs : call'[t].on = call[t].on BY DEF Stopped, Told, BrowserTyped
  <2>3. \A t \in Txs : call[t].on \notin S => call'[t].st = call[t].st BY <1>3
  <2> QED BY <1>3, <1>4, <1>5, <2>1, <2>2, <2>3 DEF PendingIsLast
<1> QED BY <1>2, <1>6, <1>7, <1>8, <1>9, <1>10

(* One more message for the server *)
LEMMA SaysTyped ==
  ASSUME BrowserTyped, NEW b \in Bridges, NEW kind, NEW of, Message(kind, of) \in BridgeMessages,
         Says(b, kind, of)
  PROVE  /\ toBridge' \in [Bridges -> Seq(BridgeMessages)]
         /\ \A c \in Bridges : \A m : InBox(c, m)' => InBox(c, m) \/ m = Message(kind, of)
<1> DEFINE M == Message(kind, of)
<1>0. M \in BridgeMessages OBVIOUS
<1> HIDE DEF M
<1>1. toBridge \in [Bridges -> Seq(BridgeMessages)] BY DEF BrowserTyped
<1>2. toBridge' = toBridge \/ toBridge' = [toBridge EXCEPT ![b] = Append(@, M)] BY DEF Says, M
<1>3. CASE toBridge' = toBridge BY <1>1, <1>3 DEF InBox
<1>4. CASE toBridge' = [toBridge EXCEPT ![b] = Append(@, M)]
  <2>1. toBridge' \in [Bridges -> Seq(BridgeMessages)] BY <1>0, <1>1, <1>4
  <2>2. ASSUME NEW c \in Bridges, NEW m, InBox(c, m)' PROVE InBox(c, m) \/ m = M
    <3>1. CASE c # b BY <1>1, <1>4, <2>2, <3>1 DEF InBox
    <3>2. CASE c = b
      <4>1. toBridge'[c] = Append(toBridge[c], M) BY <1>1, <1>4, <3>2
      <4>2. toBridge[c] \in Seq(BridgeMessages) BY <1>1
      <4> QED BY <1>0, <2>2, <4>1, <4>2 DEF InBox
    <3> QED BY <3>1, <3>2
  <2> QED BY <2>1, <2>2 DEF M
<1> QED BY <1>2, <1>3, <1>4

\* What is said before stays true where no request is submitted or asked for.
LEMMA WordsStay ==
  ASSUME BrowserInv,
         \A t \in Txs : call'[t].tries \in Nat /\ call[t].tries <= call'[t].tries,
         \A r \in Requests : wallet[r] = "submitted" => wallet'[r] = "submitted",
         \A r \in Requests : r[2] <= call[r[1]].tries /\ Harmless(r) => Harmless(r)'
  PROVE  \A r \in Requests : \A kind : Says1(r, kind) => Says1(r, kind)'
<1>1. \A r \in Requests : r[1] \in Txs /\ r[2] \in Nat BY BridgeAssumption DEF Requests
<1>2. \A t \in Txs : call[t].tries \in Nat BY BridgeAssumption DEF BrowserInv, BrowserTyped
<1>3. \A r \in Requests : r[2] <= call[r[1]].tries => r[2] <= call'[r[1]].tries BY <1>1, <1>2
<1> QED BY <1>3 DEF Says1

\* A call that is refused has put nothing to the page.
Refused(t) ==
  /\ call' = [call EXCEPT ![t].st = "notSubmitted", ![t].tries = call[t].tries + 1]
  /\ UNCHANGED <<bridge, page, toPage, toBridge, active, wallet, submitted>>

\* The step of a call that is refused
LEMMA RefusedStep ==
  ASSUME BrowserInv, NEW t \in Txs,
         call[t].st \in {"idle", "notSubmitted", "connecting"}, call[t].tries < MaxTries, Refused(t)
  PROVE  BrowserInv'
<1> USE DEF BrowserInv
<1> DEFINE n == call[t].tries + 1
           r0 == <<t, n>>
<1>h0. /\ n \in 1..MaxTries /\ r0 \in Requests /\ r0[1] = t /\ r0[2] = n
       /\ \A r \in Requests : r[1] \in Txs /\ r[2] \in 1..MaxTries /\ r = <<r[1], r[2]>>
  BY BridgeAssumption DEF BrowserTyped, Requests
<1>1. call' = [call EXCEPT ![t].st = "notSubmitted", ![t].tries = n] BY DEF Refused
<1>hg. UNCHANGED <<bridge, page, toPage, toBridge, active, wallet, submitted>> BY DEF Refused
<1>hb. n # call[t].tries /\ call[t].tries \in Nat BY BridgeAssumption DEF BrowserTyped
<1>hc. \A u \in Txs : call[u].tries \in Nat BY BridgeAssumption DEF BrowserTyped
<1>hd. \A c \in Bridges : \A r \in bridge[c].pending : r[1] # t BY <1>h0 DEF PendingIsLast, BrowserTyped
<1>he. n = call[t].tries + 1 OBVIOUS
<1> HIDE DEF n, r0
<1>hf. Harmless(r0) BY <1>h0, <1>hb DEF Past, r0
<1>2. \A u \in Txs : u # t => call'[u] = call[u] BY <1>1 DEF BrowserTyped
<1>3. call'[t].st = "notSubmitted" /\ call'[t].tries = n BY <1>1 DEF BrowserTyped
<1>4. \A c \in Bridges : \A i \in Nat : \A r \in Requests : QueuedAt(c, i, r)' <=> QueuedAt(c, i, r)
  BY <1>hg DEF QueuedAt
<1>5. /\ QueuedOnce' /\ QueuedIsNew' /\ DoneOnce' /\ Count'
      /\ \A r \in Requests : Harmless(r)' <=> Harmless(r)
  BY <1>4, <1>hg, QuietStep
<1>6. BrowserTyped'
  <2>1. call' \in [Txs -> [st : {"idle", "connecting", "waiting", "sent", "notSubmitted", "unknown"},
                          tries : 0..MaxTries, on : 0..MaxBridges]]
    <3>1. [call[t] EXCEPT !.st = "notSubmitted", !.tries = n]
            \in [st : {"idle", "connecting", "waiting", "sent", "notSubmitted", "unknown"},
                 tries : 0..MaxTries, on : 0..MaxBridges]
      <4>1. call[t] \in [st : {"idle", "connecting", "waiting", "sent", "notSubmitted", "unknown"},
                         tries : 0..MaxTries, on : 0..MaxBridges]
        BY DEF BrowserTyped
      <4>2. n \in 0..MaxTries BY <1>h0, BridgeAssumption
      <4> QED BY <4>1, <4>2
    <3>2. call' = [call EXCEPT ![t] = [call[t] EXCEPT !.st = "notSubmitted", !.tries = n]] BY <1>1
    <3> QED BY <3>1, <3>2 DEF BrowserTyped
  <2>2. \A u \in Txs : call'[u].st = "connecting" => call'[u].tries < MaxTries
    BY <1>2, <1>3 DEF BrowserTyped
  <2> QED BY <1>hg, <2>1, <2>2 DEF BrowserTyped
<1>7. Past'
  <2>1. ASSUME NEW m \in 1..MaxTries PROVE Harmless(<<t, m>>)
    <3>1. CASE m = n BY <1>hf, <3>1 DEF r0
    <3>2. CASE m # n BY <3>2 DEF Past
    <3> QED BY <3>1, <3>2
  <2> QED BY <1>2, <1>5, <2>1 DEF Past, Requests
<1>a. Unasked'
  <2>1. ASSUME NEW u \in Txs, NEW m \in 1..MaxTries, m > call'[u].tries PROVE wallet'[<<u, m>>] = "none"
    <3>1. m > call[u].tries BY <1>hb, <1>he, <1>2, <1>3, <2>1
    <3> QED BY <3>1, <1>hg DEF Unasked
  <2> QED BY <2>1 DEF Unasked
<1>8. SentIsSubmitted' BY <1>2, <1>3, <1>hg DEF SentIsSubmitted
<1>9. AnswersHold'
  <2>1. \A r \in Requests : \A kind : Says1(r, kind) => Says1(r, kind)'
    <3>1. \A u \in Txs : call'[u].tries \in Nat /\ call[u].tries <= call'[u].tries
      BY <1>hb, <1>hc, <1>he, <1>2, <1>3
    <3> QED BY <3>1, <1>5, <1>hg, WordsStay
  <2> QED BY <2>1, <1>hg DEF AnswersHold, InBox
<1>10. PendingIsLast' BY <1>h0, <1>hd, <1>hg, <1>2 DEF PendingIsLast, BrowserTyped
<1> QED BY <1>5, <1>6, <1>7, <1>8, <1>9, <1>10, <1>a

\* A request that is put to the page is its transaction's next one, which nobody
\* has seen yet.
LEMMA RequestedStep ==
  ASSUME BrowserInv, NEW t \in Txs, NEW b \in Bridges,
         call[t].st \in {"idle", "notSubmitted", "connecting"}, call[t].tries < MaxTries,
         Requested(t, b, <<t, call[t].tries + 1>>),
         UNCHANGED <<page, toBridge, active, wallet, submitted>>
  PROVE  BrowserInv'
<1> USE DEF BrowserInv
<1> DEFINE n == call[t].tries + 1
           r0 == <<t, n>>
<1>0. /\ n \in 1..MaxTries /\ r0 \in Requests /\ r0[1] = t /\ r0[2] = n
      /\ \A r \in Requests : r[1] \in Txs /\ r[2] \in 1..MaxTries /\ r = <<r[1], r[2]>>
  BY BridgeAssumption DEF BrowserTyped, Requests
<1>a. Requested(t, b, r0) OBVIOUS
<1>b. n # call[t].tries /\ call[t].tries \in Nat BY BridgeAssumption DEF BrowserTyped
<1>c. \A u \in Txs : call[u].tries \in Nat BY BridgeAssumption DEF BrowserTyped
<1>d. \A c \in Bridges : \A r \in bridge[c].pending : r[1] # t BY <1>0 DEF PendingIsLast, BrowserTyped
<1>e. n = call[t].tries + 1 OBVIOUS
<1> HIDE DEF n, r0
<1>f. Harmless(r0) BY <1>0, <1>b DEF Past, r0
<1>1. CASE bridge[b].pending # {}
  <2>1. UNCHANGED <<bridge, toPage>> /\ call' = [call EXCEPT ![t].st = "notSubmitted", ![t].tries = n]
    BY <1>a, <1>0, <1>1 DEF Requested
  <2> QED BY <2>1, RefusedStep DEF Refused, n
<1>2. CASE bridge[b].pending = {}
  <2> DEFINE M == Message("transaction", {r0})
  <2>1. /\ call' = [call EXCEPT ![t] = [st |-> "waiting", tries |-> n, on |-> b]]
        /\ bridge' = [bridge EXCEPT ![b].pending = {r0}]
        /\ toPage' = [toPage EXCEPT ![b] = Append(@, M)]
    BY <1>a, <1>0, <1>2 DEF Requested
  <2>2. \A u \in Txs : u # t => call'[u] = call[u] BY <2>1 DEF BrowserTyped
  <2>3. call'[t].st = "waiting" /\ call'[t].tries = n /\ call'[t].on = b BY <2>1 DEF BrowserTyped
  <2>4. M \in PageMessages BY <1>0 DEF PageMessages
  <2>5. \A r \in Requests : M = Message("transaction", {r}) => r = r0 BY DEF Message
  <2>6. /\ toPage \in [Bridges -> Seq(PageMessages)] /\ Len(toPage[b]) \in Nat
        /\ \A c \in Bridges : toPage[c] \in Seq(PageMessages) BY DEF BrowserTyped
  <2> HIDE DEF M
  <2>7. BrowserTyped'
    <3>1. toPage' \in [Bridges -> Seq(PageMessages)] BY <2>1, <2>4, <2>6
    <3>2. [st |-> "waiting", tries |-> n, on |-> b]
            \in [st : {"idle", "connecting", "waiting", "sent", "notSubmitted", "unknown"},
                 tries : 0..MaxTries, on : 0..MaxBridges]
      BY <1>0, BridgeAssumption DEF Bridges
    <3>3. call' \in [Txs -> [st : {"idle", "connecting", "waiting", "sent", "notSubmitted", "unknown"},
                            tries : 0..MaxTries, on : 0..MaxBridges]]
      BY <2>1, <3>2 DEF BrowserTyped
    <3>4. \A u \in Txs : call'[u].st = "connecting" => call'[u].tries < MaxTries
      BY <2>2, <2>3 DEF BrowserTyped
    <3>5. bridge' \in [Bridges -> [st : {"none", "pairing", "connected", "stopped"},
                                  pending : SUBSET Requests]]
      <4>1. {r0} \in SUBSET Requests BY <1>0
      <4>2. bridge[b] \in [st : {"none", "pairing", "connected", "stopped"}, pending : SUBSET Requests]
        BY DEF BrowserTyped
      <4>3. [bridge[b] EXCEPT !.pending = {r0}]
              \in [st : {"none", "pairing", "connected", "stopped"}, pending : SUBSET Requests]
        BY <4>1, <4>2
      <4> QED BY <2>1, <4>3 DEF BrowserTyped
    <3> QED BY <3>1, <3>3, <3>4, <3>5 DEF BrowserTyped
  <2>8. ASSUME NEW c \in Bridges, NEW i \in Nat, NEW r \in Requests
        PROVE  QueuedAt(c, i, r)' => QueuedAt(c, i, r) \/ (c = b /\ i = Len(toPage[b]) + 1 /\ r = r0)
    <3>1. CASE c # b BY <2>1, <2>6, <3>1 DEF QueuedAt
    <3>2. CASE c = b
      <4>1. toPage'[b] = Append(toPage[b], M) BY <2>1, <2>6
      <4>2. CASE i = Len(toPage[b]) + 1
        <5>1. toPage'[b][i] = M BY <2>4, <2>6, <4>1, <4>2
        <5> QED BY <2>5, <3>2, <4>2, <5>1 DEF QueuedAt
      <4>3. CASE i \in 1..Len(toPage[b])
        <5>1. toPage'[b][i] = toPage[b][i] BY <2>4, <2>6, <4>1, <4>3
        <5> QED BY <3>2, <4>3, <5>1 DEF QueuedAt
      <4>4. CASE i \notin 1..Len(toPage[b]) + 1
        <5>1. Len(toPage'[b]) = Len(toPage[b]) + 1 BY <2>4, <2>6, <4>1
        <5>2. ~QueuedAt(b, i, r)' BY <4>4, <5>1 DEF QueuedAt
        <5> QED BY <3>2, <5>2
      <4> QED BY <2>6, <4>2, <4>3, <4>4
    <3> QED BY <3>1, <3>2
  <2>9. \A c \in Bridges : \A i \in Nat : ~QueuedAt(c, i, r0) BY <1>f DEF Harmless, IsQueued
  <2>10. QueuedOnce'
    <3>1. \A r \in Requests : \A c, d \in Bridges : \A i, j \in Nat :
             QueuedAt(c, i, r)' /\ QueuedAt(d, j, r)' => c = d /\ i = j
      BY <2>8, <2>9 DEF QueuedOnce
    <3> QED BY <3>1 DEF QueuedOnce
  <2>11. \A r \in Requests : r # r0 => (Harmless(r) => Harmless(r)')
    BY <2>8 DEF Harmless, IsQueued, IsDone
  <2>12. QueuedIsNew'
    <3>1. \A r \in Requests : IsQueued(r)' => IsQueued(r) \/ r = r0 BY <2>8 DEF IsQueued
    <3>2. \A r \in Requests : IsDone(r)' <=> IsDone(r) BY DEF IsDone
    <3>3. wallet[r0] = "none" /\ ~IsDone(r0)
      <4>1. ~IsDone(r0) BY <1>f DEF Harmless
      <4>2. n > call[t].tries BY <1>b, <1>e
      <4>3. wallet[r0] = "none" BY <1>0, <4>2 DEF Unasked, r0
      <4> QED BY <4>1, <4>3
    <3> QED BY <3>1, <3>2, <3>3, <1>f DEF QueuedIsNew
  <2>13. DoneOnce' BY DEF DoneOnce
  <2>14. Past'
    <3>1. ASSUME NEW u \in Txs, NEW m \in 1..MaxTries,
                 m # call'[u].tries \/ call'[u].st \in {"idle", "notSubmitted", "connecting"}
          PROVE  Harmless(<<u, m>>)'
      <4>1. <<u, m>> \in Requests /\ <<u, m>>[1] = u BY DEF Requests
      <4>2. <<u, m>> # r0
        <5>1. CASE u # t BY <5>1 DEF r0
        <5>2. CASE u = t BY <5>2, <2>3, <3>1 DEF r0
        <5> QED BY <5>1, <5>2
      <4>3. Harmless(<<u, m>>) BY <2>2, <3>1 DEF Past
      <4> QED BY <2>11, <4>1, <4>2, <4>3
    <3> QED BY <3>1 DEF Past
  <2>15. Unasked' BY <1>b, <1>e, <2>2, <2>3, <1>0 DEF Unasked
  <2>16. SentIsSubmitted' BY <2>2, <2>3 DEF SentIsSubmitted
  <2>17. AnswersHold'
    <3>1. \A u \in Txs : call'[u].tries \in Nat /\ call[u].tries <= call'[u].tries
      BY <1>0, <1>b, <1>c, <1>e, <2>2, <2>3
    <3>2. \A r \in Requests : r[2] <= call[r[1]].tries => r # r0 BY <1>0, <1>b, <1>e
    <3>3. \A r \in Requests : \A kind : Says1(r, kind) => Says1(r, kind)'
      BY <2>11, <3>1, <3>2, WordsStay
    <3> QED BY <3>3 DEF AnswersHold, InBox
  <2>18. PendingIsLast'
    <3>1. \A c \in Bridges : \A r \in bridge'[c].pending :
            (c = b /\ r = r0) \/ r \in bridge[c].pending
      BY <2>1 DEF BrowserTyped
    <3>2. \A c \in Bridges : \A r \in bridge[c].pending : r[1] \in Txs BY <1>0 DEF BrowserTyped
    <3> QED BY <1>0, <1>d, <2>2, <2>3, <3>1, <3>2 DEF PendingIsLast
  <2>19. Count' BY DEF Count
  <2> QED BY <2>7, <2>10, <2>12, <2>13, <2>14, <2>15, <2>16, <2>17, <2>18, <2>19
<1> QED BY <1>1, <1>2

\* The steps of a caller: it sends on a connected bridge, after connecting, or connects.
LEMMA SendStep == ASSUME BrowserInv, NEW t \in Txs, SendOnBridge(t) PROVE BrowserInv'
<1>1. active \in Bridges BY DEF SendOnBridge, Connected, Bridges
<1> QED BY <1>1, RequestedStep DEF SendOnBridge, MayCall

LEMMA ConnectedStep == ASSUME BrowserInv, NEW t \in Txs, SendConnected(t) PROVE BrowserInv'
<1>1. call[t].st = "connecting" /\ call[t].tries < MaxTries BY DEF SendConnected, BrowserInv, BrowserTyped
<1>2. CASE Connected
  <2>1. active \in Bridges BY <1>2 DEF Connected, Bridges
  <2> QED BY <1>1, <1>2, <2>1, RequestedStep DEF SendConnected
<1>3. CASE ~Connected
  <2>1. call' = [call EXCEPT ![t].st = "notSubmitted", ![t].tries = call[t].tries + 1]
    BY <1>3 DEF SendConnected, BrowserInv, BrowserTyped
  <2> QED BY <1>1, <1>3, <2>1, RefusedStep DEF SendConnected, Refused
<1> QED BY <1>2, <1>3

\* A call of the client
CallRecord == [st : {"idle", "connecting", "waiting", "sent", "notSubmitted", "unknown"},
               tries : 0..MaxTries, on : 0..MaxBridges]

\* Whoever is told of bridges that stop keeps its place.
LEMMA ToldKeeps ==
  ASSUME BrowserTyped, NEW S \in SUBSET Bridges
  PROVE  /\ Told(S) \in [Txs -> CallRecord]
         /\ \A t \in Txs :
              /\ Told(S)[t].tries = call[t].tries /\ Told(S)[t].on = call[t].on
              /\ call[t].on \notin S => Told(S)[t] = call[t]
              /\ Told(S)[t].st = call[t].st
                 \/ /\ call[t].st = "connecting" /\ Told(S)[t].st = "notSubmitted"
                 \/ /\ call[t].st = "waiting" /\ Told(S)[t].st = "unknown"
BY DEF Told, BrowserTyped, CallRecord

LEMMA ConnectStep == ASSUME BrowserInv, NEW t \in Txs, ConnectBridge(t) PROVE BrowserInv'
<1> USE DEF BrowserInv
<1>1. PICK b \in Bridges :
        /\ bridge[b].st = "none" /\ active' = b
        /\ LET old == {c \in Bridges : c = active /\ Running(c)} IN
           /\ bridge' = [c \in Bridges |->
                IF c = b THEN [st |-> "pairing", pending |-> {}]
                ELSE IF c \in old THEN [st |-> "stopped", pending |-> {}] ELSE bridge[c]]
           /\ toPage' = [c \in Bridges |->
                IF c \in old THEN Append(toPage[c], Message("disconnect", {})) ELSE toPage[c]]
           /\ toBridge' = [c \in Bridges |-> IF c \in old THEN <<>> ELSE toBridge[c]]
           /\ call' = [Told(old) EXCEPT ![t].st = "connecting", ![t].on = b]
  BY DEF ConnectBridge
<1> DEFINE S == {c \in Bridges : c = active /\ Running(c)}
<1>2. S \in SUBSET Bridges OBVIOUS
<1>3. bridge' = [c \in Bridges |->
                IF c = b THEN [st |-> "pairing", pending |-> {}]
                ELSE IF c \in S THEN [st |-> "stopped", pending |-> {}] ELSE bridge[c]]
  BY <1>1
<1>4. toPage' = [c \in Bridges |->
                IF c \in S THEN Append(toPage[c], Message("disconnect", {})) ELSE toPage[c]]
  BY <1>1
<1>5. toBridge' = [c \in Bridges |-> IF c \in S THEN <<>> ELSE toBridge[c]] BY <1>1
<1>6. call' = [Told(S) EXCEPT ![t].st = "connecting", ![t].on = b] BY <1>1
<1>7. active' \in 0..MaxBridges BY <1>1 DEF Bridges
<1>8. UNCHANGED <<page, selected, wallet, submitted>> /\ call[t].st \in {"idle", "notSubmitted"}
        /\ call[t].tries < MaxTries
  BY DEF ConnectBridge, MayCall
<1> HIDE DEF S
<1>9. /\ toPage' \in [Bridges -> Seq(PageMessages)]
      /\ \A c \in Bridges : \A i \in Nat : \A r \in Requests : QueuedAt(c, i, r)' <=> QueuedAt(c, i, r)
  BY <1>2, <1>4, TellingQueuesNothing
<1>10. /\ QueuedOnce' /\ QueuedIsNew' /\ DoneOnce' /\ Count'
       /\ \A r \in Requests : Harmless(r)' <=> Harmless(r)
  BY <1>8, <1>9, QuietStep
<1>11. Told(S) \in [Txs -> CallRecord] BY <1>2, ToldKeeps
<1>12. /\ call' \in [Txs -> CallRecord] /\ call'[t].st = "connecting" /\ call'[t].tries = call[t].tries
       /\ \A u \in Txs : u # t => call'[u] = Told(S)[u]
  <2>1. Told(S)[t].tries = call[t].tries BY <1>2, ToldKeeps
  <2>2. b \in 0..MaxBridges BY BridgeAssumption DEF Bridges
  <2>3. call' = [Told(S) EXCEPT ![t] = [Told(S)[t] EXCEPT !.st = "connecting", !.on = b]] BY <1>6
  <2>4. [Told(S)[t] EXCEPT !.st = "connecting", !.on = b] \in CallRecord BY <1>11, <2>2 DEF CallRecord
  <2>5. call' \in [Txs -> CallRecord] BY <1>11, <2>3, <2>4
  <2>6. Told(S)[t] \in CallRecord BY <1>11
  <2>7. call'[t] = [Told(S)[t] EXCEPT !.st = "connecting", !.on = b] BY <1>11, <2>3
  <2>8. call'[t].st = "connecting" /\ call'[t].tries = call[t].tries BY <2>1, <2>6, <2>7 DEF CallRecord
  <2> QED BY <1>11, <2>3, <2>5, <2>8
<1>13. \A u \in Txs : call'[u].tries = call[u].tries BY <1>2, <1>12, ToldKeeps
<1>14. BrowserTyped'
  <2>1. bridge' \in [Bridges -> [st : {"none", "pairing", "connected", "stopped"},
                                 pending : SUBSET Requests]]
    BY <1>3 DEF BrowserTyped
  <2>2. toBridge' \in [Bridges -> Seq(BridgeMessages)] BY <1>5 DEF BrowserTyped
  <2>3. \A u \in Txs : call'[u].st = "connecting" => call'[u].tries < MaxTries
    <3>1. \A u \in Txs : u # t /\ call'[u].st = "connecting" => call[u].st = "connecting"
      BY <1>2, <1>12, ToldKeeps
    <3>2. \A u \in Txs : call[u].st = "connecting" => call[u].tries < MaxTries BY DEF BrowserTyped
    <3> QED BY <1>8, <1>13, <3>1, <3>2
  <2> QED BY <1>7, <1>8, <1>9, <1>12, <2>1, <2>2, <2>3 DEF BrowserTyped, CallRecord
<1>15. Past'
  <2>1. \A u \in Txs : call'[u].st \in {"idle", "notSubmitted", "connecting"}
                        => call[u].st \in {"idle", "notSubmitted", "connecting"}
    BY <1>2, <1>8, <1>12, ToldKeeps
  <2> QED BY <1>10, <1>13, <2>1 DEF Past, Requests
<1>16. Unasked' BY <1>8, <1>13 DEF Unasked
<1>17. SentIsSubmitted'
  <2>1. \A u \in Txs : call'[u].st = "sent" => call[u].st = "sent" BY <1>2, <1>12, ToldKeeps
  <2> QED BY <1>8, <1>13, <2>1 DEF SentIsSubmitted
<1>18. AnswersHold'
  <2>1. \A c \in Bridges : \A m : InBox(c, m)' => InBox(c, m) BY <1>5 DEF InBox
  <2>2. \A u \in Txs : call'[u].tries \in Nat /\ call[u].tries <= call'[u].tries
    BY <1>13, BridgeAssumption DEF BrowserTyped
  <2>3. \A r \in Requests : \A kind : Says1(r, kind) => Says1(r, kind)' BY <1>8, <1>10, <2>2, WordsStay
  <2> QED BY <2>1, <2>3 DEF AnswersHold
<1>19. PendingIsLast'
  <2>1. ASSUME NEW c \in Bridges, NEW r \in bridge'[c].pending
        PROVE  r[2] = call'[r[1]].tries /\ call'[r[1]].st = "waiting" /\ call'[r[1]].on = c
    <3>1. c # b /\ c \notin S /\ r \in bridge[c].pending BY <1>3, <2>1
    <3>2. r[1] \in Txs BY <3>1 DEF BrowserTyped, Requests
    <3>3. r[2] = call[r[1]].tries /\ call[r[1]].st = "waiting" /\ call[r[1]].on = c BY <3>1 DEF PendingIsLast
    <3>4. r[1] # t BY <1>8, <3>3
    <3>5. call'[r[1]] = Told(S)[r[1]] BY <1>12, <3>2, <3>4
    <3>6. Told(S)[r[1]] = call[r[1]] BY <1>2, <3>1, <3>2, <3>3, ToldKeeps
    <3> QED BY <3>3, <3>5, <3>6
  <2> QED BY <2>1 DEF PendingIsLast
<1> QED BY <1>10, <1>14, <1>15, <1>16, <1>17, <1>18, <1>19

\* The first message for the server is taken off.
LEMMA TakenTyped ==
  ASSUME BrowserTyped, NEW b \in Bridges, toBridge[b] # <<>>,
         toBridge' = [toBridge EXCEPT ![b] = Tail(@)]
  PROVE  /\ toBridge' \in [Bridges -> Seq(BridgeMessages)]
         /\ \A c \in Bridges : \A m : InBox(c, m)' => InBox(c, m)
<1>1. toBridge \in [Bridges -> Seq(BridgeMessages)] /\ toBridge[b] \in Seq(BridgeMessages) BY DEF BrowserTyped
<1>2. ASSUME NEW c \in Bridges, NEW m, InBox(c, m)' PROVE InBox(c, m)
  <2>1. CASE c # b BY <1>1, <1>2, <2>1 DEF InBox
  <2>2. CASE c = b
    <3>1. PICK i \in 1..Len(toBridge'[b]) : toBridge'[b][i] = m BY <1>2, <2>2 DEF InBox
    <3>2. toBridge'[b] = Tail(toBridge[b]) BY <1>1
    <3>3. i + 1 \in 1..Len(toBridge[b]) /\ toBridge[b][i + 1] = m BY <1>1, <3>1, <3>2
    <3> QED BY <2>2, <3>3 DEF InBox
  <2> QED BY <2>1, <2>2
<1> QED BY <1>1, <1>2

\* An answer of a page is about one request.
LEMMA WhatThePageSays ==
  ASSUME NEW m \in BridgeMessages
  PROVE  \/ m.kind \in {"disconnect", "connected"}
         \/ \E r \in Requests : m.kind \in {"result", "error", "notSubmitted"} /\ m = Message(m.kind, {r})
<1>1. CASE m \in {Message("disconnect", {}), Message("connected", {})} BY <1>1 DEF Message
<1>2. CASE m \in {Message("result", {r}) : r \in Requests} BY <1>2 DEF Message
<1>3. CASE m \in {Message("error", {r}) : r \in Requests} BY <1>3 DEF Message
<1>4. CASE m \in {Message("notSubmitted", {r}) : r \in Requests} BY <1>4 DEF Message
<1> QED BY <1>1, <1>2, <1>3, <1>4 DEF BridgeMessages

\* What a caller makes of an answer, and the step in which it does
Learns(kind) ==
  CASE kind = "result" -> "sent" [] kind = "error" -> "unknown" [] OTHER -> "notSubmitted"

LEMMA ReceivedStep == ASSUME BrowserInv, NEW b \in Bridges, ServerReceives(b) PROVE BrowserInv'
<1> USE DEF BrowserInv
<1> DEFINE m == Head(toBridge[b])
<1>1. toBridge[b] # <<>> /\ UNCHANGED <<page, active, wallet, submitted>> BY DEF ServerReceives
<1>2. toBridge[b] \in Seq(BridgeMessages) BY DEF BrowserTyped
<1>3. m \in BridgeMessages /\ InBox(b, m) BY <1>1, <1>2 DEF InBox
<1>4. CASE m.kind = "disconnect"
  <2>1. Stopped({b}) BY <1>4 DEF ServerReceives
  <2>2. active' \in 0..MaxBridges
        /\ page' \in [Bridges -> [st : {"none", "ready", "connected", "ended"}, busy : BOOLEAN,
                                  doing : SUBSET Requests, seen : SUBSET Requests]]
    BY <1>1 DEF BrowserTyped
  <2>3. {b} \in SUBSET Bridges OBVIOUS
  <2> QED BY <1>1, <2>1, <2>2, <2>3, StoppedStep
<1>5. CASE m.kind # "disconnect"
  <2>1. toBridge' = [toBridge EXCEPT ![b] = Tail(@)] /\ UNCHANGED toPage
    BY <1>5 DEF ServerReceives
  <2>2. /\ toBridge' \in [Bridges -> Seq(BridgeMessages)]
        /\ \A c \in Bridges : \A x : InBox(c, x)' => InBox(c, x)
    BY <1>1, <2>1, TakenTyped
  <2>3. \A c \in Bridges : \A i \in Nat : \A r \in Requests : QueuedAt(c, i, r)' <=> QueuedAt(c, i, r)
    BY <2>1 DEF QueuedAt
  <2>4. /\ QueuedOnce' /\ QueuedIsNew' /\ DoneOnce' /\ Count'
        /\ \A r \in Requests : Harmless(r)' <=> Harmless(r)
    BY <1>1, <2>3, QuietStep
  <2>5. CASE m.kind = "connected"
    <3>1. bridge' = [bridge EXCEPT ![b].st = "connected"] /\ UNCHANGED call
      BY <2>5 DEF ServerReceives
    <3>2. BrowserTyped'
      <4>1. bridge' \in [Bridges -> [st : {"none", "pairing", "connected", "stopped"},
                                     pending : SUBSET Requests]]
        <5>1. bridge[b] \in [st : {"none", "pairing", "connected", "stopped"}, pending : SUBSET Requests]
          BY DEF BrowserTyped
        <5>2. [bridge[b] EXCEPT !.st = "connected"] \in
                 [st : {"none", "pairing", "connected", "stopped"}, pending : SUBSET Requests]
          BY <5>1
        <5>3. bridge' = [bridge EXCEPT ![b] = [bridge[b] EXCEPT !.st = "connected"]] BY <3>1
        <5> QED BY <5>2, <5>3 DEF BrowserTyped
      <4> QED BY <1>1, <2>1, <2>2, <3>1, <4>1 DEF BrowserTyped
    <3>3. Past' /\ Unasked' /\ SentIsSubmitted'
      BY <1>1, <2>4, <3>1 DEF Past, Unasked, SentIsSubmitted, Requests
    <3>4. \A r \in Requests : \A kind : Says1(r, kind) => Says1(r, kind)'
      BY <1>1, <2>4, <3>1 DEF Says1
    <3>5. AnswersHold' BY <2>2, <3>4 DEF AnswersHold
    <3>6. PendingIsLast' BY <3>1 DEF PendingIsLast, BrowserTyped
    <3> QED BY <2>4, <3>2, <3>3, <3>5, <3>6
  <2>6. CASE m.kind \in {"result", "error", "notSubmitted"}
    <3>1. PICK r0 \in Requests : m = Message(m.kind, {r0})
      BY <1>3, <2>6, WhatThePageSays
    <3>2. Says1(r0, m.kind) BY <1>3, <2>6, <3>1 DEF AnswersHold
    <3>3. m.of = {r0} BY <3>1 DEF Message
    <3>4. bridge' = [bridge EXCEPT ![b].pending = @ \ {r0}] BY <2>6, <3>3 DEF ServerReceives
    <3>5. call' = [t \in Txs |->
             IF \E n \in 1..MaxTries : <<t, n>> \in {r0} \cap bridge[b].pending
             THEN [call[t] EXCEPT !.st = Learns(m.kind)]
             ELSE call[t]]
      BY <2>6, <3>3 DEF ServerReceives, Learns
    <3>6. /\ r0[1] \in Txs /\ r0[2] \in 1..MaxTries /\ r0 = <<r0[1], r0[2]>>
      BY DEF Requests
    <3> DEFINE kind == m.kind
    <3>7. kind \in {"result", "error", "notSubmitted"} BY <2>6
    <3>a. Says1(r0, kind) BY <3>2
    <3> HIDE DEF m, kind
    <3>8. /\ \A t \in Txs : t # r0[1] => call'[t] = call[t]
          /\ r0 \notin bridge[b].pending => call'[r0[1]] = call[r0[1]]
          /\ r0 \in bridge[b].pending =>
               call'[r0[1]] = [call[r0[1]] EXCEPT !.st = Learns(kind)]
      <4>1. \A t \in Txs : (\E n \in 1..MaxTries : <<t, n>> \in {r0} \cap bridge[b].pending)
                            <=> t = r0[1] /\ r0 \in bridge[b].pending
        <5>1. ASSUME NEW t \in Txs, NEW n \in 1..MaxTries, <<t, n>> \in {r0} \cap bridge[b].pending
              PROVE  t = r0[1] /\ r0 \in bridge[b].pending
          <6>1. <<t, n>> = r0 /\ r0 \in bridge[b].pending BY <5>1
          <6> QED BY <6>1
        <5>2. ASSUME r0 \in bridge[b].pending
              PROVE  \E n \in 1..MaxTries : <<r0[1], n>> \in {r0} \cap bridge[b].pending
          BY <3>6, <5>2
        <5> QED BY <5>1, <5>2
      <4> QED BY <3>5, <3>6, <4>1 DEF kind
    <3> DEFINE t0 == r0[1]
    <3>9. r0 \in bridge[b].pending =>
             /\ call'[t0].tries = call[t0].tries /\ call'[t0].on = call[t0].on
             /\ kind = "result" => call'[t0].st = "sent"
             /\ kind = "error" => call'[t0].st = "unknown"
             /\ kind = "notSubmitted" => call'[t0].st = "notSubmitted"
      BY <3>6, <3>7, <3>8 DEF BrowserTyped, Learns
    <3>10. \A t \in Txs : call'[t].tries = call[t].tries BY <3>8, <3>9
    <3>11. \A t \in Txs : call'[t] \in CallRecord
      <4>1. \A t \in Txs : call[t] \in CallRecord BY DEF BrowserTyped, CallRecord
      <4>2. r0 \in bridge[b].pending => call'[t0] \in CallRecord
        BY <3>6, <3>7, <3>8, <4>1 DEF CallRecord, Learns
      <4> QED BY <3>8, <4>1, <4>2
    <3>12. BrowserTyped'
      <4>1. bridge' \in [Bridges -> [st : {"none", "pairing", "connected", "stopped"},
                                     pending : SUBSET Requests]]
        <5>1. bridge[b] \in [st : {"none", "pairing", "connected", "stopped"}, pending : SUBSET Requests]
          BY DEF BrowserTyped
        <5>2. [bridge[b] EXCEPT !.pending = @ \ {r0}] \in
                 [st : {"none", "pairing", "connected", "stopped"}, pending : SUBSET Requests]
          BY <5>1
        <5>3. bridge' = [bridge EXCEPT ![b] = [bridge[b] EXCEPT !.pending = @ \ {r0}]] BY <3>4
        <5> QED BY <5>2, <5>3 DEF BrowserTyped
      <4>2. call' \in [Txs -> CallRecord] BY <3>5, <3>11
      <4>3. \A t \in Txs : call'[t].st = "connecting" => call'[t].tries < MaxTries
        BY <3>7, <3>8, <3>9 DEF BrowserTyped
      <4> QED BY <1>1, <2>1, <2>2, <4>1, <4>2, <4>3 DEF BrowserTyped, CallRecord
    <3>13. r0 \in bridge[b].pending => r0[2] = call[t0].tries /\ call[t0].st = "waiting" /\ call[t0].on = b
      BY DEF PendingIsLast
    <3>14. Past'
      <4>1. ASSUME NEW t \in Txs, NEW n \in 1..MaxTries,
                   n # call'[t].tries \/ call'[t].st \in {"idle", "notSubmitted", "connecting"}
            PROVE  Harmless(<<t, n>>)
        <5>1. CASE n # call[t].tries \/ call'[t] = call[t] BY <3>10, <4>1, <5>1 DEF Past
        <5>2. CASE n = call[t].tries /\ call'[t] # call[t]
          <6>1. r0 \in bridge[b].pending /\ t = t0 BY <3>8, <5>2
          <6>2. kind = "notSubmitted" BY <3>7, <3>9, <3>10, <4>1, <5>2, <6>1
          <6>3. <<t, n>> = r0 BY <3>6, <3>13, <5>2, <6>1
          <6> QED BY <3>a, <6>2, <6>3 DEF Says1
        <5> QED BY <5>1, <5>2
      <4> QED BY <2>4, <4>1 DEF Past, Requests
    <3>15. Unasked' BY <1>1, <3>10 DEF Unasked
    <3>16. SentIsSubmitted'
      <4>1. ASSUME NEW t \in Txs, call'[t].st = "sent"
            PROVE  call[t].tries \in 1..MaxTries /\ wallet[<<t, call[t].tries>>] = "submitted"
        <5>1. CASE call'[t] = call[t] BY <4>1, <5>1 DEF SentIsSubmitted
        <5>2. CASE call'[t] # call[t]
          <6>1. r0 \in bridge[b].pending /\ t = t0 BY <3>8, <5>2
          <6>2. kind = "result" BY <3>7, <3>9, <4>1, <6>1
          <6> QED BY <3>6, <3>a, <3>13, <6>1, <6>2 DEF Says1
        <5> QED BY <5>1, <5>2
      <4> QED BY <1>1, <3>10, <4>1 DEF SentIsSubmitted
    <3>17. AnswersHold'
      <4>1. \A r \in Requests : r[1] \in Txs BY DEF Requests
      <4>2. \A r \in Requests : \A k : Says1(r, k) => Says1(r, k)'
        BY <1>1, <2>4, <3>10, <4>1 DEF Says1
      <4> QED BY <2>2, <4>2 DEF AnswersHold
    <3>18. PendingIsLast'
      <4>1. ASSUME NEW c \in Bridges, NEW r \in bridge'[c].pending
            PROVE  r[2] = call'[r[1]].tries /\ call'[r[1]].st = "waiting" /\ call'[r[1]].on = c
        <5>1. r \in bridge[c].pending /\ ~(c = b /\ r = r0) BY <3>4, <4>1 DEF BrowserTyped
        <5>2. r \in Requests BY <5>1 DEF BrowserTyped
        <5>3. r[1] \in Txs /\ r = <<r[1], r[2]>> BY <5>2 DEF Requests
        <5>4. r[2] = call[r[1]].tries /\ call[r[1]].st = "waiting" /\ call[r[1]].on = c BY <5>1 DEF PendingIsLast
        <5>5. CASE r[1] # t0 BY <3>8, <5>3, <5>4, <5>5
        <5>6. CASE r[1] = t0 /\ r0 \notin bridge[b].pending BY <3>8, <5>4, <5>6
        <5>7. CASE r[1] = t0 /\ r0 \in bridge[b].pending
          <6>1. c = b /\ r = r0 BY <3>6, <3>13, <5>3, <5>4, <5>7
          <6> QED BY <5>1, <6>1
        <5> QED BY <5>5, <5>6, <5>7
      <4> QED BY <4>1 DEF PendingIsLast
    <3> QED BY <2>4, <3>12, <3>14, <3>15, <3>16, <3>17, <3>18
  <2> QED BY <1>3, <1>5, <2>5, <2>6, WhatThePageSays
<1> QED BY <1>4, <1>5

\* A page of the browser
PageRecord == [st : {"none", "ready", "connected", "ended"}, busy : BOOLEAN,
               doing : SUBSET Requests, seen : SUBSET Requests]

\* A step of the page: what is harmless stays so, and what it says is true.
LEMMA PageStep ==
  ASSUME BrowserInv, UNCHANGED <<bridge, call, active, wallet, submitted>>,
         page' \in [Bridges -> PageRecord], toPage' \in [Bridges -> Seq(PageMessages)],
         toBridge' \in [Bridges -> Seq(BridgeMessages)],
         QueuedOnce', QueuedIsNew', DoneOnce',
         \A r \in Requests : Harmless(r) => Harmless(r)',
         \A b \in Bridges : \A r \in Requests : \A kind \in {"result", "error", "notSubmitted"} :
            InBox(b, Message(kind, {r}))' => InBox(b, Message(kind, {r})) \/ Says1(r, kind)'
  PROVE  BrowserInv'
<1> USE DEF BrowserInv
<1>1. BrowserTyped' BY DEF BrowserTyped, PageRecord
<1>2. Past' /\ Unasked' /\ SentIsSubmitted' BY DEF Past, Unasked, SentIsSubmitted, Requests
<1>3. AnswersHold'
  <2>1. \A r \in Requests : \A kind : Says1(r, kind) => Says1(r, kind)' BY DEF Says1
  <2> QED BY <2>1 DEF AnswersHold
<1>4. PendingIsLast' BY DEF PendingIsLast
<1>5. Count' BY DEF Count
<1> QED BY <1>1, <1>2, <1>3, <1>4, <1>5

LEMMA PageTyped == ASSUME BrowserTyped PROVE page \in [Bridges -> PageRecord]
BY DEF BrowserTyped, PageRecord

\* The first message for the page is taken off.
LEMMA TailQueues ==
  ASSUME BrowserTyped, NEW b \in Bridges, toPage[b] # <<>>,
         toPage' = [toPage EXCEPT ![b] = Tail(@)]
  PROVE  /\ toPage' \in [Bridges -> Seq(PageMessages)]
         /\ \A c \in Bridges : \A i \in Nat : \A r \in Requests :
              QueuedAt(c, i, r)' => QueuedAt(c, IF c = b THEN i + 1 ELSE i, r)
         /\ Head(toPage[b]) \in PageMessages
         /\ \A r : Head(toPage[b]) = Message("transaction", {r}) => QueuedAt(b, 1, r)
<1>1. toPage \in [Bridges -> Seq(PageMessages)] /\ toPage[b] \in Seq(PageMessages) BY DEF BrowserTyped
<1>2. ASSUME NEW c \in Bridges, NEW i \in Nat, NEW r \in Requests, QueuedAt(c, i, r)'
      PROVE  QueuedAt(c, IF c = b THEN i + 1 ELSE i, r)
  <2>1. CASE c # b BY <1>1, <1>2, <2>1 DEF QueuedAt
  <2>2. CASE c = b
    <3>1. i \in 1..Len(toPage'[b]) /\ toPage'[b][i] = Message("transaction", {r}) BY <1>2, <2>2 DEF QueuedAt
    <3>2. toPage'[b] = Tail(toPage[b]) BY <1>1
    <3>3. i + 1 \in 1..Len(toPage[b]) /\ toPage[b][i + 1] = Message("transaction", {r}) BY <1>1, <3>1, <3>2
    <3> QED BY <2>2, <3>3 DEF QueuedAt
  <2> QED BY <2>1, <2>2
<1>3. Len(toPage[b]) \in Nat \ {0} /\ Head(toPage[b]) = toPage[b][1] BY <1>1
<1> QED BY <1>1, <1>2, <1>3 DEF QueuedAt

\* What the page says besides the answers
LEMMA Chatter ==
  ASSUME BrowserInv, UNCHANGED <<bridge, call, active, wallet, submitted, toPage>>,
         page' \in [Bridges -> PageRecord], \A b \in Bridges : page'[b].doing = page[b].doing,
         NEW b \in Bridges, NEW kind \in {"connected", "disconnect"},
         Says(b, kind, {}) \/ UNCHANGED toBridge
  PROVE  BrowserInv'
<1> USE DEF BrowserInv
<1>1. \A c \in Bridges : \A i \in Nat : \A r \in Requests : QueuedAt(c, i, r)' <=> QueuedAt(c, i, r)
  BY DEF QueuedAt
<1>2. /\ QueuedOnce' /\ QueuedIsNew' /\ DoneOnce' /\ Count'
      /\ \A r \in Requests : Harmless(r)' <=> Harmless(r)
  BY <1>1, QuietStep
<1>3. Message(kind, {}) \in BridgeMessages BY DEF BridgeMessages
<1>4. /\ toBridge' \in [Bridges -> Seq(BridgeMessages)]
      /\ \A c \in Bridges : \A m : InBox(c, m)' => InBox(c, m) \/ m = Message(kind, {})
  <2>1. CASE Says(b, kind, {}) BY <1>3, <2>1, SaysTyped
  <2>2. CASE UNCHANGED toBridge BY <2>2 DEF BrowserTyped, InBox
  <2> QED BY <2>1, <2>2
<1>5. \A r : \A k : Message(k, {r}) # Message(kind, {}) BY DEF Message
<1>6. toPage' \in [Bridges -> Seq(PageMessages)] BY DEF BrowserTyped
<1> QED BY <1>2, <1>4, <1>5, <1>6, PageStep

\* A page that opens, connects, detaches or is closed
LEMMA QuietPageSteps ==
  ASSUME BrowserInv, NEW b \in Bridges,
         OpenPage(b) \/ PageConnects(b) \/ PageDetaches(b) \/ CloseTab(b)
  PROVE  BrowserInv'
<1>1. page \in [Bridges -> PageRecord] BY PageTyped DEF BrowserInv
<1>2. ASSUME NEW st \in {"ready", "connected", "ended"}, page' = [page EXCEPT ![b].st = st]
      PROVE  /\ page' \in [Bridges -> PageRecord]
             /\ \A c \in Bridges : page'[c].doing = page[c].doing
  BY <1>1, <1>2 DEF PageRecord
<1>3. CASE OpenPage(b)
  <2>1. page' = [page EXCEPT ![b].st = "ready"] /\ UNCHANGED <<bridge, call, active, wallet, submitted, toPage, toBridge>>
    BY <1>3 DEF OpenPage
  <2> QED BY <1>2, <2>1, Chatter
<1>4. CASE PageConnects(b)
  <2>1. page' = [page EXCEPT ![b].st = "connected"] /\ Says(b, "connected", {})
        /\ UNCHANGED <<bridge, call, active, wallet, submitted, toPage>>
    BY <1>4 DEF PageConnects
  <2> QED BY <1>2, <2>1, Chatter
<1>5. CASE PageDetaches(b)
  <2>1. page' = [page EXCEPT ![b].st = "ended"] /\ Says(b, "disconnect", {})
        /\ UNCHANGED <<bridge, call, active, wallet, submitted, toPage>>
    BY <1>5 DEF PageDetaches, Finished
  <2> QED BY <1>2, <2>1, Chatter
<1>6. CASE CloseTab(b)
  <2>1. page' = [page EXCEPT ![b].st = "ended"] /\ UNCHANGED <<active, wallet, submitted>>
    BY <1>6 DEF CloseTab, Finished
  <2>2. CASE Running(b)
    <3>1. Stopped({b}) BY <1>6, <2>2 DEF CloseTab
    <3>2. active' \in 0..MaxBridges BY <2>1 DEF BrowserInv, BrowserTyped
    <3>3. {b} \in SUBSET Bridges OBVIOUS
    <3> QED BY <1>2, <2>1, <3>1, <3>2, <3>3, StoppedStep DEF PageRecord
  <2>3. CASE ~Running(b)
    <3>1. UNCHANGED <<bridge, toPage, toBridge, call>> BY <1>6, <2>3 DEF CloseTab
    <3> QED BY <1>2, <2>1, <3>1, Chatter
  <2> QED BY <2>2, <2>3
<1> QED BY <1>3, <1>4, <1>5, <1>6

\* A request that a page takes to its wallet: none before it, or it is known already
LEMMA PageReceivesStep == ASSUME BrowserInv, NEW b \in Bridges, PageReceives(b) PROVE BrowserInv'
<1> USE DEF BrowserInv
<1> DEFINE m == Head(toPage[b])
<1>1. /\ toPage[b] # <<>> /\ toPage' = [toPage EXCEPT ![b] = Tail(@)]
      /\ UNCHANGED <<bridge, active, call, wallet, submitted>>
  BY DEF PageReceives
<1>2. /\ toPage' \in [Bridges -> Seq(PageMessages)]
      /\ \A c \in Bridges : \A i \in Nat : \A r \in Requests :
           QueuedAt(c, i, r)' => QueuedAt(c, IF c = b THEN i + 1 ELSE i, r)
      /\ m \in PageMessages
      /\ \A r : m = Message("transaction", {r}) => QueuedAt(b, 1, r)
  BY <1>1, TailQueues
<1> HIDE DEF m
<1>3. QueuedOnce'
  <2>1. ASSUME NEW r \in Requests, NEW c \in Bridges, NEW d \in Bridges, NEW i \in Nat, NEW j \in Nat,
               QueuedAt(c, i, r)', QueuedAt(d, j, r)'
        PROVE  c = d /\ i = j
    <3> DEFINE ii == IF c = b THEN i + 1 ELSE i
               jj == IF d = b THEN j + 1 ELSE j
    <3>1. ii \in Nat /\ jj \in Nat OBVIOUS
    <3>2. QueuedAt(c, ii, r) /\ QueuedAt(d, jj, r) BY <1>2, <2>1
    <3>3. c = d /\ ii = jj BY <3>1, <3>2 DEF QueuedOnce
    <3> QED BY <3>3
  <2> QED BY <2>1 DEF QueuedOnce
<1>4. \A r \in Requests : IsQueued(r)' => IsQueued(r)
  <2>1. ASSUME NEW r \in Requests, NEW c \in Bridges, NEW i \in Nat, QueuedAt(c, i, r)' PROVE IsQueued(r)
    <3>1. QueuedAt(c, IF c = b THEN i + 1 ELSE i, r) BY <1>2, <2>1
    <3>2. (IF c = b THEN i + 1 ELSE i) \in Nat OBVIOUS
    <3> QED BY <3>1, <3>2 DEF IsQueued
  <2> QED BY <2>1 DEF IsQueued
<1>5. page \in [Bridges -> PageRecord] BY PageTyped
<1>6. CASE m.kind = "disconnect"
  <2>1. page' = [page EXCEPT ![b].st = "ended"] /\ UNCHANGED toBridge
    BY <1>6 DEF PageReceives, Finished, m
  <2>2. page' \in [Bridges -> PageRecord] /\ \A c \in Bridges : page'[c].doing = page[c].doing
    BY <1>5, <2>1 DEF PageRecord
  <2>3. \A r \in Requests : IsDone(r)' <=> IsDone(r) BY <2>2 DEF IsDone
  <2>4. QueuedIsNew' BY <1>1, <1>4, <2>3 DEF QueuedIsNew
  <2>5. DoneOnce' BY <2>2 DEF DoneOnce
  <2>6. \A r \in Requests : Harmless(r) => Harmless(r)' BY <1>1, <1>4, <2>3 DEF Harmless
  <2>7. toBridge' \in [Bridges -> Seq(BridgeMessages)] /\ \A c \in Bridges : \A x : InBox(c, x)' <=> InBox(c, x)
    BY <2>1 DEF BrowserTyped, InBox
  <2> QED BY <1>1, <1>2, <1>3, <2>2, <2>4, <2>5, <2>6, <2>7, PageStep
<1>7. CASE m.kind # "disconnect"
  <2>1. PICK r0 \in Requests : m = Message("transaction", {r0}) BY <1>2, <1>7 DEF PageMessages, Message
  <2>2. m.kind = "transaction" /\ m.of = {r0} BY <2>1 DEF Message
  <2>3. QueuedAt(b, 1, r0) BY <1>2, <2>1
  <2>4. IsQueued(r0) BY <2>3 DEF IsQueued
  <2>5. ~IsQueued(r0)'
    <3>1. ASSUME NEW c \in Bridges, NEW i \in Nat, QueuedAt(c, i, r0)' PROVE FALSE
      <4> DEFINE ii == IF c = b THEN i + 1 ELSE i
      <4>1. ii \in Nat OBVIOUS
      <4>2. QueuedAt(c, ii, r0) BY <1>2, <3>1
      <4>3. c = b /\ ii = 1 BY <2>3, <4>1, <4>2 DEF QueuedOnce
      <4>4. i = 0 BY <4>3
      <4>5. i # 0 BY <3>1 DEF QueuedAt
      <4> QED BY <4>4, <4>5
    <3> QED BY <3>1 DEF IsQueued
  <2>6. wallet[r0] = "none" /\ ~IsDone(r0) BY <2>4 DEF QueuedIsNew
  <2>7. CASE ~page[b].busy
    <3>1. page' = [page EXCEPT ![b].busy = TRUE, ![b].doing = {r0}, ![b].seen = @ \cup {r0}] /\ UNCHANGED toBridge
      BY <2>2, <2>7 DEF PageReceives, m
    <3>2. page' \in [Bridges -> PageRecord]
      <4>1. page[b] \in PageRecord BY <1>5
      <4>2. [page[b] EXCEPT !.busy = TRUE, !.doing = {r0}, !.seen = @ \cup {r0}] \in PageRecord
        BY <4>1 DEF PageRecord
      <4>3. page' = [page EXCEPT ![b] = [page[b] EXCEPT !.busy = TRUE, !.doing = {r0}, !.seen = @ \cup {r0}]]
        BY <3>1
      <4> QED BY <1>5, <4>2, <4>3
    <3>3. page'[b].doing = {r0} /\ \A c \in Bridges : c # b => page'[c].doing = page[c].doing
      BY <1>5, <3>1 DEF PageRecord
    <3>4. \A r \in Requests : r # r0 => (IsDone(r)' => IsDone(r)) BY <3>3 DEF IsDone
    <3>5. QueuedIsNew' BY <1>1, <1>4, <2>5, <3>4 DEF QueuedIsNew
    <3>6. DoneOnce'
      <4>1. \A c \in Bridges : page[c].doing # {r0} BY <2>6 DEF IsDone
      <4>2. ASSUME NEW r \in Requests, NEW c \in Bridges, NEW d \in Bridges,
                   page'[c].doing = {r}, page'[d].doing = {r}
            PROVE  c = d
        <5>1. CASE r = r0 BY <3>3, <4>1, <4>2, <5>1
        <5>2. CASE r # r0
          <6>1. c # b /\ d # b BY <3>3, <4>2, <5>2
          <6> QED BY <3>3, <4>2, <6>1 DEF DoneOnce
        <5> QED BY <5>1, <5>2
      <4> QED BY <4>2 DEF DoneOnce
    <3>7. \A r \in Requests : Harmless(r) => Harmless(r)' BY <1>1, <1>4, <2>4, <3>4 DEF Harmless
    <3>8. toBridge' \in [Bridges -> Seq(BridgeMessages)] /\ \A c \in Bridges : \A x : InBox(c, x)' <=> InBox(c, x)
      BY <3>1 DEF BrowserTyped, InBox
    <3> QED BY <1>1, <1>2, <1>3, <3>2, <3>5, <3>6, <3>7, <3>8, PageStep
  <2>8. CASE page[b].busy
    <3>1. page' = [page EXCEPT ![b].seen = @ \cup {r0}] /\ Says(b, "notSubmitted", {r0})
      BY <2>2, <2>8 DEF PageReceives, m
    <3>2. page' \in [Bridges -> PageRecord] /\ \A c \in Bridges : page'[c].doing = page[c].doing
      BY <1>5, <3>1 DEF PageRecord
    <3>3. \A r \in Requests : IsDone(r)' <=> IsDone(r) BY <3>2 DEF IsDone
    <3>4. QueuedIsNew' BY <1>1, <1>4, <3>3 DEF QueuedIsNew
    <3>5. DoneOnce' BY <3>2 DEF DoneOnce
    <3>6. \A r \in Requests : Harmless(r) => Harmless(r)' BY <1>1, <1>4, <3>3 DEF Harmless
    <3>7. Message("notSubmitted", {r0}) \in BridgeMessages BY DEF BridgeMessages
    <3>8. /\ toBridge' \in [Bridges -> Seq(BridgeMessages)]
          /\ \A c \in Bridges : \A x : InBox(c, x)' => InBox(c, x) \/ x = Message("notSubmitted", {r0})
      BY <3>1, <3>7, SaysTyped
    <3>9. \A r : \A k : Message(k, {r}) = Message("notSubmitted", {r0}) => k = "notSubmitted" /\ r = r0
      BY DEF Message
    <3>10. Says1(r0, "notSubmitted")'
      <4>1. Harmless(r0)' BY <1>1, <2>5, <2>6, <3>3 DEF Harmless
      <4>2. r0[1] \in Txs /\ r0[2] \in 1..MaxTries /\ r0 = <<r0[1], r0[2]>> BY DEF Requests
      <4>3. ~Harmless(r0) BY <2>4 DEF Harmless
      <4>4. r0[2] = call[r0[1]].tries BY <4>2, <4>3 DEF Past
      <4>5. r0[2] <= call[r0[1]].tries BY <4>2, <4>4, BridgeAssumption
      <4> QED BY <1>1, <4>1, <4>5 DEF Says1
    <3>11. \A c \in Bridges : \A r \in Requests : \A k \in {"result", "error", "notSubmitted"} :
              InBox(c, Message(k, {r}))' => InBox(c, Message(k, {r})) \/ Says1(r, k)'
      BY <3>8, <3>9, <3>10
    <3> QED BY <1>1, <1>2, <1>3, <3>2, <3>4, <3>5, <3>6, <3>8, <3>11, PageStep
  <2> QED BY <2>7, <2>8
<1> QED BY <1>6, <1>7

\* The wallet is asked for the request that is in work.
LEMMA AskStep == ASSUME BrowserInv, NEW b \in Bridges, NEW r \in Requests, AskWalletPage(b, r) PROVE BrowserInv'
<1> USE DEF BrowserInv
<1>1. /\ page[b].doing = {r} /\ wallet[r] = "none" /\ wallet' = [wallet EXCEPT ![r] = "asked"]
      /\ UNCHANGED <<bridge, page, toPage, toBridge, active, call, submitted>>
  BY DEF AskWalletPage
<1>2. IsDone(r) /\ ~Harmless(r) /\ ~IsQueued(r) BY <1>1 DEF IsDone, Harmless, QueuedIsNew
<1>3. wallet'[r] = "asked" /\ \A q \in Requests : q # r => wallet'[q] = wallet[q]
  BY <1>1 DEF BrowserTyped
<1>4. \A q : (IsQueued(q)' <=> IsQueued(q)) /\ (IsDone(q)' <=> IsDone(q))
  BY <1>1 DEF IsQueued, IsDone, QueuedAt
<1>5. \A q \in Requests : q # r => (Harmless(q)' <=> Harmless(q)) BY <1>3, <1>4 DEF Harmless
<1>6. BrowserTyped' BY <1>1 DEF BrowserTyped
<1>7. QueuedOnce' /\ DoneOnce' BY <1>1 DEF QueuedOnce, DoneOnce, QueuedAt
<1>8. QueuedIsNew' BY <1>2, <1>3, <1>4 DEF QueuedIsNew
<1>9. Past' BY <1>1, <1>2, <1>5 DEF Past, Requests
<1>10. Unasked'
  <2>1. ASSUME NEW t \in Txs, NEW n \in 1..MaxTries, n > call[t].tries PROVE wallet'[<<t, n>>] = "none"
    <3>1. n # call[t].tries BY <2>1, BridgeAssumption DEF BrowserTyped
    <3>2. Harmless(<<t, n>>) BY <3>1 DEF Past
    <3>3. <<t, n>> # r BY <1>2, <3>2
    <3>4. <<t, n>> \in Requests BY DEF Requests
    <3> QED BY <1>3, <2>1, <3>3, <3>4 DEF Unasked
  <2> QED BY <1>1, <2>1 DEF Unasked
<1>11. SentIsSubmitted'
  <2>1. ASSUME NEW t \in Txs, call[t].st = "sent"
        PROVE  call[t].tries \in 1..MaxTries /\ wallet'[<<t, call[t].tries>>] = "submitted"
    <3>1. call[t].tries \in 1..MaxTries /\ wallet[<<t, call[t].tries>>] = "submitted"
      BY <2>1 DEF SentIsSubmitted
    <3>2. <<t, call[t].tries>> # r BY <1>1, <3>1
    <3>3. <<t, call[t].tries>> \in Requests BY <3>1 DEF Requests
    <3> QED BY <1>3, <3>1, <3>2, <3>3
  <2> QED BY <1>1, <2>1 DEF SentIsSubmitted
<1>12. AnswersHold'
  <2>1. \A q \in Requests : Harmless(q) => Harmless(q)' BY <1>2, <1>5
  <2>2. \A q \in Requests : wallet[q] = "submitted" => wallet'[q] = "submitted" BY <1>1, <1>3
  <2>3. \A q \in Requests : \A kind : Says1(q, kind) => Says1(q, kind)' BY <1>1, <2>1, <2>2 DEF Says1
  <2> QED BY <1>1, <2>3 DEF AnswersHold, InBox
<1>13. PendingIsLast' BY <1>1 DEF PendingIsLast
<1>14. Count'
  <2>1. \A q \in Requests : wallet'[q] = "submitted" <=> wallet[q] = "submitted" BY <1>1, <1>3
  <2>2. \A t \in Txs : \A n \in 1..MaxTries : <<t, n>> \in Requests BY DEF Requests
  <2> QED BY <1>1, <2>1, <2>2 DEF Count
<1> QED BY <1>6, <1>7, <1>8, <1>9, <1>10, <1>11, <1>12, <1>13, <1>14

\* A page answers what is true, and is done with the request.
LEMMA AnsweredStep ==
  ASSUME BrowserInv, NEW b \in Bridges, NEW r \in Requests, page[b].doing = {r},
         NEW kind \in {"result", "error", "notSubmitted"}, Answered(b, r, kind),
         kind = "result" => wallet[r] = "submitted",
         kind = "notSubmitted" => wallet[r] \in {"none", "rejected"}
  PROVE  BrowserInv'
<1> USE DEF BrowserInv
<1>1. /\ page' = [page EXCEPT ![b].busy = FALSE, ![b].doing = {}]
      /\ Says(b, kind, {r}) \/ UNCHANGED toBridge
      /\ UNCHANGED <<bridge, toPage, active, selected, call, wallet, submitted>>
  BY Zenon DEF Answered
<1>2. page \in [Bridges -> PageRecord] BY PageTyped
<1>3. page' \in [Bridges -> PageRecord]
  <2> DEFINE x == [page[b] EXCEPT !.busy = FALSE, !.doing = {}]
  <2>1. page[b] \in PageRecord BY <1>2
  <2>2. x \in PageRecord BY <2>1 DEF PageRecord
  <2>3. page' = [page EXCEPT ![b] = x] BY <1>1
  <2> HIDE DEF x
  <2> QED BY <1>2, <2>2, <2>3
<1>4. page'[b].doing = {} /\ \A c \in Bridges : c # b => page'[c].doing = page[c].doing
  BY <1>1, <1>2 DEF PageRecord
<1>5. \A q : (IsQueued(q)' <=> IsQueued(q)) /\ (IsDone(q)' => IsDone(q))
  BY <1>1, <1>4 DEF IsQueued, IsDone, QueuedAt
<1>6. QueuedOnce' BY <1>1 DEF QueuedOnce, QueuedAt
<1>7. QueuedIsNew' BY <1>1, <1>5 DEF QueuedIsNew
<1>8. DoneOnce'
  <2>1. ASSUME NEW q \in Requests, NEW c \in Bridges, NEW d \in Bridges,
               page'[c].doing = {q}, page'[d].doing = {q}
        PROVE  c = d
    BY <1>4, <2>1 DEF DoneOnce
  <2> QED BY <2>1 DEF DoneOnce
<1>9. \A q \in Requests : Harmless(q) => Harmless(q)' BY <1>1, <1>5 DEF Harmless
<1>10. IsDone(r) /\ ~IsQueued(r) /\ ~Harmless(r) BY DEF IsDone, QueuedIsNew, Harmless
<1>11. Says1(r, kind)'
  <2>1. r[1] \in Txs /\ r[2] \in 1..MaxTries /\ r = <<r[1], r[2]>> BY DEF Requests
  <2>2. r[2] = call[r[1]].tries BY <1>10, <2>1 DEF Past
  <2>3. r[2] <= call[r[1]].tries BY <2>1, <2>2, BridgeAssumption
  <2>4. ~IsDone(r)'
    <3>1. ASSUME NEW c \in Bridges, page'[c].doing = {r} PROVE FALSE
      <4>1. c # b BY <1>4, <3>1
      <4> QED BY <1>4, <3>1, <4>1 DEF DoneOnce
    <3> QED BY <3>1 DEF IsDone
  <2>5. kind = "notSubmitted" => Harmless(r)' BY <1>1, <1>5, <1>10, <2>4 DEF Harmless
  <2> QED BY <1>1, <2>3, <2>5 DEF Says1
<1>12. toPage' \in [Bridges -> Seq(PageMessages)] BY <1>1 DEF BrowserTyped
<1>13. Message(kind, {r}) \in BridgeMessages BY DEF BridgeMessages
<1>14. /\ toBridge' \in [Bridges -> Seq(BridgeMessages)]
       /\ \A c \in Bridges : \A x : InBox(c, x)' => InBox(c, x) \/ x = Message(kind, {r})
  <2>1. CASE Says(b, kind, {r}) BY <1>13, <2>1, SaysTyped
  <2>2. CASE UNCHANGED toBridge BY <2>2 DEF BrowserTyped, InBox
  <2> QED BY <1>1, <2>1, <2>2
<1>15. \A q : \A k : Message(k, {q}) = Message(kind, {r}) => k = kind /\ q = r BY DEF Message
<1>16. \A c \in Bridges : \A q \in Requests : \A k \in {"result", "error", "notSubmitted"} :
         InBox(c, Message(k, {q}))' => InBox(c, Message(k, {q})) \/ Says1(q, k)'
  BY <1>11, <1>14, <1>15
<1> QED BY <1>1, <1>3, <1>6, <1>7, <1>8, <1>9, <1>12, <1>14, <1>16, PageStep

LEMMA RepliesStep ==
  ASSUME BrowserInv, NEW b \in Bridges, NEW r \in Requests, PreflightFails(b, r) \/ WalletReplies(b, r)
  PROVE  BrowserInv'
<1>1. CASE PreflightFails(b, r)
  <2>1. page[b].doing = {r} /\ wallet[r] = "none" /\ Answered(b, r, "notSubmitted")
    BY <1>1 DEF PreflightFails
  <2> QED BY <2>1, AnsweredStep
<1>2. CASE WalletReplies(b, r)
  <2>1. page[b].doing = {r} BY <1>2 DEF WalletReplies
  <2>2. CASE wallet[r] \in {"submitted", "rejected", "failed"} /\ Answered(b, r, Verdict(wallet[r]))
    <3>1. CASE wallet[r] = "submitted" 
      <4>1. Verdict(wallet[r]) = "result" BY <3>1 DEF Verdict
      <4> QED BY <2>1, <2>2, <3>1, <4>1, AnsweredStep
    <3>2. CASE wallet[r] = "rejected"
      <4>1. Verdict(wallet[r]) = "notSubmitted" BY <3>2 DEF Verdict
      <4> QED BY <2>1, <2>2, <3>2, <4>1, AnsweredStep
    <3>3. CASE wallet[r] = "failed"
      <4>1. Verdict(wallet[r]) = "error" BY <3>3 DEF Verdict
      <4> QED BY <2>1, <2>2, <4>1, AnsweredStep
    <3> QED BY <2>2, <3>1, <3>2, <3>3
  <2>3. CASE wallet[r] \in {"asked", "submitted"} /\ Answered(b, r, Verdict("failed"))
    <3>1. Verdict("failed") = "error" BY DEF Verdict
    <3> QED BY <2>1, <2>3, <3>1, AnsweredStep
  <2> QED BY <1>2, <2>2, <2>3 DEF WalletReplies
<1> QED BY <1>1, <1>2

\* The wallet submits what it was asked for, once, or does not.
LEMMA DecidesStep == ASSUME BrowserInv, NEW r \in Requests, WalletDecides(r) PROVE BrowserInv'
<1> USE DEF BrowserInv
<1>1. wallet[r] = "asked" /\ UNCHANGED <<bridge, page, toPage, toBridge, active, call>>
  BY DEF WalletDecides
<1>2. PICK outcome \in {"submitted", "rejected", "failed"} :
        /\ wallet' = [wallet EXCEPT ![r] = outcome]
        /\ submitted' = IF outcome = "submitted" THEN [submitted EXCEPT ![r[1]] = @ + 1] ELSE submitted
  BY DEF WalletDecides
<1>3. wallet'[r] = outcome /\ \A q \in Requests : q # r => wallet'[q] = wallet[q]
  BY <1>2 DEF BrowserTyped
<1>4. \A q : (IsQueued(q)' <=> IsQueued(q)) /\ (IsDone(q)' <=> IsDone(q))
  BY <1>1 DEF IsQueued, IsDone, QueuedAt
<1>5. ~Harmless(r) /\ ~IsQueued(r) BY <1>1 DEF Harmless, QueuedIsNew
<1>6. \A q \in Requests : q # r => (Harmless(q)' <=> Harmless(q)) BY <1>3, <1>4 DEF Harmless
<1>7. r[1] \in Txs /\ r[2] \in 1..MaxTries /\ r = <<r[1], r[2]>> BY DEF Requests
<1>8. \A t \in Txs : \A n \in 1..MaxTries : <<t, n>> \in Requests BY DEF Requests
<1>9. BrowserTyped' BY <1>1, <1>2 DEF BrowserTyped
<1>10. QueuedOnce' /\ DoneOnce' BY <1>1 DEF QueuedOnce, DoneOnce, QueuedAt
<1>11. QueuedIsNew' BY <1>3, <1>4, <1>5 DEF QueuedIsNew
<1>12. Past' BY <1>1, <1>5, <1>6, <1>8 DEF Past
<1>13. Unasked'
  <2>1. ASSUME NEW t \in Txs, NEW n \in 1..MaxTries, n > call[t].tries PROVE wallet'[<<t, n>>] = "none"
    <3>1. wallet[<<t, n>>] = "none" BY <2>1 DEF Unasked
    <3> QED BY <1>1, <1>3, <1>8, <3>1
  <2> QED BY <1>1, <2>1 DEF Unasked
<1>14. SentIsSubmitted'
  <2>1. ASSUME NEW t \in Txs, call[t].st = "sent"
        PROVE  call[t].tries \in 1..MaxTries /\ wallet'[<<t, call[t].tries>>] = "submitted"
    <3>1. call[t].tries \in 1..MaxTries /\ wallet[<<t, call[t].tries>>] = "submitted"
      BY <2>1 DEF SentIsSubmitted
    <3> QED BY <1>1, <1>3, <1>8, <3>1
  <2> QED BY <1>1, <2>1 DEF SentIsSubmitted
<1>15. AnswersHold'
  <2>1. \A q \in Requests : Harmless(q) => Harmless(q)' BY <1>5, <1>6
  <2>2. \A q \in Requests : wallet[q] = "submitted" => wallet'[q] = "submitted" BY <1>1, <1>3
  <2>3. \A q \in Requests : \A kind : Says1(q, kind) => Says1(q, kind)' BY <1>1, <2>1, <2>2 DEF Says1
  <2> QED BY <1>1, <2>3 DEF AnswersHold, InBox
<1>16. PendingIsLast' BY <1>1 DEF PendingIsLast
<1>17. Count'
  <2>1. CASE outcome # "submitted"
    <3>1. \A q \in Requests : wallet'[q] = "submitted" <=> wallet[q] = "submitted" BY <1>1, <1>3, <2>1
    <3> QED BY <1>2, <1>8, <2>1, <3>1 DEF Count
  <2>2. CASE outcome = "submitted"
    <3>1. \A n \in 1..MaxTries : wallet[<<r[1], n>>] # "submitted"
      <4>1. ASSUME NEW n \in 1..MaxTries PROVE wallet[<<r[1], n>>] # "submitted"
        <5>1. CASE n = r[2] BY <1>1, <1>7, <5>1
        <5>2. CASE n # r[2]
          <6>1. r[2] = call[r[1]].tries BY <1>5, <1>7 DEF Past
          <6>2. Harmless(<<r[1], n>>) BY <1>7, <5>2, <6>1 DEF Past
          <6> QED BY <6>2 DEF Harmless
        <5> QED BY <5>1, <5>2
      <4> QED BY <4>1
    <3>2. submitted[r[1]] = 0 BY <1>7, <3>1 DEF Count
    <3>3. \E n \in 1..MaxTries : wallet'[<<r[1], n>>] = "submitted" BY <1>3, <1>7, <2>2
    <3>4. \A t \in Txs : t # r[1] => \A n \in 1..MaxTries : wallet'[<<t, n>>] = wallet[<<t, n>>]
      <4>1. ASSUME NEW t \in Txs, t # r[1], NEW n \in 1..MaxTries PROVE <<t, n>> # r BY <4>1
      <4> QED BY <1>3, <1>8, <4>1
    <3>5. submitted' = [submitted EXCEPT ![r[1]] = 1] BY <1>2, <2>2, <3>2
    <3> DEFINE F(t) == IF \E n \in 1..MaxTries : wallet[<<t, n>>] = "submitted" THEN 1 ELSE 0
               G(t) == IF \E n \in 1..MaxTries : wallet'[<<t, n>>] = "submitted" THEN 1 ELSE 0
    <3>6. submitted = [t \in Txs |-> F(t)] BY DEF Count
    <3>7. \A t \in Txs : t # r[1] => G(t) = F(t) BY <3>4
    <3>8. G(r[1]) = 1 BY <3>3
    <3> HIDE DEF F, G
    <3>9. submitted' = [t \in Txs |-> G(t)] BY <3>5, <3>6, <3>7, <3>8
    <3> QED BY <3>9 DEF Count, G
  <2> QED BY <2>1, <2>2
<1> QED BY <1>9, <1>10, <1>11, <1>12, <1>13, <1>14, <1>15, <1>16, <1>17

\* Every step of the part keeps the invariant.
LEMMA BrowserStep == BrowserInv /\ [BridgeNext]_bridgeVars => BrowserInv'
<1> SUFFICES ASSUME BrowserInv, [BridgeNext]_bridgeVars PROVE BrowserInv' OBVIOUS
<1>1. CASE UNCHANGED bridgeVars
  <2>1. UNCHANGED <<bridge, page, toPage, toBridge, active, call, wallet, submitted>> BY <1>1 DEF bridgeVars
  <2>2. \A r : Harmless(r)' <=> Harmless(r) BY <2>1 DEF Harmless, IsDone, IsQueued, QueuedAt
  <2>3. QueuedOnce' /\ QueuedIsNew' /\ DoneOnce'
    BY <2>1 DEF BrowserInv, QueuedOnce, QueuedIsNew, DoneOnce, IsDone, IsQueued, QueuedAt
  <2>4. page' \in [Bridges -> PageRecord] /\ toPage' \in [Bridges -> Seq(PageMessages)]
        /\ toBridge' \in [Bridges -> Seq(BridgeMessages)]
    BY <2>1 DEF BrowserInv, BrowserTyped, PageRecord
  <2>5. \A b \in Bridges : \A x : InBox(b, x)' <=> InBox(b, x) BY <2>1 DEF InBox
  <2> QED BY <2>1, <2>2, <2>3, <2>4, <2>5, PageStep
<1>2. ASSUME NEW t \in Txs, SendOnBridge(t) \/ ConnectBridge(t) \/ SendConnected(t) PROVE BrowserInv'
  BY <1>2, SendStep, ConnectStep, ConnectedStep
<1>3. ASSUME NEW b \in Bridges, StopBridge(b) PROVE BrowserInv'
  <2>1. Stopped({b}) /\ UNCHANGED <<page, active, wallet, submitted>> /\ {b} \in SUBSET Bridges
    BY <1>3 DEF StopBridge
  <2> QED BY <2>1, StoppedStep DEF BrowserInv, BrowserTyped
<1>4. CASE SelectOther
  <2>1. PICK S \in SUBSET Bridges : Stopped(S) /\ UNCHANGED <<page, active, wallet, submitted>>
    BY <1>4 DEF SelectOther
  <2> QED BY <2>1, StoppedStep DEF BrowserInv, BrowserTyped
<1>5. ASSUME NEW b \in Bridges,
             \/ ServerReceives(b) \/ PageReceives(b)
             \/ OpenPage(b) \/ PageConnects(b) \/ PageDetaches(b) \/ CloseTab(b)
      PROVE  BrowserInv'
  BY <1>5, ReceivedStep, PageReceivesStep, QuietPageSteps
<1>6. ASSUME NEW b \in Bridges, NEW r \in Requests, AskWalletPage(b, r) \/ PreflightFails(b, r) \/ WalletReplies(b, r)
      PROVE  BrowserInv'
  BY <1>6, AskStep, RepliesStep
<1>7. ASSUME NEW r \in Requests, WalletDecides(r) PROVE BrowserInv' BY <1>7, DecidesStep
<1> QED BY <1>1, <1>2, <1>3, <1>4, <1>5, <1>6, <1>7 DEF BridgeNext

\* In every behaviour of the composition, with any number of bridges, calls and tries, no
\* transaction is submitted twice by the browser wallet, and what a call is told of it is true:
\* a hash only for what was submitted, "not submitted" only for what was not
\* (browser-wallet.ts).
THEOREM BrowserSubmitsOnce == InfraSpec => []BrowserHolds
<1> DEFINE Inv == running = "browser" => BrowserInv
<1>1. InfraInit => Inv BY BrowserInit DEF InfraInit
<1>2. Inv /\ [InfraNext]_infraVars => Inv'
  <2> SUFFICES ASSUME Inv, [InfraNext]_infraVars, running' = "browser" PROVE BrowserInv' OBVIOUS
  <2>1. running = "browser" /\ [BridgeNext]_bridgeVars
    BY DEF InfraNext, Only, infraVars
  <2> QED BY <2>1, BrowserStep
<1>3. Inv => BrowserHolds BY BrowserCounts DEF BrowserHolds
<1> QED BY <1>1, <1>2, <1>3, PTL DEF InfraSpec
-----------------------------------------------------------------------------
(***************************************************************************)
(* prices.ts: no rate that a call answers with is older than its time to   *)
(* live and the time of one read, though rates come from a cache that is   *)
(* filled by other calls, cleared in between, and in batches that come     *)
(* back in any order.  The invariant says of a call under way that what it *)
(* still misses is in a batch that is not back.                            *)
(***************************************************************************)

\* The quotient of two naturals
LEMMA Divides ==
  ASSUME NEW b \in Nat \ {0}, NEW x \in Nat
  PROVE  x \div b \in Nat /\ (x \div b) * b <= x /\ x < (x \div b + 1) * b
<1>1. x = b * (x \div b) + (x % b) /\ x % b \in 0..(b - 1) BY SMTT(30)
<1>2. x \div b \in Int BY SMTT(30)
<1> QED BY <1>1, <1>2, SMTT(30)

\* The batches of a list hold all of it.
LEMMA ChunksHoldAll ==
  ASSUME NEW S, NEW s \in Seq(S)
  PROVE  /\ \A b \in Chunks(s) : b \in Seq(S)
         /\ \A i \in 1..Len(s) : \E b \in Chunks(s) : s[i] \in ToSet(b)
<1> DEFINE Lo(j) == j * BatchSize + 1
           Hi(j) == Min({Len(s), (j + 1) * BatchSize})
           Final == (Len(s) + BatchSize - 1) \div BatchSize - 1
<1>1. Len(s) \in Nat /\ BatchSize \in Nat \ {0} BY PricesAssumption
<1>2. \A x, y \in Nat : /\ Min({x, y}) = IF x <= y THEN x ELSE y
  BY DEF Min
<1>3. ASSUME NEW j \in Nat
      PROVE  /\ Lo(j) \in Nat \ {0} /\ Hi(j) \in Nat /\ Hi(j) <= Len(s)
             /\ SubSeq(s, Lo(j), Hi(j)) \in Seq(S)
             /\ \A i \in Lo(j)..Hi(j) : s[i] \in ToSet(SubSeq(s, Lo(j), Hi(j)))
  <2>1. j * BatchSize \in Nat /\ (j + 1) * BatchSize \in Nat BY <1>1
  <2>2. Lo(j) \in Nat \ {0} /\ Hi(j) \in Nat /\ Hi(j) <= Len(s) BY <1>1, <1>2, <2>1
  <2> HIDE DEF Lo, Hi
  <2>3. \A i \in Lo(j)..Hi(j) : s[i] \in S BY <1>1, <2>2
  <2> DEFINE m == Lo(j)
             n == Hi(j)
             q == SubSeq(s, m, n)
  <2>4. m \in Int /\ n \in Int BY <2>2
  <2> HIDE DEF m, n
  <2>5. /\ q \in Seq(S) /\ Len(q) = (IF m <= n THEN n - m + 1 ELSE 0)
        /\ \A i \in 1..(n - m + 1) : q[i] = s[m + i - 1]
    BY <2>3, <2>4, SubSeqProperties DEF m, n
  <2>6. ASSUME NEW i \in m..n PROVE s[i] \in ToSet(q)
    <3>1. i - m + 1 \in 1..(n - m + 1) /\ m + (i - m + 1) - 1 = i BY <2>4
    <3>2. q[i - m + 1] = s[i] BY <2>5, <3>1
    <3>3. i - m + 1 \in 1..Len(q) BY <2>4, <2>5
    <3>4. DOMAIN q = 1..Len(q) BY <2>5
    <3> HIDE DEF q
    <3> QED BY <3>2, <3>3, <3>4 DEF ToSet
  <2> QED BY <2>2, <2>5, <2>6 DEF m, n
<1>4. Chunks(s) = {SubSeq(s, Lo(j), Hi(j)) : j \in 0..Final} BY DEF Chunks
<1>5. ASSUME NEW i \in 1..Len(s)
      PROVE  \E j \in 0..Final : i \in Lo(j)..Hi(j)
  <2> DEFINE j == (i - 1) \div BatchSize
             k == (Len(s) + BatchSize - 1) \div BatchSize
  <2>1. j \in Nat /\ j * BatchSize <= i - 1 /\ i - 1 < (j + 1) * BatchSize BY <1>1, Divides
  <2>2. k \in Nat /\ Len(s) + BatchSize - 1 < (k + 1) * BatchSize
    <3>1. Len(s) + BatchSize - 1 \in Nat BY <1>1
    <3> QED BY <1>1, <3>1, Divides
  <2>3. Final = k - 1 OBVIOUS
  <2> HIDE DEF j, k, Final
  <2>4. j < k
    <3>1. SUFFICES ASSUME j >= k PROVE FALSE BY <2>1, <2>2
    <3>2. j * BatchSize >= k * BatchSize BY <1>1, <2>1, <2>2, <3>1
    <3>3. (k + 1) * BatchSize = k * BatchSize + BatchSize BY <1>1, <2>2
    <3>4. k * BatchSize \in Nat /\ j * BatchSize \in Nat BY <1>1, <2>1, <2>2
    <3> QED BY <1>1, <2>1, <2>2, <3>2, <3>3, <3>4
  <2>5. j \in 0..Final BY <2>1, <2>2, <2>3, <2>4
  <2>6. Lo(j) <= i /\ i <= Hi(j)
    <3>1. j * BatchSize \in Nat /\ (j + 1) * BatchSize \in Nat BY <1>1, <2>1
    <3> QED BY <1>1, <1>2, <2>1, <3>1
  <2>7. i \in Lo(j)..Hi(j) BY <1>1, <1>3, <2>1, <2>6
  <2> QED BY <2>5, <2>7
<1> HIDE DEF Lo, Hi
<1>6. 0..Final \subseteq Nat BY DEF Final
<1> HIDE DEF Final
<1>7. \A b \in Chunks(s) : b \in Seq(S) BY <1>3, <1>4, <1>6
<1>8. ASSUME NEW i \in 1..Len(s) PROVE \E b \in Chunks(s) : s[i] \in ToSet(b)
  <2>1. PICK j \in 0..Final : i \in Lo(j)..Hi(j) BY <1>5
  <2>2. s[i] \in ToSet(SubSeq(s, Lo(j), Hi(j))) BY <1>3, <1>6, <2>1
  <2> QED BY <1>4, <2>2
<1> QED BY <1>7, <1>8

\* A call with all its fields
Whole(request) ==
  request = [step |-> request.step, asked |-> request.asked, since |-> request.since,
             stale |-> request.stale, batches |-> request.batches, rates |-> request.rates]
RateRecord == [of : Tokens, at : Nat, known : BOOLEAN]
\* The variables hold values of the code.
PricesTyped ==
  /\ tokenTime \in Nat /\ Whole(pricing)
  /\ rateCache \in [Tokens -> [rate : RateRecord \cup {NoRate}, expires : Nat]]
\* A cached rate is its token's, and expires no later than its time to live and
\* the time of one read after it was read.
CacheIsFresh ==
  \A t \in Tokens : rateCache[t].rate # NoRate =>
    /\ rateCache[t].rate \in RateRecord /\ rateCache[t].rate.of = t
    /\ rateCache[t].expires <= rateCache[t].rate.at + RateTimeout + ReadTime
\* What a call has so far: rates of their tokens, fresh when the call began.
HasFresh(request) ==
  /\ request.since \in Nat
  /\ \A t \in DOMAIN request.rates :
       /\ t \in Tokens /\ request.rates[t] \in RateRecord /\ request.rates[t].of = t
       /\ request.since < request.rates[t].at + RateTimeout + ReadTime
\* A call that reads has or awaits every stale rate, and its timer runs.
Reads(request) ==
  /\ request.stale \subseteq Tokens /\ \A b \in request.batches : b \in Seq(Tokens)
  /\ \A t \in request.stale :
       \/ t \in DOMAIN request.rates /\ request.rates[t].at >= request.since
       \/ \E b \in request.batches : t \in ToSet(b)
\* The timer of a read
InTime == pricing.since <= tokenTime /\ tokenTime <= pricing.since + ReadTime
CallIsFresh == pricing.step \in {"reading", "answered"} => HasFresh(pricing)
CallReads == pricing.step = "reading" => Reads(pricing) /\ InTime

\* The inductive invariant of the rates
PricesInv == PricesTyped /\ CacheIsFresh /\ CallIsFresh /\ CallReads

LEMMA PricesStart == PricesInit => PricesInv
<1> SUFFICES ASSUME PricesInit PROVE PricesInv OBVIOUS
<1>1. tokenTime = 0 /\ \A t \in Tokens : rateCache[t].rate = NoRate BY DEF PricesInit
<1>2. rateCache \in [Tokens -> [rate : RateRecord \cup {NoRate}, expires : Nat]] BY DEF PricesInit
<1>3. pricing.step = "idle" /\ Whole(pricing) BY DEF PricesInit, NoPricing, Whole
<1> QED BY <1>1, <1>2, <1>3 DEF PricesInv, PricesTyped, CacheIsFresh, CallIsFresh, CallReads

\* The invariant implies what the run checks.
LEMMA PricesAreFresh == PricesInv => RatesAreFresh
BY DEF PricesInv, CallIsFresh, HasFresh, RatesAreFresh

\* What is answered has the rates and the begin of the call.
LEMMA AnsweredKeeps ==
  ASSUME NEW request, HasFresh(request), pricing' = PriceAnswered(request), Whole(request)
  PROVE  CallIsFresh' /\ pricing'.step # "reading" /\ Whole(pricing)'
<1>1. CASE pricing' = [NoPricing EXCEPT !.step = "failed"]
  <2>1. pricing'.step = "failed" /\ Whole(pricing)' BY <1>1 DEF NoPricing, Whole
  <2> QED BY <2>1 DEF CallIsFresh
<1>2. CASE pricing' = [request EXCEPT !.step = "answered", !.asked = Priced(request)]
  <2> DEFINE priced == Priced(request)
  <2> HIDE DEF priced
  <2>1. pricing' = [request EXCEPT !.step = "answered", !.asked = priced] BY <1>2 DEF priced
  <2>2. pricing'.step = "answered" /\ pricing'.since = request.since /\ pricing'.rates = request.rates
        /\ Whole(pricing)'
    BY <2>1 DEF Whole
  <2> QED BY <2>2 DEF CallIsFresh, HasFresh
<1> QED BY <1>1, <1>2 DEF PriceAnswered

\* getPrices takes what is cached, and has the rest in its batches.
LEMMA AskStepsFresh == ASSUME PricesInv, NEW wanted \in SUBSET Tokens, AskPrices(wanted) PROVE PricesInv'
<1> USE DEF PricesInv
<1> DEFINE request == PriceRequest(wanted)
           cached == {t \in request : StillCached(t)}
           missing == request \ cached
           batches == Chunks(SetToSeq(missing))
           rates == [t \in cached |-> rateCache[t].rate]
           new == [step |-> "reading", asked |-> wanted, since |-> tokenTime, stale |-> missing,
                   batches |-> batches, rates |-> rates]
<1>1. pricing' = (IF batches = {} THEN PriceAnswered(new) ELSE new) /\ UNCHANGED <<tokenTime, rateCache>>
  BY DEF AskPrices, marketVars
<1>2. CacheIsFresh' /\ (Whole(pricing)' => PricesTyped') BY <1>1 DEF PricesTyped, CacheIsFresh
<1>3. request \subseteq Tokens BY PricesAssumption DEF PriceRequest
<1>4. /\ new.since = tokenTime /\ new.stale = missing /\ new.batches = batches /\ new.rates = rates
      /\ new.step = "reading"
      /\ Whole(new)
  BY DEF Whole
<1>5. HasFresh(new)
  <2>1. ASSUME NEW t \in DOMAIN rates
        PROVE  /\ t \in Tokens /\ rates[t] \in RateRecord /\ rates[t].of = t
               /\ tokenTime < rates[t].at + RateTimeout + ReadTime
    <3>1. t \in Tokens /\ StillCached(t) /\ rates[t] = rateCache[t].rate BY <1>3
    <3>2. rateCache[t].rate # NoRate /\ rateCache[t].expires > tokenTime BY <3>1 DEF StillCached
    <3>3. rateCache[t].rate \in RateRecord /\ rateCache[t].rate.of = t
          /\ rateCache[t].expires <= rateCache[t].rate.at + RateTimeout + ReadTime
      BY <3>1, <3>2 DEF CacheIsFresh
    <3>4. rateCache[t].expires \in Nat /\ rateCache[t].rate.at \in Nat
      BY <3>1, <3>3 DEF PricesTyped, RateRecord
    <3> HIDE DEF rates
    <3> QED BY <3>1, <3>2, <3>3, <3>4, PricesAssumption DEF PricesTyped
  <2> HIDE DEF new, rates
  <2> QED BY <1>4, <2>1 DEF HasFresh, PricesTyped
<1>6. Reads(new)
  <2>1. IsFiniteSet(missing) /\ missing \subseteq Tokens
    <3>1. missing \in SUBSET Tokens BY <1>3
    <3> HIDE DEF missing
    <3> QED BY <3>1, PricesAssumption, FS_Subset
  <2> DEFINE s == SetToSeq(missing)
  <2>2. s \in Seq(missing) /\ \A x \in missing : \E i \in 1..Len(s) : s[i] = x
    <3> HIDE DEF missing
    <3> QED BY <2>1, ListsAll
  <2>3. batches = Chunks(s) OBVIOUS
  <2> HIDE DEF s, missing, batches
  <2>4. /\ \A b \in Chunks(s) : b \in Seq(missing)
        /\ \A i \in 1..Len(s) : \E b \in Chunks(s) : s[i] \in ToSet(b)
    BY <2>2, ChunksHoldAll
  <2>5. \A t \in missing : \E b \in batches : t \in ToSet(b) BY <2>2, <2>3, <2>4
  <2>6. \A b \in batches : b \in Seq(Tokens)
    <3>1. \A b \in Seq(missing) : b \in Seq(Tokens) BY <2>1
    <3> QED BY <2>3, <2>4, <3>1
  <2> HIDE DEF new
  <2> QED BY <1>4, <2>1, <2>5, <2>6 DEF Reads
<1> HIDE DEF new, batches
<1>7. CASE batches = {}
  <2>1. pricing' = PriceAnswered(new) BY <1>1, <1>7
  <2> QED BY <1>2, <1>4, <1>5, <2>1, AnsweredKeeps DEF CallReads
<1>8. CASE batches # {}
  <2>1. pricing' = new BY <1>1, <1>8
  <2>2. CallIsFresh' /\ Whole(pricing)' BY <1>4, <1>5, <2>1 DEF CallIsFresh, HasFresh, Whole
  <2>3. InTime' BY <1>1, <1>4, <2>1, PricesAssumption DEF InTime, PricesTyped
  <2>4. CallReads' BY <1>6, <2>1, <2>3 DEF CallReads, Reads
  <2> QED BY <1>2, <2>2, <2>4
<1> QED BY <1>7, <1>8

\* A batch that comes back makes fresh what it holds.
LEMMA BatchStepsFresh == ASSUME PricesInv, ReadBatch PROVE PricesInv'
<1> USE DEF PricesInv
<1>1. PICK batch \in pricing.batches, unknown \in SUBSET Tokens :
        LET new == [t \in ToSet(batch) |-> [of |-> t, at |-> tokenTime, known |-> t \notin unknown]] IN
        pricing' = [pricing EXCEPT !.batches = @ \ {batch},
                      !.rates = [t \in DOMAIN @ \cup ToSet(batch) |->
                                   IF t \in ToSet(batch) THEN new[t] ELSE @[t]]]
  BY DEF ReadBatch
<1>2. pricing.step = "reading" /\ UNCHANGED <<tokenTime, rateCache>> BY DEF ReadBatch, marketVars
<1>3. HasFresh(pricing) /\ Reads(pricing) /\ InTime BY <1>2 DEF CallIsFresh, CallReads
<1> DEFINE new == [t \in ToSet(batch) |-> [of |-> t, at |-> tokenTime, known |-> t \notin unknown]]
           rates == [t \in DOMAIN pricing.rates \cup ToSet(batch) |->
                       IF t \in ToSet(batch) THEN new[t] ELSE pricing.rates[t]]
           batches == pricing.batches \ {batch}
<1>4. pricing' = [pricing EXCEPT !.batches = batches, !.rates = rates] BY <1>1
<1>5. ToSet(batch) \subseteq Tokens
  <2>1. batch \in Seq(Tokens) BY <1>3 DEF Reads
  <2> QED BY <2>1 DEF ToSet
<1>6. /\ DOMAIN rates = DOMAIN pricing.rates \cup ToSet(batch)
      /\ \A t \in ToSet(batch) : rates[t] = [of |-> t, at |-> tokenTime, known |-> t \notin unknown]
      /\ \A t \in DOMAIN pricing.rates \ ToSet(batch) : rates[t] = pricing.rates[t]
  OBVIOUS
<1> HIDE DEF rates, batches
<1>7. /\ Whole(pricing)' /\ pricing'.step = "reading" /\ pricing'.since = pricing.since
      /\ pricing'.stale = pricing.stale /\ pricing'.batches = batches /\ pricing'.rates = rates
  BY <1>2, <1>4 DEF PricesTyped, Whole
<1>8. PricesTyped' /\ CacheIsFresh' BY <1>2, <1>7 DEF PricesTyped, CacheIsFresh
<1>9. ASSUME NEW t \in ToSet(batch)
      PROVE  t \in Tokens /\ rates[t] \in RateRecord /\ rates[t].of = t /\ rates[t].at = tokenTime
  <2> DEFINE isKnown == t \notin unknown
  <2>1. isKnown \in BOOLEAN OBVIOUS
  <2>2. rates[t] = [of |-> t, at |-> tokenTime, known |-> isKnown] BY <1>6
  <2> HIDE DEF isKnown
  <2> QED BY <1>5, <2>1, <2>2 DEF RateRecord, PricesTyped
<1>10. CallIsFresh'
  <2>1. pricing.since < tokenTime + RateTimeout + ReadTime
    BY <1>3, PricesAssumption DEF InTime, PricesTyped, HasFresh
  <2>2. ASSUME NEW t \in DOMAIN rates
        PROVE  /\ t \in Tokens /\ rates[t] \in RateRecord /\ rates[t].of = t
               /\ pricing.since < rates[t].at + RateTimeout + ReadTime
    <3>1. CASE t \in ToSet(batch) BY <1>9, <2>1, <3>1
    <3>2. CASE t \notin ToSet(batch) BY <1>3, <1>6, <3>2 DEF HasFresh
    <3> QED BY <3>1, <3>2
  <2>3. HasFresh(pricing)' BY <1>3, <1>7, <2>2 DEF HasFresh
  <2> QED BY <2>3 DEF CallIsFresh
<1>11. CallReads'
  <2>1. ASSUME NEW t \in pricing.stale
        PROVE  \/ t \in DOMAIN rates /\ rates[t].at >= pricing.since
               \/ \E b \in batches : t \in ToSet(b)
    <3>1. CASE t \in ToSet(batch)
      BY <1>3, <1>6, <1>9, <3>1 DEF InTime, PricesTyped, HasFresh
    <3>2. CASE t \notin ToSet(batch) BY <1>3, <1>6, <3>2 DEF Reads, batches
    <3> QED BY <3>1, <3>2
  <2>2. Reads(pricing)' BY <1>3, <1>7, <2>1 DEF Reads, batches
  <2>3. InTime' BY <1>2, <1>3, <1>7 DEF InTime
  <2> QED BY <2>2, <2>3 DEF CallReads
<1> QED BY <1>8, <1>10, <1>11

\* All stale rates are there: none is older than the read that ends.
LEMMA StoreStepsFresh == ASSUME PricesInv, StorePrices PROVE PricesInv'
<1> USE DEF PricesInv
<1>1. /\ pricing.step = "reading" /\ pricing.batches = {} /\ UNCHANGED tokenTime
      /\ rateCache' = [t \in Tokens |->
           IF t \in pricing.stale THEN [rate |-> pricing.rates[t], expires |-> tokenTime + RateTimeout]
           ELSE rateCache[t]]
      /\ pricing' = PriceAnswered(pricing)
  BY DEF StorePrices, marketVars
<1>2. HasFresh(pricing) /\ Reads(pricing) /\ InTime BY <1>1 DEF CallIsFresh, CallReads
<1>3. CallIsFresh' /\ pricing'.step # "reading" /\ Whole(pricing)'
  BY <1>1, <1>2, AnsweredKeeps DEF PricesTyped
<1>4. ASSUME NEW t \in pricing.stale
      PROVE  /\ pricing.rates[t] \in RateRecord /\ pricing.rates[t].of = t
             /\ tokenTime + RateTimeout \in Nat
             /\ tokenTime + RateTimeout <= pricing.rates[t].at + RateTimeout + ReadTime
  <2>1. t \in DOMAIN pricing.rates /\ pricing.rates[t].at >= pricing.since BY <1>1, <1>2 DEF Reads
  <2>2. pricing.rates[t] \in RateRecord /\ pricing.rates[t].of = t BY <1>2, <2>1 DEF HasFresh
  <2> QED BY <1>2, <2>1, <2>2, PricesAssumption DEF InTime, RateRecord, PricesTyped, HasFresh
<1>5. PricesTyped' BY <1>1, <1>3, <1>4 DEF PricesTyped
<1>6. CacheIsFresh'
  <2>1. ASSUME NEW t \in Tokens, rateCache'[t].rate # NoRate
        PROVE  /\ rateCache'[t].rate \in RateRecord /\ rateCache'[t].rate.of = t
               /\ rateCache'[t].expires <= rateCache'[t].rate.at + RateTimeout + ReadTime
    <3>1. CASE t \in pricing.stale BY <1>1, <1>4, <3>1
    <3>2. CASE t \notin pricing.stale
      <4>1. rateCache'[t] = rateCache[t] BY <1>1, <3>2
      <4> QED BY <2>1, <4>1 DEF CacheIsFresh
    <3> QED BY <3>1, <3>2
  <2> QED BY <2>1 DEF CacheIsFresh
<1> QED BY <1>3, <1>5, <1>6 DEF CallReads

\* Every step of the part keeps the invariant.
LEMMA PricesStep == ASSUME PricesInv, [PricesNext]_priceVars PROVE PricesInv'
<1> USE DEF PricesInv
<1>1. CASE PricesFail
  <2>1. pricing' = [NoPricing EXCEPT !.step = "failed"] /\ UNCHANGED <<tokenTime, rateCache>>
    BY <1>1 DEF PricesFail, marketVars
  <2>2. pricing'.step = "failed" /\ Whole(pricing)' BY <2>1 DEF NoPricing, Whole
  <2> QED BY <2>1, <2>2 DEF PricesTyped, CacheIsFresh, CallIsFresh, CallReads
<1>2. CASE ClearRates
  <2>1. rateCache' = [t \in Tokens |-> [rate |-> NoRate, expires |-> 0]] /\ UNCHANGED <<tokenTime, pricing>>
    BY <1>2 DEF ClearRates, marketVars
  <2>2. PricesTyped' /\ CacheIsFresh' BY <2>1 DEF PricesTyped, CacheIsFresh, Whole
  <2> QED BY <2>1, <2>2 DEF CallIsFresh, HasFresh, CallReads, Reads, InTime
<1>3. CASE TokenTick
  <2>1. /\ tokenTime' = tokenTime + 1 /\ (pricing.step = "reading" => tokenTime < pricing.since + ReadTime)
        /\ UNCHANGED <<rateCache, pricing>>
    BY <1>3 DEF TokenTick
  <2>2. PricesTyped' /\ CacheIsFresh' BY <2>1 DEF PricesTyped, CacheIsFresh, Whole
  <2>3. CallIsFresh' BY <2>1 DEF CallIsFresh, HasFresh
  <2>4. CallReads'
    BY <2>1, PricesAssumption DEF CallReads, Reads, InTime, PricesTyped, CallIsFresh, HasFresh
  <2> QED BY <2>2, <2>3, <2>4
<1>4. CASE UNCHANGED <<tokenTime, rateCache, pricing>>
  BY <1>4 DEF PricesTyped, Whole, CacheIsFresh, CallIsFresh, HasFresh, CallReads, Reads, InTime
<1> QED BY <1>1, <1>2, <1>3, <1>4, AskStepsFresh, BatchStepsFresh, StoreStepsFresh
        DEF PricesNext, priceVars, marketVars

\* The invariant, where the rates run
PriceInv == running = "prices" => PricesInv
\* In every behaviour of the composition, for any tokens, batch size, time to live and time of a
\* read, every rate that getPrices returns is its token's, and no older when the call began than
\* its time to live and the time of one read (prices.ts).
THEOREM PricesStayFresh == InfraSpec => []PricesHold
<1>1. InfraInit => PriceInv BY PricesStart DEF InfraInit, PriceInv
<1>2. PriceInv /\ [InfraNext]_infraVars => PriceInv'
  <2> SUFFICES ASSUME PriceInv, [InfraNext]_infraVars PROVE PriceInv' OBVIOUS
  <2>1. UNCHANGED running BY DEF InfraNext, Only, infraVars
  <2>2. running = "prices" => [PricesNext]_priceVars
    BY DEF InfraNext, Only, infraVars
  <2> QED BY <2>1, <2>2, PricesStep DEF PriceInv
<1>3. PriceInv => PricesHold BY PricesAreFresh DEF PriceInv, PricesHold
<1> QED BY <1>1, <1>2, <1>3, PTL DEF InfraSpec
-----------------------------------------------------------------------------
(***************************************************************************)
(* internal/caches.ts, internal/rpc-executor.ts and internal/pagination.ts *)
(* share what they read between callers.  A catalog that is cached holds   *)
(* every pool that was known at the last invalidation, and nobody waits    *)
(* past the deadline.  A call is either a driver, which has a timer, or    *)
(* waits for drivers; those began after the invalidation that the call     *)
(* began after; and the pages of a driver reach all it knew.               *)
(***************************************************************************)

\* A driver, and a pool that a page of it reaches; records with all their fields
Leads(step) == step \in {"count", "countWait", "pages"}
Within(item, x) == item.offset < x /\ x <= item.offset + item.limit

IsJob(j) == j = [step |-> j.step, on |-> j.on, deadline |-> j.deadline, items |-> j.items, knew |-> j.knew]
IsItem(i) == i = [st |-> i.st, tries |-> i.tries, at |-> i.at, offset |-> i.offset, limit |-> i.limit, got |-> i.got]
IsSlot(e) == e = [st |-> e.st, by |-> e.by, until |-> e.until, value |-> e.value]

\* The variables hold values of the code.
ReadsTyped ==
  /\ now \in Nat /\ pools \in Nat /\ pools <= MaxPools
  /\ known = [pools |-> known.pools, times |-> known.times] /\ known.pools \in Nat /\ known.pools <= pools
  /\ entry = [k \in Catalogs |-> entry[k]] /\ job = [c \in Readers |-> job[c]]
  /\ \A k \in Catalogs : IsSlot(entry[k])
  /\ IsSlot(countSlot)
\* A call: its timer, what was known when it began and what its items are
JobIsRight(j) ==
  /\ IsJob(j) /\ j.step \in {"idle", "wait", "count", "countWait", "pages"}
  /\ j.deadline \in Int /\ j.deadline <= now + ReadDeadline
  /\ j.knew \in Nat /\ j.knew <= pools
  /\ \A i \in DOMAIN j.items : IsItem(j.items[i]) /\ j.items[i].offset \in Nat /\ j.items[i].limit \in Nat
  /\ DOMAIN j.items \subseteq Nat
  /\ DOMAIN j.items # {} => j.step \in {"count", "pages"}
  /\ j.step = "count" => DOMAIN j.items = {1} /\ j.items[1].offset = 0 /\ j.items[1].limit = MaxPools
\* A page that was read is that of the pools there were, known ones among them.
PagesAreRight(j) ==
  \A i \in DOMAIN j.items : j.items[i].st = "ok" =>
    \E p \in Nat : j.knew <= p /\ p <= pools /\ j.items[i].got = {x \in 1..p : Within(j.items[i], x)}
\* Every known pool is in a page.
PagesReachAll(j) ==
  j.step = "pages" => \A x \in 1..j.knew : \E i \in DOMAIN j.items : Within(j.items[i], x)
JobsAreRight == \A c \in Readers : JobIsRight(job[c]) /\ PagesAreRight(job[c]) /\ PagesReachAll(job[c])

\* Who waits, waits for drivers that know no less and have a timer.
WaitersAreRight ==
  \A c \in Readers :
    /\ job[c].step = "wait" =>
         /\ job[c].on # {}
         /\ \A d \in job[c].on : d \in Readers /\ Leads(job[d].step) /\ job[d].knew = job[c].knew
    /\ job[c].step = "countWait" =>
         /\ job[c].on # {}
         /\ \A d \in job[c].on : d \in Readers /\ job[d].step = "count" /\ job[d].knew = job[c].knew
\* What is cached was read since the last invalidation, and so was what is pending.
EntriesAreRight ==
  \A k \in Catalogs :
    /\ \A c \in entry[k].by : c \in Readers /\ Leads(job[c].step) /\ job[c].knew = known.pools
    /\ entry[k].st = "pending" => entry[k].by # {}
    /\ entry[k].st = "value" => 1..known.pools \subseteq entry[k].value
\* The count of the pools, that drivers share, is no less than what is known.
CountIsRight ==
  /\ countSlot.st \in {"none", "pending", "value"}
  /\ \A c \in countSlot.by : c \in Readers /\ job[c].step = "count" /\ job[c].knew = known.pools
  /\ countSlot.st = "pending" <=> countSlot.by # {}
  /\ countSlot.st = "value" =>
       Cardinality(countSlot.value) \in Nat /\ known.pools <= Cardinality(countSlot.value)

\* The inductive invariant of the reads
ReadsInv ==
  /\ ReadsTyped /\ JobsAreRight /\ WaitersAreRight /\ EntriesAreRight /\ CountIsRight /\ KnownIsRead

LEMMA ReadsStart == ReadsInit => ReadsInv
<1> SUFFICES ASSUME ReadsInit PROVE ReadsInv OBVIOUS
<1> USE ReadsAssumption DEF ReadsInit
<1>1. ReadsTyped BY DEF ReadsTyped, IsSlot, NoEntry
<1>2. JobsAreRight
  <2>1. \A c \in Readers : job[c] = Quiet OBVIOUS
  <2>2. IsJob(Quiet) /\ Quiet.step = "idle" /\ Quiet.deadline = 0 /\ Quiet.knew = 0 /\ DOMAIN Quiet.items = {}
    BY DEF Quiet, IsJob
  <2>3. now = 0 /\ pools = 1 /\ ReadDeadline \in Nat BY DEF PolicyIsValid
  <2> QED BY <2>1, <2>2, <2>3 DEF JobsAreRight, JobIsRight, PagesAreRight, PagesReachAll
<1>3. WaitersAreRight BY DEF WaitersAreRight, Quiet
<1>4. EntriesAreRight /\ CountIsRight BY DEF EntriesAreRight, CountIsRight, NoEntry
<1>5. KnownIsRead BY DEF KnownIsRead
<1> QED BY <1>1, <1>2, <1>3, <1>4, <1>5 DEF ReadsInv

\* The pages of a count reach every pool that was counted.
LEMMA PagesReach ==
  ASSUME NEW n \in Nat
  PROVE  /\ \A i \in DOMAIN Pages(n) :
              /\ IsItem(Pages(n)[i]) /\ Pages(n)[i].offset \in Nat /\ Pages(n)[i].limit \in Nat
              /\ Pages(n)[i].st = "waiting"
         /\ \A x \in 1..n : \E i \in DOMAIN Pages(n) : Within(Pages(n)[i], x)
<1> DEFINE limit == PageSize(n)
           count == (n + Slack + limit - 1) \div limit
<1>1. limit \in Nat \ {0}
  <2>1. \A x, y \in Nat : Max({x, y}) \in Nat /\ Max({x, y}) >= x /\ Min({x, y}) \in Nat
    BY DEF Max, Min
  <2>2. n \div TargetCalls \in Nat BY ReadsAssumption, Divides
  <2>3. PageMin \in Nat \ {0} /\ PageMax \in Nat BY ReadsAssumption
  <2> HIDE DEF limit
  <2> QED BY <2>1, <2>2, <2>3 DEF PageSize, limit
<1>2. Pages(n) = [i \in 1..count |-> NewItem((i - 1) * limit, limit)] BY DEF Pages
<1> HIDE DEF limit
<1>3. n + Slack + limit - 1 \in Nat BY <1>1, ReadsAssumption
<1>4. count \in Nat /\ n + Slack + limit - 1 < (count + 1) * limit BY <1>1, <1>3, Divides
<1>5. DOMAIN Pages(n) = 1..count BY <1>2
<1> HIDE DEF count
<1>6. ASSUME NEW i \in 1..count
      PROVE  /\ IsItem(Pages(n)[i]) /\ Pages(n)[i].offset = (i - 1) * limit /\ Pages(n)[i].limit = limit
             /\ Pages(n)[i].st = "waiting" /\ (i - 1) * limit \in Nat
  <2>1. (i - 1) * limit \in Nat BY <1>1, <1>4
  <2>2. Pages(n)[i] = NewItem((i - 1) * limit, limit) BY <1>2
  <2> QED BY <2>1, <2>2 DEF NewItem, IsItem
<1>7. ASSUME NEW x \in 1..n PROVE \E i \in 1..count : Within(Pages(n)[i], x)
  <2> DEFINE j == (x - 1) \div limit
  <2>1. j \in Nat /\ j * limit <= x - 1 /\ x - 1 < (j + 1) * limit BY <1>1, Divides
  <2> HIDE DEF j
  <2>2. j < count
    <3>1. SUFFICES ASSUME j >= count PROVE FALSE BY <1>4, <2>1
    <3>2. j * limit >= count * limit BY <1>1, <1>4, <2>1, <3>1
    <3>3. (count + 1) * limit = count * limit + limit BY <1>1, <1>4
    <3>4. count * limit \in Nat /\ j * limit \in Nat BY <1>1, <1>4, <2>1
    <3> QED BY <1>1, <1>4, <2>1, <3>2, <3>3, <3>4, ReadsAssumption
  <2>3. j + 1 \in 1..count BY <1>4, <2>1, <2>2
  <2> DEFINE i == j + 1
  <2>4. Pages(n)[i].offset = j * limit /\ Pages(n)[i].limit = limit
    <3>1. i \in 1..count /\ i - 1 = j BY <2>1, <2>3
    <3> HIDE DEF i
    <3> QED BY <1>6, <3>1
  <2>5. j * limit + limit = (j + 1) * limit /\ j * limit \in Nat BY <1>1, <2>1
  <2>6. j * limit < x /\ x <= j * limit + limit BY <1>1, <2>1, <2>5
  <2> QED BY <2>3, <2>4, <2>6 DEF Within
<1> QED BY <1>1, <1>5, <1>6, <1>7

\* The invariant implies what the run checks.
LEMMA ReadsAreTrue == ReadsInv => KnownIsRead /\ WaitsEnd
<1> SUFFICES ASSUME ReadsInv PROVE KnownIsRead /\ WaitsEnd OBVIOUS
<1> DEFINE Runs(d) == job[d].step \in {"count", "pages"} /\ job[d].deadline <= now + ReadDeadline
           Counts(d) == job[d].step = "count" /\ Runs(d)
           Drives(d) == Runs(d) \/ (job[d].step = "countWait" /\ \E e \in job[d].on : Counts(e))
<1>1. \A d \in Readers : job[d].deadline <= now + ReadDeadline BY DEF ReadsInv, JobsAreRight, JobIsRight
<1>2. \A d \in Readers : job[d].step = "count" => Counts(d) BY <1>1
<1>3. \A d \in Readers : job[d].step = "countWait" => \E e \in job[d].on : Counts(e)
  BY <1>2 DEF ReadsInv, WaitersAreRight
<1>4. \A d \in Readers : Leads(job[d].step) => Drives(d) BY <1>1, <1>3 DEF Leads
<1> HIDE DEF Counts, Drives
<1>5. \A c \in Readers : job[c].step = "wait" => \E d \in job[c].on : Drives(d)
  BY <1>4 DEF ReadsInv, WaitersAreRight
<1>6. \A c \in Readers : job[c].step = "countWait" => Drives(c) BY <1>4 DEF Leads
<1>7. \A k \in Catalogs : entry[k].st = "pending" => \E d \in entry[k].by : Drives(d)
  BY <1>4 DEF ReadsInv, EntriesAreRight
<1>8. countSlot.st = "pending" => \E d \in countSlot.by : Counts(d) BY <1>2 DEF ReadsInv, CountIsRight
<1>9. KnownIsRead BY DEF ReadsInv
<1> QED BY <1>5, <1>6, <1>7, <1>8, <1>9 DEF WaitsEnd, Drives, Counts

\* What depends only on the steps of the calls, and on what they know
LEMMA StaysRight ==
  ASSUME ReadsInv, UNCHANGED <<entry, countSlot, known>>,
         \A d \in Readers : job'[d].step = job[d].step /\ job'[d].on = job[d].on /\ job'[d].knew = job[d].knew
  PROVE  WaitersAreRight' /\ EntriesAreRight' /\ CountIsRight'
<1>1. WaitersAreRight' BY DEF ReadsInv, WaitersAreRight
<1>2. EntriesAreRight' BY DEF ReadsInv, EntriesAreRight
<1>3. CountIsRight' BY DEF ReadsInv, CountIsRight
<1> QED BY <1>1, <1>2, <1>3

\* Nothing happens.
LEMMA ReadsRest == ASSUME ReadsInv, UNCHANGED readsVars PROVE ReadsInv'
<1>1. UNCHANGED <<now, pools, entry, countSlot, job, known, missed>> BY DEF readsVars
<1>2. WaitersAreRight' /\ EntriesAreRight' /\ CountIsRight' BY <1>1, StaysRight
<1>3. ReadsTyped' BY <1>1 DEF ReadsInv, ReadsTyped, IsSlot
<1>4. JobsAreRight' BY <1>1 DEF ReadsInv, JobsAreRight, JobIsRight, PagesAreRight, PagesReachAll
<1> QED BY <1>1, <1>2, <1>3, <1>4 DEF ReadsInv, KnownIsRead

\* An attempt sets two of the fields of its item.
\* An item that was read, or that waits for its retry
Took(item, s, v) == [item EXCEPT !.st = s, !.got = v]
Waits(item, s, v) == [item EXCEPT !.st = s, !.at = v]
LEMMA ItemTakes ==
  ASSUME NEW item, IsItem(item), NEW s, NEW v
  PROVE  /\ IsItem(Took(item, s, v)) /\ Took(item, s, v).st = s /\ Took(item, s, v).got = v
         /\ Took(item, s, v).offset = item.offset /\ Took(item, s, v).limit = item.limit
         /\ IsItem(Waits(item, s, v)) /\ Waits(item, s, v).st = s
         /\ Waits(item, s, v).offset = item.offset /\ Waits(item, s, v).limit = item.limit
<1> DEFINE begun == [item EXCEPT !.st = s]
           taken == [begun EXCEPT !.got = v]
           late == [begun EXCEPT !.at = v]
<1>1. Took(item, s, v) = taken /\ Waits(item, s, v) = late BY DEF IsItem, Took, Waits
<1>2. /\ IsItem(begun) /\ begun.st = s /\ begun.offset = item.offset /\ begun.limit = item.limit BY DEF IsItem
<1> HIDE DEF begun
<1>3. IsItem(taken) /\ taken.st = s /\ taken.got = v /\ taken.offset = item.offset /\ taken.limit = item.limit
  BY <1>2 DEF IsItem
<1>4. IsItem(late) /\ late.st = s /\ late.offset = item.offset /\ late.limit = item.limit
  BY <1>2 DEF IsItem
<1> HIDE DEF taken, late
<1> QED BY <1>1, <1>3, <1>4

\* Attempts: an item of a call that is read holds what its page holds now.
LEMMA ItemStep ==
  ASSUME ReadsInv, NEW c \in Readers, NEW i \in DOMAIN job[c].items, NEW item,
         IsItem(item), item.offset = job[c].items[i].offset, item.limit = job[c].items[i].limit,
         item.st = "ok" => item.got = PageNow(item),
         job' = [job EXCEPT ![c].items[i] = item],
         UNCHANGED <<now, pools, entry, countSlot, known, missed>>
  PROVE  ReadsInv'
<1> USE DEF ReadsInv
<1> DEFINE items == [job[c].items EXCEPT ![i] = item]
           new == [job[c] EXCEPT !.items = items]
<1>1. IsJob(job[c]) /\ JobIsRight(job[c]) /\ PagesAreRight(job[c]) /\ PagesReachAll(job[c])
  BY DEF JobsAreRight, JobIsRight
<1>2. job' = [d \in Readers |-> IF d = c THEN new ELSE job[d]] BY DEF ReadsTyped
<1>3. /\ DOMAIN items = DOMAIN job[c].items /\ items[i] = item
      /\ \A n \in DOMAIN job[c].items : n # i => items[n] = job[c].items[n]
  OBVIOUS
<1> HIDE DEF items
<1>4. /\ IsJob(new) /\ new.step = job[c].step /\ new.on = job[c].on /\ new.deadline = job[c].deadline
      /\ new.knew = job[c].knew /\ new.items = items
  BY <1>1 DEF IsJob
<1> HIDE DEF new
<1>5. ReadsTyped' BY <1>2 DEF ReadsTyped
<1>6. \A d \in Readers : job'[d].step = job[d].step /\ job'[d].on = job[d].on /\ job'[d].knew = job[d].knew
  BY <1>2, <1>4
<1>7. WaitersAreRight' /\ EntriesAreRight' /\ CountIsRight' BY <1>6, StaysRight
<1>8. JobIsRight(new)
  BY <1>1, <1>3, <1>4 DEF JobIsRight
<1>9. PagesAreRight(new)
  <2>1. ASSUME NEW n \in DOMAIN items, items[n].st = "ok"
        PROVE  \E p \in Nat : new.knew <= p /\ p <= pools /\ items[n].got = {x \in 1..p : Within(items[n], x)}
    <3>1. CASE n = i
      <4>1. item.got = {x \in 1..pools : Within(item, x)} BY <1>3, <2>1, <3>1 DEF PageNow, Within
      <4> QED BY <1>1, <1>3, <1>4, <3>1, <4>1 DEF ReadsTyped, JobIsRight
    <3>2. CASE n # i BY <1>1, <1>3, <1>4, <2>1, <3>2 DEF PagesAreRight
    <3> QED BY <3>1, <3>2
  <2> QED BY <1>4, <2>1 DEF PagesAreRight
<1>10. PagesReachAll(new) BY <1>1, <1>3, <1>4 DEF PagesReachAll, Within
<1>11. JobsAreRight'
  <2>1. \A d \in Readers : JobIsRight(job'[d]) /\ PagesAreRight(job'[d]) /\ PagesReachAll(job'[d])
    BY <1>2, <1>8, <1>9, <1>10 DEF JobsAreRight
  <2> QED BY <2>1 DEF JobsAreRight, JobIsRight, PagesAreRight, PagesReachAll
<1>12. KnownIsRead' BY DEF KnownIsRead
<1> QED BY <1>5, <1>7, <1>11, <1>12

\* An item that is tried begins.
LEMMA BegunItem ==
  ASSUME NEW item, IsItem(item)
  PROVE  IsItem(Begin(item)) /\ Begin(item).offset = item.offset /\ Begin(item).limit = item.limit
         /\ Begin(item).st = "running"
<1>1. PICK st, tries, at, offset, limit, got :
        item = [st |-> st, tries |-> tries, at |-> at, offset |-> offset, limit |-> limit, got |-> got]
  BY DEF IsItem
<1>2. Begin(item) = [st |-> "running", tries |-> tries + 1, at |-> at, offset |-> offset, limit |-> limit, got |-> got]
  <2> DEFINE n == tries + 1
             r == [item EXCEPT !.st = "running"]
  <2>1. r = [st |-> "running", tries |-> tries, at |-> at, offset |-> offset, limit |-> limit, got |-> got] BY <1>1
  <2>2. Begin(item) = [r EXCEPT !.tries = n] BY <1>1 DEF Begin
  <2> HIDE DEF n, r
  <2>3. Begin(item) = [st |-> "running", tries |-> n, at |-> at, offset |-> offset, limit |-> limit, got |-> got]
    BY <2>1, <2>2
  <2> QED BY <2>3 DEF n
<1> QED BY <1>1, <1>2 DEF IsItem

LEMMA BeginsItem ==
  ASSUME ReadsInv, NEW c \in Readers, NEW i \in DOMAIN job[c].items,
         job' = [job EXCEPT ![c].items[i] = Begin(@)],
         UNCHANGED <<now, pools, entry, countSlot, known, missed>>
  PROVE  ReadsInv'
<1> DEFINE item == Begin(job[c].items[i])
<1>1. IsItem(job[c].items[i]) BY DEF ReadsInv, JobsAreRight, JobIsRight
<1>2. IsItem(item) /\ item.offset = job[c].items[i].offset /\ item.limit = job[c].items[i].limit /\ item.st = "running"
  BY <1>1, BegunItem
<1>3. job' = [job EXCEPT ![c].items[i] = item] BY DEF ReadsInv, ReadsTyped
<1> HIDE DEF item
<1> QED BY <1>2, <1>3, ItemStep

\* Whoever settles is quiet, and an entry that was waited for holds what was read.
LEMMA SettleStep ==
  ASSUME ReadsInv, NEW drivers \in SUBSET Readers, NEW ok \in BOOLEAN, NEW value,
         Settle(drivers, ok, value), UNCHANGED <<now, pools, known>>,
         \A c \in drivers : Leads(job[c].step) /\ (ok => 1..job[c].knew \subseteq value),
         \A c \in Readers : job[c].step = "countWait" /\ job[c].on \cap drivers # {} => c \in drivers
  PROVE  /\ entry' = [k \in Catalogs |-> entry'[k]] /\ \A k \in Catalogs : IsSlot(entry[k])'
         /\ job' = [c \in Readers |-> job'[c]]
         /\ JobsAreRight' /\ WaitersAreRight' /\ EntriesAreRight' /\ KnownIsRead'
         /\ \A c \in Readers : job[c].step = "count" /\ c \notin drivers => job'[c] = job[c]
<1> USE DEF ReadsInv
<1> DEFINE over == drivers \cup WaitersOf(drivers)
<1>1. /\ job' = [c \in Readers |-> IF c \in over THEN Quiet ELSE job[c]]
      /\ missed' = IF ok THEN UNION {(1..job[c].knew) \ value : c \in over} ELSE missed
      /\ entry' = [k \in Catalogs |->
           IF entry[k].by \cap drivers = {} THEN entry[k]
           ELSE IF ok THEN [st |-> "value", by |-> {}, until |-> now + Ttl, value |-> value] ELSE NoEntry]
  BY DEF Settle
<1>2. over \subseteq Readers /\ \A c \in over \ drivers : job[c].step = "wait" /\ job[c].on \cap drivers # {}
  BY DEF WaitersOf
<1>3. \A c \in Readers \ over : job[c].step = "wait" => job[c].on \cap drivers = {} BY DEF WaitersOf
<1> HIDE DEF over
<1>4. \A c \in over \ drivers : \E d \in drivers : job[d].knew = job[c].knew
  BY <1>2 DEF WaitersAreRight
<1>5. ok => \A c \in over : 1..job[c].knew \subseteq value BY <1>4
<1>6. /\ entry' = [k \in Catalogs |-> entry'[k]] /\ job' = [c \in Readers |-> job'[c]] BY <1>1
<1>7. \A k \in Catalogs : IsSlot(entry'[k]) BY <1>1 DEF ReadsTyped, IsSlot, NoEntry
<1>8. KnownIsRead' BY <1>1, <1>5 DEF KnownIsRead
<1>9. JobsAreRight'
  <2>1. JobIsRight(Quiet) /\ PagesAreRight(Quiet) /\ PagesReachAll(Quiet)
    <3>1. IsJob(Quiet) /\ Quiet.step = "idle" /\ Quiet.deadline = 0 /\ Quiet.knew = 0 /\ DOMAIN Quiet.items = {}
      BY DEF Quiet, IsJob
    <3>2. ReadDeadline \in Nat BY ReadsAssumption DEF PolicyIsValid
    <3> QED BY <3>1, <3>2 DEF JobIsRight, PagesAreRight, PagesReachAll, ReadsTyped
  <2>2. \A c \in Readers : JobIsRight(job'[c]) /\ PagesAreRight(job'[c]) /\ PagesReachAll(job'[c])
    BY <1>1, <2>1 DEF JobsAreRight
  <2> QED BY <2>2 DEF JobsAreRight, JobIsRight, PagesAreRight, PagesReachAll
<1>10. ASSUME NEW c \in Readers, Leads(job[c].step), c \notin drivers PROVE job'[c] = job[c]
  <2>1. c \notin over BY <1>2, <1>10 DEF Leads
  <2> QED BY <1>1, <2>1
<1>11. \A c \in Readers : job[c].step = "count" /\ c \notin drivers => job'[c] = job[c] BY <1>10 DEF Leads
<1>12. WaitersAreRight'
  <2>1. ASSUME NEW c \in Readers
        PROVE  /\ job'[c].step = "wait" =>
                    /\ job'[c].on # {}
                    /\ \A d \in job'[c].on : d \in Readers /\ Leads(job'[d].step) /\ job'[d].knew = job'[c].knew
               /\ job'[c].step = "countWait" =>
                    /\ job'[c].on # {}
                    /\ \A d \in job'[c].on : d \in Readers /\ job'[d].step = "count" /\ job'[d].knew = job'[c].knew
    <3>1. CASE c \in over BY <1>1, <3>1 DEF Quiet
    <3>2. CASE c \notin over
      <4>1. job'[c] = job[c] BY <1>1, <3>2
      <4>2. job[c].step \in {"wait", "countWait"} => job[c].on \cap drivers = {} BY <1>3, <3>2 DEF over
      <4>3. \A d \in Readers : Leads(job[d].step) /\ d \notin drivers => job'[d] = job[d] BY <1>10
      <4>4. \A d \in Readers : job[d].step = "count" => Leads(job[d].step) BY DEF Leads
      <4> QED BY <4>1, <4>2, <4>3, <4>4 DEF WaitersAreRight
    <3> QED BY <3>1, <3>2
  <2> QED BY <2>1 DEF WaitersAreRight
<1>13. EntriesAreRight'
  <2>1. ASSUME NEW k \in Catalogs
        PROVE  /\ \A c \in entry'[k].by : c \in Readers /\ Leads(job'[c].step) /\ job'[c].knew = known.pools
               /\ entry'[k].st = "pending" => entry'[k].by # {}
               /\ entry'[k].st = "value" => 1..known.pools \subseteq entry'[k].value
    <3>1. CASE entry[k].by \cap drivers = {}
      <4>1. entry'[k] = entry[k] BY <1>1, <3>1
      <4>2. \A d \in Readers : Leads(job[d].step) /\ d \notin drivers => job'[d] = job[d] BY <1>10
      <4> QED BY <3>1, <4>1, <4>2 DEF EntriesAreRight
    <3>2. CASE entry[k].by \cap drivers # {} /\ ok
      <4>1. entry'[k] = [st |-> "value", by |-> {}, until |-> now + Ttl, value |-> value] BY <1>1, <3>2
      <4>2. PICK c \in drivers : job[c].knew = known.pools BY <3>2 DEF EntriesAreRight
      <4>3. 1..known.pools \subseteq value BY <3>2, <4>2
      <4> QED BY <4>1, <4>3
    <3>3. CASE entry[k].by \cap drivers # {} /\ ~ok
      <4>1. entry'[k] = NoEntry BY <1>1, <3>3
      <4> QED BY <4>1 DEF NoEntry
    <3> QED BY <3>1, <3>2, <3>3
  <2> QED BY <2>1 DEF EntriesAreRight
<1> QED BY <1>6, <1>7, <1>8, <1>9, <1>11, <1>12, <1>13

\* A call that fails, by an error or by its deadline, lets go of what waits for it.
LEMMA FailsStep == ASSUME ReadsInv, NEW c \in Readers, Fails(c), job[c].step \in {"count", "pages"} PROVE ReadsInv'
<1> USE DEF ReadsInv
<1> DEFINE drivers == FailsWith(c)
<1>1. /\ Settle(drivers, FALSE, {}) /\ UNCHANGED <<now, pools, known>>
      /\ countSlot' = IF countSlot.st = "pending" /\ c \in countSlot.by /\ job[c].step = "count"
                      THEN NoEntry ELSE countSlot
  BY DEF Fails
<1>2. drivers \in SUBSET Readers /\ c \in drivers BY DEF FailsWith
<1>3. \A d \in drivers : Leads(job[d].step) BY DEF FailsWith, Leads
<1>4. \A d \in Readers : job[d].step = "countWait" /\ job[d].on \cap drivers # {} => d \in drivers
  BY DEF FailsWith, WaitersAreRight
<1>5. \A d \in drivers : d # c => job[d].step = "countWait" BY DEF FailsWith
<1> HIDE DEF drivers
<1>6. /\ entry' = [k \in Catalogs |-> entry'[k]] /\ \A k \in Catalogs : IsSlot(entry[k])'
      /\ job' = [d \in Readers |-> job'[d]]
      /\ JobsAreRight' /\ WaitersAreRight' /\ EntriesAreRight' /\ KnownIsRead'
      /\ \A d \in Readers : job[d].step = "count" /\ d \notin drivers => job'[d] = job[d]
  BY <1>1, <1>2, <1>3, <1>4, SettleStep
<1>7. CountIsRight'
  <2>1. CASE countSlot.st = "pending" /\ c \in countSlot.by /\ job[c].step = "count"
    <3>1. countSlot' = NoEntry BY <1>1, <2>1
    <3> QED BY <3>1 DEF CountIsRight, NoEntry
  <2>2. CASE ~(countSlot.st = "pending" /\ c \in countSlot.by /\ job[c].step = "count")
    <3>1. countSlot' = countSlot BY <1>1, <2>2
    <3> QED BY <1>1, <1>5, <1>6, <2>2, <3>1 DEF CountIsRight
  <2> QED BY <2>1, <2>2
<1>8. IsSlot(countSlot)' BY <1>1 DEF ReadsTyped, IsSlot, NoEntry
<1>9. ReadsTyped' BY <1>1, <1>6, <1>8 DEF ReadsTyped
<1> QED BY <1>6, <1>7, <1>9

\* A page is answered with the pools there are, or fails.
LEMMA ReplyStep == ASSUME ReadsInv, NEW c \in Readers, NEW i \in DOMAIN job[c].items, Reply(c, i) PROVE ReadsInv'
<1> USE DEF ReadsInv
<1> DEFINE item == job[c].items[i]
<1>1. IsItem(item) /\ job[c].step \in {"count", "pages"} BY DEF JobsAreRight, JobIsRight
<1>2. PICK hint \in RetryAfter :
        \/ /\ job' = [job EXCEPT ![c].items[i] = [@ EXCEPT !.st = "ok", !.got = PageNow(item)]]
           /\ UNCHANGED <<now, pools, entry, countSlot, known, missed>>
        \/ /\ job' = [job EXCEPT ![c].items[i] = [@ EXCEPT !.st = "backoff", !.at = now + Delay(item.tries, hint)]]
           /\ UNCHANGED <<now, pools, entry, countSlot, known, missed>>
        \/ Fails(c)
  BY DEF Reply
<1>3. job = [d \in Readers |-> job[d]] BY DEF ReadsTyped
<1>4. CASE /\ job' = [job EXCEPT ![c].items[i] = [@ EXCEPT !.st = "ok", !.got = PageNow(item)]]
           /\ UNCHANGED <<now, pools, entry, countSlot, known, missed>>
  <2> DEFINE got == PageNow(item)
             new == Took(item, "ok", got)
  <2>1. job' = [job EXCEPT ![c].items[i] = new] BY <1>3, <1>4 DEF Took
  <2> HIDE DEF got
  <2>2. IsItem(new) /\ new.st = "ok" /\ new.offset = item.offset /\ new.limit = item.limit /\ new.got = got
    <3> HIDE DEF item
    <3> QED BY <1>1, ItemTakes
  <2> HIDE DEF new
  <2>3. new.got = PageNow(new) BY <2>2 DEF got, PageNow
  <2> QED BY <1>4, <2>1, <2>2, <2>3, ItemStep
<1>5. CASE /\ job' = [job EXCEPT ![c].items[i] = [@ EXCEPT !.st = "backoff", !.at = now + Delay(item.tries, hint)]]
           /\ UNCHANGED <<now, pools, entry, countSlot, known, missed>>
  <2> DEFINE at == now + Delay(item.tries, hint)
             new == Waits(item, "backoff", at)
  <2>1. job' = [job EXCEPT ![c].items[i] = new] BY <1>3, <1>5 DEF Waits
  <2> HIDE DEF at
  <2>2. IsItem(new) /\ new.st = "backoff" /\ new.offset = item.offset /\ new.limit = item.limit
    <3> HIDE DEF item
    <3> QED BY <1>1, ItemTakes
  <2> HIDE DEF new
  <2> QED BY <1>5, <2>1, <2>2, ItemStep
<1> QED BY <1>1, <1>2, <1>4, <1>5, FailsStep

\* The steps of the items of a call
LEMMA ItemsStep ==
  ASSUME ReadsInv, NEW c \in Readers,
         \/ StartItem(c) \/ Deadline(c)
         \/ \E i \in DOMAIN job[c].items : Reply(c, i) \/ RetryItem(c, i)
  PROVE  ReadsInv'
<1>1. CASE StartItem(c)
  <2> DEFINE waiting == {i \in DOMAIN job[c].items : job[c].items[i].st = "waiting"}
  <2>1. waiting # {} /\ job' = [job EXCEPT ![c].items[Min(waiting)] = Begin(@)]
        /\ UNCHANGED <<now, pools, entry, countSlot, known, missed>>
    BY <1>1 DEF StartItem
  <2>2. waiting \in SUBSET Nat BY DEF ReadsInv, JobsAreRight, JobIsRight
  <2>3. waiting \subseteq DOMAIN job[c].items OBVIOUS
  <2> HIDE DEF waiting
  <2>4. \E x \in waiting : \A y \in waiting : x <= y BY <2>1, <2>2, LeastNatural
  <2>5. Min(waiting) \in waiting BY <2>4 DEF Min
  <2> QED BY <2>1, <2>3, <2>5, BeginsItem
<1>2. CASE Deadline(c) BY <1>2, FailsStep DEF Deadline
<1>3. ASSUME NEW i \in DOMAIN job[c].items, RetryItem(c, i) PROVE ReadsInv'
  BY <1>3, BeginsItem DEF RetryItem
<1> QED BY <1>1, <1>2, <1>3, ReplyStep

\* What was known is in the pages that were read.
LEMMA ReadWhole ==
  ASSUME ReadsInv, NEW c \in Readers, job[c].step = "pages", AllRead(c)
  PROVE  1..job[c].knew \subseteq UNION {job[c].items[i].got : i \in DOMAIN job[c].items}
<1> DEFINE j == job[c]
<1>1. JobIsRight(j) /\ PagesAreRight(j) /\ PagesReachAll(j) BY DEF ReadsInv, JobsAreRight
<1>2. \A i \in DOMAIN j.items : j.items[i].st = "ok" BY DEF AllRead
<1>3. ASSUME NEW x \in 1..j.knew PROVE \E i \in DOMAIN j.items : x \in j.items[i].got
  <2>1. PICK i \in DOMAIN j.items : Within(j.items[i], x) BY <1>1 DEF PagesReachAll
  <2>2. PICK p \in Nat : j.knew <= p /\ j.items[i].got = {y \in 1..p : Within(j.items[i], y)}
    BY <1>1, <1>2 DEF PagesAreRight
  <2>3. x \in 1..p BY <1>1, <2>2 DEF JobIsRight
  <2> QED BY <2>1, <2>2, <2>3
<1> QED BY <1>3

\* All pages were read.
LEMMA PagesStep == ASSUME ReadsInv, NEW c \in Readers, PagesRead(c) PROVE ReadsInv'
<1> USE DEF ReadsInv
<1> DEFINE value == UNION {job[c].items[i].got : i \in DOMAIN job[c].items}
<1>1. /\ job[c].step = "pages" /\ AllRead(c) /\ Settle({c}, TRUE, value)
      /\ UNCHANGED <<now, pools, countSlot, known>>
  BY DEF PagesRead
<1>2. 1..job[c].knew \subseteq value BY <1>1, ReadWhole
<1> HIDE DEF value
<1>3. \A d \in Readers : job[d].step = "countWait" /\ job[d].on \cap {c} # {} => d \in {c}
  BY <1>1 DEF WaitersAreRight
<1>4. \A d \in {c} : Leads(job[d].step) /\ (TRUE => 1..job[d].knew \subseteq value) BY <1>1, <1>2 DEF Leads
<1>5. /\ entry' = [k \in Catalogs |-> entry'[k]] /\ \A k \in Catalogs : IsSlot(entry[k])'
      /\ job' = [d \in Readers |-> job'[d]]
      /\ JobsAreRight' /\ WaitersAreRight' /\ EntriesAreRight' /\ KnownIsRead'
      /\ \A d \in Readers : job[d].step = "count" /\ d \notin {c} => job'[d] = job[d]
  <2>1. {c} \in SUBSET Readers /\ TRUE \in BOOLEAN OBVIOUS
  <2> QED BY <1>1, <1>3, <1>4, <2>1, SettleStep
<1>6. CountIsRight' BY <1>1, <1>5 DEF CountIsRight
<1>7. ReadsTyped' BY <1>1, <1>5 DEF ReadsTyped, IsSlot
<1> QED BY <1>5, <1>6, <1>7

\* A call that goes on to its pages
\* A driver that goes on with the pages of a count
Paged(j, n) == [j EXCEPT !.step = "pages", !.on = {}, !.items = Pages(n)]
LEMMA PagedIsRight ==
  ASSUME NEW j, JobIsRight(j), NEW n \in Nat, j.knew <= n
  PROVE  /\ JobIsRight(Paged(j, n)) /\ PagesAreRight(Paged(j, n)) /\ PagesReachAll(Paged(j, n))
         /\ Paged(j, n).step = "pages" /\ Paged(j, n).knew = j.knew
<1> DEFINE items == Pages(n)
           begun == [j EXCEPT !.step = "pages"]
           moved == [begun EXCEPT !.on = {}]
           new == [moved EXCEPT !.items = items]
<1>1. IsJob(j) BY DEF JobIsRight
<1>2. Paged(j, n) = new BY <1>1 DEF IsJob, Paged
<1>3. IsJob(begun) /\ begun.step = "pages" /\ begun.knew = j.knew /\ begun.deadline = j.deadline
  BY <1>1 DEF IsJob
<1> HIDE DEF begun
<1>4. IsJob(moved) /\ moved.step = "pages" /\ moved.knew = j.knew /\ moved.deadline = j.deadline
  BY <1>3 DEF IsJob
<1>5. /\ \A i \in DOMAIN items : IsItem(items[i]) /\ items[i].offset \in Nat /\ items[i].limit \in Nat
                                 /\ items[i].st = "waiting"
      /\ \A x \in 1..n : \E i \in DOMAIN items : Within(items[i], x)
  BY PagesReach
<1>6. DOMAIN items \subseteq Nat BY DEF Pages
<1> HIDE DEF items, moved
<1>7. IsJob(new) /\ new.step = "pages" /\ new.knew = j.knew /\ new.deadline = j.deadline /\ new.items = items
  BY <1>4 DEF IsJob
<1> HIDE DEF new
<1>8. j.knew \in Nat /\ j.knew <= pools /\ j.deadline \in Int /\ j.deadline <= now + ReadDeadline BY DEF JobIsRight
<1>9. JobIsRight(new) BY <1>5, <1>6, <1>7, <1>8 DEF JobIsRight
<1>10. PagesAreRight(new) BY <1>5, <1>7 DEF PagesAreRight
<1>11. PagesReachAll(new)
  <2>1. \A x \in 1..j.knew : x \in 1..n BY <1>8
  <2> QED BY <1>5, <1>7, <2>1 DEF PagesReachAll
<1> QED BY <1>2, <1>7, <1>9, <1>10, <1>11

\* The count was read, and its drivers go on with the pages.
LEMMA CountStep == ASSUME ReadsInv, NEW c \in Readers, CountRead(c) PROVE ReadsInv'
<1> USE DEF ReadsInv
<1> DEFINE count == job[c].items[1].got
           n == Cardinality(count)
           shared == FailsWith(c)
<1>1. /\ job[c].step = "count" /\ AllRead(c)
      /\ job' = [d \in Readers |-> IF d \in shared THEN Paged(job[d], n) ELSE job[d]]
      /\ countSlot' = IF c \in countSlot.by THEN [countSlot EXCEPT !.st = "value", !.by = {}, !.value = count]
                      ELSE countSlot
      /\ UNCHANGED <<now, pools, entry, known, missed>>
  BY DEF CountRead, Paged
<1>2. JobIsRight(job[c]) /\ PagesAreRight(job[c]) BY DEF JobsAreRight
<1>3. n \in Nat /\ job[c].knew <= n
  <2>1. DOMAIN job[c].items = {1} /\ job[c].items[1].offset = 0 /\ job[c].items[1].limit = MaxPools
    BY <1>1, <1>2 DEF JobIsRight
  <2>2. job[c].items[1].st = "ok" BY <1>1, <2>1 DEF AllRead
  <2>3. PICK p \in Nat : job[c].knew <= p /\ p <= pools /\ count = {x \in 1..p : Within(job[c].items[1], x)}
    BY <1>2, <2>1, <2>2 DEF PagesAreRight
  <2>4. \A x \in 1..p : Within(job[c].items[1], x) BY <2>1, <2>3, ReadsAssumption DEF Within, ReadsTyped
  <2>5. count = 1..p BY <2>3, <2>4
  <2>6. n = p
    <3> HIDE DEF count
    <3>1. Cardinality(1..p) = p BY FS_Interval
    <3> QED BY <2>5, <3>1
  <2> QED BY <2>3, <2>6
<1>4. \A d \in shared : d \in Readers /\ job[d].knew = job[c].knew /\ (d = c \/ job[d].step = "countWait")
  BY <1>1 DEF FailsWith, WaitersAreRight
<1>5. c \in shared /\ \A d \in Readers \ shared : job[d].step = "countWait" => c \notin job[d].on
  BY <1>1 DEF FailsWith
<1> HIDE DEF count, n, shared
<1>6. \A d \in shared : /\ JobIsRight(Paged(job[d], n)) /\ PagesAreRight(Paged(job[d], n)) /\ PagesReachAll(Paged(job[d], n))
                        /\ Paged(job[d], n).step = "pages" /\ Paged(job[d], n).knew = job[d].knew
  BY <1>3, <1>4, PagedIsRight DEF JobsAreRight
<1>7. \A d \in Readers : /\ JobIsRight(job'[d]) /\ PagesAreRight(job'[d]) /\ PagesReachAll(job'[d])
                         /\ job'[d].knew = job[d].knew
                         /\ d \notin shared => job'[d] = job[d]
                         /\ d \in shared => job'[d].step = "pages"
  BY <1>1, <1>6 DEF JobsAreRight
<1>8. JobsAreRight' BY <1>1, <1>7 DEF JobsAreRight, JobIsRight, PagesAreRight, PagesReachAll
<1>9. \A d \in Readers : /\ Leads(job[d].step) => Leads(job'[d].step)
                         /\ job[d].step = "count" /\ d # c => job'[d] = job[d]
                         /\ job'[d].step \in {"wait", "countWait"} => job'[d] = job[d]
  BY <1>4, <1>7 DEF Leads
<1>10. WaitersAreRight' BY <1>5, <1>7, <1>9 DEF WaitersAreRight
<1>11. EntriesAreRight' BY <1>1, <1>7, <1>9 DEF EntriesAreRight
<1>12. IsSlot(countSlot)' /\ CountIsRight'
  <2>1. CASE c \in countSlot.by
    <3>1. job[c].knew = known.pools BY <2>1 DEF CountIsRight
    <3> DEFINE begun == [countSlot EXCEPT !.st = "value"]
               freed == [begun EXCEPT !.by = {}]
               counted == [freed EXCEPT !.value = count]
    <3>2. IsSlot(begun) /\ begun.st = "value" BY DEF ReadsTyped, IsSlot
    <3>3. countSlot' = counted BY <1>1, <2>1 DEF ReadsTyped, IsSlot
    <3> HIDE DEF begun
    <3>4. IsSlot(freed) /\ freed.st = "value" /\ freed.by = {} BY <3>2 DEF IsSlot
    <3> HIDE DEF freed
    <3>5. IsSlot(counted) /\ counted.st = "value" /\ counted.by = {} /\ counted.value = count BY <3>4 DEF IsSlot
    <3> HIDE DEF counted
    <3> QED BY <1>1, <1>3, <3>1, <3>3, <3>5 DEF CountIsRight, IsSlot, n
  <2>2. CASE c \notin countSlot.by
    <3>1. countSlot' = countSlot BY <1>1, <2>2
    <3> QED BY <1>1, <1>9, <2>2, <3>1 DEF CountIsRight, ReadsTyped, IsSlot
  <2> QED BY <2>1, <2>2
<1>13. ReadsTyped' BY <1>1, <1>12 DEF ReadsTyped, IsSlot
<1>14. KnownIsRead' BY <1>1 DEF KnownIsRead
<1> QED BY <1>8, <1>10, <1>11, <1>12, <1>13, <1>14

\* An invalidation forgets what is cached and what is under way.
LEMMA InvalidStep == ASSUME ReadsInv, Invalidate PROVE ReadsInv'
<1> USE DEF ReadsInv
<1>1. /\ known' = [pools |-> pools, times |-> known.times + 1] /\ entry' = [k \in Catalogs |-> NoEntry]
      /\ countSlot' = NoEntry /\ UNCHANGED <<now, pools, job, missed>>
  BY DEF Invalidate, DropCached
<1>2. ReadsTyped' BY <1>1 DEF ReadsTyped, IsSlot, NoEntry
<1>3. JobsAreRight' BY <1>1 DEF JobsAreRight, JobIsRight, PagesAreRight, PagesReachAll
<1>4. WaitersAreRight' BY <1>1 DEF WaitersAreRight
<1>5. EntriesAreRight' /\ CountIsRight' BY <1>1 DEF EntriesAreRight, CountIsRight, NoEntry
<1> QED BY <1>1, <1>2, <1>3, <1>4, <1>5 DEF KnownIsRead

\* A pool is created, and time passes.
LEMMA TimesStep == ASSUME ReadsInv, CreatePool \/ ReadTick PROVE ReadsInv'
<1> USE DEF ReadsInv
<1>1. /\ now' \in {now, now + 1} /\ pools' \in {pools, pools + 1} /\ pools' <= MaxPools
      /\ UNCHANGED <<entry, countSlot, job, known, missed>>
  BY ReadsAssumption DEF CreatePool, ReadTick, ReadsTyped
<1>2. ReadsTyped' BY <1>1 DEF ReadsTyped, IsSlot
<1>3. JobsAreRight'
  <2>1. ReadDeadline \in Nat BY ReadsAssumption DEF PolicyIsValid
  <2>2. ASSUME NEW c \in Readers PROVE JobIsRight(job[c])' /\ PagesAreRight(job[c])' /\ PagesReachAll(job[c])'
    <3>1. JobIsRight(job[c]) /\ PagesAreRight(job[c]) /\ PagesReachAll(job[c]) BY DEF JobsAreRight
    <3>2. JobIsRight(job[c])' BY <1>1, <2>1, <3>1 DEF JobIsRight, ReadsTyped
    <3>3. PagesAreRight(job[c])' BY <1>1, <3>1 DEF PagesAreRight, ReadsTyped
    <3> QED BY <1>1, <3>1, <3>2, <3>3 DEF PagesReachAll
  <2> QED BY <2>2 DEF JobsAreRight
<1>4. WaitersAreRight' /\ EntriesAreRight' /\ CountIsRight' BY <1>1, StaysRight
<1> QED BY <1>1, <1>2, <1>3, <1>4 DEF KnownIsRead

\* A call begins: nobody waited for it, and it knows all that is known.
LEMMA CallBegins ==
  ASSUME ReadsInv, NEW c \in Readers, job[c].step = "idle", NEW j,
         JobIsRight(j), PagesAreRight(j), PagesReachAll(j), j.knew = known.pools,
         j.step = "wait" => /\ j.on # {}
                            /\ \A d \in j.on : d \in Readers /\ Leads(job[d].step) /\ job[d].knew = known.pools,
         j.step = "countWait" => /\ j.on # {}
                                 /\ \A d \in j.on : d \in Readers /\ job[d].step = "count" /\ job[d].knew = known.pools,
         job' = [job EXCEPT ![c] = j], UNCHANGED <<now, pools, known>>
  PROVE  /\ JobsAreRight' /\ WaitersAreRight' /\ job' = [d \in Readers |-> job'[d]]
         /\ job'[c] = j /\ \A d \in Readers : d # c => job'[d] = job[d]
<1> USE DEF ReadsInv
<1>1. job' = [d \in Readers |-> IF d = c THEN j ELSE job[d]] BY DEF ReadsTyped
<1>2. job'[c] = j /\ \A d \in Readers : d # c => job'[d] = job[d] BY <1>1
<1>3. \A d \in Readers : JobIsRight(job'[d]) /\ PagesAreRight(job'[d]) /\ PagesReachAll(job'[d])
  BY <1>1 DEF JobsAreRight
<1>4. JobsAreRight' BY <1>3 DEF JobsAreRight, JobIsRight, PagesAreRight, PagesReachAll
<1>5. \A d \in Readers : Leads(job[d].step) => d # c BY DEF Leads
<1>6. WaitersAreRight' BY <1>2, <1>5 DEF WaitersAreRight, Leads
<1> QED BY <1>1, <1>2, <1>4, <1>6

\* What a driver begins with
LEMMA DrivingIsRight ==
  ASSUME ReadsInv, NEW step \in {"count", "countWait", "pages"}, NEW on, NEW items,
         DOMAIN items \subseteq Nat,
         \A i \in DOMAIN items : IsItem(items[i]) /\ items[i].offset \in Nat /\ items[i].limit \in Nat
                                 /\ items[i].st = "waiting",
         step = "count" => DOMAIN items = {1} /\ items[1].offset = 0 /\ items[1].limit = MaxPools,
         step = "countWait" => DOMAIN items = {},
         step = "pages" => \A x \in 1..known.pools : \E i \in DOMAIN items : Within(items[i], x)
  PROVE  LET j == Driving(step, on, items) IN
         /\ JobIsRight(j) /\ PagesAreRight(j) /\ PagesReachAll(j)
         /\ j.step = step /\ j.on = on /\ j.knew = known.pools
<1> DEFINE j == Driving(step, on, items)
<1>1. /\ IsJob(j) /\ j.step = step /\ j.on = on /\ j.knew = known.pools /\ j.items = items
      /\ j.deadline = now + ReadDeadline
  BY DEF Driving, IsJob
<1>2. ReadDeadline \in Nat /\ known.pools \in Nat /\ known.pools <= pools /\ now \in Nat
  BY ReadsAssumption DEF PolicyIsValid, ReadsInv, ReadsTyped
<1> HIDE DEF j
<1>3. JobIsRight(j) BY <1>1, <1>2 DEF JobIsRight
<1>4. PagesAreRight(j) BY <1>1 DEF PagesAreRight
<1>5. PagesReachAll(j) BY <1>1 DEF PagesReachAll
<1> QED BY <1>1, <1>3, <1>4, <1>5 DEF j

\* The record of a call that joined drivers.
LEMMA WaitingJob ==
  ASSUME NEW by, NEW knew
  PROVE  [Quiet EXCEPT !.step = "wait", !.on = by, !.knew = knew] =
           [step |-> "wait", on |-> by, deadline |-> 0, items |-> <<>>, knew |-> knew]
<1> DEFINE first == [Quiet EXCEPT !.step = "wait"]
           second == [first EXCEPT !.on = by]
<1>1. first = [step |-> "wait", on |-> {}, deadline |-> 0, items |-> <<>>, knew |-> 0]
  <2> DEFINE none == <<>>
             quiet == [step |-> "idle", on |-> {}, deadline |-> 0, items |-> none, knew |-> 0]
  <2>1. Quiet = quiet BY DEF Quiet
  <2> HIDE DEF none
  <2>2. [quiet EXCEPT !.step = "wait"] = [step |-> "wait", on |-> {}, deadline |-> 0, items |-> none, knew |-> 0]
    OBVIOUS
  <2> QED BY <2>1, <2>2 DEF none
<1> HIDE DEF first
<1>2. second = [step |-> "wait", on |-> by, deadline |-> 0, items |-> <<>>, knew |-> 0] BY <1>1
<1>3. [Quiet EXCEPT !.step = "wait", !.on = by, !.knew = knew] = [second EXCEPT !.knew = knew] BY DEF Quiet, first
<1> HIDE DEF second
<1> QED BY <1>2, <1>3

\* getCatalog: it takes what is cached, joins the drivers, or becomes one.
LEMMA GetStep == ASSUME ReadsInv, NEW c \in Readers, NEW k \in Catalogs, GetCatalog(c, k) PROVE ReadsInv'
<1> USE DEF ReadsInv
<1>1. job[c].step = "idle" /\ UNCHANGED <<now, pools, known>> BY DEF GetCatalog
<1>2. CASE FreshEntry(k) /\ missed' = (1..known.pools) \ entry[k].value /\ UNCHANGED <<job, entry, countSlot>>
  <2>1. 1..known.pools \subseteq entry[k].value BY <1>2 DEF FreshEntry, EntriesAreRight
  <2>2. missed' = missed BY <1>2, <2>1 DEF KnownIsRead
  <2> QED BY <1>1, <1>2, <2>2, ReadsRest DEF readsVars
<1>3. ASSUME entry[k].st = "pending", UNCHANGED <<missed, entry, countSlot>>,
             job' = [job EXCEPT ![c] = [Quiet EXCEPT !.step = "wait", !.on = entry[k].by, !.knew = known.pools]]
      PROVE  ReadsInv'
  <2> DEFINE by == entry[k].by
             knew == known.pools
             j == [step |-> "wait", on |-> by, deadline |-> 0, items |-> <<>>, knew |-> knew]
  <2>1. [Quiet EXCEPT !.step = "wait", !.on = by, !.knew = knew] = j BY WaitingJob
  <2>2. job' = [job EXCEPT ![c] = j] BY <1>3, <2>1
  <2>3. by # {} /\ \A d \in by : d \in Readers /\ Leads(job[d].step) /\ job[d].knew = knew
    BY <1>3 DEF EntriesAreRight
  <2>4. /\ IsJob(j) /\ j.step = "wait" /\ j.on = by /\ j.knew = knew /\ j.items = <<>> /\ j.deadline = 0 BY DEF IsJob
  <2>5. knew \in Nat /\ knew <= pools /\ now \in Nat /\ ReadDeadline \in Nat
    BY ReadsAssumption DEF PolicyIsValid, ReadsTyped
  <2>6. DOMAIN j.items = {} BY <2>4
  <2> HIDE DEF j, by, knew
  <2>7. JobIsRight(j) BY <2>4, <2>5, <2>6 DEF JobIsRight
  <2>8. PagesAreRight(j) /\ PagesReachAll(j) BY <2>4, <2>6 DEF PagesAreRight, PagesReachAll
  <2>9. /\ JobsAreRight' /\ WaitersAreRight' /\ job' = [d \in Readers |-> job'[d]]
        /\ job'[c] = j /\ \A d \in Readers : d # c => job'[d] = job[d]
    BY <1>1, <2>2, <2>3, <2>4, <2>7, <2>8, CallBegins DEF knew
  <2>10. \A d \in Readers : Leads(job[d].step) => job'[d] = job[d] BY <1>1, <2>9 DEF Leads
  <2>11. EntriesAreRight' BY <1>1, <1>3, <2>10 DEF EntriesAreRight
  <2>12. CountIsRight' BY <1>1, <1>3, <2>10 DEF CountIsRight, Leads
  <2>13. ReadsTyped' BY <1>1, <1>3, <2>9 DEF ReadsTyped, IsSlot
  <2>14. KnownIsRead' BY <1>3 DEF KnownIsRead
  <2> QED BY <2>9, <2>11, <2>12, <2>13, <2>14
<1>4. ASSUME entry[k].st # "pending", UNCHANGED missed,
             entry' = [entry EXCEPT ![k] = [NoEntry EXCEPT !.st = "pending", !.by = {c}]],
             NEW j, JobIsRight(j), PagesAreRight(j), PagesReachAll(j), j.knew = known.pools, Leads(j.step),
             j.step = "countWait" => /\ j.on # {}
                                     /\ \A d \in j.on : d \in Readers /\ job[d].step = "count" /\ job[d].knew = known.pools,
             job' = [job EXCEPT ![c] = j],
             \/ countSlot' = countSlot
             \/ j.step = "count" /\ countSlot' = [st |-> "pending", by |-> {c}, until |-> now + Ttl, value |-> {}]
      PROVE  ReadsInv'
  <2>1. j.step # "wait" BY <1>4 DEF Leads
  <2>2. /\ JobsAreRight' /\ WaitersAreRight' /\ job' = [d \in Readers |-> job'[d]]
        /\ job'[c] = j /\ \A d \in Readers : d # c => job'[d] = job[d]
    BY <1>1, <1>4, <2>1, CallBegins
  <2> DEFINE e == [st |-> "pending", by |-> {c}, until |-> 0, value |-> {}]
  <2>3. [NoEntry EXCEPT !.st = "pending", !.by = {c}] = e
    <3> DEFINE first == [NoEntry EXCEPT !.st = "pending"]
               by == {c}
    <3> HIDE DEF by
    <3>1. first = [st |-> "pending", by |-> {}, until |-> 0, value |-> {}] BY DEF NoEntry
    <3>2. [NoEntry EXCEPT !.st = "pending", !.by = by] = [first EXCEPT !.by = by] BY DEF NoEntry
    <3> HIDE DEF first
    <3>3. [first EXCEPT !.by = by] = [st |-> "pending", by |-> by, until |-> 0, value |-> {}] BY <3>1
    <3> QED BY <3>2, <3>3 DEF by
  <2>4. entry' = [m \in Catalogs |-> IF m = k THEN e ELSE entry[m]] BY <1>4, <2>3 DEF ReadsTyped
  <2>5. IsSlot(e) /\ e.st = "pending" /\ e.by = {c} BY DEF IsSlot
  <2> HIDE DEF e
  <2>6. \A d \in Readers : Leads(job[d].step) => d # c /\ job'[d] = job[d] BY <1>1, <2>2 DEF Leads
  <2>7. EntriesAreRight'
    <3>1. ASSUME NEW m \in Catalogs
          PROVE  /\ \A d \in entry'[m].by : d \in Readers /\ Leads(job'[d].step) /\ job'[d].knew = known.pools
                 /\ entry'[m].st = "pending" => entry'[m].by # {}
                 /\ entry'[m].st = "value" => 1..known.pools \subseteq entry'[m].value
      <4>1. CASE m = k BY <1>4, <2>2, <2>4, <2>5, <4>1
      <4>2. CASE m # k
        <5>1. entry'[m] = entry[m] BY <2>4, <4>2
        <5> QED BY <2>6, <5>1 DEF EntriesAreRight
      <4> QED BY <4>1, <4>2
    <3> QED BY <1>1, <3>1 DEF EntriesAreRight
  <2>8. CountIsRight' /\ IsSlot(countSlot)'
    <3>1. CASE countSlot' = countSlot
      BY <1>1, <2>6, <3>1 DEF CountIsRight, Leads, ReadsTyped, IsSlot
    <3>2. CASE j.step = "count" /\ countSlot' = [st |-> "pending", by |-> {c}, until |-> now + Ttl, value |-> {}]
      <4>1. countSlot'.st = "pending" /\ countSlot'.by = {c} /\ IsSlot(countSlot)' BY <3>2 DEF IsSlot
      <4> QED BY <1>1, <1>4, <2>2, <3>2, <4>1 DEF CountIsRight
    <3> QED BY <1>4, <3>1, <3>2
  <2>9. ReadsTyped' BY <1>1, <2>2, <2>4, <2>5, <2>8 DEF ReadsTyped, IsSlot
  <2>10. KnownIsRead' BY <1>4 DEF KnownIsRead
  <2> QED BY <2>2, <2>7, <2>8, <2>9, <2>10
<1>5. ASSUME ~FreshEntry(k), entry[k].st # "pending", UNCHANGED missed,
             entry' = [entry EXCEPT ![k] = [NoEntry EXCEPT !.st = "pending", !.by = {c}]],
             countSlot' = [st |-> "pending", by |-> {c}, until |-> now + Ttl, value |-> {}],
             job' = [job EXCEPT ![c] = Driving("count", {}, <<NewItem(0, MaxPools)>>)]
      PROVE  ReadsInv'
  <2> DEFINE items == <<NewItem(0, MaxPools)>>
             j == Driving("count", {}, items)
  <2>1. DOMAIN items = {1} /\ items[1] = NewItem(0, MaxPools) OBVIOUS
  <2>2. /\ IsItem(items[1]) /\ items[1].offset = 0 /\ items[1].limit = MaxPools /\ items[1].st = "waiting"
        /\ MaxPools \in Nat
    BY <2>1, ReadsAssumption DEF NewItem, IsItem
  <2> HIDE DEF items
  <2>3. JobIsRight(j) /\ PagesAreRight(j) /\ PagesReachAll(j) /\ j.step = "count" /\ j.knew = known.pools
    BY <2>1, <2>2, DrivingIsRight
  <2>4. job' = [job EXCEPT ![c] = j] BY <1>5 DEF items
  <2> HIDE DEF j
  <2> QED BY <1>4, <1>5, <2>3, <2>4 DEF Leads
<1>6. ASSUME entry[k].st # "pending", UNCHANGED <<missed, countSlot>>, countSlot.st = "pending",
             entry' = [entry EXCEPT ![k] = [NoEntry EXCEPT !.st = "pending", !.by = {c}]],
             job' = [job EXCEPT ![c] = Driving("countWait", countSlot.by, <<>>)]
      PROVE  ReadsInv'
  <2> DEFINE by == countSlot.by
             j == Driving("countWait", by, <<>>)
  <2>1. by # {} /\ \A d \in by : d \in Readers /\ job[d].step = "count" /\ job[d].knew = known.pools
    BY <1>6 DEF CountIsRight
  <2> HIDE DEF by
  <2>2. JobIsRight(j) /\ PagesAreRight(j) /\ PagesReachAll(j) /\ j.step = "countWait" /\ j.knew = known.pools /\ j.on = by
    BY DrivingIsRight
  <2>3. job' = [job EXCEPT ![c] = j] BY <1>6 DEF by
  <2> HIDE DEF j
  <2> QED BY <1>4, <1>6, <2>1, <2>2, <2>3 DEF Leads
<1>7. ASSUME entry[k].st # "pending", UNCHANGED <<missed, countSlot>>, countSlot.st # "pending", FreshCount,
             entry' = [entry EXCEPT ![k] = [NoEntry EXCEPT !.st = "pending", !.by = {c}]],
             job' = [job EXCEPT ![c] = Driving("pages", {}, Pages(Cardinality(countSlot.value)))]
      PROVE  ReadsInv'
  <2> DEFINE n == Cardinality(countSlot.value)
             items == Pages(n)
             j == Driving("pages", {}, items)
  <2>1. n \in Nat /\ known.pools <= n BY <1>7 DEF CountIsRight, FreshCount
  <2> HIDE DEF n
  <2>2. /\ \A i \in DOMAIN items : IsItem(items[i]) /\ items[i].offset \in Nat /\ items[i].limit \in Nat
                                   /\ items[i].st = "waiting"
        /\ \A x \in 1..n : \E i \in DOMAIN items : Within(items[i], x)
    BY <2>1, PagesReach
  <2>3. DOMAIN items \subseteq Nat BY DEF Pages
  <2>4. known.pools \in Nat BY DEF ReadsTyped
  <2> HIDE DEF items
  <2>5. \A x \in 1..known.pools : \E i \in DOMAIN items : Within(items[i], x) BY <2>1, <2>2, <2>4
  <2>6. JobIsRight(j) /\ PagesAreRight(j) /\ PagesReachAll(j) /\ j.step = "pages" /\ j.knew = known.pools
    BY <2>2, <2>3, <2>5, DrivingIsRight
  <2>7. job' = [job EXCEPT ![c] = j] BY <1>7 DEF items, n
  <2> HIDE DEF j
  <2> QED BY <1>4, <1>7, <2>6, <2>7 DEF Leads
<1> QED BY <1>2, <1>3, <1>5, <1>6, <1>7 DEF GetCatalog

\* Every step of the part keeps the invariant.
LEMMA ReadsStep == ASSUME ReadsInv, [ReadsNext]_readsVars PROVE ReadsInv'
BY GetStep, ItemsStep, CountStep, PagesStep, InvalidStep, TimesStep, ReadsRest DEF ReadsNext

\* The invariant, where the reads run
ReadingInv == running = "reads" => ReadsInv
\* In every behaviour of the composition, with any number of readers, catalogs, retries and
\* urls, a cached catalog holds all that was known at the last invalidation, and whoever waits
\* waits for a call that has a timer and is itself not past the deadline
\* (internal/caches.ts, internal/rpc-executor.ts).
THEOREM ReadsAlwaysAnswer == InfraSpec => []ReadsAnswer
<1>1. InfraInit => ReadingInv BY ReadsStart DEF InfraInit, ReadingInv
<1>2. ReadingInv /\ [InfraNext]_infraVars => ReadingInv'
  <2> SUFFICES ASSUME ReadingInv, [InfraNext]_infraVars PROVE ReadingInv' OBVIOUS
  <2>1. UNCHANGED running BY DEF InfraNext, Only, infraVars
  <2>2. running = "reads" => [ReadsNext]_readsVars
    BY DEF InfraNext, Only, infraVars
  <2> QED BY <2>1, <2>2, ReadsStep DEF ReadingInv
<1>3. ReadingInv => ReadsAnswer BY ReadsAreTrue DEF ReadingInv, ReadsAnswer
<1> QED BY <1>1, <1>2, <1>3, PTL DEF InfraSpec
-----------------------------------------------------------------------------
(***************************************************************************)
(* socket.ts: a transfer runs as it was quoted, and is shown as completed  *)
(* only for a delivery that is in the other chain and paid the minimum,    *)
(* though receipt and block are read one after the other and the chain may *)
(* be replaced in between.  The invariant says what a caller knows at each *)
(* of its awaits: that its route was quoted for its request, that its      *)
(* workflow is that of the route, and that a block read at the present     *)
(* fork is the block of a delivery that stands.                            *)
(***************************************************************************)

\* Quotes, deliveries, workflows and callers
QuoteRecord == [request : Transfers, approval : BOOLEAN, expires : Int]
DeliveryRecord == [block : Int, ok : BOOLEAN, paid : Int]
FlowSteps == Seq({"reset", "approve", "submit"})
FlowRecord == [route : Nat, steps : FlowSteps, done : Int, st : {"none", "open", "failed", "completed"}]
Paid == Seq(Int)
BridgeCaller ==
  [at : {"none", "quoting", "planning", "creating", "saving", "receipt", "block"},
   key : BridgeKeys \cup {"none"}, request : Transfers \cup {NoTransfer}, route : Nat,
   steps : FlowSteps \cup Paid, block : Int]

\* The variables hold values of the code.
TransferTyped ==
  /\ bridgeTime \in Int /\ fork \in Nat
  /\ quotes \in Seq(QuoteRecord) /\ deliveries \in Seq(DeliveryRecord)
  /\ Len(deliveries) = Len(quotes)
  /\ records \in [BridgeKeys -> [request : Transfers \cup {NoTransfer}, route : Nat]]
  /\ flows \in [BridgeKeys -> FlowRecord] /\ callers \in [BridgeProcs -> BridgeCaller]

\* A route that was quoted for a request
QuotedFor(route, request) ==
  route \in 1..Len(quotes) /\ request # NoTransfer /\ quotes[route].request = request

\* What a caller knows at each await
CallerIsRight(c) ==
  /\ c.at \in {"quoting", "planning", "creating", "saving"} => c.key \in BridgeKeys /\ c.request \in Transfers
  /\ c.at \in {"planning", "creating", "saving"} => QuotedFor(c.route, c.request)
  /\ c.at = "creating" => c.steps \in FlowSteps
  /\ c.at = "saving" => flows[c.key].route = c.route /\ flows[c.key].st # "none"
  /\ c.at \in {"receipt", "block"} => c.route \in 1..Len(deliveries) /\ Submitted(c.route)
  /\ c.at = "block" =>
       /\ c.block <= fork + 1
       /\ c.block = fork + 1 =>
            /\ deliveries[c.route].block # 0 /\ deliveries[c.route].ok
            /\ deliveries[c.route].paid = c.steps[1]
CallersAreRight == \A p \in BridgeProcs : CallerIsRight(callers[p])

\* The record of a key names a route quoted for its request, and its workflow runs that route.
RecordsAreBound ==
  \A k \in BridgeKeys : records[k] # NoBridgeRecord =>
    /\ QuotedFor(records[k].route, records[k].request)
    /\ flows[k].route = records[k].route /\ flows[k].st # "none"
\* A delivery is in no block, or in one of the present fork; what is verified was paid.
DeliveredNow == \A r \in 1..Len(deliveries) : deliveries[r].block \in {0, fork + 1}
VerifiedArePaid ==
  \A r \in verified : /\ r \in 1..Len(deliveries) /\ Submitted(r)
                      /\ deliveries[r].block # 0 /\ deliveries[r].ok /\ deliveries[r].paid >= MinOut

\* The inductive invariant of the transfers
TransferInv == TransferTyped /\ CallersAreRight /\ RecordsAreBound /\ DeliveredNow /\ VerifiedArePaid

\* The lists of steps that occur
LEMMA StepsAreLists ==
  /\ <<>> \in FlowSteps /\ <<"submit">> \in FlowSteps /\ <<"approve", "submit">> \in FlowSteps
  /\ <<"reset", "approve", "submit">> \in FlowSteps
  /\ \A paid \in Int : <<paid>> \in Paid
<1> DEFINE Names == {"reset", "approve", "submit"}
<1>1. "reset" \in Names /\ "approve" \in Names /\ "submit" \in Names OBVIOUS
<1>2. FlowSteps = Seq(Names) BY DEF FlowSteps
<1> HIDE DEF Names
<1>3. <<>> \in FlowSteps /\ <<"submit">> \in FlowSteps BY <1>1, <1>2
<1>4. <<"approve", "submit">> \in FlowSteps BY <1>1, <1>2
<1>5. <<"reset", "approve", "submit">> \in FlowSteps BY <1>1, <1>2
<1> QED BY <1>3, <1>4, <1>5 DEF Paid

\* It holds at the beginning, and implies what the run checks.
LEMMA TransferStarts == TransferInit => TransferInv
<1> SUFFICES ASSUME TransferInit PROVE TransferInv OBVIOUS
<1>1. TransferTyped
  <2>1. NoFlow \in FlowRecord BY StepsAreLists DEF NoFlow, FlowRecord
  <2>2. Resting \in BridgeCaller BY StepsAreLists DEF Resting, BridgeCaller
  <2>3. <<>> \in Seq(QuoteRecord) /\ <<>> \in Seq(DeliveryRecord) OBVIOUS
  <2>4. NoBridgeRecord \in [request : Transfers \cup {NoTransfer}, route : Nat] BY DEF NoBridgeRecord
  <2> QED BY <2>1, <2>2, <2>3, <2>4 DEF TransferInit, TransferTyped
<1>2. CallersAreRight BY DEF TransferInit, CallersAreRight, CallerIsRight, Resting
<1>3. RecordsAreBound BY DEF TransferInit, RecordsAreBound
<1>4. DeliveredNow /\ VerifiedArePaid BY DEF TransferInit, DeliveredNow, VerifiedArePaid
<1> QED BY <1>1, <1>2, <1>3, <1>4 DEF TransferInv

LEMMA TransferIsTrue == TransferInv => BridgeIsTrue
BY DEF TransferInv, BridgeIsTrue, BridgeIsBound, VerifiedIsPaid, RecordsAreBound, VerifiedArePaid, QuotedFor

\* What a step of one caller leaves to the others
LEMMA CallerStep ==
  ASSUME TransferInv, NEW p \in BridgeProcs, NEW c \in BridgeCaller, CallerBecomes(p, c),
         UNCHANGED <<quotes, records, flows, deliveries, fork, verified, bridgeTime>>,
         CallerIsRight(c)
  PROVE  TransferInv'
<1> USE DEF TransferInv
<1>1. callers' \in [BridgeProcs -> BridgeCaller] /\ callers'[p] = c
      /\ \A q \in BridgeProcs : q # p => callers'[q] = callers[q]
  BY DEF CallerBecomes, TransferTyped
<1>2. TransferTyped' BY <1>1 DEF TransferTyped
<1>3. \A d : CallerIsRight(d) => CallerIsRight(d)' BY DEF CallerIsRight, QuotedFor, Submitted
<1>4. CallersAreRight'
  <2>1. \A q \in BridgeProcs : CallerIsRight(callers'[q]) BY <1>1 DEF CallersAreRight
  <2> QED BY <1>3, <2>1 DEF CallersAreRight, CallerIsRight, QuotedFor, Submitted
<1>5. RecordsAreBound' BY DEF RecordsAreBound, QuotedFor
<1>6. DeliveredNow' /\ VerifiedArePaid' BY DEF DeliveredNow, VerifiedArePaid, Submitted
<1> QED BY <1>2, <1>4, <1>5, <1>6

\* The steps of a caller that move nothing but itself
LEMMA TakesStep ==
  ASSUME TransferInv, NEW p \in BridgeProcs,
         \/ \E k \in BridgeKeys : AskStatus(p, k) \/ \E t \in Transfers : PrepareBridge(p, k, t)
         \/ LayOutSteps(p) \/ GivesUp(p) \/ ReadReceipt(p)
  PROVE  TransferInv'
<1> USE DEF TransferInv, Caller
<1>1. callers[p] \in BridgeCaller /\ CallerIsRight(callers[p]) BY DEF TransferTyped, CallersAreRight
<1>2. Resting \in BridgeCaller /\ CallerIsRight(Resting) BY StepsAreLists DEF Resting, BridgeCaller, CallerIsRight
<1>3. ASSUME NEW k \in BridgeKeys, AskStatus(p, k) PROVE TransferInv'
  <2> DEFINE c == [Resting EXCEPT !.at = "receipt", !.key = k, !.route = records[k].route]
  <2>1. CallerBecomes(p, c) /\ records[k] # NoBridgeRecord /\ flows[k].st = "completed"
        /\ UNCHANGED <<quotes, records, flows, deliveries, fork, verified, bridgeTime>>
    BY <1>3 DEF AskStatus
  <2>a. records[k].route \in Nat BY DEF TransferTyped
  <2>2. c \in BridgeCaller
    <3>1. "receipt" \in {"none", "quoting", "planning", "creating", "saving", "receipt", "block"} OBVIOUS
    <3>2. k \in BridgeKeys \cup {"none"} OBVIOUS
    <3> DEFINE route == records[k].route
    <3>3. [Resting EXCEPT !.at = "receipt", !.key = k, !.route = route] \in BridgeCaller
      <4>1. route \in Nat BY <2>a
      <4> HIDE DEF route
      <4> QED BY <1>2, <3>1, <3>2, <4>1 DEF BridgeCaller
    <3> QED BY <3>3
  <2>3. c.at = "receipt" /\ c.route = records[k].route BY <1>2 DEF BridgeCaller
  <2>4. records[k].route \in 1..Len(deliveries) /\ Submitted(records[k].route)
    BY <2>1 DEF RecordsAreBound, QuotedFor, TransferTyped, Submitted
  <2>5. CallerIsRight(c) BY <2>3, <2>4 DEF CallerIsRight
  <2> HIDE DEF c
  <2> QED BY <2>1, <2>2, <2>5, CallerStep
<1>4. ASSUME NEW k \in BridgeKeys, NEW t \in Transfers, PrepareBridge(p, k, t) PROVE TransferInv'
  <2> DEFINE c == [Resting EXCEPT !.at = "quoting", !.key = k, !.request = t]
  <2>1. CallerBecomes(p, c) /\ UNCHANGED <<quotes, records, flows, deliveries, fork, verified, bridgeTime>>
    BY <1>4 DEF PrepareBridge
  <2>2. c \in BridgeCaller BY <1>2 DEF BridgeCaller
  <2>3. c.at = "quoting" /\ c.key = k /\ c.request = t BY <1>2 DEF BridgeCaller
  <2>4. CallerIsRight(c) BY <2>3 DEF CallerIsRight
  <2> HIDE DEF c
  <2> QED BY <2>1, <2>2, <2>4, CallerStep
<1>5. CASE LayOutSteps(p)
  <2> DEFINE c == [callers[p] EXCEPT !.at = "creating", !.steps = StepsFor(callers[p].route)]
  <2>1. CallerBecomes(p, c) /\ callers[p].at = "planning"
        /\ UNCHANGED <<quotes, records, flows, deliveries, fork, verified, bridgeTime>>
    BY <1>5 DEF LayOutSteps
  <2>2. StepsFor(callers[p].route) \in FlowSteps BY StepsAreLists DEF StepsFor
  <2>3. c \in BridgeCaller BY <1>1, <2>2 DEF BridgeCaller
  <2>4. c.at = "creating" /\ c.key = callers[p].key /\ c.request = callers[p].request /\ c.route = callers[p].route
        /\ c.steps \in FlowSteps
    BY <1>1, <2>2 DEF BridgeCaller
  <2>5. CallerIsRight(c) BY <1>1, <2>1, <2>4 DEF CallerIsRight
  <2> HIDE DEF c
  <2> QED BY <2>1, <2>3, <2>5, CallerStep
<1>6. CASE GivesUp(p)
  <2>1. CallerBecomes(p, Resting) /\ UNCHANGED <<quotes, records, flows, deliveries, fork, verified, bridgeTime>>
    BY <1>6 DEF GivesUp
  <2> QED BY <1>2, <2>1, CallerStep
<1>7. CASE ReadReceipt(p)
  <2> DEFINE r == callers[p].route
             c == [callers[p] EXCEPT !.at = "block", !.block = deliveries[r].block, !.steps = <<deliveries[r].paid>>]
  <2>1. /\ CallerBecomes(p, IF deliveries[r].ok THEN c ELSE Resting)
        /\ callers[p].at = "receipt" /\ deliveries[r].block # 0
        /\ UNCHANGED <<quotes, records, flows, deliveries, fork, verified, bridgeTime>>
    BY <1>7 DEF ReadReceipt
  <2>2. r \in 1..Len(deliveries) /\ Submitted(r) BY <1>1, <2>1 DEF CallerIsRight
  <2>3. deliveries[r] \in DeliveryRecord BY <2>2 DEF TransferTyped
  <2>4. CASE deliveries[r].ok
    <3>1. <<deliveries[r].paid>> \in Paid BY <2>3, StepsAreLists DEF DeliveryRecord
    <3>2. c \in BridgeCaller BY <1>1, <2>3, <3>1 DEF BridgeCaller, DeliveryRecord
    <3>3. c.at = "block" /\ c.route = r /\ c.block = deliveries[r].block /\ c.steps[1] = deliveries[r].paid
      BY <1>1 DEF BridgeCaller
    <3>4. deliveries[r].block = fork + 1 BY <2>1, <2>2 DEF DeliveredNow
    <3>5. CallerIsRight(c) BY <2>1, <2>2, <2>4, <3>3, <3>4 DEF CallerIsRight, TransferTyped
    <3>6. CallerBecomes(p, c) BY <2>1, <2>4
    <3> HIDE DEF c, r
    <3> QED BY <2>1, <3>2, <3>5, <3>6, CallerStep
  <2>5. CASE ~deliveries[r].ok
    <3>1. CallerBecomes(p, Resting) BY <2>1, <2>5
    <3> QED BY <1>2, <2>1, <3>1, CallerStep
  <2> QED BY <2>4, <2>5
<1> QED BY <1>3, <1>4, <1>5, <1>6, <1>7

\* A route is added: what is known of the others stays.
LEMMA QuoteStep == ASSUME TransferInv, NEW p \in BridgeProcs, Quote(p) PROVE TransferInv'
<1> USE DEF TransferInv, Caller
<1>1. callers[p] \in BridgeCaller /\ CallerIsRight(callers[p]) BY DEF TransferTyped, CallersAreRight
<1> DEFINE n == Len(quotes) + 1
           c == [callers[p] EXCEPT !.at = "planning", !.route = n]
<1>2. PICK approval \in BOOLEAN :
        /\ callers[p].at = "quoting"
        /\ quotes' = Append(quotes, [request |-> callers[p].request, approval |-> approval,
                                     expires |-> bridgeTime + QuoteLife])
        /\ deliveries' = Append(deliveries, Undelivered)
        /\ CallerBecomes(p, c)
        /\ UNCHANGED <<bridgeTime, records, flows, allowance, spent, fork, verified>>
  BY DEF Quote
<1> DEFINE q == [request |-> callers[p].request, approval |-> approval, expires |-> bridgeTime + QuoteLife]
<1>3. callers[p].key \in BridgeKeys /\ callers[p].request \in Transfers BY <1>1, <1>2 DEF CallerIsRight
<1>4. q \in QuoteRecord BY <1>3, TransferAssumption DEF QuoteRecord, TransferTyped
<1>5. Undelivered \in DeliveryRecord BY DEF Undelivered, DeliveryRecord
<1>6. Len(quotes) \in Nat /\ quotes \in Seq(QuoteRecord) /\ deliveries \in Seq(DeliveryRecord)
      /\ Len(deliveries) = Len(quotes) BY DEF TransferTyped
<1>7. quotes' = Append(quotes, q) BY <1>2
<1>8. q.request = callers[p].request OBVIOUS
<1> HIDE DEF q
<1>9. /\ quotes' \in Seq(QuoteRecord) /\ Len(quotes') = n /\ quotes'[n] = q
      /\ \A i \in 1..Len(quotes) : quotes'[i] = quotes[i]
  BY <1>4, <1>6, <1>7
<1>10. /\ deliveries' \in Seq(DeliveryRecord) /\ Len(deliveries') = n /\ deliveries'[n] = Undelivered
       /\ \A i \in 1..Len(deliveries) : deliveries'[i] = deliveries[i]
  BY <1>2, <1>5, <1>6
<1>11. c \in BridgeCaller /\ c.at = "planning" /\ c.key = callers[p].key /\ c.request = callers[p].request /\ c.route = n
  <2>1. n \in Nat BY <1>6
  <2> HIDE DEF n
  <2> QED BY <1>1, <2>1 DEF BridgeCaller
<1>12. \A r, t : QuotedFor(r, t) => QuotedFor(r, t)'
  BY <1>6, <1>9 DEF QuotedFor
<1>13. \A r : Submitted(r)' <=> Submitted(r) BY <1>2 DEF Submitted
<1>14. callers' \in [BridgeProcs -> BridgeCaller] /\ callers'[p] = c
       /\ \A o \in BridgeProcs : o # p => callers'[o] = callers[o]
  <2> HIDE DEF c
  <2> QED BY <1>2, <1>11 DEF CallerBecomes, TransferTyped
<1> HIDE DEF c
<1>15. TransferTyped' BY <1>2, <1>6, <1>9, <1>10, <1>14 DEF TransferTyped
<1>16. CallersAreRight'
  <2>1. ASSUME NEW d, CallerIsRight(d) PROVE CallerIsRight(d)'
    <3>1. d.at \in {"planning", "creating", "saving"} => QuotedFor(d.route, d.request)'
      BY <1>12, <2>1 DEF CallerIsRight
    <3>2. d.at = "saving" => flows'[d.key].route = d.route /\ flows'[d.key].st # "none"
      BY <1>2, <2>1 DEF CallerIsRight
    <3>3. d.at \in {"receipt", "block"} => d.route \in 1..Len(deliveries) /\ d.route \in 1..Len(deliveries') /\ Submitted(d.route)'
      BY <1>6, <1>10, <1>13, <2>1 DEF CallerIsRight
    <3> QED BY <1>2, <1>10, <2>1, <3>1, <3>2, <3>3 DEF CallerIsRight
  <2>2. CallerIsRight(callers[p])'
    <3>1. n \in 1..Len(quotes') /\ quotes'[n].request = callers[p].request /\ callers[p].request # NoTransfer
      BY <1>3, <1>6, <1>8, <1>9, TransferAssumption
    <3> QED BY <1>3, <1>11, <1>14, <3>1 DEF CallerIsRight, QuotedFor
  <2> QED BY <1>14, <2>1, <2>2 DEF CallersAreRight
<1>17. RecordsAreBound' BY <1>2, <1>12 DEF RecordsAreBound
<1>18. DeliveredNow'
  BY <1>2, <1>6, <1>10 DEF DeliveredNow, Undelivered
<1>19. VerifiedArePaid' BY <1>2, <1>6, <1>10, <1>13 DEF VerifiedArePaid
<1> QED BY <1>15, <1>16, <1>17, <1>18, <1>19

\* What a step keeps that only moves workflows: a completed one stays, and a key
\* with a record keeps its route.
LEMMA FlowsStep ==
  ASSUME TransferInv, NEW k \in BridgeKeys, NEW f \in FlowRecord, flows' = [flows EXCEPT ![k] = f],
         flows[k].st # "none" => f.route = flows[k].route,
         flows[k].st = "completed" => f.st = "completed", f.st # "none",
         UNCHANGED <<quotes, records, deliveries, fork, verified, bridgeTime>>
  PROVE  /\ flows' \in [BridgeKeys -> FlowRecord] /\ flows'[k] = f
         /\ RecordsAreBound' /\ DeliveredNow' /\ VerifiedArePaid'
         /\ \A d : CallerIsRight(d) => CallerIsRight(d)'
<1> USE DEF TransferInv
<1>1. flows' \in [BridgeKeys -> FlowRecord] /\ flows'[k] = f /\ \A j \in BridgeKeys : j # k => flows'[j] = flows[j]
  BY DEF TransferTyped
<1>2. \A j \in BridgeKeys : /\ flows[j].st # "none" => flows'[j].route = flows[j].route /\ flows'[j].st # "none"
                            /\ flows[j].st = "completed" => flows'[j].st = "completed" /\ flows'[j].route = flows[j].route
  BY <1>1
<1>3. \A r : Submitted(r) => Submitted(r)' BY <1>2 DEF Submitted
<1>4. \A r, t : QuotedFor(r, t) => QuotedFor(r, t)' BY DEF QuotedFor
<1>5. RecordsAreBound' BY <1>2, <1>4 DEF RecordsAreBound
<1>6. DeliveredNow' /\ VerifiedArePaid' BY <1>3 DEF DeliveredNow, VerifiedArePaid
<1>7. ASSUME NEW d, CallerIsRight(d) PROVE CallerIsRight(d)'
  <2>1. d.at = "saving" => flows'[d.key].route = d.route /\ flows'[d.key].st # "none"
    BY <1>2, <1>7 DEF CallerIsRight
  <2> QED BY <1>3, <1>4, <1>7, <2>1 DEF CallerIsRight
<1> QED BY <1>1, <1>5, <1>6, <1>7

\* A workflow that is created, or found with the same steps
LEMMA CreateStep == ASSUME TransferInv, NEW p \in BridgeProcs, CreateFlow(p) PROVE TransferInv'
<1> USE DEF TransferInv, Caller
<1> DEFINE d == callers[p]
           c == [d EXCEPT !.at = "saving"]
           k == d.key
<1>1. d \in BridgeCaller /\ CallerIsRight(d) BY DEF TransferTyped, CallersAreRight
<1>2. d.at = "creating" /\ UNCHANGED <<bridgeTime, quotes, records, deliveries, fork, verified>>
  BY DEF CreateFlow
<1>3. k \in BridgeKeys /\ d.request \in Transfers /\ QuotedFor(d.route, d.request) BY <1>1, <1>2 DEF CallerIsRight
<1>4. /\ c \in BridgeCaller /\ c.at = "saving" /\ c.key = k /\ c.request = d.request /\ c.route = d.route
  BY <1>1 DEF BridgeCaller
<1>5. Resting \in BridgeCaller /\ CallerIsRight(Resting) BY StepsAreLists DEF Resting, BridgeCaller, CallerIsRight
<1>6. CASE ~SameSteps(k, d)
  <2>1. CallerBecomes(p, Resting) /\ UNCHANGED flows BY <1>6 DEF CreateFlow
  <2> QED BY <1>2, <1>5, <2>1, CallerStep
<1>7. CASE SameSteps(k, d) /\ flows[k].st # "none"
  <2>1. CallerBecomes(p, c) /\ UNCHANGED flows BY <1>7 DEF CreateFlow
  <2>2. flows[k].route = d.route BY <1>7 DEF SameSteps
  <2>3. CallerIsRight(c) BY <1>3, <1>4, <1>7, <2>2 DEF CallerIsRight
  <2> HIDE DEF c
  <2> QED BY <1>2, <1>4, <2>1, <2>3, CallerStep
<1>8. CASE SameSteps(k, d) /\ flows[k].st = "none"
  <2> DEFINE f == [route |-> d.route, steps |-> d.steps, done |-> 0, st |-> "open"]
  <2>1. CallerBecomes(p, c) /\ flows' = [flows EXCEPT ![k] = f] BY <1>8 DEF CreateFlow
  <2>2. f \in FlowRecord
    <3>1. d.route \in Nat BY <1>1 DEF BridgeCaller
    <3>2. d.steps \in FlowSteps BY <1>1, <1>2 DEF CallerIsRight
    <3> HIDE DEF d
    <3> QED BY <3>1, <3>2 DEF FlowRecord
  <2>3. f.st = "open" /\ f.route = d.route OBVIOUS
  <2> HIDE DEF f
  <2>4. /\ flows' \in [BridgeKeys -> FlowRecord] /\ flows'[k] = f
        /\ RecordsAreBound' /\ DeliveredNow' /\ VerifiedArePaid'
        /\ \A e : CallerIsRight(e) => CallerIsRight(e)'
    <3> HIDE DEF k
    <3> QED BY <1>2, <1>3, <1>8, <2>1, <2>2, <2>3, FlowsStep
  <2>5. callers' \in [BridgeProcs -> BridgeCaller] /\ callers'[p] = c
        /\ \A q \in BridgeProcs : q # p => callers'[q] = callers[q]
    <3> HIDE DEF c
    <3> QED BY <1>4, <2>1 DEF CallerBecomes, TransferTyped
  <2>6. TransferTyped' BY <1>2, <2>4, <2>5 DEF TransferTyped
  <2>7. ASSUME NEW q \in BridgeProcs PROVE CallerIsRight(callers[q])'
    <3>1. CASE q # p
      <4>1. CallerIsRight(callers[q]) /\ callers'[q] = callers[q] BY <2>5, <3>1 DEF CallersAreRight
      <4> QED BY <2>4, <4>1 DEF CallerIsRight, QuotedFor, Submitted
    <3>2. CASE q = p
      <4>1. callers'[p].at = "saving" /\ callers'[p].key = k /\ callers'[p].request = d.request /\ callers'[p].route = d.route
        BY <1>4, <2>5
      <4>2. flows'[k].route = d.route /\ flows'[k].st # "none" BY <2>3, <2>4
      <4>3. d.route \in 1..Len(quotes') /\ d.request # NoTransfer /\ quotes'[d.route].request = d.request
        BY <1>2, <1>3 DEF QuotedFor
      <4> HIDE DEF d
      <4> QED BY <1>3, <3>2, <4>1, <4>2, <4>3 DEF CallerIsRight, QuotedFor
    <3> QED BY <3>1, <3>2
  <2>8. CallersAreRight' BY <2>7 DEF CallersAreRight
  <2> QED BY <2>4, <2>6, <2>8
<1> QED BY <1>6, <1>7, <1>8

\* A step of a workflow that runs, and one that reverts
LEMMA RunStep ==
  ASSUME TransferInv, NEW k \in BridgeKeys, RunReset(k) \/ RunApprove(k) \/ RunSubmit(k) \/ StepReverts(k)
  PROVE  TransferInv'
<1> USE DEF TransferInv
<1>1. ASSUME NEW f \in FlowRecord, flows' = [flows EXCEPT ![k] = f], flows[k].st = "open",
             f.route = flows[k].route, f.st # "none", records[k] # NoBridgeRecord,
             UNCHANGED <<bridgeTime, quotes, records, callers, deliveries, fork, verified>>
      PROVE  TransferInv'
  <2>1. /\ flows' \in [BridgeKeys -> FlowRecord] /\ RecordsAreBound' /\ DeliveredNow' /\ VerifiedArePaid'
        /\ \A d : CallerIsRight(d) => CallerIsRight(d)'
    BY <1>1, FlowsStep
  <2>2. CallersAreRight'
    <3>1. \A p \in BridgeProcs : CallerIsRight(callers[p]) BY DEF CallersAreRight
    <3>2. \A p \in BridgeProcs : CallerIsRight(callers[p])'
      BY <1>1, <2>1, <3>1 DEF CallerIsRight, QuotedFor, Submitted
    <3> QED BY <3>2 DEF CallersAreRight
  <2>3. TransferTyped' BY <1>1, <2>1 DEF TransferTyped
  <2> QED BY <2>1, <2>2, <2>3
<1>2. flows \in [BridgeKeys -> FlowRecord] /\ flows[k] \in FlowRecord BY DEF TransferTyped
<1>3. ASSUME NEW allowed, FlowGoesOn(k, allowed) PROVE TransferInv'
  <2> DEFINE st == IF flows[k].done + 1 = Len(flows[k].steps) THEN "completed" ELSE "open"
             f == [flows[k] EXCEPT !.done = @ + 1, !.st = st]
  <2>1. st \in {"open", "completed"} OBVIOUS
  <2>2. /\ flows' = [flows EXCEPT ![k].done = @ + 1, ![k].st = st] /\ flows[k].st = "open"
        /\ records[k] # NoBridgeRecord
        /\ UNCHANGED <<bridgeTime, quotes, records, callers, deliveries, fork, verified>>
    BY <1>3 DEF FlowGoesOn
  <2> HIDE DEF st
  <2>3. f \in FlowRecord /\ f.route = flows[k].route /\ f.st = st
    <3>1. flows[k].done + 1 \in Int BY <1>2 DEF FlowRecord
    <3>2. st \in {"none", "open", "failed", "completed"} BY <2>1
    <3> QED BY <1>2, <3>1, <3>2 DEF FlowRecord
  <2>4. flows' = [flows EXCEPT ![k] = f] BY <1>2, <2>2 DEF FlowRecord
  <2> HIDE DEF f
  <2> QED BY <1>1, <2>1, <2>2, <2>3, <2>4
<1>4. CASE StepReverts(k)
  <2> DEFINE f == [flows[k] EXCEPT !.st = "failed"]
  <2>1. /\ flows' = [flows EXCEPT ![k] = f] /\ flows[k].st = "open" /\ records[k] # NoBridgeRecord
        /\ UNCHANGED <<bridgeTime, quotes, records, callers, deliveries, fork, verified>>
    BY <1>2, <1>4 DEF StepReverts, FlowRecord
  <2>2. f \in FlowRecord /\ f.route = flows[k].route /\ f.st = "failed" BY <1>2 DEF FlowRecord
  <2> HIDE DEF f
  <2> QED BY <1>1, <2>1, <2>2
<1> QED BY <1>3, <1>4 DEF RunReset, RunApprove, RunSubmit

\* The record of a key names what its caller was quoted and its workflow runs.
LEMMA SaveStep == ASSUME TransferInv, NEW p \in BridgeProcs, SaveBridge(p) PROVE TransferInv'
<1> USE DEF TransferInv, Caller
<1> DEFINE d == callers[p]
           k == d.key
           r == [request |-> d.request, route |-> d.route]
<1>1. d \in BridgeCaller /\ CallerIsRight(d) BY DEF TransferTyped, CallersAreRight
<1>2. d.at = "saving" /\ records' = [records EXCEPT ![k] = r] /\ CallerBecomes(p, Resting)
      /\ UNCHANGED <<bridgeTime, quotes, flows, deliveries, fork, verified>>
  BY DEF SaveBridge
<1>3. k \in BridgeKeys /\ d.request \in Transfers /\ QuotedFor(d.route, d.request)
      /\ flows[k].route = d.route /\ flows[k].st # "none"
  BY <1>1, <1>2 DEF CallerIsRight
<1>4. Resting \in BridgeCaller /\ \A o : CallerIsRight(Resting)
  BY StepsAreLists DEF Resting, BridgeCaller, CallerIsRight
<1>5. callers' \in [BridgeProcs -> BridgeCaller] /\ callers'[p] = Resting
      /\ \A q \in BridgeProcs : q # p => callers'[q] = callers[q]
  BY <1>2, <1>4 DEF CallerBecomes, TransferTyped
<1>6. records' \in [BridgeKeys -> [request : Transfers \cup {NoTransfer}, route : Nat]]
      /\ \A j \in BridgeKeys : j # k => records'[j] = records[j]
  <2>1. d.route \in Nat BY <1>1 DEF BridgeCaller
  <2>2. r \in [request : Transfers \cup {NoTransfer}, route : Nat]
    <3> HIDE DEF d
    <3> QED BY <1>3, <2>1
  <2> HIDE DEF r, k
  <2> QED BY <1>2, <2>2 DEF TransferTyped
<1>7. records'[k].request = d.request /\ records'[k].route = d.route
  <2> HIDE DEF d
  <2> QED BY <1>2, <1>3 DEF TransferTyped
<1>8. TransferTyped' BY <1>2, <1>5, <1>6 DEF TransferTyped
<1>9. CallersAreRight'
  <2>1. \A q \in BridgeProcs : CallerIsRight(callers'[q]) BY <1>4, <1>5 DEF CallersAreRight
  <2> QED BY <1>2, <2>1 DEF CallersAreRight, CallerIsRight, QuotedFor, Submitted
<1>10. RecordsAreBound'
  <2>1. \A a, t : QuotedFor(a, t) => QuotedFor(a, t)' BY <1>2 DEF QuotedFor
  <2> HIDE DEF d, k
  <2>2. ASSUME NEW j \in BridgeKeys, records'[j] # NoBridgeRecord
        PROVE  /\ QuotedFor(records[j].route, records[j].request)'
               /\ flows'[j].route = records'[j].route /\ flows'[j].st # "none"
    <3>1. CASE j = k BY <1>2, <1>3, <1>7, <3>1 DEF QuotedFor
    <3>2. CASE j # k
      <4>1. records[j] # NoBridgeRecord /\ records'[j] = records[j] BY <1>6, <2>2, <3>2
      <4> QED BY <1>2, <4>1 DEF RecordsAreBound, QuotedFor
    <3> QED BY <3>1, <3>2
  <2> QED BY <2>2 DEF RecordsAreBound
<1>11. DeliveredNow' /\ VerifiedArePaid' BY <1>2 DEF DeliveredNow, VerifiedArePaid, Submitted
<1> QED BY <1>8, <1>9, <1>10, <1>11

\* A block that is read says of the receipt whether it is still in the chain.
LEMMA BlockStep == ASSUME TransferInv, NEW p \in BridgeProcs, ReadBlock(p) PROVE TransferInv'
<1> USE DEF TransferInv, Caller
<1> DEFINE d == callers[p]
<1>1. d \in BridgeCaller /\ CallerIsRight(d) BY DEF TransferTyped, CallersAreRight
<1>2. /\ d.at = "block" /\ CallerBecomes(p, Resting)
      /\ verified' = IF IsCanonical(d.block) /\ Enough(d.steps[1]) THEN verified \cup {d.route} ELSE verified
      /\ UNCHANGED <<bridgeTime, quotes, records, flows, deliveries, fork>>
  BY DEF ReadBlock
<1>3. Resting \in BridgeCaller /\ CallerIsRight(Resting)
  BY StepsAreLists DEF Resting, BridgeCaller, CallerIsRight
<1>4. callers' \in [BridgeProcs -> BridgeCaller] /\ callers'[p] = Resting
      /\ \A q \in BridgeProcs : q # p => callers'[q] = callers[q]
  BY <1>2, <1>3 DEF CallerBecomes, TransferTyped
<1>5. TransferTyped' BY <1>2, <1>4 DEF TransferTyped
<1>6. CallersAreRight'
  <2>1. \A q \in BridgeProcs : CallerIsRight(callers'[q]) BY <1>3, <1>4 DEF CallersAreRight
  <2> QED BY <1>2, <2>1 DEF CallersAreRight, CallerIsRight, QuotedFor, Submitted
<1>7. RecordsAreBound' /\ DeliveredNow' BY <1>2 DEF RecordsAreBound, DeliveredNow, QuotedFor
<1>8. VerifiedArePaid'
  <2>1. \A a : Submitted(a) => Submitted(a)' BY <1>2 DEF Submitted
  <2>2. d.route \in 1..Len(deliveries) /\ Submitted(d.route) BY <1>1, <1>2 DEF CallerIsRight
  <2>3. IsCanonical(d.block) => /\ deliveries[d.route].block # 0 /\ deliveries[d.route].ok
                                /\ deliveries[d.route].paid = d.steps[1]
    BY <1>1, <1>2 DEF CallerIsRight, IsCanonical
  <2>4. \A a \in verified' : a \in verified \/ (a = d.route /\ IsCanonical(d.block) /\ d.steps[1] >= MinOut)
    BY <1>2 DEF Enough
  <2> HIDE DEF d
  <2> QED BY <1>2, <2>1, <2>2, <2>3, <2>4 DEF VerifiedArePaid
<1> QED BY <1>5, <1>6, <1>7, <1>8

\* The other chain: a delivery lands in its present blocks, and all are gone
\* when they are replaced.
LEMMA DeliverStep == ASSUME TransferInv, NEW r \in DOMAIN deliveries, Deliver(r) PROVE TransferInv'
<1> USE DEF TransferInv
<1>1. PICK ok \in BOOLEAN, paid \in 0..MinOut :
        /\ Submitted(r) /\ deliveries[r].block = 0
        /\ deliveries' = [deliveries EXCEPT ![r] = [block |-> fork + 1, ok |-> ok, paid |-> paid]]
        /\ UNCHANGED <<bridgeTime, quotes, records, flows, callers, allowance, spent, fork, verified>>
  BY DEF Deliver
<1> DEFINE d == [block |-> fork + 1, ok |-> ok, paid |-> paid]
<1>2. d \in DeliveryRecord /\ d.block = fork + 1
  BY TransferAssumption DEF DeliveryRecord, TransferTyped
<1> HIDE DEF d
<1>3. deliveries \in Seq(DeliveryRecord) /\ r \in 1..Len(deliveries) BY DEF TransferTyped
<1>4. /\ deliveries' \in Seq(DeliveryRecord) /\ Len(deliveries') = Len(deliveries) /\ deliveries'[r] = d
      /\ \A a \in 1..Len(deliveries) : a # r => deliveries'[a] = deliveries[a]
  <2>1. deliveries' = [deliveries EXCEPT ![r] = d] BY <1>1 DEF d
  <2> QED BY <1>2, <1>3, <2>1
<1>5. TransferTyped' BY <1>1, <1>4 DEF TransferTyped
<1>6. CallersAreRight'
  <2>1. ASSUME NEW p \in BridgeProcs PROVE CallerIsRight(callers[p])'
    <3>1. CallerIsRight(callers[p]) BY DEF CallersAreRight
    <3>2. callers[p].at = "block" /\ callers[p].block = fork + 1 => callers[p].route # r
      BY <1>1, <3>1 DEF CallerIsRight
    <3>3. callers[p].at \in {"receipt", "block"} => callers[p].route \in 1..Len(deliveries)
      BY <3>1 DEF CallerIsRight
    <3> QED BY <1>1, <1>4, <3>1, <3>2, <3>3 DEF CallerIsRight, QuotedFor, Submitted
  <2> QED BY <2>1 DEF CallersAreRight
<1>7. RecordsAreBound' BY <1>1 DEF RecordsAreBound, QuotedFor
<1>8. DeliveredNow' BY <1>1, <1>2, <1>4 DEF DeliveredNow
<1>9. VerifiedArePaid'
  <2>1. \A a : Submitted(a) => Submitted(a)' BY <1>1 DEF Submitted
  <2>2. r \notin verified BY <1>1 DEF VerifiedArePaid
  <2> QED BY <1>1, <1>4, <2>1, <2>2 DEF VerifiedArePaid
<1> QED BY <1>5, <1>6, <1>7, <1>8, <1>9

\* A reorganisation takes the deliveries out, and what was verified of them.
LEMMA ReorgStep == ASSUME TransferInv, Reorg PROVE TransferInv'
<1> USE DEF TransferInv
<1>1. /\ fork' = fork + 1 /\ deliveries' = [r \in DOMAIN deliveries |-> Undelivered] /\ verified' = {}
      /\ UNCHANGED <<bridgeTime, quotes, records, flows, callers, allowance, spent>>
  BY DEF Reorg
<1>2. deliveries \in Seq(DeliveryRecord) /\ fork \in Nat BY DEF TransferTyped
<1>3. Undelivered \in DeliveryRecord /\ Undelivered.block = 0 BY DEF Undelivered, DeliveryRecord
<1>4. /\ deliveries' \in Seq(DeliveryRecord) /\ Len(deliveries') = Len(deliveries)
      /\ \A a \in 1..Len(deliveries) : deliveries'[a] = Undelivered
  <2>1. DOMAIN deliveries = 1..Len(deliveries) /\ Len(deliveries) \in Nat BY <1>2
  <2>2. deliveries' \in [1..Len(deliveries) -> DeliveryRecord] BY <1>1, <1>3, <2>1
  <2> QED BY <1>1, <2>1, <2>2
<1>5. TransferTyped' BY <1>1, <1>4 DEF TransferTyped
<1>6. CallersAreRight'
  <2>1. ASSUME NEW p \in BridgeProcs PROVE CallerIsRight(callers[p])'
    <3>1. CallerIsRight(callers[p]) /\ callers[p] \in BridgeCaller BY DEF CallersAreRight, TransferTyped
    <3>2. callers[p].at = "block" => callers[p].block < fork' + 1
      BY <1>1, <1>2, <3>1 DEF CallerIsRight, BridgeCaller
    <3>3. callers[p].at = "block" => callers[p].block <= fork' + 1 /\ callers[p].block # fork' + 1
      BY <1>1, <1>2, <3>1, <3>2 DEF BridgeCaller
    <3> QED BY <1>1, <1>4, <3>1, <3>3 DEF CallerIsRight, QuotedFor, Submitted
  <2> QED BY <2>1 DEF CallersAreRight
<1>7. RecordsAreBound' BY <1>1 DEF RecordsAreBound, QuotedFor
<1>8. DeliveredNow' /\ VerifiedArePaid' BY <1>1, <1>3, <1>4 DEF DeliveredNow, VerifiedArePaid
<1> QED BY <1>5, <1>6, <1>7, <1>8

\* Steps that no caller sees
LEMMA TransferRests ==
  ASSUME TransferInv, \/ Spend \/ BridgeTick \/ UNCHANGED transferVars
  PROVE  TransferInv'
<1>1. /\ UNCHANGED <<quotes, records, flows, callers, deliveries, fork, verified>>
      /\ bridgeTime' \in {bridgeTime, bridgeTime + 1}
  BY DEF Spend, BridgeTick, transferVars
<1>2. TransferTyped' BY <1>1 DEF TransferInv, TransferTyped
<1>3. CallersAreRight' BY <1>1 DEF TransferInv, CallersAreRight, CallerIsRight, QuotedFor, Submitted
<1>4. RecordsAreBound' /\ DeliveredNow' BY <1>1 DEF TransferInv, RecordsAreBound, DeliveredNow, QuotedFor
<1>5. VerifiedArePaid' BY <1>1 DEF TransferInv, VerifiedArePaid, Submitted
<1> QED BY <1>2, <1>3, <1>4, <1>5 DEF TransferInv

\* Every step of the part keeps the invariant.
LEMMA TransferStep == ASSUME TransferInv, [TransferNext]_transferVars PROVE TransferInv'
<1>1. ASSUME NEW p \in BridgeProcs,
             \/ \E k \in BridgeKeys : AskStatus(p, k) \/ \E t \in Transfers : PrepareBridge(p, k, t)
             \/ Quote(p) \/ LayOutSteps(p) \/ CreateFlow(p) \/ SaveBridge(p) \/ GivesUp(p)
             \/ ReadReceipt(p) \/ ReadBlock(p)
      PROVE  TransferInv'
  BY <1>1, TakesStep, QuoteStep, CreateStep, SaveStep, BlockStep
<1>2. ASSUME NEW k \in BridgeKeys, RunReset(k) \/ RunApprove(k) \/ RunSubmit(k) \/ StepReverts(k)
      PROVE  TransferInv'
  BY <1>2, RunStep
<1>3. ASSUME NEW r \in DOMAIN deliveries, Deliver(r) PROVE TransferInv' BY <1>3, DeliverStep
<1> QED BY <1>1, <1>2, <1>3, ReorgStep, TransferRests DEF TransferNext

\* With any number of callers, keys, quotes and forks, the record of a key follows the route
\* that its workflow runs, which was quoted for its request, and what is told as verified is a
\* delivery in the chain that paid at least the minimum (socket.ts, README.md:52).
THEOREM BridgedAsQuoted == TransferSpec => []BridgeIsTrue
<1>1. TransferInv /\ [TransferNext]_transferVars => TransferInv' BY TransferStep
<1> QED BY <1>1, TransferStarts, TransferIsTrue, PTL DEF TransferSpec

\* The invariant, where the transfers run
BridgeInv == running = "bridge" => TransferInv
\* The same in every behaviour of the composition
THEOREM BridgeStays == InfraSpec => []BridgeHolds
<1>1. InfraInit => BridgeInv BY TransferStarts DEF InfraInit, BridgeInv
<1>2. BridgeInv /\ [InfraNext]_infraVars => BridgeInv'
  <2> SUFFICES ASSUME BridgeInv, [InfraNext]_infraVars PROVE BridgeInv' OBVIOUS
  <2>1. UNCHANGED running BY DEF InfraNext, Only, infraVars
  <2>2. running = "bridge" => [TransferNext]_transferVars
    BY DEF InfraNext, Only, infraVars
  <2> QED BY <2>1, <2>2, TransferStep DEF BridgeInv
<1>3. BridgeInv => BridgeHolds BY TransferIsTrue DEF BridgeInv, BridgeHolds
<1> QED BY <1>1, <1>2, <1>3, PTL DEF InfraSpec
=============================================================================
