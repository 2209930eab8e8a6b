--------------------------- MODULE ServicesProofs ---------------------------
(***************************************************************************)
(* Theorems about Monitor, Batch, SmartExecution, SafeRelay and Workflow,  *)
(* for any number of clients, processes, windows, transactions, owners,    *)
(* steps, crashes and reorganisations; and about the composition of these  *)
(* with SendPlan that MCServices is.                                       *)
(***************************************************************************)
EXTENDS MCServices, SendPlanProofs, TLAPS

-----------------------------------------------------------------------------
(***************************************************************************)
(* Monitor. The invariant says what a block b read from the chain makes    *)
(* certain later on: while b is canonical nothing below it has changed,    *)
(* and what is Rewind blocks below it never does, because no fork goes     *)
(* that deep. Documents, the batch, and what the pollers hold cover what   *)
(* their last block makes certain.                                         *)
(***************************************************************************)

\* The chain has read of b what it can still have: b is not above the head, nor
\* of a fork to come.
Known(b) == b \in Block /\ b[1] <= head /\ b[2] <= LatestFork

\* The block at height h is the one that b was mined on.
Certain(h, b) == h <= b[1] /\ (IsCanonical(b) \/ h <= b[1] - Rewind)

\* The canonical blocks from lo to below hi that b makes certain are in events.
Has(lo, hi, b, events) ==
  \A h \in Heights : lo <= h /\ h < hi /\ Certain(h, b) => BlockAt(h) \in events

\* Some block of every height from lo to below hi is in events.
HasSome(lo, hi, events) ==
  \A h \in Heights : lo <= h /\ h < hi => \E f \in ForkIds : <<h, f>> \in events

\* A monitor that was saved at some time.
DocKept(m) ==
  /\ m \in MonitorDoc
  /\ m.check = NoBlock => m.cursor = FromBlock
  /\ m.check # NoBlock => /\ Known(m.check) /\ m.cursor = m.check[1] + 1
                          /\ raced \/ Has(FromBlock, m.cursor, m.check, acked)
  /\ HasSome(FromBlock, m.cursor, acked)

\* A batch whose last block has been read, and the events that go with it.
DraftKept(d) ==
  /\ d \in EventBatch /\ Known(d.to) /\ d.from <= d.to[1]
  /\ raced \/ Has(FromBlock, d.from, d.to, acked)
  /\ HasSome(FromBlock, d.from, acked)
EventsKept(d, events) ==
  /\ Has(d.from, d.to[1] + 1, d.to, events)
  /\ HasSome(d.from, d.to[1] + 1, events)

\* A poll between its look at the checkpoint and at the last block.
RangeKept(m, d, tip) ==
  /\ d \in EventDraft /\ tip \in Heights /\ d.from <= tip /\ tip <= head
  /\ d.from <= m.cursor
  /\ raced \/ \A h \in Heights : FromBlock <= h /\ h < d.from => BlockAt(h) \in acked
  /\ HasSome(FromBlock, d.from, acked)

PollerKept(p) ==
  /\ DocKept(pollSeen[p])
  /\ pollStep[p] = "check" => pollTip[p] <= head
  /\ pollStep[p] = "block" => RangeKept(pollSeen[p], polled[p], pollTip[p])
  /\ pollStep[p] \in {"logs", "save", "got", "ack"} => DraftKept(polled[p])
  /\ pollStep[p] = "logs" => pollTip[p] = polled[p].to[1]
  /\ pollStep[p] = "save" => EventsKept(polled[p], polled[p].events)
  /\ pollStep[p] \in {"got", "ack"} => EventsKept(polled[p], handed[p])

MonitorInv ==
  /\ MonitorTypeOK
  /\ \A h \in Heights : canon[h] <= LatestFork
  /\ DocKept(mon)
  /\ eventBatch # NoBlock => DraftKept(eventBatch) /\ EventsKept(eventBatch, eventBatch.events)
  /\ \A p \in Pollers : PollerKept(p)

-----------------------------------------------------------------------------
(* The chain *)

\* The number of a height, a fork and a block.
LEMMA Numbers ==
  /\ FromBlock \in Nat /\ MaxHeight \in Nat /\ MaxForks \in Nat /\ MaxUpsets \in Nat
  /\ Confirmations \in Nat /\ Window \in Nat /\ Rewind \in Nat
  /\ Confirmations >= 1 /\ Window >= 1 /\ Rewind >= 1
  /\ FromBlock <= MaxHeight /\ NoBlock \notin Block
BY MonitorAssumption DEF Block, Heights, ForkIds

\* What the chain may do: grow, fork, or stay.
ChainMoves == \/ UNCHANGED monChain
              \/ head < MaxHeight /\ head' = head + 1 /\ canon' = canon
              \/ /\ LatestFork < MaxForks /\ head' = head
                 /\ \E k \in 1..head :
                      /\ k > head - Rewind
                      /\ canon' = [i \in Heights |-> IF i >= k THEN LatestFork + 1 ELSE canon[i]]

\* A block that was known is, and what it makes certain was so before.
LEMMA CertainBefore ==
  ASSUME MonitorTypeOK, \A h \in Heights : canon[h] <= LatestFork, ChainMoves,
         NEW b, Known(b)
  PROVE  /\ Known(b)'
         /\ \A h \in Heights : Certain(h, b)' => Certain(h, b) /\ BlockAt(h)' = BlockAt(h)
<1>1. /\ canon \in [Heights -> ForkIds] /\ head \in Heights /\ b \in Heights \X ForkIds
      /\ b[1] \in Heights /\ b[2] \in ForkIds /\ MaxHeight \in Heights
  BY Numbers DEF MonitorTypeOK, Known, Block, Heights
<1>2. CASE UNCHANGED monChain
  BY <1>2 DEF monChain, Known, Certain, IsCanonical, BlockAt, LatestFork
<1>3. CASE head' = head + 1 /\ canon' = canon
  BY <1>1, <1>3, Numbers DEF Known, Certain, IsCanonical, BlockAt, LatestFork, Heights
<1>4. ASSUME NEW k \in 1..head, k > head - Rewind, head' = head,
             canon' = [i \in Heights |-> IF i >= k THEN LatestFork + 1 ELSE canon[i]]
      PROVE  /\ Known(b)'
             /\ \A h \in Heights : Certain(h, b)' => Certain(h, b) /\ BlockAt(h)' = BlockAt(h)
  <2>1. /\ k \in Int /\ head \in Int /\ b[1] \in Int /\ b[2] \in Int /\ LatestFork \in Int
        /\ b[1] <= head /\ b[2] <= LatestFork /\ k <= head /\ head <= MaxHeight
    BY <1>1, <1>4, Numbers DEF Known, Heights, ForkIds, LatestFork
  <2>2. LatestFork' = LatestFork + 1
    BY <1>1, <1>4, <2>1, Numbers DEF LatestFork
  <2>3. Known(b)'
    BY <1>4, <2>1, <2>2 DEF Known
  <2>4. ASSUME NEW h \in Heights, Certain(h, b)'
        PROVE  Certain(h, b) /\ BlockAt(h)' = BlockAt(h)
    <3>1. h \in Int /\ h <= b[1]
      BY <2>4 DEF Certain, Heights
    <3>2. h < k /\ (IsCanonical(b) \/ h <= b[1] - Rewind)
      <4>1. CASE h <= b[1] - Rewind
        BY <4>1, <3>1, <2>1, <1>4, Numbers
      <4>2. CASE IsCanonical(b)'
        <5>1. canon'[b[1]] = b[2]
          BY <4>2 DEF IsCanonical
        <5>2. b[1] < k /\ canon[b[1]] = b[2]
          BY <5>1, <1>1, <1>4, <2>1
        <5>. QED
          BY <5>2, <3>1, <2>1 DEF IsCanonical
      <4>. QED
        BY <4>1, <4>2, <2>4 DEF Certain
    <3>3. canon'[h] = canon[h]
      BY <3>1, <3>2, <2>1, <1>4
    <3>. QED
      BY <3>1, <3>2, <3>3 DEF Certain, BlockAt
  <2>. QED
    BY <2>3, <2>4
<1>. QED
  BY <1>2, <1>3, <1>4 DEF ChainMoves

-----------------------------------------------------------------------------
(* What stays true of a value while the chain, the acknowledgements and the *)
(* races move on                                                           *)

StepWorld == ChainMoves /\ acked \subseteq acked' /\ (raced => raced')
ChainOK == MonitorTypeOK /\ \A h \in Heights : canon[h] <= LatestFork

LEMMA DocStays ==
  ASSUME ChainOK, StepWorld
  PROVE  \A m : DocKept(m) => DocKept(m)'
<1>. SUFFICES ASSUME NEW m, DocKept(m) PROVE DocKept(m)'
  OBVIOUS
<1>1. HasSome(FromBlock, m.cursor, acked)'
  BY DEF DocKept, HasSome, StepWorld
<1>2. ASSUME m.check # NoBlock
      PROVE  Known(m.check)' /\ (raced' \/ Has(FromBlock, m.cursor, m.check, acked)')
  BY <1>2, CertainBefore DEF DocKept, Has, StepWorld, ChainOK
<1>. QED
  BY <1>1, <1>2 DEF DocKept

LEMMA DraftStays ==
  ASSUME ChainOK, StepWorld
  PROVE  \A d : DraftKept(d) => DraftKept(d)'
<1>. SUFFICES ASSUME NEW d, DraftKept(d) PROVE DraftKept(d)'
  OBVIOUS
<1>1. HasSome(FromBlock, d.from, acked)'
  BY DEF DraftKept, HasSome, StepWorld
<1>2. Known(d.to)' /\ (raced' \/ Has(FromBlock, d.from, d.to, acked)')
  BY CertainBefore DEF DraftKept, Has, StepWorld, ChainOK
<1>. QED
  BY <1>1, <1>2 DEF DraftKept

LEMMA EventsStay ==
  ASSUME ChainOK, StepWorld
  PROVE  \A d, events : DraftKept(d) /\ EventsKept(d, events) => EventsKept(d, events)'
BY CertainBefore DEF DraftKept, EventsKept, Has, HasSome, StepWorld, ChainOK

\* The range of a poll, as long as the chain does not fork.
LEMMA RangeStays ==
  ASSUME ChainOK, StepWorld, canon' = canon
  PROVE  \A m, d, tip : RangeKept(m, d, tip) => RangeKept(m, d, tip)'
<1>1. head \in Nat /\ head' \in Nat /\ head <= head'
  BY Numbers DEF ChainOK, StepWorld, ChainMoves, monChain, MonitorTypeOK, Heights
<1>. SUFFICES ASSUME NEW m, NEW d, NEW tip, RangeKept(m, d, tip) PROVE RangeKept(m, d, tip)'
  OBVIOUS
<1>2. tip \in Nat /\ tip <= head'
  BY <1>1, Numbers DEF RangeKept, Heights
<1>. QED
  BY <1>1, <1>2 DEF RangeKept, HasSome, StepWorld, BlockAt

\* What a poller holds, while it does nothing.
Rests(q) ==
  /\ pollStep'[q] = pollStep[q] /\ pollSeen'[q] = pollSeen[q] /\ pollTip'[q] = pollTip[q]
  /\ polled'[q] = polled[q] /\ handed'[q] = handed[q]

LEMMA PollerRests ==
  ASSUME ChainOK, StepWorld, NEW q \in Pollers, PollerKept(q), Rests(q),
         canon' # canon /\ pollStep[q] = "block" =>
           RangeKept(pollSeen[q], polled[q], pollTip[q])'
  PROVE  PollerKept(q)'
<1>1. DocKept(pollSeen[q])'
  BY DocStays DEF PollerKept, Rests
<1>2. pollStep[q] = "check" => pollTip'[q] <= head'
  <2>1. head \in Nat /\ head' \in Nat /\ head <= head'
    BY Numbers DEF ChainOK, StepWorld, ChainMoves, monChain, MonitorTypeOK, Heights
  <2>2. pollTip[q] \in Int
    BY DEF ChainOK, MonitorTypeOK
  <2>. QED
    BY <2>1, <2>2 DEF PollerKept, Rests
<1>3. pollStep[q] = "block" => RangeKept(pollSeen[q], polled[q], pollTip[q])'
  BY RangeStays DEF PollerKept, Rests
<1>4. pollStep[q] \in {"logs", "save", "got", "ack"} => DraftKept(polled[q])'
  BY DraftStays DEF PollerKept, Rests
<1>5. pollStep[q] = "save" => EventsKept(polled[q], polled[q].events)'
  BY EventsStay DEF PollerKept, Rests
<1>6. pollStep[q] \in {"got", "ack"} => EventsKept(polled[q], handed[q])'
  BY EventsStay DEF PollerKept, Rests
<1>. QED
  BY <1>1, <1>2, <1>3, <1>4, <1>5, <1>6 DEF PollerKept, Rests

-----------------------------------------------------------------------------
(* The invariant, step by step *)

LEMMA MonitorInvInit == MonitorInit => MonitorInv
<1>. SUFFICES ASSUME MonitorInit PROVE MonitorInv
  OBVIOUS
<1>1. FreshMonitor \in MonitorDoc /\ DocKept(FreshMonitor)
  <2>1. FreshMonitor \in MonitorDoc
    BY Numbers DEF FreshMonitor, MonitorDoc
  <2>2. HasSome(FromBlock, FreshMonitor.cursor, acked)
    BY Numbers DEF FreshMonitor, HasSome, Heights
  <2>. QED
    BY <2>1, <2>2 DEF DocKept, FreshMonitor
<1>2. MonitorTypeOK
  <2>1. canon \in [Heights -> ForkIds] /\ head \in Heights /\ upsets \in 0..MaxUpsets
    BY Numbers DEF MonitorInit, Heights, ForkIds
  <2>2. pollTip \in [Pollers -> Int] /\ pollSeen \in [Pollers -> MonitorDoc]
    BY <1>1 DEF MonitorInit
  <2>. QED
    BY <1>1, <2>1, <2>2 DEF MonitorInit, MonitorTypeOK, PollSteps
<1>3. \A h \in Heights : canon[h] <= LatestFork
  BY Numbers DEF MonitorInit, LatestFork, Heights
<1>4. \A p \in Pollers : PollerKept(p)
  BY <1>1 DEF MonitorInit, PollerKept
<1>. QED
  BY <1>1, <1>2, <1>3, <1>4 DEF MonitorInv, MonitorInit

\* A step of p that leaves the chain and the documents alone.
LEMMA PollerStepKeeps ==
  ASSUME MonitorInv, NEW p \in Pollers, UNCHANGED <<monChain, monDocs, raced>>,
         \A q \in Pollers \ {p} : Rests(q),
         MonitorTypeOK', PollerKept(p)'
  PROVE  MonitorInv'
<1>1. ChainOK /\ StepWorld /\ canon' = canon
  BY DEF ChainOK, MonitorInv, StepWorld, ChainMoves, monChain, monDocs
<1>2. \A q \in Pollers : PollerKept(q)'
  BY <1>1, PollerRests DEF MonitorInv
<1>3. DocKept(mon)'
  BY <1>1, DocStays DEF MonitorInv, monDocs
<1>4. eventBatch' # NoBlock =>
        DraftKept(eventBatch)' /\ EventsKept(eventBatch, eventBatch.events)'
  BY <1>1, DraftStays, EventsStay DEF MonitorInv, monDocs
<1>5. \A h \in Heights : canon'[h] <= LatestFork'
  BY <1>1 DEF ChainOK, LatestFork
<1>. QED
  BY <1>2, <1>3, <1>4, <1>5 DEF MonitorInv

LEMMA FreshKept == ASSUME ChainOK PROVE FreshMonitor \in MonitorDoc /\ DocKept(FreshMonitor)
<1>1. FreshMonitor \in MonitorDoc
  BY Numbers DEF FreshMonitor, MonitorDoc, ChainOK, MonitorTypeOK, Heights
<1>2. HasSome(FromBlock, FreshMonitor.cursor, acked)
  BY Numbers DEF FreshMonitor, HasSome, Heights
<1>. QED
  BY <1>1, <1>2 DEF DocKept, FreshMonitor

\* The polls and reads that leave the documents alone.
LEMMA ReadsKeepMonitor ==
  ASSUME MonitorInv, NEW p \in Pollers,
         \/ PollMonitor(p) \/ PollPending(p) \/ PollHead(p) \/ PollFail(p) \/ PauseRead(p)
  PROVE  MonitorInv'
<1>. USE DEF MonitorInv
<1>1. ChainOK /\ DocKept(mon) /\ FreshMonitor \in MonitorDoc /\ DocKept(FreshMonitor)
      /\ head \in Nat /\ upsets \in 0..MaxUpsets /\ mon \in MonitorDoc
  BY FreshKept, Numbers DEF ChainOK, MonitorTypeOK, Heights
<1>2. StepWorld /\ canon' = canon /\ UNCHANGED <<monChain, monDocs, raced>>
  BY DEF PollMonitor, PollPending, PollHead, PollFail, PauseRead, StepWorld, ChainMoves,
         monChain, monDocs
<1>3. \A q \in Pollers \ {p} : Rests(q)
  BY <1>1 DEF PollMonitor, PollPending, PollHead, PollFail, PauseRead, PollTurn, PollHold,
         ForgetSeen, ForgetTip, PollReceive, PollQuit, Rests, ChainOK, MonitorTypeOK
<1>4. MonitorTypeOK'
  <2>1. canon' \in [Heights -> ForkIds] /\ head' \in Heights /\ mon' \in MonitorDoc
        /\ eventBatch' \in EventBatch \cup {NoBlock} /\ acked' \in SUBSET Block
        /\ raced' \in BOOLEAN
    BY <1>1, <1>2 DEF MonitorTypeOK, ChainOK, monChain, monDocs
  <2>2. upsets' \in 0..MaxUpsets
    BY <1>1, Numbers DEF PollMonitor, PollPending, PollHead, PollFail, PauseRead
  <2>3. pollStep' \in [Pollers -> PollSteps] /\ pollSeen' \in [Pollers -> MonitorDoc]
    BY <1>1 DEF PollMonitor, PollPending, PollHead, PollFail, PauseRead, PollTurn, PollHold,
         ForgetSeen, PollQuit, PollSteps, ChainOK, MonitorTypeOK
  <2>4. pollTip' \in [Pollers -> Int]
    BY <1>1, Numbers DEF PollMonitor, PollPending, PollHead, PollFail, PauseRead,
         ForgetTip, PollQuit, ChainOK, MonitorTypeOK
  <2>5. polled' \in [Pollers -> EventDraft \cup {NoBlock}] /\ handed' \in [Pollers -> SUBSET Block]
    BY <1>1 DEF PollMonitor, PollPending, PollHead, PollFail, PauseRead, PollHold, PollReceive,
         PollQuit, ChainOK, MonitorTypeOK, EventBatch, EventDraft
  <2>. QED
    BY <2>1, <2>2, <2>3, <2>4, <2>5 DEF MonitorTypeOK
<1>5. \A m : DocKept(m) => DocKept(m)'
  BY <1>1, <1>2, DocStays
<1>6. PollerKept(p)'
  <2>0. /\ pollStep \in [Pollers -> PollSteps] /\ pollSeen \in [Pollers -> MonitorDoc]
        /\ pollTip \in [Pollers -> Int] /\ DOMAIN polled = Pollers /\ DOMAIN handed = Pollers
        /\ DocKept(pollSeen[p])
    BY DEF MonitorTypeOK, PollerKept
  <2>1. CASE PollMonitor(p)
    BY <1>1, <1>5, <2>0, <2>1 DEF PollMonitor, PollTurn, PollerKept
  <2>2. CASE PollPending(p)
    <3>1. CASE eventBatch # NoBlock /\ PollTurn(p, "doc", "got")
               /\ PollReceive(p, eventBatch) /\ ForgetSeen(p)
      <4>1. pollStep'[p] = "got" /\ polled'[p] = eventBatch /\ handed'[p] = eventBatch.events
            /\ pollSeen'[p] = FreshMonitor
        BY <3>1, <2>0 DEF PollTurn, PollReceive, PollHold, ForgetSeen
      <4>2. DraftKept(polled[p])' /\ EventsKept(polled[p], handed[p])'
        BY <4>1, <3>1, <1>1, <1>2, DraftStays, EventsStay
      <4>. QED
        BY <4>1, <4>2, <1>1, <1>5 DEF PollerKept
    <3>2. CASE PollQuit(p)
      BY <3>2, <2>0, <1>1, <1>5 DEF PollQuit, ForgetSeen, PollerKept
    <3>3. CASE PollTurn(p, "doc", "head") /\ UNCHANGED pollSeen
      BY <3>3, <2>0, <1>5 DEF PollTurn, PollerKept
    <3>. QED
      BY <2>2, <3>1, <3>2, <3>3 DEF PollPending
  <2>3. CASE PollHead(p)
    BY <2>3, <2>0, <1>1, <1>2, <1>5, Numbers DEF PollHead, PollTurn, PollerKept, monChain
  <2>4. CASE PollFail(p)
    BY <2>4, <2>0, <1>1, <1>5 DEF PollFail, PollQuit, ForgetSeen, PollerKept
  <2>5. CASE PauseRead(p)
    BY <2>5, <2>0, <1>1, <1>5 DEF PauseRead, PollTurn, PollerKept
  <2>. QED
    BY <2>1, <2>2, <2>3, <2>4, <2>5
<1>. QED
  BY <1>2, <1>3, <1>4, <1>6, PollerStepKeeps

\* Where a poll starts, everything before is acknowledged, on the chain it looked at.
LEMMA PollCheckKeeps ==
  ASSUME MonitorInv, NEW p \in Pollers, PollCheck(p)
  PROVE  MonitorInv'
<1>. USE DEF MonitorInv
<1>. DEFINE m == pollSeen[p]
            lost == m.check # NoBlock /\ ~IsCanonical(m.check)
            from == CursorOf(m, lost)
            draft == [from |-> from, to |-> NoBlock, events |-> {}]
<1>1. /\ ChainOK /\ DocKept(m) /\ FreshMonitor \in MonitorDoc /\ DocKept(FreshMonitor)
      /\ head \in Nat /\ head <= MaxHeight /\ m \in MonitorDoc /\ m.cursor \in Nat
      /\ pollTip[p] \in Int /\ pollTip[p] <= head /\ pollStep[p] = "check"
  BY FreshKept, Numbers DEF ChainOK, MonitorTypeOK, Heights, PollCheck, PollerKept, DocKept,
     MonitorDoc
<1>2. StepWorld /\ canon' = canon /\ UNCHANGED <<monChain, monDocs, raced>>
  BY DEF PollCheck, StepWorld, ChainMoves, monChain, monDocs
<1>3. \A q \in Pollers \ {p} : Rests(q)
  BY <1>1 DEF PollCheck, PollTurn, PollHold, ForgetSeen, ForgetTip, PollQuit, Rests, ChainOK,
     MonitorTypeOK
<1>4. \A d : DocKept(d) => DocKept(d)'
  BY <1>1, <1>2, DocStays
<1>5. CASE PollQuit(p)
  <2>1. MonitorTypeOK'
    BY <1>1, <1>2, <1>5 DEF PollCheck, PollQuit, PollHold, ForgetSeen, ForgetTip, ChainOK,
       MonitorTypeOK, monChain, monDocs, PollSteps
  <2>2. PollerKept(p)'
    BY <1>1, <1>4, <1>5 DEF PollQuit, ForgetSeen, PollerKept, ChainOK, MonitorTypeOK
  <2>. QED
    BY <1>2, <1>3, <2>1, <2>2, PollerStepKeeps
<1>6. CASE ~NothingNew(from, pollTip[p]) /\ PollTurn(p, "check", "block") /\ PollHold(p, draft)
           /\ pollTip' = [pollTip EXCEPT ![p] = LastBlock(from, @)] /\ UNCHANGED <<pollSeen, handed>>
  <2>1. from \in Nat /\ from <= m.cursor /\ from <= pollTip[p]
    BY <1>1, <1>6, Numbers DEF CursorOf, NothingNew
  <2>2. /\ LastBlock(from, pollTip[p]) \in Nat /\ LastBlock(from, pollTip[p]) <= head
        /\ from <= LastBlock(from, pollTip[p]) /\ from \in Heights
        /\ LastBlock(from, pollTip[p]) \in Heights
    BY <1>1, <2>1, Numbers DEF LastBlock, Heights
  <2>3. draft \in EventDraft
    BY <2>2 DEF EventDraft
  <2>4. HasSome(FromBlock, from, acked)
    <3>1. \A h \in Heights : h < from => h < m.cursor
      BY <2>1, <1>1 DEF Heights
    <3>. QED
      BY <3>1, <1>1 DEF DocKept, HasSome
  <2>5. raced \/ \A h \in Heights : FromBlock <= h /\ h < from => BlockAt(h) \in acked
    <3>1. CASE m.check = NoBlock
      BY <3>1, <1>1, <2>1, Numbers DEF DocKept, Heights
    <3>2. ASSUME m.check # NoBlock, NEW h \in Heights, FromBlock <= h, h < from
          PROVE  Certain(h, m.check) /\ h < m.cursor
      <4>1. m.cursor = m.check[1] + 1 /\ m.check[1] \in Nat /\ h \in Nat
        BY <3>2, <1>1, Numbers DEF DocKept, Known, Block, Heights
      <4>2. CASE lost
        BY <4>1, <4>2, <3>2, <2>1, <1>1, Numbers DEF CursorOf, Certain
      <4>3. CASE ~lost
        BY <4>1, <4>3, <3>2, <2>1, <1>1 DEF CursorOf, Certain
      <4>. QED
        BY <4>2, <4>3
    <3>. QED
      BY <3>1, <3>2, <1>1 DEF DocKept, Has
  <2>6. /\ pollStep'[p] = "block" /\ pollSeen'[p] = m /\ polled'[p] = draft
        /\ pollTip'[p] = LastBlock(from, pollTip[p])
    BY <1>1, <1>6 DEF PollTurn, PollHold, ChainOK, MonitorTypeOK
  <2>7. RangeKept(pollSeen[p], polled[p], pollTip[p])'
    <3>1. RangeKept(m, draft, LastBlock(from, pollTip[p]))
      BY <2>1, <2>2, <2>3, <2>4, <2>5 DEF RangeKept
    <3>. HIDE DEF m, draft, from
    <3>. QED
      BY <3>1, <2>6, <1>1, <1>2, RangeStays
  <2>8. PollerKept(p)'
    <3>1. DocKept(pollSeen[p])'
      BY <1>1, <1>4, <1>6
    <3>. QED
      BY <3>1, <2>6, <2>7 DEF PollerKept
  <2>9. MonitorTypeOK'
    <3>1. pollTip' \in [Pollers -> Int] /\ polled' \in [Pollers -> EventDraft \cup {NoBlock}]
      BY <1>1, <1>6, <2>2, <2>3, Numbers DEF PollHold, ChainOK, MonitorTypeOK
    <3>. QED
      BY <3>1, <1>1, <1>2, <1>6 DEF PollCheck, PollTurn, ChainOK, MonitorTypeOK, monChain, monDocs,
         PollSteps
  <2>. QED
    BY <1>2, <1>3, <2>8, <2>9, PollerStepKeeps
<1>. QED
  BY <1>5, <1>6 DEF PollCheck

\* The last block is read: from now on it answers for the range.
LEMMA PollBlockKeeps ==
  ASSUME MonitorInv, NEW p \in Pollers, PollBlock(p)
  PROVE  MonitorInv'
<1>. USE DEF MonitorInv
<1>. DEFINE block == BlockAt(pollTip[p])
            draft == [polled[p] EXCEPT !.to = block]
<1>1. /\ ChainOK /\ FreshMonitor \in MonitorDoc /\ DocKept(FreshMonitor)
      /\ RangeKept(pollSeen[p], polled[p], pollTip[p]) /\ pollStep[p] = "block"
  BY FreshKept DEF ChainOK, PollBlock, PollTurn, PollerKept
<1>2. StepWorld /\ canon' = canon /\ UNCHANGED <<monChain, monDocs, raced>>
  BY DEF PollBlock, StepWorld, ChainMoves, monChain, monDocs
<1>3. \A q \in Pollers \ {p} : Rests(q)
  BY <1>1 DEF PollBlock, PollTurn, PollHold, ForgetSeen, Rests, ChainOK, MonitorTypeOK
<1>4. /\ block \in Block /\ block[1] = pollTip[p] /\ block[2] = canon[pollTip[p]]
      /\ pollTip[p] \in Nat /\ head \in Nat /\ Known(block)
  BY <1>1, Numbers DEF ChainOK, MonitorTypeOK, RangeKept, BlockAt, Block, Heights, Known
<1>5. /\ polled[p] \in EventDraft /\ draft \in EventBatch /\ draft.to = block
      /\ draft.from = polled[p].from
  BY <1>1, <1>4, Numbers DEF RangeKept, EventDraft, EventBatch
<1>6. DraftKept(draft)
  <2>1. \A h \in Heights : h < draft.from => h < polled[p].from
    BY <1>5
  <2>2. Has(FromBlock, draft.from, draft.to, acked) \/ raced
    BY <1>1, <1>5 DEF RangeKept, Has
  <2>. QED
    BY <1>1, <1>4, <1>5, <2>2 DEF RangeKept, DraftKept
<1>7. /\ pollStep'[p] = "logs" /\ pollSeen'[p] = FreshMonitor /\ polled'[p] = draft
      /\ pollTip'[p] = block[1]
  BY <1>1, <1>4 DEF PollBlock, PollTurn, PollHold, ForgetSeen, ChainOK, MonitorTypeOK
<1>8. MonitorTypeOK'
  <2>1. polled' \in [Pollers -> EventDraft \cup {NoBlock}]
    BY <1>5 DEF PollBlock, PollHold, MonitorTypeOK, EventBatch
  <2>. QED
    BY <2>1, <1>1, <1>2 DEF PollBlock, PollTurn, ForgetSeen, MonitorTypeOK, monChain, monDocs,
       PollSteps
<1>9. PollerKept(p)'
  <2>. HIDE DEF draft
  <2>1. DocKept(pollSeen[p])' /\ DraftKept(polled[p])'
    BY <1>1, <1>2, <1>6, <1>7, DocStays, DraftStays
  <2>2. pollTip'[p] = polled'[p].to[1]
    BY <1>5, <1>7
  <2>. QED
    BY <1>7, <2>1, <2>2 DEF PollerKept
<1>. QED
  BY <1>2, <1>3, <1>8, <1>9, PollerStepKeeps

\* The events are those of the canonical blocks; whether its last one is the
\* block read before is seen later.
LEMMA PollLogsKeeps ==
  ASSUME MonitorInv, NEW p \in Pollers, PollLogs(p)
  PROVE  MonitorInv'
<1>. USE DEF MonitorInv
<1>. DEFINE events == {BlockAt(h) : h \in polled[p].from..pollTip[p]}
            draft == [polled[p] EXCEPT !.events = events]
<1>1. /\ ChainOK /\ DocKept(pollSeen[p]) /\ pollSeen[p] \in MonitorDoc
      /\ DraftKept(polled[p]) /\ pollTip[p] = polled[p].to[1] /\ pollStep[p] = "logs"
  BY DEF ChainOK, PollLogs, PollTurn, PollerKept, DocKept
<1>2. StepWorld /\ canon' = canon /\ UNCHANGED <<monChain, monDocs, raced>>
  BY DEF PollLogs, StepWorld, ChainMoves, monChain, monDocs
<1>3. \A q \in Pollers \ {p} : Rests(q)
  BY <1>1 DEF PollLogs, PollTurn, PollHold, ForgetTip, Rests, ChainOK, MonitorTypeOK
<1>4. /\ polled[p] \in EventBatch /\ polled[p].from \in Heights /\ pollTip[p] \in Heights
      /\ polled[p].from \in Nat /\ pollTip[p] \in Nat
  BY <1>1, Numbers DEF DraftKept, EventBatch, EventDraft, Known, Block, Heights
<1>5. \A h \in Heights : polled[p].from <= h /\ h <= pollTip[p] => BlockAt(h) \in events
  BY <1>4 DEF Heights
<1>6. events \subseteq Block
  <2>1. \A h \in polled[p].from..pollTip[p] : h \in Heights
    BY <1>4, Numbers DEF Heights
  <2>. QED
    BY <2>1 DEF MonitorTypeOK, BlockAt, Block
<1>7. draft \in EventBatch /\ draft.to = polled[p].to /\ draft.from = polled[p].from
      /\ draft.events = events
  BY <1>4, <1>6 DEF EventBatch, EventDraft
<1>8. DraftKept(draft) /\ EventsKept(draft, draft.events)
  <2>1. DraftKept(draft)
    BY <1>1, <1>7 DEF DraftKept
  <2>2. ASSUME NEW h \in Heights, draft.from <= h, h < draft.to[1] + 1
        PROVE  BlockAt(h) \in events /\ canon[h] \in ForkIds /\ BlockAt(h) = <<h, canon[h]>>
    BY <2>2, <1>1, <1>4, <1>5, <1>7 DEF Heights, MonitorTypeOK, BlockAt
  <2>3. EventsKept(draft, events)
    <3>. HIDE DEF draft, events
    <3>. QED
      BY <2>2 DEF EventsKept, Has, HasSome
  <2>. QED
    BY <2>1, <2>3, <1>7
<1>9. pollStep'[p] = "save" /\ pollSeen'[p] = pollSeen[p] /\ polled'[p] = draft
  BY <1>1 DEF PollLogs, PollTurn, PollHold, ChainOK, MonitorTypeOK
<1>10. MonitorTypeOK'
  <2>1. polled' \in [Pollers -> EventDraft \cup {NoBlock}]
    BY <1>7 DEF PollLogs, PollHold, MonitorTypeOK, EventBatch
  <2>. HIDE DEF draft, events
  <2>2. /\ pollStep' \in [Pollers -> PollSteps] /\ pollTip' \in [Pollers -> Int]
        /\ UNCHANGED <<pollSeen, handed, upsets>>
    BY DEF PollLogs, PollTurn, ForgetTip, MonitorTypeOK, PollSteps
  <2>. QED
    BY <2>1, <2>2, <1>2 DEF MonitorTypeOK, monChain, monDocs
<1>11. PollerKept(p)'
  <2>. HIDE DEF draft
  <2>1. DocKept(pollSeen[p])' /\ DraftKept(polled[p])' /\ EventsKept(polled[p], polled[p].events)'
    BY <1>1, <1>2, <1>8, <1>9, DocStays, DraftStays, EventsStay
  <2>. QED
    BY <1>9, <2>1 DEF PollerKept
<1>. QED
  BY <1>2, <1>3, <1>10, <1>11, PollerStepKeeps

\* The batch saved first is the one that is handed out.
LEMMA PollSaveKeeps ==
  ASSUME MonitorInv, NEW p \in Pollers, PollSave(p)
  PROVE  MonitorInv'
<1>. USE DEF MonitorInv
<1>. DEFINE saved == IF eventBatch = NoBlock THEN polled[p] ELSE eventBatch
<1>1. /\ ChainOK /\ DocKept(mon) /\ DocKept(pollSeen[p]) /\ pollStep[p] = "save"
      /\ DraftKept(saved) /\ EventsKept(saved, saved.events)
  BY DEF ChainOK, PollSave, PollTurn, PollerKept
<1>2. StepWorld /\ canon' = canon /\ UNCHANGED <<monChain, mon, acked, raced, upsets>>
  BY DEF PollSave, StepWorld, ChainMoves, monChain
<1>3. saved \in EventBatch /\ saved.events \in SUBSET Block
  BY <1>1 DEF DraftKept, EventBatch, EventDraft
<1>4. /\ pollStep'[p] = "got" /\ pollSeen'[p] = pollSeen[p] /\ polled'[p] = saved
      /\ handed'[p] = saved.events /\ eventBatch' = saved
  BY DEF PollSave, PollTurn, PollHold, PollReceive, MonitorTypeOK
<1>5. \A q \in Pollers \ {p} : Rests(q)
  BY DEF PollSave, PollTurn, PollHold, PollReceive, Rests, MonitorTypeOK
<1>6. MonitorTypeOK'
  <2>1. /\ pollStep' \in [Pollers -> PollSteps] /\ pollSeen' = pollSeen /\ pollTip' = pollTip
        /\ polled' \in [Pollers -> EventDraft \cup {NoBlock}]
        /\ handed' \in [Pollers -> SUBSET Block]
    BY <1>3 DEF PollSave, PollTurn, PollHold, PollReceive, MonitorTypeOK, EventBatch, PollSteps
  <2>. QED
    BY <2>1, <1>2, <1>3, <1>4 DEF MonitorTypeOK, monChain
<1>. HIDE DEF saved
<1>7. DocKept(mon)' /\ DocKept(pollSeen[p])'
  BY <1>1, <1>2, <1>4, DocStays
<1>8. DraftKept(polled[p])' /\ EventsKept(polled[p], handed[p])'
      /\ DraftKept(eventBatch)' /\ EventsKept(eventBatch, eventBatch.events)'
  BY <1>1, <1>2, <1>4, DraftStays, EventsStay
<1>9. PollerKept(p)'
  BY <1>4, <1>7, <1>8 DEF PollerKept
<1>10. \A q \in Pollers : PollerKept(q)'
  BY <1>1, <1>2, <1>5, <1>9, PollerRests
<1>11. \A h \in Heights : canon'[h] <= LatestFork'
  BY <1>2 DEF LatestFork
<1>. QED
  BY <1>6, <1>7, <1>8, <1>10, <1>11

\* A batch with the same id stands for the same last block.
LEMMA AckReadKeeps ==
  ASSUME MonitorInv, NEW p \in Pollers, AckRead(p)
  PROVE  MonitorInv'
<1>. USE DEF MonitorInv
<1>1. /\ ChainOK /\ DocKept(mon) /\ mon \in MonitorDoc /\ pollStep[p] = "got"
      /\ FreshMonitor \in MonitorDoc /\ DocKept(FreshMonitor)
      /\ DraftKept(polled[p]) /\ EventsKept(polled[p], handed[p])
  BY FreshKept DEF ChainOK, AckRead, PollerKept, DocKept
<1>2. StepWorld /\ canon' = canon /\ UNCHANGED <<monChain, monDocs, raced, upsets>>
  BY DEF AckRead, StepWorld, ChainMoves, monChain, monDocs
<1>3. \A q \in Pollers \ {p} : Rests(q)
  BY DEF AckRead, PollTurn, PollHold, PollQuit, ForgetSeen, ForgetTip, Rests, MonitorTypeOK
<1>4. MonitorTypeOK'
  <2>1. /\ pollStep' \in [Pollers -> PollSteps] /\ pollSeen' \in [Pollers -> MonitorDoc]
        /\ pollTip' \in [Pollers -> Int] /\ polled' \in [Pollers -> EventDraft \cup {NoBlock}]
        /\ handed' \in [Pollers -> SUBSET Block]
    BY <1>1 DEF AckRead, PollTurn, PollHold, PollQuit, ForgetSeen, ForgetTip, MonitorTypeOK,
       EventBatch, PollSteps
  <2>. QED
    BY <2>1, <1>2 DEF MonitorTypeOK, monChain, monDocs
<1>5. PollerKept(p)'
  <2>1. CASE PollQuit(p)
    BY <2>1, <1>1, <1>2, DocStays DEF PollQuit, ForgetSeen, PollerKept, MonitorTypeOK
  <2>2. CASE /\ eventBatch # NoBlock /\ SameId(eventBatch, polled[p])
             /\ PollTurn(p, "got", "ack") /\ PollHold(p, eventBatch)
             /\ pollSeen' = [pollSeen EXCEPT ![p] = mon] /\ UNCHANGED handed
    <3>1. /\ pollStep'[p] = "ack" /\ pollSeen'[p] = mon /\ polled'[p] = eventBatch
          /\ handed'[p] = handed[p]
      BY <2>2 DEF PollTurn, PollHold, MonitorTypeOK
    <3>2. DraftKept(eventBatch) /\ EventsKept(eventBatch, handed[p])
      BY <1>1, <2>2 DEF SameId, EventsKept
    <3>3. DocKept(pollSeen[p])' /\ DraftKept(polled[p])' /\ EventsKept(polled[p], handed[p])'
      BY <3>1, <3>2, <1>1, <1>2, DocStays, DraftStays, EventsStay
    <3>. QED
      BY <3>1, <3>3 DEF PollerKept
  <2>. QED
    BY <2>1, <2>2 DEF AckRead
<1>. QED
  BY <1>2, <1>3, <1>4, <1>5, PollerStepKeeps

\* An acknowledgement covers what its batch makes certain, and moves the cursor to its end.
LEMMA AckCommitKeeps ==
  ASSUME MonitorInv, NEW p \in Pollers, AckCommit(p)
  PROVE  MonitorInv' /\ AdvancesOnlyAfterAck
<1>. USE DEF MonitorInv
<1>. DEFINE b == polled[p]
            next == [mon EXCEPT !.cursor = b.to[1] + 1, !.check = b.to]
<1>1. /\ ChainOK /\ DocKept(mon) /\ mon \in MonitorDoc /\ pollStep[p] = "ack"
      /\ FreshMonitor \in MonitorDoc /\ DocKept(FreshMonitor)
      /\ DraftKept(b) /\ EventsKept(b, handed[p])
  BY FreshKept DEF ChainOK, AckCommit, PollerKept, DocKept
<1>2. /\ acked \subseteq acked' /\ acked' \in SUBSET Block
      /\ UNCHANGED <<monChain, raced, upsets>>
  BY DEF AckCommit, monDocs, MonitorTypeOK
<1>3. StepWorld /\ canon' = canon
  BY <1>2 DEF StepWorld, ChainMoves, monChain
<1>4. \A q \in Pollers \ {p} : Rests(q)
  BY DEF AckCommit, PollHold, PollQuit, ForgetSeen, ForgetTip, Rests, MonitorTypeOK
<1>5. PollerKept(p)'
  <2>1. pollStep'[p] = "idle" /\ pollSeen'[p] = FreshMonitor
    BY DEF AckCommit, PollQuit, ForgetSeen, MonitorTypeOK
  <2>2. DocKept(pollSeen[p])'
    BY <1>1, <1>3, <2>1, DocStays
  <2>. QED
    BY <2>1, <2>2 DEF PollerKept
<1>6. \A q \in Pollers : PollerKept(q)'
  BY <1>1, <1>3, <1>4, <1>5, PollerRests
<1>7. \A h \in Heights : canon'[h] <= LatestFork'
  BY <1>3 DEF LatestFork
<1>8. /\ pollStep' \in [Pollers -> PollSteps] /\ pollSeen' \in [Pollers -> MonitorDoc]
      /\ pollTip' \in [Pollers -> Int] /\ polled' \in [Pollers -> EventDraft \cup {NoBlock}]
      /\ handed' \in [Pollers -> SUBSET Block]
  BY <1>1 DEF AckCommit, PollHold, PollQuit, ForgetSeen, ForgetTip, MonitorTypeOK, PollSteps
<1>9. CASE UNCHANGED monDocs
  <2>1. MonitorTypeOK'
    BY <1>2, <1>8, <1>9 DEF MonitorTypeOK, monChain, monDocs
  <2>2. DocKept(mon)'
    BY <1>1, <1>3, <1>9, DocStays DEF monDocs
  <2>3. eventBatch' # NoBlock =>
          DraftKept(eventBatch)' /\ EventsKept(eventBatch, eventBatch.events)'
    BY <1>1, <1>3, <1>9, DraftStays, EventsStay DEF monDocs
  <2>4. AdvancesOnlyAfterAck
    <3>1. mon' = mon /\ mon.cursor \in Nat
      BY <1>1, <1>9, Numbers DEF monDocs, MonitorDoc
    <3>. QED
      BY <3>1 DEF AdvancesOnlyAfterAck, Heights
  <2>. QED
    BY <1>6, <1>7, <2>1, <2>2, <2>3, <2>4
<1>10. CASE mon' = next /\ eventBatch' = NoBlock /\ acked' = acked \cup handed[p]
  <2>1. /\ b \in EventBatch /\ Known(b.to) /\ b.to \in Block /\ b.to[1] \in Nat
        /\ b.to[1] <= MaxHeight /\ b.from \in Nat /\ b.from <= b.to[1] /\ b.to # NoBlock
    BY <1>1, Numbers DEF DraftKept, EventBatch, EventDraft, Known, Block, Heights
  <2>2. /\ next \in MonitorDoc /\ next.check = b.to /\ next.cursor = b.to[1] + 1
    <3>1. b.to[1] + 1 \in 0..(MaxHeight + 1) /\ b.to \in Block \cup {NoBlock}
      BY <2>1, Numbers
    <3>. HIDE DEF b
    <3>. QED
      BY <1>1, <3>1 DEF MonitorDoc
  <2>3. MonitorTypeOK'
    BY <1>2, <1>8, <1>10, <2>2 DEF MonitorTypeOK, monChain
  <2>. HIDE DEF b, next
  <2>4. HasSome(FromBlock, b.to[1] + 1, acked')
    <3>1. ASSUME NEW h \in Heights, FromBlock <= h, h < b.to[1] + 1
          PROVE  \E f \in ForkIds : <<h, f>> \in acked'
      <4>1. CASE h < b.from
        BY <4>1, <3>1, <1>1, <1>10 DEF DraftKept, HasSome
      <4>2. CASE b.from <= h
        BY <4>2, <3>1, <1>1, <1>10 DEF EventsKept, HasSome
      <4>. QED
        BY <4>1, <4>2, <2>1 DEF Heights
    <3>. QED
      BY <3>1 DEF HasSome
  <2>5. raced \/ Has(FromBlock, b.to[1] + 1, b.to, acked \cup handed[p])
    <3>1. ASSUME ~raced, NEW h \in Heights, FromBlock <= h, h < b.to[1] + 1, Certain(h, b.to)
          PROVE  BlockAt(h) \in acked \cup handed[p]
      <4>1. CASE h < b.from
        BY <4>1, <3>1, <1>1 DEF DraftKept, Has
      <4>2. CASE b.from <= h
        BY <4>2, <3>1, <1>1 DEF EventsKept, Has
      <4>. QED
        BY <4>1, <4>2, <2>1 DEF Heights
    <3>. QED
      BY <3>1 DEF Has
  <2>6. DocKept(mon)'
    <3>1. HasSome(FromBlock, mon.cursor, acked)'
      BY <2>4, <2>2, <1>10 DEF HasSome
    <3>2. raced' \/ Has(FromBlock, mon.cursor, mon.check, acked)'
      BY <2>5, <2>2, <1>2, <1>10 DEF Has, Certain, IsCanonical, BlockAt, monChain
    <3>3. Known(mon.check)'
      BY <2>1, <2>2, <1>2, <1>10 DEF Known, LatestFork, monChain
    <3>. QED
      BY <2>1, <2>2, <1>10, <3>1, <3>2, <3>3 DEF DocKept
  <2>7. AdvancesOnlyAfterAck
    BY <2>4, <2>2, <1>10 DEF HasSome, AdvancesOnlyAfterAck
  <2>. QED
    BY <1>6, <1>7, <1>10, <2>3, <2>6, <2>7
<1>. QED
  BY <1>9, <1>10 DEF AckCommit

\* A pause puts back what was read, which was kept all the while.
LEMMA PauseWriteKeeps ==
  ASSUME MonitorInv, NEW p \in Pollers, PauseWrite(p)
  PROVE  MonitorInv' /\ AdvancesOnlyAfterAck
<1>. USE DEF MonitorInv
<1>1. PICK paused \in BOOLEAN : mon' = [pollSeen[p] EXCEPT !.paused = paused]
  BY DEF PauseWrite
<1>2. /\ ChainOK /\ DocKept(pollSeen[p]) /\ pollSeen[p] \in MonitorDoc
      /\ FreshMonitor \in MonitorDoc /\ DocKept(FreshMonitor)
  BY FreshKept DEF ChainOK, PollerKept, DocKept
<1>3. StepWorld /\ canon' = canon /\ UNCHANGED <<monChain, eventBatch, acked, upsets, raced>>
  BY DEF PauseWrite, StepWorld, ChainMoves, monChain
<1>4. \A q \in Pollers \ {p} : Rests(q)
  BY DEF PauseWrite, PollHold, PollQuit, ForgetSeen, ForgetTip, Rests, MonitorTypeOK
<1>5. /\ mon' \in MonitorDoc /\ mon'.cursor = pollSeen[p].cursor /\ mon'.check = pollSeen[p].check
  BY <1>1, <1>2 DEF MonitorDoc
<1>6. DocKept(mon)'
  <2>1. DocKept(pollSeen[p]) => \A m \in MonitorDoc :
          m.cursor = pollSeen[p].cursor /\ m.check = pollSeen[p].check => DocKept(m)
    BY DEF DocKept
  <2>2. DocKept(mon')
    BY <1>2, <1>5, <2>1
  <2>. QED
    BY <1>2, <1>3, <2>2, DocStays
<1>7. PollerKept(p)'
  <2>1. pollStep'[p] = "idle" /\ pollSeen'[p] = FreshMonitor
    BY DEF PauseWrite, PollQuit, ForgetSeen, MonitorTypeOK
  <2>2. DocKept(pollSeen[p])'
    BY <1>2, <1>3, <2>1, DocStays
  <2>. QED
    BY <2>1, <2>2 DEF PollerKept
<1>8. \A q \in Pollers : PollerKept(q)'
  BY <1>2, <1>3, <1>4, <1>7, PollerRests
<1>9. MonitorTypeOK'
  <2>1. /\ pollStep' \in [Pollers -> PollSteps] /\ pollSeen' \in [Pollers -> MonitorDoc]
        /\ pollTip' \in [Pollers -> Int] /\ polled' \in [Pollers -> EventDraft \cup {NoBlock}]
        /\ handed' \in [Pollers -> SUBSET Block]
    BY <1>2 DEF PauseWrite, PollHold, PollQuit, ForgetSeen, ForgetTip, MonitorTypeOK, PollSteps
  <2>. QED
    BY <2>1, <1>3, <1>5 DEF MonitorTypeOK, monChain
<1>10. eventBatch' # NoBlock =>
         DraftKept(eventBatch)' /\ EventsKept(eventBatch, eventBatch.events)'
  BY <1>2, <1>3, DraftStays, EventsStay
<1>11. \A h \in Heights : canon'[h] <= LatestFork'
  BY <1>3 DEF LatestFork
<1>12. AdvancesOnlyAfterAck
  BY <1>2, <1>3, <1>5 DEF DocKept, HasSome, AdvancesOnlyAfterAck
<1>. QED
  BY <1>6, <1>8, <1>9, <1>10, <1>11, <1>12

LEMMA GrowKeeps == ASSUME MonitorInv, Grow PROVE MonitorInv'
<1>. USE DEF MonitorInv
<1>1. ChainOK /\ StepWorld /\ canon' = canon /\ UNCHANGED <<monDocs, upsets, raced, monLocals>>
  BY DEF ChainOK, Grow, StepWorld, ChainMoves, monDocs
<1>2. \A q \in Pollers : PollerKept(q)'
  BY <1>1, PollerRests DEF Rests, monLocals
<1>3. DocKept(mon)' /\ (eventBatch' # NoBlock =>
        DraftKept(eventBatch)' /\ EventsKept(eventBatch, eventBatch.events)')
  BY <1>1, DocStays, DraftStays, EventsStay DEF monDocs
<1>4. MonitorTypeOK' /\ \A h \in Heights : canon'[h] <= LatestFork'
  BY <1>1, Numbers DEF Grow, MonitorTypeOK, Heights, LatestFork, monDocs, monLocals
<1>. QED
  BY <1>2, <1>3, <1>4

\* A poll in the middle of its reads notices, or what it is to leave out has not changed.
LEMMA ForkKeeps == ASSUME MonitorInv, NEW k \in Heights, ForkFrom(k) PROVE MonitorInv'
<1>. USE DEF MonitorInv
<1>1. /\ ChainOK /\ k \in 1..head /\ k > head - Rewind /\ LatestFork < MaxForks /\ head' = head
      /\ canon' = [i \in Heights |-> IF i >= k THEN LatestFork + 1 ELSE canon[i]]
      /\ UNCHANGED <<monDocs, upsets, monLocals>>
  BY DEF ChainOK, ForkFrom
<1>2. /\ LatestFork \in Nat /\ head \in Nat /\ head <= MaxHeight /\ k \in Nat
      /\ \A h \in Heights : canon[h] \in Nat /\ canon[h] <= LatestFork
  BY <1>1, Numbers DEF MonitorTypeOK, Heights, ForkIds, LatestFork
<1>3. StepWorld
  BY <1>1 DEF ForkFrom, StepWorld, ChainMoves, monDocs
<1>4. \A h \in Heights : canon'[h] <= LatestFork'
  BY <1>1, <1>2, Numbers DEF LatestFork, Heights
<1>5. MonitorTypeOK'
  <2>1. canon' \in [Heights -> ForkIds]
    BY <1>1, <1>2, Numbers DEF ForkIds, MonitorTypeOK
  <2>. QED
    BY <1>1, <2>1 DEF ForkFrom, MonitorTypeOK, monDocs, monLocals
<1>6. DocKept(mon)' /\ (eventBatch' # NoBlock =>
        DraftKept(eventBatch)' /\ EventsKept(eventBatch, eventBatch.events)')
  BY <1>1, <1>3, DocStays, DraftStays, EventsStay DEF monDocs
<1>7. ASSUME NEW q \in Pollers, pollStep[q] = "block"
      PROVE  RangeKept(pollSeen[q], polled[q], pollTip[q])'
  <2>1. RangeKept(pollSeen[q], polled[q], pollTip[q]) /\ DocKept(pollSeen[q])
    BY <1>7 DEF PollerKept
  <2>2. raced' \/ \A h \in Heights : FromBlock <= h /\ h < polled[q].from => BlockAt(h)' \in acked
    <3>1. SUFFICES ASSUME ~raced', NEW h \in Heights, FromBlock <= h, h < polled[q].from
                   PROVE  BlockAt(h)' \in acked
      OBVIOUS
    <3>2. BlockAt(h) \in acked /\ h < pollSeen[q].cursor
      <4>1. /\ h \in Nat /\ polled[q].from \in Nat /\ pollSeen[q].cursor \in Nat
            /\ polled[q].from <= pollSeen[q].cursor
        BY <2>1, <3>1, Numbers DEF RangeKept, DocKept, MonitorDoc, EventDraft, Heights
      <4>2. ~raced
        BY <3>1, Zenon DEF ForkFrom
      <4>. QED
        BY <2>1, <3>1, <4>1, <4>2 DEF RangeKept
    <3>3. pollSeen[q].check # NoBlock
      BY <2>1, <3>1, <3>2, Numbers DEF DocKept, Heights
    <3>4. pollSeen[q].check[1] < k
      <4>1. pollSeen[q].check[1] \in Nat
        BY <2>1, <3>3, Numbers DEF DocKept, Known, Block, Heights
      <4>2. ~(pollSeen[q].check[1] >= k)
        BY <1>7, <3>1, <3>3, Zenon DEF ForkFrom
      <4>. QED
        BY <4>1, <4>2, <1>2
    <3>5. h < k
      <4>1. pollSeen[q].check[1] \in Nat /\ pollSeen[q].cursor = pollSeen[q].check[1] + 1 /\ h \in Nat
        BY <2>1, <3>3, Numbers DEF DocKept, Known, Block, Heights
      <4>. QED
        BY <4>1, <3>2, <3>4, <1>2
    <3>. QED
      BY <3>2, <3>5, <1>1, <1>2 DEF BlockAt, Heights
  <2>3. UNCHANGED <<acked, pollSeen, polled, pollTip>>
    BY <1>1 DEF monDocs, monLocals
  <2>. QED
    BY <2>1, <2>2, <2>3, <1>1 DEF RangeKept, HasSome
<1>8. \A q \in Pollers : PollerKept(q)'
  BY <1>1, <1>3, <1>7, PollerRests DEF Rests, monLocals
<1>. QED
  BY <1>4, <1>5, <1>6, <1>8

-----------------------------------------------------------------------------
LEMMA MonitorInvStep == ASSUME MonitorInv, [MonitorNext]_monVars PROVE MonitorInv'
<1>1. CASE UNCHANGED monVars
  <2>1. ChainOK /\ StepWorld /\ canon' = canon /\ UNCHANGED <<monChain, monDocs, upsets, raced, monLocals>>
    BY <1>1 DEF monVars, monDocs, MonitorInv, ChainOK, StepWorld, ChainMoves, monChain
  <2>2. \A q \in Pollers : PollerKept(q)'
    BY <2>1, PollerRests DEF Rests, monLocals, MonitorInv
  <2>3. DocKept(mon)' /\ (eventBatch' # NoBlock =>
          DraftKept(eventBatch)' /\ EventsKept(eventBatch, eventBatch.events)')
    BY <2>1, DocStays, DraftStays, EventsStay DEF monDocs, MonitorInv
  <2>4. MonitorTypeOK' /\ \A h \in Heights : canon'[h] <= LatestFork'
    BY <2>1 DEF ChainOK, MonitorTypeOK, LatestFork, monChain, monDocs, monLocals
  <2>. QED
    BY <2>2, <2>3, <2>4 DEF MonitorInv
<1>2. CASE Grow \/ \E h \in Heights : ForkFrom(h)
  BY <1>2, GrowKeeps, ForkKeeps
<1>3. ASSUME NEW p \in Pollers, MonitorStep(p) \/ PollFail(p) \/ PauseRead(p)
      PROVE  MonitorInv'
  BY <1>3, ReadsKeepMonitor, PollCheckKeeps, PollBlockKeeps, PollLogsKeeps, PollSaveKeeps,
     AckReadKeeps, AckCommitKeeps, PauseWriteKeeps DEF MonitorStep
<1>. QED
  BY <1>1, <1>2, <1>3 DEF MonitorNext

\* Every variable of a monitor keeps its type, for any number of clients, forks and windows.
THEOREM MonitorTypeCorrect == MonitorSpec => []MonitorTypeOK
<1>1. MonitorInv => MonitorTypeOK
  BY DEF MonitorInv
<1>. QED
  BY <1>1, MonitorInvInit, MonitorInvStep, PTL DEF MonitorSpec

\* What is acknowledged covers what is below the cursor, on whatever fork the chain ends up.
LEMMA CoveredLemma == MonitorInv => NothingSkipped
<1>. SUFFICES ASSUME MonitorInv, ~raced, mon.check # NoBlock => IsCanonical(mon.check),
                     NEW h \in FromBlock..(mon.cursor - 1)
              PROVE  BlockAt(h) \in acked
  BY DEF NothingSkipped
<1>1. mon.cursor \in Nat /\ mon.cursor <= MaxHeight + 1 /\ h \in Heights /\ h < mon.cursor
      /\ FromBlock <= h
  BY Numbers DEF MonitorInv, DocKept, MonitorDoc, Heights
<1>2. mon.check # NoBlock
  BY <1>1, Numbers DEF MonitorInv, DocKept, Heights
<1>3. Certain(h, mon.check)
  BY <1>1, <1>2, Numbers DEF MonitorInv, DocKept, Known, Block, Certain, Heights
<1>. QED
  BY <1>1, <1>2, <1>3 DEF MonitorInv, DocKept, Has

LEMMA AdvanceLemma ==
  ASSUME MonitorInv, MonitorNext
  PROVE  AdvancesOnlyAfterAck
<1>1. ASSUME mon' = mon PROVE AdvancesOnlyAfterAck
  <2>1. mon.cursor \in Nat
    BY Numbers DEF MonitorInv, MonitorTypeOK, MonitorDoc
  <2>. QED
    BY <1>1, <2>1 DEF AdvancesOnlyAfterAck, Heights
<1>2. ASSUME NEW p \in Pollers, MonitorStep(p) \/ PollFail(p) \/ PauseRead(p)
      PROVE  AdvancesOnlyAfterAck
  <2>1. CASE AckCommit(p) \/ PauseWrite(p)
    BY <2>1, AckCommitKeeps, PauseWriteKeeps
  <2>2. CASE mon' = mon
    BY <2>2, <1>1
  <2>. QED
    BY <1>2, <2>1, <2>2 DEF MonitorStep, PollMonitor, PollPending, PollHead, PollCheck, PollBlock,
       PollLogs, PollSave, AckRead, PollFail, PauseRead, monDocs
<1>3. CASE Grow \/ \E h \in Heights : ForkFrom(h)
  BY <1>3, <1>1 DEF Grow, ForkFrom, monDocs
<1>. QED
  BY <1>2, <1>3 DEF MonitorNext

-----------------------------------------------------------------------------
(* The other services *)

-----------------------------------------------------------------------------
(* batches.ts *)

LEMMA BatchTypeInit == BatchInit => BatchTypeOK
<1>1. BatchInit => batchReorgs \in 0..BatchReorgs /\ batchCrashes \in 0..BatchCrashes
  BY BatchAssumption DEF BatchInit
<1>2. BatchInit => sendCalls \in Nat
  BY DEF BatchInit
<1>. QED
  BY <1>1, <1>2, Zenon DEF BatchInit, BatchTypeOK, BatchStates, WalletCodes, BatchSteps

LEMMA BatchTypeStep ==
  ASSUME BatchTypeOK, [BatchNext]_batchVars
  PROVE  BatchTypeOK'
<1>. USE BatchAssumption
     DEF BatchTypeOK, BatchStates, WalletCodes, FinalCodes, BatchSteps, batchWorld,
         batchLocals, BatchTurn, BatchQuit
<1>1. CASE PrepareBatch
  BY <1>1 DEF PrepareBatch
<1>2. CASE ExpireBatch
  BY <1>2 DEF ExpireBatch
<1>3. ASSUME NEW p \in BatchProcs, RunBatch(p) \/ BatchRefused(p) \/ ClaimBatch(p)
      PROVE  BatchTypeOK'
  BY <1>3 DEF RunBatch, BatchRefused, ClaimBatch
<1>4. ASSUME NEW p \in BatchProcs, SendBatch(p) \/ SendBatchFails(p)
      PROVE  BatchTypeOK'
  BY <1>4 DEF SendBatch, SendBatchFails
<1>5. ASSUME NEW p \in BatchProcs,
             CallBatchStatus(p) \/ ReadBatch(p) \/ VerifyBatch(p) \/ PutBatch(p)
      PROVE  BatchTypeOK'
  BY <1>5 DEF CallBatchStatus, ReadBatch, VerifyBatch, PutBatch
<1>6. ASSUME NEW p \in BatchProcs, AskBatch(p) PROVE BatchTypeOK'
  <2>1. StateFor(walletBatch) \in BatchStates
    BY DEF StateFor
  <2>. QED
    BY <1>6, <2>1 DEF AskBatch
<1>7. CASE WalletFinishes
  <2>1. walletBatch' \in WalletCodes /\ walletSound' \in BOOLEAN
    BY <1>7 DEF WalletFinishes
  <2>2. UNCHANGED <<batch, batchExpired, receiptsGone, batchReorgs, sendCalls,
                    batchCrashes, batchStep, batchAnswer>>
    BY <1>7 DEF WalletFinishes
  <2>. QED
    BY <2>1, <2>2
<1>8. CASE BatchReorg
  <2>1. batchReorgs' \in 0..BatchReorgs
    BY <1>8 DEF BatchReorg
  <2>2. receiptsGone' \in BOOLEAN
    BY <1>8 DEF BatchReorg
  <2>3. UNCHANGED <<batch, batchExpired, walletBatch, walletSound, sendCalls,
                    batchCrashes, batchStep, batchAnswer>>
    BY <1>8 DEF BatchReorg
  <2>. QED
    BY <2>1, <2>2, <2>3
<1>9. CASE BatchReincluded
  <2>1. receiptsGone' \in BOOLEAN
    BY <1>9 DEF BatchReincluded
  <2>2. UNCHANGED <<batch, batchExpired, walletBatch, walletSound, batchReorgs,
                    sendCalls, batchCrashes, batchStep, batchAnswer>>
    BY <1>9 DEF BatchReincluded
  <2>. QED
    BY <2>1, <2>2
<1>10. ASSUME NEW p \in BatchProcs, BatchCrash(p) PROVE BatchTypeOK'
  BY <1>10 DEF BatchCrash
<1>11. CASE UNCHANGED batchVars
  BY <1>11 DEF batchVars
<1>. QED
  BY <1>1, <1>2, <1>3, <1>4, <1>5, <1>6, <1>7, <1>8, <1>9, <1>10, <1>11
  DEF BatchNext, BatchProcStep, BatchPoll

\* The document is not submitted yet.
Unclaimed == batch \in {"absent", "prepared"}

\* Only a fresh document can be claimed; one process at most is about to send;
\* and nobody saves a fresh state over one that was submitted.
ClaimedOnce ==
  /\ sendCalls \in {0, 1}
  /\ Unclaimed => /\ sendCalls = 0
               /\ \A p \in BatchProcs :
                    batchStep[p] \notin {"send", "ask", "verify", "put"}
  /\ \A p \in BatchProcs :
       /\ batchStep[p] # "idle" => batch # "absent"
       /\ batchStep[p] = "send" =>
            sendCalls = 0 /\ \A q \in BatchProcs \ {p} : batchStep[q] # "send"
       /\ batchStep[p] \in {"verify", "put"} =>
            batchAnswer[p] \notin {"absent", "prepared"}

LEMMA ClaimedOnceInit == BatchInit => ClaimedOnce
BY DEF BatchInit, ClaimedOnce

LEMMA ClaimedOnceStep ==
  ASSUME BatchTypeOK, ClaimedOnce, [BatchNext]_batchVars
  PROVE  ClaimedOnce'
<1>. USE DEF ClaimedOnce, Unclaimed, BatchTypeOK, batchWorld, batchLocals, BatchTurn,
             BatchQuit
<1>1. CASE PrepareBatch \/ ExpireBatch
  BY <1>1 DEF PrepareBatch, ExpireBatch
<1>2. ASSUME NEW p \in BatchProcs, RunBatch(p) \/ BatchRefused(p)
      PROVE  ClaimedOnce'
  BY <1>2 DEF RunBatch, BatchRefused
<1>3. ASSUME NEW p \in BatchProcs, ClaimBatch(p) PROVE ClaimedOnce'
  BY <1>3 DEF ClaimBatch, MayClaim
<1>4. ASSUME NEW p \in BatchProcs, SendBatch(p) \/ SendBatchFails(p)
      PROVE  ClaimedOnce'
  BY <1>4 DEF SendBatch, SendBatchFails
<1>5. ASSUME NEW p \in BatchProcs,
             CallBatchStatus(p) \/ ReadBatch(p) \/ VerifyBatch(p) \/ PutBatch(p)
      PROVE  ClaimedOnce'
  BY <1>5 DEF CallBatchStatus, ReadBatch, NotSent, VerifyBatch, PutBatch
<1>6. ASSUME NEW p \in BatchProcs, AskBatch(p) PROVE ClaimedOnce'
  <2>1. StateFor(walletBatch) \notin {"absent", "prepared"}
    BY DEF StateFor
  <2>. QED
    BY <1>6, <2>1 DEF AskBatch
<1>7. CASE WalletFinishes \/ BatchReorg \/ BatchReincluded
  BY <1>7 DEF WalletFinishes, BatchReorg, BatchReincluded
<1>8. ASSUME NEW p \in BatchProcs, BatchCrash(p) PROVE ClaimedOnce'
  BY <1>8 DEF BatchCrash
<1>9. CASE UNCHANGED batchVars
  BY <1>9 DEF batchVars
<1>. QED
  BY <1>1, <1>2, <1>3, <1>4, <1>5, <1>6, <1>7, <1>8, <1>9
  DEF BatchNext, BatchProcStep, BatchPoll

\* However many processes run, poll and die: the wallet is asked at most once
\* to send a batch (batches.ts:65-70).
THEOREM BatchIsSentOnce == BatchSpec => []BatchSentOnce
<1>1. BatchTypeOK /\ ClaimedOnce => BatchSentOnce
  BY DEF ClaimedOnce, BatchSentOnce
<1>. QED
  BY <1>1, BatchTypeInit, BatchTypeStep, ClaimedOnceInit, ClaimedOnceStep, PTL
  DEF BatchSpec

-----------------------------------------------------------------------------
(* safe/relay.ts *)

LEMMA NoRecordType == NoRecord \in Record
BY Zenon DEF NoRecord, Record, RelayStates

LEMMA StateOfRecord ==
  ASSUME NEW r \in Record, NEW s \in RelayStates
  PROVE  /\ [r EXCEPT !.state = s] \in Record
         /\ [r EXCEPT !.state = s].state = s
         /\ [r EXCEPT !.state = s].signatures = r.signatures
         /\ [r EXCEPT !.state = s].hashed = r.hashed
BY DEF Record

LEMMA SignedRecord ==
  ASSUME NEW r \in Record, NEW o \in Owners
  PROVE  /\ [r EXCEPT !.signatures = @ \cup {o}] \in Record
         /\ [r EXCEPT !.signatures = @ \cup {o}].state = r.state
         /\ [r EXCEPT !.signatures = @ \cup {o}].signatures = r.signatures \cup {o}
         /\ [r EXCEPT !.signatures = @ \cup {o}].hashed = r.hashed
BY DEF Record

LEMMA PendingRecord ==
  ASSUME NEW r \in Record
  PROVE  /\ [r EXCEPT !.state = "pending", !.hashed = TRUE] \in Record
         /\ [r EXCEPT !.state = "pending", !.hashed = TRUE].state = "pending"
         /\ [r EXCEPT !.state = "pending", !.hashed = TRUE].signatures = r.signatures
         /\ [r EXCEPT !.state = "pending", !.hashed = TRUE].hashed
BY DEF Record, RelayStates

\* The hash of a record tells that it was submitted.
HashedIff(r) == r.hashed <=> r.state \in {"pending"} \cup RelayOutcomes

\* value may take the place of r.
MayFollow(r, value) ==
  /\ HashedIff(value)
  /\ r.hashed => value.hashed
  /\ r.signatures \subseteq value.signatures

\* The part of the types the argument needs.
RelayRecords ==
  /\ record \in Record
  /\ bundled \in {"none", "held"} \cup RelayOutcomes
  /\ relaySeen \in [Clients -> Record] /\ relayNext \in [Clients -> Record]
  /\ relayStep \in [Clients -> RelaySteps]

\* Nothing is bundled without a hash on record; every client about to save
\* goes on from what it read.
HashedFirst ==
  /\ HashedIff(record)
  /\ everBundled => record.hashed
  /\ \A c \in Clients :
       /\ relayStep[c] = "save" => MayFollow(relaySeen[c], relayNext[c])
       /\ relayStep[c] = "send" => record.hashed
       /\ relayStep[c] = "receipt" =>
            HashedIff(relaySeen[c]) /\ relaySeen[c].hashed

RelayInv == RelayRecords /\ HashedFirst

LEMMA RelayInvInit == RelayInit => RelayInv
<1>1. RelayInit => RelayRecords
  BY NoRecordType DEF RelayInit, RelayRecords, RelaySteps
<1>2. RelayInit => HashedFirst
  BY DEF RelayInit, HashedFirst, HashedIff, NoRecord, RelayOutcomes
<1>. QED
  BY <1>1, <1>2 DEF RelayInv

\* What a client proposes may take the place of what it read.
LEMMA ProposeKeeps ==
  ASSUME RelayInv, NEW c \in Clients, NEW value \in Record,
         MayFollow(record, value), Propose(c, value)
  PROVE  RelayInv'
<1>1. RelayRecords'
  BY DEF RelayInv, RelayRecords, Propose, RelayTurn, RelaySteps, relayWorld
<1>2. HashedFirst'
  BY DEF RelayInv, RelayRecords, HashedFirst, HashedIff, Propose, RelayTurn,
         relayWorld, MayFollow
<1>. QED
  BY <1>1, <1>2 DEF RelayInv

LEMMA RelayInvStep ==
  ASSUME RelayInv, [RelayNext]_relayVars
  PROVE  /\ RelayInv'
         /\ record.signatures \subseteq record'.signatures
<1>1. ASSUME NEW c \in Clients, ProposeRelay(c)
      PROVE  RelayInv' /\ UNCHANGED record
  <2>. DEFINE value == [NoRecord EXCEPT !.state = "prepared"]
  <2>1. /\ value \in Record /\ value.state = "prepared" /\ value.signatures = {}
        /\ ~value.hashed /\ record = NoRecord
    BY <1>1, NoRecordType, StateOfRecord DEF ProposeRelay, NoRecord, RelayStates
  <2>2. MayFollow(record, value)
    BY <2>1 DEF MayFollow, HashedIff, NoRecord, RelayOutcomes
  <2>. QED
    BY <1>1, <2>1, <2>2, ProposeKeeps DEF ProposeRelay, Propose
<1>2. ASSUME NEW c \in Clients, NEW o \in Owners, SignRelay(c, o)
      PROVE  RelayInv' /\ UNCHANGED record
  <2>. DEFINE value == [record EXCEPT !.signatures = @ \cup {o}]
  <2>1. /\ value \in Record /\ value.state = record.state
        /\ value.signatures = record.signatures \cup {o}
        /\ value.hashed = record.hashed
    BY SignedRecord DEF RelayInv, RelayRecords
  <2>2. MayFollow(record, value)
    BY <2>1 DEF MayFollow, HashedIff, RelayInv, HashedFirst
  <2>. QED
    BY <1>2, <2>1, <2>2, ProposeKeeps DEF SignRelay, Propose
<1>3. ASSUME NEW c \in Clients, CancelRelay(c)
      PROVE  RelayInv' /\ UNCHANGED record
  <2>. DEFINE value == [record EXCEPT !.state = "cancelled"]
  <2>1. /\ value \in Record /\ value.state = "cancelled"
        /\ value.signatures = record.signatures
        /\ value.hashed = record.hashed /\ record.state = "prepared"
    BY <1>3, StateOfRecord DEF RelayInv, RelayRecords, RelayStates, CancelRelay
  <2>2. MayFollow(record, value)
    BY <2>1 DEF MayFollow, HashedIff, RelayInv, HashedFirst, RelayOutcomes
  <2>. QED
    BY <1>3, <2>1, <2>2, ProposeKeeps DEF CancelRelay, Propose
<1>4. ASSUME NEW c \in Clients, SaveRelay(c)
      PROVE  RelayInv' /\ record.signatures \subseteq record'.signatures
  <2>1. relayNext[c] \in Record /\ MayFollow(relaySeen[c], relayNext[c])
    BY <1>4 DEF RelayInv, RelayRecords, HashedFirst, SaveRelay
  <2>2. record' \in Record /\ MayFollow(record, record')
    BY <1>4, <2>1 DEF SaveRelay, MaySave, RelayInv, RelayRecords, HashedFirst,
                      MayFollow
  <2>3. RelayRecords'
    BY <1>4, <2>2, NoRecordType
    DEF RelayInv, RelayRecords, SaveRelay, RelayQuit, RelaySteps, relayWorld
  <2>4. HashedFirst'
    BY <1>4, <2>2 DEF RelayInv, RelayRecords, HashedFirst, HashedIff, MayFollow,
                      SaveRelay, RelayQuit, relayWorld
  <2>. QED
    BY <2>2, <2>3, <2>4 DEF RelayInv, MayFollow
<1>5. ASSUME NEW c \in Clients, SubmitRelay(c) \/ PollRelay(c)
      PROVE  RelayInv' /\ UNCHANGED record
  <2>1. RelayRecords' /\ UNCHANGED record
    BY <1>5 DEF RelayInv, RelayRecords, SubmitRelay, PollRelay, RelayTurn, RelaySteps,
                relayWorld
  <2>2. HashedFirst'
    BY <1>5 DEF RelayInv, RelayRecords, HashedFirst, HashedIff, MayFollow, SubmitRelay,
                PollRelay, RelayTurn, relayWorld
  <2>. QED
    BY <2>1, <2>2 DEF RelayInv
<1>6. ASSUME NEW c \in Clients, CountSignatures(c) \/ SimulateRelay(c)
      PROVE  RelayInv' /\ UNCHANGED record
  <2>1. RelayRecords' /\ UNCHANGED record
    BY <1>6, NoRecordType
    DEF RelayInv, RelayRecords, CountSignatures, SimulateRelay, RelayTurn, RelayQuit,
        RelaySteps, relayWorld
  <2>2. HashedFirst'
    BY <1>6 DEF RelayInv, RelayRecords, HashedFirst, HashedIff, MayFollow,
                CountSignatures, SimulateRelay, RelayTurn, RelayQuit, relayWorld
  <2>. QED
    BY <2>1, <2>2 DEF RelayInv
<1>7. ASSUME NEW c \in Clients, SavePendingRelay(c)
      PROVE  RelayInv' /\ record.signatures \subseteq record'.signatures
  <2>1. CASE MaySave(c)
    <3>1. /\ record' \in Record /\ record'.state = "pending" /\ record'.hashed
          /\ record'.signatures = record.signatures
      BY <1>7, <2>1, PendingRecord
      DEF SavePendingRelay, MaySave, RelayInv, RelayRecords
    <3>2. /\ relayStep' = [relayStep EXCEPT ![c] = "send"]
          /\ UNCHANGED <<relaySeen, relayNext, bundled, everBundled>>
      BY <1>7, <2>1 DEF SavePendingRelay, RelayTurn, relayWorld
    <3>3. RelayRecords'
      BY <3>1, <3>2 DEF RelayInv, RelayRecords, RelaySteps
    <3>4. HashedFirst'
      BY <3>1, <3>2 DEF RelayInv, RelayRecords, HashedFirst, HashedIff, MayFollow
    <3>. QED
      BY <3>1, <3>3, <3>4 DEF RelayInv
  <2>2. CASE ~MaySave(c)
    <3>1. RelayQuit(c) /\ UNCHANGED <<record, bundled, everBundled>>
      BY <1>7, <2>2 DEF SavePendingRelay, relayWorld
    <3>2. RelayRecords'
      BY <3>1, NoRecordType DEF RelayInv, RelayRecords, RelayQuit, RelaySteps
    <3>3. HashedFirst'
      BY <3>1 DEF RelayInv, RelayRecords, HashedFirst, HashedIff, MayFollow, RelayQuit
    <3>. QED
      BY <3>1, <3>2, <3>3 DEF RelayInv
  <2>. QED
    BY <2>1, <2>2
<1>8. ASSUME NEW c \in Clients, SendRelay(c) \/ SendRelayFails(c)
      PROVE  RelayInv' /\ UNCHANGED record
  <2>1. /\ relayStep[c] = "send" /\ RelayQuit(c) /\ UNCHANGED record
        /\ bundled' \in {bundled, "held"}
    BY <1>8 DEF SendRelay, SendRelayFails, relayWorld
  <2>2. RelayRecords'
    BY <2>1, NoRecordType DEF RelayInv, RelayRecords, RelayQuit, RelaySteps
  <2>3. HashedFirst'
    BY <2>1 DEF RelayInv, RelayRecords, HashedFirst, HashedIff, MayFollow, RelayQuit
  <2>. QED
    BY <2>1, <2>2, <2>3 DEF RelayInv
<1>9. ASSUME NEW c \in Clients, ReceiptOfRelay(c)
      PROVE  RelayInv' /\ UNCHANGED record
  <2>. DEFINE seen == relaySeen[c]
              result == IF bundled \in RelayOutcomes
                        THEN [seen EXCEPT !.state = bundled] ELSE WithoutReceipt(seen)
  <2>1. seen \in Record /\ HashedIff(seen) /\ seen.hashed
    BY <1>9 DEF RelayInv, RelayRecords, HashedFirst, ReceiptOfRelay
  <2>2. /\ result \in Record /\ result.hashed = seen.hashed
        /\ result.signatures = seen.signatures
        /\ result.state \in {seen.state, "pending"} \cup RelayOutcomes
    BY <2>1, StateOfRecord DEF WithoutReceipt, RelayStates
  <2>3. MayFollow(seen, result)
    BY <2>1, <2>2 DEF MayFollow, HashedIff
  <2>. HIDE DEF result
  <2>4. \/ /\ RelayTurn(c, "receipt", "save") /\ UNCHANGED relaySeen
           /\ relayNext' = [relayNext EXCEPT ![c] = result]
        \/ RelayQuit(c)
    BY <1>9 DEF ReceiptOfRelay, result
  <2>5. UNCHANGED <<record, bundled, everBundled>>
    BY <1>9 DEF ReceiptOfRelay, relayWorld
  <2>6. RelayRecords'
    BY <2>2, <2>4, <2>5, NoRecordType
    DEF RelayInv, RelayRecords, RelayTurn, RelayQuit, RelaySteps
  <2>7. HashedFirst'
    BY <2>3, <2>4, <2>5
    DEF RelayInv, RelayRecords, HashedFirst, HashedIff, MayFollow, RelayTurn, RelayQuit
  <2>. QED
    BY <2>5, <2>6, <2>7 DEF RelayInv
<1>10. ASSUME \/ \E o \in Owners : OwnerRemoved(o)
              \/ RelayExpires \/ BundlerActs \/ RelayReorg \/ UNCHANGED relayVars
       PROVE  RelayInv' /\ UNCHANGED record
  <2>1. /\ UNCHANGED <<record, relayStep, relaySeen, relayNext, everBundled>>
        /\ bundled' \in {bundled, "none", "held"} \cup RelayOutcomes
    BY <1>10 DEF OwnerRemoved, RelayExpires, BundlerActs, RelayReorg, relayVars,
                 relayWorld, relayLocals
  <2>2. RelayRecords'
    BY <2>1 DEF RelayInv, RelayRecords
  <2>3. HashedFirst'
    BY <2>1 DEF RelayInv, RelayRecords, HashedFirst, HashedIff, MayFollow
  <2>. QED
    BY <2>1, <2>2, <2>3 DEF RelayInv
<1>. QED
  BY <1>1, <1>2, <1>3, <1>4, <1>5, <1>6, <1>7, <1>8, <1>9, <1>10
  DEF RelayNext, RelayGoesOn

\* Whoever signs, submits, cancels and polls a sponsored operation at the same
\* time: the bundler is given nothing the record does not show as submitted,
\* and no signature is lost (safe/relay.ts:35-38).
THEOREM RelayRecordsAll == RelaySpec => RelayIsRecorded
<1>1. RelayInv' => BundledIsRecorded'
  BY DEF RelayInv, HashedFirst, HashedIff, BundledIsRecorded
<1>2. RelayInv /\ [RelayNext]_relayVars
        => [BundledIsRecorded' /\ SignaturesAreKept]_relayVars
  BY <1>1, RelayInvStep DEF SignaturesAreKept
<1>3. RelayInv /\ [RelayNext]_relayVars => RelayInv'
  BY RelayInvStep
<1>. QED
  BY <1>2, <1>3, RelayInvInit, PTL DEF RelaySpec, RelayIsRecorded

-----------------------------------------------------------------------------
(* smart-execution.ts *)

\* The part of the types the argument needs.
SmartRecords ==
  /\ row \in [tag: SmartTags, remote: RemoteId]
  /\ smartLock \in SmartProcs \cup {NoSmart} /\ smartDead \in BOOLEAN
  /\ provider \in [SmartTxs -> ProviderStates]
  /\ event \in [SmartTxs -> Events]
  /\ smartStep \in [SmartProcs -> SmartSteps]
  /\ goal \in [SmartProcs -> Goals]
  /\ smartTx \in [SmartProcs -> RemoteId]
  /\ found \in [SmartProcs -> SmartTags]

\* Whoever works under the lock holds it and lives.
UnderLock(p) == smartStep[p] # "idle" /\ Holds(p)
HeldByLiving == \A p \in SmartProcs : UnderLock(p) => smartLock = p /\ ~smartDead

LockedSteps == {"locked", "record", "approve", "unlock"}

\* Process p works on the recorded transaction.
OnRecord(p) == row.remote # NoSmart /\ smartTx[p] = row.remote

\* What p knows of the row.  Nobody but the holder of the lock writes the first
\* id, so what it has found stays true; and nobody changes an id.
Knows(p) ==
  /\ smartStep[p] \in LockedSteps => Holds(p)
  /\ smartStep[p] \in {"ask", "receipt", "save", "approve"} => OnRecord(p)
  /\ smartStep[p] \in {"receipt", "save"} => found[p] # "prepared"
  /\ smartStep[p] \in {"next", "locked"} /\ found[p] # "prepared" => OnRecord(p)
  /\ smartStep[p] = "locked" /\ found[p] = "prepared" => row.remote = NoSmart
  /\ smartStep[p] = "next" /\ goal[p] = "locked" /\ found[p] = "prepared" =>
       row.remote = NoSmart
  /\ smartStep[p] = "record" => row.remote = NoSmart /\ smartTx[p] \in SmartTxs

RecordedFirst ==
  /\ row.tag = "prepared" <=> row.remote = NoSmart
  /\ ApprovedIsRecorded
  /\ HeldByLiving
  /\ \A p \in SmartProcs : Knows(p)

SmartInv == SmartRecords /\ RecordedFirst

LEMMA SmartInvInit == SmartInit => SmartInv
<1>1. SmartInit => SmartRecords
  <2>1. [tag |-> "prepared", remote |-> NoSmart] \in [tag: SmartTags, remote: RemoteId]
    BY DEF SmartTags, RemoteId
  <2>2. SmartInit => smartDead \in BOOLEAN
    BY DEF SmartInit
  <2>3. SmartInit => /\ row \in [tag: SmartTags, remote: RemoteId]
                     /\ smartLock \in SmartProcs \cup {NoSmart}
    BY <2>1 DEF SmartInit
  <2>4. SmartInit => /\ provider \in [SmartTxs -> ProviderStates]
                     /\ event \in [SmartTxs -> Events]
    BY DEF SmartInit, ProviderStates, Events
  <2>5. SmartInit => /\ smartStep \in [SmartProcs -> SmartSteps]
                     /\ goal \in [SmartProcs -> Goals]
                     /\ smartTx \in [SmartProcs -> RemoteId]
                     /\ found \in [SmartProcs -> SmartTags]
    BY DEF SmartInit, SmartSteps, Goals, RemoteId, SmartTags
  <2>. QED
    BY <2>2, <2>3, <2>4, <2>5 DEF SmartRecords
<1>2. SmartInit => RecordedFirst
  BY DEF SmartInit, RecordedFirst, ApprovedIsRecorded, HeldByLiving, UnderLock, Knows,
         LockedSteps
<1>. QED
  BY <1>1, <1>2 DEF SmartInv

LEMMA SmartEndType ==
  ASSUME SmartRecords, NEW p \in SmartProcs, SmartEnd(p) \/ SmartLeave(p)
  PROVE  /\ smartStep' \in [SmartProcs -> SmartSteps]
         /\ goal' \in [SmartProcs -> Goals]
         /\ smartTx' \in [SmartProcs -> RemoteId]
         /\ found' \in [SmartProcs -> SmartTags]
BY DEF SmartRecords, SmartEnd, SmartLeave, SmartTo, SmartSteps, Goals, RemoteId, SmartTags

\* The locals of all processes but p stay.
OnlyLocalsOf(p) ==
  \A q \in SmartProcs \ {p} :
    /\ smartStep'[q] = smartStep[q] /\ goal'[q] = goal[q]
    /\ smartTx'[q] = smartTx[q] /\ found'[q] = found[q]

\* They know what they knew as long as the recorded id stays.
LEMMA OthersKnow ==
  ASSUME SmartInv, NEW p \in SmartProcs, OnlyLocalsOf(p), row'.remote = row.remote
  PROVE  \A q \in SmartProcs \ {p} : Knows(q)'
BY DEF SmartInv, RecordedFirst, OnlyLocalsOf, Knows, OnRecord, Holds

\* They hold what they held as long as the lock stays.
LEMMA OthersHold ==
  ASSUME SmartInv, NEW p \in SmartProcs, OnlyLocalsOf(p),
         UNCHANGED <<smartLock, smartDead>>
  PROVE  \A q \in SmartProcs \ {p} : UnderLock(q)' => smartLock' = q /\ ~smartDead'
BY DEF SmartInv, RecordedFirst, HeldByLiving, OnlyLocalsOf, UnderLock, Holds

\* An error or the end of a call leaves nothing to know, and the lock with
\* whoever has it.
LEMMA LeaveKeeps ==
  ASSUME SmartInv, NEW p \in SmartProcs, smartStep[p] # "idle", SmartLeave(p),
         UNCHANGED <<row, smartLock, smartDead>>
  PROVE  HeldByLiving' /\ \A q \in SmartProcs : Knows(q)'
<1>1. OnlyLocalsOf(p)
  BY DEF SmartInv, SmartRecords, SmartLeave, SmartEnd, SmartTo, OnlyLocalsOf
<1>2. Knows(p)'
  BY DEF SmartInv, SmartRecords, SmartLeave, SmartEnd, SmartTo, Knows, LockedSteps, Holds
<1>3. UnderLock(p)' => UnderLock(p)
  BY DEF SmartInv, SmartRecords, SmartLeave, SmartEnd, SmartTo, UnderLock, Holds
<1>. QED
  BY <1>1, <1>2, <1>3, OthersKnow, OthersHold
  DEF SmartInv, RecordedFirst, HeldByLiving

\* The same for a step that goes on, once p's own knowledge is shown.
LEMMA TurnKeeps ==
  ASSUME SmartInv, NEW p \in SmartProcs, OnlyLocalsOf(p), Knows(p)',
         UnderLock(p)' => UnderLock(p),
         row'.remote = row.remote, UNCHANGED <<smartLock, smartDead>>
  PROVE  HeldByLiving' /\ \A q \in SmartProcs : Knows(q)'
BY OthersKnow, OthersHold DEF SmartInv, RecordedFirst, HeldByLiving

\* What is said about the row and the provider stays when neither changes.
LEMMA SameRow ==
  ASSUME SmartInv, UNCHANGED <<row, provider>>
  PROVE  (row.tag = "prepared" <=> row.remote = NoSmart)' /\ ApprovedIsRecorded'
BY DEF SmartInv, RecordedFirst, ApprovedIsRecorded

LEMMA ReadsKeep ==
  ASSUME SmartInv, NEW p \in SmartProcs,
         CallSmart(p) \/ SmartRead(p) \/ SmartAsk(p) \/ SmartReceipt(p)
  PROVE  SmartInv'
<1>. USE DEF smartStore, smartWorld, SmartTo, SmartTurn
<1>1. CASE CallSmart(p)
  <2>1. SmartRecords'
    BY <1>1 DEF SmartInv, SmartRecords, CallSmart, SmartSteps, Goals
  <2>2. OnlyLocalsOf(p) /\ Knows(p)' /\ ~UnderLock(p)'
    BY <1>1 DEF SmartInv, SmartRecords, CallSmart, OnlyLocalsOf, Knows, LockedSteps,
                UnderLock, Holds
  <2>3. UNCHANGED <<row, provider, smartLock, smartDead>>
    BY <1>1 DEF CallSmart
  <2>. QED
    BY <2>1, <2>2, <2>3, TurnKeeps, SameRow DEF SmartInv, RecordedFirst
<1>2. CASE SmartRead(p)
  <2>1. SmartRecords'
    BY <1>2 DEF SmartInv, SmartRecords, SmartRead, SmartSteps
  <2>2. OnlyLocalsOf(p) /\ (UnderLock(p)' => UnderLock(p))
    BY <1>2 DEF SmartInv, SmartRecords, SmartRead, OnlyLocalsOf, UnderLock, Holds
  <2>3. Knows(p)'
    BY <1>2 DEF SmartInv, SmartRecords, RecordedFirst, SmartRead, Knows, OnRecord,
                LockedSteps
  <2>4. UNCHANGED <<row, provider, smartLock, smartDead>>
    BY <1>2 DEF SmartRead
  <2>. QED
    BY <2>1, <2>2, <2>3, <2>4, TurnKeeps, SameRow DEF SmartInv, RecordedFirst
<1>3. CASE SmartAsk(p)
  <2>1. UNCHANGED <<row, provider, event, smartLock, smartDead>> /\ smartStep[p] = "ask"
    BY <1>3 DEF SmartAsk
  <2>2. CASE SmartLeave(p)
    <3>1. SmartRecords'
      BY <2>1, <2>2, SmartEndType DEF SmartInv, SmartRecords
    <3>. QED
      BY <2>1, <2>2, <3>1, LeaveKeeps, SameRow DEF SmartInv, RecordedFirst
  <2>3. CASE /\ \E step \in {"receipt", "save"} : SmartTo(p, step)
             /\ found' = [found EXCEPT ![p] = "walletPending"]
             /\ UNCHANGED <<goal, smartTx>>
    <3>1. SmartRecords'
      BY <2>1, <2>3 DEF SmartInv, SmartRecords, SmartSteps, SmartTags
    <3>2. OnlyLocalsOf(p) /\ (UnderLock(p)' => UnderLock(p))
      BY <2>1, <2>3 DEF SmartInv, SmartRecords, OnlyLocalsOf, UnderLock, Holds
    <3>3. Knows(p)'
      BY <2>1, <2>3 DEF SmartInv, SmartRecords, RecordedFirst, Knows, OnRecord, LockedSteps
    <3>. QED
      BY <2>1, <3>1, <3>2, <3>3, TurnKeeps, SameRow DEF SmartInv, RecordedFirst
  <2>. QED
    BY <1>3, <2>2, <2>3 DEF SmartAsk
<1>4. CASE SmartReceipt(p)
  <2>1. smartTx[p] \in SmartTxs
    BY <1>4 DEF SmartInv, SmartRecords, RecordedFirst, Knows, OnRecord, SmartReceipt,
                RemoteId
  <2>2. FoundState(event[smartTx[p]]) \in SmartTags \ {"prepared"}
    BY <2>1 DEF SmartInv, SmartRecords, FoundState, Events, SmartSettled, SmartTags
  <2>3. SmartRecords'
    BY <1>4, <2>2 DEF SmartInv, SmartRecords, SmartReceipt, SmartSteps
  <2>4. OnlyLocalsOf(p) /\ (UnderLock(p)' => UnderLock(p))
    BY <1>4 DEF SmartInv, SmartRecords, SmartReceipt, OnlyLocalsOf, UnderLock, Holds
  <2>5. Knows(p)'
    BY <1>4, <2>2 DEF SmartInv, SmartRecords, RecordedFirst, SmartReceipt, Knows, OnRecord,
                      LockedSteps
  <2>6. UNCHANGED <<row, provider, smartLock, smartDead>>
    BY <1>4 DEF SmartReceipt
  <2>. QED
    BY <2>3, <2>4, <2>5, <2>6, TurnKeeps, SameRow DEF SmartInv, RecordedFirst
<1>. QED
  BY <1>1, <1>2, <1>3, <1>4

LEMMA SaveKeeps ==
  ASSUME SmartInv, NEW p \in SmartProcs, SmartSave(p)
  PROVE  SmartInv'
<1>. USE DEF smartWorld, SmartTo, SmartTurn
<1>1. OnRecord(p) /\ found[p] # "prepared"
  BY DEF SmartInv, RecordedFirst, Knows, SmartSave
<1>2. row' = [tag |-> found[p], remote |-> smartTx[p]] /\ row'.remote = row.remote
  BY <1>1 DEF SmartSave, OnRecord
<1>3. SmartRecords'
  BY <1>2 DEF SmartInv, SmartRecords, SmartSave, SmartSteps
<1>4. OnlyLocalsOf(p) /\ (UnderLock(p)' => UnderLock(p))
  BY DEF SmartInv, SmartRecords, SmartSave, OnlyLocalsOf, UnderLock, Holds
<1>5. Knows(p)'
  BY <1>1, <1>2 DEF SmartInv, SmartRecords, SmartSave, Knows, OnRecord, LockedSteps
<1>6. UNCHANGED <<provider, smartLock, smartDead>>
  BY DEF SmartSave
<1>7. (row.tag = "prepared" <=> row.remote = NoSmart)'
  BY <1>1, <1>2 DEF OnRecord
<1>8. ApprovedIsRecorded'
  BY <1>2, <1>6 DEF SmartInv, RecordedFirst, ApprovedIsRecorded
<1>. QED
  BY <1>2, <1>3, <1>4, <1>5, <1>6, <1>7, <1>8, TurnKeeps DEF SmartInv, RecordedFirst

LEMMA NextKeeps ==
  ASSUME SmartInv, NEW p \in SmartProcs, SmartNext(p)
  PROVE  SmartInv'
<1>. USE DEF smartWorld, SmartTo
<1>1. UNCHANGED <<row, provider, event>> /\ smartStep[p] = "next"
  BY DEF SmartNext
<1>2. CASE SmartLeave(p) /\ UNCHANGED <<smartLock, smartDead>>
  <2>1. SmartRecords'
    BY <1>1, <1>2, SmartEndType DEF SmartInv, SmartRecords
  <2>. QED
    BY <1>1, <1>2, <2>1, LeaveKeeps, SameRow DEF SmartInv, RecordedFirst
<1>3. CASE /\ goal[p] = "locked" /\ found[p] \notin SmartSettled
           /\ SmartTo(p, "locked") /\ UNCHANGED <<goal, smartTx, found>>
           /\ UNCHANGED <<smartLock, smartDead>>
  <2>1. SmartRecords'
    BY <1>1, <1>3 DEF SmartInv, SmartRecords, SmartSteps
  <2>2. OnlyLocalsOf(p) /\ (UnderLock(p)' => UnderLock(p))
    BY <1>1, <1>3 DEF SmartInv, SmartRecords, OnlyLocalsOf, UnderLock, Holds
  <2>3. Knows(p)'
    BY <1>1, <1>3 DEF SmartInv, SmartRecords, RecordedFirst, Knows, OnRecord, LockedSteps,
                      Holds
  <2>. QED
    BY <1>1, <1>3, <2>1, <2>2, <2>3, TurnKeeps, SameRow DEF SmartInv, RecordedFirst
<1>4. CASE /\ smartLock = NoSmart \/ smartDead
           /\ smartLock' = p /\ smartDead' = FALSE
           /\ SmartTo(p, "read") /\ goal' = [goal EXCEPT ![p] = "locked"]
           /\ UNCHANGED <<smartTx, found>>
  <2>1. SmartRecords'
    <3>1. smartDead' \in BOOLEAN
      BY <1>4
    <3>. QED
      BY <1>1, <1>4, <3>1 DEF SmartInv, SmartRecords, SmartSteps, Goals
  <2>2. OnlyLocalsOf(p)
    BY <1>1, <1>4 DEF SmartInv, SmartRecords, OnlyLocalsOf
  <2>3. \A q \in SmartProcs : ~UnderLock(q)
    BY <1>4, SmartAssumption DEF SmartInv, RecordedFirst, HeldByLiving
  <2>4. HeldByLiving'
    BY <1>4, <2>2, <2>3 DEF HeldByLiving, UnderLock, Holds, OnlyLocalsOf
  <2>5. Knows(p)'
    BY <1>1, <1>4 DEF SmartInv, SmartRecords, Knows, LockedSteps
  <2>. QED
    BY <1>1, <2>1, <2>2, <2>4, <2>5, OthersKnow, SameRow DEF SmartInv, RecordedFirst
<1>5. CASE SmartEnd(p) /\ ~Holds(p) /\ UNCHANGED <<smartLock, smartDead>>
  BY <1>2, <1>5 DEF SmartLeave
<1>. QED
  BY <1>2, <1>3, <1>4, <1>5 DEF SmartNext, Holds

LEMMA PrepareKeeps ==
  ASSUME SmartInv, NEW p \in SmartProcs, SmartPrepare(p)
  PROVE  SmartInv'
<1>. USE DEF smartStore, SmartTo
<1>1. /\ smartStep[p] = "locked" /\ found[p] = "prepared" /\ Holds(p)
      /\ row.remote = NoSmart
      /\ UNCHANGED <<row, smartLock, smartDead, event, goal, found>>
  BY DEF SmartPrepare, SmartInv, RecordedFirst, Knows, LockedSteps
<1>2. PICK t \in RemoteId : \/ UNCHANGED provider
                            \/ /\ t \in UnusedTxs
                               /\ provider' = [provider EXCEPT ![t] = "awaiting"]
  BY DEF SmartPrepare, RemoteId, UnusedTxs
<1>3. provider' \in [SmartTxs -> ProviderStates]
  BY <1>2 DEF SmartInv, SmartRecords, ProviderStates
<1>4. ApprovedIsRecorded'
  BY <1>1, <1>2 DEF SmartInv, SmartRecords, RecordedFirst, ApprovedIsRecorded
<1>5. \/ SmartTo(p, "unlock") /\ UNCHANGED smartTx
      \/ \E u \in SmartTxs : SmartTo(p, "record") /\ smartTx' = [smartTx EXCEPT ![p] = u]
  BY DEF SmartPrepare, UnusedTxs
<1>6. SmartRecords'
  BY <1>1, <1>3, <1>5 DEF SmartInv, SmartRecords, SmartSteps, RemoteId
<1>7. OnlyLocalsOf(p) /\ (UnderLock(p)' => UnderLock(p))
  BY <1>1, <1>5 DEF SmartInv, SmartRecords, OnlyLocalsOf, UnderLock, Holds
<1>8. Knows(p)'
  BY <1>1, <1>5 DEF SmartInv, SmartRecords, Knows, LockedSteps, Holds
<1>. QED
  BY <1>1, <1>4, <1>6, <1>7, <1>8, TurnKeeps DEF SmartInv, RecordedFirst

\* Recording the first id: nobody else has found one, or is under the lock.
LEMMA RecordKeeps ==
  ASSUME SmartInv, NEW p \in SmartProcs, SmartRecord(p)
  PROVE  SmartInv'
<1>. USE DEF smartWorld, SmartTo, SmartTurn
<1>1. /\ smartStep[p] = "record" /\ Holds(p) /\ UnderLock(p)
      /\ row.remote = NoSmart /\ smartTx[p] \in SmartTxs /\ smartTx[p] # NoSmart
      /\ UNCHANGED <<provider, event, smartLock, smartDead, goal, smartTx, found>>
  BY SmartAssumption DEF SmartRecord, SmartInv, RecordedFirst, Knows, LockedSteps, UnderLock
<1>2. row' = [tag |-> "walletPending", remote |-> smartTx[p]]
  BY DEF SmartRecord
<1>3. SmartRecords'
  BY <1>1, <1>2 DEF SmartInv, SmartRecords, SmartRecord, SmartSteps, SmartTags, RemoteId
<1>4. OnlyLocalsOf(p) /\ Knows(p)'
  BY <1>1, <1>2 DEF SmartInv, SmartRecords, SmartRecord, OnlyLocalsOf, Knows, OnRecord,
                    LockedSteps, Holds
<1>5. \A q \in SmartProcs \ {p} : ~UnderLock(q)
  BY <1>1 DEF SmartInv, RecordedFirst, HeldByLiving
<1>6. ASSUME NEW q \in SmartProcs \ {p} PROVE Knows(q)'
  <2>1. /\ smartStep[q] \notin LockedSteps
        /\ smartStep[q] \notin {"ask", "receipt", "save", "approve"}
        /\ ~(smartStep[q] = "next" /\ found[q] # "prepared")
        /\ ~(smartStep[q] = "next" /\ goal[q] = "locked")
    BY <1>1, <1>5 DEF SmartInv, RecordedFirst, Knows, OnRecord, UnderLock, Holds,
                      LockedSteps
  <2>. QED
    BY <1>4, <2>1 DEF OnlyLocalsOf, Knows, LockedSteps
<1>7. HeldByLiving'
  BY <1>1, <1>4, OthersHold
  DEF SmartInv, RecordedFirst, HeldByLiving, UnderLock, Holds, OnlyLocalsOf
<1>8. ApprovedIsRecorded'
  BY <1>1, SmartAssumption DEF SmartInv, RecordedFirst, ApprovedIsRecorded
<1>. QED
  BY <1>1, <1>2, <1>3, <1>4, <1>6, <1>7, <1>8 DEF SmartInv, RecordedFirst

\* Only the recorded transaction is ever approved.
LEMMA ApproveRecorded ==
  ASSUME SmartInv, NEW p \in SmartProcs, OnRecord(p), UNCHANGED row,
         provider' \in {provider, Approved(smartTx[p])}
  PROVE  provider' \in [SmartTxs -> ProviderStates] /\ ApprovedIsRecorded'
BY DEF SmartInv, SmartRecords, RecordedFirst, ApprovedIsRecorded, OnRecord, Approved,
       ProviderStates

LEMMA ResumesKeep ==
  ASSUME SmartInv, NEW p \in SmartProcs, SmartResume(p) \/ SmartApprove(p)
  PROVE  SmartInv'
<1>. USE DEF smartStore, smartWorld, SmartTo
<1>1. /\ OnRecord(p) /\ Holds(p) /\ smartStep[p] \in {"locked", "approve"}
      /\ UNCHANGED <<row, event, smartLock, smartDead, smartTx, found>>
  BY DEF SmartInv, RecordedFirst, Knows, LockedSteps, SmartResume, SmartApprove
<1>2. provider' \in {provider, Approved(smartTx[p])}
  BY DEF SmartResume, SmartApprove
<1>3. \E step \in {"approve", "ask", "unlock"} :
        /\ SmartTo(p, step)
        /\ goal' \in {goal, [goal EXCEPT ![p] = "resumed"]}
  BY DEF SmartResume, SmartApprove
<1>4. provider' \in [SmartTxs -> ProviderStates] /\ ApprovedIsRecorded'
  BY <1>1, <1>2, ApproveRecorded
<1>5. SmartRecords'
  BY <1>1, <1>3, <1>4 DEF SmartInv, SmartRecords, SmartSteps, Goals
<1>6. OnlyLocalsOf(p) /\ (UnderLock(p)' => UnderLock(p))
  BY <1>1, <1>3 DEF SmartInv, SmartRecords, OnlyLocalsOf, UnderLock, Holds
<1>7. Knows(p)'
  BY <1>1, <1>3 DEF SmartInv, SmartRecords, Knows, OnRecord, LockedSteps, Holds
<1>. QED
  BY <1>1, <1>4, <1>5, <1>6, <1>7, TurnKeeps DEF SmartInv, RecordedFirst

LEMMA UnlockKeeps ==
  ASSUME SmartInv, NEW p \in SmartProcs, SmartUnlock(p)
  PROVE  SmartInv'
<1>. USE DEF smartWorld, SmartTo
<1>1. /\ UnderLock(p) /\ SmartEnd(p) /\ smartLock' = NoSmart
      /\ UNCHANGED <<row, provider, event, smartDead>>
  BY DEF SmartUnlock, SmartInv, RecordedFirst, Knows, LockedSteps, UnderLock
<1>2. SmartRecords'
  BY <1>1, SmartEndType DEF SmartInv, SmartRecords
<1>3. OnlyLocalsOf(p) /\ Knows(p)' /\ ~UnderLock(p)'
  BY <1>1 DEF SmartInv, SmartRecords, SmartEnd, OnlyLocalsOf, Knows, LockedSteps, UnderLock
<1>4. \A q \in SmartProcs \ {p} : ~UnderLock(q)
  BY <1>1 DEF SmartInv, RecordedFirst, HeldByLiving
<1>5. HeldByLiving'
  BY <1>3, <1>4 DEF HeldByLiving, UnderLock, Holds, OnlyLocalsOf
<1>. QED
  BY <1>1, <1>2, <1>3, <1>5, OthersKnow, SameRow DEF SmartInv, RecordedFirst

LEMMA FailuresKeep ==
  ASSUME SmartInv, NEW p \in SmartProcs, SmartCallFails(p) \/ SmartCrash(p)
  PROVE  SmartInv'
<1>. USE DEF smartStore, smartWorld
<1>1. CASE SmartCallFails(p)
  <2>1. /\ smartStep[p] \in {"ask", "receipt", "locked", "approve"} /\ SmartLeave(p)
        /\ UNCHANGED <<row, event, smartLock, smartDead>>
        /\ \/ UNCHANGED provider
           \/ smartStep[p] = "approve" /\ provider' \in {provider, Approved(smartTx[p])}
    BY <1>1 DEF SmartCallFails
  <2>2. provider' \in [SmartTxs -> ProviderStates] /\ ApprovedIsRecorded'
    BY <2>1, ApproveRecorded, SameRow DEF SmartInv, SmartRecords, RecordedFirst, Knows
  <2>3. SmartRecords'
    BY <2>1, <2>2, SmartEndType DEF SmartInv, SmartRecords
  <2>. QED
    BY <2>1, <2>2, <2>3, LeaveKeeps DEF SmartInv, RecordedFirst
<1>2. CASE SmartCrash(p)
  <2>1. /\ smartStep[p] # "idle" /\ SmartEnd(p)
        /\ smartDead' = (smartDead \/ smartLock = p)
        /\ UNCHANGED <<row, provider, event, smartLock>>
    BY <1>2 DEF SmartCrash
  <2>2. smartDead' \in BOOLEAN
    BY <2>1
  <2>3. SmartRecords'
    BY <2>1, <2>2, SmartEndType DEF SmartInv, SmartRecords
  <2>4. OnlyLocalsOf(p) /\ Knows(p)' /\ ~UnderLock(p)'
    BY <2>1 DEF SmartInv, SmartRecords, SmartEnd, SmartTo, OnlyLocalsOf, Knows,
                LockedSteps, UnderLock
  <2>5. HeldByLiving'
    BY <2>1, <2>4 DEF SmartInv, RecordedFirst, HeldByLiving, UnderLock, Holds, OnlyLocalsOf
  <2>. QED
    BY <2>1, <2>3, <2>4, <2>5, OthersKnow, SameRow DEF SmartInv, RecordedFirst
<1>. QED
  BY <1>1, <1>2

LEMMA SmartInvStep ==
  ASSUME SmartInv, [SmartExecutionNext]_smartVars
  PROVE  SmartInv'
<1>1. ASSUME UNCHANGED <<row, smartLock, smartDead, smartStep, goal, smartTx, found>>,
             provider' \in [SmartTxs -> ProviderStates],
             event' \in [SmartTxs -> Events], ApprovedIsRecorded'
      PROVE  SmartInv'
  <2>1. SmartRecords'
    BY <1>1 DEF SmartInv, SmartRecords
  <2>2. HeldByLiving' /\ (row.tag = "prepared" <=> row.remote = NoSmart)'
    BY <1>1 DEF SmartInv, RecordedFirst, HeldByLiving, UnderLock, Holds
  <2>3. \A q \in SmartProcs : Knows(q)'
    BY <1>1 DEF SmartInv, RecordedFirst, Knows, OnRecord, Holds
  <2>. QED
    BY <1>1, <2>1, <2>2, <2>3 DEF SmartInv, RecordedFirst
<1>2. ASSUME NEW t \in SmartTxs, ProviderFinishes(t) PROVE SmartInv'
  <2>1. /\ provider' \in [SmartTxs -> ProviderStates] /\ event' \in [SmartTxs -> Events]
        /\ ApprovedIsRecorded'
    BY <1>2 DEF ProviderFinishes, smartStore, SmartInv, SmartRecords, RecordedFirst,
                ApprovedIsRecorded, ProviderStates, Events
  <2>. QED
    BY <1>1, <1>2, <2>1 DEF ProviderFinishes, smartStore, smartLocals
<1>3. ASSUME NEW t \in SmartTxs, SmartReorg(t) PROVE SmartInv'
  <2>1. event' \in [SmartTxs -> Events] /\ UNCHANGED <<row, provider>>
    BY <1>3 DEF SmartReorg, smartStore, SmartInv, SmartRecords
  <2>. QED
    BY <1>1, <1>3, <2>1, SameRow
    DEF SmartReorg, smartStore, smartLocals, SmartInv, SmartRecords
<1>4. ASSUME SmartExpire \/ UNCHANGED smartVars PROVE SmartInv'
  BY <1>1, <1>4, SameRow
  DEF SmartExpire, smartVars, smartStore, smartWorld, smartLocals, SmartInv, SmartRecords
<1>. QED
  BY <1>2, <1>3, <1>4, ReadsKeep, SaveKeeps, NextKeeps, PrepareKeeps, RecordKeeps,
     ResumesKeep, UnlockKeeps, FailuresKeep
  DEF SmartExecutionNext, SmartProcStep

\* Whatever dies, fails, races or is repeated: nothing is approved at the
\* provider but the one transaction the row records (smart-execution.ts:44-63).
THEOREM OnlyRecordedIsApproved == SmartSpec => []ApprovedIsRecorded
<1>1. SmartInv => ApprovedIsRecorded
  BY DEF SmartInv, RecordedFirst
<1>. QED
  BY <1>1, SmartInvInit, SmartInvStep, PTL DEF SmartSpec

-----------------------------------------------------------------------------
(* workflows.ts *)

LEMMA FlowTypeInit == FlowInit => FlowTypeOK
<1>. SUFFICES ASSUME FlowInit PROVE FlowTypeOK
  OBVIOUS
<1>1. /\ FlowLength \in Nat /\ 1 \in FlowSteps /\ 0 \in 0..FlowLength
      /\ 0 \in 0..FlowReorgs
  BY FlowAssumption DEF FlowSteps
<1>2. [tag |-> "absent", block |-> 0] \in FlowRow
  BY DEF FlowRow, FlowTags
<1>3. holds \in SUBSET (FlowSteps \X Blocks)
  BY FlowAssumption DEF FlowInit, FlowSteps
<1>4. flowOps \in [FlowSteps -> FlowRow]
  BY <1>2 DEF FlowInit
<1>5. /\ flow \in {"absent", "live", "cancelled"}
      /\ flowStep \in [Runners -> FlowPcs] /\ flowAt \in [Runners -> FlowSteps]
      /\ late \in [Runners -> 0..FlowLength]
  BY <1>1 DEF FlowInit, FlowPcs
<1>6. /\ evidence \in [FlowSteps -> {0} \cup Blocks]
      /\ included \in [FlowSteps -> {0} \cup Blocks]
      /\ flowSaw \in [Runners -> {0} \cup Blocks]
      /\ failing \in SUBSET FlowSteps /\ flowReorgs \in 0..FlowReorgs
      /\ wasConfirmed \in SUBSET FlowSteps /\ wasVerified \in SUBSET FlowSteps
  BY <1>1 DEF FlowInit
<1>. QED
  BY <1>3, <1>4, <1>5, <1>6 DEF FlowTypeOK

LEMMA RowForType ==
  ASSUME FlowTypeOK, NEW i \in FlowSteps
  PROVE  /\ RowFor(i) \in FlowRow
         /\ RowFor(i).tag = "confirmed" =>
              /\ i \notin failing /\ included[i] # 0
              /\ RowFor(i).block = included[i]
         /\ flowOps[i].tag = "absent" => RowFor(i).tag = "absent"
<1>1. CASE flowOps[i].tag \in {"absent", "prepared"}
  BY <1>1 DEF FlowTypeOK, RowFor, FlowRow, FlowTags
<1>2. CASE flowOps[i].tag \notin {"absent", "prepared"} /\ included[i] = 0
  BY <1>2 DEF FlowTypeOK, RowFor, FlowRow, FlowTags
<1>3. CASE flowOps[i].tag \notin {"absent", "prepared"} /\ included[i] # 0
  BY <1>3 DEF FlowTypeOK, RowFor, FlowRow, FlowTags
<1>. QED
  BY <1>1, <1>2, <1>3

\* The steps before i are done with.
FlowPast(i) ==
  i # 1 => i - 1 \in wasConfirmed /\ (i - 1 \in Checked => i - 1 \in wasVerified)

\* How far client r has got.
RunnerIsAt(r) ==
  /\ FlowPast(flowAt[r]) /\ (flowStep[r] = "idle" => flowAt[r] = 1)
  /\ flowStep[r] \in {"check", "evidence"} =>
       flowAt[r] \in wasConfirmed /\ flowSaw[r] # 0
  /\ flowStep[r] = "evidence" => flowAt[r] \in wasVerified

\* How far the runs have got, against what has happened on the chain.
FlowProgress ==
  /\ \A i \in FlowSteps : included[i] # 0 /\ i \notin failing => i \in wasConfirmed
  /\ \A i \in FlowSteps : evidence[i] # 0 => i \in wasVerified
  /\ \A i \in FlowSteps : flowOps[i].tag # "absent" => FlowPast(i)
  /\ \A r \in Runners : RunnerIsAt(r)

\* Nobody who is yet to prepare a step has prepared one since the cancellation.
FlowCancelled ==
  /\ flow # "cancelled" => \A r \in Runners : late[r] = 0
  /\ \A r \in Runners : late[r] <= 1 /\ (flowStep[r] = "prepare" => late[r] = 0)

\* What client r saw is where the transaction still is, or gone for good.
RunnerSaw(r) ==
  /\ flowStep[r] \in {"check", "evidence"} =>
       flowSaw[r] = included[flowAt[r]] \/ flowSaw[r] <= flowReorgs
  /\ flowStep[r] = "evidence" /\ flowSaw[r] = included[flowAt[r]] =>
       <<flowAt[r], included[flowAt[r]]>> \in holds

\* Evidence that names the block where the transaction is, is true.
EvidenceIsTrue(i) ==
  /\ evidence[i] = included[i] \/ evidence[i] <= flowReorgs
  /\ evidence[i] = included[i] /\ included[i] # 0 => <<i, included[i]>> \in holds

\* A block that was seen, and is not where the transaction is, is gone for good.
FlowEvidence ==
  /\ \A i \in FlowSteps : included[i] <= flowReorgs + 1 /\ EvidenceIsTrue(i)
  /\ \A r \in Runners : RunnerSaw(r)

FlowInv == FlowTypeOK /\ FlowProgress /\ FlowCancelled /\ FlowEvidence

LEMMA FlowInvInit == FlowInit => FlowInv
<1>1. FlowInit => FlowProgress /\ FlowCancelled
  BY DEF FlowInit, FlowProgress, RunnerIsAt, FlowPast, FlowCancelled
<1>2. FlowInit => FlowEvidence
  BY FlowAssumption DEF FlowInit, FlowEvidence, EvidenceIsTrue, RunnerSaw
<1>. QED
  BY <1>1, <1>2, FlowTypeInit DEF FlowInv

LEMMA FlowTypeStep ==
  ASSUME FlowTypeOK, FlowCancelled, [WorkflowNext]_flowVars
  PROVE  FlowTypeOK'
<1>. USE FlowAssumption
     DEF FlowTypeOK, flowWorld, flowHistory, flowLocals, FlowTo, FlowTurn, FlowQuit,
         FlowPcs
<1>0. 1 \in FlowSteps
  BY DEF FlowSteps
<1>1. CASE CreateWorkflow \/ CancelWorkflow
  BY <1>1 DEF CreateWorkflow, CancelWorkflow
<1>2. ASSUME NEW r \in Runners, RunWorkflow(r) \/ LoopWorkflow(r) PROVE FlowTypeOK'
  BY <1>0, <1>2 DEF RunWorkflow, LoopWorkflow
<1>3. ASSUME NEW r \in Runners, PrepareStep(r) PROVE FlowTypeOK'
  <2>1. flowOps' \in [FlowSteps -> FlowRow]
    BY <1>3 DEF PrepareStep, FlowRow, FlowTags
  <2>2. late[r] = 0 /\ 1 \in 0..FlowLength
    BY <1>3 DEF PrepareStep, FlowCancelled
  <2>3. late' \in [Runners -> 0..FlowLength]
    BY <1>3, <2>2 DEF PrepareStep
  <2>. QED
    BY <1>3, <2>1, <2>3 DEF PrepareStep
<1>4. ASSUME NEW r \in Runners, ExecuteFlowStep(r) PROVE FlowTypeOK'
  <2>1. [flowOps[flowAt[r]] EXCEPT !.tag = "pending"] \in FlowRow
    BY DEF FlowRow, FlowTags
  <2>2. RowFor(flowAt[r]) \in FlowRow
    BY RowForType
  <2>3. flowOps' \in [FlowSteps -> FlowRow]
    BY <1>4, <2>1, <2>2 DEF ExecuteFlowStep
  <2>. QED
    BY <1>0, <1>4, <2>3 DEF ExecuteFlowStep
<1>5. ASSUME NEW r \in Runners, WaitStep(r) PROVE FlowTypeOK'
  <2>1. RowFor(flowAt[r]) \in FlowRow /\ RowFor(flowAt[r]).block \in {0} \cup Blocks
    BY RowForType DEF FlowRow
  <2>. QED
    BY <1>0, <1>5, <2>1 DEF WaitStep
<1>6. ASSUME NEW r \in Runners, CheckStep(r) \/ PutEvidence(r) PROVE FlowTypeOK'
  <2>1. flowAt[r] # FlowLength => flowAt[r] + 1 \in FlowSteps
    BY DEF FlowSteps
  <2>. QED
    BY <1>0, <1>6, <2>1 DEF CheckStep, PutEvidence, NextStep
<1>7. ASSUME NEW i \in FlowSteps, IncludeStep(i) \/ FlowReorg(i) PROVE FlowTypeOK'
  <2>1. flowReorgs + 1 \in Blocks
    BY DEF Blocks
  <2>. QED
    BY <1>7, <2>1 DEF IncludeStep, FlowReorg
<1>8. CASE UNCHANGED flowVars
  BY <1>8 DEF flowVars
<1>. QED
  BY <1>1, <1>2, <1>3, <1>4, <1>5, <1>6, <1>7, <1>8 DEF WorkflowNext, RunStep

\* A client changes no other's place, and undoes nothing.
LEMMA RunnerKeeps ==
  ASSUME FlowInv, NEW r \in Runners, NEW steps, NEW ats, NEW saws,
         flowStep' = [flowStep EXCEPT ![r] = steps],
         flowAt' = [flowAt EXCEPT ![r] = ats],
         flowSaw' = [flowSaw EXCEPT ![r] = saws],
         UNCHANGED <<included, failing, wasConfirmed>>,
         wasVerified \subseteq wasVerified',
         \A i \in FlowSteps : evidence'[i] # 0 => evidence[i] # 0 \/ i \in wasVerified',
         \A i \in FlowSteps : flowOps'[i].tag # "absent" =>
                                flowOps[i].tag # "absent" \/ FlowPast(i),
         RunnerIsAt(r)'
  PROVE  FlowProgress'
<1>1. ASSUME NEW q \in Runners \ {r} PROVE RunnerIsAt(q)'
  BY DEF FlowInv, FlowTypeOK, FlowProgress, RunnerIsAt, FlowPast
<1>2. \A i \in FlowSteps : FlowPast(i) => FlowPast(i)'
  BY DEF FlowPast
<1>3. /\ \A i \in FlowSteps : (included[i] # 0 /\ i \notin failing => i \in wasConfirmed)'
      /\ \A i \in FlowSteps : (evidence[i] # 0 => i \in wasVerified)'
      /\ \A i \in FlowSteps : (flowOps[i].tag # "absent" => FlowPast(i))'
  BY <1>2 DEF FlowInv, FlowProgress
<1>. QED
  BY <1>1, <1>3 DEF FlowProgress

\* Where a client goes on after a step, or that it gives up.
LEMMA RunnerMoves ==
  ASSUME FlowInv, NEW r \in Runners,
         UNCHANGED <<included, failing, wasConfirmed>>,
         wasVerified \subseteq wasVerified',
         \A i \in FlowSteps : evidence'[i] # 0 => evidence[i] # 0 \/ i \in wasVerified',
         \A i \in FlowSteps : flowOps'[i].tag # "absent" =>
                                flowOps[i].tag # "absent" \/ FlowPast(i),
         \/ FlowQuit(r)
         \/ /\ NextStep(r, flowAt[r]) /\ flowAt[r] \in wasConfirmed
            /\ flowAt[r] \in Checked => flowAt[r] \in wasVerified
         \/ /\ UNCHANGED <<flowAt, flowSaw>>
            /\ \E step \in {"loop", "prepare", "execute", "wait"} : FlowTo(r, step)
         \/ /\ flowStep[r] = "wait" /\ flowAt[r] \in wasConfirmed
            /\ FlowTo(r, "check") /\ UNCHANGED flowAt
            /\ \E block \in Blocks : flowSaw' = [flowSaw EXCEPT ![r] = block]
         \/ /\ flowStep[r] = "check" /\ flowAt[r] \in wasVerified'
            /\ FlowTo(r, "evidence") /\ UNCHANGED <<flowAt, flowSaw>>
  PROVE  FlowProgress'
<1>. USE FlowAssumption DEF FlowInv, FlowTypeOK, FlowTo
<1>1. CASE FlowQuit(r)
  <2>1. RunnerIsAt(r)'
    BY <1>1 DEF FlowQuit, RunnerIsAt, FlowPast
  <2>. QED
    BY <1>1, <2>1, RunnerKeeps DEF FlowQuit
<1>2. CASE /\ FlowTo(r, "loop") /\ flowAt[r] \in wasConfirmed
           /\ flowAt[r] \in Checked => flowAt[r] \in wasVerified
           /\ flowAt' = [flowAt EXCEPT ![r] = flowAt[r] + 1]
           /\ flowSaw' = [flowSaw EXCEPT ![r] = 0]
  <2>1. (flowAt[r] + 1) - 1 = flowAt[r]
    BY DEF FlowSteps
  <2>2. RunnerIsAt(r)'
    BY <1>2, <2>1 DEF RunnerIsAt, FlowPast
  <2>. QED
    BY <1>2, <2>2, RunnerKeeps
<1>3. CASE /\ UNCHANGED <<flowAt, flowSaw>>
           /\ \E step \in {"loop", "prepare", "execute", "wait"} : FlowTo(r, step)
  <2>1. PICK step \in {"loop", "prepare", "execute", "wait"} : FlowTo(r, step)
    BY <1>3
  <2>2. RunnerIsAt(r)'
    BY <1>3, <2>1 DEF RunnerIsAt, FlowPast, FlowProgress
  <2>3. /\ flowAt' = [flowAt EXCEPT ![r] = flowAt[r]]
        /\ flowSaw' = [flowSaw EXCEPT ![r] = flowSaw[r]]
    BY <1>3
  <2>. QED
    BY <2>1, <2>2, <2>3, RunnerKeeps
<1>4. CASE /\ flowStep[r] = "wait" /\ flowAt[r] \in wasConfirmed
           /\ FlowTo(r, "check") /\ UNCHANGED flowAt
           /\ \E block \in Blocks : flowSaw' = [flowSaw EXCEPT ![r] = block]
  <2>1. PICK block \in Blocks : flowSaw' = [flowSaw EXCEPT ![r] = block]
    BY <1>4
  <2>2. RunnerIsAt(r)'
    BY <1>4, <2>1 DEF RunnerIsAt, FlowPast, FlowProgress, Blocks
  <2>3. flowAt' = [flowAt EXCEPT ![r] = flowAt[r]]
    BY <1>4
  <2>. QED
    BY <1>4, <2>1, <2>2, <2>3, RunnerKeeps
<1>5. CASE /\ flowStep[r] = "check" /\ flowAt[r] \in wasVerified'
           /\ FlowTo(r, "evidence") /\ UNCHANGED <<flowAt, flowSaw>>
  <2>1. RunnerIsAt(r)'
    BY <1>5 DEF RunnerIsAt, FlowPast, FlowProgress
  <2>2. /\ flowAt' = [flowAt EXCEPT ![r] = flowAt[r]]
        /\ flowSaw' = [flowSaw EXCEPT ![r] = flowSaw[r]]
    BY <1>5
  <2>. QED
    BY <1>5, <2>1, <2>2, RunnerKeeps
<1>. QED
  BY <1>1, <1>2, <1>3, <1>4, <1>5 DEF NextStep

LEMMA FlowProgressStep ==
  ASSUME FlowInv, [WorkflowNext]_flowVars
  PROVE  FlowProgress'
<1>. USE DEF FlowInv, flowWorld, flowHistory, flowLocals, FlowTurn
<1>1. CASE CreateWorkflow \/ CancelWorkflow \/ UNCHANGED flowVars
  BY <1>1 DEF CreateWorkflow, CancelWorkflow, flowVars, FlowProgress, RunnerIsAt, FlowPast
<1>2. ASSUME NEW r \in Runners, RunWorkflow(r) \/ LoopWorkflow(r) PROVE FlowProgress'
  <2>1. CASE RunWorkflow(r)
    BY <2>1, RunnerMoves DEF RunWorkflow
  <2>2. CASE LoopWorkflow(r)
    BY <2>2, RunnerMoves DEF LoopWorkflow
  <2>. QED
    BY <1>2, <2>1, <2>2
<1>3. ASSUME NEW r \in Runners, PrepareStep(r) PROVE FlowProgress'
  <2>1. FlowPast(flowAt[r])
    BY <1>3 DEF PrepareStep, FlowProgress, RunnerIsAt
  <2>2. \A i \in FlowSteps : flowOps'[i].tag # "absent" =>
                               flowOps[i].tag # "absent" \/ FlowPast(i)
    BY <1>3, <2>1 DEF PrepareStep, FlowTypeOK
  <2>. QED
    BY <1>3, <2>2, RunnerMoves DEF PrepareStep
<1>4. ASSUME NEW r \in Runners, ExecuteFlowStep(r) \/ WaitStep(r) PROVE FlowProgress'
  <2>1. FlowPast(flowAt[r]) /\ flowAt[r] \in FlowSteps
    BY <1>4 DEF ExecuteFlowStep, WaitStep, FlowProgress, RunnerIsAt, FlowTypeOK
  <2>2. \A i \in FlowSteps : flowOps'[i].tag # "absent" =>
                               flowOps[i].tag # "absent" \/ FlowPast(i)
    BY <1>4, <2>1 DEF ExecuteFlowStep, WaitStep, FlowTypeOK
  <2>3. CASE ExecuteFlowStep(r)
    BY <2>2, <2>3, RunnerMoves DEF ExecuteFlowStep
  <2>4. CASE WaitStep(r) /\ StepDone(RowFor(flowAt[r]).tag)
    <3>1. /\ RowFor(flowAt[r]).block \in Blocks
          /\ flowAt[r] \in wasConfirmed
      BY <2>1, <2>4, RowForType DEF StepDone, FlowProgress, FlowTypeOK
    <3>. QED
      BY <2>2, <2>4, <3>1, RunnerMoves DEF WaitStep
  <2>5. CASE WaitStep(r) /\ ~StepDone(RowFor(flowAt[r]).tag)
    BY <2>2, <2>5, RunnerMoves DEF WaitStep
  <2>. QED
    BY <1>4, <2>3, <2>4, <2>5
<1>5. ASSUME NEW r \in Runners, CheckStep(r) PROVE FlowProgress'
  <2>1. /\ flowAt[r] \in wasConfirmed /\ flowSaw[r] # 0 /\ flowAt[r] \in FlowSteps
        /\ evidence[flowAt[r]] # 0 => flowAt[r] \in wasVerified
    BY <1>5 DEF CheckStep, FlowProgress, RunnerIsAt, FlowTypeOK
  <2>. QED
    BY <1>5, <2>1, RunnerMoves DEF CheckStep, SameEvidence
<1>6. ASSUME NEW r \in Runners, PutEvidence(r) PROVE FlowProgress'
  <2>1. flowAt[r] \in wasConfirmed /\ flowAt[r] \in wasVerified
    BY <1>6 DEF PutEvidence, FlowProgress, RunnerIsAt
  <2>2. \A i \in FlowSteps : evidence'[i] # 0 => evidence[i] # 0 \/ i \in wasVerified'
    BY <1>6, <2>1 DEF PutEvidence, FlowTypeOK
  <2>. QED
    BY <1>6, <2>1, <2>2, RunnerMoves DEF PutEvidence
<1>7. ASSUME NEW i \in FlowSteps, IncludeStep(i) \/ FlowReorg(i) PROVE FlowProgress'
  <2>1. \A j \in FlowSteps : (included[j] # 0 /\ j \notin failing => j \in wasConfirmed)'
    <3>1. CASE IncludeStep(i)
      <4>1. included' = [included EXCEPT ![i] = flowReorgs + 1]
        BY <3>1 DEF IncludeStep
      <4>2. \/ failing' = failing \cup {i} /\ wasConfirmed' = wasConfirmed
            \/ wasConfirmed' = wasConfirmed \cup {i} /\ failing' = failing
        BY <3>1 DEF IncludeStep
      <4>. QED
        BY <4>1, <4>2 DEF FlowProgress, FlowTypeOK
    <3>2. CASE FlowReorg(i)
      <4>1. /\ included' = [j \in FlowSteps |-> IF j >= i THEN 0 ELSE included[j]]
            /\ failing' = {j \in failing : j < i} /\ wasConfirmed' = wasConfirmed
        BY <3>2 DEF FlowReorg
      <4>2. \A j \in FlowSteps : j < i <=> ~(j >= i)
        BY DEF FlowSteps
      <4>. QED
        BY <4>1, <4>2 DEF FlowProgress, FlowTypeOK
    <3>. QED
      BY <1>7, <3>1, <3>2
  <2>2. UNCHANGED <<flowOps, evidence, wasVerified, flowStep, flowAt, flowSaw>>
        /\ wasConfirmed \subseteq wasConfirmed'
    BY <1>7 DEF IncludeStep, FlowReorg
  <2>. QED
    BY <2>1, <2>2 DEF FlowProgress, RunnerIsAt, FlowPast
<1>. QED
  BY <1>1, <1>2, <1>3, <1>4, <1>5, <1>6, <1>7 DEF WorkflowNext, RunStep

LEMMA FlowCancelledStep ==
  ASSUME FlowInv, [WorkflowNext]_flowVars
  PROVE  FlowCancelled'
<1>. USE DEF FlowInv, FlowCancelled, FlowTypeOK, flowWorld, flowHistory, flowLocals,
         FlowTo, FlowTurn, FlowQuit
<1>1. CASE CreateWorkflow \/ CancelWorkflow \/ UNCHANGED flowVars
  BY <1>1 DEF CreateWorkflow, CancelWorkflow, flowVars
<1>2. ASSUME NEW r \in Runners, RunWorkflow(r) \/ ExecuteFlowStep(r) \/ WaitStep(r)
      PROVE  FlowCancelled'
  BY <1>2 DEF RunWorkflow, ExecuteFlowStep, WaitStep
<1>3. ASSUME NEW r \in Runners, LoopWorkflow(r) PROVE FlowCancelled'
  BY <1>3 DEF LoopWorkflow, NotCancelled
<1>4. ASSUME NEW r \in Runners, PrepareStep(r) PROVE FlowCancelled'
  <2>1. late[r] = 0
    BY <1>4 DEF PrepareStep
  <2>. QED
    BY <1>4, <2>1 DEF PrepareStep
<1>5. ASSUME NEW r \in Runners, CheckStep(r) \/ PutEvidence(r) PROVE FlowCancelled'
  BY <1>5 DEF CheckStep, PutEvidence, NextStep
<1>6. ASSUME NEW i \in FlowSteps, IncludeStep(i) \/ FlowReorg(i) PROVE FlowCancelled'
  BY <1>6 DEF IncludeStep, FlowReorg
<1>. QED
  BY <1>1, <1>2, <1>3, <1>4, <1>5, <1>6 DEF WorkflowNext, RunStep

LEMMA FlowEvidenceStep ==
  ASSUME FlowInv, [WorkflowNext]_flowVars
  PROVE  FlowEvidence'
<1>. USE FlowAssumption
     DEF FlowInv, FlowTypeOK, FlowEvidence, flowWorld, flowHistory, flowLocals, FlowTo,
         FlowTurn, FlowQuit
<1>0. /\ flowReorgs \in Nat
      /\ \A i \in FlowSteps : included[i] \in Nat /\ evidence[i] \in Nat
      /\ \A r \in Runners : flowSaw[r] \in Nat /\ flowAt[r] \in FlowSteps
  BY DEF Blocks
\* Nothing that the evidence or the chain says is changed.
<1>1. ASSUME NEW r \in Runners, UNCHANGED <<evidence, included, flowReorgs, holds>>,
             \A q \in Runners \ {r} : /\ flowStep'[q] = flowStep[q]
                                      /\ flowAt'[q] = flowAt[q]
                                      /\ flowSaw'[q] = flowSaw[q],
             RunnerSaw(r)'
      PROVE  FlowEvidence'
  BY <1>1 DEF EvidenceIsTrue, RunnerSaw
<1>2. CASE CreateWorkflow \/ CancelWorkflow \/ UNCHANGED flowVars
  BY <1>2 DEF CreateWorkflow, CancelWorkflow, flowVars, EvidenceIsTrue, RunnerSaw
<1>3. ASSUME NEW r \in Runners,
             RunWorkflow(r) \/ LoopWorkflow(r) \/ PrepareStep(r) \/ ExecuteFlowStep(r)
      PROVE  FlowEvidence'
  <2>1. RunnerSaw(r)'
    BY <1>3 DEF RunWorkflow, LoopWorkflow, PrepareStep, ExecuteFlowStep, RunnerSaw
  <2>. QED
    BY <1>1, <1>3, <2>1 DEF RunWorkflow, LoopWorkflow, PrepareStep, ExecuteFlowStep
<1>4. ASSUME NEW r \in Runners, WaitStep(r) PROVE FlowEvidence'
  <2>1. RowFor(flowAt[r]).tag = "confirmed" =>
          RowFor(flowAt[r]).block = included[flowAt[r]]
    BY RowForType
  <2>2. RunnerSaw(r)'
    BY <1>4, <2>1 DEF WaitStep, StepDone, RunnerSaw
  <2>. QED
    BY <1>1, <1>4, <2>2 DEF WaitStep
<1>5. ASSUME NEW r \in Runners, CheckStep(r) PROVE FlowEvidence'
  <2>1. flowSaw[r] # 0
    BY <1>5 DEF CheckStep, FlowProgress, RunnerIsAt
  <2>2. RunnerSaw(r)'
    BY <1>0, <1>5, <2>1 DEF CheckStep, NextStep, RunnerSaw
  <2>. QED
    BY <1>1, <1>5, <2>2 DEF CheckStep, NextStep
<1>6. ASSUME NEW r \in Runners, PutEvidence(r) PROVE FlowEvidence'
  <2>0. PICK i \in FlowSteps : i = flowAt[r]
    BY <1>0
  <2>1. /\ evidence' = [evidence EXCEPT ![i] = flowSaw[r]] /\ RunnerSaw(r)
        /\ flowStep[r] = "evidence"
        /\ UNCHANGED <<included, flowReorgs, holds>>
    BY <1>6, <2>0 DEF PutEvidence
  <2>2. EvidenceIsTrue(i)'
    BY <2>0, <2>1 DEF EvidenceIsTrue, RunnerSaw
  <2>3. \A j \in FlowSteps \ {i} : EvidenceIsTrue(j)'
    BY <2>1 DEF EvidenceIsTrue
  <2>4. \A q \in Runners : RunnerSaw(q)'
    BY <1>6 DEF PutEvidence, NextStep, RunnerSaw
  <2>. QED
    BY <2>1, <2>2, <2>3, <2>4
<1>7. ASSUME NEW i \in FlowSteps, IncludeStep(i) PROVE FlowEvidence'
  <2>1. /\ included[i] = 0 /\ included' = [included EXCEPT ![i] = flowReorgs + 1]
        /\ UNCHANGED <<evidence, flowReorgs, holds, flowStep, flowAt, flowSaw>>
    BY <1>7 DEF IncludeStep
  <2>2. \A j \in FlowSteps : (included[j] <= flowReorgs + 1)' /\ EvidenceIsTrue(j)'
    <3>1. (included[i] <= flowReorgs + 1)' /\ EvidenceIsTrue(i)'
      <4>1. evidence[i] \in Nat /\ (evidence[i] = 0 \/ evidence[i] <= flowReorgs)
        BY <1>0, <2>1 DEF EvidenceIsTrue
      <4>2. evidence[i] <= flowReorgs /\ evidence[i] # flowReorgs + 1
        <5>. HIDE DEF FlowInv
        <5>. QED
          BY <1>0, <4>1
      <4>3. /\ included'[i] = flowReorgs' + 1 /\ evidence'[i] = evidence[i]
            /\ flowReorgs' = flowReorgs
        BY <2>1
      <4>4. included'[i] <= flowReorgs' + 1 /\ evidence'[i] # included'[i]
        BY <1>0, <4>2, <4>3
      <4>. QED
        BY <4>2, <4>3, <4>4 DEF EvidenceIsTrue
    <3>2. ASSUME NEW j \in FlowSteps \ {i}
          PROVE  (included[j] <= flowReorgs + 1)' /\ EvidenceIsTrue(j)'
      BY <1>0, <2>1 DEF EvidenceIsTrue
    <3>. QED
      BY <3>1, <3>2
  <2>3. ASSUME NEW q \in Runners PROVE RunnerSaw(q)'
    <3>1. CASE flowAt[q] = i
      <4>1. included[flowAt[q]] = 0 /\ included'[flowAt'[q]] = flowReorgs + 1
        BY <2>1, <3>1
      <4>2. flowSaw[q] \in Nat /\ (RunnerSaw(q) =>
              (flowStep[q] \in {"check", "evidence"} =>
                 flowSaw[q] = 0 \/ flowSaw[q] <= flowReorgs))
        BY <1>0, <4>1 DEF RunnerSaw
      <4>3. flowStep[q] \in {"check", "evidence"} =>
              flowSaw[q] <= flowReorgs /\ flowSaw[q] # flowReorgs + 1
        BY <1>0, <4>2
      <4>. QED
        BY <2>1, <4>1, <4>3 DEF RunnerSaw
    <3>2. CASE flowAt[q] # i
      <4>1. included'[flowAt'[q]] = included[flowAt[q]]
        BY <1>0, <2>1, <3>2
      <4>. QED
        BY <2>1, <4>1 DEF RunnerSaw
    <3>. QED
      BY <3>1, <3>2
  <2>. QED
    BY <2>2, <2>3
<1>8. ASSUME NEW i \in FlowSteps, FlowReorg(i) PROVE FlowEvidence'
  <2>1. /\ included' = [j \in FlowSteps |-> IF j >= i THEN 0 ELSE included[j]]
        /\ flowReorgs' = flowReorgs + 1
        /\ UNCHANGED <<evidence, holds, flowStep, flowAt, flowSaw>>
    BY <1>8 DEF FlowReorg
  <2>2. \A j \in FlowSteps : (included[j] <= flowReorgs + 1)' /\ EvidenceIsTrue(j)'
    BY <1>0, <2>1 DEF EvidenceIsTrue
  <2>3. \A q \in Runners : flowStep[q] \in {"check", "evidence"} => flowSaw[q] # 0
    BY DEF FlowProgress, RunnerIsAt
  <2>4. ASSUME NEW q \in Runners PROVE RunnerSaw(q)'
    <3>1. /\ included'[flowAt'[q]] \in {0, included[flowAt[q]]}
          /\ included[flowAt[q]] <= flowReorgs + 1
      BY <1>0, <2>1
    <3>2. flowStep[q] \in {"check", "evidence"} =>
            flowSaw[q] # 0 /\ flowSaw[q] <= flowReorgs + 1
      <4>1. RunnerSaw(q)
        BY DEF FlowInv
      <4>2. flowSaw[q] <= flowReorgs => flowSaw[q] <= flowReorgs + 1
        BY <1>0
      <4>. QED
        BY <2>3, <3>1, <4>1, <4>2 DEF RunnerSaw
    <3>3. flowStep[q] = "evidence" /\ flowSaw[q] = included'[flowAt'[q]] =>
            /\ included'[flowAt'[q]] = included[flowAt[q]]
            /\ <<flowAt[q], included[flowAt[q]]>> \in holds
      BY <3>1, <3>2 DEF RunnerSaw
    <3>. QED
      BY <2>1, <3>2, <3>3 DEF RunnerSaw
  <2>. QED
    BY <2>2, <2>4
<1>. QED
  BY <1>2, <1>3, <1>4, <1>5, <1>6, <1>7, <1>8 DEF WorkflowNext, RunStep

\* A workflow shown as completed: every step's evidence names its inclusion.
LEMMA CompletedLemma == FlowInv => CompletedIsTrue
<1>. SUFFICES ASSUME FlowInv, ShownCompleted, NEW i \in Checked
              PROVE  <<i, included[i]>> \in holds
  BY DEF CompletedIsTrue
<1>1. i \in FlowSteps /\ i \in CompletedSteps /\ i \in 1..i
  BY FlowAssumption DEF ShownCompleted, FlowSteps
<1>2. RowFor(i).tag = "confirmed" /\ SameEvidence(evidence[i], RowFor(i).block)
  BY <1>1 DEF CompletedSteps
<1>3. included[i] # 0 /\ evidence[i] = included[i]
  BY <1>1, <1>2, RowForType DEF FlowInv, SameEvidence
<1>. QED
  BY <1>1, <1>3 DEF FlowInv, FlowEvidence, EvidenceIsTrue

LEMMA FlowInvHolds == WorkflowSpec => []FlowInv
<1>1. ASSUME FlowInv, [WorkflowNext]_flowVars PROVE FlowInv'
  BY <1>1, FlowTypeStep, FlowProgressStep, FlowCancelledStep, FlowEvidenceStep
  DEF FlowInv
<1>. QED
  BY <1>1, FlowInvInit, PTL DEF WorkflowSpec

\* For any number of clients, steps and reorganisations: a step is prepared
\* only after the one before has come true, a cancelled workflow stops, and one
\* shown as completed has done what it was for (workflows.ts:43-85).
THEOREM WorkflowKeepsItsWord == WorkflowSpec => []WorkflowHolds
<1>1. FlowInv => StepsInOrder
  BY DEF FlowInv, FlowProgress, FlowPast, StepsInOrder
<1>2. FlowInv => CancelStops
  BY DEF FlowInv, FlowCancelled, CancelStops
<1>. QED
  BY <1>1, <1>2, CompletedLemma, FlowInvHolds, PTL DEF WorkflowHolds

-----------------------------------------------------------------------------
(* The types of the relay and of the smart wallet *)

\* The parts of the types that the arguments above do without.
RelayRest ==
  /\ relayExpired \in BOOLEAN /\ owners \in SUBSET Owners /\ everBundled \in BOOLEAN
  /\ relayReorgs \in 0..RelayReorgs
SmartRest ==
  smartExpired \in BOOLEAN /\ smartReorgs \in 0..SmartReorgs
  /\ smartCrashes \in 0..SmartCrashes

LEMMA RelayRestStep ==
  ASSUME RelayRest, [RelayNext]_relayVars PROVE RelayRest'
<1>1. ASSUME NEW c \in Clients,
             \/ ProposeRelay(c) \/ CancelRelay(c) \/ SubmitRelay(c)
             \/ \E owner \in Owners : SignRelay(c, owner)
             \/ PollRelay(c) \/ RelayGoesOn(c) \/ SendRelayFails(c)
      PROVE  RelayRest'
  <2>1. UNCHANGED <<relayExpired, owners, relayReorgs>>
        /\ (everBundled' = TRUE \/ everBundled' = everBundled)
    BY <1>1 DEF ProposeRelay, CancelRelay, SubmitRelay, SignRelay, Propose, PollRelay,
       RelayGoesOn, SendRelayFails, SaveRelay, CountSignatures, SimulateRelay,
       SavePendingRelay, SendRelay, ReceiptOfRelay, relayWorld
  <2>. QED
    BY <2>1 DEF RelayRest
<1>2. CASE RelayExpires
  BY <1>2 DEF RelayExpires, RelayRest
<1>3. ASSUME NEW o \in Owners, OwnerRemoved(o) PROVE RelayRest'
  BY <1>3 DEF OwnerRemoved, RelayRest
<1>4. CASE BundlerActs
  BY <1>4 DEF BundlerActs, RelayRest
<1>5. CASE RelayReorg
  BY <1>5, RelayAssumption DEF RelayReorg, RelayRest
<1>6. CASE UNCHANGED relayVars
  BY <1>6 DEF relayVars, relayWorld, RelayRest
<1>. QED
  BY <1>1, <1>2, <1>3, <1>4, <1>5, <1>6 DEF RelayNext

LEMMA SmartRestStep ==
  ASSUME SmartRest, [SmartExecutionNext]_smartVars PROVE SmartRest'
<1>1. ASSUME NEW p \in SmartProcs, SmartProcStep(p) PROVE SmartRest'
  BY <1>1 DEF SmartRest, SmartProcStep, CallSmart, SmartRead, SmartAsk, SmartReceipt,
     SmartSave, SmartNext, SmartPrepare, SmartRecord, SmartResume, SmartApprove,
     SmartUnlock, smartStore, smartWorld
<1>2. ASSUME NEW p \in SmartProcs, SmartCallFails(p) \/ SmartCrash(p) PROVE SmartRest'
  <2>1. /\ UNCHANGED <<smartExpired, smartReorgs>>
        /\ smartCrashes < SmartCrashes /\ smartCrashes' = smartCrashes + 1
    BY <1>2 DEF SmartCallFails, SmartCrash, smartStore, smartWorld
  <2>. QED
    BY <2>1, SmartAssumption DEF SmartRest
<1>3. ASSUME NEW t \in SmartTxs, ProviderFinishes(t) PROVE SmartRest'
  BY <1>3 DEF ProviderFinishes, smartStore, SmartRest
<1>4. ASSUME NEW t \in SmartTxs, SmartReorg(t) PROVE SmartRest'
  BY <1>4, SmartAssumption DEF SmartReorg, smartStore, SmartRest
<1>5. CASE SmartExpire
  BY <1>5 DEF SmartExpire, smartWorld, SmartRest
<1>6. CASE UNCHANGED smartVars
  BY <1>6 DEF smartVars, smartStore, smartWorld, SmartRest
<1>. QED
  BY <1>1, <1>2, <1>3, <1>4, <1>5, <1>6 DEF SmartExecutionNext

LEMMA RelayTypeCorrect == RelaySpec => []RelayTypeOK
<1>1. RelayInit => RelayRest
  <2>1. RelayInit => relayExpired \in BOOLEAN /\ everBundled \in BOOLEAN
    BY DEF RelayInit
  <2>2. RelayInit => owners \in SUBSET Owners /\ relayReorgs \in 0..RelayReorgs
    BY RelayAssumption DEF RelayInit
  <2>. QED
    BY <2>1, <2>2 DEF RelayRest
<1>2. RelayInv /\ RelayRest => RelayTypeOK
  BY Zenon DEF RelayInv, RelayRecords, RelayRest, RelayTypeOK
<1>3. RelayInv /\ [RelayNext]_relayVars => RelayInv'
  BY RelayInvStep
<1>. QED
  BY <1>1, <1>2, <1>3, RelayInvInit, RelayRestStep, PTL DEF RelaySpec

LEMMA SmartTypeCorrect == SmartSpec => []SmartTypeOK
<1>1. SmartInit => SmartRest
  <2>1. SmartInit => smartExpired \in BOOLEAN
    BY DEF SmartInit
  <2>2. SmartInit => smartReorgs \in 0..SmartReorgs /\ smartCrashes \in 0..SmartCrashes
    BY SmartAssumption DEF SmartInit
  <2>. QED
    BY <2>1, <2>2 DEF SmartRest
<1>2. SmartInv /\ SmartRest => SmartTypeOK
  BY Zenon DEF SmartInv, SmartRecords, SmartRest, SmartTypeOK
<1>. QED
  BY <1>1, <1>2, SmartInvInit, SmartInvStep, SmartRestStep, PTL DEF SmartSpec

-----------------------------------------------------------------------------
(* monitor.ts *)

\* For any number of clients, windows and forks, however deep the forks the
\* monitor allows for: what is acknowledged covers what is below the cursor, and
\* the cursor passes no block that nobody has acknowledged (monitor.ts:24-56).
THEOREM MonitorKeepsUp == MonitorSpec => MonitorAdvances
<1>1. MonitorInv' => NothingSkipped'
  BY CoveredLemma, PTL
<1>2. MonitorInv /\ [MonitorNext]_monVars
        => [NothingSkipped' /\ AdvancesOnlyAfterAck]_monVars
  BY <1>1, MonitorInvStep, AdvanceLemma
<1>. QED
  BY <1>2, MonitorInvInit, MonitorInvStep, PTL DEF MonitorSpec, MonitorAdvances

-----------------------------------------------------------------------------
(* The services together *)

\* A step of the whole is a step of each service, or leaves it alone.
LEMMA EachService ==
  ASSUME [ServicesNext]_servicesVars
  PROVE  /\ [MonitorNext]_monVars /\ [BatchNext]_batchVars
         /\ [SmartExecutionNext]_smartVars /\ [RelayNext]_relayVars
         /\ [WorkflowNext]_flowVars /\ [SendNext]_sendVars
<1>1. CASE UNCHANGED servicesVars
  BY <1>1 DEF servicesVars
<1>2. ASSUME Only("monitor")
      PROVE  UNCHANGED <<batchVars, smartVars, relayVars, flowVars, sendVars>>
  BY <1>2 DEF Only
<1>3. ASSUME Only("batch")
      PROVE  UNCHANGED <<monVars, smartVars, relayVars, flowVars, sendVars>>
  BY <1>3 DEF Only
<1>4. ASSUME Only("smart")
      PROVE  UNCHANGED <<monVars, batchVars, relayVars, flowVars, sendVars>>
  BY <1>4 DEF Only
<1>5. ASSUME Only("relay")
      PROVE  UNCHANGED <<monVars, batchVars, smartVars, flowVars, sendVars>>
  BY <1>5 DEF Only
<1>6. ASSUME Only("workflow")
      PROVE  UNCHANGED <<monVars, batchVars, smartVars, relayVars, sendVars>>
  BY <1>6 DEF Only
<1>7. ASSUME Only("send")
      PROVE  UNCHANGED <<monVars, batchVars, smartVars, relayVars, flowVars>>
  BY <1>7 DEF Only
<1>. QED
  BY <1>1, <1>2, <1>3, <1>4, <1>5, <1>6, <1>7 DEF ServicesNext

LEMMA AllServices ==
  ServicesSpec => /\ MonitorSpec /\ BatchSpec /\ SmartSpec
                  /\ RelaySpec /\ WorkflowSpec /\ SendSpec
<1>1. ServicesInit => /\ MonitorInit /\ BatchInit /\ SmartInit
                      /\ RelayInit /\ FlowInit /\ SendInit
  BY DEF ServicesInit
<1>. QED
  BY <1>1, EachService, PTL
  DEF ServicesSpec, MonitorSpec, BatchSpec, SmartSpec, RelaySpec, WorkflowSpec, SendSpec

\* For any number of processes: a wallet is asked once to send a batch, and
\* nothing is approved for a smart wallet but what is recorded (batches.ts:65,
\* smart-execution.ts:44).
THEOREM NothingRunsTwice == ServicesSpec => []NothingTwice
<1>1. BatchSentOnce /\ ApprovedIsRecorded => NothingTwice
  BY DEF NothingTwice
<1>. QED
  BY <1>1, AllServices, BatchIsSentOnce, OnlyRecordedIsApproved, PTL

\* Each service keeps in the company of the others what it promises alone:
\* monitors skip nothing, the relay records what it submits, workflows go in
\* order and stop, and plans are sent as PlanPromise says.
THEOREM ServicesKeepTheirWord ==
  ServicesSpec => MonitorAdvances /\ RelayIsRecorded /\ []WorkflowHolds /\ KeepsPromise
BY AllServices, MonitorKeepsUp, RelayRecordsAll, WorkflowKeepsItsWord, SendKeepsPromise, PTL

\* Every variable of the services keeps its type, however many of them work at
\* a time: the step, what was read and the documents of each.
THEOREM ServicesTypeCorrect == ServicesSpec => []ServicesTypeOK
<1>1. BatchSpec => []BatchTypeOK
  BY BatchTypeInit, BatchTypeStep, PTL DEF BatchSpec
<1>2. WorkflowSpec => []FlowTypeOK
  <2>1. FlowInv => FlowTypeOK
    BY DEF FlowInv
  <2>. QED
    BY <2>1, FlowInvHolds, PTL
<1>3. ASSUME MonitorTypeOK, BatchTypeOK, SmartTypeOK, RelayTypeOK, FlowTypeOK, SendTypeOK
      PROVE  ServicesTypeOK
  BY <1>3 DEF ServicesTypeOK
<1>. QED
  BY <1>1, <1>2, <1>3, AllServices, MonitorTypeCorrect, SmartTypeCorrect,
     RelayTypeCorrect, SendTypeCorrect, PTL
=============================================================================
