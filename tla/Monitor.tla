------------------------------ MODULE Monitor ------------------------------
(***************************************************************************)
(* monitor.ts: a named event monitor with a cursor, a checkpoint and one   *)
(* pending batch, polled, acknowledged, paused and resumed by processes    *)
(* that share the documents table.  A block is its height and the fork it  *)
(* was mined on, which stand for its hash: as long as a block is canonical *)
(* so are its ancestors.  Every block holds one event of the contract.     *)
(***************************************************************************)
EXTENDS Integers, FiniteSets

CONSTANTS
  Pollers,        \* processes using the monitor
  FromBlock,      \* where the monitor starts
  Confirmations,  \* blocks it stays behind the head
  Window,         \* blocks per batch (1000 in the code)
  Rewind,         \* blocks it goes back after a reorganisation (256)
  MaxHeight,      \* bound: highest block
  MaxForks,       \* bound: number of reorganisations
  MaxUpsets,      \* bound: number of pauses, resumes and provider failures
  NoBlock         \* no checkpoint, or no batch

ASSUME MonitorAssumption ==
  /\ {FromBlock, MaxHeight, MaxForks, MaxUpsets} \subseteq Nat /\ FromBlock <= MaxHeight
  /\ {Confirmations, Window, Rewind} \subseteq Nat \ {0}
  /\ NoBlock \notin (0..MaxHeight) \X (0..MaxForks)

VARIABLES
  canon,       \* canonical chain: fork of the block at each height
  head,        \* its height
  mon,         \* document monitor:name
  eventBatch,  \* document monitor-batch:name
  acked,       \* history: events handed to a client that acknowledged them
  upsets,      \* pauses, resumes and provider failures so far
  raced,       \* history: a fork below a checkpoint a poll has just checked
  pollStep,    \* next step of each process
  pollSeen,    \* the monitor it read
  pollTip,     \* the last block it may read
  polled,      \* the batch it builds, has received, or is acknowledging
  handed       \* the events its client has been handed

monChain == <<canon, head>>
monDocs == <<mon, eventBatch, acked>>
monLocals == <<pollStep, pollSeen, pollTip, polled, handed>>
monVars == <<monChain, monDocs, upsets, raced, monLocals>>

Heights == 0..MaxHeight
ForkIds == 0..MaxForks
Block == Heights \X ForkIds
BlockAt(h) == <<h, canon[h]>>
IsCanonical(b) == b[1] <= head /\ canon[b[1]] = b[2]

MonitorDoc == [cursor: 0..(MaxHeight + 1), check: Block \cup {NoBlock},
               paused: BOOLEAN]
\* A batch under construction has no last block yet.
EventDraft == [from: Heights, to: Block \cup {NoBlock}, events: SUBSET Block]
EventBatch == {b \in EventDraft : b.to # NoBlock}
PollSteps == {"idle", "doc", "head", "check", "block", "logs", "save", "got",
          "ack", "pause"}

MonitorTypeOK ==
  /\ canon \in [Heights -> ForkIds] /\ head \in Heights
  /\ mon \in MonitorDoc
  /\ eventBatch \in EventBatch \cup {NoBlock}
  /\ acked \in SUBSET Block
  /\ upsets \in 0..MaxUpsets /\ raced \in BOOLEAN
  /\ pollStep \in [Pollers -> PollSteps]
  /\ pollSeen \in [Pollers -> MonitorDoc]
  /\ pollTip \in [Pollers -> Int]
  /\ polled \in [Pollers -> EventDraft \cup {NoBlock}]
  /\ handed \in [Pollers -> SUBSET Block]

FreshMonitor == [cursor |-> FromBlock, check |-> NoBlock, paused |-> FALSE]

MonitorInit ==
  /\ canon = [h \in Heights |-> 0] /\ head = 0
  /\ mon = FreshMonitor /\ eventBatch = NoBlock /\ acked = {}
  /\ upsets = 0 /\ raced = FALSE
  /\ pollStep = [p \in Pollers |-> "idle"]
  /\ pollSeen = [p \in Pollers |-> FreshMonitor]
  /\ pollTip = [p \in Pollers |-> 0]
  /\ polled = [p \in Pollers |-> NoBlock]
  /\ handed = [p \in Pollers |-> {}]

-----------------------------------------------------------------------------
PollTurn(p, from, to) ==
  pollStep[p] = from /\ pollStep' = [pollStep EXCEPT ![p] = to]
PollHold(p, value) == polled' = [polled EXCEPT ![p] = value]

\* What p no longer looks at is forgotten.
ForgetSeen(p) == pollSeen' = [pollSeen EXCEPT ![p] = FreshMonitor]
ForgetTip(p) == pollTip' = [pollTip EXCEPT ![p] = 0]

\* The client of p is handed a batch.
PollReceive(p, b) ==
  PollHold(p, b) /\ handed' = [handed EXCEPT ![p] = b.events]

\* The poll or command of p ends with nothing in hand.
PollQuit(p) ==
  /\ pollStep' = [pollStep EXCEPT ![p] = "idle"]
  /\ ForgetSeen(p) /\ ForgetTip(p)
  /\ PollHold(p, NoBlock)
  /\ handed' = [handed EXCEPT ![p] = {}]

-----------------------------------------------------------------------------
(* pollMonitor *)

\* The monitor is read first ...
PollMonitor(p) ==
  /\ PollTurn(p, "idle", "doc")
  /\ pollSeen' = [pollSeen EXCEPT ![p] = mon]
  /\ UNCHANGED <<monChain, monDocs, upsets, raced, pollTip, polled, handed>>

\* ... and then the pending batch, which is returned when there is one.
PollPending(p) ==
  /\ pollStep[p] = "doc"
  /\ \/ /\ eventBatch # NoBlock
        /\ PollTurn(p, "doc", "got") /\ PollReceive(p, eventBatch)
        /\ ForgetSeen(p) /\ UNCHANGED pollTip
     \/ /\ eventBatch = NoBlock /\ pollSeen[p].paused
        /\ PollQuit(p)
     \/ /\ eventBatch = NoBlock /\ ~pollSeen[p].paused
        /\ PollTurn(p, "doc", "head")
        /\ UNCHANGED <<pollSeen, pollTip, polled, handed>>
  /\ UNCHANGED <<monChain, monDocs, upsets, raced>>

\* getBlockNumber: the tip fixes how far this poll may read.
PollHead(p) ==
  /\ PollTurn(p, "head", "check")
  /\ pollTip' = [pollTip EXCEPT ![p] = head - Confirmations]
  /\ UNCHANGED <<monChain, monDocs, upsets, raced, pollSeen, polled, handed>>

\* Faulty variants: a lost checkpoint changes nothing; no bound from below.
CursorUnchecked(m, lost) == m.cursor
CursorUnbounded(m, lost) == IF lost THEN m.cursor - Rewind ELSE m.cursor

\* Where a poll starts: behind its cursor when the checkpoint is lost.
CursorOf(m, lost) ==
  IF ~lost THEN m.cursor
  ELSE IF m.cursor > Rewind THEN m.cursor - Rewind ELSE 0

\* Faulty variant: the last confirmed block is left for later.
NothingNewYet(cursor, last) == cursor >= last \/ last < 0

\* The poll finds no confirmed block at or above its cursor.
NothingNew(cursor, last) == cursor > last \/ last < 0

\* The last block of a batch.
LastBlock(cursor, last) ==
  IF cursor + (Window - 1) < last THEN cursor + (Window - 1) ELSE last

\* The checkpoint's block is read again; then the range is fixed.
PollCheck(p) ==
  LET m == pollSeen[p]
      lost == m.check # NoBlock /\ ~IsCanonical(m.check)
      cursor == CursorOf(m, lost) IN
  /\ pollStep[p] = "check"
  /\ IF NothingNew(cursor, pollTip[p]) THEN PollQuit(p)
     ELSE /\ PollTurn(p, "check", "block")
          /\ PollHold(p, [from |-> cursor, to |-> NoBlock, events |-> {}])
          /\ pollTip' = [pollTip EXCEPT ![p] = LastBlock(cursor, @)]
          /\ UNCHANGED <<pollSeen, handed>>
  /\ UNCHANGED <<monChain, monDocs, upsets, raced>>

\* getBlock of the last block: its hash becomes the batch's.
PollBlock(p) ==
  /\ PollTurn(p, "block", "logs")
  /\ PollHold(p, [polled[p] EXCEPT !.to = BlockAt(pollTip[p])])
  /\ ForgetSeen(p)
  /\ UNCHANGED <<monChain, monDocs, upsets, raced, pollTip, handed>>

\* getLogs over the range, on whatever chain is canonical by now.
PollLogs(p) ==
  /\ PollTurn(p, "logs", "save")
  /\ PollHold(p, [polled[p] EXCEPT
       !.events = {BlockAt(h) : h \in polled[p].from..pollTip[p]}])
  /\ ForgetTip(p)
  /\ UNCHANGED <<monChain, monDocs, upsets, raced, pollSeen, handed>>

\* updateDocument(current ?? batch): the first batch stays.
PollSave(p) ==
  LET saved == IF eventBatch = NoBlock THEN polled[p] ELSE eventBatch IN
  /\ PollTurn(p, "save", "got")
  /\ eventBatch' = saved /\ PollReceive(p, saved)
  /\ UNCHANGED <<monChain, mon, acked, upsets, raced, pollSeen, pollTip>>

\* A provider fails where it is awaited.
PollFail(p) ==
  /\ upsets < MaxUpsets
  /\ pollStep[p] \in {"head", "check", "block", "logs"}
  /\ upsets' = upsets + 1
  /\ PollQuit(p)
  /\ UNCHANGED <<monChain, monDocs, raced>>

-----------------------------------------------------------------------------
(* acknowledgeMonitor *)

\* Faulty variant: whatever batch is pending is acknowledged.
AnyBatch(a, b) == TRUE

\* A batch's id is made of its first block and its last block's hash.
SameId(a, b) == a.from = b.from /\ a.to = b.to

\* The client acknowledges the batch it got: batch and monitor are read.
AckRead(p) ==
  /\ pollStep[p] = "got"
  /\ IF eventBatch # NoBlock /\ SameId(eventBatch, polled[p])
     THEN /\ PollTurn(p, "got", "ack") /\ PollHold(p, eventBatch)
          /\ pollSeen' = [pollSeen EXCEPT ![p] = mon]
          /\ UNCHANGED <<pollTip, handed>>
     ELSE PollQuit(p)
  /\ UNCHANGED <<monChain, monDocs, upsets, raced>>

\* commitDocuments: both documents are replaced, if neither has changed.
AckCommit(p) ==
  LET b == polled[p] IN
  /\ pollStep[p] = "ack"
  /\ IF mon = pollSeen[p] /\ eventBatch = b
     THEN /\ mon' = [mon EXCEPT !.cursor = b.to[1] + 1, !.check = b.to]
          /\ eventBatch' = NoBlock
          /\ acked' = acked \cup handed[p]
     ELSE UNCHANGED monDocs
  /\ PollQuit(p)
  /\ UNCHANGED <<monChain, upsets, raced>>

-----------------------------------------------------------------------------
(* pauseMonitor *)

\* pause or resume: the monitor is read ...
PauseRead(p) ==
  /\ upsets < MaxUpsets
  /\ PollTurn(p, "idle", "pause")
  /\ upsets' = upsets + 1
  /\ pollSeen' = [pollSeen EXCEPT ![p] = mon]
  /\ UNCHANGED <<monChain, monDocs, raced, pollTip, polled, handed>>

\* ... and put back as a whole with the new flag.
PauseWrite(p) ==
  /\ pollStep[p] = "pause"
  /\ \E paused \in BOOLEAN : mon' = [pollSeen[p] EXCEPT !.paused = paused]
  /\ PollQuit(p)
  /\ UNCHANGED <<monChain, eventBatch, acked, upsets, raced>>

-----------------------------------------------------------------------------
(* The chain *)

Grow ==
  /\ head < MaxHeight
  /\ head' = head + 1
  /\ UNCHANGED <<canon, monDocs, upsets, raced, monLocals>>

\* The latest fork: every fork replaces all later blocks.
LatestFork == canon[MaxHeight]

\* The blocks from height h on are replaced; as deep as the rewind at most.
ForkFrom(h) ==
  /\ LatestFork < MaxForks
  /\ h \in 1..head /\ h > head - Rewind
  /\ canon' = [i \in Heights |-> IF i >= h THEN LatestFork + 1 ELSE canon[i]]
  /\ raced' = (raced \/ \E p \in Pollers :
                 /\ pollStep[p] = "block" /\ pollSeen[p].check # NoBlock
                 /\ pollSeen[p].check[1] >= h)
  /\ UNCHANGED <<head, monDocs, upsets, monLocals>>

-----------------------------------------------------------------------------
MonitorStep(p) ==
  \/ PollMonitor(p) \/ PollPending(p) \/ PollHead(p) \/ PollCheck(p)
  \/ PollBlock(p) \/ PollLogs(p) \/ PollSave(p)
  \/ AckRead(p) \/ AckCommit(p) \/ PauseWrite(p)

MonitorNext ==
  \/ \E p \in Pollers : MonitorStep(p) \/ PollFail(p) \/ PauseRead(p)
  \/ Grow
  \/ \E h \in Heights : ForkFrom(h)

MonitorSpec == MonitorInit /\ [][MonitorNext]_monVars

-----------------------------------------------------------------------------
\* No event below the cursor is skipped: each canonical one was part of an
\* acknowledged batch, unless the checkpoint is lost and the next poll goes
\* back.  The exception is a fork deeper than the confirmations within one
\* poll, between its look at the checkpoint and at the last block
\* (monitor.ts:36 and 41).
NothingSkipped ==
  \/ raced
  \/ mon.check # NoBlock /\ ~IsCanonical(mon.check)
  \/ \A h \in FromBlock..(mon.cursor - 1) : BlockAt(h) \in acked

\* scripts/e2e.ts:227, "advances only after acknowledgement": the cursor never
\* passes an event of the monitor that no client has acknowledged, on any fork.
\* (a rewind may take it below its first block, whose events it was not asked for)
AdvancesOnlyAfterAck ==
  \A h \in Heights :
    (h >= FromBlock /\ h >= mon.cursor /\ h < mon'.cursor) =>
      \E f \in ForkIds : <<h, f>> \in acked'

\* Every confirmed event is delivered in the end, on the chain as it ends up,
\* unless the monitor is left paused: whatever polls, acknowledgements,
\* pauses, provider failures and reorganisations interleave.
Delivered ==
  <>[](\/ mon.paused \/ raced
       \/ \A h \in FromBlock..(head - Confirmations) : BlockAt(h) \in acked)
=============================================================================
