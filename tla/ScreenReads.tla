---------------------------- MODULE ScreenReads ----------------------------
(***************************************************************************)
(* packages/sugar/src/tui: worker-client.ts, worker.ts, sugar-runtime.ts,  *)
(* snapshot.ts and sugar.ts.  Screens ask a worker for data over messages; *)
(* the worker keeps what it read in a table, shares reads under way, puts  *)
(* some results on disk, and forgets all but those when a transaction was  *)
(* broadcast.  A worker may die and be replaced.  Data is the height of    *)
(* the chain it was read at.                                               *)
(***************************************************************************)
EXTENDS Integers, Sequences, FiniteSets, SequencesExt

CONSTANTS
  ReadKeys,      \* action and parameters of a read
  SavedKeys,     \* SNAPSHOT_ACTIONS among them
  NoKey,         \* none of them
  MaxAsks, MaxWorkers, MaxFetches, MaxHeight   \* bounds

ASSUME ScreenAssumption ==
  /\ SavedKeys \subseteq ReadKeys /\ NoKey \notin ReadKeys
  /\ {MaxAsks, MaxWorkers, MaxFetches, MaxHeight} \subseteq Nat

VARIABLES
  height,           \* of the chain: moved by the user's transactions
  client,           \* the worker in use (0: none), ids and workers used up
  asked,            \* pending of the client
  inbox, outbox,    \* messages to and from the worker in use
  alive,            \* whether the worker in use still runs
  table,            \* prefetched of the worker: a fetch (0: none), or what it read
  fetches,          \* the worker's reads: their data and who awaits them
  stored,           \* what the worker's cacheStore holds; None
  disk,             \* snapshots
  cleared           \* history: height at the last clear that was answered

screenVars ==
  <<height, client, asked, inbox, outbox, alive, table, fetches, stored, disk, cleared>>

Ids == 1..MaxAsks
None == -1
Heights == 0..MaxHeight
Kinds == {"action", "subscribe", "prefetch", "clear"}
NoAsk == [kind |-> "none", key |-> NoKey, since |-> 0, worker |-> 0]
NoRead == [fetch |-> 0, ready |-> FALSE, data |-> None]
NoFetch == [st |-> "none", key |-> NoKey, data |-> None, waiting |-> {}]

ScreenTypeOK ==
  /\ height \in Heights /\ cleared \in 0..height
  /\ client.worker \in 0..client.spawned /\ client.spawned <= MaxWorkers
  /\ \A id \in Ids : asked[id] # NoAsk =>
       /\ asked[id].kind \in Kinds /\ id <= client.asks
       /\ asked[id].worker = client.worker /\ client.worker # 0
  /\ \A k \in ReadKeys : table[k].fetch \in 0..MaxFetches
  /\ \A f \in DOMAIN fetches : fetches[f].data \in {None} \cup Heights
  /\ stored \in {None} \cup Heights /\ \A k \in ReadKeys : disk[k] \in {None} \cup Heights

ScreenInit ==
  /\ height = 0 /\ cleared = 0
  /\ client = [worker |-> 0, asks |-> 0, spawned |-> 0]
  /\ asked = [id \in Ids |-> NoAsk]
  /\ inbox = <<>> /\ outbox = <<>> /\ alive = FALSE
  /\ table = [k \in ReadKeys |-> NoRead]
  /\ fetches = [f \in 1..MaxFetches |-> NoFetch]
  /\ stored = None /\ disk = [k \in ReadKeys |-> None]

-----------------------------------------------------------------------------
(* The client of the worker *)

WorkerState == <<table, fetches, stored>>

\* A worker begins with nothing but the snapshots on disk.
NothingKnown ==
  /\ stored' = None
  /\ table' = [k \in ReadKeys |-> NoRead]
  /\ fetches' = [f \in 1..MaxFetches |-> NoFetch]

\* request, with connect: a worker is started when there is none.
Ask(kind, key, fresh) ==
  LET id == client.asks + 1
      message == [kind |-> kind, id |-> id, key |-> key, fresh |-> fresh]
      w == IF client.worker = 0 THEN client.spawned + 1 ELSE client.worker
  IN
  /\ id \in Ids /\ w <= MaxWorkers
  /\ kind = "prefetch" => ~fresh
  /\ client' = [client EXCEPT !.asks = id, !.worker = w,
                              !.spawned = IF client.worker = 0 THEN w ELSE @]
  /\ asked' = [asked EXCEPT ![id] =
       [kind |-> kind, key |-> key, worker |-> w,
        since |-> IF kind = "clear" THEN height ELSE cleared]]
  /\ IF client.worker = 0 THEN NothingKnown /\ alive' = TRUE /\ inbox' = <<message>>
                          ELSE UNCHANGED <<alive, WorkerState>> /\ inbox' = Append(inbox, message)
  /\ UNCHANGED <<height, outbox, disk, cleared>>

\* clearTuiPrefetch of a screen: asked for once a plan was broadcast.
AskClear == Ask("clear", NoKey, FALSE)

\* cancel of a subscription whose screen is left.
CancelAsk(id) ==
  /\ asked[id].kind = "subscribe"
  /\ asked' = [asked EXCEPT ![id] = NoAsk]
  /\ inbox' = Append(inbox, [kind |-> "cancel", id |-> id, key |-> asked[id].key,
                             fresh |-> FALSE])
  /\ UNCHANGED <<height, client, outbox, alive, WorkerState, disk, cleared>>

\* onmessage: what is said to an ask that is over is dropped; an update keeps the ask, a result or an error settles it.
Hear ==
  /\ outbox # <<>> /\ outbox' = Tail(outbox)
  /\ LET m == Head(outbox)
         over == asked[m.id] # NoAsk /\ m.kind # "update" IN
     /\ asked' = IF over THEN [asked EXCEPT ![m.id] = NoAsk] ELSE asked
     /\ cleared' = IF over /\ asked[m.id].kind = "clear" /\ asked[m.id].since > cleared
                   THEN asked[m.id].since ELSE cleared
  /\ UNCHANGED <<height, client, inbox, alive, WorkerState, disk>>

\* The worker dies, with what it knows.
WorkerDies ==
  /\ alive /\ alive' = FALSE /\ NothingKnown
  /\ UNCHANGED <<height, client, asked, inbox, outbox, disk, cleared>>

\* Faulty variant: the client only forgets the worker.
ForgetWorker == UNCHANGED asked

\* Everything asked is rejected.
RejectAsks == asked' = [id \in Ids |-> NoAsk]

\* close and error of the worker in use, and stop.  What that worker still says
\* is dropped by onmessage.
StopWorker ==
  /\ client.worker # 0 /\ ~alive
  /\ client' = [client EXCEPT !.worker = 0]
  /\ RejectAsks
  /\ inbox' = <<>> /\ outbox' = <<>>
  /\ UNCHANGED <<height, alive, WorkerState, disk, cleared>>

-----------------------------------------------------------------------------
(* The worker *)

WorkerSays(kind, id, live, data) ==
  [kind |-> kind, id |-> id, live |-> live, data |-> data]
Result(id) == WorkerSays("result", id, FALSE, None)

Takes(m) == alive /\ inbox # <<>> /\ m = Head(inbox) /\ inbox' = Tail(inbox)

\* reusable; an entry that expired is dropped by Expire.
Reusable(key, fresh) == table[key].fetch # 0 /\ (~table[key].ready \/ ~fresh)

Waiter(m) ==
  [id |-> m.id, kind |-> m.kind, snapshot |-> IF m.key \in SavedKeys THEN disk[m.key] ELSE None]

\* What an ask is told of a read: a result, or an update and the end.
Answer(who, ok, data) ==
  CASE who.kind = "action" -> <<WorkerSays("result", who.id, ok, data)>>
    [] who.kind = "subscribe" /\ ok -> <<WorkerSays("update", who.id, TRUE, data), Result(who.id)>>
    [] OTHER -> <<WorkerSays("update", who.id, FALSE, who.snapshot), Result(who.id)>>

\* runTuiAction, prefetchTuiAction and fetchTuiAction: take what is ready, join the
\* read in the table, or put a new one there; fresh invalidates the cache store
\* first.  A subscription shows the snapshot, if there is one, before it reads; a
\* prefetch is answered without waiting.
Run(m, who) ==
  LET shown == CASE m.kind = "prefetch" -> <<Result(m.id)>>
                 [] m.kind = "subscribe" /\ Waiter(m).snapshot # None ->
                      <<WorkerSays("update", m.id, FALSE, Waiter(m).snapshot)>>
                 [] OTHER -> <<>>
      entry == table[m.key] IN
  \/ /\ Reusable(m.key, m.fresh) /\ entry.ready
     /\ outbox' = outbox \o shown \o FlattenSeq(SetToSeq({Answer(w, TRUE, entry.data) : w \in who}))
     /\ UNCHANGED WorkerState
  \/ /\ Reusable(m.key, m.fresh) /\ ~entry.ready
     /\ fetches' = [fetches EXCEPT ![entry.fetch].waiting = @ \cup who]
     /\ outbox' = outbox \o shown /\ UNCHANGED <<table, stored>>
  \/ /\ ~Reusable(m.key, m.fresh)
     /\ \E f \in 1..MaxFetches :
          /\ fetches[f].st = "none" /\ \A g \in 1..(f - 1) : fetches[g].st # "none"
          /\ fetches' = [fetches EXCEPT ![f] =
               [st |-> "running", key |-> m.key, data |-> None, waiting |-> who]]
          /\ table' = [table EXCEPT ![m.key] = [NoRead EXCEPT !.fetch = f]]
     /\ stored' = IF m.fresh THEN None ELSE stored
     /\ outbox' = outbox \o shown

TakeRead(m) ==
  /\ Takes(m) /\ m.kind \in {"action", "subscribe", "prefetch"}
  /\ Run(m, IF m.kind = "prefetch" THEN {} ELSE {Waiter(m)})
  /\ UNCHANGED <<height, client, asked, alive, disk, cleared>>

\* Faulty variant: the reads under way stay in the table.
ClearReady == table' = [k \in ReadKeys |-> IF table[k].ready THEN NoRead ELSE table[k]]

ClearTable == table' = [k \in ReadKeys |-> NoRead]

\* clearTuiPrefetch of the worker, and invalidate of the cache store.
TakeClear(m) ==
  /\ Takes(m) /\ m.kind = "clear"
  /\ ClearTable /\ stored' = None
  /\ outbox' = Append(outbox, Result(m.id))
  /\ UNCHANGED <<height, client, asked, alive, fetches, disk, cleared>>

\* The subscription is stopped and settled, and so is the cancellation, under
\* the same id.
TakeCancel(m) ==
  /\ Takes(m) /\ m.kind = "cancel"
  /\ fetches' = [f \in 1..MaxFetches |->
       [fetches[f] EXCEPT !.waiting = {who \in @ : who.id # m.id}]]
  /\ outbox' = outbox \o <<Result(m.id), Result(m.id)>>
  /\ UNCHANGED <<height, client, asked, alive, table, stored, disk, cleared>>

\* executeSugarAction reads the cache store, or the chain into it.
FetchReads(f) ==
  /\ alive /\ fetches[f].st = "running" /\ fetches[f].data = None
  /\ LET data == IF stored = None THEN height ELSE stored IN
     /\ fetches' = [fetches EXCEPT ![f].data = data]
     /\ stored' = data
  /\ UNCHANGED <<height, client, asked, inbox, outbox, alive, table, disk, cleared>>

\* What the awaiting asks are told, in some order.
WorkerTold(f, ok) ==
  FlattenSeq(SetToSeq({Answer(who, ok, fetches[f].data) : who \in fetches[f].waiting}))

IsEntry(f) == table[fetches[f].key].fetch = f

\* Only the read that is still in the table becomes ready there and is saved; a
\* failed one is removed from it.
FetchEnds(f, ok) ==
  LET key == fetches[f].key IN
  /\ alive /\ fetches[f].st = "running" /\ (ok => fetches[f].data # None)
  /\ table' = IF ~IsEntry(f) THEN table
              ELSE [table EXCEPT ![key] =
                IF ok THEN [fetch |-> f, ready |-> TRUE, data |-> fetches[f].data] ELSE NoRead]
  /\ disk' = IF IsEntry(f) /\ ok /\ key \in SavedKeys
             THEN [disk EXCEPT ![key] = fetches[f].data] ELSE disk
  /\ fetches' = [fetches EXCEPT ![f] = [NoFetch EXCEPT !.st = "done"]]
  /\ outbox' = outbox \o WorkerTold(f, ok)
  /\ UNCHANGED <<height, client, asked, inbox, alive, stored, cleared>>

\* The time to live of an entry, of the cache store or of a snapshot is over.
Expire ==
  /\ \/ \E k \in ReadKeys :
          /\ table[k].ready /\ table' = [table EXCEPT ![k] = NoRead]
          /\ UNCHANGED <<stored, disk>>
     \/ stored # None /\ stored' = None /\ UNCHANGED <<table, disk>>
  /\ UNCHANGED <<height, client, asked, inbox, outbox, alive, fetches, cleared>>

\* A transaction of the user is mined.
Broadcast ==
  /\ height < MaxHeight /\ height' = height + 1
  /\ UNCHANGED <<client, asked, inbox, outbox, alive, WorkerState, disk, cleared>>

ScreenNext ==
  \/ \E kind \in {"action", "subscribe", "prefetch"}, key \in ReadKeys, fresh \in BOOLEAN :
       Ask(kind, key, fresh)
  \/ AskClear \/ Hear \/ WorkerDies \/ StopWorker \/ Expire \/ Broadcast
  \/ \E id \in Ids : CancelAsk(id)
  \/ \E m \in Range(inbox) :
       TakeRead(m) \/ TakeClear(m) \/ TakeCancel(m)
  \/ \E f \in 1..MaxFetches : FetchReads(f) \/ FetchEnds(f, TRUE) \/ FetchEnds(f, FALSE)

ScreenSpec == ScreenInit /\ [][ScreenNext]_screenVars

-----------------------------------------------------------------------------
\* sugar-runtime.ts:177, "After a broadcast the chain state moved; stale
\* prefetches must not survive it": what is shown as live to a screen that asked
\* after a clear was answered was read after the broadcast that it was for,
\* whatever reads were under way or shared and whichever worker answers.
LiveIsCurrent ==
  \A n \in DOMAIN outbox :
    LET m == outbox[n] IN
    m.live /\ asked[m.id] # NoAsk => m.data >= asked[m.id].since

\* worker-client.ts:42, "Aero data worker stopped. Retry the action.": nobody
\* waits for nothing: an ask that is pending is on its way to the worker in use,
\* awaits a read of it, or its answer is on its way back, unless that worker died
\* and the client is about to hear of it.
NobodyWaitsInVain ==
  \A id \in Ids : asked[id] # NoAsk =>
    \/ ~alive /\ client.worker # 0
    \/ \E n \in DOMAIN inbox : inbox[n].id = id
    \/ \E f \in 1..MaxFetches : \E who \in fetches[f].waiting : who.id = id
    \/ \E n \in DOMAIN outbox :
         outbox[n].id = id /\ outbox[n].kind # "update"
=============================================================================
