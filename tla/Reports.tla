------------------------------ MODULE Reports ------------------------------
(***************************************************************************)
(* packages/sugar/src/tui/analytics: report-cache.ts, load.ts and the      *)
(* caches of dune.ts and llama.ts, with the worker's `analytics` request   *)
(* and the screen that shows the report.  A report is put together from    *)
(* sources that answer in any order, is shared by those who ask for it,    *)
(* and outlives its worker on disk.  It is known by the load that made it  *)
(* and the parts it has.                                                   *)
(***************************************************************************)
EXTENDS Integers, Sequences, FiniteSets, SequencesExt

CONSTANTS
  Networks,               \* chains the screen may be on
  NoNetwork,
  CachedSources,          \* Dune and DefiLlama: each keeps its answer a while
  DirectSources,          \* Sugar: its own caches are SugarReads
  AllNeeded,              \* cached sources that need every query answered: DefiLlama
  SourceQueries,          \* a cached source's queries
  ReportTtl, SourceTtl,   \* 60 s, 5 min
  MaxQueries, MaxMinute, MaxDeaths   \* bounds

Sources == CachedSources \cup DirectSources

ASSUME ReportsAssumption ==
  /\ NoNetwork \notin Networks /\ CachedSources \cap DirectSources = {} /\ Sources # {}
  /\ AllNeeded \subseteq CachedSources /\ SourceQueries # {}
  /\ {ReportTtl, SourceTtl, MaxQueries, MaxMinute, MaxDeaths} \subseteq Nat

VARIABLES
  minute,     \* the time
  view,       \* the screen: chain, its first ask, the one it waits for, report shown, loading, failed
  queries,    \* asks of the screen, with the loads begun when each was made
  mail,       \* messages of the worker to the screen
  loads,      \* loadAnalytics calls
  entries,    \* entries of the cache: per chain, a load (0: none) and its report
  pulled,     \* duneCache and llamaCache: the load that began the fetch, its expiry
  shelf,      \* snapshots on disk
  deaths      \* workers lost

reportVars ==
  <<minute, view, queries, mail, loads, entries, pulled, shelf, deaths>>

NoReport == [chain |-> NoNetwork, load |-> 0, parts |-> {}, kept |-> {}]
NoReportEntry == [load |-> 0, report |-> NoReport]
NoPull == [load |-> 0, expires |-> 0]
Reports == [chain : Networks \cup {NoNetwork}, load : 0..MaxQueries,
            parts : SUBSET Sources, kept : SUBSET Sources]
Has(report) == report # NoReport

ReportsTypeOK ==
  /\ minute \in 0..MaxMinute /\ deaths \in 0..MaxDeaths
  /\ view.ask \in 0..Len(queries) /\ view.opened \in 0..view.ask /\ {view.loading, view.failed} \subseteq BOOLEAN
  /\ view.report \in Reports /\ Len(queries) <= MaxQueries
  /\ \A l \in DOMAIN loads : loads[l].settled \subseteq Sources /\ loads[l].parts \subseteq loads[l].settled
  /\ \A c \in Networks : entries[c].report \in Reports /\ shelf[c] \in Reports
  /\ \A s \in CachedSources, c \in Networks : pulled[s][c].load \in 0..Len(loads)

ReportsInit ==
  /\ minute = 0 /\ deaths = 0
  /\ view = [chain |-> NoNetwork, opened |-> 0, ask |-> 0, report |-> NoReport, loading |-> FALSE, failed |-> FALSE]
  /\ queries = <<>> /\ mail = <<>> /\ loads = <<>>
  /\ entries = [c \in Networks |-> NoReportEntry]
  /\ pulled = [s \in CachedSources |-> [c \in Networks |-> NoPull]]
  /\ shelf = [c \in Networks |-> NoReport]

(* The screen: its effect runs when it is opened, for another chain and for *)
(* ctrl+r, and what it was waiting for is cancelled.  Once refreshed, every *)
(* ask is a fresh one until the screen is left, another chain's too.  What  *)
(* it shows stays, until an answer replaces it.                             *)
AskReport(c, fresh, opened, report) ==
  /\ Len(queries) < MaxQueries
  /\ queries' = Append(queries, [chain |-> c, fresh |-> fresh, since |-> Len(loads), st |-> "sent"])
  /\ view' = [chain |-> c, opened |-> opened, ask |-> Len(queries) + 1, report |-> report,
              loading |-> TRUE, failed |-> FALSE]
  /\ UNCHANGED <<minute, mail, loads, entries, pulled, shelf, deaths>>
OpenScreen(c) == AskReport(c, FALSE, Len(queries) + 1, NoReport)
ChangeChain(c) ==
  /\ view.ask # 0 /\ view.chain # c
  /\ AskReport(c, queries[view.ask].fresh, view.opened, view.report)
Refresh == view.ask # 0 /\ AskReport(view.chain, TRUE, view.opened, view.report)

Update(id, report) == [ask |-> id, kind |-> "update", report |-> report]
ReportResult(id, report) == [ask |-> id, kind |-> "result", report |-> report]
Mailed(msgs) == mail' = mail \o msgs

(* An earlier ask's messages are for a cancelled effect.                   *)
AnyMessage(msg) == TRUE
IsCurrent(msg) == msg.ask = view.ask
ShowMail ==
  /\ mail # <<>>
  /\ LET msg == Head(mail)
     IN view' = IF IsCurrent(msg)
                THEN [view EXCEPT !.report = msg.report, !.loading = FALSE] ELSE view
  /\ mail' = Tail(mail)
  /\ UNCHANGED <<minute, queries, loads, entries, pulled, shelf, deaths>>

(* The worker takes the asks in order.  A refresh drops the entry, then    *)
(* waits for the other caches to be cleared.                               *)
EntryKept(c) == entries[c]
Invalidated(c) == NoReportEntry
ArriveFresh(id) ==
  /\ queries[id].st = "sent" /\ queries[id].fresh
  /\ \A other \in 1..id-1 : queries[other].st # "sent"
  /\ queries' = [queries EXCEPT ![id].st = "cleared"]
  /\ entries' = [entries EXCEPT ![queries[id].chain] = Invalidated(queries[id].chain)]
  /\ UNCHANGED <<minute, view, mail, loads, pulled, shelf, deaths>>

Peek(c) == IF Has(entries[c].report) THEN entries[c].report ELSE shelf[c]

(* A source's own cache: an answer, or a fetch under way, is shared until  *)
(* it expires; a fetch that fails is forgotten.  A fetch is known by the   *)
(* load that began it.                                                     *)
StillPulled(s, c) == pulled[s][c].load # 0 /\ pulled[s][c].expires > minute
FetchFor(s, c, l) == IF StillPulled(s, c) THEN pulled[s][c].load ELSE l

NewLoad(c, id, disk) == LET l == Len(loads) + 1 IN
  [chain |-> c, begun |-> minute, st |-> "running", for |-> id, waiting |-> {id}, disk |-> disk,
   fetch |-> [s \in CachedSources |-> FetchFor(s, c, l)],
   own |-> [s \in CachedSources |-> IF StillPulled(s, c) THEN "none" ELSE "running"],
   settled |-> {}, parts |-> {}, final |-> NoReport]

(* createReportCache.load.  A load begun less than a minute ago is shared. *)
Shares(c) == entries[c].load # 0 /\ minute - loads[entries[c].load].begun < ReportTtl
ShareLoad(id, c) == LET l == entries[c].load IN
  /\ Shares(c)
  /\ UNCHANGED <<entries, pulled>>
  /\ IF loads[l].st = "running"
     THEN /\ loads' = [loads EXCEPT ![l].waiting = @ \cup {id}]
          /\ queries' = [queries EXCEPT ![id].st = "waiting"]
          /\ Mailed(IF Has(entries[c].report)
                    THEN <<Update(id, Peek(c)), Update(id, entries[c].report)>>
                    ELSE IF Has(shelf[c]) THEN <<Update(id, shelf[c])>> ELSE <<>>)
     ELSE /\ queries' = [queries EXCEPT ![id].st = "done"]
          /\ Mailed(<<Update(id, Peek(c)), ReportResult(id, loads[l].final)>>)
          /\ UNCHANGED loads

BeginLoad(id, c) ==
  LET l == Len(loads) + 1
      prior == entries[c].report
      disk == IF Has(prior) THEN NoReport ELSE shelf[c]
  IN
  /\ ~Shares(c)
  /\ loads' = Append(loads, NewLoad(c, id, disk))
  /\ entries' = [entries EXCEPT ![c] = [load |-> l, report |-> IF Has(prior) THEN prior ELSE disk]]
  /\ pulled' = [s \in CachedSources |->
       IF StillPulled(s, c) THEN pulled[s]
       ELSE [pulled[s] EXCEPT ![c] = [load |-> l, expires |-> minute + SourceTtl]]]
  /\ queries' = [queries EXCEPT ![id].st = "waiting"]
  /\ Mailed(IF Has(prior) THEN <<Update(id, prior)>>
            ELSE IF Has(disk) THEN <<Update(id, disk), Update(id, disk)>> ELSE <<>>)

(* An ask that is no refresh, or a refresh whose clearing is done.         *)
Ready(id) ==
  \/ queries[id].st = "cleared"
  \/ /\ queries[id].st = "sent" /\ ~queries[id].fresh
     /\ \A other \in 1..id-1 : queries[other].st # "sent"
TakeReport(id) == LET c == queries[id].chain IN
  /\ Ready(id)
  /\ (ShareLoad(id, c) \/ BeginLoad(id, c))
  /\ UNCHANGED <<minute, view, shelf, deaths>>

(* A fetch of a cached source ends when each of its queries answered, failed *)
(* or ran into its deadline: Dune needs one answer, DefiLlama all of them.  *)
(* The loads that share the fetch hear of it on their own.                 *)
Suffices(s, answered) ==
  IF s \in AllNeeded THEN answered = SourceQueries ELSE answered # {}
Forgotten(s, l) == [pulled[s] EXCEPT ![loads[l].chain] = NoPull]
EndFetch(s, l, answered) ==
  /\ s \in CachedSources /\ loads[l].own[s] = "running"
  /\ loads' = [loads EXCEPT ![l].own[s] = IF Suffices(s, answered) THEN "ok" ELSE "failed"]
  /\ pulled' = IF Suffices(s, answered) THEN pulled ELSE [pulled EXCEPT ![s] = Forgotten(s, l)]
  /\ UNCHANGED <<minute, view, queries, mail, entries, shelf, deaths>>

(* A source answers a load: with data, with none, or it adds an error.  The *)
(* load publishes what it has; its report is taken only while its entry is *)
(* the one in the cache, filled up with what the disk had.                 *)
Outcome(l, s) ==
  IF s \in DirectSources THEN {"ok", "failed"} ELSE {loads[loads[l].fetch[s]].own[s]}
IsEntryOf(l) == entries[loads[l].chain].load = l
Merged(l, parts) ==
  [chain |-> loads[l].chain, load |-> l, parts |-> parts, kept |-> loads[l].disk.parts \ parts]
SourceAnswers(l, s) == \E how \in Outcome(l, s) \ {"running"} :
  LET parts == IF how = "ok" THEN loads[l].parts \cup {s} ELSE loads[l].parts
      c == loads[l].chain
  IN
  /\ loads[l].st = "running" /\ s \notin loads[l].settled
  /\ loads' = [loads EXCEPT ![l].parts = parts, ![l].settled = @ \cup {s}]
  /\ IF IsEntryOf(l)
     THEN /\ entries' = [entries EXCEPT ![c].load = l, ![c].report = Merged(l, parts)]
          /\ Mailed(<<Update(loads[l].for, Merged(l, parts))>>)
     ELSE UNCHANGED <<entries, mail>>
  /\ UNCHANGED <<minute, view, queries, pulled, shelf, deaths>>

(* All have answered: the report replaces what disk and cache had, and     *)
(* everyone who shared the load has it.                                    *)
EndLoad(l) ==
  LET c == loads[l].chain
      final == [chain |-> c, load |-> l, parts |-> loads[l].parts, kept |-> {}]
      told == SetToSeq(loads[l].waiting)
  IN
  /\ loads[l].st = "running" /\ loads[l].settled = Sources
  /\ loads' = [loads EXCEPT ![l].st = "done", ![l].final = final, ![l].waiting = {}]
  /\ IF IsEntryOf(l)
     THEN /\ entries' = [entries EXCEPT ![c].report = final]
          /\ shelf' = [shelf EXCEPT ![c] = final]
     ELSE UNCHANGED <<entries, shelf>>
  /\ queries' = [id \in DOMAIN queries |->
       IF id \in loads[l].waiting THEN [queries[id] EXCEPT !.st = "done"] ELSE queries[id]]
  /\ Mailed([i \in DOMAIN told |-> ReportResult(told[i], final)])
  /\ UNCHANGED <<minute, view, pulled, deaths>>

(* The worker dies: what it held is gone, what was asked of it is refused, *)
(* and the next ask starts another one.                                    *)
WorkerLost ==
  /\ deaths < MaxDeaths /\ deaths' = deaths + 1
  /\ queries # <<>>
  /\ loads' = [l \in DOMAIN loads |-> [loads[l] EXCEPT !.st = "lost", !.waiting = {},
                                        !.own = [s \in CachedSources |-> "none"]]]
  /\ entries' = [c \in Networks |-> NoReportEntry]
  /\ pulled' = [s \in CachedSources |-> [c \in Networks |-> NoPull]]
  /\ queries' = [id \in DOMAIN queries |-> [queries[id] EXCEPT !.st = "done"]]
  /\ mail' = <<>>
  /\ view' = IF queries[view.ask].st = "done" /\ ~\E i \in DOMAIN mail : IsCurrent(mail[i]) THEN view
             ELSE [view EXCEPT !.loading = FALSE, !.failed = TRUE]
  /\ UNCHANGED <<minute, shelf>>

MinutePasses == minute < MaxMinute /\ minute' = minute + 1 /\
  UNCHANGED <<view, queries, mail, loads, entries, pulled, shelf, deaths>>

ReportsNext ==
  \/ \E c \in Networks : OpenScreen(c) \/ ChangeChain(c)
  \/ Refresh
  \/ ShowMail
  \/ \E id \in DOMAIN queries : ArriveFresh(id) \/ TakeReport(id)
  \/ \E l \in DOMAIN loads, s \in CachedSources : \E answered \in SUBSET SourceQueries : EndFetch(s, l, answered)
  \/ \E l \in DOMAIN loads, s \in Sources : SourceAnswers(l, s)
  \/ \E l \in DOMAIN loads : EndLoad(l)
  \/ WorkerLost
  \/ MinutePasses

ReportsSpec == ReportsInit /\ [][ReportsNext]_reportVars

(***************************************************************************)
(* Properties                                                              *)
(***************************************************************************)

(* What the screen shows once it stopped loading without a failure is a    *)
(* report of the chain it is on, whatever older asks still answer          *)
(* (analytics.tsx:60-83).  While it loads, and when that failed, it goes   *)
(* on showing what it had, with no word of the failure (analytics.tsx:156, *)
(* 160): a report of a chain it was on since it was opened, and not        *)
(* always of the one it is on.  And a screen that is loading will hear,    *)
(* since its ask is before the worker, held by a load, or in the mail.     *)
ReportIsOfChain ==
  /\ (view.ask # 0 /\ ~view.loading /\ ~view.failed) => view.report.chain = view.chain
  /\ Has(view.report) => \E id \in view.opened..view.ask : queries[id].chain = view.report.chain
  /\ view.loading =>
       \/ queries[view.ask].st \in {"sent", "cleared"}
       \/ \E l \in DOMAIN loads : loads[l].st = "running" /\ view.ask \in loads[l].waiting
       \/ \E i \in DOMAIN mail : IsCurrent(mail[i])

(* A refresh ends with a report whose load began after it was asked, though *)
(* loads from before it are still running and write what they read         *)
(* (report-cache.ts:15 and the identity of entries at 27, 38).             *)
RefreshIsFresh ==
  /\ \A i \in DOMAIN mail :
       (mail[i].kind = "result" /\ queries[mail[i].ask].fresh) =>
         mail[i].report.load > queries[mail[i].ask].since
  /\ \A c \in Networks : entries[c].load # 0 => entries[c].report.load <= entries[c].load
=============================================================================
