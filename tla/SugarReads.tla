----------------------------- MODULE SugarReads -----------------------------
(***************************************************************************)
(* packages/sugar/src/internal/rpc-executor.ts, pagination.ts, caches.ts,  *)
(* cache.ts and transport.ts: clients that share one cache entry read the  *)
(* catalogs of it.  The first one to miss drives the read for all: a count *)
(* shared by all catalogs, then the pages, each tried again with backoff   *)
(* until the deadline of the driver.  Pools are created meanwhile, and a   *)
(* confirmed transaction invalidates what is cached.                       *)
(***************************************************************************)
EXTENDS Integers, Sequences, FiniteSets, SequencesExt, FiniteSetsExt

CONSTANTS
  Readers,       \* clients sharing the cache entry of a chain
  Catalogs,      \* what they cache: tokens, pools, ...
  RpcUrls,       \* number of endpoints
  MaxRetries, BaseDelay, ReadDeadline, Ttl, RequestConcurrency,
  PageMin, PageMax, TargetCalls, Slack,  \* Slack: 10 in the code
  MaxPools, MaxTime, MaxInvalidations    \* bounds

\* resolveRpcPolicy refuses any other policy, forEachProgram any other concurrency.
PolicyIsValid ==
  /\ {MaxRetries, BaseDelay} \subseteq Nat
  /\ {ReadDeadline, RequestConcurrency} \subseteq Nat \ {0}

ASSUME ReadsAssumption ==
  /\ PolicyIsValid
  /\ {RpcUrls, PageMin, PageMax, TargetCalls, Ttl, MaxPools} \subseteq Nat \ {0}
  /\ {Slack, MaxTime, MaxInvalidations} \subseteq Nat
  /\ PageMin <= PageMax

VARIABLES
  now, pools,     \* time; number of pools on the chain
  entry,          \* per catalog: nothing, pending with its driver, or a value
  countSlot,      \* poolCountCache: the promise of the count, and its expiry
  job,            \* per client: the call it waits for
  known,          \* history: pools at the last invalidation, and how many of them
  missed          \* history: pools known when a call began and not in what it returned

readsVars == <<now, pools, entry, countSlot, job, known, missed>>

Failures == {"revert", "transient", "stale"}
NoEntry == [st |-> "none", by |-> {}, until |-> 0, value |-> {}]
Quiet == [step |-> "idle", on |-> {}, deadline |-> 0, items |-> <<>>, knew |-> 0]
NewItem(offset, limit) ==
  [st |-> "waiting", tries |-> 0, at |-> 0, offset |-> offset, limit |-> limit,
   got |-> {}]

InFlight(c) == {i \in DOMAIN job[c].items : job[c].items[i].st \in {"running", "backoff"}}

ReadsTypeOK ==
  /\ now \in 0..MaxTime /\ pools \in 1..MaxPools
  /\ \A slot \in Range(entry) \cup {countSlot} :
       /\ slot.st \in {"none", "pending", "value"}
       /\ slot.by \subseteq Readers /\ slot.value \subseteq 1..MaxPools
  /\ \A c \in Readers :
       /\ job[c].step \in {"idle", "wait", "count", "countWait", "pages"}
       /\ job[c].on \subseteq Readers
       /\ Cardinality(InFlight(c)) <= RequestConcurrency
       /\ \A i \in DOMAIN job[c].items : job[c].items[i].tries <= MaxRetries + 1

ReadsInit ==
  /\ now = 0 /\ pools = 1
  /\ entry = [k \in Catalogs |-> NoEntry] /\ countSlot = NoEntry
  /\ job = [c \in Readers |-> Quiet]
  /\ known = [pools |-> 0, times |-> 0]
  /\ missed = {}

-----------------------------------------------------------------------------
(* Pages *)

\* pageSize
PageSize(count) == Max({PageMin, Min({count \div TargetCalls, PageMax})})

\* poolPageRequests: enough for Slack more pools than were counted.
Pages(count) ==
  LET limit == PageSize(count) IN
  [i \in 1..((count + Slack + limit - 1) \div limit) |-> NewItem((i - 1) * limit, limit)]

\* What a page holds now.
PageNow(item) == {k \in 1..pools : item.offset < k /\ k <= item.offset + item.limit}

-----------------------------------------------------------------------------
(* An attempt, its classification and the failover of the transport *)

\* classifyRpcError: a revert, and what it does not know, is deterministic.
Transient(reply) == reply = "transient"

\* createSugarFailoverTransport: the first endpoint that does not fail
\* transiently answers; if none does, the last error is thrown.
Answering(replies) ==
  LET firm == {e \in 1..RpcUrls : ~Transient(replies[e])}
  IN IF firm = {} THEN RpcUrls ELSE Min(firm)

\* A revert that an endpoint behind the others explains is a consistency error,
\* and transient, when there are others.
Retryable(reply) == Transient(reply) \/ (reply = "stale" /\ RpcUrls > 1)

\* getRetryAfterMs: what the provider asks for, 0 where it says nothing one can
\* read; it may ask for more time than the call has left.
RetryAfter == {0, ReadDeadline}

\* retrySchedule: exponential, stretched by the Retry-After of the provider.
Delay(tries, hint) == Max({BaseDelay * 2 ^ (tries - 1), hint})

-----------------------------------------------------------------------------
(* Settling: what waits for a driver settles with it *)

WaitersOf(drivers) == {c \in Readers : job[c].step = "wait" /\ job[c].on \cap drivers # {}}

\* The drivers and all that wait for their entry return ok and value.  Only a
\* success is retained, and only by an entry that was not dropped meanwhile.
Settle(drivers, ok, value) ==
  LET over == drivers \cup WaitersOf(drivers) IN
  /\ job' = [c \in Readers |-> IF c \in over THEN Quiet ELSE job[c]]
  /\ missed' = IF ok THEN UNION {(1..job[c].knew) \ value : c \in over} ELSE missed
  /\ entry' = [k \in Catalogs |->
       IF entry[k].by \cap drivers = {} THEN entry[k]
       ELSE IF ok THEN [st |-> "value", by |-> {}, until |-> now + Ttl, value |-> value]
       ELSE NoEntry]

\* Faulty variant: a failed count is not told to those that share it.
FailsAlone(c) == {c}

\* Who fails with c: while the count is read, all that share its promise.
FailsWith(c) ==
  {c} \cup IF job[c].step = "count" THEN {d \in Readers : job[d].step = "countWait" /\ c \in job[d].on}
                                    ELSE {}

Fails(c) ==
  /\ Settle(FailsWith(c), FALSE, {})
  /\ countSlot' = IF countSlot.st = "pending" /\ c \in countSlot.by /\ job[c].step = "count"
                  THEN NoEntry ELSE countSlot
  /\ UNCHANGED <<now, pools, known>>

-----------------------------------------------------------------------------
(* A call: sharedCacheGet, and paginate of the client that drives it *)

FreshEntry(k) == entry[k].st = "value" /\ entry[k].until > now

\* getPoolCountWithin has no state of its own for a promise that is pending:
\* it is shared until it expires or is dropped.
FreshCount == countSlot.st # "none" /\ countSlot.until > now

Driving(step, on, items) ==
  [step |-> step, on |-> on, deadline |-> now + ReadDeadline, items |-> items,
   knew |-> known.pools]

GetCatalog(c, k) ==
  /\ job[c].step = "idle" /\ now + 2 * ReadDeadline <= MaxTime
  /\ \/ /\ FreshEntry(k)
        /\ missed' = (1..known.pools) \ entry[k].value
        /\ UNCHANGED <<job, entry, countSlot>>
     \/ /\ entry[k].st = "pending"
        /\ job' = [job EXCEPT ![c] = [Quiet EXCEPT !.step = "wait", !.on = entry[k].by,
                                                   !.knew = known.pools]]
        /\ UNCHANGED <<missed, entry, countSlot>>
     \/ /\ ~FreshEntry(k) /\ entry[k].st # "pending"
        /\ entry' = [entry EXCEPT ![k] = [NoEntry EXCEPT !.st = "pending", !.by = {c}]]
        /\ \/ /\ ~FreshCount
              /\ countSlot' = [st |-> "pending", by |-> {c}, until |-> now + Ttl, value |-> {}]
              /\ job' = [job EXCEPT ![c] = Driving("count", {}, <<NewItem(0, MaxPools)>>)]
           \/ /\ FreshCount /\ UNCHANGED countSlot
              /\ job' = [job EXCEPT ![c] =
                   IF countSlot.st = "pending" THEN Driving("countWait", countSlot.by, <<>>)
                   ELSE Driving("pages", {}, Pages(Cardinality(countSlot.value)))]
        /\ UNCHANGED missed
  /\ UNCHANGED <<now, pools, known>>

Begin(item) == [item EXCEPT !.st = "running", !.tries = @ + 1]

\* Effect.forEach starts the next item when one of its fibers is free.
StartItem(c) ==
  /\ job[c].step \in {"count", "pages"} /\ now < job[c].deadline
  /\ Cardinality(InFlight(c)) < RequestConcurrency
  /\ LET waiting == {i \in DOMAIN job[c].items : job[c].items[i].st = "waiting"} IN
     /\ waiting # {}
     /\ job' = [job EXCEPT ![c].items[Min(waiting)] = Begin(@)]
  /\ UNCHANGED <<now, pools, entry, countSlot, known, missed>>

\* The endpoints reply to an attempt.  A hung one never does.
Reply(c, i) ==
  /\ job[c].items[i].st = "running"
  /\ \E reply \in {replies[Answering(replies)] : replies \in [1..RpcUrls -> Failures \cup {"ok"}]},
        hint \in RetryAfter :
       LET item == job[c].items[i] IN
       IF reply = "ok"
       THEN /\ job' = [job EXCEPT ![c].items[i] = [@ EXCEPT !.st = "ok", !.got = PageNow(item)]]
            /\ UNCHANGED <<now, pools, entry, countSlot, known, missed>>
       ELSE IF Retryable(reply) /\ item.tries <= MaxRetries
       THEN /\ job' = [job EXCEPT ![c].items[i] =
                 [@ EXCEPT !.st = "backoff", !.at = now + Delay(item.tries, hint)]]
            /\ UNCHANGED <<now, pools, entry, countSlot, known, missed>>
       ELSE Fails(c)

RetryItem(c, i) ==
  /\ job[c].items[i].st = "backoff" /\ job[c].items[i].at <= now
  /\ job' = [job EXCEPT ![c].items[i] = Begin(@)]
  /\ UNCHANGED <<now, pools, entry, countSlot, known, missed>>

\* withDeadline: the timer interrupts whatever runs.
Deadline(c) ==
  /\ job[c].step \in {"count", "pages"} /\ now >= job[c].deadline
  /\ Fails(c)

AllRead(c) ==
  job[c].items # <<>> /\ \A i \in DOMAIN job[c].items : job[c].items[i].st = "ok"

\* The count is there: all that wait for its promise go on to their pages.
CountRead(c) ==
  /\ job[c].step = "count" /\ AllRead(c)
  /\ LET count == job[c].items[1].got IN
     /\ job' = [d \in Readers |->
          IF d \in FailsWith(c)
          THEN [job[d] EXCEPT !.step = "pages", !.on = {}, !.items = Pages(Cardinality(count))]
          ELSE job[d]]
     /\ countSlot' = IF c \in countSlot.by
                     THEN [countSlot EXCEPT !.st = "value", !.by = {}, !.value = count]
                     ELSE countSlot
  /\ UNCHANGED <<now, pools, entry, known, missed>>

PagesRead(c) ==
  /\ job[c].step = "pages" /\ AllRead(c)
  /\ Settle({c}, TRUE, UNION {job[c].items[i].got : i \in DOMAIN job[c].items})
  /\ UNCHANGED <<now, pools, countSlot, known>>

-----------------------------------------------------------------------------
\* Faulty variant: the count outlives the invalidation.
DropEntriesOnly == entry' = [k \in Catalogs |-> NoEntry] /\ UNCHANGED countSlot

DropCached == entry' = [k \in Catalogs |-> NoEntry] /\ countSlot' = NoEntry

\* invalidateSugarCaches, after a confirmation or a refresh.
Invalidate ==
  /\ known.times < MaxInvalidations
  /\ known' = [pools |-> pools, times |-> known.times + 1]
  /\ DropCached
  /\ UNCHANGED <<now, pools, job, missed>>

CreatePool ==
  /\ pools < MaxPools /\ pools' = pools + 1
  /\ UNCHANGED <<now, entry, countSlot, job, known, missed>>

ReadTick ==
  /\ now < MaxTime /\ now' = now + 1
  /\ UNCHANGED <<pools, entry, countSlot, job, known, missed>>

ReadsNext ==
  \/ \E c \in Readers :
       \/ \E k \in Catalogs : GetCatalog(c, k)
       \/ StartItem(c) \/ Deadline(c) \/ CountRead(c) \/ PagesRead(c)
       \/ \E i \in DOMAIN job[c].items : Reply(c, i) \/ RetryItem(c, i)
  \/ Invalidate \/ CreatePool \/ ReadTick

ReadsSpec == ReadsInit /\ [][ReadsNext]_readsVars

-----------------------------------------------------------------------------
\* internal/caches.ts:104, "Invalidate mutable reads after confirmation": a call
\* that began after an invalidation returns every pool there was at it, whoever
\* drove the read, whatever was in flight and however old the count.
KnownIsRead == missed = {}

\* internal/pagination.ts:88, "The count participates in the caller's deadline":
\* whoever waits for a read of somebody else, for the entry, for the count or for
\* an entry that waits for the count, waits for one whose timer runs, so every
\* call ends also when no endpoint ever replies; and so does what the cache says
\* is pending.
WaitsEnd ==
  LET Runs(d) == job[d].step \in {"count", "pages"} /\ job[d].deadline <= now + ReadDeadline
      Counts(d) == job[d].step = "count" /\ Runs(d)
      Drives(d) == Runs(d) \/ (job[d].step = "countWait" /\ \E e \in job[d].on : Counts(e))
  IN
  /\ \A c \in Readers :
       CASE job[c].step = "wait" -> \E d \in job[c].on : Drives(d)
         [] job[c].step = "countWait" -> Drives(c)
         [] OTHER -> TRUE
  /\ \A k \in Catalogs : entry[k].st = "pending" => \E d \in entry[k].by : Drives(d)
  /\ countSlot.st = "pending" => \E d \in countSlot.by : Counts(d)
=============================================================================
