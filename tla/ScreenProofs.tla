---------------------------- MODULE ScreenProofs ----------------------------
(***************************************************************************)
(* Theorems about the terminal, which MCInfra composes with the other      *)
(* parts: the reads its screens share, what the screens and their dialogs  *)
(* show, and the reports they show from a cache, for any number of reads,  *)
(* asks, screens, loads and deaths of the worker.  Each part has an        *)
(* inductive invariant, and lemmas for its steps; the composition keeps    *)
(* it, since no part moves another.                                        *)
(***************************************************************************)
EXTENDS MCInfra, DataLemmas, SequenceTheorems

-----------------------------------------------------------------------------
(***************************************************************************)
(* tui/worker-client.ts, worker.ts and sugar-runtime.ts: what a screen is  *)
(* shown as live was read after the last broadcast that it knows to be     *)
(* cleared, and nobody waits for nothing.  A clear counts from the moment  *)
(* the worker answers it, which is before the client hears of it: what     *)
(* the worker has then, in its table, its cache store and the reads that   *)
(* are in the table, is at least as late, and an ask that is sent          *)
(* afterwards only ever awaits reads that are.                             *)
(***************************************************************************)

\* An element of a list
In(x, q) == x \in Range(q)

\* What two lists hold one after the other
LEMMA InBoth ==
  ASSUME NEW T, NEW q \in Seq(T), NEW r \in Seq(T)
  PROVE  q \o r \in Seq(T) /\ \A x : In(x, q \o r) <=> In(x, q) \/ In(x, r)
<1>1. /\ q \o r \in Seq(T) /\ Len(q \o r) = Len(q) + Len(r) /\ Len(q) \in Nat /\ Len(r) \in Nat
      /\ \A i \in 1..Len(q) + Len(r) : (q \o r)[i] = IF i <= Len(q) THEN q[i] ELSE r[i - Len(q)]
  BY ConcatProperties, LenProperties
<1> DEFINE both == q \o r
<1>2. DOMAIN q = 1..Len(q) /\ DOMAIN r = 1..Len(r) /\ DOMAIN both = 1..Len(both) BY <1>1
<1> USE DEF In, Range
<1>3. ASSUME NEW x, In(x, both) PROVE In(x, q) \/ In(x, r)
  <2>1. PICK n \in 1..Len(both) : both[n] = x BY <1>2, <1>3
  <2>2. CASE n <= Len(q) BY <1>1, <1>2, <2>1, <2>2
  <2>3. CASE n > Len(q)
    <3>1. n - Len(q) \in 1..Len(r) /\ r[n - Len(q)] = x BY <1>1, <2>1, <2>3
    <3> QED BY <1>2, <3>1
  <2> QED BY <1>1, <2>2, <2>3
<1>4. ASSUME NEW x, In(x, q) PROVE In(x, both)
  <2>1. PICK n \in 1..Len(q) : q[n] = x BY <1>2, <1>4
  <2>2. n \in 1..Len(both) /\ both[n] = x BY <1>1, <2>1
  <2> QED BY <1>2, <2>2
<1>5. ASSUME NEW x, In(x, r) PROVE In(x, both)
  <2>1. PICK n \in 1..Len(r) : r[n] = x BY <1>2, <1>5
  <2>2. n + Len(q) \in 1..Len(both) /\ both[n + Len(q)] = x BY <1>1, <2>1
  <2> QED BY <1>2, <2>2
<1> QED BY <1>1, <1>3, <1>4, <1>5

\* FlattenSeq is defined by recursion on the length, and there is a function like it.
LEMMA FlatIsThere ==
  ASSUME NEW s
  PROVE  \A n \in Nat : \E f : f = [i \in 1..n |-> IF i = 1 THEN s[i] ELSE f[i - 1] \o s[i]]
<1> DEFINE Flat(n) == \E f : f = [i \in 1..n |-> IF i = 1 THEN s[i] ELSE f[i - 1] \o s[i]]
           bad == {n \in Nat : ~Flat(n)}
<1>1. Flat(0)
  <2> DEFINE f == [i \in 1..0 |-> s[i]]
  <2>1. 1..0 = {} OBVIOUS
  <2>2. f = [i \in 1..0 |-> IF i = 1 THEN s[i] ELSE f[i - 1] \o s[i]] BY <2>1
  <2> QED BY <2>2
<1>2. ASSUME NEW n \in Nat, Flat(n) PROVE Flat(n + 1)
  <2>1. PICK f : f = [i \in 1..n |-> IF i = 1 THEN s[i] ELSE f[i - 1] \o s[i]] BY <1>2
  <2> DEFINE g == [i \in 1..(n + 1) |-> IF i = n + 1 THEN (IF i = 1 THEN s[i] ELSE f[n] \o s[i]) ELSE f[i]]
  <2>2. ASSUME NEW i \in 1..(n + 1) PROVE g[i] = IF i = 1 THEN s[i] ELSE g[i - 1] \o s[i]
    <3>1. CASE i = n + 1 /\ i # 1
      <4>1. n \in 1..n /\ n \in 1..(n + 1) /\ i - 1 = n /\ n # n + 1 BY <3>1
      <4>2. g[n] = f[n] BY <4>1
      <4>3. g[i] = f[n] \o s[i] BY <3>1
      <4> QED BY <3>1, <4>1, <4>2, <4>3
    <3>2. CASE i # n + 1 /\ i # 1
      <4>1. i \in 1..n /\ i - 1 \in 1..n /\ i - 1 # n + 1 BY <3>2
      <4>2. f[i] = f[i - 1] \o s[i] BY <2>1, <3>2, <4>1
      <4>3. g[i] = f[i] /\ g[i - 1] = f[i - 1] BY <3>2, <4>1
      <4> QED BY <3>2, <4>2, <4>3
    <3>3. CASE i = 1
      <4>1. i # n + 1 => i \in 1..n BY <3>3
      <4> QED BY <2>1, <3>3, <4>1
    <3> QED BY <3>1, <3>2, <3>3
  <2>3. g = [i \in 1..(n + 1) |-> IF i = 1 THEN s[i] ELSE g[i - 1] \o s[i]]
    <3> DEFINE values == {g[i] : i \in 1..(n + 1)}
    <3>1. g \in [1..(n + 1) -> values] OBVIOUS
    <3> HIDE DEF g, values
    <3> QED BY <2>2, <3>1
  <2> QED BY <2>3
<1> HIDE DEF Flat
<1>3. bad = {}
  <2> SUFFICES ASSUME bad # {} PROVE FALSE OBVIOUS
  <2>1. PICK n \in bad : \A m \in bad : n <= m BY LeastNatural
  <2>2. n \in Nat /\ ~Flat(n) OBVIOUS
  <2>3. n # 0 BY <1>1, <2>2
  <2>4. n - 1 \in Nat /\ n = (n - 1) + 1 BY <2>2, <2>3
  <2>5. n - 1 \notin bad BY <2>1, <2>4
  <2>6. Flat(n - 1) BY <2>4, <2>5
  <2>7. Flat((n - 1) + 1) BY <1>2, <2>4, <2>6
  <2> QED BY <2>2, <2>4, <2>7
<1>4. \A n \in Nat : Flat(n) BY <1>3
<1> QED BY <1>4 DEF Flat

\* The lists of a list one after the other hold what they hold, and nothing else.
LEMMA FlatHoldsAll ==
  ASSUME NEW T, NEW s \in Seq(Seq(T))
  PROVE  /\ FlattenSeq(s) \in Seq(T)
         /\ \A x : In(x, FlattenSeq(s)) <=> \E i \in 1..Len(s) : In(x, s[i])
<1> DEFINE F == CHOOSE f : f = [i \in 1..Len(s) |-> IF i = 1 THEN s[i] ELSE f[i - 1] \o s[i]]
           n == Len(s)
<1>1. n \in Nat /\ \A i \in 1..n : s[i] \in Seq(T) OBVIOUS
<1>2. CASE n = 0
  <2>1. FlattenSeq(s) = s /\ s = <<>> BY <1>2 DEF FlattenSeq
  <2> QED BY <1>2, <2>1 DEF In, Range
<1>3. CASE n # 0
  <2>1. FlattenSeq(s) = F[n] BY <1>3, Zenon DEF FlattenSeq
  <2>2. F = [i \in 1..n |-> IF i = 1 THEN s[i] ELSE F[i - 1] \o s[i]]
    <3>1. \E f : f = [i \in 1..n |-> IF i = 1 THEN s[i] ELSE f[i - 1] \o s[i]] BY <1>1, FlatIsThere
    <3> QED BY <3>1, Zenon
  <2> HIDE DEF F, n
  <2> DEFINE Right(m) == /\ F[m] \in Seq(T)
                         /\ \A x : In(x, F[m]) <=> \E i \in 1..m : In(x, s[i])
             bad == {m \in 1..n : ~Right(m)}
  <2>3. Right(1)
    <3>1. 1 \in 1..n BY <1>1, <1>3
    <3>2. F[1] = s[1] BY <2>2, <3>1
    <3>3. \A i : i \in 1..1 <=> i = 1 OBVIOUS
    <3> QED BY <1>1, <3>1, <3>2, <3>3
  <2>4. ASSUME NEW m \in 1..n, m # 1, Right(m - 1) PROVE Right(m)
    <3>1. F[m] = F[m - 1] \o s[m] BY <2>2, <2>4
    <3>2. s[m] \in Seq(T) BY <1>1
    <3>3. F[m] \in Seq(T) /\ \A x : In(x, F[m]) <=> In(x, F[m - 1]) \/ In(x, s[m])
      BY <2>4, <3>1, <3>2, InBoth
    <3>4. \A i : i \in 1..m <=> i \in 1..(m - 1) \/ i = m BY <1>1
    <3> QED BY <2>4, <3>3, <3>4
  <2> HIDE DEF Right
  <2>5. bad = {}
    <3> SUFFICES ASSUME bad # {} PROVE FALSE OBVIOUS
    <3>1. bad \in SUBSET Nat BY <1>1
    <3>2. PICK m \in bad : \A k \in bad : m <= k BY <3>1, LeastNatural
    <3>3. m \in 1..n /\ ~Right(m) OBVIOUS
    <3>4. m # 1 BY <2>3, <3>3
    <3>5. m - 1 \in 1..n /\ ~(m <= m - 1) BY <1>1, <3>3, <3>4
    <3>6. Right(m - 1) BY <3>2, <3>5
    <3> QED BY <2>4, <3>3, <3>4, <3>6
  <2>6. Right(n) BY <1>1, <1>3, <2>5
  <2> QED BY <2>1, <2>6 DEF Right, n
<1> QED BY <1>2, <1>3

\* Messages to the worker and from it, who awaits a read, asks, reads and entries
ScreenMessage == [kind : Kinds \cup {"cancel"}, id : Ids, key : ReadKeys \cup {NoKey}, fresh : BOOLEAN]
ScreenWord == [kind : {"result", "update"}, id : Ids, live : BOOLEAN, data : Int]
WaiterRecord == [id : Ids, kind : {"action", "subscribe"}, snapshot : Int]
AskRecord == [kind : Kinds \cup {"none"}, key : ReadKeys \cup {NoKey}, since : Nat, worker : Nat]
FetchRecord == [st : {"none", "running", "done"}, key : ReadKeys \cup {NoKey}, data : Int,
                waiting : SUBSET WaiterRecord]
EntryRecord == [fetch : 0..MaxFetches, ready : BOOLEAN, data : Int]

\* What those who await a read are told: each its result, and live data only of that read.
Tells(W, ok, data) == FlattenSeq(SetToSeq({Answer(w, ok, data) : w \in W}))
\* Whoever awaits is told a result; what is live in it is the data of the read.
LEMMA Telling ==
  ASSUME NEW W \in SUBSET WaiterRecord, IsFiniteSet(W), NEW ok \in BOOLEAN, NEW data \in Int,
         NEW q, q = Tells(W, ok, data)
  PROVE  /\ q \in Seq(ScreenWord)
         /\ \A m \in Range(q) : \E w \in W : m.id = w.id /\ (m.live => ok /\ m.data = data)
         /\ \A w \in W : \E m \in Range(q) : m.id = w.id /\ m.kind = "result"
<1> DEFINE said == {Answer(w, ok, data) : w \in W}
           s == SetToSeq(said)
<1>1. ASSUME NEW w \in W
      PROVE  /\ Answer(w, ok, data) \in Seq(ScreenWord)
             /\ \A m \in Range(Answer(w, ok, data)) : m.id = w.id /\ (m.live => ok /\ m.data = data)
             /\ \E m \in Range(Answer(w, ok, data)) : m.id = w.id /\ m.kind = "result"
  <2>1. w.id \in Ids /\ w.kind \in {"action", "subscribe"} /\ w.snapshot \in Int BY DEF WaiterRecord
  <2> DEFINE a == WorkerSays("result", w.id, ok, data)
             b == WorkerSays("update", w.id, TRUE, data)
             c == WorkerSays("update", w.id, FALSE, w.snapshot)
             e == Result(w.id)
  <2>2. /\ a \in ScreenWord /\ a.id = w.id /\ a.kind = "result" /\ (a.live => ok) /\ a.data = data
        /\ b \in ScreenWord /\ b.id = w.id /\ b.data = data
        /\ c \in ScreenWord /\ c.id = w.id /\ ~c.live
        /\ e \in ScreenWord /\ e.id = w.id /\ ~e.live /\ e.kind = "result"
    BY <2>1 DEF WorkerSays, Result, ScreenWord, None
  <2>3. Answer(w, ok, data) \in {<<a>>, <<c, e>>} \/ (ok /\ Answer(w, ok, data) = <<b, e>>)
    BY <2>1 DEF Answer
  <2> HIDE DEF a, b, c, e
  <2>4. Range(<<a>>) = {a} /\ Range(<<b, e>>) = {b, e} /\ Range(<<c, e>>) = {c, e} BY DEF Range
  <2>5. CASE Answer(w, ok, data) = <<a>>
    <3>1. Answer(w, ok, data) \in Seq(ScreenWord) BY <2>2, <2>5
    <3> QED BY <2>2, <2>4, <2>5, <3>1
  <2>6. CASE Answer(w, ok, data) = <<c, e>>
    <3>1. Answer(w, ok, data) \in Seq(ScreenWord) BY <2>2, <2>6
    <3> QED BY <2>2, <2>4, <2>6, <3>1
  <2>7. CASE ok /\ Answer(w, ok, data) = <<b, e>>
    <3>1. Answer(w, ok, data) = <<b, e>> BY <2>7, Zenon
    <3>2. Answer(w, ok, data) \in Seq(ScreenWord) BY <2>2, <3>1
    <3> QED BY <2>2, <2>4, <2>7, <3>1, <3>2
  <2> QED BY <2>3, <2>5, <2>6, <2>7
<1>2. IsFiniteSet(said)
  <2> DEFINE answering == [w \in W |-> Answer(w, ok, data)]
  <2>1. answering \in Surjection(W, said) BY DEF Surjection
  <2> QED BY <2>1, FS_Surjection
<1>3. said \subseteq Seq(ScreenWord) BY <1>1
<1>4. /\ s \in Seq(said) /\ Len(s) \in Nat
      /\ \A x \in said : \E i \in 1..Len(s) : s[i] = x
  <2> HIDE DEF said
  <2> QED BY <1>2, ListsAll
<1>5. s \in Seq(Seq(ScreenWord)) BY <1>3, <1>4
<1>6. q \in Seq(ScreenWord) /\ \A x : In(x, q) <=> \E i \in 1..Len(s) : In(x, s[i])
  <2> HIDE DEF s
  <2>1. q = FlattenSeq(s) BY DEF Tells, s, said
  <2> QED BY <1>5, <2>1, FlatHoldsAll
<1>7. \A i \in 1..Len(s) : s[i] \in said
  <2> HIDE DEF s, said
  <2> QED BY <1>4, ElementOfSeq
<1> HIDE DEF s
<1>8. ASSUME NEW m \in Range(q) PROVE \E w \in W : m.id = w.id /\ (m.live => ok /\ m.data = data)
  <2>1. PICK i \in 1..Len(s) : m \in Range(s[i]) BY <1>6 DEF In
  <2>2. PICK w \in W : s[i] = Answer(w, ok, data) BY <1>7
  <2> QED BY <1>1, <2>1, <2>2
<1>9. ASSUME NEW w \in W PROVE \E m \in Range(q) : m.id = w.id /\ m.kind = "result"
  <2>1. PICK m \in Range(Answer(w, ok, data)) : m.id = w.id /\ m.kind = "result" BY <1>1
  <2>2. PICK i \in 1..Len(s) : s[i] = Answer(w, ok, data) BY <1>4
  <2>3. m \in Range(q) BY <1>6, <2>1, <2>2 DEF In
  <2> QED BY <2>1, <2>3
<1> QED BY <1>6, <1>8, <1>9

\* The variables hold values of the code.
ScreenTyped ==
  /\ height \in Nat /\ cleared \in Nat /\ cleared <= height /\ alive \in BOOLEAN
  /\ client \in [worker : Nat, asks : Nat, spawned : Nat]
  /\ asked \in [Ids -> AskRecord] /\ inbox \in Seq(ScreenMessage) /\ outbox \in Seq(ScreenWord)
  /\ table \in [ReadKeys -> EntryRecord] /\ fetches \in [1..MaxFetches -> FetchRecord]
  /\ \A f \in 1..MaxFetches : IsFiniteSet(fetches[f].waiting)
  /\ stored \in Int /\ disk \in [ReadKeys -> Int]

\* The client, or the worker before it, has heard that all before a height is cleared.
IsAnswered(id) == \E m \in Range(outbox) : m.id = id /\ m.kind # "update"
IsCleared(h) ==
  \/ h = cleared
  \/ \E id \in Ids : asked[id].kind = "clear" /\ asked[id].since = h /\ IsAnswered(id)

\* An ask that is pending was sent to a worker; only a clear is for a later height.
AsksAreRight ==
  \A id \in Ids : asked[id] # NoAsk =>
    /\ id <= client.asks /\ client.worker # 0 /\ asked[id].since <= height
    /\ asked[id].kind # "clear" => asked[id].since <= cleared
\* A message is about the ask of its id, which is still there unless it was cancelled.
InboxIsRight ==
  \A m \in Range(inbox) :
    /\ m.id <= client.asks
    /\ m.kind = "cancel" => asked[m.id] = NoAsk
    /\ asked[m.id] # NoAsk => asked[m.id].kind = m.kind
    /\ m.kind \in {"action", "subscribe", "prefetch"} => m.key \in ReadKeys
OutboxIsRight ==
  \A m \in Range(outbox) :
    m.id <= client.asks /\ (m.live /\ asked[m.id] # NoAsk => m.data >= asked[m.id].since)
\* Who awaits a read asked for it, after no clear that the read is older than.
FetchIsRight(r) ==
  /\ r.st = "running" => r.key \in ReadKeys
  /\ r.st # "running" => r.waiting = {}
  /\ \A who \in r.waiting :
       /\ who.id <= client.asks
       /\ asked[who.id] # NoAsk =>
            asked[who.id].kind = who.kind /\ (r.data = None \/ asked[who.id].since <= r.data)
FetchesAreRight == \A f \in 1..MaxFetches : FetchIsRight(fetches[f])
\* An entry that is not ready has a read of its own under way.
PendingRuns ==
  \A k \in ReadKeys : table[k].fetch # 0 /\ ~table[k].ready =>
    fetches[table[k].fetch].st = "running" /\ fetches[table[k].fetch].key = k
\* What the worker has is no older than what was cleared.
IsLate(h) ==
  /\ \A k \in ReadKeys :
       /\ table[k].ready => h <= table[k].data
       /\ table[k].fetch # 0 => fetches[table[k].fetch].data = None \/ h <= fetches[table[k].fetch].data
  /\ stored = None \/ h <= stored
DataIsLate == \A h \in Nat : IsCleared(h) => IsLate(h)
IsAwaited(id) ==
  \/ ~alive /\ client.worker # 0
  \/ \E m \in Range(inbox) : m.id = id
  \/ \E f \in 1..MaxFetches : \E who \in fetches[f].waiting : who.id = id
  \/ IsAnswered(id)
\* The answer to an ask that is pending will come, or the client is told that none will.
AsksAreAwaited == \A id \in Ids : asked[id] # NoAsk => IsAwaited(id)

\* The inductive invariant of the screens
ScreenInv ==
  /\ ScreenTyped /\ AsksAreRight /\ InboxIsRight /\ OutboxIsRight /\ FetchesAreRight /\ PendingRuns
  /\ DataIsLate /\ AsksAreAwaited

\* It holds at the beginning.
LEMMA ScreenStarts == ScreenInit => ScreenInv
<1> SUFFICES ASSUME ScreenInit PROVE ScreenInv OBVIOUS
<1> USE ScreenAssumption DEF ScreenInit
<1>1. NoAsk \in AskRecord /\ NoRead \in EntryRecord /\ NoFetch \in FetchRecord /\ NoFetch.waiting = {}
  BY DEF NoAsk, NoRead, NoFetch, AskRecord, EntryRecord, FetchRecord, None
<1>2. \A f \in 1..MaxFetches : IsFiniteSet(fetches[f].waiting) BY <1>1, FS_EmptySet
<1>3. ScreenTyped
  <2>1. <<>> \in Seq(ScreenMessage) /\ <<>> \in Seq(ScreenWord) OBVIOUS
  <2>2. client \in [worker : Nat, asks : Nat, spawned : Nat] OBVIOUS
  <2>3. /\ asked \in [Ids -> AskRecord] /\ table \in [ReadKeys -> EntryRecord]
        /\ fetches \in [1..MaxFetches -> FetchRecord]
    BY <1>1
  <2>4. stored \in Int /\ disk \in [ReadKeys -> Int] BY DEF None
  <2>5. height \in Nat /\ cleared \in Nat /\ cleared <= height OBVIOUS
  <2>6. alive \in BOOLEAN OBVIOUS
  <2> QED BY <1>2, <2>1, <2>2, <2>3, <2>4, <2>5, <2>6 DEF ScreenTyped
<1>4. Range(inbox) = {} /\ Range(outbox) = {} BY DEF Range
<1>5. AsksAreRight /\ AsksAreAwaited BY DEF AsksAreRight, AsksAreAwaited
<1>6. InboxIsRight /\ OutboxIsRight BY <1>4 DEF InboxIsRight, OutboxIsRight
<1>7. FetchesAreRight BY DEF FetchesAreRight, FetchIsRight, NoFetch
<1>8. DataIsLate /\ PendingRuns BY DEF DataIsLate, IsLate, NoRead, PendingRuns
<1> QED BY <1>3, <1>5, <1>6, <1>7, <1>8 DEF ScreenInv

\* It implies what the run checks.
LEMMA ScreensAreCurrent == ScreenInv => LiveIsCurrent /\ NobodyWaitsInVain
<1> SUFFICES ASSUME ScreenInv PROVE LiveIsCurrent /\ NobodyWaitsInVain OBVIOUS
<1>1. /\ \A n \in DOMAIN outbox : outbox[n] \in Range(outbox)
      /\ \A m \in Range(inbox) : \E n \in DOMAIN inbox : inbox[n] = m
      /\ \A m \in Range(outbox) : \E n \in DOMAIN outbox : outbox[n] = m
  BY DEF Range
<1>2. LiveIsCurrent BY <1>1 DEF ScreenInv, OutboxIsRight, LiveIsCurrent
<1>3. NobodyWaitsInVain BY <1>1 DEF ScreenInv, AsksAreAwaited, IsAwaited, IsAnswered, NobodyWaitsInVain
<1> QED BY <1>2, <1>3

\* Words for the client, and a message that the worker takes
LEMMA SaysMore ==
  ASSUME ScreenTyped, NEW q \in Seq(ScreenWord), outbox' = outbox \o q
  PROVE  outbox' \in Seq(ScreenWord) /\ Range(outbox') = Range(outbox) \cup Range(q)
<1>1. outbox \in Seq(ScreenWord) BY DEF ScreenTyped
<1> QED BY <1>1, InBoth DEF In

\* The first of a list, and the others
LEMMA FirstIsTaken ==
  ASSUME NEW T, NEW q \in Seq(T), q # <<>>, NEW r, r = Tail(q)
  PROVE  /\ Head(q) \in T /\ Head(q) \in Range(q) /\ r \in Seq(T)
         /\ Range(r) \subseteq Range(q) /\ Range(q) \subseteq Range(r) \cup {Head(q)}
<1>1. /\ Head(q) \in T /\ r \in Seq(T) /\ Len(r) = Len(q) - 1
      /\ \A i \in 1..Len(r) : r[i] = q[i + 1]
  BY HeadTailProperties
<1>2. Head(q) = q[1] /\ Len(q) \in Nat \ {0} OBVIOUS
<1>3. DOMAIN q = 1..Len(q) /\ DOMAIN r = 1..Len(r) BY <1>1
<1>4. ASSUME NEW i \in DOMAIN r PROVE r[i] \in Range(q)
  <2>1. i + 1 \in DOMAIN q BY <1>1, <1>2, <1>3
  <2> QED BY <1>1, <1>3, <2>1 DEF Range
<1>5. ASSUME NEW i \in DOMAIN q, i # 1 PROVE q[i] \in Range(r)
  <2>1. i - 1 \in DOMAIN r /\ r[i - 1] = q[i] BY <1>1, <1>2, <1>3, <1>5
  <2> QED BY <2>1 DEF Range
<1>6. Head(q) \in Range(q) BY <1>2, <1>3 DEF Range
<1> QED BY <1>1, <1>2, <1>4, <1>5, <1>6 DEF Range

LEMMA TakesOff ==
  ASSUME ScreenTyped, NEW m, Takes(m)
  PROVE  /\ m \in ScreenMessage /\ m \in Range(inbox) /\ inbox' \in Seq(ScreenMessage)
         /\ Range(inbox') \subseteq Range(inbox) /\ Range(inbox) \subseteq Range(inbox') \cup {m}
<1>1. inbox \in Seq(ScreenMessage) /\ inbox # <<>> /\ m = Head(inbox) /\ inbox' = Tail(inbox)
  BY DEF ScreenTyped, Takes
<1> QED BY <1>1, FirstIsTaken

\* A step of the worker: what it says is true, what it knows is late, and it drops no ask.
LEMMA WorkerStep ==
  ASSUME ScreenInv, UNCHANGED <<height, client, asked, alive, cleared>>,
         NEW q \in Seq(ScreenWord), outbox' = outbox \o q,
         \A m \in Range(q) :
           m.id <= client.asks /\ (m.live /\ asked[m.id] # NoAsk => m.data >= asked[m.id].since),
         \/ \A m \in Range(q) : asked[m.id].kind # "clear"
         \/ \A h \in Nat : IsLate(h)',
         inbox' \in Seq(ScreenMessage), Range(inbox') \subseteq Range(inbox),
         table' \in [ReadKeys -> EntryRecord], fetches' \in [1..MaxFetches -> FetchRecord],
         \A f \in 1..MaxFetches : IsFiniteSet(fetches[f].waiting)',
         stored' \in Int, disk' \in [ReadKeys -> Int],
         \A f \in 1..MaxFetches : FetchIsRight(fetches[f])', PendingRuns',
         \A h \in Nat : h <= height /\ IsLate(h) => IsLate(h)',
         \A id \in Ids : asked[id] # NoAsk /\ IsAwaited(id) => IsAwaited(id)'
  PROVE  ScreenInv'
<1> USE DEF ScreenInv
<1>1. outbox' \in Seq(ScreenWord) /\ Range(outbox') = Range(outbox) \cup Range(q) BY SaysMore
<1>2. ScreenTyped' BY <1>1 DEF ScreenTyped
<1>3. AsksAreRight' BY DEF AsksAreRight
<1>4. InboxIsRight' BY DEF InboxIsRight
<1>5. OutboxIsRight' BY <1>1 DEF OutboxIsRight
<1>6. FetchesAreRight' BY DEF FetchesAreRight
<1>7. DataIsLate'
  <2> SUFFICES ASSUME NEW h \in Nat, IsCleared(h)' PROVE IsLate(h)' BY DEF DataIsLate
  <2>1. CASE \A m \in Range(q) : asked[m.id].kind # "clear"
    <3>1. IsCleared(h) BY <1>1, <2>1 DEF IsCleared, IsAnswered
    <3>2. \A id \in Ids : asked[id].kind = "clear" => asked[id] # NoAsk BY DEF NoAsk
    <3>3. h <= height BY <3>1, <3>2 DEF IsCleared, AsksAreRight, ScreenTyped
    <3> QED BY <3>1, <3>3 DEF DataIsLate
  <2> QED BY <2>1
<1>8. AsksAreAwaited' BY DEF AsksAreAwaited
<1> QED BY <1>2, <1>3, <1>4, <1>5, <1>6, <1>7, <1>8

\* Nothing is said.
LEMMA SaysNothing ==
  ASSUME ScreenInv, UNCHANGED outbox
  PROVE  /\ <<>> \in Seq(ScreenWord) /\ outbox' = outbox \o <<>> /\ Range(<<>>) = {}
<1>1. outbox \in Seq(ScreenWord) BY DEF ScreenInv, ScreenTyped
<1> QED BY <1>1, ConcatEmptySeq DEF Range

\* An ask that awaits a read is for what is no older than the last clear.
LEMMA SinceCleared ==
  ASSUME ScreenInv, NEW id \in Ids, asked[id] # NoAsk, asked[id].kind # "clear"
  PROVE  /\ asked[id].since \in Nat /\ asked[id].since <= cleared /\ cleared <= height /\ IsLate(cleared)
<1>1. asked[id].since \in Nat BY DEF ScreenInv, ScreenTyped, AskRecord
<1> QED BY <1>1 DEF ScreenInv, ScreenTyped, AsksAreRight, DataIsLate, IsCleared

\* No clear awaits a read.
LEMMA WaitersAsk ==
  ASSUME ScreenTyped, NEW f \in 1..MaxFetches
  PROVE  \A who \in fetches[f].waiting : who \in WaiterRecord /\ who.id \in Ids /\ who.kind # "clear"
<1>1. fetches[f] \in FetchRecord BY DEF ScreenTyped
<1>2. fetches[f].waiting \subseteq WaiterRecord BY <1>1 DEF FetchRecord
<1> QED BY <1>2 DEF WaiterRecord

\* A read takes the data of the store, or of the chain.
LEMMA FetchReadsStep == ASSUME ScreenInv, NEW f \in 1..MaxFetches, FetchReads(f) PROVE ScreenInv'
<1> DEFINE data == IF stored = None THEN height ELSE stored
<1>1. /\ fetches[f].st = "running" /\ fetches[f].data = None
      /\ fetches' = [fetches EXCEPT ![f].data = data] /\ stored' = data
      /\ UNCHANGED <<height, client, asked, inbox, outbox, alive, table, disk, cleared>>
  BY DEF FetchReads
<1>2. ScreenTyped BY DEF ScreenInv
<1>3. data \in Int /\ \A h \in Nat : h <= height /\ IsLate(h) => h <= data
  BY <1>2 DEF ScreenTyped, IsLate
<1> HIDE DEF data
<1>4. /\ fetches' \in [1..MaxFetches -> FetchRecord]
      /\ fetches'[f].data = data /\ fetches'[f].st = "running" /\ fetches'[f].key = fetches[f].key
      /\ fetches'[f].waiting = fetches[f].waiting
      /\ \A g \in 1..MaxFetches : g # f => fetches'[g] = fetches[g]
  BY <1>1, <1>2, <1>3 DEF ScreenTyped, FetchRecord
<1>5. \A g \in 1..MaxFetches : fetches'[g].waiting = fetches[g].waiting BY <1>4
<1>6. ASSUME NEW g \in 1..MaxFetches PROVE FetchIsRight(fetches[g])'
  <2>1. FetchIsRight(fetches[g]) BY DEF ScreenInv, FetchesAreRight
  <2>2. CASE g # f BY <1>1, <1>4, <2>1, <2>2 DEF FetchIsRight
  <2>3. CASE g = f
    <3>1. ASSUME NEW who \in fetches[f].waiting, asked[who.id] # NoAsk
          PROVE  asked[who.id].kind = who.kind /\ asked[who.id].since <= data
      <4>1. who.id \in Ids /\ who.kind # "clear" BY <1>2, WaitersAsk
      <4>2. asked[who.id].kind = who.kind BY <2>1, <2>3, <3>1 DEF FetchIsRight
      <4>3. cleared \in Nat /\ cleared <= data BY <1>2, <1>3, <3>1, <4>1, <4>2, SinceCleared DEF ScreenTyped
      <4> QED BY <1>3, <3>1, <4>1, <4>2, <4>3, SinceCleared
    <3> QED BY <1>1, <1>4, <2>1, <2>3, <3>1 DEF FetchIsRight
  <2> QED BY <2>2, <2>3
<1>7. ASSUME NEW h \in Nat, h <= height, IsLate(h) PROVE IsLate(h)'
  <2>1. h <= data BY <1>3, <1>7
  <2>2. \A k \in ReadKeys : table[k].fetch # 0 => table[k].fetch \in 1..MaxFetches
    BY <1>2, ScreenAssumption DEF ScreenTyped, EntryRecord
  <2> QED BY <1>1, <1>4, <1>7, <2>1, <2>2 DEF IsLate
<1>8. ASSUME NEW id \in Ids, IsAwaited(id) PROVE IsAwaited(id)'
  BY <1>1, <1>5, <1>8 DEF IsAwaited, IsAnswered
<1>9. \A g \in 1..MaxFetches : IsFiniteSet(fetches[g].waiting)' BY <1>2, <1>5 DEF ScreenTyped
<1>10. PendingRuns'
  <2>1. \A g \in 1..MaxFetches : fetches'[g].st = fetches[g].st /\ fetches'[g].key = fetches[g].key BY <1>1, <1>4
  <2>2. \A k \in ReadKeys : table[k].fetch # 0 => table[k].fetch \in 1..MaxFetches
    BY <1>2, ScreenAssumption DEF ScreenTyped, EntryRecord
  <2> QED BY <1>1, <2>1, <2>2 DEF ScreenInv, PendingRuns
<1> QED BY <1>1, <1>2, <1>3, <1>4, <1>6, <1>7, <1>8, <1>9, <1>10, WorkerStep, SaysNothing DEF ScreenTyped

\* What those who await a read are told of it is true, and no clear is among them.
LEMMA ToldIsRight ==
  ASSUME ScreenInv, NEW f \in 1..MaxFetches, NEW ok \in BOOLEAN, ok => fetches[f].data # None,
         NEW q, q = Tells(fetches[f].waiting, ok, fetches[f].data)
  PROVE  /\ q \in Seq(ScreenWord)
         /\ \A m \in Range(q) :
              /\ m.id <= client.asks /\ asked[m.id].kind # "clear"
              /\ m.live /\ asked[m.id] # NoAsk => m.data >= asked[m.id].since
         /\ \A who \in fetches[f].waiting : \E m \in Range(q) : m.id = who.id /\ m.kind # "update"
<1> DEFINE W == fetches[f].waiting
           data == fetches[f].data
<1>1. W \in SUBSET WaiterRecord /\ IsFiniteSet(W) /\ data \in Int
  BY DEF ScreenInv, ScreenTyped, FetchRecord
<1>2. /\ \A who \in W : who.id \in Ids /\ who.kind # "clear"
      /\ FetchIsRight(fetches[f])
  BY WaitersAsk DEF ScreenInv, FetchesAreRight
<1>3. /\ q \in Seq(ScreenWord)
      /\ \A m \in Range(q) : \E w \in W : m.id = w.id /\ (m.live => ok /\ m.data = data)
      /\ \A w \in W : \E m \in Range(q) : m.id = w.id /\ m.kind = "result"
  <2>1. q = Tells(W, ok, data) OBVIOUS
  <2> HIDE DEF W, data
  <2> QED BY <1>1, <2>1, Telling
<1>4. ASSUME NEW m \in Range(q)
      PROVE  /\ m.id <= client.asks /\ asked[m.id].kind # "clear"
             /\ m.live /\ asked[m.id] # NoAsk => m.data >= asked[m.id].since
  <2>1. PICK w \in W : m.id = w.id /\ (m.live => ok /\ m.data = data) BY <1>3
  <2>2. w.id <= client.asks /\ w.kind # "clear" /\ w.id \in Ids BY <1>2 DEF FetchIsRight
  <2>3. asked[w.id] = NoAsk => asked[w.id].kind # "clear" BY DEF NoAsk
  <2>4. asked[w.id] # NoAsk => asked[w.id].kind = w.kind /\ (data = None \/ asked[w.id].since <= data)
    BY <1>2 DEF FetchIsRight
  <2>5. asked[w.id].since \in Nat BY <2>2 DEF ScreenInv, ScreenTyped, AskRecord
  <2>6. m.live => data # None BY <2>1
  <2> QED BY <1>1, <2>1, <2>2, <2>3, <2>4, <2>5, <2>6
<1> QED BY <1>3, <1>4

\* A read ends: who awaits it is told, and its entry is ready or removed.
LEMMA FetchEndsStep ==
  ASSUME ScreenInv, NEW f \in 1..MaxFetches, NEW ok \in BOOLEAN, FetchEnds(f, ok) PROVE ScreenInv'
<1> DEFINE key == fetches[f].key
           data == fetches[f].data
           q == WorkerTold(f, ok)
           over == [NoFetch EXCEPT !.st = "done"]
           made == IF ok THEN [fetch |-> f, ready |-> TRUE, data |-> data] ELSE NoRead
<1>1. /\ fetches[f].st = "running" /\ (ok => data # None)
      /\ table' = IF ~IsEntry(f) THEN table ELSE [table EXCEPT ![key] = made]
      /\ disk' = IF IsEntry(f) /\ ok /\ key \in SavedKeys THEN [disk EXCEPT ![key] = data] ELSE disk
      /\ fetches' = [fetches EXCEPT ![f] = over]
      /\ outbox' = outbox \o q
      /\ UNCHANGED <<height, client, asked, inbox, alive, stored, cleared>>
  BY DEF FetchEnds
<1>2. ScreenTyped BY DEF ScreenInv
<1>3. key \in ReadKeys /\ data \in Int BY <1>1, <1>2 DEF ScreenInv, FetchesAreRight, FetchIsRight, ScreenTyped, FetchRecord
<1>4. over \in FetchRecord /\ over.data = None /\ over.waiting = {} /\ over.st = "done"
  BY DEF NoFetch, FetchRecord, None
<1>5. /\ made \in EntryRecord /\ (made.ready => ok /\ made.data = data) /\ made.fetch \in {0, f}
  <2> DEFINE good == [fetch |-> f, ready |-> TRUE, data |-> data]
  <2>1. good \in EntryRecord /\ good.data = data /\ good.fetch = f BY <1>2, <1>3 DEF EntryRecord
  <2>2. NoRead \in EntryRecord /\ ~NoRead.ready /\ NoRead.fetch = 0 BY ScreenAssumption DEF NoRead, EntryRecord, None
  <2>3. (ok /\ made = good) \/ made = NoRead OBVIOUS
  <2> HIDE DEF good, made
  <2> QED BY <2>1, <2>2, <2>3
<1>6. /\ q \in Seq(ScreenWord)
      /\ \A m \in Range(q) :
           /\ m.id <= client.asks /\ asked[m.id].kind # "clear"
           /\ m.live /\ asked[m.id] # NoAsk => m.data >= asked[m.id].since
      /\ \A who \in fetches[f].waiting : \E m \in Range(q) : m.id = who.id /\ m.kind # "update"
  <2>1. q = Tells(fetches[f].waiting, ok, data) BY DEF WorkerTold, Tells
  <2> QED BY <1>1, <2>1, ToldIsRight
<1> HIDE DEF over, made, q
<1>7. /\ fetches' \in [1..MaxFetches -> FetchRecord] /\ fetches'[f] = over
      /\ \A g \in 1..MaxFetches : g # f => fetches'[g] = fetches[g]
  BY <1>1, <1>2, <1>4 DEF ScreenTyped
<1>8. /\ table' \in [ReadKeys -> EntryRecord]
      /\ \A k \in ReadKeys : table'[k] = IF k = key /\ table[key].fetch = f THEN made ELSE table[k]
  BY <1>1, <1>2, <1>3, <1>5 DEF ScreenTyped, IsEntry
<1>9. disk' \in [ReadKeys -> Int] BY <1>1, <1>2, <1>3 DEF ScreenTyped
<1>10. ASSUME NEW g \in 1..MaxFetches PROVE FetchIsRight(fetches[g])' /\ IsFiniteSet(fetches[g].waiting)'
  <2>1. FetchIsRight(fetches[g]) /\ IsFiniteSet(fetches[g].waiting) BY <1>2 DEF ScreenInv, FetchesAreRight, ScreenTyped
  <2>2. CASE g # f BY <1>1, <1>7, <2>1, <2>2 DEF FetchIsRight
  <2>3. CASE g = f BY <1>4, <1>7, <2>3, FS_EmptySet DEF FetchIsRight
  <2> QED BY <2>2, <2>3
<1>11. ASSUME NEW h \in Nat, IsLate(h) PROVE IsLate(h)'
  <2>1. ASSUME NEW k \in ReadKeys, table'[k].ready PROVE h <= table'[k].data
    <3>1. CASE k = key /\ table[key].fetch = f
      <4>1. ok /\ table'[k].data = data BY <1>5, <1>8, <2>1, <3>1
      <4>2. f # 0 BY <1>2
      <4>3. data = None \/ h <= data BY <1>11, <3>1, <4>2 DEF IsLate
      <4> QED BY <1>1, <4>1, <4>3
    <3>2. CASE ~(k = key /\ table[key].fetch = f) BY <1>8, <1>11, <2>1, <3>2 DEF IsLate
    <3> QED BY <3>1, <3>2
  <2>2. ASSUME NEW k \in ReadKeys, table'[k].fetch # 0
        PROVE  fetches'[table'[k].fetch].data = None \/ h <= fetches'[table'[k].fetch].data
    <3>1. CASE table'[k].fetch = f BY <1>4, <1>7, <3>1
    <3>2. CASE table'[k].fetch # f
      <4>1. table'[k] = table[k] BY <1>5, <1>8, <2>2, <3>2
      <4>2. table[k].fetch \in 1..MaxFetches BY <1>2, <2>2, <4>1, ScreenAssumption DEF ScreenTyped, EntryRecord
      <4> QED BY <1>7, <1>11, <2>2, <3>2, <4>1, <4>2 DEF IsLate
    <3> QED BY <3>1, <3>2
  <2> QED BY <1>1, <1>11, <2>1, <2>2 DEF IsLate
<1>12. ASSUME NEW id \in Ids, IsAwaited(id) PROVE IsAwaited(id)'
  <2>1. Range(outbox') = Range(outbox) \cup Range(q) BY <1>1, <1>2, <1>6, SaysMore
  <2>2. ASSUME NEW g \in 1..MaxFetches, NEW who \in fetches[g].waiting, who.id = id PROVE IsAwaited(id)'
    <3>1. CASE g = f BY <1>6, <2>1, <2>2, <3>1 DEF IsAwaited, IsAnswered
    <3>2. CASE g # f BY <1>7, <2>2, <3>2 DEF IsAwaited
    <3> QED BY <3>1, <3>2
  <2> QED BY <1>1, <1>12, <2>1, <2>2 DEF IsAwaited, IsAnswered
<1>13. inbox' \in Seq(ScreenMessage) /\ stored' \in Int BY <1>1, <1>2 DEF ScreenTyped
<1>14. PendingRuns'
  <2> SUFFICES ASSUME NEW k \in ReadKeys, table'[k].fetch # 0, ~table'[k].ready
               PROVE  fetches'[table'[k].fetch].st = "running" /\ fetches'[table'[k].fetch].key = k
    BY DEF PendingRuns
  <2>1. made.fetch = 0 \/ made.ready BY DEF made, NoRead
  <2>2. table'[k] = table[k] /\ ~(k = key /\ table[key].fetch = f) BY <1>8, <2>1
  <2>3. fetches[table[k].fetch].st = "running" /\ fetches[table[k].fetch].key = k
    BY <2>2 DEF ScreenInv, PendingRuns
  <2>4. table[k].fetch # f BY <2>2, <2>3
  <2>5. table[k].fetch \in 1..MaxFetches BY <1>2, <2>2, ScreenAssumption DEF ScreenTyped, EntryRecord
  <2> QED BY <1>7, <2>2, <2>3, <2>4, <2>5
<1> QED BY <1>1, <1>6, <1>7, <1>8, <1>9, <1>10, <1>11, <1>12, <1>13, <1>14, WorkerStep

\* A message more
LEMMA AppendsOne ==
  ASSUME NEW T, NEW q \in Seq(T), NEW x \in T
  PROVE  <<x>> \in Seq(T) /\ Range(<<x>>) = {x} /\ Append(q, x) = q \o <<x>>
BY DEF Range

\* A clear forgets the table and the cache store before it is answered.
LEMMA TakeClearStep == ASSUME ScreenInv, NEW m, TakeClear(m) PROVE ScreenInv'
<1> DEFINE x == Result(m.id)
<1>1. /\ Takes(m) /\ table' = [k \in ReadKeys |-> NoRead] /\ stored' = None /\ outbox' = Append(outbox, x)
      /\ UNCHANGED <<height, client, asked, alive, fetches, disk, cleared>>
  BY DEF TakeClear, ClearTable
<1>2. ScreenTyped BY DEF ScreenInv
<1>3. /\ m \in ScreenMessage /\ m \in Range(inbox) /\ inbox' \in Seq(ScreenMessage)
      /\ Range(inbox') \subseteq Range(inbox) /\ Range(inbox) \subseteq Range(inbox') \cup {m}
  BY <1>1, <1>2, TakesOff
<1>4. m.id \in Ids /\ m.id <= client.asks BY <1>3 DEF ScreenMessage, ScreenInv, InboxIsRight
<1>5. x \in ScreenWord /\ x.id = m.id /\ x.kind = "result" /\ ~x.live
  BY <1>4 DEF Result, WorkerSays, ScreenWord, None
<1> HIDE DEF x
<1>6. <<x>> \in Seq(ScreenWord) /\ Range(<<x>>) = {x} /\ outbox' = outbox \o <<x>>
  BY <1>1, <1>2, <1>5, AppendsOne DEF ScreenTyped
<1>7. NoRead \in EntryRecord /\ NoRead.fetch = 0 /\ ~NoRead.ready BY ScreenAssumption DEF NoRead, EntryRecord, None
<1>8. table' \in [ReadKeys -> EntryRecord] /\ stored' \in Int BY <1>1, <1>7 DEF None
<1>9. \A h \in Nat : IsLate(h)' BY <1>1, <1>7 DEF IsLate
<1>10. PendingRuns' BY <1>1, <1>7 DEF PendingRuns
<1>11. \A f \in 1..MaxFetches : FetchIsRight(fetches[f])' BY <1>1 DEF ScreenInv, FetchesAreRight, FetchIsRight
<1>12. ASSUME NEW id \in Ids, IsAwaited(id) PROVE IsAwaited(id)'
  <2>1. Range(outbox') = Range(outbox) \cup {x} BY <1>2, <1>6, SaysMore
  <2>2. CASE id = m.id BY <1>5, <2>1, <2>2 DEF IsAwaited, IsAnswered
  <2>3. CASE id # m.id BY <1>1, <1>3, <1>12, <2>1, <2>3 DEF IsAwaited, IsAnswered
  <2> QED BY <2>2, <2>3
<1> QED BY <1>1, <1>2, <1>3, <1>4, <1>5, <1>6, <1>8, <1>9, <1>10, <1>11, <1>12, WorkerStep DEF ScreenTyped

\* A cancelled subscription awaits nothing any more.
LEMMA TakeCancelStep == ASSUME ScreenInv, NEW m, TakeCancel(m) PROVE ScreenInv'
<1> DEFINE x == Result(m.id)
           q == <<x, x>>
<1>1. /\ Takes(m) /\ m.kind = "cancel" /\ outbox' = outbox \o q
      /\ fetches' = [f \in 1..MaxFetches |-> [fetches[f] EXCEPT !.waiting = {who \in @ : who.id # m.id}]]
      /\ UNCHANGED <<height, client, asked, alive, table, stored, disk, cleared>>
  BY DEF TakeCancel
<1>2. ScreenTyped BY DEF ScreenInv
<1>3. /\ m \in ScreenMessage /\ m \in Range(inbox) /\ inbox' \in Seq(ScreenMessage)
      /\ Range(inbox') \subseteq Range(inbox) /\ Range(inbox) \subseteq Range(inbox') \cup {m}
  BY <1>1, <1>2, TakesOff
<1>4. m.id \in Ids /\ m.id <= client.asks /\ asked[m.id] = NoAsk
  BY <1>1, <1>3 DEF ScreenMessage, ScreenInv, InboxIsRight
<1>5. x \in ScreenWord /\ x.id = m.id /\ ~x.live BY <1>4 DEF Result, WorkerSays, ScreenWord, None
<1> HIDE DEF x
<1>6. q \in Seq(ScreenWord) /\ Range(q) = {x} BY <1>5 DEF Range
<1> HIDE DEF q
<1>7. ASSUME NEW f \in 1..MaxFetches
      PROVE  /\ fetches'[f] \in FetchRecord /\ fetches'[f].st = fetches[f].st /\ fetches'[f].key = fetches[f].key
             /\ fetches'[f].data = fetches[f].data
             /\ fetches'[f].waiting = {who \in fetches[f].waiting : who.id # m.id}
  <2>1. fetches[f] \in FetchRecord BY <1>2 DEF ScreenTyped
  <2> DEFINE left == {who \in fetches[f].waiting : who.id # m.id}
  <2>2. left \in SUBSET WaiterRecord BY <2>1 DEF FetchRecord
  <2>3. fetches'[f] = [fetches[f] EXCEPT !.waiting = left] BY <1>1
  <2> HIDE DEF left
  <2>4. /\ fetches'[f] \in FetchRecord /\ fetches'[f].st = fetches[f].st /\ fetches'[f].key = fetches[f].key
        /\ fetches'[f].data = fetches[f].data /\ fetches'[f].waiting = left
    BY <2>1, <2>2, <2>3 DEF FetchRecord
  <2> QED BY <2>4 DEF left
<1>8. fetches' \in [1..MaxFetches -> FetchRecord] BY <1>1, <1>7
<1>9. ASSUME NEW f \in 1..MaxFetches PROVE FetchIsRight(fetches[f])' /\ IsFiniteSet(fetches[f].waiting)'
  <2>1. FetchIsRight(fetches[f]) /\ IsFiniteSet(fetches[f].waiting) BY <1>2 DEF ScreenInv, FetchesAreRight, ScreenTyped
  <2>2. fetches'[f].waiting \subseteq fetches[f].waiting BY <1>7
  <2>3. IsFiniteSet(fetches'[f].waiting) BY <2>1, <2>2, FS_Subset
  <2>4. FetchIsRight(fetches[f])' BY <1>1, <1>7, <2>1, <2>2 DEF FetchIsRight
  <2> QED BY <2>3, <2>4
<1>10. \A k \in ReadKeys : table[k].fetch # 0 => table[k].fetch \in 1..MaxFetches
  BY <1>2, ScreenAssumption DEF ScreenTyped, EntryRecord
<1>11. PendingRuns' BY <1>1, <1>7, <1>10 DEF ScreenInv, PendingRuns
<1>12. \A h \in Nat : IsLate(h) => IsLate(h)' BY <1>1, <1>7, <1>10 DEF IsLate
<1>13. ASSUME NEW id \in Ids, asked[id] # NoAsk, IsAwaited(id) PROVE IsAwaited(id)'
  <2>1. Range(outbox') = Range(outbox) \cup Range(q) BY <1>1, <1>2, <1>6, SaysMore
  <2>2. id # m.id BY <1>4, <1>13
  <2>3. \A f \in 1..MaxFetches : \A who \in fetches[f].waiting : who.id = id => who \in fetches'[f].waiting
    BY <1>7, <2>2
  <2> QED BY <1>1, <1>3, <1>13, <2>1, <2>2, <2>3 DEF IsAwaited, IsAnswered
<1>14. asked[m.id].kind # "clear" BY <1>4 DEF NoAsk
<1>15. table' \in [ReadKeys -> EntryRecord] /\ stored' \in Int /\ disk' \in [ReadKeys -> Int]
  BY <1>1, <1>2 DEF ScreenTyped
<1> QED BY <1>1, <1>3, <1>4, <1>5, <1>6, <1>8, <1>9, <1>11, <1>12, <1>13, <1>14, <1>15, WorkerStep

\* What is shown while a read is awaited, and who awaits it
ShownFor(m) ==
  CASE m.kind = "prefetch" -> <<Result(m.id)>>
    [] m.kind = "subscribe" /\ Waiter(m).snapshot # None ->
         <<WorkerSays("update", m.id, FALSE, Waiter(m).snapshot)>>
    [] OTHER -> <<>>
Joins(m) == IF m.kind = "prefetch" THEN {} ELSE {Waiter(m)}
\* A message that asks for data is about its own ask.
LEMMA ReadBegins ==
  ASSUME ScreenInv, NEW m, Takes(m), m.kind \in {"action", "subscribe", "prefetch"}
  PROVE  /\ m.id \in Ids /\ m.id <= client.asks /\ m.key \in ReadKeys
         /\ asked[m.id].kind # "clear" /\ (asked[m.id] # NoAsk => asked[m.id].kind = m.kind)
         /\ ShownFor(m) \in Seq(ScreenWord) /\ \A x \in Range(ShownFor(m)) : x.id = m.id /\ ~x.live
         /\ Joins(m) \in SUBSET WaiterRecord /\ IsFiniteSet(Joins(m))
         /\ \A who \in Joins(m) : who.id = m.id /\ who.kind = m.kind
         /\ Joins(m) = {} => \E x \in Range(ShownFor(m)) : x.id = m.id /\ x.kind # "update"
<1>1. ScreenTyped BY DEF ScreenInv
<1>2. m \in ScreenMessage /\ m \in Range(inbox) BY <1>1, TakesOff
<1>3. m.id \in Ids BY <1>2 DEF ScreenMessage
<1>4. m.id <= client.asks /\ m.key \in ReadKeys /\ (asked[m.id] # NoAsk => asked[m.id].kind = m.kind)
  BY <1>2 DEF ScreenInv, InboxIsRight
<1>5. asked[m.id].kind # "clear" BY <1>4 DEF NoAsk
<1> DEFINE shot == IF m.key \in SavedKeys THEN disk[m.key] ELSE None
           a == Result(m.id)
           b == WorkerSays("update", m.id, FALSE, shot)
<1>6. shot \in Int BY <1>1, <1>4 DEF ScreenTyped, None
<1>7. Waiter(m) = [id |-> m.id, kind |-> m.kind, snapshot |-> shot] BY DEF Waiter
<1> HIDE DEF shot
<1>8. Waiter(m).snapshot = shot /\ Waiter(m).id = m.id /\ Waiter(m).kind = m.kind BY <1>7
<1>9. /\ a \in ScreenWord /\ a.id = m.id /\ ~a.live /\ a.kind = "result"
      /\ b \in ScreenWord /\ b.id = m.id /\ ~b.live
  BY <1>3, <1>6 DEF Result, WorkerSays, ScreenWord, None
<1>10. /\ m.kind = "prefetch" => ShownFor(m) = <<a>>
       /\ ShownFor(m) \in {<<a>>, <<b>>, <<>>}
  BY <1>8 DEF ShownFor
<1> HIDE DEF a, b
<1>11. Range(<<a>>) = {a} /\ Range(<<b>>) = {b}
  <2>1. \A x : Range(<<x>>) = {x} BY DEF Range
  <2> QED BY <2>1
<1>12. /\ ShownFor(m) \in Seq(ScreenWord) /\ \A x \in Range(ShownFor(m)) : x.id = m.id /\ ~x.live
       /\ m.kind = "prefetch" => \E x \in Range(ShownFor(m)) : x.id = m.id /\ x.kind # "update"
  <2>1. <<a>> \in Seq(ScreenWord) /\ <<b>> \in Seq(ScreenWord) /\ <<>> \in Seq(ScreenWord) BY <1>9
  <2>2. CASE ShownFor(m) = <<a>> BY <1>9, <1>11, <2>1, <2>2
  <2>3. CASE ShownFor(m) = <<b>> /\ m.kind # "prefetch" BY <1>9, <1>11, <2>1, <2>3
  <2>4. CASE ShownFor(m) = <<>> /\ m.kind # "prefetch"
    <3>1. Range(ShownFor(m)) = {} BY <2>4 DEF Range
    <3> QED BY <2>1, <2>4, <3>1
  <2> QED BY <1>10, <2>2, <2>3, <2>4
<1>13. /\ Joins(m) \in SUBSET WaiterRecord /\ IsFiniteSet(Joins(m))
       /\ \A who \in Joins(m) : who.id = m.id /\ who.kind = m.kind
       /\ Joins(m) = {} => m.kind = "prefetch"
  <2>1. CASE m.kind = "prefetch" BY <2>1, FS_EmptySet DEF Joins
  <2>2. CASE m.kind # "prefetch"
    <3>1. Waiter(m) \in WaiterRecord BY <1>3, <1>6, <1>7, <2>2 DEF WaiterRecord
    <3> QED BY <1>8, <2>2, <3>1, FS_Singleton DEF Joins
  <2> QED BY <2>1, <2>2
<1> QED BY <1>3, <1>4, <1>5, <1>12, <1>13

\* An ask is answered from the table, joins the read there, or begins one.
LEMMA TakeReadStep == ASSUME ScreenInv, NEW m, TakeRead(m) PROVE ScreenInv'
<1> DEFINE who == Joins(m)
           shown == ShownFor(m)
           row == table[m.key]
<1>1. /\ Takes(m) /\ m.kind \in {"action", "subscribe", "prefetch"} /\ Run(m, who)
      /\ UNCHANGED <<height, client, asked, alive, disk, cleared>>
  BY DEF TakeRead, Joins
<1>2. ScreenTyped BY DEF ScreenInv
<1>3. /\ m.id \in Ids /\ m.id <= client.asks /\ m.key \in ReadKeys
      /\ asked[m.id].kind # "clear" /\ (asked[m.id] # NoAsk => asked[m.id].kind = m.kind)
      /\ shown \in Seq(ScreenWord) /\ \A x \in Range(shown) : x.id = m.id /\ ~x.live
      /\ who \in SUBSET WaiterRecord /\ IsFiniteSet(who)
      /\ \A w \in who : w.id = m.id /\ w.kind = m.kind
      /\ who = {} => \E x \in Range(shown) : x.id = m.id /\ x.kind # "update"
  BY <1>1, ReadBegins
<1>4. /\ inbox' \in Seq(ScreenMessage)
      /\ Range(inbox') \subseteq Range(inbox) /\ Range(inbox) \subseteq Range(inbox') \cup {m}
  BY <1>1, <1>2, TakesOff
<1>5. row \in EntryRecord /\ table \in [ReadKeys -> EntryRecord] BY <1>2, <1>3 DEF ScreenTyped
<1>6. row.fetch \in 0..MaxFetches /\ row.data \in Int BY <1>5 DEF EntryRecord
<1>7. asked[m.id] # NoAsk =>
        /\ asked[m.id].since \in Nat /\ asked[m.id].since <= cleared /\ cleared \in Nat /\ cleared <= height
        /\ IsLate(cleared)
  <2> DEFINE id == m.id
  <2>1. id \in Ids /\ asked[id].kind # "clear" BY <1>3
  <2>2. cleared \in Nat BY <1>2 DEF ScreenTyped
  <2> HIDE DEF id
  <2>3. asked[id] # NoAsk => /\ asked[id].since \in Nat /\ asked[id].since <= cleared /\ cleared <= height
                             /\ IsLate(cleared)
    BY <2>1, SinceCleared
  <2> QED BY <2>2, <2>3 DEF id
<1>8. \/ /\ Reusable(m.key, m.fresh) /\ row.ready
         /\ outbox' = outbox \o shown \o Tells(who, TRUE, row.data)
         /\ UNCHANGED WorkerState
      \/ /\ Reusable(m.key, m.fresh) /\ ~row.ready
         /\ fetches' = [fetches EXCEPT ![row.fetch].waiting = @ \cup who]
         /\ outbox' = outbox \o shown /\ UNCHANGED <<table, stored>>
      \/ /\ ~Reusable(m.key, m.fresh)
         /\ \E f \in 1..MaxFetches :
              /\ fetches[f].st = "none" /\ \A g \in 1..(f - 1) : fetches[g].st # "none"
              /\ fetches' = [fetches EXCEPT ![f] =
                   [st |-> "running", key |-> m.key, data |-> None, waiting |-> who]]
              /\ table' = [table EXCEPT ![m.key] = [NoRead EXCEPT !.fetch = f]]
         /\ stored' = IF m.fresh THEN None ELSE stored
         /\ outbox' = outbox \o shown
  BY <1>1 DEF Run, ShownFor, Tells
<1> HIDE DEF who, shown
<1>9. \A f : row.fetch = f /\ f # 0 => f \in 1..MaxFetches BY <1>6, ScreenAssumption
<1>10. \A k \in ReadKeys : table[k].fetch # 0 => table[k].fetch \in 1..MaxFetches
  BY <1>5, ScreenAssumption DEF EntryRecord
<1>11. stored \in Int /\ disk' \in [ReadKeys -> Int] BY <1>1, <1>2 DEF ScreenTyped
<1>12. CASE /\ Reusable(m.key, m.fresh) /\ row.ready
            /\ outbox' = outbox \o shown \o Tells(who, TRUE, row.data)
            /\ UNCHANGED WorkerState
  <2> DEFINE told == Tells(who, TRUE, row.data)
             q == shown \o told
  <2>1. UNCHANGED <<table, fetches, stored>> BY <1>12 DEF WorkerState
  <2>2. /\ told \in Seq(ScreenWord)
        /\ \A x \in Range(told) : \E w \in who : x.id = w.id /\ (x.live => x.data = row.data)
        /\ \A w \in who : \E x \in Range(told) : x.id = w.id /\ x.kind = "result"
    <3> DEFINE data == row.data
               ok == TRUE
    <3>1. data \in Int /\ told = Tells(who, ok, data) BY <1>6
    <3>2. ok \in BOOLEAN OBVIOUS
    <3> HIDE DEF data, told, ok
    <3>3. /\ told \in Seq(ScreenWord)
          /\ \A x \in Range(told) : \E w \in who : x.id = w.id /\ (x.live => ok /\ x.data = data)
          /\ \A w \in who : \E x \in Range(told) : x.id = w.id /\ x.kind = "result"
      BY <1>3, <3>1, <3>2, Telling
    <3> QED BY <3>3 DEF data
  <2>3. row.ready BY <1>12
  <2>4. outbox' = (outbox \o shown) \o told BY <1>12
  <2> HIDE DEF told, row
  <2>5. outbox \in Seq(ScreenWord) BY <1>2 DEF ScreenTyped
  <2>6. outbox' = outbox \o q BY <1>3, <2>2, <2>4, <2>5, ConcatAssociative
  <2>7. q \in Seq(ScreenWord) /\ Range(q) = Range(shown) \cup Range(told) BY <1>3, <2>2, InBoth DEF In
  <2> HIDE DEF q
  <2>8. ASSUME NEW x \in Range(q)
        PROVE  x.id = m.id /\ (x.live /\ asked[x.id] # NoAsk => x.data >= asked[x.id].since)
    <3>1. CASE x \in Range(shown) BY <1>3, <3>1
    <3>2. CASE x \in Range(told)
      <4>1. x.id = m.id /\ (x.live => x.data = row.data) BY <1>3, <2>2, <3>2
      <4>2. asked[m.id] # NoAsk => asked[m.id].since <= row.data BY <1>3, <1>6, <1>7, <2>3 DEF IsLate, row
      <4> QED BY <4>1, <4>2, <1>6, <1>7
    <3> QED BY <2>7, <3>1, <3>2
  <2>9. \E x \in Range(q) : x.id = m.id /\ x.kind # "update"
    <3>1. CASE who = {} BY <1>3, <2>7, <3>1
    <3>2. CASE who # {}
      <4>1. PICK w \in who : w.id = m.id BY <1>3, <3>2
      <4>2. PICK x \in Range(told) : x.id = m.id /\ x.kind = "result" BY <2>2, <4>1
      <4> QED BY <2>7, <4>2
    <3> QED BY <3>1, <3>2
  <2>10. ASSUME NEW id \in Ids, IsAwaited(id) PROVE IsAwaited(id)'
    <3>1. Range(outbox') = Range(outbox) \cup Range(q) BY <1>2, <2>6, <2>7, SaysMore
    <3>2. CASE id = m.id BY <2>9, <3>1, <3>2 DEF IsAwaited, IsAnswered
    <3>3. CASE id # m.id BY <1>1, <1>4, <2>1, <2>10, <3>1, <3>3 DEF IsAwaited, IsAnswered
    <3> QED BY <3>2, <3>3
  <2>11. /\ fetches' \in [1..MaxFetches -> FetchRecord] /\ PendingRuns'
         /\ \A f \in 1..MaxFetches : FetchIsRight(fetches[f])' /\ IsFiniteSet(fetches[f].waiting)'
    BY <1>1, <1>2, <2>1 DEF ScreenInv, ScreenTyped, FetchesAreRight, FetchIsRight, PendingRuns
  <2>12. \A h \in Nat : IsLate(h) => IsLate(h)' BY <2>1 DEF IsLate
  <2>13. table' \in [ReadKeys -> EntryRecord] /\ stored' \in Int BY <1>2, <2>1 DEF ScreenTyped
  <2> QED BY <1>1, <1>3, <1>4, <1>11, <2>6, <2>7, <2>8, <2>10, <2>11, <2>12, <2>13, WorkerStep
<1>13. ASSUME NEW x \in Range(shown)
       PROVE  x.id <= client.asks /\ asked[x.id].kind # "clear" /\ ~x.live
  BY <1>3
<1>14. ASSUME outbox' = outbox \o shown, NEW id \in Ids, IsAwaited(id),
              \A f \in 1..MaxFetches : fetches[f].waiting \subseteq fetches'[f].waiting,
              \E f \in 1..MaxFetches : who \subseteq fetches'[f].waiting
       PROVE  IsAwaited(id)'
  <2>1. Range(outbox') = Range(outbox) \cup Range(shown) BY <1>2, <1>3, <1>14, SaysMore
  <2>2. CASE id = m.id /\ who = {} BY <1>3, <2>1, <2>2 DEF IsAwaited, IsAnswered
  <2>3. CASE id = m.id /\ who # {}
    <3>1. PICK w \in who : w.id = id BY <1>3, <2>3
    <3> QED BY <1>14, <3>1 DEF IsAwaited
  <2>4. CASE id # m.id
    <3>1. CASE ~alive /\ client.worker # 0 BY <1>1, <3>1 DEF IsAwaited
    <3>2. CASE \E x \in Range(inbox) : x.id = id BY <1>4, <2>4, <3>2 DEF IsAwaited
    <3>3. CASE \E f \in 1..MaxFetches : \E w \in fetches[f].waiting : w.id = id
      BY <1>14, <3>3 DEF IsAwaited
    <3>4. CASE IsAnswered(id) BY <2>1, <3>4 DEF IsAwaited, IsAnswered
    <3> QED BY <1>14, <3>1, <3>2, <3>3, <3>4 DEF IsAwaited
  <2> QED BY <2>2, <2>3, <2>4
<1>15. CASE /\ Reusable(m.key, m.fresh) /\ ~row.ready
            /\ fetches' = [fetches EXCEPT ![row.fetch].waiting = @ \cup who]
            /\ outbox' = outbox \o shown /\ UNCHANGED <<table, stored>>
  <2> DEFINE f == row.fetch
             more == fetches[f].waiting \cup who
  <2>1. f # 0 /\ f \in 1..MaxFetches /\ ~row.ready BY <1>9, <1>15 DEF Reusable
  <2>2. fetches[f].st = "running" /\ fetches[f].key = m.key BY <1>3, <2>1 DEF ScreenInv, PendingRuns
  <2>3. fetches[f] \in FetchRecord /\ IsFiniteSet(fetches[f].waiting) BY <1>2, <2>1 DEF ScreenTyped
  <2>4. more \in SUBSET WaiterRecord BY <1>3, <2>3 DEF FetchRecord
  <2>5. IsFiniteSet(more) BY <1>3, <2>3, FS_Union
  <2>6. fetches' = [fetches EXCEPT ![f].waiting = more] BY <1>15
  <2>7. more = fetches[f].waiting \cup who OBVIOUS
  <2>8. fetches[f].data = None \/ (asked[m.id] # NoAsk => asked[m.id].since <= fetches[f].data)
    <3>1. fetches[f].data \in Int BY <2>3 DEF FetchRecord
    <3> QED BY <1>3, <1>7, <2>1, <3>1 DEF IsLate
  <2> HIDE DEF f, more
  <2>9. /\ fetches' \in [1..MaxFetches -> FetchRecord]
        /\ fetches'[f].st = "running" /\ fetches'[f].key = fetches[f].key /\ fetches'[f].data = fetches[f].data
        /\ fetches'[f].waiting = more /\ \A g \in 1..MaxFetches : g # f => fetches'[g] = fetches[g]
    BY <1>2, <2>1, <2>2, <2>4, <2>6 DEF ScreenTyped, FetchRecord
  <2>10. ASSUME NEW g \in 1..MaxFetches PROVE FetchIsRight(fetches[g])' /\ IsFiniteSet(fetches[g].waiting)'
    <3>1. FetchIsRight(fetches[g]) /\ IsFiniteSet(fetches[g].waiting)
      BY <1>2 DEF ScreenInv, FetchesAreRight, ScreenTyped
    <3>2. CASE g # f BY <1>1, <2>9, <3>1, <3>2 DEF FetchIsRight
    <3>3. CASE g = f
      <4>1. ASSUME NEW w \in more
            PROVE  /\ w.id <= client.asks
                   /\ asked[w.id] # NoAsk =>
                        asked[w.id].kind = w.kind /\ (fetches[f].data = None \/ asked[w.id].since <= fetches[f].data)
        <5>1. CASE w \in who BY <1>3, <2>8, <5>1
        <5>2. CASE w \in fetches[f].waiting BY <3>1, <3>3, <5>2 DEF FetchIsRight
        <5> QED BY <2>7, <5>1, <5>2
      <4>2. FetchIsRight(fetches[g])' BY <1>1, <1>3, <2>2, <2>9, <3>3, <4>1 DEF FetchIsRight
      <4> QED BY <2>5, <2>9, <3>3, <4>2
    <3> QED BY <3>2, <3>3
  <2>11. /\ \A g \in 1..MaxFetches : fetches[g].waiting \subseteq fetches'[g].waiting
         /\ who \subseteq fetches'[f].waiting
    BY <2>7, <2>9
  <2>12. \A g \in 1..MaxFetches : /\ fetches'[g].st = fetches[g].st /\ fetches'[g].key = fetches[g].key
                                    /\ fetches'[g].data = fetches[g].data
    BY <2>2, <2>9
  <2>13. PendingRuns' BY <1>10, <1>15, <2>12 DEF ScreenInv, PendingRuns
  <2>14. \A h \in Nat : IsLate(h) => IsLate(h)' BY <1>10, <1>15, <2>12 DEF IsLate
  <2>15. \A id \in Ids : IsAwaited(id) => IsAwaited(id)' BY <1>14, <1>15, <2>1, <2>11
  <2>16. table' \in [ReadKeys -> EntryRecord] /\ stored' \in Int BY <1>5, <1>11, <1>15
  <2> QED BY <1>1, <1>3, <1>4, <1>11, <1>13, <1>15, <2>9, <2>10, <2>13, <2>14, <2>15, <2>16, WorkerStep, Zenon
<1>16. ASSUME ~Reusable(m.key, m.fresh), NEW f \in 1..MaxFetches, fetches[f].st = "none",
              fetches' = [fetches EXCEPT ![f] =
                           [st |-> "running", key |-> m.key, data |-> None, waiting |-> who]],
              table' = [table EXCEPT ![m.key] = [NoRead EXCEPT !.fetch = f]],
              stored' = IF m.fresh THEN None ELSE stored, outbox' = outbox \o shown
       PROVE  ScreenInv'
  <2> DEFINE begun == [st |-> "running", key |-> m.key, data |-> None, waiting |-> who]
             put == [NoRead EXCEPT !.fetch = f]
  <2>1. begun \in FetchRecord /\ begun.st = "running" /\ begun.key = m.key /\ begun.data = None /\ begun.waiting = who
    BY <1>3 DEF FetchRecord, None
  <2>2. put \in EntryRecord /\ put.fetch = f /\ ~put.ready
    <3>1. NoRead \in EntryRecord /\ NoRead.ready = FALSE BY ScreenAssumption DEF NoRead, EntryRecord, None
    <3>2. f \in 0..MaxFetches BY ScreenAssumption
    <3> QED BY <3>1, <3>2 DEF EntryRecord
  <2>3. fetches' = [fetches EXCEPT ![f] = begun] /\ table' = [table EXCEPT ![m.key] = put] BY <1>16
  <2> HIDE DEF begun, put
  <2>4. /\ fetches' \in [1..MaxFetches -> FetchRecord] /\ fetches'[f] = begun
        /\ \A g \in 1..MaxFetches : g # f => fetches'[g] = fetches[g]
    BY <1>2, <2>1, <2>3 DEF ScreenTyped
  <2>5. /\ table' \in [ReadKeys -> EntryRecord] /\ table'[m.key] = put
        /\ \A k \in ReadKeys : k # m.key => table'[k] = table[k]
    BY <1>3, <1>5, <2>2, <2>3
  <2>6. FetchIsRight(fetches[f]) /\ IsFiniteSet(fetches[f].waiting)
    BY <1>2 DEF ScreenInv, FetchesAreRight, ScreenTyped
  <2>7. fetches[f].waiting = {} BY <1>16, <2>6 DEF FetchIsRight
  <2>8. ASSUME NEW g \in 1..MaxFetches PROVE FetchIsRight(fetches[g])' /\ IsFiniteSet(fetches[g].waiting)'
    <3>1. FetchIsRight(fetches[g]) /\ IsFiniteSet(fetches[g].waiting)
      BY <1>2 DEF ScreenInv, FetchesAreRight, ScreenTyped
    <3>2. CASE g # f BY <1>1, <2>4, <3>1, <3>2 DEF FetchIsRight
    <3>3. CASE g = f BY <1>1, <1>3, <2>1, <2>4, <3>3 DEF FetchIsRight
    <3> QED BY <3>2, <3>3
  <2>9. /\ \A g \in 1..MaxFetches : fetches[g].waiting \subseteq fetches'[g].waiting
        /\ who \subseteq fetches'[f].waiting
    BY <2>1, <2>4, <2>7
  <2>10. PendingRuns'
    <3> SUFFICES ASSUME NEW k \in ReadKeys, table'[k].fetch # 0, ~table'[k].ready
                 PROVE  fetches'[table'[k].fetch].st = "running" /\ fetches'[table'[k].fetch].key = k
      BY DEF PendingRuns
    <3>1. CASE k = m.key BY <2>1, <2>2, <2>4, <2>5, <3>1
    <3>2. CASE k # m.key
      <4>1. table'[k] = table[k] BY <2>5, <3>2
      <4>2. fetches[table[k].fetch].st = "running" /\ fetches[table[k].fetch].key = k
        BY <4>1 DEF ScreenInv, PendingRuns
      <4>3. table[k].fetch # f BY <1>16, <4>2
      <4>4. table[k].fetch \in 1..MaxFetches BY <1>10, <4>1
      <4> QED BY <2>4, <4>1, <4>2, <4>3, <4>4
    <3> QED BY <3>1, <3>2
  <2>11. ASSUME NEW h \in Nat, IsLate(h) PROVE IsLate(h)'
    <3>1. ASSUME NEW k \in ReadKeys, table'[k].ready PROVE h <= table'[k].data
      <4>1. k # m.key BY <2>2, <2>5, <3>1
      <4> QED BY <2>5, <2>11, <3>1, <4>1 DEF IsLate
    <3>2. ASSUME NEW k \in ReadKeys, table'[k].fetch # 0
          PROVE  fetches'[table'[k].fetch].data = None \/ h <= fetches'[table'[k].fetch].data
      <4>1. CASE table'[k].fetch = f BY <2>1, <2>4, <4>1
      <4>2. CASE table'[k].fetch # f
        <5>1. k # m.key BY <2>2, <2>5, <4>2
        <5>2. table'[k] = table[k] BY <2>5, <5>1
        <5>3. table[k].fetch \in 1..MaxFetches BY <1>10, <3>2, <5>2
        <5> QED BY <2>4, <2>11, <3>2, <4>2, <5>2, <5>3 DEF IsLate
      <4> QED BY <4>1, <4>2
    <3>3. stored' = None \/ h <= stored' BY <1>16, <2>11 DEF IsLate
    <3> QED BY <3>1, <3>2, <3>3 DEF IsLate
  <2>12. \A id \in Ids : IsAwaited(id) => IsAwaited(id)' BY <1>14, <1>16, <2>9
  <2>13. stored' \in Int BY <1>11, <1>16 DEF None
  <2> QED BY <1>1, <1>3, <1>4, <1>11, <1>13, <1>16, <2>4, <2>5, <2>8, <2>10, <2>11, <2>12, <2>13, WorkerStep
<1> QED BY <1>8, <1>12, <1>15, <1>16

\* What expires is forgotten.
LEMMA ExpireStep == ASSUME ScreenInv, Expire PROVE ScreenInv'
<1>1. /\ UNCHANGED <<height, client, asked, inbox, outbox, alive, fetches, cleared>>
      /\ \/ \E k \in ReadKeys : table' = [table EXCEPT ![k] = NoRead] /\ UNCHANGED <<stored, disk>>
         \/ stored' = None /\ UNCHANGED <<table, disk>>
  BY DEF Expire
<1>2. ScreenTyped BY DEF ScreenInv
<1>3. NoRead \in EntryRecord /\ NoRead.fetch = 0 /\ ~NoRead.ready BY ScreenAssumption DEF NoRead, EntryRecord, None
<1>4. /\ table' \in [ReadKeys -> EntryRecord] /\ \A k \in ReadKeys : table'[k] \in {table[k], NoRead}
      /\ stored' \in {stored, None} /\ stored' \in Int /\ disk' \in [ReadKeys -> Int]
  <2>1. table \in [ReadKeys -> EntryRecord] /\ stored \in Int /\ disk \in [ReadKeys -> Int] /\ None \in Int
    BY <1>2 DEF ScreenTyped, None
  <2>2. CASE \E k \in ReadKeys : table' = [table EXCEPT ![k] = NoRead] /\ UNCHANGED <<stored, disk>>
    <3>1. PICK k \in ReadKeys : table' = [table EXCEPT ![k] = NoRead] BY <2>2
    <3>2. table' \in [ReadKeys -> EntryRecord] BY <1>3, <2>1, <3>1
    <3>3. \A l \in ReadKeys : table'[l] \in {table[l], NoRead} BY <2>1, <3>1
    <3> QED BY <2>1, <2>2, <3>2, <3>3
  <2>3. CASE stored' = None /\ UNCHANGED <<table, disk>> BY <2>1, <2>3
  <2> QED BY <1>1, <2>2, <2>3
<1>5. /\ \A f \in 1..MaxFetches : FetchIsRight(fetches[f])' /\ IsFiniteSet(fetches[f].waiting)'
      /\ fetches' \in [1..MaxFetches -> FetchRecord] /\ inbox' \in Seq(ScreenMessage)
  BY <1>1, <1>2 DEF ScreenInv, ScreenTyped, FetchesAreRight, FetchIsRight
<1>6. PendingRuns' BY <1>1, <1>3, <1>4 DEF ScreenInv, PendingRuns
<1>7. \A h \in Nat : IsLate(h) => IsLate(h)' BY <1>1, <1>3, <1>4 DEF IsLate
<1>8. \A id \in Ids : IsAwaited(id) => IsAwaited(id)' BY <1>1 DEF IsAwaited, IsAnswered
<1> QED BY <1>1, <1>4, <1>5, <1>6, <1>7, <1>8, WorkerStep, SaysNothing

\* A worker that is gone, or new, knows nothing.
LEMMA KnowsNothing ==
  ASSUME NothingKnown
  PROVE  /\ table' \in [ReadKeys -> EntryRecord] /\ fetches' \in [1..MaxFetches -> FetchRecord] /\ stored' \in Int
         /\ \A f \in 1..MaxFetches : FetchIsRight(fetches[f])' /\ IsFiniteSet(fetches[f].waiting)'
         /\ \A h : IsLate(h)' /\ PendingRuns'
<1>1. /\ stored' = None /\ table' = [k \in ReadKeys |-> NoRead] /\ fetches' = [f \in 1..MaxFetches |-> NoFetch]
  BY DEF NothingKnown
<1>2. NoRead \in EntryRecord /\ NoRead.fetch = 0 /\ ~NoRead.ready BY ScreenAssumption DEF NoRead, EntryRecord, None
<1>3. NoFetch \in FetchRecord /\ NoFetch.waiting = {} /\ NoFetch.st = "none" BY DEF NoFetch, FetchRecord, None
<1>4. /\ table' \in [ReadKeys -> EntryRecord] /\ fetches' \in [1..MaxFetches -> FetchRecord] /\ stored' \in Int
  BY <1>1, <1>2, <1>3 DEF None
<1>5. \A f \in 1..MaxFetches : FetchIsRight(fetches[f])' /\ IsFiniteSet(fetches[f].waiting)'
  BY <1>1, <1>3, FS_EmptySet DEF FetchIsRight
<1>6. \A h : IsLate(h)' BY <1>1, <1>2 DEF IsLate
<1>7. PendingRuns' BY <1>1, <1>2 DEF PendingRuns
<1> QED BY <1>4, <1>5, <1>6, <1>7

\* The worker dies, and the client hears of it.
LEMMA DiesStep == ASSUME ScreenInv, WorkerDies PROVE ScreenInv'
<1> USE DEF ScreenInv
<1>1. /\ alive' = FALSE /\ NothingKnown /\ UNCHANGED <<height, client, asked, inbox, outbox, disk, cleared>>
  BY DEF WorkerDies
<1>2. ScreenTyped' BY <1>1, KnowsNothing DEF ScreenTyped
<1>3. AsksAreRight' /\ InboxIsRight' /\ OutboxIsRight'
  BY <1>1 DEF AsksAreRight, InboxIsRight, OutboxIsRight
<1>4. FetchesAreRight' /\ DataIsLate' /\ PendingRuns' BY <1>1, KnowsNothing DEF FetchesAreRight, DataIsLate
<1>5. AsksAreAwaited' BY <1>1 DEF AsksAreAwaited, AsksAreRight, IsAwaited
<1> QED BY <1>2, <1>3, <1>4, <1>5

\* The client rejects what it asked of a worker that is gone.
LEMMA StopStep == ASSUME ScreenInv, StopWorker PROVE ScreenInv'
<1> USE DEF ScreenInv
<1>1. /\ client' = [client EXCEPT !.worker = 0] /\ asked' = [id \in Ids |-> NoAsk]
      /\ inbox' = <<>> /\ outbox' = <<>>
      /\ UNCHANGED <<height, alive, table, fetches, stored, disk, cleared>>
  BY DEF StopWorker, RejectAsks, WorkerState
<1>2. client' \in [worker : Nat, asks : Nat, spawned : Nat] /\ client'.asks = client.asks
  BY <1>1 DEF ScreenTyped
<1>3. NoAsk \in AskRecord /\ NoAsk.kind # "clear" BY DEF NoAsk, AskRecord
<1>4. /\ asked' \in [Ids -> AskRecord] /\ inbox' \in Seq(ScreenMessage) /\ outbox' \in Seq(ScreenWord)
      /\ Range(inbox') = {} /\ Range(outbox') = {}
  BY <1>1, <1>3 DEF Range
<1>5. ScreenTyped' BY <1>1, <1>2, <1>4 DEF ScreenTyped
<1>6. AsksAreRight' /\ AsksAreAwaited' BY <1>1 DEF AsksAreRight, AsksAreAwaited
<1>7. InboxIsRight' /\ OutboxIsRight' BY <1>4 DEF InboxIsRight, OutboxIsRight
<1>8. FetchesAreRight'
  <2>1. ASSUME NEW f \in 1..MaxFetches PROVE FetchIsRight(fetches[f])'
    <3>1. FetchIsRight(fetches[f]) BY DEF FetchesAreRight
    <3>2. \A who \in fetches[f].waiting : asked'[who.id] = NoAsk BY <1>1, WaitersAsk
    <3> QED BY <1>1, <1>2, <3>1, <3>2 DEF FetchIsRight
  <2> QED BY <2>1 DEF FetchesAreRight
<1>9. DataIsLate'
  <2> SUFFICES ASSUME NEW h \in Nat, IsCleared(h)' PROVE IsLate(h)' BY DEF DataIsLate
  <2>1. h = cleared BY <1>1, <1>3 DEF IsCleared
  <2>2. IsLate(h) BY <2>1 DEF DataIsLate, IsCleared
  <2> QED BY <1>1, <2>2 DEF IsLate
<1>10. PendingRuns' BY <1>1 DEF PendingRuns
<1> QED BY <1>5, <1>6, <1>7, <1>8, <1>9, <1>10

\* A transaction is mined, or nothing happens.
LEMMA BroadcastStep == ASSUME ScreenInv, Broadcast \/ UNCHANGED screenVars PROVE ScreenInv'
<1> USE DEF ScreenInv
<1>1. /\ height' \in {height, height + 1}
      /\ UNCHANGED <<client, asked, inbox, outbox, alive, table, fetches, stored, disk, cleared>>
  BY DEF Broadcast, screenVars, WorkerState
<1>2. height' \in Nat /\ height <= height' BY <1>1 DEF ScreenTyped
<1>3. ScreenTyped' BY <1>1, <1>2 DEF ScreenTyped
<1>4. AsksAreRight'
  <2>1. \A id \in Ids : asked[id].since \in Nat BY DEF ScreenTyped, AskRecord
  <2>2. height \in Nat BY DEF ScreenTyped
  <2> QED BY <1>1, <1>2, <2>1, <2>2 DEF AsksAreRight
<1>5. InboxIsRight' /\ OutboxIsRight' BY <1>1 DEF InboxIsRight, OutboxIsRight
<1>6. FetchesAreRight' /\ PendingRuns' BY <1>1 DEF FetchesAreRight, FetchIsRight, PendingRuns
<1>7. DataIsLate' BY <1>1 DEF DataIsLate, IsLate, IsCleared, IsAnswered
<1>8. AsksAreAwaited' BY <1>1 DEF AsksAreAwaited, IsAwaited, IsAnswered
<1> QED BY <1>3, <1>4, <1>5, <1>6, <1>7, <1>8

\* A new ask has an id that nothing said or awaited is about.
LEMMA ClientAskStep ==
  ASSUME ScreenInv, NEW kind \in Kinds, NEW key \in ReadKeys \cup {NoKey}, NEW fresh \in BOOLEAN,
         kind # "clear" => key \in ReadKeys, Ask(kind, key, fresh)
  PROVE  ScreenInv'
<1> DEFINE id == client.asks + 1
           w == IF client.worker = 0 THEN client.spawned + 1 ELSE client.worker
           message == [kind |-> kind, id |-> id, key |-> key, fresh |-> fresh]
           since == IF kind = "clear" THEN height ELSE cleared
           new == [kind |-> kind, key |-> key, worker |-> w, since |-> since]
           spawned == IF client.worker = 0 THEN w ELSE client.spawned
<1>1. /\ id \in Ids
      /\ client' = [client EXCEPT !.asks = id, !.worker = w, !.spawned = spawned]
      /\ asked' = [asked EXCEPT ![id] = new]
      /\ \/ client.worker = 0 /\ NothingKnown /\ alive' = TRUE /\ inbox' = <<message>>
         \/ /\ client.worker # 0 /\ UNCHANGED <<alive, table, fetches, stored>>
            /\ inbox' = Append(inbox, message)
      /\ UNCHANGED <<height, outbox, disk, cleared>>
  BY DEF Ask, WorkerState
<1>2. ScreenTyped BY DEF ScreenInv
<1>3. /\ client.worker \in Nat /\ client.asks \in Nat /\ client.spawned \in Nat
      /\ height \in Nat /\ cleared \in Nat /\ cleared <= height
  BY <1>2 DEF ScreenTyped
<1>4. w \in Nat /\ w # 0 /\ spawned \in Nat /\ id \in Nat BY <1>3
<1>5. since \in Nat /\ since <= height /\ (kind # "clear" => since <= cleared) /\ (kind = "clear" => since = height)
  BY <1>3
<1> HIDE DEF w, since, spawned
<1>6. new \in AskRecord /\ new.kind = kind /\ new.since = since BY <1>4, <1>5 DEF AskRecord
<1>7. message \in ScreenMessage /\ message.id = id /\ message.kind = kind /\ message.key = key
  BY <1>1 DEF ScreenMessage
<1> HIDE DEF message, new
<1>8. client' \in [worker : Nat, asks : Nat, spawned : Nat] /\ client'.asks = id /\ client'.worker = w
  BY <1>1, <1>2, <1>4 DEF ScreenTyped
<1>9. /\ asked' \in [Ids -> AskRecord] /\ asked'[id] = new
      /\ \A i \in Ids : i # id => asked'[i] = asked[i]
  BY <1>1, <1>2, <1>6 DEF ScreenTyped
<1>10. \A n \in Nat : n <= client.asks => n <= client'.asks /\ n # id BY <1>3, <1>8
<1>11. Ids \subseteq Nat BY DEF Ids
<1> HIDE DEF id
<1>12. /\ inbox' \in Seq(ScreenMessage) /\ message \in Range(inbox')
       /\ Range(inbox') \subseteq Range(inbox) \cup {message}
       /\ client.worker # 0 => Range(inbox) \subseteq Range(inbox')
  <2>1. <<message>> \in Seq(ScreenMessage) /\ Range(<<message>>) = {message} BY <1>7 DEF Range
  <2>2. CASE inbox' = <<message>> /\ client.worker = 0 BY <2>1, <2>2
  <2>3. CASE inbox' = Append(inbox, message)
    <3>1. inbox \in Seq(ScreenMessage) BY <1>2 DEF ScreenTyped
    <3>2. inbox' = inbox \o <<message>> BY <1>7, <2>3, <3>1, AppendsOne
    <3> QED BY <2>1, <3>1, <3>2, InBoth DEF In
  <2> QED BY <1>1, <2>2, <2>3
<1>13. \A m \in Range(inbox) : m \in ScreenMessage /\ m.id \in Ids /\ m.id <= client.asks
  <2>1. \A m \in Range(inbox) : m \in ScreenMessage BY <1>2 DEF ScreenTyped, Range
  <2> QED BY <2>1 DEF ScreenMessage, ScreenInv, InboxIsRight
<1>14. \A m \in Range(outbox) : m \in ScreenWord /\ m.id \in Ids /\ m.id <= client.asks
  <2>1. \A m \in Range(outbox) : m \in ScreenWord BY <1>2 DEF ScreenTyped, Range
  <2> QED BY <2>1 DEF ScreenWord, ScreenInv, OutboxIsRight
<1>15. ScreenTyped' /\ FetchesAreRight' /\ PendingRuns' /\ \A h \in Nat : IsLate(h) => IsLate(h)'
  <2>1. CASE client.worker = 0 /\ NothingKnown /\ alive' = TRUE
    <3>1. ScreenTyped' BY <1>1, <1>2, <1>8, <1>9, <1>12, <2>1, KnowsNothing DEF ScreenTyped
    <3> QED BY <2>1, <3>1, KnowsNothing DEF FetchesAreRight
  <2>2. CASE UNCHANGED <<alive, table, fetches, stored>>
    <3>1. ScreenTyped' BY <1>1, <1>2, <1>8, <1>9, <1>12, <2>2 DEF ScreenTyped
    <3>2. ASSUME NEW f \in 1..MaxFetches PROVE FetchIsRight(fetches[f])'
      <4>1. FetchIsRight(fetches[f]) BY DEF ScreenInv, FetchesAreRight
      <4>2. \A who \in fetches[f].waiting : who.id <= client'.asks /\ who.id \in Ids /\ who.id # id
        BY <1>2, <1>10, <1>11, <4>1, WaitersAsk DEF FetchIsRight
      <4> QED BY <1>9, <2>2, <4>1, <4>2 DEF FetchIsRight
    <3>3. PendingRuns' BY <2>2 DEF ScreenInv, PendingRuns
    <3>4. \A h \in Nat : IsLate(h) => IsLate(h)' BY <2>2 DEF IsLate
    <3> QED BY <3>1, <3>2, <3>3, <3>4 DEF FetchesAreRight
  <2> QED BY <1>1, <2>1, <2>2
<1>16. AsksAreRight'
  <2> SUFFICES ASSUME NEW i \in Ids, asked'[i] # NoAsk
               PROVE  /\ i <= client'.asks /\ client'.worker # 0 /\ asked'[i].since <= height
                      /\ asked'[i].kind # "clear" => asked'[i].since <= cleared
    BY <1>1 DEF AsksAreRight
  <2>1. CASE i = id BY <1>4, <1>5, <1>6, <1>8, <1>9, <2>1
  <2>2. CASE i # id
    <3>1. asked'[i] = asked[i] BY <1>9, <2>2
    <3>2. i \in Nat /\ i <= client.asks BY <1>11, <3>1 DEF ScreenInv, AsksAreRight
    <3> QED BY <1>4, <1>8, <1>10, <3>1, <3>2 DEF ScreenInv, AsksAreRight
  <2> QED BY <2>1, <2>2
<1>17. InboxIsRight'
  <2> SUFFICES ASSUME NEW m \in Range(inbox')
               PROVE  /\ m.id <= client'.asks
                      /\ m.kind = "cancel" => asked'[m.id] = NoAsk
                      /\ asked'[m.id] # NoAsk => asked'[m.id].kind = m.kind
                      /\ m.kind \in {"action", "subscribe", "prefetch"} => m.key \in ReadKeys
    BY DEF InboxIsRight
  <2>1. CASE m = message BY <1>4, <1>6, <1>7, <1>8, <1>9, <2>1 DEF Kinds
  <2>2. CASE m \in Range(inbox)
    <3>1. m.id \in Ids /\ m.id <= client'.asks /\ m.id # id BY <1>10, <1>11, <1>13, <2>2
    <3>2. asked'[m.id] = asked[m.id] BY <1>9, <3>1
    <3> QED BY <2>2, <3>1, <3>2 DEF ScreenInv, InboxIsRight
  <2> QED BY <1>12, <2>1, <2>2
<1>18. OutboxIsRight'
  <2> SUFFICES ASSUME NEW m \in Range(outbox)
               PROVE  m.id <= client'.asks /\ (m.live /\ asked'[m.id] # NoAsk => m.data >= asked'[m.id].since)
    BY <1>1 DEF OutboxIsRight
  <2>1. m.id \in Ids /\ m.id <= client'.asks /\ m.id # id BY <1>10, <1>11, <1>14
  <2>2. asked'[m.id] = asked[m.id] BY <1>9, <2>1
  <2> QED BY <2>1, <2>2 DEF ScreenInv, OutboxIsRight
<1>19. DataIsLate'
  <2> SUFFICES ASSUME NEW h \in Nat, IsCleared(h)' PROVE IsLate(h)' BY DEF DataIsLate
  <2>1. IsCleared(h)
    <3>1. CASE h = cleared BY <3>1 DEF IsCleared
    <3>2. ASSUME NEW i \in Ids, asked'[i].kind = "clear", asked'[i].since = h, IsAnswered(i)' PROVE IsCleared(h)
      <4>1. IsAnswered(i) BY <1>1, <3>2 DEF IsAnswered
      <4>2. i # id BY <1>10, <1>11, <1>14, <4>1 DEF IsAnswered
      <4> QED BY <1>9, <3>2, <4>1, <4>2 DEF IsCleared
    <3> QED BY <1>1, <3>1, <3>2 DEF IsCleared
  <2> QED BY <1>15, <2>1 DEF ScreenInv, DataIsLate
<1>20. AsksAreAwaited'
  <2> SUFFICES ASSUME NEW i \in Ids, asked'[i] # NoAsk PROVE IsAwaited(i)' BY DEF AsksAreAwaited
  <2>1. CASE i = id BY <1>7, <1>12, <2>1 DEF IsAwaited
  <2>2. CASE i # id
    <3>1. asked[i] # NoAsk BY <1>9, <2>2
    <3>2. client.worker # 0 /\ IsAwaited(i) BY <3>1 DEF ScreenInv, AsksAreRight, AsksAreAwaited
    <3>3. UNCHANGED <<alive, fetches, outbox>> BY <1>1, <3>2
    <3> QED BY <1>4, <1>8, <1>12, <3>2, <3>3 DEF IsAwaited, IsAnswered
  <2> QED BY <2>1, <2>2
<1> QED BY <1>15, <1>16, <1>17, <1>18, <1>19, <1>20 DEF ScreenInv

\* A subscription that is cancelled is forgotten before the worker hears of it.
LEMMA CancelAskStep == ASSUME ScreenInv, NEW id \in Ids, CancelAsk(id) PROVE ScreenInv'
<1> DEFINE message == [kind |-> "cancel", id |-> id, key |-> asked[id].key, fresh |-> FALSE]
<1>1. /\ asked[id].kind = "subscribe" /\ asked' = [asked EXCEPT ![id] = NoAsk]
      /\ inbox' = Append(inbox, message)
      /\ UNCHANGED <<height, client, outbox, alive, table, fetches, stored, disk, cleared>>
  BY DEF CancelAsk, WorkerState
<1>2. ScreenTyped BY DEF ScreenInv
<1>3. NoAsk \in AskRecord /\ NoAsk.kind # "clear" BY DEF NoAsk, AskRecord
<1>4. /\ asked' \in [Ids -> AskRecord] /\ asked'[id] = NoAsk
      /\ \A i \in Ids : i # id => asked'[i] = asked[i]
  BY <1>1, <1>2, <1>3 DEF ScreenTyped
<1>5. asked[id] # NoAsk BY <1>1 DEF NoAsk
<1>6. message \in ScreenMessage /\ message.id = id /\ message.kind = "cancel"
  <2>1. asked[id].key \in ReadKeys \cup {NoKey} BY <1>2 DEF ScreenTyped, AskRecord
  <2> QED BY <2>1 DEF ScreenMessage
<1> HIDE DEF message
<1>7. inbox' \in Seq(ScreenMessage) /\ Range(inbox') = Range(inbox) \cup {message}
  <2>1. inbox \in Seq(ScreenMessage) BY <1>2 DEF ScreenTyped
  <2>2. <<message>> \in Seq(ScreenMessage) /\ Range(<<message>>) = {message} /\ inbox' = inbox \o <<message>>
    BY <1>1, <1>6, <2>1, AppendsOne
  <2> QED BY <2>1, <2>2, InBoth DEF In
<1>8. \A m \in Range(inbox) : m.id \in Ids
  <2>1. \A m \in Range(inbox) : m \in ScreenMessage BY <1>2 DEF ScreenTyped, Range
  <2> QED BY <2>1 DEF ScreenMessage
<1>9. \A m \in Range(outbox) : m.id \in Ids
  <2>1. \A m \in Range(outbox) : m \in ScreenWord BY <1>2 DEF ScreenTyped, Range
  <2> QED BY <2>1 DEF ScreenWord
<1>10. ScreenTyped' BY <1>1, <1>2, <1>4, <1>7 DEF ScreenTyped
<1>11. AsksAreRight' BY <1>1, <1>4 DEF ScreenInv, AsksAreRight
<1>12. \A i \in Ids : asked'[i] # NoAsk => i # id /\ asked'[i] = asked[i] BY <1>4
<1>13. id <= client.asks BY <1>5 DEF ScreenInv, AsksAreRight
<1>14. InboxIsRight'
  <2> SUFFICES ASSUME NEW m \in Range(inbox')
               PROVE  /\ m.id <= client.asks
                      /\ m.kind = "cancel" => asked'[m.id] = NoAsk
                      /\ asked'[m.id] # NoAsk => asked'[m.id].kind = m.kind
                      /\ m.kind \in {"action", "subscribe", "prefetch"} => m.key \in ReadKeys
    BY <1>1 DEF InboxIsRight
  <2>1. CASE m = message BY <1>4, <1>6, <1>13, <2>1
  <2>2. CASE m \in Range(inbox) BY <1>4, <1>8, <2>2 DEF ScreenInv, InboxIsRight
  <2> QED BY <1>7, <2>1, <2>2
<1>15. OutboxIsRight' BY <1>1, <1>9, <1>12 DEF ScreenInv, OutboxIsRight
<1>16. FetchesAreRight' /\ PendingRuns'
  <2>1. ASSUME NEW f \in 1..MaxFetches PROVE FetchIsRight(fetches[f])'
    <3>1. FetchIsRight(fetches[f]) BY DEF ScreenInv, FetchesAreRight
    <3>2. \A who \in fetches[f].waiting : who.id \in Ids BY <1>2, WaitersAsk
    <3> QED BY <1>1, <1>12, <3>1, <3>2 DEF FetchIsRight
  <2>2. PendingRuns' BY <1>1 DEF ScreenInv, PendingRuns
  <2> QED BY <2>1, <2>2 DEF FetchesAreRight
<1>17. DataIsLate'
  <2> SUFFICES ASSUME NEW h \in Nat, IsCleared(h)' PROVE IsLate(h)' BY DEF DataIsLate
  <2>1. IsCleared(h) BY <1>1, <1>3, <1>4 DEF IsCleared, IsAnswered
  <2> QED BY <1>1, <2>1 DEF ScreenInv, DataIsLate, IsLate
<1>18. AsksAreAwaited'
  <2> SUFFICES ASSUME NEW i \in Ids, asked'[i] # NoAsk PROVE IsAwaited(i)' BY DEF AsksAreAwaited
  <2>1. IsAwaited(i) BY <1>12 DEF ScreenInv, AsksAreAwaited
  <2> QED BY <1>1, <1>7, <2>1 DEF IsAwaited, IsAnswered
<1> QED BY <1>10, <1>11, <1>14, <1>15, <1>16, <1>17, <1>18 DEF ScreenInv

\* The answer to a clear raises what was cleared to what was cleared for it already.
LEMMA HearStep == ASSUME ScreenInv, Hear PROVE ScreenInv'
<1> DEFINE m == Head(outbox)
           over == asked[m.id] # NoAsk /\ m.kind # "update"
           raised == over /\ asked[m.id].kind = "clear" /\ asked[m.id].since > cleared
<1>1. /\ outbox # <<>> /\ outbox' = Tail(outbox)
      /\ asked' = IF over THEN [asked EXCEPT ![m.id] = NoAsk] ELSE asked
      /\ cleared' = IF raised THEN asked[m.id].since ELSE cleared
      /\ UNCHANGED <<height, client, inbox, alive, table, fetches, stored, disk>>
  BY DEF Hear, WorkerState
<1>2. ScreenTyped BY DEF ScreenInv
<1>3. /\ m \in ScreenWord /\ m \in Range(outbox) /\ outbox' \in Seq(ScreenWord)
      /\ Range(outbox') \subseteq Range(outbox) /\ Range(outbox) \subseteq Range(outbox') \cup {m}
  BY <1>1, <1>2, FirstIsTaken DEF ScreenTyped
<1>4. m.id \in Ids BY <1>3 DEF ScreenWord
<1> HIDE DEF m
<1>5. NoAsk \in AskRecord /\ NoAsk.kind # "clear" BY DEF NoAsk, AskRecord
<1>6. /\ asked' \in [Ids -> AskRecord]
      /\ \A i \in Ids : asked'[i] # NoAsk => asked'[i] = asked[i] /\ ~(over /\ i = m.id)
      /\ \A i \in Ids : asked[i] # NoAsk /\ ~(over /\ i = m.id) => asked'[i] # NoAsk
  <2>1. asked \in [Ids -> AskRecord] BY <1>2 DEF ScreenTyped
  <2>2. CASE over BY <1>1, <1>4, <1>5, <2>1, <2>2
  <2>3. CASE ~over BY <1>1, <2>1, <2>3
  <2> QED BY <2>2, <2>3
<1>7. /\ height \in Nat /\ cleared \in Nat /\ cleared <= height
      /\ asked[m.id].since \in Nat /\ (over => asked[m.id].since <= height)
  BY <1>2, <1>4 DEF ScreenTyped, AskRecord, ScreenInv, AsksAreRight
<1>8. IsCleared(cleared')
  <2>1. CASE raised
    <3>1. IsAnswered(m.id) BY <1>3, <2>1 DEF IsAnswered
    <3>2. asked[m.id].kind = "clear" /\ cleared' = asked[m.id].since BY <1>1, <2>1
    <3> QED BY <1>4, <3>1, <3>2 DEF IsCleared
  <2>2. CASE ~raised BY <1>1, <2>2 DEF IsCleared
  <2> QED BY <2>1, <2>2
<1>9. cleared' \in Nat /\ cleared <= cleared' /\ cleared' <= height BY <1>1, <1>7
<1> HIDE DEF raised
<1>10. ScreenTyped'
  <2>1. inbox \in Seq(ScreenMessage) /\ height \in Nat BY <1>2 DEF ScreenTyped
  <2> QED BY <1>1, <1>2, <1>3, <1>6, <1>9 DEF ScreenTyped
<1>11. AsksAreRight'
  <2> SUFFICES ASSUME NEW i \in Ids, asked'[i] # NoAsk
               PROVE  /\ i <= client.asks /\ client.worker # 0 /\ asked'[i].since <= height
                      /\ asked'[i].kind # "clear" => asked'[i].since <= cleared'
    BY <1>1 DEF AsksAreRight
  <2>1. asked'[i] = asked[i] BY <1>6
  <2>2. asked[i].since \in Nat BY <1>2 DEF ScreenTyped, AskRecord
  <2> QED BY <1>7, <1>9, <2>1, <2>2 DEF ScreenInv, AsksAreRight
<1>12. \A x \in Range(inbox) : x.id \in Ids
  <2>1. \A x \in Range(inbox) : x \in ScreenMessage BY <1>2 DEF ScreenTyped, Range
  <2> QED BY <2>1 DEF ScreenMessage
<1>13. InboxIsRight' BY <1>1, <1>6, <1>12 DEF ScreenInv, InboxIsRight
<1>14. \A x \in Range(outbox) : x.id \in Ids
  <2>1. \A x \in Range(outbox) : x \in ScreenWord BY <1>2 DEF ScreenTyped, Range
  <2> QED BY <2>1 DEF ScreenWord
<1>15. OutboxIsRight' BY <1>1, <1>3, <1>6, <1>14 DEF ScreenInv, OutboxIsRight
<1>16. FetchesAreRight' /\ PendingRuns'
  <2>1. ASSUME NEW f \in 1..MaxFetches PROVE FetchIsRight(fetches[f])'
    <3>1. FetchIsRight(fetches[f]) BY DEF ScreenInv, FetchesAreRight
    <3>2. \A who \in fetches[f].waiting : who.id \in Ids BY <1>2, WaitersAsk
    <3> QED BY <1>1, <1>6, <3>1, <3>2 DEF FetchIsRight
  <2>2. PendingRuns' BY <1>1 DEF ScreenInv, PendingRuns
  <2> QED BY <2>1, <2>2 DEF FetchesAreRight
<1>17. DataIsLate'
  <2> SUFFICES ASSUME NEW h \in Nat, IsCleared(h)' PROVE IsLate(h)' BY DEF DataIsLate
  <2>1. IsCleared(h)
    <3>1. CASE h = cleared' BY <1>8, <3>1
    <3>2. ASSUME NEW i \in Ids, asked'[i].kind = "clear", asked'[i].since = h, IsAnswered(i)' PROVE IsCleared(h)
      <4>1. asked'[i] = asked[i] BY <1>5, <1>6, <3>2
      <4>2. IsAnswered(i) BY <1>3, <3>2 DEF IsAnswered
      <4> QED BY <3>2, <4>1, <4>2 DEF IsCleared
    <3> QED BY <3>1, <3>2 DEF IsCleared
  <2> QED BY <1>1, <2>1 DEF ScreenInv, DataIsLate, IsLate
<1>18. AsksAreAwaited'
  <2> SUFFICES ASSUME NEW i \in Ids, asked'[i] # NoAsk PROVE IsAwaited(i)' BY DEF AsksAreAwaited
  <2>1. asked[i] # NoAsk /\ ~(over /\ i = m.id) BY <1>6
  <2>2. IsAwaited(i) BY <2>1 DEF ScreenInv, AsksAreAwaited
  <2>3. \A x \in Range(outbox) : x.id = i /\ x.kind # "update" => x \in Range(outbox') BY <1>3, <2>1
  <2> QED BY <1>1, <2>2, <2>3 DEF IsAwaited, IsAnswered
<1> QED BY <1>10, <1>11, <1>13, <1>15, <1>16, <1>17, <1>18 DEF ScreenInv

\* Every step of the part keeps the invariant.
LEMMA ScreenStep == ASSUME ScreenInv, [ScreenNext]_screenVars PROVE ScreenInv'
<1>1. \A kind \in {"action", "subscribe", "prefetch"}, key \in ReadKeys, fresh \in BOOLEAN :
        Ask(kind, key, fresh) => ScreenInv'
  BY ClientAskStep DEF Kinds
<1>2. AskClear => ScreenInv' BY ClientAskStep DEF AskClear, Kinds
<1> QED BY <1>1, <1>2, HearStep, DiesStep, StopStep, ExpireStep, BroadcastStep, CancelAskStep, TakeReadStep,
           TakeClearStep, TakeCancelStep, FetchReadsStep, FetchEndsStep DEF ScreenNext

\* The invariant, where the screens run
ScreeningInv == running = "screens" => ScreenInv
\* In every behaviour of the composition, with any number of reads, asks, workers and heights,
\* what is about to be shown as live was read after the broadcasts that were cleared for before
\* it was asked for, and no ask waits for an answer that will never come
\* (sugar-runtime.ts:177, worker-client.ts:42).
THEOREM ScreensStayCurrent == InfraSpec => []TableIsCurrent
<1>1. InfraInit => ScreeningInv BY ScreenStarts DEF InfraInit, ScreeningInv
<1>2. ScreeningInv /\ [InfraNext]_infraVars => ScreeningInv'
  <2> SUFFICES ASSUME ScreeningInv, [InfraNext]_infraVars PROVE ScreeningInv' OBVIOUS
  <2>1. UNCHANGED running BY DEF InfraNext, Only, infraVars
  <2>2. running = "screens" => [ScreenNext]_screenVars
    BY DEF InfraNext, Only, infraVars
  <2> QED BY <2>1, <2>2, ScreenStep DEF ScreeningInv
<1>3. ScreeningInv => TableIsCurrent BY ScreensAreCurrent DEF ScreeningInv, TableIsCurrent
<1> QED BY <1>1, <1>2, <1>3, PTL DEF InfraSpec
-----------------------------------------------------------------------------
(***************************************************************************)
(* packages/sugar/src/tui: what a screen shows is of the chain and wallet  *)
(* selected. Reads, dialogs and broadcasts know the screen they were begun *)
(* from; the invariant says of each that, as long as that screen is the    *)
(* mounted one, it is of what is selected now.                             *)
(***************************************************************************)

\* An element added to a list
LEMMA AddedOnes ==
  ASSUME NEW S, NEW s \in Seq(S), NEW x PROVE ToSet(Append(s, x)) = ToSet(s) \cup {x}
<1>1. Len(s) \in Nat /\ DOMAIN s = 1..Len(s) OBVIOUS
<1>2. Len(Append(s, x)) = Len(s) + 1 /\ DOMAIN Append(s, x) = 1..(Len(s) + 1)
      /\ \A i \in 1..(Len(s) + 1) : Append(s, x)[i] = IF i = Len(s) + 1 THEN x ELSE s[i]
  OBVIOUS
<1>3. 1..(Len(s) + 1) = (1..Len(s)) \cup {Len(s) + 1} BY <1>1
<1> QED BY <1>1, <1>2, <1>3 DEF ToSet

\* Two lists put together
LEMMA JoinedOnes ==
  ASSUME NEW S, NEW s \in Seq(S), NEW t \in Seq(S)
  PROVE  s \o t \in Seq(S) /\ ToSet(s \o t) = ToSet(s) \cup ToSet(t)
<1>1. /\ s \o t \in Seq(S) /\ Len(s \o t) = Len(s) + Len(t)
      /\ \A i \in 1..Len(s \o t) : (s \o t)[i] = IF i <= Len(s) THEN s[i] ELSE t[i - Len(s)]
  BY ConcatProperties
<1>2. /\ DOMAIN s = 1..Len(s) /\ DOMAIN t = 1..Len(t) /\ DOMAIN (s \o t) = 1..Len(s \o t)
      /\ Len(s) \in Nat /\ Len(t) \in Nat
  BY <1>1
<1>3. ASSUME NEW x \in ToSet(s \o t) PROVE x \in ToSet(s) \cup ToSet(t)
  <2>1. PICK i \in 1..Len(s \o t) : x = (s \o t)[i] BY <1>2, <1>3 DEF ToSet
  <2>2. CASE i <= Len(s)
    <3>1. i \in 1..Len(s) /\ x = s[i] BY <1>1, <1>2, <2>1, <2>2
    <3> QED BY <1>2, <3>1 DEF ToSet
  <2>3. CASE ~(i <= Len(s))
    <3>1. i - Len(s) \in 1..Len(t) /\ x = t[i - Len(s)] BY <1>1, <1>2, <2>1, <2>3
    <3> QED BY <1>2, <3>1 DEF ToSet
  <2> QED BY <2>2, <2>3
<1>4. ASSUME NEW i \in 1..Len(s) PROVE s[i] \in ToSet(s \o t)
  <2>1. i \in 1..Len(s \o t) /\ (s \o t)[i] = s[i] BY <1>1, <1>2
  <2> QED BY <1>2, <2>1 DEF ToSet
<1>5. ASSUME NEW i \in 1..Len(t) PROVE t[i] \in ToSet(s \o t)
  <2>1. i + Len(s) \in 1..Len(s \o t) /\ (s \o t)[i + Len(s)] = t[i] BY <1>1, <1>2
  <2> QED BY <1>2, <2>1 DEF ToSet
<1>6. ToSet(s) \subseteq ToSet(s \o t) /\ ToSet(t) \subseteq ToSet(s \o t) BY <1>2, <1>4, <1>5 DEF ToSet
<1> QED BY <1>1, <1>3, <1>6

\* A list without its last or first element
LEMMA CutOnes ==
  ASSUME NEW S, NEW s \in Seq(S), s # <<>>
  PROVE  /\ SubSeq(s, 1, Len(s) - 1) \in Seq(S) /\ ToSet(SubSeq(s, 1, Len(s) - 1)) \subseteq ToSet(s)
         /\ Tail(s) \in Seq(S) /\ ToSet(s) = {Head(s)} \cup ToSet(Tail(s))
         /\ s[Len(s)] \in ToSet(s)
<1>1. Len(s) \in Nat /\ Len(s) > 0 /\ DOMAIN s = 1..Len(s) BY EmptySeq
<1>2. /\ SubSeq(s, 1, Len(s) - 1) \in Seq(S) /\ Len(SubSeq(s, 1, Len(s) - 1)) = Len(s) - 1
      /\ \A i \in 1..(Len(s) - 1) : SubSeq(s, 1, Len(s) - 1)[i] = s[i]
  BY <1>1
<1>3. DOMAIN SubSeq(s, 1, Len(s) - 1) = 1..(Len(s) - 1) BY <1>2
<1>4. ToSet(SubSeq(s, 1, Len(s) - 1)) \subseteq ToSet(s)
  <2>1. \A i \in 1..(Len(s) - 1) : i \in 1..Len(s) BY <1>1
  <2> QED BY <1>1, <1>2, <1>3, <2>1 DEF ToSet
<1>5. /\ Tail(s) \in Seq(S) /\ Len(Tail(s)) = Len(s) - 1 /\ Head(s) = s[1]
      /\ \A i \in 1..(Len(s) - 1) : Tail(s)[i] = s[i + 1]
  BY <1>1, HeadTailProperties
<1>6. DOMAIN Tail(s) = 1..(Len(s) - 1) BY <1>5
<1>7. ASSUME NEW i \in 1..Len(s) PROVE s[i] \in {Head(s)} \cup ToSet(Tail(s))
  <2>1. CASE i = 1 BY <1>5, <2>1
  <2>2. CASE i # 1
    <3>1. i - 1 \in 1..(Len(s) - 1) /\ Tail(s)[i - 1] = s[i] BY <1>1, <1>5, <2>2
    <3> QED BY <1>6, <3>1 DEF ToSet
  <2> QED BY <2>1, <2>2
<1>8. ASSUME NEW i \in 1..(Len(s) - 1) PROVE Tail(s)[i] \in ToSet(s)
  <2>1. i + 1 \in 1..Len(s) /\ Tail(s)[i] = s[i + 1] BY <1>1, <1>5
  <2> QED BY <1>1, <2>1 DEF ToSet
<1>9. ToSet(Tail(s)) \subseteq ToSet(s) BY <1>6, <1>8 DEF ToSet
<1>10. Head(s) \in ToSet(s) /\ s[Len(s)] \in ToSet(s) BY <1>1, <1>5 DEF ToSet
<1>11. ToSet(s) \subseteq {Head(s)} \cup ToSet(Tail(s)) BY <1>1, <1>7 DEF ToSet
<1> QED BY <1>2, <1>4, <1>5, <1>9, <1>10, <1>11

\* Of the mounted screen, or of one that is gone
Belongs(of, context) ==
  of \in Nat /\ context \in Context /\ of <= screen.id /\ (of = screen.id => context = Here)
DialogOf == [kind : {"pick", "row", "passphrase"}, of : Nat, context : Context]

\* What the mounted screen may become while it is mounted
Shows(s) ==
  /\ s \in [id : Nat, route : {s.route}, phase : {s.phase}, picked : SUBSET {Here}, picking : BOOLEAN,
            shows : SUBSET {Here}]
  /\ s.id = screen.id

AppRecord == [chain : Chains, wallet : Holders, busy : BOOLEAN, runs : BOOLEAN]
ShownInv ==
  /\ app \in AppRecord /\ Shows(screen)
  /\ dialogs \in Seq(DialogOf) /\ \A d \in ToSet(dialogs) : Belongs(d.of, d.context)
  /\ \A a \in asks : Belongs(a.of, a.context)
  /\ \A s \in sends : Belongs(s.of, s.plan)

\* The home screen shows nothing yet.
LEMMA TuiStarts == TuiInit => ShownInv
<1> SUFFICES ASSUME TuiInit PROVE ShownInv OBVIOUS
<1>1. app = [chain |-> Base, wallet |-> NoWallet, busy |-> FALSE, runs |-> TRUE] BY DEF TuiInit
<1>2. Base \in Chains /\ NoWallet \in Holders BY TuiAssumption DEF Holders
<1>3. app \in AppRecord BY <1>1, <1>2 DEF AppRecord
<1>4. screen = [id |-> 1, route |-> To("home"), phase |-> "list", picked |-> {}, picking |-> FALSE, shows |-> {}]
  BY DEF TuiInit, Mounted, To
<1>5. Shows(screen) BY <1>4 DEF Shows
<1>6. dialogs = <<>> /\ ToSet(dialogs) = {} /\ asks = {} /\ sends = {} BY DEF TuiInit, ToSet
<1> QED BY <1>3, <1>5, <1>6 DEF ShownInv

\* What is selected is a context.
LEMMA HereIs == ShownInv => Here \in Context
BY DEF ShownInv, AppRecord, Here, Context

\* Another screen is mounted: what was of the last one is of one that is gone.
LEMMA MountStep ==
  ASSUME ShownInv, NEW stack, NEW c \in Chains, NEW w \in Holders, Mount(stack, c, w),
         UNCHANGED <<asks, sends>>, dialogs' \in Seq(DialogOf), ToSet(dialogs') \subseteq ToSet(dialogs)
  PROVE  ShownInv'
<1>1. /\ app' = [app EXCEPT !.chain = c, !.wallet = w, !.busy = FALSE]
      /\ screen' = [id |-> screen.id + 1, route |-> stack[Len(stack)],
                    phase |-> IF stack[Len(stack)].name = "action" THEN "form" ELSE "list",
                    picked |-> {}, picking |-> FALSE, shows |-> {}]
  BY DEF Mount, Mounted
<1>2. screen.id \in Nat BY DEF ShownInv, Shows
<1>3. app' \in AppRecord BY <1>1 DEF ShownInv, AppRecord
<1>4. screen'.id = screen.id + 1 BY <1>1
<1>5. Shows(screen)' BY <1>1, <1>2 DEF Shows
<1>6. \A of, context : Belongs(of, context) => Belongs(of, context)' BY <1>2, <1>4 DEF Belongs
<1> QED BY <1>3, <1>5, <1>6 DEF ShownInv

\* Nothing else is mounted or selected, and what is begun, opened or shown is of what is selected.
LEMMA StayStep ==
  ASSUME ShownInv, app' \in AppRecord, app'.chain = app.chain, app'.wallet = app.wallet, Shows(screen'),
         dialogs' \in Seq(DialogOf),
         \A d \in ToSet(dialogs') : d \in ToSet(dialogs) \/ Belongs(d.of, d.context),
         \A a \in asks' : a \in asks \/ Belongs(a.of, a.context),
         \A s \in sends' : s \in sends \/ Belongs(s.of, s.plan)
  PROVE  ShownInv'
<1>1. Here' = Here BY DEF Here
<1>2. screen'.id = screen.id /\ Shows(screen)' BY <1>1 DEF Shows
<1>3. \A of, context : Belongs(of, context) => Belongs(of, context)' BY <1>1, <1>2 DEF Belongs
<1> QED BY <1>2, <1>3 DEF ShownInv

\* What a step leaves as it is
LEMMA Untouched ==
  ASSUME ShownInv
  PROVE  /\ UNCHANGED app => app' \in AppRecord /\ app'.chain = app.chain /\ app'.wallet = app.wallet
         /\ UNCHANGED screen => Shows(screen')
         /\ UNCHANGED dialogs => dialogs' \in Seq(DialogOf) /\ ToSet(dialogs') = ToSet(dialogs)
BY DEF ShownInv, Shows

\* The dialogs: the topmost closes, or another one opens.
LEMMA ClosedOnes ==
  ASSUME ShownInv, dialogs # <<>>, dialogs' = Closed
  PROVE  /\ dialogs' \in Seq(DialogOf) /\ ToSet(dialogs') \subseteq ToSet(dialogs)
         /\ TopDialog \in DialogOf /\ Belongs(TopDialog.of, TopDialog.context)
<1>1. dialogs \in Seq(DialogOf) BY DEF ShownInv
<1>2. /\ Closed \in Seq(DialogOf) /\ ToSet(Closed) \subseteq ToSet(dialogs)
      /\ TopDialog \in ToSet(dialogs)
  BY <1>1, CutOnes DEF Closed, TopDialog
<1>3. ToSet(dialogs) \subseteq DialogOf BY <1>1 DEF ToSet
<1> QED BY <1>2, <1>3 DEF ShownInv

\* A dialog opened now is of the screen that is mounted
LEMMA OpenedOne ==
  ASSUME ShownInv, NEW kind \in {"pick", "row", "passphrase"}, dialogs' = Append(dialogs, Dialog(kind, Here))
  PROVE  dialogs' \in Seq(DialogOf) /\ \A d \in ToSet(dialogs') : d \in ToSet(dialogs) \/ Belongs(d.of, d.context)
<1>1. dialogs \in Seq(DialogOf) /\ screen.id \in Nat BY DEF ShownInv, Shows
<1>2. Here \in Context BY HereIs
<1>3. Dialog(kind, Here) \in DialogOf /\ Belongs(Dialog(kind, Here).of, Dialog(kind, Here).context)
  BY <1>1, <1>2 DEF Dialog, DialogOf, Belongs
<1>4. ToSet(dialogs') = ToSet(dialogs) \cup {Dialog(kind, Here)} BY <1>1, AddedOnes
<1> QED BY <1>1, <1>3, <1>4

\* An ask is of what is selected when it is made.
LEMMA AskedOne ==
  ASSUME ShownInv, NEW what, NEW others \in SUBSET asks, AskAction(what, others)
  PROVE  \A a \in asks' : a \in asks \/ Belongs(a.of, a.context)
<1>1. screen.id \in Nat /\ Here \in Context BY HereIs DEF ShownInv, Shows
<1> QED BY <1>1 DEF AskAction, Belongs

\* A broadcast knows the screen and the plan its closure knows.
LEMMA SignSendStep ==
  ASSUME ShownInv, NEW plan, NEW of, Belongs(of, plan), BroadcastForm(plan, of), UNCHANGED asks,
         dialogs' \in Seq(DialogOf),
         \A d \in ToSet(dialogs') : d \in ToSet(dialogs) \/ Belongs(d.of, d.context)
  PROVE  ShownInv'
<1>1. \A s \in sends' : s \in sends \/ Belongs(s.of, s.plan) BY DEF BroadcastForm
<1>2. app' \in AppRecord /\ app'.chain = app.chain /\ app'.wallet = app.wallet
  BY DEF BroadcastForm, ShownInv, AppRecord
<1>3. Shows(screen') BY DEF BroadcastForm, ShownInv, Shows
<1> QED BY <1>1, <1>2, <1>3, StayStep

\* ShownInv is kept by each step of the terminal.
LEMMA TuiKeeps == ASSUME ShownInv, TuiNext PROVE ShownInv'
<1>1. Here \in Context /\ app.chain \in Chains /\ app.wallet \in Holders
  BY HereIs DEF ShownInv, AppRecord
<1>2. CASE Push
  <2>1. /\ dialogs' \in Seq(DialogOf) /\ ToSet(dialogs') \subseteq ToSet(dialogs)
        /\ UNCHANGED <<asks, sends>>
    BY <1>2, Untouched DEF Push
  <2>2. ASSUME NEW name, Mount(Append(routes, To(name)), app.chain, app.wallet) PROVE ShownInv'
    BY <1>1, <2>1, <2>2, MountStep
  <2>3. ASSUME Mount(Append(routes, To("action")), Base, app.wallet) PROVE ShownInv'
    <3>1. Base \in Chains BY TuiAssumption
    <3> QED BY <1>1, <2>1, <2>3, <3>1, MountStep
  <2> QED BY <1>2, <2>2, <2>3 DEF Push
<1>3. CASE Pop
  <2>1. Mount(SubSeq(routes, 1, Len(routes) - 1), app.chain, app.wallet) BY <1>3 DEF Pop
  <2> QED BY <1>1, <1>3, <2>1, Untouched, MountStep DEF Pop
<1>4. CASE SwitchChain
  <2>1. PICK c \in Chains : Mount(routes, c, app.wallet) BY <1>4 DEF SwitchChain, Remount
  <2> QED BY <1>1, <1>4, <2>1, Untouched, MountStep DEF SwitchChain
<1>5. CASE RefreshWallet
  <2>1. PICK w \in Holders : Mount(routes, app.chain, w) BY <1>5 DEF RefreshWallet, Remount
  <2> QED BY <1>1, <1>5, <2>1, Untouched, MountStep DEF RefreshWallet
<1>6. CASE Subscribe
  <2>1. Shows(screen') BY <1>6 DEF Subscribe, ShownInv, Shows
  <2>2. \A a \in asks' : a \in asks \/ Belongs(a.of, a.context) BY <1>6, AskedOne DEF Subscribe
  <2> QED BY <1>6, <2>1, <2>2, Untouched, StayStep DEF Subscribe
<1>7. CASE RunForm
  <2>1. Shows(screen') BY <1>7 DEF RunForm, ShownInv, Shows
  <2>2. \A a \in asks' : a \in asks \/ Belongs(a.of, a.context) BY <1>7, AskedOne DEF RunForm
  <2> QED BY <1>7, <2>1, <2>2, Untouched, StayStep DEF RunForm
<1>8. CASE OpenPicker
  <2>1. Shows(screen') BY <1>8 DEF OpenPicker, ShownInv, Shows
  <2>2. \A a \in asks' : a \in asks \/ Belongs(a.of, a.context) BY <1>8, AskedOne DEF OpenPicker
  <2> QED BY <1>8, <2>1, <2>2, Untouched, StayStep DEF OpenPicker
<1>9. CASE CloseDialog
  <2>1. dialogs' \in Seq(DialogOf) /\ ToSet(dialogs') \subseteq ToSet(dialogs)
    BY <1>9, ClosedOnes DEF CloseDialog
  <2> QED BY <1>9, <2>1, Untouched, StayStep DEF CloseDialog
<1>10. CASE PickChoice
  <2>1. /\ dialogs' \in Seq(DialogOf) /\ ToSet(dialogs') \subseteq ToSet(dialogs)
        /\ Belongs(TopDialog.of, TopDialog.context)
    BY <1>10, ClosedOnes DEF PickChoice
  <2>2. screen' = IF TopDialog.of = screen.id THEN [screen EXCEPT !.picked = {TopDialog.context}] ELSE screen
    BY <1>10 DEF PickChoice
  <2>3. Shows(screen') BY <2>1, <2>2 DEF ShownInv, Shows, Belongs
  <2> QED BY <1>10, <2>1, <2>3, Untouched, StayStep DEF PickChoice
<1>11. CASE OpenRow
  <2>1. PICK row \in screen.shows : dialogs' = Append(dialogs, Dialog("row", row)) BY <1>11 DEF OpenRow
  <2>2. row = Here BY <2>1 DEF ShownInv, Shows
  <2>3. dialogs' \in Seq(DialogOf) /\ \A d \in ToSet(dialogs') : d \in ToSet(dialogs) \/ Belongs(d.of, d.context)
    BY <2>1, <2>2, OpenedOne
  <2> QED BY <1>11, <2>3, Untouched, StayStep DEF OpenRow
<1>12. CASE PickRow
  <2>1. dialogs' \in Seq(DialogOf) /\ ToSet(dialogs') \subseteq ToSet(dialogs)
    BY <1>12, ClosedOnes DEF PickRow
  <2>2. PICK stack : Mount(stack, app.chain, app.wallet) BY <1>12 DEF PickRow
  <2> QED BY <1>1, <1>12, <2>1, <2>2, MountStep DEF PickRow
<1>13. CASE Sign
  <2>1. PICK plan \in screen.shows :
          \/ BroadcastForm(plan, screen.id) /\ UNCHANGED dialogs
          \/ /\ dialogs' = Append(dialogs, Dialog("passphrase", plan))
             /\ UNCHANGED <<app, screen, sends, sentOnce>>
    BY <1>13 DEF Sign
  <2>2. plan = Here /\ Belongs(screen.id, plan) BY <1>1, <2>1 DEF ShownInv, Shows, Belongs
  <2>3. UNCHANGED asks BY <1>13 DEF Sign
  <2>4. CASE BroadcastForm(plan, screen.id) /\ UNCHANGED dialogs
    BY <2>2, <2>3, <2>4, Untouched, SignSendStep
  <2>5. CASE /\ dialogs' = Append(dialogs, Dialog("passphrase", plan))
             /\ UNCHANGED <<app, screen, sends, sentOnce>>
    <3>1. dialogs' \in Seq(DialogOf) /\ \A d \in ToSet(dialogs') : d \in ToSet(dialogs) \/ Belongs(d.of, d.context)
      BY <2>2, <2>5, OpenedOne
    <3> QED BY <2>3, <2>5, <3>1, Untouched, StayStep
  <2> QED BY <2>1, <2>4, <2>5
<1>14. CASE Unlocked
  <2>1. /\ dialogs' \in Seq(DialogOf) /\ ToSet(dialogs') \subseteq ToSet(dialogs)
        /\ Belongs(TopDialog.of, TopDialog.context)
    BY <1>14, ClosedOnes DEF Unlocked
  <2> QED BY <1>14, <2>1, SignSendStep DEF Unlocked
<1>15. CASE BackToForm
  <2>1. Shows(screen') BY <1>15 DEF BackToForm, ShownInv, Shows
  <2> QED BY <1>15, <2>1, Untouched, StayStep DEF BackToForm
<1>16. CASE Quit
  <2>1. app' \in AppRecord /\ app'.chain = app.chain /\ app'.wallet = app.wallet
    BY <1>16 DEF Quit, ShownInv, AppRecord
  <2> QED BY <1>16, <2>1, Untouched, StayStep DEF Quit
<1>17. ASSUME NEW a \in asks, AnswerAction(a) PROVE ShownInv'
  <2>1. Belongs(a.of, a.context) BY DEF ShownInv
  <2>2. asks' = asks \ {a} /\ UNCHANGED <<app, sends>> BY <1>17 DEF AnswerAction
  <2>3. CASE ~IsFor(a) BY <1>17, <2>2, <2>3, Untouched, StayStep DEF AnswerAction
  <2>4. CASE IsFor(a)
    <3>1. a.context = Here /\ FormShown(a) BY <1>17, <2>1, <2>4 DEF AnswerAction, IsFor, Belongs
    <3>2. Shows(screen') BY <3>1 DEF FormShown, ShownInv, Shows
    <3>3. UNCHANGED dialogs \/ dialogs' = Append(dialogs, Dialog("pick", Here)) BY <3>1 DEF FormShown
    <3>4. dialogs' \in Seq(DialogOf) /\ \A d \in ToSet(dialogs') : d \in ToSet(dialogs) \/ Belongs(d.of, d.context)
      BY <3>3, Untouched, OpenedOne
    <3> QED BY <2>2, <3>2, <3>4, Untouched, StayStep
  <2> QED BY <2>3, <2>4
<1>18. ASSUME NEW s \in sends, BroadcastEnds(s) PROVE ShownInv'
  <2>1. Belongs(s.of, s.plan) BY DEF ShownInv
  <2>2. sends' = sends \ {s} /\ UNCHANGED <<dialogs, asks>> BY <1>18 DEF BroadcastEnds
  <2>3. app' \in AppRecord /\ app'.chain = app.chain /\ app'.wallet = app.wallet
    BY <1>18 DEF BroadcastEnds, ShownInv, AppRecord
  <2>4. CASE s.of # screen.id BY <1>18, <2>2, <2>4, Untouched, StayStep DEF BroadcastEnds
  <2>5. CASE s.of = screen.id
    <3>1. s.plan = Here BY <2>1, <2>5 DEF Belongs
    <3>2. Shows(screen') BY <1>18, <2>5, <3>1 DEF BroadcastEnds, ShownInv, Shows
    <3> QED BY <2>2, <2>3, <3>2, Untouched, StayStep
  <2> QED BY <2>4, <2>5
<1> QED
  BY <1>2, <1>3, <1>4, <1>5, <1>6, <1>7, <1>8, <1>9, <1>10, <1>11, <1>12, <1>13, <1>14, <1>15, <1>16,
     <1>17, <1>18
  DEF TuiNext

-----------------------------------------------------------------------------
(***************************************************************************)
(* packages/sugar/src/tui/analytics: loads of reports that are shared,     *)
(* outlived by their entry and ended by the death of the worker. The       *)
(* invariant says of whom each ask waits for, of which chain what is kept  *)
(* is, and that a refresh is held only by loads begun after it.            *)
(***************************************************************************)

\* What is asked, mailed, loaded and kept
AnyReport == [chain : Networks \cup {NoNetwork}, load : Nat, parts : SUBSET Sources, kept : SUBSET Sources]
Query == [chain : Networks, fresh : BOOLEAN, since : Nat, st : {"sent", "cleared", "waiting", "done"}]
MailOf == [ask : Nat, kind : {"update", "result"}, report : AnyReport]
LoadOf == [chain : Networks, begun : Nat, st : {"running", "done", "lost"}, for : Nat, waiting : SUBSET Nat,
           disk : AnyReport, fetch : [CachedSources -> Nat],
           own : [CachedSources -> {"none", "running", "ok", "failed"}],
           settled : SUBSET Sources, parts : SUBSET Sources, final : AnyReport]
EntryOf == [load : Nat, report : AnyReport]
ViewOf == [chain : Networks \cup {NoNetwork}, opened : Nat, ask : Nat, report : AnyReport, loading : BOOLEAN,
           failed : BOOLEAN]

ReportsTyped ==
  /\ minute \in Nat /\ queries \in Seq(Query) /\ mail \in Seq(MailOf) /\ loads \in Seq(LoadOf)
  /\ view \in ViewOf
  /\ entries \in [Networks -> EntryOf] /\ shelf \in [Networks -> AnyReport]
  /\ pulled \in [CachedSources -> [Networks -> [load : Nat, expires : Nat]]]

\* What is kept of a chain is nothing, or of it and of a load that was begun.
KeptOf(report, c) ==
  report = NoReport \/ (report.chain = c /\ report.load <= Len(loads))

EntryHolds(c) ==
  /\ KeptOf(entries[c].report, c) /\ entries[c].load <= Len(loads)
  /\ entries[c].load # 0 =>
       /\ entries[c].report.load <= entries[c].load
       /\ loads[entries[c].load].chain = c /\ loads[entries[c].load].st \in {"running", "done"}
       /\ loads[entries[c].load].st = "done" => entries[c].report # NoReport

\* A load ends with its own report; who waits for it waits for nobody else and asked before it
\* began, if a refresh was asked.
LoadHolds(l) ==
  /\ loads[l].for \in 1..Len(queries) /\ queries[loads[l].for].chain = loads[l].chain
  /\ loads[l].st = "done" => loads[l].final.chain = loads[l].chain /\ loads[l].final.load = l
  /\ IsFiniteSet(loads[l].waiting)
  /\ loads[l].st # "running" => loads[l].waiting = {}
  /\ \A id \in loads[l].waiting :
       /\ id \in 1..Len(queries) /\ queries[id].chain = loads[l].chain /\ queries[id].st = "waiting"
       /\ queries[id].fresh => queries[id].since < l
WaitsOnce == \A l, m \in 1..Len(loads) : l # m => loads[l].waiting \cap loads[m].waiting = {}

\* Once a refresh has cleared its entry, whatever load is in it began afterwards.
QueryHolds(id) ==
  /\ queries[id].since <= Len(loads)
  /\ queries[id].st = "cleared" /\ entries[queries[id].chain].load # 0 =>
       queries[id].since < entries[queries[id].chain].load

MailHolds(msg) ==
  /\ msg.ask \in 1..Len(queries) /\ msg.report.chain = queries[msg.ask].chain
  /\ msg.kind = "result" /\ queries[msg.ask].fresh => queries[msg.ask].since < msg.report.load

\* What the screen shows is of a chain it has asked about since it was opened.
ShownHolds ==
  /\ view.opened <= Len(queries)
  /\ view.report # NoReport =>
       \E id \in 1..Len(queries) : view.opened <= id /\ queries[id].chain = view.report.chain

\* The screen waits for its last ask, which will be answered.
Awaits ==
  \/ queries[view.ask].st \in {"sent", "cleared"}
  \/ \E l \in 1..Len(loads) : loads[l].st = "running" /\ view.ask \in loads[l].waiting
  \/ \E msg \in ToSet(mail) : msg.ask = view.ask
ViewHolds ==
  /\ view.ask = Len(queries)
  /\ view.ask # 0 => view.chain = queries[view.ask].chain
  /\ view.loading => view.ask # 0 /\ Awaits
  /\ view.ask # 0 /\ ~view.loading /\ ~view.failed => view.report.chain = view.chain
  /\ ShownHolds

ReportsInv ==
  /\ ReportsTyped
  /\ \A c \in Networks : EntryHolds(c) /\ KeptOf(shelf[c], c)
  /\ \A l \in 1..Len(loads) : LoadHolds(l)
  /\ WaitsOnce
  /\ \A id \in 1..Len(queries) : QueryHolds(id)
  /\ \A msg \in ToSet(mail) : MailHolds(msg)
  /\ ViewHolds

\* Nothing is no report of a chain.
LEMMA NothingIs ==
  /\ NoReport \in AnyReport /\ NoReport.load = 0 /\ NoReport.chain = NoNetwork
  /\ NoReportEntry \in EntryOf /\ NoReportEntry.load = 0 /\ NoReportEntry.report = NoReport
  /\ \A c \in Networks : c # NoNetwork
BY ReportsAssumption DEF NoReport, NoReportEntry, AnyReport, EntryOf

\* At first nothing was asked.
LEMMA ReportsStart == ReportsInit => ReportsInv
<1> SUFFICES ASSUME ReportsInit PROVE ReportsInv OBVIOUS
<1>1. /\ minute = 0 /\ queries = <<>> /\ mail = <<>> /\ loads = <<>>
      /\ view = [chain |-> NoNetwork, opened |-> 0, ask |-> 0, report |-> NoReport, loading |-> FALSE,
                 failed |-> FALSE]
      /\ entries = [c \in Networks |-> NoReportEntry] /\ shelf = [c \in Networks |-> NoReport]
      /\ pulled = [s \in CachedSources |-> [c \in Networks |-> NoPull]]
  BY DEF ReportsInit
<1>2. ReportsTyped BY <1>1, NothingIs DEF ReportsTyped, NoPull, ViewOf
<1>3. Len(queries) = 0 /\ Len(loads) = 0 /\ ToSet(mail) = {} BY <1>1 DEF ToSet
<1>4. ASSUME NEW c \in Networks PROVE EntryHolds(c) /\ KeptOf(shelf[c], c)
  <2>1. entries[c].load = 0 /\ entries[c].report = NoReport /\ shelf[c] = NoReport BY <1>1, NothingIs
  <2> QED BY <1>3, <2>1 DEF EntryHolds, KeptOf
<1>5. ViewHolds BY <1>1, <1>3 DEF ViewHolds, ShownHolds
<1> QED BY <1>2, <1>3, <1>4, <1>5 DEF ReportsInv, WaitsOnce

\* Mail that is sent is there besides the mail that was.
LEMMA MailArrives ==
  ASSUME ReportsTyped, NEW msgs \in Seq(MailOf), Mailed(msgs)
  PROVE  mail' \in Seq(MailOf) /\ ToSet(mail') = ToSet(mail) \cup ToSet(msgs)
BY JoinedOnes DEF ReportsTyped, Mailed

\* The lists that are sent
LEMMA FewOnes ==
  ASSUME NEW S, NEW x \in S, NEW y \in S
  PROVE  /\ <<>> \in Seq(S) /\ ToSet(<<>>) = {}
         /\ <<x>> \in Seq(S) /\ ToSet(<<x>>) = {x}
         /\ <<x, y>> \in Seq(S) /\ ToSet(<<x, y>>) = {x, y}
<1>1. DOMAIN <<x>> = {1} /\ DOMAIN <<x, y>> = {1, 2} OBVIOUS
<1> QED BY <1>1 DEF ToSet

\* What is in the mail after two messages
LEMMA BothArrive ==
  ASSUME ReportsTyped, NEW x \in MailOf, NEW y \in MailOf, Mailed(<<x, y>>)
  PROVE  mail' \in Seq(MailOf) /\ ToSet(mail') = ToSet(mail) \cup {x, y}
<1>1. <<x, y>> \in Seq(MailOf) /\ ToSet(<<x, y>>) = {x, y}
  <2>1. DOMAIN <<x, y>> = {1, 2} OBVIOUS
  <2> QED BY <2>1 DEF ToSet
<1>2. PICK both : both = <<x, y>> OBVIOUS
<1>3. mail' \in Seq(MailOf) /\ ToSet(mail') = ToSet(mail) \cup ToSet(both) BY <1>1, <1>2, MailArrives
<1> QED BY <1>1, <1>2, <1>3

\* The properties, from the invariant
LEMMA ReportsAreTrue == ReportsInv => ReportIsOfChain /\ RefreshIsFresh
<1> SUFFICES ASSUME ReportsInv PROVE ReportIsOfChain /\ RefreshIsFresh OBVIOUS
<1>1. DOMAIN loads = 1..Len(loads) /\ DOMAIN mail = 1..Len(mail) BY DEF ReportsInv, ReportsTyped
<1>2. ReportIsOfChain
  <2>1. ASSUME NEW msg \in ToSet(mail), msg.ask = view.ask PROVE \E i \in DOMAIN mail : IsCurrent(mail[i])
    BY <2>1 DEF ToSet, IsCurrent
  <2>2. ViewHolds /\ ShownHolds /\ view.opened \in Nat /\ view.ask \in Nat
    BY DEF ReportsInv, ReportsTyped, ViewOf, ViewHolds
  <2>3. ASSUME Has(view.report) PROVE \E id \in view.opened..view.ask : queries[id].chain = view.report.chain
    <3>1. PICK id \in 1..Len(queries) : view.opened <= id /\ queries[id].chain = view.report.chain
      BY <2>2, <2>3 DEF ShownHolds, Has
    <3>2. id \in view.opened..view.ask BY <2>2, <3>1 DEF ViewHolds
    <3> QED BY <3>1, <3>2
  <2> QED BY <1>1, <2>1, <2>2, <2>3 DEF ViewHolds, Awaits, ReportIsOfChain
<1>3. ASSUME NEW i \in DOMAIN mail, mail[i].kind = "result", queries[mail[i].ask].fresh
      PROVE  mail[i].report.load > queries[mail[i].ask].since
  <2>1. mail[i] \in ToSet(mail) /\ mail[i] \in MailOf BY <1>1 DEF ToSet, ReportsInv, ReportsTyped
  <2>2. MailHolds(mail[i]) BY <2>1 DEF ReportsInv
  <2>3. queries[mail[i].ask] \in Query BY <2>2 DEF MailHolds, ReportsInv, ReportsTyped
  <2> QED BY <1>3, <2>1, <2>2, <2>3 DEF MailHolds, MailOf, AnyReport, Query
<1>4. \A c \in Networks : entries[c].load # 0 => entries[c].report.load <= entries[c].load
  BY DEF ReportsInv, EntryHolds
<1> QED BY <1>2, <1>3, <1>4 DEF RefreshIsFresh

\* An ask whose state alone changes
LEMMA AskMarked ==
  ASSUME ReportsTyped, NEW id \in 1..Len(queries), NEW st \in {"sent", "cleared", "waiting", "done"},
         queries' = [queries EXCEPT ![id].st = st]
  PROVE  /\ queries' \in Seq(Query) /\ Len(queries') = Len(queries) /\ queries'[id].st = st
         /\ \A i \in 1..Len(queries) :
              /\ queries'[i].chain = queries[i].chain /\ queries'[i].fresh = queries[i].fresh
              /\ queries'[i].since = queries[i].since
              /\ i # id => queries'[i] = queries[i]
<1>1. queries \in Seq(Query) /\ queries[id] \in Query BY DEF ReportsTyped
<1>2. [queries[id] EXCEPT !.st = st] \in Query BY <1>1 DEF Query
<1>3. queries' = [queries EXCEPT ![id] = [queries[id] EXCEPT !.st = st]] OBVIOUS
<1>4. queries' \in Seq(Query) /\ Len(queries') = Len(queries)
      /\ \A i \in 1..Len(queries) : queries'[i] = IF i = id THEN [queries[id] EXCEPT !.st = st] ELSE queries[i]
  BY <1>1, <1>2, <1>3, ExceptSeq
<1>5. /\ [queries[id] EXCEPT !.st = st].chain = queries[id].chain
      /\ [queries[id] EXCEPT !.st = st].fresh = queries[id].fresh
      /\ [queries[id] EXCEPT !.st = st].since = queries[id].since
      /\ [queries[id] EXCEPT !.st = st].st = st
  BY <1>1 DEF Query
<1> QED BY <1>4, <1>5

\* A load that alone changes
LEMMA LoadMarked ==
  ASSUME ReportsTyped, NEW l \in 1..Len(loads), NEW r \in LoadOf, loads' = [loads EXCEPT ![l] = r]
  PROVE  /\ loads' \in Seq(LoadOf) /\ Len(loads') = Len(loads) /\ loads'[l] = r
         /\ \A m \in 1..Len(loads) : m # l => loads'[m] = loads[m]
<1>1. loads \in Seq(LoadOf) BY DEF ReportsTyped
<1>2. loads' \in Seq(LoadOf) /\ Len(loads') = Len(loads)
      /\ \A m \in 1..Len(loads) : loads'[m] = IF m = l THEN r ELSE loads[m]
  BY <1>1, ExceptSeq
<1> QED BY <1>2

\* What an element of each list is
LEMMA ReportsParts ==
  ASSUME ReportsInv
  PROVE  /\ \A id \in 1..Len(queries) : queries[id] \in Query /\ QueryHolds(id)
         /\ \A l \in 1..Len(loads) : loads[l] \in LoadOf /\ LoadHolds(l)
         /\ \A c \in Networks : entries[c] \in EntryOf /\ shelf[c] \in AnyReport /\ EntryHolds(c) /\ KeptOf(shelf[c], c)
         /\ Len(queries) \in Nat /\ Len(loads) \in Nat /\ DOMAIN queries = 1..Len(queries) /\ DOMAIN loads = 1..Len(loads)
         /\ ToSet(mail) \subseteq MailOf
BY DEF ReportsInv, ReportsTyped, ToSet

\* The screen asks.
LEMMA AskReportStep ==
  ASSUME ReportsInv, NEW c \in Networks, NEW fresh \in BOOLEAN, NEW opened, NEW report,
         AskReport(c, fresh, opened, report),
         \/ opened = Len(queries) + 1 /\ report = NoReport
         \/ opened = view.opened /\ report = view.report
  PROVE  ReportsInv'
<1> DEFINE n == Len(queries)
           q == [chain |-> c, fresh |-> fresh, since |-> Len(loads), st |-> "sent"]
<1>1. /\ queries' = Append(queries, q)
      /\ view' = [chain |-> c, opened |-> opened, ask |-> n + 1, report |-> report,
                  loading |-> TRUE, failed |-> FALSE]
      /\ UNCHANGED <<minute, mail, loads, entries, pulled, shelf>>
  BY DEF AskReport
<1>2. n \in Nat /\ q \in Query BY ReportsParts DEF Query
<1>3. /\ queries' \in Seq(Query) /\ Len(queries') = n + 1 /\ queries'[n + 1] = q
      /\ \A id \in 1..n : queries'[id] = queries[id]
  BY <1>1, <1>2 DEF ReportsInv, ReportsTyped
<1>4. ReportsTyped'
  <2>1. view.opened \in Nat /\ view.report \in AnyReport BY DEF ReportsInv, ReportsTyped, ViewOf
  <2>2. opened \in Nat /\ report \in AnyReport BY <1>2, <2>1, NothingIs
  <2>3. view' \in ViewOf BY <1>1, <1>2, <2>2 DEF ViewOf
  <2> QED BY <1>1, <1>3, <2>3 DEF ReportsInv, ReportsTyped
<1>5. \A d \in Networks : EntryHolds(d)' /\ KeptOf(shelf[d], d)'
  BY <1>1 DEF ReportsInv, EntryHolds, KeptOf
<1> HIDE DEF n
<1>6. ASSUME NEW l \in 1..Len(loads) PROVE LoadHolds(l)'
  <2>1. LoadHolds(l) BY ReportsParts
  <2>2. \A id \in 1..n : id \in 1..(n + 1) BY <1>2
  <2> QED BY <1>1, <1>3, <2>1, <2>2 DEF LoadHolds, n
<1>7. ASSUME NEW id \in 1..(n + 1) PROVE QueryHolds(id)'
  <2>1. CASE id = n + 1
    <3>1. queries'[id].since = Len(loads) /\ queries'[id].st = "sent" BY <1>3, <2>1
    <3>2. Len(loads) \in Nat /\ UNCHANGED loads BY <1>1, ReportsParts
    <3>3. queries'[id].since <= Len(loads') /\ queries'[id].st # "cleared" BY <3>1, <3>2
    <3> QED BY <3>3 DEF QueryHolds
  <2>2. CASE id # n + 1
    <3>1. id \in 1..n BY <1>2, <2>2
    <3>2. QueryHolds(id) /\ queries'[id] = queries[id] BY <1>3, <3>1, ReportsParts DEF n
    <3>3. UNCHANGED <<loads, entries>> BY <1>1
    <3> QED BY <3>2, <3>3 DEF QueryHolds
  <2> QED BY <2>1, <2>2
<1>8. ASSUME NEW msg \in ToSet(mail) PROVE MailHolds(msg)'
  <2>1. MailHolds(msg) /\ msg.ask \in 1..n /\ msg.ask \in 1..(n + 1) BY <1>2 DEF ReportsInv, MailHolds, n
  <2> QED BY <1>3, <2>1 DEF MailHolds
<1>9. WaitsOnce' BY <1>1 DEF ReportsInv, WaitsOnce
<1>10. ViewHolds'
  <2>1. view'.ask = n + 1 /\ view'.chain = c /\ view'.loading BY <1>1
  <2>2. queries'[n + 1].st = "sent" /\ queries'[n + 1].chain = c BY <1>3
  <2>3. ShownHolds'
    <3>1. view'.opened = opened /\ view'.report = report BY <1>1
    <3>2. ViewHolds /\ ShownHolds /\ view.opened \in Nat BY DEF ReportsInv, ReportsTyped, ViewOf, ViewHolds
    <3>3. CASE opened = n + 1 /\ report = NoReport BY <1>2, <1>3, <3>1, <3>3 DEF ShownHolds
    <3>4. CASE opened = view.opened /\ report = view.report
      <4>1. opened <= n + 1 BY <1>2, <3>2, <3>4 DEF ShownHolds, n
      <4>2. ASSUME report # NoReport
            PROVE  \E id \in 1..(n + 1) : opened <= id /\ queries'[id].chain = report.chain
        <5>1. PICK id \in 1..n : view.opened <= id /\ queries[id].chain = view.report.chain
          BY <3>2, <3>4, <4>2 DEF ShownHolds, n
        <5>2. id \in 1..(n + 1) /\ queries'[id].chain = queries[id].chain BY <1>2, <1>3, <5>1
        <5> QED BY <3>4, <5>1, <5>2
      <4> QED BY <1>3, <3>1, <4>1, <4>2 DEF ShownHolds
    <3> QED BY <3>3, <3>4 DEF n
  <2> QED BY <1>2, <1>3, <2>1, <2>2, <2>3 DEF ViewHolds, Awaits
<1> QED BY <1>1, <1>3, <1>4, <1>5, <1>6, <1>7, <1>8, <1>9, <1>10 DEF ReportsInv

\* ... once more about the chain it is on.
LEMMA RefreshStep == ASSUME ReportsInv, Refresh PROVE ReportsInv'
<1>1. view.ask # 0 /\ AskReport(view.chain, TRUE, view.opened, view.report) BY DEF Refresh
<1>2. view.ask \in 1..Len(queries) /\ view.chain = queries[view.ask].chain
  BY <1>1, ReportsParts DEF ReportsInv, ViewHolds
<1>3. view.chain \in Networks BY <1>2, ReportsParts DEF Query
<1> QED BY <1>1, <1>3, AskReportStep

\* The screen takes a message.
LEMMA ShowMailStep == ASSUME ReportsInv, ShowMail PROVE ReportsInv'
<1> DEFINE m == Head(mail)
<1>1. /\ mail # <<>> /\ mail' = Tail(mail)
      /\ view' = IF m.ask = view.ask THEN [view EXCEPT !.report = m.report, !.loading = FALSE] ELSE view
      /\ UNCHANGED <<minute, queries, loads, entries, pulled, shelf>>
  BY DEF ShowMail, IsCurrent
<1>2. mail' \in Seq(MailOf) /\ ToSet(mail) = {m} \cup ToSet(mail')
  BY <1>1, CutOnes DEF ReportsInv, ReportsTyped
<1>3. m \in MailOf /\ MailHolds(m) BY <1>2, ReportsParts DEF ReportsInv
<1> HIDE DEF m
<1>4. ReportsTyped' BY <1>1, <1>2, <1>3 DEF ReportsInv, ReportsTyped, MailOf, ViewOf
<1>5. \A c \in Networks : EntryHolds(c)' /\ KeptOf(shelf[c], c)' BY <1>1 DEF ReportsInv, EntryHolds, KeptOf
<1>6. \A l \in 1..Len(loads) : LoadHolds(l)' BY <1>1 DEF ReportsInv, LoadHolds
<1>7. \A id \in 1..Len(queries) : QueryHolds(id)' BY <1>1 DEF ReportsInv, QueryHolds
<1>8. \A msg \in ToSet(mail') : MailHolds(msg)' BY <1>1, <1>2 DEF ReportsInv, MailHolds
<1>9. WaitsOnce' BY <1>1 DEF ReportsInv, WaitsOnce
<1>10. ViewHolds'
  <2>1. ViewHolds /\ ShownHolds /\ view.ask \in Nat BY DEF ReportsInv, ReportsTyped, ViewOf, ViewHolds
  <2>2. CASE m.ask = view.ask
    <3>1. /\ view'.ask = view.ask /\ view'.chain = view.chain /\ view'.report = m.report /\ view'.loading = FALSE
          /\ view'.opened = view.opened
      BY <1>1, <2>2 DEF ReportsInv, ReportsTyped, ViewOf
    <3>2. view.ask # 0 => m.report.chain = view.chain BY <1>3, <2>1, <2>2 DEF MailHolds, ViewHolds
    <3>3. ShownHolds'
      <4>1. view.ask \in 1..Len(queries) /\ queries[view.ask].chain = m.report.chain BY <1>3, <2>2 DEF MailHolds
      <4>2. view.opened <= view.ask BY <2>1 DEF ViewHolds, ShownHolds
      <4>3. view'.opened = view.opened /\ view'.report = m.report /\ UNCHANGED queries BY <1>1, <3>1
      <4>4. view'.opened <= Len(queries') BY <2>1, <4>3 DEF ShownHolds
      <4>5. \E id \in 1..Len(queries') : view'.opened <= id /\ queries'[id].chain = view'.report.chain
        BY <4>1, <4>2, <4>3
      <4> QED BY <4>4, <4>5 DEF ShownHolds
    <3> QED BY <1>1, <2>1, <3>1, <3>2, <3>3 DEF ViewHolds
  <2>3. CASE m.ask # view.ask
    <3>1. UNCHANGED view BY <1>1, <2>3
    <3>2. Awaits => Awaits' BY <1>1, <1>2, <2>3, <3>1 DEF Awaits
    <3>3. ShownHolds' BY <1>1, <2>1, <3>1 DEF ShownHolds
    <3> QED BY <1>1, <2>1, <3>1, <3>2, <3>3 DEF ViewHolds
  <2> QED BY <2>2, <2>3
<1> QED BY <1>1, <1>4, <1>5, <1>6, <1>7, <1>8, <1>9, <1>10 DEF ReportsInv

\* What is shown stays so while the asks are about the chains they were about.
LEMMA ShownKept ==
  ASSUME ShownHolds, UNCHANGED view, Len(queries') = Len(queries),
         \A i \in 1..Len(queries) : queries'[i].chain = queries[i].chain
  PROVE  ShownHolds'
BY DEF ShownHolds

\* A refresh drops the entry of its chain.
LEMMA ArriveStep == ASSUME ReportsInv, NEW id \in 1..Len(queries), ArriveFresh(id) PROVE ReportsInv'
<1> DEFINE c == queries[id].chain
<1>1. /\ queries[id].st = "sent" /\ queries' = [queries EXCEPT ![id].st = "cleared"]
      /\ entries' = [entries EXCEPT ![c] = NoReportEntry]
      /\ UNCHANGED <<minute, view, mail, loads, pulled, shelf>>
  BY DEF ArriveFresh, Invalidated
<1>2. c \in Networks BY ReportsParts DEF Query
<1>3. /\ queries' \in Seq(Query) /\ Len(queries') = Len(queries) /\ queries'[id].st = "cleared"
      /\ \A i \in 1..Len(queries) :
           /\ queries'[i].chain = queries[i].chain /\ queries'[i].fresh = queries[i].fresh
           /\ queries'[i].since = queries[i].since
           /\ i # id => queries'[i] = queries[i]
  BY <1>1, AskMarked DEF ReportsInv
<1>4. \A d \in Networks : entries'[d] = IF d = c THEN NoReportEntry ELSE entries[d]
  BY <1>1, <1>2 DEF ReportsInv, ReportsTyped
<1>5. ReportsTyped' BY <1>1, <1>2, <1>3, NothingIs DEF ReportsInv, ReportsTyped
<1> HIDE DEF c
<1>6. ASSUME NEW d \in Networks PROVE EntryHolds(d)' /\ KeptOf(shelf[d], d)'
  <2>1. CASE d = c
    <3>1. entries'[d].load = 0 /\ entries'[d].report = NoReport BY <1>4, <2>1, NothingIs
    <3> QED BY <1>1, <3>1, ReportsParts DEF EntryHolds, KeptOf
  <2>2. CASE d # c BY <1>1, <1>4, <2>2, ReportsParts DEF EntryHolds, KeptOf
  <2> QED BY <2>1, <2>2
<1>7. ASSUME NEW l \in 1..Len(loads) PROVE LoadHolds(l)'
  <2>1. LoadHolds(l) /\ id \notin loads[l].waiting BY <1>1, ReportsParts DEF LoadHolds
  <2> QED BY <1>1, <1>3, <2>1 DEF LoadHolds
<1>8. ASSUME NEW i \in 1..Len(queries) PROVE QueryHolds(i)'
  <2>1. QueryHolds(i) /\ queries[i].chain \in Networks BY ReportsParts DEF Query
  <2>2. CASE queries[i].chain = c
    <3>1. entries'[queries'[i].chain].load = 0 BY <1>3, <1>4, <2>1, <2>2, NothingIs
    <3> QED BY <1>1, <1>3, <2>1, <3>1 DEF QueryHolds
  <2>3. CASE queries[i].chain # c
    <3>1. i # id /\ entries'[queries[i].chain] = entries[queries[i].chain] BY <1>4, <2>1, <2>3 DEF c
    <3> QED BY <1>1, <1>3, <2>1, <3>1 DEF QueryHolds
  <2> QED BY <2>2, <2>3
<1>9. \A msg \in ToSet(mail) : MailHolds(msg)' BY <1>3 DEF ReportsInv, MailHolds
<1>10. WaitsOnce' BY <1>1 DEF ReportsInv, WaitsOnce
<1>11. ViewHolds'
  <2>1. ViewHolds /\ view.ask \in Nat BY DEF ReportsInv, ReportsTyped, ViewOf
  <2>2. view.ask # 0 => view.ask \in 1..Len(queries) BY <2>1, ReportsParts DEF ViewHolds
  <2>3. view.ask # 0 /\ Awaits => Awaits' BY <1>1, <1>3, <2>2 DEF Awaits
  <2>4. ShownHolds' BY <1>1, <1>3, <2>1, ShownKept DEF ViewHolds
  <2> QED BY <1>1, <1>3, <2>1, <2>2, <2>3, <2>4 DEF ViewHolds
<1> QED BY <1>1, <1>3, <1>5, <1>6, <1>7, <1>8, <1>9, <1>10, <1>11 DEF ReportsInv

\* Whose turn it is to be given a load waits for none, and what is in the entry after a refresh
\* was cleared began after it was asked.
LEMMA TakerIs ==
  ASSUME ReportsInv, NEW id \in 1..Len(queries), Ready(id)
  PROVE  /\ queries[id].chain \in Networks /\ queries[id].since \in Nat
         /\ \A l \in 1..Len(loads) : id \notin loads[l].waiting
         /\ queries[id].fresh /\ entries[queries[id].chain].load # 0 =>
              queries[id].since < entries[queries[id].chain].load
<1>1. queries[id] \in Query /\ QueryHolds(id) BY ReportsParts
<1>2. queries[id].st \in {"sent", "cleared"} /\ (queries[id].fresh => queries[id].st = "cleared")
  BY <1>1 DEF Ready, Query
<1>3. \A l \in 1..Len(loads) : id \notin loads[l].waiting BY <1>2, ReportsParts DEF LoadHolds
<1> QED BY <1>1, <1>2, <1>3 DEF Query, QueryHolds

\* What is sent to one who asked about a chain, of that chain
LEMMA UpdateIs ==
  ASSUME ReportsInv, NEW id \in 1..Len(queries), NEW r \in AnyReport, r.chain = queries[id].chain
  PROVE  Update(id, r) \in MailOf /\ MailHolds(Update(id, r))
<1>1. id \in Nat BY ReportsParts
<1>2. /\ Update(id, r).ask = id /\ Update(id, r).kind = "update" /\ Update(id, r).report = r
      /\ Update(id, r) \in MailOf
  BY <1>1 DEF Update, MailOf
<1> QED BY <1>2 DEF MailHolds

\* Asks that stay the same but for their state: mail stays right.
LEMMA MailKept ==
  ASSUME ReportsInv, Len(queries') = Len(queries), NEW msg, MailHolds(msg),
         \A i \in 1..Len(queries) : /\ queries'[i].chain = queries[i].chain /\ queries'[i].fresh = queries[i].fresh
                                    /\ queries'[i].since = queries[i].since
  PROVE  MailHolds(msg)'
BY DEF MailHolds

\* A screen that waited for an answer still does.
LEMMA ViewKept ==
  ASSUME ReportsInv, UNCHANGED view, Len(queries') = Len(queries),
         \A i \in 1..Len(queries) : queries'[i].chain = queries[i].chain,
         view.ask \in 1..Len(queries) /\ Awaits => Awaits'
  PROVE  ViewHolds'
<1>1. ViewHolds /\ Len(queries) \in Nat BY ReportsParts DEF ReportsInv
<1>2. view.ask # 0 => view.ask \in 1..Len(queries) BY <1>1 DEF ViewHolds
<1>3. ShownHolds' BY <1>1, ShownKept DEF ViewHolds
<1> QED BY <1>1, <1>2, <1>3 DEF ViewHolds

\* What is kept stays what it was, while no load is forgotten.
LEMMA KeptStays ==
  ASSUME Len(loads) \in Nat, Len(loads') \in Nat, Len(loads) <= Len(loads'), NEW r, NEW c, KeptOf(r, c),
         r = NoReport \/ r.load \in Nat
  PROVE  KeptOf(r, c)'
<1>1. CASE r = NoReport BY <1>1 DEF KeptOf
<1>2. CASE r # NoReport
  <2>1. r.chain = c /\ r.load <= Len(loads) /\ r.load \in Nat BY <1>2 DEF KeptOf
  <2>2. r.load <= Len(loads') BY <2>1
  <2> QED BY <2>1, <2>2 DEF KeptOf
<1> QED BY <1>1, <1>2

\* An ask shares the load of its chain's entry while it runs ...
LEMMA ShareRunning ==
  ASSUME ReportsInv, NEW id \in 1..Len(queries), Ready(id), ShareLoad(id, queries[id].chain),
         loads[entries[queries[id].chain].load].st = "running", UNCHANGED <<minute, view, shelf>>
  PROVE  ReportsInv'
<1> DEFINE c == queries[id].chain
           l == entries[c].load
           msgs == IF Has(entries[c].report) THEN <<Update(id, Peek(c)), Update(id, entries[c].report)>>
                   ELSE IF Has(shelf[c]) THEN <<Update(id, shelf[c])>> ELSE <<>>
<1>1. /\ entries[c].load # 0 /\ UNCHANGED <<entries, pulled>>
      /\ loads' = [loads EXCEPT ![l].waiting = @ \cup {id}]
      /\ queries' = [queries EXCEPT ![id].st = "waiting"]
      /\ Mailed(msgs)
  BY DEF ShareLoad, Shares
<1>2. /\ c \in Networks /\ queries[id].since \in Nat /\ \A m \in 1..Len(loads) : id \notin loads[m].waiting
      /\ queries[id].fresh => queries[id].since < l
  BY <1>1, TakerIs
<1>3. entries[c] \in EntryOf /\ shelf[c] \in AnyReport /\ EntryHolds(c) /\ KeptOf(shelf[c], c) BY <1>2, ReportsParts
<1>4. l \in 1..Len(loads) /\ loads[l].chain = c /\ id \in Nat
  BY <1>1, <1>3, ReportsParts DEF EntryHolds, EntryOf
<1>5. msgs \in Seq(MailOf) /\ \A msg \in ToSet(msgs) : MailHolds(msg)
  <2>1. CASE Has(entries[c].report)
    <3>1. entries[c].report.chain = c /\ entries[c].report \in AnyReport
      BY <1>3, <2>1 DEF Has, EntryHolds, KeptOf, EntryOf
    <3>2. msgs = <<Update(id, entries[c].report), Update(id, entries[c].report)>> BY <2>1 DEF Peek
    <3> DEFINE u == Update(id, entries[c].report)
    <3>3. u \in MailOf /\ MailHolds(u) BY <3>1, UpdateIs
    <3> HIDE DEF msgs, u
    <3>4. <<u, u>> \in Seq(MailOf) /\ ToSet(<<u, u>>) = {u, u} BY <3>3, FewOnes
    <3>5. msgs = <<u, u>> BY <3>2 DEF u
    <3> QED BY <3>3, <3>4, <3>5
  <2>2. CASE ~Has(entries[c].report) /\ Has(shelf[c])
    <3>1. shelf[c].chain = c BY <1>3, <2>2 DEF Has, KeptOf
    <3>2. msgs = <<Update(id, shelf[c])>> BY <2>2
    <3> DEFINE u == Update(id, shelf[c])
    <3>3. u \in MailOf /\ MailHolds(u) BY <1>3, <3>1, UpdateIs
    <3> HIDE DEF msgs, u
    <3>4. <<u>> \in Seq(MailOf) /\ ToSet(<<u>>) = {u} BY <3>3, FewOnes
    <3>5. msgs = <<u>> BY <3>2 DEF u
    <3> QED BY <3>3, <3>4, <3>5
  <2>3. CASE ~Has(entries[c].report) /\ ~Has(shelf[c])
    <3>1. msgs = <<>> BY <2>3
    <3> QED BY <3>1 DEF ToSet
  <2> QED BY <2>1, <2>2, <2>3
<1> HIDE DEF msgs
<1>6. mail' \in Seq(MailOf) /\ ToSet(mail') = ToSet(mail) \cup ToSet(msgs)
  BY <1>1, <1>5, MailArrives DEF ReportsInv
<1>7. /\ queries' \in Seq(Query) /\ Len(queries') = Len(queries) /\ queries'[id].st = "waiting"
      /\ \A i \in 1..Len(queries) :
           /\ queries'[i].chain = queries[i].chain /\ queries'[i].fresh = queries[i].fresh
           /\ queries'[i].since = queries[i].since
           /\ i # id => queries'[i] = queries[i]
  BY <1>1, AskMarked DEF ReportsInv
<1> DEFINE r == [loads[l] EXCEPT !.waiting = @ \cup {id}]
<1>8. loads[l] \in LoadOf /\ LoadHolds(l) BY <1>4, ReportsParts
<1>9. /\ r \in LoadOf /\ r.chain = loads[l].chain /\ r.st = loads[l].st /\ r.for = loads[l].for
      /\ r.final = loads[l].final /\ r.waiting = loads[l].waiting \cup {id}
  <2> HIDE DEF l, c
  <2>1. loads[l].waiting \cup {id} \in SUBSET Nat BY <1>4, <1>8 DEF LoadOf
  <2> QED BY <1>8, <2>1 DEF LoadOf
<1>10. loads' = [loads EXCEPT ![l] = r] BY <1>1
<1> HIDE DEF r, l, c
<1>11. /\ loads' \in Seq(LoadOf) /\ Len(loads') = Len(loads) /\ loads'[l] = r
       /\ \A m \in 1..Len(loads) : m # l => loads'[m] = loads[m]
  BY <1>4, <1>9, <1>10, LoadMarked DEF ReportsInv
<1>12. ReportsTyped' BY <1>1, <1>6, <1>7, <1>11 DEF ReportsInv, ReportsTyped
<1>13. ASSUME NEW d \in Networks PROVE EntryHolds(d)' /\ KeptOf(shelf[d], d)'
  <2>1. EntryHolds(d) /\ KeptOf(shelf[d], d) /\ entries[d].load \in Nat BY ReportsParts DEF EntryOf
  <2>2. entries[d].load # 0 => entries[d].load \in 1..Len(loads) BY <2>1, ReportsParts DEF EntryHolds
  <2>3. \A m \in 1..Len(loads) : loads'[m].chain = loads[m].chain /\ loads'[m].st = loads[m].st
    BY <1>4, <1>9, <1>11
  <2> QED BY <1>1, <1>11, <2>1, <2>2, <2>3 DEF EntryHolds, KeptOf
<1>14. ASSUME NEW m \in 1..Len(loads) PROVE LoadHolds(m)'
  <2>1. LoadHolds(m) BY ReportsParts
  <2>2. CASE m = l
    <3>0. IsFiniteSet(loads[l].waiting) BY <1>8 DEF LoadHolds
    <3>1. IsFiniteSet(r.waiting)
      <4>1. IsFiniteSet(loads[l].waiting \cup {id}) BY <3>0, FS_AddElement
      <4> QED BY <1>9, <4>1
    <3>2. \A i \in loads[l].waiting : i # id BY <1>2, <1>4
    <3>3. r.st = "running" BY <1>9 DEF l, c
    <3>4. loads'[m] = r BY <1>11, <2>2
    <3>5. ASSUME NEW i \in r.waiting
          PROVE  /\ i \in 1..Len(queries) /\ queries'[i].chain = c /\ queries'[i].st = "waiting"
                 /\ queries'[i].fresh => queries'[i].since < l
      <4>1. CASE i = id BY <1>2, <1>7, <4>1 DEF c
      <4>2. CASE i # id
        <5>1. i \in loads[l].waiting /\ queries'[i] = queries[i] BY <1>7, <1>8, <1>9, <3>5, <4>2 DEF LoadHolds
        <5> QED BY <1>4, <1>8, <5>1 DEF LoadHolds
      <4> QED BY <4>1, <4>2
    <3>6. r.for \in 1..Len(queries) /\ queries'[r.for].chain = c BY <1>4, <1>7, <1>8, <1>9 DEF LoadHolds
    <3> QED BY <1>4, <1>7, <1>9, <2>2, <3>1, <3>3, <3>4, <3>5, <3>6 DEF LoadHolds
  <2>3. CASE m # l
    <3>1. loads'[m] = loads[m] /\ id \notin loads[m].waiting BY <1>2, <1>11, <2>3
    <3> QED BY <1>7, <2>1, <3>1 DEF LoadHolds
  <2> QED BY <2>2, <2>3
<1>15. WaitsOnce' BY <1>2, <1>4, <1>9, <1>11 DEF ReportsInv, WaitsOnce
<1>16. ASSUME NEW i \in 1..Len(queries) PROVE QueryHolds(i)'
  <2>1. QueryHolds(i) BY ReportsParts
  <2> QED BY <1>1, <1>7, <1>11, <2>1 DEF QueryHolds
<1>17. \A msg \in ToSet(mail') : MailHolds(msg)' BY <1>5, <1>6, <1>7, MailKept DEF ReportsInv
<1>18. ViewHolds'
  <2>1. ASSUME view.ask \in 1..Len(queries), Awaits PROVE Awaits'
    <3>1. CASE view.ask = id
      <4>1. loads'[l].st = "running" /\ view.ask \in loads'[l].waiting BY <1>9, <1>11, <3>1 DEF l, c
      <4> QED BY <1>4, <1>11, <4>1 DEF Awaits
    <3>2. CASE view.ask # id
      <4>1. queries'[view.ask] = queries[view.ask] BY <1>7, <2>1, <3>2
      <4>2. \A m \in 1..Len(loads) : loads'[m].st = loads[m].st /\ loads[m].waiting \subseteq loads'[m].waiting
        BY <1>4, <1>9, <1>11
      <4> QED BY <1>6, <1>11, <2>1, <4>1, <4>2 DEF Awaits
    <3> QED BY <3>1, <3>2
  <2> QED BY <1>7, <2>1, ViewKept
<1> QED BY <1>7, <1>11, <1>12, <1>13, <1>14, <1>15, <1>16, <1>17, <1>18 DEF ReportsInv

\* ... or has its report at once.
LEMMA ShareEnded ==
  ASSUME ReportsInv, NEW id \in 1..Len(queries), Ready(id), ShareLoad(id, queries[id].chain),
         loads[entries[queries[id].chain].load].st # "running", UNCHANGED <<minute, view, shelf>>
  PROVE  ReportsInv'
<1> DEFINE c == queries[id].chain
           l == entries[c].load
           first == Update(id, Peek(c))
           second == ReportResult(id, loads[l].final)
<1>1. /\ entries[c].load # 0 /\ UNCHANGED <<entries, pulled, loads>>
      /\ queries' = [queries EXCEPT ![id].st = "done"]
      /\ Mailed(<<first, second>>)
  BY DEF ShareLoad, Shares
<1>2. /\ c \in Networks /\ queries[id].since \in Nat /\ \A m \in 1..Len(loads) : id \notin loads[m].waiting
      /\ queries[id].fresh => queries[id].since < l
  BY <1>1, TakerIs
<1>3. entries[c] \in EntryOf /\ EntryHolds(c) BY <1>2, ReportsParts
<1>4. l \in 1..Len(loads) /\ loads[l].chain = c /\ loads[l].st = "done" /\ id \in Nat
  BY <1>1, <1>3, ReportsParts DEF EntryHolds, EntryOf
<1>5. loads[l] \in LoadOf /\ LoadHolds(l) BY <1>4, ReportsParts
<1>6. first \in MailOf /\ MailHolds(first)
  <2>1. Has(entries[c].report) BY <1>1, <1>3, <1>4 DEF EntryHolds, Has
  <2>2. entries[c].report.chain = c /\ entries[c].report \in AnyReport
    BY <1>3, <2>1 DEF EntryHolds, KeptOf, Has, EntryOf
  <2>3. first = Update(id, entries[c].report) BY <2>1 DEF Peek
  <2> QED BY <2>2, <2>3, UpdateIs
<1>7. second \in MailOf /\ MailHolds(second)
  <2> DEFINE final == loads[l].final
  <2> HIDE DEF second, l, c
  <2>1. final \in AnyReport BY <1>5 DEF LoadOf
  <2>2. final.chain = c /\ final.load = l BY <1>4, <1>5 DEF LoadHolds
  <2> HIDE DEF final
  <2>3. second = [ask |-> id, kind |-> "result", report |-> final] BY DEF ReportResult, final, second, l, c
  <2>4. id \in Nat BY <1>4
  <2>5. second \in MailOf BY <2>1, <2>3, <2>4 DEF MailOf
  <2>6. id \in 1..Len(queries) /\ final.chain = queries[id].chain BY <2>2 DEF c
  <2>7. queries[id].fresh => queries[id].since < final.load BY <1>2, <2>2
  <2>8. second.ask = id /\ second.kind = "result" /\ second.report = final BY <2>3
  <2> QED BY <2>5, <2>6, <2>7, <2>8 DEF MailHolds
<1> HIDE DEF first, second
<1>8. mail' \in Seq(MailOf) /\ ToSet(mail') = ToSet(mail) \cup {first, second}
  <2>1. ReportsTyped BY DEF ReportsInv
  <2>2. first \in MailOf /\ second \in MailOf BY <1>6, <1>7
  <2>3. Mailed(<<first, second>>) BY <1>1
  <2> QED BY <2>1, <2>2, <2>3, BothArrive
<1>9. /\ queries' \in Seq(Query) /\ Len(queries') = Len(queries) /\ queries'[id].st = "done"
      /\ \A i \in 1..Len(queries) :
           /\ queries'[i].chain = queries[i].chain /\ queries'[i].fresh = queries[i].fresh
           /\ queries'[i].since = queries[i].since
           /\ i # id => queries'[i] = queries[i]
  BY <1>1, AskMarked DEF ReportsInv
<1> HIDE DEF l, c
<1>10. ReportsTyped' BY <1>1, <1>8, <1>9 DEF ReportsInv, ReportsTyped
<1>11. \A d \in Networks : EntryHolds(d)' /\ KeptOf(shelf[d], d)' BY <1>1 DEF ReportsInv, EntryHolds, KeptOf
<1>12. ASSUME NEW m \in 1..Len(loads) PROVE LoadHolds(m)'
  <2>1. LoadHolds(m) /\ id \notin loads[m].waiting BY <1>2, ReportsParts
  <2> QED BY <1>1, <1>9, <2>1 DEF LoadHolds
<1>13. WaitsOnce' BY <1>1 DEF ReportsInv, WaitsOnce
<1>14. ASSUME NEW i \in 1..Len(queries) PROVE QueryHolds(i)'
  <2>1. QueryHolds(i) BY ReportsParts
  <2> QED BY <1>1, <1>9, <2>1 DEF QueryHolds
<1>15. \A msg \in ToSet(mail') : MailHolds(msg)' BY <1>6, <1>7, <1>8, <1>9, MailKept DEF ReportsInv
<1>16. ViewHolds'
  <2>1. ASSUME view.ask \in 1..Len(queries), Awaits PROVE Awaits'
    <3>1. CASE view.ask = id
      <4>1. first.ask = id BY DEF first, Update
      <4> QED BY <1>1, <1>8, <3>1, <4>1 DEF Awaits
    <3>2. CASE view.ask # id
      <4>1. queries'[view.ask] = queries[view.ask] BY <1>9, <2>1, <3>2
      <4> QED BY <1>1, <1>8, <2>1, <4>1 DEF Awaits
    <3> QED BY <3>1, <3>2
  <2> QED BY <1>9, <2>1, <1>1, ViewKept
<1> QED BY <1>1, <1>9, <1>10, <1>11, <1>12, <1>13, <1>14, <1>15, <1>16 DEF ReportsInv

\* Or a load begins, of which the entry knows at once.
LEMMA BeginStep ==
  ASSUME ReportsInv, NEW id \in 1..Len(queries), Ready(id), BeginLoad(id, queries[id].chain),
         UNCHANGED <<minute, view, shelf>>
  PROVE  ReportsInv'
<1> DEFINE c == queries[id].chain
           l == Len(loads) + 1
           prior == entries[c].report
           kept == IF Has(prior) THEN NoReport ELSE shelf[c]
           shown == IF Has(prior) THEN prior ELSE kept
           msgs == IF Has(prior) THEN <<Update(id, prior)>>
                   ELSE IF Has(kept) THEN <<Update(id, kept), Update(id, kept)>> ELSE <<>>
           r == NewLoad(c, id, kept)
<1>1. /\ loads' = Append(loads, r)
      /\ entries' = [entries EXCEPT ![c] = [load |-> l, report |-> shown]]
      /\ pulled' = [s \in CachedSources |->
           IF StillPulled(s, c) THEN pulled[s]
           ELSE [pulled[s] EXCEPT ![c] = [load |-> l, expires |-> minute + SourceTtl]]]
      /\ queries' = [queries EXCEPT ![id].st = "waiting"]
      /\ Mailed(msgs)
  BY DEF BeginLoad
<1>2. /\ c \in Networks /\ queries[id].since \in Nat /\ \A m \in 1..Len(loads) : id \notin loads[m].waiting
  BY TakerIs
<1>3. entries[c] \in EntryOf /\ shelf[c] \in AnyReport /\ EntryHolds(c) /\ KeptOf(shelf[c], c) BY <1>2, ReportsParts
<1>4. Len(loads) \in Nat /\ l \in Nat /\ l # 0 /\ id \in Nat /\ queries[id].since <= Len(loads)
  BY ReportsParts DEF QueryHolds
<1>5. kept \in AnyReport /\ shown \in AnyReport /\ KeptOf(shown, c) /\ (Has(prior) => prior.chain = c)
      /\ (Has(kept) => kept.chain = c)
  BY <1>3, NothingIs DEF EntryHolds, EntryOf, KeptOf, Has
<1>6. msgs \in Seq(MailOf) /\ \A msg \in ToSet(msgs) : MailHolds(msg)
  <2> DEFINE u == Update(id, prior)
             v == Update(id, kept)
  <2>1. CASE Has(prior)
    <3>1. u \in MailOf /\ MailHolds(u) BY <1>3, <1>5, <2>1, UpdateIs DEF EntryOf
    <3>2. msgs = <<u>> BY <2>1
    <3> HIDE DEF msgs, u
    <3>3. <<u>> \in Seq(MailOf) /\ ToSet(<<u>>) = {u} BY <3>1, FewOnes
    <3> QED BY <3>1, <3>2, <3>3
  <2>2. CASE ~Has(prior) /\ Has(kept)
    <3>1. v \in MailOf /\ MailHolds(v) BY <1>5, <2>2, UpdateIs
    <3>2. msgs = <<v, v>> BY <2>2
    <3> HIDE DEF msgs, v
    <3>3. <<v, v>> \in Seq(MailOf) /\ ToSet(<<v, v>>) = {v, v} BY <3>1, FewOnes
    <3> QED BY <3>1, <3>2, <3>3
  <2>3. CASE ~Has(prior) /\ ~Has(kept)
    <3>1. msgs = <<>> BY <2>3
    <3> QED BY <3>1 DEF ToSet
  <2> QED BY <2>1, <2>2, <2>3
<1> HIDE DEF msgs, shown
<1>7. mail' \in Seq(MailOf) /\ ToSet(mail') = ToSet(mail) \cup ToSet(msgs)
  BY <1>1, <1>6, MailArrives DEF ReportsInv
<1>8. /\ queries' \in Seq(Query) /\ Len(queries') = Len(queries) /\ queries'[id].st = "waiting"
      /\ \A i \in 1..Len(queries) :
           /\ queries'[i].chain = queries[i].chain /\ queries'[i].fresh = queries[i].fresh
           /\ queries'[i].since = queries[i].since
           /\ i # id => queries'[i] = queries[i]
  BY <1>1, AskMarked DEF ReportsInv
<1>9. r \in LoadOf /\ r.chain = c /\ r.st = "running" /\ r.for = id /\ r.waiting = {id}
  <2>1. minute \in Nat /\ \A s \in CachedSources : pulled[s][c].load \in Nat
    BY <1>2 DEF ReportsInv, ReportsTyped
  <2>2. [s \in CachedSources |-> FetchFor(s, c, Len(loads) + 1)] \in [CachedSources -> Nat]
    BY <1>4, <2>1 DEF FetchFor
  <2>3. [s \in CachedSources |-> IF StillPulled(s, c) THEN "none" ELSE "running"]
           \in [CachedSources -> {"none", "running", "ok", "failed"}]
    OBVIOUS
  <2> HIDE DEF kept, c
  <2>4. r = [chain |-> c, begun |-> minute, st |-> "running", for |-> id, waiting |-> {id}, disk |-> kept,
             fetch |-> [s \in CachedSources |-> FetchFor(s, c, Len(loads) + 1)],
             own |-> [s \in CachedSources |-> IF StillPulled(s, c) THEN "none" ELSE "running"],
             settled |-> {}, parts |-> {}, final |-> NoReport]
    BY DEF NewLoad
  <2> QED BY <1>2, <1>4, <1>5, <2>1, <2>2, <2>3, <2>4, NothingIs DEF LoadOf
<1> HIDE DEF r, kept, prior
<1>10. /\ loads' \in Seq(LoadOf) /\ Len(loads') = l /\ loads'[l] = r
       /\ \A m \in 1..Len(loads) : loads'[m] = loads[m]
  BY <1>1, <1>9 DEF ReportsInv, ReportsTyped
<1>11. \A d \in Networks : entries'[d] = IF d = c THEN [load |-> l, report |-> shown] ELSE entries[d]
  BY <1>1 DEF ReportsInv, ReportsTyped
<1> DEFINE e == [load |-> l, report |-> shown]
<1>12. e \in EntryOf /\ e.load = l /\ e.report = shown BY <1>4, <1>5 DEF EntryOf
<1>13. ReportsTyped'
  <2>1. entries' \in [Networks -> EntryOf]
    <3> HIDE DEF e, c, l
    <3> QED BY <1>1, <1>12 DEF ReportsInv, ReportsTyped, e
  <2>2. pulled' \in [CachedSources -> [Networks -> [load : Nat, expires : Nat]]]
    <3>1. minute + SourceTtl \in Nat BY ReportsAssumption DEF ReportsInv, ReportsTyped
    <3>2. [load |-> l, expires |-> minute + SourceTtl] \in [load : Nat, expires : Nat] BY <1>4, <3>1
    <3> DEFINE x == [load |-> l, expires |-> minute + SourceTtl]
    <3> HIDE DEF x, c, l
    <3>3. \A s \in CachedSources : pulled[s] \in [Networks -> [load : Nat, expires : Nat]]
      BY DEF ReportsInv, ReportsTyped
    <3>4. \A s \in CachedSources : [pulled[s] EXCEPT ![c] = x] \in [Networks -> [load : Nat, expires : Nat]]
      BY <3>2, <3>3 DEF x
    <3> QED BY <1>1, <3>3, <3>4 DEF x
  <2> QED BY <1>7, <1>8, <1>10, <2>1, <2>2 DEF ReportsInv, ReportsTyped
<1>14. ASSUME NEW d \in Networks PROVE EntryHolds(d)' /\ KeptOf(shelf[d], d)'
  <2>1. /\ EntryHolds(d) /\ KeptOf(shelf[d], d) /\ entries[d] \in EntryOf /\ shelf[d] \in AnyReport
    BY ReportsParts
  <2>2. Len(loads) <= Len(loads') /\ Len(loads') \in Nat BY <1>4, <1>10
  <2>3. KeptOf(shelf[d], d)'
    <3>1. \A x \in AnyReport : x.load \in Nat BY DEF AnyReport
    <3>2. KeptOf(shelf[d], d)' <=> (shelf[d] = NoReport \/ (shelf[d].chain = d /\ shelf[d].load <= Len(loads')))
      BY DEF KeptOf
    <3> QED BY <1>4, <2>1, <2>2, <3>1, <3>2 DEF KeptOf
  <2>4. CASE d = c
    <3>1. entries'[d].load = l /\ entries'[d].report = shown BY <1>11, <1>12, <2>4
    <3>2. shown.load <= Len(loads) /\ shown.load \in Nat /\ (shown = NoReport \/ shown.chain = d)
      BY <1>4, <1>5, <2>4, NothingIs DEF KeptOf, AnyReport
    <3>3. shown.load <= l /\ l <= Len(loads') BY <1>4, <1>10, <3>2
    <3>4. loads'[l].chain = d /\ loads'[l].st = "running" BY <1>9, <1>10, <2>4
    <3> QED BY <1>10, <2>3, <3>1, <3>2, <3>3, <3>4 DEF EntryHolds, KeptOf
  <2>5. CASE d # c
    <3>1. entries'[d] = entries[d] BY <1>11, <2>5
    <3>2. entries[d].load \in Nat /\ entries[d].report \in AnyReport /\ entries[d].report.load \in Nat
      BY <2>1 DEF EntryOf, AnyReport
    <3>3. entries[d].load # 0 => loads'[entries[d].load] = loads[entries[d].load]
      BY <1>4, <1>10, <2>1, <3>2 DEF EntryHolds
    <3>4. entries[d].load <= Len(loads') BY <1>4, <2>1, <2>2, <3>2 DEF EntryHolds
    <3>5. entries[d].report = NoReport \/ (entries[d].report.chain = d /\ entries[d].report.load <= Len(loads'))
      BY <1>4, <2>1, <2>2, <3>2 DEF EntryHolds, KeptOf
    <3> QED BY <2>1, <2>3, <3>1, <3>3, <3>4, <3>5 DEF EntryHolds, KeptOf
  <2> QED BY <2>4, <2>5
<1>15. ASSUME NEW m \in 1..l PROVE LoadHolds(m)'
  <2>1. CASE m = l
    <3>1. loads'[m] = r /\ IsFiniteSet({id}) BY <1>10, <2>1, FS_Singleton
    <3>2. queries'[id].chain = c /\ queries'[id].since < l BY <1>4, <1>2, <1>8
    <3>3. /\ loads'[m].for \in 1..Len(queries') /\ queries'[loads'[m].for].chain = loads'[m].chain
          /\ loads'[m].st = "running" /\ IsFiniteSet(loads'[m].waiting)
      BY <1>8, <1>9, <3>1, <3>2
    <3>4. ASSUME NEW i \in loads'[m].waiting
          PROVE  /\ i \in 1..Len(queries') /\ queries'[i].chain = loads'[m].chain
                 /\ queries'[i].st = "waiting" /\ queries'[i].since < m
      <4>1. i = id BY <1>9, <3>1
      <4> QED BY <1>8, <1>9, <2>1, <3>1, <3>2, <4>1
    <3>5. "running" # "done" OBVIOUS
    <3> HIDE DEF l, c
    <3> QED BY <3>3, <3>4, <3>5 DEF LoadHolds
  <2>2. CASE m # l
    <3>1. m \in 1..Len(loads) BY <1>4, <2>2
    <3>2. LoadHolds(m) /\ loads'[m] = loads[m] /\ id \notin loads[m].waiting BY <1>2, <1>10, <3>1, ReportsParts
    <3> QED BY <1>8, <3>2 DEF LoadHolds
  <2> QED BY <2>1, <2>2
<1>16. WaitsOnce'
  <2>1. \A m \in 1..l : m # l => m \in 1..Len(loads) BY <1>4
  <2> QED BY <1>2, <1>9, <1>10, <2>1 DEF ReportsInv, WaitsOnce
<1>17. ASSUME NEW i \in 1..Len(queries) PROVE QueryHolds(i)'
  <2>1. QueryHolds(i) /\ queries[i] \in Query BY ReportsParts
  <2>2. queries[i].chain \in Networks /\ queries[i].since \in Nat /\ queries[i].since <= Len(loads)
    BY <2>1 DEF Query, QueryHolds
  <2>3. queries[i].since < l /\ queries[i].since <= Len(loads') BY <1>4, <1>10, <2>2
  <2>4. queries'[i].since = queries[i].since /\ queries'[i].chain = queries[i].chain
        /\ (queries'[i].st = "cleared" => queries[i].st = "cleared")
    BY <1>8
  <2>5. CASE queries[i].chain = c
    <3>1. entries'[queries[i].chain].load = l BY <1>11, <1>12, <2>2, <2>5
    <3> QED BY <2>3, <2>4, <3>1 DEF QueryHolds
  <2>6. CASE queries[i].chain # c
    <3>1. entries'[queries[i].chain] = entries[queries[i].chain] BY <1>11, <2>2, <2>6
    <3> QED BY <2>1, <2>3, <2>4, <3>1 DEF QueryHolds
  <2> QED BY <2>5, <2>6
<1>18. \A msg \in ToSet(mail') : MailHolds(msg)' BY <1>6, <1>7, <1>8, MailKept DEF ReportsInv
<1>19. ViewHolds'
  <2>1. ASSUME view.ask \in 1..Len(queries), Awaits PROVE Awaits'
    <3>1. CASE view.ask = id
      <4>1. loads'[l].st = "running" /\ view.ask \in loads'[l].waiting /\ l \in 1..l
        BY <1>4, <1>9, <1>10, <3>1
      <4> QED BY <1>10, <4>1 DEF Awaits
    <3>2. CASE view.ask # id
      <4>1. queries'[view.ask] = queries[view.ask] BY <1>8, <2>1, <3>2
      <4>2. \A m \in 1..Len(loads) : m \in 1..l BY <1>4
      <4> QED BY <1>7, <1>10, <2>1, <4>1, <4>2 DEF Awaits
    <3> QED BY <3>1, <3>2
  <2> QED BY <1>8, <2>1, ViewKept
<1> QED BY <1>8, <1>10, <1>13, <1>14, <1>15, <1>16, <1>17, <1>18, <1>19 DEF ReportsInv

\* Loads that change only in what their sources answered: who waits for them waits.
LEMMA LoadsAlike ==
  ASSUME ReportsInv, loads' \in Seq(LoadOf), Len(loads') = Len(loads), UNCHANGED queries,
         \A l \in 1..Len(loads) : /\ loads'[l].chain = loads[l].chain /\ loads'[l].st = loads[l].st
                                  /\ loads'[l].for = loads[l].for /\ loads'[l].waiting = loads[l].waiting
                                  /\ loads'[l].final = loads[l].final
  PROVE  /\ \A l \in 1..Len(loads) : LoadHolds(l)'
         /\ WaitsOnce'
         /\ \A c \in Networks : UNCHANGED <<entries, shelf>> => EntryHolds(c)' /\ KeptOf(shelf[c], c)'
<1>1. ASSUME NEW l \in 1..Len(loads) PROVE LoadHolds(l)'
  <2>1. LoadHolds(l) BY ReportsParts
  <2> QED BY <2>1 DEF LoadHolds
<1>2. WaitsOnce' BY DEF ReportsInv, WaitsOnce
<1>3. ASSUME NEW c \in Networks, UNCHANGED <<entries, shelf>> PROVE EntryHolds(c)' /\ KeptOf(shelf[c], c)'
  <2>1. EntryHolds(c) /\ KeptOf(shelf[c], c) /\ entries[c].load \in Nat BY ReportsParts DEF EntryOf
  <2>2. entries[c].load # 0 => entries[c].load \in 1..Len(loads) BY <2>1, ReportsParts DEF EntryHolds
  <2> QED BY <1>3, <2>1, <2>2 DEF EntryHolds, KeptOf
<1> QED BY <1>1, <1>2, <1>3

\* A fetch ends.
LEMMA EndFetchStep ==
  ASSUME ReportsInv, NEW l \in 1..Len(loads), NEW s \in CachedSources, NEW answered, EndFetch(s, l, answered)
  PROVE  ReportsInv'
<1> DEFINE end == IF Suffices(s, answered) THEN "ok" ELSE "failed"
           r == [loads[l] EXCEPT !.own[s] = end]
<1>1. /\ loads' = [loads EXCEPT ![l].own[s] = end]
      /\ pulled' = IF Suffices(s, answered) THEN pulled ELSE [pulled EXCEPT ![s] = Forgotten(s, l)]
      /\ UNCHANGED <<minute, view, queries, mail, entries, shelf>>
  BY DEF EndFetch
<1>2. loads[l] \in LoadOf BY ReportsParts
<1>3. end \in {"none", "running", "ok", "failed"} OBVIOUS
<1> HIDE DEF end
<1>4. /\ r \in LoadOf /\ r.chain = loads[l].chain /\ r.st = loads[l].st /\ r.for = loads[l].for
      /\ r.waiting = loads[l].waiting /\ r.final = loads[l].final
  BY <1>2, <1>3 DEF LoadOf
<1>5. loads' = [loads EXCEPT ![l] = r] BY <1>1
<1> HIDE DEF r
<1>6. /\ loads' \in Seq(LoadOf) /\ Len(loads') = Len(loads) /\ loads'[l] = r
      /\ \A m \in 1..Len(loads) : m # l => loads'[m] = loads[m]
  BY <1>4, <1>5, LoadMarked DEF ReportsInv
<1>7. \A m \in 1..Len(loads) : /\ loads'[m].chain = loads[m].chain /\ loads'[m].st = loads[m].st
                               /\ loads'[m].for = loads[m].for /\ loads'[m].waiting = loads[m].waiting
                               /\ loads'[m].final = loads[m].final
  BY <1>4, <1>6
<1>8. pulled' \in [CachedSources -> [Networks -> [load : Nat, expires : Nat]]]
  <2>1. loads[l].chain \in Networks BY <1>2 DEF LoadOf
  <2>2. pulled[s] \in [Networks -> [load : Nat, expires : Nat]] BY DEF ReportsInv, ReportsTyped
  <2>3. NoPull \in [load : Nat, expires : Nat] BY DEF NoPull
  <2>4. Forgotten(s, l) \in [Networks -> [load : Nat, expires : Nat]] BY <2>1, <2>2, <2>3 DEF Forgotten
  <2> QED BY <1>1, <2>4 DEF ReportsInv, ReportsTyped
<1>9. ReportsTyped' BY <1>1, <1>6, <1>8 DEF ReportsInv, ReportsTyped
<1>10. /\ \A m \in 1..Len(loads) : LoadHolds(m)'
       /\ WaitsOnce'
       /\ \A c \in Networks : EntryHolds(c)' /\ KeptOf(shelf[c], c)'
  BY <1>1, <1>6, <1>7, LoadsAlike
<1>11. ASSUME NEW i \in 1..Len(queries) PROVE QueryHolds(i)'
  <2>1. QueryHolds(i) BY ReportsParts
  <2> QED BY <1>1, <1>6, <2>1 DEF QueryHolds
<1>12. \A msg \in ToSet(mail') : MailHolds(msg)' BY <1>1 DEF ReportsInv, MailHolds
<1>13. ViewHolds'
  <2>1. Awaits => Awaits' BY <1>1, <1>6, <1>7 DEF Awaits
  <2> QED BY <1>1, <2>1, ViewKept
<1> QED BY <1>1, <1>6, <1>9, <1>10, <1>11, <1>12, <1>13 DEF ReportsInv

\* A source answers a load.
LEMMA SourceStep ==
  ASSUME ReportsInv, NEW l \in 1..Len(loads), NEW s \in Sources, SourceAnswers(l, s) PROVE ReportsInv'
<1> DEFINE c == loads[l].chain
<1>1. PICK how \in Outcome(l, s) \ {"running"} :
        LET parts == IF how = "ok" THEN loads[l].parts \cup {s} ELSE loads[l].parts IN
        /\ loads' = [loads EXCEPT ![l].parts = parts, ![l].settled = @ \cup {s}]
        /\ IF IsEntryOf(l)
           THEN /\ entries' = [entries EXCEPT ![c].load = l, ![c].report = Merged(l, parts)]
                /\ Mailed(<<Update(loads[l].for, Merged(l, parts))>>)
           ELSE UNCHANGED <<entries, mail>>
        /\ UNCHANGED <<minute, view, queries, pulled, shelf>>
  BY DEF SourceAnswers
<1> DEFINE got == IF how = "ok" THEN loads[l].parts \cup {s} ELSE loads[l].parts
           r == [loads[l] EXCEPT !.parts = got, !.settled = @ \cup {s}]
           report == Merged(l, got)
           u == Update(loads[l].for, report)
<1>2. /\ loads' = [loads EXCEPT ![l] = r]
      /\ IF IsEntryOf(l) THEN entries' = [entries EXCEPT ![c].load = l, ![c].report = report] /\ Mailed(<<u>>)
         ELSE UNCHANGED <<entries, mail>>
      /\ UNCHANGED <<minute, view, queries, pulled, shelf>>
  BY <1>1
<1>3. loads[l] \in LoadOf /\ LoadHolds(l) /\ c \in Networks BY ReportsParts DEF LoadOf
<1>4. got \in SUBSET Sources BY <1>3 DEF LoadOf
<1> HIDE DEF got
<1>5. /\ r \in LoadOf /\ r.chain = loads[l].chain /\ r.st = loads[l].st /\ r.for = loads[l].for
      /\ r.waiting = loads[l].waiting /\ r.final = loads[l].final
  BY <1>3, <1>4 DEF LoadOf
<1>6. report \in AnyReport /\ report.chain = c /\ report.load = l
  <2>1. loads[l].disk.parts \in SUBSET Sources /\ l \in Nat BY <1>3, ReportsParts DEF LoadOf, AnyReport
  <2> QED BY <1>3, <1>4, <2>1 DEF Merged, AnyReport
<1> HIDE DEF r, report
<1>7. /\ loads' \in Seq(LoadOf) /\ Len(loads') = Len(loads) /\ loads'[l] = r
      /\ \A m \in 1..Len(loads) : m # l => loads'[m] = loads[m]
  BY <1>2, <1>5, LoadMarked DEF ReportsInv
<1>8. \A m \in 1..Len(loads) : /\ loads'[m].chain = loads[m].chain /\ loads'[m].st = loads[m].st
                               /\ loads'[m].for = loads[m].for /\ loads'[m].waiting = loads[m].waiting
                               /\ loads'[m].final = loads[m].final
  BY <1>5, <1>7
<1>9. (\A m \in 1..Len(loads) : LoadHolds(m)') /\ WaitsOnce' BY <1>2, <1>7, <1>8, LoadsAlike
<1>10. Awaits /\ ToSet(mail) \subseteq ToSet(mail') => Awaits' BY <1>2, <1>7, <1>8 DEF Awaits
<1>11. CASE ~IsEntryOf(l)
  <2>1. UNCHANGED <<entries, mail, shelf>> BY <1>2, <1>11
  <2>2. ReportsTyped' BY <1>2, <1>7, <2>1 DEF ReportsInv, ReportsTyped
  <2>3. \A d \in Networks : EntryHolds(d)' /\ KeptOf(shelf[d], d)' BY <1>2, <1>7, <1>8, <2>1, LoadsAlike
  <2>4. ASSUME NEW i \in 1..Len(queries) PROVE QueryHolds(i)'
    <3>1. QueryHolds(i) BY ReportsParts
    <3> QED BY <1>2, <1>7, <2>1, <3>1 DEF QueryHolds
  <2>5. \A msg \in ToSet(mail') : MailHolds(msg)' BY <1>2, <2>1 DEF ReportsInv, MailHolds
  <2>6. ViewHolds' BY <1>2, <1>10, <2>1, ViewKept
  <2> QED BY <1>2, <1>7, <1>9, <2>2, <2>3, <2>4, <2>5, <2>6 DEF ReportsInv
<1>12. CASE IsEntryOf(l)
  <2>1. /\ entries' = [entries EXCEPT ![c].load = l, ![c].report = report] /\ Mailed(<<u>>)
        /\ entries[c].load = l
    BY <1>2, <1>12 DEF IsEntryOf
  <2>2. u \in MailOf /\ MailHolds(u) BY <1>3, <1>6, UpdateIs DEF LoadHolds
  <2> HIDE DEF u
  <2>3. mail' \in Seq(MailOf) /\ ToSet(mail') = ToSet(mail) \cup {u}
    <3>1. <<u>> \in Seq(MailOf) /\ ToSet(<<u>>) = {u} BY <2>2, FewOnes
    <3> QED BY <2>1, <3>1, MailArrives DEF ReportsInv
  <2>4. /\ \A d \in Networks : d # c => entries'[d] = entries[d]
        /\ entries'[c].load = l /\ entries'[c].report = report
        /\ entries' \in [Networks -> EntryOf]
    <3>1. entries \in [Networks -> EntryOf] /\ l \in Nat BY ReportsParts DEF ReportsInv, ReportsTyped
    <3>2. entries' = [entries EXCEPT ![c] = [entries[c] EXCEPT !.load = l, !.report = report]] BY <2>1
    <3>3. entries[c] \in EntryOf BY <1>3, <3>1
    <3> DEFINE e == [entries[c] EXCEPT !.load = l, !.report = report]
    <3>4. e \in EntryOf /\ e.load = l /\ e.report = report BY <1>6, <3>1, <3>3 DEF EntryOf
    <3> HIDE DEF e, c
    <3> QED BY <1>3, <3>1, <3>2, <3>4 DEF e
  <2>5. ReportsTyped' BY <1>2, <1>7, <2>3, <2>4 DEF ReportsInv, ReportsTyped
  <2>6. ASSUME NEW d \in Networks PROVE EntryHolds(d)' /\ KeptOf(shelf[d], d)'
    <3>1. EntryHolds(d) /\ KeptOf(shelf[d], d) /\ entries[d].load \in Nat BY ReportsParts DEF EntryOf
    <3>2. KeptOf(shelf[d], d)' BY <1>2, <1>7, <3>1 DEF KeptOf
    <3>3. CASE d = c
      <4>1. l \in Nat /\ l <= Len(loads) /\ loads'[l].chain = d /\ loads'[l].st \in {"running", "done"}
        BY <1>8, <2>1, <3>1, <3>3, ReportsParts DEF EntryHolds
      <4>2. report # NoReport BY <1>3, <1>6, NothingIs
      <4> QED BY <1>6, <1>7, <2>4, <3>2, <3>3, <4>1, <4>2 DEF EntryHolds, KeptOf
    <3>4. CASE d # c
      <4>1. entries'[d] = entries[d] BY <2>4, <3>4
      <4>2. entries[d].load # 0 => entries[d].load \in 1..Len(loads) BY <3>1, ReportsParts DEF EntryHolds
      <4> QED BY <1>7, <1>8, <3>1, <3>2, <4>1, <4>2 DEF EntryHolds, KeptOf
    <3> QED BY <3>3, <3>4
  <2>7. ASSUME NEW i \in 1..Len(queries) PROVE QueryHolds(i)'
    <3>1. QueryHolds(i) /\ queries[i].chain \in Networks BY ReportsParts DEF Query
    <3>2. entries'[queries[i].chain].load = entries[queries[i].chain].load BY <2>1, <2>4, <3>1
    <3> QED BY <1>2, <1>7, <3>1, <3>2 DEF QueryHolds
  <2>8. \A msg \in ToSet(mail') : MailHolds(msg)' BY <1>2, <2>2, <2>3 DEF ReportsInv, MailHolds
  <2>9. ViewHolds' BY <1>2, <1>10, <2>3, ViewKept
  <2> QED BY <1>2, <1>7, <1>9, <2>5, <2>6, <2>7, <2>8, <2>9 DEF ReportsInv
<1> QED BY <1>11, <1>12

\* A load ends: all who waited for it are told its report.
LEMMA EndLoadStep == ASSUME ReportsInv, NEW l \in 1..Len(loads), EndLoad(l) PROVE ReportsInv'
<1> DEFINE c == loads[l].chain
           report == [chain |-> c, load |-> l, parts |-> loads[l].parts, kept |-> {}]
           told == SetToSeq(loads[l].waiting)
           msgs == [i \in DOMAIN told |-> ReportResult(told[i], report)]
           r == [loads[l] EXCEPT !.st = "done", !.final = report, !.waiting = {}]
<1>1. /\ loads[l].st = "running"
      /\ loads' = [loads EXCEPT ![l] = r]
      /\ IF IsEntryOf(l) THEN entries' = [entries EXCEPT ![c].report = report] /\ shelf' = [shelf EXCEPT ![c] = report]
         ELSE UNCHANGED <<entries, shelf>>
      /\ queries' = [id \in DOMAIN queries |->
           IF id \in loads[l].waiting THEN [queries[id] EXCEPT !.st = "done"] ELSE queries[id]]
      /\ Mailed(msgs)
      /\ UNCHANGED <<minute, view, pulled>>
  BY DEF EndLoad
<1>2. loads[l] \in LoadOf /\ LoadHolds(l) /\ c \in Networks /\ l \in Nat BY ReportsParts DEF LoadOf
<1>3. report \in AnyReport /\ report.chain = c /\ report.load = l /\ report # NoReport
  <2>1. report \in AnyReport /\ report.chain = c /\ report.load = l BY <1>2 DEF LoadOf, AnyReport
  <2> QED BY <1>2, <2>1, NothingIs
<1> HIDE DEF report
<1>4. /\ r \in LoadOf /\ r.chain = c /\ r.st = "done" /\ r.for = loads[l].for /\ r.waiting = {} /\ r.final = report
  BY <1>2, <1>3 DEF LoadOf
<1> HIDE DEF r
<1>5. /\ loads' \in Seq(LoadOf) /\ Len(loads') = Len(loads) /\ loads'[l] = r
      /\ \A m \in 1..Len(loads) : m # l => loads'[m] = loads[m]
  BY <1>1, <1>4, LoadMarked DEF ReportsInv
<1>6. \A m \in 1..Len(loads) : loads'[m].chain = loads[m].chain /\ loads'[m].for = loads[m].for
  BY <1>4, <1>5
\* the asks
<1>7. /\ queries' \in Seq(Query) /\ Len(queries') = Len(queries)
      /\ \A i \in 1..Len(queries) :
           /\ queries'[i].chain = queries[i].chain /\ queries'[i].fresh = queries[i].fresh
           /\ queries'[i].since = queries[i].since
           /\ i \notin loads[l].waiting => queries'[i] = queries[i]
           /\ i \in loads[l].waiting => queries'[i].st = "done"
  <2>1. \A i \in 1..Len(queries) : queries[i] \in Query /\ [queries[i] EXCEPT !.st = "done"] \in Query
    BY ReportsParts DEF Query
  <2>2. /\ queries' = [i \in 1..Len(queries) |->
              IF i \in loads[l].waiting THEN [queries[i] EXCEPT !.st = "done"] ELSE queries[i]]
        /\ Len(queries) \in Nat
    BY <1>1, ReportsParts
  <2>3. queries' \in [1..Len(queries) -> Query] BY <2>1, <2>2
  <2>4. queries' \in Seq(Query) /\ Len(queries') = Len(queries) BY <2>2, <2>3
  <2>5. ASSUME NEW i \in 1..Len(queries)
        PROVE  /\ queries'[i].chain = queries[i].chain /\ queries'[i].fresh = queries[i].fresh
               /\ queries'[i].since = queries[i].since
               /\ i \notin loads[l].waiting => queries'[i] = queries[i]
               /\ i \in loads[l].waiting => queries'[i].st = "done"
    BY <2>1, <2>2 DEF Query
  <2> QED BY <2>4, <2>5
\* the mail
<1>8. /\ told \in Seq(loads[l].waiting) /\ Len(told) \in Nat
      /\ \A x \in loads[l].waiting : \E i \in 1..Len(told) : told[i] = x
  BY <1>2, ListsAll DEF LoadHolds
<1> HIDE DEF told
<1>9. ASSUME NEW x \in loads[l].waiting
      PROVE  ReportResult(x, report) \in MailOf /\ MailHolds(ReportResult(x, report))
  <2>1. x \in 1..Len(queries) /\ queries[x].chain = c /\ (queries[x].fresh => queries[x].since < l)
    BY <1>2 DEF LoadHolds
  <2>2. x \in Nat BY <2>1, ReportsParts
  <2>3. /\ ReportResult(x, report).ask = x /\ ReportResult(x, report).report = report
        /\ ReportResult(x, report) \in MailOf
    BY <1>3, <2>2 DEF ReportResult, MailOf
  <2> QED BY <1>3, <2>1, <2>3 DEF MailHolds
<1>10. /\ msgs \in Seq(MailOf) /\ Len(msgs) = Len(told)
       /\ ToSet(msgs) = {ReportResult(x, report) : x \in loads[l].waiting}
  <2>1. DOMAIN told = 1..Len(told) /\ \A i \in 1..Len(told) : told[i] \in loads[l].waiting BY <1>8
  <2>2. msgs \in [1..Len(told) -> MailOf] BY <1>9, <2>1
  <2>3. msgs \in Seq(MailOf) /\ Len(msgs) = Len(told) /\ DOMAIN msgs = 1..Len(told) BY <1>8, <2>2
  <2>4. \A i \in 1..Len(told) : msgs[i] = ReportResult(told[i], report) BY <2>1
  <2> HIDE DEF msgs
  <2>5. ASSUME NEW x \in loads[l].waiting PROVE ReportResult(x, report) \in ToSet(msgs)
    <3>1. PICK i \in 1..Len(told) : told[i] = x BY <1>8
    <3> QED BY <2>3, <2>4, <3>1 DEF ToSet
  <2>6. ASSUME NEW m \in ToSet(msgs) PROVE \E x \in loads[l].waiting : m = ReportResult(x, report)
    <3>1. PICK i \in 1..Len(told) : m = msgs[i] BY <2>3, <2>6 DEF ToSet
    <3> QED BY <2>1, <2>4, <3>1
  <2> QED BY <2>3, <2>5, <2>6
<1> HIDE DEF msgs
<1>11. mail' \in Seq(MailOf) /\ ToSet(mail') = ToSet(mail) \cup ToSet(msgs)
  BY <1>1, <1>10, MailArrives DEF ReportsInv
\* what is kept
<1>12. /\ entries' \in [Networks -> EntryOf] /\ shelf' \in [Networks -> AnyReport]
       /\ \A d \in Networks : entries'[d].load = entries[d].load
       /\ \A d \in Networks : \/ entries'[d].report = entries[d].report /\ (entries[d].load # l \/ d # c)
                              \/ d = c /\ entries[d].load = l /\ entries'[d].report = report
       /\ \A d \in Networks : shelf'[d] = shelf[d] \/ (d = c /\ shelf'[d] = report)
  <2>1. entries \in [Networks -> EntryOf] /\ shelf \in [Networks -> AnyReport] BY DEF ReportsInv, ReportsTyped
  <2>2. CASE IsEntryOf(l)
    <3> DEFINE e == [entries[c] EXCEPT !.report = report]
    <3>1. e \in EntryOf /\ e.load = entries[c].load /\ e.report = report BY <1>2, <1>3, <2>1 DEF EntryOf
    <3>2. entries' = [entries EXCEPT ![c] = e] /\ shelf' = [shelf EXCEPT ![c] = report] BY <1>1, <2>2
    <3>3. entries[c].load = l BY <2>2 DEF IsEntryOf
    <3> HIDE DEF e, c
    <3> QED BY <1>2, <1>3, <2>1, <3>1, <3>2, <3>3
  <2>3. CASE ~IsEntryOf(l)
    <3>1. UNCHANGED <<entries, shelf>> /\ entries[c].load # l BY <1>1, <2>3 DEF IsEntryOf
    <3> QED BY <2>1, <3>1
  <2> QED BY <2>2, <2>3
<1>13. ReportsTyped' BY <1>1, <1>5, <1>7, <1>11, <1>12 DEF ReportsInv, ReportsTyped
<1> HIDE DEF c
<1>14. ASSUME NEW d \in Networks PROVE EntryHolds(d)' /\ KeptOf(shelf[d], d)'
  <2>1. EntryHolds(d) /\ KeptOf(shelf[d], d) /\ entries[d].load \in Nat BY ReportsParts DEF EntryOf
  <2>2. KeptOf(shelf[d], d)' BY <1>3, <1>5, <1>12, <2>1 DEF KeptOf
  <2>3. entries[d].load # 0 => entries[d].load \in 1..Len(loads) BY <2>1, ReportsParts DEF EntryHolds
  <2>4. CASE d = c /\ entries[d].load = l /\ entries'[d].report = report
    <3>1. entries'[d].load = l /\ loads'[l].chain = d /\ loads'[l].st = "done" BY <1>4, <1>5, <1>12, <2>4
    <3> QED BY <1>2, <1>3, <1>5, <2>2, <2>4, <3>1 DEF EntryHolds, KeptOf
  <2>5. CASE entries'[d].report = entries[d].report /\ (entries[d].load # l \/ d # c)
    <3>1. entries[d].load # 0 => entries[d].load # l BY <2>1, <2>5 DEF EntryHolds, c
    <3>2. entries[d].load # 0 => loads'[entries[d].load] = loads[entries[d].load] BY <1>5, <2>3, <3>1
    <3> QED BY <1>5, <1>12, <2>1, <2>2, <2>5, <3>2 DEF EntryHolds, KeptOf
  <2> QED BY <1>12, <2>4, <2>5
<1>15. ASSUME NEW m \in 1..Len(loads) PROVE LoadHolds(m)'
  <2>1. LoadHolds(m) BY ReportsParts
  <2>2. CASE m = l
    <3>1. IsFiniteSet({}) BY FS_EmptySet
    <3>2. loads'[m] = r BY <1>5, <2>2
    <3>3. r.for \in 1..Len(queries) /\ queries'[r.for].chain = c BY <1>4, <1>7, <1>2 DEF LoadHolds, c
    <3> QED BY <1>3, <1>4, <1>7, <2>2, <3>1, <3>2, <3>3 DEF LoadHolds
  <2>3. CASE m # l
    <3>1. loads'[m] = loads[m] /\ \A i \in loads[m].waiting : i \notin loads[l].waiting
      BY <1>5, <2>3 DEF ReportsInv, WaitsOnce
    <3> QED BY <1>7, <2>1, <3>1 DEF LoadHolds
  <2> QED BY <2>2, <2>3
<1>16. WaitsOnce' BY <1>4, <1>5 DEF ReportsInv, WaitsOnce
<1>17. ASSUME NEW i \in 1..Len(queries) PROVE QueryHolds(i)'
  <2>1. QueryHolds(i) /\ queries[i].chain \in Networks BY ReportsParts DEF Query
  <2>2. queries'[i].st = "cleared" => queries[i].st = "cleared" BY <1>7
  <2> QED BY <1>5, <1>7, <1>12, <2>1, <2>2 DEF QueryHolds
<1>18. \A msg \in ToSet(mail') : MailHolds(msg)'
  <2>1. \A msg \in ToSet(mail') : MailHolds(msg) BY <1>9, <1>10, <1>11 DEF ReportsInv
  <2> QED BY <1>7, <2>1, MailKept
<1>19. ViewHolds'
  <2>1. ASSUME view.ask \in 1..Len(queries), Awaits PROVE Awaits'
    <3>1. CASE view.ask \in loads[l].waiting
      <4>1. ReportResult(view.ask, report).ask = view.ask BY DEF ReportResult
      <4>2. ReportResult(view.ask, report) \in ToSet(mail') BY <1>10, <1>11, <3>1
      <4> QED BY <1>1, <4>1, <4>2 DEF Awaits
    <3>2. CASE view.ask \notin loads[l].waiting
      <4>1. queries'[view.ask] = queries[view.ask] BY <1>7, <2>1, <3>2
      <4>2. \A m \in 1..Len(loads) : view.ask \in loads[m].waiting => loads'[m] = loads[m] BY <1>5, <3>2
      <4> QED BY <1>1, <1>5, <1>11, <2>1, <4>1, <4>2 DEF Awaits
    <3> QED BY <3>1, <3>2
  <2> QED BY <1>1, <1>7, <2>1, ViewKept
<1> QED BY <1>5, <1>7, <1>13, <1>14, <1>15, <1>16, <1>17, <1>18, <1>19 DEF ReportsInv

\* The worker dies with all that it held.
LEMMA LostStep == ASSUME ReportsInv, WorkerLost PROVE ReportsInv'
<1> DEFINE lost(l) == [loads[l] EXCEPT !.st = "lost", !.waiting = {}, !.own = [s \in CachedSources |-> "none"]]
           over(id) == [queries[id] EXCEPT !.st = "done"]
<1>1. /\ queries # <<>>
      /\ loads' = [l \in 1..Len(loads) |-> lost(l)]
      /\ entries' = [c \in Networks |-> NoReportEntry]
      /\ pulled' = [s \in CachedSources |-> [c \in Networks |-> NoPull]]
      /\ queries' = [id \in 1..Len(queries) |-> over(id)]
      /\ mail' = <<>>
      /\ view' = IF queries[view.ask].st = "done" /\ ~\E i \in DOMAIN mail : IsCurrent(mail[i]) THEN view
                 ELSE [view EXCEPT !.loading = FALSE, !.failed = TRUE]
      /\ UNCHANGED <<minute, shelf>>
  BY ReportsParts DEF WorkerLost
<1>2. ASSUME NEW l \in 1..Len(loads)
      PROVE  /\ lost(l) \in LoadOf /\ lost(l).chain = loads[l].chain /\ lost(l).for = loads[l].for
             /\ lost(l).st = "lost" /\ lost(l).waiting = {}
  BY ReportsParts DEF LoadOf
<1>3. ASSUME NEW id \in 1..Len(queries)
      PROVE  /\ over(id) \in Query /\ over(id).chain = queries[id].chain /\ over(id).fresh = queries[id].fresh
             /\ over(id).since = queries[id].since /\ over(id).st = "done"
  BY ReportsParts DEF Query
<1> HIDE DEF lost, over
<1>4. /\ loads' \in Seq(LoadOf) /\ Len(loads') = Len(loads) /\ Len(loads) \in Nat
      /\ \A l \in 1..Len(loads) : loads'[l] = lost(l)
  BY <1>1, <1>2, ReportsParts
<1>5. /\ queries' \in Seq(Query) /\ Len(queries') = Len(queries)
      /\ \A id \in 1..Len(queries) : queries'[id] = over(id)
  BY <1>1, <1>3, ReportsParts
<1>6. ReportsTyped'
  <2>1. entries' \in [Networks -> EntryOf] BY <1>1, NothingIs
  <2>2. pulled' \in [CachedSources -> [Networks -> [load : Nat, expires : Nat]]] BY <1>1 DEF NoPull
  <2>3. view' \in ViewOf BY <1>1 DEF ReportsInv, ReportsTyped, ViewOf
  <2> QED BY <1>1, <1>4, <1>5, <2>1, <2>2, <2>3 DEF ReportsInv, ReportsTyped
<1>7. ASSUME NEW c \in Networks PROVE EntryHolds(c)' /\ KeptOf(shelf[c], c)'
  <2>1. entries'[c].load = 0 /\ entries'[c].report = NoReport BY <1>1, NothingIs
  <2>2. KeptOf(shelf[c], c) BY ReportsParts
  <2> QED BY <1>1, <1>4, <2>1, <2>2 DEF EntryHolds, KeptOf
<1>8. ASSUME NEW l \in 1..Len(loads) PROVE LoadHolds(l)'
  <2>1. LoadHolds(l) BY ReportsParts
  <2>2. /\ loads'[l].for = loads[l].for /\ loads'[l].chain = loads[l].chain
        /\ loads'[l].st = "lost" /\ loads'[l].waiting = {}
    BY <1>2, <1>4
  <2>3. /\ loads[l].for \in 1..Len(queries') /\ queries'[loads[l].for].chain = queries[loads[l].for].chain
        /\ queries[loads[l].for].chain = loads[l].chain
    BY <1>3, <1>5, <2>1 DEF LoadHolds
  <2>4. IsFiniteSet({}) BY FS_EmptySet
  <2>5. "lost" # "done" OBVIOUS
  <2> QED BY <2>2, <2>3, <2>4, <2>5 DEF LoadHolds
<1>9. WaitsOnce' BY <1>2, <1>4 DEF WaitsOnce
<1>10. ASSUME NEW id \in 1..Len(queries) PROVE QueryHolds(id)'
  <2>1. queries'[id].since = queries[id].since /\ queries'[id].st = "done" /\ QueryHolds(id)
    BY <1>3, <1>5, ReportsParts
  <2>2. queries'[id].since <= Len(loads') BY <1>4, <2>1 DEF QueryHolds
  <2> QED BY <2>1, <2>2 DEF QueryHolds
<1>11. ToSet(mail') = {} BY <1>1 DEF ToSet
<1>12. ViewHolds'
  <2>1. ViewHolds /\ view.ask = Len(queries) /\ Len(queries) \in Nat BY ReportsParts DEF ReportsInv, ViewHolds
  <2>2. view.ask # 0 /\ view.ask \in 1..Len(queries)
    <3>1. Len(queries) # 0 BY <1>1, EmptySeq DEF ReportsInv, ReportsTyped
    <3> QED BY <2>1, <3>1
  <2>3. queries'[view.ask].chain = queries[view.ask].chain BY <1>3, <1>5, <2>2
  <2>6. \A i \in 1..Len(queries) : queries'[i].chain = queries[i].chain BY <1>3, <1>5
  <2>4. CASE queries[view.ask].st = "done" /\ ~\E i \in DOMAIN mail : IsCurrent(mail[i])
    <3>1. UNCHANGED view BY <1>1, <2>4
    <3>2. ~\E msg \in ToSet(mail) : msg.ask = view.ask BY <2>4 DEF ToSet, IsCurrent
    <3>3. \A l \in 1..Len(loads) : view.ask \notin loads[l].waiting BY <2>4, ReportsParts DEF LoadHolds
    <3>4. ~view.loading BY <2>1, <2>4, <3>2, <3>3 DEF ViewHolds, Awaits
    <3>5. ShownHolds' BY <1>5, <2>1, <2>6, <3>1 DEF ViewHolds, ShownHolds
    <3> QED BY <1>5, <2>1, <2>3, <3>1, <3>4, <3>5 DEF ViewHolds
  <2>5. CASE ~(queries[view.ask].st = "done" /\ ~\E i \in DOMAIN mail : IsCurrent(mail[i]))
    <3>1. /\ view'.ask = view.ask /\ view'.chain = view.chain /\ view'.loading = FALSE /\ view'.failed = TRUE
          /\ view'.opened = view.opened /\ view'.report = view.report
      BY <1>1, <2>5 DEF ReportsInv, ReportsTyped, ViewOf
    <3>2. ShownHolds' BY <1>5, <2>1, <2>6, <3>1 DEF ViewHolds, ShownHolds
    <3> QED BY <1>5, <2>1, <2>3, <3>1, <3>2 DEF ViewHolds
  <2> QED BY <2>4, <2>5
<1> QED BY <1>4, <1>5, <1>6, <1>7, <1>8, <1>9, <1>10, <1>11, <1>12 DEF ReportsInv

\* Time passes, or another part moves.
LEMMA ReportsRest == ASSUME ReportsInv, MinutePasses \/ UNCHANGED reportVars PROVE ReportsInv'
<1>1. UNCHANGED <<view, queries, mail, loads, entries, pulled, shelf>> /\ minute' \in {minute, minute + 1}
  BY DEF MinutePasses, reportVars
<1>2. ReportsTyped' BY <1>1 DEF ReportsInv, ReportsTyped
<1>3. \A c \in Networks : EntryHolds(c)' /\ KeptOf(shelf[c], c)' BY <1>1 DEF ReportsInv, EntryHolds, KeptOf
<1>4. (\A l \in 1..Len(loads) : LoadHolds(l)') /\ WaitsOnce' BY <1>1 DEF ReportsInv, LoadHolds, WaitsOnce
<1>5. \A id \in 1..Len(queries) : QueryHolds(id)' BY <1>1 DEF ReportsInv, QueryHolds
<1>6. \A msg \in ToSet(mail) : MailHolds(msg)' BY <1>1 DEF ReportsInv, MailHolds
<1>7. ViewHolds' BY <1>1 DEF ReportsInv, ViewHolds, Awaits, ShownHolds
<1> QED BY <1>1, <1>2, <1>3, <1>4, <1>5, <1>6, <1>7 DEF ReportsInv

\* Every step of the part keeps the invariant.
LEMMA ReportsKeep == ASSUME ReportsInv, [ReportsNext]_reportVars PROVE ReportsInv'
<1>0. DOMAIN queries = 1..Len(queries) /\ DOMAIN loads = 1..Len(loads) BY ReportsParts
<1>1. ASSUME NEW id \in 1..Len(queries), TakeReport(id) PROVE ReportsInv'
  <2>1. /\ Ready(id) /\ UNCHANGED <<minute, view, shelf>>
        /\ ShareLoad(id, queries[id].chain) \/ BeginLoad(id, queries[id].chain)
    BY <1>1 DEF TakeReport
  <2> QED BY <2>1, ShareRunning, ShareEnded, BeginStep
<1>2. ASSUME NEW c \in Networks, OpenScreen(c) \/ ChangeChain(c) \/ Refresh PROVE ReportsInv'
  <2>1. CASE OpenScreen(c) BY <2>1, AskReportStep DEF OpenScreen
  <2>2. CASE ChangeChain(c)
    <3>1. view.ask \in 1..Len(queries) BY <2>2, ReportsParts DEF ChangeChain, ReportsInv, ViewHolds
    <3>2. queries[view.ask].fresh \in BOOLEAN BY <3>1, ReportsParts DEF Query
    <3> QED BY <2>2, <3>2, AskReportStep DEF ChangeChain
  <2>3. CASE Refresh BY <2>3, RefreshStep
  <2> QED BY <1>2, <2>1, <2>2, <2>3
<1>3. ASSUME NEW id \in 1..Len(queries), ArriveFresh(id) PROVE ReportsInv' BY <1>3, ArriveStep
<1>4. ASSUME NEW l \in 1..Len(loads), NEW s \in CachedSources, NEW answered, EndFetch(s, l, answered)
      PROVE  ReportsInv'
  BY <1>4, EndFetchStep
<1>5. ASSUME NEW l \in 1..Len(loads), NEW s \in Sources, SourceAnswers(l, s) PROVE ReportsInv' BY <1>5, SourceStep
<1>6. ASSUME NEW l \in 1..Len(loads), EndLoad(l) PROVE ReportsInv' BY <1>6, EndLoadStep
<1> QED BY <1>0, <1>1, <1>2, <1>3, <1>4, <1>5, <1>6, RefreshStep, ShowMailStep, LostStep, ReportsRest DEF ReportsNext

-----------------------------------------------------------------------------
\* The invariants, where the terminal or its reports run
TerminalInv == (running = "tui" => ShownInv) /\ (running = "reports" => ReportsInv)

\* ScreensAreTrue, for any number of screens, dialogs, reads, asks, loads and deaths of the worker:
\* what the terminal shows is of the chain and the wallet beside it; a report is, once its load
\* has ended well, and until then of a chain the screen was on since it was opened; who waits
\* for one is told, and a refresh ends with a load begun after it (tui/store.tsx,
\* screens/action.tsx, analytics/report-cache.ts).
THEOREM ScreensStayTrue == InfraSpec => []ScreensAreTrue
<1>1. InfraInit => TerminalInv BY TuiStarts, ReportsStart DEF InfraInit, TerminalInv
<1>2. TerminalInv /\ [InfraNext]_infraVars => TerminalInv'
  <2> SUFFICES ASSUME TerminalInv, [InfraNext]_infraVars PROVE TerminalInv' OBVIOUS
  <2>1. UNCHANGED running BY DEF InfraNext, Only, infraVars
  <2>2. running = "tui" => [TuiNext]_tuiVars BY DEF InfraNext, Only, infraVars
  <2>3. running = "reports" => [ReportsNext]_reportVars BY DEF InfraNext, Only, infraVars
  <2>4. ASSUME ShownInv, UNCHANGED tuiVars PROVE ShownInv'
    <3>1. UNCHANGED <<app, screen, dialogs, asks, sends>> BY <2>4 DEF tuiVars
    <3> QED BY <2>4, <3>1 DEF ShownInv, Shows, Belongs, Here
  <2> QED BY <2>1, <2>2, <2>3, <2>4, TuiKeeps, ReportsKeep DEF TerminalInv
<1>3. TerminalInv => ScreensAreTrue
  <2>1. ShownInv => ShownIsCurrent BY DEF ShownInv, Shows, ShownIsCurrent
  <2> QED BY <2>1, ReportsAreTrue DEF TerminalInv, ScreensAreTrue
<1> QED BY <1>1, <1>2, <1>3, PTL DEF InfraSpec
=============================================================================
