---------------------------- MODULE WalletProofs ----------------------------
(***************************************************************************)
(* Theorems about who may sign, and what: accounts and the browser bridge  *)
(* of the toolkit, its policies, the wallets of the Aero CLI and TUI, and  *)
(* Safes with several owners. Each part has an inductive invariant, for    *)
(* any number of processes, callers, plans, budgets, owners and proposals; *)
(* the composition MCInfra keeps each.                                     *)
(***************************************************************************)
EXTENDS MCInfra, DataLemmas, SequenceTheorems, FunctionTheorems

-----------------------------------------------------------------------------
(***************************************************************************)
(* src/wallets.ts, src/browser-wallet.ts: whatever the callers, the tabs   *)
(* and the records do, a page of the browser bridge that somebody waits    *)
(* for is the one that is held and has not ended, so that it can answer,   *)
(* and a page that was replaced is closed. What has to be known for that:  *)
(* only the page that is held has not ended, and a page waits for one      *)
(* request of one caller.                                                  *)
(***************************************************************************)

\* A page, whatever it expects and shows.
IsPage(p) ==
  p = [expected |-> p.expected, tab |-> p.tab, identity |-> p.identity,
       pending |-> p.pending, ended |-> p.ended]
ArePages(all) ==
  /\ Len(all) \in Nat /\ all = [b \in 1..Len(all) |-> all[b]]
  /\ \A b \in 1..Len(all) : IsPage(all[b])
IsCall(going) ==
  going = [at |-> going.at, name |-> going.name, kind |-> going.kind, address |-> going.address,
          page |-> going.page, data |-> going.data]

\* Who waits for an answer, or for a page to connect, knows a page; and a page that somebody waits
\* for has that request and no other, and has not ended.  Every page but the one held has ended.
PagesRight(all, h, calls) ==
  /\ ArePages(all) /\ h \in 0..Len(all)
  /\ calls = [c \in AccountCalls |-> calls[c]]
  /\ \A c \in AccountCalls :
       /\ IsCall(calls[c])
       /\ calls[c].at \in {"asked", "awaits"} => calls[c].page \in 1..Len(all)
       /\ calls[c].at = "asked" => /\ ~all[calls[c].page].ended
                                   /\ all[calls[c].page].pending = {c}
  /\ \A b \in 1..Len(all) : b # h => all[b].ended

PagesInv == PagesRight(pages, held, accountCalls)

\* Appending a page
LEMMA PageAdded ==
  ASSUME NEW all, ArePages(all), NEW p, IsPage(p)
  PROVE  /\ ArePages(Append(all, p)) /\ Len(Append(all, p)) = Len(all) + 1
         /\ \A b \in 1..Len(all) : Append(all, p)[b] = all[b]
         /\ Append(all, p)[Len(all) + 1] = p
<1> DEFINE S == {all[b] : b \in 1..Len(all)} \cup {p}
<1>1. all \in Seq(S)
  <2>1. all \in [1..Len(all) -> S] BY DEF ArePages
  <2> HIDE DEF S
  <2>2. Len(all) \in Nat BY DEF ArePages
  <2> QED BY <2>1, <2>2, SeqDef
<1>2. p \in S OBVIOUS
<1> HIDE DEF S
<1>3. /\ Append(all, p) \in Seq(S) /\ Len(Append(all, p)) = Len(all) + 1
      /\ \A b \in 1..Len(all) : Append(all, p)[b] = all[b]
      /\ Append(all, p)[Len(all) + 1] = p
  BY <1>1, <1>2, AppendProperties
<1>4. /\ Len(Append(all, p)) \in Nat
      /\ Append(all, p) = [b \in 1..Len(Append(all, p)) |-> Append(all, p)[b]]
  BY <1>3, LenProperties
<1>5. \A b \in 1..Len(Append(all, p)) : IsPage(Append(all, p)[b])
  BY <1>3 DEF ArePages
<1> QED BY <1>3, <1>4, <1>5 DEF ArePages

\* One field of a page
LEMMA FieldSet ==
  ASSUME NEW q, IsPage(q), NEW x
  PROVE  /\ [q EXCEPT !.ended = x] = [expected |-> q.expected, tab |-> q.tab,
               identity |-> q.identity, pending |-> q.pending, ended |-> x]
         /\ [q EXCEPT !.tab = x] = [expected |-> q.expected, tab |-> x,
               identity |-> q.identity, pending |-> q.pending, ended |-> q.ended]
         /\ [q EXCEPT !.pending = x] = [expected |-> q.expected, tab |-> q.tab,
               identity |-> q.identity, pending |-> x, ended |-> q.ended]
         /\ [q EXCEPT !.identity = x] = [expected |-> q.expected, tab |-> q.tab,
               identity |-> x, pending |-> q.pending, ended |-> q.ended]
<1> DEFINE e == q.expected
           t == q.tab
           i == q.identity
           w == q.pending
           d == q.ended
<1>1. q = [expected |-> e, tab |-> t, identity |-> i, pending |-> w, ended |-> d] BY DEF IsPage
<1> HIDE DEF e, t, i, w, d
<1>2. [q EXCEPT !.ended = x] = [expected |-> e, tab |-> t, identity |-> i, pending |-> w, ended |-> x] BY <1>1
<1>3. [q EXCEPT !.tab = x] = [expected |-> e, tab |-> x, identity |-> i, pending |-> w, ended |-> d] BY <1>1
<1>4. [q EXCEPT !.pending = x] = [expected |-> e, tab |-> t, identity |-> i, pending |-> x, ended |-> d] BY <1>1
<1>5. [q EXCEPT !.identity = x] = [expected |-> e, tab |-> t, identity |-> x, pending |-> w, ended |-> d] BY <1>1
<1> QED BY <1>2, <1>3, <1>4, <1>5 DEF e, t, i, w, d

\* A page that ends: nobody waits for it.
LEMMA PageEnded ==
  ASSUME NEW q, IsPage(q)
  PROVE  LET p == [q EXCEPT !.ended = TRUE, !.tab = FALSE, !.pending = {}] IN
         IsPage(p) /\ p.ended /\ p.pending = {}
<1> DEFINE q1 == [q EXCEPT !.ended = TRUE]
           q2 == [q1 EXCEPT !.tab = FALSE]
           p == [q2 EXCEPT !.pending = {}]
<1>1. q1 = [expected |-> q.expected, tab |-> q.tab, identity |-> q.identity,
            pending |-> q.pending, ended |-> TRUE] BY FieldSet
<1> HIDE DEF q1
<1>2. IsPage(q1) /\ q1.ended BY <1>1 DEF IsPage
<1>3. q2 = [expected |-> q1.expected, tab |-> FALSE, identity |-> q1.identity,
            pending |-> q1.pending, ended |-> q1.ended] BY <1>2, FieldSet
<1> HIDE DEF q2
<1>4. IsPage(q2) /\ q2.ended BY <1>2, <1>3 DEF IsPage
<1>5. p = [expected |-> q2.expected, tab |-> q2.tab, identity |-> q2.identity,
            pending |-> {}, ended |-> q2.ended] BY <1>4, FieldSet
<1> HIDE DEF p
<1>6. IsPage(p) /\ p.ended /\ p.pending = {} BY <1>4, <1>5 DEF IsPage
<1> QED BY <1>6 DEF p, q2, q1

\* Stopping a page
LEMMA PageStopped ==
  ASSUME NEW all, ArePages(all), NEW b \in 0..Len(all)
  PROVE  /\ ArePages(Stop(all, b)) /\ Len(Stop(all, b)) = Len(all)
         /\ \A i \in 1..Len(all) : i # b => Stop(all, b)[i] = all[i]
         /\ b # 0 => Stop(all, b)[b].ended /\ Stop(all, b)[b].pending = {}
<1>1. CASE b = 0 BY <1>1 DEF Stop
<1>2. CASE b # 0
  <2> DEFINE n == Len(all)
             p == [all[b] EXCEPT !.ended = TRUE, !.tab = FALSE, !.pending = {}]
             all2 == [i \in 1..n |-> IF i = b THEN p ELSE all[i]]
  <2>1. n \in Nat /\ b \in 1..n /\ all = [i \in 1..n |-> all[i]] BY <1>2 DEF ArePages
  <2>2. IsPage(all[b]) BY <2>1 DEF ArePages
  <2>3. IsPage(p) /\ p.ended /\ p.pending = {} BY <2>2, PageEnded
  <2>4. Stop(all, b) = all2 BY <1>2, <2>1 DEF Stop
  <2> HIDE DEF p
  <2>5. all2 \in Seq({all2[i] : i \in 1..n})
    <3>1. all2 \in [1..n -> {all2[i] : i \in 1..n}] OBVIOUS
    <3> HIDE DEF all2
    <3> QED BY <2>1, <3>1, SeqDef
  <2>6. Len(all2) = n
    <3>1. DOMAIN all2 = 1..n OBVIOUS
    <3> HIDE DEF all2
    <3> QED BY <2>1, <2>5, <3>1, LenProperties
  <2>7. \A i \in 1..n : IsPage(all2[i]) BY <2>3 DEF ArePages
  <2> QED BY <1>2, <2>1, <2>3, <2>4, <2>6, <2>7 DEF ArePages
<1> QED BY <1>1, <1>2

\* A page with one field changed
LEMMA PageSet ==
  ASSUME NEW all, ArePages(all), NEW b \in 1..Len(all), NEW p, IsPage(p)
  PROVE  /\ ArePages([all EXCEPT ![b] = p]) /\ Len([all EXCEPT ![b] = p]) = Len(all)
         /\ \A i \in 1..Len(all) : [all EXCEPT ![b] = p][i] = IF i = b THEN p ELSE all[i]
<1> DEFINE n == Len(all)
           all2 == [i \in 1..n |-> IF i = b THEN p ELSE all[i]]
<1>1. n \in Nat /\ b \in 1..n /\ all = [i \in 1..n |-> all[i]] BY DEF ArePages
<1>2. [all EXCEPT ![b] = p] = all2 BY <1>1
<1>3. all2 \in Seq({all2[i] : i \in 1..n})
  <2>1. all2 \in [1..n -> {all2[i] : i \in 1..n}] OBVIOUS
  <2> HIDE DEF all2
  <2> QED BY <1>1, <2>1, SeqDef
<1>4. Len(all2) = n
  <2>1. DOMAIN all2 = 1..n OBVIOUS
  <2> HIDE DEF all2
  <2> QED BY <1>1, <1>3, <2>1, LenProperties
<1>5. \A i \in 1..n : IsPage(all2[i]) BY DEF ArePages
<1>6. \A i \in 1..n : all2[i] = IF i = b THEN p ELSE all[i] OBVIOUS
<1>7. ArePages(all2)
  <2>1. all2 = [i \in 1..n |-> all2[i]] OBVIOUS
  <2> HIDE DEF all2
  <2> QED BY <1>1, <1>4, <1>5, <2>1 DEF ArePages
<1> HIDE DEF all2
<1> QED BY <1>2, <1>4, <1>6, <1>7

\* Those who wait are answered or rejected, and the pages stay as they are.
LEMMA CallLeaves ==
  ASSUME NEW all, NEW h, NEW calls, PagesRight(all, h, calls), NEW waiting
  PROVE  /\ PagesRight(all, h, Leaves(calls, waiting))
         /\ \A c \in AccountCalls : Leaves(calls, waiting)[c].at = "asked"
              => Leaves(calls, waiting)[c] = calls[c] /\ c \notin waiting
<1> DEFINE calls2 == Leaves(calls, waiting)
<1>1. calls2 = [c \in AccountCalls |-> IF c \in waiting THEN NoCall ELSE calls[c]] BY DEF Leaves
<1>2. \A c \in AccountCalls : calls2[c] = NoCall \/ (calls2[c] = calls[c] /\ c \notin waiting) BY <1>1
<1>3. calls2 = [c \in AccountCalls |-> calls2[c]] BY <1>1
<1>4. IsCall(NoCall) /\ NoCall.at = "idle" BY DEF IsCall, NoCall
<1> HIDE DEF calls2
<1> QED BY <1>2, <1>3, <1>4 DEF PagesRight, calls2

\* A call that does not wait for a wallet may be anywhere.
LEMMA CallChanges ==
  ASSUME NEW all, NEW h, NEW calls, PagesRight(all, h, calls), NEW c \in AccountCalls, NEW going,
         IsCall(going), going.at # "asked", going.at = "awaits" => going.page \in 1..Len(all)
  PROVE  PagesRight(all, h, Ongoing(calls, c, going))
<1> DEFINE calls2 == Ongoing(calls, c, going)
<1>1. calls2 = [x \in AccountCalls |-> IF x = c THEN going ELSE calls[x]]
  BY DEF Ongoing, PagesRight
<1> HIDE DEF calls2
<1> QED BY <1>1 DEF PagesRight, calls2

\* Stopping a page rejects who waits for it.
LEMMA StopSettles ==
  ASSUME NEW all, NEW h, NEW calls, PagesRight(all, h, calls), NEW b \in 0..Len(all)
  PROVE  /\ PagesRight(Stop(all, b), h, Rejected(calls, all, b))
         /\ b = h => PagesRight(Stop(all, b), 0, Rejected(calls, all, b))
         /\ Len(Stop(all, b)) = Len(all)
         /\ b # 0 => Stop(all, b)[b].ended
<1> DEFINE all2 == Stop(all, b)
           calls2 == Rejected(calls, all, b)
<1>1. ArePages(all) BY DEF PagesRight
<1>2. /\ ArePages(all2) /\ Len(all2) = Len(all)
      /\ \A i \in 1..Len(all) : i # b => all2[i] = all[i]
      /\ b # 0 => all2[b].ended /\ all2[b].pending = {}
  BY <1>1, PageStopped
<1>3. CASE b = 0
  <2>1. all2 = all /\ calls2 = calls BY <1>3 DEF Stop, Rejected
  <2> QED BY <1>3, <2>1
<1>4. CASE b # 0
  <2>1. calls2 = Leaves(calls, all[b].pending \ all2[b].pending) BY <1>4 DEF Rejected
  <2>2. calls2 = Leaves(calls, all[b].pending)
    <3>1. all[b].pending \ {} = all[b].pending OBVIOUS
    <3> QED BY <1>2, <1>4, <2>1, <3>1
  <2> HIDE DEF all2, calls2
  <2>3. /\ PagesRight(all, h, calls2)
        /\ \A c \in AccountCalls : calls2[c].at = "asked"
              => calls2[c] = calls[c] /\ c \notin all[b].pending
    BY <2>2, CallLeaves
  <2>4. ASSUME NEW c \in AccountCalls, calls2[c].at = "asked" PROVE calls2[c].page # b
    BY <2>3, <2>4 DEF PagesRight
  <2>5. \A i \in 1..Len(all2) : i # h => all2[i].ended BY <1>2, <1>4 DEF PagesRight
  <2>6. b = h => \A i \in 1..Len(all2) : i # 0 => all2[i].ended BY <1>2, <1>4, <2>5
  <2>7. \A c \in AccountCalls :
          /\ IsCall(calls2[c])
          /\ calls2[c].at \in {"asked", "awaits"} => calls2[c].page \in 1..Len(all2)
          /\ calls2[c].at = "asked" => /\ ~all2[calls2[c].page].ended
                                       /\ all2[calls2[c].page].pending = {c}
    BY <1>2, <2>3, <2>4 DEF PagesRight
  <2>8. calls2 = [c \in AccountCalls |-> calls2[c]] /\ h \in 0..Len(all2) /\ 0 \in 0..Len(all2)
    BY <1>2, <2>3 DEF PagesRight, ArePages
  <2>9. PagesRight(all2, h, calls2) BY <1>2, <2>5, <2>7, <2>8 DEF PagesRight
  <2>10. b = h => PagesRight(all2, 0, calls2) BY <1>2, <2>6, <2>7, <2>8 DEF PagesRight
  <2> QED BY <1>2, <2>9, <2>10 DEF all2, calls2
<1> QED BY <1>2, <1>3, <1>4

\* Another page is held only when the one before it has ended.
LEMMA NewPageSettles ==
  ASSUME NEW all, NEW h, NEW calls, PagesRight(all, h, calls), h = 0 \/ all[h].ended, NEW expected
  PROVE  PagesRight(Append(all, NewPage(expected)), Len(all) + 1, calls)
<1> DEFINE p == NewPage(expected)
           all2 == Append(all, p)
<1>1. ArePages(all) /\ IsPage(p) BY DEF PagesRight, NewPage, IsPage
<1> HIDE DEF p
<1>2. /\ ArePages(all2) /\ Len(all2) = Len(all) + 1
      /\ \A b \in 1..Len(all) : all2[b] = all[b]
  BY <1>1, PageAdded
<1> HIDE DEF all2
<1>3. Len(all) \in Nat BY <1>1 DEF ArePages
<1>4. \A b \in 1..Len(all2) : b # Len(all) + 1 => b \in 1..Len(all) BY <1>2, <1>3
<1>5. \A b \in 1..Len(all2) : b # Len(all) + 1 => all2[b].ended BY <1>2, <1>4 DEF PagesRight
<1>6. \A b \in 1..Len(all) : b \in 1..Len(all2) BY <1>2, <1>3
<1> QED BY <1>2, <1>3, <1>5, <1>6 DEF PagesRight, all2, p

\* A page that nobody waits for takes one request.
LEMMA AskSettles ==
  ASSUME NEW all, NEW h, NEW calls, PagesRight(all, h, calls), h # 0, ~all[h].ended, all[h].pending = {},
         NEW c \in AccountCalls, NEW going, IsCall(going), going.at = "asked", going.page = h
  PROVE  PagesRight([all EXCEPT ![h].pending = {c}], h, Ongoing(calls, c, going))
<1> DEFINE p == [all[h] EXCEPT !.pending = {c}]
           all2 == [all EXCEPT ![h] = p]
           calls2 == Ongoing(calls, c, going)
<1>1. h \in 1..Len(all) /\ ArePages(all) BY DEF PagesRight
<1>2. IsPage(all[h]) BY <1>1 DEF ArePages
<1>3. IsPage(p) /\ p.pending = {c} /\ p.ended = all[h].ended
  <2>1. p = [expected |-> all[h].expected, tab |-> all[h].tab, identity |-> all[h].identity,
             pending |-> {c}, ended |-> all[h].ended] BY <1>2, FieldSet
  <2> HIDE DEF p
  <2> QED BY <2>1 DEF IsPage
<1>4. [all EXCEPT ![h].pending = {c}] = all2 OBVIOUS
<1> HIDE DEF p
<1>5. /\ ArePages(all2) /\ Len(all2) = Len(all)
      /\ \A i \in 1..Len(all) : all2[i] = IF i = h THEN p ELSE all[i]
  BY <1>1, <1>3, PageSet
<1>6. calls2 = [x \in AccountCalls |-> IF x = c THEN going ELSE calls[x]]
  BY DEF Ongoing, PagesRight
<1> HIDE DEF all2, calls2
<1>7. PagesRight(all2, h, calls2)
  <2>1. \A x \in AccountCalls : x # c => calls2[x] = calls[x] BY <1>6
  <2>2. calls2[c] = going BY <1>6
  <2>3. \A x \in AccountCalls : x # c /\ calls[x].at = "asked" => calls[x].page # h
    BY DEF PagesRight
  <2>4. calls2 = [x \in AccountCalls |-> calls2[x]] BY <1>6
  <2>5. ASSUME NEW x \in AccountCalls
        PROVE  /\ IsCall(calls2[x])
               /\ calls2[x].at \in {"asked", "awaits"} => calls2[x].page \in 1..Len(all2)
               /\ calls2[x].at = "asked" => /\ ~all2[calls2[x].page].ended
                                            /\ all2[calls2[x].page].pending = {x}
    <3>1. CASE x = c BY <1>1, <1>3, <1>5, <2>2, <3>1
    <3>2. CASE x # c BY <1>5, <2>1, <2>3, <3>2 DEF PagesRight
    <3> QED BY <3>1, <3>2
  <2>6. \A b \in 1..Len(all2) : b # h => all2[b].ended BY <1>5 DEF PagesRight
  <2>7. h \in 0..Len(all2) BY <1>1, <1>5 DEF ArePages
  <2> QED BY <1>5, <2>4, <2>5, <2>6, <2>7 DEF PagesRight
<1> QED BY <1>4, <1>7 DEF calls2

\* One field of a call
LEMMA CallSet ==
  ASSUME NEW q, IsCall(q), NEW x
  PROVE  /\ [q EXCEPT !.at = x] =
              [at |-> x, name |-> q.name, kind |-> q.kind, address |-> q.address, page |-> q.page, data |-> q.data]
         /\ [q EXCEPT !.name = x] =
              [at |-> q.at, name |-> x, kind |-> q.kind, address |-> q.address, page |-> q.page, data |-> q.data]
         /\ [q EXCEPT !.kind = x] =
              [at |-> q.at, name |-> q.name, kind |-> x, address |-> q.address, page |-> q.page, data |-> q.data]
         /\ [q EXCEPT !.address = x] =
              [at |-> q.at, name |-> q.name, kind |-> q.kind, address |-> x, page |-> q.page, data |-> q.data]
         /\ [q EXCEPT !.page = x] =
              [at |-> q.at, name |-> q.name, kind |-> q.kind, address |-> q.address, page |-> x, data |-> q.data]
         /\ [q EXCEPT !.data = x] =
              [at |-> q.at, name |-> q.name, kind |-> q.kind, address |-> q.address, page |-> q.page, data |-> x]
<1> DEFINE a == q.at
           n == q.name
           k == q.kind
           d == q.address
           p == q.page
           f == q.data
<1>0. q = [at |-> a, name |-> n, kind |-> k, address |-> d, page |-> p, data |-> f] BY DEF IsCall
<1> HIDE DEF a, n, k, d, p, f
<1>1. [q EXCEPT !.at = x] = [at |-> x, name |-> n, kind |-> k, address |-> d, page |-> p, data |-> f] BY <1>0
<1>2. [q EXCEPT !.name = x] = [at |-> a, name |-> x, kind |-> k, address |-> d, page |-> p, data |-> f] BY <1>0
<1>3. [q EXCEPT !.kind = x] = [at |-> a, name |-> n, kind |-> x, address |-> d, page |-> p, data |-> f] BY <1>0
<1>4. [q EXCEPT !.address = x] = [at |-> a, name |-> n, kind |-> k, address |-> x, page |-> p, data |-> f] BY <1>0
<1>5. [q EXCEPT !.page = x] = [at |-> a, name |-> n, kind |-> k, address |-> d, page |-> x, data |-> f] BY <1>0
<1>6. [q EXCEPT !.data = x] = [at |-> a, name |-> n, kind |-> k, address |-> d, page |-> p, data |-> x] BY <1>0
<1> QED BY <1>1, <1>2, <1>3, <1>4, <1>5, <1>6 DEF a, n, k, d, p, f

\* A call with another step is still one.
LEMMA CallAtSet ==
  ASSUME NEW q, IsCall(q), NEW x
  PROVE  LET r == [q EXCEPT !.at = x]
         IN IsCall(r) /\ r.at = x /\ r.page = q.page /\ r.address = q.address
<1> DEFINE r == [q EXCEPT !.at = x]
<1>1. r = [at |-> x, name |-> q.name, kind |-> q.kind, address |-> q.address, page |-> q.page, data |-> q.data]
  BY CallSet
<1> HIDE DEF r
<1> QED BY <1>1 DEF IsCall, r

\* A call with another name is still one.
LEMMA CallNameSet ==
  ASSUME NEW q, IsCall(q), NEW x
  PROVE  LET r == [q EXCEPT !.name = x]
         IN IsCall(r) /\ r.name = x /\ r.at = q.at /\ r.page = q.page /\ r.address = q.address
<1> DEFINE r == [q EXCEPT !.name = x]
<1>1. r = [at |-> q.at, name |-> x, kind |-> q.kind, address |-> q.address, page |-> q.page, data |-> q.data]
  BY CallSet
<1> HIDE DEF r
<1> QED BY <1>1 DEF IsCall, r

\* A call with another kind is still one.
LEMMA CallKindSet ==
  ASSUME NEW q, IsCall(q), NEW x
  PROVE  LET r == [q EXCEPT !.kind = x]
         IN IsCall(r) /\ r.kind = x /\ r.at = q.at /\ r.page = q.page /\ r.address = q.address
<1> DEFINE r == [q EXCEPT !.kind = x]
<1>1. r = [at |-> q.at, name |-> q.name, kind |-> x, address |-> q.address, page |-> q.page, data |-> q.data]
  BY CallSet
<1> HIDE DEF r
<1> QED BY <1>1 DEF IsCall, r

\* A call with another address is still one.
LEMMA CallAddressSet ==
  ASSUME NEW q, IsCall(q), NEW x
  PROVE  LET r == [q EXCEPT !.address = x]
         IN IsCall(r) /\ r.address = x /\ r.at = q.at /\ r.page = q.page
<1> DEFINE r == [q EXCEPT !.address = x]
<1>1. r = [at |-> q.at, name |-> q.name, kind |-> q.kind, address |-> x, page |-> q.page, data |-> q.data]
  BY CallSet
<1> HIDE DEF r
<1> QED BY <1>1 DEF IsCall, r

\* A call with another page is still one.
LEMMA CallPageSet ==
  ASSUME NEW q, IsCall(q), NEW x
  PROVE  LET r == [q EXCEPT !.page = x]
         IN IsCall(r) /\ r.page = x /\ r.at = q.at /\ r.address = q.address
<1> DEFINE r == [q EXCEPT !.page = x]
<1>1. r = [at |-> q.at, name |-> q.name, kind |-> q.kind, address |-> q.address, page |-> x, data |-> q.data]
  BY CallSet, ZenonT(30)
<1> HIDE DEF r
<1>2. IsCall(r) BY <1>1 DEF IsCall
<1>3. r.page = x /\ r.at = q.at /\ r.address = q.address BY <1>1
<1> QED BY <1>2, <1>3 DEF r

\* A call with another file is still one.
LEMMA CallDataSet ==
  ASSUME NEW q, IsCall(q), NEW x
  PROVE  LET r == [q EXCEPT !.data = x]
         IN IsCall(r) /\ r.data = x /\ r.at = q.at /\ r.page = q.page /\ r.address = q.address
<1> DEFINE r == [q EXCEPT !.data = x]
<1>1. r = [at |-> q.at, name |-> q.name, kind |-> q.kind, address |-> q.address, page |-> q.page, data |-> x]
  BY CallSet
<1> HIDE DEF r
<1> QED BY <1>1 DEF IsCall, r

\* What the page shows or expects is nobody's wait.
LEMMA FieldSettles ==
  ASSUME NEW all, NEW h, NEW calls, PagesRight(all, h, calls), NEW b \in 1..Len(all), NEW p,
         IsPage(p), p.pending = all[b].pending, p.ended = all[b].ended
  PROVE  PagesRight([all EXCEPT ![b] = p], h, calls)
<1> DEFINE all2 == [all EXCEPT ![b] = p]
<1>1. ArePages(all) BY DEF PagesRight
<1>2. /\ ArePages(all2) /\ Len(all2) = Len(all)
      /\ \A i \in 1..Len(all) : all2[i] = IF i = b THEN p ELSE all[i]
  BY <1>1, PageSet
<1> HIDE DEF all2
<1>3. \A i \in 1..Len(all) : all2[i].pending = all[i].pending /\ all2[i].ended = all[i].ended BY <1>2
<1> QED BY <1>2, <1>3 DEF PagesRight, all2

\* The answer of a page is for the one who asked it.
LEMMA AnswerSettles ==
  ASSUME NEW all, NEW h, NEW calls, PagesRight(all, h, calls), NEW b \in 1..Len(all)
  PROVE  PagesRight([all EXCEPT ![b].pending = {}], h, Leaves(calls, all[b].pending))
<1> DEFINE p == [all[b] EXCEPT !.pending = {}]
           all2 == [all EXCEPT ![b] = p]
           calls2 == Leaves(calls, all[b].pending)
<1>1. ArePages(all) /\ IsPage(all[b]) BY DEF PagesRight, ArePages
<1>2. IsPage(p) /\ p.ended = all[b].ended
  <2>1. p = [expected |-> all[b].expected, tab |-> all[b].tab, identity |-> all[b].identity,
             pending |-> {}, ended |-> all[b].ended] BY <1>1, FieldSet
  <2> HIDE DEF p
  <2> QED BY <2>1 DEF IsPage
<1>3. [all EXCEPT ![b].pending = {}] = all2 OBVIOUS
<1> HIDE DEF p
<1>4. /\ ArePages(all2) /\ Len(all2) = Len(all)
      /\ \A i \in 1..Len(all) : all2[i] = IF i = b THEN p ELSE all[i]
  BY <1>1, <1>2, PageSet
<1> HIDE DEF all2, calls2
<1>5. /\ PagesRight(all, h, calls2)
      /\ \A c \in AccountCalls : calls2[c].at = "asked"
            => calls2[c] = calls[c] /\ c \notin all[b].pending
  BY CallLeaves DEF calls2
<1>6. ASSUME NEW c \in AccountCalls, calls2[c].at = "asked" PROVE calls2[c].page # b
  BY <1>5, <1>6 DEF PagesRight
<1>7. \A i \in 1..Len(all2) : i # h => all2[i].ended BY <1>2, <1>4 DEF PagesRight
<1>8. \A c \in AccountCalls :
        calls2[c].at = "asked" => /\ ~all2[calls2[c].page].ended
                                  /\ all2[calls2[c].page].pending = {c}
  BY <1>4, <1>5, <1>6 DEF PagesRight
<1>9. PagesRight(all2, h, calls2) BY <1>4, <1>5, <1>7, <1>8 DEF PagesRight
<1> QED BY <1>3, <1>9 DEF calls2

\* No page, and nobody waits.
LEMMA PagesStart == AccountsInit => PagesInv
<1> SUFFICES ASSUME AccountsInit PROVE PagesInv OBVIOUS
<1>1. Len(pages) = 0 /\ pages = <<>> /\ held = 0 BY DEF AccountsInit
<1>2. ArePages(pages) BY <1>1 DEF ArePages
<1>3. accountCalls = [c \in AccountCalls |-> NoCall] BY DEF AccountsInit
<1>4. IsCall(NoCall) /\ NoCall.at = "idle" BY DEF IsCall, NoCall
<1> QED BY <1>1, <1>2, <1>3, <1>4 DEF PagesInv, PagesRight

\* A caller that did not begin
LEMMA IdleIsCall == IsCall(NoCall) /\ NoCall.at = "idle" /\ NoCall.page = 0
BY DEF IsCall, NoCall

\* What a call goes on as
LEMMA CallGoing ==
  ASSUME PagesInv, NEW c \in AccountCalls, NEW going, IsCall(going), going.at # "asked",
         going.at = "awaits" => going.page \in 1..Len(pages),
         CallGoes(c, going), UNCHANGED <<pages, held>>
  PROVE  PagesInv'
BY CallChanges DEF PagesInv, CallGoes

\* open: a page replaces the one before it, whose callers are rejected.
LEMMA OpenSettles ==
  ASSUME PagesInv, NEW c \in AccountCalls, NEW going, IsCall(going), going.at \notin {"asked", "awaits"},
         NEW expected, Open(c, going, expected)
  PROVE  PagesInv'
<1> DEFINE all == Stop(pages, held)
           calls == Rejected(accountCalls, pages, held)
<1>1. held \in 0..Len(pages) BY DEF PagesInv, PagesRight
<1>2. PagesRight(all, held, calls) /\ Len(all) = Len(pages) /\ (held # 0 => all[held].ended)
  BY <1>1, StopSettles DEF PagesInv
<1>3. /\ pages' = Append(all, NewPage(expected)) /\ held' = Len(pages) + 1
      /\ accountCalls' = Ongoing(calls, c, going) BY DEF Open
<1> HIDE DEF all, calls
<1>4. PagesRight(Append(all, NewPage(expected)), Len(all) + 1, calls) BY <1>2, NewPageSettles
<1>5. PagesRight(pages', held', calls) BY <1>2, <1>3, <1>4
<1>6. PagesRight(pages', held', Ongoing(calls, c, going)) BY <1>5, CallChanges
<1> QED BY <1>3, <1>6 DEF PagesInv

\* stop: the callers of a page are rejected before it is let go.
LEMMA StopPageSettles ==
  ASSUME PagesInv, NEW b \in 1..Len(pages), StopPage(b)
  PROVE  PagesInv'
<1>1. b \in 0..Len(pages) BY DEF PagesInv, PagesRight, ArePages
<1> QED BY <1>1, StopSettles DEF PagesInv, StopPage

\* ask: refused at once, or taken by the page that is held.
LEMMA AskPageSettles ==
  ASSUME PagesInv, NEW c \in AccountCalls, NEW going, IsCall(going), AskPage(c, going), UNCHANGED held
  PROVE  PagesInv'
<1>1. CASE ~IsConnected(held) \/ pages[held].pending # {}
  BY <1>1, IdleIsCall, CallGoing DEF AskPage
<1>2. CASE IsConnected(held) /\ pages[held].pending = {}
  <2> DEFINE next1 == [going EXCEPT !.at = "asked"]
             next == [next1 EXCEPT !.page = held]
  <2>1. IsCall(next1) /\ next1.at = "asked" BY CallAtSet
  <2> HIDE DEF next1
  <2>2. IsCall(next) /\ next.at = "asked" /\ next.page = held BY <2>1, CallPageSet
  <2>3. CallGoes(c, next) /\ pages' = [pages EXCEPT ![held].pending = {c}]
    BY <1>2 DEF AskPage, next1
  <2> HIDE DEF next
  <2>4. held # 0 /\ ~pages[held].ended BY <1>2 DEF IsConnected
  <2>5. PagesRight([pages EXCEPT ![held].pending = {c}], held, Ongoing(accountCalls, c, next))
    BY <1>2, <2>2, <2>4, AskSettles DEF PagesInv
  <2> QED BY <2>3, <2>5 DEF PagesInv, CallGoes
<1> QED BY <1>1, <1>2

\* An account was read for a page to be shown.
LEMMA ShownSettles ==
  ASSUME PagesInv, NEW c \in AccountCalls, BrowserShown(c) PROVE PagesInv'
<1>1. IsCall(Call(c)) /\ held \in 0..Len(pages) BY DEF PagesInv, PagesRight, Call
<1> DEFINE q == Call(c)
           next1 == [q EXCEPT !.at = "awaits"]
           next == [next1 EXCEPT !.page = held]
<1>10. IsCall(q) BY <1>1
<1> HIDE DEF q
<1>2. IsCall(next1) /\ next1.at = "awaits" BY <1>10, CallAtSet
<1> HIDE DEF next1
<1>3. IsCall(next) /\ next.at = "awaits" /\ next.page = held BY <1>2, CallPageSet
<1>4. UNCHANGED <<pages, held>> /\ CallGoes(c, IF held = 0 THEN NoCall ELSE next)
  BY DEF BrowserShown, next1, q
<1> HIDE DEF next
<1>5. CASE held = 0
  <2>1. CallGoes(c, NoCall) BY <1>4, <1>5
  <2> QED BY <1>4, <2>1, IdleIsCall, CallGoing
<1>6. CASE held # 0
  <2>1. CallGoes(c, next) /\ held \in 1..Len(pages) BY <1>1, <1>4, <1>6
  <2> QED BY <1>3, <1>4, <2>1, CallGoing
<1> QED BY <1>5, <1>6

\* A call whose preflight is over waits for nothing.
LEMMA DoneIsCall ==
  ASSUME NEW q, IsCall(q) PROVE IsCall(PreflightDone(q)) /\ PreflightDone(q).at = "ready"
<1> DEFINE call1 == [q EXCEPT !.at = "ready"]
           call2 == [call1 EXCEPT !.kind = "browser"]
           call3 == [call2 EXCEPT !.page = 0]
<1>1. IsCall(call1) /\ call1.at = "ready" BY CallAtSet
<1>2. PreflightDone(q) = call3 BY DEF PreflightDone
<1> HIDE DEF call1
<1>3. IsCall(call2) /\ call2.at = "ready" BY <1>1, CallKindSet
<1> HIDE DEF call2
<1>4. IsCall(call3) /\ call3.at = "ready" BY <1>3, CallPageSet
<1> QED BY <1>2, <1>4

\* A page connected, or it did not in time.
LEMMA ConnectedSettles ==
  ASSUME PagesInv, NEW c \in AccountCalls, PageConnected(c) PROVE PagesInv'
<1>1. IsCall(Call(c)) BY DEF PagesInv, PagesRight, Call
<1>2. UNCHANGED held BY DEF PageConnected
<1>3. \/ (CallGoes(c, NoCall) \/ CallGoes(c, PreflightDone(Call(c)))) /\ UNCHANGED pages
      \/ AskPage(c, Call(c))
  BY DEF PageConnected
<1>4. CASE CallGoes(c, NoCall) /\ UNCHANGED pages BY <1>2, <1>4, IdleIsCall, CallGoing
<1>5. CASE AskPage(c, Call(c)) BY <1>1, <1>2, <1>5, AskPageSettles
<1>6. CASE CallGoes(c, PreflightDone(Call(c))) /\ UNCHANGED pages
  BY <1>1, <1>2, <1>6, DoneIsCall, CallGoing
<1> QED BY <1>3, <1>4, <1>5, <1>6

\* connect: the browser's, or a record only
LEMMA ConnectSettles ==
  ASSUME PagesInv, NEW c \in AccountCalls, NEW kind, NEW name, Connect(c, kind, name) PROVE PagesInv'
<1> DEFINE call1 == [NoCall EXCEPT !.name = name]
           going == [call1 EXCEPT !.kind = kind]
           spawned == [going EXCEPT !.at = "spawned"]
           pairing == [going EXCEPT !.at = "pairing"]
<1>1. IF kind = "browser" THEN Open(c, spawned, NoOwned)
      ELSE CallGoes(c, pairing) /\ UNCHANGED <<pages, held>>
  BY DEF Connect
<1>2. IsCall(call1) BY IdleIsCall, CallNameSet
<1> HIDE DEF call1
<1>3. IsCall(going) BY <1>2, CallKindSet
<1> HIDE DEF going
<1>4. IsCall(spawned) /\ spawned.at = "spawned" /\ IsCall(pairing) /\ pairing.at = "pairing"
  BY <1>3, CallAtSet
<1> HIDE DEF spawned, pairing
<1>5. CASE kind = "browser"
  <2>1. Open(c, spawned, NoOwned) BY <1>1, <1>5
  <2> QED BY <1>4, <2>1, OpenSettles
<1>6. CASE kind # "browser"
  <2>1. CallGoes(c, pairing) /\ UNCHANGED <<pages, held>> BY <1>1, <1>6
  <2> QED BY <1>4, <2>1, CallGoing
<1> QED BY <1>5, <1>6

\* select: the page of another account is stopped.
LEMMA SelectSettles ==
  ASSUME PagesInv, NEW c, NEW name, Select(c, name) PROVE PagesInv'
<1>1. held \in 0..Len(pages) BY DEF PagesInv, PagesRight
<1>2. PagesRight(Stop(pages, held), 0, Rejected(accountCalls, pages, held))
  BY <1>1, StopSettles DEF PagesInv
<1> QED BY <1>2 DEF PagesInv, Select

\* What removing a record does to its page
LEMMA RemovesSettles ==
  ASSUME PagesInv, NEW c \in AccountCalls, NEW name, NEW data, Removes(c, name, data, accountCalls)
  PROVE  PagesInv'
<1>1. CASE data.active = name
  <2>1. held \in 0..Len(pages) BY DEF PagesInv, PagesRight
  <2> DEFINE calls == Rejected(accountCalls, pages, held)
  <2>2. PagesRight(Stop(pages, held), 0, calls) BY <2>1, StopSettles DEF PagesInv
  <2>3. pages' = Stop(pages, held) /\ held' = 0 /\ accountCalls' = Ongoing(calls, c, NoCall)
    BY <1>1 DEF Removes
  <2> HIDE DEF calls
  <2>4. PagesRight(Stop(pages, held), 0, Ongoing(calls, c, NoCall)) BY <2>2, IdleIsCall, CallChanges
  <2> QED BY <2>3, <2>4 DEF PagesInv
<1>2. CASE data.active # name
  <2>1. UNCHANGED <<pages, held>> /\ CallGoes(c, NoCall) BY <1>2 DEF Removes, CallGoes
  <2> QED BY <2>1, IdleIsCall, CallGoing
<1> QED BY <1>1, <1>2

\* disconnect
LEMMA LeaveSettles ==
  ASSUME PagesInv, NEW c \in AccountCalls, NEW name, DisconnectAccount(c, name) PROVE PagesInv'
<1> DEFINE call1 == [NoCall EXCEPT !.at = "leaving"]
           call2 == [call1 EXCEPT !.name = name]
           going == [call2 EXCEPT !.data = <<accountFile>>]
<1>1. \/ CallGoes(c, going) /\ UNCHANGED <<pages, held>>
      \/ Removes(c, name, accountFile, accountCalls)
  BY DEF DisconnectAccount
<1>2. IsCall(call1) /\ call1.at = "leaving" BY IdleIsCall, CallAtSet
<1> HIDE DEF call1
<1>3. IsCall(call2) /\ call2.at = "leaving" BY <1>2, CallNameSet
<1> HIDE DEF call2
<1>4. IsCall(going) /\ going.at = "leaving" BY <1>3, CallDataSet
<1> HIDE DEF going
<1>5. CASE CallGoes(c, going) /\ UNCHANGED <<pages, held>> BY <1>4, <1>5, CallGoing
<1>6. CASE Removes(c, name, accountFile, accountCalls) BY <1>6, RemovesSettles
<1> QED BY <1>1, <1>5, <1>6

\* signer: the record is read, then used.
LEMMA SignerSettles ==
  ASSUME PagesInv, NEW c \in AccountCalls, Signer(c) PROVE PagesInv'
<1>1. PICK r \in Active :
        /\ CallGoes(c, [NoCall EXCEPT !.at = "signer", !.name = r.name, !.address = r.address])
        /\ UNCHANGED <<accountFile, pages, held>>
  BY DEF Signer
<1> DEFINE call1 == [NoCall EXCEPT !.at = "signer"]
           call2 == [call1 EXCEPT !.name = r.name]
           going == [call2 EXCEPT !.address = r.address]
<1>2. CallGoes(c, going) BY <1>1
<1>3. IsCall(call1) /\ call1.at = "signer" BY IdleIsCall, CallAtSet
<1> HIDE DEF call1
<1>4. IsCall(call2) /\ call2.at = "signer" BY <1>3, CallNameSet
<1> HIDE DEF call2
<1>5. IsCall(going) /\ going.at = "signer" BY <1>4, CallAddressSet
<1> HIDE DEF going
<1> QED BY <1>1, <1>2, <1>5, CallGoing

\* A signer's page is opened, or asked.
LEMMA UseSettles ==
  ASSUME PagesInv, NEW c \in AccountCalls, UseSigner(c) PROVE PagesInv'
<1> DEFINE q == Call(c)
           spawned == [q EXCEPT !.at = "spawned"]
<1>1. IsCall(q) BY DEF PagesInv, PagesRight, Call
<1>2. IsCall(spawned) /\ spawned.at = "spawned" BY <1>1, CallAtSet
<1>3. \/ CallGoes(c, NoCall) /\ UNCHANGED <<pages, held>>
      \/ AskPage(c, q) /\ UNCHANGED held
      \/ Open(c, spawned, q.address)
  BY DEF UseSigner
<1> HIDE DEF q, spawned
<1>4. CASE CallGoes(c, NoCall) /\ UNCHANGED <<pages, held>> BY <1>4, IdleIsCall, CallGoing
<1>5. CASE AskPage(c, q) /\ UNCHANGED held BY <1>1, <1>5, AskPageSettles
<1>6. CASE Open(c, spawned, q.address) BY <1>2, <1>6, OpenSettles
<1> QED BY <1>3, <1>4, <1>5, <1>6

\* preflight: the page at hand will do, or one is opened.
LEMMA PreflightSettles ==
  ASSUME PagesInv, NEW c \in AccountCalls, Preflight(c) PROVE PagesInv'
<1> DEFINE q == Call(c)
           call1 == [q EXCEPT !.at = "spawned"]
           going == [call1 EXCEPT !.kind = "preflight"]
<1>1. IsCall(q) BY DEF PagesInv, PagesRight, Call
<1>2. IsCall(call1) /\ call1.at = "spawned" BY <1>1, CallAtSet
<1>3. \/ CallGoes(c, PreflightDone(q)) /\ UNCHANGED <<pages, held>>
      \/ Open(c, going, q.address)
  BY DEF Preflight
<1> HIDE DEF q, call1
<1>4. IsCall(going) /\ going.at = "spawned" BY <1>2, CallKindSet
<1> HIDE DEF going
<1>5. CASE CallGoes(c, PreflightDone(q)) /\ UNCHANGED <<pages, held>> BY <1>1, <1>5, DoneIsCall, CallGoing
<1>6. CASE Open(c, going, q.address) BY <1>4, <1>6, OpenSettles
<1> QED BY <1>3, <1>5, <1>6

\* The tab: what it says and its end
LEMMA TabSettles ==
  ASSUME PagesInv, NEW b \in 1..Len(pages),
         TabAuth(b) \/ TabAnswers(b) \/ PageEnds(b) \/ \E address \in Owned : TabConnects(b, address)
  PROVE  PagesInv'
<1>1. IsPage(pages[b]) BY DEF PagesInv, PagesRight, ArePages
<1> DEFINE q == pages[b]
<1>2. ASSUME NEW p, IsPage(p), p.pending = q.pending, p.ended = q.ended,
             pages' = [pages EXCEPT ![b] = p], UNCHANGED <<held, accountCalls>>
      PROVE  PagesInv'
  BY <1>2, FieldSettles DEF PagesInv
<1>3. CASE TabAuth(b)
  <2> DEFINE p == [q EXCEPT !.tab = TRUE]
  <2>1. pages' = [pages EXCEPT ![b] = p] BY <1>3 DEF TabAuth
  <2>2. p = [expected |-> q.expected, tab |-> TRUE, identity |-> q.identity,
             pending |-> q.pending, ended |-> q.ended] BY <1>1, FieldSet
  <2> HIDE DEF p
  <2>3. IsPage(p) /\ p.pending = q.pending /\ p.ended = q.ended BY <2>2 DEF IsPage
  <2>4. UNCHANGED <<held, accountCalls>> BY <1>3 DEF TabAuth
  <2> QED BY <1>2, <2>1, <2>3, <2>4
<1>4. CASE TabAnswers(b) BY <1>4, AnswerSettles DEF PagesInv, TabAnswers
<1>5. CASE PageEnds(b) BY <1>5, StopPageSettles DEF PageEnds
<1>6. CASE \E address \in Owned : TabConnects(b, address)
  <2>1. PICK address \in Owned : TabConnects(b, address) BY <1>6
  <2>2. CASE StopPage(b) BY <2>2, StopPageSettles
  <2>3. CASE pages' = [pages EXCEPT ![b].identity = address] /\ UNCHANGED <<held, accountCalls>>
    <3> DEFINE p == [q EXCEPT !.identity = address]
    <3>1. pages' = [pages EXCEPT ![b] = p] BY <2>3
    <3>2. p = [expected |-> q.expected, tab |-> q.tab, identity |-> address,
               pending |-> q.pending, ended |-> q.ended] BY <1>1, FieldSet
    <3> HIDE DEF p
    <3>3. IsPage(p) /\ p.pending = q.pending /\ p.ended = q.ended BY <3>2 DEF IsPage
    <3> QED BY <1>2, <2>3, <3>1, <3>3
  <2> QED BY <2>1, <2>2, <2>3 DEF TabConnects
<1> QED BY <1>3, <1>4, <1>5, <1>6

\* Every step of the accounts keeps the invariant.
LEMMA PagesStep == PagesInv /\ [AccountsNext]_accountVars => PagesInv'
<1> SUFFICES ASSUME PagesInv, [AccountsNext]_accountVars PROVE PagesInv' OBVIOUS
<1>1. ASSUME NEW c \in AccountCalls,
             \/ \E name \in AccountNames : \/ \E kind \in AccountKinds : Connect(c, kind, name)
                                           \/ Select(c, name) \/ DisconnectAccount(c, name)
             \/ Paired(c) \/ Disconnected(c) \/ Signer(c) \/ Preflight(c) \/ UseSigner(c)
             \/ BrowserShown(c) \/ PageConnected(c)
      PROVE  PagesInv'
  <2>1. CASE \E name \in AccountNames : \/ \E kind \in AccountKinds : Connect(c, kind, name)
                                        \/ Select(c, name) \/ DisconnectAccount(c, name)
    BY <2>1, ConnectSettles, SelectSettles, LeaveSettles
  <2>2. CASE Paired(c)
    <3>1. CallGoes(c, NoCall) /\ UNCHANGED <<pages, held>> BY <2>2 DEF Paired
    <3> QED BY <3>1, IdleIsCall, CallGoing
  <2>3. CASE Disconnected(c)
    <3>1. \/ Removes(c, Call(c).name, Call(c).data[1], accountCalls)
          \/ CallGoes(c, NoCall) /\ UNCHANGED <<pages, held>> BY <2>3 DEF Disconnected
    <3> QED BY <3>1, IdleIsCall, CallGoing, RemovesSettles
  <2>4. CASE Signer(c) \/ Preflight(c) \/ UseSigner(c)
    BY <2>4, SignerSettles, PreflightSettles, UseSettles
  <2>5. CASE BrowserShown(c) \/ PageConnected(c) BY <2>5, ShownSettles, ConnectedSettles
  <2> QED BY <1>1, <2>1, <2>2, <2>3, <2>4, <2>5
<1>2. ASSUME NEW b \in DOMAIN pages,
             \/ TabAuth(b) \/ TabAnswers(b) \/ PageEnds(b)
             \/ \E address \in Owned : TabConnects(b, address)
      PROVE  PagesInv'
  <2>1. b \in 1..Len(pages) BY <1>2 DEF PagesInv, PagesRight, ArePages
  <2> QED BY <1>2, <2>1, TabSettles
<1>3. CASE UNCHANGED accountVars BY <1>3 DEF accountVars, PagesInv
<1> QED BY <1>1, <1>2, <1>3 DEF AccountsNext

\* A page that waits can be answered, and one that was replaced has ended.
LEMMA PagesSettled == PagesInv => PagesAreSettled
<1> SUFFICES ASSUME PagesInv PROVE PagesAreSettled OBVIOUS
<1>1. DOMAIN pages = 1..Len(pages) BY DEF PagesInv, PagesRight, ArePages
<1>2. AskedIsAnswerable BY DEF PagesInv, PagesRight, AskedIsAnswerable, Is, Call
<1>3. ReplacedIsClosed BY <1>1 DEF PagesInv, PagesRight, ReplacedIsClosed
<1> QED BY <1>2, <1>3 DEF PagesAreSettled

-----------------------------------------------------------------------------
(***************************************************************************)
(* policy.ts, signatures.ts: all that is signed under the name of a policy *)
(* is within its budgets, and who is bound to it signs nothing else. What  *)
(* has to be known for that: what is reserved in a document is of plans of *)
(* its own that its terms permit, and they cover the sum of all; a plan    *)
(* that is to be signed was charged before; and a document that was        *)
(* revoked takes no more.                                                  *)
(***************************************************************************)

IsDoc(d) ==
  d = [terms |-> d.terms, revoked |-> d.revoked, reserved |-> d.reserved, closed |-> d.closed]

\* What is reserved is of plans of that policy, its terms let each be made and its budgets pay for all.
Covers(t, ids, n) ==
  /\ NativeOf(ids) <= t.native \/ ids = {}
  /\ \A i \in ids :
       /\ PlanOf[i].policy = n /\ Permitted(t, PlanOf[i])
       /\ \A token \in TokenOf(i) :
            token \in DOMAIN t.budget /\ SpentOf(ids, token) <= t.budget[token]

DocRight(n, d) ==
  /\ IsDoc(d) /\ d.revoked \in BOOLEAN /\ d.reserved \in SUBSET PlanIds
  /\ d = NoDocument \/ \E t \in Terms : d.terms = {t} /\ Covers(t, d.reserved, n)
  /\ d.revoked => d.closed = d.reserved

\* A signer may sign the plan, and its policy was charged for it.
Allowed(s, i) == i \in PlanIds /\ SignerPolicy[s] \in {NoPolicy, PlanOf[i].policy}
Charged(i) == PlanOf[i].policy \in PolicyNames => i \in policyDocs[PlanOf[i].policy].reserved

IsOrder(o) ==
  o = [at |-> o.at, plan |-> o.plan, now |-> o.now, key |-> o.key, payload |-> o.payload,
       verifies |-> o.verifies]

OrderRight(s, o) ==
  /\ IsOrder(o)
  /\ o.at \in {"reserve", "sign"} => Allowed(s, o.plan)
  /\ o.at = "sign" => Charged(o.plan)
  /\ o.at \in {"typed", "verify"} => SignerPolicy[s] = NoPolicy

PoliciesInv ==
  /\ policyDocs = [n \in PolicyNames |-> policyDocs[n]]
  /\ \A n \in PolicyNames : DocRight(n, policyDocs[n])
  /\ order = [s \in Signers |-> order[s]]
  /\ \A s \in Signers : OrderRight(s, order[s])
  /\ \A s \in Signers, i \in PlanIds : <<s, i>> \in signedPlans => Allowed(s, i) /\ Charged(i)
  /\ \A x \in typedSigned : SignerPolicy[x.by] = NoPolicy /\ x.verifies

\* What a part of the plans spends is no more than what all of them do.
LEMMA BudgetsGrow ==
  ASSUME NEW ids \in SUBSET PlanIds, NEW some \in SUBSET ids
  PROVE  /\ NativeOf(some) \in Nat /\ NativeOf(ids) \in Nat /\ NativeOf(some) <= NativeOf(ids)
         /\ \A token : /\ SpentOf(some, token) \in Nat /\ SpentOf(ids, token) \in Nat
                       /\ SpentOf(some, token) <= SpentOf(ids, token)
<1> DEFINE values == [i \in PlanIds |-> PlanOf[i].value]
           amounts == [i \in PlanIds |-> PlanOf[i].amount]
<1>1. IsFiniteSet(ids) BY PoliciesAssumption, FS_Subset
<1>2. \A i \in PlanIds : values[i] \in Nat /\ amounts[i] \in Nat BY PoliciesAssumption
<1> HIDE DEF values, amounts
<1>3. /\ SumOver(values, some) \in Nat /\ SumOver(values, ids) \in Nat
      /\ SumOver(values, some) <= SumOver(values, ids)
  BY <1>1, <1>2, SumGrows
<1>4. NativeOf(some) = SumOver(values, some) /\ NativeOf(ids) = SumOver(values, ids)
  BY DEF NativeOf, Summed, SumOver, values
<1>5. ASSUME NEW token
      PROVE  /\ SpentOf(some, token) \in Nat /\ SpentOf(ids, token) \in Nat
             /\ SpentOf(some, token) <= SpentOf(ids, token)
  <2> DEFINE all == {i \in ids : token \in TokenOf(i)}
             few == {i \in some : token \in TokenOf(i)}
  <2>1. all \in SUBSET ids /\ few \in SUBSET all OBVIOUS
  <2>2. SpentOf(some, token) = SumOver(amounts, few) /\ SpentOf(ids, token) = SumOver(amounts, all)
    BY DEF SpentOf, Summed, SumOver, amounts
  <2> HIDE DEF all, few
  <2>3. IsFiniteSet(all) /\ \A i \in all : amounts[i] \in Nat BY <1>1, <1>2, <2>1, FS_Subset
  <2>4. /\ SumOver(amounts, few) \in Nat /\ SumOver(amounts, all) \in Nat
        /\ SumOver(amounts, few) <= SumOver(amounts, all)
    BY <2>1, <2>3, SumGrows
  <2> QED BY <2>2, <2>4
<1> QED BY <1>3, <1>4, <1>5

\* No policy, no plan and nothing signed
LEMMA PoliciesStart == PoliciesInit => PoliciesInv
<1> SUFFICES ASSUME PoliciesInit PROVE PoliciesInv OBVIOUS
<1>1. \A n \in PolicyNames : DocRight(n, NoDocument) BY DEF DocRight, IsDoc, NoDocument
<1>2. \A s \in Signers : OrderRight(s, Free) BY DEF OrderRight, IsOrder, Free
<1> QED BY <1>1, <1>2 DEF PoliciesInit, PoliciesInv

\* Reserving another plan within the budgets keeps what was reserved covered.
LEMMA ReservedCovers ==
  ASSUME NEW t \in Terms, NEW ids \in SUBSET PlanIds, NEW n, Covers(t, ids, n),
         NEW i \in PlanIds, PlanOf[i].policy = n, Permitted(t, PlanOf[i]),
         i \in ids \/ WithinBudget(t, ids, i)
  PROVE  Covers(t, ids \cup {i}, n)
<1>1. CASE i \in ids
  <2>1. ids \cup {i} = ids BY <1>1
  <2> QED BY <2>1
<1>2. CASE i \notin ids
  <2> DEFINE more == ids \cup {i}
  <2>1. /\ NativeOf(more) <= t.native
        /\ \A token \in TokenOf(i) : token \in DOMAIN t.budget /\ SpentOf(more, token) <= t.budget[token]
    BY <1>2 DEF WithinBudget
  <2>2. ASSUME NEW j \in more
        PROVE  /\ PlanOf[j].policy = n /\ Permitted(t, PlanOf[j])
               /\ \A token \in TokenOf(j) :
                    token \in DOMAIN t.budget /\ SpentOf(more, token) <= t.budget[token]
    <3>1. CASE j = i BY <2>1, <3>1
    <3>2. CASE j # i
      <4>1. j \in ids BY <3>2
      <4>2. PlanOf[j].policy = n /\ Permitted(t, PlanOf[j]) BY <4>1 DEF Covers
      <4>3. ASSUME NEW token \in TokenOf(j)
            PROVE  token \in DOMAIN t.budget /\ SpentOf(more, token) <= t.budget[token]
        <5>1. CASE token \in TokenOf(i) BY <2>1, <5>1
        <5>2. CASE token \notin TokenOf(i)
          <6>1. {k \in more : token \in TokenOf(k)} = {k \in ids : token \in TokenOf(k)} BY <5>2
          <6>2. SpentOf(more, token) = SpentOf(ids, token) BY <6>1 DEF SpentOf
          <6> QED BY <4>1, <6>2 DEF Covers
        <5> QED BY <5>1, <5>2
      <4> QED BY <4>2, <4>3
    <3> QED BY <3>1, <3>2
  <2> QED BY <2>1, <2>2 DEF Covers
<1> QED BY <1>1, <1>2

DocsRight == \A n \in PolicyNames : DocRight(n, policyDocs[n])

\* A document that was changed, the others as they were: what is reserved stays reserved.
LEMMA DocChanged ==
  ASSUME PoliciesInv, NEW n \in PolicyNames, NEW d, DocRight(n, d),
         policyDocs[n].reserved \subseteq d.reserved,
         policyDocs' = [policyDocs EXCEPT ![n] = d], UNCHANGED <<signedPlans, typedSigned>>
  PROVE  /\ policyDocs' = [m \in PolicyNames |-> policyDocs'[m]]
         /\ \A m \in PolicyNames : DocRight(m, policyDocs'[m])
         /\ \A i \in PlanIds : Charged(i) => Charged(i)'
         /\ \A s \in Signers, i \in PlanIds :
              <<s, i>> \in signedPlans' => Allowed(s, i) /\ Charged(i)'
<1>1. policyDocs' = [m \in PolicyNames |-> IF m = n THEN d ELSE policyDocs[m]]
  BY DEF PoliciesInv
<1>2. \A m \in PolicyNames : DocRight(m, policyDocs'[m]) BY <1>1 DEF PoliciesInv
<1>3. \A i \in PlanIds : Charged(i) => Charged(i)' BY <1>1 DEF Charged
<1> QED BY <1>1, <1>2, <1>3 DEF PoliciesInv

\* A policy is saved once: nothing was reserved under its name.
LEMMA SavedIsRight ==
  ASSUME PoliciesInv, NEW n \in PolicyNames, NEW t \in Terms, SavePolicy(n, t) PROVE PoliciesInv'
<1> DEFINE d == [NoDocument EXCEPT !.terms = {t}]
<1>1. d = [terms |-> {t}, revoked |-> FALSE, reserved |-> {}, closed |-> {}]
  <2> DEFINE x == {t}
  <2>1. d = [NoDocument EXCEPT !.terms = x] OBVIOUS
  <2> HIDE DEF x, d
  <2>2. d = [terms |-> x, revoked |-> FALSE, reserved |-> {}, closed |-> {}]
    BY <2>1 DEF NoDocument
  <2> QED BY <2>2 DEF x
<1>2. policyDocs[n] = NoDocument /\ policyDocs' = [policyDocs EXCEPT ![n] = d]
  BY DEF SavePolicy, NameIsFree, Saved
<1> HIDE DEF d
<1>3. Covers(t, {}, n) BY DEF Covers
<1>4. DocRight(n, d) BY <1>1, <1>3 DEF DocRight, IsDoc
<1>5. UNCHANGED <<order, signedPlans, typedSigned>> BY DEF SavePolicy
<1>6. policyDocs[n].reserved \subseteq d.reserved BY <1>1, <1>2 DEF NoDocument
<1>7. /\ policyDocs' = [m \in PolicyNames |-> policyDocs'[m]]
      /\ \A m \in PolicyNames : DocRight(m, policyDocs'[m])
      /\ \A i \in PlanIds : Charged(i) => Charged(i)'
      /\ \A s \in Signers, i \in PlanIds :
           <<s, i>> \in signedPlans' => Allowed(s, i) /\ Charged(i)'
  BY <1>2, <1>4, <1>5, <1>6, DocChanged
<1>8. \A s \in Signers : OrderRight(s, order[s])' BY <1>5, <1>7 DEF PoliciesInv, OrderRight, Allowed
<1> QED BY <1>5, <1>7, <1>8 DEF PoliciesInv

\* One field of a document
LEMMA DocSet ==
  ASSUME NEW q, IsDoc(q), NEW x
  PROVE  /\ [q EXCEPT !.revoked = x] = [terms |-> q.terms, revoked |-> x, reserved |-> q.reserved, closed |-> q.closed]
         /\ [q EXCEPT !.closed = x] = [terms |-> q.terms, revoked |-> q.revoked, reserved |-> q.reserved, closed |-> x]
         /\ [q EXCEPT !.reserved = x] = [terms |-> q.terms, revoked |-> q.revoked, reserved |-> x, closed |-> q.closed]
<1> DEFINE t == q.terms
           r == q.revoked
           v == q.reserved
           c == q.closed
<1>0. q = [terms |-> t, revoked |-> r, reserved |-> v, closed |-> c] BY DEF IsDoc
<1> HIDE DEF t, r, v, c
<1>1. [q EXCEPT !.revoked = x] = [terms |-> t, revoked |-> x, reserved |-> v, closed |-> c] BY <1>0
<1>2. [q EXCEPT !.closed = x] = [terms |-> t, revoked |-> r, reserved |-> v, closed |-> x] BY <1>0
<1>3. [q EXCEPT !.reserved = x] = [terms |-> t, revoked |-> r, reserved |-> x, closed |-> c] BY <1>0
<1> QED BY <1>1, <1>2, <1>3 DEF t, r, v, c

\* revoke: what was reserved by then is what will ever be.
LEMMA RevokedIsRight ==
  ASSUME PoliciesInv, NEW n \in PolicyNames, RevokePolicy(n) PROVE PoliciesInv'
<1> DEFINE q == policyDocs[n]
           shut == IF q.revoked THEN q.closed ELSE q.reserved
           d1 == [q EXCEPT !.revoked = TRUE]
           d == [d1 EXCEPT !.closed = shut]
<1>1. DocRight(n, q) /\ q # NoDocument BY DEF PoliciesInv, RevokePolicy, Saved
<1>2. shut = q.reserved BY <1>1 DEF DocRight
<1>3. policyDocs' = [policyDocs EXCEPT ![n] = d]
  <2>1. policyDocs' = [policyDocs EXCEPT ![n].revoked = TRUE,
                         ![n].closed = IF policyDocs[n].revoked THEN @ ELSE policyDocs[n].reserved]
    BY DEF RevokePolicy
  <2>2. policyDocs = [m \in PolicyNames |-> policyDocs[m]] BY DEF PoliciesInv
  <2>3. IsDoc(q) BY <1>1 DEF DocRight
  <2>4. d1 = [terms |-> q.terms, revoked |-> TRUE, reserved |-> q.reserved, closed |-> q.closed]
    BY <2>3, DocSet
  <2>5. d1.closed = q.closed BY <2>4
  <2> HIDE DEF d1
  <2> QED BY <2>1, <2>2, <2>5 DEF d1
<1>4. d = [terms |-> q.terms, revoked |-> TRUE, reserved |-> q.reserved, closed |-> q.reserved]
  <2>1. d1 = [terms |-> q.terms, revoked |-> TRUE, reserved |-> q.reserved, closed |-> q.closed]
    BY <1>1, DocSet DEF DocRight
  <2>2. IsDoc(d1) BY <2>1 DEF IsDoc
  <2>3. d = [terms |-> d1.terms, revoked |-> d1.revoked, reserved |-> d1.reserved, closed |-> shut]
    <3> HIDE DEF d1, shut
    <3> QED BY <2>2, DocSet
  <2> HIDE DEF d, d1, shut
  <2> QED BY <1>2, <2>1, <2>3
<1> HIDE DEF d
<1>5. DocRight(n, d) BY <1>1, <1>4 DEF DocRight, IsDoc
<1>6. UNCHANGED <<order, signedPlans, typedSigned>> BY DEF RevokePolicy
<1>7. policyDocs[n].reserved \subseteq d.reserved BY <1>4
<1> HIDE DEF q
<1>8. /\ policyDocs' = [m \in PolicyNames |-> policyDocs'[m]]
      /\ \A m \in PolicyNames : DocRight(m, policyDocs'[m])
      /\ \A i \in PlanIds : Charged(i) => Charged(i)'
      /\ \A s \in Signers, i \in PlanIds :
           <<s, i>> \in signedPlans' => Allowed(s, i) /\ Charged(i)'
  BY <1>3, <1>5, <1>6, <1>7, DocChanged
<1>9. \A s \in Signers : OrderRight(s, order[s])' BY <1>6, <1>8 DEF PoliciesInv, OrderRight, Allowed
<1> QED BY <1>6, <1>8, <1>9 DEF PoliciesInv

\* An order goes on, and no document changes.
LEMMA OrderGoing ==
  ASSUME PoliciesInv, NEW s \in Signers, NEW o, OrderRight(s, o), OrderGoes(s, o),
         UNCHANGED <<policyDocs, signedPlans, typedSigned>>
  PROVE  PoliciesInv'
<1>1. order' = [x \in Signers |-> IF x = s THEN o ELSE order[x]] BY DEF OrderGoes, PoliciesInv
<1>2. \A i : Charged(i)' <=> Charged(i) BY DEF Charged
<1>3. \A x \in Signers : OrderRight(x, order[x])' BY <1>1, <1>2 DEF OrderRight, Allowed, PoliciesInv
<1> QED BY <1>1, <1>2, <1>3 DEF PoliciesInv

\* One field of an order
LEMMA OrderSet ==
  ASSUME NEW q, IsOrder(q), NEW x
  PROVE  /\ [q EXCEPT !.at = x] = [at |-> x, plan |-> q.plan, now |-> q.now, key |-> q.key,
                                   payload |-> q.payload, verifies |-> q.verifies]
         /\ [q EXCEPT !.verifies = x] = [at |-> q.at, plan |-> q.plan, now |-> q.now, key |-> q.key,
                                         payload |-> q.payload, verifies |-> x]
<1> DEFINE a == q.at
           p == q.plan
           n == q.now
           k == q.key
           d == q.payload
           v == q.verifies
<1>0. q = [at |-> a, plan |-> p, now |-> n, key |-> k, payload |-> d, verifies |-> v] BY DEF IsOrder
<1> HIDE DEF a, p, n, k, d, v
<1>1. [q EXCEPT !.at = x] = [at |-> x, plan |-> p, now |-> n, key |-> k, payload |-> d, verifies |-> v] BY <1>0
<1>2. [q EXCEPT !.verifies = x] = [at |-> a, plan |-> p, now |-> n, key |-> k, payload |-> d, verifies |-> x] BY <1>0
<1> QED BY <1>1, <1>2 DEF a, p, n, k, d, v

\* A signer that does nothing
LEMMA FreeIsRight == \A s : OrderRight(s, Free)
BY DEF OrderRight, IsOrder, Free

\* A plan is begun by a signer of its policy, or one that is bound to none.
LEMMA BeginIsRight ==
  ASSUME PoliciesInv, NEW s \in Signers, NEW i \in PlanIds, BeginReserve(s, i) PROVE PoliciesInv'
<1> DEFINE at == IF PlanOf[i].policy = NoPolicy THEN "sign" ELSE "reserve"
           o == [Free EXCEPT !.at = at, !.plan = i, !.now = policyTime]
<1>1. Allowed(s, i) BY DEF BeginReserve, Allowed
<1>2. IsOrder(o) /\ o.at = at /\ o.plan = i
  <2>1. o = [at |-> at, plan |-> i, now |-> policyTime, key |-> Free.key, payload |-> Free.payload,
             verifies |-> Free.verifies]
    <3> DEFINE o1 == [Free EXCEPT !.at = at]
               o2 == [o1 EXCEPT !.plan = i]
               o3 == [o2 EXCEPT !.now = policyTime]
    <3>1. o = o3 OBVIOUS
    <3> HIDE DEF at
    <3>2. o1 = [at |-> at, plan |-> Free.plan, now |-> Free.now, key |-> Free.key,
                payload |-> Free.payload, verifies |-> Free.verifies]
      BY FreeIsRight, OrderSet DEF OrderRight
    <3> HIDE DEF o1
    <3>3. o2 = [at |-> at, plan |-> i, now |-> Free.now, key |-> Free.key,
                payload |-> Free.payload, verifies |-> Free.verifies]
      BY <3>2
    <3> HIDE DEF o2
    <3>4. o3 = [at |-> at, plan |-> i, now |-> policyTime, key |-> Free.key,
                payload |-> Free.payload, verifies |-> Free.verifies]
      BY <3>3
    <3> HIDE DEF o3, o
    <3> QED BY <3>1, <3>4
  <2> HIDE DEF at, o
  <2> QED BY <2>1 DEF IsOrder
<1>3. at = "sign" => Charged(i) BY PoliciesAssumption DEF Charged
<1>4. OrderRight(s, o) BY <1>1, <1>2, <1>3 DEF OrderRight
<1>5. OrderGoes(s, o) /\ UNCHANGED <<policyDocs, signedPlans, typedSigned>> BY DEF BeginReserve
<1> HIDE DEF o
<1> QED BY <1>4, <1>5, OrderGoing

\* What is charged to a policy that may take it on: its document stays right, and so do the others.
LEMMA ChargedIsRight ==
  ASSUME PoliciesInv, NEW i \in PlanIds, NEW n, n = PlanOf[i].policy, NEW at,
         MayReserve(policyDocs[n], i, at),
         policyDocs' = [policyDocs EXCEPT ![n].reserved = @ \cup {i}],
         UNCHANGED <<signedPlans, typedSigned>>
  PROVE  /\ policyDocs' = [m \in PolicyNames |-> policyDocs'[m]]
         /\ \A m \in PolicyNames : DocRight(m, policyDocs'[m])
         /\ \A j \in PlanIds : Charged(j) => Charged(j)'
         /\ \A x \in Signers, j \in PlanIds :
              <<x, j>> \in signedPlans' => Allowed(x, j) /\ Charged(j)'
         /\ Charged(i)'
<1>1. CASE n \in PolicyNames
  <2> DEFINE doc == policyDocs[n]
             more == doc.reserved \cup {i}
             d == [doc EXCEPT !.reserved = more]
  <2>1. DocRight(n, doc) BY <1>1 DEF PoliciesInv
  <2>2. policyDocs' = [policyDocs EXCEPT ![n] = d] OBVIOUS
  <2>3. d = [terms |-> doc.terms, revoked |-> doc.revoked, reserved |-> more, closed |-> doc.closed]
    <3> HIDE DEF doc, more
    <3> QED BY <2>1, DocSet DEF DocRight
  <2>4. MayReserve(doc, i, at) OBVIOUS
  <2> HIDE DEF d, doc
  <2>5. PICK t : /\ t \in doc.terms /\ Authorized(t, PlanOf[i], at)
                 /\ i \in doc.reserved \/ WithinBudget(t, doc.reserved, i)
    BY <2>4 DEF MayReserve
  <2>6. doc # NoDocument BY <2>5 DEF NoDocument
  <2>7. t \in Terms /\ doc.terms = {t} /\ Covers(t, doc.reserved, n)
    BY <2>1, <2>5, <2>6 DEF DocRight
  <2>8. Permitted(t, PlanOf[i])
    <3>1. Authorized(t, PlanOf[i], at) BY <2>5
    <3> QED BY <3>1 DEF Authorized
  <2>9. doc.reserved \in SUBSET PlanIds BY <2>1 DEF DocRight
  <2>10. Covers(t, more, n) BY <2>5, <2>7, <2>8, <2>9, ReservedCovers
  <2>11. ~doc.revoked BY <2>4 DEF MayReserve
  <2>12. more \in SUBSET PlanIds BY <2>9
  <2>13. doc.reserved \subseteq more /\ i \in more OBVIOUS
  <2> HIDE DEF more
  <2>14. DocRight(n, d) BY <2>1, <2>3, <2>7, <2>10, <2>11, <2>12 DEF DocRight, IsDoc
  <2>15. policyDocs[n].reserved \subseteq d.reserved BY <2>3, <2>13 DEF doc
  <2>16. /\ policyDocs' = [m \in PolicyNames |-> policyDocs'[m]]
         /\ \A m \in PolicyNames : DocRight(m, policyDocs'[m])
         /\ \A j \in PlanIds : Charged(j) => Charged(j)'
         /\ \A x \in Signers, j \in PlanIds :
              <<x, j>> \in signedPlans' => Allowed(x, j) /\ Charged(j)'
    BY <1>1, <2>2, <2>14, <2>15, DocChanged
  <2>17. policyDocs'[n].reserved = more
    <3>1. policyDocs = [m \in PolicyNames |-> policyDocs[m]] BY DEF PoliciesInv
    <3>2. policyDocs'[n] = d BY <1>1, <2>2, <3>1
    <3> QED BY <2>3, <3>2
  <2>18. Charged(i)' BY <2>13, <2>17 DEF Charged
  <2> QED BY <2>16, <2>18
<1>2. CASE n \notin PolicyNames
  <2>1. policyDocs' = policyDocs BY <1>2 DEF PoliciesInv
  <2>2. Charged(i)' BY <1>2 DEF Charged
  <2>3. \A j : Charged(j)' <=> Charged(j) BY <2>1 DEF Charged
  <2> QED BY <2>1, <2>2, <2>3 DEF PoliciesInv
<1> QED BY <1>1, <1>2

\* reserve: the plan is charged while the lock is held, or refused.
LEMMA ReserveIsRight ==
  ASSUME PoliciesInv, NEW s \in Signers, Reserve(s) PROVE PoliciesInv'
<1>1. PICK q, i, n, o : q = order[s] /\ i = q.plan /\ n = PlanOf[i].policy /\ o = [q EXCEPT !.at = "sign"]
  OBVIOUS
<1>2. q.at = "reserve" /\ Allowed(s, i) /\ i \in PlanIds /\ IsOrder(q)
  BY <1>1 DEF Reserve, PoliciesInv, OrderRight, Allowed
<1>3. UNCHANGED <<signedPlans, typedSigned>> BY DEF Reserve
<1>4. CASE MayReserve(policyDocs[n], i, q.now)
  <2>1. policyDocs' = [policyDocs EXCEPT ![n].reserved = @ \cup {i}] /\ OrderGoes(s, o)
    BY <1>1, <1>4 DEF Reserve
  <2>2. order' = [x \in Signers |-> IF x = s THEN o ELSE order[x]]
    BY <2>1 DEF OrderGoes, PoliciesInv
  <2>3. IsOrder(o) /\ o.at = "sign" /\ o.plan = i
    <3>1. o = [at |-> "sign", plan |-> q.plan, now |-> q.now, key |-> q.key, payload |-> q.payload,
               verifies |-> q.verifies]
      BY <1>1, <1>2, OrderSet, Zenon
    <3> QED BY <1>1, <3>1 DEF IsOrder
  <2>4. /\ policyDocs' = [m \in PolicyNames |-> policyDocs'[m]]
        /\ \A m \in PolicyNames : DocRight(m, policyDocs'[m])
        /\ \A j \in PlanIds : Charged(j) => Charged(j)'
        /\ \A x \in Signers, j \in PlanIds :
             <<x, j>> \in signedPlans' => Allowed(x, j) /\ Charged(j)'
        /\ Charged(i)'
    BY <1>1, <1>2, <1>3, <1>4, <2>1, ChargedIsRight, Zenon
  <2>5. ASSUME NEW x \in Signers PROVE OrderRight(x, order[x])'
    <3>1. CASE x = s
      <4>1. order'[x] = o BY <2>2, <3>1
      <4> QED BY <1>2, <2>3, <2>4, <3>1, <4>1 DEF OrderRight, Allowed
    <3>2. CASE x # s
      <4>1. PICK r : r = order[x] OBVIOUS
      <4>2. order'[x] = r /\ OrderRight(x, r) BY <2>2, <3>2, <4>1 DEF PoliciesInv
      <4>3. r.at = "sign" => r.plan \in PlanIds /\ Charged(r.plan) BY <4>2 DEF OrderRight, Allowed
      <4>4. r.at = "sign" => Charged(r.plan)' BY <2>4, <4>3
      <4> QED BY <4>2, <4>4 DEF OrderRight
    <3> QED BY <3>1, <3>2
  <2>6. order' = [x \in Signers |-> order'[x]] BY <2>2
  <2> QED BY <1>3, <2>4, <2>5, <2>6, Zenon DEF PoliciesInv
<1>5. CASE ~MayReserve(policyDocs[n], i, q.now)
  <2>1. OrderGoes(s, Free) /\ UNCHANGED policyDocs BY <1>1, <1>5 DEF Reserve
  <2> QED BY <1>3, <2>1, FreeIsRight, OrderGoing
<1> QED BY <1>4, <1>5

\* What is signed was charged.
LEMMA SignIsRight ==
  ASSUME PoliciesInv, NEW s \in Signers, SignPlan(s) PROVE PoliciesInv'
<1> DEFINE i == order[s].plan
<1>1. Allowed(s, i) /\ Charged(i) BY DEF SignPlan, PoliciesInv, OrderRight
<1>2. order' = [x \in Signers |-> IF x = s THEN Free ELSE order[x]]
  BY DEF SignPlan, OrderGoes, PoliciesInv
<1>3. UNCHANGED <<policyDocs, typedSigned>> /\ signedPlans' = signedPlans \cup {<<s, i>>} BY DEF SignPlan
<1>4. \A j : Charged(j)' <=> Charged(j) BY <1>3 DEF Charged
<1>5. \A x \in Signers : OrderRight(x, order[x])'
  <2> TAKE x \in Signers
  <2>1. CASE x = s BY <1>2, <2>1, FreeIsRight DEF OrderRight, Free
  <2>2. CASE x # s
    <3>1. order'[x] = order[x] /\ OrderRight(x, order[x]) BY <1>2, <2>2 DEF PoliciesInv
    <3> QED BY <1>4, <3>1 DEF OrderRight, Allowed
  <2> QED BY <2>1, <2>2
<1> HIDE DEF i
<1>6. \A x \in Signers, j \in PlanIds : <<x, j>> \in signedPlans' => Allowed(x, j) /\ Charged(j)'
  BY <1>1, <1>3, <1>4 DEF PoliciesInv
<1> QED BY <1>2, <1>3, <1>5, <1>6 DEF PoliciesInv

\* Typed payloads are signed by those who are bound to no policy.
LEMMA TypedIsRight ==
  ASSUME PoliciesInv, NEW s \in Signers,
         \/ \E k \in TypedKeys, payload \in Payloads : BeginTyped(s, k, payload)
         \/ SignTyped(s) \/ VerifyTyped(s) \/ StopSigning(s)
  PROVE  PoliciesInv'
<1> DEFINE q == order[s]
<1>1. OrderRight(s, q) BY DEF PoliciesInv
<1>2. CASE \E k \in TypedKeys, payload \in Payloads : BeginTyped(s, k, payload)
  <2>1. PICK k \in TypedKeys, payload \in Payloads : BeginTyped(s, k, payload) BY <1>2
  <2> DEFINE o == [Free EXCEPT !.at = "typed", !.key = {k}, !.payload = payload]
  <2>2. o = [at |-> "typed", plan |-> Free.plan, now |-> Free.now, key |-> {k}, payload |-> payload,
             verifies |-> Free.verifies]
    <3> DEFINE keys == {k}
               o1 == [Free EXCEPT !.at = "typed"]
               o2 == [o1 EXCEPT !.key = keys]
               o3 == [o2 EXCEPT !.payload = payload]
    <3>1. o = o3 OBVIOUS
    <3>2. o1 = [at |-> "typed", plan |-> Free.plan, now |-> Free.now, key |-> Free.key,
                payload |-> Free.payload, verifies |-> Free.verifies]
      BY FreeIsRight, OrderSet DEF OrderRight
    <3> HIDE DEF o1, keys
    <3>3. o2 = [at |-> "typed", plan |-> Free.plan, now |-> Free.now, key |-> keys,
                payload |-> Free.payload, verifies |-> Free.verifies]
      BY <3>2
    <3> HIDE DEF o2
    <3>4. o3 = [at |-> "typed", plan |-> Free.plan, now |-> Free.now, key |-> keys,
                payload |-> payload, verifies |-> Free.verifies]
      BY <3>3
    <3> HIDE DEF o3, o
    <3> QED BY <3>1, <3>4 DEF keys
  <2>3. /\ OrderGoes(s, o) /\ SignerPolicy[s] = NoPolicy
        /\ UNCHANGED <<policyDocs, signedPlans, typedSigned>> BY <2>1 DEF BeginTyped
  <2> HIDE DEF o
  <2>4. OrderRight(s, o) BY <2>2, <2>3 DEF OrderRight, IsOrder
  <2> QED BY <2>3, <2>4, OrderGoing
<1>3. CASE SignTyped(s)
  <2>1. PICK verifies \in BOOLEAN :
          OrderGoes(s, [order[s] EXCEPT !.at = "verify", !.verifies = verifies]) BY <1>3 DEF SignTyped
  <2> DEFINE o1 == [q EXCEPT !.at = "verify"]
             o == [o1 EXCEPT !.verifies = verifies]
  <2>2. OrderGoes(s, o) BY <2>1
  <2>3. SignerPolicy[s] = NoPolicy /\ IsOrder(q) BY <1>1, <1>3 DEF SignTyped, OrderRight
  <2>4. UNCHANGED <<policyDocs, signedPlans, typedSigned>> BY <1>3 DEF SignTyped
  <2> HIDE DEF q
  <2>5. IsOrder(o1) /\ o1.at = "verify"
    <3>1. o1 = [at |-> "verify", plan |-> q.plan, now |-> q.now, key |-> q.key,
                payload |-> q.payload, verifies |-> q.verifies]
      BY <2>3, OrderSet
    <3> HIDE DEF o1
    <3> QED BY <3>1 DEF IsOrder
  <2> HIDE DEF o1
  <2>6. IsOrder(o) /\ o.at = "verify"
    <3>1. o = [at |-> o1.at, plan |-> o1.plan, now |-> o1.now, key |-> o1.key,
               payload |-> o1.payload, verifies |-> verifies]
      BY <2>5, OrderSet
    <3> HIDE DEF o
    <3> QED BY <2>5, <3>1 DEF IsOrder
  <2> HIDE DEF o
  <2>7. OrderRight(s, o) BY <2>3, <2>6 DEF OrderRight
  <2> QED BY <2>2, <2>4, <2>7, OrderGoing
<1>4. CASE VerifyTyped(s)
  <2>1. SignerPolicy[s] = NoPolicy BY <1>1, <1>4 DEF VerifyTyped, OrderRight
  <2>2. OrderGoes(s, Free) /\ UNCHANGED <<policyDocs, signedPlans>> BY <1>4 DEF VerifyTyped
  <2>3. \/ UNCHANGED typedSigned
        \/ /\ order[s].verifies
           /\ typedSigned' = typedSigned
               \cup {[by |-> s, payload |-> order[s].payload, verifies |-> order[s].verifies]}
    BY <1>4 DEF VerifyTyped
  <2>4. \A x \in typedSigned' : SignerPolicy[x.by] = NoPolicy /\ x.verifies
    BY <2>1, <2>3 DEF PoliciesInv
  <2>5. order' = [x \in Signers |-> IF x = s THEN Free ELSE order[x]]
    BY <2>2 DEF OrderGoes, PoliciesInv
  <2>6. \A j : Charged(j)' <=> Charged(j) BY <2>2 DEF Charged
  <2>7. \A x \in Signers : OrderRight(x, order[x])'
    <3> TAKE x \in Signers
    <3>1. CASE x = s BY <2>5, <3>1 DEF OrderRight, IsOrder, Free
    <3>2. CASE x # s
      <4>1. order'[x] = order[x] /\ OrderRight(x, order[x]) BY <2>5, <3>2 DEF PoliciesInv
      <4> QED BY <2>6, <4>1 DEF OrderRight, Allowed
    <3> QED BY <3>1, <3>2
  <2> QED BY <2>2, <2>4, <2>5, <2>6, <2>7 DEF PoliciesInv
<1>5. CASE StopSigning(s) BY <1>5, FreeIsRight, OrderGoing DEF StopSigning
<1> QED BY <1>2, <1>3, <1>4, <1>5

\* Every step of the policies keeps the invariant.
LEMMA PoliciesStep == PoliciesInv /\ [PoliciesNext]_policyVars => PoliciesInv'
<1> SUFFICES ASSUME PoliciesInv, [PoliciesNext]_policyVars PROVE PoliciesInv' OBVIOUS
<1>1. ASSUME NEW n \in PolicyNames, RevokePolicy(n) \/ \E t \in Terms : SavePolicy(n, t) PROVE PoliciesInv'
  BY <1>1, RevokedIsRight, SavedIsRight
<1>2. ASSUME NEW s \in Signers,
             \/ \E i \in PlanIds : BeginReserve(s, i)
             \/ Reserve(s) \/ SignPlan(s) \/ SignTyped(s) \/ VerifyTyped(s) \/ StopSigning(s)
             \/ \E k \in TypedKeys, payload \in Payloads : BeginTyped(s, k, payload)
      PROVE  PoliciesInv'
  BY <1>2, BeginIsRight, ReserveIsRight, SignIsRight, TypedIsRight
<1>3. CASE PolicyTick \/ UNCHANGED policyVars
  <2>1. UNCHANGED <<policyDocs, order, signedPlans, typedSigned>> BY <1>3 DEF PolicyTick, policyVars
  <2> QED BY <2>1 DEF PoliciesInv, OrderRight, Allowed, Charged
<1> QED BY <1>1, <1>2, <1>3 DEF PoliciesNext

\* All that is signed under a policy was charged to it, so it is within the budget.
LEMMA PoliciesBound == PoliciesInv => SpendingIsBounded /\ BoundSignersObey
<1> SUFFICES ASSUME PoliciesInv PROVE SpendingIsBounded /\ BoundSignersObey OBVIOUS
<1>1. BoundSignersObey BY DEF PoliciesInv, BoundSignersObey, Allowed
<1>2. ASSUME NEW n \in PolicyNames
      PROVE  /\ policyDocs[n].revoked =>
                  SignedUnder(n) \subseteq policyDocs[n].closed /\ policyDocs[n].reserved = policyDocs[n].closed
             /\ \A i \in SignedUnder(n) : \E t \in policyDocs[n].terms :
                  /\ Permitted(t, PlanOf[i])
                  /\ NativeOf(SignedUnder(n)) <= t.native
                  /\ \A token \in TokenOf(i) : SpentOf(SignedUnder(n), token) <= t.budget[token]
  <2> DEFINE d == policyDocs[n]
             ids == d.reserved
  <2>1. DocRight(n, d) BY DEF PoliciesInv
  <2>2. SignedUnder(n) \in SUBSET ids BY DEF SignedUnder, PoliciesInv, Charged
  <2>3. ids \in SUBSET PlanIds BY <2>1 DEF DocRight
  <2>4. d.revoked => d.closed = ids BY <2>1 DEF DocRight
  <2>5. ASSUME NEW i \in SignedUnder(n)
        PROVE  \E t \in d.terms :
                  /\ Permitted(t, PlanOf[i])
                  /\ NativeOf(SignedUnder(n)) <= t.native
                  /\ \A token \in TokenOf(i) : SpentOf(SignedUnder(n), token) <= t.budget[token]
    <3>1. i \in ids BY <2>2
    <3>2. d # NoDocument BY <3>1 DEF NoDocument
    <3>3. PICK t \in Terms : d.terms = {t} /\ Covers(t, ids, n) BY <2>1, <3>2 DEF DocRight
    <3> DEFINE under == SignedUnder(n)
    <3> HIDE DEF ids, d, under
    <3>4. /\ NativeOf(under) \in Nat /\ NativeOf(ids) \in Nat /\ NativeOf(under) <= NativeOf(ids)
          /\ \A token : /\ SpentOf(under, token) \in Nat /\ SpentOf(ids, token) \in Nat
                        /\ SpentOf(under, token) <= SpentOf(ids, token)
      BY <2>2, <2>3, BudgetsGrow DEF under
    <3>5. /\ NativeOf(ids) <= t.native /\ Permitted(t, PlanOf[i])
          /\ \A token \in TokenOf(i) :
               token \in DOMAIN t.budget /\ SpentOf(ids, token) <= t.budget[token]
      BY <3>1, <3>3 DEF Covers
    <3>6. t.native \in Int /\ \A token \in DOMAIN t.budget : t.budget[token] \in Int
      BY PoliciesAssumption
    <3>7. NativeOf(under) <= t.native BY <3>4, <3>5, <3>6
    <3>8. ASSUME NEW token \in TokenOf(i) PROVE SpentOf(under, token) <= t.budget[token]
      <4>1. SpentOf(ids, token) <= t.budget[token] /\ t.budget[token] \in Int BY <3>5, <3>6
      <4> QED BY <3>4, <4>1
    <3> QED BY <3>3, <3>5, <3>7, <3>8 DEF under
  <2> QED BY <2>2, <2>4, <2>5
<1> QED BY <1>1, <1>2 DEF SpendingIsBounded

-----------------------------------------------------------------------------
(***************************************************************************)
(* packages/sugar wallets: nobody is asked to sign for another sender than *)
(* the reviewed one, and the wallet that is active is the one the last     *)
(* command selected. What has to be known for that: a plan that the local  *)
(* secret signs was opened by its sender; while one command runs alone,    *)
(* what the records select is still what was selected before it, unless it *)
(* is in a phase that changes them; a plan that waits for WalletConnect    *)
(* holds the record that is there, for it will write it again; and a plan  *)
(* that pairs the browser again does so for the account that is selected   *)
(* already.                                                                *)
(***************************************************************************)

IsProc(r) ==
  r = [at |-> r.at, then |-> r.then, rec |-> r.rec, sender |-> r.sender, left |-> r.left]
IsFiles(f) == f = [browser |-> f.browser, wc |-> f.wc, local |-> f.local]

\* Where a command may be: a plan that is sent with the local secret was opened by its sender.
StepRight(r) ==
  /\ IsProc(r)
  /\ r.at = "sending" /\ r.then = "local" => r.rec.address = r.sender
  /\ r.at = "sendingWc" => r.then = "walletconnect"
  /\ r.at \in {"ending", "ended"} => r.then \in {"stop", "pair", "browser"}

\* The phases of commands that select nothing.
Steady == {"creating", "removing", "review", "unlocking", "sending", "sendingWc"}
Repairs(r) == r.left > 0 /\ (r.at = "pairingBrowser" \/ (r.at \in {"ending", "ended"} /\ r.then = "browser"))

\* What the records are while the only command that runs is there.
Follows(r, f, ch, account) ==
  /\ r.at \in {"ending", "ended"} /\ r.then = "stop" => f.browser = NoAddress
  /\ Repairs(r) /\ r.at # "pairingBrowser" => account \in {NoAddress, r.sender}
  /\ ch # Unsure =>
       /\ r.at \in Steady \cup {"idle"} \/ Repairs(r) => External(f) = ch
       /\ Repairs(r) => f.browser = r.sender
       /\ r.at = "sendingWc" => f.wc = r.rec

WInv ==
  /\ proc = [p \in Procs |-> proc[p]] /\ paired = [p \in Procs |-> paired[p]]
  /\ \A p \in Procs : StepRight(proc[p])
  /\ IsFiles(files)
  /\ crowded \in BOOLEAN /\ (crowded => chosen = Unsure)
  /\ ~crowded => \A p, q \in Procs : Busy(p) /\ Busy(q) => p = q
  /\ ~crowded => \A p \in Procs : Busy(p) => Follows(proc[p], files, chosen, paired[p])
  /\ (\A p \in Procs : ~Busy(p)) /\ chosen # Unsure => External(files) = chosen
  /\ SignsWhatWasReviewed

\* What is asked for and shown
LEMMA WalletsHeld == WInv => SignsWhatWasReviewed /\ ConnectedIsActive
BY DEF WInv, ConnectedIsActive

\* A process without a command
LEMMA IdleIs == /\ IsProc(Idle) /\ StepRight(Idle) /\ Idle.at = "idle" /\ Idle.then = "stop" /\ Idle.left = 0
                /\ Idle.sender = NoAddress /\ Idle.rec = NoRecord
BY DEF IsProc, StepRight, Idle, NoRecord

\* No record, and no command
LEMMA WalletsStart == WalletsInit => WInv
<1> SUFFICES ASSUME WalletsInit PROVE WInv OBVIOUS
<1>1. \A p \in Procs : proc[p] = Idle /\ ~Busy(p) BY IdleIs DEF WalletsInit, Busy
<1>2. IsFiles(files) /\ External(files) = Nobody
  BY DEF WalletsInit, IsFiles, External
<1>3. SignsWhatWasReviewed BY DEF WalletsInit, SignsWhatWasReviewed
<1> QED BY <1>1, <1>2, <1>3, IdleIs DEF WInv, WalletsInit

\* What the records select depends on two of them only.
LEMMA ExternalIs ==
  ASSUME NEW f, NEW g, f.browser = g.browser, f.wc = g.wc
  PROVE  External(f) = External(g)
BY DEF External
\* A browser's record is selected before all others.
LEMMA BrowserIs ==
  ASSUME NEW f, f.browser # NoAddress
  PROVE  External(f) = [source |-> "browser", address |-> f.browser]
BY DEF External
\* WalletConnect's is selected when there is no browser's.
LEMMA WalletConnectIs ==
  ASSUME NEW f, f.browser = NoAddress, f.wc # NoRecord
  PROVE  External(f) = [source |-> "walletconnect", address |-> f.wc.address]
BY DEF External
\* Without a record nobody is selected.
LEMMA NobodyIs ==
  ASSUME NEW f, f.browser = NoAddress, f.wc = NoRecord
  PROVE  External(f) = Nobody
BY DEF External

\* One field of the records
LEMMA FilesSet ==
  ASSUME NEW f, IsFiles(f), NEW x
  PROVE  /\ [f EXCEPT !.browser = x] = [browser |-> x, wc |-> f.wc, local |-> f.local]
         /\ [f EXCEPT !.wc = x] = [browser |-> f.browser, wc |-> x, local |-> f.local]
         /\ [f EXCEPT !.local = x] = [browser |-> f.browser, wc |-> f.wc, local |-> x]
<1> DEFINE b == f.browser
           w == f.wc
           l == f.local
<1>0. f = [browser |-> b, wc |-> w, local |-> l] BY DEF IsFiles
<1> HIDE DEF b, w, l
<1>1. [f EXCEPT !.browser = x] = [browser |-> x, wc |-> w, local |-> l] BY <1>0
<1>2. [f EXCEPT !.wc = x] = [browser |-> b, wc |-> x, local |-> l] BY <1>0
<1>3. [f EXCEPT !.local = x] = [browser |-> b, wc |-> w, local |-> x] BY <1>0
<1> QED BY <1>1, <1>2, <1>3 DEF b, w, l

\* One field of a command
LEMMA ProcSet ==
  ASSUME NEW r, IsProc(r), NEW x
  PROVE  /\ [r EXCEPT !.at = x] = [at |-> x, then |-> r.then, rec |-> r.rec, sender |-> r.sender, left |-> r.left]
         /\ [r EXCEPT !.then = x] = [at |-> r.at, then |-> x, rec |-> r.rec, sender |-> r.sender, left |-> r.left]
         /\ [r EXCEPT !.rec = x] = [at |-> r.at, then |-> r.then, rec |-> x, sender |-> r.sender, left |-> r.left]
         /\ [r EXCEPT !.sender = x] = [at |-> r.at, then |-> r.then, rec |-> r.rec, sender |-> x, left |-> r.left]
         /\ [r EXCEPT !.left = x] = [at |-> r.at, then |-> r.then, rec |-> r.rec, sender |-> r.sender, left |-> x]
<1> DEFINE a == r.at
           t == r.then
           c == r.rec
           s == r.sender
           l == r.left
<1>0. r = [at |-> a, then |-> t, rec |-> c, sender |-> s, left |-> l] BY DEF IsProc
<1> HIDE DEF a, t, c, s, l
<1>1. [r EXCEPT !.at = x] = [at |-> x, then |-> t, rec |-> c, sender |-> s, left |-> l] BY <1>0
<1>2. [r EXCEPT !.then = x] = [at |-> a, then |-> x, rec |-> c, sender |-> s, left |-> l] BY <1>0
<1>3. [r EXCEPT !.rec = x] = [at |-> a, then |-> t, rec |-> x, sender |-> s, left |-> l] BY <1>0
<1>4. [r EXCEPT !.sender = x] = [at |-> a, then |-> t, rec |-> c, sender |-> x, left |-> l] BY <1>0
<1>5. [r EXCEPT !.left = x] = [at |-> a, then |-> t, rec |-> c, sender |-> s, left |-> x] BY <1>0
<1> QED BY <1>1, <1>2, <1>3, <1>4, <1>5 DEF a, t, c, s, l

\* A step of a command that runs: what its next phase demands of the records.
LEMMA CommandGoes ==
  ASSUME WInv, NEW p \in Procs, Busy(p), NEW r, Goes(p, r), StepRight(r), IsFiles(files'),
         crowded' = crowded, paired' = [q \in Procs |-> paired'[q]],
         crowded => chosen' = Unsure,
         ~crowded => Follows(r, files', chosen', paired'[p]),
         SignsWhatWasReviewed'
  PROVE  WInv'
<1>1. proc' = [q \in Procs |-> IF q = p THEN r ELSE proc[q]] BY DEF Goes, WInv
<1>2. \A q \in Procs : StepRight(proc'[q]) BY <1>1 DEF WInv
<1>3. CASE crowded BY <1>1, <1>2, <1>3 DEF WInv
<1>4. CASE ~crowded
  <2>1. \A q \in Procs : q # p => ~Busy(q) /\ ~Busy(q)' BY <1>1, <1>4 DEF WInv, Busy
  <2>2. proc'[p] = r BY <1>1
  <2>3. Follows(proc'[p], files', chosen', paired'[p]) BY <1>4, <2>2
  <2>4. (\A q \in Procs : ~Busy(q)') /\ chosen' # Unsure => External(files') = chosen'
    BY <2>2, <2>3 DEF Busy, Follows
  <2>5. \A q \in Procs : Busy(q)' => Follows(proc'[q], files', chosen', paired'[q])
    BY <2>1, <2>3
  <2> QED BY <1>1, <1>2, <1>4, <2>1, <2>4, <2>5 DEF WInv, External
<1> QED BY <1>3, <1>4

\* A command that begins; it has the records for itself if no other runs.
LEMMA CommandBegins ==
  ASSUME WInv, NEW p \in Procs, BeginWork(p), NEW r, Goes(p, r), StepRight(r), IsFiles(files'),
         paired' = [q \in Procs |-> paired'[q]], UNCHANGED walletAsked, r.at # "idle",
         (\A q \in Procs : ~Busy(q)) /\ (chosen # Unsure => External(files) = chosen)
           => Follows(r, files', chosen, paired'[p])
  PROVE  WInv'
<1>1. proc' = [q \in Procs |-> IF q = p THEN r ELSE proc[q]] BY DEF Goes, WInv
<1>2. \A q \in Procs : StepRight(proc'[q]) BY <1>1 DEF WInv
<1>3. SignsWhatWasReviewed' BY DEF WInv, SignsWhatWasReviewed
<1>4. proc'[p] = r /\ Busy(p)' BY <1>1 DEF Busy
<1>5. CASE \E q \in Procs : Busy(q)
  <2>1. crowded' = TRUE /\ chosen' = Unsure BY <1>5 DEF BeginWork
  <2> QED BY <1>1, <1>2, <1>3, <2>1 DEF WInv
<1>6. CASE \A q \in Procs : ~Busy(q)
  <2>1. crowded' = FALSE /\ chosen' = chosen BY <1>6 DEF BeginWork
  <2>2. Follows(r, files', chosen, paired'[p]) BY <1>6 DEF WInv
  <2>3. \A q \in Procs : Busy(q)' => q = p BY <1>1, <1>6 DEF Busy
  <2>4. \A q \in Procs : Busy(q)' => Follows(proc'[q], files', chosen', paired'[q])
    BY <1>4, <2>1, <2>2, <2>3
  <2> QED BY <1>1, <1>2, <1>3, <1>4, <2>1, <2>3, <2>4 DEF WInv
<1> QED BY <1>5, <1>6

\* What happens to the records and the bridges beside the commands.
LEMMA OthersAct ==
  ASSUME WInv, UNCHANGED <<proc, crowded, walletAsked>>, IsFiles(files'),
         files'.browser \in {files.browser, NoAddress},
         paired' = [q \in Procs |-> paired'[q]],
         \A q \in Procs : paired'[q] \in {paired[q], NoAddress},
         chosen' = IF files' # files THEN Unsure ELSE chosen
  PROVE  WInv'
<1>1. SignsWhatWasReviewed' BY DEF WInv, SignsWhatWasReviewed
<1>2. \A q \in Procs : Busy(q)' <=> Busy(q) BY DEF Busy
<1>3. crowded => chosen' = Unsure BY DEF WInv
<1>4. ASSUME ~crowded, NEW q \in Procs, Busy(q)
      PROVE  Follows(proc[q], files', chosen', paired'[q])
  <2>1. Follows(proc[q], files, chosen, paired[q]) BY <1>4 DEF WInv
  <2>2. CASE files' = files BY <2>1, <2>2 DEF Follows
  <2>3. CASE files' # files
    <3>1. chosen' = Unsure BY <2>3
    <3> QED BY <2>1, <3>1 DEF Follows
  <2> QED BY <2>2, <2>3
<1>5. (\A q \in Procs : ~Busy(q)) /\ chosen' # Unsure => External(files') = chosen'
  BY DEF WInv
<1> QED BY <1>1, <1>2, <1>3, <1>4, <1>5 DEF WInv

\* A bridge that is paired, or is not any more
LEMMA BridgeSet ==
  ASSUME WInv, NEW p \in Procs, NEW a, paired' = [paired EXCEPT ![p] = a]
  PROVE  /\ paired' = [q \in Procs |-> paired'[q]] /\ paired'[p] = a
         /\ \A q \in Procs : q # p => paired'[q] = paired[q]
BY DEF WInv

\* What is known of a command that runs.
LEMMA WhereItIs ==
  ASSUME WInv, NEW p \in Procs, Busy(p)
  PROVE  /\ StepRight(proc[p]) /\ IsProc(proc[p]) /\ IsFiles(files)
         /\ crowded \in BOOLEAN /\ (crowded => chosen = Unsure)
         /\ ~crowded => Follows(proc[p], files, chosen, paired[p])
         /\ paired = [q \in Procs |-> paired[q]] /\ SignsWhatWasReviewed
BY DEF WInv, StepRight

\* The client of WalletConnect is nobody's record.
LEMMA OpenClientRight == ASSUME WInv, NEW p \in Procs, OpenClient(p) PROVE WInv'
<1>1. UNCHANGED <<files, proc, paired, chosen, crowded, walletAsked>> BY DEF OpenClient, Continue
<1> QED BY <1>1 DEF WInv, Busy, SignsWhatWasReviewed

\* A session is ended, its record is still there.
LEMMA EndSessionRight == ASSUME WInv, NEW p \in Procs, EndSession(p) PROVE WInv'
<1> DEFINE r == [proc[p] EXCEPT !.at = "ended"]
<1>1. /\ Busy(p) /\ proc[p].at = "ending" /\ Goes(p, r)
      /\ UNCHANGED <<files, paired, chosen, crowded, walletAsked>>
  BY DEF EndSession, Busy, Continue
<1>2. r = [at |-> "ended", then |-> proc[p].then, rec |-> proc[p].rec, sender |-> proc[p].sender, left |-> proc[p].left]
  BY <1>1, WhereItIs, ProcSet
<1> HIDE DEF r
<1>3. StepRight(r) BY <1>1, <1>2, WhereItIs DEF StepRight, IsProc
<1>4. ~crowded => Follows(r, files, chosen, paired[p])
  BY <1>1, <1>2, WhereItIs DEF Follows, Repairs, Steady
<1>5. SignsWhatWasReviewed' BY <1>1, WhereItIs DEF SignsWhatWasReviewed
<1> QED BY <1>1, <1>3, <1>4, <1>5, WhereItIs, CommandGoes

\* A command that ends, and selected what the records then select.
LEMMA CommandEnds ==
  ASSUME WInv, NEW p \in Procs, Busy(p), NEW what, Ends(p, what), IsFiles(files'),
         UNCHANGED <<crowded, walletAsked>>, paired' = [q \in Procs |-> paired'[q]],
         ~crowded => External(files') = what
  PROVE  WInv'
<1>1. Goes(p, Idle) /\ chosen' = IF crowded THEN Unsure ELSE what BY DEF Ends
<1>2. StepRight(Idle) BY IdleIs
<1>3. ~crowded => Follows(Idle, files', chosen', paired'[p])
  BY <1>1, IdleIs DEF Follows, Repairs
<1>4. SignsWhatWasReviewed' BY DEF WInv, SignsWhatWasReviewed
<1> QED BY <1>1, <1>2, <1>3, <1>4, CommandGoes

\* A command that ends and changed nothing of what is selected.
LEMMA CommandStops ==
  ASSUME WInv, NEW p \in Procs, Busy(p), Goes(p, Idle), UNCHANGED <<crowded, chosen>>, IsFiles(files'),
         ~crowded /\ chosen # Unsure => External(files') = chosen,
         paired' = [q \in Procs |-> paired'[q]], SignsWhatWasReviewed'
  PROVE  WInv'
<1>1. StepRight(Idle) BY IdleIs
<1>2. ~crowded => Follows(Idle, files', chosen', paired'[p])
  BY IdleIs DEF Follows, Repairs
<1>3. crowded => chosen' = Unsure BY DEF WInv
<1> QED BY <1>1, <1>2, <1>3, CommandGoes

\* The record of the session goes, and the caller goes on.
LEMMA ForgetSessionRight == ASSUME WInv, NEW p \in Procs, ForgetSession(p) PROVE WInv'
<1>1. PICK f, r, account : f = [files EXCEPT !.wc = NoRecord] /\ r = proc[p] /\ account = paired[p]
  OBVIOUS
<1>2. /\ Busy(p) /\ r.at = "ended" /\ UNCHANGED <<paired, crowded, walletAsked>>
  BY <1>1 DEF ForgetSession, Busy, Continue
<1>3. f = [browser |-> files.browser, wc |-> NoRecord, local |-> files.local]
  BY <1>1, <1>2, WhereItIs, FilesSet
<1>4. IsFiles(f) BY <1>3 DEF IsFiles
<1>5. /\ StepRight(r) /\ IsProc(r) /\ paired' = [q \in Procs |-> paired'[q]] /\ SignsWhatWasReviewed'
      /\ (~crowded => Follows(r, files, chosen, account)) /\ (crowded => chosen = Unsure)
  BY <1>1, <1>2, WhereItIs DEF SignsWhatWasReviewed
<1>6. CASE r.then = "stop"
  <2>1. files' = f /\ Ends(p, Nobody) BY <1>1, <1>6 DEF ForgetSession
  <2>2. ~crowded => External(f) = Nobody
    BY <1>2, <1>3, <1>5, <1>6, NobodyIs DEF Follows
  <2> QED BY <1>2, <1>4, <1>5, <2>1, <2>2, CommandEnds
<1>7. CASE r.then = "pair"
  <2> DEFINE s == [Idle EXCEPT !.at = "pairingWc"]
  <2>1. files' = f /\ Goes(p, s) /\ UNCHANGED chosen BY <1>1, <1>7 DEF ForgetSession
  <2>2. s = [at |-> "pairingWc", then |-> Idle.then, rec |-> Idle.rec, sender |-> Idle.sender, left |-> Idle.left]
    BY IdleIs, ProcSet
  <2> HIDE DEF s
  <2>3. StepRight(s) /\ (~crowded => Follows(s, f, chosen, account))
    BY <2>2 DEF StepRight, IsProc, Follows, Repairs, Steady
  <2> QED BY <1>1, <1>2, <1>4, <1>5, <2>1, <2>3, CommandGoes
<1>8. CASE r.then = "browser"
  <2>1. SaveBrowser(p, f) BY <1>1, <1>8 DEF ForgetSession
  <2>2. CASE account = NoAddress
    <3>1. files' = f /\ Ends(p, External(files')) BY <1>1, <2>1, <2>2 DEF SaveBrowser, WorkFails
    <3> QED BY <1>2, <1>4, <1>5, <3>1, CommandEnds
  <2>3. CASE account # NoAddress
    <3> DEFINE g == [f EXCEPT !.browser = account]
    <3>1. g = [browser |-> account, wc |-> NoRecord, local |-> files.local]
      <4>1. g = [browser |-> account, wc |-> f.wc, local |-> f.local] BY <1>4, FilesSet
      <4> QED BY <1>3, <4>1
    <3>2. files' = g BY <1>1, <2>1, <2>3 DEF SaveBrowser
    <3> HIDE DEF g
    <3>3. IsFiles(g) BY <3>1 DEF IsFiles
    <3>4. External(g) = [source |-> "browser", address |-> account] BY <2>3, <3>1, BrowserIs
    <3>5. CASE r.left > 0
      <4> DEFINE r1 == [r EXCEPT !.at = "sending"]
                 s == [r1 EXCEPT !.rec = NoRecord]
      <4>1. Goes(p, s) /\ UNCHANGED chosen BY <1>1, <2>1, <2>3, <3>5 DEF SaveBrowser
      <4>2. r1 = [at |-> "sending", then |-> r.then, rec |-> r.rec, sender |-> r.sender, left |-> r.left]
        BY <1>5, ProcSet
      <4> HIDE DEF r1
      <4>3. s = [at |-> "sending", then |-> r.then, rec |-> NoRecord, sender |-> r.sender, left |-> r.left]
        <5>1. IsProc(r1) BY <4>2 DEF IsProc
        <5>2. s = [at |-> r1.at, then |-> r1.then, rec |-> NoRecord, sender |-> r1.sender, left |-> r1.left]
          BY <5>1, ProcSet
        <5> QED BY <4>2, <5>2
      <4> HIDE DEF s
      <4>4. StepRight(s) BY <1>8, <4>3 DEF StepRight, IsProc
      <4>5. ~crowded /\ chosen # Unsure => External(g) = chosen
        <5> SUFFICES ASSUME ~crowded, chosen # Unsure PROVE External(g) = chosen OBVIOUS
        <5>1. Repairs(r) /\ r.at # "pairingBrowser" BY <1>2, <1>8, <3>5 DEF Repairs
        <5>2. account = r.sender /\ files.browser = r.sender /\ External(files) = chosen
          BY <1>5, <2>3, <5>1 DEF Follows
        <5> QED BY <2>3, <3>4, <5>2, BrowserIs
      <4>6. ~crowded => Follows(s, g, chosen, account)
        BY <4>3, <4>5 DEF Follows, Repairs
      <4> QED BY <1>1, <1>2, <1>5, <3>2, <3>3, <4>1, <4>4, <4>6, CommandGoes
    <3>6. CASE ~(r.left > 0)
      <4>1. Ends(p, [source |-> "browser", address |-> account]) BY <1>1, <2>1, <2>3, <3>6 DEF SaveBrowser
      <4> QED BY <1>2, <1>5, <3>2, <3>3, <3>4, <4>1, CommandEnds
    <3> QED BY <3>5, <3>6
  <2> QED BY <2>2, <2>3
<1> QED BY <1>2, <1>5, <1>6, <1>7, <1>8 DEF StepRight

EndingThen(r, a, t, x) == [r EXCEPT !.at = a, !.then = t, !.rec.topic = x]

\* A command that ends a session first, and then does something else.
LEMMA EndingThenIs ==
  ASSUME NEW r, IsProc(r), NEW a, NEW t, NEW x
  PROVE  EndingThen(r, a, t, x)
         = [at |-> a, then |-> t, rec |-> [r.rec EXCEPT !.topic = x], sender |-> r.sender, left |-> r.left]
<1> DEFINE r1 == [r EXCEPT !.at = a]
           r2 == [r1 EXCEPT !.then = t]
           n == [r.rec EXCEPT !.topic = x]
           r3 == [r2 EXCEPT !.rec = n]
           e == EndingThen(r, a, t, x)
<1>1. r1 = [at |-> a, then |-> r.then, rec |-> r.rec, sender |-> r.sender, left |-> r.left] BY ProcSet
<1>2. r2 = [at |-> a, then |-> t, rec |-> r.rec, sender |-> r.sender, left |-> r.left]
  <2> HIDE DEF r1, n
  <2>1. IsProc(r1) BY <1>1 DEF IsProc
  <2>2. r2 = [at |-> r1.at, then |-> t, rec |-> r1.rec, sender |-> r1.sender, left |-> r1.left] BY <2>1, ProcSet
  <2> HIDE DEF r2
  <2> QED BY <1>1, <2>2
<1>3. r3 = [at |-> a, then |-> t, rec |-> n, sender |-> r.sender, left |-> r.left]
  <2> HIDE DEF r2, n
  <2>1. IsProc(r2) BY <1>2 DEF IsProc
  <2>2. r3 = [at |-> r2.at, then |-> r2.then, rec |-> n, sender |-> r2.sender, left |-> r2.left] BY <2>1, ProcSet
  <2> HIDE DEF r3
  <2> QED BY <1>2, <2>2
<1>4. r2.rec = r.rec
  <2> HIDE DEF r2
  <2> QED BY <1>2
<1>5. e = r3
  <2> HIDE DEF n, r1, r2
  <2> QED BY <1>4 DEF n, r1, r2, EndingThen
<1> HIDE DEF r3, n
<1> QED BY <1>3, <1>5 DEF n


\* A command that ends a session.
LEMMA EndingIs ==
  ASSUME NEW r, IsProc(r), NEW a, NEW x
  PROVE  [r EXCEPT !.at = a, !.rec.topic = x]
         = [at |-> a, then |-> r.then, rec |-> [r.rec EXCEPT !.topic = x], sender |-> r.sender, left |-> r.left]
<1> DEFINE r1 == [r EXCEPT !.at = a]
           n == [r.rec EXCEPT !.topic = x]
           r2 == [r1 EXCEPT !.rec = n]
           e == [r EXCEPT !.at = a, !.rec.topic = x]
<1>1. r1 = [at |-> a, then |-> r.then, rec |-> r.rec, sender |-> r.sender, left |-> r.left] BY ProcSet
<1>2. r2 = [at |-> a, then |-> r.then, rec |-> n, sender |-> r.sender, left |-> r.left]
  <2> HIDE DEF r1, n
  <2>1. IsProc(r1) BY <1>1 DEF IsProc
  <2>2. r2 = [at |-> r1.at, then |-> r1.then, rec |-> n, sender |-> r1.sender, left |-> r1.left] BY <2>1, ProcSet
  <2> HIDE DEF r2
  <2> QED BY <1>1, <2>2
<1>3. r1.rec = r.rec
  <2> HIDE DEF r1
  <2> QED BY <1>1
<1>4. e = r2
  <2> HIDE DEF n, r1
  <2> QED BY <1>3 DEF n, r1
<1> HIDE DEF r2, n
<1> QED BY <1>2, <1>4 DEF n

\* A plan that waits for the passphrase.
LEMMA UnlockingIs ==
  ASSUME NEW r, IsProc(r), NEW a, NEW x
  PROVE  [r EXCEPT !.at = a, !.rec.address = x]
         = [at |-> a, then |-> r.then, rec |-> [r.rec EXCEPT !.address = x], sender |-> r.sender, left |-> r.left]
<1> DEFINE r1 == [r EXCEPT !.at = a]
           n == [r.rec EXCEPT !.address = x]
           r2 == [r1 EXCEPT !.rec = n]
           e == [r EXCEPT !.at = a, !.rec.address = x]
<1>1. r1 = [at |-> a, then |-> r.then, rec |-> r.rec, sender |-> r.sender, left |-> r.left] BY ProcSet
<1>2. r2 = [at |-> a, then |-> r.then, rec |-> n, sender |-> r.sender, left |-> r.left]
  <2> HIDE DEF r1, n
  <2>1. IsProc(r1) BY <1>1 DEF IsProc
  <2>2. r2 = [at |-> r1.at, then |-> r1.then, rec |-> n, sender |-> r1.sender, left |-> r1.left] BY <2>1, ProcSet
  <2> HIDE DEF r2
  <2> QED BY <1>1, <2>2
<1>3. r1.rec = r.rec
  <2> HIDE DEF r1
  <2> QED BY <1>1
<1>4. e = r2
  <2> HIDE DEF n, r1
  <2> QED BY <1>3 DEF n, r1
<1> HIDE DEF r2, n
<1> QED BY <1>2, <1>4 DEF n

\* A plan that a wallet signs.
LEMMA SendingIs ==
  ASSUME NEW r, IsProc(r), NEW a, NEW t
  PROVE  [r EXCEPT !.at = a, !.then = t]
         = [at |-> a, then |-> t, rec |-> r.rec, sender |-> r.sender, left |-> r.left]
<1> DEFINE r1 == [r EXCEPT !.at = a]
           r2 == [r1 EXCEPT !.then = t]
           e == [r EXCEPT !.at = a, !.then = t]
<1>1. r1 = [at |-> a, then |-> r.then, rec |-> r.rec, sender |-> r.sender, left |-> r.left] BY ProcSet
<1>2. r2 = [at |-> a, then |-> t, rec |-> r.rec, sender |-> r.sender, left |-> r.left]
  <2> HIDE DEF r1
  <2>1. IsProc(r1) BY <1>1 DEF IsProc
  <2>2. r2 = [at |-> r1.at, then |-> t, rec |-> r1.rec, sender |-> r1.sender, left |-> r1.left] BY <2>1, ProcSet
  <2> HIDE DEF r2
  <2> QED BY <1>1, <2>2
<1>3. e = r2 OBVIOUS
<1> HIDE DEF r2, e
<1> QED BY <1>2, <1>3 DEF e

\* A plan that WalletConnect signs, on a record.
LEMMA AskingIs ==
  ASSUME NEW r, IsProc(r), NEW a, NEW x
  PROVE  [r EXCEPT !.at = a, !.rec = x]
         = [at |-> a, then |-> r.then, rec |-> x, sender |-> r.sender, left |-> r.left]
<1> DEFINE r1 == [r EXCEPT !.at = a]
           r2 == [r1 EXCEPT !.rec = x]
           e == [r EXCEPT !.at = a, !.rec = x]
<1>1. r1 = [at |-> a, then |-> r.then, rec |-> r.rec, sender |-> r.sender, left |-> r.left] BY ProcSet
<1>2. r2 = [at |-> a, then |-> r.then, rec |-> x, sender |-> r.sender, left |-> r.left]
  <2> HIDE DEF r1
  <2>1. IsProc(r1) BY <1>1 DEF IsProc
  <2>2. r2 = [at |-> r1.at, then |-> r1.then, rec |-> x, sender |-> r1.sender, left |-> r1.left] BY <2>1, ProcSet
  <2> HIDE DEF r2
  <2> QED BY <1>1, <2>2
<1>3. e = r2 OBVIOUS
<1> HIDE DEF r2, e
<1> QED BY <1>2, <1>3 DEF e

\* A plan whose next transaction comes up.
LEMMA NextIs ==
  ASSUME NEW r, IsProc(r), NEW a, NEW x
  PROVE  [r EXCEPT !.at = a, !.left = x]
         = [at |-> a, then |-> r.then, rec |-> r.rec, sender |-> r.sender, left |-> x]
<1> DEFINE r1 == [r EXCEPT !.at = a]
           r2 == [r1 EXCEPT !.left = x]
           e == [r EXCEPT !.at = a, !.left = x]
<1>1. r1 = [at |-> a, then |-> r.then, rec |-> r.rec, sender |-> r.sender, left |-> r.left] BY ProcSet
<1>2. r2 = [at |-> a, then |-> r.then, rec |-> r.rec, sender |-> r.sender, left |-> x]
  <2> HIDE DEF r1
  <2>1. IsProc(r1) BY <1>1 DEF IsProc
  <2>2. r2 = [at |-> r1.at, then |-> r1.then, rec |-> r1.rec, sender |-> r1.sender, left |-> x] BY <2>1, ProcSet
  <2> HIDE DEF r2
  <2> QED BY <1>1, <2>2
<1>3. e = r2 OBVIOUS
<1> HIDE DEF r2, e
<1> QED BY <1>2, <1>3 DEF e

Reviewing(r, a, t, x) == [r EXCEPT !.at = a, !.sender = t, !.left = x]

\* A plan to be reviewed.
LEMMA ReviewIs ==
  ASSUME NEW r, IsProc(r), NEW a, NEW t, NEW x
  PROVE  Reviewing(r, a, t, x)
         = [at |-> a, then |-> r.then, rec |-> r.rec, sender |-> t, left |-> x]
<1> DEFINE r1 == [r EXCEPT !.at = a]
           r2 == [r1 EXCEPT !.sender = t]
           r3 == [r2 EXCEPT !.left = x]
           e == Reviewing(r, a, t, x)
<1>1. r1 = [at |-> a, then |-> r.then, rec |-> r.rec, sender |-> r.sender, left |-> r.left] BY ProcSet
<1>2. r2 = [at |-> a, then |-> r.then, rec |-> r.rec, sender |-> t, left |-> r.left]
  <2> HIDE DEF r1
  <2>1. IsProc(r1) BY <1>1 DEF IsProc
  <2>2. r2 = [at |-> r1.at, then |-> r1.then, rec |-> r1.rec, sender |-> t, left |-> r1.left] BY <2>1, ProcSet
  <2> HIDE DEF r2
  <2> QED BY <1>1, <2>2
<1>3. r3 = [at |-> a, then |-> r.then, rec |-> r.rec, sender |-> t, left |-> x]
  <2> HIDE DEF r2
  <2>1. IsProc(r2) BY <1>2 DEF IsProc
  <2>2. r3 = [at |-> r2.at, then |-> r2.then, rec |-> r2.rec, sender |-> r2.sender, left |-> x] BY <2>1, ProcSet
  <2> HIDE DEF r3
  <2> QED BY <1>2, <2>2
<1>4. e = r3 BY DEF Reviewing
<1> HIDE DEF r3, e
<1> QED BY <1>3, <1>4 DEF e


\* How a command of a kind begins.
LEMMA Begins ==
  ASSUME WInv, NEW p \in Procs, BeginWork(p)
  PROVE  IsFiles(files) /\ paired = [q \in Procs |-> paired[q]]
BY DEF WInv

\* wallet connect: an older session is ended first.
LEMMA ConnectWalletConnectRight ==
  ASSUME WInv, NEW p \in Procs, ConnectWalletConnect(p) PROVE WInv'
<1>1. PICK t, i, at, then : t = TopicToEnd(p) /\ i = Idle /\ at = "ending" /\ then = "pair" OBVIOUS
<1>2. BeginWork(p) /\ UNCHANGED <<files, paired, walletAsked>> /\ IsProc(i)
  BY <1>1, IdleIs DEF ConnectWalletConnect
<1>3. CASE t # 0
  <2> DEFINE r == [i EXCEPT !.at = at, !.then = then, !.rec.topic = t]
  <2>1. Goes(p, r) BY <1>1, <1>3 DEF ConnectWalletConnect
  <2>2. r = [at |-> at, then |-> then, rec |-> [i.rec EXCEPT !.topic = t],
             sender |-> i.sender, left |-> i.left]
    <3>1. r = EndingThen(i, at, then, t) BY DEF EndingThen
    <3> HIDE DEF r
    <3> QED BY <1>2, <3>1, EndingThenIs
  <2> HIDE DEF r
  <2>3. StepRight(r) /\ r.at # "idle" BY <1>1, <2>2 DEF StepRight, IsProc
  <2>4. Follows(r, files, chosen, paired[p]) BY <1>1, <2>2, IdleIs DEF Follows, Repairs, Steady
  <2> QED BY <1>2, <2>1, <2>3, <2>4, Begins, CommandBegins
<1>4. CASE t = 0
  <2> DEFINE r == [Idle EXCEPT !.at = "pairingWc"]
  <2>1. Goes(p, r) BY <1>1, <1>4 DEF ConnectWalletConnect
  <2>2. r = [at |-> "pairingWc", then |-> Idle.then, rec |-> Idle.rec, sender |-> Idle.sender, left |-> Idle.left]
    BY IdleIs, ProcSet
  <2> HIDE DEF r
  <2>3. StepRight(r) /\ r.at # "idle" BY <2>2 DEF StepRight, IsProc
  <2>4. Follows(r, files, chosen, paired[p]) BY <2>2, IdleIs DEF Follows, Repairs, Steady
  <2> QED BY <1>2, <2>1, <2>3, <2>4, Begins, CommandBegins
<1> QED BY <1>3, <1>4

\* The wallet approves: its record replaces the browser's.
LEMMA PairWalletConnectRight ==
  ASSUME WInv, NEW p \in Procs, PairWalletConnect(p) PROVE WInv'
<1>1. /\ Busy(p) /\ UNCHANGED <<crowded, walletAsked>> /\ paired' = [paired EXCEPT ![p] = NoAddress]
  BY DEF PairWalletConnect, Busy, Continue
<1>2. PICK granted \in SUBSET Addresses \ {{}} : \E a \in granted :
       /\ files' = InsteadOfBrowser(files, [topic |-> topics', address |-> a])
       /\ Ends(p, [source |-> "walletconnect", address |-> a])
  BY DEF PairWalletConnect
<1>3. PICK a \in granted :
       /\ files' = InsteadOfBrowser(files, [topic |-> topics', address |-> a])
       /\ Ends(p, [source |-> "walletconnect", address |-> a])
  BY <1>2
<1>4. PICK s : s = [topic |-> topics', address |-> a] OBVIOUS
<1>5. s.address = a /\ a # NoAddress BY <1>4, WalletsAssumption
<1>6. s # NoRecord BY <1>5 DEF NoRecord
<1> DEFINE f1 == [files EXCEPT !.browser = NoAddress]
           f == [f1 EXCEPT !.wc = s]
<1>7. files' = f BY <1>3, <1>4 DEF InsteadOfBrowser
<1>8. f1 = [browser |-> NoAddress, wc |-> files.wc, local |-> files.local]
  BY <1>1, WhereItIs, FilesSet
<1> HIDE DEF f1
<1>9. f = [browser |-> NoAddress, wc |-> s, local |-> files.local]
  <2>1. IsFiles(f1) BY <1>8 DEF IsFiles
  <2>2. f = [browser |-> f1.browser, wc |-> s, local |-> f1.local] BY <2>1, FilesSet
  <2> QED BY <1>8, <2>2
<1> HIDE DEF f
<1>10. IsFiles(f) /\ f.browser = NoAddress /\ f.wc = s BY <1>9 DEF IsFiles
<1>11. External(f) = [source |-> "walletconnect", address |-> a]
  BY <1>5, <1>6, <1>10, WalletConnectIs
<1> QED BY <1>1, <1>3, <1>7, <1>10, <1>11, BridgeSet, CommandEnds

\* wallet connect --browser: the bridge of before is stopped.
LEMMA ConnectBrowserRight == ASSUME WInv, NEW p \in Procs, ConnectBrowser(p) PROVE WInv'
<1> DEFINE r == [Idle EXCEPT !.at = "pairingBrowser"]
<1>1. /\ BeginWork(p) /\ Goes(p, r) /\ paired' = [paired EXCEPT ![p] = NoAddress]
      /\ UNCHANGED <<files, walletAsked>>
  BY DEF ConnectBrowser
<1>2. r = [at |-> "pairingBrowser", then |-> Idle.then, rec |-> Idle.rec, sender |-> Idle.sender, left |-> Idle.left]
  BY IdleIs, ProcSet
<1> HIDE DEF r
<1>3. StepRight(r) /\ r.at # "idle" BY <1>2 DEF StepRight, IsProc
<1>4. Follows(r, files, chosen, paired'[p])
  <2>1. r.at = "pairingBrowser" /\ r.left = 0 BY <1>2, IdleIs
  <2>2. ~Repairs(r) BY <2>1 DEF Repairs
  <2> QED BY <2>1, <2>2 DEF Follows, Steady
<1> QED BY <1>1, <1>3, <1>4, Begins, BridgeSet, CommandBegins

\* wallet disconnect: the browser's record goes first.
LEMMA DisconnectRight == ASSUME WInv, NEW p \in Procs, Disconnect(p) PROVE WInv'
<1>1. PICK t, at, i : t = TopicToEnd(p) /\ at = (IF TopicToEnd(p) # 0 THEN "ending" ELSE "ended") /\ i = Idle
  OBVIOUS
<1> DEFINE r == [i EXCEPT !.at = at, !.rec.topic = t]
           f == [files EXCEPT !.browser = NoAddress]
<1>2. /\ BeginWork(p) /\ Goes(p, r) /\ paired' = [paired EXCEPT ![p] = NoAddress]
      /\ files' = f /\ UNCHANGED walletAsked
  BY <1>1 DEF Disconnect
<1>0. IsProc(i) BY <1>1, IdleIs
<1>3. r = [at |-> at, then |-> i.then, rec |-> [i.rec EXCEPT !.topic = t], sender |-> i.sender, left |-> i.left]
  BY <1>0, EndingIs
<1>4. f = [browser |-> NoAddress, wc |-> files.wc, local |-> files.local]
  BY <1>2, Begins, FilesSet
<1> HIDE DEF r, f
<1>5. at \in {"ending", "ended"} BY <1>1
<1>6. StepRight(r) /\ r.at # "idle" BY <1>1, <1>3, <1>5, IdleIs DEF StepRight, IsProc
<1>7. IsFiles(f) /\ f.browser = NoAddress BY <1>4 DEF IsFiles
<1>8. Follows(r, f, chosen, paired'[p])
  <2>1. r.at = at /\ r.left = 0 /\ r.then = "stop" BY <1>1, <1>3, IdleIs
  <2>2. ~Repairs(r) BY <2>1 DEF Repairs
  <2> QED BY <1>5, <1>7, <2>1, <2>2 DEF Follows, Steady
<1> QED BY <1>2, <1>6, <1>7, <1>8, BridgeSet, CommandBegins

\* A prompt changes no record.
LEMMA PromptRight ==
  ASSUME WInv, NEW p \in Procs, NEW at \in {"creating", "removing"}, Prompt(p, at) PROVE WInv'
<1> DEFINE r == [Idle EXCEPT !.at = at]
<1>1. BeginWork(p) /\ Goes(p, r) /\ UNCHANGED <<files, paired, walletAsked>> BY DEF Prompt
<1>2. r = [at |-> at, then |-> Idle.then, rec |-> Idle.rec, sender |-> Idle.sender, left |-> Idle.left]
  BY IdleIs, ProcSet
<1> HIDE DEF r
<1>3. StepRight(r) /\ r.at # "idle" BY <1>2 DEF StepRight, IsProc
<1>4. (chosen # Unsure => External(files) = chosen) => Follows(r, files, chosen, paired'[p])
  BY <1>2, IdleIs DEF Follows, Repairs
<1> QED BY <1>1, <1>3, <1>4, Begins, CommandBegins

\* A local record is selected only when no external one is.
LEMMA PromptedRight ==
  ASSUME WInv, NEW p \in Procs, NEW at \in {"creating", "removing"}, NEW local, Prompted(p, at, local)
  PROVE  WInv'
<1> DEFINE f == [files EXCEPT !.local = local]
<1>1. /\ Busy(p) /\ proc[p].at = at /\ files' = f /\ Goes(p, Idle)
      /\ UNCHANGED <<paired, crowded, chosen, walletAsked>>
  BY DEF Prompted, Busy, Continue
<1>2. f = [browser |-> files.browser, wc |-> files.wc, local |-> local] BY <1>1, WhereItIs, FilesSet
<1> HIDE DEF f
<1>3. IsFiles(f) /\ External(f) = External(files) BY <1>2, ExternalIs DEF IsFiles
<1>4. ~crowded /\ chosen # Unsure => External(f) = chosen
  BY <1>1, <1>3, WhereItIs DEF Follows, Steady
<1>5. SignsWhatWasReviewed' BY <1>1, WhereItIs DEF SignsWhatWasReviewed
<1> QED BY <1>1, <1>3, <1>4, <1>5, WhereItIs, CommandStops

\* A plan is built for the wallet that is active.
LEMMA ReviewRight == ASSUME WInv, NEW p \in Procs, Review(p) PROVE WInv'
<1>1. PICK s, i, at, n : s = getActiveWallet.address /\ i = Idle /\ at = "review" /\ n = PlanSteps OBVIOUS
<1>0. IsProc(i) BY <1>1, IdleIs
<1> DEFINE r == [i EXCEPT !.at = at, !.sender = s, !.left = n]
<1>2. BeginWork(p) /\ Goes(p, r) /\ UNCHANGED <<files, paired, walletAsked>> BY <1>1 DEF Review
<1>3. r = [at |-> at, then |-> i.then, rec |-> i.rec, sender |-> s, left |-> n]
  <2>1. r = Reviewing(i, at, s, n) BY DEF Reviewing
  <2> HIDE DEF r
  <2> QED BY <1>0, <2>1, ReviewIs
<1> HIDE DEF r
<1>4. StepRight(r) /\ r.at = "review" BY <1>1, <1>3 DEF StepRight, IsProc
<1>5. (chosen # Unsure => External(files) = chosen) => Follows(r, files, chosen, paired'[p])
  BY <1>4 DEF Follows, Repairs
<1> QED BY <1>2, <1>4, <1>5, Begins, CommandBegins

\* A plan goes on to another phase that selects nothing.
LEMMA PlanGoes ==
  ASSUME WInv, NEW p \in Procs, Busy(p), proc[p].at \in Steady, NEW r, Goes(p, r), StepRight(r),
         r.at \in Steady, r.at = "sendingWc" => r.rec = files.wc,
         UNCHANGED <<files, paired, crowded, chosen, walletAsked>>
  PROVE  WInv'
<1>1. ~crowded => Follows(r, files, chosen, paired[p])
  BY WhereItIs DEF Follows, Repairs, Steady
<1>2. SignsWhatWasReviewed' BY WhereItIs DEF SignsWhatWasReviewed
<1> QED BY <1>1, <1>2, WhereItIs, CommandGoes

\* A plan that ends in a phase that selects nothing
LEMMA PlanStops ==
  ASSUME WInv, NEW p \in Procs, Busy(p), proc[p].at \in Steady, Goes(p, Idle),
         UNCHANGED <<files, paired, crowded, chosen, walletAsked>>
  PROVE  WInv'
<1>1. ~crowded /\ chosen # Unsure => External(files) = chosen BY WhereItIs DEF Follows
<1>2. SignsWhatWasReviewed' BY WhereItIs DEF SignsWhatWasReviewed
<1> QED BY <1>1, <1>2, WhereItIs, CommandStops

\* The signer of the wallet that is active is the reviewed sender, or is to be unlocked.
LEMMA ConfirmRight == ASSUME WInv, NEW p \in Procs, Confirm(p) PROVE WInv'
<1>1. PICK w, q : w = getActiveWallet /\ q = proc[p] OBVIOUS
<1>2. /\ Busy(p) /\ q.at = "review" /\ q.at \in Steady
      /\ UNCHANGED <<files, paired, crowded, chosen, walletAsked>>
  BY <1>1 DEF Confirm, Busy, Continue, Steady
<1>3. IsProc(q) BY <1>1, <1>2, WhereItIs
<1>4. CASE w.source = "local"
  <2>1. PICK a : a = w.address OBVIOUS
  <2> DEFINE r == [q EXCEPT !.at = "unlocking", !.rec.address = a]
  <2>2. Goes(p, r) BY <1>1, <1>4, <2>1 DEF Confirm
  <2>3. r = [at |-> "unlocking", then |-> q.then, rec |-> [q.rec EXCEPT !.address = a],
             sender |-> q.sender, left |-> q.left]
    BY <1>3, UnlockingIs
  <2> HIDE DEF r
  <2>4. StepRight(r) /\ r.at = "unlocking" BY <2>3 DEF StepRight, IsProc
  <2> QED BY <1>1, <1>2, <2>2, <2>4, PlanGoes DEF Steady
<1>5. CASE w.source # "local" /\ w # Nobody /\ SignerFits(w.address, q.sender)
  <2>1. PICK t : t = w.source OBVIOUS
  <2> DEFINE r == [q EXCEPT !.at = "sending", !.then = t]
  <2>2. Goes(p, r) BY <1>1, <1>5, <2>1 DEF Confirm
  <2>3. r = [at |-> "sending", then |-> t, rec |-> q.rec, sender |-> q.sender, left |-> q.left]
    BY <1>3, SendingIs
  <2> HIDE DEF r
  <2>4. StepRight(r) /\ r.at = "sending" BY <1>5, <2>1, <2>3 DEF StepRight, IsProc
  <2> QED BY <1>1, <1>2, <2>2, <2>4, PlanGoes DEF Steady
<1>6. CASE ~(w.source = "local") /\ ~(w.source # "local" /\ w # Nobody /\ SignerFits(w.address, q.sender))
  <2>1. Goes(p, Idle) BY <1>1, <1>6 DEF Confirm
  <2> QED BY <1>1, <1>2, <2>1, PlanStops
<1> QED BY <1>4, <1>5, <1>6

\* The secret that was opened is the sender's, or nothing is signed.
LEMMA UnlockRight == ASSUME WInv, NEW p \in Procs, Unlock(p) PROVE WInv'
<1>1. PICK q : q = proc[p] OBVIOUS
<1>2. /\ Busy(p) /\ q.at = "unlocking" /\ q.at \in Steady
      /\ UNCHANGED <<files, paired, crowded, chosen, walletAsked>>
  BY <1>1 DEF Unlock, Busy, Continue, Steady
<1>3. IsProc(q) BY <1>1, <1>2, WhereItIs
<1>4. CASE SignerFits(q.rec.address, q.sender)
  <2> DEFINE r == [q EXCEPT !.at = "sending", !.then = "local"]
  <2>1. Goes(p, r) BY <1>1, <1>4 DEF Unlock
  <2>2. r = [at |-> "sending", then |-> "local", rec |-> q.rec, sender |-> q.sender, left |-> q.left]
    BY <1>3, SendingIs
  <2> HIDE DEF r
  <2>3. StepRight(r) /\ r.at = "sending" BY <1>4, <2>2 DEF StepRight, IsProc, SignerFits
  <2> QED BY <1>1, <1>2, <2>1, <2>3, PlanGoes DEF Steady
<1>5. CASE ~SignerFits(q.rec.address, q.sender)
  <2>1. Goes(p, Idle) BY <1>1, <1>5 DEF Unlock
  <2> QED BY <1>1, <1>2, <2>1, PlanStops
<1> QED BY <1>4, <1>5

\* A transaction that its sender is asked to sign: the records select what they did.
LEMMA AskRight ==
  ASSUME WInv, NEW p \in Procs, Busy(p), proc[p].at \in Steady, Asks(p, proc[p].sender),
         proc[p].then = "local" => proc[p].rec.address = proc[p].sender,
         IsFiles(files'), ~crowded /\ chosen # Unsure => External(files') = External(files),
         UNCHANGED <<paired, crowded, chosen>>
  PROVE  WInv'
<1>1. PICK q, x : q = proc[p] /\ x = proc[p].left - 1 OBVIOUS
<1>2. IsProc(q) BY <1>1, WhereItIs
<1>3. SignsWhatWasReviewed' BY WhereItIs DEF Asks, SignsWhatWasReviewed
<1>4. ~crowded /\ chosen # Unsure => External(files') = chosen BY WhereItIs DEF Follows
<1>5. CASE Goes(p, Idle) BY <1>3, <1>4, <1>5, WhereItIs, CommandStops
<1>6. CASE ~Goes(p, Idle)
  <2> DEFINE r == [q EXCEPT !.at = "sending", !.left = x]
  <2>1. Goes(p, [proc[p] EXCEPT !.at = "sending", !.left = @ - 1]) BY <1>6 DEF Asks
  <2>2. [proc[p] EXCEPT !.at = "sending", !.left = @ - 1] = r BY <1>1
  <2>3. r = [at |-> "sending", then |-> q.then, rec |-> q.rec, sender |-> q.sender, left |-> x]
    BY <1>2, NextIs
  <2>4. Goes(p, r) BY <2>1, <2>2
  <2> HIDE DEF r
  <2>5. StepRight(r) BY <1>1, <2>3 DEF StepRight, IsProc
  <2>6. ~crowded => Follows(r, files', chosen', paired'[p])
    BY <1>4, <2>3 DEF Follows, Repairs
  <2>7. crowded => chosen' = Unsure BY WhereItIs
  <2> QED BY <1>3, <2>4, <2>5, <2>6, <2>7, WhereItIs, CommandGoes
<1> QED BY <1>5, <1>6

\* A local secret was opened by its sender.
LEMMA SendLocalRight == ASSUME WInv, NEW p \in Procs, SendLocal(p) PROVE WInv'
<1>1. /\ Busy(p) /\ proc[p].at = "sending" /\ proc[p].at \in Steady /\ proc[p].then = "local"
      /\ Asks(p, proc[p].rec.address) /\ UNCHANGED <<files, paired, crowded, chosen>>
  BY DEF SendLocal, Busy, Continue, Steady
<1>2. proc[p].rec.address = proc[p].sender BY <1>1, WhereItIs DEF StepRight
<1> QED BY <1>1, <1>2, WhereItIs, AskRight DEF External

\* The record is read before the client is waited for.
LEMMA SendWalletConnectRight == ASSUME WInv, NEW p \in Procs, SendWalletConnect(p) PROVE WInv'
<1>1. PICK q, w : q = proc[p] /\ w = files.wc OBVIOUS
<1>2. /\ Busy(p) /\ q.at = "sending" /\ q.at \in Steady /\ q.then = "walletconnect"
      /\ UNCHANGED <<files, paired, crowded, chosen, walletAsked>>
  BY <1>1 DEF SendWalletConnect, Busy, Continue, Steady
<1>3. IsProc(q) BY <1>1, <1>2, WhereItIs
<1>4. CASE w = NoRecord
  <2>1. Goes(p, Idle) BY <1>1, <1>4 DEF SendWalletConnect
  <2> QED BY <1>1, <1>2, <2>1, PlanStops
<1>5. CASE w # NoRecord
  <2> DEFINE r == [q EXCEPT !.at = "sendingWc", !.rec = w]
  <2>1. Goes(p, r) BY <1>1, <1>5 DEF SendWalletConnect
  <2>2. r = [at |-> "sendingWc", then |-> q.then, rec |-> w, sender |-> q.sender, left |-> q.left]
    BY <1>3, AskingIs
  <2> HIDE DEF r
  <2>3. StepRight(r) /\ r.at = "sendingWc" /\ r.rec = files.wc BY <1>1, <1>2, <2>2 DEF StepRight, IsProc
  <2> QED BY <1>1, <1>2, <2>1, <2>3, PlanGoes DEF Steady
<1> QED BY <1>4, <1>5

\* A session that grants the sender is saved as it was read; nobody changed it since.
LEMMA AskWalletConnectRight == ASSUME WInv, NEW p \in Procs, AskWalletConnect(p) PROVE WInv'
<1>1. PICK q, r, granted : q = proc[p] /\ r = proc[p].rec /\ granted = signClient[p].knows[proc[p].rec.topic]
  OBVIOUS
<1>2. /\ Busy(p) /\ q.at = "sendingWc" /\ q.at \in Steady /\ UNCHANGED <<paired, crowded>>
  BY <1>1 DEF AskWalletConnect, Busy, Continue, Steady
<1>3. /\ IsProc(q) /\ q.then = "walletconnect" /\ IsFiles(files)
      /\ (~crowded /\ chosen # Unsure => files.wc = r)
  BY <1>1, <1>2, WhereItIs DEF StepRight, Follows
<1>4. CASE granted = {} /\ files' = [files EXCEPT !.wc = NoRecord] /\ WorkFails(p) /\ UNCHANGED walletAsked
  <2> DEFINE f == [files EXCEPT !.wc = NoRecord]
  <2>1. f = [browser |-> files.browser, wc |-> NoRecord, local |-> files.local] BY <1>3, FilesSet
  <2> HIDE DEF f
  <2>2. IsFiles(f) BY <2>1 DEF IsFiles
  <2>3. files' = f BY <1>4 DEF f
  <2>4. Ends(p, External(files')) BY <1>4 DEF WorkFails
  <2> QED BY <1>2, <1>4, <2>2, <2>3, <2>4, WhereItIs, CommandEnds
<1>5. CASE Goes(p, Idle) /\ UNCHANGED <<files, chosen, walletAsked>>
  BY <1>1, <1>2, <1>5, PlanStops
<1>6. CASE /\ r.address = q.sender /\ files' = [files EXCEPT !.wc = r]
           /\ Asks(p, r.address) /\ UNCHANGED chosen
  <2> DEFINE f == [files EXCEPT !.wc = r]
  <2>1. f = [browser |-> files.browser, wc |-> r, local |-> files.local] BY <1>3, FilesSet
  <2> HIDE DEF f
  <2>2. IsFiles(f) BY <2>1 DEF IsFiles
  <2>3. files' = f BY <1>6 DEF f
  <2>4. ~crowded /\ chosen # Unsure => External(f) = External(files) BY <1>3, <2>1, ExternalIs
  <2>5. Asks(p, proc[p].sender) BY <1>1, <1>6
  <2> QED BY <1>1, <1>2, <1>3, <1>6, <2>2, <2>3, <2>4, <2>5, AskRight
<1> QED BY <1>1, <1>4, <1>5, <1>6 DEF AskWalletConnect

\* The bridge signs when it is the sender's; without one it is paired first.
LEMMA SendBrowserRight == ASSUME WInv, NEW p \in Procs, SendBrowser(p) PROVE WInv'
<1>1. PICK q : q = proc[p] OBVIOUS
<1>2. /\ Busy(p) /\ q.at = "sending" /\ q.at \in Steady /\ q.then = "browser"
      /\ UNCHANGED <<files, paired, crowded, chosen>>
  BY <1>1 DEF SendBrowser, Busy, Continue, Steady
<1>3. IsProc(q) /\ SignsWhatWasReviewed BY <1>1, <1>2, WhereItIs
<1>4. CASE Goes(p, Idle) /\ UNCHANGED walletAsked
  BY <1>1, <1>2, <1>4, PlanStops
<1>5. CASE Asks(p, paired[p]) /\ paired[p] = q.sender
  BY <1>1, <1>2, <1>5, WhereItIs, AskRight DEF External
<1>6. CASE /\ files.browser = q.sender /\ paired[p] = NoAddress
           /\ Goes(p, [q EXCEPT !.at = "pairingBrowser"]) /\ UNCHANGED walletAsked
  <2> DEFINE r == [q EXCEPT !.at = "pairingBrowser"]
  <2>1. r = [at |-> "pairingBrowser", then |-> q.then, rec |-> q.rec, sender |-> q.sender, left |-> q.left]
    BY <1>3, ProcSet
  <2>2. Goes(p, r) BY <1>6
  <2> HIDE DEF r
  <2>3. StepRight(r) BY <2>1 DEF StepRight, IsProc
  <2>4. ~crowded => Follows(r, files, chosen, paired[p])
    BY <1>1, <1>2, <1>6, <2>1, WhereItIs DEF Follows, Repairs, Steady
  <2>5. SignsWhatWasReviewed' BY <1>3, <1>6 DEF SignsWhatWasReviewed
  <2> QED BY <1>1, <1>2, <2>2, <2>3, <2>4, <2>5, WhereItIs, CommandGoes
<1> QED BY <1>1, <1>4, <1>5, <1>6 DEF SendBrowser

\* The page shares an account, and the sender's when a plan waits for it.
LEMMA PairBrowserRight == ASSUME WInv, NEW p \in Procs, PairBrowser(p) PROVE WInv'
<1>1. PICK q, t, at, then : q = proc[p] /\ t = TopicToEnd(p) /\ at = "ending" /\ then = "browser" OBVIOUS
<1>2. /\ Busy(p) /\ q.at = "pairingBrowser" /\ UNCHANGED <<crowded, walletAsked>>
  BY <1>1 DEF PairBrowser, Busy, Continue
<1>3. /\ IsProc(q) /\ IsFiles(files) /\ SignsWhatWasReviewed' /\ (crowded => chosen = Unsure)
      /\ (~crowded => Follows(q, files, chosen, paired[p]))
  BY <1>1, <1>2, WhereItIs DEF SignsWhatWasReviewed
<1>4. PICK a : /\ a \in Addresses /\ (q.left > 0 => a = q.sender) /\ paired' = [paired EXCEPT ![p] = a]
               /\ IF t # 0
                  THEN /\ Goes(p, [proc[p] EXCEPT !.at = "ending", !.then = "browser",
                                                  !.rec.topic = TopicToEnd(p)])
                       /\ UNCHANGED <<files, chosen>>
                  ELSE /\ files' = [files EXCEPT !.browser = a]
                       /\ IF q.left > 0
                          THEN Goes(p, [proc[p] EXCEPT !.at = "sending", !.then = "browser"])
                               /\ UNCHANGED chosen
                          ELSE Ends(p, [source |-> "browser", address |-> a])
  BY <1>1 DEF PairBrowser
<1>5. a # NoAddress /\ paired'[p] = a /\ paired' = [r \in Procs |-> paired'[r]]
  BY <1>4, WalletsAssumption, BridgeSet
<1>6. ~crowded /\ chosen # Unsure /\ q.left > 0 => files.browser = q.sender /\ External(files) = chosen
  BY <1>2, <1>3 DEF Follows, Repairs
<1>7. CASE t # 0
  <2> DEFINE r == [q EXCEPT !.at = at, !.then = then, !.rec.topic = t]
  <2>1. Goes(p, r) /\ UNCHANGED <<files, chosen>> BY <1>1, <1>4, <1>7
  <2>2. r = [at |-> at, then |-> then, rec |-> [q.rec EXCEPT !.topic = t],
             sender |-> q.sender, left |-> q.left]
    <3>1. r = EndingThen(q, at, then, t) BY DEF EndingThen
    <3> HIDE DEF r
    <3> QED BY <1>3, <3>1, EndingThenIs
  <2> HIDE DEF r
  <2>3. StepRight(r) BY <1>1, <2>2 DEF StepRight, IsProc
  <2>4. /\ r.at = "ending" /\ r.then = "browser" /\ r.left = q.left /\ r.sender = q.sender
    BY <1>1, <2>2
  <2>5. ~crowded => Follows(r, files, chosen, a)
    BY <1>4, <1>6, <2>4 DEF Follows, Repairs, Steady
  <2> QED BY <1>2, <1>3, <1>5, <2>1, <2>3, <2>5, CommandGoes
<1>8. CASE t = 0
  <2> DEFINE f == [files EXCEPT !.browser = a]
  <2>1. f = [browser |-> a, wc |-> files.wc, local |-> files.local] BY <1>3, FilesSet
  <2>2. files' = f BY <1>4, <1>8
  <2> HIDE DEF f
  <2>3. IsFiles(f) /\ f.browser = a BY <2>1 DEF IsFiles
  <2>4. External(f) = [source |-> "browser", address |-> a] BY <1>5, <2>3, BrowserIs
  <2>5. CASE q.left > 0
    <3> DEFINE r == [q EXCEPT !.at = "sending", !.then = "browser"]
    <3>1. Goes(p, r) /\ UNCHANGED chosen BY <1>1, <1>4, <1>8, <2>5
    <3>2. r = [at |-> "sending", then |-> "browser", rec |-> q.rec, sender |-> q.sender, left |-> q.left]
      BY <1>3, SendingIs
    <3> HIDE DEF r
    <3>3. StepRight(r) /\ r.at = "sending" BY <3>2 DEF StepRight, IsProc
    <3>4. ~crowded /\ chosen # Unsure => External(f) = chosen
      <4> SUFFICES ASSUME ~crowded, chosen # Unsure PROVE External(f) = chosen OBVIOUS
      <4>1. files.browser = a /\ External(files) = chosen BY <1>4, <1>6, <2>5
      <4> QED BY <1>5, <2>4, <4>1, BrowserIs
    <3>5. ~crowded => Follows(r, f, chosen, a)
      BY <3>3, <3>4 DEF Follows, Repairs
    <3> QED BY <1>2, <1>3, <1>5, <2>2, <2>3, <3>1, <3>3, <3>5, CommandGoes
  <2>6. CASE ~(q.left > 0)
    <3>1. Ends(p, [source |-> "browser", address |-> a]) BY <1>4, <1>8, <2>6
    <3> QED BY <1>2, <1>5, <2>2, <2>3, <2>4, <3>1, CommandEnds
  <2> QED BY <2>5, <2>6
<1> QED BY <1>7, <1>8

\* A wait is given up: what the records say then is what is selected.
LEMMA GiveUpRight == ASSUME WInv, NEW p \in Procs, GiveUp(p) PROVE WInv'
<1>1. UNCHANGED <<files, crowded, walletAsked>> BY DEF GiveUp, Continue
<1>2. CASE /\ proc[p].at \in {"creating", "removing", "review", "unlocking", "sendingWc"}
           /\ Goes(p, Idle) /\ UNCHANGED <<chosen, paired>>
  <2>1. Busy(p) /\ proc[p].at \in Steady BY <1>2 DEF Busy, Steady
  <2> QED BY <1>1, <1>2, <2>1, PlanStops
<1>3. CASE /\ proc[p].at \in {"pairingWc", "pairingBrowser"} /\ WorkFails(p)
           /\ paired' = IF proc[p].at = "pairingBrowser" THEN [paired EXCEPT ![p] = NoAddress] ELSE paired
  <2>1. Busy(p) BY <1>3 DEF Busy
  <2>2. Ends(p, External(files')) BY <1>3 DEF WorkFails
  <2>3. paired' = [r \in Procs |-> paired'[r]]
    <3>1. CASE proc[p].at = "pairingBrowser" BY <1>3, <3>1, BridgeSet
    <3>2. CASE proc[p].at # "pairingBrowser" BY <1>3, <2>1, <3>2, WhereItIs
    <3> QED BY <3>1, <3>2
  <2> QED BY <1>1, <2>1, <2>2, <2>3, WhereItIs, CommandEnds
<1> QED BY <1>2, <1>3 DEF GiveUp

\* A process that ends leaves the records as they are.
LEMMA ExitRight == ASSUME WInv, NEW p \in Procs, Exit(p) PROVE WInv'
<1>1. /\ UNCHANGED <<files, crowded, walletAsked>> /\ Goes(p, Idle)
      /\ paired' = [paired EXCEPT ![p] = NoAddress]
      /\ chosen' = IF Busy(p) THEN Unsure ELSE chosen
  BY DEF Exit, Continue
<1>2. /\ paired' = [r \in Procs |-> paired'[r]] /\ paired'[p] = NoAddress
      /\ \A r \in Procs : r # p => paired'[r] = paired[r]
  BY <1>1, BridgeSet
<1>3. SignsWhatWasReviewed' /\ IsFiles(files) BY <1>1 DEF WInv, SignsWhatWasReviewed
<1>4. CASE Busy(p)
  <2>1. ~crowded => Follows(Idle, files, Unsure, NoAddress)
    BY IdleIs DEF Follows, Repairs
  <2> QED BY <1>1, <1>2, <1>3, <1>4, <2>1, IdleIs, CommandGoes
<1>5. CASE ~Busy(p)
  <2>1. proc' = [r \in Procs |-> IF r = p THEN Idle ELSE proc[r]] BY <1>1 DEF Goes, WInv
  <2>2. \A r \in Procs : (Busy(r)' <=> Busy(r)) /\ (r # p => proc'[r] = proc[r])
    BY <1>5, <2>1, IdleIs DEF Busy
  <2>3. \A r \in Procs : StepRight(proc'[r]) BY <2>1, IdleIs DEF WInv
  <2>4. chosen' = chosen BY <1>1, <1>5
  <2>5. proc' = [r \in Procs |-> proc'[r]] BY <2>1
  <2>6. ~crowded => \A r \in Procs : Busy(r)' => Follows(proc'[r], files', chosen', paired'[r])
    BY <1>1, <1>2, <1>5, <2>2, <2>4 DEF WInv
  <2>7. ~crowded' => \A r, s \in Procs : Busy(r)' /\ Busy(s)' => r = s
    BY <1>1, <2>2 DEF WInv
  <2>8. (\A r \in Procs : ~Busy(r)') /\ chosen' # Unsure => External(files') = chosen'
    BY <1>1, <2>2, <2>4 DEF WInv
  <2> QED BY <1>1, <1>2, <1>3, <2>3, <2>4, <2>5, <2>6, <2>7, <2>8 DEF WInv
<1> QED BY <1>4, <1>5

\* The wallet acts on its sessions only.
LEMMA WalletChangesRight == ASSUME WInv, NEW t \in Topics, WalletChanges(t) PROVE WInv'
<1>1. UNCHANGED <<files, paired, proc, crowded, chosen, walletAsked>> BY DEF WalletChanges
<1> QED BY <1>1, OthersAct DEF WInv

\* An event of a session may clear its record.
LEMMA SessionEventRight ==
  ASSUME WInv, NEW p \in Procs, NEW t \in Topics, SessionEvent(p, t) PROVE WInv'
<1> DEFINE f == [files EXCEPT !.wc = NoRecord]
<1>1. /\ UNCHANGED <<paired, proc, crowded, walletAsked>> /\ files' \in {files, f}
      /\ chosen' = IF files' # files THEN Unsure ELSE chosen
  BY DEF SessionEvent, Continue
<1>2. f = [browser |-> files.browser, wc |-> NoRecord, local |-> files.local] BY FilesSet DEF WInv
<1> HIDE DEF f
<1>3. IsFiles(f) /\ f.browser = files.browser BY <1>2 DEF IsFiles
<1>4. IsFiles(files') /\ files'.browser = files.browser BY <1>1, <1>3 DEF WInv
<1> QED BY <1>1, <1>4, OthersAct DEF WInv

\* The tab may clear the browser's record.
LEMMA TabLeavesRight == ASSUME WInv, NEW p \in Procs, TabLeaves(p) PROVE WInv'
<1> DEFINE f == [files EXCEPT !.browser = NoAddress]
<1>1. /\ UNCHANGED <<proc, crowded, walletAsked>> /\ files' \in {files, f}
      /\ paired' = [paired EXCEPT ![p] = NoAddress]
      /\ chosen' = IF files' # files THEN Unsure ELSE chosen
  BY DEF TabLeaves, Continue
<1>2. f = [browser |-> NoAddress, wc |-> files.wc, local |-> files.local] BY FilesSet DEF WInv
<1> HIDE DEF f
<1>3. IsFiles(f) /\ f.browser = NoAddress BY <1>2 DEF IsFiles
<1>4. IsFiles(files') /\ files'.browser \in {files.browser, NoAddress} BY <1>1, <1>3 DEF WInv
<1>5. paired' = [r \in Procs |-> paired'[r]] /\ \A r \in Procs : paired'[r] \in {paired[r], NoAddress}
  BY <1>1, BridgeSet
<1> QED BY <1>1, <1>4, <1>5, OthersAct

\* A bridge that is not selected is stopped.
LEMMA StopUnselectedRight == ASSUME WInv, NEW p \in Procs, StopUnselected(p) PROVE WInv'
<1>1. /\ UNCHANGED <<files, proc, crowded, chosen, walletAsked>> /\ paired' = [paired EXCEPT ![p] = NoAddress]
  BY DEF StopUnselected, Continue
<1>2. paired' = [r \in Procs |-> paired'[r]] /\ \A r \in Procs : paired'[r] \in {paired[r], NoAddress}
  BY <1>1, BridgeSet
<1>3. IsFiles(files') BY <1>1 DEF WInv
<1> QED BY <1>1, <1>2, <1>3, OthersAct

\* Every step of the wallets keeps the invariant.
LEMMA WalletsStep == WInv /\ [WalletsNext]_walletVars => WInv'
<1> SUFFICES ASSUME WInv, [WalletsNext]_walletVars PROVE WInv' OBVIOUS
<1>1. ASSUME UNCHANGED walletVars PROVE WInv'
  BY <1>1 DEF WInv, walletVars, Busy, SignsWhatWasReviewed
<1>2. ASSUME NEW t \in Topics, WalletChanges(t) PROVE WInv' BY <1>2, WalletChangesRight
<1>3. ASSUME NEW p \in Procs, NEW t \in Topics, SessionEvent(p, t) PROVE WInv' BY <1>3, SessionEventRight
<1>4. ASSUME NEW p \in Procs, \/ CreateLocal(p) \/ RemoveLocal(p) \/ DeleteLocal(p) \/ SaveLocal(p) PROVE WInv'
  <2>1. ASSUME CreateLocal(p) \/ RemoveLocal(p) PROVE WInv'
    BY <2>1, PromptRight DEF CreateLocal, RemoveLocal
  <2>2. ASSUME DeleteLocal(p) \/ SaveLocal(p) PROVE WInv'
    BY <2>2, PromptedRight DEF DeleteLocal, SaveLocal
  <2> QED BY <1>4, <2>1, <2>2
<1>5. ASSUME NEW p \in Procs,
             \/ ConnectWalletConnect(p) \/ ConnectBrowser(p) \/ Disconnect(p) \/ Review(p)
             \/ OpenClient(p) \/ EndSession(p) \/ ForgetSession(p) \/ PairWalletConnect(p) \/ PairBrowser(p)
      PROVE  WInv'
  BY <1>5, ConnectWalletConnectRight, ConnectBrowserRight, DisconnectRight, ReviewRight, OpenClientRight,
     EndSessionRight, ForgetSessionRight, PairWalletConnectRight, PairBrowserRight
<1>6. ASSUME NEW p \in Procs,
             \/ Confirm(p) \/ Unlock(p) \/ SendLocal(p) \/ SendWalletConnect(p) \/ AskWalletConnect(p)
             \/ SendBrowser(p) \/ GiveUp(p) \/ Exit(p) \/ TabLeaves(p) \/ StopUnselected(p)
      PROVE  WInv'
  BY <1>6, ConfirmRight, UnlockRight, SendLocalRight, SendWalletConnectRight, AskWalletConnectRight,
     SendBrowserRight, GiveUpRight, ExitRight, TabLeavesRight, StopUnselectedRight
<1> QED BY <1>1, <1>2, <1>3, <1>4, <1>5, <1>6 DEF WalletsNext

-----------------------------------------------------------------------------
(***************************************************************************)
(* src/safe: an execution that was prepared runs as long as no other was   *)
(* faster. What has to be known for that: the Safe is sound, whatever was  *)
(* proposed at its nonce and is carried out; a change of owners proposed   *)
(* at that nonce is possible and leaves it as wished; approvals are never  *)
(* taken back; and but for a sponsored operation, whatever changes the     *)
(* Safe moves the nonce, which no proposal is ahead of.                    *)
(***************************************************************************)

IsVault(v) == v = [owners |-> v.owners, threshold |-> v.threshold, modules |-> v.modules, nonce |-> v.nonce]
VaultIsRight(v) ==
  /\ IsVault(v) /\ v.owners \in Seq(SafeAddresses) /\ IsSafe(v.owners, v.threshold)
  /\ v.modules \in Seq(Modules)

\* A call of the Safe on itself names addresses and modules.
IsDeed(deed) ==
  /\ deed.do = "add" => deed.owner \in SafeAddresses
  /\ deed.do = "swap" => deed.new \in SafeAddresses
  /\ deed.do = "enable" => deed.module \in Modules
AreDeeds(calls) == calls # <<>> => IsDeed(calls[1]) /\ (Len(calls) = 1 \/ IsDeed(calls[2]))

\* What a change of owners does, while nothing else was executed since.
Fits(v, tx) ==
  /\ AbleAll(v, tx.calls)
  /\ Wish(Range(RanAll(v, tx.calls).owners), RanAll(v, tx.calls).threshold) = tx.wish

SafeInv ==
  /\ VaultIsRight(vault) /\ vault.nonce \in Nat
  /\ \A tx \in proposed : tx.nonce \in Nat /\ tx.nonce <= vault.nonce /\ AreDeeds(tx.calls)
  /\ \A draft \in drafts : draft.kind = "propose" => AreDeeds(draft.calls)
  /\ \A op \in drafts \cup prepared : op.kind = "execute" => op.tx \in proposed
  /\ PreparedRuns

\* One field of the Safe
LEMMA VaultSet ==
  ASSUME NEW v, IsVault(v), NEW x
  PROVE  /\ [v EXCEPT !.owners = x] = [owners |-> x, threshold |-> v.threshold, modules |-> v.modules, nonce |-> v.nonce]
         /\ [v EXCEPT !.threshold = x] = [owners |-> v.owners, threshold |-> x, modules |-> v.modules, nonce |-> v.nonce]
         /\ [v EXCEPT !.modules = x] = [owners |-> v.owners, threshold |-> v.threshold, modules |-> x, nonce |-> v.nonce]
         /\ [v EXCEPT !.nonce = x] = [owners |-> v.owners, threshold |-> v.threshold, modules |-> v.modules, nonce |-> x]
<1> DEFINE o == v.owners
           t == v.threshold
           m == v.modules
           n == v.nonce
<1>0. v = [owners |-> o, threshold |-> t, modules |-> m, nonce |-> n] BY DEF IsVault
<1> HIDE DEF o, t, m, n
<1>1. [v EXCEPT !.owners = x] = [owners |-> x, threshold |-> t, modules |-> m, nonce |-> n] BY <1>0
<1>2. [v EXCEPT !.threshold = x] = [owners |-> o, threshold |-> x, modules |-> m, nonce |-> n] BY <1>0
<1>3. [v EXCEPT !.modules = x] = [owners |-> o, threshold |-> t, modules |-> x, nonce |-> n] BY <1>0
<1>4. [v EXCEPT !.nonce = x] = [owners |-> o, threshold |-> t, modules |-> m, nonce |-> x] BY <1>0
<1> QED BY <1>1, <1>2, <1>3, <1>4 DEF o, t, m, n

\* Owners and the threshold, which are changed together
OwnersSet(v, x, y) == [v EXCEPT !.owners = x, !.threshold = y]
\* Both of them
LEMMA OwnersSetIs ==
  ASSUME NEW v, IsVault(v), NEW x, NEW y
  PROVE  OwnersSet(v, x, y) = [owners |-> x, threshold |-> y, modules |-> v.modules, nonce |-> v.nonce]
<1> DEFINE v1 == [v EXCEPT !.owners = x]
           v2 == [v1 EXCEPT !.threshold = y]
           e == OwnersSet(v, x, y)
<1>1. v1 = [owners |-> x, threshold |-> v.threshold, modules |-> v.modules, nonce |-> v.nonce] BY VaultSet
<1>2. v2 = [owners |-> x, threshold |-> y, modules |-> v.modules, nonce |-> v.nonce]
  <2> HIDE DEF v1
  <2>1. IsVault(v1) BY <1>1 DEF IsVault
  <2>2. v2 = [owners |-> v1.owners, threshold |-> y, modules |-> v1.modules, nonce |-> v1.nonce] BY <2>1, VaultSet
  <2> HIDE DEF v2
  <2> QED BY <1>1, <2>2
<1>3. e = v2 BY DEF OwnersSet
<1> HIDE DEF v2, e
<1> QED BY <1>2, <1>3 DEF e

\* Lists
LEMMA RangeIs == ASSUME NEW S, NEW s \in Seq(S) PROVE Range(s) \subseteq S /\ DOMAIN s = 1..Len(s) /\ Len(s) \in Nat
BY DEF Range

\* The place of an item of a list
LEMMA PlaceIs ==
  ASSUME NEW s, NEW x \in Range(s) PROVE Place(s, x) \in DOMAIN s /\ s[Place(s, x)] = x
BY DEF Place, Range

\* A list without one of its items
LEMMA DroppedIs ==
  ASSUME NEW S, NEW s \in Seq(S), NEW x \in Range(s)
  PROVE  /\ Dropped(s, x) \in Seq(S) /\ Len(Dropped(s, x)) = Len(s) - 1
         /\ IsInjective(s) => Range(Dropped(s, x)) = Range(s) \ {x} /\ IsInjective(Dropped(s, x))
<1>1. PICK i, n : i = Place(s, x) /\ n = Len(s) OBVIOUS
<1>2. i \in 1..n /\ n \in Nat /\ s[i] = x /\ DOMAIN s = 1..n BY <1>1, PlaceIs, RangeIs
<1>3. PICK a, b : a = SubSeq(s, 1, i - 1) /\ b = SubSeq(s, i + 1, n) OBVIOUS
<1>4. a \in Seq(S) /\ Len(a) = i - 1 /\ \A j \in 1..(i - 1) : a[j] = s[j]
  BY <1>1, <1>2, <1>3, SubSeqProperties
<1>5. b \in Seq(S) /\ Len(b) = n - i /\ \A j \in 1..(n - i) : b[j] = s[i + j]
  BY <1>1, <1>2, <1>3, SubSeqProperties
<1>6. PICK w : w = Dropped(s, x) OBVIOUS
<1>7. w = a \o b BY <1>1, <1>3, <1>6 DEF Dropped, RemoveAt
<1>8. /\ w \in Seq(S) /\ Len(w) = n - 1
      /\ \A j \in 1..(n - 1) : w[j] = IF j < i THEN s[j] ELSE s[j + 1]
  <2>1. w \in Seq(S) /\ Len(w) = Len(a) + Len(b) /\ \A j \in 1..Len(w) : w[j] = IF j <= Len(a) THEN a[j] ELSE b[j - Len(a)]
    <3>1. a \in Seq(S) /\ b \in Seq(S) BY <1>4, <1>5
    <3> QED BY <1>7, <3>1, ConcatProperties
  <2>2. Len(w) = n - 1 BY <1>2, <1>4, <1>5, <2>1
  <2>3. ASSUME NEW j \in 1..(n - 1) PROVE w[j] = IF j < i THEN s[j] ELSE s[j + 1]
    <3>1. CASE j < i BY <1>2, <1>4, <2>1, <2>2, <3>1
    <3>2. CASE ~(j < i)
      <4>1. w[j] = b[j - (i - 1)]
        <5>1. Len(a) = i - 1 /\ j \in 1..Len(w) /\ ~(j <= Len(a)) BY <1>2, <1>4, <2>2, <3>2
        <5>2. w[j] = b[j - Len(a)] BY <2>1, <5>1
        <5> QED BY <5>1, <5>2
      <4>2. j - (i - 1) \in 1..(n - i) /\ i + (j - (i - 1)) = j + 1 BY <1>2, <3>2
      <4> QED BY <1>2, <1>5, <3>2, <4>1, <4>2
    <3> QED BY <3>1, <3>2
  <2> QED BY <2>1, <2>2, <2>3
<1>9. ASSUME IsInjective(s) PROVE Range(w) = Range(s) \ {x} /\ IsInjective(w)
  <2>0. DOMAIN w = 1..(n - 1) BY <1>8, RangeIs
  <2>1. \A j, k \in 1..n : s[j] = s[k] => j = k BY <1>2, <1>9 DEF IsInjective
  <2>2. \A j \in 1..(n - 1) : w[j] \in Range(s) /\ w[j] # x
    <3> TAKE j \in 1..(n - 1)
    <3>1. CASE j < i
      <4>1. j \in 1..n /\ j # i /\ w[j] = s[j] BY <1>2, <1>8, <3>1
      <4> QED BY <1>2, <2>1, <4>1 DEF Range
    <3>2. CASE ~(j < i)
      <4>1. j + 1 \in 1..n /\ j + 1 # i /\ w[j] = s[j + 1] BY <1>2, <1>8, <3>2
      <4> QED BY <1>2, <2>1, <4>1 DEF Range
    <3> QED BY <3>1, <3>2
  <2>3. ASSUME NEW y \in Range(s), y # x PROVE y \in Range(w)
    <3>1. PICK k \in 1..n : s[k] = y BY <1>2 DEF Range
    <3>2. k # i BY <1>2, <2>3, <3>1
    <3>3. CASE k < i
      <4>1. k \in 1..(n - 1) /\ w[k] = y BY <1>2, <1>8, <3>1, <3>3
      <4> QED BY <2>0, <4>1 DEF Range
    <3>4. CASE ~(k < i)
      <4>1. k - 1 \in 1..(n - 1) /\ ~(k - 1 < i) /\ (k - 1) + 1 = k BY <1>2, <3>1, <3>2, <3>4
      <4>2. w[k - 1] = y BY <1>8, <3>1, <4>1
      <4> QED BY <2>0, <4>1, <4>2 DEF Range
    <3> QED BY <3>3, <3>4
  <2>4. ASSUME NEW j \in 1..(n - 1), NEW k \in 1..(n - 1), w[j] = w[k] PROVE j = k
    <3>1. PICK jj, kk : jj = (IF j < i THEN j ELSE j + 1) /\ kk = (IF k < i THEN k ELSE k + 1) OBVIOUS
    <3>2. jj \in 1..n /\ kk \in 1..n BY <1>2, <3>1
    <3>3. w[j] = s[jj] /\ w[k] = s[kk] BY <1>8, <3>1
    <3>4. jj = kk BY <2>1, <2>4, <3>2, <3>3
    <3> QED BY <1>2, <3>1, <3>4
  <2>5. Range(w) = Range(s) \ {x} BY <2>0, <2>2, <2>3 DEF Range
  <2> QED BY <2>0, <2>4, <2>5 DEF IsInjective
<1> QED BY <1>1, <1>6, <1>8, <1>9

\* A list with an item before it
LEMMA BeforeIs ==
  ASSUME NEW S, NEW s \in Seq(S), NEW x \in S
  PROVE  /\ <<x>> \o s \in Seq(S) /\ Len(<<x>> \o s) = Len(s) + 1
         /\ Range(<<x>> \o s) = Range(s) \cup {x}
         /\ IsInjective(s) /\ x \notin Range(s) => IsInjective(<<x>> \o s)
<1>1. PICK w, n : w = <<x>> \o s /\ n = Len(s) OBVIOUS
<1>2. n \in Nat /\ DOMAIN s = 1..n BY <1>1, RangeIs
<1>3. <<x>> \in Seq(S) /\ Len(<<x>>) = 1 /\ <<x>>[1] = x OBVIOUS
<1>4. w \in Seq(S) /\ Len(w) = n + 1 /\ \A j \in 1..(n + 1) : w[j] = IF j = 1 THEN x ELSE s[j - 1]
  <2>1. w \in Seq(S) /\ Len(w) = Len(<<x>>) + Len(s)
        /\ \A j \in 1..Len(w) : w[j] = IF j <= Len(<<x>>) THEN <<x>>[j] ELSE s[j - Len(<<x>>)]
    BY <1>1, <1>3, ConcatProperties
  <2>2. Len(w) = n + 1 BY <1>1, <1>2, <1>3, <2>1
  <2>3. ASSUME NEW j \in 1..(n + 1) PROVE w[j] = IF j = 1 THEN x ELSE s[j - 1]
    <3>1. CASE j = 1 BY <1>2, <1>3, <2>1, <2>2, <3>1
    <3>2. CASE j # 1 BY <1>2, <1>3, <2>1, <2>2, <3>2
    <3> QED BY <3>1, <3>2
  <2> QED BY <2>1, <2>2, <2>3
<1>5. DOMAIN w = 1..(n + 1) BY <1>4, RangeIs
<1>6. Range(w) = Range(s) \cup {x}
  <2>1. \A j \in 1..(n + 1) : w[j] \in Range(s) \cup {x}
    <3> TAKE j \in 1..(n + 1)
    <3>1. CASE j = 1 BY <1>4, <3>1
    <3>2. CASE j # 1
      <4>1. j - 1 \in 1..n /\ w[j] = s[j - 1] BY <1>2, <1>4, <3>2
      <4> QED BY <1>2, <4>1 DEF Range
    <3> QED BY <3>1, <3>2
  <2>2. x \in Range(w)
    <3>1. 1 \in 1..(n + 1) /\ w[1] = x BY <1>2, <1>4
    <3> QED BY <1>5, <3>1 DEF Range
  <2>3. ASSUME NEW y \in Range(s) PROVE y \in Range(w)
    <3>1. PICK j \in 1..n : s[j] = y BY <1>2 DEF Range
    <3>2. j + 1 \in 1..(n + 1) /\ j + 1 # 1 /\ (j + 1) - 1 = j BY <1>2
    <3>3. w[j + 1] = y BY <1>4, <3>1, <3>2
    <3> QED BY <1>5, <3>2, <3>3 DEF Range
  <2> QED BY <1>5, <2>1, <2>2, <2>3 DEF Range
<1>7. ASSUME IsInjective(s), x \notin Range(s) PROVE IsInjective(w)
  <2>1. ASSUME NEW j \in 1..(n + 1), NEW k \in 1..(n + 1), w[j] = w[k] PROVE j = k
    <3>1. \A i \in 1..n : s[i] # x BY <1>2, <1>7 DEF Range
    <3>2. CASE j = 1 \/ k = 1
      <4>1. \A i \in 1..(n + 1) : i # 1 => i - 1 \in 1..n BY <1>2
      <4> QED BY <1>4, <2>1, <3>1, <3>2, <4>1
    <3>3. CASE j # 1 /\ k # 1
      <4>1. j - 1 \in 1..n /\ k - 1 \in 1..n /\ s[j - 1] = s[k - 1] BY <1>2, <1>4, <2>1, <3>3
      <4>2. j - 1 = k - 1 BY <1>2, <1>7, <4>1 DEF IsInjective
      <4> QED BY <4>2
    <3> QED BY <3>2, <3>3
  <2> QED BY <1>5, <2>1 DEF IsInjective
<1> QED BY <1>1, <1>4, <1>6, <1>7

\* A list with an item in the place of another
LEMMA SwapIs ==
  ASSUME NEW S, NEW s \in Seq(S), NEW x \in Range(s), NEW y \in S
  PROVE  /\ Swap(s, x, y) \in Seq(S) /\ Len(Swap(s, x, y)) = Len(s)
         /\ IsInjective(s) /\ IsInjective(Swap(s, x, y)) /\ x # y =>
              y \notin Range(s) /\ Range(Swap(s, x, y)) = (Range(s) \ {x}) \cup {y}
         /\ IsInjective(s) /\ y \notin Range(s) => IsInjective(Swap(s, x, y))
<1>1. PICK w, n : w = Swap(s, x, y) /\ n = Len(s) OBVIOUS
<1>2. n \in Nat /\ DOMAIN s = 1..n BY <1>1, RangeIs
<1>3. w = [i \in 1..n |-> IF s[i] = x THEN y ELSE s[i]] BY <1>1, <1>2 DEF Swap
<1>4. \A i \in 1..n : s[i] \in S BY <1>1, <1>2
<1>5. w \in [1..n -> S] BY <1>3, <1>4
<1>6. w \in Seq(S) /\ Len(w) = n BY <1>2, <1>5
<1>7. ASSUME IsInjective(s), IsInjective(w), x # y
      PROVE  y \notin Range(s) /\ Range(w) = (Range(s) \ {x}) \cup {y}
  <2>1. PICK i \in 1..n : s[i] = x BY <1>2 DEF Range
  <2>2. \A j, k \in 1..n : w[j] = w[k] => j = k BY <1>3, <1>7 DEF IsInjective
  <2>3. \A j \in 1..n : s[j] # y
    <3> SUFFICES ASSUME NEW j \in 1..n, s[j] = y PROVE FALSE OBVIOUS
    <3>1. w[j] = y /\ w[i] = y BY <1>3, <1>7, <2>1
    <3>2. i = j BY <2>2, <3>1
    <3> QED BY <1>7, <2>1, <3>2
  <2>4. y \notin Range(s) BY <1>2, <2>3 DEF Range
  <2>5. ASSUME NEW z \in Range(w) PROVE z \in (Range(s) \ {x}) \cup {y}
    <3>1. PICK j \in 1..n : w[j] = z BY <1>3 DEF Range
    <3> QED BY <1>2, <1>3, <3>1 DEF Range
  <2>6. ASSUME NEW z \in (Range(s) \ {x}) \cup {y} PROVE z \in Range(w)
    <3>1. CASE z = y
      <4>1. w[i] = y BY <1>3, <2>1
      <4> QED BY <1>3, <3>1, <4>1 DEF Range
    <3>2. CASE z \in Range(s) /\ z # x
      <4>1. PICK j \in 1..n : s[j] = z BY <1>2, <3>2 DEF Range
      <4>2. w[j] = z BY <1>3, <3>2, <4>1
      <4> QED BY <1>3, <4>2 DEF Range
    <3> QED BY <2>6, <3>1, <3>2
  <2>7. Range(w) = (Range(s) \ {x}) \cup {y} BY <2>5, <2>6
  <2> QED BY <2>4, <2>7
<1>8. ASSUME IsInjective(s), y \notin Range(s) PROVE IsInjective(w)
  <2>1. \A j, k \in 1..n : s[j] = s[k] => j = k BY <1>2, <1>8 DEF IsInjective
  <2>2. \A j \in 1..n : s[j] # y BY <1>2, <1>8 DEF Range
  <2>3. ASSUME NEW j \in 1..n, NEW k \in 1..n, w[j] = w[k] PROVE j = k
    <3>1. s[j] = s[k] BY <1>3, <2>2, <2>3
    <3> QED BY <2>1, <3>1
  <2>4. DOMAIN w = 1..n BY <1>3
  <2> QED BY <2>3, <2>4 DEF IsInjective
<1> QED BY <1>1, <1>6, <1>7, <1>8

\* Owners can be listed in the order of their addresses.
Ascends(s) == \A i, j \in DOMAIN s : i < j => s[i] < s[j]
\* A finite set of addresses has an ascending list, by smallest counterexample.
LEMMA OrderExists ==
  ASSUME NEW S \in SUBSET Nat, IsFiniteSet(S)
  PROVE  \E s \in [1..Cardinality(S) -> S] : Ascends(s)
<1> DEFINE Orders(T) == {s \in [1..Cardinality(T) -> T] : Ascends(s)}
           bad == {T \in SUBSET S : Orders(T) = {}}
<1> SUFFICES ASSUME bad # {} PROVE FALSE OBVIOUS
<1>1. PICK T \in bad : \A U \in SUBSET T : U # T => U \notin bad
  <2>1. bad \in SUBSET SUBSET S OBVIOUS
  <2> HIDE DEF bad
  <2> QED BY <2>1, SmallestSet
<1>2. T \in SUBSET Nat /\ IsFiniteSet(T) /\ Cardinality(T) \in Nat BY FS_Subset, FS_CardinalityType
<1>3. CASE T = {}
  <2>1. Cardinality(T) = 0 BY <1>3, FS_EmptySet
  <2> DEFINE s == [i \in 1..0 |-> 0]
  <2>2. s \in [1..Cardinality(T) -> T] /\ Ascends(s) BY <2>1 DEF Ascends
  <2> QED BY <2>2
<1>4. CASE T # {}
  <2>1. PICK m \in T : \A y \in T : m <= y BY <1>2, <1>4, LeastNatural
  <2>2. PICK U, n : U = T \ {m} /\ n = Cardinality(T) OBVIOUS
  <2>3. Cardinality(U) = n - 1 /\ n \in Nat BY <1>2, <2>1, <2>2, FS_RemoveElement
  <2>4. U \in SUBSET T /\ U # T BY <2>1, <2>2
  <2>5. U \notin bad BY <1>1, <2>4
  <2>6. PICK u : u \in Orders(U) BY <2>4, <2>5
  <2>7. u \in [1..(n - 1) -> U] /\ Ascends(u) BY <2>3, <2>6
  <2> DEFINE s == [i \in 1..n |-> IF i = 1 THEN m ELSE u[i - 1]]
  <2>8. \A i \in 1..n : i # 1 => i - 1 \in 1..(n - 1) /\ s[i] = u[i - 1] /\ s[i] \in U BY <2>3, <2>7
  <2>9. s \in [1..n -> T]
    <3>1. \A i \in 1..n : s[i] \in T BY <2>1, <2>4, <2>8
    <3> QED BY <3>1
  <2>10. ASSUME NEW i \in 1..n, NEW j \in 1..n, i < j PROVE s[i] < s[j]
    <3>1. j # 1 /\ j - 1 \in 1..(n - 1) /\ s[j] = u[j - 1] /\ s[j] \in U BY <2>3, <2>8, <2>10
    <3>2. CASE i = 1
      <4>1. s[i] = m /\ s[j] \in T /\ s[j] # m BY <2>2, <3>1, <3>2
      <4>2. m <= s[j] /\ m \in Nat /\ s[j] \in Nat BY <1>2, <2>1, <4>1
      <4> HIDE DEF s
      <4> QED BY <4>1, <4>2
    <3>3. CASE i # 1
      <4>1. i - 1 \in 1..(n - 1) /\ s[i] = u[i - 1] BY <2>8, <3>3
      <4>2. i - 1 < j - 1 BY <2>3, <2>10
      <4>3. u[i - 1] < u[j - 1] BY <2>7, <3>1, <4>1, <4>2 DEF Ascends
      <4> HIDE DEF s
      <4> QED BY <3>1, <4>1, <4>3
    <3> QED BY <3>2, <3>3
  <2>11. Ascends(s) BY <2>10 DEF Ascends
  <2> HIDE DEF s
  <2>12. s \in Orders(T) BY <2>2, <2>9, <2>11
  <2> QED BY <2>12
<1> QED BY <1>3, <1>4

\* So the list of the signers is one.
LEMMA InOrderIs ==
  ASSUME NEW S \in SUBSET Nat, IsFiniteSet(S)
  PROVE  InOrder(S) \in [1..Cardinality(S) -> S] /\ Ascends(InOrder(S))
<1>1. \E s \in [1..Cardinality(S) -> S] : \A i, j \in DOMAIN s : i < j => s[i] < s[j]
  BY OrderExists DEF Ascends
<1> QED BY <1>1 DEF InOrder, Ascends

-----------------------------------------------------------------------------
\* One owner, and nothing is proposed
LEMMA SafeStart == SafeInit => SafeInv
<1> SUFFICES ASSUME SafeInit PROVE SafeInv OBVIOUS
<1>1. PICK owner \in SafeAddresses : vault = [owners |-> <<owner>>, threshold |-> 1, modules |-> <<>>, nonce |-> 0]
  BY DEF SafeInit
<1>2. PICK o : o = <<owner>> OBVIOUS
<1>3. o \in Seq(SafeAddresses) /\ Len(o) = 1 /\ DOMAIN o = 1..1 BY <1>2
<1>4. IsInjective(o)
  <2>1. \A i, j \in 1..1 : i = j OBVIOUS
  <2> QED BY <1>3, <2>1 DEF IsInjective
<1>5. IsSafe(o, 1) BY <1>3, <1>4 DEF IsSafe
<1>6. vault = [owners |-> o, threshold |-> 1, modules |-> <<>>, nonce |-> 0] BY <1>1, <1>2
<1>7. VaultIsRight(vault) BY <1>3, <1>5, <1>6 DEF VaultIsRight, IsVault
<1>8. proposed = {} /\ prepared = {} /\ drafts = {} /\ vault.nonce = 0 BY <1>6 DEF SafeInit
<1> QED BY <1>7, <1>8 DEF SafeInv, PreparedRuns

\* While the Safe stands: what is new of proposals, drafts and prepared
\* operations is right of this Safe, and approvals are only added.
LEMMA SafeStands ==
  ASSUME SafeInv, UNCHANGED <<vault, administered>>, approvals \subseteq approvals', proposed \subseteq proposed',
         \A tx \in proposed' \ proposed :
           /\ tx.nonce = vault.nonce /\ AreDeeds(tx.calls)
           /\ tx.wish # NoWish => Fits(vault, tx),
         \A draft \in drafts' \ drafts :
           /\ draft.kind = "propose" => AreDeeds(draft.calls)
           /\ draft.kind = "execute" => draft.tx \in proposed /\ Signed(HashOf(draft.tx), draft.signers),
         \A op \in prepared' \ prepared : op.kind = "execute" => op \in drafts /\ Executes(op)
  PROVE  SafeInv'
<1>1. \A hash, signers : Signed(hash, signers) => Signed(hash, signers)' BY DEF Signed
<1>2. \A op : Executes(op) => Executes(op)' BY <1>1 DEF Executes
<1>3. \A op \in drafts' \cup prepared' : op.kind = "execute" => op.tx \in proposed' BY DEF SafeInv
<1>4. \A draft \in drafts' : draft.kind = "propose" => AreDeeds(draft.calls) BY DEF SafeInv
<1>5. \A tx \in proposed' : tx.nonce \in Nat /\ tx.nonce <= vault.nonce /\ AreDeeds(tx.calls) BY DEF SafeInv
<1>6. ASSUME ~administered PROVE PreparedRuns'
  <2>1. \A tx \in proposed' : tx.nonce = vault.nonce /\ tx.wish # NoWish => Fits(vault, tx)
    BY <1>6 DEF SafeInv, PreparedRuns, Fits
  <2>2. \A op \in prepared' : op.kind = "execute" /\ op.tx.nonce = vault.nonce => Executes(op)
    BY <1>6 DEF SafeInv, PreparedRuns
  <2>3. \A op \in drafts' \cup prepared' :
          op.kind = "execute" /\ op.tx.nonce = vault.nonce => Signed(HashOf(op.tx), op.signers)
    <3>1. \A op \in drafts \cup prepared :
            op.kind = "execute" /\ op.tx.nonce = vault.nonce => Signed(HashOf(op.tx), op.signers)
      BY <1>6 DEF SafeInv, PreparedRuns
    <3> QED BY <3>1
  <2>4. \A tx \in proposed' : tx.nonce = vault'.nonce /\ tx.wish # NoWish => Fits(vault', tx) BY <2>1
  <2> QED BY <1>1, <1>2, <2>2, <2>3, <2>4 DEF PreparedRuns, Fits
<1>7. VaultIsRight(vault') /\ vault'.nonce \in Nat BY DEF SafeInv
<1>8. PreparedRuns' BY <1>6 DEF PreparedRuns
<1>9. \A tx \in proposed' : tx.nonce \in Nat /\ tx.nonce <= vault'.nonce /\ AreDeeds(tx.calls) BY <1>5
<1> HIDE DEF PreparedRuns, AreDeeds
<1> QED BY <1>3, <1>4, <1>7, <1>8, <1>9 DEF SafeInv

\* What is proposed fits the Safe it was made for.
LEMMA ProposeRight ==
  ASSUME SafeInv, NEW calls, NEW wish, SafePropose(calls, wish), AreDeeds(calls), drafts' \subseteq drafts,
         wish # NoWish => /\ AbleAll(vault, calls)
                          /\ Wish(Range(RanAll(vault, calls).owners), RanAll(vault, calls).threshold) = wish
  PROVE  SafeInv'
<1>1. PICK tx : tx = [calls |-> calls, nonce |-> vault.nonce, wish |-> wish] OBVIOUS
<1>2. tx.calls = calls /\ tx.nonce = vault.nonce /\ tx.wish = wish BY <1>1
<1>3. proposed' = proposed \cup {tx} /\ UNCHANGED <<vault, approvals, prepared, administered>>
  BY <1>1 DEF SafePropose
<1>4. wish # NoWish => Fits(vault, tx) BY <1>2 DEF Fits
<1> QED BY <1>2, <1>3, <1>4, SafeStands

\* A proposal of one deed
LEMMA OneCall ==
  ASSUME NEW v, NEW deed
  PROVE  /\ AbleAll(v, <<deed>>) <=> Able(v, deed)
         /\ RanAll(v, <<deed>>) = Ran(v, deed)
         /\ AreDeeds(<<deed>>) <=> IsDeed(deed)
<1>1. PICK c : c = <<deed>> OBVIOUS
<1>2. Len(c) = 1 /\ c # <<>> /\ c[1] = deed BY <1>1
<1>3. RanAll(v, c) = Ran(v, deed) BY <1>2 DEF RanAll
<1>4. AbleAll(v, c) <=> Able(v, deed) BY <1>2 DEF AbleAll
<1>5. AreDeeds(c) <=> IsDeed(deed) BY <1>2 DEF AreDeeds
<1> QED BY <1>1, <1>3, <1>4, <1>5

\* The Safe as it is
LEMMA VaultIs ==
  ASSUME SafeInv
  PROVE  /\ IsVault(vault) /\ vault.owners \in Seq(SafeAddresses) /\ IsInjective(vault.owners)
         /\ vault.threshold \in 1..Len(vault.owners) /\ vault.modules \in Seq(Modules)
         /\ vault.nonce \in Nat /\ Len(vault.owners) \in Nat
BY DEF SafeInv, VaultIsRight, IsSafe

\* An owner is put before the others.
LEMMA AddOwnerRight ==
  ASSUME SafeInv, NEW owner \in SafeAddresses, NEW t \in 1..MaxOwners, AddOwner(owner, t) PROVE SafeInv'
<1>1. PICK deed, w : /\ deed = [do |-> "add", owner |-> owner, threshold |-> t]
                     /\ w = <<owner>> \o vault.owners
  OBVIOUS
<1>2. deed.do = "add" /\ deed.owner = owner /\ deed.threshold = t BY <1>1
<1>3. /\ SafePropose(<<deed>>, Wish(Owners \cup {owner}, t)) /\ drafts' = drafts
      /\ IsSafe(Append(vault.owners, owner), t)
  BY <1>1 DEF AddOwner, IsSound
<1>4. owner \notin Range(vault.owners) /\ t \in 1..(Len(vault.owners) + 1)
  <2>1. PICK s, n : s = Append(vault.owners, owner) /\ n = Len(vault.owners) OBVIOUS
  <2>2. n \in Nat /\ DOMAIN vault.owners = 1..n /\ Len(s) = n + 1 /\ DOMAIN s = 1..(n + 1)
    BY <2>1, VaultIs, RangeIs, AppendProperties
  <2>3. \A i \in 1..n : s[i] = vault.owners[i] BY <2>1, VaultIs, AppendProperties
  <2>4. s[n + 1] = owner BY <2>1, VaultIs, AppendProperties
  <2>5. \A i \in 1..n : vault.owners[i] # owner
    <3> SUFFICES ASSUME NEW i \in 1..n, vault.owners[i] = owner PROVE FALSE OBVIOUS
    <3>1. s[i] = s[n + 1] /\ i \in 1..(n + 1) /\ n + 1 \in 1..(n + 1) BY <2>2, <2>3, <2>4
    <3>2. i = n + 1 BY <1>3, <2>1, <2>2, <3>1 DEF IsSafe, IsInjective
    <3> QED BY <2>2, <3>2
  <2>6. t \in 1..Len(s) BY <1>3, <2>1 DEF IsSafe
  <2> QED BY <2>1, <2>2, <2>5, <2>6 DEF Range
<1>5. Able(vault, deed) BY <1>2, <1>4 DEF Able
<1>6. PICK after : after = Ran(vault, deed) OBVIOUS
<1>7. after = [owners |-> w, threshold |-> t, modules |-> vault.modules, nonce |-> vault.nonce]
  <2>1. after = OwnersSet(vault, w, t) BY <1>1, <1>2, <1>6 DEF Ran, OwnersSet
  <2> QED BY <2>1, VaultIs, OwnersSetIs
<1>8. Range(w) = Owners \cup {owner} BY <1>1, VaultIs, BeforeIs DEF Owners
<1>9. Wish(Range(after.owners), after.threshold) = Wish(Owners \cup {owner}, t) BY <1>7, <1>8
<1>10. IsDeed(deed) BY <1>2 DEF IsDeed
<1> QED BY <1>3, <1>5, <1>6, <1>9, <1>10, OneCall, ProposeRight

\* The neighbour that a proposal names is the neighbour that the contract wants.
LEMMA PreviousIs ==
  ASSUME NEW s, NEW x \in Range(s)
  PROVE  LinkedAfter(s, Previous(s, x), x)
BY PlaceIs DEF LinkedAfter, Previous

\* An owner leaves the list.
LEMMA RemoveOwnerRight ==
  ASSUME SafeInv, NEW owner \in SafeAddresses, NEW t \in 1..MaxOwners, RemoveOwner(owner, t) PROVE SafeInv'
<1>1. PICK deed, w : /\ deed = [do |-> "remove", previous |-> Previous(vault.owners, owner), owner |-> owner, threshold |-> t]
                     /\ w = Dropped(vault.owners, owner)
  OBVIOUS
<1>2. deed.do = "remove" /\ deed.owner = owner /\ deed.threshold = t /\ deed.previous = Previous(vault.owners, owner)
  BY <1>1
<1>3. /\ SafePropose(<<deed>>, Wish(Owners \ {owner}, t)) /\ drafts' = drafts
      /\ IsSafe(w, t) /\ owner \in Range(vault.owners)
  BY <1>1 DEF RemoveOwner, Others, Owners, IsSound
<1>4. w \in Seq(SafeAddresses) /\ Len(w) = Len(vault.owners) - 1 /\ Range(w) = Owners \ {owner}
  BY <1>1, <1>3, VaultIs, DroppedIs DEF Owners
<1>5. Able(vault, deed)
  <2>1. LinkedAfter(vault.owners, deed.previous, deed.owner) BY <1>2, <1>3, PreviousIs
  <2>2. deed.threshold \in 1..(Len(vault.owners) - 1) BY <1>2, <1>3, <1>4 DEF IsSafe
  <2> QED BY <1>2, <2>1, <2>2 DEF Able
<1>6. PICK after : after = Ran(vault, deed) OBVIOUS
<1>7. after = [owners |-> w, threshold |-> t, modules |-> vault.modules, nonce |-> vault.nonce]
  <2>1. after = OwnersSet(vault, w, t) BY <1>1, <1>2, <1>6 DEF Ran, OwnersSet
  <2> QED BY <2>1, VaultIs, OwnersSetIs
<1>8. Wish(Range(after.owners), after.threshold) = Wish(Owners \ {owner}, t) BY <1>4, <1>7
<1>9. IsDeed(deed) BY <1>2 DEF IsDeed
<1> QED BY <1>3, <1>5, <1>6, <1>8, <1>9, OneCall, ProposeRight

\* An owner takes the place of another.
LEMMA ReplaceOwnerRight ==
  ASSUME SafeInv, NEW owner \in SafeAddresses, NEW new \in SafeAddresses, ReplaceOwner(owner, new) PROVE SafeInv'
<1>1. PICK deed, w : /\ deed = [do |-> "swap", previous |-> Previous(vault.owners, owner), owner |-> owner, new |-> new]
                     /\ w = Swap(vault.owners, owner, new)
  OBVIOUS
<1>2. deed.do = "swap" /\ deed.owner = owner /\ deed.new = new /\ deed.previous = Previous(vault.owners, owner)
  BY <1>1
<1>3. /\ SafePropose(<<deed>>, Wish((Owners \ {owner}) \cup {new}, vault.threshold))
      /\ drafts' = drafts /\ IsInjective(w) /\ owner \in Range(vault.owners) /\ owner # new
  BY <1>1 DEF ReplaceOwner, Owners, IsSound, IsSafe
<1>4. w \in Seq(SafeAddresses) /\ new \notin Range(vault.owners) /\ Range(w) = (Owners \ {owner}) \cup {new}
  BY <1>1, <1>3, VaultIs, SwapIs DEF Owners
<1>5. Able(vault, deed)
  <2>1. LinkedAfter(vault.owners, deed.previous, deed.owner) BY <1>2, <1>3, PreviousIs
  <2> QED BY <1>2, <1>4, <2>1 DEF Able
<1>6. PICK after : after = Ran(vault, deed) OBVIOUS
<1>7. after = [owners |-> w, threshold |-> vault.threshold, modules |-> vault.modules, nonce |-> vault.nonce]
  <2>1. after = [vault EXCEPT !.owners = w] BY <1>1, <1>2, <1>6 DEF Ran
  <2> QED BY <2>1, VaultIs, VaultSet
<1>8. Wish(Range(after.owners), after.threshold) = Wish((Owners \ {owner}) \cup {new}, vault.threshold)
  BY <1>4, <1>7
<1>9. IsDeed(deed) BY <1>2 DEF IsDeed
<1> QED BY <1>3, <1>5, <1>6, <1>8, <1>9, OneCall, ProposeRight

\* Another threshold
LEMMA ChangeThresholdRight ==
  ASSUME SafeInv, NEW t \in 1..MaxOwners, ChangeThreshold(t) PROVE SafeInv'
<1>1. PICK deed : deed = [do |-> "threshold", threshold |-> t] OBVIOUS
<1>2. deed.do = "threshold" /\ deed.threshold = t BY <1>1
<1>3. SafePropose(<<deed>>, Wish(Owners, t)) /\ drafts' = drafts /\ IsSafe(vault.owners, t)
  BY <1>1 DEF ChangeThreshold, IsSound
<1>4. Able(vault, deed) BY <1>2, <1>3 DEF Able, IsSafe
<1>5. PICK after : after = Ran(vault, deed) OBVIOUS
<1>6. after = [owners |-> vault.owners, threshold |-> t, modules |-> vault.modules, nonce |-> vault.nonce]
  <2>1. after = [vault EXCEPT !.threshold = t] BY <1>2, <1>5 DEF Ran
  <2> QED BY <2>1, VaultIs, VaultSet
<1>7. Wish(Range(after.owners), after.threshold) = Wish(Owners, t) BY <1>6 DEF Owners
<1>8. IsDeed(deed) BY <1>2 DEF IsDeed
<1> QED BY <1>3, <1>4, <1>5, <1>7, <1>8, OneCall, ProposeRight

\* A draft changes nothing but the drafts.
LEMMA DraftsRight ==
  ASSUME SafeInv, NEW draft, Drafts(draft),
         draft.kind = "propose" => AreDeeds(draft.calls),
         draft.kind = "execute" => draft.tx \in proposed /\ Signed(HashOf(draft.tx), draft.signers)
  PROVE  SafeInv'
<1>1. drafts' = drafts \cup {draft} /\ UNCHANGED <<vault, approvals, proposed, prepared, administered>>
  BY DEF Drafts
<1> QED BY <1>1, SafeStands

\* So a draft of calls
LEMMA DraftsCallsRight == ASSUME SafeInv, NEW calls, DraftsCalls(calls), AreDeeds(calls) PROVE SafeInv'
<1>1. PICK draft : draft = [kind |-> "propose", calls |-> calls] OBVIOUS
<1>2. draft.kind = "propose" /\ draft.calls = calls BY <1>1
<1>3. Drafts(draft) BY <1>1 DEF DraftsCalls
<1> QED BY <1>2, <1>3, DraftsRight

\* A module is switched off, or on.
LEMMA ModuleProposeRight == ASSUME SafeInv, NEW m \in Modules, ModulePropose(m) PROVE SafeInv'
<1>1. PICK off, on : /\ off = [do |-> "disable", previous |-> Previous(vault.modules, m), module |-> m]
                     /\ on = [do |-> "enable", module |-> m]
  OBVIOUS
<1>2. IsDeed(off) /\ IsDeed(on)
  <2>1. off.do = "disable" /\ on.do = "enable" /\ on.module = m BY <1>1
  <2> QED BY <2>1 DEF IsDeed
<1>3. DraftsCalls(<<off>>) \/ DraftsCalls(<<on>>) BY <1>1 DEF ModulePropose
<1>4. AreDeeds(<<off>>) /\ AreDeeds(<<on>>) BY <1>2, OneCall
<1> QED BY <1>3, <1>4, DraftsCallsRight

\* A budget, and its module first unless it is on
LEMMA BudgetProposeRight == ASSUME SafeInv, NEW m \in Modules, BudgetPropose(m) PROVE SafeInv'
<1>1. PICK set, on, both : /\ set = [do |-> "budget"] /\ on = [do |-> "enable", module |-> m]
                           /\ both = <<on, set>>
  OBVIOUS
<1>2. IsDeed(set) /\ IsDeed(on)
  <2>1. set.do = "budget" /\ on.do = "enable" /\ on.module = m BY <1>1
  <2> QED BY <2>1 DEF IsDeed
<1>3. DraftsCalls(<<set>>) \/ DraftsCalls(both) BY <1>1 DEF BudgetPropose
<1>4. AreDeeds(<<set>>) BY <1>2, OneCall
<1>5. AreDeeds(both)
  <2>1. both[1] = on /\ both[2] = set BY <1>1
  <2> QED BY <1>2, <2>1 DEF AreDeeds
<1> QED BY <1>3, <1>4, <1>5, DraftsCallsRight

\* A draft is proposed, at the nonce of then.
LEMMA ProposeDraftRight == ASSUME SafeInv, NEW draft \in drafts, ProposeDraft(draft) PROVE SafeInv'
<1>1. SafePropose(draft.calls, NoWish) /\ drafts' \subseteq drafts /\ draft.kind = "propose" BY DEF ProposeDraft
<1>2. AreDeeds(draft.calls) BY <1>1 DEF SafeInv
<1> QED BY <1>1, <1>2, ProposeRight

\* The proposal that does nothing
LEMMA CancelProposalRight == ASSUME SafeInv, CancelProposal PROVE SafeInv'
<1>1. SafePropose(<<>>, NoWish) /\ drafts' = drafts BY DEF CancelProposal
<1>2. AreDeeds(<<>>) BY DEF AreDeeds
<1> QED BY <1>1, <1>2, ProposeRight

\* The approvals that are there suffice, in ascending order.
LEMMA SafeExecuteRight == ASSUME SafeInv, NEW tx \in proposed, SafeExecute(tx) PROVE SafeInv'
<1>1. PICK owners, t : owners = ApprovedBy(tx) /\ t = vault.threshold OBVIOUS
<1>2. PICK ascending : ascending = InOrder(owners) OBVIOUS
<1>3. PICK signers : signers = SubSeq(ascending, 1, t) OBVIOUS
<1>4. Drafts([kind |-> "execute", tx |-> tx, by |-> 0, signers |-> signers]) /\ Cardinality(owners) >= t
  BY <1>1, <1>2, <1>3 DEF SafeExecute
<1>5. owners \in SUBSET Nat /\ IsFiniteSet(owners) /\ owners \subseteq Range(vault.owners)
  <2>1. DOMAIN vault.owners = 1..Len(vault.owners) /\ Len(vault.owners) \in Nat
        /\ Range(vault.owners) \subseteq SafeAddresses
    BY VaultIs, RangeIs
  <2>2. IsFiniteSet(1..Len(vault.owners)) BY <2>1, FS_Interval
  <2>3. IsFiniteSet(Range(vault.owners))
    <3>1. PICK f, n : f = vault.owners /\ n = Len(vault.owners) OBVIOUS
    <3>2. IsFiniteSet({f[i] : i \in 1..n})
      <4>1. IsFiniteSet(1..n) /\ f \in [1..n -> {f[i] : i \in 1..n}] BY <2>1, <2>2, <3>1, VaultIs
      <4>2. f \in Surjection(1..n, {f[i] : i \in 1..n}) BY <4>1 DEF Surjection
      <4> QED BY <4>1, <4>2, FS_Surjection
    <3> QED BY <2>1, <3>1, <3>2 DEF Range
  <2>4. owners \subseteq Range(vault.owners) BY <1>1 DEF ApprovedBy, Owners
  <2> QED BY <2>1, <2>3, <2>4, FS_Subset, SafeOwnersAssumption
<1>6. t \in Nat \ {0} /\ Cardinality(owners) \in Nat
  BY <1>1, <1>5, FS_CardinalityType, VaultIs
<1>7. PICK n : n = Cardinality(owners) OBVIOUS
<1>8. ascending \in [1..n -> owners] /\ Ascends(ascending) /\ n \in Nat /\ t <= n
  BY <1>2, <1>4, <1>5, <1>6, <1>7, InOrderIs
<1>9. ascending \in Seq(owners) /\ Len(ascending) = n BY <1>8
<1>10. Len(signers) = t /\ \A i \in 1..t : signers[i] = ascending[i]
  BY <1>3, <1>6, <1>8, <1>9, SubSeqProperties
<1>11. Signed(HashOf(tx), signers)
  <2>1. ASSUME NEW i \in 1..t PROVE signers[i] \in Range(vault.owners) /\ <<signers[i], HashOf(tx)>> \in approvals
    <3>1. signers[i] \in owners BY <1>6, <1>8, <1>10
    <3> QED BY <1>1, <1>5, <3>1 DEF ApprovedBy
  <2>2. ASSUME NEW i \in 1..t, i > 1 PROVE signers[i - 1] < signers[i]
    <3>1. i - 1 \in 1..t /\ i \in 1..n /\ i - 1 \in 1..n /\ i - 1 < i BY <1>6, <1>8, <2>2
    <3>2. ascending[i - 1] < ascending[i] BY <1>8, <3>1 DEF Ascends
    <3> QED BY <1>10, <3>1, <3>2
  <2>3. Len(signers) >= vault.threshold BY <1>1, <1>6, <1>10
  <2> QED BY <1>1, <2>1, <2>2, <2>3 DEF Signed
<1>12. PICK draft : draft = [kind |-> "execute", tx |-> tx, by |-> 0, signers |-> signers] OBVIOUS
<1>13. draft.kind = "execute" /\ draft.tx = tx /\ draft.signers = signers BY <1>12
<1> QED BY <1>4, <1>11, <1>12, <1>13, DraftsRight

\* An approval is asked for.
LEMMA SafeApproveRight ==
  ASSUME SafeInv, NEW tx \in proposed, NEW account \in SafeAddresses, SafeApprove(tx, account) PROVE SafeInv'
<1>1. PICK draft : draft = [kind |-> "approve", tx |-> tx, by |-> account, signers |-> <<>>] OBVIOUS
<1>2. Drafts(draft) /\ draft.kind = "approve" BY <1>1 DEF SafeApprove
<1> QED BY <1>2, DraftsRight

\* What is prepared was simulated.
LEMMA PrepareDraftRight == ASSUME SafeInv, NEW op \in drafts, PrepareDraft(op) PROVE SafeInv'
<1>1. /\ drafts' \subseteq drafts /\ UNCHANGED <<vault, approvals, proposed, administered>>
      /\ prepared' \subseteq prepared \cup {op} /\ (op \in prepared' \ prepared => Simulates(op))
  BY DEF PrepareDraft
<1>2. op.kind = "execute" /\ Simulates(op) => Executes(op) BY DEF Simulates
<1> QED BY <1>1, <1>2, SafeStands

\* An approval more takes no signature away.
LEMMA ApprovalLandsRight == ASSUME SafeInv, NEW op \in prepared, ApprovalLands(op) PROVE SafeInv'
<1>1. /\ prepared' \subseteq prepared /\ approvals \subseteq approvals'
      /\ UNCHANGED <<vault, proposed, drafts, administered>>
  BY DEF ApprovalLands
<1> QED BY <1>1, SafeStands

\* A Safe of sound parts
LEMMA VaultOf ==
  ASSUME NEW w, w \in Seq(SafeAddresses), NEW t, IsSafe(w, t), NEW m, m \in Seq(Modules), NEW n,
         NEW v, v = [owners |-> w, threshold |-> t, modules |-> m, nonce |-> n]
  PROVE  VaultIsRight(v)
<1>1. v.owners = w /\ v.threshold = t /\ v.modules = m /\ v.nonce = n OBVIOUS
<1>2. IsVault(v) BY <1>1 DEF IsVault
<1> QED BY <1>1, <1>2 DEF VaultIsRight

\* A call that the contract carries out leaves a Safe.
LEMMA RanRight ==
  ASSUME NEW v, VaultIsRight(v), NEW deed, IsDeed(deed), Able(v, deed) PROVE VaultIsRight(Ran(v, deed))
<1>1. /\ IsVault(v) /\ v.owners \in Seq(SafeAddresses) /\ IsInjective(v.owners) /\ Len(v.owners) \in Nat
      /\ v.threshold \in 1..Len(v.owners) /\ v.modules \in Seq(Modules) /\ IsSafe(v.owners, v.threshold)
  BY DEF VaultIsRight, IsSafe
<1>2. PICK after : after = Ran(v, deed) OBVIOUS
<1>3. \A list, item, previous : LinkedAfter(list, previous, item) => item \in Range(list)
  BY DEF LinkedAfter, Range
<1>4. CASE deed.do = "add"
  <2>1. PICK w, t : w = <<deed.owner>> \o v.owners /\ t = deed.threshold OBVIOUS
  <2>2. deed.owner \in SafeAddresses /\ deed.owner \notin Range(v.owners) /\ t \in 1..Len(v.owners)+1
    BY <1>4, <2>1 DEF IsDeed, Able
  <2>3. w \in Seq(SafeAddresses) /\ Len(w) = Len(v.owners) + 1 /\ IsInjective(w)
    BY <1>1, <2>1, <2>2, BeforeIs
  <2>4. after = OwnersSet(v, w, t) BY <1>2, <1>4, <2>1 DEF Ran, OwnersSet
  <2>5. after = [owners |-> w, threshold |-> t, modules |-> v.modules, nonce |-> v.nonce]
    BY <1>1, <2>4, OwnersSetIs
  <2>6. IsSafe(w, t) BY <2>2, <2>3 DEF IsSafe
  <2> QED BY <1>1, <1>2, <2>3, <2>5, <2>6, VaultOf
<1>5. CASE deed.do = "remove"
  <2>1. PICK w, t : w = Dropped(v.owners, deed.owner) /\ t = deed.threshold OBVIOUS
  <2>2. deed.owner \in Range(v.owners) /\ t \in 1..Len(v.owners)-1 BY <1>3, <1>5, <2>1 DEF Able
  <2>3. w \in Seq(SafeAddresses) /\ Len(w) = Len(v.owners) - 1 /\ IsInjective(w)
    BY <1>1, <2>1, <2>2, DroppedIs
  <2>4. after = OwnersSet(v, w, t) BY <1>2, <1>5, <2>1 DEF Ran, OwnersSet
  <2>5. after = [owners |-> w, threshold |-> t, modules |-> v.modules, nonce |-> v.nonce]
    BY <1>1, <2>4, OwnersSetIs
  <2>6. IsSafe(w, t) BY <2>2, <2>3 DEF IsSafe
  <2> QED BY <1>1, <1>2, <2>3, <2>5, <2>6, VaultOf
<1>6. CASE deed.do = "swap"
  <2>1. PICK w : w = Swap(v.owners, deed.owner, deed.new) OBVIOUS
  <2>2. deed.owner \in Range(v.owners) /\ deed.new \in SafeAddresses /\ deed.new \notin Range(v.owners)
    BY <1>3, <1>6 DEF IsDeed, Able
  <2>3. w \in Seq(SafeAddresses) /\ Len(w) = Len(v.owners) /\ IsInjective(w)
    BY <1>1, <2>1, <2>2, SwapIs
  <2>4. after = [v EXCEPT !.owners = w] BY <1>2, <1>6, <2>1 DEF Ran
  <2>5. after = [owners |-> w, threshold |-> v.threshold, modules |-> v.modules, nonce |-> v.nonce]
    BY <1>1, <2>4, VaultSet
  <2>6. IsSafe(w, v.threshold) BY <1>1, <2>3 DEF IsSafe
  <2> QED BY <1>1, <1>2, <2>3, <2>5, <2>6, VaultOf
<1>7. CASE deed.do = "threshold"
  <2>1. PICK t : t = deed.threshold OBVIOUS
  <2>2. t \in 1..Len(v.owners) BY <1>7, <2>1 DEF Able
  <2>3. after = [v EXCEPT !.threshold = t] BY <1>2, <1>7, <2>1 DEF Ran
  <2>4. after = [owners |-> v.owners, threshold |-> t, modules |-> v.modules, nonce |-> v.nonce]
    BY <1>1, <2>3, VaultSet
  <2>5. IsSafe(v.owners, t) BY <1>1, <2>2 DEF IsSafe
  <2> QED BY <1>1, <1>2, <2>4, <2>5, VaultOf
<1>8. CASE deed.do = "enable"
  <2>1. PICK w : w = <<deed.module>> \o v.modules OBVIOUS
  <2>2. w \in Seq(Modules) BY <1>1, <1>8, <2>1, BeforeIs DEF IsDeed
  <2>3. after = [v EXCEPT !.modules = w] BY <1>2, <1>8, <2>1 DEF Ran
  <2>4. after = [owners |-> v.owners, threshold |-> v.threshold, modules |-> w, nonce |-> v.nonce]
    BY <1>1, <2>3, VaultSet
  <2> QED BY <1>1, <1>2, <2>2, <2>4, VaultOf
<1>9. CASE deed.do = "disable"
  <2>1. PICK w : w = Dropped(v.modules, deed.module) OBVIOUS
  <2>2. deed.module \in Range(v.modules) BY <1>3, <1>9 DEF Able
  <2>3. w \in Seq(Modules) BY <1>1, <2>1, <2>2, DroppedIs
  <2>4. after = [v EXCEPT !.modules = w] BY <1>2, <1>9, <2>1 DEF Ran
  <2>5. after = [owners |-> v.owners, threshold |-> v.threshold, modules |-> w, nonce |-> v.nonce]
    BY <1>1, <2>4, VaultSet
  <2> QED BY <1>1, <1>2, <2>3, <2>5, VaultOf
<1>10. CASE deed.do \notin {"add", "remove", "swap", "threshold", "enable", "disable"}
  BY <1>2, <1>10 DEF Ran
<1> QED BY <1>4, <1>5, <1>6, <1>7, <1>8, <1>9, <1>10

\* So do the calls of a proposal.
LEMMA RanAllRight ==
  ASSUME NEW v, VaultIsRight(v), NEW calls, AreDeeds(calls), AbleAll(v, calls) PROVE VaultIsRight(RanAll(v, calls))
<1>1. CASE Len(calls) = 0 BY <1>1 DEF RanAll
<1>2. CASE Len(calls) # 0
  <2>1. calls # <<>> BY <1>2
  <2>2. PICK v1 : v1 = Ran(v, calls[1]) OBVIOUS
  <2>3. VaultIsRight(v1) BY <2>1, <2>2, RanRight DEF AreDeeds, AbleAll
  <2>4. CASE Len(calls) = 1 BY <2>2, <2>3, <2>4 DEF RanAll
  <2>5. CASE Len(calls) # 1
    <3>1. IsDeed(calls[2]) /\ Able(v1, calls[2]) BY <2>1, <2>2, <2>5 DEF AreDeeds, AbleAll
    <3>2. VaultIsRight(Ran(v1, calls[2])) BY <2>3, <3>1, RanRight
    <3> QED BY <1>2, <2>2, <2>5, <3>2 DEF RanAll
  <2> QED BY <2>4, <2>5
<1> QED BY <1>1, <1>2

\* An execution moves the nonce, and with it whatever was proposed is of the past.
LEMMA ExecutionLandsRight == ASSUME SafeInv, NEW op \in prepared, ExecutionLands(op) PROVE SafeInv'
<1>1. prepared' \subseteq prepared /\ UNCHANGED <<approvals, proposed, drafts>> /\ op.kind = "execute"
  BY DEF ExecutionLands
<1>2. CASE ~Executes(op)
  <2>1. UNCHANGED <<vault, administered>> BY <1>2 DEF ExecutionLands
  <2> QED BY <1>1, <2>1, SafeStands
<1>3. CASE Executes(op)
  <2>1. PICK after : after = RanAll(vault, op.tx.calls) OBVIOUS
  <2>2. VaultIsRight(after)
    <3>1. VaultIsRight(vault) /\ op.tx \in proposed BY <1>1 DEF SafeInv
    <3>2. AreDeeds(op.tx.calls) BY <3>1 DEF SafeInv
    <3>3. AbleAll(vault, op.tx.calls) BY <1>3 DEF Executes
    <3> QED BY <2>1, <3>1, <3>2, <3>3, RanAllRight
  <2>3. PICK n : n = vault.nonce + 1 OBVIOUS
  <2>4. vault' = [after EXCEPT !.nonce = n] BY <1>3, <2>1, <2>3 DEF ExecutionLands
  <2>5. vault' = [owners |-> after.owners, threshold |-> after.threshold, modules |-> after.modules, nonce |-> n]
    BY <2>2, <2>4, VaultSet DEF VaultIsRight
  <2>6. vault.nonce \in Nat /\ \A tx \in proposed : tx.nonce \in Nat /\ tx.nonce <= vault.nonce BY DEF SafeInv
  <2>7. VaultIsRight(vault') /\ vault'.nonce = n BY <2>2, <2>5 DEF VaultIsRight, IsVault
  <2>8. n \in Nat /\ \A tx \in proposed : tx.nonce \in Nat /\ tx.nonce <= n /\ tx.nonce # n BY <2>3, <2>6
  <2>9. \A o \in drafts' \cup prepared' : o.kind = "execute" => o.tx \in proposed' BY <1>1 DEF SafeInv
  <2>10. PreparedRuns' BY <1>1, <2>7, <2>8, <2>9 DEF PreparedRuns
  <2>11. /\ \A tx \in proposed' : tx.nonce \in Nat /\ tx.nonce <= vault'.nonce /\ AreDeeds(tx.calls)
         /\ \A draft \in drafts' : draft.kind = "propose" => AreDeeds(draft.calls)
    BY <1>1, <2>7, <2>8 DEF SafeInv
  <2> QED BY <2>7, <2>8, <2>9, <2>10, <2>11 DEF SafeInv
<1> QED BY <1>2, <1>3

\* A sponsored operation leaves a Safe, and nothing to be said of what was proposed for another.
LEMMA SponsoredLandsRight ==
  ASSUME SafeInv, SponsoredLands PROVE SafeInv'
<1>0. PICK deed \in Administrations : Able(vault, deed) /\ vault' = Ran(vault, deed) BY DEF SponsoredLands
<1>1. /\ Able(vault, deed) /\ vault' = Ran(vault, deed) /\ administered' = TRUE
      /\ UNCHANGED <<approvals, proposed, drafts, prepared>>
  BY <1>0 DEF SponsoredLands
<1>2. IsDeed(deed) BY DEF Administrations, IsDeed
<1>3. VaultIsRight(vault') BY <1>1, <1>2, RanRight DEF SafeInv
<1>4. vault'.nonce = vault.nonce
  <2>1. PICK n : n = vault.nonce OBVIOUS
  <2>2. vault = [owners |-> vault.owners, threshold |-> vault.threshold, modules |-> vault.modules, nonce |-> n]
    BY <2>1 DEF SafeInv, VaultIsRight, IsVault
  <2> QED BY <1>1, <2>1, <2>2 DEF Ran
<1>5. PreparedRuns' BY <1>1 DEF PreparedRuns
<1> QED BY <1>1, <1>3, <1>4, <1>5 DEF SafeInv

\* Every step of the Safe keeps the invariant.
LEMMA SafeStep == SafeInv /\ [SafeNext]_safeVars => SafeInv'
<1> SUFFICES ASSUME SafeInv, [SafeNext]_safeVars PROVE SafeInv' OBVIOUS
<1>1. ASSUME UNCHANGED safeVars PROVE SafeInv' BY <1>1, SafeStands DEF safeVars
<1>2. ASSUME SafeChangeOwner PROVE SafeInv'
  BY <1>2, AddOwnerRight, RemoveOwnerRight, ReplaceOwnerRight, ChangeThresholdRight DEF SafeChangeOwner
<1>3. ASSUME NEW m \in Modules, ModulePropose(m) \/ BudgetPropose(m) PROVE SafeInv'
  BY <1>3, ModuleProposeRight, BudgetProposeRight
<1>4. ASSUME CancelProposal PROVE SafeInv' BY <1>4, CancelProposalRight
<1>5. ASSUME NEW tx \in proposed, SafeExecute(tx) PROVE SafeInv' BY <1>5, SafeExecuteRight
<1>6. ASSUME NEW tx \in proposed, NEW account \in SafeAddresses, SafeApprove(tx, account) PROVE SafeInv'
  BY <1>6, SafeApproveRight
<1>7. ASSUME NEW draft \in drafts, ProposeDraft(draft) \/ PrepareDraft(draft) PROVE SafeInv'
  BY <1>7, ProposeDraftRight, PrepareDraftRight
<1>8. ASSUME NEW op \in prepared, ApprovalLands(op) \/ ExecutionLands(op) PROVE SafeInv'
  BY <1>8, ApprovalLandsRight, ExecutionLandsRight
<1>9. ASSUME SponsoredLands PROVE SafeInv' BY <1>9, SponsoredLandsRight
<1> QED BY <1>1, <1>2, <1>3, <1>4, <1>5, <1>6, <1>7, <1>8, <1>9 DEF SafeNext

-----------------------------------------------------------------------------
\* The invariants, where their parts run
WhoSigns ==
  /\ running = "wallets" => WInv
  /\ running = "accounts" => PagesInv
  /\ running = "policies" => PoliciesInv
  /\ running = "safe" => SafeInv

\* What each part keeps, the composition keeps.
LEMMA WhoSignsStays == ASSUME WhoSigns, [InfraNext]_infraVars PROVE WhoSigns'
<1>1. UNCHANGED running BY DEF InfraNext, Only, infraVars
<1>2. ASSUME running = "wallets" PROVE WInv'
  <2>1. [WalletsNext]_walletVars BY <1>2 DEF InfraNext, Only, infraVars
  <2> QED BY <1>2, <2>1, WalletsStep DEF WhoSigns
<1>3. ASSUME running = "accounts" PROVE PagesInv'
  <2>1. [AccountsNext]_accountVars BY <1>3 DEF InfraNext, Only, infraVars
  <2> QED BY <1>3, <2>1, PagesStep DEF WhoSigns
<1>4. ASSUME running = "policies" PROVE PoliciesInv'
  <2>1. [PoliciesNext]_policyVars BY <1>4 DEF InfraNext, Only, infraVars
  <2> QED BY <1>4, <2>1, PoliciesStep DEF WhoSigns
<1>5. ASSUME running = "safe" PROVE SafeInv'
  <2>1. [SafeNext]_safeVars BY <1>5 DEF InfraNext, Only, infraVars
  <2> QED BY <1>5, <2>1, SafeStep DEF WhoSigns
<1> QED BY <1>1, <1>2, <1>3, <1>4, <1>5 DEF WhoSigns

\* What is signed is what was reviewed, by the account that is active; whoever waits for a page
\* of the browser bridge is answered, and a page that was replaced is closed; a policy bounds all
\* that is signed under its name; and a Safe transaction that was prepared, which its simulation
\* allowed, runs as the owners signed it, but for a sponsored change of the Safe meanwhile: for
\* any number of them all (wallet.ts, wallets.ts, policy.ts, signatures.ts, safe/transactions.ts,
\* execution.ts).
THEOREM OnlyTheRightSign == InfraSpec => []WalletsHold
<1>1. InfraInit => WhoSigns
  BY WalletsStart, PagesStart, PoliciesStart, SafeStart DEF InfraInit, WhoSigns
<1>2. WhoSigns /\ [InfraNext]_infraVars => WhoSigns' BY WhoSignsStays
<1>3. WhoSigns => WalletsHold
  BY WalletsHeld, PagesSettled, PoliciesBound DEF WhoSigns, WalletsHold, SafeInv
<1> QED BY <1>1, <1>2, <1>3, PTL DEF InfraSpec
=============================================================================
