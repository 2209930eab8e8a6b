----------------------------- MODULE DataLemmas -----------------------------
(***************************************************************************)
(* Lemmas about finite data that the proofs of several modules need: least *)
(* elements, and what a sum over a finite set is, which the budgets of     *)
(* policies and the baskets of stocks are. A sum is recursive, and no      *)
(* induction theorem is at hand that takes a predicate: each fact about it *)
(* is by smallest counterexample.                                          *)
(***************************************************************************)
EXTENDS Integers, FiniteSets, FiniteSetsExt, SequencesExt, FiniteSetTheorems, WellFoundedInduction, TLAPS

\* A set of naturals that is not empty has a least element.
LEMMA LeastNatural ==
  ASSUME NEW T \in SUBSET Nat, T # {} PROVE \E x \in T : \A y \in T : x <= y
<1>1. IsWellFoundedOn(OpToRel(<, Nat), Nat) BY NatLessThanWellFounded
<1>2. \E x \in T : \A y \in T : ~(<<y, x>> \in OpToRel(<, Nat)) BY <1>1, WFMin
<1>3. PICK x \in T : \A y \in T : ~(<<y, x>> \in OpToRel(<, Nat)) BY <1>2
<1>4. \A y \in T : ~(y < x)
  <2> TAKE y \in T
  <2>1. <<y, x>> \in OpToRel(<, Nat) <=> y < x BY DEF OpToRel
  <2> QED BY <1>3, <2>1
<1>5. \A y \in T : x <= y BY <1>4
<1> QED BY <1>5

\* Among sets of which some are bad, there is a bad one all of whose proper subsets are good.
LEMMA SmallestSet ==
  ASSUME NEW S, IsFiniteSet(S), NEW Bad \in SUBSET SUBSET S, Bad # {}
  PROVE  \E s \in Bad : \A t \in SUBSET s : t # s => t \notin Bad
<1> DEFINE sizes == {Cardinality(s) : s \in Bad}
<1>1. \A s \in Bad : IsFiniteSet(s) /\ Cardinality(s) \in Nat BY FS_Subset, FS_CardinalityType
<1>2. sizes \in SUBSET Nat /\ sizes # {} BY <1>1
<1>3. PICK n \in sizes : \A m \in sizes : n <= m BY <1>2, LeastNatural
<1>4. PICK s \in Bad : n = Cardinality(s) BY <1>3
<1>5. ASSUME NEW t \in SUBSET s, t # s, t \in Bad PROVE FALSE
  <2>1. Cardinality(t) < Cardinality(s) BY <1>1, <1>5, FS_Subset
  <2>2. n <= Cardinality(t) BY <1>3, <1>5
  <2> QED BY <1>1, <1>4, <1>5, <2>1, <2>2
<1> QED BY <1>5

\* SetToSeq lists all elements of a finite set, and nothing else.
LEMMA ListsAll ==
  ASSUME NEW S, IsFiniteSet(S)
  PROVE  /\ SetToSeq(S) \in Seq(S) /\ Len(SetToSeq(S)) \in Nat
         /\ \A x \in S : \E i \in 1..Len(SetToSeq(S)) : SetToSeq(S)[i] = x
<1> DEFINE n == Cardinality(S)
           s == SetToSeq(S)
<1>1. n \in Nat /\ ExistsBijection(1..n, S) BY FS_CardinalityType
<1>2. PICK g \in Bijection(1..n, S) : TRUE BY <1>1 DEF ExistsBijection
<1>3. g \in [1..n -> S] /\ IsInjective(g)
  BY <1>2 DEF Bijection, Injection, IsInjective
<1>4. s \in [1..n -> S] /\ IsInjective(s) BY <1>3 DEF SetToSeq
<1>5. s \in Seq(S) /\ Len(s) = n BY <1>1, <1>4
<1>6. s \in Injection(1..n, S) BY <1>4 DEF Injection
<1>7. IsFiniteSet(1..n) /\ Cardinality(1..n) = n BY <1>1, FS_Interval
<1> DEFINE R == {s[i] : i \in 1..n}
<1>8. R \in SUBSET S BY <1>4
<1>9. s \in Bijection(1..n, R) BY <1>4 DEF Bijection, Injection, Surjection, IsInjective
<1>10. IsFiniteSet(R) /\ Cardinality(R) = n
  <2>1. ExistsBijection(1..n, R) BY <1>9 DEF ExistsBijection
  <2> HIDE DEF R, n
  <2> QED BY <1>7, <2>1, FS_Bijection
<1>11. R = S
  <2> HIDE DEF R
  <2> QED BY <1>8, <1>10, FS_Subset
<1> QED BY <1>1, <1>5, <1>11

-----------------------------------------------------------------------------
\* The sum of a function over a finite set, as MapThenSumSet computes it
SumOver(f, S) == MapThenSumSet(LAMBDA x : f[x], S)
One(s) == CHOOSE x \in s : TRUE
Added(f, g, s) == IF s = {} THEN 0 ELSE f[One(s)] + g[s \ {One(s)}]
Adds(f, S, g) == g = [s \in SUBSET S |-> Added(f, g, s)]

\* The element that a sum takes first
LEMMA OneIsIn == ASSUME NEW s, s # {} PROVE One(s) \in s
BY DEF One

\* The recursion of a sum has a solution: by the number of elements of the sets.
LEMMA SumIsThere ==
  ASSUME NEW f, NEW S, IsFiniteSet(S)
  PROVE  \E g : Adds(f, S, g)
<1> DEFINE Upto(n, g) == /\ g \in [SUBSET S -> {g[s] : s \in SUBSET S}]
                         /\ \A s \in SUBSET S : Cardinality(s) <= n => g[s] = Added(f, g, s)
           bad == {n \in Nat : ~\E g : Upto(n, g)}
<1>1. \A s \in SUBSET S : IsFiniteSet(s) /\ Cardinality(s) \in Nat /\ Cardinality(s) <= Cardinality(S)
  BY FS_Subset, FS_CardinalityType
<1>2. \E g : Upto(0, g)
  <2> DEFINE g == [s \in SUBSET S |-> 0]
  <2>1. \A s \in SUBSET S : Cardinality(s) <= 0 => s = {} BY <1>1, FS_EmptySet
  <2>2. Upto(0, g) BY <2>1 DEF Added
  <2> QED BY <2>2
<1>3. ASSUME NEW n \in Nat, NEW g, Upto(n, g) PROVE \E h : Upto(n + 1, h)
  <2> DEFINE h == [s \in SUBSET S |-> Added(f, g, s)]
  <2>1. ASSUME NEW s \in SUBSET S, Cardinality(s) <= n + 1 PROVE h[s] = Added(f, h, s)
    <3>1. CASE s = {} BY <3>1 DEF Added
    <3>2. CASE s # {}
      <4> DEFINE t == s \ {One(s)}
      <4>1. One(s) \in s /\ t \in SUBSET S BY <3>2, OneIsIn
      <4>2. Cardinality(t) = Cardinality(s) - 1 BY <1>1, <4>1, FS_RemoveElement
      <4>3. Cardinality(t) <= n BY <1>1, <2>1, <4>1, <4>2
      <4>4. g[t] = Added(f, g, t) BY <1>3, <4>1, <4>3
      <4>5. h[t] = g[t] BY <4>1, <4>4
      <4> QED BY <3>2, <4>5 DEF Added
    <3> QED BY <3>1, <3>2
  <2>2. h \in [SUBSET S -> {h[s] : s \in SUBSET S}] OBVIOUS
  <2> HIDE DEF h
  <2>3. Upto(n + 1, h) BY <2>1, <2>2
  <2> QED BY <2>3
<1> HIDE DEF Upto
<1>4. bad = {}
  <2> SUFFICES ASSUME bad # {} PROVE FALSE OBVIOUS
  <2>1. PICK n \in bad : \A m \in bad : n <= m BY LeastNatural
  <2>2. n \in Nat /\ n # 0 /\ ~\E g : Upto(n, g) BY <1>2
  <2>3. n - 1 \in Nat /\ (n - 1) + 1 = n /\ ~(n <= n - 1) BY <2>2
  <2>4. PICK g : Upto(n - 1, g) BY <2>1, <2>3
  <2>5. \E h : Upto((n - 1) + 1, h) BY <1>3, <2>3, <2>4
  <2> QED BY <2>2, <2>3, <2>5
<1>5. PICK g : Upto(Cardinality(S), g) BY <1>1, <1>4
<1>6. /\ g \in [SUBSET S -> {g[s] : s \in SUBSET S}]
      /\ \A s \in SUBSET S : g[s] = Added(f, g, s)
  BY <1>1, <1>5 DEF Upto
<1>7. g = [s \in SUBSET S |-> Added(f, g, s)] BY <1>6
<1> QED BY <1>7 DEF Adds

\* Solutions over a set and a larger one agree on the subsets of the smaller.
LEMMA SumsAgree ==
  ASSUME NEW f, NEW S, IsFiniteSet(S), NEW g, Adds(f, S, g), NEW T, S \subseteq T, NEW h, Adds(f, T, h)
  PROVE  \A s \in SUBSET S : g[s] = h[s]
<1> DEFINE bad == {s \in SUBSET S : g[s] # h[s]}
<1> SUFFICES ASSUME bad # {} PROVE FALSE OBVIOUS
<1>1. PICK s \in bad : \A t \in SUBSET s : t # s => t \notin bad
  <2>1. bad \in SUBSET SUBSET S OBVIOUS
  <2> HIDE DEF bad
  <2> QED BY <2>1, SmallestSet
<1>2. s \in SUBSET S /\ s \in SUBSET T /\ g[s] = Added(f, g, s) /\ h[s] = Added(f, h, s) BY DEF Adds
<1>3. s # {} BY <1>2 DEF Added
<1>4. g[s \ {One(s)}] = h[s \ {One(s)}]
  <2>1. One(s) \in s BY <1>3, OneIsIn
  <2> QED BY <1>1, <1>2, <2>1
<1>5. g[s] = h[s] BY <1>2, <1>3, <1>4 DEF Added
<1> QED BY <1>5

\* The sum is what any solution says.
LEMMA SumOfIs ==
  ASSUME NEW f, NEW S, IsFiniteSet(S), NEW g, Adds(f, S, g)
  PROVE  SumOver(f, S) = g[S]
<1> DEFINE iter == CHOOSE h : h = [s \in SUBSET S |-> IF s = {} THEN 0
                      ELSE f[CHOOSE x \in s : TRUE] + h[s \ {CHOOSE x \in s : TRUE}]]
<1>1. SumOver(f, S) = iter[S] BY DEF SumOver, MapThenSumSet, MapThenFoldSet
<1>2. \E h : h = [s \in SUBSET S |-> IF s = {} THEN 0
                   ELSE f[CHOOSE x \in s : TRUE] + h[s \ {CHOOSE x \in s : TRUE}]]
  BY DEF Adds, Added, One
<1>3. Adds(f, S, iter) BY <1>2 DEF Adds, Added, One
<1> HIDE DEF iter
<1> QED BY <1>1, <1>3, SumsAgree

\* What is summed is any expression over the set, by a function of its values.
LEMMA SumStep ==
  ASSUME NEW S, IsFiniteSet(S), NEW f, \A x \in S : f[x] \in Int
  PROVE  /\ SumOver(f, {}) = 0
         /\ SumOver(f, S) \in Int
         /\ \A x \in S : SumOver(f, S) = f[x] + SumOver(f, S \ {x})
<1>1. PICK g : Adds(f, S, g) BY SumIsThere
<1>2. \A s \in SUBSET S : IsFiniteSet(s) /\ g[s] = Added(f, g, s) BY <1>1, FS_Subset DEF Adds
<1>3. ASSUME NEW s \in SUBSET S PROVE SumOver(f, s) = g[s]
  <2>1. IsFiniteSet(s) BY <1>2
  <2>2. PICK h : Adds(f, s, h) BY <2>1, SumIsThere
  <2>3. h[s] = g[s] BY <1>1, <2>1, <2>2, SumsAgree
  <2> QED BY <2>1, <2>2, <2>3, SumOfIs
<1>4. \A s \in SUBSET S : g[s] \in Int
  <2> DEFINE bad == {s \in SUBSET S : g[s] \notin Int}
  <2> SUFFICES ASSUME bad # {} PROVE FALSE OBVIOUS
  <2>1. PICK s \in bad : \A t \in SUBSET s : t # s => t \notin bad
    <3>1. bad \in SUBSET SUBSET S OBVIOUS
    <3> HIDE DEF bad
    <3> QED BY <3>1, SmallestSet
  <2>2. s \in SUBSET S /\ g[s] \notin Int /\ g[s] = Added(f, g, s) BY <1>2
  <2>3. s # {} BY <2>2 DEF Added
  <2>4. One(s) \in s /\ One(s) \in S BY <2>2, <2>3, OneIsIn
  <2>5. g[s \ {One(s)}] \in Int BY <2>1, <2>2, <2>4
  <2>6. g[s] = f[One(s)] + g[s \ {One(s)}] BY <2>2, <2>3 DEF Added
  <2>7. f[One(s)] \in Int BY <2>4
  <2> QED BY <2>2, <2>5, <2>6, <2>7
<1> DEFINE Right(s) == \A x \in s : g[s] = f[x] + g[s \ {x}]
           bad == {s \in SUBSET S : ~Right(s)}
<1>5. bad = {}
  <2> SUFFICES ASSUME bad # {} PROVE FALSE OBVIOUS
  <2>1. PICK s \in bad : \A t \in SUBSET s : t # s => t \notin bad
    <3>1. bad \in SUBSET SUBSET S OBVIOUS
    <3> HIDE DEF bad
    <3> QED BY <3>1, SmallestSet
  <2>2. s \in SUBSET S /\ ~Right(s) OBVIOUS
  <2>3. PICK x \in s : g[s] # f[x] + g[s \ {x}] BY <2>2
  <2> DEFINE p == One(s)
             t == s \ {p}
             u == s \ {x}
             both == t \ {x}
  <2>4. p \in s /\ g[s] = f[p] + g[t] BY <1>2, <2>2, OneIsIn DEF Added
  <2>5. p # x BY <2>3, <2>4
  <2>6. t \in SUBSET S /\ t \in SUBSET s /\ t # s /\ u \in SUBSET S /\ u \in SUBSET s /\ u # s BY <2>2, <2>4
  <2>7. Right(t) /\ Right(u) BY <2>1, <2>6
  <2>8. x \in t /\ p \in u /\ u \ {p} = both BY <2>4, <2>5
  <2>9. g[t] = f[x] + g[both] /\ g[u] = f[p] + g[both] BY <2>7, <2>8
  <2>10. both \in SUBSET S BY <2>2
  <2>11. f[x] \in Int /\ f[p] \in Int /\ g[both] \in Int BY <1>4, <2>2, <2>4, <2>10
  <2>12. g[s] # f[x] + g[u] BY <2>3
  <2> HIDE DEF p, t, u, both
  <2> QED BY <2>4, <2>9, <2>11, <2>12
<1>6. \A x \in S : g[S] = f[x] + g[S \ {x}] BY <1>5
<1>7. g[{}] = 0 BY <1>2 DEF Added
<1> QED BY <1>3, <1>4, <1>6, <1>7

\* Sums of naturals: they are naturals, grow with the set, and with what is summed.
LEMMA SumGrows ==
  ASSUME NEW S, IsFiniteSet(S), NEW f, \A x \in S : f[x] \in Nat, NEW T \in SUBSET S
  PROVE  SumOver(f, T) \in Nat /\ SumOver(f, S) \in Nat /\ SumOver(f, T) <= SumOver(f, S)
<1>1. \A s \in SUBSET S : IsFiniteSet(s) BY FS_Subset
<1>2. \A s \in SUBSET S : \A x \in s : SumOver(f, s) = f[x] + SumOver(f, s \ {x}) BY <1>1, SumStep
<1>3. SumOver(f, {}) = 0 /\ \A s \in SUBSET S : SumOver(f, s) \in Int BY <1>1, SumStep
<1> DEFINE sum(s) == SumOver(f, s)
           bad == {s \in SUBSET S : ~(sum(s) \in Nat /\ \A t \in SUBSET s : sum(t) \in Nat /\ sum(t) <= sum(s))}
<1> HIDE DEF sum
<1>4. bad = {}
  <2> SUFFICES ASSUME bad # {} PROVE FALSE OBVIOUS
  <2>1. PICK s \in bad : \A t \in SUBSET s : t # s => t \notin bad
    <3>1. bad \in SUBSET SUBSET S OBVIOUS
    <3> HIDE DEF bad
    <3> QED BY <3>1, SmallestSet
  <2>2. s \in SUBSET S OBVIOUS
  <2>3. ASSUME NEW x \in s PROVE sum(s) \in Nat /\ \A t \in SUBSET (s \ {x}) : sum(t) \in Nat /\ sum(t) <= sum(s)
    <3>1. sum(s) = f[x] + sum(s \ {x}) BY <1>2 DEF sum
    <3>2. s \ {x} \notin bad /\ s \ {x} \in SUBSET S BY <2>1
    <3>3. sum(s \ {x}) \in Nat /\ \A t \in SUBSET (s \ {x}) : sum(t) \in Nat /\ sum(t) <= sum(s \ {x}) BY <3>2
    <3>4. f[x] \in Nat OBVIOUS
    <3> QED BY <3>1, <3>3, <3>4
  <2>4. sum(s) \in Nat
    <3>1. CASE s = {} BY <1>3, <3>1 DEF sum
    <3>2. CASE s # {} BY <2>3, <3>2
    <3> QED BY <3>1, <3>2
  <2>5. ASSUME NEW t \in SUBSET s PROVE sum(t) \in Nat /\ sum(t) <= sum(s)
    <3>1. CASE t = s BY <2>4, <3>1
    <3>2. CASE t # s
      <4>1. PICK x \in s : x \notin t BY <3>2
      <4> QED BY <2>3, <4>1
    <3> QED BY <3>1, <3>2
  <2> QED BY <2>4, <2>5
<1>5. sum(S) \in Nat /\ sum(T) \in Nat /\ sum(T) <= sum(S) BY <1>4
<1> QED BY <1>5 DEF sum

\* Sums of less are less.
LEMMA SumIsLess ==
  ASSUME NEW S, IsFiniteSet(S), NEW f, NEW g, \A x \in S : f[x] \in Int /\ g[x] \in Int /\ f[x] <= g[x]
  PROVE  SumOver(f, S) \in Int /\ SumOver(g, S) \in Int /\ SumOver(f, S) <= SumOver(g, S)
<1>1. \A s \in SUBSET S : IsFiniteSet(s) BY FS_Subset
<1>2. \A s \in SUBSET S : \A x \in s : /\ SumOver(f, s) = f[x] + SumOver(f, s \ {x})
                                       /\ SumOver(g, s) = g[x] + SumOver(g, s \ {x})
  BY <1>1, SumStep
<1>3. /\ SumOver(f, {}) = 0 /\ SumOver(g, {}) = 0
      /\ \A s \in SUBSET S : SumOver(f, s) \in Int /\ SumOver(g, s) \in Int
  BY <1>1, SumStep
<1> DEFINE bad == {s \in SUBSET S : ~(SumOver(f, s) <= SumOver(g, s))}
<1>4. bad = {}
  <2> SUFFICES ASSUME bad # {} PROVE FALSE OBVIOUS
  <2>1. PICK s \in bad : \A t \in SUBSET s : t # s => t \notin bad
    <3>1. bad \in SUBSET SUBSET S OBVIOUS
    <3> HIDE DEF bad
    <3> QED BY <3>1, SmallestSet
  <2>2. s \in SUBSET S /\ ~(SumOver(f, s) <= SumOver(g, s)) OBVIOUS
  <2>3. s # {} BY <1>3, <2>2
  <2>4. PICK x \in s : TRUE BY <2>3
  <2>5. s \ {x} \notin bad /\ s \ {x} \in SUBSET S BY <2>1
  <2>6. SumOver(f, s \ {x}) <= SumOver(g, s \ {x}) BY <2>5
  <2>7. /\ SumOver(f, s) = f[x] + SumOver(f, s \ {x}) /\ SumOver(g, s) = g[x] + SumOver(g, s \ {x})
        /\ SumOver(f, s \ {x}) \in Int /\ SumOver(g, s \ {x}) \in Int
    BY <1>2, <1>3, <2>5
  <2>8. f[x] \in Int /\ g[x] \in Int /\ f[x] <= g[x] OBVIOUS
  <2> QED BY <2>2, <2>6, <2>7, <2>8
<1> QED BY <1>3, <1>4

\* Shares of an amount, each rounded down, add up to no more than it.
LEMMA SharesAddUpToLess ==
  ASSUME NEW S, IsFiniteSet(S), NEW f, \A x \in S : f[x] \in Nat,
         NEW amount \in Nat, NEW whole \in Nat \ {0}, whole = SumOver(f, S),
         NEW g, \A x \in S : g[x] = (amount * f[x]) \div whole
  PROVE  SumOver(g, S) \in Nat /\ SumOver(g, S) <= amount
<1>1. \A s \in SUBSET S : IsFiniteSet(s) BY FS_Subset
<1>2. ASSUME NEW x \in S PROVE g[x] \in Nat /\ g[x] * whole <= amount * f[x]
  <2> DEFINE p == amount * f[x]
             q == p \div whole
  <2>1. p \in Nat /\ g[x] = q OBVIOUS
  <2> HIDE DEF p
  <2>2. q \in Nat /\ q * whole <= p BY <2>1
  <2> QED BY <2>1, <2>2 DEF p
<1>20. \A x \in S : f[x] \in Int /\ g[x] \in Int BY <1>2
<1>3. \A s \in SUBSET S : \A x \in s : /\ SumOver(f, s) = f[x] + SumOver(f, s \ {x})
                                       /\ SumOver(g, s) = g[x] + SumOver(g, s \ {x})
  BY <1>1, <1>20, SumStep
<1>4. /\ SumOver(f, {}) = 0 /\ SumOver(g, {}) = 0
      /\ \A s \in SUBSET S : SumOver(f, s) \in Nat /\ SumOver(g, s) \in Nat
  BY <1>1, <1>2, SumStep, SumGrows
<1> DEFINE bad == {s \in SUBSET S : ~(SumOver(g, s) * whole <= amount * SumOver(f, s))}
<1>5. bad = {}
  <2> SUFFICES ASSUME bad # {} PROVE FALSE OBVIOUS
  <2>1. PICK s \in bad : \A t \in SUBSET s : t # s => t \notin bad
    <3>1. bad \in SUBSET SUBSET S OBVIOUS
    <3> HIDE DEF bad
    <3> QED BY <3>1, SmallestSet
  <2>2. s \in SUBSET S /\ ~(SumOver(g, s) * whole <= amount * SumOver(f, s)) OBVIOUS
  <2>3. s # {}
    <3>1. 0 * whole <= amount * 0 OBVIOUS
    <3> QED BY <1>4, <2>2, <3>1
  <2>4. PICK x \in s : TRUE BY <2>3
  <2>5. s \ {x} \notin bad /\ s \ {x} \in SUBSET S BY <2>1
  <2> DEFINE a == SumOver(f, s \ {x})
             b == SumOver(g, s \ {x})
  <2>6. b * whole <= amount * a BY <2>5
  <2>7. SumOver(f, s) = f[x] + a /\ SumOver(g, s) = g[x] + b /\ a \in Nat /\ b \in Nat BY <1>3, <1>4, <2>5
  <2>8. f[x] \in Nat /\ g[x] \in Nat /\ g[x] * whole <= amount * f[x] BY <1>2
  <2> HIDE DEF a, b
  <2>9. (g[x] + b) * whole = g[x] * whole + b * whole BY <2>7, <2>8
  <2>10. amount * (f[x] + a) = amount * f[x] + amount * a BY <2>7, <2>8
  <2>11. /\ g[x] * whole \in Nat /\ b * whole \in Nat /\ amount * f[x] \in Nat /\ amount * a \in Nat
    BY <2>7, <2>8
  <2>12. SumOver(g, s) * whole <= amount * SumOver(f, s)
    BY <2>6, <2>7, <2>8, <2>9, <2>10, <2>11
  <2> QED BY <2>2, <2>12
<1>6. SumOver(g, S) * whole <= amount * whole /\ SumOver(g, S) \in Nat BY <1>4, <1>5
<1> DEFINE sum == SumOver(g, S)
<1> HIDE DEF sum
<1>7. sum \in Nat /\ sum * whole <= amount * whole => sum <= amount OBVIOUS
<1> QED BY <1>6, <1>7 DEF sum

\* A sum of nothing but zeros is zero.
LEMMA NoneAddUp ==
  ASSUME NEW S, IsFiniteSet(S), NEW f, \A x \in S : f[x] = 0
  PROVE  SumOver(f, S) = 0
<1>1. \A s \in SUBSET S : IsFiniteSet(s) BY FS_Subset
<1>2. SumOver(f, {}) = 0 BY <1>1, SumStep
<1>3. \A s \in SUBSET S : \A x \in s : SumOver(f, s) = f[x] + SumOver(f, s \ {x}) BY <1>1, SumStep
<1> DEFINE bad == {s \in SUBSET S : SumOver(f, s) # 0}
<1>4. bad = {}
  <2> SUFFICES ASSUME bad # {} PROVE FALSE OBVIOUS
  <2>1. PICK s \in bad : \A t \in SUBSET s : t # s => t \notin bad
    <3>1. bad \in SUBSET SUBSET S OBVIOUS
    <3> HIDE DEF bad
    <3> QED BY <3>1, SmallestSet
  <2>2. s \in SUBSET S /\ SumOver(f, s) # 0 OBVIOUS
  <2>3. PICK x \in s : TRUE BY <1>2, <2>2
  <2>4. s \ {x} \notin bad /\ s \ {x} \in SUBSET S BY <2>1
  <2>5. SumOver(f, s \ {x}) = 0 BY <2>4
  <2>6. SumOver(f, s) = 0 + 0 BY <1>3, <2>2, <2>5
  <2> QED BY <2>2, <2>6
<1> QED BY <1>4
=============================================================================
