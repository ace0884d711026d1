--------------------------- MODULE PlanningProofs ---------------------------
(***************************************************************************)
(* Proofs about what a refresh plans.  Ordering, for every finite graph:   *)
(* counting predecessors down blocks what cycles block and nothing else,   *)
(* the search for strongly connected components reports exactly the items  *)
(* on a cycle, and the one for the cycle of an item finds a shortest one.  *)
(* Selection, for every set of resources, leaves and combinations of them: *)
(* selectors match what their formulas say, and requests that are merged   *)
(* do what each of them asked for.                                         *)
(***************************************************************************)
EXTENDS Ordering, Selection, FiniteSetTheorems, SequenceTheorems, WellFoundedInduction,
        TLAPS

----------------------------------------------------------------------------
(* Graphs                                                                   *)

\* x is y, or requires it directly or not.
Reaches(g, x, y) == y = x \/ y \in Ancestors(g, x)

\* No item of S requires one outside.
ClosedUnder(g, S) == \A i \in S : g[i] \subseteq S

\* x and y are on a common cycle, or the same.
Together(g, x, y) == Reaches(g, x, y) /\ Reaches(g, y, x)

LEMMA AncestorsTake ==
  ASSUME NEW g \in [Items -> SUBSET Items], NEW i \in Items
  PROVE  /\ Ancestors(g, i) \subseteq Items
         /\ g[i] \subseteq Ancestors(g, i)
         /\ \A p \in Ancestors(g, i) : g[p] \subseteq Ancestors(g, i)
         /\ \A S \in SUBSET Items :
              g[i] \subseteq S /\ ClosedUnder(g, S) => Ancestors(g, i) \subseteq S
<1>1. Ancestors(g, i) \subseteq Items
  BY DEF Ancestors
<1>2. g[i] \subseteq Ancestors(g, i)
  BY DEF Ancestors
<1>3. ASSUME NEW p \in Ancestors(g, i), NEW q \in g[p]
      PROVE  q \in Ancestors(g, i)
  <2>1. p \in Items /\ q \in Items
    BY <1>1
  <2> QED BY <2>1 DEF Ancestors
<1>4. ASSUME NEW S \in SUBSET Items, g[i] \subseteq S, ClosedUnder(g, S)
      PROVE  Ancestors(g, i) \subseteq S
  BY <1>4 DEF Ancestors, ClosedUnder
<1> QED BY <1>1, <1>2, <1>3, <1>4

LEMMA ReachesStays ==
  ASSUME NEW g \in [Items -> SUBSET Items], NEW S \in SUBSET Items, ClosedUnder(g, S),
         NEW x \in S, NEW y, Reaches(g, x, y)
  PROVE  y \in S
BY AncestorsTake DEF Reaches, ClosedUnder

LEMMA ReachesEdge ==
  ASSUME NEW g \in [Items -> SUBSET Items], NEW x \in Items, NEW y \in g[x]
  PROVE  Reaches(g, x, y)
BY AncestorsTake DEF Reaches

LEMMA ReachesOn ==
  ASSUME NEW g \in [Items -> SUBSET Items], NEW x \in Items, NEW y \in Items, NEW z,
         Reaches(g, x, y), Reaches(g, y, z)
  PROVE  Reaches(g, x, z)
<1>1. CASE y = x
  BY <1>1
<1>2. CASE y \in Ancestors(g, x)
  <2>1. ClosedUnder(g, Ancestors(g, x)) /\ Ancestors(g, x) \in SUBSET Items
    BY AncestorsTake DEF ClosedUnder
  <2>2. z \in Ancestors(g, x)
    BY <1>2, <2>1, ReachesStays
  <2> QED BY <2>2 DEF Reaches
<1> QED BY <1>1, <1>2 DEF Reaches

LEMMA ReachesItems ==
  ASSUME NEW g \in [Items -> SUBSET Items], NEW x \in Items, NEW y, Reaches(g, x, y)
  PROVE  y \in Items
BY AncestorsTake DEF Reaches

\* An item is on a cycle if it requires itself, or is together with another.
LEMMA CyclicMeans ==
  ASSUME NEW g \in [Items -> SUBSET Items], NEW x \in Items
  PROVE  /\ x \in Cyclic(g) <=> x \in Ancestors(g, x)
         /\ x \in Cyclic(g) <=> x \in g[x] \/ \E y \in Items \ {x} : Together(g, x, y)
<1>1. x \in Cyclic(g) <=> x \in Ancestors(g, x)
  BY DEF Cyclic
<1>2. x \in g[x] => x \in Ancestors(g, x)
  BY AncestorsTake
<1>3. ASSUME NEW y \in Items \ {x}, Together(g, x, y)
      PROVE  x \in Ancestors(g, x)
  <2>1. y \in Ancestors(g, x) /\ x \in Ancestors(g, y)
    BY <1>3 DEF Together, Reaches
  <2>2. ClosedUnder(g, Ancestors(g, x)) /\ Ancestors(g, x) \in SUBSET Items
    BY AncestorsTake DEF ClosedUnder
  <2>3. Reaches(g, y, x)
    BY <2>1 DEF Reaches
  <2> QED BY <2>1, <2>2, <2>3, ReachesStays
<1>4. ASSUME x \in Ancestors(g, x), x \notin g[x]
      PROVE  \E y \in Items \ {x} : Together(g, x, y)
  <2> DEFINE S == {p \in Items : x \notin Ancestors(g, p)} \ {x}
  <2>1. PICK p \in g[x] : x \in Ancestors(g, p)
    <3>1. SUFFICES ASSUME \A p \in g[x] : x \notin Ancestors(g, p)
                   PROVE  FALSE
      OBVIOUS
    <3>2. g[x] \subseteq S /\ S \in SUBSET Items
      BY <1>4, <3>1
    <3>3. ASSUME NEW p \in S, NEW q \in g[p]
          PROVE  q \in S
      <4>1. p \in Items /\ q \in Items /\ x \notin Ancestors(g, p)
        OBVIOUS
      <4>2. q \in Ancestors(g, p) /\ ClosedUnder(g, Ancestors(g, p))
              /\ Ancestors(g, p) \in SUBSET Items
        BY <4>1, AncestorsTake DEF ClosedUnder
      <4>3. q # x /\ x \notin Ancestors(g, q)
        BY <4>1, <4>2, ReachesStays DEF Reaches
      <4> QED BY <4>1, <4>3
    <3>4. ClosedUnder(g, S)
      BY <3>3 DEF ClosedUnder
    <3>5. Ancestors(g, x) \subseteq S
      BY <3>2, <3>4, AncestorsTake
    <3> QED BY <1>4, <3>5
  <2>2. p \in Items \ {x} /\ p \in Ancestors(g, x)
    BY <1>4, AncestorsTake
  <2> QED BY <2>1, <2>2 DEF Together, Reaches
<1> QED BY <1>1, <1>2, <1>3, <1>4

(* A set of items each of which requires another one of them has a cycle. *)
LEMMA RequiringMeetsCycle ==
  ASSUME NEW g \in [Items -> SUBSET Items], NEW P \in SUBSET Items, P # {},
         \A d \in P : g[d] \cap P # {}
  PROVE  P \cap Cyclic(g) # {}
<1> DEFINE T == {Ancestors(g, d) : d \in P}
<1>1. IsWellFoundedOn(StrictSubsetOrdering(Items), SUBSET Items)
  BY ItemsAssumption, FS_StrictSubsetOrderingWellFounded, FS_FiniteSubsetsOfFinite
<1>2. \A d \in P : Ancestors(g, d) \subseteq Items
  BY DEF Ancestors
<1>3. T \subseteq SUBSET Items /\ T # {}
  BY <1>2
<1>4. PICK A \in T : \A B \in T : ~ (<<B, A>> \in StrictSubsetOrdering(Items))
  BY <1>1, <1>3, WFMin
<1>5. PICK d \in P : A = Ancestors(g, d)
  OBVIOUS
<1>6. PICK p \in P : p \in g[d]
  OBVIOUS
<1>7. p \in Ancestors(g, d)
  BY <1>6, AncestorsTake
<1>8. Ancestors(g, p) \subseteq Ancestors(g, d)
  <2>1. g[p] \subseteq Ancestors(g, d) /\ ClosedUnder(g, Ancestors(g, d))
        /\ Ancestors(g, d) \in SUBSET Items
    BY <1>7, AncestorsTake DEF ClosedUnder
  <2> QED BY <2>1, AncestorsTake
<1>9. Ancestors(g, p) = Ancestors(g, d)
  BY <1>2, <1>4, <1>5, <1>8 DEF StrictSubsetOrdering
<1> QED BY <1>7, <1>9 DEF Cyclic

----------------------------------------------------------------------------
(* Sequences without repetition                                             *)

\* q lists the members of S, each once.
Lists(q, S) ==
    /\ q \in Seq(S) /\ \A i \in S : \E k \in 1..Len(q) : q[k] = i
    /\ \A k, l \in 1..Len(q) : q[k] = q[l] => k = l

LEMMA ItemsFinite ==
  ASSUME NEW S, S \subseteq Items
  PROVE  IsFiniteSet(S) /\ Cardinality(S) \in Nat /\ S \subseteq Nat
BY ItemsAssumption, FS_Subset, FS_CardinalityType

\* A loop over a set meets each of its members once: as many are less than the
\* k-th of them as come before it.
LEMMA AscendingLists ==
  ASSUME NEW S, S \subseteq Items
  PROVE  Lists(Ascending(S), S)
<1> DEFINE n == Cardinality(S)
           Less(i) == {j \in S : j < i}
           rank == [i \in S |-> Cardinality(Less(i)) + 1]
           q == Ascending(S)
<1>1. IsFiniteSet(S) /\ n \in Nat /\ S \subseteq Nat
  BY ItemsFinite
<1>2. \A i \in S : IsFiniteSet(Less(i)) /\ Cardinality(Less(i)) \in Nat
  BY ItemsFinite
<1>3. ASSUME NEW i \in S
      PROVE  Cardinality(Less(i)) < n
  <2>1. Less(i) \subseteq S /\ i \in S \ Less(i)
    BY <1>1
  <2> HIDE DEF Less
  <2>2. Cardinality(Less(i)) <= n /\ Cardinality(Less(i)) # n
    BY <1>1, <2>1, FS_Subset
  <2> QED BY <1>1, <1>2, <2>2
<1>4. ASSUME NEW i \in S, NEW j \in S, i < j
      PROVE  Cardinality(Less(i)) < Cardinality(Less(j))
  <2>1. /\ \A m \in S : m < i => m < j
        /\ ~(i < i)
    BY <1>1, <1>4
  <2>2. Less(i) \subseteq Less(j) /\ i \in Less(j) \ Less(i)
    BY <1>4, <2>1
  <2> HIDE DEF Less
  <2>3. Cardinality(Less(i)) <= Cardinality(Less(j)) /\ Cardinality(Less(i)) # Cardinality(Less(j))
    BY <1>2, <2>2, FS_Subset
  <2> QED BY <1>2, <2>3
<1>5. \A i, j \in S : Cardinality(Less(i)) = Cardinality(Less(j)) => i = j
  BY <1>1, <1>2, <1>4
<1> HIDE DEF Less
<1>6. rank \in Injection(S, 1..n)
  <2>1. \A i \in S : rank[i] \in 1..n
    BY <1>1, <1>2, <1>3
  <2>2. \A i, j \in S : rank[i] = rank[j] => i = j
    BY <1>2, <1>5
  <2> QED BY <2>1, <2>2 DEF Injection, IsInjective
<1>7. IsFiniteSet(1..n) /\ Cardinality(1..n) = n
  <2>1. Cardinality(1..n) = IF 1 > n THEN 0 ELSE n - 1 + 1
    BY <1>1, FS_Interval
  <2> QED BY <1>1, <2>1, FS_Interval
<1>8. rank \in Surjection(S, 1..n)
  BY <1>6, <1>7, FS_Injection
<1>9. \A k \in 1..n : \E i \in S : Cardinality(Less(i)) = k - 1
  <2> SUFFICES ASSUME NEW k \in 1..n
               PROVE  \E i \in S : Cardinality(Less(i)) = k - 1
    OBVIOUS
  <2>1. PICK i \in S : rank[i] = k
    BY <1>8 DEF Surjection
  <2> QED BY <1>1, <1>2, <2>1
<1>10. q = [k \in 1..n |-> CHOOSE i \in S : Cardinality(Less(i)) = k - 1]
  BY DEF Ascending, Less
<1> HIDE DEF q
<1>11. \A k \in 1..n : q[k] \in S /\ Cardinality(Less(q[k])) = k - 1
  BY <1>9, <1>10
<1>12. q \in Seq(S) /\ Len(q) = n
  <2>1. q \in [1..n -> S]
    BY <1>10, <1>11
  <2> QED BY <1>1, <2>1
<1>13. \A i \in S : \E k \in 1..n : q[k] = i
  <2> SUFFICES ASSUME NEW i \in S PROVE \E k \in 1..n : q[k] = i
    OBVIOUS
  <2>1. PICK k \in 1..n : k - 1 = Cardinality(Less(i))
    BY <1>1, <1>2, <1>3
  <2>2. q[k] \in S /\ Cardinality(Less(q[k])) = Cardinality(Less(i))
    BY <1>11, <2>1
  <2> QED BY <1>5, <2>2
<1>14. \A k, l \in 1..n : q[k] = q[l] => k = l
  BY <1>1, <1>11
<1> QED BY <1>12, <1>13, <1>14 DEF Lists, q

\* The queue after its head was taken and others were appended.
LEMMA QueueMoves ==
  ASSUME NEW S, NEW T, NEW q, NEW t, Lists(q, S), Lists(t, T), q # <<>>, S \cap T = {}
  PROVE  Head(q) \in S /\ Lists(Tail(q) \o t, (S \ {Head(q)}) \cup T)
<1> DEFINE h == Head(q)
           u == Tail(q)
           R == (S \ {h}) \cup T
           w == u \o t
<1>1. /\ q \in Seq(S) /\ t \in Seq(T) /\ Len(q) \in Nat \ {0} /\ Len(t) \in Nat
      /\ \A k \in 1..Len(q) : q[k] \in S
      /\ \A k \in 1..Len(t) : t[k] \in T
  BY EmptySeq, LenProperties, ElementOfSeq DEF Lists
<1>2. /\ h \in S /\ h = q[1] /\ u \in Seq(S) /\ Len(u) = Len(q) - 1 /\ Len(u) \in Nat
      /\ \A k \in 1..Len(u) : u[k] = q[k + 1]
  BY <1>1, HeadTailProperties
<1>3. \A k \in 1..Len(u) : u[k] \in S \ {h}
  BY <1>1, <1>2 DEF Lists
<1>4. u \in Seq(R) /\ t \in Seq(R)
  <2>1. u \in [1..Len(u) -> R] /\ t \in [1..Len(t) -> R]
    BY <1>1, <1>2, <1>3, LenProperties
  <2> HIDE DEF R, h, u
  <2>2. \A m \in Nat : \A f \in [1..m -> R] : f \in Seq(R)
    BY SeqDef
  <2> QED BY <1>1, <1>2, <2>1, <2>2
<1>5. /\ w \in Seq(R) /\ Len(w) = Len(u) + Len(t)
      /\ \A k \in 1..Len(w) : w[k] = IF k <= Len(u) THEN u[k] ELSE t[k - Len(u)]
  BY <1>4, ConcatProperties
<1>6. Len(u) \in Nat /\ Len(t) \in Nat /\ 1..Len(w) = 1..(Len(u) + Len(t))
  BY <1>1, <1>2, <1>5
<1>7. \A k \in 1..Len(u) : k \in 1..Len(w) /\ w[k] = u[k]
  BY <1>5, <1>6
<1>8. ASSUME NEW k \in 1..Len(t)
      PROVE  k + Len(u) \in 1..Len(w) /\ w[k + Len(u)] = t[k]
  <2>1. k + Len(u) \in 1..Len(w) /\ ~(k + Len(u) <= Len(u)) /\ (k + Len(u)) - Len(u) = k
    BY <1>6
  <2> QED BY <1>5, <2>1
<1>9. ASSUME NEW k \in 1..Len(w), k > Len(u)
      PROVE  k - Len(u) \in 1..Len(t) /\ w[k] = t[k - Len(u)]
  <2>1. k - Len(u) \in 1..Len(t) /\ ~(k <= Len(u))
    BY <1>6, <1>9
  <2> QED BY <1>5, <2>1
<1>10. ASSUME NEW k \in 1..Len(w), k <= Len(u)
       PROVE  k \in 1..Len(u) /\ w[k] = u[k]
  BY <1>5, <1>6, <1>10
<1> HIDE DEF R, h, u, w
<1>11. ASSUME NEW i \in R
       PROVE  \E k \in 1..Len(w) : w[k] = i
  <2>1. CASE i \in T
    <3>1. PICK k \in 1..Len(t) : t[k] = i
      BY <2>1 DEF Lists
    <3> QED BY <1>8, <3>1
  <2>2. CASE i \in S \ {h}
    <3>1. PICK k \in 1..Len(q) : q[k] = i
      BY <2>2 DEF Lists
    <3>2. k # 1
      BY <1>2, <2>2, <3>1
    <3>3. k - 1 \in 1..Len(u) /\ u[k - 1] = q[k]
      BY <1>1, <1>2, <3>2
    <3> QED BY <1>7, <3>1, <3>3
  <2> QED BY <2>1, <2>2 DEF R
<1>12. ASSUME NEW k \in 1..Len(w), NEW l \in 1..Len(w), w[k] = w[l]
       PROVE  k = l
  <2>1. CASE k <= Len(u) /\ l <= Len(u)
    <3>1. q[k + 1] = q[l + 1] /\ k + 1 \in 1..Len(q) /\ l + 1 \in 1..Len(q)
      BY <1>1, <1>2, <1>10, <1>12, <2>1
    <3>2. k + 1 = l + 1
      BY <3>1 DEF Lists
    <3> QED BY <3>2
  <2>2. CASE k > Len(u) /\ l > Len(u)
    <3>1. /\ t[k - Len(u)] = t[l - Len(u)]
          /\ k - Len(u) \in 1..Len(t) /\ l - Len(u) \in 1..Len(t)
      BY <1>9, <1>12, <2>2
    <3>2. k - Len(u) = l - Len(u)
      BY <3>1 DEF Lists
    <3> QED BY <1>6, <3>2
  <2>3. CASE k <= Len(u) /\ l > Len(u)
    <3>1. w[k] \in S /\ w[l] \in T
      BY <1>1, <1>3, <1>9, <1>10, <2>3
    <3> QED BY <1>12, <3>1
  <2>4. CASE k > Len(u) /\ l <= Len(u)
    <3>1. w[k] \in T /\ w[l] \in S
      BY <1>1, <1>3, <1>9, <1>10, <2>4
    <3> QED BY <1>12, <3>1
  <2> QED BY <1>6, <2>1, <2>2, <2>3, <2>4
<1> QED BY <1>2, <1>5, <1>11, <1>12 DEF Lists, R, h, u, w

----------------------------------------------------------------------------
(* Counting predecessors down                                               *)

Queued == {i \in Items : \E k \in 1..Len(ready) : ready[k] = i}
Processed == {i \in Items : remaining[i] = 0} \ Queued

GraphInv ==
    /\ before \in [Items -> SUBSET Items]
    /\ phase \in {"count", "components", "cycle", "path", "done"}

\* The counters count what is not processed, and the queue has what waits for
\* nothing else.  What is processed is on no cycle.
CountInv ==
    phase = "count" =>
        /\ remaining \in [Items -> Nat]
        /\ \A i \in Items : remaining[i] = Cardinality(before[i] \ Processed)
        /\ Lists(ready, Queued) /\ \A i \in Queued : remaining[i] = 0
        /\ Processed \cap Cyclic(before) = {}
        /\ blocked = {} /\ components = {}
        /\ indexOf = <<>> /\ low = <<>> /\ stack = <<>> /\ work = <<>>

\* What is not blocked requires nothing that is, and is on no cycle; what is
\* blocked requires something that is.
BlockedInv ==
    phase # "count" =>
        /\ blocked \subseteq Items
        /\ ClosedUnder(before, Items \ blocked)
        /\ Cyclic(before) \subseteq blocked
        /\ \A i \in blocked : before[i] \cap blocked # {}

LEMMA ListsQueued ==
  ASSUME NEW S \in SUBSET Items, Lists(ready, S)
  PROVE  Queued = S
<1>1. \A k \in 1..Len(ready) : ready[k] \in S
  BY ElementOfSeq DEF Lists
<1> QED BY <1>1 DEF Queued, Lists

LEMMA InitCounts == Init => GraphInv /\ CountInv /\ BlockedInv
<1> SUFFICES ASSUME Init PROVE GraphInv /\ CountInv /\ BlockedInv
  OBVIOUS
<1> DEFINE free == {i \in Items : before[i] = {}}
<1>1. /\ before \in [Items -> SUBSET Items] /\ phase = "count"
      /\ remaining = [i \in Items |-> Cardinality(before[i])] /\ ready = Ascending(free)
      /\ blocked = {} /\ components = {}
      /\ indexOf = <<>> /\ low = <<>> /\ stack = <<>> /\ work = <<>>
  BY PlansAssumption DEF Init
<1>2. Lists(ready, Queued) /\ Queued = free
  BY <1>1, AscendingLists, ListsQueued
<1>3. \A i \in Items : IsFiniteSet(before[i]) /\ Cardinality(before[i]) \in Nat
  BY <1>1, ItemsFinite
<1>4. \A i \in Items : remaining[i] = 0 <=> before[i] = {}
  BY <1>1, <1>3, FS_EmptySet
<1>5. Processed = {}
  BY <1>2, <1>4 DEF Processed
<1>6. remaining \in [Items -> Nat]
  BY <1>1, <1>3
<1>7. \A i \in Items : before[i] \ Processed = before[i]
  BY <1>5
<1>8. GraphInv /\ BlockedInv
  BY <1>1 DEF GraphInv, BlockedInv
<1>9. CountInv
  BY <1>1, <1>2, <1>4, <1>5, <1>6, <1>7 DEF CountInv
<1> QED BY <1>8, <1>9

\* What requires only what is processed is on no cycle, and nor is what it
\* requires.
LEMMA NextIsAcyclic ==
  ASSUME NEW g \in [Items -> SUBSET Items], NEW P \in SUBSET Items, ClosedUnder(g, P),
         NEW i \in Items \ P, g[i] \subseteq P
  PROVE  i \notin Cyclic(g)
BY AncestorsTake, CyclicMeans

LEMMA ProcessedClosed ==
  ASSUME GraphInv, CountInv, phase = "count", NEW i \in Items, remaining[i] = 0
  PROVE  before[i] \subseteq Processed
<1>1. before[i] \subseteq Items /\ before[i] \ Processed \subseteq Items
  BY DEF GraphInv
<1>2. Cardinality(before[i] \ Processed) = 0
  BY DEF CountInv
<1>3. before[i] \ Processed = {}
  BY <1>1, <1>2, ItemsFinite, FS_EmptySet
<1> QED BY <1>3

LEMMA ProcessStep ==
  ASSUME GraphInv, CountInv, Process
  PROVE  GraphInv' /\ CountInv' /\ BlockedInv'
<1> DEFINE i == Head(ready)
           told == Dependents(i)
           left == [d \in Items |-> remaining[d] - (IF d \in told THEN 1 ELSE 0)]
           new == {d \in told : left[d] = 0}
<1>1. /\ phase = "count" /\ ready # <<>> /\ remaining' = left
      /\ ready' = Tail(ready) \o Ascending(new)
      /\ UNCHANGED <<before, phase, blocked, indexOf, low, stack, work, components>>
  BY DEF Process, sccVars
<1>2. /\ remaining \in [Items -> Nat]
      /\ \A d \in Items : remaining[d] = Cardinality(before[d] \ Processed)
      /\ Lists(ready, Queued) /\ \A d \in Queued : remaining[d] = 0
      /\ Processed \cap Cyclic(before) = {} /\ Queued \subseteq Items
      /\ before \in [Items -> SUBSET Items]
  BY <1>1 DEF CountInv, GraphInv, Queued
<1>3. i \in Queued /\ i \in Items /\ remaining[i] = 0 /\ i \notin Processed
  <2>1. ready \in Seq(Queued)
    BY <1>2 DEF Lists
  <2>2. i \in Queued
    BY <1>1, <2>1, HeadTailProperties
  <2> QED BY <1>2, <2>2 DEF Processed
<1>4. \A d \in Items : d \in told <=> i \in before[d]
  BY DEF Dependents
<1>5. told \subseteq Items
  BY DEF Dependents
<1> HIDE DEF i, told
<1>6. ASSUME NEW d \in Items
      PROVE  /\ IsFiniteSet(before[d] \ Processed) /\ Cardinality(before[d] \ Processed) \in Nat
             /\ d \in told =>
                  /\ i \in before[d] \ Processed
                  /\ Cardinality((before[d] \ Processed) \ {i})
                       = Cardinality(before[d] \ Processed) - 1
                  /\ remaining[d] # 0
  <2>1. before[d] \ Processed \subseteq Items
    BY <1>2
  <2>2. IsFiniteSet(before[d] \ Processed) /\ Cardinality(before[d] \ Processed) \in Nat
    BY <2>1, ItemsFinite
  <2>3. ASSUME d \in told
        PROVE  /\ i \in before[d] \ Processed
               /\ Cardinality((before[d] \ Processed) \ {i})
                       = Cardinality(before[d] \ Processed) - 1
               /\ remaining[d] # 0
    <3>1. i \in before[d] \ Processed
      BY <1>3, <1>4, <2>3
    <3>2. Cardinality((before[d] \ Processed) \ {i}) = Cardinality(before[d] \ Processed) - 1
      BY <2>2, <3>1, FS_RemoveElement
    <3>3. Cardinality(before[d] \ Processed) # 0
      BY <2>2, <3>1, FS_EmptySet
    <3> QED BY <1>2, <3>1, <3>2, <3>3
  <2> QED BY <2>2, <2>3
<1>7. /\ new \subseteq Items /\ new \cap Queued = {}
      /\ \A d \in new : remaining[d] # 0
  BY <1>2, <1>5, <1>6
<1>8. left \in [Items -> Nat]
  <2>1. ASSUME NEW d \in Items PROVE left[d] \in Nat
    <3>1. remaining[d] \in Nat /\ (d \in told => remaining[d] # 0)
      BY <1>2, <1>6
    <3> QED BY <3>1
  <2> QED BY <2>1
<1>9. \A d \in Items : left[d] = 0 <=> remaining[d] = 0 \/ d \in new
  <2> SUFFICES ASSUME NEW d \in Items PROVE left[d] = 0 <=> remaining[d] = 0 \/ d \in new
    OBVIOUS
  <2>1. remaining[d] \in Nat /\ (d \in told => remaining[d] # 0)
    BY <1>2, <1>6
  <2>2. CASE d \in told
    BY <2>1, <2>2
  <2>3. CASE d \notin told
    <3>1. left[d] = remaining[d] /\ d \notin new
      BY <2>1, <2>3
    <3> QED BY <3>1
  <2> QED BY <2>2, <2>3
<1> HIDE DEF left
<1>10. Lists(ready', (Queued \ {i}) \cup new)
  <2>1. Lists(Ascending(new), new)
    BY <1>7, AscendingLists
  <2> HIDE DEF new
  <2> QED BY <1>1, <1>2, <1>7, <2>1, QueueMoves DEF i
<1>11. Queued' = (Queued \ {i}) \cup new
  <2>1. (Queued \ {i}) \cup new \in SUBSET Items
    BY <1>2, <1>7
  <2> HIDE DEF new
  <2>2. \A k \in 1..Len(ready') : ready'[k] \in (Queued \ {i}) \cup new
    BY <1>10, ElementOfSeq DEF Lists
  <2> QED BY <1>10, <2>1, <2>2 DEF Queued, Lists
<1>12. Processed' = Processed \cup {i}
  <2>1. \A d \in Items : remaining'[d] = 0 <=> remaining[d] = 0 \/ d \in new
    BY <1>1, <1>9
  <2> HIDE DEF new
  <2>2. \A d \in Items : d \in Processed' <=> remaining'[d] = 0 /\ d \notin Queued'
    BY DEF Processed
  <2>3. \A d \in Items : d \in Processed <=> remaining[d] = 0 /\ d \notin Queued
    BY DEF Processed
  <2>4. Processed \subseteq Items /\ Processed' \subseteq Items
    BY DEF Processed
  <2>5. \A d \in Items : d \in Processed' <=> d \in Processed \/ d = i
    BY <1>3, <1>7, <1>11, <2>1, <2>2, <2>3
  <2> QED BY <1>3, <2>4, <2>5
<1>13. ASSUME NEW d \in Items
       PROVE  remaining'[d] = Cardinality(before'[d] \ Processed')
  <2>1. remaining'[d] = remaining[d] - (IF d \in told THEN 1 ELSE 0) /\ before' = before
    BY <1>1 DEF left
  <2>2. before[d] \ Processed' = (before[d] \ Processed) \ {i}
    BY <1>12
  <2>3. CASE d \in told
    BY <1>2, <1>6, <2>1, <2>2, <2>3
  <2>4. CASE d \notin told
    <3>1. (before[d] \ Processed) \ {i} = before[d] \ Processed
      BY <1>4, <2>4
    <3> QED BY <1>2, <1>6, <2>1, <2>2, <2>4, <3>1
  <2> QED BY <2>3, <2>4
<1>14. Processed' \cap Cyclic(before') = {}
  <2>1. ClosedUnder(before, Processed) /\ before[i] \subseteq Processed
        /\ Processed \in SUBSET Items
    BY <1>1, <1>3, ProcessedClosed DEF ClosedUnder, Processed
  <2>2. i \notin Cyclic(before)
    BY <1>2, <1>3, <2>1, NextIsAcyclic
  <2> QED BY <1>1, <1>2, <1>12, <2>2
<1>15. \A d \in Queued' : remaining'[d] = 0
  BY <1>1, <1>2, <1>7, <1>9, <1>11
<1>16. CountInv'
  BY <1>1, <1>8, <1>10, <1>11, <1>13, <1>14, <1>15 DEF CountInv
<1> QED BY <1>1, <1>16 DEF GraphInv, BlockedInv

LEMMA CountEndsStep ==
  ASSUME GraphInv, CountInv, CountEnds
  PROVE  /\ GraphInv' /\ CountInv' /\ BlockedInv' /\ phase' \in {"components", "done"}
         /\ phase' = "done" => blocked' = {}
         /\ components = {} /\ indexOf = <<>> /\ low = <<>> /\ stack = <<>> /\ work = <<>>
<1>1. /\ phase = "count" /\ ready = <<>> /\ phase' = (IF Left = {} THEN "done" ELSE "components")
      /\ blocked' = Left /\ before' = before
  BY DEF CountEnds
<1>2. /\ remaining \in [Items -> Nat]
      /\ \A i \in Items : remaining[i] = Cardinality(before[i] \ Processed)
      /\ Processed \cap Cyclic(before) = {} /\ before \in [Items -> SUBSET Items]
      /\ components = {} /\ indexOf = <<>> /\ low = <<>> /\ stack = <<>> /\ work = <<>>
  BY <1>1 DEF CountInv, GraphInv
<1>3. Queued = {}
  BY <1>1 DEF Queued
<1>4. Items \ Left = Processed /\ Left = Items \ Processed
  BY <1>2, <1>3 DEF Left, Processed
<1>5. ClosedUnder(before, Processed)
  BY <1>1, ProcessedClosed DEF ClosedUnder, Processed
<1>6. Cyclic(before) \subseteq Left
  BY <1>2, <1>4 DEF Cyclic
<1>7. \A i \in Left : before[i] \cap Left # {}
  <2> SUFFICES ASSUME NEW i \in Left, before[i] \cap Left = {}
               PROVE  FALSE
    OBVIOUS
  <2>1. before[i] \ Processed = {} /\ remaining[i] # 0 /\ i \in Items
    BY <1>2, <1>4 DEF Left
  <2> QED BY <1>2, <2>1, FS_EmptySet
<1>8. BlockedInv'
  BY <1>1, <1>4, <1>5, <1>6, <1>7 DEF BlockedInv
<1> QED BY <1>1, <1>2, <1>8 DEF GraphInv, CountInv

\* Once counting is over nothing of it changes.
LEMMA BlockedStays ==
  ASSUME GraphInv, BlockedInv, phase # "count",
         phase' \in {"components", "cycle", "path", "done"},
         UNCHANGED <<before, blocked>>
  PROVE  GraphInv' /\ CountInv' /\ BlockedInv'
BY DEF GraphInv, CountInv, BlockedInv

LEMMA BlockedMeans == ASSUME GraphInv, BlockedInv PROVE BlockedByCycles
<1> SUFFICES ASSUME phase # "count"
             PROVE  blocked = {i \in Items :
                       i \in Cyclic(before) \/ Ancestors(before, i) \cap Cyclic(before) # {}}
  BY DEF BlockedByCycles
<1> DEFINE Behind(i) == i \in Cyclic(before) \/ Ancestors(before, i) \cap Cyclic(before) # {}
<1>1. /\ before \in [Items -> SUBSET Items] /\ blocked \subseteq Items
      /\ ClosedUnder(before, Items \ blocked) /\ Cyclic(before) \subseteq blocked
      /\ \A i \in blocked : before[i] \cap blocked # {}
  BY DEF GraphInv, BlockedInv
<1>2. ASSUME NEW i \in Items \ blocked
      PROVE  ~Behind(i)
  <2>1. Ancestors(before, i) \subseteq Items \ blocked
    BY <1>1, AncestorsTake DEF ClosedUnder
  <2> QED BY <1>1, <2>1
<1>3. ASSUME NEW i \in blocked, ~Behind(i)
      PROVE  FALSE
  <2> DEFINE P == {j \in blocked : ~Behind(j)}
  <2>1. P \in SUBSET Items /\ P # {} /\ P \cap Cyclic(before) = {}
    BY <1>1, <1>3
  <2>2. ASSUME NEW d \in P
        PROVE  before[d] \cap P # {}
    <3>1. PICK p \in before[d] : p \in blocked
      BY <1>1
    <3>2. p \in Ancestors(before, d) /\ Ancestors(before, p) \subseteq Ancestors(before, d)
      <4>1. /\ p \in Ancestors(before, d) /\ p \in Items
            /\ ClosedUnder(before, Ancestors(before, d)) /\ Ancestors(before, d) \in SUBSET Items
        BY <1>1, AncestorsTake DEF ClosedUnder
      <4>2. before[p] \subseteq Ancestors(before, d)
        BY <4>1 DEF ClosedUnder
      <4> QED BY <1>1, <4>1, <4>2, AncestorsTake
    <3> QED BY <3>1, <3>2
  <2> HIDE DEF P
  <2> QED BY <1>1, <2>1, <2>2, RequiringMeetsCycle
<1> QED BY <1>1, <1>2, <1>3

----------------------------------------------------------------------------
(* The search for components.  The path of the search is in `work`; a node  *)
(* that was seen is on the stack until its component is found.              *)

Frames == [node : Items, children : SUBSET Items]
Seen == DOMAIN indexOf
OnStack == {n \in Items : \E k \in 1..Len(stack) : stack[k] = n}
Found == UNION components

\* The children of n that the search has met.
Met(n) == {c \in before[n] \cap blocked :
             \A k \in 1..Len(work) : work[k].node = n => c \notin work[k].children}

\* x is on the stack, under the k-th node of the path and not under a later one.
Under(k, x) ==
    /\ x \in OnStack /\ indexOf[work[k].node] <= indexOf[x]
    /\ \A l \in 1..Len(work) : k < l => indexOf[x] < indexOf[work[l].node]

SearchType ==
    /\ Seen \subseteq blocked /\ indexOf \in [Seen -> Nat] /\ low \in [Seen -> Nat]
    /\ stack \in Seq(Seen) /\ work \in Seq(Frames)

\* Nodes are numbered as they are seen, and the stack and the path keep that order.
OrderInv ==
    /\ \A n \in Seen : indexOf[n] < Cardinality(Seen)
    /\ \A k, l \in 1..Len(stack) : k < l => indexOf[stack[k]] < indexOf[stack[l]]
    /\ \A k, l \in 1..Len(work) : k < l => indexOf[work[k].node] < indexOf[work[l].node]
    /\ \A k \in 1..Len(work) : work[k].node \in OnStack
    /\ Seen = OnStack \cup Found /\ OnStack \cap Found = {}

\* What was met was seen, and what was found requires nothing that was not.
EdgeInv ==
    /\ \A n \in Seen : Met(n) \subseteq Seen
    /\ \A k \in 1..Len(work) : work[k].children \subseteq before[work[k].node] \cap blocked
    /\ \A n \in Found : before[n] \cap blocked \subseteq Found

\* The path reaches what is on the stack after it, and from each node on the
\* stack the search gets back to the path, at that node or before.
ReachInv ==
    /\ \A k \in 1..Len(work), x \in OnStack :
         indexOf[work[k].node] <= indexOf[x] => Reaches(before, work[k].node, x)
    /\ \A x \in OnStack : \E k \in 1..Len(work) :
         indexOf[work[k].node] <= indexOf[x] /\ Reaches(before, x, work[k].node)

\* The low link of a node on the path is the index of a node on the stack that
\* it reaches, and no node under it has met one on the stack with a lower index.
LowInv ==
    \A k \in 1..Len(work) :
        /\ low[work[k].node] <= indexOf[work[k].node]
        /\ \E y \in OnStack : indexOf[y] = low[work[k].node] /\ Reaches(before, work[k].node, y)
        /\ \A x \in OnStack : Under(k, x) =>
             \A y \in Met(x) \cap OnStack : low[work[k].node] <= indexOf[y]

\* A component that was found has all that is together with one of its nodes.
FoundInv ==
    \A C \in components :
        /\ C # {} /\ C \subseteq blocked
        /\ \A x \in C, y \in Items : y \in C <=> Together(before, x, y)

SearchInv ==
    phase = "components" => SearchType /\ OrderInv /\ EdgeInv /\ ReachInv /\ LowInv

\* After the search everything that was blocked has a component.
AllFoundInv == phase \in {"cycle", "path", "done"} => Found = blocked

----------------------------------------------------------------------------
(* The search for the cycle of an item: nodes at the same distance from the *)
(* item are on the same level d, which its own is 1.                        *)

Visited == DOMAIN parents \cup {start}
Waiting == {i \in Items : \E k \in 1..Len(queue) : queue[k] = i}

\* A node is one level further than the node it was reached from.
Levels(d) ==
    /\ d[start] = 1
    /\ \A x \in DOMAIN parents :
         /\ parents[x] \in Visited /\ x \in before[parents[x]]
         /\ d[x] = d[parents[x]] + 1

\* The queue goes upwards through two levels at most; what was expanded is not
\* further than what waits, and what it requires was visited and is at most one
\* level further.
LevelInv(d) ==
    /\ \A k, l \in 1..Len(queue) :
         k < l => d[queue[k]] <= d[queue[l]] /\ d[queue[l]] <= d[queue[k]] + 1
    /\ \A x \in Visited \ Waiting :
         /\ before[x] \cap Component \subseteq DOMAIN parents
         /\ \A y \in before[x] \cap Component : d[y] <= d[x] + 1
         /\ \A k \in 1..Len(queue) : d[x] <= d[queue[k]]

CycleInv ==
    /\ phase \in {"count", "components"} => parents = <<>>
    /\ phase \in {"cycle", "path"} =>
         /\ start \in Cyclic(before) /\ start \notin DOMAIN parents
         /\ Visited \subseteq Component
    /\ phase = "cycle" =>
         /\ queue \in Seq(Visited)
         /\ \E d \in [Items -> Nat] : Levels(d) /\ LevelInv(d)

\* No closed walk from the item has m nodes or fewer.
NoneUpTo(m) ==
    \A n \in 1..m : \A walk \in [1..n -> Items] : walk[1] = start => ~Closed(walk)

\* The path back is a walk that ends with the item, and what is missing of it has
\* as many nodes as the level of its first one tells.
PathInv ==
    phase = "path" =>
        /\ cycle \in Seq(Items) /\ Len(cycle) \in Nat \ {0, 1}
        /\ cycle[Len(cycle)] = start /\ cycle[1] \in Visited
        /\ \A k \in 1..(Len(cycle) - 1) : cycle[k + 1] \in before[cycle[k]]
        /\ \E d \in [Items -> Nat] : Levels(d) /\ NoneUpTo(d[cycle[1]] + Len(cycle) - 3)

IInv ==
    /\ GraphInv /\ CountInv /\ BlockedInv /\ SearchInv /\ FoundInv /\ AllFoundInv
    /\ CycleInv /\ PathInv /\ ReportsShortestCycle

----------------------------------------------------------------------------
(* A node is seen                                                           *)

LEMMA SearchFacts ==
  ASSUME GraphInv, BlockedInv, SearchInv, phase = "components"
  PROVE  /\ before \in [Items -> SUBSET Items] /\ blocked \subseteq Items
         /\ SearchType /\ OrderInv /\ EdgeInv /\ ReachInv /\ LowInv
         /\ OnStack \subseteq Seen /\ Seen \subseteq blocked /\ Seen \subseteq Items
         /\ Len(stack) \in Nat /\ Len(work) \in Nat
         /\ IsFiniteSet(Seen) /\ Cardinality(Seen) \in Nat
         /\ \A k \in 1..Len(stack) : stack[k] \in Seen /\ stack[k] \in OnStack
         /\ \A k \in 1..Len(work) : work[k].node \in OnStack /\ work[k].node \in Seen
         /\ \A x \in Seen : indexOf[x] \in Nat /\ low[x] \in Nat
<1>1. /\ before \in [Items -> SUBSET Items] /\ blocked \subseteq Items
      /\ SearchType /\ OrderInv /\ EdgeInv /\ ReachInv /\ LowInv
  BY DEF GraphInv, BlockedInv, SearchInv
<1>2. Seen \subseteq blocked /\ Seen \subseteq Items /\ OnStack \subseteq Seen
  BY <1>1 DEF SearchType, OrderInv
<1>3. IsFiniteSet(Seen) /\ Cardinality(Seen) \in Nat
  BY <1>2, ItemsFinite
<1>4. /\ Len(stack) \in Nat /\ Len(work) \in Nat
      /\ \A k \in 1..Len(stack) : stack[k] \in Seen
  BY <1>1, LenProperties, ElementOfSeq DEF SearchType
<1>5. \A k \in 1..Len(stack) : stack[k] \in OnStack
  BY <1>2, <1>4 DEF OnStack
<1>6. \A k \in 1..Len(work) : work[k].node \in OnStack /\ work[k].node \in Seen
  BY <1>1, <1>2 DEF OrderInv
<1>7. \A x \in Seen : indexOf[x] \in Nat /\ low[x] \in Nat
  BY <1>1 DEF SearchType
<1> QED BY <1>1, <1>2, <1>3, <1>4, <1>5, <1>6, <1>7

\* A node that the whole path reaches is put on the stack and on the path.
LEMMA EnterKeeps ==
  ASSUME GraphInv, BlockedInv, SearchInv, phase = "components",
         NEW n \in blocked \ Seen, NEW path \in Seq(Frames), Enter(n, path),
         Len(path) = Len(work),
         \A k \in 1..Len(work) :
            /\ path[k].node = work[k].node /\ path[k].children \subseteq work[k].children
            /\ work[k].children \subseteq path[k].children \cup {n}
            /\ Reaches(before, work[k].node, n)
  PROVE  SearchInv'
<1> DEFINE N == Cardinality(Seen)
           w == Len(work)
<1>1. /\ before \in [Items -> SUBSET Items] /\ blocked \subseteq Items
      /\ SearchType /\ OrderInv /\ EdgeInv /\ ReachInv /\ LowInv
      /\ OnStack \subseteq Seen /\ Seen \subseteq blocked /\ Seen \subseteq Items
      /\ Len(stack) \in Nat /\ w \in Nat /\ IsFiniteSet(Seen) /\ N \in Nat
      /\ \A k \in 1..Len(stack) : stack[k] \in Seen /\ stack[k] \in OnStack
      /\ \A k \in 1..w : work[k].node \in OnStack /\ work[k].node \in Seen
      /\ \A x \in Seen : indexOf[x] \in Nat /\ low[x] \in Nat
  BY SearchFacts
<1>2. /\ indexOf' = Extended(indexOf, {n}, N) /\ low' = Extended(low, {n}, N)
      /\ stack' = Append(stack, n)
      /\ work' = Append(path, [node |-> n, children |-> before[n] \cap blocked])
      /\ UNCHANGED <<before, phase, blocked, components>>
  BY DEF Enter, countVars, Seen
<1>3. /\ n \in Items /\ n \notin Seen /\ n \notin OnStack /\ n \in blocked
  BY <1>1
<1>4. Seen' = Seen \cup {n} /\ Cardinality(Seen') = N + 1
  <2>1. Seen' = Seen \cup {n}
    BY <1>2 DEF Seen, Extended
  <2> QED BY <1>1, <1>3, <2>1, FS_AddElement
<1>5. /\ indexOf'[n] = N /\ low'[n] = N
      /\ \A x \in Seen : indexOf'[x] = indexOf[x] /\ low'[x] = low[x]
      /\ indexOf' \in [Seen' -> Nat] /\ low' \in [Seen' -> Nat]
  <2>1. DOMAIN indexOf = Seen /\ DOMAIN low = Seen
    BY <1>1 DEF SearchType
  <2>2. /\ indexOf' = [m \in Seen \cup {n} |-> IF m \in {n} THEN N ELSE indexOf[m]]
        /\ low' = [m \in Seen \cup {n} |-> IF m \in {n} THEN N ELSE low[m]]
    BY <1>2, <2>1 DEF Extended
  <2> HIDE DEF N
  <2> QED BY <1>1, <1>3, <1>4, <2>2
<1>6. /\ stack' \in Seq(Seen') /\ Len(stack') = Len(stack) + 1
      /\ \A k \in 1..Len(stack) : stack'[k] = stack[k]
      /\ stack'[Len(stack) + 1] = n
  <2>1. stack \in Seq(Seen') /\ n \in Seen'
    BY <1>1, <1>4, SeqMonotonic DEF SearchType
  <2> QED BY <1>2, <2>1, AppendProperties
<1>7. /\ work' \in Seq(Frames) /\ Len(work') = w + 1
      /\ \A k \in 1..w : work'[k] = path[k] /\ work'[k].node = work[k].node
      /\ work'[w + 1].node = n /\ work'[w + 1].children = before[n] \cap blocked
  <2>1. [node |-> n, children |-> before[n] \cap blocked] \in Frames
    BY <1>1, <1>3 DEF Frames
  <2> QED BY <1>2, <2>1, AppendProperties
<1>8. /\ 1..Len(stack') = 1..Len(stack) \cup {Len(stack) + 1}
      /\ 1..Len(work') = 1..w \cup {w + 1}
  BY <1>1, <1>6, <1>7
<1>9. OnStack' = OnStack \cup {n}
  BY <1>3, <1>6, <1>8 DEF OnStack
<1>10. \A x \in Seen : indexOf[x] < N /\ indexOf'[x] < N
  BY <1>1, <1>5 DEF OrderInv
<1> HIDE DEF N, w
<1>11. Met(n)' = {} /\ \A x \in Seen : Met(x)' \subseteq Met(x) \cup {n}
  <2>1. Met(n)' = {}
    BY <1>2, <1>7, <1>8 DEF Met
  <2>2. ASSUME NEW x \in Seen, NEW c \in Met(x)', c # n
        PROVE  c \in Met(x)
    <3>1. ASSUME NEW k \in 1..w, work[k].node = x
          PROVE  c \notin work[k].children
      <4>1. c \notin work'[k].children
        BY <1>7, <1>8, <3>1 DEF Met
      <4> QED BY <1>7, <2>2, <4>1 DEF w
    <3>2. c \in before[x] \cap blocked
      BY <1>2 DEF Met
    <3> QED BY <3>1, <3>2 DEF Met, w
  <2> QED BY <2>1, <2>2
<1>12. SearchType'
  BY <1>1, <1>2, <1>3, <1>4, <1>5, <1>6, <1>7 DEF SearchType
<1>13. OrderInv'
  <2>1. \A x \in Seen' : indexOf'[x] < Cardinality(Seen')
    BY <1>1, <1>4, <1>5, <1>10
  <2>2. \A k, l \in 1..Len(stack') : k < l => indexOf'[stack'[k]] < indexOf'[stack'[l]]
    <3> SUFFICES ASSUME NEW k \in 1..Len(stack'), NEW l \in 1..Len(stack'), k < l
                 PROVE  indexOf'[stack'[k]] < indexOf'[stack'[l]]
      OBVIOUS
    <3>1. k \in 1..Len(stack)
      BY <1>1, <1>6, <1>8
    <3>2. stack'[k] = stack[k] /\ stack[k] \in Seen
      BY <1>1, <1>6, <3>1
    <3>3. CASE l = Len(stack) + 1
      BY <1>5, <1>6, <1>10, <3>2, <3>3
    <3>4. CASE l \in 1..Len(stack)
      <4>1. indexOf[stack[k]] < indexOf[stack[l]] /\ stack[l] \in Seen /\ stack'[l] = stack[l]
        BY <1>1, <1>6, <3>1, <3>4 DEF OrderInv
      <4> QED BY <1>5, <3>2, <4>1
    <3> QED BY <1>8, <3>3, <3>4
  <2>3. \A k, l \in 1..Len(work') : k < l => indexOf'[work'[k].node] < indexOf'[work'[l].node]
    <3> SUFFICES ASSUME NEW k \in 1..Len(work'), NEW l \in 1..Len(work'), k < l
                 PROVE  indexOf'[work'[k].node] < indexOf'[work'[l].node]
      OBVIOUS
    <3>1. k \in 1..w
      BY <1>1, <1>7, <1>8
    <3>2. work'[k].node = work[k].node /\ work[k].node \in Seen
      BY <1>1, <1>7, <3>1
    <3>3. CASE l = w + 1
      BY <1>5, <1>7, <1>10, <3>2, <3>3
    <3>4. CASE l \in 1..w
      <4>1. indexOf[work[k].node] < indexOf[work[l].node] /\ work[l].node \in Seen
            /\ work'[l].node = work[l].node
        BY <1>1, <1>7, <3>1, <3>4 DEF OrderInv, w
      <4> QED BY <1>5, <3>2, <4>1
    <3> QED BY <1>8, <3>3, <3>4
  <2>4. \A k \in 1..Len(work') : work'[k].node \in OnStack'
    BY <1>1, <1>7, <1>8, <1>9
  <2>5. Seen' = OnStack' \cup Found' /\ OnStack' \cap Found' = {}
    BY <1>1, <1>2, <1>3, <1>4, <1>9 DEF OrderInv, Found
  <2> QED BY <2>1, <2>2, <2>3, <2>4, <2>5 DEF OrderInv
<1>14. EdgeInv'
  <2>1. \A x \in Seen' : Met(x)' \subseteq Seen'
    BY <1>1, <1>4, <1>11 DEF EdgeInv
  <2>2. ASSUME NEW k \in 1..Len(work')
        PROVE  work'[k].children \subseteq before'[work'[k].node] \cap blocked'
    <3>1. CASE k \in 1..w
      <4>1. /\ path[k].children \subseteq work[k].children
            /\ work[k].children \subseteq before[work[k].node] \cap blocked
        BY <1>1, <3>1 DEF w, EdgeInv
      <4> QED BY <1>2, <1>7, <3>1, <4>1
    <3>2. CASE k = w + 1
      BY <1>2, <1>7, <3>2
    <3> QED BY <1>8, <3>1, <3>2
  <2>3. \A x \in Found' : before'[x] \cap blocked' \subseteq Found'
    BY <1>1, <1>2 DEF EdgeInv, Found
  <2> QED BY <2>1, <2>2, <2>3 DEF EdgeInv
<1>15. ReachInv'
  <2>1. ASSUME NEW k \in 1..Len(work'), NEW x \in OnStack',
               indexOf'[work'[k].node] <= indexOf'[x]
        PROVE  Reaches(before', work'[k].node, x)
    <3>1. CASE k = w + 1
      <4>1. x = n
        BY <1>1, <1>5, <1>7, <1>9, <1>10, <2>1, <3>1
      <4> QED BY <1>7, <3>1, <4>1 DEF Reaches
    <3>2. CASE k \in 1..w /\ x = n
      BY <1>2, <1>7, <3>2 DEF w
    <3>3. CASE k \in 1..w /\ x \in OnStack
      <4>1. work'[k].node = work[k].node /\ indexOf[work[k].node] <= indexOf[x]
        BY <1>1, <1>5, <1>7, <2>1, <3>3
      <4> QED BY <1>1, <1>2, <3>3, <4>1 DEF ReachInv, w
    <3> QED BY <1>8, <1>9, <3>1, <3>2, <3>3
  <2>2. ASSUME NEW x \in OnStack'
        PROVE  \E k \in 1..Len(work') :
                 indexOf'[work'[k].node] <= indexOf'[x] /\ Reaches(before', x, work'[k].node)
    <3>1. CASE x = n
      <4>1. w + 1 \in 1..Len(work') /\ indexOf'[work'[w + 1].node] <= indexOf'[x]
        BY <1>1, <1>5, <1>7, <1>8, <3>1
      <4> QED BY <1>7, <3>1, <4>1 DEF Reaches
    <3>2. CASE x \in OnStack
      <4>1. PICK k \in 1..w : indexOf[work[k].node] <= indexOf[x] /\ Reaches(before, x, work[k].node)
        BY <1>1, <3>2 DEF ReachInv, w
      <4>2. /\ k \in 1..Len(work') /\ indexOf'[work'[k].node] <= indexOf'[x]
            /\ Reaches(before', x, work'[k].node)
        BY <1>1, <1>2, <1>5, <1>7, <1>8, <3>2, <4>1
      <4> QED BY <4>2
    <3> QED BY <1>9, <3>1, <3>2
  <2> QED BY <2>1, <2>2 DEF ReachInv
<1>16. LowInv'
  <2> SUFFICES ASSUME NEW k \in 1..Len(work')
               PROVE  /\ low'[work'[k].node] <= indexOf'[work'[k].node]
                      /\ \E y \in OnStack' : /\ indexOf'[y] = low'[work'[k].node]
                                             /\ Reaches(before', work'[k].node, y)
                      /\ \A x \in OnStack' : Under(k, x)' =>
                           \A y \in Met(x)' \cap OnStack' : low'[work'[k].node] <= indexOf'[y]
    BY DEF LowInv
  <2>1. CASE k = w + 1
    <3>1. /\ low'[work'[k].node] <= indexOf'[work'[k].node]
          /\ \E y \in OnStack' : /\ indexOf'[y] = low'[work'[k].node]
                                 /\ Reaches(before', work'[k].node, y)
      BY <1>1, <1>5, <1>7, <1>9, <2>1 DEF Reaches
    <3>2. \A x \in OnStack' : Under(k, x)' => x = n
      BY <1>1, <1>5, <1>7, <1>9, <1>10, <2>1 DEF Under
    <3> QED BY <1>11, <3>1, <3>2
  <2>2. CASE k \in 1..w
    <3> DEFINE g == work[k].node
    <3>1. /\ work'[k].node = g /\ g \in Seen /\ g \in OnStack
          /\ low'[g] = low[g] /\ indexOf'[g] = indexOf[g]
      BY <1>1, <1>5, <1>7, <2>2 DEF w
    <3>2. /\ low[g] <= indexOf[g]
          /\ \E y \in OnStack : indexOf[y] = low[g] /\ Reaches(before, g, y)
          /\ \A x \in OnStack : Under(k, x) =>
               \A y \in Met(x) \cap OnStack : low[g] <= indexOf[y]
      BY <1>1, <2>2 DEF LowInv, w
    <3> HIDE DEF g
    <3>3. \E y \in OnStack' : indexOf'[y] = low'[g] /\ Reaches(before', g, y)
      BY <1>1, <1>2, <1>5, <1>9, <3>1, <3>2
    <3>4. ASSUME NEW x \in OnStack', Under(k, x)', NEW y \in Met(x)' \cap OnStack'
          PROVE  low'[g] <= indexOf'[y]
      <4>1. x # n
        <5>1. w + 1 \in 1..Len(work') /\ k < w + 1
          BY <1>1, <1>8, <2>2
        <5>2. indexOf'[x] < indexOf'[work'[w + 1].node]
          BY <3>4, <5>1 DEF Under
        <5> QED BY <1>1, <1>5, <1>7, <5>2
      <4>2. x \in OnStack /\ x \in Seen /\ indexOf'[x] = indexOf[x]
        BY <1>1, <1>5, <1>9, <4>1
      <4>3. indexOf[work[k].node] <= indexOf[x]
        BY <3>1, <3>4, <4>2 DEF Under, g
      <4>4. ASSUME NEW l \in 1..w, k < l
            PROVE  indexOf[x] < indexOf[work[l].node]
        <5>1. l \in 1..Len(work') /\ work'[l].node = work[l].node /\ work[l].node \in Seen
          BY <1>1, <1>7, <1>8 DEF w
        <5> QED BY <1>5, <3>4, <4>2, <4>4, <5>1 DEF Under
      <4>5. Under(k, x)
        BY <4>2, <4>3, <4>4 DEF Under, w
      <4>6. CASE y = n
        BY <1>1, <1>5, <1>10, <3>1, <3>2, <4>6
      <4>7. CASE y # n
        <5>1. y \in Met(x) \cap OnStack /\ y \in Seen
          BY <1>1, <1>9, <1>11, <4>2, <4>7
        <5> QED BY <1>5, <3>1, <3>2, <4>2, <4>5, <5>1
      <4> QED BY <4>6, <4>7
    <3>5. low'[g] <= indexOf'[g]
      BY <3>1, <3>2
    <3> QED BY <3>1, <3>3, <3>4, <3>5
  <2> QED BY <1>8, <2>1, <2>2
<1> QED BY <1>12, <1>13, <1>14, <1>15, <1>16 DEF SearchInv

\* A set of naturals has a least member.
LEMMA MinIsLeast ==
  ASSUME NEW S \in SUBSET Nat, S # {}
  PROVE  Min(S) \in S /\ \A i \in S : Min(S) <= i
<1> DEFINE T == {0 .. i : i \in S}
<1>1. \A i \in S : 0 .. i \in FiniteSubsetsOf(Nat)
  BY FS_Interval DEF FiniteSubsetsOf
<1>2. T \subseteq FiniteSubsetsOf(Nat) /\ T # {}
  BY <1>1
<1>3. PICK A \in T : \A B \in T : ~ (<<B, A>> \in StrictSubsetOrdering(Nat))
  BY <1>2, WFMin, FS_StrictSubsetOrderingWellFounded
<1>4. PICK i \in S : A = 0 .. i
  OBVIOUS
<1>5. ASSUME NEW j \in S, j < i
      PROVE  FALSE
  <2>1. 0 .. j \subseteq 0 .. i /\ 0 .. j # 0 .. i
    <3>1. i \in 0 .. i /\ i \notin 0 .. j
      BY <1>5
    <3> QED BY <1>5, <3>1
  <2>2. 0 .. j \in SUBSET Nat /\ 0 .. i \in SUBSET Nat
    OBVIOUS
  <2>3. <<0 .. j, 0 .. i>> \in StrictSubsetOrdering(Nat)
    BY <2>1, <2>2 DEF StrictSubsetOrdering
  <2>4. 0 .. j \in T
    OBVIOUS
  <2> HIDE DEF T
  <2> QED BY <1>3, <1>4, <2>3, <2>4
<1>6. \A j \in S : i <= j
  BY <1>5
<1> QED BY <1>6 DEF Min

LEMMA MinOfTwo ==
  ASSUME NEW a \in Nat, NEW b \in Nat
  PROVE  Min({a, b}) = IF a <= b THEN a ELSE b
<1>1. Min({a, b}) \in {a, b} /\ Min({a, b}) <= a /\ Min({a, b}) <= b
  BY MinIsLeast
<1> QED BY <1>1

\* A search starts at a node that was not seen yet.
LEMMA RootStep ==
  ASSUME GraphInv, BlockedInv, SearchInv, Root
  PROVE  SearchInv'
<1> DEFINE n == Min(blocked \ DOMAIN indexOf)
<1>1. /\ phase = "components" /\ work = <<>> /\ DOMAIN indexOf # blocked
      /\ Enter(n, <<>>)
  BY DEF Root
<1>2. blocked \subseteq Nat /\ Seen \subseteq blocked
  BY <1>1, SearchFacts, ItemsAssumption
<1>3. n \in blocked \ Seen
  BY <1>1, <1>2, MinIsLeast DEF Seen
<1>4. <<>> \in Seq(Frames) /\ Len(<<>>) = Len(work) /\ 1..Len(work) = {}
  BY <1>1
<1> HIDE DEF n
<1> QED BY <1>1, <1>3, <1>4, EnterKeeps

----------------------------------------------------------------------------
(* A child is met                                                           *)

\* The path after a child was taken from the node at its end.
LEMMA PathTakes ==
  ASSUME NEW p \in Seq(Frames), p # <<>>, NEW c \in Items
  PROVE  LET path == [p EXCEPT ![Len(p)].children = @ \ {c}]
         IN  /\ Len(p) \in 1..Len(p) /\ Last(p) = p[Len(p)]
             /\ path \in Seq(Frames) /\ Len(path) = Len(p)
             /\ \A k \in 1..Len(p) :
                  /\ path[k].node = p[k].node
                  /\ path[k].children = IF k = Len(p) THEN p[k].children \ {c}
                                                      ELSE p[k].children
<1> DEFINE w == Len(p)
           f == [p[w] EXCEPT !.children = @ \ {c}]
           path == [p EXCEPT ![w].children = @ \ {c}]
<1>1. w \in Nat \ {0} /\ w \in 1..w /\ DOMAIN p = 1..w
  BY EmptySeq, LenProperties
<1>2. p[w] \in Frames
  BY <1>1, ElementOfSeq
<1>3. f \in Frames /\ f.node = p[w].node /\ f.children = p[w].children \ {c}
  BY <1>2 DEF Frames
<1>4. path = [p EXCEPT ![w] = f]
  BY <1>1
<1> HIDE DEF f, path
<1>5. /\ path \in Seq(Frames) /\ Len(path) = w
      /\ \A k \in 1..w : path[k] = IF k = w THEN f ELSE p[k]
  <2> DEFINE q == [p EXCEPT ![w] = f]
  <2>1. q \in Seq(Frames) /\ Len(q) = w
    BY <1>1, <1>3, ExceptSeq
  <2>2. \A k \in 1..w : q[k] = IF k = w THEN f ELSE p[k]
    BY <1>1, <1>3, ExceptSeq
  <2> QED BY <1>4, <2>1, <2>2
<1> HIDE DEF w
<1>6. ASSUME NEW k \in 1..w
      PROVE  /\ path[k].node = p[k].node
             /\ path[k].children = IF k = w THEN p[k].children \ {c} ELSE p[k].children
  BY <1>3, <1>5
<1> QED BY <1>1, <1>5, <1>6 DEF w, path, Last

\* A child that was seen before is looked at.
LEMMA MeetKeeps ==
  ASSUME GraphInv, BlockedInv, SearchInv, phase = "components",
         Len(work) \in 1..Len(work),
         NEW n, n = work[Len(work)].node,
         NEW c \in work[Len(work)].children, c \in Seen,
         work' \in Seq(Frames), Len(work') = Len(work),
         \A k \in 1..Len(work) :
            /\ work'[k].node = work[k].node
            /\ work'[k].children = IF k = Len(work) THEN work[k].children \ {c}
                                                    ELSE work[k].children,
         low' = IF c \in OnStack THEN [low EXCEPT ![n] = Min({@, indexOf[c]})] ELSE low,
         UNCHANGED <<before, phase, blocked, indexOf, stack, components>>
  PROVE  SearchInv'
<1> DEFINE w == Len(work)
<1>1. /\ before \in [Items -> SUBSET Items] /\ blocked \subseteq Items
      /\ SearchType /\ OrderInv /\ EdgeInv /\ ReachInv /\ LowInv
      /\ OnStack \subseteq Seen /\ Seen \subseteq blocked /\ Seen \subseteq Items
      /\ \A k \in 1..w : work[k].node \in OnStack /\ work[k].node \in Seen
      /\ \A x \in Seen : indexOf[x] \in Nat /\ low[x] \in Nat
  BY SearchFacts
<1>2. /\ Seen' = Seen /\ OnStack' = OnStack /\ Found' = Found
      /\ c \in before[n] \cap blocked /\ n \in Seen /\ n \in OnStack /\ w \in Nat
  BY <1>1 DEF Seen, OnStack, Found, EdgeInv
<1>3. /\ low' \in [Seen -> Nat]
      /\ \A x \in Seen : low'[x] <= low[x] /\ (x # n => low'[x] = low[x])
      /\ c \notin OnStack => low'[n] = low[n]
      /\ c \in OnStack => /\ low'[n] = low[n] \/ low'[n] = indexOf[c]
                          /\ low'[n] <= indexOf[c]
  <2>1. CASE c \notin OnStack
    <3>1. low' = low
      BY <2>1
    <3> QED BY <1>1, <2>1, <3>1 DEF SearchType
  <2>2. CASE c \in OnStack
    <3> DEFINE m == Min({low[n], indexOf[c]})
    <3>1. low' = [low EXCEPT ![n] = m]
      BY <2>2
    <3>2. low[n] \in Nat /\ indexOf[c] \in Nat /\ m = IF low[n] <= indexOf[c] THEN low[n] ELSE indexOf[c]
      BY <1>1, <1>2, MinOfTwo
    <3> HIDE DEF m
    <3>3. low' \in [Seen -> Nat] /\ low'[n] = m /\ \A x \in Seen : x # n => low'[x] = low[x]
      BY <1>1, <1>2, <3>1, <3>2 DEF SearchType
    <3>4. m <= low[n] /\ m <= indexOf[c] /\ (m = low[n] \/ m = indexOf[c])
      BY <3>2
    <3>5. \A x \in Seen : low[x] <= low[x]
      BY <1>1
    <3> QED BY <2>2, <3>3, <3>4, <3>5
  <2> QED BY <2>1, <2>2
<1>4. \A k \in 1..w : work[k].node = n => k = w
  <2> SUFFICES ASSUME NEW k \in 1..w, work[k].node = n, k # w
               PROVE  FALSE
    OBVIOUS
  <2>1. k < w
    BY <1>2
  <2>2. indexOf[n] < indexOf[n]
    BY <1>1, <2>1 DEF OrderInv
  <2> QED BY <1>1, <1>2, <2>2
<1>5. \A x \in Seen : Met(x)' \subseteq IF x = n THEN Met(x) \cup {c} ELSE Met(x)
  <2> SUFFICES ASSUME NEW x \in Seen, NEW d \in Met(x)', ~(x = n /\ d = c)
               PROVE  d \in Met(x)
    OBVIOUS
  <2>1. d \in before[x] \cap blocked
    BY DEF Met
  <2>2. ASSUME NEW k \in 1..w, work[k].node = x
        PROVE  d \notin work[k].children
    <3>1. d \notin work'[k].children
      BY <2>2 DEF Met
    <3> QED BY <2>2, <3>1
  <2> QED BY <2>1, <2>2 DEF Met
<1>6. SearchType' /\ OrderInv'
  <2>1. SearchType'
    BY <1>1, <1>2, <1>3 DEF SearchType
  <2>2. OrderInv'
    BY <1>1, <1>2 DEF OrderInv
  <2> QED BY <2>1, <2>2
<1>7. EdgeInv'
  <2>1. \A x \in Seen' : Met(x)' \subseteq Seen'
    BY <1>1, <1>2, <1>5 DEF EdgeInv
  <2>2. \A k \in 1..Len(work') : work'[k].children \subseteq before'[work'[k].node] \cap blocked'
    BY <1>1 DEF EdgeInv
  <2>3. \A x \in Found' : before'[x] \cap blocked' \subseteq Found'
    BY <1>1, <1>2 DEF EdgeInv
  <2> QED BY <2>1, <2>2, <2>3 DEF EdgeInv
<1>8. ReachInv'
  BY <1>1, <1>2 DEF ReachInv
<1>9. LowInv'
  <2> SUFFICES ASSUME NEW k \in 1..w
               PROVE  /\ low'[work[k].node] <= indexOf[work[k].node]
                      /\ \E y \in OnStack : /\ indexOf[y] = low'[work[k].node]
                                            /\ Reaches(before, work[k].node, y)
                      /\ \A x \in OnStack : Under(k, x)' =>
                           \A y \in Met(x)' \cap OnStack : low'[work[k].node] <= indexOf[y]
    BY <1>2 DEF LowInv
  <2> DEFINE g == work[k].node
  <2>1. /\ g \in Seen /\ low[g] <= indexOf[g]
        /\ \E y \in OnStack : indexOf[y] = low[g] /\ Reaches(before, g, y)
        /\ \A x \in OnStack : Under(k, x) => \A y \in Met(x) \cap OnStack : low[g] <= indexOf[y]
        /\ indexOf[g] \in Nat /\ low[g] \in Nat /\ low'[g] \in Nat /\ low'[g] <= low[g]
    BY <1>1, <1>3 DEF LowInv
  <2>2. g = n => k = w
    BY <1>4
  <2> HIDE DEF g
  <2>3. low'[g] <= indexOf[g]
    BY <2>1
  <2>4. \E y \in OnStack : indexOf[y] = low'[g] /\ Reaches(before, g, y)
    <3>1. CASE low'[g] = low[g]
      BY <2>1, <3>1
    <3>2. CASE low'[g] # low[g]
      <4>1. g = n /\ c \in OnStack /\ low'[g] = indexOf[c]
        BY <1>3, <2>1, <3>2
      <4>2. Reaches(before, n, c)
        BY <1>1, <1>2, ReachesEdge
      <4> QED BY <4>1, <4>2
    <3> QED BY <3>1, <3>2
  <2>5. ASSUME NEW x \in OnStack, Under(k, x)', NEW y \in Met(x)' \cap OnStack
        PROVE  low'[g] <= indexOf[y]
    <3>1. Under(k, x)
      BY <1>2, <2>5 DEF Under
    <3>2. x \in Seen /\ y \in Seen /\ indexOf[y] \in Nat /\ indexOf[x] \in Nat
      BY <1>1
    <3>3. CASE y \in Met(x)
      <4>1. low[g] <= indexOf[y]
        BY <2>1, <2>5, <3>1, <3>3
      <4> QED BY <2>1, <3>2, <4>1
    <3>4. CASE x = n /\ y = c
      <4>1. k = w
        <5> SUFFICES ASSUME k < w PROVE FALSE
          BY <1>2
        <5>1. indexOf[x] < indexOf[work[w].node]
          BY <3>1 DEF Under
        <5> QED BY <3>2, <3>4, <5>1
      <4>2. g = n
        BY <4>1 DEF g
      <4> QED BY <1>3, <2>5, <3>4, <4>2
    <3> QED BY <1>5, <2>5, <3>2, <3>3, <3>4
  <2> QED BY <2>3, <2>4, <2>5 DEF g
<1> QED BY <1>6, <1>7, <1>8, <1>9 DEF SearchInv

LEMMA ChildStep ==
  ASSUME GraphInv, BlockedInv, SearchInv, Child
  PROVE  SearchInv'
<1> DEFINE w == Len(work)
           n == Last(work).node
           c == Min(Last(work).children)
           path == [work EXCEPT ![Len(work)].children = @ \ {c}]
<1>1. /\ phase = "components" /\ work # <<>> /\ Last(work).children # {}
      /\ \/ /\ c \notin DOMAIN indexOf
            /\ Enter(c, path)
         \/ /\ c \in DOMAIN indexOf
            /\ work' = path
            /\ low' = IF Open(c) THEN [low EXCEPT ![n] = Min({@, indexOf[c]})] ELSE low
            /\ UNCHANGED <<before, phase, blocked, indexOf, stack, components>>
  BY DEF Child, countVars
<1>2. /\ before \in [Items -> SUBSET Items] /\ blocked \subseteq Items
      /\ SearchType /\ EdgeInv /\ ReachInv /\ OrderInv /\ w \in Nat
      /\ \A k \in 1..w : work[k].node \in OnStack /\ work[k].node \in Seen
      /\ Seen \subseteq Items
      /\ \A x \in Seen : indexOf[x] \in Nat
  BY <1>1, SearchFacts
<1>3. w \in 1..w /\ Last(work) = work[w] /\ n = work[w].node
  <2>1. w \in Nat \ {0}
    BY <1>1, <1>2, EmptySeq DEF SearchType
  <2> QED BY <2>1 DEF Last
<1>4. /\ work[w].children \subseteq before[n] \cap blocked
      /\ c \in work[w].children /\ c \in Items /\ c \in blocked /\ c \in before[n]
  <2>1. work[w].children \subseteq before[n] \cap blocked
    BY <1>2, <1>3 DEF EdgeInv
  <2>2. work[w].children \in SUBSET Nat
    BY <1>2, <2>1, ItemsAssumption
  <2>3. c \in work[w].children
    BY <1>1, <1>3, <2>2, MinIsLeast
  <2> QED BY <1>2, <2>1, <2>3
<1> HIDE DEF c, n
<1>5. /\ path \in Seq(Frames) /\ Len(path) = w
      /\ \A k \in 1..w :
           /\ path[k].node = work[k].node
           /\ path[k].children = IF k = w THEN work[k].children \ {c} ELSE work[k].children
  BY <1>1, <1>2, <1>4, PathTakes DEF SearchType
<1> HIDE DEF w, path
<1>6. CASE c \notin DOMAIN indexOf
  <2>1. Enter(c, path) /\ c \in blocked \ Seen
    BY <1>1, <1>4, <1>6 DEF Seen
  <2>2. ASSUME NEW k \in 1..w
        PROVE  Reaches(before, work[k].node, c)
    <3>1. indexOf[work[k].node] <= indexOf[n]
      <4>1. CASE k = w
        BY <1>2, <1>3, <4>1
      <4>2. CASE k # w
        <5>1. k < w
          BY <1>2, <4>2
        <5>2. indexOf[work[k].node] < indexOf[n]
          BY <1>2, <1>3, <5>1 DEF OrderInv, w
        <5> QED BY <1>2, <1>3, <5>2
      <4> QED BY <4>1, <4>2
    <3>2. Reaches(before, work[k].node, n) /\ n \in Items /\ work[k].node \in Items
      BY <1>2, <1>3, <3>1 DEF ReachInv, w
    <3>3. Reaches(before, n, c)
      BY <1>2, <1>4, <3>2, ReachesEdge
    <3> QED BY <1>2, <3>2, <3>3, ReachesOn
  <2>3. \A k \in 1..w :
            /\ path[k].node = work[k].node /\ path[k].children \subseteq work[k].children
            /\ work[k].children \subseteq path[k].children \cup {c}
            /\ Reaches(before, work[k].node, c)
    BY <1>5, <2>2
  <2> QED BY <1>1, <1>5, <2>1, <2>3, EnterKeeps DEF w
<1>7. CASE c \in DOMAIN indexOf
  <2>1. Open(c) <=> c \in OnStack
    BY <1>4 DEF Open, Contains, OnStack
  <2>2. /\ work' = path
        /\ low' = IF c \in OnStack THEN [low EXCEPT ![n] = Min({@, indexOf[c]})] ELSE low
        /\ UNCHANGED <<before, phase, blocked, indexOf, stack, components>>
        /\ c \in Seen
    BY <1>1, <1>7, <2>1 DEF Seen
  <2> QED BY <1>1, <1>3, <1>4, <1>5, <2>2, MeetKeeps DEF w
<1> QED BY <1>6, <1>7

----------------------------------------------------------------------------
(* The search leaves a node                                                 *)

\* A path without its last node.
LEMMA FrontFacts ==
  ASSUME NEW S, NEW p \in Seq(S), p # <<>>
  PROVE  /\ Len(p) \in 1..Len(p) /\ Len(p) \in Nat \ {0} /\ Last(p) = p[Len(p)]
         /\ Front(p) \in Seq(S) /\ Len(Front(p)) = Len(p) - 1
         /\ \A k \in 1..Len(Front(p)) : Front(p)[k] = p[k]
         /\ Front(p) # <<>> => /\ Len(p) - 1 \in 1..Len(Front(p))
                               /\ Last(Front(p)) = p[Len(p) - 1]
<1> DEFINE w == Len(p)
           f == Front(p)
<1>1. w \in Nat \ {0} /\ w \in 1..w /\ Last(p) = p[w]
  <2>1. w \in Nat \ {0}
    BY EmptySeq
  <2> QED BY <2>1 DEF Last
<1>2. \A k \in 1..(w - 1) : p[k] \in S
  <2>1. \A k \in 1..(w - 1) : k \in 1..w
    BY <1>1
  <2> QED BY <2>1, ElementOfSeq
<1>3. f = SubSeq(p, 1, w - 1)
  BY DEF Front
<1> HIDE DEF w, f
<1>4. f \in Seq(S) /\ Len(f) = IF 1 <= w - 1 THEN w - 1 - 1 + 1 ELSE 0
  BY <1>1, <1>2, <1>3, SubSeqProperties
<1>5. \A k \in 1..(w - 1 - 1 + 1) : f[k] = p[1 + k - 1]
  BY <1>1, <1>2, <1>3, SubSeqProperties
<1>6. Len(f) = w - 1
  BY <1>1, <1>4
<1>7. \A k \in 1..Len(f) : f[k] = p[k]
  <2> SUFFICES ASSUME NEW k \in 1..Len(f) PROVE f[k] = p[k]
    OBVIOUS
  <2>1. k \in 1..(w - 1 - 1 + 1) /\ 1 + k - 1 = k
    BY <1>1, <1>6
  <2> QED BY <1>5, <2>1
<1>8. f # <<>> => w - 1 \in 1..Len(f) /\ Last(f) = p[w - 1]
  <2> SUFFICES ASSUME f # <<>> PROVE w - 1 \in 1..Len(f) /\ Last(f) = p[w - 1]
    OBVIOUS
  <2>1. Len(f) \in Nat \ {0}
    BY <1>4, EmptySeq
  <2>2. w - 1 \in 1..Len(f)
    BY <1>6, <2>1
  <2> QED BY <1>6, <1>7, <2>2 DEF Last
<1> QED BY <1>1, <1>4, <1>6, <1>7, <1>8 DEF w, f

\* The path loses its last node, whose children were all met, and changes no
\* other; nothing becomes met by that.
LEMMA MetStays ==
  ASSUME work \in Seq(Frames), work # <<>>, work[Len(work)].children = {},
         work' = Front(work), UNCHANGED <<before, blocked>>
  PROVE  \A x : Met(x)' \subseteq Met(x)
<1> SUFFICES ASSUME NEW x, NEW c \in Met(x)'
             PROVE  c \in Met(x)
  OBVIOUS
<1>1. ASSUME NEW k \in 1..Len(work), work[k].node = x
      PROVE  c \notin work[k].children
  <2>1. CASE k = Len(work)
    BY <2>1
  <2>2. CASE k # Len(work)
    <3>1. k \in 1..Len(work') /\ work'[k] = work[k]
      BY <2>2, FrontFacts
    <3> QED BY <1>1, <3>1 DEF Met
  <2> QED BY <2>1, <2>2
<1>2. c \in before[x] \cap blocked
  BY DEF Met
<1> QED BY <1>1, <1>2 DEF Met

\* A node whose low link is lower than its index stays on the stack: its parent
\* takes over its low link.
LEMMA LeaveKeeps ==
  ASSUME GraphInv, BlockedInv, SearchInv, phase = "components", work # <<>>,
         work[Len(work)].children = {}, work' = Front(work),
         NEW n, n = work[Len(work)].node, low[n] # indexOf[n],
         low' = IF Front(work) = <<>> THEN low
                ELSE [low EXCEPT ![Last(Front(work)).node] = Min({@, low[n]})],
         UNCHANGED <<before, phase, blocked, indexOf, stack, components>>
  PROVE  SearchInv'
<1> DEFINE w == Len(work)
           g == work[w - 1].node
<1>1. /\ before \in [Items -> SUBSET Items] /\ blocked \subseteq Items
      /\ SearchType /\ OrderInv /\ EdgeInv /\ ReachInv /\ LowInv
      /\ OnStack \subseteq Seen /\ Seen \subseteq blocked /\ Seen \subseteq Items
      /\ \A k \in 1..w : work[k].node \in OnStack /\ work[k].node \in Seen
      /\ \A x \in Seen : indexOf[x] \in Nat /\ low[x] \in Nat
  BY SearchFacts
<1>2. /\ work \in Seq(Frames) /\ w \in Nat \ {0} /\ w \in 1..w
      /\ work' \in Seq(Frames) /\ Len(work') = w - 1
      /\ \A k \in 1..(w - 1) : work'[k] = work[k]
      /\ Front(work) # <<>> => /\ w - 1 \in 1..(w - 1)
                               /\ low' = [low EXCEPT ![g] = Min({@, low[n]})]
  BY <1>1, FrontFacts DEF SearchType
<1>3. /\ Seen' = Seen /\ OnStack' = OnStack /\ Found' = Found
      /\ n \in Seen /\ n \in OnStack
      /\ \A x : Met(x)' \subseteq Met(x)
  BY <1>1, <1>2, MetStays DEF Seen, OnStack, Found
<1>4. PICK y \in OnStack : indexOf[y] = low[n] /\ Reaches(before, n, y)
  BY <1>1, <1>2 DEF LowInv
<1>5. indexOf[y] < indexOf[n]
  BY <1>1, <1>2, <1>3, <1>4 DEF LowInv
<1>6. PICK j \in 1..w : indexOf[work[j].node] <= indexOf[y] /\ Reaches(before, y, work[j].node)
  BY <1>1 DEF ReachInv
<1>7. j # w /\ w - 1 \in 1..(w - 1) /\ j \in 1..(w - 1)
  <2>1. j # w
    BY <1>1, <1>3, <1>5, <1>6
  <2> QED BY <1>2, <2>1
<1>8. Reaches(before, n, work[j].node) /\ indexOf[work[j].node] < indexOf[n]
  <2>1. Reaches(before, n, work[j].node)
    BY <1>1, <1>3, <1>4, <1>6, ReachesOn
  <2> QED BY <1>1, <1>3, <1>5, <1>6, <2>1
<1>9. g \in Seen /\ g \in OnStack /\ indexOf[g] < indexOf[n]
  BY <1>1, <1>2, <1>7 DEF OrderInv
<1>10. \A k \in 1..(w - 1) : work[k].node = g => k = w - 1
  <2> SUFFICES ASSUME NEW k \in 1..(w - 1), work[k].node = g, k # w - 1
               PROVE  FALSE
    OBVIOUS
  <2>1. k < w - 1 /\ k \in 1..w /\ w - 1 \in 1..w
    BY <1>2
  <2>2. indexOf[g] < indexOf[g]
    BY <1>1, <2>1 DEF OrderInv
  <2> QED BY <1>1, <1>9, <2>2
<1>11. /\ low' \in [Seen -> Nat] /\ low'[g] <= low[g] /\ low'[g] <= low[n]
       /\ low'[g] = low[g] \/ low'[g] = low[n]
       /\ \A x \in Seen : x # g => low'[x] = low[x]
  <2> DEFINE m == Min({low[g], low[n]})
  <2>1. Front(work) # <<>>
    BY <1>2, <1>7, EmptySeq
  <2>2. low' = [low EXCEPT ![g] = m]
    BY <1>2, <2>1
  <2>3. low[g] \in Nat /\ low[n] \in Nat /\ m = IF low[g] <= low[n] THEN low[g] ELSE low[n]
    BY <1>1, <1>3, <1>9, MinOfTwo
  <2> HIDE DEF m, g
  <2>4. m \in Nat /\ m <= low[g] /\ m <= low[n] /\ (m = low[g] \/ m = low[n])
    BY <2>3
  <2>5. low' \in [Seen -> Nat] /\ low'[g] = m /\ \A x \in Seen : x # g => low'[x] = low[x]
    BY <1>1, <1>9, <2>2, <2>4 DEF SearchType
  <2> QED BY <2>4, <2>5
<1> HIDE DEF w
<1>12. \A k \in 1..(w - 1) : k \in 1..w /\ work'[k].node = work[k].node
  BY <1>2
<1>13. SearchType'
  BY <1>1, <1>2, <1>3, <1>11 DEF SearchType
<1>14. OrderInv'
  <2>1. \A k, l \in 1..(w - 1) : k < l => indexOf[work[k].node] < indexOf[work[l].node]
    BY <1>1, <1>12 DEF OrderInv, w
  <2>2. \A k \in 1..(w - 1) : work[k].node \in OnStack
    BY <1>1, <1>12 DEF w
  <2>3. \A k, l \in 1..Len(work') : k < l => indexOf'[work'[k].node] < indexOf'[work'[l].node]
    BY <1>2, <1>12, <2>1 DEF w
  <2>4. \A k \in 1..Len(work') : work'[k].node \in OnStack'
    BY <1>2, <1>3, <1>12, <2>2 DEF w
  <2>5. \A x \in Seen' : indexOf'[x] < Cardinality(Seen')
    BY <1>1, <1>3 DEF OrderInv
  <2>6. \A k, l \in 1..Len(stack') : k < l => indexOf'[stack'[k]] < indexOf'[stack'[l]]
    BY <1>1 DEF OrderInv
  <2>7. Seen' = OnStack' \cup Found' /\ OnStack' \cap Found' = {}
    BY <1>1, <1>3 DEF OrderInv
  <2> QED BY <2>3, <2>4, <2>5, <2>6, <2>7 DEF OrderInv
<1>15. EdgeInv'
  <2>1. \A x \in Seen' : Met(x)' \subseteq Seen'
    BY <1>1, <1>3 DEF EdgeInv
  <2>2. \A k \in 1..Len(work') : work'[k].children \subseteq before'[work'[k].node] \cap blocked'
    BY <1>1, <1>2, <1>12 DEF EdgeInv, w
  <2>3. \A x \in Found' : before'[x] \cap blocked' \subseteq Found'
    BY <1>1, <1>3 DEF EdgeInv
  <2> QED BY <2>1, <2>2, <2>3 DEF EdgeInv
<1>16. ReachInv'
  <2>1. \A k \in 1..(w - 1), x \in OnStack :
           indexOf[work[k].node] <= indexOf[x] => Reaches(before, work[k].node, x)
    BY <1>1, <1>12 DEF ReachInv, w
  <2>2. ASSUME NEW x \in OnStack
        PROVE  \E k \in 1..(w - 1) :
                 indexOf[work[k].node] <= indexOf[x] /\ Reaches(before, x, work[k].node)
    <3>1. PICK k \in 1..w : indexOf[work[k].node] <= indexOf[x] /\ Reaches(before, x, work[k].node)
      BY <1>1 DEF ReachInv, w
    <3>2. CASE k = w
      <4>1. Reaches(before, x, work[j].node)
        BY <1>1, <1>3, <1>8, <3>1, <3>2, ReachesOn DEF w
      <4>2. indexOf[work[j].node] <= indexOf[x]
        BY <1>1, <1>3, <1>7, <1>8, <1>12, <3>1, <3>2 DEF w
      <4> QED BY <1>7, <4>1, <4>2
    <3>3. CASE k # w
      <4>1. k \in 1..(w - 1)
        BY <1>2, <3>3
      <4> QED BY <3>1, <4>1
    <3> QED BY <3>2, <3>3
  <2> QED BY <1>2, <1>3, <1>12, <2>1, <2>2 DEF ReachInv
<1>17. LowInv'
  <2> SUFFICES ASSUME NEW k \in 1..(w - 1)
               PROVE  /\ low'[work[k].node] <= indexOf[work[k].node]
                      /\ \E z \in OnStack : /\ indexOf[z] = low'[work[k].node]
                                            /\ Reaches(before, work[k].node, z)
                      /\ \A x \in OnStack : Under(k, x)' =>
                           \A z \in Met(x)' \cap OnStack : low'[work[k].node] <= indexOf[z]
    <3>1. 1..Len(work') = 1..(w - 1) /\ \A k \in 1..(w - 1) : work'[k].node = work[k].node
      BY <1>2, <1>12 DEF w
    <3> QED BY <1>3, <3>1 DEF LowInv
  <2> DEFINE h == work[k].node
  <2>1. /\ h \in Seen /\ low[h] <= indexOf[h]
        /\ \E z \in OnStack : indexOf[z] = low[h] /\ Reaches(before, h, z)
        /\ \A x \in OnStack : Under(k, x) => \A z \in Met(x) \cap OnStack : low[h] <= indexOf[z]
        /\ indexOf[h] \in Nat /\ low[h] \in Nat
    BY <1>1, <1>12 DEF LowInv, w
  <2>2. h = g => k = w - 1
    BY <1>10 DEF w
  <2> HIDE DEF h, g
  <2>3. /\ low'[h] \in Nat /\ low'[h] <= low[h]
        /\ h # g => low'[h] = low[h]
    <3>1. low'[h] \in Nat /\ low[h] <= low[h]
      BY <1>11, <2>1
    <3>2. h # g => low'[h] = low[h]
      BY <1>11, <2>1
    <3> QED BY <1>11, <3>1, <3>2
  <2>4. low'[h] <= indexOf[h]
    BY <2>1, <2>3
  <2>5. \E z \in OnStack : indexOf[z] = low'[h] /\ Reaches(before, h, z)
    <3>1. CASE low'[h] = low[h]
      BY <2>1, <3>1
    <3>2. CASE low'[h] # low[h]
      <4>1. h = g /\ low'[h] = low[n]
        BY <1>11, <2>3, <3>2
      <4>2. Reaches(before, g, n)
        <5>1. indexOf[g] <= indexOf[n]
          BY <1>1, <1>3, <1>9
        <5> QED BY <1>1, <1>3, <1>7, <1>12, <5>1 DEF ReachInv, g, w
      <4>3. Reaches(before, g, y)
        BY <1>1, <1>3, <1>4, <1>9, <4>2, ReachesOn
      <4> QED BY <1>4, <4>1, <4>3
    <3> QED BY <3>1, <3>2
  <2>6. ASSUME NEW x \in OnStack, Under(k, x)', NEW z \in Met(x)' \cap OnStack
        PROVE  low'[h] <= indexOf[z]
    <3>1. /\ indexOf[h] <= indexOf[x] /\ z \in Met(x) \cap OnStack
          /\ \A l \in 1..(w - 1) : k < l => indexOf[x] < indexOf[work[l].node]
          /\ indexOf[x] \in Nat /\ indexOf[z] \in Nat /\ indexOf[n] \in Nat
      BY <1>1, <1>2, <1>3, <1>12, <2>6 DEF Under, h
    <3>2. CASE indexOf[x] < indexOf[n]
      <4>1. \A l \in 1..w : k < l => indexOf[x] < indexOf[work[l].node]
        <5> SUFFICES ASSUME NEW l \in 1..w, k < l PROVE indexOf[x] < indexOf[work[l].node]
          OBVIOUS
        <5>1. l = w \/ l \in 1..(w - 1)
          BY <1>2
        <5> QED BY <3>1, <3>2, <5>1 DEF w
      <4>2. Under(k, x)
        BY <3>1, <4>1 DEF Under, h, w
      <4>3. low[h] <= indexOf[z]
        BY <2>1, <3>1, <4>2
      <4> QED BY <2>1, <2>3, <3>1, <4>3
    <3>3. CASE indexOf[n] <= indexOf[x]
      <4>1. k = w - 1
        <5> SUFFICES ASSUME k < w - 1 PROVE FALSE
          BY <1>2
        <5>1. indexOf[x] < indexOf[g]
          BY <1>7, <3>1 DEF g
        <5> QED BY <1>1, <1>9, <3>1, <3>3, <5>1
      <4>2. h = g
        BY <4>1 DEF g, h
      <4>3. Under(w, x)
        <5>1. \A l \in 1..w : ~(w < l)
          BY <1>2
        <5> QED BY <3>3, <5>1 DEF Under, w
      <4>4. low[n] <= indexOf[z]
        BY <1>1, <1>2, <3>1, <4>3 DEF LowInv, w
      <4>5. low[n] \in Nat /\ low'[g] \in Nat
        BY <1>1, <1>3, <2>3, <4>2
      <4> QED BY <1>11, <3>1, <4>2, <4>4, <4>5
    <3> QED BY <3>1, <3>2, <3>3
  <2> QED BY <2>4, <2>5, <2>6 DEF h
<1> QED BY <1>13, <1>14, <1>15, <1>16, <1>17 DEF SearchInv

\* The nodes from n to the top of the stack are those that were seen since n.
LEMMA StackSplits ==
  ASSUME SearchType, OrderInv, Seen \subseteq Items, NEW n \in OnStack
  PROVE  LET above == SelectLastInSeq(stack, LAMBDA i : i = n)
             top == SubSeq(stack, above, Len(stack))
             rest == SubSeq(stack, 1, above - 1)
         IN  /\ ToSet(top) = {x \in OnStack : indexOf[n] <= indexOf[x]}
             /\ rest \in Seq(Seen) /\ Len(rest) \in Nat
             /\ {x \in Items : \E k \in 1..Len(rest) : rest[k] = x}
                  = {x \in OnStack : indexOf[x] < indexOf[n]}
             /\ \A k \in 1..Len(rest) : k \in 1..Len(stack) /\ rest[k] = stack[k]
<1> DEFINE s == Len(stack)
           above == SelectLastInSeq(stack, LAMBDA i : i = n)
           top == SubSeq(stack, above, s)
           rest == SubSeq(stack, 1, above - 1)
<1>1. /\ s \in Nat /\ \A k \in 1..s : stack[k] \in Seen /\ stack[k] \in OnStack
      /\ \A x \in Seen : indexOf[x] \in Nat
      /\ \A x \in OnStack : x \in Seen /\ \E k \in 1..s : stack[k] = x
      /\ \A k, l \in 1..s : k < l => indexOf[stack[k]] < indexOf[stack[l]]
  <2>1. s \in Nat /\ \A k \in 1..s : stack[k] \in Seen
    BY LenProperties, ElementOfSeq DEF SearchType
  <2> QED BY <2>1 DEF SearchType, OrderInv, OnStack
<1>2. PICK p \in 1..s : stack[p] = n
  BY <1>1
<1> HIDE DEF s
<1>3. \A k \in 1..s : stack[k] = n => k = p
  <2> SUFFICES ASSUME NEW k \in 1..s, stack[k] = n, k # p
               PROVE  FALSE
    OBVIOUS
  <2>1. k < p \/ p < k
    BY <1>1
  <2>2. indexOf[n] < indexOf[n]
    BY <1>1, <1>2, <2>1
  <2> QED BY <1>1, <2>2
<1>4. above = p
  <2>1. {i \in 1..s : stack[i] = n} = {p}
    BY <1>2, <1>3
  <2>2. Max({p}) = p
    BY <1>1 DEF Max
  <2>3. above = IF {i \in 1..s : stack[i] = n} # {} THEN Max({i \in 1..s : stack[i] = n}) ELSE 0
    BY DEF SelectLastInSeq, s
  <2> QED BY <2>1, <2>2, <2>3
<1>5. \A k \in 1..s : k < p <=> indexOf[stack[k]] < indexOf[n]
  <2> SUFFICES ASSUME NEW k \in 1..s
               PROVE  k < p <=> indexOf[stack[k]] < indexOf[n]
    OBVIOUS
  <2>1. CASE k < p
    BY <1>1, <1>2, <2>1
  <2>2. CASE k = p
    BY <1>1, <1>2, <2>2
  <2>3. CASE p < k
    <3>1. indexOf[n] < indexOf[stack[k]]
      BY <1>1, <1>2, <2>3
    <3> QED BY <1>1, <2>3, <3>1
  <2> QED BY <1>1, <2>1, <2>2, <2>3
<1> HIDE DEF above, top, rest
<1>6. /\ rest \in Seq(Seen) /\ Len(rest) = p - 1
      /\ \A k \in 1..(p - 1) : rest[k] = stack[k]
  <2>1. \A i \in 1..(p - 1) : stack[i] \in Seen
    BY <1>1
  <2>2. rest = SubSeq(stack, 1, p - 1)
    BY <1>4 DEF rest
  <2>3. /\ rest \in Seq(Seen) /\ Len(rest) = IF 1 <= p - 1 THEN p - 1 - 1 + 1 ELSE 0
        /\ \A i \in 1..(p - 1 - 1 + 1) : rest[i] = stack[1 + i - 1]
    BY <1>1, <2>1, <2>2, SubSeqProperties
  <2>4. \A k \in 1..(p - 1) : k \in 1..(p - 1 - 1 + 1) /\ 1 + k - 1 = k
    BY <1>1
  <2>5. Len(rest) = p - 1
    BY <1>1, <2>3
  <2> QED BY <2>3, <2>4, <2>5
<1>7. /\ top \in Seq(Seen) /\ Len(top) = s - p + 1
      /\ \A k \in 1..(s - p + 1) : top[k] = stack[p + k - 1]
  <2>1. \A i \in p..s : stack[i] \in Seen
    BY <1>1
  <2>2. top = SubSeq(stack, p, s)
    BY <1>4 DEF top
  <2>3. /\ top \in Seq(Seen) /\ Len(top) = IF p <= s THEN s - p + 1 ELSE 0
        /\ \A i \in 1..(s - p + 1) : top[i] = stack[p + i - 1]
    BY <1>1, <2>1, <2>2, SubSeqProperties
  <2> QED BY <1>1, <2>3
<1>8. {x \in Items : \E k \in 1..Len(rest) : rest[k] = x} = {x \in OnStack : indexOf[x] < indexOf[n]}
  <2>1. ASSUME NEW k \in 1..Len(rest)
        PROVE  rest[k] \in OnStack /\ indexOf[rest[k]] < indexOf[n]
    <3>1. k \in 1..(p - 1) /\ k \in 1..s /\ k < p
      BY <1>1, <1>6
    <3> QED BY <1>1, <1>5, <1>6, <3>1
  <2>2. ASSUME NEW x \in OnStack, indexOf[x] < indexOf[n]
        PROVE  x \in Items /\ \E k \in 1..Len(rest) : rest[k] = x
    <3>1. PICK k \in 1..s : stack[k] = x
      BY <1>1
    <3>2. k \in 1..(p - 1)
      BY <1>1, <1>5, <2>2, <3>1
    <3> QED BY <1>1, <1>6, <3>1, <3>2
  <2> QED BY <2>1, <2>2
<1>9. ToSet(top) = {x \in OnStack : indexOf[n] <= indexOf[x]}
  <2>1. ToSet(top) = {top[k] : k \in 1..Len(top)}
    BY <1>7, LenProperties DEF ToSet
  <2>2. ASSUME NEW k \in 1..Len(top)
        PROVE  top[k] \in OnStack /\ indexOf[n] <= indexOf[top[k]]
    <3>1. top[k] = stack[p + k - 1] /\ p + k - 1 \in 1..s /\ ~(p + k - 1 < p)
      BY <1>1, <1>7
    <3>2. ~(indexOf[top[k]] < indexOf[n]) /\ top[k] \in OnStack /\ top[k] \in Seen
      BY <1>1, <1>5, <3>1
    <3> QED BY <1>1, <3>2
  <2>3. ASSUME NEW x \in OnStack, indexOf[n] <= indexOf[x]
        PROVE  \E k \in 1..Len(top) : top[k] = x
    <3>1. PICK k \in 1..s : stack[k] = x
      BY <1>1
    <3>2. ~(k < p)
      BY <1>1, <1>5, <2>3, <3>1
    <3>3. k - p + 1 \in 1..Len(top) /\ p + (k - p + 1) - 1 = k
      BY <1>1, <1>7, <3>2
    <3> QED BY <1>7, <3>1, <3>3
  <2> QED BY <2>1, <2>2, <2>3
<1>10. \A k \in 1..Len(rest) : k \in 1..s /\ rest[k] = stack[k]
  BY <1>1, <1>6
<1>11. Len(rest) \in Nat
  BY <1>1, <1>6
<1> QED BY <1>6, <1>8, <1>9, <1>10, <1>11 DEF above, top, rest, s

\* A node whose low link is its own index has its component on top of the stack:
\* what lies there reaches the node, and requires nothing else that is open.
LEMMA CloseKeeps ==
  ASSUME GraphInv, BlockedInv, SearchInv, FoundInv, phase = "components", work # <<>>,
         work[Len(work)].children = {}, work' = Front(work),
         NEW n, n = work[Len(work)].node, low[n] = indexOf[n],
         low' = IF Front(work) = <<>> THEN low
                ELSE [low EXCEPT ![Last(Front(work)).node] = Min({@, low[n]})],
         NEW C, C = {x \in OnStack : indexOf[n] <= indexOf[x]},
         components' = components \cup {C}, stack' \in Seq(Seen), Len(stack') \in Nat,
         OnStack' = {x \in OnStack : indexOf[x] < indexOf[n]},
         \A k \in 1..Len(stack') : k \in 1..Len(stack) /\ stack'[k] = stack[k],
         UNCHANGED <<before, phase, blocked, indexOf>>
  PROVE  SearchInv' /\ FoundInv'
<1> DEFINE w == Len(work)
           g == work[w - 1].node
           Over == C \cup Found \cup (Items \ blocked)
           Past == Found \cup (Items \ blocked)
<1>1. /\ before \in [Items -> SUBSET Items] /\ blocked \subseteq Items
      /\ SearchType /\ OrderInv /\ EdgeInv /\ ReachInv /\ LowInv
      /\ OnStack \subseteq Seen /\ Seen \subseteq blocked /\ Seen \subseteq Items
      /\ \A k \in 1..w : work[k].node \in OnStack /\ work[k].node \in Seen
      /\ \A x \in Seen : indexOf[x] \in Nat /\ low[x] \in Nat
  BY SearchFacts
<1>2. /\ work \in Seq(Frames) /\ w \in Nat \ {0} /\ w \in 1..w
      /\ work' \in Seq(Frames) /\ Len(work') = w - 1
      /\ \A k \in 1..(w - 1) : work'[k] = work[k]
      /\ Front(work) # <<>> => /\ w - 1 \in 1..(w - 1)
                               /\ low' = [low EXCEPT ![g] = Min({@, low[n]})]
  BY <1>1, FrontFacts DEF SearchType
<1>3. /\ Seen' = Seen /\ Found' = Found \cup C
      /\ n \in Seen /\ n \in OnStack /\ n \in C
      /\ \A x : Met(x)' \subseteq Met(x)
      /\ Seen = OnStack \cup Found /\ OnStack \cap Found = {}
  <2>1. Found' = Found \cup C
    BY DEF Found
  <2> QED BY <1>1, <1>2, <2>1, MetStays DEF Seen, OrderInv
<1>4. \A k \in 1..(w - 1) : /\ k \in 1..w /\ k < w /\ work'[k].node = work[k].node
                            /\ indexOf[work[k].node] < indexOf[n]
  BY <1>1, <1>2 DEF OrderInv
<1>5. low' = low
  <2> SUFFICES ASSUME Front(work) # <<>> PROVE low' = low
    OBVIOUS
  <2>1. w - 1 \in 1..(w - 1) /\ low' = [low EXCEPT ![g] = Min({@, low[n]})]
    BY <1>2
  <2>2. g \in Seen /\ low[g] <= indexOf[g] /\ indexOf[g] < indexOf[n]
    BY <1>1, <1>4, <2>1 DEF LowInv
  <2>3. Min({low[g], low[n]}) = IF low[g] <= low[n] THEN low[g] ELSE low[n]
    BY <1>1, <1>3, <2>2, MinOfTwo
  <2> HIDE DEF g
  <2>4. low[g] \in Nat /\ indexOf[g] \in Nat /\ indexOf[n] \in Nat /\ low \in [Seen -> Nat]
    BY <1>1, <1>3, <2>2 DEF SearchType
  <2>5. low[g] <= low[n]
    BY <2>2, <2>4
  <2>6. Min({low[g], low[n]}) = low[g]
    BY <2>3, <2>5
  <2>7. low' = [low EXCEPT ![g] = low[g]]
    BY <2>1, <2>6
  <2> QED BY <2>2, <2>4, <2>7
<1> HIDE DEF w
<1>6. ASSUME NEW x \in C, NEW y \in before[x] \cap blocked
      PROVE  y \in Found \cup C
  <2>1. x \in OnStack /\ x \in Seen /\ indexOf[n] <= indexOf[x]
    BY <1>1
  <2>2. ASSUME NEW k \in 1..w, work[k].node = x
        PROVE  y \notin work[k].children
    <3>1. ~(indexOf[x] < indexOf[n])
      BY <1>1, <1>3, <2>1
    <3>2. k = w
      <4> SUFFICES ASSUME k # w PROVE FALSE
        OBVIOUS
      <4>1. k \in 1..(w - 1)
        BY <1>2
      <4> QED BY <1>4, <2>2, <3>1, <4>1
    <3> QED BY <3>2 DEF w
  <2>3. y \in Met(x)
    BY <1>6, <2>2 DEF Met, w
  <2>4. y \in Seen
    BY <1>1, <2>1, <2>3 DEF EdgeInv
  <2>5. CASE y \in OnStack
    <3>1. Under(w, x)
      <4>1. \A l \in 1..w : ~(w < l)
        BY <1>2
      <4> QED BY <2>1, <4>1 DEF Under, w
    <3>2. low[n] <= indexOf[y]
      BY <1>1, <1>2, <2>1, <2>3, <2>5, <3>1 DEF LowInv, w
    <3> QED BY <2>5, <3>2
  <2> QED BY <1>3, <2>4, <2>5
<1>7. SearchType'
  BY <1>1, <1>2, <1>3, <1>5 DEF SearchType
<1>8. OrderInv'
  <2>1. \A x \in Seen' : indexOf'[x] < Cardinality(Seen')
    BY <1>1, <1>3 DEF OrderInv
  <2>2. \A k, l \in 1..Len(stack') : k < l => indexOf'[stack'[k]] < indexOf'[stack'[l]]
    BY <1>1 DEF OrderInv
  <2>3. \A k, l \in 1..(w - 1) : k < l => indexOf[work[k].node] < indexOf[work[l].node]
    BY <1>1, <1>4 DEF OrderInv, w
  <2>4. \A k, l \in 1..Len(work') : k < l => indexOf'[work'[k].node] < indexOf'[work'[l].node]
    BY <1>2, <1>4, <2>3 DEF w
  <2>5. \A k \in 1..Len(work') : work'[k].node \in OnStack'
    BY <1>1, <1>2, <1>4 DEF w
  <2>6. Seen' = OnStack' \cup Found' /\ OnStack' \cap Found' = {}
    <3>1. \A x \in OnStack : indexOf[x] < indexOf[n] <=> ~(indexOf[n] <= indexOf[x])
      BY <1>1, <1>3
    <3> QED BY <1>3, <3>1
  <2> QED BY <2>1, <2>2, <2>4, <2>5, <2>6 DEF OrderInv
<1>9. EdgeInv'
  <2>1. \A x \in Seen' : Met(x)' \subseteq Seen'
    BY <1>1, <1>3 DEF EdgeInv
  <2>2. \A k \in 1..Len(work') : work'[k].children \subseteq before'[work'[k].node] \cap blocked'
    BY <1>1, <1>2, <1>4 DEF EdgeInv, w
  <2>3. \A x \in Found' : before'[x] \cap blocked' \subseteq Found'
    BY <1>1, <1>3, <1>6 DEF EdgeInv
  <2> QED BY <2>1, <2>2, <2>3 DEF EdgeInv
<1>10. ReachInv'
  <2>1. \A k \in 1..(w - 1), x \in OnStack :
           indexOf[work[k].node] <= indexOf[x] => Reaches(before, work[k].node, x)
    BY <1>1, <1>4 DEF ReachInv, w
  <2>2. ASSUME NEW x \in OnStack, indexOf[x] < indexOf[n]
        PROVE  \E k \in 1..(w - 1) :
                 indexOf[work[k].node] <= indexOf[x] /\ Reaches(before, x, work[k].node)
    <3>1. PICK k \in 1..w : indexOf[work[k].node] <= indexOf[x] /\ Reaches(before, x, work[k].node)
      BY <1>1 DEF ReachInv, w
    <3>2. k # w
      BY <1>1, <1>3, <2>2, <3>1 DEF w
    <3>3. k \in 1..(w - 1)
      BY <1>2, <3>2
    <3> QED BY <3>1, <3>3
  <2>3. 1..Len(work') = 1..(w - 1) /\ \A k \in 1..(w - 1) : work'[k].node = work[k].node
    BY <1>2, <1>4 DEF w
  <2> QED BY <2>1, <2>2, <2>3 DEF ReachInv
<1>11. LowInv'
  <2> SUFFICES ASSUME NEW k \in 1..Len(work')
               PROVE  /\ low'[work'[k].node] <= indexOf'[work'[k].node]
                      /\ \E z \in OnStack' : /\ indexOf'[z] = low'[work'[k].node]
                                             /\ Reaches(before', work'[k].node, z)
                      /\ \A x \in OnStack' : Under(k, x)' =>
                           \A z \in Met(x)' \cap OnStack' : low'[work'[k].node] <= indexOf'[z]
    BY DEF LowInv
  <2>1. k \in 1..(w - 1) /\ work'[k].node = work[k].node
    BY <1>2, <1>4 DEF w
  <2> DEFINE h == work[k].node
  <2>2. /\ h \in Seen /\ low[h] <= indexOf[h] /\ indexOf[h] < indexOf[n]
        /\ \E z \in OnStack : indexOf[z] = low[h] /\ Reaches(before, h, z)
        /\ \A x \in OnStack : Under(k, x) => \A z \in Met(x) \cap OnStack : low[h] <= indexOf[z]
        /\ indexOf[h] \in Nat /\ low[h] \in Nat /\ indexOf[n] \in Nat
    BY <1>1, <1>3, <1>4, <2>1 DEF LowInv, w
  <2> HIDE DEF h
  <2>3. \E z \in OnStack' : indexOf[z] = low[h] /\ Reaches(before, h, z)
    <3>1. PICK z \in OnStack : indexOf[z] = low[h] /\ Reaches(before, h, z)
      BY <2>2
    <3>2. indexOf[z] < indexOf[n]
      BY <2>2, <3>1
    <3> QED BY <3>1, <3>2
  <2>4. ASSUME NEW x \in OnStack', Under(k, x)', NEW z \in Met(x)' \cap OnStack'
        PROVE  low[h] <= indexOf[z]
    <3>1. /\ x \in OnStack /\ indexOf[x] < indexOf[n] /\ z \in Met(x) \cap OnStack
          /\ work'[k].node = work[k].node /\ indexOf[h] <= indexOf[x]
          /\ \A l \in 1..(w - 1) : k < l => indexOf[x] < indexOf[work[l].node]
      BY <1>2, <1>3, <1>4, <2>4, <2>1 DEF Under, h, w
    <3>2. \A l \in 1..w : k < l => indexOf[x] < indexOf[work[l].node]
      <4> SUFFICES ASSUME NEW l \in 1..w, k < l PROVE indexOf[x] < indexOf[work[l].node]
        OBVIOUS
      <4>1. l = w \/ l \in 1..(w - 1)
        BY <1>2
      <4> QED BY <3>1, <4>1 DEF w
    <3>3. Under(k, x)
      BY <3>1, <3>2 DEF Under, h, w
    <3> QED BY <2>2, <3>1, <3>3
  <2> QED BY <1>5, <2>2, <2>3, <2>4, <2>1 DEF h
<1>12. ClosedUnder(before, Past) /\ ClosedUnder(before, Over)
  <2>1. \A x \in Items \ blocked : before[x] \subseteq Items \ blocked
    BY <1>1 DEF BlockedInv, ClosedUnder
  <2>2. \A x \in Found : before[x] \subseteq Past
    BY <1>1, <1>3 DEF EdgeInv
  <2>3. \A x \in C : before[x] \subseteq Over
    BY <1>1, <1>6
  <2> QED BY <2>1, <2>2, <2>3 DEF ClosedUnder
<1>13. ASSUME NEW x \in C, NEW y \in Items
       PROVE  y \in C <=> Together(before, x, y)
  <2>1. x \in OnStack /\ x \in Items /\ x \in blocked /\ indexOf[n] <= indexOf[x]
    BY <1>1
  <2>2. \A z \in C : z \in OnStack /\ z \in Items /\ Reaches(before, n, z)
    BY <1>1, <1>2 DEF ReachInv, w
  <2>3. \A z \in C : Reaches(before, z, n)
    <3> SUFFICES ASSUME NEW z \in C PROVE Reaches(before, z, n)
      OBVIOUS
    <3>1. PICK k \in 1..w : Reaches(before, z, work[k].node)
      BY <1>1 DEF ReachInv, w
    <3>2. Reaches(before, work[k].node, n)
      <4>1. indexOf[work[k].node] <= indexOf[n]
        <5>1. CASE k = w
          BY <1>1, <1>3, <5>1 DEF w
        <5>2. CASE k # w
          <6>1. k \in 1..(w - 1)
            BY <1>2, <5>2
          <6>2. indexOf[work[k].node] < indexOf[n] /\ work[k].node \in Seen
            BY <1>1, <1>4, <6>1 DEF w
          <6> QED BY <1>1, <1>3, <6>2
        <5> QED BY <5>1, <5>2
      <4> QED BY <1>1, <1>3, <4>1 DEF ReachInv, w
    <3>3. z \in Items /\ work[k].node \in Items
      BY <1>1, <2>2 DEF w
    <3> QED BY <1>1, <3>1, <3>2, <3>3, ReachesOn
  <2>4. ASSUME y \in C
        PROVE  Together(before, x, y)
    <3>1. n \in Items
      BY <1>1, <1>3
    <3> QED BY <1>1, <2>1, <2>2, <2>3, <2>4, <3>1, ReachesOn DEF Together
  <2>5. ASSUME Together(before, x, y)
        PROVE  y \in C
    <3>1. Found \subseteq Items
      BY <1>1, <1>3
    <3>2. Over \in SUBSET Items /\ Past \in SUBSET Items /\ x \in Over
      BY <1>1, <2>2, <3>1
    <3>3. x \notin Past
      BY <1>3, <2>1
    <3> HIDE DEF Over, Past
    <3>4. y \in Over
      BY <1>1, <1>12, <2>5, <3>2, ReachesStays DEF Together
    <3>5. y \notin Past
      BY <1>1, <1>12, <2>5, <3>2, <3>3, ReachesStays DEF Together
    <3> QED BY <3>4, <3>5 DEF Over, Past
  <2> QED BY <2>4, <2>5
<1>14. FoundInv'
  <2>1. C # {} /\ C \subseteq blocked
    BY <1>1, <1>3
  <2> HIDE DEF Over, Past
  <2> QED BY <1>13, <2>1 DEF FoundInv
<1> QED BY <1>7, <1>8, <1>9, <1>10, <1>11, <1>14 DEF SearchInv

LEMMA RetreatStep ==
  ASSUME GraphInv, BlockedInv, SearchInv, FoundInv, Retreat
  PROVE  SearchInv' /\ FoundInv'
<1> DEFINE n == Last(work).node
           above == SelectLastInSeq(stack, LAMBDA i : i = n)
           top == SubSeq(stack, above, Len(stack))
           rest == SubSeq(stack, 1, above - 1)
           C == {x \in OnStack : indexOf[n] <= indexOf[x]}
<1>1. n = work[Len(work)].node /\ Last(work).children = work[Len(work)].children
  BY DEF Last
<1>2. /\ phase = "components" /\ work # <<>> /\ Last(work).children = {}
      /\ work' = Front(work)
      /\ low' = IF Front(work) = <<>> THEN low
                ELSE [low EXCEPT ![Last(Front(work)).node] = Min({@, low[n]})]
      /\ IF low[n] = indexOf[n]
         THEN components' = components \cup {ToSet(top)} /\ stack' = rest
         ELSE UNCHANGED <<components, stack>>
      /\ UNCHANGED <<before, phase, blocked, indexOf>>
  BY DEF Retreat, countVars
<1> HIDE DEF n
<1>3. /\ SearchType /\ OrderInv /\ Seen \subseteq Items /\ n \in OnStack
  <2>1. Len(work) \in 1..Len(work) /\ SearchType /\ OrderInv /\ Seen \subseteq Items
    BY <1>2, SearchFacts, FrontFacts DEF SearchType
  <2> QED BY <1>1, <2>1 DEF OrderInv
<1>4. CASE low[n] # indexOf[n]
  <2>1. UNCHANGED <<before, phase, blocked, indexOf, stack, components>>
    BY <1>2, <1>4
  <2>2. SearchInv'
    BY <1>1, <1>2, <1>4, <2>1, LeaveKeeps
  <2> QED BY <2>1, <2>2 DEF FoundInv
<1>5. CASE low[n] = indexOf[n]
  <2>1. /\ ToSet(top) = C
        /\ rest \in Seq(Seen) /\ Len(rest) \in Nat
        /\ {x \in Items : \E k \in 1..Len(rest) : rest[k] = x}
             = {x \in OnStack : indexOf[x] < indexOf[n]}
        /\ \A k \in 1..Len(rest) : k \in 1..Len(stack) /\ rest[k] = stack[k]
    BY <1>3, StackSplits
  <2> HIDE DEF top, rest, above
  <2>2. /\ components' = components \cup {C} /\ stack' \in Seq(Seen) /\ Len(stack') \in Nat
        /\ \A k \in 1..Len(stack') : k \in 1..Len(stack) /\ stack'[k] = stack[k]
    BY <1>2, <1>5, <2>1
  <2>3. OnStack' = {x \in OnStack : indexOf[x] < indexOf[n]}
    BY <1>2, <1>5, <2>1 DEF OnStack
  <2> HIDE DEF C
  <2>4. C = {x \in OnStack : indexOf[n] <= indexOf[x]}
    BY DEF C
  <2> QED BY <1>1, <1>2, <1>5, <2>2, <2>3, <2>4, CloseKeeps
<1> QED BY <1>4, <1>5

----------------------------------------------------------------------------
(* The cycle of an item                                                     *)

\* The component of an item has what is on a common cycle with it.
LEMMA ComponentMeans ==
  ASSUME GraphInv, BlockedInv, FoundInv, AllFoundInv, CycleInv, phase \in {"cycle", "path"}
  PROVE  /\ before \in [Items -> SUBSET Items]
         /\ start \in Component /\ start \in Items /\ Component \subseteq Items
         /\ \A y \in Items : y \in Component <=> Together(before, start, y)
<1>1. /\ before \in [Items -> SUBSET Items] /\ blocked \subseteq Items
      /\ Found = blocked /\ start \in blocked
  BY DEF GraphInv, BlockedInv, AllFoundInv, CycleInv
<1>2. \E c \in components : start \in c
  BY <1>1 DEF Found
<1>3. Component \in components /\ start \in Component
  BY <1>2 DEF Component
<1> QED BY <1>1, <1>3 DEF FoundInv

\* The item is in the middle of a search: it and what was visited.
LEMMA CycleFacts ==
  ASSUME GraphInv, BlockedInv, FoundInv, AllFoundInv, CycleInv, phase = "cycle"
  PROVE  /\ Visited \subseteq Items /\ start \in Visited
         /\ Len(queue) \in Nat /\ \A k \in 1..Len(queue) : queue[k] \in Visited
         /\ \A k \in 1..Len(queue) : queue[k] \in Waiting
<1>1. Visited \subseteq Items
  BY ComponentMeans DEF CycleInv
<1>2. Len(queue) \in Nat /\ \A k \in 1..Len(queue) : queue[k] \in Visited
  BY LenProperties, ElementOfSeq DEF CycleInv
<1> QED BY <1>1, <1>2 DEF Visited, Waiting

\* Nothing that was expanded requires the item: else the search were over.
\* So if nothing waits, what was visited and what does not reach the item is all
\* that the item reaches, which is on a cycle.
LEMMA CycleIsFound ==
  ASSUME GraphInv, BlockedInv, FoundInv, AllFoundInv, CycleInv, phase = "cycle"
  PROVE  queue # <<>>
<1> SUFFICES ASSUME queue = <<>> PROVE FALSE
  OBVIOUS
<1> DEFINE S == (Visited \ {start}) \cup {p \in Items : ~Reaches(before, p, start)}
<1>1. /\ before \in [Items -> SUBSET Items] /\ start \in Items /\ start \in Component
      /\ Component \subseteq Items
      /\ \A y \in Items : y \in Component <=> Together(before, start, y)
  BY ComponentMeans
<1>2. /\ start \in Cyclic(before) /\ start \notin DOMAIN parents
      /\ Visited \subseteq Component /\ Visited \subseteq Items
  BY CycleFacts DEF CycleInv
<1>3. Waiting = {}
  BY DEF Waiting
<1>4. \A x \in Visited : before[x] \cap Component \subseteq DOMAIN parents
  BY <1>3 DEF CycleInv, LevelInv
<1>5. ASSUME NEW x \in Visited, NEW y \in before[x]
      PROVE  y \in S
  <2>1. x \in Items /\ y \in Items /\ Reaches(before, start, x)
    BY <1>1, <1>2 DEF Together
  <2>2. Reaches(before, start, y)
    BY <1>1, <2>1, ReachesEdge, ReachesOn
  <2>3. CASE Reaches(before, y, start)
    <3>1. y \in Component
      BY <1>1, <2>1, <2>2, <2>3 DEF Together
    <3>2. y \in DOMAIN parents
      BY <1>4, <3>1
    <3> QED BY <1>2, <3>2 DEF Visited
  <2>4. CASE ~Reaches(before, y, start)
    BY <2>1, <2>4
  <2> QED BY <2>3, <2>4
<1>6. ASSUME NEW x \in Items, ~Reaches(before, x, start), NEW y \in before[x]
      PROVE  y \in S
  <2>1. y \in Items
    BY <1>1
  <2>2. ~Reaches(before, y, start)
    BY <1>1, <1>6, <2>1, ReachesEdge, ReachesOn
  <2> QED BY <2>1, <2>2
<1>7. S \in SUBSET Items /\ ClosedUnder(before, S)
  BY <1>2, <1>5, <1>6 DEF ClosedUnder
<1>8. before[start] \subseteq S /\ start \notin S
  <2>1. start \in Visited /\ Reaches(before, start, start)
    BY DEF Visited, Reaches
  <2> QED BY <1>5, <2>1
<1> HIDE DEF S
<1>9. Ancestors(before, start) \subseteq S
  BY <1>1, <1>7, <1>8, AncestorsTake
<1> QED BY <1>1, <1>2, <1>8, <1>9, CyclicMeans

\* A closed walk from the item stays in its component.
LEMMA WalkStays ==
  ASSUME GraphInv, BlockedInv, FoundInv, AllFoundInv, CycleInv, phase = "cycle",
         NEW n \in Nat \ {0}, NEW walk \in [1..n -> Items], walk[1] = start, Closed(walk)
  PROVE  /\ start \in before[walk[n]]
         /\ \A k \in 1..(n - 1) : walk[k + 1] \in before[walk[k]]
         /\ \A k \in 1..n : walk[k] \in Component
<1>1. /\ before \in [Items -> SUBSET Items] /\ start \in Items
      /\ \A y \in Items : y \in Component <=> Together(before, start, y)
  BY ComponentMeans
<1>2. Len(walk) = n
  <2>1. walk \in Seq(Items)
    BY SeqDef
  <2>2. Len(walk) \in Nat /\ walk \in [1..Len(walk) -> Items]
    BY <2>1, LenProperties
  <2>3. 1..Len(walk) = 1..n
    BY <2>2
  <2> QED BY <2>2, <2>3
<1>3. /\ start \in before[walk[n]]
      /\ \A k \in 1..(n - 1) : walk[k + 1] \in before[walk[k]]
  <2>1. \A k \in 1..n : (IF k = n THEN walk[1] ELSE walk[k + 1]) \in before[walk[k]]
    BY <1>2 DEF Closed
  <2>2. n \in 1..n /\ \A k \in 1..(n - 1) : k \in 1..n /\ k # n
    OBVIOUS
  <2> QED BY <2>1, <2>2
<1>4. \A k \in 1..n : Reaches(before, start, walk[k])
  <2> DEFINE B == {k \in 1..n : ~Reaches(before, start, walk[k])}
             m == Min(B)
  <2> SUFFICES ASSUME B # {} PROVE FALSE
    OBVIOUS
  <2>1. m \in B /\ \A k \in B : m <= k
    <3>1. B \in SUBSET Nat
      OBVIOUS
    <3> HIDE DEF B
    <3> QED BY <3>1, MinIsLeast
  <2> HIDE DEF m
  <2>2. m \in 1..n /\ m # 1
    BY <2>1 DEF Reaches
  <2>3. m - 1 \in 1..(n - 1) /\ m - 1 \in 1..n /\ ~(m <= m - 1) /\ (m - 1) + 1 = m
    BY <2>2
  <2>4. Reaches(before, start, walk[m - 1]) /\ walk[m] \in before[walk[m - 1]]
    BY <1>3, <2>1, <2>3
  <2>5. walk[m - 1] \in Items /\ walk[m] \in Items
    BY <2>2, <2>3
  <2>6. Reaches(before, start, walk[m])
    BY <1>1, <2>4, <2>5, ReachesEdge, ReachesOn
  <2> QED BY <2>1, <2>6
<1>5. \A k \in 1..n : Reaches(before, walk[k], start)
  <2> DEFINE B == {k \in 1..n : ~Reaches(before, walk[n + 1 - k], start)}
             m == Min(B)
  <2> SUFFICES ASSUME B # {} PROVE FALSE
    <3> SUFFICES ASSUME NEW k \in 1..n, ~Reaches(before, walk[k], start) PROVE B # {}
      OBVIOUS
    <3>1. n + 1 - k \in 1..n /\ n + 1 - (n + 1 - k) = k
      OBVIOUS
    <3> QED BY <3>1
  <2>1. m \in B /\ \A k \in B : m <= k
    <3>1. B \in SUBSET Nat
      OBVIOUS
    <3> HIDE DEF B
    <3> QED BY <3>1, MinIsLeast
  <2> HIDE DEF m
  <2>2. m \in 1..n /\ n + 1 - m \in 1..n /\ walk[n + 1 - m] \in Items
    BY <2>1
  <2>3. CASE m = 1
    <3>1. n + 1 - m = n
      BY <2>3
    <3> QED BY <1>1, <1>3, <2>1, <2>2, <3>1, ReachesEdge
  <2>4. CASE m # 1
    <3>1. /\ m - 1 \in 1..n /\ ~(m <= m - 1) /\ n + 1 - m \in 1..(n - 1)
          /\ n + 1 - (m - 1) = (n + 1 - m) + 1 /\ n + 1 - (m - 1) \in 1..n
      BY <2>2, <2>4
    <3>2. Reaches(before, walk[n + 1 - (m - 1)], start)
      BY <2>1, <3>1
    <3>3. walk[n + 1 - (m - 1)] \in before[walk[n + 1 - m]] /\ walk[n + 1 - (m - 1)] \in Items
      BY <1>3, <3>1
    <3>4. Reaches(before, walk[n + 1 - m], walk[n + 1 - (m - 1)])
      BY <1>1, <2>2, <3>3, ReachesEdge
    <3>5. Reaches(before, walk[n + 1 - m], start)
      BY <1>1, <2>2, <3>2, <3>3, <3>4, ReachesOn
    <3> QED BY <2>1, <3>5
  <2> QED BY <2>3, <2>4
<1> QED BY <1>1, <1>3, <1>4, <1>5 DEF Together

\* A shorter closed walk would have been found: its nodes have lower levels than
\* the head of the queue, so all were expanded, and the last requires the item.
LEMMA NoneBefore ==
  ASSUME GraphInv, BlockedInv, FoundInv, AllFoundInv, CycleInv, phase = "cycle", queue # <<>>,
         NEW d \in [Items -> Nat], Levels(d), LevelInv(d)
  PROVE  NoneUpTo(d[Head(queue)] - 1)
<1> DEFINE h == Head(queue)
<1>1. /\ h = queue[1] /\ h \in Visited /\ h \in Items /\ d[h] \in Nat /\ Visited \subseteq Items
      /\ Len(queue) \in Nat /\ 1 \in 1..Len(queue)
      /\ \A k \in 1..Len(queue) : queue[k] \in Items
  <2>1. queue \in Seq(Visited) /\ Visited \subseteq Items /\ Len(queue) \in Nat
        /\ \A k \in 1..Len(queue) : queue[k] \in Visited
    BY CycleFacts DEF CycleInv
  <2>2. Len(queue) \in Nat \ {0} /\ h = queue[1]
    BY <2>1, EmptySeq, HeadTailProperties
  <2> QED BY <2>1, <2>2
<1> SUFFICES ASSUME NEW n \in 1..(d[h] - 1), NEW walk \in [1..n -> Items], walk[1] = start,
                    Closed(walk)
             PROVE  FALSE
  BY DEF NoneUpTo
<1>2. n \in Nat \ {0} /\ n < d[h]
  BY <1>1
<1>3. /\ start \in before[walk[n]] /\ start \in Component /\ start \notin DOMAIN parents
      /\ \A k \in 1..(n - 1) : walk[k + 1] \in before[walk[k]]
      /\ \A k \in 1..n : walk[k] \in Component
  BY <1>2, WalkStays, ComponentMeans DEF CycleInv
<1> HIDE DEF h
<1>4. ASSUME NEW x \in Visited, d[x] < d[h]
      PROVE  x \notin Waiting
  <2> SUFFICES ASSUME NEW k \in 1..Len(queue), queue[k] = x PROVE FALSE
    BY DEF Waiting
  <2>1. d[h] <= d[x]
    <3>1. CASE k = 1
      BY <1>1, <3>1
    <3>2. CASE k # 1
      BY <1>1, <3>2 DEF LevelInv
    <3> QED BY <3>1, <3>2
  <2> QED BY <1>1, <1>4, <2>1
<1>5. \A k \in 1..n : walk[k] \in Visited /\ d[walk[k]] <= k
  <2> DEFINE B == {k \in 1..n : ~(walk[k] \in Visited /\ d[walk[k]] <= k)}
             m == Min(B)
  <2> SUFFICES ASSUME B # {} PROVE FALSE
    OBVIOUS
  <2>1. m \in B /\ \A k \in B : m <= k
    <3>1. B \in SUBSET Nat
      OBVIOUS
    <3> HIDE DEF B
    <3> QED BY <3>1, MinIsLeast
  <2> HIDE DEF m
  <2>2. m \in 1..n /\ m # 1
    BY <2>1 DEF Visited, Levels
  <2>3. m - 1 \in 1..(n - 1) /\ m - 1 \in 1..n /\ ~(m <= m - 1) /\ (m - 1) + 1 = m
    BY <2>2
  <2>4. walk[m - 1] \in Visited /\ d[walk[m - 1]] <= m - 1
    BY <2>1, <2>3
  <2>5. d[walk[m - 1]] < d[h] /\ walk[m - 1] \in Items /\ walk[m] \in Items
    BY <1>1, <1>2, <2>2, <2>3, <2>4
  <2>6. walk[m - 1] \in Visited \ Waiting
    BY <1>4, <2>4, <2>5
  <2>7. walk[m] \in before[walk[m - 1]] \cap Component
    BY <1>3, <2>2, <2>3
  <2>8. walk[m] \in Visited /\ d[walk[m]] <= d[walk[m - 1]] + 1
    BY <2>6, <2>7 DEF LevelInv, Visited
  <2>9. d[walk[m]] <= m
    BY <2>2, <2>4, <2>5, <2>8
  <2> QED BY <2>1, <2>8, <2>9
<1>6. walk[n] \in Visited \ Waiting
  <2>1. walk[n] \in Visited /\ d[walk[n]] <= n /\ walk[n] \in Items
    BY <1>2, <1>5
  <2>2. d[walk[n]] < d[h]
    BY <1>1, <1>2, <2>1
  <2> QED BY <1>4, <2>1, <2>2
<1> QED BY <1>3, <1>6 DEF LevelInv

\* The item is not required by the head of the queue: what that requires and was
\* not visited yet goes to the end of the queue, one level further.
LEMMA ExpandKeeps ==
  ASSUME GraphInv, BlockedInv, FoundInv, AllFoundInv, CycleInv, phase = "cycle", queue # <<>>,
         start \notin before[Head(queue)] \cap Component,
         NEW new, new = (before[Head(queue)] \cap Component) \ DOMAIN parents,
         parents' = Extended(parents, new, Head(queue)), queue' = QueueAfter(new),
         UNCHANGED <<before, phase, components, start>>
  PROVE  CycleInv'
<1> DEFINE h == Head(queue)
           t == Tail(queue)
           a == Ascending(new)
<1>1. /\ queue \in Seq(Visited) /\ Visited \subseteq Items /\ Visited \subseteq Component
      /\ Component \subseteq Items /\ start \in Items
      /\ start \notin DOMAIN parents /\ start \in Cyclic(before)
      /\ Len(queue) \in Nat /\ \A k \in 1..Len(queue) : queue[k] \in Visited
  BY CycleFacts, ComponentMeans DEF CycleInv
<1>2. PICK d \in [Items -> Nat] : Levels(d) /\ LevelInv(d)
  BY DEF CycleInv
<1>3. /\ h = queue[1] /\ h \in Visited /\ t \in Seq(Visited) /\ Len(t) = Len(queue) - 1
      /\ \A k \in 1..Len(t) : t[k] = queue[k + 1]
      /\ Len(queue) \in Nat \ {0} /\ Len(t) \in Nat
  <2>1. Len(queue) \in Nat \ {0}
    BY <1>1, EmptySeq
  <2> QED BY <1>1, <2>1, HeadTailProperties
<1>4. /\ new \subseteq Items /\ new \subseteq Component /\ new \cap Visited = {}
      /\ new \subseteq before[h] /\ before[h] \cap Component \subseteq new \cup DOMAIN parents
  BY <1>1 DEF Visited
<1>5. /\ a \in Seq(new) /\ Len(a) \in Nat /\ \A k \in 1..Len(a) : a[k] \in new
      /\ \A x \in new : \E k \in 1..Len(a) : a[k] = x
  <2>1. Lists(a, new)
    BY <1>4, AscendingLists
  <2> QED BY <2>1, LenProperties, ElementOfSeq DEF Lists
<1> HIDE DEF h, t, a
<1>6. /\ DOMAIN parents' = DOMAIN parents \cup new /\ Visited' = Visited \cup new
      /\ \A x \in DOMAIN parents' : parents'[x] = IF x \in new THEN h ELSE parents[x]
  BY DEF Extended, Visited, h
<1>7. /\ queue' \in Seq(Visited') /\ Len(queue') = Len(t) + Len(a)
      /\ \A k \in 1..(Len(t) + Len(a)) : queue'[k] = IF k <= Len(t) THEN t[k] ELSE a[k - Len(t)]
  <2>1. t \in Seq(Visited') /\ a \in Seq(Visited')
    BY <1>3, <1>5, <1>6, SeqMonotonic
  <2>2. queue' = t \o a
    BY DEF QueueAfter, t, a
  <2>3. /\ t \o a \in Seq(Visited') /\ Len(t \o a) = Len(t) + Len(a)
        /\ \A k \in 1..(Len(t) + Len(a)) : (t \o a)[k] = IF k <= Len(t) THEN t[k] ELSE a[k - Len(t)]
    BY <2>1, ConcatProperties
  <2> QED BY <2>2, <2>3
<1>8. Component' = Component
  BY DEF Component
<1>9. PICK e \in [Items -> Nat] :
        /\ d[h] \in Nat /\ \A x \in new : e[x] = d[h] + 1
        /\ \A x \in Visited : e[x] = d[x] /\ d[x] \in Nat
  <2> DEFINE e == [x \in Items |-> IF x \in new THEN d[h] + 1 ELSE d[x]]
  <2>1. /\ e \in [Items -> Nat] /\ d[h] \in Nat /\ \A x \in new : e[x] = d[h] + 1
        /\ \A x \in Visited : e[x] = d[x] /\ d[x] \in Nat
    BY <1>1, <1>2, <1>3, <1>4
  <2> QED BY <2>1
<1>10. \A k \in 1..Len(queue) : d[h] <= d[queue[k]] /\ d[queue[k]] <= d[h] + 1
  <2> SUFFICES ASSUME NEW k \in 1..Len(queue)
               PROVE  d[h] <= d[queue[k]] /\ d[queue[k]] <= d[h] + 1
    OBVIOUS
  <2>1. CASE k = 1
    BY <1>3, <1>9, <2>1
  <2>2. CASE k # 1
    <3>1. 1 \in 1..Len(queue) /\ 1 < k
      BY <1>3, <2>2
    <3> QED BY <1>2, <1>3, <3>1 DEF LevelInv
  <2> QED BY <2>1, <2>2
<1>11. \A k \in 1..Len(queue') :
         /\ d[h] <= e[queue'[k]] /\ e[queue'[k]] <= d[h] + 1 /\ e[queue'[k]] \in Nat
         /\ k > Len(t) => e[queue'[k]] = d[h] + 1
         /\ k <= Len(t) => k + 1 \in 1..Len(queue) /\ e[queue'[k]] = d[queue[k + 1]]
  <2> SUFFICES ASSUME NEW k \in 1..Len(queue')
               PROVE  /\ d[h] <= e[queue'[k]] /\ e[queue'[k]] <= d[h] + 1 /\ e[queue'[k]] \in Nat
                      /\ k > Len(t) => e[queue'[k]] = d[h] + 1
                      /\ k <= Len(t) => k + 1 \in 1..Len(queue) /\ e[queue'[k]] = d[queue[k + 1]]
    OBVIOUS
  <2>1. CASE k <= Len(t)
    <3>1. k \in 1..Len(t) /\ k + 1 \in 1..Len(queue)
      BY <1>3, <1>5, <1>7, <2>1
    <3>2. queue'[k] = queue[k + 1] /\ queue[k + 1] \in Visited
      BY <1>1, <1>3, <1>7, <2>1, <3>1
    <3> QED BY <1>9, <1>10, <2>1, <3>1, <3>2
  <2>2. CASE k > Len(t)
    <3>1. k - Len(t) \in 1..Len(a) /\ ~(k <= Len(t))
      BY <1>3, <1>5, <1>7, <2>2
    <3>2. queue'[k] \in new
      BY <1>5, <1>7, <3>1
    <3> QED BY <1>9, <2>2, <3>1, <3>2
  <2> QED BY <1>3, <1>5, <1>7, <2>1, <2>2
<1>12. Levels(e)'
  <2>1. e[start] = 1
    BY <1>2, <1>9 DEF Levels, Visited
  <2>2. ASSUME NEW x \in DOMAIN parents'
        PROVE  parents'[x] \in Visited' /\ x \in before[parents'[x]] /\ e[x] = e[parents'[x]] + 1
    <3>1. CASE x \in new
      BY <1>3, <1>4, <1>6, <1>9, <3>1
    <3>2. CASE x \notin new
      <4>1. x \in DOMAIN parents /\ x \in Visited /\ parents'[x] = parents[x]
        BY <1>6, <3>2 DEF Visited
      <4> QED BY <1>2, <1>6, <1>9, <4>1 DEF Levels
    <3> QED BY <3>1, <3>2
  <2> QED BY <2>1, <2>2 DEF Levels
<1>13. \A k, l \in 1..Len(queue') :
         k < l => e[queue'[k]] <= e[queue'[l]] /\ e[queue'[l]] <= e[queue'[k]] + 1
  <2> SUFFICES ASSUME NEW k \in 1..Len(queue'), NEW l \in 1..Len(queue'), k < l
               PROVE  e[queue'[k]] <= e[queue'[l]] /\ e[queue'[l]] <= e[queue'[k]] + 1
    OBVIOUS
  <2>1. e[queue'[l]] <= e[queue'[k]] + 1
    <3>1. /\ d[h] <= e[queue'[k]] /\ e[queue'[k]] \in Nat
          /\ e[queue'[l]] <= d[h] + 1 /\ e[queue'[l]] \in Nat /\ d[h] \in Nat
      BY <1>9, <1>11
    <3> QED BY <3>1
  <2>2. e[queue'[k]] <= e[queue'[l]]
    <3>1. CASE l > Len(t)
      BY <1>9, <1>11, <3>1
    <3>2. CASE l <= Len(t)
      <4>1. k <= Len(t) /\ k + 1 < l + 1
        BY <1>3, <1>5, <1>7, <3>2
      <4>2. k + 1 \in 1..Len(queue) /\ l + 1 \in 1..Len(queue)
            /\ e[queue'[k]] = d[queue[k + 1]] /\ e[queue'[l]] = d[queue[l + 1]]
        BY <1>11, <3>2, <4>1
      <4> QED BY <1>2, <4>1, <4>2 DEF LevelInv
    <3> QED BY <1>3, <1>5, <1>7, <3>1, <3>2
  <2> QED BY <2>1, <2>2
<1>14. ASSUME NEW x \in Visited' \ Waiting'
       PROVE  /\ before[x] \cap Component \subseteq DOMAIN parents'
              /\ \A y \in before[x] \cap Component : e[y] <= e[x] + 1
              /\ \A k \in 1..Len(queue') : e[x] <= e[queue'[k]]
  <2>1. x \notin new
    <3> SUFFICES ASSUME x \in new PROVE FALSE
      OBVIOUS
    <3>1. PICK k \in 1..Len(a) : a[k] = x
      BY <1>5
    <3>2. k + Len(t) \in 1..Len(queue') /\ ~(k + Len(t) <= Len(t)) /\ (k + Len(t)) - Len(t) = k
      <4>1. Len(t) \in Nat /\ Len(a) \in Nat /\ Len(queue') = Len(t) + Len(a) /\ k \in 1..Len(a)
        BY <1>3, <1>5, <1>7
      <4> QED BY <4>1
    <3>3. queue'[k + Len(t)] = x
      BY <1>7, <3>1, <3>2
    <3> QED BY <1>4, <3>2, <3>3 DEF Waiting
  <2>2. x \in Visited /\ x \in Items
    BY <1>1, <1>6, <2>1
  <2>3. CASE x = h
    <3>1. before[x] \cap Component \subseteq DOMAIN parents'
      BY <1>4, <1>6, <2>3
    <3>2. ASSUME NEW y \in before[x] \cap Component
          PROVE  e[y] <= e[x] + 1
      <4>1. CASE y \in new
        BY <1>3, <1>9, <2>3, <4>1
      <4>2. CASE y \notin new
        <5>1. y \in DOMAIN parents /\ y \in Visited
          BY <1>4, <2>3, <4>2 DEF Visited
        <5>2. d[y] <= d[h] + 1
          <6>1. CASE y \in Waiting
            BY <1>10, <6>1 DEF Waiting
          <6>2. CASE y \notin Waiting
            <7>1. d[y] <= d[queue[1]]
              BY <1>2, <1>3, <5>1, <6>2 DEF LevelInv
            <7> QED BY <1>3, <1>9, <5>1, <7>1
          <6> QED BY <6>1, <6>2
        <5> QED BY <1>3, <1>9, <2>3, <5>1, <5>2
      <4> QED BY <4>1, <4>2
    <3>3. \A k \in 1..Len(queue') : e[x] <= e[queue'[k]]
      BY <1>3, <1>9, <1>11, <2>3
    <3> QED BY <3>1, <3>2, <3>3
  <2>4. CASE x # h
    <3>1. x \notin Waiting
      <4> SUFFICES ASSUME NEW k \in 1..Len(queue), queue[k] = x PROVE FALSE
        BY DEF Waiting
      <4>1. k # 1
        BY <1>3, <2>4
      <4>2. k - 1 \in 1..Len(t) /\ k - 1 <= Len(t) /\ k - 1 \in 1..Len(queue') /\ (k - 1) + 1 = k
        BY <1>3, <1>5, <1>7, <4>1
      <4>3. queue'[k - 1] = x
        BY <1>3, <1>7, <4>2
      <4> QED BY <2>2, <4>2, <4>3 DEF Waiting
    <3>2. /\ before[x] \cap Component \subseteq DOMAIN parents
          /\ \A y \in before[x] \cap Component : d[y] <= d[x] + 1
          /\ d[x] <= d[queue[1]]
      BY <1>2, <1>3, <2>2, <3>1 DEF LevelInv
    <3>3. \A y \in before[x] \cap Component : e[y] = d[y] /\ e[x] = d[x]
      BY <1>9, <2>2, <3>2 DEF Visited
    <3>4. \A k \in 1..Len(queue') : e[x] <= e[queue'[k]]
      <4>1. e[x] <= d[h] /\ e[x] \in Nat
        BY <1>3, <1>9, <2>2, <3>2
      <4>2. ASSUME NEW k \in 1..Len(queue')
            PROVE  e[x] <= e[queue'[k]]
        <5>1. d[h] \in Nat /\ d[h] <= e[queue'[k]] /\ e[queue'[k]] \in Nat
          BY <1>9, <1>11
        <5> QED BY <4>1, <5>1
      <4> QED BY <4>2
    <3> QED BY <1>6, <3>2, <3>3, <3>4
  <2> QED BY <2>3, <2>4
<1>15. LevelInv(e)'
  BY <1>8, <1>13, <1>14 DEF LevelInv
<1>16. Visited' \subseteq Component' /\ start \notin DOMAIN parents'
  BY <1>1, <1>4, <1>6, <1>8
<1> QED BY <1>1, <1>7, <1>9, <1>12, <1>15, <1>16 DEF CycleInv

LEMMA NoneStays ==
  ASSUME NEW m \in Int, NoneUpTo(m), UNCHANGED <<before, start>>
  PROVE  NoneUpTo(m)'
BY DEF NoneUpTo, Closed

LEMMA SearchStep ==
  ASSUME GraphInv, BlockedInv, FoundInv, AllFoundInv, CycleInv, Search
  PROVE  CycleInv' /\ PathInv' /\ phase' \in {"cycle", "path"}
<1> DEFINE h == Head(queue)
           new == (before[h] \cap Component) \ DOMAIN parents
<1>1. /\ phase = "cycle" /\ queue # <<>>
      /\ UNCHANGED <<before, components, start>>
      /\ \/ /\ start \in before[h] \cap Component
            /\ cycle' = <<h, start>> /\ phase' = "path"
            /\ UNCHANGED <<parents, queue>>
         \/ /\ start \notin before[h] \cap Component
            /\ parents' = Extended(parents, new, h) /\ queue' = QueueAfter(new)
            /\ UNCHANGED <<phase, cycle>>
  BY DEF Search, sccVars
<1>2. CASE start \in before[h] \cap Component
  <2>1. cycle' = <<h, start>> /\ phase' = "path" /\ UNCHANGED <<parents, queue>>
    BY <1>1, <1>2
  <2>2. CycleInv'
    <3>1. Visited' = Visited /\ Component' = Component
      BY <1>1, <2>1 DEF Visited, Component
    <3> QED BY <1>1, <2>1, <3>1 DEF CycleInv
  <2>3. PICK d \in [Items -> Nat] : Levels(d) /\ LevelInv(d)
    BY <1>1 DEF CycleInv
  <2>4. h \in Visited /\ h \in Items /\ start \in Items
    <3>1. queue \in Seq(Visited) /\ Visited \subseteq Items
      BY <1>1, CycleFacts DEF CycleInv
    <3> QED BY <1>1, <3>1, HeadTailProperties, ComponentMeans
  <2>5. PICK m \in Int : m = d[h] - 1 /\ NoneUpTo(m)
    <3>1. NoneUpTo(d[h] - 1)
      BY <1>1, <2>3, NoneBefore
    <3> QED BY <2>3, <2>4, <3>1
  <2> HIDE DEF h
  <2>6. /\ cycle' \in Seq(Items) /\ Len(cycle') = 2 /\ cycle'[1] = h /\ cycle'[2] = start
    BY <2>1, <2>4
  <2>7. Levels(d)' /\ cycle'[1] \in Visited'
    BY <1>1, <2>1, <2>3, <2>4, <2>6 DEF Levels, Visited
  <2>8. NoneUpTo(d[cycle[1]] + Len(cycle) - 3)'
    <3>1. d[cycle'[1]] + Len(cycle') - 3 = m
      BY <2>3, <2>4, <2>5, <2>6
    <3>2. NoneUpTo(m)'
      BY <1>1, <2>5, NoneStays
    <3> QED BY <3>1, <3>2 DEF NoneUpTo
  <2>9. \A k \in 1..(Len(cycle') - 1) : cycle'[k + 1] \in before'[cycle'[k]]
    BY <1>1, <1>2, <2>6
  <2>10. PathInv'
    BY <1>1, <2>6, <2>7, <2>8, <2>9 DEF PathInv
  <2> QED BY <2>1, <2>2, <2>10
<1>3. CASE start \notin before[h] \cap Component
  <2>1. parents' = Extended(parents, new, h) /\ queue' = QueueAfter(new) /\ phase' = phase
    BY <1>1, <1>3
  <2> HIDE DEF new
  <2>2. CycleInv'
    BY <1>1, <1>3, <2>1, ExpandKeeps DEF new
  <2> QED BY <1>1, <2>1, <2>2 DEF PathInv
<1> QED BY <1>2, <1>3

LEMMA TraceStep ==
  ASSUME GraphInv, BlockedInv, FoundInv, AllFoundInv, CycleInv, PathInv, Trace
  PROVE  CycleInv' /\ PathInv' /\ ReportsShortestCycle' /\ phase' \in {"path", "done"}
<1>1. /\ phase = "path" /\ UNCHANGED <<before, blocked, components, start, parents, queue>>
      /\ \/ /\ Head(cycle) # start /\ cycle' = <<parents[Head(cycle)]>> \o cycle
            /\ phase' = phase
         \/ /\ Head(cycle) = start /\ phase' = "done" /\ cycle' = cycle
  BY DEF Trace, countVars, sccVars
<1>2. CycleInv'
  <2>1. Visited' = Visited /\ Component' = Component
    BY <1>1 DEF Visited, Component
  <2> QED BY <1>1, <2>1 DEF CycleInv
<1>3. /\ cycle \in Seq(Items) /\ Len(cycle) \in Nat \ {0, 1}
      /\ cycle[Len(cycle)] = start /\ cycle[1] \in Visited
      /\ \A k \in 1..(Len(cycle) - 1) : cycle[k + 1] \in before[cycle[k]]
      /\ Visited \subseteq Items /\ start \in Items
  BY <1>1, ComponentMeans DEF PathInv, CycleInv
<1>4. PICK d \in [Items -> Nat] : Levels(d) /\ NoneUpTo(d[cycle[1]] + Len(cycle) - 3)
  BY <1>1 DEF PathInv
<1>5. Head(cycle) = cycle[1]
  BY <1>3
<1>6. CASE Head(cycle) # start
  <2> DEFINE p == parents[cycle[1]]
             c == <<p>> \o cycle
  <2>1. cycle' = c /\ phase' = "path" /\ cycle[1] \in DOMAIN parents
    BY <1>1, <1>3, <1>5, <1>6 DEF Visited
  <2>2. p \in Visited /\ p \in Items /\ cycle[1] \in before[p] /\ d[cycle[1]] = d[p] + 1
        /\ d[p] \in Nat
    BY <1>3, <1>4, <2>1 DEF Levels
  <2> HIDE DEF p
  <2>3. <<p>> \in Seq(Items) /\ Len(<<p>>) = 1 /\ <<p>>[1] = p
    BY <2>2
  <2>4. /\ c \in Seq(Items) /\ Len(c) = 1 + Len(cycle)
        /\ \A k \in 1..(1 + Len(cycle)) : c[k] = IF k <= 1 THEN <<p>>[k] ELSE cycle[k - 1]
    BY <1>3, <2>3, ConcatProperties
  <2> HIDE DEF c
  <2>5. c[1] = p /\ \A k \in 1..Len(cycle) : c[k + 1] = cycle[k]
    <3>1. 1 \in 1..(1 + Len(cycle)) /\ 1 <= 1
      BY <1>3
    <3>2. \A k \in 1..Len(cycle) :
            k + 1 \in 1..(1 + Len(cycle)) /\ ~(k + 1 <= 1) /\ (k + 1) - 1 = k
      BY <1>3
    <3> QED BY <2>3, <2>4, <3>1, <3>2
  <2>6. ASSUME NEW k \in 1..(Len(c) - 1)
        PROVE  c[k + 1] \in before[c[k]]
    <3>1. k \in 1..Len(cycle) /\ c[k + 1] = cycle[k]
      BY <1>3, <2>4, <2>5
    <3>2. CASE k = 1
      BY <2>2, <2>5, <3>1, <3>2
    <3>3. CASE k # 1
      <4>1. k - 1 \in 1..Len(cycle) /\ (k - 1) + 1 = k /\ k - 1 \in 1..(Len(cycle) - 1)
        BY <1>3, <3>1, <3>3
      <4>2. c[k] = cycle[k - 1]
        BY <2>5, <4>1
      <4> QED BY <1>3, <3>1, <4>1, <4>2
    <3> QED BY <3>2, <3>3
  <2>7. c[Len(c)] = start
    BY <1>3, <2>4, <2>5
  <2>8. PICK m \in Int : m = d[c[1]] + Len(c) - 3 /\ NoneUpTo(m)
    <3>1. /\ d[c[1]] + Len(c) - 3 = d[cycle[1]] + Len(cycle) - 3
          /\ d[c[1]] + Len(c) - 3 \in Int
      <4>1. d[c[1]] = d[p] /\ Len(c) = 1 + Len(cycle) /\ d[cycle[1]] = d[p] + 1
        BY <2>2, <2>4, <2>5
      <4>2. d[p] \in Nat /\ Len(cycle) \in Nat
        BY <1>3, <2>2
      <4> HIDE DEF c
      <4> QED BY <4>1, <4>2
    <3> QED BY <1>4, <3>1
  <2>9. PathInv'
    <3>1. Levels(d)' /\ Visited' = Visited
      BY <1>1, <1>4 DEF Levels, Visited
    <3>2. NoneUpTo(d[cycle[1]] + Len(cycle) - 3)'
      <4>1. NoneUpTo(m)'
        BY <1>1, <2>8, NoneStays
      <4> QED BY <2>1, <2>8, <4>1 DEF NoneUpTo
    <3>3. Len(cycle') \in Nat \ {0, 1}
      BY <1>3, <2>1, <2>4
    <3> QED BY <1>1, <2>1, <2>2, <2>4, <2>5, <2>6, <2>7, <3>1, <3>2, <3>3 DEF PathInv
  <2> QED BY <1>2, <2>1, <2>9 DEF ReportsShortestCycle
<1>7. CASE Head(cycle) = start
  <2> DEFINE f == Front(cycle)
  <2>1. phase' = "done" /\ cycle' = cycle /\ cycle[1] = start /\ d[cycle[1]] = 1
    BY <1>1, <1>4, <1>5, <1>7 DEF Levels
  <2>2. /\ f \in Seq(Items) /\ Len(f) = Len(cycle) - 1
        /\ \A k \in 1..Len(f) : f[k] = cycle[k]
        /\ Last(cycle) = start
    BY <1>3, FrontFacts, EmptySeq
  <2> HIDE DEF f
  <2>3. Closed(f)
    <3> SUFFICES ASSUME NEW k \in 1..Len(f)
                 PROVE  (IF k = Len(f) THEN f[1] ELSE f[k + 1]) \in before[f[k]]
      BY DEF Closed
    <3>1. cycle[k + 1] \in before[f[k]]
      BY <1>3, <2>2
    <3>2. CASE k = Len(f)
      <4>1. cycle[k + 1] = start /\ f[1] = start
        BY <1>3, <2>1, <2>2, <3>2
      <4> QED BY <3>1, <3>2, <4>1
    <3>3. CASE k # Len(f)
      <4>1. k + 1 \in 1..Len(f)
        BY <1>3, <2>2, <3>3
      <4> QED BY <2>2, <3>1, <3>3, <4>1
    <3> QED BY <3>2, <3>3
  <2>4. PICK m \in Int : m = Len(cycle) - 2 /\ NoneUpTo(m)
    <3>1. 1 + Len(cycle) - 3 = Len(cycle) - 2 /\ Len(cycle) - 2 \in Int
      BY <1>3
    <3> QED BY <1>4, <2>1, <3>1
  <2>5. ReportsShortestCycle'
    <3>1. Last(cycle') = start' /\ cycle'[1] = start' /\ Len(cycle') = Len(cycle)
      BY <1>1, <2>1, <2>2
    <3>2. Closed(Front(cycle))'
      BY <1>1, <2>1, <2>3 DEF Closed, f
    <3>3. NoneUpTo(m)'
      BY <1>1, <2>4, NoneStays
    <3>4. Len(cycle') - 2 = m
      BY <2>1, <2>4
    <3> QED BY <3>1, <3>2, <3>3, <3>4 DEF ReportsShortestCycle, NoneUpTo
  <2> QED BY <1>2, <2>1, <2>5 DEF PathInv
<1> QED BY <1>6, <1>7
----------------------------------------------------------------------------
(* The inductive invariant                                                  *)

\* After the last node was left nothing is open, so everything has a component.
LEMMA SearchEnds ==
  ASSUME GraphInv, BlockedInv, SearchInv, phase = "components", work = <<>>,
         DOMAIN indexOf = blocked
  PROVE  Found = blocked
<1>1. ReachInv /\ OrderInv
  BY SearchFacts
<1>2. 1..Len(work) = {}
  OBVIOUS
<1>3. OnStack = {}
  BY <1>1, <1>2 DEF ReachInv
<1> QED BY <1>1, <1>3 DEF OrderInv, Seen

\* The search starts with nothing seen.
LEMMA SearchBegins ==
  ASSUME indexOf' = <<>>, low' = <<>>, stack' = <<>>, work' = <<>>, components' = {}
  PROVE  (SearchType /\ OrderInv /\ EdgeInv /\ ReachInv /\ LowInv /\ FoundInv)'
<1>1. DOMAIN <<>> = {} /\ \A S : <<>> \in Seq(S)
  BY EmptySeq
<1>2. <<>> \in [{} -> Nat]
  BY <1>1
<1>3. Seen' = {} /\ Found' = {} /\ 1..Len(work') = {} /\ 1..Len(stack') = {}
  BY <1>1 DEF Seen, Found
<1>4. OnStack' = {}
  BY <1>3 DEF OnStack
<1>5. SearchType'
  BY <1>1, <1>2, <1>3 DEF SearchType
<1>6. OrderInv' /\ EdgeInv'
  BY <1>3, <1>4 DEF OrderInv, EdgeInv
<1>7. ReachInv' /\ LowInv' /\ FoundInv'
  BY <1>3, <1>4 DEF ReachInv, LowInv, FoundInv
<1> QED BY <1>5, <1>6, <1>7

LEMMA InitInv == Init => IInv
<1> SUFFICES ASSUME Init PROVE IInv
  OBVIOUS
<1>1. GraphInv /\ CountInv /\ BlockedInv
  BY InitCounts
<1>2. phase = "count" /\ components = {}
  BY DEF Init
<1>3. SearchInv /\ FoundInv /\ AllFoundInv
  BY <1>2 DEF SearchInv, FoundInv, AllFoundInv
<1>4. CycleInv /\ PathInv /\ ReportsShortestCycle
  BY DEF Init, CycleInv, PathInv, ReportsShortestCycle
<1> QED BY <1>1, <1>3, <1>4 DEF IInv

\* Until the cycles are known no cycle is searched.
LEMMA NotYet ==
  ASSUME CycleInv, phase \in {"count", "components"}, phase' \in {"count", "components", "done"},
         phase' = "done" => blocked' = {}, parents' = parents
  PROVE  CycleInv' /\ PathInv' /\ ReportsShortestCycle'
BY DEF CycleInv, PathInv, ReportsShortestCycle

\* The components that are cycles have the items on cycles.
LEMMA CyclesAreCyclic ==
  ASSUME GraphInv, BlockedInv, FoundInv, phase # "count", Found = blocked
  PROVE  Cycles = Cyclic(before)
<1>1. /\ before \in [Items -> SUBSET Items] /\ blocked \subseteq Items
      /\ Cyclic(before) \subseteq blocked
      /\ \A c \in components :
           /\ c # {} /\ c \subseteq blocked
           /\ \A x \in c, y \in Items : y \in c <=> Together(before, x, y)
  BY DEF GraphInv, BlockedInv, FoundInv
<1>2. ASSUME NEW c \in components, NEW i \in c
      PROVE  Cardinality(c) = 1 <=> c = {i}
  <2>1. c \subseteq Items
    BY <1>1
  <2>2. IsFiniteSet(c)
    BY <2>1, ItemsFinite, FS_Subset
  <2>3. Cardinality(c) = 1 <=> \E x : c = {x}
    BY <2>2, FS_Singleton
  <2> QED BY <2>3
<1>3. ASSUME NEW i \in Cycles
      PROVE  i \in Cyclic(before)
  <2>1. PICK c \in components : i \in c /\ (Cardinality(c) = 1 => i \in before[i])
    BY DEF Cycles, CycleComponents
  <2>2. i \in Items
    BY <1>1, <2>1
  <2>3. CASE c = {i}
    BY <1>1, <1>2, <2>1, <2>2, <2>3, CyclicMeans
  <2>4. CASE c # {i}
    <3>1. PICK y \in c : y # i
      BY <2>1, <2>4
    <3>2. y \in Items \ {i} /\ Together(before, i, y)
      BY <1>1, <2>1, <3>1
    <3> QED BY <1>1, <2>2, <3>2, CyclicMeans
  <2> QED BY <2>3, <2>4
<1>4. ASSUME NEW i \in Cyclic(before)
      PROVE  i \in Cycles
  <2>1. i \in blocked /\ i \in Items
    BY <1>1
  <2>2. PICK c \in components : i \in c
    BY <2>1 DEF Found
  <2>3. i \in before[i] \/ \E y \in Items \ {i} : Together(before, i, y)
    BY <1>1, <2>1, CyclicMeans
  <2>4. c = {i} => i \in before[i]
    BY <1>1, <2>2, <2>3
  <2>5. c \in CycleComponents
    BY <1>2, <2>2, <2>4 DEF CycleComponents
  <2> QED BY <2>2, <2>5 DEF Cycles
<1> QED BY <1>3, <1>4

LEMMA ComponentsEndStep ==
  ASSUME GraphInv, BlockedInv, SearchInv, FoundInv, CycleInv, ComponentsEnd
  PROVE  /\ phase = "components" /\ phase' = "cycle" /\ Found = blocked
         /\ CycleInv' /\ PathInv' /\ ReportsShortestCycle'
<1>1. PICK i \in Cycles : start' = i /\ queue' = <<i>>
  BY DEF ComponentsEnd
<1>2. /\ phase = "components" /\ phase' = "cycle" /\ work = <<>> /\ DOMAIN indexOf = blocked
      /\ UNCHANGED <<before, components, parents>> /\ parents = <<>>
  BY DEF ComponentsEnd, sccVars, CycleInv
<1>3. Found = blocked
  BY <1>2, SearchEnds
<1>4. i \in Cyclic(before) /\ i \in Items /\ i \in Found
  <2>1. i \in Cyclic(before)
    BY <1>2, <1>3, CyclesAreCyclic
  <2> QED BY <1>2, <1>3, <2>1 DEF BlockedInv, Cyclic
<1>5. DOMAIN parents' = {} /\ Visited' = {i}
  BY <1>1, <1>2 DEF Visited
<1>6. i \in Component'
  <2>1. \E c \in components' : i \in c
    BY <1>2, <1>4 DEF Found
  <2> QED BY <1>1, <2>1 DEF Component
<1>7. queue' \in Seq(Visited') /\ Len(queue') = 1 /\ queue'[1] = i
  BY <1>1, <1>5
<1>8. \E d \in [Items -> Nat] : Levels(d)' /\ LevelInv(d)'
  <2> DEFINE d == [x \in Items |-> 1]
  <2>1. d \in [Items -> Nat] /\ d[i] = 1
    BY <1>4
  <2>2. Levels(d)'
    BY <1>1, <1>5, <2>1 DEF Levels
  <2>3. Visited' \ Waiting' = {}
    BY <1>4, <1>5, <1>7 DEF Waiting
  <2>4. \A k, l \in 1..Len(queue') : ~(k < l)
    BY <1>7
  <2>5. LevelInv(d)'
    BY <2>3, <2>4 DEF LevelInv
  <2> QED BY <2>1, <2>2, <2>5
<1>9. CycleInv'
  BY <1>1, <1>2, <1>4, <1>5, <1>6, <1>7, <1>8 DEF CycleInv
<1> QED BY <1>2, <1>3, <1>9 DEF PathInv, ReportsShortestCycle

LEMMA NextInv == IInv /\ [Next]_vars => IInv'
<1> SUFFICES ASSUME IInv, [Next]_vars PROVE IInv'
  OBVIOUS
<1>1. /\ GraphInv /\ CountInv /\ BlockedInv /\ SearchInv /\ FoundInv /\ AllFoundInv
      /\ CycleInv /\ PathInv /\ ReportsShortestCycle
  BY DEF IInv
<1>2. CASE Process
  <2>1. GraphInv' /\ CountInv' /\ BlockedInv'
    BY <1>1, <1>2, ProcessStep
  <2>2. phase' = "count" /\ components' = components
    BY <1>2 DEF Process, sccVars
  <2>3. SearchInv' /\ AllFoundInv'
    BY <2>2 DEF SearchInv, AllFoundInv
  <2>4. FoundInv'
    BY <1>1, <1>2, <2>2 DEF FoundInv, Process, CountInv
  <2>5. CycleInv' /\ PathInv' /\ ReportsShortestCycle'
    BY <1>1, <1>2, NotYet DEF Process, searchVars
  <2> QED BY <2>1, <2>3, <2>4, <2>5 DEF IInv
<1>3. CASE CountEnds
  <2>1. /\ GraphInv' /\ CountInv' /\ BlockedInv' /\ phase' \in {"components", "done"}
        /\ phase' = "done" => blocked' = {}
        /\ components = {} /\ indexOf = <<>> /\ low = <<>> /\ stack = <<>> /\ work = <<>>
    BY <1>1, <1>3, CountEndsStep
  <2>2. UNCHANGED <<components, indexOf, low, stack, work>>
    BY <1>3 DEF CountEnds, sccVars
  <2>3. SearchType' /\ OrderInv' /\ EdgeInv' /\ ReachInv' /\ LowInv' /\ FoundInv'
    <3>1. /\ indexOf' = <<>> /\ low' = <<>> /\ stack' = <<>> /\ work' = <<>>
          /\ components' = {}
      BY <2>1, <2>2
    <3> QED BY <3>1, SearchBegins
  <2>4. AllFoundInv'
    BY <2>1, <2>2 DEF AllFoundInv, Found
  <2>5. CycleInv' /\ PathInv' /\ ReportsShortestCycle'
    BY <1>1, <1>3, <2>1, NotYet DEF CountEnds, searchVars
  <2> QED BY <2>1, <2>3, <2>4, <2>5 DEF IInv, SearchInv
<1>4. CASE Root \/ Child
  <2>1. SearchInv'
    BY <1>1, <1>4, RootStep, ChildStep
  <2>2. /\ phase = "components" /\ phase' = "components"
        /\ UNCHANGED <<before, blocked, components, parents>>
    BY <1>4 DEF Root, Child, Enter, countVars, searchVars
  <2>3. GraphInv' /\ CountInv' /\ BlockedInv'
    BY <1>1, <2>2, BlockedStays
  <2>4. FoundInv' /\ AllFoundInv'
    BY <1>1, <2>2 DEF FoundInv, AllFoundInv
  <2>5. CycleInv' /\ PathInv' /\ ReportsShortestCycle'
    BY <1>1, <2>2, NotYet
  <2> QED BY <2>1, <2>3, <2>4, <2>5 DEF IInv
<1>5. CASE Retreat
  <2>1. SearchInv' /\ FoundInv'
    BY <1>1, <1>5, RetreatStep
  <2>2. /\ phase = "components" /\ phase' = "components"
        /\ UNCHANGED <<before, blocked, parents>>
    BY <1>5 DEF Retreat, countVars, searchVars
  <2>3. GraphInv' /\ CountInv' /\ BlockedInv'
    BY <1>1, <2>2, BlockedStays
  <2>4. AllFoundInv'
    BY <2>2 DEF AllFoundInv
  <2>5. CycleInv' /\ PathInv' /\ ReportsShortestCycle'
    BY <1>1, <2>2, NotYet
  <2> QED BY <2>1, <2>3, <2>4, <2>5 DEF IInv
<1>6. CASE ComponentsEnd \/ Search \/ Trace
  <2>1. UNCHANGED <<before, blocked, components>>
    BY <1>6 DEF ComponentsEnd, Search, Trace, countVars, sccVars
  <2>2. /\ phase \in {"components", "cycle", "path"} /\ phase' \in {"cycle", "path", "done"}
        /\ Found = blocked /\ CycleInv' /\ PathInv' /\ ReportsShortestCycle'
    <3>1. CASE ComponentsEnd
      BY <1>1, <3>1, ComponentsEndStep
    <3>2. CASE Search
      <4>1. phase = "cycle" /\ CycleInv' /\ PathInv' /\ phase' \in {"cycle", "path"}
        BY <1>1, <3>2, SearchStep DEF Search
      <4> QED BY <1>1, <4>1 DEF AllFoundInv, ReportsShortestCycle
    <3>3. CASE Trace
      <4>1. /\ phase = "path" /\ CycleInv' /\ PathInv' /\ ReportsShortestCycle'
            /\ phase' \in {"path", "done"}
        BY <1>1, <3>3, TraceStep DEF Trace
      <4> QED BY <1>1, <4>1 DEF AllFoundInv
    <3> QED BY <1>6, <3>1, <3>2, <3>3
  <2>3. GraphInv' /\ CountInv' /\ BlockedInv'
    BY <1>1, <2>1, <2>2, BlockedStays
  <2>4. AllFoundInv' /\ FoundInv' /\ SearchInv'
    BY <1>1, <2>1, <2>2 DEF AllFoundInv, Found, FoundInv, SearchInv
  <2> QED BY <2>2, <2>3, <2>4 DEF IInv
<1>7. CASE Done \/ UNCHANGED vars
  <2>1. /\ UNCHANGED <<before, phase, remaining, ready, blocked, indexOf, low, stack, work>>
        /\ UNCHANGED <<components, start, parents, queue, cycle>>
    BY <1>7 DEF Done, vars, countVars, sccVars, searchVars
  <2>2. GraphInv' /\ BlockedInv'
    BY <1>1, <2>1 DEF GraphInv, BlockedInv
  <2>3. CountInv'
    BY <1>1, <2>1 DEF CountInv, Queued, Processed
  <2>4. SearchInv'
    <3>1. UNCHANGED <<Seen, OnStack, Found>> /\ \A x : Met(x)' = Met(x)
      BY <2>1 DEF Seen, OnStack, Found, Met
    <3>2. \A k, x : Under(k, x)' <=> Under(k, x)
      BY <2>1, <3>1 DEF Under
    <3>3. SearchType => SearchType'
      BY <2>1, <3>1 DEF SearchType
    <3>4. OrderInv => OrderInv'
      BY <2>1, <3>1 DEF OrderInv
    <3>5. EdgeInv => EdgeInv'
      BY <2>1, <3>1 DEF EdgeInv
    <3>6. ReachInv => ReachInv'
      BY <2>1, <3>1 DEF ReachInv
    <3>7. LowInv => LowInv'
      BY <2>1, <3>1, <3>2 DEF LowInv
    <3> QED BY <1>1, <2>1, <3>3, <3>4, <3>5, <3>6, <3>7 DEF SearchInv
  <2>5. FoundInv' /\ AllFoundInv'
    BY <1>1, <2>1 DEF FoundInv, AllFoundInv, Found
  <2>6. CycleInv'
    <3>1. UNCHANGED <<Visited, Waiting, Component>>
      BY <2>1 DEF Visited, Waiting, Component
    <3>2. ASSUME NEW d, Levels(d), LevelInv(d)
          PROVE  Levels(d)' /\ LevelInv(d)'
      BY <2>1, <3>1, <3>2 DEF Levels, LevelInv
    <3> QED BY <1>1, <2>1, <3>1, <3>2 DEF CycleInv
  <2>7. PathInv' /\ ReportsShortestCycle'
    <3>1. Visited' = Visited
      BY <2>1 DEF Visited
    <3> QED BY <1>1, <2>1, <3>1 DEF PathInv, Levels, NoneUpTo, Closed, ReportsShortestCycle
  <2> QED BY <2>2, <2>3, <2>4, <2>5, <2>6, <2>7 DEF IInv
<1> QED BY <1>2, <1>3, <1>4, <1>5, <1>6, <1>7 DEF Next

\* Every step of _order, _strongly_connected and _cycle keeps IInv: the counting
\* blocks what it must, the components found are the classes of items that
\* require each other, and the path back is as short as the levels tell.
THEOREM InductiveInvariant == Spec => []IInv
BY InitInv, NextInv, PTL DEF Spec

\* What the counting in _order leaves is what a cycle blocks: the items of
\* cycles and all that depend on them, and nothing else.
THEOREM BlockedByCyclesHolds == Spec => []BlockedByCycles
<1>1. IInv => BlockedByCycles
  BY BlockedMeans DEF IInv
<1> QED BY <1>1, InductiveInvariant, PTL

\* The plan reports as cyclic exactly the items on a cycle.
THEOREM CyclesExactHolds == Spec => []CyclesExact
<1>1. IInv => CyclesExact
  <2> SUFFICES ASSUME IInv, phase \in {"cycle", "path", "done"}
               PROVE  Cycles = Cyclic(before)
    BY DEF CyclesExact
  <2> QED BY CyclesAreCyclic DEF IInv, AllFoundInv
<1> QED BY <1>1, InductiveInvariant, PTL

\* The cycle reported for an item is one, and no shorter one exists.
THEOREM ShortestCycleHolds == Spec => []ReportsShortestCycle
<1>1. IInv => ReportsShortestCycle
  BY DEF IInv
<1> QED BY <1>1, InductiveInvariant, PTL

\* The search for the cycle of an item always has a node left to expand: _cycle
\* never comes to its last line, "component contains no cycle".
THEOREM AlwaysFindsCycle == Spec => [](phase = "cycle" => queue # <<>>)
<1>1. IInv => (phase = "cycle" => queue # <<>>)
  BY CycleIsFound DEF IInv
<1> QED BY <1>1, InductiveInvariant, PTL
----------------------------------------------------------------------------
(* Selectors                                                                *)

Matched(s) == {r \in Resources : Matches(s, r)}
MatchedByAll(ps) == {r \in Resources : \A p \in ToSet(ps) : Matches(p, r)}
MatchedByAny(ps) == {r \in Resources : \E p \in ToSet(ps) : Matches(p, r)}

\* A selector whose operands are in S, and which matches what they make of it.
Sound(s, S) ==
    /\ s.kind \in LeafKinds \cup Combinations
    /\ s.kind \in {"all", "any"} => s.selectors \in Seq(S)
    /\ s.kind = "all" => Matched(s) = MatchedByAll(s.selectors)
    /\ s.kind = "any" => Matched(s) = MatchedByAny(s.selectors)
    /\ s.kind = "not" => s.selector \in S /\ Matched(s) = Resources \ Matched(s.selector)

\* A set of selectors made of each other and of leaves.
Grounded(S) == \A s \in S : Sound(s, S)

SelectionInv ==
    /\ \E S : Grounded(S) /\ selector \in [1..2 -> S]
    /\ meant = [i \in 1..2 |-> Matched(selector[i])]

\* The operands of two sequences are those of one and those of the other.
LEMMA BothOperands ==
  ASSUME NEW S, NEW ps \in Seq(S), NEW qs \in Seq(S)
  PROVE  /\ ps \o qs \in Seq(S)
         /\ ToSet(ps \o qs) = ToSet(ps) \cup ToSet(qs)
<1>1. /\ ps \o qs \in Seq(S) /\ Len(ps \o qs) = Len(ps) + Len(qs)
      /\ \A i \in 1..(Len(ps) + Len(qs)) :
           (ps \o qs)[i] = IF i <= Len(ps) THEN ps[i] ELSE qs[i - Len(ps)]
  BY ConcatProperties
<1>2. /\ Len(ps) \in Nat /\ Len(qs) \in Nat /\ Len(ps \o qs) \in Nat
      /\ DOMAIN ps = 1..Len(ps) /\ DOMAIN qs = 1..Len(qs)
      /\ DOMAIN (ps \o qs) = 1..Len(ps \o qs)
  BY <1>1
<1> DEFINE both == ps \o qs
<1> HIDE DEF both
<1>3. ASSUME NEW i \in 1..Len(ps)
      PROVE  i \in 1..(Len(ps) + Len(qs)) /\ both[i] = ps[i]
  BY <1>1, <1>2 DEF both
<1>4. ASSUME NEW i \in 1..Len(qs)
      PROVE  Len(ps) + i \in 1..(Len(ps) + Len(qs)) /\ both[Len(ps) + i] = qs[i]
  BY <1>1, <1>2 DEF both
<1>5. ASSUME NEW i \in 1..(Len(ps) + Len(qs))
      PROVE  \/ i \in 1..Len(ps) /\ both[i] = ps[i]
             \/ i - Len(ps) \in 1..Len(qs) /\ both[i] = qs[i - Len(ps)]
  BY <1>1, <1>2 DEF both
<1>6. DOMAIN both = 1..(Len(ps) + Len(qs))
  BY <1>1, <1>2 DEF both
<1>7. ToSet(both) = ToSet(ps) \cup ToSet(qs)
  BY <1>2, <1>3, <1>4, <1>5, <1>6 DEF ToSet
<1> QED BY <1>1, <1>7 DEF both

LEMMA OneOperand ==
  ASSUME NEW S, NEW s \in S
  PROVE  <<s>> \in Seq(S) /\ ToSet(<<s>>) = {s}
BY DEF ToSet

\* A new selector made of some of S.
LEMMA NewAll ==
  ASSUME NEW S, NEW ps \in Seq(S)
  PROVE  Sound(MatchesAll(ps), S) /\ Matched(MatchesAll(ps)) = MatchedByAll(ps)
BY DEF Sound, Matched, MatchesAll, Matches, MatchedByAll, Combinations, LeafKinds

LEMMA NewAny ==
  ASSUME NEW S, NEW ps \in Seq(S)
  PROVE  /\ Sound(MatchesAny(ps), S) /\ Matched(MatchesAny(ps)) = MatchedByAny(ps)
         /\ MatchesAny(ps) # NoSelector
BY DEF Sound, Matched, MatchesAny, Matches, MatchedByAny, Combinations, LeafKinds, NoSelector

LEMMA NewNot ==
  ASSUME NEW S, NEW s \in S
  PROVE  Sound(MatchesNot(s), S) /\ Matched(MatchesNot(s)) = Resources \ Matched(s)
BY DEF Sound, Matched, MatchesNot, Matches, Combinations, LeafKinds

\* Flattening: a selector has the operands its parts are.
LEMMA PartsMatch ==
  ASSUME NEW S, Grounded(S), NEW s \in S
  PROVE  /\ Parts(s, "all") \in Seq(S) /\ MatchedByAll(Parts(s, "all")) = Matched(s)
         /\ Parts(s, "any") \in Seq(S) /\ MatchedByAny(Parts(s, "any")) = Matched(s)
<1>1. <<s>> \in Seq(S) /\ ToSet(<<s>>) = {s} /\ Sound(s, S)
  BY OneOperand DEF Grounded
<1>2. MatchedByAll(<<s>>) = Matched(s) /\ MatchedByAny(<<s>>) = Matched(s)
  BY <1>1 DEF MatchedByAll, MatchedByAny, Matched
<1>3. CASE s.kind = "all"
  BY <1>1, <1>2, <1>3 DEF Parts, Sound
<1>4. CASE s.kind = "any"
  BY <1>1, <1>2, <1>4 DEF Parts, Sound
<1>5. CASE s.kind \notin {"all", "any"}
  BY <1>1, <1>2, <1>5 DEF Parts
<1> QED BY <1>3, <1>4, <1>5

LEMMA AllOfMatches ==
  ASSUME NEW S, Grounded(S), NEW s \in S, NEW t \in S
  PROVE  Sound(AllOf(s, t), S) /\ Matched(AllOf(s, t)) = Matched(s) \cap Matched(t)
<1> DEFINE ps == Parts(s, "all")  qs == Parts(t, "all")
<1>1. /\ ps \in Seq(S) /\ MatchedByAll(ps) = Matched(s)
      /\ qs \in Seq(S) /\ MatchedByAll(qs) = Matched(t)
  BY PartsMatch
<1> HIDE DEF ps, qs
<1>2. ps \o qs \in Seq(S) /\ ToSet(ps \o qs) = ToSet(ps) \cup ToSet(qs)
  BY <1>1, BothOperands
<1>3. MatchedByAll(ps \o qs) = MatchedByAll(ps) \cap MatchedByAll(qs)
  BY <1>2 DEF MatchedByAll
<1>4. Sound(MatchesAll(ps \o qs), S) /\ Matched(MatchesAll(ps \o qs)) = MatchedByAll(ps \o qs)
  BY <1>2, NewAll
<1> QED BY <1>1, <1>3, <1>4 DEF AllOf, ps, qs

LEMMA UnionMatches ==
  ASSUME NEW S, Grounded(S), NEW s \in S, NEW t \in S
  PROVE  /\ Sound(Union(s, t), S) /\ Matched(Union(s, t)) = Matched(s) \cup Matched(t)
         /\ Union(s, t) # NoSelector
<1> DEFINE ps == Parts(s, "any")  qs == Parts(t, "any")
<1>1. /\ ps \in Seq(S) /\ MatchedByAny(ps) = Matched(s)
      /\ qs \in Seq(S) /\ MatchedByAny(qs) = Matched(t)
  BY PartsMatch
<1> HIDE DEF ps, qs
<1>2. ps \o qs \in Seq(S) /\ ToSet(ps \o qs) = ToSet(ps) \cup ToSet(qs)
  BY <1>1, BothOperands
<1>3. MatchedByAny(ps \o qs) = MatchedByAny(ps) \cup MatchedByAny(qs)
  BY <1>2 DEF MatchedByAny
<1>4. /\ Sound(MatchesAny(ps \o qs), S)
      /\ Matched(MatchesAny(ps \o qs)) = MatchedByAny(ps \o qs)
      /\ MatchesAny(ps \o qs) # NoSelector
  BY <1>2, NewAny
<1> QED BY <1>1, <1>3, <1>4 DEF Union, ps, qs

LEMMA NegatedMatches ==
  ASSUME NEW S, Grounded(S), NEW s \in S
  PROVE  Sound(Negated(s), S) /\ Matched(Negated(s)) = Resources \ Matched(s)
<1>1. CASE s.kind # "not"
  BY <1>1, NewNot DEF Negated
<1>2. CASE s.kind = "not"
  <2> DEFINE t == s.selector
  <2>1. t \in S /\ Matched(s) = Resources \ Matched(t)
    BY <1>2 DEF Grounded, Sound
  <2> HIDE DEF t
  <2>2. Matched(t) = Resources \ Matched(s)
    BY <2>1 DEF Matched
  <2>3. CASE IsABC(t)
    BY <1>2, <2>1, <2>2, <2>3 DEF Negated, AsABC, Grounded, t
  <2>4. CASE ~IsABC(t)
    <3>1. <<t>> \in Seq(S) /\ MatchedByAll(<<t>>) = Matched(t)
      BY <2>1, OneOperand DEF MatchedByAll, Matched
    <3>2. Sound(MatchesAll(<<t>>), S) /\ Matched(MatchesAll(<<t>>)) = Matched(t)
      BY <3>1, NewAll
    <3> QED BY <1>2, <2>2, <2>4, <3>2 DEF Negated, AsABC, t
  <2> QED BY <2>3, <2>4
<1> QED BY <1>1, <1>2

\* A selector made of those of S joins them.
LEMMA GroundedGrows ==
  ASSUME NEW S, Grounded(S), NEW n, Sound(n, S)
  PROVE  Grounded(S \cup {n})
<1>1. \A q \in Seq(S) : q \in Seq(S \cup {n})
  OBVIOUS
<1>2. ASSUME NEW s, Sound(s, S) PROVE Sound(s, S \cup {n})
  BY <1>1, <1>2 DEF Sound
<1> QED BY <1>2 DEF Grounded

LEMMA BecomesStep ==
  ASSUME SelectionInv, NEW S, Grounded(S), selector \in [1..2 -> S], NEW i \in 1..2,
         NEW n, Sound(n, S), Becomes(i, n, Matched(n))
  PROVE  SelectionInv'
<1>1. Grounded(S \cup {n})
  BY GroundedGrows
<1>2. selector' \in [1..2 -> S \cup {n}]
  BY DEF Becomes
<1>3. meant' = [j \in 1..2 |-> Matched(selector'[j])]
  BY DEF Becomes, SelectionInv
<1> QED BY <1>1, <1>2, <1>3 DEF SelectionInv, Matched, Grounded

THEOREM SelectionInvariant == SelectionSpec => []SelectionInv
<1>1. SelectionInit => SelectionInv
  <2> SUFFICES ASSUME SelectionInit PROVE SelectionInv
    OBVIOUS
  <2>1. Grounded(Leaves)
    BY LeavesAssumption DEF Grounded, Sound, LeafKinds
  <2> QED BY <2>1 DEF SelectionInit, SelectionInv, Matched
<1>2. SelectionInv /\ [SelectionNext]_selectionVars => SelectionInv'
  <2> SUFFICES ASSUME SelectionInv, [SelectionNext]_selectionVars PROVE SelectionInv'
    OBVIOUS
  <2>1. PICK S : Grounded(S) /\ selector \in [1..2 -> S]
    BY DEF SelectionInv
  <2>2. DOMAIN selector = 1..2 /\ \A i \in 1..2 : selector[i] \in S /\ meant[i] = Matched(selector[i])
    BY <2>1 DEF SelectionInv
  <2>3. ASSUME NEW i \in 1..2, NEW j \in 1..2, And(i, j) PROVE SelectionInv'
    <3> DEFINE n == AllOf(selector[i], selector[j])
    <3>1. Sound(n, S) /\ Matched(n) = meant[i] \cap meant[j]
      BY <2>1, <2>2, AllOfMatches
    <3>2. Becomes(i, n, Matched(n))
      BY <2>3, <3>1 DEF And
    <3> QED BY <2>1, <3>1, <3>2, BecomesStep
  <2>4. ASSUME NEW i \in 1..2, NEW j \in 1..2, Or(i, j) PROVE SelectionInv'
    <3> DEFINE n == Union(selector[i], selector[j])
    <3>1. Sound(n, S) /\ Matched(n) = meant[i] \cup meant[j]
      BY <2>1, <2>2, UnionMatches
    <3>2. Becomes(i, n, Matched(n))
      BY <2>4, <3>1 DEF Or
    <3> QED BY <2>1, <3>1, <3>2, BecomesStep
  <2>5. ASSUME NEW i \in 1..2, Invert(i) PROVE SelectionInv'
    <3> DEFINE n == Negated(selector[i])
    <3>1. Sound(n, S) /\ Matched(n) = Resources \ meant[i]
      BY <2>1, <2>2, NegatedMatches
    <3>2. Becomes(i, n, Matched(n))
      BY <2>5, <3>1 DEF Invert
    <3> QED BY <2>1, <3>1, <3>2, BecomesStep
  <2>6. CASE UNCHANGED selectionVars
    BY <2>6 DEF selectionVars, SelectionInv, Matched
  <2> QED BY <2>2, <2>3, <2>4, <2>5, <2>6 DEF SelectionNext
<1> QED BY <1>1, <1>2, PTL DEF SelectionSpec

\* A selector combined from others with &, | and ~, however often and in
\* whatever way the combinations were flattened, matches the resources its
\* formula says (contracts.py, _parts, _AllOf, _AnyOf, __invert__).
THEOREM SelectsAsWrittenHolds == SelectionSpec => []SelectsAsWritten
<1>1. SelectionInv => SelectsAsWritten
  BY DEF SelectionInv, SelectsAsWritten, Matched
<1> QED BY <1>1, SelectionInvariant, PTL

----------------------------------------------------------------------------
(* Requests that are merged                                                 *)

\* What the selector of a request, if it has one, adds to its targets.
Taken(s) == IF s = NoSelector THEN {} ELSE Matched(s)

LEMMA TargetsTaken ==
  ASSUME NEW q
  PROVE  Targets(q) = (q.ids \cap Resources) \cup Taken(q.selector)
BY DEF Targets, Taken, Matched

LEMMA MergedTakes ==
  ASSUME NEW S, Grounded(S), NEW s \in S \cup {NoSelector}, NEW t \in S \cup {NoSelector}
  PROVE  /\ Taken(Merged(s, t)) = Taken(s) \cup Taken(t)
         /\ Merged(s, t) = NoSelector => s = NoSelector /\ t = NoSelector
<1>1. CASE s = NoSelector \/ s = t
  <2>1. Merged(s, t) = t
    BY <1>1 DEF Merged
  <2> QED BY <1>1, <2>1 DEF Taken
<1>2. CASE t = NoSelector /\ s # t
  <2>1. Merged(s, t) = s
    BY <1>2 DEF Merged
  <2> QED BY <1>2, <2>1 DEF Taken
<1>3. CASE s # NoSelector /\ t # NoSelector /\ s # t
  <2>1. Merged(s, t) = Union(s, t) /\ s \in S /\ t \in S
    BY <1>3 DEF Merged
  <2>2. Merged(s, t) # NoSelector /\ Matched(Merged(s, t)) = Matched(s) \cup Matched(t)
    BY <2>1, UnionMatches
  <2> QED BY <1>3, <2>2 DEF Taken
<1> QED BY <1>1, <1>2, <1>3

LEMMA RequestMade ==
  ASSUME NEW selectors, NEW q \in RequestsOf(selectors)
  PROVE  q.mode \in Modes /\ q.selector \in selectors /\ Valid(q)
<1>1. PICK mode \in Modes \cup {"none"}, ids \in Named, s \in selectors : q = Made(mode, ids, s)
  BY DEF RequestsOf
<1>2. Valid(q)
  BY DEF RequestsOf
<1> QED BY <1>1, <1>2 DEF Made, Modes

\* Any mode but TARGETED: a merged request selects nothing.
LEMMA UntargetedMerge ==
  ASSUME NEW mode \in Modes \ {"TARGETED"}, NEW p, NEW q
  PROVE  /\ Valid(Coalesced(mode, p, q)) /\ Coalesced(mode, p, q).mode = mode
BY DEF Valid, Coalesced, Selects

LEMMA TargetedMerge ==
  ASSUME NEW S, Grounded(S), NEW p, NEW q,
         p.selector \in S \cup {NoSelector}, q.selector \in S \cup {NoSelector},
         Valid(p), Valid(q), p.mode = "TARGETED", q.mode = "TARGETED"
  PROVE  LET m == Coalesced("TARGETED", p, q)
         IN  Valid(m) /\ m.mode = "TARGETED" /\ Targets(m) = Targets(p) \cup Targets(q)
<1> DEFINE m == Coalesced("TARGETED", p, q)
<1>1. /\ m.mode = "TARGETED" /\ m.ids = p.ids \cup q.ids
      /\ m.selector = Merged(p.selector, q.selector)
  BY DEF Coalesced
<1>2. /\ Taken(m.selector) = Taken(p.selector) \cup Taken(q.selector)
      /\ m.selector = NoSelector => p.selector = NoSelector /\ q.selector = NoSelector
  BY <1>1, MergedTakes
<1> HIDE DEF m
<1>3. Valid(m)
  BY <1>1, <1>2 DEF Valid, Selects
<1>4. Targets(m) = Targets(p) \cup Targets(q)
  BY <1>1, <1>2, TargetsTaken
<1> QED BY <1>1, <1>3, <1>4 DEF m

\* A request does at least what one of a mode that it covers does, if it selects
\* all it selects.
LEMMA CoveringDoes ==
  ASSUME NEW S, Grounded(S), NEW p, NEW q, p.mode \in Modes, q.mode \in Modes,
         p.selector \in S \cup {NoSelector}, q.selector \in S \cup {NoSelector},
         Valid(p), Valid(q), NEW mode, mode \in {p.mode, q.mode},
         p.mode \in Covers(mode), q.mode \in Covers(mode)
  PROVE  LET m == Coalesced(mode, p, q)
             asked == Does(p).always \cup Does(q).always
         IN  /\ Valid(m)
             /\ Does(p).classes \cup Does(q).classes \subseteq Does(m).classes
             /\ asked \subseteq Does(m).always
             /\ {p.mode, q.mode} = {"TARGETED"} => Does(m).always = asked
<1> DEFINE m == Coalesced(mode, p, q)
<1>1. CASE mode = "TARGETED"
  <2>1. p.mode = "TARGETED" /\ q.mode = "TARGETED"
    BY <1>1 DEF Covers, Modes
  <2>2. Valid(m) /\ m.mode = "TARGETED" /\ Targets(m) = Targets(p) \cup Targets(q)
    BY <1>1, <2>1, TargetedMerge
  <2> HIDE DEF m
  <2>3. \A x \in {m, p, q} : Does(x).classes = {} /\ Does(x).always = Targets(x)
    BY <2>1, <2>2 DEF Does
  <2> QED BY <2>2, <2>3 DEF m
<1>2. CASE mode # "TARGETED"
  <2>1. mode \in Modes \ {"TARGETED"}
    BY <1>2
  <2>2. Valid(m) /\ m.mode = mode
    BY <2>1, UntargetedMerge
  <2> HIDE DEF m
  <2>3. Targets(p) \subseteq Resources /\ Targets(q) \subseteq Resources
    BY DEF Targets
  <2>4. CASE mode = "FULL"
    <3>1. Does(m) = [classes |-> {"changed", "impacted"}, always |-> Resources]
      BY <2>2, <2>4 DEF Does
    <3>2. ASSUME NEW x \in {p, q}
          PROVE  Does(x).classes \subseteq {"changed", "impacted"} /\ Does(x).always \subseteq Resources
      BY <2>3, <3>2 DEF Does, Modes
    <3>3. {p.mode, q.mode} # {"TARGETED"}
      BY <2>4
    <3> QED BY <2>2, <3>1, <3>2, <3>3 DEF m
  <2>5. CASE mode # "FULL"
    <3>1. /\ p.mode \in {"DEPENDENCY_AWARE", "INCREMENTAL"}
          /\ q.mode \in {"DEPENDENCY_AWARE", "INCREMENTAL"}
          /\ mode = "INCREMENTAL" => p.mode = "INCREMENTAL" /\ q.mode = "INCREMENTAL"
      BY <1>2, <2>5 DEF Covers, Modes
    <3>2. /\ Does(p).always = {} /\ Does(q).always = {} /\ Does(m).always = {}
          /\ "changed" \in Does(m).classes
          /\ Does(p).classes \subseteq {"changed", "impacted"}
          /\ Does(q).classes \subseteq {"changed", "impacted"}
      BY <1>2, <2>1, <2>2, <2>5, <3>1 DEF Does, Modes
    <3>3. Does(p).classes \cup Does(q).classes \subseteq Does(m).classes
      BY <2>1, <2>2, <2>5, <3>1 DEF Does, Modes
    <3> QED BY <2>2, <3>1, <3>2, <3>3 DEF m
  <2> QED BY <2>4, <2>5
<1> QED BY <1>1, <1>2

\* Two requests with selectors that were combined in any way merge into a valid
\* one that does all that each of them asked for, and two TARGETED ones into
\* one that does nothing else (coordinator.py, coalesce).
THEOREM MergeDoesBothHolds == SelectionSpec => []MergeDoesBoth
<1>1. SelectionInv => MergeDoesBoth
  <2> SUFFICES ASSUME SelectionInv PROVE MergeDoesBoth
    OBVIOUS
  <2> DEFINE selectors == {NoSelector} \cup ToSet(selector)
  <2>1. PICK S : Grounded(S) /\ selector \in [1..2 -> S]
    BY DEF SelectionInv
  <2>2. selectors \subseteq S \cup {NoSelector}
    BY <2>1 DEF ToSet
  <2> HIDE DEF selectors
  <2>3. ASSUME NEW p \in RequestsOf(selectors), NEW q \in RequestsOf(selectors),
               NEW m \in Coalesce(p, q)
        PROVE  LET asked == Does(p).always \cup Does(q).always
               IN  /\ Valid(m)
                   /\ Does(p).classes \cup Does(q).classes \subseteq Does(m).classes
                   /\ asked \subseteq Does(m).always
                   /\ {p.mode, q.mode} = {"TARGETED"} => Does(m).always = asked
    <3>1. /\ p.mode \in Modes /\ p.selector \in S \cup {NoSelector} /\ Valid(p)
          /\ q.mode \in Modes /\ q.selector \in S \cup {NoSelector} /\ Valid(q)
      BY <2>2, RequestMade
    <3>2. p.mode \in Covers(p.mode) /\ q.mode \in Covers(q.mode)
      BY <3>1 DEF Covers, Modes
    <3>3. PICK mode \in {p.mode, q.mode} :
            /\ m = Coalesced(mode, p, q)
            /\ p.mode \in Covers(mode) /\ q.mode \in Covers(mode)
      BY <3>2 DEF Coalesce
    <3> QED BY <2>1, <3>1, <3>3, CoveringDoes
  <2> DEFINE does == [q \in RequestsOf(selectors) |-> Does(q)]
  <2>4. ASSUME NEW p \in DOMAIN does, NEW q \in DOMAIN does, NEW m \in Coalesce(p, q)
        PROVE  LET done == Does(m)
                   asked == does[p].always \cup does[q].always
               IN  /\ Valid(m)
                   /\ does[p].classes \cup does[q].classes \subseteq done.classes
                   /\ asked \subseteq done.always
                   /\ {p.mode, q.mode} = {"TARGETED"} => done.always = asked
    <3>1. does[p] = Does(p) /\ does[q] = Does(q)
      OBVIOUS
    <3> QED BY <2>3, <3>1
  <2> QED BY <2>4, Zenon DEF MergeDoesBoth, selectors
<1> QED BY <1>1, SelectionInvariant, PTL
=============================================================================
