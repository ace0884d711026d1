--------------------------- MODULE ExecutionProofs ---------------------------
(***************************************************************************)
(* Proofs about Execution, for every plan and any number of workers: no    *)
(* item is forgotten, no worker idles while an item is ready, and the      *)
(* executor implements OrderedRun.                                         *)
(***************************************************************************)
EXTENDS Execution, FiniteSetTheorems, TLAPS

(* The items whose dependents know of their end. *)
Settled == Done \ unsettled

(* The dependencies of d that it still waits for. *)
Missing(d) == before[d] \ Settled

Taken(d) == \E w \in Workers : item[w] = d

(* What the counters, the heap and the blocked items say of an item that is  *)
(* still planned.                                                           *)
Counted(d) ==
    /\ remaining[d] = Cardinality(Missing(d))
    /\ d \in blocked <=> \E p \in before[d] \cap Settled : outcome[p] # "succeeded"
    /\ Missing(d) = {} <=> d \in ready \/ Taken(d)
    /\ Missing(d) = {} => d \notin blocked

PlanInv ==
    /\ unsettled \subseteq Done
    /\ ready \cap Done = {}
    /\ Cyclic(before) \subseteq Done
    /\ \A d \in Items \ Done : Counted(d)

(* No item is run twice, and the counter that lets idle workers leave is     *)
(* exact, even while a cancellation takes the workers down one by one.       *)
Running == {w \in Workers : pc[w] = "running"}

RunInv ==
    /\ \A v, w \in Workers : v # w /\ item[v] = item[w] => item[v] = NoItem
    /\ \A w \in Workers : item[w] \notin ready
    /\ \A w \in Running : item[w] \in Items \ Done
    /\ \A w \in Workers : item[w] \in Items \ Done =>
          pc[w] \in {"running", "interrupted", "escaped"}
    /\ inFlight = Cardinality(Running)

(* Only the worker that settles leaves items to be settled, except for those *)
(* that are settled before the workers start.                                *)
TurnInv ==
    /\ cancelled => TurnFree
    /\ \A w \in Workers : pc[w] = "interrupted" => cancelled
    /\ \/ unsettled = {}
       \/ \E v \in Workers : pc[v] = "settling"
       \/ \A w \in Workers : pc[w] \in {"absent", "top"}

(* A worker leaves for good reason, and one that waits has nothing to take. *)
Stuck == ready = {} /\ unsettled = {} /\ (Flat \/ Done = Items \/ inFlight = 0)

LeaveInv ==
    /\ (\E w \in Workers : pc[w] = "ended") => ShouldStop \/ Stuck
    /\ (\E w \in Workers : pc[w] = "waiting") =>
          ready = {} \/ \E v \in Workers : pc[v] = "settling"
    /\ Crew # {}

IInv == TypeOK /\ PlanInv /\ RunInv /\ TurnInv /\ LeaveInv

----------------------------------------------------------------------------
(* The graph *)

(* Whatever comes before a predecessor of i comes before i. *)
LEMMA AncestorsGrow ==
  ASSUME NEW g \in [Items -> SUBSET Items], NEW i \in Items, NEW p \in g[i]
  PROVE  p \in Ancestors(g, i) /\ Ancestors(g, p) \subseteq Ancestors(g, i)
<1>1. p \in Ancestors(g, i)
  BY DEF Ancestors
<1>2. ASSUME NEW j \in Ancestors(g, p)
      PROVE  j \in Ancestors(g, i)
  BY <1>2 DEF Ancestors
<1> QED BY <1>1, <1>2

(* A set of items each of which waits for another one of them has a cycle. *)
LEMMA WaitingMeetsCycle ==
  ASSUME NEW g \in [Items -> SUBSET Items], NEW P \in SUBSET Items, P # {},
         \A d \in P : g[d] \cap P # {}
  PROVE  P \cap Cyclic(g) # {}
<1> DEFINE T == {Ancestors(g, d) : d \in P}
<1>1. IsWellFoundedOn(StrictSubsetOrdering(Items), SUBSET Items)
  BY ItemsAssumption, FS_StrictSubsetOrderingWellFounded, FS_FiniteSubsetsOfFinite
<1>2. \A d \in P : Ancestors(g, d) \subseteq Items
  BY DEF Ancestors
<1>3. T \subseteq SUBSET Items /\ T # {}
  BY <1>2
<1>4. PICK A \in T : \A B \in T : ~ (<<B, A>> \in StrictSubsetOrdering(Items))
  BY <1>1, <1>3, WFMin
<1>5. PICK d \in P : A = Ancestors(g, d)
  OBVIOUS
<1>6. PICK p \in P : p \in g[d]
  OBVIOUS
<1>7. p \in Ancestors(g, d) /\ Ancestors(g, p) \subseteq Ancestors(g, d)
  BY <1>6, AncestorsGrow
<1>8. Ancestors(g, p) = Ancestors(g, d)
  BY <1>2, <1>4, <1>5, <1>7 DEF StrictSubsetOrdering
<1> QED BY <1>7, <1>8 DEF Cyclic

(* The smallest of the ready items is one of them. *)
LEMMA FirstIsReady ==
  ASSUME NEW S \in SUBSET Items, S # {}
  PROVE  First(S) \in S
<1>1. S \subseteq Nat
  BY ItemsAssumption
<1> DEFINE T == {0 .. i : i \in S}
<1>2. \A i \in S : 0 .. i \in FiniteSubsetsOf(Nat)
  BY <1>1, FS_Interval DEF FiniteSubsetsOf
<1>3. T \subseteq FiniteSubsetsOf(Nat) /\ T # {}
  BY <1>2
<1>4. PICK A \in T : \A B \in T : ~ (<<B, A>> \in StrictSubsetOrdering(Nat))
  BY <1>3, WFMin, FS_StrictSubsetOrderingWellFounded
<1>5. PICK i \in S : A = 0 .. i
  OBVIOUS
<1>6. ASSUME NEW j \in S, j < i
      PROVE  FALSE
  <2>1. 0 .. j \subseteq 0 .. i /\ 0 .. j # 0 .. i
    <3>1. i \in 0 .. i /\ i \notin 0 .. j
      BY <1>1, <1>6
    <3> QED BY <1>1, <1>6, <3>1
  <2>2. 0 .. j \in SUBSET Nat /\ 0 .. i \in SUBSET Nat
    OBVIOUS
  <2>3. <<0 .. j, 0 .. i>> \in StrictSubsetOrdering(Nat)
    BY <2>1, <2>2 DEF StrictSubsetOrdering
  <2>4. 0 .. j \in T
    OBVIOUS
  <2> HIDE DEF T
  <2> QED BY <1>4, <1>5, <2>3, <2>4
<1>7. \A j \in S : i <= j
  BY <1>1, <1>6
<1> QED BY <1>7 DEF First

----------------------------------------------------------------------------
(* Type correctness *)

LEMMA ItemsCount ==
  ASSUME NEW S \in SUBSET Items
  PROVE  IsFiniteSet(S) /\ Cardinality(S) \in 0 .. Cardinality(Items)
<1>1. IsFiniteSet(S) /\ Cardinality(S) <= Cardinality(Items)
  BY ItemsAssumption, FS_Subset
<1>2. Cardinality(S) \in Nat /\ Cardinality(Items) \in Nat
  BY <1>1, ItemsAssumption, FS_CardinalityType
<1> QED BY <1>1, <1>2

LEMMA WorkersCount ==
  ASSUME NEW S \in SUBSET Workers
  PROVE  IsFiniteSet(S) /\ Cardinality(S) \in 0 .. Cardinality(Workers)
<1>1. IsFiniteSet(S) /\ Cardinality(S) <= Cardinality(Workers)
  BY WorkersAssumption, FS_Subset
<1>2. Cardinality(S) \in Nat /\ Cardinality(Workers) \in Nat
  BY <1>1, WorkersAssumption, FS_CardinalityType
<1> QED BY <1>1, <1>2

----------------------------------------------------------------------------
(* The initial states *)

(* An item without predecessors is on no cycle. *)
LEMMA FreeIsAcyclic ==
  ASSUME NEW g \in [Items -> SUBSET Items], NEW i \in Items, g[i] = {}
  PROVE  i \notin Cyclic(g)
<1>1. Ancestors(g, i) = {}
  BY DEF Ancestors
<1> QED BY <1>1 DEF Cyclic

LEMMA InitType == Init => TypeOK
<1> SUFFICES ASSUME Init PROVE TypeOK
  OBVIOUS
<1>1. before \in [Items -> SUBSET Items]
  BY PlansAssumption DEF Init
<1>2. remaining \in [Items -> 0 .. Cardinality(Items)]
  BY <1>1, ItemsCount DEF Init
<1>3. Cyclic(before) \subseteq Items
  BY <1>1 DEF Cyclic
<1>4. inFlight \in 0 .. Cardinality(Workers)
  BY WorkersCount DEF Init
<1>5. pc \in [Workers -> WorkerStates]
  BY DEF Init, WorkerStates
<1>6. outcome \in [Items -> Outcomes]
  BY DEF Init, Outcomes
<1> QED BY <1>1, <1>2, <1>3, <1>4, <1>5, <1>6 DEF Init, TypeOK

LEMMA InitInv == Init => IInv
<1> SUFFICES ASSUME Init PROVE IInv
  OBVIOUS
<1>1. TypeOK
  BY InitType
<1>2. Done = Cyclic(before) /\ unsettled = Done /\ Settled = {}
  BY <1>1 DEF Init, TypeOK, Done, Settled, Cyclic
<1>3. \A d \in Items : Missing(d) = before[d] /\ ~Taken(d)
  BY <1>2, NoItemAssumption DEF Init, Missing, Taken
<1>4. ready \cap Done = {}
  BY <1>1, <1>2, FreeIsAcyclic DEF Init, TypeOK
<1>5. \A d \in Items : Counted(d)
  BY <1>1, <1>2, <1>3 DEF Init, TypeOK, Counted
<1>6. Running = {}
  BY DEF Init, Running
<1>7. RunInv
  BY <1>6, FS_EmptySet, NoItemAssumption DEF Init, RunInv
<1>8. PICK crew \in (SUBSET Workers) \ {{}} :
        pc = [w \in Workers |-> IF w \in crew THEN "top" ELSE "absent"]
  BY DEF Init
<1>9. TurnInv
  <2>1. ~cancelled
    BY DEF Init
  <2>2. \A w \in Workers : pc[w] \in {"absent", "top"}
    BY <1>8
  <2> QED BY <2>1, <2>2 DEF TurnInv
<1>10. LeaveInv
  <2>1. \A w \in Workers : pc[w] \in {"absent", "top"}
    BY <1>8
  <2>2. Crew # {}
    BY <1>8 DEF Crew
  <2> QED BY <2>1, <2>2 DEF LeaveInv
<1> QED BY <1>1, <1>2, <1>4, <1>5, <1>7, <1>9, <1>10 DEF IInv, PlanInv
----------------------------------------------------------------------------
(* Settling an item *)

(* A count of missing dependencies goes down by one for each that is found. *)
LEMMA CountDown ==
  ASSUME NEW S \in SUBSET Items, NEW i
  PROVE  /\ Cardinality(S) \in Nat
         /\ Cardinality(S \ {i}) = Cardinality(S) - (IF i \in S THEN 1 ELSE 0)
         /\ Cardinality(S) = 0 <=> S = {}
         /\ i \in S => Cardinality(S) >= 1
<1>1. IsFiniteSet(S) /\ Cardinality(S) \in Nat
  BY ItemsCount, ItemsAssumption, FS_CardinalityType
<1>2. Cardinality(S \ {i}) = IF i \in S THEN Cardinality(S) - 1 ELSE Cardinality(S)
  BY <1>1, FS_RemoveElement
<1>3. Cardinality(S) = 0 <=> S = {}
  BY <1>1, FS_EmptySet
<1> QED BY <1>1, <1>2, <1>3

LEMMA SettleInv ==
  ASSUME IInv, NEW i \in Items, Settle(i)
  PROVE  IInv'
<1> DEFINE left == [d \in Items |-> remaining[d] - (IF d \in Told(i) THEN 1 ELSE 0)]
           free == {d \in Told(i) : left[d] = 0}
           losers == free \cap Blocked(i)
<1>1. /\ i \in unsettled
      /\ remaining' = left /\ blocked' = Blocked(i)
      /\ ready' = ready \cup (free \ losers)
      /\ outcome' = [d \in Items |-> IF d \in losers THEN "skipped" ELSE outcome[d]]
      /\ unsettled' = (unsettled \ {i}) \cup losers
      /\ UNCHANGED <<before, failFast, inFlight, pc, item, cancelled>>
  BY DEF Settle, Pending, planVars
<1>2. /\ before \in [Items -> SUBSET Items] /\ outcome \in [Items -> Outcomes]
      /\ unsettled \subseteq Done /\ i \in Done /\ Done \subseteq Items
      /\ remaining \in [Items -> 0 .. Cardinality(Items)]
  BY <1>1 DEF IInv, TypeOK, PlanInv, Done
<1>3. losers \subseteq Items \ Done /\ free \subseteq Items \ Done
  BY DEF Told
<1>4. Done' = Done \cup losers
  BY <1>1, <1>2, <1>3 DEF Done
<1>5. Settled' = Settled \cup {i} /\ i \notin Settled
  BY <1>1, <1>2, <1>3, <1>4 DEF Settled
<1>6. \A d \in Items : Missing(d)' = Missing(d) \ {i} /\ Missing(d) \in SUBSET Items
  BY <1>1, <1>2, <1>5 DEF Missing
<1>7. \A d \in Items \ Done : d \in Told(i) <=> i \in Missing(d)
  BY <1>2, <1>5 DEF Told, Missing
<1>8. \A d \in Items \ Done :
         /\ Counted(d) /\ remaining[d] = Cardinality(Missing(d))
         /\ left[d] = Cardinality(Missing(d) \ {i})
         /\ left[d] = 0 <=> Missing(d) \ {i} = {}
  <2> SUFFICES ASSUME NEW d \in Items \ Done
               PROVE  /\ Counted(d) /\ remaining[d] = Cardinality(Missing(d))
                      /\ left[d] = Cardinality(Missing(d) \ {i})
                      /\ left[d] = 0 <=> Missing(d) \ {i} = {}
    OBVIOUS
  <2>1. Counted(d)
    BY DEF IInv, PlanInv
  <2>2. remaining[d] = Cardinality(Missing(d))
    BY <2>1 DEF Counted
  <2>3. Missing(d) \in SUBSET Items /\ Missing(d) \ {i} \in SUBSET Items
    BY <1>6
  <2>4. left[d] = Cardinality(Missing(d) \ {i})
    BY <1>7, <2>2, <2>3, CountDown
  <2>5. Cardinality(Missing(d) \ {i}) = 0 <=> Missing(d) \ {i} = {}
    BY <2>3, CountDown
  <2> QED BY <2>1, <2>2, <2>4, <2>5
<1>9. left \in [Items -> 0 .. Cardinality(Items)]
  <2> SUFFICES ASSUME NEW d \in Items
               PROVE  left[d] \in 0 .. Cardinality(Items)
    OBVIOUS
  <2>1. CASE d \in Told(i)
    <3>1. left[d] = Cardinality(Missing(d) \ {i}) /\ Missing(d) \ {i} \in SUBSET Items
      BY <1>6, <1>8, <2>1 DEF Told
    <3> QED BY <3>1, ItemsCount
  <2>2. CASE d \notin Told(i)
    BY <1>2, <2>2
  <2> QED BY <2>1, <2>2
<1> HIDE DEF left
<1>10. Blocked(i) \subseteq Items
  BY DEF IInv, TypeOK, Blocked, Told
<1>11. TypeOK'
  <2>1. outcome' \in [Items -> Outcomes]
    BY <1>1, <1>2 DEF Outcomes
  <2> QED BY <1>1, <1>3, <1>9, <1>10, <2>1 DEF IInv, TypeOK
<1>12. ASSUME NEW d \in Items \ Done'
       PROVE  Counted(d)'
  <2>1. d \in Items \ Done /\ d \notin losers
    BY <1>4, <1>12
  <2>2. Missing(d)' = Missing(d) \ {i} /\ remaining'[d] = Cardinality(Missing(d)')
    BY <1>1, <1>6, <1>8, <2>1
  <2>3. Taken(d)' <=> Taken(d)
    BY <1>1 DEF Taken
  <2>4. \A p \in Settled \cup {i} : outcome'[p] = outcome[p]
    BY <1>1, <1>2, <1>3 DEF Settled
  <2>5. d \in blocked <=> \E p \in before[d] \cap Settled : outcome[p] # "succeeded"
    BY <1>8, <2>1 DEF Counted
  <2>6. i \in before[d] <=> d \in Told(i)
    BY <1>2, <2>1 DEF Told
  <2>7. d \in Blocked(i) <=>
          \E p \in before[d] \cap (Settled \cup {i}) : outcome[p] # "succeeded"
    BY <2>5, <2>6 DEF Blocked
  <2>8. d \in blocked' <=> \E p \in before'[d] \cap Settled' : outcome'[p] # "succeeded"
    BY <1>1, <1>5, <2>4, <2>7
  <2>9. /\ Missing(d) = {} <=> d \in ready \/ Taken(d)
        /\ Missing(d) = {} => d \notin blocked
    BY <1>8, <2>1 DEF Counted
  <2>10. d \in free <=> i \in Missing(d) /\ Missing(d) \ {i} = {}
    BY <1>7, <1>8, <2>1
  <2>11. Missing(d)' = {} <=> d \in ready' \/ Taken(d)'
    BY <1>1, <2>1, <2>2, <2>3, <2>9, <2>10
  <2>12. Missing(d)' = {} => d \notin blocked'
    BY <1>1, <1>7, <2>1, <2>2, <2>9, <2>10 DEF Blocked
  <2> QED BY <2>2, <2>8, <2>11, <2>12 DEF Counted
<1>13. PlanInv'
  <2>1. ready \cap Done = {} /\ Cyclic(before) \subseteq Done
    BY DEF IInv, PlanInv
  <2>2. unsettled' \subseteq Done'
    BY <1>1, <1>2, <1>4
  <2>3. ready' \cap Done' = {}
    <3>1. ready \cap losers = {}
      BY <1>3, <1>7, <1>8 DEF Counted
    <3> QED BY <1>1, <1>3, <1>4, <2>1, <3>1
  <2>4. Cyclic(before') \subseteq Done'
    BY <1>1, <1>4, <2>1
  <2> QED BY <1>12, <2>2, <2>3, <2>4 DEF PlanInv
<1>14. \A w \in Workers : item[w] \notin free
  BY <1>3, <1>7, <1>8 DEF Counted, Taken
<1>15. RunInv'
  <2>1. Running' = Running
    BY <1>1 DEF Running
  <2>2. RunInv
    BY DEF IInv
  <2>3. \A w \in Workers : item'[w] \notin ready'
    BY <1>1, <1>14, <2>2 DEF RunInv
  <2>4. \A w \in Workers : item[w] \in Items \ Done <=> item'[w] \in Items \ Done'
    BY <1>1, <1>3, <1>4, <1>14
  <2> QED BY <1>1, <2>1, <2>2, <2>3, <2>4 DEF RunInv, Running
<1>16. TurnInv'
  BY <1>1 DEF IInv, TurnInv, TurnFree
<1>17. LeaveInv'
  <2>1. ShouldStop => ShouldStop'
    BY <1>1, <1>2 DEF ShouldStop
  <2>2. ~Stuck
    BY <1>1 DEF Stuck
  <2>3. (\E w \in Workers : pc[w] = "waiting") => \E v \in Workers : pc[v] = "settling"
    BY <1>1 DEF IInv, TurnInv
  <2> QED BY <1>1, <2>1, <2>2, <2>3 DEF IInv, LeaveInv, Crew
<1> QED BY <1>11, <1>13, <1>15, <1>16, <1>17 DEF IInv
----------------------------------------------------------------------------
(* A worker goes round its loop *)

LEMMA RoundInv ==
  ASSUME IInv, NEW w \in Workers, NEW states,
         \/ pc[w] = "top" /\ TurnFree /\ states = pc
         \/ pc[w] = "settling" /\ states = Woken,
         unsettled = {}, ~cancelled,
         GoRound(w, states),
         UNCHANGED <<planVars, remaining, blocked, unsettled, outcome, cancelled>>
  PROVE  IInv'
<1>1. UNCHANGED <<before, failFast, remaining, blocked, unsettled, outcome, cancelled>>
  BY DEF planVars
<1>2. /\ pc \in [Workers -> WorkerStates] /\ states \in [Workers -> WorkerStates]
      /\ item \in [Workers -> Items \cup {NoItem}] /\ ready \subseteq Items
      /\ inFlight \in Nat
  BY WorkersCount DEF IInv, TypeOK, Woken, WorkerStates
<1>3. \A v \in Workers :
         \/ states[v] = pc[v]
         \/ pc[v] = "waiting" /\ states[v] = "top"
  BY <1>2 DEF Woken
<1>4. Done' = Done /\ Settled' = Settled /\ \A d \in Items : Missing(d)' = Missing(d)
  BY <1>1 DEF Done, Settled, Missing
<1>5. item[w] \notin Items \ Done
  BY DEF IInv, RunInv
<1>6. Flat' = Flat /\ ShouldStop' = ShouldStop
  BY <1>1 DEF Flat, ShouldStop
<1>7. \A v \in Workers : pc[v] = "waiting" /\ states[v] = "waiting" => ready = {}
  BY <1>2 DEF IInv, LeaveInv, TurnFree, Woken
<1> DEFINE Same(end) == /\ pc' = [states EXCEPT ![w] = end]
                        /\ UNCHANGED <<ready, inFlight, item>>
<1>8. ASSUME NEW end \in {"ended", "waiting"}, Same(end),
             end = "ended" => Leaves, end = "waiting" => ready = {}
      PROVE  IInv'
  <2>1. TypeOK'
    BY <1>1, <1>2, <1>8 DEF IInv, TypeOK, WorkerStates
  <2>2. PlanInv'
    <3>1. \A d \in Items : Counted(d)' <=> Counted(d)
      BY <1>1, <1>4, <1>8 DEF Counted, Taken
    <3> QED BY <1>1, <1>4, <1>8, <3>1 DEF IInv, PlanInv
  <2>3. Running' = Running
    BY <1>2, <1>3, <1>8 DEF Running
  <2>4. RunInv'
    <3>1. \A v \in Workers : item[v] \in Items \ Done =>
             v # w /\ pc'[v] = pc[v] /\ pc[v] \in {"running", "interrupted", "escaped"}
      BY <1>2, <1>3, <1>5, <1>8 DEF IInv, RunInv
    <3> QED BY <1>4, <1>8, <2>3, <3>1 DEF IInv, RunInv
  <2>5. TurnInv'
    BY <1>1, <1>2, <1>3, <1>8 DEF IInv, TurnInv
  <2>6. LeaveInv'
    <3>1. Stuck' <=> Stuck
      BY <1>1, <1>4, <1>6, <1>8 DEF Stuck
    <3>2. ASSUME NEW v \in Workers, pc'[v] = "ended"
          PROVE  ShouldStop' \/ Stuck'
      <4>1. CASE v = w
        BY <1>2, <1>6, <1>8, <3>1, <3>2, <4>1 DEF Leaves, NothingLeft, Stuck
      <4>2. CASE v # w
        BY <1>2, <1>3, <1>6, <1>8, <3>1, <3>2, <4>2 DEF IInv, LeaveInv
      <4> QED BY <4>1, <4>2
    <3>3. ASSUME NEW v \in Workers, pc'[v] = "waiting"
          PROVE  ready' = {}
      BY <1>2, <1>3, <1>7, <1>8, <3>3
    <3>4. w \in Crew'
      BY <1>2, <1>8 DEF Crew
    <3> QED BY <3>2, <3>3, <3>4 DEF LeaveInv
  <2> QED BY <2>1, <2>2, <2>4, <2>5, <2>6 DEF IInv
<1> DEFINE first == First(ready)
<1>9. ASSUME ready # {}, pc' = [states EXCEPT ![w] = "running"],
             item' = [item EXCEPT ![w] = first], ready' = ready \ {first},
             inFlight' = inFlight + 1
      PROVE  IInv'
  <2>1. first \in ready /\ first \in Items \ Done
    BY <1>2, <1>9, FirstIsReady DEF IInv, PlanInv
  <2> HIDE DEF first
  <2>2. \A v \in Workers : item[v] # first /\ item[v] \notin ready
    BY <2>1 DEF IInv, RunInv
  <2>3. PlanInv'
    <3>1. \A d \in Items \ Done : Taken(d)' <=> Taken(d) \/ d = first
      BY <1>2, <1>5, <1>9 DEF Taken
    <3>2. \A d \in Items \ Done : Counted(d)' <=> Counted(d)
      BY <1>1, <1>4, <1>9, <2>1, <3>1 DEF Counted
    <3> QED BY <1>1, <1>4, <1>9, <3>2 DEF IInv, PlanInv
  <2>4. Running' = Running \cup {w} /\ w \notin Running
    BY <1>2, <1>3, <1>9 DEF Running
  <2>5. inFlight' = Cardinality(Running')
    <3>1. IsFiniteSet(Running)
      BY WorkersCount DEF Running
    <3> QED BY <1>9, <2>4, <3>1, FS_AddElement DEF IInv, RunInv
  <2>6. RunInv'
    <3>1. \A v, u \in Workers : v # u /\ item'[v] = item'[u] => item'[v] = NoItem
      BY <1>2, <1>9, <2>1, <2>2 DEF IInv, RunInv
    <3>2. \A v \in Workers : item'[v] \notin ready'
      BY <1>2, <1>9, <2>2
    <3>3. \A v \in Running' : item'[v] \in Items \ Done'
      BY <1>2, <1>4, <1>9, <2>1, <2>4 DEF IInv, RunInv, Running
    <3>4. \A v \in Workers : item'[v] \in Items \ Done' =>
             pc'[v] \in {"running", "interrupted", "escaped"}
      <4> SUFFICES ASSUME NEW v \in Workers, item'[v] \in Items \ Done'
                   PROVE  pc'[v] \in {"running", "interrupted", "escaped"}
        OBVIOUS
      <4>1. CASE v = w
        BY <1>2, <1>9, <4>1
      <4>2. CASE v # w
        <5>1. item[v] \in Items \ Done
          BY <1>2, <1>4, <1>9, <4>2
        <5>2. pc[v] \in {"running", "interrupted", "escaped"}
          BY <5>1 DEF IInv, RunInv
        <5> QED BY <1>2, <1>3, <1>9, <4>2, <5>2
      <4> QED BY <4>1, <4>2
    <3> QED BY <2>5, <3>1, <3>2, <3>3, <3>4 DEF RunInv
  <2>7. TypeOK'
    <3>1. inFlight' \in 0 .. Cardinality(Workers)
      BY <2>5, WorkersCount DEF Running
    <3>2. item' \in [Workers -> Items \cup {NoItem}] /\ pc' \in [Workers -> WorkerStates]
      BY <1>2, <1>9, <2>1 DEF WorkerStates
    <3> QED BY <1>1, <1>9, <3>1, <3>2 DEF IInv, TypeOK
  <2>8. TurnInv'
    BY <1>1, <1>2, <1>3, <1>9 DEF IInv, TurnInv
  <2>9. LeaveInv'
    <3>1. \A v \in Workers : pc'[v] = "ended" => pc[v] = "ended"
      BY <1>2, <1>3, <1>9
    <3>2. (\E v \in Workers : pc[v] = "ended") => ShouldStop
      BY <1>9 DEF IInv, LeaveInv, Stuck
    <3>3. \A v \in Workers : pc'[v] # "waiting"
      BY <1>2, <1>3, <1>7, <1>9
    <3>4. w \in Crew'
      BY <1>2, <1>9 DEF Crew
    <3> QED BY <1>6, <3>1, <3>2, <3>3, <3>4 DEF LeaveInv
  <2> QED BY <2>3, <2>6, <2>7, <2>8, <2>9 DEF IInv
<1> QED BY <1>8, <1>9 DEF GoRound
----------------------------------------------------------------------------
(* An operation ends, or is interrupted *)

LEMMA OneLanded ==
  ASSUME TypeOK, RunInv, NEW w \in Workers, NEW to \in WorkerStates \ {"running"},
         pc' = [pc EXCEPT ![w] = to], inFlight' = Landed(w)
  PROVE  /\ Running' = Running \ {w}
         /\ inFlight' = Cardinality(Running') /\ inFlight' \in 0 .. Cardinality(Workers)
         /\ inFlight = 0 => inFlight' = 0
<1>1. Running' = Running \ {w}
  BY DEF TypeOK, Running
<1>2. IsFiniteSet(Running) /\ inFlight = Cardinality(Running) /\ inFlight \in Nat
  BY WorkersCount DEF RunInv, Running
<1>3. inFlight' = Cardinality(Running')
  <2>1. w \in Running <=> pc[w] = "running"
    BY DEF Running
  <2>2. Cardinality(Running \ {w}) =
          IF w \in Running THEN Cardinality(Running) - 1 ELSE Cardinality(Running)
    BY <1>2, FS_RemoveElement
  <2> QED BY <1>1, <1>2, <2>1, <2>2 DEF Landed
<1>4. inFlight = 0 => Running = {}
  BY <1>2, FS_EmptySet
<1> QED BY <1>1, <1>2, <1>3, <1>4, WorkersCount DEF Landed, Running

LEMMA FinishInv ==
  ASSUME IInv, NEW w \in Workers, Finish(w)
  PROVE  IInv'
<1> DEFINE it == item[w]
<1>1. PICK how \in {"succeeded", "failed"} : outcome' = [outcome EXCEPT ![it] = how]
  BY DEF Finish
<1>2. /\ pc[w] = "running" /\ unsettled = {} /\ ~cancelled
      /\ \A v \in Workers : pc[v] # "settling"
      /\ unsettled' = IF Flat THEN {} ELSE {it}
      /\ pc' = [pc EXCEPT ![w] = "settling"] /\ inFlight' = Landed(w)
      /\ UNCHANGED <<before, failFast, remaining, blocked, ready, item, cancelled>>
  BY DEF Finish, TurnFree, planVars
<1>3. /\ it \in Items \ Done /\ it \notin ready /\ w \in Running
      /\ \A v \in Workers \ {w} : item[v] # it
  BY <1>2, NoItemAssumption DEF IInv, RunInv, Running
<1> HIDE DEF it
<1>4. /\ before \in [Items -> SUBSET Items] /\ outcome \in [Items -> Outcomes]
      /\ pc \in [Workers -> WorkerStates]
  BY DEF IInv, TypeOK
<1>5. Done' = Done \cup {it}
  BY <1>1, <1>3, <1>4 DEF Done
<1>6. Settled = Done /\ Settled' = IF Flat THEN Done \cup {it} ELSE Done
  BY <1>2, <1>3, <1>5 DEF Settled
<1>7. \A d \in Items : Missing(d)' = Missing(d)
  BY <1>2, <1>6 DEF Missing, Flat
<1>8. \A d \in Items \ Done' : Counted(d)'
  <2> SUFFICES ASSUME NEW d \in Items \ Done' PROVE Counted(d)'
    OBVIOUS
  <2>1. Counted(d)
    BY <1>5 DEF IInv, PlanInv
  <2>2. Taken(d)' <=> Taken(d)
    BY <1>2 DEF Taken
  <2>3. before[d] \cap Settled' = before[d] \cap Settled
    BY <1>6 DEF Flat
  <2>4. \A p \in Settled : outcome'[p] = outcome[p]
    BY <1>1, <1>3, <1>4, <1>6 DEF Done
  <2> QED BY <1>2, <1>7, <2>1, <2>2, <2>3, <2>4 DEF Counted
<1>9. PlanInv'
  BY <1>2, <1>3, <1>5, <1>8 DEF IInv, PlanInv
<1>10. /\ Running' = Running \ {w} /\ inFlight' = Cardinality(Running')
       /\ inFlight' \in 0 .. Cardinality(Workers)
  BY <1>2, OneLanded DEF IInv, WorkerStates
<1>11. RunInv'
  BY <1>2, <1>3, <1>4, <1>5, <1>10 DEF IInv, RunInv, Running, it
<1>12. TypeOK'
  <2>1. outcome' \in [Items -> Outcomes]
    BY <1>1, <1>3, <1>4 DEF Outcomes
  <2>2. pc' \in [Workers -> WorkerStates]
    BY <1>2, <1>4 DEF WorkerStates
  <2> QED BY <1>2, <1>3, <1>10, <2>1, <2>2 DEF IInv, TypeOK
<1>13. TurnInv'
  BY <1>2, <1>4 DEF IInv, TurnInv
<1>14. LeaveInv'
  <2>1. ShouldStop => ShouldStop'
    BY <1>1, <1>2, <1>3, <1>4 DEF ShouldStop, Done
  <2>2. inFlight # 0
    BY <1>3, WorkersCount, FS_EmptySet DEF IInv, RunInv, Running
  <2>3. Stuck => Stuck'
    BY <1>2, <1>3, <2>2 DEF Stuck, Flat
  <2>4. pc'[w] = "settling"
    BY <1>2, <1>4
  <2>5. \A v \in Workers : pc'[v] = "ended" => pc[v] = "ended"
    BY <1>2, <1>4
  <2>6. (\E v \in Workers : pc'[v] = "ended") => ShouldStop' \/ Stuck'
    BY <2>1, <2>3, <2>5 DEF IInv, LeaveInv
  <2> QED BY <2>4, <2>6 DEF LeaveInv, Crew
<1> QED BY <1>9, <1>11, <1>12, <1>13, <1>14 DEF IInv

(* A worker is taken down, or its operation ends the worker. *)
LEMMA TakenDownInv ==
  ASSUME IInv, NEW w \in Workers, Interrupted(w) \/ OperationRaisesCancelled(w)
  PROVE  IInv'
<1>1. /\ pc[w] \in {"top", "waiting", "running"}
      /\ inFlight' = Landed(w)
      /\ \E to \in {"interrupted", "escaped"} :
            /\ pc' = [pc EXCEPT ![w] = to]
            /\ to = "interrupted" => cancelled'
      /\ (cancelled => cancelled') /\ cancelled' \in BOOLEAN
      /\ UNCHANGED <<before, failFast, remaining, blocked, ready, unsettled, outcome, item>>
  <2>1. CASE Interrupted(w)
    BY <2>1 DEF Interrupted, planVars, IInv, TypeOK
  <2>2. CASE OperationRaisesCancelled(w)
    BY <2>2 DEF OperationRaisesCancelled, planVars
  <2> QED BY <2>1, <2>2
<1>2. unsettled = {} /\ \A v \in Workers : pc[v] # "settling"
  BY DEF Interrupted, OperationRaisesCancelled, TurnFree, IInv, TurnInv
<1>3. PICK to \in {"interrupted", "escaped"} :
         /\ pc' = [pc EXCEPT ![w] = to]
         /\ to = "interrupted" => cancelled'
  BY <1>1
<1>4. pc \in [Workers -> WorkerStates]
  BY DEF IInv, TypeOK
<1>5. /\ Running' = Running \ {w} /\ inFlight' = Cardinality(Running')
      /\ inFlight' \in 0 .. Cardinality(Workers)
      /\ inFlight = 0 => inFlight' = 0
  BY <1>1, <1>3, OneLanded DEF IInv, WorkerStates
<1>6. /\ Done' = Done /\ Settled' = Settled /\ ShouldStop' = ShouldStop /\ Flat' = Flat
      /\ \A d \in Items : Missing(d)' = Missing(d) /\ (Taken(d)' <=> Taken(d))
  BY <1>1 DEF Done, Settled, ShouldStop, Flat, Missing, Taken
<1>7. PlanInv'
  <2>1. \A d \in Items : Counted(d)' <=> Counted(d)
    BY <1>1, <1>6 DEF Counted
  <2> QED BY <1>1, <1>6, <2>1 DEF IInv, PlanInv
<1>8. RunInv'
  <2>1. \A v \in Workers : pc'[v] = IF v = w THEN to ELSE pc[v]
    BY <1>3, <1>4
  <2>2. \A v \in Running' : item'[v] \in Items \ Done'
    BY <1>1, <1>5, <1>6 DEF IInv, RunInv
  <2>3. \A v \in Workers : item'[v] \in Items \ Done' =>
           pc'[v] \in {"running", "interrupted", "escaped"}
    BY <1>1, <1>6, <2>1 DEF IInv, RunInv
  <2> QED BY <1>1, <1>5, <2>2, <2>3 DEF IInv, RunInv
<1>9. TypeOK'
  BY <1>1, <1>3, <1>4, <1>5 DEF IInv, TypeOK, WorkerStates
<1>10. TurnInv'
  <2>1. \A v \in Workers : pc'[v] = IF v = w THEN to ELSE pc[v]
    BY <1>3, <1>4
  <2>2. unsettled' = {} /\ TurnFree'
    BY <1>1, <1>2, <2>1 DEF TurnFree
  <2>3. \A v \in Workers : pc'[v] = "interrupted" => cancelled'
    BY <1>1, <1>3, <2>1 DEF IInv, TurnInv
  <2> QED BY <2>2, <2>3 DEF TurnInv
<1>11. LeaveInv'
  <2>1. Stuck => Stuck'
    BY <1>1, <1>5, <1>6 DEF Stuck
  <2>2. \A v \in Workers : /\ pc'[v] = "ended" => pc[v] = "ended"
                           /\ pc'[v] = "waiting" => pc[v] = "waiting"
    BY <1>3, <1>4
  <2>3. w \in Crew'
    BY <1>3, <1>4 DEF Crew
  <2> QED BY <1>1, <1>2, <1>6, <2>1, <2>2, <2>3 DEF IInv, LeaveInv
<1> QED BY <1>7, <1>8, <1>9, <1>10, <1>11 DEF IInv

LEMMA CancelInv ==
  ASSUME IInv, Cancel
  PROVE  IInv'
<1>1. /\ TurnFree /\ cancelled' = TRUE
      /\ UNCHANGED <<before, failFast, remaining, blocked, ready, unsettled, outcome,
                     inFlight, pc, item>>
  BY DEF Cancel, planVars
<1>2. /\ Done' = Done /\ Settled' = Settled /\ ShouldStop' = ShouldStop
      /\ \A d \in Items : Missing(d)' = Missing(d) /\ (Taken(d)' <=> Taken(d))
      /\ Running' = Running /\ Stuck' = Stuck /\ Crew' = Crew
  BY <1>1 DEF Done, Settled, ShouldStop, Flat, Missing, Taken, Running, Stuck, Crew
<1>3. \A d \in Items : Counted(d)' <=> Counted(d)
  BY <1>1, <1>2 DEF Counted
<1>4. PlanInv'
  BY <1>1, <1>2, <1>3 DEF IInv, PlanInv
<1>5. RunInv' /\ TypeOK'
  BY <1>1, <1>2 DEF IInv, RunInv, TypeOK
<1>6. TurnInv'
  BY <1>1 DEF IInv, TurnInv, TurnFree
<1>7. LeaveInv'
  BY <1>1, <1>2 DEF IInv, LeaveInv
<1> QED BY <1>4, <1>5, <1>6, <1>7 DEF IInv

----------------------------------------------------------------------------
(* The inductive invariant and what follows from it *)

LEMMA NextInv == IInv /\ [Next]_vars => IInv'
<1> SUFFICES ASSUME IInv, [Next]_vars PROVE IInv'
  OBVIOUS
<1>1. CASE UNCHANGED vars
  <2>1. /\ Done' = Done /\ Settled' = Settled /\ ShouldStop' = ShouldStop
        /\ \A d \in Items : Missing(d)' = Missing(d) /\ (Taken(d)' <=> Taken(d))
        /\ Running' = Running /\ Stuck' = Stuck /\ Crew' = Crew /\ TurnFree' = TurnFree
    BY <1>1 DEF vars, planVars, Done, Settled, ShouldStop, Flat, Missing, Taken, Running,
                Stuck, Crew, TurnFree
  <2>2. \A d \in Items : Counted(d)' <=> Counted(d)
    BY <1>1, <2>1 DEF vars, planVars, Counted
  <2>3. TypeOK' /\ PlanInv'
    BY <1>1, <2>1, <2>2 DEF vars, planVars, IInv, TypeOK, PlanInv
  <2> QED BY <1>1, <2>1, <2>3 DEF vars, planVars, IInv, RunInv, TurnInv, LeaveInv
<1>2. ASSUME NEW w \in Workers, Resume(w)
      PROVE  IInv'
  BY <1>2, RoundInv DEF Resume, TurnFree
<1>3. ASSUME NEW w \in Workers, Continue(w)
      PROVE  IInv'
  <2>1. ~cancelled
    BY <1>3 DEF Continue, IInv, TurnInv, TurnFree
  <2> QED BY <1>3, <2>1, RoundInv DEF Continue
<1> QED BY <1>1, <1>2, <1>3, CancelInv, SettleInv, FinishInv, TakenDownInv
        DEF Next, Over, WorkerStep

THEOREM InductiveInvariant == Spec => []IInv
BY InitInv, NextInv, PTL DEF Spec

(* Every variable keeps its type: no counter of a dependency goes below zero *)
(* and no more items are in flight than there are workers.                   *)
THEOREM TypeCorrect == Spec => []TypeOK
<1>1. IInv => TypeOK
  BY DEF IInv
<1> QED BY <1>1, InductiveInvariant, PTL

(* As long as an item is ready, no worker waits or has left, however many    *)
(* there are (execution.py, worker and settle).                              *)
THEOREM FullStrengthHolds == Spec => []FullStrength
<1>1. IInv => FullStrength
  <2> SUFFICES ASSUME IInv, TurnFree, ready # {}, ~ShouldStop, ~cancelled, NEW w \in Crew
               PROVE  pc[w] \in {"top", "running", "escaped"}
    BY DEF FullStrength
  <2>1. pc[w] \in WorkerStates \ {"absent"} /\ w \in Workers
    BY DEF IInv, TypeOK, Crew
  <2> QED BY <2>1 DEF IInv, TurnInv, LeaveInv, Stuck, TurnFree, WorkerStates
<1> QED BY <1>1, InductiveInvariant, PTL

(* A run that nothing stopped decides every item, whatever the graph and the *)
(* number of workers: only a cycle could keep items waiting for each other,  *)
(* and the items on cycles are decided before any worker starts.             *)
THEOREM NothingIsForgotten == Spec => []NothingForgotten
<1>1. IInv => NothingForgotten
  <2> SUFFICES ASSUME IInv, Ended, ~cancelled, ~Escaped, ~ShouldStop
               PROVE  Done = Items
    BY DEF NothingForgotten
  <2>1. \A w \in Workers : pc[w] \in {"absent", "ended"}
    BY DEF Ended, Escaped, IInv, TurnInv
  <2>2. Stuck
    BY <2>1 DEF IInv, LeaveInv, Crew
  <2>3. \A d \in Items \ Done : ~Taken(d)
    BY <2>1 DEF IInv, RunInv, Taken
  <2>4. Settled = Done /\ Done \subseteq Items
    BY <2>2 DEF Stuck, Settled, Done
  <2>5. \A d \in Items \ Done : before[d] \cap (Items \ Done) # {}
    <3> SUFFICES ASSUME NEW d \in Items \ Done PROVE before[d] \cap (Items \ Done) # {}
      OBVIOUS
    <3>1. Missing(d) # {}
      BY <2>2, <2>3 DEF IInv, PlanInv, Counted, Stuck
    <3>2. before[d] \subseteq Items
      BY DEF IInv, TypeOK
    <3> QED BY <2>4, <3>1, <3>2 DEF Missing
  <2>6. Items \ Done # {} => (Items \ Done) \cap Cyclic(before) # {}
    BY <2>5, WaitingMeetsCycle DEF IInv, TypeOK
  <2> QED BY <2>4, <2>6 DEF IInv, PlanInv
<1> QED BY <1>1, InductiveInvariant, PTL
----------------------------------------------------------------------------
(* The refinement of OrderedRun *)

StatusOf(i) ==
    CASE i \in Done -> outcome[i]
      [] i \notin Done /\ (\E w \in Running : item[w] = i) -> "running"
      [] i \notin Done /\ Taken(i) /\ ~(\E w \in Running : item[w] = i) -> "interrupted"
      [] OTHER -> "planned"

LEMMA StatusIs ==
  /\ Status = [i \in Items |-> StatusOf(i)]
  /\ Status' = [i \in Items |-> StatusOf(i)']
<1>1. ASSUME NEW i \in Items
      PROVE  Status[i] = StatusOf(i) /\ Status'[i] = StatusOf(i)'
  BY DEF Status, StatusOf, Done, Running, Taken
<1>2. DOMAIN Status = Items /\ DOMAIN Status' = Items
  BY DEF Status
<1>3. Status = [i \in Items |-> Status[i]] /\ Status' = [i \in Items |-> Status'[i]]
  BY DEF Status
<1> QED BY <1>1, <1>3

LEMMA InitImplements == Init => Ordered!Init
<1> SUFFICES ASSUME Init PROVE Ordered!Init
  OBVIOUS
<1>1. TypeOK
  BY InitType
<1>2. \A i \in Items : ~Taken(i)
  BY NoItemAssumption DEF Init, Taken
<1>3. Running = {}
  BY DEF Init, Running
<1>4. \A i \in Items : StatusOf(i) = IF i \in Cyclic(before) THEN "skipped" ELSE "planned"
  BY <1>2, <1>3 DEF Init, StatusOf, Done
<1>5. Cyclic(before) = Ordered!Cyclic(before)
  BY DEF Cyclic, Ancestors, Ordered!Cyclic, Ordered!Ancestors
<1> QED BY <1>1, <1>4, <1>5, StatusIs DEF TypeOK, Ordered!Init

(* Steps that change no end, no item and nobody that runs are not seen. *)
LEMMA NotSeen ==
  ASSUME UNCHANGED <<before, failFast, outcome, item>>, Running' = Running
  PROVE  UNCHANGED Ordered!vars
<1>1. Done' = Done /\ \A i \in Items : Taken(i)' <=> Taken(i)
  BY DEF Done, Taken
<1>2. \A i \in Items : StatusOf(i)' = StatusOf(i)
  BY <1>1 DEF StatusOf
<1>3. Status' = Status
  BY <1>2, StatusIs
<1> QED BY <1>3 DEF Ordered!vars

LEMMA StoppedIs ==
  ASSUME TypeOK
  PROVE  Ordered!Stopped <=> ShouldStop
<1>1. \A i \in Items : StatusOf(i) \in {"failed", "skipped"} <=> outcome[i] \in {"failed", "skipped"}
  BY DEF StatusOf, Done, TypeOK, Outcomes
<1>2. \A i \in Items : Status[i] = StatusOf(i)
  BY StatusIs
<1> QED BY <1>1, <1>2 DEF Ordered!Stopped, ShouldStop

LEMMA RoundImplements ==
  ASSUME IInv, NEW w \in Workers, NEW states,
         \/ pc[w] = "top" /\ states = pc
         \/ pc[w] = "settling" /\ states = Woken,
         unsettled = {},
         GoRound(w, states),
         UNCHANGED <<planVars, outcome>>
  PROVE  Ordered!Next \/ UNCHANGED Ordered!vars
<1>1. /\ states \in [Workers -> WorkerStates]
      /\ \A v \in Workers : states[v] = "running" <=> pc[v] = "running"
  BY DEF IInv, TypeOK, Woken, WorkerStates
<1>2. UNCHANGED <<before, failFast, outcome>> /\ Done' = Done
  BY DEF planVars, Done
<1>3. CASE item' = item /\ \E end \in {"ended", "waiting"} : pc' = [states EXCEPT ![w] = end]
  <2>1. Running' = Running
    BY <1>1, <1>3 DEF Running
  <2> QED BY <1>2, <1>3, <2>1, NotSeen
<1> DEFINE first == First(ready)
<1>4. CASE /\ ~ShouldStop /\ ready # {} /\ pc' = [states EXCEPT ![w] = "running"]
           /\ item' = [item EXCEPT ![w] = first]
  <2>1. first \in ready /\ first \in Items \ Done
    BY <1>4, FirstIsReady DEF IInv, TypeOK, PlanInv
  <2> HIDE DEF first
  <2>2. \A v \in Workers : item[v] # first
    BY <2>1 DEF IInv, RunInv
  <2>3. Running' = Running \cup {w}
    BY <1>1, <1>4 DEF Running
  <2>4. item[w] \notin Items \ Done
    BY DEF IInv, RunInv
  <2>5. item \in [Workers -> Items \cup {NoItem}] /\ item'[w] = first
    BY <1>4 DEF IInv, TypeOK
  <2>6. ASSUME NEW i \in Items
        PROVE  StatusOf(i)' = IF i = first THEN "running" ELSE StatusOf(i)
    <3>1. CASE i \in Done
      BY <1>2, <2>1, <3>1 DEF StatusOf
    <3>2. CASE i = first
      BY <1>2, <2>1, <2>3, <2>5, <3>2 DEF StatusOf
    <3>3. CASE i \notin Done /\ i # first
      <4>1. Taken(i)' <=> Taken(i)
        BY <1>4, <2>4, <2>5, <3>3 DEF Taken
      <4>2. (\E v \in Running' : item'[v] = i) <=> \E v \in Running : item[v] = i
        BY <1>4, <2>3, <2>4, <2>5, <3>3 DEF Running
      <4> QED BY <1>2, <3>3, <4>1, <4>2 DEF StatusOf
    <3> QED BY <3>1, <3>2, <3>3
  <2>7. Status' = [Status EXCEPT ![first] = "running"]
    BY <2>1, <2>6, StatusIs
  <2>8. Status[first] = "planned"
    <3>1. ~Taken(first)
      BY <2>2 DEF Taken
    <3>2. ~(\E v \in Running : item[v] = first)
      BY <2>2 DEF Running
    <3> QED BY <2>1, <3>1, <3>2, StatusIs DEF StatusOf
  <2>9. \A p \in before[first] : Status[p] = "succeeded"
    <3> SUFFICES ASSUME NEW p \in before[first] PROVE Status[p] = "succeeded"
      OBVIOUS
    <3>1. Counted(first)
      BY <2>1 DEF IInv, PlanInv
    <3>2. Missing(first) = {} /\ first \notin blocked
      BY <2>1, <3>1 DEF Counted
    <3>3. p \in Settled /\ p \in Items
      BY <2>1, <3>2 DEF Missing, IInv, TypeOK
    <3>4. outcome[p] = "succeeded" /\ p \in Done
      BY <3>1, <3>2, <3>3 DEF Counted, Settled
    <3> QED BY <3>3, <3>4, StatusIs DEF StatusOf
  <2>10. ~Ordered!Stopped
    BY <1>4, StoppedIs DEF IInv
  <2>11. Ordered!Begin(first)
    BY <1>2, <2>7, <2>8, <2>9, <2>10 DEF Ordered!Begin, Ordered!Move
  <2> QED BY <2>1, <2>11 DEF Ordered!Next
<1> QED BY <1>3, <1>4 DEF GoRound, Leaves

LEMMA SettleImplements ==
  ASSUME IInv, NEW i \in Items, Settle(i)
  PROVE  Ordered!Next \/ UNCHANGED Ordered!vars
<1> DEFINE left == [d \in Items |-> remaining[d] - (IF d \in Told(i) THEN 1 ELSE 0)]
           free == {d \in Told(i) : left[d] = 0}
           losers == free \cap Blocked(i)
<1>1. /\ i \in unsettled
      /\ outcome' = [d \in Items |-> IF d \in losers THEN "skipped" ELSE outcome[d]]
      /\ UNCHANGED <<before, failFast, pc, item>>
  BY DEF Settle, Pending, planVars
<1>2. /\ outcome \in [Items -> Outcomes] /\ before \in [Items -> SUBSET Items]
      /\ i \in Done /\ i \notin Settled
  BY <1>1 DEF IInv, TypeOK, PlanInv, Settled
<1>3. losers \subseteq Items \ Done
  BY DEF Told
<1>4. ASSUME NEW d \in losers
      PROVE  /\ Missing(d) = {i} /\ ~Taken(d)
             /\ \E p \in before[d] \cap Done : outcome[p] # "succeeded"
  <2>1. d \in Told(i) /\ i \in before[d] /\ d \in Items \ Done
    BY DEF Told
  <2>2. Counted(d)
    BY <2>1 DEF IInv, PlanInv
  <2>3. i \in Missing(d) /\ Missing(d) \in SUBSET Items
    BY <1>2, <2>1 DEF Missing
  <2>4. Cardinality(Missing(d) \ {i}) = 0
    BY <2>1, <2>2, <2>3, CountDown DEF Counted
  <2>5. Missing(d) = {i}
    <3>1. Missing(d) \ {i} \in SUBSET Items
      BY <2>3
    <3>2. Missing(d) \ {i} = {}
      BY <2>4, <3>1, CountDown
    <3> QED BY <2>3, <3>2
  <2>6. ~Taken(d)
    BY <2>2, <2>3 DEF Counted
  <2>7. \E p \in before[d] \cap Done : outcome[p] # "succeeded"
    <3>1. CASE outcome[i] # "succeeded"
      BY <1>2, <2>1, <3>1
    <3>2. CASE outcome[i] = "succeeded"
      <4>1. d \in blocked
        BY <3>2 DEF Blocked
      <4> QED BY <2>2, <4>1 DEF Counted, Settled
    <3> QED BY <3>1, <3>2
  <2> QED BY <2>5, <2>6, <2>7
<1> HIDE DEF losers
<1>5. Done' = Done \cup losers /\ Running' = Running
  BY <1>1, <1>2, <1>3 DEF Done, Running
<1>6. CASE losers = {}
  <2>1. outcome' = outcome
    BY <1>1, <1>2, <1>6
  <2> QED BY <1>1, <1>5, <2>1, NotSeen
<1>7. CASE losers # {}
  <2>1. ASSUME NEW d \in Items
        PROVE  StatusOf(d)' = IF d \in losers THEN "skipped" ELSE StatusOf(d)
    <3>1. Taken(d)' <=> Taken(d)
      BY <1>1 DEF Taken
    <3>2. outcome'[d] = IF d \in losers THEN "skipped" ELSE outcome[d]
      BY <1>1
    <3> QED BY <1>1, <1>5, <3>1, <3>2 DEF StatusOf
  <2>2. Status' = [d \in Items |-> IF d \in losers THEN "skipped" ELSE Status[d]]
    BY <2>1, StatusIs
  <2>3. ASSUME NEW d \in losers
        PROVE  /\ Status[d] = "planned"
               /\ \A p \in before[d] : Status[p] \in {"succeeded", "failed", "skipped"}
               /\ \E p \in before[d] : Status[p] # "succeeded"
    <3>1. Status[d] = "planned"
      <4>1. ~(\E v \in Running : item[v] = d)
        BY <1>4 DEF Taken, Running
      <4> QED BY <1>3, <1>4, <4>1, StatusIs DEF StatusOf
    <3>2. before[d] \subseteq Items /\ before[d] \subseteq Done
      BY <1>2, <1>3, <1>4 DEF Missing, Settled
    <3>3. \A p \in before[d] : Status[p] = outcome[p] /\ outcome[p] \in Outcomes \ {"planned"}
      BY <1>2, <3>2, StatusIs DEF StatusOf, Done
    <3> QED BY <1>4, <3>1, <3>3 DEF Outcomes
  <2>4. Ordered!Skip
    <3>1. losers \in (SUBSET Items) \ {{}}
      BY <1>3, <1>7
    <3> QED BY <1>1, <2>2, <2>3, <3>1 DEF Ordered!Skip, Ordered!Over
  <2> QED BY <2>4 DEF Ordered!Next
<1> QED BY <1>6, <1>7

(* The item of a worker that runs leaves the state "running". *)
LEMMA EndsRunning ==
  ASSUME IInv, NEW w \in Workers, pc[w] = "running", NEW to,
         StatusOf(item[w])' = to, item' = item, Running' = Running \ {w},
         \A i \in Items \ {item[w]} : i \in Done' <=> i \in Done,
         \A i \in Items \ {item[w]} : outcome'[i] = outcome[i]
  PROVE  /\ item[w] \in Items /\ Status[item[w]] = "running"
         /\ Status' = [Status EXCEPT ![item[w]] = to]
<1>1. item[w] \in Items \ Done /\ w \in Running
  BY DEF IInv, RunInv, Running
<1>2. \A v \in Workers \ {w} : item[v] # item[w]
  BY <1>1, NoItemAssumption DEF IInv, RunInv
<1>3. ASSUME NEW i \in Items, i # item[w]
      PROVE  StatusOf(i)' = StatusOf(i)
  <2>1. Taken(i)' <=> Taken(i)
    BY DEF Taken
  <2>2. (\E v \in Running' : item'[v] = i) <=> \E v \in Running : item[v] = i
    BY <1>3
  <2> QED BY <1>3, <2>1, <2>2 DEF StatusOf
<1>4. Status[item[w]] = "running"
  BY <1>1, StatusIs DEF StatusOf
<1>5. Status' = [Status EXCEPT ![item[w]] = to]
  BY <1>1, <1>3, StatusIs
<1> QED BY <1>1, <1>4, <1>5

LEMMA FinishImplements ==
  ASSUME IInv, NEW w \in Workers, Finish(w)
  PROVE  Ordered!Next
<1>1. PICK how \in {"succeeded", "failed"} : outcome' = [outcome EXCEPT ![item[w]] = how]
  BY DEF Finish
<1>2. /\ pc[w] = "running" /\ pc' = [pc EXCEPT ![w] = "settling"]
      /\ UNCHANGED <<before, failFast, item>>
  BY DEF Finish, planVars
<1>3. item[w] \in Items \ Done /\ outcome \in [Items -> Outcomes]
  BY <1>2 DEF IInv, RunInv, Running, TypeOK
<1>4. Running' = Running \ {w}
  BY <1>2 DEF IInv, TypeOK, Running
<1>5. Done' = Done \cup {item[w]} /\ StatusOf(item[w])' = how
  BY <1>1, <1>2, <1>3 DEF Done, StatusOf
<1>6. \A i \in Items \ {item[w]} : outcome'[i] = outcome[i]
  BY <1>1, <1>3
<1>7. /\ item[w] \in Items /\ Status[item[w]] = "running"
      /\ Status' = [Status EXCEPT ![item[w]] = how]
  BY <1>2, <1>4, <1>5, <1>6, EndsRunning
<1>8. Ordered!End(item[w])
  BY <1>2, <1>7 DEF Ordered!End, Ordered!Move
<1> QED BY <1>3, <1>8 DEF Ordered!Next

LEMMA TakenDownImplements ==
  ASSUME IInv, NEW w \in Workers, Interrupted(w) \/ OperationRaisesCancelled(w)
  PROVE  Ordered!Next \/ UNCHANGED Ordered!vars
<1>1. /\ pc[w] \in {"top", "waiting", "running"}
      /\ \E to \in {"interrupted", "escaped"} : pc' = [pc EXCEPT ![w] = to]
      /\ UNCHANGED <<before, failFast, outcome, item>>
  BY DEF Interrupted, OperationRaisesCancelled, planVars
<1>2. Running' = Running \ {w} /\ Done' = Done
  BY <1>1 DEF IInv, TypeOK, Running, Done
<1>3. CASE pc[w] # "running"
  <2>1. Running' = Running
    BY <1>2, <1>3 DEF Running
  <2> QED BY <1>1, <2>1, NotSeen
<1>4. CASE pc[w] = "running"
  <2>1. item[w] \in Items \ Done
    BY <1>4 DEF IInv, RunInv, Running
  <2>2. StatusOf(item[w])' = "interrupted"
    <3>1. \A v \in Workers \ {w} : item[v] # item[w]
      BY <2>1, NoItemAssumption DEF IInv, RunInv
    <3>2. Taken(item[w])' /\ ~(\E v \in Running' : item'[v] = item[w])
      BY <1>1, <1>2, <3>1 DEF Taken, Running
    <3> QED BY <1>1, <1>2, <2>1, <3>2 DEF StatusOf
  <2>3. /\ item[w] \in Items /\ Status[item[w]] = "running"
        /\ Status' = [Status EXCEPT ![item[w]] = "interrupted"]
    BY <1>1, <1>2, <1>4, <2>2, EndsRunning
  <2>4. Ordered!Interrupt(item[w])
    BY <1>1, <2>3 DEF Ordered!Interrupt, Ordered!Move
  <2> QED BY <2>1, <2>4 DEF Ordered!Next
<1> QED BY <1>3, <1>4

(* The executor implements the abstract run, for every plan: an item starts  *)
(* once and only after everything it depends on succeeded, an item is        *)
(* skipped only behind a failure or on a cycle, and a fail-fast run starts   *)
(* nothing after a failure (execution.py, worker, settle, should_stop).      *)
THEOREM RunIsOrdered == Spec => ImplementsOrderedRun
<1>1. ASSUME IInv, [Next]_vars
      PROVE  [Ordered!Next]_(Ordered!vars)
  <2>1. ASSUME UNCHANGED vars
        PROVE  UNCHANGED Ordered!vars
    BY <2>1, NotSeen DEF vars, planVars, Running
  <2>2. ASSUME Cancel
        PROVE  UNCHANGED Ordered!vars
    BY <2>2, NotSeen DEF Cancel, planVars, Running
  <2>3. ASSUME NEW w \in Workers, Resume(w) \/ Continue(w)
        PROVE  [Ordered!Next]_(Ordered!vars)
    BY <1>1, <2>3, RoundImplements DEF Resume, Continue, TurnFree
  <2>4. ASSUME NEW w \in Workers, Finish(w)
        PROVE  Ordered!Next
    BY <1>1, <2>4, FinishImplements
  <2>5. ASSUME NEW w \in Workers, Interrupted(w) \/ OperationRaisesCancelled(w)
        PROVE  [Ordered!Next]_(Ordered!vars)
    BY <1>1, <2>5, TakenDownImplements
  <2>6. ASSUME NEW i \in Items, Settle(i)
        PROVE  [Ordered!Next]_(Ordered!vars)
    BY <1>1, <2>6, SettleImplements
  <2> QED BY <1>1, <2>1, <2>2, <2>3, <2>4, <2>5, <2>6 DEF Next, Over, WorkerStep
<1> QED BY <1>1, InitImplements, InductiveInvariant, PTL
        DEF Spec, ImplementsOrderedRun, Ordered!Spec
=============================================================================
