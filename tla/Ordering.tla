------------------------------ MODULE Ordering ------------------------------
(***************************************************************************)
(* How a plan finds its dependency cycles                                  *)
(* (src/refresh_engine/_internal/planning.py): _order counts predecessors  *)
(* down, _strongly_connected is an iterative form of Tarjan's algorithm on *)
(* what is left, and _cycle searches the cycle to report for an item.      *)
(*                                                                         *)
(* The code is sequential: a step is one round of a loop.  Its loops go    *)
(* over sets in ascending order, so a set and its least element stand for  *)
(* an iterator.                                                            *)
(***************************************************************************)
EXTENDS DependencyGraph, SequencesExt

CONSTANTS
    Items,      \* positions of the plan
    Plans       \* the graphs it may have

ASSUME ItemsAssumption == Items \subseteq Nat /\ IsFiniteSet(Items)
ASSUME PlansAssumption == Plans \subseteq [Items -> SUBSET Items]

VARIABLES
    before,     \* predecessors
    phase,      \* the function that runs
    remaining,  \* _order: item -> predecessors not processed
    ready,      \*         the queue of items that have none left
    blocked,    \*         the items the counting could not process
    indexOf,    \* _strongly_connected: node -> order of its first visit
    low,        \*                      node -> low link
    stack,      \*                      nodes of components still open
    work,       \*                      the path: nodes and children left
    components, \*                      the components found
    start,      \* _cycle: the item whose cycle is searched
    parents,    \*         node -> the node it was reached from
    queue,      \*         the nodes to expand
    cycle       \*         the cycle found, or its end

countVars == <<remaining, ready, blocked>>
sccVars == <<indexOf, low, stack, work, components>>
searchVars == <<start, parents, queue, cycle>>
vars == <<before, phase, countVars, sccVars, searchVars>>

\* A loop over a set goes upwards.
Ascending(S) ==
    [k \in 1..Cardinality(S) |->
        CHOOSE i \in S : Cardinality({j \in S : j < i}) = k - 1]

\* The dictionary f with the value v for the keys in S.
Extended(f, S, v) ==
    [m \in DOMAIN f \cup S |-> IF m \in S THEN v ELSE f[m]]

Init ==
    /\ before \in Plans
    /\ phase = "count"
    /\ remaining = [i \in Items |-> Cardinality(before[i])]
    /\ ready = Ascending({i \in Items : before[i] = {}})
    /\ blocked = {}
    /\ indexOf = <<>> /\ low = <<>>
    /\ stack = <<>> /\ work = <<>>
    /\ components = {}
    /\ start = 0 /\ parents = <<>> /\ queue = <<>> /\ cycle = <<>>

----------------------------------------------------------------------------
(* _order: count predecessors down.                                        *)

Dependents(i) == {d \in Items : i \in before[d]}

Process ==
    /\ phase = "count" /\ ready # <<>>
    /\ LET told == Dependents(Head(ready))
           left == [d \in Items |->
                      remaining[d] - (IF d \in told THEN 1 ELSE 0)]
       IN  /\ remaining' = left
           /\ ready' = Tail(ready) \o Ascending({d \in told : left[d] = 0})
    /\ UNCHANGED <<before, phase, blocked, sccVars, searchVars>>

\* processed == count ends the ordering; otherwise what is left is searched.
LeftAtLeastOne == {i \in Items : remaining[i] > 1}                  \* mutant
Left == {i \in Items : remaining[i] > 0}

CountEnds ==
    /\ phase = "count" /\ ready = <<>>
    /\ phase' = IF Left = {} THEN "done" ELSE "components"
    /\ blocked' = Left
    /\ UNCHANGED <<before, remaining, ready, sccVars, searchVars>>

----------------------------------------------------------------------------
(* _strongly_connected(blocked, predecessors).                             *)

Enter(n, path) ==
    /\ indexOf' = Extended(indexOf, {n}, Cardinality(DOMAIN indexOf))
    /\ low' = Extended(low, {n}, Cardinality(DOMAIN indexOf))
    /\ stack' = Append(stack, n)
    /\ work' = Append(path, [node |-> n, children |-> before[n] \cap blocked])
    /\ UNCHANGED <<before, phase, countVars, components, searchVars>>

Root ==
    /\ phase = "components" /\ work = <<>>
    /\ DOMAIN indexOf # blocked
    /\ Enter(Min(blocked \ DOMAIN indexOf), <<>>)

\* The next child of the node at the end of the path.
Open(child) == Contains(stack, child)

Child ==
    /\ phase = "components" /\ work # <<>> /\ Last(work).children # {}
    /\ LET node  == Last(work).node
           child == Min(Last(work).children)
           path  == [work EXCEPT ![Len(work)].children = @ \ {child}]
       IN  \/ /\ child \notin DOMAIN indexOf
              /\ Enter(child, path)
           \/ /\ child \in DOMAIN indexOf
              /\ work' = path
              /\ low' = IF Open(child)
                        THEN [low EXCEPT ![node] = Min({@, indexOf[child]})]
                        ELSE low
              /\ UNCHANGED <<before, phase, countVars, indexOf, stack,
                             components, searchVars>>

\* The node has no child left: it passes its low link to its parent, and closes
\* its component if it is the root of one.
Retreat ==
    /\ phase = "components" /\ work # <<>> /\ Last(work).children = {}
    /\ LET node  == Last(work).node
           path  == Front(work)
           above == SelectLastInSeq(stack, LAMBDA n : n = node)
       IN  /\ work' = path
           /\ low' = IF path = <<>> THEN low
                     ELSE [low EXCEPT ![Last(path).node] = Min({@, low[node]})]
           /\ IF low[node] = indexOf[node]
              THEN /\ components' = components \cup
                        {ToSet(SubSeq(stack, above, Len(stack)))}
                   /\ stack' = SubSeq(stack, 1, above - 1)
              ELSE UNCHANGED <<components, stack>>
    /\ UNCHANGED <<before, phase, countVars, indexOf, searchVars>>

----------------------------------------------------------------------------
(* The cycles of the plan, and the one reported for each item.             *)

AnyComponent == components                                          \* mutant
CycleComponents ==
    {c \in components :
        Cardinality(c) = 1 => \A i \in c : i \in before[i]}

\* plan.cycles, once the components are known.
Cycles == UNION CycleComponents

ComponentsEnd ==
    /\ phase = "components" /\ work = <<>> /\ DOMAIN indexOf = blocked
    /\ phase' = "cycle"
    /\ \E i \in Cycles : start' = i /\ queue' = <<i>>
    /\ UNCHANGED <<before, countVars, sccVars, parents, cycle>>

Component == CHOOSE c \in components : start \in c

DeepestFirst(new) == Ascending(new) \o Tail(queue)                  \* mutant
QueueAfter(new) == Tail(queue) \o Ascending(new)

Search ==
    /\ phase = "cycle" /\ queue # <<>>
    /\ LET node     == Head(queue)
           required == before[node] \cap Component
           new      == required \ DOMAIN parents
       IN  \/ /\ start \in required
              /\ cycle' = <<node, start>>
              /\ phase' = "path"
              /\ UNCHANGED <<parents, queue>>
           \/ /\ start \notin required
              /\ parents' = Extended(parents, new, node)
              /\ queue' = QueueAfter(new)
              /\ UNCHANGED <<phase, cycle>>
    /\ UNCHANGED <<before, countVars, sccVars, start>>

\* The path back to `start`, by the parents of the search.
Trace ==
    /\ phase = "path"
    /\ \/ /\ Head(cycle) # start
          /\ cycle' = <<parents[Head(cycle)]>> \o cycle
          /\ UNCHANGED phase
       \/ /\ Head(cycle) = start
          /\ phase' = "done"
          /\ UNCHANGED cycle
    /\ UNCHANGED <<before, countVars, sccVars, start, parents, queue>>

----------------------------------------------------------------------------
Done == phase = "done" /\ UNCHANGED vars

Next == Process \/ CountEnds \/ Root \/ Child \/ Retreat \/ ComponentsEnd
            \/ Search \/ Trace \/ Done

Spec == Init /\ [][Next]_vars

----------------------------------------------------------------------------
(* Properties.                                                             *)

\* What the counting leaves is what a cycle blocks: the items of cycles and all
\* that depend on them, and nothing else.
BlockedByCycles ==
    phase # "count" =>
        LET cyclic == Cyclic(before)
        IN  blocked = {i \in Items : i \in cyclic \/ Ancestors(before, i) \cap cyclic # {}}

\* The plan reports as cyclic exactly the items on a cycle: those and no other
\* are skipped without being tried.
CyclesExact ==
    phase \in {"cycle", "path", "done"} => Cycles = Cyclic(before)

\* The cycle reported for an item is one: it starts and ends with the item, and
\* each of its items depends on the next.  No shorter one exists.
Closed(walk) ==
    \A k \in 1..Len(walk) :
        LET after == IF k = Len(walk) THEN walk[1] ELSE walk[k + 1]
        IN  after \in before[walk[k]]

ReportsShortestCycle ==
    phase = "done" /\ blocked # {} =>
        /\ cycle[1] = start /\ Last(cycle) = start
        /\ Closed(Front(cycle))
        /\ \A n \in 1..(Len(cycle) - 2) :
             \A walk \in [1..n -> Items] :
                 walk[1] = start => ~Closed(walk)
=============================================================================
