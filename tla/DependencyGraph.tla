--------------------------- MODULE DependencyGraph ---------------------------
(***************************************************************************)
(* The graph of a plan: before[i] is the set of items that must complete   *)
(* before item i (planning.py, _predecessors).                             *)
(***************************************************************************)

\* The items that must complete, directly or not, before i: the smallest set
\* that has the predecessors of i and of its own members.
Ancestors(before, i) ==
    {j \in DOMAIN before :
        \A S \in SUBSET DOMAIN before :
            before[i] \subseteq S /\ (\A k \in S : before[k] \subseteq S)
                => j \in S}

\* The items on a dependency cycle.
Cyclic(before) == {i \in DOMAIN before : i \in Ancestors(before, i)}
=============================================================================
