--------------------------- MODULE MCCoordinator ---------------------------
(* Small instances of Coordinator for TLC. *)
EXTENDS Coordinator, TLC

CONSTANTS c1, c2, c3, k1, a, b

MCCalls3 == {c1, c2, c3}
MCCalls2 == {c1, c2}
MCClosers == {k1}
MCIds == {a, b}

Targeted(ids) == [mode |-> "TARGETED", ids |-> ids]
Mode(m) == [mode |-> m, ids |-> {}]

\* Three calls: every way a TARGETED request meets another one.
MCRequests ==
    [p \in Policies |-> {Mode("FULL"), Mode("INCREMENTAL"),
                         Targeted({a}), Targeted({b})}]

\* Two calls: the pairs the first set leaves out.  Only COALESCE looks at what
\* a request asks for.
MCFewRequests ==
    [p \in Policies |->
        IF p = "COALESCE"
        THEN {Mode("DEPENDENCY_AWARE"), Mode("INCREMENTAL"), Targeted({a})}
        ELSE {Mode("INCREMENTAL")}]

Symmetry == Permutations(MCCalls3)
SymmetryWithIds == Permutations(MCCalls3) \cup Permutations(MCIds)
=============================================================================
