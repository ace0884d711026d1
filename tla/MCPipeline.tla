----------------------------- MODULE MCPipeline -----------------------------
(* Small instances of Pipeline for TLC. *)
EXTENDS Pipeline

CONSTANTS a, b, c

MCIds == {a, b, c}

\* A chain: c is built from b, b from a.  Only b has a cheap indicator.
MCChain == [r \in MCIds |-> CASE r = a -> {} [] r = b -> {a} [] r = c -> {b}]
MCChainOnly == {MCChain}
MCIndicated == {b}

\* Discovery names the dependencies of b.  Those of c only its snapshot names.
MCIndicatedBoth == {b, c}
MCTold == {b}

Whole(mode) == [mode |-> mode, ids |-> {}, matched |-> {}]
Target(ids, matched) ==
    [mode |-> "TARGETED", ids |-> ids, matched |-> matched]

MCRequests ==
    [p \in Policies |->
        IF p THEN {Whole("DEPENDENCY_AWARE")}
        ELSE {Whole("INCREMENTAL"), Whole("DEPENDENCY_AWARE"), Whole("FULL"),
              Target({a}, {b})}]
MCAware == [p \in Policies |-> {Whole("DEPENDENCY_AWARE")}]

\* c is built from b, and may come to be built from a as well.
MCFork == [r \in MCIds |-> IF r = c THEN {a, b} ELSE {}]
MCForkLater == {[r \in MCIds |-> IF r = c THEN {b} ELSE {}]}
=============================================================================
