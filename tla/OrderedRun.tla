----------------------------- MODULE OrderedRun -----------------------------
(***************************************************************************)
(* What the execution of a plan promises: an item runs at most once, and   *)
(* only after everything it depends on succeeded; an item is skipped only  *)
(* because it is on a dependency cycle or something it depends on did not  *)
(* succeed; and a fail-fast run starts nothing after the first failure.    *)
(***************************************************************************)
EXTENDS DependencyGraph

CONSTANT Items

VARIABLES
    before,     \* item -> the items it waits for
    failFast,   \* the failure policy is FAIL_FAST
    status      \* item -> how far it is

vars == <<before, failFast, status>>

Over == {"succeeded", "failed", "skipped"}

Init ==
    /\ before \in [Items -> SUBSET Items]
    /\ failFast \in BOOLEAN
    /\ status = [i \in Items |->
                   IF i \in Cyclic(before) THEN "skipped" ELSE "planned"]

Stopped == failFast /\ \E i \in Items : status[i] \in {"failed", "skipped"}

Move(i, to) ==
    /\ status' = [status EXCEPT ![i] = to]
    /\ UNCHANGED <<before, failFast>>

Begin(i) ==
    /\ status[i] = "planned" /\ ~Stopped
    /\ \A p \in before[i] : status[p] = "succeeded"
    /\ Move(i, "running")

End(i) ==
    /\ status[i] = "running"
    /\ \E how \in {"succeeded", "failed"} : Move(i, how)

\* Several items that lost a dependency may be skipped at once.
Skip ==
    \E S \in (SUBSET Items) \ {{}} :
        /\ \A i \in S :
             /\ status[i] = "planned"
             /\ \A p \in before[i] : status[p] \in Over
             /\ \E p \in before[i] : status[p] # "succeeded"
        /\ status' = [i \in Items |->
                        IF i \in S THEN "skipped" ELSE status[i]]
        /\ UNCHANGED <<before, failFast>>

\* The refresh was cancelled while the item ran: how it ended is not recorded,
\* and it is not run again.
Interrupt(i) == status[i] = "running" /\ Move(i, "interrupted")

Next == Skip \/ \E i \in Items : Begin(i) \/ End(i) \/ Interrupt(i)

Spec == Init /\ [][Next]_vars
=============================================================================
