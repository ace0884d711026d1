----------------------------- MODULE Execution -----------------------------
(***************************************************************************)
(* The execution of one plan (src/refresh_engine/_internal/execution.py,   *)
(* concurrency.py): worker tasks take items whose dependencies succeeded,  *)
(* run their operations, and settle their dependents.                      *)
(*                                                                         *)
(* All workers run in one event loop.  A worker keeps control from the     *)
(* moment the operation of its item returns until it waits again, that is, *)
(* while it settles the item and goes round its loop; TurnFree says that   *)
(* no worker is in the middle of that.                                     *)
(***************************************************************************)
EXTENDS Naturals, FiniteSets, DependencyGraph

CONSTANTS
    Items,      \* positions of the plan
    Plans,      \* the graphs it may have
    Workers,    \* worker tasks that max_concurrency may allow
    NoItem      \* a worker that took nothing yet

ASSUME ItemsAssumption ==
    Items \subseteq Nat /\ IsFiniteSet(Items) /\ Items # {}
ASSUME PlansAssumption == Plans \subseteq [Items -> SUBSET Items]
ASSUME WorkersAssumption == IsFiniteSet(Workers) /\ Workers # {}
ASSUME NoItemAssumption == NoItem \notin Items

VARIABLES
    before,     \* the plan: item -> the items it waits for
    failFast,   \* the failure policy is FAIL_FAST
    remaining,  \* item -> number of its predecessors that are not settled
    blocked,    \* failed_dependency: the items a predecessor of which failed
    ready,      \* the heap of items whose predecessors all succeeded
    unsettled,  \* settle(): items whose end its dependents were not told of
    outcome,    \* item -> its entry in context.executions, or "planned"
    inFlight,   \* _in_flight
    pc,         \* worker -> what it is doing
    item,       \* worker -> the last item it took
    cancelled   \* CancelledError was thrown into the workers

planVars == <<before, failFast>>
vars == <<planVars, remaining, blocked, ready, unsettled, outcome, inFlight,
          pc, item, cancelled>>

Outcomes == {"planned", "succeeded", "failed", "skipped"}
WorkerStates == {"absent", "top", "waiting", "running", "settling", "ended",
                 "interrupted", "escaped"}

TypeOK ==
    /\ before \in [Items -> SUBSET Items]
    /\ failFast \in BOOLEAN
    /\ remaining \in [Items -> 0..Cardinality(Items)]
    /\ blocked \subseteq Items
    /\ ready \subseteq Items
    /\ unsettled \subseteq Items
    /\ outcome \in [Items -> Outcomes]
    /\ inFlight \in 0..Cardinality(Workers)
    /\ pc \in [Workers -> WorkerStates]
    /\ item \in [Workers -> Items \cup {NoItem}]
    /\ cancelled \in BOOLEAN

----------------------------------------------------------------------------
\* No item depends on another: the plan has no graph, and the workers share an
\* iterator over the items (run_bounded).
Flat == \A i \in Items : before[i] = {}

Done == {i \in Items : outcome[i] # "planned"}

\* should_stop(): a fail-fast policy, and an issue was recorded.
ShouldStop == failFast /\ \E i \in Items : outcome[i] \in {"failed", "skipped"}

\* heappop, or the next item of the iterator.
First(s) == CHOOSE i \in s : \A j \in s : i <= j

Crew == {w \in Workers : pc[w] # "absent"}

TurnFree == unsettled = {} /\ \A w \in Workers : pc[w] # "settling"

\* run() up to the start of the workers: the items on cycles are skipped, and
\* their dependents are settled before any worker starts.
Init ==
    /\ before \in Plans
    /\ failFast \in BOOLEAN
    /\ remaining = [i \in Items |-> Cardinality(before[i])]
    /\ blocked = {}
    /\ ready = {i \in Items : before[i] = {}}
    /\ unsettled = Cyclic(before)
    /\ outcome = [i \in Items |->
                    IF i \in Cyclic(before) THEN "skipped" ELSE "planned"]
    /\ inFlight = 0
    /\ \E crew \in (SUBSET Workers) \ {{}} :
         /\ Cardinality(crew) <= Cardinality(Items)
         /\ pc = [w \in Workers |-> IF w \in crew THEN "top" ELSE "absent"]
    /\ item = [w \in Workers |-> NoItem]
    /\ cancelled = FALSE

----------------------------------------------------------------------------
(* settle(index, succeeded): one round of its loop, for one settled item.  *)

\* The dependents of i that have no entry in context.executions yet.
Told(i) == {d \in Items : i \in before[d] /\ d \notin Done}

\* blocker is None: no dependency of the item failed.
Blocked(i) ==
    IF outcome[i] = "succeeded" THEN blocked ELSE blocked \cup Told(i)

\* pending: a skipped item is settled in its turn.
NotCascaded(i, losers) == unsettled \ {i}                           \* mutant
Pending(i, losers) == (unsettled \ {i}) \cup losers

Settle(i) ==
    LET left   == [d \in Items |->
                     remaining[d] - (IF d \in Told(i) THEN 1 ELSE 0)]
        free   == {d \in Told(i) : left[d] = 0}
        losers == free \cap Blocked(i)
    IN  /\ i \in unsettled
        /\ remaining' = left
        /\ blocked' = Blocked(i)
        /\ ready' = ready \cup (free \ losers)
        /\ outcome' = [d \in Items |->
                         IF d \in losers THEN "skipped" ELSE outcome[d]]
        /\ unsettled' = Pending(i, losers)
        /\ UNCHANGED <<planVars, inFlight, pc, item, cancelled>>

----------------------------------------------------------------------------
(* worker(): from one await to the next.                                   *)

\* wakeup.set().  wait() is always preceded by clear(), so the event needs no
\* state of its own: set() wakes the workers that wait at that moment.
WokenOne ==                                                         \* mutant
    IF \E w \in Workers : pc[w] = "waiting"
    THEN [pc EXCEPT ![CHOOSE w \in Workers : pc[w] = "waiting"] = "top"]
    ELSE pc
Woken == [w \in Workers |-> IF pc[w] = "waiting" THEN "top" ELSE pc[w]]

\* Nothing is left for this worker to do, now or later.
HeapEmpty == ready = {}                                             \* mutant
NothingLeft ==
    ready = {} /\ (Flat \/ Done = Items \/ inFlight = 0)

FinishesPlan == NothingLeft                                         \* mutant
Leaves == ShouldStop \/ NothingLeft

\* _in_flight once the worker w no longer runs its item (the `finally` of the
\* loop, so whatever ended the item).
Landed(w) == IF pc[w] = "running" THEN inFlight - 1 ELSE inFlight

\* The top of the loop, when the states of the workers are `states`.
GoRound(w, states) ==
    \/ /\ Leaves
       /\ pc' = [states EXCEPT ![w] = "ended"]
       /\ UNCHANGED <<ready, inFlight, item>>
    \/ /\ ~Leaves /\ ready = {}
       /\ pc' = [states EXCEPT ![w] = "waiting"]
       /\ UNCHANGED <<ready, inFlight, item>>
    \/ /\ ~Leaves /\ ready # {}
       /\ pc' = [states EXCEPT ![w] = "running"]
       /\ item' = [item EXCEPT ![w] = First(ready)]
       /\ ready' = ready \ {First(ready)}
       /\ inFlight' = inFlight + 1

\* The worker starts, or returns from wakeup.wait().
Resume(w) ==
    /\ pc[w] = "top" /\ TurnFree /\ ~cancelled
    /\ GoRound(w, pc)
    /\ UNCHANGED <<planVars, remaining, blocked, unsettled, outcome, cancelled>>

\* The operation of its item succeeded, or failed for good (or the item could
\* not be observed again): _run_item returns.
Finish(w) ==
    /\ pc[w] = "running" /\ TurnFree /\ ~cancelled
    /\ \E how \in {"succeeded", "failed"} :
         outcome' = [outcome EXCEPT ![item[w]] = how]
    /\ inFlight' = Landed(w)
    /\ unsettled' = IF Flat THEN {} ELSE {item[w]}
    /\ pc' = [pc EXCEPT ![w] = "settling"]
    /\ UNCHANGED <<planVars, remaining, blocked, ready, item, cancelled>>

\* The item is settled: the worker wakes the others and goes round its loop.
Continue(w) ==
    /\ pc[w] = "settling" /\ unsettled = {}
    /\ GoRound(w, Woken)
    /\ UNCHANGED <<planVars, remaining, blocked, unsettled, outcome, cancelled>>

----------------------------------------------------------------------------
(* Cancellation.                                                           *)

Ended == \A w \in Workers : pc[w] \in {"absent", "ended", "interrupted", "escaped"}

\* The refresh is cancelled, or exceeds its overall timeout: run_workers passes
\* the CancelledError on to every worker, which meets it where it waits.
Cancel ==
    /\ ~cancelled /\ TurnFree /\ ~Ended
    /\ cancelled' = TRUE
    /\ UNCHANGED <<planVars, remaining, blocked, ready, unsettled, outcome,
                   inFlight, pc, item>>

Interrupted(w) ==
    /\ cancelled
    /\ pc[w] \in {"top", "waiting", "running"}
    /\ pc' = [pc EXCEPT ![w] = "interrupted"]
    /\ inFlight' = Landed(w)
    /\ UNCHANGED <<planVars, remaining, blocked, ready, unsettled, outcome,
                   item, cancelled>>

\* The operation raises CancelledError although nobody cancelled the refresh (it
\* awaited something that was cancelled).  A TaskGroup ignores a task that ends
\* cancelled; a lone worker is the task of the refresh itself.
OperationRaisesCancelled(w) ==
    /\ pc[w] = "running" /\ TurnFree /\ ~cancelled
    /\ inFlight' = Landed(w)
    /\ pc' = [pc EXCEPT ![w] =
                IF Crew = {w} THEN "interrupted" ELSE "escaped"]
    /\ cancelled' = (Crew = {w})
    /\ UNCHANGED <<planVars, remaining, blocked, ready, unsettled, outcome, item>>

----------------------------------------------------------------------------
WorkerStep(w) ==
    Resume(w) \/ Finish(w) \/ Continue(w) \/ Interrupted(w)

Over == Ended /\ UNCHANGED vars

Next ==
    \/ Over
    \/ Cancel
    \/ \E i \in Items : Settle(i)
    \/ \E w \in Workers : WorkerStep(w) \/ OperationRaisesCancelled(w)

Spec == Init /\ [][Next]_vars

\* The event loop runs every worker that can run, and every operation returns
\* or raises.
Fairness ==
    /\ \A i \in Items : WF_vars(Settle(i))
    /\ \A w \in Workers : WF_vars(WorkerStep(w))

FairSpec == Spec /\ Fairness

----------------------------------------------------------------------------
(* Properties.                                                             *)

Escaped == \E w \in Workers : pc[w] = "escaped"

\* A run that was neither cancelled nor stopped by the failure policy decides
\* every item, whatever the graph, the number of workers and the order in which
\* operations end: nothing is forgotten between the counters, the heap and the
\* workers that leave early.
NothingForgotten ==
    Ended /\ ~cancelled /\ ~Escaped /\ ~ShouldStop => Done = Items

\* No lost wakeup, and no worker that leaves while it could still be of use: as
\* long as an item is ready, every worker runs one or is about to take one.
FullStrength ==
    TurnFree /\ ready # {} /\ ~ShouldStop /\ ~cancelled =>
        \A w \in Crew : pc[w] \in {"top", "running", "escaped"}

\* How far each item is, for a reader who knows of no heap and no counters.
Status ==
    [i \in Items |->
        IF outcome[i] # "planned" THEN outcome[i]
        ELSE IF \E w \in Workers : item[w] = i /\ pc[w] = "running"
             THEN "running"
        ELSE IF \E w \in Workers : item[w] = i
             THEN "interrupted"
        ELSE "planned"]

Ordered == INSTANCE OrderedRun WITH status <- Status

\* The executor implements the abstract run: order, skips and fail-fast stops.
ImplementsOrderedRun == Ordered!Spec

\* The run ends, unless an operation raised CancelledError on its own.
ExecutionEnds == <>(Ended \/ Escaped)

\* concurrency.py: "An exception that escapes a worker cancels the others and is
\* re-raised": a run one of whose workers ended that way comes to an end.
EscapeEndsRun == Escaped ~> Ended
=============================================================================
