# A TLA+ model of refresh-engine

`refresh-engine` keeps derived data (indexes, caches, rendered pages) up to date with a
set of resources. A refresh discovers the resources, finds out which of them
changed since the last time, plans an operation for each, runs the operations in
dependency order with bounded concurrency, and stores what it did. Everything
happens in one asyncio event loop; what makes the engine hard is not parallelism
but what interleaves at each `await`: several callers, a worker task, the task of
the running refresh, its worker tasks, a dispatcher of events, a scheduler, and
cancellation and timeouts that may arrive at any of these points.

This directory holds TLA+ modules translated from the source, TLC configurations
that check them on small instances, and TLAPS proofs of the theorems that matter
most. Source paths below are relative to `src/refresh_engine/`.

Run, in this directory:

    tlc -workers 2 -config coordinator_overlap.cfg MCCoordinator.tla
    tlapm CoordinatorProofs.tla

and so for the other runs (the table below names their configurations) and for
`ExecutionProofs`, `PlanningProofs`, `PipelineProofs`, `ReportProofs`, `EventsProofs`,
`SchedulerProofs` and `StateStoreProofs`.

`PROJECT.json` lists the runs, the source lines behind every definition, the
mutants that show that every property can fail, the hazards the properties are
aimed at, and the theorems.

## The system

| Part | Source | State it keeps | Operations |
|---|---|---|---|
| Engine facade | `engine.py` | the coordinator, the publisher | `refresh`, `submit`, `close`, `async with` |
| Overlap coordinator | `_internal/coordinator.py` | queue of entries (request, waiters), active entry and its task, worker task, closed flag | `submit`, `close`, `_work`, `_absorb`, `_abandon`, `_cancel_all` |
| Reentrancy marks | `_internal/reentrancy.py` | a context variable per task | `bind`, `claim`, `awaited_by` |
| Pipeline | `_internal/pipeline.py`, `_internal/context.py` | the context of one refresh: observations, snapshots, issues, what was refreshed | load, discover, observe, plan, execute, persist, finish |
| Observation | `_internal/observation.py` | none | discovery, cheap match, snapshot and fingerprint, classification |
| Planning | `_internal/planning.py` | the plan: items, their graph, cycles | selection, impact, ordering, cycle search |
| Execution | `_internal/execution.py`, `_internal/concurrency.py` | heap of ready items, counters, one result per item | worker loop, settle, run an item with retries |
| Report | `_internal/context.py`, `models.py` | issues, outcomes and observations of one refresh | `status`, `build_result` |
| Stored state | `contracts.py`, `stores.py`, `examples/sqlite_store.py` | state per resource: fingerprint, dependencies, cheap indicator; staged changes of a transaction | `load_all`, `put`, `delete`, `commit`, `rollback` |
| Events | `events.py` | handlers, queue, dispatcher task | `subscribe`, `unsubscribe`, `publish`, `drain` |
| Scheduler | `scheduling.py` | state (stopped, running, paused, stopping), task, active run | `start`, `pause`, `resume`, `stop` |
| External scheduler adapter | `scheduling.py` | none | `submit_threadsafe`, `run_threadsafe` |
| Observability | `observability.py` | spans and metrics per refresh | handlers of events |
| Fingerprints | `fingerprints.py` | none | canonical encoding of a snapshot, digest |
| Selectors | `selectors.py`, `contracts.py` | none | `matches`, `&`, `\|`, `~` |
| Models, values, errors | `models.py`, `_internal/values.py`, `errors.py` | none | validation of requests and configuration |

How they interact: `submit` hands a request to the coordinator and waits for a
future. The coordinator's worker task pops entries and runs each in a task of its
own, marked by `bind` so that code inside it that would wait for the same engine is
refused. That task runs the pipeline, which calls user code (source, operation,
fingerprint strategy, store), starts worker tasks (marked by `claim`) to observe
and to execute, and commits one transaction at the end. Every part publishes events
to the publisher, which delivers them from a background task. The scheduler calls
the engine like any other caller; threads reach it through the external adapter, which
has the event loop start the call. `close` stops acceptance, cancels or drains the
coordinator, and drains the publisher.

What makes each part correct:

- Coordinator: one refresh at a time; every accepted request is answered; merging
  requests loses no work; a caller never gets the result of a refresh that started
  before its request; cancelling abandons exactly what nobody waits for; closing
  leaves nothing behind; no code waits for itself; one terminal event per refresh.
- Execution: an item runs only after everything it depends on succeeded; a failure
  skips what depends on it and nothing else; no lost wakeup; no item forgotten or
  run twice; fail-fast starts nothing more.
- Planning: exactly the items on cycles are reported; an impacted resource is
  planned; deletions run before what they depend on goes away.
- Pipeline: what is stored as refreshed was refreshed from what was observed; what
  failed is retried; nothing existing is deleted.
- Stored state: a commit applies the last change of each resource, all at once, at most
  once, and tells the truth about it.
- Events: every handler gets every event in order; `drain` returns only when
  everything was delivered, and never waits for itself.
- Report: the counts of a result add up and agree with the metrics; the status means
  what it says, wherever the refresh stopped.
- Scheduler: runs never overlap, a stopped scheduler stays stopped, no slot runs
  twice.
- External adapter: a blocked thread always gets out; a thread that gives up leaves
  nothing behind in the engine.
- Fingerprints: two contents have one fingerprint exactly if they are equal.
- Selectors: a combination selects what its formula says, and a merged request what
  its parts did.

## The modules

| Module | Models | Uses |
|---|---|---|
| `OverlapService` | what the coordinator promises to its callers (abstract) | |
| `Coordinator` | overlap coordinator, reentrancy marks, caller cancellation, `close`, implementing it | `OverlapService` |
| `CoordinatorProofs` | theorems about it | `Coordinator` |
| `DependencyGraph` | operators on dependency graphs: ancestors, items on cycles | |
| `OrderedRun` | what executing a plan promises (abstract) | `DependencyGraph` |
| `Execution` | the executor and its workers, implementing `OrderedRun` | `DependencyGraph`, `OrderedRun` |
| `ExecutionProofs` | theorems about it | `Execution` |
| `Ordering` | topological counting, components, cycle search of the planner | `DependencyGraph` |
| `PlanningProofs` | theorems about it and `Selection` | `Ordering`, `Selection` |
| `Pipeline` | refreshes, one after the other, over a changing source and the store | `DependencyGraph` |
| `PipelineProofs` | theorems about it | `Pipeline` |
| `Report` | one refresh: issues, retries, status, counts, metrics | |
| `ReportProofs` | theorems about it | `Report` |
| `TransactionalStore` | what a state store promises (abstract) | |
| `StateStore` | transactions of the two stores, implementing it | `TransactionalStore` |
| `StateStoreProofs` | theorems about it | `StateStore` |
| `Events` | publisher, dispatcher, handlers, `drain` | |
| `EventsProofs` | theorems about it | `Events` |
| `Adapter` | calls from other threads, `close` of the engine | |
| `Scheduler` | `AsyncScheduler` and its callback | |
| `SchedulerProofs` | theorems about it | `Scheduler` |
| `Selection` | selectors, their combination, requests and their merging | |
| `Fingerprints` | canonical encoding of values, fingerprint strategies | |
| `MCCoordinator`, `MCExecution`, `MCPipeline`, `MCScheduler` | small instances for TLC | the module of that name |
| `MCEvents` | a small instance of the publisher, beside it one of the adapter | `Events`, `Adapter` |
| `MCAlgorithms` | small instances of the parts that need no other | `Ordering`, `Selection`, `Fingerprints`, `StateStore`, `Report` |

One step of a model is what the event loop runs between two suspensions. Code that
contains no `await` cannot be interleaved, so a whole call of `submit` up to its
`await`, with everything it calls, is one action.

### Coordinator, OverlapService

An entry of the queue is named by the call that created it, so `Calls` are both the
calls of `submit` and the entries and refreshes they lead to. `pending` is the deque
of entries, `waiters` and `request` are the fields of an entry, `active` the entry
that runs, `worker` the last worker task created and `workers` what each one is
doing, `task` the task of a refresh, `cancel` and `reason` the cancellation that was
requested, `future` the future of a caller, `terminal` the number of terminal events
published for an entry. A task that asyncio ends as cancelled although it returned its
result, since its own code closed the engine with `cancel=True` and no `await` followed,
is `closedItself`; every other is announced once (`AnsweredOnce`).

| Action | Code |
|---|---|
| `Submit` | `submit` up to `await waiter`: closed, reentrant, skip, cancel previous, absorb or append, start a worker |
| `CancelCaller`, `CallerStep` | the caller is cancelled; it resumes with its answer, or runs `_abandon` |
| `WorkerStep` | `_work`: from the start or from the end of a refresh to the next wait |
| `RefreshStarts`, `RefreshEnds`, `RefreshAbsorbsCancel` | the task of a refresh, as the coordinator sees it |
| `Close`, `CloseReturns`, `RefreshClosesAndReturns` | `close`, from outside and from inside a refresh |

The refresh itself is external here: it starts, may submit and close through the same
engine, may swallow a cancellation, and ends.

`OverlapService` has no tasks, no cancellation and no marks: batches of calls wait in
line, one refresh runs at a time, for the batch that was first, and how it ended is the
answer to that batch. A batch is an entry, the line is `pending`, and `Doing`, `Answer`
and `Ended` say what a caller and the service see of a call, its future and the active
task; `ImplementsService` is its specification under this mapping. What the worker task,
a cancellation or a swallowed one do in between are stutters. `JoinBatch` takes a call
into a batch only while the batch waits, so a refresh that answers a call began after the
call was made.

### Execution, OrderedRun, Ordering

`before` is the graph of the plan. `Execution` has the heap (`ready`), the counters
(`remaining`, `inFlight`), the recorded `outcome` of each item, the `wakeup` event
and one program counter per worker (`top`, `waiting`, `running`, …). A worker's step
runs from one `await` to the next, with `settle` and its cascade of skipped items in
the same step. `OrderedRun` knows none of this: it has the status of each item and
says when an item may begin, end or be skipped. `ImplementsOrderedRun` is its
specification under the mapping `Status`. `OrderedRun` and `Execution` start with any
graph, cyclic ones included: `Ordering` shows that the planner isolates exactly the
items on cycles.

`Ordering` is the code of `_order`, `_strongly_connected` and `_cycle`, one round of a
loop per step, compared with definitions by reachability. `Process` and `CountEnds` are
the topological count; `Root`, `Child`, `Retreat` and `ComponentsEnd` the iterative form
of Tarjan's algorithm, with its numbering, low links, stack and path; `Search` and
`Trace` the breadth-first search of `_cycle` and its walk back along the parents. The
item whose cycle is searched is any item on one, since the code searches for each.

### Pipeline

Content is a version number, and an edit makes a version that was never used. The
source is `present`, `body`, `deps`; what the operations have built is `built` and `used`
(the version and dependencies an operation was given last); `store` is the stored
state. The context of the current refresh is `discovered`, `pending`, `obs`, `before`
(the plan), `deleted`, `done`, `failures`, `broken`. Edits happen between any two steps.

| Action | Code |
|---|---|
| `Begin`, `BeginPartially`, `BeginFails` | `load_all` and discovery, complete, cut short, or failed |
| `Observe`, `ObserveFails` | cheap match, or snapshot and fingerprint, of one resource |
| `Plan` | deletions and `build_plan`: selection, impact, predecessors, cycles |
| `Refresh`, `RefreshUnread`, `RefreshFails` | an item, on the snapshot that was kept or on a new one |
| `Delete`, `DeleteFails` | a deletion |
| `StagesEnd`, `Timeout` | the end of the stages, the overall timeout in any of them |
| `NothingToPersist`, `Commit`, `CommitFails` | `_persist`; a failed commit may have been applied |
| `Abandon` | cancellation, and equally the loss of the process, at any `await` |
| `Write`, `Link`, `Remove` | the world: content, dependencies, existence |

Discovery names the dependencies of the resources in `Told`, snapshots those of all. A
resource that its reliable indicator matches is not read (`Cheaply`): it keeps its stored
fingerprint, and its stored dependencies unless discovery names others. So a change of
dependencies alone that only the snapshot would name goes unseen until the indicator moves
or a FULL or TARGETED refresh reads the resource, as `docs/guides/dependencies.md` says
(lines 19-20). `Veiled` is that a resource is so at the moment, and the exception in the
properties that speak of what a refresh knows: such a change is missing in the store after
SUCCESS, and a FULL refresh that sees it and fails leaves nothing by which the next
INCREMENTAL one would.

`owed`, `unmarked`, `lapsed`, `behind` and `excused` are history. `owed` is what any
refresh planned and did not do since, however it ended: failed, skipped, stopped,
timed out, cancelled, or with a commit that failed. `unmarked` is the part of it that had
not changed itself and for which no retry marker could be stored, because nothing was;
`lapsed` the plan of the last refresh, if it stored nothing. `behind` is what was built from
an output that has changed since, and `excused` the reason for which a refresh was entitled
to leave it so (not listed, not read, not asked for by the mode, late dependency).

### Events

`queue`, `dispatcher` and `subscribed` are the fields of the publisher; `task` and
`delivery` are the dispatcher tasks, `caller` those who wait in `drain`. Handlers may
suspend, so anything can happen between two calls of handlers, and they may publish,
subscribe (as anybody may, at any time) and drain. `promised` records who was
subscribed ever since an event was published.

### Scheduler

`loop`, `origin`, `due` and `run` are indexed by the call of `start` that created the
task, so that two scheduler tasks could be alive at once if the code allowed it.
`Proceed` is the loop of `_run` from its top to its next suspension; the actions before
it are the ways the task comes back to the top. Time is an integer that may advance at
any moment, also between two steps that are due: the event loop may be late. Cancelling
a run matters only before its first step: afterwards it may end at any time anyway.


### Adapter

`thread` is what a thread that called the adapter is doing, `future` its concurrent
future, `call` the task on the event loop that awaits `engine.submit()`. A thread and the
loop interleave at every step: a timeout may expire, or a future be cancelled, while the
task is not yet started, while its request is queued or running, and while its answer is
on the way. Threads may be the loop's own (refused by `run_threadsafe`), or be threads for
which the operation of the running refresh waits (`workFor`). Coordinator and publisher
are reduced to a queue and to a number of undelivered events. A task that is cancelled takes
its request out of the queue, or has the coordinator cancel the refresh that serves it
(`TaskCancelled`, `Withdrawn`).

### StateStore, TransactionalStore

`puts`, `deletes` and `closed` are the fields of a transaction, `call` is how its
`commit()` stands, `worker` its call of `apply_changes`. In the store in memory that is
the same step; in the durable one it is a thread that takes the write lock, deletes,
puts and commits, and goes on when the task that awaits it is cancelled (`draft` and
`writer` are the database transaction under way). `TransactionalStore` knows the
committed states, the last change asked of each transaction and what became of it;
`KeepsPromise` is its next-state relation under a mapping of the two.

### Report

`step` is where the pipeline is, `change`, `snapshots`, `unread`, `outcome`, `failures`
are what the context collects, `doing` and `attempts` are the read or the operation of
each resource: an operation is retried if it may be, after a delay, up to the limit of
attempts. `metrics` counts the events of the refresh. The plan is any that the mode
allows. User code may raise `CancelledError` of its own accord: if several workers run, the
one that called it ends without a trace (`Vanishes`), what it worked on is `"vanished"` to
the end, and the rest goes on with the workers that are left; if none is left, or if items
wait for the one that is lost, the stage ends with work undone (`PlanOrAbort`,
`ExecutionEnds`; that they may hang instead is in `Execution`). The refresh may be stopped in any step: by failed loading, discovery or planning,
by FAIL_FAST, the overall timeout, cancellation, or an exception.

### Selection

A selector is a tree. `And`, `Or` and `Invert` are the operators of
`ResourceSelectorABC`, which flatten their operands and wrap foreign ones; `meant` keeps
what the formula says. Selectors are frozen, so a combination carries what its `matches()`
makes of its operands (`matched`); what a foreign selector and a predicate accept depends on
the resource alone. `Coalesce` is `coalesce` of the coordinator, with the selectors
that `Coordinator` leaves out.

### Fingerprints

A value is a record of its type and contents; `Encode` translates the encoders of
`canonical_digest` type by type, with tags, lengths and sorting, into sequences of bytes.
Values nest step by step. `Canonical` says, without bytes, when two values are the same.

## The runs

Every property of a passing run has a mutant in `PROJECT.json`: a plausible bug in one
mapped definition under which TLC finds the property violated with the same bounds.
That is the evidence that the bounds are large enough for the property to be able to
fail.

| Run | Bounds | What it asks |
|---|---|---|
| `coordinator_overlap` | 3 calls, 1 closer, QUEUE, SKIP_IF_RUNNING, CANCEL_PREVIOUS | one refresh at a time, nobody stranded, the newest wins, one announcement before any answer, close drains, no overtaking |
| `coordinator_coalesce` | 3 calls, 2 resources, COALESCE, requests of three modes | merging loses no work, cancelled exactly when abandoned |
| `coordinator_liveness` | 2 calls, 1 closer, all policies | every call and every close ends; the coordinator implements `OverlapService` |
| `coordinator_terminal_event` | violated | see finding 1 |
| `execution` | 3 items, all 512 graphs, 3 workers, both policies | the executor implements `OrderedRun` (so nothing runs early or twice); nothing is forgotten; no worker sleeps or leaves while there is work for it; the run ends |
| `execution_escape` | violated | see finding 2 |
| `pipeline` | 3 resources in a chain, 2 with a cheap indicator, dependencies of one named by discovery, 3 refreshes, 2 edits, 1 fault, all modes and both policies | what the store claims was earned; SUCCESS is current; what was planned and not done comes back; inputs are current; nothing existing is deleted |
| `pipeline_unread` | violated | see finding 3 |
| `pipeline_late` | violated | see finding 4 |
| `events` | 2 handlers, 3 events, 4 changes of subscription, 1 caller of `drain`; beside it 3 calls from threads, one from the loop's own, one that an operation waits for | order, completeness and end of `drain`; a blocked thread gets out, who gives up leaves nothing behind, `close` finishes |
| `scheduler` | 2 starts, 2 pauses, 8 ticks, interval 2, first run at once | no overlap, no lost wakeup, one run per slot, `stop` ends |
| `algorithms` | 4 items, 8192 graphs; 3 resources, 4 selectors, 2 operators; 13 values, 2 nestings; 2 resource IDs, 2 states, 2 transactions; 2 resources, 2 attempts, concurrency 2, vanishing workers | exactly the cycles are found, and a shortest one reported; selectors and merged requests select what they say; fingerprints tell values apart; both stores keep their promise; results add up, statuses mean what they say, metrics agree |

Why these bounds. *Coordinator*: the hard cases need a refresh that runs, one that is
queued and one that arrives; a fourth call repeats the role of the third. COALESCE
needs two resources to tell two TARGETED requests apart, and a mode that subsumes and
one that does not. Symmetry (calls; resources where no definition names one) is used
for safety only. Closers are not in the symmetric set. *Execution*: with three items
there are chains, forks, joins, self-loops, cycles of two and three, and an item behind
a cycle; three workers can be one running, one waiting, one leaving. *Ordering*: four
items are the fewest with two components of more than one item, or one behind another.
*Pipeline*: of the two resources with an indicator, one has dependencies that
only its snapshot names, so a change of them is veiled. A chain of three has a transitive impact through a resource that did not
change; three refreshes are one that stores, one that fails and one that repairs; two
edits change a resource and its dependency, or the same one twice. FAIL_FAST is run
with DEPENDENCY_AWARE requests only, to keep the run within minutes. Other bounds of
`Pipeline` that pass but are not kept as runs: one edit and two faults with all
requests; with DEPENDENCY_AWARE requests, two edits, two refreshes and two faults, two
edits, three refreshes and one fault, three edits, two refreshes and one fault.
*Events*: three events let one be delivered, one be queued and one be published as the
dispatcher ends. *Adapter*: one call holds the loop, one blocks the refresh, one is like any
other. *Scheduler*: eight ticks are four slots, enough for a run to overrun
two of them and for the one after it to be late; two starts let a stopped scheduler be
started again while somebody still waits in `stop`. *StateStore*: two transactions are one
that writes and one that commits, or whose thread outlived its task; two states let a
later put differ from an earlier one. *Report*: two resources can fail differently, and
one of them be skipped because of the other; and with two
workers one of the two can vanish with its worker while the other goes on, or both. That a
vanished worker leaves more than it had taken, since others wait for it, needs three
resources: the proof covers it, the run does not (three resources, one attempt, all modes and
both policies pass too, in 3.9 million states). *Fingerprints*: the atoms are those whose
texts look like tags and lengths of others, subclasses of the built-in types, and
numbers at the borders of a byte; two nestings put a container into a container.
*Selection*: two operators are the fewest for which flattening can go wrong.

The parts of `algorithms`, and the two of `events`, share a run without sharing a
behaviour: each behaviour is one of one part while the others rest (`MCSpec`), so that
the run is the union of the parts' state graphs, not their product.

Deadlock is checked in every run but `algorithms`, whose parts end when the algorithm, the
refresh or the nesting is over; a step that changes nothing (`AtRest`, `Done`, `Rest`) is
enabled elsewhere in the states in which the system is at rest.

### Fairness

Liveness is checked with weak fairness of the tasks' own steps: asyncio runs every task
that can run, and each such step stays enabled until it is taken. In `coordinator_liveness`
that includes the end of a refresh, in `execution` the end of an item, in `events` the
return of a handler and in `scheduler` the end of the callback: user code is assumed to
return. `AdapterFairness` adds threads that run, timeouts that expire, and that a refresh
ends which was cancelled because its request was withdrawn. It does not say that
operations end: `NothingLeftBehind` holds though the refresh under way, its own or the one
before it, may never end, so that only the withdrawal of a request can get rid of it.
`ThreadReturns` and `CloseFinishes` wait for operations, and state it as a premise
(`OperationsEnd`: they end, unless they wait for a thread). Nothing else is assumed: not that a caller arrives, cancels or closes, not, in the
other modules, that a cancelled refresh obeys, and not that time passes.

## The proofs

Each theorem holds for every value of the constants that satisfies the named `ASSUME`s of
the module, so for any number of calls, items, resources, events and steps; the bounds of
the models are constants too. No invariant but the type invariants is inductive alone. Each
module of proofs defines `IInv`, proves that the initial states satisfy it and that each
action keeps it, one lemma per action or group of actions, and derives the rest from
`InductiveInvariant`. The invariants were checked by TLC as well, on the bounds of the
runs (those of `Ordering` on all graphs of three items); all but `SelectionInv`, which
speaks of any set.

**Coordinator** (`CoordinatorProofs`). All its safety properties are proved.

- `IInv` is what the queue, the worker, the tasks, the waiters and the
  closers guarantee each other. That a second refresh is never started depends on a worker
  being replaced only when it has ended, and on its leaving the loop only with an empty
  queue; that nobody is stranded depends on an entry being queued once and on its waiters
  being waiters of no other. `OneRefresh`, `NoStrandedCaller` and `CloseLeavesNothing`
  follow from it; `Freshness` (`NoLateJoin`: nobody joins an entry that has left the
  queue, and its request is fixed) from it in the state before a step;
  `CoalescingSound` by induction over steps: what a merged request promises includes
  what each of the two did.
- What the policies promise. `QueueIsBounded`: one entry waits at most under
  SKIP_IF_RUNNING and CANCEL_PREVIOUS, two under COALESCE, since two entries that do not
  merge leave no third request that merges with neither (`LengthInv`). `NewestWinsHolds`,
  from the same lemmas on how a step changes the queue. `AbandonedIsCancelled`
  (`AbandonedInv`). `AnnouncedOnce`: how often the end of an entry was announced is known
  from where its task is (`CountInv`), at most once unless it is `closedItself`, and nobody
  has an answer before (`AnswerInv`).
  `ServedInOrderHolds`: a step adds to the end of the queue or takes away.
- `ServiceIsImplemented`, the refinement of `OverlapService`: each step is one of the
  service or changes nothing that a caller sees. It needs, beside `IInv`, what a call and
  its future have in common (`CallerInv`: who has returned had an answer, who was
  cancelled has none). `WorkerInv` gives that the worker which resumes answers the entry
  that is active, `TaskInv` that the refresh which ends is that entry's.

**Execution** (`ExecutionProofs`). The invariant says that a counter holds the number of
predecessors not yet settled and that the heap holds exactly the items whose counter is
zero (`PlanInv`), that each item is with one worker at most and `in_flight` is exact
(`RunInv`), what is between two settlements (`TurnInv`), and for what reasons a worker
may sleep or leave (`LeaveInv`). `RunIsOrdered` is the refinement of `OrderedRun`;
`FullStrengthHolds` and `NothingIsForgotten` follow. The last needs that a set of items
each of which waits for another has a cycle: of their sets of ancestors a smallest one is
taken, which a finite set has.

**Ordering** (`PlanningProofs`). The three algorithms of the planner are proved correct
for every finite graph.

- The count. `CountInv`: a counter holds the number of predecessors not processed, and the
  queue is what has none; so what is processed is closed under predecessors and on no
  cycle, and what is left (`BlockedInv`) requires something that is left.
  `BlockedByCyclesHolds` adds that a finite set of items each of which requires another of
  the set has one on a cycle.
- The components. `OrderInv`: stack and path are in the order of the numbering, and a node
  seen is on the stack or in a component. `EdgeInv`: what a node met was seen, and what a
  component requires is in components. `ReachInv`: the path reaches what is on the stack
  above it, and what is on the stack gets back to the path. `LowInv`: a low link is the
  index of a node that can be reached, and no node under it on the stack has met a lower
  one. The last is what makes a node with `low = index_of` the root of a whole component:
  nothing above it on the stack leads below it. `FoundInv`, that components are
  the classes of items that require each other, and `CyclesExactHolds` follow.
- The cycle. `_cycle` keeps no distances; `CycleInv` says that there are some (`Levels`)
  such that the queue is ordered by them and never spans more than two (`LevelInv`), and
  that a node already expanded has all its neighbours one level further at most. So no
  closed walk is shorter than the level at which the item is found (`NoneUpTo`), and the
  walk back (`PathInv`) has just as many nodes. This gives `ShortestCycleHolds`.
  `AlwaysFindsCycle`: visited nodes whose neighbours are all visited would be closed and
  without the item, which is on a cycle; so the assertion at the end of `_cycle` cannot be
  reached.

**Selection** (`PlanningProofs`). What a tree matches would be proved by induction over the
tree. `SelectionInv` does without: there is a set of selectors, the ones under construction
among them, each of which is a leaf, or has its operands in the set and matches what they
make of it (`Grounded`). Flattening and the removal of a double negation take operands out
of the set, and what an operator makes joins it. `SelectsAsWrittenHolds` and
`MergeDoesBothHolds` follow; the latter from the modes that cover one another, and from a
merged selector matching what either does.

**Pipeline** (`PipelineProofs`). `PastInv`: what is stored or observed of a resource is
what it was once, an observation is not older than the stored state, and an indicator
never newer than the content. `ChangeInv`: a change that was classified, and what is
owed and has or needs no marker, cannot be taken for unchanged before it is stored. `EarnedInv`: what is done is what
was observed. `GoneInv`: what a complete discovery did not list is absent, or has changed
since. `QuietInv`, `PlannedInv`: while nothing changes, observations are current (but for the
dependencies of what is `Veiled`) and nothing is lost between discovery, plan and commit. From
them `StateEarned`, `NoFalseDeletionHolds` and `SuccessCurrent`. `PlannedRetried` needs two
more about a refresh that stores nothing: `NowInv`, that it observes what the next one would,
and `LapseInv`, that the next dependency-aware one would therefore plan what it planned. `InputsAreCurrent` is about
paths in a graph that changes, which `BehindInv` says without paths: in a set of resources
whose stored state is as they are (so that none of them is veiled) and that were built from
nothing outside the set (`Settled`), none is behind its inputs. `DoneInv` (what was refreshed used nothing whose turn is still to come) and
`ReachInv` (what a DEPENDENCY_AWARE plan leaves out is in a set that depends on nothing in
the plan) keep it through a refresh and its commit.

**Report** (`ReportProofs`). `StepInv` and `DoingInv` say which stage has left what, and
that work goes on only in its stage and only on what has no outcome; `CountInv`, that each
failure, outcome and issue was counted once, and `ResultInv` that the result counts the
context as the refresh left it. What a stage leaves undone it leaves only with a vanished
worker of its own; these are told apart by the plan, since what vanished while it was read
is in no plan (`OnlyVanished`). From them `ResultAddsHolds`. `StatusMeansHolds`: a refresh
ends in one of three ways (`Endings`), and only one that reached the end of `persist`
without an issue of its own can be a success or partial. `MetricsAgreeHolds` is
`CountInv` and `ResultInv` at the end.

**Events** (`EventsProofs`). `QueueInv`: the queue is the last events in order and one
dispatcher at most is alive, one if anything is queued. `ReceivedInv` and `PromiseInv`:
nobody was called with an event later than those to come, and an event is queued, being
delivered or received by everyone it was promised to. From them `ReceivedInOrder` and
`DrainWaitsForAll`.

**StateStore** (`StateStoreProofs`). `StagedInv`: what is staged, in the transaction or in
the arguments of its thread, is the last change asked for; `LockInv`: the thread that
holds the lock has in its draft what is stored with its changes so far.
`KeepsPromiseHolds` is the step of the refinement to `TransactionalStore`.

**Scheduler** (`SchedulerProofs`). `RunsNeverOverlap`: a run is alive only while its
scheduler task waits for it. `NoLostWakeup`: the one scheduler task goes to sleep for the
state it has just read, and every method that changes the state sets the event.
`OneRunPerSlotHolds`: a scheduler task that has run something sleeps until a time that is
its origin plus a multiple of the interval and later than the last run (`SlotInv`), so that
rounding down to slots tells the two runs apart; the exception is a run that `resume`
brings about at the very time of the last one.

Only model-checked: liveness, and everything that involves ENABLED, which the prover does
not handle, so all of `Adapter`, whose properties are temporal; and `Fingerprints`
(`FingerprintsTell`), whose values are nested and whose operators on them are `RECURSIVE`,
which the SMT backend of the prover does not handle.

## Findings

Where the code and what is said of it disagree. The first four are runs that TLC finds
violated.

1. `coordinator_terminal_event`. "Every refresh ends with exactly one of the four terminal
   events": the worker publishes a second one when code inside a refresh closes the engine
   with `cancel=True` after the pipeline published its own.
2. `execution_escape`. "An exception that escapes a worker cancels the others": an
   operation that raises `CancelledError` on its own ends its worker quietly, and
   workers that wait for the wakeup wait for ever. If none has to wait, the refresh goes on
   without the item, which has neither outcome nor error; so does one whose snapshot raises it
   (`run_bounded`), without the resource. Such a refresh may report SUCCESS, against
   `RefreshStatus.SUCCESS`, "every in-scope resource was observed and every planned operation
   succeeded" (`models.py:134`); all there is to see is the warning that an operation was not
   started "because the failure policy is fail_fast" (`execution.py:91`), whatever the policy.
   `Report` has these endings, and its properties say what then is left out and why.
3. `pipeline_unread`. "Every failed resource is retried": a dependent that cannot be read in
   the refresh that handles its dependency drops out of the plan, and when it can be read
   again nothing tells that it is behind.
4. `pipeline_late`. Operations run "never before the operations of the resources they
   depend on have finished": the plan orders by the dependencies of the observation; a
   snapshot taken again just before the operation may name others.

Seen while modelling, without a run of their own:

5. A handler that raises `CancelledError` ends the dispatcher (`events.py`, `_dispatch`
   catches `Exception`): the rest of the queue waits for the next `publish`, and `drain`
   returns at once. `HandlerKills` is in the model and `DrainDelivers` excludes it.
6. Docs disagree on FAIL_FAST: `dependencies.md` says skipped dependents are retried in any
   mode, `state-stores.md` that FAIL_FAST stores nothing, in which case an INCREMENTAL
   refresh does not retry them.
7. A reliable cheap indicator that returns to an earlier value hides a change (the code
   trusts the source); versions never return in the model.
8. Dependencies that discovery names and that differ from those of the snapshot make a resource
   change class again and again. (Where discovery names none, they may differ from the stored
   ones unseen: `Veiled`, as documented.)
9. A commit that goes on in a durable store after its caller was cancelled may be applied
   after the next refresh has loaded the state. `CommitFails` covers a commit that was
   applied without an answer, but at once.
10. `_next_slot` divides floats: on a boundary the quotient may fall just below the slot,
    so that a run that takes no measurable time, as with a coarse clock, is repeated in
    the same slot. The model's time is an integer.
11. `pause` and `resume` called in one go while the scheduler task is late for a slot leave
    the slot due: the run starts at once and not "at the next interval boundary".
12. "In every mode except `TARGETED`, `discovered_count` equals the sum of the four change
    counts plus the number of resources whose snapshot or fingerprint failed"
    (`RefreshResult`): not when the refresh stopped before it had read everything; it then
    reports what it had. `ResultAdds` asks for the sum once there is a plan.
13. "Nothing is committed for a cancelled refresh" (`docs/guides/scheduling.md`): the thread
    of the durable store goes on when the task that awaits it is cancelled, and commits.
    `StateStore` has the step; `TransactionalStore` allows it, since `contracts.py` promises
    atomicity only.
14. An operation that waits for a thread blocked in `run_threadsafe` without a timeout waits
    for a refresh that is queued behind its own. The documentation speaks of `refresh` and
    `submit` "awaited directly"; the thread is not seen. In `Adapter` the thread is one of
    `WorkThreads`.
15. Deletions of resources whose stored dependencies form a cycle are skipped, in every
    refresh: nothing breaks the cycle (`planning.py`, `_predecessors`).
16. "An unchanged resource whose planned refresh did not complete [...] is stored with a retry
    marker" (`docs/guides/failure-handling.md:108`): not when the commit failed or the refresh was
    cancelled, since then nothing is stored (`pipeline.py:382-394`). A change that was planned
    is detected again. What was planned only because it depends on one has no marker: a
    DEPENDENCY_AWARE refresh gets to it again over that change, an INCREMENTAL one does not, and
    if it refreshes what changed, nothing tells of the dependent any more. `PlannedIsRetried`
    excepts it (`unmarked`) and asks that the next DEPENDENCY_AWARE refresh plan it again
    (`lapsed`). The same holds of FAIL_FAST (6).
17. The first operation of a resource succeeds, its state is not stored (FAIL_FAST, failed
    commit, cancellation), and the resource disappears: no deletion is ever planned for it.

## Not modelled

- Examples, benchmarks and documentation, but for `examples/sqlite_store.py`, the durable
  store of `StateStore`; `scripts/` (checks of the documentation).
- Argument checks: most of `models.py`, `_internal/values.py` and of the constructors in
  `engine.py`; the protocols and abstract classes of `contracts.py` that only declare.
- Observability other than the metrics: spans, log records, redaction.
- Wording, event contents, times and durations, snapshot metadata and versions in
  `Pipeline`, floats (the scheduler's time is an integer), `async with` of the engine.
- A cheap indicator or a content that returns to an earlier value (versions never return),
  and dependencies that discovery and snapshot both name, and differently (findings 7 and 8).
- In `Pipeline`, user code that raises `CancelledError` of its own accord (finding 2): what is
  lost with a worker is in `Execution` and `Report`, not its consequences for later refreshes.
- FAIL_FAST with modes other than DEPENDENCY_AWARE (finding 6).

## What could come next

`Pipeline` with `Execution` as its executor instead of one item at a time.
