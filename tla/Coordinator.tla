---------------------------- MODULE Coordinator ----------------------------
(***************************************************************************)
(* The overlap coordinator of the refresh engine                           *)
(* (src/refresh_engine/_internal/coordinator.py): at most one refresh runs *)
(* at a time, a policy decides what a request does while another refresh   *)
(* runs or is queued, and closing the engine drains or cancels what was    *)
(* accepted.                                                               *)
(*                                                                         *)
(* Everything runs in one asyncio event loop, so the code between two      *)
(* awaits is one atomic step here.  What interleaves is the steps of:      *)
(*   - the callers of submit() (tasks that wait for a future),             *)
(*   - the coordinator's worker task (_work),                              *)
(*   - the task of the refresh itself (_execute, and the pipeline in it),  *)
(*   - the callers of close(), from outside or from inside a refresh.      *)
(*                                                                         *)
(* An entry of the queue, its ticket, the task that runs it, and the       *)
(* worker task that a request starts are all named by the submit() call    *)
(* that created them.                                                      *)
(***************************************************************************)
EXTENDS Naturals, FiniteSets, Sequences

CONSTANTS
    Calls,      \* calls of submit(), each made at most once
    Closers,    \* calls of close(), each made at most once
    Policies,   \* the overlap policies the engine may be configured with
    Ids,        \* resource IDs a request may target
    Requests,   \* the requests callers make under each policy
    NoCall      \* None: no entry, no worker

----------------------------------------------------------------------------
(* Requests, and merging them.                                             *)

Modes == {"FULL", "DEPENDENCY_AWARE", "INCREMENTAL", "TARGETED"}

\* A selector stands for the set of IDs it matches.  Only a TARGETED request
\* names resources.
Request ==
    [mode : Modes \ {"TARGETED"}, ids : {{}}]
        \cup [mode : {"TARGETED"}, ids : SUBSET Ids]

COVERS ==
    [m \in Modes |->
        CASE m = "FULL" -> Modes
          [] m = "DEPENDENCY_AWARE" -> {"DEPENDENCY_AWARE", "INCREMENTAL"}
          [] m = "INCREMENTAL" -> {"INCREMENTAL"}
          [] m = "TARGETED" -> {"TARGETED"}]

Compatible(first, second) ==
    \/ second.mode \in COVERS[first.mode]
    \/ first.mode \in COVERS[second.mode]

\* coalesce(first, second) of two compatible requests.
MergedIntoFirst(first, second) ==                   \* mutant
    [mode |-> first.mode, ids |-> first.ids \cup second.ids]
Merged(first, second) ==
    LET mode == IF second.mode \in COVERS[first.mode]
                THEN first.mode ELSE second.mode
    IN  [mode |-> mode,
         ids  |-> IF mode = "TARGETED" THEN first.ids \cup second.ids ELSE {}]

----------------------------------------------------------------------------
Overlap == {"COALESCE", "QUEUE", "SKIP_IF_RUNNING", "CANCEL_PREVIOUS"}

Statuses == {"idle", "waiting", "refused", "skipped",
             "returned", "raised", "cancelled"}
Futures == {"none", "pending", "dropped", "result", "CANCELLED", "error"}
\* A task that asyncio ends as cancelled is "closedItself" when it returned its
\* result, with the cancel() of its own code still undelivered.
Tasks == {"none", "created", "running", "returned", "cancelled",
          "closedItself", "failed"}
Reasons == {"SUPERSEDED", "SHUTDOWN", "ABANDONED"}

\* The tasks code may run in: one of the application, the task of the refresh,
\* a worker task the refresh started, or a task that code inside the refresh
\* (or the event dispatcher) started and the refresh does not wait for.
Kinds == {"outside", "refresh", "worker", "spawned"}

ASSUME PoliciesAssumption == Policies \subseteq Overlap
ASSUME RequestsAssumption == Requests \in [Policies -> SUBSET Request]
ASSUME NoCallAssumption == NoCall \notin Calls

VARIABLES
    policy,     \* _policy
    closed,     \* _closed
    pending,    \* _pending: the queued entries
    active,     \* _active, and _active_task with it
    worker,     \* _worker
    request,    \* entry -> ticket.request
    waiters,    \* entry -> _Entry.waiters
    reason,     \* entry -> _Entry.cancel_reason
    task,       \* entry -> state of the task that runs it
    cancel,     \* entry -> "no", "asked" or "absorbed": task.cancel() calls
    reported,   \* entry -> ticket.cancelled_result is set
    terminal,   \* ticket -> number of terminal events published
    workers,    \* worker task -> "none", "ready", "serving" or "ended"
    serving,    \* worker task -> the local `entry` of its loop
    call,       \* call -> what submit() is doing or how it ended
    future,     \* call -> state of its waiter future
    inside,     \* calls the running refresh waits for: its own code made them
    wanted,     \* call -> the request it passed
    closer      \* close() call -> what it is doing or how it ended

entryVars == <<request, waiters, reason>>
taskVars == <<task, cancel, reported>>
workerVars == <<worker, workers, serving>>
callVars == <<call, future, inside, wanted>>
vars == <<policy, closed, pending, active, terminal, entryVars, taskVars,
          workerVars, callVars, closer>>

TypeOK ==
    /\ policy \in Policies
    /\ closed \in BOOLEAN
    /\ pending \in Seq(Calls)
    /\ active \in Calls \cup {NoCall}
    /\ worker \in Calls \cup {NoCall}
    /\ request \in [Calls -> Request]
    /\ waiters \in [Calls -> SUBSET Calls]
    /\ reason \in [Calls -> Reasons]
    /\ task \in [Calls -> Tasks]
    /\ cancel \in [Calls -> {"no", "asked", "absorbed"}]
    /\ reported \in [Calls -> BOOLEAN]
    /\ terminal \in [Calls -> Nat]
    /\ workers \in [Calls -> {"none", "ready", "serving", "ended"}]
    /\ serving \in [Calls -> Calls \cup {NoCall}]
    /\ call \in [Calls -> Statuses]
    /\ future \in [Calls -> Futures]
    /\ inside \subseteq Calls \cup Closers
    /\ wanted \in [Calls -> Request]
    /\ closer \in [Closers -> {"idle", "waiting", "drained", "left"}]

AnyRequest == [mode |-> "INCREMENTAL", ids |-> {}]

Init ==
    /\ policy \in Policies
    /\ closed = FALSE
    /\ pending = <<>>
    /\ active = NoCall
    /\ worker = NoCall
    /\ request = [c \in Calls |-> AnyRequest]
    /\ waiters = [c \in Calls |-> {}]
    /\ reason = [c \in Calls |-> "SUPERSEDED"]
    /\ task = [c \in Calls |-> "none"]
    /\ cancel = [c \in Calls |-> "no"]
    /\ reported = [c \in Calls |-> FALSE]
    /\ terminal = [c \in Calls |-> 0]
    /\ workers = [c \in Calls |-> "none"]
    /\ serving = [c \in Calls |-> NoCall]
    /\ call = [c \in Calls |-> "idle"]
    /\ future = [c \in Calls |-> "none"]
    /\ inside = {}
    /\ wanted = [c \in Calls |-> AnyRequest]
    /\ closer = [k \in Closers |-> "idle"]

----------------------------------------------------------------------------
(* Helpers: the private methods that several operations share.             *)

Live == {"created", "running"}                    \* not task.done()
AsCancelled == {"cancelled", "closedItself"}      \* task.cancelled()
Done == {"returned", "failed"} \cup AsCancelled   \* task.done()

Busy == active # NoCall \/ pending # <<>>

Members(q) == {q[i] : i \in 1..Len(q)}
Queued == Members(pending)

NeedsWorkerWhenIdle == active = NoCall              \* mutant
NeedsWorker == worker = NoCall \/ workers[worker] = "ended"

\* What the context variable of reentrancy.py says of code running in a task:
\* bind() marks the task of the refresh, claim() a worker task, and a task
\* started by user code carries the mark of the task that started it.
MarkedTaskUnbound(kind) ==                          \* mutant
    IF kind = "worker" THEN "worker" ELSE "none"
MarkedTask(kind) ==
    CASE kind = "outside" -> "none"
      [] kind = "refresh" -> "refresh"
      [] kind = "worker"  -> "worker"
      [] kind = "spawned" -> "refresh"

AwaitedBy(kind) == MarkedTask(kind) = kind

\* Code of that kind can run now.
CanRun(kind) ==
    /\ kind \in {"refresh", "worker"} =>
         active # NoCall /\ task[active] = "running"
    /\ kind = "spawned" => \E e \in Calls : task[e] \notin {"none", "created"}

\* The futures after _resolve or _reject of an entry whose waiters are ws.
Settled(futures, ws, value) ==
    [c \in Calls |-> IF c \in ws /\ futures[c] = "pending"
                     THEN value ELSE futures[c]]

\* Publish one more terminal event for each ticket of es (_finish).
Announce(es) ==
    terminal' = [e \in Calls |-> terminal[e] + (IF e \in es THEN 1 ELSE 0)]

CancelActiveOnceRunning(why) ==                     \* mutant
    IF active # NoCall /\ task[active] = "running"
    THEN /\ cancel' = [cancel EXCEPT ![active] = "asked"]
         /\ reason' = [reason EXCEPT ![active] = why]
    ELSE UNCHANGED <<cancel, reason>>
CancelActive(why) ==
    IF active # NoCall /\ task[active] \in Live
    THEN /\ cancel' = [cancel EXCEPT ![active] = "asked"]
         /\ reason' = [reason EXCEPT ![active] = why]
    ELSE UNCHANGED <<cancel, reason>>

\* _cancel_all: the futures once every queued entry is resolved as CANCELLED.
QueueForgotten == future                            \* mutant
QueueCancelled ==
    Settled(future, UNION {waiters[e] : e \in Queued}, "CANCELLED")

StartWorker(c) ==
    IF NeedsWorker
    THEN /\ worker' = c
         /\ workers' = [workers EXCEPT ![c] = "ready"]
    ELSE UNCHANGED <<worker, workers>>

\* The call x blocks the code that makes it, and the refresh that waits for
\* that code.
EnterFrom(kind, x) ==
    inside' = IF kind \in {"refresh", "worker"} THEN inside \cup {x} ELSE inside

WaitsInside(e) ==
    /\ e = active
    /\ \/ \E c \in Calls : c \in inside /\ call[c] = "waiting"
       \/ \E k \in Closers : k \in inside /\ closer[k] = "waiting"

----------------------------------------------------------------------------
(* submit(request)                                                         *)

\* EngineClosedError, or RuntimeError for a call that would wait for itself.
Refuse(c, kind) ==
    /\ closed \/ AwaitedBy(kind)
    /\ call' = [call EXCEPT ![c] = "refused"]
    /\ UNCHANGED <<policy, closed, pending, active, terminal, entryVars,
                   taskVars, workerVars, future, inside, wanted,
                   closer>>

Skip(c, kind) ==
    /\ ~closed /\ ~AwaitedBy(kind)
    /\ Busy /\ policy = "SKIP_IF_RUNNING"
    /\ call' = [call EXCEPT ![c] = "skipped"]
    /\ Announce({c})
    /\ UNCHANGED <<policy, closed, pending, active, entryVars, taskVars,
                   workerVars, future, inside, wanted, closer>>

\* The caller goes on to wait for its future, with `futures` those of the
\* other calls.
Await(c, r, kind, futures) ==
    /\ call' = [call EXCEPT ![c] = "waiting"]
    /\ future' = [futures EXCEPT ![c] = "pending"]
    /\ wanted' = [wanted EXCEPT ![c] = r]
    /\ EnterFrom(kind, c)

\* The entry that takes a request in: the first compatible one of the queue.
JoinableOrRunning ==                                \* mutant
    IF active = NoCall THEN pending ELSE <<active>> \o pending
Joinable == pending

Absorbs(i, r) ==
    /\ policy = "COALESCE"
    /\ Compatible(request[Joinable[i]], r)
    /\ \A j \in 1..(i - 1) : ~Compatible(request[Joinable[j]], r)

Join(c, r, kind) ==
    /\ ~closed /\ ~AwaitedBy(kind)
    /\ \E i \in 1..Len(Joinable) :
         LET e == Joinable[i]
         IN  /\ Absorbs(i, r)
             /\ request' = [request EXCEPT ![e] = Merged(@, r)]
             /\ waiters' = [waiters EXCEPT ![e] = @ \cup {c}]
    /\ StartWorker(c)
    /\ Await(c, r, kind, future)
    /\ UNCHANGED <<policy, closed, pending, active, terminal, reason,
                   taskVars, serving, closer>>

NewEntry(c, r) ==
    /\ request' = [request EXCEPT ![c] = r]
    /\ waiters' = [waiters EXCEPT ![c] = {c}]

QueueInFront(c) == <<c>> \o pending                 \* mutant
Queue(c) == Append(pending, c)

Enqueue(c, r, kind) ==
    /\ ~closed /\ ~AwaitedBy(kind)
    /\ policy \in {"COALESCE", "QUEUE"} \/ ~Busy
    /\ \A i \in 1..Len(Joinable) : ~Absorbs(i, r)
    /\ pending' = Queue(c)
    /\ NewEntry(c, r)
    /\ StartWorker(c)
    /\ Await(c, r, kind, future)
    /\ UNCHANGED <<policy, closed, active, terminal, reason, taskVars,
                   serving, closer>>

\* CANCEL_PREVIOUS: _cancel_all(SUPERSEDED), then the new entry is queued.
Supersede(c, r, kind) ==
    /\ ~closed /\ ~AwaitedBy(kind)
    /\ Busy /\ policy = "CANCEL_PREVIOUS"
    /\ CancelActive("SUPERSEDED")
    /\ Announce(Queued)
    /\ pending' = <<c>>
    /\ NewEntry(c, r)
    /\ StartWorker(c)
    /\ Await(c, r, kind, QueueCancelled)
    /\ UNCHANGED <<policy, closed, active, task, reported, serving,
                   closer>>

Submit(c) ==
    /\ call[c] = "idle"
    /\ \E kind \in Kinds :
         /\ CanRun(kind)
         /\ \/ Refuse(c, kind)
            \/ Skip(c, kind)
            \/ \E r \in Requests[policy] :
                 \/ Join(c, r, kind)
                 \/ Enqueue(c, r, kind)
                 \/ Supersede(c, r, kind)

----------------------------------------------------------------------------
(* The rest of submit(): the caller waits for its future.                  *)

\* The task that called submit() is cancelled (a timeout, for instance).  Its
\* future, or the answer it already holds, is dropped at once; the code after
\* the await runs later.
CancelCaller(c) ==
    /\ call[c] = "waiting"
    /\ future' = [future EXCEPT ![c] = "dropped"]
    /\ UNCHANGED <<policy, closed, pending, active, terminal, closer, entryVars,
                   taskVars, workerVars, call, inside, wanted>>

Return(c) ==
    /\ call[c] = "waiting" /\ future[c] \in {"result", "CANCELLED", "error"}
    /\ call' = [call EXCEPT ![c] =
                  IF future[c] = "error" THEN "raised" ELSE "returned"]
    /\ UNCHANGED <<policy, closed, pending, active, terminal, closer, entryVars,
                   taskVars, workerVars, future, inside, wanted>>

\* deque.remove(entry): the queue without its i-th entry.
Without(q, i) == SubSeq(q, 1, i - 1) \o SubSeq(q, i + 1, Len(q))

\* _abandon of a caller that waits for a queued entry, for the running one,
\* or for none that is left.
AbandonQueued(c, i) ==
    LET e == pending[i]
    IN  /\ c \in waiters[e]
        /\ \A j \in 1..(i - 1) : c \notin waiters[pending[j]]
        /\ waiters' = [waiters EXCEPT ![e] = @ \ {c}]
        /\ pending' = IF waiters[e] = {c} THEN Without(pending, i) ELSE pending
        /\ UNCHANGED <<cancel, reason>>

AbandonForAll(c) ==                                 \* mutant
    /\ \A e \in Queued : c \notin waiters[e]
    /\ active \in Calls /\ c \in waiters[active]
    /\ waiters' = [waiters EXCEPT ![active] = @ \ {c}]
    /\ CancelActive("ABANDONED")
    /\ UNCHANGED pending
AbandonActive(c) ==
    /\ \A e \in Queued : c \notin waiters[e]
    /\ active \in Calls /\ c \in waiters[active]
    /\ waiters' = [waiters EXCEPT ![active] = @ \ {c}]
    /\ IF waiters[active] = {c} THEN CancelActive("ABANDONED")
                                ELSE UNCHANGED <<cancel, reason>>
    /\ UNCHANGED pending

AbandonNothing(c) ==
    /\ \A e \in Queued : c \notin waiters[e]
    /\ ~(active \in Calls /\ c \in waiters[active])
    /\ UNCHANGED <<waiters, pending, cancel, reason>>

Abandon(c) ==
    /\ call[c] = "waiting" /\ future[c] = "dropped"
    /\ call' = [call EXCEPT ![c] = "cancelled"]
    /\ \/ \E i \in 1..Len(pending) : AbandonQueued(c, i)
       \/ AbandonActive(c)
       \/ AbandonNothing(c)
    /\ UNCHANGED <<policy, closed, active, terminal, request, task, reported,
                   workerVars, future, inside, wanted, closer>>

----------------------------------------------------------------------------
(* _work(): the worker task.  Its steps run from one await to the next.    *)

\* The top of the loop: run the next entry, or end.
ServeNext(w) ==
    \/ /\ pending = <<>>
       /\ active' = NoCall
       /\ workers' = [workers EXCEPT ![w] = "ended"]
       /\ UNCHANGED <<pending, task, serving>>
    \/ /\ pending # <<>>
       /\ pending' = Tail(pending)
       /\ active' = Head(pending)
       /\ task' = [task EXCEPT ![Head(pending)] = "created"]
       /\ workers' = [workers EXCEPT ![w] = "serving"]
       /\ serving' = [serving EXCEPT ![w] = Head(pending)]

WorkerStarts(w) ==
    /\ workers[w] = "ready"
    /\ ServeNext(w)
    /\ UNCHANGED <<policy, closed, terminal, entryVars, cancel, reported,
                   worker, callVars, closer>>

\* The task of the entry is done: pass its outcome to the waiters, loop.
Outcome(e) ==
    CASE task[e] = "returned"  -> "result"
      [] task[e] \in AsCancelled -> "CANCELLED"
      [] task[e] = "failed"    -> "error"

\* `cancelled_result or self._finish(...)`
UnannouncedTwice(e) == IF task[e] \in AsCancelled THEN {e} ELSE {}    \* mutant
Unannounced(e) == IF task[e] \in AsCancelled /\ ~reported[e] THEN {e} ELSE {}

WorkerResumes(w) ==
    LET e == serving[w]
    IN  /\ workers[w] = "serving"
        /\ task[e] \in Done
        /\ future' = Settled(future, waiters[e], Outcome(e))
        /\ Announce(Unannounced(e))
        /\ ServeNext(w)
        /\ UNCHANGED <<policy, closed, entryVars, cancel, reported, worker,
                       call, inside, wanted, closer>>

----------------------------------------------------------------------------
(* _execute(ticket): the task of the refresh.  What happens inside the     *)
(* pipeline is left to its environment: the refresh may take any time, end *)
(* any way, and handle a cancellation any way.                             *)

RefreshUnchanged ==
    UNCHANGED <<policy, closed, pending, active, entryVars, workerVars,
                callVars, closer>>

RefreshStarts(e) ==
    /\ task[e] = "created" /\ cancel[e] # "asked"
    /\ task' = [task EXCEPT ![e] = "running"]
    /\ UNCHANGED <<cancel, reported, terminal>>
    /\ RefreshUnchanged

\* A task cancelled before its first step never enters its coroutine.
RefreshNeverStarts(e) ==
    /\ task[e] = "created" /\ cancel[e] = "asked"
    /\ task' = [task EXCEPT ![e] = "cancelled"]
    /\ UNCHANGED <<cancel, reported, terminal>>
    /\ RefreshUnchanged

\* The pipeline publishes its terminal event and returns a result.
RefreshReturns(e) ==
    /\ task[e] = "running" /\ cancel[e] # "asked" /\ ~WaitsInside(e)
    /\ task' = [task EXCEPT ![e] = "returned"]
    /\ Announce({e})
    /\ UNCHANGED <<cancel, reported>>
    /\ RefreshUnchanged

\* CancelledError reaches the pipeline, because the task was cancelled or
\* because user code raised it: it stores and publishes the CANCELLED result.
RefreshCancelled(e) ==
    /\ task[e] = "running"
    /\ cancel[e] = "asked" \/ ~WaitsInside(e)
    /\ task' = [task EXCEPT ![e] = "cancelled"]
    /\ reported' = [reported EXCEPT ![e] = TRUE]
    /\ Announce({e})
    /\ UNCHANGED cancel
    /\ RefreshUnchanged

\* User code catches the CancelledError and goes on.
RefreshAbsorbsCancel(e) ==
    /\ task[e] = "running" /\ cancel[e] = "asked"
    /\ cancel' = [cancel EXCEPT ![e] = "absorbed"]
    /\ UNCHANGED <<task, reported, terminal>>
    /\ RefreshUnchanged

\* The runner raises: the pipeline turns every Exception into a result, so
\* this takes a BaseException.
RefreshRaises(e) ==
    /\ task[e] = "running" /\ cancel[e] # "asked" /\ ~WaitsInside(e)
    /\ task' = [task EXCEPT ![e] = "failed"]
    /\ UNCHANGED <<cancel, reported, terminal>>
    /\ RefreshUnchanged

----------------------------------------------------------------------------
(* close(cancel, wait), of the engine and of the coordinator.              *)

WorkerLiveOnceServing == active # NoCall            \* mutant
WorkerLive == worker # NoCall /\ workers[worker] # "ended"

Close(k) ==
    /\ closer[k] = "idle"
    /\ closed' = TRUE
    /\ \/ /\ CancelActive("SHUTDOWN")
          /\ Announce(Queued)
          /\ future' = QueueCancelled
          /\ pending' = <<>>
       \/ UNCHANGED <<cancel, reason, terminal, future, pending>>
    /\ \E kind \in Kinds, wait \in BOOLEAN :
         /\ CanRun(kind)
         /\ \/ /\ ~wait \/ AwaitedBy(kind)
               /\ closer' = [closer EXCEPT ![k] = "left"]
               /\ UNCHANGED inside
            \/ /\ wait /\ ~AwaitedBy(kind)
               /\ closer' = [closer EXCEPT ![k] =
                               IF WorkerLive THEN "waiting" ELSE "drained"]
               /\ EnterFrom(kind, k)
    /\ UNCHANGED <<policy, active, request, waiters, task, reported,
                   workerVars, call, wanted>>

\* No request is accepted once the engine is closed, so the worker the call
\* waits for is still the last one.
CloseReturns(k) ==
    /\ closer[k] = "waiting" /\ ~WorkerLive
    /\ closer' = [closer EXCEPT ![k] = "drained"]
    /\ UNCHANGED <<policy, closed, pending, active, terminal, entryVars,
                   taskVars, workerVars, callVars>>

\* Code of the refresh's own task calls close(cancel=True) and the pipeline
\* then finishes without suspending again.  It has published its terminal
\* event, but asyncio marks a task cancelled that returns while a cancel()
\* request is still undelivered.
RefreshClosesAndReturns(e, k) ==
    /\ closer[k] = "idle"
    /\ task[e] = "running" /\ cancel[e] # "asked" /\ ~WaitsInside(e)
    /\ closed' = TRUE
    /\ reason' = [reason EXCEPT ![e] = "SHUTDOWN"]
    /\ cancel' = [cancel EXCEPT ![e] = "asked"]
    /\ task' = [task EXCEPT ![e] = "closedItself"]
    /\ Announce(Queued \cup {e})
    /\ future' = QueueCancelled
    /\ pending' = <<>>
    /\ closer' = [closer EXCEPT ![k] = "left"]
    /\ UNCHANGED <<policy, active, request, waiters, reported, workerVars,
                   call, inside, wanted>>

----------------------------------------------------------------------------
WorkerStep(w) == WorkerStarts(w) \/ WorkerResumes(w)

RefreshEnds(e) ==
    \/ RefreshNeverStarts(e)
    \/ RefreshReturns(e)
    \/ RefreshCancelled(e)
    \/ RefreshRaises(e)

CallerStep(c) == Return(c) \/ Abandon(c)

\* Every call is over and no task is left: the engine is at rest for good.
AtRest ==
    /\ \A c \in Calls : call[c] \notin {"idle", "waiting"}
    /\ \A k \in Closers : closer[k] \in {"drained", "left"}
    /\ active = NoCall /\ ~WorkerLive
    /\ UNCHANGED vars

Next ==
    \/ AtRest
    \/ \E c \in Calls :
         \/ Submit(c)
         \/ CancelCaller(c)
         \/ CallerStep(c)
         \/ WorkerStep(c)
         \/ RefreshStarts(c)
         \/ RefreshEnds(c)
         \/ RefreshAbsorbsCancel(c)
    \/ \E k \in Closers :
         \/ Close(k)
         \/ CloseReturns(k)
         \/ \E e \in Calls : RefreshClosesAndReturns(e, k)

Spec == Init /\ [][Next]_vars

\* The event loop runs every task that can run, and every refresh ends: the
\* coordinator is given no more than that by its environment.
Fairness ==
    /\ \A c \in Calls :
         /\ WF_vars(WorkerStep(c))
         /\ WF_vars(RefreshStarts(c))
         /\ WF_vars(RefreshEnds(c))
         /\ WF_vars(CallerStep(c))
    /\ \A k \in Closers : WF_vars(CloseReturns(k))

FairSpec == Spec /\ Fairness

----------------------------------------------------------------------------
(* Safety.                                                                 *)

\* One refresh at a time: whatever the callers, the cancellations and the
\* restarts of the worker task, at most one refresh task is alive, and it is
\* the one the coordinator knows as active (and can therefore cancel).
OneRefreshAtATime ==
    \A e \in Calls : task[e] \in Live => active = e

\* Nobody is stranded: a caller whose future is unanswered is a waiter of an
\* entry that is queued or running, and a worker task that is not done exists
\* to serve it (_worker is replaced only once it is done, and _work leaves its
\* loop only with an empty queue).
NobodyStranded ==
    \A c \in Calls :
        future[c] = "pending" =>
            /\ \E e \in Queued \cup ({active} \ {NoCall}) : c \in waiters[e]
            /\ WorkerLive

\* What a request of each mode makes the refresh do to a resource: look for a
\* change, look for a changed dependency, refresh it whatever it finds.
Promised(r) ==
    CASE r.mode = "FULL" ->
           {"change", "impact", "force"} \X Ids
      [] r.mode = "DEPENDENCY_AWARE" -> {"change", "impact"} \X Ids
      [] r.mode = "INCREMENTAL" -> {"change"} \X Ids
      [] r.mode = "TARGETED" -> {"force"} \X r.ids

\* Coalescing never drops work: after any sequence of merges, the request of
\* an entry still promises what each of its waiters asked for.
CoalescingKeepsWork ==
    \A e \in Calls : \A c \in waiters[e] :
        Promised(wanted[c]) \subseteq Promised(request[e])

\* The queue stays short under every policy but QUEUE, however many requests
\* arrive: one entry for SKIP_IF_RUNNING and CANCEL_PREVIOUS, and two for
\* COALESCE, where a TARGETED and an INCREMENTAL one may wait side by side.
QueueBounded ==
    /\ policy \in {"SKIP_IF_RUNNING", "CANCEL_PREVIOUS"} => Len(pending) <= 1
    /\ policy = "COALESCE" => Len(pending) <= 2

\* A refresh is cancelled as abandoned only when nobody waits for it any more,
\* and a refresh that nobody waits for has been asked to stop.
CancelledWhenAbandoned ==
    \A e \in Calls :
        /\ reason[e] = "ABANDONED" => waiters[e] = {}
        /\ task[e] \in Live /\ waiters[e] = {} => cancel[e] # "no"

\* CANCEL_PREVIOUS: while a newer request waits in the queue, the refresh that
\* still runs has been told to stop, even if it had not taken its first step.
NewestWins ==
    policy = "CANCEL_PREVIOUS" /\ pending # <<>>
        => \A e \in Calls : task[e] \in Live => cancel[e] # "no"

\* No request is announced twice, and no caller has a result that was not
\* announced: whether the refresh returned, raised, was cancelled before or
\* after its first step, was superseded, skipped or abandoned, its ticket has
\* at most one terminal event, and it has one before any of its callers gets a
\* result.  Only a refresh whose own code closed the engine with cancel=True
\* just before it returned may have two (coordinator_terminal_event).
AnsweredOnce ==
    \A e \in Calls :
        /\ \A c \in waiters[e] :
              future[c] \in {"result", "CANCELLED"} => terminal[e] >= 1
        /\ task[e] # "closedItself" => terminal[e] <= 1

\* After close(wait=True) returns, nothing the engine accepted is left: the
\* queue is empty, no refresh runs, and every caller has its answer.
CloseDrains ==
    (\E k \in Closers : closer[k] = "drained") =>
        /\ pending = <<>> /\ active = NoCall
        /\ \A c \in Calls : task[c] \notin Live /\ future[c] # "pending"

\* docs/guides/observability.md: "Every refresh ends with exactly one of the
\* four terminal events".
ExactlyOneTerminalEvent == \A e \in Calls : terminal[e] <= 1

----------------------------------------------------------------------------
(* Action properties.                                                      *)

\* Freshness: a caller never joins a refresh that has already left the queue,
\* whose discovery may have missed the change the caller wants picked up; and
\* the request of such a refresh does not change under it.
OnlyQueuedGrow ==
    \A e \in Calls : task[e] # "none" =>
        waiters'[e] \subseteq waiters[e] /\ request'[e] = request[e]

NoLateJoin == [][OnlyQueuedGrow]_vars

\* No overtaking: an entry that is not ahead of e in the queue never gets ahead
\* of it, and never starts while e is still queued.
Ahead(f, e) ==
    \E i, j \in 1..Len(pending) : i < j /\ pending[i] = f /\ pending[j] = e

ServedInOrder ==
    [][\A e \in Queued, f \in Calls :
         f # e /\ ~Ahead(f, e) /\ e \in Queued' =>
             ~Ahead(f, e)' /\ ~(active # f /\ active' = f)]_vars

----------------------------------------------------------------------------
(* What a caller sees of all this.                                         *)

Doing(c) ==
    CASE call[c] = "idle" -> "idle"
      [] call[c] \in {"refused", "skipped"} -> "denied"
      [] call[c] = "waiting" /\ future[c] # "dropped" -> "waiting"
      [] call[c] = "waiting" /\ future[c] = "dropped" -> "withdrawn"
      [] call[c] \in {"returned", "raised"} -> "answered"
      [] call[c] = "cancelled" -> "gone"

Answer(c) == IF future[c] \in {"result", "CANCELLED", "error"} THEN future[c] ELSE "none"

Ended == IF active \in Calls /\ task[active] \in Done THEN Outcome(active) ELSE "none"

Promises == {Promised(r) : r \in Request}
PromiseOf == [r \in Request |-> Promised(r)]
AllPromised(requests) == [c \in Calls |-> PromiseOf[requests[c]]]

Callers == [c \in Calls |-> Doing(c)]
Given == [c \in Calls |-> Answer(c)]
WillDo == AllPromised(request)
Asked == AllPromised(wanted)

Service == INSTANCE OverlapService WITH
    Wishes <- Promises, Nobody <- NoCall,
    line <- pending, running <- active, outcome <- Ended, members <- waiters,
    work <- WillDo, caller <- Callers, asked <- Asked, answer <- Given

\* Whatever the worker tasks, the tasks of refreshes, cancellations and closers
\* do, a caller sees a service that accepts it or not, serves it in a refresh
\* that began after it was accepted and does what it asked for, in order, and
\* answers it with the outcome of that refresh, once.
ImplementsService == Service!Spec

----------------------------------------------------------------------------
(* Liveness.                                                               *)

\* Every accepted request is answered: no caller waits for ever.
EveryCallEnds == \A c \in Calls : call[c] = "waiting" ~> call[c] # "waiting"

\* close(wait=True) comes back.
CloseEnds == \A k \in Closers : closer[k] = "waiting" ~> closer[k] = "drained"
=============================================================================
