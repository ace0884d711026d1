------------------------------ MODULE Adapter ------------------------------
(***************************************************************************)
(* Requests from other threads (scheduling.py, ExternalSchedulerAdapter)   *)
(* and the engine they reach (engine.py): submit_threadsafe() has the      *)
(* event loop start a task that awaits engine.submit() and is chained to a *)
(* concurrent future; run_threadsafe() blocks its thread on that future,   *)
(* with a timeout or without; close() waits for the coordinator and then   *)
(* for the delivery of events.                                             *)
(*                                                                         *)
(* The coordinator is reduced to a queue that serves one request at a time *)
(* (policy QUEUE) and the publisher to a number of events; Coordinator and *)
(* Events are their models.  Every step but those of threads is a callback *)
(* of the event loop.                                                      *)
(***************************************************************************)
EXTENDS Naturals, Sequences, SequencesExt

CONSTANTS
    Threads,        \* calls that threads make, one each
    LoopThreads,    \* those made in the thread of the event loop
    WorkThreads     \* those made in threads that an operation waits for

ASSUME ThreadsAssumption ==
    LoopThreads \cup WorkThreads \subseteq Threads /\ LoopThreads \cap WorkThreads = {}

VARIABLES
    thread,         \* what each thread does
    timed,          \* the calls with a timeout
    future,         \* the concurrent future of a call
    call,           \* the task of a call on the event loop
    waiting,        \* calls that wait in the queue of the coordinator
    serving,        \* the call whose refresh runs: a sequence of at most one
    workFor,        \* the threads its operation waits for
    engineClosed,   \* coordinator.closed
    closing,        \* what the caller of close() waits for
    undelivered     \* events published and not delivered

adapterVars == <<thread, timed, future, call, waiting, serving, workFor,
                 engineClosed, closing, undelivered>>

AdapterInit ==
    /\ thread = [t \in Threads |-> "idle"] /\ timed = {}
    /\ future = [t \in Threads |-> "none"]
    /\ call = [t \in Threads |-> "none"]
    /\ waiting = <<>> /\ serving = <<>> /\ workFor = {}
    /\ engineClosed = FALSE /\ closing = "no"
    /\ undelivered = 0

----------------------------------------------------------------------------
(* Threads *)

NeverOnLoop(t) == FALSE                                             \* mutant
OnLoop(t) == t \in LoopThreads

\* submit_threadsafe: run_coroutine_threadsafe.
Submits(t, does) ==
    /\ thread[t] = "idle"
    /\ thread' = [thread EXCEPT ![t] = does]
    /\ future' = [future EXCEPT ![t] = "pending"]
    /\ call' = [call EXCEPT ![t] = "called"]

SubmitThreadsafe(t) ==
    /\ t \notin WorkThreads
    /\ Submits(t, "holds")
    /\ UNCHANGED <<timed, waiting, serving, workFor, engineClosed, closing, undelivered>>

\* A call in a thread that an operation waits for has a timeout: without one it
\* would wait for a refresh behind the one that waits for it.
RunThreadsafe(t) ==
    /\ IF t \in WorkThreads
       THEN serving # <<>> /\ t # serving[1] /\ workFor' = workFor \cup {t}
       ELSE UNCHANGED workFor
    /\ IF OnLoop(t)
       THEN /\ thread[t] = "idle" /\ thread' = [thread EXCEPT ![t] = "refused"]
            /\ UNCHANGED <<future, call, timed>>
       ELSE /\ Submits(t, "blocked")
            /\ timed' \in {timed \cup {t}} \cup (IF t \in WorkThreads THEN {} ELSE {timed})
    /\ UNCHANGED <<waiting, serving, engineClosed, closing, undelivered>>

Returns(t) ==
    /\ thread[t] = "blocked" /\ future[t] = "finished"
    /\ thread' = [thread EXCEPT ![t] = "returned"]
    /\ UNCHANGED <<timed, future, call, waiting, serving, workFor, engineClosed,
                   closing, undelivered>>

\* future.result(timeout) raises; the answer may still come before the cancel.
Expires(t) ==
    /\ thread[t] = "blocked" /\ t \in timed /\ future[t] = "pending"
    /\ thread' = [thread EXCEPT ![t] = "expired"]
    /\ UNCHANGED <<timed, future, call, waiting, serving, workFor, engineClosed,
                   closing, undelivered>>

JustRaises(t) ==                                                    \* mutant
    /\ thread[t] \in {"expired", "holds"}
    /\ thread' = [thread EXCEPT ![t] = "gave up"]
    /\ UNCHANGED <<timed, future, call, waiting, serving, workFor, engineClosed,
                   closing, undelivered>>
\* future.cancel(), after the timeout or by whoever holds the future.
CancelsFuture(t) ==
    /\ thread[t] \in {"expired", "holds"}
    /\ thread' = [thread EXCEPT ![t] = "gave up"]
    /\ future' = [future EXCEPT ![t] = IF @ = "pending" THEN "cancelled" ELSE @]
    /\ UNCHANGED <<timed, call, waiting, serving, workFor, engineClosed, closing,
                   undelivered>>

----------------------------------------------------------------------------
(* The event loop *)

\* A thread of the loop that blocks stops all of it.
LoopRuns == \A t \in LoopThreads : thread[t] # "blocked"

\* The task starts, also for a future that was cancelled already: submit()
\* raises EngineClosedError or queues the request.
TaskStarts(t) ==
    /\ LoopRuns /\ call[t] = "called"
    /\ IF engineClosed
       THEN call' = [call EXCEPT ![t] = "answered"] /\ UNCHANGED waiting
       ELSE call' = [call EXCEPT ![t] = "waits"] /\ waiting' = Append(waiting, t)
    /\ UNCHANGED <<thread, timed, future, serving, workFor, engineClosed, closing,
                   undelivered>>

\* The chained future is cancelled, so is the task, and the coordinator abandons
\* its waiter: a refresh under way is cancelled, and its operation with it.
TaskCancelled(t) ==
    /\ LoopRuns /\ call[t] = "waits" /\ future[t] = "cancelled"
    /\ call' = [call EXCEPT ![t] = "ended"]
    /\ waiting' = SelectSeq(waiting, LAMBDA w : w # t)
    /\ workFor' = IF Contains(serving, t) THEN {} ELSE workFor
    /\ UNCHANGED <<thread, timed, future, serving, engineClosed, closing, undelivered>>

\* The answer is passed on, unless the future was cancelled.
TaskEnds(t) ==
    /\ LoopRuns /\ call[t] = "answered"
    /\ call' = [call EXCEPT ![t] = "ended"]
    /\ future' = [future EXCEPT ![t] = IF @ = "pending" THEN "finished" ELSE @]
    /\ UNCHANGED <<thread, timed, waiting, serving, workFor, engineClosed, closing,
                   undelivered>>

RefreshStarts ==
    /\ LoopRuns /\ serving = <<>> /\ waiting # <<>>
    /\ serving' = <<Head(waiting)>> /\ waiting' = Tail(waiting)
    /\ UNCHANGED <<thread, timed, future, call, workFor, engineClosed, closing, undelivered>>

\* It ends once its operation does; it publishes an event and answers its caller.
OperationWaits == \E t \in workFor : thread[t] \in {"blocked", "expired"}

RefreshEnds ==
    /\ LoopRuns /\ ~OperationWaits
    /\ \E t \in ToSet(serving) :
          call' = [call EXCEPT ![t] = IF @ = "waits" THEN "answered" ELSE @]
    /\ serving' = <<>> /\ workFor' = {}
    /\ undelivered' = undelivered + 1
    /\ UNCHANGED <<thread, timed, future, waiting, engineClosed, closing>>

\* A handler gets an event.
Delivers ==
    /\ LoopRuns /\ undelivered > 0
    /\ undelivered' = undelivered - 1
    /\ UNCHANGED <<thread, timed, future, call, waiting, serving, workFor,
                   engineClosed, closing>>

\* RefreshEngine.close, which if it cancels answers the queue; wait=False and
\* a task that the refresh itself awaits do not wait for anything.
Close(cancel, wait) ==
    /\ LoopRuns /\ closing = "no"
    /\ engineClosed' = TRUE
    /\ closing' = IF wait THEN "waits" ELSE "returned"
    /\ IF cancel
       THEN /\ waiting' = <<>> /\ workFor' = {}
            /\ call' = [t \in Threads |-> IF t \in ToSet(waiting) THEN "answered" ELSE call[t]]
            /\ undelivered' = undelivered + Len(waiting)
       ELSE UNCHANGED <<waiting, workFor, call, undelivered>>
    /\ UNCHANGED <<thread, timed, future, serving>>

ServesNobody == serving = <<>>                                      \* mutant
WorkerDone == serving = <<>> /\ waiting = <<>>

\* The worker of the coordinator has ended, then the publisher is drained.
CloseProceeds ==
    /\ LoopRuns
    /\ \/ closing = "waits" /\ WorkerDone /\ closing' = "drains"
       \/ closing = "drains" /\ undelivered = 0 /\ closing' = "closed"
    /\ UNCHANGED <<thread, timed, future, call, waiting, serving, workFor,
                   engineClosed, undelivered>>

----------------------------------------------------------------------------
AdapterNext ==
    \/ \E t \in Threads :
          \/ SubmitThreadsafe(t) \/ RunThreadsafe(t) \/ Returns(t)
          \/ Expires(t) \/ CancelsFuture(t)
          \/ TaskStarts(t) \/ TaskCancelled(t) \/ TaskEnds(t)
    \/ RefreshStarts \/ RefreshEnds \/ Delivers \/ CloseProceeds
    \/ \E cancel, wait \in BOOLEAN : Close(cancel, wait)

\* The refresh under way serves somebody who has given up.
Withdrawn == \E t \in ToSet(serving) : call[t] = "ended"

\* The event loop runs its callbacks, a refresh that was cancelled ends, threads
\* run, and timeouts expire.
AdapterFairness ==
    /\ \A t \in Threads :
          /\ WF_adapterVars(Returns(t) \/ Expires(t))
          /\ WF_adapterVars(thread[t] = "expired" /\ CancelsFuture(t))
          /\ WF_adapterVars(TaskStarts(t) \/ TaskEnds(t))
          /\ WF_adapterVars(TaskCancelled(t))
    /\ WF_adapterVars(RefreshStarts) /\ WF_adapterVars(Withdrawn /\ RefreshEnds)
    /\ WF_adapterVars(Delivers) /\ WF_adapterVars(CloseProceeds)

----------------------------------------------------------------------------
(* Properties *)

\* Refreshes end (Coordinator, EveryCallEnds), but for those whose operation waits
\* for a thread.
OperationsEnd == []<>(serving = <<>> \/ OperationWaits)

\* If operations end, a thread that calls run_threadsafe() gets an answer or its
\* timeout, whatever other threads and close() do; the thread of the event loop
\* is refused, since it would stop the loop it waits for (scheduling.py).
ThreadReturns ==
    OperationsEnd =>
        \A t \in Threads : thread[t] = "blocked" ~> thread[t] \in {"returned", "gave up"}

\* Whoever gives up, by timeout or cancellation, leaves nothing behind, though
\* the cancellation may meet a task that has not started, and the operations of
\* the refresh under way, its own or the one that it is queued behind, may never
\* end: the task on the event loop ends and the engine neither queues nor serves
\* the request any more (scheduling.py, run_threadsafe).
NothingLeftBehind ==
    \A t \in Threads :
        thread[t] = "gave up" ~>
            /\ call[t] = "ended" /\ future[t] \in {"cancelled", "finished"}
            /\ t \notin ToSet(waiting) \cup ToSet(serving)

\* When close() has waited, every request that the engine accepted was answered
\* and the events about it were delivered; and it always gets there, if
\* operations end (engine.py).
CloseFinishes ==
    /\ [](closing = "closed" =>
            /\ waiting = <<>> /\ serving = <<>> /\ undelivered = 0
            /\ \A t \in Threads : call[t] # "waits")
    /\ OperationsEnd => (closing = "waits" ~> closing = "closed")
=============================================================================
