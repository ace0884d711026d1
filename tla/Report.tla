------------------------------- MODULE Report -------------------------------
(***************************************************************************)
(* What one refresh reports about itself: RunContext (context.py) collects *)
(* observations, failures and outcomes while the pipeline (pipeline.py)    *)
(* and the executor (execution.py) run, and builds the RefreshResult; the  *)
(* events published on the way are counted by MetricsEventHandler          *)
(* (observability.py).  An operation is retried as RetryConfig says        *)
(* (models.py); timeouts and cancellation come at any time.                *)
(*                                                                         *)
(* What is stored, the order of operations and the delivery of events are  *)
(* in Pipeline, Execution and Events.  Here the plan is any that the mode  *)
(* allows, operations start in any order, and a handler sees every event.  *)
(* Reads and operations are user code, which may raise CancelledError of   *)
(* its own accord: with several workers the one that called it vanishes    *)
(* (concurrency.py), and what it worked on is lost without a trace.        *)
(***************************************************************************)
EXTENDS Integers, FiniteSets

CONSTANTS
    Universe,       \* resource IDs
    MaxConcurrency,
    MaxAttempts     \* RetryConfig.max_attempts

ASSUME ReportConstants ==
    IsFiniteSet(Universe) /\ {MaxConcurrency, MaxAttempts} \subseteq Nat \ {0}

VARIABLES
    mode, policy,
    step,           \* where RefreshPipeline.run is
    known,          \* previous: the resources with stored state
    discovered, scope, deleted,
    pending,        \* resources of the scope that have to be read
    change,         \* observations: resource -> its change, or "none"
    snapshots,      \* resources whose snapshot is kept for the operation
    unread,         \* resources whose observation failed
    planned,        \* planned_refreshes
    plans,          \* planned
    impacted,
    doing,          \* what goes on with a resource, or that its worker vanished
    attempts,       \* operation attempts of a resource
    outcome,        \* executions: resource -> its outcome, or "none"
    failures,       \* resources with an issue
    issues,         \* number of issues
    refreshIssues,  \* number of those that are of the refresh itself
    metrics,        \* what InMemoryMetrics has counted
    result

contextVars == <<discovered, scope, deleted, pending, change, snapshots, unread, planned, plans,
                 impacted>>
runVars == <<doing, attempts, outcome>>
issueVars == <<failures, issues, refreshIssues>>
reportVars == <<mode, policy, step, known, contextVars, runVars, issueVars, metrics,
                result>>
request == <<mode, policy, known>>

Changes == {"added", "modified", "dependency_changed", "unchanged"}
RefreshModes == {"INCREMENTAL", "DEPENDENCY_AWARE", "FULL", "TARGETED"}
NoReport == [status |-> "none"]

ReportInit ==
    /\ mode \in RefreshModes /\ policy \in {"FAIL_FAST", "BEST_EFFORT"}
    /\ known \in SUBSET Universe
    /\ step = "load"
    /\ discovered = {} /\ scope = {} /\ deleted = {} /\ pending = {}
    /\ change = [r \in Universe |-> "none"] /\ snapshots = {} /\ unread = {}
    /\ planned = {} /\ plans = FALSE /\ impacted = {}
    /\ doing = [r \in Universe |-> "none"]
    /\ attempts = [r \in Universe |-> 0]
    /\ outcome = [r \in Universe |-> "none"]
    /\ failures = {} /\ issues = 0 /\ refreshIssues = 0
    /\ metrics = [refreshes |-> 0, success |-> 0, failure |-> 0, skipped |-> 0,
                  unread |-> 0, detected |-> <<>>]
    /\ result = NoReport

----------------------------------------------------------------------------
(* RunContext and the counting of events. *)

Having(f, values) == {r \in Universe : f[r] \in values}
ShouldStop == policy = "FAIL_FAST" /\ issues > 0

FailResource(r) ==
    failures' = failures \cup {r} /\ issues' = issues + 1 /\ UNCHANGED refreshIssues
FailRefresh ==
    issues' = issues + 1 /\ refreshIssues' = refreshIssues + 1 /\ UNCHANGED failures
Counts(metric) == metrics' = [metrics EXCEPT ![metric] = @ + 1]
Steps(to) == step' = to

Busy == Having(doing, {"reading", "rereading", "trying", "delay"})
Gone == Having(doing, {"vanished"})
\* run_workers(worker, min(MaxConcurrency, len(items)))
WorkerFree(items) == Cardinality(Busy \cup (Gone \cap items)) < MaxConcurrency

\* CancelledError from user code ends the task of one of several workers, and
\* the task group takes no notice.  A single worker has no task of its own: it
\* ends the refresh, as Cancelled does.
Vanishes(r, items) ==
    /\ MaxConcurrency > 1 /\ Cardinality(items) > 1
    /\ doing' = [doing EXCEPT ![r] = "vanished"]
RetainAll == mode \in {"FULL", "TARGETED"}
Observed == Having(change, Changes)
Changed == Having(change, Changes \ {"unchanged"})
CountsByChange == [c \in Changes |-> Cardinality(Having(change, {c}))]

StatusOfDiscovered(inScope) ==                                      \* mutant
    IF Cardinality(failures) < Cardinality(discovered)
    THEN "PARTIAL" ELSE "FAILED"
BestEffortStatus(inScope) ==
    IF Cardinality(failures) < inScope THEN "PARTIAL" ELSE "FAILED"

Status(errors, refreshFailed) ==
    IF errors = 0 THEN "SUCCESS"
    ELSE IF refreshFailed \/ policy = "FAIL_FAST" THEN "FAILED"
    ELSE BestEffortStatus(Cardinality(scope) + Cardinality(deleted))

SkippedWithUnread == Cardinality(discovered) - Cardinality(planned) \* mutant
SkippedCount == Cardinality(discovered) - Cardinality(planned) - Cardinality(unread)

\* RunContext.result and the terminal event.
Finish(status) ==
    /\ result' =
        [status |-> status,
         discovered |-> Cardinality(discovered),
         changes |-> CountsByChange,
         deleted |-> Cardinality(deleted),
         impacted |-> Cardinality(impacted),
         refreshed |-> Cardinality(Having(outcome, {"success"})),
         skipped |-> IF plans THEN SkippedCount ELSE 0,
         failed |-> issues',
         executions |-> Cardinality(Having(outcome, {"success", "failure", "skipped"}))]
    /\ Counts("refreshes")
    /\ Steps("over")

----------------------------------------------------------------------------
(* The stages: load, discover, observe, plan. *)

Fails(to) == FailRefresh /\ Steps(to)

LoadOrDiscover ==
    /\ step \in {"load", "discover"}
    /\ \/ Fails("persist") /\ UNCHANGED contextVars
       \/ step = "load" /\ Steps("discover") /\ UNCHANGED <<contextVars, issueVars>>
       \/ /\ step = "discover" /\ Steps("scope") /\ discovered' \in SUBSET Universe
          /\ UNCHANGED <<scope, deleted, pending, change, snapshots, unread, planned,
                         plans, impacted, issueVars>>
    /\ UNCHANGED <<request, runVars, metrics, result>>

\* _targets, whose selector may raise, and the cheap matches of _observe.
Scope ==
    /\ step = "scope"
    /\ \/ mode = "TARGETED" /\ Fails("persist") /\ UNCHANGED contextVars
       \/ /\ Steps("observe") /\ UNCHANGED issueVars
          /\ scope' \in IF mode = "TARGETED" THEN SUBSET discovered ELSE {discovered}
          /\ \E cheap \in SUBSET (IF RetainAll THEN {} ELSE scope' \cap known) :
                /\ pending' = scope' \ cheap
                /\ \E found \in [cheap -> {"unchanged", "dependency_changed"}] :
                      change' = [r \in Universe |-> IF r \in cheap THEN found[r] ELSE "none"]
          /\ UNCHANGED <<discovered, deleted, snapshots, unread, planned, plans, impacted>>
    /\ UNCHANGED <<request, runVars, metrics, result>>

ReadStarts(r) ==
    /\ step = "observe" /\ ~ShouldStop
    /\ r \in pending \ (Observed \cup unread \cup Busy \cup Gone)
    /\ WorkerFree(pending)
    /\ doing' = [doing EXCEPT ![r] = "reading"]
    /\ UNCHANGED <<request, step, contextVars, attempts, outcome, issueVars, metrics,
                   result>>

ReadEnds(r) ==
    /\ doing[r] = "reading"
    /\ \/ /\ doing' = [doing EXCEPT ![r] = "none"]
          /\ \E c \in IF r \in known THEN Changes \ {"added"} ELSE {"added"} :
                /\ change' = [change EXCEPT ![r] = c]
                /\ snapshots' = IF RetainAll \/ c # "unchanged"
                                THEN snapshots \cup {r} ELSE snapshots
          /\ UNCHANGED <<unread, issueVars, metrics>>
       \/ /\ doing' = [doing EXCEPT ![r] = "none"]
          /\ unread' = unread \cup {r}
          /\ FailResource(r) /\ Counts("unread")
          /\ UNCHANGED <<change, snapshots>>
       \/ /\ Vanishes(r, pending)
          /\ UNCHANGED <<change, snapshots, unread, issueVars, metrics>>
    /\ UNCHANGED <<request, step, discovered, scope, deleted, pending, planned, plans,
                   impacted, attempts, outcome, result>>

\* The refreshes build_plan may select: dependencies are not modelled, any
\* unchanged resource may be impacted.
Selections ==
    CASE RetainAll -> {Observed}
      [] mode = "INCREMENTAL" -> {Changed}
      [] mode = "DEPENDENCY_AWARE" -> {S \in SUBSET Observed : Changed \subseteq S}

\* The workers have taken every resource, or there are none left.
PlanOrAbort ==
    /\ step = "observe" /\ Busy = {}
    /\ \/ ShouldStop \/ pending \subseteq Observed \cup unread \cup Gone
       \/ Cardinality(Gone) = MaxConcurrency
    /\ \/ ShouldStop /\ Steps("persist") /\ UNCHANGED <<contextVars, metrics>>
       \/ /\ ~ShouldStop
          /\ deleted' \in IF mode = "TARGETED" THEN SUBSET (known \ discovered)
                          ELSE {{}, known \ discovered}
          /\ planned' \in Selections /\ plans' = TRUE
          /\ impacted' = IF mode = "DEPENDENCY_AWARE" THEN planned' \ Changed ELSE {}
          /\ metrics' = [metrics EXCEPT !.detected =
                [changes |-> CountsByChange, deleted |-> Cardinality(deleted')]]
          /\ Steps("execute")
          /\ UNCHANGED <<discovered, scope, pending, change, snapshots, unread>>
    /\ UNCHANGED <<request, runVars, issueVars, result>>

----------------------------------------------------------------------------
(* Execution of one item: _run_item, _call, _attempt, _record, _skip. *)

Plan == planned \cup deleted
Waiting(r) == step = "execute" /\ r \in Plan \ (Busy \cup Gone) /\ outcome[r] = "none"

\* Without a kept snapshot the resource is read again.
RunStarts(r) ==
    /\ Waiting(r) /\ ~ShouldStop
    /\ WorkerFree(Plan)
    /\ IF r \in planned \ snapshots
       THEN doing' = [doing EXCEPT ![r] = "rereading"] /\ UNCHANGED attempts
       ELSE doing' = [doing EXCEPT ![r] = "trying"] /\ attempts' = [attempts EXCEPT ![r] = 1]
    /\ UNCHANGED <<request, step, contextVars, outcome, issueVars, metrics, result>>

Records(r, how) ==
    /\ doing' = [doing EXCEPT ![r] = "none"]
    /\ outcome' = [outcome EXCEPT ![r] = how]
    /\ Counts(how)

\* The change that was planned for stays.
ChangeOfFresh(r, fresh) == change' = [change EXCEPT ![r] = fresh]   \* mutant
ChangeOfPlan(r, fresh) == UNCHANGED change

Rereads(r) ==
    /\ doing[r] = "rereading"
    /\ \/ /\ \E fresh \in Changes \ {"added"} : ChangeOfPlan(r, fresh)
          /\ doing' = [doing EXCEPT ![r] = "trying"]
          /\ attempts' = [attempts EXCEPT ![r] = 1]
          /\ UNCHANGED <<outcome, issueVars, metrics>>
       \/ FailResource(r) /\ Records(r, "failure") /\ UNCHANGED <<attempts, change>>
       \/ Vanishes(r, Plan) /\ UNCHANGED <<attempts, change, outcome, issueVars, metrics>>
    /\ UNCHANGED <<request, step, discovered, scope, deleted, pending, snapshots, unread,
                   planned, plans, impacted, result>>

\* stop_after_attempt and retry_if_exception_type
TriesAgain(r, retryable) == retryable /\ attempts[r] < MaxAttempts

Attempt(r) ==
    /\ doing[r] = "trying"
    /\ \/ Records(r, "success") /\ UNCHANGED issueVars
       \/ \E retryable \in BOOLEAN :
            IF TriesAgain(r, retryable)
            THEN doing' = [doing EXCEPT ![r] = "delay"] /\ UNCHANGED <<outcome, issueVars, metrics>>
            ELSE Records(r, "failure") /\ FailResource(r)
       \/ Vanishes(r, Plan) /\ UNCHANGED <<outcome, issueVars, metrics>>
    /\ UNCHANGED <<request, step, contextVars, attempts, result>>

DelayEnds(r) ==
    /\ doing[r] = "delay"
    /\ doing' = [doing EXCEPT ![r] = "trying"]
    /\ attempts' = [attempts EXCEPT ![r] = @ + 1]
    /\ UNCHANGED <<request, step, contextVars, outcome, issueVars, metrics, result>>

\* A resource on a cycle, before anything runs, or one whose dependency failed.
Skippable(r) ==
    \/ \A x \in Plan : doing[x] = "none" /\ outcome[x] \in {"none", "skipped"}
    \/ \E x \in Universe : outcome[x] \in {"failure", "skipped"}

Skips(r) ==
    /\ Waiting(r) /\ Skippable(r)
    /\ FailResource(r) /\ Records(r, "skipped")
    /\ UNCHANGED <<request, step, contextVars, attempts, result>>

\* Whatever waits for an item whose worker vanished is not run; when every worker
\* has vanished, nothing else is either.
ExecutionEnds ==
    /\ step = "execute" /\ Busy = {}
    /\ ShouldStop \/ Gone \cap Plan # {} \/ \A r \in Plan : outcome[r] # "none"
    /\ Steps("persist")
    /\ UNCHANGED <<request, contextVars, runVars, issueVars, metrics, result>>

----------------------------------------------------------------------------
(* The end: _persist, the overall timeout, cancellation, other exceptions. *)

Persist ==
    /\ step = "persist"
    /\ \/ UNCHANGED issueVars /\ Finish(Status(issues, refreshIssues > 0))
       \/ ~ShouldStop /\ FailRefresh /\ Finish(Status(issues + 1, TRUE))
    /\ UNCHANGED <<request, contextVars, runVars>>

Interrupted == doing' = [r \in Universe |-> IF r \in Gone THEN "vanished" ELSE "none"]

OverallTimeout ==
    /\ step \in {"load", "discover", "scope", "observe", "execute"}
    /\ Fails("persist") /\ Interrupted
    /\ UNCHANGED <<request, contextVars, attempts, outcome, metrics, result>>

Cancelled ==
    /\ step # "over"
    /\ UNCHANGED issueVars /\ Finish("CANCELLED") /\ Interrupted
    /\ UNCHANGED <<request, contextVars, attempts, outcome>>

\* An exception that no stage expects ends the refresh unpersisted.
Raises ==
    /\ step # "over"
    /\ FailRefresh /\ Finish(Status(issues + 1, TRUE)) /\ Interrupted
    /\ UNCHANGED <<request, contextVars, attempts, outcome>>

ReportNext ==
    \/ LoadOrDiscover \/ Scope \/ PlanOrAbort \/ ExecutionEnds \/ Persist
    \/ \E r \in Universe :
          \/ ReadStarts(r) \/ ReadEnds(r) \/ RunStarts(r) \/ Rereads(r)
          \/ Attempt(r) \/ DelayEnds(r) \/ Skips(r)
    \/ OverallTimeout \/ Cancelled \/ Raises

ReportSpec == ReportInit /\ [][ReportNext]_reportVars

----------------------------------------------------------------------------
(* Properties *)

Reported == result # NoReport
Ran == Having(outcome, {"success", "failure", "skipped"})
InScope == scope \cup deleted

\* What a refresh that went on to its end leaves without result and error, and
\* why: the worker vanished that read the resource, or worked on the plan.
NeverRead == scope \ (Observed \cup unread)
NeverRun == Plan \ Ran
ReadersLost == Gone \ Plan
RunnersLost == Gone \cap Plan

\* However a refresh ends, its result adds up (models.py, RefreshResult): no
\* resource has two errors, an operation that ended has one exactly if it did not
\* succeed, one whose worker vanished has neither error nor outcome; once there is
\* a plan, the resources discovered are those of the four changes, those that could
\* not be read (but for TARGETED) and those whose reader vanished, or more if no
\* worker was left; and the skipped ones are exactly those that were neither
\* planned nor unread.
ResultAdds ==
    Reported =>
        /\ failures = unread \cup Having(outcome, {"failure", "skipped"})
        /\ result.failed = Cardinality(failures) + refreshIssues
        /\ unread \cap Ran = {} /\ Ran \subseteq Plan
        /\ Gone \cap (failures \cup Ran) = {}
        /\ result.refreshed <= result.executions
        /\ result.executions - result.refreshed + Cardinality(unread) <= result.failed
        /\ plans => NeverRead = ReadersLost \/ Cardinality(ReadersLost) = MaxConcurrency
        /\ plans /\ mode # "TARGETED" =>
              result.discovered = Cardinality(unread) + Cardinality(NeverRead)
                + result.changes["added"] + result.changes["modified"]
                + result.changes["dependency_changed"] + result.changes["unchanged"]
        /\ plans => result.skipped = Cardinality(discovered \ (planned \cup unread))

\* Everything in scope was read and every planned operation ended, but for what a
\* vanished worker left.
Complete ==
    /\ plans
    /\ NeverRead # {} => ReadersLost # {}
    /\ NeverRun # {} => RunnersLost # {}

\* The status means what RefreshStatus says (models.py), if no worker vanishes:
\* SUCCESS, that every resource in scope was observed and every planned operation
\* succeeded; PARTIAL, that some failed and some in scope did not; FAILED, that the
\* refresh could not complete or that everything in scope failed.  Vanished workers
\* change none of that for the rest, but SUCCESS and PARTIAL leave out what they left.
StatusMeans ==
    Reported =>
        CASE result.status = "SUCCESS" ->
               Complete /\ unread = {} /\ \A r \in Ran : outcome[r] = "success"
          [] result.status = "PARTIAL" ->
               Complete /\ failures # {} /\ ~(InScope \subseteq failures)
          [] result.status = "FAILED" ->
               \/ refreshIssues > 0 \/ policy = "FAIL_FAST"
               \/ InScope # {} /\ InScope \subseteq failures
          [] result.status = "CANCELLED" -> TRUE

\* The metrics agree with the result: each error is counted once, as a failed or
\* skipped operation or a failed snapshot, or is one of the refresh; and changes are
\* counted as the result counts them, though resources are read again later
\* (observability.py, MetricsEventHandler).
MetricsAgree ==
    Reported =>
        /\ metrics.refreshes = 1
        /\ metrics.success = result.refreshed
        /\ metrics.failure + metrics.skipped + metrics.unread + refreshIssues
             = result.failed
        /\ plans => metrics.detected =
                      [changes |-> result.changes, deleted |-> result.deleted]
=============================================================================
