------------------------------ MODULE Pipeline ------------------------------
(***************************************************************************)
(* What one engine remembers about its resources, refresh after refresh    *)
(* (src/refresh_engine/_internal/pipeline.py, observation.py, context.py,  *)
(* the selection in planning.py, and how execution.py changes the context  *)
(* of the run).                                                            *)
(*                                                                         *)
(* The resources live outside the engine and change whenever they like,    *)
(* also while a refresh reads them.  The coordinator runs one refresh at a *)
(* time, so the store changes only when a refresh commits, and "previous", *)
(* what the refresh loaded, is the store until then.                       *)
(*                                                                         *)
(* A fingerprint is the version of the content it is taken from: equal     *)
(* fingerprints mean equal contents.  Versions never return: a resource    *)
(* that changes back to an earlier content is outside this model.          *)
(***************************************************************************)
EXTENDS Naturals, FiniteSets, DependencyGraph

CONSTANTS
    Ids,            \* resource IDs
    MayDepend,      \* ID -> the IDs it may ever depend on
    Indicated,      \* IDs with a reliable cheap indicator
    Told,           \* IDs whose dependencies discovery names; the snapshots
                    \*   name those of all
    InitialDeps,    \* the dependencies they may have at first
    Policies,       \* values of failFast: the failure policy is FAIL_FAST
    Requests,       \* failFast -> requests: [mode, resource_ids, and what the
                    \*   selector matches]
    MaxEdits,       \* bound: changes of the resources
    MaxRefreshes,   \* bound: refreshes
    MaxFaults       \* bound: what goes wrong

Modes == {"INCREMENTAL", "DEPENDENCY_AWARE", "FULL", "TARGETED"}
Request == [mode : Modes, ids : SUBSET Ids, matched : SUBSET Ids]

ASSUME IdsAssumption == IsFiniteSet(Ids)
ASSUME MayDependAssumption == MayDepend \in [Ids -> SUBSET Ids]
ASSUME IndicatedAssumption == Indicated \subseteq Ids
ASSUME ToldAssumption == Told \subseteq Ids
ASSUME InitialDepsAssumption ==
    InitialDeps \subseteq
        {ds \in [Ids -> SUBSET Ids] : \A r \in Ids : ds[r] \subseteq MayDepend[r]}
ASSUME PoliciesAssumption == Policies \subseteq BOOLEAN
ASSUME RequestsAssumption ==
    \A p \in Policies : Requests[p] # {} /\ Requests[p] \subseteq Request
ASSUME BoundsAssumption == {MaxEdits, MaxRefreshes, MaxFaults} \subseteq Nat

VARIABLES
    present,    \* the resources that exist
    body,       \* ID -> version of its content
    deps,       \* ID -> what it depends on
    store,      \* the stored states: ID -> [fp, deps, ind]
    failFast,   \* the failure policy
    phase,      \* where the refresh is, or "idle"
    request,    \* the last request that began
    complete,   \* its discovery was complete
    discovered, \* ID -> the cheap indicator that discovery saw
    pending,    \* IDs still to be read and fingerprinted
    obs,        \* observations: ID -> [fp, deps, ind, change, kept]
    before,     \* the plan: item -> the items that must complete first
    deleted,    \* the items of the plan that are deletions
    done,       \* refreshed_at and deletions_applied
    failures,   \* resources with an issue
    broken,     \* refresh_failed
    status      \* status of the last refresh

\* What happens to the derived data, and the history the properties need.
VARIABLES
    built,      \* ID -> version an operation last built, or Nothing
    used,       \* ID -> the dependencies that operation was told of
    behind,     \* built from an output that has changed since
    excused,    \* <<ID, reason>>: it may be behind, and no refresh will know
    owed,       \* planned by a refresh that ended, and not done since
    unmarked,   \* of these, unchanged, and no retry marker could be stored
    lapsed,     \* planned by the last refresh, if it stored nothing
    quiet,      \* no resource changed since the last refresh began
    edits, refreshes, faults    \* for the bounds

world == <<present, body, deps, edits>>
run == <<request, complete, discovered, deleted, before, failFast>>
derived == <<built, used, behind>>
missed == <<owed, unmarked, lapsed>>
vars == <<world, store, run, phase, pending, obs, done, failures, broken,
          status, derived, excused, missed, quiet, refreshes, faults>>

Nothing == 0        \* no derived data, no indicator
Retry == 0          \* the fingerprint of a retry marker
Versions == 1..(MaxEdits + 1)
Empty == [r \in {} |-> 0]

State == [fp : Versions \cup {Retry}, deps : SUBSET Ids,
          ind : Versions \cup {Nothing}]
Changes == {"ADDED", "MODIFIED", "DEPENDENCY_CHANGED", "UNCHANGED"}
Observation == [fp : Versions, deps : SUBSET Ids,
                ind : Versions \cup {Nothing}, change : Changes,
                kept : BOOLEAN]
Statuses == {"NONE", "SUCCESS", "PARTIAL", "FAILED", "CANCELLED"}
Reasons == {"unlisted", "unread", "mode", "late"}
Partial(S) == UNION {[D -> S] : D \in SUBSET Ids}

\* Types, and the sets that the stages of one refresh keep apart: what is still
\* to be read, what was observed and what failed (context.py).
TypeOK ==
    /\ present \subseteq Ids
    /\ body \in [Ids -> Versions]
    /\ deps \in [Ids -> SUBSET Ids]
    /\ DOMAIN store \subseteq Ids
    /\ \A r \in DOMAIN store : store[r] \in State
    /\ failFast \in BOOLEAN
    /\ phase \in {"idle", "observing", "executing", "persisting"}
    /\ request \in Requests[failFast]
    /\ {complete, broken, quiet} \subseteq BOOLEAN
    /\ discovered \in Partial(Versions \cup {Nothing})
    /\ DOMAIN obs \subseteq DOMAIN discovered
    /\ \A r \in DOMAIN obs : obs[r] \in Observation
    /\ pending \subseteq DOMAIN discovered \ (DOMAIN obs \cup failures)
    /\ deleted \subseteq DOMAIN store \ DOMAIN discovered
    /\ DOMAIN before \subseteq DOMAIN obs \cup deleted
    /\ \A r \in DOMAIN before : before[r] \subseteq DOMAIN before
    /\ done \subseteq DOMAIN before \ failures
    /\ failures \subseteq DOMAIN discovered \cup deleted
    /\ status \in Statuses
    /\ built \in [Ids -> Versions \cup {Nothing}]
    /\ used \in [Ids -> SUBSET Ids]
    /\ behind \cup owed \cup unmarked \cup lapsed \subseteq Ids
    /\ excused \subseteq Ids \X Reasons
    /\ edits \in 0..MaxEdits /\ refreshes \in 0..MaxRefreshes
    /\ faults \in 0..MaxFaults

----------------------------------------------------------------------------
(* Observation and classification *)

\* The cheap indicator of a resource follows its content.
Indicator(r) == IF r \in Indicated THEN body[r] ELSE Nothing

ByFingerprint(r, fp, ds) ==                                         \* mutant
    IF r \notin DOMAIN store THEN "ADDED"
    ELSE IF store[r].fp # fp THEN "MODIFIED" ELSE "UNCHANGED"
Classify(r, fp, ds) ==
    IF r \notin DOMAIN store THEN "ADDED"
    ELSE IF store[r].fp # fp THEN "MODIFIED"
    ELSE IF store[r].deps # ds THEN "DEPENDENCY_CHANGED"
    ELSE "UNCHANGED"

Unread(q) == q.mode \in {"INCREMENTAL", "DEPENDENCY_AWARE"}

\* cheap_match: the indicator that discovery reports equals the stored one.
CheapMatch(r) ==
    /\ r \in DOMAIN store
    /\ Indicator(r) # Nothing
    /\ Indicator(r) = store[r].ind

\* The observation of such a resource: its stored state, and its stored
\* dependencies too unless discovery names the ones of now.
Cheaply(r) ==
    LET ds == IF r \in Told THEN deps[r] ELSE store[r].deps
    IN  [fp |-> store[r].fp, deps |-> ds, ind |-> Indicator(r),
         change |-> Classify(r, store[r].fp, ds), kept |-> FALSE]

\* Observer.observe: the snapshot has the content and the dependencies of now,
\* the indicator is the one discovery saw.  The snapshot is kept for the
\* operation unless it is likely not to be needed.
Reading(r, ind) ==
    LET change == Classify(r, body[r], deps[r])
    IN  [fp |-> body[r], deps |-> deps[r], ind |-> ind, change |-> change,
         kept |-> ~Unread(request) \/ change # "UNCHANGED"]

----------------------------------------------------------------------------
(* Selection and order: build_plan *)

Changed(o) == {r \in DOMAIN o : o[r].change # "UNCHANGED"}

\* The dependencies known of every ID: stored, overlaid by what was observed.
Known(o) ==
    [r \in Ids |-> IF r \in DOMAIN o THEN o[r].deps
                   ELSE IF r \in DOMAIN store THEN store[r].deps ELSE {}]

ImpactedDirectly(o, direct) ==                                      \* mutant
    {r \in DOMAIN o : Known(o)[r] \cap direct # {}}
Impacted(o, direct) ==
    {r \in DOMAIN o : Ancestors(Known(o), r) \cap direct # {}}

Selected(mode, o, dels) ==
    CASE mode \in {"FULL", "TARGETED"} -> DOMAIN o
      [] mode = "INCREMENTAL" -> Changed(o)
      [] mode = "DEPENDENCY_AWARE" ->
            Changed(o) \cup Impacted(o, Changed(o) \cup dels)

\* A refresh follows the refreshes of its dependencies and the deletions of
\* what it depends, or depended, on; a deletion follows the deletions of what
\* depended on the resource.
Predecessors(r, o, refreshed, dels) ==
    IF r \in dels
    THEN {x \in dels : r \in store[x].deps}
    ELSE (o[r].deps \cap (refreshed \cup dels))
            \cup {d \in dels : r \in DOMAIN store /\ d \in store[r].deps}

PlanOf(mode, o, dels) ==
    LET refreshed == Selected(mode, o, dels)
    IN  [r \in refreshed \cup dels |-> Predecessors(r, o, refreshed, dels)]

----------------------------------------------------------------------------
(* The context of the run *)

Planned == DOMAIN before \ deleted
Todo == DOMAIN before \ (done \cup failures)
ShouldStop == failFast /\ (broken \/ failures # {})

\* The failures f and everything that is skipped because of them.
WithBlocked(plan, f) ==
    f \cup {r \in DOMAIN plan : Ancestors(plan, r) \cap f # {}}

StatusOf(fails, refreshFailed) ==
    IF fails = {} /\ ~refreshFailed THEN "SUCCESS"
    ELSE IF refreshFailed \/ failFast THEN "FAILED"
    ELSE IF fails # DOMAIN obs \cup pending \cup deleted \cup fails
         THEN "PARTIAL" ELSE "FAILED"

\* The refresh is over: its context is gone.
Forget(result) ==
    /\ phase' = "idle"
    /\ status' = result
    /\ discovered' = Empty /\ obs' = Empty /\ before' = Empty
    /\ pending' = {} /\ deleted' = {} /\ done' = {} /\ failures' = {}
    /\ broken' = FALSE
    /\ UNCHANGED <<world, derived, request, complete, failFast, quiet,
                   refreshes>>

----------------------------------------------------------------------------
Init ==
    /\ present = Ids
    /\ body = [r \in Ids |-> 1]
    /\ deps \in InitialDeps
    /\ \/ /\ store = Empty
          /\ built = [r \in Ids |-> Nothing]
          /\ used = [r \in Ids |-> {}]
       \/ /\ store = [r \in Ids |-> [fp |-> 1, deps |-> deps[r],
                                     ind |-> Indicator(r)]]
          /\ built = [r \in Ids |-> 1]
          /\ used = deps
    /\ failFast \in Policies
    /\ phase = "idle" /\ status = "NONE"
    /\ request = CHOOSE q \in Requests[failFast] : TRUE
    /\ complete = TRUE /\ broken = FALSE /\ quiet = TRUE
    /\ discovered = Empty /\ obs = Empty /\ before = Empty
    /\ pending = {} /\ deleted = {} /\ done = {} /\ failures = {}
    /\ behind = {} /\ excused = {}
    /\ owed = {} /\ unmarked = {} /\ lapsed = {}
    /\ edits = 0 /\ refreshes = 0 /\ faults = 0

\* What goes wrong counts against the bound.
Sound == UNCHANGED faults
Fault == faults < MaxFaults /\ faults' = faults + 1

(* The resources *)

Edited ==
    /\ Sound
    /\ edits < MaxEdits /\ edits' = edits + 1
    /\ quiet' = FALSE
    /\ UNCHANGED <<store, run, phase, pending, obs, done, failures, broken,
                   status, derived, excused, missed, refreshes>>

\* A resource appears, or its content changes, with any dependencies.
Write(r) ==
    /\ body[r] < MaxEdits + 1
    /\ present' = present \cup {r}
    /\ body' = [body EXCEPT ![r] = @ + 1]
    /\ \E ds \in SUBSET MayDepend[r] : deps' = [deps EXCEPT ![r] = ds]
    /\ Edited

\* A resource comes to depend on more without changing its content.
Link(r) ==
    /\ r \in present
    /\ \E d \in MayDepend[r] \ deps[r] :
          deps' = [deps EXCEPT ![r] = @ \cup {d}]
    /\ UNCHANGED <<present, body>>
    /\ Edited

Remove(r) ==
    /\ r \in present
    /\ present' = present \ {r}
    /\ UNCHANGED <<body, deps>>
    /\ Edited

(* The stages of a refresh *)

\* _load, _discover, _targets and the synchronous half of _observe: what the
\* source lists, and the resources whose indicator did not move.
Discovered(q, listed) ==
    LET scope == IF q.mode = "TARGETED"
                 THEN listed \cap (q.ids \cup q.matched) ELSE listed
        cheap == {r \in scope : Unread(q) /\ CheapMatch(r)}
    IN  /\ discovered' = [r \in listed |-> Indicator(r)]
        /\ obs' = [r \in cheap |-> Cheaply(r)]
        /\ pending' = scope \ cheap

Accept(q) ==
    /\ phase = "idle"
    /\ refreshes < MaxRefreshes /\ refreshes' = refreshes + 1
    /\ request' = q
    /\ quiet' = TRUE /\ lapsed' = {}
    /\ UNCHANGED <<world, store, failFast, before, deleted, done, failures,
                   broken, derived, excused, owed, unmarked>>

Begin(q) ==
    /\ Sound
    /\ Accept(q)
    /\ Discovered(q, present)
    /\ complete' = TRUE
    /\ phase' = "observing"
    /\ UNCHANGED status

BeginPartially(q) ==
    /\ Fault
    /\ Accept(q)
    /\ \E listed \in SUBSET present : Discovered(q, listed)
    /\ complete' = FALSE
    /\ phase' = "observing"
    /\ UNCHANGED status

\* Loading the store or discovery fails, and the refresh with it.
BeginFails(q) ==
    /\ Fault
    /\ Accept(q)
    /\ status' = "FAILED"
    /\ UNCHANGED <<complete, discovered, phase, pending, obs>>

Observe(r) ==
    /\ Sound
    /\ phase = "observing" /\ ~ShouldStop
    /\ r \in pending /\ r \in present
    /\ pending' = pending \ {r}
    /\ obs' = [x \in DOMAIN obs \cup {r} |->
                  IF x = r THEN Reading(r, discovered[r]) ELSE obs[x]]
    /\ UNCHANGED <<world, store, run, phase, done, failures, broken, status,
                   derived, excused, missed, quiet, refreshes>>

ObserveFails(r) ==
    /\ IF r \in present THEN Fault ELSE Sound
    /\ phase = "observing" /\ ~ShouldStop
    /\ r \in pending
    /\ pending' = pending \ {r}
    /\ failures' = failures \cup {r}
    /\ UNCHANGED <<world, store, run, phase, obs, done, broken, status,
                   derived, excused, missed, quiet, refreshes>>

\* _deletions: only a complete discovery shows that a resource is gone.
DeletionsWhateverListed ==                                          \* mutant
    LET gone == DOMAIN store \ DOMAIN discovered
    IN  IF request.mode = "TARGETED" THEN gone \cap request.ids ELSE gone
Deletions ==
    LET gone == DOMAIN store \ DOMAIN discovered
    IN  IF ~complete THEN {}
        ELSE IF request.mode = "TARGETED" THEN gone \cap request.ids
        ELSE gone

\* Detection, planning, and the items that cycles keep from running.
Plan ==
    /\ Sound
    /\ phase = "observing" /\ ~ShouldStop
    /\ pending = {}
    /\ deleted' = Deletions
    /\ before' = PlanOf(request.mode, obs, Deletions)
    /\ failures' = failures \cup WithBlocked(before', Cyclic(before'))
    /\ phase' = "executing"
    /\ UNCHANGED <<world, store, request, complete, discovered, failFast,
                   pending, obs, done, broken, status, derived, excused, missed,
                   quiet, refreshes>>

\* An item that a worker takes: everything it waits for succeeded.
Starts(r) ==
    /\ phase = "executing" /\ ~ShouldStop
    /\ r \in Todo /\ before[r] \subseteq done

\* The observation that an operation works from: its kept snapshot, or a new
\* one, which does not reclassify the resource.
Fresh(r) ==
    IF obs[r].kept THEN obs[r]
    ELSE [Reading(r, obs[r].ind) EXCEPT !.change = obs[r].change]

\* History: the derived data of r is rebuilt, or removed.  What was built from
\* its output is behind if that output changes: other content, other
\* dependencies, or a dependency whose own output had changed.  Dependents take
\* the excuses of r over; "excuses" are the ones that stay.
Build(r, content, ds, excuses) ==
    LET moved == built[r] # content \/ used[r] # ds \/ r \in behind
        told == {x \in Ids : moved /\ r \in used[x]}
    IN  /\ built' = [built EXCEPT ![r] = content]
        /\ used' = [used EXCEPT ![r] = ds]
        /\ behind' = (behind \cup told) \ {r}
        /\ excused' = excuses \cup
              {<<x, e[2]>> : x \in told, e \in {f \in excused : f[1] = r}}

Forgive(r) == {e \in excused : e[1] # r}

\* An operation succeeds.  A new snapshot may name dependencies that the plan
\* does not know, whose own operations are still to come ("late").
Refresh(r) ==
    /\ Sound
    /\ Starts(r) /\ r \notin deleted
    /\ obs[r].kept \/ r \in present
    /\ obs' = [obs EXCEPT ![r] = Fresh(r)]
    /\ Build(r, Fresh(r).fp, Fresh(r).deps,
             Forgive(r) \cup {<<r, "late">> : d \in (Fresh(r).deps \cap Todo) \ {r}})
    /\ done' = done \cup {r}
    /\ UNCHANGED <<world, store, run, phase, pending, failures, broken, status,
                   missed, quiet, refreshes>>

\* The snapshot that the operation needs cannot be read.
RefreshUnread(r) ==
    /\ IF r \in present THEN Fault ELSE Sound
    /\ Starts(r) /\ r \notin deleted
    /\ ~obs[r].kept
    /\ failures' = WithBlocked(before, failures \cup {r})
    /\ UNCHANGED <<world, store, run, phase, pending, obs, done, broken, status,
                   derived, excused, missed, quiet, refreshes>>

\* The operation fails, with or without effect.
RefreshFails(r) ==
    /\ Fault
    /\ Starts(r) /\ r \notin deleted
    /\ obs[r].kept \/ r \in present
    /\ obs' = [obs EXCEPT ![r] = Fresh(r)]
    /\ \/ Build(r, Fresh(r).fp, Fresh(r).deps, excused)
       \/ UNCHANGED <<derived, excused>>
    /\ failures' = WithBlocked(before, failures \cup {r})
    /\ UNCHANGED <<world, store, run, phase, pending, done, broken, status,
                   missed, quiet, refreshes>>

Delete(r) ==
    /\ Sound
    /\ Starts(r) /\ r \in deleted
    /\ Build(r, Nothing, {}, Forgive(r))
    /\ done' = done \cup {r}
    /\ UNCHANGED <<world, store, run, phase, pending, obs, failures, broken,
                   status, missed, quiet, refreshes>>

DeleteFails(r) ==
    /\ Fault
    /\ Starts(r) /\ r \in deleted
    /\ \/ Build(r, Nothing, {}, excused)
       \/ UNCHANGED <<derived, excused>>
    /\ failures' = WithBlocked(before, failures \cup {r})
    /\ UNCHANGED <<world, store, run, phase, pending, obs, done, broken,
                   status, missed, quiet, refreshes>>

\* The stages are over: everything ran, or the failure policy stopped them.
StagesEnd ==
    /\ Sound
    /\ \/ phase = "executing" /\ Todo = {}
       \/ phase \in {"observing", "executing"} /\ ShouldStop
    /\ phase' = "persisting"
    /\ UNCHANGED <<world, store, run, pending, obs, done, failures, broken,
                   status, derived, excused, missed, quiet, refreshes>>

\* The overall timeout.  (An operation that it interrupts is, for all that the
\* context knows, one that failed.)
Timeout ==
    /\ Fault
    /\ phase \in {"observing", "executing"}
    /\ broken' = TRUE
    /\ phase' = "persisting"
    /\ UNCHANGED <<world, store, run, pending, obs, done, failures, status,
                   derived, excused, missed, quiet, refreshes>>

(* Persistence *)

\* What is written: the state of what was refreshed, a retry marker for an
\* unchanged resource whose planned refresh did not succeed, and the indicator
\* of an unchanged resource where it drifted.
Writes ==
    LET unchanged == {r \in DOMAIN store \cap DOMAIN obs :
                          obs[r].change = "UNCHANGED"}
        drifted == {r \in unchanged : store[r].ind # obs[r].ind}
    IN  (done \ deleted) \cup (unchanged \cap Planned) \cup drifted

StateOf(r) == [fp |-> obs[r].fp, deps |-> obs[r].deps, ind |-> obs[r].ind]
RetryKeepsIndicator(r) ==                                           \* mutant
    [fp |-> Retry, deps |-> obs[r].deps, ind |-> obs[r].ind]
RetryUnmarked(r) ==                                                 \* mutant
    [fp |-> obs[r].fp, deps |-> obs[r].deps, ind |-> Nothing]
RetryState(r) == [fp |-> Retry, deps |-> obs[r].deps, ind |-> Nothing]

Committed ==
    [r \in (DOMAIN store \cup Writes) \ (deleted \cap done) |->
        IF r \notin Writes THEN store[r]
        ELSE IF r \in Planned \ done THEN RetryState(r)
        ELSE StateOf(r)]

HasWork == Writes # {} \/ deleted \cap done # {}

\* History: what the refresh planned and did not do is owed.
Owe == owed' = (owed \ done) \cup (DOMAIN before \ done)

\* History: what it stored marks what it owes.  If it stores nothing, there is
\* no marker for what it found unchanged.
Marked ==
    /\ Owe
    /\ unmarked' = unmarked \ DOMAIN before
    /\ lapsed' = {}

Unmarked ==
    /\ Owe
    /\ unmarked' = (unmarked \ Changed(obs)) \cup ((Planned \ done) \ Changed(obs))
    /\ lapsed' = DOMAIN before

\* History: what a committed refresh left behind, and why it could not know.
Excuse ==
    excused' = excused \cup
        {<<r, "unlisted">> : r \in behind \ DOMAIN discovered} \cup
        {<<r, "unread">> : r \in (behind \cap failures) \ DOMAIN obs} \cup
        {<<r, "mode">> : r \in {x \in behind :
                                  request.mode \in {"INCREMENTAL", "TARGETED"}}}

\* _persist of a refresh that must not commit, or has nothing to.
NothingToPersist ==
    /\ Sound
    /\ phase = "persisting"
    /\ ShouldStop \/ ~HasWork
    /\ Unmarked
    /\ Forget(StatusOf(failures, broken))
    /\ UNCHANGED <<store, excused>>

\* One transaction.
Apply == store' = Committed /\ Excuse /\ Marked
Discard == UNCHANGED <<store, excused>> /\ Unmarked

Commit ==
    /\ Sound
    /\ phase = "persisting" /\ ~ShouldStop /\ HasWork
    /\ Apply
    /\ Forget(StatusOf(failures, broken))

\* The commit raises, or the refresh is cancelled during it: the transaction is
\* rolled back, but a store may have applied it before it could say so.
CommitFails ==
    /\ Fault
    /\ phase = "persisting" /\ ~ShouldStop /\ HasWork
    /\ Apply \/ Discard
    /\ \E result \in {"FAILED", "CANCELLED"} : Forget(result)

\* The refresh is cancelled, or the process ends and a new one starts with the
\* same durable store.
Abandon ==
    /\ Fault
    /\ phase # "idle"
    /\ Forget("CANCELLED")
    /\ Discard

\* The bound: no more refreshes.
Rest == phase = "idle" /\ refreshes = MaxRefreshes /\ UNCHANGED vars

Edit(r) == Write(r) \/ Link(r) \/ Remove(r)

Item(r) ==
    Refresh(r) \/ RefreshUnread(r) \/ RefreshFails(r) \/ Delete(r)
        \/ DeleteFails(r)

Next ==
    \/ \E r \in Ids : Edit(r) \/ Observe(r) \/ ObserveFails(r) \/ Item(r)
    \/ \E q \in Requests[failFast] : Begin(q) \/ BeginPartially(q) \/ BeginFails(q)
    \/ Plan \/ StagesEnd \/ Timeout
    \/ NothingToPersist \/ Commit \/ CommitFails \/ Abandon \/ Rest

Spec == Init /\ [][Next]_vars

----------------------------------------------------------------------------
(* Properties *)

\* What a refresh that begins now, with a complete discovery and no failure,
\* would observe and give an operation.
Now == [r \in present |->
            IF CheapMatch(r) THEN Cheaply(r) ELSE Reading(r, Indicator(r))]
Detected == Changed(Now)
NextRefreshes == Selected("DEPENDENCY_AWARE", Now, DOMAIN store \ present)

\* The stored state never calls a resource unchanged that no operation has
\* built as it is now: state advances only by what operations were given
\* (context.py, Observation.state; execution.py, _run_item).
StateIsEarned ==
    \A r \in present \cap DOMAIN store :
        store[r].fp = body[r] /\ store[r].deps = deps[r]
            => built[r] = body[r] /\ used[r] = deps[r]

\* Nobody reads what r depends on now: its reliable indicator did not move, and
\* only its snapshot would name the dependencies it has come to have
\* (docs/guides/dependencies.md:19-20).
Veiled(r) == r \notin Told /\ CheapMatch(r) /\ store[r].deps # deps[r]

\* A refresh of everything that reports SUCCESS, while no resource changes,
\* leaves the store equal to the resources, but for the dependencies of those
\* that a mode which reads no more than it must took for unchanged by their
\* indicator (pipeline.py, run and _persist; observation.py, cheap_match).
SuccessIsCurrent ==
    phase = "idle" /\ status = "SUCCESS" /\ quiet /\ complete
      /\ request.mode # "TARGETED"
        => /\ DOMAIN store = present
           /\ \A r \in present :
                 /\ store[r].fp = body[r]
                 /\ store[r].deps = deps[r] \/ (Unread(request) /\ Veiled(r))

\* What a refresh planned and did not do comes back, whether it failed, was
\* skipped, the commit failed, or the refresh was cancelled (pipeline.py,
\* _persist; context.py, retry_state).  Unless the policy is FAIL_FAST, any
\* later refresh sees it as changed, but for what only depended on a change when
\* no marker could be stored.  That, and everything under FAIL_FAST, the next
\* dependency-aware refresh plans again after one that stored nothing.
PlannedIsRetried ==
    phase = "idle" =>
        /\ ~failFast =>
             \A r \in (owed \ unmarked) \cap present : r \in Detected \/ Veiled(r)
        /\ quiet /\ request.mode = "DEPENDENCY_AWARE" =>
             lapsed \cap present \subseteq NextRefreshes

\* A dependency-aware or full refresh of everything that reports SUCCESS, while
\* no resource changes, leaves nothing built from an output that has changed
\* since, except what an earlier refresh could not read, list or reach, what is
\* built, directly or not, from a resource whose dependencies changed unseen, and
\* after a resource vanished before its derived data was ever recorded
\* (planning.py, _impacted and _predecessors).
InputsCurrent ==
    phase = "idle" /\ status = "SUCCESS" /\ quiet /\ complete
      /\ request.mode \in {"DEPENDENCY_AWARE", "FULL"}
      /\ (\A r \in Ids \ present : built[r] = Nothing)
        => \A r \in behind \cap present :
             \/ \E e \in excused : e[1] = r
             \/ \E x \in {r} \cup Ancestors(used, r) : Veiled(x)

\* Nothing is deleted that exists: if no resource changed since the refresh
\* began, derived data and stored states go only for absent resources
\* (pipeline.py, _deletions).
NoFalseDeletion ==
    [][quiet => \A r \in present :
         /\ built[r] # Nothing => built'[r] # Nothing
         /\ r \in DOMAIN store => r \in DOMAIN store']_vars

\* "Every failed resource is retried by a later refresh": what could not be read
\* when its dependencies were refreshed is refreshed by the next refresh that can
\* read it (docs/guides/failure-handling.md:104).
FailedIsRetried ==
    phase = "idle" =>
        \A r \in behind \cap present :
            <<r, "unread">> \in excused => r \in NextRefreshes

\* Operations run "never before the operations of the resources they depend on
\* have finished": no operation succeeds on a snapshot that names a dependency
\* whose operation is still to come (docs/guides/dependencies.md:45).
DependenciesFirst ==
    [][\A r \in (done' \ done) \ deleted : obs'[r].deps \cap Todo \subseteq {r}]_vars
=============================================================================
