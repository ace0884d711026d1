---------------------------- MODULE ReportProofs ----------------------------
(***************************************************************************)
(* Proofs about Report, for every number of resources, of attempts and of  *)
(* reads and operations at a time: the result of a refresh adds up, its    *)
(* status means what RefreshStatus says, and the metrics agree with it.    *)
(***************************************************************************)
EXTENDS Report, FiniteSetTheorems, TLAPS

----------------------------------------------------------------------------
(* The inductive invariant                                                  *)

Outcomes == {"success", "failure", "skipped"}
Doings == {"reading", "rereading", "trying", "delay"}
StepNames == {"load", "discover", "scope", "observe", "execute", "persist", "over"}

Succeeded == Having(outcome, {"success"})
Lost == Having(outcome, {"failure", "skipped"})

Detections == {<<>>} \cup [changes : [Changes -> Nat], deleted : Nat]
Metrics == [refreshes : Nat, success : Nat, failure : Nat, skipped : Nat, unread : Nat,
            detected : Detections]

\* Types, and the sets that the stages keep apart.
TypeInv ==
    /\ mode \in RefreshModes /\ policy \in {"FAIL_FAST", "BEST_EFFORT"} /\ step \in StepNames
    /\ known \subseteq Universe /\ discovered \subseteq Universe /\ plans \in BOOLEAN
    /\ scope \subseteq discovered /\ deleted \subseteq known \ discovered
    /\ pending \subseteq scope
    /\ change \in [Universe -> Changes \cup {"none"}]
    /\ Observed \subseteq scope /\ unread \subseteq scope \ Observed /\ planned \subseteq Observed
    /\ doing \in [Universe -> Doings \cup {"none", "vanished"}]
    /\ outcome \in [Universe -> Outcomes \cup {"none"}]
    /\ failures \subseteq Universe /\ issues \in Nat /\ refreshIssues \in Nat
    /\ metrics \in Metrics

\* Some worker vanished if anything in scope was not read, and every one of them
\* if more was left than those had taken.
OnlyVanished == NeverRead = ReadersLost \/ Cardinality(ReadersLost) = MaxConcurrency

\* What each stage has done when the next begins.
StepInv ==
    /\ step \in {"load", "discover", "scope"} => scope = {} /\ Gone = {}
    /\ step \in {"load", "discover", "scope", "observe"} => ~plans
    /\ ~plans => deleted = {} /\ planned = {}
    /\ plans => OnlyVanished
    /\ step = "observe" => scope \subseteq pending \cup Observed
    /\ (step = "observe" \/ plans) /\ mode # "TARGETED" => scope = discovered
    /\ step = "execute" => plans
    /\ step = "persist" /\ refreshIssues = 0 /\ ~ShouldStop =>
         plans /\ (NeverRun = {} \/ RunnersLost # {})
    /\ step \notin {"observe", "execute"} => Busy = {}
    /\ step # "over" => result = NoReport

\* What goes on belongs to the stage, and what has an outcome to the plan; what a
\* vanished worker had taken is one of those that were to be read, or of the plan.
DoingInv ==
    \A r \in Universe :
        /\ doing[r] = "reading" => step = "observe" /\ r \in pending \ (Observed \cup unread)
        /\ doing[r] = "vanished" =>
             \/ r \in Plan /\ outcome[r] = "none"
             \/ r \in pending \ (Observed \cup unread)
        /\ doing[r] \in {"rereading", "trying", "delay"} =>
             step = "execute" /\ r \in Plan /\ outcome[r] = "none"
        /\ outcome[r] # "none" => r \in Plan

\* Every failure, outcome and error is counted once.
CountInv ==
    /\ failures = unread \cup Lost /\ issues = Cardinality(failures) + refreshIssues
    /\ metrics.refreshes = IF step = "over" THEN 1 ELSE 0
    /\ metrics.unread = Cardinality(unread)
    /\ metrics.success = Cardinality(Succeeded)
    /\ metrics.failure + metrics.skipped = Cardinality(Lost)
    /\ plans => metrics.detected = [changes |-> CountsByChange, deleted |-> Cardinality(deleted)]

\* The result is of the context as the refresh left it.
ResultInv ==
    step = "over" =>
        /\ result.discovered = Cardinality(discovered) /\ result.changes = CountsByChange
        /\ result.deleted = Cardinality(deleted)
        /\ result.refreshed = Cardinality(Succeeded) /\ result.executions = Cardinality(Ran)
        /\ plans => result.skipped = SkippedCount
        /\ result.failed = issues

IInv == TypeInv /\ StepInv /\ DoingInv /\ CountInv /\ ResultInv

----------------------------------------------------------------------------
(* Counting                                                                 *)

LEMMA Finite ==
  ASSUME NEW S, S \subseteq Universe
  PROVE  IsFiniteSet(S) /\ Cardinality(S) \in Nat
BY ReportConstants, FS_Subset, FS_CardinalityType

LEMMA Grows ==
  ASSUME NEW S, S \subseteq Universe, NEW r, r \notin S
  PROVE  Cardinality(S \cup {r}) = Cardinality(S) + 1
BY Finite, FS_AddElement

LEMMA Adds ==
  ASSUME NEW S, NEW T, S \subseteq Universe, T \subseteq Universe, S \cap T = {}
  PROVE  Cardinality(S \cup T) = Cardinality(S) + Cardinality(T)
<1>1. IsFiniteSet(S) /\ IsFiniteSet(T) /\ Cardinality(S) \in Nat /\ Cardinality(T) \in Nat
  BY Finite
<1>2. Cardinality(S \cup T) = Cardinality(S) + Cardinality(T) - Cardinality(S \cap T)
  BY <1>1, FS_Union
<1>3. Cardinality(S \cap T) = 0
  BY FS_EmptySet
<1> QED BY <1>1, <1>2, <1>3

\* One event counts one thing.
LEMMA CountsOne ==
  ASSUME metrics \in Metrics,
         NEW m \in {"refreshes", "success", "failure", "skipped", "unread"}, Counts(m)
  PROVE  /\ metrics' \in Metrics /\ metrics'.detected = metrics.detected
         /\ metrics'.refreshes = metrics.refreshes + (IF m = "refreshes" THEN 1 ELSE 0)
         /\ metrics'.success = metrics.success + (IF m = "success" THEN 1 ELSE 0)
         /\ metrics'.failure = metrics.failure + (IF m = "failure" THEN 1 ELSE 0)
         /\ metrics'.skipped = metrics.skipped + (IF m = "skipped" THEN 1 ELSE 0)
         /\ metrics'.unread = metrics.unread + (IF m = "unread" THEN 1 ELSE 0)
BY DEF Counts, Metrics

----------------------------------------------------------------------------
(* Operations                                                               *)

\* An item whose turn has come is not unread, and has not failed.
LEMMA ItemFacts ==
  ASSUME IInv, NEW r \in Universe, r \in Plan, outcome[r] = "none"
  PROVE  /\ plans /\ r \notin unread /\ r \notin failures /\ r \notin Succeeded /\ r \notin Lost
         /\ Succeeded \subseteq Universe /\ Lost \subseteq Universe
         /\ unread \subseteq Universe /\ failures \subseteq Universe
<1>1. r \notin unread
  BY DEF IInv, TypeInv, Plan
<1>2. plans
  BY DEF IInv, TypeInv, StepInv, Plan
<1> QED BY <1>1, <1>2 DEF IInv, TypeInv, CountInv, Succeeded, Lost, Having

\* An item starts, is tried again after a delay or after it was read again, or
\* its worker vanishes.
LEMMA RunMoves ==
  ASSUME IInv, NEW r \in Universe, step = "execute", r \in Plan, outcome[r] = "none",
         doing[r] # "vanished",
         NEW what \in {"rereading", "trying", "delay", "vanished"},
         doing' = [doing EXCEPT ![r] = what],
         UNCHANGED <<request, step, contextVars, outcome, issueVars, metrics, result>>
  PROVE  IInv'
<1>1. /\ UNCHANGED <<mode, policy, known, step, discovered, scope, deleted, pending, change,
                     snapshots, unread, planned, plans, impacted, outcome, failures, issues,
                     refreshIssues, metrics, result>>
  BY DEF request, contextVars, issueVars
<1>2. TypeInv
  BY DEF IInv
<1>3. /\ doing' \in [Universe -> Doings \cup {"none", "vanished"}] /\ doing'[r] = what
      /\ \A x \in Universe \ {r} : doing'[x] = doing[x]
  BY <1>2 DEF TypeInv, Doings
<1>4. /\ Observed' = Observed /\ Succeeded' = Succeeded /\ Lost' = Lost /\ Plan' = Plan
      /\ ShouldStop' = ShouldStop /\ CountsByChange' = CountsByChange /\ Ran' = Ran
      /\ SkippedCount' = SkippedCount /\ NeverRead' = NeverRead
  BY <1>1 DEF Observed, Succeeded, Lost, Plan, ShouldStop, CountsByChange, Ran, SkippedCount,
              NeverRead, Having
<1>5. ReadersLost' = ReadersLost
  BY <1>3, <1>4 DEF ReadersLost, Gone, Having
<1>6. TypeInv'
  BY <1>1, <1>2, <1>3, <1>4 DEF TypeInv
<1>7. StepInv'
  BY <1>1, <1>4, <1>5 DEF IInv, StepInv, OnlyVanished
<1>8. DoingInv'
  BY <1>1, <1>3, <1>4 DEF IInv, DoingInv
<1>9. CountInv' /\ ResultInv'
  BY <1>1, <1>4 DEF IInv, CountInv, ResultInv
<1> QED BY <1>6, <1>7, <1>8, <1>9 DEF IInv

\* An item ends: one that ran with success or failure, one that did not as
\* skipped, and one issue for every one that does not succeed.
LEMMA RunEnds ==
  ASSUME IInv, NEW r \in Universe, step = "execute", r \in Plan, outcome[r] = "none",
         NEW how \in Outcomes, Records(r, how),
         IF how = "success" THEN UNCHANGED issueVars ELSE FailResource(r),
         IF how = "skipped" THEN doing[r] = "none" ELSE doing[r] \in {"rereading", "trying", "delay"},
         UNCHANGED <<request, step, contextVars, result>>
  PROVE  IInv'
<1>1. /\ UNCHANGED <<mode, policy, known, step, discovered, scope, deleted, pending, change,
                     snapshots, unread, planned, plans, impacted, refreshIssues, result>>
      /\ IF how = "success" THEN UNCHANGED <<failures, issues>>
         ELSE failures' = failures \cup {r} /\ issues' = issues + 1
  BY DEF request, contextVars, issueVars, FailResource
<1>2. TypeInv
  BY DEF IInv
<1>3. /\ plans /\ r \notin unread /\ r \notin failures /\ r \notin Succeeded /\ r \notin Lost
      /\ Succeeded \subseteq Universe /\ Lost \subseteq Universe
      /\ unread \subseteq Universe /\ failures \subseteq Universe
  BY ItemFacts
<1>4. /\ doing' = [doing EXCEPT ![r] = "none"] /\ outcome' = [outcome EXCEPT ![r] = how]
      /\ Counts(how)
  BY DEF Records
<1>5. /\ doing' \in [Universe -> Doings \cup {"none", "vanished"}] /\ doing'[r] = "none"
      /\ outcome' \in [Universe -> Outcomes \cup {"none"}] /\ outcome'[r] = how
      /\ \A x \in Universe \ {r} : doing'[x] = doing[x] /\ outcome'[x] = outcome[x]
  BY <1>2, <1>4 DEF TypeInv
<1>6. /\ metrics' \in Metrics /\ metrics'.detected = metrics.detected
      /\ metrics'.refreshes = metrics.refreshes
      /\ metrics'.success = metrics.success + (IF how = "success" THEN 1 ELSE 0)
      /\ metrics'.failure = metrics.failure + (IF how = "failure" THEN 1 ELSE 0)
      /\ metrics'.skipped = metrics.skipped + (IF how = "skipped" THEN 1 ELSE 0)
      /\ metrics'.unread = metrics.unread
  <2>1. metrics \in Metrics /\ how \in {"refreshes", "success", "failure", "skipped", "unread"}
    BY <1>2 DEF TypeInv, Outcomes
  <2> QED BY <1>4, <2>1, CountsOne DEF Outcomes, Metrics
<1>7. /\ Succeeded' = IF how = "success" THEN Succeeded \cup {r} ELSE Succeeded
      /\ Lost' = IF how = "success" THEN Lost ELSE Lost \cup {r}
  <2>1. how \in {"success", "failure", "skipped"}
    BY DEF Outcomes
  <2>2. Succeeded' = IF how = "success" THEN Succeeded \cup {r} ELSE Succeeded
    BY <1>3, <1>5, <2>1 DEF Succeeded, Having
  <2>3. Lost' = IF how = "success" THEN Lost ELSE Lost \cup {r}
    BY <1>3, <1>5, <2>1 DEF Lost, Having
  <2> QED BY <2>2, <2>3
<1>8. /\ Cardinality(Succeeded') = Cardinality(Succeeded) + (IF how = "success" THEN 1 ELSE 0)
      /\ Cardinality(Lost') = Cardinality(Lost) + (IF how = "success" THEN 0 ELSE 1)
      /\ Cardinality(failures') = Cardinality(failures) + (IF how = "success" THEN 0 ELSE 1)
      /\ Cardinality(Succeeded) \in Nat /\ Cardinality(Lost) \in Nat
      /\ Cardinality(failures) \in Nat
  <2>1. /\ Cardinality(Succeeded \cup {r}) = Cardinality(Succeeded) + 1
        /\ Cardinality(Lost \cup {r}) = Cardinality(Lost) + 1
        /\ Cardinality(failures \cup {r}) = Cardinality(failures) + 1
    BY <1>3, Grows
  <2>2. /\ Cardinality(Succeeded) \in Nat /\ Cardinality(Lost) \in Nat
        /\ Cardinality(failures) \in Nat
    BY <1>3, Finite
  <2>3. CASE how = "success"
    <3>1. /\ Succeeded' = Succeeded \cup {r} /\ Lost' = Lost /\ failures' = failures
      BY <1>1, <1>7, <2>3
    <3> QED BY <2>1, <2>2, <2>3, <3>1
  <2>4. CASE how # "success"
    <3>1. /\ Succeeded' = Succeeded /\ Lost' = Lost \cup {r} /\ failures' = failures \cup {r}
      BY <1>1, <1>7, <2>4
    <3> QED BY <2>1, <2>2, <2>4, <3>1
  <2> QED BY <2>3, <2>4
<1>9. /\ Observed' = Observed /\ Plan' = Plan /\ CountsByChange' = CountsByChange
      /\ NeverRead' = NeverRead /\ Gone' = Gone /\ ReadersLost' = ReadersLost
  <2>1. Observed' = Observed /\ Plan' = Plan /\ CountsByChange' = CountsByChange
    BY <1>1 DEF Observed, Plan, CountsByChange, Having
  <2>2. Gone' = Gone
    BY <1>5 DEF Gone, Having
  <2> QED BY <1>1, <2>1, <2>2 DEF NeverRead, ReadersLost
<1>10. TypeInv'
  BY <1>1, <1>2, <1>5, <1>6, <1>9 DEF TypeInv
<1>11. StepInv'
  BY <1>1, <1>9 DEF IInv, StepInv, OnlyVanished
<1>12. DoingInv'
  BY <1>1, <1>5, <1>9 DEF IInv, DoingInv
<1>13. CountInv'
  <2>1. /\ metrics.success \in Nat /\ metrics.failure \in Nat
        /\ metrics.skipped \in Nat /\ issues \in Nat /\ refreshIssues \in Nat
    BY <1>2 DEF TypeInv, Metrics
  <2>2. how \in {"success", "failure", "skipped"}
    BY DEF Outcomes
  <2>3. failures' = unread' \cup Lost'
    BY <1>1, <1>7 DEF IInv, CountInv
  <2>4. issues' = Cardinality(failures') + refreshIssues'
    BY <1>1, <1>8, <2>1 DEF IInv, CountInv
  <2>5. metrics'.failure + metrics'.skipped = Cardinality(Lost')
    BY <1>6, <1>8, <2>1, <2>2 DEF IInv, CountInv
  <2>6. metrics'.success = Cardinality(Succeeded')
    BY <1>6, <1>8 DEF IInv, CountInv
  <2> QED BY <1>1, <1>6, <1>9, <2>3, <2>4, <2>5, <2>6 DEF IInv, CountInv
<1>14. ResultInv'
  BY <1>1 DEF ResultInv
<1> QED BY <1>10, <1>11, <1>12, <1>13, <1>14 DEF IInv

\* What happens to one item of the plan.
LEMMA ItemStep ==
  ASSUME IInv, NEW r \in Universe,
         RunStarts(r) \/ Rereads(r) \/ Attempt(r) \/ DelayEnds(r) \/ Skips(r)
  PROVE  IInv'
<1>1. doing[r] \in {"rereading", "trying", "delay"} =>
         step = "execute" /\ r \in Plan /\ outcome[r] = "none"
  BY DEF IInv, DoingInv
<1>2. CASE RunStarts(r)
  <2>1. /\ step = "execute" /\ r \in Plan /\ outcome[r] = "none" /\ r \notin Busy \cup Gone
        /\ \/ doing' = [doing EXCEPT ![r] = "rereading"]
           \/ doing' = [doing EXCEPT ![r] = "trying"]
        /\ UNCHANGED <<request, step, contextVars, outcome, issueVars, metrics, result>>
    BY <1>2 DEF RunStarts, Waiting
  <2>2. doing[r] = "none"
    BY <2>1 DEF Busy, Gone, Having, IInv, TypeInv, Doings
  <2> QED BY <2>1, <2>2, RunMoves
<1>3. CASE Rereads(r)
  <2>1. /\ doing[r] = "rereading"
        /\ UNCHANGED <<request, step, discovered, scope, deleted, pending, snapshots, unread,
                       planned, plans, impacted, result>>
        /\ \/ /\ UNCHANGED <<change, outcome, issueVars, metrics>>
              /\ \/ doing' = [doing EXCEPT ![r] = "trying"]
                 \/ doing' = [doing EXCEPT ![r] = "vanished"]
           \/ FailResource(r) /\ Records(r, "failure") /\ UNCHANGED change
    BY <1>3 DEF Rereads, ChangeOfPlan, Vanishes
  <2>2. UNCHANGED contextVars
    BY <2>1 DEF contextVars
  <2> QED BY <1>1, <2>1, <2>2, RunMoves, RunEnds DEF Outcomes
<1>4. CASE Attempt(r)
  <2>1. /\ doing[r] = "trying" /\ UNCHANGED <<request, step, contextVars, result>>
        /\ \/ Records(r, "success") /\ UNCHANGED issueVars
           \/ /\ UNCHANGED <<outcome, issueVars, metrics>>
              /\ \/ doing' = [doing EXCEPT ![r] = "delay"]
                 \/ doing' = [doing EXCEPT ![r] = "vanished"]
           \/ Records(r, "failure") /\ FailResource(r)
    BY <1>4 DEF Attempt, Vanishes
  <2> QED BY <1>1, <2>1, RunMoves, RunEnds DEF Outcomes
<1>5. CASE DelayEnds(r)
  BY <1>1, <1>5, RunMoves DEF DelayEnds
<1>6. CASE Skips(r)
  <2>1. /\ step = "execute" /\ r \in Plan /\ outcome[r] = "none" /\ r \notin Busy \cup Gone
        /\ FailResource(r) /\ Records(r, "skipped")
        /\ UNCHANGED <<request, step, contextVars, result>>
    BY <1>6 DEF Skips, Waiting
  <2>2. doing[r] = "none"
    BY <2>1 DEF Busy, Gone, Having, IInv, TypeInv, Doings
  <2> QED BY <2>1, <2>2, RunEnds DEF Outcomes
<1> QED BY <1>2, <1>3, <1>4, <1>5, <1>6

----------------------------------------------------------------------------
(* The stages                                                               *)

\* While there is no plan nothing has an outcome, and nothing runs.
LEMMA NothingRan ==
  ASSUME IInv, ~plans
  PROVE  /\ Plan = {} /\ Succeeded = {} /\ Lost = {} /\ failures = unread
         /\ \A r \in Universe :
               outcome[r] = "none" /\ doing[r] \in {"none", "reading", "vanished"}
         /\ Gone \subseteq pending \ (Observed \cup unread)
<1>1. Plan = {}
  BY DEF IInv, StepInv, Plan
<1>2. \A r \in Universe : outcome[r] = "none" /\ doing[r] \in {"none", "reading", "vanished"}
  BY <1>1 DEF IInv, DoingInv, TypeInv, Doings
<1>3. Gone \subseteq pending \ (Observed \cup unread)
  BY <1>1 DEF IInv, DoingInv, Gone, Having
<1> QED BY <1>1, <1>2, <1>3 DEF Succeeded, Lost, Having, IInv, CountInv

\* Steps before the plan that neither read nor fail a resource.
LEMMA StageStep ==
  ASSUME IInv, ~plans, ~plans', TypeInv', StepInv', step' # "over", step # "over",
         UNCHANGED <<unread, outcome, failures, metrics, deleted, planned, Observed>>,
         \/ UNCHANGED <<issues, refreshIssues>>
         \/ issues' = issues + 1 /\ refreshIssues' = refreshIssues + 1,
         \A r \in Universe :
            /\ doing'[r] \in {"none", "reading", "vanished"}
            /\ doing'[r] = "reading" => step' = "observe"
            /\ doing'[r] # "none" => r \in pending' \ (Observed \cup unread)
  PROVE  IInv'
<1>1. /\ failures = unread /\ Succeeded = {} /\ Lost = {}
      /\ \A r \in Universe : outcome[r] = "none"
  BY NothingRan
<1>2. Succeeded' = {} /\ Lost' = {}
  BY <1>1 DEF Succeeded, Lost, Having
<1>3. DoingInv'
  BY <1>1 DEF DoingInv
<1>4. CountInv'
  <2>1. issues \in Nat /\ refreshIssues \in Nat /\ Cardinality(failures) \in Nat
    BY Finite DEF IInv, TypeInv
  <2> QED BY <1>1, <1>2, <2>1 DEF IInv, CountInv
<1>5. ResultInv'
  BY DEF ResultInv
<1> QED BY <1>3, <1>4, <1>5 DEF IInv

LEMMA LoadOrDiscoverStep == ASSUME IInv, LoadOrDiscover PROVE IInv'
<1>1. /\ step \in {"load", "discover"} /\ step' \in {"discover", "scope", "persist"}
      /\ UNCHANGED <<mode, policy, known, scope, deleted, pending, change, unread, planned,
                     plans, doing, outcome, failures, metrics, result>>
      /\ \/ UNCHANGED <<issues, refreshIssues>> /\ step' # "persist"
         \/ issues' = issues + 1 /\ refreshIssues' = refreshIssues + 1
      /\ discovered' = discovered \/ discovered' \in SUBSET Universe
  BY DEF LoadOrDiscover, Fails, FailRefresh, Steps, issueVars, contextVars, request, runVars
<1>2. /\ scope = {} /\ ~plans /\ deleted = {} /\ planned = {} /\ Busy = {} /\ Gone = {}
      /\ result = NoReport
  BY <1>1 DEF IInv, StepInv
<1>3. Observed' = Observed /\ Busy' = Busy /\ Gone' = Gone /\ Plan' = Plan
  BY <1>1 DEF Observed, Busy, Gone, Having, Plan
<1>4. TypeInv'
  BY <1>1, <1>2, <1>3 DEF IInv, TypeInv, StepNames
<1>5. StepInv'
  BY <1>1, <1>2, <1>3 DEF IInv, StepInv, TypeInv
<1>6. \A r \in Universe : doing'[r] = "none"
  BY <1>1, <1>2 DEF Busy, Gone, Having, IInv, TypeInv, Doings
<1> QED BY <1>1, <1>2, <1>3, <1>4, <1>5, <1>6, StageStep

LEMMA ScopeStep == ASSUME IInv, Scope PROVE IInv'
<1>1. /\ step = "scope"
      /\ UNCHANGED <<mode, policy, known, discovered, deleted, unread, planned, plans,
                     doing, outcome, failures, metrics, result>>
  BY DEF Scope, Fails, FailRefresh, issueVars, contextVars, request, runVars
<1>2. /\ scope = {} /\ ~plans /\ deleted = {} /\ planned = {} /\ Busy = {} /\ Gone = {}
      /\ result = NoReport /\ unread = {} /\ Observed = {} /\ TypeInv
  BY <1>1 DEF IInv, StepInv, TypeInv
<1>3. \A r \in Universe : doing'[r] = "none"
  BY <1>1, <1>2 DEF Busy, Gone, Having, TypeInv, Doings
<1>4. Busy' = {} /\ Gone' = {}
  BY <1>3 DEF Busy, Gone, Having
<1>5. CASE Fails("persist") /\ UNCHANGED contextVars
  <2>1. /\ step' = "persist" /\ issues' = issues + 1 /\ refreshIssues' = refreshIssues + 1
        /\ UNCHANGED <<scope, pending, change>>
    BY <1>5 DEF Fails, FailRefresh, Steps, contextVars
  <2>2. Observed' = Observed
    BY <2>1 DEF Observed, Having
  <2>3. TypeInv' /\ StepInv'
    BY <1>1, <1>2, <1>4, <2>1, <2>2 DEF TypeInv, StepInv, StepNames
  <2> QED BY <1>1, <1>2, <1>3, <2>1, <2>2, <2>3, StageStep
<1>6. ASSUME step' = "observe", UNCHANGED issueVars,
             scope' \in IF mode = "TARGETED" THEN SUBSET discovered ELSE {discovered},
             NEW cheap \in SUBSET (IF RetainAll THEN {} ELSE scope' \cap known),
             pending' = scope' \ cheap,
             NEW found \in [cheap -> {"unchanged", "dependency_changed"}],
             change' = [r \in Universe |-> IF r \in cheap THEN found[r] ELSE "none"]
      PROVE  IInv'
  <2>1. scope' \subseteq discovered /\ (mode # "TARGETED" => scope' = discovered) /\ cheap \subseteq scope'
    BY <1>6
  <2>2. change' \in [Universe -> Changes \cup {"none"}] /\ Observed' = cheap
    <3>1. cheap \subseteq Universe
      BY <1>2, <2>1 DEF TypeInv
    <3> QED BY <1>6, <3>1 DEF Observed, Having, Changes
  <2>3. UNCHANGED <<issues, refreshIssues>>
    BY <1>6 DEF issueVars
  <2>4. TypeInv'
    BY <1>1, <1>2, <1>6, <2>1, <2>2, <2>3 DEF TypeInv, StepNames
  <2>5. StepInv'
    BY <1>1, <1>2, <1>4, <1>6, <2>1, <2>2 DEF StepInv
  <2>6. /\ failures = {} /\ Succeeded = {} /\ Lost = {}
        /\ \A r \in Universe : outcome[r] = "none"
    BY <1>2, NothingRan
  <2>7. Succeeded' = {} /\ Lost' = {}
    BY <1>1, <2>6 DEF Succeeded, Lost, Having
  <2>8. DoingInv'
    BY <1>1, <1>3, <2>6 DEF DoingInv
  <2>9. CountInv' /\ ResultInv'
    BY <1>1, <1>2, <1>6, <2>3, <2>6, <2>7 DEF IInv, CountInv, ResultInv
  <2> QED BY <2>4, <2>5, <2>8, <2>9 DEF IInv
<1> QED BY <1>5, <1>6 DEF Scope, Steps

LEMMA ReadStartsStep == ASSUME IInv, NEW r \in Universe, ReadStarts(r) PROVE IInv'
<1>1. /\ step = "observe" /\ r \in pending \ (Observed \cup unread \cup Busy \cup Gone)
      /\ doing' = [doing EXCEPT ![r] = "reading"]
      /\ UNCHANGED <<mode, policy, known, step, discovered, scope, deleted, pending, change,
                     unread, planned, plans, outcome, failures, issues, refreshIssues, metrics,
                     result>>
  BY DEF ReadStarts, request, contextVars, issueVars
<1>2. ~plans /\ TypeInv
  BY <1>1 DEF IInv, StepInv
<1>3. Observed' = Observed /\ Plan' = Plan
  BY <1>1 DEF Observed, Having, Plan
<1>4. /\ doing' \in [Universe -> Doings \cup {"none", "vanished"}] /\ doing'[r] = "reading"
      /\ \A x \in Universe \ {r} : doing'[x] = doing[x]
  BY <1>1, <1>2 DEF TypeInv, Doings
<1>5. TypeInv'
  BY <1>1, <1>2, <1>3, <1>4 DEF TypeInv
<1>6. StepInv'
  BY <1>1, <1>3 DEF IInv, StepInv
<1>7. \A x \in Universe : /\ doing'[x] \in {"none", "reading", "vanished"}
                          /\ doing'[x] = "reading" => step' = "observe"
                          /\ doing'[x] # "none" => x \in pending' \ (Observed \cup unread)
  <2>1. /\ Plan = {}
        /\ \A x \in Universe : doing[x] \in {"none", "reading", "vanished"}
    BY <1>2, NothingRan
  <2> QED BY <1>1, <1>3, <1>4, <2>1 DEF IInv, DoingInv
<1> QED BY <1>1, <1>2, <1>3, <1>5, <1>6, <1>7, StageStep

LEMMA ReadEndsStep == ASSUME IInv, NEW r \in Universe, ReadEnds(r) PROVE IInv'
<1>1. /\ doing[r] = "reading"
      /\ \/ doing' = [doing EXCEPT ![r] = "none"]
         \/ doing' = [doing EXCEPT ![r] = "vanished"]
      /\ UNCHANGED <<mode, policy, known, step, discovered, scope, deleted, pending, planned,
                     plans, outcome, refreshIssues, result>>
  BY DEF ReadEnds, Vanishes, FailResource, issueVars, request
<1>2. /\ step = "observe" /\ ~plans /\ TypeInv /\ r \in pending /\ r \in scope
      /\ r \notin Observed /\ r \notin unread /\ result = NoReport
  BY <1>1 DEF IInv, StepInv, DoingInv, TypeInv
<1>3. /\ doing' \in [Universe -> Doings \cup {"none", "vanished"}]
      /\ doing'[r] \in {"none", "vanished"}
      /\ doing' = [doing EXCEPT ![r] = "none"] => doing'[r] = "none"
      /\ \A x \in Universe \ {r} : doing'[x] = doing[x]
  BY <1>1, <1>2 DEF TypeInv
<1>4. /\ Plan = {}
      /\ \A x \in Universe : doing[x] \in {"none", "reading", "vanished"} /\ outcome[x] = "none"
  BY <1>2, NothingRan
<1>5. CASE /\ doing' = [doing EXCEPT ![r] = "none"] /\ UNCHANGED <<unread, issueVars, metrics>>
           /\ \E c \in Changes : change' = [change EXCEPT ![r] = c]
  <2>1. PICK c \in Changes : change' = [change EXCEPT ![r] = c]
    BY <1>5
  <2>2. /\ change' \in [Universe -> Changes \cup {"none"}] /\ Observed' = Observed \cup {r}
    BY <1>2, <2>1 DEF TypeInv, Observed, Having
  <2>3. UNCHANGED <<unread, failures, issues, metrics>>
    BY <1>5 DEF issueVars
  <2>4. planned = {} /\ deleted = {}
    BY <1>2 DEF IInv, StepInv
  <2>5. TypeInv'
    BY <1>1, <1>2, <1>3, <2>2, <2>3, <2>4 DEF TypeInv
  <2>6. StepInv'
    BY <1>1, <1>2, <2>2 DEF IInv, StepInv
  <2>7. DoingInv'
    BY <1>1, <1>2, <1>3, <1>4, <1>5, <2>2, <2>3 DEF IInv, DoingInv
  <2>8. Succeeded' = Succeeded /\ Lost' = Lost
    BY <1>1 DEF Succeeded, Lost, Having
  <2>9. CountInv' /\ ResultInv'
    BY <1>1, <1>2, <2>3, <2>8 DEF IInv, CountInv, ResultInv
  <2> QED BY <2>5, <2>6, <2>7, <2>9 DEF IInv
<1>6. CASE /\ doing' = [doing EXCEPT ![r] = "none"]
           /\ unread' = unread \cup {r} /\ FailResource(r) /\ Counts("unread")
           /\ UNCHANGED change
  <2>1. /\ failures' = failures \cup {r} /\ issues' = issues + 1 /\ Observed' = Observed
    BY <1>6 DEF FailResource, Observed, Having
  <2>2. /\ metrics' \in Metrics
        /\ metrics'.refreshes = metrics.refreshes
        /\ metrics'.success = metrics.success /\ metrics'.failure = metrics.failure
        /\ metrics'.skipped = metrics.skipped /\ metrics'.unread = metrics.unread + 1
    BY <1>2, <1>6, CountsOne DEF TypeInv, Metrics
  <2>3. TypeInv'
    BY <1>1, <1>2, <1>3, <2>1, <2>2, <1>6 DEF TypeInv
  <2>4. StepInv'
    BY <1>1, <1>2, <1>6, <2>1 DEF IInv, StepInv
  <2>5. DoingInv'
    BY <1>1, <1>2, <1>3, <1>4, <1>6, <2>1 DEF IInv, DoingInv
  <2>6. /\ Succeeded' = Succeeded /\ Lost' = Lost
        /\ failures = unread /\ Lost = {} /\ r \notin failures
    BY <1>1, <1>2, NothingRan DEF Succeeded, Lost, Having
  <2>7. /\ Cardinality(failures') = Cardinality(failures) + 1
        /\ Cardinality(unread') = Cardinality(unread) + 1
        /\ Cardinality(failures) \in Nat
    BY <1>2, <1>6, <2>1, <2>6, Grows, Finite DEF TypeInv
  <2>8. CountInv' /\ ResultInv'
    <3>1. issues \in Nat /\ refreshIssues \in Nat
      BY <1>2 DEF TypeInv
    <3> QED BY <1>1, <1>2, <1>6, <2>1, <2>2, <2>6, <2>7, <3>1 DEF IInv, CountInv, ResultInv
  <2> QED BY <2>3, <2>4, <2>5, <2>8 DEF IInv
<1>7. \A c : c \in (IF r \in known THEN Changes \ {"added"} ELSE {"added"}) => c \in Changes
  BY DEF Changes
<1>8. \/ /\ doing' = [doing EXCEPT ![r] = "none"] /\ UNCHANGED <<unread, issueVars, metrics>>
         /\ \E c \in IF r \in known THEN Changes \ {"added"} ELSE {"added"} :
               change' = [change EXCEPT ![r] = c]
      \/ /\ doing' = [doing EXCEPT ![r] = "none"]
         /\ unread' = unread \cup {r} /\ FailResource(r) /\ Counts("unread")
         /\ UNCHANGED change
      \/ UNCHANGED <<change, unread, issueVars, metrics>>
  BY DEF ReadEnds
<1>9. CASE UNCHANGED <<change, unread, issueVars, metrics>>
  <2>1. /\ UNCHANGED <<failures, issues, metrics, change, unread>> /\ Observed' = Observed
        /\ Plan' = Plan
    BY <1>1, <1>9 DEF issueVars, Observed, Plan, Having
  <2>2. TypeInv' /\ StepInv'
    BY <1>1, <1>2, <1>3, <2>1 DEF IInv, TypeInv, StepInv
  <2>3. \A x \in Universe : /\ doing'[x] \in {"none", "reading", "vanished"}
                            /\ doing'[x] = "reading" => step' = "observe"
                            /\ doing'[x] # "none" => x \in pending' \ (Observed \cup unread)
    BY <1>1, <1>2, <1>3, <1>4 DEF IInv, DoingInv
  <2> QED BY <1>1, <1>2, <2>1, <2>2, <2>3, StageStep
<1> QED BY <1>5, <1>6, <1>7, <1>8, <1>9

\* The plan, or none because the policy stops the refresh.
LEMMA PlanOrAbortStep == ASSUME IInv, PlanOrAbort PROVE IInv'
<1>1. /\ step = "observe" /\ Busy = {}
      /\ UNCHANGED <<mode, policy, known, discovered, scope, pending, change, unread, doing,
                     outcome, failures, issues, refreshIssues, result>>
      /\ \/ ShouldStop \/ pending \subseteq Observed \cup unread \cup Gone
         \/ Cardinality(Gone) = MaxConcurrency
  BY DEF PlanOrAbort, request, runVars, issueVars, contextVars
<1>2. ~plans /\ TypeInv
  BY <1>1 DEF IInv, StepInv
<1>3. /\ Succeeded = {} /\ Lost = {} /\ failures = unread
      /\ \A r \in Universe : outcome[r] = "none" /\ doing[r] \in {"none", "vanished"}
      /\ Gone \subseteq pending \ (Observed \cup unread)
  <2>1. \A r \in Universe : doing[r] \in {"none", "vanished"}
    BY <1>1, <1>2 DEF Busy, Having, TypeInv, Doings
  <2> QED BY <1>2, <2>1, NothingRan
<1>4. /\ Succeeded' = {} /\ Lost' = {} /\ Observed' = Observed /\ Busy' = {} /\ Gone' = Gone
      /\ ShouldStop' = ShouldStop /\ CountsByChange' = CountsByChange
  BY <1>1, <1>3 DEF Succeeded, Lost, Observed, Busy, Gone, Having, ShouldStop, CountsByChange
<1>5. CASE ShouldStop /\ Steps("persist") /\ UNCHANGED <<contextVars, metrics>>
  <2>1. step' = "persist" /\ UNCHANGED <<deleted, planned, plans, metrics>>
    BY <1>5 DEF Steps, contextVars
  <2>2. TypeInv' /\ StepInv'
    BY <1>1, <1>2, <1>4, <1>5, <2>1 DEF IInv, TypeInv, StepInv, StepNames
  <2>3. \A r \in Universe : doing'[r] # "none" => r \in pending' \ (Observed \cup unread)
    BY <1>1, <1>3 DEF Gone, Having
  <2> QED BY <1>1, <1>2, <1>3, <1>4, <2>1, <2>2, <2>3, StageStep DEF StepInv
<1>6. CASE /\ ~ShouldStop /\ Steps("execute")
           /\ deleted' \in IF mode = "TARGETED" THEN SUBSET (known \ discovered)
                           ELSE {{}, known \ discovered}
           /\ planned' \in Selections /\ plans' = TRUE
           /\ metrics' = [metrics EXCEPT !.detected =
                [changes |-> CountsByChange, deleted |-> Cardinality(deleted')]]
  <2>1. step' = "execute" /\ deleted' \subseteq known \ discovered /\ plans'
    BY <1>6 DEF Steps
  <2>2. planned' \subseteq Observed
    BY <1>2, <1>6 DEF Selections, TypeInv, RefreshModes, RetainAll, Changed, Observed, Having
  <2>3. CountsByChange \in [Changes -> Nat] /\ Cardinality(deleted') \in Nat
    <3>1. \A c \in Changes : Cardinality(Having(change, {c})) \in Nat
      BY Finite DEF Having
    <3>2. deleted' \subseteq Universe
      BY <1>2, <2>1 DEF TypeInv
    <3> QED BY <3>1, <3>2, Finite DEF CountsByChange
  <2>4. /\ metrics' \in Metrics
        /\ metrics'.detected = [changes |-> CountsByChange, deleted |-> Cardinality(deleted')]
        /\ metrics'.refreshes = metrics.refreshes
        /\ metrics'.success = metrics.success /\ metrics'.failure = metrics.failure
        /\ metrics'.skipped = metrics.skipped /\ metrics'.unread = metrics.unread
    <3> DEFINE d == [changes |-> CountsByChange, deleted |-> Cardinality(deleted')]
    <3>1. d \in Detections
      BY <2>3 DEF Detections
    <3>2. metrics \in Metrics /\ metrics' = [metrics EXCEPT !.detected = d]
      BY <1>2, <1>6 DEF TypeInv
    <3> HIDE DEF d
    <3> QED BY <3>1, <3>2 DEF Metrics, d
  <2>5. TypeInv'
    BY <1>1, <1>2, <1>4, <2>1, <2>2, <2>4 DEF TypeInv, StepNames
  <2>6. StepInv'
    <3>1. NeverRead' = NeverRead
      BY <1>1, <1>4 DEF NeverRead
    <3>2. ReadersLost' = Gone
      BY <1>2, <1>3, <1>4, <2>1, <2>2 DEF ReadersLost, Plan, TypeInv
    <3>3. pending \subseteq Observed \cup unread \cup Gone \/ Cardinality(Gone) = MaxConcurrency
      BY <1>1, <1>6
    <3>4. Gone \subseteq NeverRead
      BY <1>2, <1>3 DEF NeverRead, TypeInv
    <3>5. scope \subseteq pending \cup Observed
      BY <1>1 DEF IInv, StepInv
    <3>6. OnlyVanished'
      BY <3>1, <3>2, <3>3, <3>4, <3>5 DEF OnlyVanished, NeverRead
    <3> QED BY <1>1, <1>4, <1>6, <2>1, <3>6 DEF IInv, StepInv
  <2>7. DoingInv'
    BY <1>1, <1>3, <1>4 DEF DoingInv, Gone, Having
  <2>8. CountInv' /\ ResultInv'
    BY <1>1, <1>3, <1>4, <2>1, <2>4 DEF IInv, CountInv, ResultInv
  <2> QED BY <2>5, <2>6, <2>7, <2>8 DEF IInv
<1> QED BY <1>5, <1>6 DEF PlanOrAbort

----------------------------------------------------------------------------
(* The end                                                                  *)

LEMMA ExecutionEndsStep == ASSUME IInv, ExecutionEnds PROVE IInv'
<1>1. /\ step = "execute" /\ step' = "persist" /\ Busy = {}
      /\ ShouldStop \/ RunnersLost # {} \/ \A r \in Plan : outcome[r] # "none"
      /\ UNCHANGED <<mode, policy, known, discovered, scope, deleted, pending, change, snapshots,
                     unread, planned, plans, impacted, doing, outcome, failures, issues,
                     refreshIssues, metrics, result>>
  BY DEF ExecutionEnds, Steps, RunnersLost, request, contextVars, runVars, issueVars
<1>2. /\ Observed' = Observed /\ Succeeded' = Succeeded /\ Lost' = Lost /\ Plan' = Plan
      /\ Gone' = Gone /\ Busy' = Busy /\ Ran' = Ran
      /\ ShouldStop' = ShouldStop /\ CountsByChange' = CountsByChange
  BY <1>1 DEF Observed, Succeeded, Lost, Plan, Gone, Busy, Ran, ShouldStop, CountsByChange, Having
<1>3. \A r \in Universe : doing[r] \in {"none", "vanished"}
  BY <1>1 DEF Busy, Having, IInv, TypeInv, Doings
<1>4. TypeInv'
  BY <1>1, <1>2 DEF IInv, TypeInv, StepNames
<1>5. StepInv'
  <2>1. /\ NeverRead' = NeverRead /\ ReadersLost' = ReadersLost /\ RunnersLost' = RunnersLost
        /\ NeverRun' = NeverRun
    BY <1>1, <1>2 DEF NeverRead, ReadersLost, RunnersLost, NeverRun
  <2>2. ShouldStop \/ RunnersLost # {} \/ NeverRun = {}
    BY <1>1 DEF NeverRun, Ran, Having, Plan, IInv, TypeInv, Outcomes
  <2>3. plans
    BY <1>1 DEF IInv, StepInv
  <2> QED BY <1>1, <1>2, <2>1, <2>2, <2>3 DEF IInv, StepInv, OnlyVanished
<1>6. DoingInv'
  BY <1>1, <1>2, <1>3 DEF IInv, DoingInv
<1>7. CountInv' /\ ResultInv'
  BY <1>1, <1>2 DEF IInv, CountInv, ResultInv
<1> QED BY <1>4, <1>5, <1>6, <1>7 DEF IInv

\* The result and the terminal event, whatever the status.
LEMMA FinishStep ==
  ASSUME IInv, step # "over", NEW status, Finish(status),
         doing' = [r \in Universe |-> IF r \in Gone THEN "vanished" ELSE "none"],
         UNCHANGED <<request, contextVars, outcome>>,
         UNCHANGED issueVars \/ FailRefresh
  PROVE  IInv' /\ step' = "over" /\ result'.status = status
<1>1. /\ step' = "over" /\ Counts("refreshes") /\ result'.status = status
      /\ result'.discovered = Cardinality(discovered) /\ result'.changes = CountsByChange
      /\ result'.deleted = Cardinality(deleted) /\ result'.failed = issues'
      /\ result'.refreshed = Cardinality(Succeeded) /\ result'.executions = Cardinality(Ran)
      /\ plans => result'.skipped = SkippedCount
  BY DEF Finish, Steps, Succeeded, Ran
<1>2. /\ UNCHANGED <<mode, policy, known, discovered, scope, deleted, pending, change, snapshots,
                     unread, planned, plans, impacted, outcome, failures>>
      /\ \/ UNCHANGED <<issues, refreshIssues>>
         \/ issues' = issues + 1 /\ refreshIssues' = refreshIssues + 1
  BY DEF request, contextVars, issueVars, FailRefresh
<1>3. /\ TypeInv /\ doing' \in [Universe -> {"none", "vanished"}]
      /\ \A r \in Universe : doing'[r] = "vanished" <=> r \in Gone
  BY DEF IInv
<1>4. /\ metrics' \in Metrics /\ metrics'.detected = metrics.detected
      /\ metrics'.refreshes = metrics.refreshes + 1
      /\ metrics'.success = metrics.success /\ metrics'.failure = metrics.failure
      /\ metrics'.skipped = metrics.skipped /\ metrics'.unread = metrics.unread
  BY <1>1, <1>3, CountsOne DEF TypeInv, Metrics
<1>5. /\ Observed' = Observed /\ Succeeded' = Succeeded /\ Lost' = Lost /\ Plan' = Plan
      /\ Busy' = {} /\ Gone' = Gone /\ Ran' = Ran /\ SkippedCount' = SkippedCount
      /\ CountsByChange' = CountsByChange
  <2>1. Busy' = {} /\ Gone' = Gone
    BY <1>3 DEF Busy, Gone, Having
  <2> QED BY <1>2, <2>1
      DEF Observed, Succeeded, Lost, Plan, Ran, SkippedCount, CountsByChange, Having
<1>6. TypeInv'
  BY <1>1, <1>2, <1>3, <1>4, <1>5 DEF TypeInv, StepNames
<1>7. StepInv'
  BY <1>1, <1>2, <1>5 DEF IInv, StepInv, OnlyVanished, NeverRead, ReadersLost
<1>8. DoingInv'
  BY <1>2, <1>3, <1>5 DEF IInv, DoingInv, Gone, Having
<1>9. CountInv'
  <2>1. issues \in Nat /\ refreshIssues \in Nat /\ Cardinality(failures) \in Nat
    BY <1>3, Finite DEF TypeInv
  <2> QED BY <1>1, <1>2, <1>4, <1>5, <2>1 DEF IInv, CountInv
<1>10. ResultInv'
  BY <1>1, <1>2, <1>5 DEF ResultInv
<1> QED BY <1>1, <1>6, <1>7, <1>8, <1>9, <1>10 DEF IInv

LEMMA EndStep ==
  ASSUME IInv, Persist \/ Cancelled \/ Raises
  PROVE  IInv' /\ step' = "over"
<1>1. \A r \in Universe : step = "persist" => doing[r] \in {"none", "vanished"}
  BY DEF IInv, StepInv, Busy, Having, TypeInv, Doings
<1>2. step = "persist" =>
        doing = [r \in Universe |-> IF r \in Gone THEN "vanished" ELSE "none"]
  BY <1>1 DEF IInv, TypeInv, Gone, Having
<1>3. CASE Persist
  <2>1. /\ step = "persist" /\ UNCHANGED <<request, contextVars, runVars>>
        /\ \/ UNCHANGED issueVars /\ Finish(Status(issues, refreshIssues > 0))
           \/ FailRefresh /\ Finish(Status(issues + 1, TRUE))
    BY <1>3 DEF Persist
  <2>2. UNCHANGED <<doing, outcome>>
    BY <2>1 DEF runVars
  <2> QED BY <1>2, <2>1, <2>2, FinishStep
<1>4. CASE Cancelled
  BY <1>4, FinishStep DEF Cancelled, Interrupted
<1>5. CASE Raises
  BY <1>5, FinishStep DEF Raises, Interrupted
<1> QED BY <1>3, <1>4, <1>5

LEMMA OverallTimeoutStep == ASSUME IInv, OverallTimeout PROVE IInv'
<1>1. /\ step \notin {"persist", "over"} /\ step' = "persist"
      /\ issues' = issues + 1 /\ refreshIssues' = refreshIssues + 1
      /\ doing' = [r \in Universe |-> IF r \in Gone THEN "vanished" ELSE "none"]
      /\ UNCHANGED <<mode, policy, known, discovered, scope, deleted, pending, change, snapshots,
                     unread, planned, plans, impacted, outcome, failures, metrics, result>>
  BY DEF OverallTimeout, Fails, FailRefresh, Steps, Interrupted, request, contextVars
<1>2. /\ Observed' = Observed /\ Succeeded' = Succeeded /\ Lost' = Lost /\ Plan' = Plan
      /\ Busy' = {} /\ Gone' = Gone /\ CountsByChange' = CountsByChange
  BY <1>1 DEF Observed, Succeeded, Lost, Plan, Busy, Gone, CountsByChange, Having
<1>3. TypeInv
  BY DEF IInv
<1>4. issues \in Nat /\ refreshIssues \in Nat /\ refreshIssues' # 0
  BY <1>1, <1>3 DEF TypeInv
<1>5. TypeInv'
  BY <1>1, <1>2, <1>3, <1>4 DEF TypeInv, StepNames
<1>6. StepInv'
  BY <1>1, <1>2, <1>4 DEF IInv, StepInv, OnlyVanished, NeverRead, ReadersLost
<1>7. DoingInv'
  BY <1>1, <1>2 DEF IInv, DoingInv, Gone, Having
<1>8. CountInv'
  <2>1. Cardinality(failures) \in Nat
    BY <1>3, Finite DEF TypeInv
  <2> QED BY <1>1, <1>2, <1>4, <2>1 DEF IInv, CountInv
<1>9. ResultInv'
  BY <1>1 DEF ResultInv
<1> QED BY <1>5, <1>6, <1>7, <1>8, <1>9 DEF IInv

LEMMA InitStep == ReportInit => IInv
<1> SUFFICES ASSUME ReportInit PROVE IInv
  OBVIOUS
<1>1. /\ step = "load" /\ discovered = {} /\ scope = {} /\ deleted = {} /\ unread = {}
      /\ pending = {} /\ change = [r \in Universe |-> "none"] /\ planned = {} /\ plans = FALSE
      /\ doing = [r \in Universe |-> "none"] /\ outcome = [r \in Universe |-> "none"]
      /\ failures = {} /\ issues = 0 /\ refreshIssues = 0 /\ result = NoReport
      /\ metrics = [refreshes |-> 0, success |-> 0, failure |-> 0, skipped |-> 0,
                    unread |-> 0, detected |-> <<>>]
  BY DEF ReportInit
<1>2. /\ Observed = {} /\ Succeeded = {} /\ Lost = {} /\ Busy = {} /\ Gone = {} /\ Plan = {}
  BY <1>1 DEF Observed, Succeeded, Lost, Busy, Gone, Plan, Having, Changes
<1>3. metrics \in Metrics
  BY <1>1 DEF Metrics, Detections
<1>4. TypeInv
  <2>1. /\ mode \in RefreshModes /\ policy \in {"FAIL_FAST", "BEST_EFFORT"}
        /\ known \subseteq Universe
    BY DEF ReportInit
  <2>2. /\ doing \in [Universe -> Doings \cup {"none", "vanished"}]
        /\ outcome \in [Universe -> Outcomes \cup {"none"}]
        /\ change \in [Universe -> Changes \cup {"none"}]
    BY <1>1
  <2>3. step \in StepNames
    BY <1>1 DEF StepNames
  <2> QED BY <1>1, <1>2, <1>3, <2>1, <2>2, <2>3 DEF TypeInv
<1>5. StepInv /\ DoingInv /\ ResultInv
  BY <1>1, <1>2 DEF StepInv, DoingInv, ResultInv
<1>6. CountInv
  BY <1>1, <1>2, FS_EmptySet DEF CountInv
<1> QED BY <1>4, <1>5, <1>6 DEF IInv

LEMMA RestStep == ASSUME IInv, UNCHANGED reportVars PROVE IInv'
<1>1. UNCHANGED <<mode, policy, known, step, discovered, scope, deleted, pending, change,
                  snapshots, unread, planned, plans, impacted, doing, outcome, failures, issues, refreshIssues,
                  metrics, result>>
  BY DEF reportVars, contextVars, runVars, issueVars
<1>2. /\ Observed' = Observed /\ Succeeded' = Succeeded /\ Lost' = Lost /\ Plan' = Plan
      /\ Gone' = Gone /\ Busy' = Busy /\ Ran' = Ran /\ SkippedCount' = SkippedCount
      /\ ShouldStop' = ShouldStop /\ CountsByChange' = CountsByChange
  BY <1>1 DEF Observed, Succeeded, Lost, Plan, Gone, Busy, Ran, SkippedCount, ShouldStop,
              CountsByChange, Having
<1>3. TypeInv' /\ StepInv' /\ DoingInv'
  BY <1>1, <1>2
  DEF IInv, TypeInv, StepInv, DoingInv, OnlyVanished, NeverRead, ReadersLost, RunnersLost, NeverRun
<1>4. CountInv' /\ ResultInv'
  BY <1>1, <1>2 DEF IInv, CountInv, ResultInv
<1> QED BY <1>3, <1>4 DEF IInv

\* Only these steps end a refresh, and none follows.
LEMMA NextStep ==
  ASSUME IInv, [ReportNext]_reportVars
  PROVE  /\ IInv'
         /\ \/ step' # "over"
            \/ step # "over" /\ (Persist \/ Cancelled \/ Raises)
            \/ UNCHANGED reportVars
<1>1. ASSUME NEW r \in Universe, ReadStarts(r) \/ ReadEnds(r)
      PROVE  IInv' /\ step' # "over"
  BY <1>1, ReadStartsStep, ReadEndsStep DEF ReadStarts, ReadEnds, IInv, DoingInv
<1>2. ASSUME NEW r \in Universe,
             RunStarts(r) \/ Rereads(r) \/ Attempt(r) \/ DelayEnds(r) \/ Skips(r)
      PROVE  IInv' /\ step' # "over"
  <2>1. step = "execute" /\ step' = step
    BY <1>2 DEF RunStarts, Rereads, Attempt, DelayEnds, Skips, Waiting, IInv, DoingInv
  <2> QED BY <1>2, <2>1, ItemStep
<1>3. CASE LoadOrDiscover \/ Scope \/ PlanOrAbort \/ ExecutionEnds \/ OverallTimeout
  <2>1. step' # "over"
    BY <1>3 DEF LoadOrDiscover, Scope, PlanOrAbort, ExecutionEnds, OverallTimeout, Fails, Steps
  <2> QED BY <1>3, <2>1, LoadOrDiscoverStep, ScopeStep, PlanOrAbortStep, ExecutionEndsStep,
             OverallTimeoutStep
<1>4. CASE Persist \/ Cancelled \/ Raises
  <2>1. step # "over"
    BY <1>4 DEF Persist, Cancelled, Raises
  <2> QED BY <1>4, <2>1, EndStep
<1>5. CASE UNCHANGED reportVars
  BY <1>5, RestStep
<1> QED BY <1>1, <1>2, <1>3, <1>4, <1>5 DEF ReportNext

\* The invariant holds in every state: what each stage has done when the next
\* begins, and that every failure, outcome and error is counted once.
THEOREM InductiveInvariant == ReportSpec => []IInv
<1>1. IInv /\ [ReportNext]_reportVars => IInv'
  BY NextStep
<1> QED BY <1>1, InitStep, PTL DEF ReportSpec

----------------------------------------------------------------------------
(* What the report of a refresh says                                        *)

\* Only a refresh that is over has a report, and then every set it counts is of
\* resources, and every operation either succeeded or was lost.
LEMMA ReportFacts ==
  ASSUME IInv, Reported
  PROVE  /\ step = "over"
         /\ Ran = Succeeded \cup Lost /\ Succeeded \cap Lost = {} /\ Ran \subseteq Plan
         /\ Succeeded \subseteq Universe /\ Lost \subseteq Universe /\ unread \subseteq Universe
         /\ Observed \subseteq Universe /\ planned \subseteq Universe
         /\ discovered \subseteq Universe /\ deleted \subseteq Universe
         /\ Cardinality(Succeeded) \in Nat /\ Cardinality(Lost) \in Nat
         /\ Cardinality(unread) \in Nat /\ Cardinality(failures) \in Nat
         /\ Gone \cap (failures \cup Ran) = {}
<1>1. step = "over"
  BY DEF IInv, StepInv, Reported
<1>2. Ran = Succeeded \cup Lost /\ Succeeded \cap Lost = {}
  BY DEF Ran, Succeeded, Lost, Having
<1>3. Ran \subseteq Plan
  BY DEF Ran, Having, IInv, DoingInv
<1>4. /\ Succeeded \subseteq Universe /\ Lost \subseteq Universe /\ unread \subseteq Universe
      /\ Observed \subseteq Universe /\ planned \subseteq Universe
      /\ discovered \subseteq Universe /\ deleted \subseteq Universe /\ failures \subseteq Universe
  BY DEF Succeeded, Lost, Observed, Having, IInv, TypeInv
<1>5. Gone \cap (failures \cup Ran) = {}
  <2> SUFFICES ASSUME NEW r \in Gone PROVE r \notin failures /\ r \notin Ran
    OBVIOUS
  <2>1. /\ failures = unread \cup Lost /\ Lost \subseteq Ran /\ r \in Universe
    BY DEF IInv, CountInv, Gone, Lost, Ran, Having
  <2>2. \/ r \in Plan /\ outcome[r] = "none"
        \/ r \in pending \ (Observed \cup unread)
    BY <2>1 DEF IInv, DoingInv, Gone, Having
  <2>3. r \notin unread /\ r \notin Ran
    BY <1>3, <2>2 DEF IInv, TypeInv, Plan, Ran, Having
  <2> QED BY <2>1, <2>3
<1> QED BY <1>1, <1>2, <1>3, <1>4, <1>5, Finite

\* The four changes divide the resources that were observed.
LEMMA ObservedCounted ==
  /\ Cardinality(Observed) =
       Cardinality(Having(change, {"added"})) + Cardinality(Having(change, {"modified"}))
         + Cardinality(Having(change, {"dependency_changed"}))
         + Cardinality(Having(change, {"unchanged"}))
  /\ \A c \in Changes : Cardinality(Having(change, {c})) \in Nat
<1> DEFINE A == Having(change, {"added"})
           M == Having(change, {"modified"})
           D == Having(change, {"dependency_changed"})
           U == Having(change, {"unchanged"})
<1>1. /\ A \subseteq Universe /\ M \subseteq Universe /\ D \subseteq Universe /\ U \subseteq Universe
      /\ A \cup M \subseteq Universe /\ (A \cup M) \cup D \subseteq Universe
  BY DEF Having
<1>2. A \cap M = {} /\ (A \cup M) \cap D = {} /\ ((A \cup M) \cup D) \cap U = {}
  BY DEF Having
<1>3. Observed = ((A \cup M) \cup D) \cup U
  BY DEF Observed, Having, Changes
<1>4. \A c \in Changes : Having(change, {c}) \subseteq Universe
  BY DEF Having
<1>5. \A c \in Changes : Cardinality(Having(change, {c})) \in Nat
  BY <1>4, Finite
<1> HIDE DEF A, M, D, U
<1>6. Cardinality(A \cup M) = Cardinality(A) + Cardinality(M)
  BY <1>1, <1>2, Adds
<1>7. Cardinality((A \cup M) \cup D) = Cardinality(A \cup M) + Cardinality(D)
  BY <1>1, <1>2, Adds
<1>8. Cardinality(Observed) = Cardinality((A \cup M) \cup D) + Cardinality(U)
  BY <1>1, <1>2, <1>3, Adds
<1>9. Cardinality(Observed) = Cardinality(A) + Cardinality(M) + Cardinality(D) + Cardinality(U)
  BY <1>6, <1>7, <1>8
<1> QED BY <1>5, <1>9 DEF A, M, D, U

LEMMA AddsUp == ASSUME IInv PROVE ResultAdds
<1> SUFFICES ASSUME Reported PROVE ResultAdds
  BY DEF ResultAdds
<1>1. /\ step = "over"
      /\ Ran = Succeeded \cup Lost /\ Succeeded \cap Lost = {} /\ Ran \subseteq Plan
      /\ Succeeded \subseteq Universe /\ Lost \subseteq Universe /\ unread \subseteq Universe
      /\ Observed \subseteq Universe /\ planned \subseteq Universe
      /\ discovered \subseteq Universe /\ deleted \subseteq Universe
      /\ Cardinality(Succeeded) \in Nat /\ Cardinality(Lost) \in Nat
      /\ Cardinality(unread) \in Nat /\ Cardinality(failures) \in Nat
      /\ Gone \cap (failures \cup Ran) = {}
  BY ReportFacts
<1>2. /\ result.discovered = Cardinality(discovered) /\ result.changes = CountsByChange
      /\ result.refreshed = Cardinality(Succeeded) /\ result.executions = Cardinality(Ran)
      /\ plans => result.skipped = SkippedCount
      /\ result.failed = issues
  BY <1>1 DEF IInv, ResultInv
<1>3. /\ failures = unread \cup Lost /\ issues = Cardinality(failures) + refreshIssues
      /\ refreshIssues \in Nat
  BY DEF IInv, CountInv, TypeInv
<1>4. unread \cap Plan = {} /\ planned \cap unread = {} /\ planned \cup unread \subseteq discovered
  BY DEF IInv, TypeInv, Plan
<1>5. unread \cap Ran = {} /\ unread \cap Lost = {}
  BY <1>1, <1>4
<1>6. result.executions = result.refreshed + Cardinality(Lost)
  BY <1>1, <1>2, Adds
<1>7. Cardinality(failures) = Cardinality(unread) + Cardinality(Lost)
  BY <1>1, <1>3, <1>5, Adds
<1>8. /\ result.refreshed <= result.executions
      /\ result.executions - result.refreshed + Cardinality(unread) <= result.failed
  BY <1>1, <1>2, <1>3, <1>6, <1>7
<1>9. ASSUME plans, mode # "TARGETED"
      PROVE  result.discovered = Cardinality(unread) + Cardinality(NeverRead)
               + result.changes["added"] + result.changes["modified"]
               + result.changes["dependency_changed"] + result.changes["unchanged"]
  <2>1. /\ discovered = (Observed \cup unread) \cup NeverRead /\ Observed \cap unread = {}
        /\ (Observed \cup unread) \cap NeverRead = {}
        /\ Observed \cup unread \subseteq Universe /\ NeverRead \subseteq Universe
    BY <1>9 DEF IInv, TypeInv, StepInv, NeverRead
  <2>2. Cardinality(discovered) = Cardinality(Observed) + Cardinality(unread)
                                    + Cardinality(NeverRead)
    <3>1. Cardinality(discovered) = Cardinality(Observed \cup unread) + Cardinality(NeverRead)
      BY <2>1, Adds
    <3>2. Cardinality(Observed \cup unread) = Cardinality(Observed) + Cardinality(unread)
      BY <1>1, <2>1, Adds
    <3> QED BY <3>1, <3>2
  <2>3. \A c \in Changes : result.changes[c] = Cardinality(Having(change, {c}))
    BY <1>2 DEF CountsByChange
  <2>4. {"added", "modified", "dependency_changed", "unchanged"} \subseteq Changes
    BY DEF Changes
  <2>5. /\ result.changes["added"] = Cardinality(Having(change, {"added"}))
        /\ result.changes["modified"] = Cardinality(Having(change, {"modified"}))
        /\ result.changes["dependency_changed"] = Cardinality(Having(change, {"dependency_changed"}))
        /\ result.changes["unchanged"] = Cardinality(Having(change, {"unchanged"}))
    BY <2>3, <2>4
  <2>6. /\ Cardinality(Having(change, {"added"})) \in Nat
        /\ Cardinality(Having(change, {"modified"})) \in Nat
        /\ Cardinality(Having(change, {"dependency_changed"})) \in Nat
        /\ Cardinality(Having(change, {"unchanged"})) \in Nat
    BY <2>4, ObservedCounted
  <2>7. Cardinality(NeverRead) \in Nat
    BY <2>1, Finite
  <2> QED BY <1>1, <1>2, <2>2, <2>5, <2>6, <2>7, ObservedCounted
<1>10. ASSUME plans PROVE result.skipped = Cardinality(discovered \ (planned \cup unread))
  <2> DEFINE rest == discovered \ (planned \cup unread)
  <2>1. /\ rest \subseteq Universe /\ planned \cup unread \subseteq Universe
        /\ rest \cap (planned \cup unread) = {} /\ discovered = rest \cup (planned \cup unread)
    BY <1>1, <1>4
  <2>2. Cardinality(discovered) = Cardinality(rest) + Cardinality(planned \cup unread)
    BY <2>1, Adds
  <2>3. Cardinality(planned \cup unread) = Cardinality(planned) + Cardinality(unread)
    BY <1>1, <1>4, Adds
  <2>4. Cardinality(rest) \in Nat /\ Cardinality(planned) \in Nat
    BY <1>1, <2>1, Finite
  <2> QED BY <1>1, <1>2, <1>10, <2>2, <2>3, <2>4 DEF SkippedCount
<1>11. failures = unread \cup Having(outcome, {"failure", "skipped"})
  BY <1>3 DEF Lost
<1>12. result.failed = Cardinality(failures) + refreshIssues
  BY <1>2, <1>3
<1>13. plans => NeverRead = ReadersLost \/ Cardinality(ReadersLost) = MaxConcurrency
  BY DEF IInv, StepInv, OnlyVanished
<1> QED BY <1>1, <1>5, <1>8, <1>9, <1>10, <1>11, <1>12, <1>13 DEF ResultAdds

\* However a refresh ends, its result adds up: no resource has two errors, an
\* operation that ended has one exactly if it did not succeed, and discovered,
\* changed and skipped resources are counted so that nothing is counted twice, and
\* only that is left out whose worker vanished, or for which no worker was left.
THEOREM ResultAddsHolds == ReportSpec => []ResultAdds
<1>1. IInv => ResultAdds
  BY AddsUp
<1> QED BY <1>1, InductiveInvariant, PTL

----------------------------------------------------------------------------
(* What the status of a refresh means                                       *)

\* The meaning that StatusMeans gives to the status of a report.
Means(status) ==
    /\ status \in {"SUCCESS", "PARTIAL", "FAILED", "CANCELLED"}
    /\ status = "SUCCESS" =>
         Complete /\ unread = {} /\ \A r \in Ran : outcome[r] = "success"
    /\ status = "PARTIAL" =>
         Complete /\ failures # {} /\ ~(InScope \subseteq failures)
    /\ status = "FAILED" =>
         \/ refreshIssues > 0 \/ policy = "FAIL_FAST"
         \/ InScope # {} /\ InScope \subseteq failures

\* When every stage is over, the count of issues tells what the status means:
\* the failures are all in scope, so they are as many only if they are the same.
LEMMA PersistMeans ==
  ASSUME IInv, step = "persist"
  PROVE  Means(Status(issues, refreshIssues > 0))
<1> DEFINE inScope == scope \cup deleted
           status == Status(issues, refreshIssues > 0)
<1>1. /\ failures = unread \cup Lost /\ issues = Cardinality(failures) + refreshIssues
      /\ issues \in Nat /\ refreshIssues \in Nat /\ policy \in {"FAIL_FAST", "BEST_EFFORT"}
      /\ failures \subseteq Universe /\ scope \subseteq Universe /\ deleted \subseteq Universe
      /\ scope \cap deleted = {}
  BY DEF IInv, TypeInv, CountInv
<1>2. Cardinality(failures) \in Nat /\ IsFiniteSet(inScope) /\ Cardinality(inScope) \in Nat
  BY <1>1, Finite
<1>3. Cardinality(inScope) = Cardinality(scope) + Cardinality(deleted)
  BY <1>1, Adds
<1>4. Lost \subseteq Plan /\ unread \subseteq scope /\ Plan \subseteq inScope
  BY DEF IInv, TypeInv, DoingInv, Lost, Having, Plan
<1>5. failures \subseteq inScope
  BY <1>1, <1>4
<1>6. ASSUME refreshIssues = 0, ~ShouldStop
      PROVE  Complete
  <2>1. plans /\ (NeverRun = {} \/ RunnersLost # {})
    BY <1>6 DEF IInv, StepInv
  <2>2. NeverRead = ReadersLost \/ Cardinality(ReadersLost) = MaxConcurrency
    BY <2>1 DEF IInv, StepInv, OnlyVanished
  <2>3. ReadersLost = {} => Cardinality(ReadersLost) # MaxConcurrency
    BY ReportConstants, FS_EmptySet
  <2> QED BY <2>1, <2>2, <2>3 DEF Complete
<1>7. CASE issues = 0
  <2>1. refreshIssues = 0 /\ Cardinality(failures) = 0 /\ ~ShouldStop
    BY <1>1, <1>2, <1>7 DEF ShouldStop
  <2>2. failures = {} /\ unread = {} /\ Lost = {}
    BY <1>1, <2>1, Finite, FS_EmptySet
  <2>3. \A r \in Ran : outcome[r] = "success"
    BY <2>2 DEF Ran, Lost, Having
  <2>4. status = "SUCCESS"
    BY <1>7 DEF Status
  <2> QED BY <1>6, <2>1, <2>2, <2>3, <2>4 DEF Means
<1>8. CASE issues # 0 /\ (refreshIssues > 0 \/ policy = "FAIL_FAST")
  <2>1. status = "FAILED"
    BY <1>8 DEF Status
  <2> QED BY <1>8, <2>1 DEF Means
<1>9. CASE issues # 0 /\ ~(refreshIssues > 0 \/ policy = "FAIL_FAST")
  <2>1. /\ refreshIssues = 0 /\ ~ShouldStop /\ Complete
        /\ Cardinality(failures) # 0
    BY <1>1, <1>2, <1>6, <1>9 DEF ShouldStop
  <2>2. failures # {} /\ inScope # {}
    BY <1>5, <2>1, FS_EmptySet
  <2>3. status = IF Cardinality(failures) < Cardinality(inScope) THEN "PARTIAL" ELSE "FAILED"
    BY <1>3, <1>9 DEF Status, BestEffortStatus
  <2>4. CASE Cardinality(failures) < Cardinality(inScope)
    <3>1. inScope # failures
      BY <1>2, <2>4
    <3> QED BY <1>5, <2>1, <2>2, <2>3, <2>4, <3>1 DEF Means, InScope
  <2>5. CASE ~(Cardinality(failures) < Cardinality(inScope))
    <3>1. Cardinality(failures) = Cardinality(inScope)
      BY <1>2, <1>5, <2>5, FS_Subset
    <3>2. failures = inScope
      BY <1>2, <1>5, <3>1, FS_Subset
    <3> QED BY <2>2, <2>3, <2>5, <3>2 DEF Means, InScope
  <2> QED BY <2>4, <2>5
<1> QED BY <1>7, <1>8, <1>9

\* How a refresh ends: what it worked on stays, and it is cancelled, has failed
\* as a whole, or ends as its issues tell.
LEMMA Endings ==
  ASSUME IInv, Persist \/ Cancelled \/ Raises
  PROVE  /\ UNCHANGED <<policy, scope, deleted, change, unread, planned, plans, outcome,
                        failures, Gone>>
         /\ \/ result'.status = "CANCELLED"
            \/ result'.status = "FAILED" /\ refreshIssues' > 0
            \/ /\ step = "persist" /\ UNCHANGED refreshIssues
               /\ result'.status = Status(issues, refreshIssues > 0)
<1>1. UNCHANGED <<policy, scope, deleted, change, unread, planned, plans, outcome, failures, Gone>>
  <2>1. UNCHANGED <<policy, scope, deleted, change, unread, planned, plans, outcome, failures>>
    BY DEF Persist, Cancelled, Raises, request, contextVars, runVars, issueVars, FailRefresh
  <2>2. doing' = doing \/ doing' = [r \in Universe |-> IF r \in Gone THEN "vanished" ELSE "none"]
    BY DEF Persist, Cancelled, Raises, runVars, Interrupted
  <2>3. Gone' = Gone
    BY <2>2 DEF Gone, Having
  <2> QED BY <2>1, <2>3
<1>2. issues \in Nat /\ refreshIssues \in Nat
  BY DEF IInv, TypeInv
<1>3. Status(issues + 1, TRUE) = "FAILED"
  BY <1>2 DEF Status
<1>4. CASE Persist
  <2>1. \/ UNCHANGED refreshIssues /\ Finish(Status(issues, refreshIssues > 0))
        \/ refreshIssues' = refreshIssues + 1 /\ Finish(Status(issues + 1, TRUE))
    BY <1>4 DEF Persist, issueVars, FailRefresh
  <2>2. step = "persist"
    BY <1>4 DEF Persist
  <2>3. CASE UNCHANGED refreshIssues /\ Finish(Status(issues, refreshIssues > 0))
    BY <1>1, <2>2, <2>3 DEF Finish
  <2>4. CASE refreshIssues' = refreshIssues + 1 /\ Finish(Status(issues + 1, TRUE))
    <3>1. result'.status = Status(issues + 1, TRUE)
      BY <2>4 DEF Finish
    <3>2. refreshIssues' > 0
      BY <1>2, <2>4
    <3> QED BY <1>1, <1>3, <3>1, <3>2
  <2> QED BY <2>1, <2>3, <2>4
<1>5. CASE Cancelled
  BY <1>1, <1>5 DEF Cancelled, Finish
<1>6. CASE Raises
  <2>1. refreshIssues' = refreshIssues + 1 /\ Finish(Status(issues + 1, TRUE))
    BY <1>6 DEF Raises, FailRefresh
  <2>2. result'.status = Status(issues + 1, TRUE)
    BY <2>1 DEF Finish
  <2>3. refreshIssues' > 0
    BY <1>2, <2>1
  <2> QED BY <1>1, <1>3, <2>2, <2>3
<1> QED BY <1>4, <1>5, <1>6

ReportMeans == Reported => Means(result.status)

\* A report is written once, by the step that ends the refresh.
LEMMA ReportMeansStep ==
  ASSUME IInv, ReportMeans, [ReportNext]_reportVars
  PROVE  ReportMeans'
<1>1. IInv' /\ (step' # "over" => ~Reported')
  BY NextStep DEF IInv, StepInv, Reported
<1>2. CASE step' # "over"
  BY <1>1, <1>2 DEF ReportMeans
<1>3. CASE step # "over" /\ (Persist \/ Cancelled \/ Raises)
  <2>1. /\ UNCHANGED <<policy, scope, deleted, change, unread, planned, plans, outcome,
                       failures, Gone>>
        /\ \/ result'.status = "CANCELLED"
           \/ result'.status = "FAILED" /\ refreshIssues' > 0
           \/ /\ step = "persist" /\ UNCHANGED refreshIssues
              /\ result'.status = Status(issues, refreshIssues > 0)
    BY <1>3, Endings
  <2>2. CASE result'.status = "CANCELLED"
    BY <2>2 DEF ReportMeans, Means
  <2>3. CASE result'.status = "FAILED" /\ refreshIssues' > 0
    BY <2>3 DEF ReportMeans, Means
  <2>4. CASE /\ step = "persist" /\ UNCHANGED refreshIssues
             /\ result'.status = Status(issues, refreshIssues > 0)
    <3>1. Means(result'.status)
      BY <2>4, PersistMeans
    <3>2. Ran' = Ran /\ Complete' = Complete /\ InScope' = InScope
      <4>1. Ran' = Ran /\ Plan' = Plan /\ Observed' = Observed
        BY <2>1 DEF Ran, Plan, Observed, Having
      <4> QED BY <2>1, <4>1
          DEF Complete, NeverRead, NeverRun, ReadersLost, RunnersLost, InScope
    <3> QED BY <2>1, <2>4, <3>1, <3>2 DEF ReportMeans, Means
  <2> QED BY <2>1, <2>2, <2>3, <2>4
<1>4. CASE UNCHANGED reportVars
  <2>1. /\ UNCHANGED <<policy, scope, deleted, change, unread, planned, plans, doing, outcome,
                       failures, refreshIssues, result>>
    BY <1>4 DEF reportVars, contextVars, runVars, issueVars
  <2>2. Ran' = Ran /\ Complete' = Complete /\ InScope' = InScope
    <3>1. Ran' = Ran /\ Plan' = Plan /\ Observed' = Observed /\ Gone' = Gone
      BY <2>1 DEF Ran, Plan, Observed, Gone, Having
    <3> QED BY <2>1, <3>1 DEF Complete, NeverRead, NeverRun, ReadersLost, RunnersLost, InScope
  <2> QED BY <2>1, <2>2 DEF ReportMeans, Means, Reported
<1> QED BY <1>2, <1>3, <1>4, NextStep

\* The status of a report means what RefreshStatus says, but for what a vanished
\* worker left: SUCCESS, that everything in scope was observed and every operation
\* succeeded; PARTIAL, that some failed and some in scope did not; FAILED, that the
\* refresh or all in scope failed.
THEOREM StatusMeansHolds == ReportSpec => []StatusMeans
<1>1. ReportInit => ReportMeans
  BY DEF ReportInit, ReportMeans, Reported
<1>2. IInv /\ ReportMeans /\ [ReportNext]_reportVars => ReportMeans'
  BY ReportMeansStep
<1>3. ReportMeans => StatusMeans
  BY DEF ReportMeans, Means, StatusMeans
<1> QED BY <1>1, <1>2, <1>3, InductiveInvariant, PTL DEF ReportSpec

----------------------------------------------------------------------------
(* What the metrics say                                                     *)

\* The metrics agree with the result: each error is counted once, as a failed or
\* skipped operation, a failed snapshot, or one of the refresh, and the changes as
\* the result counts them.
THEOREM MetricsAgreeHolds == ReportSpec => []MetricsAgree
<1>1. IInv => MetricsAgree
  <2> SUFFICES ASSUME IInv, Reported PROVE MetricsAgree
    BY DEF MetricsAgree
  <2>1. /\ step = "over" /\ Ran \subseteq Plan /\ Ran = Succeeded \cup Lost
        /\ Cardinality(Lost) \in Nat /\ Cardinality(unread) \in Nat
        /\ Cardinality(failures) \in Nat
        /\ unread \subseteq Universe /\ Lost \subseteq Universe
    BY ReportFacts
  <2>2. metrics \in Metrics /\ refreshIssues \in Nat
    BY DEF IInv, TypeInv
  <2>3. /\ metrics.refreshes = 1 /\ metrics.unread = Cardinality(unread)
        /\ metrics.success = Cardinality(Succeeded)
        /\ metrics.failure + metrics.skipped = Cardinality(Lost)
        /\ failures = unread \cup Lost /\ issues = Cardinality(failures) + refreshIssues
        /\ plans => metrics.detected =
                      [changes |-> CountsByChange, deleted |-> Cardinality(deleted)]
    BY <2>1 DEF IInv, CountInv
  <2>4. /\ result.changes = CountsByChange /\ result.deleted = Cardinality(deleted)
        /\ result.refreshed = Cardinality(Succeeded) /\ result.failed = issues
    BY <2>1 DEF IInv, ResultInv
  <2>5. unread \cap Lost = {}
    BY <2>1 DEF IInv, TypeInv, Plan
  <2>6. Cardinality(failures) = Cardinality(unread) + Cardinality(Lost)
    BY <2>1, <2>3, <2>5, Adds
  <2>7. metrics.failure \in Nat /\ metrics.skipped \in Nat
    BY <2>2 DEF Metrics
  <2>8. metrics.failure + metrics.skipped + metrics.unread + refreshIssues = result.failed
    BY <2>1, <2>2, <2>3, <2>4, <2>6, <2>7
  <2> QED BY <2>3, <2>4, <2>8 DEF MetricsAgree
<1> QED BY <1>1, InductiveInvariant, PTL
=============================================================================
