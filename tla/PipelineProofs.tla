--------------------------- MODULE PipelineProofs ---------------------------
(***************************************************************************)
(* Proofs about Pipeline, for every set of resources, whatever they depend *)
(* on, and any number of refreshes, edits and faults: what the store       *)
(* claims was earned, SUCCESS is current and leaves nothing built from an  *)
(* output that changed, what was planned and not done is seen by the next  *)
(* refresh, and nothing existing is deleted.                               *)
(***************************************************************************)
EXTENDS Pipeline, TLAPS

----------------------------------------------------------------------------
(* The inductive invariant                                                  *)

\* What is empty, and when; an item is done after all that come before it, and
\* every deletion is an item.
PhaseInv ==
    /\ failFast \in Policies
    /\ phase = "idle" => DOMAIN discovered = {}
    /\ phase \in {"idle", "observing"} =>
         DOMAIN before = {} /\ deleted = {} /\ done = {}
    /\ \A r \in done : before[r] \subseteq done
    /\ deleted \subseteq DOMAIN before

\* What resource r is, or was before its content or its dependencies grew to
\* what they are.
Was(s, r) == s.fp <= body[r] /\ (s.fp = body[r] => s.deps \subseteq deps[r])

\* What is stored or observed of a resource is what it was once, and no newer
\* than its indicator; an observation is not older than what is stored.
PastInv ==
    /\ \A r \in DOMAIN store : Was(store[r], r) /\ store[r].ind <= store[r].fp
    /\ \A r \in DOMAIN obs : Was(obs[r], r) /\ obs[r].ind <= obs[r].fp
    /\ \A r \in DOMAIN discovered : discovered[r] <= body[r]
    /\ \A r \in DOMAIN obs \cap DOMAIN store :
         /\ store[r].fp <= obs[r].fp
         /\ store[r].fp = obs[r].fp => store[r].deps \subseteq obs[r].deps

\* What is stored says that r is as it is now.
Current(r) == store[r].fp = body[r] /\ store[r].deps = deps[r]

Due == owed \ unmarked

\* A change that was classified stays one until it is stored, and so does what
\* is owed and has, or needs, no marker.
ChangeInv ==
    /\ \A r \in DOMAIN obs \ DOMAIN before : obs[r].change = Classify(r, obs[r].fp, obs[r].deps)
    /\ \A r \in DOMAIN obs \cap DOMAIN store : obs[r].change # "UNCHANGED" => ~Current(r)
    /\ ~failFast => \A r \in Due \cap present \cap DOMAIN store : ~Current(r)

\* State is earned, and what is done is what was observed.
EarnedInv ==
    /\ StateIsEarned
    /\ \A r \in done \ deleted : built[r] = obs[r].fp /\ used[r] = obs[r].deps

\* A complete discovery missed only what was absent, and what is present now
\* has changed since; without one nothing is deleted.
GoneInv ==
    IF phase # "idle" /\ complete
    THEN \A r \in DOMAIN store \ DOMAIN discovered : r \in present => store[r].fp # body[r]
    ELSE deleted = {}

\* While no resource changes, the refresh knows them as they are, but for the
\* dependencies of those that it took from the store and did not refresh.
QuietInv ==
    phase # "idle" /\ quiet =>
        /\ complete => DOMAIN discovered = present
        /\ \A r \in DOMAIN obs :
             /\ obs[r].fp = body[r]
             /\ \/ obs[r].deps = deps[r]
                \/ Unread(request) /\ Veiled(r) /\ obs[r] = Cheaply(r) /\ r \notin done

\* Nothing that was discovered is lost on the way to the plan, and nothing
\* that changed is left out of it.
PlannedInv ==
    /\ phase # "idle" /\ request.mode # "TARGETED" =>
         DOMAIN discovered \subseteq DOMAIN obs \cup pending \cup failures
    /\ phase = "executing" \/ (phase = "persisting" /\ failures = {} /\ ~broken) =>
         /\ pending = {}
         /\ request.mode # "TARGETED" => Changed(obs) \subseteq DOMAIN before
         /\ request.mode # "TARGETED" /\ complete => deleted = DOMAIN store \ DOMAIN discovered
    /\ phase = "persisting" /\ failures = {} /\ ~broken => DOMAIN before \subseteq done

IInv == /\ TypeOK /\ PhaseInv /\ PastInv /\ ChangeInv
        /\ EarnedInv /\ GoneInv /\ QuietInv /\ PlannedInv

----------------------------------------------------------------------------
(* What is read, and what is given to an operation                          *)

LEMMA ClassifyType ==
  ASSUME NEW r, NEW fp, NEW ds
  PROVE  /\ Classify(r, fp, ds) \in Changes
         /\ Classify(r, fp, ds) = "UNCHANGED" <=>
              r \in DOMAIN store /\ store[r].fp = fp /\ store[r].deps = ds
BY DEF Classify, Changes

LEMMA ReadingType ==
  ASSUME TypeOK, NEW r \in Ids, NEW ind \in Versions \cup {Nothing}
  PROVE  /\ Reading(r, ind) \in Observation
         /\ Reading(r, ind).fp = body[r] /\ Reading(r, ind).deps = deps[r]
         /\ Reading(r, ind).ind = ind
         /\ Reading(r, ind).change = Classify(r, body[r], deps[r])
<1>1. Classify(r, body[r], deps[r]) \in Changes
  BY ClassifyType
<1>2. (~Unread(request) \/ Classify(r, body[r], deps[r]) # "UNCHANGED") \in BOOLEAN
  OBVIOUS
<1>3. body[r] \in Versions /\ deps[r] \subseteq Ids
  BY DEF TypeOK
<1> QED BY <1>1, <1>2, <1>3 DEF Reading, Observation

\* Whose indicator did not move since it was stored did not change since.
LEMMA CheaplyType ==
  ASSUME TypeOK, PastInv, NEW r \in Ids, CheapMatch(r)
  PROVE  /\ r \in DOMAIN store /\ store[r].fp = body[r]
         /\ Cheaply(r) \in Observation
         /\ Cheaply(r).fp = body[r] /\ Cheaply(r).ind = body[r]
         /\ store[r].deps \subseteq Cheaply(r).deps /\ Cheaply(r).deps \subseteq deps[r]
         /\ Cheaply(r).deps = deps[r] \/ (Veiled(r) /\ Cheaply(r).deps = store[r].deps)
         /\ Cheaply(r).change = Classify(r, body[r], Cheaply(r).deps)
<1>1. r \in DOMAIN store /\ store[r].ind = body[r] /\ Indicator(r) = body[r]
  BY DEF CheapMatch, Indicator
<1>2. body[r] \in Versions /\ deps[r] \subseteq Ids /\ store[r] \in State
  BY <1>1 DEF TypeOK
<1>3. store[r].fp = body[r]
  <2>1. store[r].fp <= body[r] /\ store[r].ind <= store[r].fp
    BY <1>1 DEF PastInv, Was
  <2>2. store[r].fp \in Nat /\ body[r] \in Nat
    BY <1>2, BoundsAssumption DEF State, Versions, Retry
  <2> QED BY <1>1, <2>1, <2>2
<1> DEFINE ds == IF r \in Told THEN deps[r] ELSE store[r].deps
<1>4. Cheaply(r) = [fp |-> body[r], deps |-> ds, ind |-> body[r],
                    change |-> Classify(r, body[r], ds), kept |-> FALSE]
  BY <1>1, <1>3 DEF Cheaply
<1>5. ds = deps[r] \/ (Veiled(r) /\ ds = store[r].deps)
  BY DEF Veiled
<1>6. store[r].deps \subseteq deps[r]
  BY <1>1, <1>3 DEF PastInv, Was
<1>7. ds \subseteq Ids /\ store[r].deps \subseteq ds /\ ds \subseteq deps[r]
  BY <1>2, <1>6
<1>8. Classify(r, body[r], ds) \in Changes
  BY ClassifyType
<1> HIDE DEF ds
<1>9. Cheaply(r) \in Observation
  BY <1>2, <1>4, <1>7, <1>8 DEF Observation
<1> QED BY <1>1, <1>3, <1>4, <1>5, <1>7, <1>9

\* What an operation is given.
LEMMA FreshType ==
  ASSUME TypeOK, NEW r \in DOMAIN obs
  PROVE  /\ r \in Ids /\ Fresh(r) \in Observation
         /\ Fresh(r).change = obs[r].change /\ Fresh(r).ind = obs[r].ind
         /\ \/ Fresh(r) = obs[r] /\ obs[r].kept
            \/ Fresh(r).fp = body[r] /\ Fresh(r).deps = deps[r]
<1>1. r \in Ids /\ obs[r] \in Observation
  BY DEF TypeOK, Partial
<1>2. obs[r].ind \in Versions \cup {Nothing} /\ obs[r].change \in Changes
  BY <1>1 DEF Observation
<1>3. Reading(r, obs[r].ind) \in Observation
  BY <1>1, <1>2, ReadingType
<1>4. CASE obs[r].kept
  BY <1>1, <1>4 DEF Fresh
<1>5. CASE ~obs[r].kept
  <2>1. Fresh(r) = [Reading(r, obs[r].ind) EXCEPT !.change = obs[r].change]
    BY <1>5 DEF Fresh
  <2>2. /\ Fresh(r) \in Observation /\ Fresh(r).change = obs[r].change
        /\ Fresh(r).fp = Reading(r, obs[r].ind).fp
        /\ Fresh(r).deps = Reading(r, obs[r].ind).deps
        /\ Fresh(r).ind = Reading(r, obs[r].ind).ind
    <3> DEFINE o == Reading(r, obs[r].ind)
    <3> HIDE DEF o
    <3>1. o \in Observation /\ Fresh(r) = [o EXCEPT !.change = obs[r].change]
      BY <1>3, <2>1 DEF o
    <3> QED BY <1>2, <3>1 DEF Observation, o
  <2> QED BY <1>1, <1>2, <2>2, ReadingType
<1> QED BY <1>4, <1>5

\* The failures and what they block leave alone what is done.
LEMMA BlockedProperties ==
  ASSUME NEW plan, NEW f, NEW d, d \subseteq DOMAIN plan, d \cap f = {},
         \A r \in d : plan[r] \subseteq d
  PROVE  /\ f \subseteq WithBlocked(plan, f)
         /\ WithBlocked(plan, f) \subseteq f \cup DOMAIN plan
         /\ d \cap WithBlocked(plan, f) = {}
<1>1. ASSUME NEW r \in d PROVE Ancestors(plan, r) \subseteq d
  <2>1. d \in SUBSET DOMAIN plan /\ plan[r] \subseteq d /\ \A k \in d : plan[k] \subseteq d
    OBVIOUS
  <2> QED BY <2>1 DEF Ancestors
<1> QED BY <1>1 DEF WithBlocked

----------------------------------------------------------------------------
(* The resources change                                                     *)

\* What stays true of a resource whatever happens to it.
LEMMA EditEffect ==
  ASSUME IInv, NEW r \in Ids, Edit(r)
  PROVE  /\ present' \subseteq Ids /\ body' \in [Ids -> Versions]
         /\ deps' \in [Ids -> SUBSET Ids] /\ edits' \in 0..MaxEdits
         /\ \A x \in Ids : body[x] <= body'[x]
         /\ \A x \in Ids, s \in State \cup Observation : Was(s, x) => Was(s, x)'
         /\ \A x \in Ids, s \in State \cup Observation :
              Was(s, x) /\ s.fp = body'[x] =>
                 /\ body'[x] = body[x] /\ (x \in present' => x \in present)
                 /\ s.deps = deps'[x] => deps'[x] = deps[x]
<1>1. /\ present \subseteq Ids /\ body \in [Ids -> Versions]
      /\ deps \in [Ids -> SUBSET Ids] /\ edits \in 0..MaxEdits
      /\ Versions \subseteq Nat /\ MaxEdits \in Nat
  BY BoundsAssumption DEF IInv, TypeOK, Versions
<1>2. edits' = edits + 1 /\ edits < MaxEdits
  BY DEF Edit, Write, Link, Remove, Edited
<1>3. edits' \in 0..MaxEdits
  BY <1>1, <1>2
<1>4. MayDepend[r] \subseteq Ids
  BY MayDependAssumption
<1>5. \A s \in State \cup Observation : s.fp \in Nat
  <2>1. \A s \in State : s.fp \in Versions \cup {Retry}
    BY DEF State
  <2>2. \A s \in Observation : s.fp \in Versions
    BY DEF Observation
  <2>3. Versions \cup {Retry} \subseteq Nat
    BY <1>1 DEF Retry
  <2> QED BY <2>1, <2>2, <2>3
<1>9. \A x \in Ids : body[x] \in Nat
  BY <1>1
<1>6. CASE Write(r)
  <2>1. /\ body[r] < MaxEdits + 1 /\ body' = [body EXCEPT ![r] = @ + 1]
        /\ present' = present \cup {r}
    BY <1>6 DEF Write
  <2>2. PICK ds \in SUBSET MayDepend[r] : deps' = [deps EXCEPT ![r] = ds]
    BY <1>6 DEF Write
  <2>3. body[r] \in Nat /\ body[r] + 1 \in Versions
    BY <1>1, <2>1 DEF Versions
  <2>4. body' \in [Ids -> Versions] /\ deps' \in [Ids -> SUBSET Ids]
    BY <1>1, <1>4, <2>1, <2>2, <2>3
  <2>5. \A x \in Ids : \/ x = r /\ body'[x] = body[x] + 1
                       \/ x # r /\ body'[x] = body[x] /\ deps'[x] = deps[x]
                          /\ (x \in present' <=> x \in present)
    BY <1>1, <2>1, <2>2
  <2>6. \A x \in Ids : body[x] \in Nat
    BY <1>1
  <2>7. \A x \in Ids : body[x] <= body'[x]
    BY <2>5, <2>6
  <2>8. ASSUME NEW x \in Ids, NEW s \in State \cup Observation, Was(s, x)
        PROVE  /\ Was(s, x)'
               /\ s.fp = body'[x] => /\ body'[x] = body[x] /\ (x \in present' => x \in present)
                                     /\ s.deps = deps'[x] => deps'[x] = deps[x]
    <3>1. CASE x = r
      <4>1. s.fp \in Nat /\ body[x] \in Nat /\ body'[x] = body[x] + 1 /\ s.fp <= body[x]
        BY <1>5, <2>1, <2>5, <2>6, <2>8, <3>1 DEF Was
      <4>2. s.fp <= body'[x] /\ s.fp # body'[x]
        BY <4>1
      <4> QED BY <4>2 DEF Was
    <3>2. CASE x # r
      BY <2>5, <2>8, <3>2 DEF Was
    <3> QED BY <3>1, <3>2
  <2> QED BY <1>1, <1>3, <2>1, <2>4, <2>7, <2>8
<1>7. CASE Link(r)
  <2>1. body' = body /\ present' = present
    BY <1>7 DEF Link
  <2>2. PICK d \in MayDepend[r] \ deps[r] : deps' = [deps EXCEPT ![r] = @ \cup {d}]
    BY <1>7 DEF Link
  <2>3. deps' \in [Ids -> SUBSET Ids]
    BY <1>1, <1>4, <2>2
  <2>4. \A x \in Ids : deps[x] \subseteq deps'[x] /\ (x = r => d \in deps'[x])
                       /\ (x # r => deps'[x] = deps[x])
    BY <1>1, <2>2
  <2>5. \A x \in Ids : body[x] <= body'[x]
    BY <1>9, <2>1
  <2>6. ASSUME NEW x \in Ids, NEW s \in State \cup Observation, Was(s, x)
        PROVE  /\ Was(s, x)'
               /\ s.fp = body'[x] /\ s.deps = deps'[x] => deps'[x] = deps[x]
    BY <2>1, <2>2, <2>4, <2>6 DEF Was
  <2> QED BY <1>1, <1>3, <2>1, <2>3, <2>5, <2>6
<1>8. CASE Remove(r)
  <2>1. UNCHANGED <<body, deps>> /\ present' = present \ {r}
    BY <1>8 DEF Remove
  <2>2. \A x \in Ids : body[x] <= body'[x]
    BY <1>9, <2>1
  <2> QED BY <1>1, <1>3, <2>1, <2>2 DEF Was
<1> QED BY <1>6, <1>7, <1>8 DEF Edit

\* A change of a resource makes nothing current that was not.
LEMMA EditCurrent ==
  ASSUME IInv, NEW r \in Ids, Edit(r), store' = store
  PROVE  \A x \in DOMAIN store : Current(x)' => Current(x) /\ (x \in present' => x \in present)
<1>1. \A x \in DOMAIN store : x \in Ids /\ store[x] \in State \cup Observation /\ Was(store[x], x)
  BY DEF IInv, TypeOK, PastInv
<1>2. \A x \in Ids, s \in State \cup Observation :
         Was(s, x) /\ s.fp = body'[x] =>
            /\ body'[x] = body[x] /\ (x \in present' => x \in present)
            /\ s.deps = deps'[x] => deps'[x] = deps[x]
  BY EditEffect
<1> QED BY <1>1, <1>2 DEF Current

LEMMA EditStep ==
  ASSUME IInv, NEW r \in Ids, Edit(r)
  PROVE  IInv'
<1>1. /\ quiet' = FALSE
      /\ UNCHANGED <<store, failFast, phase, request, complete, discovered, pending, obs,
                     before, deleted, done, failures, broken, status, built, used, behind,
                     excused, owed, unmarked, lapsed, refreshes, faults>>
  BY DEF Edit, Write, Link, Remove, Edited, Sound, run, derived, missed
<1>2. /\ \A x \in DOMAIN store : x \in Ids /\ store[x] \in State \cup Observation
      /\ \A x \in DOMAIN obs : x \in Ids /\ obs[x] \in State \cup Observation
      /\ \A x \in DOMAIN discovered : x \in Ids /\ discovered[x] \in Nat
      /\ \A x \in Ids : body[x] \in Nat
  BY BoundsAssumption DEF IInv, TypeOK, Partial, Versions, Nothing
<1>3. /\ \A x \in DOMAIN store : Was(store[x], x) /\ Was(store[x], x)'
      /\ \A x \in DOMAIN obs : Was(obs[x], x)'
  <2>1. /\ \A x \in DOMAIN store : Was(store[x], x)
        /\ \A x \in DOMAIN obs : Was(obs[x], x)
    BY DEF IInv, PastInv
  <2>2. \A x \in Ids, s \in State \cup Observation : Was(s, x) => Was(s, x)'
    BY EditEffect
  <2> QED BY <1>1, <1>2, <2>1, <2>2 DEF Was
<1>4. \A x \in DOMAIN store : store[x].fp = body'[x] =>
         body'[x] = body[x] /\ (x \in present' => x \in present)
  <2>1. \A x \in Ids, s \in State \cup Observation :
           Was(s, x) /\ s.fp = body'[x] =>
              body'[x] = body[x] /\ (x \in present' => x \in present)
    BY EditEffect
  <2> QED BY <1>2, <1>3, <2>1
<1>5. \A x \in DOMAIN store : Current(x)' => Current(x) /\ (x \in present' => x \in present)
  BY <1>1, EditCurrent
<1>6. TypeOK'
  BY <1>1, EditEffect DEF IInv, TypeOK
<1>7. PhaseInv'
  BY <1>1 DEF IInv, PhaseInv
<1>8. PastInv'
  <2>1. \A x \in DOMAIN discovered : discovered[x] <= body'[x]
    <3> SUFFICES ASSUME NEW x \in DOMAIN discovered PROVE discovered[x] <= body'[x]
      OBVIOUS
    <3>1. discovered[x] <= body[x] /\ body[x] <= body'[x] /\ body'[x] \in Nat
      BY <1>2, EditEffect, BoundsAssumption DEF IInv, PastInv, Versions
    <3> QED BY <1>2, <3>1
  <2> QED BY <1>1, <1>3, <2>1 DEF IInv, PastInv
<1>9. ChangeInv'
  BY <1>1, <1>5 DEF IInv, ChangeInv, Classify, Due
<1>10. EarnedInv'
  <2>1. StateIsEarned'
    <3> SUFFICES ASSUME NEW x \in present' \cap DOMAIN store, Current(x)'
                 PROVE  built[x] = body'[x] /\ used[x] = deps'[x]
      BY <1>1 DEF StateIsEarned, Current
    <3>1. Current(x) /\ x \in present
      BY <1>5
    <3>2. built[x] = body[x] /\ used[x] = deps[x]
      BY <3>1 DEF IInv, EarnedInv, StateIsEarned, Current
    <3> QED BY <1>1, <3>1, <3>2 DEF Current
  <2> QED BY <1>1, <2>1 DEF IInv, EarnedInv
<1>11. GoneInv'
  BY <1>1, <1>4 DEF IInv, GoneInv
<1>12. QuietInv'
  BY <1>1 DEF QuietInv
<1>13. PlannedInv'
  BY <1>1 DEF IInv, PlannedInv, Changed
<1> QED BY <1>6, <1>7, <1>8, <1>9, <1>10, <1>11, <1>12, <1>13 DEF IInv

----------------------------------------------------------------------------
(* A refresh begins, and reads                                              *)

LEMMA Numbers ==
  ASSUME TypeOK
  PROVE  /\ Versions \subseteq Nat /\ 0 \notin Versions
         /\ \A r \in Ids : body[r] \in Versions /\ body[r] \in Nat /\ body[r] # 0
         /\ \A r \in DOMAIN store : /\ r \in Ids /\ store[r] \in State /\ store[r].fp \in Nat
                                    /\ store[r].ind \in Nat /\ store[r].deps \subseteq Ids
         /\ \A r \in DOMAIN obs : /\ r \in Ids /\ obs[r] \in Observation /\ obs[r].fp \in Versions
                                  /\ obs[r].fp \in Nat /\ obs[r].ind \in Nat
                                  /\ obs[r].ind \in Versions \cup {Nothing}
                                  /\ obs[r].deps \subseteq Ids /\ obs[r].change \in Changes
         /\ \A r \in DOMAIN discovered : /\ r \in Ids /\ discovered[r] \in Nat
                                         /\ discovered[r] \in Versions \cup {Nothing}
<1>1. Versions \subseteq Nat /\ 0 \notin Versions
  BY BoundsAssumption DEF Versions
<1>2. \A r \in Ids : body[r] \in Versions /\ body[r] \in Nat /\ body[r] # 0
  <2>1. body \in [Ids -> Versions]
    BY DEF TypeOK
  <2> QED BY <1>1, <2>1
<1>8. Versions \cup {Retry} \subseteq Nat /\ Versions \cup {Nothing} \subseteq Nat
  BY <1>1 DEF Retry, Nothing
<1>3. ASSUME NEW s \in State PROVE s.fp \in Nat /\ s.ind \in Nat /\ s.deps \subseteq Ids
  <2>1. s.fp \in Versions \cup {Retry} /\ s.ind \in Versions \cup {Nothing} /\ s.deps \subseteq Ids
    BY DEF State
  <2> QED BY <1>8, <2>1
<1>4. ASSUME NEW o \in Observation
      PROVE  /\ o.fp \in Versions /\ o.fp \in Nat /\ o.ind \in Nat /\ o.deps \subseteq Ids
             /\ o.ind \in Versions \cup {Nothing} /\ o.change \in Changes
  <2>1. /\ o.fp \in Versions /\ o.ind \in Versions \cup {Nothing}
        /\ o.deps \subseteq Ids /\ o.change \in Changes
    BY DEF Observation
  <2> QED BY <1>1, <1>8, <2>1
<1>5. \A r \in DOMAIN store : r \in Ids /\ store[r] \in State
  BY DEF TypeOK
<1>6. \A r \in DOMAIN discovered : r \in Ids /\ discovered[r] \in Versions \cup {Nothing}
  BY DEF TypeOK, Partial
<1>7. \A r \in DOMAIN obs : r \in Ids /\ obs[r] \in Observation
  BY <1>6 DEF TypeOK
<1> QED BY <1>1, <1>2, <1>3, <1>4, <1>5, <1>6, <1>7, <1>8

\* Between refreshes nothing is left of one.
LEMMA IdleIsEmpty ==
  ASSUME IInv, phase = "idle"
  PROVE  /\ DOMAIN discovered = {} /\ DOMAIN obs = {} /\ pending = {} /\ DOMAIN before = {}
         /\ deleted = {} /\ done = {} /\ failures = {}
BY DEF IInv, TypeOK, PhaseInv

\* The indicators that discovery sees.
LEMMA IndicatorType ==
  ASSUME TypeOK, NEW r \in Ids
  PROVE  Indicator(r) \in Versions \cup {Nothing} /\ Indicator(r) <= body[r]
BY Numbers DEF Indicator, Nothing

LEMMA BeginStep ==
  ASSUME IInv, NEW q \in Requests[failFast], Begin(q) \/ BeginPartially(q)
  PROVE  IInv'
<1>1. PICK listed \in SUBSET present :
        /\ Discovered(q, listed) /\ complete' \in BOOLEAN
        /\ complete' => listed = present
  BY DEF Begin, BeginPartially
<1>2. /\ phase = "idle" /\ phase' = "observing" /\ request' = q /\ quiet' = TRUE /\ lapsed' = {}
      /\ refreshes < MaxRefreshes /\ refreshes' = refreshes + 1
      /\ faults' = faults \/ (faults < MaxFaults /\ faults' = faults + 1)
      /\ UNCHANGED <<present, body, deps, edits, store, failFast, before, deleted, done,
                     failures, broken, status, built, used, behind, excused, owed, unmarked>>
  BY DEF Begin, BeginPartially, Accept, world, derived, Sound, Fault
<1>3. /\ DOMAIN before = {} /\ deleted = {} /\ done = {} /\ failures = {}
  BY <1>2, IdleIsEmpty
<1>4. TypeOK
  BY DEF IInv
<1> DEFINE scope == IF q.mode = "TARGETED" THEN listed \cap (q.ids \cup q.matched) ELSE listed
           cheap == {r \in scope : Unread(q) /\ CheapMatch(r)}
<1>5. /\ discovered' = [r \in listed |-> Indicator(r)]
      /\ obs' = [r \in cheap |-> Cheaply(r)] /\ pending' = scope \ cheap
  BY <1>1 DEF Discovered
<1>6. /\ cheap \subseteq scope /\ scope \subseteq listed /\ listed \subseteq Ids
      /\ q.mode # "TARGETED" => scope = listed
      /\ \A r \in cheap : CheapMatch(r) /\ Unread(q)
  BY <1>4 DEF TypeOK
<1> HIDE DEF scope, cheap
<1>7. \A r \in cheap :
         /\ r \in DOMAIN store /\ store[r].fp = body[r] /\ obs'[r] \in Observation
         /\ obs'[r].fp = body[r] /\ obs'[r].ind = body[r] /\ obs'[r] = Cheaply(r)
         /\ store[r].deps \subseteq obs'[r].deps /\ obs'[r].deps \subseteq deps[r]
         /\ obs'[r].deps = deps[r] \/ (Veiled(r) /\ obs'[r].deps = store[r].deps)
         /\ obs'[r].change = Classify(r, body[r], obs'[r].deps)
  <2> SUFFICES ASSUME NEW r \in cheap
               PROVE  /\ r \in DOMAIN store /\ store[r].fp = body[r] /\ obs'[r] \in Observation
                      /\ obs'[r].fp = body[r] /\ obs'[r].ind = body[r] /\ obs'[r] = Cheaply(r)
                      /\ store[r].deps \subseteq obs'[r].deps /\ obs'[r].deps \subseteq deps[r]
                      /\ obs'[r].deps = deps[r] \/ (Veiled(r) /\ obs'[r].deps = store[r].deps)
                      /\ obs'[r].change = Classify(r, body[r], obs'[r].deps)
    OBVIOUS
  <2>1. r \in Ids /\ CheapMatch(r) /\ obs'[r] = Cheaply(r)
    BY <1>5, <1>6
  <2> QED BY <2>1, CheaplyType DEF IInv
<1>8. DOMAIN obs' = cheap /\ DOMAIN discovered' = listed
  BY <1>5
<1>9. \A r \in Ids : body[r] \in Nat
  BY <1>4, Numbers
<1>10. TypeOK'
  <2>1. discovered' \in Partial(Versions \cup {Nothing})
    BY <1>4, <1>5, <1>6, IndicatorType DEF Partial
  <2>2. refreshes' \in 0..MaxRefreshes /\ faults' \in 0..MaxFaults
    BY <1>2, <1>4, BoundsAssumption DEF TypeOK
  <2>3. {complete', broken', quiet'} \subseteq BOOLEAN
    BY <1>1, <1>2, <1>4 DEF TypeOK
  <2>4. /\ DOMAIN obs' \subseteq DOMAIN discovered' /\ \A r \in DOMAIN obs' : obs'[r] \in Observation
        /\ pending' \subseteq DOMAIN discovered' \ (DOMAIN obs' \cup failures')
        /\ deleted' \subseteq DOMAIN store' \ DOMAIN discovered'
        /\ DOMAIN before' \subseteq DOMAIN obs' \cup deleted'
        /\ failures' \subseteq DOMAIN discovered' \cup deleted'
    BY <1>2, <1>3, <1>5, <1>6, <1>7, <1>8
  <2> QED BY <1>2, <1>4, <2>1, <2>2, <2>3, <2>4 DEF TypeOK
<1>11. PhaseInv'
  BY <1>2, <1>3 DEF IInv, PhaseInv
<1>12. PastInv'
  <2>1. \A r \in DOMAIN discovered' : discovered'[r] <= body'[r]
    BY <1>2, <1>4, <1>5, <1>6, IndicatorType
  <2>2. \A r \in cheap : /\ obs'[r].fp = body'[r] /\ obs'[r].ind = body'[r]
                         /\ body'[r] \in Nat /\ store'[r].fp = body'[r]
    BY <1>2, <1>6, <1>7, <1>9
  <2>3. \A r \in cheap : store'[r].deps \subseteq obs'[r].deps /\ obs'[r].deps \subseteq deps'[r]
    BY <1>2, <1>7
  <2>4. \A r \in DOMAIN store' : Was(store[r], r)' /\ store'[r].ind <= store'[r].fp
    BY <1>2 DEF IInv, PastInv, Was
  <2> QED BY <1>2, <1>7, <1>8, <2>1, <2>2, <2>3, <2>4 DEF PastInv, Was
<1>13. ChangeInv'
  <2>1. \A r \in cheap : obs'[r].change = Classify(r, obs'[r].fp, obs'[r].deps)
    BY <1>7
  <2>2. \A r \in cheap : Current(r) => obs'[r].change = "UNCHANGED"
    <3> SUFFICES ASSUME NEW r \in cheap, Current(r) PROVE obs'[r].change = "UNCHANGED"
      OBVIOUS
    <3>1. obs'[r].deps = store[r].deps /\ store[r].fp = body[r] /\ r \in DOMAIN store
      BY <1>7 DEF Current
    <3> QED BY <1>7, <3>1, ClassifyType
  <2>3. \A r : Current(r)' <=> Current(r)
    BY <1>2 DEF Current
  <2>4. ~failFast' => \A r \in Due' \cap present' \cap DOMAIN store' : ~Current(r)'
    BY <1>2, <2>3 DEF IInv, ChangeInv, Due
  <2>5. \A r \in DOMAIN obs' : obs'[r].change = Classify(r, obs[r].fp, obs[r].deps)'
    BY <1>2, <1>8, <2>1 DEF Classify
  <2> QED BY <1>8, <2>2, <2>3, <2>4, <2>5 DEF ChangeInv
<1>14. EarnedInv'
  BY <1>2, <1>3 DEF IInv, EarnedInv, StateIsEarned
<1>15. GoneInv'
  BY <1>1, <1>2, <1>3, <1>8 DEF GoneInv
<1>16. QuietInv'
  <2>1. \A r : (Veiled(r)' <=> Veiled(r)) /\ Cheaply(r)' = Cheaply(r)
    BY <1>2 DEF Veiled, CheapMatch, Indicator, Cheaply, Classify
  <2>2. \A r \in cheap : /\ obs'[r].fp = body'[r]
                         /\ \/ obs'[r].deps = deps'[r]
                            \/ /\ Unread(request') /\ Veiled(r)' /\ obs'[r] = Cheaply(r)'
                               /\ r \notin done'
    BY <1>2, <1>3, <1>6, <1>7, <2>1
  <2> QED BY <1>1, <1>2, <1>8, <2>2 DEF QuietInv
<1>17. PlannedInv'
  <2>1. request'.mode # "TARGETED" => DOMAIN discovered' \subseteq DOMAIN obs' \cup pending'
    BY <1>2, <1>5, <1>6, <1>8
  <2> QED BY <1>2, <2>1 DEF PlannedInv
<1> QED BY <1>10, <1>11, <1>12, <1>13, <1>14, <1>15, <1>16, <1>17 DEF IInv

LEMMA BeginFailsStep ==
  ASSUME IInv, NEW q \in Requests[failFast], BeginFails(q)
  PROVE  IInv'
<1>1. /\ phase = "idle" /\ phase' = "idle" /\ request' = q /\ quiet' = TRUE /\ lapsed' = {}
      /\ status' = "FAILED"
      /\ refreshes < MaxRefreshes /\ refreshes' = refreshes + 1
      /\ faults < MaxFaults /\ faults' = faults + 1
      /\ UNCHANGED <<present, body, deps, edits, store, failFast, before, deleted, done,
                     failures, broken, built, used, behind, excused, owed, unmarked, complete,
                     discovered, pending, obs>>
  BY DEF BeginFails, Accept, world, derived, Fault
<1>2. TypeOK'
  <2>1. refreshes' \in 0..MaxRefreshes /\ faults' \in 0..MaxFaults
    BY <1>1, BoundsAssumption DEF IInv, TypeOK
  <2>2. {complete', broken', quiet'} \subseteq BOOLEAN
    BY <1>1 DEF IInv, TypeOK
  <2> QED BY <1>1, <2>1, <2>2 DEF IInv, TypeOK, Statuses
<1>3. PhaseInv' /\ EarnedInv' /\ GoneInv' /\ QuietInv' /\ PlannedInv'
  BY <1>1
  DEF IInv, PhaseInv, EarnedInv, StateIsEarned, GoneInv, QuietInv, PlannedInv
<1>4. PastInv'
  BY <1>1 DEF IInv, PastInv, Was
<1>5. ChangeInv'
  BY <1>1 DEF IInv, ChangeInv, Current, Classify, Due
<1> QED BY <1>2, <1>3, <1>4, <1>5 DEF IInv

\* What is hidden from a refresh does not change with it.
LEMMA QuietKept ==
  ASSUME UNCHANGED <<body, deps, store>>
  PROVE  \A r : (Veiled(r)' <=> Veiled(r)) /\ Cheaply(r)' = Cheaply(r)
BY DEF Veiled, CheapMatch, Indicator, Cheaply, Classify

LEMMA QuietStays ==
  ASSUME IInv, phase' # "idle" => phase # "idle", \A r \in done' \ done : r \notin DOMAIN obs,
         UNCHANGED <<present, body, deps, store, complete, discovered, request, quiet, obs>>
  PROVE  QuietInv'
BY QuietKept DEF IInv, QuietInv

LEMMA ObserveStep ==
  ASSUME IInv, NEW r \in Ids, Observe(r)
  PROVE  IInv'
<1>1. /\ phase = "observing" /\ r \in pending /\ pending' = pending \ {r}
      /\ obs' = [x \in DOMAIN obs \cup {r} |->
                   IF x = r THEN Reading(r, discovered[r]) ELSE obs[x]]
      /\ UNCHANGED <<present, body, deps, edits, store, failFast, phase, request, complete,
                     discovered, before, deleted, done, failures, broken, status, built, used,
                     behind, excused, owed, unmarked, lapsed, quiet, refreshes, faults>>
  BY DEF Observe, world, missed, run, derived, Sound
<1>2. /\ TypeOK /\ r \in DOMAIN discovered /\ r \notin DOMAIN obs /\ r \notin failures
      /\ DOMAIN before = {} /\ done = {} /\ deleted = {}
  BY <1>1 DEF IInv, TypeOK, PhaseInv
<1>3. /\ obs'[r] \in Observation /\ obs'[r].fp = body[r] /\ obs'[r].deps = deps[r]
      /\ obs'[r].ind = discovered[r] /\ obs'[r].change = Classify(r, body[r], deps[r])
  BY <1>1, <1>2, Numbers, ReadingType
<1>4. /\ DOMAIN obs' = DOMAIN obs \cup {r}
      /\ \A x \in DOMAIN obs : obs'[x] = obs[x]
  BY <1>1, <1>2
<1>5. TypeOK'
  <2>1. /\ DOMAIN obs' \subseteq DOMAIN discovered' /\ \A x \in DOMAIN obs' : obs'[x] \in Observation
        /\ pending' \subseteq DOMAIN discovered' \ (DOMAIN obs' \cup failures')
        /\ DOMAIN before' \subseteq DOMAIN obs' \cup deleted'
    BY <1>1, <1>2, <1>3, <1>4 DEF TypeOK
  <2> QED BY <1>1, <1>2, <2>1 DEF TypeOK
<1>6. PhaseInv'
  BY <1>1 DEF IInv, PhaseInv
<1>7. PastInv'
  <2>1. body[r] \in Nat /\ discovered[r] <= body[r]
    BY <1>2, Numbers DEF IInv, PastInv
  <2>2. r \in DOMAIN store => /\ store[r].fp <= body[r]
                              /\ store[r].fp = body[r] => store[r].deps \subseteq deps[r]
    BY DEF IInv, PastInv, Was
  <2>3. /\ \A x \in DOMAIN store : Was(store[x], x)' /\ store'[x].ind <= store'[x].fp
        /\ \A x \in DOMAIN discovered' : discovered'[x] <= body'[x]
    BY <1>1 DEF IInv, PastInv, Was
  <2>4. \A x \in DOMAIN obs' : Was(obs[x], x)' /\ obs'[x].ind <= obs'[x].fp
    BY <1>1, <1>3, <1>4, <2>1 DEF IInv, PastInv, Was
  <2>5. \A x \in DOMAIN obs' \cap DOMAIN store' :
           /\ store'[x].fp <= obs'[x].fp
           /\ store'[x].fp = obs'[x].fp => store'[x].deps \subseteq obs'[x].deps
    BY <1>1, <1>3, <1>4, <2>2 DEF IInv, PastInv
  <2> QED BY <1>1, <2>3, <2>4, <2>5 DEF PastInv
<1>8. ChangeInv'
  <2>1. r \in DOMAIN store => (Current(r) => obs'[r].change = "UNCHANGED")
    BY <1>3, ClassifyType DEF Current
  <2>2. \A x \in DOMAIN obs' : obs'[x].change = Classify(x, obs[x].fp, obs[x].deps)'
    BY <1>1, <1>2, <1>3, <1>4 DEF IInv, ChangeInv, Classify
  <2>3. \A x : Current(x)' <=> Current(x)
    BY <1>1 DEF Current
  <2>4. \A x \in DOMAIN obs' \cap DOMAIN store' : obs'[x].change # "UNCHANGED" => ~Current(x)'
    BY <1>1, <1>4, <2>1, <2>3 DEF IInv, ChangeInv
  <2>5. ~failFast' => \A x \in Due' \cap present' \cap DOMAIN store' : ~Current(x)'
    BY <1>1, <2>3 DEF IInv, ChangeInv, Due
  <2> QED BY <2>2, <2>4, <2>5 DEF ChangeInv
<1>9. EarnedInv' /\ GoneInv'
  BY <1>1, <1>2 DEF IInv, EarnedInv, StateIsEarned, GoneInv
<1>10. QuietInv'
  BY <1>1, <1>3, <1>4, QuietKept DEF IInv, QuietInv
<1>11. PlannedInv'
  BY <1>1, <1>4 DEF IInv, PlannedInv
<1> QED BY <1>5, <1>6, <1>7, <1>8, <1>9, <1>10, <1>11 DEF IInv

\* Steps that leave the world, the store, the observations and the derived data
\* alone, and change what is planned, pending or failed at most.
LEMMA QuietPast ==
  ASSUME IInv, UNCHANGED <<present, body, deps, store, failFast, discovered, obs, owed, unmarked>>,
         DOMAIN before \subseteq DOMAIN before'
  PROVE  PastInv' /\ ChangeInv'
<1>1. PastInv'
  BY DEF IInv, PastInv, Was
<1>2. \A x \in DOMAIN obs' \ DOMAIN before' :
         obs'[x].change = Classify(x, obs[x].fp, obs[x].deps)'
  BY DEF IInv, ChangeInv, Classify
<1>3. \A x : Current(x)' <=> Current(x)
  BY DEF Current
<1> QED BY <1>1, <1>2, <1>3 DEF IInv, ChangeInv, Due

LEMMA ObserveFailsStep ==
  ASSUME IInv, NEW r \in Ids, ObserveFails(r)
  PROVE  IInv'
<1>1. /\ phase = "observing" /\ r \in pending /\ pending' = pending \ {r}
      /\ failures' = failures \cup {r}
      /\ faults' = faults \/ (faults < MaxFaults /\ faults' = faults + 1)
      /\ UNCHANGED <<present, body, deps, edits, store, failFast, phase, request, complete,
                     discovered, before, deleted, done, obs, broken, status, built, used,
                     behind, excused, owed, unmarked, lapsed, quiet, refreshes>>
  BY DEF ObserveFails, world, missed, run, derived, Sound, Fault
<1>2. /\ r \in DOMAIN discovered /\ r \notin DOMAIN obs /\ done = {}
  BY <1>1 DEF IInv, TypeOK, PhaseInv
<1>3. TypeOK'
  <2>1. faults' \in 0..MaxFaults
    BY <1>1, BoundsAssumption DEF IInv, TypeOK
  <2>2. /\ pending' \subseteq DOMAIN discovered' \ (DOMAIN obs' \cup failures')
        /\ done' \subseteq DOMAIN before' \ failures'
        /\ failures' \subseteq DOMAIN discovered' \cup deleted'
    BY <1>1, <1>2 DEF IInv, TypeOK
  <2> QED BY <1>1, <2>1, <2>2 DEF IInv, TypeOK
<1>4. PastInv' /\ ChangeInv'
  BY <1>1, QuietPast
<1>5. PhaseInv' /\ EarnedInv' /\ GoneInv' /\ QuietInv'
  BY <1>1, QuietStays DEF IInv, PhaseInv, EarnedInv, StateIsEarned, GoneInv
<1>6. PlannedInv'
  BY <1>1 DEF IInv, PlannedInv
<1> QED BY <1>3, <1>4, <1>5, <1>6 DEF IInv

----------------------------------------------------------------------------
(* The plan, and the end of the stages                                      *)

LEMMA PlanStep == ASSUME IInv, Plan PROVE IInv'
<1>1. /\ phase = "observing" /\ phase' = "executing" /\ pending = {}
      /\ deleted' = Deletions /\ before' = PlanOf(request.mode, obs, Deletions)
      /\ failures' = failures \cup WithBlocked(before', Cyclic(before'))
      /\ UNCHANGED <<present, body, deps, edits, store, failFast, request, complete,
                     discovered, pending, done, obs, broken, status, built, used,
                     behind, excused, owed, unmarked, lapsed, quiet, refreshes, faults>>
  BY DEF Plan, world, missed, derived, Sound
<1>2. DOMAIN before = {} /\ deleted = {} /\ done = {}
  BY <1>1 DEF IInv, PhaseInv
<1>3. /\ Deletions \subseteq DOMAIN store \ DOMAIN discovered
      /\ ~complete => Deletions = {}
      /\ complete /\ request.mode # "TARGETED" => Deletions = DOMAIN store \ DOMAIN discovered
  BY DEF Deletions
<1> DEFINE refreshed == Selected(request.mode, obs, Deletions)
<1>4. request.mode \in Modes
  <2>1. request \in Request
    BY RequestsAssumption DEF IInv, TypeOK, PhaseInv
  <2> QED BY <2>1 DEF Request
<1>5. refreshed \subseteq DOMAIN obs
  BY <1>4 DEF Selected, Changed, Impacted, Modes
<1>6. request.mode # "TARGETED" => Changed(obs) \subseteq refreshed
  BY <1>4 DEF Selected, Changed, Modes
<1> HIDE DEF refreshed
<1>7. before' = [x \in refreshed \cup Deletions |-> Predecessors(x, obs, refreshed, Deletions)]
  BY <1>1 DEF PlanOf, refreshed
<1>8. \A x \in refreshed \cup Deletions :
         Predecessors(x, obs, refreshed, Deletions) \subseteq refreshed \cup Deletions
  BY DEF Predecessors
<1>9. failures' \subseteq failures \cup DOMAIN before'
  BY <1>1 DEF WithBlocked, Cyclic
<1>10. TypeOK'
  <2>1. /\ DOMAIN before' \subseteq DOMAIN obs' \cup deleted'
        /\ \A x \in DOMAIN before' : before'[x] \subseteq DOMAIN before'
    BY <1>1, <1>5, <1>7, <1>8
  <2>2. deleted' \subseteq DOMAIN store' \ DOMAIN discovered'
    BY <1>1, <1>3
  <2>3. failures' \subseteq DOMAIN discovered' \cup deleted'
    BY <1>1, <1>2, <1>9, <2>1 DEF IInv, TypeOK
  <2>4. /\ pending' \subseteq DOMAIN discovered' \ (DOMAIN obs' \cup failures')
        /\ done' \subseteq DOMAIN before' \ failures'
    BY <1>1, <1>2
  <2> QED BY <1>1, <2>1, <2>2, <2>3, <2>4 DEF IInv, TypeOK
<1>11. PastInv' /\ ChangeInv'
  BY <1>1, <1>2, QuietPast
<1>12. PhaseInv' /\ EarnedInv' /\ GoneInv' /\ QuietInv'
  BY <1>1, <1>2, <1>3, <1>7, QuietStays DEF IInv, PhaseInv, EarnedInv, StateIsEarned, GoneInv
<1>13. PlannedInv'
  <2>1. request'.mode # "TARGETED" => Changed(obs)' \subseteq DOMAIN before'
    BY <1>1, <1>6, <1>7 DEF Changed
  <2>2. failures \subseteq failures'
    BY <1>1
  <2> QED BY <1>1, <1>3, <2>1, <2>2 DEF IInv, PlannedInv
<1> QED BY <1>10, <1>11, <1>12, <1>13 DEF IInv

LEMMA StagesEndStep == ASSUME IInv, StagesEnd \/ Timeout PROVE IInv'
<1>1. /\ phase \in {"observing", "executing"} /\ phase' = "persisting"
      /\ broken' \in BOOLEAN
      /\ faults' = faults \/ (faults < MaxFaults /\ faults' = faults + 1)
      /\ UNCHANGED <<present, body, deps, edits, store, failFast, request, complete,
                     discovered, before, deleted, pending, done, obs, failures, status, built,
                     used, behind, excused, owed, unmarked, lapsed, quiet, refreshes>>
  BY DEF StagesEnd, Timeout, world, missed, run, derived, Sound, Fault, IInv, TypeOK
<1>2. failures' = {} /\ ~broken' => phase = "executing" /\ DOMAIN before \subseteq done
  BY DEF StagesEnd, Timeout, ShouldStop, Todo
<1>3. TypeOK'
  <2>1. faults' \in 0..MaxFaults
    BY <1>1, BoundsAssumption DEF IInv, TypeOK
  <2>2. {complete', broken', quiet'} \subseteq BOOLEAN
    BY <1>1 DEF IInv, TypeOK
  <2> QED BY <1>1, <2>1, <2>2 DEF IInv, TypeOK
<1>4. PastInv' /\ ChangeInv'
  BY <1>1, QuietPast
<1>5. PhaseInv' /\ EarnedInv' /\ GoneInv' /\ QuietInv'
  BY <1>1, QuietStays DEF IInv, PhaseInv, EarnedInv, StateIsEarned, GoneInv
<1>6. PlannedInv'
  <2>1. Changed(obs)' = Changed(obs)
    BY <1>1 DEF Changed
  <2> QED BY <1>1, <1>2, <2>1 DEF IInv, PlannedInv
<1> QED BY <1>3, <1>4, <1>5, <1>6 DEF IInv

----------------------------------------------------------------------------
(* The operations                                                           *)

\* An operation that may start, and what its failure blocks.
LEMMA StartProperties ==
  ASSUME IInv, NEW r \in Ids, Starts(r)
  PROVE  /\ phase = "executing" /\ r \in DOMAIN before /\ r \notin done /\ r \notin failures
         /\ pending = {} /\ (r \notin deleted => r \in DOMAIN obs)
         /\ \A x \in done \cup {r} : before[x] \subseteq done \cup {r}
         /\ WithBlocked(before, failures \cup {r}) \subseteq DOMAIN discovered \cup deleted
         /\ failures \subseteq WithBlocked(before, failures \cup {r})
         /\ done \cap WithBlocked(before, failures \cup {r}) = {}
<1>1. /\ phase = "executing" /\ r \in DOMAIN before /\ r \notin done /\ r \notin failures
      /\ before[r] \subseteq done
  BY DEF Starts, Todo
<1>2. pending = {} /\ \A x \in done : before[x] \subseteq done
  BY <1>1 DEF IInv, PlannedInv, PhaseInv
<1>3. /\ DOMAIN before \subseteq DOMAIN obs \cup deleted /\ DOMAIN obs \subseteq DOMAIN discovered
      /\ done \subseteq DOMAIN before \ failures /\ failures \subseteq DOMAIN discovered \cup deleted
  BY DEF IInv, TypeOK
<1> DEFINE f == failures \cup {r}
<1>4. done \cap f = {} /\ done \subseteq DOMAIN before
  BY <1>1, <1>3
<1> HIDE DEF f
<1>5. /\ f \subseteq WithBlocked(before, f)
      /\ WithBlocked(before, f) \subseteq f \cup DOMAIN before
      /\ done \cap WithBlocked(before, f) = {}
  BY <1>2, <1>4, BlockedProperties
<1> QED BY <1>1, <1>2, <1>3, <1>5 DEF f

LEMMA BuildType ==
  ASSUME TypeOK, NEW r \in Ids, NEW content \in Versions \cup {Nothing}, NEW ds \in SUBSET Ids,
         NEW excuses \in SUBSET (Ids \X Reasons), Build(r, content, ds, excuses)
  PROVE  /\ built' \in [Ids -> Versions \cup {Nothing}] /\ used' \in [Ids -> SUBSET Ids]
         /\ behind' \subseteq Ids /\ excused' \subseteq Ids \X Reasons
         /\ built'[r] = content /\ used'[r] = ds
         /\ \A x \in Ids \ {r} : built'[x] = built[x] /\ used'[x] = used[x]
<1>1. /\ built \in [Ids -> Versions \cup {Nothing}] /\ used \in [Ids -> SUBSET Ids]
      /\ behind \subseteq Ids /\ excused \subseteq Ids \X Reasons
  BY DEF TypeOK
<1> DEFINE moved == built[r] # content \/ used[r] # ds \/ r \in behind
           told == {x \in Ids : moved /\ r \in used[x]}
           taken == {<<x, e[2]>> : x \in told, e \in {f \in excused : f[1] = r}}
<1>2. /\ built' = [built EXCEPT ![r] = content] /\ used' = [used EXCEPT ![r] = ds]
      /\ behind' = (behind \cup told) \ {r} /\ excused' = excuses \cup taken
  BY DEF Build
<1>3. told \subseteq Ids
  OBVIOUS
<1>4. taken \subseteq Ids \X Reasons
  BY <1>1, <1>3
<1> HIDE DEF told, taken
<1> QED BY <1>1, <1>2, <1>3, <1>4

LEMMA BuildBuilt ==
  ASSUME NEW r, NEW content, NEW ds, NEW excuses, Build(r, content, ds, excuses)
  PROVE  built' = [built EXCEPT ![r] = content]
BY DEF Build

LEMMA ReasonsType ==
  ASSUME TypeOK, NEW r \in Ids, NEW D
  PROVE  /\ Forgive(r) \subseteq Ids \X Reasons
         /\ Forgive(r) \cup {<<r, "late">> : d \in D} \subseteq Ids \X Reasons
<1>1. excused \subseteq Ids \X Reasons /\ "late" \in Reasons
  BY DEF TypeOK, Reasons
<1> QED BY <1>1 DEF Forgive

\* An operation works from an observation that is as good as the one planned.
LEMMA FreshStep ==
  ASSUME IInv, NEW r \in DOMAIN obs, r \in DOMAIN before, r \notin done,
         obs' = [obs EXCEPT ![r] = Fresh(r)], done' \subseteq done \cup {r},
         UNCHANGED <<present, body, deps, store, failFast, phase, request, complete, discovered,
                     before, deleted, owed, unmarked, lapsed, quiet>>,
         \/ built'[r] = Fresh(r).fp /\ used'[r] = Fresh(r).deps
         \/ built'[r] = built[r] /\ used'[r] = used[r] /\ done' = done,
         \A x \in Ids \ {r} : built'[x] = built[x] /\ used'[x] = used[x]
  PROVE  /\ \A x \in DOMAIN obs' : obs'[x] \in Observation
         /\ DOMAIN obs' = DOMAIN obs /\ Changed(obs)' = Changed(obs)
         /\ PastInv' /\ ChangeInv' /\ EarnedInv' /\ GoneInv' /\ QuietInv'
<1>1. /\ r \in Ids /\ Fresh(r) \in Observation
      /\ Fresh(r).change = obs[r].change /\ Fresh(r).ind = obs[r].ind
      /\ (Fresh(r) = obs[r] /\ obs[r].kept) \/ (Fresh(r).fp = body[r] /\ Fresh(r).deps = deps[r])
  BY FreshType DEF IInv
<1>2. /\ DOMAIN obs' = DOMAIN obs /\ obs'[r] = Fresh(r)
      /\ \A x \in DOMAIN obs : x # r => obs'[x] = obs[x]
  OBVIOUS
<1>3. \A x \in DOMAIN obs : obs[x] \in Observation /\ x \in Ids
  BY DEF IInv, TypeOK, Partial
<1>4. Changed(obs)' = Changed(obs)
  BY <1>1, <1>2 DEF Changed
<1>5. /\ body[r] \in Nat /\ obs[r].fp \in Nat /\ obs[r].ind \in Nat
      /\ r \in DOMAIN store => store[r].fp \in Nat
  BY <1>1, Numbers DEF IInv
<1>6. Was(obs[r], r) /\ obs[r].ind <= obs[r].fp
  BY DEF IInv, PastInv
<1>7. /\ Fresh(r).fp <= body[r] /\ (Fresh(r).fp = body[r] => Fresh(r).deps \subseteq deps[r])
      /\ Fresh(r).ind <= Fresh(r).fp
  BY <1>1, <1>5, <1>6 DEF Was
<1>8. r \in DOMAIN store => /\ store[r].fp <= Fresh(r).fp
                            /\ store[r].fp = Fresh(r).fp => store[r].deps \subseteq Fresh(r).deps
  <2>1. r \in DOMAIN store =>
           /\ Was(store[r], r) /\ store[r].fp <= obs[r].fp
           /\ store[r].fp = obs[r].fp => store[r].deps \subseteq obs[r].deps
    BY DEF IInv, PastInv
  <2> QED BY <1>1, <2>1 DEF Was
<1>9. PastInv'
  <2>1. /\ \A x \in DOMAIN store : Was(store[x], x)' /\ store'[x].ind <= store'[x].fp
        /\ \A x \in DOMAIN discovered : discovered'[x] <= body'[x]
    BY DEF IInv, PastInv, Was
  <2>2. \A x \in DOMAIN obs : Was(obs[x], x)' /\ obs'[x].ind <= obs'[x].fp
    BY <1>2, <1>7 DEF IInv, PastInv, Was
  <2>3. \A x \in DOMAIN obs \cap DOMAIN store :
           /\ store'[x].fp <= obs'[x].fp
           /\ store'[x].fp = obs'[x].fp => store'[x].deps \subseteq obs'[x].deps
    BY <1>2, <1>8 DEF IInv, PastInv
  <2> QED BY <1>2, <2>1, <2>2, <2>3 DEF PastInv
<1>10. ChangeInv'
  <2>1. \A x : Current(x)' <=> Current(x)
    BY DEF Current
  <2>2. \A x \in DOMAIN obs' \ DOMAIN before' :
           obs'[x].change = Classify(x, obs[x].fp, obs[x].deps)'
    BY <1>2 DEF IInv, ChangeInv, Classify
  <2>3. \A x \in DOMAIN obs' : obs'[x].change = obs[x].change
    BY <1>1, <1>2
  <2> QED BY <1>2, <2>1, <2>2, <2>3 DEF IInv, ChangeInv, Due
<1>11. r \in present \cap DOMAIN store /\ Current(r) =>
          Fresh(r).fp = body[r] /\ Fresh(r).deps = deps[r]
  <2> SUFFICES ASSUME r \in DOMAIN store, store[r].fp = body[r], store[r].deps = deps[r]
               PROVE  Fresh(r).fp = body[r] /\ Fresh(r).deps = deps[r]
    BY DEF Current
  <2>1. Fresh(r).fp = body[r]
    <3>1. Fresh(r).fp \in Nat
      BY <1>1, <1>5
    <3> QED BY <1>5, <1>7, <1>8, <3>1
  <2>2. deps[r] \subseteq Fresh(r).deps /\ Fresh(r).deps \subseteq deps[r]
    BY <2>1, <1>7, <1>8
  <2> QED BY <2>1, <2>2
<1>12. EarnedInv'
  <2>1. StateIsEarned'
    <3> SUFFICES ASSUME NEW x \in present \cap DOMAIN store, Current(x)
                 PROVE  built'[x] = body[x] /\ used'[x] = deps[x]
      BY DEF StateIsEarned, Current
    <3>1. x \in Ids /\ built[x] = body[x] /\ used[x] = deps[x]
      BY DEF IInv, EarnedInv, StateIsEarned, Current, TypeOK
    <3> QED BY <1>11, <3>1
  <2>2. \A x \in done' \ deleted' : built'[x] = obs'[x].fp /\ used'[x] = obs'[x].deps
    <3> SUFFICES ASSUME NEW x \in done' \ deleted
                 PROVE  built'[x] = obs'[x].fp /\ used'[x] = obs'[x].deps
      OBVIOUS
    <3>1. CASE x = r
      BY <1>2, <3>1
    <3>2. CASE x # r
      <4>1. x \in done \ deleted /\ x \in DOMAIN obs /\ x \in Ids
        BY <1>3, <3>2 DEF IInv, TypeOK
      <4> QED BY <1>2, <3>2, <4>1 DEF IInv, EarnedInv
    <3> QED BY <3>1, <3>2
  <2> QED BY <2>1, <2>2 DEF EarnedInv
<1>13. GoneInv'
  BY DEF IInv, GoneInv
<1>14. QuietInv'
  <2> SUFFICES ASSUME phase # "idle", quiet, NEW x \in DOMAIN obs
               PROVE  /\ obs'[x].fp = body[x]
                      /\ \/ obs'[x].deps = deps[x]
                         \/ Unread(request) /\ Veiled(x)' /\ obs'[x] = Cheaply(x)' /\ x \notin done'
    BY <1>2 DEF IInv, QuietInv
  <2>1. /\ obs[x].fp = body[x]
        /\ \/ obs[x].deps = deps[x]
           \/ Unread(request) /\ Veiled(x) /\ obs[x] = Cheaply(x) /\ x \notin done
    BY DEF IInv, QuietInv
  <2>2. obs[x] = Cheaply(x) => ~obs[x].kept
    BY DEF Cheaply
  <2>3. CASE x = r
    BY <1>1, <1>2, <2>1, <2>2, <2>3
  <2>4. CASE x # r
    BY <1>2, <2>1, <2>4, QuietKept
  <2> QED BY <2>3, <2>4
<1> QED BY <1>1, <1>2, <1>3, <1>4, <1>9, <1>10, <1>12, <1>13, <1>14

LEMMA RefreshStep == ASSUME IInv, NEW r \in Ids, Refresh(r) PROVE IInv'
<1>1. /\ Starts(r) /\ r \notin deleted /\ done' = done \cup {r}
      /\ obs' = [obs EXCEPT ![r] = Fresh(r)]
      /\ Build(r, Fresh(r).fp, Fresh(r).deps,
               Forgive(r) \cup {<<r, "late">> : d \in (Fresh(r).deps \cap Todo) \ {r}})
      /\ UNCHANGED <<present, body, deps, edits, store, failFast, phase, request, complete,
                     discovered, before, deleted, pending, failures, broken, status, owed, unmarked, lapsed,
                     quiet, refreshes, faults>>
  BY DEF Refresh, world, missed, run, Sound
<1>2. /\ phase = "executing" /\ r \in DOMAIN before /\ r \notin done /\ r \notin failures
      /\ r \in DOMAIN obs /\ \A x \in done \cup {r} : before[x] \subseteq done \cup {r}
  BY <1>1, StartProperties
<1>3. TypeOK /\ Fresh(r).fp \in Versions \cup {Nothing} /\ Fresh(r).deps \in SUBSET Ids
  BY <1>2, FreshType DEF IInv, Observation
<1>4. /\ built' \in [Ids -> Versions \cup {Nothing}] /\ used' \in [Ids -> SUBSET Ids]
      /\ behind' \subseteq Ids /\ excused' \subseteq Ids \X Reasons
      /\ built'[r] = Fresh(r).fp /\ used'[r] = Fresh(r).deps
      /\ \A x \in Ids \ {r} : built'[x] = built[x] /\ used'[x] = used[x]
  <2> DEFINE excuses == Forgive(r) \cup {<<r, "late">> : d \in (Fresh(r).deps \cap Todo) \ {r}}
  <2>1. excuses \in SUBSET (Ids \X Reasons)
    BY <1>3, ReasonsType
  <2>2. Build(r, Fresh(r).fp, Fresh(r).deps, excuses)
    BY <1>1
  <2> HIDE DEF excuses
  <2> QED BY <1>3, <2>1, <2>2, BuildType
<1>5. /\ \A x \in DOMAIN obs' : obs'[x] \in Observation
      /\ DOMAIN obs' = DOMAIN obs /\ Changed(obs)' = Changed(obs)
      /\ PastInv' /\ ChangeInv' /\ EarnedInv' /\ GoneInv' /\ QuietInv'
  BY <1>1, <1>2, <1>4, FreshStep
<1>6. TypeOK'
  BY <1>1, <1>2, <1>3, <1>4, <1>5 DEF TypeOK
<1>7. PhaseInv' /\ PlannedInv'
  BY <1>1, <1>2, <1>5 DEF IInv, PhaseInv, PlannedInv
<1> QED BY <1>5, <1>6, <1>7 DEF IInv

LEMMA RefreshFailsStep == ASSUME IInv, NEW r \in Ids, RefreshFails(r) PROVE IInv'
<1>1. /\ Starts(r) /\ r \notin deleted /\ faults < MaxFaults /\ faults' = faults + 1
      /\ obs' = [obs EXCEPT ![r] = Fresh(r)]
      /\ failures' = WithBlocked(before, failures \cup {r})
      /\ Build(r, Fresh(r).fp, Fresh(r).deps, excused)
           \/ UNCHANGED <<built, used, behind, excused>>
      /\ UNCHANGED <<present, body, deps, edits, store, failFast, phase, request, complete,
                     discovered, before, deleted, pending, done, broken, status, owed, unmarked, lapsed,
                     quiet, refreshes>>
  BY DEF RefreshFails, world, missed, run, derived, Fault
<1>2. /\ phase = "executing" /\ r \in DOMAIN before /\ r \notin done /\ pending = {}
      /\ r \in DOMAIN obs /\ failures' \subseteq DOMAIN discovered \cup deleted
      /\ done \cap failures' = {}
  BY <1>1, StartProperties
<1>3. /\ TypeOK /\ Fresh(r).fp \in Versions \cup {Nothing} /\ Fresh(r).deps \in SUBSET Ids
      /\ excused \in SUBSET (Ids \X Reasons)
  BY <1>2, FreshType DEF IInv, Observation, TypeOK
<1>4. /\ built' \in [Ids -> Versions \cup {Nothing}] /\ used' \in [Ids -> SUBSET Ids]
      /\ behind' \subseteq Ids /\ excused' \subseteq Ids \X Reasons
      /\ \/ built'[r] = Fresh(r).fp /\ used'[r] = Fresh(r).deps
         \/ built'[r] = built[r] /\ used'[r] = used[r]
      /\ \A x \in Ids \ {r} : built'[x] = built[x] /\ used'[x] = used[x]
  <2>1. CASE Build(r, Fresh(r).fp, Fresh(r).deps, excused)
    BY <1>3, <2>1, BuildType
  <2>2. CASE UNCHANGED <<built, used, behind, excused>>
    BY <1>3, <2>2 DEF TypeOK
  <2> QED BY <1>1, <2>1, <2>2
<1>5. /\ \A x \in DOMAIN obs' : obs'[x] \in Observation
      /\ DOMAIN obs' = DOMAIN obs /\ Changed(obs)' = Changed(obs)
      /\ PastInv' /\ ChangeInv' /\ EarnedInv' /\ GoneInv' /\ QuietInv'
  BY <1>1, <1>2, <1>4, FreshStep
<1>6. TypeOK'
  <2>1. faults' \in 0..MaxFaults
    BY <1>1, <1>3, BoundsAssumption DEF TypeOK
  <2> QED BY <1>1, <1>2, <1>3, <1>4, <1>5, <2>1 DEF TypeOK
<1>7. PhaseInv' /\ PlannedInv'
  <2>1. failures \subseteq failures'
    BY <1>1, StartProperties
  <2> QED BY <1>1, <1>2, <1>5, <2>1 DEF IInv, PhaseInv, PlannedInv
<1> QED BY <1>5, <1>6, <1>7 DEF IInv

LEMMA RefreshUnreadStep == ASSUME IInv, NEW r \in Ids, RefreshUnread(r) PROVE IInv'
<1>1. /\ Starts(r) /\ failures' = WithBlocked(before, failures \cup {r})
      /\ faults' = faults \/ (faults < MaxFaults /\ faults' = faults + 1)
      /\ UNCHANGED <<present, body, deps, edits, store, failFast, phase, request, complete,
                     discovered, before, deleted, pending, done, obs, broken, status, built,
                     used, behind, excused, owed, unmarked, lapsed, quiet, refreshes>>
  BY DEF RefreshUnread, world, missed, run, derived, Sound, Fault
<1>2. /\ phase = "executing" /\ pending = {} /\ done \cap failures' = {}
      /\ failures \subseteq failures' /\ failures' \subseteq DOMAIN discovered \cup deleted
  BY <1>1, StartProperties
<1>3. TypeOK'
  <2>1. faults' \in 0..MaxFaults
    BY <1>1, BoundsAssumption DEF IInv, TypeOK
  <2> QED BY <1>1, <1>2, <2>1 DEF IInv, TypeOK
<1>4. PastInv' /\ ChangeInv'
  BY <1>1, QuietPast
<1>5. PhaseInv' /\ EarnedInv' /\ GoneInv' /\ QuietInv'
  BY <1>1, QuietStays DEF IInv, PhaseInv, EarnedInv, StateIsEarned, GoneInv
<1>6. PlannedInv'
  <2>1. Changed(obs)' = Changed(obs)
    BY <1>1 DEF Changed
  <2> QED BY <1>1, <1>2, <2>1 DEF IInv, PlannedInv
<1> QED BY <1>3, <1>4, <1>5, <1>6 DEF IInv

LEMMA DeleteStep ==
  ASSUME IInv, NEW r \in Ids, Delete(r) \/ DeleteFails(r)
  PROVE  IInv'
<1>1. /\ Starts(r) /\ r \in deleted
      /\ \/ Build(r, Nothing, {}, Forgive(r)) \/ Build(r, Nothing, {}, excused)
         \/ UNCHANGED <<built, used, behind, excused>>
      /\ \/ /\ done' = done \cup {r} /\ failures' = failures /\ faults' = faults
         \/ /\ done' = done /\ failures' = WithBlocked(before, failures \cup {r})
            /\ faults < MaxFaults /\ faults' = faults + 1
      /\ UNCHANGED <<present, body, deps, edits, store, failFast, phase, request, complete,
                     discovered, before, deleted, pending, obs, broken, status, owed, unmarked, lapsed, quiet,
                     refreshes>>
  BY DEF Delete, DeleteFails, world, missed, run, derived, Sound, Fault
<1>2. /\ phase = "executing" /\ r \in DOMAIN before /\ r \notin done /\ r \notin failures
      /\ pending = {} /\ \A x \in done \cup {r} : before[x] \subseteq done \cup {r}
      /\ WithBlocked(before, failures \cup {r}) \subseteq DOMAIN discovered \cup deleted
      /\ failures \subseteq WithBlocked(before, failures \cup {r})
      /\ done \cap WithBlocked(before, failures \cup {r}) = {}
  BY <1>1, StartProperties
<1>3. /\ TypeOK /\ Nothing \in Versions \cup {Nothing} /\ {} \in SUBSET Ids
      /\ excused \in SUBSET (Ids \X Reasons) /\ Forgive(r) \in SUBSET (Ids \X Reasons)
  BY ReasonsType DEF IInv, TypeOK
<1>4. /\ built' \in [Ids -> Versions \cup {Nothing}] /\ used' \in [Ids -> SUBSET Ids]
      /\ behind' \subseteq Ids /\ excused' \subseteq Ids \X Reasons
      /\ \A x \in Ids \ {r} : built'[x] = built[x] /\ used'[x] = used[x]
  <2>1. CASE Build(r, Nothing, {}, Forgive(r))
    BY <1>3, <2>1, BuildType
  <2>2. CASE Build(r, Nothing, {}, excused)
    BY <1>3, <2>2, BuildType
  <2>3. CASE UNCHANGED <<built, used, behind, excused>>
    BY <1>3, <2>3 DEF TypeOK
  <2> QED BY <1>1, <2>1, <2>2, <2>3
<1>5. failures \subseteq failures' /\ done' \subseteq done \cup {r} /\ done' \cap failures' = {}
  BY <1>1, <1>2, <1>3, ZenonT(60) DEF TypeOK
<1>6. TypeOK'
  <2>1. faults' \in 0..MaxFaults
    BY <1>1, <1>3, BoundsAssumption DEF TypeOK
  <2>2. /\ done' \subseteq DOMAIN before' \ failures'
        /\ failures' \subseteq DOMAIN discovered' \cup deleted'
        /\ pending' \subseteq DOMAIN discovered' \ (DOMAIN obs' \cup failures')
    BY <1>1, <1>2, <1>3, <1>5 DEF TypeOK
  <2> QED BY <1>1, <1>3, <1>4, <2>1, <2>2 DEF TypeOK
<1>7. PastInv' /\ ChangeInv'
  BY <1>1, QuietPast
<1>8. EarnedInv'
  <2>1. r \in present => store[r].fp # body[r]
    <3>1. r \in DOMAIN store \ DOMAIN discovered
      BY <1>1, <1>3 DEF TypeOK
    <3> QED BY <1>1, <1>2, <3>1 DEF IInv, GoneInv
  <2>2. StateIsEarned'
    <3> SUFFICES ASSUME NEW x \in present \cap DOMAIN store, store[x].fp = body[x],
                        store[x].deps = deps[x]
                 PROVE  built'[x] = body[x] /\ used'[x] = deps[x]
      BY <1>1 DEF StateIsEarned
    <3>1. x # r /\ x \in Ids
      BY <2>1, <1>3 DEF TypeOK
    <3> QED BY <1>4, <3>1 DEF IInv, EarnedInv, StateIsEarned
  <2>3. \A x \in done' \ deleted' : built'[x] = obs'[x].fp /\ used'[x] = obs'[x].deps
    <3> SUFFICES ASSUME NEW x \in done' \ deleted
                 PROVE  built'[x] = obs[x].fp /\ used'[x] = obs[x].deps
      BY <1>1
    <3>1. x # r /\ x \in done \ deleted /\ x \in Ids
      <4>1. x # r /\ x \in done \ deleted
        BY <1>1, <1>5
      <4>2. x \in DOMAIN obs
        BY <1>3, <4>1 DEF TypeOK
      <4> QED BY <1>3, <4>1, <4>2, Numbers
    <3> QED BY <1>4, <3>1 DEF IInv, EarnedInv
  <2> QED BY <2>2, <2>3 DEF EarnedInv
<1>9. PhaseInv' /\ GoneInv' /\ QuietInv'
  <2>1. r \notin DOMAIN obs
    BY <1>1, <1>3 DEF TypeOK
  <2>2. \A x \in done' \ done : x \notin DOMAIN obs
    BY <1>5, <2>1
  <2>3. QuietInv'
    BY <1>1, <2>2, QuietStays
  <2> QED BY <1>1, <1>2, <2>3 DEF IInv, PhaseInv, GoneInv
<1>10. PlannedInv'
  <2>1. Changed(obs)' = Changed(obs)
    BY <1>1 DEF Changed
  <2> QED BY <1>1, <1>2, <1>5, <2>1 DEF IInv, PlannedInv
<1> QED BY <1>6, <1>7, <1>8, <1>9, <1>10 DEF IInv

----------------------------------------------------------------------------
(* The refresh ends                                                         *)

\* What ends a refresh keeps the invariant if the store it leaves does.
LEMMA ForgetStep ==
  ASSUME IInv, NEW result \in Statuses, Forget(result),
         DOMAIN store' \subseteq Ids, \A x \in DOMAIN store' : store'[x] \in State,
         \A x \in DOMAIN store' : Was(store[x], x)' /\ store'[x].ind <= store'[x].fp,
         StateIsEarned',
         owed' \cup unmarked' \cup lapsed' \subseteq Ids,
         ~failFast => \A x \in Due' \cap present \cap DOMAIN store' : ~Current(x)',
         excused' \subseteq Ids \X Reasons, faults' \in 0..MaxFaults
  PROVE  IInv'
<1>1. /\ phase' = "idle" /\ status' = result /\ broken' = FALSE
      /\ DOMAIN discovered' = {} /\ DOMAIN obs' = {} /\ DOMAIN before' = {}
      /\ pending' = {} /\ deleted' = {} /\ done' = {} /\ failures' = {}
      /\ UNCHANGED <<present, body, deps, edits, built, used, behind, request, complete,
                     failFast, quiet, refreshes>>
  BY DEF Forget, Empty, world, derived
<1>2. discovered' \in Partial(Versions \cup {Nothing})
  <2>1. discovered' \in [{} -> Versions \cup {Nothing}]
    BY DEF Forget, Empty
  <2> QED BY <2>1 DEF Partial
<1>3. {complete', broken', quiet'} \subseteq BOOLEAN
  BY <1>1 DEF IInv, TypeOK
<1>4. TypeOK'
  BY <1>1, <1>2, <1>3 DEF IInv, TypeOK
<1>5. PhaseInv' /\ PastInv' /\ ChangeInv' /\ EarnedInv' /\ GoneInv' /\ QuietInv' /\ PlannedInv'
  BY <1>1 DEF IInv, PhaseInv, PastInv, ChangeInv, EarnedInv, GoneInv, QuietInv, PlannedInv
<1> QED BY <1>4, <1>5 DEF IInv

\* What is written was observed, and is the state of what was done, a retry
\* marker, or what is stored with another indicator.
LEMMA WritesProperties ==
  ASSUME IInv, NEW x \in Writes
  PROVE  /\ x \in DOMAIN obs /\ x \notin deleted
         /\ \/ x \in Planned \ done
            \/ x \in done \ deleted
            \/ /\ x \in DOMAIN store /\ x \notin DOMAIN before
               /\ store[x].fp = obs[x].fp /\ store[x].deps = obs[x].deps
<1>1. /\ deleted \cap DOMAIN obs = {} /\ done \subseteq DOMAIN before
      /\ DOMAIN before \subseteq DOMAIN obs \cup deleted
  BY DEF IInv, TypeOK
<1>2. x \in DOMAIN obs /\ x \notin deleted
  BY <1>1 DEF Writes
<1>3. CASE x \in done
  BY <1>2, <1>3
<1>4. CASE x \in DOMAIN before \ done
  BY <1>2, <1>4 DEF Planned
<1>5. CASE x \notin DOMAIN before
  <2>1. x \in DOMAIN store /\ obs[x].change = "UNCHANGED"
    BY <1>1, <1>5 DEF Writes, Planned
  <2>2. obs[x].change = Classify(x, obs[x].fp, obs[x].deps)
    BY <1>2, <1>5 DEF IInv, ChangeInv
  <2> QED BY <1>2, <1>5, <2>1, <2>2, ClassifyType
<1> QED BY <1>3, <1>4, <1>5

\* What was planned, is not done and is not written is a change still.
LEMMA OwedStays ==
  ASSUME IInv, phase # "idle", NEW x \in present \cap DOMAIN store, x \in DOMAIN before \ done,
         x \notin Writes
  PROVE  ~Current(x)
<1>1. CASE x \in deleted
  BY <1>1 DEF IInv, GoneInv, TypeOK, Current
<1>2. CASE x \notin deleted
  <2>1. x \in DOMAIN obs /\ x \in Planned
    BY <1>2 DEF IInv, TypeOK, Planned
  <2>2. obs[x].change # "UNCHANGED"
    BY <2>1 DEF Writes
  <2> QED BY <2>1, <2>2 DEF IInv, ChangeInv
<1> QED BY <1>1, <1>2

LEMMA CommittedProperties ==
  ASSUME IInv, NEW x \in DOMAIN Committed
  PROVE  /\ x \in Ids
         /\ \/ x \notin Writes /\ x \in DOMAIN store /\ Committed[x] = store[x]
            \/ x \in Writes /\ x \in Planned \ done /\ Committed[x] = RetryState(x)
            \/ x \in Writes /\ x \notin Planned \ done /\ Committed[x] = StateOf(x)
         /\ Committed[x] \in State
         /\ Was(Committed[x], x) /\ Committed[x].ind <= Committed[x].fp
<1>1. \A y \in Writes : y \in DOMAIN obs
  BY WritesProperties
<1>2. x \in DOMAIN store \cup Writes
  BY DEF Committed
<1>3. x \in Ids
  BY <1>1, <1>2, Numbers DEF IInv
<1>4. \/ x \notin Writes /\ x \in DOMAIN store /\ Committed[x] = store[x]
      \/ x \in Writes /\ x \in Planned \ done /\ Committed[x] = RetryState(x)
      \/ x \in Writes /\ x \notin Planned \ done /\ Committed[x] = StateOf(x)
  BY <1>2 DEF Committed
<1>5. CASE x \in DOMAIN store /\ Committed[x] = store[x]
  BY <1>3, <1>4, <1>5, Numbers DEF IInv, PastInv
<1>6. CASE x \in Writes /\ Committed[x] = RetryState(x)
  <2>1. obs[x].deps \subseteq Ids /\ body[x] \in Nat /\ body[x] # 0
    BY <1>1, <1>3, <1>6, Numbers DEF IInv
  <2>2. /\ Committed[x].fp = 0 /\ Committed[x].ind = 0 /\ Committed[x] \in State
    BY <1>6, <2>1 DEF RetryState, Retry, Nothing, State
  <2> QED BY <1>3, <1>4, <2>1, <2>2 DEF Was
<1>7. CASE x \in Writes /\ Committed[x] = StateOf(x)
  <2>1. /\ Was(obs[x], x) /\ obs[x].ind <= obs[x].fp
        /\ obs[x].deps \subseteq Ids /\ obs[x].fp \in Versions
        /\ obs[x].ind \in Versions \cup {Nothing}
    BY <1>1, <1>7, Numbers DEF IInv, PastInv
  <2> QED BY <1>3, <1>4, <1>7, <2>1 DEF StateOf, State, Was
<1> QED BY <1>4, <1>5, <1>6, <1>7

\* Once committed, the stored states are earned, and what is owed is a change.
LEMMA ApplyStep ==
  ASSUME IInv, phase # "idle", UNCHANGED <<present, body, deps, built, used>>,
         store' = Committed, Marked
  PROVE  /\ DOMAIN store' \subseteq Ids /\ \A x \in DOMAIN store' : store'[x] \in State
         /\ \A x \in DOMAIN store' : Was(store[x], x)' /\ store'[x].ind <= store'[x].fp
         /\ StateIsEarned'
         /\ ~failFast => \A x \in Due' \cap present \cap DOMAIN store' : ~Current(x)'
<1>1. /\ DOMAIN store' \subseteq Ids /\ \A x \in DOMAIN store' : store'[x] \in State
      /\ \A x \in DOMAIN store' : Was(store[x], x)' /\ store'[x].ind <= store'[x].fp
  BY CommittedProperties DEF Was
<1>2. ASSUME NEW x \in DOMAIN store', x \in Planned \ done, x \in Writes
      PROVE  ~Current(x)'
  <2>1. store'[x].fp = 0 /\ x \in Ids
    BY <1>2, CommittedProperties DEF RetryState, Retry
  <2>2. body[x] # 0
    BY <2>1, Numbers DEF IInv
  <2> QED BY <2>1, <2>2 DEF Current
<1>3. ASSUME NEW x \in DOMAIN store', x \notin Writes
      PROVE  x \in DOMAIN store /\ (Current(x)' <=> Current(x))
  BY <1>3, CommittedProperties DEF Current
<1>4. ASSUME NEW x \in DOMAIN store', x \in Writes, x \notin Planned \ done
      PROVE  /\ store'[x].fp = obs[x].fp /\ store'[x].deps = obs[x].deps
             /\ \/ x \in done \ deleted
                \/ x \in DOMAIN store /\ x \notin DOMAIN before /\ (Current(x)' <=> Current(x))
  <2>1. store'[x] = StateOf(x)
    BY <1>4, CommittedProperties
  <2>2. store'[x].fp = obs[x].fp /\ store'[x].deps = obs[x].deps
    BY <2>1 DEF StateOf
  <2> QED BY <1>4, <2>2, WritesProperties DEF Current
<1>5. StateIsEarned'
  <2> SUFFICES ASSUME NEW x \in present \cap DOMAIN store', Current(x)'
               PROVE  built[x] = body[x] /\ used[x] = deps[x]
    BY DEF StateIsEarned, Current
  <2>1. CASE x \in DOMAIN store /\ Current(x)
    BY <2>1 DEF IInv, EarnedInv, StateIsEarned, Current
  <2>2. CASE x \in done \ deleted /\ store'[x].fp = obs[x].fp /\ store'[x].deps = obs[x].deps
    BY <2>2 DEF IInv, EarnedInv, Current
  <2> QED BY <1>2, <1>3, <1>4, <2>1, <2>2
<1>6. ~failFast => \A x \in Due' \cap present \cap DOMAIN store' : ~Current(x)'
  <2> SUFFICES ASSUME ~failFast, NEW x \in Due' \cap present \cap DOMAIN store'
               PROVE  ~Current(x)'
    OBVIOUS
  <2>1. x \notin done /\ (x \in DOMAIN before \/ x \in Due)
    BY DEF Marked, Owe, Due
  <2>2. x \in DOMAIN store /\ x \in Due => ~Current(x)
    BY DEF IInv, ChangeInv
  <2>3. CASE x \notin Writes
    BY <1>3, <2>1, <2>2, <2>3, OwedStays
  <2>4. CASE x \in Writes
    BY <1>2, <1>4, <2>1, <2>2, <2>4
  <2> QED BY <2>3, <2>4
<1> QED BY <1>1, <1>5, <1>6

\* A refresh that stores nothing leaves the store as it was.
LEMMA KeepStep ==
  ASSUME IInv, UNCHANGED <<present, body, deps, built, used, store>>
  PROVE  /\ DOMAIN store' \subseteq Ids /\ \A x \in DOMAIN store' : store'[x] \in State
         /\ \A x \in DOMAIN store' : Was(store[x], x)' /\ store'[x].ind <= store'[x].fp
         /\ StateIsEarned'
         /\ \A x : Current(x)' <=> Current(x)
<1>1. /\ DOMAIN store' \subseteq Ids /\ \A x \in DOMAIN store' : store'[x] \in State
      /\ StateIsEarned'
  BY DEF IInv, TypeOK, EarnedInv, StateIsEarned
<1>2. \A x \in DOMAIN store' : Was(store[x], x)' /\ store'[x].ind <= store'[x].fp
  BY DEF IInv, PastInv, Was
<1> QED BY <1>1, <1>2 DEF Current

LEMMA StatusOfType == ASSUME NEW f, NEW b PROVE StatusOf(f, b) \in Statuses
BY DEF StatusOf, Statuses

LEMMA OweType ==
  ASSUME IInv, Marked \/ Unmarked
  PROVE  owed' \cup unmarked' \cup lapsed' \subseteq Ids
<1>1. /\ owed \subseteq Ids /\ unmarked \subseteq Ids /\ deleted \subseteq Ids
      /\ DOMAIN before \subseteq DOMAIN obs \cup deleted
  BY DEF IInv, TypeOK
<1>2. DOMAIN before \subseteq Ids
  BY <1>1, Numbers DEF IInv
<1> QED BY <1>1, <1>2 DEF Marked, Unmarked, Owe, Planned

\* If nothing is stored, what is owed and not among the unmarked is a change.
LEMMA UnmarkedStep ==
  ASSUME IInv, phase # "idle", Unmarked, ~failFast, NEW x \in Due' \cap present \cap DOMAIN store
  PROVE  ~Current(x)
<1>1. /\ x \notin done
      /\ x \in DOMAIN before \/ x \in owed
      /\ x \notin unmarked \/ x \in Changed(obs)
      /\ x \notin Planned \/ x \in Changed(obs)
  BY DEF Unmarked, Owe, Due, Planned
<1>2. CASE x \in Changed(obs)
  BY <1>2 DEF Changed, IInv, ChangeInv
<1>3. CASE x \in deleted
  BY <1>3 DEF IInv, GoneInv, TypeOK, Current
<1>4. CASE x \notin Changed(obs) /\ x \notin deleted
  <2>1. x \in Due
    BY <1>1, <1>4 DEF Planned, Due
  <2> QED BY <2>1 DEF IInv, ChangeInv
<1> QED BY <1>2, <1>3, <1>4

LEMMA ExcuseType ==
  ASSUME IInv, Excuse
  PROVE  excused' \subseteq Ids \X Reasons
<1>1. behind \subseteq Ids /\ excused \subseteq Ids \X Reasons
  BY DEF IInv, TypeOK
<1>2. {"unlisted", "unread", "mode"} \subseteq Reasons
  BY DEF Reasons
<1> QED BY <1>1, <1>2 DEF Excuse

LEMMA EndStep ==
  ASSUME IInv, NothingToPersist \/ Commit \/ CommitFails \/ Abandon
  PROVE  IInv'
<1>1. /\ phase # "idle"
      /\ UNCHANGED <<present, body, deps, built, used, failFast>>
      /\ \E result \in Statuses : Forget(result)
  BY StatusOfType
  DEF NothingToPersist, Commit, CommitFails, Abandon, Forget, world, derived, Statuses
<1>2. faults' \in 0..MaxFaults
  <2>1. faults' = faults \/ (faults < MaxFaults /\ faults' = faults + 1)
    BY DEF NothingToPersist, Commit, CommitFails, Abandon, Sound, Fault
  <2> QED BY <2>1, BoundsAssumption DEF IInv, TypeOK
<1>3. CASE Apply
  BY <1>1, <1>2, <1>3, ApplyStep, OweType, ExcuseType, ForgetStep DEF Apply
<1>4. CASE UNCHANGED <<store, excused>> /\ Unmarked
  <2>1. ~failFast => \A x \in Due' \cap present \cap DOMAIN store' : ~Current(x)
    BY <1>1, <1>4, UnmarkedStep
  <2>2. excused' \subseteq Ids \X Reasons
    BY <1>4 DEF IInv, TypeOK
  <2> QED BY <1>1, <1>2, <1>4, <2>1, <2>2, KeepStep, OweType, ForgetStep
<1> QED BY <1>3, <1>4 DEF NothingToPersist, Commit, CommitFails, Abandon, Discard

----------------------------------------------------------------------------
(* The theorems                                                             *)

LEMMA InitStep == Init => IInv
<1> SUFFICES ASSUME Init PROVE IInv
  OBVIOUS
<1>1. /\ present = Ids /\ body = [r \in Ids |-> 1] /\ deps \in InitialDeps
      /\ failFast \in Policies /\ phase = "idle" /\ status = "NONE"
      /\ request = CHOOSE q \in Requests[failFast] : TRUE
      /\ complete = TRUE /\ broken = FALSE /\ quiet = TRUE
      /\ discovered = Empty /\ obs = Empty /\ before = Empty
      /\ pending = {} /\ deleted = {} /\ done = {} /\ failures = {}
      /\ behind = {} /\ excused = {} /\ owed = {} /\ unmarked = {} /\ lapsed = {}
      /\ edits = 0 /\ refreshes = 0 /\ faults = 0
  BY DEF Init
<1>2. /\ 1 \in Versions /\ 1 # Nothing /\ deps \in [Ids -> SUBSET Ids]
  <2>1. 1 \in Versions
    BY BoundsAssumption DEF Versions
  <2>2. \A r \in Ids : deps[r] \subseteq Ids
    BY <1>1, InitialDepsAssumption, MayDependAssumption
  <2> QED BY <1>1, <2>1, <2>2, InitialDepsAssumption DEF Nothing
<1>3. ASSUME NEW r \in Ids
      PROVE  Indicator(r) \in Versions \cup {Nothing} /\ Indicator(r) <= 1
  <2>1. Indicator(r) = 1 \/ Indicator(r) = 0
    BY <1>1 DEF Indicator, Nothing
  <2> QED BY <1>2, <2>1 DEF Nothing
<1>4. \/ DOMAIN store = {} /\ built = [r \in Ids |-> Nothing] /\ used = [r \in Ids |-> {}]
      \/ /\ DOMAIN store = Ids /\ built = [r \in Ids |-> 1] /\ used = deps
         /\ \A r \in Ids : store[r] = [fp |-> 1, deps |-> deps[r], ind |-> Indicator(r)]
  BY DEF Init, Empty
<1>5. /\ DOMAIN store \subseteq Ids
      /\ \A r \in DOMAIN store :
            /\ store[r] \in State /\ store[r].fp = 1 /\ store[r].ind <= 1
            /\ store[r].deps = deps[r] /\ built[r] = 1 /\ used[r] = deps[r]
  <2>1. CASE DOMAIN store = {}
    BY <2>1
  <2>2. CASE /\ DOMAIN store = Ids /\ built = [r \in Ids |-> 1] /\ used = deps
             /\ \A r \in Ids : store[r] = [fp |-> 1, deps |-> deps[r], ind |-> Indicator(r)]
    <3> SUFFICES ASSUME NEW r \in Ids
                 PROVE  store[r] \in State /\ store[r].fp = 1 /\ store[r].ind <= 1
                        /\ store[r].deps = deps[r]
      BY <2>2
    <3>1. store[r] = [fp |-> 1, deps |-> deps[r], ind |-> Indicator(r)]
      BY <2>2
    <3> QED BY <1>2, <1>3, <3>1 DEF State
  <2> QED BY <1>4, <2>1, <2>2
<1>6. /\ built \in [Ids -> Versions \cup {Nothing}] /\ used \in [Ids -> SUBSET Ids]
  BY <1>2, <1>4
<1>7. Empty \in Partial(Versions \cup {Nothing}) /\ DOMAIN Empty = {}
  <2>1. Empty \in [{} -> Versions \cup {Nothing}]
    BY DEF Empty
  <2> QED BY <2>1 DEF Partial
<1>8. request \in Requests[failFast] /\ failFast \in BOOLEAN
  BY <1>1, RequestsAssumption, PoliciesAssumption
<1>9. TypeOK
  <2>1. body \in [Ids -> Versions]
    BY <1>1, <1>2
  <2>2. 0 \in 0..MaxEdits /\ 0 \in 0..MaxRefreshes /\ 0 \in 0..MaxFaults
    BY BoundsAssumption
  <2>3. "NONE" \in Statuses
    BY DEF Statuses
  <2> QED BY <1>1, <1>2, <1>5, <1>6, <1>7, <1>8, <2>1, <2>2, <2>3 DEF TypeOK
<1>10. PhaseInv /\ ChangeInv /\ GoneInv /\ QuietInv /\ PlannedInv
  BY <1>1, <1>7 DEF PhaseInv, ChangeInv, GoneInv, QuietInv, PlannedInv, Due
<1>11. PastInv
  BY <1>1, <1>5, <1>7 DEF PastInv, Was
<1>12. EarnedInv
  BY <1>1, <1>5 DEF EarnedInv, StateIsEarned
<1> QED BY <1>9, <1>10, <1>11, <1>12 DEF IInv

LEMMA RestStep == ASSUME IInv, UNCHANGED vars PROVE IInv'
<1>1. UNCHANGED <<present, body, deps, edits, store, failFast, phase, request, complete,
                  discovered, before, deleted, pending, done, obs, failures, broken, status,
                  built, used, behind, excused, owed, unmarked, lapsed, quiet, refreshes, faults>>
  BY DEF vars, world, missed, run, derived
<1>2. TypeOK'
  BY <1>1 DEF IInv, TypeOK
<1>3. PastInv' /\ ChangeInv'
  BY <1>1, QuietPast
<1>4. PhaseInv' /\ EarnedInv' /\ GoneInv' /\ QuietInv'
  BY <1>1, QuietStays DEF IInv, PhaseInv, EarnedInv, StateIsEarned, GoneInv
<1>5. PlannedInv'
  <2>1. Changed(obs)' = Changed(obs)
    BY <1>1 DEF Changed
  <2> QED BY <1>1, <2>1 DEF IInv, PlannedInv
<1> QED BY <1>2, <1>3, <1>4, <1>5 DEF IInv

LEMMA NextStep == IInv /\ [Next]_vars => IInv'
<1> SUFFICES ASSUME IInv, [Next]_vars PROVE IInv'
  OBVIOUS
<1>1. ASSUME NEW r \in Ids, Edit(r) \/ Observe(r) \/ ObserveFails(r) \/ Item(r) PROVE IInv'
  BY <1>1, EditStep, ObserveStep, ObserveFailsStep, RefreshStep, RefreshUnreadStep,
     RefreshFailsStep, DeleteStep
  DEF Item
<1>2. ASSUME NEW q \in Requests[failFast], Begin(q) \/ BeginPartially(q) \/ BeginFails(q)
      PROVE  IInv'
  BY <1>2, BeginStep, BeginFailsStep
<1>3. CASE Plan \/ StagesEnd \/ Timeout
  BY <1>3, PlanStep, StagesEndStep
<1>4. CASE NothingToPersist \/ Commit \/ CommitFails \/ Abandon
  BY <1>4, EndStep
<1>5. CASE Rest \/ UNCHANGED vars
  BY <1>5, RestStep DEF Rest
<1> QED BY <1>1, <1>2, <1>3, <1>4, <1>5 DEF Next

\* The invariant holds in every state: what a refresh knows and what the store
\* keeps of a resource is what it was once, changes that were seen are not lost
\* before they are stored, and what is stored as current was built.
THEOREM InductiveInvariant == Spec => []IInv
<1>1. Init => IInv
  BY InitStep
<1>2. IInv /\ [Next]_vars => IInv'
  BY NextStep
<1> QED BY <1>1, <1>2, PTL DEF Spec

\* Every variable has its type, and the sets that a refresh keeps apart stay
\* apart (context.py).
THEOREM TypeCorrect == Spec => []TypeOK
<1>1. IInv => TypeOK
  BY DEF IInv
<1> QED BY <1>1, InductiveInvariant, PTL

\* The stored state never calls a resource unchanged that no operation has
\* built as it is now (context.py, Observation.state; execution.py, _run_item).
THEOREM StateEarned == Spec => []StateIsEarned
<1>1. IInv => StateIsEarned
  BY DEF IInv, EarnedInv
<1> QED BY <1>1, InductiveInvariant, PTL

----------------------------------------------------------------------------
(* Nothing existing is deleted                                              *)

\* While no resource changes, a deletion is of a resource that is absent.
LEMMA DeletedAreAbsent ==
  ASSUME IInv, quiet, NEW r \in deleted
  PROVE  r \notin present
<1>1. phase # "idle" /\ complete /\ r \notin DOMAIN discovered
  BY DEF IInv, GoneInv, TypeOK
<1> QED BY <1>1 DEF IInv, QuietInv

\* If no resource changed since the refresh began, derived data and stored
\* states go only for absent resources (pipeline.py, _deletions).
THEOREM NoFalseDeletionHolds == Spec => NoFalseDeletion
<1>1. IInv /\ [Next]_vars =>
         [quiet => \A r \in present :
             /\ built[r] # Nothing => built'[r] # Nothing
             /\ r \in DOMAIN store => r \in DOMAIN store']_vars
  <2> SUFFICES ASSUME IInv, Next, quiet, NEW x \in present
               PROVE  /\ built[x] # Nothing => built'[x] # Nothing
                      /\ x \in DOMAIN store => x \in DOMAIN store'
    OBVIOUS
  <2>1. x \in Ids /\ x \notin deleted /\ TypeOK
    BY DeletedAreAbsent DEF IInv, TypeOK
  <2>2. DOMAIN store \ deleted \subseteq DOMAIN Committed
    BY DEF Committed
  <2>3. ASSUME NEW r \in Ids, Item(r) PROVE built[x] # Nothing => built'[x] # Nothing
    <3>1. CASE Refresh(r) \/ RefreshFails(r)
      <4>1. r \in DOMAIN obs
        BY <3>1, StartProperties DEF Refresh, RefreshFails
      <4>2. Fresh(r).fp # Nothing
        BY <2>1, <4>1, FreshType, Numbers DEF Observation, Nothing
      <4>3. built' = [built EXCEPT ![r] = Fresh(r).fp] \/ built' = built
        BY <3>1, BuildBuilt DEF Refresh, RefreshFails, derived
      <4> QED BY <2>1, <4>2, <4>3 DEF TypeOK
    <3>2. CASE Delete(r) \/ DeleteFails(r)
      <4>1. r # x /\ (built' = [built EXCEPT ![r] = Nothing] \/ built' = built)
        BY <2>1, <3>2, BuildBuilt DEF Delete, DeleteFails, derived
      <4> QED BY <2>1, <4>1 DEF TypeOK
    <3>3. CASE RefreshUnread(r)
      BY <3>3 DEF RefreshUnread, derived
    <3> QED BY <2>3, <3>1, <3>2, <3>3 DEF Item
  <2>4. ASSUME NEW r \in Ids, Item(r) PROVE store' = store
    BY <2>4 DEF Item, Refresh, RefreshFails, RefreshUnread, Delete, DeleteFails
  <2>5. CASE \E r \in Ids : Edit(r) \/ Observe(r) \/ ObserveFails(r)
    BY <2>5 DEF Edit, Write, Link, Remove, Edited, Observe, ObserveFails, derived
  <2>6. CASE \E q \in Requests[failFast] : Begin(q) \/ BeginPartially(q) \/ BeginFails(q)
    BY <2>6 DEF Begin, BeginPartially, BeginFails, Accept, derived
  <2>7. CASE Plan \/ StagesEnd \/ Timeout \/ NothingToPersist \/ Abandon \/ Rest
    BY <2>7
    DEF Plan, StagesEnd, Timeout, NothingToPersist, Abandon, Discard, Rest, Forget, vars, derived
  <2>8. CASE Commit \/ CommitFails
    BY <2>1, <2>2, <2>8 DEF Commit, CommitFails, Apply, Discard, Forget, derived
  <2> QED BY <2>3, <2>4, <2>5, <2>6, <2>7, <2>8 DEF Next
<1> QED BY <1>1, InductiveInvariant, PTL DEF Spec, NoFalseDeletion

----------------------------------------------------------------------------
(* SUCCESS is current                                                       *)

\* What is stored of x is x as it is, or its indicator hides the rest.
StoredAsIs(s, x) ==
    /\ s.fp = body[x]
    /\ s.deps = deps[x] \/ (Unread(request) /\ Veiled(x) /\ s = store[x])

\* What a refresh of everything that succeeds leaves in the store.
LEMMA SuccessEnds ==
  ASSUME IInv, phase = "persisting", failures = {}, ~broken, quiet, complete,
         request.mode # "TARGETED"
  PROVE  /\ DOMAIN Committed = present
         /\ \A x \in present : StoredAsIs(Committed[x], x)
         /\ ~HasWork => /\ DOMAIN store = present
                        /\ \A x \in present : StoredAsIs(store[x], x)
<1>1. /\ DOMAIN obs \subseteq DOMAIN discovered /\ DOMAIN before \subseteq DOMAIN obs \cup deleted
      /\ done \subseteq DOMAIN before /\ deleted \subseteq DOMAIN before
  BY DEF IInv, TypeOK, PhaseInv
<1>2. /\ DOMAIN discovered \subseteq DOMAIN obs /\ Changed(obs) \subseteq DOMAIN before
      /\ deleted = DOMAIN store \ DOMAIN discovered /\ DOMAIN before \subseteq done
  BY DEF IInv, PlannedInv
<1>3. /\ DOMAIN discovered = present
      /\ \A x \in DOMAIN obs :
           /\ obs[x].fp = body[x]
           /\ \/ obs[x].deps = deps[x]
              \/ Unread(request) /\ Veiled(x) /\ obs[x] = Cheaply(x) /\ x \notin done
  BY DEF IInv, QuietInv
<1>4. DOMAIN obs = present /\ deleted = DOMAIN store \ present /\ done = DOMAIN before
  BY <1>1, <1>2, <1>3
<1>5. Writes \subseteq present /\ Planned \ done = {}
  BY <1>1, <1>4 DEF Writes, Planned
<1>6. ASSUME NEW x \in present, x \notin Writes
      PROVE  x \in DOMAIN store /\ StoredAsIs(store[x], x)
  <2>1. x \in DOMAIN obs \ DOMAIN before
    BY <1>4, <1>6 DEF Writes
  <2>2. obs[x].change = "UNCHANGED"
    BY <1>2, <2>1 DEF Changed
  <2>3. obs[x].change = Classify(x, obs[x].fp, obs[x].deps)
    BY <2>1 DEF IInv, ChangeInv
  <2>4. x \in DOMAIN store /\ store[x].fp = obs[x].fp /\ store[x].deps = obs[x].deps
    BY <2>2, <2>3, ClassifyType
  <2> QED BY <1>3, <2>1, <2>4 DEF StoredAsIs
<1>10. ASSUME NEW x \in Writes PROVE StoredAsIs(StateOf(x), x)
  <2>1. x \in DOMAIN obs /\ (x \in done \/ store[x].ind # obs[x].ind)
    BY <1>4, <1>5, <1>10 DEF Writes
  <2>2. Veiled(x) /\ obs[x] = Cheaply(x) => obs[x].ind = store[x].ind
    BY DEF Veiled, CheapMatch, Cheaply
  <2> QED BY <1>3, <2>1, <2>2 DEF StoredAsIs, StateOf
<1>7. DOMAIN Committed = present
  <2>1. deleted \cap done = deleted
    BY <1>1, <1>4
  <2>2. DOMAIN Committed = (DOMAIN store \cup Writes) \ deleted
    BY <2>1 DEF Committed
  <2> QED BY <1>4, <1>5, <1>6, <2>2
<1>8. \A x \in present : StoredAsIs(Committed[x], x)
  <2> SUFFICES ASSUME NEW x \in present PROVE StoredAsIs(Committed[x], x)
    OBVIOUS
  <2>1. \/ x \notin Writes /\ Committed[x] = store[x]
        \/ x \in Writes /\ Committed[x] = StateOf(x)
    BY <1>5, <1>7, CommittedProperties
  <2> QED BY <1>6, <1>10, <2>1
<1>9. ~HasWork => Writes = {} /\ deleted = {}
  BY <1>1, <1>4 DEF HasWork
<1> QED BY <1>4, <1>6, <1>7, <1>8, <1>9

\* A refresh of everything that reports SUCCESS, while no resource changes,
\* leaves the store equal to the resources, but for the dependencies of those
\* that a mode which reads no more than it must took for unchanged by their
\* indicator (pipeline.py, run and _persist; observation.py, cheap_match).
THEOREM SuccessCurrent == Spec => []SuccessIsCurrent
<1>1. Init => SuccessIsCurrent
  BY DEF Init, SuccessIsCurrent
<1>2. IInv /\ SuccessIsCurrent /\ [Next]_vars => SuccessIsCurrent'
  <2> SUFFICES ASSUME IInv, SuccessIsCurrent, [Next]_vars PROVE SuccessIsCurrent'
    OBVIOUS
  <2>1. ASSUME NEW r \in Ids, Edit(r) PROVE SuccessIsCurrent'
    <3>1. quiet' = FALSE
      BY <2>1 DEF Edit, Write, Link, Remove, Edited
    <3> QED BY <3>1 DEF SuccessIsCurrent
  <2>2. ASSUME NEW r \in Ids, Observe(r) \/ ObserveFails(r) \/ Item(r)
        PROVE  SuccessIsCurrent'
    <3>1. phase' # "idle"
      BY <2>2 DEF Observe, ObserveFails, Item, Refresh, RefreshUnread, RefreshFails, Delete,
                  DeleteFails, Starts
    <3> QED BY <3>1 DEF SuccessIsCurrent
  <2>3. ASSUME NEW q \in Requests[failFast], Begin(q) \/ BeginPartially(q) \/ BeginFails(q)
        PROVE  SuccessIsCurrent'
    <3>1. phase' # "idle" \/ status' # "SUCCESS"
      BY <2>3 DEF Begin, BeginPartially, BeginFails
    <3> QED BY <3>1 DEF SuccessIsCurrent
  <2>4. CASE Plan \/ StagesEnd \/ Timeout
    <3>1. phase' # "idle"
      BY <2>4 DEF Plan, StagesEnd, Timeout
    <3> QED BY <3>1 DEF SuccessIsCurrent
  <2>5. CASE CommitFails \/ Abandon
    <3>1. status' # "SUCCESS"
      BY <2>5 DEF CommitFails, Abandon, Forget
    <3> QED BY <3>1 DEF SuccessIsCurrent
  <2>6. CASE NothingToPersist \/ Commit
    <3>1. /\ phase = "persisting" /\ status' = StatusOf(failures, broken)
          /\ UNCHANGED <<present, body, deps, quiet, complete, request>>
          /\ store' = Committed \/ (store' = store /\ (ShouldStop \/ ~HasWork))
      BY <2>6 DEF NothingToPersist, Commit, Apply, Forget, world
    <3>2. status' = "SUCCESS" => failures = {} /\ ~broken
      BY <3>1 DEF StatusOf
    <3>3. status' = "SUCCESS" => ~ShouldStop
      BY <3>2 DEF ShouldStop
    <3>4. \A x \in present : StoredAsIs(store'[x], x) /\ Veiled(x) /\ store'[x] = store[x]
                                /\ DOMAIN store' = present => Veiled(x)'
      BY <3>1 DEF Veiled, CheapMatch, Indicator
    <3> QED BY <3>1, <3>2, <3>3, <3>4, SuccessEnds DEF SuccessIsCurrent, StoredAsIs
  <2>7. CASE Rest \/ UNCHANGED vars
    <3>1. \A x : Veiled(x)' <=> Veiled(x)
      BY <2>7, QuietKept DEF Rest, vars, world
    <3> QED BY <2>7, <3>1 DEF Rest, vars, world, run, SuccessIsCurrent
  <2> QED BY <2>1, <2>2, <2>3, <2>4, <2>5, <2>6, <2>7 DEF Next
<1> QED BY <1>1, <1>2, InductiveInvariant, PTL DEF Spec

----------------------------------------------------------------------------
(* Nothing stays behind unseen                                              *)

\* The store, or its lack of a state, shows the next refresh that x is not what
\* was last built of it.
Flagged(x) ==
    IF x \in DOMAIN store THEN x \notin present \/ ~Current(x) ELSE built[x] # Nothing

Excused(x) == \E e \in excused : e[1] = x

\* Nothing in S shows a change, and it was built from nothing outside S.
Settled(S) == \A x \in S : used[x] \subseteq S /\ ~Flagged(x)

\* What is behind was built from something whose change can still be seen,
\* directly or not, or is excused.
BehindInv == \A S \in SUBSET Ids : Settled(S) => \A x \in S \cap behind : Excused(x)

\* Only what was built used something, or can be behind it.
DerivedInv == /\ \A x \in Ids : used[x] # {} => built[x] # Nothing
              /\ \A x \in behind : built[x] # Nothing

\* What was refreshed used nothing whose turn is still to come.
DoneInv == \A x \in done \ deleted : Excused(x) \/ (x \notin behind /\ used[x] \cap Todo = {})

\* What a plan leaves out it cannot reach, directly or not: it depends on
\* nothing that the plan refreshes or deletes.
ReachInv ==
    DOMAIN before # {} =>
        /\ pending = {}
        /\ request.mode # "TARGETED" => Changed(obs) \subseteq DOMAIN before
        /\ request.mode = "FULL" => DOMAIN obs \subseteq DOMAIN before
        /\ request.mode = "DEPENDENCY_AWARE" =>
             \A r \in DOMAIN obs \ DOMAIN before : \E C \in SUBSET Ids :
                 r \in C /\ C \cap DOMAIN before = {} /\ \A x \in C : Known(obs)[x] \subseteq C

InputsInv == BehindInv /\ DerivedInv /\ DoneInv /\ ReachInv

\* Steps that leave alone what the derived data and the plan are made of.
LEMMA InputsKept ==
  ASSUME IInv, InputsInv,
         UNCHANGED <<store, present, body, deps, built, used, behind, excused>>,
         \/ UNCHANGED <<obs, pending, request>>
         \/ DOMAIN before' = {},
         \/ done' = {}
         \/ UNCHANGED <<done, deleted>> /\ Todo' \subseteq Todo,
         DOMAIN before' = {} \/ before' = before
  PROVE  InputsInv'
<1>1. \A x : (Flagged(x)' <=> Flagged(x)) /\ (Excused(x)' <=> Excused(x))
  BY DEF Flagged, Current, Excused
<1>2. \A S : Settled(S)' <=> Settled(S)
  BY <1>1 DEF Settled
<1>3. BehindInv'
  BY <1>1, <1>2 DEF InputsInv, BehindInv
<1>4. DerivedInv'
  BY DEF InputsInv, DerivedInv
<1>5. DoneInv'
  <2>1. CASE done' = {}
    BY <2>1 DEF DoneInv
  <2>2. CASE UNCHANGED <<done, deleted>> /\ Todo' \subseteq Todo
    BY <1>1, <2>2 DEF InputsInv, DoneInv
  <2> QED BY <2>1, <2>2
<1>6. ReachInv'
  <2>1. CASE DOMAIN before' = {}
    BY <2>1 DEF ReachInv
  <2>2. CASE before' = before /\ UNCHANGED <<obs, pending, request>>
    BY <2>2 DEF InputsInv, ReachInv, Changed, Known
  <2> QED BY <2>1, <2>2
<1> QED BY <1>3, <1>4, <1>5, <1>6 DEF InputsInv

\* A change of a resource only adds to what the store shows as changed.
LEMMA EditInputs ==
  ASSUME IInv, InputsInv, NEW r \in Ids, Edit(r)
  PROVE  InputsInv'
<1>1. UNCHANGED <<store, phase, request, pending, obs, before, deleted, done, failures,
                  built, used, behind, excused>>
  BY DEF Edit, Write, Link, Remove, Edited, Sound, run, derived
<1>2. \A x \in DOMAIN store : Current(x)' => Current(x) /\ (x \in present' => x \in present)
  BY <1>1, EditCurrent
<1>3. \A x : (Flagged(x) => Flagged(x)') /\ (Excused(x)' <=> Excused(x))
  BY <1>1, <1>2 DEF Flagged, Excused
<1>4. \A S : Settled(S)' => Settled(S)
  BY <1>1, <1>3 DEF Settled
<1>5. BehindInv'
  BY <1>1, <1>3, <1>4 DEF InputsInv, BehindInv
<1>6. DerivedInv' /\ DoneInv'
  BY <1>1, <1>3 DEF InputsInv, DerivedInv, DoneInv, Todo
<1>7. ReachInv'
  BY <1>1 DEF InputsInv, ReachInv, Changed, Known
<1> QED BY <1>5, <1>6, <1>7 DEF InputsInv
\* What an operation leaves behind can be seen, or is excused.
LEMMA BuildInputs ==
  ASSUME IInv, IInv', InputsInv, NEW r \in Ids, NEW content, NEW ds, NEW excuses,
         Build(r, content, ds, excuses), Forgive(r) \subseteq excuses,
         r \in DOMAIN store \/ content # Nothing, ds # {} => content # Nothing,
         UNCHANGED <<store, present, body, deps>>
  PROVE  /\ BehindInv' /\ DerivedInv' /\ r \notin behind' /\ used'[r] = ds
         /\ \A x \in Ids \ {r} :
              /\ used'[x] = used[x] /\ (Excused(x) => Excused(x)')
              /\ r \notin used[x] /\ x \notin behind => x \notin behind'
<1> DEFINE told == {x \in Ids : (built[r] # content \/ used[r] # ds \/ r \in behind) /\ r \in used[x]}
<1>1. /\ built' = [built EXCEPT ![r] = content] /\ used' = [used EXCEPT ![r] = ds]
      /\ behind' = (behind \cup told) \ {r}
      /\ excused' = excuses \cup {<<x, e[2]>> : x \in told, e \in {f \in excused : f[1] = r}}
  BY DEF Build
<1>2. \A x \in told : r \in used[x] /\ (built[r] # content \/ used[r] # ds \/ r \in behind)
  OBVIOUS
<1> HIDE DEF told
<1>3. /\ DOMAIN built = Ids /\ DOMAIN used = Ids /\ present \subseteq Ids
      /\ built'[r] = content /\ used'[r] = ds /\ behind \subseteq Ids
      /\ \A x \in Ids \ {r} : built'[x] = built[x] /\ used'[x] = used[x]
  BY <1>1 DEF IInv, TypeOK
<1>4. \A x \in Ids \ {r} : Excused(x) => Excused(x)'
  <2> SUFFICES ASSUME NEW x \in Ids \ {r}, NEW e \in excused, e[1] = x PROVE Excused(x)'
    BY DEF Excused
  <2>1. e \in excused'
    BY <1>1 DEF Forgive
  <2> QED BY <2>1 DEF Excused
<1>5. Excused(r) => \A x \in told : Excused(x)'
  <2> SUFFICES ASSUME NEW e \in excused, e[1] = r, NEW x \in told PROVE Excused(x)'
    BY DEF Excused
  <2>1. <<x, e[2]>> \in excused'
    BY <1>1
  <2> QED BY <2>1 DEF Excused
<1>6. \A x \in Ids \ {r} : Flagged(x)' <=> Flagged(x)
  BY <1>3 DEF Flagged, Current
<1>7. ~Flagged(r)' => built[r] = content /\ used[r] = ds /\ ~Flagged(r)
  <2> SUFFICES ASSUME ~Flagged(r)' PROVE built[r] = content /\ used[r] = ds /\ ~Flagged(r)
    OBVIOUS
  <2>1. r \in DOMAIN store /\ r \in present /\ Current(r)
    BY <1>3 DEF Flagged, Current
  <2>2. built[r] = body[r] /\ used[r] = deps[r]
    BY <2>1 DEF IInv, EarnedInv, StateIsEarned, Current
  <2>3. built'[r] = body[r] /\ used'[r] = deps[r]
    BY <2>1 DEF IInv, EarnedInv, StateIsEarned, Current
  <2> QED BY <1>3, <2>1, <2>2, <2>3 DEF Flagged
<1>8. BehindInv'
  <2> SUFFICES ASSUME NEW S \in SUBSET Ids, Settled(S)', NEW x \in S \cap behind'
               PROVE  Excused(x)'
    BY DEF BehindInv
  <2>1. Settled(S)
    <3>1. \A y \in S : used'[y] \subseteq S /\ ~Flagged(y)'
      BY DEF Settled
    <3> QED BY <1>3, <1>6, <1>7, <3>1 DEF Settled
  <2>2. \A y \in S \cap behind : Excused(y)
    BY <2>1 DEF InputsInv, BehindInv
  <2>3. CASE x \in behind
    BY <1>1, <1>4, <2>2, <2>3
  <2>4. CASE x \in told
    <3>1. x \in Ids \ {r} /\ r \in used'[x] /\ r \in used[x]
      BY <1>1, <1>2, <1>3, <2>4
    <3>2. r \in S /\ ~Flagged(r)'
      BY <3>1 DEF Settled
    <3>3. r \in behind
      BY <1>2, <1>7, <2>4, <3>2
    <3> QED BY <1>5, <2>2, <2>4, <3>2, <3>3
  <2> QED BY <1>1, <2>3, <2>4
<1>9. DerivedInv'
  <2>1. \A x \in Ids : used'[x] # {} => built'[x] # Nothing
    BY <1>3 DEF InputsInv, DerivedInv
  <2>2. ASSUME NEW x \in behind' PROVE built'[x] # Nothing
    <3>1. x # r /\ (x \in behind \/ r \in used[x])
      BY <1>1, <1>2
    <3>2. x \in Ids
      BY IInv' DEF IInv, TypeOK
    <3> QED BY <1>3, <3>1, <3>2 DEF InputsInv, DerivedInv
  <2> QED BY <2>1, <2>2 DEF DerivedInv
<1> QED BY <1>1, <1>2, <1>3, <1>4, <1>8, <1>9

\* An operation, whether it builds, fails or is not given its resource.
LEMMA ItemInputs ==
  ASSUME IInv, IInv', InputsInv, NEW r \in Ids, Item(r)
  PROVE  InputsInv'
<1>1. /\ Starts(r) /\ UNCHANGED <<present, body, deps, store, before, deleted, request, pending>>
      /\ \/ obs' = obs
         \/ r \notin deleted /\ obs' = [obs EXCEPT ![r] = Fresh(r)]
  BY DEF Item, Refresh, RefreshUnread, RefreshFails, Delete, DeleteFails, world, run
<1>2. /\ r \in DOMAIN before /\ r \notin done /\ r \notin failures /\ r \in Todo
      /\ (r \notin deleted => r \in DOMAIN obs) /\ (r \in deleted => r \in DOMAIN store)
      /\ failures \subseteq WithBlocked(before, failures \cup {r})
  BY <1>1, StartProperties DEF Starts, IInv, TypeOK
<1>3. ReachInv'
  <2>1. /\ DOMAIN obs' = DOMAIN obs /\ \A x \in DOMAIN obs : obs'[x].change = obs[x].change
        /\ \A x \in DOMAIN obs \ {r} : obs'[x] = obs[x]
    <3>1. CASE obs' = obs
      BY <3>1
    <3>2. CASE r \in DOMAIN obs /\ obs' = [obs EXCEPT ![r] = Fresh(r)]
      <4>1. Fresh(r).change = obs[r].change
        BY <3>2, FreshType DEF IInv
      <4> QED BY <3>2, <4>1
    <3> QED BY <1>1, <1>2, <3>1, <3>2
  <2>2. Changed(obs)' = Changed(obs)
    BY <2>1 DEF Changed
  <2>3. \A x \in Ids \ DOMAIN before : (Known(obs)[x])' = Known(obs)[x]
    BY <1>1, <1>2, <2>1 DEF Known
  <2>4. ASSUME NEW C \in SUBSET Ids, C \cap DOMAIN before = {}, \A x \in C : Known(obs)[x] \subseteq C
        PROVE  \A x \in C : (Known(obs)[x])' \subseteq C
    BY <2>3, <2>4
  <2>5. request.mode = "DEPENDENCY_AWARE" =>
           \A x \in DOMAIN obs \ DOMAIN before : \E C \in SUBSET Ids :
              x \in C /\ C \cap DOMAIN before = {} /\ \A y \in C : (Known(obs)[y])' \subseteq C
    <3> SUFFICES ASSUME request.mode = "DEPENDENCY_AWARE", NEW x \in DOMAIN obs \ DOMAIN before
                 PROVE  \E C \in SUBSET Ids :
                           /\ x \in C /\ C \cap DOMAIN before = {}
                           /\ \A y \in C : (Known(obs)[y])' \subseteq C
      OBVIOUS
    <3>1. PICK C \in SUBSET Ids : /\ x \in C /\ C \cap DOMAIN before = {}
                                  /\ \A y \in C : Known(obs)[y] \subseteq C
      BY <1>2 DEF InputsInv, ReachInv
    <3> QED BY <2>4, <3>1
  <2> QED BY <1>1, <1>2, <2>1, <2>2, <2>5 DEF InputsInv, ReachInv
<1>4. Todo' \subseteq Todo
  BY <1>1, <1>2 DEF Item, Refresh, RefreshUnread, RefreshFails, Delete, DeleteFails, Todo
<1>5. done' = done \/ (done' = done \cup {r} /\ (Refresh(r) \/ r \in deleted))
  BY DEF Item, Refresh, RefreshUnread, RefreshFails, Delete, DeleteFails
<1>6. CASE UNCHANGED <<built, used, behind, excused>> /\ done' = done
  <2>1. \A x : (Flagged(x)' <=> Flagged(x)) /\ (Excused(x)' <=> Excused(x))
    BY <1>1, <1>6 DEF Flagged, Current, Excused
  <2>2. \A S : Settled(S)' <=> Settled(S)
    BY <1>6, <2>1 DEF Settled
  <2>3. BehindInv' /\ DerivedInv' /\ DoneInv'
    BY <1>1, <1>4, <1>6, <2>1, <2>2 DEF InputsInv, BehindInv, DerivedInv, DoneInv
  <2> QED BY <1>3, <2>3 DEF InputsInv
<1>7. ASSUME NEW content, NEW ds, NEW excuses, Build(r, content, ds, excuses),
             Forgive(r) \subseteq excuses, r \in DOMAIN store \/ content # Nothing,
             ds # {} => content # Nothing,
             r \in done' \ deleted => ds \cap Todo' = {} \/ <<r, "late">> \in excuses
      PROVE  InputsInv'
  <2>1. /\ BehindInv' /\ DerivedInv' /\ r \notin behind' /\ used'[r] = ds
        /\ \A x \in Ids \ {r} :
              /\ used'[x] = used[x] /\ (Excused(x) => Excused(x)')
              /\ r \notin used[x] /\ x \notin behind => x \notin behind'
    BY <1>1, <1>7, BuildInputs
  <2>2. excuses \subseteq excused'
    BY <1>7 DEF Build
  <2>3. ASSUME NEW x \in done' \ deleted
        PROVE  Excused(x)' \/ (x \notin behind' /\ used'[x] \cap Todo' = {})
    <3>1. CASE x = r
      <4>1. <<r, "late">> \in excused' => Excused(r)'
        BY DEF Excused
      <4> QED BY <1>7, <2>1, <2>2, <2>3, <3>1, <4>1
    <3>2. CASE x # r
      <4>1. x \in done \ deleted /\ x \in Ids
        BY <1>5, <2>3, <3>2, Numbers DEF IInv, TypeOK
      <4>2. Excused(x) \/ (x \notin behind /\ used[x] \cap Todo = {})
        BY <4>1 DEF InputsInv, DoneInv
      <4> QED BY <1>2, <1>4, <2>1, <3>2, <4>1, <4>2
    <3> QED BY <3>1, <3>2
  <2>4. DoneInv'
    BY <1>1, <2>3 DEF DoneInv
  <2> QED BY <1>3, <2>1, <2>4 DEF InputsInv
<1>8. CASE Refresh(r)
  <2> DEFINE late == {<<r, "late">> : d \in (Fresh(r).deps \cap Todo) \ {r}}
  <2>1. /\ Build(r, Fresh(r).fp, Fresh(r).deps, Forgive(r) \cup late)
        /\ done' = done \cup {r} /\ r \notin deleted /\ r \in DOMAIN obs
    BY <1>2, <1>8 DEF Refresh
  <2>2. Fresh(r).fp # Nothing
    BY <2>1, FreshType, Numbers DEF Observation, Nothing, IInv
  <2>3. r \notin Todo'
    BY <2>1 DEF Todo
  <2>4. Fresh(r).deps \cap Todo' = {} \/ <<r, "late">> \in late
    BY <1>4, <2>3
  <2> HIDE DEF late
  <2> QED BY <1>7, <2>1, <2>2, <2>4
<1>9. CASE RefreshFails(r)
  <2>1. /\ Build(r, Fresh(r).fp, Fresh(r).deps, excused) \/ UNCHANGED <<built, used, behind, excused>>
        /\ done' = done /\ r \in DOMAIN obs
    BY <1>2, <1>9 DEF RefreshFails, derived
  <2>2. Fresh(r).fp # Nothing
    BY <2>1, FreshType, Numbers DEF Observation, Nothing, IInv
  <2>3. Forgive(r) \subseteq excused
    BY DEF Forgive
  <2> QED BY <1>2, <1>6, <1>7, <2>1, <2>2, <2>3
<1>10. CASE RefreshUnread(r)
  BY <1>6, <1>10 DEF RefreshUnread, derived
<1>11. CASE Delete(r) \/ DeleteFails(r)
  <2>1. /\ r \in deleted /\ r \in DOMAIN store
        /\ \/ Build(r, Nothing, {}, Forgive(r))
           \/ Build(r, Nothing, {}, excused)
           \/ UNCHANGED <<built, used, behind, excused>> /\ done' = done
    BY <1>2, <1>11 DEF Delete, DeleteFails, derived
  <2>2. Forgive(r) \subseteq excused
    BY DEF Forgive
  <2> QED BY <1>6, <1>7, <2>1, <2>2
<1> QED BY <1>8, <1>9, <1>10, <1>11 DEF Item

\* What a resource depends on, directly or not, includes what its dependencies
\* depend on.
LEMMA AncestorsReach ==
  ASSUME NEW D, NEW g \in [D -> SUBSET D], NEW r \in D
  PROVE  /\ g[r] \subseteq Ancestors(g, r)
         /\ \A x \in Ancestors(g, r) : /\ x \in D /\ g[x] \subseteq Ancestors(g, r)
                                       /\ Ancestors(g, x) \subseteq Ancestors(g, r)
<1>1. \A x \in D : Ancestors(g, x) =
         {j \in D : \A S \in SUBSET D :
                       g[x] \subseteq S /\ (\A k \in S : g[k] \subseteq S) => j \in S}
  BY DEF Ancestors
<1>2. ASSUME NEW j, j \in D,
             \A S \in SUBSET D : g[r] \subseteq S /\ (\A k \in S : g[k] \subseteq S) => j \in S
      PROVE  j \in Ancestors(g, r)
  BY <1>1, <1>2
<1>3. g[r] \subseteq Ancestors(g, r)
  BY <1>2
<1>4. ASSUME NEW x \in Ancestors(g, r) PROVE x \in D /\ g[x] \subseteq Ancestors(g, r)
  <2>1. /\ x \in D
        /\ \A S \in SUBSET D : g[r] \subseteq S /\ (\A k \in S : g[k] \subseteq S) => x \in S
    BY <1>1
  <2>2. \A S \in SUBSET D : g[r] \subseteq S /\ (\A k \in S : g[k] \subseteq S) => g[x] \subseteq S
    BY <2>1
  <2> QED BY <1>2, <2>1, <2>2
<1>5. ASSUME NEW x \in Ancestors(g, r) PROVE Ancestors(g, x) \subseteq Ancestors(g, r)
  <2>1. Ancestors(g, r) \in SUBSET D /\ g[x] \subseteq Ancestors(g, r)
    BY <1>1, <1>4
  <2> QED BY <1>1, <1>4, <2>1
<1> QED BY <1>3, <1>4, <1>5

\* What planning leaves out it cannot reach.
LEMMA PlanInputs == ASSUME IInv, InputsInv, Plan PROVE InputsInv'
<1>1. /\ phase = "observing" /\ pending = {}
      /\ deleted' = Deletions /\ before' = PlanOf(request.mode, obs, Deletions)
      /\ UNCHANGED <<present, body, deps, store, request, pending, done, obs, built, used,
                     behind, excused>>
  BY DEF Plan, world, derived
<1>2. TypeOK /\ done = {}
  BY <1>1 DEF IInv, PhaseInv
<1>3. BehindInv' /\ DerivedInv' /\ DoneInv'
  <2>1. \A x : (Flagged(x)' <=> Flagged(x)) /\ (Excused(x)' <=> Excused(x))
    BY <1>1 DEF Flagged, Current, Excused
  <2>2. \A S : Settled(S)' <=> Settled(S)
    BY <1>1, <2>1 DEF Settled
  <2> QED BY <1>1, <1>2, <2>1, <2>2 DEF InputsInv, BehindInv, DerivedInv, DoneInv
<1> DEFINE direct == Changed(obs) \cup Deletions
           refreshed == Selected(request.mode, obs, Deletions)
<1>4. DOMAIN before' = refreshed \cup Deletions
  BY <1>1 DEF PlanOf
<1>5. /\ request.mode = "FULL" => refreshed = DOMAIN obs
      /\ request.mode = "INCREMENTAL" => refreshed = Changed(obs)
      /\ request.mode = "DEPENDENCY_AWARE" => refreshed = Changed(obs) \cup Impacted(obs, direct)
      /\ request.mode \in {"FULL", "INCREMENTAL", "DEPENDENCY_AWARE", "TARGETED"}
  <2>1. request \in Request
    BY RequestsAssumption DEF IInv, TypeOK, PhaseInv
  <2>2. request.mode \in Modes
    BY <2>1 DEF Request
  <2> QED BY <2>2 DEF Selected, Modes
<1>6. Changed(obs) \subseteq DOMAIN obs /\ Deletions \cap DOMAIN obs = {}
  BY <1>2 DEF Changed, Deletions, TypeOK
<1> DEFINE g == Known(obs)
<1>7. g \in [Ids -> SUBSET Ids]
  BY <1>2, Numbers DEF Known
<1>8. Impacted(obs, direct) = {x \in DOMAIN obs : Ancestors(g, x) \cap direct # {}}
  BY DEF Impacted
<1> HIDE DEF direct, refreshed, g
<1>9. ASSUME request.mode = "DEPENDENCY_AWARE", NEW r \in DOMAIN obs \ (refreshed \cup Deletions)
      PROVE  \E C \in SUBSET Ids : /\ r \in C /\ C \cap (refreshed \cup Deletions) = {}
                                   /\ \A x \in C : g[x] \subseteq C
  <2>1. r \in Ids /\ r \notin Changed(obs) /\ Ancestors(g, r) \cap direct = {}
    BY <1>2, <1>5, <1>8, <1>9, Numbers
  <2> DEFINE C == {r} \cup Ancestors(g, r)
  <2>2. /\ g[r] \subseteq Ancestors(g, r)
        /\ \A x \in Ancestors(g, r) : /\ x \in Ids /\ g[x] \subseteq Ancestors(g, r)
                                      /\ Ancestors(g, x) \subseteq Ancestors(g, r)
    BY <1>7, <2>1, AncestorsReach
  <2>3. C \in SUBSET Ids /\ \A x \in C : g[x] \subseteq C
    BY <2>1, <2>2
  <2>4. ASSUME NEW x \in Ancestors(g, r) PROVE x \notin refreshed
    <3>1. x \notin Changed(obs)
      BY <2>1 DEF direct
    <3>2. Ancestors(g, x) \cap direct = {}
      BY <2>1, <2>2
    <3> QED BY <1>5, <1>8, <1>9, <3>1, <3>2
  <2>5. C \cap (refreshed \cup Deletions) = {}
    BY <2>1, <2>4 DEF direct
  <2> QED BY <2>3, <2>5
<1>10. ReachInv'
  <2>1. Changed(obs)' = Changed(obs) /\ Known(obs)' = g
    BY <1>1 DEF Changed, Known, g
  <2>2. request.mode # "TARGETED" => Changed(obs) \subseteq refreshed
    BY <1>5, <1>6
  <2>3. request.mode = "DEPENDENCY_AWARE" =>
           \A r \in DOMAIN obs \ DOMAIN before' : \E C \in SUBSET Ids :
              r \in C /\ C \cap DOMAIN before' = {} /\ \A x \in C : g[x] \subseteq C
    BY <1>4, <1>9
  <2> QED BY <1>1, <1>4, <1>5, <2>1, <2>2, <2>3 DEF ReachInv
<1> QED BY <1>3, <1>10 DEF InputsInv

\* What a commit does to what the store shows of x.
LEMMA CommitShows ==
  ASSUME IInv, InputsInv, phase # "idle", UNCHANGED <<present, body, deps, built>>,
         store' = Committed, NEW x \in Ids
  PROVE  /\ x \notin DOMAIN before => (Flagged(x)' <=> Flagged(x))
         /\ x \in DOMAIN obs /\ x \in DOMAIN before \ done /\ built[x] # Nothing => Flagged(x)'
<1>1. /\ DOMAIN store' = (DOMAIN store \cup Writes) \ (deleted \cap done)
      /\ done \subseteq DOMAIN before /\ deleted \cap DOMAIN obs = {}
  BY DEF Committed, IInv, TypeOK
<1>2. ASSUME x \notin DOMAIN before PROVE Flagged(x)' <=> Flagged(x)
  <2>1. x \in DOMAIN store' <=> x \in DOMAIN store
    BY <1>1, <1>2, WritesProperties DEF Planned
  <2>2. x \in DOMAIN store' => store'[x].fp = store[x].fp /\ store'[x].deps = store[x].deps
    <3>1. CASE x \in Writes
      <4>1. x \in DOMAIN store => store[x].fp = obs[x].fp /\ store[x].deps = obs[x].deps
        BY <1>1, <1>2, <3>1, WritesProperties DEF Planned
      <4> QED BY <1>2, <2>1, <3>1, <4>1, CommittedProperties DEF StateOf, Planned
    <3>2. CASE x \notin Writes
      BY <3>2, CommittedProperties
    <3> QED BY <3>1, <3>2
  <2> QED BY <2>1, <2>2 DEF Flagged, Current
<1>3. ASSUME x \in DOMAIN obs, x \in DOMAIN before \ done, built[x] # Nothing
      PROVE  Flagged(x)'
  <2>1. x \in Planned \ done
    BY <1>1, <1>3 DEF Planned
  <2>2. CASE x \in Writes
    <3>1. x \in DOMAIN store'
      BY <1>1, <1>3, <2>2
    <3>2. store'[x].fp = 0
      BY <2>1, <2>2, <3>1, CommittedProperties DEF RetryState, Retry
    <3>3. body[x] # 0
      BY Numbers DEF IInv
    <3> QED BY <3>1, <3>2, <3>3 DEF Flagged, Current
  <2>3. CASE x \notin Writes /\ x \in DOMAIN store
    <3>1. x \in DOMAIN store' /\ store'[x] = store[x]
      BY <1>1, <1>3, <2>3, CommittedProperties
    <3>2. x \in present => ~Current(x)
      BY <1>3, <2>3, OwedStays
    <3> QED BY <3>1, <3>2 DEF Flagged, Current
  <2>4. CASE x \notin Writes /\ x \notin DOMAIN store
    BY <1>1, <1>3, <2>4 DEF Flagged
  <2> QED BY <2>2, <2>3, <2>4
<1> QED BY <1>2, <1>3

\* A commit leaves nothing behind unseen that it does not excuse.
LEMMA CommitInputs ==
  ASSUME IInv, InputsInv, phase # "idle",
         UNCHANGED <<present, body, deps, built, used, behind>>, Apply
  PROVE  BehindInv'
<1> SUFFICES ASSUME NEW S \in SUBSET Ids, Settled(S)', NEW r \in S \cap behind,
                    ~Excused(r)'
             PROVE  FALSE
  BY DEF BehindInv
<1>1. /\ store' = Committed /\ excused \subseteq excused'
      /\ r \in DOMAIN discovered
      /\ r \in failures => r \in DOMAIN obs
      /\ request.mode \notin {"INCREMENTAL", "TARGETED"}
  <2>1. \A e \in excused' : e[1] # r
    BY DEF Excused
  <2>2. /\ \A x \in behind \ DOMAIN discovered : <<x, "unlisted">> \in excused'
        /\ \A x \in (behind \cap failures) \ DOMAIN obs : <<x, "unread">> \in excused'
        /\ request.mode \in {"INCREMENTAL", "TARGETED"} => <<r, "mode">> \in excused'
    BY DEF Apply, Excuse
  <2>3. store' = Committed /\ excused \subseteq excused'
    BY DEF Apply, Excuse
  <2>4. <<r, "unlisted">>[1] = r /\ <<r, "unread">>[1] = r /\ <<r, "mode">>[1] = r
    OBVIOUS
  <2>5. r \in DOMAIN discovered /\ (r \in failures => r \in DOMAIN obs)
    BY <2>1, <2>2, <2>4
  <2>6. request.mode \notin {"INCREMENTAL", "TARGETED"}
    BY <2>1, <2>2, <2>4
  <2> QED BY <2>3, <2>5, <2>6
<1>2. ~Excused(r)
  BY <1>1 DEF Excused
<1>3. /\ built[r] # Nothing /\ r \in Ids /\ ~Flagged(r)'
      /\ \A x \in S : used[x] \subseteq S /\ ~Flagged(x)'
  BY DEF InputsInv, DerivedInv, Settled
<1>4. \A x \in S : x \notin DOMAIN before => ~Flagged(x)
  BY <1>1, <1>3, CommitShows
<1>5. CASE DOMAIN before = {}
  <2>1. Settled(S)
    BY <1>3, <1>4, <1>5 DEF Settled
  <2> QED BY <1>2, <2>1 DEF InputsInv, BehindInv
<1>6. CASE DOMAIN before # {}
  <2>1. /\ pending = {} /\ Changed(obs) \subseteq DOMAIN before
        /\ request.mode = "FULL" => DOMAIN obs \subseteq DOMAIN before
        /\ request.mode = "DEPENDENCY_AWARE" =>
             \A x \in DOMAIN obs \ DOMAIN before : \E C \in SUBSET Ids :
                 x \in C /\ C \cap DOMAIN before = {} /\ \A y \in C : Known(obs)[y] \subseteq C
    BY <1>1, <1>6 DEF InputsInv, ReachInv
  <2>2. r \in DOMAIN obs /\ r \notin deleted
    BY <1>1, <2>1 DEF IInv, PlannedInv, TypeOK
  <2>3. r \notin done
    BY <1>2, <2>2 DEF InputsInv, DoneInv
  <2>4. r \notin DOMAIN before
    BY <1>1, <1>3, <2>2, <2>3, CommitShows
  <2>5. request.mode = "DEPENDENCY_AWARE"
    <3>1. request \in Request
      BY RequestsAssumption DEF IInv, TypeOK, PhaseInv
    <3>2. request.mode \in Modes
      BY <3>1 DEF Request
    <3> QED BY <1>1, <2>1, <2>2, <2>4, <3>2 DEF Modes
  <2>6. PICK C \in SUBSET Ids : /\ r \in C /\ C \cap DOMAIN before = {}
                                /\ \A y \in C : Known(obs)[y] \subseteq C
    BY <2>1, <2>2, <2>4, <2>5
  <2>7. ASSUME NEW x \in S \cap C PROVE used[x] \subseteq S \cap C /\ ~Flagged(x)
    <3>1. x \in Ids /\ x \notin DOMAIN before /\ used[x] \subseteq S /\ ~Flagged(x)
      BY <1>3, <1>4, <2>6
    <3>2. CASE x \in DOMAIN store
      <4>1. x \in present /\ Current(x)
        BY <3>1, <3>2 DEF Flagged
      <4>2. used[x] = store[x].deps
        BY <3>2, <4>1 DEF IInv, EarnedInv, StateIsEarned, Current
      <4>3. Known(obs)[x] = store[x].deps
        <5>1. CASE x \in DOMAIN obs
          <6>1. obs[x].change = "UNCHANGED" /\ obs[x].change = Classify(x, obs[x].fp, obs[x].deps)
            BY <2>1, <3>1, <5>1 DEF Changed, IInv, ChangeInv
          <6> QED BY <3>1, <5>1, <6>1, ClassifyType DEF Known
        <5>2. CASE x \notin DOMAIN obs
          BY <3>1, <3>2, <5>2 DEF Known
        <5> QED BY <5>1, <5>2
      <4> QED BY <2>6, <3>1, <4>2, <4>3
    <3>3. CASE x \notin DOMAIN store
      BY <3>1, <3>3 DEF Flagged, InputsInv, DerivedInv
    <3> QED BY <3>1, <3>2, <3>3
  <2>8. Settled(S \cap C)
    BY <2>7 DEF Settled
  <2>9. S \cap C \in SUBSET Ids /\ r \in (S \cap C) \cap behind
    BY <2>6
  <2> QED BY <1>2, <2>8, <2>9 DEF InputsInv, BehindInv
<1> QED BY <1>5, <1>6

\* A refresh that ends, however it does.
LEMMA EndInputs ==
  ASSUME IInv, InputsInv, NothingToPersist \/ Commit \/ CommitFails \/ Abandon
  PROVE  InputsInv'
<1>1. /\ phase # "idle" /\ DOMAIN before' = {} /\ done' = {}
      /\ UNCHANGED <<present, body, deps, built, used, behind>>
  BY DEF NothingToPersist, Commit, CommitFails, Abandon, Forget, Empty, world, derived
<1>2. CASE UNCHANGED <<store, excused>>
  BY <1>1, <1>2, InputsKept
<1>3. CASE Apply
  <2>1. BehindInv'
    BY <1>1, <1>3, CommitInputs
  <2>2. DerivedInv' /\ DoneInv' /\ ReachInv'
    BY <1>1 DEF InputsInv, DerivedInv, DoneInv, ReachInv
  <2> QED BY <2>1, <2>2 DEF InputsInv
<1> QED BY <1>2, <1>3 DEF NothingToPersist, Commit, CommitFails, Abandon, Discard

\* A dependency-aware or full refresh of everything that reports SUCCESS, while
\* no resource changes, leaves nothing built from an output that has changed
\* since, except what an earlier refresh could not read, list or reach, what is
\* built, directly or not, from a resource whose dependencies changed unseen, and
\* after a resource vanished before its derived data was ever recorded
\* (planning.py, _impacted and _predecessors).
THEOREM InputsAreCurrent == Spec => []InputsCurrent
<1>1. Init => InputsInv
  <2> SUFFICES ASSUME Init PROVE InputsInv
    OBVIOUS
  <2>1. /\ behind = {} /\ DOMAIN before = {} /\ done = {}
        /\ \/ used = [r \in Ids |-> {}]
           \/ built = [r \in Ids |-> 1]
    BY DEF Init, Empty
  <2> QED BY <2>1 DEF InputsInv, BehindInv, DerivedInv, DoneInv, ReachInv, Nothing
<1>2. IInv /\ IInv' /\ InputsInv /\ [Next]_vars => InputsInv'
  <2> SUFFICES ASSUME IInv, IInv', InputsInv, [Next]_vars PROVE InputsInv'
    OBVIOUS
  <2>1. ASSUME NEW r \in Ids, Edit(r) PROVE InputsInv'
    BY <2>1, EditInputs
  <2>2. ASSUME NEW r \in Ids, Item(r) PROVE InputsInv'
    BY <2>2, ItemInputs
  <2>3. ASSUME NEW r \in Ids, Observe(r) \/ ObserveFails(r) PROVE InputsInv'
    <3>1. /\ phase = "observing"
          /\ UNCHANGED <<store, present, body, deps, built, used, behind, excused, before, done>>
      BY <2>3 DEF Observe, ObserveFails, world, run, derived
    <3>2. DOMAIN before' = {} /\ done' = {}
      BY <3>1 DEF IInv, PhaseInv
    <3> QED BY <3>1, <3>2, InputsKept
  <2>4. ASSUME NEW q \in Requests[failFast], Begin(q) \/ BeginPartially(q) \/ BeginFails(q)
        PROVE  InputsInv'
    <3>1. /\ phase = "idle"
          /\ UNCHANGED <<store, present, body, deps, built, used, behind, excused, before, done>>
      BY <2>4 DEF Begin, BeginPartially, BeginFails, Accept, world, derived
    <3>2. DOMAIN before' = {} /\ done' = {}
      BY <3>1 DEF IInv, PhaseInv
    <3> QED BY <3>1, <3>2, InputsKept
  <2>5. CASE Plan
    BY <2>5, PlanInputs
  <2>6. CASE StagesEnd \/ Timeout \/ Rest \/ UNCHANGED vars
    <3>1. /\ UNCHANGED <<store, present, body, deps, built, used, behind, excused, before, done,
                         deleted, failures, obs, pending, request>>
      BY <2>6 DEF StagesEnd, Timeout, Rest, vars, world, run, derived
    <3>2. Todo' \subseteq Todo
      BY <3>1 DEF Todo
    <3> QED BY <3>1, <3>2, InputsKept
  <2>7. CASE NothingToPersist \/ Commit \/ CommitFails \/ Abandon
    BY <2>7, EndInputs
  <2> QED BY <2>1, <2>2, <2>3, <2>4, <2>5, <2>6, <2>7 DEF Next
<1>3. IInv /\ InputsInv /\ SuccessIsCurrent => InputsCurrent
  <2> SUFFICES ASSUME IInv, InputsInv, SuccessIsCurrent,
                      phase = "idle", status = "SUCCESS", quiet, complete,
                      request.mode # "TARGETED",
                      \A x \in Ids \ present : built[x] = Nothing,
                      NEW r \in behind \cap present,
                      \A x \in {r} \cup Ancestors(used, r) : ~Veiled(x)
               PROVE  Excused(r)
    BY DEF InputsCurrent, Excused
  <2> DEFINE S == {r} \cup Ancestors(used, r)
  <2>1. DOMAIN store = present /\ \A x \in present : Current(x) \/ Veiled(x)
    BY DEF SuccessIsCurrent, Current
  <2>2. r \in Ids /\ used \in [Ids -> SUBSET Ids]
    BY DEF IInv, TypeOK
  <2>3. S \in SUBSET Ids /\ \A x \in S : used[x] \subseteq S
    BY <2>2, AncestorsReach
  <2>4. \A x \in S : ~Veiled(x)
    OBVIOUS
  <2> HIDE DEF S
  <2>5. Settled(S)
    BY <2>1, <2>3, <2>4 DEF Settled, Flagged
  <2>6. r \in S \cap behind
    BY DEF S
  <2> QED BY <2>3, <2>5, <2>6 DEF InputsInv, BehindInv
<1> QED BY <1>1, <1>2, <1>3, InductiveInvariant, SuccessCurrent, PTL DEF Spec

----------------------------------------------------------------------------
(* What was planned comes back                                              *)

\* A refresh that reads no more than it must classifies what it observes as the
\* next one would, while no resource changes.
NowInv ==
    phase = "observing" /\ quiet /\ Unread(request) =>
        /\ \A r \in pending : ~CheapMatch(r)
        /\ \A r \in DOMAIN obs :
             r \in present /\ obs[r].change = Now[r].change /\ obs[r].deps = Now[r].deps

\* What is planned, and what the last refresh planned if it stored nothing, the
\* next one would plan as well, while no resource changes.
LapseInv ==
    quiet /\ request.mode = "DEPENDENCY_AWARE" =>
        (DOMAIN before \cup lapsed) \cap present \subseteq NextRefreshes

RetryInv == NowInv /\ LapseInv

LEMMA NowKept ==
  ASSUME UNCHANGED <<present, body, deps, store, request>>
  PROVE  Now' = Now /\ NextRefreshes' = NextRefreshes /\ \A r : CheapMatch(r)' <=> CheapMatch(r)
<1>1. \A r : /\ CheapMatch(r)' <=> CheapMatch(r)
             /\ Cheaply(r)' = Cheaply(r) /\ Reading(r, Indicator(r))' = Reading(r, Indicator(r))
  BY DEF CheapMatch, Indicator, Cheaply, Reading, Classify
<1>2. Now' = Now
  BY <1>1 DEF Now
<1> QED BY <1>1, <1>2
        DEF NextRefreshes, Selected, Changed, Impacted, Known

\* Steps that leave the resources, the store and what was observed alone.
LEMMA RetryStays ==
  ASSUME RetryInv, UNCHANGED <<present, body, deps, store, request, quiet>>,
         phase' = "observing" => UNCHANGED <<phase, obs>> /\ pending' \subseteq pending,
         DOMAIN before' \cup lapsed' \subseteq DOMAIN before \cup lapsed
  PROVE  RetryInv'
<1>1. NowInv'
  BY NowKept DEF RetryInv, NowInv
<1>2. LapseInv'
  BY NowKept DEF RetryInv, LapseInv
<1> QED BY <1>1, <1>2 DEF RetryInv

LEMMA BeginRetry ==
  ASSUME IInv, NEW q \in Requests[failFast], Begin(q) \/ BeginPartially(q) \/ BeginFails(q)
  PROVE  RetryInv'
<1>1. /\ phase = "idle" /\ request' = q /\ lapsed' = {}
      /\ UNCHANGED <<present, body, deps, store, before>>
      /\ phase' = "idle" \/ \E listed \in SUBSET present : Discovered(q, listed)
  BY DEF Begin, BeginPartially, BeginFails, Accept, world
<1>2. DOMAIN before = {}
  BY <1>1, IdleIsEmpty
<1>3. LapseInv'
  BY <1>1, <1>2 DEF LapseInv
<1>4. NowInv'
  <2> SUFFICES ASSUME NEW listed \in SUBSET present, Discovered(q, listed), Unread(q)
               PROVE  /\ \A r \in pending' : ~CheapMatch(r)'
                      /\ \A r \in DOMAIN obs' :
                           /\ r \in present /\ obs'[r].change = Now'[r].change
                           /\ obs'[r].deps = Now'[r].deps
    BY <1>1 DEF NowInv, Unread
  <2> DEFINE scope == IF q.mode = "TARGETED" THEN listed \cap (q.ids \cup q.matched) ELSE listed
             cheap == {r \in scope : Unread(q) /\ CheapMatch(r)}
  <2>1. obs' = [r \in cheap |-> Cheaply(r)] /\ pending' = scope \ cheap /\ scope \subseteq present
    BY DEF Discovered
  <2> HIDE DEF scope
  <2>2. \A r : (CheapMatch(r)' <=> CheapMatch(r)) /\ Cheaply(r)' = Cheaply(r)
    BY <1>1, QuietKept DEF CheapMatch, Indicator
  <2>3. \A r \in cheap : r \in present /\ Now'[r] = Cheaply(r)
    BY <1>1, <2>1, <2>2 DEF Now
  <2> QED BY <2>1, <2>2, <2>3
<1> QED BY <1>3, <1>4 DEF RetryInv

LEMMA ObserveRetry ==
  ASSUME IInv, RetryInv, NEW r \in Ids, Observe(r)
  PROVE  RetryInv'
<1>1. /\ phase = "observing" /\ r \in pending /\ r \in present /\ pending' = pending \ {r}
      /\ obs' = [x \in DOMAIN obs \cup {r} |->
                   IF x = r THEN Reading(r, discovered[r]) ELSE obs[x]]
      /\ UNCHANGED <<present, body, deps, store, request, quiet, phase, before, lapsed>>
  BY DEF Observe, world, run, missed
<1>2. r \notin DOMAIN obs
  BY <1>1 DEF IInv, TypeOK
<1>3. /\ Now' = Now /\ NextRefreshes' = NextRefreshes
      /\ \A x : CheapMatch(x)' <=> CheapMatch(x)
  BY <1>1, NowKept
<1>4. LapseInv'
  BY <1>1, <1>3 DEF RetryInv, LapseInv
<1>5. NowInv'
  <2> SUFFICES ASSUME quiet, Unread(request)
               PROVE  /\ \A x \in pending' : ~CheapMatch(x)'
                      /\ \A x \in DOMAIN obs' :
                           /\ x \in present /\ obs'[x].change = Now[x].change
                           /\ obs'[x].deps = Now[x].deps
    BY <1>1, <1>3 DEF NowInv
  <2>1. Now[r] = Reading(r, Indicator(r))
    BY <1>1 DEF RetryInv, NowInv, Now
  <2>2. obs'[r].change = Now[r].change /\ obs'[r].deps = Now[r].deps
    BY <1>1, <2>1 DEF Reading
  <2>3. \A x \in DOMAIN obs : obs'[x] = obs[x]
    BY <1>1, <1>2
  <2> QED BY <1>1, <1>3, <2>2, <2>3 DEF RetryInv, NowInv
<1> QED BY <1>4, <1>5 DEF RetryInv

\* What depends on a change that was seen depends on one that the next refresh
\* sees.
LEMMA PlanRetry ==
  ASSUME IInv, RetryInv, Plan
  PROVE  RetryInv'
<1>1. /\ phase = "observing" /\ phase' = "executing" /\ pending = {}
      /\ before' = PlanOf(request.mode, obs, Deletions)
      /\ UNCHANGED <<present, body, deps, store, request, quiet, lapsed>>
  BY DEF Plan, world, missed
<1>2. NowInv'
  BY <1>1 DEF NowInv
<1>3. NextRefreshes' = NextRefreshes
  BY <1>1, NowKept
<1> SUFFICES ASSUME quiet, request.mode = "DEPENDENCY_AWARE"
             PROVE  DOMAIN before' \cap present \subseteq NextRefreshes
  BY <1>1, <1>2, <1>3 DEF RetryInv, LapseInv
<1> DEFINE gone == DOMAIN store \ present
           direct == Changed(obs) \cup Deletions
           known == Known(Now)
<1>4. TypeOK /\ DOMAIN Now = present /\ present \subseteq Ids
  BY DEF IInv, TypeOK, Now
<1>5. \A x \in DOMAIN obs : x \in present /\ obs[x].change = Now[x].change /\ obs[x].deps = Now[x].deps
  BY <1>1 DEF RetryInv, NowInv, Unread
<1>6. Changed(obs) \subseteq Changed(Now)
  BY <1>4, <1>5 DEF Changed
<1>7. Deletions \subseteq gone
  BY <1>1 DEF Deletions, IInv, QuietInv
<1>8. ASSUME NEW x \in Ids, x \notin Changed(Now), x \notin gone PROVE Known(obs)[x] = known[x]
  <2>1. CASE x \in DOMAIN obs
    BY <1>4, <1>5, <2>1 DEF Known
  <2>2. CASE x \notin DOMAIN obs /\ x \in present
    <3>1. Now[x].change = "UNCHANGED"
      BY <1>4, <1>8, <2>2 DEF Changed
    <3>2. x \in DOMAIN store /\ store[x].deps = Now[x].deps
      <4>1. CASE CheapMatch(x)
        <5>1. /\ Now[x] = Cheaply(x)
              /\ Cheaply(x).change = Classify(x, body[x], Cheaply(x).deps)
          BY <2>2, <4>1, CheaplyType DEF Now, IInv
        <5> QED BY <3>1, <5>1, ClassifyType
      <4>2. CASE ~CheapMatch(x)
        <5>1. /\ Now[x] = Reading(x, Indicator(x)) /\ Now[x].deps = deps[x]
              /\ Now[x].change = Classify(x, body[x], deps[x])
          BY <1>4, <2>2, <4>2, IndicatorType, ReadingType DEF Now
        <5> QED BY <3>1, <5>1, ClassifyType
      <4> QED BY <4>1, <4>2
    <3> QED BY <1>4, <2>2, <3>2 DEF Known
  <2>3. CASE x \notin present
    BY <1>4, <1>5, <1>8, <2>3 DEF Known
  <2> QED BY <2>1, <2>2, <2>3
<1>9. known \in [Ids -> SUBSET Ids] /\ Known(obs) \in [Ids -> SUBSET Ids]
  <2>1. \A x \in present : Now[x].deps \subseteq Ids
    <3> SUFFICES ASSUME NEW x \in present PROVE Now[x].deps \subseteq Ids
      OBVIOUS
    <3>1. CASE CheapMatch(x)
      BY <1>4, <3>1, CheaplyType DEF Now, IInv, TypeOK
    <3>2. CASE ~CheapMatch(x)
      BY <1>4, <3>2, IndicatorType, ReadingType DEF Now, TypeOK
    <3> QED BY <3>1, <3>2
  <2>2. /\ \A x \in DOMAIN obs : obs[x].deps \subseteq Ids
        /\ \A x \in DOMAIN store : store[x].deps \subseteq Ids
    BY <1>4, Numbers
  <2> QED BY <1>4, <2>1, <2>2 DEF Known
<1>10. /\ NextRefreshes = Changed(Now) \cup {x \in present : Ancestors(known, x) \cap (Changed(Now) \cup gone) # {}}
       /\ DOMAIN before' = Changed(obs) \cup {x \in DOMAIN obs : Ancestors(Known(obs), x) \cap direct # {}}
                             \cup Deletions
  BY <1>1, <1>4 DEF NextRefreshes, PlanOf, Selected, Impacted
<1> HIDE DEF known, gone
<1>11. ASSUME NEW x \in DOMAIN obs, x \notin Changed(Now),
              Ancestors(known, x) \cap (Changed(Now) \cup gone) = {}
       PROVE  Ancestors(Known(obs), x) \cap direct = {}
  <2>1. x \in Ids /\ x \notin gone
    BY <1>4, <1>5, <1>11 DEF gone
  <2> DEFINE C == {x} \cup Ancestors(known, x)
  <2>2. C \in SUBSET Ids /\ \A y \in C : known[y] \subseteq C
    BY <1>9, <2>1, AncestorsReach
  <2>3. C \cap (Changed(Now) \cup gone) = {}
    BY <1>11, <2>1
  <2>4. x \in C
    OBVIOUS
  <2> HIDE DEF C
  <2>5. \A y \in C : Known(obs)[y] \subseteq C
    BY <1>8, <2>2, <2>3
  <2>6. Ancestors(Known(obs), x) \subseteq C
    BY <1>9, <2>2, <2>4, <2>5 DEF Ancestors
  <2> QED BY <1>6, <1>7, <2>3, <2>6
<1> QED BY <1>5, <1>6, <1>7, <1>10, <1>11 DEF gone

\* What a refresh planned and did not do comes back: unless the policy is
\* FAIL_FAST, any later refresh sees it as changed, but for what only depended on
\* a change when no marker could be stored; that, and everything under FAIL_FAST,
\* the next dependency-aware refresh plans again after one that stored nothing
\* (pipeline.py, _persist; context.py, retry_state).
THEOREM PlannedRetried == Spec => []PlannedIsRetried
<1>1. Init => RetryInv
  BY DEF Init, RetryInv, NowInv, LapseInv, Empty
<1>2. IInv /\ RetryInv /\ [Next]_vars => RetryInv'
  <2> SUFFICES ASSUME IInv, RetryInv, [Next]_vars PROVE RetryInv'
    OBVIOUS
  <2>1. ASSUME NEW r \in Ids, Edit(r) PROVE RetryInv'
    <3>1. quiet' = FALSE
      BY <2>1 DEF Edit, Write, Link, Remove, Edited
    <3> QED BY <3>1 DEF RetryInv, NowInv, LapseInv
  <2>2. ASSUME NEW r \in Ids, Observe(r) PROVE RetryInv'
    BY <2>2, ObserveRetry
  <2>3. ASSUME NEW r \in Ids, ObserveFails(r) \/ Item(r) PROVE RetryInv'
    <3>1. /\ UNCHANGED <<present, body, deps, store, request, quiet, phase, before, lapsed>>
          /\ phase = "observing" => obs' = obs /\ pending' \subseteq pending
      BY <2>3
      DEF ObserveFails, Item, Refresh, RefreshUnread, RefreshFails, Delete, DeleteFails, Starts,
          world, run, missed
    <3> QED BY <3>1, RetryStays
  <2>4. ASSUME NEW q \in Requests[failFast], Begin(q) \/ BeginPartially(q) \/ BeginFails(q)
        PROVE  RetryInv'
    BY <2>4, BeginRetry
  <2>5. CASE Plan
    BY <2>5, PlanRetry
  <2>6. CASE StagesEnd \/ Timeout
    <3>1. /\ UNCHANGED <<present, body, deps, store, request, quiet, before, lapsed>>
          /\ phase' = "persisting"
      BY <2>6 DEF StagesEnd, Timeout, world, run, missed
    <3> QED BY <3>1, RetryStays
  <2>7. CASE NothingToPersist \/ Commit \/ CommitFails \/ Abandon
    <3>1. /\ UNCHANGED <<present, body, deps, request, quiet>>
          /\ phase' = "idle" /\ DOMAIN before' = {}
          /\ lapsed' = {} \/ (UNCHANGED store /\ lapsed' = DOMAIN before)
      BY <2>7
      DEF NothingToPersist, Commit, CommitFails, Abandon, Apply, Discard, Marked, Unmarked, Forget,
          Empty, world
    <3>2. CASE lapsed' = {}
      BY <3>1, <3>2 DEF RetryInv, NowInv, LapseInv
    <3>3. CASE UNCHANGED store /\ lapsed' = DOMAIN before
      BY <3>1, <3>3, RetryStays
    <3> QED BY <3>1, <3>2, <3>3
  <2>8. CASE Rest \/ UNCHANGED vars
    <3>1. /\ UNCHANGED <<present, body, deps, store, request, quiet, phase, obs, pending, before,
                         lapsed>>
      BY <2>8 DEF Rest, vars, world, run, missed
    <3> QED BY <3>1, RetryStays
  <2> QED BY <2>1, <2>2, <2>3, <2>4, <2>5, <2>6, <2>7, <2>8 DEF Next
<1>3. IInv /\ RetryInv => PlannedIsRetried
  <2> SUFFICES ASSUME IInv, RetryInv PROVE PlannedIsRetried
    OBVIOUS
  <2>1. ASSUME ~failFast, NEW x \in Due \cap present PROVE x \in Detected \/ Veiled(x)
    <3>1. x \in Ids /\ x \in DOMAIN Now /\ TypeOK /\ PastInv
      BY <2>1 DEF IInv, TypeOK, Now
    <3>2. x \in DOMAIN store => ~Current(x)
      BY <2>1 DEF IInv, ChangeInv
    <3>3. CASE ~CheapMatch(x)
      <4>1. Now[x].change = Classify(x, body[x], deps[x])
        BY <2>1, <3>1, <3>3, IndicatorType, ReadingType DEF Now
      <4>2. Now[x].change # "UNCHANGED"
        BY <3>2, <4>1, ClassifyType DEF Current
      <4> QED BY <3>1, <4>2 DEF Detected, Changed
    <3>4. CASE CheapMatch(x)
      <4>1. /\ Now[x].change = Classify(x, body[x], Cheaply(x).deps)
            /\ Cheaply(x).deps = deps[x] \/ Veiled(x)
        BY <2>1, <3>1, <3>4, CheaplyType DEF Now
      <4>2. Now[x].change # "UNCHANGED" \/ Veiled(x)
        BY <3>2, <4>1, ClassifyType DEF Current
      <4> QED BY <3>1, <4>2 DEF Detected, Changed
    <3> QED BY <3>3, <3>4
  <2> QED BY <2>1 DEF PlannedIsRetried, RetryInv, LapseInv, Due
<1> QED BY <1>1, <1>2, <1>3, InductiveInvariant, PTL DEF Spec
=============================================================================
