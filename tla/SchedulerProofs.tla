-------------------------- MODULE SchedulerProofs --------------------------
(***************************************************************************)
(* Proofs about Scheduler, for every interval and all bounds.              *)
(***************************************************************************)
EXTENDS Scheduler, TLAPS

\* _next_slot is in the future, or now, and one interval ahead at most.
LEMMA SlotBound ==
  ASSUME TypeOK, NEW g \in Starts, NEW o \in Times, o <= now,
         origin' = [origin EXCEPT ![g] = o], NEW b \in BOOLEAN
  PROVE  /\ Slot(g, b) \in Nat
         /\ Slot(g, b) <= now + Interval
<1> DEFINE elapsed == now - o
           up == (elapsed + Interval - 1) \div Interval
           down == elapsed \div Interval
<1>1. /\ elapsed \in Nat /\ Interval \in Nat \ {0} /\ now \in Nat /\ o \in Nat
      /\ o + elapsed = now
  BY IntervalAssumption, BoundsAssumption DEF TypeOK, Times
<1>2. origin'[g] = o
  BY DEF TypeOK
<1>3. up \in Nat /\ up * Interval <= elapsed + Interval - 1
  BY <1>1
<1>4. down \in Nat /\ down * Interval <= elapsed
  BY <1>1
<1> DEFINE slots == IF b THEN up ELSE down + 1
           least == IF slots > 1 THEN slots ELSE 1
<1>5. slots \in Nat /\ slots * Interval <= elapsed + Interval
  <2>1. (down + 1) * Interval = down * Interval + Interval
    BY <1>1, <1>4
  <2> QED BY <1>1, <1>3, <1>4, <2>1
<1>6. least \in Nat /\ least * Interval <= elapsed + Interval
  <2> HIDE DEF elapsed, slots
  <2>1. 1 * Interval = Interval
    BY <1>1
  <2> QED BY <1>1, <1>5, <2>1
<1>7. Slot(g, b) = o + least * Interval
  BY <1>2 DEF Slot
<1>8. least * Interval \in Nat
  BY <1>1, <1>6
<1> QED
  <2> HIDE DEF elapsed, least
  <2> QED BY <1>1, <1>6, <1>7, <1>8

----------------------------------------------------------------------------
(* The inductive invariant: NoOverlap holds because a run is alive only    *)
(* while its scheduler task waits for it.                                  *)

Alive == {"created", "running", "stuck"}

IInv ==
    /\ TypeOK
    /\ NoOverlap
    /\ \A g \in Starts : origin[g] <= now
    /\ \A g \in Starts : run[g] \in Alive => loop[g] = "calling"

LEMMA InitInv == Init => IInv
<1> SUFFICES ASSUME Init PROVE IInv
  OBVIOUS
<1>1. /\ 0 \in Times /\ 0 \in 0..(MaxTime + Interval)
      /\ 0 \in 0..MaxStarts /\ 0 \in 0..MaxPauses
  BY IntervalAssumption, BoundsAssumption DEF Times
<1>2. TypeOK
  BY <1>1 DEF Init, TypeOK
<1>3. NoOverlap
  BY DEF Init, NoOverlap
<1>4. \A g \in Starts : origin[g] <= now
  BY DEF Init
<1> QED BY <1>2, <1>3, <1>4 DEF Init, IInv, Alive

\* Whatever brought the scheduler task to the top of its loop.
LEMMA ProceedInv ==
  ASSUME IInv, NEW g \in Starts, NEW set \in BOOLEAN,
         NEW o \in Times, o <= now, NEW d \in 0..(MaxTime + Interval),
         loop[g] # "none", run[g] \notin Alive,
         origin' = [origin EXCEPT ![g] = o], due' = [due EXCEPT ![g] = d],
         Proceed(g, set)
  PROVE  IInv'
<1>1. /\ origin' \in [Starts -> Times]
      /\ due' \in [Starts -> 0..(MaxTime + Interval)]
      /\ \A h \in Starts : origin'[h] <= now'
      /\ UNCHANGED <<stopper, now, starts, pauses>>
  BY DEF IInv, TypeOK, Proceed
<1>2. /\ current = g /\ g # None
      /\ \A h \in Starts \ {g} : loop[h] = "none" /\ run[h] \notin Alive
  BY DEF IInv, NoOverlap, Starts, None, Alive
<1>3. CASE Ends(g)
  <2>1. TypeOK'
    BY <1>1, <1>3 DEF IInv, TypeOK, Ends
  <2>2. \A h \in Starts : loop'[h] = "none" /\ run'[h] \notin Alive
    BY <1>2, <1>3 DEF IInv, TypeOK, Ends, Alive
  <2> QED BY <1>1, <2>1, <2>2 DEF IInv, NoOverlap, Alive
<1>4. ASSUME NEW kind \in {"timed", "untimed"}, state \in {"PAUSED", "RUNNING"},
             Sleeps(g, kind)
      PROVE  IInv'
  <2>1. TypeOK'
    BY <1>1, <1>4 DEF IInv, TypeOK, Sleeps
  <2>2. \A h \in Starts : run'[h] \notin Alive
    BY <1>2, <1>4 DEF IInv, TypeOK, Sleeps, Alive
  <2>3. \A h \in Starts :
          loop'[h] # "none" => current' = h /\ state' # "STOPPED"
    BY <1>2, <1>4 DEF IInv, TypeOK, Sleeps
  <2> QED BY <1>1, <2>1, <2>2, <2>3 DEF IInv, NoOverlap, Alive
<1>5. CASE state = "RUNNING" /\ Invokes(g) /\ wakeup' = set
  <2>1. TypeOK'
    BY <1>1, <1>5 DEF IInv, TypeOK, Invokes
  <2>2. \A h \in Starts :
          run'[h] \in Alive => active' = h /\ loop'[h] = "calling"
    BY <1>2, <1>5 DEF IInv, TypeOK, Invokes, Alive
  <2>3. \A h \in Starts :
          loop'[h] # "none" => current' = h /\ state' # "STOPPED"
    BY <1>2, <1>5 DEF IInv, TypeOK, Invokes
  <2> QED BY <1>1, <2>1, <2>2, <2>3 DEF IInv, NoOverlap, Alive
<1> QED BY <1>3, <1>4, <1>5 DEF Proceed

LEMMA LoopStepInv ==
  ASSUME IInv, NEW g \in Starts, LoopStep(g)
  PROVE  IInv'
<1>0. /\ now \in Times /\ origin[g] \in Times /\ origin[g] <= now
      /\ due[g] \in 0..(MaxTime + Interval) /\ wakeup \in BOOLEAN
      /\ MaxTime \in Nat /\ Interval \in Nat
      /\ origin = [origin EXCEPT ![g] = origin[g]]
      /\ due = [due EXCEPT ![g] = due[g]]
  BY IntervalAssumption, BoundsAssumption DEF IInv, TypeOK
<1>1. CASE Begins(g)
  <2>1. \A d \in {now, now + Interval} : d \in 0..(MaxTime + Interval)
    BY <1>0 DEF Times
  <2>2. PICK d \in {now, now + Interval} : due' = [due EXCEPT ![g] = d]
    BY <1>1 DEF Begins
  <2>3. loop[g] = "new" /\ run[g] \notin Alive
    BY <1>1 DEF Begins, IInv
  <2>4. now <= now
    BY <1>0 DEF Times
  <2> QED BY <1>0, <1>1, <2>1, <2>2, <2>3, <2>4, ProceedInv, ZenonT(60) DEF Begins
<1>2. CASE WakesFromSleep(g)
  <2>1. loop[g] = "timed" /\ run[g] \notin Alive
    BY <1>2 DEF WakesFromSleep, IInv
  <2>2. /\ origin' = [origin EXCEPT ![g] = origin[g]]
        /\ due' = [due EXCEPT ![g] = due[g]]
        /\ Proceed(g, FALSE)
    BY <1>0, <1>2 DEF WakesFromSleep
  <2> QED BY <1>0, <2>1, <2>2, ProceedInv
<1>3. ASSUME NEW b \in BOOLEAN, NEW set \in BOOLEAN, UNCHANGED origin,
             loop[g] # "none", run[g] \notin Alive,
             due' = [due EXCEPT ![g] = Slot(g, b)], Proceed(g, set)
      PROVE  IInv'
  <2>1. origin' = [origin EXCEPT ![g] = origin[g]]
    BY <1>0, <1>3
  <2>2. Slot(g, b) \in Nat /\ Slot(g, b) <= now + Interval
    BY <1>0, <2>1, SlotBound DEF IInv
  <2>3. Slot(g, b) \in 0..(MaxTime + Interval)
    BY <1>0, <2>2 DEF Times
  <2> QED BY <1>0, <1>3, <2>1, <2>3, ProceedInv
<1>4. CASE WakesFromPause(g)
  <2>1. loop[g] = "untimed" /\ run[g] \notin Alive
    BY <1>4 DEF WakesFromPause, IInv
  <2> QED BY <1>3, <1>4, <2>1 DEF WakesFromPause
<1>5. CASE RunReturned(g)
  <2>1. loop[g] = "calling" /\ run[g] \notin Alive
    BY <1>5 DEF RunReturned, Alive
  <2> QED BY <1>0, <1>3, <1>5, <2>1 DEF RunReturned, AfterRun
<1> QED BY <1>1, <1>2, <1>4, <1>5 DEF LoopStep

\* start() finds no scheduler task, so what it creates is the only one.
LEMMA StartInv == IInv /\ Start => IInv'
<1> SUFFICES ASSUME IInv, Start PROVE IInv'
  OBVIOUS
<1>1. starts + 1 \in Starts /\ starts' \in 0..MaxStarts
  BY BoundsAssumption DEF IInv, TypeOK, Start, Starts
<1>2. TypeOK'
  BY <1>1 DEF IInv, TypeOK, Start
<1>3. \A h \in Starts : loop[h] = "none" /\ run[h] \notin Alive
  BY DEF IInv, NoOverlap, Start
<1>4. NoOverlap'
  BY <1>1, <1>3 DEF IInv, TypeOK, NoOverlap, Start, Alive
<1> QED BY <1>2, <1>3, <1>4 DEF IInv, TypeOK, Start

\* The calls that leave the tasks alone.
LEMMA CommandInv ==
  ASSUME IInv, \/ Pause \/ Resume
               \/ \E c \in Stoppers : StopReturns(c)
               \/ Tick
  PROVE  IInv'
<1>1. CASE Pause
  BY <1>1, BoundsAssumption DEF IInv, TypeOK, NoOverlap, Pause
<1>2. CASE Resume
  BY <1>2 DEF IInv, TypeOK, NoOverlap, Resume
<1>3. CASE \E c \in Stoppers : StopReturns(c)
  BY <1>3 DEF IInv, TypeOK, NoOverlap, StopReturns
<1>4. CASE Tick
  <2>1. now' \in Times /\ \A g \in Starts : origin[g] <= now'
    BY <1>4, BoundsAssumption DEF IInv, TypeOK, Tick, Times
  <2> QED BY <1>4, <2>1 DEF IInv, TypeOK, NoOverlap, Tick
<1> QED BY <1>1, <1>2, <1>3, <1>4

LEMMA StopInv ==
  ASSUME IInv, NEW cancel \in BOOLEAN, BeginStop(cancel),
         stopper' \in [Stoppers -> [state : {"idle", "waiting", "returned"},
                                    on : Starts \cup {None}]]
  PROVE  IInv'
<1>1. /\ run' \in [Starts -> {"none", "created", "running", "stuck", "ended"}]
      /\ \A h \in Starts : run'[h] \in Alive => run'[h] = run[h]
  BY DEF IInv, TypeOK, BeginStop, Alive, Starts, None
<1>2. TypeOK'
  BY <1>1 DEF IInv, TypeOK, BeginStop, Stopped
<1> QED BY <1>1, <1>2 DEF IInv, NoOverlap, BeginStop, Stopped, Alive

LEMMA RunInv ==
  ASSUME IInv, NEW g \in Starts, RunMoves(g) \/ StopFromRun(g)
  PROVE  IInv'
<1>1. /\ run' \in [Starts -> {"none", "created", "running", "stuck", "ended"}]
      /\ \A h \in Starts : run'[h] \in Alive => run[h] \in Alive
  BY DEF IInv, TypeOK, RunMoves, StopFromRun, Alive
<1>2. CASE RunMoves(g)
  <2>1. TypeOK'
    BY <1>1, <1>2 DEF IInv, TypeOK, RunMoves
  <2> QED BY <1>1, <1>2, <2>1 DEF IInv, NoOverlap, RunMoves, Alive
<1>3. CASE StopFromRun(g)
  <2>1. TypeOK'
    BY <1>1, <1>3 DEF IInv, TypeOK, StopFromRun, Stopped
  <2> QED BY <1>1, <1>3, <2>1 DEF IInv, NoOverlap, StopFromRun, Stopped, Alive
<1> QED BY <1>2, <1>3

LEMMA NextInv == IInv /\ [Next]_vars => IInv'
<1> SUFFICES ASSUME IInv, [Next]_vars PROVE IInv'
  OBVIOUS
<1>1. CASE Start
  BY <1>1, StartInv
<1>2. CASE \/ Pause \/ Resume
           \/ \E c \in Stoppers : StopReturns(c)
           \/ Tick
  BY <1>2, CommandInv
<1>3. ASSUME NEW cancel \in BOOLEAN, StopWithoutWaiting(cancel) PROVE IInv'
  BY <1>3, StopInv DEF StopWithoutWaiting, IInv, TypeOK
<1>4. ASSUME NEW cancel \in BOOLEAN, NEW c \in Stoppers, Stop(c, cancel)
      PROVE  IInv'
  BY <1>4, StopInv DEF Stop, BeginStop, IInv, TypeOK
<1>5. ASSUME NEW g \in Starts, LoopStep(g) PROVE IInv'
  BY <1>5, LoopStepInv
<1>6. ASSUME NEW g \in Starts, RunMoves(g) \/ StopFromRun(g) PROVE IInv'
  BY <1>6, RunInv
<1>7. CASE UNCHANGED vars
  BY <1>7 DEF vars, IInv, TypeOK, NoOverlap
<1> QED BY <1>1, <1>2, <1>3, <1>4, <1>5, <1>6, <1>7 DEF Next, Rest

\* The invariant from which the others follow holds in every state.
THEOREM InductiveInvariant == Spec => []IInv
BY InitInv, NextInv, PTL DEF Spec

\* Every variable keeps its type; in particular no run is due later than one
\* interval after the end of time (_next_slot).
THEOREM TypeCorrect == Spec => []TypeOK
<1>1. IInv => TypeOK
  BY DEF IInv
<1> QED BY <1>1, InductiveInvariant, PTL

\* Runs never overlap, and a stopped scheduler has none (_invoke waits for the
\* run; start() accepts only the state that _run sets when it ends).
THEOREM RunsNeverOverlap == Spec => []NoOverlap
<1>1. IInv => NoOverlap
  BY DEF IInv
<1> QED BY <1>1, InductiveInvariant, PTL

----------------------------------------------------------------------------
(* No lost wakeup.                                                         *)

\* The scheduler task goes to sleep for the state it has just read, and it is
\* the only one.
LEMMA ProceedSleeps ==
  ASSUME IInv, NEW g \in Starts, NEW set \in BOOLEAN, loop[g] # "none",
         Proceed(g, set)
  PROVE  SleepsForAReason'
<1>1. \A h \in Starts \ {g} : loop[h] = "none"
  BY DEF IInv, NoOverlap
<1>2. CASE Ends(g)
  BY <1>1, <1>2 DEF IInv, TypeOK, Ends, SleepsForAReason
<1>3. CASE state = "PAUSED" /\ Sleeps(g, "untimed")
  BY <1>1, <1>3 DEF IInv, TypeOK, Sleeps, SleepsForAReason
<1>4. CASE state = "RUNNING" /\ Sleeps(g, "timed")
  BY <1>1, <1>4 DEF IInv, TypeOK, Sleeps, SleepsForAReason
<1>5. CASE Invokes(g)
  BY <1>1, <1>5 DEF IInv, TypeOK, Invokes, SleepsForAReason
<1> QED BY <1>2, <1>3, <1>4, <1>5 DEF Proceed

LEMMA SleepsStep ==
  IInv /\ SleepsForAReason /\ [Next]_vars => SleepsForAReason'
<1> SUFFICES ASSUME IInv, SleepsForAReason, [Next]_vars
             PROVE  SleepsForAReason'
  OBVIOUS
<1>1. CASE Start
  <2>1. \A h \in Starts : loop[h] = "none"
    BY <1>1 DEF IInv, NoOverlap, Start
  <2> QED BY <1>1, <2>1 DEF IInv, TypeOK, Start, SleepsForAReason
<1>2. CASE Pause \/ Resume
  BY <1>2 DEF Pause, Resume, SleepsForAReason
<1>3. ASSUME NEW cancel \in BOOLEAN, BeginStop(cancel)
      PROVE  SleepsForAReason'
  BY <1>3 DEF BeginStop, SleepsForAReason
<1>4. ASSUME NEW g \in Starts, StopFromRun(g) PROVE SleepsForAReason'
  BY <1>4 DEF StopFromRun, SleepsForAReason
<1>5. ASSUME UNCHANGED <<wakeup, loop, state>> PROVE SleepsForAReason'
  BY <1>5 DEF SleepsForAReason
<1>6. ASSUME NEW g \in Starts, LoopStep(g) PROVE SleepsForAReason'
  <2>1. wakeup \in BOOLEAN
    BY DEF IInv, TypeOK
  <2>2. CASE Begins(g)
    BY <2>1, <2>2, ProceedSleeps DEF Begins
  <2>3. CASE WakesFromSleep(g)
    BY <2>3, ProceedSleeps DEF WakesFromSleep
  <2>4. CASE WakesFromPause(g)
    BY <2>4, ProceedSleeps DEF WakesFromPause
  <2>5. CASE RunReturned(g)
    BY <2>1, <2>5, ProceedSleeps DEF RunReturned
  <2> QED BY <1>6, <2>2, <2>3, <2>4, <2>5 DEF LoopStep
<1>7. ASSUME \/ \E c \in Stoppers : StopReturns(c)
             \/ \E g \in Starts : RunMoves(g)
             \/ Tick \/ UNCHANGED vars
      PROVE  SleepsForAReason'
  BY <1>5, <1>7 DEF StopReturns, RunMoves, Tick, vars
<1> QED BY <1>1, <1>2, <1>3, <1>4, <1>6, <1>7
        DEF Next, Rest, StopWithoutWaiting, Stop

\* No wakeup is lost, whatever calls come while the scheduler task sleeps, is
\* about to wake or runs the callback (_sleep and the methods that set the
\* event).
THEOREM NoLostWakeup == Spec => []SleepsForAReason
<1>1. Init => SleepsForAReason
  BY DEF Init, SleepsForAReason
<1> QED BY <1>1, SleepsStep, InductiveInvariant, PTL DEF Spec

----------------------------------------------------------------------------
(* One run per slot.                                                       *)

\* Quotients against a multiple.
LEMMA QuotientBelow ==
  ASSUME NEW a \in Nat, NEW k \in Nat, NEW i \in Nat \ {0}, a < k * i
  PROVE  a \div i \in Nat /\ a \div i < k
<1> DEFINE q == a \div i
<1>1. q \in Nat /\ q * i <= a
  OBVIOUS
<1> HIDE DEF q
<1>2. ASSUME q >= k PROVE FALSE
  <2>1. PICK e \in Nat : q = k + e
    <3>1. q - k \in Nat /\ q = k + (q - k)
      BY <1>1, <1>2
    <3> QED BY <3>1
  <2>2. (k + e) * i = k * i + e * i /\ e * i \in Nat /\ k * i \in Nat
    OBVIOUS
  <2> QED BY <1>1, <2>1, <2>2
<1> QED BY <1>1, <1>2 DEF q

LEMMA QuotientAbove ==
  ASSUME NEW a \in Nat, NEW k \in Nat, NEW i \in Nat \ {0}, k * i <= a
  PROVE  a \div i \in Nat /\ k <= a \div i
<1> DEFINE q == a \div i
<1>1. q \in Nat /\ a < (q + 1) * i
  OBVIOUS
<1> HIDE DEF q
<1>2. ASSUME k >= q + 1 PROVE FALSE
  <2>1. PICK e \in Nat : k = (q + 1) + e
    <3>1. k - (q + 1) \in Nat /\ k = (q + 1) + (k - (q + 1))
      BY <1>1, <1>2
    <3> QED BY <3>1
  <2>2. ((q + 1) + e) * i = (q + 1) * i + e * i /\ e * i \in Nat /\ (q + 1) * i \in Nat
    BY <1>1
  <2> QED BY <1>1, <2>1, <2>2
<1> QED BY <1>1, <1>2 DEF q

\* Two times with a slot's beginning between them are in different slots.
LEMMA LaterSlot ==
  ASSUME NEW g \in Starts, NEW t \in Nat, NEW n \in Nat, NEW k \in Nat,
         origin[g] \in Nat, origin[g] <= t,
         t < origin[g] + k * Interval, origin[g] + k * Interval <= n
  PROVE  SlotOf(g, n) > SlotOf(g, t)
<1>1. Interval \in Nat \ {0} /\ k * Interval \in Nat
  BY IntervalAssumption
<1>2. /\ t - origin[g] \in Nat /\ t - origin[g] < k * Interval
      /\ n - origin[g] \in Nat /\ k * Interval <= n - origin[g]
  BY <1>1
<1>3. SlotOf(g, t) \in Nat /\ SlotOf(g, t) < k
  BY <1>1, <1>2, QuotientBelow DEF SlotOf
<1>4. SlotOf(g, n) \in Nat /\ k <= SlotOf(g, n)
  BY <1>1, <1>2, QuotientAbove DEF SlotOf
<1> QED BY <1>3, <1>4

\* _next_slot is the beginning of a slot: not before now, and after now if the
\* slot of now is not included.
LEMMA SlotBegins ==
  ASSUME NEW g \in Starts, NEW b \in BOOLEAN, now \in Nat, origin'[g] \in Nat,
         origin'[g] <= now
  PROVE  /\ now <= Slot(g, b) /\ (~b => now < Slot(g, b))
         /\ \E k \in Nat : Slot(g, b) = origin'[g] + k * Interval
<1> DEFINE elapsed == now - origin'[g]
           up == (elapsed + Interval - 1) \div Interval
           down == elapsed \div Interval + 1
           slots == IF b THEN up ELSE down
           least == IF slots > 1 THEN slots ELSE 1
<1>1. elapsed \in Nat /\ Interval \in Nat \ {0} /\ origin'[g] + elapsed = now
  BY IntervalAssumption
<1>2. up \in Nat /\ elapsed <= up * Interval
  <2>1. up \in Nat /\ elapsed + Interval - 1 < (up + 1) * Interval
    BY <1>1
  <2>2. (up + 1) * Interval = up * Interval + Interval /\ up * Interval \in Nat
    BY <1>1, <2>1
  <2> HIDE DEF up, elapsed
  <2> QED BY <1>1, <2>1, <2>2
<1>3. down \in Nat \ {0} /\ elapsed < down * Interval
  BY <1>1
<1>4. Slot(g, b) = origin'[g] + least * Interval
  BY DEF Slot
<1> HIDE DEF elapsed, up, down
<1>5. /\ slots \in Nat /\ elapsed <= slots * Interval
      /\ ~b => elapsed < slots * Interval
  BY <1>1, <1>2, <1>3
<1> HIDE DEF slots
<1>6. slots * Interval <= least * Interval /\ least \in Nat
  <2>1. slots \in {0, 1} => slots * Interval <= 1 * Interval
    BY <1>1
  <2> QED BY <1>1, <1>5, <2>1
<1> HIDE DEF least
<1>7. slots * Interval \in Nat /\ least * Interval \in Nat
  BY <1>1, <1>5, <1>6
<1> QED BY <1>1, <1>4, <1>5, <1>6, <1>7

\* After a run its scheduler task sleeps until the beginning of a later slot,
\* unless a pause ends with a call of resume().
SleepsToALaterSlot(g) ==
    /\ g > starts => loop[g] = "none"
    /\ g > starts \/ loop[g] = "new" => last[g] = Never
    /\ loop[g] = "untimed" /\ state = "RUNNING" => resumed
    /\ last[g] # Never => last[g] \in Times /\ origin[g] <= last[g] /\ last[g] <= now
    /\ last[g] # Never /\ loop[g] = "timed" =>
          /\ last[g] < due[g]
          /\ \E k \in Nat : due[g] = origin[g] + k * Interval

SlotInv == \A g \in Starts : SleepsToALaterSlot(g)

\* What OneRunPerSlot says of a step.
InASlotOfItsOwn(g) ==
    run[g] # "created" /\ run'[g] = "created" /\ last[g] # Never
        => \/ SlotOf(g, now) > SlotOf(g, last[g])
           \/ now = last[g] /\ resumed

LEMMA SlotFacts ==
  ASSUME IInv
  PROVE  /\ now \in Nat /\ Interval \in Nat \ {0} /\ starts \in Nat
         /\ \A g \in Starts : g \in Nat /\ origin[g] \in Nat /\ due[g] \in Nat
                                /\ origin[g] <= now
         /\ \A t \in Times : t \in Nat /\ t # Never
         /\ now \in Times
<1>1. MaxTime \in Nat /\ MaxStarts \in Nat /\ Interval \in Nat \ {0}
  BY IntervalAssumption, BoundsAssumption
<1>2. \A t \in Times : t \in Nat /\ t # Never
  BY <1>1 DEF Times, Never
<1>3. now \in Times /\ starts \in Nat
  BY <1>1 DEF IInv, TypeOK
<1>4. ASSUME NEW g \in Starts
      PROVE  /\ g \in Nat /\ origin[g] \in Times /\ origin[g] <= now
             /\ due[g] \in 0..(MaxTime + Interval)
  BY <1>1, <1>4 DEF IInv, TypeOK, Starts
<1> QED BY <1>1, <1>2, <1>3, <1>4

\* The scheduler task at the top of its loop, with a due time that is the
\* beginning of a slot.
LEMMA ProceedSlots ==
  ASSUME IInv, SlotInv, NEW g \in Starts, NEW set \in BOOLEAN, NEW d \in Nat,
         loop[g] # "none", Proceed(g, set),
         due' = [due EXCEPT ![g] = d],
         origin' \in [Starts -> Times], origin'[g] <= now,
         \A h \in Starts : h # g \/ last[g] # Never => origin'[h] = origin[h],
         last[g] # Never => \E k \in Nat : d = origin[g] + k * Interval,
         last[g] # Never /\ state = "RUNNING" =>
            last[g] < d \/ (d <= now /\ now = last[g] /\ resumed)
  PROVE  SlotInv' /\ \A h \in Starts : InASlotOfItsOwn(h)
<1>1. /\ UNCHANGED <<now, starts>>
      /\ \A h \in Starts \ {g} : loop[h] = "none" /\ run[h] \notin Alive
  BY DEF Proceed, IInv, NoOverlap, Alive
<1>2. /\ loop \in [Starts -> {"none", "new", "timed", "untimed", "calling"}]
      /\ run \in [Starts -> {"none", "created", "running", "stuck", "ended"}]
      /\ last \in [Starts -> Times \cup {Never}]
      /\ due'[g] = d
  BY DEF IInv, TypeOK
<1>3. \A h \in Starts : last[h] # Never =>
         last[h] \in Times /\ origin[h] <= last[h] /\ last[h] <= now
           /\ origin'[h] = origin[h]
  BY DEF SlotInv, SleepsToALaterSlot
<1>7. origin'[g] \in Times /\ origin'[g] <= now
  BY SlotFacts
<1>4. CASE Ends(g)
  <2>1. \A h \in Starts : loop'[h] = "none" /\ run'[h] # "created" /\ last'[h] = last[h]
    BY <1>1, <1>2, <1>4 DEF Ends, Alive
  <2>2. SlotInv'
    BY <1>1, <1>3, <2>1 DEF SlotInv, SleepsToALaterSlot
  <2> QED BY <2>1, <2>2 DEF InASlotOfItsOwn
<1>5. ASSUME NEW kind \in {"timed", "untimed"}, Sleeps(g, kind),
             kind = "untimed" => state = "PAUSED",
             kind = "timed" => state = "RUNNING" /\ d > now
      PROVE  SlotInv' /\ \A h \in Starts : InASlotOfItsOwn(h)
  <2>1. /\ \A h \in Starts : run'[h] # "created" /\ last'[h] = last[h]
        /\ \A h \in Starts \ {g} : loop'[h] = "none"
        /\ loop'[g] = kind /\ state' = state /\ resumed' = resumed
    BY <1>1, <1>2, <1>5 DEF Sleeps, Alive
  <2>2. kind = "timed" /\ last[g] # Never =>
           last[g] < due'[g] /\ \E k \in Nat : due'[g] = origin'[g] + k * Interval
    BY <1>2, <1>3, <1>5, SlotFacts
  <2>3. \A h \in Starts : h > starts' => last'[h] = Never
    BY <1>1, <2>1 DEF SlotInv, SleepsToALaterSlot
  <2>4. SlotInv'
    BY <1>1, <1>3, <1>5, <2>1, <2>2, <2>3 DEF SlotInv, SleepsToALaterSlot
  <2> QED BY <2>1, <2>4 DEF InASlotOfItsOwn
<1>6. CASE state = "RUNNING" /\ d <= now /\ Invokes(g)
  <2>1. /\ \A h \in Starts \ {g} : /\ run'[h] # "created" /\ last'[h] = last[h]
                                   /\ loop'[h] = "none"
        /\ loop'[g] = "calling" /\ last'[g] = now
    BY <1>1, <1>2, <1>6 DEF Invokes, Alive
  <2>2. g <= starts
    BY SlotFacts DEF SlotInv, SleepsToALaterSlot
  <2>3. SlotInv'
    <3> SUFFICES ASSUME NEW h \in Starts PROVE SleepsToALaterSlot(h)'
      BY DEF SlotInv
    <3>1. CASE h = g
      <4>1. now \in Times /\ now # Never /\ origin'[g] <= now' /\ now' <= now'
        BY <1>1, <1>7, SlotFacts
      <4> QED BY <1>1, <2>1, <2>2, <3>1, <4>1, SlotFacts DEF SleepsToALaterSlot
    <3>2. CASE h # g
      BY <1>1, <1>3, <2>1, <3>2, SlotFacts DEF SlotInv, SleepsToALaterSlot
    <3> QED BY <3>1, <3>2
  <2>4. ASSUME last[g] # Never, ~(now = last[g] /\ resumed)
        PROVE  SlotOf(g, now) > SlotOf(g, last[g])
    <3>1. PICK k \in Nat : d = origin[g] + k * Interval
      BY <2>4
    <3>2. last[g] < d /\ last[g] \in Nat /\ origin[g] <= last[g]
      BY <1>3, <1>6, <2>4, SlotFacts
    <3> QED BY <1>6, <3>1, <3>2, LaterSlot, SlotFacts
  <2> QED BY <2>1, <2>3, <2>4 DEF InASlotOfItsOwn
<1> QED BY <1>2, <1>4, <1>5, <1>6 DEF Proceed

LEMMA LoopStepSlots ==
  ASSUME IInv, SlotInv, NEW g \in Starts, LoopStep(g)
  PROVE  SlotInv' /\ \A h \in Starts : InASlotOfItsOwn(h)
<1>1. /\ origin \in [Starts -> Times] /\ due \in [Starts -> 0..(MaxTime + Interval)]
      /\ wakeup \in BOOLEAN /\ now \in Nat /\ origin[g] \in Nat /\ origin[g] <= now
      /\ due = [due EXCEPT ![g] = due[g]] /\ due[g] \in Nat
      /\ Interval \in Nat \ {0} /\ now \in Times
  BY SlotFacts DEF IInv, TypeOK
<1>2. last[g] # Never => last[g] \in Nat /\ last[g] <= now
  BY SlotFacts DEF SlotInv, SleepsToALaterSlot
<1>3. CASE Begins(g)
  <2>1. \E d \in Nat : due' = [due EXCEPT ![g] = d]
    <3>1. now \in Nat /\ now + Interval \in Nat
      BY <1>1
    <3>2. CASE Immediately
      BY <1>3, <3>1, <3>2 DEF Begins
    <3>3. CASE ~Immediately
      BY <1>3, <3>1, <3>3 DEF Begins
    <3> QED BY <3>2, <3>3
  <2>2. /\ origin' \in [Starts -> Times] /\ loop[g] # "none" /\ last[g] = Never
        /\ \A h \in Starts \ {g} : origin'[h] = origin[h]
        /\ Proceed(g, wakeup)
    BY <1>1, <1>3 DEF Begins, SlotInv, SleepsToALaterSlot
  <2>3. PICK d \in Nat : due' = [due EXCEPT ![g] = d]
    BY <2>1
  <2>4. \A h \in Starts : h # g \/ last[g] # Never => origin'[h] = origin[h]
    BY <2>2
  <2>5. origin'[g] <= now
    BY <1>1, <1>3 DEF Begins
  <2>6. /\ last[g] # Never => \E k \in Nat : d = origin[g] + k * Interval
        /\ last[g] # Never /\ state = "RUNNING" =>
              last[g] < d \/ (d <= now /\ now = last[g] /\ resumed)
    BY <2>2
  <2>7. origin' \in [Starts -> Times] /\ loop[g] # "none"
    BY <2>2
  <2>8. PICK set \in BOOLEAN : Proceed(g, set)
    BY <1>1, <2>2
  <2> QED BY <2>8, <2>3, <2>4, <2>5, <2>6, <2>7, ProceedSlots
<1>4. CASE WakesFromSleep(g)
  <2>1. /\ origin' = origin /\ due' = [due EXCEPT ![g] = due[g]]
        /\ loop[g] = "timed" /\ Proceed(g, FALSE)
    BY <1>1, <1>4 DEF WakesFromSleep
  <2>2. last[g] # Never =>
           last[g] < due[g] /\ \E k \in Nat : due[g] = origin[g] + k * Interval
    BY <2>1 DEF SlotInv, SleepsToALaterSlot
  <2> QED BY <1>1, <2>1, <2>2, ProceedSlots
<1>5. ASSUME NEW b \in BOOLEAN, NEW set \in BOOLEAN, UNCHANGED origin,
             loop[g] # "none", due' = [due EXCEPT ![g] = Slot(g, b)],
             Proceed(g, set),
             b /\ state = "RUNNING" => resumed
      PROVE  SlotInv' /\ \A h \in Starts : InASlotOfItsOwn(h)
  <2>1. /\ now <= Slot(g, b) /\ (~b => now < Slot(g, b))
        /\ \E k \in Nat : Slot(g, b) = origin[g] + k * Interval
    BY <1>1, <1>5, SlotBegins
  <2>2. Slot(g, b) \in Nat
    BY <1>1, <2>1
  <2>3. last[g] # Never /\ state = "RUNNING" =>
           \/ last[g] < Slot(g, b)
           \/ Slot(g, b) <= now /\ now = last[g] /\ resumed
    BY <1>1, <1>2, <1>5, <2>1, <2>2
  <2> QED BY <1>1, <1>5, <2>1, <2>2, <2>3, ProceedSlots
<1>6. CASE WakesFromPause(g)
  <2>1. loop[g] = "untimed" /\ (state = "RUNNING" => resumed)
    BY <1>6 DEF WakesFromPause, SlotInv, SleepsToALaterSlot
  <2> QED BY <1>5, <1>6, <2>1 DEF WakesFromPause
<1>7. CASE RunReturned(g)
  BY <1>1, <1>5, <1>7 DEF RunReturned, AfterRun
<1> QED BY <1>3, <1>4, <1>6, <1>7 DEF LoopStep

\* Every other step leaves the runs alone, or moves them on.
LEMMA SlotStep ==
  IInv /\ SlotInv /\ [Next]_vars => SlotInv' /\ \A h \in Starts : InASlotOfItsOwn(h)
<1> SUFFICES ASSUME IInv, SlotInv, [Next]_vars
             PROVE  SlotInv' /\ \A h \in Starts : InASlotOfItsOwn(h)
  OBVIOUS
<1>1. CASE Start
  <2>1. /\ starts + 1 \in Starts /\ starts' = starts + 1 /\ starts \in Nat
        /\ \A h \in Starts : h \in Nat /\ loop[h] = "none"
        /\ UNCHANGED <<run, last, origin, now, due>>
    BY <1>1, SlotFacts, BoundsAssumption DEF IInv, TypeOK, NoOverlap, Start, Starts
  <2>2. \A h \in Starts : loop'[h] = IF h = starts + 1 THEN "new" ELSE "none"
    BY <1>1, <2>1 DEF IInv, TypeOK, Start
  <2> QED BY <2>1, <2>2 DEF SlotInv, SleepsToALaterSlot, InASlotOfItsOwn
<1>2. CASE Pause \/ Resume
  BY <1>2 DEF Pause, Resume, SlotInv, SleepsToALaterSlot, InASlotOfItsOwn
<1>3. ASSUME NEW cancel \in BOOLEAN, BeginStop(cancel)
      PROVE  SlotInv' /\ \A h \in Starts : InASlotOfItsOwn(h)
  <2>1. \A h \in Starts : run'[h] = "created" => run[h] = "created"
    BY <1>3 DEF BeginStop, IInv, TypeOK, Starts, None
  <2> QED BY <1>3, <2>1 DEF BeginStop, Stopped, SlotInv, SleepsToALaterSlot, InASlotOfItsOwn
<1>4. ASSUME NEW g \in Starts, RunMoves(g) \/ StopFromRun(g)
      PROVE  SlotInv' /\ \A h \in Starts : InASlotOfItsOwn(h)
  <2>1. \A h \in Starts : run'[h] = "created" => run[h] = "created"
    BY <1>4 DEF RunMoves, StopFromRun, IInv, TypeOK
  <2>2. /\ UNCHANGED <<last, loop, origin, due, now, starts, resumed>>
        /\ state' = "RUNNING" => state = "RUNNING"
    BY <1>4 DEF RunMoves, StopFromRun, Stopped
  <2> QED BY <2>1, <2>2 DEF SlotInv, SleepsToALaterSlot, InASlotOfItsOwn
<1>5. CASE Tick
  <2>1. now' \in Times /\ now' = now + 1 /\ now \in Nat
    BY <1>5, SlotFacts, BoundsAssumption DEF Tick, Times
  <2>2. ASSUME NEW h \in Starts, last[h] # Never PROVE last[h] <= now'
    <3>1. last[h] \in Nat /\ last[h] <= now
      BY <2>2, SlotFacts DEF SlotInv, SleepsToALaterSlot
    <3> QED BY <2>1, <3>1
  <2> QED BY <1>5, <2>1, <2>2 DEF Tick, SlotInv, SleepsToALaterSlot, InASlotOfItsOwn
<1>6. ASSUME NEW g \in Starts, LoopStep(g)
      PROVE  SlotInv' /\ \A h \in Starts : InASlotOfItsOwn(h)
  BY <1>6, LoopStepSlots
<1>7. CASE (\E c \in Stoppers : StopReturns(c)) \/ UNCHANGED vars
  BY <1>7 DEF StopReturns, vars, SlotInv, SleepsToALaterSlot, InASlotOfItsOwn
<1> QED BY <1>1, <1>2, <1>3, <1>4, <1>5, <1>6, <1>7
        DEF Next, Rest, StopWithoutWaiting, Stop

\* Every run starts in a later slot than the one before it; only resume() may
\* start another at the same reading of the clock (_next_slot and _run).
THEOREM OneRunPerSlotHolds == Spec => OneRunPerSlot
<1>1. Init => SlotInv
  <2>1. ASSUME Init PROVE SlotInv
    BY <2>1 DEF Init, SlotInv, SleepsToALaterSlot
  <2> QED BY <2>1
<1>2. (\A h \in Starts : InASlotOfItsOwn(h)) =>
         \A g \in Starts :
            run[g] # "created" /\ run'[g] = "created" /\ last[g] # Never
             => \/ SlotOf(g, now) > SlotOf(g, last[g])
                \/ now = last[g] /\ resumed
  BY DEF InASlotOfItsOwn
<1> QED BY <1>1, <1>2, SlotStep, InductiveInvariant, PTL DEF Spec, OneRunPerSlot
=============================================================================
