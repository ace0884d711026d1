----------------------------- MODULE Scheduler -----------------------------
(***************************************************************************)
(* AsyncScheduler (src/refresh_engine/scheduling.py): start(), pause(),    *)
(* resume() and stop() only set the state and an event; the task created   *)
(* by start() reads the state whenever it wakes, sleeps until the next     *)
(* slot of a grid, and calls the callback in a task of its own.            *)
(*                                                                         *)
(* One step is what runs between two suspensions.  Time is a number of     *)
(* ticks that may pass at any moment: the event loop may be late, and a    *)
(* callback takes any time, zero included.  loop.time() does not change    *)
(* within a step, and the rounding of floats is left out.                  *)
(***************************************************************************)
EXTENDS Integers, FiniteSets

CONSTANTS
    Interval,           \* ticks between scheduled runs
    Immediately,        \* run_immediately
    Stoppers,           \* callers of stop() that wait
    MaxTime,            \* bound: ticks
    MaxStarts,          \* bound: calls of start() that succeed
    MaxPauses           \* bound: calls of pause() that succeed

ASSUME IntervalAssumption == Interval \in Nat \ {0}
ASSUME ImmediatelyAssumption == Immediately \in BOOLEAN
ASSUME BoundsAssumption ==
    {MaxTime, MaxStarts, MaxPauses} \subseteq Nat /\ IsFiniteSet(Stoppers)

VARIABLES
    state,      \* _state
    wakeup,     \* _wakeup.is_set()
    current,    \* _task: the start() that created it, 0 for None
    active,     \* _active: the start() whose run it is, 0 for None
    loop,       \* scheduler tasks, one per start(): where each is in _run
    origin,     \* scheduler tasks: origin
    due,        \* scheduler tasks: due
    run,        \* scheduler tasks: the task of the callback
    stopper,    \* callers of stop(): what each is doing and waits for
    now,        \* loop.time()
    \* History.
    starts, pauses,
    last,       \* scheduler tasks: time of the last run, or Never
    resumed     \* resume() was called since that run

vars == <<state, wakeup, current, active, loop, origin, due, run, stopper, now,
          starts, pauses, last, resumed>>

Starts == 1..MaxStarts
None == 0
Never == -1
Times == 0..MaxTime

\* Types; no run is due later than one interval after the end of time.
TypeOK ==
    /\ state \in {"STOPPED", "RUNNING", "PAUSED", "STOPPING"}
    /\ wakeup \in BOOLEAN
    /\ {current, active} \subseteq Starts \cup {None}
    /\ loop \in [Starts -> {"none", "new", "timed", "untimed", "calling"}]
    /\ origin \in [Starts -> Times]
    /\ due \in [Starts -> 0..(MaxTime + Interval)]
    /\ run \in [Starts -> {"none", "created", "running", "stuck", "ended"}]
    /\ stopper \in [Stoppers -> [state : {"idle", "waiting", "returned"},
                                 on : Starts \cup {None}]]
    /\ now \in Times /\ starts \in 0..MaxStarts /\ pauses \in 0..MaxPauses
    /\ last \in [Starts -> Times \cup {Never}]
    /\ resumed \in BOOLEAN

Init ==
    /\ state = "STOPPED"
    /\ wakeup = FALSE
    /\ current = None /\ active = None
    /\ loop = [g \in Starts |-> "none"]
    /\ origin = [g \in Starts |-> 0]
    /\ due = [g \in Starts |-> 0]
    /\ run = [g \in Starts |-> "none"]
    /\ stopper = [c \in Stoppers |-> [state |-> "idle", on |-> None]]
    /\ now = 0 /\ starts = 0 /\ pauses = 0
    /\ last = [g \in Starts |-> Never]
    /\ resumed = FALSE

----------------------------------------------------------------------------
(* The public methods.  Any code may call them, the callback included.     *)

Start ==
    /\ starts < MaxStarts
    /\ state = "STOPPED"
    /\ state' = "RUNNING"
    /\ wakeup' = FALSE
    /\ starts' = starts + 1
    /\ current' = starts + 1
    /\ loop' = [loop EXCEPT ![starts + 1] = "new"]
    /\ resumed' = FALSE
    /\ UNCHANGED <<active, origin, due, run, stopper, now, pauses, last>>

Pause ==
    /\ pauses < MaxPauses /\ pauses' = pauses + 1
    /\ state = "RUNNING"
    /\ state' = "PAUSED"
    /\ wakeup' = TRUE
    /\ UNCHANGED <<current, active, loop, origin, due, run, stopper, now,
                   starts, last, resumed>>

ResumeQuietly ==                                                     \* mutant
    /\ state = "PAUSED"
    /\ state' = "RUNNING"
    /\ resumed' = TRUE
    /\ UNCHANGED <<wakeup, current, active, loop, origin, due, run, stopper,
                   now, starts, pauses, last>>

Resume ==
    /\ state = "PAUSED"
    /\ state' = "RUNNING"
    /\ wakeup' = TRUE
    /\ resumed' = TRUE
    /\ UNCHANGED <<current, active, loop, origin, due, run, stopper, now,
                   starts, pauses, last>>

\* What stop() does before it waits: cancelling a run that has not begun ends
\* it; one that has begun may end at any time, cancelled or not.
StopAtOnce == "STOPPED"                                              \* mutant
Stopped == "STOPPING"

BeginStop(cancel) ==
    /\ current # None
    /\ state' = Stopped
    /\ wakeup' = TRUE
    /\ run' = IF cancel /\ active # None /\ run[active] = "created"
              THEN [run EXCEPT ![active] = "ended"]
              ELSE run
    /\ UNCHANGED <<current, active, loop, origin, due, now, starts, pauses,
                   last, resumed>>

StopWithoutWaiting(cancel) == BeginStop(cancel) /\ UNCHANGED stopper

Stop(c, cancel) ==
    /\ stopper[c].state = "idle"
    /\ BeginStop(cancel)
    /\ stopper' = [stopper EXCEPT ![c] = [state |-> "waiting", on |-> current]]

\* not wait, or the caller is the active run itself
NeverItself(wait, g) == ~wait                                        \* mutant
LeavesAtOnce(wait, g) == ~wait \/ active = g

\* stop() called by the callback with wait=True.
StopFromRun(g) ==
    /\ run[g] = "running" /\ current # None
    /\ state' = Stopped
    /\ wakeup' = TRUE
    /\ run' = [run EXCEPT ![g] = IF LeavesAtOnce(TRUE, g) THEN "running"
                                                          ELSE "stuck"]
    /\ UNCHANGED <<current, active, loop, origin, due, stopper, now, starts,
                   pauses, last, resumed>>

StopReturns(c) ==
    /\ stopper[c].state = "waiting" /\ loop[stopper[c].on] = "none"
    /\ stopper' = [stopper EXCEPT ![c] = [state |-> "returned", on |-> None]]
    /\ UNCHANGED <<state, wakeup, current, active, loop, origin, due, run, now,
                   starts, pauses, last, resumed>>

----------------------------------------------------------------------------
(* The scheduler task.                                                     *)

\* _next_slot
Slot(g, inclusive) ==
    LET elapsed == now - origin'[g]
        slots == IF inclusive THEN (elapsed + Interval - 1) \div Interval
                              ELSE elapsed \div Interval + 1
    IN  origin'[g] + (IF slots > 1 THEN slots ELSE 1) * Interval

\* From the top of the loop of _run to its next suspension.  _sleep() leaves at
\* once and clears the event when it is set: the loop then comes to the same
\* sleep with the event cleared.
Ends(g) ==
    /\ state = "STOPPING"
    /\ loop' = [loop EXCEPT ![g] = "none"]
    /\ run' = [run EXCEPT ![g] = "none"]
    /\ current' = None /\ active' = None
    /\ state' = "STOPPED"
    /\ UNCHANGED <<wakeup, last, resumed>>

Sleeps(g, kind) ==
    /\ loop' = [loop EXCEPT ![g] = kind]
    /\ run' = [run EXCEPT ![g] = "none"]
    /\ active' = None
    /\ wakeup' = FALSE
    /\ UNCHANGED <<state, current, last, resumed>>

Invokes(g) ==
    /\ loop' = [loop EXCEPT ![g] = "calling"]
    /\ run' = [run EXCEPT ![g] = "created"]
    /\ active' = g
    /\ last' = [last EXCEPT ![g] = now]
    /\ resumed' = FALSE
    /\ UNCHANGED <<state, current>>

Proceed(g, set) ==
    /\ \/ Ends(g)
       \/ state = "PAUSED" /\ Sleeps(g, "untimed")
       \/ state = "RUNNING" /\ due'[g] > now /\ Sleeps(g, "timed")
       \/ /\ state = "RUNNING" /\ due'[g] <= now /\ Invokes(g)
          /\ wakeup' = set
    /\ UNCHANGED <<stopper, now, starts, pauses>>

Begins(g) ==
    /\ loop[g] = "new"
    /\ origin' = [origin EXCEPT ![g] = now]
    /\ due' = [due EXCEPT ![g] = IF Immediately THEN now ELSE now + Interval]
    /\ Proceed(g, wakeup)

WakesFromSleep(g) ==
    /\ loop[g] = "timed" /\ (wakeup \/ now >= due[g])
    /\ UNCHANGED <<origin, due>>
    /\ Proceed(g, FALSE)

WakesFromPause(g) ==
    /\ loop[g] = "untimed" /\ wakeup
    /\ UNCHANGED origin
    /\ due' = [due EXCEPT ![g] = Slot(g, TRUE)]
    /\ Proceed(g, FALSE)

\* due after a run.
AfterRunInclusive(g) == Slot(g, TRUE)                                \* mutant
AfterRun(g) == Slot(g, FALSE)

RunReturned(g) ==
    /\ loop[g] = "calling" /\ run[g] = "ended"
    /\ UNCHANGED origin
    /\ due' = [due EXCEPT ![g] = AfterRun(g)]
    /\ Proceed(g, wakeup)

LoopStep(g) ==
    Begins(g) \/ WakesFromSleep(g) \/ WakesFromPause(g) \/ RunReturned(g)

\* The task of the callback: its first step, and its end, however it ends.
RunMoves(g) ==
    /\ \/ run[g] = "created" /\ run' = [run EXCEPT ![g] = "running"]
       \/ run[g] = "running" /\ run' = [run EXCEPT ![g] = "ended"]
    /\ UNCHANGED <<state, wakeup, current, active, loop, origin, due, stopper,
                   now, starts, pauses, last, resumed>>

Tick ==
    /\ now < MaxTime
    /\ now' = now + 1
    /\ UNCHANGED <<state, wakeup, current, active, loop, origin, due, run,
                   stopper, starts, pauses, last, resumed>>

Rest == state = "STOPPED" /\ starts = MaxStarts /\ UNCHANGED vars

Next ==
    \/ Start \/ Pause \/ Resume
    \/ \E cancel \in BOOLEAN :
         \/ StopWithoutWaiting(cancel)
         \/ \E c \in Stoppers : Stop(c, cancel)
    \/ \E c \in Stoppers : StopReturns(c)
    \/ \E g \in Starts : LoopStep(g) \/ RunMoves(g) \/ StopFromRun(g)
    \/ Tick
    \/ Rest

Spec == Init /\ [][Next]_vars

\* Tasks that can run do, and the callback ends.
Fairness ==
    /\ \A g \in Starts : WF_vars(LoopStep(g)) /\ WF_vars(RunMoves(g))
    /\ \A c \in Stoppers : WF_vars(StopReturns(c))

FairSpec == Spec /\ Fairness

----------------------------------------------------------------------------
(* Properties.                                                             *)

\* Runs never overlap, and a stopped scheduler has none: whatever is started,
\* stopped and started again, with stop() waiting or not, one run at most is
\* alive, it is the one that stop() can cancel, and none when STOPPED.
NoOverlap ==
    \A g \in Starts :
        /\ run[g] \in {"created", "running", "stuck"} => active = g
        /\ loop[g] # "none" => current = g /\ state # "STOPPED"

\* No lost wakeup: a scheduler task sleeps with the event cleared only in the
\* state for which it went to sleep, so that a pause ends with resume() and
\* stop() is noticed before the next slot.
SleepsForAReason ==
    \A g \in Starts :
        ~wakeup =>
            /\ loop[g] = "untimed" => state = "PAUSED"
            /\ loop[g] = "timed" => state = "RUNNING"

\* A slot of the grid has one run, runs start in the order of their slots, and
\* missed slots are not caught up with; only resume() may make the scheduler
\* run twice in a slot, and then at one reading of the clock.
SlotOf(g, t) == (t - origin[g]) \div Interval

OneRunPerSlot ==
    [][\A g \in Starts :
         run[g] # "created" /\ run'[g] = "created" /\ last[g] # Never
             => \/ SlotOf(g, now) > SlotOf(g, last[g])
                \/ now = last[g] /\ resumed]_vars

\* stop() comes to an end, for who waits for it and for the callback that
\* calls it, from every state of the scheduler, paused ones included.
StopEnds ==
    /\ \A c \in Stoppers :
          stopper[c].state = "waiting" ~> stopper[c].state = "returned"
    /\ state = "STOPPING" ~> state = "STOPPED"
=============================================================================
