------------------------------- MODULE Events -------------------------------
(***************************************************************************)
(* The event publisher (src/refresh_engine/events.py): publish() queues an *)
(* event, a dispatcher task delivers the queue to the handlers and ends    *)
(* when the queue is empty, drain() waits for the dispatcher.              *)
(*                                                                         *)
(* Handlers may suspend, so whatever else the event loop runs can run      *)
(* between two calls of handlers.  Handlers and other code are not told    *)
(* apart as publishers and subscribers; only drain() looks at who calls.   *)
(***************************************************************************)
EXTENDS Naturals, Sequences, FiniteSets, SequencesExt

CONSTANTS
    Handlers,       \* functions that may be subscribed
    Callers,        \* code outside the dispatcher that may call drain()
    MaxEvents,      \* bound: events published
    MaxChanges      \* bound: calls of subscribe and unsubscribe with an effect

ASSUME HandlersAssumption == IsFiniteSet(Handlers) /\ IsFiniteSet(Callers)
ASSUME BoundsAssumption == {MaxEvents, MaxChanges} \subseteq Nat

VARIABLES
    subscribed,     \* _handlers
    queue,          \* _queue
    dispatcher,     \* _dispatcher: the last task created, 0 for None
    task,           \* dispatcher tasks: what each is doing
    delivery,       \* dispatcher tasks: [event, left]: the handlers not called
    caller,         \* callers of drain(): what each is doing, and the task
                    \* it waits for
    \* History.
    published,      \* number of events published
    promised,       \* event -> handlers subscribed ever since it was published
    received,       \* handler -> the events it was called with
    killed,         \* a handler raised CancelledError
    changes

vars == <<subscribed, queue, dispatcher, task, delivery, caller, published,
          promised, received, killed, changes>>
history == <<promised, received, killed, changes>>

Events == 1..MaxEvents
Tasks == Events     \* publish() creates at most one task per event
None == 0
TaskStates == {"none", "ready", "calling", "draining", "ended"}

\* Types; nobody is subscribed twice, and a task that calls a handler has one to
\* call.
TypeOK ==
    /\ subscribed \in Seq(Handlers) /\ IsInjective(subscribed)
    /\ queue \in Seq(Events)
    /\ dispatcher \in Tasks \cup {None}
    /\ task \in [Tasks -> TaskStates]
    /\ delivery \in [Tasks -> [event : Events \cup {None},
                              left : Seq(Handlers)]]
    /\ \A t \in Tasks :
          task[t] \in {"calling", "draining"} => delivery[t].left # <<>>
    /\ caller \in [Callers -> [state : {"idle", "waiting", "returned"},
                               on : Tasks \cup {None}]]
    /\ published \in 0..MaxEvents
    /\ promised \in [Events -> SUBSET Handlers]
    /\ received \in [Handlers -> Seq(Events)]
    /\ killed \in BOOLEAN /\ changes \in 0..MaxChanges

Init ==
    /\ subscribed = <<>>
    /\ queue = <<>>
    /\ dispatcher = None
    /\ task = [t \in Tasks |-> "none"]
    /\ delivery = [t \in Tasks |-> [event |-> None, left |-> <<>>]]
    /\ caller = [c \in Callers |-> [state |-> "idle", on |-> None]]
    /\ published = 0
    /\ promised = [e \in Events |-> {}]
    /\ received = [h \in Handlers |-> <<>>]
    /\ killed = FALSE /\ changes = 0

----------------------------------------------------------------------------
IsSubscribed(h) == h \in ToSet(subscribed)

Subscribe(h) ==
    /\ changes < MaxChanges /\ changes' = changes + 1
    /\ ~IsSubscribed(h)
    /\ subscribed' = Append(subscribed, h)
    /\ UNCHANGED <<queue, dispatcher, task, delivery, caller, published,
                   promised, received, killed>>

Unsubscribe(h) ==
    /\ changes < MaxChanges /\ changes' = changes + 1
    /\ \E i \in 1..Len(subscribed) :
          subscribed[i] = h /\ subscribed' = RemoveAt(subscribed, i)
    /\ promised' = [e \in Events |-> promised[e] \ {h}]
    /\ UNCHANGED <<queue, dispatcher, task, delivery, caller, published,
                   received, killed>>

\* dispatcher is None or dispatcher.done()
QueueWasEmpty == queue = <<>>                                       \* mutant
NeedsDispatcher == dispatcher = None \/ task[dispatcher] = "ended"

\* The first task that was not created yet.
NextTask == IF dispatcher = None THEN 1 ELSE dispatcher + 1

\* publish(): a no-op without handlers.
Publish ==
    /\ published < MaxEvents
    /\ subscribed # <<>>
    /\ published' = published + 1
    /\ queue' = Append(queue, published + 1)
    /\ promised' = [promised EXCEPT ![published + 1] = ToSet(subscribed)]
    /\ IF NeedsDispatcher
       THEN /\ dispatcher' = NextTask
            /\ task' = [task EXCEPT ![NextTask] = "ready"]
       ELSE UNCHANGED <<dispatcher, task>>
    /\ UNCHANGED <<subscribed, delivery, caller, received, killed,
                   changes>>

\* The top of _dispatch: the next event, and the handlers subscribed now.
Take(t) ==
    /\ task[t] = "ready" /\ queue # <<>>
    /\ queue' = Tail(queue)
    /\ delivery' = [delivery EXCEPT ![t] = [event |-> Head(queue),
                                            left |-> subscribed]]
    /\ task' = [task EXCEPT ![t] = IF subscribed = <<>> THEN "ready"
                                                        ELSE "calling"]
    /\ UNCHANGED <<subscribed, dispatcher, caller, published, history>>

End(t) ==
    /\ task[t] = "ready" /\ queue = <<>>
    /\ task' = [task EXCEPT ![t] = "ended"]
    /\ UNCHANGED <<subscribed, queue, dispatcher, delivery, caller, published,
                   history>>

\* The current handler has been called; it returns or raises an exception, and
\* the next one is called.
Deliver(t) ==
    LET d == delivery[t]
        h == Head(d.left)
    IN  /\ received' = [received EXCEPT ![h] = Append(@, d.event)]
        /\ delivery' = [delivery EXCEPT ![t].left = Tail(d.left)]
        /\ task' = [task EXCEPT ![t] = IF Tail(d.left) = <<>> THEN "ready"
                                                              ELSE "calling"]
        /\ UNCHANGED <<subscribed, queue, dispatcher, caller, published,
                       promised, killed, changes>>

HandlerReturns(t) == task[t] = "calling" /\ Deliver(t)

\* A handler raises CancelledError, which the dispatcher does not catch: the
\* task ends, whatever is queued or left to call.
HandlerKills(t) ==
    /\ task[t] = "calling"
    /\ task' = [task EXCEPT ![t] = "ended"]
    /\ killed' = TRUE
    /\ UNCHANGED <<subscribed, queue, dispatcher, delivery, caller, published,
                   promised, received, changes>>

\* The loop of drain(), as seen from the task me: wait for the dispatcher?
WaitsForItself(me) == dispatcher # None /\ task[dispatcher] # "ended"   \* mutant
MustWait(me) ==
    dispatcher # None /\ task[dispatcher] # "ended" /\ dispatcher # me

\* A handler calls drain() and then returns.  A wait of a handler for another
\* dispatcher would have an end; there is no other.
HandlerDrains(t) ==
    /\ task[t] = "calling"
    /\ IF MustWait(t)
       THEN /\ task' = [task EXCEPT ![t] = "draining"]
            /\ UNCHANGED <<subscribed, queue, dispatcher, delivery, caller,
                           published, history>>
       ELSE Deliver(t)

\* drain() called from another task, at its call and whenever the dispatcher
\* that it waited for has ended.
WaitOnce(c) ==                                                       \* mutant
    /\ caller' = [caller EXCEPT ![c] =
          IF @.state = "idle" /\ MustWait(None)
          THEN [state |-> "waiting", on |-> dispatcher]
          ELSE [state |-> "returned", on |-> None]]
    /\ UNCHANGED <<subscribed, queue, dispatcher, task, delivery, published,
                   history>>
WaitAgain(c) ==
    /\ caller' = [caller EXCEPT ![c] =
          IF MustWait(None)
          THEN [state |-> "waiting", on |-> dispatcher]
          ELSE [state |-> "returned", on |-> None]]
    /\ UNCHANGED <<subscribed, queue, dispatcher, task, delivery, published,
                   history>>

Drain(c) == caller[c].state = "idle" /\ WaitAgain(c)

DrainWakes(c) ==
    /\ caller[c].state = "waiting" /\ task[caller[c].on] = "ended"
    /\ WaitAgain(c)

----------------------------------------------------------------------------
HandlerEnds(t) == HandlerReturns(t) \/ HandlerDrains(t)

\* Nothing to do but what was already done.
Rest ==
    /\ published = MaxEvents \/ subscribed = <<>>
    /\ changes = MaxChanges
    /\ \A t \in Tasks : task[t] \in {"none", "ended"}
    /\ \A c \in Callers : caller[c].state = "returned"
    /\ UNCHANGED vars

Next ==
    \/ Publish
    \/ \E h \in Handlers : Subscribe(h) \/ Unsubscribe(h)
    \/ \E t \in Tasks : Take(t) \/ End(t) \/ HandlerEnds(t) \/ HandlerKills(t)
    \/ \E c \in Callers : Drain(c) \/ DrainWakes(c)
    \/ Rest

Spec == Init /\ [][Next]_vars

\* The event loop runs the tasks that can run, and every handler returns.
Fairness ==
    /\ \A t \in Tasks : WF_vars(Take(t) \/ End(t)) /\ WF_vars(HandlerEnds(t))
    /\ \A c \in Callers : WF_vars(DrainWakes(c))

FairSpec == Spec /\ Fairness

----------------------------------------------------------------------------
(* Properties.                                                             *)

\* A handler receives events in the order in which they were published, and
\* none twice, whatever is published, subscribed and unsubscribed while it
\* runs and however often the dispatcher ended and was started again: a second
\* dispatcher beside the first would overtake it.
InOrder ==
    \A h \in Handlers :
        \A i, j \in 1..Len(received[h]) :
            i < j => received[h][i] < received[h][j]

\* When drain() returns, at once or after a wait, every event published until
\* then has been delivered to every handler subscribed since: no event is left
\* in the queue with no dispatcher, and events published during the wait are
\* waited for.  A handler that raises CancelledError breaks this.
AllDelivered ==
    \A e \in 1..published :
        \A h \in promised[e] : Contains(received[h], e)

DrainDelivers ==
    [][\A c \in Callers :
         caller'[c].state = "returned" /\ caller[c].state # "returned"
             => AllDelivered \/ killed]_vars

\* Whoever calls drain() gets to the end of it, a handler included.
DrainEnds ==
    /\ \A c \in Callers :
          caller[c].state = "waiting" ~> caller[c].state = "returned"
    /\ \A t \in Tasks : task[t] = "draining" ~> task[t] # "draining"
=============================================================================
