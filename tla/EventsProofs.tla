---------------------------- MODULE EventsProofs ----------------------------
(***************************************************************************)
(* Proofs about Events, for any handlers, callers and number of events:    *)
(* handlers receive events in order and drain() waits for all of them.     *)
(***************************************************************************)
EXTENDS Events, SequenceTheorems, TLAPS

(* Events that the dispatcher has taken off the queue. *)
TakenOff == published - Len(queue)

Calls(t) == task[t] \in {"calling", "draining"}

(* The queue holds the last events, in order; one task at most is alive, and *)
(* one is as long as anything is queued.                                     *)
QueueInv ==
    /\ Len(queue) <= published /\ dispatcher <= published
    /\ \A i \in 1..Len(queue) : queue[i] = TakenOff + i
    /\ \A t \in Tasks : task[t] \in {"ready", "calling", "draining"} => t = dispatcher
    /\ queue # <<>> /\ ~killed => dispatcher # None /\ task[dispatcher] # "ended"

(* Who has yet to be called with an event received only earlier ones. *)
ReceivedInv ==
    /\ InOrder
    /\ \A h \in Handlers : \A i \in 1..Len(received[h]) : received[h][i] <= TakenOff
    /\ \A t \in Tasks : Calls(t) =>
          /\ delivery[t].event \in 1..TakenOff
          /\ IsInjective(delivery[t].left)
          /\ \A k \in 1..Len(delivery[t].left) :
                \A i \in 1..Len(received[delivery[t].left[k]]) :
                    received[delivery[t].left[k]][i] < delivery[t].event

(* An event is still queued, being delivered, or was received by everyone it *)
(* was promised to.                                                          *)
ToBeCalled(e, h) ==
    \E t \in Tasks : /\ Calls(t) /\ delivery[t].event = e
                     /\ \E k \in 1..Len(delivery[t].left) : delivery[t].left[k] = h

PromiseInv ==
    /\ \A e \in Events : \A h \in promised[e] :
          \E k \in 1..Len(subscribed) : subscribed[k] = h
    /\ killed \/ \A e \in 1..published : \A h \in promised[e] :
          Contains(received[h], e) \/ e > TakenOff \/ ToBeCalled(e, h)

IInv == TypeOK /\ QueueInv /\ ReceivedInv /\ PromiseInv

----------------------------------------------------------------------------
(* The initial states *)

LEMMA InitInv == Init => IInv
<1> SUFFICES ASSUME Init PROVE IInv
  OBVIOUS
<1>1. TypeOK
  <2>1. /\ subscribed = <<>> /\ subscribed \in Seq(Handlers) /\ IsInjective(subscribed)
        /\ queue \in Seq(Events) /\ received \in [Handlers -> Seq(Events)]
    BY DEF Init, IsInjective
  <2>2. delivery \in [Tasks -> [event : Events \cup {None}, left : Seq(Handlers)]]
    BY DEF Init
  <2>3. /\ dispatcher \in Tasks \cup {None} /\ task \in [Tasks -> TaskStates]
        /\ \A t \in Tasks : task[t] = "none"
    BY DEF Init, TaskStates
  <2>4. caller \in [Callers -> [state : {"idle", "waiting", "returned"}, on : Tasks \cup {None}]]
    BY DEF Init
  <2>5. published \in 0..MaxEvents /\ changes \in 0..MaxChanges /\ killed \in BOOLEAN
    <3>1. MaxEvents \in Nat /\ MaxChanges \in Nat
      BY BoundsAssumption
    <3>2. published = 0 /\ changes = 0 /\ killed = FALSE
      BY DEF Init
    <3>3. published \in 0..MaxEvents /\ changes \in 0..MaxChanges
      BY <3>1, <3>2
    <3> QED BY <3>2, <3>3
  <2>6. promised \in [Events -> SUBSET Handlers]
    BY DEF Init
  <2> QED BY <2>1, <2>2, <2>3, <2>4, <2>5, <2>6 DEF TypeOK
<1>2. QueueInv
  BY DEF Init, QueueInv, TakenOff, None
<1>3. ReceivedInv
  BY DEF Init, ReceivedInv, InOrder, Calls
<1>4. PromiseInv
  BY DEF Init, PromiseInv
<1> QED BY <1>1, <1>2, <1>3, <1>4 DEF IInv

----------------------------------------------------------------------------
(* Sequences *)

(* Removing a handler keeps the others, in order, none twice. *)
LEMMA Removed ==
  ASSUME NEW S, NEW s \in Seq(S), NEW i \in 1..Len(s), IsInjective(s)
  PROVE  /\ RemoveAt(s, i) \in Seq(S) /\ IsInjective(RemoveAt(s, i))
         /\ \A k \in 1..Len(s) : k # i => \E j \in 1..Len(RemoveAt(s, i)) :
               RemoveAt(s, i)[j] = s[k]
<1> DEFINE front == SubSeq(s, 1, i - 1)
           back == SubSeq(s, i + 1, Len(s))
           rest == front \o back
<1>1. /\ front \in Seq(S) /\ Len(front) = i - 1
      /\ \A j \in 1..(i - 1) : front[j] = s[j]
  BY SubSeqProperties
<1>2. /\ back \in Seq(S) /\ Len(back) = Len(s) - i
      /\ \A j \in 1..(Len(s) - i) : back[j] = s[i + j]
  BY SubSeqProperties
<1>3. /\ rest \in Seq(S) /\ Len(rest) = Len(s) - 1
      /\ \A j \in 1..(Len(s) - 1) :
           rest[j] = IF j <= i - 1 THEN front[j] ELSE back[j - (i - 1)]
  <2> HIDE DEF front, back
  <2>1. /\ rest \in Seq(S) /\ Len(rest) = Len(front) + Len(back)
        /\ \A j \in 1..Len(front) + Len(back) :
              rest[j] = IF j <= Len(front) THEN front[j] ELSE back[j - Len(front)]
    BY <1>1, <1>2, ConcatProperties
  <2> QED BY <1>1, <1>2, <2>1
<1>4. RemoveAt(s, i) = rest
  BY DEF RemoveAt
<1> HIDE DEF front, back, rest
<1>5. ASSUME NEW j \in 1..Len(rest)
      PROVE  rest[j] = s[IF j < i THEN j ELSE j + 1]
  <2>1. CASE j < i
    BY <1>1, <1>3, <2>1
  <2>2. CASE ~(j < i)
    <3>1. j - (i - 1) \in 1..(Len(s) - i) /\ i + (j - (i - 1)) = j + 1
      BY <1>3, <2>2
    <3> QED BY <1>2, <1>3, <2>2, <3>1
  <2> QED BY <2>1, <2>2
<1>6. DOMAIN s = 1..Len(s) /\ DOMAIN rest = 1..Len(rest)
  BY <1>3
<1>7. IsInjective(rest)
  <2> SUFFICES ASSUME NEW j \in 1..Len(rest), NEW k \in 1..Len(rest), rest[j] = rest[k]
               PROVE  j = k
    BY <1>6 DEF IsInjective
  <2> DEFINE at(m) == IF m < i THEN m ELSE m + 1
  <2>1. at(j) \in 1..Len(s) /\ at(k) \in 1..Len(s) /\ s[at(j)] = s[at(k)]
    BY <1>3, <1>5
  <2>2. at(j) = at(k)
    BY <1>6, <2>1 DEF IsInjective
  <2> QED BY <1>3, <2>2
<1>8. ASSUME NEW k \in 1..Len(s), k # i
      PROVE  \E j \in 1..Len(rest) : rest[j] = s[k]
  <2>1. CASE k < i
    <3>1. k \in 1..Len(rest)
      BY <1>3, <2>1
    <3> QED BY <1>5, <2>1, <3>1
  <2>2. CASE k > i
    <3>1. k - 1 \in 1..Len(rest) /\ ~(k - 1 < i) /\ (k - 1) + 1 = k
      BY <1>3, <2>2
    <3> QED BY <1>5, <3>1
  <2> QED BY <1>8, <2>1, <2>2
<1> QED BY <1>3, <1>4, <1>7, <1>8

(* The rest of a sequence without repetitions. *)
LEMMA TailInjective ==
  ASSUME NEW S, NEW s \in Seq(S), s # <<>>, IsInjective(s)
  PROVE  /\ Head(s) = s[1] /\ Tail(s) \in Seq(S) /\ IsInjective(Tail(s))
         /\ Len(Tail(s)) = Len(s) - 1
         /\ \A k \in 1..Len(Tail(s)) : Tail(s)[k] = s[k + 1] /\ Tail(s)[k] # s[1]
<1>1. /\ Tail(s) \in Seq(S) /\ Len(Tail(s)) = Len(s) - 1
      /\ \A k \in 1..Len(Tail(s)) : Tail(s)[k] = s[k + 1]
  BY HeadTailProperties
<1>2. DOMAIN s = 1..Len(s) /\ DOMAIN Tail(s) = 1..Len(Tail(s)) /\ Len(s) \in Nat \ {0}
  BY <1>1, EmptySeq
<1>3. IsInjective(Tail(s))
  BY <1>1, <1>2 DEF IsInjective
<1>4. \A k \in 1..Len(Tail(s)) : Tail(s)[k] # s[1]
  BY <1>1, <1>2 DEF IsInjective
<1> QED BY <1>1, <1>3, <1>4
----------------------------------------------------------------------------
(* Every step keeps the invariant *)

LEMMA SubscribeInv ==
  ASSUME IInv, NEW h \in Handlers, Subscribe(h) \/ Unsubscribe(h)
  PROVE  IInv'
<1>1. /\ UNCHANGED <<queue, dispatcher, task, delivery, caller, published, received, killed>>
      /\ changes' \in 0..MaxChanges
  BY BoundsAssumption, SMTT(60) DEF Subscribe, Unsubscribe, IInv, TypeOK
<1>2. /\ subscribed \in Seq(Handlers) /\ IsInjective(subscribed)
      /\ promised \in [Events -> SUBSET Handlers]
      /\ DOMAIN subscribed = 1..Len(subscribed) /\ Len(subscribed) \in Nat
  BY DEF IInv, TypeOK
<1>3. /\ subscribed' \in Seq(Handlers) /\ IsInjective(subscribed')
      /\ promised' \in [Events -> SUBSET Handlers]
      /\ \A e \in Events : promised'[e] \subseteq promised[e]
      /\ \A e \in Events : \A g \in promised'[e] :
            \E k \in 1..Len(subscribed') : subscribed'[k] = g
  <2>1. CASE Subscribe(h)
    <3>1. subscribed' = Append(subscribed, h) /\ promised' = promised
          /\ h \notin ToSet(subscribed)
      BY <2>1 DEF Subscribe, IsSubscribed
    <3>2. /\ subscribed' \in Seq(Handlers) /\ Len(subscribed') = Len(subscribed) + 1
          /\ \A k \in 1..Len(subscribed) : subscribed'[k] = subscribed[k]
          /\ subscribed'[Len(subscribed) + 1] = h
      BY <1>2, <3>1, AppendProperties
    <3>3. \A k \in 1..Len(subscribed) : subscribed[k] # h
      BY <1>2, <3>1 DEF ToSet
    <3>4. DOMAIN subscribed' = 1..Len(subscribed')
      BY <3>2
    <3>5. IsInjective(subscribed')
      <4> SUFFICES ASSUME NEW a \in 1..Len(subscribed'), NEW b \in 1..Len(subscribed'),
                          subscribed'[a] = subscribed'[b]
                   PROVE  a = b
        BY <3>4 DEF IsInjective
      <4> QED BY <1>2, <3>2, <3>3 DEF IsInjective
    <3>6. \A e \in Events : \A g \in promised[e] :
             \E k \in 1..Len(subscribed') : subscribed'[k] = g
      BY <1>2, <3>2 DEF IInv, PromiseInv
    <3> QED BY <1>2, <3>1, <3>2, <3>5, <3>6
  <2>2. CASE Unsubscribe(h)
    <3>1. PICK i \in 1..Len(subscribed) :
             subscribed[i] = h /\ subscribed' = RemoveAt(subscribed, i)
      BY <2>2 DEF Unsubscribe
    <3>2. promised' = [e \in Events |-> promised[e] \ {h}]
      BY <2>2 DEF Unsubscribe
    <3>3. /\ subscribed' \in Seq(Handlers) /\ IsInjective(subscribed')
          /\ \A k \in 1..Len(subscribed) : k # i => \E j \in 1..Len(subscribed') :
                subscribed'[j] = subscribed[k]
      BY <1>2, <3>1, Removed
    <3>4. ASSUME NEW e \in Events, NEW g \in promised'[e]
          PROVE  \E k \in 1..Len(subscribed') : subscribed'[k] = g
      <4>1. g \in promised[e] /\ g # h
        BY <3>2
      <4>2. PICK k \in 1..Len(subscribed) : subscribed[k] = g
        BY <4>1 DEF IInv, PromiseInv
      <4> QED BY <3>1, <3>3, <4>1, <4>2
    <3> QED BY <1>2, <3>2, <3>3, <3>4
  <2> QED BY <2>1, <2>2
<1>4. TypeOK'
  BY <1>1, <1>3 DEF IInv, TypeOK
<1>5. QueueInv'
  BY <1>1 DEF IInv, QueueInv, TakenOff
<1>6. ReceivedInv'
  BY <1>1 DEF IInv, ReceivedInv, InOrder, TakenOff, Calls
<1>7. PromiseInv'
  <2>1. \A e, g : (Contains(received[g], e))' <=> Contains(received[g], e)
    BY <1>1
  <2>2. \A e, g : ToBeCalled(e, g)' <=> ToBeCalled(e, g)
    BY <1>1 DEF ToBeCalled, Calls
  <2>3. TakenOff' = TakenOff
    BY <1>1 DEF TakenOff
  <2>4. 1..published \subseteq Events
    BY BoundsAssumption DEF IInv, TypeOK, Events
  <2> QED BY <1>1, <1>3, <2>1, <2>2, <2>3, <2>4 DEF IInv, PromiseInv
<1> QED BY <1>4, <1>5, <1>6, <1>7 DEF IInv

LEMMA PublishInv ==
  ASSUME IInv, Publish
  PROVE  IInv'
<1>1. /\ published < MaxEvents /\ published' = published + 1
      /\ queue' = Append(queue, published + 1)
      /\ promised' = [promised EXCEPT ![published + 1] = ToSet(subscribed)]
      /\ IF NeedsDispatcher
         THEN dispatcher' = NextTask /\ task' = [task EXCEPT ![NextTask] = "ready"]
         ELSE UNCHANGED <<dispatcher, task>>
      /\ UNCHANGED <<subscribed, delivery, caller, received, killed, changes>>
  BY DEF Publish
<1>2. /\ subscribed \in Seq(Handlers) /\ DOMAIN subscribed = 1..Len(subscribed)
      /\ queue \in Seq(Events) /\ Len(queue) \in Nat
      /\ dispatcher \in Tasks \cup {None} /\ task \in [Tasks -> TaskStates]
      /\ published \in Nat /\ promised \in [Events -> SUBSET Handlers] /\ MaxEvents \in Nat
  BY BoundsAssumption DEF IInv, TypeOK
<1>3. published + 1 \in Events /\ 1..published \subseteq Events
  BY <1>1, <1>2 DEF Events
<1>4. /\ queue' \in Seq(Events) /\ Len(queue') = Len(queue) + 1
      /\ \A i \in 1..Len(queue) : queue'[i] = queue[i]
      /\ queue'[Len(queue) + 1] = published + 1
  BY <1>1, <1>2, <1>3, AppendProperties
<1>5. TakenOff' = TakenOff /\ TakenOff <= published
  BY <1>1, <1>2, <1>4 DEF TakenOff
<1>6. /\ dispatcher' \in Tasks /\ dispatcher' <= published'
      /\ task' \in [Tasks -> TaskStates] /\ task'[dispatcher'] # "ended"
      /\ \A t \in Tasks : task'[t] \in {"ready", "calling", "draining"} => t = dispatcher'
      /\ \A t \in Tasks : task'[t] \in {"calling", "draining"} <=>
                          task[t] \in {"calling", "draining"}
  <2>1. CASE NeedsDispatcher
    <3>1. NextTask \in Tasks /\ NextTask <= published + 1
      BY <1>1, <1>2 DEF IInv, QueueInv, NextTask, Tasks, Events, None
    <3>2. \A t \in Tasks : task[t] \notin {"ready", "calling", "draining"}
      <4>1. dispatcher \notin Tasks \/ task[dispatcher] = "ended"
        BY <2>1 DEF NeedsDispatcher, None, Tasks, Events
      <4> QED BY <1>2, <4>1 DEF IInv, QueueInv
    <3> QED BY <1>1, <1>2, <2>1, <3>1, <3>2 DEF TaskStates
  <2>2. CASE ~NeedsDispatcher
    <3>1. dispatcher \in Tasks /\ task[dispatcher] # "ended"
      BY <1>2, <2>2 DEF NeedsDispatcher
    <3>2. dispatcher' = dispatcher /\ task' = task
      BY <1>1, <2>2
    <3>3. dispatcher' <= published'
      BY <1>1, <1>2, <3>1, <3>2 DEF IInv, QueueInv, Tasks, Events
    <3> QED BY <1>2, <3>1, <3>2, <3>3 DEF IInv, QueueInv
  <2> QED BY <2>1, <2>2
<1>7. TypeOK'
  <2>1. ToSet(subscribed) \in SUBSET Handlers
    BY <1>2 DEF ToSet
  <2>2. promised' \in [Events -> SUBSET Handlers] /\ published' \in 0..MaxEvents
    BY <1>1, <1>2, <1>3, <2>1
  <2> QED BY <1>1, <1>4, <1>6, <2>2 DEF IInv, TypeOK
<1>8. QueueInv'
  <2>1. \A i \in 1..Len(queue') : queue'[i] = TakenOff' + i
    <3>1. \A i \in 1..Len(queue) : queue[i] = TakenOff + i
      BY DEF IInv, QueueInv
    <3>2. published + 1 = TakenOff + (Len(queue) + 1)
      BY <1>2 DEF TakenOff
    <3>3. \A i \in 1..Len(queue') : i \in 1..Len(queue) \/ i = Len(queue) + 1
      BY <1>2, <1>4
    <3> QED BY <1>4, <1>5, <3>1, <3>2, <3>3
  <2>2. Len(queue') <= published'
    BY <1>1, <1>2, <1>4 DEF IInv, QueueInv
  <2>3. dispatcher' # None
    BY <1>6 DEF Tasks, Events, None
  <2> QED BY <1>6, <2>1, <2>2, <2>3 DEF QueueInv
<1>9. ReceivedInv'
  BY <1>1, <1>5, <1>6 DEF IInv, ReceivedInv, InOrder, Calls
<1>10. PromiseInv'
  <2>1. \A e \in Events : \A h \in promised'[e] :
           \E k \in 1..Len(subscribed') : subscribed'[k] = h
    BY <1>1, <1>2, <1>3 DEF IInv, PromiseInv, ToSet
  <2>2. \A e \in 1..published : promised'[e] = promised[e]
    BY <1>1, <1>2, <1>3
  <2>3. \A e, g : /\ (Contains(received[g], e))' <=> Contains(received[g], e)
                  /\ ToBeCalled(e, g)' <=> ToBeCalled(e, g)
    BY <1>1, <1>6 DEF ToBeCalled, Calls
  <2>4. published + 1 > TakenOff'
    BY <1>2, <1>5 DEF TakenOff
  <2>5. 1..published' = 1..published \cup {published + 1}
    BY <1>1, <1>2
  <2> QED BY <1>1, <1>5, <2>1, <2>2, <2>3, <2>4, <2>5 DEF IInv, PromiseInv
<1> QED BY <1>7, <1>8, <1>9, <1>10 DEF IInv

(* The dispatcher takes the next event. *)
LEMMA TakeInv ==
  ASSUME IInv, NEW t \in Tasks, Take(t)
  PROVE  IInv'
<1>1. /\ task[t] = "ready" /\ queue # <<>>
      /\ queue' = Tail(queue)
      /\ delivery' = [delivery EXCEPT ![t] = [event |-> Head(queue), left |-> subscribed]]
      /\ task' = [task EXCEPT ![t] = IF subscribed = <<>> THEN "ready" ELSE "calling"]
      /\ UNCHANGED <<subscribed, dispatcher, caller, published, promised, received,
                     killed, changes>>
  BY DEF Take, history
<1>2. /\ subscribed \in Seq(Handlers) /\ IsInjective(subscribed)
      /\ queue \in Seq(Events) /\ task \in [Tasks -> TaskStates]
      /\ published \in Nat
      /\ delivery \in [Tasks -> [event : Events \cup {None}, left : Seq(Handlers)]]
      /\ received \in [Handlers -> Seq(Events)]
  BY DEF IInv, TypeOK
<1>3. t = dispatcher /\ \A u \in Tasks \ {t} : task[u] \notin {"ready", "calling", "draining"}
  BY <1>1 DEF IInv, QueueInv
<1>4. /\ Len(queue) \in Nat \ {0} /\ queue' \in Seq(Events) /\ Len(queue') = Len(queue) - 1
      /\ \A i \in 1..Len(queue') : queue'[i] = queue[i + 1]
      /\ Head(queue) = queue[1] /\ Head(queue) \in Events
  BY <1>1, <1>2, EmptySeq, HeadTailProperties
<1>5. TakenOff' = TakenOff + 1 /\ TakenOff \in Nat /\ TakenOff' \in Nat
  BY <1>1, <1>2, <1>4 DEF TakenOff, IInv, QueueInv
<1>6. Head(queue) = TakenOff'
  BY <1>4, <1>5 DEF IInv, QueueInv
<1>7. /\ task' \in [Tasks -> TaskStates]
      /\ \A u \in Tasks : task'[u] \in {"ready", "calling", "draining"} => u = t
      /\ task'[t] # "ended"
      /\ task'[t] = "ready" => subscribed = <<>>
  BY <1>1, <1>2, <1>3 DEF TaskStates
<1>8. /\ delivery' \in [Tasks -> [event : Events \cup {None}, left : Seq(Handlers)]]
      /\ delivery'[t].event = TakenOff' /\ delivery'[t].left = subscribed
  BY <1>1, <1>2, <1>4, <1>6
<1>9. TypeOK'
  BY <1>1, <1>2, <1>4, <1>7, <1>8 DEF IInv, TypeOK
<1>10. QueueInv'
  <2>1. \A i \in 1..Len(queue') : queue'[i] = TakenOff' + i
    <3> SUFFICES ASSUME NEW i \in 1..Len(queue') PROVE queue'[i] = TakenOff' + i
      OBVIOUS
    <3>1. i + 1 \in 1..Len(queue)
      BY <1>4
    <3>2. queue[i + 1] = TakenOff + (i + 1)
      BY <3>1 DEF IInv, QueueInv
    <3> QED BY <1>4, <1>5, <3>2
  <2>2. Len(queue') <= published'
    BY <1>1, <1>2, <1>4 DEF IInv, QueueInv
  <2>3. t # None
    BY DEF Tasks, Events, None
  <2> QED BY <1>1, <1>3, <1>7, <2>1, <2>2, <2>3 DEF IInv, QueueInv
<1>11. ReceivedInv'
  <2>1. \A h \in Handlers : \A i \in 1..Len(received[h]) :
           received[h][i] \in Nat /\ received[h][i] <= TakenOff
    <3>1. \A h \in Handlers : \A i \in 1..Len(received[h]) : received[h][i] \in Events
      BY <1>2
    <3>2. Events \subseteq Nat
      BY DEF Events
    <3> QED BY <3>1, <3>2 DEF IInv, ReceivedInv
  <2>2. \A h \in Handlers : \A i \in 1..Len(received'[h]) :
           received'[h][i] <= TakenOff' /\ received'[h][i] < TakenOff'
    BY <1>1, <1>5, <2>1
  <2>3. ASSUME NEW u \in Tasks, Calls(u)'
        PROVE  /\ delivery'[u].event \in 1..TakenOff'
               /\ IsInjective(delivery'[u].left)
               /\ \A k \in 1..Len(delivery'[u].left) :
                     \A i \in 1..Len(received'[delivery'[u].left[k]]) :
                         received'[delivery'[u].left[k]][i] < delivery'[u].event
    <3>1. u = t
      BY <1>7, <2>3 DEF Calls
    <3>2. TakenOff' \in 1..TakenOff'
      BY <1>5
    <3>3. \A k \in 1..Len(subscribed) : subscribed[k] \in Handlers
      BY <1>2
    <3> QED BY <1>2, <1>8, <2>2, <3>1, <3>2, <3>3
  <2>4. InOrder'
    BY <1>1 DEF IInv, ReceivedInv, InOrder
  <2> QED BY <2>2, <2>3, <2>4 DEF ReceivedInv
<1>12. PromiseInv'
  <2>1. killed \/ \A e \in 1..published : \A h \in promised[e] :
           Contains(received[h], e) \/ e > TakenOff' \/ ToBeCalled(e, h)'
    <3> SUFFICES ASSUME ~killed, NEW e \in 1..published, NEW h \in promised[e],
                        ~Contains(received[h], e), ~(e > TakenOff')
                 PROVE  ToBeCalled(e, h)'
      OBVIOUS
    <3>1. \A u \in Tasks : ~Calls(u)
      BY <1>1, <1>3 DEF Calls
    <3>2. e > TakenOff
      BY <3>1 DEF IInv, PromiseInv, ToBeCalled
    <3>3. e = TakenOff'
      BY <1>5, <3>2
    <3>4. e \in Events
      BY BoundsAssumption DEF IInv, TypeOK, Events
    <3>5. PICK k \in 1..Len(subscribed) : subscribed[k] = h
      BY <3>4 DEF IInv, PromiseInv
    <3>6. task'[t] = "calling"
      BY <1>1, <1>2, <3>5
    <3> QED BY <1>8, <3>3, <3>5, <3>6 DEF ToBeCalled, Calls
  <2> QED BY <1>1, <2>1 DEF IInv, PromiseInv
<1> QED BY <1>9, <1>10, <1>11, <1>12 DEF IInv

(* It ends when nothing is queued. *)
LEMMA EndInv ==
  ASSUME IInv, NEW t \in Tasks, End(t)
  PROVE  IInv'
<1>1. /\ task[t] = "ready" /\ queue = <<>> /\ task' = [task EXCEPT ![t] = "ended"]
      /\ UNCHANGED <<subscribed, queue, dispatcher, delivery, caller, published,
                     promised, received, killed, changes>>
  BY DEF End, history
<1>2. task \in [Tasks -> TaskStates]
  BY DEF IInv, TypeOK
<1>3. /\ task' \in [Tasks -> TaskStates]
      /\ \A u \in Tasks : task'[u] \in {"ready", "calling", "draining"}
                              => task[u] \in {"ready", "calling", "draining"}
      /\ \A u : u \in Tasks => (Calls(u)' <=> Calls(u))
  BY <1>1, <1>2 DEF TaskStates, Calls
<1>4. TypeOK'
  BY <1>1, <1>3 DEF IInv, TypeOK, Calls
<1>5. QueueInv'
  BY <1>1, <1>3 DEF IInv, QueueInv, TakenOff
<1>6. ReceivedInv'
  BY <1>1, <1>3 DEF IInv, ReceivedInv, InOrder, TakenOff
<1>7. PromiseInv'
  <2>1. \A e, h : ToBeCalled(e, h)' <=> ToBeCalled(e, h)
    BY <1>1, <1>3 DEF ToBeCalled
  <2>2. TakenOff' = TakenOff
    BY <1>1 DEF TakenOff
  <2> QED BY <1>1, <2>1, <2>2 DEF IInv, PromiseInv
<1> QED BY <1>4, <1>5, <1>6, <1>7 DEF IInv

(* A sequence with one more element at its end. *)
LEMMA Appended ==
  ASSUME NEW S, NEW s \in Seq(S), NEW e \in S, NEW u, u = Append(s, e)
  PROVE  /\ Len(u) = Len(s) + 1
         /\ \A i \in 1..Len(s) : u[i] = s[i]
         /\ u[Len(s) + 1] = e
  BY AppendProperties

(* A handler that was called returns. *)
LEMMA DeliverInv ==
  ASSUME IInv, NEW t \in Tasks, task[t] = "calling", Deliver(t)
  PROVE  IInv'
<1> DEFINE d == delivery[t]
           h == Head(d.left)
<1>1. /\ received' = [received EXCEPT ![h] = Append(@, d.event)]
      /\ delivery' = [delivery EXCEPT ![t].left = Tail(d.left)]
      /\ task' = [task EXCEPT ![t] = IF Tail(d.left) = <<>> THEN "ready" ELSE "calling"]
      /\ UNCHANGED <<subscribed, queue, dispatcher, caller, published, promised,
                     killed, changes>>
  BY DEF Deliver
<1>2. /\ task \in [Tasks -> TaskStates] /\ received \in [Handlers -> Seq(Events)]
      /\ delivery \in [Tasks -> [event : Events \cup {None}, left : Seq(Handlers)]]
      /\ d.left \in Seq(Handlers) /\ d.left # <<>> /\ d.event \in Events \cup {None}
  BY DEF IInv, TypeOK
<1>3. /\ d.event \in 1..TakenOff /\ IsInjective(d.left)
      /\ \A k \in 1..Len(d.left) : \A i \in 1..Len(received[d.left[k]]) :
            received[d.left[k]][i] < d.event
  BY DEF IInv, ReceivedInv, Calls
<1>4. /\ h = d.left[1] /\ Tail(d.left) \in Seq(Handlers) /\ IsInjective(Tail(d.left))
      /\ Len(Tail(d.left)) = Len(d.left) - 1
      /\ \A k \in 1..Len(Tail(d.left)) :
            Tail(d.left)[k] = d.left[k + 1] /\ Tail(d.left)[k] # h
  BY <1>2, <1>3, TailInjective
<1>5. h \in Handlers /\ d.event \in Events /\ Len(d.left) \in Nat \ {0} /\ 1 \in 1..Len(d.left)
  <2>1. d.event # None
    BY <1>3 DEF None
  <2>2. Len(d.left) \in Nat \ {0}
    BY <1>2, EmptySeq
  <2> QED BY <1>2, <1>4, <2>1, <2>2
<1>6. t = dispatcher /\ \A u \in Tasks \ {t} : task[u] \notin {"ready", "calling", "draining"}
  BY DEF IInv, QueueInv
<1>7. /\ received' \in [Handlers -> Seq(Events)]
      /\ received'[h] = Append(received[h], d.event)
      /\ \A g \in Handlers \ {h} : received'[g] = received[g]
  BY <1>1, <1>2, <1>5, AppendProperties
<1>8. /\ Len(received[h]) \in Nat /\ Len(received'[h]) = Len(received[h]) + 1
      /\ \A i \in 1..Len(received[h]) : received'[h][i] = received[h][i]
      /\ received'[h][Len(received[h]) + 1] = d.event
  <2>1. received[h] \in Seq(Events) /\ d.event \in Events
    BY <1>2, <1>5
  <2>2. Len(received[h]) \in Nat
    BY <2>1
  <2>3. /\ Len(received'[h]) = Len(received[h]) + 1
        /\ \A i \in 1..Len(received[h]) : received'[h][i] = received[h][i]
        /\ received'[h][Len(received[h]) + 1] = d.event
    <3>1. received'[h] = Append(received[h], d.event)
      BY <1>7
    <3> HIDE DEF d, h
    <3> QED BY <2>1, <3>1, Appended
  <2> QED BY <2>2, <2>3
<1>9. /\ delivery' \in [Tasks -> [event : Events \cup {None}, left : Seq(Handlers)]]
      /\ delivery'[t].event = d.event /\ delivery'[t].left = Tail(d.left)
      /\ \A u \in Tasks \ {t} : delivery'[u] = delivery[u]
  BY <1>1, <1>2, <1>4
<1>10. /\ task' \in [Tasks -> TaskStates] /\ task'[t] \in {"ready", "calling"}
       /\ \A u \in Tasks : task'[u] \in {"ready", "calling", "draining"} => u = t
       /\ task'[t] = "ready" <=> Tail(d.left) = <<>>
  BY <1>1, <1>2, <1>6 DEF TaskStates
<1>11. TakenOff' = TakenOff
  BY <1>1 DEF TakenOff
<1> HIDE DEF d, h
<1>12. TypeOK'
  BY <1>1, <1>7, <1>9, <1>10 DEF IInv, TypeOK
<1>13. QueueInv'
  BY <1>1, <1>6, <1>10, <1>11 DEF IInv, QueueInv
<1>14. ReceivedInv'
  <2>1. \A i \in 1..Len(received[h]) : received[h][i] < d.event
    BY <1>3, <1>4, <1>5
  <2>2. InOrder'
    <3> SUFFICES ASSUME NEW g \in Handlers, NEW i \in 1..Len(received'[g]),
                        NEW j \in 1..Len(received'[g]), i < j
                 PROVE  received'[g][i] < received'[g][j]
      BY DEF InOrder
    <3>1. CASE g # h
      BY <1>7, <3>1 DEF IInv, ReceivedInv, InOrder
    <3>2. CASE g = h /\ j \in 1..Len(received[h])
      <4>1. i \in 1..Len(received[h])
        BY <1>8, <3>2
      <4> QED BY <1>5, <1>8, <3>2, <4>1 DEF IInv, ReceivedInv, InOrder
    <3>3. CASE g = h /\ j = Len(received[h]) + 1
      <4>1. i \in 1..Len(received[h])
        BY <1>8, <3>3
      <4> QED BY <1>8, <2>1, <3>3, <4>1
    <3> QED BY <1>8, <3>1, <3>2, <3>3
  <2>3. \A g \in Handlers : \A i \in 1..Len(received'[g]) : received'[g][i] <= TakenOff
    <3> SUFFICES ASSUME NEW g \in Handlers, NEW i \in 1..Len(received'[g])
                 PROVE  received'[g][i] <= TakenOff
      OBVIOUS
    <3>1. CASE g # h
      BY <1>7, <3>1 DEF IInv, ReceivedInv
    <3>2. CASE g = h /\ i \in 1..Len(received[h])
      BY <1>5, <1>8, <3>2 DEF IInv, ReceivedInv
    <3>3. CASE g = h /\ i = Len(received[h]) + 1
      BY <1>3, <1>8, <3>3
    <3> QED BY <1>8, <3>1, <3>2, <3>3
  <2>4. ASSUME NEW u \in Tasks, Calls(u)'
        PROVE  /\ delivery'[u].event \in 1..TakenOff'
               /\ IsInjective(delivery'[u].left)
               /\ \A k \in 1..Len(delivery'[u].left) :
                     \A i \in 1..Len(received'[delivery'[u].left[k]]) :
                         received'[delivery'[u].left[k]][i] < delivery'[u].event
    <3>1. u = t
      BY <1>10, <2>4 DEF Calls
    <3>2. \A k \in 1..Len(Tail(d.left)) :
            /\ k + 1 \in 1..Len(d.left) /\ Tail(d.left)[k] \in Handlers \ {h}
            /\ Tail(d.left)[k] = d.left[k + 1]
      BY <1>4, <1>5
    <3>3. \A k \in 1..Len(Tail(d.left)) : received'[Tail(d.left)[k]] = received[d.left[k + 1]]
      BY <1>7, <3>2
    <3>4. \A k \in 1..Len(Tail(d.left)) : \A i \in 1..Len(received'[Tail(d.left)[k]]) :
             received'[Tail(d.left)[k]][i] < d.event
      BY <1>3, <3>2, <3>3
    <3> QED BY <1>3, <1>4, <1>9, <1>11, <3>1, <3>4
  <2> QED BY <1>11, <2>2, <2>3, <2>4 DEF ReceivedInv
<1>15. PromiseInv'
  <2>1. ASSUME ~killed, NEW e \in 1..published, NEW g \in promised[e]
        PROVE  (Contains(received[g], e))' \/ e > TakenOff' \/ ToBeCalled(e, g)'
    <3>1. g \in Handlers
      <4>1. e \in Events
        BY BoundsAssumption DEF IInv, TypeOK, Events
      <4> QED BY <4>1 DEF IInv, TypeOK
    <3>2. CASE Contains(received[g], e)
      <4>1. PICK i \in 1..Len(received[g]) : received[g][i] = e
        BY <3>2 DEF Contains
      <4>2. i \in 1..Len(received'[g]) /\ received'[g][i] = e
        BY <1>7, <1>8, <3>1, <4>1
      <4> QED BY <4>2 DEF Contains
    <3>3. CASE ToBeCalled(e, g)
      <4>1. PICK u \in Tasks : /\ Calls(u) /\ delivery[u].event = e
                               /\ \E k \in 1..Len(delivery[u].left) : delivery[u].left[k] = g
        BY <3>3 DEF ToBeCalled
      <4>2. u = t
        BY <1>6, <4>1 DEF Calls
      <4>3. PICK k \in 1..Len(d.left) : d.left[k] = g /\ e = d.event
        BY <4>1, <4>2 DEF d
      <4>4. CASE k = 1
        <5>1. g = h
          BY <1>4, <4>3, <4>4
        <5>2. Len(received'[g]) \in 1..Len(received'[g]) /\ received'[g][Len(received'[g])] = e
          BY <1>8, <4>3, <5>1
        <5> QED BY <5>2 DEF Contains
      <4>5. CASE k # 1
        <5>1. k - 1 \in 1..Len(Tail(d.left)) /\ Tail(d.left)[k - 1] = g
          BY <1>4, <1>5, <4>3, <4>5
        <5>2. Tail(d.left) # <<>>
          <6>1. Len(Tail(d.left)) # 0
            BY <1>4, <1>5, <5>1
          <6>2. Len(<<>>) = 0
            OBVIOUS
          <6> QED BY <6>1, <6>2
        <5>3. task'[t] = "calling"
          BY <1>10, <5>2
        <5> QED BY <1>9, <4>3, <5>1, <5>3 DEF ToBeCalled, Calls
      <4> QED BY <4>4, <4>5
    <3>4. CASE e > TakenOff
      BY <1>11, <3>4
    <3> QED BY <2>1, <3>2, <3>3, <3>4 DEF IInv, PromiseInv
  <2>2. \A e \in Events : \A g \in promised'[e] :
           \E k \in 1..Len(subscribed') : subscribed'[k] = g
    BY <1>1 DEF IInv, PromiseInv
  <2> QED BY <1>1, <2>1, <2>2 DEF PromiseInv
<1> QED BY <1>12, <1>13, <1>14, <1>15 DEF IInv

(* A handler that raises CancelledError ends the dispatcher. *)
LEMMA KillsInv ==
  ASSUME IInv, NEW t \in Tasks, HandlerKills(t)
  PROVE  IInv'
<1>1. /\ task' = [task EXCEPT ![t] = "ended"] /\ killed' = TRUE
      /\ UNCHANGED <<subscribed, queue, dispatcher, delivery, caller, published,
                     promised, received, changes>>
  BY DEF HandlerKills
<1>2. task \in [Tasks -> TaskStates]
  BY DEF IInv, TypeOK
<1>3. /\ task' \in [Tasks -> TaskStates]
      /\ \A u \in Tasks : task'[u] \in {"ready", "calling", "draining"}
                              => task'[u] = task[u]
  BY <1>1, <1>2 DEF TaskStates
<1>4. \A u \in Tasks : Calls(u)' => Calls(u)
  BY <1>3 DEF Calls
<1>5. killed' \in BOOLEAN
  BY <1>1
<1>6. TypeOK'
  BY <1>1, <1>3, <1>4, <1>5 DEF IInv, TypeOK, Calls
<1>7. TakenOff' = TakenOff
  BY <1>1 DEF TakenOff
<1>8. QueueInv'
  BY <1>1, <1>3, <1>7 DEF IInv, QueueInv
<1>9. ReceivedInv'
  BY <1>1, <1>4, <1>7 DEF IInv, ReceivedInv, InOrder
<1>10. PromiseInv'
  BY <1>1 DEF IInv, PromiseInv
<1> QED BY <1>6, <1>8, <1>9, <1>10 DEF IInv

(* A handler calls drain(): it never has to wait. *)
LEMMA HandlerDrainsInv ==
  ASSUME IInv, NEW t \in Tasks, HandlerDrains(t)
  PROVE  IInv'
<1>1. task[t] = "calling"
  BY DEF HandlerDrains
<1>2. t = dispatcher
  BY <1>1 DEF IInv, QueueInv
<1>3. ~MustWait(t)
  BY <1>2 DEF MustWait
<1>4. Deliver(t)
  BY <1>3 DEF HandlerDrains
<1> QED BY <1>1, <1>4, DeliverInv

(* Callers of drain() only look. *)
LEMMA CallerInv ==
  ASSUME IInv, NEW c \in Callers, WaitAgain(c)
  PROVE  IInv'
<1>1. /\ caller' = [caller EXCEPT ![c] = IF MustWait(None)
                        THEN [state |-> "waiting", on |-> dispatcher]
                        ELSE [state |-> "returned", on |-> None]]
      /\ UNCHANGED <<subscribed, queue, dispatcher, task, delivery, published,
                     promised, received, killed, changes>>
  BY DEF WaitAgain, history
<1>2. caller' \in [Callers -> [state : {"idle", "waiting", "returned"}, on : Tasks \cup {None}]]
  <2>1. dispatcher \in Tasks \cup {None}
    BY DEF IInv, TypeOK
  <2>2. [state |-> "waiting", on |-> dispatcher]
            \in [state : {"idle", "waiting", "returned"}, on : Tasks \cup {None}]
    BY <2>1
  <2>3. [state |-> "returned", on |-> None]
            \in [state : {"idle", "waiting", "returned"}, on : Tasks \cup {None}]
    OBVIOUS
  <2> QED BY <1>1, <2>2, <2>3 DEF IInv, TypeOK
<1>3. TypeOK'
  BY <1>1, <1>2 DEF IInv, TypeOK
<1>4. TakenOff' = TakenOff /\ \A u : Calls(u)' <=> Calls(u)
  BY <1>1 DEF TakenOff, Calls
<1>5. QueueInv'
  BY <1>1, <1>4 DEF IInv, QueueInv
<1>6. ReceivedInv'
  BY <1>1, <1>4 DEF IInv, ReceivedInv, InOrder
<1>7. \A e, h : ToBeCalled(e, h)' <=> ToBeCalled(e, h)
  BY <1>1 DEF ToBeCalled, Calls
<1>8. PromiseInv'
  BY <1>1, <1>4, <1>7 DEF IInv, PromiseInv
<1> QED BY <1>3, <1>5, <1>6, <1>8 DEF IInv

LEMMA StutterInv ==
  ASSUME IInv, UNCHANGED vars
  PROVE  IInv'
<1>1. UNCHANGED <<subscribed, queue, dispatcher, task, delivery, caller, published,
                  promised, received, killed, changes>>
  BY DEF vars
<1>2. TypeOK' /\ QueueInv' /\ ReceivedInv'
  BY <1>1 DEF IInv, TypeOK, QueueInv, TakenOff, ReceivedInv, InOrder, Calls
<1>3. PromiseInv'
  BY <1>1 DEF IInv, PromiseInv, TakenOff, ToBeCalled, Calls
<1> QED BY <1>2, <1>3 DEF IInv

LEMMA NextInv == IInv /\ [Next]_vars => IInv'
<1> SUFFICES ASSUME IInv, [Next]_vars PROVE IInv'
  OBVIOUS
<1>1. CASE Publish
  BY <1>1, PublishInv
<1>2. CASE \E h \in Handlers : Subscribe(h) \/ Unsubscribe(h)
  BY <1>2, SubscribeInv
<1>3. ASSUME NEW t \in Tasks, Take(t) \/ End(t) \/ HandlerEnds(t) \/ HandlerKills(t)
      PROVE  IInv'
  BY <1>3, TakeInv, EndInv, DeliverInv, HandlerDrainsInv, KillsInv
     DEF HandlerEnds, HandlerReturns
<1>4. ASSUME NEW c \in Callers, Drain(c) \/ DrainWakes(c) PROVE IInv'
  BY <1>4, CallerInv DEF Drain, DrainWakes
<1>5. CASE Rest \/ UNCHANGED vars
  BY <1>5, StutterInv DEF Rest
<1> QED BY <1>1, <1>2, <1>3, <1>4, <1>5 DEF Next

----------------------------------------------------------------------------
(* The theorems *)

(* The queue, the dispatcher tasks, the deliveries and what was received fit *)
(* together as said above, in every reachable state.                         *)
THEOREM InductiveInvariant == Spec => []IInv
<1>1. Init => IInv
  BY InitInv
<1>2. IInv /\ [Next]_vars => IInv'
  BY NextInv
<1> QED BY <1>1, <1>2, PTL DEF Spec

(* The variables of the publisher have their types. *)
THEOREM TypeCorrect == Spec => []TypeOK
<1>1. IInv => TypeOK
  BY DEF IInv
<1> QED BY <1>1, InductiveInvariant, PTL

(* A handler receives events in the order of publish(), none twice. *)
THEOREM ReceivedInOrder == Spec => []InOrder
<1>1. IInv => InOrder
  BY DEF IInv, ReceivedInv
<1> QED BY <1>1, InductiveInvariant, PTL

(* drain() returns when no task is alive, hence with nothing queued and no *)
(* call to make: everything was delivered, unless a handler raised         *)
(* CancelledError.                                                         *)
LEMMA ReturnsWhenDone ==
  ASSUME IInv, [Next]_vars, NEW c \in Callers,
         caller'[c].state = "returned", caller[c].state # "returned"
  PROVE  AllDelivered \/ killed
<1>1. PICK x \in Callers : WaitAgain(x)
  <2>1. caller' # caller
    OBVIOUS
  <2> QED BY <2>1 DEF Next, Publish, Subscribe, Unsubscribe, Take, End, HandlerEnds,
             HandlerReturns, HandlerDrains, HandlerKills, Deliver, Drain, DrainWakes,
             Rest, vars, history
<1>2. ~MustWait(None)
  <2>1. CASE x # c
    <3>1. caller'[c] = caller[c]
      BY <1>1, <2>1 DEF WaitAgain, IInv, TypeOK
    <3> QED BY <3>1
  <2>2. CASE x = c
    BY <1>1, <2>2 DEF WaitAgain, IInv, TypeOK
  <2> QED BY <2>1, <2>2
<1>3. dispatcher = None \/ task[dispatcher] = "ended"
  BY <1>2 DEF MustWait
<1>4. \A t \in Tasks : ~Calls(t)
  <2>1. None \notin Tasks
    BY DEF None, Tasks, Events
  <2> QED BY <1>3, <2>1 DEF IInv, QueueInv, Calls
<1>5. killed \/ queue = <<>>
  BY <1>3 DEF IInv, QueueInv
<1>6. CASE ~killed
  <2>1. published \in Nat /\ TakenOff = published
    <3>1. Len(queue) = 0
      BY <1>5, <1>6
    <3>2. published \in Nat
      BY BoundsAssumption DEF IInv, TypeOK
    <3> QED BY <3>1, <3>2 DEF TakenOff
  <2>2. \A e \in 1..published : ~(e > TakenOff)
    BY <2>1
  <2> QED BY <1>4, <1>6, <2>2 DEF IInv, PromiseInv, ToBeCalled, AllDelivered
<1> QED BY <1>6

(* drain() returns only when everything published until then was delivered. *)
THEOREM DrainWaitsForAll == Spec => DrainDelivers
<1> DEFINE Returns == \A c \in Callers :
              caller'[c].state = "returned" /\ caller[c].state # "returned"
                  => AllDelivered \/ killed
<1>1. IInv /\ [Next]_vars => [Returns]_vars
  BY ReturnsWhenDone
<1>2. DrainDelivers <=> [][Returns]_vars
  BY DEF DrainDelivers
<1> HIDE DEF Returns
<1> QED BY <1>1, <1>2, InductiveInvariant, PTL DEF Spec
=============================================================================
