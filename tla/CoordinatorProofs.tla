------------------------- MODULE CoordinatorProofs -------------------------
(***************************************************************************)
(* Proofs about Coordinator, for every set of calls, closers, resources    *)
(* and requests and every choice of policies.                              *)
(***************************************************************************)
EXTENDS Coordinator, SequenceTheorems, TLAPS

\* Removing the i-th entry of a queue keeps the others, in order.
LEMMA WithoutProperties ==
  ASSUME NEW S, NEW q \in Seq(S), NEW i \in 1..Len(q)
  PROVE  /\ Without(q, i) \in Seq(S)
         /\ Len(Without(q, i)) = Len(q) - 1
         /\ \A j \in 1..(Len(q) - 1) :
              Without(q, i)[j] = IF j < i THEN q[j] ELSE q[j + 1]
<1> DEFINE front == SubSeq(q, 1, i - 1)
           back == SubSeq(q, i + 1, Len(q))
<1>1. /\ front \in Seq(S) /\ Len(front) = i - 1
      /\ \A j \in 1..(i - 1) : front[j] = q[j]
  BY SubSeqProperties
<1>2. /\ back \in Seq(S) /\ Len(back) = Len(q) - i
      /\ \A j \in 1..(Len(q) - i) : back[j] = q[i + j]
  BY SubSeqProperties
<1>3. /\ front \o back \in Seq(S)
      /\ Len(front \o back) = Len(front) + Len(back)
      /\ \A j \in 1..(Len(front) + Len(back)) :
           (front \o back)[j] = IF j <= Len(front) THEN front[j]
                                ELSE back[j - Len(front)]
  <2> HIDE DEF front, back
  <2> QED BY <1>1, <1>2, ConcatProperties
<1> QED
  <2>1. Without(q, i) = front \o back
    BY DEF Without
  <2> HIDE DEF front, back
  <2>2. Len(front) + Len(back) = Len(q) - 1
    BY <1>1, <1>2
  <2>3. ASSUME NEW j \in 1..(Len(q) - 1)
        PROVE  (front \o back)[j] = IF j < i THEN q[j] ELSE q[j + 1]
    <3>1. CASE j < i
      BY <3>1, <1>1, <1>3, <2>2
    <3>2. CASE ~(j < i)
      <4>1. (front \o back)[j] = back[j - (i - 1)]
        BY <3>2, <1>1, <1>3, <2>2
      <4>2. j - (i - 1) \in 1..(Len(q) - i)
        BY <3>2
      <4>3. back[j - (i - 1)] = q[i + (j - (i - 1))]
        BY <4>2, <1>2
      <4> QED BY <3>2, <4>1, <4>3
    <3> QED BY <3>1, <3>2
  <2> QED BY <2>1, <2>2, <2>3, <1>3

----------------------------------------------------------------------------
(* Type correctness.                                                       *)

\* The requests callers make are well formed, and COVERS is a function.
LEMMA RequestFacts ==
  /\ AnyRequest \in Request
  /\ \A r1, r2 \in Request : Merged(r1, r2) \in Request
  /\ \A p \in Policies : Requests[p] \subseteq Request
<1>1. AnyRequest \in Request
  BY DEF AnyRequest, Request, Modes
<1>2. ASSUME NEW r1 \in Request, NEW r2 \in Request
      PROVE  Merged(r1, r2) \in Request
  BY <1>2 DEF Merged, Request, Modes, COVERS
<1>3. \A p \in Policies : Requests[p] \subseteq Request
  BY RequestsAssumption
<1> QED BY <1>1, <1>2, <1>3

\* The initial states are well typed.
LEMMA InitType == Init => TypeOK
<1> SUFFICES ASSUME Init PROVE TypeOK
  OBVIOUS
<1>1. AnyRequest \in Request
  BY RequestFacts
<1>2. pending \in Seq(Calls)
  BY EmptySeq DEF Init
<1> QED
  BY <1>1, <1>2 DEF Init, TypeOK, Reasons, Tasks, Statuses, Futures

\* Publishing terminal events keeps the counters natural numbers.
LEMMA AnnounceType ==
  ASSUME TypeOK, NEW es, Announce(es)
  PROVE  terminal' \in [Calls -> Nat]
<1>1. \A n \in Nat : n + 1 \in Nat /\ n + 0 \in Nat
  OBVIOUS
<1> QED BY <1>1 DEF TypeOK, Announce

\* Answering futures (_resolve, _reject) keeps them in the states of a future.
LEMMA SettledType ==
  ASSUME TypeOK, NEW ws, NEW value \in Futures
  PROVE  Settled(future, ws, value) \in [Calls -> Futures]
BY DEF TypeOK, Settled

\* So does _cancel_all.
LEMMA QueueCancelledType == TypeOK => QueueCancelled \in [Calls -> Futures]
<1> SUFFICES ASSUME TypeOK PROVE QueueCancelled \in [Calls -> Futures]
  OBVIOUS
<1>1. "CANCELLED" \in Futures
  BY DEF Futures
<1> QED BY <1>1, SettledType DEF QueueCancelled

\* _cancel_active only writes a known reason and cancellation state.
LEMMA CancelActiveType ==
  ASSUME TypeOK, NEW why \in Reasons, CancelActive(why)
  PROVE  /\ cancel' \in [Calls -> {"no", "asked", "absorbed"}]
         /\ reason' \in [Calls -> Reasons]
BY DEF TypeOK, CancelActive

\* A worker that submit() starts is named by a call.
LEMMA StartWorkerType ==
  ASSUME TypeOK, NEW c \in Calls, StartWorker(c)
  PROVE  /\ worker' \in Calls \cup {NoCall}
         /\ workers' \in [Calls -> {"none", "ready", "serving", "ended"}]
BY DEF TypeOK, StartWorker

\* The bookkeeping of a caller that begins to wait is well typed.
LEMMA AwaitType ==
  ASSUME TypeOK, NEW c \in Calls, NEW r \in Request, NEW kind,
         NEW fs \in [Calls -> Futures], Await(c, r, kind, fs)
  PROVE  /\ call' \in [Calls -> Statuses]
         /\ future' \in [Calls -> Futures]
         /\ wanted' \in [Calls -> Request]
         /\ inside' \subseteq Calls \cup Closers
BY DEF TypeOK, Await, EnterFrom, Statuses, Futures

\* submit() preserves the types, whatever the policy does with the request.
LEMMA SubmitType ==
  ASSUME TypeOK, NEW c \in Calls, Submit(c)
  PROVE  TypeOK'
<1>1. PICK kind \in Kinds :
        \/ Refuse(c, kind)
        \/ Skip(c, kind)
        \/ \E r \in Requests[policy] :
             Join(c, r, kind) \/ Enqueue(c, r, kind) \/ Supersede(c, r, kind)
  BY DEF Submit
<1>2. CASE Refuse(c, kind)
  BY <1>2 DEF Refuse, TypeOK, Statuses, entryVars, taskVars, workerVars
<1>3. CASE Skip(c, kind)
  <2>1. terminal' \in [Calls -> Nat]
    BY <1>3, AnnounceType DEF Skip
  <2> QED
    BY <1>3, <2>1 DEF Skip, TypeOK, Statuses, entryVars, taskVars, workerVars
<1>4. CASE \E r \in Requests[policy] : Join(c, r, kind)
  <2>1. PICK r \in Requests[policy] : Join(c, r, kind)
    BY <1>4
  <2>2. r \in Request
    BY RequestFacts DEF TypeOK
  <2>3. PICK i \in 1..Len(pending) :
          /\ request' = [request EXCEPT ![pending[i]] = Merged(@, r)]
          /\ waiters' = [waiters EXCEPT ![pending[i]] = @ \cup {c}]
    BY <2>1 DEF Join, Joinable
  <2>4. pending[i] \in Calls
    BY DEF TypeOK
  <2>5. request' \in [Calls -> Request] /\ waiters' \in [Calls -> SUBSET Calls]
    BY <2>2, <2>3, <2>4, RequestFacts DEF TypeOK
  <2>6. /\ worker' \in Calls \cup {NoCall}
        /\ workers' \in [Calls -> {"none", "ready", "serving", "ended"}]
    BY <2>1, StartWorkerType DEF Join
  <2>7. /\ call' \in [Calls -> Statuses]
        /\ future' \in [Calls -> Futures]
        /\ wanted' \in [Calls -> Request]
        /\ inside' \subseteq Calls \cup Closers
    <3>1. future \in [Calls -> Futures] /\ Await(c, r, kind, future)
      BY <2>1 DEF Join, TypeOK
    <3> QED BY <3>1, <2>2, AwaitType
  <2> QED
    BY <2>1, <2>5, <2>6, <2>7 DEF Join, TypeOK, taskVars
<1>5. CASE \E r \in Requests[policy] : Enqueue(c, r, kind)
  <2>1. PICK r \in Requests[policy] : Enqueue(c, r, kind)
    BY <1>5
  <2>2. r \in Request
    BY RequestFacts DEF TypeOK
  <2>3. /\ pending' \in Seq(Calls)
        /\ request' \in [Calls -> Request]
        /\ waiters' \in [Calls -> SUBSET Calls]
    BY <2>1, <2>2, AppendProperties DEF Enqueue, Queue, NewEntry, TypeOK
  <2>4. /\ worker' \in Calls \cup {NoCall}
        /\ workers' \in [Calls -> {"none", "ready", "serving", "ended"}]
    BY <2>1, StartWorkerType DEF Enqueue
  <2>5. /\ call' \in [Calls -> Statuses]
        /\ future' \in [Calls -> Futures]
        /\ wanted' \in [Calls -> Request]
        /\ inside' \subseteq Calls \cup Closers
    <3>1. future \in [Calls -> Futures] /\ Await(c, r, kind, future)
      BY <2>1 DEF Enqueue, TypeOK
    <3> QED BY <3>1, <2>2, AwaitType
  <2> QED
    BY <2>1, <2>3, <2>4, <2>5 DEF Enqueue, TypeOK, taskVars
<1>6. CASE \E r \in Requests[policy] : Supersede(c, r, kind)
  <2>1. PICK r \in Requests[policy] : Supersede(c, r, kind)
    BY <1>6
  <2>2. r \in Request
    BY RequestFacts DEF TypeOK
  <2>3. /\ pending' \in Seq(Calls)
        /\ request' \in [Calls -> Request]
        /\ waiters' \in [Calls -> SUBSET Calls]
    BY <2>1, <2>2 DEF Supersede, NewEntry, TypeOK
  <2>4. /\ worker' \in Calls \cup {NoCall}
        /\ workers' \in [Calls -> {"none", "ready", "serving", "ended"}]
    BY <2>1, StartWorkerType DEF Supersede
  <2>5. /\ call' \in [Calls -> Statuses]
        /\ future' \in [Calls -> Futures]
        /\ wanted' \in [Calls -> Request]
        /\ inside' \subseteq Calls \cup Closers
    <3>1. QueueCancelled \in [Calls -> Futures]
      BY QueueCancelledType
    <3>2. Await(c, r, kind, QueueCancelled)
      BY <2>1 DEF Supersede
    <3> QED BY <3>1, <3>2, <2>2, AwaitType
  <2>6. terminal' \in [Calls -> Nat]
    BY <2>1, AnnounceType DEF Supersede
  <2>7. /\ cancel' \in [Calls -> {"no", "asked", "absorbed"}]
        /\ reason' \in [Calls -> Reasons]
    <3>1. "SUPERSEDED" \in Reasons /\ CancelActive("SUPERSEDED")
      BY <2>1 DEF Reasons, Supersede
    <3> QED BY <3>1, CancelActiveType
  <2> QED
    BY <2>1, <2>3, <2>4, <2>5, <2>6, <2>7 DEF Supersede, TypeOK
<1> QED BY <1>1, <1>2, <1>3, <1>4, <1>5, <1>6

\* _abandon preserves the types.
LEMMA AbandonType ==
  ASSUME TypeOK, NEW c \in Calls, Abandon(c)
  PROVE  TypeOK'
<1>1. call' \in [Calls -> Statuses]
  BY DEF Abandon, TypeOK, Statuses
<1>2. CASE \E i \in 1..Len(pending) : AbandonQueued(c, i)
  <2>1. PICK i \in 1..Len(pending) : AbandonQueued(c, i)
    BY <1>2
  <2>2. pending[i] \in Calls
    BY DEF TypeOK
  <2>3. waiters' \in [Calls -> SUBSET Calls]
    BY <2>1, <2>2 DEF AbandonQueued, TypeOK
  <2>4. pending' \in Seq(Calls)
    BY <2>1, WithoutProperties DEF AbandonQueued, TypeOK
  <2> QED
    BY <1>1, <2>1, <2>3, <2>4
    DEF Abandon, AbandonQueued, TypeOK, workerVars
<1>3. CASE AbandonActive(c)
  <2>1. waiters' \in [Calls -> SUBSET Calls]
    BY <1>3 DEF AbandonActive, TypeOK
  <2>2. /\ cancel' \in [Calls -> {"no", "asked", "absorbed"}]
        /\ reason' \in [Calls -> Reasons]
    <3>1. "ABANDONED" \in Reasons
      BY DEF Reasons
    <3>2. CASE CancelActive("ABANDONED")
      BY <3>1, <3>2, CancelActiveType
    <3>3. CASE UNCHANGED <<cancel, reason>>
      BY <3>3 DEF TypeOK
    <3> QED BY <1>3, <3>2, <3>3 DEF AbandonActive
  <2> QED
    BY <1>1, <1>3, <2>1, <2>2 DEF Abandon, AbandonActive, TypeOK, workerVars
<1>4. CASE AbandonNothing(c)
  BY <1>1, <1>4 DEF Abandon, AbandonNothing, TypeOK, workerVars
<1> QED BY <1>2, <1>3, <1>4 DEF Abandon

\* The top of the loop of _work preserves the types.
LEMMA ServeNextType ==
  ASSUME TypeOK, NEW w \in Calls, ServeNext(w)
  PROVE  /\ pending' \in Seq(Calls)
         /\ active' \in Calls \cup {NoCall}
         /\ task' \in [Calls -> Tasks]
         /\ workers' \in [Calls -> {"none", "ready", "serving", "ended"}]
         /\ serving' \in [Calls -> Calls \cup {NoCall}]
<1>1. CASE pending = <<>>
  BY <1>1 DEF ServeNext, TypeOK
<1>2. CASE pending # <<>>
  <2>1. Head(pending) \in Calls /\ Tail(pending) \in Seq(Calls)
    BY <1>2, HeadTailProperties DEF TypeOK
  <2>2. /\ pending' = Tail(pending) /\ active' = Head(pending)
        /\ task' = [task EXCEPT ![Head(pending)] = "created"]
        /\ workers' = [workers EXCEPT ![w] = "serving"]
        /\ serving' = [serving EXCEPT ![w] = Head(pending)]
    BY <1>2 DEF ServeNext
  <2> QED
    BY <2>1, <2>2 DEF TypeOK, Tasks
<1> QED BY <1>1, <1>2

\* The steps of the worker task preserve the types.
LEMMA WorkerStepType ==
  ASSUME TypeOK, NEW w \in Calls, WorkerStep(w)
  PROVE  TypeOK'
<1>1. CASE WorkerStarts(w)
  <2>1. ServeNext(w)
    BY <1>1 DEF WorkerStarts
  <2> QED
    BY <1>1, <2>1, ServeNextType
    DEF WorkerStarts, TypeOK, entryVars, callVars
<1>2. CASE WorkerResumes(w)
  <2>1. ServeNext(w)
    BY <1>2 DEF WorkerResumes
  <2>2. Outcome(serving[w]) \in Futures
    BY <1>2 DEF WorkerResumes, Outcome, Done, AsCancelled, Futures
  <2>3. future' \in [Calls -> Futures]
    BY <1>2, <2>2, SettledType DEF WorkerResumes
  <2>4. terminal' \in [Calls -> Nat]
    BY <1>2, AnnounceType DEF WorkerResumes
  <2> QED
    BY <1>2, <2>1, <2>3, <2>4, ServeNextType DEF WorkerResumes, TypeOK, entryVars
<1> QED BY <1>1, <1>2 DEF WorkerStep

\* The steps of the task of the refresh preserve the types.
LEMMA RefreshStepType ==
  ASSUME TypeOK, NEW e \in Calls,
         RefreshStarts(e) \/ RefreshEnds(e) \/ RefreshAbsorbsCancel(e)
  PROVE  TypeOK'
<1> USE DEF RefreshUnchanged, TypeOK, Tasks, entryVars, workerVars, callVars
<1>1. CASE RefreshStarts(e)
  BY <1>1 DEF RefreshStarts
<1>2. CASE RefreshNeverStarts(e)
  BY <1>2 DEF RefreshNeverStarts
<1>3. CASE RefreshReturns(e)
  <2>1. terminal' \in [Calls -> Nat]
    BY <1>3, AnnounceType DEF RefreshReturns
  <2> QED BY <1>3, <2>1 DEF RefreshReturns
<1>4. CASE RefreshCancelled(e)
  <2>1. terminal' \in [Calls -> Nat]
    BY <1>4, AnnounceType DEF RefreshCancelled
  <2> QED BY <1>4, <2>1 DEF RefreshCancelled
<1>5. CASE RefreshAbsorbsCancel(e)
  BY <1>5 DEF RefreshAbsorbsCancel
<1>6. CASE RefreshRaises(e)
  BY <1>6 DEF RefreshRaises
<1> QED BY <1>1, <1>2, <1>3, <1>4, <1>5, <1>6 DEF RefreshEnds

\* close() preserves the types.
LEMMA CloseType ==
  ASSUME TypeOK, NEW k \in Closers, Close(k)
  PROVE  TypeOK'
<1>1. /\ cancel' \in [Calls -> {"no", "asked", "absorbed"}]
      /\ reason' \in [Calls -> Reasons]
      /\ terminal' \in [Calls -> Nat]
      /\ future' \in [Calls -> Futures]
      /\ pending' \in Seq(Calls)
  <2>1. CASE /\ CancelActive("SHUTDOWN") /\ Announce(Queued)
             /\ future' = QueueCancelled /\ pending' = <<>>
    <3>1. "SHUTDOWN" \in Reasons
      BY DEF Reasons
    <3>2. QueueCancelled \in [Calls -> Futures]
      BY QueueCancelledType
    <3>3. terminal' \in [Calls -> Nat]
      BY <2>1, AnnounceType
    <3>4. /\ cancel' \in [Calls -> {"no", "asked", "absorbed"}]
          /\ reason' \in [Calls -> Reasons]
      BY <2>1, <3>1, CancelActiveType
    <3> QED BY <2>1, <3>2, <3>3, <3>4, EmptySeq
  <2>2. CASE UNCHANGED <<cancel, reason, terminal, future, pending>>
    BY <2>2 DEF TypeOK
  <2> QED BY <2>1, <2>2 DEF Close
<1>2. /\ closer' \in [Closers -> {"idle", "waiting", "drained", "left"}]
      /\ inside' \subseteq Calls \cup Closers
  BY DEF Close, TypeOK, EnterFrom
<1> QED BY <1>1, <1>2 DEF Close, TypeOK, workerVars

\* A refresh that closes its own engine preserves the types.
LEMMA RefreshClosesType ==
  ASSUME TypeOK, NEW e \in Calls, NEW k \in Closers,
         RefreshClosesAndReturns(e, k)
  PROVE  TypeOK'
<1>1. QueueCancelled \in [Calls -> Futures]
  BY QueueCancelledType
<1>2. terminal' \in [Calls -> Nat]
  BY AnnounceType DEF RefreshClosesAndReturns
<1>3. /\ cancel' \in [Calls -> {"no", "asked", "absorbed"}]
      /\ reason' \in [Calls -> Reasons]
      /\ task' \in [Calls -> Tasks]
  BY DEF RefreshClosesAndReturns, TypeOK, Reasons, Tasks
<1> QED
  BY <1>1, <1>2, <1>3, EmptySeq DEF RefreshClosesAndReturns, TypeOK, workerVars

\* Every variable keeps its type.
THEOREM TypeCorrect == Spec => []TypeOK
<1>1. Init => TypeOK
  BY InitType
<1>2. TypeOK /\ [Next]_vars => TypeOK'
  <2> SUFFICES ASSUME TypeOK, [Next]_vars PROVE TypeOK'
    OBVIOUS
  <2>1. CASE UNCHANGED vars
    BY <2>1 DEF vars, TypeOK, entryVars, taskVars, workerVars, callVars
  <2>2. ASSUME NEW c \in Calls, Submit(c) PROVE TypeOK'
    BY <2>2, SubmitType
  <2>3. ASSUME NEW c \in Calls, CancelCaller(c) PROVE TypeOK'
    BY <2>3 DEF CancelCaller, TypeOK, Futures, entryVars, taskVars, workerVars
  <2>4. ASSUME NEW c \in Calls, Return(c) PROVE TypeOK'
    BY <2>4 DEF Return, TypeOK, Statuses, entryVars, taskVars, workerVars
  <2>5. ASSUME NEW c \in Calls, Abandon(c) PROVE TypeOK'
    BY <2>5, AbandonType
  <2>6. ASSUME NEW c \in Calls, WorkerStep(c) PROVE TypeOK'
    BY <2>6, WorkerStepType
  <2>7. ASSUME NEW c \in Calls,
               RefreshStarts(c) \/ RefreshEnds(c) \/ RefreshAbsorbsCancel(c)
        PROVE  TypeOK'
    BY <2>7, RefreshStepType
  <2>8. ASSUME NEW k \in Closers, Close(k) PROVE TypeOK'
    BY <2>8, CloseType
  <2>9. ASSUME NEW k \in Closers, CloseReturns(k) PROVE TypeOK'
    BY <2>9
    DEF CloseReturns, TypeOK, entryVars, taskVars, workerVars, callVars
  <2>10. ASSUME NEW k \in Closers, NEW e \in Calls,
                RefreshClosesAndReturns(e, k)
         PROVE  TypeOK'
    BY <2>10, RefreshClosesType
  <2>11. ASSUME AtRest PROVE TypeOK'
    BY <2>11, <2>1 DEF AtRest
  <2> QED
    BY <2>1, <2>2, <2>3, <2>4, <2>5, <2>6, <2>7, <2>8, <2>9, <2>10, <2>11
    DEF Next, CallerStep
<1> QED BY <1>1, <1>2, PTL DEF Spec

----------------------------------------------------------------------------
(* The queue as a set: what each operation on it does to its members.      *)

Distinct(q) == \A i, j \in 1..Len(q) : i # j => q[i] # q[j]

\* Appending a new entry adds it to the members of a queue without repetitions.
LEMMA AppendMembers ==
  ASSUME NEW S, NEW q \in Seq(S), NEW x \in S
  PROVE  /\ Members(Append(q, x)) = Members(q) \cup {x}
         /\ Distinct(q) /\ x \notin Members(q) => Distinct(Append(q, x))
<1>1. /\ Append(q, x) \in Seq(S) /\ Len(Append(q, x)) = Len(q) + 1
      /\ \A i \in 1..Len(q) : Append(q, x)[i] = q[i]
      /\ Append(q, x)[Len(q) + 1] = x
  BY AppendProperties
<1>2. Len(q) \in Nat
  OBVIOUS
<1>3. Members(Append(q, x)) = Members(q) \cup {x}
  <2>1. 1..(Len(q) + 1) = 1..Len(q) \cup {Len(q) + 1}
    BY <1>2
  <2> QED BY <1>1, <2>1, Zenon DEF Members
<1>4. ASSUME Distinct(q), x \notin Members(q)
      PROVE  Distinct(Append(q, x))
  BY <1>1, <1>2, <1>4 DEF Distinct, Members
<1> QED BY <1>3, <1>4

\* Taking the head of such a queue removes it from the members.
LEMMA TailMembers ==
  ASSUME NEW S, NEW q \in Seq(S), q # <<>>
  PROVE  /\ Members(q) = {Head(q)} \cup Members(Tail(q))
         /\ Distinct(q) => Distinct(Tail(q)) /\ Head(q) \notin Members(Tail(q))
<1>1. /\ Head(q) = q[1] /\ Tail(q) \in Seq(S) /\ Len(Tail(q)) = Len(q) - 1
      /\ \A i \in 1..(Len(q) - 1) : Tail(q)[i] = q[i + 1]
  BY HeadTailProperties
<1>2. Len(q) \in Nat /\ Len(q) >= 1
  BY EmptySeq
<1>3. ASSUME NEW e
      PROVE  e \in Members(q) <=> e = Head(q) \/ e \in Members(Tail(q))
  <2>1. ASSUME e \in Members(q) PROVE e = Head(q) \/ e \in Members(Tail(q))
    <3>1. PICK i \in 1..Len(q) : e = q[i]
      BY <2>1 DEF Members
    <3>2. CASE i = 1
      BY <3>1, <3>2, <1>1
    <3>3. CASE i # 1
      <4>1. i - 1 \in 1..(Len(q) - 1) /\ (i - 1) + 1 = i
        BY <3>3, <1>2
      <4>2. Tail(q)[i - 1] = e
        BY <4>1, <3>1, <1>1
      <4> QED BY <4>1, <4>2, <1>1 DEF Members
    <3> QED BY <3>2, <3>3
  <2>2. ASSUME e = Head(q) PROVE e \in Members(q)
    BY <2>2, <1>1, <1>2 DEF Members
  <2>3. ASSUME e \in Members(Tail(q)) PROVE e \in Members(q)
    <3>1. PICK i \in 1..(Len(q) - 1) : e = Tail(q)[i]
      BY <2>3, <1>1 DEF Members
    <3>2. e = q[i + 1] /\ i + 1 \in 1..Len(q)
      BY <3>1, <1>1, <1>2
    <3> QED BY <3>2 DEF Members
  <2> QED BY <2>1, <2>2, <2>3
<1>4. ASSUME Distinct(q)
      PROVE  Distinct(Tail(q)) /\ Head(q) \notin Members(Tail(q))
  <2>1. Distinct(Tail(q))
    <3> SUFFICES ASSUME NEW i \in 1..(Len(q) - 1), NEW j \in 1..(Len(q) - 1),
                        i # j
                 PROVE  Tail(q)[i] # Tail(q)[j]
      BY <1>1 DEF Distinct
    <3>1. i + 1 \in 1..Len(q) /\ j + 1 \in 1..Len(q) /\ i + 1 # j + 1
      BY <1>2
    <3> QED BY <3>1, <1>1, <1>4 DEF Distinct
  <2>2. ASSUME Head(q) \in Members(Tail(q)) PROVE FALSE
    <3>1. PICK i \in 1..(Len(q) - 1) : q[1] = Tail(q)[i]
      BY <2>2, <1>1 DEF Members
    <3>2. q[1] = q[i + 1] /\ i + 1 \in 1..Len(q) /\ 1 \in 1..Len(q) /\ i + 1 # 1
      BY <3>1, <1>1, <1>2
    <3> QED BY <3>2, <1>4 DEF Distinct
  <2> QED BY <2>1, <2>2
<1> QED
  <2> HIDE DEF Members, Distinct
  <2>1. Members(q) = {Head(q)} \cup Members(Tail(q))
    BY <1>3
  <2> QED BY <2>1, <1>4

\* Removing the i-th entry of such a queue removes it from the members.
LEMMA WithoutMembers ==
  ASSUME NEW S, NEW q \in Seq(S), NEW i \in 1..Len(q), Distinct(q)
  PROVE  /\ Members(Without(q, i)) = Members(q) \ {q[i]}
         /\ Distinct(Without(q, i))
<1> DEFINE r == Without(q, i)
<1>1. /\ Len(r) = Len(q) - 1
      /\ \A j \in 1..(Len(q) - 1) : r[j] = IF j < i THEN q[j] ELSE q[j + 1]
  BY WithoutProperties
<1>2. Len(q) \in Nat
  OBVIOUS
<1> HIDE DEF r
<1>3. ASSUME NEW e \in Members(r) PROVE e \in Members(q) /\ e # q[i]
  <2>1. PICK j \in 1..(Len(q) - 1) : e = r[j]
    BY <1>1 DEF Members
  <2>2. \/ j < i /\ e = q[j] /\ j \in 1..Len(q)
        \/ j >= i /\ e = q[j + 1] /\ j + 1 \in 1..Len(q) /\ j + 1 # i
    BY <2>1, <1>1, <1>2
  <2> QED BY <2>2 DEF Members, Distinct
<1>4. ASSUME NEW e \in Members(q), e # q[i] PROVE e \in Members(r)
  <2>1. PICK j \in 1..Len(q) : e = q[j]
    BY DEF Members
  <2>2. CASE j < i
    <3>1. j \in 1..(Len(q) - 1) /\ r[j] = e
      BY <2>1, <2>2, <1>1, <1>2
    <3> QED BY <3>1, <1>1 DEF Members
  <2>3. CASE j > i
    <3>1. j - 1 \in 1..(Len(q) - 1) /\ ~(j - 1 < i) /\ (j - 1) + 1 = j
      BY <2>3, <1>2
    <3>2. r[j - 1] = e
      BY <2>1, <3>1, <1>1
    <3> QED BY <3>1, <3>2, <1>1 DEF Members
  <2> QED BY <1>4, <2>1, <2>2, <2>3
<1>5. Distinct(r)
  <2> SUFFICES ASSUME NEW j \in 1..(Len(q) - 1), NEW k \in 1..(Len(q) - 1), j # k
               PROVE  r[j] # r[k]
    BY <1>1 DEF Distinct
  <2>1. PICK m \in 1..Len(q) : r[j] = q[m] /\ m = IF j < i THEN j ELSE j + 1
    BY <1>1, <1>2
  <2>2. PICK n \in 1..Len(q) : r[k] = q[n] /\ n = IF k < i THEN k ELSE k + 1
    BY <1>1, <1>2
  <2>3. m # n
    BY <2>1, <2>2, <1>2
  <2> QED BY <2>1, <2>2, <2>3 DEF Distinct
<1>6. Members(r) = Members(q) \ {q[i]}
  <2> HIDE DEF Members
  <2> QED BY <1>3, <1>4
<1> QED BY <1>5, <1>6 DEF r

----------------------------------------------------------------------------
(* The inductive invariant.                                                *)

\* Queued entries are distinct, were never started, and have a live worker.
QueueInv ==
    /\ Distinct(pending)
    /\ \A e \in Queued : task[e] = "none" /\ call[e] # "idle"
    /\ pending # <<>> => WorkerLive

\* The only live worker task is _worker, and it serves the active entry.
WorkerInv ==
    /\ \A w \in Calls :
         /\ workers[w] \in {"ready", "serving"} => worker = w
         /\ workers[w] = "serving" => active # NoCall /\ serving[w] = active
    /\ worker # NoCall => workers[worker] # "none"
    /\ active # NoCall => worker # NoCall /\ workers[worker] = "serving"

\* The only live refresh is the active one.
TaskInv ==
    /\ \A e \in Calls : task[e] \in Live => active = e
    /\ active # NoCall => task[active] # "none"
    /\ \A e \in Calls : task[e] # "none" => call[e] # "idle"

\* An unanswered caller is a waiter of an entry that is queued or active.
WaiterInv ==
    /\ \A e \in Calls : \A c \in waiters[e] : call[c] # "idle"
    /\ \A c \in Calls : future[c] = "pending" =>
         \/ \E e \in Queued : c \in waiters[e]
         \/ active # NoCall /\ c \in waiters[active]

\* Once a close() has drained the engine, no worker is left or will start.
CloseInv ==
    \A k \in Closers :
        /\ closer[k] \in {"waiting", "drained"} => closed
        /\ closer[k] = "drained" => ~WorkerLive

IInv == TypeOK /\ QueueInv /\ WorkerInv /\ TaskInv /\ WaiterInv /\ CloseInv

\* The inductive invariant holds initially.
LEMMA InitInv == Init => IInv
<1> SUFFICES ASSUME Init PROVE IInv
  OBVIOUS
<1>1. TypeOK
  BY InitType
<1>2. QueueInv
  BY DEF Init, QueueInv, Distinct, Queued, Members
<1>3. WorkerInv /\ TaskInv /\ WaiterInv /\ CloseInv
  BY DEF Init, WorkerInv, TaskInv, WaiterInv, CloseInv, Live
<1> QED BY <1>1, <1>2, <1>3 DEF IInv

\* A call that was not made yet left no trace.
LEMMA IdleCallIsFresh ==
  ASSUME IInv, NEW c \in Calls, call[c] = "idle"
  PROVE  /\ c \notin Queued /\ c # active /\ task[c] = "none"
         /\ \A e \in Calls : c \notin waiters[e]
BY NoCallAssumption DEF IInv, TypeOK, QueueInv, TaskInv, WaiterInv

\* The queue is emptied, or left alone.
EmptiedOrKept ==
    \/ /\ pending' = pending
       /\ \A c \in Calls : future'[c] = "pending" => future[c] = "pending"
    \/ /\ pending' = <<>>
       /\ \A c \in Calls : future'[c] = "pending" =>
            future[c] = "pending" /\ \A e \in Queued : c \notin waiters[e]

\* No task is created, and none comes back to life.
TasksOnlyEnd ==
    \A e \in Calls : /\ task'[e] \in Live => task[e] \in Live
                     /\ task'[e] = "none" <=> task[e] = "none"

\* Steps that neither start nor retire an entry or a worker keep the invariant.
LEMMA QuietStep ==
  ASSUME IInv, TypeOK',
         UNCHANGED <<active, worker, workers, serving, waiters>>,
         EmptiedOrKept,
         \A c \in Calls : call'[c] = "idle" => call[c] = "idle",
         TasksOnlyEnd,
         closed => closed',
         \A k \in Closers :
           /\ closer'[k] \in {"waiting", "drained"} => closed'
           /\ closer'[k] = "drained" => ~WorkerLive
  PROVE  IInv'
<1> USE DEF IInv
<1>1. WorkerLive' = WorkerLive
  BY DEF WorkerLive
<1>2. QueueInv'
  <2>1. CASE pending' = pending
    <3>1. Queued' = Queued
      BY <2>1 DEF Queued, Members
    <3>2. \A e \in Queued : e \in Calls
      BY DEF Queued, Members, TypeOK
    <3>3. ASSUME NEW e \in Queued PROVE task'[e] = "none" /\ call'[e] # "idle"
      BY <3>2 DEF QueueInv, TasksOnlyEnd
    <3> QED BY <1>1, <2>1, <3>1, <3>3 DEF QueueInv, Distinct
  <2>2. CASE pending' = <<>>
    BY <2>2 DEF QueueInv, Distinct, Queued, Members
  <2> QED BY <2>1, <2>2 DEF EmptiedOrKept
<1>3. WorkerInv'
  BY DEF WorkerInv
<1>4. TaskInv'
  BY DEF TaskInv, TypeOK, TasksOnlyEnd
<1>5. WaiterInv'
  <2>1. ASSUME NEW e \in Calls, NEW c \in waiters'[e] PROVE call'[c] # "idle"
    BY <2>1 DEF WaiterInv, TypeOK
  <2>2. ASSUME NEW c \in Calls, future'[c] = "pending"
        PROVE  \/ \E e \in Queued' : c \in waiters'[e]
               \/ active' # NoCall /\ c \in waiters'[active']
    <3>1. CASE pending' = pending
      <4>1. Queued' = Queued /\ future[c] = "pending"
        BY <2>2, <3>1 DEF Queued, Members, EmptiedOrKept
      <4> QED BY <4>1 DEF WaiterInv
    <3>2. CASE pending' # pending
      <4>1. future[c] = "pending" /\ \A e \in Queued : c \notin waiters[e]
        BY <2>2, <3>2 DEF EmptiedOrKept
      <4> QED BY <4>1 DEF WaiterInv
    <3> QED BY <3>1, <3>2
  <2> QED BY <2>1, <2>2 DEF WaiterInv
<1>6. CloseInv'
  BY <1>1 DEF CloseInv
<1> QED BY <1>2, <1>3, <1>4, <1>5, <1>6

\* After StartWorker a live worker exists, and the others are as before.
LEMMA StartWorkerInv ==
  ASSUME TypeOK, WorkerInv, NEW c \in Calls, StartWorker(c),
         UNCHANGED <<active, serving>>
  PROVE  WorkerInv' /\ WorkerLive'
<1>1. CASE NeedsWorker
  <2>1. worker' = c /\ workers' = [workers EXCEPT ![c] = "ready"]
    BY <1>1 DEF StartWorker
  <2>2. active = NoCall
    BY <1>1 DEF NeedsWorker, WorkerInv
  <2>3. \A w \in Calls : workers[w] \notin {"ready", "serving"}
    BY <1>1, NoCallAssumption DEF NeedsWorker, WorkerInv
  <2> QED
    BY <2>1, <2>2, <2>3, NoCallAssumption DEF WorkerInv, WorkerLive, TypeOK
<1>2. CASE ~NeedsWorker
  BY <1>2 DEF StartWorker, NeedsWorker, WorkerInv, WorkerLive
<1> QED BY <1>1, <1>2

\* What the three ways of accepting a request have in common.
LEMMA AcceptedCloseInv ==
  ASSUME IInv, ~closed, UNCHANGED <<closed, closer>>
  PROVE  CloseInv'
BY DEF IInv, CloseInv

\* Accepting a request leaves what TaskInv says of the tasks alone.
LEMMA AcceptedTaskInv ==
  ASSUME IInv, UNCHANGED <<active, task>>,
         \A c \in Calls : call'[c] = "idle" => call[c] = "idle"
  PROVE  TaskInv'
BY DEF IInv, TaskInv

\* What Await changes: only the call c leaves "idle".
LEMMA AwaitEffect ==
  ASSUME TypeOK, NEW c \in Calls, NEW r, NEW kind,
         NEW fs \in [Calls -> Futures], Await(c, r, kind, fs)
  PROVE  /\ call'[c] = "waiting"
         /\ \A d \in Calls \ {c} : call'[d] = call[d] /\ future'[d] = fs[d]
         /\ \A d \in Calls : call'[d] = "idle" => call[d] = "idle"
BY DEF Await, TypeOK

\* Joining a queued entry (_absorb) preserves the invariant.
LEMMA JoinInv ==
  ASSUME IInv, TypeOK', NEW c \in Calls, call[c] = "idle",
         NEW r, NEW kind, Join(c, r, kind)
  PROVE  IInv'
<1> USE DEF IInv
<1>1. PICK i \in 1..Len(pending) :
        waiters' = [waiters EXCEPT ![pending[i]] = @ \cup {c}]
  BY DEF Join, Joinable
<1>2. /\ call'[c] = "waiting"
      /\ \A d \in Calls \ {c} : call'[d] = call[d] /\ future'[d] = future[d]
      /\ \A d \in Calls : call'[d] = "idle" => call[d] = "idle"
  <2>1. future \in [Calls -> Futures] /\ Await(c, r, kind, future)
    BY DEF Join, TypeOK
  <2> QED BY <2>1, AwaitEffect
<1>3. pending[i] \in Queued /\ pending[i] \in Calls
  BY SMTT(60) DEF Queued, Members, TypeOK
<1>4. /\ UNCHANGED <<pending, active, serving, task>>
      /\ ~closed /\ UNCHANGED <<closed, closer>> /\ StartWorker(c)
  BY DEF Join, taskVars
<1>5. WorkerInv' /\ WorkerLive'
  BY <1>4, StartWorkerInv
<1>6. Queued' = Queued
  BY <1>4 DEF Queued, Members
<1>7. QueueInv'
  <2>1. \A e \in Queued : e \in Calls
    BY DEF Queued, Members, TypeOK
  <2> QED BY <1>2, <1>4, <1>5, <1>6, <2>1 DEF QueueInv, Distinct
<1>8. WaiterInv'
  <2>1. ASSUME NEW e \in Calls PROVE waiters[e] \subseteq waiters'[e]
    BY <1>1, <1>3 DEF TypeOK
  <2>2. ASSUME NEW e \in Calls, NEW d \in waiters'[e] PROVE call'[d] # "idle"
    <3>1. CASE d = c
      BY <3>1, <1>2
    <3>2. CASE d # c
      <4>1. d \in waiters[e] /\ d \in Calls
        BY <3>2, <2>2, <1>1, <1>3 DEF TypeOK
      <4> QED BY <4>1, <1>2 DEF WaiterInv
    <3> QED BY <3>1, <3>2
  <2>3. ASSUME NEW d \in Calls, future'[d] = "pending"
        PROVE  \/ \E e \in Queued' : d \in waiters'[e]
               \/ active' # NoCall /\ d \in waiters'[active']
    <3>1. CASE d = c
      <4>1. c \in waiters'[pending[i]]
        BY <1>1, <1>3 DEF TypeOK
      <4> QED BY <3>1, <4>1, <1>3, <1>6
    <3>2. CASE d # c
      <4>1. future[d] = "pending"
        BY <3>2, <2>3, <1>2
      <4>2. \A e \in Queued : e \in Calls
        BY DEF Queued, Members, TypeOK
      <4>3. active # NoCall => active \in Calls
        BY DEF TypeOK
      <4> QED BY <4>1, <4>2, <4>3, <2>1, <1>4, <1>6 DEF WaiterInv
    <3> QED BY <3>1, <3>2
  <2> QED BY <2>2, <2>3 DEF WaiterInv
<1>9. TaskInv' /\ CloseInv'
  BY <1>2, <1>4, AcceptedTaskInv, AcceptedCloseInv
<1> QED BY <1>5, <1>7, <1>8, <1>9

\* Enqueue and Supersede: c becomes the last entry of what is left of the queue.
LEMMA NewEntryInv ==
  ASSUME IInv, TypeOK', NEW c \in Calls, call[c] = "idle", NEW r,
         NewEntry(c, r), StartWorker(c), ~closed,
         UNCHANGED <<closed, closer, active, serving, task>>,
         call'[c] = "waiting",
         \A d \in Calls \ {c} : call'[d] = call[d],
         \/ /\ pending' = Append(pending, c)
            /\ \A d \in Calls \ {c} : future'[d] = "pending" => future[d] = "pending"
         \/ /\ pending' = <<c>>
            /\ \A d \in Calls \ {c} : future'[d] = "pending" =>
                 future[d] = "pending" /\ \A e \in Queued : d \notin waiters[e]
  PROVE  IInv'
<1> USE DEF IInv
<1>1. /\ c \notin Queued /\ c # active /\ task[c] = "none"
      /\ \A e \in Calls : c \notin waiters[e]
  BY IdleCallIsFresh
<1>2. WorkerInv' /\ WorkerLive'
  BY StartWorkerInv
<1>3. /\ waiters'[c] = {c}
      /\ \A e \in Calls \ {c} : waiters'[e] = waiters[e]
  BY DEF NewEntry, TypeOK
<1>4. \A e \in Queued : e \in Calls
  BY DEF Queued, Members, TypeOK
<1>5. /\ Queued' \subseteq Queued \cup {c} /\ c \in Queued'
      /\ Distinct(pending')
      /\ \A d \in Calls \ {c} : future'[d] = "pending" =>
           /\ future[d] = "pending"
           /\ \A e \in Queued : d \in waiters[e] => e \in Queued'
  <2>1. CASE /\ pending' = Append(pending, c)
             /\ \A d \in Calls \ {c} :
                  future'[d] = "pending" => future[d] = "pending"
    <3>1. /\ Members(Append(pending, c)) = Members(pending) \cup {c}
          /\ Distinct(Append(pending, c))
      BY <1>1, AppendMembers DEF TypeOK, QueueInv, Queued
    <3>2. Queued' = Queued \cup {c}
      BY <2>1, <3>1 DEF Queued, Members
    <3> QED BY <2>1, <3>1, <3>2
  <2>2. CASE /\ pending' = <<c>>
             /\ \A d \in Calls \ {c} : future'[d] = "pending" =>
                  future[d] = "pending" /\ \A e \in Queued : d \notin waiters[e]
    <3>1. Len(pending') = 1 /\ pending'[1] = c
      BY <2>2
    <3>2. Queued' = {c} /\ Distinct(pending')
      BY <3>1 DEF Queued, Members, Distinct
    <3> QED BY <2>2, <3>2
  <2> QED BY <2>1, <2>2
<1>6. QueueInv'
  <2>1. ASSUME NEW e \in Queued' PROVE task'[e] = "none" /\ call'[e] # "idle"
    BY <1>1, <1>4, <1>5 DEF QueueInv
  <2> QED BY <2>1, <1>2, <1>5 DEF QueueInv
<1>7. WaiterInv'
  <2>1. ASSUME NEW e \in Calls, NEW d \in waiters'[e] PROVE call'[d] # "idle"
    <3>1. CASE d = c
      BY <3>1
    <3>2. CASE d # c
      <4>1. d \in waiters[e] /\ d \in Calls
        <5>1. e # c
          BY <3>2, <1>3, <2>1
        <5>2. d \in waiters[e]
          BY <5>1, <1>3, <2>1
        <5>3. waiters[e] \subseteq Calls
          BY DEF TypeOK
        <5> QED BY <5>2, <5>3
      <4> QED BY <3>2, <4>1 DEF WaiterInv
    <3> QED BY <3>1, <3>2
  <2>2. ASSUME NEW d \in Calls, future'[d] = "pending"
        PROVE  \/ \E e \in Queued' : d \in waiters'[e]
               \/ active' # NoCall /\ d \in waiters'[active']
    <3>1. CASE d = c
      BY <3>1, <1>3, <1>5
    <3>2. CASE d # c
      <4>1. \/ \E e \in Queued : d \in waiters[e]
            \/ active # NoCall /\ d \in waiters[active]
        BY <3>2, <2>2, <1>5 DEF WaiterInv
      <4>2. ASSUME NEW e \in Queued, d \in waiters[e]
            PROVE  e \in Queued' /\ d \in waiters'[e]
        BY <4>2, <3>2, <2>2, <1>1, <1>3, <1>4, <1>5
      <4>3. ASSUME active # NoCall, d \in waiters[active]
            PROVE  d \in waiters'[active']
        BY <4>3, <1>1, <1>3 DEF TypeOK
      <4> QED BY <4>1, <4>2, <4>3
    <3> QED BY <3>1, <3>2
  <2> QED BY <2>1, <2>2 DEF WaiterInv
<1>8. TaskInv' /\ CloseInv'
  BY AcceptedTaskInv, AcceptedCloseInv
<1> QED BY <1>2, <1>6, <1>7, <1>8

\* _abandon preserves the invariant: a queued entry that loses its last waiter
\* leaves the queue, so no waiter is left on a lost entry.
LEMMA AbandonInv ==
  ASSUME IInv, TypeOK', NEW c \in Calls, Abandon(c)
  PROVE  IInv'
<1> USE DEF IInv
<1>1. /\ call[c] = "waiting" /\ future[c] = "dropped"
      /\ call' = [call EXCEPT ![c] = "cancelled"]
      /\ UNCHANGED <<active, task, worker, workers, serving, future, closed, closer>>
  BY DEF Abandon, workerVars
<1>2. WorkerInv' /\ TaskInv' /\ CloseInv' /\ WorkerLive' = WorkerLive
  BY <1>1 DEF WorkerInv, TaskInv, CloseInv, WorkerLive, TypeOK
<1>3. \A e \in Queued : e \in Calls
  BY DEF Queued, Members, TypeOK
\* Only c leaves, and an entry leaves the queue only when c was alone in it.
<1>4. /\ Distinct(pending') /\ Queued' \subseteq Queued
      /\ \A e \in Calls : waiters'[e] \subseteq waiters[e]
      /\ \A e \in Calls : waiters[e] \ {c} \subseteq waiters'[e]
      /\ \A e \in Queued \ Queued' : waiters[e] = {c}
  <2>1. CASE \E i \in 1..Len(pending) : AbandonQueued(c, i)
    <3>1. PICK i \in 1..Len(pending) : AbandonQueued(c, i)
      BY <2>1
    <3>2. pending[i] \in Calls /\ pending[i] \in Queued
      <4>1. pending[i] \in Queued
        BY DEF Queued, Members
      <4> QED BY <4>1, <1>3
    <3>3. /\ waiters' = [waiters EXCEPT ![pending[i]] = @ \ {c}]
          /\ pending' = IF waiters[pending[i]] = {c}
                        THEN Without(pending, i) ELSE pending
      BY <3>1 DEF AbandonQueued
    <3>4. /\ \A e \in Calls : waiters'[e] \subseteq waiters[e]
          /\ \A e \in Calls : waiters[e] \ {c} \subseteq waiters'[e]
      BY <3>2, <3>3 DEF TypeOK
    <3>5. CASE waiters[pending[i]] = {c}
      <4>1. /\ Members(Without(pending, i)) = Members(pending) \ {pending[i]}
            /\ Distinct(Without(pending, i))
        BY WithoutMembers DEF TypeOK, QueueInv
      <4>2. Queued' = Queued \ {pending[i]} /\ Distinct(pending')
        BY <3>3, <3>5, <4>1 DEF Queued, Members
      <4> QED BY <3>4, <3>5, <4>2
    <3>6. CASE waiters[pending[i]] # {c}
      <4>1. Queued' = Queued /\ Distinct(pending')
        BY <3>3, <3>6 DEF Queued, Members, QueueInv, Distinct
      <4> QED BY <3>4, <4>1
    <3> QED BY <3>5, <3>6
  <2>2. CASE AbandonActive(c) \/ AbandonNothing(c)
    <3>1. Queued' = Queued /\ Distinct(pending')
      BY <2>2
      DEF AbandonActive, AbandonNothing, Queued, Members, QueueInv, Distinct
    <3>2. CASE AbandonActive(c)
      <4>1. waiters' = [waiters EXCEPT ![active] = @ \ {c}] /\ active \in Calls
        BY <3>2 DEF AbandonActive
      <4>2. \A e \in Calls : waiters'[e] = IF e = active THEN waiters[e] \ {c}
                                            ELSE waiters[e]
        BY <4>1 DEF TypeOK
      <4> QED BY <3>1, <4>2
    <3>3. CASE AbandonNothing(c)
      BY <3>1, <3>3 DEF AbandonNothing
    <3> QED BY <2>2, <3>2, <3>3
  <2> QED BY <2>1, <2>2 DEF Abandon
<1>5. QueueInv'
  <2>1. ASSUME pending' # <<>> PROVE WorkerLive
    <3>1. CASE pending = <<>>
      <4>1. ~\E i \in 1..Len(pending) : AbandonQueued(c, i)
        BY <3>1
      <4>2. pending' = pending
        BY <4>1 DEF Abandon, AbandonActive, AbandonNothing
      <4> QED BY <2>1, <3>1, <4>2
    <3> QED BY <3>1 DEF QueueInv
  <2>2. ASSUME NEW e \in Queued' PROVE task'[e] = "none" /\ call'[e] # "idle"
    BY <1>1, <1>3, <1>4 DEF QueueInv, TypeOK
  <2> QED BY <1>2, <1>4, <2>1, <2>2 DEF QueueInv
<1>6. WaiterInv'
  <2>1. ASSUME NEW e \in Calls, NEW d \in waiters'[e] PROVE call'[d] # "idle"
    <3>1. d \in waiters[e] /\ d \in Calls
      BY <1>4, <2>1 DEF TypeOK
    <3> QED BY <1>1, <3>1 DEF WaiterInv, TypeOK
  <2>2. ASSUME NEW d \in Calls, future'[d] = "pending"
        PROVE  \/ \E e \in Queued' : d \in waiters'[e]
               \/ active' # NoCall /\ d \in waiters'[active']
    <3>1. d # c
      BY <1>1, <2>2
    <3>2. CASE \E e \in Queued : d \in waiters[e]
      BY <1>3, <1>4, <3>1, <3>2
    <3>3. CASE active # NoCall /\ d \in waiters[active]
      BY <1>1, <1>4, <3>1, <3>3 DEF TypeOK
    <3> QED BY <1>1, <2>2, <3>2, <3>3 DEF WaiterInv
  <2> QED BY <2>1, <2>2 DEF WaiterInv
<1> QED BY <1>2, <1>5, <1>6

\* The worker takes the next entry, or ends, once the active one is settled.
LEMMA ServeNextInv ==
  ASSUME IInv, TypeOK', NEW w \in Calls, ServeNext(w),
         workers[w] \in {"ready", "serving"},
         active # NoCall => task[active] \notin Live,
         UNCHANGED <<worker, waiters, call, closed, closer>>,
         \A c \in Calls : future'[c] = "pending" =>
           future[c] = "pending" /\ ~(active # NoCall /\ c \in waiters[active])
  PROVE  IInv'
<1> USE DEF IInv
<1>1. worker = w /\ w # NoCall /\ WorkerLive
  BY NoCallAssumption DEF WorkerInv, WorkerLive
<1>2. \A v \in Calls \ {w} : workers[v] \notin {"ready", "serving"}
  BY <1>1 DEF WorkerInv
<1>3. \A e \in Calls : task[e] \notin Live
  BY NoCallAssumption DEF TaskInv
<1>4. ASSUME NEW c \in Calls, future'[c] = "pending"
      PROVE  \E e \in Queued : c \in waiters[e]
  BY <1>4 DEF WaiterInv
<1>5. CASE pending = <<>>
  <2>1. /\ active' = NoCall /\ pending' = pending /\ task' = task
        /\ workers' = [workers EXCEPT ![w] = "ended"]
    BY <1>5 DEF ServeNext
  <2>2. Queued = {} /\ Queued' = {}
    BY <1>5, <2>1 DEF Queued, Members
  <2>3. QueueInv'
    BY <1>5, <2>1, <2>2 DEF QueueInv, Distinct
  <2>4. WorkerInv' /\ ~WorkerLive'
    BY <1>1, <1>2, <2>1 DEF WorkerInv, WorkerLive, TypeOK
  <2>5. TaskInv'
    BY <1>3, <2>1 DEF TaskInv
  <2>6. WaiterInv'
    BY <1>4, <2>2 DEF WaiterInv
  <2>7. CloseInv'
    BY <2>4 DEF CloseInv
  <2> QED BY <2>3, <2>4, <2>5, <2>6, <2>7
<1>6. CASE pending # <<>>
  <2> DEFINE e == Head(pending)
  <2>1. /\ active' = e /\ pending' = Tail(pending)
        /\ task' = [task EXCEPT ![e] = "created"]
        /\ workers' = [workers EXCEPT ![w] = "serving"]
        /\ serving' = [serving EXCEPT ![w] = e]
    BY <1>6 DEF ServeNext
  <2>2. /\ Members(pending) = {e} \cup Members(Tail(pending))
        /\ Distinct(Tail(pending)) /\ e \notin Members(Tail(pending))
    BY <1>6, TailMembers DEF TypeOK, QueueInv
  <2>3. Queued = {e} \cup Queued' /\ e \notin Queued' /\ Distinct(pending')
    BY <2>1, <2>2 DEF Queued, Members
  <2>4. \A d \in Queued : d \in Calls /\ task[d] = "none" /\ call[d] # "idle"
    BY DEF Queued, Members, TypeOK, QueueInv
  <2>5. e \in Calls /\ e # NoCall
    BY <2>3, <2>4, NoCallAssumption
  <2> HIDE DEF e
  <2>6. WorkerInv' /\ WorkerLive'
    BY <1>1, <1>2, <2>1, <2>5 DEF WorkerInv, WorkerLive, TypeOK
  <2>7. QueueInv'
    BY <2>1, <2>3, <2>4, <2>6 DEF QueueInv, TypeOK
  <2>8. TaskInv'
    BY <1>3, <2>1, <2>3, <2>4, <2>5 DEF TaskInv, TypeOK
  <2>9. WaiterInv'
    BY <1>4, <2>1, <2>3, <2>5 DEF WaiterInv
  <2>10. CloseInv'
    BY <1>1 DEF CloseInv
  <2> QED BY <2>6, <2>7, <2>8, <2>9, <2>10
<1> QED BY <1>5, <1>6

\* The worker task preserves the invariant: it answers the waiters of the entry
\* it served before it gives that entry up.
LEMMA WorkerStepInv ==
  ASSUME IInv, TypeOK', NEW w \in Calls, WorkerStep(w)
  PROVE  IInv'
<1> USE DEF IInv
<1>1. CASE WorkerStarts(w)
  <2>1. active = NoCall
    BY <1>1, NoCallAssumption DEF WorkerStarts, WorkerInv
  <2> QED
    BY <1>1, <2>1, ServeNextInv DEF WorkerStarts, entryVars, callVars
<1>2. CASE WorkerResumes(w)
  <2>1. /\ serving[w] = active /\ active # NoCall /\ active \in Calls
        /\ task[active] \in Done
    BY <1>2 DEF WorkerResumes, WorkerInv, TypeOK
  <2>2. task[active] \notin Live
    BY <2>1 DEF Done, AsCancelled, Live
  <2>3. Outcome(active) # "pending"
    BY <2>1 DEF Outcome, Done, AsCancelled
  <2>4. ASSUME NEW c \in Calls, future'[c] = "pending"
        PROVE  future[c] = "pending" /\ c \notin waiters[active]
    BY <1>2, <2>1, <2>3, <2>4 DEF WorkerResumes, Settled, TypeOK
  <2> QED
    BY <1>2, <2>2, <2>4, ServeNextInv DEF WorkerResumes, entryVars
<1> QED BY <1>1, <1>2 DEF WorkerStep

\* submit() preserves the invariant under every policy.
LEMMA SubmitInv ==
  ASSUME IInv, TypeOK', NEW c \in Calls, Submit(c)
  PROVE  IInv'
<1>1. call[c] = "idle"
  BY DEF Submit
<1>2. PICK kind \in Kinds :
        \/ Refuse(c, kind)
        \/ Skip(c, kind)
        \/ \E r \in Requests[policy] :
             Join(c, r, kind) \/ Enqueue(c, r, kind) \/ Supersede(c, r, kind)
  BY DEF Submit
<1>3. CASE Refuse(c, kind) \/ Skip(c, kind)
  <2>1. /\ UNCHANGED <<pending, active, worker, workers, serving, waiters, task,
                       future, closed, closer>>
        /\ \E status : status # "idle" /\ call' = [call EXCEPT ![c] = status]
    BY <1>3 DEF Refuse, Skip, entryVars, taskVars, workerVars
  <2>2. \A d \in Calls : call'[d] = "idle" => call[d] = "idle"
    BY <2>1 DEF IInv, TypeOK
  <2>3. EmptiedOrKept
    BY <2>1 DEF EmptiedOrKept
  <2>4. CloseInv
    BY DEF IInv
  <2>5. TasksOnlyEnd
    BY <2>1 DEF TasksOnlyEnd
  <2> QED BY <2>1, <2>2, <2>3, <2>4, <2>5, QuietStep DEF CloseInv
<1>4. CASE \E r \in Requests[policy] : Join(c, r, kind)
  BY <1>1, <1>4, JoinInv
<1>5. CASE \E r \in Requests[policy] : Enqueue(c, r, kind)
  <2>1. PICK r \in Requests[policy] : Enqueue(c, r, kind)
    BY <1>5
  <2>2. future \in [Calls -> Futures] /\ Await(c, r, kind, future)
    BY <2>1 DEF Enqueue, IInv, TypeOK
  <2>3. /\ call'[c] = "waiting"
        /\ \A d \in Calls \ {c} : call'[d] = call[d] /\ future'[d] = future[d]
    BY <2>2, AwaitEffect DEF IInv
  <2>4. /\ pending' = Append(pending, c) /\ NewEntry(c, r) /\ StartWorker(c)
        /\ ~closed /\ UNCHANGED <<closed, closer, active, serving, task>>
    BY <2>1 DEF Enqueue, Queue, taskVars
  <2> QED BY <1>1, <2>3, <2>4, NewEntryInv
<1>6. CASE \E r \in Requests[policy] : Supersede(c, r, kind)
  <2>1. PICK r \in Requests[policy] : Supersede(c, r, kind)
    BY <1>6
  <2>2. QueueCancelled \in [Calls -> Futures] /\ Await(c, r, kind, QueueCancelled)
    BY <2>1, QueueCancelledType DEF Supersede, IInv
  <2>3. /\ call'[c] = "waiting"
        /\ \A d \in Calls \ {c} :
             call'[d] = call[d] /\ future'[d] = QueueCancelled[d]
    BY <2>2, AwaitEffect DEF IInv
  <2>4. /\ pending' = <<c>> /\ NewEntry(c, r) /\ StartWorker(c)
        /\ ~closed /\ UNCHANGED <<closed, closer, active, serving, task>>
    BY <2>1 DEF Supersede
  <2>5. \A d \in Calls : QueueCancelled[d] = "pending" =>
          future[d] = "pending" /\ \A e \in Queued : d \notin waiters[e]
    BY DEF QueueCancelled, Settled
  <2> QED BY <1>1, <2>3, <2>4, <2>5, NewEntryInv
<1> QED BY <1>2, <1>3, <1>4, <1>5, <1>6

\* close() preserves the invariant.
LEMMA CloseStepInv ==
  ASSUME IInv, TypeOK', NEW k \in Closers,
         \/ Close(k)
         \/ CloseReturns(k)
         \/ \E e \in Calls : RefreshClosesAndReturns(e, k)
  PROVE  IInv'
<1> USE DEF IInv
<1>1. \A d \in Calls : QueueCancelled[d] = "pending" =>
        future[d] = "pending" /\ \A e \in Queued : d \notin waiters[e]
  BY DEF QueueCancelled, Settled
<1>2. CASE Close(k)
  <2>1. /\ closed' /\ UNCHANGED <<active, worker, workers, serving, waiters, task, call>>
        /\ \E status \in {"left", "waiting", "drained"} :
             /\ closer' = [closer EXCEPT ![k] = status]
             /\ status = "drained" => ~WorkerLive
    BY <1>2 DEF Close, workerVars
  <2>2. EmptiedOrKept
    BY <1>1, <1>2 DEF Close, EmptiedOrKept
  <2>3. \A j \in Closers : closer'[j] = "drained" => ~WorkerLive
    BY <2>1 DEF CloseInv, TypeOK
  <2>4. TasksOnlyEnd
    BY <2>1 DEF TasksOnlyEnd
  <2> QED BY <2>1, <2>2, <2>3, <2>4, QuietStep
<1>3. CASE CloseReturns(k)
  <2>1. /\ UNCHANGED <<pending, active, worker, workers, serving, waiters, task,
                       call, future, closed>>
        /\ closer[k] = "waiting" /\ ~WorkerLive
        /\ closer' = [closer EXCEPT ![k] = "drained"]
    BY <1>3 DEF CloseReturns, entryVars, taskVars, workerVars, callVars
  <2>2. EmptiedOrKept
    BY <2>1 DEF EmptiedOrKept
  <2>3. \A j \in Closers :
          /\ closer'[j] \in {"waiting", "drained"} => closed'
          /\ closer'[j] = "drained" => ~WorkerLive
    BY <2>1 DEF CloseInv, TypeOK
  <2>4. TasksOnlyEnd
    BY <2>1 DEF TasksOnlyEnd
  <2> QED BY <2>1, <2>2, <2>3, <2>4, QuietStep
<1>4. CASE \E e \in Calls : RefreshClosesAndReturns(e, k)
  <2>1. PICK e \in Calls : RefreshClosesAndReturns(e, k)
    BY <1>4
  <2>2. /\ closed' /\ UNCHANGED <<active, worker, workers, serving, waiters, call>>
        /\ task[e] = "running" /\ task' = [task EXCEPT ![e] = "closedItself"]
        /\ closer' = [closer EXCEPT ![k] = "left"]
    BY <2>1 DEF RefreshClosesAndReturns, workerVars
  <2>3. EmptiedOrKept
    BY <1>1, <2>1 DEF RefreshClosesAndReturns, EmptiedOrKept
  <2>4. TasksOnlyEnd
    BY <2>2 DEF TypeOK, Live, TasksOnlyEnd
  <2>5. \A j \in Closers :
          /\ closer'[j] \in {"waiting", "drained"} => closed'
          /\ closer'[j] = "drained" => ~WorkerLive
    BY <2>2 DEF CloseInv, TypeOK
  <2> HIDE DEF IInv
  <2> QED BY <2>2, <2>3, <2>4, <2>5, QuietStep
<1> QED BY <1>2, <1>3, <1>4

\* The task of the refresh preserves the invariant, however it ends.
LEMMA RefreshStepInv ==
  ASSUME IInv, TypeOK', NEW e \in Calls,
         RefreshStarts(e) \/ RefreshEnds(e) \/ RefreshAbsorbsCancel(e)
  PROVE  IInv'
<1> USE DEF IInv
<1>1. /\ UNCHANGED <<pending, active, worker, workers, serving, waiters, call,
                     future, closed, closer>>
      /\ \/ task' = task
         \/ /\ task[e] \in Live
            /\ \E state \in Tasks \ {"none"} : task' = [task EXCEPT ![e] = state]
  BY DEF RefreshStarts, RefreshEnds, RefreshNeverStarts, RefreshReturns,
         RefreshCancelled, RefreshRaises, RefreshAbsorbsCancel,
         RefreshUnchanged, entryVars, workerVars, callVars, Live, Tasks
<1>2. TasksOnlyEnd
  BY <1>1 DEF TypeOK, Live, TasksOnlyEnd
<1>3. EmptiedOrKept
  BY <1>1 DEF EmptiedOrKept
<1>4. \A k \in Closers :
        /\ closer'[k] \in {"waiting", "drained"} => closed'
        /\ closer'[k] = "drained" => ~WorkerLive
  BY <1>1 DEF CloseInv
<1> HIDE DEF IInv
<1> QED BY <1>1, <1>2, <1>3, <1>4, QuietStep

\* A caller that returns, or is cancelled, preserves the invariant.
LEMMA CallerStepInv ==
  ASSUME IInv, TypeOK', NEW c \in Calls, CancelCaller(c) \/ Return(c)
  PROVE  IInv'
<1>1. /\ UNCHANGED <<pending, active, worker, workers, serving, waiters, task,
                     closed, closer>>
      /\ \A d \in Calls : /\ call'[d] = "idle" => call[d] = "idle"
                          /\ future'[d] = "pending" => future[d] = "pending"
  BY DEF CancelCaller, Return, IInv, TypeOK, entryVars, taskVars, workerVars
<1>2. EmptiedOrKept
  BY <1>1 DEF EmptiedOrKept
<1>3. TasksOnlyEnd
  BY <1>1 DEF TasksOnlyEnd
<1> QED BY <1>1, <1>2, <1>3, QuietStep DEF IInv, CloseInv

\* Every step preserves the inductive invariant.
LEMMA NextInv == IInv /\ TypeOK' /\ [Next]_vars => IInv'
<1> SUFFICES ASSUME IInv, TypeOK', [Next]_vars PROVE IInv'
  OBVIOUS
<1>1. CASE UNCHANGED vars
  BY <1>1
  DEF vars, IInv, QueueInv, WorkerInv, TaskInv, WaiterInv, CloseInv, Distinct,
      Queued, Members, WorkerLive, entryVars, taskVars, workerVars, callVars
<1>2. ASSUME NEW c \in Calls, Submit(c) PROVE IInv'
  BY <1>2, SubmitInv
<1>3. ASSUME NEW c \in Calls, CancelCaller(c) \/ Return(c) PROVE IInv'
  BY <1>3, CallerStepInv
<1>4. ASSUME NEW c \in Calls, Abandon(c) PROVE IInv'
  BY <1>4, AbandonInv
<1>5. ASSUME NEW c \in Calls, WorkerStep(c) PROVE IInv'
  BY <1>5, WorkerStepInv
<1>6. ASSUME NEW c \in Calls,
             RefreshStarts(c) \/ RefreshEnds(c) \/ RefreshAbsorbsCancel(c)
      PROVE  IInv'
  BY <1>6, RefreshStepInv
<1>7. ASSUME NEW k \in Closers,
             \/ Close(k)
             \/ CloseReturns(k)
             \/ \E e \in Calls : RefreshClosesAndReturns(e, k)
      PROVE  IInv'
  BY <1>7, CloseStepInv
<1>8. ASSUME AtRest PROVE IInv'
  BY <1>1, <1>8 DEF AtRest
<1> QED
  BY <1>1, <1>2, <1>3, <1>4, <1>5, <1>6, <1>7, <1>8 DEF Next, CallerStep

\* The invariant the safety theorems rest on holds in every reachable state.
THEOREM InductiveInvariant == Spec => []IInv
<1>1. Spec => []TypeOK
  BY TypeCorrect
<1> QED BY <1>1, InitInv, NextInv, PTL DEF Spec

----------------------------------------------------------------------------
(* What the invariant says to a reader of the code.                        *)

\* At most one refresh task is alive at any time, under every policy.
THEOREM OneRefresh == Spec => []OneRefreshAtATime
<1>1. IInv => OneRefreshAtATime
  BY DEF IInv, TaskInv, OneRefreshAtATime
<1> QED BY <1>1, InductiveInvariant, PTL

\* Every unanswered caller waits for an entry that a live worker will reach.
THEOREM NoStrandedCaller == Spec => []NobodyStranded
<1>1. IInv => NobodyStranded
  <2> SUFFICES ASSUME IInv, NEW c \in Calls, future[c] = "pending"
               PROVE  /\ \E e \in Queued \cup ({active} \ {NoCall}) : c \in waiters[e]
                      /\ WorkerLive
    BY DEF NobodyStranded
  <2>1. CASE \E e \in Queued : c \in waiters[e]
    <3>1. Queued # {}
      BY <2>1
    <3>2. pending # <<>>
      BY <3>1 DEF Queued, Members
    <3> QED BY <2>1, <3>2 DEF IInv, QueueInv
  <2>2. CASE active # NoCall /\ c \in waiters[active]
    BY <2>2 DEF IInv, WorkerInv, WorkerLive
  <2> QED BY <2>1, <2>2 DEF IInv, WaiterInv
<1> QED BY <1>1, InductiveInvariant, PTL

\* A close() that waited leaves nothing behind.
THEOREM CloseLeavesNothing == Spec => []CloseDrains
<1>1. IInv => CloseDrains
  <2> SUFFICES ASSUME IInv, ~WorkerLive
               PROVE  /\ pending = <<>> /\ active = NoCall
                      /\ \A c \in Calls : task[c] \notin Live /\ future[c] # "pending"
    BY DEF CloseDrains, IInv, CloseInv
  <2>1. pending = <<>>
    BY DEF IInv, QueueInv
  <2>2. active = NoCall
    BY DEF IInv, WorkerInv, WorkerLive
  <2>3. Queued = {}
    BY <2>1 DEF Queued, Members
  <2>4. ASSUME NEW c \in Calls PROVE task[c] \notin Live
    BY <2>2, NoCallAssumption DEF IInv, TaskInv
  <2>5. ASSUME NEW c \in Calls PROVE future[c] # "pending"
    BY <2>2, <2>3 DEF IInv, WaiterInv
  <2> QED BY <2>1, <2>2, <2>4, <2>5
<1> QED BY <1>1, InductiveInvariant, PTL

\* No step adds a waiter to an entry that has left the queue, or changes its
\* request.
LEMMA OnlyQueuedGrowStep == IInv /\ [Next]_vars => OnlyQueuedGrow
<1> SUFFICES ASSUME IInv, [Next]_vars, NEW e \in Calls, task[e] # "none"
             PROVE  waiters'[e] \subseteq waiters[e] /\ request'[e] = request[e]
  BY DEF OnlyQueuedGrow
<1>1. CASE UNCHANGED <<waiters, request>>
  BY <1>1
<1>2. ASSUME NEW c \in Calls, NEW r, NEW kind, call[c] = "idle", Join(c, r, kind)
      PROVE  waiters'[e] \subseteq waiters[e] /\ request'[e] = request[e]
  <2>1. PICK i \in 1..Len(pending) :
          /\ request' = [request EXCEPT ![pending[i]] = Merged(@, r)]
          /\ waiters' = [waiters EXCEPT ![pending[i]] = @ \cup {c}]
    BY <1>2 DEF Join, Joinable
  <2>2. pending[i] \in Queued
    BY DEF Queued, Members
  <2>3. pending[i] # e
    BY <2>2 DEF IInv, QueueInv
  <2> QED BY <2>1, <2>3 DEF IInv, TypeOK
<1>3. ASSUME NEW c \in Calls, NEW r, call[c] = "idle", NewEntry(c, r)
      PROVE  waiters'[e] \subseteq waiters[e] /\ request'[e] = request[e]
  <2>1. c # e
    BY <1>3, IdleCallIsFresh
  <2> QED BY <1>3, <2>1 DEF NewEntry, IInv, TypeOK
<1>4. ASSUME NEW c \in Calls, Submit(c)
      PROVE  waiters'[e] \subseteq waiters[e] /\ request'[e] = request[e]
  <2>1. call[c] = "idle"
    BY <1>4 DEF Submit
  <2>2. PICK kind \in Kinds :
          \/ Refuse(c, kind) \/ Skip(c, kind)
          \/ \E r \in Requests[policy] :
               Join(c, r, kind) \/ Enqueue(c, r, kind) \/ Supersede(c, r, kind)
    BY <1>4 DEF Submit
  <2>3. CASE Refuse(c, kind) \/ Skip(c, kind)
    BY <1>1, <2>3 DEF Refuse, Skip, entryVars
  <2>4. CASE \E r \in Requests[policy] : Join(c, r, kind)
    BY <1>2, <2>1, <2>4
  <2>5. CASE \E r \in Requests[policy] :
               Enqueue(c, r, kind) \/ Supersede(c, r, kind)
    BY <1>3, <2>1, <2>5 DEF Enqueue, Supersede
  <2> QED BY <2>2, <2>3, <2>4, <2>5
<1>5. ASSUME NEW c \in Calls, Abandon(c)
      PROVE  waiters'[e] \subseteq waiters[e] /\ request'[e] = request[e]
  <2>1. request' = request
    BY <1>5 DEF Abandon
  <2>2. \/ \E d \in Calls : waiters' = [waiters EXCEPT ![d] = @ \ {c}]
        \/ waiters' = waiters
    <3>1. \A i \in 1..Len(pending) : pending[i] \in Calls
      BY DEF IInv, TypeOK
    <3> QED
      BY <1>5, <3>1 DEF Abandon, AbandonQueued, AbandonActive, AbandonNothing
  <2> QED BY <2>1, <2>2 DEF IInv, TypeOK
<1>6. ASSUME NEW c \in Calls,
             \/ CancelCaller(c) \/ Return(c) \/ WorkerStep(c)
             \/ RefreshStarts(c) \/ RefreshEnds(c) \/ RefreshAbsorbsCancel(c)
      PROVE  UNCHANGED <<waiters, request>>
  BY <1>6
  DEF CancelCaller, Return, WorkerStep, WorkerStarts, WorkerResumes, RefreshStarts,
      RefreshEnds, RefreshNeverStarts, RefreshReturns, RefreshCancelled,
      RefreshRaises, RefreshAbsorbsCancel, RefreshUnchanged, entryVars
<1>7. ASSUME NEW k \in Closers,
             \/ Close(k) \/ CloseReturns(k)
             \/ \E d \in Calls : RefreshClosesAndReturns(d, k)
      PROVE  UNCHANGED <<waiters, request>>
  BY <1>7 DEF Close, CloseReturns, RefreshClosesAndReturns, entryVars
<1>8. CASE UNCHANGED vars
  BY <1>8 DEF vars, entryVars
<1> QED
  BY <1>1, <1>4, <1>5, <1>6, <1>7, <1>8 DEF Next, CallerStep, AtRest

\* A caller never joins a refresh that has left the queue: the result it gets
\* is of a refresh that started after its request was accepted.
THEOREM Freshness == Spec => NoLateJoin
<1>1. IInv /\ [Next]_vars => [OnlyQueuedGrow]_vars
  BY OnlyQueuedGrowStep
<1> QED BY <1>1, InductiveInvariant, PTL DEF Spec, NoLateJoin

----------------------------------------------------------------------------
(* Coalescing.                                                             *)

\* The merge of two compatible requests promises what each of them promises.
LEMMA MergedPromise ==
  ASSUME NEW r1 \in Request, NEW r2 \in Request, Compatible(r1, r2)
  PROVE  /\ Promised(r1) \subseteq Promised(Merged(r1, r2))
         /\ Promised(r2) \subseteq Promised(Merged(r1, r2))
<1>1. /\ r1.mode \in Modes /\ r2.mode \in Modes
      /\ r1.ids \subseteq Ids /\ r2.ids \subseteq Ids
  BY DEF Request, Modes
<1>2. /\ COVERS["FULL"] = Modes
      /\ COVERS["DEPENDENCY_AWARE"] = {"DEPENDENCY_AWARE", "INCREMENTAL"}
      /\ COVERS["INCREMENTAL"] = {"INCREMENTAL"}
      /\ COVERS["TARGETED"] = {"TARGETED"}
  BY DEF COVERS, Modes
<1> DEFINE m == Merged(r1, r2)
<1>3. CASE m.mode = "TARGETED"
  <2>1. r1.mode = "TARGETED" /\ r2.mode = "TARGETED" /\ m.ids = r1.ids \cup r2.ids
    BY <1>1, <1>2, <1>3 DEF Merged, Compatible, Modes
  <2> QED BY <1>3, <2>1 DEF Promised
<1>4. CASE m.mode = "INCREMENTAL"
  <2>1. r1.mode = "INCREMENTAL" /\ r2.mode = "INCREMENTAL"
    BY <1>1, <1>2, <1>4 DEF Merged, Compatible, Modes
  <2> QED BY <1>4, <2>1 DEF Promised
<1>5. CASE m.mode = "DEPENDENCY_AWARE"
  <2>1. /\ r1.mode \in {"DEPENDENCY_AWARE", "INCREMENTAL"}
        /\ r2.mode \in {"DEPENDENCY_AWARE", "INCREMENTAL"}
    BY <1>1, <1>2, <1>5 DEF Merged, Compatible, Modes
  <2> QED BY <1>5, <2>1 DEF Promised
<1>6. CASE m.mode = "FULL"
  <2>1. Promised(m) = {"change", "impact", "force"} \X Ids
    BY <1>6 DEF Promised
  <2>2. ASSUME NEW r \in {r1, r2}
        PROVE  Promised(r) \subseteq {"change", "impact", "force"} \X Ids
    BY <1>1 DEF Promised, Modes
  <2> QED BY <2>1, <2>2
<1>7. m.mode \in Modes
  BY <1>1 DEF Merged
<1> QED BY <1>3, <1>4, <1>5, <1>6, <1>7 DEF Modes

\* Steps that merge nothing and add no waiter break no promise.
LEMMA KeepsWorkUnchanged ==
  ASSUME IInv, CoalescingKeepsWork, UNCHANGED <<request, wanted>>,
         \A e \in Calls : waiters'[e] \subseteq waiters[e]
  PROVE  CoalescingKeepsWork'
BY DEF CoalescingKeepsWork, Promised

\* Merging a request into an entry keeps what it promised its waiters.
LEMMA KeepsWorkSubmit ==
  ASSUME IInv, CoalescingKeepsWork, NEW c \in Calls, Submit(c)
  PROVE  CoalescingKeepsWork'
<1>1. call[c] = "idle"
  BY DEF Submit
<1>2. /\ c \notin Queued /\ \A e \in Calls : c \notin waiters[e]
  BY <1>1, IdleCallIsFresh
<1>3. PICK kind \in Kinds :
        \/ Refuse(c, kind)
        \/ Skip(c, kind)
        \/ \E r \in Requests[policy] :
             Join(c, r, kind) \/ Enqueue(c, r, kind) \/ Supersede(c, r, kind)
  BY DEF Submit
<1>4. CASE Refuse(c, kind) \/ Skip(c, kind)
  BY <1>4, KeepsWorkUnchanged DEF Refuse, Skip, entryVars
<1>5. ASSUME NEW r \in Requests[policy], Join(c, r, kind)
      PROVE  CoalescingKeepsWork'
  <2>1. r \in Request
    BY RequestFacts DEF IInv, TypeOK
  <2>2. PICK i \in 1..Len(pending) :
          /\ Compatible(request[pending[i]], r)
          /\ request' = [request EXCEPT ![pending[i]] = Merged(@, r)]
          /\ waiters' = [waiters EXCEPT ![pending[i]] = @ \cup {c}]
    BY <1>5 DEF Join, Absorbs, Joinable
  <2>3. pending[i] \in Calls /\ request[pending[i]] \in Request
    BY DEF IInv, TypeOK
  <2>4. wanted' = [wanted EXCEPT ![c] = r]
    BY <1>5 DEF Join, Await
  <2>5. /\ Promised(request[pending[i]]) \subseteq Promised(request'[pending[i]])
        /\ Promised(r) \subseteq Promised(request'[pending[i]])
    <3>1. request'[pending[i]] = Merged(request[pending[i]], r)
      BY <2>2, <2>3 DEF IInv, TypeOK
    <3> QED BY <2>1, <2>2, <2>3, <3>1, MergedPromise
  <2>6. ASSUME NEW e \in Calls, NEW d \in waiters'[e]
        PROVE  Promised(wanted'[d]) \subseteq Promised(request'[e])
    <3>1. CASE d = c
      <4>1. e = pending[i]
        BY <1>2, <2>2, <2>6, <3>1 DEF IInv, TypeOK
      <4>2. wanted'[d] = r
        BY <2>4, <3>1 DEF IInv, TypeOK
      <4> QED BY <2>5, <4>1, <4>2
    <3>2. CASE d # c
      <4>1. d \in waiters[e] /\ d \in Calls
        BY <2>2, <2>3, <2>6, <3>2 DEF IInv, TypeOK
      <4>2. wanted'[d] = wanted[d]
        BY <2>4, <3>2, <4>1 DEF IInv, TypeOK
      <4>3. Promised(wanted[d]) \subseteq Promised(request[e])
        BY <4>1 DEF CoalescingKeepsWork
      <4>4. CASE e = pending[i]
        BY <2>5, <4>2, <4>3, <4>4
      <4>5. CASE e # pending[i]
        <5>1. request'[e] = request[e]
          BY <2>2, <4>5 DEF IInv, TypeOK
        <5> QED BY <4>2, <4>3, <5>1
      <4> QED BY <4>4, <4>5
    <3> QED BY <3>1, <3>2
  <2>7. CoalescingKeepsWork'
    BY <2>6 DEF CoalescingKeepsWork, Promised
  <2> QED BY <2>7
<1>6. ASSUME NEW r \in Requests[policy],
             Enqueue(c, r, kind) \/ Supersede(c, r, kind)
      PROVE  CoalescingKeepsWork'
  <2>1. NewEntry(c, r) /\ wanted' = [wanted EXCEPT ![c] = r]
    BY <1>6 DEF Enqueue, Supersede, Await
  <2>2. ASSUME NEW e \in Calls, NEW d \in waiters'[e]
        PROVE  Promised(wanted'[d]) \subseteq Promised(request'[e])
    <3>1. CASE e = c
      <4>1. d = c /\ wanted'[d] = r /\ request'[e] = r
        BY <2>1, <2>2, <3>1 DEF NewEntry, IInv, TypeOK
      <4> QED BY <4>1
    <3>2. CASE e # c
      <4>1. d \in waiters[e] /\ d \in Calls /\ request'[e] = request[e]
        BY <2>1, <2>2, <3>2 DEF NewEntry, IInv, TypeOK
      <4>2. wanted'[d] = wanted[d]
        BY <1>2, <2>1, <4>1 DEF IInv, TypeOK
      <4>3. Promised(wanted[d]) \subseteq Promised(request[e])
        BY <4>1 DEF CoalescingKeepsWork
      <4> QED BY <4>1, <4>2, <4>3
    <3> QED BY <3>1, <3>2
  <2> QED BY <2>2 DEF CoalescingKeepsWork, Promised
<1> QED BY <1>3, <1>4, <1>5, <1>6

\* No step breaks a promise made to a waiter.
LEMMA KeepsWorkStep ==
  IInv /\ CoalescingKeepsWork /\ [Next]_vars => CoalescingKeepsWork'
<1> SUFFICES ASSUME IInv, CoalescingKeepsWork, [Next]_vars
             PROVE  CoalescingKeepsWork'
  OBVIOUS
<1>1. CASE UNCHANGED <<waiters, request, wanted>>
  BY <1>1, KeepsWorkUnchanged
<1>2. ASSUME NEW c \in Calls, Submit(c) PROVE CoalescingKeepsWork'
  BY <1>2, KeepsWorkSubmit
<1>3. ASSUME NEW c \in Calls, Abandon(c) PROVE CoalescingKeepsWork'
  <2>1. UNCHANGED <<request, wanted>>
    BY <1>3 DEF Abandon
  <2>2. \/ \E d \in Calls : waiters' = [waiters EXCEPT ![d] = @ \ {c}]
        \/ waiters' = waiters
    <3>1. \A i \in 1..Len(pending) : pending[i] \in Calls
      BY DEF IInv, TypeOK
    <3> QED
      BY <1>3, <3>1 DEF Abandon, AbandonQueued, AbandonActive, AbandonNothing
  <2>3. \A e \in Calls : waiters'[e] \subseteq waiters[e]
    BY <2>2 DEF IInv, TypeOK
  <2> QED BY <2>1, <2>3, KeepsWorkUnchanged
<1>4. ASSUME NEW c \in Calls,
             \/ CancelCaller(c) \/ Return(c) \/ WorkerStep(c)
             \/ RefreshStarts(c) \/ RefreshEnds(c) \/ RefreshAbsorbsCancel(c)
      PROVE  UNCHANGED <<waiters, request, wanted>>
  BY <1>4
  DEF CancelCaller, Return, WorkerStep, WorkerStarts, WorkerResumes, RefreshStarts,
      RefreshEnds, RefreshNeverStarts, RefreshReturns, RefreshCancelled,
      RefreshRaises, RefreshAbsorbsCancel, RefreshUnchanged, entryVars, callVars
<1>5. ASSUME NEW k \in Closers,
             \/ Close(k) \/ CloseReturns(k)
             \/ \E d \in Calls : RefreshClosesAndReturns(d, k)
      PROVE  UNCHANGED <<waiters, request, wanted>>
  BY <1>5 DEF Close, CloseReturns, RefreshClosesAndReturns, entryVars, callVars
<1>6. CASE UNCHANGED vars
  BY <1>1, <1>6 DEF vars, entryVars, callVars
<1> QED
  BY <1>1, <1>2, <1>3, <1>4, <1>5, <1>6 DEF Next, CallerStep, AtRest

\* However many requests were merged into an entry, and whoever has left it
\* since, its request still promises what each remaining caller asked for.
THEOREM CoalescingSound == Spec => []CoalescingKeepsWork
<1>1. Init => CoalescingKeepsWork
  BY DEF Init, CoalescingKeepsWork
<1> QED BY <1>1, KeepsWorkStep, InductiveInvariant, PTL DEF Spec

(***************************************************************************)
(* From the inductive invariant: how long the queue gets, what the         *)
(* policies cancel, how often the end of a refresh is announced, and the   *)
(* order of service.                                                       *)
(***************************************************************************)

----------------------------------------------------------------------------
(* What a step does to the queue, the tasks and their cancellation          *)

\* submit() that is refused or skipped, and steps of callers that resume.
Quiet == UNCHANGED <<policy, pending, active, task, cancel, reason, request, waiters>>

\* A step of the worker: it takes the first entry, or there is none.
Serves ==
    /\ UNCHANGED <<policy, cancel, reason, request, waiters>>
    /\ \A e \in Calls : task[e] \notin Live
    /\ \/ pending = <<>> /\ pending' = <<>> /\ task' = task
       \/ /\ pending # <<>> /\ pending' = Tail(pending)
          /\ task' = [task EXCEPT ![Head(pending)] = "created"]

\* A step of the task of a refresh.
RefreshGoesOn ==
    /\ UNCHANGED <<policy, pending, active, reason, request, waiters>>
    /\ \A e \in Calls :
          /\ task'[e] \in Live => task[e] \in Live
          /\ task'[e] = "none" <=> task[e] = "none"
          /\ cancel[e] # "no" => cancel'[e] # "no"

\* The refresh, if any, is told to stop.
Stops(why) ==
    /\ UNCHANGED <<policy, active, request, waiters>>
    /\ \A e \in Calls :
          /\ task'[e] \in Live => task[e] \in Live
          /\ task'[e] = "none" <=> task[e] = "none"
          /\ cancel[e] # "no" => cancel'[e] # "no"
          /\ reason'[e] \in {reason[e], why}

\* The cases that the following proofs distinguish.
LEMMA StepCases ==
  ASSUME IInv, [Next]_vars
  PROVE  \/ Quiet
         \/ \E c \in Calls, kind \in Kinds, r \in Requests[policy] :
               /\ call[c] = "idle"
               /\ Join(c, r, kind) \/ Enqueue(c, r, kind) \/ Supersede(c, r, kind)
         \/ \E c \in Calls : Abandon(c)
         \/ Serves
         \/ RefreshGoesOn
         \/ pending' = <<>> /\ Stops("SHUTDOWN")
<1>1. ASSUME NEW c \in Calls, Submit(c)
      PROVE  \/ Quiet
             \/ \E kind \in Kinds, r \in Requests[policy] :
                  /\ call[c] = "idle"
                  /\ Join(c, r, kind) \/ Enqueue(c, r, kind) \/ Supersede(c, r, kind)
  BY <1>1 DEF Submit, Refuse, Skip, Quiet, entryVars, taskVars
<1>2. ASSUME NEW c \in Calls, CancelCaller(c) \/ Return(c) PROVE Quiet
  BY <1>2 DEF CancelCaller, Return, Quiet, entryVars, taskVars
<1>3. ASSUME NEW w \in Calls, WorkerStep(w) PROVE Serves
  <2>1. UNCHANGED <<policy, cancel, reason, request, waiters>> /\ ServeNext(w)
    BY <1>3 DEF WorkerStep, WorkerStarts, WorkerResumes, entryVars
  <2>2. active = NoCall \/ task[active] \notin Live
    <3>1. CASE WorkerStarts(w)
      BY <3>1, NoCallAssumption DEF WorkerStarts, IInv, WorkerInv
    <3>2. CASE WorkerResumes(w)
      BY <3>2 DEF WorkerResumes, IInv, WorkerInv, Done, AsCancelled, Live
    <3> QED BY <1>3, <3>1, <3>2 DEF WorkerStep
  <2>3. \A e \in Calls : task[e] \notin Live
    BY <2>2, NoCallAssumption DEF IInv, TaskInv
  <2> QED BY <2>1, <2>3 DEF ServeNext, Serves
<1>4. ASSUME NEW e \in Calls, RefreshStarts(e) \/ RefreshEnds(e) \/ RefreshAbsorbsCancel(e)
      PROVE  RefreshGoesOn
  BY <1>4
  DEF RefreshStarts, RefreshEnds, RefreshNeverStarts, RefreshReturns, RefreshCancelled,
      RefreshRaises, RefreshAbsorbsCancel, RefreshUnchanged, RefreshGoesOn, entryVars,
      Live, IInv, TypeOK
<1>5. ASSUME NEW k \in Closers, Close(k)
      PROVE  Quiet \/ (pending' = <<>> /\ Stops("SHUTDOWN"))
  BY <1>5 DEF Close, CancelActive, Quiet, Stops, Live, IInv, TypeOK
<1>6. ASSUME NEW k \in Closers, CloseReturns(k) PROVE Quiet
  BY <1>6 DEF CloseReturns, Quiet, entryVars, taskVars
<1>7. ASSUME NEW k \in Closers, NEW e \in Calls, RefreshClosesAndReturns(e, k)
      PROVE  pending' = <<>> /\ Stops("SHUTDOWN")
  BY <1>7 DEF RefreshClosesAndReturns, Stops, Live, IInv, TypeOK
<1>8. ASSUME AtRest \/ UNCHANGED vars PROVE Quiet
  BY <1>8 DEF AtRest, vars, Quiet, entryVars, taskVars
<1> QED
  BY <1>1, <1>2, <1>3, <1>4, <1>5, <1>6, <1>7, <1>8 DEF Next, CallerStep

----------------------------------------------------------------------------
(* The length of the queue                                                  *)

\* A merged request can be merged with whatever its parts could.
LEMMA CompatibleGrows ==
  ASSUME NEW a \in Request, NEW r \in Request, NEW x \in Request,
         Compatible(a, r), Compatible(a, x)
  PROVE  Compatible(Merged(a, r), x)
<1>1. a.mode \in Modes /\ r.mode \in Modes /\ x.mode \in Modes
  BY DEF Request, Modes
<1>2. Merged(a, r).mode = IF r.mode \in COVERS[a.mode] THEN a.mode ELSE r.mode
  BY DEF Merged
<1>3. (Merged(a, r)).mode \in Modes
  BY <1>1, <1>2
<1> QED BY <1>1, <1>2, <1>3 DEF Compatible, COVERS, Modes

\* Of two requests that cannot be merged, any third can be merged with one.
LEMMA TwoTakeAll ==
  ASSUME NEW a \in Request, NEW r \in Request, NEW x \in Request, ~Compatible(a, r)
  PROVE  Compatible(a, x) \/ Compatible(r, x)
<1>1. a.mode \in Modes /\ r.mode \in Modes /\ x.mode \in Modes
  BY DEF Request, Modes
<1> QED BY <1>1 DEF Compatible, COVERS, Modes

\* A queue of two takes in any request.
LengthInv ==
    /\ QueueBounded
    /\ policy = "COALESCE" /\ Len(pending) = 2 =>
         \A r \in Request : \E i \in 1..Len(pending) : Compatible(request[pending[i]], r)

\* Steps that only take entries away.
LEMMA ShorterQueue ==
  ASSUME IInv, IInv', LengthInv, UNCHANGED <<policy, request>>,
         pending' = pending \/ Len(pending') < Len(pending)
  PROVE  LengthInv'
<1>1. Len(pending) \in Nat /\ Len(pending') \in Nat
  BY DEF IInv, TypeOK
<1>2. CASE pending' = pending
  BY <1>2 DEF LengthInv, QueueBounded
<1>3. CASE Len(pending') < Len(pending)
  BY <1>1, <1>3 DEF LengthInv, QueueBounded
<1> QED BY <1>2, <1>3

LEMMA LengthStep == IInv /\ IInv' /\ LengthInv /\ [Next]_vars => LengthInv'
<1> SUFFICES ASSUME IInv, IInv', LengthInv, [Next]_vars PROVE LengthInv'
  OBVIOUS
<1>1. /\ pending \in Seq(Calls) /\ Len(pending) \in Nat
      /\ request \in [Calls -> Request] /\ request' \in [Calls -> Request]
      /\ policy \in Policies
  BY DEF IInv, TypeOK
<1>2. CASE Quiet \/ RefreshGoesOn
  BY <1>2, ShorterQueue DEF Quiet, RefreshGoesOn
<1>3. CASE Serves
  BY <1>1, <1>3, HeadTailProperties, ShorterQueue DEF Serves
<1>4. CASE pending' = <<>> /\ Stops("SHUTDOWN")
  <2>1. pending' = pending \/ Len(pending') < Len(pending)
    BY <1>1, <1>4, EmptySeq
  <2> QED BY <1>4, <2>1, ShorterQueue DEF Stops
<1>5. ASSUME NEW c \in Calls, Abandon(c) PROVE LengthInv'
  <2>1. UNCHANGED <<policy, request>>
    BY <1>5 DEF Abandon
  <2>2. pending' = pending \/ \E i \in 1..Len(pending) : pending' = Without(pending, i)
    BY <1>5 DEF Abandon, AbandonQueued, AbandonActive, AbandonNothing
  <2>3. pending' = pending \/ Len(pending') < Len(pending)
    BY <1>1, <2>2, WithoutProperties
  <2> QED BY <2>1, <2>3, ShorterQueue
<1>6. ASSUME NEW c \in Calls, NEW r \in Requests[policy], NEW kind, Join(c, r, kind)
      PROVE  LengthInv'
  <2>1. PICK i \in 1..Len(pending) :
          /\ policy = "COALESCE" /\ Compatible(request[pending[i]], r)
          /\ request' = [request EXCEPT ![pending[i]] = Merged(@, r)]
    BY <1>6 DEF Join, Joinable, Absorbs
  <2>2. pending' = pending /\ policy' = policy
    BY <1>6 DEF Join
  <2>3. r \in Request /\ pending[i] \in Calls
    BY <1>1, RequestFacts
  <2>4. ASSUME Len(pending) = 2, NEW x \in Request
        PROVE  \E j \in 1..Len(pending) : Compatible(request'[pending[j]], x)
    <3>1. PICK j \in 1..Len(pending) : Compatible(request[pending[j]], x)
      BY <2>1, <2>4 DEF LengthInv
    <3>2. pending[j] \in Calls
      BY <1>1
    <3>3. CASE pending[j] = pending[i]
      BY <1>1, <2>1, <2>3, <3>1, <3>3, CompatibleGrows
    <3>4. CASE pending[j] # pending[i]
      BY <1>1, <2>1, <3>1, <3>2, <3>4
    <3> QED BY <3>3, <3>4
  <2> QED BY <2>2, <2>4 DEF LengthInv, QueueBounded
<1>7. ASSUME NEW c \in Calls, NEW r \in Requests[policy], NEW kind, call[c] = "idle",
             Enqueue(c, r, kind)
      PROVE  LengthInv'
  <2>1. /\ policy' = policy /\ pending' = Append(pending, c)
        /\ request' = [request EXCEPT ![c] = r]
        /\ policy \in {"COALESCE", "QUEUE"} \/ ~Busy
        /\ \A i \in 1..Len(pending) : ~Absorbs(i, r)
    BY <1>7 DEF Enqueue, Queue, NewEntry, Joinable
  <2>2. /\ Len(pending') = Len(pending) + 1
        /\ \A i \in 1..Len(pending) : pending'[i] = pending[i]
        /\ pending'[Len(pending) + 1] = c
    BY <1>1, <2>1, AppendProperties
  <2>3. r \in Request /\ c \notin Queued
    BY <1>1, <1>7, RequestFacts, IdleCallIsFresh
  <2>4. CASE policy \in {"SKIP_IF_RUNNING", "CANCEL_PREVIOUS"}
    <3>1. Len(pending) = 0
      BY <2>1, <2>4, EmptySeq DEF Busy
    <3> QED BY <2>1, <2>2, <2>4, <3>1 DEF LengthInv, QueueBounded
  <2>5. CASE policy = "COALESCE"
    <3>1. ASSUME NEW i \in 1..Len(pending), \A j \in 1..(i - 1) : ~Compatible(request[pending[j]], r)
          PROVE  ~Compatible(request[pending[i]], r)
      BY <2>1, <2>5, <3>1 DEF Absorbs, Joinable
    <3>2. Len(pending) = 0 \/ Len(pending) = 1 \/ Len(pending) = 2
      <4>1. Len(pending) \in Nat /\ Len(pending) <= 2
        BY <1>1, <2>5 DEF LengthInv, QueueBounded
      <4>2. \A n \in Nat : n <= 2 => n = 0 \/ n = 1 \/ n = 2
        OBVIOUS
      <4> QED BY <4>1, <4>2
    <3>3. Len(pending) # 2
      <4> SUFFICES ASSUME Len(pending) = 2 PROVE FALSE
        OBVIOUS
      <4>1. ~Compatible(request[pending[1]], r)
        BY <3>1
      <4>2. ~Compatible(request[pending[2]], r)
        BY <3>1, <4>1
      <4>3. PICK i \in 1..Len(pending) : Compatible(request[pending[i]], r)
        BY <2>3, <2>5 DEF LengthInv
      <4>4. i = 1 \/ i = 2
        BY <4>3
      <4> QED BY <4>1, <4>2, <4>3, <4>4
    <3>4. CASE Len(pending) = 0
      BY <2>1, <2>2, <2>5, <3>4 DEF LengthInv, QueueBounded
    <3>5. CASE Len(pending) = 1
      <4>1. /\ pending[1] \in Calls /\ pending[1] # c
            /\ pending'[1] = pending[1] /\ pending'[2] = c /\ Len(pending') = 2
        <5>1. 1 \in 1..Len(pending) /\ Len(pending) + 1 = 2
          BY <3>5
        <5>2. pending[1] \in Queued
          BY <5>1 DEF Queued, Members
        <5> QED BY <1>1, <2>2, <2>3, <5>1, <5>2
      <4>2. ~Compatible(request[pending[1]], r)
        BY <3>1, <3>5
      <4>3. request'[pending'[1]] = request[pending[1]] /\ request'[pending'[2]] = r
        BY <1>1, <2>1, <4>1
      <4>4. \A x \in Request : \E i \in 1..2 : Compatible(request'[pending'[i]], x)
        <5> SUFFICES ASSUME NEW x \in Request
                     PROVE  \E i \in {1, 2} : Compatible(request'[pending'[i]], x)
          OBVIOUS
        <5>1. Compatible(request[pending[1]], x) \/ Compatible(r, x)
          BY <1>1, <2>3, <4>1, <4>2, TwoTakeAll
        <5> QED BY <4>3, <5>1
      <4> QED BY <2>1, <2>5, <4>1, <4>4 DEF LengthInv, QueueBounded
    <3> QED BY <3>2, <3>3, <3>4, <3>5
  <2>6. CASE policy \notin {"COALESCE", "SKIP_IF_RUNNING", "CANCEL_PREVIOUS"}
    BY <2>1, <2>6 DEF LengthInv, QueueBounded
  <2> QED BY <2>4, <2>5, <2>6
<1>8. ASSUME NEW c \in Calls, NEW r, NEW kind, Supersede(c, r, kind) PROVE LengthInv'
  <2>1. policy' = policy /\ policy = "CANCEL_PREVIOUS" /\ pending' = <<c>>
    BY <1>8 DEF Supersede
  <2> QED BY <2>1 DEF LengthInv, QueueBounded
<1> QED BY <1>2, <1>3, <1>4, <1>5, <1>6, <1>7, <1>8, StepCases

LEMMA LengthAlways == Spec => []LengthInv
<1>1. Init => LengthInv
  BY DEF Init, LengthInv, QueueBounded
<1> QED BY <1>1, LengthStep, InductiveInvariant, PTL DEF Spec

\* The queue stays short under every policy but QUEUE (_absorb, submit).
THEOREM QueueIsBounded == Spec => []QueueBounded
<1>1. LengthInv => QueueBounded
  BY DEF LengthInv
<1> QED BY <1>1, LengthAlways, PTL

----------------------------------------------------------------------------
(* CANCEL_PREVIOUS                                                          *)

LEMMA NewestStep ==
  IInv /\ IInv' /\ LengthInv /\ NewestWins /\ [Next]_vars => NewestWins'
<1> SUFFICES ASSUME IInv, IInv', LengthInv, NewestWins, [Next]_vars,
                    policy' = "CANCEL_PREVIOUS", pending' # <<>>,
                    NEW e \in Calls, task'[e] \in Live
             PROVE  cancel'[e] # "no"
  BY DEF NewestWins
<1>1. /\ pending \in Seq(Calls) /\ Len(pending) \in Nat
      /\ cancel \in [Calls -> {"no", "asked", "absorbed"}]
  BY SMTT(60) DEF IInv, TypeOK
<1>2. CASE Quiet \/ RefreshGoesOn
  BY <1>2 DEF Quiet, RefreshGoesOn, NewestWins
<1>3. CASE Serves
  <2>1. Len(pending) <= 1
    BY <1>3 DEF Serves, LengthInv, QueueBounded
  <2>2. pending # <<>> /\ pending' = Tail(pending)
    BY <1>3 DEF Serves
  <2>3. Len(pending') = 0 /\ pending' \in Seq(Calls)
    BY <1>1, <2>1, <2>2, EmptySeq, HeadTailProperties
  <2> QED BY <2>3, EmptySeq
<1>4. CASE pending' = <<>> /\ Stops("SHUTDOWN")
  BY <1>4
<1>5. ASSUME NEW c \in Calls, Abandon(c) PROVE cancel'[e] # "no"
  <2>1. policy = "CANCEL_PREVIOUS" /\ pending # <<>> /\ task' = task
    <3>1. pending' = pending \/ \E i \in 1..Len(pending) : pending' = Without(pending, i)
      BY <1>5 DEF Abandon, AbandonQueued, AbandonActive, AbandonNothing
    <3>2. pending = <<>> => Len(pending) = 0
      BY EmptySeq
    <3> QED BY <1>1, <1>5, <3>1, <3>2 DEF Abandon
  <2>2. cancel[e] # "no"
    BY <2>1 DEF NewestWins
  <2> QED
    BY <1>1, <1>5, <2>2
    DEF Abandon, AbandonQueued, AbandonActive, AbandonNothing, CancelActive
<1>6. ASSUME NEW c \in Calls, NEW r, NEW kind, Join(c, r, kind) PROVE FALSE
  BY <1>6 DEF Join, Absorbs
<1>7. ASSUME NEW c \in Calls, NEW r, NEW kind, Enqueue(c, r, kind) PROVE FALSE
  <2>1. active = NoCall /\ task' = task
    BY <1>7 DEF Enqueue, Busy, taskVars
  <2> QED BY <2>1, NoCallAssumption DEF IInv, TaskInv
<1>8. ASSUME NEW c \in Calls, NEW r, NEW kind, Supersede(c, r, kind) PROVE cancel'[e] # "no"
  <2>1. CancelActive("SUPERSEDED") /\ task' = task
    BY <1>8 DEF Supersede
  <2>2. e = active
    BY <2>1 DEF IInv, TaskInv
  <2> QED BY <1>1, <2>1, <2>2, NoCallAssumption DEF CancelActive
<1> QED BY <1>2, <1>3, <1>4, <1>5, <1>6, <1>7, <1>8, StepCases

\* CANCEL_PREVIOUS: whatever runs while a newer request is queued was told to
\* stop (_cancel_all).
THEOREM NewestWinsHolds == Spec => []NewestWins
<1>1. Init => NewestWins
  BY DEF Init, NewestWins
<1> QED BY <1>1, NewestStep, LengthAlways, InductiveInvariant, PTL DEF Spec

----------------------------------------------------------------------------
(* Abandonment                                                              *)

\* An entry is queued as long as somebody waits for it, and only one that was
\* started is cancelled as abandoned.
AbandonedInv ==
    /\ CancelledWhenAbandoned
    /\ \A e \in Queued : waiters[e] # {}
    /\ \A e \in Calls : reason[e] = "ABANDONED" => task[e] # "none"

LEMMA AbandonedStep == IInv /\ IInv' /\ AbandonedInv /\ [Next]_vars => AbandonedInv'
<1> SUFFICES ASSUME IInv, IInv', AbandonedInv, [Next]_vars PROVE AbandonedInv'
  OBVIOUS
<1>1. /\ pending \in Seq(Calls) /\ Queued \subseteq Calls
      /\ waiters \in [Calls -> SUBSET Calls] /\ reason \in [Calls -> Reasons]
      /\ cancel \in [Calls -> {"no", "asked", "absorbed"}] /\ task \in [Calls -> Tasks]
  BY SMTT(60) DEF IInv, TypeOK, Queued, Members
<1>2. CASE Quiet \/ RefreshGoesOn
  <2>1. UNCHANGED <<reason, waiters>> /\ Queued' = Queued
    BY <1>2 DEF Quiet, RefreshGoesOn, Queued
  <2>2. \A e \in Calls : /\ task'[e] \in Live => task[e] \in Live
                         /\ task'[e] = "none" <=> task[e] = "none"
                         /\ cancel[e] # "no" => cancel'[e] # "no"
    BY <1>2 DEF Quiet, RefreshGoesOn
  <2> QED BY <2>1, <2>2 DEF AbandonedInv, CancelledWhenAbandoned
<1>3. CASE Serves
  <2>1. UNCHANGED <<cancel, reason, waiters>>
    BY <1>3 DEF Serves
  <2>2. CASE pending = <<>> /\ pending' = <<>> /\ task' = task
    BY <2>1, <2>2 DEF AbandonedInv, CancelledWhenAbandoned, Queued
  <2>3. CASE /\ pending # <<>> /\ pending' = Tail(pending)
             /\ task' = [task EXCEPT ![Head(pending)] = "created"]
    <3>1. Queued = {Head(pending)} \cup Queued'
      BY <1>1, <2>3, TailMembers DEF Queued
    <3>2. waiters[Head(pending)] # {}
      BY <3>1 DEF AbandonedInv
    <3>3. \A e \in Calls : /\ task'[e] \in Live => task[e] \in Live \/ e = Head(pending)
                           /\ task'[e] = "none" => task[e] = "none"
      BY <1>1, <2>3
    <3>4. \A e \in Calls : task[e] # "none" => task'[e] # "none"
      BY <3>3
    <3> QED BY <2>1, <3>1, <3>2, <3>3, <3>4 DEF AbandonedInv, CancelledWhenAbandoned
  <2> QED BY <1>3, <2>2, <2>3 DEF Serves
<1>4. CASE pending' = <<>> /\ Stops("SHUTDOWN")
  <2>1. Queued' = {}
    BY <1>4 DEF Queued, Members
  <2> QED BY <1>4, <2>1 DEF Stops, AbandonedInv, CancelledWhenAbandoned
<1>5. ASSUME NEW c \in Calls, Abandon(c) PROVE AbandonedInv'
  <2>1. task' = task
    BY <1>5 DEF Abandon
  <2>2. CASE \E i \in 1..Len(pending) : AbandonQueued(c, i)
    <3>1. PICK i \in 1..Len(pending) : AbandonQueued(c, i)
      BY <2>2
    <3> DEFINE e == pending[i]
    <3>2. /\ e \in Queued /\ c \in waiters[e]
          /\ waiters' = [waiters EXCEPT ![e] = @ \ {c}]
          /\ pending' = IF waiters[e] = {c} THEN Without(pending, i) ELSE pending
          /\ UNCHANGED <<cancel, reason>>
      BY <3>1 DEF AbandonQueued, Queued, Members
    <3>3. e \in Calls /\ task[e] = "none"
      BY <1>1, <3>2 DEF IInv, QueueInv
    <3>4. \A d \in Queued' : d \in Queued /\ (d = e => waiters[e] # {c})
      <4>1. CASE waiters[e] = {c}
        <5>1. Queued' = Queued \ {e}
          BY <1>1, <3>2, <4>1, WithoutMembers DEF IInv, QueueInv, Queued
        <5> QED BY <5>1
      <4>2. CASE waiters[e] # {c}
        BY <3>2, <4>2 DEF Queued
      <4> QED BY <4>1, <4>2
    <3> HIDE DEF e
    <3>5. \A d \in Calls : d # e => waiters'[d] = waiters[d]
      BY <1>1, <3>2, <3>3
    <3>6. waiters[e] # {c} => waiters'[e] # {}
      BY <1>1, <3>2, <3>3
    <3>7. e \in Calls /\ task[e] \notin Live
      BY <3>3 DEF Live
    <3>8. \A d \in Calls : waiters[d] = {} => waiters'[d] = {}
      BY <1>1, <3>2, <3>3, <3>5
    <3>9. CancelledWhenAbandoned'
      BY <2>1, <3>2, <3>5, <3>7, <3>8 DEF AbandonedInv, CancelledWhenAbandoned
    <3>10. \A d \in Queued' : waiters'[d] # {}
      BY <1>1, <3>4, <3>5, <3>6 DEF AbandonedInv
    <3> QED BY <2>1, <3>2, <3>9, <3>10 DEF AbandonedInv
  <2>3. CASE AbandonActive(c)
    <3>1. /\ active \in Calls /\ c \in waiters[active] /\ c \notin UNION {waiters[d] : d \in Queued}
          /\ waiters' = [waiters EXCEPT ![active] = @ \ {c}] /\ pending' = pending
          /\ IF waiters[active] = {c} THEN CancelActive("ABANDONED")
                                      ELSE UNCHANGED <<cancel, reason>>
      BY <2>3 DEF AbandonActive
    <3>2. task[active] # "none"
      BY <3>1, NoCallAssumption DEF IInv, TaskInv
    <3>3. Queued' = Queued /\ active \notin Queued
      BY <3>1, <3>2 DEF Queued, IInv, QueueInv
    <3>4. \A d \in Calls : d # active =>
             waiters'[d] = waiters[d] /\ cancel'[d] = cancel[d] /\ reason'[d] = reason[d]
      BY <1>1, <3>1 DEF CancelActive
    <3>5. waiters'[active] = waiters[active] \ {c}
      BY <1>1, <3>1
    <3>6. reason[active] # "ABANDONED"
      BY <3>1 DEF AbandonedInv, CancelledWhenAbandoned
    <3>7. /\ reason'[active] = "ABANDONED" => waiters'[active] = {}
          /\ task[active] \in Live /\ waiters'[active] = {} => cancel'[active] # "no"
      <4>1. CASE waiters[active] = {c}
        BY <1>1, <3>1, <3>5, <3>6, <4>1, NoCallAssumption DEF CancelActive
      <4>2. CASE waiters[active] # {c}
        BY <3>1, <3>5, <3>6, <4>2
      <4> QED BY <4>1, <4>2
    <3>8. CancelledWhenAbandoned'
      BY <2>1, <3>4, <3>7 DEF AbandonedInv, CancelledWhenAbandoned
    <3>9. \A d \in Queued : waiters'[d] # {}
      BY <1>1, <3>3, <3>4 DEF AbandonedInv
    <3>10. \A d \in Calls : reason'[d] = "ABANDONED" => task[d] # "none"
      BY <3>2, <3>4 DEF AbandonedInv
    <3> QED BY <2>1, <3>3, <3>8, <3>9, <3>10 DEF AbandonedInv
  <2>4. CASE AbandonNothing(c)
    BY <2>1, <2>4 DEF AbandonNothing, AbandonedInv, CancelledWhenAbandoned, Queued
  <2> QED BY <1>5, <2>2, <2>3, <2>4 DEF Abandon
<1>6. ASSUME NEW c \in Calls, NEW r, NEW kind, Join(c, r, kind) PROVE AbandonedInv'
  <2>1. PICK i \in 1..Len(pending) : waiters' = [waiters EXCEPT ![pending[i]] = @ \cup {c}]
    BY <1>6 DEF Join, Joinable
  <2>2. UNCHANGED <<pending, task, cancel, reason>>
    BY <1>6 DEF Join, taskVars
  <2>3. pending[i] \in Queued /\ pending[i] \in Calls
    BY <1>1 DEF Queued, Members
  <2>4. task[pending[i]] = "none" /\ task[pending[i]] \notin Live
    BY <2>3 DEF IInv, QueueInv, Live
  <2>5. \A d \in Calls : /\ waiters'[d] = {} => waiters[d] = {}
                         /\ task[d] # "none" => waiters'[d] = waiters[d]
    BY <1>1, <2>1, <2>3, <2>4
  <2>6. Queued' = Queued
    BY <2>2 DEF Queued
  <2> QED BY <1>1, <2>2, <2>5, <2>6 DEF AbandonedInv, CancelledWhenAbandoned
<1>7. ASSUME NEW c \in Calls, NEW r, NEW kind, call[c] = "idle",
             Enqueue(c, r, kind) \/ Supersede(c, r, kind)
      PROVE  AbandonedInv'
  <2>1. waiters' = [waiters EXCEPT ![c] = {c}] /\ task' = task
    BY <1>7 DEF Enqueue, Supersede, NewEntry, taskVars
  <2>2. task[c] = "none" /\ c \notin Queued /\ c # active
    BY <1>7, IdleCallIsFresh
  <2>3. Queued' \subseteq Queued \cup {c}
    <3>1. pending' = Append(pending, c) \/ pending' = <<c>>
      BY <1>7 DEF Enqueue, Supersede, Queue
    <3>2. Members(Append(pending, c)) = Members(pending) \cup {c}
      BY <1>1, AppendMembers
    <3>3. Members(<<c>>) = {c}
      BY DEF Members
    <3> QED BY <3>1, <3>2, <3>3 DEF Queued
  <2>4. \A d \in Calls : /\ cancel[d] # "no" => cancel'[d] # "no"
                         /\ reason'[d] = reason[d] \/ reason'[d] = "SUPERSEDED"
    BY <1>1, <1>7 DEF Enqueue, Supersede, CancelActive, taskVars
  <2>5. \A d \in Calls : d # c => waiters'[d] = waiters[d]
    BY <1>1, <2>1
  <2>6. waiters'[c] = {c} /\ task[c] \notin Live /\ reason[c] # "ABANDONED"
    BY <1>1, <1>7, <2>1, <2>2 DEF AbandonedInv, Live
  <2>7. \A d \in Queued' : waiters'[d] # {}
    BY <1>1, <2>3, <2>5, <2>6 DEF AbandonedInv
  <2>8. CancelledWhenAbandoned'
    BY <2>1, <2>4, <2>5, <2>6 DEF AbandonedInv, CancelledWhenAbandoned
  <2>9. \A d \in Calls : reason'[d] = "ABANDONED" => task'[d] # "none"
    BY <2>1, <2>4 DEF AbandonedInv
  <2> QED BY <2>7, <2>8, <2>9 DEF AbandonedInv
<1> QED BY <1>2, <1>3, <1>4, <1>5, <1>6, <1>7, StepCases

\* A refresh is cancelled as abandoned exactly when nobody waits for it
\* (_abandon).
THEOREM AbandonedIsCancelled == Spec => []CancelledWhenAbandoned
<1>1. Init => AbandonedInv
  BY DEF Init, AbandonedInv, CancelledWhenAbandoned, Queued, Members, Live
<1>2. AbandonedInv => CancelledWhenAbandoned
  BY DEF AbandonedInv
<1> QED BY <1>1, <1>2, AbandonedStep, InductiveInvariant, PTL DEF Spec

----------------------------------------------------------------------------
(* How often the end of a refresh is announced                              *)

\* Nothing was announced of an entry that is not queued yet, is queued or runs,
\* nor of one that ended cancelled without a word, until the worker looks at it.
Silent(e) ==
    \/ call[e] = "idle" \/ e \in Queued \/ task[e] \in Live
    \/ task[e] = "cancelled" /\ ~reported[e] /\ active = e

\* The pipeline announced the end itself.
Said(e) == task[e] \in {"returned", "closedItself"} \/ reported[e]

CountInv ==
    \A e \in Calls :
        /\ Silent(e) => terminal[e] = 0
        /\ Said(e) => terminal[e] >= 1
        /\ task[e] # "closedItself" => terminal[e] <= 1

\* Nobody waits for two entries, and who has an answer was preceded by its
\* announcement.
AnswerInv ==
    \A e \in Calls : \A c \in waiters[e] :
        /\ \A d \in Calls : c \in waiters[d] => d = e
        /\ future[c] \in {"result", "CANCELLED"} => terminal[e] >= 1

\* A step that announces the entries of es, and what it may do to the others.
Counts(es) ==
    \A e \in Calls :
        /\ terminal'[e] = terminal[e] + (IF e \in es THEN 1 ELSE 0)
        /\ e \in es => Silent(e) \/ task'[e] = "closedItself"
        /\ Silent(e)' => Silent(e) /\ e \notin es
        /\ Said(e)' => Said(e) \/ e \in es
        /\ task[e] = "closedItself" => task'[e] = "closedItself"

\* The same step, as the callers see it: one entry at most gets a new waiter,
\* and an answer comes from an entry that was or is announced.
Answers(es) ==
    /\ \E d \in Calls :
         /\ \A e \in Calls \ {d} : waiters'[e] \subseteq waiters[e]
         /\ \A c \in waiters'[d] :
              c \in waiters[d] \/ (call[c] = "idle" /\ future'[c] = "pending")
    /\ \A c \in Calls : future'[c] \in {"result", "CANCELLED"} =>
         \/ future'[c] = future[c]
         \/ \E e \in Calls :
              /\ c \in waiters[e]
              /\ e \in es \/ Said(e)

LEMMA CountStep ==
  ASSUME IInv, IInv', CountInv, NEW es, Counts(es)
  PROVE  CountInv' /\ \A e \in Calls : terminal'[e] >= terminal[e]
<1>1. \A e \in Calls : terminal[e] \in Nat
  BY DEF IInv, TypeOK
<1> SUFFICES ASSUME NEW e \in Calls
             PROVE  /\ Silent(e)' => terminal'[e] = 0
                    /\ Said(e)' => terminal'[e] >= 1
                    /\ task'[e] # "closedItself" => terminal'[e] <= 1
                    /\ terminal'[e] >= terminal[e]
  BY DEF CountInv
<1>2. CASE e \in es
  <2>1. terminal[e] \in Nat /\ terminal'[e] = terminal[e] + 1 /\ ~Silent(e)'
    BY <1>1, <1>2 DEF Counts
  <2>2. task'[e] # "closedItself" => terminal[e] = 0
    BY <1>2 DEF Counts, CountInv
  <2> QED BY <2>1, <2>2
<1>3. CASE e \notin es
  <2>1. terminal[e] \in Nat /\ terminal'[e] = terminal[e]
    BY <1>1, <1>3 DEF Counts
  <2>2. /\ Silent(e)' => Silent(e)
        /\ Said(e)' => Said(e)
        /\ task'[e] # "closedItself" => task[e] # "closedItself"
    BY <1>3 DEF Counts
  <2> QED BY <2>1, <2>2 DEF CountInv
<1> QED BY <1>2, <1>3

LEMMA AnswerStep ==
  ASSUME IInv, IInv', CountInv, AnswerInv, NEW es, Counts(es), Answers(es)
  PROVE  AnswerInv'
<1>1. /\ \A e \in Calls : terminal[e] \in Nat /\ terminal'[e] \in Nat
      /\ \A e \in Calls : terminal'[e] >= terminal[e]
      /\ \A e \in Calls : waiters[e] \subseteq Calls /\ waiters'[e] \subseteq Calls
  BY CountStep DEF IInv, TypeOK
<1>2. PICK n \in Calls :
        /\ \A e \in Calls \ {n} : waiters'[e] \subseteq waiters[e]
        /\ \A c \in waiters'[n] :
             c \in waiters[n] \/ (call[c] = "idle" /\ future'[c] = "pending")
  BY DEF Answers
<1>3. \A c \in Calls : call[c] = "idle" => \A e \in Calls : c \notin waiters[e]
  BY IdleCallIsFresh
<1> SUFFICES ASSUME NEW e \in Calls, NEW c \in waiters'[e]
             PROVE  /\ \A d \in Calls : c \in waiters'[d] => d = e
                    /\ future'[c] \in {"result", "CANCELLED"} => terminal'[e] >= 1
  BY DEF AnswerInv
<1>4. c \in Calls
  BY <1>1
<1>5. CASE c \in waiters[e]
  <2>1. call[c] # "idle"
    BY <1>3, <1>4, <1>5
  <2>2. \A d \in Calls : c \in waiters'[d] => c \in waiters[d]
    BY <1>2, <2>1
  <2>3. \A d \in Calls : c \in waiters[d] => d = e
    BY <1>5 DEF AnswerInv
  <2>4. ASSUME future'[c] \in {"result", "CANCELLED"} PROVE terminal'[e] >= 1
    <3>1. CASE future'[c] = future[c]
      BY <1>1, <1>5, <2>4, <3>1 DEF AnswerInv
    <3>2. CASE future'[c] # future[c]
      <4>1. e \in es \/ Said(e)
        BY <1>4, <2>3, <2>4, <3>2 DEF Answers
      <4>2. CASE e \in es
        BY <1>1, <4>2 DEF Counts
      <4>3. CASE Said(e)
        BY <1>1, <4>3 DEF CountInv
      <4> QED BY <4>1, <4>2, <4>3
    <3> QED BY <3>1, <3>2
  <2> QED BY <2>2, <2>3, <2>4
<1>6. CASE c \notin waiters[e]
  <2>1. e = n /\ call[c] = "idle" /\ future'[c] = "pending"
    BY <1>2, <1>6
  <2>2. \A d \in Calls : c \in waiters'[d] => d = n
    BY <1>2, <1>3, <1>4, <2>1
  <2> QED BY <2>1, <2>2
<1> QED BY <1>5, <1>6

\* The end of _cancel_all: whoever it answers waits for a queued entry.
LEMMA QueueAnswers ==
  ASSUME IInv, NEW c \in Calls, QueueCancelled[c] # future[c]
  PROVE  \E e \in Queued : c \in waiters[e]
BY DEF QueueCancelled, Settled
\* Steps that announce nothing and answer nobody.
LEMMA PlainStep ==
  ASSUME IInv, IInv', UNCHANGED <<terminal, reported>>,
         \A e \in Calls :
            /\ call'[e] = "idle" => call[e] = "idle"
            /\ e \in Queued' => e \in Queued \/ call[e] = "idle"
            /\ task'[e] \in Live => task[e] \in Live \/ e \in Queued
            /\ task'[e] = "returned" => task[e] = "returned"
            /\ task'[e] = "closedItself" <=> task[e] = "closedItself"
            /\ task'[e] = "cancelled" /\ active' = e =>
                 task[e] \in Live \/ (task[e] = "cancelled" /\ active = e)
  PROVE  Counts({})
<1>1. \A e \in Calls : terminal[e] \in Nat /\ terminal'[e] = terminal[e]
  BY DEF IInv, TypeOK
<1>2. \A e \in Calls : terminal'[e] = terminal[e] + (IF e \in {} THEN 1 ELSE 0)
  BY <1>1
<1>3. \A e \in Calls : (Silent(e)' => Silent(e)) /\ (Said(e)' => Said(e))
  BY DEF Silent, Said
<1> QED BY <1>2, <1>3 DEF Counts

LEMMA SameWaiters ==
  ASSUME IInv, waiters' = waiters, NEW es,
         \A c \in Calls : future'[c] \in {"result", "CANCELLED"} =>
           \/ future'[c] = future[c]
           \/ \E e \in Calls :
                /\ c \in waiters[e]
                /\ e \in es \/ Said(e),
         Calls # {}
  PROVE  Answers(es)
BY DEF Answers

\* Only the waiters of d may grow, by callers that wait for nothing yet.
LEMMA OneGrows ==
  ASSUME NEW es, NEW d \in Calls,
         \A e \in Calls \ {d} : waiters'[e] \subseteq waiters[e],
         \A c \in waiters'[d] : c \in waiters[d] \/ (call[c] = "idle" /\ future'[c] = "pending"),
         \A c \in Calls : future'[c] \in {"result", "CANCELLED"} =>
           \/ future'[c] = future[c]
           \/ \E e \in Calls :
                /\ c \in waiters[e]
                /\ e \in es \/ Said(e)
  PROVE  Answers(es)
BY DEF Answers

LEMMA SubmitCounts ==
  ASSUME IInv, IInv', NEW c \in Calls, Submit(c)
  PROVE  \E es : Counts(es) /\ Answers(es)
<1>1. /\ call[c] = "idle" /\ c \notin Queued /\ task[c] = "none"
      /\ \A e \in Calls : c \notin waiters[e]
  BY IdleCallIsFresh DEF Submit
<1>2. /\ pending \in Seq(Calls) /\ call \in [Calls -> Statuses]
      /\ future \in [Calls -> Futures] /\ task \in [Calls -> Tasks]
      /\ terminal \in [Calls -> Nat] /\ waiters \in [Calls -> SUBSET Calls]
      /\ QueueCancelled \in [Calls -> Futures]
  BY QueueCancelledType DEF IInv, TypeOK
<1>3. PICK kind \in Kinds :
        \/ Refuse(c, kind)
        \/ Skip(c, kind)
        \/ \E r \in Requests[policy] :
             Join(c, r, kind) \/ Enqueue(c, r, kind) \/ Supersede(c, r, kind)
  BY DEF Submit
<1>4. CASE Refuse(c, kind)
  <2>1. /\ UNCHANGED <<terminal, reported, task, active, waiters, future, pending>>
        /\ call' = [call EXCEPT ![c] = "refused"]
    BY <1>4 DEF Refuse, taskVars, entryVars
  <2>2. Counts({})
    BY <1>2, <2>1, PlainStep DEF Queued
  <2>3. Answers({})
    BY <2>1, SameWaiters
  <2> QED BY <2>2, <2>3
<1>5. CASE Skip(c, kind)
  <2>1. /\ UNCHANGED <<reported, task, active, waiters, future, pending>>
        /\ call' = [call EXCEPT ![c] = "skipped"] /\ Announce({c})
    BY <1>5 DEF Skip, taskVars, entryVars
  <2>2. Counts({c})
    BY <1>1, <1>2, <2>1 DEF Counts, Announce, Queued, Silent, Said, Live
  <2>3. Answers({c})
    BY <2>1, SameWaiters
  <2> QED BY <2>2, <2>3
<1>6. ASSUME NEW r \in Requests[policy], Join(c, r, kind)
      PROVE  Counts({}) /\ Answers({})
  <2>1. /\ UNCHANGED <<terminal, reported, task, active, pending>>
        /\ call' = [call EXCEPT ![c] = "waiting"]
        /\ future' = [future EXCEPT ![c] = "pending"]
    BY <1>6 DEF Join, Await, taskVars
  <2>2. PICK i \in 1..Len(pending) : waiters' = [waiters EXCEPT ![pending[i]] = @ \cup {c}]
    BY <1>6 DEF Join, Joinable
  <2>3. pending[i] \in Calls
    BY <1>2
  <2>4. Counts({})
    BY <1>2, <2>1, PlainStep DEF Queued
  <2>5. Answers({})
    <3>1. /\ \A e \in Calls \ {pending[i]} : waiters'[e] = waiters[e]
          /\ waiters'[pending[i]] = waiters[pending[i]] \cup {c}
      BY <1>2, <2>2, <2>3
    <3>2. future'[c] = "pending" /\ \A x \in Calls \ {c} : future'[x] = future[x]
      BY <1>2, <2>1
    <3> QED BY <1>1, <2>3, <3>1, <3>2, OneGrows
  <2> QED BY <2>4, <2>5
<1>7. ASSUME NEW r \in Requests[policy], Enqueue(c, r, kind)
      PROVE  Counts({}) /\ Answers({})
  <2>1. /\ UNCHANGED <<terminal, reported, task, active>>
        /\ pending' = Append(pending, c)
        /\ call' = [call EXCEPT ![c] = "waiting"]
        /\ future' = [future EXCEPT ![c] = "pending"]
        /\ waiters' = [waiters EXCEPT ![c] = {c}]
    BY <1>7 DEF Enqueue, Queue, NewEntry, Await, taskVars
  <2>2. Queued' = Queued \cup {c}
    BY <1>2, <2>1, AppendMembers DEF Queued
  <2>3. Counts({})
    BY <1>1, <1>2, <2>1, <2>2, PlainStep
  <2>4. Answers({})
    <3>1. \A e \in Calls \ {c} : waiters'[e] = waiters[e]
      BY <1>2, <2>1
    <3>2. waiters'[c] = {c} /\ future'[c] = "pending"
      BY <1>2, <2>1
    <3>3. \A x \in Calls \ {c} : future'[x] = future[x]
      BY <1>2, <2>1
    <3> QED BY <1>1, <3>1, <3>2, <3>3, OneGrows
  <2> QED BY <2>3, <2>4
<1>8. ASSUME NEW r \in Requests[policy], Supersede(c, r, kind)
      PROVE  Counts(Queued) /\ Answers(Queued)
  <2>1. /\ UNCHANGED <<reported, task, active>> /\ Announce(Queued)
        /\ pending' = <<c>>
        /\ call' = [call EXCEPT ![c] = "waiting"]
        /\ future' = [QueueCancelled EXCEPT ![c] = "pending"]
        /\ waiters' = [waiters EXCEPT ![c] = {c}]
    BY <1>8 DEF Supersede, NewEntry, Await
  <2>2. Queued' = {c}
    BY <2>1 DEF Queued, Members
  <2>3. \A e \in Queued : e \in Calls /\ task[e] = "none" /\ call[e] # "idle"
    BY <1>2 DEF IInv, QueueInv, Queued, Members
  <2>4. Counts(Queued)
    BY <1>1, <1>2, <2>1, <2>2, <2>3 DEF Counts, Announce, Silent, Said, Live
  <2>5. Answers(Queued)
    BY <1>1, <1>2, <2>1, <2>3, QueueAnswers DEF Answers
  <2> QED BY <2>4, <2>5
<1> QED BY <1>3, <1>4, <1>5, <1>6, <1>7, <1>8

LEMMA AbandonCounts ==
  ASSUME IInv, IInv', NEW c \in Calls, Abandon(c)
  PROVE  Counts({}) /\ Answers({})
<1>1. /\ pending \in Seq(Calls) /\ call \in [Calls -> Statuses]
      /\ waiters \in [Calls -> SUBSET Calls]
  BY DEF IInv, TypeOK
<1>2. /\ UNCHANGED <<terminal, reported, task, active, future>>
      /\ call' = [call EXCEPT ![c] = "cancelled"]
  BY DEF Abandon
<1>3. Queued' \subseteq Queued
  <2>1. pending' = pending \/ \E i \in 1..Len(pending) : pending' = Without(pending, i)
    BY DEF Abandon, AbandonQueued, AbandonActive, AbandonNothing
  <2>2. \A i \in 1..Len(pending) : Members(Without(pending, i)) \subseteq Members(pending)
    BY <1>1, WithoutMembers DEF IInv, QueueInv
  <2> QED BY <2>1, <2>2 DEF Queued
<1>4. \A e \in Calls : waiters'[e] \subseteq waiters[e]
  <2>1. \A i \in 1..Len(pending) : pending[i] \in Calls
    BY <1>1
  <2>2. \/ waiters' = waiters
        \/ \E d \in Calls : waiters' = [waiters EXCEPT ![d] = @ \ {c}]
    BY <2>1 DEF Abandon, AbandonQueued, AbandonActive, AbandonNothing
  <2> QED BY <1>1, <2>2
<1>5. Counts({})
  BY <1>1, <1>2, <1>3, PlainStep
<1> QED BY <1>2, <1>4, <1>5 DEF Answers

LEMMA WorkerCounts ==
  ASSUME IInv, IInv', NEW w \in Calls, WorkerStep(w)
  PROVE  \E es : Counts(es) /\ Answers(es)
<1>1. /\ pending \in Seq(Calls) /\ task \in [Calls -> Tasks] /\ terminal \in [Calls -> Nat]
      /\ future \in [Calls -> Futures] /\ reported \in [Calls -> BOOLEAN]
  BY DEF IInv, TypeOK
<1>2. /\ ServeNext(w) /\ UNCHANGED <<reported, waiters, call>>
  BY DEF WorkerStep, WorkerStarts, WorkerResumes, entryVars, callVars
<1>3. /\ Queued' \subseteq Queued
      /\ \A e \in Calls : \/ task'[e] = task[e]
                          \/ e \in Queued /\ task[e] = "none" /\ task'[e] = "created"
      /\ \A e \in Calls : active' = e => task'[e] = "created"
  <2>1. CASE pending = <<>>
    BY <1>2, <2>1, NoCallAssumption DEF ServeNext, Queued
  <2>2. CASE pending # <<>>
    <3>1. /\ pending' = Tail(pending) /\ task' = [task EXCEPT ![Head(pending)] = "created"]
          /\ active' = Head(pending)
      BY <1>2, <2>2 DEF ServeNext
    <3>2. Queued = {Head(pending)} \cup Queued'
      BY <1>1, <2>2, <3>1, TailMembers DEF Queued
    <3>3. task[Head(pending)] = "none"
      BY <3>2 DEF IInv, QueueInv
    <3> QED BY <1>1, <3>1, <3>2, <3>3
  <2> QED BY <2>1, <2>2
<1>4. CASE WorkerStarts(w)
  <2>1. UNCHANGED <<terminal, future>>
    BY <1>4 DEF WorkerStarts, callVars
  <2>2. Counts({})
    BY <1>2, <1>3, <2>1, PlainStep DEF Live
  <2>3. Answers({})
    BY <1>2, <2>1, SameWaiters
  <2> QED BY <2>2, <2>3
<1>5. CASE WorkerResumes(w)
  <2> DEFINE e == serving[w]
             es == Unannounced(e)
  <2>1. /\ task[e] \in Done /\ future' = Settled(future, waiters[e], Outcome(e))
        /\ Announce(es)
    BY <1>5 DEF WorkerResumes
  <2>2. e \in Calls
    BY <1>5 DEF WorkerResumes, IInv, TypeOK, WorkerInv
  <2>3. /\ task[e] # "none" /\ e \notin Queued /\ call[e] # "idle" /\ active = e
    BY <1>5, <2>1, <2>2 DEF Done, AsCancelled, IInv, QueueInv, TaskInv, WorkerInv, WorkerResumes
  <2>4. es = IF task[e] \in AsCancelled /\ ~reported[e] THEN {e} ELSE {}
    BY DEF Unannounced
  <2> HIDE DEF es, e
  <2>5. Counts(es)
    <3>1. \A d \in Calls : terminal'[d] = terminal[d] + (IF d \in es THEN 1 ELSE 0)
      BY <2>1 DEF Announce
    <3>2. ASSUME NEW d \in Calls
          PROVE  /\ task'[d] = "closedItself" <=> task[d] = "closedItself"
                 /\ Silent(d)' => Silent(d) /\ d \notin es
                 /\ Said(d)' => Said(d)
      <4>1. /\ call'[d] = call[d] /\ reported'[d] = reported[d]
            /\ d \in Queued' => d \in Queued
            /\ \/ task'[d] = task[d]
               \/ d \in Queued /\ task[d] = "none" /\ task'[d] = "created"
            /\ active' = d => task'[d] = "created"
        BY <1>2, <1>3
      <4>2. Said(d)' => Said(d)
        BY <4>1 DEF Said
      <4>3. Silent(d)' => Silent(d)
        BY <4>1 DEF Silent, Live
      <4>4. d \in es => d = e /\ task'[d] \in AsCancelled /\ ~(d \in Queued')
        BY <2>3, <2>4, <4>1
      <4>5. d \in es => ~Silent(d)'
        BY <2>3, <4>1, <4>4 DEF Silent, Live, AsCancelled
      <4> QED BY <4>1, <4>2, <4>3, <4>5
    <3>3. \A d \in Calls : d \in es => Silent(d) \/ task[d] = "closedItself"
      BY <2>3, <2>4 DEF Silent, AsCancelled
    <3> QED BY <3>1, <3>2, <3>3 DEF Counts
  <2>6. Answers(es)
    <3> SUFFICES ASSUME NEW c \in Calls, future'[c] \in {"result", "CANCELLED"},
                        future'[c] # future[c]
                 PROVE  \E d \in Calls :
                          /\ c \in waiters[d]
                          /\ d \in es \/ Said(d)
      BY <1>2, SameWaiters
    <3>1. c \in waiters[e] /\ future'[c] = Outcome(e)
      BY <1>1, <2>1 DEF Settled
    <3>2. task[e] = "returned" \/ task[e] \in AsCancelled
      BY <2>1, <3>1 DEF Outcome, Done, AsCancelled
    <3> QED BY <2>2, <2>4, <3>1, <3>2 DEF Said
  <2> QED BY <2>5, <2>6
<1> QED BY <1>4, <1>5 DEF WorkerStep

LEMMA RefreshCounts ==
  ASSUME IInv, IInv', NEW e \in Calls,
         RefreshStarts(e) \/ RefreshEnds(e) \/ RefreshAbsorbsCancel(e)
  PROVE  \E es : Counts(es) /\ Answers(es)
<1>1. /\ task \in [Calls -> Tasks] /\ terminal \in [Calls -> Nat]
      /\ reported \in [Calls -> BOOLEAN]
  BY DEF IInv, TypeOK
<1>2. UNCHANGED <<waiters, future, call, pending, active>>
  BY DEF RefreshStarts, RefreshEnds, RefreshNeverStarts, RefreshReturns, RefreshCancelled,
         RefreshRaises, RefreshAbsorbsCancel, RefreshUnchanged, entryVars, callVars
<1>3. Queued' = Queued
  BY <1>2 DEF Queued
<1>4. \A es : Answers(es)
  BY <1>2, SameWaiters
<1>5. CASE RefreshStarts(e) \/ RefreshNeverStarts(e) \/ RefreshRaises(e) \/ RefreshAbsorbsCancel(e)
  <2>1. UNCHANGED <<terminal, reported>>
    BY <1>5 DEF RefreshStarts, RefreshNeverStarts, RefreshRaises, RefreshAbsorbsCancel
  <2>2. \A d \in Calls :
           /\ task'[d] \in Live => task[d] \in Live
           /\ task'[d] = "returned" => task[d] = "returned"
           /\ task'[d] = "closedItself" <=> task[d] = "closedItself"
           /\ task'[d] = "cancelled" => task[d] \in Live \/ task[d] = "cancelled"
    BY <1>1, <1>5
    DEF RefreshStarts, RefreshNeverStarts, RefreshRaises, RefreshAbsorbsCancel, Live
  <2>3. Counts({})
    BY <1>2, <1>3, <2>1, <2>2, PlainStep
  <2> QED BY <1>4, <2>3
<1>6. CASE RefreshReturns(e) \/ RefreshCancelled(e)
  <2>1. /\ task[e] = "running" /\ Announce({e})
        /\ \/ task' = [task EXCEPT ![e] = "returned"] /\ reported' = reported
           \/ /\ task' = [task EXCEPT ![e] = "cancelled"]
              /\ reported' = [reported EXCEPT ![e] = TRUE]
    BY <1>6 DEF RefreshReturns, RefreshCancelled
  <2>2. e \notin Queued /\ call[e] # "idle"
    BY <2>1 DEF IInv, QueueInv, TaskInv
  <2>3. Counts({e})
    BY <1>1, <1>2, <1>3, <2>1, <2>2 DEF Counts, Announce, Silent, Said, Live
  <2> QED BY <1>4, <2>3
<1> QED BY <1>5, <1>6 DEF RefreshEnds

LEMMA CloseCounts ==
  ASSUME IInv, IInv', NEW k \in Closers,
         Close(k) \/ \E e \in Calls : RefreshClosesAndReturns(e, k), Calls # {}
  PROVE  \E es : Counts(es) /\ Answers(es)
<1>1. /\ task \in [Calls -> Tasks] /\ terminal \in [Calls -> Nat] /\ pending \in Seq(Calls)
      /\ reported \in [Calls -> BOOLEAN]
  BY DEF IInv, TypeOK
<1>2. \A e \in Queued : e \in Calls /\ task[e] = "none" /\ call[e] # "idle"
  BY <1>1 DEF IInv, QueueInv, Queued, Members
<1>3. UNCHANGED <<waiters, call, reported, active>>
  BY DEF Close, RefreshClosesAndReturns
<1>4. CASE UNCHANGED <<terminal, future, pending, task>>
  <2>1. Counts({})
    BY <1>3, <1>4, PlainStep DEF Queued
  <2> QED BY <1>3, <1>4, <2>1, SameWaiters
<1>5. CASE Announce(Queued) /\ future' = QueueCancelled /\ pending' = <<>> /\ task' = task
  <2>1. Queued' = {}
    BY <1>5 DEF Queued, Members
  <2>2. Counts(Queued)
    BY <1>1, <1>2, <1>3, <1>5, <2>1 DEF Counts, Announce, Silent, Said, Live
  <2>3. Answers(Queued)
    BY <1>2, <1>3, <1>5, QueueAnswers, SameWaiters
  <2> QED BY <2>2, <2>3
<1>6. ASSUME NEW e \in Calls, RefreshClosesAndReturns(e, k)
      PROVE  \E es : Counts(es) /\ Answers(es)
  <2>1. /\ task[e] = "running" /\ task' = [task EXCEPT ![e] = "closedItself"]
        /\ Announce(Queued \cup {e}) /\ future' = QueueCancelled /\ pending' = <<>>
    BY <1>6 DEF RefreshClosesAndReturns
  <2>2. Queued' = {} /\ e \notin Queued /\ call[e] # "idle"
    BY <2>1 DEF Queued, Members, IInv, QueueInv, TaskInv
  <2>3. Counts(Queued \cup {e})
    BY <1>1, <1>2, <1>3, <2>1, <2>2 DEF Counts, Announce, Silent, Said, Live
  <2>4. Answers(Queued \cup {e})
    BY <1>2, <1>3, <2>1, QueueAnswers, SameWaiters
  <2> QED BY <2>3, <2>4
<1> QED BY <1>4, <1>5, <1>6 DEF Close

LEMMA AnnouncementStep ==
  IInv /\ IInv' /\ CountInv /\ AnswerInv /\ [Next]_vars => CountInv' /\ AnswerInv'
<1> SUFFICES ASSUME IInv, IInv', CountInv, AnswerInv, [Next]_vars
             PROVE  CountInv' /\ AnswerInv'
  OBVIOUS
<1>1. CASE Calls = {}
  BY <1>1 DEF CountInv, AnswerInv
<1>2. CASE Calls # {}
  <2>1. ASSUME UNCHANGED <<terminal, reported, task, active, pending, waiters>>,
               \A c \in Calls : /\ call'[c] = "idle" => call[c] = "idle"
                                /\ future'[c] \in {"result", "CANCELLED"} => future'[c] = future[c]
        PROVE  \E es : Counts(es) /\ Answers(es)
    <3>1. Counts({})
      BY <2>1, PlainStep DEF Queued
    <3> QED BY <1>2, <2>1, <3>1, SameWaiters
  <2>2. ASSUME NEW c \in Calls, CancelCaller(c) \/ Return(c)
        PROVE  \E es : Counts(es) /\ Answers(es)
    BY <2>1, <2>2 DEF CancelCaller, Return, entryVars, taskVars, IInv, TypeOK
  <2>3. ASSUME NEW k \in Closers, CloseReturns(k) PROVE \E es : Counts(es) /\ Answers(es)
    BY <2>1, <2>3 DEF CloseReturns, entryVars, taskVars, callVars
  <2>4. ASSUME UNCHANGED vars PROVE \E es : Counts(es) /\ Answers(es)
    BY <2>1, <2>4 DEF vars, entryVars, taskVars, callVars
  <2>5. \E es : Counts(es) /\ Answers(es)
    BY <1>2, <2>2, <2>3, <2>4, SubmitCounts, AbandonCounts, WorkerCounts, RefreshCounts,
       CloseCounts
    DEF Next, CallerStep, AtRest
  <2> QED BY <2>5, CountStep, AnswerStep
<1> QED BY <1>1, <1>2

\* Every ticket has at most one terminal event, however its refresh ends, and has
\* it before a caller gets a result; only a refresh that closed the engine with
\* cancel=True just before it returned may have more (_finish, _cancel_all, _work).
THEOREM AnnouncedOnce == Spec => []AnsweredOnce
<1>1. Init => CountInv /\ AnswerInv
  BY DEF Init, CountInv, AnswerInv, Said
<1>2. CountInv /\ AnswerInv => AnsweredOnce
  BY DEF CountInv, AnswerInv, AnsweredOnce
<1> QED BY <1>1, <1>2, AnnouncementStep, InductiveInvariant, PTL DEF Spec

----------------------------------------------------------------------------
(* No overtaking                                                            *)

\* What a step does to the queue and to the entry that runs.
QueueMoves ==
    \/ UNCHANGED <<pending, active>>
    \/ pending' = <<>> /\ active' = active
    \/ \E c \in Calls \ Queued : pending' = Append(pending, c) /\ active' = active
    \/ \E c \in Calls \ Queued : pending' = <<c>>
    \/ \E i \in 1..Len(pending) : pending' = Without(pending, i) /\ active' = active
    \/ pending = <<>>
    \/ pending # <<>> /\ pending' = Tail(pending) /\ active' = Head(pending)

LEMMA QueueMovesStep == IInv /\ [Next]_vars => QueueMoves
<1> SUFFICES ASSUME IInv, [Next]_vars PROVE QueueMoves
  OBVIOUS
<1>1. ASSUME NEW c \in Calls, Submit(c) PROVE QueueMoves
  <2>1. c \notin Queued
    BY <1>1, IdleCallIsFresh DEF Submit
  <2> QED
    BY <1>1, <2>1 DEF Submit, Refuse, Skip, Join, Enqueue, Supersede, Queue, QueueMoves
<1>2. ASSUME NEW c \in Calls, Abandon(c) PROVE QueueMoves
  BY <1>2 DEF Abandon, AbandonQueued, AbandonActive, AbandonNothing, QueueMoves
<1>3. ASSUME NEW w \in Calls, WorkerStep(w) PROVE QueueMoves
  BY <1>3 DEF WorkerStep, WorkerStarts, WorkerResumes, ServeNext, QueueMoves
<1>4. ASSUME NEW c \in Calls,
             \/ CancelCaller(c) \/ Return(c)
             \/ RefreshStarts(c) \/ RefreshEnds(c) \/ RefreshAbsorbsCancel(c)
      PROVE  QueueMoves
  BY <1>4
  DEF CancelCaller, Return, RefreshStarts, RefreshEnds, RefreshNeverStarts, RefreshReturns,
      RefreshCancelled, RefreshRaises, RefreshAbsorbsCancel, RefreshUnchanged, QueueMoves
<1>5. ASSUME NEW k \in Closers,
             \/ Close(k) \/ CloseReturns(k)
             \/ \E d \in Calls : RefreshClosesAndReturns(d, k)
      PROVE  QueueMoves
  BY <1>5 DEF Close, CloseReturns, RefreshClosesAndReturns, QueueMoves
<1>6. CASE UNCHANGED vars
  BY <1>6 DEF vars, QueueMoves
<1> QED BY <1>1, <1>2, <1>3, <1>4, <1>5, <1>6 DEF Next, CallerStep, AtRest

LEMMA NoOvertaking ==
  ASSUME IInv, QueueMoves, NEW e \in Queued, NEW f \in Calls,
         f # e, ~Ahead(f, e), e \in Queued'
  PROVE  ~Ahead(f, e)' /\ ~(active # f /\ active' = f)
<1>1. pending \in Seq(Calls) /\ Len(pending) \in Nat
  BY DEF IInv, TypeOK
<1>2. \A i, j \in 1..Len(pending) : i < j /\ pending[i] = f => pending[j] # e
  BY DEF Ahead
<1>3. CASE UNCHANGED <<pending, active>>
  BY <1>3 DEF Ahead
<1>4. CASE pending' = <<>> \/ pending = <<>>
  BY <1>4 DEF Queued, Members
<1>5. ASSUME NEW c \in Calls \ Queued, pending' = Append(pending, c), active' = active
      PROVE  ~Ahead(f, e)'
  <2>1. /\ Len(pending') = Len(pending) + 1
        /\ \A i \in 1..Len(pending) : pending'[i] = pending[i]
        /\ pending'[Len(pending) + 1] # e
    BY <1>1, <1>5, AppendProperties
  <2>2. ASSUME NEW i \in 1..Len(pending'), NEW j \in 1..Len(pending'), i < j, pending'[i] = f
        PROVE  pending'[j] # e
    <3>1. CASE j = Len(pending) + 1
      BY <2>1, <3>1
    <3>2. CASE j # Len(pending) + 1
      <4>1. i \in 1..Len(pending) /\ j \in 1..Len(pending)
        BY <1>1, <2>1, <2>2, <3>2
      <4> QED BY <1>2, <2>1, <2>2, <4>1
    <3> QED BY <3>1, <3>2
  <2> QED BY <2>2 DEF Ahead
<1>6. ASSUME NEW c \in Calls \ Queued, pending' = <<c>> PROVE FALSE
  BY <1>6 DEF Queued, Members
<1>7. ASSUME NEW k \in 1..Len(pending), pending' = Without(pending, k), active' = active
      PROVE  ~Ahead(f, e)'
  <2>1. /\ Len(pending') = Len(pending) - 1
        /\ \A i \in 1..(Len(pending) - 1) :
             pending'[i] = IF i < k THEN pending[i] ELSE pending[i + 1]
    BY <1>1, <1>7, WithoutProperties
  <2>2. ASSUME NEW i \in 1..Len(pending'), NEW j \in 1..Len(pending'), i < j, pending'[i] = f
        PROVE  pending'[j] # e
    <3>1. PICK m \in 1..Len(pending) : pending'[i] = pending[m] /\ m = IF i < k THEN i ELSE i + 1
      BY <1>1, <2>1
    <3>2. PICK n \in 1..Len(pending) : pending'[j] = pending[n] /\ n = IF j < k THEN j ELSE j + 1
      BY <1>1, <2>1
    <3>3. m < n
      BY <1>1, <2>1, <2>2, <3>1, <3>2
    <3> QED BY <1>2, <2>2, <3>1, <3>2, <3>3
  <2> QED BY <2>2 DEF Ahead
<1>8. CASE pending # <<>> /\ pending' = Tail(pending) /\ active' = Head(pending)
  <2>1. /\ Len(pending') = Len(pending) - 1 /\ Head(pending) = pending[1]
        /\ \A i \in 1..(Len(pending) - 1) : pending'[i] = pending[i + 1]
    BY <1>1, <1>8, HeadTailProperties
  <2>2. ASSUME NEW i \in 1..Len(pending'), NEW j \in 1..Len(pending'), i < j, pending'[i] = f
        PROVE  pending'[j] # e
    <3>1. /\ i + 1 \in 1..Len(pending) /\ j + 1 \in 1..Len(pending) /\ i + 1 < j + 1
          /\ pending'[i] = pending[i + 1] /\ pending'[j] = pending[j + 1]
      BY <1>1, <2>1, <2>2
    <3> QED BY <1>2, <2>2, <3>1
  <2>3. PICK j \in 1..Len(pending') : pending'[j] = e
    BY DEF Queued, Members
  <2>4. /\ 1 \in 1..Len(pending) /\ j + 1 \in 1..Len(pending) /\ 1 < j + 1
        /\ pending[j + 1] = e
    BY <1>1, <2>1, <2>3
  <2>5. active' # f
    BY <1>2, <1>8, <2>1, <2>4
  <2> QED BY <2>2, <2>5 DEF Ahead
<1> QED BY <1>3, <1>4, <1>5, <1>6, <1>7, <1>8 DEF QueueMoves

\* No entry ever gets ahead of one that is queued before it, and none starts
\* before it (_absorb, _work).
THEOREM ServedInOrderHolds == Spec => ServedInOrder
<1>1. IInv /\ [Next]_vars =>
        [\A e \in Queued, f \in Calls :
           f # e /\ ~Ahead(f, e) /\ e \in Queued' =>
             ~Ahead(f, e)' /\ ~(active # f /\ active' = f)]_vars
  BY QueueMovesStep, NoOvertaking
<1> QED BY <1>1, InductiveInvariant, PTL DEF Spec, ServedInOrder
----------------------------------------------------------------------------
(* The refinement of OverlapService                                         *)

AnswerValues == {"result", "CANCELLED", "error"}

\* What the future of a call has in common with what the call is doing.
CallerInv ==
    \A c \in Calls :
        /\ call[c] \in {"idle", "refused", "skipped"} => future[c] = "none"
        /\ call[c] = "waiting" => future[c] # "none"
        /\ call[c] \in {"returned", "raised"} => future[c] \in AnswerValues
        /\ call[c] = "cancelled" => future[c] = "dropped"

\* A future is pending only while its call waits.
LEMMA PendingWaits ==
  ASSUME TypeOK, CallerInv, NEW c \in Calls
  PROVE  /\ future[c] = "pending" => call[c] = "waiting"
         /\ future[c] = "pending" <=> Doing(c) = "waiting" /\ Answer(c) = "none"
BY DEF TypeOK, Statuses, Futures, CallerInv, AnswerValues, Doing, Answer

\* Answering those who wait in some entries.
GivenTo(ws, value) ==
    \A c \in Calls :
        future'[c] = IF c \in ws /\ future[c] = "pending" THEN value ELSE future[c]

LEMMA AnswersHandedOut ==
  ASSUME TypeOK, CallerInv, NEW es, NEW value \in AnswerValues \cup {"none"},
         NEW ws, \A c \in Calls : c \in ws <=> \E e \in es : c \in waiters[e],
         value = "none" => es = {},
         UNCHANGED call, GivenTo(ws, value)
  PROVE  /\ Given' = Service!Answered(es, value)
         /\ Callers' = Callers
         /\ CallerInv'
<1>1. ASSUME NEW c \in Calls
      PROVE  /\ Answer(c)' = IF /\ \E e \in es : c \in waiters[e]
                                /\ Callers[c] = "waiting" /\ Given[c] = "none"
                             THEN value ELSE Given[c]
             /\ Doing(c)' = Doing(c)
  <2>1. Callers[c] = Doing(c) /\ Given[c] = Answer(c)
    BY DEF Callers, Given
  <2>2. CASE c \in ws /\ future[c] = "pending"
    <3>1. future'[c] = value /\ value # "none" /\ call'[c] = call[c] /\ call[c] = "waiting"
      BY <2>2, PendingWaits DEF GivenTo
    <3> QED BY <2>1, <2>2, <3>1, PendingWaits DEF AnswerValues, Answer, Doing
  <2>3. CASE ~(c \in ws /\ future[c] = "pending")
    BY <2>1, <2>3, PendingWaits DEF GivenTo, Answer, Doing
  <2> QED BY <2>2, <2>3
<1>2. Given' = [c \in Calls |-> Answer(c)'] /\ Callers' = [c \in Calls |-> Doing(c)']
  BY DEF Given, Callers
<1>3. CallerInv'
  BY PendingWaits DEF CallerInv, GivenTo, AnswerValues
<1> QED BY <1>1, <1>2, <1>3 DEF Service!Answered, Callers, Given

\* Steps in which the calls and their futures stay as they are.
LEMMA CallersStay ==
  ASSUME UNCHANGED <<call, future>>
  PROVE  Callers' = Callers /\ Given' = Given /\ (CallerInv => CallerInv')
BY DEF Callers, Given, Doing, Answer, CallerInv

\* Steps that do nothing of what a caller sees.
LEMMA NotSeen ==
  ASSUME UNCHANGED <<policy, closed, pending, active, waiters, request, call, future, wanted>>,
         Ended' = Ended
  PROVE  UNCHANGED Service!serviceVars
<1>1. WillDo' = WillDo /\ Asked' = Asked
  BY DEF WillDo, Asked, AllPromised
<1> QED BY <1>1, CallersStay
        DEF Service!serviceVars, Service!batchVars, Service!refreshVars, Service!callerVars

LEMMA PromisesMade ==
  ASSUME NEW requests \in [Calls -> Request]
  PROVE  AllPromised(requests) = [c \in Calls |-> Promised(requests[c])]
BY DEF AllPromised, PromiseOf

LEMMA OnePromiseMade ==
  ASSUME NEW requests \in [Calls -> Request], NEW c \in Calls, NEW r \in Request
  PROVE  AllPromised([requests EXCEPT ![c] = r])
           = [AllPromised(requests) EXCEPT ![c] = Promised(r)]
<1>1. [requests EXCEPT ![c] = r] \in [Calls -> Request]
  OBVIOUS
<1> QED BY <1>1, PromisesMade

\* One call moves on, the others go on with what they do.
LEMMA OneCallerMoves ==
  ASSUME NEW c \in Calls, TypeOK, NEW doing, NEW given,
         \A d \in Calls \ {c} : call'[d] = call[d] /\ future'[d] = future[d],
         Doing(c)' = doing, Answer(c)' = given
  PROVE  /\ Callers' = [Callers EXCEPT ![c] = doing]
         /\ Given' = [Given EXCEPT ![c] = given]
<1>1. \A d \in Calls \ {c} : Doing(d)' = Doing(d) /\ Answer(d)' = Answer(d)
  BY DEF Doing, Answer
<1>2. Callers' = [Callers EXCEPT ![c] = doing]
  BY <1>1 DEF Callers
<1>3. Given' = [Given EXCEPT ![c] = given]
  BY <1>1 DEF Given
<1> QED BY <1>2, <1>3

LEMMA AnswerKept ==
  ASSUME NEW c \in Calls, UNCHANGED future
  PROVE  Answer(c)' = Answer(c) /\ Answer(c) = Given[c]
BY DEF Answer, Given

LEMMA SameAnswer ==
  ASSUME NEW c \in Calls
  PROVE  Given = [Given EXCEPT ![c] = Given[c]]
BY DEF Given

LEMMA InitImplements == Init => Service!Init /\ CallerInv
<1> SUFFICES ASSUME Init PROVE Service!Init /\ CallerInv
  OBVIOUS
<1>1. Ended = "none"
  BY NoCallAssumption DEF Init, Ended
<1>2. /\ Callers = [c \in Calls |-> "idle"] /\ Given = [c \in Calls |-> "none"]
      /\ CallerInv
  BY DEF Init, Callers, Given, Doing, Answer, CallerInv
<1>3. WillDo \in [Calls -> Promises] /\ Asked \in [Calls -> Promises]
  <2>1. request \in [Calls -> Request] /\ wanted \in [Calls -> Request]
    BY RequestFacts DEF Init
  <2> QED BY <2>1, PromisesMade DEF WillDo, Asked, Promises
<1> QED BY <1>1, <1>2, <1>3 DEF Init, Service!Init
----------------------------------------------------------------------------
(* submit()                                                                 *)

LEMMA DenyStep ==
  ASSUME IInv, CallerInv, NEW c \in Calls, call[c] = "idle", NEW kind \in Kinds,
         CanRun(kind), Refuse(c, kind) \/ Skip(c, kind)
  PROVE  Service!Deny(c) /\ CallerInv'
<1>1. /\ UNCHANGED <<policy, closed, pending, active, waiters, request, future, wanted, task>>
      /\ \E s \in {"refused", "skipped"} : call' = [call EXCEPT ![c] = s]
  BY DEF Refuse, Skip, entryVars, taskVars, workerVars
<1>2. closed \/ ~Service!Idle
  BY DEF Refuse, Skip, AwaitedBy, MarkedTask, Kinds, CanRun, Busy, Service!Idle
<1>3. /\ WillDo' = WillDo /\ Asked' = Asked /\ Ended' = Ended
  BY <1>1 DEF WillDo, Asked, AllPromised, Ended, Outcome
<1>4. /\ Given' = Given
      /\ Callers' = [Callers EXCEPT ![c] = "denied"] /\ Callers[c] = "idle"
  <2>1. \A d \in Calls \ {c} : call'[d] = call[d] /\ future'[d] = future[d]
    BY <1>1 DEF IInv, TypeOK
  <2>2. Doing(c)' = "denied" /\ Doing(c) = "idle"
    BY <1>1 DEF Doing, IInv, TypeOK
  <2> QED BY <1>1, <2>1, <2>2, OneCallerMoves, AnswerKept, SameAnswer DEF IInv, Callers
<1>5. CallerInv'
  BY <1>1 DEF CallerInv, IInv, TypeOK
<1> QED BY <1>1, <1>2, <1>3, <1>4, <1>5
        DEF Service!Deny, Service!batchVars, Service!refreshVars

\* The call c begins to wait; ws are those who are told that they wait in vain.
LEMMA AcceptStep ==
  ASSUME IInv, CallerInv, NEW c \in Calls, call[c] = "idle", NEW r \in Request, NEW kind,
         NEW futures \in [Calls -> Futures], Await(c, r, kind, futures), ~closed,
         UNCHANGED <<policy, closed, active, task>>,
         NEW ws, futures = Settled(future, ws, "CANCELLED")
  PROVE  /\ Service!Accept(c, Promised(r))
         /\ Given' = [d \in Calls |->
              IF d \in ws /\ Callers[d] = "waiting" /\ Given[d] = "none"
              THEN "CANCELLED" ELSE Given[d]]
         /\ CallerInv'
<1>1. /\ call' = [call EXCEPT ![c] = "waiting"] /\ future' = [futures EXCEPT ![c] = "pending"]
      /\ wanted' = [wanted EXCEPT ![c] = r]
      /\ call \in [Calls -> Statuses] /\ future \in [Calls -> Futures]
      /\ wanted \in [Calls -> Request]
  BY DEF Await, IInv, TypeOK
<1>2. \A d \in Calls \ {c} :
        /\ call'[d] = call[d]
        /\ future'[d] = IF d \in ws /\ future[d] = "pending" THEN "CANCELLED" ELSE future[d]
  BY <1>1 DEF Settled
<1>3. call'[c] = "waiting" /\ future'[c] = "pending" /\ future[c] = "none"
  BY <1>1 DEF CallerInv
<1>4. ASSUME NEW d \in Calls \ {c}
      PROVE  /\ Doing(d)' = Doing(d)
             /\ Answer(d)' = IF d \in ws /\ Doing(d) = "waiting" /\ Answer(d) = "none"
                             THEN "CANCELLED" ELSE Answer(d)
  <2>1. TypeOK /\ (future[d] = "pending" => call[d] = "waiting")
         /\ (future[d] = "pending" <=> Doing(d) = "waiting" /\ Answer(d) = "none")
    BY PendingWaits DEF IInv
  <2>2. CASE d \in ws /\ future[d] = "pending"
    BY <1>2, <2>1, <2>2 DEF Doing, Answer
  <2>3. CASE ~(d \in ws /\ future[d] = "pending")
    BY <1>2, <2>1, <2>3 DEF Doing, Answer
  <2> QED BY <2>2, <2>3
<1>5. /\ Doing(c) = "idle" /\ Answer(c) = "none" /\ Doing(c)' = "waiting" /\ Answer(c)' = "none"
  BY <1>3 DEF Doing, Answer
<1>6. Callers' = [Callers EXCEPT ![c] = "waiting"]
  BY <1>4, <1>5 DEF Callers
<1>7. \A d \in Calls : Given'[d] = IF d \in ws /\ Callers[d] = "waiting" /\ Given[d] = "none"
                                      THEN "CANCELLED" ELSE Given[d]
  BY <1>4, <1>5 DEF Callers, Given
<1>8. Asked' = [Asked EXCEPT ![c] = Promised(r)]
  BY <1>1, OnePromiseMade DEF Asked
<1>9. Ended' = Ended
  BY DEF Ended, Outcome
<1>10. CallerInv'
  BY <1>2, <1>3, PendingWaits DEF CallerInv, AnswerValues, IInv
<1>11. Callers[c] = "idle"
  BY <1>5 DEF Callers
<1>12. Given' = [d \in Calls |-> Given'[d]]
  BY DEF Given
<1>13. Service!Accept(c, Promised(r))
  BY <1>6, <1>8, <1>9, <1>11 DEF Service!Accept, Service!refreshVars
<1> QED BY <1>7, <1>10, <1>12, <1>13

LEMMA NobodyTold ==
  ASSUME TypeOK
  PROVE  future = Settled(future, {}, "CANCELLED") /\ future \in [Calls -> Futures]
BY DEF TypeOK, Settled

LEMMA JoinStep ==
  ASSUME IInv, CallerInv, NEW c \in Calls, call[c] = "idle", NEW r \in Request, NEW kind,
         Join(c, r, kind)
  PROVE  Service!JoinBatch(c, Promised(r)) /\ CallerInv'
<1>1. PICK i \in 1..Len(pending) :
        /\ policy = "COALESCE" /\ Compatible(request[pending[i]], r)
        /\ request' = [request EXCEPT ![pending[i]] = Merged(@, r)]
        /\ waiters' = [waiters EXCEPT ![pending[i]] = @ \cup {c}]
  BY DEF Join, Joinable, Absorbs
<1>2. /\ ~closed /\ UNCHANGED <<policy, closed, pending, active, task>>
      /\ Await(c, r, kind, future)
  BY DEF Join, taskVars
<1>3. /\ future = Settled(future, {}, "CANCELLED") /\ future \in [Calls -> Futures]
      /\ pending[i] \in Calls /\ request \in [Calls -> Request]
  BY NobodyTold, ElementOfSeq DEF IInv, TypeOK
<1>4. /\ Service!Accept(c, Promised(r)) /\ CallerInv'
      /\ Given' = [d \in Calls |->
           IF d \in {} /\ Callers[d] = "waiting" /\ Given[d] = "none"
           THEN "CANCELLED" ELSE Given[d]]
  BY <1>2, <1>3, AcceptStep
<1>5. Given' = Given
  BY <1>4 DEF Given
<1> DEFINE e == pending[i]  more == Promised(Merged(request[e], r))
<1>6. /\ Promised(request[e]) \subseteq more /\ Promised(r) \subseteq more
      /\ Merged(request[e], r) \in Request
  BY <1>1, <1>3, MergedPromise, RequestFacts
<1>7. /\ WillDo' = [WillDo EXCEPT ![e] = more] /\ WillDo[e] = Promised(request[e])
  <2>1. request' = [request EXCEPT ![e] = Merged(request[e], r)]
    BY <1>1
  <2> QED BY <1>3, <1>6, <2>1, OnePromiseMade, PromisesMade DEF WillDo
<1>8. more \in Promises /\ e \in Service!Waiting
  BY <1>6 DEF Promises, Service!Waiting
<1> HIDE DEF e, more
<1>9. waiters' = [waiters EXCEPT ![e] = @ \cup {c}]
  BY <1>1 DEF e
<1>10. WillDo[e] \cup Promised(r) \subseteq more
  BY <1>6, <1>7 DEF e
<1> QED BY <1>1, <1>2, <1>4, <1>5, <1>7, <1>8, <1>9, <1>10 DEF Service!JoinBatch

LEMMA OpenStep ==
  ASSUME IInv, NEW c \in Calls, NEW r \in Request, NewEntry(c, r)
  PROVE  Service!OpenBatch(c, Promised(r))
<1>1. WillDo' = [WillDo EXCEPT ![c] = Promised(r)]
  BY OnePromiseMade DEF WillDo, NewEntry, IInv, TypeOK
<1> QED BY <1>1 DEF Service!OpenBatch, NewEntry

LEMMA EnqueueStep ==
  ASSUME IInv, CallerInv, NEW c \in Calls, call[c] = "idle", NEW r \in Request, NEW kind,
         Enqueue(c, r, kind)
  PROVE  Service!GetInLine(c, Promised(r)) /\ CallerInv'
<1>1. /\ ~closed /\ UNCHANGED <<policy, closed, active, task>>
      /\ Await(c, r, kind, future) /\ NewEntry(c, r) /\ pending' = Append(pending, c)
      /\ policy \in {"COALESCE", "QUEUE"} \/ Service!Idle
  BY DEF Enqueue, taskVars, Queue, Busy, Service!Idle
<1>2. future = Settled(future, {}, "CANCELLED") /\ future \in [Calls -> Futures]
  BY NobodyTold DEF IInv
<1>3. /\ Service!Accept(c, Promised(r)) /\ CallerInv'
      /\ Given' = [d \in Calls |->
           IF d \in {} /\ Callers[d] = "waiting" /\ Given[d] = "none"
           THEN "CANCELLED" ELSE Given[d]]
  BY <1>1, <1>2, AcceptStep
<1>4. Given' = Given
  BY <1>3 DEF Given
<1> QED BY <1>1, <1>3, <1>4, OpenStep DEF Service!GetInLine

\* Those who wait in the entries of the queue.
QueuedCallers == UNION {waiters[e] : e \in Queued}

LEMMA SupersedeStep ==
  ASSUME IInv, CallerInv, NEW c \in Calls, call[c] = "idle", NEW r \in Request, NEW kind,
         Supersede(c, r, kind)
  PROVE  Service!PushOut(c, Promised(r)) /\ CallerInv'
<1>1. /\ ~closed /\ UNCHANGED <<policy, closed, active, task>>
      /\ Await(c, r, kind, QueueCancelled) /\ NewEntry(c, r) /\ pending' = <<c>>
      /\ policy = "CANCEL_PREVIOUS" /\ ~Service!Idle
  BY DEF Supersede, Busy, Service!Idle
<1>2. /\ QueueCancelled = Settled(future, QueuedCallers, "CANCELLED")
      /\ QueueCancelled \in [Calls -> Futures]
  BY QueueCancelledType DEF QueueCancelled, QueuedCallers, IInv
<1>3. /\ Service!Accept(c, Promised(r)) /\ CallerInv'
      /\ Given' = [d \in Calls |->
           IF d \in QueuedCallers /\ Callers[d] = "waiting" /\ Given[d] = "none"
           THEN "CANCELLED" ELSE Given[d]]
  BY <1>1, <1>2, AcceptStep
<1>4. Given' = Service!Answered(Service!Waiting, "CANCELLED")
  BY <1>3 DEF Service!Answered, Service!Waiting, QueuedCallers, Queued, Members
<1> QED BY <1>1, <1>3, <1>4, OpenStep DEF Service!PushOut
----------------------------------------------------------------------------
(* Callers that return or give up                                           *)

LEMMA CallerSteps ==
  ASSUME IInv, CallerInv, NEW c \in Calls, CancelCaller(c) \/ Return(c) \/ Abandon(c)
  PROVE  /\ Service!GiveUp(c) \/ Service!Take(c) \/ Service!Leave(c)
              \/ UNCHANGED Service!serviceVars
         /\ CallerInv'
<1>1. UNCHANGED <<policy, closed, active, task, request, wanted>>
  BY DEF CancelCaller, Return, Abandon, entryVars, taskVars, callVars
<1>2. WillDo' = WillDo /\ Asked' = Asked /\ Ended' = Ended
  BY <1>1 DEF WillDo, Asked, AllPromised, Ended, Outcome
<1>3. CASE CancelCaller(c)
  <2>1. /\ call[c] = "waiting" /\ call' = call /\ future' = [future EXCEPT ![c] = "dropped"]
        /\ UNCHANGED <<pending, waiters>>
    BY <1>3 DEF CancelCaller, entryVars
  <2>2. CASE future[c] = "dropped"
    <3>1. future' = future
      BY <2>1, <2>2 DEF IInv, TypeOK
    <3>2. Callers' = Callers /\ Given' = Given /\ CallerInv'
      BY <2>1, <3>1, CallersStay
    <3> QED BY <1>1, <1>2, <2>1, <3>2
            DEF Service!serviceVars, Service!batchVars, Service!refreshVars, Service!callerVars
  <2>3. CASE future[c] # "dropped"
    <3>1. /\ Callers[c] = "waiting" /\ Callers' = [Callers EXCEPT ![c] = "withdrawn"]
          /\ Given' = [Given EXCEPT ![c] = "none"]
      <4>1. \A d \in Calls \ {c} : call'[d] = call[d] /\ future'[d] = future[d]
        BY <2>1
      <4>2. future'[c] = "dropped" /\ call'[c] = "waiting"
        BY <2>1 DEF IInv, TypeOK
      <4>3. Doing(c)' = "withdrawn" /\ Answer(c)' = "none" /\ Doing(c) = "waiting"
        BY <2>1, <2>3, <4>2 DEF Doing, Answer
      <4> QED BY <4>1, <4>3, OneCallerMoves DEF IInv, Callers
    <3>2. CallerInv'
      BY <2>1 DEF CallerInv, IInv, TypeOK
    <3> QED BY <1>1, <1>2, <2>1, <3>1, <3>2
            DEF Service!GiveUp, Service!batchVars, Service!refreshVars
  <2> QED BY <2>2, <2>3
<1>4. CASE Return(c)
  <2>1. /\ call[c] = "waiting" /\ future[c] \in AnswerValues /\ future' = future
        /\ \E s \in {"raised", "returned"} : call' = [call EXCEPT ![c] = s]
        /\ UNCHANGED <<pending, waiters>>
    BY <1>4 DEF Return, entryVars, AnswerValues
  <2>2. /\ Callers[c] = "waiting" /\ Callers' = [Callers EXCEPT ![c] = "answered"]
        /\ Given[c] # "none" /\ Given' = Given
    <3>1. \A d \in Calls \ {c} : call'[d] = call[d] /\ future'[d] = future[d]
      BY <2>1 DEF IInv, TypeOK
    <3>2. call'[c] \in {"raised", "returned"}
      BY <2>1 DEF IInv, TypeOK
    <3>3. Doing(c)' = "answered" /\ Doing(c) = "waiting" /\ Answer(c) # "none"
      BY <2>1, <3>2 DEF Doing, Answer, AnswerValues
    <3> QED BY <2>1, <3>1, <3>3, OneCallerMoves, AnswerKept, SameAnswer DEF IInv, Callers
  <2>3. CallerInv'
    BY <2>1 DEF CallerInv, IInv, TypeOK
  <2> QED BY <1>1, <1>2, <2>1, <2>2, <2>3
          DEF Service!Take, Service!batchVars, Service!refreshVars
<1>5. CASE Abandon(c)
  <2>1. /\ call[c] = "waiting" /\ future[c] = "dropped" /\ future' = future
        /\ call' = [call EXCEPT ![c] = "cancelled"]
    BY <1>5 DEF Abandon
  <2>2. /\ Callers[c] = "withdrawn" /\ Callers' = [Callers EXCEPT ![c] = "gone"]
        /\ Given' = Given
    <3>1. \A d \in Calls \ {c} : call'[d] = call[d] /\ future'[d] = future[d]
      BY <2>1 DEF IInv, TypeOK
    <3>2. Doing(c)' = "gone" /\ Doing(c) = "withdrawn"
      BY <2>1 DEF Doing, IInv, TypeOK
    <3> QED BY <2>1, <3>1, <3>2, OneCallerMoves, AnswerKept, SameAnswer DEF IInv, Callers
  <2>3. CallerInv'
    BY <2>1 DEF CallerInv, IInv, TypeOK
  <2>4. \/ \E i \in 1..Len(pending) :
             /\ Service!LeaveBatch(c, pending[i])
             /\ pending' = IF waiters[pending[i]] = {c}
                           THEN SubSeq(pending, 1, i - 1) \o SubSeq(pending, i + 1, Len(pending))
                           ELSE pending
        \/ active # NoCall /\ Service!LeaveBatch(c, active) /\ UNCHANGED pending
        \/ /\ \A e \in Service!Waiting \cup ({active} \ {NoCall}) : c \notin waiters[e]
           /\ UNCHANGED <<waiters, pending>>
    <3>1. CASE \E i \in 1..Len(pending) : AbandonQueued(c, i)
      BY <3>1 DEF AbandonQueued, Without, Service!LeaveBatch
    <3>2. CASE AbandonActive(c)
      BY <3>2, NoCallAssumption DEF AbandonActive, Service!LeaveBatch
    <3>3. CASE AbandonNothing(c)
      <4>1. active \in Calls \cup {NoCall}
        BY DEF IInv, TypeOK
      <4> QED BY <3>3, <4>1 DEF AbandonNothing, Service!Waiting, Queued, Members
    <3> QED BY <1>5, <3>1, <3>2, <3>3 DEF Abandon
  <2> QED BY <1>1, <1>2, <2>2, <2>3, <2>4 DEF Service!Leave, Service!refreshVars
<1> QED BY <1>3, <1>4, <1>5
----------------------------------------------------------------------------
(* The worker task                                                          *)

\* The worker is done with what is active and turns to the queue.
LEMMA TurnStep ==
  ASSUME IInv, CallerInv, NEW w \in Calls, ServeNext(w),
         UNCHANGED <<policy, closed, request, waiters, call, wanted>>,
         active # NoCall => Ended # "none",
         Given' = Service!Answered({active} \ {NoCall}, Ended), Callers' = Callers
  PROVE  Service!Turn
<1>1. WillDo' = WillDo /\ Asked' = Asked
  BY DEF WillDo, Asked, AllPromised
<1>2. pending \in Seq(Calls) /\ task \in [Calls -> Tasks]
  BY DEF IInv, TypeOK
<1>3. Ended' = "none"
  <2>1. CASE pending = <<>>
    <3>1. active' = NoCall
      BY <2>1 DEF ServeNext
    <3> QED BY <3>1, NoCallAssumption DEF Ended
  <2>2. CASE pending # <<>>
    <3>1. Head(pending) \in Calls
      BY <1>2, <2>2
    <3>2. active' = Head(pending) /\ task'[Head(pending)] = "created"
      BY <1>2, <2>2, <3>1 DEF ServeNext
    <3> QED BY <3>2 DEF Ended, Done, AsCancelled
  <2> QED BY <2>1, <2>2
<1>4. \/ pending = <<>> /\ active' = NoCall /\ UNCHANGED pending
      \/ pending # <<>> /\ active' = Head(pending) /\ pending' = Tail(pending)
  BY DEF ServeNext
<1> QED BY <1>1, <1>3, <1>4 DEF Service!Turn

LEMMA WorkerSteps ==
  ASSUME IInv, CallerInv, NEW w \in Calls, WorkerStep(w)
  PROVE  Service!Turn /\ CallerInv'
<1>1. CASE WorkerStarts(w)
  <2>1. active = NoCall
    BY <1>1 DEF WorkerStarts, IInv, WorkerInv
  <2>2. /\ ServeNext(w)
        /\ UNCHANGED <<policy, closed, request, waiters, call, future, wanted>>
    BY <1>1 DEF WorkerStarts, entryVars, callVars
  <2>3. /\ GivenTo({}, Ended) /\ Ended = "none"
        /\ {active} \ {NoCall} = {}
    BY <2>1, <2>2, NoCallAssumption DEF GivenTo, Ended
  <2>4. /\ Given' = Service!Answered({active} \ {NoCall}, Ended) /\ Callers' = Callers
        /\ CallerInv'
    BY <2>2, <2>3, AnswersHandedOut DEF IInv
  <2> QED BY <2>1, <2>2, <2>4, TurnStep
<1>2. CASE WorkerResumes(w)
  <2>1. serving[w] = active /\ active \in Calls /\ task[active] \in Done
    BY <1>2 DEF WorkerResumes, IInv, TypeOK, WorkerInv
  <2>2. /\ ServeNext(w) /\ future' = Settled(future, waiters[active], Outcome(active))
        /\ UNCHANGED <<policy, closed, request, waiters, call, wanted>>
    BY <1>2, <2>1 DEF WorkerResumes, entryVars
  <2>3. Ended = Outcome(active) /\ Ended \in AnswerValues
    BY <2>1 DEF Ended, Outcome, Done, AsCancelled, AnswerValues
  <2>4. GivenTo(waiters[active], Ended) /\ {active} \ {NoCall} = {active}
    BY <2>1, <2>2, <2>3, NoCallAssumption DEF GivenTo, Settled
  <2>5. /\ Given' = Service!Answered({active} \ {NoCall}, Ended) /\ Callers' = Callers
        /\ CallerInv'
    <3>1. \A c \in Calls :
            c \in waiters[active] <=> \E e \in {active} \ {NoCall} : c \in waiters[e]
      BY <2>4
    <3>2. Ended # "none" /\ UNCHANGED call /\ TypeOK
      BY <2>2, <2>3 DEF AnswerValues, IInv
    <3>3. GivenTo(waiters[active], Ended)
      BY <2>4
    <3> QED BY <2>3, <3>1, <3>2, <3>3, AnswersHandedOut
  <2> QED BY <2>2, <2>3, <2>5, TurnStep DEF AnswerValues
<1> QED BY <1>1, <1>2 DEF WorkerStep

----------------------------------------------------------------------------
(* The task of the refresh, and close()                                     *)

\* The refresh of e goes from one live state to another, or ends.
LEMMA RefreshSteps ==
  ASSUME IInv, CallerInv, NEW e \in Calls,
         RefreshStarts(e) \/ RefreshEnds(e) \/ RefreshAbsorbsCancel(e)
  PROVE  (Service!Finish \/ UNCHANGED Service!serviceVars) /\ CallerInv'
<1>1. UNCHANGED <<policy, closed, pending, active, waiters, request, call, future, wanted>>
  BY DEF RefreshStarts, RefreshEnds, RefreshNeverStarts, RefreshReturns, RefreshCancelled,
         RefreshRaises, RefreshAbsorbsCancel, RefreshUnchanged, entryVars, callVars
<1>2. /\ task[e] \in Live /\ active = e /\ task \in [Calls -> Tasks]
      /\ \E state \in {"running", "returned", "cancelled", "failed"} :
            task' = [task EXCEPT ![e] = state]
  BY DEF RefreshStarts, RefreshEnds, RefreshNeverStarts, RefreshReturns, RefreshCancelled,
         RefreshRaises, RefreshAbsorbsCancel, RefreshUnchanged, Live, IInv, TaskInv, TypeOK
<1>3. Ended = "none"
  BY <1>2 DEF Ended, Live, Done, AsCancelled
<1>4. CallerInv' /\ Callers' = Callers /\ Given' = Given
  BY <1>1, CallersStay
<1>5. CASE task'[e] \in Live
  <2>1. Ended' = "none"
    BY <1>1, <1>2, <1>5 DEF Ended, Live, Done, AsCancelled
  <2> QED BY <1>1, <1>3, <1>4, <2>1, NotSeen
<1>6. CASE task'[e] \notin Live
  <2>1. task'[e] \in Done /\ active' = e
    BY <1>1, <1>2, <1>6 DEF Live, Done, AsCancelled
  <2>2. Ended' \in {"result", "CANCELLED", "error"}
    BY <2>1 DEF Ended, Outcome, Done, AsCancelled
  <2>3. WillDo' = WillDo /\ Asked' = Asked /\ active # NoCall
    BY <1>1, <1>2, NoCallAssumption DEF WillDo, Asked, AllPromised
  <2> QED BY <1>1, <1>3, <1>4, <2>2, <2>3
          DEF Service!Finish, Service!Outcomes, Service!batchVars, Service!callerVars
<1> QED BY <1>5, <1>6

\* The queue is resolved as CANCELLED.
LEMMA QueueDropped ==
  ASSUME IInv, CallerInv, UNCHANGED <<call, waiters>>, future' = QueueCancelled
  PROVE  /\ Given' = Service!Answered(Service!Waiting, "CANCELLED") /\ Callers' = Callers
         /\ CallerInv'
<1>1. GivenTo(QueuedCallers, "CANCELLED")
  BY DEF GivenTo, QueueCancelled, Settled, QueuedCallers
<1>2. \A c \in Calls :
        c \in QueuedCallers <=> \E e \in Service!Waiting : c \in waiters[e]
  BY DEF QueuedCallers, Queued, Members, Service!Waiting
<1> HIDE DEF QueuedCallers, Service!Waiting
<1> QED BY <1>1, <1>2, AnswersHandedOut DEF IInv, AnswerValues

LEMMA CloseSteps ==
  ASSUME IInv, CallerInv, NEW k \in Closers,
         \/ Close(k)
         \/ CloseReturns(k)
         \/ \E e \in Calls : RefreshClosesAndReturns(e, k)
  PROVE  (Service!Shut \/ UNCHANGED Service!serviceVars) /\ CallerInv'
<1>1. CASE Close(k)
  <2>1. /\ closed' = TRUE
        /\ UNCHANGED <<policy, active, request, waiters, task, call, wanted>>
        /\ \/ future' = QueueCancelled /\ pending' = <<>>
           \/ UNCHANGED <<future, pending>>
    BY <1>1 DEF Close
  <2>2. WillDo' = WillDo /\ Asked' = Asked /\ Ended' = Ended
    BY <2>1 DEF WillDo, Asked, AllPromised, Ended, Outcome
  <2>3. CASE future' = QueueCancelled /\ pending' = <<>>
    BY <2>1, <2>2, <2>3, QueueDropped DEF Service!Shut
  <2>4. CASE UNCHANGED <<future, pending>>
    BY <2>1, <2>2, <2>4, CallersStay DEF Service!Shut
  <2> QED BY <2>1, <2>3, <2>4
<1>2. CASE CloseReturns(k)
  <2>1. UNCHANGED <<policy, closed, pending, active, waiters, request, call, future,
                    wanted, task>>
    BY <1>2 DEF CloseReturns, entryVars, taskVars, callVars
  <2>2. Ended' = Ended
    BY <2>1 DEF Ended, Outcome
  <2> QED BY <2>1, <2>2, NotSeen, CallersStay
<1>3. ASSUME NEW e \in Calls, RefreshClosesAndReturns(e, k)
      PROVE  Service!Shut /\ CallerInv'
  <2>1. /\ closed' = TRUE /\ task[e] = "running" /\ task' = [task EXCEPT ![e] = "closedItself"]
        /\ UNCHANGED <<policy, active, request, waiters, call, wanted>>
        /\ future' = QueueCancelled /\ pending' = <<>>
    BY <1>3 DEF RefreshClosesAndReturns
  <2>2. active = e /\ e # NoCall /\ task'[e] = "closedItself"
    BY <2>1, NoCallAssumption DEF IInv, TaskInv, TypeOK, Live
  <2>3. Ended = "none" /\ Ended' = "CANCELLED"
    BY <2>1, <2>2 DEF Ended, Outcome, Done, AsCancelled
  <2>4. WillDo' = WillDo /\ Asked' = Asked
    BY <2>1 DEF WillDo, Asked, AllPromised
  <2> QED BY <2>1, <2>2, <2>3, <2>4, QueueDropped DEF Service!Shut
<1> QED BY <1>1, <1>2, <1>3

----------------------------------------------------------------------------
(* Every step, and the specification                                        *)

\* Each step is one of the service, or nothing a caller sees.
LEMMA StepImplements ==
  ASSUME IInv, CallerInv, [Next]_vars
  PROVE  [Service!Next]_(Service!serviceVars) /\ CallerInv'
<1>1. ASSUME NEW c \in Calls, Submit(c)
      PROVE  Service!Next /\ CallerInv'
  <2>1. PICK kind \in Kinds :
          /\ call[c] = "idle" /\ CanRun(kind)
          /\ \/ Refuse(c, kind) \/ Skip(c, kind)
             \/ \E r \in Requests[policy] :
                  Join(c, r, kind) \/ Enqueue(c, r, kind) \/ Supersede(c, r, kind)
    BY <1>1 DEF Submit
  <2>2. CASE Refuse(c, kind) \/ Skip(c, kind)
    BY <2>1, <2>2, DenyStep DEF Service!Next
  <2>3. ASSUME NEW r \in Requests[policy],
               Join(c, r, kind) \/ Enqueue(c, r, kind) \/ Supersede(c, r, kind)
        PROVE  Service!Next /\ CallerInv'
    <3>1. r \in Request /\ Promised(r) \in Promises
      BY RequestsAssumption DEF IInv, TypeOK, Promises
    <3>2. /\ \/ Service!JoinBatch(c, Promised(r)) \/ Service!GetInLine(c, Promised(r))
             \/ Service!PushOut(c, Promised(r))
          /\ CallerInv'
      BY <2>1, <2>3, <3>1, JoinStep, EnqueueStep, SupersedeStep
    <3> QED BY <3>1, <3>2 DEF Service!Next
  <2> QED BY <2>1, <2>2, <2>3
<1>2. ASSUME NEW c \in Calls, CancelCaller(c) \/ CallerStep(c)
      PROVE  [Service!Next]_(Service!serviceVars) /\ CallerInv'
  BY <1>2, CallerSteps DEF CallerStep, Service!Next
<1>3. ASSUME NEW c \in Calls, WorkerStep(c)
      PROVE  Service!Next /\ CallerInv'
  BY <1>3, WorkerSteps DEF Service!Next
<1>4. ASSUME NEW c \in Calls,
             RefreshStarts(c) \/ RefreshEnds(c) \/ RefreshAbsorbsCancel(c)
      PROVE  [Service!Next]_(Service!serviceVars) /\ CallerInv'
  BY <1>4, RefreshSteps DEF Service!Next
<1>5. ASSUME NEW k \in Closers,
             \/ Close(k)
             \/ CloseReturns(k)
             \/ \E e \in Calls : RefreshClosesAndReturns(e, k)
      PROVE  [Service!Next]_(Service!serviceVars) /\ CallerInv'
  BY <1>5, CloseSteps DEF Service!Next
<1>6. CASE AtRest \/ UNCHANGED vars
  <2>1. UNCHANGED <<policy, closed, pending, active, waiters, request, call, future,
                    wanted, task>>
    BY <1>6 DEF AtRest, vars, entryVars, taskVars, callVars
  <2>2. Ended' = Ended
    BY <2>1 DEF Ended, Outcome
  <2> QED BY <2>1, <2>2, NotSeen, CallersStay
<1> QED BY <1>1, <1>2, <1>3, <1>4, <1>5, <1>6 DEF Next

\* The coordinator, with its worker tasks, its tasks of refreshes and all that
\* can cancel them, implements the service its callers see: from one turn to
\* the next the queue is served in order, a call joins a batch only while it
\* waits, its batch does what it asked for, and the outcome of that batch is
\* the answer it gets, once.
THEOREM ServiceIsImplemented == Spec => ImplementsService
<1>1. IInv /\ CallerInv /\ [Next]_vars
        => [Service!Next]_(Service!serviceVars) /\ CallerInv'
  BY StepImplements
<1>2. Spec => []CallerInv
  BY <1>1, InductiveInvariant, InitImplements, PTL DEF Spec
<1> QED
  BY <1>1, <1>2, InductiveInvariant, InitImplements, PTL
  DEF Spec, ImplementsService, Service!Spec
=============================================================================
