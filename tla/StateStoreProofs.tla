-------------------------- MODULE StateStoreProofs --------------------------
(***************************************************************************)
(* Proofs about StateStore, for all resource IDs, states and transactions: *)
(* it implements TransactionalStore.                                       *)
(***************************************************************************)
EXTENDS StateStore, TLAPS

(* Puts and deletes say the same as the last change asked for each ID. *)
Says(ps, ds, as) ==
    \A id \in Ids :
        /\ as[id] = Unasked => ps[id] = None /\ id \notin ds
        /\ as[id] = Deleted => ps[id] = None /\ id \in ds
        /\ as[id] \in States => ps[id] = as[id] /\ id \notin ds

StagedInv ==
    \A t \in Transactions :
        /\ ~closed[t] => /\ call[t] = "none" /\ worker[t].at = "none"
                         /\ Says(puts[t], deletes[t], asked[t])
        /\ worker[t].at # "none" => Says(worker[t].puts, worker[t].deletes, asked[t])
        /\ call[t] = "waits" => worker[t].at \in Working

(* The lock belongs to the thread that has written, and nobody else writes. *)
LockInv ==
    \A t \in Transactions :
        /\ worker[t].at \in {"deleted", "written"} => writer = t
        /\ worker[t].at \in Working => durable
        /\ worker[t].at = "deleted" => draft = Without(stored, worker[t].deletes)
        /\ worker[t].at = "written" =>
              draft = Updated(Without(stored, worker[t].deletes), worker[t].puts)

IInv == StoreTypeOK /\ StagedInv /\ LockInv

(* Applying what was staged gives what was asked for. *)
LEMMA AppliesAsked ==
  ASSUME NEW s \in [Ids -> Held], NEW ps \in [Ids -> Held], NEW ds \in SUBSET Ids,
         NEW as \in [Ids -> States \cup {Deleted, Unasked}], Says(ps, ds, as)
  PROVE  Updated(Without(s, ds), ps) =
           [id \in Ids |-> CASE as[id] = Unasked -> s[id]
                             [] as[id] = Deleted -> None
                             [] OTHER -> as[id]]
BY DistinctMarks DEF Says, Updated, Without, Held

LEMMA UpdateType ==
  ASSUME NEW s \in [Ids -> Held], NEW ps \in [Ids -> Held], NEW ds \in SUBSET Ids
  PROVE  /\ Without(s, ds) \in [Ids -> Held]
         /\ Updated(s, ps) \in [Ids -> Held]
BY DEF Updated, Without, Held

(* Nothing is staged only if nothing was asked for. *)
LEMMA NothingAsked ==
  ASSUME NEW as \in [Ids -> States \cup {Deleted, Unasked}], Says(Empty, {}, as)
  PROVE  \A id \in Ids : as[id] = Unasked
BY DistinctMarks DEF Says, Empty

----------------------------------------------------------------------------
(* Type correctness *)

LEMMA InitType == StoreInit => StoreTypeOK
BY DEF StoreInit, StoreTypeOK, Empty, Held, Working, NoWriter

LEMMA NextType == StoreTypeOK /\ [StoreNext]_storeStateVars => StoreTypeOK'
<1> SUFFICES ASSUME StoreTypeOK, [StoreNext]_storeStateVars
             PROVE  StoreTypeOK'
  OBVIOUS
<1> USE DEF StoreTypeOK
<1>e. Empty \in [Ids -> Held]
  BY DEF Empty, Held
<1>1. ASSUME NEW t \in Transactions, NEW id \in Ids, Delete(t, id)
      PROVE  StoreTypeOK'
  BY <1>1 DEF Delete, Staged, Held
<1>2. ASSUME NEW t \in Transactions, NEW id \in Ids, NEW s \in States, Put(t, id, s)
      PROVE  StoreTypeOK'
  BY <1>2 DEF Put, Staged, Held
<1>3. ASSUME NEW t \in Transactions, Rollback(t)
      PROVE  StoreTypeOK'
  BY <1>3, <1>e DEF Rollback, Closes
<1>4. ASSUME NEW t \in Transactions, CommitNothing(t)
      PROVE  StoreTypeOK'
  BY <1>4, <1>e DEF CommitNothing, Closes
<1>5. ASSUME NEW t \in Transactions, Commit(t)
      PROVE  StoreTypeOK'
  <2>1. stored' \in [Ids -> Held]
    BY <1>5, UpdateType DEF Commit
  <2>2. worker' \in [Transactions -> [at : Working \cup {"none", "done", "failed"},
                                      puts : [Ids -> Held], deletes : SUBSET Ids]]
    BY <1>5 DEF Commit, Arguments, Working
  <2> QED BY <1>5, <1>e, <2>1, <2>2 DEF Commit, Closes
<1>6. ASSUME NEW t \in Transactions, ThreadDeletes(t)
      PROVE  StoreTypeOK'
  <2>1. draft' \in [Ids -> Held]
    BY <1>6, UpdateType DEF ThreadDeletes
  <2>2. worker' \in [Transactions -> [at : Working \cup {"none", "done", "failed"},
                                      puts : [Ids -> Held], deletes : SUBSET Ids]]
    BY <1>6, ZenonT(60) DEF ThreadDeletes, Goes, Working
  <2> QED BY <1>6, <2>1, <2>2 DEF ThreadDeletes
<1>7. ASSUME NEW t \in Transactions, ThreadPuts(t)
      PROVE  StoreTypeOK'
  <2>1. draft' \in [Ids -> Held]
    BY <1>7, UpdateType DEF ThreadPuts
  <2> QED BY <1>7, <2>1, ZenonT(60) DEF ThreadPuts, Goes, Working
<1>8. ASSUME NEW t \in Transactions, ThreadCommits(t)
      PROVE  StoreTypeOK'
  BY <1>8, ZenonT(60) DEF ThreadCommits, Goes, Returns, Working, NoWriter
<1>9. ASSUME NEW t \in Transactions, ThreadFails(t)
      PROVE  StoreTypeOK'
  BY <1>9, ZenonT(60) DEF ThreadFails, Goes, Returns, Working, NoWriter
<1>10. ASSUME NEW t \in Transactions, CallerCancelled(t)
       PROVE  StoreTypeOK'
  BY <1>10 DEF CallerCancelled
<1>11. ASSUME ProcessCrashes
       PROVE  StoreTypeOK'
  <2>1. worker' \in [Transactions -> [at : Working \cup {"none", "done", "failed"},
                                      puts : [Ids -> Held], deletes : SUBSET Ids]]
    <3> SUFFICES ASSUME NEW t \in Transactions
                 PROVE  worker'[t] \in [at : Working \cup {"none", "done", "failed"},
                                        puts : [Ids -> Held], deletes : SUBSET Ids]
      BY <1>11 DEF ProcessCrashes
    <3> QED BY <1>11, ZenonT(60) DEF ProcessCrashes, Working
  <2>2. call' \in [Transactions -> {"none", "waits", "returned", "raised", "cancelled", "gone"}]
    BY <1>11 DEF ProcessCrashes
  <2> QED BY <1>11, <1>e, <2>1, <2>2 DEF ProcessCrashes, NoWriter
<1>12. ASSUME UNCHANGED storeStateVars
       PROVE  StoreTypeOK'
  BY <1>12 DEF storeStateVars
<1> QED
  BY <1>1, <1>2, <1>3, <1>4, <1>5, <1>6, <1>7, <1>8, <1>9, <1>10, <1>11, <1>12
  DEF StoreNext

----------------------------------------------------------------------------
(* The inductive invariant *)

LEMMA InitInv == StoreInit => IInv
<1> SUFFICES ASSUME StoreInit PROVE IInv
  OBVIOUS
<1>1. StagedInv
  BY DistinctMarks DEF StoreInit, StagedInv, Says, Empty
<1>2. LockInv
  BY DEF StoreInit, LockInv, Working
<1> QED BY <1>1, <1>2, InitType DEF IInv

LEMMA NextStaged == IInv /\ [StoreNext]_storeStateVars => StagedInv'
<1> SUFFICES ASSUME IInv, [StoreNext]_storeStateVars, NEW t \in Transactions
             PROVE  /\ ~closed'[t] => /\ call'[t] = "none" /\ worker'[t].at = "none"
                                      /\ Says(puts'[t], deletes'[t], asked'[t])
                    /\ worker'[t].at # "none" =>
                         Says(worker'[t].puts, worker'[t].deletes, asked'[t])
                    /\ call'[t] = "waits" => worker'[t].at \in Working
  BY DEF StagedInv
<1> DEFINE Goal == /\ ~closed'[t] => /\ call'[t] = "none" /\ worker'[t].at = "none"
                                     /\ Says(puts'[t], deletes'[t], asked'[t])
                   /\ worker'[t].at # "none" =>
                        Says(worker'[t].puts, worker'[t].deletes, asked'[t])
                   /\ call'[t] = "waits" => worker'[t].at \in Working
<1> USE DEF IInv, StoreTypeOK
<1>0. /\ ~closed[t] => /\ call[t] = "none" /\ worker[t].at = "none"
                       /\ Says(puts[t], deletes[t], asked[t])
      /\ worker[t].at # "none" => Says(worker[t].puts, worker[t].deletes, asked[t])
      /\ call[t] = "waits" => worker[t].at \in Working
  BY DEF StagedInv
<1>1. ASSUME NEW u \in Transactions, NEW id \in Ids, Delete(u, id)
      PROVE  Goal
  <2>1. worker' = worker /\ call' = call /\ closed' = closed
    BY <1>1 DEF Delete
  <2>2. CASE t = u
    <3>1. Says(puts'[t], deletes'[t], asked'[t])
      BY <1>0, <1>1, <2>2, DistinctMarks DEF Delete, Staged, Says
    <3> QED BY <1>0, <1>1, <2>1, <2>2, <3>1 DEF Delete
  <2>3. CASE t # u
    <3>1. puts'[t] = puts[t] /\ deletes'[t] = deletes[t] /\ asked'[t] = asked[t]
      BY <1>1, <2>3 DEF Delete, Staged
    <3> QED BY <1>0, <2>1, <3>1
  <2> QED BY <2>2, <2>3
<1>2. ASSUME NEW u \in Transactions, NEW id \in Ids, NEW s \in States, Put(u, id, s)
      PROVE  Goal
  <2>1. worker' = worker /\ call' = call /\ closed' = closed
    BY <1>2 DEF Put
  <2>2. CASE t = u
    <3>1. Says(puts'[t], deletes'[t], asked'[t])
      BY <1>0, <1>2, <2>2, DistinctMarks DEF Put, Staged, Says
    <3> QED BY <1>0, <1>2, <2>1, <2>2, <3>1 DEF Put
  <2>3. CASE t # u
    <3>1. puts'[t] = puts[t] /\ deletes'[t] = deletes[t] /\ asked'[t] = asked[t]
      BY <1>2, <2>3 DEF Put, Staged
    <3> QED BY <1>0, <2>1, <3>1
  <2> QED BY <2>2, <2>3
<1>3. ASSUME NEW u \in Transactions, Rollback(u)
      PROVE  Goal
  BY <1>0, <1>3 DEF Rollback, Closes
<1>4. ASSUME NEW u \in Transactions, CommitNothing(u)
      PROVE  Goal
  BY <1>0, <1>4 DEF CommitNothing, Closes
<1>5. ASSUME NEW u \in Transactions, Commit(u)
      PROVE  Goal
  <2>1. CASE t = u
    <3>1. closed'[t] /\ asked'[t] = asked[t]
      BY <1>5, <2>1 DEF Commit, Closes
    <3>2. /\ worker'[t].puts = puts[t] /\ worker'[t].deletes = deletes[t]
          /\ worker'[t].at = IF durable THEN "called" ELSE "done"
      BY <1>5, <2>1 DEF Commit, Arguments
    <3>3. call'[t] = IF durable THEN "waits" ELSE "returned"
      BY <1>5, <2>1 DEF Commit
    <3> QED BY <1>0, <1>5, <2>1, <3>1, <3>2, <3>3 DEF Commit, Working
  <2>2. CASE t # u
    <3>1. /\ closed'[t] = closed[t] /\ puts'[t] = puts[t] /\ deletes'[t] = deletes[t]
          /\ worker'[t] = worker[t] /\ call'[t] = call[t] /\ asked'[t] = asked[t]
      BY <1>5, <2>2 DEF Commit, Closes, Arguments
    <3> QED BY <1>0, <3>1
  <2> QED BY <2>1, <2>2
<1> DEFINE Runs(u) ==
      /\ worker[u].at \in Working
      /\ worker'[t].puts = worker[t].puts /\ worker'[t].deletes = worker[t].deletes
      /\ t # u => worker'[t].at = worker[t].at /\ call'[t] = call[t]
      /\ t = u => worker'[t].at \in Working \cup {"done", "failed"}
      /\ t = u => (call'[t] = call[t] /\ worker'[t].at \in Working) \/ call'[t] # "waits"
      /\ UNCHANGED <<puts, deletes, closed, asked>>
<1>6. ASSUME NEW u \in Transactions, Runs(u)
      PROVE  Goal
  BY <1>0, <1>6 DEF Working
<1>7. ASSUME NEW u \in Transactions, ThreadDeletes(u)
      PROVE  Goal
  <2>1. Runs(u)
    BY <1>7 DEF ThreadDeletes, Goes, At, Working
  <2> QED BY <1>6, <2>1
<1>8. ASSUME NEW u \in Transactions, ThreadPuts(u)
      PROVE  Goal
  <2>1. Runs(u)
    BY <1>8 DEF ThreadPuts, Goes, At, Working
  <2> QED BY <1>6, <2>1
<1>9. ASSUME NEW u \in Transactions, ThreadCommits(u)
      PROVE  Goal
  <2>1. Runs(u)
    BY <1>9 DEF ThreadCommits, Goes, Returns, At, Working
  <2> QED BY <1>6, <2>1
<1>10. ASSUME NEW u \in Transactions, ThreadFails(u)
       PROVE  Goal
  <2>1. Runs(u)
    BY <1>10 DEF ThreadFails, Goes, Returns, Working
  <2> QED BY <1>6, <2>1
<1>11. ASSUME NEW u \in Transactions, CallerCancelled(u)
       PROVE  Goal
  BY <1>0, <1>11 DEF CallerCancelled, Working
<1>12. ASSUME ProcessCrashes
       PROVE  Goal
  <2>1. closed'[t] /\ asked'[t] = asked[t] /\ call'[t] # "waits"
    BY <1>12 DEF ProcessCrashes
  <2>2. /\ worker'[t].puts = worker[t].puts /\ worker'[t].deletes = worker[t].deletes
        /\ worker'[t].at # "none" => worker[t].at # "none"
    BY <1>12 DEF ProcessCrashes
  <2> QED BY <1>0, <2>1, <2>2
<1>13. ASSUME UNCHANGED storeStateVars
       PROVE  Goal
  BY <1>0, <1>13 DEF storeStateVars
<1> HIDE DEF Goal, Runs
<1>14. Goal
  BY <1>1, <1>2, <1>3, <1>4, <1>5, <1>7, <1>8, <1>9, <1>10, <1>11, <1>12, <1>13
  DEF StoreNext
<1> QED BY <1>14 DEF Goal

LEMMA NextLock == IInv /\ [StoreNext]_storeStateVars => LockInv'
<1> SUFFICES ASSUME IInv, [StoreNext]_storeStateVars, NEW t \in Transactions
             PROVE  /\ worker'[t].at \in {"deleted", "written"} => writer' = t
                    /\ worker'[t].at \in Working => durable'
                    /\ worker'[t].at = "deleted" =>
                          draft' = Without(stored', worker'[t].deletes)
                    /\ worker'[t].at = "written" =>
                          draft' = Updated(Without(stored', worker'[t].deletes),
                                           worker'[t].puts)
  BY DEF LockInv, Without, Updated
<1> DEFINE Goal == /\ worker'[t].at \in {"deleted", "written"} => writer' = t
                   /\ worker'[t].at \in Working => durable'
                   /\ worker'[t].at = "deleted" =>
                         draft' = Without(stored', worker'[t].deletes)
                   /\ worker'[t].at = "written" =>
                         draft' = Updated(Without(stored', worker'[t].deletes),
                                          worker'[t].puts)
<1> USE DEF IInv, StoreTypeOK
<1>0. \A u \in Transactions :
         /\ worker[u].at \in {"deleted", "written"} => writer = u
         /\ worker[u].at \in Working => durable
         /\ worker[u].at = "deleted" => draft = Without(stored, worker[u].deletes)
         /\ worker[u].at = "written" =>
               draft = Updated(Without(stored, worker[u].deletes), worker[u].puts)
  BY DEF LockInv
<1> DEFINE Same == worker' = worker /\ writer' = writer /\ durable' = durable
                   /\ stored' = stored /\ draft' = draft
<1>1. ASSUME Same PROVE Goal
  BY <1>0, <1>1
<1>2. ASSUME NEW u \in Transactions, NEW id \in Ids,
             Delete(u, id) \/ \E s \in States : Put(u, id, s)
      PROVE  Goal
  <2>1. Same
    BY <1>2 DEF Delete, Put
  <2> QED BY <1>1, <2>1
<1>3. ASSUME NEW u \in Transactions,
             Rollback(u) \/ CommitNothing(u) \/ CallerCancelled(u)
      PROVE  Goal
  <2>1. Same
    BY <1>3 DEF Rollback, CommitNothing, CallerCancelled
  <2> QED BY <1>1, <2>1
<1>4. ASSUME NEW u \in Transactions, Commit(u)
      PROVE  Goal
  <2>1. writer' = writer /\ durable' = durable /\ draft' = draft
    BY <1>4 DEF Commit
  <2>2. CASE t = u
    <3>1. worker'[t].at = IF durable THEN "called" ELSE "done"
      BY <1>4, <2>2 DEF Commit, Arguments
    <3> QED BY <2>1, <3>1 DEF Working
  <2>3. CASE t # u
    <3>1. worker'[t] = worker[t]
      BY <1>4, <2>3 DEF Commit, Arguments
    <3>2. worker[t].at \in Working => stored' = stored
      BY <1>0, <1>4 DEF Commit
    <3> QED BY <1>0, <2>1, <3>1, <3>2 DEF Working
  <2> QED BY <2>2, <2>3
<1>5. ASSUME NEW u \in Transactions, ThreadDeletes(u)
      PROVE  Goal
  <2>1. /\ writer = NoWriter /\ writer' = u /\ stored' = stored /\ durable' = durable
        /\ draft' = Without(stored, worker[u].deletes)
        /\ worker' = [worker EXCEPT ![u].at = "deleted"]
        /\ worker[u].at = "called"
    BY <1>5 DEF ThreadDeletes, Goes, At
  <2>2. CASE t = u
    <3>1. worker'[t].at = "deleted" /\ worker'[t].deletes = worker[t].deletes
      BY <2>1, <2>2
    <3> QED BY <1>0, <2>1, <2>2, <3>1 DEF Working
  <2>3. CASE t # u
    <3>1. worker'[t] = worker[t] /\ worker[t].at \notin {"deleted", "written"}
      BY <1>0, <2>1, <2>3, DistinctMarks DEF NoWriter
    <3> QED BY <1>0, <2>1, <3>1
  <2> QED BY <2>2, <2>3
<1>6. ASSUME NEW u \in Transactions, ThreadPuts(u)
      PROVE  Goal
  <2>1. /\ writer' = writer /\ stored' = stored /\ durable' = durable
        /\ draft' = Updated(draft, worker[u].puts)
        /\ worker' = [worker EXCEPT ![u].at = "written"]
        /\ worker[u].at = "deleted"
    BY <1>6 DEF ThreadPuts, Goes, At
  <2>2. CASE t = u
    <3>1. /\ worker'[t].at = "written" /\ worker'[t].deletes = worker[t].deletes
          /\ worker'[t].puts = worker[t].puts
      BY <2>1, <2>2
    <3> QED BY <1>0, <2>1, <2>2, <3>1 DEF Working
  <2>3. CASE t # u
    <3>1. worker'[t] = worker[t] /\ worker[t].at \notin {"deleted", "written"}
      BY <1>0, <2>1, <2>3
    <3> QED BY <1>0, <2>1, <3>1
  <2> QED BY <2>2, <2>3
<1>7. ASSUME NEW u \in Transactions, ThreadCommits(u)
      PROVE  Goal
  <2>1. /\ durable' = durable /\ worker[u].at = "written"
        /\ worker' = [worker EXCEPT ![u].at = "done"]
    BY <1>7 DEF ThreadCommits, Goes, At
  <2>2. worker'[t].at \notin {"deleted", "written"}
    BY <1>0, <2>1
  <2>3. worker'[t].at \in Working => worker[t].at \in Working
    BY <2>1 DEF Working
  <2> QED BY <1>0, <2>1, <2>2, <2>3
<1>8. ASSUME NEW u \in Transactions, ThreadFails(u)
      PROVE  Goal
  <2>1. /\ durable' = durable /\ stored' = stored /\ draft' = draft
        /\ worker' = [worker EXCEPT ![u].at = "failed"]
        /\ writer' = IF writer = u THEN NoWriter ELSE writer
    BY <1>8 DEF ThreadFails, Goes
  <2>2. CASE t = u
    <3>1. worker'[t].at = "failed"
      BY <2>1, <2>2
    <3> QED BY <3>1 DEF Working
  <2>3. CASE t # u
    <3>1. worker'[t] = worker[t]
      BY <2>1, <2>3
    <3> QED BY <1>0, <2>1, <2>3, <3>1
  <2> QED BY <2>2, <2>3
<1>9. ASSUME ProcessCrashes
      PROVE  Goal
  <2>1. worker'[t].at \notin Working
    BY <1>9 DEF ProcessCrashes, Working
  <2> QED BY <2>1 DEF Working
<1>10. ASSUME UNCHANGED storeStateVars
       PROVE  Goal
  <2>1. Same
    BY <1>10 DEF storeStateVars
  <2> QED BY <1>1, <2>1
<1> HIDE DEF Goal, Same
<1>11. Goal
  BY <1>2, <1>3, <1>4, <1>5, <1>6, <1>7, <1>8, <1>9, <1>10 DEF StoreNext
<1> QED BY <1>11 DEF Goal

(* What is staged is what was asked for, and whoever writes to the database *)
(* holds its lock.                                                         *)
THEOREM InductiveInvariant == StoreSpec => []IInv
<1>1. IInv /\ [StoreNext]_storeStateVars => IInv'
  BY NextType, NextStaged, NextLock DEF IInv
<1> QED BY <1>1, InitInv, PTL DEF StoreSpec

(* Every variable keeps its type: the stores, the transactions and the      *)
(* threads that apply them.                                                *)
THEOREM TypeCorrect == StoreSpec => []StoreTypeOK
<1>1. IInv => StoreTypeOK
  BY DEF IInv
<1> QED BY <1>1, InductiveInvariant, PTL

----------------------------------------------------------------------------
(* The refinement of TransactionalStore *)

LEMMA InitImplements == StoreInit => Promise!Init
BY DEF StoreInit, Promise!Init, Fate, Told, Empty

(* The fate of a transaction by the step at which its worker is. *)
LEMMA FateOf ==
  ASSUME StoreTypeOK, StagedInv, NEW t \in Transactions
  PROVE  /\ ~closed[t] => Fate(t) = "open"
         /\ worker[t].at \in Working => Fate(t) = "committing"
         /\ worker[t].at = "done" => Fate(t) = "applied"
         /\ closed[t] /\ worker[t].at \in {"none", "failed"} => Fate(t) = "over"
BY DEF StagedInv, Fate, At, Working

(* What a step that only changes transaction u does to all fates. *)
LEMMA FateMoves ==
  ASSUME NEW u \in Transactions, NEW f, Fate(u)' = f,
         \A t \in Transactions \ {u} : Fate(t)' = Fate(t)
  PROVE  [t \in Transactions |-> Fate(t)]' =
           [[t \in Transactions |-> Fate(t)] EXCEPT ![u] = f]
OBVIOUS

LEMMA TellsOne ==
  ASSUME NEW u \in Transactions, NEW a, Told(u)' = a,
         \A t \in Transactions \ {u} : Told(t)' = Told(t)
  PROVE  [t \in Transactions |-> Told(t)]' =
           [[t \in Transactions |-> Told(t)] EXCEPT ![u] = a]
OBVIOUS

(* Applying the changes of a transaction is With of the abstract store. *)
LEMMA AppliesWith ==
  ASSUME StoreTypeOK, NEW u \in Transactions, NEW ps \in [Ids -> Held],
         NEW ds \in SUBSET Ids, Says(ps, ds, asked[u])
  PROVE  Updated(Without(stored, ds), ps) = Promise!With(u)
<1>1. asked[u] \in [Ids -> States \cup {Deleted, Unasked}] /\ stored \in [Ids -> Held]
  BY DEF StoreTypeOK
<1> QED BY <1>1, AppliesAsked DEF Promise!With

(* Fate and answer of a transaction whose worker and caller do not move. *)
LEMMA Unmoved ==
  ASSUME NEW t \in Transactions,
         closed'[t] = closed[t], worker'[t].at = worker[t].at, call'[t] = call[t]
  PROVE  Fate(t)' = Fate(t) /\ Told(t)' = Told(t)
BY DEF Fate, Told, At

LEMMA Stutters ==
  ASSUME durable' = durable, stored' = stored, asked' = asked,
         \A t \in Transactions : Fate(t)' = Fate(t) /\ Told(t)' = Told(t)
  PROVE  UNCHANGED Promise!storeVars
BY DEF Promise!storeVars

LEMMA StageImplements ==
  ASSUME StoreTypeOK, StagedInv, NEW u \in Transactions, NEW id \in Ids,
         NEW change \in States \cup {Deleted}, ~closed[u],
         Staged(u, id, change), UNCHANGED <<durable, stored, closed, call, worker>>
  PROVE  Promise!Next
<1>1. /\ [t \in Transactions |-> Fate(t)]' = [t \in Transactions |-> Fate(t)]
      /\ [t \in Transactions |-> Told(t)]' = [t \in Transactions |-> Told(t)]
  BY Unmoved
<1>2. Fate(u) = "open"
  BY FateOf
<1>3. Promise!Stage(u, id, change)
  BY <1>1, <1>2 DEF Staged, Promise!Stage
<1> QED BY <1>3 DEF Promise!Next

LEMMA RollbackImplements ==
  ASSUME StoreTypeOK, StoreTypeOK', StagedInv, StagedInv', NEW u \in Transactions, Rollback(u)
  PROVE  Promise!Next \/ UNCHANGED Promise!storeVars
<1>1. /\ UNCHANGED <<durable, stored, asked, call, worker>>
      /\ closed' = [closed EXCEPT ![u] = TRUE]
  BY DEF Rollback, Closes
<1>2. \A t \in Transactions \ {u} : Fate(t)' = Fate(t) /\ Told(t)' = Told(t)
  BY <1>1, Unmoved DEF StoreTypeOK
<1>3. Told(u)' = Told(u)
  BY <1>1 DEF Told
<1>4. CASE closed[u]
  <2>1. closed' = closed
    BY <1>1, <1>4 DEF StoreTypeOK
  <2> QED BY <1>1, <2>1, Unmoved, Stutters
<1>5. CASE ~closed[u]
  <2>1. worker[u].at = "none" /\ closed'[u]
    BY <1>1, <1>5 DEF StagedInv, StoreTypeOK
  <2>2. Fate(u) = "open" /\ Fate(u)' = "over"
    BY <1>1, <1>5, <2>1 DEF Fate, At
  <2>3. [t \in Transactions |-> Fate(t)]' =
          [[t \in Transactions |-> Fate(t)] EXCEPT ![u] = "over"]
    BY <1>2, <2>2, FateMoves
  <2>4. [t \in Transactions |-> Told(t)]' = [t \in Transactions |-> Told(t)]
    BY <1>2, <1>3
  <2>5. Promise!Discard(u)
    BY <1>1, <2>2, <2>3, <2>4
    DEF Promise!Discard, Promise!Moves, Promise!Tells
  <2> QED BY <2>5 DEF Promise!Next
<1> QED BY <1>4, <1>5

LEMMA CommitNothingImplements ==
  ASSUME StoreTypeOK, StagedInv, NEW u \in Transactions, CommitNothing(u)
  PROVE  Promise!Next
<1>1. /\ UNCHANGED <<durable, stored, asked, worker>> /\ ~closed[u]
      /\ closed' = [closed EXCEPT ![u] = TRUE]
      /\ call' = [call EXCEPT ![u] = "returned"]
      /\ puts[u] = Empty /\ deletes[u] = {}
  BY DEF CommitNothing, Closes
<1>2. \A t \in Transactions \ {u} : Fate(t)' = Fate(t) /\ Told(t)' = Told(t)
  BY <1>1, Unmoved DEF StoreTypeOK
<1>3. worker[u].at = "none" /\ call[u] = "none" /\ Says(Empty, {}, asked[u])
  BY <1>1 DEF StagedInv
<1>4. closed'[u] /\ call'[u] = "returned"
  BY <1>1 DEF StoreTypeOK
<1>5. /\ Fate(u) = "open" /\ Fate(u)' = "over"
      /\ Told(u) = "nothing" /\ Told(u)' = "stored"
  BY <1>1, <1>3, <1>4 DEF Fate, Told, At
<1>6. [t \in Transactions |-> Fate(t)]' =
        [[t \in Transactions |-> Fate(t)] EXCEPT ![u] = "over"]
  BY <1>2, <1>5, FateMoves
<1>7. [t \in Transactions |-> Told(t)]' =
        [[t \in Transactions |-> Told(t)] EXCEPT ![u] = "stored"]
  BY <1>2, <1>5, TellsOne
<1>8. \A id \in Ids : asked[u][id] = Unasked
  BY <1>3, NothingAsked DEF StoreTypeOK
<1>9. Promise!Discard(u)
  BY <1>1, <1>5, <1>6, <1>7, <1>8 DEF Promise!Discard, Promise!Moves, Promise!Tells
<1> QED BY <1>9 DEF Promise!Next

LEMMA CommitImplements ==
  ASSUME StoreTypeOK, StagedInv, NEW u \in Transactions, Commit(u)
  PROVE  Promise!Next
<1>1. /\ UNCHANGED <<durable, asked>> /\ ~closed[u]
      /\ closed' = [closed EXCEPT ![u] = TRUE]
      /\ call' = [call EXCEPT ![u] = IF durable THEN "waits" ELSE "returned"]
      /\ stored' = IF durable THEN stored ELSE Updated(Without(stored, deletes[u]), puts[u])
  BY DEF Commit, Closes
<1>2. \A t \in Transactions \ {u} : worker'[t] = worker[t]
  BY DEF Commit, Arguments, StoreTypeOK
<1>3. \A t \in Transactions \ {u} : Fate(t)' = Fate(t) /\ Told(t)' = Told(t)
  BY <1>1, <1>2, Unmoved DEF StoreTypeOK
<1>4. worker[u].at = "none" /\ call[u] = "none" /\ Says(puts[u], deletes[u], asked[u])
  BY <1>1 DEF StagedInv
<1>5. /\ closed'[u] /\ worker'[u].at = IF durable THEN "called" ELSE "done"
      /\ call'[u] = IF durable THEN "waits" ELSE "returned"
  BY <1>1 DEF StoreTypeOK, Commit, Arguments
<1>6. Fate(u) = "open" /\ Told(u) = "nothing"
  BY <1>1, <1>4 DEF Fate, Told
<1>7. CASE durable
  <2>1. Fate(u)' = "committing" /\ Told(u)' = Told(u)
    BY <1>5, <1>6, <1>7 DEF Fate, Told, At
  <2>2. [t \in Transactions |-> Fate(t)]' =
          [[t \in Transactions |-> Fate(t)] EXCEPT ![u] = "committing"]
    BY <1>3, <2>1, FateMoves
  <2>3. [t \in Transactions |-> Told(t)]' = [t \in Transactions |-> Told(t)]
    BY <1>3, <2>1
  <2>4. Promise!Commit(u)
    BY <1>1, <1>6, <1>7, <2>2, <2>3 DEF Promise!Commit, Promise!Moves
  <2> QED BY <2>4 DEF Promise!Next
<1>8. CASE ~durable
  <2>1. Fate(u)' = "applied" /\ Told(u)' = "stored"
    BY <1>5, <1>8 DEF Fate, Told, At
  <2>2. [t \in Transactions |-> Fate(t)]' =
          [[t \in Transactions |-> Fate(t)] EXCEPT ![u] = "applied"]
    BY <1>3, <2>1, FateMoves
  <2>3. [t \in Transactions |-> Told(t)]' =
          [[t \in Transactions |-> Told(t)] EXCEPT ![u] = "stored"]
    BY <1>3, <2>1, TellsOne
  <2>4. stored' = Promise!With(u)
    BY <1>1, <1>4, <1>8, AppliesWith DEF StoreTypeOK
  <2>5. Promise!Apply(u)
    BY <1>1, <1>6, <2>2, <2>3, <2>4 DEF Promise!Apply, Promise!Moves, Promise!Tells
  <2> QED BY <2>5 DEF Promise!Next
<1> QED BY <1>7, <1>8 DEF StoreTypeOK

LEMMA WritesImplement ==
  ASSUME StoreTypeOK, NEW u \in Transactions, ThreadDeletes(u) \/ ThreadPuts(u)
  PROVE  UNCHANGED Promise!storeVars
<1>1. /\ UNCHANGED <<durable, stored, asked, closed, call>>
      /\ worker[u].at \in Working /\ worker'[u].at \in Working
      /\ \A t \in Transactions \ {u} : worker'[t] = worker[t]
  BY DEF ThreadDeletes, ThreadPuts, At, Goes, Working, StoreTypeOK
<1>2. \A t \in Transactions : Fate(t)' = Fate(t) /\ Told(t)' = Told(t)
  BY <1>1 DEF Fate, Told, At, Working
<1> QED BY <1>1, <1>2, Stutters

LEMMA ThreadCommitsImplements ==
  ASSUME IInv, NEW u \in Transactions, ThreadCommits(u)
  PROVE  Promise!Next
<1> USE DEF IInv
<1>1. /\ UNCHANGED <<durable, asked, closed>> /\ stored' = draft
      /\ worker[u].at = "written" /\ worker'[u].at = "done"
      /\ \A t \in Transactions \ {u} : worker'[t] = worker[t]
      /\ call' = IF call[u] = "waits" THEN [call EXCEPT ![u] = "returned"] ELSE call
  BY DEF ThreadCommits, At, Goes, Returns, StoreTypeOK
<1>2. \A t \in Transactions \ {u} : Fate(t)' = Fate(t) /\ Told(t)' = Told(t)
  BY <1>1, Unmoved DEF StoreTypeOK
<1>3. closed[u] /\ Says(worker[u].puts, worker[u].deletes, asked[u])
  BY <1>1 DEF StagedInv
<1>4. Fate(u) = "committing" /\ Fate(u)' = "applied"
  BY <1>1, <1>3 DEF Fate, At
<1>5. [t \in Transactions |-> Fate(t)]' =
        [[t \in Transactions |-> Fate(t)] EXCEPT ![u] = "applied"]
  BY <1>2, <1>4, FateMoves
<1>6. stored' = Promise!With(u)
  <2>1. draft = Updated(Without(stored, worker[u].deletes), worker[u].puts)
    BY <1>1 DEF LockInv
  <2>2. worker[u].puts \in [Ids -> Held] /\ worker[u].deletes \in SUBSET Ids
    BY DEF StoreTypeOK
  <2> QED BY <1>1, <1>3, <2>1, <2>2, AppliesWith
<1>7. [t \in Transactions |-> Told(t)]' =
        IF call[u] = "waits" THEN [[t \in Transactions |-> Told(t)] EXCEPT ![u] = "stored"]
        ELSE [t \in Transactions |-> Told(t)]
  <2>1. CASE call[u] = "waits"
    <3>1. Told(u)' = "stored"
      BY <1>1, <2>1 DEF Told, StoreTypeOK
    <3> QED BY <1>2, <2>1, <3>1, TellsOne
  <2>2. CASE call[u] # "waits"
    <3>1. Told(u)' = Told(u)
      BY <1>1, <2>2 DEF Told
    <3> QED BY <1>2, <2>2, <3>1
  <2> QED BY <2>1, <2>2
<1>8. call[u] = "waits" => Told(u) = "nothing"
  BY DEF Told
<1>9. Promise!Apply(u)
  BY <1>1, <1>4, <1>5, <1>6, <1>7, <1>8 DEF Promise!Apply, Promise!Moves, Promise!Tells
<1> QED BY <1>9 DEF Promise!Next

LEMMA ThreadFailsImplements ==
  ASSUME IInv, NEW u \in Transactions, ThreadFails(u)
  PROVE  Promise!Next
<1> USE DEF IInv
<1>1. /\ UNCHANGED <<durable, stored, asked, closed>>
      /\ worker[u].at \in Working /\ worker'[u].at = "failed"
      /\ \A t \in Transactions \ {u} : worker'[t] = worker[t]
      /\ call' = IF call[u] = "waits" THEN [call EXCEPT ![u] = "raised"] ELSE call
  BY DEF ThreadFails, Goes, Returns, StoreTypeOK, Working
<1>2. \A t \in Transactions \ {u} : Fate(t)' = Fate(t) /\ Told(t)' = Told(t)
  BY <1>1, Unmoved DEF StoreTypeOK
<1>3. closed[u]
  BY <1>1 DEF StagedInv, Working
<1>4. Fate(u) = "committing" /\ Fate(u)' = "over"
  BY <1>1, <1>3 DEF Fate, At, Working
<1>5. [t \in Transactions |-> Fate(t)]' =
        [[t \in Transactions |-> Fate(t)] EXCEPT ![u] = "over"]
  BY <1>2, <1>4, FateMoves
<1>7. [t \in Transactions |-> Told(t)]' =
        IF call[u] = "waits"
        THEN [[t \in Transactions |-> Told(t)] EXCEPT ![u] = "not stored"]
        ELSE [t \in Transactions |-> Told(t)]
  <2>1. CASE call[u] = "waits"
    <3>1. Told(u)' = "not stored"
      BY <1>1, <2>1 DEF Told, StoreTypeOK
    <3> QED BY <1>2, <2>1, <3>1, TellsOne
  <2>2. CASE call[u] # "waits"
    <3>1. Told(u)' = Told(u)
      BY <1>1, <2>2 DEF Told
    <3> QED BY <1>2, <2>2, <3>1
  <2> QED BY <2>1, <2>2
<1>8. call[u] = "waits" => Told(u) = "nothing"
  BY DEF Told
<1>9. Promise!Discard(u)
  BY <1>1, <1>4, <1>5, <1>7, <1>8 DEF Promise!Discard, Promise!Moves, Promise!Tells
<1> QED BY <1>9 DEF Promise!Next

LEMMA CancelImplements ==
  ASSUME StoreTypeOK, NEW u \in Transactions, CallerCancelled(u)
  PROVE  Promise!Next
<1>1. /\ UNCHANGED <<durable, stored, asked, closed, worker>> /\ call[u] = "waits"
      /\ call' = [call EXCEPT ![u] = "cancelled"]
  BY DEF CallerCancelled
<1>2. \A t \in Transactions \ {u} : Told(t)' = Told(t)
  BY <1>1, Unmoved DEF StoreTypeOK
<1>3. Told(u) = "nothing" /\ Told(u)' = "cancelled"
  BY <1>1 DEF Told, StoreTypeOK
<1>4. [t \in Transactions |-> Fate(t)]' = [t \in Transactions |-> Fate(t)]
  BY <1>1 DEF Fate, At
<1>5. [t \in Transactions |-> Told(t)]' =
        [[t \in Transactions |-> Told(t)] EXCEPT ![u] = "cancelled"]
  BY <1>2, <1>3, TellsOne
<1>6. Promise!Abandon(u)
  BY <1>1, <1>3, <1>4, <1>5 DEF Promise!Abandon
<1> QED BY <1>6 DEF Promise!Next

LEMMA CrashImplements ==
  ASSUME StoreTypeOK, StagedInv, ProcessCrashes
  PROVE  Promise!Next
<1>1. UNCHANGED <<durable, asked>> /\ stored' = IF durable THEN stored ELSE Empty
  BY DEF ProcessCrashes
<1>2. ASSUME NEW t \in Transactions
      PROVE  /\ Fate(t)' = IF Fate(t) = "applied" THEN "applied" ELSE "over"
             /\ Told(t)' = Told(t)
  <2>1. /\ closed'[t] /\ call'[t] = IF call[t] = "waits" THEN "gone" ELSE call[t]
        /\ worker'[t].at = IF worker[t].at \in Working THEN "failed" ELSE worker[t].at
    BY DEF ProcessCrashes, StoreTypeOK, Working
  <2>2. Told(t)' = Told(t)
    BY <2>1 DEF Told
  <2>3. Fate(t)' = IF worker[t].at = "done" THEN "applied" ELSE "over"
    BY <2>1 DEF Fate, At, StoreTypeOK, Working
  <2>4. Fate(t) = "applied" <=> worker[t].at = "done"
    BY DEF Fate, At, StagedInv
  <2> QED BY <2>2, <2>3, <2>4
<1>3. Promise!Crash
  BY <1>1, <1>2 DEF Promise!Crash, Empty
<1> QED BY <1>3 DEF Promise!Next

(* Both stores keep the promise of TransactionalStore: of what was staged,  *)
(* the last change for each resource is applied, all at once and at most    *)
(* once, and a commit is not told otherwise (contracts.py, commit;          *)
(* sqlite_store.py, _apply).                                                *)
THEOREM KeepsPromiseHolds == StoreSpec => KeepsPromise
<1>1. ASSUME IInv, IInv', [StoreNext]_storeStateVars
      PROVE  [Promise!Next]_(Promise!storeVars)
  <2> USE DEF IInv
  <2>1. ASSUME NEW t \in Transactions, NEW id \in Ids, Delete(t, id)
        PROVE  Promise!Next
    BY <1>1, <2>1, StageImplements DEF Delete
  <2>2. ASSUME NEW t \in Transactions, NEW id \in Ids, NEW s \in States, Put(t, id, s)
        PROVE  Promise!Next
    BY <1>1, <2>2, StageImplements DEF Put
  <2>3. ASSUME NEW t \in Transactions, Rollback(t)
        PROVE  [Promise!Next]_(Promise!storeVars)
    BY <1>1, <2>3, RollbackImplements
  <2>4. ASSUME NEW t \in Transactions, CommitNothing(t) \/ Commit(t)
        PROVE  Promise!Next
    BY <1>1, <2>4, CommitNothingImplements, CommitImplements
  <2>5. ASSUME NEW t \in Transactions, ThreadDeletes(t) \/ ThreadPuts(t)
        PROVE  UNCHANGED Promise!storeVars
    BY <1>1, <2>5, WritesImplement
  <2>6. ASSUME NEW t \in Transactions,
               ThreadCommits(t) \/ ThreadFails(t) \/ CallerCancelled(t)
        PROVE  Promise!Next
    BY <1>1, <2>6, ThreadCommitsImplements, ThreadFailsImplements, CancelImplements
  <2>7. ASSUME ProcessCrashes
        PROVE  Promise!Next
    BY <1>1, <2>7, CrashImplements
  <2>8. ASSUME UNCHANGED storeStateVars
        PROVE  UNCHANGED Promise!storeVars
    BY <2>8 DEF storeStateVars, Promise!storeVars, Fate, Told, At
  <2> QED
    BY <1>1, <2>1, <2>2, <2>3, <2>4, <2>5, <2>6, <2>7, <2>8 DEF StoreNext
<1> QED BY <1>1, InductiveInvariant, PTL DEF StoreSpec, KeepsPromise
=============================================================================
