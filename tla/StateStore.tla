----------------------------- MODULE StateStore -----------------------------
(***************************************************************************)
(* Transactions of a state store (contracts.py, StateTransactionABC): puts *)
(* and deletes are staged in memory and a commit passes them to            *)
(* apply_changes, of the built-in store (stores.py) in the same step, of   *)
(* the durable one (examples/sqlite_store.py) in a worker thread that      *)
(* writes them in one database transaction.  The task that commits may be  *)
(* cancelled, the thread cannot; the process may crash.                    *)
(***************************************************************************)
EXTENDS Naturals, FiniteSets

CONSTANTS
    Ids,            \* resource IDs
    States,         \* what can be stored for one
    None,           \* no state
    Deleted,        \* a change: the state is removed
    Unasked,        \* no change
    Transactions

ASSUME DistinctMarks ==
    /\ None \notin States /\ Deleted \notin States /\ Unasked \notin States
    /\ Deleted # Unasked /\ Deleted # None /\ Unasked # None
    /\ None \notin Transactions

VARIABLES
    durable,        \* which of the two stores it is
    stored,         \* ID -> committed state
    puts,           \* transaction -> ID -> staged state, or None
    deletes,        \* transaction -> IDs staged for removal
    closed,         \* transaction -> _closed
    call,           \* transaction -> how its commit() stands
    worker,         \* transaction -> its apply_changes: step and arguments
    draft,          \* what the database transaction under way has written
    writer,         \* the one that holds the write lock of the database
    asked           \* history: the last change staged for each ID

storeStateVars ==
    <<durable, stored, puts, deletes, closed, call, worker, draft, writer, asked>>

Empty == [id \in Ids |-> None]
NoWriter == None

StoreInit ==
    /\ durable \in BOOLEAN
    /\ stored = Empty /\ draft = Empty /\ writer = NoWriter
    /\ puts = [t \in Transactions |-> Empty]
    /\ deletes = [t \in Transactions |-> {}]
    /\ closed = [t \in Transactions |-> FALSE]
    /\ call = [t \in Transactions |-> "none"]
    /\ worker = [t \in Transactions |-> [at |-> "none", puts |-> Empty, deletes |-> {}]]
    /\ asked = [t \in Transactions |-> [id \in Ids |-> Unasked]]

----------------------------------------------------------------------------
(* Staging.  put() and delete() of a closed transaction raise. *)

Staged(t, id, change) == asked' = [asked EXCEPT ![t][id] = change]

Put(t, id, state) ==
    /\ ~closed[t]
    /\ deletes' = [deletes EXCEPT ![t] = @ \ {id}]
    /\ puts' = [puts EXCEPT ![t][id] = state]
    /\ Staged(t, id, state)
    /\ UNCHANGED <<durable, stored, closed, call, worker, draft, writer>>

DeleteKeepsPut(t, id) ==                                            \* mutant
    /\ ~closed[t]
    /\ puts' = puts
    /\ deletes' = [deletes EXCEPT ![t] = @ \cup {id}]
    /\ Staged(t, id, Deleted)
    /\ UNCHANGED <<durable, stored, closed, call, worker, draft, writer>>
Delete(t, id) ==
    /\ ~closed[t]
    /\ puts' = [puts EXCEPT ![t][id] = None]
    /\ deletes' = [deletes EXCEPT ![t] = @ \cup {id}]
    /\ Staged(t, id, Deleted)
    /\ UNCHANGED <<durable, stored, closed, call, worker, draft, writer>>

Closes(t) ==
    /\ closed' = [closed EXCEPT ![t] = TRUE]
    /\ puts' = [puts EXCEPT ![t] = Empty]
    /\ deletes' = [deletes EXCEPT ![t] = {}]

\* rollback(), which may be repeated and may come while a commit is under way.
Rollback(t) ==
    /\ Closes(t)
    /\ UNCHANGED <<durable, stored, call, worker, draft, writer, asked>>

----------------------------------------------------------------------------
(* Committing: commit(), or the end of an `async with` block. *)

Without(states, ids) == [id \in Ids |-> IF id \in ids THEN None ELSE states[id]]
Updated(states, new) == [id \in Ids |-> IF new[id] # None THEN new[id] ELSE states[id]]

Returns(t, answer) ==
    call' = IF call[t] = "waits" THEN [call EXCEPT ![t] = answer] ELSE call

\* Nothing is staged.
CommitNothing(t) ==
    /\ ~closed[t]
    /\ puts[t] = Empty /\ deletes[t] = {}
    /\ Closes(t)
    /\ call' = [call EXCEPT ![t] = "returned"]
    /\ UNCHANGED <<durable, stored, worker, draft, writer, asked>>

Arguments(t) == worker' = [worker EXCEPT ![t] =
    [at |-> IF durable THEN "called" ELSE "done", puts |-> puts[t], deletes |-> deletes[t]]]

\* InMemoryStateStore._apply replaces the mapping.
Commit(t) ==
    /\ ~closed[t]
    /\ puts[t] # Empty \/ deletes[t] # {}
    /\ Closes(t)
    /\ Arguments(t)
    /\ call' = [call EXCEPT ![t] = IF durable THEN "waits" ELSE "returned"]
    /\ stored' = IF durable THEN stored ELSE Updated(Without(stored, deletes[t]), puts[t])
    /\ UNCHANGED <<durable, draft, writer, asked>>

At(t, step) == worker[t].at = step
Goes(t, step) == worker' = [worker EXCEPT ![t].at = step]

\* SQLiteTransaction._apply, in the thread: the first write takes the lock.
ThreadDeletes(t) ==
    /\ At(t, "called") /\ writer = NoWriter
    /\ writer' = t
    /\ draft' = Without(stored, worker[t].deletes)
    /\ Goes(t, "deleted")
    /\ UNCHANGED <<durable, stored, puts, deletes, closed, call, asked>>

AutocommittedDeletes(t) ==                                            \* mutant
    /\ At(t, "deleted")
    /\ stored' = draft /\ draft' = Updated(draft, worker[t].puts)
    /\ writer' = writer
    /\ Goes(t, "written")
    /\ UNCHANGED <<durable, puts, deletes, closed, call, asked>>
ThreadPuts(t) ==
    /\ At(t, "deleted")
    /\ draft' = Updated(draft, worker[t].puts)
    /\ Goes(t, "written")
    /\ UNCHANGED <<durable, stored, puts, deletes, closed, call, writer, asked>>

ThreadCommits(t) ==
    /\ At(t, "written")
    /\ stored' = draft
    /\ writer' = NoWriter
    /\ Goes(t, "done")
    /\ Returns(t, "returned")
    /\ UNCHANGED <<durable, puts, deletes, closed, draft, asked>>

\* A statement, the commit or the wait for the lock fails: the database rolls
\* back and commit() raises StateStoreError.
ThreadFails(t) ==
    /\ worker[t].at \in {"called", "deleted", "written"}
    /\ writer' = IF writer = t THEN NoWriter ELSE writer
    /\ Goes(t, "failed")
    /\ Returns(t, "raised")
    /\ UNCHANGED <<durable, stored, puts, deletes, closed, draft, asked>>

\* The task in commit() is cancelled; to_thread leaves the thread running.
CallerCancelled(t) ==
    /\ call[t] = "waits"
    /\ call' = [call EXCEPT ![t] = "cancelled"]
    /\ UNCHANGED <<durable, stored, puts, deletes, closed, worker, draft, writer, asked>>

\* The process ends with its transactions, threads and database connections.
ProcessCrashes ==
    /\ stored' = IF durable THEN stored ELSE Empty
    /\ writer' = NoWriter
    /\ puts' = [t \in Transactions |-> Empty]
    /\ deletes' = [t \in Transactions |-> {}]
    /\ closed' = [t \in Transactions |-> TRUE]
    /\ call' = [t \in Transactions |-> IF call[t] = "waits" THEN "gone" ELSE call[t]]
    /\ worker' = [t \in Transactions |->
          IF worker[t].at \in {"called", "deleted", "written"}
          THEN [worker[t] EXCEPT !.at = "failed"] ELSE worker[t]]
    /\ UNCHANGED <<durable, draft, asked>>

StoreNext ==
    \/ \E t \in Transactions :
          \/ \E id \in Ids : Delete(t, id) \/ \E s \in States : Put(t, id, s)
          \/ Rollback(t) \/ CommitNothing(t) \/ Commit(t)
          \/ ThreadDeletes(t) \/ ThreadPuts(t) \/ ThreadCommits(t) \/ ThreadFails(t)
          \/ CallerCancelled(t)
    \/ ProcessCrashes

StoreSpec == StoreInit /\ [][StoreNext]_storeStateVars

----------------------------------------------------------------------------
(* Properties *)

Held == States \cup {None}
Working == {"called", "deleted", "written"}

StoreTypeOK ==
    /\ durable \in BOOLEAN
    /\ stored \in [Ids -> Held] /\ draft \in [Ids -> Held]
    /\ puts \in [Transactions -> [Ids -> Held]]
    /\ deletes \in [Transactions -> SUBSET Ids]
    /\ closed \in [Transactions -> BOOLEAN]
    /\ call \in [Transactions -> {"none", "waits", "returned", "raised", "cancelled", "gone"}]
    /\ worker \in [Transactions ->
          [at : Working \cup {"none", "done", "failed"},
           puts : [Ids -> Held], deletes : SUBSET Ids]]
    /\ writer \in Transactions \cup {NoWriter}
    /\ asked \in [Transactions -> [Ids -> States \cup {Deleted, Unasked}]]

Fate(t) ==
    CASE ~closed[t] -> "open"
      [] closed[t] /\ At(t, "done") -> "applied"
      [] closed[t] /\ worker[t].at \in {"called", "deleted", "written"} -> "committing"
      [] OTHER -> "over"

Told(t) ==
    CASE call[t] = "returned" -> "stored"
      [] call[t] = "raised" -> "not stored"
      [] call[t] = "cancelled" -> "cancelled"
      [] OTHER -> "nothing"

Promise == INSTANCE TransactionalStore WITH
    keeps <- durable, fate <- [t \in Transactions |-> Fate(t)],
    told <- [t \in Transactions |-> Told(t)]

\* Both stores keep the promise of TransactionalStore, whatever is staged,
\* committed, rolled back, cancelled or lost in a crash meanwhile
\* (contracts.py, commit and apply_changes; sqlite_store.py, _apply).
KeepsPromise == [][Promise!Next]_(Promise!storeVars)
=============================================================================
