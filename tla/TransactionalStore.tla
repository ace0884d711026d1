------------------------- MODULE TransactionalStore -------------------------
(***************************************************************************)
(* What a state store promises (contracts.py, StateTransactionABC and      *)
(* StateStoreABC): of the changes that were staged, the last one for each  *)
(* resource ID is applied, all of them at once and at most once; a commit  *)
(* that succeeds has applied them and one that fails has not.              *)
(***************************************************************************)
CONSTANTS Ids, States, None, Deleted, Unasked, Transactions

VARIABLES
    stored,         \* ID -> its committed state
    asked,          \* transaction -> ID -> the last change staged for it
    fate,           \* transaction -> what has become of it
    told,           \* transaction -> what its committer was told
    keeps           \* the store survives a crash

storeVars == <<stored, asked, fate, told, keeps>>

Init ==
    /\ stored = [id \in Ids |-> None]
    /\ asked = [t \in Transactions |-> [id \in Ids |-> Unasked]]
    /\ fate = [t \in Transactions |-> "open"]
    /\ told = [t \in Transactions |-> "nothing"]
    /\ keeps \in BOOLEAN

\* The committed states after all the changes of t.
With(t) ==
    [id \in Ids |-> CASE asked[t][id] = Unasked -> stored[id]
                      [] asked[t][id] = Deleted -> None
                      [] OTHER -> asked[t][id]]

Stage(t, id, change) ==
    /\ fate[t] = "open"
    /\ asked' = [asked EXCEPT ![t][id] = change]
    /\ UNCHANGED <<stored, fate, told, keeps>>

Moves(t, from, to) == fate[t] \in from /\ fate' = [fate EXCEPT ![t] = to]
Tells(t, answers) ==
    \/ \E a \in answers : told[t] = "nothing" /\ told' = [told EXCEPT ![t] = a]
    \/ told' = told

Commit(t) ==
    /\ Moves(t, {"open"}, "committing")
    /\ UNCHANGED <<stored, asked, told, keeps>>

Apply(t) ==
    /\ Moves(t, {"open", "committing"}, "applied")
    /\ stored' = With(t)
    /\ Tells(t, {"stored"})
    /\ UNCHANGED <<asked, keeps>>

\* Rolled back, nothing to apply, or failed.
Discard(t) ==
    /\ Moves(t, {"open", "committing"}, "over")
    /\ Tells(t, IF \A id \in Ids : asked[t][id] = Unasked
                THEN {"stored", "not stored"} ELSE {"not stored"})
    /\ UNCHANGED <<stored, asked, keeps>>

\* Nobody is told anything by a commit that is cancelled.
Abandon(t) ==
    /\ told[t] = "nothing" /\ told' = [told EXCEPT ![t] = "cancelled"]
    /\ UNCHANGED <<stored, asked, fate, keeps>>

Crash ==
    /\ stored' = IF keeps THEN stored ELSE [id \in Ids |-> None]
    /\ fate' = [t \in Transactions |-> IF fate[t] = "applied" THEN "applied" ELSE "over"]
    /\ UNCHANGED <<asked, told, keeps>>

Next ==
    \/ \E t \in Transactions :
          \/ \E id \in Ids, change \in States \cup {Deleted} : Stage(t, id, change)
          \/ Commit(t) \/ Apply(t) \/ Discard(t) \/ Abandon(t)
    \/ Crash

Spec == Init /\ [][Next]_storeVars
=============================================================================
