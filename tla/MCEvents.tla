------------------------------ MODULE MCEvents ------------------------------
(* Small instances for TLC of what surrounds a refresh: the publisher of     *)
(* events and the adapter that other threads use.  A behaviour is one of one *)
(* part; the other part rests.                                               *)
EXTENDS Events, Adapter

CONSTANTS h1, h2, c1

MCHandlers == {h1, h2}
MCCallers == {c1}

VARIABLE part       \* the one that runs

MCInit ==
    /\ part \in {"events", "adapter"}
    /\ Init /\ AdapterInit

\* The calls are over when each has an answer and the engine is closed.
AdapterOver ==
    /\ \A t \in Threads :
          /\ \/ thread[t] \in {"returned", "gave up", "refused"}
             \/ thread[t] = "idle" /\ t \in WorkThreads
          /\ call[t] \in {"none", "ended"}
    /\ serving = <<>> /\ undelivered = 0 /\ closing \in {"closed", "returned"}
    /\ UNCHANGED adapterVars

MCNext ==
    /\ UNCHANGED part
    /\ \/ part = "events" /\ Next /\ UNCHANGED adapterVars
       \/ part = "adapter" /\ (AdapterNext \/ AdapterOver) /\ UNCHANGED vars

MCSpec ==
    MCInit /\ [][MCNext]_<<part, vars, adapterVars>> /\ Fairness /\ AdapterFairness
=============================================================================
