---------------------------- MODULE MCExecution ----------------------------
(* Small instances of Execution for TLC. *)
EXTENDS Execution

CONSTANTS w1, w2, w3

MCItems3 == 1..3
MCWorkers3 == {w1, w2, w3}

\* Every graph of three items.
MCPlans3 == [MCItems3 -> SUBSET MCItems3]
=============================================================================
