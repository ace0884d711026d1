--------------------------- MODULE OverlapService ---------------------------
(***************************************************************************)
(* What the overlap coordinator promises to the callers of refresh() and   *)
(* submit() (src/refresh_engine/_internal/coordinator.py): requests that   *)
(* are accepted wait in line in batches, one refresh runs at a time, for   *)
(* the batch that was first in line, and its outcome answers the calls in  *)
(* that batch and no other.  No tasks, no cancellation, no reentrancy: who *)
(* runs the refreshes, and how, is left open.                              *)
(*                                                                         *)
(* A batch is named by the call that opened it.                            *)
(***************************************************************************)
EXTENDS Naturals, Sequences

CONSTANTS
    Calls,      \* calls of submit()
    Policies,   \* overlap policies
    Wishes,     \* what requests may ask of a refresh, each a set of things to do
    Nobody      \* no batch

VARIABLES
    policy,     \* the policy of the engine
    closed,     \* the engine accepts nothing more
    line,       \* the batches that wait, in order
    running,    \* the batch whose refresh runs, or has ended unanswered
    outcome,    \* how that refresh ended, "none" before it did
    members,    \* batch -> the calls it answers
    work,       \* batch -> what its refresh does
    caller,     \* call -> what it is doing
    asked,      \* call -> what it asked for
    answer      \* call -> the answer it was given, if any

batchVars == <<line, members, work>>
refreshVars == <<running, outcome>>
callerVars == <<caller, asked, answer>>
serviceVars == <<policy, closed, batchVars, refreshVars, callerVars>>

Outcomes == {"result", "CANCELLED", "error"}
Waiting == {line[i] : i \in 1..Len(line)}
Idle == running = Nobody /\ line = <<>>

Init ==
    /\ policy \in Policies /\ closed = FALSE
    /\ line = <<>> /\ running = Nobody /\ outcome = "none"
    /\ members = [e \in Calls |-> {}]
    /\ caller = [c \in Calls |-> "idle"]
    /\ answer = [c \in Calls |-> "none"]
    /\ work \in [Calls -> Wishes] /\ asked \in [Calls -> Wishes]

\* The answers once those who still wait in the batches bs are given value.
Answered(bs, value) ==
    [c \in Calls |->
        IF (\E e \in bs : c \in members[e]) /\ caller[c] = "waiting" /\ answer[c] = "none"
        THEN value ELSE answer[c]]

----------------------------------------------------------------------------
(* Calls *)

\* An engine that is open and idle denies nobody.
Deny(c) ==
    /\ caller[c] = "idle" /\ (closed \/ ~Idle)
    /\ caller' = [caller EXCEPT ![c] = "denied"]
    /\ UNCHANGED <<policy, closed, batchVars, refreshVars, asked, answer>>

Accept(c, wish) ==
    /\ caller[c] = "idle" /\ ~closed
    /\ caller' = [caller EXCEPT ![c] = "waiting"]
    /\ asked' = [asked EXCEPT ![c] = wish]
    /\ UNCHANGED <<policy, closed, refreshVars>>

OpenBatch(c, wish) ==
    /\ members' = [members EXCEPT ![c] = {c}]
    /\ work' = [work EXCEPT ![c] = wish]

GetInLine(c, wish) ==
    /\ policy \in {"COALESCE", "QUEUE"} \/ Idle
    /\ Accept(c, wish) /\ OpenBatch(c, wish)
    /\ line' = Append(line, c)
    /\ UNCHANGED answer

\* A batch takes in a call only as long as it waits, and does all it was to do
\* and all that the call asks for.
JoinBatch(c, wish) ==
    /\ policy = "COALESCE"
    /\ Accept(c, wish)
    /\ \E e \in Waiting, more \in Wishes :
         /\ work[e] \cup wish \subseteq more
         /\ work' = [work EXCEPT ![e] = more]
         /\ members' = [members EXCEPT ![e] = @ \cup {c}]
    /\ UNCHANGED <<line, answer>>

\* The newest request takes the place of all that wait.
PushOut(c, wish) ==
    /\ policy = "CANCEL_PREVIOUS" /\ ~Idle
    /\ Accept(c, wish) /\ OpenBatch(c, wish)
    /\ line' = <<c>>
    /\ answer' = Answered(Waiting, "CANCELLED")

Take(c) ==
    /\ caller[c] = "waiting" /\ answer[c] # "none"
    /\ caller' = [caller EXCEPT ![c] = "answered"]
    /\ UNCHANGED <<policy, closed, batchVars, refreshVars, asked, answer>>

\* A caller that gives up, and what becomes of its batch: a batch that waits for
\* nobody leaves the line.
GiveUp(c) ==
    /\ caller[c] = "waiting"
    /\ caller' = [caller EXCEPT ![c] = "withdrawn"]
    /\ answer' = [answer EXCEPT ![c] = "none"]
    /\ UNCHANGED <<policy, closed, batchVars, refreshVars, asked>>

LeaveBatch(c, e) ==
    /\ c \in members[e]
    /\ members' = [members EXCEPT ![e] = @ \ {c}]

Leave(c) ==
    /\ caller[c] = "withdrawn"
    /\ caller' = [caller EXCEPT ![c] = "gone"]
    /\ \/ \E i \in 1..Len(line) :
            /\ LeaveBatch(c, line[i])
            /\ line' = IF members[line[i]] = {c}
                       THEN SubSeq(line, 1, i - 1) \o SubSeq(line, i + 1, Len(line))
                       ELSE line
       \/ running # Nobody /\ LeaveBatch(c, running) /\ UNCHANGED line
       \/ /\ \A e \in Waiting \cup ({running} \ {Nobody}) : c \notin members[e]
          /\ UNCHANGED <<members, line>>
    /\ UNCHANGED <<policy, closed, work, refreshVars, asked, answer>>

----------------------------------------------------------------------------
(* Refreshes *)

Finish ==
    /\ running # Nobody /\ outcome = "none"
    /\ outcome' \in Outcomes
    /\ UNCHANGED <<policy, closed, batchVars, running, callerVars>>

\* The batch whose refresh has ended is answered, and the refresh of the next
\* one begins.
Turn ==
    /\ running # Nobody => outcome # "none"
    /\ answer' = Answered({running} \ {Nobody}, outcome)
    /\ \/ line = <<>> /\ running' = Nobody /\ UNCHANGED line
       \/ line # <<>> /\ running' = Head(line) /\ line' = Tail(line)
    /\ outcome' = "none"
    /\ UNCHANGED <<policy, closed, members, work, caller, asked>>

\* The engine closes: all that waits is served, or all is cancelled, and then the
\* refresh that runs may end with it.
Shut ==
    /\ closed' = TRUE
    /\ \/ UNCHANGED <<line, answer, outcome>>
       \/ /\ line' = <<>> /\ answer' = Answered(Waiting, "CANCELLED")
          /\ \/ UNCHANGED outcome
             \/ running # Nobody /\ outcome = "none" /\ outcome' = "CANCELLED"
    /\ UNCHANGED <<policy, members, work, running, caller, asked>>

----------------------------------------------------------------------------
Next ==
    \/ \E c \in Calls :
         \/ Deny(c) \/ Take(c) \/ GiveUp(c) \/ Leave(c)
         \/ \E wish \in Wishes :
              GetInLine(c, wish) \/ JoinBatch(c, wish) \/ PushOut(c, wish)
    \/ Finish \/ Turn \/ Shut

Spec == Init /\ [][Next]_serviceVars
=============================================================================
