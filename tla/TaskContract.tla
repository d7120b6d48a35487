---------------------------- MODULE TaskContract ----------------------------
(***************************************************************************)
(* What the background Task ledger promises to those who only see Tasks    *)
(* (task list, Task Flows, completion delivery): a Task is queued, may     *)
(* start once, ends once with one outcome, and the end of a Task whose     *)
(* notify policy is DONE_ONLY produces exactly one completion delivery, in *)
(* the same step.  Attempts, approvals, waits, crashes and recoveries are  *)
(* invisible.  RunLedger implements this specification.                    *)
(***************************************************************************)
EXTENDS Naturals

CONSTANTS
    Task,         \* the identities of Tasks
    NotifiedTask  \* those with notify policy DONE_ONLY

VARIABLES
    state,        \* the status of every Task
    notices       \* the completion deliveries of every Task

contractVars == <<state, notices>>

Outcome == {"SUCCEEDED", "FAILED", "CANCELLED", "TIMED_OUT", "LOST"}

Init ==
    /\ state = [t \in Task |-> "ABSENT"]
    /\ notices = [t \in Task |-> 0]

Queue(t) ==
    /\ state[t] = "ABSENT"
    /\ state' = [state EXCEPT ![t] = "QUEUED"]
    /\ UNCHANGED notices

Start(t) ==
    /\ state[t] = "QUEUED"
    /\ state' = [state EXCEPT ![t] = "RUNNING"]
    /\ UNCHANGED notices

\* Recovery ends the Tasks of all given-up Runs in one transaction, so a step
\* may end several Tasks.
Finish(T) ==
    /\ \A t \in T : state[t] \in {"QUEUED", "RUNNING"}
    /\ \E outcome \in [T -> Outcome] :
        state' = [t \in Task |-> IF t \in T THEN outcome[t] ELSE state[t]]
    /\ notices' = [t \in Task |->
            IF t \in T \cap NotifiedTask THEN notices[t] + 1 ELSE notices[t]]

Next == \/ \E t \in Task : Queue(t) \/ Start(t)
        \/ \E T \in SUBSET Task : Finish(T)

Spec == Init /\ [][Next]_contractVars
=============================================================================
