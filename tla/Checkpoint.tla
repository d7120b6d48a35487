----------------------------- MODULE Checkpoint -----------------------------
(***************************************************************************)
(* What the event log of a Run says about resuming it: the pure part of    *)
(* packages/conversations/src/service.ts that reads run_events back.       *)
(***************************************************************************)
EXTENDS Naturals, Sequences

\* Events that may follow a checkpoint without making the Run unsafe to repeat.
SafeAfterCheckpoint == {"model.requested", "model.retry"}

\* hasRecoverableCheckpoint of a log: the last checkpoint exists and only safe
\* events follow it.
HasRecoverableCheckpoint(events) ==
    \E i \in 1 .. Len(events) :
        /\ events[i].type = "run.checkpoint"
        /\ \A j \in (i + 1) .. Len(events) :
               /\ events[j].type # "run.checkpoint"
               /\ events[j].type \in SafeAfterCheckpoint

\* Mutant: a checkpoint stays good whatever follows it.
ExtendedForever(recoverable, e) == e = "run.checkpoint" \/ recoverable

\* The same fact kept as one Boolean while the log grows: what it becomes when
\* an event of type e is appended.
Extended(recoverable, e) ==
    \/ e = "run.checkpoint"
    \/ recoverable /\ e \in SafeAfterCheckpoint
=============================================================================
