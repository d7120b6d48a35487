----------------------------- MODULE RunLedger -----------------------------
(***************************************************************************)
(* The durable Run ledger: the rows that ConversationService keeps for an  *)
(* Agent Run (agent_runs, run_attempts, run_events), the Task row that is  *)
(* projected from every update of a Run in the same transaction, and the   *)
(* parent side of a delegation wait.                                       *)
(*                                                                         *)
(* Every action is one BEGIN IMMEDIATE transaction of                      *)
(* packages/conversations/src/service.ts or delegation.ts.  A call that    *)
(* throws rolls its transaction back, so it is a stuttering step here and  *)
(* only the guard of the call appears.  The event log of a Run is kept as  *)
(* the one thing the code reads back from it: whether the log has a        *)
(* recoverable checkpoint (module EventLog shows that this is what         *)
(* hasRecoverableCheckpoint computes from the log).                        *)
(***************************************************************************)
EXTENDS Checkpoint

CONSTANTS
    Run,          \* the identities of Agent Runs
    Notified,     \* the Runs admitted as task_flow.child (notify policy DONE_ONLY)
    MaxAttempt    \* bound on the attempts of one Run

ASSUME LedgerAssumption ==
    /\ Notified \subseteq Run
    /\ MaxAttempt \in Nat \ {0}

VARIABLES
    status,       \* agent_runs.status, "ABSENT" before the Run is sent
    recovery,     \* agent_runs.recovery_state
    started,      \* agent_runs.started_at is set
    current,      \* attempt_number of current_attempt_id, 0 before the Run is sent
    attempt,      \* run_attempts.status of every attempt number
    reason,       \* terminal_reason of the current attempt
    resumable,    \* hasRecoverableCheckpoint of the events of the Run
    wait,         \* a run_delegation_waits row of the Run exists
    task,         \* tasks.status of the Task projected from the Run
    deliveries    \* number of task_completion_deliveries rows of that Task

ledgerVars == <<status, recovery, started, current, attempt, reason,
                resumable, wait, task, deliveries>>

TerminalRun == {"COMPLETED", "FAILED", "CANCELLED"}
RunStatus == {"CREATED", "RUNNING", "WAITING_APPROVAL"} \cup TerminalRun
AttemptNo == 1 .. MaxAttempt
AttemptStatus == RunStatus \cup {"ABORTED", "ABSENT"}
TerminalAttempt == TerminalRun \cup {"ABORTED"}
TerminalTask == {"SUCCEEDED", "FAILED", "CANCELLED", "TIMED_OUT", "LOST"}
TaskStatus == {"ABSENT", "QUEUED", "RUNNING"} \cup TerminalTask
RecoveryState == {"NONE", "RESUMABLE", "NON_RESUMABLE"}

\* Terminal reasons are told apart by what reads them: NONE (the column is
\* null), TIME (AGENT_TIME_BUDGET_EXCEEDED) and OTHER (any other code).
Reason == {"NONE", "TIME", "OTHER"}

Transitions ==
    [s \in RunStatus |->
        CASE s = "CREATED"          -> {"RUNNING", "FAILED", "CANCELLED"}
          [] s = "RUNNING"          -> {"WAITING_APPROVAL"} \cup TerminalRun
          [] s = "WAITING_APPROVAL" -> {"RUNNING"} \cup TerminalRun
          [] OTHER                  -> {}]

AppendEvent(r, e) == resumable' = [resumable EXCEPT ![r] = Extended(@, e)]

AttemptOf(r) == attempt[r][current[r]]

-----------------------------------------------------------------------------
(* The Task projection: syncRunLifecycle, called by every updateRun.        *)

\* Mutant: the started_at of a resumable Run is ignored.
ProjectedTaskQueued(old, s, rec, hasStarted, why, lost) ==
    IF old \in TerminalTask THEN old
    ELSE IF lost THEN "LOST"
    ELSE CASE s = "CREATED" -> "QUEUED"
           [] s \in {"RUNNING", "WAITING_APPROVAL"} -> "RUNNING"
           [] s = "COMPLETED" -> "SUCCEEDED"
           [] s = "CANCELLED" -> "CANCELLED"
           [] OTHER -> IF why = "TIME" THEN "TIMED_OUT" ELSE "FAILED"

ProjectedTask(old, s, rec, hasStarted, why, lost) ==
    IF old \in TerminalTask THEN old
    ELSE IF lost THEN "LOST"
    ELSE CASE s = "CREATED" ->
                  IF rec = "RESUMABLE" /\ hasStarted THEN "RUNNING" ELSE "QUEUED"
           [] s \in {"RUNNING", "WAITING_APPROVAL"} -> "RUNNING"
           [] s = "COMPLETED" -> "SUCCEEDED"
           [] s = "CANCELLED" -> "CANCELLED"
           [] OTHER -> IF why = "TIME" THEN "TIMED_OUT" ELSE "FAILED"

\* A delivery row is inserted by the update that makes a notified Task terminal.
NewDelivery(r, old, new) ==
    IF r \in Notified /\ new \in TerminalTask /\ old \notin TerminalTask
    THEN 1 ELSE 0

UpdateRun(r, s, rec, starting, why, lost) ==
    LET hasStarted == started[r] \/ starting
        new == ProjectedTask(task[r], s, rec, hasStarted, why, lost)
    IN  /\ status' = [status EXCEPT ![r] = s]
        /\ recovery' = [recovery EXCEPT ![r] = rec]
        /\ started' = [started EXCEPT ![r] = hasStarted]
        /\ task' = [task EXCEPT ![r] = new]
        /\ deliveries' = [deliveries EXCEPT ![r] = @ + NewDelivery(r, task[r], new)]

UpdateAttempt(r, s) == attempt' = [attempt EXCEPT ![r][current[r]] = s]

\* insertAttempt with the next attempt number, then its status is set to s.
InsertAttempt(r, s) ==
    /\ current[r] < MaxAttempt
    /\ current' = [current EXCEPT ![r] = @ + 1]
    /\ attempt' = [attempt EXCEPT ![r][current[r] + 1] = s]
    /\ reason' = [reason EXCEPT ![r] = "NONE"]

-----------------------------------------------------------------------------
Init ==
    /\ status = [r \in Run |-> "ABSENT"]
    /\ recovery = [r \in Run |-> "NONE"]
    /\ started = [r \in Run |-> FALSE]
    /\ current = [r \in Run |-> 0]
    /\ attempt = [r \in Run |-> [n \in AttemptNo |-> "ABSENT"]]
    /\ reason = [r \in Run |-> "NONE"]
    /\ resumable = [r \in Run |-> FALSE]
    /\ wait = [r \in Run |-> FALSE]
    /\ task = [r \in Run |-> "ABSENT"]
    /\ deliveries = [r \in Run |-> 0]

\* send with a new submissionKey.  A replayed key returns the stored Run.
Send(r) ==
    /\ status[r] = "ABSENT"
    /\ status' = [status EXCEPT ![r] = "CREATED"]
    /\ current' = [current EXCEPT ![r] = 1]
    /\ attempt' = [attempt EXCEPT ![r][1] = "CREATED"]
    /\ task' = [task EXCEPT ![r] = "QUEUED"]
    /\ AppendEvent(r, "run.created")
    /\ UNCHANGED <<recovery, started, reason, wait, deliveries>>

\* prepareExecutionAttempt does not throw.
Preparable(r) ==
    \/ status[r] = "CREATED" /\ AttemptOf(r) \in {"CREATED", "ABORTED"}
    \/ status[r] = "WAITING_APPROVAL" /\ AttemptOf(r) = "WAITING_APPROVAL"

\* An aborted attempt is replaced before Goal and Skill preparation; any other
\* preparable Run is only read.
PrepareExecutionAttempt(r) ==
    /\ Preparable(r)
    /\ IF AttemptOf(r) = "ABORTED"
       THEN /\ InsertAttempt(r, "CREATED")
            /\ UpdateRun(r, status[r], recovery[r], FALSE, "NONE", FALSE)
            /\ AppendEvent(r, "run.attempt.prepared")
            /\ UNCHANGED wait
       ELSE UNCHANGED ledgerVars

StartExecution(r) ==
    /\ status[r] = "CREATED"
    /\ IF AttemptOf(r) = "ABORTED"
       THEN InsertAttempt(r, "RUNNING")
       ELSE UpdateAttempt(r, "RUNNING") /\ UNCHANGED <<current, reason>>
    /\ UpdateRun(r, "RUNNING", "NONE", TRUE, reason[r], FALSE)
    /\ AppendEvent(r, "run.started")
    /\ UNCHANGED wait

\* appendEvent: no condition on the status of the Run.
RecordEvent(r, e) ==
    /\ status[r] # "ABSENT"
    /\ AppendEvent(r, e)
    /\ UNCHANGED <<status, recovery, started, current, attempt, reason, wait,
                   task, deliveries>>

\* updateExecutionUsage: no condition on the status of the Run either; the
\* reason is COALESCEd, so a call without one keeps the stored reason.
UpdateExecutionUsage(r, why) ==
    /\ status[r] # "ABSENT"
    /\ reason' = [reason EXCEPT ![r] = IF why = "NONE" THEN @ ELSE why]
    /\ UNCHANGED <<status, recovery, started, current, attempt, resumable, wait,
                   task, deliveries>>

TransitionRun(r, s, e) ==
    /\ status[r] \in RunStatus
    /\ s \in Transitions[status[r]]
    /\ IF s = "RUNNING" /\ AttemptOf(r) = "ABORTED"
       THEN InsertAttempt(r, s)
       ELSE UpdateAttempt(r, s) /\ UNCHANGED <<current, reason>>
    /\ UpdateRun(r, s, "NONE", s = "RUNNING", reason[r], FALSE)
    /\ AppendEvent(r, e)
    /\ UNCHANGED wait

ResumeExecution(r) ==
    /\ status[r] = "WAITING_APPROVAL"
    /\ AttemptOf(r) = "WAITING_APPROVAL"
    /\ UpdateRun(r, "RUNNING", "NONE", TRUE, reason[r], FALSE)
    /\ UpdateAttempt(r, "RUNNING")
    /\ AppendEvent(r, "run.resumed")
    /\ UNCHANGED <<current, reason, wait>>

\* appendApprovalToolResult for a call that has no stored result yet:
\* approval.resolved and then tool.completed are appended, and no checkpoint.
AppendApprovalToolResult(r) ==
    /\ status[r] \in RunStatus \ TerminalRun
    /\ AppendEvent(r, "tool.completed")
    /\ UNCHANGED <<status, recovery, started, current, attempt, reason, wait,
                   task, deliveries>>

Cancel(r) ==
    /\ status[r] \in RunStatus \ TerminalRun
    /\ UpdateRun(r, "CANCELLED", "NONE", FALSE, reason[r], FALSE)
    /\ UpdateAttempt(r, "CANCELLED")
    /\ AppendEvent(r, "run.cancelled")
    /\ UNCHANGED <<current, reason, wait>>

MarkExecutionLost(r) ==
    /\ status[r] \in {"CREATED", "RUNNING"}
    /\ IF AttemptOf(r) \in TerminalAttempt
       THEN UNCHANGED attempt
       ELSE UpdateAttempt(r, "ABORTED")
    /\ reason' = [reason EXCEPT ![r] = "OTHER"]
    /\ UpdateRun(r, "FAILED", "NON_RESUMABLE", FALSE, "OTHER", TRUE)
    /\ AppendEvent(r, "run.execution_lost")
    /\ UNCHANGED <<current, wait>>

\* Mutant: the attempt of an interrupted Run is left RUNNING.
InterruptExecutionKeep(r) ==
    /\ status[r] = "RUNNING"
    /\ IF resumable[r]
       THEN UpdateRun(r, "CREATED", "RESUMABLE", FALSE, reason[r], FALSE)
       ELSE UpdateRun(r, "FAILED", "NON_RESUMABLE", FALSE, reason[r], FALSE)
    /\ AppendEvent(r, "run.interrupted")
    /\ UNCHANGED <<current, attempt, reason, wait>>

InterruptExecution(r) ==
    /\ status[r] = "RUNNING"
    /\ UpdateAttempt(r, "ABORTED")
    /\ IF resumable[r]
       THEN UpdateRun(r, "CREATED", "RESUMABLE", FALSE, reason[r], FALSE)
       ELSE UpdateRun(r, "FAILED", "NON_RESUMABLE", FALSE, reason[r], FALSE)
    /\ AppendEvent(r, "run.interrupted")
    /\ UNCHANGED <<current, reason, wait>>

-----------------------------------------------------------------------------
(* Delegation: the parent side of a wait, and the termination of a child.   *)

\* markWaiting inserts the wait and the PENDING result delivery of agent.wait;
\* the parent attempt that called the Tool must be the current one.
MarkWaiting(r) ==
    /\ status[r] \in RunStatus
    /\ wait' = [wait EXCEPT ![r] = TRUE]
    /\ UNCHANGED <<status, recovery, started, current, attempt, reason,
                   resumable, task, deliveries>>

WaitForDelegation(r) ==
    /\ status[r] = "RUNNING"
    /\ wait[r]
    /\ UpdateAttempt(r, "ABORTED")
    /\ UpdateRun(r, "CREATED", "RESUMABLE", FALSE, reason[r], FALSE)
    /\ AppendEvent(r, "delegation.waiting")
    /\ UNCHANGED <<current, reason, wait>>

\* completeChild, what it does to the parent: the Tool result, three events of
\* which the last is a checkpoint, and the wait is deleted.  The status of the
\* parent is not looked at.
DeliverDelegationResult(r) ==
    /\ wait[r]
    /\ wait' = [wait EXCEPT ![r] = FALSE]
    /\ AppendEvent(r, "run.checkpoint")
    /\ UNCHANGED <<status, recovery, started, current, attempt, reason, task,
                   deliveries>>

\* terminateChild: a cancelled child is CANCELLED, a timed out one is FAILED
\* with the reason of the time budget.
TerminateChild(r, timedOut) ==
    LET s == IF timedOut THEN "FAILED" ELSE "CANCELLED"
        why == IF timedOut THEN "TIME" ELSE "OTHER"
    IN  /\ status[r] \in RunStatus \ TerminalRun
        /\ reason' = [reason EXCEPT ![r] = why]
        /\ UpdateAttempt(r, s)
        /\ UpdateRun(r, s, "NONE", FALSE, why, FALSE)
        /\ AppendEvent(r, IF timedOut THEN "run.failed" ELSE "run.cancelled")
        /\ UNCHANGED <<current, wait>>

-----------------------------------------------------------------------------
(* Startup: recoverIncompleteRuns classifies every RUNNING and every        *)
(* WAITING_APPROVAL Run in one transaction.                                 *)

Incomplete == {r \in Run : status[r] \in {"RUNNING", "WAITING_APPROVAL"}}

\* Mutant: the checkpoint is not looked at.
RecoveredStatusAlways(r) ==
    IF status[r] = "WAITING_APPROVAL" THEN "WAITING_APPROVAL" ELSE "CREATED"

RecoveredStatus(r) ==
    IF status[r] = "WAITING_APPROVAL" THEN "WAITING_APPROVAL"
    ELSE IF resumable[r] \/ wait[r] THEN "CREATED" ELSE "FAILED"

RecoveredState(r) ==
    IF RecoveredStatus(r) = "FAILED" THEN "NON_RESUMABLE" ELSE "RESUMABLE"

RecoveredTask(r) ==
    ProjectedTask(task[r], RecoveredStatus(r), RecoveredState(r), started[r],
                  reason[r], FALSE)

RecoverIncompleteRuns ==
    /\ status' = [r \in Run |-> IF r \in Incomplete THEN RecoveredStatus(r) ELSE status[r]]
    /\ recovery' = [r \in Run |-> IF r \in Incomplete THEN RecoveredState(r) ELSE recovery[r]]
    /\ attempt' = [r \in Run |->
            IF status[r] = "RUNNING"
            THEN [attempt[r] EXCEPT ![current[r]] = "ABORTED"] ELSE attempt[r]]
    /\ task' = [r \in Run |-> IF r \in Incomplete THEN RecoveredTask(r) ELSE task[r]]
    /\ deliveries' = [r \in Run |->
            IF r \in Incomplete
            THEN deliveries[r] + NewDelivery(r, task[r], RecoveredTask(r))
            ELSE deliveries[r]]
    /\ resumable' = [r \in Run |->
            IF r \in Incomplete
            THEN Extended(resumable[r], "run.recovery_classified") ELSE resumable[r]]
    /\ UNCHANGED <<started, current, reason, wait>>

-----------------------------------------------------------------------------
\* One representative of every class of event that callers of appendEvent use.
KernelEvent == {"model.requested", "tool.completed", "run.checkpoint"}

Operation(r) ==
    \/ Send(r)
    \/ PrepareExecutionAttempt(r)
    \/ StartExecution(r)
    \/ \E e \in KernelEvent : RecordEvent(r, e)
    \/ \E why \in Reason : UpdateExecutionUsage(r, why)
    \/ \E s \in RunStatus : TransitionRun(r, s, "run.transition")
    \/ ResumeExecution(r)
    \/ AppendApprovalToolResult(r)
    \/ Cancel(r)
    \/ MarkExecutionLost(r)
    \/ InterruptExecution(r)
    \/ MarkWaiting(r)
    \/ WaitForDelegation(r)
    \/ DeliverDelegationResult(r)
    \/ \E timedOut \in BOOLEAN : TerminateChild(r, timedOut)

Next == (\E r \in Run : Operation(r)) \/ RecoverIncompleteRuns

Spec == Init /\ [][Next]_ledgerVars

-----------------------------------------------------------------------------
\* The rows keep the types of their columns; a Task never has a second delivery.
TypeOK ==
    /\ status \in [Run -> RunStatus \cup {"ABSENT"}]
    /\ recovery \in [Run -> RecoveryState]
    /\ started \in [Run -> BOOLEAN]
    /\ current \in [Run -> 0 .. MaxAttempt]
    /\ attempt \in [Run -> [AttemptNo -> AttemptStatus]]
    /\ reason \in [Run -> Reason]
    /\ resumable \in [Run -> BOOLEAN]
    /\ wait \in [Run -> BOOLEAN]
    /\ task \in [Run -> TaskStatus]
    /\ deliveries \in [Run -> 0 .. 1]

\* The current attempt tells the same story as its Run, whatever sequence of
\* calls, crashes and recoveries led there: RUNNING only under a RUNNING Run,
\* and a Run that went back to CREATED keeps its ABORTED attempt attached
\* until prepareExecutionAttempt replaces it.
AttemptAgrees ==
    \A r \in Run :
        IF status[r] = "ABSENT" THEN current[r] = 0
        ELSE /\ current[r] \in AttemptNo
             /\ status[r] = "CREATED" => AttemptOf(r) \in {"CREATED", "ABORTED"}
             /\ status[r] = "FAILED" => AttemptOf(r) \in {"FAILED", "ABORTED"}
             /\ status[r] \notin {"CREATED", "FAILED"} => AttemptOf(r) = status[r]

\* At most one attempt of a Run is ever live: every superseded attempt is
\* ABORTED, so the replacement of an attempt never leaves two that can run.
SupersededAborted ==
    \A r \in Run, n \in AttemptNo :
        /\ n < current[r] => attempt[r][n] = "ABORTED"
        /\ n > current[r] => attempt[r][n] = "ABSENT"

\* recovery_state is consistent with the status: a resumable Run is either
\* queued again after it had started, or waiting for an approval; a Run that
\* was given up keeps its aborted attempt.
RecoveryAgrees ==
    \A r \in Run :
        /\ recovery[r] = "RESUMABLE" => status[r] \in {"CREATED", "WAITING_APPROVAL"}
        /\ status[r] = "ABSENT" => ~started[r] /\ recovery[r] = "NONE"
        /\ status[r] = "CREATED" => (started[r] <=> recovery[r] = "RESUMABLE")
        /\ status[r] \in {"RUNNING", "WAITING_APPROVAL"} => started[r]
        /\ recovery[r] = "NON_RESUMABLE" => status[r] = "FAILED" /\ AttemptOf(r) = "ABORTED"

\* The Task projection never drifts from its Run: it is terminal exactly when
\* the Run is, with the outcome of the Run, and a Run that is queued for a
\* resume is not shown as queued for the first time.
TaskAgrees ==
    \A r \in Run :
        /\ status[r] = "ABSENT" => task[r] = "ABSENT"
        /\ status[r] = "CREATED" => task[r] = IF started[r] THEN "RUNNING" ELSE "QUEUED"
        /\ status[r] \in {"RUNNING", "WAITING_APPROVAL"} => task[r] = "RUNNING"
        /\ status[r] = "COMPLETED" => task[r] = "SUCCEEDED"
        /\ status[r] = "CANCELLED" => task[r] = "CANCELLED"
        /\ status[r] = "FAILED" => task[r] \in {"FAILED", "TIMED_OUT", "LOST"}

\* A notified Task gets its completion delivery exactly once: not before the
\* Run ended, and never a second one when a terminal Run is recovered,
\* cancelled or marked lost again.
DeliveredOnce ==
    \A r \in Run :
        deliveries[r] = IF r \in Notified /\ status[r] \in TerminalRun THEN 1 ELSE 0

\* A terminal Run is never resurrected or given another outcome, by no call of
\* the ledger and no recovery; neither are its attempt number and its Task.
NoneResurrected ==
    \A r \in Run : status[r] \in TerminalRun =>
        /\ status'[r] = status[r] /\ recovery'[r] = recovery[r]
        /\ current'[r] = current[r] /\ task'[r] = task[r]
TerminalIsFinal == [][NoneResurrected]_ledgerVars

\* Work that is not known to be safe to repeat is never queued again: a RUNNING
\* Run goes back to CREATED only when its log has a recoverable checkpoint or
\* a durable delegation wait covers the open Tool call.
RequeuedSafely ==
    \A r \in Run : status[r] = "RUNNING" /\ status'[r] = "CREATED" => resumable[r] \/ wait[r]
RequeueOnlyWhenSafe == [][RequeuedSafely]_ledgerVars

Contract == INSTANCE TaskContract
            WITH Task <- Run, NotifiedTask <- Notified, state <- task, notices <- deliveries

\* Whatever the ledger does to Runs and attempts, an observer of Tasks sees a
\* Task that is queued, started at most once and ended at most once, with its
\* completion delivery in the step that ends it: no recovery, requeue or
\* duplicate call shows through.
ImplementsTaskContract == Contract!Spec

\* What the tables of Runs, attempts, Tasks and deliveries say together, after
\* any sequence of calls of ConversationService, crashes and recoveries.
LedgerAgrees ==
    TypeOK /\ AttemptAgrees /\ SupersededAborted /\ RecoveryAgrees /\ TaskAgrees /\ DeliveredOnce

\* What no call and no recovery may do to a Run: resurrect one that ended, or
\* queue work again that is not known to be safe to repeat.
LedgerSteps == TerminalIsFinal /\ RequeueOnlyWhenSafe
=============================================================================
