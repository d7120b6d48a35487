---------------------------- MODULE GoalExecutor ----------------------------
(***************************************************************************)
(* The durable plan executor of a Goal: packages/goal-executor, and what   *)
(* the Host does around it (lifecycle.ts: the terminal hook of a Run, the  *)
(* recovery at start-up and the maintenance of Flows).                     *)
(*                                                                         *)
(* The executor pins a plan revision, runs its steps one at a time as      *)
(* child Tasks of a managed Flow and leaves the decision what follows a    *)
(* child to the controller, which is woken by the completion delivery      *)
(* (module TaskFlows has the deliveries in full).  A Task is named by its  *)
(* request key: revision, step and attempt.                                *)
(*                                                                         *)
(* The revisions of execution, step and Flow appear as what the snapshot   *)
(* of a wake sees: FRESH until one of them changes, STALE after.  The      *)
(* controller operations of a caller with a stale revision change nothing. *)
(* start, retry, adoption and cancellation are sequences of transactions   *)
(* that hold the event loop; a crash may come between two of them.         *)
(***************************************************************************)
EXTENDS Goals

CONSTANTS
    MaxAttempts,     \* the retry limit of a step
    MaxGoalCrashes,  \* bound on the crashes of the Host
    MaxGoalFaults    \* bound on terminal hooks that reject before the executor

NoStep == "NONE"

ASSUME ExecutorAssumption ==
    /\ NoStep \notin Step
    /\ MaxAttempts \in Nat \ {0}
    /\ MaxGoalCrashes \in Nat /\ MaxGoalFaults \in Nat

VARIABLES
    exec,         \* agent_goal_executions: status, planRevision, currentStepId
    stepExec,     \* agent_goal_step_executions, by revision and step
    blocker,      \* agent_goal_step_blockers.status by revision, step and type
    goalFlow,     \* the managed Flow: status and whether its cancellation is requested
    child,        \* the status of the child Task of every request key
    wake,         \* its completion delivery and the snapshot bound to it
    ended,        \* children whose terminal hook is due
    hook,         \* the child (at most one) whose hook is at its delivery
    doing,        \* the sequence that holds the event loop, "idle" if none
    back,         \* where a cancellation or an admission returns to
    goalCrashes,
    goalFaults

execRow == <<exec, stepExec, blocker, goalFlow, child, wake>>
execBound == <<goalCrashes, goalFaults>>
execVars == <<goalVars, execRow, ended, hook, doing, back, execBound>>

StepKey == Revision \X Step \X (1 .. MaxAttempts + 1)
Kind == {"TASK_OUTPUT", "TASK_FAILURE", "RETRY_LIMIT"}
ExecActive == {"QUEUED", "RUNNING", "WAITING", "BLOCKED"}
ExecTerminal == {"SUCCEEDED", "FAILED", "CANCELLED"}
ChildOver == {"SUCCEEDED", "BLOCKED", "FAILED", "CANCELLED"}
Idle == [status |-> "NONE", tries |-> 0, task |-> 0]
ExecRow == [status : {"ABSENT"} \cup ExecActive \cup ExecTerminal, rev : 0 .. MaxRev, cur : Step \cup {NoStep}]
StepStatus == {"PENDING", "READY", "RUNNING", "WAITING", "BLOCKED", "SUCCEEDED", "FAILED", "CANCELLED"}
Phase == {"idle", "advance", "admit", "children", "final", "project", "dispatch",
          "down", "recover", "drain", "maintain", "redrain"}
StepExecRow == [status : StepStatus \cup {"NONE"}, tries : 0 .. MaxAttempts + 1, task : 0 .. MaxAttempts + 1]
BlockerStatus == {"NONE", "OPEN", "RESOLVED"}

GoalTypeOK ==
    /\ GoalRowsOK
    /\ exec \in ExecRow
    /\ stepExec \in [Revision -> [Step -> StepExecRow]]
    /\ blocker \in [Revision \X Step \X Kind -> BlockerStatus]
    /\ goalFlow \in [status : {"ABSENT"} \cup ExecActive \cup ExecTerminal, cancel : BOOLEAN]
    /\ child \in [StepKey -> {"NONE", "ACTIVE"} \cup ChildOver]
    /\ wake \in [StepKey -> {"NONE", "PENDING", "FRESH", "STALE", "DECIDED", "CLOSED"}]
    /\ ended \subseteq StepKey /\ hook \subseteq StepKey
    /\ doing \in Phase /\ back \in {"idle", "drain", "redrain", "dispatch"}
    /\ goalCrashes \in 0 .. MaxGoalCrashes /\ goalFaults \in 0 .. MaxGoalFaults

GoalInit ==
    /\ GoalRowsInit
    /\ exec = [status |-> "ABSENT", rev |-> 0, cur |-> NoStep]
    /\ stepExec = [r \in Revision |-> [s \in Step |-> Idle]]
    /\ blocker = [b \in Revision \X Step \X Kind |-> "NONE"]
    /\ goalFlow = [status |-> "ABSENT", cancel |-> FALSE]
    /\ child = [k \in StepKey |-> "NONE"]
    /\ wake = [k \in StepKey |-> "NONE"]
    /\ ended = {} /\ hook = {} /\ doing = "idle" /\ back = "idle"
    /\ goalCrashes = 0 /\ goalFaults = 0

At(s) == stepExec[exec.rev][s]
StepsIn(status) == {s \in InPlan(exec.rev) : At(s).status = status}
First(S) == CHOOSE s \in S : \A e \in S : Ordinal(exec.rev, s) <= Ordinal(exec.rev, e)
KeyOf(s) == <<exec.rev, s, At(s).task>>
ActiveKeys == {k \in StepKey : child[k] = "ACTIVE"}
OpenBlockers == {b \in DOMAIN blocker : b[1] = exec.rev /\ blocker[b] = "OPEN"}
FlowLive == goalFlow.status \in ExecActive
StepDone(s) == At(s).status = "SUCCEEDED"

\* #canProjectMutablePlanStep: the pinned definition is the current one.
CanProject(s) ==
    \/ exec.rev = goal.rev
    \/ DefAt(exec.rev, s) # NoDef /\ DefAt(exec.rev, s) = DefAt(goal.rev, s)

Project(s, from, to) ==
    planStep' = IF CanProject(s) /\ planStep[s] \in from
                THEN [planStep EXCEPT ![s] = to] ELSE planStep

Staled == [k \in StepKey |-> IF wake[k] = "FRESH" THEN "STALE" ELSE wake[k]]

\* #assertControllerSnapshot: a wake decides on the snapshot it was bound to;
\* an operator (no key) calls with the current revisions.
Caller == {{}} \cup {{k} : k \in StepKey}
MayCall(c) == doing = "idle" /\ \A k \in c : wake[k] = "FRESH"
Decided(c) == wake' = [k \in StepKey |-> IF k \in c THEN "DECIDED" ELSE Staled[k]]

SetGoal(status) == goal' = [goal EXCEPT !.status = status]
Unblocked == IF goal.status = "BLOCKED"
             THEN goal' = [goal EXCEPT !.status = "ACTIVE", !.note = NoNote, !.count = 0]
             ELSE UNCHANGED goal

----------------------------------------------------------------------------
\* The plan before and beside the execution.

ExecFree == UNCHANGED <<execRow, ended, hook, back, doing, execBound>>

\* assertExecutionNotActive: a Goal with an execution leaves the tools.
UseGoalTool == doing = "idle" /\ exec.status = "ABSENT" /\ GoalTool /\ ExecFree

\* start: one transaction creates the Flow, the execution and its steps, then advance.
StartPlan ==
    /\ doing = "idle" /\ exec.status = "ABSENT"
    /\ goal.status = "ACTIVE" /\ plan[goal.rev] # <<>>
    /\ \A s \in InPlan(goal.rev) : planStep[s] = "PENDING"
    /\ LET first == plan[goal.rev][1].step
       IN  /\ exec' = [status |-> "QUEUED", rev |-> goal.rev, cur |-> first]
           /\ stepExec' = [stepExec EXCEPT ![goal.rev] =
                [s \in Step |-> IF s \notin InPlan(goal.rev) THEN Idle
                                ELSE [Idle EXCEPT !.status = IF s = first THEN "READY" ELSE "PENDING"]]]
    /\ goalFlow' = [goalFlow EXCEPT !.status = "QUEUED"]
    /\ doing' = "advance" /\ back' = "idle"
    /\ UNCHANGED <<goalVars, blocker, child, wake, ended, hook, execBound>>

\* revisePlan: a new immutable revision; a step whose definition changed since
\* the previous revision loses its history in the mutable plan.
RevisePlan(p) ==
    /\ doing = "idle" /\ goal.rev < MaxRev
    /\ exec.status \in ExecActive /\ goal.status \notin {"COMPLETED", "CANCELLED"}
    /\ planStep' = [s \in Step |->
         IF \E i \in DOMAIN p : p[i].step = s /\ p[i].def # DefAt(goal.rev, s)
         THEN "PENDING" ELSE planStep[s]]
    /\ plan' = [plan EXCEPT ![goal.rev + 1] = p]
    /\ goal' = [goal EXCEPT !.rev = @ + 1]
    /\ ExecFree

\* Mutant: the id alone makes a step stable.
StableById(s) == DefAt(exec.rev, s) # NoDef

\* The steps of the target revision: a completed step is preserved, the count
\* of attempts of a stable one kept.
Stable(s) == DefAt(exec.rev, s) # NoDef /\ DefAt(exec.rev, s) = DefAt(goal.rev, s)

Projected ==
    [s \in Step |->
        IF s \notin InPlan(goal.rev) THEN Idle
        ELSE [status |-> IF Stable(s) /\ StepDone(s) THEN "SUCCEEDED" ELSE "PENDING",
              tries |-> IF Stable(s) THEN At(s).tries ELSE 0, task |-> 0]]

RemovedIncomplete ==
    {s \in InPlan(exec.rev) \ InPlan(goal.rev) : DefAt(exec.rev, s) \notin Optional /\ ~StepDone(s)}

NextPending ==
    LET S == {s \in InPlan(goal.rev) : Projected[s].status = "PENDING"}
    IN  IF S = {} THEN NoStep
        ELSE CHOOSE s \in S : \A e \in S : Ordinal(goal.rev, s) <= Ordinal(goal.rev, e)

\* adoptPlanRevision
AdoptPlanRevision ==
    /\ doing = "idle" /\ exec.status \in {"WAITING", "BLOCKED"} /\ goal.rev > exec.rev
    /\ \A s \in StepsIn("RUNNING") \cup StepsIn("WAITING") : At(s).task = 0
    /\ OpenBlockers = {} /\ plan[goal.rev] # <<>> /\ RemovedIncomplete = {} /\ FlowLive
    /\ stepExec' = [stepExec EXCEPT ![goal.rev] =
         [s \in Step |-> IF s = NextPending THEN [Projected[s] EXCEPT !.status = "READY"] ELSE Projected[s]]]
    /\ LET status == IF NextPending # NoStep THEN "QUEUED" ELSE "RUNNING"
       IN  /\ exec' = [status |-> status, rev |-> goal.rev, cur |-> NextPending]
           /\ goalFlow' = [goalFlow EXCEPT !.status = status]
    /\ doing' = IF NextPending # NoStep THEN "advance" ELSE "idle"
    /\ back' = "idle"
    /\ planStep' = [s \in Step |->
         IF s \notin InPlan(goal.rev) THEN planStep[s]
         ELSE IF Projected[s].status = "SUCCEEDED" THEN "COMPLETED" ELSE "PENDING"]
    /\ Unblocked
    /\ wake' = Staled
    /\ UNCHANGED <<plan, blocker, child, ended, hook, execBound>>

----------------------------------------------------------------------------
\* Admission.


Admissible(s) ==
    /\ goalFlow.status \in {"QUEUED", "RUNNING"} /\ ~goalFlow.cancel
    /\ StepsIn("READY") # {} /\ s = First(StepsIn("READY"))
    /\ StepsIn("RUNNING") \cup StepsIn("WAITING") \cup StepsIn("BLOCKED") = {}
    /\ At(s).tries <= MaxAttempts     \* the request keys of the model end there

\* #admitReady, the transaction of runTask with its hook.
AdmitReady(s) ==
    LET n == At(s).tries + 1
    IN  /\ Admissible(s)
        /\ child' = [child EXCEPT ![<<exec.rev, s, n>>] = "ACTIVE"]
        /\ stepExec' = [stepExec EXCEPT ![exec.rev][s] = [status |-> "RUNNING", tries |-> n, task |-> n]]
        /\ Project(s, {"PENDING", "BLOCKED"}, "IN_PROGRESS")
        /\ exec' = [exec EXCEPT !.status = "RUNNING", !.cur = s]
        /\ goalFlow' = [goalFlow EXCEPT !.status = "RUNNING"]
        /\ UNCHANGED <<goal, plan, blocker, ended, hook, execBound>>

\* taskFlow.runTask over the protocol, or by the controller.
RunNext(c, s) ==
    /\ MayCall(c) /\ exec.status \in ExecActive
    /\ AdmitReady(s) /\ Decided(c)
    /\ UNCHANGED <<doing, back>>

\* The same call when the step already runs: the child is found again.
RunNextReplayed(k) ==
    /\ MayCall({k}) /\ StepsIn("READY") = {} /\ \E s \in StepsIn("RUNNING") : At(s).task > 0
    /\ wake' = [wake EXCEPT ![k] = "DECIDED"]
    /\ UNCHANGED <<goalVars, exec, stepExec, blocker, goalFlow, child, ended, hook, doing, back, execBound>>

\* The end of advance: a QUEUED execution is admitted, every other observed.
Admit ==
    /\ doing = "admit"
    /\ IF exec.status = "QUEUED" /\ \E s \in Step : Admissible(s)
       THEN \E s \in Step : AdmitReady(s) /\ wake' = Staled
       ELSE UNCHANGED <<goalVars, execRow, ended, hook, execBound>>
    /\ doing' = back
    /\ UNCHANGED back

----------------------------------------------------------------------------
\* The end of a child.

\* syncRunLifecycle ends the Task and inserts its delivery.
TaskEnds(k, status) ==
    /\ doing = "idle" /\ child[k] = "ACTIVE"
    /\ child' = [child EXCEPT ![k] = status]
    /\ wake' = [wake EXCEPT ![k] = "PENDING"]
    /\ ended' = ended \cup {k}
    /\ UNCHANGED <<goalVars, exec, stepExec, blocker, goalFlow, hook, doing, back, execBound>>

\* task.cancel: the callback dispatches the delivery before the hook runs.
OperatorCancelsTask(k) ==
    /\ doing = "idle" /\ child[k] = "ACTIVE"
    /\ child' = [child EXCEPT ![k] = "CANCELLED"]
    /\ wake' = [wake EXCEPT ![k] = IF FlowLive /\ ~goalFlow.cancel THEN "FRESH" ELSE "CLOSED"]
    /\ ended' = ended \cup {k}
    /\ UNCHANGED <<goalVars, exec, stepExec, blocker, goalFlow, hook, doing, back, execBound>>

Reconcilable(k) ==
    /\ stepExec[k[1]][k[2]].task = k[3] /\ stepExec[k[1]][k[2]].status = "RUNNING"
    /\ child[k] \in ChildOver

\* #applySucceededStep: the step with the next ordinal becomes READY.
ApplySucceededStep(k) ==
    LET s == k[2]
        next == {e \in StepsIn("PENDING") : Ordinal(exec.rev, e) = Ordinal(exec.rev, s) + 1}
        ready == next \cup StepsIn("READY")
    IN  /\ child[k] = "SUCCEEDED"
        /\ stepExec' = [stepExec EXCEPT ![exec.rev] =
             [e \in Step |-> IF e = s THEN [At(e) EXCEPT !.status = "SUCCEEDED"]
                             ELSE IF e \in next THEN [At(e) EXCEPT !.status = "READY"] ELSE At(e)]]
        /\ Project(s, DOMAIN StepTransitions, "COMPLETED")
        /\ exec' = [exec EXCEPT !.status = "RUNNING",
                                !.cur = IF ready = {} THEN NoStep ELSE First(ready)]
        /\ goalFlow' = [goalFlow EXCEPT !.status = "RUNNING"]
        /\ UNCHANGED <<goal, blocker>>

BlockStep(k, status, kind, from) ==
    /\ stepExec' = [stepExec EXCEPT ![exec.rev][k[2]].status = status]
    /\ Project(k[2], from, "BLOCKED")
    /\ exec' = [exec EXCEPT !.status = "BLOCKED", !.cur = k[2]]
    /\ blocker' = [blocker EXCEPT ![<<exec.rev, k[2], kind>>] = "OPEN"]
    /\ IF goal.status = "ACTIVE" THEN SetGoal("BLOCKED") ELSE UNCHANGED goal
    /\ goalFlow' = [goalFlow EXCEPT !.status = "BLOCKED"]

ApplyBlockedStep(k) ==
    /\ child[k] = "BLOCKED"
    /\ BlockStep(k, "BLOCKED", "TASK_OUTPUT", {"IN_PROGRESS"})

ApplyFailedStep(k) ==
    /\ child[k] = "FAILED"
    /\ BlockStep(k, "FAILED", IF k[3] >= MaxAttempts THEN "RETRY_LIMIT" ELSE "TASK_FAILURE",
                 {"IN_PROGRESS", "BLOCKED"})

\* reconcileTask: nothing for a child that is not the RUNNING one of its step,
\* a throw when the Flow is closed, the cancellation of the whole execution
\* for a cancelled child, and otherwise the projection of its outcome.
ReconcileTask(k, then) ==
    IF ~Reconcilable(k)
    THEN /\ doing' = then
         /\ UNCHANGED <<goalVars, execRow, back>>
    ELSE IF child[k] = "CANCELLED"
    THEN /\ doing' = IF FlowLive THEN "children" ELSE "project"
         /\ back' = IF then = "dispatch" THEN then ELSE back
         /\ goalFlow' = IF FlowLive THEN [goalFlow EXCEPT !.cancel = TRUE] ELSE goalFlow
         /\ wake' = Staled
         /\ UNCHANGED <<goalVars, exec, stepExec, blocker, child>>
    ELSE IF ~FlowLive
    THEN /\ doing' = IF then = "dispatch" THEN "idle" ELSE back
         /\ UNCHANGED <<goalVars, execRow, back>>
    ELSE /\ ApplySucceededStep(k) \/ ApplyBlockedStep(k) \/ ApplyFailedStep(k)
         /\ doing' = then
         /\ wake' = Staled
         /\ UNCHANGED <<plan, child, back>>

\* onRunTerminal: reconcileRun, then the delivery of the child.
GoalRunTerminal(k) ==
    /\ doing = "idle" /\ k \in ended
    /\ ReconcileTask(k, "dispatch")
    /\ ended' = ended \ {k}
    /\ hook' = IF doing' = "idle" THEN {} ELSE {k}
    /\ UNCHANGED execBound

Wakeable(k) == wake[k] = "PENDING"
WokenUp(k) == [wake EXCEPT ![k] = IF FlowLive /\ ~goalFlow.cancel THEN "FRESH" ELSE "CLOSED"]

DispatchEnded(k) ==
    /\ doing = "dispatch" /\ k \in hook
    /\ wake' = IF Wakeable(k) THEN WokenUp(k) ELSE wake
    /\ hook' = {} /\ doing' = "idle" /\ back' = "idle"
    /\ UNCHANGED <<goalVars, exec, stepExec, blocker, goalFlow, child, ended, execBound>>

\* The hook awaits a connector first, and a rejection skips the rest.
GoalHookRejects(k) ==
    /\ doing = "idle" /\ k \in ended /\ goalFaults < MaxGoalFaults
    /\ goalFaults' = goalFaults + 1
    /\ ended' = ended \ {k}
    /\ UNCHANGED <<goalVars, execRow, hook, doing, back, goalCrashes>>

\* completeWakeRun: a wake without a decision leaves the delivery FAILED.
WakeEnds(k) ==
    /\ doing = "idle" /\ wake[k] \in {"FRESH", "STALE", "DECIDED"}
    /\ wake' = [wake EXCEPT ![k] = IF @ = "DECIDED" THEN "CLOSED" ELSE "PENDING"]
    /\ UNCHANGED <<goalVars, exec, stepExec, blocker, goalFlow, child, ended, hook, doing, back, execBound>>

----------------------------------------------------------------------------
\* What the operator and the controller do with the execution.

\* start replayed, or the adoption of the revision that is already pinned.
Advance ==
    /\ doing = "idle" /\ exec.status \in ExecActive
    /\ doing' = "advance" /\ back' = "idle"
    /\ UNCHANGED <<goalVars, execRow, ended, hook, execBound>>

\* advance reads the child of the current step and reconciles it.
AdvanceReads ==
    /\ doing = "advance"
    /\ IF exec.cur # NoStep /\ At(exec.cur).task > 0
       THEN IF child[KeyOf(exec.cur)] = "ACTIVE"
            THEN doing' = back /\ UNCHANGED <<goalVars, execRow, back>>
            ELSE ReconcileTask(KeyOf(exec.cur), "admit")
       ELSE doing' = "admit" /\ UNCHANGED <<goalVars, execRow, back>>
    /\ UNCHANGED <<ended, hook, execBound>>

\* retry and resolveBlocker: #resumeBlockedStep, then advance.
ResumeBlockedStep(b, failedOnly) ==
    LET s == b[2]
    IN  /\ doing = "idle" /\ exec.status = "BLOCKED" /\ FlowLive
        /\ b \in OpenBlockers
        /\ At(s).status \in (IF failedOnly THEN {"FAILED"} ELSE {"BLOCKED", "FAILED"})
        /\ At(s).tries < MaxAttempts
        /\ blocker' = [blocker EXCEPT ![b] = "RESOLVED"]
        /\ stepExec' = [stepExec EXCEPT ![exec.rev][s].status = "READY", ![exec.rev][s].task = 0]
        /\ Project(s, {"BLOCKED"}, "IN_PROGRESS")
        /\ exec' = [exec EXCEPT !.status = "QUEUED", !.cur = s]
        /\ Unblocked
        /\ goalFlow' = [goalFlow EXCEPT !.status = "QUEUED"]
        /\ doing' = "advance" /\ back' = "idle"
        /\ wake' = Staled
        /\ UNCHANGED <<plan, child, ended, hook, execBound>>

Retry(b) == ResumeBlockedStep(b, TRUE)
ResolveBlocker(b) == ResumeBlockedStep(b, FALSE)

Wait(c) ==
    /\ MayCall(c) /\ StepsIn("READY") # {} /\ goalFlow.status \in {"QUEUED", "RUNNING", "WAITING"}
    /\ LET s == First(StepsIn("READY"))
       IN  /\ stepExec' = [stepExec EXCEPT ![exec.rev][s].status = "WAITING", ![exec.rev][s].task = 0]
           /\ exec' = [exec EXCEPT !.status = "WAITING", !.cur = s]
    /\ goalFlow' = [goalFlow EXCEPT !.status = "WAITING"]
    /\ Decided(c)
    /\ UNCHANGED <<goalVars, blocker, child, ended, hook, doing, back, execBound>>

Resume ==
    /\ doing = "idle" /\ FlowLive /\ StepsIn("WAITING") # {}
    /\ LET s == First(StepsIn("WAITING"))
       IN  /\ stepExec' = [stepExec EXCEPT ![exec.rev][s].status = "READY", ![exec.rev][s].task = 0]
           /\ Project(s, {"BLOCKED"}, "IN_PROGRESS")
           /\ exec' = [exec EXCEPT !.status = "QUEUED", !.cur = s]
    /\ Unblocked
    /\ goalFlow' = [goalFlow EXCEPT !.status = "QUEUED"]
    /\ doing' = "advance" /\ back' = "idle"
    /\ wake' = Staled
    /\ UNCHANGED <<plan, blocker, child, ended, hook, execBound>>

\* setBlocked of a BLOCKED execution touches the Flow alone.
SetBlockedAgain(c) ==
    /\ MayCall(c) /\ exec.status = "BLOCKED" /\ FlowLive
    /\ goalFlow' = [goalFlow EXCEPT !.status = "BLOCKED"]
    /\ Decided(c)
    /\ UNCHANGED <<goalVars, exec, stepExec, blocker, child, ended, hook, doing, back, execBound>>

FinishPlan(c) ==
    /\ MayCall(c) /\ goalFlow.status = "RUNNING" /\ goal.status = "ACTIVE"
    /\ exec.status \in ExecActive /\ \A s \in InPlan(exec.rev) : StepDone(s)
    /\ exec' = [exec EXCEPT !.status = "SUCCEEDED", !.cur = NoStep]
    /\ SetGoal("COMPLETED")
    /\ goalFlow' = [goalFlow EXCEPT !.status = "SUCCEEDED"]
    /\ Decided(c)
    /\ UNCHANGED <<plan, planStep, stepExec, blocker, child, ended, hook, doing, back, execBound>>

Fail(c) ==
    /\ MayCall(c) /\ FlowLive
    /\ exec' = [exec EXCEPT !.status = "FAILED"]
    /\ IF goal.status = "ACTIVE" THEN SetGoal("BLOCKED") ELSE UNCHANGED goal
    /\ goalFlow' = [goalFlow EXCEPT !.status = "FAILED"]
    /\ Decided(c)
    /\ UNCHANGED <<plan, planStep, stepExec, blocker, child, ended, hook, doing, back, execBound>>

GoalRequestCancel ==
    /\ doing = "idle" /\ FlowLive /\ ~goalFlow.cancel
    /\ goalFlow' = [goalFlow EXCEPT !.cancel = TRUE]
    /\ wake' = Staled
    /\ UNCHANGED <<goalVars, exec, stepExec, blocker, child, ended, hook, doing, back, execBound>>

----------------------------------------------------------------------------
\* Cancellation: the request, the children, the Flow, then the projection.

CancelPlan(c) ==
    /\ MayCall(c) /\ exec.status # "ABSENT" /\ exec.status # "CANCELLED"
    /\ doing' = IF FlowLive THEN "children" ELSE "project"
    /\ back' = "idle"
    /\ goalFlow' = IF FlowLive THEN [goalFlow EXCEPT !.cancel = TRUE] ELSE goalFlow
    /\ IF FlowLive THEN Decided(c) ELSE wake' = [k \in StepKey |-> IF k \in c THEN "DECIDED" ELSE wake[k]]
    /\ UNCHANGED <<goalVars, exec, stepExec, blocker, child, ended, hook, execBound>>

\* The Run of the child is CANCELLED and its delivery suppressed.
CancelNextChild ==
    /\ doing = "children"
    /\ IF ActiveKeys = {}
       THEN doing' = "final" /\ UNCHANGED <<child, wake, ended>>
       ELSE \E k \in ActiveKeys :
              /\ child' = [child EXCEPT ![k] = "CANCELLED"]
              /\ wake' = [wake EXCEPT ![k] = "CLOSED"]
              /\ ended' = ended \cup {k}
              /\ UNCHANGED doing
    /\ UNCHANGED <<goalVars, exec, stepExec, blocker, goalFlow, hook, back, execBound>>

CancelFinal ==
    /\ doing = "final"
    /\ goalFlow' = [goalFlow EXCEPT !.status = "CANCELLED"]
    /\ doing' = IF back = "redrain" THEN back ELSE "project"
    /\ wake' = Staled
    /\ UNCHANGED <<goalVars, exec, stepExec, blocker, child, ended, hook, back, execBound>>

ProjectCancelled ==
    /\ exec' = IF exec.status \in ExecTerminal THEN exec ELSE [exec EXCEPT !.status = "CANCELLED"]
    /\ LET hit == {s \in InPlan(exec.rev) : At(s).status \notin {"SUCCEEDED", "FAILED", "CANCELLED"}}
       IN  /\ stepExec' = [stepExec EXCEPT ![exec.rev] =
                [s \in Step |-> IF s \in hit THEN [At(s) EXCEPT !.status = "CANCELLED"] ELSE At(s)]]
           /\ planStep' = [s \in Step |-> IF s \in hit /\ planStep[s] # "COMPLETED" THEN "CANCELLED" ELSE planStep[s]]
    /\ IF goal.status \in {"COMPLETED", "CANCELLED"} THEN UNCHANGED goal ELSE SetGoal("CANCELLED")
    /\ UNCHANGED <<plan, blocker, goalFlow, child>>

CancelProjected ==
    /\ doing = "project"
    /\ ProjectCancelled
    /\ wake' = Staled
    /\ doing' = back
    /\ UNCHANGED <<ended, hook, back, execBound>>

----------------------------------------------------------------------------
\* Crash, start-up and maintenance.

GoalCrash ==
    /\ goalCrashes < MaxGoalCrashes /\ doing # "down" /\ exec.status # "ABSENT"
    /\ goalCrashes' = goalCrashes + 1
    /\ doing' = "down" /\ back' = "idle" /\ ended' = {} /\ hook' = {}
    /\ UNCHANGED <<goalVars, execRow, goalFaults>>

\* The recovery of the Runs: an interrupted one fails or is queued again.
RunsRecover ==
    /\ doing = "down"
    /\ \E lost \in SUBSET ActiveKeys :
         /\ child' = [k \in StepKey |-> IF k \in lost THEN "FAILED" ELSE child[k]]
         /\ wake' = [k \in StepKey |-> IF k \in lost THEN "PENDING" ELSE wake[k]]
    /\ doing' = "recover" /\ back' = "drain"
    /\ UNCHANGED <<goalVars, exec, stepExec, blocker, goalFlow, ended, hook, execBound>>

\* Mutant: recovery leaves the executions as it finds them.
RecoverPlansNot ==
    /\ doing = "recover"
    /\ doing' = IF exec.status \in ExecActive /\ goalFlow.status = "CANCELLED" THEN "project" ELSE "drain"
    /\ UNCHANGED <<goalVars, execRow, ended, hook, back, execBound>>

\* recover: a cancelled Flow is projected, every other execution advances.
RecoverPlans ==
    /\ doing = "recover"
    /\ doing' = IF exec.status \notin ExecActive THEN "drain"
                ELSE IF goalFlow.status = "CANCELLED" THEN "project" ELSE "advance"
    /\ UNCHANGED <<goalVars, execRow, ended, hook, back, execBound>>

\* drain: every delivery that is due, one transaction each.
DrainWakes ==
    /\ doing \in {"drain", "redrain"}
    /\ IF \E k \in StepKey : Wakeable(k)
       THEN (\E k \in StepKey : Wakeable(k) /\ wake' = WokenUp(k)) /\ UNCHANGED <<doing, back>>
       ELSE /\ doing' = IF doing = "drain" THEN "maintain" ELSE "idle"
            /\ back' = "idle"
            /\ UNCHANGED wake
    /\ UNCHANGED <<goalVars, exec, stepExec, blocker, goalFlow, child, ended, hook, execBound>>

\* The maintenance of Flows finalizes a requested cancellation, or replays one
\* that is stuck, without the executor; then the deliveries are drained.
Maintain ==
    /\ doing = "maintain"
    /\ \/ /\ FlowLive /\ goalFlow.cancel
          /\ doing' = "children"
       \/ /\ ~(FlowLive /\ goalFlow.cancel /\ ActiveKeys = {})
          /\ doing' = "redrain"
    /\ back' = "redrain"
    /\ UNCHANGED <<goalVars, execRow, ended, hook, execBound>>

BeginMaintain ==
    /\ doing = "idle" /\ FlowLive /\ (goalFlow.cancel \/ \E k \in StepKey : Wakeable(k))
    /\ doing' = "maintain"
    /\ UNCHANGED <<goalVars, execRow, ended, hook, back, execBound>>

----------------------------------------------------------------------------
GoalSequence ==
    \/ AdvanceReads \/ Admit \/ CancelNextChild \/ CancelFinal \/ CancelProjected
    \/ RunsRecover \/ RecoverPlans \/ DrainWakes \/ Maintain
    \/ \E k \in StepKey : DispatchEnded(k)

ChildStep(k) ==
    \/ \E s \in {"SUCCEEDED", "BLOCKED", "FAILED"} : TaskEnds(k, s)
    \/ GoalRunTerminal(k)

GoalNext ==
    \/ UseGoalTool \/ StartPlan \/ AdoptPlanRevision \/ Advance \/ Resume
    \/ \E p \in Drafts : RevisePlan(p)
    \/ \E b \in DOMAIN blocker : Retry(b) \/ ResolveBlocker(b)
    \/ \E c \in Caller :
          \/ \E s \in Step : RunNext(c, s)
          \/ Wait(c) \/ SetBlockedAgain(c) \/ FinishPlan(c) \/ Fail(c) \/ CancelPlan(c)
    \/ GoalRequestCancel \/ BeginMaintain \/ GoalCrash
    \/ GoalSequence
    \/ \E k \in StepKey : ChildStep(k) \/ RunNextReplayed(k) \/ OperatorCancelsTask(k) \/ GoalHookRejects(k) \/ WakeEnds(k)

\* The sequences run to their end, the Run of a child ends within its budget
\* and its hook is called; a Host that crashed is started again.
GoalFairness ==
    WF_execVars(GoalSequence) /\ \A k \in StepKey : SF_execVars(ChildStep(k))

GoalSpec == GoalInit /\ [][GoalNext]_execVars /\ GoalFairness

----------------------------------------------------------------------------
\* "At most one active Step and one active child Task": whatever the operator,
\* the controllers, a retry and a crash do, one step is open at a time and one
\* child runs (GoalPlanExecutorService).
OneActiveStep ==
    /\ Cardinality(ActiveKeys) <= 1
    /\ exec.rev > 0 => Cardinality({s \in InPlan(exec.rev) :
         At(s).status \in {"READY", "RUNNING", "WAITING", "BLOCKED", "FAILED"}}) <= 1

\* No step is tried more often than its retry limit, across retries, resolved
\* blockers and adopted plan revisions: only #resumeBlockedStep asks for the
\* limit, admission does not.
AttemptsBounded == \A r \in Revision, s \in Step : stepExec[r][s].tries <= MaxAttempts

\* An execution is BLOCKED exactly as long as a blocker of its current step is
\* OPEN, so a blocker can always be named to resume it, and none survives the
\* resumption to refuse a later adoption (getAnyOpenBlocker).
BlockedHasBlocker ==
    exec.status \in ExecActive =>
        /\ exec.status = "BLOCKED" <=> OpenBlockers # {}
        /\ \A b \in OpenBlockers : b[2] = exec.cur
        /\ Cardinality(OpenBlockers) <= 1

\* Completion is earned: a step counts as done, in the pinned plan and in the
\* mutable one, only if a child Task succeeded for the very definition the step
\* has there, across adoption and revision (sameStableStepDefinition).
Earned(s, d) == \E k \in StepKey : child[k] = "SUCCEEDED" /\ k[2] = s /\ DefAt(k[1], s) = d
CompletionIsEarned ==
    exec.status # "ABSENT" =>
        /\ \A s \in InPlan(exec.rev) : StepDone(s) => Earned(s, DefAt(exec.rev, s))
        /\ \A s \in InPlan(goal.rev) : planStep[s] = "COMPLETED" => Earned(s, DefAt(goal.rev, s))
        /\ exec.status = "SUCCEEDED" => \A s \in InPlan(exec.rev) : StepDone(s)

\* A CANCELLED execution has no child that runs and its Flow is closed; a Flow
\* whose cancellation was requested admits no child (a crash may interrupt the
\* cancellation after any transaction).
CancelledExecIsQuiet ==
    exec.status = "CANCELLED" => ActiveKeys = {} /\ ~FlowLive

\* A RUNNING execution at rest has a step to go on with, unless its plan is
\* done.  Refuted: the step behind the one that succeeded may have kept its
\* completion in a plan that was only reordered, and the steps behind that one
\* stay PENDING (README, Findings).
NeverStranded ==
    (exec.status = "RUNNING" /\ exec.cur = NoStep /\ doing = "idle") => StepsIn("PENDING") = {}

\* The executor's Goal before it has an execution: StepsInOrder, and a Goal the
\* tools completed has its whole plan completed.
ToolsKeepOrder ==
    exec.status = "ABSENT" =>
        /\ goal.rev > 0 => StepsInOrder(goal.rev)
        /\ goal.status = "COMPLETED" => \A s \in InPlan(goal.rev) : planStep[s] = "COMPLETED"

\* A QUEUED execution is admitted, blocked or closed in the end, although the
\* transaction that queued it and the one that admits its child are two and
\* the Host may crash between them (advance, recover).
QueuedIsAdmitted ==
    exec.status = "QUEUED" ~> (exec.status # "QUEUED" \/ goalFlow.cancel)

\* The outcome of a child reaches the step that waits for it, by the terminal
\* hook or by recovery, unless the Flow was closed meanwhile.
OutcomeIsProjected ==
    \A k \in StepKey : Reconcilable(k) ~> (~Reconcilable(k) \/ ~FlowLive)

\* Goals, plan revisions, step executions and blockers, through revised plans,
\* retries, crashes and faults.
GoalsAgree ==
    /\ GoalTypeOK
    /\ OneActiveStep /\ AttemptsBounded /\ BlockedHasBlocker
    /\ CompletionIsEarned /\ CancelledExecIsQuiet /\ ToolsKeepOrder

\* A queued execution is admitted and its outcome reaches the Goal.
GoalsProceed == QueuedIsAdmitted /\ OutcomeIsProjected
=============================================================================
