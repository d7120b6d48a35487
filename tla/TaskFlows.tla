----------------------------- MODULE TaskFlows -----------------------------
(***************************************************************************)
(* A managed Task Flow and the delivery of the completion of its child     *)
(* Tasks: packages/task-flows, with the part of the Host that drives it.   *)
(*                                                                         *)
(* A Flow admits child Tasks, each executed by a Run of its own.  The      *)
(* transaction that ends a child inserts a completion delivery.  The Host  *)
(* dispatches it as a wake Run in which the controller decides what the    *)
(* Flow does next, and the delivery is DELIVERED when the events of the    *)
(* wake Run show a successful decision.  Every transaction is one step;    *)
(* synchronous sequences of transactions (drain, cancel, start-up) hold    *)
(* the event loop, so only a crash comes between their steps.              *)
(*                                                                         *)
(* The revision of the Flow row is left out: every mutation is conditional *)
(* on it, and a caller with a stale revision changes nothing.  A LOST Task *)
(* is a FAILED Run here, no caller in this module tells them apart.        *)
(***************************************************************************)
EXTENDS Naturals, FiniteSets

CONSTANTS
    Task,         \* the child Tasks the Flow may admit, one per request key
    MaxTries,     \* bound on the dispatch attempts of one delivery
    MaxCrashes,   \* bound on the crashes of the Host
    MaxFaults     \* bound on dispatches and terminal hooks that throw

ASSUME FlowAssumption ==
    /\ MaxTries \in Nat \ {0}
    /\ MaxCrashes \in Nat
    /\ MaxFaults \in Nat

VARIABLES
    flow,         \* the task_flows row: status, cancel_requested_at set, blocked_task_id
    delivery,     \* the task_completion_deliveries row of every child
    run,          \* agent_runs.status: <<t, 0>> runs t, <<t, k>> is the k-th wake
    recorded,     \* wake Runs with a successful decision among their events
    active,       \* the Runs the coordinator executes
    leaving,      \* the Runs that ended and whose onRunTerminal is due
    unrecorded,   \* wake Runs between a decision and its tool.completed event
    phase,        \* which synchronous sequence holds the event loop, "up" if none
    after,        \* the phase that follows a cancellation
    caller,       \* the wake Runs (at most one) that called task_flow.cancel
    todo,         \* the Tasks the sequence still has to visit
    cancelled,    \* the Tasks it cancelled and whose delivery it now dispatches
    flowCrashes,
    flowFaults

flowRow == <<flow, delivery, run, recorded>>
flowMemory == <<active, leaving, unrecorded, phase, after, caller, todo, cancelled>>
flowVars == <<flowRow, flowMemory, flowCrashes, flowFaults>>

NoTask == "NONE"
Wakes == Task \X (1 .. MaxTries)
Runs == Task \X (0 .. MaxTries)
FlowTerminal == {"SUCCEEDED", "FAILED", "CANCELLED", "LOST"}
FlowActive == {"QUEUED", "RUNNING", "WAITING", "BLOCKED"}
RunOver == {"COMPLETED", "FAILED", "CANCELLED"}
Actionable == {"PENDING", "SESSION_QUEUED", "FAILED"}

\* The rows, as far as the Flow depends on them.
FlowRow == [status : {"ABSENT"} \cup FlowActive \cup FlowTerminal,
            cancel : BOOLEAN, blocked : Task \cup {NoTask}]
DeliveryRow == [status : Actionable \cup {"NONE", "DELIVERED", "NOT_APPLICABLE"},
                tries : 0 .. MaxTries, wake : 0 .. MaxTries]

Allowed ==
    [s \in FlowActive |->
        CASE s = "QUEUED"  -> (FlowActive \cup FlowTerminal) \ {"SUCCEEDED"}
          [] s = "RUNNING" -> ({"WAITING", "BLOCKED"} \cup FlowTerminal)
          [] OTHER         -> {"QUEUED", "RUNNING", "FAILED", "CANCELLED", "LOST"}]

Linked == {t \in Task : run[<<t, 0>>] # "ABSENT"}
ActiveChildren == {t \in Linked : run[<<t, 0>>] \notin RunOver}
Closed == flow.status \in FlowTerminal \/ flow.cancel

\* getByWakeRun: a Run is a controller wake while a delivery names it.
Bound(r) == r[2] > 0 /\ delivery[r[1]].wake = r[2]

FlowTypeOK ==
    /\ flow \in FlowRow
    /\ delivery \in [Task -> DeliveryRow]
    /\ run \in [Runs -> {"ABSENT", "CREATED", "RUNNING"} \cup RunOver]
    /\ recorded \subseteq Wakes /\ unrecorded \subseteq Wakes
    /\ active \subseteq Runs /\ leaving \subseteq Runs
    /\ phase \in {"down", "drain", "schedule", "reconcile", "redrain", "cancel", "up"}
    /\ after \in {"up", "redrain"}
    /\ caller \subseteq Wakes
    /\ todo \subseteq Task /\ cancelled \subseteq Task
    /\ flowCrashes \in 0 .. MaxCrashes /\ flowFaults \in 0 .. MaxFaults

FlowInit ==
    /\ flow = [status |-> "ABSENT", cancel |-> FALSE, blocked |-> NoTask]
    /\ delivery = [t \in Task |-> [status |-> "NONE", tries |-> 0, wake |-> 0]]
    /\ run = [r \in Runs |-> "ABSENT"]
    /\ recorded = {} /\ unrecorded = {}
    /\ active = {} /\ leaving = {}
    /\ phase = "up" /\ after = "up" /\ caller = {}
    /\ todo = {} /\ cancelled = {}
    /\ flowCrashes = 0 /\ flowFaults = 0

----------------------------------------------------------------------------
\* The Flow row.

CreateManaged ==
    /\ phase = "up" /\ flow.status = "ABSENT"
    /\ \E s \in {"QUEUED", "RUNNING"} : flow' = [flow EXCEPT !.status = s]
    /\ UNCHANGED <<delivery, run, recorded, flowMemory, flowCrashes, flowFaults>>

\* update: blocked_task_id is written with every status.
UpdateFlow(status, task) == flow' = [flow EXCEPT !.status = status, !.blocked = task]

Mutate(target, t) ==
    /\ flow.status \in FlowActive
    /\ target = flow.status \/ target \in Allowed[flow.status]
    /\ target = "BLOCKED" => t \in Linked
    /\ UpdateFlow(target, IF target = "BLOCKED" THEN t ELSE NoTask)

SetWaiting == Mutate("WAITING", NoTask)
SetBlocked(t) == Mutate("BLOCKED", t)
FlowResume == \E s \in {"QUEUED", "RUNNING"} : Mutate(s, NoTask)
FlowFinish == Mutate("SUCCEEDED", NoTask)
FlowFail == Mutate("FAILED", NoTask)

ScheduleRun(t) == active' = IF t \in ActiveChildren THEN active \cup {<<t, 0>>} ELSE active

\* runTask: admission, classification, link and Flow update in one
\* transaction, then scheduleRun.  A request key that was used before returns
\* its Task and schedules its Run again.
RunTask(t) ==
    \/ /\ t \notin Linked
       /\ ~flow.cancel
       /\ flow.status \in {"QUEUED", "RUNNING"}
       /\ UpdateFlow("RUNNING", NoTask)
       /\ run' = [run EXCEPT ![<<t, 0>>] = "CREATED"]
       /\ active' = active \cup {<<t, 0>>}
    \/ /\ t \in Linked
       /\ ScheduleRun(t)
       /\ UNCHANGED <<flow, run>>

\* The tools of a wake Run that count as a decision, task_flow.cancel aside.
ControllerTool ==
    \/ /\ \E t \in Task : RunTask(t)
       /\ UNCHANGED <<delivery, recorded>>
    \/ /\ \/ SetWaiting
          \/ \E t \in Task : SetBlocked(t)
          \/ FlowFinish
          \/ FlowFail
       /\ UNCHANGED <<delivery, recorded, run, active>>

\* The same operations, and resume, called over the protocol.
OperatorCall ==
    /\ phase = "up"
    /\ \/ ControllerTool
       \/ FlowResume /\ UNCHANGED <<delivery, recorded, run, active>>
    /\ UNCHANGED <<leaving, unrecorded, phase, after, caller, todo, cancelled, flowCrashes, flowFaults>>

RequestCancel ==
    /\ flow.status \in FlowActive
    /\ flow' = [flow EXCEPT !.cancel = TRUE]

OperatorRequestCancel ==
    /\ phase = "up" /\ ~flow.cancel
    /\ RequestCancel
    /\ UNCHANGED <<delivery, run, recorded, flowMemory, flowCrashes, flowFaults>>

----------------------------------------------------------------------------
\* Completion deliveries.

\* syncRunLifecycle: the transaction that ends the Run of a child inserts the
\* delivery; the Run of a wake is SILENT.
EndRuns(rs, s) ==
    /\ run' = [r \in Runs |-> IF r \in rs THEN s ELSE run[r]]
    /\ delivery' = [t \in Task |-> IF <<t, 0>> \in rs
                                   THEN [delivery[t] EXCEPT !.status = "PENDING"]
                                   ELSE delivery[t]]

SuccessfulControllerDecision(r) == r \in recorded

CompleteWakeRun(r) ==
    delivery' = [delivery EXCEPT ![r[1]].status =
        IF ~Bound(r) \/ @ = "DELIVERED" \/ run[r] \notin RunOver THEN @
        ELSE IF SuccessfulControllerDecision(r) THEN "DELIVERED" ELSE "FAILED"]

\* update of a delivery row: the columns of a dispatch.
UpdateDelivery(t, status, tries, wake) ==
    delivery' = [delivery EXCEPT ![t] = [status |-> status, tries |-> tries, wake |-> wake]]

\* The transaction of dispatch that admits a wake Run.
AdmitWake(t) ==
    LET k == delivery[t].tries + 1
    IN  /\ ~Closed /\ k <= MaxTries
        /\ UpdateDelivery(t, "SESSION_QUEUED", k, k)
        /\ run' = [run EXCEPT ![<<t, k>>] = "CREATED"]
        /\ active' = active \cup {<<t, k>>}

Suppress(t) ==
    /\ Closed
    /\ UpdateDelivery(t, "NOT_APPLICABLE", delivery[t].tries, delivery[t].wake)
    /\ UNCHANGED <<run, active>>

\* dispatch of a delivery that has a wake Run: settle it or schedule it again.
Revisit(t) ==
    LET w == <<t, delivery[t].wake>>
    IN  /\ IF run[w] \in RunOver THEN CompleteWakeRun(w) /\ UNCHANGED active
           ELSE /\ active' = active \cup {w}
                /\ UNCHANGED delivery
        /\ UNCHANGED <<run, recorded>>

\* A throw rolls the transaction back and a second one writes FAILED.
DispatchFails(t) ==
    /\ flowFaults < MaxFaults /\ delivery[t].tries < MaxTries
    /\ flowFaults' = flowFaults + 1
    /\ UpdateDelivery(t, "FAILED", delivery[t].tries + 1, delivery[t].wake)
    /\ UNCHANGED <<run, recorded, active>>

\* dispatch.  MaxTries bounds the model, not the code.
Dispatch(t) ==
    \/ /\ delivery[t].status \notin Actionable
       /\ UNCHANGED <<delivery, run, recorded, active, flowFaults>>
    \/ /\ delivery[t].status = "SESSION_QUEUED"
       /\ Revisit(t)
       /\ UNCHANGED flowFaults
    \/ /\ delivery[t].status \in {"PENDING", "FAILED"}
       /\ Suppress(t) \/ AdmitWake(t)
       /\ UNCHANGED <<recorded, flowFaults>>
    \/ /\ delivery[t].status \in {"PENDING", "FAILED"} /\ ~Closed
       /\ delivery[t].tries = MaxTries
       /\ UNCHANGED <<delivery, run, recorded, active, flowFaults>>
    \/ /\ delivery[t].status \in {"PENDING", "FAILED"}
       /\ DispatchFails(t)

----------------------------------------------------------------------------
\* Runs and the controller.

StartRun(r) ==
    /\ phase = "up" /\ r \in active /\ run[r] = "CREATED"
    /\ run' = [run EXCEPT ![r] = "RUNNING"]
    /\ UNCHANGED <<flow, delivery, recorded, flowMemory, flowCrashes, flowFaults>>

\* A tool of a wake Run changes the Flow; the event tool.completed is a later
\* transaction of the kernel.
Decide(r) ==
    /\ phase = "up" /\ r \in active /\ run[r] = "RUNNING"
    /\ Bound(r) /\ r \notin unrecorded
    /\ ControllerTool
    /\ unrecorded' = unrecorded \cup {r}
    /\ UNCHANGED <<leaving, phase, after, caller, todo, cancelled, flowCrashes, flowFaults>>

RecordDecision(r) ==
    /\ phase = "up" /\ r \in unrecorded
    /\ recorded' = IF run[r] = "RUNNING" THEN recorded \cup {r} ELSE recorded
    /\ unrecorded' = unrecorded \ {r}
    /\ UNCHANGED <<flow, delivery, run, active, leaving, phase, after, caller, todo, cancelled,
                   flowCrashes, flowFaults>>

WakeRunEnds(r) ==
    /\ phase = "up" /\ r \in active /\ run[r] = "RUNNING" /\ r \notin unrecorded
    /\ \E s \in {"COMPLETED", "FAILED"} : EndRuns({r}, s)
    /\ active' = active \ {r}
    /\ leaving' = leaving \cup {r}
    /\ UNCHANGED <<flow, recorded, unrecorded, phase, after, caller, todo, cancelled,
                   flowCrashes, flowFaults>>

\* run.cancel of any Run: its execution is aborted and leaves.
CancelRun(r) ==
    /\ phase = "up" /\ run[r] \in {"CREATED", "RUNNING"}
    /\ EndRuns({r}, "CANCELLED")
    /\ active' = active \ {r}
    /\ leaving' = leaving \cup ({r} \cap active)
    /\ UNCHANGED <<flow, recorded, unrecorded, phase, after, caller, todo, cancelled,
                   flowCrashes, flowFaults>>

\* A coordinator error: the execution is gone and its Run is not terminal.
DropExecution(r) ==
    /\ phase = "up" /\ r \in active /\ run[r] = "CREATED" /\ flowFaults < MaxFaults
    /\ active' = active \ {r}
    /\ flowFaults' = flowFaults + 1
    /\ UNCHANGED <<flowRow, leaving, unrecorded, phase, after, caller, todo, cancelled, flowCrashes>>

\* Mutant: the terminal hook forgets the deliveries.
OnRunTerminalSilent(r) ==
    /\ phase = "up" /\ r \in leaving
    /\ leaving' = leaving \ {r}
    /\ UNCHANGED <<flowRow, active, unrecorded, phase, after, caller, todo, cancelled,
                   flowCrashes, flowFaults>>

\* onRunTerminal: completeWakeRun of a wake, deliverRun of a child.
OnRunTerminal(r) ==
    /\ phase = "up" /\ r \in leaving
    /\ leaving' = leaving \ {r}
    /\ \/ /\ r[2] > 0
          /\ CompleteWakeRun(r)
          /\ UNCHANGED <<run, recorded, active, flowFaults>>
       \/ /\ r[2] = 0
          /\ Dispatch(r[1])
    /\ UNCHANGED <<flow, unrecorded, phase, after, caller, todo, cancelled, flowCrashes>>

\* The hook first awaits the deliveries of a connector; when that rejects, the
\* rest of the hook is skipped.
OnRunTerminalRejects(r) ==
    /\ phase = "up" /\ r \in leaving /\ flowFaults < MaxFaults
    /\ leaving' = leaving \ {r}
    /\ flowFaults' = flowFaults + 1
    /\ UNCHANGED <<flowRow, active, unrecorded, phase, after, caller, todo, cancelled, flowCrashes>>

----------------------------------------------------------------------------
\* Cancellation of the Flow: three transactions and more, one call.

BeginCancel(back) ==
    /\ flow.status \in FlowActive
    /\ RequestCancel
    /\ phase' = "cancel" /\ after' = back
    /\ todo' = ActiveChildren
    /\ UNCHANGED <<delivery, run, recorded, active, leaving, unrecorded, cancelled,
                   flowCrashes, flowFaults>>

OperatorCancel ==
    /\ phase = "up"
    /\ BeginCancel("up")
    /\ UNCHANGED caller

DecideCancel(r) ==
    /\ phase = "up" /\ r \in active /\ run[r] = "RUNNING" /\ Bound(r) /\ r \notin unrecorded
    /\ BeginCancel("up")
    /\ caller' = {r}

\* tasks.cancel of one child: its Run is CANCELLED and its execution aborted,
CancelChild(t) ==
    /\ phase = "cancel" /\ t \in todo /\ cancelled = {}
    /\ EndRuns({<<t, 0>>}, "CANCELLED")
    /\ leaving' = leaving \cup ({<<t, 0>>} \cap active)
    /\ active' = active \ {<<t, 0>>}
    /\ todo' = todo \ {t} /\ cancelled' = {t}
    /\ UNCHANGED <<flow, recorded, unrecorded, phase, after, caller, flowCrashes, flowFaults>>

\* and its delivery is dispatched by the same callback.
DispatchCancelled(t) ==
    /\ phase = "cancel" /\ t \in cancelled
    /\ Dispatch(t)
    /\ cancelled' = {}
    /\ UNCHANGED <<flow, leaving, unrecorded, phase, after, caller, todo, flowCrashes>>

DrainList == {t \in Task : delivery[t].status \in Actionable}

\* Mutant: the Flow is CANCELLED as soon as the cancellation was requested.
EndCancelEarly ==
    /\ phase = "cancel"
    /\ Mutate("CANCELLED", NoTask)
    /\ phase' = after
    /\ todo' = IF after = "redrain" THEN DrainList ELSE {}
    /\ unrecorded' = unrecorded \cup caller
    /\ caller' = {} /\ after' = "up"
    /\ UNCHANGED <<delivery, run, recorded, active, leaving, cancelled, flowCrashes, flowFaults>>

EndCancel ==
    /\ phase = "cancel" /\ todo = {} /\ cancelled = {}
    /\ IF ActiveChildren = {} THEN Mutate("CANCELLED", NoTask) ELSE UNCHANGED flow
    /\ phase' = after
    /\ todo' = IF after = "redrain" THEN DrainList ELSE {}
    /\ unrecorded' = unrecorded \cup caller
    /\ caller' = {} /\ after' = "up"
    /\ UNCHANGED <<delivery, run, recorded, active, leaving, cancelled, flowCrashes, flowFaults>>

----------------------------------------------------------------------------
\* Start-up and maintenance.

FlowCrash ==
    /\ flowCrashes < MaxCrashes /\ phase # "down"
    /\ flowCrashes' = flowCrashes + 1
    /\ active' = {} /\ leaving' = {} /\ unrecorded' = {} /\ caller' = {}
    /\ todo' = {} /\ cancelled' = {}
    /\ phase' = "down" /\ after' = "up"
    /\ UNCHANGED <<flowRow, flowFaults>>

\* Recovery fails the interrupted Runs without a checkpoint and queues the
\* others again; then drain lists the actionable deliveries.
FlowRecover ==
    /\ phase = "down"
    /\ \E lost \in SUBSET {r \in Runs : run[r] = "RUNNING"} :
         /\ run' = [r \in Runs |-> IF r \in lost THEN "FAILED"
                                   ELSE IF run[r] = "RUNNING" THEN "CREATED" ELSE run[r]]
         /\ delivery' = [t \in Task |-> IF <<t, 0>> \in lost
                                        THEN [delivery[t] EXCEPT !.status = "PENDING"]
                                        ELSE delivery[t]]
    /\ phase' = "drain"
    /\ todo' = {t \in Task : delivery'[t].status \in Actionable}
    /\ UNCHANGED <<flow, recorded, active, leaving, unrecorded, after, caller, cancelled,
                   flowCrashes, flowFaults>>

DrainOne(t) ==
    /\ phase \in {"drain", "redrain"} /\ t \in todo
    /\ Dispatch(t)
    /\ todo' = todo \ {t}
    /\ UNCHANGED <<flow, leaving, unrecorded, phase, after, caller, cancelled, flowCrashes>>

DrainEnds ==
    /\ phase \in {"drain", "redrain"} /\ todo = {}
    /\ phase' = IF phase = "drain" THEN "schedule" ELSE "up"
    /\ UNCHANGED <<flowRow, active, leaving, unrecorded, after, caller, todo, cancelled,
                   flowCrashes, flowFaults>>

ScheduleRunnable ==
    /\ phase = "schedule" /\ phase' = "reconcile"
    /\ active' = active \cup {r \in Runs : run[r] = "CREATED"}
    /\ UNCHANGED <<flowRow, leaving, unrecorded, after, caller, todo, cancelled,
                   flowCrashes, flowFaults>>

\* task.reconcile APPLY: a Run nobody executes is lost after its grace period.
MarkRunLost(t) ==
    /\ phase = "up" /\ t \in ActiveChildren /\ <<t, 0>> \notin active
    /\ EndRuns({<<t, 0>>}, "FAILED")
    /\ phase' = "redrain"
    /\ todo' = DrainList \cup {t}
    /\ UNCHANGED <<flow, recorded, active, leaving, unrecorded, after, caller, cancelled,
                   flowCrashes, flowFaults>>

\* audit, the findings that do not depend on the age of a row.
Audit ==
    {code \in {"FLOW_BLOCKED_TASK_MISSING", "FLOW_TERMINAL_WITH_ACTIVE_TASK",
               "FLOW_ALL_CHILDREN_TERMINAL_ACTIVE", "FLOW_CANCEL_FINALIZATION_PENDING"} :
        CASE code = "FLOW_BLOCKED_TASK_MISSING" -> flow.status = "BLOCKED" /\ flow.blocked \notin Linked
          [] code = "FLOW_TERMINAL_WITH_ACTIVE_TASK" -> flow.status \in FlowTerminal /\ ActiveChildren # {}
          [] code = "FLOW_ALL_CHILDREN_TERMINAL_ACTIVE" ->
                flow.status \in FlowActive /\ ~flow.cancel /\ Linked # {} /\ ActiveChildren = {}
          [] OTHER -> flow.status \in FlowActive /\ flow.cancel /\ ActiveChildren = {}}

BeginReconcile ==
    /\ phase = "up" /\ flow.cancel /\ flow.status \in FlowActive
    /\ phase' = "reconcile"
    /\ UNCHANGED <<flowRow, active, leaving, unrecorded, after, caller, todo, cancelled,
                   flowCrashes, flowFaults>>

\* taskFlow reconcile: a requested cancellation is finalized when no child is
\* active, and replayed when it is older than cancelStuckMs; then drain.
FlowReconcile ==
    /\ phase = "reconcile"
    /\ \/ /\ flow.cancel
          /\ BeginCancel("redrain")
          /\ UNCHANGED caller
       \/ /\ "FLOW_CANCEL_FINALIZATION_PENDING" \notin Audit
          /\ phase' = "redrain" /\ todo' = DrainList
          /\ UNCHANGED <<flowRow, active, leaving, unrecorded, after, caller, cancelled,
                         flowCrashes, flowFaults>>

HostStep ==
    \/ FlowRecover \/ DrainEnds \/ ScheduleRunnable \/ FlowReconcile \/ EndCancel
    \/ \E t \in Task : CancelChild(t) \/ DispatchCancelled(t) \/ DrainOne(t)

RunStep(r) == StartRun(r) \/ WakeRunEnds(r) \/ OnRunTerminal(r) \/ OnRunTerminalRejects(r)

FlowNext ==
    \/ CreateManaged \/ OperatorCall \/ OperatorRequestCancel \/ OperatorCancel
    \/ BeginReconcile \/ FlowCrash \/ HostStep
    \/ \E t \in Task : MarkRunLost(t)
    \/ \E r \in Runs : RunStep(r) \/ CancelRun(r) \/ DropExecution(r)
    \/ \E r \in Wakes : Decide(r) \/ DecideCancel(r) \/ RecordDecision(r)

\* The event loop runs every continuation between the synchronous sequences,
\* the budget of a Run bounds its turns, and a Host that crashed starts again.
FlowFairness ==
    /\ WF_flowVars(HostStep)
    /\ \A r \in Runs : SF_flowVars(RunStep(r))
    /\ SF_flowVars(\E r \in Wakes : RecordDecision(r))

FlowSpec == FlowInit /\ [][FlowNext]_flowVars /\ FlowFairness

----------------------------------------------------------------------------
\* A delivery never has two live wake Runs: it is sent again only after the
\* wake it names has ended, whatever drains, hooks and restarts interleave.
OneLiveWake ==
    \A t \in Task : \A k \in 1 .. MaxTries :
        run[<<t, k>>] \in {"CREATED", "RUNNING"} =>
            delivery[t].wake = k /\ delivery[t].status = "SESSION_QUEUED"

\* A Flow is CANCELLED only when no child of it is active, and none becomes
\* active later.
CancelledIsQuiet == flow.status = "CANCELLED" => ActiveChildren = {}

\* A completion is dropped as NOT_APPLICABLE only for a Flow that ended or
\* whose cancellation was requested: an open Flow hears of every child.
SuppressedIsClosed ==
    \A t \in Task : delivery[t].status = "NOT_APPLICABLE" => Closed

\* DELIVERED means that the controller recorded a decision in the wake Run of
\* this delivery, not that the Run merely completed.
DeliveredIsDecided ==
    \A t \in Task : delivery[t].status = "DELIVERED" => <<t, delivery[t].wake>> \in recorded

\* The audit never finds FLOW_BLOCKED_TASK_MISSING, whatever controllers,
\* operators, cancellations and restarts did before: a BLOCKED Flow names one
\* of its children.
BlockedIsLinked == "FLOW_BLOCKED_TASK_MISSING" \notin Audit

\* Without a fault, the completion of a child does not stay PENDING: a wake is
\* admitted or the completion is suppressed, crashes included.
PendingIsDispatched ==
    \A t \in Task :
        (delivery[t].status = "PENDING") ~> (delivery[t].status # "PENDING" \/ flowFaults > 0)

\* Without a fault, every queued wake settles its delivery.
WakeSettles ==
    \A t \in Task :
        (delivery[t].status = "SESSION_QUEUED")
            ~> (delivery[t].status # "SESSION_QUEUED" \/ flowFaults > 0)

\* Without a fault, an admitted child ends: a crash between the admission and
\* scheduleRun does not leave it behind.
AdmittedEnds ==
    \A t \in Task : (t \in ActiveChildren) ~> (t \notin ActiveChildren \/ flowFaults > 0)

\* Flows, Tasks, deliveries and wakes: a cancelled Flow is quiet, what is
\* suppressed is closed, what is delivered was decided, a blocked Flow names
\* what blocks it, and a delivery has at most one live wake.
FlowsAgree ==
    /\ FlowTypeOK
    /\ CancelledIsQuiet /\ SuppressedIsClosed /\ DeliveredIsDecided /\ BlockedIsLinked
    /\ OneLiveWake

\* A pending delivery is dispatched, a wake settles it, and an admitted Task ends.
FlowsProceed == PendingIsDispatched /\ WakeSettles /\ AdmittedEnds
=============================================================================
