--------------------------- MODULE AgentHostProofs ---------------------------
(***************************************************************************)
(* Proofs about the ledger of Runs and about the Host that drives it.      *)
(* RunLedger, for every set of Runs and every bound on the attempts: its   *)
(* invariants hold; the conjunction IInv is inductive, and every part      *)
(* needs the others (the attempt of a Run decides what a recovery may do,  *)
(* started_at decides the Task that a requeue projects, and the Task       *)
(* decides whether an update inserts a delivery).  AgentHost, for any      *)
(* number of Tool calls, model retries, shutdowns, crashes and repeated    *)
(* decisions: the Host implements the Run ledger, no command runs twice or *)
(* without an approval, a queued Run has an owner, and no Run waits for a  *)
(* decision that nobody can take.                                          *)
(***************************************************************************)
EXTENDS AgentHost, TLAPS

IInv ==
    /\ TypeOK
    /\ AttemptAgrees
    /\ SupersededAborted
    /\ RecoveryAgrees
    /\ TaskAgrees
    /\ DeliveredOnce

\* The part of IInv that an update of agent_runs maintains by itself.
RunRowsOK ==
    /\ status \in [Run -> RunStatus \cup {"ABSENT"}]
    /\ recovery \in [Run -> RecoveryState]
    /\ started \in [Run -> BOOLEAN]
    /\ task \in [Run -> TaskStatus]
    /\ deliveries \in [Run -> 0 .. 1]
    /\ TaskAgrees
    /\ DeliveredOnce

USE LedgerAssumption DEF RunStatus, TerminalRun, RecoveryState,
  AttemptNo, AttemptStatus, TaskStatus, TerminalTask, Reason

\* The empty ledger satisfies the inductive invariant.
LEMMA InitIInv == Init => IInv
  <1> SUFFICES ASSUME Init PROVE IInv OBVIOUS
  <1>1. TypeOK BY DEF Init, TypeOK
  <1>2. AttemptAgrees BY DEF Init, AttemptAgrees
  <1>3. SupersededAborted BY DEF Init, SupersededAborted
  <1>4. RecoveryAgrees BY DEF Init, RecoveryAgrees
  <1>5. TaskAgrees /\ DeliveredOnce BY DEF Init, TaskAgrees, DeliveredOnce
  <1> QED BY <1>1, <1>2, <1>3, <1>4, <1>5 DEF IInv

\* What the projection of a Task returns, by the status of the Run.
LEMMA ProjectedTaskValue ==
  ASSUME NEW old \in TaskStatus, NEW s \in RunStatus, NEW rec \in RecoveryState,
         NEW hasStarted \in BOOLEAN, NEW why \in Reason, NEW lost \in BOOLEAN
  PROVE  LET new == ProjectedTask(old, s, rec, hasStarted, why, lost) IN
         /\ new \in TaskStatus
         /\ old \in TerminalTask => new = old
         /\ old \notin TerminalTask /\ ~lost =>
              /\ s = "CREATED" => new = IF rec = "RESUMABLE" /\ hasStarted
                                        THEN "RUNNING" ELSE "QUEUED"
              /\ s \in {"RUNNING", "WAITING_APPROVAL"} => new = "RUNNING"
              /\ s = "COMPLETED" => new = "SUCCEEDED"
              /\ s = "CANCELLED" => new = "CANCELLED"
              /\ s = "FAILED" => new \in {"FAILED", "TIMED_OUT"}
         /\ old \notin TerminalTask /\ lost => new = "LOST"
  BY DEF ProjectedTask

\* One update of a live Run keeps the Task and its delivery in step with it.
LEMMA UpdateRunKeeps ==
  ASSUME TypeOK, TaskAgrees, DeliveredOnce,
         NEW u \in Run, NEW s \in RunStatus, NEW rec \in RecoveryState,
         NEW starting \in BOOLEAN, NEW why \in Reason, NEW lost \in BOOLEAN,
         status[u] \in RunStatus \ TerminalRun,
         lost => s = "FAILED",
         s = "CREATED" => ((started[u] \/ starting) <=> rec = "RESUMABLE"),
         UpdateRun(u, s, rec, starting, why, lost)
  PROVE  RunRowsOK'
  <1> USE DEF TypeOK
  <1> DEFINE hasStarted == started[u] \/ starting
             new == ProjectedTask(task[u], s, rec, hasStarted, why, lost)
  <1>1. task[u] \in {"QUEUED", "RUNNING"} /\ deliveries[u] = 0
    BY DEF TaskAgrees, DeliveredOnce
  <1>2. /\ status' = [status EXCEPT ![u] = s]
        /\ recovery' = [recovery EXCEPT ![u] = rec]
        /\ started' = [started EXCEPT ![u] = hasStarted]
        /\ task' = [task EXCEPT ![u] = new]
        /\ deliveries' = [deliveries EXCEPT ![u] = @ + NewDelivery(u, task[u], new)]
    BY DEF UpdateRun
  <1>3. /\ new \in TaskStatus
        /\ s = "CREATED" => new = IF hasStarted THEN "RUNNING" ELSE "QUEUED"
        /\ s \in {"RUNNING", "WAITING_APPROVAL"} => new = "RUNNING"
        /\ s = "COMPLETED" => new = "SUCCEEDED"
        /\ s = "CANCELLED" => new = "CANCELLED"
        /\ s = "FAILED" => new \in {"FAILED", "TIMED_OUT", "LOST"}
    BY <1>1, ProjectedTaskValue
  <1>4. NewDelivery(u, task[u], new) = IF u \in Notified /\ s \in TerminalRun THEN 1 ELSE 0
    BY <1>1, <1>3 DEF NewDelivery
  <1>5. hasStarted \in BOOLEAN OBVIOUS
  <1> HIDE DEF new, hasStarted
  <1>6. /\ status' \in [Run -> RunStatus \cup {"ABSENT"}]
        /\ recovery' \in [Run -> RecoveryState]
        /\ started' \in [Run -> BOOLEAN]
        /\ task' \in [Run -> TaskStatus]
    BY <1>2, <1>3, <1>5
  <1>7. deliveries' \in [Run -> 0 .. 1] BY <1>1, <1>2, <1>4
  <1>8. TaskAgrees' BY <1>2, <1>3 DEF TaskAgrees
  <1>9. DeliveredOnce' BY <1>1, <1>2, <1>4 DEF DeliveredOnce
  <1> QED BY <1>6, <1>7, <1>8, <1>9 DEF RunRowsOK

\* The calls that leave the Run, its attempts and its Task alone.
LEMMA QuietIInv ==
  ASSUME IInv, UNCHANGED <<status, recovery, started, current, attempt, task, deliveries>>,
         reason' \in [Run -> Reason], resumable' \in [Run -> BOOLEAN], wait' \in [Run -> BOOLEAN]
  PROVE  IInv'
  <1> USE DEF IInv
  <1>1. TypeOK' BY DEF TypeOK
  <1>2. AttemptAgrees' /\ SupersededAborted'
    BY DEF AttemptAgrees, AttemptOf, SupersededAborted
  <1>3. RecoveryAgrees' BY DEF RecoveryAgrees, AttemptOf
  <1>4. TaskAgrees' /\ DeliveredOnce' BY DEF TaskAgrees, DeliveredOnce
  <1> QED BY <1>1, <1>2, <1>3, <1>4

\* Calls that only append events, write usage or record a wait keep it.
LEMMA QuietCallsIInv ==
  ASSUME IInv, NEW u \in Run,
         \/ \E e \in KernelEvent : RecordEvent(u, e)
         \/ \E why \in Reason : UpdateExecutionUsage(u, why)
         \/ AppendApprovalToolResult(u)
         \/ MarkWaiting(u)
         \/ DeliverDelegationResult(u)
  PROVE  IInv'
  <1> USE DEF IInv, TypeOK, AppendEvent, Extended
  <1>1. CASE \E e \in KernelEvent : RecordEvent(u, e)
    BY <1>1, QuietIInv DEF RecordEvent
  <1>2. CASE \E why \in Reason : UpdateExecutionUsage(u, why)
    BY <1>2, QuietIInv DEF UpdateExecutionUsage
  <1>3. CASE AppendApprovalToolResult(u)
    BY <1>3, QuietIInv DEF AppendApprovalToolResult
  <1>4. CASE MarkWaiting(u)
    BY <1>4, QuietIInv DEF MarkWaiting
  <1>5. CASE DeliverDelegationResult(u)
    BY <1>5, QuietIInv DEF DeliverDelegationResult
  <1> QED BY <1>1, <1>2, <1>3, <1>4, <1>5

\* conversation.send keeps it: a new Run has its first attempt and its Task.
LEMMA SendIInv == ASSUME IInv, NEW u \in Run, Send(u) PROVE IInv'
  <1> USE DEF IInv, TypeOK, Send, AppendEvent
  <1>1. TypeOK' BY DEF Extended
  <1>2. AttemptAgrees' BY DEF AttemptAgrees, AttemptOf
  <1>3. SupersededAborted' BY DEF SupersededAborted, AttemptAgrees
  <1>4. RecoveryAgrees' BY DEF RecoveryAgrees, AttemptOf
  <1>5. TaskAgrees' BY DEF TaskAgrees, RecoveryAgrees
  <1>6. DeliveredOnce' BY DEF DeliveredOnce
  <1> QED BY <1>1, <1>2, <1>3, <1>4, <1>5, <1>6

\* The part of IInv about run_attempts alone.
AttemptRowsOK ==
    /\ current \in [Run -> 0 .. MaxAttempt]
    /\ attempt \in [Run -> [AttemptNo -> AttemptStatus]]
    /\ SupersededAborted

\* A step of Run u leaves a as the status of its current attempt and touches
\* no attempt of another Run.
AttemptStep(u, a) ==
    /\ current'[u] \in AttemptNo
    /\ attempt'[u][current'[u]] = a
    /\ \A q \in Run \ {u} : current'[q] = current[q] /\ attempt'[q] = attempt[q]

\* updateAttempt writes the current attempt of one Run and nothing else.
LEMMA UpdateAttemptKeeps ==
  ASSUME IInv, NEW u \in Run, NEW a \in AttemptStatus, status[u] # "ABSENT",
         UpdateAttempt(u, a), UNCHANGED current
  PROVE  AttemptRowsOK' /\ AttemptStep(u, a)
  <1>1. /\ current[u] \in AttemptNo
        /\ attempt' = [attempt EXCEPT ![u] = [attempt[u] EXCEPT ![current[u]] = a]]
    BY DEF IInv, TypeOK, AttemptAgrees, UpdateAttempt
  <1>2. attempt' \in [Run -> [AttemptNo -> AttemptStatus]]
    BY <1>1 DEF IInv, TypeOK
  <1>3. SupersededAborted'
    BY <1>1 DEF IInv, TypeOK, SupersededAborted
  <1> QED BY <1>1, <1>2, <1>3 DEF AttemptRowsOK, AttemptStep, IInv, TypeOK

\* insertAttempt adds one attempt beyond the current one and nothing else.
LEMMA InsertAttemptKeeps ==
  ASSUME IInv, NEW u \in Run, NEW a \in AttemptStatus, status[u] # "ABSENT",
         AttemptOf(u) = "ABORTED", InsertAttempt(u, a)
  PROVE  /\ AttemptRowsOK' /\ AttemptStep(u, a)
         /\ reason' \in [Run -> Reason]
  <1> DEFINE n == current[u] + 1
  <1>1. /\ current[u] \in AttemptNo
        /\ current[u] < MaxAttempt
        /\ attempt[u][current[u]] = "ABORTED"
        /\ current' = [current EXCEPT ![u] = n]
        /\ attempt' = [attempt EXCEPT ![u] = [attempt[u] EXCEPT ![n] = a]]
    BY DEF IInv, TypeOK, AttemptAgrees, InsertAttempt, AttemptOf
  <1>2. n \in AttemptNo BY <1>1
  <1>3. reason' \in [Run -> Reason] BY DEF InsertAttempt, IInv, TypeOK
  <1> HIDE DEF n
  <1>4. /\ attempt' \in [Run -> [AttemptNo -> AttemptStatus]]
        /\ current' \in [Run -> 0 .. MaxAttempt]
    BY <1>1, <1>2 DEF IInv, TypeOK
  <1>5. SupersededAborted'
    BY <1>1, <1>2 DEF IInv, TypeOK, SupersededAborted, n
  <1> QED BY <1>1, <1>2, <1>3, <1>4, <1>5 DEF AttemptRowsOK, AttemptStep, IInv, TypeOK

\* The update of a live Run and that of its attempt fit together.
Fits(u, s, rec, starting, lost, a) ==
    /\ status[u] \in RunStatus \ TerminalRun
    /\ lost => s = "FAILED"
    /\ s = "CREATED" => a \in {"CREATED", "ABORTED"}
                        /\ ((started[u] \/ starting) <=> rec = "RESUMABLE")
    /\ s = "FAILED" => a \in {"FAILED", "ABORTED"}
    /\ s \notin {"CREATED", "FAILED"} => a = s
    /\ s \in {"RUNNING", "WAITING_APPROVAL"} => started[u] \/ starting
    /\ rec = "RESUMABLE" => s \in {"CREATED", "WAITING_APPROVAL"}
    /\ rec = "NON_RESUMABLE" => s = "FAILED" /\ a = "ABORTED"

\* One call that updates a live Run together with its attempt: what is left to
\* show of each call is that the two updates fit.
LEMMA RunStepIInv ==
  ASSUME IInv,
         NEW u \in Run, NEW s \in RunStatus, NEW rec \in RecoveryState,
         NEW starting \in BOOLEAN, NEW why \in Reason, NEW lost \in BOOLEAN,
         NEW a \in AttemptStatus,
         Fits(u, s, rec, starting, lost, a),
         UpdateRun(u, s, rec, starting, why, lost),
         AttemptRowsOK', AttemptStep(u, a),
         reason' \in [Run -> Reason], resumable' \in [Run -> BOOLEAN], UNCHANGED wait
  PROVE  IInv'
  <1>1. RunRowsOK'
    BY UpdateRunKeeps DEF IInv, Fits
  <1>2. TypeOK' BY <1>1 DEF RunRowsOK, AttemptRowsOK, TypeOK, IInv
  <1>3. /\ status' = [status EXCEPT ![u] = s]
        /\ recovery' = [recovery EXCEPT ![u] = rec]
        /\ started' = [started EXCEPT ![u] = (started[u] \/ starting)]
    BY DEF UpdateRun
  <1>4. AttemptAgrees'
    BY <1>3 DEF IInv, TypeOK, AttemptAgrees, AttemptOf, AttemptStep, Fits
  <1>5. RecoveryAgrees'
    BY <1>3 DEF IInv, TypeOK, RecoveryAgrees, AttemptOf, AttemptStep, Fits
  <1> QED BY <1>1, <1>2, <1>4, <1>5 DEF RunRowsOK, AttemptRowsOK, IInv

\* What every call below may use of the invariant.
LEMMA LiveFacts ==
  ASSUME IInv, NEW u \in Run, status[u] \in RunStatus \ TerminalRun
  PROVE  /\ status[u] # "ABSENT"
         /\ reason[u] \in Reason /\ recovery[u] \in RecoveryState
         /\ status[u] = "CREATED" => (started[u] <=> recovery[u] = "RESUMABLE")
         /\ status[u] # "CREATED" => started[u]
         /\ recovery[u] # "NON_RESUMABLE"
         /\ recovery[u] = "RESUMABLE" => status[u] \in {"CREATED", "WAITING_APPROVAL"}
  BY DEF IInv, TypeOK, RecoveryAgrees

\* Every call that appends an event keeps the type of resumable.
LEMMA AppendEventType ==
  ASSUME TypeOK, NEW u \in Run, NEW e, AppendEvent(u, e)
  PROVE  resumable' \in [Run -> BOOLEAN]
  BY DEF TypeOK, AppendEvent, Extended

\* prepareExecutionAttempt, which replaces an aborted attempt, keeps it.
LEMMA PrepareIInv == ASSUME IInv, NEW u \in Run, AttemptOf(u) = "ABORTED", PrepareExecutionAttempt(u) PROVE IInv'
  <1>1. /\ status[u] \in RunStatus \ TerminalRun
        /\ UpdateRun(u, status[u], recovery[u], FALSE, "NONE", FALSE)
        /\ InsertAttempt(u, "CREATED")
        /\ AppendEvent(u, "run.attempt.prepared") /\ UNCHANGED wait
        /\ status[u] = "CREATED"
    BY DEF PrepareExecutionAttempt, Preparable
  <1>2. reason' \in [Run -> Reason]
    BY <1>1, LiveFacts, InsertAttemptKeeps DEF IInv, TypeOK
  <1>3. AttemptRowsOK' /\ AttemptStep(u, "CREATED")
    BY <1>1, LiveFacts, InsertAttemptKeeps
  <1>4. resumable' \in [Run -> BOOLEAN] BY <1>1, AppendEventType DEF IInv
  <1>5. Fits(u, status[u], recovery[u], FALSE, FALSE, "CREATED")
    BY <1>1, LiveFacts DEF Fits
  <1>6. reason[u] \in Reason /\ recovery[u] \in RecoveryState BY <1>1, LiveFacts
  <1> QED BY <1>1, <1>2, <1>3, <1>4, <1>5, <1>6, RunStepIInv

\* startExecution that replaces an aborted attempt keeps it.
LEMMA StartReplaceIInv == ASSUME IInv, NEW u \in Run, AttemptOf(u) = "ABORTED", StartExecution(u) PROVE IInv'
  <1>1. /\ status[u] \in RunStatus \ TerminalRun
        /\ UpdateRun(u, "RUNNING", "NONE", TRUE, reason[u], FALSE)
        /\ InsertAttempt(u, "RUNNING")
        /\ AppendEvent(u, "run.started") /\ UNCHANGED wait
    BY DEF StartExecution
  <1>2. reason' \in [Run -> Reason]
    BY <1>1, LiveFacts, InsertAttemptKeeps DEF IInv, TypeOK
  <1>3. AttemptRowsOK' /\ AttemptStep(u, "RUNNING")
    BY <1>1, LiveFacts, InsertAttemptKeeps
  <1>4. resumable' \in [Run -> BOOLEAN] BY <1>1, AppendEventType DEF IInv
  <1>5. Fits(u, "RUNNING", "NONE", TRUE, FALSE, "RUNNING")
    BY <1>1, LiveFacts DEF Fits
  <1>6. reason[u] \in Reason /\ recovery[u] \in RecoveryState BY <1>1, LiveFacts
  <1> QED BY <1>1, <1>2, <1>3, <1>4, <1>5, <1>6, RunStepIInv

\* startExecution on the prepared attempt keeps it.
LEMMA StartKeepIInv == ASSUME IInv, NEW u \in Run, AttemptOf(u) # "ABORTED", StartExecution(u) PROVE IInv'
  <1>1. /\ status[u] \in RunStatus \ TerminalRun
        /\ UpdateRun(u, "RUNNING", "NONE", TRUE, reason[u], FALSE)
        /\ UpdateAttempt(u, "RUNNING") /\ UNCHANGED current
        /\ AppendEvent(u, "run.started") /\ UNCHANGED wait
    BY DEF StartExecution
  <1>2. reason' \in [Run -> Reason]
    BY <1>1 DEF IInv, TypeOK, StartExecution
  <1>3. AttemptRowsOK' /\ AttemptStep(u, "RUNNING")
    BY <1>1, LiveFacts, UpdateAttemptKeeps
  <1>4. resumable' \in [Run -> BOOLEAN] BY <1>1, AppendEventType DEF IInv
  <1>5. Fits(u, "RUNNING", "NONE", TRUE, FALSE, "RUNNING")
    BY <1>1, LiveFacts DEF Fits
  <1>6. reason[u] \in Reason /\ recovery[u] \in RecoveryState BY <1>1, LiveFacts
  <1> QED BY <1>1, <1>2, <1>3, <1>4, <1>5, <1>6, RunStepIInv

\* transitionRun on a Run whose attempt was aborted keeps it.
LEMMA TransitionReplaceIInv == ASSUME IInv, NEW u \in Run, NEW e,
         AttemptOf(u) = "ABORTED", TransitionRun(u, "RUNNING", e) PROVE IInv'
  <1>1. /\ status[u] \in RunStatus \ TerminalRun
        /\ UpdateRun(u, "RUNNING", "NONE", TRUE, reason[u], FALSE)
        /\ InsertAttempt(u, "RUNNING")
        /\ AppendEvent(u, e) /\ UNCHANGED wait
    BY DEF TransitionRun, Transitions, UpdateRun
  <1>2. reason' \in [Run -> Reason]
    BY <1>1, LiveFacts, InsertAttemptKeeps DEF IInv, TypeOK
  <1>3. AttemptRowsOK' /\ AttemptStep(u, "RUNNING")
    BY <1>1, LiveFacts, InsertAttemptKeeps
  <1>4. resumable' \in [Run -> BOOLEAN] BY <1>1, AppendEventType DEF IInv
  <1>5. Fits(u, "RUNNING", "NONE", TRUE, FALSE, "RUNNING")
    BY <1>1, LiveFacts DEF Fits
  <1>6. reason[u] \in Reason /\ recovery[u] \in RecoveryState BY <1>1, LiveFacts
  <1> QED BY <1>1, <1>2, <1>3, <1>4, <1>5, <1>6, RunStepIInv

\* transitionRun on a Run with a live attempt keeps it.
LEMMA TransitionKeepIInv ==
  ASSUME IInv, NEW u \in Run, NEW s \in RunStatus, NEW e,
         AttemptOf(u) # "ABORTED" \/ s # "RUNNING", TransitionRun(u, s, e)
  PROVE  IInv'
  <1>1. /\ status[u] \in RunStatus \ TerminalRun
        /\ UpdateAttempt(u, s) /\ UNCHANGED current
        /\ AppendEvent(u, e) /\ UNCHANGED wait
        /\ s # "CREATED" /\ (status[u] = "CREATED" => s # "WAITING_APPROVAL")
    BY DEF TransitionRun, Transitions, UpdateRun
  <1>2. reason' \in [Run -> Reason]
    BY <1>1 DEF IInv, TypeOK, TransitionRun
  <1>3. AttemptRowsOK' /\ AttemptStep(u, s)
    BY <1>1, LiveFacts, UpdateAttemptKeeps
  <1>4. resumable' \in [Run -> BOOLEAN] BY <1>1, AppendEventType DEF IInv
  <1>5. reason[u] \in Reason BY <1>1, LiveFacts
  <1>6. CASE s = "RUNNING"
    <2>1. UpdateRun(u, s, "NONE", TRUE, reason[u], FALSE)
      BY <1>6 DEF TransitionRun, UpdateRun
    <2>2. Fits(u, s, "NONE", TRUE, FALSE, s) BY <1>1, <1>6 DEF Fits
    <2> QED BY <1>1, <1>2, <1>3, <1>4, <1>5, <2>1, <2>2, RunStepIInv
  <1>7. CASE s # "RUNNING"
    <2>1. UpdateRun(u, s, "NONE", FALSE, reason[u], FALSE)
      BY <1>7 DEF TransitionRun, UpdateRun
    <2>2. Fits(u, s, "NONE", FALSE, FALSE, s) BY <1>1, <1>7, LiveFacts DEF Fits
    <2> QED BY <1>1, <1>2, <1>3, <1>4, <1>5, <2>1, <2>2, RunStepIInv
  <1> QED BY <1>6, <1>7

\* resumeExecution after an approval keeps it.
LEMMA ResumeIInv == ASSUME IInv, NEW u \in Run, ResumeExecution(u) PROVE IInv'
  <1>1. /\ status[u] \in RunStatus \ TerminalRun
        /\ UpdateRun(u, "RUNNING", "NONE", TRUE, reason[u], FALSE)
        /\ UpdateAttempt(u, "RUNNING") /\ UNCHANGED current
        /\ AppendEvent(u, "run.resumed") /\ UNCHANGED wait
    BY DEF ResumeExecution
  <1>2. reason' \in [Run -> Reason]
    BY <1>1 DEF IInv, TypeOK, ResumeExecution
  <1>3. AttemptRowsOK' /\ AttemptStep(u, "RUNNING")
    BY <1>1, LiveFacts, UpdateAttemptKeeps
  <1>4. resumable' \in [Run -> BOOLEAN] BY <1>1, AppendEventType DEF IInv
  <1>5. Fits(u, "RUNNING", "NONE", TRUE, FALSE, "RUNNING")
    BY <1>1, LiveFacts DEF Fits
  <1>6. reason[u] \in Reason /\ recovery[u] \in RecoveryState BY <1>1, LiveFacts
  <1> QED BY <1>1, <1>2, <1>3, <1>4, <1>5, <1>6, RunStepIInv

\* cancel keeps it.
LEMMA CancelIInv == ASSUME IInv, NEW u \in Run, Cancel(u) PROVE IInv'
  <1>1. /\ status[u] \in RunStatus \ TerminalRun
        /\ UpdateRun(u, "CANCELLED", "NONE", FALSE, reason[u], FALSE)
        /\ UpdateAttempt(u, "CANCELLED") /\ UNCHANGED current
        /\ AppendEvent(u, "run.cancelled") /\ UNCHANGED wait
    BY DEF Cancel
  <1>2. reason' \in [Run -> Reason]
    BY <1>1 DEF IInv, TypeOK, Cancel
  <1>3. AttemptRowsOK' /\ AttemptStep(u, "CANCELLED")
    BY <1>1, LiveFacts, UpdateAttemptKeeps
  <1>4. resumable' \in [Run -> BOOLEAN] BY <1>1, AppendEventType DEF IInv
  <1>5. Fits(u, "CANCELLED", "NONE", FALSE, FALSE, "CANCELLED")
    BY <1>1, LiveFacts DEF Fits
  <1>6. reason[u] \in Reason /\ recovery[u] \in RecoveryState BY <1>1, LiveFacts
  <1> QED BY <1>1, <1>2, <1>3, <1>4, <1>5, <1>6, RunStepIInv

\* interruptExecution of a Run with a recoverable checkpoint keeps it.
LEMMA InterruptRequeueIInv == ASSUME IInv, NEW u \in Run, resumable[u], InterruptExecution(u) PROVE IInv'
  <1>1. /\ status[u] \in RunStatus \ TerminalRun
        /\ UpdateRun(u, "CREATED", "RESUMABLE", FALSE, reason[u], FALSE)
        /\ UpdateAttempt(u, "ABORTED") /\ UNCHANGED current
        /\ AppendEvent(u, "run.interrupted") /\ UNCHANGED wait
        /\ status[u] = "RUNNING"
    BY DEF InterruptExecution
  <1>2. reason' \in [Run -> Reason]
    BY <1>1 DEF IInv, TypeOK, InterruptExecution
  <1>3. AttemptRowsOK' /\ AttemptStep(u, "ABORTED")
    BY <1>1, LiveFacts, UpdateAttemptKeeps
  <1>4. resumable' \in [Run -> BOOLEAN] BY <1>1, AppendEventType DEF IInv
  <1>5. Fits(u, "CREATED", "RESUMABLE", FALSE, FALSE, "ABORTED")
    BY <1>1, LiveFacts DEF Fits
  <1>6. reason[u] \in Reason /\ recovery[u] \in RecoveryState BY <1>1, LiveFacts
  <1> QED BY <1>1, <1>2, <1>3, <1>4, <1>5, <1>6, RunStepIInv

\* interruptExecution of a Run without one keeps it.
LEMMA InterruptFailIInv == ASSUME IInv, NEW u \in Run, ~resumable[u], InterruptExecution(u) PROVE IInv'
  <1>1. /\ status[u] \in RunStatus \ TerminalRun
        /\ UpdateRun(u, "FAILED", "NON_RESUMABLE", FALSE, reason[u], FALSE)
        /\ UpdateAttempt(u, "ABORTED") /\ UNCHANGED current
        /\ AppendEvent(u, "run.interrupted") /\ UNCHANGED wait
    BY DEF InterruptExecution
  <1>2. reason' \in [Run -> Reason]
    BY <1>1 DEF IInv, TypeOK, InterruptExecution
  <1>3. AttemptRowsOK' /\ AttemptStep(u, "ABORTED")
    BY <1>1, LiveFacts, UpdateAttemptKeeps
  <1>4. resumable' \in [Run -> BOOLEAN] BY <1>1, AppendEventType DEF IInv
  <1>5. Fits(u, "FAILED", "NON_RESUMABLE", FALSE, FALSE, "ABORTED")
    BY <1>1, LiveFacts DEF Fits
  <1>6. reason[u] \in Reason /\ recovery[u] \in RecoveryState BY <1>1, LiveFacts
  <1> QED BY <1>1, <1>2, <1>3, <1>4, <1>5, <1>6, RunStepIInv

\* waitForDelegation keeps it.
LEMMA WaitIInv == ASSUME IInv, NEW u \in Run, WaitForDelegation(u) PROVE IInv'
  <1>1. /\ status[u] \in RunStatus \ TerminalRun
        /\ UpdateRun(u, "CREATED", "RESUMABLE", FALSE, reason[u], FALSE)
        /\ UpdateAttempt(u, "ABORTED") /\ UNCHANGED current
        /\ AppendEvent(u, "delegation.waiting") /\ UNCHANGED wait
        /\ status[u] = "RUNNING"
    BY DEF WaitForDelegation
  <1>2. reason' \in [Run -> Reason]
    BY <1>1 DEF IInv, TypeOK, WaitForDelegation
  <1>3. AttemptRowsOK' /\ AttemptStep(u, "ABORTED")
    BY <1>1, LiveFacts, UpdateAttemptKeeps
  <1>4. resumable' \in [Run -> BOOLEAN] BY <1>1, AppendEventType DEF IInv
  <1>5. Fits(u, "CREATED", "RESUMABLE", FALSE, FALSE, "ABORTED")
    BY <1>1, LiveFacts DEF Fits
  <1>6. reason[u] \in Reason /\ recovery[u] \in RecoveryState BY <1>1, LiveFacts
  <1> QED BY <1>1, <1>2, <1>3, <1>4, <1>5, <1>6, RunStepIInv

\* terminateChild after a time-out keeps it.
LEMMA TimedOutIInv == ASSUME IInv, NEW u \in Run, TerminateChild(u, TRUE) PROVE IInv'
  <1>1. /\ status[u] \in RunStatus \ TerminalRun
        /\ UpdateRun(u, "FAILED", "NONE", FALSE, "TIME", FALSE)
        /\ UpdateAttempt(u, "FAILED") /\ UNCHANGED current
        /\ AppendEvent(u, "run.failed") /\ UNCHANGED wait
    BY DEF TerminateChild
  <1>2. reason' \in [Run -> Reason]
    BY <1>1 DEF IInv, TypeOK, TerminateChild
  <1>3. AttemptRowsOK' /\ AttemptStep(u, "FAILED")
    BY <1>1, LiveFacts, UpdateAttemptKeeps
  <1>4. resumable' \in [Run -> BOOLEAN] BY <1>1, AppendEventType DEF IInv
  <1>5. Fits(u, "FAILED", "NONE", FALSE, FALSE, "FAILED")
    BY <1>1, LiveFacts DEF Fits
  <1>6. reason[u] \in Reason /\ recovery[u] \in RecoveryState BY <1>1, LiveFacts
  <1> QED BY <1>1, <1>2, <1>3, <1>4, <1>5, <1>6, RunStepIInv

\* terminateChild after a cancellation keeps it.
LEMMA TerminatedIInv == ASSUME IInv, NEW u \in Run, TerminateChild(u, FALSE) PROVE IInv'
  <1>1. /\ status[u] \in RunStatus \ TerminalRun
        /\ UpdateRun(u, "CANCELLED", "NONE", FALSE, "OTHER", FALSE)
        /\ UpdateAttempt(u, "CANCELLED") /\ UNCHANGED current
        /\ AppendEvent(u, "run.cancelled") /\ UNCHANGED wait
    BY DEF TerminateChild
  <1>2. reason' \in [Run -> Reason]
    BY <1>1 DEF IInv, TypeOK, TerminateChild
  <1>3. AttemptRowsOK' /\ AttemptStep(u, "CANCELLED")
    BY <1>1, LiveFacts, UpdateAttemptKeeps
  <1>4. resumable' \in [Run -> BOOLEAN] BY <1>1, AppendEventType DEF IInv
  <1>5. Fits(u, "CANCELLED", "NONE", FALSE, FALSE, "CANCELLED")
    BY <1>1, LiveFacts DEF Fits
  <1>6. reason[u] \in Reason /\ recovery[u] \in RecoveryState BY <1>1, LiveFacts
  <1> QED BY <1>1, <1>2, <1>3, <1>4, <1>5, <1>6, RunStepIInv

\* markExecutionLost keeps it.
LEMMA LostIInv == ASSUME IInv, NEW u \in Run, MarkExecutionLost(u) PROVE IInv'
  <1>1. /\ status[u] \in RunStatus \ TerminalRun
        /\ UpdateRun(u, "FAILED", "NON_RESUMABLE", FALSE, "OTHER", TRUE)
        /\ AppendEvent(u, "run.execution_lost") /\ UNCHANGED <<current, wait>>
    BY DEF MarkExecutionLost
  <1>2. reason' \in [Run -> Reason] BY DEF IInv, TypeOK, MarkExecutionLost
  <1>3. AttemptRowsOK' /\ AttemptStep(u, "ABORTED")
    <2>1. CASE AttemptOf(u) \in TerminalAttempt
      <3>1. UNCHANGED <<current, attempt>> BY <2>1 DEF MarkExecutionLost
      <3>2. current[u] \in AttemptNo /\ attempt[u][current[u]] = "ABORTED"
        BY <2>1 DEF MarkExecutionLost, IInv, AttemptAgrees, AttemptOf, TerminalAttempt
      <3> QED BY <3>1, <3>2 DEF AttemptRowsOK, AttemptStep, IInv, TypeOK, SupersededAborted
    <2>2. CASE AttemptOf(u) \notin TerminalAttempt
      <3>1. UpdateAttempt(u, "ABORTED") BY <2>2 DEF MarkExecutionLost
      <3> QED BY <1>1, <3>1, LiveFacts, UpdateAttemptKeeps
    <2> QED BY <2>1, <2>2
  <1>4. resumable' \in [Run -> BOOLEAN] BY <1>1, AppendEventType DEF IInv
  <1>5. Fits(u, "FAILED", "NON_RESUMABLE", FALSE, TRUE, "ABORTED")
    BY <1>1, LiveFacts DEF Fits
  <1>6. reason[u] \in Reason /\ recovery[u] \in RecoveryState BY <1>1, LiveFacts
  <1> QED BY <1>1, <1>2, <1>3, <1>4, <1>5, <1>6, RunStepIInv

\* The values that a recovery gives to an incomplete Run.
LEMMA RecoveredValues ==
  ASSUME IInv, NEW u \in Incomplete
  PROVE  /\ u \in Run /\ started[u]
         /\ RecoveredStatus(u) \in {"CREATED", "WAITING_APPROVAL", "FAILED"}
         /\ status[u] = "WAITING_APPROVAL" <=> RecoveredStatus(u) = "WAITING_APPROVAL"
         /\ RecoveredState(u) = IF RecoveredStatus(u) = "FAILED"
                                THEN "NON_RESUMABLE" ELSE "RESUMABLE"
         /\ RecoveredTask(u) \in TaskStatus
         /\ RecoveredStatus(u) # "FAILED" => RecoveredTask(u) = "RUNNING"
         /\ RecoveredStatus(u) = "FAILED" => RecoveredTask(u) \in {"FAILED", "TIMED_OUT"}
         /\ deliveries[u] = 0
         /\ NewDelivery(u, task[u], RecoveredTask(u)) =
              IF u \in Notified /\ RecoveredStatus(u) = "FAILED" THEN 1 ELSE 0
  <1>1. /\ u \in Run /\ started[u] /\ task[u] = "RUNNING" /\ deliveries[u] = 0
        /\ reason[u] \in Reason
        /\ status[u] \in {"RUNNING", "WAITING_APPROVAL"}
    BY DEF Incomplete, IInv, TypeOK, RecoveryAgrees, TaskAgrees, DeliveredOnce
  <1>2. /\ RecoveredStatus(u) \in {"CREATED", "WAITING_APPROVAL", "FAILED"}
        /\ status[u] = "WAITING_APPROVAL" <=> RecoveredStatus(u) = "WAITING_APPROVAL"
    BY <1>1 DEF RecoveredStatus
  <1>3. RecoveredState(u) = IF RecoveredStatus(u) = "FAILED"
                            THEN "NON_RESUMABLE" ELSE "RESUMABLE"
    BY DEF RecoveredState
  <1>4. /\ RecoveredTask(u) \in TaskStatus
        /\ RecoveredStatus(u) # "FAILED" => RecoveredTask(u) = "RUNNING"
        /\ RecoveredStatus(u) = "FAILED" => RecoveredTask(u) \in {"FAILED", "TIMED_OUT"}
    BY <1>1, <1>2, <1>3 DEF RecoveredTask, ProjectedTask
  <1>5. NewDelivery(u, task[u], RecoveredTask(u)) =
              IF u \in Notified /\ RecoveredStatus(u) = "FAILED" THEN 1 ELSE 0
    BY <1>1, <1>2, <1>4 DEF NewDelivery
  <1> QED BY <1>1, <1>2, <1>3, <1>4, <1>5

\* recoverIncompleteRuns, which writes all incomplete Runs at once, keeps it.
LEMMA RecoverIInv == ASSUME IInv, RecoverIncompleteRuns PROVE IInv'
  <1> USE DEF RecoverIncompleteRuns
  <1>1. TypeOK'
    <2>1. status' \in [Run -> RunStatus \cup {"ABSENT"}] /\ recovery' \in [Run -> RecoveryState]
      BY RecoveredValues DEF IInv, TypeOK
    <2>2. task' \in [Run -> TaskStatus] BY RecoveredValues DEF IInv, TypeOK
    <2>3. deliveries' \in [Run -> 0 .. 1]
      <3>1. ASSUME NEW u \in Run, u \in Incomplete
            PROVE  deliveries[u] + NewDelivery(u, task[u], RecoveredTask(u)) \in 0 .. 1
        BY <3>1, RecoveredValues
      <3> QED BY <3>1 DEF IInv, TypeOK
    <2>4. attempt' \in [Run -> [AttemptNo -> AttemptStatus]] BY DEF IInv, TypeOK
    <2>5. resumable' \in [Run -> BOOLEAN] BY DEF IInv, TypeOK, Extended
    <2> QED BY <2>1, <2>2, <2>3, <2>4, <2>5 DEF IInv, TypeOK
  <1>2. ASSUME NEW u \in Run, status[u] = "RUNNING"
        PROVE  /\ u \in Incomplete /\ current[u] \in AttemptNo
               /\ attempt'[u] = [attempt[u] EXCEPT ![current[u]] = "ABORTED"]
               /\ attempt'[u][current[u]] = "ABORTED"
    BY <1>2 DEF IInv, TypeOK, AttemptAgrees, Incomplete
  <1>3. ASSUME NEW u \in Run, status[u] # "RUNNING" PROVE attempt'[u] = attempt[u]
    BY <1>3 DEF IInv, TypeOK
  <1>4. AttemptAgrees'
    <2> SUFFICES ASSUME NEW u \in Run
                 PROVE  IF status'[u] = "ABSENT" THEN current'[u] = 0
                        ELSE /\ current'[u] \in AttemptNo
                             /\ status'[u] = "CREATED" => attempt'[u][current'[u]] \in {"CREATED", "ABORTED"}
                             /\ status'[u] = "FAILED" => attempt'[u][current'[u]] \in {"FAILED", "ABORTED"}
                             /\ status'[u] \notin {"CREATED", "FAILED"} => attempt'[u][current'[u]] = status'[u]
      BY DEF AttemptAgrees, AttemptOf
    <2>1. CASE status[u] = "RUNNING"
      BY <1>2, <2>1, RecoveredValues DEF IInv, TypeOK
    <2>2. CASE status[u] = "WAITING_APPROVAL"
      BY <1>3, <2>2, RecoveredValues DEF IInv, TypeOK, AttemptAgrees, AttemptOf, Incomplete
    <2>3. CASE u \notin Incomplete
      BY <1>3, <2>3 DEF IInv, TypeOK, AttemptAgrees, AttemptOf, Incomplete
    <2> QED BY <2>1, <2>2, <2>3 DEF Incomplete
  <1>5. SupersededAborted' BY <1>2, <1>3 DEF IInv, TypeOK, SupersededAborted
  <1>6. RecoveryAgrees'
    BY <1>2, <1>3, RecoveredValues DEF IInv, TypeOK, RecoveryAgrees, AttemptOf, Incomplete
  <1>7. TaskAgrees'
    BY RecoveredValues DEF IInv, TypeOK, TaskAgrees, Incomplete
  <1>8. DeliveredOnce'
    BY RecoveredValues DEF IInv, TypeOK, DeliveredOnce, Incomplete
  <1> QED BY <1>1, <1>4, <1>5, <1>6, <1>7, <1>8 DEF IInv

\* A step outside the ledger keeps it.
LEMMA StutterIInv == ASSUME IInv, UNCHANGED ledgerVars PROVE IInv'
  BY QuietIInv DEF ledgerVars, IInv, TypeOK

\* Every step keeps the inductive invariant.
LEMMA NextIInv == ASSUME IInv, [Next]_ledgerVars PROVE IInv'
  <1>1. ASSUME NEW u \in Run, Operation(u) PROVE IInv'
    <2>1. CASE Send(u) BY <2>1, SendIInv
    <2>2. CASE PrepareExecutionAttempt(u)
      <3>1. CASE AttemptOf(u) = "ABORTED" BY <2>2, <3>1, PrepareIInv
      <3>2. CASE AttemptOf(u) # "ABORTED"
        BY <2>2, <3>2, StutterIInv DEF PrepareExecutionAttempt
      <3> QED BY <3>1, <3>2
    <2>3. CASE StartExecution(u) BY <2>3, StartReplaceIInv, StartKeepIInv
    <2>4. CASE \/ \E e \in KernelEvent : RecordEvent(u, e)
               \/ \E why \in Reason : UpdateExecutionUsage(u, why)
               \/ AppendApprovalToolResult(u)
               \/ MarkWaiting(u)
               \/ DeliverDelegationResult(u)
      BY <2>4, QuietCallsIInv
    <2>5. CASE \E s \in RunStatus : TransitionRun(u, s, "run.transition")
      BY <2>5, TransitionReplaceIInv, TransitionKeepIInv
    <2>6. CASE ResumeExecution(u) BY <2>6, ResumeIInv
    <2>7. CASE Cancel(u) BY <2>7, CancelIInv
    <2>8. CASE MarkExecutionLost(u) BY <2>8, LostIInv
    <2>9. CASE InterruptExecution(u) BY <2>9, InterruptRequeueIInv, InterruptFailIInv
    <2>10. CASE WaitForDelegation(u) BY <2>10, WaitIInv
    <2>11. CASE \E timedOut \in BOOLEAN : TerminateChild(u, timedOut)
      BY <2>11, TimedOutIInv, TerminatedIInv
    <2> QED BY <1>1, <2>1, <2>2, <2>3, <2>4, <2>5, <2>6, <2>7, <2>8, <2>9, <2>10, <2>11
            DEF Operation
  <1>2. CASE RecoverIncompleteRuns BY <1>2, RecoverIInv
  <1>3. CASE UNCHANGED ledgerVars BY <1>3, StutterIInv
  <1> QED BY <1>1, <1>2, <1>3 DEF Next

\* The strengthened invariant holds in every state of the ledger.
THEOREM IInvInvariant == Spec => []IInv
  <1>1. Init => IInv BY InitIInv
  <1>2. IInv /\ [Next]_ledgerVars => IInv' BY NextIInv
  <1> QED BY <1>1, <1>2, PTL DEF Spec

\* Type correctness of the ledger for every set of Runs and attempt bound.
THEOREM TypeCorrect == Spec => []TypeOK
  <1>1. IInv => TypeOK BY DEF IInv
  <1> QED BY <1>1, IInvInvariant, PTL

\* Runs, attempts, recovery states, Tasks and deliveries agree, whatever calls of
\* ConversationService, crashes and recoveries led to the state.
THEOREM LedgerCorrect == Spec => []LedgerAgrees
  <1>1. IInv => LedgerAgrees BY DEF IInv, LedgerAgrees
  <1> QED BY <1>1, IInvInvariant, PTL

\* The current attempt always tells the same story as its Run.
THEOREM AttemptsAgree == Spec => []AttemptAgrees
  <1>1. IInv => AttemptAgrees BY DEF IInv
  <1> QED BY <1>1, IInvInvariant, PTL

\* At most one attempt of a Run is live.
THEOREM OneLiveAttempt == Spec => []SupersededAborted
  <1>1. IInv => SupersededAborted BY DEF IInv
  <1> QED BY <1>1, IInvInvariant, PTL

\* recovery_state, started_at and status of a Run are consistent.
THEOREM RecoveryConsistent == Spec => []RecoveryAgrees
  <1>1. IInv => RecoveryAgrees BY DEF IInv
  <1> QED BY <1>1, IInvInvariant, PTL

\* The projected Task never drifts from its Run.
THEOREM TaskProjected == Spec => []TaskAgrees
  <1>1. IInv => TaskAgrees BY DEF IInv
  <1> QED BY <1>1, IInvInvariant, PTL

\* The completion of a notified Task is delivered exactly once.
THEOREM CompletionDeliveredOnce == Spec => []DeliveredOnce
  <1>1. IInv => DeliveredOnce BY DEF IInv
  <1> QED BY <1>1, IInvInvariant, PTL

\* No step changes a Run that ended.
LEMMA TerminalStep ==
  ASSUME IInv, [Next]_ledgerVars, NEW u \in Run, status[u] \in TerminalRun
  PROVE  /\ status'[u] = status[u] /\ recovery'[u] = recovery[u]
         /\ current'[u] = current[u] /\ task'[u] = task[u]
  <1> USE DEF IInv, TypeOK
  <1>1. ASSUME NEW q \in Run, Operation(q)
        PROVE  /\ status'[u] = status[u] /\ recovery'[u] = recovery[u]
               /\ current'[u] = current[u] /\ task'[u] = task[u]
    <2>1. CASE Send(q) BY <2>1 DEF Send
    <2>2. CASE PrepareExecutionAttempt(q)
      <3>1. q # u BY <2>2 DEF PrepareExecutionAttempt, Preparable
      <3>2. CASE AttemptOf(q) = "ABORTED"
        BY <2>2, <3>1, <3>2 DEF PrepareExecutionAttempt, InsertAttempt, UpdateRun
      <3>3. CASE AttemptOf(q) # "ABORTED"
        BY <2>2, <3>3 DEF PrepareExecutionAttempt, ledgerVars
      <3> QED BY <3>2, <3>3
    <2>3. CASE StartExecution(q)
      BY <2>3 DEF StartExecution, InsertAttempt, UpdateRun
    <2>4. CASE \/ \E e \in KernelEvent : RecordEvent(q, e)
               \/ \E why \in Reason : UpdateExecutionUsage(q, why)
               \/ AppendApprovalToolResult(q)
               \/ MarkWaiting(q)
               \/ DeliverDelegationResult(q)
      BY <2>4 DEF RecordEvent, UpdateExecutionUsage, AppendApprovalToolResult,
                  MarkWaiting, DeliverDelegationResult
    <2>5. CASE \E s \in RunStatus : TransitionRun(q, s, "run.transition")
      <3>1. q # u BY <2>5 DEF TransitionRun, Transitions
      <3>2. UNCHANGED current \/ InsertAttempt(q, "RUNNING") BY <2>5 DEF TransitionRun
      <3>3. current'[u] = current[u] BY <3>1, <3>2 DEF InsertAttempt
      <3> QED BY <2>5, <3>1, <3>3 DEF TransitionRun, UpdateRun
    <2>6. CASE ResumeExecution(q) BY <2>6 DEF ResumeExecution, UpdateRun
    <2>7. CASE Cancel(q) BY <2>7 DEF Cancel, UpdateRun
    <2>8. CASE MarkExecutionLost(q) BY <2>8 DEF MarkExecutionLost, UpdateRun
    <2>9. CASE InterruptExecution(q) BY <2>9 DEF InterruptExecution, UpdateRun
    <2>10. CASE WaitForDelegation(q) BY <2>10 DEF WaitForDelegation, UpdateRun
    <2>11. CASE \E timedOut \in BOOLEAN : TerminateChild(q, timedOut)
      BY <2>11 DEF TerminateChild, UpdateRun
    <2> QED BY <1>1, <2>1, <2>2, <2>3, <2>4, <2>5, <2>6, <2>7, <2>8, <2>9, <2>10, <2>11
            DEF Operation
  <1>2. CASE RecoverIncompleteRuns
    BY <1>2 DEF RecoverIncompleteRuns, Incomplete
  <1>3. CASE UNCHANGED ledgerVars BY <1>3 DEF ledgerVars
  <1> QED BY <1>1, <1>2, <1>3 DEF Next

\* A terminal Run is never resurrected or given another outcome.
THEOREM TerminalRunsAreFinal == Spec => TerminalIsFinal
  <1>1. IInv /\ [Next]_ledgerVars => [NoneResurrected]_ledgerVars
    BY TerminalStep DEF NoneResurrected
  <1> QED BY <1>1, IInvInvariant, PTL DEF Spec, TerminalIsFinal

\* A RUNNING Run is queued again only with a checkpoint or a durable wait.
LEMMA RequeueStep ==
  ASSUME IInv, [Next]_ledgerVars, NEW u \in Run, status[u] = "RUNNING", status'[u] = "CREATED"
  PROVE  resumable[u] \/ wait[u]
  <1> USE DEF IInv, TypeOK
  <1>1. ASSUME NEW q \in Run, Operation(q) PROVE resumable[u] \/ wait[u]
    <2>1. CASE Send(q) BY <2>1 DEF Send
    <2>2. CASE PrepareExecutionAttempt(q)
      BY <2>2 DEF PrepareExecutionAttempt, UpdateRun, ledgerVars
    <2>3. CASE StartExecution(q) BY <2>3 DEF StartExecution, UpdateRun
    <2>4. CASE \/ \E e \in KernelEvent : RecordEvent(q, e)
               \/ \E why \in Reason : UpdateExecutionUsage(q, why)
               \/ AppendApprovalToolResult(q)
               \/ MarkWaiting(q)
               \/ DeliverDelegationResult(q)
      BY <2>4 DEF RecordEvent, UpdateExecutionUsage, AppendApprovalToolResult,
                  MarkWaiting, DeliverDelegationResult
    <2>5. CASE \E s \in RunStatus : TransitionRun(q, s, "run.transition")
      BY <2>5 DEF TransitionRun, Transitions, UpdateRun
    <2>6. CASE ResumeExecution(q) BY <2>6 DEF ResumeExecution, UpdateRun
    <2>7. CASE Cancel(q) BY <2>7 DEF Cancel, UpdateRun
    <2>8. CASE MarkExecutionLost(q) BY <2>8 DEF MarkExecutionLost, UpdateRun
    <2>9. CASE InterruptExecution(q) BY <2>9 DEF InterruptExecution, UpdateRun
    <2>10. CASE WaitForDelegation(q) BY <2>10 DEF WaitForDelegation, UpdateRun
    <2>11. CASE \E timedOut \in BOOLEAN : TerminateChild(q, timedOut)
      BY <2>11 DEF TerminateChild, UpdateRun
    <2> QED BY <1>1, <2>1, <2>2, <2>3, <2>4, <2>5, <2>6, <2>7, <2>8, <2>9, <2>10, <2>11
            DEF Operation
  <1>2. CASE RecoverIncompleteRuns
    BY <1>2 DEF RecoverIncompleteRuns, Incomplete, RecoveredStatus
  <1>3. CASE UNCHANGED ledgerVars BY <1>3 DEF ledgerVars
  <1> QED BY <1>1, <1>2, <1>3 DEF Next

\* A RUNNING Run is queued again only behind a recoverable checkpoint or a wait.
THEOREM RequeuesAreSafe == Spec => RequeueOnlyWhenSafe
  <1>1. IInv /\ [Next]_ledgerVars => [RequeuedSafely]_ledgerVars
    BY RequeueStep DEF RequeuedSafely
  <1> QED BY <1>1, IInvInvariant, PTL DEF Spec, RequeueOnlyWhenSafe

\* No call and no recovery resurrects a Run that ended or repeats work that is
\* not known to be safe to repeat.
THEOREM LedgerStepsSafe == Spec => LedgerSteps
  BY TerminalRunsAreFinal, RequeuesAreSafe DEF LedgerSteps

\* A step that changes the Task of one Run, seen from the contract.
LEMMA OneTaskStep ==
  ASSUME IInv, IInv', NEW q \in Run, status[q] # "ABSENT", status'[q] # "ABSENT",
         \A p \in Run \ {q} : task'[p] = task[p] /\ deliveries'[p] = deliveries[p],
         status[q] \in TerminalRun => status'[q] = status[q] /\ task'[q] = task[q],
         started[q] => started'[q]
  PROVE  Contract!Next \/ UNCHANGED <<task, deliveries>>
  <1> USE DEF IInv
  <1>1. /\ task \in [Run -> TaskStatus] /\ task' \in [Run -> TaskStatus]
        /\ deliveries \in [Run -> 0 .. 1] /\ deliveries' \in [Run -> 0 .. 1]
        /\ status[q] \in RunStatus /\ status'[q] \in RunStatus
    BY DEF TypeOK
  <1>2. deliveries[q] = IF q \in Notified /\ status[q] \in TerminalRun THEN 1 ELSE 0
    BY DEF DeliveredOnce
  <1>3. deliveries'[q] = IF q \in Notified /\ status'[q] \in TerminalRun THEN 1 ELSE 0
    BY DEF DeliveredOnce
  <1>4. CASE status[q] \in TerminalRun
    BY <1>1, <1>2, <1>3, <1>4
  <1>5. CASE status[q] \notin TerminalRun /\ status'[q] \notin TerminalRun
    <2>1. task[q] \in {"QUEUED", "RUNNING"} /\ task'[q] \in {"QUEUED", "RUNNING"}
      BY <1>1, <1>5 DEF TaskAgrees
    <2>2. task[q] = "RUNNING" => task'[q] = "RUNNING"
      BY <1>1, <1>5, <2>1 DEF TaskAgrees, RecoveryAgrees
    <2>3. UNCHANGED deliveries BY <1>1, <1>2, <1>3, <1>5
    <2>4. CASE task'[q] = task[q] BY <1>1, <2>3, <2>4
    <2>5. CASE task'[q] # task[q]
      <3>1. task[q] = "QUEUED" /\ task'[q] = "RUNNING" BY <2>1, <2>2, <2>5
      <3>2. task' = [task EXCEPT ![q] = "RUNNING"] BY <1>1, <3>1
      <3> QED BY <2>3, <3>1, <3>2 DEF Contract!Next, Contract!Start
    <2> QED BY <2>4, <2>5
  <1>6. CASE status[q] \notin TerminalRun /\ status'[q] \in TerminalRun
    <2> DEFINE outcome == [t \in {q} |-> task'[q]]
    <2>1. task[q] \in {"QUEUED", "RUNNING"} /\ task'[q] \in Contract!Outcome
      BY <1>1, <1>6 DEF TaskAgrees, Contract!Outcome
    <2>2. outcome \in [{q} -> Contract!Outcome] BY <2>1
    <2>3. task' = [t \in Run |-> IF t \in {q} THEN outcome[t] ELSE task[t]] BY <1>1
    <2>4. deliveries' = [t \in Run |->
            IF t \in {q} \cap Notified THEN deliveries[t] + 1 ELSE deliveries[t]]
      BY <1>1, <1>2, <1>3, <1>6
    <2>5. Contract!Finish({q})
      <3> HIDE DEF outcome
      <3> QED BY <2>1, <2>2, <2>3, <2>4 DEF Contract!Finish
    <2> QED BY <2>5 DEF Contract!Next
  <1> QED BY <1>4, <1>5, <1>6

\* A step that updates the row of Run u, and so the Task of u and no other.
UpdatesOnly(u) ==
    /\ status[u] # "ABSENT" /\ status'[u] # "ABSENT"
    /\ started[u] => started'[u]
    /\ \A p \in Run \ {u} : task'[p] = task[p] /\ deliveries'[p] = deliveries[p]

\* updateRun leaves the rows of the other Runs alone.
LEMMA UpdateRunOnly ==
  ASSUME TypeOK, NEW u \in Run, NEW s \in RunStatus, NEW rec, NEW starting, NEW why, NEW lost,
         status[u] # "ABSENT", UpdateRun(u, s, rec, starting, why, lost)
  PROVE  UpdatesOnly(u)
  BY DEF UpdateRun, UpdatesOnly, TypeOK

\* Recovery moves every Task by a step of the contract or not at all.
LEMMA RecoverTaskStep ==
  ASSUME IInv, IInv', RecoverIncompleteRuns
  PROVE  Contract!Finish({u \in Incomplete : RecoveredStatus(u) = "FAILED"})
  <1> DEFINE T == {u \in Incomplete : RecoveredStatus(u) = "FAILED"}
             outcome == [t \in T |-> RecoveredTask(t)]
  <1>1. \A t \in T : t \in Run /\ task[t] = "RUNNING"
    BY DEF Incomplete, IInv, TaskAgrees
  <1>2. outcome \in [T -> Contract!Outcome]
    BY RecoveredValues DEF Contract!Outcome
  <1>3. \A u \in Incomplete : task[u] = "RUNNING" BY DEF Incomplete, IInv, TaskAgrees
  <1>4. task' = [t \in Run |-> IF t \in T THEN outcome[t] ELSE task[t]]
    BY <1>3, RecoveredValues DEF RecoverIncompleteRuns
  <1>5. ASSUME NEW t \in Run
        PROVE  deliveries'[t] = IF t \in T \cap Notified THEN deliveries[t] + 1 ELSE deliveries[t]
    BY RecoveredValues DEF RecoverIncompleteRuns, IInv, TypeOK
  <1>6. deliveries' = [t \in Run |-> IF t \in T \cap Notified THEN deliveries[t] + 1 ELSE deliveries[t]]
    BY <1>5 DEF RecoverIncompleteRuns
  <1> HIDE DEF T, outcome
  <1>7. Contract!Finish(T) BY <1>1, <1>2, <1>4, <1>6 DEF Contract!Finish
  <1> QED BY <1>7 DEF T

\* Every step of the ledger is a step of the Task contract or a stutter.
LEMMA ContractStep ==
  ASSUME IInv, IInv', [Next]_ledgerVars
  PROVE  [Contract!Next]_(Contract!contractVars)
  <1> USE DEF Contract!contractVars
  <1>1. ASSUME NEW u \in Run, Operation(u)
        PROVE  Contract!Next \/ UNCHANGED <<task, deliveries>>
    <2>1. CASE Send(u)
      <3>1. task[u] = "ABSENT" /\ task' = [task EXCEPT ![u] = "QUEUED"] /\ UNCHANGED deliveries
        BY <2>1 DEF Send, IInv, TaskAgrees
      <3> QED BY <3>1 DEF Contract!Next, Contract!Queue
    <2>2. CASE ~Send(u)
      <3>1. UNCHANGED <<task, deliveries>> \/ UpdatesOnly(u)
        <4> USE <1>1, <2>2, UpdateRunOnly DEF IInv
        <4>1. CASE PrepareExecutionAttempt(u)
          <5>1. CASE AttemptOf(u) = "ABORTED"
            BY <4>1, <5>1 DEF PrepareExecutionAttempt, Preparable
          <5>2. CASE AttemptOf(u) # "ABORTED"
            BY <4>1, <5>2 DEF PrepareExecutionAttempt, ledgerVars
          <5> QED BY <5>1, <5>2
        <4>2. CASE StartExecution(u) BY <4>2 DEF StartExecution
        <4>3. CASE \/ \E e \in KernelEvent : RecordEvent(u, e)
                   \/ \E why \in Reason : UpdateExecutionUsage(u, why)
                   \/ AppendApprovalToolResult(u)
                   \/ MarkWaiting(u)
                   \/ DeliverDelegationResult(u)
          BY <4>3 DEF RecordEvent, UpdateExecutionUsage, AppendApprovalToolResult,
                      MarkWaiting, DeliverDelegationResult
        <4>4. CASE \E s \in RunStatus : TransitionRun(u, s, "run.transition")
          <5>1. PICK s \in RunStatus : TransitionRun(u, s, "run.transition") BY <4>4
          <5> QED BY <5>1 DEF TransitionRun
        <4>5. CASE ResumeExecution(u) BY <4>5 DEF ResumeExecution
        <4>6. CASE Cancel(u) BY <4>6 DEF Cancel
        <4>7. CASE MarkExecutionLost(u) BY <4>7 DEF MarkExecutionLost
        <4>8. CASE InterruptExecution(u) BY <4>8 DEF InterruptExecution
        <4>9. CASE WaitForDelegation(u) BY <4>9 DEF WaitForDelegation
        <4>10. CASE \E timedOut \in BOOLEAN : TerminateChild(u, timedOut)
          BY <4>10 DEF TerminateChild
        <4> QED BY <4>1, <4>2, <4>3, <4>4, <4>5, <4>6, <4>7, <4>8, <4>9, <4>10 DEF Operation
      <3>2. status[u] \in TerminalRun => status'[u] = status[u] /\ task'[u] = task[u]
        BY TerminalStep
      <3>3. UpdatesOnly(u) => Contract!Next \/ UNCHANGED <<task, deliveries>>
        BY <3>2, OneTaskStep DEF UpdatesOnly
      <3> QED BY <3>1, <3>3
    <2> QED BY <2>1, <2>2
  <1>2. CASE RecoverIncompleteRuns
    <2>1. {u \in Incomplete : RecoveredStatus(u) = "FAILED"} \in SUBSET Run BY DEF Incomplete
    <2> QED BY <1>2, <2>1, RecoverTaskStep DEF Contract!Next
  <1>3. CASE UNCHANGED ledgerVars BY <1>3 DEF ledgerVars
  <1> QED BY <1>1, <1>2, <1>3 DEF Next

\* The ledger implements the contract of Tasks.
THEOREM LedgerImplementsContract == Spec => ImplementsTaskContract
  <1>1. Init => Contract!Init BY DEF Init, Contract!Init
  <1>2. IInv /\ IInv' /\ [Next]_ledgerVars => [Contract!Next]_(Contract!contractVars)
    BY ContractStep
  <1> QED BY <1>1, <1>2, IInvInvariant, PTL DEF Spec, ImplementsTaskContract, Contract!Spec

HIDE LedgerAssumption DEF RunStatus, TerminalRun, RecoveryState,
  AttemptNo, AttemptStatus, TaskStatus, TerminalTask, Reason

(***************************************************************************)
(* The Host.                                                               *)
(***************************************************************************)

Places == Sync \cup {"idle", "preparing", "resolving", "streaming", "output", "tool", "leaving"}
Asking == {"turn", "streaming", "output", "message"}
Preparing == {"prepare", "preparing", "resolving"}
Waking == {"idle", "approved", "executing", "spawned", "recording", "resuming"}
Undecided == {"PENDING", "APPROVED"}
Refused == {"DENIED", "EXPIRED", "CANCELLED"}

\* Every Tool call that was asked for has its result.
AllAnswered == \A c \in Call : c <= asked => c \in answered

\* The types of what the Host keeps, as far as the proofs need them.
HostTypesOK ==
    /\ status \in [Run -> RunStatus \cup {"ABSENT"}] /\ wait \in [Run -> BOOLEAN]
    /\ resumable \in [Run -> BOOLEAN]
    /\ host \in {"UP", "CLOSING", "DOWN"} /\ pc \in Places
    /\ asked \in Nat /\ asked <= MaxCalls /\ next \in Nat \ {0}
    /\ approval \in [Call -> {"NONE", "CONSUMED"} \cup Undecided \cup Refused]
    /\ hook \in [Call -> Waking]
    /\ effects \in [Call -> {0, 1}]
    /\ downs \in Nat /\ repeats \in Nat /\ repeats <= MaxRepeat

\* One thing at a time holds the thread, and a Host that is down runs nothing.
ThreadOK ==
    /\ pc \in Sync => \A c \in Call : hook[c] \notin SyncHook
    /\ \A c, d \in Call : hook[c] \in SyncHook /\ hook[d] \in SyncHook => c = d
    /\ host = "DOWN" => pc = "idle" /\ \A c \in Call : hook[c] = "idle"

\* What the place of the execution says of the Run and of the Host.
PlaceOK ==
    /\ ~wait[r]
    /\ status[r] = "ABSENT" => pc = "idle" /\ asked = 0
    /\ pc \in Asking \cup {"call", "tool", "result"} => status[r] \in {"RUNNING"} \cup TerminalRun
    /\ pc = "resolving" => \/ mode = "start" /\ status[r] # "WAITING_APPROVAL"
                           \/ mode = "resume" /\ status[r] # "CREATED"
    /\ pc = "leaving" /\ status[r] = "CREATED" => host = "CLOSING" \/ mode = "unresolved"
    /\ pc = "interrupting" => host = "CLOSING"
    /\ abort = "shutdown" => host = "CLOSING"
    /\ host # "UP" => downs > 0
    /\ cancelling => status[r] \in TerminalRun

\* A Tool call that was not handled yet has no request, no effect and no result.
CallsOK ==
    /\ \A c \in Call :
           c > asked \/ (pc \in {"call", "tool"} /\ c >= next) \/ (pc = "result" /\ c > next) =>
               effects[c] = 0 /\ approval[c] = "NONE" /\ c \notin answered
    /\ pc \in {"tool", "result"} => next <= asked
    /\ pc = "result" => \A c \in Call : c = next => approval[c] = "NONE"

\* Where a hook stands, what its request says and whether its process may run.
HooksOK ==
    \A c \in Call :
        /\ hook[c] = "approved" => approval[c] = "APPROVED"
        /\ hook[c] \in {"executing", "spawned"} => approval[c] = "CONSUMED"
        /\ hook[c] = "executing" => effects[c] = 0
        /\ hook[c] \in {"recording", "resuming"} => approval[c] \in {"CONSUMED"} \cup Refused
        /\ approval[c] \in Undecided \cup Refused => effects[c] = 0

\* In the life of one process a waiting Run has a request to decide, a hook at
\* work or a resume that is remembered.
WaitOK ==
    ~ListExpires /\ downs = 0 =>
        /\ pc \in {"suspending", "suspend"} =>
               status[r] \in TerminalRun \/ \E c \in Call : approval[c] = "PENDING"
        /\ pc \in {"idle", "leaving"} /\ status[r] = "WAITING_APPROVAL" =>
               \/ mode = "unresolved"
               \/ pc = "leaving" /\ pending
               \/ \E c \in Call : approval[c] = "PENDING" \/ hook[c] # "idle"

\* With one Tool call in a turn and no repeated decision, only the last call may
\* be without a result, and then the Run neither asks the model nor is queued.
AnswerOK ==
    MaxTurnCalls <= 1 /\ repeats = 0 =>
        /\ \A c \in Call : c < asked => c \in answered
        /\ pc \in Asking \cup Preparing \/ status[r] = "CREATED" \/ resumable[r] \/ pending
               => AllAnswered
        /\ pc = "message" => ~resumable[r]
        /\ pc = "call" => next = asked \/ (next = asked + 1 /\ AllAnswered)
        /\ pc \in {"tool", "result"} => next = asked
        /\ pending => pc = "leaving"
        /\ \A c \in Call :
              /\ hook[c] = "resuming" => AllAnswered /\ pc \in {"idle", "leaving"}
              /\ approval[c] \in Undecided \/ hook[c] \notin {"idle", "resuming"} => c \notin answered

\* The inductive invariant.
HostInv ==
    /\ HostTypesOK /\ ThreadOK /\ PlaceOK /\ CallsOK /\ HooksOK
    /\ QueuedIsOwned /\ WaitOK /\ AnswerOK

-----------------------------------------------------------------------------
\* The Tool calls are the numbers 1 .. MaxCalls.
LEMMA CallFacts ==
  /\ MaxCalls \in Nat /\ MaxTurnCalls \in Nat /\ MaxDown \in Nat /\ MaxRepeat \in Nat /\ MaxRetry \in Nat
  /\ \A c \in Call : c \in Nat /\ 1 <= c /\ c <= MaxCalls
  /\ \A c \in Nat : 1 <= c /\ c <= MaxCalls => c \in Call
  BY HostAssumption DEF Call

\* What an event does to the checkpoint of the Run.
LEMMA EventFacts ==
  ASSUME HostTypesOK, NEW e, AppendEvent(r, e)
  PROVE  /\ resumable' \in [Run -> BOOLEAN]
         /\ e # "run.checkpoint" => (resumable'[r] => resumable[r] /\ e \in SafeAfterCheckpoint)
  BY HostAssumption DEF HostTypesOK, AppendEvent, Extended

\* What the ledger leaves alone when it only records something about the Run.
Quiet ==
    /\ status' \in [Run -> RunStatus \cup {"ABSENT"}] /\ status'[r] = status[r]
    /\ wait' = wait
    /\ resumable' \in [Run -> BOOLEAN] /\ (resumable'[r] => resumable[r])

\* The Run gets the status s and its log an event that is no checkpoint.
Becomes(s) ==
    /\ status' \in [Run -> RunStatus \cup {"ABSENT"}] /\ status'[r] = s
    /\ wait' = wait
    /\ resumable' \in [Run -> BOOLEAN] /\ ~resumable'[r]

\* A step outside the ledger is quiet.
LEMMA LedgerQuiet == ASSUME HostTypesOK, UNCHANGED ledgerVars PROVE Quiet
  BY DEF HostTypesOK, ledgerVars, Quiet

\* An event of the kernel is quiet, and only a safe one leaves a checkpoint in place.
LEMMA EventQuiet ==
  ASSUME HostTypesOK, NEW e, RecordEvent(r, e), e # "run.checkpoint"
  PROVE  Quiet /\ (resumable'[r] => e \in SafeAfterCheckpoint) /\ status[r] # "ABSENT"
  <1>1. AppendEvent(r, e) /\ status' = status /\ wait' = wait /\ status[r] # "ABSENT" BY DEF RecordEvent
  <1>2. /\ resumable' \in [Run -> BOOLEAN]
        /\ resumable'[r] => resumable[r] /\ e \in SafeAfterCheckpoint
    BY <1>1, EventFacts
  <1> QED BY <1>1, <1>2 DEF Quiet, HostTypesOK

\* updateExecutionUsage is quiet.
LEMMA UsageQuiet == ASSUME HostTypesOK, UpdateExecutionUsage(r, "OTHER") PROVE Quiet /\ status[r] # "ABSENT"
  BY DEF HostTypesOK, UpdateExecutionUsage, Quiet

\* appendApprovalToolResult is quiet.
LEMMA ResultQuiet == ASSUME HostTypesOK, AppendApprovalToolResult(r) PROVE Quiet
  <1>1. AppendEvent(r, "tool.completed") /\ status' = status /\ wait' = wait
    BY DEF AppendApprovalToolResult
  <1>2. resumable' \in [Run -> BOOLEAN] /\ (resumable'[r] => resumable[r])
    BY <1>1, EventFacts
  <1> QED BY <1>1, <1>2 DEF Quiet, HostTypesOK

\* prepareExecutionAttempt leaves the status alone.
LEMMA PrepareQuiet == ASSUME HostTypesOK, PrepareExecutionAttempt(r) 
  PROVE Quiet /\ status[r] \in {"CREATED", "WAITING_APPROVAL"}
  <1>1. Preparable(r) => status[r] \in {"CREATED", "WAITING_APPROVAL"} BY DEF Preparable
  <1>2. CASE AttemptOf(r) = "ABORTED"
    <2>1. /\ status' = [status EXCEPT ![r] = status[r]] /\ wait' = wait
          /\ AppendEvent(r, "run.attempt.prepared") /\ Preparable(r)
      BY <1>2 DEF PrepareExecutionAttempt, UpdateRun
    <2>2. resumable' \in [Run -> BOOLEAN] /\ (resumable'[r] => resumable[r])
      BY <2>1, EventFacts
    <2> QED BY <1>1, <2>1, <2>2, HostAssumption DEF Quiet, HostTypesOK
  <1>3. CASE AttemptOf(r) # "ABORTED"
    <2>1. UNCHANGED ledgerVars /\ Preparable(r) BY <1>3 DEF PrepareExecutionAttempt
    <2> QED BY <1>1, <2>1, LedgerQuiet
  <1> QED BY <1>2, <1>3

\* A status that UpdateRun writes with an event that is not safe to repeat.
LEMMA StatusBecomes ==
  ASSUME HostTypesOK, NEW s \in RunStatus, NEW e, e \notin SafeAfterCheckpoint \cup {"run.checkpoint"},
         status' = [status EXCEPT ![r] = s], wait' = wait, AppendEvent(r, e)
  PROVE  Becomes(s)
  <1>1. resumable' \in [Run -> BOOLEAN] /\ ~resumable'[r] BY EventFacts
  <1> QED BY <1>1, HostAssumption DEF Becomes, HostTypesOK

\* conversation.send queues the Run.
LEMMA SendBecomes == ASSUME HostTypesOK, Send(r) PROVE Becomes("CREATED") /\ status[r] = "ABSENT"
  <1>1. status' = [status EXCEPT ![r] = "CREATED"] /\ wait' = wait /\ AppendEvent(r, "run.created") /\ status[r] = "ABSENT"
    BY DEF Send
  <1>2. "CREATED" \in RunStatus /\ "run.created" \notin SafeAfterCheckpoint \cup {"run.checkpoint"}
    BY DEF RunStatus, TerminalRun, SafeAfterCheckpoint
  <1> QED BY <1>1, <1>2, StatusBecomes

\* startExecution makes a queued Run RUNNING.
LEMMA StartBecomes == ASSUME HostTypesOK, StartExecution(r) PROVE Becomes("RUNNING") /\ status[r] = "CREATED"
  <1>1. status' = [status EXCEPT ![r] = "RUNNING"] /\ wait' = wait /\ AppendEvent(r, "run.started") /\ status[r] = "CREATED"
    BY DEF StartExecution, UpdateRun
  <1>2. "RUNNING" \in RunStatus /\ "run.started" \notin SafeAfterCheckpoint \cup {"run.checkpoint"}
    BY DEF RunStatus, TerminalRun, SafeAfterCheckpoint
  <1> QED BY <1>1, <1>2, StatusBecomes

\* resumeExecution makes a waiting Run RUNNING.
LEMMA ResumeBecomes == ASSUME HostTypesOK, ResumeExecution(r) PROVE Becomes("RUNNING") /\ status[r] = "WAITING_APPROVAL"
  <1>1. status' = [status EXCEPT ![r] = "RUNNING"] /\ wait' = wait /\ AppendEvent(r, "run.resumed") /\ status[r] = "WAITING_APPROVAL"
    BY DEF ResumeExecution, UpdateRun
  <1>2. "RUNNING" \in RunStatus /\ "run.resumed" \notin SafeAfterCheckpoint \cup {"run.checkpoint"}
    BY DEF RunStatus, TerminalRun, SafeAfterCheckpoint
  <1> QED BY <1>1, <1>2, StatusBecomes

\* cancel ends a Run that has not ended.
LEMMA CancelBecomes == ASSUME HostTypesOK, Cancel(r) PROVE Becomes("CANCELLED") /\ status[r] \in RunStatus \ TerminalRun
  <1>1. status' = [status EXCEPT ![r] = "CANCELLED"] /\ wait' = wait /\ AppendEvent(r, "run.cancelled") /\ status[r] \in RunStatus \ TerminalRun
    BY DEF Cancel, UpdateRun
  <1>2. "CANCELLED" \in RunStatus /\ "run.cancelled" \notin SafeAfterCheckpoint \cup {"run.checkpoint"}
    BY DEF RunStatus, TerminalRun, SafeAfterCheckpoint
  <1> QED BY <1>1, <1>2, StatusBecomes

\* transitionRun writes a status that the old one allows.
LEMMA TransitionBecomes ==
  ASSUME HostTypesOK, NEW s \in RunStatus, TransitionRun(r, s, "run.transition")
  PROVE  Becomes(s) /\ status[r] \in RunStatus /\ s \in Transitions[status[r]]
  <1>1. /\ status' = [status EXCEPT ![r] = s] /\ wait' = wait /\ AppendEvent(r, "run.transition")
        /\ status[r] \in RunStatus /\ s \in Transitions[status[r]]
    BY DEF TransitionRun, UpdateRun
  <1>2. "run.transition" \notin SafeAfterCheckpoint \cup {"run.checkpoint"} BY DEF SafeAfterCheckpoint
  <1> QED BY <1>1, <1>2, StatusBecomes

\* interruptExecution queues the Run again only with a checkpoint.
LEMMA InterruptBecomes ==
  ASSUME HostTypesOK, InterruptExecution(r)
  PROVE  /\ status[r] = "RUNNING"
         /\ (Becomes("CREATED") /\ resumable[r]) \/ Becomes("FAILED")
  <1>1. wait' = wait /\ AppendEvent(r, "run.interrupted") /\ status[r] = "RUNNING" BY DEF InterruptExecution
  <1>2. {"CREATED", "FAILED"} \subseteq RunStatus /\ "run.interrupted" \notin SafeAfterCheckpoint \cup {"run.checkpoint"}
    BY DEF RunStatus, TerminalRun, SafeAfterCheckpoint
  <1>3. CASE resumable[r]
    <2>1. status' = [status EXCEPT ![r] = "CREATED"] BY <1>3 DEF InterruptExecution, UpdateRun
    <2> QED BY <1>1, <1>2, <1>3, <2>1, StatusBecomes
  <1>4. CASE ~resumable[r]
    <2>1. status' = [status EXCEPT ![r] = "FAILED"] BY <1>4 DEF InterruptExecution, UpdateRun
    <2> QED BY <1>1, <1>2, <2>1, StatusBecomes
  <1> QED BY <1>1, <1>3, <1>4

\* What recovery at start-up makes of the Run.
LEMMA RecoverFacts ==
  ASSUME HostTypesOK, RecoverIncompleteRuns, ~wait[r]
  PROVE  /\ status' \in [Run -> RunStatus \cup {"ABSENT"}] /\ wait' = wait
         /\ resumable' \in [Run -> BOOLEAN] /\ (resumable'[r] => resumable[r])
         /\ status[r] \notin {"RUNNING"} => status'[r] = status[r]
         /\ status[r] = "RUNNING" => status'[r] = "FAILED" \/ (status'[r] = "CREATED" /\ resumable[r])
  <1>1. \A q \in Run : RecoveredStatus(q) \in {"WAITING_APPROVAL", "CREATED", "FAILED"}
    BY DEF RecoveredStatus
  <1>2. /\ status' = [q \in Run |-> IF q \in Incomplete THEN RecoveredStatus(q) ELSE status[q]]
        /\ resumable' = [q \in Run |-> IF q \in Incomplete
                              THEN Extended(resumable[q], "run.recovery_classified") ELSE resumable[q]]
        /\ wait' = wait
    BY DEF RecoverIncompleteRuns
  <1>3. status' \in [Run -> RunStatus \cup {"ABSENT"}]
    BY <1>1, <1>2 DEF HostTypesOK, RunStatus, TerminalRun
  <1>4. resumable' \in [Run -> BOOLEAN] /\ (resumable'[r] => resumable[r])
    BY <1>2, HostAssumption DEF HostTypesOK, Extended
  <1>5. /\ status[r] \notin {"RUNNING"} => status'[r] = status[r]
        /\ status[r] = "RUNNING" => status'[r] = "FAILED" \/ (status'[r] = "CREATED" /\ resumable[r])
    BY <1>2, HostAssumption DEF Incomplete, RecoveredStatus
  <1> QED BY <1>2, <1>3, <1>4, <1>5

-----------------------------------------------------------------------------
\* conversation.send keeps the invariant.
LEMMA SendAndScheduleKeeps == ASSUME HostInv, SendAndSchedule PROVE HostInv'
  <1>1. HostTypesOK /\ ThreadOK /\ PlaceOK /\ CallsOK /\ HooksOK
        /\ QueuedIsOwned /\ WaitOK /\ AnswerOK
    BY DEF HostInv
  <1>2. /\ Send(r)
        /\ host = "UP" /\ Free
        /\ pc' = "prepare"
        /\ UNCHANGED <<host, mode, abort, pending, asked, next, answered, approval, hook, cancelling, effects, repeats, downs>>
    BY DEF SendAndSchedule, Goto, userVars, counters
  <1>3. Becomes("CREATED") /\ status[r] = "ABSENT" BY <1>1, <1>2, SendBecomes
  <1>4. HostTypesOK'
    BY <1>1, <1>2, <1>3, CallFacts
    DEF HostTypesOK, Places, Sync, Waking, Undecided, Refused, Becomes
  <1>5. ThreadOK'
    BY <1>1, <1>2, <1>3, CallFacts
    DEF ThreadOK, Sync, SyncHook, Free, HostTypesOK, Becomes
  <1>6. PlaceOK'
    BY <1>1, <1>2, <1>3, CallFacts
    DEF PlaceOK, Asking, TerminalRun, HostTypesOK, Becomes
  <1>7. CallsOK'
    BY <1>1, <1>2, <1>3, CallFacts
    DEF CallsOK, HostTypesOK, Becomes
  <1>8. HooksOK'
    BY <1>1, <1>2, <1>3, CallFacts
    DEF HooksOK, Undecided, Refused, HostTypesOK, Becomes
  <1>9. QueuedIsOwned'
    BY <1>1, <1>2, <1>3, CallFacts
    DEF QueuedIsOwned, HostTypesOK, Becomes
  <1>10. WaitOK'
    BY <1>1, <1>2, <1>3, CallFacts
    DEF WaitOK, TerminalRun, HostTypesOK, Becomes
  <1>11. AnswerOK'
    BY <1>1, <1>2, <1>3, CallFacts
    DEF AnswerOK, Places, Asking, Preparing, Waking, Undecided, Refused, Sync, SyncHook,
        RunStatus, TerminalRun, HostTypesOK, Quiet, Becomes, Free, AllAnswered, PlaceOK
  <1> QED BY <1>4, <1>5, <1>6, <1>7, <1>8, <1>9, <1>10, <1>11 DEF HostInv

\* The first transaction of an execution keeps it.
LEMMA PrepareAttemptKeeps == ASSUME HostInv, PrepareAttempt PROVE HostInv'
  <1>1. HostTypesOK /\ ThreadOK /\ PlaceOK /\ CallsOK /\ HooksOK
        /\ QueuedIsOwned /\ WaitOK /\ AnswerOK
    BY DEF HostInv
  <1>2. /\ pc = "prepare"
        /\ \/ PrepareExecutionAttempt(r) /\ pc' = "preparing"
           \/ UNCHANGED ledgerVars /\ pc' = "unprepared"
        /\ UNCHANGED <<host, mode, abort, pending, asked, next, answered, approval, hook, cancelling, effects, repeats, downs>>
    BY DEF PrepareAttempt, Goto, userVars, counters
  <1>3. Quiet BY <1>1, <1>2, LedgerQuiet, PrepareQuiet
  <1>4. HostTypesOK'
    BY <1>1, <1>2, <1>3, CallFacts
    DEF HostTypesOK, Places, Sync, Waking, Undecided, Refused, Quiet
  <1>5. ThreadOK'
    BY <1>1, <1>2, <1>3, CallFacts
    DEF ThreadOK, Sync, SyncHook, Free, HostTypesOK, Quiet
  <1>6. PlaceOK'
    BY <1>1, <1>2, <1>3, CallFacts
    DEF PlaceOK, Asking, TerminalRun, HostTypesOK, Quiet
  <1>7. CallsOK'
    BY <1>1, <1>2, <1>3, CallFacts
    DEF CallsOK, HostTypesOK, Quiet
  <1>8. HooksOK'
    BY <1>1, <1>2, <1>3, CallFacts
    DEF HooksOK, Undecided, Refused, HostTypesOK, Quiet
  <1>9. QueuedIsOwned'
    BY <1>1, <1>2, <1>3, CallFacts
    DEF QueuedIsOwned, HostTypesOK, Quiet
  <1>10. WaitOK'
    BY <1>1, <1>2, <1>3, CallFacts
    DEF WaitOK, TerminalRun, HostTypesOK, Quiet
  <1>11. AnswerOK'
    BY <1>1, <1>2, <1>3, CallFacts
    DEF AnswerOK, AllAnswered, Asking, Preparing, Undecided, HostTypesOK, Quiet
  <1> QED BY <1>4, <1>5, <1>6, <1>7, <1>8, <1>9, <1>10, <1>11 DEF HostInv

\* The settled preparation keeps it.
LEMMA PreparedKeeps == ASSUME HostInv, Prepared PROVE HostInv'
  <1>1. HostTypesOK /\ ThreadOK /\ PlaceOK /\ CallsOK /\ HooksOK
        /\ QueuedIsOwned /\ WaitOK /\ AnswerOK
    BY DEF HostInv
  <1>2. /\ pc = "preparing" /\ Free
        /\ UNCHANGED ledgerVars
        /\ \/ pc' = "resolving" /\ mode' = IF status[r] = "WAITING_APPROVAL" THEN "resume" ELSE "start"
           \/ pc' = "unprepared" /\ mode' = mode
        /\ UNCHANGED <<host, abort, pending, asked, next, answered, approval, hook, cancelling, effects, repeats, downs>>
    BY DEF Prepared, Goto, userVars, counters
  <1>3. Quiet BY <1>1, <1>2, LedgerQuiet
  <1>4. HostTypesOK'
    BY <1>1, <1>2, <1>3, CallFacts
    DEF HostTypesOK, Places, Sync, Waking, Undecided, Refused, Quiet
  <1>5. ThreadOK'
    BY <1>1, <1>2, <1>3, CallFacts
    DEF ThreadOK, Sync, SyncHook, Free, HostTypesOK, Quiet
  <1>6. PlaceOK'
    BY <1>1, <1>2, <1>3, CallFacts
    DEF PlaceOK, Asking, TerminalRun, HostTypesOK, Quiet
  <1>7. CallsOK'
    BY <1>1, <1>2, <1>3, CallFacts
    DEF CallsOK, HostTypesOK, Quiet
  <1>8. HooksOK'
    BY <1>1, <1>2, <1>3, CallFacts
    DEF HooksOK, Undecided, Refused, HostTypesOK, Quiet
  <1>9. QueuedIsOwned'
    BY <1>1, <1>2, <1>3, CallFacts
    DEF QueuedIsOwned, HostTypesOK, Quiet
  <1>10. WaitOK'
    BY <1>1, <1>2, <1>3, CallFacts
    DEF WaitOK, TerminalRun, HostTypesOK, Quiet
  <1>11. AnswerOK'
    BY <1>1, <1>2, <1>3, CallFacts
    DEF AnswerOK, AllAnswered, Asking, Preparing, Undecided, HostTypesOK, Quiet
  <1> QED BY <1>4, <1>5, <1>6, <1>7, <1>8, <1>9, <1>10, <1>11 DEF HostInv

\* The resolved profile keeps it.
LEMMA ResolvedKeeps == ASSUME HostInv, Resolved PROVE HostInv'
  <1>1. HostTypesOK /\ ThreadOK /\ PlaceOK /\ CallsOK /\ HooksOK
        /\ QueuedIsOwned /\ WaitOK /\ AnswerOK
    BY DEF HostInv
  <1>2. /\ pc = "resolving" /\ Free
        /\ next' = asked + 1
        /\ \/ mode = "start" /\ StartExecution(r) /\ pc' = "turn"
           \/ mode = "resume" /\ ResumeExecution(r) /\ pc' = "turn"
           \/ /\ status[r] # IF mode = "start" THEN "CREATED" ELSE "WAITING_APPROVAL"
              /\ pc' = "leaving" /\ UNCHANGED ledgerVars
        /\ UNCHANGED <<host, mode, abort, pending, asked, answered, approval, hook, cancelling, effects, repeats, downs>>
    BY DEF Resolved, userVars, counters
  <1>3. \/ Becomes("RUNNING") /\ pc' = "turn"
        \/ /\ status[r] # IF mode = "start" THEN "CREATED" ELSE "WAITING_APPROVAL"
           /\ pc' = "leaving" /\ Quiet
    BY <1>1, <1>2, StartBecomes, ResumeBecomes, LedgerQuiet
  <1>4. HostTypesOK'
    BY <1>1, <1>2, <1>3, CallFacts
    DEF HostTypesOK, Places, Sync, Waking, Undecided, Refused, Becomes, Quiet
  <1>5. ThreadOK'
    BY <1>1, <1>2, <1>3, CallFacts
    DEF ThreadOK, Sync, SyncHook, Free, HostTypesOK, Becomes, Quiet
  <1>6. PlaceOK'
    BY <1>1, <1>2, <1>3, CallFacts
    DEF PlaceOK, Places, Asking, Preparing, Waking, Undecided, Refused, Sync, SyncHook,
        RunStatus, TerminalRun, HostTypesOK, Quiet, Becomes, Free
  <1>7. CallsOK'
    BY <1>1, <1>2, <1>3, CallFacts
    DEF CallsOK, HostTypesOK, Becomes, Quiet
  <1>8. HooksOK'
    BY <1>1, <1>2, <1>3, CallFacts
    DEF HooksOK, Undecided, Refused, HostTypesOK, Becomes, Quiet
  <1>9. QueuedIsOwned'
    BY <1>1, <1>2, <1>3, CallFacts
    DEF QueuedIsOwned, HostTypesOK, Becomes, Quiet
  <1>10. WaitOK'
    BY <1>1, <1>2, <1>3, CallFacts
    DEF WaitOK, TerminalRun, HostTypesOK, Becomes, Quiet, PlaceOK
  <1>11. AnswerOK'
    BY <1>1, <1>2, <1>3, CallFacts
    DEF AnswerOK, AllAnswered, Asking, Preparing, Undecided, HostTypesOK, Becomes, Quiet
  <1> QED BY <1>4, <1>5, <1>6, <1>7, <1>8, <1>9, <1>10, <1>11 DEF HostInv

\* A profile that does not resolve keeps it.
LEMMA UnresolvedKeeps == ASSUME HostInv, Unresolved PROVE HostInv'
  <1>1. HostTypesOK /\ ThreadOK /\ PlaceOK /\ CallsOK /\ HooksOK
        /\ QueuedIsOwned /\ WaitOK /\ AnswerOK
    BY DEF HostInv
  <1>2. /\ pc = "resolving" /\ Free
        /\ UNCHANGED ledgerVars
        /\ pc' = "leaving" /\ mode' = "unresolved"
        /\ UNCHANGED <<host, abort, pending, asked, next, answered, approval, hook, cancelling, effects, repeats, downs>>
    BY DEF Unresolved, userVars, counters
  <1>3. Quiet BY <1>1, <1>2, LedgerQuiet
  <1>4. HostTypesOK'
    BY <1>1, <1>2, <1>3, CallFacts
    DEF HostTypesOK, Places, Sync, Waking, Undecided, Refused, Quiet
  <1>5. ThreadOK'
    BY <1>1, <1>2, <1>3, CallFacts
    DEF ThreadOK, Sync, SyncHook, Free, HostTypesOK, Quiet
  <1>6. PlaceOK'
    BY <1>1, <1>2, <1>3, CallFacts
    DEF PlaceOK, Asking, TerminalRun, HostTypesOK, Quiet
  <1>7. CallsOK'
    BY <1>1, <1>2, <1>3, CallFacts
    DEF CallsOK, HostTypesOK, Quiet
  <1>8. HooksOK'
    BY <1>1, <1>2, <1>3, CallFacts
    DEF HooksOK, Undecided, Refused, HostTypesOK, Quiet
  <1>9. QueuedIsOwned'
    BY <1>1, <1>2, <1>3, CallFacts
    DEF QueuedIsOwned, HostTypesOK, Quiet
  <1>10. WaitOK'
    BY <1>1, <1>2, <1>3, CallFacts
    DEF WaitOK, TerminalRun, HostTypesOK, Quiet
  <1>11. AnswerOK'
    BY <1>1, <1>2, <1>3, CallFacts
    DEF AnswerOK, AllAnswered, Asking, Preparing, Undecided, HostTypesOK, Quiet
  <1> QED BY <1>4, <1>5, <1>6, <1>7, <1>8, <1>9, <1>10, <1>11 DEF HostInv

\* An execution that leaves keeps it.
LEMMA LeaveKeeps == ASSUME HostInv, Leave PROVE HostInv'
  <1>1. HostTypesOK /\ ThreadOK /\ PlaceOK /\ CallsOK /\ HooksOK
        /\ QueuedIsOwned /\ WaitOK /\ AnswerOK
    BY DEF HostInv
  <1>2. /\ pc = "leaving" /\ Free
        /\ UNCHANGED ledgerVars
        /\ pc' = IF pending /\ host = "UP" THEN "prepare" ELSE "idle"
        /\ abort' = "none" /\ pending' = FALSE
        /\ UNCHANGED <<host, mode, asked, next, answered, approval, hook, cancelling, effects, repeats, downs>>
    BY DEF Leave, userVars, counters
  <1>3. Quiet BY <1>1, <1>2, LedgerQuiet
  <1>4. HostTypesOK'
    BY <1>1, <1>2, <1>3, CallFacts
    DEF HostTypesOK, Places, Sync, Waking, Undecided, Refused, Quiet
  <1>5. ThreadOK'
    BY <1>1, <1>2, <1>3, CallFacts
    DEF ThreadOK, Sync, SyncHook, Free, HostTypesOK, Quiet
  <1>6. PlaceOK'
    BY <1>1, <1>2, <1>3, CallFacts
    DEF PlaceOK, Asking, TerminalRun, HostTypesOK, Quiet
  <1>7. CallsOK'
    BY <1>1, <1>2, <1>3, CallFacts
    DEF CallsOK, HostTypesOK, Quiet
  <1>8. HooksOK'
    BY <1>1, <1>2, <1>3, CallFacts
    DEF HooksOK, Undecided, Refused, HostTypesOK, Quiet
  <1>9. QueuedIsOwned'
    BY <1>1, <1>2, <1>3, CallFacts
    DEF QueuedIsOwned, HostTypesOK, Quiet, PlaceOK
  <1>10. WaitOK'
    BY <1>1, <1>2, <1>3, CallFacts
    DEF WaitOK, TerminalRun, HostTypesOK, Quiet, PlaceOK
  <1>11. AnswerOK'
    BY <1>1, <1>2, <1>3, CallFacts
    DEF AnswerOK, Places, Asking, Preparing, Waking, Undecided, Refused, Sync, SyncHook,
        RunStatus, TerminalRun, HostTypesOK, Quiet, Becomes, Free, AllAnswered
  <1> QED BY <1>4, <1>5, <1>6, <1>7, <1>8, <1>9, <1>10, <1>11 DEF HostInv

\* The start of a model turn keeps it.
LEMMA TurnKeeps == ASSUME HostInv, Turn PROVE HostInv'
  <1>1. HostTypesOK /\ ThreadOK /\ PlaceOK /\ CallsOK /\ HooksOK
        /\ QueuedIsOwned /\ WaitOK /\ AnswerOK
    BY DEF HostInv
  <1>2. /\ pc = "turn"
        /\ \/ pc' \in {"interrupting", "cancelling", "failing"} /\ UNCHANGED ledgerVars
           \/ pc' = "streaming" /\ RecordEvent(r, "model.requested")
        /\ pc' = "interrupting" => abort = "shutdown"
        /\ UNCHANGED <<host, mode, abort, pending, asked, next, answered, approval, hook, cancelling, effects, repeats, downs>>
    BY DEF Turn, Goto, Aborted, userVars, counters
  <1>3. Quiet BY <1>1, <1>2, LedgerQuiet, EventQuiet
  <1>4. HostTypesOK'
    BY <1>1, <1>2, <1>3, CallFacts
    DEF HostTypesOK, Places, Sync, Waking, Undecided, Refused, Quiet
  <1>5. ThreadOK'
    BY <1>1, <1>2, <1>3, CallFacts
    DEF ThreadOK, Sync, SyncHook, Free, HostTypesOK, Quiet
  <1>6. PlaceOK'
    BY <1>1, <1>2, <1>3, CallFacts
    DEF PlaceOK, Asking, TerminalRun, HostTypesOK, Quiet
  <1>7. CallsOK'
    BY <1>1, <1>2, <1>3, CallFacts
    DEF CallsOK, HostTypesOK, Quiet
  <1>8. HooksOK'
    BY <1>1, <1>2, <1>3, CallFacts
    DEF HooksOK, Undecided, Refused, HostTypesOK, Quiet
  <1>9. QueuedIsOwned'
    BY <1>1, <1>2, <1>3, CallFacts
    DEF QueuedIsOwned, HostTypesOK, Quiet
  <1>10. WaitOK'
    BY <1>1, <1>2, <1>3, CallFacts
    DEF WaitOK, TerminalRun, HostTypesOK, Quiet
  <1>11. AnswerOK'
    BY <1>1, <1>2, <1>3, CallFacts
    DEF AnswerOK, AllAnswered, Asking, Preparing, Undecided, HostTypesOK, Quiet
  <1> QED BY <1>4, <1>5, <1>6, <1>7, <1>8, <1>9, <1>10, <1>11 DEF HostInv

\* An event of the model stream keeps it.
LEMMA StreamKeeps == ASSUME HostInv, Stream PROVE HostInv'
  <1>1. HostTypesOK /\ ThreadOK /\ PlaceOK /\ CallsOK /\ HooksOK
        /\ QueuedIsOwned /\ WaitOK /\ AnswerOK
    BY DEF HostInv
  <1>2. /\ pc \in {"streaming", "output"} /\ Free
        /\ \/ pc' = "output" /\ RecordEvent(r, "model.text_delta")
           \/ pc' \in {"interrupting", "cancelling", "failing"} /\ UNCHANGED ledgerVars
           \/ pc' = "message" /\ RecordEvent(r, "model.completed")
        /\ pc' = "interrupting" => abort = "shutdown"
        /\ UNCHANGED <<host, mode, abort, pending, asked, next, answered, approval, hook, cancelling, effects, repeats, downs>>
    BY DEF Stream, Goto, Aborted, userVars, counters
  <1>3. Quiet /\ (pc' = "message" => ~resumable'[r])
    BY <1>1, <1>2, LedgerQuiet, EventQuiet DEF SafeAfterCheckpoint
  <1>4. HostTypesOK'
    BY <1>1, <1>2, <1>3, CallFacts
    DEF HostTypesOK, Places, Sync, Waking, Undecided, Refused, Quiet
  <1>5. ThreadOK'
    BY <1>1, <1>2, <1>3, CallFacts
    DEF ThreadOK, Sync, SyncHook, Free, HostTypesOK, Quiet
  <1>6. PlaceOK'
    BY <1>1, <1>2, <1>3, CallFacts
    DEF PlaceOK, Asking, TerminalRun, HostTypesOK, Quiet
  <1>7. CallsOK'
    BY <1>1, <1>2, <1>3, CallFacts
    DEF CallsOK, HostTypesOK, Quiet
  <1>8. HooksOK'
    BY <1>1, <1>2, <1>3, CallFacts
    DEF HooksOK, Undecided, Refused, HostTypesOK, Quiet
  <1>9. QueuedIsOwned'
    BY <1>1, <1>2, <1>3, CallFacts
    DEF QueuedIsOwned, HostTypesOK, Quiet
  <1>10. WaitOK'
    BY <1>1, <1>2, <1>3, CallFacts
    DEF WaitOK, TerminalRun, HostTypesOK, Quiet
  <1>11. AnswerOK'
    BY <1>1, <1>2, <1>3, CallFacts
    DEF AnswerOK, AllAnswered, Asking, Preparing, Undecided, HostTypesOK, Quiet
  <1> QED BY <1>4, <1>5, <1>6, <1>7, <1>8, <1>9, <1>10, <1>11 DEF HostInv

\* A retry of the model request keeps it.
LEMMA RetryModelKeeps == ASSUME HostInv, RetryModel PROVE HostInv'
  <1>1. HostTypesOK /\ ThreadOK /\ PlaceOK /\ CallsOK /\ HooksOK
        /\ QueuedIsOwned /\ WaitOK /\ AnswerOK
    BY DEF HostInv
  <1>2. /\ pc = "streaming" /\ Free
        /\ RecordEvent(r, "model.retry")
        /\ pc' = "turn"
        /\ UNCHANGED <<host, mode, abort, pending, asked, next, answered, approval, hook, cancelling, effects, repeats, downs>>
    BY DEF RetryModel, userVars, counters
  <1>3. Quiet BY <1>1, <1>2, EventQuiet
  <1>4. HostTypesOK'
    BY <1>1, <1>2, <1>3, CallFacts
    DEF HostTypesOK, Places, Sync, Waking, Undecided, Refused, Quiet
  <1>5. ThreadOK'
    BY <1>1, <1>2, <1>3, CallFacts
    DEF ThreadOK, Sync, SyncHook, Free, HostTypesOK, Quiet
  <1>6. PlaceOK'
    BY <1>1, <1>2, <1>3, CallFacts
    DEF PlaceOK, Asking, TerminalRun, HostTypesOK, Quiet
  <1>7. CallsOK'
    BY <1>1, <1>2, <1>3, CallFacts
    DEF CallsOK, HostTypesOK, Quiet
  <1>8. HooksOK'
    BY <1>1, <1>2, <1>3, CallFacts
    DEF HooksOK, Undecided, Refused, HostTypesOK, Quiet
  <1>9. QueuedIsOwned'
    BY <1>1, <1>2, <1>3, CallFacts
    DEF QueuedIsOwned, HostTypesOK, Quiet
  <1>10. WaitOK'
    BY <1>1, <1>2, <1>3, CallFacts
    DEF WaitOK, TerminalRun, HostTypesOK, Quiet
  <1>11. AnswerOK'
    BY <1>1, <1>2, <1>3, CallFacts
    DEF AnswerOK, AllAnswered, Asking, Preparing, Undecided, HostTypesOK, Quiet
  <1> QED BY <1>4, <1>5, <1>6, <1>7, <1>8, <1>9, <1>10, <1>11 DEF HostInv

\* The assistant message keeps it.
LEMMA MessageKeeps == ASSUME HostInv, Message PROVE HostInv'
  <1>1. HostTypesOK /\ ThreadOK /\ PlaceOK /\ CallsOK /\ HooksOK
        /\ QueuedIsOwned /\ WaitOK /\ AnswerOK
    BY DEF HostInv
  <1>2. /\ pc = "message"
        /\ UNCHANGED ledgerVars
        /\ \/ pc' = "failing" /\ UNCHANGED <<asked, next>>
           \/ \E n \in 0 .. MaxTurnCalls :
                 /\ asked + n <= MaxCalls
                 /\ pc' = IF n = 0 THEN "completing" ELSE "call"
                 /\ asked' = asked + n /\ next' = asked + 1
        /\ UNCHANGED <<host, mode, abort, pending, answered, approval, hook, cancelling, effects, repeats, downs>>
    BY DEF Message, userVars, counters
  <1>3. Quiet BY <1>1, <1>2, LedgerQuiet
  <1>4. HostTypesOK'
    BY <1>1, <1>2, <1>3, CallFacts
    DEF HostTypesOK, Places, Sync, Waking, Undecided, Refused, Quiet
  <1>5. ThreadOK'
    BY <1>1, <1>2, <1>3, CallFacts
    DEF ThreadOK, Sync, SyncHook, Free, HostTypesOK, Quiet
  <1>6. PlaceOK'
    BY <1>1, <1>2, <1>3, CallFacts
    DEF PlaceOK, Asking, TerminalRun, HostTypesOK, Quiet
  <1>7. CallsOK'
    BY <1>1, <1>2, <1>3, CallFacts
    DEF CallsOK, HostTypesOK, Quiet
  <1>8. HooksOK'
    BY <1>1, <1>2, <1>3, CallFacts
    DEF HooksOK, Undecided, Refused, HostTypesOK, Quiet
  <1>9. QueuedIsOwned'
    BY <1>1, <1>2, <1>3, CallFacts
    DEF QueuedIsOwned, HostTypesOK, Quiet
  <1>10. WaitOK'
    BY <1>1, <1>2, <1>3, CallFacts
    DEF WaitOK, TerminalRun, HostTypesOK, Quiet
  <1>11. AnswerOK'
    BY <1>1, <1>2, <1>3, CallFacts
    DEF AnswerOK, Places, Asking, Preparing, Waking, Undecided, Refused, Sync, SyncHook,
        RunStatus, TerminalRun, HostTypesOK, Quiet, Becomes, Free, AllAnswered, PlaceOK,
        ThreadOK, CallsOK
  <1> QED BY <1>4, <1>5, <1>6, <1>7, <1>8, <1>9, <1>10, <1>11 DEF HostInv

\* The next Tool call keeps it.
LEMMA HandleCallKeeps == ASSUME HostInv, HandleCall PROVE HostInv'
  <1>1. HostTypesOK /\ ThreadOK /\ PlaceOK /\ CallsOK /\ HooksOK
        /\ QueuedIsOwned /\ WaitOK /\ AnswerOK
    BY DEF HostInv
  <1>2. /\ pc = "call"
        /\ \/ next > asked /\ pc' = "turn" /\ UNCHANGED ledgerVars
           \/ pc' \in {"interrupting", "cancelling"} /\ UNCHANGED ledgerVars
           \/ next <= asked /\ pc' = "tool" /\ RecordEvent(r, "tool.started")
        /\ pc' = "interrupting" => abort = "shutdown"
        /\ UNCHANGED <<host, mode, abort, pending, asked, next, answered, approval, hook, cancelling, effects, repeats, downs>>
    BY DEF HandleCall, Goto, Aborted, userVars, counters
  <1>3. Quiet BY <1>1, <1>2, LedgerQuiet, EventQuiet
  <1>4. HostTypesOK'
    BY <1>1, <1>2, <1>3, CallFacts
    DEF HostTypesOK, Places, Sync, Waking, Undecided, Refused, Quiet
  <1>5. ThreadOK'
    BY <1>1, <1>2, <1>3, CallFacts
    DEF ThreadOK, Sync, SyncHook, Free, HostTypesOK, Quiet
  <1>6. PlaceOK'
    BY <1>1, <1>2, <1>3, CallFacts
    DEF PlaceOK, Asking, TerminalRun, HostTypesOK, Quiet
  <1>7. CallsOK'
    BY <1>1, <1>2, <1>3, CallFacts
    DEF CallsOK, HostTypesOK, Quiet
  <1>8. HooksOK'
    BY <1>1, <1>2, <1>3, CallFacts
    DEF HooksOK, Undecided, Refused, HostTypesOK, Quiet
  <1>9. QueuedIsOwned'
    BY <1>1, <1>2, <1>3, CallFacts
    DEF QueuedIsOwned, HostTypesOK, Quiet
  <1>10. WaitOK'
    BY <1>1, <1>2, <1>3, CallFacts
    DEF WaitOK, TerminalRun, HostTypesOK, Quiet
  <1>11. AnswerOK'
    BY <1>1, <1>2, <1>3, CallFacts
    DEF AnswerOK, AllAnswered, Asking, Preparing, Undecided, HostTypesOK, Quiet
  <1> QED BY <1>4, <1>5, <1>6, <1>7, <1>8, <1>9, <1>10, <1>11 DEF HostInv

\* A Tool that runs, asks or fails keeps it.
LEMMA ToolKeeps == ASSUME HostInv, Tool PROVE HostInv'
  <1>1. HostTypesOK /\ ThreadOK /\ PlaceOK /\ CallsOK /\ HooksOK
        /\ QueuedIsOwned /\ WaitOK /\ AnswerOK
    BY DEF HostInv
  <1>2. /\ pc = "tool" /\ Free
        /\ UNCHANGED ledgerVars
        /\ \/ pc' = "result" /\ effects' = [effects EXCEPT ![next] = @ + 1] /\ approval' = approval
           \/ pc' = "suspending" /\ approval' = [approval EXCEPT ![next] = "PENDING"] /\ effects' = effects
           \/ pc' \in {"result", "failing", "interrupting", "cancelling"} /\ approval' = approval /\ effects' = effects
        /\ pc' = "interrupting" => abort = "shutdown"
        /\ UNCHANGED <<host, mode, abort, pending, asked, next, answered, hook, cancelling, repeats, downs>>
    BY DEF Tool, Aborted, userVars, counters
  <1>3. Quiet /\ next \in Call
    <2>1. Quiet BY <1>1, <1>2, LedgerQuiet
    <2>2. next \in Call BY <1>1, <1>2, CallFacts DEF CallsOK, HostTypesOK
    <2> QED BY <2>1, <2>2
  <1>4. HostTypesOK'
    BY <1>1, <1>2, <1>3, CallFacts
    DEF HostTypesOK, Places, Sync, Waking, Undecided, Refused, Quiet, CallsOK
  <1>5. ThreadOK'
    BY <1>1, <1>2, <1>3, CallFacts
    DEF ThreadOK, Sync, SyncHook, Free, HostTypesOK, Quiet
  <1>6. PlaceOK'
    BY <1>1, <1>2, <1>3, CallFacts
    DEF PlaceOK, Asking, TerminalRun, HostTypesOK, Quiet
  <1>7. CallsOK'
    BY <1>1, <1>2, <1>3, CallFacts
    DEF CallsOK, HostTypesOK, Quiet
  <1>8. HooksOK'
    BY <1>1, <1>2, <1>3, CallFacts
    DEF HooksOK, Undecided, Refused, HostTypesOK, Quiet, CallsOK
  <1>9. QueuedIsOwned'
    BY <1>1, <1>2, <1>3, CallFacts
    DEF QueuedIsOwned, HostTypesOK, Quiet
  <1>10. WaitOK'
    BY <1>1, <1>2, <1>3, CallFacts
    DEF WaitOK, TerminalRun, HostTypesOK, Quiet
  <1>11. AnswerOK'
    BY <1>1, <1>2, <1>3, CallFacts
    DEF AnswerOK, AllAnswered, Asking, Preparing, Undecided, HostTypesOK, Quiet, CallsOK
  <1> QED BY <1>4, <1>5, <1>6, <1>7, <1>8, <1>9, <1>10, <1>11 DEF HostInv

\* The result of a Tool call keeps it.
LEMMA ResultKeeps == ASSUME HostInv, Result PROVE HostInv'
  <1>1. HostTypesOK /\ ThreadOK /\ PlaceOK /\ CallsOK /\ HooksOK
        /\ QueuedIsOwned /\ WaitOK /\ AnswerOK
    BY DEF HostInv
  <1>2. /\ pc = "result"
        /\ \/ pc' = "failing" /\ UNCHANGED <<next, answered>> /\ UNCHANGED ledgerVars
           \/ /\ status[r] \notin TerminalRun /\ RecordEvent(r, "run.checkpoint")
              /\ answered' = answered \cup {next} /\ next' = next + 1 /\ pc' = "call"
        /\ UNCHANGED <<host, mode, abort, pending, asked, approval, hook, cancelling, effects, repeats, downs>>
    BY DEF Result, userVars, counters
  <1>3. /\ next \in Call
        /\ status' \in [Run -> RunStatus \cup {"ABSENT"}] /\ status'[r] = status[r]
        /\ wait' = wait /\ resumable' \in [Run -> BOOLEAN]
        /\ pc' = "failing" => (resumable'[r] => resumable[r])
    <2>1. next \in Call BY <1>1, <1>2, CallFacts DEF CallsOK, HostTypesOK
    <2>2. CASE UNCHANGED ledgerVars BY <1>1, <2>1, <2>2, LedgerQuiet DEF Quiet
    <2>3. CASE RecordEvent(r, "run.checkpoint") /\ pc' = "call"
      <3>1. status' = status /\ wait' = wait /\ AppendEvent(r, "run.checkpoint") BY <2>3 DEF RecordEvent
      <3>2. resumable' \in [Run -> BOOLEAN] BY <1>1, <3>1, EventFacts
      <3> QED BY <1>1, <2>1, <2>3, <3>1, <3>2 DEF HostTypesOK
    <2> QED BY <1>2, <2>2, <2>3
  <1>4. HostTypesOK'
    BY <1>1, <1>2, <1>3, CallFacts
    DEF HostTypesOK, Places, Sync, Waking, Undecided, Refused
  <1>5. ThreadOK'
    BY <1>1, <1>2, <1>3, CallFacts
    DEF ThreadOK, Sync, SyncHook, Free, HostTypesOK
  <1>6. PlaceOK'
    BY <1>1, <1>2, <1>3, CallFacts
    DEF PlaceOK, Asking, TerminalRun, HostTypesOK
  <1>7. CallsOK'
    BY <1>1, <1>2, <1>3, CallFacts
    DEF CallsOK, HostTypesOK
  <1>8. HooksOK'
    BY <1>1, <1>2, <1>3, CallFacts
    DEF HooksOK, Undecided, Refused, HostTypesOK
  <1>9. QueuedIsOwned'
    BY <1>1, <1>2, <1>3, CallFacts
    DEF QueuedIsOwned, HostTypesOK
  <1>10. WaitOK'
    BY <1>1, <1>2, <1>3, CallFacts
    DEF WaitOK, TerminalRun, HostTypesOK
  <1>11. AnswerOK'
    BY <1>1, <1>2, <1>3, CallFacts
    DEF AnswerOK, Places, Asking, Preparing, Waking, Undecided, Refused, Sync, SyncHook,
        RunStatus, TerminalRun, HostTypesOK, Quiet, Becomes, Free, AllAnswered, CallsOK, HooksOK,
        ThreadOK, PlaceOK
  <1> QED BY <1>4, <1>5, <1>6, <1>7, <1>8, <1>9, <1>10, <1>11 DEF HostInv

\* The first closing transaction keeps it.
LEMMA CloseUsageKeeps == ASSUME HostInv, CloseUsage PROVE HostInv'
  <1>1. HostTypesOK /\ ThreadOK /\ PlaceOK /\ CallsOK /\ HooksOK
        /\ QueuedIsOwned /\ WaitOK /\ AnswerOK
    BY DEF HostInv
  <1>2. /\ pc \in {"suspending", "completing", "failing", "unprepared", "cancelling"}
        /\ UNCHANGED ledgerVars \/ UpdateExecutionUsage(r, "OTHER")
        /\ \/ pc' = "leaving" /\ status[r] \in TerminalRun
           \/ pc' \in {"complete", "cancel", "fail"}
           \/ pc = "suspending" /\ pc' = "suspend"
        /\ UNCHANGED <<host, mode, abort, pending, asked, next, answered, approval, hook, cancelling, effects, repeats, downs>>
    BY DEF CloseUsage, Goto, userVars, counters
  <1>3. Quiet BY <1>1, <1>2, LedgerQuiet, UsageQuiet
  <1>4. HostTypesOK'
    BY <1>1, <1>2, <1>3, CallFacts
    DEF HostTypesOK, Places, Sync, Waking, Undecided, Refused, Quiet
  <1>5. ThreadOK'
    BY <1>1, <1>2, <1>3, CallFacts
    DEF ThreadOK, Sync, SyncHook, Free, HostTypesOK, Quiet
  <1>6. PlaceOK'
    BY <1>1, <1>2, <1>3, CallFacts
    DEF PlaceOK, Asking, TerminalRun, HostTypesOK, Quiet
  <1>7. CallsOK'
    BY <1>1, <1>2, <1>3, CallFacts
    DEF CallsOK, HostTypesOK, Quiet
  <1>8. HooksOK'
    BY <1>1, <1>2, <1>3, CallFacts
    DEF HooksOK, Undecided, Refused, HostTypesOK, Quiet
  <1>9. QueuedIsOwned'
    BY <1>1, <1>2, <1>3, CallFacts
    DEF QueuedIsOwned, HostTypesOK, Quiet
  <1>10. WaitOK'
    BY <1>1, <1>2, <1>3, CallFacts
    DEF WaitOK, TerminalRun, HostTypesOK, Quiet
  <1>11. AnswerOK'
    BY <1>1, <1>2, <1>3, CallFacts
    DEF AnswerOK, AllAnswered, Asking, Preparing, Undecided, HostTypesOK, Quiet
  <1> QED BY <1>4, <1>5, <1>6, <1>7, <1>8, <1>9, <1>10, <1>11 DEF HostInv

\* The second closing transaction keeps it.
LEMMA CloseTransitionKeeps == ASSUME HostInv, CloseTransition PROVE HostInv'
  <1>1. HostTypesOK /\ ThreadOK /\ PlaceOK /\ CallsOK /\ HooksOK
        /\ QueuedIsOwned /\ WaitOK /\ AnswerOK
    BY DEF HostInv
  <1>2. /\ pc \in {"suspend", "complete", "fail", "cancel"}
        /\ \/ TransitionRun(r, Closing[pc], "run.transition") /\ pc' = "leaving"
           \/ /\ Closing[pc] \notin Transitions[status[r]] /\ UNCHANGED ledgerVars
              /\ pc' = IF pc \in {"suspend", "complete"} THEN "failing" ELSE "leaving"
        /\ UNCHANGED <<host, mode, abort, pending, asked, next, answered, approval, hook, cancelling, effects, repeats, downs>>
    BY DEF CloseTransition, Closing, Goto, userVars, counters
  <1>3. \/ Becomes("WAITING_APPROVAL") /\ status[r] \notin TerminalRun /\ pc = "suspend" /\ pc' = "leaving"
        \/ (\E s \in TerminalRun : Becomes(s)) /\ pc' = "leaving"
        \/ Quiet /\ pc' = "failing"
        \/ Quiet /\ pc' = "leaving" /\ status[r] \in TerminalRun
    <2>1. Closing[pc] \in RunStatus /\ (pc = "suspend" => Closing[pc] = "WAITING_APPROVAL") /\ (pc # "suspend" => Closing[pc] \in TerminalRun)
          /\ (pc = "fail" => Closing[pc] = "FAILED") /\ (pc = "cancel" => Closing[pc] = "CANCELLED")
      BY <1>2 DEF Closing, RunStatus, TerminalRun
    <2>2. CASE TransitionRun(r, Closing[pc], "run.transition") /\ pc' = "leaving"
      <3>1. Becomes(Closing[pc]) /\ status[r] \notin TerminalRun
        <4>1. Becomes(Closing[pc]) /\ status[r] \in RunStatus /\ Closing[pc] \in Transitions[status[r]]
          BY <1>1, <2>1, <2>2, TransitionBecomes
        <4>2. status[r] \notin TerminalRun BY <4>1 DEF Transitions, TerminalRun
        <4> QED BY <4>1, <4>2
      <3>2. CASE pc = "suspend" BY <2>1, <2>2, <3>1, <3>2
      <3>3. CASE pc # "suspend" BY <2>1, <2>2, <3>1, <3>3
      <3> QED BY <3>2, <3>3
    <2>3. CASE UNCHANGED ledgerVars /\ pc' = "failing" BY <1>1, <2>3, LedgerQuiet
    <2>4. CASE UNCHANGED ledgerVars /\ pc' = "leaving" /\ pc \in {"fail", "cancel"} /\ Closing[pc] \notin Transitions[status[r]]
      <3>1. status[r] \in RunStatus
        BY <1>1, <1>2, HostAssumption DEF HostTypesOK, PlaceOK
      <3>2. status[r] \in TerminalRun
        BY <2>1, <2>4, <3>1 DEF Transitions, RunStatus, TerminalRun
      <3> QED BY <1>1, <2>4, <3>2, LedgerQuiet
    <2> QED BY <1>2, <2>2, <2>3, <2>4
  <1>4. HostTypesOK'
    BY <1>1, <1>2, <1>3, CallFacts
    DEF HostTypesOK, Places, Sync, Waking, Undecided, Refused, Becomes, Quiet
  <1>5. ThreadOK'
    BY <1>1, <1>2, <1>3, CallFacts
    DEF ThreadOK, Sync, SyncHook, Free, HostTypesOK, Becomes, Quiet
  <1>6. PlaceOK'
    BY <1>1, <1>2, <1>3, CallFacts
    DEF PlaceOK, Asking, TerminalRun, HostTypesOK, Becomes, Quiet
  <1>7. CallsOK'
    BY <1>1, <1>2, <1>3, CallFacts
    DEF CallsOK, HostTypesOK, Becomes, Quiet
  <1>8. HooksOK'
    BY <1>1, <1>2, <1>3, CallFacts
    DEF HooksOK, Undecided, Refused, HostTypesOK, Becomes, Quiet
  <1>9. QueuedIsOwned'
    BY <1>1, <1>2, <1>3, CallFacts
    DEF QueuedIsOwned, HostTypesOK, Becomes, Quiet
  <1>10. WaitOK'
    BY <1>1, <1>2, <1>3, CallFacts
    DEF WaitOK, TerminalRun, HostTypesOK, Becomes, Quiet
  <1>11. AnswerOK'
    BY <1>1, <1>2, <1>3, CallFacts
    DEF AnswerOK, Places, Asking, Preparing, Waking, Undecided, Refused, Sync, SyncHook,
        RunStatus, TerminalRun, HostTypesOK, Quiet, Becomes, Free, AllAnswered
  <1> QED BY <1>4, <1>5, <1>6, <1>7, <1>8, <1>9, <1>10, <1>11 DEF HostInv

\* An interrupted execution keeps it.
LEMMA InterruptKeeps == ASSUME HostInv, Interrupt PROVE HostInv'
  <1>1. HostTypesOK /\ ThreadOK /\ PlaceOK /\ CallsOK /\ HooksOK
        /\ QueuedIsOwned /\ WaitOK /\ AnswerOK
    BY DEF HostInv
  <1>2. /\ pc = "interrupting"
        /\ pc' = "leaving"
        /\ InterruptExecution(r) \/ (status[r] # "RUNNING" /\ UNCHANGED ledgerVars)
        /\ UNCHANGED <<host, mode, abort, pending, asked, next, answered, approval, hook, cancelling, effects, repeats, downs>>
    BY DEF Interrupt, Goto, userVars, counters
  <1>3. \/ Becomes("CREATED") /\ resumable[r] /\ status[r] = "RUNNING"
        \/ Becomes("FAILED")
        \/ Quiet
    BY <1>1, <1>2, InterruptBecomes, LedgerQuiet
  <1>4. HostTypesOK'
    BY <1>1, <1>2, <1>3, CallFacts
    DEF HostTypesOK, Places, Sync, Waking, Undecided, Refused, Becomes, Quiet
  <1>5. ThreadOK'
    BY <1>1, <1>2, <1>3, CallFacts
    DEF ThreadOK, Sync, SyncHook, Free, HostTypesOK, Becomes, Quiet
  <1>6. PlaceOK'
    BY <1>1, <1>2, <1>3, CallFacts
    DEF PlaceOK, Asking, TerminalRun, HostTypesOK, Becomes, Quiet
  <1>7. CallsOK'
    BY <1>1, <1>2, <1>3, CallFacts
    DEF CallsOK, HostTypesOK, Becomes, Quiet
  <1>8. HooksOK'
    BY <1>1, <1>2, <1>3, CallFacts
    DEF HooksOK, Undecided, Refused, HostTypesOK, Becomes, Quiet
  <1>9. QueuedIsOwned'
    BY <1>1, <1>2, <1>3, CallFacts
    DEF QueuedIsOwned, HostTypesOK, Becomes, Quiet
  <1>10. WaitOK'
    BY <1>1, <1>2, <1>3, CallFacts
    DEF WaitOK, TerminalRun, HostTypesOK, Becomes, Quiet, PlaceOK
  <1>11. AnswerOK'
    BY <1>1, <1>2, <1>3, CallFacts
    DEF AnswerOK, AllAnswered, Asking, Preparing, Undecided, HostTypesOK, Becomes, Quiet
  <1> QED BY <1>4, <1>5, <1>6, <1>7, <1>8, <1>9, <1>10, <1>11 DEF HostInv

\* An operator who allows keeps it.
LEMMA AllowKeeps == ASSUME HostInv, NEW c \in Call, Allow(c) PROVE HostInv'
  <1>1. HostTypesOK /\ ThreadOK /\ PlaceOK /\ CallsOK /\ HooksOK
        /\ QueuedIsOwned /\ WaitOK /\ AnswerOK
    BY DEF HostInv
  <1>2. /\ host = "UP" /\ Free /\ hook[c] = "idle"
        /\ approval[c] \in {"PENDING", "APPROVED"}
        /\ UNCHANGED ledgerVars
        /\ approval' = [approval EXCEPT ![c] = "APPROVED"]
        /\ hook' = [hook EXCEPT ![c] = "approved"]
        /\ UNCHANGED <<host, pc, mode, abort, pending, asked, next, answered, cancelling, effects, repeats, downs>>
    BY DEF Allow, Decide, execVars, counters
  <1>3. Quiet BY <1>1, <1>2, LedgerQuiet
  <1>4. HostTypesOK'
    BY <1>1, <1>2, <1>3, CallFacts
    DEF HostTypesOK, Places, Sync, Waking, Undecided, Refused, Quiet
  <1>5. ThreadOK'
    BY <1>1, <1>2, <1>3, CallFacts
    DEF ThreadOK, Sync, SyncHook, Free, HostTypesOK, Quiet
  <1>6. PlaceOK'
    BY <1>1, <1>2, <1>3, CallFacts
    DEF PlaceOK, Asking, TerminalRun, HostTypesOK, Quiet
  <1>7. CallsOK'
    BY <1>1, <1>2, <1>3, CallFacts
    DEF CallsOK, HostTypesOK, Quiet
  <1>8. HooksOK'
    BY <1>1, <1>2, <1>3, CallFacts
    DEF HooksOK, Undecided, Refused, HostTypesOK, Quiet
  <1>9. QueuedIsOwned'
    BY <1>1, <1>2, <1>3, CallFacts
    DEF QueuedIsOwned, HostTypesOK, Quiet
  <1>10. WaitOK'
    BY <1>1, <1>2, <1>3, CallFacts
    DEF WaitOK, Places, Asking, Preparing, Waking, Undecided, Refused, Sync, SyncHook, RunStatus,
        TerminalRun, HostTypesOK, Quiet, Becomes, Free
  <1>11. AnswerOK'
    BY <1>1, <1>2, <1>3, CallFacts
    DEF AnswerOK, AllAnswered, Asking, Preparing, Undecided, HostTypesOK, Quiet
  <1> QED BY <1>4, <1>5, <1>6, <1>7, <1>8, <1>9, <1>10, <1>11 DEF HostInv

\* A repeated allow keeps it.
LEMMA RepeatAllowKeeps == ASSUME HostInv, NEW c \in Call, RepeatAllow(c) PROVE HostInv'
  <1>1. HostTypesOK /\ ThreadOK /\ PlaceOK /\ CallsOK /\ HooksOK
        /\ QueuedIsOwned /\ WaitOK /\ AnswerOK
    BY DEF HostInv
  <1>2. /\ host = "UP" /\ Free /\ repeats' = repeats + 1 /\ repeats < MaxRepeat
        /\ UNCHANGED ledgerVars
        /\ pc' = IF pc = "idle" THEN "prepare" ELSE pc
        /\ abort' = IF pc = "idle" THEN "none" ELSE abort
        /\ pending' = (pending \/ pc # "idle")
        /\ approval[c] = "CONSUMED"
        /\ UNCHANGED <<host, mode, asked, next, answered, approval, hook, cancelling, effects, downs>>
    BY DEF RepeatAllow, Resume, userVars
  <1>3. Quiet BY <1>1, <1>2, LedgerQuiet
  <1>4. HostTypesOK'
    BY <1>1, <1>2, <1>3, CallFacts
    DEF HostTypesOK, Places, Sync, Waking, Undecided, Refused, Quiet
  <1>5. ThreadOK'
    BY <1>1, <1>2, <1>3, CallFacts
    DEF ThreadOK, Sync, SyncHook, Free, HostTypesOK, Quiet
  <1>6. PlaceOK'
    BY <1>1, <1>2, <1>3, CallFacts
    DEF PlaceOK, Asking, TerminalRun, HostTypesOK, Quiet, CallsOK
  <1>7. CallsOK'
    BY <1>1, <1>2, <1>3, CallFacts
    DEF CallsOK, HostTypesOK, Quiet
  <1>8. HooksOK'
    BY <1>1, <1>2, <1>3, CallFacts
    DEF HooksOK, Undecided, Refused, HostTypesOK, Quiet
  <1>9. QueuedIsOwned'
    BY <1>1, <1>2, <1>3, CallFacts
    DEF QueuedIsOwned, HostTypesOK, Quiet
  <1>10. WaitOK'
    BY <1>1, <1>2, <1>3, CallFacts
    DEF WaitOK, TerminalRun, HostTypesOK, Quiet
  <1>11. AnswerOK'
    BY <1>1, <1>2, <1>3, CallFacts
    DEF AnswerOK, AllAnswered, Asking, Preparing, Undecided, HostTypesOK, Quiet
  <1> QED BY <1>4, <1>5, <1>6, <1>7, <1>8, <1>9, <1>10, <1>11 DEF HostInv

\* A deny, a cancellation and an expiry keep it.
LEMMA RefuseKeeps == ASSUME HostInv, NEW c \in Call, Refuse(c) PROVE HostInv'
  <1>1. HostTypesOK /\ ThreadOK /\ PlaceOK /\ CallsOK /\ HooksOK
        /\ QueuedIsOwned /\ WaitOK /\ AnswerOK
    BY DEF HostInv
  <1>2. /\ host = "UP" /\ Free /\ hook[c] = "idle"
        /\ approval[c] = "PENDING"
        /\ UNCHANGED ledgerVars
        /\ \E s \in {"DENIED", "CANCELLED", "EXPIRED"} : approval' = [approval EXCEPT ![c] = s]
        /\ hook' = [hook EXCEPT ![c] = "recording"]
        /\ UNCHANGED <<host, pc, mode, abort, pending, asked, next, answered, cancelling, effects, repeats, downs>>
    BY DEF Refuse, Decide, execVars, counters
  <1>3. Quiet BY <1>1, <1>2, LedgerQuiet
  <1>4. HostTypesOK'
    BY <1>1, <1>2, <1>3, CallFacts
    DEF HostTypesOK, Places, Sync, Waking, Undecided, Refused, Quiet
  <1>5. ThreadOK'
    BY <1>1, <1>2, <1>3, CallFacts
    DEF ThreadOK, Sync, SyncHook, Free, HostTypesOK, Quiet
  <1>6. PlaceOK'
    BY <1>1, <1>2, <1>3, CallFacts
    DEF PlaceOK, Asking, TerminalRun, HostTypesOK, Quiet
  <1>7. CallsOK'
    BY <1>1, <1>2, <1>3, CallFacts
    DEF CallsOK, HostTypesOK, Quiet
  <1>8. HooksOK'
    BY <1>1, <1>2, <1>3, CallFacts
    DEF HooksOK, Undecided, Refused, HostTypesOK, Quiet
  <1>9. QueuedIsOwned'
    BY <1>1, <1>2, <1>3, CallFacts
    DEF QueuedIsOwned, HostTypesOK, Quiet
  <1>10. WaitOK'
    BY <1>1, <1>2, <1>3, CallFacts
    DEF WaitOK, Places, Asking, Preparing, Waking, Undecided, Refused, Sync, SyncHook, RunStatus,
        TerminalRun, HostTypesOK, Quiet, Becomes, Free
  <1>11. AnswerOK'
    BY <1>1, <1>2, <1>3, CallFacts
    DEF AnswerOK, AllAnswered, Asking, Preparing, Undecided, HostTypesOK, Quiet
  <1> QED BY <1>4, <1>5, <1>6, <1>7, <1>8, <1>9, <1>10, <1>11 DEF HostInv

\* A repeated deny keeps it.
LEMMA RepeatRefuseKeeps == ASSUME HostInv, NEW c \in Call, RepeatRefuse(c) PROVE HostInv'
  <1>1. HostTypesOK /\ ThreadOK /\ PlaceOK /\ CallsOK /\ HooksOK
        /\ QueuedIsOwned /\ WaitOK /\ AnswerOK
    BY DEF HostInv
  <1>2. /\ host = "UP" /\ Free /\ hook[c] = "idle" /\ repeats' = repeats + 1 /\ repeats < MaxRepeat
        /\ approval[c] \in {"DENIED", "CANCELLED"}
        /\ UNCHANGED ledgerVars
        /\ hook' = [hook EXCEPT ![c] = "recording"]
        /\ UNCHANGED <<host, pc, mode, abort, pending, asked, next, answered, approval, cancelling, effects, downs>>
    BY DEF RepeatRefuse, execVars
  <1>3. Quiet BY <1>1, <1>2, LedgerQuiet
  <1>4. HostTypesOK'
    BY <1>1, <1>2, <1>3, CallFacts
    DEF HostTypesOK, Places, Sync, Waking, Undecided, Refused, Quiet
  <1>5. ThreadOK'
    BY <1>1, <1>2, <1>3, CallFacts
    DEF ThreadOK, Sync, SyncHook, Free, HostTypesOK, Quiet
  <1>6. PlaceOK'
    BY <1>1, <1>2, <1>3, CallFacts
    DEF PlaceOK, Asking, TerminalRun, HostTypesOK, Quiet
  <1>7. CallsOK'
    BY <1>1, <1>2, <1>3, CallFacts
    DEF CallsOK, HostTypesOK, Quiet
  <1>8. HooksOK'
    BY <1>1, <1>2, <1>3, CallFacts
    DEF HooksOK, Undecided, Refused, HostTypesOK, Quiet
  <1>9. QueuedIsOwned'
    BY <1>1, <1>2, <1>3, CallFacts
    DEF QueuedIsOwned, HostTypesOK, Quiet
  <1>10. WaitOK'
    BY <1>1, <1>2, <1>3, CallFacts
    DEF WaitOK, TerminalRun, HostTypesOK, Quiet
  <1>11. AnswerOK'
    BY <1>1, <1>2, <1>3, CallFacts
    DEF AnswerOK, AllAnswered, Asking, Preparing, Undecided, HostTypesOK, Quiet
  <1> QED BY <1>4, <1>5, <1>6, <1>7, <1>8, <1>9, <1>10, <1>11 DEF HostInv

\* The expiry by a list keeps it.
LEMMA ListApprovalsKeeps == ASSUME HostInv, NEW c \in Call, ListApprovals(c) PROVE HostInv'
  <1>1. HostTypesOK /\ ThreadOK /\ PlaceOK /\ CallsOK /\ HooksOK
        /\ QueuedIsOwned /\ WaitOK /\ AnswerOK
    BY DEF HostInv
  <1>2. /\ ListExpires
        /\ host = "UP" /\ Free /\ hook[c] = "idle"
        /\ approval[c] = "PENDING"
        /\ UNCHANGED ledgerVars
        /\ approval' = [approval EXCEPT ![c] = "EXPIRED"]
        /\ hook' = [hook EXCEPT ![c] = "idle"]
        /\ UNCHANGED <<host, pc, mode, abort, pending, asked, next, answered, cancelling, effects, repeats, downs>>
    BY DEF ListApprovals, Decide, execVars, counters
  <1>3. Quiet BY <1>1, <1>2, LedgerQuiet
  <1>4. HostTypesOK'
    BY <1>1, <1>2, <1>3, CallFacts
    DEF HostTypesOK, Places, Sync, Waking, Undecided, Refused, Quiet
  <1>5. ThreadOK'
    BY <1>1, <1>2, <1>3, CallFacts
    DEF ThreadOK, Sync, SyncHook, Free, HostTypesOK, Quiet
  <1>6. PlaceOK'
    BY <1>1, <1>2, <1>3, CallFacts
    DEF PlaceOK, Asking, TerminalRun, HostTypesOK, Quiet
  <1>7. CallsOK'
    BY <1>1, <1>2, <1>3, CallFacts
    DEF CallsOK, HostTypesOK, Quiet
  <1>8. HooksOK'
    BY <1>1, <1>2, <1>3, CallFacts
    DEF HooksOK, Undecided, Refused, HostTypesOK, Quiet
  <1>9. QueuedIsOwned'
    BY <1>1, <1>2, <1>3, CallFacts
    DEF QueuedIsOwned, HostTypesOK, Quiet
  <1>10. WaitOK'
    BY <1>1, <1>2, <1>3, CallFacts
    DEF WaitOK, TerminalRun, HostTypesOK, Quiet
  <1>11. AnswerOK'
    BY <1>1, <1>2, <1>3, CallFacts
    DEF AnswerOK, AllAnswered, Asking, Preparing, Undecided, HostTypesOK, Quiet
  <1> QED BY <1>4, <1>5, <1>6, <1>7, <1>8, <1>9, <1>10, <1>11 DEF HostInv

\* The consume transaction keeps it.
LEMMA ConsumeKeeps == ASSUME HostInv, NEW c \in Call, Consume(c) PROVE HostInv'
  <1>1. HostTypesOK /\ ThreadOK /\ PlaceOK /\ CallsOK /\ HooksOK
        /\ QueuedIsOwned /\ WaitOK /\ AnswerOK
    BY DEF HostInv
  <1>2. /\ hook[c] = "approved"
        /\ UNCHANGED ledgerVars
        /\ approval' = [approval EXCEPT ![c] = "CONSUMED"]
        /\ hook' = [hook EXCEPT ![c] = "executing"]
        /\ UNCHANGED <<host, pc, mode, abort, pending, asked, next, answered, cancelling, effects, repeats, downs>>
    BY DEF Consume, Decide, execVars, counters
  <1>3. Quiet /\ hook'[c] = "executing" /\ \A d \in Call : d # c => approval'[d] = approval[d] /\ hook'[d] = hook[d]
    <2>1. Quiet BY <1>1, <1>2, LedgerQuiet
    <2> QED BY <1>1, <1>2, <2>1 DEF HostTypesOK
  <1>4. HostTypesOK'
    BY <1>1, <1>2, <1>3, CallFacts
    DEF HostTypesOK, Places, Sync, Waking, Undecided, Refused, Quiet
  <1>5. ThreadOK'
    BY <1>1, <1>2, <1>3, CallFacts
    DEF ThreadOK, Sync, SyncHook, Free, HostTypesOK, Quiet
  <1>6. PlaceOK'
    BY <1>1, <1>2, <1>3, CallFacts
    DEF PlaceOK, Asking, TerminalRun, HostTypesOK, Quiet
  <1>7. CallsOK'
    BY <1>1, <1>2, <1>3, CallFacts
    DEF CallsOK, HostTypesOK, Quiet, HooksOK
  <1>8. HooksOK'
    BY <1>1, <1>2, <1>3, CallFacts
    DEF HooksOK, Undecided, Refused, HostTypesOK, Quiet
  <1>9. QueuedIsOwned'
    BY <1>1, <1>2, <1>3, CallFacts
    DEF QueuedIsOwned, HostTypesOK, Quiet
  <1>10. WaitOK'
    BY <1>1, <1>2, <1>3, CallFacts
    DEF WaitOK, TerminalRun, HostTypesOK, Quiet, HooksOK
  <1>11. AnswerOK'
    BY <1>1, <1>2, <1>3, CallFacts
    DEF AnswerOK, AllAnswered, Asking, Preparing, Undecided, HostTypesOK, Quiet
  <1> QED BY <1>4, <1>5, <1>6, <1>7, <1>8, <1>9, <1>10, <1>11 DEF HostInv

\* The start of the process keeps it.
LEMMA SpawnKeeps == ASSUME HostInv, NEW c \in Call, Spawn(c) PROVE HostInv'
  <1>1. HostTypesOK /\ ThreadOK /\ PlaceOK /\ CallsOK /\ HooksOK
        /\ QueuedIsOwned /\ WaitOK /\ AnswerOK
    BY DEF HostInv
  <1>2. /\ hook[c] = "executing" /\ Free
        /\ UNCHANGED ledgerVars
        /\ \E h \in {"spawned", "recording"} :
              /\ hook' = [hook EXCEPT ![c] = h]
              /\ effects' = [effects EXCEPT ![c] = IF h = "spawned" THEN @ + 1 ELSE @]
        /\ UNCHANGED <<host, pc, mode, abort, pending, asked, next, answered, approval, cancelling, repeats, downs>>
    BY DEF Spawn, execVars, counters
  <1>3. Quiet BY <1>1, <1>2, LedgerQuiet
  <1>4. HostTypesOK'
    BY <1>1, <1>2, <1>3, CallFacts
    DEF HostTypesOK, Places, Sync, Waking, Undecided, Refused, Quiet, HooksOK
  <1>5. ThreadOK'
    BY <1>1, <1>2, <1>3, CallFacts
    DEF ThreadOK, Sync, SyncHook, Free, HostTypesOK, Quiet
  <1>6. PlaceOK'
    BY <1>1, <1>2, <1>3, CallFacts
    DEF PlaceOK, Asking, TerminalRun, HostTypesOK, Quiet
  <1>7. CallsOK'
    BY <1>1, <1>2, <1>3, CallFacts
    DEF CallsOK, HostTypesOK, Quiet, HooksOK
  <1>8. HooksOK'
    BY <1>1, <1>2, <1>3, CallFacts
    DEF HooksOK, Undecided, Refused, HostTypesOK, Quiet
  <1>9. QueuedIsOwned'
    BY <1>1, <1>2, <1>3, CallFacts
    DEF QueuedIsOwned, HostTypesOK, Quiet
  <1>10. WaitOK'
    BY <1>1, <1>2, <1>3, CallFacts
    DEF WaitOK, TerminalRun, HostTypesOK, Quiet
  <1>11. AnswerOK'
    BY <1>1, <1>2, <1>3, CallFacts
    DEF AnswerOK, AllAnswered, Asking, Preparing, Undecided, HostTypesOK, Quiet
  <1> QED BY <1>4, <1>5, <1>6, <1>7, <1>8, <1>9, <1>10, <1>11 DEF HostInv

\* The end of the process keeps it.
LEMMA ProcessEndsKeeps == ASSUME HostInv, NEW c \in Call, ProcessEnds(c) PROVE HostInv'
  <1>1. HostTypesOK /\ ThreadOK /\ PlaceOK /\ CallsOK /\ HooksOK
        /\ QueuedIsOwned /\ WaitOK /\ AnswerOK
    BY DEF HostInv
  <1>2. /\ hook[c] = "spawned" /\ Free
        /\ UNCHANGED ledgerVars
        /\ approval' = [approval EXCEPT ![c] = approval[c]]
        /\ hook' = [hook EXCEPT ![c] = "recording"]
        /\ UNCHANGED <<host, pc, mode, abort, pending, asked, next, answered, cancelling, effects, repeats, downs>>
    BY DEF ProcessEnds, Decide, execVars, counters
  <1>3. Quiet BY <1>1, <1>2, LedgerQuiet
  <1>4. HostTypesOK'
    BY <1>1, <1>2, <1>3, CallFacts
    DEF HostTypesOK, Places, Sync, Waking, Undecided, Refused, Quiet
  <1>5. ThreadOK'
    BY <1>1, <1>2, <1>3, CallFacts
    DEF ThreadOK, Sync, SyncHook, Free, HostTypesOK, Quiet
  <1>6. PlaceOK'
    BY <1>1, <1>2, <1>3, CallFacts
    DEF PlaceOK, Asking, TerminalRun, HostTypesOK, Quiet
  <1>7. CallsOK'
    BY <1>1, <1>2, <1>3, CallFacts
    DEF CallsOK, HostTypesOK, Quiet
  <1>8. HooksOK'
    BY <1>1, <1>2, <1>3, CallFacts
    DEF HooksOK, Undecided, Refused, HostTypesOK, Quiet
  <1>9. QueuedIsOwned'
    BY <1>1, <1>2, <1>3, CallFacts
    DEF QueuedIsOwned, HostTypesOK, Quiet
  <1>10. WaitOK'
    BY <1>1, <1>2, <1>3, CallFacts
    DEF WaitOK, TerminalRun, HostTypesOK, Quiet
  <1>11. AnswerOK'
    BY <1>1, <1>2, <1>3, CallFacts
    DEF AnswerOK, AllAnswered, Asking, Preparing, Undecided, HostTypesOK, Quiet
  <1> QED BY <1>4, <1>5, <1>6, <1>7, <1>8, <1>9, <1>10, <1>11 DEF HostInv

\* The recorded result keeps it.
LEMMA RecordResultKeeps == ASSUME HostInv, NEW c \in Call, RecordResult(c) PROVE HostInv'
  <1>1. HostTypesOK /\ ThreadOK /\ PlaceOK /\ CallsOK /\ HooksOK
        /\ QueuedIsOwned /\ WaitOK /\ AnswerOK
    BY DEF HostInv
  <1>2. /\ hook[c] = "recording"
        /\ hook' = [hook EXCEPT ![c] = IF status[r] \in TerminalRun THEN "idle" ELSE "resuming"]
        /\ \/ status[r] \in TerminalRun /\ UNCHANGED ledgerVars /\ answered' = answered
           \/ status[r] \notin TerminalRun /\ c \in answered /\ UNCHANGED ledgerVars /\ answered' = answered
           \/ status[r] \notin TerminalRun /\ AppendApprovalToolResult(r) /\ answered' = answered \cup {c}
        /\ UNCHANGED <<host, pc, mode, abort, pending, asked, next, approval, cancelling, effects, repeats, downs>>
    BY DEF RecordResult, execVars, counters
  <1>3. Quiet BY <1>1, <1>2, LedgerQuiet, ResultQuiet
  <1>4. HostTypesOK'
    BY <1>1, <1>2, <1>3, CallFacts
    DEF HostTypesOK, Places, Sync, Waking, Undecided, Refused, Quiet
  <1>5. ThreadOK'
    BY <1>1, <1>2, <1>3, CallFacts
    DEF ThreadOK, Sync, SyncHook, Free, HostTypesOK, Quiet
  <1>6. PlaceOK'
    BY <1>1, <1>2, <1>3, CallFacts
    DEF PlaceOK, Asking, TerminalRun, HostTypesOK, Quiet
  <1>7. CallsOK'
    BY <1>1, <1>2, <1>3, CallFacts
    DEF CallsOK, Places, Asking, Preparing, Waking, Undecided, Refused, Sync, SyncHook,
        RunStatus, TerminalRun, HostTypesOK, Quiet, Becomes, Free, HooksOK
  <1>8. HooksOK'
    BY <1>1, <1>2, <1>3, CallFacts
    DEF HooksOK, Undecided, Refused, HostTypesOK, Quiet
  <1>9. QueuedIsOwned'
    BY <1>1, <1>2, <1>3, CallFacts
    DEF QueuedIsOwned, HostTypesOK, Quiet
  <1>10. WaitOK'
    BY <1>1, <1>2, <1>3, CallFacts
    DEF WaitOK, TerminalRun, HostTypesOK, Quiet
  <1>11. AnswerOK'
    BY <1>1, <1>2, <1>3, CallFacts
    DEF AnswerOK, Places, Asking, Preparing, Waking, Undecided, Refused, Sync, SyncHook,
        RunStatus, TerminalRun, HostTypesOK, Quiet, Becomes, Free, AllAnswered, CallsOK, HooksOK,
        ThreadOK
  <1> QED BY <1>4, <1>5, <1>6, <1>7, <1>8, <1>9, <1>10, <1>11 DEF HostInv

\* The resume after a result keeps it.
LEMMA ResumeAfterResultKeeps == ASSUME HostInv, NEW c \in Call, ResumeAfterResult(c) PROVE HostInv'
  <1>1. HostTypesOK /\ ThreadOK /\ PlaceOK /\ CallsOK /\ HooksOK
        /\ QueuedIsOwned /\ WaitOK /\ AnswerOK
    BY DEF HostInv
  <1>2. /\ hook[c] = "resuming"
        /\ UNCHANGED ledgerVars
        /\ hook' = [hook EXCEPT ![c] = "idle"]
        /\ pc' = IF host = "UP" /\ pc = "idle" THEN "prepare" ELSE pc
        /\ abort' = IF host = "UP" /\ pc = "idle" THEN "none" ELSE abort
        /\ pending' <=> (pending \/ (host = "UP" /\ pc # "idle"))
        /\ UNCHANGED <<host, mode, asked, next, answered, approval, cancelling, effects, repeats, downs>>
    BY DEF ResumeAfterResult, Resume, counters
  <1>3. Quiet BY <1>1, <1>2, LedgerQuiet
  <1>4. HostTypesOK'
    BY <1>1, <1>2, <1>3, CallFacts
    DEF HostTypesOK, Places, Sync, Waking, Undecided, Refused, Quiet
  <1>5. ThreadOK'
    BY <1>1, <1>2, <1>3, CallFacts
    DEF ThreadOK, Sync, SyncHook, Free, HostTypesOK, Quiet
  <1>6. PlaceOK'
    BY <1>1, <1>2, <1>3, CallFacts
    DEF PlaceOK, Places, Asking, Preparing, Waking, Undecided, Refused, Sync, SyncHook,
        RunStatus, TerminalRun, HostTypesOK, Quiet, Becomes, Free, CallsOK, HooksOK
  <1>7. CallsOK'
    BY <1>1, <1>2, <1>3, CallFacts
    DEF CallsOK, HostTypesOK, Quiet
  <1>8. HooksOK'
    BY <1>1, <1>2, <1>3, CallFacts
    DEF HooksOK, Undecided, Refused, HostTypesOK, Quiet
  <1>9. QueuedIsOwned'
    BY <1>1, <1>2, <1>3, CallFacts
    DEF QueuedIsOwned, HostTypesOK, Quiet
  <1>10. WaitOK'
    BY <1>1, <1>2, <1>3, CallFacts
    DEF WaitOK, TerminalRun, HostTypesOK, Quiet, PlaceOK
  <1>11. AnswerOK'
    BY <1>1, <1>2, <1>3, CallFacts
    DEF AnswerOK, Places, Asking, Preparing, Waking, Undecided, Refused, Sync, SyncHook,
        RunStatus, TerminalRun, HostTypesOK, Quiet, Becomes, Free, AllAnswered, ThreadOK
  <1> QED BY <1>4, <1>5, <1>6, <1>7, <1>8, <1>9, <1>10, <1>11 DEF HostInv

\* conversation.cancel keeps it.
LEMMA CancelRunKeeps == ASSUME HostInv, CancelRun PROVE HostInv'
  <1>1. HostTypesOK /\ ThreadOK /\ PlaceOK /\ CallsOK /\ HooksOK
        /\ QueuedIsOwned /\ WaitOK /\ AnswerOK
    BY DEF HostInv
  <1>2. /\ host = "UP" /\ Free /\ status[r] # "ABSENT"
        /\ cancelling' = TRUE
        /\ Cancel(r) \/ (status[r] \in TerminalRun /\ UNCHANGED ledgerVars)
        /\ UNCHANGED <<host, pc, mode, abort, pending, asked, next, answered, approval, hook, effects, repeats, downs>>
    BY DEF CancelRun, execVars, counters
  <1>3. Becomes("CANCELLED") \/ (Quiet /\ status[r] \in TerminalRun)
    BY <1>1, <1>2, LedgerQuiet, CancelBecomes
  <1>4. HostTypesOK'
    BY <1>1, <1>2, <1>3, CallFacts
    DEF HostTypesOK, Places, Sync, Waking, Undecided, Refused, Becomes, Quiet
  <1>5. ThreadOK'
    BY <1>1, <1>2, <1>3, CallFacts
    DEF ThreadOK, Sync, SyncHook, Free, HostTypesOK, Becomes, Quiet
  <1>6. PlaceOK'
    BY <1>1, <1>2, <1>3, CallFacts
    DEF PlaceOK, Asking, TerminalRun, HostTypesOK, Becomes, Quiet
  <1>7. CallsOK'
    BY <1>1, <1>2, <1>3, CallFacts
    DEF CallsOK, HostTypesOK, Becomes, Quiet
  <1>8. HooksOK'
    BY <1>1, <1>2, <1>3, CallFacts
    DEF HooksOK, Undecided, Refused, HostTypesOK, Becomes, Quiet
  <1>9. QueuedIsOwned'
    BY <1>1, <1>2, <1>3, CallFacts
    DEF QueuedIsOwned, HostTypesOK, Becomes, Quiet
  <1>10. WaitOK'
    BY <1>1, <1>2, <1>3, CallFacts
    DEF WaitOK, TerminalRun, HostTypesOK, Becomes, Quiet
  <1>11. AnswerOK'
    BY <1>1, <1>2, <1>3, CallFacts
    DEF AnswerOK, AllAnswered, Asking, Preparing, Undecided, HostTypesOK, Becomes, Quiet
  <1> QED BY <1>4, <1>5, <1>6, <1>7, <1>8, <1>9, <1>10, <1>11 DEF HostInv

\* The cancellation of what the Run owns keeps it.
LEMMA CancelOwnedKeeps == ASSUME HostInv, CancelOwned PROVE HostInv'
  <1>1. HostTypesOK /\ ThreadOK /\ PlaceOK /\ CallsOK /\ HooksOK
        /\ QueuedIsOwned /\ WaitOK /\ AnswerOK
    BY DEF HostInv
  <1>2. /\ cancelling
        /\ cancelling' = FALSE
        /\ UNCHANGED ledgerVars
        /\ approval' = [c \in Call |-> IF approval[c] = "PENDING" THEN "CANCELLED" ELSE approval[c]]
        /\ abort' \in {abort, "cancel"}
        /\ UNCHANGED <<host, pc, mode, pending, asked, next, answered, hook, effects, repeats, downs>>
    BY DEF CancelOwned, counters
  <1>3. Quiet BY <1>1, <1>2, LedgerQuiet
  <1>4. HostTypesOK'
    BY <1>1, <1>2, <1>3, CallFacts
    DEF HostTypesOK, Places, Sync, Waking, Undecided, Refused, Quiet
  <1>5. ThreadOK'
    BY <1>1, <1>2, <1>3, CallFacts
    DEF ThreadOK, Sync, SyncHook, Free, HostTypesOK, Quiet
  <1>6. PlaceOK'
    BY <1>1, <1>2, <1>3, CallFacts
    DEF PlaceOK, Asking, TerminalRun, HostTypesOK, Quiet
  <1>7. CallsOK'
    BY <1>1, <1>2, <1>3, CallFacts
    DEF CallsOK, HostTypesOK, Quiet
  <1>8. HooksOK'
    BY <1>1, <1>2, <1>3, CallFacts
    DEF HooksOK, Undecided, Refused, HostTypesOK, Quiet
  <1>9. QueuedIsOwned'
    BY <1>1, <1>2, <1>3, CallFacts
    DEF QueuedIsOwned, HostTypesOK, Quiet
  <1>10. WaitOK'
    BY <1>1, <1>2, <1>3, CallFacts
    DEF WaitOK, TerminalRun, HostTypesOK, Quiet, PlaceOK
  <1>11. AnswerOK'
    BY <1>1, <1>2, <1>3, CallFacts
    DEF AnswerOK, AllAnswered, Asking, Preparing, Undecided, HostTypesOK, Quiet
  <1> QED BY <1>4, <1>5, <1>6, <1>7, <1>8, <1>9, <1>10, <1>11 DEF HostInv

\* A shutdown keeps it.
LEMMA ShutdownKeeps == ASSUME HostInv, Shutdown PROVE HostInv'
  <1>1. HostTypesOK /\ ThreadOK /\ PlaceOK /\ CallsOK /\ HooksOK
        /\ QueuedIsOwned /\ WaitOK /\ AnswerOK
    BY DEF HostInv
  <1>2. /\ host = "UP" /\ Free
        /\ host' = "CLOSING" /\ downs' = downs + 1 /\ pending' = FALSE
        /\ UNCHANGED ledgerVars
        /\ UNCHANGED <<pc, mode, asked, next, answered, approval, hook, cancelling, effects, repeats>>
    BY DEF Shutdown, userVars
  <1>3. Quiet BY <1>1, <1>2, LedgerQuiet
  <1>4. HostTypesOK'
    BY <1>1, <1>2, <1>3, CallFacts
    DEF HostTypesOK, Places, Sync, Waking, Undecided, Refused, Quiet
  <1>5. ThreadOK'
    BY <1>1, <1>2, <1>3, CallFacts
    DEF ThreadOK, Sync, SyncHook, Free, HostTypesOK, Quiet
  <1>6. PlaceOK'
    BY <1>1, <1>2, <1>3, CallFacts
    DEF PlaceOK, Asking, TerminalRun, HostTypesOK, Quiet
  <1>7. CallsOK'
    BY <1>1, <1>2, <1>3, CallFacts
    DEF CallsOK, HostTypesOK, Quiet
  <1>8. HooksOK'
    BY <1>1, <1>2, <1>3, CallFacts
    DEF HooksOK, Undecided, Refused, HostTypesOK, Quiet
  <1>9. QueuedIsOwned'
    BY <1>1, <1>2, <1>3, CallFacts
    DEF QueuedIsOwned, HostTypesOK, Quiet
  <1>10. WaitOK'
    BY <1>1, <1>2, <1>3, CallFacts
    DEF WaitOK, TerminalRun, HostTypesOK, Quiet
  <1>11. AnswerOK'
    BY <1>1, <1>2, <1>3, CallFacts
    DEF AnswerOK, AllAnswered, Asking, Preparing, Undecided, HostTypesOK, Quiet
  <1> QED BY <1>4, <1>5, <1>6, <1>7, <1>8, <1>9, <1>10, <1>11 DEF HostInv

\* A Host that stops or crashes keeps it.
LEMMA LoseMemoryKeeps == ASSUME HostInv, LoseMemory, repeats' = repeats, downs' \in Nat, downs' > 0, downs' >= downs PROVE HostInv'
  <1>1. HostTypesOK /\ ThreadOK /\ PlaceOK /\ CallsOK /\ HooksOK
        /\ QueuedIsOwned /\ WaitOK /\ AnswerOK
    BY DEF HostInv
  <1>2. /\ host' = "DOWN" /\ pc' = "idle" /\ abort' = "none" /\ pending' = FALSE /\ cancelling' = FALSE
        /\ hook' = [c \in Call |-> "idle"]
        /\ UNCHANGED ledgerVars
        /\ downs' \in Nat /\ downs' > 0 /\ downs' >= downs
        /\ UNCHANGED <<asked, next, answered, approval, effects, repeats>>
    BY DEF LoseMemory, HostTypesOK
  <1>3. Quiet BY <1>1, <1>2, LedgerQuiet
  <1>4. HostTypesOK'
    BY <1>1, <1>2, <1>3, CallFacts
    DEF HostTypesOK, Places, Sync, Waking, Undecided, Refused, Quiet
  <1>5. ThreadOK'
    BY <1>1, <1>2, <1>3, CallFacts
    DEF ThreadOK, Sync, SyncHook, Free, HostTypesOK, Quiet
  <1>6. PlaceOK'
    BY <1>1, <1>2, <1>3, CallFacts
    DEF PlaceOK, Asking, TerminalRun, HostTypesOK, Quiet
  <1>7. CallsOK'
    BY <1>1, <1>2, <1>3, CallFacts
    DEF CallsOK, HostTypesOK, Quiet
  <1>8. HooksOK'
    BY <1>1, <1>2, <1>3, CallFacts
    DEF HooksOK, Undecided, Refused, HostTypesOK, Quiet
  <1>9. QueuedIsOwned'
    BY <1>1, <1>2, <1>3, CallFacts
    DEF QueuedIsOwned, HostTypesOK, Quiet
  <1>10. WaitOK'
    BY <1>1, <1>2, <1>3, CallFacts
    DEF WaitOK, TerminalRun, HostTypesOK, Quiet
  <1>11. AnswerOK'
    BY <1>1, <1>2, <1>3, CallFacts
    DEF AnswerOK, AllAnswered, Asking, Preparing, Undecided, HostTypesOK, Quiet
  <1> QED BY <1>4, <1>5, <1>6, <1>7, <1>8, <1>9, <1>10, <1>11 DEF HostInv

\* The start of the Host keeps it.
LEMMA StartupKeeps == ASSUME HostInv, Startup PROVE HostInv'
  <1>1. HostTypesOK /\ ThreadOK /\ PlaceOK /\ CallsOK /\ HooksOK
        /\ QueuedIsOwned /\ WaitOK /\ AnswerOK
    BY DEF HostInv
  <1>2. /\ host = "DOWN" /\ host' = "UP"
        /\ RecoverIncompleteRuns
        /\ pc' = IF status'[r] = "CREATED" /\ ~wait[r] THEN "prepare" ELSE "idle"
        /\ UNCHANGED <<mode, abort, pending, asked, next, answered, approval, hook, cancelling, effects, repeats, downs>>
    BY DEF Startup, userVars, counters
  <1>3. /\ status' \in [Run -> RunStatus \cup {"ABSENT"}] /\ wait' = wait
        /\ resumable' \in [Run -> BOOLEAN] /\ (resumable'[r] => resumable[r])
        /\ status[r] \notin {"RUNNING"} => status'[r] = status[r]
        /\ status[r] = "RUNNING" => status'[r] = "FAILED" \/ (status'[r] = "CREATED" /\ resumable[r])
    BY <1>1, <1>2, RecoverFacts DEF PlaceOK
  <1>4. HostTypesOK'
    BY <1>1, <1>2, <1>3, CallFacts
    DEF HostTypesOK, Places, Sync, Waking, Undecided, Refused
  <1>5. ThreadOK'
    BY <1>1, <1>2, <1>3, CallFacts
    DEF ThreadOK, Sync, SyncHook, Free, HostTypesOK
  <1>6. PlaceOK'
    BY <1>1, <1>2, <1>3, CallFacts
    DEF PlaceOK, Asking, TerminalRun, HostTypesOK
  <1>7. CallsOK'
    BY <1>1, <1>2, <1>3, CallFacts
    DEF CallsOK, HostTypesOK
  <1>8. HooksOK'
    BY <1>1, <1>2, <1>3, CallFacts
    DEF HooksOK, Undecided, Refused, HostTypesOK
  <1>9. QueuedIsOwned'
    BY <1>1, <1>2, <1>3, CallFacts
    DEF QueuedIsOwned, HostTypesOK, PlaceOK
  <1>10. WaitOK'
    BY <1>1, <1>2, <1>3, CallFacts
    DEF WaitOK, TerminalRun, HostTypesOK, PlaceOK
  <1>11. AnswerOK'
    BY <1>1, <1>2, <1>3, CallFacts
    DEF AnswerOK, AllAnswered, Asking, Preparing, Undecided, HostTypesOK, ThreadOK, PlaceOK
  <1> QED BY <1>4, <1>5, <1>6, <1>7, <1>8, <1>9, <1>10, <1>11 DEF HostInv

-----------------------------------------------------------------------------
\* The invariant holds when the Host starts for the first time.
LEMMA HostInitInv == ASSUME HostInit PROVE HostInv
  <1>1. /\ Init /\ host = "UP" /\ pc = "idle" /\ mode = "start" /\ abort = "none"
        /\ pending = FALSE /\ asked = 0 /\ next = 1 /\ answered = {}
        /\ approval = [c \in Call |-> "NONE"] /\ hook = [c \in Call |-> "idle"]
        /\ cancelling = FALSE /\ effects = [c \in Call |-> 0]
        /\ repeats = 0 /\ downs = 0
    BY DEF HostInit
  <1>2. /\ status \in [Run -> RunStatus \cup {"ABSENT"}] /\ status[r] = "ABSENT"
        /\ wait \in [Run -> BOOLEAN] /\ ~wait[r] /\ resumable \in [Run -> BOOLEAN] /\ ~resumable[r]
    BY <1>1, HostAssumption DEF Init
  <1>3. HostTypesOK BY <1>1, <1>2, CallFacts DEF HostTypesOK, Places, Waking
  <1>4. ThreadOK /\ PlaceOK BY <1>1, <1>2 DEF ThreadOK, PlaceOK, Sync, SyncHook, Asking
  <1>5. CallsOK /\ HooksOK BY <1>1 DEF CallsOK, HooksOK, Undecided, Refused
  <1>6. QueuedIsOwned /\ WaitOK BY <1>1, <1>2 DEF QueuedIsOwned, WaitOK
  <1>7. AnswerOK BY <1>1, <1>2, CallFacts DEF AnswerOK, AllAnswered, Asking, Preparing, Undecided
  <1> QED BY <1>3, <1>4, <1>5, <1>6, <1>7 DEF HostInv

\* Nothing changes when nothing happens.
LEMMA HostStutter == ASSUME HostInv, UNCHANGED vars PROVE HostInv'
  <1>1. HostTypesOK /\ ThreadOK /\ PlaceOK /\ CallsOK /\ HooksOK
        /\ QueuedIsOwned /\ WaitOK /\ AnswerOK
    BY DEF HostInv
  <1>2. UNCHANGED <<status, wait, resumable, host, pc, mode, abort, pending, asked, next, answered,
                    approval, hook, cancelling, effects, repeats, downs>>
    BY DEF vars, hostVars, ledgerVars, counters
  <1>3. HostTypesOK' /\ ThreadOK' BY <1>1, <1>2 DEF HostTypesOK, ThreadOK
  <1>4. PlaceOK' /\ CallsOK' BY <1>1, <1>2 DEF PlaceOK, CallsOK
  <1>5. HooksOK' /\ QueuedIsOwned' BY <1>1, <1>2 DEF HooksOK, QueuedIsOwned
  <1>6. WaitOK' /\ AnswerOK' BY <1>1, <1>2 DEF WaitOK, AnswerOK, AllAnswered
  <1> QED BY <1>3, <1>4, <1>5, <1>6 DEF HostInv

\* Every step of the Host keeps the invariant.
LEMMA HostNextInv == ASSUME HostInv, [HostNext]_vars PROVE HostInv'
  <1>1. CASE Execution
    BY <1>1, PrepareAttemptKeeps, PreparedKeeps, ResolvedKeeps, UnresolvedKeeps, LeaveKeeps,
       TurnKeeps, StreamKeeps, RetryModelKeeps, MessageKeeps, HandleCallKeeps,
       ToolKeeps, ResultKeeps, CloseUsageKeeps, CloseTransitionKeeps, InterruptKeeps DEF Execution
  <1>2. ASSUME NEW c \in Call, Hook(c) PROVE HostInv'
    BY <1>2, ConsumeKeeps, SpawnKeeps, ProcessEndsKeeps, RecordResultKeeps, ResumeAfterResultKeeps DEF Hook
  <1>3. CASE Operator
    BY <1>3, SendAndScheduleKeeps, CancelRunKeeps,
       AllowKeeps, RepeatAllowKeeps, RefuseKeeps, RepeatRefuseKeeps, ListApprovalsKeeps DEF Operator
  <1>4. CASE CancelOwned BY <1>4, CancelOwnedKeeps
  <1>5. CASE Shutdown BY <1>5, ShutdownKeeps
  <1>6. CASE Stop
    <2>1. LoseMemory /\ repeats' = repeats /\ downs' = downs /\ host = "CLOSING" BY <1>6 DEF Stop, counters
    <2>2. downs \in Nat /\ downs > 0 BY <2>1 DEF HostInv, HostTypesOK, PlaceOK
    <2> QED BY <2>1, <2>2, LoseMemoryKeeps
  <1>7. CASE Crash
    <2>1. LoseMemory /\ repeats' = repeats /\ downs' = downs + 1 BY <1>7 DEF Crash
    <2>2. downs \in Nat BY DEF HostInv, HostTypesOK
    <2> QED BY <2>1, <2>2, LoseMemoryKeeps
  <1>8. CASE Startup BY <1>8, StartupKeeps
  <1>9. CASE UNCHANGED vars BY <1>9, HostStutter
  <1> QED BY <1>1, <1>2, <1>3, <1>4, <1>5, <1>6, <1>7, <1>8, <1>9 DEF HostNext

\* The strengthened invariant holds in every state of the Host.
THEOREM HostInductive == HostSpec => []HostInv
  <1>1. HostInit => HostInv BY HostInitInv
  <1>2. HostInv /\ [HostNext]_vars => HostInv' BY HostNextInv
  <1> QED BY <1>1, <1>2, PTL DEF HostSpec

\* For any number of Tool calls, crashes, shutdowns and repeated decisions: a
\* queued Run has an owner, one approval starts at most one process, and none is
\* started before an operator allowed it.
THEOREM HostRunsSafe == HostSpec => [](QueuedIsOwned /\ ExecutedOnce /\ ApprovedBeforeEffect)
  <1>1. ASSUME HostInv PROVE QueuedIsOwned /\ ExecutedOnce /\ ApprovedBeforeEffect
    <2>1. HostTypesOK /\ HooksOK /\ QueuedIsOwned BY <1>1 DEF HostInv
    <2>2. ExecutedOnce BY <2>1 DEF HostTypesOK, ExecutedOnce
    <2>3. ApprovedBeforeEffect BY <2>1 DEF HooksOK, ApprovedBeforeEffect, Undecided, Refused
    <2> QED BY <2>1, <2>2, <2>3
  <1> QED BY <1>1, HostInductive, PTL

\* With one Tool call in a turn and without repeated decisions the model is never
\* asked while a call has no result, for any number of calls, crashes and
\* shutdowns.  Both restrictions are needed: the run kernel_dropped lifts the first,
\* AnsweredBeforeModel checked under HostLive.cfg the second, and both fail.
THEOREM HostRunsAgree ==
  ASSUME MaxTurnCalls <= 1, MaxRepeat = 0
  PROVE  HostSpec => []RunsAgree
  <1>1. ASSUME HostInv PROVE RunsAgree
    <2>1. HostTypesOK /\ HooksOK /\ QueuedIsOwned /\ AnswerOK BY <1>1 DEF HostInv
    <2>2. ExecutedOnce BY <2>1 DEF HostTypesOK, ExecutedOnce
    <2>3. ApprovedBeforeEffect BY <2>1 DEF HooksOK, ApprovedBeforeEffect, Undecided, Refused
    <2>4. repeats = 0 BY <2>1 DEF HostTypesOK
    <2>5. pc = "streaming" => AllAnswered BY <2>1, <2>4 DEF AnswerOK, Asking
    <2>6. AllAnswered => 1 .. asked \subseteq answered
      BY <2>1, CallFacts DEF AllAnswered, HostTypesOK
    <2> QED BY <2>1, <2>2, <2>3, <2>5, <2>6 DEF RunsAgree, AnsweredBeforeModel
  <1> QED BY <1>1, HostInductive, PTL

\* In the life of one process no Run waits for a decision that nobody can take,
\* as long as no client lists approvals after their deadline: a suspended Run has
\* an open request, a hook at work or a resume that the coordinator remembers.
THEOREM HostNoOrphanWait ==
  ASSUME ~ListExpires
  PROVE  HostSpec => [](downs = 0 => NoOrphanWait)
  <1>1. ASSUME HostInv, downs = 0 PROVE NoOrphanWait
    <2>1. WaitOK BY <1>1 DEF HostInv
    <2> QED BY <1>1, <2>1 DEF WaitOK, NoOrphanWait
  <1> QED BY <1>1, HostInductive, PTL

-----------------------------------------------------------------------------
\* An event of the kernel is to the ledger one of three.
LEMMA EventOperation ==
  ASSUME NEW e, RecordEvent(r, e)
  PROVE  \E k \in KernelEvent : RecordEvent(r, k)
  <1>1. ASSUME NEW k \in KernelEvent, \A x : Extended(x, e) = Extended(x, k)
        PROVE  RecordEvent(r, k)
    BY <1>1 DEF RecordEvent, AppendEvent
  <1>2. CASE e = "run.checkpoint" BY <1>2, <1>1 DEF KernelEvent
  <1>3. CASE e # "run.checkpoint" /\ e \in SafeAfterCheckpoint
    <2>1. \A x : Extended(x, e) = Extended(x, "model.requested")
      BY <1>3 DEF Extended, SafeAfterCheckpoint
    <2> QED BY <1>1, <2>1 DEF KernelEvent
  <1>4. CASE e # "run.checkpoint" /\ e \notin SafeAfterCheckpoint
    <2>1. \A x : Extended(x, e) = Extended(x, "tool.completed")
      BY <1>4 DEF Extended, SafeAfterCheckpoint
    <2> QED BY <1>1, <2>1 DEF KernelEvent
  <1> QED BY <1>2, <1>3, <1>4

\* Every step of the Host is a call of the ledger, its recovery, or no step of it.
LEMMA HostLedgerStep == ASSUME [HostNext]_vars PROVE [Next]_ledgerVars
  <1> DEFINE Ledger == Operation(r) \/ UNCHANGED ledgerVars
  <1>1. ASSUME Execution PROVE Ledger
    <2>1. ASSUME NEW e, RecordEvent(r, e) PROVE Ledger BY <2>1, EventOperation DEF Operation
    <2>2. CASE PrepareAttempt BY <2>2 DEF PrepareAttempt, Operation
    <2>3. CASE Prepared \/ Unresolved \/ Leave \/ Message \/ Tool
      BY <2>3 DEF Prepared, Unresolved, Leave, Message, Tool
    <2>4. CASE Resolved BY <2>4 DEF Resolved, Operation
    <2>5. CASE Turn BY <2>5, <2>1 DEF Turn
    <2>6. CASE Stream BY <2>6, <2>1 DEF Stream
    <2>7. CASE RetryModel BY <2>7, <2>1 DEF RetryModel
    <2>8. CASE HandleCall BY <2>8, <2>1 DEF HandleCall
    <2>9. CASE Result BY <2>9, <2>1 DEF Result
    <2>10. CASE CloseUsage
      <3>1. UNCHANGED ledgerVars \/ UpdateExecutionUsage(r, "OTHER") BY <2>10 DEF CloseUsage
      <3> QED BY <3>1 DEF Operation, Reason
    <2>11. CASE CloseTransition
      <3>1. /\ pc \in {"suspend", "complete", "fail", "cancel"}
            /\ TransitionRun(r, Closing[pc], "run.transition") \/ UNCHANGED ledgerVars
        BY <2>11 DEF CloseTransition, Closing
      <3>2. Closing[pc] \in RunStatus BY <3>1 DEF Closing, RunStatus, TerminalRun
      <3> QED BY <3>1, <3>2 DEF Operation
    <2>12. CASE Interrupt BY <2>12 DEF Interrupt, Operation
    <2> QED
      BY <1>1, <2>2, <2>3, <2>4, <2>5, <2>6, <2>7, <2>8, <2>9, <2>10, <2>11, <2>12 DEF Execution
  <1>2. ASSUME NEW c \in Call, Hook(c) PROVE Ledger
    <2>1. CASE RecordResult(c) BY <2>1 DEF RecordResult, Operation
    <2>2. CASE Consume(c) \/ ProcessEnds(c) BY <2>2 DEF Consume, ProcessEnds, Decide
    <2>3. CASE Spawn(c) \/ ResumeAfterResult(c) BY <2>3 DEF Spawn, ResumeAfterResult
    <2> QED BY <1>2, <2>1, <2>2, <2>3 DEF Hook
  <1>3. ASSUME Operator PROVE Ledger
    <2>1. CASE SendAndSchedule BY <2>1 DEF SendAndSchedule, Operation
    <2>2. CASE CancelRun BY <2>2 DEF CancelRun, Operation
    <2>3. ASSUME NEW c \in Call,
                 Allow(c) \/ RepeatAllow(c) \/ Refuse(c) \/ RepeatRefuse(c) \/ ListApprovals(c)
          PROVE  Ledger
      BY <2>3 DEF Allow, RepeatAllow, Refuse, RepeatRefuse, ListApprovals, Decide
    <2> QED BY <1>3, <2>1, <2>2, <2>3 DEF Operator
  <1>4. CASE CancelOwned \/ Shutdown BY <1>4 DEF CancelOwned, Shutdown
  <1>5. CASE Stop \/ Crash BY <1>5 DEF Stop, Crash, LoseMemory
  <1>6. CASE Startup BY <1>6 DEF Startup, Next
  <1>7. CASE UNCHANGED vars BY <1>7 DEF vars
  <1>8. ASSUME Ledger PROVE [Next]_ledgerVars BY <1>8, HostAssumption DEF Next
  <1> QED BY <1>1, <1>2, <1>3, <1>4, <1>5, <1>6, <1>7, <1>8 DEF HostNext

\* The live Host implements the Run ledger: whatever the coordinator, the kernel,
\* the hooks, the operator and a crash do, the rows of the Run change only as
\* the calls of ConversationService and the recovery change them.
THEOREM HostImplementsLedger == HostSpec => Spec
  <1>1. HostInit => Init BY DEF HostInit
  <1>2. [HostNext]_vars => [Next]_ledgerVars BY HostLedgerStep
  <1> QED BY <1>1, <1>2, PTL DEF HostSpec, Spec

\* Hence the rows agree and the steps of the ledger are safe in the live Host too.
THEOREM HostLedgerAgrees == HostSpec => []LedgerAgrees /\ LedgerSteps
  BY HostImplementsLedger, LedgerCorrect, LedgerStepsSafe, PTL
=============================================================================
