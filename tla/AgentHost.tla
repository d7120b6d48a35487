----------------------------- MODULE AgentHost -----------------------------
(***************************************************************************)
(* One Run in a live Host: the coordinator that owns its execution, the    *)
(* kernel loop, the approval requests of its process.run calls with the    *)
(* hooks that resolve them, the operator who cancels, and the Host that    *)
(* shuts down, crashes and starts again.                                   *)
(*                                                                         *)
(* The Host is one JavaScript thread.  A pc or a hook in Sync runs on      *)
(* without an await: nobody else moves until it leaves it, but the process *)
(* may die between two of its transactions.  At every other pc the         *)
(* execution awaits something and the other actors interleave.  What the   *)
(* ledger does in each step is the action of RunLedger of that name.       *)
(***************************************************************************)
EXTENDS RunLedger, FiniteSets

CONSTANTS
    r,            \* the Run that is followed
    MaxCalls,     \* bound on the Tool calls of the Run
    MaxTurnCalls, \* bound on the Tool calls of one model turn
    MaxRetry,     \* resolution.maxRetries
    MaxDown,      \* bound on shutdowns and crashes
    MaxRepeat,    \* bound on decisions that an operator sends again
    ListExpires   \* whether a client lists approvals that have expired

ASSUME HostAssumption ==
    /\ r \in Run
    /\ {MaxCalls, MaxTurnCalls, MaxRetry, MaxDown, MaxRepeat} \subseteq Nat
    /\ ListExpires \in BOOLEAN

VARIABLES
    host,         \* UP, CLOSING (the coordinator is closing) or DOWN
    pc,           \* where the execution of the Run stands, idle when not active
    mode,         \* start or resume: the status read before the profile resolved;
                  \* unresolved when it did not
    abort,        \* reason of the abort signal of the execution
    pending,      \* the Run is in #pendingResume
    retry,        \* retries of the current model request
    asked,        \* Tool calls of the durable assistant messages are 1 .. asked
    next,         \* the Tool call that the loop handles next
    answered,     \* Tool calls that have a durable tool_result message
    approval,     \* approval_requests.status of every Tool call
    hook,         \* what the approval hook of every Tool call is doing
    cancelling,   \* conversation.cancel is between its two calls
    effects,      \* how often the process of every Tool call was started
    repeats, downs

execVars == <<pc, mode, abort, retry, asked, next>>
userVars == <<approval, hook, cancelling, effects>>
counters == <<repeats, downs>>
hostVars == <<host, pc, mode, abort, pending, retry, asked, next, answered,
              approval, hook, cancelling, effects, counters>>
vars == <<ledgerVars, hostVars>>

Call == 1 .. MaxCalls

Sync == {"prepare", "turn", "message", "call", "result", "suspending", "suspend",
         "completing", "complete", "failing", "unprepared", "fail", "cancelling",
         "cancel", "interrupting"}
SyncHook == {"approved", "recording", "resuming"}

\* The thread is free for another callback.
Free ==
    /\ pc \notin Sync
    /\ ~cancelling
    /\ \A c \in Call : hook[c] \notin SyncHook

HostInit ==
    /\ Init
    /\ host = "UP" /\ pc = "idle" /\ mode = "start" /\ abort = "none"
    /\ pending = FALSE /\ retry = 0 /\ asked = 0 /\ next = 1 /\ answered = {}
    /\ approval = [c \in Call |-> "NONE"]
    /\ hook = [c \in Call |-> "idle"]
    /\ cancelling = FALSE
    /\ effects = [c \in Call |-> 0]
    /\ repeats = 0 /\ downs = 0

\* The execution moves on in memory and leaves everything else alone.
Goto(target) ==
    /\ pc' = target
    /\ UNCHANGED <<host, mode, abort, pending, retry, asked, next, answered, userVars, counters>>

\* Where an execution goes that notices its abort signal.
Aborted == IF abort = "shutdown" THEN "interrupting" ELSE "cancelling"

-----------------------------------------------------------------------------
(* The coordinator.                                                         *)

\* conversation.send, and the schedule that follows it.
SendAndSchedule ==
    /\ host = "UP" /\ Free
    /\ Send(r)
    /\ Goto("prepare")

\* coordinator.resume: started, remembered when active, ignored when closing.
Resume ==
    /\ pc' = IF host = "UP" /\ pc = "idle" THEN "prepare" ELSE pc
    /\ abort' = IF host = "UP" /\ pc = "idle" THEN "none" ELSE abort
    /\ pending' = (pending \/ (host = "UP" /\ pc # "idle"))

\* The first transaction of #start; a Run that is not preparable is failed.
PrepareAttempt ==
    /\ pc = "prepare"
    /\ \/ PrepareExecutionAttempt(r) /\ Goto("preparing")
       \/ ~Preparable(r) /\ Goto("unprepared") /\ UNCHANGED ledgerVars

\* resolveRunPreparation settles; executeAgentRun reads the status of the Run
\* and awaits the model profile.
Prepared ==
    /\ pc = "preparing" /\ Free
    /\ \/ /\ pc' = "resolving"
          /\ mode' = IF status[r] = "WAITING_APPROVAL" THEN "resume" ELSE "start"
          /\ UNCHANGED <<host, abort, pending, retry, asked, next, answered, userVars, counters>>
       \/ Goto("unprepared")
    /\ UNCHANGED ledgerVars

\* The profile is resolved: the Run is started or resumed by the status read
\* before, and the execution leaves with an error when that is stale.
Resolved ==
    /\ pc = "resolving" /\ Free
    /\ \/ mode = "start" /\ StartExecution(r) /\ pc' = "turn"
       \/ mode = "resume" /\ ResumeExecution(r) /\ pc' = "turn"
       \/ /\ status[r] # IF mode = "start" THEN "CREATED" ELSE "WAITING_APPROVAL"
          /\ pc' = "leaving"
          /\ UNCHANGED ledgerVars
    /\ retry' = 0
    /\ next' = asked + 1
    /\ UNCHANGED <<host, mode, abort, pending, asked, answered, userVars, counters>>

\* The profile does not resolve: nothing catches it but the coordinator.
Unresolved ==
    /\ pc = "resolving" /\ Free
    /\ pc' = "leaving" /\ mode' = "unresolved"
    /\ UNCHANGED <<ledgerVars, host, abort, pending, retry, asked, next, answered, userVars, counters>>

\* Mutant: a resume that came while the Run was active is forgotten.
LeaveForgets ==
    /\ pc = "leaving" /\ Free
    /\ pc' = "idle"
    /\ abort' = "none"
    /\ pending' = FALSE
    /\ UNCHANGED <<host, mode, retry, asked, next, answered, userVars, counters, ledgerVars>>

\* onRunTerminal settles and the execution is removed from #active.
Leave ==
    /\ pc = "leaving" /\ Free
    /\ pc' = IF pending /\ host = "UP" THEN "prepare" ELSE "idle"
    /\ abort' = "none"
    /\ pending' = FALSE
    /\ UNCHANGED <<host, mode, retry, asked, next, answered, userVars, counters, ledgerVars>>

-----------------------------------------------------------------------------
(* The kernel.                                                              *)

Turn ==
    /\ pc = "turn"
    /\ \/ abort # "none" /\ Goto(Aborted) /\ UNCHANGED ledgerVars
       \/ abort = "none" /\ RecordEvent(r, "model.requested") /\ Goto("streaming")
       \/ abort = "none" /\ Goto("failing") /\ UNCHANGED ledgerVars

Stream ==
    /\ pc \in {"streaming", "output"} /\ Free
    /\ \/ RecordEvent(r, "model.text_delta") /\ Goto("output")
       \/ abort # "none" /\ Goto(Aborted) /\ UNCHANGED ledgerVars
       \/ Goto("failing") /\ UNCHANGED ledgerVars
       \/ RecordEvent(r, "model.completed") /\ Goto("message")

RetryModel ==
    /\ pc = "streaming" /\ Free
    /\ abort = "none" /\ retry < MaxRetry
    /\ RecordEvent(r, "model.retry")
    /\ pc' = "turn" /\ retry' = retry + 1
    /\ UNCHANGED <<host, mode, abort, pending, asked, next, answered, userVars, counters>>

\* The assistant message with n Tool calls; a terminal Run takes no message.
Message ==
    /\ pc = "message"
    /\ UNCHANGED <<ledgerVars, host, mode, abort, pending, answered, userVars, counters>>
    /\ retry' = 0
    /\ \/ /\ status[r] \in TerminalRun
          /\ pc' = "failing" /\ UNCHANGED <<asked, next>>
       \/ /\ status[r] \notin TerminalRun
          /\ \E n \in 0 .. MaxTurnCalls :
                /\ asked + n <= MaxCalls
                /\ pc' = IF n = 0 THEN "completing" ELSE "call"
                /\ asked' = asked + n
                /\ next' = asked + 1

\* The next Tool call of the turn.
HandleCall ==
    /\ pc = "call"
    /\ \/ next > asked /\ Goto("turn") /\ UNCHANGED ledgerVars
       \/ next <= asked /\ abort # "none" /\ Goto(Aborted) /\ UNCHANGED ledgerVars
       \/ next <= asked /\ abort = "none" /\ RecordEvent(r, "tool.started") /\ Goto("tool")

\* tools.execute settles: a Tool that runs (with its effect), a refusal by the
\* policy, a request for approval, an abort, or an error.
Tool ==
    /\ pc = "tool" /\ Free
    /\ UNCHANGED <<ledgerVars, host, mode, abort, pending, retry, asked, next, answered, hook,
                   cancelling, counters>>
    /\ \/ /\ pc' = "result"
          /\ effects' = [effects EXCEPT ![next] = @ + 1]
          /\ UNCHANGED approval
       \/ /\ pc' = "suspending"
          /\ approval' = [approval EXCEPT ![next] = "PENDING"]
          /\ UNCHANGED effects
       \/ /\ pc' \in {"result", "failing"} \cup IF abort # "none" THEN {Aborted} ELSE {}
          /\ UNCHANGED <<approval, effects>>

\* The Tool result, tool.completed and the checkpoint.
Result ==
    /\ pc = "result"
    /\ UNCHANGED <<host, mode, abort, pending, retry, asked, userVars, counters>>
    /\ \/ /\ status[r] \in TerminalRun
          /\ pc' = "failing" /\ UNCHANGED <<ledgerVars, next, answered>>
       \/ /\ status[r] \notin TerminalRun
          /\ RecordEvent(r, "run.checkpoint")
          /\ answered' = answered \cup {next}
          /\ next' = next + 1
          /\ pc' = "call"

\* The closing calls are two transactions: updateExecutionUsage and then
\* transitionRun.  failExecution is not called for a terminal Run.
CloseUsage ==
    /\ pc \in {"suspending", "completing", "failing", "unprepared", "cancelling"}
    /\ IF pc = "failing" /\ status[r] \in TerminalRun
       THEN Goto("leaving") /\ UNCHANGED ledgerVars
       ELSE /\ UpdateExecutionUsage(r, "OTHER")
            /\ Goto(CASE pc = "suspending" -> "suspend"
                      [] pc = "completing" -> "complete"
                      [] pc = "cancelling" -> "cancel"
                      [] OTHER             -> "fail")

Closing == [p \in {"suspend", "complete", "fail", "cancel"} |->
               CASE p = "suspend"  -> "WAITING_APPROVAL"
                 [] p = "complete" -> "COMPLETED"
                 [] p = "fail"     -> "FAILED"
                 [] OTHER          -> "CANCELLED"]

\* A transition that is not allowed throws: inside the try it is handled as a
\* failure, otherwise the execution leaves.
CloseTransition ==
    /\ pc \in DOMAIN Closing
    /\ \/ TransitionRun(r, Closing[pc], "run.transition") /\ Goto("leaving")
       \/ /\ Closing[pc] \notin Transitions[status[r]]
          /\ Goto(IF pc \in {"suspend", "complete"} THEN "failing" ELSE "leaving")
          /\ UNCHANGED ledgerVars

Interrupt ==
    /\ pc = "interrupting"
    /\ Goto("leaving")
    /\ \/ InterruptExecution(r)
       \/ status[r] # "RUNNING" /\ UNCHANGED ledgerVars

-----------------------------------------------------------------------------
(* Approvals.                                                               *)

\* A request gets the status s and its hook goes on at h.
Decide(c, s, h) ==
    /\ approval' = [approval EXCEPT ![c] = s]
    /\ hook' = [hook EXCEPT ![c] = h]
    /\ UNCHANGED <<ledgerVars, host, execVars, pending, answered, cancelling, effects, counters>>

\* approval.resolve with allow: the first decision, or a repeated one that
\* finds the request approved but not yet consumed.
Allow(c) ==
    /\ host = "UP" /\ Free /\ hook[c] = "idle"
    /\ approval[c] \in {"PENDING", "APPROVED"}
    /\ Decide(c, "APPROVED", "approved")

\* A repeated allow that finds the request consumed only resumes the Run.
RepeatAllow(c) ==
    /\ repeats < MaxRepeat /\ repeats' = repeats + 1
    /\ host = "UP" /\ Free /\ approval[c] = "CONSUMED"
    /\ Resume
    /\ UNCHANGED <<ledgerVars, host, mode, retry, asked, next, answered, userVars, downs>>

\* A deny, a cancellation and the expiry timer record their result and resume.
Refuse(c) ==
    /\ host = "UP" /\ Free /\ hook[c] = "idle"
    /\ approval[c] = "PENDING"
    /\ \E s \in {"DENIED", "CANCELLED", "EXPIRED"} : Decide(c, s, "recording")

\* A repeated deny or cancellation records its result and resumes as well.
RepeatRefuse(c) ==
    /\ repeats < MaxRepeat /\ repeats' = repeats + 1
    /\ host = "UP" /\ Free /\ hook[c] = "idle"
    /\ approval[c] \in {"DENIED", "CANCELLED"}
    /\ hook' = [hook EXCEPT ![c] = "recording"]
    /\ UNCHANGED <<ledgerVars, host, execVars, pending, answered, approval, cancelling, effects, downs>>

\* approval.list expires what is overdue and tells nobody.
ListApprovals(c) ==
    /\ ListExpires
    /\ host = "UP" /\ Free /\ hook[c] = "idle"
    /\ approval[c] = "PENDING"
    /\ Decide(c, "EXPIRED", "idle")

\* executeApproved: the consume transaction, then the process is prepared.
Consume(c) ==
    /\ hook[c] = "approved"
    /\ Decide(c, "CONSUMED", "executing")

\* The process is started, or fails to start with an error result.
Spawn(c) ==
    /\ hook[c] = "executing" /\ Free
    /\ \E h \in {"spawned", "recording"} :
           /\ hook' = [hook EXCEPT ![c] = h]
           /\ effects' = [effects EXCEPT ![c] = IF h = "spawned" THEN @ + 1 ELSE @]
    /\ UNCHANGED <<ledgerVars, host, execVars, pending, answered, approval, cancelling, counters>>

ProcessEnds(c) ==
    /\ hook[c] = "spawned" /\ Free
    /\ Decide(c, approval[c], "recording")

\* appendApprovalToolResult: it throws for a terminal Run, and is idempotent.
RecordResult(c) ==
    /\ hook[c] = "recording"
    /\ hook' = [hook EXCEPT ![c] = IF status[r] \in TerminalRun THEN "idle" ELSE "resuming"]
    /\ IF status[r] \in TerminalRun \/ c \in answered
       THEN UNCHANGED <<ledgerVars, answered>>
       ELSE AppendApprovalToolResult(r) /\ answered' = answered \cup {c}
    /\ UNCHANGED <<host, execVars, pending, approval, cancelling, effects, counters>>

\* Mutant: the hook does not resume the Run.
ResumeAfterResultNot(c) ==
    /\ hook[c] = "resuming"
    /\ Decide(c, approval[c], "idle")

ResumeAfterResult(c) ==
    /\ hook[c] = "resuming"
    /\ hook' = [hook EXCEPT ![c] = "idle"]
    /\ Resume
    /\ UNCHANGED <<ledgerVars, host, mode, retry, asked, next, answered, approval, cancelling,
                   effects, counters>>

-----------------------------------------------------------------------------
(* The operator and the process.                                            *)

\* conversation.cancel: the ledger first.
CancelRun ==
    /\ host = "UP" /\ Free
    /\ status[r] # "ABSENT"
    /\ cancelling' = TRUE
    /\ Cancel(r) \/ (status[r] \in TerminalRun /\ UNCHANGED ledgerVars)
    /\ UNCHANGED <<host, execVars, pending, answered, approval, hook, effects, counters>>

\* Mutant: requests that are decided already are cancelled too.
CancelOwnedAny ==
    /\ cancelling
    /\ cancelling' = FALSE
    /\ approval' = [c \in Call |-> IF approval[c] # "NONE" THEN "CANCELLED" ELSE "NONE"]
    /\ abort' = IF pc # "idle" /\ abort = "none" THEN "cancel" ELSE abort
    /\ UNCHANGED <<ledgerVars, host, pc, mode, pending, retry, asked, next, answered, hook,
                   effects, counters>>

\* Then runHooks.cancel: pending approvals are cancelled, the execution aborted.
CancelOwned ==
    /\ cancelling
    /\ cancelling' = FALSE
    /\ approval' = [c \in Call |-> IF approval[c] = "PENDING" THEN "CANCELLED" ELSE approval[c]]
    /\ abort' = IF pc # "idle" /\ abort = "none" THEN "cancel" ELSE abort
    /\ UNCHANGED <<ledgerVars, host, pc, mode, pending, retry, asked, next, answered, hook,
                   effects, counters>>

\* coordinator.close, reached in closeHost after the protocol is closed.
Shutdown ==
    /\ host = "UP" /\ Free /\ downs < MaxDown
    /\ host' = "CLOSING"
    /\ downs' = downs + 1
    /\ pending' = FALSE
    /\ abort' = IF pc # "idle" /\ abort = "none" THEN "shutdown" ELSE abort
    /\ UNCHANGED <<ledgerVars, pc, mode, retry, asked, next, answered, userVars, repeats>>

\* What the death of the process erases.
LoseMemory ==
    /\ host' = "DOWN" /\ pc' = "idle" /\ mode' = "start" /\ abort' = "none"
    /\ pending' = FALSE /\ cancelling' = FALSE
    /\ hook' = [c \in Call |-> "idle"]
    /\ UNCHANGED <<ledgerVars, retry, asked, next, answered, approval, effects>>

\* All executions have settled; a hook that still awaits its process is lost.
Stop == host = "CLOSING" /\ pc = "idle" /\ Free /\ LoseMemory /\ UNCHANGED counters

Crash == host # "DOWN" /\ downs < MaxDown /\ LoseMemory /\ downs' = downs + 1 /\ repeats' = repeats

\* Recovery, and every CREATED Run that waits for no child is scheduled.
Startup ==
    /\ host = "DOWN"
    /\ RecoverIncompleteRuns
    /\ host' = "UP"
    /\ pc' = IF status'[r] = "CREATED" /\ ~wait[r] THEN "prepare" ELSE "idle"
    /\ UNCHANGED <<mode, abort, pending, retry, asked, next, answered, userVars, counters>>

-----------------------------------------------------------------------------
Execution ==
    \/ PrepareAttempt \/ Prepared \/ Resolved \/ Unresolved \/ Leave
    \/ Turn \/ Stream \/ RetryModel \/ Message \/ HandleCall \/ Tool \/ Result
    \/ CloseUsage \/ CloseTransition \/ Interrupt

Hook(c) == Consume(c) \/ Spawn(c) \/ ProcessEnds(c) \/ RecordResult(c) \/ ResumeAfterResult(c)

Operator ==
    \/ SendAndSchedule \/ CancelRun
    \/ \E c \in Call : 
          \/ Allow(c) \/ RepeatAllow(c) \/ Refuse(c) \/ RepeatRefuse(c) \/ ListApprovals(c)

HostNext ==
    \/ Execution
    \/ \E c \in Call : Hook(c)
    \/ Operator \/ CancelOwned
    \/ Shutdown \/ Stop \/ Crash \/ Startup

\* The event loop takes callbacks in order, so one that is due is not passed
\* over for ever by others (strong fairness): what an execution or a hook
\* awaits settles, a stopped Host is started again and the expiry timer
\* decides what no operator decides.  Nothing is asked of the operator.
HostSpec ==
    /\ HostInit /\ [][HostNext]_vars
    /\ SF_vars(Execution) /\ WF_vars(CancelOwned) /\ WF_vars(Stop) /\ WF_vars(Startup)
    /\ \A c \in Call : SF_vars(Hook(c)) /\ SF_vars(Refuse(c))

-----------------------------------------------------------------------------
\* The model is never asked while a Tool call of an earlier turn has no result:
\* a Run that waited for an approval goes on only after the result of that very
\* call is durable, however decisions, expiry, resume and recovery interleave.
AnsweredBeforeModel == pc = "streaming" => 1 .. asked \subseteq answered

\* One approval starts at most one process, also when the decision is repeated
\* and when the process dies around the consume.
ExecutedOnce == \A c \in Call : effects[c] <= 1

\* No process of a prompted call is started before an operator allowed it.
ApprovedBeforeEffect ==
    \A c \in Call : approval[c] \in {"PENDING", "DENIED", "EXPIRED", "CANCELLED"} => effects[c] = 0

\* A queued Run always has an owner: while the Host is up, a CREATED Run is
\* being prepared or executed, unless no model profile was found for it.
QueuedIsOwned == host = "UP" /\ status[r] = "CREATED" => pc # "idle" \/ mode = "unresolved"

\* The Host never sits on a Run that nobody will wake: when the thread is idle
\* and no hook is at work, a waiting Run has a request that can be decided, or
\* no model profile was found when it was resumed.
NoOrphanWait ==
    /\ host = "UP" /\ pc = "idle" /\ status[r] = "WAITING_APPROVAL"
    /\ Free /\ \A c \in Call : hook[c] = "idle"
    => mode = "unresolved" \/ \E c \in Call : approval[c] = "PENDING"

\* Every Run that was sent ends, since a request that no operator decides
\* expires: no suspension, resume or abort leaves it open for ever.  Only a Run
\* whose model profile is not found stays where it is.
RunSettles == (status[r] = "CREATED") ~> (status[r] \in TerminalRun \/ mode = "unresolved")

\* A decided request is answered by a durable result, unless the Run ended.
DecisionAnswered ==
    \A c \in Call : (approval[c] \notin {"NONE", "PENDING"}) ~>
                        (c \in answered \/ status[r] \in TerminalRun)

\* After a cancellation the execution comes to rest and nothing revives it.
CancelQuiesces == (status[r] = "CANCELLED") ~> [](pc = "idle")

\* Runs with their approvals across restarts: results before the next model
\* turn, no queued Run without an owner, no command executed twice or without
\* an approval.
RunsAgree == AnsweredBeforeModel /\ QueuedIsOwned /\ ExecutedOnce /\ ApprovedBeforeEffect

\* A Run settles, a decision is answered, and a cancelled Run comes to rest.
RunsProceed == RunSettles /\ DecisionAnswered /\ CancelQuiesces
=============================================================================
