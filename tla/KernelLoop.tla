----------------------------- MODULE KernelLoop -----------------------------
(***************************************************************************)
(* The loop of the agent kernel (packages/agent-kernel/src/kernel.ts) over *)
(* the durable log of one Run: model turns with retries, the Tool calls of *)
(* a turn in order, and the events it writes under idempotency keys.       *)
(*                                                                         *)
(* Every action is one transaction, so a crash may fall between any two of *)
(* them; what is in memory (pc, request, retry, calls, next) is then lost  *)
(* and rebuilt by Start from the durable rows.  Approvals, delegation and  *)
(* cancellation are left to the module AgentHost.                          *)
(***************************************************************************)
EXTENDS EventLog

CONSTANTS
    CallId,           \* toolCallIds that the model may use
    MaxTurns,         \* budget.maxTurns
    MaxRetries,       \* resolution.maxRetries
    MaxTurnCalls,     \* bound on the Tool calls of one turn
    MaxCrash          \* bound on crashes and shutdowns

\* The idempotency keys of the kernel: of an attempt, of a model request, of a
\* Tool call that the model makes in a request, and of the Tool call itself.
KernelKey ==
    ({"run-start", "model-request", "model-text", "model-retry", "model-complete"} \X Nat)
    \cup ({"model-tool"} \X Nat \X CallId)
    \cup ({"tool-start", "tool-complete", "tool-replay", "checkpoint:tool"} \X CallId)

ASSUME KernelAssumption ==
    /\ {MaxTurns, MaxRetries, MaxTurnCalls, MaxCrash} \subseteq Nat
    /\ NoKey \notin KernelKey

VARIABLES
    pc,           \* where the execution stands
    author,       \* the number of the current attempt
    turns,        \* the largest turn_number of the model_invocations rows
    invocations,  \* the largest request_number of those rows
    request,      \* requestCounter of the execution
    retry,        \* retry of runModelTurn
    calls,        \* the Tool calls of the current turn
    next,         \* index of the Tool call that is executed next
    asked,        \* toolCallIds of the durable assistant messages
    results,      \* toolCallIds that have a durable tool_result message
    effects,      \* how often every Tool call was executed
    crashes

kernelVars == <<log, recoverable, answer, pc, author, turns, invocations, request, retry,
                calls, next, asked, results, effects, crashes>>

\* An event of the execution; events without a key are never repeated.
Ev(type, payload, key) ==
    [type |-> type, author |-> author, payload |-> payload, key |-> key]

\* appendEvent inside the try of executeAgentRun: a throw fails the Run.
Write(e, target) ==
    /\ AppendEvent(e)
    /\ pc' = IF answer' = "EVENT_IDEMPOTENCY_CONFLICT" THEN "failing" ELSE target

KernelInit ==
    /\ LogInit
    /\ pc = "prepared" /\ author = 1
    /\ turns = 0 /\ invocations = 0 /\ request = 0 /\ retry = 0
    /\ calls = <<>> /\ next = 1
    /\ asked = {} /\ results = {}
    /\ effects = [c \in CallId |-> 0]
    /\ crashes = 0

-----------------------------------------------------------------------------
\* startExecution, and the counters rebuilt from the invocations of the Run.
Start ==
    /\ pc = "prepared"
    /\ Write(Ev("run.started", "none", <<"run-start", author>>), "turn")
    /\ request' = invocations
    /\ retry' = 0 /\ calls' = <<>> /\ next' = 1
    /\ UNCHANGED <<author, turns, invocations, asked, results, effects, crashes>>

\* The first transaction of a request: the model_invocations row.
StartModelInvocation ==
    /\ pc = "turn"
    /\ retry > 0 \/ turns < MaxTurns
    /\ pc' = "invoked"
    /\ request' = request + 1
    /\ invocations' = request + 1
    /\ turns' = IF retry = 0 THEN turns + 1 ELSE turns
    /\ UNCHANGED <<log, recoverable, answer, author, retry, calls, next, asked, results,
                   effects, crashes>>

RequestModel ==
    /\ pc = "invoked"
    /\ Write(Ev("model.requested", "none", <<"model-request", request>>), "streaming")
    /\ UNCHANGED <<author, turns, invocations, request, retry, calls, next, asked, results,
                   effects, crashes>>

\* A text or reasoning delta; one stands for all deltas of a request.
StreamDelta ==
    /\ pc = "streaming"
    /\ Write(Ev("model.text_delta", "none", <<"model-text", request>>), "output")
    /\ UNCHANGED <<author, turns, invocations, request, retry, calls, next, asked, results,
                   effects, crashes>>

\* The model may use any toolCallId, also one it used before.
StreamToolCall(c) ==
    /\ pc \in {"streaming", "output"}
    /\ Len(calls) < MaxTurnCalls
    /\ Write(Ev("model.tool_call", "none", <<"model-tool", request, c>>), "output")
    /\ calls' = Append(calls, c)
    /\ UNCHANGED <<author, turns, invocations, request, retry, next, asked, results,
                   effects, crashes>>

\* A retryable provider error before any durable output.
RetryModel ==
    /\ pc = "streaming"
    /\ retry < MaxRetries
    /\ Write(Ev("model.retry", "none", <<"model-retry", request>>), "turn")
    /\ retry' = retry + 1
    /\ UNCHANGED <<author, turns, invocations, request, calls, next, asked, results,
                   effects, crashes>>

CompleteModel ==
    /\ pc \in {"streaming", "output"}
    /\ Write(Ev("model.completed", "none", <<"model-complete", request>>), "message")
    /\ retry' = 0
    /\ UNCHANGED <<author, turns, invocations, request, calls, next, asked, results,
                   effects, crashes>>

\* The assistant message of the turn; without Tool calls the Run is completed.
AppendAssistantMessage ==
    /\ pc = "message"
    /\ asked' = asked \cup {calls[i] : i \in 1 .. Len(calls)}
    /\ next' = 1
    /\ pc' = IF calls = <<>> THEN "completing" ELSE "call"
    /\ UNCHANGED <<log, recoverable, answer, author, turns, invocations, request, retry,
                   calls, results, effects, crashes>>

NextTurn ==
    /\ pc = "call"
    /\ next > Len(calls)
    /\ pc' = "turn"
    /\ calls' = <<>>
    /\ UNCHANGED <<log, recoverable, answer, author, turns, invocations, request, retry,
                   next, asked, results, effects, crashes>>

\* Mutant: completedTools is not looked at.
AlreadyCompletedNever(c) == FALSE

\* The call is in completedTools, which holds the calls that have a result.
AlreadyCompleted(c) == c \in results

StartTool ==
    /\ pc = "call"
    /\ next <= Len(calls)
    /\ ~AlreadyCompleted(calls[next])
    /\ Write(Ev("tool.started", "none", <<"tool-start", calls[next]>>), "tool")
    /\ UNCHANGED <<author, turns, invocations, request, retry, calls, next, asked, results,
                   effects, crashes>>

\* tools.execute returns; the side effect of the Tool has happened.
ExecuteTool ==
    /\ pc = "tool"
    /\ effects' = [effects EXCEPT ![calls[next]] = @ + 1]
    /\ pc' = "executed"
    /\ UNCHANGED <<log, recoverable, answer, author, turns, invocations, request, retry,
                   calls, next, asked, results, crashes>>

AppendToolResult ==
    /\ pc = "executed"
    /\ results' = results \cup {calls[next]}
    /\ pc' = "result"
    /\ UNCHANGED <<log, recoverable, answer, author, turns, invocations, request, retry,
                   calls, next, asked, effects, crashes>>

CompleteTool ==
    /\ pc = "result"
    /\ Write(Ev("tool.completed", "none", <<"tool-complete", calls[next]>>), "checkpoint")
    /\ UNCHANGED <<author, turns, invocations, request, retry, calls, next, asked, results,
                   effects, crashes>>

CheckpointTool ==
    /\ pc = "checkpoint"
    /\ Write(Ev("run.checkpoint", "tool.completed", <<"checkpoint:tool", calls[next]>>), "call")
    /\ next' = next + 1
    /\ UNCHANGED <<author, turns, invocations, request, retry, calls, asked, results,
                   effects, crashes>>

\* The call was completed before: its result is put into the context again.
ReplayTool ==
    /\ pc = "call"
    /\ next <= Len(calls)
    /\ AlreadyCompleted(calls[next])
    /\ Write(Ev("tool.replayed", "none", <<"tool-replay", calls[next]>>), "replayed")
    /\ UNCHANGED <<author, turns, invocations, request, retry, calls, next, asked, results,
                   effects, crashes>>

CheckpointReplay ==
    /\ pc = "replayed"
    /\ Write(Ev("run.checkpoint", "tool.replayed", <<"checkpoint:tool", calls[next]>>), "call")
    /\ next' = next + 1
    /\ UNCHANGED <<author, turns, invocations, request, retry, calls, asked, results,
                   effects, crashes>>

\* What throws and reaches the catch of executeAgentRun: an exhausted turn or
\* time budget, a provider error, a Tool that throws (before or after it had
\* its effect), and a repeated call whose arguments differ.
Throw ==
    /\ pc \in {"turn", "streaming", "output", "message", "call", "tool", "executed"}
    /\ pc' = "failing"
    /\ UNCHANGED <<log, recoverable, answer, author, turns, invocations, request, retry,
                   calls, next, asked, results, effects, crashes>>

\* Mutant: the catch does not fail the Run.
FinishCompleted ==
    /\ pc = "completing"
    /\ Write(Ev("run.completed", "none", NoKey), "ended")
    /\ UNCHANGED <<author, turns, invocations, request, retry, calls, next, asked, results,
                   effects, crashes>>

\* completeExecution and failExecution: the terminal transition.
Finish ==
    /\ pc \in {"completing", "failing"}
    /\ Write(Ev(IF pc = "completing" THEN "run.completed" ELSE "run.failed", "none", NoKey), "ended")
    /\ UNCHANGED <<author, turns, invocations, request, retry, calls, next, asked, results,
                   effects, crashes>>

-----------------------------------------------------------------------------
\* The process dies while the Run is RUNNING.  A Run that is CREATED (queued or
\* prepared) loses nothing.
Crash ==
    /\ pc \notin {"queued", "prepared", "down", "ended"}
    /\ crashes < MaxCrash
    /\ crashes' = crashes + 1
    /\ pc' = "down"
    /\ UNCHANGED <<log, recoverable, answer, author, turns, invocations, request, retry,
                   calls, next, asked, results, effects>>

\* recoverIncompleteRuns for a RUNNING Run without a delegation wait.
Recover ==
    /\ pc = "down"
    /\ Insert(Ev("run.recovery_classified", "none", NoKey))
    /\ pc' = IF HasRecoverableCheckpoint(log) THEN "queued" ELSE "ended"
    /\ UNCHANGED <<author, turns, invocations, request, retry, calls, next, asked, results,
                   effects, crashes>>

\* The Host shuts down and the abort is noticed at the start of a turn, in the
\* stream, before a Tool call or by the Tool: interruptExecution.
Interrupt ==
    /\ pc \in {"turn", "streaming", "output", "call", "tool", "executed"}
    /\ crashes < MaxCrash
    /\ crashes' = crashes + 1
    /\ Insert(Ev("run.interrupted", "none", NoKey))
    /\ pc' = IF HasRecoverableCheckpoint(log) THEN "queued" ELSE "ended"
    /\ UNCHANGED <<author, turns, invocations, request, retry, calls, next, asked, results,
                   effects>>

\* prepareExecutionAttempt replaces the aborted attempt.
Prepare ==
    /\ pc = "queued"
    /\ author' = author + 1
    /\ Insert([Ev("run.attempt.prepared", "none", NoKey) EXCEPT !.author = author + 1])
    /\ pc' = "prepared"
    /\ UNCHANGED <<turns, invocations, request, retry, calls, next, asked, results,
                   effects, crashes>>

KernelStep ==
    \/ Start \/ StartModelInvocation \/ RequestModel \/ StreamDelta
    \/ \E c \in CallId : StreamToolCall(c)
    \/ RetryModel \/ CompleteModel \/ AppendAssistantMessage \/ NextTurn
    \/ StartTool \/ ExecuteTool \/ AppendToolResult \/ CompleteTool \/ CheckpointTool
    \/ ReplayTool \/ CheckpointReplay
    \/ Throw \/ Finish \/ Recover \/ Prepare

KernelNext == KernelStep \/ Crash \/ Interrupt

\* A live Host goes on with its execution and a dead one is started again.
KernelSpec == KernelInit /\ [][KernelNext]_kernelVars /\ WF_kernelVars(KernelStep)

-----------------------------------------------------------------------------
\* The kernel trips over its own idempotency keys nowhere but at the checkpoint
\* of a replayed call: an execution that repeats a model request or a Tool event
\* after a restart uses a fresh key, although the counters it is built from were
\* lost with the process.
NoConflict ==
    [][pc' = "failing" /\ answer' = "EVENT_IDEMPOTENCY_CONFLICT" /\ answer # answer'
            => pc = "replayed"]_kernelVars

\* A Tool call has its side effect at most once, also when the model sends the
\* same toolCallId again and when the process dies around the call.
ExecutedOnce == \A c \in CallId : effects[c] <= 1

\* A Run is only queued again when the result of every executed Tool is
\* durable: a crash between a side effect and its result ends the Run.
EffectsRecorded ==
    pc \in {"queued", "prepared"} => \A c \in CallId : effects[c] > 0 => c \in results

\* Every Tool call of an earlier assistant message has its result before the
\* model is asked again.
AnsweredBeforeModel == pc = "invoked" => asked \subseteq results

\* The events of a Tool or of model output after event i.
WorkAfter(i) ==
    \E j \in (i + 1) .. Len(log) :
        log[j].type \in {"model.text_delta", "model.tool_call", "model.completed", "tool.started"}

\* A checkpointed Run that did no work since its checkpoint survives a shutdown
\* or a restart: it is queued again.  Refuted: the events of its resumption
\* follow the checkpoint (README, Findings).
CheckpointSurvives ==
    [][pc' = "ended" /\ log'[Len(log')].type \in {"run.recovery_classified", "run.interrupted"} =>
           \A i \in 1 .. Len(log) : log[i].type = "run.checkpoint" => WorkAfter(i)]_kernelVars

\* Every execution ends, whatever the provider does and however often the Host
\* is restarted: no retry, replay or recovery goes around for ever.
Termination == <>[](pc = "ended")

\* Side effects and their record: none is repeated, by the model, a retry or a
\* restart, and none is forgotten by a Run that is queued again.
EffectsAccounted == ExecutedOnce /\ EffectsRecorded
=============================================================================
