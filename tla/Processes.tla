----------------------------- MODULE Processes -----------------------------
(***************************************************************************)
(* The process tool: the approval service that lets a call through or asks *)
(* (packages/approval), the process manager that carries it out            *)
(* (packages/tools-process) on the host or in a container (packages/       *)
(* sandbox, sandbox-docker), and the rows they leave (packages/state       *)
(* approval-process-repository).                                           *)
(*                                                                         *)
(* The Host is one thread: every action ends where the code awaits.  The   *)
(* commands and the containers belong to the operating system and outlive  *)
(* the Host.  A signal may be ignored, docker may fail or time out before  *)
(* or after it did what it was asked.                                      *)
(***************************************************************************)
EXTENDS Naturals, FiniteSets

CONSTANTS
    ProcessCall,   \* tool calls of one conversation
    Background,    \* those with input.background
    Policy,        \* policy.defaultDecision: ALLOW, PROMPT or DENY
    Preferred,     \* routing.preferred: HOST or DOCKER
    HostFallback,  \* routing.fallback is HOST
    MaxRepeats,    \* bound on calls that are made again under the same id
    MaxDowns       \* bound on crashes and shutdowns

ASSUME ProcessAssumption ==
    /\ Background \subseteq ProcessCall
    /\ Policy \in {"ALLOW", "PROMPT", "DENY"}
    /\ Preferred \in {"HOST", "DOCKER"}
    /\ HostFallback \in BOOLEAN
    /\ MaxRepeats \in Nat /\ MaxDowns \in Nat

VARIABLES
    tool,       \* tool_calls.status
    request,    \* approval_requests.status, with the decision while APPROVED
    grant,      \* approval_conversation_grants has the conversation
    record,     \* process_records.status and backend_kind
    at,         \* where the execution of a call awaits
    handle,     \* its handle: in #backendHandles, awaited by close, cancelled, timed out
    execOutcome, \* what exec and close gave
    command,    \* the command in the operating system
    container,  \* the container of the call exists
    manager,    \* OPEN, CLOSING or DOWN
    repeated, downed

rows == <<tool, request, grant, record>>
memory == <<at, handle, execOutcome>>
system == <<command, container>>
processBudget == <<repeated, downed>>
processVars == <<rows, memory, system, manager, processBudget>>

LedgerToolCallRow == {"NONE", "PENDING_APPROVAL", "APPROVED", "RUNNING", "COMPLETED", "FAILED", "DENIED", "CANCELLED"}
LedgerApprovalRequestRow == {"NONE", "PENDING", "allow_once", "allow_for_conversation", "DENIED", "EXPIRED", "CONSUMED", "CANCELLED"}
LedgerProcessRecordRow == [
    status : {"NONE", "STARTING", "RUNNING", "EXITED", "FAILED_TO_START", "CANCELLED", "ORPHANED"},
    backend : {"HOST", "DOCKER"}]
ExecutionBackendHandle == [known : BOOLEAN, awaited : BOOLEAN, cancelled : BOOLEAN, timedOut : BOOLEAN]
BackendExecResult == [threw : BOOLEAN, zero : BOOLEAN, unclean : BOOLEAN]

NoHandle == [known |-> FALSE, awaited |-> FALSE, cancelled |-> FALSE, timedOut |-> FALSE]
NoOutcome == [threw |-> FALSE, zero |-> FALSE, unclean |-> FALSE]

\* An APPROVED request still has its decision, which a replay must repeat.
Allowing == {"allow_once", "allow_for_conversation"}
Active == {"STARTING", "RUNNING"}

ProcessInit ==
    /\ tool = [c \in ProcessCall |-> "NONE"]
    /\ request = [c \in ProcessCall |-> "NONE"]
    /\ grant = FALSE
    /\ record = [c \in ProcessCall |-> [status |-> "NONE", backend |-> "HOST"]]
    /\ at = [c \in ProcessCall |-> "idle"]
    /\ handle = [c \in ProcessCall |-> NoHandle]
    /\ execOutcome = [c \in ProcessCall |-> NoOutcome]
    /\ command = [c \in ProcessCall |-> "none"]
    /\ container = [c \in ProcessCall |-> FALSE]
    /\ manager = "OPEN"
    /\ repeated = 0 /\ downed = 0

\* resolve and consume run on without an await; only a crash comes between.
ThreadFree == \A c \in ProcessCall : at[c] # "approved"

UpdateToolCall(c, s) == tool' = [tool EXCEPT ![c] = s]
UpdateProcess(c, s) == record' = [record EXCEPT ![c].status = s]
Await(c, place) == at' = [at EXCEPT ![c] = place]

\* The execution returns.
ForgetProcess(c) ==
    /\ Await(c, "idle")
    /\ handle' = [handle EXCEPT ![c] = NoHandle]
    /\ execOutcome' = [execOutcome EXCEPT ![c] = NoOutcome]

-----------------------------------------------------------------------------
(* The approval service.                                                    *)

\* authorizeOrRequest: the decision for a call, and what becomes of its rows.
\* A second request for the same execution breaks a UNIQUE constraint.
AuthorizeOrRequest(c) ==
    IF request[c] = "PENDING" THEN "PROMPT"
    ELSE IF tool[c] \in {"RUNNING", "COMPLETED"} \/ grant THEN "ALLOW"
    ELSE IF Policy = "PROMPT" /\ request[c] # "NONE" THEN "throws"
    ELSE Policy

\* insertToolCall when there is no row yet.
Inserted(c, decision) ==
    IF tool[c] # "NONE" THEN tool[c]
    ELSE CASE decision = "PROMPT" -> "PENDING_APPROVAL" [] decision = "DENY" -> "DENIED" [] OTHER -> "APPROVED"

\* beginAllowedToolCall: only an approved call, or one that runs already.
BeginAllowedToolCall(t) == t \in {"APPROVED", "RUNNING"}

\* run: the model asks for process.run, or repeats the id of an earlier call.
\* The Run of a call that is approved and not consumed waits for its hook.
RunProcess(c) ==
    /\ manager = "OPEN" /\ ThreadFree /\ at[c] = "idle" /\ request[c] \notin Allowing
    /\ tool[c] # "NONE" => repeated < MaxRepeats
    /\ repeated' = IF tool[c] = "NONE" THEN repeated ELSE repeated + 1
    /\ LET decision == AuthorizeOrRequest(c)
           begins == decision = "ALLOW" /\ BeginAllowedToolCall(Inserted(c, decision))
       IN /\ UpdateToolCall(c, IF begins THEN "RUNNING" ELSE Inserted(c, decision))
          /\ request' = [request EXCEPT ![c] = IF decision = "PROMPT" THEN "PENDING" ELSE @]
          /\ Await(c, IF begins THEN "select" ELSE "idle")
    /\ UNCHANGED <<grant, record, handle, execOutcome, system, manager, downed>>

\* deny, cancel and expirePending end the request and the call together.
Refused(c, s) ==
    /\ request' = [request EXCEPT ![c] = s]
    /\ UpdateToolCall(c, IF s = "DENIED" THEN "DENIED" ELSE "CANCELLED")

\* resolve with deny, approval.cancel, and the expiry timer.
Refusal(c) ==
    /\ manager # "DOWN" /\ ThreadFree /\ request[c] = "PENDING"
    /\ \E s \in {"DENIED", "CANCELLED", "EXPIRED"} : Refused(c, s)
    /\ UNCHANGED <<grant, record, memory, system, manager, processBudget>>

\* resolve with an allowing decision, the first time or replayed.
ResolveApproval(c) ==
    /\ manager # "DOWN" /\ ThreadFree /\ request[c] \in {"PENDING"} \cup Allowing
    /\ \E decision \in Allowing :
          /\ request[c] \in {"PENDING", decision}
          /\ request' = [request EXCEPT ![c] = decision]
          /\ UpdateToolCall(c, "APPROVED")
          /\ grant' = (grant \/ decision = "allow_for_conversation")
    /\ Await(c, "approved")
    /\ UNCHANGED <<record, handle, execOutcome, system, manager, processBudget>>

\* executeApproved consumes the request and starts the execution.
ConsumeApproval(c) ==
    /\ at[c] = "approved"
    /\ request' = [request EXCEPT ![c] = "CONSUMED"]
    /\ UpdateToolCall(c, "RUNNING")
    /\ Await(c, "select")
    /\ UNCHANGED <<grant, record, handle, execOutcome, system, manager, processBudget>>

-----------------------------------------------------------------------------
(* The execution of a call.                                                 *)

\* selectExecutionBackend: the backends that may be chosen.
SelectExecutionBackend == IF Preferred = "HOST" THEN {"HOST"} ELSE {"DOCKER"} \cup IF HostFallback THEN {"HOST"} ELSE {}

\* #selectBackend or #environment fails, and the call with it.
SelectFails(c) ==
    /\ at[c] = "select" /\ ThreadFree /\ manager # "DOWN"
    /\ UpdateToolCall(c, "FAILED")
    /\ Await(c, "idle")
    /\ UNCHANGED <<request, grant, record, handle, execOutcome, system, manager, processBudget>>

\* insertProcess: tool_execution_id is UNIQUE, and a second row is an error
\* that leaves the tool call as it is; so are the failures of the log files.
InsertProcess(c, b) ==
    \/ /\ record[c].status = "NONE"
       /\ record' = [record EXCEPT ![c] = [status |-> "STARTING", backend |-> b]]
       /\ Await(c, "prepare")
    \/ Await(c, "idle") /\ UNCHANGED record

Selected(c) ==
    /\ at[c] = "select" /\ ThreadFree /\ manager # "DOWN"
    /\ \E b \in SelectExecutionBackend : InsertProcess(c, b)
    /\ UNCHANGED <<tool, request, grant, handle, execOutcome, system, manager, processBudget>>

\* markStarted; a background call is answered as soon as its command started.
MarkStarted(c) ==
    /\ UpdateProcess(c, "RUNNING")
    /\ UpdateToolCall(c, IF c \in Background THEN "COMPLETED" ELSE tool[c])

StartCommand(c) == command' = [command EXCEPT ![c] = "up"]

\* prepare gives a handle and bindProcessBackend finds the row STARTING.  In a
\* container exec starts the command at once; on the host it resolves the
\* working directory first.
Bound(c) ==
    /\ at[c] = "prepare" /\ ThreadFree /\ manager # "DOWN" /\ record[c].status = "STARTING"
    /\ handle' = [handle EXCEPT ![c] = [NoHandle EXCEPT !.known = TRUE, !.awaited = manager = "OPEN"]]
    /\ IF record[c].backend = "DOCKER"
       THEN /\ container' = [container EXCEPT ![c] = TRUE]
            /\ MarkStarted(c) /\ StartCommand(c) /\ Await(c, "run")
       ELSE Await(c, "exec") /\ UNCHANGED <<tool, record, command, container>>
    /\ UNCHANGED <<request, grant, execOutcome, manager, processBudget>>

\* prepare fails, or the row was closed in the meantime and bind throws.  A
\* container may be left when docker timed out or close failed.
PrepareFails(c) ==
    /\ at[c] = "prepare" /\ ThreadFree /\ manager # "DOWN"
    /\ \E left, unclean \in BOOLEAN :
          /\ record[c].backend = "HOST" => ~left /\ ~unclean
          /\ unclean => record[c].status # "STARTING"
          /\ container' = [container EXCEPT ![c] = left]
          /\ UpdateProcess(c, IF unclean THEN "ORPHANED" ELSE "FAILED_TO_START")
    /\ UpdateToolCall(c, "FAILED")
    /\ Await(c, "idle")
    /\ UNCHANGED <<request, grant, handle, execOutcome, command, manager, processBudget>>

\* exec on the host resumes: it forgets a cancellation that came before and
\* starts the command, which may turn out not to exist.
HostExec(c) ==
    /\ at[c] = "exec" /\ ThreadFree /\ manager # "DOWN"
    /\ handle' = [handle EXCEPT ![c].cancelled = FALSE]
    /\ MarkStarted(c)
    /\ \/ StartCommand(c) /\ Await(c, "run") /\ UNCHANGED execOutcome
       \/ /\ execOutcome' = [execOutcome EXCEPT ![c].threw = TRUE]
          /\ Await(c, "close")
          /\ UNCHANGED command
    /\ UNCHANGED <<request, grant, container, manager, processBudget>>

\* The working directory does not resolve.  The promise of the start resolves
\* too, so a background call is answered as if it had started.
HostExecFails(c) ==
    /\ at[c] = "exec" /\ ThreadFree /\ manager # "DOWN"
    /\ execOutcome' = [execOutcome EXCEPT ![c].threw = TRUE]
    /\ UpdateToolCall(c, IF c \in Background THEN "COMPLETED" ELSE tool[c])
    /\ Await(c, "close")
    /\ UNCHANGED <<request, grant, record, handle, system, manager, processBudget>>

\* The command ends, of itself or by a signal.
CommandEnds(c) ==
    /\ command[c] = "up"
    /\ command' = [command EXCEPT ![c] = "down"]
    /\ UNCHANGED <<rows, memory, container, manager, processBudget>>

\* The timer of exec sends a signal; on the host exec waits on.
HostTimeout(c) ==
    /\ at[c] = "run" /\ record[c].backend = "HOST" /\ ThreadFree /\ manager # "DOWN"
    /\ ~handle[c].timedOut
    /\ handle' = [handle EXCEPT ![c].timedOut = TRUE]
    /\ UNCHANGED <<rows, at, execOutcome, system, manager, processBudget>>

\* exec returns: on the host once the command is gone; docker exec may also be
\* cut off by its timer or lose its command.
ExecReturns(c) ==
    /\ at[c] = "run" /\ ThreadFree /\ manager # "DOWN"
    /\ \/ /\ command[c] = "down"
          /\ \E zero \in BOOLEAN : execOutcome' = [execOutcome EXCEPT ![c].zero = zero /\ ~handle[c].timedOut]
          /\ UNCHANGED handle
       \/ /\ record[c].backend = "DOCKER"
          /\ handle' = [handle EXCEPT ![c].timedOut = TRUE]
          /\ UNCHANGED execOutcome
       \/ /\ record[c].backend = "DOCKER"
          /\ execOutcome' = [execOutcome EXCEPT ![c].threw = TRUE]
          /\ UNCHANGED handle
    /\ Await(c, "close")
    /\ UNCHANGED <<rows, system, manager, processBudget>>

\* activeHandle.close(): the container is removed, or its removal fails or
\* times out; the handle is forgotten in any case.
HandleCloses(c) ==
    /\ at[c] = "close" /\ ThreadFree /\ manager # "DOWN"
    /\ \E left, unclean \in BOOLEAN :
          /\ left => unclean /\ container[c]
          /\ unclean => record[c].backend = "DOCKER"
          /\ container' = [container EXCEPT ![c] = left]
          /\ command' = [command EXCEPT ![c] = IF record[c].backend = "DOCKER" /\ ~left /\ @ = "up" THEN "down" ELSE @]
          /\ execOutcome' = [execOutcome EXCEPT ![c].unclean = unclean]
    /\ handle' = [handle EXCEPT ![c].known = FALSE]
    /\ Await(c, "settle")
    /\ UNCHANGED <<rows, manager, processBudget>>

\* Mutant: a failed execution hides that its container was not removed.
SettledStatusHides(s, o, h) ==
    IF s \notin Active THEN s
    ELSE IF o.threw THEN "FAILED_TO_START"
    ELSE IF o.unclean THEN "ORPHANED"
    ELSE IF h.timedOut \/ h.cancelled THEN "CANCELLED" ELSE "EXITED"

\* settle: the status that ends a record; one that was closed keeps its own.
SettledStatus(s, o, h) ==
    IF s \notin Active THEN s
    ELSE IF o.unclean THEN "ORPHANED"
    ELSE IF o.threw THEN "FAILED_TO_START"
    ELSE IF h.timedOut \/ h.cancelled THEN "CANCELLED" ELSE "EXITED"

RecordEnd(c) ==
    /\ at[c] = "settle" /\ ThreadFree /\ manager # "DOWN"
    /\ UpdateProcess(c, SettledStatus(record[c].status, execOutcome[c], handle[c]))
    /\ IF c \in Background THEN ForgetProcess(c) ELSE Await(c, "answer") /\ UNCHANGED <<handle, execOutcome>>
    /\ UNCHANGED <<tool, request, grant, system, manager, processBudget>>

\* isError: anything but a clean exit with code zero.
SettleIsError(c) == record[c].status # "EXITED" \/ ~execOutcome[c].zero \/ execOutcome[c].threw \/ execOutcome[c].unclean

\* The logs are read and completeToolCall answers the foreground call.
CompleteToolCall(c) ==
    /\ at[c] = "answer" /\ ThreadFree /\ manager # "DOWN"
    /\ UpdateToolCall(c, IF SettleIsError(c) THEN "FAILED" ELSE "COMPLETED")
    /\ ForgetProcess(c)
    /\ UNCHANGED <<request, grant, record, system, manager, processBudget>>

-----------------------------------------------------------------------------
(* Cancellation, shutdown and restart.                                      *)

\* cancel: an active record is CANCELLED and its handle signalled, or is
\* ORPHANED when there is no handle yet.
CancelledRow(c) == [record[c] EXCEPT !.status = IF handle[c].known THEN "CANCELLED" ELSE "ORPHANED"]

CancelProcess(c) ==
    /\ manager # "DOWN" /\ ThreadFree /\ record[c].status \in Active
    /\ record' = [record EXCEPT ![c] = CancelledRow(c)]
    /\ handle' = [handle EXCEPT ![c].cancelled = @ \/ handle[c].known]
    /\ UNCHANGED <<tool, request, grant, at, execOutcome, system, manager, processBudget>>

\* close cancels what has a handle and refuses new calls of run.
CloseManager ==
    /\ manager = "OPEN" /\ ThreadFree /\ downed < MaxDowns
    /\ manager' = "CLOSING" /\ downed' = downed + 1
    /\ LET closes == {c \in ProcessCall : handle[c].known}
       IN /\ record' = [c \in ProcessCall |-> IF c \in closes /\ record[c].status \in Active THEN CancelledRow(c) ELSE record[c]]
          /\ handle' = [c \in ProcessCall |-> [handle[c] EXCEPT !.cancelled = @ \/ (c \in closes /\ record[c].status \in Active)]]
    /\ UNCHANGED <<tool, request, grant, at, execOutcome, system, repeated>>

LoseExecutions ==
    /\ manager' = "DOWN"
    /\ at' = [c \in ProcessCall |-> "idle"]
    /\ handle' = [c \in ProcessCall |-> NoHandle]
    /\ execOutcome' = [c \in ProcessCall |-> NoOutcome]
    /\ UNCHANGED <<rows, system, repeated>>

\* The settlements have ended: the Host stops.  An execution that had no handle
\* when close began is not waited for.
ManagerCloses ==
    /\ manager = "CLOSING" /\ ThreadFree
    /\ \A c \in ProcessCall : handle[c].awaited => at[c] \notin {"exec", "run", "close", "settle", "answer"}
    /\ LoseExecutions /\ UNCHANGED downed

ManagerCrashes ==
    /\ manager # "DOWN" /\ downed < MaxDowns
    /\ LoseExecutions /\ downed' = downed + 1

\* markActiveProcessesOrphaned
RecoverOrphans(s) == IF s \in Active THEN "ORPHANED" ELSE s

\* Start-up: pruneStale removes the containers of the profile when docker
\* answers, and the records without a process are orphaned.
RestartManager ==
    /\ manager = "DOWN"
    /\ manager' = "OPEN"
    /\ \E prunes \in IF Preferred = "DOCKER" THEN BOOLEAN ELSE {FALSE} :
          /\ container' = [c \in ProcessCall |-> container[c] /\ ~prunes]
          /\ command' = [c \in ProcessCall |-> IF prunes /\ container[c] /\ command[c] = "up" THEN "down" ELSE command[c]]
    /\ record' = [c \in ProcessCall |-> [record[c] EXCEPT !.status = RecoverOrphans(@)]]
    /\ UNCHANGED <<tool, request, grant, memory, processBudget>>

ProcessNext ==
    \/ \E c \in ProcessCall :
          \/ RunProcess(c) \/ Refusal(c) \/ ResolveApproval(c) \/ ConsumeApproval(c)
          \/ SelectFails(c) \/ Selected(c) \/ Bound(c) \/ PrepareFails(c)
          \/ HostExec(c) \/ HostExecFails(c) \/ CommandEnds(c) \/ HostTimeout(c)
          \/ ExecReturns(c) \/ HandleCloses(c) \/ RecordEnd(c) \/ CompleteToolCall(c)
          \/ CancelProcess(c)
    \/ CloseManager \/ ManagerCloses \/ ManagerCrashes \/ RestartManager

ProcessSpec == ProcessInit /\ [][ProcessNext]_processVars

-----------------------------------------------------------------------------
(* Properties.                                                              *)

ProcessTypeOK ==
    /\ tool \in [ProcessCall -> LedgerToolCallRow]
    /\ request \in [ProcessCall -> LedgerApprovalRequestRow]
    /\ grant \in BOOLEAN
    /\ record \in [ProcessCall -> LedgerProcessRecordRow]
    /\ at \in [ProcessCall -> {"idle", "approved", "select", "prepare", "exec", "run", "close", "settle", "answer"}]
    /\ handle \in [ProcessCall -> ExecutionBackendHandle]
    /\ execOutcome \in [ProcessCall -> BackendExecResult]
    /\ command \in [ProcessCall -> {"none", "up", "down"}]
    /\ container \in [ProcessCall -> BOOLEAN]
    /\ manager \in {"OPEN", "CLOSING", "DOWN"}
    /\ repeated \in 0 .. MaxRepeats /\ downed \in 0 .. MaxDowns

\* A record that says that its process exited or never started has no command
\* left in the operating system, whatever exec, docker and close reported.
EndedIsDown ==
    \A c \in ProcessCall : record[c].status \in {"EXITED", "FAILED_TO_START"} => command[c] # "up"

\* A foreground call is answered as completed only when its process exited by
\* itself: not when it was cancelled, timed out, was lost or left a container.
CompletedIsExited ==
    \A c \in ProcessCall \ Background : tool[c] = "COMPLETED" => record[c].status = "EXITED"

\* While the Host runs, a record that is not ended has an execution that will
\* end it: nothing is left STARTING or RUNNING by an earlier Host or a cancel.
ActiveIsOwned ==
    \A c \in ProcessCall : manager # "DOWN" /\ record[c].status \in Active =>
                      at[c] \in {"prepare", "exec", "run", "close", "settle"}

\* The request and the tool call, which different transactions of the hooks,
\* the timer and the execution write, tell the same story.
ApprovalAgrees ==
    \A c \in ProcessCall :
       /\ request[c] = "PENDING" => tool[c] = "PENDING_APPROVAL"
       /\ request[c] \in Allowing => tool[c] = "APPROVED"
       /\ request[c] = "DENIED" => tool[c] = "DENIED"
       /\ request[c] \in {"CANCELLED", "EXPIRED"} => tool[c] = "CANCELLED"
       /\ request[c] = "CONSUMED" => tool[c] \in {"RUNNING", "COMPLETED", "FAILED"}

\* A process is recorded only for a call that the policy, a grant or a consumed
\* approval lets through: a refused call stays refused when a later decision
\* grants the conversation and the model repeats the call.
AllowedBeforeStart ==
    \A c \in ProcessCall : record[c].status # "NONE" =>
       \/ request[c] = "CONSUMED"
       \/ request[c] = "NONE" /\ (grant \/ Policy = "ALLOW")

\* Rows and processes: what is said to have ended is down, what completed has
\* exited, what is active has its owner, and requests, Tool calls and starts agree.
ProcessesAgree ==
    /\ ProcessTypeOK
    /\ EndedIsDown /\ CompletedIsExited /\ ActiveIsOwned /\ ApprovalAgrees /\ AllowedBeforeStart
=============================================================================
