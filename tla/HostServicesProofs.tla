------------------------- MODULE HostServicesProofs -------------------------
(***************************************************************************)
(* What holds of a Host's boot and of its services for every value of the  *)
(* constants: the commands of the process tool (Processes), the files by   *)
(* which one process owns a profile (HostBoot), the mutations of the file  *)
(* tools (WorkspaceFiles), the clean-up of what is old (Retention) and the *)
(* memory (Memory).                                                        *)
(*                                                                         *)
(* Each part has an inductive invariant.  ProcInv says which place of an   *)
(* execution goes with which outcome, record, command and approval.        *)
(* BootInv says for every phase of a process which lock it counts on,      *)
(* which writes of its metadata may be waiting, what it has judged of the  *)
(* locks of others and how far its migrations are.  FilesInv says that     *)
(* only the head of a chain is at its file, and what every rename          *)
(* replaced.  RetInv and MemoryInv add to the checked properties what a    *)
(* batch lists, and that a memory is changed only by being forgotten.      *)
(***************************************************************************)
EXTENDS Processes, HostBoot, WorkspaceFiles, Retention, Memory,
        SequenceTheorems, FiniteSetTheorems, TLAPS

-----------------------------------------------------------------------------
(* Processes: calls, their approvals, their records and their commands.     *)

Working == {"prepare", "exec", "run", "close", "settle"}
Started == {"RUNNING", "COMPLETED", "FAILED"}

\* The request and the Tool call tell the same story, and a call that was
\* started was let through by an approval, by a grant or by the policy.
CallAllowed(c) ==
    /\ request[c] = "PENDING" => tool[c] = "PENDING_APPROVAL"
    /\ request[c] \in Allowing => tool[c] = "APPROVED"
    /\ request[c] = "DENIED" => tool[c] = "DENIED"
    /\ request[c] \in {"CANCELLED", "EXPIRED"} => tool[c] = "CANCELLED"
    /\ request[c] = "CONSUMED" => tool[c] \in Started
    /\ tool[c] \in Started => request[c] = "CONSUMED" \/ (request[c] = "NONE" /\ (grant \/ Policy = "ALLOW"))
    /\ tool[c] # "NONE" /\ request[c] = "NONE" /\ Policy = "PROMPT" => grant

\* Where the execution of a call stands, its Tool call and its record.
CallPlaced(c) ==
    /\ at[c] = "approved" => request[c] \in Allowing
    /\ at[c] \in {"select", "prepare", "exec"} => tool[c] = "RUNNING"
    /\ at[c] \in {"run", "close", "settle", "answer"} =>
           tool[c] = IF c \in Background THEN "COMPLETED" ELSE "RUNNING"
    /\ at[c] = "answer" => c \notin Background
    /\ record[c].status = "NONE" => at[c] \in {"idle", "approved", "select"} /\ command[c] = "none"
    /\ record[c].status # "NONE" => tool[c] \in Started
    /\ c \notin Background /\ tool[c] = "COMPLETED" => record[c].status = "EXITED"
    /\ manager # "DOWN" /\ record[c].status \in Active => at[c] \in Working

\* A command is up only where its record may still say so.
CallDown(c) ==
    /\ at[c] \in {"prepare", "exec"} => command[c] = "none"
    /\ at[c] = "exec" => record[c].backend = "HOST"
    /\ at[c] = "close" /\ record[c].backend = "HOST" => command[c] # "up"
    /\ at[c] = "settle" => command[c] # "up" \/ execOutcome[c].unclean
    /\ record[c].status \in {"EXITED", "FAILED_TO_START"} => command[c] # "up"

ProcInv ==
    /\ ProcessTypeOK
    /\ \A c \in ProcessCall : CallAllowed(c) /\ CallPlaced(c) /\ CallDown(c)

\* Nothing of call c changes but what it may see: the grant, which stays, and
\* the manager, which is not started.
CallStays(c) ==
    /\ tool'[c] = tool[c] /\ request'[c] = request[c] /\ record'[c] = record[c] /\ at'[c] = at[c]
    /\ execOutcome'[c].unclean = execOutcome[c].unclean /\ command'[c] = command[c]
    /\ grant => grant'
    /\ manager' # "DOWN" => manager # "DOWN"

\* A call that is left alone stays as the invariant wants it.
LEMMA OtherCall ==
    ASSUME NEW c, CallStays(c), CallAllowed(c), CallPlaced(c), CallDown(c)
    PROVE  CallAllowed(c)' /\ CallPlaced(c)' /\ CallDown(c)'
<1>1. CallAllowed(c)'
  BY DEF CallStays, CallAllowed
<1>2. CallPlaced(c)'
  BY DEF CallStays, CallPlaced
<1>3. CallDown(c)'
  BY DEF CallStays, CallDown
<1> QED
  BY <1>1, <1>2, <1>3

\* A step of one call keeps the invariant when it does so for that call.
LEMMA OneCall ==
    ASSUME ProcInv, ProcessTypeOK', NEW c \in ProcessCall,
           \A d \in ProcessCall \ {c} : CallStays(d),
           CallAllowed(c)', CallPlaced(c)', CallDown(c)'
    PROVE  ProcInv'
<1>1. ASSUME NEW d \in ProcessCall PROVE CallAllowed(d)' /\ CallPlaced(d)' /\ CallDown(d)'
  <2>1. CASE d = c
    BY <2>1
  <2>2. CASE d # c
    BY <2>2, OtherCall DEF ProcInv
  <2> QED
    BY <2>1, <2>2
<1> QED
  BY <1>1 DEF ProcInv

TypeParts ==
    /\ tool \in [ProcessCall -> LedgerToolCallRow]
    /\ request \in [ProcessCall -> LedgerApprovalRequestRow]
    /\ record \in [ProcessCall -> LedgerProcessRecordRow]
    /\ handle \in [ProcessCall -> ExecutionBackendHandle]
    /\ execOutcome \in [ProcessCall -> BackendExecResult]
    /\ grant \in BOOLEAN
    /\ at \in [ProcessCall -> {"idle", "approved", "select", "prepare", "exec", "run", "close", "settle", "answer"}]
    /\ command \in [ProcessCall -> {"none", "up", "down"}]
    /\ manager \in {"OPEN", "CLOSING", "DOWN"}

\* RunProcess: a refused call stays refused, and a repeated one is not asked twice.
LEMMA RunKeeps == ASSUME ProcInv, NEW c \in ProcessCall, RunProcess(c) PROVE ProcInv'
<1> DEFINE decision == AuthorizeOrRequest(c)
           begins == decision = "ALLOW" /\ BeginAllowedToolCall(Inserted(c, decision))
<1>1. /\ ProcessTypeOK /\ CallAllowed(c) /\ CallPlaced(c) /\ CallDown(c) /\ at[c] = "idle" /\ request[c] \notin Allowing
      /\ manager = "OPEN"
  BY DEF ProcInv, RunProcess
<1>2. /\ tool' = [tool EXCEPT ![c] = IF begins THEN "RUNNING" ELSE Inserted(c, decision)]
      /\ request' = [request EXCEPT ![c] = IF decision = "PROMPT" THEN "PENDING" ELSE request[c]]
      /\ at' = [at EXCEPT ![c] = IF begins THEN "select" ELSE "idle"]
      /\ UNCHANGED <<grant, record, handle, execOutcome, command, container, manager, downed>>
      /\ repeated' = IF tool[c] = "NONE" THEN repeated ELSE repeated + 1
      /\ tool[c] # "NONE" => repeated < MaxRepeats
  BY DEF RunProcess, UpdateToolCall, Await, system
<1>3. /\ tool \in [ProcessCall -> LedgerToolCallRow] /\ request \in [ProcessCall -> LedgerApprovalRequestRow]
      /\ at \in [ProcessCall -> {"idle", "approved", "select", "prepare", "exec", "run", "close", "settle", "answer"}]
      /\ repeated \in 0 .. MaxRepeats /\ MaxRepeats \in Nat /\ Policy \in {"ALLOW", "PROMPT", "DENY"}
  BY <1>1, ProcessAssumption DEF ProcessTypeOK, ProcessAssumption
<1>4. decision \in {"ALLOW", "PROMPT", "DENY", "throws"}
  BY <1>3 DEF AuthorizeOrRequest
<1>5. Inserted(c, decision) \in LedgerToolCallRow
  BY <1>3 DEF Inserted, LedgerToolCallRow
<1>6. /\ begins => tool[c] \in {"NONE", "APPROVED", "RUNNING"}
      /\ begins => decision = "ALLOW"
  BY DEF Inserted, BeginAllowedToolCall
<1>7. /\ decision = "ALLOW" => request[c] # "PENDING"
      /\ decision = "ALLOW" => tool[c] \in {"RUNNING", "COMPLETED"} \/ grant \/ Policy = "ALLOW"
      /\ decision = "PROMPT" => request[c] = "PENDING" \/ (request[c] = "NONE" /\ ~grant /\ Policy = "PROMPT")
      /\ tool[c] # "NONE" => Inserted(c, decision) = tool[c]
      /\ tool[c] = "NONE" => Inserted(c, decision) = CASE decision = "PROMPT" -> "PENDING_APPROVAL"
                                    [] decision = "DENY" -> "DENIED" [] OTHER -> "APPROVED"
      /\ decision = "throws" => request[c] # "NONE"
      /\ decision = "DENY" => Policy = "DENY"
  BY <1>3 DEF AuthorizeOrRequest, Inserted
<1>8. begins \in BOOLEAN
  OBVIOUS
<1> HIDE DEF decision, begins
<1>9. ProcessTypeOK'
  <2>1. tool' \in [ProcessCall -> LedgerToolCallRow]
    BY <1>2, <1>3, <1>5 DEF LedgerToolCallRow
  <2>2. request' \in [ProcessCall -> LedgerApprovalRequestRow]
    BY <1>2, <1>3 DEF LedgerApprovalRequestRow
  <2>3. at' \in [ProcessCall -> {"idle", "approved", "select", "prepare", "exec", "run", "close", "settle", "answer"}]
    BY <1>2, <1>3
  <2>4. repeated' \in 0 .. MaxRepeats
    BY <1>2, <1>3
  <2> QED
    BY <1>1, <1>2, <2>1, <2>2, <2>3, <2>4 DEF ProcessTypeOK
<1>10. /\ tool'[c] = IF begins THEN "RUNNING" ELSE Inserted(c, decision)
       /\ request'[c] = IF decision = "PROMPT" THEN "PENDING" ELSE request[c]
       /\ at'[c] = IF begins THEN "select" ELSE "idle"
  BY <1>2, <1>3
<1>11. CallAllowed(c)'
  <2>1. CASE begins
    <3>1. decision = "ALLOW" /\ tool'[c] = "RUNNING" /\ request'[c] = request[c] /\ grant' = grant
      BY <1>2, <1>6, <1>10, <2>1
    <3>2. request[c] \notin {"PENDING", "DENIED", "CANCELLED", "EXPIRED"} \cup Allowing
      BY <1>1, <1>6, <1>7, <2>1, <3>1 DEF CallAllowed
    <3>3. request[c] = "CONSUMED" \/ request[c] = "NONE"
      BY <1>3, <3>2 DEF LedgerApprovalRequestRow, Allowing
    <3>4. request[c] = "NONE" => grant \/ Policy = "ALLOW"
      BY <1>1, <1>7, <3>1, <3>3 DEF CallAllowed, Started
    <3> QED
      BY <3>1, <3>3, <3>4 DEF CallAllowed, Allowing, Started
  <2>2. CASE ~begins /\ tool[c] # "NONE"
    <3>1. tool'[c] = tool[c] /\ grant' = grant
      BY <1>2, <1>7, <1>10, <2>2
    <3>2. CASE decision = "PROMPT"
      <4>1. request'[c] = "PENDING" /\ request[c] = "PENDING"
        BY <1>1, <1>7, <1>10, <2>2, <3>2 DEF CallAllowed
      <4> QED
        BY <1>1, <3>1, <4>1 DEF CallAllowed
    <3>3. CASE decision # "PROMPT"
      <4>1. request'[c] = request[c]
        BY <1>10, <3>3
      <4> QED
        BY <1>1, <3>1, <4>1 DEF CallAllowed
    <3> QED
      BY <3>2, <3>3
  <2>3. CASE ~begins /\ tool[c] = "NONE"
    <3>1. request[c] = "NONE" /\ grant' = grant
      BY <1>1, <1>2, <1>3, <2>3 DEF CallAllowed, Allowing, Started, LedgerApprovalRequestRow
    <3>2. CASE decision = "PROMPT"
      <4>1. request'[c] = "PENDING" /\ tool'[c] = "PENDING_APPROVAL"
        BY <1>7, <1>10, <2>3, <3>2
      <4> QED
        BY <4>1 DEF CallAllowed, Allowing, Started
    <3>3. CASE decision = "DENY"
      <4>1. request'[c] = "NONE" /\ tool'[c] = "DENIED" /\ Policy # "PROMPT"
        BY <1>7, <1>10, <2>3, <3>1, <3>3
      <4> QED
        BY <4>1 DEF CallAllowed, Allowing, Started
    <3>4. CASE decision = "ALLOW"
      <4>1. request'[c] = "NONE" /\ tool'[c] = "APPROVED" /\ (Policy = "PROMPT" => grant)
        BY <1>7, <1>10, <2>3, <3>1, <3>4
      <4> QED
        BY <3>1, <4>1 DEF CallAllowed, Allowing, Started
    <3> QED
      BY <1>4, <1>7, <3>1, <3>2, <3>3, <3>4
  <2> QED
    BY <1>8, <2>1, <2>2, <2>3
<1>12. CallPlaced(c)'
  <2>1. tool[c] \in Started => tool'[c] = tool[c]
    BY <1>6, <1>7, <1>10 DEF Started
  <2>2. record[c].status \notin Active
    BY <1>1 DEF CallPlaced, Working
  <2>3. c \notin Background /\ tool'[c] = "COMPLETED" => tool[c] = "COMPLETED"
    BY <1>7, <1>10
  <2> QED
    BY <1>1, <1>2, <1>8, <1>10, <2>1, <2>2, <2>3 DEF CallPlaced, Started
<1>13. CallDown(c)'
  BY <1>1, <1>2, <1>8, <1>10 DEF CallDown
<1>14. \A d \in ProcessCall \ {c} : CallStays(d)
  BY <1>2, <1>3 DEF CallStays
<1> QED
  BY <1>9, <1>11, <1>12, <1>13, <1>14, OneCall

\* Refusals and resolutions of an approval.
LEMMA ApprovalKeeps ==
    ASSUME ProcInv, NEW c \in ProcessCall, Refusal(c) \/ ResolveApproval(c) \/ ConsumeApproval(c)
    PROVE  ProcInv'
<1>1. ProcessTypeOK /\ CallAllowed(c) /\ CallPlaced(c) /\ CallDown(c)
  BY DEF ProcInv
<1>2. TypeParts
  BY <1>1 DEF ProcessTypeOK, TypeParts
<1>3. CASE Refusal(c)
  <2>1. PICK s \in {"DENIED", "CANCELLED", "EXPIRED"} :
             /\ request' = [request EXCEPT ![c] = s]
             /\ tool' = [tool EXCEPT ![c] = IF s = "DENIED" THEN "DENIED" ELSE "CANCELLED"]
    BY <1>3 DEF Refusal, Refused, UpdateToolCall
  <2>2. request[c] = "PENDING" /\ UNCHANGED <<grant, record, at, handle, execOutcome, command, container, manager, repeated, downed>>
    BY <1>3 DEF Refusal, memory, system, processBudget
  <2>3. ProcessTypeOK'
    BY <1>1, <2>1, <2>2 DEF ProcessTypeOK, LedgerToolCallRow, LedgerApprovalRequestRow
  <2>4. request'[c] = s /\ tool'[c] = IF s = "DENIED" THEN "DENIED" ELSE "CANCELLED"
    BY <1>2, <2>1 DEF TypeParts
  <2>5. CallAllowed(c)'
    BY <1>1, <2>2, <2>4 DEF CallAllowed, Allowing, Started
  <2>6. CallPlaced(c)'
    BY <1>1, <2>2, <2>4 DEF CallPlaced, CallAllowed, Allowing, Started
  <2>7. CallDown(c)'
    BY <1>1, <2>2 DEF CallDown
  <2>8. \A d \in ProcessCall \ {c} : CallStays(d)
    BY <1>2, <2>1, <2>2 DEF CallStays, TypeParts
  <2> QED
    BY <2>3, <2>5, <2>6, <2>7, <2>8, OneCall
<1>4. CASE ResolveApproval(c)
  <2>1. PICK decision \in Allowing :
             /\ request[c] \in {"PENDING", decision}
             /\ request' = [request EXCEPT ![c] = decision]
             /\ tool' = [tool EXCEPT ![c] = "APPROVED"]
             /\ grant' = (grant \/ decision = "allow_for_conversation")
    BY <1>4 DEF ResolveApproval, UpdateToolCall
  <2>2. /\ at' = [at EXCEPT ![c] = "approved"] /\ request[c] \in {"PENDING"} \cup Allowing
        /\ UNCHANGED <<record, handle, execOutcome, command, container, manager, repeated, downed>>
    BY <1>4 DEF ResolveApproval, Await, system, processBudget
  <2>3. ProcessTypeOK'
    <3>1. grant' \in BOOLEAN
      BY <2>1, Zenon
    <3> QED
      BY <1>1, <2>1, <2>2, <3>1 DEF ProcessTypeOK, LedgerToolCallRow, LedgerApprovalRequestRow, Allowing
  <2>4. request'[c] = decision /\ tool'[c] = "APPROVED" /\ at'[c] = "approved" /\ (grant => grant')
    BY <1>2, <2>1, <2>2 DEF TypeParts
  <2>5. CallAllowed(c)'
    BY <1>1, <2>4, <2>1 DEF CallAllowed, Allowing, Started
  <2>6. CallPlaced(c)'
    BY <1>1, <2>2, <2>4, <2>1 DEF CallPlaced, CallAllowed, Allowing, Started, Working
  <2>7. CallDown(c)'
    BY <1>1, <2>2, <2>4 DEF CallDown
  <2>8. \A d \in ProcessCall \ {c} : CallStays(d)
    BY <1>2, <2>1, <2>2 DEF CallStays, TypeParts
  <2> QED
    BY <2>3, <2>5, <2>6, <2>7, <2>8, OneCall
<1>5. CASE ConsumeApproval(c)
  <2>1. /\ at[c] = "approved" /\ request' = [request EXCEPT ![c] = "CONSUMED"]
        /\ tool' = [tool EXCEPT ![c] = "RUNNING"] /\ at' = [at EXCEPT ![c] = "select"]
        /\ UNCHANGED <<grant, record, handle, execOutcome, command, container, manager, repeated, downed>>
    BY <1>5 DEF ConsumeApproval, UpdateToolCall, Await, system, processBudget
  <2>2. ProcessTypeOK'
    BY <1>1, <2>1 DEF ProcessTypeOK, LedgerToolCallRow, LedgerApprovalRequestRow
  <2>3. request'[c] = "CONSUMED" /\ tool'[c] = "RUNNING" /\ at'[c] = "select"
    BY <1>2, <2>1 DEF TypeParts
  <2>4. CallAllowed(c)'
    BY <1>1, <2>1, <2>3 DEF CallAllowed, Allowing, Started
  <2>5. CallPlaced(c)'
    BY <1>1, <2>1, <2>3 DEF CallPlaced, CallAllowed, Allowing, Started, Working
  <2>6. CallDown(c)'
    BY <1>1, <2>1, <2>3 DEF CallDown
  <2>7. \A d \in ProcessCall \ {c} : CallStays(d)
    BY <1>2, <2>1 DEF CallStays, TypeParts
  <2> QED
    BY <2>2, <2>4, <2>5, <2>6, <2>7, OneCall
<1> QED
  BY <1>3, <1>4, <1>5

Place == {"idle", "approved", "select", "prepare", "exec", "run", "close", "settle", "answer"}

\* What an execution may write for its call: the Tool call t, the record r, the
\* place p, the outcome o and the command k go together.
Fits(c, t, r, p, o, k) ==
    /\ t = tool[c] \/ (tool[c] \in Started /\ t \in Started)
    /\ p # "approved" \/ (p = at[c] /\ t = tool[c])
    /\ p \in {"select", "prepare", "exec"} => t = "RUNNING"
    /\ p \in {"run", "close", "settle", "answer"} => t = IF c \in Background THEN "COMPLETED" ELSE "RUNNING"
    /\ p = "answer" => c \notin Background
    /\ r.status = "NONE" => p \in {"idle", "approved", "select"} /\ k = "none"
    /\ r.status # "NONE" => t \in Started
    /\ c \notin Background /\ t = "COMPLETED" => r.status = "EXITED"
    /\ manager # "DOWN" /\ r.status \in Active => p \in Working
    /\ p \in {"prepare", "exec"} => k = "none"
    /\ p = "exec" => r.backend = "HOST"
    /\ p = "close" /\ r.backend = "HOST" => k # "up"
    /\ p = "settle" => k # "up" \/ o.unclean
    /\ r.status \in {"EXITED", "FAILED_TO_START"} => k # "up"

\* That this is all the step writes.
Writes(c, t, r, p, o, k) ==
    /\ t \in LedgerToolCallRow /\ r \in LedgerProcessRecordRow /\ p \in Place
    /\ o \in BackendExecResult /\ k \in {"none", "up", "down"}
    /\ tool' = [tool EXCEPT ![c] = t] /\ record' = [record EXCEPT ![c] = r] /\ at' = [at EXCEPT ![c] = p]
    /\ execOutcome' = [execOutcome EXCEPT ![c] = o] /\ command' = [command EXCEPT ![c] = k]
    /\ handle' \in [ProcessCall -> ExecutionBackendHandle] /\ container' \in [ProcessCall -> BOOLEAN]
    /\ UNCHANGED <<request, grant, manager, processBudget>>

\* A step that writes what fits keeps the invariant.
LEMMA ExecutionKeeps ==
    ASSUME ProcInv, NEW c \in ProcessCall, NEW t, NEW r, NEW p, NEW o, NEW k,
           Fits(c, t, r, p, o, k), Writes(c, t, r, p, o, k)
    PROVE  ProcInv'
<1> USE DEF Writes
<1>1. ProcessTypeOK /\ CallAllowed(c) /\ CallPlaced(c) /\ CallDown(c)
  BY DEF ProcInv
<1>2. TypeParts /\ container \in [ProcessCall -> BOOLEAN]
  BY <1>1 DEF ProcessTypeOK, TypeParts
<1>3. ProcessTypeOK'
  <2>1. tool' \in [ProcessCall -> LedgerToolCallRow] /\ record' \in [ProcessCall -> LedgerProcessRecordRow]
    BY <1>2 DEF TypeParts
  <2>2. handle' \in [ProcessCall -> ExecutionBackendHandle] /\ execOutcome' \in [ProcessCall -> BackendExecResult]
    BY <1>2 DEF TypeParts
  <2>3. at' \in [ProcessCall -> Place] /\ command' \in [ProcessCall -> {"none", "up", "down"}] /\ container' \in [ProcessCall -> BOOLEAN]
    BY <1>2 DEF TypeParts, Place
  <2> QED
    BY <1>1, <2>1, <2>2, <2>3 DEF ProcessTypeOK, Place, processBudget
<1>4. /\ tool'[c] = t /\ record'[c] = r /\ at'[c] = p /\ execOutcome'[c] = o /\ command'[c] = k
      /\ request'[c] = request[c] /\ grant' = grant /\ manager' = manager
  BY <1>2 DEF TypeParts
<1>5. \A d \in ProcessCall \ {c} : CallStays(d)
  BY <1>2 DEF CallStays, TypeParts
<1>6. CallAllowed(c)'
  <2>1. CASE t = tool[c]
    BY <1>1, <1>4, <2>1 DEF CallAllowed
  <2>2. CASE tool[c] \in Started /\ t \in Started
    BY <1>1, <1>4, <2>2 DEF CallAllowed, Started, Allowing
  <2> QED
    BY <2>1, <2>2 DEF Fits
<1>7. CallPlaced(c)'
  BY <1>1, <1>4 DEF CallPlaced, Fits
<1>8. CallDown(c)'
  BY <1>1, <1>4 DEF CallDown, Fits
<1> QED
  BY <1>3, <1>5, <1>6, <1>7, <1>8, OneCall

\* The rows of one call, typed, and its part of the invariant.
LEMMA CallFacts ==
    ASSUME ProcInv, NEW c \in ProcessCall
    PROVE  /\ TypeParts /\ container \in [ProcessCall -> BOOLEAN]
           /\ CallAllowed(c) /\ CallPlaced(c) /\ CallDown(c)
           /\ tool[c] \in LedgerToolCallRow /\ record[c] \in LedgerProcessRecordRow /\ at[c] \in Place
           /\ handle[c] \in ExecutionBackendHandle /\ execOutcome[c] \in BackendExecResult
           /\ command[c] \in {"none", "up", "down"} /\ container[c] \in BOOLEAN
           /\ tool = [tool EXCEPT ![c] = tool[c]] /\ record = [record EXCEPT ![c] = record[c]]
           /\ at = [at EXCEPT ![c] = at[c]] /\ handle = [handle EXCEPT ![c] = handle[c]]
           /\ execOutcome = [execOutcome EXCEPT ![c] = execOutcome[c]]
           /\ command = [command EXCEPT ![c] = command[c]] /\ container = [container EXCEPT ![c] = container[c]]
<1>1. ProcessTypeOK /\ CallAllowed(c) /\ CallPlaced(c) /\ CallDown(c)
  BY DEF ProcInv
<1>2. TypeParts /\ container \in [ProcessCall -> BOOLEAN]
  BY <1>1 DEF ProcessTypeOK, TypeParts
<1> QED
  BY <1>1, <1>2 DEF TypeParts, Place

Row(c, s) == [record[c] EXCEPT !.status = s]

\* The row of a record with another status.
LEMMA RowFacts ==
    ASSUME NEW c \in ProcessCall, record \in [ProcessCall -> LedgerProcessRecordRow],
           NEW s \in {"NONE", "STARTING", "RUNNING", "EXITED", "FAILED_TO_START", "CANCELLED", "ORPHANED"}
    PROVE  /\ Row(c, s) \in LedgerProcessRecordRow
           /\ Row(c, s).status = s /\ Row(c, s).backend = record[c].backend
           /\ [record EXCEPT ![c].status = s] = [record EXCEPT ![c] = Row(c, s)]
  BY DEF Row, LedgerProcessRecordRow

\* Until its command starts: selection of a backend, preparation, binding.
LEMMA PreparationKeeps ==
    ASSUME ProcInv, NEW c \in ProcessCall, SelectFails(c) \/ Selected(c) \/ Bound(c) \/ PrepareFails(c)
    PROVE  ProcInv'
<1>1. /\ TypeParts /\ CallAllowed(c) /\ CallPlaced(c) /\ CallDown(c)
      /\ tool[c] \in LedgerToolCallRow /\ record[c] \in LedgerProcessRecordRow
  BY CallFacts
<1>2. CASE SelectFails(c)
  <2>1. at[c] = "select" /\ manager # "DOWN" /\ tool' = [tool EXCEPT ![c] = "FAILED"] /\ at' = [at EXCEPT ![c] = "idle"]
        /\ UNCHANGED <<request, grant, record, handle, execOutcome, command, container, manager, processBudget>>
    BY <1>2 DEF SelectFails, UpdateToolCall, Await, system
  <2>2. Fits(c, "FAILED", record[c], "idle", execOutcome[c], command[c])
    BY <1>1, <2>1 DEF Fits, CallPlaced, CallDown, Started, Working
  <2>3. "FAILED" \in LedgerToolCallRow /\ "idle" \in Place
    BY DEF LedgerToolCallRow, Place
  <2>w. Writes(c, "FAILED", record[c], "idle", execOutcome[c], command[c])
    BY <2>1, <2>3, CallFacts DEF Writes, TypeParts
  <2> QED
    BY <2>2, <2>w, ExecutionKeeps
<1>3. CASE Selected(c)
  <2>1. /\ at[c] = "select" /\ manager # "DOWN"
        /\ UNCHANGED <<tool, request, grant, handle, execOutcome, command, container, manager, processBudget>>
    BY <1>3 DEF Selected, system
  <2>2. PICK b \in {"HOST", "DOCKER"} : InsertProcess(c, b)
    BY <1>3 DEF Selected, SelectExecutionBackend
  <2>3. CASE at' = [at EXCEPT ![c] = "idle"] /\ UNCHANGED record
    <3>1. Fits(c, tool[c], record[c], "idle", execOutcome[c], command[c])
      BY <1>1, <2>1 DEF Fits, CallPlaced, CallDown, Started, Working
    <3>2. "idle" \in Place
      BY DEF Place
    <3>w. Writes(c, tool[c], record[c], "idle", execOutcome[c], command[c])
      BY <2>1, <2>3, <3>2, CallFacts DEF Writes, TypeParts
    <3> QED
      BY <3>1, <3>w, ExecutionKeeps
  <2>4. CASE /\ record[c].status = "NONE" /\ at' = [at EXCEPT ![c] = "prepare"]
             /\ record' = [record EXCEPT ![c] = [status |-> "STARTING", backend |-> b]]
    <3>1. Fits(c, tool[c], [status |-> "STARTING", backend |-> b], "prepare", execOutcome[c], command[c])
      BY <1>1, <2>1, <2>4 DEF Fits, CallPlaced, CallDown, Started, Working
    <3>2. "prepare" \in Place /\ [status |-> "STARTING", backend |-> b] \in LedgerProcessRecordRow
      BY DEF Place, LedgerProcessRecordRow
    <3>w. Writes(c, tool[c], [status |-> "STARTING", backend |-> b], "prepare", execOutcome[c], command[c])
      BY <2>1, <2>4, <3>2, CallFacts DEF Writes, TypeParts
    <3> QED
      BY <3>1, <3>w, ExecutionKeeps
  <2> QED
    BY <2>2, <2>3, <2>4 DEF InsertProcess, Await
<1>4. CASE Bound(c)
  <2> DEFINE h == [NoHandle EXCEPT !.known = TRUE, !.awaited = manager = "OPEN"]
             t == IF c \in Background THEN "COMPLETED" ELSE tool[c]
  <2>1. /\ at[c] = "prepare" /\ manager # "DOWN" /\ record[c].status = "STARTING" /\ handle' = [handle EXCEPT ![c] = h]
        /\ UNCHANGED <<request, grant, execOutcome, manager, processBudget>>
    BY <1>4 DEF Bound
  <2>2. h \in ExecutionBackendHandle
    BY DEF NoHandle, ExecutionBackendHandle
  <2>3. t \in LedgerToolCallRow /\ {"run", "exec"} \subseteq Place /\ tool[c] = "RUNNING" /\ command[c] = "none"
    BY <1>1, <2>1 DEF LedgerToolCallRow, Place, CallPlaced, CallDown
  <2>4. CASE record[c].backend = "DOCKER"
    <3>1. /\ container' = [container EXCEPT ![c] = TRUE] /\ command' = [command EXCEPT ![c] = "up"]
          /\ at' = [at EXCEPT ![c] = "run"] /\ tool' = [tool EXCEPT ![c] = t]
          /\ record' = [record EXCEPT ![c].status = "RUNNING"]
      BY <1>4, <2>4 DEF Bound, MarkStarted, UpdateProcess, UpdateToolCall, StartCommand, Await
    <3>2. Row(c, "RUNNING") \in LedgerProcessRecordRow /\ record' = [record EXCEPT ![c] = Row(c, "RUNNING")]
          /\ Row(c, "RUNNING").status = "RUNNING" /\ Row(c, "RUNNING").backend = record[c].backend
      BY <1>1, <3>1, RowFacts DEF TypeParts
    <3>3. Fits(c, t, Row(c, "RUNNING"), "run", execOutcome[c], "up")
      BY <1>1, <2>1, <2>3, <3>2 DEF Fits, Started, Working
    <3> HIDE DEF h, t
    <3>w. Writes(c, t, Row(c, "RUNNING"), "run", execOutcome[c], "up")
      BY <2>1, <2>2, <2>3, <3>1, <3>2, CallFacts DEF Writes, TypeParts
    <3> QED
      BY <3>3, <3>w, ExecutionKeeps
  <2>5. CASE record[c].backend # "DOCKER"
    <3>1. at' = [at EXCEPT ![c] = "exec"] /\ UNCHANGED <<tool, record, command, container>>
      BY <1>4, <2>5 DEF Bound, Await
    <3>2. record[c].backend = "HOST"
      BY <1>1, <2>5 DEF LedgerProcessRecordRow
    <3>3. Fits(c, tool[c], record[c], "exec", execOutcome[c], command[c])
      BY <1>1, <2>1, <2>3, <3>2 DEF Fits, Started, Working
    <3> HIDE DEF h, t
    <3>w. Writes(c, tool[c], record[c], "exec", execOutcome[c], command[c])
      BY <2>1, <2>2, <2>3, <3>1, CallFacts DEF Writes, TypeParts
    <3> QED
      BY <3>3, <3>w, ExecutionKeeps
  <2> QED
    BY <2>4, <2>5
<1>5. CASE PrepareFails(c)
  <2>1. /\ at[c] = "prepare" /\ manager # "DOWN" /\ tool' = [tool EXCEPT ![c] = "FAILED"] /\ at' = [at EXCEPT ![c] = "idle"]
        /\ UNCHANGED <<request, grant, handle, execOutcome, command, manager, processBudget>>
    BY <1>5 DEF PrepareFails, UpdateToolCall, Await
  <2>2. PICK left \in BOOLEAN, unclean \in BOOLEAN :
            /\ container' = [container EXCEPT ![c] = left]
            /\ record' = [record EXCEPT ![c].status = IF unclean THEN "ORPHANED" ELSE "FAILED_TO_START"]
    BY <1>5 DEF PrepareFails, UpdateProcess
  <2> DEFINE s == IF unclean THEN "ORPHANED" ELSE "FAILED_TO_START"
  <2>3. s \in {"ORPHANED", "FAILED_TO_START"}
    OBVIOUS
  <2> HIDE DEF s
  <2>4. Row(c, s) \in LedgerProcessRecordRow /\ record' = [record EXCEPT ![c] = Row(c, s)]
        /\ Row(c, s).status = s /\ Row(c, s).backend = record[c].backend
    BY <1>1, <2>2, <2>3, RowFacts DEF TypeParts, s
  <2>5. tool[c] = "RUNNING" /\ command[c] = "none" /\ "FAILED" \in LedgerToolCallRow /\ "idle" \in Place
    BY <1>1, <2>1 DEF CallPlaced, CallDown, LedgerToolCallRow, Place
  <2>6. Fits(c, "FAILED", Row(c, s), "idle", execOutcome[c], command[c])
    BY <1>1, <2>3, <2>4, <2>5 DEF Fits, Started, Working, Active
  <2>w. Writes(c, "FAILED", Row(c, s), "idle", execOutcome[c], command[c])
    BY <2>1, <2>2, <2>4, <2>5, CallFacts DEF Writes, TypeParts
  <2> QED
    BY <2>6, <2>w, ExecutionKeeps
<1> QED
  BY <1>2, <1>3, <1>4, <1>5

\* On the host and in a container, until exec returns.
LEMMA CommandKeeps ==
    ASSUME ProcInv, NEW c \in ProcessCall,
           HostExec(c) \/ HostExecFails(c) \/ CommandEnds(c) \/ HostTimeout(c) \/ ExecReturns(c)
    PROVE  ProcInv'
<1>1. /\ TypeParts /\ CallAllowed(c) /\ CallPlaced(c) /\ CallDown(c)
      /\ tool[c] \in LedgerToolCallRow /\ record[c] \in LedgerProcessRecordRow
      /\ handle[c] \in ExecutionBackendHandle /\ execOutcome[c] \in BackendExecResult
  BY CallFacts
<1> DEFINE t == IF c \in Background THEN "COMPLETED" ELSE tool[c]
           threw == [execOutcome[c] EXCEPT !.threw = TRUE]
<1>2. t \in LedgerToolCallRow /\ {"run", "close", "idle"} \subseteq Place
  BY <1>1 DEF LedgerToolCallRow, Place
<1>3. /\ threw \in BackendExecResult /\ threw.unclean = execOutcome[c].unclean
      /\ [execOutcome EXCEPT ![c].threw = TRUE] = [execOutcome EXCEPT ![c] = threw]
  BY <1>1 DEF BackendExecResult, TypeParts
<1> HIDE DEF threw
<1>4. CASE HostExec(c)
  <2>1. /\ at[c] = "exec" /\ manager # "DOWN" /\ handle' = [handle EXCEPT ![c].cancelled = FALSE]
        /\ tool' = [tool EXCEPT ![c] = t] /\ record' = [record EXCEPT ![c].status = "RUNNING"]
        /\ UNCHANGED <<request, grant, container, manager, processBudget>>
    BY <1>4 DEF HostExec, MarkStarted, UpdateProcess, UpdateToolCall
  <2>2. Row(c, "RUNNING") \in LedgerProcessRecordRow /\ record' = [record EXCEPT ![c] = Row(c, "RUNNING")]
        /\ Row(c, "RUNNING").status = "RUNNING" /\ Row(c, "RUNNING").backend = record[c].backend
    BY <1>1, <2>1, RowFacts DEF TypeParts
  <2>3. handle' \in [ProcessCall -> ExecutionBackendHandle]
    BY <1>1, <2>1 DEF TypeParts, ExecutionBackendHandle
  <2>4. tool[c] = "RUNNING" /\ command[c] = "none" /\ record[c].backend = "HOST"
    BY <1>1, <2>1 DEF CallPlaced, CallDown
  <2>5. CASE command' = [command EXCEPT ![c] = "up"] /\ at' = [at EXCEPT ![c] = "run"] /\ UNCHANGED execOutcome
    <3>1. Fits(c, t, Row(c, "RUNNING"), "run", execOutcome[c], "up")
      BY <2>2, <2>4 DEF Fits, Started, Working
    <3>2. Writes(c, t, Row(c, "RUNNING"), "run", execOutcome[c], "up")
      BY <1>2, <2>1, <2>2, <2>3, <2>5, CallFacts DEF Writes, TypeParts
    <3> QED
      BY <3>1, <3>2, ExecutionKeeps
  <2>6. CASE execOutcome' = [execOutcome EXCEPT ![c].threw = TRUE] /\ at' = [at EXCEPT ![c] = "close"] /\ UNCHANGED command
    <3>1. Fits(c, t, Row(c, "RUNNING"), "close", threw, command[c])
      BY <2>2, <2>4 DEF Fits, Started, Working
    <3>2. Writes(c, t, Row(c, "RUNNING"), "close", threw, command[c])
      BY <1>2, <1>3, <2>1, <2>2, <2>3, <2>6, CallFacts DEF Writes, TypeParts
    <3> QED
      BY <3>1, <3>2, ExecutionKeeps
  <2> QED
    BY <1>4, <2>5, <2>6 DEF HostExec, StartCommand, Await
<1>5. CASE HostExecFails(c)
  <2>1. /\ at[c] = "exec" /\ manager # "DOWN" /\ tool' = [tool EXCEPT ![c] = t] /\ at' = [at EXCEPT ![c] = "close"]
        /\ execOutcome' = [execOutcome EXCEPT ![c].threw = TRUE]
        /\ UNCHANGED <<request, grant, record, handle, command, container, manager, processBudget>>
    BY <1>5 DEF HostExecFails, UpdateToolCall, Await, system
  <2>2. tool[c] = "RUNNING" /\ command[c] = "none" /\ record[c].backend = "HOST"
    BY <1>1, <2>1 DEF CallPlaced, CallDown
  <2>3. record[c].status # "NONE"
    BY <1>1, <2>1 DEF CallPlaced
  <2>4. Fits(c, t, record[c], "close", threw, command[c])
    BY <1>1, <2>2, <2>3 DEF Fits, Started, Working
  <2>5. Writes(c, t, record[c], "close", threw, command[c])
    BY <1>2, <1>3, <2>1, CallFacts DEF Writes, TypeParts
  <2> QED
    BY <2>4, <2>5, ExecutionKeeps
<1>6. CASE CommandEnds(c)
  <2>1. /\ command[c] = "up" /\ command' = [command EXCEPT ![c] = "down"]
        /\ UNCHANGED <<tool, request, grant, record, at, handle, execOutcome, container, manager, processBudget>>
    BY <1>6 DEF CommandEnds, rows, memory
  <2>2. Fits(c, tool[c], record[c], at[c], execOutcome[c], "down")
    BY <1>1, <2>1 DEF Fits, CallPlaced, CallDown
  <2>3. Writes(c, tool[c], record[c], at[c], execOutcome[c], "down")
    BY <2>1, CallFacts DEF Writes, TypeParts
  <2> QED
    BY <2>2, <2>3, ExecutionKeeps
<1>7. CASE HostTimeout(c)
  <2>1. /\ handle' = [handle EXCEPT ![c].timedOut = TRUE]
        /\ UNCHANGED <<tool, request, grant, record, at, execOutcome, command, container, manager, processBudget>>
    BY <1>7 DEF HostTimeout, rows, system
  <2>2. handle' \in [ProcessCall -> ExecutionBackendHandle]
    BY <1>1, <2>1 DEF TypeParts, ExecutionBackendHandle
  <2>3. Fits(c, tool[c], record[c], at[c], execOutcome[c], command[c])
    BY <1>1 DEF Fits, CallPlaced, CallDown
  <2>4. Writes(c, tool[c], record[c], at[c], execOutcome[c], command[c])
    BY <2>1, <2>2, CallFacts DEF Writes, TypeParts
  <2> QED
    BY <2>3, <2>4, ExecutionKeeps
<1>8. CASE ExecReturns(c)
  <2>1. /\ at[c] = "run" /\ manager # "DOWN" /\ at' = [at EXCEPT ![c] = "close"]
        /\ UNCHANGED <<tool, request, grant, record, command, container, manager, processBudget>>
    BY <1>8 DEF ExecReturns, Await, rows, system
  <2>2. PICK o \in BackendExecResult :
             /\ execOutcome' = [execOutcome EXCEPT ![c] = o]
             /\ handle' \in [ProcessCall -> ExecutionBackendHandle]
             /\ command[c] = "down" \/ record[c].backend = "DOCKER"
    <3>1. CASE /\ command[c] = "down" /\ UNCHANGED handle
               /\ \E zero \in BOOLEAN : execOutcome' = [execOutcome EXCEPT ![c].zero = zero /\ ~handle[c].timedOut]
      <4>1. PICK zero \in BOOLEAN : execOutcome' = [execOutcome EXCEPT ![c].zero = zero /\ ~handle[c].timedOut]
        BY <3>1
      <4>2. (zero /\ ~handle[c].timedOut) \in BOOLEAN
        OBVIOUS
      <4>3. [execOutcome[c] EXCEPT !.zero = zero /\ ~handle[c].timedOut] \in BackendExecResult
        BY <1>1, <4>2 DEF BackendExecResult
      <4>4. execOutcome' = [execOutcome EXCEPT ![c] = [execOutcome[c] EXCEPT !.zero = zero /\ ~handle[c].timedOut]]
        BY <1>1, <4>1 DEF TypeParts, BackendExecResult
      <4> QED
        BY <1>1, <3>1, <4>3, <4>4 DEF TypeParts
    <3>2. CASE record[c].backend = "DOCKER" /\ handle' = [handle EXCEPT ![c].timedOut = TRUE] /\ UNCHANGED execOutcome
      <4>1. handle' \in [ProcessCall -> ExecutionBackendHandle]
        BY <1>1, <3>2 DEF TypeParts, ExecutionBackendHandle
      <4>2. execOutcome' = [execOutcome EXCEPT ![c] = execOutcome[c]]
        BY <3>2, CallFacts
      <4> QED
        BY <1>1, <3>2, <4>1, <4>2
    <3>3. CASE record[c].backend = "DOCKER" /\ execOutcome' = [execOutcome EXCEPT ![c].threw = TRUE] /\ UNCHANGED handle
      BY <1>1, <1>3, <3>3 DEF TypeParts
    <3> QED
      BY <1>8, <3>1, <3>2, <3>3 DEF ExecReturns
  <2>3. Fits(c, tool[c], record[c], "close", o, command[c])
    BY <1>1, <2>1, <2>2 DEF Fits, CallPlaced, CallDown, Working
  <2>4. Writes(c, tool[c], record[c], "close", o, command[c])
    BY <1>2, <2>1, <2>2, CallFacts DEF Writes, TypeParts
  <2> QED
    BY <2>3, <2>4, ExecutionKeeps
<1> QED
  BY <1>4, <1>5, <1>6, <1>7, <1>8

\* The end of an execution: close, settle and the answer; and a cancellation.
LEMMA SettlementKeeps ==
    ASSUME ProcInv, NEW c \in ProcessCall,
           HandleCloses(c) \/ RecordEnd(c) \/ CompleteToolCall(c) \/ CancelProcess(c)
    PROVE  ProcInv'
<1>1. /\ TypeParts /\ CallAllowed(c) /\ CallPlaced(c) /\ CallDown(c)
      /\ tool[c] \in LedgerToolCallRow /\ record[c] \in LedgerProcessRecordRow
      /\ handle[c] \in ExecutionBackendHandle /\ execOutcome[c] \in BackendExecResult
      /\ command[c] \in {"none", "up", "down"}
  BY CallFacts
<1>2. {"settle", "answer", "idle"} \subseteq Place /\ {"COMPLETED", "FAILED"} \subseteq LedgerToolCallRow
      /\ NoHandle \in ExecutionBackendHandle /\ NoOutcome \in BackendExecResult
  BY DEF LedgerToolCallRow, Place, NoHandle, NoOutcome, ExecutionBackendHandle, BackendExecResult
<1>3. CASE HandleCloses(c)
  <2>1. /\ at[c] = "close" /\ manager # "DOWN" /\ at' = [at EXCEPT ![c] = "settle"]
        /\ handle' = [handle EXCEPT ![c].known = FALSE]
        /\ UNCHANGED <<tool, request, grant, record, manager, processBudget>>
    BY <1>3 DEF HandleCloses, Await, rows
  <2>2. PICK left \in BOOLEAN, unclean \in BOOLEAN :
          /\ left => unclean
          /\ unclean => record[c].backend = "DOCKER"
          /\ container' = [container EXCEPT ![c] = left]
          /\ command' = [command EXCEPT ![c] = IF record[c].backend = "DOCKER" /\ ~left /\ command[c] = "up" THEN "down" ELSE command[c]]
          /\ execOutcome' = [execOutcome EXCEPT ![c].unclean = unclean]
    BY <1>3 DEF HandleCloses
  <2> DEFINE o == [execOutcome[c] EXCEPT !.unclean = unclean]
             k == IF record[c].backend = "DOCKER" /\ ~left /\ command[c] = "up" THEN "down" ELSE command[c]
  <2>3. /\ o \in BackendExecResult /\ o.unclean = unclean
        /\ [execOutcome EXCEPT ![c].unclean = unclean] = [execOutcome EXCEPT ![c] = o]
    BY <1>1 DEF BackendExecResult, TypeParts
  <2>4. handle' \in [ProcessCall -> ExecutionBackendHandle] /\ container' \in [ProcessCall -> BOOLEAN]
    BY <1>1, <2>1, <2>2, CallFacts DEF TypeParts, ExecutionBackendHandle
  <2>5. k \in {"none", "up", "down"} /\ (k = "up" => command[c] = "up") /\ (k # "up" \/ unclean)
        /\ (k = "none" <=> command[c] = "none")
    BY <1>1, <2>1, <2>2 DEF CallDown, LedgerProcessRecordRow
  <2>6. command' = [command EXCEPT ![c] = k]
    BY <2>2
  <2> HIDE DEF o, k
  <2>7. Fits(c, tool[c], record[c], "settle", o, k)
    BY <1>1, <2>1, <2>3, <2>5 DEF Fits, CallPlaced, CallDown, Working
  <2>8. Writes(c, tool[c], record[c], "settle", o, k)
    BY <1>2, <2>1, <2>2, <2>3, <2>4, <2>5, <2>6, CallFacts DEF Writes, TypeParts
  <2> QED
    BY <2>7, <2>8, ExecutionKeeps
<1>4. CASE RecordEnd(c)
  <2> DEFINE s == SettledStatus(record[c].status, execOutcome[c], handle[c])
  <2>1. /\ at[c] = "settle" /\ manager # "DOWN" /\ record' = [record EXCEPT ![c].status = s]
        /\ UNCHANGED <<tool, request, grant, command, container, manager, processBudget>>
    BY <1>4 DEF RecordEnd, UpdateProcess, system
  <2>2. /\ s \in {"EXITED", "FAILED_TO_START", "CANCELLED", "ORPHANED"} \/ (s = record[c].status /\ s \notin Active)
        /\ s # record[c].status => record[c].status \in Active
        /\ s \in {"EXITED", "FAILED_TO_START"} => s = record[c].status \/ ~execOutcome[c].unclean
    <3>1. CASE record[c].status \notin Active
      <4>1. s = record[c].status
        BY <3>1 DEF SettledStatus
      <4> QED
        BY <3>1, <4>1
    <3>2. CASE record[c].status \in Active /\ execOutcome[c].unclean
      <4>1. s = "ORPHANED"
        BY <3>2 DEF SettledStatus
      <4> QED
        BY <3>2, <4>1
    <3>3. CASE record[c].status \in Active /\ ~execOutcome[c].unclean
      <4>1. s \in {"FAILED_TO_START", "CANCELLED", "EXITED"}
        BY <3>3 DEF SettledStatus
      <4> QED
        BY <3>3, <4>1
    <3> QED
      BY <3>1, <3>2, <3>3
  <2>3. s \in {"NONE", "STARTING", "RUNNING", "EXITED", "FAILED_TO_START", "CANCELLED", "ORPHANED"} \ Active
    BY <1>1, <2>2 DEF LedgerProcessRecordRow, Active
  <2> HIDE DEF s
  <2>s. s \in {"NONE", "STARTING", "RUNNING", "EXITED", "FAILED_TO_START", "CANCELLED", "ORPHANED"}
    BY <2>3
  <2>4. Row(c, s) \in LedgerProcessRecordRow /\ record' = [record EXCEPT ![c] = Row(c, s)]
        /\ Row(c, s).status = s /\ Row(c, s).backend = record[c].backend
    <3>1. record \in [ProcessCall -> LedgerProcessRecordRow]
      BY <1>1 DEF TypeParts
    <3>2. /\ Row(c, s) \in LedgerProcessRecordRow /\ [record EXCEPT ![c].status = s] = [record EXCEPT ![c] = Row(c, s)]
          /\ Row(c, s).status = s /\ Row(c, s).backend = record[c].backend
      BY <2>s, <3>1 DEF Row, LedgerProcessRecordRow
    <3> QED
      BY <2>1, <3>2
  <2>5. record[c].status # "NONE" /\ s # "NONE"
    BY <1>1, <2>1, <2>2 DEF CallPlaced, Active
  <2>6. CASE c \in Background
    <3>1. /\ at' = [at EXCEPT ![c] = "idle"] /\ handle' = [handle EXCEPT ![c] = NoHandle]
          /\ execOutcome' = [execOutcome EXCEPT ![c] = NoOutcome]
      BY <1>4, <2>6 DEF RecordEnd, ForgetProcess, Await
    <3>2. Fits(c, tool[c], Row(c, s), "idle", NoOutcome, command[c])
      BY <1>1, <2>1, <2>2, <2>3, <2>4, <2>5, <2>6 DEF Fits, CallPlaced, CallDown, Started, Active
    <3>3. Writes(c, tool[c], Row(c, s), "idle", NoOutcome, command[c])
      BY <1>1, <1>2, <2>1, <2>4, <3>1, CallFacts DEF Writes, TypeParts
    <3> QED
      BY <3>2, <3>3, ExecutionKeeps
  <2>7. CASE c \notin Background
    <3>1. at' = [at EXCEPT ![c] = "answer"] /\ UNCHANGED <<handle, execOutcome>>
      BY <1>4, <2>7 DEF RecordEnd, Await
    <3>2. Fits(c, tool[c], Row(c, s), "answer", execOutcome[c], command[c])
      BY <1>1, <2>1, <2>2, <2>3, <2>4, <2>5, <2>7 DEF Fits, CallPlaced, CallDown, Started, Active
    <3>3. Writes(c, tool[c], Row(c, s), "answer", execOutcome[c], command[c])
      BY <1>1, <1>2, <2>1, <2>4, <3>1, CallFacts DEF Writes, TypeParts
    <3> QED
      BY <3>2, <3>3, ExecutionKeeps
  <2> QED
    BY <2>6, <2>7
<1>5. CASE CompleteToolCall(c)
  <2> DEFINE t == IF SettleIsError(c) THEN "FAILED" ELSE "COMPLETED"
  <2>1. /\ at[c] = "answer" /\ manager # "DOWN" /\ tool' = [tool EXCEPT ![c] = t] /\ at' = [at EXCEPT ![c] = "idle"]
        /\ handle' = [handle EXCEPT ![c] = NoHandle] /\ execOutcome' = [execOutcome EXCEPT ![c] = NoOutcome]
        /\ UNCHANGED <<request, grant, record, command, container, manager, processBudget>>
    BY <1>5 DEF CompleteToolCall, ForgetProcess, UpdateToolCall, Await, system
  <2>2. t \in {"FAILED", "COMPLETED"} /\ (t = "COMPLETED" => record[c].status = "EXITED")
    BY DEF SettleIsError
  <2> HIDE DEF t
  <2>3. tool[c] = "RUNNING" /\ record[c].status \notin Active \cup {"NONE"}
    BY <1>1, <2>1 DEF CallPlaced, Working
  <2>4. Fits(c, t, record[c], "idle", NoOutcome, command[c])
    BY <1>1, <2>2, <2>3 DEF Fits, CallPlaced, CallDown, Started
  <2>5. Writes(c, t, record[c], "idle", NoOutcome, command[c])
    BY <1>1, <1>2, <2>1, <2>2, CallFacts DEF Writes, TypeParts
  <2> QED
    BY <2>4, <2>5, ExecutionKeeps
<1>6. CASE CancelProcess(c)
  <2> DEFINE s == IF handle[c].known THEN "CANCELLED" ELSE "ORPHANED"
  <2>1. /\ manager # "DOWN" /\ record[c].status \in Active /\ record' = [record EXCEPT ![c] = Row(c, s)]
        /\ handle' = [handle EXCEPT ![c].cancelled = @ \/ handle[c].known]
        /\ UNCHANGED <<tool, request, grant, at, execOutcome, command, container, manager, processBudget>>
    BY <1>6 DEF CancelProcess, CancelledRow, Row, system
  <2>2. s \in {"CANCELLED", "ORPHANED"} /\ s \in {"NONE", "STARTING", "RUNNING", "EXITED", "FAILED_TO_START", "CANCELLED", "ORPHANED"}
    OBVIOUS
  <2> HIDE DEF s
  <2>3. Row(c, s) \in LedgerProcessRecordRow /\ Row(c, s).status = s /\ Row(c, s).backend = record[c].backend
    BY <1>1, <2>2, RowFacts DEF TypeParts
  <2>4. (handle[c].cancelled \/ handle[c].known) \in BOOLEAN
    OBVIOUS
  <2>5. handle' \in [ProcessCall -> ExecutionBackendHandle]
    BY <1>1, <2>1, <2>4 DEF TypeParts, ExecutionBackendHandle
  <2>6. record[c].status # "EXITED"
    BY <2>1 DEF Active
  <2>7. Fits(c, tool[c], Row(c, s), at[c], execOutcome[c], command[c])
    BY <1>1, <2>1, <2>2, <2>3, <2>6 DEF Fits, CallPlaced, CallDown, Active
  <2>8. Writes(c, tool[c], Row(c, s), at[c], execOutcome[c], command[c])
    BY <2>1, <2>3, <2>5, CallFacts DEF Writes, TypeParts
  <2> QED
    BY <2>7, <2>8, ExecutionKeeps
<1> QED
  BY <1>3, <1>4, <1>5, <1>6

\* close of the manager cancels what has a handle.
LEMMA CloseManagerKeeps == ASSUME ProcInv, CloseManager PROVE ProcInv'
<1> DEFINE hit(c) == handle[c].known /\ record[c].status \in Active
<1>1. ProcessTypeOK /\ TypeParts /\ MaxDowns \in Nat
  BY ProcessAssumption DEF ProcInv, ProcessTypeOK, TypeParts, ProcessAssumption
<1>2. /\ manager = "OPEN" /\ manager' = "CLOSING" /\ downed < MaxDowns /\ downed' = downed + 1
      /\ record' = [c \in ProcessCall |-> IF hit(c) THEN CancelledRow(c) ELSE record[c]]
      /\ handle' = [c \in ProcessCall |-> [handle[c] EXCEPT !.cancelled = @ \/ hit(c)]]
      /\ UNCHANGED <<tool, request, grant, at, execOutcome, command, container, repeated>>
  BY DEF CloseManager, system
<1>3. ASSUME NEW c \in ProcessCall
      PROVE  /\ record'[c] \in LedgerProcessRecordRow /\ handle'[c] \in ExecutionBackendHandle
             /\ record'[c].backend = record[c].backend
             /\ record'[c].status = record[c].status \/ (record[c].status \in Active /\ record'[c].status = "CANCELLED")
  <2>1. record[c] \in LedgerProcessRecordRow /\ handle[c] \in ExecutionBackendHandle
    BY <1>1 DEF TypeParts
  <2>2. record'[c] = IF hit(c) THEN Row(c, "CANCELLED") ELSE record[c]
    BY <1>2 DEF CancelledRow, Row
  <2>3. Row(c, "CANCELLED") \in LedgerProcessRecordRow /\ Row(c, "CANCELLED").status = "CANCELLED"
        /\ Row(c, "CANCELLED").backend = record[c].backend
    BY <1>1, RowFacts DEF TypeParts
  <2>4. (handle[c].cancelled \/ hit(c)) \in BOOLEAN
    OBVIOUS
  <2>5. handle'[c] = [handle[c] EXCEPT !.cancelled = handle[c].cancelled \/ hit(c)]
    BY <1>2
  <2> DEFINE b == handle[c].cancelled \/ hit(c)
  <2>6. b \in BOOLEAN /\ handle'[c] = [handle[c] EXCEPT !.cancelled = b]
    BY <2>4, <2>5
  <2> HIDE DEF b
  <2>7. handle'[c] \in ExecutionBackendHandle
    BY <2>1, <2>6 DEF ExecutionBackendHandle
  <2> QED
    BY <2>1, <2>2, <2>3, <2>7
<1>4. ProcessTypeOK'
  <2>1. record' \in [ProcessCall -> LedgerProcessRecordRow] /\ handle' \in [ProcessCall -> ExecutionBackendHandle]
    BY <1>2, <1>3
  <2> QED
    BY <1>1, <1>2, <2>1 DEF ProcessTypeOK
<1>5. ASSUME NEW c \in ProcessCall PROVE CallAllowed(c)' /\ CallPlaced(c)' /\ CallDown(c)'
  <2>1. CallAllowed(c) /\ CallPlaced(c) /\ CallDown(c)
    BY DEF ProcInv
  <2>2. CallAllowed(c)'
    BY <1>2, <2>1 DEF CallAllowed
  <2>3. CallPlaced(c)'
    BY <1>2, <1>3, <2>1 DEF CallPlaced, Active
  <2>4. CallDown(c)'
    BY <1>2, <1>3, <2>1 DEF CallDown
  <2> QED
    BY <2>2, <2>3, <2>4
<1> QED
  BY <1>4, <1>5 DEF ProcInv

\* The Host stops or dies: the executions are lost, the rows stay.
LEMMA LossKeeps == ASSUME ProcInv, LoseExecutions, downed' \in 0 .. MaxDowns PROVE ProcInv'
<1>1. ProcessTypeOK /\ TypeParts
  BY DEF ProcInv, ProcessTypeOK, TypeParts
<1>2. /\ manager' = "DOWN" /\ at' = [c \in ProcessCall |-> "idle"]
      /\ handle' = [c \in ProcessCall |-> NoHandle] /\ execOutcome' = [c \in ProcessCall |-> NoOutcome]
      /\ UNCHANGED <<tool, request, grant, record, command, container, repeated>>
  BY DEF LoseExecutions, rows, system
<1>3. ProcessTypeOK'
  BY <1>1, <1>2 DEF ProcessTypeOK, NoHandle, NoOutcome, ExecutionBackendHandle, BackendExecResult
<1>4. ASSUME NEW c \in ProcessCall PROVE CallAllowed(c)' /\ CallPlaced(c)' /\ CallDown(c)'
  <2>1. CallAllowed(c) /\ CallPlaced(c) /\ CallDown(c)
    BY DEF ProcInv
  <2>2. CallAllowed(c)'
    BY <1>2, <2>1 DEF CallAllowed
  <2>3. CallPlaced(c)'
    BY <1>2, <2>1 DEF CallPlaced
  <2>4. CallDown(c)'
    BY <1>2, <2>1 DEF CallDown
  <2> QED
    BY <2>2, <2>3, <2>4
<1> QED
  BY <1>3, <1>4 DEF ProcInv

\* Start-up orphans the records without a process and may prune the containers.
LEMMA RestartKeeps == ASSUME ProcInv, RestartManager PROVE ProcInv'
<1>1. ProcessTypeOK /\ TypeParts /\ container \in [ProcessCall -> BOOLEAN]
  BY DEF ProcInv, ProcessTypeOK, TypeParts
<1>2. PICK prunes \in BOOLEAN :
        /\ container' = [c \in ProcessCall |-> container[c] /\ ~prunes]
        /\ command' = [c \in ProcessCall |-> IF prunes /\ container[c] /\ command[c] = "up" THEN "down" ELSE command[c]]
  BY DEF RestartManager
<1>3. /\ manager' = "OPEN"
      /\ record' = [c \in ProcessCall |-> [record[c] EXCEPT !.status = RecoverOrphans(@)]]
      /\ UNCHANGED <<tool, request, grant, at, handle, execOutcome, repeated, downed>>
  BY DEF RestartManager, memory, processBudget
<1>4. ASSUME NEW c \in ProcessCall
      PROVE  /\ record'[c] \in LedgerProcessRecordRow /\ record'[c].backend = record[c].backend
             /\ record'[c].status = IF record[c].status \in Active THEN "ORPHANED" ELSE record[c].status
             /\ command'[c] \in {"none", "up", "down"} /\ (command'[c] = "none" <=> command[c] = "none")
             /\ (command'[c] = "up" => command[c] = "up")
             /\ container'[c] \in BOOLEAN
  <2>1. record[c] \in LedgerProcessRecordRow /\ command[c] \in {"none", "up", "down"}
    BY <1>1 DEF TypeParts
  <2> DEFINE s == RecoverOrphans(record[c].status)
  <2>2. s = (IF record[c].status \in Active THEN "ORPHANED" ELSE record[c].status) /\ record'[c] = Row(c, s)
    BY <1>3 DEF RecoverOrphans, Row
  <2>3. s \in {"NONE", "STARTING", "RUNNING", "EXITED", "FAILED_TO_START", "CANCELLED", "ORPHANED"}
    BY <2>1, <2>2 DEF LedgerProcessRecordRow
  <2> HIDE DEF s
  <2>4. Row(c, s) \in LedgerProcessRecordRow /\ Row(c, s).status = s /\ Row(c, s).backend = record[c].backend
    BY <1>1, <2>3, RowFacts DEF TypeParts
  <2>5. command'[c] = IF prunes /\ container[c] /\ command[c] = "up" THEN "down" ELSE command[c]
    BY <1>2
  <2>6. container'[c] \in BOOLEAN
    BY <1>2, Zenon
  <2> QED
    BY <2>1, <2>2, <2>4, <2>5, <2>6
<1>5. ProcessTypeOK'
  <2>1. record' \in [ProcessCall -> LedgerProcessRecordRow] /\ command' \in [ProcessCall -> {"none", "up", "down"}]
        /\ container' \in [ProcessCall -> BOOLEAN]
    BY <1>2, <1>3, <1>4
  <2> QED
    BY <1>1, <1>3, <2>1 DEF ProcessTypeOK
<1>6. ASSUME NEW c \in ProcessCall PROVE CallAllowed(c)' /\ CallPlaced(c)' /\ CallDown(c)'
  <2>1. CallAllowed(c) /\ CallPlaced(c) /\ CallDown(c)
    BY DEF ProcInv
  <2>2. CallAllowed(c)'
    BY <1>3, <2>1 DEF CallAllowed
  <2>3. CallPlaced(c)'
    BY <1>3, <1>4, <2>1 DEF CallPlaced, Active
  <2>4. CallDown(c)'
    BY <1>3, <1>4, <2>1 DEF CallDown, Active
  <2> QED
    BY <2>2, <2>3, <2>4
<1> QED
  BY <1>5, <1>6 DEF ProcInv

\* The inductive invariant of the process tool.
THEOREM ProcessInductive == ProcessSpec => []ProcInv
<1>1. ProcessInit => ProcInv
  <2> SUFFICES ASSUME ProcessInit PROVE ProcInv
    OBVIOUS
  <2>1. ProcessTypeOK
    <3>1. /\ "NONE" \in LedgerToolCallRow /\ "NONE" \in LedgerApprovalRequestRow
          /\ [status |-> "NONE", backend |-> "HOST"] \in LedgerProcessRecordRow
          /\ NoHandle \in ExecutionBackendHandle /\ NoOutcome \in BackendExecResult
      BY DEF LedgerToolCallRow, LedgerApprovalRequestRow, LedgerProcessRecordRow, ExecutionBackendHandle,
         BackendExecResult, NoHandle, NoOutcome
    <3>2. repeated \in 0 .. MaxRepeats /\ downed \in 0 .. MaxDowns
      BY ProcessAssumption DEF ProcessAssumption, ProcessInit
    <3> QED
      BY <3>1, <3>2 DEF ProcessInit, ProcessTypeOK
  <2>2. \A c \in ProcessCall : /\ tool[c] = "NONE" /\ request[c] = "NONE" /\ at[c] = "idle" /\ command[c] = "none"
                               /\ record[c].status = "NONE"
    BY DEF ProcessInit
  <2>3. \A c \in ProcessCall : CallAllowed(c) /\ CallPlaced(c) /\ CallDown(c)
    BY <2>2 DEF CallAllowed, CallPlaced, CallDown, Allowing, Started, Active
  <2> QED
    BY <2>1, <2>3 DEF ProcInv
<1>2. ProcInv /\ [ProcessNext]_processVars => ProcInv'
  <2> SUFFICES ASSUME ProcInv, [ProcessNext]_processVars PROVE ProcInv'
    OBVIOUS
  <2>1. CASE UNCHANGED processVars
    BY <2>1 DEF processVars, rows, memory, system, processBudget, ProcInv, ProcessTypeOK, CallAllowed, CallPlaced, CallDown
  <2>2. CASE CloseManager
    BY <2>2, CloseManagerKeeps
  <2>3. CASE ManagerCloses \/ ManagerCrashes
    <3>1. downed' \in 0 .. MaxDowns
      BY <2>3, ProcessAssumption DEF ProcessAssumption, ManagerCloses, ManagerCrashes, ProcInv, ProcessTypeOK
    <3> QED
      BY <2>3, <3>1, LossKeeps DEF ManagerCloses, ManagerCrashes
  <2>4. CASE RestartManager
    BY <2>4, RestartKeeps
  <2> QED
    BY <2>1, <2>2, <2>3, <2>4, RunKeeps, ApprovalKeeps, PreparationKeeps, CommandKeeps, SettlementKeeps
    DEF ProcessNext
<1> QED
  BY <1>1, <1>2, PTL DEF ProcessSpec

\* For any calls, policy and backend, and any number of repetitions, crashes and
\* shutdowns: what is said to have ended is down, an answer says what became of
\* the process, an active record has its owner, and nothing starts that no
\* policy, grant or approval let through (ApprovalService, ProcessManager).
THEOREM ProcessesCorrect == ProcessSpec => []ProcessesAgree
<1>1. ProcInv => ProcessesAgree
  <2> SUFFICES ASSUME ProcInv PROVE ProcessesAgree
    OBVIOUS
  <2>1. EndedIsDown /\ CompletedIsExited /\ ActiveIsOwned
    BY DEF ProcInv, CallPlaced, CallDown, EndedIsDown, CompletedIsExited, ActiveIsOwned, Working
  <2>2. ApprovalAgrees /\ AllowedBeforeStart
    BY DEF ProcInv, CallPlaced, CallAllowed, ApprovalAgrees, AllowedBeforeStart, Started
  <2> QED
    BY <2>1, <2>2 DEF ProcInv, ProcessesAgree
<1> QED
  BY <1>1, ProcessInductive, PTL
-----------------------------------------------------------------------------
(* HostBoot: the processes that start on one profile, and the operator.     *)

Starting == {"new", "create", "write", "inspect", "judge", "rmMeta", "rmLock", "open", "migrate", "recover",
             "build", "services", "start"}
Acquiring == {"new", "create", "inspect", "judge", "rmMeta", "rmLock"}
\* From the creation of its lock file on, a process counts on it.
Holding == {"write", "open", "migrate", "recover", "build", "services", "start", "listening", "up", "stranded"}
Opened == {"migrate", "recover", "build", "services", "start"}
OnSchema == {"recover", "build", "services", "start", "listening", "up"}
Draining == {"await", "drain", "database", "meta", "lock", "unlock"}

\* What metadataWriteTail can hold: one write of the start, one of the
\* readiness task and behind it one of the stop.
EndState == {"STOPPING", "FAILED"}
Tails == {<<>>, <<"LISTENING">>, <<"READY">>} \cup {<<s>> : s \in EndState} \cup {<<"READY", s>> : s \in EndState}

\* The metadata of this process has been seen in the file.
Published(b) == b.written \/ b.mw = "renamed"

\* The phases of the record b of one process.
PhasesFit(b) ==
    /\ b.pc \in Acquiring => b.tries < MaxTries
    /\ b.db => b.pc \in Holding /\ b.cl \notin {"meta", "lock", "unlock", "done"}
    /\ b.pc \in Opened => b.db
    /\ b.cl # "no" => b.pc \in {"listening", "up", "stranded", "gone", "dead"}
    /\ b.cl = "done" => b.pc = "gone"
    /\ b.rt # "none" => b.pc \in {"up", "gone", "dead"} /\ b.written
    /\ b.pc = "up" => b.written
    /\ b.cl = "asked" => Published(b)
    /\ b.pc \in Starting \/ b.cl \notin {"no", "asked"} => b.st # "LISTENING"

\* The writes that are to come, in every phase.
WritesFit(b) ==
    /\ b.writes \in Tails
    /\ b.pc \in Starting \cup {"stranded"} => b.writes = <<>> /\ ~b.written
    /\ b.mw # "idle" => b.writes # <<>>
    /\ b.writes = <<"LISTENING">> => ~b.written
    /\ b.pc = "listening" /\ ~b.written => b.writes = <<"LISTENING">>
    /\ b.writes # <<>> /\ b.writes[1] = "READY" => b.rt = "writing"
    /\ b.cl \in {"no", "asked"} => b.writes \in {<<>>, <<"LISTENING">>, <<"READY">>}
    /\ b.cl = "persist" => b.writes \notin {<<"LISTENING">>, <<"READY">>}
    /\ b.cl \in Draining => b.writes = <<>> \/ (b.writes = <<"LISTENING">> /\ b.mw = "renamed")

\* A process that counts on its lock has it, unless the files were tampered with.
LockFits(p) ==
    /\ raced \/ forced \/ (bt[p].pc \in Holding => Owner(lockFile) = p)
    /\ Owner(lockFile) = p => bt[p].pc # "new" /\ bt[p].cl # "done"

\* The lock that p has judged belongs to a process that is over.
Over(q) == q \in Proc => bt[q].pc \in {"gone", "dead"}
JudgedFits(p) ==
    /\ bt[p].seen # NoFile /\ bt[p].seen.owner \in Proc => bt[bt[p].seen.owner].pc # "new"
    /\ bt[p].pc \in {"rmMeta", "rmLock"} /\ ~forced => bt[p].seen # NoFile /\ Over(bt[p].seen.owner)

\* The file, when it is of p, says what p wrote last.
MetaFits(p) ==
    Owner(metaFile) = p =>
        /\ Published(bt[p]) /\ bt[p].cl \notin {"lock", "unlock", "done"}
        /\ bt[p].mw = "renamed" => metaFile.st = bt[p].writes[1]
        /\ bt[p].cl \in {"persist", "await", "drain", "database", "meta"} /\ bt[p].writes = <<>> => metaFile.st # "READY"

\* The operator asks a process that has published its metadata.
OperatorFits ==
    /\ cli.pc = "asked" => cli.meta # NoFile
    /\ cli.meta # NoFile /\ cli.meta.owner \in Proc => Published(bt[cli.meta.owner])

\* What p has migrated is what its build knows, and stays so while it is alone.
SchemaFits(p) ==
    /\ bt[p].pc = "migrate" =>
           /\ bt[p].ver <= Len(schema) /\ bt[p].ver <= Len(Migs[p])
           /\ \A i \in 1 .. bt[p].ver : schema[i] = Migs[p][i]
    /\ bt[p].db /\ bt[p].pc \in OnSchema => raced \/ forced \/ schema = Migs[p]

History == schema \in LeftSchemas \/ \E p \in Proc : IsPrefix(schema, Migs[p])

BootInv ==
    /\ BootTypeOK /\ History /\ OperatorFits
    /\ \A p \in Proc : /\ PhasesFit(bt[p]) /\ WritesFit(bt[p])
                       /\ LockFits(p) /\ JudgedFits(p) /\ MetaFits(p) /\ SchemaFits(p)

\* A second write behind a first one.
LEMMA AppendToOne ==
    ASSUME NEW s, NEW t
    PROVE  Append(<<s>>, t) = <<s, t>>
<1> DEFINE u == Append(<<s>>, t)
           v == <<s, t>>
<1>1. u \in Seq({s, t}) /\ v \in Seq({s, t}) /\ Len(u) = 2 /\ Len(v) = 2
  OBVIOUS
<1>2. u[1] = v[1] /\ u[2] = v[2]
  OBVIOUS
<1> HIDE DEF u, v
<1>3. \A i \in 1 .. Len(u) : u[i] = v[i]
  BY <1>1, <1>2
<1>4. u = v
  BY <1>1, <1>3, SeqEqual
<1> QED
  BY <1>4 DEF u, v

\* The few sequences of writes, written out.
LEMMA WriteFacts ==
    ASSUME NEW s, NEW t
    PROVE  /\ Append(<<>>, s) = <<s>> /\ Append(<<s>>, t) = <<s, t>>
           /\ Tail(<<s>>) = <<>> /\ Tail(<<s, t>>) = <<t>>
           /\ Head(<<s>>) = s /\ Head(<<s, t>>) = s
           /\ <<s>> # <<>> /\ <<s, t>> # <<>> /\ <<s>>[1] = s /\ <<s, t>>[1] = s
           /\ Len(<<s>>) = 1 /\ Len(<<s, t>>) = 2 /\ Len(<<>>) = 0
           /\ Range(<<s>>) = {s} /\ Range(<<s, t>>) = {s, t} /\ Range(<<>>) = {}
<1>1. DOMAIN <<s>> = {1} /\ DOMAIN <<s, t>> = {1, 2} /\ DOMAIN <<>> = {}
  OBVIOUS
<1>2. Append(<<>>, s) = <<s>>
  <2>1. Append(<<>>, s) \in Seq({s}) /\ <<s>> \in Seq({s})
    OBVIOUS
  <2>2. Len(Append(<<>>, s)) = 1 /\ Append(<<>>, s)[1] = s
    OBVIOUS
  <2> QED
    BY <2>1, <2>2
<1>7. Append(<<s>>, t) = <<s, t>>
  BY AppendToOne, Zenon
<1>3. Tail(<<s>>) = <<>> 
  OBVIOUS
<1>4. Tail(<<s, t>>) = <<t>>
  OBVIOUS
<1>5. /\ Head(<<s>>) = s /\ Head(<<s, t>>) = s
      /\ <<s>> # <<>> /\ <<s, t>> # <<>> /\ <<s>>[1] = s /\ <<s, t>>[1] = s
      /\ Len(<<s>>) = 1 /\ Len(<<s, t>>) = 2 /\ Len(<<>>) = 0
  OBVIOUS
<1>6. Range(<<s>>) = {s} /\ Range(<<s, t>>) = {s, t} /\ Range(<<>>) = {}
  BY <1>1, <1>5 DEF Range
<1> QED
  BY <1>2, <1>3, <1>4, <1>5, <1>6, <1>7

-----------------------------------------------------------------------------
(* A step of one process p, whose record becomes b.                         *)

Becomes(p, b) ==
    /\ p \in Proc /\ b \in ProcRecord
    /\ bt' = [bt EXCEPT ![p] = b]
    /\ bt[p].pc \notin {"gone", "dead"} /\ b.pc # "new"
    /\ Published(bt[p]) => Published(b)

\* What was done with the files stays known.
Marked ==
    /\ raced' \in BOOLEAN /\ forced' \in BOOLEAN
    /\ raced => raced'
    /\ forced => forced'

LockKept(p, b) ==
    /\ b.pc \in Holding => bt[p].pc \in Holding
    /\ b.cl = "done" => Owner(lockFile) # p

JudgedKept(p, b) ==
    /\ b.seen # NoFile /\ b.seen.owner \in Proc => bt[b.seen.owner].pc # "new"
    /\ b.pc \in {"rmMeta", "rmLock"} /\ ~forced' => b.seen # NoFile /\ Over(b.seen.owner)

MetaKept(p, b) ==
    Owner(metaFile) = p =>
        /\ b.cl \notin {"lock", "unlock", "done"}
        /\ b.mw = "renamed" => metaFile.st = b.writes[1]
        /\ b.cl \in {"persist", "await", "drain", "database", "meta"} /\ b.writes = <<>> => metaFile.st # "READY"

SchemaKept(p, b) ==
    /\ b.pc = "migrate" =>
           /\ b.ver <= Len(schema) /\ b.ver <= Len(Migs[p])
           /\ \A i \in 1 .. b.ver : schema[i] = Migs[p][i]
    /\ b.db /\ b.pc \in OnSchema => raced \/ forced \/ schema = Migs[p]

\* The records after the step.
LEMMA Records ==
    ASSUME BootInv, NEW p, NEW b, Becomes(p, b)
    PROVE  /\ bt' \in [Proc -> ProcRecord]
           /\ bt'[p] = b
           /\ \A q \in Proc : q # p => bt'[q] = bt[q]
  BY DEF BootInv, BootTypeOK, Becomes

\* The locks of all the processes, when the file has the owner it had.
LEMMA LocksKept ==
    ASSUME BootInv, NEW p, NEW b, Becomes(p, b), Marked, Owner(lockFile') = Owner(lockFile), LockKept(p, b)
    PROVE  \A q \in Proc : LockFits(q)'
<1>1. \A q \in Proc : LockFits(q)
  BY DEF BootInv
<1>2. Owner(lockFile)' = Owner(lockFile)
  BY DEF Owner
<1>3. b.pc # "new"
  BY DEF Becomes
<1> QED
  BY <1>1, <1>2, <1>3, Records DEF LockFits, LockKept, Marked

\* What all the processes have judged: a process that is over stays so.
LEMMA JudgedsKept ==
    ASSUME BootInv, NEW p, NEW b, Becomes(p, b), Marked, JudgedKept(p, b)
    PROVE  \A q \in Proc : JudgedFits(q)'
<1>1. \A q \in Proc : JudgedFits(q)
  BY DEF BootInv
<1>2. \A q \in Proc : bt[q].pc # "new" => bt'[q].pc # "new"
  BY Records DEF Becomes
<1>3. \A q : Over(q) => Over(q)'
  BY Records DEF Becomes, Over
<1>4. ASSUME NEW q \in Proc PROVE JudgedFits(q)'
  <2>1. JudgedFits(q)
    BY <1>1
  <2>2. CASE q = p
    BY <1>2, <1>3, <2>2, Records DEF JudgedKept, JudgedFits
  <2>3. CASE q # p
    BY <1>2, <1>3, <2>1, <2>3, Records DEF JudgedFits, Marked
  <2> QED
    BY <2>2, <2>3
<1> QED
  BY <1>4

\* The metadata file and what the operator knows of it.
LEMMA MetasKept ==
    ASSUME BootInv, NEW p, NEW b, Becomes(p, b), metaFile' \in {metaFile, NoFile}, MetaKept(p, b)
    PROVE  \A q \in Proc : MetaFits(q)'
<1>1. \A q \in Proc : MetaFits(q)
  BY DEF BootInv
<1>2. \A q \in Proc : Owner(metaFile)' = q => metaFile' = metaFile /\ Owner(metaFile) = q
  BY BootAssumption DEF BootAssumption, Owner
<1>3. Published(bt[p]) => Published(b)
  BY DEF Becomes
<1>4. ASSUME NEW q \in Proc PROVE MetaFits(q)'
  <2>1. CASE q = p
    BY <1>1, <1>2, <1>3, <2>1, Records DEF MetaFits, MetaKept, Published
  <2>2. CASE q # p
    BY <1>1, <1>2, <2>2, Records DEF MetaFits, Published
  <2> QED
    BY <2>1, <2>2
<1> QED
  BY <1>4

\* What the operator has read stays published.
LEMMA OperatorKept ==
    ASSUME BootInv, NEW p, NEW b, Becomes(p, b), cli'.meta = cli.meta, cli'.pc = "asked" => cli.pc = "asked"
    PROVE  OperatorFits'
<1>1. \A q \in Proc : Published(bt[q]) => Published(bt[q])'
  BY Records DEF Becomes, Published
<1> QED
  BY <1>1 DEF BootInv, OperatorFits

\* The schema, when nothing is appended to it.
LEMMA SchemasKept ==
    ASSUME BootInv, NEW p, NEW b, Becomes(p, b), Marked, schema' = schema, SchemaKept(p, b)
    PROVE  (\A q \in Proc : SchemaFits(q)') /\ History'
<1>1. History /\ \A q \in Proc : SchemaFits(q)
  BY DEF BootInv
<1>2. ASSUME NEW q \in Proc PROVE SchemaFits(q)'
  <2>1. CASE q = p
    BY <2>1, Records DEF SchemaFits, SchemaKept, Marked
  <2>2. CASE q # p
    BY <1>1, <2>2, Records DEF SchemaFits, Marked
  <2> QED
    BY <2>1, <2>2
<1> QED
  BY <1>1, <1>2 DEF History

\* The records of all the processes.
LEMMA RecordsFit ==
    ASSUME BootInv, NEW p, NEW b, Becomes(p, b), PhasesFit(b), WritesFit(b)
    PROVE  \A q \in Proc : PhasesFit(bt'[q]) /\ WritesFit(bt'[q])
  BY Records DEF BootInv

\* What every step of p shows of its record.
Moves(p, b) == Becomes(p, b) /\ PhasesFit(b) /\ WritesFit(b) /\ JudgedKept(p, b)

\* A step of p keeps the invariant when it does so for the files and the operator.
LEMMA StepKeeps ==
    ASSUME BootInv, NEW p, NEW b, Moves(p, b), Marked,
           lockFile' \in LockPayload \cup {NoFile}, metaFile' \in PrivateMetadata \cup {NoFile},
           schema' \in Seq(Migration), cli' \in CliRecord, cli'.meta = cli.meta, cli'.pc = "asked" => cli.pc = "asked",
           \A q \in Proc : LockFits(q)', \A q \in Proc : MetaFits(q)',
           (\A q \in Proc : SchemaFits(q)') /\ History'
    PROVE  BootInv'
<1>1. BootTypeOK'
  BY Records DEF BootTypeOK, Moves, Marked
<1>2. Becomes(p, b)
  BY DEF Moves
<1>3. \A q \in Proc : PhasesFit(bt[q])' /\ WritesFit(bt[q])'
  BY <1>2, RecordsFit DEF Moves, PhasesFit, WritesFit, Published
<1>4. \A q \in Proc : JudgedFits(q)'
  BY <1>2, JudgedsKept DEF Moves
<1>5. OperatorFits'
  BY <1>2, OperatorKept
<1> QED
  BY <1>1, <1>3, <1>4, <1>5 DEF BootInv

\* What the invariant says of one process.
LEMMA ProcessFacts ==
    ASSUME BootInv, NEW p \in Proc
    PROVE  /\ bt \in [Proc -> ProcRecord] /\ bt[p] \in ProcRecord
           /\ PhasesFit(bt[p]) /\ WritesFit(bt[p])
           /\ LockFits(p) /\ JudgedFits(p) /\ MetaFits(p) /\ SchemaFits(p)
           /\ lockFile \in LockPayload \cup {NoFile} /\ metaFile \in PrivateMetadata \cup {NoFile}
           /\ schema \in Seq(Migration) /\ cli \in CliRecord /\ raced \in BOOLEAN /\ forced \in BOOLEAN
  BY DEF BootInv, BootTypeOK

\* StepKeeps for a step that leaves the files as they were, or removes the
\* metadata.
LEMMA QuietKeeps ==
    ASSUME BootInv, NEW p, NEW b, Moves(p, b), LockKept(p, b), MetaKept(p, b), SchemaKept(p, b),
           UNCHANGED <<lockFile, schema, cli>>, metaFile' \in {metaFile, NoFile}, Marked
    PROVE  BootInv'
<1>1. Becomes(p, b)
  BY DEF Moves
<1>2. \A q \in Proc : LockFits(q)'
  BY <1>1, LocksKept DEF Owner
<1>3. \A q \in Proc : MetaFits(q)'
  BY <1>1, MetasKept
<1>4. (\A q \in Proc : SchemaFits(q)') /\ History'
  BY <1>1, SchemasKept
<1> QED
  BY <1>2, <1>3, <1>4, StepKeeps DEF BootInv, BootTypeOK

\* QuietKeeps for a step that changes no file at all.
Alone == UNCHANGED <<lockFile, metaFile, schema, cli, raced, forced>>
LEMMA AloneKeeps ==
    ASSUME BootInv, NEW p, NEW b, Moves(p, b), LockKept(p, b), MetaKept(p, b), SchemaKept(p, b), Alone
    PROVE  BootInv'
<1>1. Marked
  BY DEF BootInv, BootTypeOK, Marked, Alone
<1> QED
  BY <1>1, QuietKeeps DEF Alone

-----------------------------------------------------------------------------
(* The start of a process, until it listens.                                *)

\* The record b differs from that of p in no field that start-up leaves alone.
StartsOn(p, b) ==
    /\ p \in Proc /\ b \in ProcRecord /\ bt' = [bt EXCEPT ![p] = b]
    /\ bt[p].pc \in Starting /\ b.pc \in (Starting \ {"new"}) \cup {"gone", "stranded"}
    /\ b.st = bt[p].st /\ b.written = bt[p].written /\ b.writes = bt[p].writes /\ b.mw = bt[p].mw
    /\ b.rt = bt[p].rt /\ b.cl = bt[p].cl
    /\ b.pc \in Acquiring => b.tries < MaxTries
    /\ b.db => b.pc \in Holding
    /\ b.pc \in Opened => b.db

\* Nobody has seen metadata of a process that starts, and nothing closes it.
LEMMA StartFacts ==
    ASSUME BootInv, NEW p \in Proc, bt[p].pc \in Starting
    PROVE  /\ bt[p].cl = "no" /\ bt[p].rt = "none" /\ bt[p].writes = <<>> /\ ~bt[p].written /\ bt[p].mw = "idle"
           /\ bt[p].st # "LISTENING" /\ Owner(metaFile) # p /\ ~Published(bt[p])
<1>1. bt[p].mw \in {"idle", "removed", "renamed"}
  BY ProcessFacts DEF ProcRecord
<1>2. /\ bt[p].cl = "no" /\ bt[p].rt = "none" /\ bt[p].writes = <<>> /\ ~bt[p].written /\ bt[p].mw = "idle"
      /\ bt[p].st # "LISTENING"
  BY <1>1, ProcessFacts DEF PhasesFit, WritesFit, Starting
<1> QED
  BY <1>2, ProcessFacts DEF MetaFits, Published

\* Such a step keeps the phases.
LEMMA StartMoves ==
    ASSUME BootInv, NEW p, NEW b, StartsOn(p, b), JudgedKept(p, b)
    PROVE  Moves(p, b) /\ MetaKept(p, b)
<1>1. /\ bt[p].cl = "no" /\ bt[p].rt = "none" /\ bt[p].writes = <<>> /\ ~bt[p].written /\ bt[p].mw = "idle"
      /\ bt[p].st # "LISTENING" /\ Owner(metaFile) # p /\ ~Published(bt[p])
  BY StartFacts DEF StartsOn
<1>2. PhasesFit(b)
  BY <1>1 DEF StartsOn, PhasesFit, Starting, Acquiring, Holding, Opened
<1>3. WritesFit(b)
  BY <1>1 DEF StartsOn, WritesFit, Tails, Draining, Starting
<1>4. Becomes(p, b)
  BY <1>1 DEF StartsOn, Becomes, Starting
<1>5. MetaKept(p, b)
  BY <1>1 DEF MetaKept
<1> QED
  BY <1>2, <1>3, <1>4, <1>5 DEF Moves

\* StartLocalHost: the process begins.
LEMMA StartKeeps ==
    ASSUME BootInv, NEW p \in Proc, NEW force \in BOOLEAN, StartLocalHost(p, force)
    PROVE  BootInv'
<1> DEFINE b == [bt[p] EXCEPT !.pc = "create", !.force = force]
<1>1. bt[p].pc = "new" /\ bt' = [bt EXCEPT ![p] = b] /\ Alone
  BY ProcessFacts DEF StartLocalHost, At, Alone
<1>2. /\ b \in ProcRecord /\ b.pc = "create" /\ b.tries = bt[p].tries /\ b.db = bt[p].db /\ b.seen = bt[p].seen
      /\ b.st = bt[p].st /\ b.written = bt[p].written /\ b.writes = bt[p].writes /\ b.mw = bt[p].mw
      /\ b.rt = bt[p].rt /\ b.cl = bt[p].cl
  <2>1. bt[p] \in ProcRecord
    BY ProcessFacts
  <2> QED
    BY <2>1 DEF ProcRecord
<1> HIDE DEF b
<1>3. bt[p].cl = "no" /\ ~bt[p].db /\ bt[p].tries < MaxTries
  BY <1>1, ProcessFacts DEF PhasesFit, Holding, Acquiring
<1>4. StartsOn(p, b)
  BY <1>1, <1>2, <1>3 DEF StartsOn, Starting, Opened
<1>5. JudgedKept(p, b)
  BY <1>1, <1>2, ProcessFacts DEF JudgedKept, JudgedFits
<1>6. LockKept(p, b) /\ SchemaKept(p, b)
  BY <1>1, <1>2, <1>3 DEF LockKept, SchemaKept, Holding
<1> QED
  BY <1>1, <1>4, <1>5, <1>6, StartMoves, AloneKeeps

\* The steps that go on to the next phase, or end the start without a failure
\* that is caught.
Onward == {<<"create", "inspect">>, <<"judge", "gone">>, <<"recover", "build">>, <<"build", "services">>,
           <<"build", "stranded">>, <<"services", "start">>, <<"services", "stranded">>}

\* A step onward keeps the invariant.
LEMMA OnwardKeeps ==
    ASSUME BootInv, NEW p \in Proc, NEW to, <<bt[p].pc, to>> \in Onward, BootGoto(p, to), Alone
    PROVE  BootInv'
<1> DEFINE b == [bt[p] EXCEPT !.pc = to]
<1>1. bt' = [bt EXCEPT ![p] = b]
  BY ProcessFacts DEF BootGoto
<1>2. /\ \/ bt[p].pc = "create" /\ to = "inspect"
         \/ bt[p].pc = "judge" /\ to = "gone"
         \/ bt[p].pc = "recover" /\ to = "build"
         \/ bt[p].pc = "build" /\ to \in {"services", "stranded"}
         \/ bt[p].pc = "services" /\ to \in {"start", "stranded"}
  BY DEF Onward
<1>3. to \in {"inspect", "gone", "build", "services", "start", "stranded"}
  BY <1>2
<1>4. /\ b \in ProcRecord /\ b.pc = to /\ b.tries = bt[p].tries /\ b.db = bt[p].db /\ b.seen = bt[p].seen
      /\ b.st = bt[p].st /\ b.written = bt[p].written /\ b.writes = bt[p].writes /\ b.mw = bt[p].mw
      /\ b.rt = bt[p].rt /\ b.cl = bt[p].cl /\ b.ver = bt[p].ver
  <2>1. bt[p] \in ProcRecord
    BY ProcessFacts
  <2> QED
    BY <1>3, <2>1 DEF ProcRecord
<1> HIDE DEF b
<1>5. PhasesFit(bt[p]) /\ SchemaFits(p)
  BY ProcessFacts
<1>6. StartsOn(p, b)
  BY <1>1, <1>2, <1>4, <1>5 DEF StartsOn, Starting, Opened, Acquiring, Holding, PhasesFit
<1>7. JudgedKept(p, b)
  BY <1>2, <1>4, ProcessFacts DEF JudgedKept, JudgedFits
<1>8. LockKept(p, b)
  BY <1>2, <1>4, StartFacts DEF LockKept, Holding, Starting
<1>9. SchemaKept(p, b)
  BY <1>2, <1>4, <1>5 DEF SchemaKept, SchemaFits, OnSchema
<1> QED
  BY <1>6, <1>7, <1>8, <1>9, StartMoves, AloneKeeps

\* The file that CreateLock makes is the lock of its process.
LEMMA CreatedKeeps ==
    ASSUME BootInv, NEW p \in Proc, lockFile = NoFile, CreateLock(p)
    PROVE  BootInv'
<1> DEFINE b == [bt[p] EXCEPT !.pc = "write"]
<1>1. bt[p].pc = "create" /\ lockFile' = [owner |-> p, full |-> FALSE]
      /\ UNCHANGED <<metaFile, schema, cli, raced, forced>> /\ bt' = [bt EXCEPT ![p] = b]
  BY ProcessFacts DEF CreateLock, At, BootGoto
<1>2. /\ b \in ProcRecord /\ b.pc = "write" /\ b.tries = bt[p].tries /\ b.db = bt[p].db
      /\ b.seen = bt[p].seen /\ b.st = bt[p].st /\ b.written = bt[p].written /\ b.writes = bt[p].writes
      /\ b.mw = bt[p].mw /\ b.rt = bt[p].rt /\ b.cl = bt[p].cl /\ b.ver = bt[p].ver
  <2>1. bt[p] \in ProcRecord
    BY ProcessFacts
  <2> QED
    BY <2>1 DEF ProcRecord
<1> HIDE DEF b
<1>3. bt[p].cl = "no" /\ ~bt[p].db /\ ~Published(bt[p])
  BY <1>1, StartFacts, ProcessFacts DEF Starting, PhasesFit, Holding
<1>4. StartsOn(p, b)
  BY <1>1, <1>2, <1>3 DEF StartsOn, Starting, Opened, Acquiring
<1>5. JudgedKept(p, b)
  BY <1>1, <1>2, ProcessFacts DEF JudgedKept, JudgedFits
<1>6. Moves(p, b) /\ MetaKept(p, b) /\ Becomes(p, b)
  BY <1>4, <1>5, StartMoves DEF Moves
<1>7. lockFile' \in LockPayload /\ lockFile' # NoFile /\ lockFile'.owner = p
  <2>1. lockFile' \in LockPayload
    BY <1>1 DEF LockPayload
  <2> QED
    BY <1>1, <2>1, BootAssumption DEF BootAssumption
<1>8. Marked
  BY <1>1, ProcessFacts DEF Marked
<1>9. \A q \in Proc : LockFits(q)'
  <2>1. ASSUME NEW q \in Proc PROVE LockFits(q)'
    <3>1. CASE q = p
      BY <1>2, <1>3, <1>6, <1>7, <3>1, Records DEF LockFits, Owner
    <3>2. CASE q # p
      <4>1. LockFits(q) /\ Owner(lockFile) # q
        BY ProcessFacts, BootAssumption DEF BootAssumption, Owner
      <4> QED
        BY <1>1, <1>6, <1>7, <3>2, <4>1, Records DEF LockFits, Owner
    <3> QED
      BY <3>1, <3>2
  <2> QED
    BY <2>1
<1>10. \A q \in Proc : MetaFits(q)'
  BY <1>1, <1>6, MetasKept
<1>11. (\A q \in Proc : SchemaFits(q)') /\ History'
  BY <1>1, <1>2, <1>3, <1>6, <1>8, SchemasKept DEF SchemaKept
<1> QED
  BY <1>1, <1>6, <1>7, <1>8, <1>9, <1>10, <1>11, StepKeeps DEF BootInv, BootTypeOK

\* Nobody has the lock file that a process is going to create.
LEMMA CreateKeeps ==
    ASSUME BootInv, NEW p \in Proc, CreateLock(p)
    PROVE  BootInv'
<1>1. CASE lockFile # NoFile
  BY <1>1, OnwardKeeps DEF CreateLock, At, Onward, Alone
<1>2. CASE lockFile = NoFile
  BY <1>2, CreatedKeeps DEF CreateLock
<1> QED
  BY <1>1, <1>2

\* The content is written to the lock, whose owner stays.
LEMMA WriteLockKeeps ==
    ASSUME BootInv, NEW p \in Proc, WriteLock(p)
    PROVE  BootInv'
<1> DEFINE b == [bt[p] EXCEPT !.pc = "open"]
<1>1. bt[p].pc = "write" /\ UNCHANGED <<metaFile, schema, cli, raced, forced>>
      /\ bt' = [bt EXCEPT ![p] = b]
  BY ProcessFacts DEF WriteLock, At, BootGoto
<1>2. /\ b \in ProcRecord /\ b.pc = "open" /\ b.tries = bt[p].tries /\ b.db = bt[p].db
      /\ b.seen = bt[p].seen /\ b.st = bt[p].st /\ b.written = bt[p].written /\ b.writes = bt[p].writes
      /\ b.mw = bt[p].mw /\ b.rt = bt[p].rt /\ b.cl = bt[p].cl /\ b.ver = bt[p].ver
  <2>1. bt[p] \in ProcRecord
    BY ProcessFacts
  <2> QED
    BY <2>1 DEF ProcRecord
<1> HIDE DEF b
<1>0. /\ Owner(lockFile) = p => lockFile' = [lockFile EXCEPT !.full = TRUE]
      /\ Owner(lockFile) # p => lockFile' = lockFile
  BY DEF WriteLock
<1>3. bt[p].pc \in Starting /\ PhasesFit(bt[p])
  BY <1>1, ProcessFacts DEF Starting
<1>4. StartsOn(p, b)
  BY <1>1, <1>2, <1>3 DEF StartsOn, Starting, Opened, Acquiring, PhasesFit, Holding
<1>5. JudgedKept(p, b)
  BY <1>1, <1>2, ProcessFacts DEF JudgedKept, JudgedFits
<1>6. Moves(p, b) /\ MetaKept(p, b) /\ Becomes(p, b)
  BY <1>4, <1>5, StartMoves DEF Moves
<1>7. Owner(lockFile') = Owner(lockFile) /\ lockFile' \in LockPayload \cup {NoFile}
  <2>1. CASE Owner(lockFile) # p
    <3>1. lockFile' = lockFile
      BY <1>0, <2>1
    <3> QED
      BY <3>1, ProcessFacts DEF Owner
  <2>2. CASE Owner(lockFile) = p
    <3>1. lockFile \in LockPayload
      BY <2>2, ProcessFacts, BootAssumption DEF BootAssumption, Owner
    <3>2. lockFile' = [lockFile EXCEPT !.full = TRUE]
      BY <1>0, <2>2
    <3>3. lockFile' \in LockPayload /\ lockFile'.owner = lockFile.owner
      BY <3>1, <3>2 DEF LockPayload
    <3> QED
      BY <3>1, <3>3, BootAssumption DEF BootAssumption, Owner
  <2> QED
    BY <2>1, <2>2
<1>8. Marked
  BY <1>1, ProcessFacts DEF Marked
<1>9. \A q \in Proc : LockFits(q)'
  BY <1>1, <1>2, <1>3, <1>6, <1>7, <1>8, StartFacts, LocksKept DEF LockKept, Holding
<1>10. \A q \in Proc : MetaFits(q)'
  BY <1>1, <1>6, MetasKept
<1>11. (\A q \in Proc : SchemaFits(q)') /\ History'
  BY <1>1, <1>2, <1>6, <1>8, SchemasKept DEF SchemaKept, OnSchema
<1> QED
  BY <1>1, <1>6, <1>7, <1>8, <1>9, <1>10, <1>11, StepKeeps DEF BootInv, BootTypeOK

\* The process that is read from the lock has begun.
LEMMA SeenKeeps ==
    ASSUME BootInv, NEW p \in Proc, NEW seen \in {lockFile, NoFile}, bt[p].pc = "inspect",
           bt' = [bt EXCEPT ![p].pc = "judge", ![p].seen = seen], Alone
    PROVE  BootInv'
<1> DEFINE b == [bt[p] EXCEPT !.pc = "judge", !.seen = seen]
<1>1. bt' = [bt EXCEPT ![p] = b]
  BY ProcessFacts DEF BootInv
<1>2. /\ b \in ProcRecord /\ b.pc = "judge" /\ b.tries = bt[p].tries /\ b.db = bt[p].db /\ b.seen = seen
      /\ b.st = bt[p].st /\ b.written = bt[p].written /\ b.writes = bt[p].writes /\ b.mw = bt[p].mw
      /\ b.rt = bt[p].rt /\ b.cl = bt[p].cl /\ b.ver = bt[p].ver
  <2>0. seen \in LockPayload \cup {NoFile}
    BY ProcessFacts
  <2>1. bt[p] \in ProcRecord
    BY ProcessFacts
  <2> QED
    BY <2>0, <2>1 DEF ProcRecord
<1> HIDE DEF b
<1>3. bt[p].pc \in Starting /\ PhasesFit(bt[p])
  BY ProcessFacts DEF Starting
<1>4. StartsOn(p, b)
  BY <1>1, <1>2, <1>3 DEF StartsOn, Starting, Opened, Acquiring, PhasesFit, Holding
<1>5. JudgedKept(p, b)
  <2>1. \A q \in Proc : Owner(lockFile) = q => bt[q].pc # "new"
    BY DEF BootInv, LockFits
  <2>2. b.seen # NoFile => b.seen = lockFile /\ Owner(lockFile) = b.seen.owner
    BY <1>2 DEF Owner
  <2> QED
    BY <1>2, <2>1, <2>2 DEF JudgedKept
<1>6. LockKept(p, b) /\ SchemaKept(p, b)
  BY <1>2, <1>3, StartFacts DEF LockKept, SchemaKept, Holding, OnSchema
<1> QED
  BY <1>4, <1>5, <1>6, StartMoves, AloneKeeps

\* What ReadLock takes from the file is its content or nothing.
LEMMA ReadLockKeeps ==
    ASSUME BootInv, NEW p \in Proc, ReadLock(p)
    PROVE  BootInv'
<1> DEFINE seen == IF lockFile # NoFile /\ lockFile.full THEN lockFile ELSE NoFile
<1>1. seen \in {lockFile, NoFile}
  OBVIOUS
<1>2. bt[p].pc = "inspect" /\ bt' = [bt EXCEPT ![p].pc = "judge", ![p].seen = seen] /\ Alone
  BY DEF ReadLock, At, Alone
<1> HIDE DEF seen
<1> QED
  BY <1>1, <1>2, SeenKeeps

\* A process that judges a lock to be left behind has seen that its owner is over.
LEMMA JudgedReclaims ==
    ASSUME BootInv, NEW p \in Proc, NEW alive \in BOOLEAN, bt[p].pc = "judge", BootGoto(p, "rmMeta"),
           (bt[p].seen # NoFile /\ ~alive) \/ bt[p].force,
           bt[p].seen # NoFile => alive \in IsPidAlive(bt[p].seen.owner),
           forced' = (forced \/ (bt[p].force /\ (bt[p].seen = NoFile \/ alive))),
           UNCHANGED <<lockFile, metaFile, schema, cli, raced>>
    PROVE  BootInv'
<1> DEFINE b == [bt[p] EXCEPT !.pc = "rmMeta"]
<1>1. bt' = [bt EXCEPT ![p] = b]
  BY ProcessFacts DEF BootGoto
<1>2. /\ b \in ProcRecord /\ b.pc = "rmMeta" /\ b.tries = bt[p].tries /\ b.db = bt[p].db
      /\ b.seen = bt[p].seen /\ b.st = bt[p].st /\ b.written = bt[p].written /\ b.writes = bt[p].writes
      /\ b.mw = bt[p].mw /\ b.rt = bt[p].rt /\ b.cl = bt[p].cl /\ b.ver = bt[p].ver
  <2>1. bt[p] \in ProcRecord
    BY ProcessFacts
  <2> QED
    BY <2>1 DEF ProcRecord
<1> HIDE DEF b
<1>3. bt[p].pc \in Starting /\ PhasesFit(bt[p]) /\ JudgedFits(p) /\ bt[p].force \in BOOLEAN
  BY ProcessFacts DEF Starting, ProcRecord
<1>4. StartsOn(p, b)
  BY <1>1, <1>2, <1>3 DEF StartsOn, Starting, Opened, Acquiring, PhasesFit, Holding
<1>5. JudgedKept(p, b)
  <2>1. ASSUME ~forced' PROVE bt[p].seen # NoFile /\ ~alive
    BY <1>3, <2>1
  <2>2. ASSUME bt[p].seen # NoFile, ~alive PROVE Over(bt[p].seen.owner)
    <3>1. ~Live(bt[p].seen.owner)
      BY <2>2 DEF IsPidAlive
    <3> QED
      BY <1>3, <2>2, <3>1 DEF Live, JudgedFits, Over
  <2> QED
    BY <1>2, <1>3, <2>1, <2>2 DEF JudgedKept, JudgedFits
<1>6. LockKept(p, b) /\ SchemaKept(p, b)
  BY <1>2, <1>3, StartFacts DEF LockKept, SchemaKept, Holding, OnSchema
<1>7. Marked
  BY <1>3, ProcessFacts DEF Marked
<1> QED
  BY <1>4, <1>5, <1>6, <1>7, StartMoves, QuietKeeps

\* What JudgeLock decides keeps the invariant.
LEMMA JudgeKeeps ==
    ASSUME BootInv, NEW p \in Proc, JudgeLock(p)
    PROVE  BootInv'
<1>1. bt[p].pc = "judge" /\ UNCHANGED <<lockFile, metaFile, schema, cli, raced>>
  BY DEF JudgeLock, At
<1>2. CASE BootGoto(p, "gone") /\ UNCHANGED forced
  BY <1>1, <1>2, OnwardKeeps DEF Onward, Alone
<1>3. CASE \E alive \in IF bt[p].seen = NoFile THEN {FALSE} ELSE IsPidAlive(bt[p].seen.owner), aged \in BOOLEAN :
             /\ Reclaimable(p, alive, aged)
             /\ BootGoto(p, "rmMeta")
             /\ forced' = (forced \/ (bt[p].force /\ (bt[p].seen = NoFile \/ alive)))
  <2>1. PICK alive \in IF bt[p].seen = NoFile THEN {FALSE} ELSE IsPidAlive(bt[p].seen.owner), aged \in BOOLEAN :
             /\ Reclaimable(p, alive, aged)
             /\ BootGoto(p, "rmMeta")
             /\ forced' = (forced \/ (bt[p].force /\ (bt[p].seen = NoFile \/ alive)))
    BY <1>3
  <2>2. alive \in BOOLEAN
    BY DEF IsPidAlive
  <2>3. (bt[p].seen # NoFile /\ ~alive) \/ bt[p].force
    BY <2>1 DEF Reclaimable
  <2> QED
    BY <1>1, <2>1, <2>2, <2>3, JudgedReclaims
<1> QED
  BY <1>2, <1>3 DEF JudgeLock

\* The metadata is removed, whoever wrote it.
LEMMA ReclaimMetadataKeeps ==
    ASSUME BootInv, NEW p \in Proc, ReclaimMetadata(p)
    PROVE  BootInv'
<1> DEFINE b == [bt[p] EXCEPT !.pc = "rmLock"]
<1>1. bt[p].pc = "rmMeta" /\ UNCHANGED <<lockFile, schema, cli, forced>> /\ metaFile' = NoFile
      /\ raced' \in BOOLEAN /\ (raced => raced')
      /\ bt' = [bt EXCEPT ![p] = b]
  BY ProcessFacts DEF ReclaimMetadata, At, BootGoto
<1>2. /\ b \in ProcRecord /\ b.pc = "rmLock" /\ b.tries = bt[p].tries /\ b.db = bt[p].db
      /\ b.seen = bt[p].seen /\ b.st = bt[p].st /\ b.written = bt[p].written /\ b.writes = bt[p].writes
      /\ b.mw = bt[p].mw /\ b.rt = bt[p].rt /\ b.cl = bt[p].cl /\ b.ver = bt[p].ver
  <2>1. bt[p] \in ProcRecord
    BY ProcessFacts
  <2> QED
    BY <2>1 DEF ProcRecord
<1> HIDE DEF b
<1>3. bt[p].pc \in Starting /\ PhasesFit(bt[p]) /\ JudgedFits(p)
  BY <1>1, ProcessFacts DEF Starting
<1>4. StartsOn(p, b)
  BY <1>1, <1>2, <1>3 DEF StartsOn, Starting, Opened, Acquiring, PhasesFit, Holding
<1>5. JudgedKept(p, b)
  BY <1>1, <1>2, <1>3 DEF JudgedKept, JudgedFits
<1>6. LockKept(p, b) /\ SchemaKept(p, b)
  BY <1>1, <1>2, <1>3, StartFacts DEF LockKept, SchemaKept, Holding, OnSchema
<1>7. Marked
  BY <1>1, ProcessFacts DEF Marked
<1> QED
  BY <1>1, <1>4, <1>5, <1>6, <1>7, StartMoves, QuietKeeps

\* The lock that was judged is removed: its owner is over, or the removal is marked.
LEMMA ReclaimLockKeeps ==
    ASSUME BootInv, NEW p \in Proc, ReclaimLock(p)
    PROVE  BootInv'
<1> DEFINE b == [bt[p] EXCEPT !.pc = IF bt[p].tries + 1 < MaxTries THEN "create" ELSE "gone", !.tries = bt[p].tries + 1, !.seen = NoFile]
<1>1. bt[p].pc = "rmLock" /\ UNCHANGED <<metaFile, schema, cli, forced>> /\ lockFile' = NoFile
      /\ bt' = [bt EXCEPT ![p] = b]
  BY ProcessFacts DEF ReclaimLock, At
<1>2. /\ b \in ProcRecord /\ b.pc = (IF bt[p].tries + 1 < MaxTries THEN "create" ELSE "gone")
      /\ b.tries = bt[p].tries + 1 /\ b.db = bt[p].db /\ b.seen = NoFile /\ b.st = bt[p].st
      /\ b.written = bt[p].written /\ b.writes = bt[p].writes /\ b.mw = bt[p].mw /\ b.rt = bt[p].rt
      /\ b.cl = bt[p].cl /\ b.ver = bt[p].ver
  <2>0. bt[p].tries + 1 \in 0 .. MaxTries
    <3>1. bt[p].tries \in 0 .. MaxTries /\ MaxTries \in Nat /\ bt[p].tries < MaxTries
      BY <1>1, ProcessFacts, BootAssumption DEF BootAssumption, ProcRecord, PhasesFit, Acquiring
    <3> QED
      BY <3>1
  <2>1. bt[p] \in ProcRecord
    BY ProcessFacts
  <2> QED
    BY <2>0, <2>1 DEF ProcRecord
<1> HIDE DEF b
<1>3. /\ raced' \in BOOLEAN /\ (raced => raced')
      /\ ~raced' => lockFile = NoFile \/ lockFile = bt[p].seen
  BY ProcessFacts DEF ReclaimLock
<1>4. bt[p].pc \in Starting
  BY <1>1 DEF Starting
<1>5. b.pc \in {"create", "gone"} /\ (b.pc = "create" => b.tries < MaxTries) /\ ~b.db
  <2>1. ~bt[p].db
    BY <1>1, ProcessFacts DEF PhasesFit, Holding
  <2> QED
    BY <1>2, <2>1
<1>6. StartsOn(p, b)
  <2>1. /\ b.st = bt[p].st /\ b.written = bt[p].written /\ b.writes = bt[p].writes /\ b.mw = bt[p].mw
        /\ b.rt = bt[p].rt /\ b.cl = bt[p].cl /\ b \in ProcRecord
    BY <1>2
  <2> QED
    BY <1>1, <1>4, <1>5, <2>1 DEF StartsOn, Starting, Opened, Acquiring
<1>7. JudgedKept(p, b)
  BY <1>2, <1>5 DEF JudgedKept
<1>8. Moves(p, b) /\ MetaKept(p, b) /\ Becomes(p, b)
  BY <1>6, <1>7, StartMoves DEF Moves
<1>9. Marked
  BY <1>1, <1>3, ProcessFacts DEF Marked
<1>10. \A q \in Proc : LockFits(q)'
  <2>1. ASSUME NEW q \in Proc PROVE LockFits(q)'
    <3>1. Owner(lockFile)' # q
      BY <1>1, BootAssumption DEF BootAssumption, Owner
    <3>2. ASSUME ~raced', ~forced', bt'[q].pc \in Holding PROVE FALSE
      <4>1. q # p
        BY <1>5, <1>8, <3>2, Records DEF Holding
      <4>2. bt[q].pc \in Holding
        BY <1>8, <3>2, <4>1, Records
      <4>3. Owner(lockFile) = q
        BY <1>1, <1>3, <3>2, <4>2, ProcessFacts DEF LockFits
      <4>4. lockFile = bt[p].seen
        BY <1>3, <3>2, <4>3, BootAssumption DEF BootAssumption, Owner
      <4>5. Over(q)
        BY <1>1, <3>2, <4>3, <4>4, ProcessFacts DEF JudgedFits, Owner
      <4> QED
        BY <4>2, <4>5 DEF Over, Holding
    <3> QED
      BY <3>1, <3>2 DEF LockFits
  <2> QED
    BY <2>1
<1>11. \A q \in Proc : MetaFits(q)'
  BY <1>1, <1>8, MetasKept
<1>12. (\A q \in Proc : SchemaFits(q)') /\ History'
  BY <1>1, <1>5, <1>8, <1>9, SchemasKept DEF SchemaKept
<1> QED
  BY <1>1, <1>8, <1>9, <1>10, <1>11, <1>12, StepKeeps DEF BootInv, BootTypeOK

-----------------------------------------------------------------------------
(* The schema.                                                              *)

\* A prefix, element by element.
LEMMA PrefixByElements ==
    ASSUME NEW S, NEW s \in Seq(S), NEW t \in Seq(S)
    PROVE  IsPrefix(s, t) <=> Len(s) <= Len(t) /\ \A i \in 1 .. Len(s) : s[i] = t[i]
<1>1. Len(s) \in Nat /\ Len(t) \in Nat
  OBVIOUS
<1>2. SubSeq(s, 1, Len(s)) = s
  BY SubSeqFull
<1>3. ASSUME Len(s) <= Len(t)
      PROVE  /\ SubSeq(t, 1, Len(s)) \in Seq(S) /\ Len(SubSeq(t, 1, Len(s))) = Len(s)
             /\ \A i \in 1 .. Len(s) : SubSeq(t, 1, Len(s))[i] = t[i]
  BY <1>1, <1>3
<1>4. ASSUME Len(s) <= Len(t), SubSeq(t, 1, Len(s)) = s PROVE \A i \in 1 .. Len(s) : s[i] = t[i]
  BY <1>3, <1>4
<1>5. ASSUME Len(s) <= Len(t), \A i \in 1 .. Len(s) : s[i] = t[i] PROVE SubSeq(t, 1, Len(s)) = s
  <2> DEFINE u == SubSeq(t, 1, Len(s))
  <2>1. u \in Seq(S) /\ Len(u) = Len(s) /\ \A i \in 1 .. Len(u) : u[i] = s[i]
    BY <1>3, <1>5
  <2> HIDE DEF u
  <2>2. u = s
    BY <2>1, SeqEqual
  <2> QED
    BY <2>2 DEF u
<1> QED
  BY <1>2, <1>4, <1>5 DEF IsPrefix

\* What a build knows is a sequence of migrations.
LEMMA KnownMigrations ==
    ASSUME NEW p \in Proc
    PROVE  Migs[p] \in Seq(Migration) /\ Len(Migs[p]) \in Nat
  BY BootAssumption DEF BootAssumption

\* A failed start gives the lock back, without the database.
LEMMA AbandonKeeps ==
    ASSUME BootInv, NEW p \in Proc, bt[p].pc \in {"open", "migrate", "recover"}, bt' = Abandon(p), Alone
    PROVE  BootInv'
<1> DEFINE b == [bt[p] EXCEPT !.pc = "stranded", !.cl = "lock", !.db = FALSE]
<1>1. bt' = [bt EXCEPT ![p] = b]
  BY ProcessFacts DEF Abandon
<1>2. /\ b \in ProcRecord /\ b.pc = "stranded" /\ b.tries = bt[p].tries /\ b.db = FALSE
      /\ b.seen = bt[p].seen /\ b.st = bt[p].st /\ b.written = bt[p].written /\ b.writes = bt[p].writes
      /\ b.mw = bt[p].mw /\ b.rt = bt[p].rt /\ b.cl = "lock" /\ b.ver = bt[p].ver
  <2>1. bt[p] \in ProcRecord
    BY ProcessFacts
  <2> QED
    BY <2>1 DEF ProcRecord
<1> HIDE DEF b
<1>3. /\ bt[p].cl = "no" /\ bt[p].rt = "none" /\ bt[p].writes = <<>> /\ ~bt[p].written /\ bt[p].mw = "idle"
      /\ bt[p].st # "LISTENING" /\ Owner(metaFile) # p /\ ~Published(bt[p])
  BY StartFacts DEF Starting
<1>4. PhasesFit(b)
  BY <1>2, <1>3 DEF PhasesFit, Acquiring, Opened, Starting
<1>5. WritesFit(b)
  BY <1>2, <1>3 DEF WritesFit, Tails, Draining
<1>6. Becomes(p, b)
  BY <1>1, <1>2, <1>3 DEF Becomes
<1>7. JudgedKept(p, b)
  BY <1>2, ProcessFacts DEF JudgedKept, JudgedFits
<1>8. LockKept(p, b) /\ MetaKept(p, b) /\ SchemaKept(p, b)
  BY <1>2, <1>3 DEF LockKept, MetaKept, SchemaKept, Holding
<1> QED
  BY <1>4, <1>5, <1>6, <1>7, <1>8, AloneKeeps DEF Moves

\* A process that opens the database knows what was applied to it.
LEMMA OpenedKeeps ==
    ASSUME BootInv, NEW p \in Proc, bt[p].pc = "open", KnownSchema(p),
           bt' = [bt EXCEPT ![p].pc = "migrate", ![p].ver = Len(schema), ![p].db = TRUE], Alone
    PROVE  BootInv'
<1> DEFINE b == [bt[p] EXCEPT !.pc = "migrate", !.ver = Len(schema), !.db = TRUE]
<1>1. bt' = [bt EXCEPT ![p] = b]
  BY ProcessFacts DEF BootInv
<1>2. /\ b \in ProcRecord /\ b.pc = "migrate" /\ b.tries = bt[p].tries /\ b.db = TRUE /\ b.seen = bt[p].seen
      /\ b.st = bt[p].st /\ b.written = bt[p].written /\ b.writes = bt[p].writes /\ b.mw = bt[p].mw
      /\ b.rt = bt[p].rt /\ b.cl = bt[p].cl /\ b.ver = Len(schema)
  <2>0. Len(schema) \in Nat
    BY ProcessFacts
  <2>1. bt[p] \in ProcRecord
    BY ProcessFacts
  <2> QED
    BY <2>0, <2>1 DEF ProcRecord
<1> HIDE DEF b
<1>3. bt[p].pc \in Starting
  BY DEF Starting
<1>4. StartsOn(p, b)
  BY <1>1, <1>2, <1>3 DEF StartsOn, Starting, Opened, Acquiring, Holding
<1>5. JudgedKept(p, b)
  BY <1>2, ProcessFacts DEF JudgedKept, JudgedFits
<1>6. LockKept(p, b)
  BY <1>2, <1>3, StartFacts DEF LockKept, Holding
<1>7. SchemaKept(p, b)
  <2>1. Len(schema) <= Len(Migs[p]) /\ \A i \in 1 .. Len(schema) : schema[i] = Migs[p][i]
    BY ProcessFacts, KnownMigrations, PrefixByElements DEF KnownSchema
  <2>2. Len(schema) <= Len(schema)
    BY ProcessFacts
  <2> QED
    BY <1>2, <2>1, <2>2 DEF SchemaKept, OnSchema
<1> QED
  BY <1>4, <1>5, <1>6, <1>7, StartMoves, AloneKeeps

\* OpenStateDatabase keeps the invariant, whether the schema is known or not.
LEMMA OpenKeeps ==
    ASSUME BootInv, NEW p \in Proc, OpenStateDatabase(p)
    PROVE  BootInv'
<1>1. bt[p].pc = "open" /\ Alone
  BY DEF OpenStateDatabase, At, Alone
<1>2. CASE KnownSchema(p)
  BY <1>1, <1>2, OpenedKeeps DEF OpenStateDatabase
<1>3. CASE ~KnownSchema(p)
  BY <1>1, <1>3, AbandonKeeps DEF OpenStateDatabase
<1> QED
  BY <1>2, <1>3

\* Only one process is at the database, unless the files were tampered with.
LEMMA OneHolder ==
    ASSUME BootInv, ~raced, ~forced, NEW p \in Proc, NEW q \in Proc, bt[p].pc \in Holding, bt[q].pc \in Holding
    PROVE  p = q
  BY ProcessFacts DEF LockFits

\* A migration that is applied is the next one of its build and of the ledger.
LEMMA AppliedKeeps ==
    ASSUME BootInv, NEW p \in Proc, bt[p].pc = "migrate", bt[p].ver < Len(Migs[p]), Len(schema) = bt[p].ver,
           schema' = Append(schema, Migs[p][bt[p].ver + 1]), bt' = [bt EXCEPT ![p].ver = @ + 1],
           UNCHANGED <<lockFile, metaFile, cli, raced, forced>>
    PROVE  BootInv'
<1> DEFINE b == [bt[p] EXCEPT !.ver = bt[p].ver + 1]
<1>1. bt' = [bt EXCEPT ![p] = b]
  BY ProcessFacts DEF BootInv
<1>2. /\ b \in ProcRecord /\ b.pc = bt[p].pc /\ b.tries = bt[p].tries /\ b.db = bt[p].db
      /\ b.seen = bt[p].seen /\ b.st = bt[p].st /\ b.written = bt[p].written /\ b.writes = bt[p].writes
      /\ b.mw = bt[p].mw /\ b.rt = bt[p].rt /\ b.cl = bt[p].cl /\ b.ver = bt[p].ver + 1
  <2>0. bt[p].ver + 1 \in Nat
    BY ProcessFacts DEF ProcRecord
  <2>1. bt[p] \in ProcRecord
    BY ProcessFacts
  <2> QED
    BY <2>0, <2>1 DEF ProcRecord
<1> HIDE DEF b
<1>3. bt[p].pc \in Starting /\ PhasesFit(bt[p]) /\ SchemaFits(p)
  BY ProcessFacts DEF Starting
<1>4. StartsOn(p, b)
  BY <1>1, <1>2, <1>3 DEF StartsOn, Starting, Opened, Acquiring, Holding, PhasesFit
<1>5. JudgedKept(p, b)
  BY <1>2, ProcessFacts DEF JudgedKept, JudgedFits
<1>6. Moves(p, b) /\ MetaKept(p, b) /\ Becomes(p, b)
  BY <1>4, <1>5, StartMoves DEF Moves
<1>7. Marked
  BY ProcessFacts DEF Marked
<1>8. \A q \in Proc : LockFits(q)'
  BY <1>2, <1>3, <1>6, <1>7, StartFacts, LocksKept DEF LockKept, Owner
<1>9. \A q \in Proc : MetaFits(q)'
  BY <1>6, MetasKept
<1>10. /\ Migs[p] \in Seq(Migration) /\ schema \in Seq(Migration)
       /\ Len(Migs[p]) \in Nat /\ Len(schema) \in Nat
  BY ProcessFacts, KnownMigrations
<1>11. Migs[p][bt[p].ver + 1] \in Migration
  <2>1. bt[p].ver + 1 \in 1 .. Len(Migs[p])
    BY <1>10
  <2> QED
    BY <1>10, <2>1
<1>12. /\ schema' \in Seq(Migration) /\ Len(schema') = Len(schema) + 1
       /\ \A i \in 1 .. Len(schema) : schema'[i] = schema[i]
       /\ schema'[Len(schema) + 1] = Migs[p][Len(schema) + 1]
  BY <1>10, <1>11
<1>13. \A i \in 1 .. Len(schema) : schema[i] = Migs[p][i]
  BY <1>3 DEF SchemaFits
<1>14. \A i \in 1 .. Len(schema') : i \in 1 .. Len(schema) \/ i = Len(schema) + 1
  BY <1>10, <1>12
<1>15. \A i \in 1 .. Len(schema') : schema'[i] = Migs[p][i]
  BY <1>12, <1>13, <1>14
<1>16. Len(schema') <= Len(Migs[p])
  BY <1>10, <1>12
<1>17. History'
  <2>1. IsPrefix(schema', Migs[p])
    BY <1>10, <1>12, <1>15, <1>16, PrefixByElements
  <2> QED
    BY <2>1 DEF History
<1>18. ASSUME NEW q \in Proc PROVE SchemaFits(q)'
  <2>1. CASE q = p
    <3>1. bt'[q] = b /\ b.pc = "migrate" /\ b.ver = Len(schema')
      BY <1>2, <1>6, <1>12, <2>1, Records
    <3> QED
      BY <1>10, <1>12, <1>15, <1>16, <2>1, <3>1 DEF SchemaFits, OnSchema
  <2>2. CASE q # p
    <3>1. bt'[q] = bt[q] /\ SchemaFits(q) /\ bt[q].ver \in Nat
      BY <1>6, <2>2, Records, ProcessFacts DEF ProcRecord
    <3>2. ASSUME bt[q].pc = "migrate"
          PROVE  /\ bt[q].ver <= Len(schema') /\ bt[q].ver <= Len(Migs[q])
                 /\ \A i \in 1 .. bt[q].ver : schema'[i] = Migs[q][i]
      BY <1>10, <1>12, <3>1, <3>2 DEF SchemaFits
    <3>3. ASSUME bt[q].db, bt[q].pc \in OnSchema, ~raced, ~forced PROVE FALSE
      BY <2>2, <3>3, OneHolder DEF OnSchema, Holding
    <3> QED
      BY <3>1, <3>2, <3>3 DEF SchemaFits
  <2> QED
    BY <2>1, <2>2
<1> QED
  BY <1>6, <1>7, <1>8, <1>9, <1>12, <1>17, <1>18, StepKeeps DEF BootInv, BootTypeOK

\* ApplyMigration keeps the invariant, whether another process was faster or not.
LEMMA ApplyKeeps ==
    ASSUME BootInv, NEW p \in Proc, ApplyMigration(p)
    PROVE  BootInv'
<1>1. bt[p].pc = "migrate" /\ bt[p].ver < Len(Migs[p]) /\ UNCHANGED <<lockFile, metaFile, cli, raced, forced>>
  BY DEF ApplyMigration, At
<1>2. CASE Len(schema) = bt[p].ver
  BY <1>1, <1>2, AppliedKeeps DEF ApplyMigration
<1>3. CASE Len(schema) # bt[p].ver
  BY <1>1, <1>3, AbandonKeeps DEF ApplyMigration, Alone
<1> QED
  BY <1>2, <1>3

\* A process that has applied all it knows works on exactly that schema.
LEMMA MigratedKeeps ==
    ASSUME BootInv, NEW p \in Proc, bt[p].pc = "migrate", bt[p].ver = Len(Migs[p]), Len(schema) = Len(Migs[p]),
           BootGoto(p, "recover"), Alone
    PROVE  BootInv'
<1> DEFINE b == [bt[p] EXCEPT !.pc = "recover"]
<1>1. bt' = [bt EXCEPT ![p] = b]
  BY ProcessFacts DEF BootGoto
<1>2. /\ b \in ProcRecord /\ b.pc = "recover" /\ b.tries = bt[p].tries /\ b.db = bt[p].db
      /\ b.seen = bt[p].seen /\ b.st = bt[p].st /\ b.written = bt[p].written /\ b.writes = bt[p].writes
      /\ b.mw = bt[p].mw /\ b.rt = bt[p].rt /\ b.cl = bt[p].cl /\ b.ver = bt[p].ver
  <2>1. bt[p] \in ProcRecord
    BY ProcessFacts
  <2> QED
    BY <2>1 DEF ProcRecord
<1> HIDE DEF b
<1>3. bt[p].pc \in Starting /\ PhasesFit(bt[p]) /\ SchemaFits(p)
  BY ProcessFacts DEF Starting
<1>4. StartsOn(p, b)
  BY <1>1, <1>2, <1>3 DEF StartsOn, Starting, Opened, Acquiring, Holding, PhasesFit
<1>5. JudgedKept(p, b)
  BY <1>2, ProcessFacts DEF JudgedKept, JudgedFits
<1>6. LockKept(p, b)
  BY <1>2, <1>3, StartFacts DEF LockKept, Holding
<1>7. schema = Migs[p]
  <2>1. schema \in Seq(Migration) /\ Migs[p] \in Seq(Migration) /\ \A i \in 1 .. Len(schema) : schema[i] = Migs[p][i]
    BY <1>3, ProcessFacts, KnownMigrations DEF SchemaFits
  <2> QED
    BY <2>1, SeqEqual
<1>8. SchemaKept(p, b)
  BY <1>2, <1>7 DEF SchemaKept
<1> QED
  BY <1>4, <1>5, <1>6, <1>8, StartMoves, AloneKeeps

\* Migrated and RecoverState go on or abandon the start.
LEMMA RecoveryKeeps ==
    ASSUME BootInv, NEW p \in Proc, Migrated(p) \/ RecoverState(p)
    PROVE  BootInv'
<1>1. CASE Migrated(p)
  <2>1. bt[p].pc = "migrate" /\ bt[p].ver = Len(Migs[p]) /\ Alone
    BY <1>1 DEF Migrated, At, Alone
  <2>2. CASE Len(schema) = Len(Migs[p])
    BY <1>1, <2>1, <2>2, MigratedKeeps DEF Migrated, BootGoto
  <2>3. CASE Len(schema) # Len(Migs[p])
    BY <1>1, <2>1, <2>3, AbandonKeeps DEF Migrated
  <2> QED
    BY <2>2, <2>3
<1>2. CASE RecoverState(p)
  <2>1. bt[p].pc = "recover" /\ Alone /\ (BootGoto(p, "build") \/ bt' = Abandon(p))
    BY <1>2 DEF RecoverState, At, Alone
  <2> QED
    BY <2>1, OnwardKeeps, AbandonKeeps DEF Onward
<1> QED
  BY <1>1, <1>2

\* The services are built and started, or the process is left behind.
LEMMA ServicesKeep ==
    ASSUME BootInv, NEW p \in Proc, BuildServices(p) \/ StartServices(p)
    PROVE  BootInv'
<1>1. CASE BuildServices(p)
  <2>1. bt[p].pc = "build" /\ Alone /\ (BootGoto(p, "services") \/ BootGoto(p, "stranded"))
    BY <1>1 DEF BuildServices, At, Alone
  <2> QED
    BY <2>1, OnwardKeeps DEF Onward
<1>2. CASE StartServices(p)
  <2>1. bt[p].pc = "services" /\ Alone /\ (BootGoto(p, "start") \/ BootGoto(p, "stranded"))
    BY <1>2 DEF StartServices, At, Alone
  <2> QED
    BY <2>1, OnwardKeeps DEF Onward
<1> QED
  BY <1>1, <1>2

-----------------------------------------------------------------------------
(* A Host that listens, becomes ready and closes.                           *)

\* The writes one after the other.
LEMMA TailFacts ==
    ASSUME NEW w \in Tails, w # <<>>
    PROVE  /\ Head(w) = w[1] /\ w[1] \in HostState /\ w[1] \in {"LISTENING", "READY"} \cup EndState
           /\ Tail(w) \in {<<>>} \cup {<<s>> : s \in EndState}
           /\ w[1] = "LISTENING" => w = <<"LISTENING">>
           /\ w[1] = "READY" /\ Tail(w) = <<>> => w = <<"READY">>
           /\ w \in {<<"LISTENING">>, <<"READY">>} => Tail(w) = <<>>
           /\ "READY" \in Range(w) <=> w[1] = "READY"
<1>0. ASSUME NEW s, w = <<s>>
      PROVE  Head(w) = s /\ w[1] = s /\ Tail(w) = <<>> /\ Range(w) = {s}
  BY <1>0, WriteFacts
<1>1. CASE w \in {<<"LISTENING">>, <<"READY">>}
  <2>1. w = <<"LISTENING">> \/ w = <<"READY">>
    BY <1>1
  <2>2. CASE w = <<"LISTENING">>
    <3>1. Head(w) = "LISTENING" /\ w[1] = "LISTENING" /\ Tail(w) = <<>> /\ Range(w) = {"LISTENING"}
      BY <1>0, <2>2
    <3> QED
      BY <2>2, <3>1 DEF HostState
  <2>3. CASE w = <<"READY">>
    <3>1. Head(w) = "READY" /\ w[1] = "READY" /\ Tail(w) = <<>> /\ Range(w) = {"READY"}
      BY <1>0, <2>3
    <3> QED
      BY <2>3, <3>1 DEF HostState
  <2> QED
    BY <2>1, <2>2, <2>3
<1>2. ASSUME NEW s \in EndState, w = <<s>>
      PROVE  /\ Head(w) = s /\ w[1] = s /\ Tail(w) = <<>> /\ Range(w) = {s} /\ s \in HostState
             /\ s \notin {"LISTENING", "READY"} /\ w \notin {<<"LISTENING">>, <<"READY">>}
  <2>1. Head(w) = s /\ w[1] = s /\ Tail(w) = <<>> /\ Range(w) = {s}
    BY <1>0, <1>2
  <2>2. s \in HostState /\ s \notin {"LISTENING", "READY"}
    BY DEF HostState, EndState
  <2>3. w \notin {<<"LISTENING">>, <<"READY">>}
    BY <2>1, <2>2
  <2> QED
    BY <2>1, <2>2, <2>3
<1>3. ASSUME NEW s \in EndState, w = <<"READY", s>>
      PROVE  /\ Head(w) = "READY" /\ w[1] = "READY" /\ Tail(w) = <<s>> /\ <<s>> # <<>> /\ Range(w) = {"READY", s}
             /\ w \notin {<<"LISTENING">>, <<"READY">>}
  BY <1>3, WriteFacts
<1>4. w \in {<<"LISTENING">>, <<"READY">>} \/ (\E s \in EndState : w = <<s>>) \/ (\E s \in EndState : w = <<"READY", s>>)
  BY DEF Tails
<1>5. CASE \E s \in EndState : w = <<s>>
  BY <1>2, <1>5
<1>6. CASE \E s \in EndState : w = <<"READY", s>>
  BY <1>3, <1>6 DEF HostState
<1> QED
  BY <1>1, <1>4, <1>5, <1>6

\* The sequences of writes that occur are different ones, of states.
LEMMA TailsDiffer ==
           /\ <<>> \in Tails /\ <<"LISTENING">> \in Tails /\ <<"READY">> \in Tails
           /\ \A s \in EndState : <<s>> \in Tails /\ <<"READY", s>> \in Tails
           /\ <<"LISTENING">> # <<>> /\ <<"READY">> # <<>> /\ <<"LISTENING">> # <<"READY">>
           /\ \A s \in EndState : <<s>> \notin {<<>>, <<"LISTENING">>, <<"READY">>} /\ <<s>>[1] = s
           /\ \A s \in EndState : <<"READY", s>> \notin {<<>>, <<"LISTENING">>, <<"READY">>}
           /\ "READY" \notin EndState /\ EndState \subseteq HostState
           /\ Tails \subseteq Seq(HostState)
<1>1. /\ <<>> \in Tails /\ <<"LISTENING">> \in Tails /\ <<"READY">> \in Tails
      /\ \A s \in EndState : <<s>> \in Tails /\ <<"READY", s>> \in Tails
  BY DEF Tails
<1>2. "READY" \notin EndState /\ EndState \subseteq HostState /\ "READY" \in HostState /\ "LISTENING" \in HostState
  BY DEF EndState, HostState
<1>3. <<"LISTENING">> # <<>> /\ <<"READY">> # <<>> /\ <<"LISTENING">> # <<"READY">>
  OBVIOUS
<1>4. \A s \in EndState : <<s>> \notin {<<>>, <<"LISTENING">>, <<"READY">>} /\ <<s>>[1] = s
  BY DEF EndState
<1>5. \A s \in EndState : <<"READY", s>> \notin {<<>>, <<"LISTENING">>, <<"READY">>}
  OBVIOUS
<1>6. Tails \subseteq Seq(HostState)
  <2>1. \A s \in HostState : <<s>> \in Seq(HostState)
    OBVIOUS
  <2>2. \A s, t \in HostState : <<s, t>> \in Seq(HostState)
    OBVIOUS
  <2>3. <<>> \in Seq(HostState)
    OBVIOUS
  <2> QED
    BY <1>2, <2>1, <2>2, <2>3 DEF Tails
<1> QED
  BY <1>1, <1>2, <1>3, <1>4, <1>5, <1>6

\* A step of a Host that neither takes a lock nor changes the schema.
Goes(p, b) ==
    /\ p \in Proc /\ b \in ProcRecord /\ bt' = [bt EXCEPT ![p] = b]
    /\ bt[p].pc \notin {"new", "gone", "dead"} /\ b.pc # "new"
    /\ b.seen = bt[p].seen /\ b.ver = bt[p].ver
    /\ b.pc \in Holding => bt[p].pc \in Holding
    /\ b.pc \in {"rmMeta", "rmLock", "migrate"} => bt[p].pc = b.pc
    /\ b.db /\ b.pc \in OnSchema => bt[p].db /\ bt[p].pc \in OnSchema
    /\ Published(bt[p]) => Published(b)
    /\ PhasesFit(b) /\ WritesFit(b)

\* What such a step leaves alone.
LEMMA GoesKept ==
    ASSUME BootInv, NEW p, NEW b, Goes(p, b), Marked
    PROVE  /\ Becomes(p, b) /\ Moves(p, b) /\ SchemaKept(p, b)
           /\ b.cl # "done" => LockKept(p, b)
<1>1. p \in Proc
  BY DEF Goes
<1>2. Becomes(p, b)
  BY DEF Goes, Becomes
<1>3. JudgedKept(p, b)
  <2>1. JudgedFits(p)
    BY <1>1, ProcessFacts
  <2> QED
    BY <2>1 DEF Goes, JudgedKept, JudgedFits, Marked
<1>4. SchemaKept(p, b)
  <2>1. SchemaFits(p)
    BY <1>1, ProcessFacts
  <2> QED
    BY <2>1 DEF Goes, SchemaKept, SchemaFits
<1> QED
  BY <1>2, <1>3, <1>4 DEF Goes, Moves, LockKept

\* Such a step alone keeps the invariant.
LEMMA GoesAlone ==
    ASSUME BootInv, NEW p, NEW b, Goes(p, b), MetaKept(p, b), LockKept(p, b), Alone
    PROVE  BootInv'
<1>1. Marked
  BY DEF BootInv, BootTypeOK, Marked, Alone
<1> QED
  BY <1>1, GoesKept, AloneKeeps

\* A Host begins to listen and writes its metadata.
LEMMA ListensKeeps ==
    ASSUME BootInv, NEW p \in Proc, bt[p].pc = "start", bt' = [Persist(p, "LISTENING") EXCEPT ![p].pc = "listening"], Alone
    PROVE  BootInv'
<1> DEFINE b == [bt[p] EXCEPT !.st = "LISTENING", !.writes = Append(bt[p].writes, "LISTENING"), !.pc = "listening"]
<1>1. bt[p].pc = "start" /\ bt' = [bt EXCEPT ![p] = b] /\ Alone
  BY ProcessFacts DEF Persist, Alone
<1>2. /\ b \in ProcRecord /\ b.pc = "listening" /\ b.tries = bt[p].tries /\ b.db = bt[p].db
      /\ b.seen = bt[p].seen /\ b.st = "LISTENING" /\ b.written = bt[p].written
      /\ b.writes = Append(bt[p].writes, "LISTENING") /\ b.mw = bt[p].mw /\ b.rt = bt[p].rt
      /\ b.cl = bt[p].cl /\ b.ver = bt[p].ver
  <2>0. "LISTENING" \in HostState /\ Append(bt[p].writes, "LISTENING") \in Seq(HostState)
    BY ProcessFacts DEF ProcRecord, HostState
  <2>1. bt[p] \in ProcRecord
    BY ProcessFacts
  <2> QED
    BY <2>0, <2>1 DEF ProcRecord
<1> HIDE DEF b
<1>3. PhasesFit(bt[p]) /\ WritesFit(bt[p]) /\ bt[p] \in ProcRecord
  BY ProcessFacts
<1>a. bt[p].writes = <<>> => b.writes = <<"LISTENING">>
  <2>1. Append(<<>>, "LISTENING") = <<"LISTENING">>
    BY WriteFacts
  <2> QED
    BY <1>2, <2>1
<1>4. /\ b.writes = <<"LISTENING">>
      /\ bt[p].cl = "no" /\ bt[p].rt = "none" /\ bt[p].writes = <<>> /\ ~bt[p].written /\ bt[p].mw = "idle"
      /\ bt[p].st # "LISTENING" /\ Owner(metaFile) # p /\ ~Published(bt[p]) /\ bt[p].db
  BY <1>1, <1>2, <1>3, StartFacts, <1>a DEF Starting, PhasesFit, Opened
<1>5. PhasesFit(b)
  BY <1>1, <1>2, <1>3, <1>4 DEF PhasesFit, Acquiring, Holding, Opened, Starting, Published
<1>6. WritesFit(b)
  BY <1>1, <1>2, <1>3, <1>4, TailsDiffer, WriteFacts DEF WritesFit, Starting, Draining
<1>7. Goes(p, b)
  BY <1>1, <1>2, <1>3, <1>4, <1>5, <1>6 DEF Goes, Holding, OnSchema, Published, PhasesFit
<1>8. MetaKept(p, b)
  BY <1>4 DEF MetaKept
<1>9. LockKept(p, b)
  BY <1>1, <1>2, <1>4 DEF LockKept, Holding
<1> QED
  BY <1>1, <1>7, <1>8, <1>9, GoesAlone

\* A start that fails at the listener gives up its database.
LEMMA FailsKeeps ==
    ASSUME BootInv, NEW p \in Proc, bt[p].pc = "start", Alone,
           bt' = [bt EXCEPT ![p].st = "FAILED", ![p].pc = "stranded", ![p].cl = "database"]
    PROVE  BootInv'
<1> DEFINE b == [bt[p] EXCEPT !.st = "FAILED", !.pc = "stranded", !.cl = "database"]
<1>1. bt[p].pc = "start" /\ bt' = [bt EXCEPT ![p] = b] /\ Alone
  BY ProcessFacts DEF Alone
<1>2. /\ b \in ProcRecord /\ b.pc = "stranded" /\ b.tries = bt[p].tries /\ b.db = bt[p].db
      /\ b.seen = bt[p].seen /\ b.st = "FAILED" /\ b.written = bt[p].written /\ b.writes = bt[p].writes
      /\ b.mw = bt[p].mw /\ b.rt = bt[p].rt /\ b.cl = "database" /\ b.ver = bt[p].ver
  <2>0. "FAILED" \in HostState
    BY DEF HostState
  <2>1. bt[p] \in ProcRecord
    BY ProcessFacts
  <2> QED
    BY <2>0, <2>1 DEF ProcRecord
<1> HIDE DEF b
<1>3. PhasesFit(bt[p]) /\ WritesFit(bt[p]) /\ bt[p] \in ProcRecord
  BY ProcessFacts
<1>4. /\ bt[p].cl = "no" /\ bt[p].rt = "none" /\ bt[p].writes = <<>> /\ ~bt[p].written /\ bt[p].mw = "idle"
      /\ bt[p].st # "LISTENING" /\ Owner(metaFile) # p /\ ~Published(bt[p]) /\ bt[p].db
  BY <1>1, <1>3, StartFacts DEF Starting, PhasesFit, Opened
<1>5. PhasesFit(b)
  BY <1>1, <1>2, <1>3, <1>4 DEF PhasesFit, Acquiring, Holding, Opened, Starting, Published
<1>6. WritesFit(b)
  BY <1>1, <1>2, <1>3, <1>4, TailsDiffer, WriteFacts DEF WritesFit, Starting, Draining
<1>7. Goes(p, b)
  BY <1>1, <1>2, <1>3, <1>4, <1>5, <1>6 DEF Goes, Holding, OnSchema, Published, PhasesFit
<1>8. MetaKept(p, b)
  BY <1>4 DEF MetaKept
<1>9. LockKept(p, b)
  BY <1>1, <1>2, <1>4 DEF LockKept, Holding
<1> QED
  BY <1>1, <1>7, <1>8, <1>9, GoesAlone

\* Listen and StartFails.
LEMMA ListenKeeps ==
    ASSUME BootInv, NEW p \in Proc, Listen(p) \/ StartFails(p)
    PROVE  BootInv'
<1>1. bt[p].pc = "start" /\ Alone
  BY DEF Listen, StartFails, At, Alone
<1>2. \/ bt' = [Persist(p, "LISTENING") EXCEPT ![p].pc = "listening"]
      \/ bt' = [bt EXCEPT ![p].st = "FAILED", ![p].pc = "stranded", ![p].cl = "database"]
  BY DEF Listen, StartFails
<1> QED
  BY <1>1, <1>2, ListensKeeps, FailsKeeps

\* The old metadata file is removed before the next one gets its name.
LEMMA RemovedKeeps ==
    ASSUME BootInv, NEW p \in Proc, MetadataRemoved(p)
    PROVE  BootInv'
<1> DEFINE b == [bt[p] EXCEPT !.mw = "removed"]
<1>1. bt[p].writes # <<>> /\ bt[p].mw = "idle" /\ bt[p].pc \notin {"new", "gone", "dead"}
      /\ metaFile' = NoFile /\ UNCHANGED <<lockFile, schema, cli, raced, forced>> /\ bt' = [bt EXCEPT ![p] = b]
  BY ProcessFacts DEF MetadataRemoved, Live
<1>2. /\ b \in ProcRecord /\ b.pc = bt[p].pc /\ b.tries = bt[p].tries /\ b.db = bt[p].db
      /\ b.seen = bt[p].seen /\ b.st = bt[p].st /\ b.written = bt[p].written /\ b.writes = bt[p].writes
      /\ b.mw = "removed" /\ b.rt = bt[p].rt /\ b.cl = bt[p].cl /\ b.ver = bt[p].ver
  <2>1. bt[p] \in ProcRecord
    BY ProcessFacts
  <2> QED
    BY <2>1 DEF ProcRecord
<1> HIDE DEF b
<1>3. PhasesFit(bt[p]) /\ WritesFit(bt[p]) /\ bt[p] \in ProcRecord
  BY ProcessFacts
<1>5. PhasesFit(b) /\ WritesFit(b)
  BY <1>1, <1>2, <1>3 DEF PhasesFit, WritesFit, Published, Draining
<1>6. Goes(p, b)
  BY <1>1, <1>2, <1>5 DEF Goes, Published
<1>7. MetaKept(p, b)
  BY <1>1, <1>2, ProcessFacts DEF MetaKept, MetaFits
<1>8. LockKept(p, b)
  BY <1>1, <1>2, <1>3 DEF LockKept, PhasesFit
<1>9. Marked
  BY <1>1, ProcessFacts DEF Marked
<1> QED
  BY <1>1, <1>6, <1>7, <1>8, <1>9, GoesKept, QuietKeeps

\* The file gets the snapshot that is first in the tail of writes.
LEMMA RenamedKeeps ==
    ASSUME BootInv, NEW p \in Proc, MetadataRenamed(p)
    PROVE  BootInv'
<1> DEFINE b == [bt[p] EXCEPT !.mw = "renamed"]
<1>1. bt[p].mw = "removed" /\ bt[p].pc \notin {"new", "gone", "dead"}
      /\ UNCHANGED <<lockFile, schema, cli, raced, forced>> /\ bt' = [bt EXCEPT ![p] = b]
  BY ProcessFacts DEF MetadataRenamed, Live
<1>2. /\ b \in ProcRecord /\ b.pc = bt[p].pc /\ b.tries = bt[p].tries /\ b.db = bt[p].db
      /\ b.seen = bt[p].seen /\ b.st = bt[p].st /\ b.written = bt[p].written /\ b.writes = bt[p].writes
      /\ b.mw = "renamed" /\ b.rt = bt[p].rt /\ b.cl = bt[p].cl /\ b.ver = bt[p].ver
  <2>1. bt[p] \in ProcRecord
    BY ProcessFacts
  <2> QED
    BY <2>1 DEF ProcRecord
<1> HIDE DEF b
<1>3. PhasesFit(bt[p]) /\ WritesFit(bt[p]) /\ bt[p] \in ProcRecord
  BY ProcessFacts
<1>4. bt[p].writes # <<>> /\ bt[p].cl \notin Draining \cup {"done"}
  BY <1>1, <1>3 DEF WritesFit, PhasesFit
<1>5. PhasesFit(b) /\ WritesFit(b)
  BY <1>1, <1>2, <1>3, <1>4 DEF PhasesFit, WritesFit, Published, Draining
<1>6. Goes(p, b)
  BY <1>1, <1>2, <1>5 DEF Goes, Published
<1>7. metaFile' \in PrivateMetadata /\ metaFile'.owner = p /\ metaFile'.st = bt[p].writes[1] /\ metaFile' # NoFile
  <2>1. Head(bt[p].writes) = bt[p].writes[1] /\ bt[p].writes[1] \in HostState
    BY <1>3, <1>4, TailFacts DEF WritesFit
  <2>2. metaFile' = [owner |-> p, st |-> Head(bt[p].writes)]
    BY DEF MetadataRenamed
  <2>3. metaFile' \in PrivateMetadata
    BY <2>1, <2>2 DEF PrivateMetadata
  <2> QED
    BY <2>1, <2>2, <2>3, BootAssumption DEF BootAssumption
<1>8. LockKept(p, b)
  BY <1>1, <1>2, <1>3, <1>4 DEF LockKept
<1>9. Marked
  BY <1>1, ProcessFacts DEF Marked
<1>10. Becomes(p, b) /\ Moves(p, b) /\ SchemaKept(p, b)
  BY <1>6, <1>9, GoesKept
<1>11. \A q \in Proc : LockFits(q)'
  BY <1>1, <1>8, <1>9, <1>10, LocksKept DEF Owner
<1>12. (\A q \in Proc : SchemaFits(q)') /\ History'
  BY <1>1, <1>9, <1>10, SchemasKept
<1>13. ASSUME NEW q \in Proc PROVE MetaFits(q)'
  <2>1. CASE q = p
    <3>1. bt'[q] = b /\ b.mw = "renamed" /\ b.writes = bt[p].writes /\ b.cl = bt[p].cl
      BY <1>2, <1>10, <2>1, Records
    <3> QED
      BY <1>4, <1>7, <3>1 DEF MetaFits, Published, Draining
  <2>2. CASE q # p
    BY <1>7, <2>2 DEF MetaFits, Owner
  <2> QED
    BY <2>1, <2>2
<1> QED
  BY <1>1, <1>7, <1>9, <1>10, <1>11, <1>12, <1>13, StepKeeps DEF BootInv, BootTypeOK

\* A write is done, and the next one may begin.
LEMMA WrittenKeeps ==
    ASSUME BootInv, NEW p \in Proc, MetadataWritten(p)
    PROVE  BootInv'
<1> DEFINE b == [bt[p] EXCEPT !.mw = "idle", !.writes = Tail(bt[p].writes), !.written = TRUE]
<1>1. bt[p].mw = "renamed" /\ bt[p].pc \notin {"new", "gone", "dead"} /\ bt' = [bt EXCEPT ![p] = b] /\ Alone
  BY ProcessFacts DEF MetadataWritten, Live, Alone
<1>2. /\ b \in ProcRecord /\ b.pc = bt[p].pc /\ b.tries = bt[p].tries /\ b.db = bt[p].db
      /\ b.seen = bt[p].seen /\ b.st = bt[p].st /\ b.written = TRUE /\ b.writes = Tail(bt[p].writes)
      /\ b.mw = "idle" /\ b.rt = bt[p].rt /\ b.cl = bt[p].cl /\ b.ver = bt[p].ver
  <2>0. Tail(bt[p].writes) \in Seq(HostState)
    <3>1. bt[p].writes \in Seq(HostState) /\ bt[p].writes # <<>>
      BY <1>1, ProcessFacts DEF ProcRecord, WritesFit
    <3> QED
      BY <3>1
  <2>1. bt[p] \in ProcRecord
    BY ProcessFacts
  <2> QED
    BY <2>0, <2>1 DEF ProcRecord
<1> HIDE DEF b
<1>3. PhasesFit(bt[p]) /\ WritesFit(bt[p]) /\ bt[p] \in ProcRecord
  BY ProcessFacts
<1>4. /\ bt[p].writes # <<>> /\ bt[p].pc \notin Starting \cup {"stranded"} /\ bt[p].cl # "done"
      /\ b.writes \in {<<>>} \cup {<<s>> : s \in EndState}
      /\ bt[p].writes[1] = "LISTENING" => bt[p].writes = <<"LISTENING">>
      /\ bt[p].writes[1] = "READY" /\ b.writes = <<>> => bt[p].writes = <<"READY">>
      /\ bt[p].writes \in {<<"LISTENING">>, <<"READY">>} => b.writes = <<>>
      /\ b.writes \in Tails /\ b.writes \notin {<<"LISTENING">>, <<"READY">>}
      /\ b.writes # <<>> => b.writes[1] # "READY"
  <2>1. bt[p].writes # <<>> /\ bt[p].pc \notin Starting \cup {"stranded"} /\ bt[p].cl # "done" /\ bt[p].writes \in Tails
    BY <1>1, <1>3 DEF WritesFit, PhasesFit
  <2>2. /\ b.writes \in {<<>>} \cup {<<s>> : s \in EndState}
        /\ bt[p].writes[1] = "LISTENING" => bt[p].writes = <<"LISTENING">>
        /\ bt[p].writes[1] = "READY" /\ b.writes = <<>> => bt[p].writes = <<"READY">>
        /\ bt[p].writes \in {<<"LISTENING">>, <<"READY">>} => b.writes = <<>>
    BY <1>2, <2>1, TailFacts
  <2>3. /\ b.writes \in Tails /\ b.writes \notin {<<"LISTENING">>, <<"READY">>}
        /\ b.writes # <<>> => b.writes[1] # "READY"
    BY <2>2, TailsDiffer
  <2> QED
    BY <2>1, <2>2, <2>3
<1>5. PhasesFit(b)
  BY <1>1, <1>2, <1>3, <1>4 DEF PhasesFit, Acquiring, Holding, Opened, Starting, Published
<1>6. WritesFit(b)
  BY <1>1, <1>2, <1>3, <1>4 DEF WritesFit, Starting, Draining
<1>7. Goes(p, b)
  BY <1>1, <1>2, <1>3, <1>4, <1>5, <1>6 DEF Goes, Holding, OnSchema, Published, PhasesFit
<1>a. Owner(metaFile) = p =>
         /\ b.cl \notin {"lock", "unlock", "done"} /\ b.mw # "renamed"
         /\ b.cl \in {"persist", "await", "drain", "database", "meta"} /\ b.writes = <<>> => metaFile.st # "READY"
  <2>1. Owner(metaFile) = p => b.cl \notin {"lock", "unlock", "done"} /\ metaFile.st = bt[p].writes[1]
    BY <1>1, <1>2, ProcessFacts DEF MetaFits
  <2>2. b.cl \in {"persist", "await", "drain", "database", "meta"} /\ b.writes = <<>> => bt[p].writes[1] # "READY"
    <3>1. CASE b.cl = "persist"
      BY <1>2, <1>3, <1>4, <3>1 DEF WritesFit
    <3>2. CASE b.cl \in Draining
      <4>1. bt[p].writes = <<"LISTENING">>
        BY <1>2, <1>3, <1>4, <3>2 DEF WritesFit
      <4> QED
        BY <4>1, WriteFacts
    <3> QED
      BY <3>1, <3>2 DEF Draining
  <2> QED
    BY <1>2, <2>1, <2>2
<1>8. MetaKept(p, b)
  BY <1>a DEF MetaKept
<1>9. LockKept(p, b)
  BY <1>1, <1>2, <1>3, <1>4, ProcessFacts DEF LockKept, PhasesFit, Holding
<1> QED
  BY <1>1, <1>7, <1>8, <1>9, GoesAlone

\* The Host is up: the readiness task begins.
LEMMA ListeningKeeps ==
    ASSUME BootInv, NEW p \in Proc, Listening(p)
    PROVE  BootInv'
<1> DEFINE b == [bt[p] EXCEPT !.pc = "up", !.rt = "delay"]
<1>1. bt[p].pc = "listening" /\ bt[p].writes = <<>> /\ bt' = [bt EXCEPT ![p] = b] /\ Alone
  BY ProcessFacts DEF Listening, At, Alone
<1>2. /\ b \in ProcRecord /\ b.pc = "up" /\ b.tries = bt[p].tries /\ b.db = bt[p].db /\ b.seen = bt[p].seen
      /\ b.st = bt[p].st /\ b.written = bt[p].written /\ b.writes = bt[p].writes /\ b.mw = bt[p].mw
      /\ b.rt = "delay" /\ b.cl = bt[p].cl /\ b.ver = bt[p].ver
  <2>1. bt[p] \in ProcRecord
    BY ProcessFacts
  <2> QED
    BY <2>1 DEF ProcRecord
<1> HIDE DEF b
<1>3. PhasesFit(bt[p]) /\ WritesFit(bt[p]) /\ bt[p] \in ProcRecord
  BY ProcessFacts
<1>4. bt[p].written /\ bt[p].cl # "done"
  BY <1>1, <1>3, TailsDiffer DEF WritesFit, PhasesFit
<1>5. PhasesFit(b)
  BY <1>1, <1>2, <1>3, <1>4 DEF PhasesFit, Acquiring, Holding, Opened, Starting, Published
<1>6. WritesFit(b)
  BY <1>1, <1>2, <1>3, <1>4 DEF WritesFit, Starting, Draining
<1>7. Goes(p, b)
  BY <1>1, <1>2, <1>3, <1>4, <1>5, <1>6 DEF Goes, Holding, OnSchema, Published, PhasesFit
<1>8. MetaKept(p, b)
  BY <1>2, ProcessFacts DEF MetaKept, MetaFits
<1>9. LockKept(p, b)
  BY <1>1, <1>2, <1>3, <1>4, ProcessFacts DEF LockKept, PhasesFit, Holding
<1> QED
  BY <1>1, <1>7, <1>8, <1>9, GoesAlone

\* A Host that still listens says that it is ready.
LEMMA ReadyToWriteKeeps ==
    ASSUME BootInv, NEW p \in Proc, BecomeReady(p), bt[p].st = "LISTENING"
    PROVE  BootInv'
<1> DEFINE b == [bt[p] EXCEPT !.st = "READY", !.writes = Append(bt[p].writes, "READY"), !.rt = "writing"]
<1>1. bt[p].rt = "delay" /\ bt[p].st = "LISTENING" /\ bt[p].pc \notin {"new", "gone", "dead"}
      /\ bt' = [bt EXCEPT ![p] = b] /\ Alone
  BY ProcessFacts DEF BecomeReady, Persist, Live, Alone
<1>2. /\ b \in ProcRecord /\ b.pc = bt[p].pc /\ b.tries = bt[p].tries /\ b.db = bt[p].db
      /\ b.seen = bt[p].seen /\ b.st = "READY" /\ b.written = bt[p].written
      /\ b.writes = Append(bt[p].writes, "READY") /\ b.mw = bt[p].mw /\ b.rt = "writing" /\ b.cl = bt[p].cl
      /\ b.ver = bt[p].ver
  <2>0. "READY" \in HostState /\ Append(bt[p].writes, "READY") \in Seq(HostState)
    BY ProcessFacts DEF ProcRecord, HostState
  <2>1. bt[p] \in ProcRecord
    BY ProcessFacts
  <2> QED
    BY <2>0, <2>1 DEF ProcRecord
<1> HIDE DEF b
<1>3. PhasesFit(bt[p]) /\ WritesFit(bt[p]) /\ bt[p] \in ProcRecord
  BY ProcessFacts
<1>4. bt[p].pc = "up" /\ bt[p].written /\ bt[p].cl \in {"no", "asked"} /\ bt[p].writes = <<>> /\ b.writes = <<"READY">>
  <2>1. bt[p].pc = "up" /\ bt[p].written
    BY <1>1, <1>3 DEF PhasesFit
  <2>2. bt[p].cl \in {"no", "asked"}
    BY <1>1, <1>3 DEF PhasesFit
  <2>3. bt[p].writes = <<>>
    BY <1>1, <1>3, <2>1, <2>2, TailsDiffer, WriteFacts DEF WritesFit
  <2> QED
    BY <1>2, <2>1, <2>2, <2>3, WriteFacts
<1>5. PhasesFit(b)
  BY <1>1, <1>2, <1>3, <1>4 DEF PhasesFit, Acquiring, Holding, Opened, Starting, Published
<1>6. WritesFit(b)
  BY <1>1, <1>2, <1>3, <1>4, TailsDiffer, WriteFacts DEF WritesFit, Starting, Draining
<1>7. Goes(p, b)
  BY <1>1, <1>2, <1>3, <1>4, <1>5, <1>6 DEF Goes, Holding, OnSchema, Published, PhasesFit
<1>8. MetaKept(p, b)
  BY <1>2, <1>4, TailsDiffer, ProcessFacts DEF MetaKept, MetaFits, WritesFit
<1>9. LockKept(p, b)
  BY <1>1, <1>2, <1>3, <1>4, ProcessFacts DEF LockKept, PhasesFit, Holding
<1> QED
  BY <1>1, <1>7, <1>8, <1>9, GoesAlone

\* A Host that is being closed does not become ready.
LEMMA NotReadyKeeps ==
    ASSUME BootInv, NEW p \in Proc, BecomeReady(p), bt[p].st # "LISTENING"
    PROVE  BootInv'
<1> DEFINE b == [bt[p] EXCEPT !.rt = "rejected"]
<1>1. bt[p].rt = "delay" /\ bt[p].pc \notin {"new", "gone", "dead"}
      /\ bt' = [bt EXCEPT ![p] = b] /\ Alone
  BY ProcessFacts DEF BecomeReady, Persist, Live, Alone
<1>2. /\ b \in ProcRecord /\ b.pc = bt[p].pc /\ b.tries = bt[p].tries /\ b.db = bt[p].db
      /\ b.seen = bt[p].seen /\ b.st = bt[p].st /\ b.written = bt[p].written /\ b.writes = bt[p].writes
      /\ b.mw = bt[p].mw /\ b.rt = "rejected" /\ b.cl = bt[p].cl /\ b.ver = bt[p].ver
  <2>1. bt[p] \in ProcRecord
    BY ProcessFacts
  <2> QED
    BY <2>1 DEF ProcRecord
<1> HIDE DEF b
<1>3. PhasesFit(bt[p]) /\ WritesFit(bt[p]) /\ bt[p] \in ProcRecord
  BY ProcessFacts
<1>4. bt[p].cl # "done"
  BY <1>1, <1>3 DEF PhasesFit
<1>5. PhasesFit(b)
  BY <1>1, <1>2, <1>3, <1>4 DEF PhasesFit, Acquiring, Holding, Opened, Starting, Published
<1>6. WritesFit(b)
  BY <1>1, <1>2, <1>3, <1>4 DEF WritesFit, Starting, Draining
<1>7. Goes(p, b)
  BY <1>1, <1>2, <1>3, <1>4, <1>5, <1>6 DEF Goes, Holding, OnSchema, Published, PhasesFit
<1>8. MetaKept(p, b)
  BY <1>2, ProcessFacts DEF MetaKept, MetaFits
<1>9. LockKept(p, b)
  BY <1>1, <1>2, <1>3, <1>4, ProcessFacts DEF LockKept, PhasesFit, Holding
<1> QED
  BY <1>1, <1>7, <1>8, <1>9, GoesAlone

\* The write of READY is done.
LEMMA ReadyKeeps ==
    ASSUME BootInv, NEW p \in Proc, Ready(p)
    PROVE  BootInv'
<1> DEFINE b == [bt[p] EXCEPT !.rt = IF bt[p].st = "READY" THEN "resolved" ELSE "rejected"]
<1>1. bt[p].rt = "writing" /\ "READY" \notin Range(bt[p].writes) /\ bt[p].pc \notin {"new", "gone", "dead"}
      /\ bt' = [bt EXCEPT ![p] = b] /\ Alone
  BY ProcessFacts DEF Ready, Live, Alone
<1>2. /\ b \in ProcRecord /\ b.pc = bt[p].pc /\ b.tries = bt[p].tries /\ b.db = bt[p].db
      /\ b.seen = bt[p].seen /\ b.st = bt[p].st /\ b.written = bt[p].written /\ b.writes = bt[p].writes
      /\ b.mw = bt[p].mw /\ b.rt = (IF bt[p].st = "READY" THEN "resolved" ELSE "rejected")
      /\ b.cl = bt[p].cl /\ b.ver = bt[p].ver
  <2>0. (IF bt[p].st = "READY" THEN "resolved" ELSE "rejected") \in {"none", "delay", "writing", "resolved", "rejected"}
    OBVIOUS
  <2>1. bt[p] \in ProcRecord
    BY ProcessFacts
  <2> QED
    BY <2>0, <2>1 DEF ProcRecord
<1> HIDE DEF b
<1>3. PhasesFit(bt[p]) /\ WritesFit(bt[p]) /\ bt[p] \in ProcRecord
  BY ProcessFacts
<1>4. bt[p].cl # "done" /\ b.rt # "none" /\ (bt[p].writes # <<>> => bt[p].writes[1] # "READY")
  <2>1. bt[p].cl # "done" /\ b.rt # "none"
    BY <1>1, <1>2, <1>3 DEF PhasesFit
  <2>2. bt[p].writes # <<>> => bt[p].writes[1] # "READY"
    BY <1>1, <1>3, TailFacts DEF WritesFit
  <2> QED
    BY <2>1, <2>2
<1>5. PhasesFit(b)
  BY <1>1, <1>2, <1>3, <1>4 DEF PhasesFit, Acquiring, Holding, Opened, Starting, Published
<1>6. WritesFit(b)
  BY <1>1, <1>2, <1>3, <1>4 DEF WritesFit, Starting, Draining
<1>7. Goes(p, b)
  BY <1>1, <1>2, <1>3, <1>4, <1>5, <1>6 DEF Goes, Holding, OnSchema, Published, PhasesFit
<1>8. MetaKept(p, b)
  BY <1>2, ProcessFacts DEF MetaKept, MetaFits
<1>9. LockKept(p, b)
  BY <1>1, <1>2, <1>3, <1>4, ProcessFacts DEF LockKept, PhasesFit, Holding
<1> QED
  BY <1>1, <1>7, <1>8, <1>9, GoesAlone

\* The record b of a Host whose write of READY has failed; r was its record.
Failed(b, r) ==
    /\ b.pc = r.pc /\ b.tries = r.tries /\ b.db = r.db /\ b.seen = r.seen /\ b.written = r.written
    /\ b.mw = r.mw /\ b.ver = r.ver /\ b.rt = "rejected" /\ b.writes = Tail(r.writes)
    /\ r.cl = "no" => b.st = "FAILED" /\ b.cl = "asked"
    /\ r.cl # "no" => b.st = r.st /\ b.cl = r.cl

\* The write of READY has failed; unless it is closed already, the Host closes.
LEMMA ReadyFailedKeeps ==
    ASSUME BootInv, NEW p \in Proc, ReadinessFails(p), NEW b \in ProcRecord, Failed(b, bt[p]), bt' = [bt EXCEPT ![p] = b]
    PROVE  BootInv'
<1>1. bt[p].rt = "writing" /\ bt[p].mw = "idle" /\ bt[p].pc \notin {"new", "gone", "dead"}
      /\ bt[p].writes # <<>> /\ Head(bt[p].writes) = "READY" /\ bt' = [bt EXCEPT ![p] = b] /\ Alone
  BY ProcessFacts DEF ReadinessFails, Live, Alone
<1>2. /\ b \in ProcRecord /\ b.pc = bt[p].pc /\ b.tries = bt[p].tries /\ b.db = bt[p].db
      /\ b.seen = bt[p].seen /\ b.written = bt[p].written /\ b.writes = Tail(bt[p].writes)
      /\ b.mw = bt[p].mw /\ b.rt = "rejected" /\ b.ver = bt[p].ver
      /\ bt[p].cl = "no" => b.st = "FAILED" /\ b.cl = "asked"
      /\ bt[p].cl # "no" => b.st = bt[p].st /\ b.cl = bt[p].cl
  BY DEF Failed
<1>3. PhasesFit(bt[p]) /\ WritesFit(bt[p]) /\ bt[p] \in ProcRecord
  BY ProcessFacts
<1>4. /\ bt[p].pc = "up" /\ bt[p].written /\ bt[p].cl \in {"no", "asked", "persist"}
      /\ b.writes \in Tails /\ b.writes \notin {<<"LISTENING">>, <<"READY">>}
      /\ b.writes # <<>> => b.writes[1] # "READY"
      /\ bt[p].cl = "persist" => b.writes # <<>>
      /\ bt[p].cl \in {"no", "asked"} => b.writes = <<>>
  <2>1. bt[p].pc = "up" /\ bt[p].written /\ bt[p].cl # "done"
    BY <1>1, <1>3 DEF PhasesFit
  <2>2. bt[p].writes \in Tails /\ bt[p].writes[1] = "READY"
    BY <1>1, <1>3, TailFacts DEF WritesFit
  <2>3. /\ b.writes \in {<<>>} \cup {<<s>> : s \in EndState}
        /\ b.writes = <<>> => bt[p].writes = <<"READY">>
        /\ bt[p].writes \in {<<"LISTENING">>, <<"READY">>} => b.writes = <<>>
    BY <1>1, <1>2, <2>2, TailFacts
  <2>4. bt[p].cl \in {"no", "asked", "persist"}
    <3>1. bt[p].cl \notin Draining
      BY <1>1, <1>3, <2>1 DEF WritesFit
    <3> QED
      BY <1>3, <2>1, <3>1 DEF Draining, ProcRecord
  <2>5. /\ bt[p].cl = "persist" => b.writes # <<>>
        /\ bt[p].cl \in {"no", "asked"} => b.writes = <<>>
    BY <1>1, <1>3, <2>3 DEF WritesFit
  <2>6. /\ b.writes \in Tails /\ b.writes \notin {<<"LISTENING">>, <<"READY">>}
        /\ b.writes # <<>> => b.writes[1] # "READY"
    BY <2>3, TailsDiffer
  <2> QED
    BY <2>1, <2>4, <2>5, <2>6
<1>5. PhasesFit(b)
  BY <1>1, <1>2, <1>3, <1>4 DEF PhasesFit, Acquiring, Holding, Opened, Starting, Published
<1>6. WritesFit(b)
  BY <1>1, <1>2, <1>3, <1>4 DEF WritesFit, Starting, Draining
<1>7. Goes(p, b)
  BY <1>1, <1>2, <1>3, <1>4, <1>5, <1>6 DEF Goes, Holding, OnSchema, Published, PhasesFit
<1>8. MetaKept(p, b)
  BY <1>1, <1>2, <1>4, ProcessFacts DEF MetaKept, MetaFits
<1>9. LockKept(p, b)
  BY <1>1, <1>2, <1>3, <1>4, ProcessFacts DEF LockKept, PhasesFit, Holding
<1> QED
  BY <1>1, <1>7, <1>8, <1>9, GoesAlone

\* ReadinessFails keeps the invariant.
LEMMA ReadyFailsKeeps ==
    ASSUME BootInv, NEW p \in Proc, ReadinessFails(p)
    PROVE  BootInv'
<1>1. bt[p] \in ProcRecord /\ bt \in [Proc -> ProcRecord] /\ "FAILED" \in HostState /\ bt[p].writes # <<>>
  BY ProcessFacts DEF HostState, ReadinessFails
<1>2. CASE bt[p].cl = "no"
  <2> DEFINE b == [bt[p] EXCEPT !.rt = "rejected", !.writes = Tail(bt[p].writes), !.st = "FAILED", !.cl = "asked"]
  <2>1. bt' = [bt EXCEPT ![p] = b]
    BY <1>1, <1>2 DEF ReadinessFails
  <2>2. b \in ProcRecord /\ Failed(b, bt[p])
    <3>1. bt[p] \in ProcRecord /\ Tail(bt[p].writes) \in Seq(HostState) /\ "FAILED" \in HostState
      BY <1>1 DEF ProcRecord
    <3> QED
      BY <1>2, <3>1 DEF ProcRecord, Failed
  <2> HIDE DEF b
  <2> QED
    BY <2>1, <2>2, ReadyFailedKeeps
<1>3. CASE bt[p].cl # "no"
  <2> DEFINE b == [bt[p] EXCEPT !.rt = "rejected", !.writes = Tail(bt[p].writes)]
  <2>1. bt' = [bt EXCEPT ![p] = b]
    BY <1>1, <1>3 DEF ReadinessFails
  <2>2. b \in ProcRecord /\ Failed(b, bt[p])
    <3>1. bt[p] \in ProcRecord /\ Tail(bt[p].writes) \in Seq(HostState) /\ "FAILED" \in HostState
      BY <1>1 DEF ProcRecord
    <3> QED
      BY <1>3, <3>1 DEF ProcRecord, Failed
  <2> HIDE DEF b
  <2> QED
    BY <2>1, <2>2, ReadyFailedKeeps
<1> QED
  BY <1>2, <1>3

\* A signal closes a Host that is up.
LEMMA SignalKeeps ==
    ASSUME BootInv, NEW p \in Proc, Signal(p)
    PROVE  BootInv'
<1> DEFINE b == [bt[p] EXCEPT !.cl = "asked"]
<1>1. bt[p].pc = "up" /\ bt[p].cl = "no" /\ bt' = [bt EXCEPT ![p] = b] /\ Alone
  BY ProcessFacts DEF Signal, At, Alone
<1>2. /\ b \in ProcRecord /\ b.pc = bt[p].pc /\ b.tries = bt[p].tries /\ b.db = bt[p].db
      /\ b.seen = bt[p].seen /\ b.st = bt[p].st /\ b.written = bt[p].written /\ b.writes = bt[p].writes
      /\ b.mw = bt[p].mw /\ b.rt = bt[p].rt /\ b.cl = "asked" /\ b.ver = bt[p].ver
  <2>1. bt[p] \in ProcRecord
    BY ProcessFacts
  <2> QED
    BY <2>1 DEF ProcRecord
<1> HIDE DEF b
<1>3. PhasesFit(bt[p]) /\ WritesFit(bt[p]) /\ bt[p] \in ProcRecord
  BY ProcessFacts
<1>4. bt[p].written
  BY <1>1, <1>3 DEF PhasesFit
<1>5. PhasesFit(b)
  BY <1>1, <1>2, <1>3, <1>4 DEF PhasesFit, Acquiring, Holding, Opened, Starting, Published
<1>6. WritesFit(b)
  BY <1>1, <1>2, <1>3, <1>4 DEF WritesFit, Starting, Draining
<1>7. Goes(p, b)
  BY <1>1, <1>2, <1>3, <1>4, <1>5, <1>6 DEF Goes, Holding, OnSchema, Published, PhasesFit
<1>8. MetaKept(p, b)
  BY <1>1, <1>2, <1>4, ProcessFacts DEF MetaKept, MetaFits
<1>9. LockKept(p, b)
  BY <1>1, <1>2, <1>3, <1>4, ProcessFacts DEF LockKept, PhasesFit, Holding
<1> QED
  BY <1>1, <1>7, <1>8, <1>9, GoesAlone

\* The close writes its state behind the writes that are waiting.
LEMMA PersistsKeeps ==
    ASSUME BootInv, NEW p \in Proc, NEW e \in EndState, bt[p].cl = "asked", bt[p].written, bt[p].pc \notin {"new", "gone", "dead"},
           bt' = [Persist(p, e) EXCEPT ![p].cl = "persist"], Alone
    PROVE  BootInv'
<1> DEFINE b == [bt[p] EXCEPT !.st = e, !.writes = Append(bt[p].writes, e), !.cl = "persist"]
<1>1. bt' = [bt EXCEPT ![p] = b] /\ Alone
  BY ProcessFacts DEF Persist, Alone
<1>2. /\ b \in ProcRecord /\ b.pc = bt[p].pc /\ b.tries = bt[p].tries /\ b.db = bt[p].db
      /\ b.seen = bt[p].seen /\ b.st = e /\ b.written = bt[p].written /\ b.writes = Append(bt[p].writes, e)
      /\ b.mw = bt[p].mw /\ b.rt = bt[p].rt /\ b.cl = "persist" /\ b.ver = bt[p].ver
  <2>0. e \in HostState /\ Append(bt[p].writes, e) \in Seq(HostState)
    BY ProcessFacts DEF ProcRecord, HostState, EndState
  <2>1. bt[p] \in ProcRecord
    BY ProcessFacts
  <2> QED
    BY <2>0, <2>1 DEF ProcRecord
<1> HIDE DEF b
<1>3. PhasesFit(bt[p]) /\ WritesFit(bt[p]) /\ bt[p] \in ProcRecord
  BY ProcessFacts
<1>4. /\ bt[p].pc \in {"listening", "up"} /\ bt[p].cl # "done"
      /\ b.writes \in Tails /\ b.writes \notin {<<>>, <<"LISTENING">>, <<"READY">>}
      /\ b.writes[1] = "READY" => bt[p].writes # <<>> /\ bt[p].writes[1] = "READY"
      /\ bt[p].writes # <<>> => b.writes[1] = bt[p].writes[1]
      /\ e \in HostState /\ e # "LISTENING"
  <2>1. bt[p].pc \in {"listening", "up"}
    <3>1. bt[p].pc \in {"listening", "up", "stranded"}
      BY <1>3 DEF PhasesFit
    <3> QED
      BY <1>3, <3>1 DEF WritesFit
  <2>2. bt[p].writes = <<>> \/ bt[p].writes = <<"READY">>
    BY <1>3 DEF WritesFit
  <2>3. e \in HostState /\ e \notin {"LISTENING", "READY"}
    BY DEF HostState, EndState
  <2>4. CASE bt[p].writes = <<>>
    <3>1. b.writes = <<e>>
      BY <1>2, <2>4, WriteFacts
    <3> QED
      BY <2>1, <2>3, <2>4, <3>1, TailsDiffer
  <2>5. CASE bt[p].writes = <<"READY">>
    <3>1. Append(<<"READY">>, e) = <<"READY", e>>
      BY AppendToOne, Zenon
    <3>2. b.writes = <<"READY", e>>
      BY <1>2, <2>5, <3>1
    <3>3. <<"READY", e>>[1] = "READY" /\ <<"READY">>[1] = "READY" /\ <<"READY">> # <<>>
      BY WriteFacts
    <3>4. <<"READY", e>> \in Tails /\ <<"READY", e>> \notin {<<>>, <<"LISTENING">>, <<"READY">>}
      BY TailsDiffer
    <3> QED
      BY <2>1, <2>3, <2>5, <3>2, <3>3, <3>4
  <2> QED
    BY <2>1, <2>2, <2>4, <2>5
<1>5. PhasesFit(b)
  BY <1>1, <1>2, <1>3, <1>4 DEF PhasesFit, Acquiring, Holding, Opened, Starting, Published
<1>6. WritesFit(b)
  BY <1>1, <1>2, <1>3, <1>4 DEF WritesFit, Starting, Draining
<1>7. Goes(p, b)
  BY <1>1, <1>2, <1>3, <1>4, <1>5, <1>6 DEF Goes, Holding, OnSchema, Published, PhasesFit
<1>8. MetaKept(p, b)
  BY <1>2, <1>3, <1>4, ProcessFacts DEF MetaKept, MetaFits, WritesFit
<1>9. LockKept(p, b)
  BY <1>1, <1>2, <1>3, <1>4, ProcessFacts DEF LockKept, PhasesFit, Holding
<1> QED
  BY <1>1, <1>7, <1>8, <1>9, GoesAlone

\* Before its first write is done, the close writes nothing.
LEMMA SkipsKeeps ==
    ASSUME BootInv, NEW p \in Proc, NEW e \in EndState, bt[p].cl = "asked", ~bt[p].written, bt[p].pc \notin {"new", "gone", "dead"},
           bt' = [bt EXCEPT ![p].st = e, ![p].cl = "await"], Alone
    PROVE  BootInv'
<1> DEFINE b == [bt[p] EXCEPT !.st = e, !.cl = "await"]
<1>1. bt' = [bt EXCEPT ![p] = b] /\ Alone
  BY ProcessFacts DEF Alone
<1>2. /\ b \in ProcRecord /\ b.pc = bt[p].pc /\ b.tries = bt[p].tries /\ b.db = bt[p].db
      /\ b.seen = bt[p].seen /\ b.st = e /\ b.written = bt[p].written /\ b.writes = bt[p].writes
      /\ b.mw = bt[p].mw /\ b.rt = bt[p].rt /\ b.cl = "await" /\ b.ver = bt[p].ver
  <2>0. e \in HostState
    BY DEF HostState, EndState
  <2>1. bt[p] \in ProcRecord
    BY ProcessFacts
  <2> QED
    BY <2>0, <2>1 DEF ProcRecord
<1> HIDE DEF b
<1>3. PhasesFit(bt[p]) /\ WritesFit(bt[p]) /\ bt[p] \in ProcRecord
  BY ProcessFacts
<1>4. /\ bt[p].pc = "listening" /\ bt[p].mw = "renamed" /\ bt[p].writes = <<"LISTENING">>
      /\ e # "LISTENING" /\ bt[p].cl # "done" /\ bt[p].writes # <<>>
  <2>1. bt[p].pc \in {"listening", "stranded"} /\ bt[p].mw = "renamed" /\ bt[p].rt = "none"
    BY <1>3 DEF PhasesFit, Published
  <2>2. bt[p].writes \in {<<"LISTENING">>, <<"READY">>}
    BY <1>3, <2>1 DEF WritesFit
  <2>3. bt[p].writes # <<"READY">>
    BY <1>3, <2>1, WriteFacts DEF WritesFit
  <2>4. bt[p].pc # "stranded"
    BY <1>3, <2>1 DEF WritesFit
  <2> QED
    BY <2>1, <2>2, <2>3, <2>4, WriteFacts DEF EndState
<1>5. PhasesFit(b)
  BY <1>1, <1>2, <1>3, <1>4 DEF PhasesFit, Acquiring, Holding, Opened, Starting, Published
<1>6. WritesFit(b)
  BY <1>1, <1>2, <1>3, <1>4 DEF WritesFit, Starting, Draining
<1>7. Goes(p, b)
  BY <1>1, <1>2, <1>3, <1>4, <1>5, <1>6 DEF Goes, Holding, OnSchema, Published, PhasesFit
<1>8. MetaKept(p, b)
  BY <1>2, <1>3, <1>4, ProcessFacts DEF MetaKept, MetaFits
<1>9. LockKept(p, b)
  BY <1>1, <1>2, <1>3, <1>4, ProcessFacts DEF LockKept, PhasesFit, Holding
<1> QED
  BY <1>1, <1>7, <1>8, <1>9, GoesAlone

\* BeginClose keeps the invariant.
LEMMA BeginCloseKeeps ==
    ASSUME BootInv, NEW p \in Proc, BeginClose(p)
    PROVE  BootInv'
<1>1. bt[p].cl = "asked" /\ bt[p].pc \notin {"new", "gone", "dead"} /\ Alone
  BY DEF BeginClose, Live, Alone
<1>2. PICK e \in EndState : bt' = IF bt[p].written THEN [Persist(p, e) EXCEPT ![p].cl = "persist"]
                                  ELSE [bt EXCEPT ![p].st = e, ![p].cl = "await"]
  BY DEF BeginClose, EndState
<1>3. CASE bt[p].written
  BY <1>1, <1>2, <1>3, PersistsKeeps
<1>4. CASE ~bt[p].written
  BY <1>1, <1>2, <1>4, SkipsKeeps
<1> QED
  BY <1>3, <1>4

\* The write of the close is done: the readiness task is waited for.
LEMMA AwaitsKeeps ==
    ASSUME BootInv, NEW p \in Proc, CloseAwaits(p), bt[p].cl = "persist"
    PROVE  BootInv'
<1> DEFINE b == [bt[p] EXCEPT !.cl = "await"]
<1>1. bt[p].cl = "persist" /\ bt[p].writes = <<>> /\ bt[p].pc \notin {"new", "gone", "dead"} /\ bt' = [bt EXCEPT ![p] = b] /\ Alone
  BY ProcessFacts DEF CloseAwaits, Live, Alone
<1>2. /\ b \in ProcRecord /\ b.pc = bt[p].pc /\ b.tries = bt[p].tries /\ b.db = bt[p].db
      /\ b.seen = bt[p].seen /\ b.st = bt[p].st /\ b.written = bt[p].written /\ b.writes = bt[p].writes
      /\ b.mw = bt[p].mw /\ b.rt = bt[p].rt /\ b.cl = "await" /\ b.ver = bt[p].ver
  <2>1. bt[p] \in ProcRecord
    BY ProcessFacts
  <2> QED
    BY <2>1 DEF ProcRecord
<1> HIDE DEF b
<1>3. PhasesFit(bt[p]) /\ WritesFit(bt[p]) /\ bt[p] \in ProcRecord
  BY ProcessFacts
<1>4. bt[p].pc \in {"listening", "up", "stranded"} /\ bt[p].cl # "done"
  BY <1>1, <1>3 DEF PhasesFit
<1>5. PhasesFit(b)
  BY <1>1, <1>2, <1>3, <1>4 DEF PhasesFit, Acquiring, Holding, Opened, Starting, Published
<1>6. WritesFit(b)
  BY <1>1, <1>2, <1>3, <1>4 DEF WritesFit, Starting, Draining
<1>7. Goes(p, b)
  BY <1>1, <1>2, <1>3, <1>4, <1>5, <1>6 DEF Goes, Holding, OnSchema, Published, PhasesFit
<1>8. MetaKept(p, b)
  BY <1>1, <1>2, <1>4, ProcessFacts DEF MetaKept, MetaFits
<1>9. LockKept(p, b)
  BY <1>1, <1>2, <1>3, <1>4, ProcessFacts DEF LockKept, PhasesFit, Holding
<1> QED
  BY <1>1, <1>7, <1>8, <1>9, GoesAlone

\* The readiness task is over: the Host is drained.
LEMMA AwaitedKeeps ==
    ASSUME BootInv, NEW p \in Proc, CloseAwaits(p), bt[p].cl # "persist"
    PROVE  BootInv'
<1> DEFINE b == [bt[p] EXCEPT !.cl = "drain"]
<1>1. bt[p].cl = "await" /\ bt[p].pc \notin {"new", "gone", "dead"} /\ bt' = [bt EXCEPT ![p] = b] /\ Alone
  BY ProcessFacts DEF CloseAwaits, Live, Alone
<1>2. /\ b \in ProcRecord /\ b.pc = bt[p].pc /\ b.tries = bt[p].tries /\ b.db = bt[p].db
      /\ b.seen = bt[p].seen /\ b.st = bt[p].st /\ b.written = bt[p].written /\ b.writes = bt[p].writes
      /\ b.mw = bt[p].mw /\ b.rt = bt[p].rt /\ b.cl = "drain" /\ b.ver = bt[p].ver
  <2>1. bt[p] \in ProcRecord
    BY ProcessFacts
  <2> QED
    BY <2>1 DEF ProcRecord
<1> HIDE DEF b
<1>3. PhasesFit(bt[p]) /\ WritesFit(bt[p]) /\ bt[p] \in ProcRecord
  BY ProcessFacts
<1>4. bt[p].pc \in {"listening", "up", "stranded"} /\ bt[p].cl # "done"
  BY <1>1, <1>3 DEF PhasesFit
<1>5. PhasesFit(b)
  BY <1>1, <1>2, <1>3, <1>4 DEF PhasesFit, Acquiring, Holding, Opened, Starting, Published
<1>6. WritesFit(b)
  BY <1>1, <1>2, <1>3, <1>4 DEF WritesFit, Starting, Draining
<1>7. Goes(p, b)
  BY <1>1, <1>2, <1>3, <1>4, <1>5, <1>6 DEF Goes, Holding, OnSchema, Published, PhasesFit
<1>8. MetaKept(p, b)
  BY <1>1, <1>2, <1>4, ProcessFacts DEF MetaKept, MetaFits
<1>9. LockKept(p, b)
  BY <1>1, <1>2, <1>3, <1>4, ProcessFacts DEF LockKept, PhasesFit, Holding
<1> QED
  BY <1>1, <1>7, <1>8, <1>9, GoesAlone

\* The services have been stopped.
LEMMA DrainKeeps ==
    ASSUME BootInv, NEW p \in Proc, Drain(p)
    PROVE  BootInv'
<1> DEFINE b == [bt[p] EXCEPT !.cl = "database"]
<1>1. bt[p].cl = "drain" /\ bt[p].pc \notin {"new", "gone", "dead"} /\ bt' = [bt EXCEPT ![p] = b] /\ Alone
  BY ProcessFacts DEF Drain, Live, Alone
<1>2. /\ b \in ProcRecord /\ b.pc = bt[p].pc /\ b.tries = bt[p].tries /\ b.db = bt[p].db
      /\ b.seen = bt[p].seen /\ b.st = bt[p].st /\ b.written = bt[p].written /\ b.writes = bt[p].writes
      /\ b.mw = bt[p].mw /\ b.rt = bt[p].rt /\ b.cl = "database" /\ b.ver = bt[p].ver
  <2>1. bt[p] \in ProcRecord
    BY ProcessFacts
  <2> QED
    BY <2>1 DEF ProcRecord
<1> HIDE DEF b
<1>3. PhasesFit(bt[p]) /\ WritesFit(bt[p]) /\ bt[p] \in ProcRecord
  BY ProcessFacts
<1>4. bt[p].pc \in {"listening", "up", "stranded"} /\ bt[p].cl # "done"
  BY <1>1, <1>3 DEF PhasesFit
<1>5. PhasesFit(b)
  BY <1>1, <1>2, <1>3, <1>4 DEF PhasesFit, Acquiring, Holding, Opened, Starting, Published
<1>6. WritesFit(b)
  BY <1>1, <1>2, <1>3, <1>4 DEF WritesFit, Starting, Draining
<1>7. Goes(p, b)
  BY <1>1, <1>2, <1>3, <1>4, <1>5, <1>6 DEF Goes, Holding, OnSchema, Published, PhasesFit
<1>8. MetaKept(p, b)
  BY <1>1, <1>2, <1>4, ProcessFacts DEF MetaKept, MetaFits
<1>9. LockKept(p, b)
  BY <1>1, <1>2, <1>3, <1>4, ProcessFacts DEF LockKept, PhasesFit, Holding
<1> QED
  BY <1>1, <1>7, <1>8, <1>9, GoesAlone

\* The database is closed.
LEMMA ClosedKeeps ==
    ASSUME BootInv, NEW p \in Proc, NEW e \in {"FAILED", "STOPPED"}, bt[p].cl = "database", bt[p].pc \notin {"new", "gone", "dead"},
           bt' = [bt EXCEPT ![p].cl = "meta", ![p].db = FALSE, ![p].st = e], Alone
    PROVE  BootInv'
<1> DEFINE b == [bt[p] EXCEPT !.cl = "meta", !.db = FALSE, !.st = e]
<1>1. bt[p].cl = "database" /\ bt[p].pc \notin {"new", "gone", "dead"} /\ bt' = [bt EXCEPT ![p] = b] /\ Alone
  BY ProcessFacts DEF Alone
<1>2. /\ b \in ProcRecord /\ b.pc = bt[p].pc /\ b.tries = bt[p].tries /\ b.db = FALSE /\ b.seen = bt[p].seen
      /\ b.st = e /\ b.written = bt[p].written /\ b.writes = bt[p].writes /\ b.mw = bt[p].mw
      /\ b.rt = bt[p].rt /\ b.cl = "meta" /\ b.ver = bt[p].ver
  <2>0. e \in HostState
    BY DEF HostState
  <2>1. bt[p] \in ProcRecord
    BY ProcessFacts
  <2> QED
    BY <2>0, <2>1 DEF ProcRecord
<1> HIDE DEF b
<1>3. PhasesFit(bt[p]) /\ WritesFit(bt[p]) /\ bt[p] \in ProcRecord
  BY ProcessFacts
<1>4. bt[p].pc \in {"listening", "up", "stranded"} /\ bt[p].cl # "done"
  BY <1>1, <1>3 DEF PhasesFit
<1>5. PhasesFit(b)
  BY <1>1, <1>2, <1>3, <1>4 DEF PhasesFit, Acquiring, Holding, Opened, Starting, Published
<1>6. WritesFit(b)
  BY <1>1, <1>2, <1>3, <1>4 DEF WritesFit, Starting, Draining
<1>7. Goes(p, b)
  BY <1>1, <1>2, <1>3, <1>4, <1>5, <1>6 DEF Goes, Holding, OnSchema, Published, PhasesFit
<1>8. MetaKept(p, b)
  BY <1>1, <1>2, <1>4, ProcessFacts DEF MetaKept, MetaFits
<1>9. LockKept(p, b)
  BY <1>1, <1>2, <1>3, <1>4, ProcessFacts DEF LockKept, PhasesFit, Holding
<1> QED
  BY <1>1, <1>7, <1>8, <1>9, GoesAlone

\* CloseDatabase keeps the invariant.
LEMMA CloseDatabaseKeeps ==
    ASSUME BootInv, NEW p \in Proc, CloseDatabase(p)
    PROVE  BootInv'
<1>1. bt[p].cl = "database" /\ bt[p].pc \notin {"new", "gone", "dead"} /\ Alone
  BY DEF CloseDatabase, Live, Alone
<1>2. bt \in [Proc -> ProcRecord] /\ bt[p] \in ProcRecord
  BY ProcessFacts
<1>3. CASE bt[p].st = "FAILED"
  BY <1>1, <1>2, <1>3, ClosedKeeps DEF CloseDatabase
<1>4. CASE bt[p].st # "FAILED"
  <2>1. bt' = [bt EXCEPT ![p].cl = "meta", ![p].db = FALSE, ![p].st = "STOPPED"]
    BY <1>2, <1>4 DEF CloseDatabase
  <2> QED
    BY <1>1, <2>1, ClosedKeeps
<1> QED
  BY <1>3, <1>4

\* The metadata goes before the lock.
LEMMA RemoveMetadataKeeps ==
    ASSUME BootInv, NEW p \in Proc, RemoveMetadata(p)
    PROVE  BootInv'
<1> DEFINE b == [bt[p] EXCEPT !.cl = "lock"]
<1>1. bt[p].cl = "meta" /\ bt[p].pc \notin {"new", "gone", "dead"}
      /\ metaFile' = NoFile /\ UNCHANGED <<lockFile, schema, cli, raced, forced>> /\ bt' = [bt EXCEPT ![p] = b]
  BY ProcessFacts DEF RemoveMetadata, Live
<1>2. /\ b \in ProcRecord /\ b.pc = bt[p].pc /\ b.tries = bt[p].tries /\ b.db = bt[p].db
      /\ b.seen = bt[p].seen /\ b.st = bt[p].st /\ b.written = bt[p].written /\ b.writes = bt[p].writes
      /\ b.mw = bt[p].mw /\ b.rt = bt[p].rt /\ b.cl = "lock" /\ b.ver = bt[p].ver
  <2>1. bt[p] \in ProcRecord
    BY ProcessFacts
  <2> QED
    BY <2>1 DEF ProcRecord
<1> HIDE DEF b
<1>3. PhasesFit(bt[p]) /\ WritesFit(bt[p]) /\ bt[p] \in ProcRecord
  BY ProcessFacts
<1>4. bt[p].pc \in {"listening", "up", "stranded"} /\ bt[p].cl # "done"
  BY <1>1, <1>3 DEF PhasesFit
<1>5. PhasesFit(b)
  BY <1>1, <1>2, <1>3, <1>4 DEF PhasesFit, Acquiring, Holding, Opened, Starting, Published
<1>6. WritesFit(b)
  BY <1>1, <1>2, <1>3, <1>4 DEF WritesFit, Starting, Draining
<1>7. Goes(p, b)
  BY <1>1, <1>2, <1>3, <1>4, <1>5, <1>6 DEF Goes, Holding, OnSchema, Published, PhasesFit
<1>8. Marked
  BY <1>1, ProcessFacts DEF Marked
<1>9. Becomes(p, b) /\ Moves(p, b) /\ SchemaKept(p, b) /\ LockKept(p, b)
  BY <1>2, <1>7, <1>8, GoesKept
<1>10. \A q \in Proc : LockFits(q)'
  BY <1>1, <1>8, <1>9, LocksKept DEF Owner
<1>11. (\A q \in Proc : SchemaFits(q)') /\ History'
  BY <1>1, <1>8, <1>9, SchemasKept
<1>12. \A q \in Proc : MetaFits(q)'
  BY <1>1, BootAssumption DEF BootAssumption, MetaFits, Owner
<1> QED
  BY <1>1, <1>8, <1>9, <1>10, <1>11, <1>12, StepKeeps DEF BootInv, BootTypeOK

\* The lock is still the one of this Host.
LEMMA OwnLockKeeps ==
    ASSUME BootInv, NEW p \in Proc, ReadOwnLock(p), Owner(lockFile) = p
    PROVE  BootInv'
<1> DEFINE b == [bt[p] EXCEPT !.cl = "unlock"]
<1>1. bt[p].cl = "lock" /\ bt[p].pc \notin {"new", "gone", "dead"} /\ bt' = [bt EXCEPT ![p] = b] /\ Alone
  BY ProcessFacts DEF ReadOwnLock, Live, Alone
<1>2. /\ b \in ProcRecord /\ b.pc = bt[p].pc /\ b.tries = bt[p].tries /\ b.db = bt[p].db
      /\ b.seen = bt[p].seen /\ b.st = bt[p].st /\ b.written = bt[p].written /\ b.writes = bt[p].writes
      /\ b.mw = bt[p].mw /\ b.rt = bt[p].rt /\ b.cl = "unlock" /\ b.ver = bt[p].ver
  <2>1. bt[p] \in ProcRecord
    BY ProcessFacts
  <2> QED
    BY <2>1 DEF ProcRecord
<1> HIDE DEF b
<1>3. PhasesFit(bt[p]) /\ WritesFit(bt[p]) /\ bt[p] \in ProcRecord
  BY ProcessFacts
<1>4. bt[p].pc \in {"listening", "up", "stranded"} /\ bt[p].cl # "done"
  BY <1>1, <1>3 DEF PhasesFit
<1>5. PhasesFit(b)
  BY <1>1, <1>2, <1>3, <1>4 DEF PhasesFit, Acquiring, Holding, Opened, Starting, Published
<1>6. WritesFit(b)
  BY <1>1, <1>2, <1>3, <1>4 DEF WritesFit, Starting, Draining
<1>7. Goes(p, b)
  BY <1>1, <1>2, <1>3, <1>4, <1>5, <1>6 DEF Goes, Holding, OnSchema, Published, PhasesFit
<1>8. MetaKept(p, b)
  BY <1>1, <1>2, <1>4, ProcessFacts DEF MetaKept, MetaFits
<1>9. LockKept(p, b)
  BY <1>1, <1>2, <1>3, <1>4, ProcessFacts DEF LockKept, PhasesFit, Holding
<1> QED
  BY <1>1, <1>7, <1>8, <1>9, GoesAlone

\* A Host that has closed is gone.
LEMMA GoneRecord ==
    ASSUME NEW r \in ProcRecord
    PROVE  [r EXCEPT !.cl = "done", !.pc = "gone"] \in ProcRecord
<1>1. ASSUME NEW c \in ProcRecord PROVE [c EXCEPT !.pc = "gone"] \in ProcRecord
  BY DEF ProcRecord
<1>2. [r EXCEPT !.cl = "done"] \in ProcRecord
  BY DEF ProcRecord
<1>3. [r EXCEPT !.cl = "done", !.pc = "gone"] = [[r EXCEPT !.cl = "done"] EXCEPT !.pc = "gone"]
  OBVIOUS
<1> QED
  BY <1>1, <1>2, <1>3, Zenon

\* The lock has gone to another process, and the close is over.
LEMMA OtherLockKeeps ==
    ASSUME BootInv, NEW p \in Proc, ReadOwnLock(p), Owner(lockFile) # p
    PROVE  BootInv'
<1> DEFINE b == [bt[p] EXCEPT !.cl = "done", !.pc = "gone"]
<1>1. bt[p].cl = "lock" /\ bt[p].pc \notin {"new", "gone", "dead"} /\ bt' = [bt EXCEPT ![p] = b] /\ Alone
  BY ProcessFacts DEF ReadOwnLock, Live, Alone
<1>2. /\ b \in ProcRecord /\ b.pc = "gone" /\ b.tries = bt[p].tries /\ b.db = bt[p].db
      /\ b.seen = bt[p].seen /\ b.st = bt[p].st /\ b.written = bt[p].written /\ b.writes = bt[p].writes
      /\ b.mw = bt[p].mw /\ b.rt = bt[p].rt /\ b.cl = "done" /\ b.ver = bt[p].ver
  <2>1. bt[p] \in ProcRecord
    BY ProcessFacts
  <2>2. b.pc = "gone" /\ b.cl = "done"
    BY <2>1 DEF ProcRecord
  <2>4. b \in ProcRecord
    BY <2>1, GoneRecord
  <2>3. /\ b.tries = bt[p].tries /\ b.db = bt[p].db /\ b.seen = bt[p].seen /\ b.st = bt[p].st
        /\ b.written = bt[p].written /\ b.writes = bt[p].writes /\ b.mw = bt[p].mw /\ b.rt = bt[p].rt
        /\ b.ver = bt[p].ver
    BY <2>1 DEF ProcRecord
  <2> QED
    BY <2>2, <2>3, <2>4
<1> HIDE DEF b
<1>3. PhasesFit(bt[p]) /\ WritesFit(bt[p]) /\ bt[p] \in ProcRecord
  BY ProcessFacts
<1>4. bt[p].pc \in {"listening", "up", "stranded"} /\ bt[p].cl # "done"
  BY <1>1, <1>3 DEF PhasesFit
<1>5. PhasesFit(b)
  BY <1>1, <1>2, <1>3, <1>4 DEF PhasesFit, Acquiring, Holding, Opened, Starting, Published
<1>6. WritesFit(b)
  BY <1>1, <1>2, <1>3, <1>4 DEF WritesFit, Starting, Draining
<1>7. Goes(p, b)
  BY <1>1, <1>2, <1>3, <1>4, <1>5, <1>6 DEF Goes, Holding, OnSchema, Published, PhasesFit
<1>8. MetaKept(p, b)
  BY <1>1, <1>2, <1>4, ProcessFacts DEF MetaKept, MetaFits
<1>9. LockKept(p, b)
  BY <1>2 DEF LockKept, Holding
<1> QED
  BY <1>1, <1>7, <1>8, <1>9, GoesAlone

\* The lock is removed; were it another one's, the removal is marked.
LEMMA ReleaseLockKeeps ==
    ASSUME BootInv, NEW p \in Proc, ReleaseLock(p)
    PROVE  BootInv'
<1> DEFINE b == [bt[p] EXCEPT !.cl = "done", !.pc = "gone"]
<1>1. bt[p].cl = "unlock" /\ bt[p].pc \notin {"new", "gone", "dead"}
      /\ lockFile' = NoFile /\ UNCHANGED <<metaFile, schema, cli, forced>> /\ bt' = [bt EXCEPT ![p] = b]
  BY ProcessFacts DEF ReleaseLock, Live
<1>2. /\ b \in ProcRecord /\ b.pc = "gone" /\ b.tries = bt[p].tries /\ b.db = bt[p].db
      /\ b.seen = bt[p].seen /\ b.st = bt[p].st /\ b.written = bt[p].written /\ b.writes = bt[p].writes
      /\ b.mw = bt[p].mw /\ b.rt = bt[p].rt /\ b.cl = "done" /\ b.ver = bt[p].ver
  <2>1. bt[p] \in ProcRecord
    BY ProcessFacts
  <2>2. b.pc = "gone" /\ b.cl = "done"
    BY <2>1 DEF ProcRecord
  <2>4. b \in ProcRecord
    BY <2>1, GoneRecord
  <2>3. /\ b.tries = bt[p].tries /\ b.db = bt[p].db /\ b.seen = bt[p].seen /\ b.st = bt[p].st
        /\ b.written = bt[p].written /\ b.writes = bt[p].writes /\ b.mw = bt[p].mw /\ b.rt = bt[p].rt
        /\ b.ver = bt[p].ver
    BY <2>1 DEF ProcRecord
  <2> QED
    BY <2>2, <2>3, <2>4
<1> HIDE DEF b
<1>3. PhasesFit(bt[p]) /\ WritesFit(bt[p]) /\ bt[p] \in ProcRecord
  BY ProcessFacts
<1>4. bt[p].pc \in {"listening", "up", "stranded"} /\ bt[p].cl # "done"
  BY <1>1, <1>3 DEF PhasesFit
<1>5. PhasesFit(b)
  BY <1>1, <1>2, <1>3, <1>4 DEF PhasesFit, Acquiring, Holding, Opened, Starting, Published
<1>6. WritesFit(b)
  BY <1>1, <1>2, <1>3, <1>4 DEF WritesFit, Starting, Draining
<1>7. Goes(p, b)
  BY <1>1, <1>2, <1>3, <1>4, <1>5, <1>6 DEF Goes, Holding, OnSchema, Published, PhasesFit
<1>8. /\ raced' \in BOOLEAN /\ (raced => raced')
      /\ ~raced' => lockFile = NoFile \/ lockFile.owner = p
  BY ProcessFacts DEF ReleaseLock
<1>9. Marked
  BY <1>1, <1>8, ProcessFacts DEF Marked
<1>10. Becomes(p, b) /\ Moves(p, b) /\ SchemaKept(p, b)
  BY <1>7, <1>9, GoesKept
<1>11. MetaKept(p, b)
  BY <1>1, ProcessFacts DEF MetaKept, MetaFits
<1>12. ASSUME NEW q \in Proc PROVE LockFits(q)'
  <2>1. Owner(lockFile)' # q
    BY <1>1, BootAssumption DEF BootAssumption, Owner
  <2>2. ASSUME ~raced', ~forced', bt'[q].pc \in Holding PROVE FALSE
    <3>1. q # p
      BY <1>2, <1>10, <2>2, Records DEF Holding
    <3>2. bt[q].pc \in Holding
      BY <1>10, <2>2, <3>1, Records
    <3>3. Owner(lockFile) = q
      BY <1>1, <1>8, <2>2, <3>2, ProcessFacts DEF LockFits
    <3> QED
      BY <1>8, <2>2, <3>1, <3>3, BootAssumption DEF BootAssumption, Owner
  <2> QED
    BY <2>1, <2>2 DEF LockFits
<1>13. \A q \in Proc : MetaFits(q)'
  BY <1>1, <1>10, <1>11, MetasKept
<1>14. (\A q \in Proc : SchemaFits(q)') /\ History'
  BY <1>1, <1>9, <1>10, SchemasKept
<1> QED
  BY <1>1, <1>9, <1>10, <1>12, <1>13, <1>14, StepKeeps DEF BootInv, BootTypeOK

\* A process may die in any phase.
LEMMA DieKeeps ==
    ASSUME BootInv, NEW p \in Proc, Die(p)
    PROVE  BootInv'
<1> DEFINE b == [bt[p] EXCEPT !.pc = "dead", !.db = FALSE]
<1>1. bt[p].pc \notin {"new", "gone", "dead"} /\ bt' = [bt EXCEPT ![p] = b] /\ Alone
  BY ProcessFacts DEF Die, Live, Alone
<1>2. /\ b \in ProcRecord /\ b.pc = "dead" /\ b.tries = bt[p].tries /\ b.db = FALSE /\ b.seen = bt[p].seen
      /\ b.st = bt[p].st /\ b.written = bt[p].written /\ b.writes = bt[p].writes /\ b.mw = bt[p].mw
      /\ b.rt = bt[p].rt /\ b.cl = bt[p].cl /\ b.ver = bt[p].ver
  <2>1. bt[p] \in ProcRecord
    BY ProcessFacts
  <2> QED
    BY <2>1 DEF ProcRecord
<1> HIDE DEF b
<1>3. PhasesFit(bt[p]) /\ WritesFit(bt[p]) /\ bt[p] \in ProcRecord
  BY ProcessFacts
<1>4. bt[p].cl # "done"
  BY <1>1, <1>3 DEF PhasesFit
<1>5. PhasesFit(b)
  BY <1>1, <1>2, <1>3, <1>4 DEF PhasesFit, Acquiring, Holding, Opened, Starting, Published
<1>6. WritesFit(b)
  BY <1>1, <1>2, <1>3, <1>4 DEF WritesFit, Starting, Draining
<1>7. Goes(p, b)
  BY <1>1, <1>2, <1>3, <1>4, <1>5, <1>6 DEF Goes, Holding, OnSchema, Published, PhasesFit
<1>8. MetaKept(p, b)
  BY <1>1, <1>2, <1>4, ProcessFacts DEF MetaKept, MetaFits
<1>9. LockKept(p, b)
  BY <1>2, <1>4 DEF LockKept, Holding
<1> QED
  BY <1>1, <1>7, <1>8, <1>9, GoesAlone

-----------------------------------------------------------------------------
(* The operator.                                                            *)

\* A step of the operator that leaves the processes alone.
LEMMA OperatorKeeps ==
    ASSUME BootInv, UNCHANGED <<schema, bt, forced>>, raced' \in BOOLEAN, raced => raced',
           lockFile' \in LockPayload \cup {NoFile}, metaFile' \in {metaFile, NoFile},
           cli' \in CliRecord, OperatorFits', \A q \in Proc : LockFits(q)'
    PROVE  BootInv'
<1>1. BootTypeOK' /\ History'
  BY DEF BootInv, BootTypeOK, History
<1>2. ASSUME NEW q \in Proc
      PROVE  PhasesFit(bt[q])' /\ WritesFit(bt[q])' /\ JudgedFits(q)' /\ MetaFits(q)' /\ SchemaFits(q)'
  <2>1. PhasesFit(bt[q])' /\ WritesFit(bt[q])'
    BY ProcessFacts DEF PhasesFit, WritesFit, Published
  <2>2. JudgedFits(q)'
    BY ProcessFacts DEF JudgedFits, Over
  <2>3. MetaFits(q)'
    <3>1. Owner(metaFile)' = q => metaFile' = metaFile /\ Owner(metaFile) = q
      BY BootAssumption DEF BootAssumption, Owner
    <3> QED
      BY <3>1, ProcessFacts DEF MetaFits, Published
  <2>4. SchemaFits(q)'
    BY ProcessFacts DEF SchemaFits
  <2> QED
    BY <2>1, <2>2, <2>3, <2>4
<1> QED
  BY <1>1, <1>2 DEF BootInv

\* The steps of the operator that only read.
LEMMA ReadsKeep ==
    ASSUME BootInv, StopReadsMetadata \/ PollMetadata \/ InspectReads
    PROVE  BootInv'
<1>1. /\ UNCHANGED <<lockFile, metaFile, schema, bt, raced, forced>> /\ raced \in BOOLEAN
      /\ lockFile \in LockPayload \cup {NoFile} /\ metaFile \in PrivateMetadata \cup {NoFile} /\ cli \in CliRecord
  BY DEF BootInv, BootTypeOK, StopReadsMetadata, PollMetadata, InspectReads
<1>2. \A q \in Proc : LockFits(q)'
  BY <1>1 DEF BootInv, LockFits, Owner
<1>3. cli' \in CliRecord
  <2>1. CASE StopReadsMetadata
    BY <1>1, <2>1 DEF StopReadsMetadata, CliRecord
  <2>2. CASE PollMetadata
    BY <1>1, <2>2 DEF PollMetadata, CliRecord
  <2>3. CASE InspectReads
    BY <1>1, <2>3 DEF InspectReads, CliRecord
  <2> QED
    BY <2>1, <2>2, <2>3
<1>4. cli'.meta \in {cli.meta, metaFile} /\ (cli'.pc = "asked" => cli'.meta # NoFile)
  <2>1. CASE StopReadsMetadata
    BY <1>1, <2>1 DEF StopReadsMetadata, CliRecord
  <2>2. CASE PollMetadata
    BY <1>1, <2>2 DEF PollMetadata, CliRecord
  <2>3. CASE InspectReads
    BY <1>1, <2>3 DEF InspectReads, CliRecord
  <2> QED
    BY <2>1, <2>2, <2>3
<1>5. metaFile # NoFile /\ metaFile.owner \in Proc => Published(bt[metaFile.owner])
  BY ProcessFacts DEF MetaFits, Owner
<1>6. cli.meta # NoFile /\ cli.meta.owner \in Proc => Published(bt[cli.meta.owner])
  BY DEF BootInv, OperatorFits
<1>7. OperatorFits'
  BY <1>1, <1>4, <1>5, <1>6 DEF OperatorFits, Published
<1> QED
  BY <1>1, <1>2, <1>3, <1>7, OperatorKeeps

\* A lock that the operator removes belongs to a process that is over, or the
\* removal is marked.
LEMMA InspectRemoves ==
    ASSUME BootInv, InspectRemovesMetadata \/ InspectRemovesLock
    PROVE  BootInv'
<1>1. /\ UNCHANGED <<schema, bt, forced>> /\ raced \in BOOLEAN /\ cli \in CliRecord
      /\ lockFile \in LockPayload \cup {NoFile} /\ metaFile \in PrivateMetadata \cup {NoFile}
  BY DEF BootInv, BootTypeOK, InspectRemovesMetadata, InspectRemovesLock
<1>2. raced' \in BOOLEAN /\ (raced => raced')
  BY <1>1 DEF InspectRemovesMetadata, InspectRemovesLock
<1>3. cli' \in CliRecord /\ cli'.meta = cli.meta /\ cli'.pc # "asked"
  <2>1. \/ cli' = [cli EXCEPT !.pc = "rmLock"]
        \/ cli' = [cli EXCEPT !.pc = "done"]
    BY DEF InspectRemovesMetadata, InspectRemovesLock
  <2> QED
    BY <1>1, <2>1 DEF CliRecord
<1>4. OperatorFits'
  BY <1>1, <1>3 DEF BootInv, OperatorFits, Published
<1>5. lockFile' \in {lockFile, NoFile} /\ metaFile' \in {metaFile, NoFile}
  BY DEF InspectRemovesMetadata, InspectRemovesLock
<1>6. lockFile' # lockFile /\ ~raced' => OwnerDead(cli.lock) /\ lockFile \in {NoFile, cli.lock}
  BY DEF InspectRemovesMetadata, InspectRemovesLock
<1>7. ASSUME NEW q \in Proc PROVE LockFits(q)'
  <2>1. LockFits(q)
    BY ProcessFacts
  <2>2. CASE lockFile' = lockFile
    BY <1>1, <1>2, <2>1, <2>2 DEF LockFits, Owner
  <2>3. CASE lockFile' # lockFile
    <3>1. Owner(lockFile)' # q
      BY <1>5, <2>3, BootAssumption DEF BootAssumption, Owner
    <3>2. ASSUME ~raced', ~forced', bt'[q].pc \in Holding PROVE FALSE
      <4>1. Owner(lockFile) = q /\ bt[q].pc \in Holding
        BY <1>1, <1>2, <2>1, <3>2 DEF LockFits
      <4>2. lockFile = cli.lock /\ OwnerDead(cli.lock) /\ cli.lock.owner = q
        BY <1>6, <2>3, <3>2, <4>1, BootAssumption DEF BootAssumption, Owner
      <4>3. ~Live(q)
        BY <4>2 DEF OwnerDead, IsPidAlive
      <4> QED
        BY <4>1, <4>3 DEF Live, Holding
    <3> QED
      BY <3>1, <3>2 DEF LockFits
  <2> QED
    BY <2>2, <2>3
<1>8. lockFile' \in LockPayload \cup {NoFile}
  BY <1>1, <1>5
<1> QED
  BY <1>1, <1>2, <1>3, <1>4, <1>5, <1>7, <1>8, OperatorKeeps

\* A stop that is accepted closes a Host that has published its metadata.
LEMMA StopsKeeps ==
    ASSUME BootInv, RequestStop, bt' # bt
    PROVE  BootInv'
<1> DEFINE p == cli.meta.owner
           b == [bt[p] EXCEPT !.cl = "asked"]
<1>1. /\ cli.pc = "asked" /\ p \in Proc /\ bt[p].pc \in {"listening", "up"} /\ bt[p].cl = "no"
      /\ bt' = [bt EXCEPT ![p].cl = "asked"] /\ cli' = [cli EXCEPT !.pc = "poll"]
      /\ UNCHANGED <<lockFile, metaFile, schema, raced, forced>>
  BY DEF RequestStop, Serves
<1>2. Published(bt[p])
  BY <1>1 DEF BootInv, OperatorFits
<1>3. cli' \in CliRecord /\ cli'.meta = cli.meta /\ cli'.pc # "asked"
  BY <1>1 DEF BootInv, BootTypeOK, CliRecord
<1> HIDE DEF p
<1>4. bt' = [bt EXCEPT ![p] = b]
  BY <1>1, ProcessFacts
<1>5. /\ b \in ProcRecord /\ b.pc = bt[p].pc /\ b.tries = bt[p].tries /\ b.db = bt[p].db
      /\ b.seen = bt[p].seen /\ b.st = bt[p].st /\ b.written = bt[p].written /\ b.writes = bt[p].writes
      /\ b.mw = bt[p].mw /\ b.rt = bt[p].rt /\ b.cl = "asked" /\ b.ver = bt[p].ver
  <2>1. bt[p] \in ProcRecord
    BY <1>1, ProcessFacts
  <2> QED
    BY <2>1 DEF ProcRecord
<1> HIDE DEF b
<1>6. PhasesFit(bt[p]) /\ WritesFit(bt[p]) /\ MetaFits(p)
  BY <1>1, ProcessFacts
<1>7. PhasesFit(b)
  BY <1>1, <1>2, <1>5, <1>6 DEF PhasesFit, Acquiring, Holding, Opened, Starting, Published
<1>8. WritesFit(b)
  BY <1>1, <1>5, <1>6 DEF WritesFit, Starting, Draining
<1>9. Goes(p, b)
  BY <1>1, <1>4, <1>5, <1>7, <1>8 DEF Goes, Holding, OnSchema, Published
<1>10. Marked
  BY <1>1, ProcessFacts DEF Marked
<1>11. Becomes(p, b) /\ Moves(p, b) /\ SchemaKept(p, b) /\ LockKept(p, b)
  BY <1>5, <1>9, <1>10, GoesKept
<1>12. MetaKept(p, b)
  BY <1>1, <1>5, <1>6 DEF MetaKept, MetaFits
<1>13. \A q \in Proc : LockFits(q)'
  BY <1>1, <1>10, <1>11, LocksKept DEF Owner
<1>14. \A q \in Proc : MetaFits(q)'
  BY <1>1, <1>11, <1>12, MetasKept
<1>15. (\A q \in Proc : SchemaFits(q)') /\ History'
  BY <1>1, <1>10, <1>11, SchemasKept
<1> QED
  BY <1>1, <1>3, <1>10, <1>11, <1>13, <1>14, <1>15, StepKeeps DEF BootInv, BootTypeOK

\* RequestStop keeps the invariant, whether it is answered or not.
LEMMA RequestStopKeeps ==
    ASSUME BootInv, RequestStop
    PROVE  BootInv'
<1>1. CASE bt' # bt
  BY <1>1, StopsKeeps
<1>2. CASE bt' = bt
  <2>1. /\ UNCHANGED <<lockFile, metaFile, schema, raced, forced>> /\ raced \in BOOLEAN /\ cli \in CliRecord
        /\ lockFile \in LockPayload \cup {NoFile}
    BY DEF BootInv, BootTypeOK, RequestStop
  <2>2. cli' \in {[cli EXCEPT !.pc = "poll"], [cli EXCEPT !.pc = "inspect"]}
    BY DEF RequestStop
  <2>3. cli' \in CliRecord /\ cli'.meta = cli.meta /\ cli'.pc # "asked"
    BY <2>1, <2>2 DEF CliRecord
  <2>4. OperatorFits'
    BY <1>2, <2>3 DEF BootInv, OperatorFits, Published
  <2>5. \A q \in Proc : LockFits(q)'
    BY <1>2, <2>1 DEF BootInv, LockFits, Owner
  <2> QED
    BY <1>2, <2>1, <2>3, <2>4, <2>5, OperatorKeeps
<1> QED
  BY <1>1, <1>2

-----------------------------------------------------------------------------
(* The specification of the boot.                                           *)

\* The profile may hold the files of a process that died.
LEMMA BootStarts == BootInit => BootInv
<1> SUFFICES ASSUME BootInit PROVE BootInv
  OBVIOUS
<1> DEFINE r == [pc |-> "new", seen |-> NoFile, tries |-> 0, force |-> FALSE, ver |-> 0, db |-> FALSE,
                 st |-> "STARTING", written |-> FALSE, writes |-> <<>>, mw |-> "idle", rt |-> "none", cl |-> "no"]
<1>1. MaxTries \in Nat \ {0} /\ Old \notin Proc /\ NoFile \notin Proc \cup {Old}
  BY BootAssumption DEF BootAssumption
<1>2. r \in ProcRecord
  <2>1. 0 \in 0 .. MaxTries
    BY <1>1
  <2>2. <<>> \in Seq(HostState) /\ "STARTING" \in HostState
    BY DEF HostState
  <2> QED
    BY <2>1, <2>2 DEF ProcRecord
<1>3. \A p \in Proc : bt[p] = r
  BY DEF BootInit
<1>4. lockFile \in LockPayload \cup {NoFile} /\ metaFile \in PrivateMetadata \cup {NoFile}
  <2>1. [owner |-> Old, full |-> TRUE] \in LockPayload
    BY DEF LockPayload
  <2>2. [owner |-> Old, st |-> "READY"] \in PrivateMetadata
    BY DEF PrivateMetadata, HostState
  <2> QED
    BY <2>1, <2>2 DEF BootInit
<1>5. BootTypeOK
  <2>1. bt \in [Proc -> ProcRecord]
    BY <1>2 DEF BootInit
  <2>2. cli \in CliRecord
    BY DEF BootInit, CliRecord
  <2>3. schema \in Seq(Migration)
    BY BootAssumption DEF BootAssumption, BootInit
  <2> QED
    BY <1>4, <2>1, <2>2, <2>3 DEF BootTypeOK, BootInit
<1>6. Owner(lockFile) \notin Proc /\ Owner(metaFile) \notin Proc
  BY <1>1 DEF BootInit, Owner
<1>7. PhasesFit(r) /\ WritesFit(r)
  <2>1. PhasesFit(r)
    BY <1>1 DEF PhasesFit, Acquiring, Opened, Starting
  <2>2. WritesFit(r)
    BY TailsDiffer DEF WritesFit, Draining
  <2> QED
    BY <2>1, <2>2
<1>8. r.pc = "new" /\ r.seen = NoFile /\ ~r.db
  OBVIOUS
<1> HIDE DEF r
<1>9. ASSUME NEW p \in Proc
      PROVE  PhasesFit(bt[p]) /\ WritesFit(bt[p]) /\ LockFits(p) /\ JudgedFits(p) /\ MetaFits(p) /\ SchemaFits(p)
  <2>1. bt[p].pc = "new" /\ bt[p].seen = NoFile /\ ~bt[p].db
    BY <1>3, <1>8
  <2>2. PhasesFit(bt[p]) /\ WritesFit(bt[p])
    BY <1>3, <1>7
  <2>3. LockFits(p) /\ JudgedFits(p) /\ MetaFits(p) /\ SchemaFits(p)
    BY <1>6, <2>1 DEF LockFits, JudgedFits, MetaFits, SchemaFits, Holding
  <2> QED
    BY <2>2, <2>3
<1>10. History /\ OperatorFits
  BY DEF BootInit, History, OperatorFits
<1> QED
  BY <1>5, <1>9, <1>10 DEF BootInv

\* Every step of a process keeps the invariant.
LEMMA ProcessKeeps ==
    ASSUME BootInv, NEW p \in Proc,
           \/ \E force \in BOOLEAN : StartLocalHost(p, force)
           \/ CreateLock(p) \/ WriteLock(p) \/ ReadLock(p) \/ JudgeLock(p) \/ ReclaimMetadata(p) \/ ReclaimLock(p)
           \/ OpenStateDatabase(p) \/ ApplyMigration(p) \/ Migrated(p) \/ RecoverState(p)
           \/ BuildServices(p) \/ StartServices(p) \/ Listen(p) \/ StartFails(p)
           \/ MetadataRemoved(p) \/ MetadataRenamed(p) \/ MetadataWritten(p)
           \/ Listening(p) \/ BecomeReady(p) \/ Ready(p) \/ ReadinessFails(p)
           \/ Signal(p) \/ BeginClose(p) \/ CloseAwaits(p) \/ Drain(p) \/ CloseDatabase(p)
           \/ RemoveMetadata(p) \/ ReadOwnLock(p) \/ ReleaseLock(p) \/ Die(p)
    PROVE  BootInv'
<1>1. CASE \E force \in BOOLEAN : StartLocalHost(p, force)
  BY <1>1, StartKeeps
<1>2. CASE CreateLock(p) \/ WriteLock(p) \/ ReadLock(p) \/ JudgeLock(p) \/ ReclaimMetadata(p) \/ ReclaimLock(p)
  BY <1>2, CreateKeeps, WriteLockKeeps, ReadLockKeeps, JudgeKeeps, ReclaimMetadataKeeps, ReclaimLockKeeps
<1>3. CASE OpenStateDatabase(p) \/ ApplyMigration(p) \/ Migrated(p) \/ RecoverState(p)
  BY <1>3, OpenKeeps, ApplyKeeps, RecoveryKeeps
<1>4. CASE BuildServices(p) \/ StartServices(p) \/ Listen(p) \/ StartFails(p)
  BY <1>4, ServicesKeep, ListenKeeps
<1>5. CASE MetadataRemoved(p) \/ MetadataRenamed(p) \/ MetadataWritten(p)
  BY <1>5, RemovedKeeps, RenamedKeeps, WrittenKeeps
<1>6. CASE Listening(p) \/ BecomeReady(p) \/ Ready(p) \/ ReadinessFails(p)
  BY <1>6, ListeningKeeps, ReadyToWriteKeeps, NotReadyKeeps, ReadyKeeps, ReadyFailsKeeps
<1>7. CASE Signal(p) \/ BeginClose(p) \/ CloseAwaits(p) \/ Drain(p) \/ CloseDatabase(p)
  BY <1>7, SignalKeeps, BeginCloseKeeps, AwaitsKeeps, AwaitedKeeps, DrainKeeps, CloseDatabaseKeeps
<1>8. CASE RemoveMetadata(p) \/ ReadOwnLock(p) \/ ReleaseLock(p) \/ Die(p)
  BY <1>8, RemoveMetadataKeeps, OwnLockKeeps, OtherLockKeeps, ReleaseLockKeeps, DieKeeps
<1> QED
  BY <1>1, <1>2, <1>3, <1>4, <1>5, <1>6, <1>7, <1>8

\* The invariant of the boot: what every process has done and may still do,
\* what its lock and its metadata say of it, and what has been migrated.
THEOREM BootInductive == BootSpec => []BootInv
<1>1. BootInv /\ [BootNext]_bootVars => BootInv'
  <2> SUFFICES ASSUME BootInv, [BootNext]_bootVars PROVE BootInv'
    OBVIOUS
  <2>1. ASSUME NEW p \in Proc,
               \/ \E force \in BOOLEAN : StartLocalHost(p, force)
               \/ CreateLock(p) \/ WriteLock(p) \/ ReadLock(p) \/ JudgeLock(p) \/ ReclaimMetadata(p) \/ ReclaimLock(p)
               \/ OpenStateDatabase(p) \/ ApplyMigration(p) \/ Migrated(p) \/ RecoverState(p)
               \/ BuildServices(p) \/ StartServices(p) \/ Listen(p) \/ StartFails(p)
               \/ MetadataRemoved(p) \/ MetadataRenamed(p) \/ MetadataWritten(p)
               \/ Listening(p) \/ BecomeReady(p) \/ Ready(p) \/ ReadinessFails(p)
               \/ Signal(p) \/ BeginClose(p) \/ CloseAwaits(p) \/ Drain(p) \/ CloseDatabase(p)
               \/ RemoveMetadata(p) \/ ReadOwnLock(p) \/ ReleaseLock(p) \/ Die(p)
        PROVE  BootInv'
    BY <2>1, ProcessKeeps
  <2>2. CASE StopReadsMetadata \/ PollMetadata \/ InspectReads
    BY <2>2, ReadsKeep
  <2>3. CASE RequestStop
    BY <2>3, RequestStopKeeps
  <2>4. CASE InspectRemovesMetadata \/ InspectRemovesLock
    BY <2>4, InspectRemoves
  <2>5. CASE UNCHANGED bootVars
    <3>1. UNCHANGED <<lockFile, metaFile, schema, bt, cli, raced, forced>>
      BY <2>5 DEF bootVars
    <3>2. /\ raced \in BOOLEAN /\ lockFile \in LockPayload \cup {NoFile} /\ cli \in CliRecord
      BY DEF BootInv, BootTypeOK
    <3>3. OperatorFits' /\ \A q \in Proc : LockFits(q)'
      BY <3>1 DEF BootInv, OperatorFits, LockFits, Owner, Published
    <3> QED
      BY <3>1, <3>2, <3>3, OperatorKeeps
  <2> QED
    BY <2>1, <2>2, <2>3, <2>4, <2>5 DEF BootNext
<1> QED
  BY BootStarts, <1>1, PTL DEF BootSpec

\* One Host serves a profile, on a schema it knows; what it closed in order it
\* left without a trace, and while it drains it does not say that it is ready
\* (acquireHostLock, applyStateMigrations, persist, closeHost).
THEOREM BootCorrect == BootSpec => []BootAgrees
<1>1. BootInv => BootAgrees
  <2> SUFFICES ASSUME BootInv PROVE BootAgrees
    OBVIOUS
  <2>1. BootTypeOK /\ History
    BY DEF BootInv
  <2>2. OneHost
    <3> SUFFICES ASSUME ~raced, ~forced, NEW p \in Proc, NEW q \in Proc, bt[p].db, bt[q].db PROVE p = q
      BY DEF OneHost
    <3> QED
      BY OneHolder, ProcessFacts DEF PhasesFit
  <2>3. SchemaIsKnown
    <3>1. ASSUME NEW p \in Proc, bt[p].db, ~raced, ~forced,
                 bt[p].pc \in {"build", "services", "start", "listening", "up"}
          PROVE  schema = Migs[p]
      BY <3>1, ProcessFacts DEF SchemaFits, OnSchema
    <3> QED
      BY <2>1, <3>1 DEF SchemaIsKnown, History
  <2>4. ClosedIsClean
    BY ProcessFacts DEF ClosedIsClean, LockFits, MetaFits
  <2>5. DrainedIsNotReady
    <3> SUFFICES ASSUME NEW p \in Proc, bt[p].cl \in {"drain", "database", "meta"}, metaFile # NoFile, metaFile.owner = p
                 PROVE  metaFile.st # "READY"
      BY DEF DrainedIsNotReady
    <3>1. MetaFits(p) /\ WritesFit(bt[p]) /\ Owner(metaFile) = p
      BY ProcessFacts DEF Owner
    <3>2. CASE bt[p].writes = <<>>
      BY <3>1, <3>2 DEF MetaFits
    <3>3. CASE bt[p].writes # <<>>
      <4>1. bt[p].writes = <<"LISTENING">> /\ bt[p].mw = "renamed"
        BY <3>1, <3>3 DEF WritesFit, Draining
      <4>2. metaFile.st = bt[p].writes[1]
        BY <3>1, <4>1 DEF MetaFits
      <4> QED
        BY <4>1, <4>2, WriteFacts
    <3> QED
      BY <3>2, <3>3
  <2> QED
    BY <2>1, <2>2, <2>3, <2>4, <2>5 DEF BootAgrees
<1> QED
  BY <1>1, BootInductive, PTL
-----------------------------------------------------------------------------
(* WorkspaceFiles: the calls, their chains and what their renames replaced. *)

Unqueued == {"new", "resolve", "enqueue"}
Waiting == {"queued", "before"}
Writing == {"temp", "latest", "rename"}
Written == {"refresh", "record", "metadata"}
Mutates(c) == fcall[c].tool # "read"

\* Only Alias may be a link.
LinkFits == disk[Target] # Link /\ (disk[Alias] = Link => AliasIsLink)

\* Where a call stands: a read is in no chain, a patch has its text once it was
\* computed, and only a call that ended has its answer and its row.
FilePlaced(c) ==
    /\ ~Mutates(c) => fcall[c].at \notin {"enqueue"} \cup Waiting \cup Writing
    /\ fcall[c].at = "queued" => fcall[c].tool = "patch"
    /\ fcall[c].tool = "patch" => fcall[c].expected # Missing
    /\ fcall[c].tool = "write" => fcall[c].text # Missing
    /\ Mutates(c) /\ fcall[c].at \in {"before"} \cup Writing \cup Written => fcall[c].text # Missing
    /\ fcall[c].at # "done" => fcall[c].result = "none" /\ artifactRow[c] = Missing
    /\ fcall[c].temp => fcall[c].at \in {"latest", "rename", "done"}
    /\ fcall[c].result # "none" => ~fcall[c].temp

\* A mutation waits in the chain of its file, and one that writes is its head.
FileChained(c) ==
    /\ fcall[c].at \in Waiting => \E i \in 1 .. Len(tails[fcall[c].key]) : tails[fcall[c].key][i] = c
    /\ Mutates(c) /\ fcall[c].at \in Writing \cup Written =>
           tails[fcall[c].key] # <<>> /\ Head(tails[fcall[c].key]) = c
    /\ Mutates(c) /\ Direct(c) /\ fcall[c].at \in Waiting \cup Writing \cup Written => fcall[c].key = fcall[c].path

\* What the file held before the rename of a call, and what it holds after.
FileReplaced(c) ==
    /\ ~Mutates(c) \/ fcall[c].at \in Unqueued \cup Waiting \cup Writing => replaced[c] = {}
    /\ Mutates(c) /\ fcall[c].at \in Writing \cup Written => fcall[c].change.before = fcall[c].expected
    /\ fcall[c].at = "rename" /\ Direct(c) /\ ~fcall[c].meddled => Holds(fcall[c].path) = fcall[c].expected
    /\ Mutates(c) /\ fcall[c].at \in Written /\ Direct(c) /\ ~fcall[c].meddled => replaced[c] = {fcall[c].expected}
    /\ Mutates(c) /\ fcall[c].at = "refresh" /\ ~fcall[c].meddled =>
           disk[fcall[c].path] \in FileText /\ (Direct(c) => disk[fcall[c].path] = fcall[c].text)
    /\ Mutates(c) /\ fcall[c].at \in {"record", "metadata"} /\ Direct(c) /\ ~fcall[c].meddled =>
           fcall[c].change.after = fcall[c].text

FilesInv ==
    /\ FilesAgree /\ LinkFits
    /\ \A c \in FileCall : FilePlaced(c) /\ FileChained(c) /\ FileReplaced(c)

\* The four properties, of one call.
FileTold(c) ==
    /\ Direct(c) /\ ~fcall[c].meddled => replaced[c] \subseteq {fcall[c].expected}
    /\ (artifactRow[c] # Missing /\ Mutates(c) /\ Direct(c) /\ ~fcall[c].meddled) =>
           replaced[c] = {artifactRow[c].before} /\ artifactRow[c].after = fcall[c].text
    /\ artifactRow[c] # Missing => artifactDir[c] = "whole"
    /\ fcall[c].result = "error" /\ ~fcall[c].meddled => replaced[c] = {}

FileOK(c) == FilePlaced(c) /\ FileChained(c) /\ FileReplaced(c) /\ FileTold(c)

\* The invariant, call by call.
LEMMA FilesByCall == FilesInv <=> FilesTypeOK /\ LinkFits /\ \A c \in FileCall : FileOK(c)
BY DEF FilesInv, FilesAgree, FileOK, FileTold, FilePlaced, ReplacesExpectedText, ArtifactTellsChange,
       ArtifactIsWhole, AnswerIsClean, Mutates

\* The same of the state after a step.
LEMMA FilesByCallNext ==
    ASSUME FilesTypeOK', LinkFits', \A c \in FileCall : FileOK(c)'
    PROVE  FilesInv'
BY DEF FilesInv, FilesAgree, FileOK, FileTold, FilePlaced, ReplacesExpectedText, ArtifactTellsChange,
       ArtifactIsWhole, AnswerIsClean, Mutates

\* Two calls at the head of one chain are one call.
LEMMA OneWriter ==
    ASSUME FilesInv, NEW c \in FileCall, NEW d \in FileCall, Mutates(c), Mutates(d),
           fcall[c].at \in Writing \cup Written, fcall[d].at \in Writing \cup Written,
           Direct(c), fcall[c].path = fcall[d].path
    PROVE  c = d
<1>1. FileChained(c) /\ FileChained(d) BY DEF FilesInv
<1>2. Direct(d) BY DEF Direct
<1> QED BY <1>1, <1>2 DEF FileChained

\* What a path holds is a revision.
LEMMA HoldsTyped ==
    ASSUME FilesTypeOK, LinkFits, NEW p \in Path
    PROVE  Holds(p) \in Revision
<1>1. Target \in Path /\ disk[Target] \in Revision BY DEF FilesTypeOK, LinkFits, Path
<1>2. disk[p] # Link => disk[p] \in Revision BY DEF FilesTypeOK
<1> QED BY <1>1, <1>2 DEF Holds, RealPath

\* The chains after one of their calls has ended.
Popped(c) == tails' = [p \in Path |-> IF tails[p] # <<>> /\ Head(tails[p]) = c THEN Tail(tails[p]) ELSE tails[p]]

\* They are chains.
LEMMA PoppedTyped ==
    ASSUME FilesTypeOK, NEW c, Popped(c)
    PROVE  tails' \in [Path -> Seq(FileCall)]
<1>1. \A p \in Path : tails[p] \in Seq(FileCall) BY DEF FilesTypeOK
<1>2. \A s \in Seq(FileCall) : s # <<>> => Tail(s) \in Seq(FileCall) OBVIOUS
<1> QED BY <1>1, <1>2 DEF Popped

\* Another call keeps its place in its chain.
LEMMA PoppedChained ==
    ASSUME FilesTypeOK, NEW c \in FileCall, NEW d \in FileCall, d # c, Popped(c), fcall'[d] = fcall[d], FileChained(d)
    PROVE  FileChained(d)'
<1> DEFINE k == fcall[d].key
<1>1. k \in Path BY DEF FilesTypeOK, FileCallRecord
<1>2. tails[k] \in Seq(FileCall) BY <1>1 DEF FilesTypeOK
<1>3. tails'[k] = IF tails[k] # <<>> /\ Head(tails[k]) = c THEN Tail(tails[k]) ELSE tails[k]
  BY <1>1 DEF Popped
<1>4. ASSUME NEW i \in 1 .. Len(tails[k]), tails[k][i] = d
      PROVE  \E j \in 1 .. Len(tails'[k]) : tails'[k][j] = d
  <2>1. CASE tails[k] # <<>> /\ Head(tails[k]) = c
    <3>1. i # 1 BY <2>1, <1>4, <1>2
    <3>2. i - 1 \in 1 .. Len(tails[k]) - 1 BY <3>1, <1>2, <1>4
    <3>3. Len(Tail(tails[k])) = Len(tails[k]) - 1 BY <1>2, <2>1
    <3>4. Tail(tails[k])[i - 1] = tails[k][i] BY <1>2, <2>1, <3>2
    <3> QED BY <1>3, <1>4, <2>1, <3>2, <3>3, <3>4
  <2>2. CASE ~(tails[k] # <<>> /\ Head(tails[k]) = c)
    <3>1. tails'[k] = tails[k] BY <1>3, <2>2
    <3> QED BY <1>4, <3>1
  <2> QED BY <2>1, <2>2
<1>5. tails[k] # <<>> /\ Head(tails[k]) = d => tails'[k] = tails[k]
  BY <1>3
<1> HIDE DEF k
<1> DEFINE a == fcall[d].at
<1>6. a \in Waiting => \E i \in 1 .. Len(tails[k]) : tails[k][i] = d BY DEF FileChained, k
<1>7. a \in Waiting => \E i \in 1 .. Len(tails'[k]) : tails'[k][i] = d BY <1>4, <1>6
<1> QED BY <1>5, <1>7 DEF FileChained, Mutates, Direct, k

\* A call that joins a chain leaves the others where they are.
LEMMA PushedChained ==
    ASSUME FilesTypeOK, NEW c \in FileCall, NEW d \in FileCall, NEW p \in Path, tails' = [tails EXCEPT ![p] = Append(@, c)],
           fcall'[d] = fcall[d], FileChained(d)
    PROVE  FileChained(d)'
<1> DEFINE k == fcall[d].key
<1>1. k \in Path BY DEF FilesTypeOK, FileCallRecord
<1>2. tails[k] \in Seq(FileCall) BY <1>1 DEF FilesTypeOK
<1>3. tails'[k] = IF k = p THEN Append(tails[k], c) ELSE tails[k]
  BY <1>1 DEF FilesTypeOK
<1>4. ASSUME NEW i \in 1 .. Len(tails[k]), tails[k][i] = d
      PROVE  \E j \in 1 .. Len(tails'[k]) : tails'[k][j] = d
  <2>1. i \in 1 .. Len(tails'[k]) /\ tails'[k][i] = tails[k][i] BY <1>2, <1>3, <1>4
  <2> QED BY <2>1, <1>4
<1>5. tails[k] # <<>> => tails'[k] # <<>> /\ Head(tails'[k]) = Head(tails[k])
  BY <1>2, <1>3
<1> HIDE DEF k
<1>6. fcall[d].at \in Waiting => \E i \in 1 .. Len(tails[k]) : tails[k][i] = d BY DEF FileChained, k
<1>7. fcall[d].at \in Waiting => \E i \in 1 .. Len(tails'[k]) : tails'[k][i] = d BY <1>4, <1>6
<1> QED BY <1>5, <1>7 DEF FileChained, Mutates, Direct, k

\* A call that nothing happened to but a longer or shorter chain.
LEMMA FileFrame ==
    ASSUME FilesInv, NEW c \in FileCall, NEW d \in FileCall, d # c,
           UNCHANGED disk, fcall'[d] = fcall[d], replaced'[d] = replaced[d],
           artifactRow'[d] = artifactRow[d], artifactDir'[d] = artifactDir[d],
           \/ UNCHANGED tails
           \/ Popped(c)
           \/ \E p \in Path : tails' = [tails EXCEPT ![p] = Append(@, c)]
    PROVE  FileOK(d)'
<1>1. FileOK(d) /\ FilesTypeOK BY FilesByCall
<1>2. FileChained(d)'
  <2>1. CASE UNCHANGED tails BY <2>1, <1>1 DEF FileOK, FileChained, Mutates, Direct
  <2>2. CASE Popped(c) BY <2>2, <1>1, PoppedChained DEF FileOK
  <2>3. CASE \E p \in Path : tails' = [tails EXCEPT ![p] = Append(@, c)]
    BY <2>3, <1>1, PushedChained DEF FileOK
  <2> QED BY <2>1, <2>2, <2>3
<1>3. FilePlaced(d)' BY <1>1 DEF FileOK, FilePlaced, Mutates
<1>4. FileReplaced(d)' BY <1>1 DEF FileOK, FileReplaced, Mutates, Direct, Holds, RealPath
<1>5. FileTold(d)' BY <1>1 DEF FileOK, FileTold, Mutates, Direct
<1> QED BY <1>2, <1>3, <1>4, <1>5 DEF FileOK

\* The counters stay in their bounds.
BudgetTyped == fileBudget \in [edits : 0 .. MaxUserEdits, faults : 0 .. MaxIoFaults, crashes : 0 .. MaxFileCrashes]

\* A fault, an edit or a crash is counted.
LEMMA BudgetCounted ==
    ASSUME FilesTypeOK, UNCHANGED fileBudget \/ IoFault
    PROVE  BudgetTyped'
<1> USE FilesAssumption DEF FilesTypeOK, BudgetTyped
<1>1. CASE UNCHANGED fileBudget BY <1>1
<1>2. CASE IoFault
  <2>1. fileBudget.edits \in 0 .. MaxUserEdits /\ fileBudget.faults \in 0 .. MaxIoFaults /\ fileBudget.crashes \in 0 .. MaxFileCrashes
    OBVIOUS
  <2>2. fileBudget.faults + 1 \in 0 .. MaxIoFaults BY <2>1, <1>2 DEF IoFault
  <2>3. fileBudget' = [edits |-> fileBudget.edits, faults |-> fileBudget.faults + 1, crashes |-> fileBudget.crashes]
    BY <1>2 DEF IoFault
  <2> QED BY <2>1, <2>2, <2>3
<1> QED BY <1>1, <1>2

\* A step that changes the record of one call, and its chain, keeps the
\* invariant if it does for that call.
LEMMA FileStep ==
    ASSUME FilesInv, NEW c \in FileCall, NEW f \in FileCallRecord, fcall' = [fcall EXCEPT ![c] = f],
           UNCHANGED <<disk, artifactRow, replaced>>,
           \E x \in {"none", "files", "whole"} : artifactDir' = [artifactDir EXCEPT ![c] = x],
           \/ UNCHANGED tails
           \/ Popped(c)
           \/ \E p \in Path : tails' = [tails EXCEPT ![p] = Append(@, c)],
           UNCHANGED fileBudget \/ IoFault,
           FileOK(c)'
    PROVE  FilesInv'
<1>0. FilesTypeOK /\ LinkFits BY FilesByCall
<1>1. fcall' \in [FileCall -> FileCallRecord] /\ \A d \in FileCall \ {c} : fcall'[d] = fcall[d]
  BY <1>0 DEF FilesTypeOK
<1>2. tails' \in [Path -> Seq(FileCall)]
  <2>1. CASE UNCHANGED tails BY <2>1, <1>0 DEF FilesTypeOK
  <2>2. CASE Popped(c) BY <2>2, <1>0, PoppedTyped
  <2>3. ASSUME NEW p \in Path, tails' = [tails EXCEPT ![p] = Append(@, c)] PROVE tails' \in [Path -> Seq(FileCall)]
    BY <2>3, <1>0 DEF FilesTypeOK
  <2> QED BY <2>1, <2>2, <2>3
<1>3. artifactDir' \in [FileCall -> {"none", "files", "whole"}] /\ \A d \in FileCall \ {c} : artifactDir'[d] = artifactDir[d]
  BY <1>0 DEF FilesTypeOK
<1>4. BudgetTyped' BY <1>0, BudgetCounted
<1>5. FilesTypeOK' BY <1>0, <1>1, <1>2, <1>3, <1>4 DEF FilesTypeOK, BudgetTyped
<1>6. LinkFits' BY <1>0 DEF LinkFits
<1>7. \A d \in FileCall : FileOK(d)'
  <2> TAKE d \in FileCall
  <2>1. CASE d = c BY <2>1
  <2>2. CASE d # c BY <2>2, <1>1, <1>3, FileFrame
  <2> QED BY <2>1, <2>2
<1> QED BY <1>5, <1>6, <1>7, FilesByCallNext

\* What the fields of a record may be.
LEMMA FileFields ==
    ASSUME FilesInv, NEW c \in FileCall
    PROVE  /\ fcall[c] \in FileCallRecord
           /\ fcall[c].tool \in {"read", "write", "patch"} /\ fcall[c].path \in Path
           /\ fcall[c].expected \in Revision /\ fcall[c].text \in Revision
           /\ fcall[c].exists \in BOOLEAN /\ fcall[c].key \in Path
           /\ fcall[c].change \in Change /\ fcall[c].temp \in BOOLEAN /\ fcall[c].meddled \in BOOLEAN
           /\ fcall[c].result \in {"none", "ok", "error", "thrown"}
<1>1. fcall[c] \in FileCallRecord BY FilesByCall DEF FilesTypeOK
<1> QED BY <1>1 DEF FileCallRecord

\* An answer ends the call: it has no row, unless its row is written with it.
LEMMA FileAnswered ==
    ASSUME FilesInv, NEW c \in FileCall, NEW result \in {"ok", "error", "thrown"}, Answer(c, result),
           fcall[c].at # "done",
           result = "error" => (~fcall[c].meddled => replaced[c] = {}),
           UNCHANGED <<disk, artifactRow, replaced>>,
           \E x \in {"none", "files", "whole"} : artifactDir' = [artifactDir EXCEPT ![c] = x],
           UNCHANGED fileBudget \/ IoFault
    PROVE  FilesInv'
<1> DEFINE f == [[fcall[c] EXCEPT !.at = "done", !.temp = FALSE] EXCEPT !.result = result]
<1>1. fcall' = [fcall EXCEPT ![c] = f] /\ Popped(c) BY DEF Answer, LeavesTemp, Popped
<1>2. /\ f.at = "done" /\ f.temp = FALSE /\ f.result = result /\ f.tool = fcall[c].tool /\ f.path = fcall[c].path
      /\ f.expected = fcall[c].expected /\ f.text = fcall[c].text /\ f.meddled = fcall[c].meddled
      /\ f \in FileCallRecord
  <2>1. f \in FileCallRecord BY FileFields DEF FileCallRecord
  <2> QED BY <2>1, FileFields DEF FileCallRecord
<1> HIDE DEF f
<1>3. fcall'[c] = f BY <1>1, FilesByCall DEF FilesTypeOK
<1>4. FileOK(c) BY FilesByCall
<1>5. FilePlaced(c)' BY <1>2, <1>3, <1>4 DEF FileOK, FilePlaced, Mutates, Waiting, Writing, Written
<1>6. FileChained(c)' BY <1>2, <1>3 DEF FileChained, Waiting, Writing, Written
<1>7. FileReplaced(c)'
  BY <1>2, <1>3, <1>4 DEF FileOK, FileReplaced, Mutates, Unqueued, Waiting, Writing, Written
<1>8. artifactRow[c] = Missing BY <1>4 DEF FileOK, FilePlaced
<1>9. FileTold(c)' BY <1>2, <1>3, <1>4, <1>8 DEF FileOK, FileTold, Direct
<1>10. FileOK(c)' BY <1>5, <1>6, <1>7, <1>9 DEF FileOK
<1> QED BY <1>1, <1>2, <1>10, FileStep

-----------------------------------------------------------------------------
\* A call is made.
LEMMA FilesCallTool ==
    ASSUME FilesInv, NEW c \in FileCall, NEW kind \in {"read", "write", "patch"}, NEW p \in Path,
           NEW e \in Revision, NEW t \in Revision, CallFileTool(c, kind, p, e, t)
    PROVE  FilesInv'
<1> DEFINE f == [fcall[c] EXCEPT !.tool = kind, !.path = p, !.expected = e, !.text = t, !.at = "resolve"]
<1>1. /\ fcall[c].at = "new" /\ fcall' = [fcall EXCEPT ![c] = f]
      /\ kind = "patch" => e # Missing
      /\ kind = "write" => t # Missing
      /\ UNCHANGED <<disk, tails, artifactDir, artifactRow, replaced, fileBudget>>
  BY DEF CallFileTool, FAt
<1>2. /\ f.at = "resolve" /\ f.temp = fcall[c].temp /\ f.result = fcall[c].result /\ f.tool = kind /\ f.path = p
      /\ f.expected = e /\ f.text = t /\ f.meddled = fcall[c].meddled
      /\ f \in FileCallRecord
  <2>1. f \in FileCallRecord BY FileFields DEF FileCallRecord
  <2> QED BY <2>1, FileFields DEF FileCallRecord
<1> HIDE DEF f
<1>3. fcall'[c] = f BY <1>1, FilesByCall DEF FilesTypeOK
<1>4. FileOK(c) BY FilesByCall
<1>5. FilePlaced(c)' BY <1>1, <1>2, <1>3, <1>4 DEF FileOK, FilePlaced, Mutates, Waiting, Writing, Written
<1>6. FileChained(c)' BY <1>2, <1>3 DEF FileChained, Waiting, Writing, Written
<1>7. replaced[c] = {} /\ artifactRow[c] = Missing BY <1>1, <1>4 DEF FileOK, FileReplaced, FilePlaced, Unqueued
<1>8. FileReplaced(c)' BY <1>1, <1>2, <1>3, <1>7 DEF FileReplaced, Mutates, Unqueued, Waiting, Writing, Written
<1>9. FileTold(c)' BY <1>1, <1>2, <1>3, <1>7 DEF FileTold, Direct
<1>10. FileOK(c)' BY <1>5, <1>6, <1>8, <1>9 DEF FileOK
<1>11. \E x \in {"none", "files", "whole"} : artifactDir' = [artifactDir EXCEPT ![c] = x]
  BY <1>1, FilesByCall DEF FilesTypeOK
<1> QED BY <1>1, <1>2, <1>10, <1>11, FileStep

\* Nothing is recorded: the directory of the call stays.
LEMMA DirKept ==
    ASSUME FilesInv, NEW c \in FileCall, UNCHANGED artifactDir
    PROVE  \E x \in {"none", "files", "whole"} : artifactDir' = [artifactDir EXCEPT ![c] = x]
BY FilesByCall DEF FilesTypeOK

\* The path is resolved.
LEMMA FilesResolve ==
    ASSUME FilesInv, NEW c \in FileCall, ResolveFile(c)
    PROVE  FilesInv'
<1> DEFINE p == fcall[c].path
<1>1. fcall[c].at = "resolve" /\ UNCHANGED <<disk, artifactDir, artifactRow, replaced, fileBudget>>
  BY DEF ResolveFile, FAt
<1>2. CASE Answer(c, "error")
  <2>1. replaced[c] = {} BY <1>1, FilesByCall DEF FileOK, FileReplaced, Unqueued
  <2> QED BY <1>1, <1>2, <2>1, DirKept, FileAnswered
<1>3. CASE fcall' = [fcall EXCEPT ![c].exists = disk[p] # Missing,
                                  ![c].at = IF fcall[c].tool = "read" THEN "refresh" ELSE "enqueue"] /\ UNCHANGED tails
  <2> DEFINE there == disk[p] # Missing
             onto == IF fcall[c].tool = "read" THEN "refresh" ELSE "enqueue"
             f == [[fcall[c] EXCEPT !.exists = there] EXCEPT !.at = onto]
  <2>1. fcall' = [fcall EXCEPT ![c] = f] BY <1>3, FilesByCall DEF FilesTypeOK
  <2>2. /\ onto \in {"refresh", "enqueue"} /\ there \in BOOLEAN
        /\ onto = "refresh" <=> ~Mutates(c)
    BY DEF Mutates
  <2> HIDE DEF there, onto
  <2>3. /\ f.at = onto /\ f.temp = fcall[c].temp /\ f.result = fcall[c].result /\ f.tool = fcall[c].tool
        /\ f.path = fcall[c].path /\ f.expected = fcall[c].expected /\ f.text = fcall[c].text
        /\ f.meddled = fcall[c].meddled /\ f \in FileCallRecord
    <3>1. f \in FileCallRecord BY <2>2, FileFields DEF FileCallRecord
    <3> QED BY <3>1, FileFields DEF FileCallRecord
  <2> HIDE DEF f
  <2>4. fcall'[c] = f BY <2>1, FilesByCall DEF FilesTypeOK
  <2>5. FileOK(c) BY FilesByCall
  <2>6. FilePlaced(c)' BY <1>1, <2>2, <2>3, <2>4, <2>5 DEF FileOK, FilePlaced, Mutates, Waiting, Writing, Written
  <2>7. FileChained(c)' BY <2>2, <2>3, <2>4 DEF FileChained, Mutates, Waiting, Writing, Written
  <2>8. replaced[c] = {} /\ artifactRow[c] = Missing BY <1>1, <2>5 DEF FileOK, FileReplaced, FilePlaced, Unqueued
  <2>9. FileReplaced(c)' BY <1>1, <2>2, <2>3, <2>4, <2>8 DEF FileReplaced, Mutates, Unqueued, Waiting, Writing, Written
  <2>10. FileTold(c)' BY <1>1, <2>3, <2>4, <2>8 DEF FileTold, Direct
  <2>11. FileOK(c)' BY <2>6, <2>7, <2>9, <2>10 DEF FileOK
  <2> QED BY <1>1, <1>3, <2>1, <2>3, <2>11, DirKept, FileStep
<1> QED BY <1>2, <1>3 DEF ResolveFile

\* A mutation joins the chain of its file.

\* A mutation joins the chain of its file.
LEMMA FilesEnqueue ==
    ASSUME FilesInv, NEW c \in FileCall, EnqueueMutation(c)
    PROVE  FilesInv'
<1> DEFINE p == fcall[c].path
           k == IF Dangling(p) THEN p ELSE RealPath(p)
           there == IF fcall[c].tool = "patch" THEN "queued" ELSE "before"
           f == [[fcall[c] EXCEPT !.key = k] EXCEPT !.at = there]
<1>1. /\ fcall[c].at = "enqueue" /\ tails' = [tails EXCEPT ![k] = Append(@, c)]
      /\ UNCHANGED <<disk, artifactDir, artifactRow, replaced, fileBudget>>
  BY DEF EnqueueMutation, FAt
<1>2. fcall' = [fcall EXCEPT ![c] = f] BY FilesByCall DEF EnqueueMutation, FilesTypeOK
<1>3. FilesTypeOK /\ LinkFits /\ FileOK(c) BY FilesByCall
<1>4. Mutates(c) /\ p \in Path BY <1>1, <1>3, FileFields DEF FileOK, FilePlaced
<1>5. k \in Path /\ (Direct(c) => k = p)
  <2>1. disk[p] = Link => p = Alias BY <1>3, <1>4 DEF LinkFits, Path
  <2>2. Direct(c) => disk[p] # Link BY <2>1, <1>3, FilesAssumption DEF LinkFits, Direct
  <2> QED BY <1>4, <2>2 DEF RealPath, Dangling, Path
<1>6. there \in {"queued", "before"} /\ (there = "queued" <=> fcall[c].tool = "patch") OBVIOUS
<1>61. there = "before" => fcall[c].tool = "write" BY <1>4, <1>6, FileFields DEF Mutates
<1> HIDE DEF there, k
<1>7. /\ f.at = there /\ f.temp = fcall[c].temp /\ f.result = fcall[c].result /\ f.tool = fcall[c].tool
      /\ f.path = fcall[c].path /\ f.expected = fcall[c].expected /\ f.text = fcall[c].text
      /\ f.meddled = fcall[c].meddled /\ f.key = k /\ f \in FileCallRecord
  <2>1. f \in FileCallRecord BY <1>5, <1>6, FileFields DEF FileCallRecord
  <2> QED BY <2>1, FileFields DEF FileCallRecord
<1> HIDE DEF f
<1>8. fcall'[c] = f BY <1>2, <1>3 DEF FilesTypeOK
<1>9. FilePlaced(c)'
  BY <1>1, <1>3, <1>4, <1>6, <1>61, <1>7, <1>8 DEF FileOK, FilePlaced, Mutates, Waiting, Writing, Written
<1>10. FileChained(c)'
  <2>1. tails[k] \in Seq(FileCall) BY <1>3, <1>5 DEF FilesTypeOK
  <2>2. tails'[k] = Append(tails[k], c) BY <1>1, <1>3, <1>5 DEF FilesTypeOK
  <2>3. Len(tails'[k]) \in 1 .. Len(tails'[k]) /\ tails'[k][Len(tails'[k])] = c BY <2>1, <2>2
  <2>4. \E i \in 1 .. Len(tails'[k]) : tails'[k][i] = c BY <2>3
  <2> QED BY <2>4, <1>5, <1>6, <1>7, <1>8 DEF FileChained, Mutates, Direct, Waiting, Writing, Written
<1>11. replaced[c] = {} /\ artifactRow[c] = Missing BY <1>1, <1>3 DEF FileOK, FileReplaced, FilePlaced, Unqueued
<1>12. FileReplaced(c)'
  BY <1>1, <1>6, <1>7, <1>8, <1>11 DEF FileReplaced, Mutates, Unqueued, Waiting, Writing, Written
<1>13. FileTold(c)' BY <1>1, <1>7, <1>8, <1>11 DEF FileTold, Direct
<1>14. FileOK(c)' BY <1>9, <1>10, <1>12, <1>13 DEF FileOK
<1> QED BY <1>1, <1>2, <1>5, <1>7, <1>14, DirKept, FileStep

\* The call whose turn it is is the head of its chain.
LEMMA WaiterRuns ==
    ASSUME FilesInv, NEW c \in FileCall, fcall[c].at \in Waiting, Running(c)
    PROVE  tails[fcall[c].key] # <<>> /\ Head(tails[fcall[c].key]) = c
<1>1. FileChained(c) /\ FilesTypeOK BY FilesByCall DEF FileOK
<1>2. PICK i \in 1 .. Len(tails[fcall[c].key]) : tails[fcall[c].key][i] = c BY <1>1 DEF FileChained
<1>3. tails[fcall[c].key] # <<>> BY <1>2
<1> QED BY <1>3 DEF Running

\* What a call reads at its path is a revision.
LEMMA OnDiskTyped ==
    ASSUME FilesInv, NEW c \in FileCall
    PROVE  OnDisk(c) \in Revision
<1>1. Holds(fcall[c].path) \in Revision BY FilesByCall, FileFields, HoldsTyped
<1> QED BY <1>1 DEF OnDisk, Revision

\* A patch gets its text.
LEMMA FilesPatch ==
    ASSUME FilesInv, NEW c \in FileCall, ComputePatch(c)
    PROVE  FilesInv'
<1>1. /\ fcall[c].at = "queued" /\ Running(c)
      /\ UNCHANGED <<disk, artifactDir, artifactRow, replaced, fileBudget>>
  BY DEF ComputePatch, FAt
<1>2. FileOK(c) /\ FilesTypeOK BY FilesByCall
<1>3. replaced[c] = {} /\ artifactRow[c] = Missing
  BY <1>1, <1>2 DEF FileOK, FileReplaced, FilePlaced, Waiting
<1>4. CASE Answer(c, "thrown") BY <1>1, <1>4, DirKept, FileAnswered
<1>5. CASE Answer(c, "error") BY <1>1, <1>3, <1>5, DirKept, FileAnswered
<1>6. ASSUME OnDisk(c) = fcall[c].expected, Patched[OnDisk(c)] # Missing,
             fcall' = [fcall EXCEPT ![c].text = Patched[OnDisk(c)], ![c].at = "before"], UNCHANGED tails
      PROVE FilesInv'
  <2> DEFINE t == Patched[OnDisk(c)]
             f == [[fcall[c] EXCEPT !.text = t] EXCEPT !.at = "before"]
  <2>1. fcall[c].tool = "patch" /\ fcall[c].expected # Missing BY <1>1, <1>2 DEF FileOK, FilePlaced
  <2>2. OnDisk(c) \in FileText BY <2>1, <1>6, OnDiskTyped DEF Revision
  <2>3. t \in Revision /\ t # Missing BY <2>2, <1>6, FilesAssumption DEF Revision
  <2>4. fcall' = [fcall EXCEPT ![c] = f] BY <1>6, <1>2 DEF FilesTypeOK
  <2> HIDE DEF t
  <2>5. /\ f.at = "before" /\ f.temp = fcall[c].temp /\ f.result = fcall[c].result /\ f.tool = fcall[c].tool
        /\ f.path = fcall[c].path /\ f.expected = fcall[c].expected /\ f.text = t
        /\ f.meddled = fcall[c].meddled /\ f.key = fcall[c].key /\ f \in FileCallRecord
    <3>1. f \in FileCallRecord BY <2>3, FileFields DEF FileCallRecord
    <3> QED BY <3>1, FileFields DEF FileCallRecord
  <2> HIDE DEF f
  <2>6. fcall'[c] = f BY <2>4, <1>2 DEF FilesTypeOK
  <2>7. FilePlaced(c)'
    BY <1>1, <1>2, <2>1, <2>3, <2>5, <2>6 DEF FileOK, FilePlaced, Mutates, Waiting, Writing, Written
  <2>8. FileChained(c)'
    BY <1>1, <1>2, <1>6, <2>1, <2>5, <2>6 DEF FileOK, FileChained, Mutates, Direct, Waiting, Writing, Written
  <2>9. FileReplaced(c)'
    BY <1>1, <1>3, <2>5, <2>6 DEF FileReplaced, Mutates, Unqueued, Waiting, Writing, Written
  <2>10. FileTold(c)' BY <1>1, <1>3, <2>5, <2>6 DEF FileTold, Direct
  <2>11. FileOK(c)' BY <2>7, <2>8, <2>9, <2>10 DEF FileOK
  <2> QED BY <1>1, <1>6, <2>4, <2>5, <2>11, DirKept, FileStep
<1> QED BY <1>4, <1>5, <1>6 DEF ComputePatch

\* A mutation at the head of its chain reads the file.
LEMMA FilesReadBefore ==
    ASSUME FilesInv, NEW c \in FileCall, ReadBefore(c)
    PROVE  FilesInv'
<1>1. /\ fcall[c].at = "before" /\ Running(c)
      /\ UNCHANGED <<disk, artifactDir, artifactRow, replaced, fileBudget>>
  BY DEF ReadBefore, FAt
<1>2. FileOK(c) /\ FilesTypeOK BY FilesByCall
<1>3. replaced[c] = {} /\ artifactRow[c] = Missing
  BY <1>1, <1>2 DEF FileOK, FileReplaced, FilePlaced, Waiting
<1>4. CASE Answer(c, "thrown") BY <1>1, <1>4, DirKept, FileAnswered
<1>5. CASE Answer(c, "error") BY <1>1, <1>3, <1>5, DirKept, FileAnswered
<1>6. ASSUME OnDisk(c) = fcall[c].expected,
             fcall' = [fcall EXCEPT ![c].change.before = OnDisk(c), ![c].at = "temp"], UNCHANGED tails
      PROVE FilesInv'
  <2> DEFINE t == OnDisk(c)
             g == [fcall[c].change EXCEPT !.before = t]
             f == [[fcall[c] EXCEPT !.change = g] EXCEPT !.at = "temp"]
  <2>1. fcall' = [fcall EXCEPT ![c] = f] BY <1>6, <1>2 DEF FilesTypeOK
  <2>2. t \in Revision /\ t = fcall[c].expected BY <1>6, OnDiskTyped
  <2> HIDE DEF t
  <2>3. g.before = t /\ g \in Change BY <2>2, FileFields DEF Change
  <2> HIDE DEF g
  <2>4. /\ f.at = "temp" /\ f.temp = fcall[c].temp /\ f.result = fcall[c].result /\ f.tool = fcall[c].tool
        /\ f.path = fcall[c].path /\ f.expected = fcall[c].expected /\ f.text = fcall[c].text /\ f.change = g
        /\ f.meddled = fcall[c].meddled /\ f.key = fcall[c].key /\ f \in FileCallRecord
    <3>1. f \in FileCallRecord BY <2>3, FileFields DEF FileCallRecord
    <3> QED BY <3>1, FileFields DEF FileCallRecord
  <2> HIDE DEF f
  <2>5. fcall'[c] = f BY <2>1, <1>2 DEF FilesTypeOK
  <2>6. Mutates(c) BY <1>1, <1>2 DEF FileOK, FilePlaced, Waiting
  <2>7. FilePlaced(c)'
    BY <1>1, <1>2, <2>4, <2>5, <2>6 DEF FileOK, FilePlaced, Mutates, Waiting, Writing, Written
  <2>8. FileChained(c)'
    <3>1. tails[fcall[c].key] # <<>> /\ Head(tails[fcall[c].key]) = c BY <1>1, WaiterRuns DEF Waiting
    <3> QED BY <3>1, <1>1, <1>2, <1>6, <2>4, <2>5, <2>6 DEF FileOK, FileChained, Mutates, Direct, Waiting, Writing, Written
  <2>9. FileReplaced(c)'
    BY <1>1, <1>3, <2>2, <2>3, <2>4, <2>5 DEF FileReplaced, Mutates, Unqueued, Waiting, Writing, Written
  <2>10. FileTold(c)' BY <1>1, <1>3, <2>4, <2>5 DEF FileTold, Direct
  <2>11. FileOK(c)' BY <2>7, <2>8, <2>9, <2>10 DEF FileOK
  <2> QED BY <1>1, <1>6, <2>1, <2>4, <2>11, DirKept, FileStep
<1> QED BY <1>4, <1>5, <1>6 DEF ReadBefore

\* The temporary file is written.
LEMMA FilesWriteTemp ==
    ASSUME FilesInv, NEW c \in FileCall, WriteTemp(c)
    PROVE  FilesInv'
<1>1. fcall[c].at = "temp" /\ UNCHANGED <<disk, artifactDir, artifactRow, replaced>>
  BY DEF WriteTemp, FAt
<1>2. FileOK(c) /\ FilesTypeOK BY FilesByCall
<1>3. replaced[c] = {} /\ artifactRow[c] = Missing
  BY <1>1, <1>2 DEF FileOK, FileReplaced, FilePlaced, Writing
<1>4. CASE Answer(c, "thrown") /\ (UNCHANGED fileBudget \/ IoFault) BY <1>1, <1>4, DirKept, FileAnswered
<1>5. ASSUME fcall' = [fcall EXCEPT ![c].temp = TRUE, ![c].at = "latest"], UNCHANGED <<tails, fileBudget>>
      PROVE FilesInv'
  <2> DEFINE f == [[fcall[c] EXCEPT !.temp = TRUE] EXCEPT !.at = "latest"]
  <2>1. fcall' = [fcall EXCEPT ![c] = f] BY <1>5, <1>2 DEF FilesTypeOK
  <2>4. /\ f.at = "latest" /\ f.temp = TRUE /\ f.result = fcall[c].result /\ f.tool = fcall[c].tool
        /\ f.path = fcall[c].path /\ f.expected = fcall[c].expected /\ f.text = fcall[c].text /\ f.change = fcall[c].change
        /\ f.meddled = fcall[c].meddled /\ f.key = fcall[c].key /\ f \in FileCallRecord
    <3>1. f \in FileCallRecord BY FileFields DEF FileCallRecord
    <3> QED BY <3>1, FileFields DEF FileCallRecord
  <2> HIDE DEF f
  <2>5. fcall'[c] = f BY <2>1, <1>2 DEF FilesTypeOK
  <2>6. Mutates(c) BY <1>1, <1>2 DEF FileOK, FilePlaced, Writing
  <2>7. FilePlaced(c)'
    BY <1>1, <1>2, <2>4, <2>5, <2>6 DEF FileOK, FilePlaced, Mutates, Waiting, Writing, Written
  <2>8. FileChained(c)'
    BY <1>1, <1>2, <1>5, <2>4, <2>5, <2>6 DEF FileOK, FileChained, Mutates, Direct, Waiting, Writing, Written
  <2>9. FileReplaced(c)'
    BY <1>1, <1>2, <1>3, <2>4, <2>5 DEF FileOK, FileReplaced, Mutates, Unqueued, Waiting, Writing, Written
  <2>10. FileTold(c)' BY <1>1, <1>3, <2>4, <2>5 DEF FileTold, Direct
  <2>11. FileOK(c)' BY <2>7, <2>8, <2>9, <2>10 DEF FileOK
  <2> QED BY <1>1, <1>5, <2>1, <2>4, <2>11, DirKept, FileStep
<1> QED BY <1>4, <1>5 DEF WriteTemp

\* The file is read again before the rename.
LEMMA FilesReadLatest ==
    ASSUME FilesInv, NEW c \in FileCall, ReadLatest(c)
    PROVE  FilesInv'
<1>1. fcall[c].at = "latest" /\ UNCHANGED <<disk, artifactDir, artifactRow, replaced, fileBudget>>
  BY DEF ReadLatest, FAt
<1>2. FileOK(c) /\ FilesTypeOK BY FilesByCall
<1>3. replaced[c] = {} /\ artifactRow[c] = Missing
  BY <1>1, <1>2 DEF FileOK, FileReplaced, FilePlaced, Writing
<1>4. CASE Answer(c, "thrown") BY <1>1, <1>4, DirKept, FileAnswered
<1>41. CASE Answer(c, "error") BY <1>1, <1>3, <1>41, DirKept, FileAnswered
<1>5. ASSUME Holds(fcall[c].path) = fcall[c].expected,
             fcall' = [fcall EXCEPT ![c].meddled = FALSE, ![c].at = "rename"], UNCHANGED tails
      PROVE FilesInv'
  <2> DEFINE f == [[fcall[c] EXCEPT !.meddled = FALSE] EXCEPT !.at = "rename"]
  <2>1. fcall' = [fcall EXCEPT ![c] = f] BY <1>5, <1>2 DEF FilesTypeOK
  <2>4. /\ f.at = "rename" /\ f.temp = fcall[c].temp /\ f.result = fcall[c].result /\ f.tool = fcall[c].tool
        /\ f.path = fcall[c].path /\ f.expected = fcall[c].expected /\ f.text = fcall[c].text /\ f.change = fcall[c].change
        /\ f.meddled = FALSE /\ f.key = fcall[c].key /\ f \in FileCallRecord
    <3>1. f \in FileCallRecord BY FileFields DEF FileCallRecord
    <3> QED BY <3>1, FileFields DEF FileCallRecord
  <2> HIDE DEF f
  <2>5. fcall'[c] = f BY <2>1, <1>2 DEF FilesTypeOK
  <2>6. Mutates(c) BY <1>1, <1>2 DEF FileOK, FilePlaced, Writing
  <2>7. FilePlaced(c)'
    BY <1>1, <1>2, <2>4, <2>5, <2>6 DEF FileOK, FilePlaced, Mutates, Waiting, Writing, Written
  <2>8. FileChained(c)'
    BY <1>1, <1>2, <1>5, <2>4, <2>5, <2>6 DEF FileOK, FileChained, Mutates, Direct, Waiting, Writing, Written
  <2>9. FileReplaced(c)'
    <3>1. Holds(fcall[c].path)' = Holds(fcall[c].path) BY <1>1, <2>4, <2>5 DEF Holds, RealPath
    <3> QED BY <3>1, <1>1, <1>2, <1>3, <1>5, <2>4, <2>5 DEF FileOK, FileReplaced, Mutates, Unqueued, Waiting, Writing, Written
  <2>10. FileTold(c)' BY <1>1, <1>3, <2>4, <2>5 DEF FileTold, Direct
  <2>11. FileOK(c)' BY <2>7, <2>8, <2>9, <2>10 DEF FileOK
  <2> QED BY <1>1, <1>5, <2>1, <2>4, <2>11, DirKept, FileStep
<1> QED BY <1>4, <1>41, <1>5 DEF ReadLatest, Latest

\* The rename: the call finds what it expects, and no other call is as far.
LEMMA FilesRename ==
    ASSUME FilesInv, NEW c \in FileCall, RenameTemp(c)
    PROVE  FilesInv'
<1> DEFINE p == fcall[c].path
           f == [[fcall[c] EXCEPT !.temp = FALSE] EXCEPT !.at = "refresh"]
<1>1. /\ fcall[c].at = "rename" /\ UNCHANGED <<tails, artifactDir, artifactRow, fileBudget>>
      /\ replaced' = [replaced EXCEPT ![c] = @ \cup {Holds(p)}]
      /\ disk' = [disk EXCEPT ![p] = fcall[c].text]
  BY DEF RenameTemp, FAt
<1>2. FileOK(c) /\ FilesTypeOK /\ LinkFits BY FilesByCall
<1>3. fcall' = [fcall EXCEPT ![c] = f] BY <1>2 DEF RenameTemp, FilesTypeOK
<1>4. /\ f.at = "refresh" /\ f.temp = FALSE /\ f.result = fcall[c].result /\ f.tool = fcall[c].tool
      /\ f.path = fcall[c].path /\ f.expected = fcall[c].expected /\ f.text = fcall[c].text /\ f.change = fcall[c].change
      /\ f.meddled = fcall[c].meddled /\ f.key = fcall[c].key /\ f \in FileCallRecord
  <2>1. f \in FileCallRecord BY FileFields DEF FileCallRecord
  <2> QED BY <2>1, FileFields DEF FileCallRecord
<1> HIDE DEF f
<1>5. /\ fcall'[c] = f /\ fcall' \in [FileCall -> FileCallRecord]
      /\ \A d \in FileCall \ {c} : fcall'[d] = fcall[d]
  BY <1>2, <1>3, <1>4 DEF FilesTypeOK
<1>6. Mutates(c) /\ replaced[c] = {} /\ artifactRow[c] = Missing /\ fcall[c].text \in FileText
  <2>1. Mutates(c) BY <1>1, <1>2 DEF FileOK, FilePlaced, Writing
  <2>2. fcall[c].text # Missing BY <2>1, <1>1, <1>2 DEF FileOK, FilePlaced, Writing
  <2> QED BY <2>1, <2>2, <1>1, <1>2, FileFields DEF FileOK, FileReplaced, FilePlaced, Writing, Revision
<1>7. p \in Path /\ disk'[p] = fcall[c].text /\ disk'[p] # Link /\ \A q \in Path \ {p} : disk'[q] = disk[q]
  <2>1. p \in Path BY FileFields
  <2> QED BY <2>1, <1>1, <1>2, <1>6, FilesAssumption DEF FilesTypeOK
<1>8. Holds(p) \in Revision BY <1>2, <1>7, HoldsTyped
<1>9. replaced'[c] = {Holds(p)} /\ \A d \in FileCall \ {c} : replaced'[d] = replaced[d]
  BY <1>1, <1>2, <1>6 DEF FilesTypeOK
<1>10. FilesTypeOK'
  <2>1. disk' \in [Path -> Revision \cup {Link}] BY <1>1, <1>2, <1>6 DEF FilesTypeOK, Revision
  <2>2. replaced' \in [FileCall -> SUBSET Revision] BY <1>1, <1>2, <1>8 DEF FilesTypeOK
  <2> QED BY <2>1, <2>2, <1>1, <1>2, <1>5 DEF FilesTypeOK
<1>11. LinkFits' BY <1>2, <1>7 DEF LinkFits, Path
<1>12. FileOK(c)'
  <2>1. FilePlaced(c)'
    BY <1>1, <1>2, <1>4, <1>5, <1>6 DEF FileOK, FilePlaced, Mutates, Waiting, Writing, Written
  <2>2. FileChained(c)'
    BY <1>1, <1>2, <1>4, <1>5, <1>6 DEF FileOK, FileChained, Mutates, Direct, Waiting, Writing, Written
  <2>3. Direct(c) /\ ~fcall[c].meddled => Holds(p) = fcall[c].expected
    BY <1>1, <1>2 DEF FileOK, FileReplaced
  <2>4. FileReplaced(c)'
    BY <1>1, <1>2, <1>4, <1>5, <1>6, <1>7, <1>9, <2>3 DEF FileOK, FileReplaced, Mutates, Direct, Unqueued, Waiting, Writing, Written
  <2>5. FileTold(c)'
    BY <1>1, <1>2, <1>4, <1>5, <1>6, <1>9, <2>3 DEF FileOK, FileTold, FilePlaced, Mutates, Direct
  <2> QED BY <2>1, <2>2, <2>4, <2>5 DEF FileOK
<1>13. ASSUME NEW d \in FileCall, d # c PROVE FileOK(d)'
  <2> DEFINE q == fcall[d].path
  <2>0. fcall'[d] = fcall[d] /\ replaced'[d] = replaced[d] /\ FileOK(d) /\ q \in Path
    BY <1>5, <1>9, <1>13, FilesByCall, FileFields
  <2>1. FilePlaced(d)' BY <2>0, <1>1 DEF FileOK, FilePlaced, Mutates
  <2>2. FileChained(d)' BY <2>0, <1>1 DEF FileOK, FileChained, Mutates, Direct
  <2>3. FileTold(d)' BY <2>0, <1>1 DEF FileOK, FileTold, Mutates, Direct
  <2>4. ASSUME Mutates(d), fcall[d].at \in Writing \cup Written, Direct(d) PROVE q # p
    <3>1. fcall[c].at \in Writing \cup Written BY <1>1 DEF Writing
    <3> QED BY <3>1, <2>4, <1>6, <1>13, OneWriter
  <2>5. ASSUME Mutates(d), fcall[d].at \in Writing \cup Written, Direct(d)
        PROVE  disk'[q] = disk[q] /\ Holds(q)' = Holds(q)
    <3>1. q # p BY <2>4, <2>5
    <3>2. disk'[q] = disk[q] BY <3>1, <2>0, <1>7
    <3>3. disk[q] # Link
      <4>1. CASE q = Target BY <4>1, <1>2 DEF LinkFits
      <4>2. CASE q = Alias BY <4>2, <2>5, <1>2, FilesAssumption DEF LinkFits, Direct
      <4> QED BY <4>1, <4>2, <2>0 DEF Path
    <3> QED BY <3>2, <3>3, <2>0 DEF Holds, RealPath
  <2>6. disk[q] \in FileText => disk'[q] \in FileText BY <2>0, <1>6, <1>7
  <2>7. fcall[d].at = "rename" => Mutates(d) BY <2>0 DEF FileOK, FilePlaced, Writing
  <2>8. FileReplaced(d)'
    <3>1. FileReplaced(d) BY <2>0 DEF FileOK
    <3>2. fcall[d].at = "rename" /\ Direct(d) /\ ~fcall[d].meddled => Holds(q)' = fcall[d].expected
      BY <3>1, <2>5, <2>7 DEF FileReplaced, Writing
    <3>3. Mutates(d) /\ fcall[d].at = "refresh" /\ ~fcall[d].meddled =>
             disk'[q] \in FileText /\ (Direct(d) => disk'[q] = fcall[d].text)
      BY <3>1, <2>5, <2>6 DEF FileReplaced, Written
    <3>4. Direct(d)' = Direct(d) /\ Mutates(d)' = Mutates(d) /\ Holds(fcall[d].path)' = Holds(q)'
      BY <2>0 DEF Direct, Mutates, Holds, RealPath
    <3> QED BY <3>1, <3>2, <3>3, <3>4, <2>0 DEF FileReplaced
  <2> QED BY <2>1, <2>2, <2>3, <2>8 DEF FileOK
<1> QED BY <1>10, <1>11, <1>12, <1>13, FilesByCallNext

\* The file is read for the artifact: what was renamed is still there.
LEMMA FilesReadAfter ==
    ASSUME FilesInv, NEW c \in FileCall, ReadAfter(c)
    PROVE  FilesInv'
<1> DEFINE p == fcall[c].path
<1>1. fcall[c].at = "refresh" /\ UNCHANGED <<disk, artifactDir, artifactRow, replaced, fileBudget>>
  BY DEF ReadAfter, FAt
<1>2. FileOK(c) /\ FilesTypeOK /\ LinkFits BY FilesByCall
<1>3. artifactRow[c] = Missing /\ p \in Path BY <1>1, <1>2, FileFields DEF FileOK, FilePlaced
<1>4. Mutates(c) /\ ~fcall[c].meddled => disk[p] \in FileText /\ Holds(p) = disk[p]
  <2>1. Mutates(c) /\ ~fcall[c].meddled => disk[p] \in FileText BY <1>1, <1>2 DEF FileOK, FileReplaced
  <2> QED BY <2>1, FilesAssumption DEF Holds, RealPath
<1>5. CASE Holds(p) = Missing
  <2>1. Answer(c, IF fcall[c].tool = "read" THEN "thrown" ELSE "error") BY <1>5 DEF ReadAfter
  <2>2. CASE fcall[c].tool = "read" BY <2>1, <2>2, <1>1, DirKept, FileAnswered
  <2>3. CASE fcall[c].tool # "read"
    <3>1. fcall[c].meddled BY <2>3, <1>4, <1>5, FilesAssumption, FileFields DEF Mutates
    <3> QED BY <2>1, <2>3, <3>1, <1>1, DirKept, FileAnswered
  <2> QED BY <2>2, <2>3
<1>6. CASE Answer(c, "ok") BY <1>1, <1>6, DirKept, FileAnswered
<1>7. ASSUME fcall' = [fcall EXCEPT ![c].change.after = Holds(p), ![c].at = "record"], UNCHANGED tails
      PROVE  FilesInv'
  <2> DEFINE t == Holds(p)
             g == [fcall[c].change EXCEPT !.after = t]
             f == [[fcall[c] EXCEPT !.change = g] EXCEPT !.at = "record"]
  <2>1. fcall' = [fcall EXCEPT ![c] = f] BY <1>7, <1>2 DEF FilesTypeOK
  <2>2. t \in Revision BY <1>2, <1>3, HoldsTyped
  <2>3. Mutates(c) /\ Direct(c) /\ ~fcall[c].meddled => t = fcall[c].text
    BY <1>1, <1>2, <1>4 DEF FileOK, FileReplaced
  <2> HIDE DEF t
  <2>4. g.before = fcall[c].change.before /\ g.after = t /\ g \in Change BY <2>2, FileFields DEF Change
  <2> HIDE DEF g
  <2>5. /\ f.at = "record" /\ f.temp = fcall[c].temp /\ f.result = fcall[c].result /\ f.tool = fcall[c].tool
        /\ f.path = fcall[c].path /\ f.expected = fcall[c].expected /\ f.text = fcall[c].text /\ f.change = g
        /\ f.meddled = fcall[c].meddled /\ f.key = fcall[c].key /\ f \in FileCallRecord
    <3>1. f \in FileCallRecord BY <2>4, FileFields DEF FileCallRecord
    <3> QED BY <3>1, FileFields DEF FileCallRecord
  <2> HIDE DEF f
  <2>6. fcall'[c] = f BY <2>1, <1>2 DEF FilesTypeOK
  <2>7. FilePlaced(c)'
    BY <1>1, <1>2, <2>5, <2>6 DEF FileOK, FilePlaced, Mutates, Waiting, Writing, Written
  <2>8. FileChained(c)'
    BY <1>1, <1>2, <1>7, <2>5, <2>6 DEF FileOK, FileChained, Mutates, Direct, Waiting, Writing, Written
  <2>9. FileReplaced(c)'
    BY <1>1, <1>2, <2>3, <2>4, <2>5, <2>6 DEF FileOK, FileReplaced, Mutates, Direct, Unqueued, Waiting, Writing, Written
  <2>10. FileTold(c)' BY <1>1, <1>2, <1>3, <2>5, <2>6 DEF FileOK, FileTold, Direct
  <2>11. FileOK(c)' BY <2>7, <2>8, <2>9, <2>10 DEF FileOK
  <2> QED BY <1>1, <1>7, <2>1, <2>5, <2>11, DirKept, FileStep
<1> QED BY <1>5, <1>6, <1>7 DEF ReadAfter

-----------------------------------------------------------------------------
\* A failure of record removes the directory.
LEMMA FilesRecordFails ==
    ASSUME FilesInv, NEW c \in FileCall, RecordFails(c)
    PROVE  FilesInv'
<1>1. /\ fcall[c].at \in {"record", "metadata"} /\ IoFault /\ Answer(c, "thrown")
      /\ artifactDir' = [artifactDir EXCEPT ![c] = "none"]
      /\ UNCHANGED <<disk, artifactRow, replaced>>
  BY DEF RecordFails, FAt
<1> QED BY <1>1, FileAnswered

\* The files of the artifact are written.
LEMMA FilesRecordFiles ==
    ASSUME FilesInv, NEW c \in FileCall, RecordFiles(c)
    PROVE  FilesInv'
<1> DEFINE f == [fcall[c] EXCEPT !.at = "metadata"]
<1>1. /\ fcall[c].at = "record" /\ fcall' = [fcall EXCEPT ![c] = f]
      /\ artifactDir' = [artifactDir EXCEPT ![c] = "files"]
      /\ UNCHANGED <<disk, tails, artifactRow, replaced, fileBudget>>
  BY FilesByCall DEF RecordFiles, FAt, FGo, FilesTypeOK
<1>2. FileOK(c) /\ FilesTypeOK BY FilesByCall
<1>3. /\ f.at = "metadata" /\ f.temp = fcall[c].temp /\ f.result = fcall[c].result /\ f.tool = fcall[c].tool
      /\ f.path = fcall[c].path /\ f.expected = fcall[c].expected /\ f.text = fcall[c].text /\ f.change = fcall[c].change
      /\ f.meddled = fcall[c].meddled /\ f.key = fcall[c].key /\ f \in FileCallRecord
  <2>1. f \in FileCallRecord BY FileFields DEF FileCallRecord
  <2> QED BY <2>1, FileFields DEF FileCallRecord
<1> HIDE DEF f
<1>4. fcall'[c] = f BY <1>1, <1>2 DEF FilesTypeOK
<1>5. artifactRow[c] = Missing BY <1>1, <1>2 DEF FileOK, FilePlaced
<1>6. FilePlaced(c)'
  BY <1>1, <1>2, <1>3, <1>4 DEF FileOK, FilePlaced, Mutates, Waiting, Writing, Written
<1>7. FileChained(c)'
  BY <1>1, <1>2, <1>3, <1>4 DEF FileOK, FileChained, Mutates, Direct, Waiting, Writing, Written
<1>8. FileReplaced(c)'
  BY <1>1, <1>2, <1>3, <1>4 DEF FileOK, FileReplaced, Mutates, Direct, Unqueued, Waiting, Writing, Written
<1>9. FileTold(c)' BY <1>1, <1>2, <1>3, <1>4, <1>5 DEF FileOK, FileTold, Direct
<1>10. FileOK(c)' BY <1>6, <1>7, <1>8, <1>9 DEF FileOK
<1> QED BY <1>1, <1>3, <1>10, FileStep

\* The row is written, and the call is answered with it.
LEMMA FilesRecordRow ==
    ASSUME FilesInv, NEW c \in FileCall, RecordRow(c)
    PROVE  FilesInv'
<1> DEFINE f == [[fcall[c] EXCEPT !.at = "done", !.temp = FALSE] EXCEPT !.result = "ok"]
<1>1. /\ fcall[c].at = "metadata" /\ fcall' = [fcall EXCEPT ![c] = f] /\ Popped(c)
      /\ artifactDir' = [artifactDir EXCEPT ![c] = "whole"]
      /\ artifactRow' = [artifactRow EXCEPT ![c] = fcall[c].change]
      /\ UNCHANGED <<disk, replaced, fileBudget>>
  BY DEF RecordRow, FAt, Answer, LeavesTemp, Popped
<1>2. FileOK(c) /\ FilesTypeOK /\ LinkFits BY FilesByCall
<1>3. /\ f.at = "done" /\ f.temp = FALSE /\ f.result = "ok" /\ f.tool = fcall[c].tool
      /\ f.path = fcall[c].path /\ f.expected = fcall[c].expected /\ f.text = fcall[c].text /\ f.change = fcall[c].change
      /\ f.meddled = fcall[c].meddled /\ f.key = fcall[c].key /\ f \in FileCallRecord
  <2>1. f \in FileCallRecord BY FileFields DEF FileCallRecord
  <2> QED BY <2>1, FileFields DEF FileCallRecord
<1> HIDE DEF f
<1>4. /\ fcall'[c] = f /\ fcall' \in [FileCall -> FileCallRecord]
      /\ \A d \in FileCall \ {c} : fcall'[d] = fcall[d]
  BY <1>1, <1>2, <1>3 DEF FilesTypeOK
<1>5. /\ artifactDir'[c] = "whole" /\ artifactRow'[c] = fcall[c].change
      /\ \A d \in FileCall \ {c} : artifactDir'[d] = artifactDir[d] /\ artifactRow'[d] = artifactRow[d]
      /\ artifactDir' \in [FileCall -> {"none", "files", "whole"}]
      /\ artifactRow' \in [FileCall -> Change \cup {Missing}]
  BY <1>1, <1>2, FileFields DEF FilesTypeOK
<1>6. FilesTypeOK' BY <1>1, <1>2, <1>4, <1>5, PoppedTyped DEF FilesTypeOK
<1>7. LinkFits' BY <1>1, <1>2 DEF LinkFits
<1>8. FileOK(c)'
  <2>1. FilePlaced(c)' BY <1>1, <1>2, <1>3, <1>4 DEF FileOK, FilePlaced, Mutates, Waiting, Writing, Written
  <2>2. FileChained(c)' BY <1>3, <1>4 DEF FileChained, Waiting, Writing, Written
  <2>3. FileReplaced(c)'
    BY <1>1, <1>2, <1>3, <1>4 DEF FileOK, FileReplaced, Mutates, Unqueued, Waiting, Writing, Written
  <2>4. Mutates(c) /\ Direct(c) /\ ~fcall[c].meddled =>
          replaced[c] = {fcall[c].change.before} /\ fcall[c].change.after = fcall[c].text
    BY <1>1, <1>2 DEF FileOK, FileReplaced, Written
  <2>5. FileTold(c)' BY <1>1, <1>2, <1>3, <1>4, <1>5, <2>4 DEF FileOK, FileTold, Mutates, Direct
  <2> QED BY <2>1, <2>2, <2>3, <2>5 DEF FileOK
<1>9. ASSUME NEW d \in FileCall, d # c PROVE FileOK(d)'
  BY <1>1, <1>4, <1>5, <1>9, FileFrame
<1> QED BY <1>6, <1>7, <1>8, <1>9, FilesByCallNext

-----------------------------------------------------------------------------
\* The user edits a file: every call that is not done is meddled with.
LEMMA FilesUserEdits ==
    ASSUME FilesInv, NEW p \in Path, NEW t \in Revision, UserEdits(p, t)
    PROVE  FilesInv'
<1>1. /\ fileBudget.edits < MaxUserEdits /\ fileBudget' = [fileBudget EXCEPT !.edits = @ + 1]
      /\ disk' = [disk EXCEPT ![RealPath(p)] = t]
      /\ fcall' = [c \in FileCall |->
                      IF fcall[c].at = "done" THEN fcall[c] ELSE [fcall[c] EXCEPT !.meddled = TRUE]]
      /\ UNCHANGED <<tails, artifactDir, artifactRow, replaced>>
  BY DEF UserEdits
<1>2. FilesTypeOK /\ LinkFits BY FilesByCall
<1>3. ASSUME NEW c \in FileCall
      PROVE  /\ fcall'[c] \in FileCallRecord /\ fcall'[c].at = fcall[c].at /\ fcall'[c].tool = fcall[c].tool
             /\ fcall'[c].path = fcall[c].path /\ fcall'[c].expected = fcall[c].expected
             /\ fcall'[c].text = fcall[c].text /\ fcall'[c].key = fcall[c].key /\ fcall'[c].temp = fcall[c].temp
             /\ fcall'[c].change = fcall[c].change /\ fcall'[c].result = fcall[c].result
             /\ IF fcall[c].at = "done" THEN fcall'[c].meddled = fcall[c].meddled ELSE fcall'[c].meddled = TRUE
  <2> DEFINE f == [fcall[c] EXCEPT !.meddled = TRUE]
  <2>1. fcall'[c] = IF fcall[c].at = "done" THEN fcall[c] ELSE f BY <1>1
  <2>2. f \in FileCallRecord BY FileFields DEF FileCallRecord
  <2>3. /\ f.at = fcall[c].at /\ f.tool = fcall[c].tool /\ f.path = fcall[c].path /\ f.expected = fcall[c].expected
        /\ f.text = fcall[c].text /\ f.key = fcall[c].key /\ f.temp = fcall[c].temp /\ f.change = fcall[c].change
        /\ f.result = fcall[c].result /\ f.meddled = TRUE
    BY FileFields DEF FileCallRecord
  <2> HIDE DEF f
  <2>4. fcall[c] \in FileCallRecord BY FileFields
  <2> QED BY <2>1, <2>2, <2>3, <2>4
<1>4. FilesTypeOK'
  <2>1. disk' \in [Path -> Revision \cup {Link}] BY <1>1, <1>2 DEF FilesTypeOK
  <2>2. fcall' \in [FileCall -> FileCallRecord] BY <1>1, <1>3
  <2>3. BudgetTyped'
    <3>1. fileBudget.edits \in 0 .. MaxUserEdits /\ fileBudget.faults \in 0 .. MaxIoFaults /\ fileBudget.crashes \in 0 .. MaxFileCrashes
      BY <1>2 DEF FilesTypeOK
    <3>2. fileBudget.edits + 1 \in 0 .. MaxUserEdits BY <3>1, <1>1, FilesAssumption
    <3>3. fileBudget' = [edits |-> fileBudget.edits + 1, faults |-> fileBudget.faults, crashes |-> fileBudget.crashes]
      BY <1>1, <1>2 DEF FilesTypeOK
    <3> QED BY <3>1, <3>2, <3>3 DEF BudgetTyped
  <2> QED BY <2>1, <2>2, <2>3, <1>1, <1>2 DEF FilesTypeOK, BudgetTyped
<1>5. LinkFits'
  <2>1. Target \in Path /\ Alias \in Path BY DEF Path
  <2>2. t # Link BY FilesAssumption DEF Revision
  <2>3. \A q \in Path : disk'[q] = disk[q] \/ disk'[q] = t BY <1>1, <1>2 DEF FilesTypeOK
  <2> QED BY <2>1, <2>2, <2>3, <1>2 DEF LinkFits
<1>6. ASSUME NEW c \in FileCall PROVE FileOK(c)'
  <2>0. FileOK(c) BY FilesByCall
  <2>1. FilePlaced(c)' BY <2>0, <1>1, <1>3 DEF FileOK, FilePlaced, Mutates
  <2>2. FileChained(c)' BY <2>0, <1>1, <1>3 DEF FileOK, FileChained, Mutates, Direct
  <2>3. FileReplaced(c)' BY <2>0, <1>1, <1>3 DEF FileOK, FileReplaced, Mutates, Direct, Written
  <2>4. FileTold(c)' BY <2>0, <1>1, <1>3 DEF FileOK, FileTold, FilePlaced, Mutates, Direct
  <2> QED BY <2>1, <2>2, <2>3, <2>4 DEF FileOK
<1> QED BY <1>4, <1>5, <1>6, FilesByCallNext

\* The Host dies: the calls are over and nothing is queued.
LEMMA FilesDies ==
    ASSUME FilesInv, FilesHostDies
    PROVE  FilesInv'
<1>1. /\ fileBudget.crashes < MaxFileCrashes /\ fileBudget' = [fileBudget EXCEPT !.crashes = @ + 1]
      /\ fcall' = [c \in FileCall |-> IF fcall[c].at = "new" THEN fcall[c] ELSE [fcall[c] EXCEPT !.at = "done"]]
      /\ tails' = [p \in Path |-> <<>>]
      /\ UNCHANGED <<disk, artifactDir, artifactRow, replaced>>
  BY DEF FilesHostDies, FAt
<1>2. FilesTypeOK /\ LinkFits BY FilesByCall
<1>3. ASSUME NEW c \in FileCall
      PROVE  /\ fcall'[c] \in FileCallRecord /\ fcall'[c].tool = fcall[c].tool
             /\ fcall'[c].path = fcall[c].path /\ fcall'[c].expected = fcall[c].expected
             /\ fcall'[c].text = fcall[c].text /\ fcall'[c].temp = fcall[c].temp
             /\ fcall'[c].meddled = fcall[c].meddled /\ fcall'[c].result = fcall[c].result
             /\ IF fcall[c].at = "new" THEN fcall'[c].at = "new" ELSE fcall'[c].at = "done"
  <2> DEFINE f == [fcall[c] EXCEPT !.at = "done"]
  <2>1. fcall'[c] = IF fcall[c].at = "new" THEN fcall[c] ELSE f BY <1>1
  <2>2. f \in FileCallRecord BY FileFields DEF FileCallRecord
  <2>3. /\ f.at = "done" /\ f.tool = fcall[c].tool /\ f.path = fcall[c].path /\ f.expected = fcall[c].expected
        /\ f.text = fcall[c].text /\ f.temp = fcall[c].temp
        /\ f.result = fcall[c].result /\ f.meddled = fcall[c].meddled
    BY FileFields DEF FileCallRecord
  <2> HIDE DEF f
  <2>4. fcall[c] \in FileCallRecord BY FileFields
  <2> QED BY <2>1, <2>2, <2>3, <2>4
<1>4. FilesTypeOK'
  <2>1. tails' \in [Path -> Seq(FileCall)] BY <1>1
  <2>2. fcall' \in [FileCall -> FileCallRecord] BY <1>1, <1>3
  <2>3. BudgetTyped'
    <3>1. fileBudget.edits \in 0 .. MaxUserEdits /\ fileBudget.faults \in 0 .. MaxIoFaults /\ fileBudget.crashes \in 0 .. MaxFileCrashes
      BY <1>2 DEF FilesTypeOK
    <3>2. fileBudget.crashes + 1 \in 0 .. MaxFileCrashes BY <3>1, <1>1, FilesAssumption
    <3>3. fileBudget' = [edits |-> fileBudget.edits, faults |-> fileBudget.faults, crashes |-> fileBudget.crashes + 1]
      BY <1>1, <1>2 DEF FilesTypeOK
    <3> QED BY <3>1, <3>2, <3>3 DEF BudgetTyped
  <2> QED BY <2>1, <2>2, <2>3, <1>1, <1>2 DEF FilesTypeOK, BudgetTyped
<1>5. LinkFits' BY <1>1, <1>2 DEF LinkFits
<1>6. ASSUME NEW c \in FileCall PROVE FileOK(c)'
  <2>0. FileOK(c) BY FilesByCall
  <2>1. FilePlaced(c)' BY <2>0, <1>1, <1>3 DEF FileOK, FilePlaced, Mutates, Waiting, Writing, Written
  <2>2. FileChained(c)' BY <1>3 DEF FileChained, Waiting, Writing, Written
  <2>3. FileReplaced(c)' BY <2>0, <1>1, <1>3 DEF FileOK, FileReplaced, Mutates, Unqueued, Waiting, Writing, Written
  <2>4. FileTold(c)' BY <2>0, <1>1, <1>3 DEF FileOK, FileTold, Mutates, Direct
  <2> QED BY <2>1, <2>2, <2>3, <2>4 DEF FileOK
<1> QED BY <1>4, <1>5, <1>6, FilesByCallNext

\* Before the first call.
LEMMA FilesInitially ==
    ASSUME FilesInit
    PROVE  FilesInv
<1>1. PICK t \in Revision : disk = [p \in Path |-> IF p = Target THEN t ELSE IF AliasIsLink THEN Link ELSE Missing]
  BY DEF FilesInit
<1>2. NewFileCall \in FileCallRecord BY DEF NewFileCall, FileCallRecord, NoChange, Change, Revision, Path
<1>3. FilesTypeOK
  <2>1. disk \in [Path -> Revision \cup {Link}] BY <1>1 DEF Revision
  <2>2. fcall \in [FileCall -> FileCallRecord] BY <1>2 DEF FilesInit
  <2>3. fileBudget \in [edits : 0 .. MaxUserEdits, faults : 0 .. MaxIoFaults, crashes : 0 .. MaxFileCrashes]
    BY FilesAssumption DEF FilesInit
  <2> QED BY <2>1, <2>2, <2>3 DEF FilesInit, FilesTypeOK
<1>4. LinkFits
  <2>1. t # Link /\ Missing # Link BY FilesAssumption DEF Revision
  <2>2. disk[Target] = t BY <1>1 DEF Path
  <2>3. disk[Alias] = IF AliasIsLink THEN Link ELSE Missing BY <1>1, FilesAssumption DEF Path
  <2> QED BY <2>1, <2>2, <2>3 DEF LinkFits
<1>5. ASSUME NEW c \in FileCall PROVE FileOK(c)
  <2>1. fcall[c].at = "new" /\ fcall[c].tool = "read" /\ fcall[c].result = "none" /\ fcall[c].temp = FALSE
    BY DEF FilesInit, NewFileCall
  <2>2. replaced[c] = {} /\ artifactRow[c] = Missing BY DEF FilesInit
  <2>3. FilePlaced(c) BY <2>1, <2>2 DEF FilePlaced, Mutates, Waiting, Writing, Written
  <2>4. FileChained(c) BY <2>1 DEF FileChained, Waiting, Writing, Written
  <2>5. FileReplaced(c) BY <2>1, <2>2 DEF FileReplaced, Mutates, Waiting, Writing, Written
  <2>6. FileTold(c) BY <2>1, <2>2 DEF FileTold
  <2> QED BY <2>3, <2>4, <2>5, <2>6 DEF FileOK
<1> QED BY <1>3, <1>4, <1>5, FilesByCall

\* FilesInv is kept by every step of every call, of the user and of a crash.
THEOREM FilesInductive == FilesSpec => []FilesInv
<1>1. FilesInit => FilesInv BY FilesInitially
<1>2. FilesInv /\ [FilesNext]_fileVars => FilesInv'
  <2> SUFFICES ASSUME FilesInv, [FilesNext]_fileVars PROVE FilesInv'
    OBVIOUS
  <2>1. CASE UNCHANGED fileVars
    <3>1. UNCHANGED <<disk, tails, fcall, artifactDir, artifactRow, replaced, fileBudget>> BY <2>1 DEF fileVars
    <3>2. FilesTypeOK' BY <3>1, FilesByCall DEF FilesTypeOK
    <3>3. LinkFits' BY <3>1, FilesByCall DEF LinkFits
    <3>4. ASSUME NEW c \in FileCall PROVE FileOK(c)'
      <4>1. FileOK(c) BY FilesByCall
      <4>2. FilePlaced(c)' BY <3>1, <4>1 DEF FileOK, FilePlaced, Mutates
      <4>3. FileChained(c)' BY <3>1, <4>1 DEF FileOK, FileChained, Mutates, Direct
      <4>4. FileReplaced(c)' BY <3>1, <4>1 DEF FileOK, FileReplaced, Mutates, Direct, Holds, RealPath
      <4>5. FileTold(c)' BY <3>1, <4>1 DEF FileOK, FileTold, Mutates, Direct
      <4> QED BY <4>2, <4>3, <4>4, <4>5 DEF FileOK
    <3> QED BY <3>2, <3>3, <3>4, FilesByCallNext
  <2>2. CASE FilesNext
    <3>1. ASSUME NEW c \in FileCall, NEW kind \in {"read", "write", "patch"}, NEW p \in Path, NEW e \in Revision,
                 NEW t \in Revision, CallFileTool(c, kind, p, e, t) PROVE FilesInv'
      BY <3>1, FilesCallTool
    <3>2. ASSUME NEW c \in FileCall,
                 ResolveFile(c) \/ EnqueueMutation(c) \/ ComputePatch(c) \/ ReadBefore(c) \/ WriteTemp(c)
                 \/ ReadLatest(c) \/ RenameTemp(c) \/ ReadAfter(c) \/ RecordFails(c) \/ RecordFiles(c) \/ RecordRow(c)
          PROVE  FilesInv'
      BY <3>2, FilesResolve, FilesEnqueue, FilesPatch, FilesReadBefore, FilesWriteTemp, FilesReadLatest, FilesRename,
         FilesReadAfter, FilesRecordFails, FilesRecordFiles, FilesRecordRow
    <3>3. ASSUME NEW p \in Path, NEW t \in Revision, UserEdits(p, t) PROVE FilesInv' BY <3>3, FilesUserEdits
    <3>4. CASE FilesHostDies BY <3>4, FilesDies
    <3> QED BY <2>2, <3>1, <3>2, <3>3, <3>4 DEF FilesNext
  <2> QED BY <2>1, <2>2
<1> QED BY <1>1, <1>2, PTL DEF FilesSpec

\* No update of a file is lost between calls of the file tools, whatever the
\* number of calls, paths, edits, faults and crashes: a mutation replaces the
\* text it expected, its artifact tells that change and is whole, and an error
\* leaves the file as it was.
THEOREM FilesCorrect == FilesSpec => []FilesAgree
<1>1. FilesInv => FilesAgree BY DEF FilesInv
<1> QED BY <1>1, FilesInductive, PTL
-----------------------------------------------------------------------------
(* Retention: the rows, their tombstones and the calls of prune.            *)

DueCursor == (0 .. Never) \X PRow

\* A batch lists rows.
RetInv == PrunedAgrees /\ prune.list \in Seq(DueCursor)

\* The constants that the proofs need.
LEMMA RetConstants ==
    /\ MaxNow \in Nat /\ RetentionTime \in Nat /\ Never \in Nat /\ Never >= MaxNow + RetentionTime /\ MaxNow <= Never
    /\ BatchSize \in Nat \ {0} /\ MaxPruneFaults \in Nat /\ MaxRecreated \in Nat
    /\ PRow \subseteq Nat \ {0} /\ IsFiniteSet(PRow) /\ 0 \notin PRow
    /\ PTask \subseteq PRow /\ PFlow \subseteq PRow /\ PDelivery \subseteq PRow
BY RetentionAssumption DEF Never, PRow

\* The due rows after a cursor, and the place of one among them.
Due(now, after) ==
    {c \in {<<prow[e].cleanup, e>> : e \in {d \in PRow : prow[d].st # "gone"}} : c[1] <= now /\ Before(after, c)}
RankIn(S, c) == Cardinality({d \in S : Before(d, c)}) + 1

\* The cursors are in order, by time and then by row.
LEMMA BeforeIsOrder ==
    ASSUME NEW a \in DueCursor, NEW b \in DueCursor
    PROVE  /\ ~Before(a, a)
           /\ a # b => Before(a, b) \/ Before(b, a)
           /\ \A c \in DueCursor : Before(a, b) /\ Before(b, c) => Before(a, c)
<1>1. \A c \in DueCursor : c[1] \in Nat /\ c[2] \in Nat /\ c = <<c[1], c[2]>>
  <2>1. \A S, T : \A c \in S \X T : c[1] \in S /\ c[2] \in T /\ c = <<c[1], c[2]>> OBVIOUS
  <2>2. \A c \in DueCursor : c[1] \in 0 .. Never /\ c[2] \in PRow /\ c = <<c[1], c[2]>> BY <2>1 DEF DueCursor
  <2> QED BY <2>2, RetConstants
<1>2. ~Before(a, a) BY <1>1 DEF Before
<1>3. a # b => Before(a, b) \/ Before(b, a) BY <1>1 DEF Before
<1>4. \A c \in DueCursor : Before(a, b) /\ Before(b, c) => Before(a, c) BY <1>1 DEF Before
<1> QED BY <1>2, <1>3, <1>4

\* How many of a finite set come before a cursor: less than there are, and
\* fewer before an earlier one.
LEMMA RankGrows ==
    ASSUME NEW S \in SUBSET DueCursor, IsFiniteSet(S), NEW c \in S
    PROVE  /\ RankIn(S, c) \in 1 .. Cardinality(S)
           /\ \A b \in S : Before(b, c) => RankIn(S, b) < RankIn(S, c)
<1> DEFINE B(x) == {d \in S : Before(d, x)}
           n == Cardinality(S)
<1>1. n \in Nat BY FS_CardinalityType
<1>2. ASSUME NEW x \in S PROVE IsFiniteSet(B(x)) /\ Cardinality(B(x)) \in Nat
  <2>1. B(x) \in SUBSET S OBVIOUS
  <2>2. IsFiniteSet(B(x)) BY <2>1, FS_Subset
  <2> QED BY <2>2, FS_CardinalityType
<1>3. Cardinality(B(c)) < n
  <2> DEFINE T == S \ {c}
  <2>1. IsFiniteSet(T) /\ Cardinality(T) = n - 1 BY FS_RemoveElement
  <2>2. B(c) \in SUBSET T BY BeforeIsOrder
  <2>3. Cardinality(B(c)) <= Cardinality(T) BY <2>1, <2>2, FS_Subset
  <2> QED BY <2>1, <2>3, <1>1, <1>2
<1>4. ASSUME NEW a \in S, Before(a, c) PROVE Cardinality(B(a)) < Cardinality(B(c))
  <2> DEFINE T == B(c) \ {a}
  <2>1. a \in B(c) BY <1>4
  <2>2. IsFiniteSet(T) /\ Cardinality(T) = Cardinality(B(c)) - 1 BY <2>1, <1>2, FS_RemoveElement
  <2>3. B(a) \in SUBSET T
    <3>1. \A d \in S : Before(d, a) => Before(d, c) BY <1>4, BeforeIsOrder
    <3>2. ~Before(a, a) BY BeforeIsOrder
    <3> QED BY <3>1, <3>2
  <2>4. Cardinality(B(a)) <= Cardinality(T) BY <2>2, <2>3, FS_Subset
  <2> QED BY <2>2, <2>4, <1>2
<1>5. \A x \in S : RankIn(S, x) = Cardinality(B(x)) + 1 BY DEF RankIn
<1> HIDE DEF B
<1> QED BY <1>1, <1>2, <1>3, <1>4, <1>5

\* No two cursors have one place.
LEMMA RankIsInjective ==
    ASSUME NEW S \in SUBSET DueCursor, IsFiniteSet(S), NEW a \in S, NEW b \in S, RankIn(S, a) = RankIn(S, b)
    PROVE  a = b
<1>1. SUFFICES ASSUME a # b PROVE FALSE OBVIOUS
<1>2. Before(a, b) \/ Before(b, a) BY <1>1, BeforeIsOrder
<1>3. RankIn(S, a) \in Int /\ RankIn(S, b) \in Int BY RankGrows
<1>4. RankIn(S, a) < RankIn(S, b) \/ RankIn(S, b) < RankIn(S, a) BY <1>2, RankGrows
<1> QED BY <1>3, <1>4

\* Of a finite set of cursors every place up to its size is taken.
LEMMA RankIsOnto ==
    ASSUME NEW S \in SUBSET DueCursor, IsFiniteSet(S), NEW i \in 1 .. Cardinality(S)
    PROVE  \E c \in S : RankIn(S, c) = i
<1> DEFINE n == Cardinality(S)
           f == [c \in S |-> RankIn(S, c)]
<1>1. n \in Nat BY FS_CardinalityType
<1>2. f \in [S -> 1 .. n] BY RankGrows
<1>3. \A a, b \in S : f[a] = f[b] => a = b BY RankIsInjective
<1>4. IsFiniteSet(1 .. n) /\ Cardinality(1 .. n) = n BY <1>1, FS_Interval
<1>5. f \in Injection(S, 1 .. n)
  <2> HIDE DEF f
  <2> QED BY <1>2, <1>3 DEF Injection, IsInjective
<1>6. f \in Surjection(S, 1 .. n)
  <2> HIDE DEF f
  <2> QED BY <1>5, <1>4, FS_Injection
<1>7. \E c \in S : f[c] = i
  <2> HIDE DEF f
  <2> QED BY <1>6 DEF Surjection
<1> QED BY <1>7

\* A batch is a sequence of rows with the time they were due.
LEMMA CandidatesTyped ==
    ASSUME RetTypeOK, NEW now, NEW after
    PROVE  Candidates(now, after) \in Seq(DueCursor)
<1> DEFINE S == Due(now, after)
           batch == {c \in S : RankIn(S, c) <= BatchSize}
           n == Cardinality(batch)
<1>1. S \in SUBSET DueCursor BY DEF Due, DueCursor, RetTypeOK, RetentionRow
<1>2. IsFiniteSet(S)
  <2> DEFINE R == {d \in PRow : prow[d].st # "gone"}
             T == {<<prow[e].cleanup, e>> : e \in R}
  <2>1. IsFiniteSet(R) BY RetConstants, FS_Subset
  <2>2. IsFiniteSet(T)
    <3> DEFINE g == [e \in R |-> <<prow[e].cleanup, e>>]
    <3>1. g \in Surjection(R, T) BY DEF Surjection
    <3> HIDE DEF g, T, R
    <3> QED BY <2>1, <3>1, FS_Surjection
  <2>3. S \in SUBSET T BY DEF Due
  <2> HIDE DEF S, T
  <2> QED BY <2>2, <2>3, FS_Subset
<1>3. Candidates(now, after) = [i \in 1 .. n |-> CHOOSE c \in batch : RankIn(S, c) = i]
  BY DEF Candidates, Due, RankIn
<1> HIDE DEF S
<1>4. IsFiniteSet(batch) /\ n \in Nat /\ n <= Cardinality(S) /\ Cardinality(S) \in Nat
  <2>1. batch \in SUBSET S OBVIOUS
  <2>2. IsFiniteSet(batch) /\ n <= Cardinality(S) BY <2>1, <1>2, FS_Subset
  <2> QED BY <2>2, <1>2, FS_CardinalityType
<1>5. n <= BatchSize
  <2> DEFINE g == [c \in batch |-> RankIn(S, c)]
  <2>1. \A c \in S : RankIn(S, c) \in Nat \ {0}
    <3> TAKE c \in S
    <3>1. {d \in S : Before(d, c)} \in SUBSET S OBVIOUS
    <3>2. IsFiniteSet({d \in S : Before(d, c)}) BY <3>1, <1>2, FS_Subset
    <3>3. Cardinality({d \in S : Before(d, c)}) \in Nat BY <3>2, FS_CardinalityType
    <3> QED BY <3>3 DEF RankIn
  <2>2. g \in [batch -> 1 .. BatchSize] BY <2>1, RetConstants
  <2>3. \A a, b \in S : RankIn(S, a) = RankIn(S, b) => a = b
    BY <1>1, <1>2, RankIsInjective
  <2>4. \A a, b \in batch : g[a] = g[b] => a = b BY <2>3
  <2>5. g \in Injection(batch, 1 .. BatchSize)
    <3> HIDE DEF g, batch
    <3> QED BY <2>2, <2>4 DEF Injection, IsInjective
  <2>6. IsFiniteSet(1 .. BatchSize) /\ Cardinality(1 .. BatchSize) = BatchSize BY RetConstants, FS_Interval
  <2> HIDE DEF g, batch
  <2>7. Cardinality(batch) <= Cardinality(1 .. BatchSize) BY <2>5, <2>6, FS_Injection
  <2> QED BY <2>6, <2>7
<1>6. ASSUME NEW i \in 1 .. n PROVE (CHOOSE c \in batch : RankIn(S, c) = i) \in DueCursor
  <2>1. i \in 1 .. Cardinality(S) /\ i <= BatchSize BY <1>4, <1>5, RetConstants
  <2>2. \E c \in S : RankIn(S, c) = i BY <2>1, <1>1, <1>2, RankIsOnto
  <2>3. \E c \in batch : RankIn(S, c) = i BY <2>1, <2>2
  <2>4. (CHOOSE c \in batch : RankIn(S, c) = i) \in batch BY <2>3
  <2> QED BY <2>4, <1>1
<1> HIDE DEF batch
<1> QED BY <1>3, <1>4, <1>6

PruneRecord ==
    [pc : {"idle", "schedule", "list", "rows", "release", "advance"}, sweeps : BOOLEAN,
     after : Cursor, at : 0 .. MaxNow, rev : 0 .. 1, list : Seq(Cursor), last : Cursor, full : BOOLEAN]

\* A step that leaves the rows and what refers to them alone.
LEMMA RetFrame ==
    ASSUME RetInv, UNCHANGED <<prow, plink, notice, tombs, recreated>>,
           pnow' \in 0 .. MaxNow, lease' \in {"none", "mine", "lapsed", "other"},
           sweep' \in [cursor : Cursor, rev : 0 .. 1], prune' \in PruneRecord, prune'.list \in Seq(DueCursor),
           pruneFaults' \in 0 .. MaxPruneFaults
    PROVE  RetInv'
<1>1. RetTypeOK' BY DEF RetInv, PrunedAgrees, RetTypeOK, PruneRecord
<1>2. GoneIsTombstoned' BY DEF RetInv, PrunedAgrees, GoneIsTombstoned
<1>3. NothingDangles' BY DEF RetInv, PrunedAgrees, NothingDangles
<1> QED BY <1>1, <1>2, <1>3 DEF RetInv, PrunedAgrees

\* The types, one by one.
LEMMA RetTypes ==
    ASSUME RetInv
    PROVE  /\ pnow \in 0 .. MaxNow /\ lease \in {"none", "mine", "lapsed", "other"}
           /\ sweep \in [cursor : Cursor, rev : 0 .. 1] /\ sweep.cursor \in Cursor /\ sweep.rev \in 0 .. 1
           /\ prune \in PruneRecord
           /\ prune.pc \in {"idle", "schedule", "list", "rows", "release", "advance"}
           /\ prune.sweeps \in BOOLEAN /\ prune.after \in Cursor
           /\ prune.at \in 0 .. MaxNow /\ prune.rev \in 0 .. 1 /\ prune.list \in Seq(DueCursor)
           /\ prune.list \in Seq(Cursor) /\ prune.last \in Cursor /\ prune.full \in BOOLEAN
           /\ pruneFaults \in 0 .. MaxPruneFaults /\ recreated \in 0 .. MaxRecreated
           /\ prow \in [PRow -> RetentionRow]
           /\ plink \subseteq PFlow \X PTask /\ notice \subseteq PTask /\ tombs \subseteq PRow
<1>1. prune \in PruneRecord BY DEF RetInv, PrunedAgrees, RetTypeOK, PruneRecord
<1> QED BY <1>1 DEF RetInv, PrunedAgrees, RetTypeOK, PruneRecord

\* A call of prune that is not under way.
LEMMA IdleTyped ==
    PruneIdle \in PruneRecord /\ PruneIdle.list = <<>> /\ Origin \in Cursor /\ <<>> \in Seq(DueCursor)
    /\ \A s \in Seq(DueCursor) : s \in Seq(Cursor)
<1>1. Origin \in Cursor BY RetConstants DEF Origin, Cursor
<1>2. \A c \in DueCursor : c \in Cursor BY DEF DueCursor, Cursor
<1>3. \A s \in Seq(DueCursor) : s \in Seq(Cursor)
  <2> DEFINE D == DueCursor
             C == Cursor
  <2>1. \A x \in D : x \in C BY <1>2
  <2> HIDE DEF D, C
  <2>2. \A s \in Seq(D) : s \in Seq(C) BY <2>1
  <2> QED BY <2>2 DEF D, C
<1>4. PruneIdle \in PruneRecord BY <1>1, RetConstants DEF PruneIdle, PruneRecord
<1> QED BY <1>1, <1>3, <1>4 DEF PruneIdle

\* A row that has changed leaves the others as they are.
LEMMA RowSet ==
    ASSUME RetInv, NEW e \in PRow, NEW f \in RetentionRow, prow' = [prow EXCEPT ![e] = f]
    PROVE  prow' \in [PRow -> RetentionRow] /\ prow'[e] = f /\ \A d \in PRow \ {e} : prow'[d] = prow[d]
BY RetTypes

-----------------------------------------------------------------------------
\* A row ends.
LEMMA RetEndRow ==
    ASSUME RetInv, NEW e \in PRow, NEW b \in BOOLEAN, EndRow(e, b)
    PROVE  RetInv'
<1> DEFINE f == [[prow[e] EXCEPT !.st = "ended"] EXCEPT !.ended = pnow]
<1>1. /\ prow[e].st = "active"
      /\ b => e \in PTask
      /\ prow' = [prow EXCEPT ![e] = f]
      /\ UNCHANGED <<pnow, plink, tombs, lease, sweep, prune, pruneFaults, recreated>>
  BY RetTypes DEF EndRow
<1>11. notice' = IF b THEN notice \cup {e} ELSE notice BY DEF EndRow
<1>2. f.st = "ended" /\ f \in RetentionRow BY RetTypes DEF RetentionRow
<1> HIDE DEF f
<1>3. prow' \in [PRow -> RetentionRow] /\ prow'[e] = f /\ \A d \in PRow \ {e} : prow'[d] = prow[d]
  BY <1>1, <1>2, RowSet
<1>4. notice' \subseteq PTask /\ \A t \in notice' : t \in notice \/ t = e BY <1>1, <1>11, RetTypes
<1>5. RetTypeOK' BY <1>1, <1>3, <1>4 DEF RetInv, PrunedAgrees, RetTypeOK
<1>6. GoneIsTombstoned' BY <1>1, <1>2, <1>3 DEF RetInv, PrunedAgrees, GoneIsTombstoned
<1>7. NothingDangles'
  <2>1. \A d \in PRow : prow[d].st # "gone" => prow'[d].st # "gone" BY <1>2, <1>3
  <2>2. \A t \in notice' : prow'[t].st = "ended" BY <1>2, <1>3, <1>4, RetTypes, RetConstants DEF RetInv, PrunedAgrees, NothingDangles
  <2>3. \A l \in plink : l[1] \in PRow /\ l[2] \in PRow BY RetTypes, RetConstants
  <2> QED BY <2>1, <2>2, <2>3, <1>1 DEF RetInv, PrunedAgrees, NothingDangles
<1> QED BY <1>1, <1>5, <1>6, <1>7 DEF RetInv, PrunedAgrees

\* What the rest of the Host does with notices and links.
LEMMA RetRefers ==
    ASSUME RetInv, (\E t \in PTask : SettleNotice(t)) \/ (\E f \in PFlow, t \in PTask : LinkRow(f, t))
    PROVE  RetInv'
<1>1. CASE \E t \in PTask : SettleNotice(t)
  <2>1. PICK t \in PTask : SettleNotice(t) BY <1>1
  <2>2. RetTypeOK' BY <2>1 DEF SettleNotice, RetInv, PrunedAgrees, RetTypeOK
  <2>3. GoneIsTombstoned' BY <2>1 DEF SettleNotice, RetInv, PrunedAgrees, GoneIsTombstoned
  <2>4. NothingDangles' BY <2>1 DEF SettleNotice, RetInv, PrunedAgrees, NothingDangles
  <2> QED BY <2>1, <2>2, <2>3, <2>4 DEF SettleNotice, RetInv, PrunedAgrees
<1>2. CASE \E f \in PFlow, t \in PTask : LinkRow(f, t)
  <2>1. PICK f \in PFlow, t \in PTask : LinkRow(f, t) BY <1>2
  <2>2. RetTypeOK' BY <2>1 DEF LinkRow, RetInv, PrunedAgrees, RetTypeOK
  <2>3. GoneIsTombstoned' BY <2>1 DEF LinkRow, RetInv, PrunedAgrees, GoneIsTombstoned
  <2>4. NothingDangles' BY <2>1 DEF LinkRow, RetInv, PrunedAgrees, NothingDangles
  <2> QED BY <2>1, <2>2, <2>3, <2>4 DEF LinkRow, RetInv, PrunedAgrees
<1> QED BY <1>1, <1>2

\* A Flow is created again: its tombstone stays.
LEMMA RetRecreate ==
    ASSUME RetInv, NEW e \in PFlow, RecreateFlow(e)
    PROVE  RetInv'
<1> DEFINE f == [st |-> "active", ended |-> 0, cleanup |-> Never]
<1>1. /\ prow[e].st = "gone" /\ recreated < MaxRecreated /\ recreated' = recreated + 1
      /\ prow' = [prow EXCEPT ![e] = f]
      /\ UNCHANGED <<pnow, plink, notice, tombs, lease, sweep, prune, pruneFaults>>
  BY DEF RecreateFlow
<1>2. f.st = "active" /\ f \in RetentionRow BY RetConstants DEF RetentionRow
<1> HIDE DEF f
<1>21. e \in PRow BY RetConstants
<1>3. prow' \in [PRow -> RetentionRow] /\ prow'[e] = f /\ \A d \in PRow \ {e} : prow'[d] = prow[d]
  BY <1>1, <1>2, <1>21, RowSet
<1>4. recreated' \in 1 .. MaxRecreated BY <1>1, RetTypes, RetConstants
<1>5. RetTypeOK' BY <1>1, <1>3, <1>4 DEF RetInv, PrunedAgrees, RetTypeOK
<1>6. GoneIsTombstoned' BY <1>1, <1>2, <1>3, <1>4 DEF RetInv, PrunedAgrees, GoneIsTombstoned
<1>7. NothingDangles'
  <2>1. \A d \in PRow : prow[d].st # "gone" => prow'[d].st # "gone" BY <1>2, <1>3
  <2>2. \A t \in notice : t # e /\ t \in PRow BY <1>1, RetTypes, RetConstants DEF RetInv, PrunedAgrees, NothingDangles
  <2>3. \A t \in notice : prow'[t].st = "ended" BY <2>2, <1>3 DEF RetInv, PrunedAgrees, NothingDangles
  <2>4. \A l \in plink : l[1] \in PRow /\ l[2] \in PRow BY RetTypes, RetConstants
  <2> QED BY <2>1, <2>3, <2>4, <1>1 DEF RetInv, PrunedAgrees, NothingDangles
<1> QED BY <1>1, <1>5, <1>6, <1>7 DEF RetInv, PrunedAgrees

\* The clock, and a lease that lapses.
LEMMA RetTime ==
    ASSUME RetInv, RetTick \/ LeaseLapses
    PROVE  RetInv'
<1>1. CASE RetTick
  <2>1. pnow' \in 0 .. MaxNow /\ UNCHANGED <<prow, plink, notice, tombs, lease, sweep, prune, pruneFaults, recreated>>
    BY <1>1, RetTypes, RetConstants DEF RetTick
  <2> QED BY <2>1, RetTypes, RetFrame
<1>2. CASE LeaseLapses
  <2>1. lease' \in {"none", "mine", "lapsed", "other"} BY <1>2 DEF LeaseLapses
  <2>2. pruneFaults' \in 0 .. MaxPruneFaults BY <1>2, RetTypes, RetConstants DEF LeaseLapses
  <2>3. UNCHANGED <<pnow, prow, plink, notice, tombs, sweep, prune, recreated>> BY <1>2 DEF LeaseLapses
  <2> QED BY <2>1, <2>2, <2>3, RetTypes, RetFrame
<1> QED BY <1>1, <1>2

-----------------------------------------------------------------------------
\* A call of prune begins.
LEMMA RetBegins ==
    ASSUME RetInv, NEW b \in BOOLEAN, PruneBegins(b)
    PROVE  RetInv'
<1> DEFINE a == IF b THEN sweep.cursor ELSE Origin
<1>1. /\ lease' = "mine"
      /\ prune' = [PruneIdle EXCEPT !.pc = "schedule", !.sweeps = b, !.at = pnow, !.rev = sweep.rev, !.after = a]
      /\ UNCHANGED <<pnow, prow, plink, notice, tombs, sweep, pruneFaults, recreated>>
  BY DEF PruneBegins, ClaimLease
<1>2. a \in Cursor BY RetTypes, IdleTyped
<1> HIDE DEF a
<1>3. prune' = [pc |-> "schedule", sweeps |-> b, after |-> a, at |-> pnow, rev |-> sweep.rev,
                list |-> <<>>, last |-> Origin, full |-> FALSE]
  BY <1>1 DEF PruneIdle
<1>4. prune' \in PruneRecord /\ prune'.list = <<>> BY <1>2, <1>3, RetTypes, IdleTyped DEF PruneRecord
<1> QED BY <1>1, <1>4, RetTypes, IdleTyped, RetFrame

\* The ended rows get the time at which they may go.
LEMMA RetSchedules ==
    ASSUME RetInv, PruneSchedules
    PROVE  RetInv'
<1>1. /\ prow' = [e \in PRow |-> IF ToSchedule(e)
                                 THEN [prow[e] EXCEPT !.cleanup = prow[e].ended + RetentionTime] ELSE prow[e]]
      /\ prune' = [prune EXCEPT !.pc = "list"]
      /\ UNCHANGED <<pnow, plink, notice, tombs, lease, sweep, pruneFaults, recreated>>
  BY DEF PruneSchedules, PrunePc
<1>2. ASSUME NEW e \in PRow
      PROVE  prow'[e] \in RetentionRow /\ prow'[e].st = prow[e].st
  <2> DEFINE f == [prow[e] EXCEPT !.cleanup = prow[e].ended + RetentionTime]
  <2>1. prow'[e] = IF ToSchedule(e) THEN f ELSE prow[e] BY <1>1
  <2>2. prow[e].ended \in 0 .. MaxNow /\ prow[e] \in RetentionRow BY RetTypes DEF RetentionRow
  <2>3. prow[e].ended + RetentionTime \in 0 .. Never BY <2>2, RetConstants
  <2>4. f \in RetentionRow /\ f.st = prow[e].st BY <2>2, <2>3 DEF RetentionRow
  <2> HIDE DEF f
  <2> QED BY <2>1, <2>2, <2>4
<1>3. prow' \in [PRow -> RetentionRow] BY <1>1, <1>2
<1>4. prune' \in PruneRecord /\ prune'.list = prune.list BY <1>1, RetTypes DEF PruneRecord
<1>5. RetTypeOK' BY <1>1, <1>3, <1>4 DEF RetInv, PrunedAgrees, RetTypeOK, PruneRecord
<1>6. GoneIsTombstoned' BY <1>1, <1>2 DEF RetInv, PrunedAgrees, GoneIsTombstoned
<1>7. NothingDangles'
  <2>1. \A l \in plink : l[1] \in PRow /\ l[2] \in PRow BY RetTypes, RetConstants
  <2>2. \A t \in notice : t \in PRow BY RetTypes, RetConstants
  <2> QED BY <2>1, <2>2, <1>1, <1>2 DEF RetInv, PrunedAgrees, NothingDangles
<1> QED BY <1>4, <1>5, <1>6, <1>7, RetTypes DEF RetInv, PrunedAgrees

\* A batch is listed.
LEMMA RetLists ==
    ASSUME RetInv, PruneLists
    PROVE  RetInv'
<1> DEFINE s == Candidates(prune.at, prune.after)
           b == Len(s) = BatchSize
<1>1. /\ prune' = [prune EXCEPT !.pc = "rows", !.list = s, !.full = b]
      /\ UNCHANGED <<pnow, prow, plink, notice, tombs, lease, sweep, pruneFaults, recreated>>
  BY DEF PruneLists
<1>2. s \in Seq(DueCursor) BY CandidatesTyped DEF RetInv, PrunedAgrees
<1>3. s \in Seq(Cursor) /\ b \in BOOLEAN BY <1>2, IdleTyped
<1> HIDE DEF s, b
<1>4. prune' \in PruneRecord /\ prune'.list = s BY <1>1, <1>3, RetTypes DEF PruneRecord
<1> QED BY <1>1, <1>2, <1>4, RetTypes, RetFrame

\* A row of the batch: skipped, refused, or deleted behind its tombstone.
LEMMA RetRow ==
    ASSUME RetInv, PruneRow
    PROVE  RetInv'
<1> DEFINE c == Head(prune.list)
           e == c[2]
           done == [[prune EXCEPT !.list = Tail(prune.list)] EXCEPT !.last = c]
<1>1. prune.list # <<>> /\ UNCHANGED <<pnow, sweep, pruneFaults, recreated>> BY DEF PruneRow
<1>2. c \in DueCursor /\ Tail(prune.list) \in Seq(DueCursor)
  <2> DEFINE D == DueCursor
  <2>1. prune.list \in Seq(D) BY RetTypes
  <2> HIDE DEF D
  <2>2. c \in D /\ Tail(prune.list) \in Seq(D) BY <2>1, <1>1
  <2> QED BY <2>2 DEF D
<1>3. c \in Cursor /\ e \in PRow BY <1>2 DEF DueCursor, Cursor
<1>4. done \in PruneRecord /\ done.list = Tail(prune.list)
  <2>1. Tail(prune.list) \in Seq(Cursor) BY <1>2, IdleTyped
  <2> QED BY <2>1, <1>3, RetTypes DEF PruneRecord
<1> HIDE DEF c
<1>5. CASE prune' = done /\ UNCHANGED <<prow, plink, notice, tombs, lease>>
  BY <1>1, <1>2, <1>4, <1>5, RetTypes, RetFrame
<1>6. CASE prune' = PruneIdle /\ ReleaseLease /\ UNCHANGED <<prow, plink, notice, tombs>>
  <2>1. lease' \in {"none", "mine", "lapsed", "other"} BY <1>6, RetTypes DEF ReleaseLease
  <2> QED BY <2>1, <1>1, <1>6, RetTypes, IdleTyped, RetFrame
<1>7. CASE prune' = done /\ Delete(e) /\ UNCHANGED lease /\ Inspect(e, pnow)
  <2> DEFINE f == [[prow[e] EXCEPT !.st = "gone"] EXCEPT !.cleanup = Never]
  <2>1. /\ tombs' = tombs \cup {e} /\ prow' = [prow EXCEPT ![e] = f]
        /\ plink' = {l \in plink : e \notin {l[1], l[2]}} /\ notice' = notice \ {e}
    BY <1>3, <1>7, RetTypes DEF Delete
  <2>2. f.st = "gone" /\ f \in RetentionRow
    <3>1. prow[e] \in RetentionRow BY <1>3, RetTypes
    <3>2. Never \in 0 .. Never BY RetConstants
    <3> HIDE DEF e
    <3> QED BY <3>1, <3>2 DEF RetentionRow
  <2> HIDE DEF f
  <2>3. prow' \in [PRow -> RetentionRow] /\ prow'[e] = f /\ \A d \in PRow \ {e} : prow'[d] = prow[d]
    BY <1>3, <2>1, <2>2, RowSet
  <2>4. RetTypeOK' BY <1>1, <1>3, <1>4, <1>7, <2>1, <2>3 DEF RetInv, PrunedAgrees, RetTypeOK, PruneRecord
  <2>5. GoneIsTombstoned' BY <1>1, <1>3, <2>1, <2>2, <2>3 DEF RetInv, PrunedAgrees, GoneIsTombstoned
  <2>6. NothingDangles'
    <3>1. \A l \in plink' : l \in plink /\ l[1] \in PRow \ {e} /\ l[2] \in PRow \ {e} BY <2>1, RetTypes, RetConstants
    <3>2. \A t \in notice' : t \in notice /\ t \in PRow \ {e} BY <2>1, RetTypes, RetConstants
    <3> QED BY <3>1, <3>2, <2>3 DEF RetInv, PrunedAgrees, NothingDangles
  <2> QED BY <1>2, <1>4, <1>7, <2>4, <2>5, <2>6 DEF RetInv, PrunedAgrees
<1> QED BY <1>5, <1>6, <1>7 DEF PruneRow, c

\* The batch ends: by a lost lease, or completed.
LEMMA RetEnds ==
    ASSUME RetInv, PruneLosesLease \/ PruneCompletes
    PROVE  RetInv'
<1>1. UNCHANGED <<pnow, prow, plink, notice, tombs, lease, sweep, pruneFaults, recreated>>
  BY DEF PruneLosesLease, PruneCompletes
<1>2. \E l \in Cursor : prune' = [prune EXCEPT !.pc = "release", !.last = l]
  <2>1. CASE PruneLosesLease
    <3> DEFINE l == IF prune.last = Origin THEN prune.after ELSE prune.last
    <3>1. l \in Cursor BY RetTypes
    <3>2. prune' = [prune EXCEPT !.pc = "release", !.last = l] BY <2>1 DEF PruneLosesLease
    <3> HIDE DEF l
    <3> QED BY <3>1, <3>2
  <2>2. CASE PruneCompletes
    <3>1. NextCursor \in Cursor BY RetTypes, IdleTyped DEF NextCursor
    <3>2. prune' = [prune EXCEPT !.pc = "release", !.last = NextCursor] BY <2>2 DEF PruneCompletes
    <3> QED BY <3>1, <3>2
  <2> QED BY <2>1, <2>2
<1>3. PICK l \in Cursor : prune' = [prune EXCEPT !.pc = "release", !.last = l] BY <1>2
<1>4. prune' \in PruneRecord /\ prune'.list = prune.list BY <1>3, RetTypes DEF PruneRecord
<1> QED BY <1>1, <1>4, RetTypes, RetFrame

\* The lease is given back, and the state of the sweep advances.
LEMMA RetFinishes ==
    ASSUME RetInv, PruneReleases \/ AdvanceSweepState
    PROVE  RetInv'
<1>1. CASE PruneReleases
  <2>1. UNCHANGED <<pnow, prow, plink, notice, tombs, sweep, pruneFaults, recreated>> BY <1>1 DEF PruneReleases
  <2>2. lease' \in {"none", "mine", "lapsed", "other"} BY <1>1, RetTypes DEF PruneReleases, ReleaseLease
  <2>3. prune' \in PruneRecord /\ prune'.list \in Seq(DueCursor)
    <3> DEFINE f == [prune EXCEPT !.pc = "advance"]
    <3>1. f \in PruneRecord /\ f.list = prune.list BY RetTypes DEF PruneRecord
    <3>2. prune' = f \/ prune' = PruneIdle BY <1>1 DEF PruneReleases
    <3> HIDE DEF f
    <3> QED BY <3>1, <3>2, RetTypes, IdleTyped
  <2> QED BY <2>1, <2>2, <2>3, RetTypes, RetFrame
<1>2. CASE AdvanceSweepState
  <2>1. UNCHANGED <<pnow, prow, plink, notice, tombs, lease, pruneFaults, recreated>> /\ prune' = PruneIdle
    BY <1>2 DEF AdvanceSweepState
  <2>2. sweep' \in [cursor : Cursor, rev : 0 .. 1]
    <3>1. 1 - sweep.rev \in 0 .. 1 BY RetTypes
    <3>2. sweep' = [cursor |-> prune.last, rev |-> 1 - sweep.rev] \/ sweep' = sweep BY <1>2 DEF AdvanceSweepState
    <3> QED BY <3>1, <3>2, RetTypes
  <2> QED BY <2>1, <2>2, RetTypes, IdleTyped, RetFrame
<1> QED BY <1>1, <1>2

\* The Host dies in the middle of a call.
LEMMA RetCrash ==
    ASSUME RetInv, PruneCrash
    PROVE  RetInv'
<1>1. /\ pruneFaults < MaxPruneFaults /\ pruneFaults' = pruneFaults + 1 /\ prune' = PruneIdle
      /\ UNCHANGED <<pnow, prow, plink, notice, tombs, sweep, recreated>>
  BY DEF PruneCrash
<1>2. lease' \in {"none", "mine", "lapsed", "other"} BY RetTypes DEF PruneCrash
<1>3. pruneFaults' \in 0 .. MaxPruneFaults BY <1>1, RetTypes, RetConstants
<1> QED BY <1>1, <1>2, <1>3, RetTypes, IdleTyped, RetFrame

\* Before the first call.
LEMMA RetInitially ==
    ASSUME RetInit
    PROVE  RetInv
<1>1. [st |-> "active", ended |-> 0, cleanup |-> Never] \in RetentionRow BY RetConstants DEF RetentionRow
<1>2. prow \in [PRow -> RetentionRow] /\ \A e \in PRow : prow[e].st = "active" BY <1>1 DEF RetInit
<1>3. RetTypeOK BY <1>2, IdleTyped, RetConstants DEF RetInit, RetTypeOK, PruneRecord
<1>4. GoneIsTombstoned BY <1>2 DEF RetInit, GoneIsTombstoned
<1>5. NothingDangles BY DEF RetInit, NothingDangles
<1> QED BY <1>3, <1>4, <1>5, IdleTyped DEF RetInit, RetInv, PrunedAgrees

\* RetInv is kept by every call of prune, by crashes and by what else happens to
\* the rows.
THEOREM RetInductive == RetSpec => []RetInv
<1>1. RetInit => RetInv BY RetInitially
<1>2. RetInv /\ [RetNext]_retVars => RetInv'
  <2> SUFFICES ASSUME RetInv, [RetNext]_retVars PROVE RetInv'
    OBVIOUS
  <2>1. CASE UNCHANGED retVars
    <3>1. UNCHANGED <<pnow, prow, plink, notice, tombs, lease, sweep, prune, pruneFaults, recreated>> BY <2>1 DEF retVars
    <3> QED BY <3>1, RetTypes, RetFrame
  <2>2. CASE RetNext
    <3>1. ASSUME NEW e \in PRow, NEW b \in BOOLEAN, EndRow(e, b) PROVE RetInv' BY <3>1, RetEndRow
    <3>2. CASE \E t \in PTask : SettleNotice(t) BY <3>2, RetRefers
    <3>3. ASSUME NEW f \in PFlow, RecreateFlow(f) \/ \E t \in PTask : LinkRow(f, t) PROVE RetInv'
      BY <3>3, RetRefers, RetRecreate
    <3>4. CASE RetTick \/ LeaseLapses BY <3>4, RetTime
    <3>5. CASE PruneStep BY <3>5, RetSchedules, RetLists, RetRow, RetEnds, RetFinishes DEF PruneStep
    <3>6. CASE PruneCrash BY <3>6, RetCrash
    <3>7. ASSUME NEW b \in BOOLEAN, PruneBegins(b) PROVE RetInv' BY <3>7, RetBegins
    <3> QED BY <2>2, <3>1, <3>2, <3>3, <3>4, <3>5, <3>6, <3>7 DEF RetNext
  <2> QED BY <2>1, <2>2
<1> QED BY <1>1, <1>2, PTL DEF RetSpec

\* A row that is gone has its tombstone and nothing refers to it, wherever prune
\* was stopped, whatever the rows, the batches and the lease.
THEOREM RetentionCorrect == RetSpec => []PrunedAgrees
<1>1. RetInv => PrunedAgrees BY DEF RetInv
<1> QED BY <1>1, RetInductive, PTL
-----------------------------------------------------------------------------
(* Memory: the records, their index and what a search finds.                *)

\* A record that is not forgotten was never changed.
MemoryInv ==
    /\ MemoryAgrees
    /\ \A i \in MemoryId : Kept(i) /\ ~memories[i].forgotten => memories[i].revision = 1

\* The fields of a record.
LEMMA MemoryFields ==
    ASSUME MemoryInv, NEW i \in MemoryId, Kept(i)
    PROVE  /\ memories[i] \in LedgerMemoryRow
           /\ memories[i].ws \in Workspace /\ memories[i].text \in Text /\ memories[i].forgotten \in BOOLEAN
<1>1. memories[i] \in LedgerMemoryRow BY DEF MemoryInv, MemoryAgrees, MemoryTypeOK, Kept
<1> QED BY <1>1 DEF LedgerMemoryRow

\* A step that leaves records and index alone keeps the invariant.
LEMMA MemoryFrame ==
    ASSUME MemoryInv, UNCHANGED <<memories, fts>>,
           memoryAnswer'.kind \in {"NONE", "ERROR", "REMEMBERED", "FOUND", "RECORD", "FORGOTTEN", "LIST"}
    PROVE  MemoryInv'
<1>1. MemoryTypeOK' BY DEF MemoryInv, MemoryAgrees, MemoryTypeOK
<1>2. RememberedOnce' BY DEF MemoryInv, MemoryAgrees, RememberedOnce, ActiveRows, Kept
<1>3. IndexAgrees' BY DEF MemoryInv, MemoryAgrees, IndexAgrees, Kept
<1>4. (\A i \in MemoryId : Kept(i) /\ ~memories[i].forgotten => memories[i].revision = 1)' BY DEF MemoryInv, Kept
<1> QED BY <1>1, <1>2, <1>3, <1>4 DEF MemoryInv, MemoryAgrees

\* A text is remembered unless it is, whatever its case.
LEMMA MemoryRemembers ==
    ASSUME MemoryInv, NEW w \in Workspace, NEW t \in Text, Remember(w, t)
    PROVE  MemoryInv'
<1>1. CASE UNCHANGED <<memories, fts>>
  <2>1. memoryAnswer'.kind \in {"ERROR", "REMEMBERED"}
    <3>1. CASE t \in Sensitive BY <3>1 DEF Remember, Failure
    <3>2. CASE t \notin Sensitive /\ FindActiveByHash(w, t) # {} BY <3>2 DEF Remember
    <3>3. CASE t \notin Sensitive /\ FindActiveByHash(w, t) = {} BY <3>3 DEF Remember
    <3> QED BY <3>1, <3>2, <3>3
  <2> QED BY <1>1, <2>1, MemoryFrame
<1>2. ASSUME NEW i \in MemoryId, ~Kept(i), InsertMemory(i, w, t), FindActiveByHash(w, t) = {},
             memoryAnswer'.kind = "REMEMBERED"
      PROVE  MemoryInv'
  <2> DEFINE m == [ws |-> w, text |-> t, forgotten |-> FALSE, revision |-> 1]
  <2>1. memories' = [memories EXCEPT ![i] = m] /\ fts' = [fts EXCEPT ![i] = @ + 1] BY <1>2 DEF InsertMemory
  <2>2. m \in LedgerMemoryRow /\ m.ws = w /\ m.text = t /\ m.forgotten = FALSE /\ m.revision = 1 BY DEF LedgerMemoryRow
  <2>3. m # NoMemory BY <2>2, MemoryAssumption
  <2> HIDE DEF m
  <2>4. /\ memories \in [MemoryId -> LedgerMemoryRow \cup {NoMemory}] /\ fts \in [MemoryId -> Nat]
        /\ fts[i] = 0
    BY <1>2 DEF MemoryInv, MemoryAgrees, MemoryTypeOK, IndexAgrees
  <2>5. /\ memories'[i] = m /\ fts'[i] = 1
        /\ \A j \in MemoryId \ {i} : memories'[j] = memories[j] /\ fts'[j] = fts[j]
        /\ memories' \in [MemoryId -> LedgerMemoryRow \cup {NoMemory}] /\ fts' \in [MemoryId -> Nat]
    BY <2>1, <2>2, <2>4
  <2>6. MemoryTypeOK' BY <1>2, <2>5 DEF MemoryTypeOK
  <2>7. ASSUME NEW v \in Workspace
        PROVE  ActiveRows(v)' = ActiveRows(v) \cup {j \in {i} : v = w}
    BY <1>2, <2>2, <2>3, <2>5 DEF ActiveRows, Kept
  <2>8. \A j \in ActiveRows(w) : HashOf[memories[j].text] # HashOf[t]
    BY <1>2 DEF FindActiveByHash, ContentHash
  <2>9. RememberedOnce'
    <3> SUFFICES ASSUME NEW v \in Workspace, NEW a \in ActiveRows(v)', NEW b \in ActiveRows(v)',
                        HashOf[memories'[a].text] = HashOf[memories'[b].text]
                 PROVE  a = b
      BY DEF RememberedOnce
    <3>0. \A j \in ActiveRows(v) : j \in MemoryId /\ j # i BY <1>2 DEF ActiveRows
    <3>1. CASE a \in ActiveRows(v) /\ b \in ActiveRows(v)
      BY <3>0, <3>1, <2>5 DEF MemoryInv, MemoryAgrees, RememberedOnce
    <3>2. CASE a = i /\ b \in ActiveRows(v)
      <4>1. v = w BY <2>7, <3>0, <3>2
      <4> QED BY <4>1, <3>0, <3>2, <2>2, <2>5, <2>8
    <3>3. CASE b = i /\ a \in ActiveRows(v)
      <4>1. v = w BY <2>7, <3>0, <3>3
      <4> QED BY <4>1, <3>0, <3>3, <2>2, <2>5, <2>8
    <3>4. CASE a = i /\ b = i BY <3>4
    <3> QED BY <2>7, <3>1, <3>2, <3>3, <3>4
  <2>10. IndexAgrees' BY <2>2, <2>3, <2>5 DEF MemoryInv, MemoryAgrees, IndexAgrees, Kept
  <2>11. (\A j \in MemoryId : Kept(j) /\ ~memories[j].forgotten => memories[j].revision = 1)'
    BY <2>2, <2>5 DEF MemoryInv, Kept
  <2> QED BY <2>6, <2>9, <2>10, <2>11 DEF MemoryInv, MemoryAgrees
<1>3. CASE t \in Sensitive BY <1>1, <1>3 DEF Remember
<1>4. CASE t \notin Sensitive /\ FindActiveByHash(w, t) # {} BY <1>1, <1>4 DEF Remember
<1>5. CASE t \notin Sensitive /\ FindActiveByHash(w, t) = {}
  <2>1. PICK i \in MemoryId : ~Kept(i) /\ InsertMemory(i, w, t)
                              /\ memoryAnswer' = [kind |-> "REMEMBERED", id |-> i, replayed |-> FALSE]
    BY <1>5 DEF Remember
  <2>2. memoryAnswer'.kind = "REMEMBERED" BY <2>1
  <2> QED BY <1>2, <1>5, <2>1, <2>2
<1> QED BY <1>3, <1>4, <1>5

\* A record is forgotten, and so is its entry.
LEMMA MemoryForgets ==
    ASSUME MemoryInv, NEW w \in Workspace, NEW i \in MemoryId, Forget(w, i)
    PROVE  MemoryInv'
<1>1. CASE i \notin ActiveRows(w)
  <2>1. memoryAnswer' = Failure("MEMORY_NOT_FOUND") /\ UNCHANGED <<memories, fts>> BY <1>1 DEF Forget
  <2>2. memoryAnswer'.kind = "ERROR" BY <2>1 DEF Failure
  <2> QED BY <2>1, <2>2, MemoryFrame
<1>2. CASE i \in ActiveRows(w)
  <2> DEFINE m == [[memories[i] EXCEPT !.forgotten = TRUE] EXCEPT !.revision = memories[i].revision + 1]
  <2>1. /\ memories \in [MemoryId -> LedgerMemoryRow \cup {NoMemory}] /\ fts \in [MemoryId -> Nat]
        /\ Kept(i) /\ ~memories[i].forgotten /\ memories[i].revision = 1
    BY <1>2 DEF ActiveRows, MemoryInv, MemoryAgrees, MemoryTypeOK
  <2>2. memories[i] \in LedgerMemoryRow BY <2>1, MemoryFields
  <2>3. memories' = [memories EXCEPT ![i] = m] BY <1>2, <2>1 DEF Forget
  <2>4. m \in LedgerMemoryRow /\ m.forgotten = TRUE
    <3>1. m = [[memories[i] EXCEPT !.forgotten = TRUE] EXCEPT !.revision = 2] BY <2>1
    <3>2. \A x \in LedgerMemoryRow : [x EXCEPT !.forgotten = TRUE] \in LedgerMemoryRow BY DEF LedgerMemoryRow
    <3>3. \A x \in LedgerMemoryRow : [x EXCEPT !.forgotten = TRUE].forgotten = TRUE BY DEF LedgerMemoryRow
    <3>4. \A x \in LedgerMemoryRow : [x EXCEPT !.revision = 2] \in LedgerMemoryRow BY DEF LedgerMemoryRow
    <3>5. \A x \in LedgerMemoryRow : [x EXCEPT !.revision = 2].forgotten = x.forgotten BY DEF LedgerMemoryRow
    <3> HIDE DEF m
    <3> QED BY <2>2, <3>1, <3>2, <3>3, <3>4, <3>5
  <2>5. m # NoMemory BY <2>4, MemoryAssumption
  <2> HIDE DEF m
  <2>6. /\ memories'[i] = m /\ \A j \in MemoryId \ {i} : memories'[j] = memories[j]
        /\ memories' \in [MemoryId -> LedgerMemoryRow \cup {NoMemory}]
    BY <2>1, <2>3, <2>4
  <2>7. fts' = [fts EXCEPT ![i] = 0]
    <3>1. fts' = [fts EXCEPT ![i] = IF memories'[i].forgotten THEN 0 ELSE 1] BY <1>2 DEF Forget, UpdateTrigger
    <3> QED BY <3>1, <2>4, <2>6
  <2>8. fts'[i] = 0 /\ (\A j \in MemoryId \ {i} : fts'[j] = fts[j]) /\ fts' \in [MemoryId -> Nat] BY <2>1, <2>7
  <2>9. memoryAnswer'.kind = "FORGOTTEN" BY <1>2 DEF Forget
  <2>10. MemoryTypeOK' BY <2>6, <2>8, <2>9 DEF MemoryTypeOK
  <2>11. \A v \in Workspace : ActiveRows(v)' \subseteq ActiveRows(v) \ {i} BY <2>4, <2>6 DEF ActiveRows, Kept
  <2>12. \A v \in Workspace : \A j \in ActiveRows(v)' : j \in ActiveRows(v) /\ j \in MemoryId \ {i}
    BY <2>11 DEF ActiveRows
  <2>13. RememberedOnce' BY <2>6, <2>12 DEF MemoryInv, MemoryAgrees, RememberedOnce
  <2>14. IndexAgrees' BY <2>4, <2>5, <2>6, <2>8 DEF MemoryInv, MemoryAgrees, IndexAgrees, Kept
  <2>15. (\A j \in MemoryId : Kept(j) /\ ~memories[j].forgotten => memories[j].revision = 1)'
    BY <2>4, <2>6 DEF MemoryInv, Kept
  <2> QED BY <2>10, <2>13, <2>14, <2>15 DEF MemoryInv, MemoryAgrees
<1> QED BY <1>1, <1>2

\* The queries change nothing but the answer.
LEMMA MemoryQueries ==
    ASSUME MemoryInv, NEW w \in Workspace,
           (\E query : Search(w, query)) \/ (\E i \in MemoryId : GetMemory(w, i)) \/ ListMemories(w)
    PROVE  MemoryInv'
<1>1. UNCHANGED <<memories, fts>> BY DEF Search, GetMemory, ListMemories
<1>2. memoryAnswer'.kind \in {"ERROR", "FOUND", "RECORD", "LIST"}
  <2>1. ASSUME NEW query, Search(w, query) PROVE memoryAnswer'.kind \in {"ERROR", "FOUND"}
    <3>1. CASE query = {} BY <2>1, <3>1 DEF Search, Failure
    <3>2. CASE query # {} BY <2>1, <3>2 DEF Search
    <3> QED BY <3>1, <3>2
  <2>2. ASSUME NEW i \in MemoryId, GetMemory(w, i) PROVE memoryAnswer'.kind \in {"ERROR", "RECORD"}
    <3>1. CASE i \in ActiveRows(w) BY <2>2, <3>1 DEF GetMemory
    <3>2. CASE i \notin ActiveRows(w) BY <2>2, <3>2 DEF GetMemory, Failure
    <3> QED BY <3>1, <3>2
  <2>3. CASE ListMemories(w) BY <2>3 DEF ListMemories
  <2> QED BY <2>1, <2>2, <2>3
<1> QED BY <1>1, <1>2, MemoryFrame

\* MemoryInv is kept by every call.
LEMMA MemoryStep == MemoryInv /\ [MemoryNext]_memoryVars => MemoryInv'
<1> SUFFICES ASSUME MemoryInv, [MemoryNext]_memoryVars PROVE MemoryInv'
  OBVIOUS
<1>1. CASE UNCHANGED memoryVars
  <2>1. UNCHANGED <<memories, fts, memoryAnswer>> BY <1>1 DEF memoryVars
  <2>2. memoryAnswer'.kind \in {"NONE", "ERROR", "REMEMBERED", "FOUND", "RECORD", "FORGOTTEN", "LIST"}
    BY <2>1 DEF MemoryInv, MemoryAgrees, MemoryTypeOK
  <2> QED BY <2>1, <2>2, MemoryFrame
<1>2. CASE MemoryNext
  <2>1. PICK w \in Workspace :
          \/ \E t \in Text : Remember(w, t)
          \/ \E query \in SUBSET UNION {TermsOf[t] : t \in Text} : Search(w, query)
          \/ \E i \in MemoryId : GetMemory(w, i) \/ Forget(w, i)
          \/ ListMemories(w)
    BY <1>2 DEF MemoryNext
  <2> QED BY <2>1, MemoryRemembers, MemoryForgets, MemoryQueries
<1> QED BY <1>1, <1>2

\* Nothing is remembered.
LEMMA MemoryInitially == MemoryInit => MemoryInv
BY DEF MemoryInit, MemoryInv, MemoryAgrees, MemoryTypeOK, RememberedOnce, IndexAgrees, ActiveRows, Kept

\* MemoryInv holds of every state.
THEOREM MemoryInductive == MemorySpec => []MemoryInv
BY MemoryInitially, MemoryStep, PTL DEF MemorySpec

\* A text is remembered once in its Workspace, and the index lists what is
\* remembered and nothing that was forgotten, for any texts and any calls.
THEOREM MemoryCorrect == MemorySpec => []MemoryAgrees
<1>1. MemoryInv => MemoryAgrees BY DEF MemoryInv
<1> QED BY <1>1, MemoryInductive, PTL

\* A search answers with what is remembered, and says when it left some out.
LEMMA SearchTells ==
    ASSUME MemoryInv, NEW w \in Workspace, NEW query, Search(w, query), memoryAnswer'.kind = "FOUND"
    PROVE  LET matching == {i \in ActiveRows(memoryAnswer'.ws) : TermsOf[memories[i].text] \cap memoryAnswer'.query # {}} IN
           /\ memoryAnswer'.results \subseteq matching
           /\ memoryAnswer'.truncated <=> memoryAnswer'.results # matching
<1> DEFINE hits == SearchActive(w, query)
<1>1. PICK found \in SUBSET hits :
         /\ Cardinality(found) <= MaxResults
         /\ found = hits \/ Cardinality(found) = MaxResults
         /\ memoryAnswer' = IF query = {} THEN Failure("MEMORY_QUERY_INVALID")
                            ELSE [kind |-> "FOUND", ws |-> w, query |-> query, results |-> found,
                                  truncated |-> Cardinality(hits) > MaxResults]
  BY DEF Search
<1>2. query # {} BY <1>1 DEF Failure
<1>3. /\ memoryAnswer'.ws = w /\ memoryAnswer'.query = query /\ memoryAnswer'.results = found
      /\ memoryAnswer'.truncated = (Cardinality(hits) > MaxResults)
  BY <1>1, <1>2
<1>4. hits = {i \in ActiveRows(w) : TermsOf[memories[i].text] \cap query # {}}
  BY DEF SearchActive, ActiveRows, MemoryInv, MemoryAgrees, IndexAgrees
<1>5. hits \in SUBSET MemoryId BY DEF SearchActive
<1>6. IsFiniteSet(hits) /\ Cardinality(hits) \in Nat BY <1>5, MemoryAssumption, FS_Subset, FS_CardinalityType
<1>7. Cardinality(hits) > MaxResults <=> found # hits
  <2>1. found = hits => ~(Cardinality(hits) > MaxResults) BY <1>1, <1>6, MemoryAssumption
  <2>2. ASSUME found # hits PROVE Cardinality(hits) > MaxResults
    <3>1. Cardinality(found) = MaxResults BY <1>1, <2>2
    <3>2. Cardinality(found) <= Cardinality(hits) /\ Cardinality(found) # Cardinality(hits)
      BY <1>1, <1>6, <2>2, FS_Subset
    <3> QED BY <3>1, <3>2, <1>6, MemoryAssumption
  <2> QED BY <2>1, <2>2
<1> HIDE DEF hits
<1> QED BY <1>3, <1>4, <1>7

\* Every answer of a search is exact: the active records of its Workspace that
\* share a term with it, or as many as were asked for with the flag that there
\* are more.
THEOREM SearchesExact == MemorySpec => SearchIsExact
<1> DEFINE Exact ==
      LET matching == {i \in ActiveRows(memoryAnswer'.ws) : TermsOf[memories[i].text] \cap memoryAnswer'.query # {}} IN
      /\ memoryAnswer'.results \subseteq matching
      /\ memoryAnswer'.truncated <=> memoryAnswer'.results # matching
<1>1. MemoryInv /\ [MemoryNext]_memoryVars
        => [memoryAnswer' # memoryAnswer /\ memoryAnswer'.kind = "FOUND" => Exact]_memoryVars
  <2> SUFFICES ASSUME MemoryInv, MemoryNext, memoryAnswer'.kind = "FOUND" PROVE Exact
    BY DEF memoryVars
  <2>1. PICK w \in Workspace :
          \/ \E t \in Text : Remember(w, t)
          \/ \E query \in SUBSET UNION {TermsOf[t] : t \in Text} : Search(w, query)
          \/ \E i \in MemoryId : GetMemory(w, i) \/ Forget(w, i)
          \/ ListMemories(w)
    BY DEF MemoryNext
  <2>2. ASSUME NEW t \in Text, Remember(w, t) PROVE FALSE
    <3>1. CASE t \in Sensitive BY <2>2, <3>1 DEF Remember, Failure
    <3>2. CASE t \notin Sensitive /\ FindActiveByHash(w, t) # {} BY <2>2, <3>2 DEF Remember
    <3>3. CASE t \notin Sensitive /\ FindActiveByHash(w, t) = {} BY <2>2, <3>3 DEF Remember
    <3> QED BY <3>1, <3>2, <3>3
  <2>3. ASSUME NEW i \in MemoryId, GetMemory(w, i) PROVE FALSE
    <3>1. CASE i \in ActiveRows(w) BY <2>3, <3>1 DEF GetMemory
    <3>2. CASE i \notin ActiveRows(w) BY <2>3, <3>2 DEF GetMemory, Failure
    <3> QED BY <3>1, <3>2
  <2>4. ASSUME NEW i \in MemoryId, Forget(w, i) PROVE FALSE
    <3>1. CASE i \in ActiveRows(w) BY <2>4, <3>1 DEF Forget
    <3>2. CASE i \notin ActiveRows(w) BY <2>4, <3>2 DEF Forget, Failure
    <3> QED BY <3>1, <3>2
  <2>5. ~ListMemories(w) BY DEF ListMemories
  <2>6. PICK query : Search(w, query) BY <2>1, <2>2, <2>3, <2>4, <2>5
  <2> QED BY <2>6, SearchTells
<1> QED BY <1>1, MemoryInductive, PTL DEF MemorySpec, SearchIsExact
=============================================================================
