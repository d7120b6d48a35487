----------------------------- MODULE Delegation -----------------------------
(***************************************************************************)
(* Delegated Runs: the tree that agent.spawn and agent.wait build, the     *)
(* budget that a parent reserves for a child and is charged when it ends,  *)
(* the result that is delivered to a waiting parent, the cancellation and  *)
(* the time-out of a subtree, and the restart of the Host.                 *)
(*                                                                         *)
(* Model calls stand for all resources of a budget.  The Host is one       *)
(* thread: while it is not Free (a synchronous piece of an execution, a    *)
(* sweep over a subtree, the recovery) nobody else moves, but it may crash *)
(* between two transactions.  How a single Run is executed, suspended for  *)
(* approvals and recovered from its log is the matter of AgentHost and     *)
(* KernelLoop; here an interrupted Run is queued or failed as its log says *)
(* (either may happen).                                                    *)
(***************************************************************************)
EXTENDS Naturals, FiniteSets

CONSTANTS
    Node,        \* the Runs of one tree
    Root,        \* the Run that an operator sent
    NoNode,
    Budget,      \* maxModelCalls of the root
    MaxDepth,    \* maxDelegationDepth
    MaxActive,   \* maxActiveChildren
    MaxDown      \* bound on crashes

ASSUME DelegationAssumption ==
    /\ IsFiniteSet(Node) /\ Root \in Node /\ NoNode \notin Node
    /\ {Budget, MaxDepth, MaxActive, MaxDown} \subseteq Nat

VARIABLES
    run,        \* agent_runs.status
    parent,     \* run_delegations.parent_run_id of every child
    above,      \* the ancestors: what the recursive query over parent_run_id finds
    max,        \* run_budget_envelopes.max_model_calls
    spent,      \* model_invocations of the Run: what it really used
    used,       \* run_budget_envelopes.used_model_calls
    delegated,  \* run_budget_envelopes.delegated_used_model_calls
    late,       \* terminal_reason of the attempt is AGENT_TIME_BUDGET_EXCEEDED
    deleg,      \* run_delegations.status of every child
    charged,    \* charged_model_calls of the reservation
    released,   \* the reservation is RELEASED, not RESERVED
    wait,       \* run_delegation_waits has a row for the child
    delivery,   \* run_delegation_result_deliveries.status
    results,    \* how many Tool results the wait for the child has got
    exec,       \* where the execution of the Run stands, idle when not active;
                \* new while agent.spawn has created and not yet scheduled it
    abort,      \* its abort signal
    pending,    \* the Run is in #pendingResume
    sweep,      \* a subtree that is being terminated
    host,
    downs

ledger == <<run, parent, above, max, spent, used, delegated, late, deleg, charged, released,
            wait, delivery, results>>
memory == <<exec, abort, pending, sweep, host, downs>>
delegVars == <<ledger, memory>>

TerminalRun == {"COMPLETED", "FAILED", "CANCELLED"}
ActiveDelegation == {"CREATED", "RUNNING", "WAITING"}
TerminalDelegation == {"COMPLETED", "FAILED", "CANCELLED", "TIMED_OUT"}

Child == Node \ {Root}
NoSweep == [todo |-> {}, all |-> {}, now |-> NoNode, as |-> "CANCELLED"]

DelegInit ==
    /\ run = [n \in Node |-> IF n = Root THEN "CREATED" ELSE "ABSENT"]
    /\ parent = [n \in Node |-> NoNode]
    /\ above = [n \in Node |-> {}]
    /\ max = [n \in Node |-> IF n = Root THEN Budget ELSE 0]
    /\ spent = [n \in Node |-> 0] /\ used = spent /\ delegated = spent /\ charged = spent
    /\ late = [n \in Node |-> FALSE] /\ released = late /\ wait = late
    /\ deleg = [n \in Node |-> "NONE"] /\ delivery = deleg
    /\ results = [n \in Node |-> 0]
    /\ exec = [n \in Node |-> IF n = Root THEN "starting" ELSE "idle"]
    /\ abort = [n \in Node |-> FALSE] /\ pending = abort
    /\ sweep = NoSweep
    /\ host = "UP"
    /\ downs = 0

\* An execution awaits its preparation, the model, every Tool, the return of
\* agent.wait and onRunTerminal; in between it is synchronous.
Sync == {"ready", "acting", "scheduling", "completing", "failing", "aborting"}

\* The thread is free for another callback.
Free ==
    /\ host = "UP"
    /\ sweep = NoSweep
    /\ \A n \in Node : exec[n] \notin Sync

Goto(n, target) ==
    /\ exec' = [exec EXCEPT ![n] = target]
    /\ UNCHANGED <<abort, pending, sweep, host, downs>>

\* coordinator.resume of the Runs in S: an active one is resumed when it leaves.
Resume(S) ==
    /\ exec' = [n \in Node |-> IF n \in S /\ exec[n] = "idle" THEN "starting" ELSE exec[n]]
    /\ pending' = [n \in Node |-> pending[n] \/ (n \in S /\ exec[n] # "idle")]

\* The execution of n is removed from #active and the Runs in S are resumed.
Leave(n, S) ==
    /\ exec' = [m \in Node |->
                   CASE m = n                        -> IF pending[n] THEN "starting" ELSE "idle"
                     [] m \in S /\ exec[m] = "idle"  -> "starting"
                     [] OTHER                        -> exec[m]]
    /\ pending' = [m \in Node |-> m # n /\ (pending[m] \/ (m \in S /\ exec[m] # "idle"))]
    /\ abort' = [abort EXCEPT ![n] = FALSE]
    /\ UNCHANGED <<sweep, host, downs>>

-----------------------------------------------------------------------------
(* The tables.                                                              *)

Children(p) == {c \in Child : parent[c] = p}
Reserved(p) == {c \in Children(p) : ~released[c]}
Descendants(n) == {c \in Child : n \in above[c]}
Active(S) == {c \in S : deleg[c] \in ActiveDelegation}

\* The sum of f over S, as the number of its units.
SumOver(f, S) == Cardinality(UNION {{c} \X (1 .. f[c]) : c \in S})

\* What the parent has used, was charged for and has reserved.
Committed(p) == used[p] + delegated[p] + SumOver(max, Reserved(p))

EffectiveUsage(n) == used[n] + delegated[n]

\* terminalStatusForRun
TerminalStatus(n) ==
    CASE run[n] = "COMPLETED" -> "COMPLETED"
      [] run[n] = "CANCELLED" -> "CANCELLED"
      [] OTHER                -> IF late[n] THEN "TIMED_OUT" ELSE "FAILED"

\* createDelegatedRun: the child with its reservation in one transaction.
CreateDelegatedRun(p, c, m) ==
    /\ run[p] \notin TerminalRun
    /\ run[c] = "ABSENT"
    /\ Cardinality(above[p]) < MaxDepth
    /\ Cardinality(Reserved(p)) < MaxActive
    /\ m >= 1
    /\ Committed(p) + m <= max[p]
    /\ run' = [run EXCEPT ![c] = "CREATED"]
    /\ parent' = [parent EXCEPT ![c] = p]
    /\ above' = [above EXCEPT ![c] = above[p] \cup {p}]
    /\ max' = [max EXCEPT ![c] = m]
    /\ deleg' = [deleg EXCEPT ![c] = "CREATED"]
    /\ UNCHANGED <<spent, used, delegated, late, charged, released, wait, delivery, results>>

\* Mutant: the delivery is not recorded with the wait.
MarkWaitingOnly(c) ==
    /\ deleg[c] \in ActiveDelegation
    /\ deleg' = [deleg EXCEPT ![c] = "WAITING"]
    /\ wait' = [wait EXCEPT ![c] = TRUE]
    /\ UNCHANGED <<run, parent, above, max, spent, used, delegated, late, charged, released, delivery,
                   results>>

\* Mutant: a wait for a child that ended is accepted.
MarkWaitingAny(c) ==
    /\ deleg' = [deleg EXCEPT ![c] = "WAITING"]
    /\ wait' = [wait EXCEPT ![c] = TRUE]
    /\ delivery' = [delivery EXCEPT ![c] = "PENDING"]
    /\ UNCHANGED <<run, parent, above, max, spent, used, delegated, late, charged, released, results>>

\* markWaiting: the wait and the pending delivery in one transaction.
MarkWaiting(c) ==
    /\ deleg[c] \in ActiveDelegation
    /\ deleg' = [deleg EXCEPT ![c] = "WAITING"]
    /\ wait' = [wait EXCEPT ![c] = TRUE]
    /\ delivery' = [delivery EXCEPT ![c] = "PENDING"]
    /\ UNCHANGED <<run, parent, above, max, spent, used, delegated, late, charged, released, results>>

\* releaseBudgetReservation: once, and a repetition changes nothing.
ReleaseReservation(c) ==
    IF released[c]
    THEN UNCHANGED <<charged, delegated, released>>
    ELSE /\ charged' = [charged EXCEPT ![c] = EffectiveUsage(c)]
         /\ delegated' = [delegated EXCEPT ![parent[c]] = @ + EffectiveUsage(c)]
         /\ released' = [released EXCEPT ![c] = TRUE]

\* A repeated completion that does not match the stored one throws.
Conflict(c) ==
    released[c] /\ (charged[c] # EffectiveUsage(c) \/ deleg[c] # TerminalStatus(c))

\* completeChild: the delegation takes the outcome of its Run, the reservation
\* is released and a pending delivery gets its Tool result.
CompleteChild(c) ==
    IF c \notin Child \/ deleg[c] = "NONE" \/ run[c] \notin TerminalRun \/ Conflict(c)
    THEN UNCHANGED ledger
    ELSE /\ ReleaseReservation(c)
         /\ deleg' = [deleg EXCEPT ![c] = IF @ \in ActiveDelegation THEN TerminalStatus(c) ELSE @]
         /\ delivery' = [delivery EXCEPT ![c] = IF @ = "PENDING" THEN "DELIVERED" ELSE @]
         /\ results' = [results EXCEPT ![c] = IF delivery[c] = "PENDING" THEN @ + 1 ELSE @]
         /\ wait' = [wait EXCEPT ![c] = IF delivery[c] = "PENDING" THEN FALSE ELSE @]
         /\ UNCHANGED <<run, parent, above, max, spent, used, late>>

\* resumeParent of the completion.
ResumesParent(c) ==
    /\ c \in Child /\ run[c] \in TerminalRun /\ ~Conflict(c)
    /\ delivery[c] = "PENDING" /\ run[parent[c]] \notin TerminalRun

-----------------------------------------------------------------------------
(* Executions.                                                              *)

\* updateExecutionUsage, also of a Run that ended meanwhile.
UpdateUsage(n, usage, timeout) ==
    /\ used' = [used EXCEPT ![n] = usage]
    /\ late' = [late EXCEPT ![n] = timeout]

\* startExecution, unless the Run ended while it was prepared.
Start(n) ==
    /\ exec[n] = "starting" /\ Free
    /\ \/ /\ run[n] = "CREATED"
          /\ run' = [run EXCEPT ![n] = "RUNNING"]
          /\ UNCHANGED <<parent, above, max, spent, used, delegated, late, deleg, charged, released,
                         wait, delivery, results>>
          /\ Goto(n, "ready")
       \/ /\ run[n] # "CREATED"
          /\ UNCHANGED ledger
          /\ Leave(n, {})

\* The preparation fails: failExecution with an empty usage; the transition of
\* a Run that ended is refused and only the usage is written.
Unprepared(n) ==
    /\ exec[n] = "starting" /\ Free
    /\ UpdateUsage(n, 0, FALSE)
    /\ run' = [run EXCEPT ![n] = IF @ \in TerminalRun THEN @ ELSE "FAILED"]
    /\ IF run[n] \in TerminalRun THEN Leave(n, {}) ELSE Goto(n, "leaving")
    /\ UNCHANGED <<parent, above, max, spent, delegated, deleg, charged, released, wait, delivery,
                   results>>

\* The profile of the model does not resolve: the Run stays as it is.
Unresolved(n) ==
    /\ exec[n] = "starting" /\ Free
    /\ Leave(n, {})
    /\ UNCHANGED ledger

\* A turn of the loop: the abort and the composite budget are looked at first.
Request(n) ==
    /\ exec[n] = "ready"
    /\ IF ~abort[n] /\ spent[n] + delegated[n] < max[n]
       THEN /\ spent' = [spent EXCEPT ![n] = @ + 1]
            /\ UNCHANGED <<run, parent, above, max, used, delegated, late, deleg, charged, released,
                           wait, delivery, results>>
            /\ Goto(n, "request")
       ELSE UNCHANGED ledger /\ Goto(n, IF abort[n] THEN "aborting" ELSE "failing")

\* The stream ends: with the reply, whose usage is written, with an error, or
\* with the abort.  A Run that ended takes no message; the last reply has no
\* Tool call, before one the abort is looked at.
Reply(n) ==
    /\ exec[n] = "request" /\ Free
    /\ \/ /\ UpdateUsage(n, spent[n], FALSE)
          /\ UNCHANGED <<run, parent, above, max, spent, delegated, deleg, charged, released, wait,
                         delivery, results>>
          /\ IF run[n] \in TerminalRun
             THEN Goto(n, "failing")
             ELSE Goto(n, "completing") \/ Goto(n, IF abort[n] THEN "aborting" ELSE "acting")
       \/ UNCHANGED ledger /\ Goto(n, IF abort[n] THEN "aborting" ELSE "failing")

\* The reply has no Tool call: completeExecution.
Complete(n) ==
    /\ exec[n] = "completing"
    /\ run' = [run EXCEPT ![n] = "COMPLETED"]
    /\ UNCHANGED <<parent, above, max, spent, used, delegated, late, deleg, charged, released, wait,
                   delivery, results>>
    /\ Goto(n, "leaving")

\* A Tool that is not about delegation, or one that returns an error.
OtherTool(n) ==
    /\ exec[n] = "acting"
    /\ Goto(n, "tool")
    /\ UNCHANGED ledger

\* The Tool throws, or its result is appended, which a Run that ended refuses;
\* then the next Tool call of the reply follows, or the next turn.
Returned(n) ==
    /\ exec[n] = "tool" /\ Free
    /\ UNCHANGED ledger
    /\ \E next \in CASE abort[n]               -> {"failing", "aborting"}
                     [] run[n] \in TerminalRun -> {"failing"}
                     [] OTHER                  -> {"failing", "acting", "ready"} : Goto(n, next)

\* failExecution with a time-out or another code, skipped for a Run that ended.
Fail(n) ==
    /\ exec[n] = "failing"
    /\ Goto(n, "leaving")
    /\ IF run[n] \in TerminalRun
       THEN UNCHANGED ledger
       ELSE /\ \E timeout \in BOOLEAN : UpdateUsage(n, spent[n], timeout)
            /\ run' = [run EXCEPT ![n] = "FAILED"]
            /\ UNCHANGED <<parent, above, max, spent, delegated, deleg, charged, released, wait,
                           delivery, results>>

\* AGENT_CANCELLED in the catch of executeAgentRun: the usage is written always.
Abort(n) ==
    /\ exec[n] = "aborting"
    /\ UpdateUsage(n, spent[n], FALSE)
    /\ run' = [run EXCEPT ![n] = IF @ \in TerminalRun THEN @ ELSE "CANCELLED"]
    /\ Goto(n, "leaving")
    /\ UNCHANGED <<parent, above, max, spent, delegated, deleg, charged, released, wait, delivery,
                   results>>

\* agent.spawn: the child is created, then marked RUNNING and scheduled.
Spawn(p, c, m) ==
    /\ exec[p] = "acting"
    /\ CreateDelegatedRun(p, c, m)
    /\ exec' = [exec EXCEPT ![p] = "scheduling", ![c] = "new"]
    /\ UNCHANGED <<abort, pending, sweep, host, downs>>

Schedule(p, c) ==
    /\ exec[p] = "scheduling" /\ exec[c] = "new"
    /\ parent[c] = p /\ deleg[c] = "CREATED"
    /\ deleg' = [deleg EXCEPT ![c] = "RUNNING"]
    /\ exec' = [exec EXCEPT ![p] = "tool", ![c] = "starting"]
    /\ UNCHANGED <<run, parent, above, max, spent, used, delegated, late, charged, released, wait,
                   delivery, results, abort, pending, sweep, host, downs>>

\* agent.wait: the result of a child that ended, or a durable wait.
Wait(p, c) ==
    /\ exec[p] = "acting" /\ parent[c] = p
    /\ \/ deleg[c] \in TerminalDelegation /\ Goto(p, "tool") /\ UNCHANGED ledger
       \/ MarkWaiting(c) /\ Goto(p, "suspending")

\* waitForDelegation, after an await: the usage first; then it throws when the
\* child was completed, or the parent ended, in between.
Suspend(p) ==
    /\ exec[p] = "suspending" /\ Free
    /\ UpdateUsage(p, spent[p], FALSE)
    /\ IF run[p] = "RUNNING" /\ \E c \in Children(p) : delivery[c] = "PENDING"
       THEN run' = [run EXCEPT ![p] = "CREATED"] /\ Leave(p, {})
       ELSE run' = run /\ Goto(p, "failing")
    /\ UNCHANGED <<parent, above, max, spent, delegated, deleg, charged, released, wait, delivery,
                   results>>

\* onRunTerminal completes the child; it may throw before it comes to that.
Terminated(n) ==
    /\ exec[n] = "leaving" /\ Free
    /\ \/ CompleteChild(n) /\ Leave(n, IF ResumesParent(n) THEN {parent[n]} ELSE {})
       \/ UNCHANGED ledger /\ Leave(n, {})

-----------------------------------------------------------------------------
(* Cancellation and time-out of a subtree.                                  *)

AbortAll(S) == abort' = [n \in Node |-> abort[n] \/ (n \in S /\ exec[n] # "idle")]

\* conversation.cancel of any Run of the tree, and runHooks.cancel.
CancelRun(n) ==
    /\ Free /\ run[n] # "ABSENT"
    /\ run' = [run EXCEPT ![n] = IF @ \in TerminalRun THEN @ ELSE "CANCELLED"]
    /\ AbortAll(Active(Descendants(n)) \cup {n})
    /\ sweep' = [todo |-> Active(Descendants(n)), all |-> Active(Descendants(n)),
                 now |-> NoNode, as |-> "CANCELLED"]
    /\ UNCHANGED <<parent, above, max, spent, used, delegated, late, deleg, charged, released, wait,
                   delivery, results, exec, pending, host, downs>>

\* Mutant: a child whose Run ended already is not looked for.
TerminateSubtreeOpen(c, as) ==
    /\ Free /\ deleg[c] \in ActiveDelegation /\ run[c] \notin TerminalRun
    /\ AbortAll(Active({c} \cup Descendants(c)))
    /\ sweep' = [todo |-> Active({c} \cup Descendants(c)),
                 all |-> Active({c} \cup Descendants(c)), now |-> NoNode, as |-> as]
    /\ UNCHANGED <<ledger, exec, pending, host, downs>>

\* delegation.cancel by an operator, and the timer that finds a deadline passed:
\* the resources of the whole subtree are cancelled first.
TerminateSubtree(c, as) ==
    /\ Free /\ deleg[c] \in ActiveDelegation
    /\ AbortAll(Active({c} \cup Descendants(c)))
    /\ sweep' = [todo |-> Active({c} \cup Descendants(c)),
                 all |-> Active({c} \cup Descendants(c)), now |-> NoNode, as |-> as]
    /\ UNCHANGED <<ledger, exec, pending, host, downs>>

\* terminateChild of a deepest one: the Run ends in one transaction ...
TerminateChild(c) ==
    /\ host = "UP" /\ sweep.now = NoNode /\ c \in sweep.todo
    /\ \A d \in sweep.todo : Cardinality(above[d]) <= Cardinality(above[c])
    /\ IF run[c] \in TerminalRun
       THEN UNCHANGED <<run, late>>
       ELSE /\ run' = [run EXCEPT ![c] = IF sweep.as = "CANCELLED" THEN "CANCELLED" ELSE "FAILED"]
            /\ late' = [late EXCEPT ![c] = sweep.as = "TIMED_OUT"]
    /\ sweep' = [sweep EXCEPT !.now = c]
    /\ UNCHANGED <<parent, above, max, spent, used, delegated, deleg, charged, released, wait,
                   delivery, results, exec, abort, pending, host, downs>>

\* ... and is completed in the next; parents outside the subtree are resumed.
FinishChild(c) ==
    /\ host = "UP" /\ sweep.now = c
    /\ CompleteChild(c)
    /\ Resume(IF ResumesParent(c) THEN {parent[c]} \ sweep.all ELSE {})
    /\ sweep' = IF sweep.todo = {c} THEN NoSweep
                ELSE [sweep EXCEPT !.todo = @ \ {c}, !.now = NoNode]
    /\ UNCHANGED <<abort, host, downs>>

-----------------------------------------------------------------------------
(* Crash and restart.                                                       *)

Crash ==
    /\ host # "DOWN" /\ downs < MaxDown
    /\ host' = "DOWN" /\ downs' = downs + 1
    /\ exec' = [n \in Node |-> "idle"]
    /\ abort' = [n \in Node |-> FALSE] /\ pending' = abort'
    /\ sweep' = NoSweep
    /\ UNCHANGED ledger

\* recoverIncompleteRuns: a Run that waits is queued, another as its log says.
RecoverRuns ==
    /\ host = "DOWN" /\ host' = "RECOVERING"
    /\ \E Q \in SUBSET {n \in Node : run[n] = "RUNNING"} :
          /\ \A c \in Child : wait[c] /\ run[parent[c]] = "RUNNING" => parent[c] \in Q
          /\ run' = [n \in Node |-> CASE run[n] # "RUNNING" -> run[n]
                                      [] n \in Q            -> "CREATED"
                                      [] OTHER              -> "FAILED"]
    /\ UNCHANGED <<parent, above, max, spent, used, delegated, late, deleg, charged, released, wait,
                   delivery, results, exec, abort, pending, sweep, downs>>

\* listTerminalChildDelegations
Unreconciled ==
    {c \in Child : run[c] \in TerminalRun /\ (deleg[c] \in ActiveDelegation \/ delivery[c] = "PENDING")}

\* reconcileTerminalChildren, deepest first.
Reconcile(c) ==
    /\ host = "RECOVERING" /\ c \in Unreconciled
    /\ \A d \in Unreconciled : Cardinality(above[d]) <= Cardinality(above[c])
    /\ CompleteChild(c)
    /\ UNCHANGED memory

\* Mutant: a Run that waits for a child is scheduled too.
StartupWaiting ==
    /\ host = "RECOVERING" /\ Unreconciled = {}
    /\ host' = "UP"
    /\ exec' = [n \in Node |-> IF run[n] = "CREATED" THEN "starting" ELSE "idle"]
    /\ UNCHANGED <<ledger, abort, pending, sweep, downs>>

\* Runs that are CREATED and wait for nobody are scheduled; a child only when
\* its delegation is active.
Startup ==
    /\ host = "RECOVERING" /\ Unreconciled = {}
    /\ host' = "UP"
    /\ exec' = [n \in Node |->
                   IF /\ run[n] = "CREATED" /\ \A c \in Children(n) : ~wait[c]
                      /\ n = Root \/ deleg[n] \in ActiveDelegation
                   THEN "starting" ELSE "idle"]
    /\ UNCHANGED <<ledger, abort, pending, sweep, downs>>

-----------------------------------------------------------------------------
Execution(n) ==
    \/ Start(n) \/ Unprepared(n) \/ Unresolved(n) \/ Request(n) \/ Reply(n)
    \/ Complete(n) \/ OtherTool(n) \/ Returned(n) \/ Fail(n) \/ Abort(n)
    \/ \E c \in Child : Schedule(n, c) \/ Wait(n, c) \/ \E m \in 1 .. Budget : Spawn(n, c, m)
    \/ Suspend(n) \/ Terminated(n)

Sweep == \E c \in Child : TerminateChild(c) \/ FinishChild(c)

Recovery == RecoverRuns \/ (\E c \in Child : Reconcile(c)) \/ Startup

DelegNext ==
    \/ \E n \in Node : Execution(n) \/ CancelRun(n)
    \/ \E c \in Child : TerminateSubtree(c, "CANCELLED") \/ TerminateSubtree(c, "TIMED_OUT")
    \/ Sweep \/ Crash \/ Recovery

\* The event loop takes callbacks in order and every child has a deadline, after
\* which the timer finds it; a crashed Host is started again.
DelegSpec ==
    /\ DelegInit /\ [][DelegNext]_delegVars
    /\ \A n \in Node : SF_delegVars(Execution(n))
    /\ \A c \in Child : SF_delegVars(TerminateSubtree(c, "TIMED_OUT"))
    /\ WF_delegVars(Sweep) /\ WF_delegVars(Recovery)

-----------------------------------------------------------------------------
RunStatus == {"ABSENT", "CREATED", "RUNNING"} \cup TerminalRun
DelegationStatus == {"NONE"} \cup ActiveDelegation \cup TerminalDelegation

ExecutionState == {"idle", "new", "starting", "request", "tool", "suspending", "leaving"} \cup Sync

LedgerTypeOK ==
    /\ run \in [Node -> RunStatus]
    /\ parent \in [Node -> Node \cup {NoNode}]
    /\ above \in [Node -> SUBSET Node]
    /\ max \in [Node -> Nat] /\ spent \in [Node -> Nat] /\ used \in [Node -> Nat]
    /\ delegated \in [Node -> Nat] /\ charged \in [Node -> Nat] /\ results \in [Node -> Nat]
    /\ late \in [Node -> BOOLEAN] /\ released \in [Node -> BOOLEAN] /\ wait \in [Node -> BOOLEAN]
    /\ deleg \in [Node -> DelegationStatus]
    /\ delivery \in [Node -> {"NONE", "PENDING", "DELIVERED"}]

MemoryTypeOK ==
    /\ exec \in [Node -> ExecutionState]
    /\ abort \in [Node -> BOOLEAN] /\ pending \in [Node -> BOOLEAN]
    /\ sweep \in [todo : SUBSET Child, all : SUBSET Child, now : Child \cup {NoNode},
                  as : {"CANCELLED", "TIMED_OUT"}]
    /\ host \in {"UP", "DOWN", "RECOVERING"}
    /\ downs \in Nat

\* The rows have the types of their columns, the memory of the Host its shape.
TypeOK == LedgerTypeOK /\ MemoryTypeOK

\* The rows of a delegation never contradict each other: it is terminal exactly
\* when its reservation is released and only after its Run ended, a wait has a
\* pending delivery, and a delivered result was recorded exactly once.
RecordsAgree ==
    \A c \in Child :
        /\ deleg[c] \in TerminalDelegation <=> released[c]
        /\ deleg[c] \in TerminalDelegation => run[c] \in TerminalRun
        /\ wait[c] <=> delivery[c] = "PENDING"
        /\ wait[c] => deleg[c] = "WAITING"
        /\ results[c] = IF delivery[c] = "DELIVERED" THEN 1 ELSE 0

\* A parent is charged for every child once: what its envelope holds as
\* delegated is the sum of the charges of its children that ended, whoever
\* completed them, how often, and whatever was restarted in between.
ChargesAgree ==
    \A p \in Node : delegated[p] = SumOver(charged, {c \in Children(p) : released[c]})

\* Children never hold more than their parent has: the reservations of the
\* active children fit into the budget of the parent.
ReservationsFit == \A p \in Node : SumOver(max, Reserved(p)) <= max[p]

\* A parent goes on only when the result it waits for is durable.
WaitingParentRests ==
    \A c \in Child :
        wait[c] => exec[parent[c]] \notin {"ready", "request", "acting", "completing", "tool"}

\* A delegation that ended is final: its outcome, its charge, its delivery and
\* its Run stay as they are, although executions, timers and recoveries that
\* know nothing of each other complete it again.
EndedForGood ==
    [][\A c \in Child : deleg[c] \in TerminalDelegation =>
           /\ deleg'[c] = deleg[c] /\ charged'[c] = charged[c] /\ delivery'[c] = delivery[c]
           /\ run'[c] = run[c] /\ wait'[c] = wait[c]]_delegVars

\* Every wait is answered, also when the execution of the child never reports
\* back, when it is cancelled, and when the Host dies at any point.
WaitAnswered == \A c \in Child : wait[c] ~> ~wait[c]

\* Every delegation ends and gives its reservation back.
ReservationsEnd == \A c \in Child : (deleg[c] \in ActiveDelegation) ~> released[c]

\* What a parent was charged for a child that rests is the usage of the child
\* itself and what the child was charged for its own children.  Refuted: an
\* aborted execution writes its usage afterwards (README, Findings).
ChargedObserved ==
    \A c \in Child : released[c] /\ exec[c] = "idle" => charged[c] = EffectiveUsage(c)

\* Budgets: every charge is made once, and what is reserved and charged fits
\* into the envelope of the parent.
BudgetsAgree == ChargesAgree /\ ReservationsFit

\* A tree of delegations: its rows never contradict each other, and no parent is
\* charged twice or promised more than it has.
DelegationAgrees == RecordsAgree /\ BudgetsAgree

\* Every wait for a child is answered and every reservation is given back.
ParentsProceed == WaitAnswered /\ ReservationsEnd
=============================================================================
