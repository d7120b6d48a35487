-------------------------- MODULE DelegationProofs --------------------------
(***************************************************************************)
(* Proofs about delegated Runs, for trees of any size, any budget and any  *)
(* number of crashes.  RecordsAgree and WaitingParentRests are not         *)
(* inductive: that a completion finds a wait and its delivery in step, and *)
(* that nobody resumes a parent too early, rests on where the executions   *)
(* stand, on what a pending resume means and on the single thread.         *)
(***************************************************************************)
EXTENDS Delegation, FiniteSetTheorems, TLAPS

\* A row exists before others refer to it.
RowsPresent ==
    /\ \A c \in Child : run[c] = "ABSENT" => deleg[c] = "NONE"
    /\ \A c \in Child : deleg[c] # "NONE" => parent[c] \in Node
    /\ \A c \in Child : parent[c] \in Node => run[parent[c]] # "ABSENT"
    /\ \A n \in Node : exec[n] # "idle" => run[n] # "ABSENT"
    /\ \A c \in sweep.todo : run[c] # "ABSENT"

\* A delivery is recorded with the end of its delegation.
DeliveredEnded == \A c \in Child : delivery[c] = "DELIVERED" => deleg[c] \in TerminalDelegation

\* What the single thread guarantees: nothing executes in a Host that is down,
\* no synchronous piece of an execution runs beside a sweep, and nobody ends a
\* Run while its reply is acted on.
OneThread ==
    /\ host # "UP" => \A n \in Node : exec[n] = "idle" /\ ~pending[n]
    /\ sweep # NoSweep => \A n \in Node : exec[n] \notin Sync
    /\ \A n \in Node : exec[n] \in {"acting", "completing"} => run[n] \notin TerminalRun

\* Where the execution of a parent stands that waits for a child.
Resting == {"suspending", "failing", "leaving", "idle"}

\* A parent waits for one child at a time and is not resumed before its result.
OneWait ==
    /\ \A c \in Child : wait[c] => exec[parent[c]] \in Resting /\ ~pending[parent[c]]
    /\ \A c, d \in Child : wait[c] /\ wait[d] /\ parent[c] = parent[d] => c = d
    /\ \A n \in Node : pending[n] => exec[n] \in Resting \ {"idle"}

DelegInv == TypeOK /\ RecordsAgree /\ RowsPresent /\ DeliveredEnded /\ OneThread /\ OneWait

-----------------------------------------------------------------------------
(* What a step does to the rows: it moves Runs forward and leaves the       *)
(* delegations alone, or it is one of the four writes to a delegation.      *)

delegationRows == <<parent, max, delegated, deleg, charged, released, wait, delivery, results>>

RunsProgress ==
    \A n \in Node : /\ run[n] \in TerminalRun => run'[n] = run[n]
                    /\ run[n] = "ABSENT" <=> run'[n] = "ABSENT"

RunStep == RunsProgress /\ UNCHANGED delegationRows

ScheduleStep(c) ==
    /\ deleg[c] = "CREATED"
    /\ deleg' = [deleg EXCEPT ![c] = "RUNNING"]
    /\ UNCHANGED <<run, parent, max, delegated, charged, released, wait, delivery, results>>

\* Every step of the Host is one of five writes to the rows of the delegations.
LEMMA LedgerStep ==
    ASSUME LedgerTypeOK, MemoryTypeOK, RowsPresent, OneThread, [DelegNext]_delegVars
    PROVE  \/ RunStep
           \/ \E p \in Node, c \in Child, m \in Nat : exec[p] = "acting" /\ CreateDelegatedRun(p, c, m)
           \/ \E p \in Node, c \in Child : exec[p] = "acting" /\ parent[c] = p /\ MarkWaiting(c)
           \/ \E n \in Node : CompleteChild(n)
           \/ \E c \in Child : ScheduleStep(c)
<1> USE DEF RunStep, RunsProgress, delegationRows, LedgerTypeOK, MemoryTypeOK, RunStatus, TerminalRun
<1>1. ASSUME NEW n \in Node, Start(n) PROVE RunStep
  BY <1>1 DEF Start, ledger
<1>2. ASSUME NEW n \in Node, Unprepared(n) PROVE RunStep
  BY <1>2 DEF Unprepared, RowsPresent
<1>3. ASSUME NEW n \in Node, Unresolved(n) \/ OtherTool(n) \/ Returned(n) PROVE RunStep
  BY <1>3 DEF Unresolved, OtherTool, Returned, ledger
<1>4. ASSUME NEW n \in Node, Request(n) PROVE RunStep
  BY <1>4 DEF Request, ledger
<1>5. ASSUME NEW n \in Node, Reply(n) PROVE RunStep
  BY <1>5 DEF Reply, ledger
<1>6. ASSUME NEW n \in Node, Complete(n) PROVE RunStep
  BY <1>6 DEF Complete, RowsPresent, OneThread
<1>7. ASSUME NEW n \in Node, Fail(n) PROVE RunStep
  BY <1>7 DEF Fail, RowsPresent, ledger
<1>8. ASSUME NEW n \in Node, Abort(n) PROVE RunStep
  BY <1>8 DEF Abort, RowsPresent
<1>9. ASSUME NEW n \in Node, Suspend(n) PROVE RunStep
  BY <1>9 DEF Suspend
<1>10. ASSUME NEW n \in Node, CancelRun(n) PROVE RunStep
  BY <1>10 DEF CancelRun
<1>11. ASSUME NEW c \in Child, NEW as, TerminateSubtree(c, as) PROVE RunStep
  BY <1>11 DEF TerminateSubtree, ledger
<1>12. ASSUME NEW c \in Child, TerminateChild(c) PROVE RunStep
  BY <1>12 DEF TerminateChild, RowsPresent, Child
<1>13. ASSUME Crash \/ Startup \/ UNCHANGED delegVars PROVE RunStep
  BY <1>13 DEF Crash, Startup, delegVars, ledger
<1>14. ASSUME RecoverRuns PROVE RunStep
  BY <1>14 DEF RecoverRuns
<1>15. ASSUME NEW p \in Node, NEW c \in Child, Wait(p, c)
       PROVE  RunStep \/ (exec[p] = "acting" /\ parent[c] = p /\ MarkWaiting(c))
  BY <1>15 DEF Wait, ledger
<1>16. ASSUME NEW n \in Node, Terminated(n) PROVE CompleteChild(n) \/ RunStep
  BY <1>16 DEF Terminated, ledger
<1>17. ASSUME NEW p \in Node, NEW c \in Child, Schedule(p, c) PROVE ScheduleStep(c)
  BY <1>17 DEF Schedule, ScheduleStep
<1>18. ASSUME NEW p \in Node, NEW c \in Child, NEW m \in 1 .. Budget, Spawn(p, c, m)
       PROVE  m \in Nat /\ exec[p] = "acting" /\ CreateDelegatedRun(p, c, m)
  BY <1>18, DelegationAssumption DEF Spawn
<1>19. ASSUME NEW c \in Child, FinishChild(c) \/ Reconcile(c) PROVE c \in Node /\ CompleteChild(c)
  BY <1>19 DEF FinishChild, Reconcile, Child
<1>20. CASE \E n \in Node : Execution(n)
  BY <1>20, <1>1, <1>2, <1>3, <1>4, <1>5, <1>6, <1>7, <1>8, <1>9, <1>15, <1>16, <1>17, <1>18
  DEF Execution
<1>21. CASE Sweep \/ Recovery
  BY <1>21, <1>12, <1>13, <1>14, <1>19 DEF Sweep, Recovery
<1> QED
  BY <1>10, <1>11, <1>13, <1>20, <1>21 DEF DelegNext

\* A completion that writes something releases the reservation of its child and
\* touches the rows of no other delegation.
LEMMA Completion ==
    ASSUME LedgerTypeOK, NEW n \in Node, CompleteChild(n), ~UNCHANGED ledger
    PROVE  /\ n \in Child /\ deleg[n] # "NONE" /\ run[n] \in TerminalRun
           /\ UNCHANGED <<run, parent>>
           /\ released'[n] /\ (released[n] => charged' = charged)
           /\ \A m \in Node \ {n} : released'[m] = released[m] /\ charged'[m] = charged[m]
           /\ deleg' = [deleg EXCEPT ![n] = IF @ \in ActiveDelegation THEN TerminalStatus(n) ELSE @]
           /\ delivery' = [delivery EXCEPT ![n] = IF @ = "PENDING" THEN "DELIVERED" ELSE @]
           /\ results' = [results EXCEPT ![n] = IF delivery[n] = "PENDING" THEN @ + 1 ELSE @]
           /\ wait' = [wait EXCEPT ![n] = IF delivery[n] = "PENDING" THEN FALSE ELSE @]
<1>1. /\ n \in Child /\ deleg[n] # "NONE" /\ run[n] \in TerminalRun
      /\ UNCHANGED <<run, parent>>
      /\ ReleaseReservation(n)
      /\ deleg' = [deleg EXCEPT ![n] = IF @ \in ActiveDelegation THEN TerminalStatus(n) ELSE @]
      /\ delivery' = [delivery EXCEPT ![n] = IF @ = "PENDING" THEN "DELIVERED" ELSE @]
      /\ results' = [results EXCEPT ![n] = IF delivery[n] = "PENDING" THEN @ + 1 ELSE @]
      /\ wait' = [wait EXCEPT ![n] = IF delivery[n] = "PENDING" THEN FALSE ELSE @]
  BY DEF CompleteChild
<1>2. /\ released'[n] /\ (released[n] => charged' = charged)
      /\ \A m \in Node \ {n} : released'[m] = released[m] /\ charged'[m] = charged[m]
  BY <1>1 DEF ReleaseReservation, LedgerTypeOK
<1> QED
  BY <1>1, <1>2

\* The rows of a delegation stay consistent through every kind of write.
LEMMA RowsStep ==
    ASSUME DelegInv, [DelegNext]_delegVars
    PROVE  RecordsAgree' /\ DeliveredEnded'
<1> USE DEF RecordsAgree, DeliveredEnded, TerminalRun, TerminalDelegation, ActiveDelegation
<1> USE DEF DelegInv, TypeOK
<1>1. CASE RunStep
  BY <1>1 DEF RunStep, RunsProgress, delegationRows, LedgerTypeOK, Child
<1>2. ASSUME NEW p \in Node, NEW c \in Child, NEW m \in Nat, CreateDelegatedRun(p, c, m)
      PROVE  RecordsAgree' /\ DeliveredEnded'
  BY <1>2 DEF CreateDelegatedRun, RowsPresent, LedgerTypeOK, Child
<1>3. ASSUME NEW c \in Child, MarkWaiting(c)
      PROVE  RecordsAgree' /\ DeliveredEnded'
  BY <1>3 DEF MarkWaiting, LedgerTypeOK, Child
<1>4. ASSUME NEW n \in Node, CompleteChild(n)
      PROVE  RecordsAgree' /\ DeliveredEnded'
  <2>1. CASE UNCHANGED ledger
    BY <2>1 DEF ledger
  <2>2. CASE ~UNCHANGED ledger
    <3> HIDE DEF RecordsAgree, DeliveredEnded, TerminalRun, TerminalDelegation, ActiveDelegation
    <3>1. /\ n \in Child /\ deleg[n] # "NONE" /\ run[n] \in TerminalRun
          /\ UNCHANGED <<run, parent>>
          /\ released'[n] /\ \A m \in Node \ {n} : released'[m] = released[m]
          /\ deleg' = [deleg EXCEPT ![n] = IF @ \in ActiveDelegation THEN TerminalStatus(n) ELSE @]
          /\ delivery' = [delivery EXCEPT ![n] = IF @ = "PENDING" THEN "DELIVERED" ELSE @]
          /\ results' = [results EXCEPT ![n] = IF delivery[n] = "PENDING" THEN @ + 1 ELSE @]
          /\ wait' = [wait EXCEPT ![n] = IF delivery[n] = "PENDING" THEN FALSE ELSE @]
      BY <1>4, <2>2, Completion
    <3> USE DEF RecordsAgree, DeliveredEnded, TerminalRun, TerminalDelegation, ActiveDelegation
    <3>2. TerminalStatus(n) \in TerminalDelegation
      BY DEF TerminalStatus
    <3>3. deleg'[n] \in TerminalDelegation
      BY <3>1, <3>2 DEF DelegationStatus, LedgerTypeOK
    <3> QED
      BY <3>1, <3>3 DEF LedgerTypeOK, Child
  <2> QED
    BY <2>1, <2>2
<1>5. ASSUME NEW c \in Child, ScheduleStep(c)
      PROVE  RecordsAgree' /\ DeliveredEnded'
  BY <1>5 DEF ScheduleStep, LedgerTypeOK, Child
<1> QED
  BY <1>1, <1>2, <1>3, <1>4, <1>5, LedgerStep

\* A delegation that ended is not written again, by whatever completes it.
LEMMA EndedStep ==
    ASSUME DelegInv, [DelegNext]_delegVars,
           NEW e \in Child, deleg[e] \in TerminalDelegation
    PROVE  /\ deleg'[e] = deleg[e] /\ charged'[e] = charged[e] /\ delivery'[e] = delivery[e]
           /\ run'[e] = run[e] /\ wait'[e] = wait[e]
<1> DEFINE Kept == /\ deleg'[e] = deleg[e] /\ charged'[e] = charged[e] /\ delivery'[e] = delivery[e]
                   /\ run'[e] = run[e] /\ wait'[e] = wait[e]
<1>0. /\ run[e] \in TerminalRun /\ released[e] /\ ~wait[e] /\ delivery[e] # "PENDING"
      /\ deleg[e] \notin ActiveDelegation /\ deleg[e] # "CREATED" /\ run[e] # "ABSENT" /\ e \in Node
  BY DEF DelegInv, RecordsAgree, LedgerTypeOK, TerminalDelegation, ActiveDelegation, TerminalRun, Child
<1> USE DEF DelegInv, TypeOK
<1>1. CASE RunStep
  BY <1>0, <1>1 DEF RunStep, RunsProgress, delegationRows, LedgerTypeOK, Child
<1>2. ASSUME NEW p \in Node, NEW c \in Child, NEW m \in Nat, CreateDelegatedRun(p, c, m)
      PROVE  Kept
  BY <1>0, <1>2 DEF CreateDelegatedRun, LedgerTypeOK, Child
<1>3. ASSUME NEW c \in Child, MarkWaiting(c)
      PROVE  Kept
  BY <1>0, <1>3 DEF MarkWaiting, LedgerTypeOK, Child
<1>4. ASSUME NEW n \in Node, CompleteChild(n)
      PROVE  Kept
  <2>1. CASE UNCHANGED ledger
    BY <2>1 DEF ledger
  <2>2. CASE ~UNCHANGED ledger
    <3>1. /\ UNCHANGED run
          /\ released[n] => charged' = charged
          /\ \A m \in Node \ {n} : charged'[m] = charged[m]
          /\ deleg' = [deleg EXCEPT ![n] = IF @ \in ActiveDelegation THEN TerminalStatus(n) ELSE @]
          /\ delivery' = [delivery EXCEPT ![n] = IF @ = "PENDING" THEN "DELIVERED" ELSE @]
          /\ wait' = [wait EXCEPT ![n] = IF delivery[n] = "PENDING" THEN FALSE ELSE @]
      BY <1>4, <2>2, Completion
    <3>2. CASE n = e
      BY <1>0, <3>1, <3>2 DEF LedgerTypeOK
    <3>3. CASE n # e
      BY <1>0, <3>1, <3>3 DEF LedgerTypeOK
    <3> QED
      BY <3>2, <3>3
  <2> QED
    BY <2>1, <2>2
<1>5. ASSUME NEW c \in Child, ScheduleStep(c)
      PROVE  Kept
  BY <1>0, <1>5 DEF ScheduleStep, LedgerTypeOK, Child
<1> QED
  BY <1>1, <1>2, <1>3, <1>4, <1>5, LedgerStep

-----------------------------------------------------------------------------
(* Types.                                                                   *)

\* A completion keeps the types of the rows.
LEMMA CompletionTypes ==
    ASSUME LedgerTypeOK, NEW n \in Node, CompleteChild(n)
    PROVE  LedgerTypeOK'
<1> USE DEF LedgerTypeOK
<1>1. CASE UNCHANGED ledger
  BY <1>1 DEF ledger
<1>2. CASE ~UNCHANGED ledger
  <2>1. /\ UNCHANGED <<run, parent, above, max, spent, used, late>>
        /\ ReleaseReservation(n)
        /\ deleg' = [deleg EXCEPT ![n] = IF @ \in ActiveDelegation THEN TerminalStatus(n) ELSE @]
        /\ delivery' = [delivery EXCEPT ![n] = IF @ = "PENDING" THEN "DELIVERED" ELSE @]
        /\ results' = [results EXCEPT ![n] = IF delivery[n] = "PENDING" THEN @ + 1 ELSE @]
        /\ wait' = [wait EXCEPT ![n] = IF delivery[n] = "PENDING" THEN FALSE ELSE @]
    BY <1>2 DEF CompleteChild
  <2>2. charged' \in [Node -> Nat] /\ delegated' \in [Node -> Nat] /\ released' \in [Node -> BOOLEAN]
    <3>1. EffectiveUsage(n) \in Nat
      BY DEF EffectiveUsage
    <3>2. CASE released[n]
      BY <2>1, <3>2 DEF ReleaseReservation
    <3>3. CASE ~released[n]
      <4>1. /\ charged' = [charged EXCEPT ![n] = EffectiveUsage(n)]
            /\ delegated' = [delegated EXCEPT ![parent[n]] = @ + EffectiveUsage(n)]
            /\ released' = [released EXCEPT ![n] = TRUE]
        BY <2>1, <3>3 DEF ReleaseReservation
      <4>2. \A m \in Node : delegated'[m] \in Nat
        BY <3>1, <4>1
      <4> QED
        BY <3>1, <4>1, <4>2
    <3> QED
      BY <3>2, <3>3
  <2>3. TerminalStatus(n) \in DelegationStatus
    BY DEF TerminalStatus, DelegationStatus, TerminalDelegation
  <2>4. deleg' \in [Node -> DelegationStatus] /\ wait' \in [Node -> BOOLEAN]
    BY <2>1, <2>3
  <2>5. results' \in [Node -> Nat] /\ delivery' \in [Node -> {"NONE", "PENDING", "DELIVERED"}]
    BY <2>1
  <2> QED
    BY <2>1, <2>2, <2>4, <2>5
<1> QED
  BY <1>1, <1>2

\* Every step keeps the types of the rows.
LEMMA LedgerTypeStep ==
    ASSUME TypeOK, [DelegNext]_delegVars
    PROVE  LedgerTypeOK'
<1> USE DEF TypeOK
<1>1. ASSUME NEW n \in Node, Terminated(n) PROVE LedgerTypeOK'
  <2>1. CASE UNCHANGED ledger
    BY <2>1 DEF ledger, LedgerTypeOK
  <2> QED
    BY <1>1, <2>1, CompletionTypes DEF Terminated
<1>2. ASSUME NEW c \in Child, FinishChild(c) \/ Reconcile(c) PROVE LedgerTypeOK'
  BY <1>2, CompletionTypes DEF FinishChild, Reconcile, Child
<1> USE DEF LedgerTypeOK, RunStatus, TerminalRun, DelegationStatus, ActiveDelegation
<1>3. ASSUME NEW n \in Node, Start(n) PROVE LedgerTypeOK'
  BY <1>3 DEF Start, ledger
<1>4. ASSUME NEW n \in Node, Unprepared(n) PROVE LedgerTypeOK'
  BY <1>4 DEF Unprepared, UpdateUsage
<1>5. ASSUME NEW n \in Node, Unresolved(n) \/ OtherTool(n) \/ Returned(n) PROVE LedgerTypeOK'
  BY <1>5 DEF Unresolved, OtherTool, Returned, ledger
<1>6. ASSUME NEW n \in Node, Request(n) PROVE LedgerTypeOK'
  BY <1>6 DEF Request, ledger
<1>7. ASSUME NEW n \in Node, Reply(n) PROVE LedgerTypeOK'
  <2>1. CASE UNCHANGED ledger
    BY <2>1 DEF ledger
  <2>2. CASE /\ UpdateUsage(n, spent[n], FALSE)
             /\ UNCHANGED <<run, parent, above, max, spent, delegated, deleg, charged, released,
                            wait, delivery, results>>
    BY <2>2 DEF UpdateUsage
  <2> QED
    BY <1>7, <2>1, <2>2 DEF Reply
<1>8. ASSUME NEW n \in Node, Complete(n) PROVE LedgerTypeOK'
  BY <1>8 DEF Complete
<1>9. ASSUME NEW n \in Node, Fail(n) PROVE LedgerTypeOK'
  BY <1>9 DEF Fail, UpdateUsage, ledger
<1>10. ASSUME NEW n \in Node, Abort(n) PROVE LedgerTypeOK'
  BY <1>10 DEF Abort, UpdateUsage
<1>11. ASSUME NEW n \in Node, Suspend(n) PROVE LedgerTypeOK'
  BY <1>11 DEF Suspend, UpdateUsage
<1>12. ASSUME NEW n \in Node, CancelRun(n) PROVE LedgerTypeOK'
  BY <1>12 DEF CancelRun
<1>13. ASSUME NEW c \in Child, NEW as, TerminateSubtree(c, as) PROVE LedgerTypeOK'
  BY <1>13 DEF TerminateSubtree, ledger
<1>14. ASSUME NEW c \in Child, TerminateChild(c) PROVE LedgerTypeOK'
  BY <1>14 DEF TerminateChild, Child
<1>15. ASSUME Crash \/ Startup \/ UNCHANGED delegVars PROVE LedgerTypeOK'
  BY <1>15 DEF Crash, Startup, ledger, delegVars
<1>16. ASSUME RecoverRuns PROVE LedgerTypeOK'
  BY <1>16 DEF RecoverRuns
<1>17. ASSUME NEW p \in Node, NEW c \in Child, Wait(p, c) PROVE LedgerTypeOK'
  <2>1. CASE UNCHANGED ledger
    BY <2>1 DEF ledger
  <2>2. CASE MarkWaiting(c)
    BY <2>2 DEF MarkWaiting, Child
  <2> QED
    BY <1>17, <2>1, <2>2 DEF Wait
<1>18. ASSUME NEW p \in Node, NEW c \in Child, Schedule(p, c) PROVE LedgerTypeOK'
  BY <1>18 DEF Schedule, Child
<1>19. ASSUME NEW p \in Node, NEW c \in Child, NEW m \in 1 .. Budget, Spawn(p, c, m)
      PROVE  LedgerTypeOK'
  BY <1>19, DelegationAssumption DEF Spawn, CreateDelegatedRun, Child
<1> QED
  BY <1>1, <1>2, <1>3, <1>4, <1>5, <1>6, <1>7, <1>8, <1>9, <1>10, <1>11, <1>12, <1>13, <1>14, <1>15, <1>16, <1>17, <1>18, <1>19
  DEF DelegNext, Execution, Sweep, Recovery

\* The moves of executions keep the types of the memory.
LEMMA MoveTypes ==
    ASSUME MemoryTypeOK, NEW n \in Node, NEW S
    PROVE  /\ \A target \in ExecutionState : Goto(n, target) => MemoryTypeOK'
           /\ Leave(n, S) => MemoryTypeOK'
           /\ Resume(S) => exec' \in [Node -> ExecutionState] /\ pending' \in [Node -> BOOLEAN]
<1> USE DEF MemoryTypeOK
<1>1. ASSUME NEW target \in ExecutionState, Goto(n, target) PROVE MemoryTypeOK'
  BY <1>1 DEF Goto
<1>2. ASSUME Leave(n, S) PROVE MemoryTypeOK'
  <2>1. exec' \in [Node -> ExecutionState]
    BY <1>2 DEF Leave, ExecutionState
  <2>2. pending' \in [Node -> BOOLEAN]
    BY <1>2, Zenon DEF Leave
  <2>3. abort' \in [Node -> BOOLEAN]
    BY <1>2 DEF Leave
  <2> QED
    BY <1>2, <2>1, <2>2, <2>3 DEF Leave
<1>3. ASSUME Resume(S) PROVE exec' \in [Node -> ExecutionState] /\ pending' \in [Node -> BOOLEAN]
  <2>1. exec' \in [Node -> ExecutionState]
    BY <1>3 DEF Resume, ExecutionState
  <2>2. pending' \in [Node -> BOOLEAN]
    BY <1>3, Zenon DEF Resume
  <2> QED
    BY <2>1, <2>2
<1> QED
  BY <1>1, <1>2, <1>3

\* Every step keeps the types of the memory.
LEMMA MemoryTypeStep ==
    ASSUME TypeOK, [DelegNext]_delegVars
    PROVE  MemoryTypeOK'
<1> USE DEF TypeOK
<1>1. ASSUME NEW n \in Node, Start(n) \/ Unprepared(n) \/ Unresolved(n) PROVE MemoryTypeOK'
  BY <1>1, MoveTypes DEF Start, Unprepared, Unresolved, ExecutionState, Sync
<1>2. ASSUME NEW n \in Node, Request(n) PROVE MemoryTypeOK'
  BY <1>2, MoveTypes DEF Request, ExecutionState, Sync
<1>3. ASSUME NEW n \in Node, Reply(n) \/ Returned(n) PROVE MemoryTypeOK'
  BY <1>3, MoveTypes DEF Reply, Returned, ExecutionState, Sync
<1>4. ASSUME NEW n \in Node, Complete(n) \/ OtherTool(n) \/ Fail(n) \/ Abort(n) PROVE MemoryTypeOK'
  BY <1>4, MoveTypes DEF Complete, OtherTool, Fail, Abort, ExecutionState, Sync
<1>5. ASSUME NEW p \in Node, NEW c \in Child, Wait(p, c) PROVE MemoryTypeOK'
  BY <1>5, MoveTypes DEF Wait, ExecutionState, Sync
<1>6. ASSUME NEW n \in Node, Suspend(n) \/ Terminated(n) PROVE MemoryTypeOK'
  BY <1>6, MoveTypes DEF Suspend, Terminated, ExecutionState, Sync
<1>7. ASSUME NEW p \in Node, NEW c \in Child, Schedule(p, c) PROVE MemoryTypeOK'
  BY <1>7 DEF Schedule, MemoryTypeOK, ExecutionState, Sync
<1>8. ASSUME NEW p \in Node, NEW c \in Child, NEW m, Spawn(p, c, m) PROVE MemoryTypeOK'
  BY <1>8 DEF Spawn, MemoryTypeOK, ExecutionState, Sync
<1>9. ASSUME NEW S, AbortAll(S) PROVE abort' \in [Node -> BOOLEAN]
  BY <1>9, Zenon DEF AbortAll, MemoryTypeOK
<1>10. ASSUME NEW n \in Node, CancelRun(n) PROVE MemoryTypeOK'
  <2>1. Active(Descendants(n)) \subseteq Child
    BY DEF Active, Descendants
  <2> QED
    BY <1>9, <1>10, <2>1 DEF CancelRun, MemoryTypeOK
<1>11. ASSUME NEW c \in Child, NEW as \in {"CANCELLED", "TIMED_OUT"}, TerminateSubtree(c, as)
       PROVE  MemoryTypeOK'
  <2>1. Active({c} \cup Descendants(c)) \subseteq Child
    BY DEF Active, Descendants
  <2> QED
    BY <1>9, <1>11, <2>1 DEF TerminateSubtree, MemoryTypeOK
<1>12. ASSUME NEW c \in Child, TerminateChild(c) PROVE MemoryTypeOK'
  BY <1>12 DEF TerminateChild, MemoryTypeOK
<1>13. ASSUME NEW c \in Child, FinishChild(c) PROVE MemoryTypeOK'
  <2>1. exec' \in [Node -> ExecutionState] /\ pending' \in [Node -> BOOLEAN]
    BY <1>13, MoveTypes DEF FinishChild, Child
  <2>2. sweep' \in [todo : SUBSET Child, all : SUBSET Child, now : Child \cup {NoNode},
                    as : {"CANCELLED", "TIMED_OUT"}]
    BY <1>13 DEF FinishChild, MemoryTypeOK, NoSweep
  <2> QED
    BY <1>13, <2>1, <2>2 DEF FinishChild, MemoryTypeOK
<1>14. ASSUME Crash PROVE MemoryTypeOK'
  BY <1>14 DEF Crash, MemoryTypeOK, NoSweep, ExecutionState
<1>15. ASSUME RecoverRuns \/ (\E c \in Child : Reconcile(c)) \/ UNCHANGED delegVars
       PROVE  MemoryTypeOK'
  BY <1>15 DEF RecoverRuns, Reconcile, delegVars, memory, MemoryTypeOK
<1>16. ASSUME Startup PROVE MemoryTypeOK'
  BY <1>16 DEF Startup, MemoryTypeOK, ExecutionState
<1> QED
  BY <1>1, <1>2, <1>3, <1>4, <1>5, <1>6, <1>7, <1>8, <1>10, <1>11, <1>12, <1>13, <1>14, <1>15, <1>16
  DEF DelegNext, Execution, Sweep, Recovery

-----------------------------------------------------------------------------
(* The executions and the single thread.                                    *)

\* No row of a Run disappears, and a parent is a Run that exists.
LEMMA RunsStay ==
    ASSUME DelegInv, [DelegNext]_delegVars
    PROVE  /\ \A n \in Node : run[n] # "ABSENT" => run'[n] # "ABSENT"
           /\ \A c \in Child : run'[c] = "ABSENT" => deleg'[c] = "NONE"
           /\ \A c \in Child : deleg'[c] # "NONE" => parent'[c] \in Node
           /\ \A c \in Child : parent'[c] \in Node => run'[parent'[c]] # "ABSENT"
<1> DEFINE Stay == /\ \A n \in Node : run[n] # "ABSENT" => run'[n] # "ABSENT"
                   /\ \A c \in Child : run'[c] = "ABSENT" => deleg'[c] = "NONE"
                   /\ \A c \in Child : deleg'[c] # "NONE" => parent'[c] \in Node
                   /\ \A c \in Child : parent'[c] \in Node => run'[parent'[c]] # "ABSENT"
<1> USE DEF DelegInv, TypeOK
<1>1. CASE RunStep
  BY <1>1 DEF RunStep, RunsProgress, delegationRows, RowsPresent, Child
<1>2. ASSUME NEW p \in Node, NEW c \in Child, NEW m \in Nat,
             exec[p] = "acting", CreateDelegatedRun(p, c, m)
      PROVE  Stay
  BY <1>2 DEF CreateDelegatedRun, RowsPresent, LedgerTypeOK, Child
<1>3. ASSUME NEW c \in Child, MarkWaiting(c)
      PROVE  Stay
  BY <1>3 DEF MarkWaiting, RowsPresent, LedgerTypeOK, ActiveDelegation, Child
<1>4. ASSUME NEW n \in Node, CompleteChild(n)
      PROVE  Stay
  <2>1. CASE UNCHANGED ledger
    BY <2>1 DEF ledger, RowsPresent
  <2>2. CASE ~UNCHANGED ledger
    <3>1. /\ n \in Child /\ deleg[n] # "NONE" /\ UNCHANGED <<run, parent>>
          /\ deleg' = [deleg EXCEPT ![n] = IF @ \in ActiveDelegation THEN TerminalStatus(n) ELSE @]
      BY <1>4, <2>2, Completion
    <3> QED
      BY <3>1 DEF RowsPresent, LedgerTypeOK, Child
  <2> QED
    BY <2>1, <2>2
<1>5. ASSUME NEW c \in Child, ScheduleStep(c)
      PROVE  Stay
  BY <1>5 DEF ScheduleStep, RowsPresent, LedgerTypeOK, Child
<1> QED
  BY <1>1, <1>2, <1>3, <1>4, <1>5, LedgerStep

\* Who leaves an idle execution: a parent that is resumed, a new child, and the
\* Runs that are queued at startup; all of them exist.
LEMMA PresentStep ==
    ASSUME DelegInv, [DelegNext]_delegVars
    PROVE  RowsPresent'
<1> DEFINE Awake == \A n \in Node : exec'[n] # "idle" => exec[n] # "idle" \/ run'[n] # "ABSENT"
           Swept == \A c \in sweep'.todo : c \in Node /\ (c \in sweep.todo \/ run'[c] # "ABSENT")
<1> USE DEF DelegInv, TypeOK
<1>1. ASSUME NEW n \in Node, \/ Start(n) \/ Unprepared(n) \/ Unresolved(n) \/ Request(n) \/ Reply(n)
                             \/ Complete(n) \/ OtherTool(n) \/ Returned(n) \/ Fail(n) \/ Abort(n)
                             \/ Suspend(n)
      PROVE  Awake /\ UNCHANGED sweep
  <2>1. \/ Leave(n, {})
        \/ \E target : Goto(n, target) /\ exec[n] # "idle"
    BY <1>1 DEF Start, Unprepared, Unresolved, Request, Reply, Complete, OtherTool, Returned, Fail, Abort,
               Suspend
  <2>2. exec[n] # "idle"
    BY <1>1 DEF Start, Unprepared, Unresolved, Request, Reply, Complete, OtherTool, Returned, Fail, Abort,
               Suspend
  <2> QED
    BY <2>1, <2>2 DEF Leave, Goto, MemoryTypeOK
<1>2. ASSUME NEW p \in Node, NEW c \in Child, Schedule(p, c) \/ Wait(p, c)
      PROVE  Awake /\ UNCHANGED sweep
  BY <1>2 DEF Schedule, Wait, Goto, MemoryTypeOK, Child
<1>3. ASSUME NEW p \in Node, NEW c \in Child, NEW m, Spawn(p, c, m)
      PROVE  Awake /\ UNCHANGED sweep
  BY <1>3 DEF Spawn, CreateDelegatedRun, MemoryTypeOK, LedgerTypeOK, Child
<1>4. ASSUME NEW n \in Node, ResumesParent(n) PROVE parent[n] \in Node /\ run[parent[n]] # "ABSENT"
  <2>1. n \in Child /\ delivery[n] = "PENDING"
    BY <1>4 DEF ResumesParent
  <2>2. deleg[n] = "WAITING"
    BY <2>1 DEF RecordsAgree
  <2> QED
    BY <2>1, <2>2 DEF RowsPresent
<1>5. ASSUME NEW n \in Node, Terminated(n)
      PROVE  Awake /\ UNCHANGED sweep
  <2>1. PICK S : Leave(n, S) /\ \A m \in S : m \in Node /\ run[m] # "ABSENT"
    BY <1>4, <1>5 DEF Terminated
  <2> QED
    BY <1>5, <2>1, RunsStay DEF Leave, MemoryTypeOK, Terminated
<1>6. ASSUME NEW c \in Child, FinishChild(c)
      PROVE  Awake /\ Swept
  <2>1. PICK S : Resume(S) /\ \A m \in S : m \in Node /\ run[m] # "ABSENT"
    BY <1>4, <1>6 DEF FinishChild, Child
  <2>2. Awake
    BY <2>1, RunsStay DEF Resume, MemoryTypeOK
  <2>3. sweep'.todo \subseteq sweep.todo
    BY <1>6 DEF FinishChild, NoSweep, MemoryTypeOK
  <2> QED
    BY <2>2, <2>3 DEF MemoryTypeOK, Child
<1>7. ASSUME NEW n \in Node, CancelRun(n)
      PROVE  Awake /\ Swept
  <2>1. \A c \in Active(Descendants(n)) : c \in Child /\ run[c] # "ABSENT"
    BY DEF Active, Descendants, RowsPresent, ActiveDelegation
  <2> QED
    BY <1>7, <2>1, RunsStay DEF CancelRun, Child
<1>8. ASSUME NEW c \in Child, NEW as, TerminateSubtree(c, as)
      PROVE  Awake /\ Swept
  <2>1. \A d \in Active({c} \cup Descendants(c)) : d \in Child /\ run[d] # "ABSENT"
    BY DEF Active, Descendants, RowsPresent, ActiveDelegation
  <2> QED
    BY <1>8, <2>1, RunsStay DEF TerminateSubtree, Child
<1>9. ASSUME NEW c \in Child, TerminateChild(c)
      PROVE  Awake /\ Swept
  BY <1>9 DEF TerminateChild, MemoryTypeOK, Child
<1>10. ASSUME Crash PROVE Awake /\ Swept
  BY <1>10 DEF Crash, NoSweep
<1>11. ASSUME Startup PROVE Awake /\ UNCHANGED sweep
  BY <1>11 DEF Startup, ledger
<1>12. ASSUME RecoverRuns \/ (\E c \in Child : Reconcile(c)) \/ UNCHANGED delegVars
       PROVE  Awake /\ UNCHANGED sweep
  BY <1>12 DEF RecoverRuns, Reconcile, delegVars, memory
<1>13. Awake /\ (Swept \/ UNCHANGED sweep)
  BY <1>1, <1>2, <1>3, <1>5, <1>6, <1>7, <1>8, <1>9, <1>10, <1>11, <1>12
  DEF DelegNext, Execution, Sweep, Recovery
<1>14. \A n \in Node : exec'[n] # "idle" => run'[n] # "ABSENT"
  BY <1>13, RunsStay DEF RowsPresent
<1>15. \A c \in sweep'.todo : run'[c] # "ABSENT"
  BY <1>13, RunsStay DEF RowsPresent, MemoryTypeOK, Child
<1> QED
  BY <1>14, <1>15, RunsStay DEF RowsPresent

\* The single thread: who moves needs the thread or has it already.
LEMMA ThreadStep ==
    ASSUME DelegInv, [DelegNext]_delegVars
    PROVE  OneThread'
<1> USE DEF DelegInv, TypeOK, OneThread, MemoryTypeOK
<1>0. \A n \in Node : exec[n] # "idle" => host = "UP"
  OBVIOUS
<1>1. ASSUME NEW n \in Node, Start(n) PROVE OneThread'
  BY <1>0, <1>1 DEF Start, Free, Goto, Leave, Sync, ledger
<1>2. ASSUME NEW n \in Node, Unprepared(n) PROVE OneThread'
  BY <1>0, <1>2 DEF Unprepared, Free, Goto, Leave, Sync
<1>3. ASSUME NEW n \in Node, Unresolved(n) PROVE OneThread'
  BY <1>0, <1>3 DEF Unresolved, Free, Leave, Sync, ledger
<1>4. ASSUME NEW n \in Node, Request(n) PROVE OneThread'
  BY <1>0, <1>4 DEF Request, Goto, Sync, ledger
<1>5. ASSUME NEW n \in Node, Reply(n) PROVE OneThread'
  <2>1. \/ Goto(n, "failing") \/ Goto(n, "aborting")
        \/ run[n] \notin TerminalRun /\ (Goto(n, "completing") \/ Goto(n, "acting"))
    BY <1>5 DEF Reply
  <2>2. Free /\ run' = run
    BY <1>5 DEF Reply, ledger
  <2> QED
    BY <1>0, <2>1, <2>2 DEF Free, Goto, Sync
<1>6. ASSUME NEW n \in Node, Complete(n) PROVE OneThread'
  BY <1>0, <1>6 DEF Complete, Goto, Sync, LedgerTypeOK
<1>7. ASSUME NEW n \in Node, OtherTool(n) \/ Returned(n) PROVE OneThread'
  <2>1. CASE OtherTool(n)
    BY <1>0, <2>1 DEF OtherTool, Goto, Sync, ledger
  <2>2. CASE Returned(n)
    <3>1. PICK next : Goto(n, next) /\ (next \in {"acting", "completing"} => run[n] \notin TerminalRun)
      BY <2>2 DEF Returned
    <3> QED
      BY <1>0, <2>2, <3>1 DEF Returned, Free, Goto, Sync, ledger
  <2> QED
    BY <1>7, <2>1, <2>2
<1>8. ASSUME NEW n \in Node, Fail(n) PROVE OneThread'
  BY <1>0, <1>8 DEF Fail, Goto, Sync, ledger, LedgerTypeOK
<1>9. ASSUME NEW n \in Node, Abort(n) PROVE OneThread'
  BY <1>0, <1>9 DEF Abort, Goto, Sync, LedgerTypeOK
<1>10. ASSUME NEW p \in Node, NEW c \in Child, NEW m, Spawn(p, c, m) PROVE OneThread'
  BY <1>0, <1>10 DEF Spawn, CreateDelegatedRun, Sync, LedgerTypeOK, TerminalRun
<1>11. ASSUME NEW p \in Node, NEW c \in Child, Schedule(p, c) PROVE OneThread'
  BY <1>0, <1>11 DEF Schedule, Sync
<1>12. ASSUME NEW p \in Node, NEW c \in Child, Wait(p, c) PROVE OneThread'
  BY <1>0, <1>12 DEF Wait, MarkWaiting, Goto, Sync, ledger
<1>13. ASSUME NEW n \in Node, Suspend(n) PROVE OneThread'
  BY <1>0, <1>13 DEF Suspend, Free, Goto, Leave, Sync, LedgerTypeOK
<1>14. ASSUME NEW n \in Node, CompleteChild(n) PROVE run' = run
  BY <1>14 DEF CompleteChild, ledger
<1>15. ASSUME NEW n \in Node, Terminated(n) PROVE OneThread'
  <2>1. PICK S : Leave(n, S)
    BY <1>15 DEF Terminated
  <2>2. run' = run
    BY <1>14, <1>15 DEF Terminated, ledger
  <2> QED
    BY <1>15, <2>1, <2>2 DEF Terminated, Free, Leave, Sync
<1>16. ASSUME NEW n \in Node, CancelRun(n) PROVE OneThread'
  BY <1>16 DEF CancelRun, Free, Sync
<1>17. ASSUME NEW c \in Child, NEW as, TerminateSubtree(c, as) PROVE OneThread'
  BY <1>17 DEF TerminateSubtree, Free, ledger
<1>18. ASSUME NEW c \in Child, TerminateChild(c) PROVE OneThread'
  BY <1>18 DEF TerminateChild, NoSweep, Sync
<1>19. ASSUME NEW c \in Child, FinishChild(c) PROVE OneThread'
  <2>1. sweep # NoSweep /\ run' = run
    BY <1>14, <1>19, DelegationAssumption DEF FinishChild, NoSweep, Child
  <2>2. PICK S : Resume(S)
    BY <1>19 DEF FinishChild
  <2> QED
    BY <1>19, <2>1, <2>2 DEF FinishChild, Resume, Sync
<1>20. ASSUME Crash PROVE OneThread'
  BY <1>20 DEF Crash
<1>21. ASSUME RecoverRuns PROVE OneThread'
  BY <1>21 DEF RecoverRuns
<1>22. ASSUME NEW c \in Child, Reconcile(c) PROVE OneThread'
  BY <1>14, <1>22 DEF Reconcile, memory, Child
<1>23. ASSUME Startup PROVE OneThread'
  BY <1>23 DEF Startup, Sync, ledger
<1>24. CASE UNCHANGED delegVars
  BY <1>24 DEF delegVars, ledger, memory
<1> QED
  BY <1>1, <1>2, <1>3, <1>4, <1>5, <1>6, <1>7, <1>8, <1>9, <1>10, <1>11, <1>12, <1>13, <1>15, <1>16,
     <1>17, <1>18, <1>19, <1>20, <1>21, <1>22, <1>23, <1>24
  DEF DelegNext, Execution, Sweep, Recovery

-----------------------------------------------------------------------------
(* Waiting parents.                                                         *)

\* No wait is new, and executions stay at rest or are not waited for.
Quiet ==
    /\ UNCHANGED <<wait, parent>>
    /\ \A n \in Node : exec[n] \in Resting /\ ~pending[n] => exec'[n] \in Resting /\ ~pending'[n]
    /\ \A n \in Node : pending'[n] => exec'[n] \in Resting \ {"idle"}

\* A quiet step keeps every parent that waits at rest.
LEMMA QuietStep ==
    ASSUME DelegInv, Quiet
    PROVE  OneWait'
<1>1. \A c \in Child : wait[c] => parent[c] \in Node
  BY DEF DelegInv, RecordsAgree, RowsPresent
<1> QED
  BY <1>1 DEF Quiet, DelegInv, OneWait

\* A delivered result frees the only wait of the parent, which may be resumed.
LEMMA DeliveryStep ==
    ASSUME DelegInv, NEW c \in Node, CompleteChild(c), NEW S,
           S \subseteq (IF ResumesParent(c) THEN {parent[c]} ELSE {}),
           \A n \in Node \ S : exec[n] \in Resting /\ ~pending[n] => exec'[n] \in Resting /\ ~pending'[n],
           \A n \in Node : pending'[n] => exec'[n] \in Resting \ {"idle"}
    PROVE  OneWait'
<1> USE DEF DelegInv, TypeOK
<1>1. \A d \in Child : wait[d] => parent[d] \in Node
  BY DEF RecordsAgree, RowsPresent
<1>2. CASE UNCHANGED ledger
  <2>1. S = {}
    <3>1. SUFFICES ASSUME ResumesParent(c) PROVE FALSE
      OBVIOUS
    <3>2. c \in Child /\ delivery[c] = "PENDING" /\ run[c] \in TerminalRun /\ ~Conflict(c)
      BY <3>1 DEF ResumesParent
    <3>3. deleg[c] # "NONE"
      BY <3>2 DEF RecordsAgree
    <3>4. delivery'[c] = "DELIVERED"
      BY <3>2, <3>3 DEF CompleteChild, LedgerTypeOK
    <3> QED
      BY <1>2, <3>2, <3>4 DEF ledger
  <2> QED
    BY <1>1, <1>2, <2>1 DEF ledger, OneWait
<1>3. CASE ~UNCHANGED ledger
  <2>1. /\ c \in Child /\ parent' = parent
        /\ wait' = [wait EXCEPT ![c] = IF delivery[c] = "PENDING" THEN FALSE ELSE @]
    BY <1>3, Completion
  <2>2. \A d \in Child : wait'[d] => wait[d]
    BY <2>1 DEF LedgerTypeOK, Child
  <2>3. \A d \in Child : wait'[d] => parent[d] \notin S
    <3>1. SUFFICES ASSUME NEW d \in Child, wait'[d], parent[d] \in S PROVE FALSE
      OBVIOUS
    <3>2. delivery[c] = "PENDING" /\ parent[d] = parent[c]
      BY <3>1 DEF ResumesParent
    <3>3. wait[c] /\ ~wait'[c]
      BY <2>1, <3>2 DEF RecordsAgree, LedgerTypeOK, Child
    <3> QED
      BY <2>1, <2>2, <3>1, <3>2, <3>3 DEF OneWait
  <2> QED
    BY <1>1, <2>1, <2>2, <2>3 DEF OneWait
<1> QED
  BY <1>2, <1>3

\* Every step keeps the parents that wait at rest.
LEMMA WaitStep ==
    ASSUME DelegInv, [DelegNext]_delegVars
    PROVE  OneWait'
<1> USE DEF Resting, Quiet
<1>0. /\ \A n \in Node : pending[n] => exec[n] \in Resting \ {"idle"}
      /\ MemoryTypeOK /\ LedgerTypeOK
  BY DEF DelegInv, OneWait, TypeOK
<1>a. ASSUME NEW n \in Node, NEW target, exec[n] \notin Resting, Goto(n, target), UNCHANGED <<wait, parent>>
      PROVE  Quiet
  BY <1>0, <1>a DEF Goto, MemoryTypeOK
<1>b. ASSUME NEW n \in Node, Leave(n, {}), UNCHANGED <<wait, parent>>
      PROVE  Quiet
  <2>1. ASSUME NEW m \in Node, exec[m] \in Resting, ~pending[m]
        PROVE  exec'[m] \in Resting /\ ~pending'[m]
    BY <1>b, <2>1 DEF Leave, MemoryTypeOK
  <2>2. ASSUME NEW m \in Node, pending'[m]
        PROVE  exec'[m] \in Resting \ {"idle"}
    BY <1>0, <1>b, <2>2 DEF Leave, MemoryTypeOK
  <2> QED
    BY <1>b, <2>1, <2>2
<1>1. ASSUME NEW n \in Node, Start(n) \/ Unprepared(n) \/ Unresolved(n) PROVE Quiet
  BY <1>1, <1>a, <1>b DEF Start, Unprepared, Unresolved, ledger
<1>2. ASSUME NEW n \in Node, Request(n) \/ Reply(n) \/ Returned(n) PROVE Quiet
  <2>1. exec[n] \notin Resting /\ UNCHANGED <<wait, parent>> /\ \E target : Goto(n, target)
    BY <1>2 DEF Request, Reply, Returned, ledger
  <2> QED
    BY <1>a, <2>1
<1>3. ASSUME NEW n \in Node, Complete(n) \/ OtherTool(n) \/ Fail(n) \/ Abort(n) PROVE Quiet
  <2>1. CASE Fail(n)
    BY <1>0, <2>1 DEF Fail, Goto, ledger, MemoryTypeOK
  <2>2. CASE Complete(n) \/ OtherTool(n) \/ Abort(n)
    BY <1>a, <2>2 DEF Complete, OtherTool, Abort, ledger
  <2> QED
    BY <1>3, <2>1, <2>2
<1>4. ASSUME NEW p \in Node, NEW c \in Child, Schedule(p, c) PROVE Quiet
  BY <1>0, <1>4 DEF Schedule, MemoryTypeOK, Child
<1>5. ASSUME NEW n \in Node, Suspend(n) PROVE Quiet
  <2>1. CASE Leave(n, {})
    BY <1>5, <1>b, <2>1 DEF Suspend
  <2>2. CASE exec[n] = "suspending" /\ Goto(n, "failing")
    BY <1>0, <1>5, <2>2 DEF Suspend, Goto, MemoryTypeOK
  <2> QED
    BY <1>5, <2>1, <2>2 DEF Suspend
<1>6. ASSUME NEW n \in Node, CancelRun(n) PROVE Quiet
  BY <1>0, <1>6 DEF CancelRun
<1>7. ASSUME NEW c \in Child, NEW as, TerminateSubtree(c, as) \/ TerminateChild(c) PROVE Quiet
  BY <1>0, <1>7 DEF TerminateSubtree, TerminateChild, ledger
<1>8. ASSUME Crash PROVE Quiet
  BY <1>8 DEF Crash, ledger
<1>9. ASSUME RecoverRuns \/ UNCHANGED delegVars PROVE Quiet
  BY <1>0, <1>9 DEF RecoverRuns, delegVars, ledger, memory
<1>10. ASSUME NEW p \in Node, NEW c \in Child, NEW m, Spawn(p, c, m) PROVE OneWait'
  <2>1. \A d \in Child : parent[d] # c
    BY <1>10 DEF Spawn, CreateDelegatedRun, DelegInv, RowsPresent, Child
  <2>2. ~wait[c] /\ run[c] = "ABSENT"
    BY <1>10 DEF Spawn, CreateDelegatedRun, DelegInv, RowsPresent, RecordsAgree
  <2>3. \A d \in Child : wait[d] => parent[d] \in Node /\ parent[d] # p
    BY <1>10 DEF Spawn, DelegInv, RecordsAgree, RowsPresent, OneWait
  <2>4. ~pending[c] /\ ~pending[p]
    BY <1>0, <1>10, <2>2 DEF Spawn, DelegInv, RowsPresent, OneWait, OneThread, Child
  <2> QED
    BY <1>0, <1>10, <2>1, <2>2, <2>3, <2>4
    DEF Spawn, CreateDelegatedRun, DelegInv, OneWait, MemoryTypeOK, LedgerTypeOK, Child
<1>11. ASSUME NEW p \in Node, NEW c \in Child, Wait(p, c) PROVE OneWait'
  <2>1. CASE UNCHANGED ledger /\ Goto(p, "tool") /\ exec[p] = "acting"
    <3>1. Quiet
      BY <1>0, <2>1 DEF Goto, ledger, MemoryTypeOK
    <3> QED
      BY <3>1, QuietStep
  <2>2. CASE MarkWaiting(c) /\ Goto(p, "suspending") /\ exec[p] = "acting" /\ parent[c] = p
    <3>1. \A d \in Child : wait[d] => parent[d] \in Node /\ parent[d] # p
      BY <2>2 DEF DelegInv, RecordsAgree, RowsPresent, OneWait
    <3>2. ~pending[p]
      BY <1>0, <2>2
    <3> QED
      BY <1>0, <2>2, <3>1, <3>2 DEF MarkWaiting, Goto, DelegInv, OneWait, MemoryTypeOK, LedgerTypeOK, Child
  <2> QED
    BY <1>11, <2>1, <2>2 DEF Wait
<1>12. ASSUME NEW n \in Node, Terminated(n) PROVE OneWait'
  <2>1. CASE UNCHANGED ledger /\ Leave(n, {})
    <3>1. Quiet
      BY <1>0, <2>1 DEF Leave, ledger, MemoryTypeOK
    <3> QED
      BY <3>1, QuietStep
  <2>2. CASE CompleteChild(n) /\ Leave(n, IF ResumesParent(n) THEN {parent[n]} ELSE {})
    <3> DEFINE S == IF ResumesParent(n) THEN {parent[n]} ELSE {}
    <3>1. \A m \in Node \ S : exec[m] \in Resting /\ ~pending[m] => exec'[m] \in Resting /\ ~pending'[m]
      BY <1>0, <2>2 DEF Leave, MemoryTypeOK
    <3>2. \A m \in S : exec[m] \in Resting
      BY DEF ResumesParent, DelegInv, RecordsAgree, OneWait
    <3>3. \A m \in Node : pending'[m] => exec'[m] \in Resting \ {"idle"}
      <4>1. SUFFICES ASSUME NEW m \in Node, pending'[m] PROVE exec'[m] \in Resting \ {"idle"}
        OBVIOUS
      <4>2. m # n /\ (pending[m] \/ (m \in S /\ exec[m] # "idle"))
        BY <2>2, <4>1 DEF Leave
      <4>3. exec[m] \in Resting \ {"idle"}
        BY <1>0, <3>2, <4>2
      <4>4. exec'[m] = exec[m]
        BY <2>2, <4>2, <4>3 DEF Leave
      <4> QED
        BY <4>3, <4>4
    <3> HIDE DEF S
    <3> QED
      BY <2>2, <3>1, <3>3, DeliveryStep DEF S
  <2> QED
    BY <1>12, <2>1, <2>2 DEF Terminated
<1>13. ASSUME NEW c \in Child, FinishChild(c) PROVE OneWait'
  <2> DEFINE S == IF ResumesParent(c) THEN {parent[c]} \ sweep.all ELSE {}
  <2>1. \A m \in Node \ S : exec[m] \in Resting /\ ~pending[m] => exec'[m] \in Resting /\ ~pending'[m]
    BY <1>0, <1>13 DEF FinishChild, Resume, MemoryTypeOK
  <2>2. \A m \in S : exec[m] \in Resting
    BY DEF ResumesParent, DelegInv, RecordsAgree, OneWait
  <2>3. \A m \in Node : pending'[m] => exec'[m] \in Resting \ {"idle"}
    <3>1. SUFFICES ASSUME NEW m \in Node, pending'[m] PROVE exec'[m] \in Resting \ {"idle"}
      OBVIOUS
    <3>2. pending[m] \/ (m \in S /\ exec[m] # "idle")
      BY <1>13, <3>1 DEF FinishChild, Resume
    <3>3. exec[m] \in Resting \ {"idle"}
      BY <1>0, <2>2, <3>2
    <3>4. exec'[m] = exec[m]
      BY <1>13, <3>3 DEF FinishChild, Resume
    <3> QED
      BY <3>3, <3>4
  <2>4. CompleteChild(c) /\ c \in Node /\ S \subseteq (IF ResumesParent(c) THEN {parent[c]} ELSE {})
    BY <1>13 DEF FinishChild, Child
  <2> HIDE DEF S
  <2> QED
    BY <2>1, <2>3, <2>4, DeliveryStep
<1>14. ASSUME NEW c \in Child, Reconcile(c) PROVE OneWait'
  <2>1. CompleteChild(c) /\ c \in Node /\ UNCHANGED <<exec, pending>>
    BY <1>14 DEF Reconcile, memory, Child
  <2> DEFINE S == {}
  <2>2. S \subseteq (IF ResumesParent(c) THEN {parent[c]} ELSE {})
    OBVIOUS
  <2>3. /\ \A n \in Node \ S : exec[n] \in Resting /\ ~pending[n] => exec'[n] \in Resting /\ ~pending'[n]
        /\ \A n \in Node : pending'[n] => exec'[n] \in Resting \ {"idle"}
    BY <1>0, <2>1
  <2> HIDE DEF Resting, S
  <2> QED
    BY <2>1, <2>2, <2>3, DeliveryStep
<1>15. ASSUME Startup PROVE OneWait'
  <2>1. \A n \in Node : ~pending[n]
    BY <1>15 DEF Startup, DelegInv, OneThread
  <2>2. \A c \in Child : wait[c] => parent[c] \in Node /\ exec'[parent[c]] = "idle"
    BY <1>15 DEF Startup, Children, DelegInv, RecordsAgree, RowsPresent
  <2> QED
    BY <1>15, <2>1, <2>2 DEF Startup, ledger, DelegInv, OneWait
<1> HIDE DEF Resting, Quiet
<1> QED
  BY <1>1, <1>2, <1>3, <1>4, <1>5, <1>6, <1>7, <1>8, <1>9, <1>10, <1>11, <1>12, <1>13, <1>14, <1>15,
     QuietStep
  DEF DelegNext, Execution, Sweep, Recovery

-----------------------------------------------------------------------------
\* The inductive invariant holds in every reachable state.
LEMMA DelegInvariance == DelegSpec => []DelegInv
<1>1. DelegInit => DelegInv
  <2> SUFFICES ASSUME DelegInit PROVE DelegInv
    OBVIOUS
  <2>1. TypeOK
    BY DelegationAssumption
    DEF DelegInit, TypeOK, LedgerTypeOK, MemoryTypeOK, RunStatus, DelegationStatus, ExecutionState, NoSweep
  <2>2. RecordsAgree /\ DeliveredEnded
    BY DEF DelegInit, RecordsAgree, DeliveredEnded, TerminalDelegation, Child
  <2>3. RowsPresent
    BY DelegationAssumption DEF DelegInit, RowsPresent, NoSweep, Child
  <2>4. OneThread /\ OneWait
    BY DEF DelegInit, OneThread, OneWait, Child
  <2> QED
    BY <2>1, <2>2, <2>3, <2>4 DEF DelegInv
<1>2. DelegInv /\ [DelegNext]_delegVars => DelegInv'
  <2> SUFFICES ASSUME DelegInv, [DelegNext]_delegVars PROVE DelegInv'
    OBVIOUS
  <2>1. TypeOK'
    BY LedgerTypeStep, MemoryTypeStep DEF DelegInv, TypeOK
  <2> QED
    BY <2>1, RowsStep, PresentStep, ThreadStep, WaitStep DEF DelegInv
<1> QED
  BY <1>1, <1>2, PTL DEF DelegSpec

\* Type correctness: the rows keep the types of their columns and the memory of
\* the Host its shape.
THEOREM DelegationTypes == DelegSpec => []TypeOK
<1>1. DelegInv => TypeOK
  BY DEF DelegInv
<1> QED
  BY <1>1, DelegInvariance, PTL

\* A parent that waits is not executed before the result is durable, whoever
\* resumes or schedules it (markWaiting, coordinator.resume, startup).
THEOREM WaitingParentsRest == DelegSpec => []WaitingParentRests
<1>1. DelegInv => WaitingParentRests
  BY DEF DelegInv, OneWait, Resting, WaitingParentRests
<1> QED
  BY <1>1, DelegInvariance, PTL

\* A delegation that ended keeps its outcome, its charge, its delivery and its
\* Run, however often it is completed again.
THEOREM EndedDelegationsFinal == DelegSpec => EndedForGood
<1>1. DelegInv /\ [DelegNext]_delegVars =>
        [\A c \in Child : deleg[c] \in TerminalDelegation =>
           /\ deleg'[c] = deleg[c] /\ charged'[c] = charged[c] /\ delivery'[c] = delivery[c]
           /\ run'[c] = run[c] /\ wait'[c] = wait[c]]_delegVars
  BY EndedStep
<1> QED
  BY <1>1, DelegInvariance, PTL DEF DelegSpec, EndedForGood

-----------------------------------------------------------------------------
(* Budgets.  SumOver counts units, so what it returns is a cardinality.     *)

Units(f, S) == UNION {{c} \X (1 .. f[c]) : c \in S}

\* The units of one holder.
LEMMA OwnUnits ==
    ASSUME NEW c, NEW n \in Nat
    PROVE  IsFiniteSet({c} \X (1 .. n)) /\ Cardinality({c} \X (1 .. n)) = n
<1>1. IsFiniteSet({c}) /\ Cardinality({c}) = 1
  BY FS_Singleton
<1>2. IsFiniteSet(1 .. n) /\ Cardinality(1 .. n) = n
  BY FS_Interval
<1>3. IsFiniteSet({c} \X (1 .. n)) /\ Cardinality({c} \X (1 .. n)) = Cardinality({c}) * Cardinality(1 .. n)
  BY <1>1, <1>2, FS_Product
<1>4. 1 * n = n
  OBVIOUS
<1> QED
  BY <1>1, <1>2, <1>3, <1>4

\* A finite number of holders has finitely many units, and a sum is a number.
LEMMA SumIsNat ==
    ASSUME NEW S, IsFiniteSet(S), NEW f, \A c \in S : f[c] \in Nat
    PROVE  IsFiniteSet(Units(f, S)) /\ SumOver(f, S) \in Nat /\ SumOver(f, S) = Cardinality(Units(f, S))
<1> DEFINE own == [c \in S |-> {c} \X (1 .. f[c])]
           all == {{c} \X (1 .. f[c]) : c \in S}
<1>1. own \in Surjection(S, all)
  BY DEF Surjection
<1>2. IsFiniteSet(all)
  BY <1>1, FS_Surjection
<1>3. ASSUME NEW T \in all PROVE IsFiniteSet(T)
  <2>1. PICK c \in S : T = {c} \X (1 .. f[c])
    OBVIOUS
  <2> QED
    BY <2>1, OwnUnits
<1> HIDE DEF all
<1>4. IsFiniteSet(UNION all)
  BY <1>2, <1>3, FS_UNION
<1>5. UNION all = Units(f, S) /\ SumOver(f, S) = Cardinality(Units(f, S))
  BY DEF all, Units, SumOver
<1> QED
  BY <1>4, <1>5, FS_CardinalityType

\* A new holder adds what it holds.
LEMMA SumAdds ==
    ASSUME NEW S, IsFiniteSet(S), NEW f, \A c \in S : f[c] \in Nat,
           NEW x, x \notin S, f[x] \in Nat
    PROVE  SumOver(f, S \cup {x}) = SumOver(f, S) + f[x]
<1> DEFINE U == Units(f, S)
           V == {x} \X (1 .. f[x])
<1>1. Units(f, S \cup {x}) = U \cup V
  BY DEF Units
<1>2. U \cap V = {}
  BY DEF Units
<1>3. IsFiniteSet(U) /\ SumOver(f, S) = Cardinality(U) /\ SumOver(f, S) \in Nat
  BY SumIsNat
<1>4. IsFiniteSet(V) /\ Cardinality(V) = f[x]
  BY OwnUnits
<1>5. IsFiniteSet(S \cup {x}) /\ \A c \in S \cup {x} : f[c] \in Nat
  BY FS_AddElement
<1>6. SumOver(f, S \cup {x}) = Cardinality(Units(f, S \cup {x}))
  BY <1>5, SumIsNat
<1> HIDE DEF U, V
<1>7. Cardinality(U \cup V) = Cardinality(U) + Cardinality(V) - Cardinality(U \cap V)
  BY <1>3, <1>4, FS_Union
<1>8. Cardinality(U \cap V) = 0
  BY <1>2, FS_EmptySet
<1>9. Cardinality(U \cup V) = SumOver(f, S) + f[x]
  BY <1>3, <1>4, <1>7, <1>8
<1> QED
  BY <1>1, <1>6, <1>9

\* A sum depends on what the holders in the set hold.
LEMMA SumSame ==
    ASSUME NEW S, NEW f, NEW g, \A c \in S : f[c] = g[c]
    PROVE  SumOver(f, S) = SumOver(g, S)
<1>1. {{c} \X (1 .. f[c]) : c \in S} = {{c} \X (1 .. g[c]) : c \in S}
  OBVIOUS
<1> QED
  BY <1>1 DEF SumOver

\* Nobody holds nothing.
LEMMA SumEmpty == ASSUME NEW f PROVE SumOver(f, {}) = 0
<1>1. UNION {{c} \X (1 .. f[c]) : c \in {}} = {}
  OBVIOUS
<1> QED
  BY <1>1, FS_EmptySet DEF SumOver

\* The children whose reservation was released.
Charged(p) == {c \in Children(p) : released[c]}

\* Every child that was never created belongs to nobody.
Unborn == \A c \in Child : deleg[c] = "NONE" => parent[c] = NoNode

BudgetInv == Unborn /\ BudgetsAgree

\* The children of a Run are finitely many.
LEMMA ChildrenFinite ==
    ASSUME NEW p
    PROVE  IsFiniteSet(Children(p)) /\ IsFiniteSet(Reserved(p)) /\ IsFiniteSet(Charged(p))
<1>1. IsFiniteSet(Node)
  BY DelegationAssumption
<1>2. Children(p) \in SUBSET Node /\ Reserved(p) \in SUBSET Node /\ Charged(p) \in SUBSET Node
  BY DEF Children, Reserved, Charged, Child
<1> QED
  BY <1>1, <1>2, FS_Subset

\* Whatever leaves reservations, charges and parents alone keeps the budgets.
LEMMA BudgetsStay ==
    ASSUME BudgetInv, UNCHANGED <<parent, max, delegated, charged, released>>,
           \A c \in Child : deleg'[c] = "NONE" <=> deleg[c] = "NONE"
    PROVE  BudgetInv'
<1>1. \A p : Children(p)' = Children(p) /\ Reserved(p)' = Reserved(p) /\ Charged(p)' = Charged(p)
  BY DEF Children, Reserved, Charged
<1>2. Unborn'
  BY DEF BudgetInv, Unborn
<1>3. ChargesAgree'
  BY <1>1 DEF BudgetInv, BudgetsAgree, ChargesAgree, Charged
<1>4. ReservationsFit'
  BY <1>1 DEF BudgetInv, BudgetsAgree, ReservationsFit
<1> QED
  BY <1>2, <1>3, <1>4 DEF BudgetInv, BudgetsAgree

\* createDelegatedRun reserves for the child what the parent has left.
LEMMA CreateBudgets ==
    ASSUME TypeOK, RecordsAgree, RowsPresent, BudgetInv, NEW p \in Node, NEW c \in Child, NEW m \in Nat,
           exec[p] = "acting", CreateDelegatedRun(p, c, m)
    PROVE  BudgetInv'
<1>1. /\ run[c] = "ABSENT" /\ Committed(p) + m <= max[p]
      /\ parent' = [parent EXCEPT ![c] = p] /\ max' = [max EXCEPT ![c] = m]
      /\ deleg' = [deleg EXCEPT ![c] = "CREATED"]
      /\ UNCHANGED <<used, delegated, charged, released>>
  BY DEF CreateDelegatedRun
<1>2. /\ deleg[c] = "NONE" /\ parent[c] = NoNode /\ ~released[c] /\ run[p] # "ABSENT" /\ p # c
      /\ \A d \in Child : parent[d] # c
      /\ c \in Node /\ NoNode \notin Node
  BY <1>1, DelegationAssumption DEF RowsPresent, RecordsAgree, TerminalDelegation, BudgetInv, Unborn, Child
<1>3. /\ max \in [Node -> Nat] /\ parent \in [Node -> Node \cup {NoNode}]
      /\ used \in [Node -> Nat] /\ delegated \in [Node -> Nat] /\ deleg \in [Node -> DelegationStatus]
  BY DEF TypeOK, LedgerTypeOK
<1>4. /\ \A d \in Child \ {c} : parent'[d] = parent[d] /\ max'[d] = max[d] /\ deleg'[d] = deleg[d]
      /\ parent'[c] = p /\ max'[c] = m /\ deleg'[c] = "CREATED"
      /\ \A q \in Node \ {c} : max'[q] = max[q]
  BY <1>1, <1>2, <1>3 DEF Child
<1>5. \A q \in Node : Charged(q)' = Charged(q)
  BY <1>1, <1>2, <1>4 DEF Charged, Children
<1>6. \A q \in Node \ {p} : Reserved(q)' = Reserved(q) /\ c \notin Reserved(q)
  BY <1>1, <1>2, <1>4 DEF Reserved, Children
<1>7. Reserved(p)' = Reserved(p) \cup {c} /\ c \notin Reserved(p)
  BY <1>1, <1>2, <1>4 DEF Reserved, Children
<1>8. Unborn'
  BY <1>4 DEF BudgetInv, Unborn
<1>9. ChargesAgree'
  BY <1>1, <1>5 DEF BudgetInv, BudgetsAgree, ChargesAgree, Charged
<1>10. ASSUME NEW q \in Node PROVE SumOver(max, Reserved(q))' <= max'[q]
  <2>1. \A d \in Reserved(q) : max'[d] = max[d]
    BY <1>4, <1>6, <1>7 DEF Reserved, Children
  <2>2. SumOver(max', Reserved(q)) = SumOver(max, Reserved(q))
    BY <2>1, SumSame
  <2>3. IsFiniteSet(Reserved(q)) /\ \A d \in Reserved(q) : max[d] \in Nat /\ max'[d] \in Nat
    BY <1>3, <2>1, ChildrenFinite DEF Reserved, Children, Child
  <2>4. SumOver(max, Reserved(q)) \in Nat
    BY <2>3, SumIsNat
  <2>5. CASE q = p
    <3>1. SumOver(max', Reserved(p) \cup {c}) = SumOver(max', Reserved(p)) + max'[c]
      BY <1>4, <1>7, <2>3, <2>5, SumAdds
    <3>2. SumOver(max, Reserved(p)) + m <= max[p]
      BY <1>1, <1>3, <2>4, <2>5 DEF Committed
    <3> QED
      BY <1>2, <1>4, <1>7, <2>2, <2>5, <3>1, <3>2
  <2>6. CASE q = c
    <3>1. Reserved(q)' = {}
      BY <1>2, <1>4, <2>6 DEF Reserved, Children
    <3>2. SumOver(max', {}) = 0
      BY SumEmpty
    <3> QED
      BY <1>4, <2>6, <3>1, <3>2
  <2>7. CASE q # p /\ q # c
    <3>1. SumOver(max, Reserved(q)) <= max[q]
      BY DEF BudgetInv, BudgetsAgree, ReservationsFit
    <3> QED
      BY <1>4, <1>6, <2>2, <2>7, <3>1
  <2> QED
    BY <2>5, <2>6, <2>7
<1>11. ReservationsFit'
  BY <1>10 DEF ReservationsFit
<1> QED
  BY <1>8, <1>9, <1>11 DEF BudgetInv, BudgetsAgree

\* releaseBudgetReservation charges the parent with what it gives back for good.
LEMMA ReleaseBudgets ==
    ASSUME TypeOK, RecordsAgree, RowsPresent, BudgetInv, NEW c \in Child,
           deleg[c] # "NONE", ~released[c],
           charged' = [charged EXCEPT ![c] = EffectiveUsage(c)],
           delegated' = [delegated EXCEPT ![parent[c]] = @ + EffectiveUsage(c)],
           released' = [released EXCEPT ![c] = TRUE],
           UNCHANGED <<parent, max>>,
           \A d \in Child : deleg'[d] = "NONE" <=> deleg[d] = "NONE"
    PROVE  BudgetInv'
<1>1. /\ charged \in [Node -> Nat] /\ delegated \in [Node -> Nat] /\ released \in [Node -> BOOLEAN]
      /\ max \in [Node -> Nat] /\ used \in [Node -> Nat]
      /\ c \in Node /\ parent[c] \in Node /\ \A d \in Child : d \in Node
  BY DEF TypeOK, LedgerTypeOK, RowsPresent, Child
<1>2. EffectiveUsage(c) \in Nat
  BY <1>1 DEF EffectiveUsage
<1>3. /\ charged'[c] = EffectiveUsage(c) /\ \A d \in Child \ {c} : charged'[d] = charged[d]
      /\ delegated'[parent[c]] = delegated[parent[c]] + EffectiveUsage(c)
      /\ \A q \in Node \ {parent[c]} : delegated'[q] = delegated[q]
      /\ released'[c] /\ \A d \in Child \ {c} : released'[d] <=> released[d]
  BY <1>1 DEF Child
<1>4. Unborn'
  BY DEF BudgetInv, Unborn
<1>5. ASSUME NEW q \in Node PROVE delegated'[q] = SumOver(charged, Charged(q))'
  <2>1. delegated[q] = SumOver(charged, Charged(q))
    BY DEF BudgetInv, BudgetsAgree, ChargesAgree, Charged
  <2>2. c \notin Charged(q) /\ \A d \in Charged(q) : charged'[d] = charged[d]
    BY <1>3 DEF Charged, Children
  <2>3. SumOver(charged', Charged(q)) = SumOver(charged, Charged(q))
    BY <2>2, SumSame
  <2>4. CASE q = parent[c]
    <3>1. Charged(q)' = Charged(q) \cup {c}
      BY <1>3, <2>4 DEF Charged, Children
    <3>2. IsFiniteSet(Charged(q)) /\ \A d \in Charged(q) : charged'[d] \in Nat
      BY <1>1, <2>2, ChildrenFinite DEF Charged, Children
    <3>3. charged'[c] \in Nat
      BY <1>2, <1>3
    <3> DEFINE S == Charged(q)
               g == charged'
    <3>4. IsFiniteSet(S) /\ c \notin S /\ g[c] \in Nat /\ \A d \in S : g[d] \in Nat
      BY <2>2, <3>2, <3>3
    <3> HIDE DEF S, g
    <3>5. SumOver(g, S \cup {c}) = SumOver(g, S) + g[c]
      BY <3>4, SumAdds
    <3> USE DEF S, g
    <3> QED
      BY <1>3, <2>1, <2>3, <2>4, <3>1, <3>5
  <2>5. CASE q # parent[c]
    <3>1. Charged(q)' = Charged(q)
      BY <1>3, <2>5 DEF Charged, Children
    <3> QED
      BY <1>3, <2>1, <2>3, <2>5, <3>1
  <2> QED
    BY <2>4, <2>5
<1>6. ChargesAgree'
  BY <1>5 DEF ChargesAgree, Charged
<1>7. ASSUME NEW q \in Node PROVE SumOver(max, Reserved(q))' <= max'[q]
  <2>1. SumOver(max, Reserved(q)) <= max[q]
    BY DEF BudgetInv, BudgetsAgree, ReservationsFit
  <2>2. CASE q = parent[c]
    <3>1. Reserved(q) = Reserved(q)' \cup {c} /\ c \notin Reserved(q)'
      BY <1>3, <2>2 DEF Reserved, Children
    <3>2. IsFiniteSet(Reserved(q)) /\ Reserved(q)' \in SUBSET Reserved(q)
      BY <3>1, ChildrenFinite
    <3>3. IsFiniteSet(Reserved(q)') /\ \A d \in Reserved(q)' : max[d] \in Nat
      BY <1>1, <3>2, FS_Subset DEF Reserved, Children
    <3>4. SumOver(max, Reserved(q)' \cup {c}) = SumOver(max, Reserved(q)') + max[c] /\ max[c] \in Nat
      BY <1>1, <3>1, <3>3, SumAdds
    <3>5. SumOver(max, Reserved(q)') \in Nat /\ max[q] \in Nat
      BY <1>1, <3>3, SumIsNat
    <3> QED
      BY <2>1, <3>1, <3>4, <3>5
  <2>3. CASE q # parent[c]
    <3>1. Reserved(q)' = Reserved(q)
      BY <1>3, <2>3 DEF Reserved, Children
    <3> QED
      BY <2>1, <3>1
  <2> QED
    BY <2>2, <2>3
<1>8. ReservationsFit'
  BY <1>7 DEF ReservationsFit
<1> QED
  BY <1>4, <1>6, <1>8 DEF BudgetInv, BudgetsAgree

\* Every step keeps the budgets.
LEMMA BudgetStep ==
    ASSUME DelegInv, BudgetInv, [DelegNext]_delegVars
    PROVE  BudgetInv'
<1>1. TypeOK /\ RecordsAgree /\ RowsPresent /\ OneThread
  BY DEF DelegInv
<1>2. LedgerTypeOK /\ MemoryTypeOK
  BY <1>1 DEF TypeOK
<1>3. CASE RunStep
  BY <1>3, BudgetsStay DEF RunStep, delegationRows
<1>4. ASSUME NEW p \in Node, NEW c \in Child, NEW m \in Nat, exec[p] = "acting", CreateDelegatedRun(p, c, m)
      PROVE  BudgetInv'
  BY <1>1, <1>4, CreateBudgets
<1>5. ASSUME NEW p \in Node, NEW c \in Child, exec[p] = "acting", parent[c] = p, MarkWaiting(c) PROVE BudgetInv'
  <2>1. \A d \in Child : deleg'[d] = "NONE" <=> deleg[d] = "NONE"
    BY <1>2, <1>5 DEF MarkWaiting, ActiveDelegation, LedgerTypeOK, Child
  <2> QED
    BY <1>5, <2>1, BudgetsStay DEF MarkWaiting
<1>6. ASSUME NEW n \in Node, CompleteChild(n) PROVE BudgetInv'
  <2>1. CASE UNCHANGED ledger
    BY <2>1, BudgetsStay DEF ledger
  <2>2. CASE ~UNCHANGED ledger
    <3>1. /\ n \in Child /\ deleg[n] # "NONE"
          /\ deleg' = [deleg EXCEPT ![n] = IF @ \in ActiveDelegation THEN TerminalStatus(n) ELSE @]
      BY <1>2, <1>6, <2>2, Completion
    <3>2. TerminalStatus(n) # "NONE"
      BY DEF TerminalStatus
    <3>3. \A d \in Child : deleg'[d] = "NONE" <=> deleg[d] = "NONE"
      BY <1>2, <3>1, <3>2 DEF LedgerTypeOK, Child
    <3>4. ReleaseReservation(n) /\ UNCHANGED <<parent, max>>
      BY <1>6, <2>2 DEF CompleteChild
    <3>5. CASE released[n]
      BY <3>3, <3>4, <3>5, BudgetsStay DEF ReleaseReservation
    <3>6. CASE ~released[n]
      BY <1>1, <3>1, <3>3, <3>4, <3>6, ReleaseBudgets DEF ReleaseReservation
    <3> QED
      BY <3>5, <3>6
  <2> QED
    BY <2>1, <2>2
<1>7. ASSUME NEW c \in Child, ScheduleStep(c) PROVE BudgetInv'
  <2>1. \A d \in Child : deleg'[d] = "NONE" <=> deleg[d] = "NONE"
    BY <1>2, <1>7 DEF ScheduleStep, LedgerTypeOK, Child
  <2> QED
    BY <1>7, <2>1, BudgetsStay DEF ScheduleStep
<1> QED
  BY <1>1, <1>2, <1>3, <1>4, <1>5, <1>6, <1>7, LedgerStep

\* Budgets in every tree: a parent is charged once for every child that ended,
\* whoever completed it, and never reserves more than its envelope
\* (createDelegatedRun, releaseBudgetReservation).
THEOREM BudgetsKept == DelegSpec => []BudgetsAgree
<1>1. DelegInit => BudgetInv
  <2> SUFFICES ASSUME DelegInit PROVE BudgetInv
    OBVIOUS
  <2>1. /\ \A n \in Node : parent[n] = NoNode /\ ~released[n] /\ delegated[n] = 0 /\ max[n] \in Nat
        /\ NoNode \notin Node
    BY DelegationAssumption DEF DelegInit
  <2>2. \A p \in Node : Reserved(p) = {} /\ Charged(p) = {}
    BY <2>1 DEF Reserved, Charged, Children, Child
  <2>3. \A f : SumOver(f, {}) = 0
    BY SumEmpty
  <2>4. ChargesAgree /\ ReservationsFit
    BY <2>1, <2>2, <2>3 DEF ChargesAgree, ReservationsFit, Charged
  <2> QED
    BY <2>1, <2>4 DEF BudgetInv, BudgetsAgree, Unborn, Child
<1>2. DelegInv /\ BudgetInv /\ [DelegNext]_delegVars => BudgetInv'
  BY BudgetStep
<1>3. BudgetInv => BudgetsAgree
  BY DEF BudgetInv
<1> QED
  BY <1>1, <1>2, <1>3, DelegInvariance, PTL DEF DelegSpec
\* The rows of a delegation, its reservation, its wait and its delivery never
\* contradict each other, and the envelopes of a tree add up, through completions
\* by executions, timers, operators and recoveries (completeChild, markWaiting,
\* terminateChild).
THEOREM DelegationsConsistent == DelegSpec => []DelegationAgrees
<1>1. DelegInv => RecordsAgree
  BY DEF DelegInv
<1>2. RecordsAgree /\ BudgetsAgree => DelegationAgrees
  BY DEF DelegationAgrees
<1> QED
  BY <1>1, <1>2, DelegInvariance, BudgetsKept, PTL
=============================================================================
