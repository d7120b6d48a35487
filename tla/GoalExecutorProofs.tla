------------------------- MODULE GoalExecutorProofs -------------------------
(***************************************************************************)
(* Proofs about GoalExecutor, for any plans, retry limits, plan revisions  *)
(* and any number of crashes and faults: one step is open and one child    *)
(* runs at a time, completion is earned across revisions and adoptions, a  *)
(* blocked execution names its blocker, and a cancelled one is quiet.      *)
(***************************************************************************)
EXTENDS GoalExecutor, FiniteSetTheorems, WellFoundedInduction, TLAPS

Busy == {"READY", "RUNNING", "WAITING", "BLOCKED", "FAILED"}
Waiting == {"PENDING", "READY", "WAITING"}

StepState == {"PENDING", "IN_PROGRESS", "BLOCKED", "COMPLETED", "CANCELLED", "ABSENT"}
ChildStatus == {"NONE", "ACTIVE"} \cup ChildOver
FlowStatus == {"ABSENT"} \cup ExecActive \cup ExecTerminal

\* The types of the rows, and of what the Host keeps and what is bound to wakes.
RowTypes ==
    /\ goal \in GoalRow /\ plan \in [Revision -> Drafts \cup {<<>>}]
    /\ planStep \in [Step -> StepState]
    /\ exec \in ExecRow
    /\ stepExec \in [Revision -> [Step -> StepExecRow]]
    /\ blocker \in [Revision \X Step \X Kind -> BlockerStatus]
    /\ goalFlow \in [status : FlowStatus, cancel : BOOLEAN]
    /\ child \in [StepKey -> ChildStatus]

WakeStatus == {"NONE", "PENDING", "FRESH", "STALE", "DECIDED", "CLOSED"}

HostTypes ==
    /\ wake \in [StepKey -> WakeStatus]
    /\ ended \subseteq StepKey /\ hook \subseteq StepKey
    /\ doing \in Phase /\ back \in {"idle", "drain", "redrain", "dispatch"}
    /\ goalCrashes \in 0 .. MaxGoalCrashes /\ goalFaults \in 0 .. MaxGoalFaults

\* The Goal has a revision from its creation on, and is blocked at the third report.
GoalOK ==
    /\ goal.status # "ABSENT" => goal.rev >= 1
    /\ goal.status \in {"ABSENT", "ACTIVE"} => goal.count < 3

\* Without an execution there is no child, no step, no blocker and no Flow.
AbsentOK ==
    exec.status = "ABSENT" =>
        /\ \A k \in StepKey : child[k] = "NONE"
        /\ \A r \in Revision, s \in Step : stepExec[r][s].status = "NONE"
        /\ \A b \in DOMAIN blocker : blocker[b] = "NONE"
        /\ ~FlowLive /\ doing = "idle" /\ ended = {}

\* An execution pins a revision of the Goal.
PinnedOK == exec.status # "ABSENT" => exec.rev \in Revision /\ exec.rev <= goal.rev /\ goal.status # "ABSENT"

\* A live Flow has an active execution; an active execution without one waits
\* for the projection of its cancellation, and no child of it runs.
LiveOK ==
    /\ FlowLive => exec.status \in ExecActive
    /\ exec.status \in ExecActive \cup {"CANCELLED"} /\ ~FlowLive => ActiveKeys = {}
    /\ exec.status = "CANCELLED" => ~FlowLive
    /\ doing = "final" => ActiveKeys = {}
    /\ doing = "project" => ~FlowLive

\* A request key is used once: its child has the number of an attempt that was made.
KeysOK ==
    \A k \in StepKey : child[k] # "NONE" =>
        k[1] <= exec.rev /\ k[3] <= stepExec[k[1]][k[2]].tries

\* A step runs in the pinned plan and has its child.
RunningOK ==
    \A r \in Revision, s \in Step : stepExec[r][s].status = "RUNNING" =>
        r = exec.rev /\ s \in InPlan(r) /\ stepExec[r][s].task > 0

\* One child runs, and while the execution is active it is that of the RUNNING step.
ActiveOK ==
    /\ \A j, k \in ActiveKeys : j = k
    /\ exec.status \in ExecActive => \A k \in ActiveKeys :
           k[1] = exec.rev /\ At(k[2]).status = "RUNNING" /\ At(k[2]).task = k[3]

\* One step of the pinned plan is open.
BusyOK ==
    exec.status # "ABSENT" => \A s, e \in InPlan(exec.rev) :
        At(s).status \in Busy /\ At(e).status \in Busy => s = e

\* A step that is still to be tried has an attempt left; none is cancelled, and
\* one that is blocked blocks the execution.
TriesOK ==
    exec.status \in ExecActive => \A s \in InPlan(exec.rev) :
        /\ At(s).status \in Waiting => At(s).tries < MaxAttempts
        /\ At(s).status \notin {"NONE", "CANCELLED"}
        /\ At(s).status \in {"BLOCKED", "FAILED"} => exec.status = "BLOCKED"

\* A blocker is OPEN exactly while the execution is BLOCKED at its step.
BlockerOK ==
    exec.status \in ExecActive =>
        /\ exec.status = "BLOCKED" => \E b \in DOMAIN blocker : blocker[b] = "OPEN"
        /\ \A b \in DOMAIN blocker : blocker[b] = "OPEN" =>
               /\ exec.status = "BLOCKED" /\ b[1] = exec.rev /\ b[2] = exec.cur
               /\ b[2] \in InPlan(exec.rev) /\ At(b[2]).status \in {"BLOCKED", "FAILED"}
        /\ \A b, c \in DOMAIN blocker : blocker[b] = "OPEN" /\ blocker[c] = "OPEN" => b = c

\* The inductive invariant.
GoalInv ==
    /\ RowTypes /\ HostTypes /\ GoalOK /\ AbsentOK /\ PinnedOK /\ LiveOK /\ KeysOK /\ RunningOK /\ ActiveOK
    /\ BusyOK /\ TriesOK /\ BlockerOK
    /\ AttemptsBounded /\ CompletionIsEarned /\ ToolsKeepOrder

-----------------------------------------------------------------------------
\* The bounds are numbers and a plan is a sequence of steps with definitions.
LEMMA Constants ==
  /\ MaxAttempts \in Nat /\ MaxAttempts >= 1 /\ MaxRev \in Nat
  /\ MaxGoalCrashes \in Nat /\ MaxGoalFaults \in Nat
  /\ NoDef \notin Def /\ Revision = 1 .. MaxRev
  /\ \A p \in Drafts \cup {<<>>} : p \in Seq([step : Step, def : Def])
  <1>1. <<>> \in Seq([step : Step, def : Def]) OBVIOUS
  <1>2. \A p \in Drafts \cup {<<>>} : p \in Seq([step : Step, def : Def])
    BY <1>1, GoalAssumption, Zenon DEF GoalAssumption
  <1>3. MaxRev \in Nat /\ NoDef \notin Def BY GoalAssumption DEF GoalAssumption
  <1>4. /\ MaxAttempts \in Nat /\ MaxAttempts >= 1
        /\ MaxGoalCrashes \in Nat /\ MaxGoalFaults \in Nat
    BY ExecutorAssumption DEF ExecutorAssumption
  <1> QED BY <1>2, <1>3, <1>4, Zenon DEF Revision

\* A key is the triple of its components.
LEMMA KeyFacts ==
  /\ \A k \in StepKey : /\ k[1] \in Revision /\ k[2] \in Step /\ k[3] \in 1 .. MaxAttempts + 1
                        /\ k = <<k[1], k[2], k[3]>>
  /\ \A r \in Revision, s \in Step, n \in 1 .. MaxAttempts + 1 :
        /\ <<r, s, n>> \in StepKey
        /\ <<r, s, n>>[1] = r /\ <<r, s, n>>[2] = s /\ <<r, s, n>>[3] = n
  BY DEF StepKey

\* The elements of a sequence, and where they stand.
LEMMA SeqFacts ==
  ASSUME NEW X, NEW p \in Seq(X), NEW j \in DOMAIN p
  PROVE  j \in Nat /\ p[j] \in X
  <1>1. DOMAIN p = 1 .. Len(p) /\ Len(p) \in Nat OBVIOUS
  <1> QED BY <1>1

\* A step of a plan has a place in it, with its definition, and no two share one.
LEMMA OrdinalFacts ==
  ASSUME NEW p \in Drafts \cup {<<>>}, NEW s \in StepsOf(p)
  PROVE  /\ s \in Step /\ OrdinalIn(p, s) \in Nat /\ OrdinalIn(p, s) \in DOMAIN p
         /\ p[OrdinalIn(p, s)].step = s
         /\ DefIn(p, s) = p[OrdinalIn(p, s)].def /\ DefIn(p, s) \in Def
  <1>1. p \in Seq([step : Step, def : Def]) BY Constants
  <1>2. PICK i \in DOMAIN p : p[i].step = s BY DEF StepsOf
  <1>3. OrdinalIn(p, s) \in DOMAIN p /\ p[OrdinalIn(p, s)].step = s BY <1>2 DEF OrdinalIn
  <1>4. \A j \in DOMAIN p : j \in Nat /\ p[j] \in [step : Step, def : Def]
    BY <1>1, SeqFacts, Zenon
  <1>5. OrdinalIn(p, s) \in Nat /\ p[OrdinalIn(p, s)] \in [step : Step, def : Def] BY <1>3, <1>4
  <1>6. DefIn(p, s) = p[OrdinalIn(p, s)].def BY DEF DefIn
  <1> QED BY <1>3, <1>5, <1>6

\* The steps of a pinned plan.
LEMMA PlanFacts ==
  ASSUME plan \in [Revision -> Drafts \cup {<<>>}], NEW r, NEW s \in InPlan(r)
  PROVE  /\ r \in Revision /\ s \in Step /\ Ordinal(r, s) \in Nat
         /\ Ordinal(r, s) \in DOMAIN plan[r] /\ plan[r][Ordinal(r, s)].step = s
         /\ DefAt(r, s) \in Def /\ DefAt(r, s) = plan[r][Ordinal(r, s)].def
         /\ \A e \in InPlan(r) : Ordinal(r, e) = Ordinal(r, s) => e = s
  <1>1. r \in Revision /\ s \in StepsOf(plan[r]) /\ plan[r] \in Drafts \cup {<<>>}
        /\ \A e \in InPlan(r) : e \in StepsOf(plan[r])
    BY DEF InPlan
  <1>2. \A e \in StepsOf(plan[r]) : plan[r][OrdinalIn(plan[r], e)].step = e BY <1>1, OrdinalFacts
  <1>3. DefAt(r, s) = DefIn(plan[r], s) BY DEF DefAt
  <1> QED BY <1>1, <1>2, <1>3, OrdinalFacts DEF Ordinal

\* Steps of a plan that are all the same have a first one.
LEMMA FirstFacts ==
  ASSUME plan \in [Revision -> Drafts \cup {<<>>}], NEW S, S # {},
         S \subseteq InPlan(exec.rev), \A s, e \in S : s = e
  PROVE  First(S) \in S
  <1>1. PICK s \in S : TRUE OBVIOUS
  <1>2. Ordinal(exec.rev, s) \in Nat BY <1>1, PlanFacts
  <1>3. \A e \in S : Ordinal(exec.rev, s) <= Ordinal(exec.rev, e) BY <1>1, <1>2
  <1> QED BY <1>1, <1>3 DEF First

\* A set of steps of a plan that is not empty has one with the least place.
LEMMA LeastOrdinal ==
  ASSUME plan \in [Revision -> Drafts \cup {<<>>}], NEW r, NEW S, S # {}, S \subseteq InPlan(r)
  PROVE  \E s \in S : \A e \in S : Ordinal(r, s) <= Ordinal(r, e)
  <1> DEFINE N == {Ordinal(r, s) : s \in S}
  <1>1. N \subseteq Nat /\ N # {} BY PlanFacts
  <1>2. PICK x \in N : \A y \in N : ~(<<y, x>> \in OpToRel(<, Nat))
    BY <1>1, NatLessThanWellFounded, WFMin
  <1>3. ASSUME NEW y \in N PROVE x <= y
    <2>1. y \in Nat /\ x \in Nat /\ <<y, x>> \in Nat \X Nat BY <1>1
    <2>2. <<y, x>>[1] = y /\ <<y, x>>[2] = x OBVIOUS
    <2>3. ~(y < x) BY <1>2, <2>1, <2>2, Zenon DEF OpToRel
    <2> QED BY <2>1, <2>3
  <1>4. PICK s \in S : x = Ordinal(r, s) OBVIOUS
  <1> QED BY <1>3, <1>4

\* Elements that are all the same are at most one.
LEMMA AtMostOne ==
  ASSUME NEW S, \A x, y \in S : x = y
  PROVE  Cardinality(S) <= 1
  <1>1. CASE S = {} BY <1>1, FS_EmptySet
  <1>2. CASE S # {}
    <2>1. PICK x \in S : TRUE BY <1>2
    <2>2. S = {x} BY <2>1
    <2> QED BY <2>2, FS_Singleton
  <1> QED BY <1>1, <1>2

\* The table of the step transitions, row by row.
LEMMA StepTable ==
  /\ DOMAIN StepTransitions = StepState
  /\ StepTransitions["PENDING"] = {"IN_PROGRESS", "COMPLETED", "CANCELLED"}
  /\ StepTransitions["IN_PROGRESS"] = {"BLOCKED", "COMPLETED", "CANCELLED"}
  /\ StepTransitions["BLOCKED"] = {"IN_PROGRESS", "CANCELLED"}
  /\ StepTransitions["COMPLETED"] = {} /\ StepTransitions["CANCELLED"] = {} /\ StepTransitions["ABSENT"] = {}
  BY DEF StepTransitions, StepState

\* Every way a wake is written keeps its type.
LEMMA WakeFacts ==
  ASSUME HostTypes
  PROVE  /\ Staled \in [StepKey -> WakeStatus]
         /\ \A c \in Caller : Decided(c) => wake' \in [StepKey -> WakeStatus]
         /\ \A k \in StepKey : WokenUp(k) \in [StepKey -> WakeStatus]
  BY DEF HostTypes, Staled, Decided, WokenUp, WakeStatus

\* The projection moves one step of the mutable plan, or none.
LEMMA ProjectFacts ==
  ASSUME planStep \in [Step -> StepState], NEW s, NEW from, NEW to \in StepState, Project(s, from, to)
  PROVE  /\ planStep' \in [Step -> StepState]
         /\ \A e \in Step : planStep'[e] = planStep[e] \/ (e = s /\ planStep'[e] = to /\ CanProject(s))
  BY DEF Project

\* A step that can be projected has its pinned definition in the current plan.
LEMMA CanProjectFacts ==
  ASSUME NEW s, CanProject(s)
  PROVE  DefAt(exec.rev, s) = DefAt(goal.rev, s)
  BY DEF CanProject

-----------------------------------------------------------------------------
\* A step that leaves the Goal, the execution and the blockers alone, and ends
\* children at most, keeps the invariant.
LEMMA Quiet ==
  ASSUME GoalInv, UNCHANGED <<goal, plan, planStep, exec, stepExec, blocker>>,
         child' \in [StepKey -> ChildStatus],
         \A k \in StepKey : child'[k] = child[k] \/ (child[k] = "ACTIVE" /\ child'[k] \in ChildOver),
         goalFlow' \in [status : FlowStatus, cancel : BOOLEAN],
         FlowLive' => FlowLive, FlowLive /\ ~FlowLive' => ActiveKeys' = {},
         HostTypes', doing' = "final" => ActiveKeys' = {}, doing' = "project" => ~FlowLive',
         exec.status = "ABSENT" => doing' = "idle" /\ ended' = {}
  PROVE  GoalInv'
  <1>1. /\ RowTypes /\ HostTypes /\ GoalOK /\ AbsentOK /\ PinnedOK /\ LiveOK /\ KeysOK /\ RunningOK /\ ActiveOK
        /\ BusyOK /\ TriesOK /\ BlockerOK
        /\ AttemptsBounded /\ CompletionIsEarned /\ ToolsKeepOrder
    BY DEF GoalInv
  <1>2. ActiveKeys' \subseteq ActiveKeys BY DEF ActiveKeys, ChildOver
  <1>3. \A k \in StepKey : /\ child'[k] # "NONE" => child[k] # "NONE"
                           /\ child[k] = "SUCCEEDED" => child'[k] = "SUCCEEDED"
                           /\ child[k] = "NONE" => child'[k] = "NONE"
    BY DEF ChildOver
  <1>4. RowTypes' BY <1>1 DEF RowTypes
  <1>5. GoalOK' BY <1>1 DEF GoalOK
  <1>6. AbsentOK' BY <1>1, <1>3 DEF AbsentOK
  <1>7. PinnedOK' BY <1>1 DEF PinnedOK
  <1>8. LiveOK' BY <1>1, <1>2 DEF LiveOK
  <1>9. KeysOK' BY <1>1, <1>3 DEF KeysOK
  <1>10. RunningOK' BY <1>1 DEF RunningOK, InPlan
  <1>11. ActiveOK' BY <1>1, <1>2 DEF ActiveOK, At
  <1>12. BusyOK' BY <1>1 DEF BusyOK, InPlan, At
  <1>13. TriesOK' BY <1>1 DEF TriesOK, InPlan, At
  <1>14. BlockerOK' BY <1>1 DEF BlockerOK, InPlan, At
  <1>15. AttemptsBounded' BY <1>1 DEF AttemptsBounded
  <1>16. CompletionIsEarned'
    <2>1. \A s, d : Earned(s, d) => Earned(s, d)' BY <1>3 DEF Earned, DefAt, InPlan
    <2>2. \A r, s : DefAt(r, s)' = DefAt(r, s) BY DEF DefAt, InPlan
    <2>3. CASE exec.status # "ABSENT"
      <3>1. /\ \A s \in InPlan(exec.rev) : StepDone(s) => Earned(s, DefAt(exec.rev, s))
            /\ \A s \in InPlan(goal.rev) : planStep[s] = "COMPLETED" => Earned(s, DefAt(goal.rev, s))
            /\ exec.status = "SUCCEEDED" => \A s \in InPlan(exec.rev) : StepDone(s)
        BY <1>1, <2>3 DEF CompletionIsEarned
      <3>2. /\ InPlan(exec.rev)' = InPlan(exec.rev) /\ InPlan(goal.rev)' = InPlan(goal.rev)
            /\ \A s : StepDone(s)' <=> StepDone(s)
        BY DEF InPlan, StepDone, At
      <3>3. \A s \in InPlan(exec.rev)' : StepDone(s)' => Earned(s, DefAt(exec.rev, s))'
        BY <2>1, <3>1, <3>2 DEF Earned, DefAt, InPlan
      <3> QED BY <2>1, <2>2, <3>1, <3>2, <3>3 DEF CompletionIsEarned
    <2> QED BY <2>3 DEF CompletionIsEarned
  <1>17. ToolsKeepOrder' BY <1>1 DEF ToolsKeepOrder, StepsInOrder, InPlan, Ordinal
  <1> QED BY <1>1, <1>4, <1>5, <1>6, <1>7, <1>8, <1>9, <1>10, <1>11, <1>12, <1>13, <1>14, <1>15, <1>16, <1>17
          DEF GoalInv

\* So does one that leaves the rows alone but for the wakes.
LEMMA Still ==
  ASSUME GoalInv, UNCHANGED <<goal, plan, planStep, exec, stepExec, blocker, goalFlow, child>>, HostTypes',
         doing' = "final" => ActiveKeys = {}, doing' = "project" => ~FlowLive,
         exec.status = "ABSENT" => doing' = "idle" /\ ended' = {}
  PROVE  GoalInv'
  <1>1. RowTypes BY DEF GoalInv
  <1>2. /\ child' \in [StepKey -> ChildStatus]
        /\ \A k \in StepKey : child'[k] = child[k]
        /\ goalFlow' \in [status : FlowStatus, cancel : BOOLEAN]
    BY <1>1 DEF RowTypes
  <1>3. FlowLive' <=> FlowLive BY DEF FlowLive
  <1>4. ActiveKeys' = ActiveKeys BY DEF ActiveKeys
  <1> QED BY <1>2, <1>3, <1>4, Quiet

\* What the quiet actions rest on.
LEMMA InvParts ==
  ASSUME GoalInv
  PROVE  /\ RowTypes /\ HostTypes
         /\ exec.status = "ABSENT" => ~FlowLive /\ doing = "idle" /\ ended = {} /\ ActiveKeys = {}
         /\ doing = "final" => ActiveKeys = {}
         /\ doing = "project" => ~FlowLive
         /\ exec.status \in ExecActive \cup {"CANCELLED"} /\ ~FlowLive => ActiveKeys = {}
         /\ FlowLive => exec.status \in ExecActive
  BY DEF GoalInv, AbsentOK, LiveOK, ActiveKeys

\* A repeated admission decides the wake.
LEMMA RunNextReplayedStill == ASSUME GoalInv, NEW k \in StepKey, RunNextReplayed(k) PROVE GoalInv'
  <1>1. HostTypes' BY InvParts DEF RunNextReplayed, HostTypes, WakeStatus, execBound
  <1> QED BY <1>1, InvParts, Still DEF RunNextReplayed, goalVars, execBound

\* The hook of a child rejects before the executor is called.
LEMMA GoalHookRejectsStill == ASSUME GoalInv, NEW k \in StepKey, GoalHookRejects(k) PROVE GoalInv'
  <1>1. goalFaults' \in 0 .. MaxGoalFaults
    BY InvParts, Constants DEF GoalHookRejects, HostTypes
  <1>2. HostTypes' BY <1>1, InvParts DEF GoalHookRejects, HostTypes, execRow
  <1> QED BY <1>2, InvParts, Still DEF GoalHookRejects, goalVars, execRow

\* A wake ends.
LEMMA WakeEndsStill == ASSUME GoalInv, NEW k \in StepKey, WakeEnds(k) PROVE GoalInv'
  <1>1. HostTypes' BY InvParts DEF WakeEnds, HostTypes, WakeStatus, execBound
  <1> QED BY <1>1, InvParts, Still DEF WakeEnds, goalVars

\* A sequence of the executor begins.
LEMMA AdvanceStill == ASSUME GoalInv, Advance PROVE GoalInv'
  <1>1. HostTypes' BY InvParts DEF Advance, HostTypes, Phase, execRow, execBound
  <1>2. exec.status # "ABSENT" BY DEF Advance, ExecActive
  <1> QED BY <1>1, <1>2, InvParts, Still DEF Advance, goalVars, execRow

\* setBlocked of an execution that is blocked.
LEMMA SetBlockedAgainQuiet == ASSUME GoalInv, NEW c \in Caller, SetBlockedAgain(c) PROVE GoalInv'
  <1>1. RowTypes /\ HostTypes /\ exec.status = "BLOCKED" /\ FlowLive BY InvParts DEF SetBlockedAgain
  <1>2. /\ goalFlow' \in [status : FlowStatus, cancel : BOOLEAN] /\ FlowLive'
    BY <1>1 DEF SetBlockedAgain, RowTypes, FlowStatus, ExecActive, FlowLive
  <1>3. HostTypes'
    BY <1>1, WakeFacts DEF SetBlockedAgain, HostTypes, execBound
  <1>4. child' \in [StepKey -> ChildStatus] /\ ActiveKeys' = ActiveKeys
    BY <1>1 DEF SetBlockedAgain, RowTypes, ActiveKeys
  <1>5. doing = "idle" BY DEF SetBlockedAgain, MayCall
  <1> QED BY <1>1, <1>2, <1>3, <1>4, <1>5, Quiet DEF SetBlockedAgain, goalVars

\* The request of a cancellation.
LEMMA GoalRequestCancelQuiet == ASSUME GoalInv, GoalRequestCancel PROVE GoalInv'
  <1>1. RowTypes /\ HostTypes /\ FlowLive /\ exec.status # "ABSENT" BY InvParts DEF GoalRequestCancel, ExecActive
  <1>2. /\ goalFlow' \in [status : FlowStatus, cancel : BOOLEAN] /\ FlowLive'
    BY <1>1 DEF GoalRequestCancel, RowTypes, FlowStatus, ExecActive, FlowLive
  <1>3. HostTypes' BY <1>1, WakeFacts DEF GoalRequestCancel, HostTypes, execBound
  <1>4. child' \in [StepKey -> ChildStatus] /\ ActiveKeys' = ActiveKeys
    BY <1>1 DEF GoalRequestCancel, RowTypes, ActiveKeys
  <1> QED BY <1>1, <1>2, <1>3, <1>4, Quiet DEF GoalRequestCancel, goalVars

\* The cancellation of the plan: its request.
LEMMA CancelPlanQuiet == ASSUME GoalInv, NEW c \in Caller, CancelPlan(c) PROVE GoalInv'
  <1>1. RowTypes /\ HostTypes /\ exec.status # "ABSENT" BY InvParts DEF CancelPlan
  <1>2. /\ goalFlow' \in [status : FlowStatus, cancel : BOOLEAN] /\ goalFlow'.status = goalFlow.status
    BY <1>1 DEF CancelPlan, RowTypes
  <1>3. FlowLive' <=> FlowLive BY <1>2 DEF FlowLive
  <1>4. wake' \in [StepKey -> WakeStatus]
    <2>1. CASE FlowLive BY <1>1, <2>1, WakeFacts DEF CancelPlan
    <2>2. CASE ~FlowLive BY <1>1, <2>2 DEF CancelPlan, HostTypes, WakeStatus
    <2> QED BY <2>1, <2>2
  <1>5. HostTypes' BY <1>1, <1>4 DEF CancelPlan, HostTypes, execBound, Phase
  <1>6. child' \in [StepKey -> ChildStatus] /\ ActiveKeys' = ActiveKeys
    BY <1>1 DEF CancelPlan, RowTypes, ActiveKeys
  <1>7. doing' # "final" /\ (doing' = "project" => ~FlowLive) BY DEF CancelPlan
  <1> QED BY <1>1, <1>2, <1>3, <1>5, <1>6, <1>7, Quiet DEF CancelPlan, goalVars

\* The maintenance of Flows.
LEMMA BeginMaintainStill == ASSUME GoalInv, BeginMaintain PROVE GoalInv'
  <1>1. HostTypes' BY InvParts DEF BeginMaintain, HostTypes, Phase, execRow, execBound
  <1>2. exec.status # "ABSENT" BY InvParts DEF BeginMaintain, ExecActive
  <1> QED BY <1>1, <1>2, InvParts, Still DEF BeginMaintain, goalVars, execRow

\* Maintenance takes up a cancellation, or goes on to the deliveries.
LEMMA MaintainStill == ASSUME GoalInv, Maintain PROVE GoalInv'
  <1>1. HostTypes' BY InvParts DEF Maintain, HostTypes, Phase, execRow, execBound
  <1>2. exec.status # "ABSENT" BY InvParts DEF Maintain
  <1> QED BY <1>1, <1>2, InvParts, Still DEF Maintain, goalVars, execRow

\* The crash of the Host, and its recovery.
LEMMA GoalCrashStill == ASSUME GoalInv, GoalCrash PROVE GoalInv'
  <1>1. goalCrashes' \in 0 .. MaxGoalCrashes BY InvParts, Constants DEF GoalCrash, HostTypes
  <1>2. HostTypes' BY <1>1, InvParts DEF GoalCrash, HostTypes, Phase, execRow
  <1> QED BY <1>2, InvParts, Still DEF GoalCrash, goalVars, execRow

\* recover decides what becomes of the execution.
LEMMA RecoverPlansStill == ASSUME GoalInv, RecoverPlans PROVE GoalInv'
  <1>1. HostTypes' BY InvParts DEF RecoverPlans, HostTypes, Phase, execRow, execBound
  <1>2. exec.status # "ABSENT" BY InvParts DEF RecoverPlans
  <1>3. doing' = "project" => ~FlowLive BY DEF RecoverPlans, FlowLive, ExecActive
  <1>4. doing' # "final" BY DEF RecoverPlans
  <1> QED BY <1>1, <1>2, <1>3, <1>4, InvParts, Still DEF RecoverPlans, goalVars, execRow

\* The deliveries that are due wake their controllers.
LEMMA DrainWakesStill == ASSUME GoalInv, DrainWakes PROVE GoalInv'
  <1>1. wake' \in [StepKey -> WakeStatus] BY InvParts, WakeFacts DEF DrainWakes, HostTypes
  <1>2. HostTypes' BY <1>1, InvParts DEF DrainWakes, HostTypes, Phase, execBound
  <1>3. exec.status # "ABSENT" BY InvParts DEF DrainWakes
  <1>4. doing' # "final" /\ doing' # "project" BY DEF DrainWakes
  <1> QED BY <1>2, <1>3, <1>4, InvParts, Still DEF DrainWakes, goalVars

\* The delivery of a child whose hook ran.
LEMMA DispatchEndedStill == ASSUME GoalInv, NEW k \in StepKey, DispatchEnded(k) PROVE GoalInv'
  <1>1. wake' \in [StepKey -> WakeStatus] BY InvParts, WakeFacts DEF DispatchEnded, HostTypes
  <1>2. HostTypes' BY <1>1, InvParts DEF DispatchEnded, HostTypes, Phase, execBound
  <1>3. exec.status # "ABSENT" BY InvParts DEF DispatchEnded
  <1> QED BY <1>2, <1>3, InvParts, Still DEF DispatchEnded, goalVars

\* The end of a child ends it, whoever asked for it.
LEMMA EndsQuiet ==
  ASSUME GoalInv, NEW k \in StepKey, child[k] = "ACTIVE", NEW status \in ChildOver,
         child' = [child EXCEPT ![k] = status], wake' \in [StepKey -> WakeStatus],
         ended' = ended \cup {k}, UNCHANGED <<goalVars, exec, stepExec, blocker, goalFlow, hook, back, execBound>>,
         doing' = doing
  PROVE  GoalInv'
  <1>1. RowTypes /\ HostTypes BY InvParts
  <1>2. k \in ActiveKeys BY DEF ActiveKeys
  <1>3. exec.status # "ABSENT" BY <1>2, InvParts
  <1>4. child' \in [StepKey -> ChildStatus] BY <1>1 DEF RowTypes, ChildStatus
  <1>5. \A j \in StepKey : child'[j] = child[j] \/ (child[j] = "ACTIVE" /\ child'[j] \in ChildOver)
    BY <1>1 DEF RowTypes
  <1>6. ActiveKeys' \subseteq ActiveKeys BY <1>5 DEF ActiveKeys, ChildOver
  <1>7. HostTypes' BY <1>1 DEF HostTypes, execBound
  <1>8. (FlowLive' <=> FlowLive) /\ goalFlow' \in [status : FlowStatus, cancel : BOOLEAN]
    BY <1>1 DEF FlowLive, RowTypes
  <1> QED BY <1>3, <1>4, <1>5, <1>6, <1>7, <1>8, InvParts, Quiet DEF goalVars

\* The Run of a child ends.
LEMMA TaskEndsQuiet ==
  ASSUME GoalInv, NEW k \in StepKey, NEW s \in {"SUCCEEDED", "BLOCKED", "FAILED"}, TaskEnds(k, s)
  PROVE  GoalInv'
  <1>1. wake' \in [StepKey -> WakeStatus] BY InvParts DEF TaskEnds, HostTypes, WakeStatus
  <1> QED BY <1>1, EndsQuiet DEF TaskEnds, ChildOver

\* An operator cancels a child.
LEMMA OperatorCancelsTaskQuiet == ASSUME GoalInv, NEW k \in StepKey, OperatorCancelsTask(k) PROVE GoalInv'
  <1>1. wake' \in [StepKey -> WakeStatus] BY InvParts DEF OperatorCancelsTask, HostTypes, WakeStatus
  <1> QED BY <1>1, EndsQuiet DEF OperatorCancelsTask, ChildOver

\* The cancellation of the plan ends its children one by one.
LEMMA CancelNextChildQuiet == ASSUME GoalInv, CancelNextChild PROVE GoalInv'
  <1>1. CASE ActiveKeys = {}
    <2>1. HostTypes' BY <1>1, InvParts DEF CancelNextChild, HostTypes, Phase, execBound
    <2>2. exec.status # "ABSENT" BY InvParts DEF CancelNextChild
    <2> QED BY <1>1, <2>1, <2>2, InvParts, Still DEF CancelNextChild, goalVars
  <1>2. CASE ActiveKeys # {}
    <2>1. PICK k \in ActiveKeys : /\ child' = [child EXCEPT ![k] = "CANCELLED"]
                                  /\ wake' = [wake EXCEPT ![k] = "CLOSED"]
                                  /\ ended' = ended \cup {k}
                                  /\ UNCHANGED doing
      BY <1>2 DEF CancelNextChild
    <2>2. k \in StepKey /\ child[k] = "ACTIVE" BY DEF ActiveKeys
    <2>3. wake' \in [StepKey -> WakeStatus] BY <2>1, <2>2, InvParts DEF HostTypes, WakeStatus
    <2> QED BY <2>1, <2>2, <2>3, EndsQuiet DEF CancelNextChild, ChildOver
  <1> QED BY <1>1, <1>2

\* The recovery of the Runs fails some of the children.
LEMMA RunsRecoverQuiet == ASSUME GoalInv, RunsRecover PROVE GoalInv'
  <1>1. RowTypes /\ HostTypes /\ exec.status # "ABSENT" BY InvParts DEF RunsRecover
  <1>2. PICK lost \in SUBSET ActiveKeys :
           /\ child' = [k \in StepKey |-> IF k \in lost THEN "FAILED" ELSE child[k]]
           /\ wake' = [k \in StepKey |-> IF k \in lost THEN "PENDING" ELSE wake[k]]
    BY DEF RunsRecover
  <1>3. \A k \in lost : k \in StepKey /\ child[k] = "ACTIVE" BY DEF ActiveKeys
  <1>4. child' \in [StepKey -> ChildStatus] BY <1>1, <1>2 DEF RowTypes, ChildStatus, ChildOver
  <1>5. \A k \in StepKey : child'[k] = child[k] \/ (child[k] = "ACTIVE" /\ child'[k] \in ChildOver)
    BY <1>2, <1>3 DEF ChildOver
  <1>6. wake' \in [StepKey -> WakeStatus] BY <1>1, <1>2 DEF HostTypes, WakeStatus
  <1>7. HostTypes' BY <1>1, <1>6 DEF RunsRecover, HostTypes, Phase, execBound
  <1>8. (FlowLive' <=> FlowLive) /\ goalFlow' \in [status : FlowStatus, cancel : BOOLEAN]
    BY <1>1 DEF RunsRecover, FlowLive, RowTypes
  <1>9. doing' = "recover" BY DEF RunsRecover
  <1> QED BY <1>1, <1>4, <1>5, <1>7, <1>8, <1>9, Quiet DEF RunsRecover, goalVars

\* The end of a cancellation closes the Flow: no child runs any more.
LEMMA CancelFinalQuiet == ASSUME GoalInv, CancelFinal PROVE GoalInv'
  <1>1. RowTypes /\ HostTypes /\ exec.status # "ABSENT" /\ ActiveKeys = {} BY InvParts DEF CancelFinal
  <1>2. /\ goalFlow' \in [status : FlowStatus, cancel : BOOLEAN] /\ ~FlowLive'
    BY <1>1 DEF CancelFinal, RowTypes, FlowStatus, ExecActive, ExecTerminal, FlowLive
  <1>3. HostTypes' BY <1>1, WakeFacts DEF CancelFinal, HostTypes, execBound, Phase
  <1>4. child' \in [StepKey -> ChildStatus] /\ ActiveKeys' = ActiveKeys
    BY <1>1 DEF CancelFinal, RowTypes, ActiveKeys
  <1> QED BY <1>1, <1>2, <1>3, <1>4, Quiet DEF CancelFinal, goalVars

-----------------------------------------------------------------------------
\* A child that has succeeded stays the proof that its step is done, for every
\* definition it had.
LEMMA EarnedKept ==
  ASSUME NEW s, NEW d, Earned(s, d),
         \A k \in StepKey : child[k] = "SUCCEEDED" => child'[k] = "SUCCEEDED" /\ DefAt(k[1], s)' = DefAt(k[1], s)
  PROVE  \E k \in StepKey : child'[k] = "SUCCEEDED" /\ k[2] = s /\ DefAt(k[1], s)' = d
  BY DEF Earned

\* A busy step of the pinned plan is the only one: when it does not run, no child does.
LEMMA NoActive ==
  ASSUME GoalInv, exec.status \in ExecActive, NEW s \in InPlan(exec.rev), At(s).status \in Busy,
         At(s).status = "RUNNING" => child[KeyOf(s)] # "ACTIVE"
  PROVE  ActiveKeys = {}
  <1>1. /\ RowTypes /\ RunningOK /\ ActiveOK /\ BusyOK /\ exec.status # "ABSENT"
    BY DEF GoalInv, ExecActive
  <1> SUFFICES ASSUME NEW k \in ActiveKeys PROVE FALSE
    OBVIOUS
  <1>2. k \in StepKey /\ child[k] = "ACTIVE" BY DEF ActiveKeys
  <1>3. k[1] = exec.rev /\ At(k[2]).status = "RUNNING" /\ At(k[2]).task = k[3] BY <1>1 DEF ActiveOK
  <1>4. k[1] \in Revision /\ k[2] \in Step /\ k = <<k[1], k[2], k[3]>> BY <1>2, KeyFacts
  <1>5. k[2] \in InPlan(exec.rev) BY <1>1, <1>3, <1>4 DEF RunningOK, At
  <1>6. k[2] = s BY <1>1, <1>3, <1>5 DEF BusyOK, Busy
  <1>7. KeyOf(s) = k BY <1>3, <1>4, <1>6 DEF KeyOf
  <1> QED BY <1>2, <1>3, <1>6, <1>7

\* A step that waits for its turn, runs or waits belongs to an execution that is not blocked.
LEMMA NoBlocker ==
  ASSUME GoalInv, exec.status \in ExecActive, NEW s \in InPlan(exec.rev),
         At(s).status \in {"READY", "RUNNING", "WAITING"}
  PROVE  exec.status # "BLOCKED" /\ \A b \in DOMAIN blocker : blocker[b] # "OPEN"
  <1>1. BusyOK /\ BlockerOK /\ exec.status # "ABSENT" BY DEF GoalInv, ExecActive
  <1>2. \A b \in DOMAIN blocker : blocker[b] # "OPEN"
    <2> SUFFICES ASSUME NEW b \in DOMAIN blocker, blocker[b] = "OPEN" PROVE FALSE
      OBVIOUS
    <2>1. b[2] \in InPlan(exec.rev) /\ At(b[2]).status \in {"BLOCKED", "FAILED"} BY <1>1 DEF BlockerOK
    <2>2. b[2] = s BY <1>1, <2>1 DEF BusyOK, Busy
    <2> QED BY <2>1, <2>2
  <1> QED BY <1>1, <1>2 DEF BlockerOK

\* The steps that are open in one way are in the plan, and all the same.
LEMMA OpenSteps ==
  ASSUME GoalInv, exec.status # "ABSENT", NEW x \in Busy
  PROVE  /\ StepsIn(x) \subseteq InPlan(exec.rev)
         /\ \A s \in StepsIn(x) : At(s).status = x /\ s \in Step
         /\ \A s, e \in StepsIn(x) : s = e
         /\ StepsIn(x) # {} => First(StepsIn(x)) \in StepsIn(x)
  <1>1. BusyOK /\ plan \in [Revision -> Drafts \cup {<<>>}] BY DEF GoalInv, RowTypes
  <1>2. StepsIn(x) \subseteq InPlan(exec.rev) /\ \A s \in StepsIn(x) : At(s).status = x BY DEF StepsIn
  <1>3. \A s, e \in StepsIn(x) : s = e BY <1>1, <1>2 DEF BusyOK
  <1>4. \A s \in StepsIn(x) : s \in Step BY <1>1, <1>2, PlanFacts
  <1> QED BY <1>1, <1>2, <1>3, <1>4, FirstFacts

\* The open step of the pinned plan moves on: it gets the record d, and a child
\* or a blocker of its own or neither.
LEMMA MoveStep ==
  ASSUME GoalInv, exec.status \in ExecActive, ActiveKeys = {},
         NEW s \in InPlan(exec.rev), At(s).status \in Busy,
         NEW d \in StepExecRow, d.status \in Busy, d.tries >= At(s).tries, d.tries <= MaxAttempts,
         d.status \in Waiting => d.tries < MaxAttempts,
         NEW st \in ExecActive, d.status \in {"BLOCKED", "FAILED"} <=> st = "BLOCKED",
         stepExec' = [stepExec EXCEPT ![exec.rev][s] = d],
         exec' = [status |-> st, rev |-> exec.rev, cur |-> s],
         \/ child' = child /\ d.status # "RUNNING"
         \/ /\ d.status = "RUNNING" /\ d.task \in 1 .. d.tries
            /\ child[<<exec.rev, s, d.task>>] = "NONE"
            /\ child' = [child EXCEPT ![<<exec.rev, s, d.task>>] = "ACTIVE"],
         blocker' \in [Revision \X Step \X Kind -> BlockerStatus],
         st # "BLOCKED" => \A b \in DOMAIN blocker' : blocker'[b] # "OPEN",
         st = "BLOCKED" => \E b \in DOMAIN blocker' :
             b[1] = exec.rev /\ b[2] = s /\ blocker'[b] = "OPEN" /\ \A c \in DOMAIN blocker' : blocker'[c] = "OPEN" => c = b,
         plan' = plan, goal' \in GoalRow, goal'.rev = goal.rev, goal'.status # "ABSENT",
         goal'.status = "ACTIVE" => goal'.count < 3,
         planStep' \in [Step -> StepState],
         \A e \in Step : planStep'[e] = "COMPLETED" => planStep[e] = "COMPLETED",
         goalFlow' \in [status : FlowStatus, cancel : BOOLEAN], FlowLive',
         HostTypes', doing' \notin {"final", "project"}
  PROVE  GoalInv'
  <1>1. /\ RowTypes /\ HostTypes /\ GoalOK /\ AbsentOK /\ PinnedOK /\ LiveOK /\ KeysOK /\ RunningOK /\ ActiveOK
        /\ BusyOK /\ TriesOK /\ BlockerOK
        /\ AttemptsBounded /\ CompletionIsEarned
    BY DEF GoalInv
  <1>2. /\ exec.rev \in Revision /\ s \in Step /\ exec.status # "ABSENT" /\ exec.rev <= goal.rev
        /\ plan \in [Revision -> Drafts \cup {<<>>}] /\ exec.rev \in 0 .. MaxRev
        /\ stepExec \in [Revision -> [Step -> StepExecRow]] /\ child \in [StepKey -> ChildStatus]
        /\ blocker \in [Revision \X Step \X Kind -> BlockerStatus]
    BY <1>1, PlanFacts DEF RowTypes, PinnedOK, ExecActive, ExecRow
  <1>3. /\ exec'.rev = exec.rev /\ exec'.status = st /\ exec'.cur = s /\ exec' \in ExecRow /\ st # "ABSENT"
    BY <1>2 DEF ExecRow, ExecActive
  <1>4. /\ stepExec' \in [Revision -> [Step -> StepExecRow]]
        /\ \A r \in Revision, e \in Step : r # exec.rev \/ e # s => stepExec'[r][e] = stepExec[r][e]
        /\ stepExec'[exec.rev][s] = d
    BY <1>2
  <1>5. /\ \A r : InPlan(r)' = InPlan(r)
        /\ \A r, e : DefAt(r, e)' = DefAt(r, e)
    BY DEF InPlan, DefAt
  <1>6. /\ At(s)' = d /\ \A e \in Step : e # s => At(e)' = At(e)
    BY <1>2, <1>3, <1>4 DEF At
  <1>7. \A k \in StepKey : child'[k] = child[k] \/ (k = <<exec.rev, s, d.task>> /\ child[k] = "NONE"
                                                 /\ d.status = "RUNNING" /\ child'[k] = "ACTIVE" /\ d.task <= d.tries)
    <2> DEFINE key == <<exec.rev, s, d.task>>
    <2>1. CASE child' = child BY <2>1
    <2>2. CASE /\ d.status = "RUNNING" /\ d.task \in 1 .. d.tries
               /\ child[key] = "NONE" /\ child' = [child EXCEPT ![key] = "ACTIVE"]
      <3>1. d.task <= d.tries BY <2>2
      <3> HIDE DEF key
      <3>2. \A k \in StepKey : k # key => child'[k] = child[k] BY <1>2, <2>2
      <3>3. \A k \in StepKey : k = key => child'[k] = "ACTIVE" BY <1>2, <2>2
      <3> QED BY <2>2, <3>1, <3>2, <3>3 DEF key
    <2> QED BY <2>1, <2>2
  <1>8. d.tries \in Nat /\ d.task \in 0 .. MaxAttempts + 1 BY Constants DEF StepExecRow
  <1>9. RowTypes'
    <2>1. child' \in [StepKey -> ChildStatus] BY <1>2 DEF ChildStatus
    <2> QED BY <1>1, <1>3, <1>4, <2>1 DEF RowTypes
  <1>10. GoalOK'
    <2>1. goal'.rev >= 1 BY <1>1, <1>2 DEF GoalOK, PinnedOK
    <2> QED BY <2>1 DEF GoalOK
  <1>11. AbsentOK' BY <1>3 DEF AbsentOK
  <1>12. PinnedOK' BY <1>2, <1>3 DEF PinnedOK
  <1>13. LiveOK' BY <1>3 DEF LiveOK, ExecActive
  <1>14. KeysOK'
    <2> SUFFICES ASSUME NEW k \in StepKey, child'[k] # "NONE"
                 PROVE  k[1] <= exec'.rev /\ k[3] <= stepExec'[k[1]][k[2]].tries
      BY DEF KeysOK
    <2>1. k[1] \in Revision /\ k[2] \in Step /\ k[3] \in 1 .. MaxAttempts + 1 BY KeyFacts
    <2>2. CASE child'[k] = child[k]
      <3>1. k[1] <= exec.rev /\ k[3] <= stepExec[k[1]][k[2]].tries BY <1>1, <2>2 DEF KeysOK
      <3>2. stepExec[exec.rev][s].tries \in Nat BY <1>2, Constants DEF StepExecRow
      <3>3. k[1] = exec.rev /\ k[2] = s => k[3] <= d.tries
        BY <1>8, <2>1, <3>1, <3>2, Constants DEF At
      <3> QED BY <1>3, <1>4, <2>1, <3>1, <3>3
    <2>3. CASE k = <<exec.rev, s, d.task>> /\ d.task <= d.tries
      BY <1>2, <1>3, <1>4, <2>3, Constants
    <2> QED BY <1>7, <2>2, <2>3
  <1>15. RunningOK'
    <2>1. d.status = "RUNNING" => d.task > 0 BY <1>8
    <2> QED BY <1>1, <1>2, <1>3, <1>4, <1>5, <2>1 DEF RunningOK
  <1>16. ActiveOK'
    <2>1. \A k \in ActiveKeys' : k = <<exec.rev, s, d.task>> /\ d.status = "RUNNING"
      BY <1>7 DEF ActiveKeys
    <2>2. <<exec.rev, s, d.task>>[1] = exec.rev /\ <<exec.rev, s, d.task>>[2] = s /\ <<exec.rev, s, d.task>>[3] = d.task
      OBVIOUS
    <2>3. \A k \in ActiveKeys' : k[1] = exec'.rev /\ (At(k[2]).status)' = "RUNNING" /\ (At(k[2]).task)' = k[3]
      <3> SUFFICES ASSUME NEW k \in ActiveKeys'
                   PROVE  k[1] = exec'.rev /\ stepExec'[exec'.rev][k[2]].status = "RUNNING"
                          /\ stepExec'[exec'.rev][k[2]].task = k[3]
        BY DEF At
      <3> QED BY <1>3, <1>4, <2>1, <2>2
    <2> QED BY <2>1, <2>3 DEF ActiveOK
  <1>17. BusyOK'
    <2> SUFFICES ASSUME NEW x \in InPlan(exec.rev), (At(x).status)' \in Busy PROVE x = s
      BY <1>3, <1>5 DEF BusyOK
    <2>1. x \in Step BY <1>2, PlanFacts
    <2>2. x # s => At(x).status \in Busy BY <1>6, <2>1
    <2> QED BY <1>1, <1>2, <2>2 DEF BusyOK
  <1>18. TriesOK'
    <2> SUFFICES ASSUME NEW x \in InPlan(exec.rev)
                 PROVE  /\ (At(x).status)' \in Waiting => (At(x).tries)' < MaxAttempts
                        /\ (At(x).status)' \notin {"NONE", "CANCELLED"}
                        /\ (At(x).status)' \in {"BLOCKED", "FAILED"} => st = "BLOCKED"
      BY <1>3, <1>5 DEF TriesOK
    <2>1. x \in Step BY <1>2, PlanFacts
    <2>2. CASE x = s BY <1>6, <2>2 DEF Busy
    <2>3. CASE x # s
      <3>1. At(x).status \notin Busy BY <1>1, <1>2, <2>3 DEF BusyOK
      <3> QED BY <1>1, <1>6, <2>1, <2>3, <3>1 DEF TriesOK, Busy
    <2> QED BY <2>2, <2>3
  <1>19. BlockerOK'
    <2>1. CASE st # "BLOCKED"
      BY <1>3, <2>1 DEF BlockerOK
    <2>2. CASE st = "BLOCKED"
      <3>1. PICK b \in DOMAIN blocker' : b[1] = exec.rev /\ b[2] = s /\ blocker'[b] = "OPEN"
                                         /\ \A c \in DOMAIN blocker' : blocker'[c] = "OPEN" => c = b
        BY <2>2
      <3>2. stepExec'[exec'.rev][s].status \in {"BLOCKED", "FAILED"} BY <1>3, <1>4, <2>2
      <3>3. s \in InPlan(exec.rev)' BY <1>3, <1>5
      <3>4. \A c \in DOMAIN blocker' : blocker'[c] = "OPEN" => c[1] = exec'.rev /\ c[2] = s BY <1>3, <3>1
      <3>5. \E c \in DOMAIN blocker' : blocker'[c] = "OPEN" BY <3>1
      <3>6. \A c, e \in DOMAIN blocker' : blocker'[c] = "OPEN" /\ blocker'[e] = "OPEN" => c = e BY <3>1
      <3>7. (At(s).status)' \in {"BLOCKED", "FAILED"} BY <3>2 DEF At
      <3> QED BY <1>3, <2>2, <3>3, <3>4, <3>5, <3>6, <3>7 DEF BlockerOK
    <2> QED BY <2>1, <2>2
  <1>20. AttemptsBounded' BY <1>1, <1>4 DEF AttemptsBounded
  <1>21. CompletionIsEarned'
    <2>1. \A k \in StepKey : child[k] = "SUCCEEDED" => child'[k] = "SUCCEEDED" BY <1>7
    <2>2. ASSUME NEW x, NEW y, Earned(x, y) PROVE Earned(x, y)'
      BY <2>1, <2>2, <1>5 DEF Earned
    <2>3. /\ \A x \in InPlan(exec.rev) : StepDone(x) => Earned(x, DefAt(exec.rev, x))
          /\ \A x \in InPlan(goal.rev) : planStep[x] = "COMPLETED" => Earned(x, DefAt(goal.rev, x))
      BY <1>1, <1>2 DEF CompletionIsEarned
    <2>4. ASSUME NEW x \in InPlan(exec.rev)', StepDone(x)' PROVE Earned(x, DefAt(exec.rev, x))'
      <3>1. x \in InPlan(exec.rev) /\ x \in Step /\ DefAt(exec.rev, x)' = DefAt(exec.rev, x)
        BY <1>2, <1>3, <1>5, PlanFacts DEF InPlan, DefAt
      <3>2. StepDone(x) BY <2>4, <1>6, <3>1 DEF StepDone, Busy
      <3>3. Earned(x, DefAt(exec.rev, x)) BY <2>3, <3>1, <3>2
      <3>4. PICK k \in StepKey : child[k] = "SUCCEEDED" /\ k[2] = x /\ DefAt(k[1], x) = DefAt(exec.rev, x)
        BY <3>3 DEF Earned
      <3>5. child'[k] = "SUCCEEDED" /\ DefAt(k[1], x)' = DefAt(k[1], x) BY <2>1, <3>4, <1>5
      <3> QED BY <3>1, <3>4, <3>5 DEF Earned
    <2>5. ASSUME NEW x \in InPlan(goal.rev)', planStep'[x] = "COMPLETED" PROVE Earned(x, DefAt(goal.rev, x))'
      <3>1. x \in InPlan(goal.rev) /\ x \in Step /\ DefAt(goal.rev, x)' = DefAt(goal.rev, x)
        BY <1>2, <1>5, PlanFacts DEF InPlan, DefAt
      <3>2. Earned(x, DefAt(goal.rev, x)) BY <2>3, <2>5, <3>1
      <3>4. PICK k \in StepKey : child[k] = "SUCCEEDED" /\ k[2] = x /\ DefAt(k[1], x) = DefAt(goal.rev, x)
        BY <3>2 DEF Earned
      <3>5. child'[k] = "SUCCEEDED" /\ DefAt(k[1], x)' = DefAt(k[1], x) BY <2>1, <3>4, <1>5
      <3> QED BY <3>1, <3>4, <3>5 DEF Earned
    <2> QED BY <1>3, <2>4, <2>5 DEF CompletionIsEarned, ExecActive
  <1>22. ToolsKeepOrder' BY <1>3 DEF ToolsKeepOrder
  <1> QED BY <1>9, <1>10, <1>11, <1>12, <1>13, <1>14, <1>15, <1>16, <1>17, <1>18, <1>19, <1>20, <1>21, <1>22
          DEF GoalInv

-----------------------------------------------------------------------------
\* The admission of the READY step.
LEMMA AdmitReadyMoves ==
  ASSUME GoalInv, exec.status \in ExecActive, NEW s \in Step, AdmitReady(s), HostTypes',
         doing' \notin {"final", "project"}
  PROVE  GoalInv'
  <1> DEFINE n == At(s).tries + 1
             d == [status |-> "RUNNING", tries |-> n, task |-> n]
  <1>1. /\ RowTypes /\ GoalOK /\ KeysOK /\ TriesOK /\ PinnedOK /\ exec.status # "ABSENT" /\ ActiveOK
    BY DEF GoalInv, ExecActive
  <1>2. StepsIn("READY") # {} /\ s = First(StepsIn("READY")) BY DEF AdmitReady, Admissible
  <1>3. s \in InPlan(exec.rev) /\ At(s).status = "READY" BY <1>1, <1>2, OpenSteps DEF Busy
  <1>4. At(s).tries < MaxAttempts BY <1>1, <1>3 DEF TriesOK, Waiting
  <1>5. exec.rev \in Revision /\ At(s) \in StepExecRow /\ At(s).tries \in Nat
    BY <1>1, Constants DEF RowTypes, PinnedOK, At, StepExecRow
  <1>6. /\ d \in StepExecRow /\ d.status = "RUNNING" /\ d.tries = n /\ d.task = n /\ n \in 1 .. MaxAttempts + 1
        /\ n >= At(s).tries /\ n <= MaxAttempts /\ n \in 1 .. n
    BY <1>4, <1>5, Constants DEF StepExecRow, StepStatus
  <1>7. child[<<exec.rev, s, n>>] = "NONE"
    <2>1. <<exec.rev, s, n>> \in StepKey /\ <<exec.rev, s, n>>[1] = exec.rev /\ <<exec.rev, s, n>>[2] = s
          /\ <<exec.rev, s, n>>[3] = n
      BY <1>5, <1>6, KeyFacts
    <2>2. ~(n <= At(s).tries) BY <1>5
    <2> QED BY <1>1, <2>1, <2>2 DEF KeysOK, At
  <1>8. ActiveKeys = {} BY <1>3, NoActive DEF Busy
  <1>9. exec.status # "BLOCKED" /\ \A b \in DOMAIN blocker : blocker[b] # "OPEN" BY <1>3, NoBlocker
  <1>10. /\ child' = [child EXCEPT ![<<exec.rev, s, n>>] = "ACTIVE"]
         /\ stepExec' = [stepExec EXCEPT ![exec.rev][s] = d]
         /\ exec' = [exec EXCEPT !.status = "RUNNING", !.cur = s]
         /\ goalFlow' = [goalFlow EXCEPT !.status = "RUNNING"]
         /\ UNCHANGED <<goal, plan, blocker>>
    BY DEF AdmitReady
  <1>11. Project(s, {"PENDING", "BLOCKED"}, "IN_PROGRESS") BY DEF AdmitReady
  <1>12. /\ planStep' \in [Step -> StepState]
         /\ \A e \in Step : planStep'[e] = "COMPLETED" => planStep[e] = "COMPLETED"
    BY <1>1, <1>11, ProjectFacts DEF RowTypes, StepState
  <1>13. /\ goalFlow' \in [status : FlowStatus, cancel : BOOLEAN] /\ FlowLive'
    BY <1>1, <1>10 DEF RowTypes, FlowStatus, ExecActive, FlowLive
  <1>14. exec' = [status |-> "RUNNING", rev |-> exec.rev, cur |-> s] BY <1>1, <1>10 DEF RowTypes, ExecRow
  <1>15. /\ goal' \in GoalRow /\ goal'.rev = goal.rev /\ goal'.status # "ABSENT"
         /\ goal'.status = "ACTIVE" => goal'.count < 3
    BY <1>1, <1>10 DEF RowTypes, PinnedOK, GoalOK
  <1>16. blocker' \in [Revision \X Step \X Kind -> BlockerStatus] /\ \A b \in DOMAIN blocker' : blocker'[b] # "OPEN"
    BY <1>1, <1>9, <1>10 DEF RowTypes
  <1>17. d.status \in Busy /\ d.status \notin Waiting /\ d.status \notin {"BLOCKED", "FAILED"}
         /\ "RUNNING" \in ExecActive /\ "RUNNING" # "BLOCKED"
    BY <1>6 DEF Busy, Waiting, ExecActive
  <1>18. At(s).status \in Busy BY <1>3 DEF Busy
  <1>19. /\ d.status = "RUNNING" /\ d.task \in 1 .. d.tries
         /\ child[<<exec.rev, s, d.task>>] = "NONE"
         /\ child' = [child EXCEPT ![<<exec.rev, s, d.task>>] = "ACTIVE"]
    BY <1>6, <1>7, <1>10
  <1>20. d.tries >= At(s).tries /\ d.tries <= MaxAttempts BY <1>6
  <1>21. stepExec' = [stepExec EXCEPT ![exec.rev][s] = d] /\ d \in StepExecRow /\ plan' = plan BY <1>6, <1>10
  <1> HIDE DEF d, n
  <1> QED BY <1>3, <1>8, <1>12, <1>13, <1>14, <1>15, <1>16, <1>17, <1>18, <1>19, <1>20, <1>21, MoveStep

\* A Goal that is unblocked is ACTIVE again, and its count starts anew.
LEMMA UnblockedFacts ==
  ASSUME RowTypes, GoalOK, goal.status # "ABSENT", goal' = goal \/ Unblocked
  PROVE  /\ goal' \in GoalRow /\ goal'.rev = goal.rev /\ goal'.status # "ABSENT"
         /\ goal'.status = "ACTIVE" => goal'.count < 3
  <1>1. CASE goal' = goal BY <1>1 DEF RowTypes, GoalOK
  <1>2. CASE goal' = [goal EXCEPT !.status = "ACTIVE", !.note = NoNote, !.count = 0]
    <2>1. goal' = [status |-> "ACTIVE", rev |-> goal.rev, note |-> NoNote, count |-> 0] /\ goal.rev \in 0 .. MaxRev
      BY <1>2 DEF RowTypes, GoalRow
    <2>2. "ACTIVE" \in Open BY DEF Open
    <2>3. goal' \in GoalRow BY <2>1, <2>2 DEF GoalRow
    <2> QED BY <2>1, <2>3
  <1> QED BY <1>1, <1>2 DEF Unblocked

\* A step that moves without a child or a blocker, to READY or WAITING.
LEMMA QueueStep ==
  ASSUME GoalInv, exec.status \in ExecActive, ActiveKeys = {},
         NEW s \in InPlan(exec.rev), At(s).status \in Busy, At(s).tries < MaxAttempts,
         NEW x \in {"READY", "WAITING"}, NEW st \in {"QUEUED", "WAITING"},
         stepExec' = [stepExec EXCEPT ![exec.rev][s].status = x, ![exec.rev][s].task = 0],
         exec' = [exec EXCEPT !.status = st, !.cur = s],
         goalFlow' = [goalFlow EXCEPT !.status = st],
         blocker' \in [Revision \X Step \X Kind -> BlockerStatus],
         \A b \in DOMAIN blocker' : blocker'[b] # "OPEN",
         UNCHANGED <<plan, child>>, goal' = goal \/ Unblocked,
         planStep' = planStep \/ Project(s, {"BLOCKED"}, "IN_PROGRESS"),
         HostTypes', doing' \notin {"final", "project"}
  PROVE  GoalInv'
  <1> DEFINE d == [status |-> x, tries |-> At(s).tries, task |-> 0]
  <1>1. RowTypes /\ GoalOK /\ PinnedOK /\ exec.status # "ABSENT" BY DEF GoalInv, ExecActive
  <1>2. exec.rev \in Revision /\ s \in Step /\ At(s) \in StepExecRow /\ At(s).tries \in Nat
    BY <1>1, Constants, PlanFacts DEF RowTypes, PinnedOK, At, StepExecRow
  <1>3. d \in StepExecRow /\ d.status = x /\ d.tries = At(s).tries
    BY <1>2, Constants DEF StepExecRow, StepStatus
  <1>4. stepExec' = [stepExec EXCEPT ![exec.rev][s] = d]
    <2> DEFINE f == stepExec
               a == f[exec.rev][s]
               b == [a EXCEPT !.status = x]
               g == [f EXCEPT ![exec.rev][s].status = x]
    <2>1. f \in [Revision -> [Step -> StepExecRow]] BY <1>1 DEF RowTypes
    <2>2. a \in StepExecRow /\ f[exec.rev] \in [Step -> StepExecRow] BY <1>2, <2>1
    <2>3. b = [status |-> x, tries |-> a.tries, task |-> a.task] BY <2>2 DEF StepExecRow
    <2>4. g[exec.rev][s] = b /\ g = [f EXCEPT ![exec.rev] = [f[exec.rev] EXCEPT ![s] = b]] BY <1>2, <2>1
    <2>5. a = At(s) BY DEF At
    <2> HIDE DEF b
    <2>6. [b EXCEPT !.task = 0] = d BY <2>3, <2>5
    <2> HIDE DEF d
    <2>7. stepExec' = [g EXCEPT ![exec.rev][s].task = 0] OBVIOUS
    <2>8. [g EXCEPT ![exec.rev][s].task = 0]
            = [g EXCEPT ![exec.rev] = [g[exec.rev] EXCEPT ![s] = [b EXCEPT !.task = 0]]]
      BY <2>4
    <2>9. g[exec.rev] = [f[exec.rev] EXCEPT ![s] = b] BY <1>2, <2>1, <2>4
    <2>10. [g[exec.rev] EXCEPT ![s] = d] = [f[exec.rev] EXCEPT ![s] = d] BY <1>2, <2>2, <2>9
    <2>11. [g EXCEPT ![exec.rev] = [f[exec.rev] EXCEPT ![s] = d]] = [f EXCEPT ![exec.rev] = [f[exec.rev] EXCEPT ![s] = d]]
      BY <1>2, <2>1, <2>4
    <2> QED BY <2>6, <2>7, <2>8, <2>10, <2>11
  <1>5. exec' = [status |-> st, rev |-> exec.rev, cur |-> s] BY <1>1 DEF RowTypes, ExecRow
  <1>6. /\ goalFlow' \in [status : FlowStatus, cancel : BOOLEAN] /\ FlowLive'
    BY <1>1 DEF RowTypes, FlowStatus, ExecActive, FlowLive
  <1>7. /\ goal' \in GoalRow /\ goal'.rev = goal.rev /\ goal'.status # "ABSENT"
        /\ goal'.status = "ACTIVE" => goal'.count < 3
    BY <1>1, UnblockedFacts DEF PinnedOK
  <1>8. /\ planStep' \in [Step -> StepState]
        /\ \A e \in Step : planStep'[e] = "COMPLETED" => planStep[e] = "COMPLETED"
    <2>1. CASE planStep' = planStep BY <1>1, <2>1 DEF RowTypes
    <2>2. CASE Project(s, {"BLOCKED"}, "IN_PROGRESS")
      BY <1>1, <2>2, ProjectFacts DEF RowTypes, StepState
    <2> QED BY <2>1, <2>2
  <1>9. /\ d.status \in Busy /\ d.status # "RUNNING" /\ st \in ExecActive /\ st # "BLOCKED"
        /\ d.status \notin {"BLOCKED", "FAILED"}
    BY <1>3 DEF Busy, ExecActive
  <1>10. d.tries >= At(s).tries /\ d.tries <= MaxAttempts /\ d.tries < MaxAttempts BY <1>2, <1>3, Constants
  <1> HIDE DEF d
  <1> QED BY <1>3, <1>4, <1>5, <1>6, <1>7, <1>8, <1>9, <1>10, MoveStep

\* The controller sets the step aside.
LEMMA WaitMoves == ASSUME GoalInv, NEW c \in Caller, Wait(c) PROVE GoalInv'
  <1> DEFINE s == First(StepsIn("READY"))
  <1>1. /\ RowTypes /\ HostTypes /\ TriesOK /\ FlowLive /\ exec.status \in ExecActive /\ exec.status # "ABSENT"
    BY InvParts DEF GoalInv, Wait, FlowLive, ExecActive
  <1>2. /\ s \in InPlan(exec.rev) /\ At(s).status = "READY"
    BY <1>1, OpenSteps DEF Wait, Busy
  <1>3. At(s).tries < MaxAttempts BY <1>1, <1>2 DEF TriesOK, Waiting
  <1>4. ActiveKeys = {} /\ \A b \in DOMAIN blocker : blocker[b] # "OPEN"
    BY <1>1, <1>2, NoActive, NoBlocker DEF Busy
  <1>5. HostTypes' BY <1>1, WakeFacts DEF Wait, HostTypes, execBound
  <1>6. doing' \notin {"final", "project"} BY DEF Wait, MayCall
  <1>7. /\ stepExec' = [stepExec EXCEPT ![exec.rev][s].status = "WAITING", ![exec.rev][s].task = 0]
        /\ exec' = [exec EXCEPT !.status = "WAITING", !.cur = s]
        /\ goalFlow' = [goalFlow EXCEPT !.status = "WAITING"]
        /\ UNCHANGED <<goal, plan, planStep, blocker, child>>
    BY DEF Wait, goalVars
  <1>8. blocker' \in [Revision \X Step \X Kind -> BlockerStatus] /\ \A b \in DOMAIN blocker' : blocker'[b] # "OPEN"
    BY <1>1, <1>4, <1>7 DEF RowTypes
  <1>9. At(s).status \in Busy BY <1>2 DEF Busy
  <1> HIDE DEF s
  <1> QED BY <1>1, <1>2, <1>3, <1>4, <1>5, <1>6, <1>7, <1>8, <1>9, QueueStep

\* The step that was set aside is READY again.
LEMMA ResumeMoves == ASSUME GoalInv, Resume PROVE GoalInv'
  <1> DEFINE s == First(StepsIn("WAITING"))
  <1>1. /\ RowTypes /\ HostTypes /\ TriesOK /\ FlowLive /\ exec.status \in ExecActive /\ exec.status # "ABSENT"
    BY InvParts DEF GoalInv, Resume, ExecActive
  <1>2. /\ s \in InPlan(exec.rev) /\ At(s).status = "WAITING"
    BY <1>1, OpenSteps DEF Resume, Busy
  <1>3. At(s).tries < MaxAttempts BY <1>1, <1>2 DEF TriesOK, Waiting
  <1>4. ActiveKeys = {} /\ \A b \in DOMAIN blocker : blocker[b] # "OPEN"
    BY <1>1, <1>2, NoActive, NoBlocker DEF Busy
  <1>5. HostTypes' BY <1>1, WakeFacts DEF Resume, HostTypes, execBound, Phase
  <1>6. doing' \notin {"final", "project"} BY DEF Resume
  <1>7. /\ stepExec' = [stepExec EXCEPT ![exec.rev][s].status = "READY", ![exec.rev][s].task = 0]
        /\ exec' = [exec EXCEPT !.status = "QUEUED", !.cur = s]
        /\ goalFlow' = [goalFlow EXCEPT !.status = "QUEUED"]
        /\ Project(s, {"BLOCKED"}, "IN_PROGRESS") /\ Unblocked
        /\ UNCHANGED <<plan, blocker, child>>
    BY DEF Resume
  <1>8. blocker' \in [Revision \X Step \X Kind -> BlockerStatus] /\ \A b \in DOMAIN blocker' : blocker'[b] # "OPEN"
    BY <1>1, <1>4, <1>7 DEF RowTypes
  <1>9. At(s).status \in Busy BY <1>2 DEF Busy
  <1> HIDE DEF s
  <1> QED BY <1>1, <1>2, <1>3, <1>4, <1>5, <1>6, <1>7, <1>8, <1>9, QueueStep

\* The step that was blocked is READY again and its blocker is resolved.
LEMMA ResumeBlockedStepMoves ==
  ASSUME GoalInv, NEW b \in DOMAIN blocker, NEW failedOnly \in BOOLEAN, ResumeBlockedStep(b, failedOnly)
  PROVE  GoalInv'
  <1> DEFINE s == b[2]
  <1>1. /\ RowTypes /\ HostTypes /\ TriesOK /\ BlockerOK /\ FlowLive /\ exec.status \in ExecActive
        /\ exec.status # "ABSENT" /\ exec.status = "BLOCKED" /\ blocker[b] = "OPEN"
    BY InvParts DEF GoalInv, ResumeBlockedStep, ExecActive, OpenBlockers
  <1>2. /\ s \in InPlan(exec.rev) /\ At(s).status \in {"BLOCKED", "FAILED"}
    BY <1>1 DEF BlockerOK
  <1>3. At(s).tries < MaxAttempts BY DEF ResumeBlockedStep
  <1>4. ActiveKeys = {} BY <1>1, <1>2, NoActive DEF Busy
  <1>5. HostTypes' BY <1>1, WakeFacts DEF ResumeBlockedStep, HostTypes, execBound, Phase
  <1>6. doing' \notin {"final", "project"} BY DEF ResumeBlockedStep
  <1>7. /\ stepExec' = [stepExec EXCEPT ![exec.rev][s].status = "READY", ![exec.rev][s].task = 0]
        /\ exec' = [exec EXCEPT !.status = "QUEUED", !.cur = s]
        /\ goalFlow' = [goalFlow EXCEPT !.status = "QUEUED"]
        /\ Project(s, {"BLOCKED"}, "IN_PROGRESS") /\ Unblocked
        /\ blocker' = [blocker EXCEPT ![b] = "RESOLVED"]
        /\ UNCHANGED <<plan, child>>
    BY DEF ResumeBlockedStep
  <1>8. blocker' \in [Revision \X Step \X Kind -> BlockerStatus] /\ \A c \in DOMAIN blocker' : blocker'[c] # "OPEN"
    <2>1. \A c \in DOMAIN blocker : blocker[c] = "OPEN" => c = b BY <1>1 DEF BlockerOK
    <2> QED BY <1>1, <1>7, <2>1 DEF RowTypes, BlockerStatus
  <1>9. At(s).status \in Busy BY <1>2 DEF Busy
  <1> HIDE DEF s
  <1> QED BY <1>1, <1>2, <1>3, <1>4, <1>5, <1>6, <1>7, <1>8, <1>9, QueueStep

\* RunNext and the end of advance admit the READY step.
LEMMA RunNextMoves == ASSUME GoalInv, NEW c \in Caller, NEW s \in Step, RunNext(c, s) PROVE GoalInv'
  <1>1. HostTypes' BY InvParts, WakeFacts DEF RunNext, AdmitReady, HostTypes, execBound
  <1> QED BY <1>1, AdmitReadyMoves DEF RunNext, MayCall

\* maybeAdvance begins: only the phase changes.
LEMMA AdmitMoves == ASSUME GoalInv, Admit PROVE GoalInv'
  <1>1. doing' = back /\ back' = back /\ doing = "admit" BY DEF Admit
  <1>2. HostTypes /\ back \in {"idle", "drain", "redrain", "dispatch"} BY InvParts DEF HostTypes
  <1>3. doing' \notin {"final", "project"} /\ doing' \in Phase BY <1>1, <1>2 DEF Phase
  <1>4. CASE UNCHANGED <<goalVars, execRow, ended, hook, execBound>>
    <2>1. HostTypes' BY <1>1, <1>2, <1>3, <1>4 DEF HostTypes, execRow, execBound
    <2>2. exec.status # "ABSENT" BY <1>1, InvParts
    <2> QED BY <1>3, <1>4, <2>1, <2>2, Still DEF goalVars, execRow
  <1>5. CASE exec.status = "QUEUED" /\ \E s \in Step : AdmitReady(s) /\ wake' = Staled
    <2>1. PICK s \in Step : AdmitReady(s) /\ wake' = Staled BY <1>5
    <2>2. HostTypes' BY <1>1, <1>2, <1>3, <2>1, WakeFacts DEF AdmitReady, HostTypes, execBound
    <2> QED BY <1>3, <1>5, <2>1, <2>2, AdmitReadyMoves DEF ExecActive
  <1> QED BY <1>4, <1>5 DEF Admit

-----------------------------------------------------------------------------
\* A child that can be reconciled is that of the RUNNING step, the only open one.
LEMMA ReconcilableFacts ==
  ASSUME GoalInv, NEW k \in StepKey, Reconcilable(k)
  PROVE  /\ k[1] = exec.rev /\ exec.rev \in Revision /\ k[2] \in InPlan(exec.rev) /\ k[2] \in Step
         /\ At(k[2]).status = "RUNNING" /\ At(k[2]).task = k[3] /\ At(k[2]) \in StepExecRow
         /\ exec.status # "ABSENT"
         /\ exec.status \in ExecActive => ActiveKeys = {}
  <1>1. RowTypes /\ RunningOK /\ PinnedOK /\ AbsentOK BY DEF GoalInv
  <1>2. /\ k[1] \in Revision /\ k[2] \in Step /\ k = <<k[1], k[2], k[3]>> BY KeyFacts
  <1>3. /\ stepExec[k[1]][k[2]].task = k[3] /\ stepExec[k[1]][k[2]].status = "RUNNING" /\ child[k] # "ACTIVE"
    BY DEF Reconcilable, ChildOver
  <1>4. k[1] = exec.rev /\ k[2] \in InPlan(exec.rev) BY <1>1, <1>2, <1>3 DEF RunningOK
  <1>5. At(k[2]).status = "RUNNING" /\ At(k[2]).task = k[3] /\ At(k[2]) \in StepExecRow
    BY <1>1, <1>2, <1>3, <1>4 DEF At, RowTypes
  <1>6. KeyOf(k[2]) = k BY <1>2, <1>4, <1>5 DEF KeyOf
  <1>7. exec.status # "ABSENT" BY <1>1, <1>2, <1>3 DEF AbsentOK
  <1>8. exec.status \in ExecActive => ActiveKeys = {}
    BY <1>3, <1>4, <1>5, <1>6, NoActive DEF Busy
  <1> QED BY <1>2, <1>4, <1>5, <1>7, <1>8

\* The step whose child failed or was blocked is blocked, and has a blocker.
LEMMA BlockStepMoves ==
  ASSUME GoalInv, NEW k \in StepKey, Reconcilable(k), FlowLive, NEW x \in {"BLOCKED", "FAILED"}, NEW kind \in Kind,
         NEW from, BlockStep(k, x, kind, from), UNCHANGED <<plan, child>>,
         HostTypes', doing' \notin {"final", "project"}
  PROVE  GoalInv'
  <1> DEFINE s == k[2]
             d == [status |-> x, tries |-> At(s).tries, task |-> At(s).task]
             b == <<exec.rev, s, kind>>
  <1>1. /\ RowTypes /\ GoalOK /\ PinnedOK /\ AttemptsBounded /\ exec.status \in ExecActive
    BY InvParts DEF GoalInv
  <1>2. /\ exec.rev \in Revision /\ s \in InPlan(exec.rev) /\ s \in Step /\ At(s).status = "RUNNING"
        /\ At(s) \in StepExecRow /\ exec.status # "ABSENT" /\ ActiveKeys = {}
    BY <1>1, ReconcilableFacts
  <1>3. \A c \in DOMAIN blocker : blocker[c] # "OPEN" BY <1>1, <1>2, NoBlocker
  <1>4. d \in StepExecRow /\ d.status = x /\ d.tries = At(s).tries /\ At(s).tries \in Nat
    BY <1>2, Constants DEF StepExecRow, StepStatus
  <1>5. At(s).tries <= MaxAttempts BY <1>1, <1>2 DEF AttemptsBounded, At
  <1>6. stepExec' = [stepExec EXCEPT ![exec.rev][s] = d]
    <2>1. [At(s) EXCEPT !.status = x] = d BY <1>2 DEF StepExecRow
    <2>2. stepExec' = [stepExec EXCEPT ![exec.rev][s].status = x] BY DEF BlockStep
    <2>3. stepExec' = [stepExec EXCEPT ![exec.rev][s] = [At(s) EXCEPT !.status = x]]
      BY <1>1, <1>2, <2>2 DEF RowTypes, At
    <2> QED BY <2>1, <2>3
  <1>7. exec' = [status |-> "BLOCKED", rev |-> exec.rev, cur |-> s] BY <1>1 DEF BlockStep, RowTypes, ExecRow
  <1>8. /\ goalFlow' \in [status : FlowStatus, cancel : BOOLEAN] /\ FlowLive'
    BY <1>1 DEF BlockStep, RowTypes, FlowStatus, ExecActive, FlowLive
  <1>9. /\ goal' \in GoalRow /\ goal'.rev = goal.rev /\ goal'.status # "ABSENT"
        /\ goal'.status = "ACTIVE" => goal'.count < 3
    <2>1. CASE goal' = goal BY <1>1, <1>2, <2>1 DEF RowTypes, GoalOK, PinnedOK
    <2>2. CASE goal' = [goal EXCEPT !.status = "BLOCKED"] BY <1>1, <2>2 DEF RowTypes, GoalRow, Open
    <2> QED BY <2>1, <2>2 DEF BlockStep, SetGoal
  <1>10. /\ planStep' \in [Step -> StepState]
         /\ \A e \in Step : planStep'[e] = "COMPLETED" => planStep[e] = "COMPLETED"
    <2>1. Project(s, from, "BLOCKED") /\ "BLOCKED" \in StepState BY DEF BlockStep, StepState
    <2> QED BY <1>1, <2>1, ProjectFacts DEF RowTypes
  <1>11. b \in Revision \X Step \X Kind /\ b[1] = exec.rev /\ b[2] = s BY <1>2
  <1>12. blocker' = [blocker EXCEPT ![b] = "OPEN"] BY DEF BlockStep
  <1> HIDE DEF b
  <1>13. blocker \in [Revision \X Step \X Kind -> BlockerStatus] BY <1>1 DEF RowTypes
  <1>14. blocker' \in [Revision \X Step \X Kind -> BlockerStatus] BY <1>12, <1>13 DEF BlockerStatus
  <1>15. b \in DOMAIN blocker' /\ blocker'[b] = "OPEN" /\ \A c \in DOMAIN blocker' : blocker'[c] = "OPEN" => c = b
    BY <1>3, <1>11, <1>12, <1>13
  <1>16. /\ At(s).status \in Busy /\ d.status \in Busy /\ d.status \in {"BLOCKED", "FAILED"} /\ d.status # "RUNNING"
         /\ d.status \notin Waiting /\ "BLOCKED" \in ExecActive
    BY <1>2, <1>4 DEF Busy, Waiting, ExecActive
  <1>17. d.tries >= At(s).tries /\ d.tries <= MaxAttempts BY <1>4, <1>5
  <1> HIDE DEF d, s
  <1> QED BY <1>1, <1>2, <1>4, <1>6, <1>7, <1>8, <1>9, <1>10, <1>11, <1>14, <1>15, <1>16, <1>17, MoveStep

\* The step whose child succeeded is done, and the next one of the plan is READY.
LEMMA ApplySucceededStepKeeps ==
  ASSUME GoalInv, NEW k \in StepKey, Reconcilable(k), FlowLive, ApplySucceededStep(k), UNCHANGED <<plan, child>>,
         HostTypes', doing' \notin {"final", "project"}
  PROVE  GoalInv'
  <1> DEFINE s == k[2]
             next == {e \in StepsIn("PENDING") : Ordinal(exec.rev, e) = Ordinal(exec.rev, s) + 1}
             ready == next \cup StepsIn("READY")
  <1>1. /\ RowTypes /\ HostTypes /\ GoalOK /\ AbsentOK /\ PinnedOK /\ LiveOK /\ KeysOK /\ RunningOK /\ ActiveOK
        /\ BusyOK /\ TriesOK /\ BlockerOK
        /\ AttemptsBounded /\ CompletionIsEarned /\ exec.status \in ExecActive
    BY InvParts DEF GoalInv
  <1>2. /\ exec.rev \in Revision /\ s \in InPlan(exec.rev) /\ s \in Step /\ At(s).status = "RUNNING" /\ k[1] = exec.rev
        /\ At(s) \in StepExecRow /\ exec.status # "ABSENT" /\ ActiveKeys = {}
    BY <1>1, ReconcilableFacts
  <1>3. exec.status # "BLOCKED" /\ \A c \in DOMAIN blocker : blocker[c] # "OPEN" BY <1>1, <1>2, NoBlocker
  <1>4. /\ child[k] = "SUCCEEDED"
        /\ stepExec' = [stepExec EXCEPT ![exec.rev] =
             [e \in Step |-> IF e = s THEN [At(e) EXCEPT !.status = "SUCCEEDED"]
                             ELSE IF e \in next THEN [At(e) EXCEPT !.status = "READY"] ELSE At(e)]]
        /\ Project(s, DOMAIN StepTransitions, "COMPLETED")
        /\ exec' = [exec EXCEPT !.status = "RUNNING", !.cur = IF ready = {} THEN NoStep ELSE First(ready)]
        /\ goalFlow' = [goalFlow EXCEPT !.status = "RUNNING"]
        /\ UNCHANGED <<goal, blocker>>
    BY DEF ApplySucceededStep
  <1>5. /\ next \subseteq InPlan(exec.rev) /\ \A e \in next : e \in Step /\ At(e).status = "PENDING"
        /\ \A e, x \in next : e = x
    <2>1. \A e \in next : e \in InPlan(exec.rev) /\ At(e).status = "PENDING" BY DEF StepsIn
    <2>2. plan \in [Revision -> Drafts \cup {<<>>}] BY <1>1 DEF RowTypes
    <2>3. \A e, x \in next : Ordinal(exec.rev, e) = Ordinal(exec.rev, x) OBVIOUS
    <2> QED BY <2>1, <2>2, <2>3, PlanFacts
  <1>6. StepsIn("READY") = {}
    <2>1. \A e \in StepsIn("READY") : e \in InPlan(exec.rev) /\ At(e).status = "READY" BY DEF StepsIn
    <2> QED BY <1>1, <1>2, <2>1 DEF BusyOK, Busy
  <1>7. ready = next BY <1>6
  <1>8. ready # {} => First(ready) \in Step
    <2>1. plan \in [Revision -> Drafts \cup {<<>>}] BY <1>1 DEF RowTypes
    <2> HIDE DEF next
    <2> QED BY <1>5, <1>7, <2>1, FirstFacts
  <1> HIDE DEF next
  <1>9. /\ exec' \in ExecRow /\ exec'.status = "RUNNING" /\ exec'.rev = exec.rev
    BY <1>1, <1>4, <1>8 DEF RowTypes, ExecRow, ExecActive
  <1> HIDE DEF ready
  <1>10. \A e \in Step : At(e) \in StepExecRow BY <1>1, <1>2 DEF RowTypes, At
  <1>11. /\ stepExec' \in [Revision -> [Step -> StepExecRow]]
         /\ \A r \in Revision : r # exec.rev => stepExec'[r] = stepExec[r]
         /\ \A e \in Step : /\ stepExec'[exec.rev][e].tries = At(e).tries /\ stepExec'[exec.rev][e].task = At(e).task
                            /\ stepExec'[exec.rev][e].status =
                                 IF e = s THEN "SUCCEEDED" ELSE IF e \in next THEN "READY" ELSE At(e).status
    <2> DEFINE g == [e \in Step |-> IF e = s THEN [At(e) EXCEPT !.status = "SUCCEEDED"]
                             ELSE IF e \in next THEN [At(e) EXCEPT !.status = "READY"] ELSE At(e)]
    <2>1. \A e \in Step : /\ g[e] \in StepExecRow
                          /\ g[e].tries = At(e).tries /\ g[e].task = At(e).task
                          /\ g[e].status = IF e = s THEN "SUCCEEDED" ELSE IF e \in next THEN "READY" ELSE At(e).status
      BY <1>10 DEF StepExecRow, StepStatus
    <2>2. g \in [Step -> StepExecRow] BY <2>1
    <2>3. stepExec' = [stepExec EXCEPT ![exec.rev] = g] BY <1>4
    <2> HIDE DEF g
    <2>4. stepExec \in [Revision -> [Step -> StepExecRow]] BY <1>1 DEF RowTypes
    <2>5. stepExec'[exec.rev] = g BY <1>2, <2>3, <2>4
    <2> QED BY <1>2, <2>1, <2>2, <2>3, <2>4, <2>5
  <1>12. /\ \A r : InPlan(r)' = InPlan(r)
         /\ \A r, e : DefAt(r, e)' = DefAt(r, e)
    BY DEF InPlan, DefAt
  <1>13. /\ planStep' \in [Step -> StepState]
         /\ \A e \in Step : planStep'[e] = planStep[e] \/ (e = s /\ CanProject(s))
    <2>1. planStep \in [Step -> StepState] /\ "COMPLETED" \in StepState BY <1>1 DEF RowTypes, StepState
    <2> QED BY <1>4, <2>1, ProjectFacts
  <1>14. /\ goalFlow' \in [status : FlowStatus, cancel : BOOLEAN] /\ FlowLive'
    BY <1>1, <1>4 DEF RowTypes, FlowStatus, ExecActive, FlowLive
  <1>15. RowTypes' BY <1>1, <1>4, <1>9, <1>11, <1>13, <1>14 DEF RowTypes
  <1>16. GoalOK' BY <1>1, <1>4 DEF GoalOK
  <1>17. AbsentOK' BY <1>9 DEF AbsentOK
  <1>18. PinnedOK' BY <1>1, <1>4, <1>9, <1>2 DEF PinnedOK
  <1>19. LiveOK' BY <1>9, <1>14 DEF LiveOK, ExecActive
  <1>20. KeysOK'
    <2>1. \A r \in Revision, e \in Step : stepExec'[r][e].tries = stepExec[r][e].tries BY <1>11 DEF At
    <2> QED BY <1>1, <1>9, <2>1, KeyFacts DEF KeysOK
  <1>21. RunningOK'
    <2>1. \A r \in Revision, e \in Step : stepExec'[r][e].status = "RUNNING" =>
              stepExec[r][e].status = "RUNNING" /\ stepExec'[r][e].task = stepExec[r][e].task
      BY <1>11 DEF At
    <2> QED BY <1>1, <1>9, <1>12, <2>1 DEF RunningOK
  <1>22. ActiveOK'
    <2>1. ActiveKeys' = {} BY <1>2 DEF ActiveKeys
    <2> QED BY <2>1 DEF ActiveOK
  <1>23. \A e \in Step : (At(e))' = stepExec'[exec.rev][e] BY <1>9 DEF At
  <1>24. BusyOK'
    <2>1. ASSUME NEW x \in InPlan(exec.rev), (At(x).status)' \in Busy PROVE x \in next
      <3>1. x \in Step BY <1>1, PlanFacts DEF RowTypes
      <3>2. (At(x).status)' = IF x = s THEN "SUCCEEDED" ELSE IF x \in next THEN "READY" ELSE At(x).status
        BY <1>11, <1>23, <3>1
      <3>3. x # s BY <2>1, <3>2 DEF Busy
      <3>4. x \notin next => At(x).status \in Busy BY <2>1, <3>2, <3>3
      <3>5. At(s).status \in Busy BY <1>2 DEF Busy
      <3> QED BY <1>1, <1>2, <3>3, <3>4, <3>5 DEF BusyOK
    <2> QED BY <1>5, <1>9, <1>12, <2>1 DEF BusyOK
  <1>25. TriesOK'
    <2> SUFFICES ASSUME NEW x \in InPlan(exec.rev)
                 PROVE  /\ (At(x).status)' \in Waiting => (At(x).tries)' < MaxAttempts
                        /\ (At(x).status)' \notin {"NONE", "CANCELLED"}
                        /\ (At(x).status)' \notin {"BLOCKED", "FAILED"}
      BY <1>9, <1>12 DEF TriesOK
    <2>1. x \in Step BY <1>1, PlanFacts DEF RowTypes
    <2>2. /\ (At(x).status)' = IF x = s THEN "SUCCEEDED" ELSE IF x \in next THEN "READY" ELSE At(x).status
          /\ (At(x).tries)' = At(x).tries
      BY <1>11, <1>23, <2>1
    <2>3. /\ At(x).status \in Waiting => At(x).tries < MaxAttempts
          /\ At(x).status \notin {"NONE", "CANCELLED"}
          /\ At(x).status \notin {"BLOCKED", "FAILED"}
      BY <1>1, <1>3 DEF TriesOK
    <2>4. x \in next => At(x).status \in Waiting BY <1>5 DEF Waiting
    <2> QED BY <2>2, <2>3, <2>4 DEF Waiting
  <1>26. BlockerOK' BY <1>3, <1>4, <1>9 DEF BlockerOK
  <1>27. AttemptsBounded' BY <1>1, <1>11 DEF AttemptsBounded, At
  <1>28. CompletionIsEarned'
    <2>1. /\ \A x \in InPlan(exec.rev) : StepDone(x) => Earned(x, DefAt(exec.rev, x))
          /\ \A x \in InPlan(goal.rev) : planStep[x] = "COMPLETED" => Earned(x, DefAt(goal.rev, x))
      BY <1>1, <1>2 DEF CompletionIsEarned
    <2>2. Earned(s, DefAt(exec.rev, s)) BY <1>2, <1>4 DEF Earned
    <2>3. ASSUME NEW x, NEW r, Earned(x, DefAt(r, x)) PROVE Earned(x, DefAt(r, x))'
      BY <2>3, <1>12 DEF Earned
    <2>4. ASSUME NEW x \in InPlan(exec.rev)', StepDone(x)' PROVE Earned(x, DefAt(exec.rev, x))'
      <3>1. x \in InPlan(exec.rev) /\ x \in Step /\ DefAt(exec.rev, x)' = DefAt(exec.rev, x)
        BY <1>1, <1>9, <1>12, PlanFacts DEF InPlan, DefAt, RowTypes
      <3>2. StepDone(x) \/ x = s BY <2>4, <1>11, <1>23, <3>1 DEF StepDone
      <3>3. Earned(x, DefAt(exec.rev, x)) BY <2>1, <2>2, <3>1, <3>2
      <3>4. PICK j \in StepKey : child[j] = "SUCCEEDED" /\ j[2] = x /\ DefAt(j[1], x) = DefAt(exec.rev, x)
        BY <3>3 DEF Earned
      <3> QED BY <3>1, <3>4, <1>12 DEF Earned
    <2>5. ASSUME NEW x \in InPlan(goal.rev)', planStep'[x] = "COMPLETED" PROVE Earned(x, DefAt(goal.rev, x))'
      <3>1. x \in InPlan(goal.rev) /\ x \in Step /\ DefAt(goal.rev, x)' = DefAt(goal.rev, x)
        BY <1>1, <1>4, <1>12, PlanFacts DEF InPlan, DefAt, RowTypes
      <3>2. Earned(x, DefAt(goal.rev, x))
        BY <1>13, <2>1, <2>2, <2>5, <3>1, CanProjectFacts
      <3>4. PICK j \in StepKey : child[j] = "SUCCEEDED" /\ j[2] = x /\ DefAt(j[1], x) = DefAt(goal.rev, x)
        BY <3>2 DEF Earned
      <3> QED BY <3>1, <3>4, <1>12 DEF Earned
    <2> QED BY <1>9, <2>4, <2>5 DEF CompletionIsEarned
  <1>29. ToolsKeepOrder' BY <1>9 DEF ToolsKeepOrder
  <1> QED BY <1>15, <1>16, <1>17, <1>18, <1>19, <1>20, <1>21, <1>22, <1>24, <1>25, <1>26, <1>27, <1>28, <1>29
          DEF GoalInv

\* reconcileTask, whatever it finds.
LEMMA ReconcileTaskKeeps ==
  ASSUME GoalInv, NEW k \in StepKey, NEW then \in {"dispatch", "admit"}, ReconcileTask(k, then),
         exec.status # "ABSENT", doing \notin {"final", "project"},
         ended' \subseteq StepKey, hook' \subseteq StepKey, UNCHANGED execBound
  PROVE  GoalInv'
  <1>1. RowTypes /\ HostTypes BY InvParts
  <1>2. then \in Phase /\ then \notin {"final", "project"} /\ back \in Phase /\ back \notin {"final", "project"}
    BY <1>1 DEF HostTypes, Phase
  <1>3. CASE ~Reconcilable(k)
    <2>1. doing' = then /\ UNCHANGED <<goalVars, execRow, back>> BY <1>3 DEF ReconcileTask
    <2>2. HostTypes' BY <1>1, <1>2, <2>1 DEF HostTypes, execRow, execBound
    <2> QED BY <1>2, <2>1, <2>2, Still DEF goalVars, execRow
  <1>4. CASE Reconcilable(k) /\ child[k] = "CANCELLED"
    <2>1. /\ doing' = IF FlowLive THEN "children" ELSE "project"
          /\ back' = IF then = "dispatch" THEN then ELSE back
          /\ goalFlow' = IF FlowLive THEN [goalFlow EXCEPT !.cancel = TRUE] ELSE goalFlow
          /\ wake' = Staled
          /\ UNCHANGED <<goalVars, exec, stepExec, blocker, child>>
      BY <1>4 DEF ReconcileTask
    <2>2. back' \in {"idle", "drain", "redrain", "dispatch"} BY <1>1, <2>1 DEF HostTypes
    <2>3. HostTypes' BY <1>1, <2>1, <2>2, WakeFacts DEF HostTypes, execBound, Phase
    <2>4. /\ goalFlow' \in [status : FlowStatus, cancel : BOOLEAN] /\ goalFlow'.status = goalFlow.status
      BY <1>1, <2>1 DEF RowTypes
    <2>5. FlowLive' <=> FlowLive BY <2>4 DEF FlowLive
    <2>6. child' \in [StepKey -> ChildStatus] /\ child' = child BY <1>1, <2>1 DEF RowTypes
    <2> QED BY <2>1, <2>3, <2>4, <2>5, <2>6, Quiet DEF goalVars
  <1>5. CASE Reconcilable(k) /\ child[k] # "CANCELLED" /\ ~FlowLive
    <2>1. doing' = (IF then = "dispatch" THEN "idle" ELSE back) /\ UNCHANGED <<goalVars, execRow, back>>
      BY <1>5 DEF ReconcileTask
    <2>2. HostTypes' BY <1>1, <1>2, <2>1 DEF HostTypes, execRow, execBound, Phase
    <2> QED BY <1>2, <2>1, <2>2, Still DEF goalVars, execRow
  <1>6. CASE Reconcilable(k) /\ child[k] # "CANCELLED" /\ FlowLive
    <2>1. /\ ApplySucceededStep(k) \/ ApplyBlockedStep(k) \/ ApplyFailedStep(k)
          /\ doing' = then /\ wake' = Staled
          /\ UNCHANGED <<plan, child, back>>
      BY <1>6 DEF ReconcileTask
    <2>2. HostTypes' BY <1>1, <1>2, <2>1, WakeFacts DEF HostTypes, execBound
    <2>3. CASE ApplySucceededStep(k) BY <1>2, <1>6, <2>1, <2>2, <2>3, ApplySucceededStepKeeps
    <2>4. CASE ApplyBlockedStep(k)
      <3>1. "TASK_OUTPUT" \in Kind BY DEF Kind
      <3> QED BY <1>2, <1>6, <2>1, <2>2, <2>4, <3>1, BlockStepMoves DEF ApplyBlockedStep
    <2>5. CASE ApplyFailedStep(k)
      <3> DEFINE kind == IF k[3] >= MaxAttempts THEN "RETRY_LIMIT" ELSE "TASK_FAILURE"
      <3>1. kind \in Kind BY DEF Kind
      <3>2. BlockStep(k, "FAILED", kind, {"IN_PROGRESS", "BLOCKED"}) BY <2>5 DEF ApplyFailedStep
      <3> HIDE DEF kind
      <3> QED BY <1>2, <1>6, <2>1, <2>2, <3>1, <3>2, BlockStepMoves
    <2> QED BY <2>1, <2>3, <2>4, <2>5
  <1> QED BY <1>3, <1>4, <1>5, <1>6

\* The terminal hook of a child, and the child advance reads.
LEMMA GoalRunTerminalKeeps == ASSUME GoalInv, NEW k \in StepKey, GoalRunTerminal(k) PROVE GoalInv'
  <1>1. HostTypes /\ exec.status # "ABSENT" BY InvParts DEF GoalRunTerminal
  <1>2. ended' \subseteq StepKey /\ hook' \subseteq StepKey BY <1>1 DEF GoalRunTerminal, HostTypes
  <1>3. ReconcileTask(k, "dispatch") /\ doing = "idle" /\ UNCHANGED execBound BY DEF GoalRunTerminal
  <1> QED BY <1>1, <1>2, <1>3, ReconcileTaskKeeps

\* maybeAdvance reads the rows: only the phase, the endings and the hooks change.
LEMMA AdvanceReadsKeeps == ASSUME GoalInv, AdvanceReads PROVE GoalInv'
  <1>1. RowTypes /\ HostTypes /\ exec.status # "ABSENT" /\ doing = "advance" BY InvParts DEF AdvanceReads
  <1>2. /\ back \in Phase /\ back \notin {"final", "project"} /\ "admit" \in Phase
        /\ ended' \subseteq StepKey /\ hook' \subseteq StepKey
    BY <1>1 DEF AdvanceReads, HostTypes, Phase
  <1>3. CASE doing' \in {back, "admit"} /\ UNCHANGED <<goalVars, execRow, back>>
    <2>1. UNCHANGED <<ended, hook, execBound>> BY DEF AdvanceReads
    <2>2. HostTypes' BY <1>1, <1>2, <1>3, <2>1 DEF HostTypes, execRow, execBound
    <2> QED BY <1>1, <1>2, <1>3, <2>2, Still DEF goalVars, execRow
  <1>4. CASE exec.cur # NoStep /\ At(exec.cur).task > 0 /\ ReconcileTask(KeyOf(exec.cur), "admit")
    <2>1. exec.cur \in Step /\ exec.rev \in Revision BY <1>1, <1>4 DEF RowTypes, ExecRow, PinnedOK, GoalInv
    <2>2. At(exec.cur).task \in 1 .. MaxAttempts + 1
      BY <1>1, <1>4, <2>1, Constants DEF RowTypes, At, StepExecRow
    <2>3. KeyOf(exec.cur) \in StepKey BY <2>1, <2>2, KeyFacts DEF KeyOf
    <2>4. UNCHANGED execBound BY DEF AdvanceReads
    <2> QED BY <1>1, <1>2, <1>4, <2>3, <2>4, ReconcileTaskKeeps
  <1> QED BY <1>3, <1>4 DEF AdvanceReads

-----------------------------------------------------------------------------
\* The tools change the Goal and its plan while there is no execution.
LEMMA ToolKeeps ==
  ASSUME GoalInv, exec.status = "ABSENT", ExecFree,
         goal' \in GoalRow, plan' \in [Revision -> Drafts \cup {<<>>}], planStep' \in [Step -> StepState],
         GoalOK', ToolsKeepOrder'
  PROVE  GoalInv'
  <1>1. /\ RowTypes /\ HostTypes /\ AbsentOK /\ AttemptsBounded /\ RunningOK /\ KeysOK
        /\ UNCHANGED <<exec, stepExec, blocker, goalFlow, child, wake, ended, hook, doing, back, goalCrashes, goalFaults>>
    BY DEF GoalInv, ExecFree, execRow, execBound
  <1>2. RowTypes' /\ HostTypes' BY <1>1 DEF RowTypes, HostTypes
  <1>3. AbsentOK' /\ PinnedOK' BY <1>1 DEF AbsentOK, PinnedOK, FlowLive
  <1>4. ActiveKeys' = {} BY <1>1 DEF ActiveKeys, AbsentOK
  <1>5. LiveOK' /\ ActiveOK' BY <1>1, <1>4 DEF LiveOK, ActiveOK, AbsentOK, FlowLive, ExecActive
  <1>6. KeysOK' /\ RunningOK' BY <1>1 DEF KeysOK, RunningOK, AbsentOK
  <1>7. BusyOK' /\ TriesOK' /\ BlockerOK' BY <1>1 DEF BusyOK, TriesOK, BlockerOK, ExecActive
  <1>8. AttemptsBounded' /\ CompletionIsEarned' BY <1>1 DEF AttemptsBounded, CompletionIsEarned
  <1> QED BY <1>2, <1>3, <1>5, <1>6, <1>7, <1>8 DEF GoalInv

\* A plan that is new has no step under way.
LEMMA FreshPlan ==
  ASSUME NEW p, planStep' = [s \in Step |-> IF s \in StepsOf(p) THEN "PENDING" ELSE "ABSENT"],
         goal'.status # "COMPLETED", plan' \in [Revision -> Drafts \cup {<<>>}]
  PROVE  /\ planStep' \in [Step -> StepState]
         /\ ToolsKeepOrder'
  <1>1. planStep' \in [Step -> StepState] BY DEF StepState
  <1>2. \A s \in Step : planStep'[s] \notin {"IN_PROGRESS", "COMPLETED"} OBVIOUS
  <1>3. \A s \in InPlan(goal.rev)' : s \in Step
    BY OrdinalFacts DEF InPlan
  <1>4. (goal.rev > 0 => StepsInOrder(goal.rev))'
    BY <1>2, <1>3 DEF StepsInOrder, InPlan
  <1> QED BY <1>1, <1>4 DEF ToolsKeepOrder

\* The Goal Tools work where no execution is. goal_create: the first revision.
LEMMA CreateGoalKeeps ==
  ASSUME GoalInv, exec.status = "ABSENT", ExecFree, NEW p \in Drafts \cup {<<>>}, CreateGoal(p)
  PROVE  GoalInv'
  <1>1. RowTypes /\ GoalOK /\ 1 \in Revision BY Constants, GoalAssumption DEF GoalInv, GoalAssumption, Revision
  <1>2. /\ goal' = [goal EXCEPT !.status = "ACTIVE", !.rev = 1] /\ plan' = [plan EXCEPT ![1] = p]
        /\ planStep' = [s \in Step |-> IF s \in StepsOf(p) THEN "PENDING" ELSE "ABSENT"]
        /\ goal.status = "ABSENT"
    BY DEF CreateGoal
  <1>3. goal' = [status |-> "ACTIVE", rev |-> 1, note |-> goal.note, count |-> goal.count]
        /\ goal.note \in Note \cup {NoNote} /\ goal.count \in 0 .. 3
    BY <1>1, <1>2 DEF RowTypes, GoalRow
  <1>4. 1 \in 0 .. MaxRev /\ "ACTIVE" \in Open BY <1>1, Constants DEF Open
  <1>5. goal' \in GoalRow BY <1>3, <1>4 DEF GoalRow
  <1>6. plan' \in [Revision -> Drafts \cup {<<>>}] BY <1>1, <1>2 DEF RowTypes
  <1>7. GoalOK' BY <1>1, <1>2, <1>3 DEF GoalOK
  <1>8. planStep' \in [Step -> StepState] /\ ToolsKeepOrder' BY <1>2, <1>3, <1>6, FreshPlan
  <1> QED BY <1>5, <1>6, <1>7, <1>8, ToolKeeps

\* goal_set_plan: a revision more, which nothing has executed.
LEMMA SetPlanKeeps ==
  ASSUME GoalInv, exec.status = "ABSENT", ExecFree, NEW p \in Drafts, SetPlan(p)
  PROVE  GoalInv'
  <1>1. RowTypes /\ GoalOK BY DEF GoalInv
  <1>2. /\ goal' = [goal EXCEPT !.rev = @ + 1] /\ plan' = [plan EXCEPT ![goal.rev + 1] = p]
        /\ planStep' = [s \in Step |-> IF s \in StepsOf(p) THEN "PENDING" ELSE "ABSENT"]
        /\ goal.status = "ACTIVE" /\ goal.rev < MaxRev
    BY DEF SetPlan
  <1>3. goal' = [status |-> "ACTIVE", rev |-> goal.rev + 1, note |-> goal.note, count |-> goal.count]
        /\ goal.note \in Note \cup {NoNote} /\ goal.count \in 0 .. 3 /\ goal.rev \in 0 .. MaxRev
    BY <1>1, <1>2 DEF RowTypes, GoalRow
  <1>4. goal.rev + 1 \in 0 .. MaxRev /\ goal.rev + 1 >= 1 /\ "ACTIVE" \in Open BY <1>2, <1>3, Constants DEF Open
  <1>5. goal' \in GoalRow BY <1>3, <1>4 DEF GoalRow
  <1>6. plan' \in [Revision -> Drafts \cup {<<>>}] BY <1>1, <1>2 DEF RowTypes
  <1>7. GoalOK' BY <1>1, <1>2, <1>3, <1>4 DEF GoalOK
  <1>8. planStep' \in [Step -> StepState] /\ ToolsKeepOrder' BY <1>2, <1>3, <1>6, FreshPlan
  <1> QED BY <1>5, <1>6, <1>7, <1>8, ToolKeeps

\* goal_update_step: the Tool's own order of steps.
LEMMA UpdateStepKeeps ==
  ASSUME GoalInv, exec.status = "ABSENT", ExecFree, NEW s \in Step, NEW t \in DOMAIN StepTransitions, UpdateStep(s, t)
  PROVE  GoalInv'
  <1>1. RowTypes /\ GoalOK /\ ToolsKeepOrder BY DEF GoalInv
  <1> DEFINE r == goal.rev
  <1>2. /\ goal.status = "ACTIVE" /\ r < MaxRev /\ s \in InPlan(r) /\ t \in StepTransitions[planStep[s]]
        /\ t \in {"IN_PROGRESS", "COMPLETED"} =>
             \A e \in InPlan(r) : Ordinal(r, e) < Ordinal(r, s) => planStep[e] \in {"COMPLETED", "CANCELLED"}
        /\ planStep' = [planStep EXCEPT ![s] = t]
        /\ plan' = [plan EXCEPT ![r + 1] = plan[r]]
        /\ goal' = [goal EXCEPT !.rev = @ + 1, !.note = NoNote, !.count = 0]
    BY DEF UpdateStep
  <1>3. goal' = [status |-> "ACTIVE", rev |-> r + 1, note |-> NoNote, count |-> 0] /\ r \in 0 .. MaxRev
    BY <1>1, <1>2 DEF RowTypes, GoalRow
  <1>4. r + 1 \in 0 .. MaxRev /\ r + 1 >= 1 /\ "ACTIVE" \in Open BY <1>2, <1>3, Constants DEF Open
  <1>5. goal' \in GoalRow BY <1>3, <1>4 DEF GoalRow
  <1>6. /\ plan \in [Revision -> Drafts \cup {<<>>}] /\ planStep \in [Step -> StepState] BY <1>1 DEF RowTypes
  <1>7. /\ r \in Revision /\ r + 1 \in Revision BY <1>2, <1>3, <1>6, Constants, PlanFacts
  <1>8. plan' \in [Revision -> Drafts \cup {<<>>}] /\ plan'[r + 1] = plan[r] BY <1>2, <1>6, <1>7
  <1>9. GoalOK' BY <1>3, <1>4 DEF GoalOK
  <1>10. planStep' \in [Step -> StepState] BY <1>2, <1>6, StepTable
  <1>11. planStep[s] \notin {"COMPLETED", "CANCELLED"}
    BY <1>2, StepTable
  <1>12. InPlan(goal.rev)' = InPlan(r) /\ \A e : Ordinal(goal.rev, e)' = Ordinal(r, e)
    BY <1>3, <1>7, <1>8 DEF InPlan, Ordinal
  <1>13. \A e \in InPlan(r) : e \in Step /\ Ordinal(r, e) \in Nat BY <1>6, PlanFacts
  <1>14. \A x, e \in InPlan(r) :
            Ordinal(r, e) < Ordinal(r, x) /\ planStep[x] \in {"IN_PROGRESS", "COMPLETED"}
                => planStep[e] \in {"COMPLETED", "CANCELLED"}
    BY <1>1, <1>7, Constants DEF ToolsKeepOrder, StepsInOrder
  <1>15. ASSUME NEW x \in InPlan(r), NEW e \in InPlan(r), Ordinal(r, e) < Ordinal(r, x),
                planStep'[x] \in {"IN_PROGRESS", "COMPLETED"}
         PROVE  planStep'[e] \in {"COMPLETED", "CANCELLED"}
    <2>1. x # e /\ x \in Step /\ e \in Step BY <1>13, <1>15
    <2>2. CASE x = s
      <3>1. planStep'[x] = t /\ planStep'[e] = planStep[e] BY <1>2, <1>6, <2>1, <2>2
      <3> QED BY <1>2, <1>15, <2>2, <3>1
    <2>3. CASE x # s
      <3>1. planStep'[x] = planStep[x] BY <1>2, <1>6, <2>1, <2>3
      <3>2. planStep[e] \in {"COMPLETED", "CANCELLED"} BY <1>14, <1>15, <3>1
      <3>3. e # s BY <1>11, <3>2
      <3> QED BY <1>2, <1>6, <2>1, <3>2, <3>3
    <2> QED BY <2>2, <2>3
  <1>16. (StepsInOrder(goal.rev))'
    <2> SUFFICES ASSUME NEW x \in InPlan(goal.rev)', NEW e \in InPlan(goal.rev)',
                        Ordinal(goal.rev, e)' < Ordinal(goal.rev, x)', planStep'[x] \in {"IN_PROGRESS", "COMPLETED"}
                 PROVE  planStep'[e] \in {"COMPLETED", "CANCELLED"}
      BY DEF StepsInOrder, InPlan, Ordinal
    <2> QED BY <1>12, <1>15
  <1>17. ToolsKeepOrder' BY <1>3, <1>16 DEF ToolsKeepOrder
  <1> QED BY <1>5, <1>8, <1>9, <1>10, <1>17, ToolKeeps

\* The tools that change the Goal alone.
LEMMA GoalOnly ==
  ASSUME GoalInv, exec.status = "ABSENT", ExecFree, goal' \in GoalRow, goal'.rev = goal.rev, GoalOK',
         UNCHANGED <<plan, planStep>>,
         goal'.status = "COMPLETED" => \A s \in InPlan(goal.rev) : planStep[s] = "COMPLETED"
  PROVE  GoalInv'
  <1>1. RowTypes /\ ToolsKeepOrder BY DEF GoalInv
  <1>2. InPlan(goal.rev)' = InPlan(goal.rev) /\ \A s : Ordinal(goal.rev, s)' = Ordinal(goal.rev, s)
    BY DEF InPlan, Ordinal
  <1>3. ToolsKeepOrder' BY <1>1, <1>2 DEF ToolsKeepOrder, StepsInOrder, InPlan, Ordinal
  <1> QED BY <1>1, <1>3, ToolKeeps DEF RowTypes

\* goal_report_blocker: the third report of one note blocks the Goal.
LEMMA ReportBlockerKeeps ==
  ASSUME GoalInv, exec.status = "ABSENT", ExecFree, NEW n \in Note, ReportBlocker(n)
  PROVE  GoalInv'
  <1> DEFINE count == IF goal.note = n THEN goal.count + 1 ELSE 1
             x == IF count >= 3 THEN "BLOCKED" ELSE "ACTIVE"
  <1>1. RowTypes /\ GoalOK /\ goal.status = "ACTIVE" /\ goal.count < 3 BY DEF GoalInv, GoalOK, ReportBlocker
  <1>2. goal' = [goal EXCEPT !.note = n, !.count = count, !.status = x] /\ UNCHANGED <<plan, planStep>>
    BY DEF ReportBlocker
  <1>3. goal.count \in Nat /\ goal.rev \in 0 .. MaxRev BY <1>1 DEF RowTypes, GoalRow
  <1>4. count \in 0 .. 3 /\ x \in Open /\ x # "COMPLETED" /\ x # "ABSENT" /\ (x = "ACTIVE" => count < 3)
    BY <1>1, <1>3 DEF Open
  <1> HIDE DEF count, x
  <1>5. goal' = [status |-> x, rev |-> goal.rev, note |-> n, count |-> count]
    BY <1>1, <1>2 DEF RowTypes, GoalRow
  <1>6. goal' \in GoalRow BY <1>3, <1>4, <1>5 DEF GoalRow
  <1>7. GoalOK' BY <1>1, <1>4, <1>5 DEF GoalOK
  <1> QED BY <1>2, <1>4, <1>5, <1>6, <1>7, GoalOnly

\* pause, resume and cancel of a Goal without an execution.
LEMMA ControlKeeps ==
  ASSUME GoalInv, exec.status = "ABSENT", ExecFree, NEW t \in Open \cup {"CANCELLED"}, Control(t)
  PROVE  GoalInv'
  <1>1. /\ RowTypes /\ GoalOK /\ goal.status \in Open /\ t \in {"PAUSED", "ACTIVE", "CANCELLED"}
        /\ UNCHANGED <<plan, planStep>>
        /\ goal' = IF t = "ACTIVE" THEN [goal EXCEPT !.status = t, !.note = NoNote, !.count = 0]
                   ELSE [goal EXCEPT !.status = t]
    BY DEF GoalInv, Control
  <1>2. goal.rev \in 0 .. MaxRev /\ goal.rev >= 1 BY <1>1 DEF RowTypes, GoalRow, GoalOK, Open
  <1>3. CASE t = "ACTIVE"
    <2>1. goal' = [status |-> "ACTIVE", rev |-> goal.rev, note |-> NoNote, count |-> 0]
      BY <1>1, <1>3 DEF RowTypes, GoalRow
    <2>2. goal' \in GoalRow /\ GoalOK' BY <1>2, <2>1 DEF GoalRow, GoalOK, Open
    <2> QED BY <1>1, <2>1, <2>2, GoalOnly
  <1>4. CASE t # "ACTIVE"
    <2>1. goal' = [status |-> t, rev |-> goal.rev, note |-> goal.note, count |-> goal.count]
          /\ goal.note \in Note \cup {NoNote} /\ goal.count \in 0 .. 3
      BY <1>1, <1>4 DEF RowTypes, GoalRow
    <2>2. goal' \in GoalRow /\ GoalOK' BY <1>1, <1>2, <1>4, <2>1 DEF GoalRow, GoalOK, Open
    <2> QED BY <1>1, <2>1, <2>2, GoalOnly
  <1> QED BY <1>3, <1>4

\* goal_complete: every step of the revision is completed.
LEMMA CompleteGoalKeeps ==
  ASSUME GoalInv, exec.status = "ABSENT", ExecFree, CompleteGoal
  PROVE  GoalInv'
  <1>1. /\ RowTypes /\ GoalOK /\ goal.status = "ACTIVE" /\ \A s \in InPlan(goal.rev) : planStep[s] = "COMPLETED"
        /\ UNCHANGED <<plan, planStep>>
        /\ goal' = [goal EXCEPT !.status = "COMPLETED", !.note = NoNote, !.count = 0]
    BY DEF GoalInv, CompleteGoal
  <1>2. goal.rev \in 0 .. MaxRev /\ goal.rev >= 1 BY <1>1 DEF RowTypes, GoalRow, GoalOK
  <1>3. goal' = [status |-> "COMPLETED", rev |-> goal.rev, note |-> NoNote, count |-> 0]
    BY <1>1 DEF RowTypes, GoalRow
  <1>4. goal' \in GoalRow /\ GoalOK' BY <1>2, <1>3 DEF GoalRow, GoalOK
  <1> QED BY <1>1, <1>3, <1>4, GoalOnly

\* Every Goal Tool keeps the invariant.
LEMMA UseGoalToolKeeps == ASSUME GoalInv, UseGoalTool PROVE GoalInv'
  BY CreateGoalKeeps, SetPlanKeeps, UpdateStepKeeps, ReportBlockerKeeps, ControlKeeps, CompleteGoalKeeps
     DEF UseGoalTool, GoalTool

-----------------------------------------------------------------------------
\* start pins the plan and makes its first step READY.
LEMMA StartPlanKeeps == ASSUME GoalInv, StartPlan PROVE GoalInv'
  <1> DEFINE r == goal.rev
             first == plan[r][1].step
             g == [s \in Step |-> IF s \notin InPlan(r) THEN Idle
                                  ELSE [Idle EXCEPT !.status = IF s = first THEN "READY" ELSE "PENDING"]]
  <1>1. /\ RowTypes /\ HostTypes /\ GoalOK /\ AbsentOK /\ AttemptsBounded
    BY DEF GoalInv
  <1>2. /\ exec.status = "ABSENT" /\ goal.status = "ACTIVE" /\ plan[r] # <<>>
        /\ \A s \in InPlan(r) : planStep[s] = "PENDING"
        /\ exec' = [status |-> "QUEUED", rev |-> r, cur |-> first]
        /\ stepExec' = [stepExec EXCEPT ![r] = g]
        /\ goalFlow' = [goalFlow EXCEPT !.status = "QUEUED"]
        /\ doing' = "advance" /\ back' = "idle"
        /\ UNCHANGED <<goal, plan, planStep, blocker, child, wake, ended, hook, goalCrashes, goalFaults>>
    BY DEF StartPlan, goalVars, execBound
  <1>3. /\ r \in Revision /\ r \in 0 .. MaxRev /\ plan[r] \in Drafts \cup {<<>>}
        /\ plan \in [Revision -> Drafts \cup {<<>>}] /\ stepExec \in [Revision -> [Step -> StepExecRow]]
    BY <1>1, <1>2, Constants DEF GoalOK, RowTypes, GoalRow
  <1>4. first \in InPlan(r) /\ first \in Step
    <2>1. plan[r] \in Seq([step : Step, def : Def]) BY <1>3, Constants
    <2>2. 1 \in DOMAIN plan[r] BY <1>2, <2>1
    <2>3. first \in StepsOf(plan[r]) BY <2>2 DEF StepsOf
    <2> QED BY <1>3, <2>3, PlanFacts DEF InPlan
  <1>5. \A s \in Step : /\ g[s] \in StepExecRow /\ g[s].tries = 0
                        /\ g[s].status \in {"NONE", "READY", "PENDING"}
                        /\ (s \in InPlan(r) => g[s].status \in {"READY", "PENDING"})
                        /\ (g[s].status = "READY" => s = first)
    BY Constants DEF Idle, StepExecRow, StepStatus
  <1>6. g \in [Step -> StepExecRow] BY <1>5
  <1> HIDE DEF g, first
  <1>7. /\ stepExec' \in [Revision -> [Step -> StepExecRow]] /\ stepExec'[r] = g
        /\ \A q \in Revision : q # r => stepExec'[q] = stepExec[q]
    BY <1>2, <1>3, <1>6
  <1>8. /\ exec' \in ExecRow /\ exec'.status = "QUEUED" /\ exec'.rev = r
    BY <1>2, <1>3, <1>4 DEF ExecRow, ExecActive
  <1>9. \A s \in Step : (At(s))' = g[s] BY <1>7, <1>8 DEF At
  <1>10. InPlan(exec.rev)' = InPlan(r) /\ \A s \in InPlan(r) : s \in Step
    BY <1>2, <1>3, <1>8, PlanFacts DEF InPlan
  <1>11. goalFlow' \in [status : FlowStatus, cancel : BOOLEAN] /\ FlowLive'
    BY <1>1, <1>2 DEF RowTypes, FlowStatus, ExecActive, FlowLive
  <1>12. /\ \A k \in StepKey : child'[k] = "NONE"
         /\ \A q \in Revision, s \in Step : stepExec[q][s].status = "NONE"
         /\ \A b \in DOMAIN blocker' : blocker'[b] = "NONE"
    BY <1>1, <1>2 DEF AbsentOK
  <1>13. RowTypes' BY <1>1, <1>2, <1>7, <1>8, <1>11 DEF RowTypes
  <1>14. HostTypes' BY <1>1, <1>2 DEF HostTypes, Phase
  <1>15. GoalOK' BY <1>1, <1>2 DEF GoalOK
  <1>16. AbsentOK' BY <1>8 DEF AbsentOK
  <1>17. PinnedOK' BY <1>2, <1>3, <1>8 DEF PinnedOK
  <1>18. ActiveKeys' = {} BY <1>12 DEF ActiveKeys
  <1>19. LiveOK' BY <1>2, <1>8, <1>11, <1>18 DEF LiveOK, ExecActive
  <1>20. KeysOK' BY <1>12 DEF KeysOK
  <1>21. RunningOK'
    <2>1. \A q \in Revision, s \in Step : stepExec'[q][s].status # "RUNNING" BY <1>5, <1>7, <1>12
    <2> QED BY <2>1 DEF RunningOK
  <1>22. ActiveOK' BY <1>18 DEF ActiveOK
  <1>23. BusyOK'
    <2>1. \A s \in InPlan(r) : (At(s).status)' \in Busy => s = first BY <1>5, <1>9, <1>10 DEF Busy
    <2> QED BY <1>10, <2>1 DEF BusyOK
  <1>24. TriesOK' BY <1>5, <1>9, <1>10, Constants DEF TriesOK
  <1>25. BlockerOK' BY <1>8, <1>12 DEF BlockerOK
  <1>26. AttemptsBounded'
    BY <1>1, <1>5, <1>7, Constants DEF AttemptsBounded
  <1>27. CompletionIsEarned'
    <2>1. \A s \in InPlan(exec.rev)' : ~StepDone(s)' BY <1>5, <1>9, <1>10 DEF StepDone
    <2>2. \A s \in InPlan(goal.rev)' : planStep'[s] # "COMPLETED" BY <1>2 DEF InPlan
    <2> QED BY <1>8, <2>1, <2>2 DEF CompletionIsEarned
  <1>28. ToolsKeepOrder' BY <1>8 DEF ToolsKeepOrder
  <1> QED BY <1>13, <1>14, <1>15, <1>16, <1>17, <1>19, <1>20, <1>21, <1>22, <1>23, <1>24, <1>25, <1>26, <1>27, <1>28
          DEF GoalInv

\* revisePlan adds a revision; what was earned keeps its definition.
LEMMA RevisePlanKeeps == ASSUME GoalInv, NEW p \in Drafts, RevisePlan(p) PROVE GoalInv'
  <1> DEFINE r == goal.rev
  <1>1. /\ RowTypes /\ HostTypes /\ GoalOK /\ AbsentOK /\ PinnedOK /\ LiveOK /\ KeysOK /\ RunningOK /\ ActiveOK
        /\ BusyOK /\ TriesOK /\ BlockerOK /\ AttemptsBounded /\ CompletionIsEarned
    BY DEF GoalInv
  <1>2. /\ exec.status \in ExecActive /\ exec.status # "ABSENT" /\ r < MaxRev
        /\ planStep' = [s \in Step |->
               IF \E i \in DOMAIN p : p[i].step = s /\ p[i].def # DefAt(r, s) THEN "PENDING" ELSE planStep[s]]
        /\ plan' = [plan EXCEPT ![r + 1] = p]
        /\ goal' = [goal EXCEPT !.rev = @ + 1]
        /\ UNCHANGED <<exec, stepExec, blocker, goalFlow, child, wake, ended, hook, doing, back, goalCrashes, goalFaults>>
    BY DEF RevisePlan, ExecFree, execRow, execBound, ExecActive
  <1>3. /\ exec.rev \in Revision /\ exec.rev <= r /\ r \in 0 .. MaxRev /\ r >= 1
        /\ plan \in [Revision -> Drafts \cup {<<>>}] /\ planStep \in [Step -> StepState]
    BY <1>1, <1>2, Constants DEF PinnedOK, RowTypes, GoalRow, GoalOK
  <1>4. goal' = [status |-> goal.status, rev |-> r + 1, note |-> goal.note, count |-> goal.count]
    BY <1>1, <1>2 DEF RowTypes, GoalRow
  <1>5. goal' \in GoalRow
    <2>1. r + 1 \in 0 .. MaxRev BY <1>2, <1>3, Constants
    <2> QED BY <1>1, <1>4, <2>1 DEF RowTypes, GoalRow
  <1>6. /\ r + 1 \in Revision /\ plan' \in [Revision -> Drafts \cup {<<>>}] /\ plan'[r + 1] = p
        /\ \A q \in Revision : q # r + 1 => plan'[q] = plan[q]
    BY <1>2, <1>3, Constants
  <1>7. /\ planStep' \in [Step -> StepState]
        /\ \A s \in Step : planStep'[s] = "COMPLETED" => planStep[s] = "COMPLETED"
                             /\ \A i \in DOMAIN p : p[i].step = s => p[i].def = DefAt(r, s)
    BY <1>2, <1>3 DEF StepState
  <1>8. \A q \in Revision : q # r + 1 => InPlan(q)' = InPlan(q) /\ \A s : DefAt(q, s)' = DefAt(q, s)
    BY <1>6 DEF InPlan, DefAt
  <1>9. InPlan(exec.rev)' = InPlan(exec.rev) /\ \A s : DefAt(exec.rev, s)' = DefAt(exec.rev, s)
    <2>1. exec.rev # r + 1 BY <1>3, Constants
    <2>2. exec' = exec BY <1>2
    <2> QED BY <1>3, <1>8, <2>1, <2>2 DEF InPlan, DefAt
  <1>10. \A s : (At(s))' = At(s) BY <1>2 DEF At
  <1>11. RowTypes' BY <1>1, <1>2, <1>5, <1>6, <1>7 DEF RowTypes
  <1>12. HostTypes' BY <1>1, <1>2 DEF HostTypes
  <1>13. GoalOK' BY <1>1, <1>3, <1>4 DEF GoalOK
  <1>14. AbsentOK' BY <1>2 DEF AbsentOK
  <1>15. PinnedOK' BY <1>1, <1>2, <1>3, <1>4, Constants DEF PinnedOK
  <1>16. ActiveKeys' = ActiveKeys BY <1>2 DEF ActiveKeys
  <1>17. LiveOK' /\ ActiveOK'
    <2>1. FlowLive' <=> FlowLive BY <1>2 DEF FlowLive
    <2> QED BY <1>1, <1>2, <1>10, <1>16, <2>1 DEF LiveOK, ActiveOK
  <1>18. KeysOK' BY <1>1, <1>2 DEF KeysOK
  <1>19. RunningOK'
    <2> SUFFICES ASSUME NEW q \in Revision, NEW s \in Step, stepExec'[q][s].status = "RUNNING"
                 PROVE  q = exec'.rev /\ s \in InPlan(q)' /\ stepExec'[q][s].task > 0
      BY DEF RunningOK, InPlan
    <2>1. q = exec.rev /\ s \in InPlan(q) /\ stepExec[q][s].task > 0 BY <1>1, <1>2 DEF RunningOK
    <2>2. q # r + 1 BY <1>3, <2>1, Constants
    <2> QED BY <1>2, <1>8, <2>1, <2>2
  <1>20. BusyOK' /\ TriesOK' BY <1>1, <1>2, <1>9, <1>10 DEF BusyOK, TriesOK
  <1>21. BlockerOK' BY <1>1, <1>2, <1>9, <1>10 DEF BlockerOK
  <1>22. AttemptsBounded' BY <1>1, <1>2 DEF AttemptsBounded
  <1>23. CompletionIsEarned'
    <2>1. /\ \A s \in InPlan(exec.rev) : StepDone(s) => Earned(s, DefAt(exec.rev, s))
          /\ \A s \in InPlan(r) : planStep[s] = "COMPLETED" => Earned(s, DefAt(r, s))
          /\ exec.status = "SUCCEEDED" => \A s \in InPlan(exec.rev) : StepDone(s)
      BY <1>1, <1>2 DEF CompletionIsEarned
    <2>2. ASSUME NEW s, NEW d, Earned(s, d)
          PROVE  \E k \in StepKey : child'[k] = "SUCCEEDED" /\ k[2] = s /\ DefAt(k[1], s)' = d
      <3>1. PICK k \in StepKey : child[k] = "SUCCEEDED" /\ k[2] = s /\ DefAt(k[1], s) = d BY <2>2 DEF Earned
      <3>2. k[1] \in Revision /\ k[1] <= exec.rev BY <1>1, <3>1, KeyFacts DEF KeysOK
      <3>3. k[1] # r + 1 BY <1>3, <3>2, Constants
      <3> QED BY <1>2, <1>8, <3>1, <3>2, <3>3
    <2>3. ASSUME NEW s \in InPlan(exec.rev)', StepDone(s)' PROVE Earned(s, DefAt(exec.rev, s))'
      <3>1. s \in InPlan(exec.rev) /\ StepDone(s) /\ DefAt(exec.rev, s)' = DefAt(exec.rev, s)
        BY <2>3, <1>9, <1>10 DEF StepDone
      <3>2. Earned(s, DefAt(exec.rev, s)) BY <2>1, <3>1
      <3> QED BY <2>2, <3>1, <3>2 DEF Earned
    <2>4. ASSUME NEW s \in InPlan(goal.rev)', planStep'[s] = "COMPLETED" PROVE Earned(s, DefAt(goal.rev, s))'
      <3>1. goal'.rev = r + 1 BY <1>4
      <3>2. DefAt(goal.rev, s)' = DefIn(p, s) /\ s \in StepsOf(p) /\ s \in Step
        <4>1. s \in StepsOf(p) BY <1>6, <3>1 DEF InPlan
        <4>2. DefAt(goal.rev, s)' = DefIn(p, s) BY <1>6, <3>1 DEF DefAt
        <4> QED BY <4>1, <4>2, OrdinalFacts
      <3>3. /\ OrdinalIn(p, s) \in DOMAIN p /\ p[OrdinalIn(p, s)].step = s /\ DefIn(p, s) = p[OrdinalIn(p, s)].def
            /\ DefIn(p, s) \in Def
        BY <3>2, OrdinalFacts
      <3>4. planStep[s] = "COMPLETED" /\ DefIn(p, s) = DefAt(r, s) BY <1>7, <2>4, <3>2, <3>3
      <3>5. s \in InPlan(r) BY <3>3, <3>4, Constants DEF DefAt
      <3>6. Earned(s, DefAt(r, s)) BY <2>1, <3>4, <3>5
      <3> QED BY <2>2, <3>1, <3>2, <3>4, <3>6 DEF Earned
    <2>5. exec'.status = "SUCCEEDED" => \A s \in InPlan(exec.rev)' : StepDone(s)'
      BY <1>2, <1>9, <1>10, <2>1 DEF StepDone
    <2> QED BY <2>3, <2>4, <2>5 DEF CompletionIsEarned
  <1>24. ToolsKeepOrder' BY <1>2 DEF ToolsKeepOrder
  <1> QED BY <1>11, <1>12, <1>13, <1>14, <1>15, <1>17, <1>18, <1>19, <1>20, <1>21, <1>22, <1>23, <1>24 DEF GoalInv

\* The step that adoption makes READY is one of the adopted plan that is not done.
LEMMA NextPendingFacts ==
  ASSUME plan \in [Revision -> Drafts \cup {<<>>}]
  PROVE  /\ NextPending = NoStep \/ (NextPending \in InPlan(goal.rev) /\ Projected[NextPending].status = "PENDING")
         /\ NoStep \notin Step
  <1> DEFINE S == {s \in InPlan(goal.rev) : Projected[s].status = "PENDING"}
  <1>0. NoStep \notin Step BY ExecutorAssumption DEF ExecutorAssumption
  <1>1. CASE S = {}
    <2>1. NextPending = NoStep BY <1>1 DEF NextPending
    <2> QED BY <1>0, <2>1
  <1>2. CASE S # {}
    <2>1. NextPending = CHOOSE s \in S : \A e \in S : Ordinal(goal.rev, s) <= Ordinal(goal.rev, e)
      BY <1>2 DEF NextPending
    <2>2. \E s \in S : \A e \in S : Ordinal(goal.rev, s) <= Ordinal(goal.rev, e)
      BY <1>2, LeastOrdinal
    <2>3. NextPending \in S BY <2>1, <2>2
    <2> QED BY <1>0, <2>3
  <1> QED BY <1>1, <1>2

\* adoptPlanRevision pins the revision of the Goal and keeps what was earned.
LEMMA AdoptPlanRevisionKeeps == ASSUME GoalInv, AdoptPlanRevision PROVE GoalInv'
  <1> DEFINE r == goal.rev
             st == IF NextPending # NoStep THEN "QUEUED" ELSE "RUNNING"
             g == [s \in Step |-> IF s = NextPending THEN [Projected[s] EXCEPT !.status = "READY"] ELSE Projected[s]]
  <1>1. /\ RowTypes /\ HostTypes /\ GoalOK /\ PinnedOK /\ KeysOK /\ RunningOK /\ ActiveOK
        /\ BusyOK /\ TriesOK /\ BlockerOK /\ AttemptsBounded /\ CompletionIsEarned
    BY DEF GoalInv
  <1>2. /\ exec.status \in ExecActive /\ exec.status # "ABSENT" /\ r > exec.rev
        /\ \A s \in StepsIn("RUNNING") \cup StepsIn("WAITING") : At(s).task = 0
        /\ OpenBlockers = {}
        /\ stepExec' = [stepExec EXCEPT ![r] = g]
        /\ exec' = [status |-> st, rev |-> r, cur |-> NextPending]
        /\ goalFlow' = [goalFlow EXCEPT !.status = st]
        /\ doing' \in {"advance", "idle"} /\ back' = "idle"
        /\ planStep' = [s \in Step |->
              IF s \notin InPlan(r) THEN planStep[s]
              ELSE IF Projected[s].status = "SUCCEEDED" THEN "COMPLETED" ELSE "PENDING"]
        /\ Unblocked /\ wake' = Staled
        /\ UNCHANGED <<plan, blocker, child, ended, hook, goalCrashes, goalFaults>>
    BY DEF AdoptPlanRevision, ExecActive, execBound
  <1>3. /\ exec.rev \in Revision /\ r \in Revision /\ r \in 0 .. MaxRev /\ exec.rev < r /\ goal.status # "ABSENT"
        /\ plan \in [Revision -> Drafts \cup {<<>>}] /\ planStep \in [Step -> StepState]
        /\ stepExec \in [Revision -> [Step -> StepExecRow]]
        /\ blocker \in [Revision \X Step \X Kind -> BlockerStatus]
    BY <1>1, <1>2, Constants DEF PinnedOK, RowTypes, GoalRow
  <1>4. \A b \in DOMAIN blocker : blocker[b] # "OPEN"
    BY <1>1, <1>2 DEF BlockerOK, OpenBlockers
  <1>5. exec.status # "BLOCKED" BY <1>1, <1>2, <1>4 DEF BlockerOK
  <1>6. \A q \in Revision, s \in Step : stepExec[q][s].status # "RUNNING"
    <2> SUFFICES ASSUME NEW q \in Revision, NEW s \in Step, stepExec[q][s].status = "RUNNING" PROVE FALSE
      OBVIOUS
    <2>1. q = exec.rev /\ s \in InPlan(q) /\ stepExec[q][s].task > 0 BY <1>1 DEF RunningOK
    <2>2. s \in StepsIn("RUNNING") /\ At(s).task > 0 BY <2>1 DEF StepsIn, At
    <2> QED BY <1>2, <2>2
  <1>7. \A s \in InPlan(exec.rev) : ~StepDone(s) => At(s).tries < MaxAttempts
    <2> SUFFICES ASSUME NEW s \in InPlan(exec.rev), ~StepDone(s) PROVE At(s).tries < MaxAttempts
      OBVIOUS
    <2>1. s \in Step BY <1>3, PlanFacts
    <2>2. At(s) \in StepExecRow /\ At(s).status # "RUNNING" BY <1>3, <1>6, <2>1 DEF At
    <2>3. At(s).status \notin {"NONE", "CANCELLED", "BLOCKED", "FAILED"} BY <1>1, <1>2, <1>5 DEF TriesOK
    <2>4. At(s).status \in Waiting BY <2>2, <2>3 DEF StepExecRow, StepStatus, Waiting, StepDone
    <2> QED BY <1>1, <1>2, <2>4 DEF TriesOK
  <1>8. \A s \in Step : At(s).tries \in 0 .. MaxAttempts
    BY <1>1, <1>3, Constants DEF AttemptsBounded, At, StepExecRow
  <1>9. \A s : Stable(s) => s \in InPlan(exec.rev) /\ DefAt(exec.rev, s) = DefAt(r, s) BY DEF Stable, DefAt
  <1>10. \A s \in Step :
            /\ s \notin InPlan(r) => Projected[s] = Idle
            /\ s \in InPlan(r) =>
                 /\ Projected[s] = [status |-> Projected[s].status, tries |-> Projected[s].tries, task |-> 0]
                 /\ Projected[s].status \in {"SUCCEEDED", "PENDING"} /\ Projected[s].tries \in 0 .. MaxAttempts
                 /\ Projected[s].status = "PENDING" => Projected[s].tries < MaxAttempts
                 /\ Projected[s].status = "SUCCEEDED" => Stable(s) /\ StepDone(s)
    <2> SUFFICES ASSUME NEW s \in Step
                 PROVE  /\ s \notin InPlan(r) => Projected[s] = Idle
                        /\ s \in InPlan(r) =>
                             /\ Projected[s] = [status |-> Projected[s].status, tries |-> Projected[s].tries, task |-> 0]
                             /\ Projected[s].status \in {"SUCCEEDED", "PENDING"} /\ Projected[s].tries \in 0 .. MaxAttempts
                             /\ Projected[s].status = "PENDING" => Projected[s].tries < MaxAttempts
                             /\ Projected[s].status = "SUCCEEDED" => Stable(s) /\ StepDone(s)
      OBVIOUS
    <2>1. s \notin InPlan(r) => Projected[s] = Idle BY DEF Projected
    <2>2. s \in InPlan(r) => Projected[s] = [status |-> IF Stable(s) /\ StepDone(s) THEN "SUCCEEDED" ELSE "PENDING",
                                             tries |-> IF Stable(s) THEN At(s).tries ELSE 0, task |-> 0]
      BY DEF Projected
    <2>3. Stable(s) /\ ~StepDone(s) => At(s).tries < MaxAttempts BY <1>7, <1>9
    <2> QED BY <1>8, <2>1, <2>2, <2>3, Constants
  <1>11. /\ NextPending = NoStep \/ (NextPending \in InPlan(r) /\ Projected[NextPending].status = "PENDING")
         /\ NoStep \notin Step
    BY <1>3, NextPendingFacts
  <1>12. NextPending \in Step \cup {NoStep} BY <1>3, <1>11, PlanFacts
  <1>13. \A s \in Step :
            /\ g[s] \in StepExecRow /\ g[s].tries <= MaxAttempts
            /\ g[s].status \in {"NONE", "READY", "PENDING", "SUCCEEDED"}
            /\ s \in InPlan(r) => g[s].status # "NONE"
            /\ g[s].status \in Waiting => g[s].tries < MaxAttempts
            /\ g[s].status = "READY" => s = NextPending
            /\ g[s].status = "SUCCEEDED" => s \in InPlan(r) /\ Stable(s) /\ StepDone(s)
    <2> SUFFICES ASSUME NEW s \in Step
                 PROVE  /\ g[s] \in StepExecRow /\ g[s].tries <= MaxAttempts
                        /\ g[s].status \in {"NONE", "READY", "PENDING", "SUCCEEDED"}
                        /\ s \in InPlan(r) => g[s].status # "NONE"
                        /\ g[s].status \in Waiting => g[s].tries < MaxAttempts
                        /\ g[s].status = "READY" => s = NextPending
                        /\ g[s].status = "SUCCEEDED" => s \in InPlan(r) /\ Stable(s) /\ StepDone(s)
      OBVIOUS
    <2>1. CASE s \notin InPlan(r)
      <3>1. g[s] = [status |-> "NONE", tries |-> 0, task |-> 0] BY <1>10, <1>11, <2>1 DEF Idle
      <3> HIDE DEF g
      <3> QED BY <2>1, <3>1, Constants DEF StepExecRow, Waiting
    <2>2. CASE s \in InPlan(r)
      <3> DEFINE p == Projected[s]
      <3>1. /\ p = [status |-> p.status, tries |-> p.tries, task |-> 0]
            /\ p.status \in {"SUCCEEDED", "PENDING"} /\ p.tries \in 0 .. MaxAttempts
            /\ p.status = "PENDING" => p.tries < MaxAttempts
            /\ p.status = "SUCCEEDED" => Stable(s) /\ StepDone(s)
        BY <1>10, <2>2
      <3>2. g[s] = IF s = NextPending THEN [p EXCEPT !.status = "READY"] ELSE p OBVIOUS
      <3> HIDE DEF g
      <3>3. s = NextPending => p.status = "PENDING" BY <1>11
      <3> HIDE DEF p
      <3>4. s = NextPending => g[s] = [status |-> "READY", tries |-> p.tries, task |-> 0] BY <3>1, <3>2
      <3>5. s # NextPending => g[s] = [status |-> p.status, tries |-> p.tries, task |-> 0] BY <3>1, <3>2
      <3>6. p.tries \in 0 .. MaxAttempts + 1 /\ p.tries <= MaxAttempts BY <3>1, Constants
      <3>7. CASE s = NextPending
        BY <2>2, <3>1, <3>3, <3>4, <3>6, <3>7, Constants DEF StepExecRow, StepStatus, Waiting
      <3>8. CASE s # NextPending
        BY <2>2, <3>1, <3>5, <3>6, <3>8, Constants DEF StepExecRow, StepStatus, Waiting
      <3> QED BY <3>7, <3>8
    <2> QED BY <2>1, <2>2
  <1>14. g \in [Step -> StepExecRow] BY <1>13
  <1> HIDE DEF g
  <1>15. /\ stepExec' \in [Revision -> [Step -> StepExecRow]] /\ stepExec'[r] = g
         /\ \A q \in Revision : q # r => stepExec'[q] = stepExec[q]
    BY <1>2, <1>3, <1>14
  <1>16. st \in {"QUEUED", "RUNNING"} OBVIOUS
  <1> HIDE DEF st
  <1>17. /\ exec' \in ExecRow /\ exec'.status = st /\ exec'.rev = r /\ exec'.cur = NextPending
    BY <1>2, <1>3, <1>12, <1>16 DEF ExecRow, ExecActive
  <1>18. \A s \in Step : (At(s))' = g[s] BY <1>15, <1>17 DEF At
  <1>19. /\ goal' \in GoalRow /\ goal'.rev = r /\ goal'.status # "ABSENT" /\ (goal'.status = "ACTIVE" => goal'.count < 3)
    BY <1>1, <1>2, <1>3, UnblockedFacts
  <1>20. /\ \A q : InPlan(q)' = InPlan(q)
         /\ \A q, e : DefAt(q, e)' = DefAt(q, e)
    BY <1>2 DEF InPlan, DefAt
  <1>21. InPlan(exec.rev)' = InPlan(r) /\ InPlan(goal.rev)' = InPlan(r) /\ \A s \in InPlan(r) : s \in Step
    BY <1>2, <1>3, <1>17, <1>19, PlanFacts DEF InPlan
  <1>22. goalFlow' \in [status : FlowStatus, cancel : BOOLEAN] /\ FlowLive'
    BY <1>1, <1>2, <1>16 DEF RowTypes, FlowStatus, ExecActive, FlowLive
  <1>23. planStep' \in [Step -> StepState] BY <1>2, <1>3 DEF StepState
  <1>24. ActiveKeys' = {}
    <2> SUFFICES ASSUME NEW k \in ActiveKeys PROVE FALSE
      BY <1>2 DEF ActiveKeys
    <2>1. k \in StepKey /\ At(k[2]).status = "RUNNING" BY <1>1, <1>2 DEF ActiveOK, ActiveKeys
    <2> QED BY <1>3, <1>6, <2>1, KeyFacts DEF At
  <1>25. RowTypes' BY <1>1, <1>2, <1>15, <1>17, <1>19, <1>22, <1>23 DEF RowTypes
  <1>26. HostTypes' BY <1>1, <1>2, WakeFacts DEF HostTypes, Phase
  <1>27. GoalOK' BY <1>3, <1>19, Constants DEF GoalOK
  <1>28. AbsentOK' BY <1>16, <1>17 DEF AbsentOK
  <1>29. PinnedOK' BY <1>3, <1>17, <1>19 DEF PinnedOK
  <1>30. LiveOK' BY <1>2, <1>16, <1>17, <1>22, <1>24 DEF LiveOK, ExecActive
  <1>31. KeysOK'
    <2> SUFFICES ASSUME NEW k \in StepKey, child[k] # "NONE"
                 PROVE  k[1] <= exec'.rev /\ k[3] <= stepExec'[k[1]][k[2]].tries
      BY <1>2 DEF KeysOK
    <2>1. k[1] <= exec.rev /\ k[3] <= stepExec[k[1]][k[2]].tries /\ k[1] \in Revision BY <1>1, KeyFacts DEF KeysOK
    <2>2. k[1] # r /\ k[1] <= r BY <1>3, <2>1, Constants
    <2> QED BY <1>15, <1>17, <2>1, <2>2
  <1>32. RunningOK'
    <2>1. \A q \in Revision, s \in Step : stepExec'[q][s].status # "RUNNING" BY <1>6, <1>13, <1>15
    <2> QED BY <2>1 DEF RunningOK
  <1>33. ActiveOK' BY <1>24 DEF ActiveOK
  <1>34. BusyOK'
    <2>1. \A s \in InPlan(r) : (At(s).status)' \in Busy => s = NextPending BY <1>13, <1>18, <1>21 DEF Busy
    <2> QED BY <1>21, <2>1 DEF BusyOK
  <1>35. TriesOK' BY <1>13, <1>18, <1>21 DEF TriesOK
  <1>36. BlockerOK' BY <1>2, <1>4, <1>16, <1>17 DEF BlockerOK
  <1>37. AttemptsBounded' BY <1>1, <1>13, <1>15 DEF AttemptsBounded
  <1>38. CompletionIsEarned'
    <2>1. \A s \in InPlan(exec.rev) : StepDone(s) => Earned(s, DefAt(exec.rev, s))
      BY <1>1, <1>2 DEF CompletionIsEarned
    <2>2. ASSUME NEW s \in Step, Stable(s), StepDone(s)
          PROVE  \E k \in StepKey : child'[k] = "SUCCEEDED" /\ k[2] = s /\ DefAt(k[1], s)' = DefAt(r, s)
      <3>1. Earned(s, DefAt(r, s)) BY <1>9, <2>1, <2>2
      <3>2. PICK k \in StepKey : child[k] = "SUCCEEDED" /\ k[2] = s /\ DefAt(k[1], s) = DefAt(r, s)
        BY <3>1 DEF Earned
      <3> QED BY <1>2, <1>20, <3>2
    <2>3. ASSUME NEW s \in InPlan(exec.rev)', StepDone(s)' PROVE Earned(s, DefAt(exec.rev, s))'
      <3>1. s \in InPlan(r) /\ s \in Step /\ DefAt(exec.rev, s)' = DefAt(r, s)
        BY <1>2, <1>17, <1>21 DEF DefAt, InPlan
      <3>2. g[s].status = "SUCCEEDED" BY <2>3, <1>18, <3>1 DEF StepDone
      <3>3. Stable(s) /\ StepDone(s) BY <1>13, <3>1, <3>2
      <3> QED BY <2>2, <3>1, <3>3 DEF Earned
    <2>4. ASSUME NEW s \in InPlan(goal.rev)', planStep'[s] = "COMPLETED" PROVE Earned(s, DefAt(goal.rev, s))'
      <3>1. s \in InPlan(r) /\ s \in Step /\ DefAt(goal.rev, s)' = DefAt(r, s)
        BY <1>2, <1>19, <1>21 DEF DefAt, InPlan
      <3>2. Projected[s].status = "SUCCEEDED" BY <1>2, <2>4, <3>1
      <3>3. Stable(s) /\ StepDone(s) BY <1>10, <3>1, <3>2
      <3> QED BY <2>2, <3>1, <3>3 DEF Earned
    <2> QED BY <1>16, <1>17, <2>3, <2>4 DEF CompletionIsEarned
  <1>39. ToolsKeepOrder' BY <1>16, <1>17 DEF ToolsKeepOrder
  <1> QED BY <1>25, <1>26, <1>27, <1>28, <1>29, <1>30, <1>31, <1>32, <1>33, <1>34, <1>35, <1>36, <1>37, <1>38, <1>39
          DEF GoalInv

-----------------------------------------------------------------------------
\* The execution ends: its open steps may be cancelled, the rest stays as it is.
LEMMA EndKeeps ==
  ASSUME GoalInv, exec.status # "ABSENT", exec' \in ExecRow, exec'.rev = exec.rev, exec'.status \in ExecTerminal,
         exec'.status = "CANCELLED" => ActiveKeys = {},
         exec'.status = "SUCCEEDED" => \A s \in InPlan(exec.rev) : StepDone(s),
         stepExec' \in [Revision -> [Step -> StepExecRow]],
         \A r \in Revision, s \in Step :
            /\ stepExec'[r][s].tries = stepExec[r][s].tries /\ stepExec'[r][s].task = stepExec[r][s].task
            /\ \/ stepExec'[r][s].status = stepExec[r][s].status
               \/ stepExec'[r][s].status = "CANCELLED" /\ stepExec[r][s].status # "SUCCEEDED",
         UNCHANGED <<plan, blocker, child>>,
         goal' \in GoalRow, goal'.rev = goal.rev, goal'.status # "ABSENT", goal'.status = "ACTIVE" => goal'.count < 3,
         planStep' \in [Step -> StepState],
         \A s \in Step : planStep'[s] = "COMPLETED" => planStep[s] = "COMPLETED",
         goalFlow' \in [status : FlowStatus, cancel : BOOLEAN], ~FlowLive',
         HostTypes', doing' # "final"
  PROVE  GoalInv'
  <1>1. /\ RowTypes /\ GoalOK /\ PinnedOK /\ KeysOK /\ RunningOK /\ ActiveOK
        /\ BusyOK /\ AttemptsBounded /\ CompletionIsEarned
    BY DEF GoalInv
  <1>2. /\ exec.rev \in Revision /\ exec.rev <= goal.rev /\ plan \in [Revision -> Drafts \cup {<<>>}]
        /\ exec'.status \notin ExecActive \cup {"ABSENT"}
    BY <1>1 DEF PinnedOK, RowTypes, ExecActive, ExecTerminal
  <1>3. RowTypes' BY <1>1 DEF RowTypes
  <1>4. GoalOK'
    <2>1. goal.rev >= 1 BY <1>1 DEF GoalOK, PinnedOK
    <2> QED BY <2>1 DEF GoalOK
  <1>5. AbsentOK' BY <1>2 DEF AbsentOK
  <1>6. PinnedOK' BY <1>2 DEF PinnedOK
  <1>7. ActiveKeys' = ActiveKeys BY DEF ActiveKeys
  <1>8. LiveOK' BY <1>2, <1>7 DEF LiveOK
  <1>9. KeysOK' BY <1>1, KeyFacts DEF KeysOK
  <1>10. RunningOK'
    <2>1. \A r : InPlan(r)' = InPlan(r) BY DEF InPlan
    <2> QED BY <1>1, <2>1 DEF RunningOK
  <1>11. ActiveOK' BY <1>1, <1>2, <1>7 DEF ActiveOK
  <1>12. InPlan(exec.rev)' = InPlan(exec.rev) /\ InPlan(goal.rev)' = InPlan(goal.rev)
         /\ \A s \in InPlan(exec.rev) : s \in Step
    BY <1>2, PlanFacts DEF InPlan
  <1>13. \A s \in Step : /\ \/ (At(s).status)' = At(s).status
                            \/ (At(s).status)' = "CANCELLED" /\ At(s).status # "SUCCEEDED"
                         /\ StepDone(s)' <=> StepDone(s)
    <2> SUFFICES ASSUME NEW s \in Step
                 PROVE  /\ \/ (At(s).status)' = At(s).status
                           \/ (At(s).status)' = "CANCELLED" /\ At(s).status # "SUCCEEDED"
                        /\ StepDone(s)' <=> StepDone(s)
      OBVIOUS
    <2>1. (At(s))' = stepExec'[exec.rev][s] /\ At(s) = stepExec[exec.rev][s] BY DEF At
    <2>2. \/ (At(s).status)' = At(s).status
          \/ (At(s).status)' = "CANCELLED" /\ At(s).status # "SUCCEEDED"
      BY <1>2, <2>1
    <2> QED BY <2>2 DEF StepDone
  <1>14. BusyOK' BY <1>1, <1>12, <1>13 DEF BusyOK, Busy
  <1>15. TriesOK' /\ BlockerOK' BY <1>2 DEF TriesOK, BlockerOK
  <1>16. AttemptsBounded' BY <1>1 DEF AttemptsBounded
  <1>17. CompletionIsEarned'
    <2>1. \A r, e : DefAt(r, e)' = DefAt(r, e) BY DEF DefAt, InPlan
    <2>2. /\ \A s \in InPlan(exec.rev) : StepDone(s) => Earned(s, DefAt(exec.rev, s))
          /\ \A s \in InPlan(goal.rev) : planStep[s] = "COMPLETED" => Earned(s, DefAt(goal.rev, s))
      BY <1>1 DEF CompletionIsEarned
    <2>3. ASSUME NEW s \in InPlan(exec.rev)', StepDone(s)' PROVE Earned(s, DefAt(exec.rev, s))'
      <3>1. s \in InPlan(exec.rev) /\ StepDone(s) /\ DefAt(exec.rev, s)' = DefAt(exec.rev, s)
        BY <1>12, <1>13, <2>3 DEF DefAt, InPlan
      <3>2. Earned(s, DefAt(exec.rev, s)) BY <2>2, <3>1
      <3>3. PICK k \in StepKey : child[k] = "SUCCEEDED" /\ k[2] = s /\ DefAt(k[1], s) = DefAt(exec.rev, s)
        BY <3>2 DEF Earned
      <3> QED BY <2>1, <3>1, <3>3 DEF Earned
    <2>4. ASSUME NEW s \in InPlan(goal.rev)', planStep'[s] = "COMPLETED" PROVE Earned(s, DefAt(goal.rev, s))'
      <3>1. s \in InPlan(goal.rev) /\ s \in Step /\ DefAt(goal.rev, s)' = DefAt(goal.rev, s)
        BY <1>2, <1>12, PlanFacts DEF DefAt, InPlan
      <3>2. Earned(s, DefAt(goal.rev, s)) BY <2>2, <2>4, <3>1
      <3>3. PICK k \in StepKey : child[k] = "SUCCEEDED" /\ k[2] = s /\ DefAt(k[1], s) = DefAt(goal.rev, s)
        BY <3>2 DEF Earned
      <3> QED BY <2>1, <3>1, <3>3 DEF Earned
    <2>5. exec'.status = "SUCCEEDED" => \A s \in InPlan(exec.rev)' : StepDone(s)' BY <1>12, <1>13
    <2> QED BY <2>3, <2>4, <2>5 DEF CompletionIsEarned
  <1>18. ToolsKeepOrder' BY <1>2 DEF ToolsKeepOrder
  <1> QED BY <1>3, <1>4, <1>5, <1>6, <1>8, <1>9, <1>10, <1>11, <1>14, <1>15, <1>16, <1>17, <1>18 DEF GoalInv

\* The controller finishes the plan, or fails it.
LEMMA FinishPlanKeeps == ASSUME GoalInv, NEW c \in Caller, FinishPlan(c) PROVE GoalInv'
  <1>1. /\ RowTypes /\ HostTypes /\ PinnedOK /\ exec.status # "ABSENT" BY DEF GoalInv, FinishPlan, ExecActive
  <1>2. /\ exec' = [status |-> "SUCCEEDED", rev |-> exec.rev, cur |-> NoStep] /\ exec.rev \in 0 .. MaxRev
    BY <1>1 DEF FinishPlan, RowTypes, ExecRow
  <1>3. exec' \in ExecRow /\ exec'.status \in ExecTerminal BY <1>2 DEF ExecRow, ExecTerminal
  <1>4. goal' \in GoalRow /\ goal'.rev = goal.rev /\ goal'.status = "COMPLETED"
    BY <1>1 DEF FinishPlan, SetGoal, RowTypes, GoalRow
  <1>5. /\ goalFlow' \in [status : FlowStatus, cancel : BOOLEAN] /\ ~FlowLive'
    BY <1>1 DEF FinishPlan, RowTypes, FlowStatus, ExecActive, ExecTerminal, FlowLive
  <1>6. HostTypes' /\ doing' # "final" BY <1>1, WakeFacts DEF FinishPlan, HostTypes, execBound, MayCall
  <1>7. \A s \in InPlan(exec.rev) : StepDone(s) BY DEF FinishPlan
  <1>8. UNCHANGED <<plan, planStep, stepExec, blocker, child>> BY DEF FinishPlan
  <1> QED BY <1>1, <1>2, <1>3, <1>4, <1>5, <1>6, <1>7, <1>8, EndKeeps DEF RowTypes

\* failExecution: the Goal is blocked with its execution.
LEMMA FailKeeps == ASSUME GoalInv, NEW c \in Caller, Fail(c) PROVE GoalInv'
  <1>1. /\ RowTypes /\ HostTypes /\ GoalOK /\ PinnedOK /\ exec.status # "ABSENT"
    BY InvParts DEF GoalInv, Fail, ExecActive
  <1>2. /\ exec' = [status |-> "FAILED", rev |-> exec.rev, cur |-> exec.cur]
        /\ exec.rev \in 0 .. MaxRev /\ exec.cur \in Step \cup {NoStep}
    BY <1>1 DEF Fail, RowTypes, ExecRow
  <1>3. exec' \in ExecRow /\ exec'.status \in ExecTerminal BY <1>2 DEF ExecRow, ExecTerminal
  <1>4. goal' \in GoalRow /\ goal'.rev = goal.rev /\ goal'.status # "ABSENT" /\ (goal'.status = "ACTIVE" => goal'.count < 3)
    <2>1. CASE goal' = goal BY <1>1, <2>1 DEF RowTypes, GoalOK, PinnedOK
    <2>2. CASE goal' = [goal EXCEPT !.status = "BLOCKED"] BY <1>1, <2>2 DEF RowTypes, GoalRow, Open
    <2> QED BY <2>1, <2>2 DEF Fail, SetGoal
  <1>5. /\ goalFlow' \in [status : FlowStatus, cancel : BOOLEAN] /\ ~FlowLive'
    BY <1>1 DEF Fail, RowTypes, FlowStatus, ExecActive, ExecTerminal, FlowLive
  <1>6. HostTypes' /\ doing' # "final" BY <1>1, WakeFacts DEF Fail, HostTypes, execBound, MayCall
  <1>7. UNCHANGED <<plan, planStep, stepExec, blocker, child>> BY DEF Fail
  <1> QED BY <1>1, <1>2, <1>3, <1>4, <1>5, <1>6, <1>7, EndKeeps DEF RowTypes

\* The projection of a cancellation closes the execution and its open steps.
LEMMA CancelProjectedKeeps == ASSUME GoalInv, CancelProjected PROVE GoalInv'
  <1> DEFINE hit == {s \in InPlan(exec.rev) : At(s).status \notin {"SUCCEEDED", "FAILED", "CANCELLED"}}
             g == [s \in Step |-> IF s \in hit THEN [At(s) EXCEPT !.status = "CANCELLED"] ELSE At(s)]
  <1>1. /\ RowTypes /\ HostTypes /\ GoalOK /\ PinnedOK /\ CompletionIsEarned /\ ~FlowLive /\ exec.status # "ABSENT"
        /\ exec.status \in ExecActive \cup {"CANCELLED"} => ActiveKeys = {}
    BY InvParts DEF GoalInv, CancelProjected
  <1>2. /\ exec' = IF exec.status \in ExecTerminal THEN exec ELSE [exec EXCEPT !.status = "CANCELLED"]
        /\ stepExec' = [stepExec EXCEPT ![exec.rev] = g]
        /\ planStep' = [s \in Step |-> IF s \in hit /\ planStep[s] # "COMPLETED" THEN "CANCELLED" ELSE planStep[s]]
        /\ goal' = goal \/ goal' = [goal EXCEPT !.status = "CANCELLED"]
        /\ UNCHANGED <<plan, blocker, goalFlow, child, ended, hook, back, goalCrashes, goalFaults>>
        /\ wake' = Staled /\ doing' = back
    BY DEF CancelProjected, ProjectCancelled, SetGoal, execBound
  <1>3. exec.rev \in Revision /\ stepExec \in [Revision -> [Step -> StepExecRow]] /\ \A s \in Step : At(s) \in StepExecRow
    BY <1>1 DEF PinnedOK, RowTypes, At
  <1>4. /\ exec' \in ExecRow /\ exec'.rev = exec.rev /\ exec'.status \in ExecTerminal
        /\ exec'.status = exec.status \/ (exec'.status = "CANCELLED" /\ exec.status \in ExecActive)
    BY <1>1, <1>2 DEF RowTypes, ExecRow, ExecTerminal, ExecActive
  <1>5. \A s \in Step : /\ g[s] \in StepExecRow /\ g[s].tries = At(s).tries /\ g[s].task = At(s).task
                        /\ g[s].status = At(s).status \/ (g[s].status = "CANCELLED" /\ At(s).status # "SUCCEEDED")
    <2> SUFFICES ASSUME NEW s \in Step
                 PROVE  /\ g[s] \in StepExecRow /\ g[s].tries = At(s).tries /\ g[s].task = At(s).task
                        /\ g[s].status = At(s).status \/ (g[s].status = "CANCELLED" /\ At(s).status # "SUCCEEDED")
      OBVIOUS
    <2>1. CASE s \in hit BY <1>3, <2>1 DEF StepExecRow, StepStatus
    <2>2. CASE s \notin hit BY <1>3, <2>2
    <2> QED BY <2>1, <2>2
  <1>6. g \in [Step -> StepExecRow] BY <1>5
  <1> HIDE DEF g
  <1>7. /\ stepExec' \in [Revision -> [Step -> StepExecRow]] /\ stepExec'[exec.rev] = g
        /\ \A r \in Revision : r # exec.rev => stepExec'[r] = stepExec[r]
    BY <1>2, <1>3, <1>6
  <1>8. \A r \in Revision, s \in Step :
            /\ stepExec'[r][s].tries = stepExec[r][s].tries /\ stepExec'[r][s].task = stepExec[r][s].task
            /\ \/ stepExec'[r][s].status = stepExec[r][s].status
               \/ stepExec'[r][s].status = "CANCELLED" /\ stepExec[r][s].status # "SUCCEEDED"
    BY <1>5, <1>7 DEF At
  <1>9. goal' \in GoalRow /\ goal'.rev = goal.rev /\ goal'.status # "ABSENT" /\ (goal'.status = "ACTIVE" => goal'.count < 3)
    <2>1. CASE goal' = goal BY <1>1, <2>1 DEF RowTypes, GoalOK, PinnedOK
    <2>2. CASE goal' = [goal EXCEPT !.status = "CANCELLED"] BY <1>1, <2>2 DEF RowTypes, GoalRow
    <2> QED BY <1>2, <2>1, <2>2
  <1>10. planStep' \in [Step -> StepState] /\ \A s \in Step : planStep'[s] = "COMPLETED" => planStep[s] = "COMPLETED"
    BY <1>1, <1>2 DEF RowTypes, StepState
  <1>11. goalFlow' \in [status : FlowStatus, cancel : BOOLEAN] /\ ~FlowLive' BY <1>1, <1>2 DEF RowTypes, FlowLive
  <1>12. HostTypes' /\ doing' # "final" BY <1>1, <1>2, WakeFacts DEF HostTypes, Phase
  <1>13. exec'.status = "CANCELLED" => ActiveKeys = {} BY <1>1, <1>4
  <1>14. exec'.status = "SUCCEEDED" => \A s \in InPlan(exec.rev) : StepDone(s)
    BY <1>1, <1>4 DEF CompletionIsEarned, ExecActive
  <1> HIDE DEF hit
  <1> QED BY <1>1, <1>2, <1>4, <1>7, <1>8, <1>9, <1>10, <1>11, <1>12, <1>13, <1>14, EndKeeps

-----------------------------------------------------------------------------
\* The invariant holds at first.
LEMMA GoalInitInv == ASSUME GoalInit PROVE GoalInv
  <1>1. /\ goal = [status |-> "ABSENT", rev |-> 0, note |-> NoNote, count |-> 0]
        /\ plan = [r \in Revision |-> <<>>] /\ planStep = [s \in Step |-> "ABSENT"]
        /\ exec = [status |-> "ABSENT", rev |-> 0, cur |-> NoStep]
        /\ stepExec = [r \in Revision |-> [s \in Step |-> Idle]]
        /\ blocker = [b \in Revision \X Step \X Kind |-> "NONE"]
        /\ goalFlow = [status |-> "ABSENT", cancel |-> FALSE]
        /\ child = [k \in StepKey |-> "NONE"] /\ wake = [k \in StepKey |-> "NONE"]
        /\ ended = {} /\ hook = {} /\ doing = "idle" /\ back = "idle"
        /\ goalCrashes = 0 /\ goalFaults = 0
    BY DEF GoalInit, GoalRowsInit
  <1>2. 0 \in 0 .. MaxRev /\ 0 \in 0 .. MaxAttempts + 1 /\ 0 \in 0 .. MaxGoalCrashes /\ 0 \in 0 .. MaxGoalFaults
    BY Constants
  <1>3. Idle \in StepExecRow /\ Idle.status = "NONE" /\ Idle.tries = 0 BY <1>2 DEF Idle, StepExecRow
  <1>4. RowTypes
    <2>1. goal \in GoalRow /\ exec \in ExecRow BY <1>1, <1>2 DEF GoalRow, ExecRow
    <2>2. goalFlow \in [status : FlowStatus, cancel : BOOLEAN] BY <1>1 DEF FlowStatus
    <2>3. /\ plan \in [Revision -> Drafts \cup {<<>>}] /\ planStep \in [Step -> StepState]
          /\ stepExec \in [Revision -> [Step -> StepExecRow]]
          /\ blocker \in [Revision \X Step \X Kind -> BlockerStatus] /\ child \in [StepKey -> ChildStatus]
      BY <1>1, <1>3 DEF StepState, BlockerStatus, ChildStatus
    <2> QED BY <2>1, <2>2, <2>3 DEF RowTypes
  <1>5. HostTypes BY <1>1, <1>2 DEF HostTypes, WakeStatus, Phase
  <1>6. ~FlowLive /\ ActiveKeys = {} BY <1>1 DEF FlowLive, ExecActive, ActiveKeys
  <1>7. GoalOK /\ PinnedOK BY <1>1 DEF GoalOK, PinnedOK
  <1>8. AbsentOK BY <1>1, <1>3, <1>6 DEF AbsentOK
  <1>9. LiveOK /\ ActiveOK BY <1>1, <1>6 DEF LiveOK, ActiveOK, ExecActive
  <1>10. KeysOK /\ RunningOK BY <1>1, <1>3 DEF KeysOK, RunningOK
  <1>11. BusyOK /\ TriesOK /\ BlockerOK BY <1>1 DEF BusyOK, TriesOK, BlockerOK, ExecActive
  <1>12. AttemptsBounded BY <1>1, <1>3, Constants DEF AttemptsBounded
  <1>13. CompletionIsEarned BY <1>1 DEF CompletionIsEarned
  <1>14. ToolsKeepOrder BY <1>1 DEF ToolsKeepOrder
  <1> QED BY <1>4, <1>5, <1>7, <1>8, <1>9, <1>10, <1>11, <1>12, <1>13, <1>14 DEF GoalInv

\* Every step keeps it, and so does a stutter.
LEMMA GoalNextInv == ASSUME GoalInv, [GoalNext]_execVars PROVE GoalInv'
  <1>1. CASE UNCHANGED execVars
    <2>1. HostTypes' BY <1>1, InvParts DEF execVars, execRow, execBound, HostTypes
    <2> QED BY <1>1, <2>1, InvParts, Still DEF execVars, goalVars, execRow
  <1>2. CASE GoalSequence
    BY <1>2, AdvanceReadsKeeps, AdmitMoves, CancelNextChildQuiet, CancelFinalQuiet, CancelProjectedKeeps,
       RunsRecoverQuiet, RecoverPlansStill, DrainWakesStill, MaintainStill, DispatchEndedStill DEF GoalSequence
  <1>3. CASE \E b \in DOMAIN blocker : Retry(b) \/ ResolveBlocker(b)
    BY <1>3, ResumeBlockedStepMoves DEF Retry, ResolveBlocker
  <1>4. CASE \E c \in Caller :
               \/ \E s \in Step : RunNext(c, s)
               \/ Wait(c) \/ SetBlockedAgain(c) \/ FinishPlan(c) \/ Fail(c) \/ CancelPlan(c)
    BY <1>4, RunNextMoves, WaitMoves, SetBlockedAgainQuiet, FinishPlanKeeps, FailKeeps, CancelPlanQuiet
  <1>5. CASE \E k \in StepKey : ChildStep(k) \/ RunNextReplayed(k) \/ OperatorCancelsTask(k) \/ GoalHookRejects(k) \/ WakeEnds(k)
    BY <1>5, TaskEndsQuiet, GoalRunTerminalKeeps, RunNextReplayedStill, OperatorCancelsTaskQuiet,
       GoalHookRejectsStill, WakeEndsStill DEF ChildStep
  <1>6. CASE UseGoalTool \/ StartPlan \/ AdoptPlanRevision \/ Advance \/ Resume
             \/ (\E p \in Drafts : RevisePlan(p)) \/ GoalRequestCancel \/ BeginMaintain \/ GoalCrash
    BY <1>6, UseGoalToolKeeps, StartPlanKeeps, AdoptPlanRevisionKeeps, AdvanceStill, ResumeMoves, RevisePlanKeeps,
       GoalRequestCancelQuiet, BeginMaintainStill, GoalCrashStill
  <1> QED BY <1>1, <1>2, <1>3, <1>4, <1>5, <1>6 DEF GoalNext

\* The inductive invariant holds of every plan executor: any plans and
\* revisions, attempts, crashes and faults.
THEOREM GoalInductive == GoalSpec => []GoalInv
  <1>1. GoalInit => GoalInv BY GoalInitInv
  <1>2. GoalInv /\ [GoalNext]_execVars => GoalInv' BY GoalNextInv
  <1> QED BY <1>1, <1>2, PTL DEF GoalSpec

\* What the run checks of Goals, plan revisions, step executions and blockers
\* (goal-executor, goal-repository).
THEOREM GoalsCorrect == GoalSpec => []GoalsAgree
  <1>1. ASSUME GoalInv PROVE GoalsAgree
    <2>1. /\ RowTypes /\ HostTypes /\ LiveOK /\ ActiveOK /\ BusyOK /\ BlockerOK /\ PinnedOK
          /\ AttemptsBounded /\ CompletionIsEarned /\ ToolsKeepOrder
      BY <1>1 DEF GoalInv
    <2>2. GoalTypeOK
      BY <2>1, StepTable DEF RowTypes, HostTypes, GoalTypeOK, GoalRowsOK, WakeStatus, ChildStatus, FlowStatus
    <2>3. OneActiveStep
      <3>1. Cardinality(ActiveKeys) <= 1 BY <2>1, AtMostOne DEF ActiveOK
      <3>2. ASSUME exec.rev > 0
            PROVE  Cardinality({s \in InPlan(exec.rev) :
                       At(s).status \in {"READY", "RUNNING", "WAITING", "BLOCKED", "FAILED"}}) <= 1
        <4> DEFINE S == {s \in InPlan(exec.rev) : At(s).status \in Busy}
        <4>1. ASSUME exec.status # "ABSENT" PROVE \A s, e \in S : s = e BY <2>1, <4>1 DEF BusyOK
        <4>2. ASSUME exec.status = "ABSENT" PROVE \A s, e \in S : s = e
          <5>1. \A s \in InPlan(exec.rev) : exec.rev \in Revision /\ s \in Step BY <2>1, PlanFacts DEF RowTypes
          <5>2. \A s \in InPlan(exec.rev) : At(s).status = "NONE"
            BY <1>1, <4>2, <5>1 DEF GoalInv, AbsentOK, At
          <5> QED BY <5>2 DEF Busy
        <4>4. \A s, e \in S : s = e BY <4>1, <4>2
        <4> HIDE DEF S
        <4>5. Cardinality(S) <= 1 BY <4>4, AtMostOne
        <4> QED BY <4>5 DEF S, Busy
      <3> QED BY <3>1, <3>2 DEF OneActiveStep
    <2>4. BlockedHasBlocker
      <3> SUFFICES ASSUME exec.status \in ExecActive
                   PROVE  /\ exec.status = "BLOCKED" <=> OpenBlockers # {}
                          /\ \A b \in OpenBlockers : b[2] = exec.cur
                          /\ Cardinality(OpenBlockers) <= 1
        BY DEF BlockedHasBlocker
      <3>1. exec.status = "BLOCKED" <=> OpenBlockers # {} BY <2>1 DEF BlockerOK, OpenBlockers
      <3>2. \A b \in OpenBlockers : b[2] = exec.cur BY <2>1 DEF BlockerOK, OpenBlockers
      <3>3. \A b, c \in OpenBlockers : b = c BY <2>1 DEF BlockerOK, OpenBlockers
      <3> QED BY <3>1, <3>2, <3>3, AtMostOne
    <2>5. CancelledExecIsQuiet BY <2>1 DEF LiveOK, CancelledExecIsQuiet
    <2> QED BY <2>1, <2>2, <2>3, <2>4, <2>5 DEF GoalsAgree
  <1> QED BY <1>1, GoalInductive, PTL
=============================================================================
