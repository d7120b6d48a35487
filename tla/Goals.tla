------------------------------- MODULE Goals -------------------------------
(***************************************************************************)
(* The durable Goal of a Conversation: packages/goals, the service behind  *)
(* the goal and plan tools of the model, and the rows of goal-repository   *)
(* that it shares with the plan executor (module GoalExecutor).            *)
(*                                                                         *)
(* The revision of the Goal is left out: every operation is conditional on *)
(* it and a caller with a stale revision changes nothing.  A plan is a     *)
(* sequence of steps with their definitions; the immutable snapshot of     *)
(* every plan revision is kept, as the repository keeps it.                *)
(***************************************************************************)
EXTENDS Naturals, Sequences, FiniteSets

CONSTANTS
    Step,         \* step ids
    Def,          \* definitions of a step: title, required, retry limit
    Optional,     \* the definitions with required = false
    Drafts,       \* the plans a caller may propose
    Note,         \* the texts of reported blockers
    MaxRev        \* bound on the plan revisions

NoDef == "NONE"

ASSUME GoalAssumption ==
    /\ Optional \subseteq Def /\ NoDef \notin Def
    /\ Drafts \subseteq Seq([step : Step, def : Def])
    /\ MaxRev \in Nat \ {0}

VARIABLES
    goal,         \* agent_goals: status, planRevision, blocker note and count
    plan,         \* agent_goal_plan_revision_steps, by revision
    planStep      \* agent_goal_plan_steps.status, the mutable projection

goalVars == <<goal, plan, planStep>>

NoNote == "NONE"
Open == {"ACTIVE", "PAUSED", "BLOCKED"}
Revision == 1 .. MaxRev

StepsOf(p) == {p[i].step : i \in DOMAIN p}
OrdinalIn(p, s) == CHOOSE i \in DOMAIN p : p[i].step = s
DefIn(p, s) == p[OrdinalIn(p, s)].def
InPlan(r) == IF r \in Revision THEN StepsOf(plan[r]) ELSE {}
Ordinal(r, s) == OrdinalIn(plan[r], s)
DefAt(r, s) == IF s \in InPlan(r) THEN DefIn(plan[r], s) ELSE NoDef

GoalTransitions ==
    [ACTIVE |-> {"PAUSED", "BLOCKED", "COMPLETED", "CANCELLED"},
     PAUSED |-> {"ACTIVE", "CANCELLED"},
     BLOCKED |-> {"ACTIVE", "CANCELLED"}]

StepTransitions ==
    [PENDING |-> {"IN_PROGRESS", "COMPLETED", "CANCELLED"},
     IN_PROGRESS |-> {"BLOCKED", "COMPLETED", "CANCELLED"},
     BLOCKED |-> {"IN_PROGRESS", "CANCELLED"},
     COMPLETED |-> {}, CANCELLED |-> {}, ABSENT |-> {}]

GoalRow == [status : Open \cup {"ABSENT", "COMPLETED", "CANCELLED"},
            rev : 0 .. MaxRev, note : Note \cup {NoNote}, count : 0 .. 3]

GoalRowsOK ==
    /\ goal \in GoalRow
    /\ plan \in [Revision -> Drafts \cup {<<>>}]
    /\ planStep \in [Step -> DOMAIN StepTransitions]

GoalRowsInit ==
    /\ goal = [status |-> "ABSENT", rev |-> 0, note |-> NoNote, count |-> 0]
    /\ plan = [r \in Revision |-> <<>>]
    /\ planStep = [s \in Step |-> "ABSENT"]

\* create, with or without a plan.
CreateGoal(p) ==
    /\ goal.status = "ABSENT"
    /\ goal' = [goal EXCEPT !.status = "ACTIVE", !.rev = 1]
    /\ plan' = [plan EXCEPT ![1] = p]
    /\ planStep' = [s \in Step |-> IF s \in StepsOf(p) THEN "PENDING" ELSE "ABSENT"]

\* setPlan: only a Goal without a step takes one.
SetPlan(p) ==
    /\ goal.status = "ACTIVE" /\ goal.rev < MaxRev /\ p # <<>>
    /\ \A s \in Step : planStep[s] = "ABSENT"
    /\ goal' = [goal EXCEPT !.rev = @ + 1]
    /\ plan' = [plan EXCEPT ![goal.rev + 1] = p]
    /\ planStep' = [s \in Step |-> IF s \in StepsOf(p) THEN "PENDING" ELSE "ABSENT"]

\* updateStep: one step moves, the whole plan is a new revision.
UpdateStep(s, target) ==
    /\ goal.status = "ACTIVE" /\ goal.rev < MaxRev
    /\ s \in InPlan(goal.rev) /\ target \in StepTransitions[planStep[s]]
    /\ target \in {"IN_PROGRESS", "COMPLETED"} =>
         \A e \in InPlan(goal.rev) :
            Ordinal(goal.rev, e) < Ordinal(goal.rev, s) => planStep[e] \in {"COMPLETED", "CANCELLED"}
    /\ planStep' = [planStep EXCEPT ![s] = target]
    /\ plan' = [plan EXCEPT ![goal.rev + 1] = plan[goal.rev]]
    /\ goal' = [goal EXCEPT !.rev = @ + 1, !.note = NoNote, !.count = 0]

\* reportBlocker counts the reports of the same text.
ReportBlocker(n) ==
    LET count == IF goal.note = n THEN goal.count + 1 ELSE 1
    IN  /\ goal.status = "ACTIVE"
        /\ goal' = [goal EXCEPT !.note = n, !.count = count,
                                !.status = IF count >= 3 THEN "BLOCKED" ELSE "ACTIVE"]
            /\ UNCHANGED <<plan, planStep>>

\* control: pause, resume, cancel.
Control(target) ==
    /\ goal.status \in Open /\ target \in {"PAUSED", "ACTIVE", "CANCELLED"}
    /\ target \in GoalTransitions[goal.status]
    /\ goal' = IF target = "ACTIVE"
               THEN [goal EXCEPT !.status = target, !.note = NoNote, !.count = 0]
               ELSE [goal EXCEPT !.status = target]
    /\ UNCHANGED <<plan, planStep>>

CompleteGoal ==
    /\ goal.status = "ACTIVE"
    /\ \A s \in InPlan(goal.rev) : planStep[s] = "COMPLETED"
    /\ goal' = [goal EXCEPT !.status = "COMPLETED", !.note = NoNote, !.count = 0]
    /\ UNCHANGED <<plan, planStep>>

GoalTool ==
    \/ \E p \in Drafts \cup {<<>>} : CreateGoal(p)
    \/ \E p \in Drafts : SetPlan(p)
    \/ \E s \in Step, t \in DOMAIN StepTransitions : UpdateStep(s, t)
    \/ \E n \in Note : ReportBlocker(n)
    \/ \E t \in Open \cup {"CANCELLED"} : Control(t)
    \/ CompleteGoal

----------------------------------------------------------------------------
\* A Goal the tools completed has every step of its plan completed, and they
\* were completed in the order of the plan: a step is never COMPLETED while an
\* earlier one is still open (goals/service.ts updateStep and complete).
StepsInOrder(r) ==
    \A s, e \in InPlan(r) :
        Ordinal(r, e) < Ordinal(r, s) /\ planStep[s] \in {"IN_PROGRESS", "COMPLETED"}
            => planStep[e] \in {"COMPLETED", "CANCELLED"}
=============================================================================
