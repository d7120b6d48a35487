--------------------------- MODULE MCOrchestration ---------------------------
(***************************************************************************)
(* The run ledger, task flows, the goal tools and the goal executor, each  *)
(* on a small instance.  They share no state here, so one behaviour runs   *)
(* one of them: `part` is chosen in the initial state and the others stay  *)
(* where they start.  The state graph is as large as the sum, not the      *)
(* product, of those of the parts.                                         *)
(***************************************************************************)
EXTENDS RunLedger, TaskFlows, GoalExecutor

CONSTANTS r1, r2, t1, a, b, v1, v2, opt

VARIABLE part

orchVars == <<part, ledgerVars, flowVars, execVars>>

Item(s, d) == [step |-> s, def |-> d]
\* A plan and one that changes its first step and drops the optional second.
MCDrafts == {<<Item(a, v1), Item(b, opt)>>, <<Item(a, v2)>>}
\* A plan that grows by a step before the others (for NeverStranded).
MCGrown ==
    LET c == CHOOSE s \in Step : s \notin {a, b}
    IN  {<<Item(a, v1), Item(b, v1)>>, <<Item(c, v1), Item(a, v1), Item(b, v1)>>}

OrchInit == part \in {"ledger", "flows", "child", "goals", "plans", "step"} /\ Init /\ FlowInit /\ GoalInit

Ledger == part = "ledger" /\ Next /\ UNCHANGED <<flowVars, execVars>>
\* Two children without faults, and one child with one.
Flows == part = "flows" /\ FlowNext /\ flowFaults' = 0 /\ UNCHANGED <<ledgerVars, execVars>>
Child == /\ part = "child" /\ FlowNext
         /\ \A t \in Task \ {t1} : run'[<<t, 0>>] = "ABSENT"
         /\ UNCHANGED <<ledgerVars, execVars>>
\* The goal tools alone, with notes, and the executor without them: two plans
\* whose steps are tried once, and one step that is tried again, with a crash or
\* a fault.
GoalTools == part = "goals" /\ UseGoalTool /\ UNCHANGED <<ledgerVars, flowVars>>
GoalPlans == /\ part = "plans" /\ GoalNext /\ goal'.count = 0
             /\ goalCrashes' = 0 /\ goalFaults' = 0
             /\ \A r \in Revision, s \in Step : stepExec'[r][s].tries <= 1
             /\ UNCHANGED <<ledgerVars, flowVars>>
GoalStep == /\ part = "step" /\ GoalNext /\ goal'.count = 0
            /\ plan'[1] \in {<<>>, <<Item(a, v2)>>} /\ goal'.rev <= 1
            /\ goalCrashes' + goalFaults' <= 1
            /\ UNCHANGED <<ledgerVars, flowVars>>

OrchNext == UNCHANGED part /\ (Ledger \/ Flows \/ Child \/ GoalTools \/ GoalPlans \/ GoalStep)
OrchSpec == OrchInit /\ [][OrchNext]_orchVars
=============================================================================
