--------------------------- MODULE MCServicesLive ---------------------------
(***************************************************************************)
(* What the kernel, task flows, the goal executor and the connectors       *)
(* eventually do.  As in MCOrchestration, one behaviour runs one part, and *)
(* the fairness is that of the module of the part that runs.               *)
(***************************************************************************)
EXTENDS KernelLoop, TaskFlows, GoalExecutor, Connectors

CONSTANTS a, v1

VARIABLE part

liveVars == <<part, kernelVars, flowVars, execVars, connVars>>

\* One plan of one step.
MCDrafts == {<<[step |-> a, def |-> v1]>>}

LiveInit ==
    /\ part \in {"kernel", "flows", "plans", "connectors"}
    /\ KernelInit /\ FlowInit /\ GoalInit /\ ConnInit

Kernel == part = "kernel" /\ KernelNext /\ UNCHANGED <<flowVars, execVars, connVars>>
Flows == part = "flows" /\ FlowNext /\ UNCHANGED <<kernelVars, execVars, connVars>>
GoalPlans == part = "plans" /\ GoalNext /\ UNCHANGED <<kernelVars, flowVars, connVars>>
Conns == part = "connectors" /\ ConnNext /\ UNCHANGED <<kernelVars, flowVars, execVars>>

LiveNext == UNCHANGED part /\ (Kernel \/ Flows \/ GoalPlans \/ Conns)

LiveFairness ==
    /\ WF_kernelVars(part = "kernel" /\ KernelStep)
    /\ WF_flowVars(part = "flows" /\ HostStep)
    /\ \A r \in Runs : SF_flowVars(part = "flows" /\ RunStep(r))
    /\ SF_flowVars(part = "flows" /\ \E r \in Wakes : RecordDecision(r))
    /\ WF_execVars(part = "plans" /\ GoalSequence)
    /\ \A s \in StepKey : SF_execVars(part = "plans" /\ ChildStep(s))
    /\ \A w \in Sender : /\ WF_connVars(part = "connectors" /\ (MarkDispatched(w) \/ FinishDelivery(w)))
                         /\ WF_connVars(part = "connectors" /\ \E h \in Http : Post(w, h))
                         /\ WF_connVars(part = "connectors" /\ TakeOver(w))
    /\ \A w \in Sender, e \in Inbound : SF_connVars(part = "connectors" /\ ClaimTurn(w, e))
    /\ \A e \in Inbound : WF_connVars(part = "connectors" /\ HookProjects(e))
    /\ WF_connVars(part = "connectors" /\ \E X, Y \in SUBSET Inbound : ConnStartup(X, Y))

LiveSpec == LiveInit /\ [][LiveNext]_liveVars /\ LiveFairness

\* Every execution of the kernel ends, whatever the provider does and however
\* often the Host is restarted (AgentKernel.execute).
ExecutionEnds == part = "kernel" => Termination
=============================================================================
