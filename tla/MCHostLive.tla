----------------------------- MODULE MCHostLive -----------------------------
(***************************************************************************)
(* What the Host, retention and the Browser eventually do.                 *)
(* As in MCOrchestration, one behaviour runs one part, and the fairness is *)
(* that of the module of the part that runs.                               *)
(***************************************************************************)
EXTENDS AgentHost, Retention, Browser

CONSTANTS r1

VARIABLE part

liveVars == <<part, vars, retVars, bVars>>

LiveInit ==
    /\ part \in {"host", "retention", "browser"}
    /\ HostInit /\ RetInit /\ BrowserInit

TheHost == part = "host" /\ HostNext /\ UNCHANGED <<retVars, bVars>>
Rets == part = "retention" /\ RetNext /\ UNCHANGED <<vars, bVars>>
Browsing == part = "browser" /\ BrowserNext /\ UNCHANGED <<vars, retVars>>

LiveNext == UNCHANGED part /\ (TheHost \/ Rets \/ Browsing)

LiveFairness ==
    /\ SF_vars(part = "host" /\ Execution) /\ WF_vars(part = "host" /\ CancelOwned)
    /\ WF_vars(part = "host" /\ Stop) /\ WF_vars(part = "host" /\ Startup)
    /\ \A c \in Call : SF_vars(part = "host" /\ Hook(c)) /\ SF_vars(part = "host" /\ Refuse(c))
    /\ SF_retVars(part = "retention" /\ PruneBegins(TRUE)) /\ WF_retVars(part = "retention" /\ PruneStep)
    /\ WF_retVars(part = "retention" /\ lease = "other" /\ LeaseLapses)
    /\ WF_bVars(part = "browser" /\ BrowserOpening) /\ WF_bVars(part = "browser" /\ BrowserClosing)
    /\ WF_bVars(part = "browser" /\ CloseTakesTurn) /\ WF_bVars(part = "browser" /\ SweepIdle)
    /\ \A run \in BRun : WF_bVars(part = "browser" /\ ToolStep(run))
    /\ \A s \in BSess : WF_bVars(part = "browser" /\ GrowsIdle(s))

LiveSpec == LiveInit /\ [][LiveNext]_liveVars /\ LiveFairness

=============================================================================
