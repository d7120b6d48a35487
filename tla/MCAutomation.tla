---------------------------- MODULE MCAutomation ----------------------------
(***************************************************************************)
(* Instances of Automation for TLC.                                        *)
(***************************************************************************)
EXTENDS Automation

\* Every instant, caught up without limit.
every1 == [schedule |-> [kind |-> "interval", every |-> 1, anchor |-> 1],
           policy |-> "BOUNDED", limit |-> 9]

\* Every instant but each third, of which the oldest missed one is made up for.
cron3 == [schedule |-> [kind |-> "cron", period |-> 3, matches |-> {1, 2}],
          policy |-> "RUN_ONCE", limit |-> 0]

\* Once, and not if the Host is down then.
once1 == [schedule |-> [kind |-> "at", at |-> 1], policy |-> "SKIP", limit |-> 0]

\* Once, after the end of time: only manual requests make rows.
late == [schedule |-> [kind |-> "at", at |-> MaxTime + 1], policy |-> "SKIP", limit |-> 0]

ConfigEvery == {every1, once1}
ConfigCron == {cron3}
ConfigLate == {late}
=============================================================================
