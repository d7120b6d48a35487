----------------------------- MODULE Automation -----------------------------
(***************************************************************************)
(* Automation jobs and their runs: the definition service                  *)
(* (packages/automation/src/service.ts), the scheduler (scheduler.ts), the *)
(* rows in SQLite (packages/state/src/automation-repository.ts) and the    *)
(* executor that turns a row into an Agent Run                             *)
(* (services/agent-host/src/automation-conversation-executor.ts).          *)
(*                                                                         *)
(* A row of automation_runs is named by its unique key, the job and the    *)
(* instant it is scheduled for.  The Agent Run of a row is kept by what    *)
(* the automation reads of it: its status, whether recovery found it       *)
(* resumable, and whether the coordinator executes it; the modules         *)
(* RunLedger and AgentHost have the rest.                                  *)
(*                                                                         *)
(* The Host has one thread.  A wake awaits nothing until its Agent Run     *)
(* executes (pc = "waiting"); at every other pc no callback comes between, *)
(* but the clock runs on and the process may die.                          *)
(***************************************************************************)
EXTENDS Integers, FiniteSets, FiniteSetsExt

CONSTANTS
    Job,        \* automation jobs
    Key,        \* request keys of automation.run_now
    Config,     \* configurations: [schedule, policy, limit]
    NoConfig,   \* the job does not exist
    NoRow,      \* no row
    Lease,      \* leaseDurationMs
    RunLimit,   \* runLimit: claims of one wake
    DueLimit,   \* dueJobLimit: jobs of one wake
    MaxWaits,   \* bound on the approvals that Agent Runs wait for
    MaxTime,    \* bound on the clock
    MaxEdit,    \* bound on the updates of jobs
    MaxDown     \* bound on crashes and shutdowns

ASSUME AutomationAssumption ==
    /\ Lease \in Nat \ {0} /\ RunLimit \in Nat \ {0} /\ DueLimit \in Nat \ {0}
    /\ MaxWaits \in Nat /\ MaxTime \in Nat /\ MaxEdit \in Nat /\ MaxDown \in Nat
    /\ IsFiniteSet(Key) /\ IsFiniteSet(Job)
    /\ NoConfig \notin Config /\ NoRow \notin Job \X Nat

\* What the parser of the schedules and the checks of the policy let through: an
\* interval and a cron period are positive, and an expression matches something.
ASSUME ScheduleAssumption ==
    \A c \in Config :
        /\ c.policy \in {"SKIP", "RUN_ONCE", "BOUNDED"} /\ c.limit \in Nat
        /\ \/ c.schedule.kind = "at" /\ c.schedule.at \in Nat
           \/ /\ c.schedule.kind = "interval"
              /\ c.schedule.anchor \in Nat /\ c.schedule.every \in Nat \ {0}
           \/ /\ c.schedule.kind = "cron" /\ c.schedule.period \in Nat \ {0}
              /\ c.schedule.matches # {}
              /\ c.schedule.matches \subseteq 0 .. (c.schedule.period - 1)

VARIABLES
    now,          \* Date.now()
    config,       \* the configuration of a job
    enabled,      \* automation_jobs.enabled
    cursor,       \* next_scheduled_for
    since,        \* history: when the configuration was written
    edits,        \* number of updates so far
    status,       \* automation_runs.status of a row
    owner,        \* lease_owner, 0 for null
    expires,      \* lease_expires_at
    linked,       \* run_id is set
    request,      \* the row that holds a request_key
    agent,        \* agent_runs.status of the Run submitted for a row
    resumable,    \* its recovery_state is RESUMABLE
    waits,        \* number of approvals waited for so far
    submissions,  \* history: Agent Runs submitted for a row
    host,         \* life of the process
    instance,     \* ownerId of the scheduler, new in every process
    downs,        \* number of crashes and shutdowns so far
    timer,        \* the instant the wake timer is armed for
    pc,           \* where the wake, or the startup, of the scheduler is
    asOf,         \* the instant the startup read when it began
    due,          \* jobs it has still to materialize
    cur,          \* the row it has claimed
    claimed,      \* how many rows it has claimed
    fresh,        \* the executor knows the conversation of the row
    lost,         \* leaseLost
    verdict,      \* what the executor returned, LOST when the wake throws
    active,       \* what the coordinator does with the Run of a row
    abort         \* why its execution is aborted

jobVars == <<config, enabled, cursor, since, edits>>
rowVars == <<status, owner, expires, linked, request>>
runVars == <<agent, resumable, waits, submissions>>
hostVars == <<host, instance, downs>>
wakeVars == <<asOf, due, cur, claimed, fresh, lost, verdict>>
coordVars == <<active, abort>>
vars == <<now, jobVars, rowVars, runVars, hostVars, timer, pc, wakeVars, coordVars>>

NoTime == -1
Time == 0 .. MaxTime
Instant == 0 .. MaxTime + Cardinality(Key)
Row == Job \X Instant

RowStatus == {"ABSENT", "PENDING", "CLAIMED", "RUNNING", "SUCCEEDED", "FAILED", "SKIPPED"}
TerminalRow == {"SUCCEEDED", "FAILED", "SKIPPED"}
TerminalRun == {"COMPLETED", "FAILED", "CANCELLED"}
RunStatus == {"ABSENT", "CREATED", "RUNNING", "WAITING_APPROVAL"} \cup TerminalRun

Alive == host \in {"BOOTING", "UP", "CLOSING", "DRAINING"}
Free == pc \in {"idle", "waiting"}

-----------------------------------------------------------------------------
(* Schedules.                                                               *)

\* The first occurrence after an instant.  A cron expression is the set of
\* its matching instants within one period.
computeNextScheduledFor(s, after) ==
    CASE s.kind = "at" -> IF s.at > after THEN s.at ELSE NoTime
      [] s.kind = "interval" ->
            IF after < s.anchor THEN s.anchor
            ELSE s.anchor + ((after - s.anchor) \div s.every + 1) * s.every
      [] s.kind = "cron" -> Min({t \in after + 1 .. after + s.period : t % s.period \in s.matches})

\* The occurrences of a schedule by definition.
Occurs(s, t) ==
    CASE s.kind = "at" -> t = s.at
      [] s.kind = "interval" -> t >= s.anchor /\ (t - s.anchor) % s.every = 0
      [] s.kind = "cron" -> t % s.period \in s.matches

\* All the occurrences after an instant that are due at another.
Overdue(s, after, until) ==
    {t \in after + 1 .. until : computeNextScheduledFor(s, t - 1) = t}

Plan(pending, skipped, next) == [pending |-> pending, skipped |-> skipped, next |-> next]

\* The catch-up policy of a job whose cursor has passed when the Host starts.
startupPlan(j, at) ==
    LET c == config[j]
        first == cursor[j]
        future == computeNextScheduledFor(c.schedule, at)
        missed == Overdue(c.schedule, first - 1, at)
        oldest == {t \in missed : Cardinality({u \in missed : u < t}) < c.limit}
    IN  CASE c.policy = "SKIP" -> Plan({}, {first}, future)
          [] c.policy = "RUN_ONCE" -> Plan({first}, {}, future)
          [] c.policy = "BOUNDED" -> Plan(oldest, {}, future)

\* Mutant: the next occurrence is counted from the clock.
regularPlanNow(j) ==
    Plan({cursor[j]}, {}, computeNextScheduledFor(config[j].schedule, now))

\* A wake takes the occurrence at the cursor and no more.
regularPlan(j) ==
    Plan({cursor[j]}, {}, computeNextScheduledFor(config[j].schedule, cursor[j]))

IsDue(j) == enabled[j] /\ cursor[j] # NoTime /\ cursor[j] <= now

\* listDueJobs: the DueLimit jobs with the oldest cursors.
ListedDue(D) ==
    LET all == {j \in Job : IsDue(j)}
    IN  /\ D \subseteq all
        /\ Cardinality(D) = Min({DueLimit, Cardinality(all)})
        /\ \A j \in D, k \in all \ D : cursor[j] <= cursor[k]

Pending == {r \in Row : status[r] = "PENDING"}

\* Mutant: only the cursors are looked at.
nextWakeAtCursor ==
    LET cursors == {cursor[j] : j \in {k \in Job : enabled[k] /\ cursor[k] # NoTime}}
    IN  IF cursors # {} THEN Min(cursors) ELSE NoTime

nextWakeAt ==
    LET cursors == {cursor[j] : j \in {k \in Job : enabled[k] /\ cursor[k] # NoTime}}
    IN  IF Pending # {} THEN now
        ELSE IF cursors # {} THEN Min(cursors) ELSE NoTime

-----------------------------------------------------------------------------
Init ==
    /\ now = 0
    /\ config = [j \in Job |-> NoConfig]
    /\ enabled = [j \in Job |-> FALSE]
    /\ cursor = [j \in Job |-> NoTime]
    /\ since = [j \in Job |-> NoTime]
    /\ edits = 0
    /\ status = [r \in Row |-> "ABSENT"]
    /\ owner = [r \in Row |-> 0]
    /\ expires = [r \in Row |-> NoTime]
    /\ linked = [r \in Row |-> FALSE]
    /\ request = [k \in Key |-> NoRow]
    /\ agent = [r \in Row |-> "ABSENT"]
    /\ resumable = [r \in Row |-> FALSE]
    /\ waits = 0
    /\ submissions = [r \in Row |-> 0]
    /\ host = "STOPPED" /\ instance = 0 /\ downs = 0
    /\ timer = NoTime /\ pc = "idle" /\ asOf = 0 /\ due = {} /\ cur = NoRow
    /\ claimed = 0 /\ fresh = FALSE /\ lost = FALSE /\ verdict = "NONE"
    /\ active = [r \in Row |-> "none"]
    /\ abort = [r \in Row |-> "none"]

Tick ==
    /\ now < MaxTime
    /\ now' = now + 1
    /\ UNCHANGED <<jobVars, rowVars, runVars, hostVars, timer, pc, wakeVars, coordVars>>

-----------------------------------------------------------------------------
(* The definition service.                                                  *)

\* A new configuration starts from the next occurrence; an enabled job whose
\* schedule has none is refused.  The wake timer is not looked at.
WriteConfig(j, c, on) ==
    LET next == IF on THEN computeNextScheduledFor(c.schedule, now) ELSE NoTime
    IN  /\ on => next # NoTime
        /\ config' = [config EXCEPT ![j] = c]
        /\ enabled' = [enabled EXCEPT ![j] = on]
        /\ cursor' = [cursor EXCEPT ![j] = next]
        /\ since' = [since EXCEPT ![j] = now]
        /\ UNCHANGED <<now, rowVars, runVars, hostVars, timer, pc, wakeVars, coordVars>>

create(j, c, on) ==
    /\ host = "UP" /\ Free
    /\ config[j] = NoConfig
    /\ WriteConfig(j, c, on)
    /\ edits' = edits

\* update with the current revision; with another one it throws.
update(j, c, on) ==
    /\ host = "UP" /\ Free
    /\ config[j] # NoConfig
    /\ edits < MaxEdit
    /\ WriteConfig(j, c, on)
    /\ edits' = edits + 1

\* wake: the wake in progress is shared, otherwise a new one begins.
Wake ==
    IF pc = "idle" THEN pc' = "list" /\ timer' = NoTime ELSE UNCHANGED <<pc, timer>>

\* Mutant: a row that is there already is taken.
ReservedInstantTaken(j) == now

\* The first instant from now on that no row of the job has.
ReservedInstant(j) == Min({t \in Instant : t >= now /\ status[<<j, t>>] = "ABSENT"})

\* runNow: a new key reserves a row, a used one returns its row; a key of
\* another job throws.  Both wake the scheduler.
runNow(j, k) ==
    /\ host = "UP" /\ Free
    /\ config[j] # NoConfig
    /\ \/ /\ request[k] = NoRow
          /\ LET r == <<j, ReservedInstant(j)>>
             IN  /\ request' = [request EXCEPT ![k] = r]
                 /\ status' = [status EXCEPT ![r] = "PENDING"]
       \/ /\ request[k] # NoRow
          /\ request[k][1] = j
          /\ UNCHANGED <<request, status>>
    /\ Wake
    /\ UNCHANGED <<now, jobVars, owner, expires, linked, runVars, hostVars, wakeVars, coordVars>>

-----------------------------------------------------------------------------
(* The wake.                                                                *)

TimerFires ==
    /\ host = "UP" /\ Free
    /\ timer # NoTime /\ timer <= now
    /\ Wake
    /\ UNCHANGED <<now, jobVars, rowVars, runVars, hostVars, wakeVars, coordVars>>

ListDueJobs ==
    /\ pc = "list"
    /\ pc' = "materialize"
    /\ \E D \in SUBSET Job : ListedDue(D) /\ due' = D
    /\ UNCHANGED <<now, jobVars, rowVars, runVars, hostVars, timer, asOf, cur, claimed, fresh, lost,
                   verdict, coordVars>>

\* materializeDueJob: the rows are inserted, unless they are there already,
\* and the cursor advances in the same transaction.
MaterializeDueJob(j) ==
    LET plan == IF pc = "startup" THEN startupPlan(j, asOf) ELSE regularPlan(j)
        rows(S) == {r \in Row : r[1] = j /\ r[2] \in S /\ status[r] = "ABSENT"}
    IN  /\ pc \in {"startup", "materialize"}
        /\ j \in due
        /\ \A k \in due : cursor[j] <= cursor[k]
        /\ status' = [r \in Row |-> IF r \in rows(plan.pending) THEN "PENDING"
                                    ELSE IF r \in rows(plan.skipped) THEN "SKIPPED"
                                    ELSE status[r]]
        /\ cursor' = [cursor EXCEPT ![j] = plan.next]
        /\ due' = due \ {j}
        /\ UNCHANGED <<now, config, enabled, since, edits, owner, expires, linked, request,
                       runVars, hostVars, timer, pc, asOf, cur, claimed, fresh, lost, verdict,
                       coordVars>>

Materialized ==
    /\ pc \in {"startup", "materialize"}
    /\ due = {}
    /\ pc' = IF pc = "startup" THEN "arm" ELSE "claim"
    /\ UNCHANGED <<now, jobVars, rowVars, runVars, hostVars, timer, wakeVars, coordVars>>

\* listClaimableRuns and claimRun: the oldest PENDING row.
ClaimRun ==
    /\ pc = "claim"
    /\ host # "CLOSING" /\ claimed < RunLimit
    /\ \E r \in Pending :
          /\ \A q \in Pending : r[2] <= q[2]
          /\ status' = [status EXCEPT ![r] = "CLAIMED"]
          /\ owner' = [owner EXCEPT ![r] = instance]
          /\ expires' = [expires EXCEPT ![r] = now + Lease]
          /\ cur' = r
    /\ claimed' = claimed + 1
    /\ pc' = "mark"
    /\ UNCHANGED <<now, jobVars, linked, request, runVars, hostVars, timer, asOf, due, fresh,
                   lost, verdict, coordVars>>

NothingToClaim ==
    /\ pc = "claim"
    /\ host = "CLOSING" \/ claimed = RunLimit \/ Pending = {}
    /\ pc' = "arm"
    /\ UNCHANGED <<now, jobVars, rowVars, runVars, hostVars, timer, wakeVars, coordVars>>

\* The lease that an update of the row in hand requires.
Leased(s) == status[cur] \in s /\ owner[cur] = instance /\ expires[cur] >= now

\* A claim that expired meanwhile ends the wake with AUTOMATION_LEASE_LOST.
\* The executor goes on with the Run of the row if it has one.
markRunRunning ==
    /\ pc = "mark"
    /\ lost' = FALSE
    /\ IF Leased({"CLAIMED"})
       THEN /\ status' = [status EXCEPT ![cur] = "RUNNING"]
            /\ expires' = [expires EXCEPT ![cur] = now + Lease]
            /\ fresh' = ~linked[cur]
            /\ pc' = IF linked[cur] THEN "execute" ELSE "submit"
            /\ verdict' = verdict
       ELSE verdict' = "LOST" /\ pc' = "arm" /\ UNCHANGED <<status, expires, fresh>>
    /\ UNCHANGED <<now, jobVars, owner, linked, request, runVars, hostVars, timer, asOf, due,
                   cur, claimed, coordVars>>

\* A conversation is created and its Run sent; or the service refuses.
Submit ==
    /\ pc = "submit"
    /\ \/ /\ agent' = [agent EXCEPT ![cur] = "CREATED"]
          /\ submissions' = [submissions EXCEPT ![cur] = @ + 1]
          /\ pc' = "bind"
          /\ verdict' = verdict
       \/ verdict' = "FAILED" /\ pc' = "finish" /\ UNCHANGED <<agent, submissions>>
    /\ UNCHANGED <<now, jobVars, rowVars, resumable, waits, hostVars, timer, asOf, due, cur,
                   claimed, fresh, lost, coordVars>>

bindRunId ==
    /\ pc = "bind"
    /\ IF Leased({"RUNNING"}) /\ ~linked[cur]
       THEN linked' = [linked EXCEPT ![cur] = TRUE] /\ pc' = "execute" /\ verdict' = verdict
       ELSE linked' = linked /\ pc' = "finish" /\ verdict' = "FAILED"
    /\ UNCHANGED <<now, jobVars, status, owner, expires, request, runVars, hostVars, timer,
                   asOf, due, cur, claimed, fresh, lost, coordVars>>

\* executeUntilTerminal: the Run is started unless it is active, and the wake
\* awaits its end.
executeUntilTerminal ==
    /\ pc = "execute"
    /\ pc' = "waiting"
    /\ active' = [active EXCEPT ![cur] = IF @ = "none" THEN "starting" ELSE @]
    /\ UNCHANGED <<now, jobVars, rowVars, runVars, hostVars, timer, wakeVars, abort>>

\* The renewal timer: a renewal that fails is the last one.
renew ==
    /\ pc = "waiting" /\ ~lost
    /\ IF Leased({"CLAIMED", "RUNNING"})
       THEN expires' = [expires EXCEPT ![cur] = now + Lease] /\ lost' = lost
       ELSE lost' = TRUE /\ expires' = expires
    /\ UNCHANGED <<now, jobVars, status, owner, linked, request, runVars, hostVars, timer, pc,
                   asOf, due, cur, claimed, fresh, verdict, coordVars>>

\* The result is written under the lease, which it gives back; without the
\* lease the wake throws.
finishRun ==
    /\ pc = "finish"
    /\ IF ~lost /\ Leased({"RUNNING"})
       THEN /\ status' = [status EXCEPT ![cur] = verdict]
            /\ linked' = [linked EXCEPT ![cur] = @ \/ agent[cur] # "ABSENT"]
            /\ owner' = [owner EXCEPT ![cur] = 0]
            /\ expires' = [expires EXCEPT ![cur] = NoTime]
            /\ pc' = "claim"
            /\ verdict' = "NONE"
       ELSE verdict' = "LOST" /\ pc' = "arm" /\ UNCHANGED <<status, linked, owner, expires>>
    /\ cur' = NoRow /\ fresh' = FALSE /\ lost' = FALSE
    /\ UNCHANGED <<now, jobVars, request, runVars, hostVars, timer, asOf, due, claimed, coordVars>>

\* The end of a wake or of the startup.
armTimer ==
    /\ pc = "arm"
    /\ ~(host = "CLOSING" /\ verdict = "LOST")
    /\ pc' = "idle"
    /\ timer' = IF host = "UP" /\ timer = NoTime THEN nextWakeAt ELSE timer
    /\ asOf' = 0 /\ cur' = NoRow /\ claimed' = 0 /\ verdict' = "NONE"
    /\ UNCHANGED <<now, jobVars, rowVars, runVars, hostVars, due, fresh, lost, coordVars>>

-----------------------------------------------------------------------------
(* The Agent Run, as far as the scheduler can tell.                         *)

\* What the waiter of executeUntilTerminal does when the Run of r settles.
Settle(r, v) ==
    IF pc = "waiting" /\ cur = r
    THEN pc' = "finish" /\ verdict' = v
    ELSE UNCHANGED <<pc, verdict>>

\* The execution is over: the coordinator forgets it.
Left(r) ==
    /\ active' = [active EXCEPT ![r] = "none"]
    /\ abort' = [abort EXCEPT ![r] = "none"]

RunStep(r, stage) ==
    /\ Alive /\ Free
    /\ active[r] = stage
    /\ UNCHANGED <<now, jobVars, rowVars, submissions, hostVars, timer, asOf, due, cur,
                   claimed, fresh, lost>>

\* Preparation and start.  A waiting Run is resumed by any start.
RunStarts(r) ==
    /\ RunStep(r, "starting")
    /\ agent[r] \in {"CREATED", "WAITING_APPROVAL"}
    /\ agent' = [agent EXCEPT ![r] = "RUNNING"]
    /\ resumable' = [resumable EXCEPT ![r] = FALSE]
    /\ active' = [active EXCEPT ![r] = "running"]
    /\ UNCHANGED <<waits, abort, pc, verdict>>

\* The preparation fails and the Run with it; or the model profile cannot be
\* resolved, or the Run has ended, and the coordinator only reports an error.
RunDoesNotStart(r) ==
    /\ RunStep(r, "starting")
    /\ \/ /\ agent[r] \notin TerminalRun
          /\ agent' = [agent EXCEPT ![r] = "FAILED"]
          /\ resumable' = [resumable EXCEPT ![r] = FALSE]
       \/ UNCHANGED <<agent, resumable>>
    /\ waits' = waits
    /\ Left(r)
    /\ Settle(r, "FAILED")

\* A Run that waits for an approval is not settled.
RunSuspends(r) ==
    /\ RunStep(r, "running")
    /\ agent[r] = "RUNNING" /\ waits < MaxWaits
    /\ agent' = [agent EXCEPT ![r] = "WAITING_APPROVAL"]
    /\ waits' = waits + 1
    /\ resumable' = resumable
    /\ Left(r)
    /\ UNCHANGED <<pc, verdict>>

\* The Run completes or fails, is cancelled by its abort signal, or finds
\* that it was cancelled in the ledger.
RunEnds(r) ==
    /\ RunStep(r, "running")
    /\ \E s \in TerminalRun :
          /\ IF agent[r] \in TerminalRun THEN s = agent[r] /\ s # "COMPLETED"
             ELSE s = "CANCELLED" => abort[r] = "cancel"
          /\ agent' = [agent EXCEPT ![r] = s]
          /\ Settle(r, IF s = "COMPLETED" THEN "SUCCEEDED" ELSE "FAILED")
    /\ Left(r)
    /\ UNCHANGED <<resumable, waits>>

\* The Host shuts down: the Run is queued for the next one if its checkpoint
\* allows it, otherwise it is failed.
RunIsInterrupted(r) ==
    /\ RunStep(r, "running")
    /\ abort[r] = "shutdown" /\ agent[r] = "RUNNING"
    /\ \E s \in {"CREATED", "FAILED"} :
          /\ agent' = [agent EXCEPT ![r] = s]
          /\ resumable' = [resumable EXCEPT ![r] = (s = "CREATED")]
    /\ Left(r)
    /\ UNCHANGED <<waits, pc, verdict>>

\* An approval is decided, by an operator or by its expiry.
Decide(r) ==
    /\ host \in {"BOOTING", "UP"}
    /\ RunStep(r, "none")
    /\ agent[r] = "WAITING_APPROVAL"
    /\ active' = [active EXCEPT ![r] = "starting"]
    /\ UNCHANGED <<agent, resumable, waits, abort, pc, verdict>>

CoordinatorCancel(r, s) ==
    /\ abort' = [abort EXCEPT ![r] = IF active[r] # "none" /\ @ = "none" THEN "cancel" ELSE @]
    /\ IF active[r] = "none" /\ s \in TerminalRun
       THEN Settle(r, IF s = "COMPLETED" THEN "SUCCEEDED" ELSE "FAILED")
       ELSE UNCHANGED <<pc, verdict>>

\* conversation.cancel by an operator: the ledger, then the coordinator.
CancelRun(r) ==
    /\ host = "UP" /\ Free
    /\ agent[r] \notin TerminalRun \cup {"ABSENT"}
    /\ agent' = [agent EXCEPT ![r] = "CANCELLED"]
    /\ resumable' = [resumable EXCEPT ![r] = FALSE]
    /\ CoordinatorCancel(r, "CANCELLED")
    /\ UNCHANGED <<now, jobVars, rowVars, waits, submissions, hostVars, timer, asOf, due, cur,
                   claimed, fresh, lost, active>>

-----------------------------------------------------------------------------
(* Shutdown, crash and restart.                                             *)

\* scheduler.close: no timer, no further claim, and the executor of the row in
\* hand is aborted: the coordinator first, then the ledger, if the executor
\* created the conversation itself.
close ==
    /\ host = "UP" /\ Free /\ downs < MaxDown
    /\ host' = "CLOSING"
    /\ downs' = downs + 1
    /\ timer' = NoTime
    /\ IF pc = "waiting"
       THEN /\ CoordinatorCancel(cur, agent[cur])
            /\ IF fresh /\ agent[cur] \notin TerminalRun
               THEN /\ agent' = [agent EXCEPT ![cur] = "CANCELLED"]
                    /\ resumable' = [resumable EXCEPT ![cur] = FALSE]
               ELSE UNCHANGED <<agent, resumable>>
       ELSE UNCHANGED <<agent, resumable, abort, pc, verdict>>
    /\ UNCHANGED <<now, jobVars, rowVars, waits, submissions, instance, asOf, due, cur,
                   claimed, fresh, lost, active>>

\* The wake has ended; coordinator.close aborts what still executes.
CoordinatorClose ==
    /\ host = "CLOSING" /\ pc = "idle"
    /\ host' = "DRAINING"
    /\ abort' = [r \in Row |-> IF active[r] # "none" /\ abort[r] = "none" THEN "shutdown"
                               ELSE abort[r]]
    /\ UNCHANGED <<now, jobVars, rowVars, runVars, instance, downs, timer, pc, wakeVars, active>>

\* What the end of the process erases.
LoseMemory ==
    /\ timer' = NoTime /\ pc' = "idle" /\ asOf' = 0 /\ due' = {} /\ cur' = NoRow /\ claimed' = 0
    /\ fresh' = FALSE /\ lost' = FALSE /\ verdict' = "NONE"
    /\ active' = [r \in Row |-> "none"]
    /\ abort' = [r \in Row |-> "none"]
    /\ UNCHANGED <<now, jobVars, rowVars, runVars, instance>>

\* Everything has settled and the database is closed.  When the wake threw,
\* close rejects and the database is closed at once.
Stop ==
    /\ \/ host = "DRAINING" /\ \A r \in Row : active[r] = "none"
       \/ host = "CLOSING" /\ pc = "arm" /\ verdict = "LOST"
    /\ host' = "STOPPED"
    /\ downs' = downs
    /\ LoseMemory

Crash ==
    /\ Alive /\ downs < MaxDown
    /\ host' = "CRASHED"
    /\ downs' = downs + 1
    /\ LoseMemory

\* recoverIncompleteRuns; every queued Run is scheduled.
Boot ==
    LET running == {r \in Row : agent[r] = "RUNNING"}
    IN  /\ host \in {"STOPPED", "CRASHED"}
        /\ host' = "BOOTING"
        /\ instance' = instance + 1
        /\ \E safe \in SUBSET running :
              /\ agent' = [r \in Row |-> IF r \in safe THEN "CREATED"
                                         ELSE IF r \in running THEN "FAILED" ELSE agent[r]]
              /\ resumable' = [r \in Row |-> r \in safe \/ agent[r] = "WAITING_APPROVAL"
                                             \/ (r \notin running /\ resumable[r])]
        /\ active' = [r \in Row |-> IF agent'[r] = "CREATED" THEN "starting" ELSE "none"]
        /\ UNCHANGED <<now, jobVars, rowVars, waits, submissions, downs, timer, pc, wakeVars, abort>>

\* Mutant: a row is queued again although its Run is not known.
RecoveredUnlinked(r) ==
    IF status[r] = "CLAIMED" \/ ~linked[r]
       \/ (resumable[r] /\ agent[r] \in {"CREATED", "WAITING_APPROVAL"})
    THEN "PENDING" ELSE "FAILED"

\* A claimed row goes back; a running one only with a Run to go on with.
Recovered(r) ==
    IF status[r] = "CLAIMED"
       \/ (linked[r] /\ resumable[r] /\ agent[r] \in {"CREATED", "WAITING_APPROVAL"})
    THEN "PENDING" ELSE "FAILED"

\* start: recoverExpiredRuns, then the catch-up of the jobs that are due.
start ==
    LET expired == {r \in Row : status[r] \in {"CLAIMED", "RUNNING"} /\ expires[r] <= now}
    IN  /\ host = "BOOTING" /\ Free
        /\ host' = "UP"
        /\ status' = [r \in Row |-> IF r \in expired THEN Recovered(r) ELSE status[r]]
        /\ owner' = [r \in Row |-> IF r \in expired THEN 0 ELSE owner[r]]
        /\ expires' = [r \in Row |-> IF r \in expired THEN NoTime ELSE expires[r]]
        /\ pc' = "startup"
        /\ asOf' = now
        /\ \E D \in SUBSET Job : ListedDue(D) /\ due' = D
        /\ UNCHANGED <<now, jobVars, linked, request, runVars, instance, downs, timer, cur, claimed,
                       fresh, lost, verdict, coordVars>>

-----------------------------------------------------------------------------
Definitions ==
    \E j \in Job :
        \/ \E c \in Config, on \in BOOLEAN : create(j, c, on) \/ update(j, c, on)
        \/ \E k \in Key : runNow(j, k)

Scheduler ==
    \/ ListDueJobs \/ (\E j \in Job : MaterializeDueJob(j)) \/ Materialized
    \/ ClaimRun \/ NothingToClaim \/ markRunRunning \/ Submit \/ bindRunId
    \/ executeUntilTerminal \/ finishRun \/ armTimer

Executes(r) ==
    RunStarts(r) \/ RunDoesNotStart(r) \/ RunSuspends(r) \/ RunEnds(r) \/ RunIsInterrupted(r)

Execution == \E r \in Row : Executes(r)
Decision == \E r \in Row : Decide(r)

Next ==
    \/ Tick
    \/ Definitions
    \/ TimerFires \/ renew \/ Scheduler
    \/ Execution \/ Decision \/ \E r \in Row : CancelRun(r)
    \/ close \/ CoordinatorClose \/ Stop \/ Crash \/ Boot \/ start

\* A process that was started goes on, its timers fire, Runs end, approvals
\* are decided at the latest by their expiry, and a Host that went down is
\* started again.  Nothing is asked of operators or of the clock.
Spec ==
    /\ Init /\ [][Next]_vars
    /\ WF_vars(Scheduler) /\ WF_vars(TimerFires)
    /\ SF_vars(Execution) /\ SF_vars(Decision)
    /\ WF_vars(CoordinatorClose) /\ WF_vars(Stop) /\ WF_vars(Boot) /\ WF_vars(start)

-----------------------------------------------------------------------------
\* Every variable keeps its type, and a cursor is set only for an enabled job.
TypeOK ==
    /\ now \in Time /\ edits \in 0 .. MaxEdit /\ downs \in 0 .. MaxDown
    /\ config \in [Job -> Config \cup {NoConfig}] /\ enabled \in [Job -> BOOLEAN]
    /\ cursor \in [Job -> Int] /\ since \in [Job -> Int]
    /\ \A j \in Job : cursor[j] # NoTime => enabled[j] /\ config[j] # NoConfig
    /\ status \in [Row -> RowStatus] /\ owner \in [Row -> Nat] /\ expires \in [Row -> Int]
    /\ linked \in [Row -> BOOLEAN] /\ request \in [Key -> Row \cup {NoRow}]
    /\ agent \in [Row -> RunStatus] /\ resumable \in [Row -> BOOLEAN]
    /\ waits \in 0 .. MaxWaits /\ submissions \in [Row -> Nat]
    /\ host \in {"STOPPED", "CRASHED", "BOOTING", "UP", "CLOSING", "DRAINING"}
    /\ instance \in Nat /\ timer \in Int /\ asOf \in Int
    /\ pc \in {"idle", "list", "startup", "materialize", "claim", "mark", "submit", "bind",
               "execute", "waiting", "finish", "arm"}
    /\ due \subseteq Job /\ cur \in Row \cup {NoRow} /\ claimed \in 0 .. RunLimit
    /\ fresh \in BOOLEAN /\ lost \in BOOLEAN
    /\ verdict \in {"NONE", "SUCCEEDED", "FAILED", "LOST"}
    /\ active \in [Row -> {"none", "starting", "running"}]
    /\ abort \in [Row -> {"none", "cancel", "shutdown"}]

\* However often the process dies between a submission and its binding, an
\* occurrence or a manual request is turned into one Agent Run at most.
SubmittedOnce == \A r \in Row : submissions[r] <= 1

\* A row is reported as succeeded only if the Agent Run it is linked to has
\* completed, through waits, restarts, cancellations and a lost lease.
SucceededIsCompleted ==
    \A r \in Row : status[r] = "SUCCEEDED" => linked[r] /\ agent[r] = "COMPLETED"

\* A row that the living scheduler holds under a valid lease is the row it has
\* in hand: nothing is forgotten that no restart could recover.
LeaseInHand ==
    \A r \in Row :
        Alive /\ owner[r] = instance /\ expires[r] >= now
            => cur = r /\ pc \in {"mark", "submit", "bind", "execute", "waiting", "finish"}

\* A job that may catch up with everything loses no occurrence: each one since
\* its configuration was written and before its cursor has a row, whatever
\* crashes, restarts and delays there were.
NoOccurrenceLost ==
    \A j \in Job, t \in Time :
        /\ enabled[j] /\ config[j].policy = "BOUNDED" /\ config[j].limit > MaxTime
        /\ Occurs(config[j].schedule, t) /\ since[j] < t /\ (t < cursor[j] \/ cursor[j] = NoTime)
        => status[<<j, t>>] # "ABSENT"

\* A row that has ended stays as it is: neither a manual request in the same
\* instant, nor a late executor, nor a recovery brings it back.
EndedStays ==
    [][\A r \in Row : status[r] \in TerminalRow => status'[r] = status[r]]_vars

\* After an orderly shutdown no row is left claimed or running under a lease
\* that is still valid: what was in hand has been settled.
StopQuiesces ==
    host = "STOPPED" =>
        \A r \in Row : owner[r] = instance /\ instance > 0 => expires[r] < now

\* Every row that may be claimed is claimed, behind the rows before it and
\* across crashes: no wake is lost.
PendingServed == \A r \in Row : (status[r] = "PENDING") ~> (status[r] # "PENDING")

\* close waits for the active execution and then ends (what
\* docs/testing/RECURRENCE_PREVENTION_GATES.md requires of it).
CloseCompletes == (host = "CLOSING") ~> (host # "CLOSING")

\* An occurrence that is due on a running Host is taken up.  Refuted: create
\* and update do not arm the wake timer (README, Findings).
DueIsTaken == \A j \in Job : (host = "UP" /\ IsDue(j)) ~> (host # "UP" \/ ~IsDue(j))

\* After a crash the row of a Run that can go on is requeued, so that both
\* complete together (what STEP013C expects of the second Host).  Refuted: the
\* Run may have started before the scheduler looks (README, Findings).
ResumableIsRequeued ==
    \A r \in Row :
        (/\ host = "BOOTING" /\ status[r] = "RUNNING" /\ expires[r] <= now
         /\ linked[r] /\ resumable[r] /\ agent[r] = "CREATED")
            ~> (status[r] = "PENDING" \/ host = "CRASHED")

\* The rows of an automation: a prompt is sent once, a row succeeds only with
\* its Run, only the holder of the lease changes it, and a scheduler that stopped
\* in order holds none.
RowsAgree == TypeOK /\ SubmittedOnce /\ SucceededIsCompleted /\ LeaseInHand /\ StopQuiesces
=============================================================================
