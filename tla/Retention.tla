------------------------------ MODULE Retention ------------------------------
(***************************************************************************)
(* Retention of ended rows: agent-host/maintenance-retention.ts,           *)
(* state/retention-repository.ts and the scheduling half of the Task and   *)
(* Task Flow maintenance services.                                         *)
(*                                                                         *)
(* prune is synchronous: between its transactions nothing but the clock    *)
(* and a crash of the Host comes.  A row is a number, and the numbers are  *)
(* in the order of (kind, id).                                             *)
(***************************************************************************)
EXTENDS Naturals, Sequences, FiniteSets

CONSTANTS
    PTask, PFlow, PDelivery,   \* the rows: Tasks, Task Flows and connector deliveries
    Referenced,                \* Flows that a Goal execution refers to
    RetentionTime,             \* how long an ended row is kept
    BatchSize,                 \* rows of one call
    MaxNow,
    MaxPruneFaults,            \* bound on crashes, and on leases that lapse under a call
    MaxRecreated               \* bound on Flows created again under their old id

PRow == PTask \cup PFlow \cup PDelivery

ASSUME RetentionAssumption ==
    /\ PRow \subseteq Nat \ {0} /\ IsFiniteSet(PRow) /\ Referenced \subseteq PFlow
    /\ PTask \cap PFlow = {} /\ PTask \cap PDelivery = {} /\ PFlow \cap PDelivery = {}
    /\ RetentionTime \in Nat /\ BatchSize \in Nat \ {0}
    /\ MaxNow \in Nat /\ MaxPruneFaults \in Nat /\ MaxRecreated \in Nat

VARIABLES
    pnow,
    prow,          \* the rows: whether they are there, have ended, and cleanup_after
    plink,         \* task_flow_tasks
    notice,        \* Tasks with a completion delivery that is still actionable
    tombs,         \* maintenance_retention_tombstones
    lease,         \* the lease of the workspace, seen from the Host that runs
    sweep,         \* maintenance_sweep_state
    prune,         \* the call of prune under way
    pruneFaults, recreated

retVars == <<pnow, prow, plink, notice, tombs, lease, sweep, prune, pruneFaults, recreated>>

Never == MaxNow + RetentionTime + 1
\* The cursor before the first row.
Origin == <<0, 0>>
PruneIdle == [pc |-> "idle", sweeps |-> FALSE, after |-> Origin, at |-> 0, rev |-> 0,
              list |-> <<>>, last |-> Origin, full |-> FALSE]
Cursor == (0 .. Never) \X (PRow \cup {0})

RetentionRow == [st : {"gone", "active", "ended"}, ended : 0 .. MaxNow, cleanup : 0 .. Never]

RetTypeOK ==
    /\ pnow \in 0 .. MaxNow
    /\ prow \in [PRow -> RetentionRow]
    /\ plink \subseteq PFlow \X PTask /\ notice \subseteq PTask /\ tombs \subseteq PRow
    /\ lease \in {"none", "mine", "lapsed", "other"}
    /\ sweep \in [cursor : Cursor, rev : 0 .. 1]
    /\ prune \in [pc : {"idle", "schedule", "list", "rows", "release", "advance"}, sweeps : BOOLEAN,
                  after : Cursor, at : 0 .. MaxNow, rev : 0 .. 1, list : Seq(Cursor), last : Cursor, full : BOOLEAN]
    /\ pruneFaults \in 0 .. MaxPruneFaults /\ recreated \in 0 .. MaxRecreated

RetInit ==
    /\ pnow = 0
    /\ prow = [e \in PRow |-> [st |-> "active", ended |-> 0, cleanup |-> Never]]
    /\ plink = {} /\ notice = {} /\ tombs = {}
    /\ lease = "none" /\ sweep = [cursor |-> Origin, rev |-> 0] /\ prune = PruneIdle
    /\ pruneFaults = 0 /\ recreated = 0

----------------------------------------------------------------------------
\* What the rest of the Host does with the rows, between two calls of prune.

RetQuiet == prune.pc = "idle"

EndRow(e, actionable) ==
    /\ RetQuiet /\ prow[e].st = "active"
    /\ prow' = [prow EXCEPT ![e].st = "ended", ![e].ended = pnow]
    /\ actionable => e \in PTask
    /\ notice' = IF actionable THEN notice \cup {e} ELSE notice
    /\ UNCHANGED <<pnow, plink, tombs, lease, sweep, prune, pruneFaults, recreated>>

SettleNotice(t) ==
    /\ RetQuiet /\ t \in notice
    /\ notice' = notice \ {t}
    /\ UNCHANGED <<pnow, prow, plink, tombs, lease, sweep, prune, pruneFaults, recreated>>

LinkRow(f, t) ==
    /\ RetQuiet /\ prow[f].st = "active" /\ prow[t].st # "gone" /\ <<f, t>> \notin plink
    /\ plink' = plink \cup {<<f, t>>}
    /\ UNCHANGED <<pnow, prow, notice, tombs, lease, sweep, prune, pruneFaults, recreated>>

\* createManaged derives the id of a Flow from its request, and finds no row.
RecreateFlow(f) ==
    /\ RetQuiet /\ prow[f].st = "gone" /\ recreated < MaxRecreated
    /\ prow' = [prow EXCEPT ![f] = [st |-> "active", ended |-> 0, cleanup |-> Never]]
    /\ recreated' = recreated + 1
    /\ UNCHANGED <<pnow, plink, notice, tombs, lease, sweep, prune, pruneFaults>>

RetTick ==
    /\ pnow < MaxNow
    /\ pnow' = pnow + 1
    /\ UNCHANGED <<prow, plink, notice, tombs, lease, sweep, prune, pruneFaults, recreated>>

\* The lease expires: under a call that is slow, or after its Host has died.
LeaseLapses ==
    /\ lease \in {"mine", "other"}
    /\ lease = "mine" => pruneFaults < MaxPruneFaults
    /\ lease' = IF lease = "mine" THEN "lapsed" ELSE "none"
    /\ pruneFaults' = IF lease = "mine" THEN pruneFaults + 1 ELSE pruneFaults
    /\ UNCHANGED <<pnow, prow, plink, notice, tombs, sweep, prune, recreated>>

----------------------------------------------------------------------------
\* Protection.

\* inspectTask: the Run of an ended Task has ended, and Goal steps and blockers
\* hold a Task through the Flow of the Goal.
TaskProtected(t) == t \in notice \/ \E f \in PFlow : <<f, t>> \in plink /\ prow[f].st = "active"
\* inspectFlow.
FlowProtected(f) ==
    \/ f \in Referenced
    \/ \E t \in PTask : <<f, t>> \in plink /\ (prow[t].st = "active" \/ t \in notice)

Inspect(e, now) ==
    /\ prow[e].st = "ended" /\ prow[e].cleanup <= now
    /\ e \in PTask => ~TaskProtected(e)
    /\ e \in PFlow => ~FlowProtected(e)

----------------------------------------------------------------------------
\* prune.

PrunePc(pc) == prune' = [prune EXCEPT !.pc = pc]

ClaimLease == lease = "none" /\ lease' = "mine"
ReleaseLease == lease' = IF lease \in {"mine", "lapsed"} THEN "none" ELSE lease
OwnsLease == lease = "mine"

\* maintenance.retention.prune by an operator, or sweepAll with the stored
\* cursor; a call that finds the lease taken does nothing.
PruneBegins(sweeps) ==
    /\ RetQuiet /\ ClaimLease
    /\ prune' = [PruneIdle EXCEPT !.pc = "schedule", !.sweeps = sweeps, !.at = pnow, !.rev = sweep.rev,
                                  !.after = IF sweeps THEN sweep.cursor ELSE Origin]
    /\ UNCHANGED <<pnow, prow, plink, notice, tombs, sweep, pruneFaults, recreated>>

\* #schedule: ended rows get their cleanup_after, a Flow when no Task of it
\* runs, a delivery when it was delivered or suppressed.
Unscheduled(e) == prow[e].st = "ended" /\ prow[e].cleanup = Never
TaskToSchedule(t) == t \in PTask /\ Unscheduled(t)
FlowToSchedule(f) ==
    f \in PFlow /\ Unscheduled(f) /\ \A t \in PTask : <<f, t>> \in plink => prow[t].st # "active"
DeliveryToSchedule(d) == d \in PDelivery /\ Unscheduled(d)
ToSchedule(e) == TaskToSchedule(e) \/ FlowToSchedule(e) \/ DeliveryToSchedule(e)

PruneSchedules ==
    /\ prune.pc = "schedule"
    /\ prow' = [e \in PRow |-> IF ToSchedule(e)
                               THEN [prow[e] EXCEPT !.cleanup = prow[e].ended + RetentionTime] ELSE prow[e]]
    /\ PrunePc("list")
    /\ UNCHANGED <<pnow, plink, notice, tombs, lease, sweep, pruneFaults, recreated>>

\* (cleanupAfter, entityKind, entityId)
Before(a, b) == a[1] < b[1] \/ (a[1] = b[1] /\ a[2] < b[2])

\* listCandidates: what is due after the cursor, in order, at most a batch.
Candidates(now, after) ==
    LET due == {c \in {<<prow[e].cleanup, e>> : e \in {d \in PRow : prow[d].st # "gone"}} :
                   c[1] <= now /\ Before(after, c)}
        rank(c) == Cardinality({d \in due : Before(d, c)}) + 1
        batch == {c \in due : rank(c) <= BatchSize}
    IN  [i \in 1 .. Cardinality(batch) |-> CHOOSE c \in batch : rank(c) = i]

PruneLists ==
    /\ prune.pc = "list"
    /\ LET found == Candidates(prune.at, prune.after)
       IN  prune' = [prune EXCEPT !.pc = "rows", !.list = found, !.full = Len(found) = BatchSize]
    /\ UNCHANGED <<pnow, prow, plink, notice, tombs, lease, sweep, pruneFaults, recreated>>

\* Mutant: the row of a Flow goes without a tombstone.
DeleteOnly(e) ==
    /\ tombs' = IF e \in PFlow THEN tombs ELSE tombs \cup {e}
    /\ prow' = [prow EXCEPT ![e].st = "gone", ![e].cleanup = Never]
    /\ plink' = {l \in plink : e \notin {l[1], l[2]}}
    /\ notice' = notice \ {e}

\* repositories.retention.prune: the tombstone first, then the row; the links
\* and the completion deliveries go with it.
Delete(e) ==
    /\ tombs' = tombs \cup {e}
    /\ prow' = [prow EXCEPT ![e].st = "gone", ![e].cleanup = Never]
    /\ plink' = {l \in plink : e \notin {l[1], l[2]}}
    /\ notice' = notice \ {e}

\* A row of the batch; a second tombstone of the same row aborts the call.
PruneRow ==
    LET c == Head(prune.list)
        e == c[2]
        done == [prune EXCEPT !.list = Tail(@), !.last = c]
    IN  /\ prune.pc = "rows" /\ prune.list # <<>> /\ OwnsLease
        /\ IF ~Inspect(e, pnow) THEN prune' = done /\ UNCHANGED <<prow, plink, notice, tombs, lease>>
           ELSE IF e \in tombs THEN prune' = PruneIdle /\ ReleaseLease /\ UNCHANGED <<prow, plink, notice, tombs>>
           ELSE prune' = done /\ Delete(e) /\ UNCHANGED lease
        /\ UNCHANGED <<pnow, sweep, pruneFaults, recreated>>

\* LEASE_LOST: continue after the last row that was handled.
PruneLosesLease ==
    /\ prune.pc = "rows" /\ prune.list # <<>> /\ ~OwnsLease
    /\ prune' = [prune EXCEPT !.pc = "release", !.last = IF @ = Origin THEN prune.after ELSE @]
    /\ UNCHANGED <<pnow, prow, plink, notice, tombs, lease, sweep, pruneFaults, recreated>>

\* Mutant: a scan that has come to the end stays there.
NextCursorStays == IF prune.last # Origin THEN prune.last ELSE prune.after

\* After a batch that was not full the next scan starts from the beginning.
NextCursor == IF prune.full THEN prune.last ELSE Origin

PruneCompletes ==
    /\ prune.pc = "rows" /\ prune.list = <<>>
    /\ prune' = [prune EXCEPT !.pc = "release", !.last = NextCursor]
    /\ UNCHANGED <<pnow, prow, plink, notice, tombs, lease, sweep, pruneFaults, recreated>>

PruneReleases ==
    /\ prune.pc = "release" /\ ReleaseLease
    /\ prune' = IF prune.sweeps THEN [prune EXCEPT !.pc = "advance"] ELSE PruneIdle
    /\ UNCHANGED <<pnow, prow, plink, notice, tombs, sweep, pruneFaults, recreated>>

\* advanceSweepState; the revision is a counter that only comparison uses.
AdvanceSweepState ==
    /\ prune.pc = "advance"
    /\ sweep' = IF sweep.rev = prune.rev THEN [cursor |-> prune.last, rev |-> 1 - sweep.rev] ELSE sweep
    /\ prune' = PruneIdle
    /\ UNCHANGED <<pnow, prow, plink, notice, tombs, lease, pruneFaults, recreated>>

\* The Host dies and another one starts.
PruneCrash ==
    /\ pruneFaults < MaxPruneFaults /\ ~RetQuiet
    /\ pruneFaults' = pruneFaults + 1
    /\ prune' = PruneIdle
    /\ lease' = CASE lease = "mine" -> "other" [] lease = "lapsed" -> "none" [] OTHER -> lease
    /\ UNCHANGED <<pnow, prow, plink, notice, tombs, sweep, recreated>>

PruneStep ==
    \/ PruneSchedules \/ PruneLists \/ PruneRow \/ PruneLosesLease \/ PruneCompletes
    \/ PruneReleases \/ AdvanceSweepState

RetNext ==
    \/ \E e \in PRow, b \in BOOLEAN : EndRow(e, b)
    \/ \E t \in PTask : SettleNotice(t)
    \/ \E f \in PFlow : RecreateFlow(f) \/ \E t \in PTask : LinkRow(f, t)
    \/ RetTick \/ LeaseLapses \/ PruneStep \/ PruneCrash
    \/ \E b \in BOOLEAN : PruneBegins(b)

\* The transactions of a call follow one another and a lease runs out.  The
\* sweep is on a timer, which gets its turn between the calls of operators.
RetFairness ==
    /\ SF_retVars(PruneBegins(TRUE)) /\ WF_retVars(PruneStep)
    /\ WF_retVars(lease = "other" /\ LeaseLapses)
RetSpec == RetInit /\ [][RetNext]_retVars /\ RetFairness

----------------------------------------------------------------------------
\* A row that is gone left its tombstone, and a row that was never removed has
\* none: a crash or an aborted transaction never separates the two
\* (retention-repository.ts, prune).
GoneIsTombstoned ==
    \A e \in PRow : (prow[e].st = "gone" => e \in tombs) /\ (recreated = 0 => (e \in tombs => prow[e].st = "gone"))

\* What refers to a row is gone with it: no link names a row that is gone, and
\* only a Task that has ended and is still there waits to tell of its end.
NothingDangles ==
    /\ \A l \in plink : prow[l[1]].st # "gone" /\ prow[l[2]].st # "gone"
    /\ \A t \in notice : prow[t].st = "ended"

\* A root that was pruned left its tombstone and nothing that refers to it.
PrunedAgrees == RetTypeOK /\ GoneIsTombstoned /\ NothingDangles

\* "Protected prefixes cannot permanently starve later eligible rows": a row
\* that has ended, is due and is held by nothing is removed in the end, wherever
\* the cursor of the sweep stands and whatever is protected before it.
Removable(e) ==
    /\ prow[e].st = "ended" /\ prow[e].ended + RetentionTime <= pnow
    /\ e \in PTask => ~TaskProtected(e)
    /\ e \in PFlow => ~FlowProtected(e)

DueIsPruned == \A e \in PRow : Removable(e) ~> ~Removable(e)
=============================================================================
