----------------------------- MODULE MCPlatform -----------------------------
(***************************************************************************)
(* The parts below and beside the Host's Runs, each on a small instance:   *)
(* the event log, the kernel, connectors, extensions, retention, the       *)
(* Browser with its evidence, the file Tools and the schedule.  They share *)
(* no state, so a behaviour picks one part and runs it alone: a state of   *)
(* the run is a state of one part.                                         *)
(***************************************************************************)
EXTENDS KernelLoop, Connectors, Extensions, Retention, Browser, BrowserEvidence,
        WorkspaceFiles, FileSearch, Schedule

CONSTANTS x1, y1, z1, k, l, br1, br2, s1, s2, w1, w2, ta, tb, root, sub

VARIABLE part

serviceVars == <<connVars, extVars, retVars, bVars, evVars>>
toolVars == <<fileVars, searchVars, scheduleVars>>
platformVars == <<part, kernelVars, serviceVars, toolVars>>

MCEventType == {"run.checkpoint", "model.requested", "model.retry", "tool.completed"}

\* x1 and y1 want the same connector.
MCDeclares == [e \in Ext |-> IF e = z1 THEN {l} ELSE {k}]

\* A patch that makes tb of ta, and does not apply to tb.
MCPatched == (ta :> tb) @@ (tb :> Missing)

\* A folder of three entries, the second a folder of two.
FileEntry(size, hits, text) ==
    [kind |-> "file", folder |-> root, visible |-> TRUE, size |-> size, hits |-> hits, text |-> text]
SubFolder(visible) == [FileEntry(0, 0, FALSE) EXCEPT !.kind = "folder", !.folder = sub, !.visible = visible]
MCFiles ==
    {FileEntry(2, 0, TRUE), FileEntry(1, 1, TRUE), FileEntry(2, 2, TRUE), FileEntry(3, 1, TRUE), FileEntry(1, 1, FALSE),
     [FileEntry(1, 1, TRUE) EXCEPT !.visible = FALSE], [FileEntry(1, 1, TRUE) EXCEPT !.kind = "other"]}
MCTrees ==
    {[d \in Folder |-> IF d = root THEN <<a, b, c>> ELSE <<e, f>>] :
        a \in {FileEntry(1, 0, TRUE), FileEntry(1, 1, TRUE), FileEntry(2, 2, TRUE)},
        b \in {SubFolder(TRUE), SubFolder(FALSE)}, c \in MCFiles, e \in MCFiles, f \in MCFiles}

\* A year of two months of two and three days.
MCDays == <<2, 3>>
At(mo, d, h, o) ==
    [kind |-> "at", at |-> [year |-> 0, month |-> mo, day |-> d, hour |-> h, minute |-> 1, offset |-> o]]
Every(n, a) == [kind |-> "interval", every |-> n, anchor |-> a]
Cron(mi, h, d, mo, w) ==
    [kind |-> "cron", fields |-> [minute |-> mi, hour |-> h, day |-> d, month |-> mo, dayOfWeek |-> w]]
MCJobs ==
    {At(mo, d, h, o) : mo \in 1 .. 2, d \in 2 .. 3, h \in 1 .. 3, o \in {0, 2}}
    \cup {Every(n, a) : n \in {1, 3, 5}, a \in {0, 7}}
    \cup {Cron(mi, h, d, mo, w) :
            mi \in {{Star}, {Point(1)}}, h \in {{Star}, {Span(0, 2, 2)}, {Point(1)}},
            d \in {{Star}, {StarStep(2)}, {Point(3)}, {Span(2, 1, 0)}}, mo \in {{Star}, {Point(1)}},
            w \in {{Star}, {Point(1)}, {Span(2, 3, 0)}, {Point(0), Point(2)}}}

\* A clock that is never set, one set forward, one set back.
MCZones == {[before |-> 0, after |-> 0, change |-> 0], [before |-> 0, after |-> 2, change |-> 28],
            [before |-> 3, after |-> 1, change |-> 20]}

PlatformInit ==
    /\ part \in {"log", "kernel", "connectors", "extensions", "retention", "browser", "page", "evidence",
                 "files", "search", "schedule"}
    /\ part # "files" => disk = [p \in Path |-> IF p = Target THEN Missing ELSE Link]
    /\ part # "search" => tree = CHOOSE t \in Trees : TRUE
    /\ part # "schedule" => job = Every(3, 0) /\ zone = CHOOSE o \in Zones : TRUE
    /\ KernelInit /\ ConnInit /\ ExtInit /\ RetInit /\ BrowserInit /\ EvInit
    /\ FilesInit /\ SearchInit /\ ScheduleInit

\* Writers of one log, and the kernel as its only writer.
Logs == /\ part = "log" /\ LogNext
        /\ UNCHANGED <<pc, author, turns, invocations, request, retry, calls, next, asked,
                       results, effects, crashes, serviceVars, toolVars>>
\* Two crashes within two turns, or one within three.
Kernel == /\ part = "kernel" /\ KernelNext
          /\ crashes' <= 1 \/ turns' <= 2
          /\ UNCHANGED <<serviceVars, toolVars>>
Conns == part = "connectors" /\ ConnNext /\ UNCHANGED <<kernelVars, extVars, retVars, bVars, evVars, toolVars>>
Exts == part = "extensions" /\ ExtNext /\ UNCHANGED <<kernelVars, connVars, retVars, bVars, evVars, toolVars>>
Rets == part = "retention" /\ RetNext /\ UNCHANGED <<kernelVars, connVars, extVars, bVars, evVars, toolVars>>
\* Two Runs that compete for one session, of which one works on a page, and a
\* Run alone that works for longer, with faults, in a browser launched once.
Sessions == /\ part = "browser" /\ BrowserNext /\ bcalls' <= 2 /\ bfaults' = 0
            /\ bcall'[br2].tool \in {"none", "open", "close"}
            /\ bsess'[s1] = NewSess => bsess'[s2] = NewSess
            /\ UNCHANGED <<kernelVars, connVars, extVars, retVars, evVars, toolVars>>
Pages == /\ part = "page" /\ BrowserNext /\ bgen' <= 1 /\ bover' \in {{}, {br1}, BRun}
         /\ bcall'[br2] = NoTool /\ bsess'[s2] = NewSess
         /\ UNCHANGED <<kernelVars, connVars, extVars, retVars, evVars, toolVars>>
Evidence == part = "evidence" /\ EvNext /\ UNCHANGED <<kernelVars, connVars, extVars, retVars, bVars, toolVars>>
\* Two calls, of which the first is a mutation of the file itself, and one edit,
\* fault or crash.
Files == /\ part = "files" /\ FilesNext
         /\ fileBudget'.edits + fileBudget'.faults + fileBudget'.crashes <= 1
         /\ fcall'[w1].at = "new" => fcall'[w2].at = "new"
         /\ fcall'[w1].tool # "read" \/ fcall'[w1].at = "new"
         /\ fcall'[w1].path = Target
         /\ UNCHANGED <<kernelVars, serviceVars, searchVars, scheduleVars>>
Searches == part = "search" /\ SearchNext /\ UNCHANGED <<kernelVars, serviceVars, fileVars, scheduleVars>>
Schedules == part = "schedule" /\ ScheduleNext /\ UNCHANGED <<kernelVars, serviceVars, fileVars, searchVars>>

PlatformNext ==
    UNCHANGED part /\ (Logs \/ Kernel \/ Conns \/ Exts \/ Rets \/ Sessions \/ Pages \/ Evidence
                       \/ Files \/ Searches \/ Schedules)
PlatformSpec == PlatformInit /\ [][PlatformNext]_platformVars

\* What is computed for a caller: the files a search has seen, and the next
\* instant of a schedule.
AnswersAgree == SearchTypeOK /\ SearchIsWhole /\ SchedulesAgree

\* What was settled stays: the log only grows, an execution never meets a key of
\* its own, and a delivery that was settled is not settled again.
HistoryIsKept == AppendOnly /\ NoConflict /\ SettledIsFinal
=============================================================================
