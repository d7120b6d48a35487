------------------------------ MODULE HostBoot ------------------------------
(***************************************************************************)
(* Which process owns a profile: the lock file, the metadata file, the     *)
(* state database with its migrations, start-up and shut-down of a Host,   *)
(* and the operator's "status" and "stop" (services/agent-host: lock,      *)
(* metadata, control, control-server, lifecycle; packages/state: database, *)
(* migrations).                                                            *)
(*                                                                         *)
(* A process starts one Host, so its pid and its instanceId are one value. *)
(* Every access to a file is a step of its own; a process may die between  *)
(* any two of them.  Migs gives the migration set of the product version a *)
(* process runs.  What the services do once they are started is the        *)
(* subject of the other modules.                                           *)
(***************************************************************************)
EXTENDS Naturals, Sequences, SequencesExt

CONSTANTS
    Proc,        \* the processes that start a Host
    Old,         \* a process that died earlier and may have left its files
    NoFile,
    Migs,        \* the migrations a process knows, oldest first
    LeftSchemas, \* the ledgers of migrations that a start may find
    MaxTries     \* attempts of acquireHostLock (4)

HostState == {"STARTING", "LISTENING", "READY", "STOPPING", "STOPPED", "FAILED"}
LockPayload == [owner : Proc \cup {Old}, full : BOOLEAN]
PrivateMetadata == [owner : Proc \cup {Old}, st : HostState]

\* Every migration that a build knows or a ledger names.
Migration == UNION {Range(Migs[p]) : p \in Proc} \cup UNION {Range(ledger) : ledger \in LeftSchemas}

ASSUME BootAssumption ==
    /\ Old \notin Proc /\ MaxTries \in Nat \ {0}
    /\ NoFile \notin Proc \cup {Old} \cup LockPayload \cup PrivateMetadata
    /\ \A p \in Proc : Migs[p] \in Seq(Migration) /\ Len(Migs[p]) > 0
    /\ LeftSchemas \subseteq Seq(Migration)

VARIABLES
    lockFile,    \* the owner and whether the content is written
    metaFile,    \* the owner and the state it wrote
    schema,      \* schema_migrations, which user_version agrees with
    bt,          \* a process: see ProcRecord
    cli,         \* the operator's command
    raced,       \* a file was removed that is not the one that was judged
    forced       \* a lock was reclaimed with --force

bootVars == <<lockFile, metaFile, schema, bt, cli, raced, forced>>

ProcRecord == [
    pc : {"new", "create", "write", "inspect", "judge", "rmMeta", "rmLock", "open", "migrate", "recover",
          "build", "services", "start", "listening", "up", "stranded", "gone", "dead"},
    seen : LockPayload \cup {NoFile},     \* existing, of acquireHostLock
    tries : 0 .. MaxTries, force : BOOLEAN,
    ver : Nat,                            \* the schema version this process has reached
    db : BOOLEAN,                         \* its connection is open
    st : HostState, written : BOOLEAN,    \* state and metadataWritten
    writes : Seq(HostState), mw : {"idle", "removed", "renamed"},  \* metadataWriteTail
    rt : {"none", "delay", "writing", "resolved", "rejected"},   \* readinessTask
    cl : {"no", "asked", "persist", "await", "drain", "database", "meta", "lock", "unlock", "done"}]
CliRecord == [pc : {"idle", "asked", "poll", "inspect", "rmMeta", "rmLock", "stopped", "unreachable", "done"},
              meta : PrivateMetadata \cup {NoFile}, lock : LockPayload \cup {NoFile}]

BootTypeOK ==
    /\ lockFile \in LockPayload \cup {NoFile} /\ metaFile \in PrivateMetadata \cup {NoFile}
    /\ schema \in Seq(Migration)
    /\ bt \in [Proc -> ProcRecord]
    /\ cli \in CliRecord
    /\ raced \in BOOLEAN /\ forced \in BOOLEAN

Live(p) == p \in Proc /\ bt[p].pc \notin {"new", "gone", "dead"}
Serves(p) == p \in Proc /\ bt[p].pc \in {"listening", "up"} /\ bt[p].cl \in {"no", "asked", "persist", "await", "drain"}
Owner(f) == IF f = NoFile THEN NoFile ELSE f.owner

BootInit ==
    /\ lockFile \in {NoFile, [owner |-> Old, full |-> TRUE]}
    /\ metaFile \in {NoFile, [owner |-> Old, st |-> "READY"]}
    /\ schema \in LeftSchemas
    /\ bt = [p \in Proc |-> [pc |-> "new", seen |-> NoFile, tries |-> 0, force |-> FALSE, ver |-> 0, db |-> FALSE,
                             st |-> "STARTING", written |-> FALSE, writes |-> <<>>, mw |-> "idle",
                             rt |-> "none", cl |-> "no"]]
    /\ cli = [pc |-> "idle", meta |-> NoFile, lock |-> NoFile]
    /\ raced = FALSE /\ forced = FALSE

At(p, pc) == bt[p].pc = pc
BootGoto(p, pc) == bt' = [bt EXCEPT ![p].pc = pc]
----------------------------------------------------------------------------
\* acquireHostLock.

StartLocalHost(p, force) ==
    /\ At(p, "new")
    /\ bt' = [bt EXCEPT ![p].pc = "create", ![p].force = force]
    /\ UNCHANGED <<lockFile, metaFile, schema, cli, raced, forced>>

CreateLock(p) ==
    /\ At(p, "create")
    /\ IF lockFile = NoFile
       THEN lockFile' = [owner |-> p, full |-> FALSE] /\ BootGoto(p, "write")
       ELSE UNCHANGED lockFile /\ BootGoto(p, "inspect")
    /\ UNCHANGED <<metaFile, schema, cli, raced, forced>>

\* The content goes to the open handle, also when its name is gone.
WriteLock(p) ==
    /\ At(p, "write")
    /\ lockFile' = IF Owner(lockFile) = p THEN [lockFile EXCEPT !.full = TRUE] ELSE lockFile
    /\ BootGoto(p, "open")
    /\ UNCHANGED <<metaFile, schema, cli, raced, forced>>

\* A lock without its content is read as null.
ReadLock(p) ==
    /\ At(p, "inspect")
    /\ bt' = [bt EXCEPT ![p].pc = "judge", ![p].seen = IF lockFile # NoFile /\ lockFile.full THEN lockFile ELSE NoFile]
    /\ UNCHANGED <<lockFile, metaFile, schema, cli, raced, forced>>

\* A Host that serves may answer the probe, or be too slow for it.
AnswersProbe(p) == metaFile # NoFile /\ Owner(bt[p].seen) = metaFile.owner /\ Serves(metaFile.owner)

\* The pid of a dead process may have been given to another one.
IsPidAlive(q) == IF Live(q) THEN {TRUE} ELSE BOOLEAN

\* Mutant: a Host that does not answer is taken for dead.
ReclaimableSilent(p, alive, aged) == bt[p].seen # NoFile \/ (bt[p].force /\ aged)

Reclaimable(p, alive, aged) ==
    \/ bt[p].seen # NoFile /\ ~alive
    \/ bt[p].force /\ aged

JudgeLock(p) ==
    /\ At(p, "judge")
    /\ \E alive \in IF bt[p].seen = NoFile THEN {FALSE} ELSE IsPidAlive(bt[p].seen.owner), aged \in BOOLEAN :
         \/ /\ AnswersProbe(p)
            /\ BootGoto(p, "gone") /\ UNCHANGED forced
         \/ /\ Reclaimable(p, alive, aged)
            /\ BootGoto(p, "rmMeta")
            /\ forced' = (forced \/ (bt[p].force /\ (bt[p].seen = NoFile \/ alive)))
         \/ /\ ~Reclaimable(p, alive, aged)
            /\ BootGoto(p, "gone") /\ UNCHANGED forced
    /\ UNCHANGED <<lockFile, metaFile, schema, cli, raced>>

ReclaimMetadata(p) ==
    /\ At(p, "rmMeta")
    /\ metaFile' = NoFile
    /\ raced' = (raced \/ (metaFile # NoFile /\ Live(metaFile.owner)))
    /\ BootGoto(p, "rmLock")
    /\ UNCHANGED <<lockFile, schema, cli, forced>>

ReclaimLock(p) ==
    /\ At(p, "rmLock")
    /\ lockFile' = NoFile
    /\ raced' = (raced \/ (lockFile # NoFile /\ lockFile # bt[p].seen))
    /\ bt' = [bt EXCEPT ![p].pc = IF bt[p].tries + 1 < MaxTries THEN "create" ELSE "gone",
                        ![p].tries = @ + 1, ![p].seen = NoFile]
    /\ UNCHANGED <<metaFile, schema, cli, forced>>

----------------------------------------------------------------------------
\* openOpenRillStateDatabase and applyStateMigrations.

\* A failed start-up closes the database, then gives the lock back.
Abandon(p) == [bt EXCEPT ![p].pc = "stranded", ![p].cl = "lock", ![p].db = FALSE]

\* Neither newer than this version nor with a migration it does not know.
KnownSchema(p) == IsPrefix(schema, Migs[p])

OpenStateDatabase(p) ==
    /\ At(p, "open")
    /\ bt' = IF KnownSchema(p)
             THEN [bt EXCEPT ![p].pc = "migrate", ![p].ver = Len(schema), ![p].db = TRUE]
             ELSE Abandon(p)
    /\ UNCHANGED <<lockFile, metaFile, schema, cli, raced, forced>>

\* One transaction per version; the version is the primary key of the ledger.
ApplyMigration(p) ==
    /\ At(p, "migrate") /\ bt[p].ver < Len(Migs[p])
    /\ IF Len(schema) = bt[p].ver
       THEN /\ schema' = Append(schema, Migs[p][bt[p].ver + 1])
            /\ bt' = [bt EXCEPT ![p].ver = @ + 1]
       ELSE bt' = Abandon(p) /\ UNCHANGED schema
    /\ UNCHANGED <<lockFile, metaFile, cli, raced, forced>>

Migrated(p) ==
    /\ At(p, "migrate") /\ bt[p].ver = Len(Migs[p])
    /\ bt' = IF Len(schema) = Len(Migs[p]) THEN [bt EXCEPT ![p].pc = "recover"] ELSE Abandon(p)
    /\ UNCHANGED <<lockFile, metaFile, schema, cli, raced, forced>>

\* The workspaces are stored and interrupted work is recovered, or not.
RecoverState(p) ==
    /\ At(p, "recover")
    /\ BootGoto(p, "build") \/ bt' = Abandon(p)
    /\ UNCHANGED <<lockFile, metaFile, schema, cli, raced, forced>>

----------------------------------------------------------------------------
\* The services, and the last part of startLocalHost.

\* An error in one of the next two is caught by nobody: the lock and the
\* connection stay until the process ends.  The stores, the browser, the
\* backends and the tools are built, and processes left over are recovered;
BuildServices(p) ==
    /\ At(p, "build")
    /\ BootGoto(p, "services") \/ BootGoto(p, "stranded")
    /\ UNCHANGED <<lockFile, metaFile, schema, cli, raced, forced>>

\* then goals, deliveries, delegations, Runs and maintenance are recovered.
StartServices(p) ==
    /\ At(p, "services")
    /\ BootGoto(p, "start") \/ BootGoto(p, "stranded")
    /\ UNCHANGED <<lockFile, metaFile, schema, cli, raced, forced>>

\* persist takes its snapshot at once and writes behind earlier writes.
Persist(p, st) == [bt EXCEPT ![p].st = st, ![p].writes = Append(@, st)]

\* The extensions, the connector outputs, the scheduler and the listener.
Listen(p) ==
    /\ At(p, "start")
    /\ IF \E q \in Proc \ {p} : Serves(q)
       THEN bt' = [bt EXCEPT ![p].st = "FAILED", ![p].pc = "stranded", ![p].cl = "database"]
       ELSE bt' = [Persist(p, "LISTENING") EXCEPT ![p].pc = "listening"]
    /\ UNCHANGED <<lockFile, metaFile, schema, cli, raced, forced>>

StartFails(p) ==
    /\ At(p, "start")
    /\ bt' = [bt EXCEPT ![p].st = "FAILED", ![p].pc = "stranded", ![p].cl = "database"]
    /\ UNCHANGED <<lockFile, metaFile, schema, cli, raced, forced>>

\* writeJsonAtomic: the old file is removed, then the new one gets its name.
MetadataRemoved(p) ==
    /\ bt[p].writes # <<>> /\ bt[p].mw = "idle" /\ Live(p)
    /\ metaFile' = NoFile
    /\ bt' = [bt EXCEPT ![p].mw = "removed"]
    /\ UNCHANGED <<lockFile, schema, cli, raced, forced>>

MetadataRenamed(p) ==
    /\ bt[p].mw = "removed" /\ Live(p)
    /\ metaFile' = [owner |-> p, st |-> Head(bt[p].writes)]
    /\ bt' = [bt EXCEPT ![p].mw = "renamed"]
    /\ UNCHANGED <<lockFile, schema, cli, raced, forced>>

MetadataWritten(p) ==
    /\ bt[p].mw = "renamed" /\ Live(p)
    /\ bt' = [bt EXCEPT ![p].mw = "idle", ![p].writes = Tail(@), ![p].written = TRUE]
    /\ UNCHANGED <<lockFile, metaFile, schema, cli, raced, forced>>

\* The write of LISTENING is done: the readiness task begins.
Listening(p) ==
    /\ At(p, "listening") /\ bt[p].writes = <<>>
    /\ bt' = [bt EXCEPT ![p].pc = "up", ![p].rt = "delay"]
    /\ UNCHANGED <<lockFile, metaFile, schema, cli, raced, forced>>

BecomeReady(p) ==
    /\ bt[p].rt = "delay" /\ Live(p)
    /\ bt' = IF bt[p].st = "LISTENING"
             THEN [Persist(p, "READY") EXCEPT ![p].rt = "writing"]
             ELSE [bt EXCEPT ![p].rt = "rejected"]
    /\ UNCHANGED <<lockFile, metaFile, schema, cli, raced, forced>>

Ready(p) ==
    /\ bt[p].rt = "writing" /\ Live(p) /\ "READY" \notin Range(bt[p].writes)
    /\ bt' = [bt EXCEPT ![p].rt = IF bt[p].st = "READY" THEN "resolved" ELSE "rejected"]
    /\ UNCHANGED <<lockFile, metaFile, schema, cli, raced, forced>>

\* The write of READY fails in its turn: unless it is being closed, the Host fails.
ReadinessFails(p) ==
    /\ bt[p].rt = "writing" /\ bt[p].mw = "idle" /\ Live(p) /\ bt[p].writes # <<>> /\ Head(bt[p].writes) = "READY"
    /\ bt' = [bt EXCEPT ![p].rt = "rejected", ![p].writes = Tail(@),
                        ![p].st = IF bt[p].cl = "no" THEN "FAILED" ELSE @,
                        ![p].cl = IF @ = "no" THEN "asked" ELSE @]
    /\ UNCHANGED <<lockFile, metaFile, schema, cli, raced, forced>>

----------------------------------------------------------------------------
\* closeHost.

\* A signal, once start-up has returned.
Signal(p) ==
    /\ At(p, "up") /\ bt[p].cl = "no"
    /\ bt' = [bt EXCEPT ![p].cl = "asked"]
    /\ UNCHANGED <<lockFile, metaFile, schema, cli, raced, forced>>

BeginClose(p) ==
    /\ bt[p].cl = "asked" /\ Live(p)
    /\ LET st == IF bt[p].st = "FAILED" THEN "FAILED" ELSE "STOPPING"
       IN  bt' = IF bt[p].written THEN [Persist(p, st) EXCEPT ![p].cl = "persist"]
                 ELSE [bt EXCEPT ![p].st = st, ![p].cl = "await"]
    /\ UNCHANGED <<lockFile, metaFile, schema, cli, raced, forced>>

\* Its own write first, then the readiness task.
CloseAwaits(p) ==
    /\ bt[p].cl \in {"persist", "await"} /\ Live(p)
    /\ IF bt[p].cl = "persist" THEN bt[p].writes = <<>> ELSE bt[p].rt \in {"none", "resolved", "rejected"}
    /\ bt' = [bt EXCEPT ![p].cl = IF @ = "persist" THEN "await" ELSE "drain"]
    /\ UNCHANGED <<lockFile, metaFile, schema, cli, raced, forced>>

\* Extensions, sockets, timers, listener, scheduler, Runs, browser and
\* processes; an error among them skips the rest.
Drain(p) ==
    /\ bt[p].cl = "drain" /\ Live(p)
    /\ bt' = [bt EXCEPT ![p].cl = "database"]
    /\ UNCHANGED <<lockFile, metaFile, schema, cli, raced, forced>>

CloseDatabase(p) ==
    /\ bt[p].cl = "database" /\ Live(p)
    /\ bt' = [bt EXCEPT ![p].cl = "meta", ![p].db = FALSE, ![p].st = IF @ = "FAILED" THEN @ ELSE "STOPPED"]
    /\ UNCHANGED <<lockFile, metaFile, schema, cli, raced, forced>>

RemoveMetadata(p) ==
    /\ bt[p].cl = "meta" /\ Live(p)
    /\ metaFile' = NoFile
    /\ bt' = [bt EXCEPT ![p].cl = "lock"]
    /\ UNCHANGED <<lockFile, schema, cli, raced, forced>>

\* release: the lock is read, and removed if it is still this Host's.
ReadOwnLock(p) ==
    /\ bt[p].cl = "lock" /\ Live(p)
    /\ bt' = IF Owner(lockFile) = p THEN [bt EXCEPT ![p].cl = "unlock"]
             ELSE [bt EXCEPT ![p].cl = "done", ![p].pc = "gone"]
    /\ UNCHANGED <<lockFile, metaFile, schema, cli, raced, forced>>

ReleaseLock(p) ==
    /\ bt[p].cl = "unlock" /\ Live(p)
    /\ lockFile' = NoFile
    /\ raced' = (raced \/ (lockFile # NoFile /\ lockFile.owner # p))
    /\ bt' = [bt EXCEPT ![p].cl = "done", ![p].pc = "gone"]
    /\ UNCHANGED <<metaFile, schema, cli, forced>>

\* The process dies; the connection goes with it.
Die(p) ==
    /\ Live(p)
    /\ bt' = [bt EXCEPT ![p].pc = "dead", ![p].db = FALSE]
    /\ UNCHANGED <<lockFile, metaFile, schema, cli, raced, forced>>

----------------------------------------------------------------------------
\* stopLocalHost and inspectLocalHost, in a process of the operator.

StopReadsMetadata ==
    /\ cli.pc = "idle"
    /\ cli' = IF metaFile = NoFile THEN [cli EXCEPT !.pc = "inspect"] ELSE [cli EXCEPT !.pc = "asked", !.meta = metaFile]
    /\ UNCHANGED <<lockFile, metaFile, schema, bt, raced, forced>>

\* The handler of /lifecycle/stop accepts the first request.
RequestStop ==
    LET p == cli.meta.owner
    IN  /\ cli.pc = "asked"
        /\ \/ /\ Serves(p)
              /\ cli' = [cli EXCEPT !.pc = "poll"]
              /\ bt' = IF bt[p].cl = "no" THEN [bt EXCEPT ![p].cl = "asked"] ELSE bt
           \/ cli' = [cli EXCEPT !.pc = "inspect"] /\ UNCHANGED bt
        /\ UNCHANGED <<lockFile, metaFile, schema, raced, forced>>

PollMetadata ==
    /\ cli.pc = "poll"
    /\ \/ Owner(metaFile) # cli.meta.owner /\ cli' = [cli EXCEPT !.pc = "stopped"]
       \/ cli' = [cli EXCEPT !.pc = "unreachable"]
    /\ UNCHANGED <<lockFile, metaFile, schema, bt, raced, forced>>

\* Neither file is removed while its owner lives.
InspectReads ==
    /\ cli.pc = "inspect"
    /\ \/ metaFile # NoFile /\ Serves(metaFile.owner) /\ cli' = [cli EXCEPT !.pc = "unreachable"]
       \/ cli' = [pc |-> "rmMeta", meta |-> metaFile, lock |-> IF lockFile # NoFile /\ lockFile.full THEN lockFile ELSE NoFile]
    /\ UNCHANGED <<lockFile, metaFile, schema, bt, raced, forced>>

OwnerDead(f) == f # NoFile /\ FALSE \in IsPidAlive(f.owner)

InspectRemovesMetadata ==
    /\ cli.pc = "rmMeta"
    /\ metaFile' = IF OwnerDead(cli.meta) THEN NoFile ELSE metaFile
    /\ raced' = (raced \/ (OwnerDead(cli.meta) /\ metaFile \notin {NoFile, cli.meta}))
    /\ cli' = [cli EXCEPT !.pc = "rmLock"]
    /\ UNCHANGED <<lockFile, schema, bt, forced>>

InspectRemovesLock ==
    /\ cli.pc = "rmLock"
    /\ lockFile' = IF OwnerDead(cli.lock) THEN NoFile ELSE lockFile
    /\ raced' = (raced \/ (OwnerDead(cli.lock) /\ lockFile \notin {NoFile, cli.lock}))
    /\ cli' = [cli EXCEPT !.pc = "done"]
    /\ UNCHANGED <<metaFile, schema, bt, forced>>

----------------------------------------------------------------------------
BootNext ==
    \/ \E p \in Proc :
         \/ \E force \in BOOLEAN : StartLocalHost(p, force)
         \/ CreateLock(p) \/ WriteLock(p) \/ ReadLock(p) \/ JudgeLock(p) \/ ReclaimMetadata(p) \/ ReclaimLock(p)
         \/ OpenStateDatabase(p) \/ ApplyMigration(p) \/ Migrated(p) \/ RecoverState(p)
         \/ BuildServices(p) \/ StartServices(p) \/ Listen(p) \/ StartFails(p) \/ MetadataRemoved(p) \/ MetadataRenamed(p) \/ MetadataWritten(p)
         \/ Listening(p) \/ BecomeReady(p) \/ Ready(p) \/ ReadinessFails(p)
         \/ Signal(p) \/ BeginClose(p) \/ CloseAwaits(p) \/ Drain(p) \/ CloseDatabase(p)
         \/ RemoveMetadata(p) \/ ReadOwnLock(p) \/ ReleaseLock(p) \/ Die(p)
    \/ StopReadsMetadata \/ RequestStop \/ PollMetadata
    \/ InspectReads \/ InspectRemovesMetadata \/ InspectRemovesLock

BootSpec == BootInit /\ [][BootNext]_bootVars

----------------------------------------------------------------------------
\* One process at a time works on the database of a profile: whatever dies
\* between whichever file operations, and however starts, stops and reclaims
\* overlap, as long as no file was removed that had changed since it was judged
\* and nobody used --force (acquireHostLock, closeHost).
OneHost == raced \/ forced \/ \A p, q \in Proc : bt[p].db /\ bt[q].db => p = q

\* The ledger of migrations is the history of one product version even when two
\* Hosts of different versions migrate at the same time; and a Host that has
\* started, alone, works on exactly the schema it knows (applyStateMigrations).
SchemaIsKnown ==
    /\ schema \in LeftSchemas \/ \E p \in Proc : IsPrefix(schema, Migs[p])
    /\ \A p \in Proc : bt[p].db /\ bt[p].pc \in {"build", "services", "start", "listening", "up"} /\ ~raced /\ ~forced
                         => schema = Migs[p]

\* A Host that was closed in order leaves neither its lock nor its metadata
\* behind, although the readiness task and the stop write the file concurrently.
ClosedIsClean ==
    \A p \in Proc : bt[p].cl = "done" => Owner(lockFile) # p /\ Owner(metaFile) # p

\* A Host that is being drained does not call itself READY any more: the
\* snapshots are written in the order they were taken, and the readiness task
\* is waited for (persist, waitForReadinessDelay).
DrainedIsNotReady ==
    \A p \in Proc : bt[p].cl \in {"drain", "database", "meta"} /\ metaFile # NoFile /\ metaFile.owner = p
                      => metaFile.st # "READY"

\* One Host serves a data directory, with a schema it knows; when it closed it
\* left nothing, and while it drains nobody is told that it is ready.
BootAgrees == BootTypeOK /\ OneHost /\ SchemaIsKnown /\ ClosedIsClean /\ DrainedIsNotReady
=============================================================================
