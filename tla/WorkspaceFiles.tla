-------------------------- MODULE WorkspaceFiles --------------------------
(***************************************************************************)
(* workspace.write, workspace.patch and workspace.read with the artifacts  *)
(* they record.  A mutation resolves its path, waits in the queue of its   *)
(* file, reads the file, writes a temporary file, reads the file again and *)
(* renames; then it reads what it wrote and records before and after.  The *)
(* user and the commands of the process Tool edit the same files without   *)
(* any of this.                                                            *)
(*                                                                         *)
(* A path names a file or is a link to one.  The content of a file is its  *)
(* revision.  Directories, modes and modification times are left out.      *)
(***************************************************************************)
EXTENDS Naturals, Sequences, FiniteSets

CONSTANTS
    FileCall,       \* Tool calls, of any Runs
    Target, Alias,  \* a path, and one that may be a link to it
    FileText,       \* contents of a file
    Patched,        \* what a patch makes of a text; Missing when it does not apply
    Missing,        \* the revision of a file that does not exist
    Link,           \* what a link holds
    AliasIsLink,    \* whether Alias starts as a link
    MaxUserEdits, MaxIoFaults, MaxFileCrashes

ASSUME FilesAssumption ==
    /\ Target # Alias /\ {Missing, Link} \cap FileText = {} /\ Missing # Link
    /\ Patched \in [FileText -> FileText \cup {Missing}]
    /\ AliasIsLink \in BOOLEAN
    /\ {MaxUserEdits, MaxIoFaults, MaxFileCrashes} \subseteq Nat

VARIABLES
    disk,        \* path -> text, Missing or Link
    tails,       \* mutationTails: path -> the calls of its chain, the running one first
    fcall,       \* the calls
    artifactDir, \* call -> what its artifact directory holds
    artifactRow, \* call -> its row of workspace_artifacts
    replaced,    \* call -> what its renames replaced (history)
    fileBudget

fileVars == <<disk, tails, fcall, artifactDir, artifactRow, replaced, fileBudget>>

Path == {Target, Alias}
Revision == FileText \cup {Missing}
NoChange == [before |-> Missing, after |-> Missing]
Change == [before : Revision, after : Revision]

FileCallRecord == [
    tool : {"read", "write", "patch"}, path : Path, expected : Revision, text : Revision,
    at : {"new", "resolve", "enqueue", "queued", "before", "temp", "latest", "rename", "refresh",
          "record", "metadata", "done"},
    exists : BOOLEAN,        \* ResolvedWorkspacePath.exists, as it was resolved
    key : Path, change : Change,
    temp : BOOLEAN,          \* its temporary file is in the directory
    meddled : BOOLEAN,       \* somebody else wrote the file since it was last checked (history)
    result : {"none", "ok", "error", "thrown"}]

FilesTypeOK ==
    /\ disk \in [Path -> Revision \cup {Link}] /\ tails \in [Path -> Seq(FileCall)]
    /\ fcall \in [FileCall -> FileCallRecord]
    /\ artifactDir \in [FileCall -> {"none", "files", "whole"}]
    /\ artifactRow \in [FileCall -> Change \cup {Missing}] /\ replaced \in [FileCall -> SUBSET Revision]
    /\ fileBudget \in [edits : 0 .. MaxUserEdits, faults : 0 .. MaxIoFaults, crashes : 0 .. MaxFileCrashes]

NewFileCall == [tool |-> "read", path |-> Target, expected |-> Missing, text |-> Missing, at |-> "new",
                exists |-> FALSE, key |-> Target, change |-> NoChange, temp |-> FALSE, meddled |-> FALSE,
                result |-> "none"]

FilesInit ==
    /\ disk \in {[p \in Path |-> IF p = Target THEN t ELSE IF AliasIsLink THEN Link ELSE Missing] : t \in Revision}
    /\ tails = [p \in Path |-> <<>>]
    /\ fcall = [c \in FileCall |-> NewFileCall]
    /\ artifactDir = [c \in FileCall |-> "none"] /\ artifactRow = [c \in FileCall |-> Missing]
    /\ replaced = [c \in FileCall |-> {}]
    /\ fileBudget = [edits |-> 0, faults |-> 0, crashes |-> 0]

RealPath(p) == IF disk[p] = Link THEN Target ELSE p
\* What a reader of the path finds; a link without its target is broken.
Holds(p) == disk[RealPath(p)]
Dangling(p) == disk[p] = Link /\ disk[Target] = Missing

FAt(c, at) == fcall[c].at = at
FGo(c, at) == fcall' = [fcall EXCEPT ![c].at = at]
IoFault == fileBudget.faults < MaxIoFaults /\ fileBudget' = [fileBudget EXCEPT !.faults = @ + 1]

\* The finally of atomicWriteWorkspaceText.
LeavesTemp(c) == [fcall[c] EXCEPT !.at = "done", !.temp = FALSE]

\* The call is answered: a WorkspaceError is a result, any other is thrown.  Its
\* chain goes on either way.
Answer(c, result) ==
    /\ fcall' = [fcall EXCEPT ![c] = [LeavesTemp(c) EXCEPT !.result = result]]
    /\ tails' = [p \in Path |-> IF tails[p] # <<>> /\ Head(tails[p]) = c THEN Tail(tails[p]) ELSE tails[p]]
----------------------------------------------------------------------------
CallFileTool(c, tool, p, expected, text) ==
    /\ FAt(c, "new")
    /\ tool = "read" => expected = Missing
    /\ tool = "patch" => expected # Missing
    /\ text = Missing <=> tool # "write"
    /\ fcall' = [fcall EXCEPT ![c] = [@ EXCEPT !.tool = tool, !.path = p, !.expected = expected, !.text = text,
                                               !.at = "resolve"]]
    /\ UNCHANGED <<disk, tails, artifactDir, artifactRow, replaced, fileBudget>>

\* WorkspaceCatalog.resolve.
ResolveFile(c) ==
    LET p == fcall[c].path
    IN  /\ FAt(c, "resolve")
        /\ IF Dangling(p) \/ (disk[p] = Missing /\ fcall[c].tool # "write")
           THEN Answer(c, "error")
           ELSE /\ fcall' = [fcall EXCEPT ![c].exists = disk[p] # Missing,
                                          ![c].at = IF fcall[c].tool = "read" THEN "refresh" ELSE "enqueue"]
                /\ UNCHANGED tails
        /\ UNCHANGED <<disk, artifactDir, artifactRow, replaced, fileBudget>>

\* withWorkspaceFileMutation: the key is the real path, or the path itself.
EnqueueMutation(c) ==
    LET p == fcall[c].path
        key == IF Dangling(p) THEN p ELSE RealPath(p)
    IN  /\ FAt(c, "enqueue")
        /\ tails' = [tails EXCEPT ![key] = Append(@, c)]
        /\ fcall' = [fcall EXCEPT ![c].key = key,
                                  ![c].at = IF fcall[c].tool = "patch" THEN "queued" ELSE "before"]
        /\ UNCHANGED <<disk, artifactDir, artifactRow, replaced, fileBudget>>

\* Mutant: a call does not wait for the one before it.
RunningAtOnce(c) == TRUE

Running(c) == Head(tails[fcall[c].key]) = c

\* readCurrentTextFile: a path that did not exist when it was resolved is missing.
OnDisk(c) == IF fcall[c].exists THEN Holds(fcall[c].path) ELSE Missing
Vanished(c) == fcall[c].exists /\ Holds(fcall[c].path) = Missing

\* A patch reads the file and computes its text before the write reads it again.
ComputePatch(c) ==
    /\ FAt(c, "queued") /\ Running(c)
    /\ IF Vanished(c) THEN Answer(c, "thrown")
       ELSE IF OnDisk(c) # fcall[c].expected \/ Patched[OnDisk(c)] = Missing THEN Answer(c, "error")
       ELSE fcall' = [fcall EXCEPT ![c].text = Patched[OnDisk(c)], ![c].at = "before"] /\ UNCHANGED tails
    /\ UNCHANGED <<disk, artifactDir, artifactRow, replaced, fileBudget>>

ReadBefore(c) ==
    /\ FAt(c, "before") /\ Running(c)
    /\ IF Vanished(c) THEN Answer(c, "thrown")
       ELSE IF OnDisk(c) # fcall[c].expected THEN Answer(c, "error")
       ELSE fcall' = [fcall EXCEPT ![c].change.before = OnDisk(c), ![c].at = "temp"] /\ UNCHANGED tails
    /\ UNCHANGED <<disk, artifactDir, artifactRow, replaced, fileBudget>>

\* revalidateForWrite, then the temporary file, which may fail half-way.
WriteTemp(c) ==
    /\ FAt(c, "temp")
    /\ \/ /\ ~Dangling(fcall[c].path)
          /\ fcall' = [fcall EXCEPT ![c].temp = TRUE, ![c].at = "latest"]
          /\ UNCHANGED <<tails, fileBudget>>
       \/ Answer(c, "thrown") /\ IF Dangling(fcall[c].path) THEN UNCHANGED fileBudget ELSE IoFault
    /\ UNCHANGED <<disk, artifactDir, artifactRow, replaced>>

\* The path is resolved again.
Latest(c) == Holds(fcall[c].path)

ReadLatest(c) ==
    /\ FAt(c, "latest")
    /\ IF Dangling(fcall[c].path) THEN Answer(c, "thrown")
       ELSE IF Latest(c) # fcall[c].expected THEN Answer(c, "error")
       ELSE fcall' = [fcall EXCEPT ![c].meddled = FALSE, ![c].at = "rename"] /\ UNCHANGED tails
    /\ UNCHANGED <<disk, artifactDir, artifactRow, replaced, fileBudget>>

\* The rename replaces the path, a link too.
RenameTemp(c) ==
    LET p == fcall[c].path
    IN  /\ FAt(c, "rename")
        /\ replaced' = [replaced EXCEPT ![c] = @ \cup {Holds(p)}]
        /\ disk' = [disk EXCEPT ![p] = fcall[c].text]
        /\ fcall' = [fcall EXCEPT ![c].temp = FALSE, ![c].at = "refresh"]
        /\ UNCHANGED <<tails, artifactDir, artifactRow, fileBudget>>

\* The file as it is after the rename, or as a read finds it; a read that is
\* shown whole has no artifact.
ReadAfter(c) ==
    LET p == fcall[c].path
    IN  /\ FAt(c, "refresh")
        /\ IF Holds(p) = Missing THEN Answer(c, IF fcall[c].tool = "read" THEN "thrown" ELSE "error")
           ELSE \/ fcall' = [fcall EXCEPT ![c].change.after = Holds(p), ![c].at = "record"] /\ UNCHANGED tails
                \/ fcall[c].tool = "read" /\ Answer(c, "ok")
        /\ UNCHANGED <<disk, artifactDir, artifactRow, replaced, fileBudget>>

\* record: a failure removes the directory and is thrown.
RecordFails(c) ==
    /\ FAt(c, "record") \/ FAt(c, "metadata")
    /\ IoFault /\ Answer(c, "thrown")
    /\ artifactDir' = [artifactDir EXCEPT ![c] = "none"]
    /\ UNCHANGED <<disk, artifactRow, replaced>>

\* mkdir, then the files one by one.
RecordFiles(c) ==
    /\ FAt(c, "record")
    /\ artifactDir' = [artifactDir EXCEPT ![c] = "files"]
    /\ FGo(c, "metadata")
    /\ UNCHANGED <<disk, tails, artifactRow, replaced, fileBudget>>

\* metadata.json, and in the same turn the row; the call is answered.
RecordRow(c) ==
    /\ FAt(c, "metadata")
    /\ artifactDir' = [artifactDir EXCEPT ![c] = "whole"]
    /\ artifactRow' = [artifactRow EXCEPT ![c] = fcall[c].change]
    /\ Answer(c, "ok")
    /\ UNCHANGED <<disk, replaced, fileBudget>>
----------------------------------------------------------------------------
\* Somebody else writes or removes the file.
UserEdits(p, t) ==
    /\ fileBudget.edits < MaxUserEdits /\ fileBudget' = [fileBudget EXCEPT !.edits = @ + 1]
    /\ t # Holds(p)
    /\ disk' = [disk EXCEPT ![RealPath(p)] = t]
    /\ fcall' = [c \in FileCall |->
                    IF fcall[c].at = "done" THEN fcall[c] ELSE [fcall[c] EXCEPT !.meddled = TRUE]]
    /\ UNCHANGED <<tails, artifactDir, artifactRow, replaced>>

\* The Host dies; files and rows stay.
FilesHostDies ==
    /\ fileBudget.crashes < MaxFileCrashes /\ fileBudget' = [fileBudget EXCEPT !.crashes = @ + 1]
    /\ fcall' = [c \in FileCall |-> IF FAt(c, "new") THEN fcall[c] ELSE [fcall[c] EXCEPT !.at = "done"]]
    /\ tails' = [p \in Path |-> <<>>]
    /\ UNCHANGED <<disk, artifactDir, artifactRow, replaced>>

FilesNext ==
    \/ \E c \in FileCall :
          \/ \E tool \in {"read", "write", "patch"}, p \in Path, e \in Revision, t \in Revision :
                CallFileTool(c, tool, p, e, t)
          \/ ResolveFile(c) \/ EnqueueMutation(c) \/ ComputePatch(c) \/ ReadBefore(c)
          \/ WriteTemp(c) \/ ReadLatest(c) \/ RenameTemp(c) \/ ReadAfter(c)
          \/ RecordFails(c) \/ RecordFiles(c) \/ RecordRow(c)
    \/ \E p \in Path, t \in Revision : UserEdits(p, t)
    \/ FilesHostDies

FilesSpec == FilesInit /\ [][FilesNext]_fileVars
----------------------------------------------------------------------------
\* The call names the file itself.  (A rename through a link replaces the link,
\* and with it the key under which later calls on that path are queued.)
Direct(c) == fcall[c].path = Target \/ ~AliasIsLink

\* No update is lost: a mutation that was not meddled with replaces the text it
\* was asked to replace, however many other calls change the same file
\* (the queue of mutation-queue.ts and the second check of io.ts).
ReplacesExpectedText ==
    \A c \in FileCall : Direct(c) /\ ~fcall[c].meddled => replaced[c] \subseteq {fcall[c].expected}

\* A FILE_CHANGE artifact holds what the mutation replaced and what it wrote,
\* although both are read around the rename and not with it.
ArtifactTellsChange ==
    \A c \in FileCall :
        (artifactRow[c] # Missing /\ fcall[c].tool # "read" /\ Direct(c) /\ ~fcall[c].meddled) =>
            /\ replaced[c] = {artifactRow[c].before}
            /\ artifactRow[c].after = fcall[c].text

\* A row of workspace_artifacts has its whole directory, after a crash too.
ArtifactIsWhole ==
    \A c \in FileCall : artifactRow[c] # Missing => artifactDir[c] = "whole"

\* A call that is answered leaves no temporary file, and an answer with an error
\* code means that the file was not changed, unless somebody else removed it.
AnswerIsClean ==
    \A c \in FileCall :
        fcall[c].result # "none" =>
            /\ ~fcall[c].temp
            /\ fcall[c].result = "error" /\ ~fcall[c].meddled => replaced[c] = {}

\* Files and artifacts: a mutation replaces the text it expected, its artifact
\* tells that change and is whole, and what it answers matches what it left.
FilesAgree ==
    /\ FilesTypeOK
    /\ ReplacesExpectedText /\ ArtifactTellsChange /\ ArtifactIsWhole /\ AnswerIsClean
=============================================================================
