------------------------------ MODULE Settings ------------------------------
(***************************************************************************)
(* The configuration of a profile (packages/config io, includes, secrets,  *)
(* os-secrets) and the two commands that rewrite it (apps/agent-cli        *)
(* operational: setup; skill-operations: skill enable).  Processes load    *)
(* agent.yaml, fall back to the last known good snapshot, and replace the  *)
(* source under the mutation lock with an optimistic revision check, while *)
(* the user edits the files and a process may die between any two steps.   *)
(*                                                                         *)
(* A document is its body and whether it enables the skill.  The body      *)
(* tells how the document is read: it includes the second file, includes   *)
(* itself, does not parse, or does not validate.  One reading of the       *)
(* source and its include is one step (ConfigIncludes has the traversal).  *)
(***************************************************************************)
EXTENDS Naturals, Sequences, FiniteSets

CONSTANTS
    Setup, SkillCommand, Loader,  \* processes that run setup --force, skill enable, load
    Missing,               \* no file, and the null revision
    FirstDocs,             \* sources the runs start from
    EditDocs,              \* what the user may save as agent.yaml
    MaxEdits, MaxCrashes, MaxFaults

Writer == Setup \cup SkillCommand
Process == Writer \cup Loader

ASSUME SettingsAssumption ==
    /\ Setup \cap (SkillCommand \cup Loader) = {} /\ SkillCommand \cap Loader = {}
    /\ MaxEdits \in Nat /\ MaxCrashes \in Nat /\ MaxFaults \in Nat

VARIABLES
    source, incl,       \* agent.yaml and the file it may include
    materialized, lkg,  \* materialized.json and last-known-good.json
    journal,            \* the records of the mutation journal
    mlock,              \* config.mutation.lock
    vault,              \* the OS secret that setup stores
    pr,                 \* a process: see ProcessRecord
    was,                \* configurations the source has stood for (history)
    commits,            \* replacements of the source (history)
    budget              \* edits, crashes and faults so far

settingsVars == <<source, incl, materialized, lkg, journal, mlock, vault, pr, was, commits, budget>>

Body == {"plain", "including", "circular", "invalid", "broken", "setup"}
Doc == [body : Body, skill : BOOLEAN]
IncDoc == {"good", "better", "broken"}
SetupDoc == [body |-> "setup", skill |-> FALSE]

\* resolveConfigSource: "ok", or the class of the error it throws.
ResolveOutcome(d, i) ==
    CASE d.body = "circular" -> "include"
      [] d.body = "broken" \/ (d.body = "including" /\ i = "broken") -> "parse"
      [] OTHER -> "ok"

\* validateAndMaterializeConfig after resolveConfigSource.
Outcome(d, i) == IF ResolveOutcome(d, i) = "ok" /\ d.body = "invalid" THEN "validation" ELSE ResolveOutcome(d, i)

\* The included values are merged under those of the document.
MaterializedConfig(d, i) == <<d, IF d.body = "including" THEN i ELSE "none">>
Validates(d, i) == Outcome(d, i) = "ok"

\* The hash of the graph of sources, or of the root alone.
GraphRevision(d, i) == <<"graph", d, IF d.body = "including" THEN i ELSE "none">>
RawRevision(d) == <<"raw", d, "none">>

CurrentSourceRevision(d, i) ==
    IF d = Missing THEN Missing
    ELSE IF ResolveOutcome(d, i) = "ok" THEN GraphRevision(d, i) ELSE RawRevision(d)

Revision == {Missing} \cup ({"graph", "raw"} \X Doc \X (IncDoc \cup {"none"}))
ConfigMutationJournalRecord == [before : Revision, after : Revision]
MutationLockPayload == [owner : Writer, full : BOOLEAN]
Snapshot == Doc \X (IncDoc \cup {"none"})
OsSecret == {"none", "old", "new"}
ProcessRecord == [
    pc : {"start", "load", "mat", "lkg", "secret", "get", "set", "source", "create", "write", "judge", "reclaim", "check",
          "prior", "preflight", "commit", "verify", "vmat", "vlkg", "restore", "journal", "release", "inspect",
          "rollback", "done", "dead"},
    rev : Revision,                 \* expectedRevision, from the load
    doc : Doc \cup {Missing},       \* the document to write
    snap : Snapshot \cup {Missing},     \* the configuration being persisted
    prior : Doc \cup {Missing}, act : Revision, after : Revision,
    tries : 0 .. 2, ok : BOOLEAN,
    old : OsSecret,                 \* priorValue of the secret
    edited : BOOLEAN,               \* the user saved a file since the revision check (history)
    code : {"none", "0", "20", "32", "error"}]

SettingsTypeOK ==
    /\ source \in Doc \cup {Missing} /\ incl \in IncDoc
    /\ materialized \in Snapshot \cup {Missing} /\ lkg \in Snapshot \cup {Missing}
    /\ journal \in Seq(ConfigMutationJournalRecord)
    /\ mlock \in MutationLockPayload \cup {Missing}
    /\ vault \in OsSecret /\ pr \in [Process -> ProcessRecord]
    /\ budget \in [edits : 0 .. MaxEdits, crashes : 0 .. MaxCrashes, faults : 0 .. MaxFaults]

SettingsInit ==
    /\ source \in FirstDocs /\ incl = "good"
    /\ lkg \in {Missing} \cup {MaterializedConfig(d, incl) : d \in {e \in FirstDocs \ {Missing} : Validates(e, incl)}}
    /\ materialized = lkg
    /\ journal = <<>> /\ mlock = Missing /\ vault \in {"none", "old"}
    /\ pr = [p \in Process |-> [pc |-> "start", rev |-> Missing, doc |-> Missing, snap |-> Missing, prior |-> Missing,
                                act |-> Missing, after |-> Missing, tries |-> 0, ok |-> FALSE, old |-> "none",
                                edited |-> FALSE, code |-> "none"]]
    /\ was = ({lkg} \ {Missing}) \cup {MaterializedConfig(d, incl) : d \in {e \in {source} \ {Missing} : Validates(e, incl)}}
    /\ commits = {}
    /\ budget = [edits |-> 0, crashes |-> 0, faults |-> 0]

AtStep(p, pc) == pr[p].pc = pc
ToStep(p, pc) == pr' = [pr EXCEPT ![p].pc = pc]
Exit(p, code) == pr' = [pr EXCEPT ![p].pc = "done", ![p].code = code]

\* One fault: an I/O error, or a command of the secret store that fails.
Fault == budget.faults < MaxFaults /\ budget' = [budget EXCEPT !.faults = @ + 1]

\* The source is replaced: the histories follow.
Replace(d) ==
    /\ source' = d
    /\ was' = was \cup (IF d # Missing /\ Validates(d, incl) THEN {MaterializedConfig(d, incl)} ELSE {})
----------------------------------------------------------------------------
\* loadOpenRillConfig.

\* What a load that keeps snapshots decides after reading the source.
LoadOpenRillConfig(p, next) ==
    LET kind == Outcome(source, incl) IN
    \/ /\ source = Missing                        \* DEFAULTS
       /\ pr' = [pr EXCEPT ![p].pc = next, ![p].rev = Missing]
    \/ /\ source # Missing /\ kind = "ok"          \* SOURCE
       /\ pr' = [pr EXCEPT ![p].pc = "mat", ![p].snap = MaterializedConfig(source, incl), ![p].rev = GraphRevision(source, incl)]
    \/ /\ source # Missing /\ kind \in {"parse", "validation"} /\ lkg # Missing   \* LAST_KNOWN_GOOD
       /\ pr' = [pr EXCEPT ![p].pc = next, ![p].rev = RawRevision(source)]
    \/ /\ source # Missing
       /\ kind = "include" \/ (kind # "ok" /\ lkg = Missing)
       /\ Exit(p, "error")

\* Where a command goes on after its load.
AfterLoad(p) == IF p \in Setup THEN "secret" ELSE IF p \in SkillCommand THEN "create" ELSE "done"

\* skill enable reads and parses the source before it loads the revision.
ReadSource(p) ==
    /\ p \in SkillCommand /\ AtStep(p, "start")
    /\ IF source = Missing \/ source.body = "broken" \/ source.skill
       THEN Exit(p, IF source # Missing /\ source.body # "broken" THEN "0" ELSE "error")
       ELSE pr' = [pr EXCEPT ![p].pc = "load", ![p].doc = [source EXCEPT !.skill = TRUE]]
    /\ UNCHANGED <<source, incl, materialized, lkg, journal, mlock, vault, was, commits, budget>>

Load(p) ==
    /\ AtStep(p, IF p \in SkillCommand THEN "load" ELSE "start")
    /\ LoadOpenRillConfig(p, AfterLoad(p))
    /\ UNCHANGED <<source, incl, materialized, lkg, journal, mlock, vault, was, commits, budget>>

\* persistValidSnapshot: two files, one after the other.
PersistMaterialized(p) ==
    /\ AtStep(p, "mat")
    /\ materialized' = pr[p].snap
    /\ ToStep(p, "lkg")
    /\ UNCHANGED <<source, incl, lkg, journal, mlock, vault, was, commits, budget>>

PersistLastKnownGood(p) ==
    /\ AtStep(p, "lkg")
    /\ lkg' = pr[p].snap
    /\ ToStep(p, AfterLoad(p))
    /\ UNCHANGED <<source, incl, materialized, journal, mlock, vault, was, commits, budget>>
----------------------------------------------------------------------------
\* runSetupCommand: the secret comes before the configuration.

\* A time-out of the command makes a stored secret unreadable for now.
InspectSecret(p) ==
    /\ AtStep(p, "secret")
    /\ \/ vault = "none" /\ ToStep(p, "set") /\ UNCHANGED budget
       \/ vault # "none" /\ ToStep(p, "get") /\ UNCHANGED budget
       \/ vault # "none" /\ Fault /\ Exit(p, "32")
    /\ UNCHANGED <<source, incl, materialized, lkg, journal, mlock, vault, was, commits>>

\* A failure of get leaves the command as an exception.
GetSecret(p) ==
    /\ AtStep(p, "get")
    /\ \/ pr' = [pr EXCEPT ![p].pc = "set", ![p].old = vault] /\ UNCHANGED budget
       \/ Fault /\ Exit(p, "error")
    /\ UNCHANGED <<source, incl, materialized, lkg, journal, mlock, vault, was, commits>>

\* set may fail before or after the file of the secret was moved in place.
SetSecret(p) ==
    /\ AtStep(p, "set")
    /\ \/ vault' = "new" /\ pr' = [pr EXCEPT ![p].pc = "create", ![p].doc = SetupDoc] /\ UNCHANGED budget
       \/ vault' \in {vault, "new"} /\ Fault /\ Exit(p, "32")
    /\ UNCHANGED <<source, incl, materialized, lkg, journal, mlock, was, commits>>
----------------------------------------------------------------------------
\* writeOpenRillConfig.

\* How a command goes on when the write throws before or after the lock is held.
Throw(p) == IF p \in Setup THEN ToStep(p, "rollback") ELSE Exit(p, "error")

CreateMutationLock(p) ==
    /\ AtStep(p, "create")
    /\ IF mlock = Missing
       THEN mlock' = [owner |-> p, full |-> FALSE] /\ ToStep(p, "write")
       ELSE UNCHANGED mlock /\ ToStep(p, "judge")
    /\ UNCHANGED <<source, incl, materialized, lkg, journal, vault, was, commits, budget>>

WriteMutationLock(p) ==
    /\ AtStep(p, "write")
    /\ mlock' = IF mlock # Missing /\ mlock.owner = p THEN [mlock EXCEPT !.full = TRUE] ELSE mlock
    /\ ToStep(p, "check")
    /\ UNCHANGED <<source, incl, materialized, lkg, journal, vault, was, commits, budget>>

\* Mutant: a lock that was created and is not yet written is taken for stale.
StaleLockUnwritten == mlock # Missing /\ (~mlock.full \/ AtStep(mlock.owner, "dead"))

\* parseMutationLock and isPidAlive.
StaleLock == mlock # Missing /\ mlock.full /\ AtStep(mlock.owner, "dead")

JudgeMutationLock(p) ==
    /\ AtStep(p, "judge")
    /\ IF StaleLock THEN ToStep(p, "reclaim") ELSE Throw(p)
    /\ UNCHANGED <<source, incl, materialized, lkg, journal, mlock, vault, was, commits, budget>>

\* rm by path: whatever lock is there by now.
ReclaimMutationLock(p) ==
    /\ AtStep(p, "reclaim")
    /\ mlock' = Missing
    /\ IF pr[p].tries = 0 THEN pr' = [pr EXCEPT ![p].pc = "create", ![p].tries = 1] ELSE Throw(p)
    /\ UNCHANGED <<source, incl, materialized, lkg, journal, vault, was, commits, budget>>

RevisionExpected(p, rev) == rev = pr[p].rev

\* An include error is thrown; any other mismatch is a revision conflict.
CheckRevision(p) ==
    /\ AtStep(p, "check")
    /\ LET rev == CurrentSourceRevision(source, incl) IN
       IF (source = Missing \/ ResolveOutcome(source, incl) # "include") /\ RevisionExpected(p, rev)
       THEN pr' = [pr EXCEPT ![p].pc = "prior", ![p].act = rev, ![p].edited = FALSE]
       ELSE ToStep(p, "release")
    /\ UNCHANGED <<source, incl, materialized, lkg, journal, mlock, vault, was, commits, budget>>

ReadPrior(p) ==
    /\ AtStep(p, "prior")
    /\ pr' = [pr EXCEPT ![p].pc = "preflight", ![p].prior = source]
    /\ UNCHANGED <<source, incl, materialized, lkg, journal, mlock, vault, was, commits, budget>>

\* The candidate is resolved and validated, and the configuration in force is loaded.
Preflight(p) ==
    /\ AtStep(p, "preflight")
    /\ LET inForce == \/ pr[p].prior = Missing \/ source = Missing
                      \/ Validates(source, incl)
                      \/ Outcome(source, incl) # "include" /\ lkg # Missing
       IN ToStep(p, IF Validates(pr[p].doc, incl) /\ inForce THEN "commit" ELSE "release")
    /\ UNCHANGED <<source, incl, materialized, lkg, journal, mlock, vault, was, commits, budget>>

CommitSource(p) ==
    /\ AtStep(p, "commit")
    /\ \/ /\ Replace(pr[p].doc)
          /\ commits' = commits \cup {[by |-> p, expected |-> pr[p].rev, over |-> CurrentSourceRevision(source, incl),
                                       edited |-> pr[p].edited]}
          /\ ToStep(p, "verify") /\ UNCHANGED budget
       \/ Fault /\ ToStep(p, "release") /\ UNCHANGED <<source, was, commits>>
    /\ UNCHANGED <<incl, materialized, lkg, journal, mlock, vault>>

\* The post-commit load, without the fall back to the last known good.
VerifyCommit(p) ==
    /\ AtStep(p, "verify")
    /\ pr' = [pr EXCEPT ![p].pc = IF source = Missing THEN "journal"
                                  ELSE IF Validates(source, incl) THEN "vmat" ELSE "restore",
                        ![p].snap = IF source # Missing THEN MaterializedConfig(source, incl) ELSE @,
                        ![p].after = CurrentSourceRevision(source, incl)]
    /\ UNCHANGED <<source, incl, materialized, lkg, journal, mlock, vault, was, commits, budget>>

PromoteMaterialized(p) ==
    /\ AtStep(p, "vmat")
    /\ \/ materialized' = pr[p].snap /\ ToStep(p, "vlkg") /\ UNCHANGED budget
       \/ Fault /\ ToStep(p, "restore") /\ UNCHANGED materialized
    /\ UNCHANGED <<source, incl, lkg, journal, mlock, vault, was, commits>>

PromoteLastKnownGood(p) ==
    /\ AtStep(p, "vlkg")
    /\ \/ lkg' = pr[p].snap /\ ToStep(p, "journal") /\ UNCHANGED budget
       \/ Fault /\ ToStep(p, "restore") /\ UNCHANGED lkg
    /\ UNCHANGED <<source, incl, materialized, journal, mlock, vault, was, commits>>

RestorePrior(p) ==
    /\ AtStep(p, "restore")
    /\ Replace(pr[p].prior)
    /\ pr' = [pr EXCEPT ![p].pc = "release", ![p].after = Missing]
    /\ UNCHANGED <<incl, materialized, lkg, journal, mlock, vault, commits, budget>>

\* The name of the record needs the new revision: without a source it throws.
AppendMutationJournal(p) ==
    /\ AtStep(p, "journal")
    /\ \/ /\ pr[p].after # Missing
          /\ journal' = Append(journal, [before |-> pr[p].act, after |-> pr[p].after])
          /\ pr' = [pr EXCEPT ![p].pc = "release", ![p].ok = TRUE] /\ UNCHANGED budget
       \/ /\ IF pr[p].after = Missing THEN UNCHANGED budget ELSE Fault
          /\ ToStep(p, "release") /\ UNCHANGED journal
    /\ UNCHANGED <<source, incl, materialized, lkg, mlock, vault, was, commits>>

ReleaseMutationLock(p) ==
    /\ AtStep(p, "release")
    /\ mlock' = IF mlock # Missing /\ mlock.full /\ mlock.owner = p THEN Missing ELSE mlock
    /\ IF ~pr[p].ok THEN Throw(p) ELSE IF p \in Setup THEN ToStep(p, "inspect") ELSE Exit(p, "0")
    /\ UNCHANGED <<source, incl, materialized, lkg, journal, vault, was, commits, budget>>

\* setup verifies its secret at the end; a failure rolls the secret back.
VerifySecret(p) ==
    /\ AtStep(p, "inspect")
    /\ \/ vault # "none" /\ Exit(p, "0") /\ UNCHANGED budget
       \/ (IF vault = "none" THEN UNCHANGED budget ELSE Fault) /\ ToStep(p, "rollback")
    /\ UNCHANGED <<source, incl, materialized, lkg, journal, mlock, vault, was, commits>>

SecretBefore(p) == pr[p].old

\* The rollback that fails is only a warning.
RollbackSecret(p) ==
    /\ AtStep(p, "rollback")
    /\ \/ vault' = SecretBefore(p) /\ Exit(p, "20") /\ UNCHANGED budget
       \/ Fault /\ UNCHANGED vault /\ Exit(p, "20")
    /\ UNCHANGED <<source, incl, materialized, lkg, journal, mlock, was, commits>>
----------------------------------------------------------------------------
\* The user saves a file, or a process dies.
Edited == [p \in Process |-> [pr[p] EXCEPT !.edited = @ \/ pr[p].pc \in {"prior", "preflight", "commit"}]]

EditSource ==
    /\ budget.edits < MaxEdits
    /\ \E d \in EditDocs \ {source} : Replace(d)
    /\ pr' = Edited
    /\ budget' = [budget EXCEPT !.edits = @ + 1]
    /\ UNCHANGED <<incl, materialized, lkg, journal, mlock, vault, commits>>

EditIncluded ==
    /\ budget.edits < MaxEdits
    /\ \E i \in IncDoc \ {incl} :
         /\ incl' = i
         /\ was' = was \cup (IF source # Missing /\ Validates(source, i) THEN {MaterializedConfig(source, i)} ELSE {})
    /\ pr' = Edited
    /\ budget' = [budget EXCEPT !.edits = @ + 1]
    /\ UNCHANGED <<source, materialized, lkg, journal, mlock, vault, commits>>

ProcessDies(p) ==
    /\ p \in Writer /\ ~AtStep(p, "start") /\ pr[p].pc \notin {"done", "dead"}
    /\ budget.crashes < MaxCrashes
    /\ ToStep(p, "dead")
    /\ budget' = [budget EXCEPT !.crashes = @ + 1]
    /\ UNCHANGED <<source, incl, materialized, lkg, journal, mlock, vault, was, commits>>

WriteStep(p) ==
    \/ CreateMutationLock(p) \/ WriteMutationLock(p) \/ JudgeMutationLock(p) \/ ReclaimMutationLock(p)
    \/ CheckRevision(p) \/ ReadPrior(p) \/ Preflight(p) \/ CommitSource(p) \/ VerifyCommit(p)
    \/ PromoteMaterialized(p) \/ PromoteLastKnownGood(p) \/ RestorePrior(p) \/ AppendMutationJournal(p)
    \/ ReleaseMutationLock(p)

SettingsNext ==
    \/ \E p \in Process :
         \/ ReadSource(p) \/ Load(p) \/ PersistMaterialized(p) \/ PersistLastKnownGood(p)
         \/ InspectSecret(p) \/ GetSecret(p) \/ SetSecret(p) \/ VerifySecret(p) \/ RollbackSecret(p)
         \/ WriteStep(p) \/ ProcessDies(p)
    \/ EditSource \/ EditIncluded
----------------------------------------------------------------------------
\* A command that replaces agent.yaml replaces the revision it loaded, unless
\* the user saved a file after the check: no command overwrites what another
\* command committed in the meantime.
ReplacesExpected == \A c \in commits : c.edited \/ c.over = c.expected

\* The last known good snapshot is a configuration that the source once stood
\* for, validated: neither a refused candidate nor an invalid edit is ever
\* recovered.
LastKnownGoodWasSource == lkg # Missing => lkg \in was

\* As long as no user edits, no process dies and no record is lost to an I/O
\* error, the journal accounts for the source: every record starts where the
\* one before it ended, and what a failed verification took back left no trace.
Uncommitted(p) == pr[p].pc \in {"verify", "vmat", "vlkg", "restore", "journal"}
RecordLost(p) == ~pr[p].ok /\ pr[p].after # Missing

JournalAccounts ==
    (budget.edits = 0 /\ budget.crashes = 0 /\ \A p \in Writer : ~Uncommitted(p) /\ ~RecordLost(p)) =>
        /\ \A c \in commits : journal = <<>> => c.over = CurrentSourceRevision(source, incl)
        /\ journal # <<>> => journal[Len(journal)].after = CurrentSourceRevision(source, incl)
        /\ \A i \in 1 .. Len(journal) - 1 : journal[i + 1].before = journal[i].after

\* A setup that succeeds has its secret stored; one that fails and does not
\* warn has put the earlier secret back.
SetupSecretAgrees ==
    \A p \in Setup : AtStep(p, "done") /\ Cardinality(Setup) = 1 =>
        /\ pr[p].code = "0" => vault = "new"
        /\ pr[p].code = "20" /\ budget.faults = 0 => vault = pr[p].old

\* agent.yaml, its last known good copy, the journal and the secret store, with
\* commands and the user at work at once.
SettingsAgree ==
    /\ SettingsTypeOK
    /\ ReplacesExpected /\ LastKnownGoodWasSource /\ JournalAccounts /\ SetupSecretAgrees
=============================================================================
