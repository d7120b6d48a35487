------------------------------- MODULE Skills -------------------------------
(***************************************************************************)
(* The skills of one Run (services/agent-host skill-run-service, packages/ *)
(* skills catalog and snapshot, packages/state skill-repository): the      *)
(* sources are searched in the order of their precedence, the skills that  *)
(* the user's text activates are copied to snapshot directories, each with *)
(* its row, and a context row closes the selection.  A Run that is resumed *)
(* reads its snapshots back.                                               *)
(*                                                                         *)
(* The user edits the skill files at any time and the Host may die between *)
(* any two steps.  A skill is two files: its manifest, of which 0 is none  *)
(* or one that does not validate, 1 activates the skill for the text of    *)
(* the Run and 2 does not; and its instructions.                           *)
(***************************************************************************)
EXTENDS Naturals, FiniteSets

CONSTANTS
    Skill,         \* skill ids, numbered in their order
    Source,        \* skill sources, numbered from the highest precedence
    EnabledSkills, \* enabledSkillIds, of which none means all
    NoSkill,       \* no directory, no row
    MaxSkillEdits, MaxResumes, MaxSkillCrashes

SkillDir == [manifest : 0 .. 2, text : 1 .. 2]
SkillCatalogEntry == [from : Source, manifest : 1 .. 2]
LedgerSkillSnapshotRow == [from : Source, manifest : 1 .. 2, files : SkillDir]

ASSUME SkillsAssumption ==
    /\ Skill \subseteq Nat /\ Source \subseteq Nat /\ EnabledSkills \subseteq Skill
    /\ {MaxSkillEdits, MaxResumes, MaxSkillCrashes} \subseteq Nat
    /\ NoSkill \notin SkillDir \cup LedgerSkillSnapshotRow /\ \A S \in SUBSET Skill : NoSkill # S

VARIABLES
    files,      \* the skill files of every source
    stage,      \* where resolveForRun awaits
    unread,     \* sources that discovery has still to read
    found,      \* the candidates: the manifest that was read in each source, or 0
    chosen,     \* selected skills that are not captured yet
    captured,   \* the snapshots of this resolution
    copy,       \* the temporary directory of the capture
    sources,    \* skill_sources: the candidates of the last discovery
    stored,     \* the snapshot directories
    snapshots,  \* skill_snapshots
    context,    \* skill_run_contexts
    noted,      \* skill.snapshot.captured was appended
    results,    \* what successful resolutions gave (history)
    skillBudget

resolution == <<stage, unread, found, chosen, captured, copy>>
durable == <<sources, stored, snapshots, context, noted>>
skillVars == <<files, resolution, durable, results, skillBudget>>

First(S) == CHOOSE k \in S : \A j \in S : k <= j
Captured(k) == snapshots[k] # NoSkill

Nothing == [k \in Skill |-> NoSkill]
NoneFound == [s \in Source |-> [k \in Skill |-> 0]]

SkillsInit ==
    /\ files \in [Source -> [Skill -> {[manifest |-> m, text |-> 1] : m \in 0 .. 1}]]
    /\ stage = "idle" /\ unread = {} /\ found = NoneFound /\ chosen = {} /\ captured = {} /\ copy = NoSkill
    /\ sources = NoneFound /\ stored = Nothing /\ snapshots = Nothing /\ context = NoSkill /\ noted = FALSE
    /\ results = {}
    /\ skillBudget = [edits |-> 0, resumes |-> 0, crashes |-> 0]

HasContext == context # NoSkill

\* resolveForRun: the Run has its skills, or they are discovered.
ResolveForRun ==
    /\ stage = "idle"
    /\ stage' = IF HasContext THEN "load" ELSE "discover"
    /\ unread' = IF HasContext THEN {} ELSE Source
    /\ found' = NoneFound /\ chosen' = {} /\ captured' = {} /\ copy' = NoSkill
    /\ UNCHANGED <<files, durable, results, skillBudget>>

Candidates(k) == {s \in Source : found[s][k] # 0}

\* The entry of the source of the highest precedence shadows the others.
Catalog(k) ==
    LET s == First(Candidates(k)) IN
    [from |-> s, manifest |-> found[s][k]]

\* discoverSkills reads one source; a broken skill is only a diagnostic.
DiscoverSource ==
    /\ stage = "discover" /\ unread # {}
    /\ LET s == First(unread) IN
       /\ found' = [found EXCEPT ![s] = [k \in Skill |-> files[s][k].manifest]]
       /\ unread' = unread \ {s}
    /\ UNCHANGED <<files, stage, chosen, captured, copy, durable, results, skillBudget>>

Enabled(k) == EnabledSkills = {} \/ k \in EnabledSkills

\* What was found is recorded, and the text of the Run selects.
SelectActivatedSkills ==
    /\ stage = "discover" /\ unread = {}
    /\ sources' = found
    /\ chosen' = {k \in Skill : Enabled(k) /\ Candidates(k) # {} /\ Catalog(k).manifest = 1}
    /\ stage' = "capture"
    /\ UNCHANGED <<files, unread, found, captured, copy, stored, snapshots, context, noted, results, skillBudget>>

\* load: every file has its recorded hash, the manifest its recorded content.
LoadsSnapshot(k) ==
    /\ Captured(k) /\ stored[k] = snapshots[k].files
    /\ snapshots[k].files.manifest = snapshots[k].manifest

\* Mutant: a snapshot that was there is loaded and not counted.
CaptureExistingUncounted(k) ==
    /\ Captured(k)
    /\ stage' = IF LoadsSnapshot(k) THEN "capture" ELSE "failed"
    /\ chosen' = chosen \ {k}
    /\ UNCHANGED <<captured, stored>>

\* capture of a skill that an earlier resolution of the Run captured.
CaptureExisting(k) ==
    /\ Captured(k)
    /\ stage' = IF LoadsSnapshot(k) THEN "capture" ELSE "failed"
    /\ chosen' = chosen \ {k}
    /\ captured' = captured \cup {k}
    /\ UNCHANGED stored

\* What a capture that did not finish left is removed, and the manifest must be
\* the one that discovery hashed.
CaptureNew(k) ==
    /\ ~Captured(k)
    /\ stored' = [stored EXCEPT ![k] = NoSkill]
    /\ stage' = IF files[Catalog(k).from][k].manifest = Catalog(k).manifest THEN "manifest" ELSE "failed"
    /\ UNCHANGED <<chosen, captured>>

Capture ==
    /\ stage = "capture" /\ chosen # {}
    /\ CaptureExisting(First(chosen)) \/ CaptureNew(First(chosen))
    /\ UNCHANGED <<files, unread, found, copy, sources, snapshots, context, noted, results, skillBudget>>

\* The manifest is read a second time to be copied, and then the instructions.
CopyManifest ==
    /\ stage = "manifest"
    /\ LET m == files[Catalog(First(chosen)).from][First(chosen)].manifest IN
       /\ copy' = [manifest |-> m, text |-> 1]
       /\ stage' = "text"
    /\ UNCHANGED <<files, unread, found, chosen, captured, durable, results, skillBudget>>

CopyInstructions ==
    /\ stage = "text"
    /\ copy' = [copy EXCEPT !.text = files[Catalog(First(chosen)).from][First(chosen)].text]
    /\ stage' = "rename"
    /\ UNCHANGED <<files, unread, found, chosen, captured, durable, results, skillBudget>>

RenameSnapshot ==
    /\ stage = "rename"
    /\ stored' = [stored EXCEPT ![First(chosen)] = copy]
    /\ stage' = "insert"
    /\ UNCHANGED <<files, unread, found, chosen, captured, copy, sources, snapshots, context, noted, results, skillBudget>>

InsertSnapshot ==
    /\ stage = "insert"
    /\ LET k == First(chosen) IN
       /\ snapshots' = [snapshots EXCEPT ![k] = [from |-> Catalog(k).from, manifest |-> Catalog(k).manifest, files |-> copy]]
       /\ captured' = captured \cup {k}
       /\ chosen' = chosen \ {k}
    /\ stage' = "capture"
    /\ UNCHANGED <<files, unread, found, copy, sources, stored, context, noted, results, skillBudget>>

\* A read fails while a skill is captured: the error handler clears both
\* directories, and the Run fails.
CaptureFails ==
    /\ stage \in {"manifest", "text"} /\ skillBudget.edits > 0
    /\ stored' = [stored EXCEPT ![First(chosen)] = NoSkill]
    /\ copy' = NoSkill
    /\ stage' = "failed"
    /\ UNCHANGED <<files, unread, found, chosen, captured, sources, snapshots, context, noted, results, skillBudget>>

\* The instructions that the model is given.
Given(S) == [k \in S |-> snapshots[k].files]

InsertRunContext ==
    /\ stage = "capture" /\ chosen = {}
    /\ context' = captured
    /\ stage' = "event"
    /\ UNCHANGED <<files, unread, found, chosen, captured, copy, sources, stored, snapshots, noted, results, skillBudget>>

AppendCaptured ==
    /\ stage = "event"
    /\ noted' = TRUE
    /\ results' = results \cup {Given(captured)}
    /\ stage' = "ready"
    /\ UNCHANGED <<files, unread, found, chosen, captured, copy, sources, stored, snapshots, context, skillBudget>>

\* loadRun: the snapshots of the Run must be those of its context.
LoadRun ==
    /\ stage = "load"
    /\ LET have == {k \in Skill : Captured(k)} IN
       IF have = context /\ \A k \in have : LoadsSnapshot(k)
       THEN stage' = "ready" /\ results' = results \cup {Given(have)}
       ELSE stage' = "failed" /\ UNCHANGED results
    /\ UNCHANGED <<files, unread, found, chosen, captured, copy, durable, skillBudget>>

\* The Run waits and is resumed.
ResumeRun ==
    /\ stage = "ready" /\ skillBudget.resumes < MaxResumes
    /\ stage' = "idle"
    /\ skillBudget' = [skillBudget EXCEPT !.resumes = @ + 1]
    /\ UNCHANGED <<files, unread, found, chosen, captured, copy, durable, results>>

\* The Host dies; the Run is prepared again.
HostDies ==
    /\ stage \notin {"idle", "ready", "failed"} /\ skillBudget.crashes < MaxSkillCrashes
    /\ stage' = "idle"
    /\ skillBudget' = [skillBudget EXCEPT !.crashes = @ + 1]
    /\ UNCHANGED <<files, unread, found, chosen, captured, copy, durable, results>>

EditSkill ==
    /\ stage # "failed" /\ skillBudget.edits < MaxSkillEdits
    /\ \E s \in Source, k \in Skill, d \in SkillDir : d # files[s][k] /\ files' = [files EXCEPT ![s][k] = d]
    /\ skillBudget' = [skillBudget EXCEPT !.edits = @ + 1]
    /\ UNCHANGED <<resolution, durable, results>>

SkillsNext ==
    \/ ResolveForRun \/ DiscoverSource \/ SelectActivatedSkills
    \/ Capture \/ CopyManifest \/ CopyInstructions \/ RenameSnapshot \/ InsertSnapshot \/ CaptureFails
    \/ InsertRunContext \/ AppendCaptured \/ LoadRun \/ ResumeRun \/ HostDies \/ EditSkill

SkillsSpec == SkillsInit /\ [][SkillsNext]_skillVars

-----------------------------------------------------------------------------
(* Properties.                                                              *)

SkillsTypeOK ==
    /\ files \in [Source -> [Skill -> SkillDir]]
    /\ stage \in {"idle", "discover", "capture", "manifest", "text", "rename", "insert", "event", "load", "ready", "failed"}
    /\ unread \subseteq Source
    /\ found \in [Source -> [Skill -> 0 .. 2]] /\ sources \in [Source -> [Skill -> 0 .. 2]]
    /\ \A k \in chosen : Catalog(k) \in SkillCatalogEntry
    /\ chosen \subseteq Skill /\ captured \subseteq Skill
    /\ copy \in SkillDir \cup {NoSkill}
    /\ stored \in [Skill -> SkillDir \cup {NoSkill}]
    /\ snapshots \in [Skill -> LedgerSkillSnapshotRow \cup {NoSkill}]
    /\ context = NoSkill \/ context \subseteq Skill
    /\ noted \in BOOLEAN
    /\ skillBudget \in [edits : 0 .. MaxSkillEdits, resumes : 0 .. MaxResumes, crashes : 0 .. MaxSkillCrashes]

\* A snapshot that has its row has its directory, with the files of the row: a
\* crash, an edit or a second capture never pulls the two apart.
SnapshotIntact == \A k \in Skill : Captured(k) => stored[k] = snapshots[k].files

\* The skill instructions of a Run never change: whenever it is resumed it is
\* given what its first resolution was given, or it fails.
InstructionsImmutable == Cardinality(results) <= 1

\* As long as nobody edits a skill file, a Run that has its context finds
\* exactly the snapshots of the context, all of which load, however often the
\* Host died while they were captured.
ResumableUnlessEdited ==
    HasContext /\ skillBudget.edits = 0 =>
       /\ context = {k \in Skill : Captured(k)}
       /\ \A k \in context : LoadsSnapshot(k)

\* A snapshot comes from the source of the highest precedence that has the
\* skill in good order.
CapturedFromBest ==
    skillBudget.edits = 0 =>
       \A k \in Skill : Captured(k) => \A s \in Source : s < snapshots[k].from => files[s][k].manifest = 0

\* The Skills of a Run are what its first capture found best, stay as they were,
\* and can be read again unless the user edited them.
SkillsAgree ==
    /\ SkillsTypeOK
    /\ SnapshotIntact /\ InstructionsImmutable /\ ResumableUnlessEdited /\ CapturedFromBest
=============================================================================
