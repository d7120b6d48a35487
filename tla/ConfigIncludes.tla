--------------------------- MODULE ConfigIncludes ---------------------------
(***************************************************************************)
(* resolveConfigSource of packages/config: the traversal of the include    *)
(* graph of agent.yaml, which reads every file once, refuses cycles,       *)
(* escapes and graphs over the limits, and merges the documents so that an *)
(* owner overrides what it includes.                                       *)
(*                                                                         *)
(* A document is its include list and the one key it may define; a merged  *)
(* value is the file it came from.  The recursion of visit is a stack of   *)
(* frames, one per file that is being read.                                *)
(***************************************************************************)
EXTENDS Naturals, Sequences, SequencesExt, FiniteSets

CONSTANTS
    File, Root, Nowhere,   \* the files, agent.yaml among them, and no file
    IncludeLists,          \* the include lists a file may have
    Definers,              \* the files that define the key
    MaxDepth, MaxFiles

ASSUME IncludesAssumption == Root \in File /\ Nowhere \notin File /\ {MaxDepth, MaxFiles} \subseteq Nat

VARIABLES
    includes,    \* the graph
    flawed,      \* a file outside the root, or one that does not parse
    frames,      \* stack: the file, its includes left to visit, the values merged so far
    entries,     \* revisionEntries: the files read
    sourceFiles, \* visited, in the order of completion
    verdict, merged

includeVars == <<includes, flawed, frames, entries, sourceFiles, verdict, merged>>

Flaw == [file : File \cup {Nowhere}, kind : {"escape", "invalid"}]
Frame == [file : File, todo : Seq(File), value : File \cup {Nowhere}]

IncludesTypeOK ==
    /\ includes \in [File -> Seq(File)] /\ flawed \in Flaw
    /\ frames \in Seq(Frame) /\ entries \in Seq(File) /\ sourceFiles \in Seq(File)
    /\ verdict \in {"none", "ok", "limit", "escape", "cycle", "invalid"}
    /\ merged \in File \cup {Nowhere}

IncludesInit ==
    /\ includes \in [File -> IncludeLists]
    /\ flawed \in {f \in Flaw : f.file # Nowhere \/ f.kind = "escape"}
    /\ frames = <<>> /\ entries = <<>> /\ sourceFiles = <<>>
    /\ verdict = "none" /\ merged = Nowhere

\* deepMergeConfig on one key.
DeepMerge(base, overlay) == IF overlay # Nowhere THEN overlay ELSE base
OwnValue(f) == IF f \in Definers THEN f ELSE Nowhere

OnStack(f) == \E i \in DOMAIN frames : frames[i].file = f

\* The checks of visit, in their order; "read" and "again" are no errors.
Examine(f) ==
    IF Len(frames) > MaxDepth \/ Len(entries) >= MaxFiles THEN "limit"
    ELSE IF flawed = [file |-> f, kind |-> "escape"] THEN "escape"
    ELSE IF OnStack(f) THEN "cycle"
    ELSE IF f \in Range(sourceFiles) THEN "again"
    ELSE IF flawed.file = f THEN "invalid" ELSE "read"

\* The frame of the caller, which has taken f from its list.
Called == IF frames = <<>> THEN <<>> ELSE [frames EXCEPT ![Len(frames)].todo = Tail(@)]

Visit(f) ==
    /\ CASE Examine(f) = "read" ->
              /\ frames' = Append(Called, [file |-> f, todo |-> includes[f], value |-> Nowhere])
              /\ entries' = Append(entries, f)
              /\ UNCHANGED verdict
         [] Examine(f) = "again" -> frames' = Called /\ UNCHANGED <<entries, verdict>>
         [] OTHER -> verdict' = Examine(f) /\ frames' = <<>> /\ UNCHANGED entries
    /\ UNCHANGED <<includes, flawed, sourceFiles, merged>>

ResolveConfigSource == verdict = "none" /\ frames = <<>> /\ entries = <<>> /\ Visit(Root)
VisitInclude == frames # <<>> /\ Last(frames).todo # <<>> /\ Visit(Head(Last(frames).todo))

FileValue(top) == DeepMerge(top.value, OwnValue(top.file))

\* The end of visit: the value goes to the caller, or is the result.
CompleteFile ==
    /\ frames # <<>> /\ Last(frames).todo = <<>>
    /\ LET value == FileValue(Last(frames))
           rest == Front(frames) IN
       /\ frames' = IF rest = <<>> THEN <<>> ELSE [rest EXCEPT ![Len(rest)].value = DeepMerge(@, value)]
       /\ merged' = IF rest = <<>> THEN value ELSE merged
       /\ verdict' = IF rest = <<>> THEN "ok" ELSE verdict
    /\ sourceFiles' = Append(sourceFiles, Last(frames).file)
    /\ UNCHANGED <<includes, flawed, entries>>

IncludesNext == ResolveConfigSource \/ VisitInclude \/ CompleteFile
----------------------------------------------------------------------------
\* The reference: the files that a file reaches through includes.
Edge(f) == Range(includes[f])
ReachedFrom(f) ==
    LET reach[n \in 0 .. Cardinality(File)] ==
            IF n = 0 THEN Edge(f) ELSE reach[n - 1] \cup UNION {Edge(g) : g \in reach[n - 1]}
    IN reach[Cardinality(File)]
Graph == {Root} \cup ReachedFrom(Root)

\* The verdict is the one the graph deserves: accepted graphs have no cycle and
\* no flawed file and were read completely, each file once; "cycle" names a
\* real cycle, and a graph under the limits is not refused for them.
VerdictIsExact ==
    /\ verdict = "ok" => /\ \A f \in Graph : f \notin ReachedFrom(f) /\ f # flawed.file
                         /\ Range(entries) = Graph /\ Len(entries) = Cardinality(Graph)
                         /\ Range(sourceFiles) = Graph
    /\ verdict = "cycle" => \E f \in Graph : f \in ReachedFrom(f)
    /\ verdict = "limit" => Cardinality(Graph) >= MaxFiles

\* Where two files define the key, the owner's value beats the one of a file it
\* includes, directly or not, also when the file is included again elsewhere.
OwnerOverrides == verdict = "ok" /\ merged # Nowhere => \A f \in Graph \cap Definers : merged \notin ReachedFrom(f)

\* A tree of includes is accepted exactly when it is sound, and read as its
\* files override one another.
IncludesAgree == IncludesTypeOK /\ VerdictIsExact /\ OwnerOverrides
=============================================================================
