---------------------------- MODULE FileSearch ----------------------------
(***************************************************************************)
(* workspace.search: it visits the visible text files of a tree breadth    *)
(* first until a limit is met, one file after the other.  What it returns  *)
(* has to be everything, or has to say that it is not.  Nobody writes      *)
(* meanwhile.                                                              *)
(*                                                                         *)
(* A file is its size, the number of its matching lines and whether it is  *)
(* text.                                                                   *)
(***************************************************************************)
EXTENDS Naturals, Sequences, FiniteSets, SequencesExt

CONSTANTS
    Folder, RootFolder,
    Trees,     \* the trees to search: folder -> its entries by name
    MaxFileBytes, MaxSearchFiles, MaxSearchBytes, MaxSearchMatches

ASSUME SearchAssumption ==
    /\ RootFolder \in Folder
    /\ {MaxSearchFiles, MaxSearchBytes, MaxSearchMatches} \subseteq Nat \ {0}
    /\ MaxFileBytes \in Nat

VARIABLES
    tree,
    folders,   \* the queue of folders
    entries,   \* what is left of the folder in hand
    scanned,   \* scannedFiles and scannedBytes
    matches,
    answered   \* the result, and whether it says truncated

searchVars == <<tree, folders, entries, scanned, matches, answered>>

Entry == [kind : {"folder", "file", "other"}, folder : Folder, visible : BOOLEAN,
          size : Nat, hits : Nat, text : BOOLEAN]

SearchTypeOK ==
    /\ folders \in Seq(Folder) /\ entries \in Seq(Entry)
    /\ scanned \in [files : 0 .. MaxSearchFiles, bytes : 0 .. MaxSearchBytes]
    /\ matches \in 0 .. MaxSearchMatches /\ answered \in {"no", "truncated", "whole"}

SearchInit ==
    /\ tree \in Trees /\ folders = <<RootFolder>> /\ entries = <<>>
    /\ scanned = [files |-> 0, bytes |-> 0] /\ matches = 0 /\ answered = "no"

\* The next folder of the queue, when the last one is done.
SearchFolder ==
    /\ answered = "no" /\ entries = <<>> /\ folders # <<>>
    /\ entries' = tree[Head(folders)] /\ folders' = Tail(folders)
    /\ UNCHANGED <<tree, scanned, matches, answered>>

\* An entry that is not read: denied by policy, a folder to visit later, or
\* neither folder nor file.
SkipEntry ==
    /\ answered = "no" /\ entries # <<>>
    /\ \/ ~Head(entries).visible /\ UNCHANGED folders
       \/ /\ Head(entries).visible /\ Head(entries).kind = "folder"
          /\ folders' = Append(folders, Head(entries).folder)
       \/ Head(entries).visible /\ Head(entries).kind = "other" /\ UNCHANGED folders
    /\ entries' = Tail(entries)
    /\ UNCHANGED <<tree, scanned, matches, answered>>

\* The limits that are asked for before a file is read.
Stops(e) ==
    \/ scanned.files >= MaxSearchFiles \/ scanned.bytes >= MaxSearchBytes \/ matches >= MaxSearchMatches
    \/ e.size > MaxFileBytes \/ scanned.bytes + e.size > MaxSearchBytes

\* Bytes that are not text give no match.
Found(e) == IF e.text THEN matches + e.hits ELSE matches

\* The limit of matches is met within the file.
Full(e) == e.text /\ e.hits > 0 /\ Found(e) >= MaxSearchMatches

SearchFile ==
    LET e == Head(entries)
    IN  /\ answered = "no" /\ entries # <<>> /\ e.visible /\ e.kind = "file"
        /\ IF Stops(e)
           THEN answered' = "truncated" /\ UNCHANGED <<entries, scanned, matches>>
           ELSE /\ scanned' = [files |-> scanned.files + 1, bytes |-> scanned.bytes + e.size]
                /\ matches' = Min({Found(e), MaxSearchMatches})
                /\ answered' = IF Full(e) THEN "truncated" ELSE "no"
                /\ entries' = Tail(entries)
        /\ UNCHANGED <<tree, folders>>

SearchEnds ==
    /\ answered = "no" /\ entries = <<>> /\ folders = <<>>
    /\ answered' = "whole"
    /\ UNCHANGED <<tree, folders, entries, scanned, matches>>

SearchNext == SearchFolder \/ SkipEntry \/ SearchFile \/ SearchEnds
----------------------------------------------------------------------------
\* Reference: the files a reader may see, in the folders it may see.
Opens(d) == {e.folder : e \in {e \in Range(tree[d]) : e.visible /\ e.kind = "folder"}}
Reached == {RootFolder} \cup Opens(RootFolder) \cup UNION {Opens(d) : d \in Opens(RootFolder)}
Seen == {<<d, i>> \in Reached \X (1 .. Max({Len(tree[d]) : d \in Folder})) :
            i \in DOMAIN tree[d] /\ tree[d][i].visible /\ tree[d][i].kind = "file"}
Hits(di) == IF tree[di[1]][di[2]].text THEN tree[di[1]][di[2]].hits ELSE 0
Size(di) == tree[di[1]][di[2]].size

\* A search that does not say truncated has found every matching line of every
\* visible text file, and one that does has met one of its limits: files, bytes,
\* matches or the size of a file.
SearchIsWhole ==
    /\ answered = "whole" => matches = MapThenSumSet(Hits, Seen)
    /\ answered = "truncated" =>
           \/ Cardinality(Seen) > MaxSearchFiles \/ MapThenSumSet(Size, Seen) >= MaxSearchBytes
           \/ MapThenSumSet(Hits, Seen) >= MaxSearchMatches \/ \E di \in Seen : Size(di) > MaxFileBytes
=============================================================================
