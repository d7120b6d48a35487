------------------------------- MODULE Memory -------------------------------
(***************************************************************************)
(* The durable memory of the workspaces (packages/memory service, packages/ *)
(* tools-memory, packages/state memory-repository): records, a unique index *)
(* on the hash of the active ones, and a full-text index that triggers keep. *)
(* Every operation is one transaction.                                     *)
(***************************************************************************)
EXTENDS Naturals, FiniteSets

CONSTANTS
    MemoryId, Workspace, Text,
    HashOf,      \* the hash of a text: the same for texts that differ in case only
    TermsOf,     \* the terms that the full-text index finds in a text
    Sensitive,   \* texts that look like a credential
    NoMemory,    \* no row
    MaxResults

LedgerMemoryRow == [ws : Workspace, text : Text, forgotten : BOOLEAN, revision : 1 .. 2]

ASSUME MemoryAssumption ==
    /\ NoMemory \notin LedgerMemoryRow
    /\ DOMAIN HashOf = Text /\ DOMAIN TermsOf = Text /\ Sensitive \subseteq Text
    /\ IsFiniteSet(MemoryId) /\ MaxResults \in Nat \ {0}

VARIABLES
    memories,  \* memory_records
    fts,       \* memory_records_fts: how many entries a record has
    memoryAnswer \* the answer of the last call

memoryVars == <<memories, fts, memoryAnswer>>

Kept(i) == memories[i] # NoMemory

MemoryInit ==
    /\ memories = [i \in MemoryId |-> NoMemory]
    /\ fts = [i \in MemoryId |-> 0]
    /\ memoryAnswer = [kind |-> "NONE"]

Failure(code) == [kind |-> "ERROR", code |-> code]

ActiveRows(w) == {i \in MemoryId : Kept(i) /\ memories[i].ws = w /\ ~memories[i].forgotten}

\* Mutant: the text is hashed as it is written.
ContentHashCased(t) == t

\* The text is normalised and put in lower case before it is hashed.
ContentHash(t) == HashOf[t]

FindActiveByHash(w, t) == {i \in ActiveRows(w) : ContentHash(memories[i].text) = ContentHash(t)}

\* INSERT and its trigger.
InsertMemory(i, w, t) ==
    /\ memories' = [memories EXCEPT ![i] = [ws |-> w, text |-> t, forgotten |-> FALSE, revision |-> 1]]
    /\ fts' = [fts EXCEPT ![i] = @ + 1]

Remember(w, t) ==
    LET existing == FindActiveByHash(w, t) IN
    IF t \in Sensitive
    THEN memoryAnswer' = Failure("MEMORY_SENSITIVE_CONTENT_REJECTED") /\ UNCHANGED <<memories, fts>>
    ELSE IF existing # {}
    THEN /\ memoryAnswer' = [kind |-> "REMEMBERED", id |-> CHOOSE i \in existing : TRUE, replayed |-> TRUE]
         /\ UNCHANGED <<memories, fts>>
    ELSE \E i \in MemoryId :
         /\ ~Kept(i)
         /\ InsertMemory(i, w, t)
         /\ memoryAnswer' = [kind |-> "REMEMBERED", id |-> i, replayed |-> FALSE]

\* The entries that match a term, joined with their records.
SearchActive(w, query) ==
    {i \in MemoryId :
        /\ fts[i] > 0 /\ TermsOf[memories[i].text] \cap query # {}
        /\ memories[i].ws = w /\ ~memories[i].forgotten}

\* One row more than asked for is read, which tells whether there are more.
Search(w, query) ==
    LET hits == SearchActive(w, query) IN
    \E rows \in SUBSET hits :
       /\ Cardinality(rows) <= MaxResults
       /\ rows = hits \/ Cardinality(rows) = MaxResults
       /\ memoryAnswer' = IF query = {} THEN Failure("MEMORY_QUERY_INVALID")
                    ELSE [kind |-> "FOUND", ws |-> w, query |-> query, results |-> rows,
                          truncated |-> Cardinality(hits) > MaxResults]
       /\ UNCHANGED <<memories, fts>>

GetMemory(w, i) ==
    /\ memoryAnswer' = IF i \in ActiveRows(w) THEN [kind |-> "RECORD", ws |-> w, id |-> i] ELSE Failure("MEMORY_NOT_FOUND")
    /\ UNCHANGED <<memories, fts>>

\* The trigger deletes the entry and inserts it again unless it is forgotten.
UpdateTrigger(i) == fts' = [fts EXCEPT ![i] = IF memories'[i].forgotten THEN 0 ELSE 1]

Forget(w, i) ==
    IF i \in ActiveRows(w)
    THEN /\ memories' = [memories EXCEPT ![i].forgotten = TRUE, ![i].revision = @ + 1]
         /\ UpdateTrigger(i)
         /\ memoryAnswer' = [kind |-> "FORGOTTEN", id |-> i]
    ELSE memoryAnswer' = Failure("MEMORY_NOT_FOUND") /\ UNCHANGED <<memories, fts>>

ListMemories(w) ==
    /\ memoryAnswer' = [kind |-> "LIST", ws |-> w, results |-> ActiveRows(w)]
    /\ UNCHANGED <<memories, fts>>

MemoryNext ==
    \E w \in Workspace :
       \/ \E t \in Text : Remember(w, t)
       \/ \E query \in SUBSET UNION {TermsOf[t] : t \in Text} : Search(w, query)
       \/ \E i \in MemoryId : GetMemory(w, i) \/ Forget(w, i)
       \/ ListMemories(w)

MemorySpec == MemoryInit /\ [][MemoryNext]_memoryVars

-----------------------------------------------------------------------------
(* Properties.                                                              *)

MemoryTypeOK ==
    /\ memories \in [MemoryId -> LedgerMemoryRow \cup {NoMemory}]
    /\ fts \in [MemoryId -> Nat]
    /\ memoryAnswer.kind \in {"NONE", "ERROR", "REMEMBERED", "FOUND", "RECORD", "FORGOTTEN", "LIST"}

\* A text is remembered once: no workspace has two active records whose texts
\* differ in case only, whatever was forgotten and remembered again.
RememberedOnce ==
    \A w \in Workspace : \A i, j \in ActiveRows(w) :
        HashOf[memories[i].text] = HashOf[memories[j].text] => i = j

\* The full-text index follows the records: one entry for an active record,
\* and what was forgotten cannot be found.
IndexAgrees == \A i \in MemoryId : fts[i] = IF Kept(i) /\ ~memories[i].forgotten THEN 1 ELSE 0

\* A search finds the active records of its own workspace that share a term
\* with it, and says so when it leaves one out.
SearchIsExact ==
    [][memoryAnswer' # memoryAnswer /\ memoryAnswer'.kind = "FOUND" =>
         LET matching == {i \in ActiveRows(memoryAnswer'.ws) : TermsOf[memories[i].text] \cap memoryAnswer'.query # {}} IN
         /\ memoryAnswer'.results \subseteq matching
         /\ memoryAnswer'.truncated <=> memoryAnswer'.results # matching]_memoryVars

\* A text is remembered once in its Workspace, and the index lists what is remembered.
MemoryAgrees == MemoryTypeOK /\ RememberedOnce /\ IndexAgrees
=============================================================================
