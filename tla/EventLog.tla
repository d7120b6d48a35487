------------------------------ MODULE EventLog ------------------------------
(***************************************************************************)
(* The append-only event log of one Run (run_events): appendEvent of       *)
(* ConversationService, called by several writers (the kernel, the         *)
(* approval hooks, delegation, recovery) that repeat calls after a crash   *)
(* and tell their events apart by idempotency keys.                        *)
(***************************************************************************)
EXTENDS Checkpoint

CONSTANTS
    EventType,    \* event types
    Author,       \* attempt ids, the attempt an event is written for
    Payload,      \* canonical payloads
    Key,          \* idempotency keys
    NoKey,        \* the null key
    MaxLog        \* bound on the length of the log

ASSUME EventAssumption ==
    /\ NoKey \notin Key
    /\ MaxLog \in Nat

VARIABLES
    log,          \* the rows of run_events in the order of their sequence number
    recoverable,  \* the Boolean that RunLedger keeps instead of the log
    answer        \* what the last call returned or threw

logVars == <<log, recoverable, answer>>

Event == [type : EventType, author : Author, payload : Payload, key : Key \cup {NoKey}]

\* getEventByIdempotency
Stored(k) == {i \in 1 .. Len(log) : k # NoKey /\ log[i].key = k}

SameEvent(e, f) == e.type = f.type /\ e.author = f.author /\ e.payload = f.payload

\* The stored event of the key answers the call, or the call throws.
Repeat(e) ==
    /\ Stored(e.key) # {}
    /\ answer' = IF \A i \in Stored(e.key) : SameEvent(log[i], e)
                 THEN "replayed" ELSE "EVENT_IDEMPOTENCY_CONFLICT"
    /\ UNCHANGED <<log, recoverable>>

\* The next sequence number is allocated and the row inserted.
Insert(e) ==
    /\ Stored(e.key) = {}
    /\ log' = Append(log, e)
    /\ recoverable' = Extended(recoverable, e.type)
    /\ answer' = "appended"

AppendEvent(e) == Repeat(e) \/ Insert(e)

\* A writer that passes expectedSequence n throws unless it is the next one; a
\* stored key answers before the sequence is looked at.
AppendEventAt(e, n) ==
    \/ Repeat(e)
    \/ n = Len(log) + 1 /\ Insert(e)
    \/ /\ n # Len(log) + 1
       /\ Stored(e.key) = {}
       /\ answer' = "EVENT_SEQUENCE_CONFLICT"
       /\ UNCHANGED <<log, recoverable>>

LogInit == log = <<>> /\ recoverable = FALSE /\ answer = "none"

Room == Len(log) < MaxLog

LogNext ==
    /\ Room
    /\ \E e \in Event :
           \/ AppendEvent(e)
           \/ \E n \in 1 .. MaxLog : AppendEventAt(e, n)

LogSpec == LogInit /\ [][LogNext]_logVars

-----------------------------------------------------------------------------
\* The rows keep their types and every call has one of the answers of appendEvent.
LogTypeOK ==
    /\ log \in Seq(Event)
    /\ recoverable \in BOOLEAN
    /\ answer \in {"none", "appended", "replayed", "EVENT_IDEMPOTENCY_CONFLICT",
                   "EVENT_SEQUENCE_CONFLICT"}

\* The Boolean that the ledger model keeps is what hasRecoverableCheckpoint
\* computes from the whole log with its two loops.
FoldAgrees == recoverable <=> HasRecoverableCheckpoint(log)

\* A repeated call never writes its event a second time, whatever was appended
\* in between: a key names one row.
KeysUnique ==
    \A i, j \in 1 .. Len(log) :
        log[i].key = log[j].key /\ log[i].key # NoKey => i = j

\* A call either appends one row after the stored ones or leaves the log as it
\* was, so a sequence number that a reader has seen keeps its event.
AppendOnly ==
    [][ \/ log' = log
        \/ Len(log') = Len(log) + 1 /\ SubSeq(log', 1, Len(log)) = log ]_logVars

\* Recovery may trust the Boolean kept for the log, and a repeated appendEvent
\* the key it is found by.
LogAgrees == FoldAgrees /\ KeysUnique
=============================================================================
