--------------------------- MODULE BrowserEvidence ---------------------------
(***************************************************************************)
(* The evidence of a page: the ring of events that the Playwright driver   *)
(* keeps, browser.evidence with its continuation, and the durable copy     *)
(* that the ledger of Browser operations makes of what a Run has read.     *)
(***************************************************************************)
EXTENDS Naturals, FiniteSets

CONSTANTS
    MaxEvidence,      \* MAX_ADAPTER_EVIDENCE_EVENTS
    EvidenceLimit,    \* the largest limit of one read
    MaxEvents, MaxReads,
    Request           \* requests of the page

ASSUME EvidenceAssumption ==
    /\ MaxEvidence \in Nat \ {0} /\ EvidenceLimit \in Nat \ {0} /\ MaxEvents \in Nat /\ MaxReads \in Nat

VARIABLES
    ring,             \* #evidenceEvents, as the set of their sequence numbers
    evSeq,            \* #evidenceSequence
    evDropped,        \* #evidenceDroppedBefore
    pending,          \* #requestEvidence: requests that have not been answered
    reader,           \* what the reader has: next afterSequence, events, told of a gap
    durable,          \* browser_evidence_events: sequence and the operation that stored it
    reads

evVars == <<ring, evSeq, evDropped, pending, reader, durable, reads>>

EvTypeOK ==
    /\ ring \in SUBSET (1 .. MaxEvents) /\ evSeq \in 0 .. MaxEvents /\ evDropped \in 0 .. MaxEvents
    /\ pending \subseteq Request
    /\ reader \in [after : 0 .. MaxEvents, seen : SUBSET (1 .. MaxEvents), told : BOOLEAN]
    /\ durable \subseteq (1 .. MaxEvents) \X (1 .. MaxReads) /\ reads \in 0 .. MaxReads

EvInit ==
    /\ ring = {} /\ evSeq = 0 /\ evDropped = 0 /\ pending = {}
    /\ reader = [after |-> 0, seen |-> {}, told |-> FALSE] /\ durable = {} /\ reads = 0

Oldest(events) == CHOOSE e \in events : \A o \in events : e <= o
Newest(events) == CHOOSE e \in events : \A o \in events : o <= e

\* #appendEvidence
AppendEvidence ==
    /\ evSeq < MaxEvents
    /\ evSeq' = evSeq + 1
    /\ LET all == ring \cup {evSeq + 1}
       IN  IF Cardinality(all) > MaxEvidence
           THEN ring' = all \ {Oldest(all)} /\ evDropped' = Oldest(all)
           ELSE ring' = all /\ UNCHANGED evDropped

\* #onConsole and #onPageError
PageSpeaks == AppendEvidence /\ UNCHANGED <<pending, reader, durable, reads>>

\* #onRequest
OnRequest(q) ==
    /\ q \notin pending /\ pending' = pending \cup {q}
    /\ UNCHANGED <<ring, evSeq, evDropped, reader, durable, reads>>

\* #onResponse and #onRequestFailed: the first of them is the event.
OnAnswer(q) ==
    /\ q \in pending /\ pending' = pending \ {q}
    /\ AppendEvidence
    /\ UNCHANGED <<reader, durable, reads>>

\* evidence({ afterSequence, limit })
Available(after) == {e \in ring : e > after}
EvidencePage(after, limit) ==
    {e \in Available(after) : Cardinality({o \in Available(after) : o <= e}) <= limit}
\* Mutant: only the limit of the read makes an answer truncated.
EvidenceTruncatedByLimit(after, limit) == Cardinality(Available(after)) > limit

EvidenceTruncated(after, limit) == after < evDropped \/ Cardinality(Available(after)) > limit
NextSequence(after, limit) ==
    LET page == EvidencePage(after, limit) IN IF page = {} THEN after ELSE Newest(page)

\* insertEvidenceEvents: INSERT OR IGNORE by (run, page, sequence).
InsertEvidence(events, op) == durable \cup {<<e, op>> : e \in {n \in events : \A d \in durable : d[1] # n}}

\* browser.evidence, continued from nextSequence or read again from the start,
\* and recorded when the operation completes.
ReadEvidence(after, limit) ==
    LET page == EvidencePage(after, limit)
    IN  /\ reads < MaxReads /\ after \in {0, reader.after} /\ limit \in 1 .. EvidenceLimit
        /\ reads' = reads + 1
        /\ reader' = [after |-> NextSequence(after, limit),
                      seen |-> reader.seen \cup page,
                      told |-> reader.told \/ EvidenceTruncated(after, limit)]
        /\ durable' = InsertEvidence(page, reads + 1)
        /\ UNCHANGED <<ring, evSeq, evDropped, pending>>

EvNext ==
    \/ PageSpeaks \/ \E q \in Request : OnRequest(q) \/ OnAnswer(q)
    \/ \E after \in 0 .. MaxEvents, limit \in 1 .. EvidenceLimit : ReadEvidence(after, limit)
EvSpec == EvInit /\ [][EvNext]_evVars

----------------------------------------------------------------------------
\* A reader that follows nextSequence has every event up to there, unless some
\* answer said truncated: the ring never loses an event in silence
\* (PlaywrightPageHandle.evidence, #appendEvidence).
NoSilentLoss == ~reader.told => 1 .. reader.after \subseteq reader.seen

\* An event is stored once, by the operation that read it first, and everything
\* that was read is stored (insertEvidenceEvents).
EvidenceStoredOnce ==
    /\ \A d, e \in durable : d[1] = e[1] => d = e
    /\ {d[1] : d \in durable} = reader.seen

\* The reader of the evidence ring either stored an entry, once, or was told
\* that it was dropped.
EvidenceAgrees == EvTypeOK /\ NoSilentLoss /\ EvidenceStoredOnce
=============================================================================
