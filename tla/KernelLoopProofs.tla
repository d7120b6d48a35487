-------------------------- MODULE KernelLoopProofs --------------------------
(***************************************************************************)
(* Proofs about what a Run drives.  EventLog, for every set of event       *)
(* types, attempts, payloads and keys: the ledger's Boolean is the fold    *)
(* over the log, and a key names one event.  KernelLoop, for every set of  *)
(* Tool calls and every bound on turns, retries, calls and crashes: side   *)
(* effects are neither repeated nor forgotten, and the kernel meets its    *)
(* own keys only where it replays.  Browser and BrowserEvidence, for every *)
(* set of Runs, sessions and pages and every bound: what a transition      *)
(* checked before its awaits holds when it goes on, and the ring of        *)
(* evidence loses nothing in silence.                                      *)
(***************************************************************************)
EXTENDS KernelLoop, Browser, BrowserEvidence, FiniteSetTheorems, WellFoundedInduction, TLAPS

\* What Append does to the length and to the entries of a log.
LEMMA AppendEntries ==
    ASSUME NEW S, NEW s \in Seq(S), NEW e \in S
    PROVE  /\ Append(s, e) \in Seq(S)
           /\ Len(Append(s, e)) = Len(s) + 1
           /\ Len(s) \in Nat
           /\ \A i \in 1 .. Len(s) : Append(s, e)[i] = s[i]
           /\ Append(s, e)[Len(s) + 1] = e
  OBVIOUS

\* Appending an event changes what hasRecoverableCheckpoint computes exactly
\* as Extended says: a checkpoint makes the log recoverable, a safe event
\* keeps it as it was, any other event makes it unrecoverable.
LEMMA CheckpointExtended ==
    ASSUME NEW S, NEW s \in Seq(S), NEW e \in S
    PROVE  HasRecoverableCheckpoint(Append(s, e))
             <=> Extended(HasRecoverableCheckpoint(s), e.type)
  <1> DEFINE t == Append(s, e)
             n == Len(s)
  <1>1. /\ Len(t) = n + 1 /\ n \in Nat
        /\ \A i \in 1 .. n : t[i] = s[i]
        /\ t[n + 1] = e
    BY AppendEntries
  <1> HIDE DEF t, n
  <1>2. CASE e.type = "run.checkpoint"
    <2>1. HasRecoverableCheckpoint(t)
      <3>1. n + 1 \in 1 .. Len(t) /\ t[n + 1].type = "run.checkpoint"
        BY <1>1, <1>2
      <3>2. \A j \in (n + 1 + 1) .. Len(t) : FALSE
        BY <1>1
      <3> QED BY <3>1, <3>2 DEF HasRecoverableCheckpoint
    <2> QED BY <2>1, <1>2 DEF Extended, t
  <1>3. CASE e.type # "run.checkpoint"
    <2>1. ASSUME HasRecoverableCheckpoint(t)
          PROVE  e.type \in SafeAfterCheckpoint /\ HasRecoverableCheckpoint(s)
      <3>1. PICK i \in 1 .. Len(t) :
                /\ t[i].type = "run.checkpoint"
                /\ \A j \in (i + 1) .. Len(t) :
                       t[j].type # "run.checkpoint" /\ t[j].type \in SafeAfterCheckpoint
        BY <2>1 DEF HasRecoverableCheckpoint
      <3>2. i \in 1 .. n
        BY <3>1, <1>1, <1>3
      <3>3. e.type \in SafeAfterCheckpoint
        BY <3>1, <3>2, <1>1
      <3>4. \A j \in (i + 1) .. n :
                s[j].type # "run.checkpoint" /\ s[j].type \in SafeAfterCheckpoint
        BY <3>1, <3>2, <1>1
      <3>5. s[i].type = "run.checkpoint"
        BY <3>1, <3>2, <1>1
      <3> QED BY <3>2, <3>3, <3>4, <3>5 DEF HasRecoverableCheckpoint, n
    <2>2. ASSUME e.type \in SafeAfterCheckpoint, HasRecoverableCheckpoint(s)
          PROVE  HasRecoverableCheckpoint(t)
      <3>1. PICK i \in 1 .. n :
                /\ s[i].type = "run.checkpoint"
                /\ \A j \in (i + 1) .. n :
                       s[j].type # "run.checkpoint" /\ s[j].type \in SafeAfterCheckpoint
        BY <2>2 DEF HasRecoverableCheckpoint, n
      <3>2. i \in 1 .. Len(t) /\ t[i].type = "run.checkpoint"
        BY <3>1, <1>1
      <3>3. \A j \in (i + 1) .. Len(t) :
                t[j].type # "run.checkpoint" /\ t[j].type \in SafeAfterCheckpoint
        BY <3>1, <1>1, <1>3, <2>2
      <3> QED BY <3>2, <3>3 DEF HasRecoverableCheckpoint
    <2> QED BY <2>1, <2>2, <1>3 DEF Extended, t
  <1> QED BY <1>2, <1>3

-----------------------------------------------------------------------------
LogInv == LogTypeOK /\ FoldAgrees /\ KeysUnique

\* Every call of appendEvent is an insertion, or leaves the log alone.
LEMMA CallShape ==
    ASSUME LogNext
    PROVE  \/ \E e \in Event : Insert(e)
           \/ UNCHANGED <<log, recoverable>> /\ answer' \in {"replayed",
                  "EVENT_IDEMPOTENCY_CONFLICT", "EVENT_SEQUENCE_CONFLICT"}
  BY DEF LogNext, AppendEvent, AppendEventAt, Repeat

\* Inserting an event whose key is not stored keeps keys unique.
LEMMA InsertKeepsInv ==
    ASSUME LogInv, NEW e \in Event, Insert(e)
    PROVE  LogInv'
  <1>1. log \in Seq(Event) /\ log' = Append(log, e)
    BY DEF LogInv, LogTypeOK, Insert
  <1>2. /\ log' \in Seq(Event)
        /\ Len(log') = Len(log) + 1 /\ Len(log) \in Nat
        /\ \A i \in 1 .. Len(log) : log'[i] = log[i]
        /\ log'[Len(log) + 1] = e
    BY <1>1, AppendEntries
  <1>3. LogTypeOK'
    BY <1>2 DEF LogInv, LogTypeOK, Insert, Extended
  <1>4. FoldAgrees'
    <2>1. recoverable' = Extended(recoverable, e.type)
      BY DEF Insert
    <2>2. HasRecoverableCheckpoint(log')
             <=> Extended(HasRecoverableCheckpoint(log), e.type)
      BY <1>1, CheckpointExtended
    <2> QED BY <2>1, <2>2 DEF LogInv, LogTypeOK, FoldAgrees, Extended
  <1>5. KeysUnique'
    <2> SUFFICES ASSUME NEW i \in 1 .. Len(log'), NEW j \in 1 .. Len(log'),
                        log'[i].key = log'[j].key, log'[i].key # NoKey
                 PROVE  i = j
      BY DEF KeysUnique
    <2>1. \A k \in 1 .. Len(log) : log[k].key # e.key \/ e.key = NoKey
      BY DEF Insert, Stored
    <2>2. CASE i \in 1 .. Len(log) /\ j \in 1 .. Len(log)
      BY <1>2, <2>2 DEF LogInv, KeysUnique
    <2>3. CASE i = Len(log) + 1 \/ j = Len(log) + 1
      BY <1>2, <2>1, <2>3
    <2> QED BY <2>2, <2>3, <1>2
  <1> QED BY <1>3, <1>4, <1>5 DEF LogInv

\* For every set of events: the log stays well typed, the ledger's Boolean is
\* what hasRecoverableCheckpoint computes and no key is stored twice.
THEOREM LogInvInvariant == LogSpec => []LogInv
  <1>1. LogInit => LogInv
    <2> SUFFICES ASSUME LogInit PROVE LogInv
      OBVIOUS
    <2>1. log = <<>> /\ Len(log) = 0
      BY DEF LogInit
    <2>2. ~HasRecoverableCheckpoint(log)
      BY <2>1 DEF HasRecoverableCheckpoint
    <2>3. LogTypeOK
      <3>1. <<>> \in Seq(Event)
        OBVIOUS
      <3>2. recoverable \in BOOLEAN /\ log = <<>> /\ answer = "none"
        BY DEF LogInit
      <3> QED BY <3>1, <3>2, Zenon DEF LogTypeOK
    <2>4. FoldAgrees
      BY <2>2 DEF LogInit, FoldAgrees
    <2>5. KeysUnique
      BY <2>1 DEF KeysUnique
    <2> QED BY <2>3, <2>4, <2>5 DEF LogInv
  <1>2. LogInv /\ [LogNext]_logVars => LogInv'
    <2> SUFFICES ASSUME LogInv, [LogNext]_logVars PROVE LogInv'
      OBVIOUS
    <2>1. CASE \E e \in Event : Insert(e)
      BY <2>1, InsertKeepsInv
    <2>2. CASE UNCHANGED <<log, recoverable>> /\ (answer' = answer \/ answer' \in {"replayed",
                  "EVENT_IDEMPOTENCY_CONFLICT", "EVENT_SEQUENCE_CONFLICT"})
      BY <2>2 DEF LogInv, LogTypeOK, FoldAgrees, KeysUnique
    <2>3. CASE LogNext
      BY <2>1, <2>2, <2>3, CallShape
    <2> QED BY <2>2, <2>3 DEF logVars
  <1> QED BY <1>1, <1>2, PTL DEF LogSpec

\* What recovery and a repeated appendEvent rely on.
THEOREM LogCorrect == LogSpec => []LogAgrees
  <1>1. LogInv => LogAgrees
    BY DEF LogInv, LogAgrees
  <1> QED BY <1>1, LogInvInvariant, PTL

\* RunLedger loses nothing by keeping one Boolean for the log of a Run: it is
\* hasRecoverableCheckpoint of the log after every sequence of calls.
THEOREM CheckpointFold == LogSpec => []FoldAgrees
  <1>1. LogInv => FoldAgrees
    BY DEF LogInv
  <1> QED BY <1>1, LogInvInvariant, PTL

\* An idempotency key names at most one event of a Run.
THEOREM KeysNameOneEvent == LogSpec => []KeysUnique
  <1>1. LogInv => KeysUnique
    BY DEF LogInv
  <1> QED BY <1>1, LogInvInvariant, PTL

\* No call of appendEvent rewrites or removes a stored event.
THEOREM LogIsAppendOnly == LogSpec => AppendOnly
  <1> DEFINE Step == \/ log' = log
                     \/ Len(log') = Len(log) + 1 /\ SubSeq(log', 1, Len(log)) = log
  <1>1. LogInv /\ [LogNext]_logVars => [Step]_logVars
    <2> SUFFICES ASSUME LogInv, LogNext PROVE Step
      OBVIOUS
    <2>1. ASSUME NEW e \in Event, Insert(e)
          PROVE  Len(log') = Len(log) + 1 /\ SubSeq(log', 1, Len(log)) = log
      <3>1. log \in Seq(Event) /\ log' = Append(log, e)
        BY <2>1 DEF Insert, LogInv, LogTypeOK
      <3> QED BY <3>1
    <2> QED BY <2>1, CallShape
  <1> QED BY <1>1, LogInvInvariant, PTL DEF LogSpec, AppendOnly

(***************************************************************************)
(* The kernel.                                                             *)
(***************************************************************************)

KernelPc == {"prepared", "turn", "invoked", "streaming", "output", "message", "call", "tool",
             "executed", "result", "checkpoint", "replayed", "completing", "failing",
             "down", "queued", "ended"}

\* The events of the execution.
KernelType == {"run.started", "model.requested", "model.text_delta", "model.tool_call", "model.retry",
               "model.completed", "tool.started", "tool.completed", "run.checkpoint",
               "tool.replayed", "run.completed", "run.failed", "run.recovery_classified",
               "run.interrupted", "run.attempt.prepared"}

KernelPayload == {"none", "tool.completed", "tool.replayed"}

KernelEvent == [type : KernelType, author : Nat, payload : KernelPayload,
                key : KernelKey \cup {NoKey}]

KernelTypeOK ==
    /\ log \in Seq(KernelEvent) /\ recoverable \in BOOLEAN
    /\ pc \in KernelPc
    /\ author \in Nat /\ request \in Nat /\ invocations \in Nat
    /\ calls \in Seq(CallId) /\ next \in Nat \ {0}
    /\ asked \subseteq CallId /\ results \subseteq CallId
    /\ effects \in [CallId -> Nat]
    /\ pc \in {"tool", "executed", "result", "checkpoint", "replayed"} => next <= Len(calls)

\* The rows of the log, and the keys that are stored.
Rows == {log[i] : i \in 1 .. Len(log)}

Written == {r.key : r \in Rows} \ {NoKey}

\* The Tool call was started and its result is not durable.
Opened(c) == <<"tool-start", c>> \in Written /\ c \notin results

\* A call that has an effect was started, and no call has two.
EffectsStarted ==
    \A c \in CallId : effects[c] <= 1 /\ (effects[c] > 0 => <<"tool-start", c>> \in Written)

\* At most the call that is being executed is open; once it was left behind the
\* log is not recoverable, and the Run is on its way to its end.
OpenIsLast ==
    /\ \A c \in CallId : Opened(c) =>
           /\ ~recoverable
           /\ pc \in {"tool", "executed", "failing", "down", "ended"}
           /\ pc \in {"tool", "executed"} => c = calls[next]
    /\ pc \in {"tool", "executed"} => Opened(calls[next])
    /\ pc = "tool" => effects[calls[next]] = 0
    /\ pc \in {"result", "checkpoint"} => ~recoverable

\* run-start keys: an attempt is started once.
AttemptFresh ==
    \A n \in Nat : <<"run-start", n>> \in Written => n <= author /\ (pc = "prepared" => n < author)

RequestKind == {"model-request", "model-text", "model-retry", "model-complete"}

\* model keys: no stored event has a larger request number than the last request.
RequestBound ==
    /\ pc \notin {"prepared", "queued", "down", "ended"} => request = invocations
    /\ \A n \in Nat, k \in RequestKind : <<k, n>> \in Written => n <= invocations
    /\ \A n \in Nat, c \in CallId : <<"model-tool", n, c>> \in Written => n <= invocations

\* A request writes every event of its own once.
RequestFresh ==
    /\ pc = "invoked" => \A k \in RequestKind : <<k, request>> \notin Written
    /\ pc = "streaming" => \A k \in RequestKind \ {"model-request"} : <<k, request>> \notin Written
    /\ pc \in {"invoked", "streaming"} => \A c \in CallId : <<"model-tool", request, c>> \notin Written
    /\ pc = "output" => <<"model-complete", request>> \notin Written

\* A Tool call that the model repeats in its request repeats its event.
RequestRows ==
    pc = "output" => \A r \in Rows, c \in CallId :
        r.key = <<"model-tool", request, c>> =>
            r.type = "model.tool_call" /\ r.author = author /\ r.payload = "none"

\* tool keys: completion and checkpoint follow the result, once each.
ToolFresh ==
    /\ \A c \in CallId : <<"tool-complete", c>> \in Written =>
           c \in results /\ ~(pc = "result" /\ c = calls[next])
    /\ \A c \in CallId : <<"checkpoint:tool", c>> \in Written =>
           c \in results /\ ~(pc \in {"result", "checkpoint"} /\ c = calls[next])
    /\ pc \in {"result", "checkpoint"} => calls[next] \in results

\* The checkpoint that is stored for a call is that of its completion.
CheckpointRows ==
    \A r \in Rows, c \in CallId :
        r.key = <<"checkpoint:tool", c>> => r.payload = "tool.completed"

\* A result without its checkpoint is being written or belongs to a Run that
\* cannot be resumed; so the checkpoint of a replay always finds that of the
\* completion, and a Run that replayed a call goes on no further.
ReplayIsLast ==
    /\ \A c \in results :
           \/ <<"checkpoint:tool", c>> \in Written
           \/ pc \in {"result", "checkpoint"} /\ c = calls[next]
           \/ pc \in {"failing", "down", "ended"} /\ ~recoverable
    /\ \A c \in CallId : <<"tool-replay", c>> \in Written =>
           ~recoverable /\ pc \in {"replayed", "failing", "down", "ended"}
    /\ pc = "replayed" => calls[next] \in results

\* The inductive invariant.
KernelInv ==
    /\ KernelTypeOK /\ FoldAgrees
    /\ EffectsStarted /\ OpenIsLast
    /\ AttemptFresh /\ RequestBound /\ RequestFresh /\ RequestRows
    /\ ToolFresh /\ CheckpointRows /\ ReplayIsLast

\* A step that trips over a stored key.
ConflictOnReplay ==
    pc' = "failing" /\ answer' = "EVENT_IDEMPOTENCY_CONFLICT" /\ answer # answer' => pc = "replayed"

-----------------------------------------------------------------------------
\* The calls of the kernel may be told apart by their keys.
LEMMA KeysAreKeys ==
    /\ \A n \in Nat : /\ <<"run-start", n>> \in KernelKey /\ <<"model-request", n>> \in KernelKey
                      /\ <<"model-text", n>> \in KernelKey /\ <<"model-retry", n>> \in KernelKey
                      /\ <<"model-complete", n>> \in KernelKey
    /\ \A n \in Nat, c \in CallId : <<"model-tool", n, c>> \in KernelKey
    /\ \A c \in CallId : /\ <<"tool-start", c>> \in KernelKey /\ <<"tool-complete", c>> \in KernelKey
                         /\ <<"tool-replay", c>> \in KernelKey /\ <<"checkpoint:tool", c>> \in KernelKey
    /\ NoKey \notin KernelKey
  BY KernelAssumption DEF KernelKey

\* What an insertion does to the log, to the Boolean kept for it and to its keys.
Logged(e) ==
    /\ log' \in Seq(KernelEvent) /\ recoverable' \in BOOLEAN /\ FoldAgrees'
    /\ Rows' = Rows \cup {e}
    /\ Written' = Written \cup ({e.key} \ {NoKey})
    /\ recoverable' <=> e.type = "run.checkpoint" \/ (recoverable /\ e.type \in SafeAfterCheckpoint)
    /\ answer' = "appended"

LEMMA InsertFacts ==
    ASSUME KernelTypeOK, FoldAgrees, NEW e \in KernelEvent, Insert(e)
    PROVE  Logged(e)
  <1>1. log \in Seq(KernelEvent) /\ log' = Append(log, e) /\ answer' = "appended"
    BY DEF KernelTypeOK, Insert
  <1>2. /\ log' \in Seq(KernelEvent)
        /\ Len(log') = Len(log) + 1 /\ Len(log) \in Nat
        /\ \A i \in 1 .. Len(log) : log'[i] = log[i]
        /\ log'[Len(log) + 1] = e
    BY <1>1, AppendEntries
  <1>3. HasRecoverableCheckpoint(log') <=> Extended(HasRecoverableCheckpoint(log), e.type)
    BY <1>1, CheckpointExtended
  <1>4. recoverable' = Extended(recoverable, e.type) /\ recoverable \in BOOLEAN
    BY DEF Insert, KernelTypeOK
  <1>5. FoldAgrees' /\ recoverable' \in BOOLEAN
    BY <1>3, <1>4 DEF FoldAgrees, Extended
  <1>6. recoverable' <=> e.type = "run.checkpoint" \/ (recoverable /\ e.type \in SafeAfterCheckpoint)
    BY <1>4 DEF Extended
  <1>7. Rows' = Rows \cup {e}
    <2>1. ASSUME NEW r \in Rows' PROVE r \in Rows \cup {e}
      <3>1. PICK i \in 1 .. Len(log') : log'[i] = r
        BY <2>1 DEF Rows
      <3>2. i \in 1 .. Len(log) \/ i = Len(log) + 1
        BY <3>1, <1>2
      <3> QED BY <3>1, <3>2, <1>2 DEF Rows
    <2>2. ASSUME NEW r \in Rows PROVE r \in Rows'
      <3>1. PICK i \in 1 .. Len(log) : log[i] = r
        BY <2>2 DEF Rows
      <3>2. i \in 1 .. Len(log') /\ log'[i] = r
        BY <3>1, <1>2
      <3> QED BY <3>2 DEF Rows
    <2>3. e \in Rows'
      <3>1. Len(log) + 1 \in 1 .. Len(log') /\ log'[Len(log) + 1] = e
        BY <1>2
      <3> QED BY <3>1 DEF Rows
    <2> QED BY <2>1, <2>2, <2>3
  <1>8. Written' = Written \cup ({e.key} \ {NoKey})
    BY <1>7 DEF Written
  <1> QED BY <1>1, <1>2, <1>5, <1>6, <1>7, <1>8 DEF Logged

\* A call with a key that is stored writes nothing, and throws when the stored
\* event is another one.
LEMMA RepeatFacts ==
    ASSUME NEW e \in KernelEvent, Repeat(e)
    PROVE  /\ e.key \in Written /\ UNCHANGED <<log, recoverable>>
           /\ Rows' = Rows /\ Written' = Written /\ (FoldAgrees => FoldAgrees')
           /\ (\A r \in Rows : r.key = e.key => SameEvent(r, e)) =>
                  answer' # "EVENT_IDEMPOTENCY_CONFLICT"
           /\ answer' # "EVENT_IDEMPOTENCY_CONFLICT" =>
                  \A r \in Rows : r.key = e.key => SameEvent(r, e)
  <1>1. PICK i \in 1 .. Len(log) : e.key # NoKey /\ log[i].key = e.key
    BY DEF Repeat, Stored
  <1>2. e.key \in Written
    BY <1>1 DEF Written, Rows
  <1>3. UNCHANGED <<log, recoverable>>
    BY DEF Repeat
  <1>4. Rows' = Rows /\ Written' = Written /\ (FoldAgrees => FoldAgrees')
    BY <1>3 DEF Rows, Written, FoldAgrees
  <1>5. Stored(e.key) = {j \in 1 .. Len(log) : log[j].key = e.key}
    BY <1>1 DEF Stored
  <1>6. (\A j \in Stored(e.key) : SameEvent(log[j], e)) <=>
        \A r \in Rows : r.key = e.key => SameEvent(r, e)
    BY <1>5 DEF Rows
  <1>7. answer' = IF \A j \in Stored(e.key) : SameEvent(log[j], e)
                  THEN "replayed" ELSE "EVENT_IDEMPOTENCY_CONFLICT"
    BY DEF Repeat
  <1> QED BY <1>2, <1>3, <1>4, <1>6, <1>7

\* A call with a key that is not stored inserts its event.
LEMMA FreshInserts ==
    ASSUME NEW e \in KernelEvent, e.key \notin Written, AppendEvent(e)
    PROVE  Insert(e)
  BY RepeatFacts DEF AppendEvent

\* An event that the kernel may write.
LEMMA EvTyped ==
    ASSUME author \in Nat, NEW t \in KernelType, NEW p \in KernelPayload,
           NEW k \in KernelKey \cup {NoKey}
    PROVE  Ev(t, p, k) \in KernelEvent /\ Ev(t, p, k).key = k
  BY DEF Ev, KernelEvent

\* A write with a fresh key appends its event and goes on.
LEMMA FreshWrite ==
    ASSUME KernelTypeOK, FoldAgrees, NEW t \in KernelType, NEW p \in KernelPayload,
           NEW k \in KernelKey \cup {NoKey}, k \notin Written,
           NEW target, Write(Ev(t, p, k), target)
    PROVE  Logged(Ev(t, p, k)) /\ pc' = target
  <1> DEFINE e == Ev(t, p, k)
  <1>1. e \in KernelEvent /\ e.key = k
    BY EvTyped DEF KernelTypeOK
  <1>2. AppendEvent(e) /\ pc' = IF answer' = "EVENT_IDEMPOTENCY_CONFLICT" THEN "failing" ELSE target
    BY DEF Write
  <1> HIDE DEF e
  <1>3. Logged(e)
    BY <1>1, <1>2, FreshInserts, InsertFacts
  <1>4. pc' = target
    BY <1>2, <1>3 DEF Logged
  <1> QED BY <1>3, <1>4 DEF e











-----------------------------------------------------------------------------
\* One lemma per action: it keeps the invariant.

\* Start opens an attempt that was not started before.
LEMMA StartInv == ASSUME KernelInv, Start PROVE KernelInv' /\ ConflictOnReplay
  <1> DEFINE key == <<"run-start", author>>
  <1>1. /\ KernelTypeOK /\ FoldAgrees /\ EffectsStarted /\ OpenIsLast
        /\ AttemptFresh /\ RequestBound /\ RequestFresh /\ RequestRows
        /\ ToolFresh /\ CheckpointRows /\ ReplayIsLast
    BY DEF KernelInv
  <1>2. /\ pc = "prepared"
        /\ UNCHANGED <<author, invocations, asked, results, effects>>
        /\ request' = invocations /\ calls' = <<>> /\ next' = 1
    BY DEF Start, AlreadyCompleted
  <1>3. author \in Nat /\ invocations \in Nat
    BY <1>1, <1>2 DEF KernelTypeOK
  <1>4. key \in KernelKey /\ key # NoKey
    BY <1>3, KeysAreKeys
  <1>5. key \notin Written
    BY <1>1, <1>2, <1>3 DEF AttemptFresh
  <1>6. Write(Ev("run.started", "none", key), "turn")
    BY DEF Start
  <1> HIDE DEF key
  <1>7. Logged(Ev("run.started", "none", key)) /\ pc' = "turn"
    <2>1. "run.started" \in KernelType /\ "none" \in KernelPayload /\ key \in KernelKey \cup {NoKey}
      BY <1>4 DEF KernelType, KernelPayload
    <2> QED BY <2>1, <1>1, <1>5, <1>6, FreshWrite
  <1>8. /\ log' \in Seq(KernelEvent) /\ recoverable' \in BOOLEAN /\ FoldAgrees'
        /\ Written' = Written \cup {key}
        /\ recoverable' <=> FALSE
    BY <1>4, <1>7 DEF Logged, Ev, SafeAfterCheckpoint
  <1>9. \A r \in Rows' : r \notin Rows =>
            r.key = key /\ r.type = "run.started" /\ r.author = author /\ r.payload = "none"
    BY <1>7 DEF Logged, Ev
  <1>10. KernelTypeOK'
    BY <1>1, <1>2, <1>3, <1>7, <1>8 DEF KernelTypeOK, KernelPc, key
  <1>11. EffectsStarted'
    BY <1>1, <1>2, <1>3, <1>7, <1>8 DEF EffectsStarted, key
  <1>12. OpenIsLast'
    BY <1>1, <1>2, <1>3, <1>7, <1>8 DEF OpenIsLast, Opened, key
  <1>13. AttemptFresh'
    BY <1>1, <1>2, <1>3, <1>7, <1>8 DEF AttemptFresh, key
  <1>14. RequestBound'
    BY <1>1, <1>2, <1>3, <1>7, <1>8 DEF RequestBound, RequestKind, key
  <1>15. RequestFresh'
    BY <1>1, <1>2, <1>3, <1>7, <1>8 DEF RequestFresh, RequestKind, key
  <1>16. RequestRows'
    BY <1>1, <1>2, <1>3, <1>7, <1>9 DEF RequestRows, key
  <1>17. ToolFresh'
    BY <1>1, <1>2, <1>3, <1>7, <1>8 DEF ToolFresh, key
  <1>18. CheckpointRows'
    BY <1>1, <1>2, <1>3, <1>7, <1>9 DEF CheckpointRows, key
  <1>19. ReplayIsLast'
    BY <1>1, <1>2, <1>3, <1>7, <1>8 DEF ReplayIsLast, key
  <1>20. ConflictOnReplay
    BY <1>7 DEF Logged, ConflictOnReplay
  <1> QED BY <1>8, <1>10, <1>11, <1>12, <1>13, <1>14, <1>15, <1>16, <1>17, <1>18, <1>19, <1>20 DEF KernelInv

\* A request number is used for one request.
LEMMA RequestModelInv == ASSUME KernelInv, RequestModel PROVE KernelInv' /\ ConflictOnReplay
  <1> DEFINE key == <<"model-request", request>>
  <1>1. /\ KernelTypeOK /\ FoldAgrees /\ EffectsStarted /\ OpenIsLast
        /\ AttemptFresh /\ RequestBound /\ RequestFresh /\ RequestRows
        /\ ToolFresh /\ CheckpointRows /\ ReplayIsLast
    BY DEF KernelInv
  <1>2. /\ pc = "invoked"
        /\ UNCHANGED <<author, invocations, request, calls, next, asked, results, effects>>
    BY DEF RequestModel, AlreadyCompleted
  <1>3. request \in Nat /\ invocations \in Nat
    BY <1>1, <1>2 DEF KernelTypeOK
  <1>4. key \in KernelKey /\ key # NoKey
    BY <1>3, KeysAreKeys
  <1>5. key \notin Written
    BY <1>1, <1>2, <1>3 DEF RequestFresh, RequestKind
  <1>6. Write(Ev("model.requested", "none", key), "streaming")
    BY DEF RequestModel
  <1> HIDE DEF key
  <1>7. Logged(Ev("model.requested", "none", key)) /\ pc' = "streaming"
    <2>1. "model.requested" \in KernelType /\ "none" \in KernelPayload /\ key \in KernelKey \cup {NoKey}
      BY <1>4 DEF KernelType, KernelPayload
    <2> QED BY <2>1, <1>1, <1>5, <1>6, FreshWrite
  <1>8. /\ log' \in Seq(KernelEvent) /\ recoverable' \in BOOLEAN /\ FoldAgrees'
        /\ Written' = Written \cup {key}
        /\ recoverable' <=> recoverable
    BY <1>4, <1>7 DEF Logged, Ev, SafeAfterCheckpoint
  <1>9. \A r \in Rows' : r \notin Rows =>
            r.key = key /\ r.type = "model.requested" /\ r.author = author /\ r.payload = "none"
    BY <1>7 DEF Logged, Ev
  <1>10. KernelTypeOK'
    BY <1>1, <1>2, <1>3, <1>7, <1>8 DEF KernelTypeOK, KernelPc, key
  <1>11. EffectsStarted'
    BY <1>1, <1>2, <1>3, <1>7, <1>8 DEF EffectsStarted, key
  <1>12. OpenIsLast'
    BY <1>1, <1>2, <1>3, <1>7, <1>8 DEF OpenIsLast, Opened, key
  <1>13. AttemptFresh'
    BY <1>1, <1>2, <1>3, <1>7, <1>8 DEF AttemptFresh, key
  <1>14. RequestBound'
    BY <1>1, <1>2, <1>3, <1>7, <1>8 DEF RequestBound, RequestKind, key
  <1>15. RequestFresh'
    BY <1>1, <1>2, <1>3, <1>7, <1>8 DEF RequestFresh, RequestKind, key
  <1>16. RequestRows'
    BY <1>1, <1>2, <1>3, <1>7, <1>9 DEF RequestRows, key
  <1>17. ToolFresh'
    BY <1>1, <1>2, <1>3, <1>7, <1>8 DEF ToolFresh, key
  <1>18. CheckpointRows'
    BY <1>1, <1>2, <1>3, <1>7, <1>9 DEF CheckpointRows, key
  <1>19. ReplayIsLast'
    BY <1>1, <1>2, <1>3, <1>7, <1>8 DEF ReplayIsLast, key
  <1>20. ConflictOnReplay
    BY <1>7 DEF Logged, ConflictOnReplay
  <1> QED BY <1>8, <1>10, <1>11, <1>12, <1>13, <1>14, <1>15, <1>16, <1>17, <1>18, <1>19, <1>20 DEF KernelInv

\* A delta is written once for its request.
LEMMA StreamDeltaInv == ASSUME KernelInv, StreamDelta PROVE KernelInv' /\ ConflictOnReplay
  <1> DEFINE key == <<"model-text", request>>
  <1>1. /\ KernelTypeOK /\ FoldAgrees /\ EffectsStarted /\ OpenIsLast
        /\ AttemptFresh /\ RequestBound /\ RequestFresh /\ RequestRows
        /\ ToolFresh /\ CheckpointRows /\ ReplayIsLast
    BY DEF KernelInv
  <1>2. /\ pc = "streaming"
        /\ UNCHANGED <<author, invocations, request, calls, next, asked, results, effects>>
    BY DEF StreamDelta, AlreadyCompleted
  <1>3. request \in Nat /\ invocations \in Nat
    BY <1>1, <1>2 DEF KernelTypeOK
  <1>4. key \in KernelKey /\ key # NoKey
    BY <1>3, KeysAreKeys
  <1>5. key \notin Written
    BY <1>1, <1>2, <1>3 DEF RequestFresh, RequestKind
  <1>6. Write(Ev("model.text_delta", "none", key), "output")
    BY DEF StreamDelta
  <1> HIDE DEF key
  <1>7. Logged(Ev("model.text_delta", "none", key)) /\ pc' = "output"
    <2>1. "model.text_delta" \in KernelType /\ "none" \in KernelPayload /\ key \in KernelKey \cup {NoKey}
      BY <1>4 DEF KernelType, KernelPayload
    <2> QED BY <2>1, <1>1, <1>5, <1>6, FreshWrite
  <1>8. /\ log' \in Seq(KernelEvent) /\ recoverable' \in BOOLEAN /\ FoldAgrees'
        /\ Written' = Written \cup {key}
        /\ recoverable' <=> FALSE
    BY <1>4, <1>7 DEF Logged, Ev, SafeAfterCheckpoint
  <1>9. \A r \in Rows' : r \notin Rows =>
            r.key = key /\ r.type = "model.text_delta" /\ r.author = author /\ r.payload = "none"
    BY <1>7 DEF Logged, Ev
  <1>10. KernelTypeOK'
    BY <1>1, <1>2, <1>3, <1>7, <1>8 DEF KernelTypeOK, KernelPc, key
  <1>11. EffectsStarted'
    BY <1>1, <1>2, <1>3, <1>7, <1>8 DEF EffectsStarted, key
  <1>12. OpenIsLast'
    BY <1>1, <1>2, <1>3, <1>7, <1>8 DEF OpenIsLast, Opened, key
  <1>13. AttemptFresh'
    BY <1>1, <1>2, <1>3, <1>7, <1>8 DEF AttemptFresh, key
  <1>14. RequestBound'
    BY <1>1, <1>2, <1>3, <1>7, <1>8 DEF RequestBound, RequestKind, key
  <1>15. RequestFresh'
    BY <1>1, <1>2, <1>3, <1>7, <1>8 DEF RequestFresh, RequestKind, key
  <1>16. RequestRows'
    <2>1. ASSUME NEW r \in Rows, NEW c \in CallId PROVE r.key # <<"model-tool", request, c>>
      <3>1. <<"model-tool", request, c>> # NoKey /\ <<"model-tool", request, c>> \notin Written
        BY <1>1, <1>2, <1>3, KeysAreKeys DEF RequestFresh
      <3> QED BY <3>1 DEF Written
    <2> QED BY <2>1, <1>2, <1>3, <1>7, <1>9 DEF RequestRows, key
  <1>17. ToolFresh'
    BY <1>1, <1>2, <1>3, <1>7, <1>8 DEF ToolFresh, key
  <1>18. CheckpointRows'
    BY <1>1, <1>2, <1>3, <1>7, <1>9 DEF CheckpointRows, key
  <1>19. ReplayIsLast'
    BY <1>1, <1>2, <1>3, <1>7, <1>8 DEF ReplayIsLast, key
  <1>20. ConflictOnReplay
    BY <1>7 DEF Logged, ConflictOnReplay
  <1> QED BY <1>8, <1>10, <1>11, <1>12, <1>13, <1>14, <1>15, <1>16, <1>17, <1>18, <1>19, <1>20 DEF KernelInv

\* A retry ends its request.
LEMMA RetryModelInv == ASSUME KernelInv, RetryModel PROVE KernelInv' /\ ConflictOnReplay
  <1> DEFINE key == <<"model-retry", request>>
  <1>1. /\ KernelTypeOK /\ FoldAgrees /\ EffectsStarted /\ OpenIsLast
        /\ AttemptFresh /\ RequestBound /\ RequestFresh /\ RequestRows
        /\ ToolFresh /\ CheckpointRows /\ ReplayIsLast
    BY DEF KernelInv
  <1>2. /\ pc = "streaming"
        /\ UNCHANGED <<author, invocations, request, calls, next, asked, results, effects>>
    BY DEF RetryModel, AlreadyCompleted
  <1>3. request \in Nat /\ invocations \in Nat
    BY <1>1, <1>2 DEF KernelTypeOK
  <1>4. key \in KernelKey /\ key # NoKey
    BY <1>3, KeysAreKeys
  <1>5. key \notin Written
    BY <1>1, <1>2, <1>3 DEF RequestFresh, RequestKind
  <1>6. Write(Ev("model.retry", "none", key), "turn")
    BY DEF RetryModel
  <1> HIDE DEF key
  <1>7. Logged(Ev("model.retry", "none", key)) /\ pc' = "turn"
    <2>1. "model.retry" \in KernelType /\ "none" \in KernelPayload /\ key \in KernelKey \cup {NoKey}
      BY <1>4 DEF KernelType, KernelPayload
    <2> QED BY <2>1, <1>1, <1>5, <1>6, FreshWrite
  <1>8. /\ log' \in Seq(KernelEvent) /\ recoverable' \in BOOLEAN /\ FoldAgrees'
        /\ Written' = Written \cup {key}
        /\ recoverable' <=> recoverable
    BY <1>4, <1>7 DEF Logged, Ev, SafeAfterCheckpoint
  <1>9. \A r \in Rows' : r \notin Rows =>
            r.key = key /\ r.type = "model.retry" /\ r.author = author /\ r.payload = "none"
    BY <1>7 DEF Logged, Ev
  <1>10. KernelTypeOK'
    BY <1>1, <1>2, <1>3, <1>7, <1>8 DEF KernelTypeOK, KernelPc, key
  <1>11. EffectsStarted'
    BY <1>1, <1>2, <1>3, <1>7, <1>8 DEF EffectsStarted, key
  <1>12. OpenIsLast'
    BY <1>1, <1>2, <1>3, <1>7, <1>8 DEF OpenIsLast, Opened, key
  <1>13. AttemptFresh'
    BY <1>1, <1>2, <1>3, <1>7, <1>8 DEF AttemptFresh, key
  <1>14. RequestBound'
    BY <1>1, <1>2, <1>3, <1>7, <1>8 DEF RequestBound, RequestKind, key
  <1>15. RequestFresh'
    BY <1>1, <1>2, <1>3, <1>7, <1>8 DEF RequestFresh, RequestKind, key
  <1>16. RequestRows'
    BY <1>1, <1>2, <1>3, <1>7, <1>9 DEF RequestRows, key
  <1>17. ToolFresh'
    BY <1>1, <1>2, <1>3, <1>7, <1>8 DEF ToolFresh, key
  <1>18. CheckpointRows'
    BY <1>1, <1>2, <1>3, <1>7, <1>9 DEF CheckpointRows, key
  <1>19. ReplayIsLast'
    BY <1>1, <1>2, <1>3, <1>7, <1>8 DEF ReplayIsLast, key
  <1>20. ConflictOnReplay
    BY <1>7 DEF Logged, ConflictOnReplay
  <1> QED BY <1>8, <1>10, <1>11, <1>12, <1>13, <1>14, <1>15, <1>16, <1>17, <1>18, <1>19, <1>20 DEF KernelInv

\* A completed stream ends its request.
LEMMA CompleteModelInv == ASSUME KernelInv, CompleteModel PROVE KernelInv' /\ ConflictOnReplay
  <1> DEFINE key == <<"model-complete", request>>
  <1>1. /\ KernelTypeOK /\ FoldAgrees /\ EffectsStarted /\ OpenIsLast
        /\ AttemptFresh /\ RequestBound /\ RequestFresh /\ RequestRows
        /\ ToolFresh /\ CheckpointRows /\ ReplayIsLast
    BY DEF KernelInv
  <1>2. /\ pc \in {"streaming", "output"}
        /\ UNCHANGED <<author, invocations, request, calls, next, asked, results, effects>>
    BY DEF CompleteModel, AlreadyCompleted
  <1>3. request \in Nat /\ invocations \in Nat
    BY <1>1, <1>2 DEF KernelTypeOK
  <1>4. key \in KernelKey /\ key # NoKey
    BY <1>3, KeysAreKeys
  <1>5. key \notin Written
    BY <1>1, <1>2, <1>3 DEF RequestFresh, RequestKind
  <1>6. Write(Ev("model.completed", "none", key), "message")
    BY DEF CompleteModel
  <1> HIDE DEF key
  <1>7. Logged(Ev("model.completed", "none", key)) /\ pc' = "message"
    <2>1. "model.completed" \in KernelType /\ "none" \in KernelPayload /\ key \in KernelKey \cup {NoKey}
      BY <1>4 DEF KernelType, KernelPayload
    <2> QED BY <2>1, <1>1, <1>5, <1>6, FreshWrite
  <1>8. /\ log' \in Seq(KernelEvent) /\ recoverable' \in BOOLEAN /\ FoldAgrees'
        /\ Written' = Written \cup {key}
        /\ recoverable' <=> FALSE
    BY <1>4, <1>7 DEF Logged, Ev, SafeAfterCheckpoint
  <1>9. \A r \in Rows' : r \notin Rows =>
            r.key = key /\ r.type = "model.completed" /\ r.author = author /\ r.payload = "none"
    BY <1>7 DEF Logged, Ev
  <1>10. KernelTypeOK'
    BY <1>1, <1>2, <1>3, <1>7, <1>8 DEF KernelTypeOK, KernelPc, key
  <1>11. EffectsStarted'
    BY <1>1, <1>2, <1>3, <1>7, <1>8 DEF EffectsStarted, key
  <1>12. OpenIsLast'
    BY <1>1, <1>2, <1>3, <1>7, <1>8 DEF OpenIsLast, Opened, key
  <1>13. AttemptFresh'
    BY <1>1, <1>2, <1>3, <1>7, <1>8 DEF AttemptFresh, key
  <1>14. RequestBound'
    BY <1>1, <1>2, <1>3, <1>7, <1>8 DEF RequestBound, RequestKind, key
  <1>15. RequestFresh'
    BY <1>1, <1>2, <1>3, <1>7, <1>8 DEF RequestFresh, RequestKind, key
  <1>16. RequestRows'
    BY <1>1, <1>2, <1>3, <1>7, <1>9 DEF RequestRows, key
  <1>17. ToolFresh'
    BY <1>1, <1>2, <1>3, <1>7, <1>8 DEF ToolFresh, key
  <1>18. CheckpointRows'
    BY <1>1, <1>2, <1>3, <1>7, <1>9 DEF CheckpointRows, key
  <1>19. ReplayIsLast'
    BY <1>1, <1>2, <1>3, <1>7, <1>8 DEF ReplayIsLast, key
  <1>20. ConflictOnReplay
    BY <1>7 DEF Logged, ConflictOnReplay
  <1> QED BY <1>8, <1>10, <1>11, <1>12, <1>13, <1>14, <1>15, <1>16, <1>17, <1>18, <1>19, <1>20 DEF KernelInv

\* A call without a result was never started: no call is open at this point.
LEMMA StartToolInv == ASSUME KernelInv, StartTool PROVE KernelInv' /\ ConflictOnReplay
  <1> DEFINE key == <<"tool-start", calls[next]>>
  <1>1. /\ KernelTypeOK /\ FoldAgrees /\ EffectsStarted /\ OpenIsLast
        /\ AttemptFresh /\ RequestBound /\ RequestFresh /\ RequestRows
        /\ ToolFresh /\ CheckpointRows /\ ReplayIsLast
    BY DEF KernelInv
  <1>2. /\ pc = "call" /\ next <= Len(calls) /\ calls[next] \notin results
        /\ UNCHANGED <<author, invocations, request, calls, next, asked, results, effects>>
    BY DEF StartTool, AlreadyCompleted
  <1>3. next \in 1 .. Len(calls) /\ calls[next] \in CallId
    BY <1>1, <1>2 DEF KernelTypeOK
  <1>4. key \in KernelKey /\ key # NoKey
    BY <1>3, KeysAreKeys
  <1>5. key \notin Written
    BY <1>1, <1>2, <1>3 DEF OpenIsLast, Opened
  <1>6. Write(Ev("tool.started", "none", key), "tool")
    BY DEF StartTool
  <1> HIDE DEF key
  <1>7. Logged(Ev("tool.started", "none", key)) /\ pc' = "tool"
    <2>1. "tool.started" \in KernelType /\ "none" \in KernelPayload /\ key \in KernelKey \cup {NoKey}
      BY <1>4 DEF KernelType, KernelPayload
    <2> QED BY <2>1, <1>1, <1>5, <1>6, FreshWrite
  <1>8. /\ log' \in Seq(KernelEvent) /\ recoverable' \in BOOLEAN /\ FoldAgrees'
        /\ Written' = Written \cup {key}
        /\ recoverable' <=> FALSE
    BY <1>4, <1>7 DEF Logged, Ev, SafeAfterCheckpoint
  <1>9. \A r \in Rows' : r \notin Rows =>
            r.key = key /\ r.type = "tool.started" /\ r.author = author /\ r.payload = "none"
    BY <1>7 DEF Logged, Ev
  <1>10. KernelTypeOK'
    BY <1>1, <1>2, <1>3, <1>7, <1>8 DEF KernelTypeOK, KernelPc, key
  <1>11. EffectsStarted'
    BY <1>1, <1>2, <1>3, <1>7, <1>8 DEF EffectsStarted, key
  <1>12. OpenIsLast'
    <2>1. effects[calls[next]] = 0 /\ ~Opened(calls[next])
      BY <1>1, <1>2, <1>3, <1>5 DEF EffectsStarted, KernelTypeOK, Opened, key
    <2>2. \A c \in CallId : ~Opened(c)
      BY <1>1, <1>2 DEF OpenIsLast
    <2>3. \A c \in CallId : Opened(c)' <=> c = calls[next]
      BY <2>2, <1>2, <1>3, <1>8 DEF Opened, key
    <2> QED BY <2>1, <2>3, <1>2, <1>3, <1>7, <1>8 DEF OpenIsLast
  <1>13. AttemptFresh'
    BY <1>1, <1>2, <1>3, <1>7, <1>8 DEF AttemptFresh, key
  <1>14. RequestBound'
    BY <1>1, <1>2, <1>3, <1>7, <1>8 DEF RequestBound, RequestKind, key
  <1>15. RequestFresh'
    BY <1>1, <1>2, <1>3, <1>7, <1>8 DEF RequestFresh, RequestKind, key
  <1>16. RequestRows'
    BY <1>1, <1>2, <1>3, <1>7, <1>9 DEF RequestRows, key
  <1>17. ToolFresh'
    BY <1>1, <1>2, <1>3, <1>7, <1>8 DEF ToolFresh, key
  <1>18. CheckpointRows'
    BY <1>1, <1>2, <1>3, <1>7, <1>9 DEF CheckpointRows, key
  <1>19. ReplayIsLast'
    BY <1>1, <1>2, <1>3, <1>7, <1>8 DEF ReplayIsLast, key
  <1>20. ConflictOnReplay
    BY <1>7 DEF Logged, ConflictOnReplay
  <1> QED BY <1>8, <1>10, <1>11, <1>12, <1>13, <1>14, <1>15, <1>16, <1>17, <1>18, <1>19, <1>20 DEF KernelInv

\* The completion follows the result.
LEMMA CompleteToolInv == ASSUME KernelInv, CompleteTool PROVE KernelInv' /\ ConflictOnReplay
  <1> DEFINE key == <<"tool-complete", calls[next]>>
  <1>1. /\ KernelTypeOK /\ FoldAgrees /\ EffectsStarted /\ OpenIsLast
        /\ AttemptFresh /\ RequestBound /\ RequestFresh /\ RequestRows
        /\ ToolFresh /\ CheckpointRows /\ ReplayIsLast
    BY DEF KernelInv
  <1>2. /\ pc = "result"
        /\ UNCHANGED <<author, invocations, request, calls, next, asked, results, effects>>
    BY DEF CompleteTool, AlreadyCompleted
  <1>3. next \in 1 .. Len(calls) /\ calls[next] \in CallId
    BY <1>1, <1>2 DEF KernelTypeOK
  <1>4. key \in KernelKey /\ key # NoKey
    BY <1>3, KeysAreKeys
  <1>5. key \notin Written
    BY <1>1, <1>2, <1>3 DEF ToolFresh
  <1>6. Write(Ev("tool.completed", "none", key), "checkpoint")
    BY DEF CompleteTool
  <1> HIDE DEF key
  <1>7. Logged(Ev("tool.completed", "none", key)) /\ pc' = "checkpoint"
    <2>1. "tool.completed" \in KernelType /\ "none" \in KernelPayload /\ key \in KernelKey \cup {NoKey}
      BY <1>4 DEF KernelType, KernelPayload
    <2> QED BY <2>1, <1>1, <1>5, <1>6, FreshWrite
  <1>8. /\ log' \in Seq(KernelEvent) /\ recoverable' \in BOOLEAN /\ FoldAgrees'
        /\ Written' = Written \cup {key}
        /\ recoverable' <=> FALSE
    BY <1>4, <1>7 DEF Logged, Ev, SafeAfterCheckpoint
  <1>9. \A r \in Rows' : r \notin Rows =>
            r.key = key /\ r.type = "tool.completed" /\ r.author = author /\ r.payload = "none"
    BY <1>7 DEF Logged, Ev
  <1>10. KernelTypeOK'
    BY <1>1, <1>2, <1>3, <1>7, <1>8 DEF KernelTypeOK, KernelPc, key
  <1>11. EffectsStarted'
    BY <1>1, <1>2, <1>3, <1>7, <1>8 DEF EffectsStarted, key
  <1>12. OpenIsLast'
    BY <1>1, <1>2, <1>3, <1>7, <1>8 DEF OpenIsLast, Opened, key
  <1>13. AttemptFresh'
    BY <1>1, <1>2, <1>3, <1>7, <1>8 DEF AttemptFresh, key
  <1>14. RequestBound'
    BY <1>1, <1>2, <1>3, <1>7, <1>8 DEF RequestBound, RequestKind, key
  <1>15. RequestFresh'
    BY <1>1, <1>2, <1>3, <1>7, <1>8 DEF RequestFresh, RequestKind, key
  <1>16. RequestRows'
    BY <1>1, <1>2, <1>3, <1>7, <1>9 DEF RequestRows, key
  <1>17. ToolFresh'
    BY <1>1, <1>2, <1>3, <1>7, <1>8 DEF ToolFresh, key
  <1>18. CheckpointRows'
    BY <1>1, <1>2, <1>3, <1>7, <1>9 DEF CheckpointRows, key
  <1>19. ReplayIsLast'
    BY <1>1, <1>2, <1>3, <1>7, <1>8 DEF ReplayIsLast, key
  <1>20. ConflictOnReplay
    BY <1>7 DEF Logged, ConflictOnReplay
  <1> QED BY <1>8, <1>10, <1>11, <1>12, <1>13, <1>14, <1>15, <1>16, <1>17, <1>18, <1>19, <1>20 DEF KernelInv

\* The checkpoint finds no call open.
LEMMA CheckpointToolInv == ASSUME KernelInv, CheckpointTool PROVE KernelInv' /\ ConflictOnReplay
  <1> DEFINE key == <<"checkpoint:tool", calls[next]>>
  <1>1. /\ KernelTypeOK /\ FoldAgrees /\ EffectsStarted /\ OpenIsLast
        /\ AttemptFresh /\ RequestBound /\ RequestFresh /\ RequestRows
        /\ ToolFresh /\ CheckpointRows /\ ReplayIsLast
    BY DEF KernelInv
  <1>2. /\ pc = "checkpoint"
        /\ UNCHANGED <<author, invocations, request, calls, asked, results, effects>>
        /\ next' = next + 1
    BY DEF CheckpointTool, AlreadyCompleted
  <1>3. next \in 1 .. Len(calls) /\ calls[next] \in CallId
    BY <1>1, <1>2 DEF KernelTypeOK
  <1>4. key \in KernelKey /\ key # NoKey
    BY <1>3, KeysAreKeys
  <1>5. key \notin Written
    BY <1>1, <1>2, <1>3 DEF ToolFresh
  <1>6. Write(Ev("run.checkpoint", "tool.completed", key), "call")
    BY DEF CheckpointTool
  <1> HIDE DEF key
  <1>7. Logged(Ev("run.checkpoint", "tool.completed", key)) /\ pc' = "call"
    <2>1. "run.checkpoint" \in KernelType /\ "tool.completed" \in KernelPayload /\ key \in KernelKey \cup {NoKey}
      BY <1>4 DEF KernelType, KernelPayload
    <2> QED BY <2>1, <1>1, <1>5, <1>6, FreshWrite
  <1>8. /\ log' \in Seq(KernelEvent) /\ recoverable' \in BOOLEAN /\ FoldAgrees'
        /\ Written' = Written \cup {key}
        /\ recoverable' <=> TRUE
    BY <1>4, <1>7 DEF Logged, Ev, SafeAfterCheckpoint
  <1>9. \A r \in Rows' : r \notin Rows =>
            r.key = key /\ r.type = "run.checkpoint" /\ r.author = author /\ r.payload = "tool.completed"
    BY <1>7 DEF Logged, Ev
  <1>10. KernelTypeOK'
    BY <1>1, <1>2, <1>3, <1>7, <1>8 DEF KernelTypeOK, KernelPc, key
  <1>11. EffectsStarted'
    BY <1>1, <1>2, <1>3, <1>7, <1>8 DEF EffectsStarted, key
  <1>12. OpenIsLast'
    BY <1>1, <1>2, <1>3, <1>7, <1>8 DEF OpenIsLast, Opened, key
  <1>13. AttemptFresh'
    BY <1>1, <1>2, <1>3, <1>7, <1>8 DEF AttemptFresh, key
  <1>14. RequestBound'
    BY <1>1, <1>2, <1>3, <1>7, <1>8 DEF RequestBound, RequestKind, key
  <1>15. RequestFresh'
    BY <1>1, <1>2, <1>3, <1>7, <1>8 DEF RequestFresh, RequestKind, key
  <1>16. RequestRows'
    BY <1>1, <1>2, <1>3, <1>7, <1>9 DEF RequestRows, key
  <1>17. ToolFresh'
    BY <1>1, <1>2, <1>3, <1>7, <1>8 DEF ToolFresh, key
  <1>18. CheckpointRows'
    BY <1>1, <1>2, <1>3, <1>7, <1>9 DEF CheckpointRows, key
  <1>19. ReplayIsLast'
    BY <1>1, <1>2, <1>3, <1>7, <1>8 DEF ReplayIsLast, key
  <1>20. ConflictOnReplay
    BY <1>7 DEF Logged, ConflictOnReplay
  <1> QED BY <1>8, <1>10, <1>11, <1>12, <1>13, <1>14, <1>15, <1>16, <1>17, <1>18, <1>19, <1>20 DEF KernelInv

\* The first replay of a Run writes its event.
LEMMA ReplayToolInv == ASSUME KernelInv, ReplayTool PROVE KernelInv' /\ ConflictOnReplay
  <1> DEFINE key == <<"tool-replay", calls[next]>>
  <1>1. /\ KernelTypeOK /\ FoldAgrees /\ EffectsStarted /\ OpenIsLast
        /\ AttemptFresh /\ RequestBound /\ RequestFresh /\ RequestRows
        /\ ToolFresh /\ CheckpointRows /\ ReplayIsLast
    BY DEF KernelInv
  <1>2. /\ pc = "call" /\ next <= Len(calls) /\ calls[next] \in results
        /\ UNCHANGED <<author, invocations, request, calls, next, asked, results, effects>>
    BY DEF ReplayTool, AlreadyCompleted
  <1>3. next \in 1 .. Len(calls) /\ calls[next] \in CallId
    BY <1>1, <1>2 DEF KernelTypeOK
  <1>4. key \in KernelKey /\ key # NoKey
    BY <1>3, KeysAreKeys
  <1>5. key \notin Written
    BY <1>1, <1>2, <1>3 DEF ReplayIsLast
  <1>6. Write(Ev("tool.replayed", "none", key), "replayed")
    BY DEF ReplayTool
  <1> HIDE DEF key
  <1>7. Logged(Ev("tool.replayed", "none", key)) /\ pc' = "replayed"
    <2>1. "tool.replayed" \in KernelType /\ "none" \in KernelPayload /\ key \in KernelKey \cup {NoKey}
      BY <1>4 DEF KernelType, KernelPayload
    <2> QED BY <2>1, <1>1, <1>5, <1>6, FreshWrite
  <1>8. /\ log' \in Seq(KernelEvent) /\ recoverable' \in BOOLEAN /\ FoldAgrees'
        /\ Written' = Written \cup {key}
        /\ recoverable' <=> FALSE
    BY <1>4, <1>7 DEF Logged, Ev, SafeAfterCheckpoint
  <1>9. \A r \in Rows' : r \notin Rows =>
            r.key = key /\ r.type = "tool.replayed" /\ r.author = author /\ r.payload = "none"
    BY <1>7 DEF Logged, Ev
  <1>10. KernelTypeOK'
    BY <1>1, <1>2, <1>3, <1>7, <1>8 DEF KernelTypeOK, KernelPc, key
  <1>11. EffectsStarted'
    BY <1>1, <1>2, <1>3, <1>7, <1>8 DEF EffectsStarted, key
  <1>12. OpenIsLast'
    BY <1>1, <1>2, <1>3, <1>7, <1>8 DEF OpenIsLast, Opened, key
  <1>13. AttemptFresh'
    BY <1>1, <1>2, <1>3, <1>7, <1>8 DEF AttemptFresh, key
  <1>14. RequestBound'
    BY <1>1, <1>2, <1>3, <1>7, <1>8 DEF RequestBound, RequestKind, key
  <1>15. RequestFresh'
    BY <1>1, <1>2, <1>3, <1>7, <1>8 DEF RequestFresh, RequestKind, key
  <1>16. RequestRows'
    BY <1>1, <1>2, <1>3, <1>7, <1>9 DEF RequestRows, key
  <1>17. ToolFresh'
    BY <1>1, <1>2, <1>3, <1>7, <1>8 DEF ToolFresh, key
  <1>18. CheckpointRows'
    BY <1>1, <1>2, <1>3, <1>7, <1>9 DEF CheckpointRows, key
  <1>19. ReplayIsLast'
    BY <1>1, <1>2, <1>3, <1>7, <1>8 DEF ReplayIsLast, key
  <1>20. ConflictOnReplay
    BY <1>7 DEF Logged, ConflictOnReplay
  <1> QED BY <1>8, <1>10, <1>11, <1>12, <1>13, <1>14, <1>15, <1>16, <1>17, <1>18, <1>19, <1>20 DEF KernelInv

\* The end of an execution leaves its record as it is.
LEMMA FinishInv == ASSUME KernelInv, Finish PROVE KernelInv' /\ ConflictOnReplay
  <1> DEFINE type == IF pc = "completing" THEN "run.completed" ELSE "run.failed"
  <1>1. /\ KernelTypeOK /\ FoldAgrees /\ EffectsStarted /\ OpenIsLast
        /\ AttemptFresh /\ RequestBound /\ RequestFresh /\ RequestRows
        /\ ToolFresh /\ CheckpointRows /\ ReplayIsLast
    BY DEF KernelInv
  <1>2. /\ pc \in {"completing", "failing"}
        /\ UNCHANGED <<author, invocations, request, calls, next, asked, results, effects>>
    BY <1>1 DEF Finish, FoldAgrees
  <1> HIDE DEF type
  <1>3. author \in Nat
    BY <1>1 DEF KernelTypeOK
  <1>4. Logged(Ev(type, "none", NoKey)) /\ pc' = "ended"
    <2>1. type \in KernelType /\ "none" \in KernelPayload /\ NoKey \in KernelKey \cup {NoKey}
      BY DEF type, KernelType, KernelPayload
    <2>2. NoKey \notin Written
      BY DEF Written
    <2>3. Write(Ev(type, "none", NoKey), "ended")
      BY DEF Finish, type
    <2> QED BY <2>1, <2>2, <2>3, <1>1, FreshWrite
  <1>5. /\ log' \in Seq(KernelEvent) /\ recoverable' = FALSE /\ FoldAgrees'
        /\ Written' = Written
    BY <1>2, <1>4 DEF Logged, Ev, SafeAfterCheckpoint, type
  <1>6. \A r \in Rows' : r \notin Rows => r.key = NoKey
    BY <1>4 DEF Logged, Ev
  <1>7. KernelTypeOK'
    BY <1>1, <1>2, <1>3, <1>4, <1>5 DEF KernelTypeOK, KernelPc
  <1>8. EffectsStarted'
    BY <1>1, <1>2, <1>3, <1>4, <1>5 DEF EffectsStarted
  <1>9. OpenIsLast'
    BY <1>1, <1>2, <1>3, <1>4, <1>5 DEF OpenIsLast, Opened
  <1>10. AttemptFresh'
    BY <1>1, <1>2, <1>3, <1>4, <1>5 DEF AttemptFresh
  <1>11. RequestBound'
    BY <1>1, <1>2, <1>3, <1>4, <1>5 DEF RequestBound, RequestKind
  <1>12. RequestFresh'
    BY <1>1, <1>2, <1>3, <1>4, <1>5 DEF RequestFresh, RequestKind
  <1>13. RequestRows'
    BY <1>1, <1>2, <1>3, <1>4, <1>6, KeysAreKeys DEF RequestRows
  <1>14. ToolFresh'
    BY <1>1, <1>2, <1>3, <1>4, <1>5 DEF ToolFresh
  <1>15. CheckpointRows'
    BY <1>1, <1>2, <1>3, <1>4, <1>6, KeysAreKeys DEF CheckpointRows
  <1>16. ReplayIsLast'
    BY <1>1, <1>2, <1>3, <1>4, <1>5 DEF ReplayIsLast
  <1>17. ConflictOnReplay
    BY <1>4 DEF Logged, ConflictOnReplay
  <1> QED BY <1>5, <1>7, <1>8, <1>9, <1>10, <1>11, <1>12, <1>13, <1>14, <1>15, <1>16, <1>17 DEF KernelInv

\* A Run is queued again after a crash only if its log is recoverable.
LEMMA RecoverInv == ASSUME KernelInv, Recover PROVE KernelInv' /\ ConflictOnReplay
  <1>1. /\ KernelTypeOK /\ FoldAgrees /\ EffectsStarted /\ OpenIsLast
        /\ AttemptFresh /\ RequestBound /\ RequestFresh /\ RequestRows
        /\ ToolFresh /\ CheckpointRows /\ ReplayIsLast
    BY DEF KernelInv
  <1>2. /\ pc = "down"
        /\ pc' = IF recoverable THEN "queued" ELSE "ended"
        /\ UNCHANGED <<author, invocations, request, calls, next, asked, results, effects>>
    BY <1>1 DEF Recover, FoldAgrees
  <1>3. author \in Nat
    BY <1>1 DEF KernelTypeOK
  <1>4. Logged(Ev("run.recovery_classified", "none", NoKey))
    <2>1. "run.recovery_classified" \in KernelType /\ "none" \in KernelPayload /\ NoKey \in KernelKey \cup {NoKey}
      BY DEF KernelType, KernelPayload
    <2>2. Ev("run.recovery_classified", "none", NoKey) \in KernelEvent
      BY <2>1, <1>3, EvTyped
    <2>3. Insert(Ev("run.recovery_classified", "none", NoKey))
      BY DEF Recover
    <2> QED BY <2>2, <2>3, <1>1, InsertFacts
  <1>5. /\ log' \in Seq(KernelEvent) /\ recoverable' = FALSE /\ FoldAgrees'
        /\ Written' = Written
    BY <1>2, <1>4 DEF Logged, Ev, SafeAfterCheckpoint
  <1>6. \A r \in Rows' : r \notin Rows => r.key = NoKey
    BY <1>4 DEF Logged, Ev
  <1>7. KernelTypeOK'
    BY <1>1, <1>2, <1>3, <1>4, <1>5 DEF KernelTypeOK, KernelPc
  <1>8. EffectsStarted'
    BY <1>1, <1>2, <1>3, <1>4, <1>5 DEF EffectsStarted
  <1>9. OpenIsLast'
    BY <1>1, <1>2, <1>3, <1>4, <1>5 DEF OpenIsLast, Opened
  <1>10. AttemptFresh'
    BY <1>1, <1>2, <1>3, <1>4, <1>5 DEF AttemptFresh
  <1>11. RequestBound'
    BY <1>1, <1>2, <1>3, <1>4, <1>5 DEF RequestBound, RequestKind
  <1>12. RequestFresh'
    BY <1>1, <1>2, <1>3, <1>4, <1>5 DEF RequestFresh, RequestKind
  <1>13. RequestRows'
    BY <1>1, <1>2, <1>3, <1>4, <1>6, KeysAreKeys DEF RequestRows
  <1>14. ToolFresh'
    BY <1>1, <1>2, <1>3, <1>4, <1>5 DEF ToolFresh
  <1>15. CheckpointRows'
    BY <1>1, <1>2, <1>3, <1>4, <1>6, KeysAreKeys DEF CheckpointRows
  <1>16. ReplayIsLast'
    BY <1>1, <1>2, <1>3, <1>4, <1>5 DEF ReplayIsLast
  <1>17. ConflictOnReplay
    BY <1>4 DEF Logged, ConflictOnReplay
  <1> QED BY <1>5, <1>7, <1>8, <1>9, <1>10, <1>11, <1>12, <1>13, <1>14, <1>15, <1>16, <1>17 DEF KernelInv

\* A shutdown queues the Run again only if its log is recoverable.
LEMMA InterruptInv == ASSUME KernelInv, Interrupt PROVE KernelInv' /\ ConflictOnReplay
  <1>1. /\ KernelTypeOK /\ FoldAgrees /\ EffectsStarted /\ OpenIsLast
        /\ AttemptFresh /\ RequestBound /\ RequestFresh /\ RequestRows
        /\ ToolFresh /\ CheckpointRows /\ ReplayIsLast
    BY DEF KernelInv
  <1>2. /\ pc \in {"turn", "streaming", "output", "call", "tool", "executed"}
        /\ pc' = IF recoverable THEN "queued" ELSE "ended"
        /\ UNCHANGED <<author, invocations, request, calls, next, asked, results, effects>>
    BY <1>1 DEF Interrupt, FoldAgrees
  <1>3. author \in Nat
    BY <1>1 DEF KernelTypeOK
  <1>4. Logged(Ev("run.interrupted", "none", NoKey))
    <2>1. "run.interrupted" \in KernelType /\ "none" \in KernelPayload /\ NoKey \in KernelKey \cup {NoKey}
      BY DEF KernelType, KernelPayload
    <2>2. Ev("run.interrupted", "none", NoKey) \in KernelEvent
      BY <2>1, <1>3, EvTyped
    <2>3. Insert(Ev("run.interrupted", "none", NoKey))
      BY DEF Interrupt
    <2> QED BY <2>2, <2>3, <1>1, InsertFacts
  <1>5. /\ log' \in Seq(KernelEvent) /\ recoverable' = FALSE /\ FoldAgrees'
        /\ Written' = Written
    BY <1>2, <1>4 DEF Logged, Ev, SafeAfterCheckpoint
  <1>6. \A r \in Rows' : r \notin Rows => r.key = NoKey
    BY <1>4 DEF Logged, Ev
  <1>7. KernelTypeOK'
    BY <1>1, <1>2, <1>3, <1>4, <1>5 DEF KernelTypeOK, KernelPc
  <1>8. EffectsStarted'
    BY <1>1, <1>2, <1>3, <1>4, <1>5 DEF EffectsStarted
  <1>9. OpenIsLast'
    BY <1>1, <1>2, <1>3, <1>4, <1>5 DEF OpenIsLast, Opened
  <1>10. AttemptFresh'
    BY <1>1, <1>2, <1>3, <1>4, <1>5 DEF AttemptFresh
  <1>11. RequestBound'
    BY <1>1, <1>2, <1>3, <1>4, <1>5 DEF RequestBound, RequestKind
  <1>12. RequestFresh'
    BY <1>1, <1>2, <1>3, <1>4, <1>5 DEF RequestFresh, RequestKind
  <1>13. RequestRows'
    BY <1>1, <1>2, <1>3, <1>4, <1>6, KeysAreKeys DEF RequestRows
  <1>14. ToolFresh'
    BY <1>1, <1>2, <1>3, <1>4, <1>5 DEF ToolFresh
  <1>15. CheckpointRows'
    BY <1>1, <1>2, <1>3, <1>4, <1>6, KeysAreKeys DEF CheckpointRows
  <1>16. ReplayIsLast'
    BY <1>1, <1>2, <1>3, <1>4, <1>5 DEF ReplayIsLast
  <1>17. ConflictOnReplay
    BY <1>4 DEF Logged, ConflictOnReplay
  <1> QED BY <1>5, <1>7, <1>8, <1>9, <1>10, <1>11, <1>12, <1>13, <1>14, <1>15, <1>16, <1>17 DEF KernelInv

\* A new request has a number that no stored key has.
LEMMA StartModelInvocationInv == ASSUME KernelInv, StartModelInvocation PROVE KernelInv' /\ ConflictOnReplay
  <1>1. /\ KernelTypeOK /\ FoldAgrees /\ EffectsStarted /\ OpenIsLast
        /\ AttemptFresh /\ RequestBound /\ RequestFresh /\ RequestRows
        /\ ToolFresh /\ CheckpointRows /\ ReplayIsLast
    BY DEF KernelInv
  <1>2. /\ pc = "turn"
        /\ pc' = "invoked" /\ request' = request + 1 /\ invocations' = request + 1
        /\ UNCHANGED <<log, recoverable, answer, author, calls, next, asked, results, effects>>
    BY DEF StartModelInvocation
  <1>3. author \in Nat /\ invocations \in Nat /\ request \in Nat
    BY <1>1, <1>2 DEF KernelTypeOK
  <1>4. Rows' = Rows /\ Written' = Written /\ FoldAgrees'
    BY <1>1, <1>2 DEF Rows, Written, FoldAgrees
  <1>5. KernelTypeOK'
    BY <1>1, <1>2, <1>3, <1>4 DEF KernelTypeOK, KernelPc
  <1>6. EffectsStarted'
    BY <1>1, <1>2, <1>3, <1>4 DEF EffectsStarted
  <1>7. OpenIsLast'
    BY <1>1, <1>2, <1>3, <1>4 DEF OpenIsLast, Opened
  <1>8. AttemptFresh'
    BY <1>1, <1>2, <1>3, <1>4 DEF AttemptFresh
  <1>9. RequestBound'
    BY <1>1, <1>2, <1>3, <1>4 DEF RequestBound, RequestKind
  <1>10. RequestFresh'
    BY <1>1, <1>2, <1>3, <1>4 DEF RequestBound, RequestFresh, RequestKind
  <1>11. RequestRows'
    BY <1>1, <1>2, <1>3, <1>4 DEF RequestRows
  <1>12. ToolFresh'
    BY <1>1, <1>2, <1>3, <1>4 DEF ToolFresh
  <1>13. CheckpointRows'
    BY <1>1, <1>2, <1>3, <1>4 DEF CheckpointRows
  <1>14. ReplayIsLast'
    BY <1>1, <1>2, <1>3, <1>4 DEF ReplayIsLast
  <1>15. ConflictOnReplay
    BY <1>2 DEF ConflictOnReplay
  <1> QED BY <1>4, <1>5, <1>6, <1>7, <1>8, <1>9, <1>10, <1>11, <1>12, <1>13, <1>14, <1>15 DEF KernelInv

\* The assistant message touches no call.
LEMMA AppendAssistantMessageInv == ASSUME KernelInv, AppendAssistantMessage PROVE KernelInv' /\ ConflictOnReplay
  <1>1. /\ KernelTypeOK /\ FoldAgrees /\ EffectsStarted /\ OpenIsLast
        /\ AttemptFresh /\ RequestBound /\ RequestFresh /\ RequestRows
        /\ ToolFresh /\ CheckpointRows /\ ReplayIsLast
    BY DEF KernelInv
  <1>2. /\ pc = "message"
        /\ pc' \in {"completing", "call"} /\ next' = 1 /\ asked' = asked \cup {calls[i] : i \in 1 .. Len(calls)}
        /\ UNCHANGED <<log, recoverable, answer, author, invocations, request, calls, results, effects>>
    BY DEF AppendAssistantMessage
  <1>3. author \in Nat /\ invocations \in Nat /\ request \in Nat
    BY <1>1, <1>2 DEF KernelTypeOK
  <1>4. Rows' = Rows /\ Written' = Written /\ FoldAgrees'
    BY <1>1, <1>2 DEF Rows, Written, FoldAgrees
  <1>5. KernelTypeOK'
    BY <1>1, <1>2, <1>3, <1>4 DEF KernelTypeOK, KernelPc
  <1>6. EffectsStarted'
    BY <1>1, <1>2, <1>3, <1>4 DEF EffectsStarted
  <1>7. OpenIsLast'
    BY <1>1, <1>2, <1>3, <1>4 DEF OpenIsLast, Opened
  <1>8. AttemptFresh'
    BY <1>1, <1>2, <1>3, <1>4 DEF AttemptFresh
  <1>9. RequestBound'
    BY <1>1, <1>2, <1>3, <1>4 DEF RequestBound, RequestKind
  <1>10. RequestFresh'
    BY <1>1, <1>2, <1>3, <1>4 DEF RequestFresh, RequestKind
  <1>11. RequestRows'
    BY <1>1, <1>2, <1>3, <1>4 DEF RequestRows
  <1>12. ToolFresh'
    BY <1>1, <1>2, <1>3, <1>4 DEF ToolFresh
  <1>13. CheckpointRows'
    BY <1>1, <1>2, <1>3, <1>4 DEF CheckpointRows
  <1>14. ReplayIsLast'
    BY <1>1, <1>2, <1>3, <1>4 DEF ReplayIsLast
  <1>15. ConflictOnReplay
    BY <1>2 DEF ConflictOnReplay
  <1> QED BY <1>4, <1>5, <1>6, <1>7, <1>8, <1>9, <1>10, <1>11, <1>12, <1>13, <1>14, <1>15 DEF KernelInv

\* A turn ends with no call open.
LEMMA NextTurnInv == ASSUME KernelInv, NextTurn PROVE KernelInv' /\ ConflictOnReplay
  <1>1. /\ KernelTypeOK /\ FoldAgrees /\ EffectsStarted /\ OpenIsLast
        /\ AttemptFresh /\ RequestBound /\ RequestFresh /\ RequestRows
        /\ ToolFresh /\ CheckpointRows /\ ReplayIsLast
    BY DEF KernelInv
  <1>2. /\ pc = "call"
        /\ pc' = "turn" /\ calls' = <<>>
        /\ UNCHANGED <<log, recoverable, answer, author, invocations, request, next, asked, results, effects>>
    BY DEF NextTurn
  <1>3. author \in Nat /\ invocations \in Nat /\ request \in Nat
    BY <1>1, <1>2 DEF KernelTypeOK
  <1>4. Rows' = Rows /\ Written' = Written /\ FoldAgrees'
    BY <1>1, <1>2 DEF Rows, Written, FoldAgrees
  <1>5. KernelTypeOK'
    BY <1>1, <1>2, <1>3, <1>4 DEF KernelTypeOK, KernelPc
  <1>6. EffectsStarted'
    BY <1>1, <1>2, <1>3, <1>4 DEF EffectsStarted
  <1>7. OpenIsLast'
    BY <1>1, <1>2, <1>3, <1>4 DEF OpenIsLast, Opened
  <1>8. AttemptFresh'
    BY <1>1, <1>2, <1>3, <1>4 DEF AttemptFresh
  <1>9. RequestBound'
    BY <1>1, <1>2, <1>3, <1>4 DEF RequestBound, RequestKind
  <1>10. RequestFresh'
    BY <1>1, <1>2, <1>3, <1>4 DEF RequestFresh, RequestKind
  <1>11. RequestRows'
    BY <1>1, <1>2, <1>3, <1>4 DEF RequestRows
  <1>12. ToolFresh'
    BY <1>1, <1>2, <1>3, <1>4 DEF ToolFresh
  <1>13. CheckpointRows'
    BY <1>1, <1>2, <1>3, <1>4 DEF CheckpointRows
  <1>14. ReplayIsLast'
    BY <1>1, <1>2, <1>3, <1>4 DEF ReplayIsLast
  <1>15. ConflictOnReplay
    BY <1>2 DEF ConflictOnReplay
  <1> QED BY <1>4, <1>5, <1>6, <1>7, <1>8, <1>9, <1>10, <1>11, <1>12, <1>13, <1>14, <1>15 DEF KernelInv

\* The effect is the first one of its call, which was started.
LEMMA ExecuteToolInv == ASSUME KernelInv, ExecuteTool PROVE KernelInv' /\ ConflictOnReplay
  <1>1. /\ KernelTypeOK /\ FoldAgrees /\ EffectsStarted /\ OpenIsLast
        /\ AttemptFresh /\ RequestBound /\ RequestFresh /\ RequestRows
        /\ ToolFresh /\ CheckpointRows /\ ReplayIsLast
    BY DEF KernelInv
  <1>2. /\ pc = "tool"
        /\ pc' = "executed" /\ effects' = [effects EXCEPT ![calls[next]] = @ + 1]
        /\ UNCHANGED <<log, recoverable, answer, author, invocations, request, calls, next, asked, results>>
    BY DEF ExecuteTool
  <1>3. next \in 1 .. Len(calls) /\ calls[next] \in CallId /\ effects \in [CallId -> Nat]
    BY <1>1, <1>2 DEF KernelTypeOK
  <1>4. Rows' = Rows /\ Written' = Written /\ FoldAgrees'
    BY <1>1, <1>2 DEF Rows, Written, FoldAgrees
  <1>5. KernelTypeOK'
    BY <1>1, <1>2, <1>3, <1>4 DEF KernelTypeOK, KernelPc
  <1>6. EffectsStarted'
    <2>1. effects[calls[next]] = 0 /\ <<"tool-start", calls[next]>> \in Written
      BY <1>1, <1>2 DEF OpenIsLast, Opened
    <2>2. \A c \in CallId : effects'[c] = IF c = calls[next] THEN effects[c] + 1 ELSE effects[c]
      BY <1>2, <1>3
    <2>3. ASSUME NEW c \in CallId
          PROVE  effects'[c] <= 1 /\ (effects'[c] > 0 => <<"tool-start", c>> \in Written')
      <3>1. CASE c = calls[next]
        BY <3>1, <2>1, <2>2, <1>4
      <3>2. CASE c # calls[next]
        BY <3>2, <2>2, <1>1, <1>4 DEF EffectsStarted
      <3> QED BY <3>1, <3>2
    <2> QED BY <2>3 DEF EffectsStarted
  <1>7. OpenIsLast'
    BY <1>1, <1>2, <1>3, <1>4 DEF OpenIsLast, Opened
  <1>8. AttemptFresh'
    BY <1>1, <1>2, <1>3, <1>4 DEF AttemptFresh
  <1>9. RequestBound'
    BY <1>1, <1>2, <1>3, <1>4 DEF RequestBound, RequestKind
  <1>10. RequestFresh'
    BY <1>1, <1>2, <1>3, <1>4 DEF RequestFresh, RequestKind
  <1>11. RequestRows'
    BY <1>1, <1>2, <1>3, <1>4 DEF RequestRows
  <1>12. ToolFresh'
    BY <1>1, <1>2, <1>3, <1>4 DEF ToolFresh
  <1>13. CheckpointRows'
    BY <1>1, <1>2, <1>3, <1>4 DEF CheckpointRows
  <1>14. ReplayIsLast'
    BY <1>1, <1>2, <1>3, <1>4 DEF ReplayIsLast
  <1>15. ConflictOnReplay
    BY <1>2 DEF ConflictOnReplay
  <1> QED BY <1>4, <1>5, <1>6, <1>7, <1>8, <1>9, <1>10, <1>11, <1>12, <1>13, <1>14, <1>15 DEF KernelInv

\* The result closes the one open call.
LEMMA AppendToolResultInv == ASSUME KernelInv, AppendToolResult PROVE KernelInv' /\ ConflictOnReplay
  <1>1. /\ KernelTypeOK /\ FoldAgrees /\ EffectsStarted /\ OpenIsLast
        /\ AttemptFresh /\ RequestBound /\ RequestFresh /\ RequestRows
        /\ ToolFresh /\ CheckpointRows /\ ReplayIsLast
    BY DEF KernelInv
  <1>2. /\ pc = "executed"
        /\ pc' = "result" /\ results' = results \cup {calls[next]}
        /\ UNCHANGED <<log, recoverable, answer, author, invocations, request, calls, next, asked, effects>>
    BY DEF AppendToolResult
  <1>3. next \in 1 .. Len(calls) /\ calls[next] \in CallId
    BY <1>1, <1>2 DEF KernelTypeOK
  <1>4. Rows' = Rows /\ Written' = Written /\ FoldAgrees'
    BY <1>1, <1>2 DEF Rows, Written, FoldAgrees
  <1>5. KernelTypeOK'
    BY <1>1, <1>2, <1>3, <1>4 DEF KernelTypeOK, KernelPc
  <1>6. EffectsStarted'
    BY <1>1, <1>2, <1>3, <1>4 DEF EffectsStarted
  <1>7. OpenIsLast'
    BY <1>1, <1>2, <1>3, <1>4 DEF OpenIsLast, Opened
  <1>8. AttemptFresh'
    BY <1>1, <1>2, <1>3, <1>4 DEF AttemptFresh
  <1>9. RequestBound'
    BY <1>1, <1>2, <1>3, <1>4 DEF RequestBound, RequestKind
  <1>10. RequestFresh'
    BY <1>1, <1>2, <1>3, <1>4 DEF RequestFresh, RequestKind
  <1>11. RequestRows'
    BY <1>1, <1>2, <1>3, <1>4 DEF RequestRows
  <1>12. ToolFresh'
    BY <1>1, <1>2, <1>3, <1>4 DEF ToolFresh, OpenIsLast, Opened
  <1>13. CheckpointRows'
    BY <1>1, <1>2, <1>3, <1>4 DEF CheckpointRows
  <1>14. ReplayIsLast'
    BY <1>1, <1>2, <1>3, <1>4 DEF ReplayIsLast
  <1>15. ConflictOnReplay
    BY <1>2 DEF ConflictOnReplay
  <1> QED BY <1>4, <1>5, <1>6, <1>7, <1>8, <1>9, <1>10, <1>11, <1>12, <1>13, <1>14, <1>15 DEF KernelInv

\* A failing execution leaves its record as it is.
LEMMA ThrowInv == ASSUME KernelInv, Throw PROVE KernelInv' /\ ConflictOnReplay
  <1>1. /\ KernelTypeOK /\ FoldAgrees /\ EffectsStarted /\ OpenIsLast
        /\ AttemptFresh /\ RequestBound /\ RequestFresh /\ RequestRows
        /\ ToolFresh /\ CheckpointRows /\ ReplayIsLast
    BY DEF KernelInv
  <1>2. /\ pc \in {"turn", "streaming", "output", "message", "call", "tool", "executed"}
        /\ pc' = "failing"
        /\ UNCHANGED <<log, recoverable, answer, author, invocations, request, calls, next, asked, results, effects>>
    BY DEF Throw
  <1>3. author \in Nat /\ invocations \in Nat /\ request \in Nat
    BY <1>1, <1>2 DEF KernelTypeOK
  <1>4. Rows' = Rows /\ Written' = Written /\ FoldAgrees'
    BY <1>1, <1>2 DEF Rows, Written, FoldAgrees
  <1>5. KernelTypeOK'
    BY <1>1, <1>2, <1>3, <1>4 DEF KernelTypeOK, KernelPc
  <1>6. EffectsStarted'
    BY <1>1, <1>2, <1>3, <1>4 DEF EffectsStarted
  <1>7. OpenIsLast'
    BY <1>1, <1>2, <1>3, <1>4 DEF OpenIsLast, Opened
  <1>8. AttemptFresh'
    BY <1>1, <1>2, <1>3, <1>4 DEF AttemptFresh
  <1>9. RequestBound'
    BY <1>1, <1>2, <1>3, <1>4 DEF RequestBound, RequestKind
  <1>10. RequestFresh'
    BY <1>1, <1>2, <1>3, <1>4 DEF RequestFresh, RequestKind
  <1>11. RequestRows'
    BY <1>1, <1>2, <1>3, <1>4 DEF RequestRows
  <1>12. ToolFresh'
    BY <1>1, <1>2, <1>3, <1>4 DEF ToolFresh
  <1>13. CheckpointRows'
    BY <1>1, <1>2, <1>3, <1>4 DEF CheckpointRows
  <1>14. ReplayIsLast'
    BY <1>1, <1>2, <1>3, <1>4 DEF ReplayIsLast
  <1>15. ConflictOnReplay
    BY <1>2 DEF ConflictOnReplay
  <1> QED BY <1>4, <1>5, <1>6, <1>7, <1>8, <1>9, <1>10, <1>11, <1>12, <1>13, <1>14, <1>15 DEF KernelInv

\* A crash leaves the durable state as it is.
LEMMA CrashInv == ASSUME KernelInv, Crash PROVE KernelInv' /\ ConflictOnReplay
  <1>1. /\ KernelTypeOK /\ FoldAgrees /\ EffectsStarted /\ OpenIsLast
        /\ AttemptFresh /\ RequestBound /\ RequestFresh /\ RequestRows
        /\ ToolFresh /\ CheckpointRows /\ ReplayIsLast
    BY DEF KernelInv
  <1>2. /\ pc \notin {"queued", "prepared", "down", "ended"}
        /\ pc' = "down"
        /\ UNCHANGED <<log, recoverable, answer, author, invocations, request, calls, next, asked, results, effects>>
    BY DEF Crash
  <1>3. author \in Nat /\ invocations \in Nat /\ request \in Nat
    BY <1>1, <1>2 DEF KernelTypeOK
  <1>4. Rows' = Rows /\ Written' = Written /\ FoldAgrees'
    BY <1>1, <1>2 DEF Rows, Written, FoldAgrees
  <1>5. KernelTypeOK'
    BY <1>1, <1>2, <1>3, <1>4 DEF KernelTypeOK, KernelPc
  <1>6. EffectsStarted'
    BY <1>1, <1>2, <1>3, <1>4 DEF EffectsStarted
  <1>7. OpenIsLast'
    BY <1>1, <1>2, <1>3, <1>4 DEF OpenIsLast, Opened
  <1>8. AttemptFresh'
    BY <1>1, <1>2, <1>3, <1>4 DEF AttemptFresh
  <1>9. RequestBound'
    BY <1>1, <1>2, <1>3, <1>4 DEF RequestBound, RequestKind
  <1>10. RequestFresh'
    BY <1>1, <1>2, <1>3, <1>4 DEF RequestFresh, RequestKind
  <1>11. RequestRows'
    BY <1>1, <1>2, <1>3, <1>4 DEF RequestRows
  <1>12. ToolFresh'
    BY <1>1, <1>2, <1>3, <1>4 DEF ToolFresh
  <1>13. CheckpointRows'
    BY <1>1, <1>2, <1>3, <1>4 DEF CheckpointRows
  <1>14. ReplayIsLast'
    BY <1>1, <1>2, <1>3, <1>4 DEF ReplayIsLast, OpenIsLast
  <1>15. ConflictOnReplay
    BY <1>2 DEF ConflictOnReplay
  <1> QED BY <1>4, <1>5, <1>6, <1>7, <1>8, <1>9, <1>10, <1>11, <1>12, <1>13, <1>14, <1>15 DEF KernelInv

\* A call that the model repeats within a request finds its own event.
LEMMA StreamToolCallInv ==
    ASSUME KernelInv, NEW c \in CallId, StreamToolCall(c) PROVE KernelInv' /\ ConflictOnReplay
  <1> DEFINE key == <<"model-tool", request, c>>
             e == Ev("model.tool_call", "none", key)
  <1>1. /\ KernelTypeOK /\ FoldAgrees /\ EffectsStarted /\ OpenIsLast
        /\ AttemptFresh /\ RequestBound /\ RequestFresh /\ RequestRows
        /\ ToolFresh /\ CheckpointRows /\ ReplayIsLast
    BY DEF KernelInv
  <1>2. /\ pc \in {"streaming", "output"} /\ calls' = Append(calls, c)
        /\ UNCHANGED <<author, invocations, request, next, asked, results, effects>>
    BY DEF StreamToolCall
  <1>3. /\ author \in Nat /\ request \in Nat /\ invocations \in Nat
        /\ calls \in Seq(CallId) /\ calls' \in Seq(CallId)
    BY <1>1, <1>2 DEF KernelTypeOK
  <1>4. key \in KernelKey /\ key # NoKey
    BY <1>3, KeysAreKeys
  <1>5. AppendEvent(e) /\ pc' = IF answer' = "EVENT_IDEMPOTENCY_CONFLICT" THEN "failing" ELSE "output"
    BY DEF StreamToolCall, Write
  <1>6. /\ e.key = key /\ e.type = "model.tool_call" /\ e.author = author /\ e.payload = "none"
        /\ e \in KernelEvent
    BY <1>3, <1>4 DEF Ev, KernelEvent, KernelType, KernelPayload
  <1> HIDE DEF key, e
  <1>7. /\ pc' = "output" /\ log' \in Seq(KernelEvent) /\ FoldAgrees'
        /\ recoverable' \in BOOLEAN /\ (recoverable' => recoverable)
        /\ Written \subseteq Written' /\ Written' \subseteq Written \cup {key}
        /\ \A r \in Rows' : r \notin Rows => r.key = key
        /\ RequestRows'
    <2>1. CASE Insert(e)
      <3>1. Logged(e)
        BY <2>1, <1>1, <1>6, InsertFacts
      <3>2. /\ pc' = "output" /\ log' \in Seq(KernelEvent) /\ recoverable' = FALSE /\ FoldAgrees'
            /\ Written' = Written \cup {key} /\ Rows' = Rows \cup {e}
        BY <3>1, <1>4, <1>5, <1>6 DEF Logged, SafeAfterCheckpoint
      <3>3. ASSUME NEW r \in Rows, NEW d \in CallId, r.key = <<"model-tool", request, d>>
            PROVE  r.type = "model.tool_call" /\ r.author = author /\ r.payload = "none"
        <4>1. r.key # NoKey
          BY <3>3, <1>3, KeysAreKeys
        <4>2. r.key \in Written
          BY <4>1, <3>3 DEF Written
        <4> QED BY <4>2, <3>3, <1>1, <1>2 DEF RequestRows, RequestFresh
      <3>4. RequestRows'
        BY <3>2, <3>3, <1>2, <1>6 DEF RequestRows
      <3> QED BY <3>2, <3>4, <1>6
    <2>2. CASE Repeat(e)
      <3>1. /\ key \in Written /\ UNCHANGED <<log, recoverable>>
            /\ Rows' = Rows /\ Written' = Written /\ FoldAgrees'
            /\ (\A r \in Rows : r.key = e.key => SameEvent(r, e)) => answer' # "EVENT_IDEMPOTENCY_CONFLICT"
        BY <2>2, <1>1, <1>6, RepeatFacts
      <3>2. pc = "output"
        BY <3>1, <1>1, <1>2 DEF RequestFresh, key
      <3>3. pc' = "output"
        BY <3>1, <3>2, <1>1, <1>5, <1>6 DEF RequestRows, SameEvent, key
      <3> QED BY <3>1, <3>2, <3>3, <1>1, <1>2 DEF RequestRows, KernelTypeOK
    <2> QED BY <2>1, <2>2, <1>5 DEF AppendEvent
  <1>8. KernelTypeOK'
    BY <1>1, <1>2, <1>3, <1>7 DEF KernelTypeOK, KernelPc, key
  <1>9. EffectsStarted'
    BY <1>1, <1>2, <1>3, <1>7 DEF EffectsStarted, key
  <1>10. OpenIsLast'
    BY <1>1, <1>2, <1>3, <1>7 DEF OpenIsLast, Opened, key
  <1>11. AttemptFresh'
    BY <1>1, <1>2, <1>3, <1>7 DEF AttemptFresh, key
  <1>12. RequestBound'
    BY <1>1, <1>2, <1>3, <1>7 DEF RequestBound, RequestKind, key
  <1>13. RequestFresh'
    BY <1>1, <1>2, <1>3, <1>7 DEF RequestFresh, RequestKind, key
  <1>14. ToolFresh'
    BY <1>1, <1>2, <1>3, <1>7 DEF ToolFresh, key
  <1>15. CheckpointRows'
    BY <1>1, <1>2, <1>3, <1>7 DEF CheckpointRows, key
  <1>16. ReplayIsLast'
    BY <1>1, <1>2, <1>3, <1>7 DEF ReplayIsLast, key
  <1>17. ConflictOnReplay
    BY <1>7 DEF ConflictOnReplay
  <1> QED BY <1>7, <1>8, <1>9, <1>10, <1>11, <1>12, <1>13, <1>14, <1>15, <1>16, <1>17 DEF KernelInv

\* The checkpoint of a replay finds the one of the completion and fails the Run.
LEMMA CheckpointReplayInv ==
    ASSUME KernelInv, CheckpointReplay PROVE KernelInv' /\ ConflictOnReplay
  <1> DEFINE key == <<"checkpoint:tool", calls[next]>>
             e == Ev("run.checkpoint", "tool.replayed", key)
  <1>1. /\ KernelTypeOK /\ FoldAgrees /\ EffectsStarted /\ OpenIsLast
        /\ AttemptFresh /\ RequestBound /\ RequestFresh /\ RequestRows
        /\ ToolFresh /\ CheckpointRows /\ ReplayIsLast
    BY DEF KernelInv
  <1>2. /\ pc = "replayed" /\ next' = next + 1
        /\ UNCHANGED <<author, invocations, request, calls, asked, results, effects>>
    BY DEF CheckpointReplay
  <1>3. next \in 1 .. Len(calls) /\ calls[next] \in CallId /\ author \in Nat
    BY <1>1, <1>2 DEF KernelTypeOK
  <1>4. key \in Written /\ key \in KernelKey /\ key # NoKey
    BY <1>1, <1>2, <1>3, KeysAreKeys DEF ReplayIsLast
  <1>5. AppendEvent(e) /\ pc' = IF answer' = "EVENT_IDEMPOTENCY_CONFLICT" THEN "failing" ELSE "call"
    BY DEF CheckpointReplay, Write
  <1>6. e.key = key /\ e.payload = "tool.replayed" /\ e \in KernelEvent
    BY <1>3, <1>4 DEF Ev, KernelEvent, KernelType, KernelPayload
  <1> HIDE DEF e
  <1>7. PICK r \in Rows : r.key = key
    BY <1>4 DEF Written
  <1>8. r.payload = "tool.completed"
    BY <1>1, <1>3, <1>7 DEF CheckpointRows
  <1> HIDE DEF key
  <1>9. Repeat(e)
    BY <1>4, <1>5, <1>6, <1>7 DEF AppendEvent, Insert, Stored, Rows
  <1>10. /\ UNCHANGED <<log, recoverable>> /\ Rows' = Rows /\ Written' = Written /\ FoldAgrees'
         /\ answer' = "EVENT_IDEMPOTENCY_CONFLICT"
    BY <1>1, <1>6, <1>7, <1>8, <1>9, RepeatFacts DEF SameEvent
  <1>11. pc' = "failing"
    BY <1>5, <1>10
  <1>12. KernelTypeOK'
    BY <1>1, <1>2, <1>3, <1>10, <1>11 DEF KernelTypeOK, KernelPc
  <1>13. EffectsStarted'
    BY <1>1, <1>2, <1>3, <1>10, <1>11 DEF EffectsStarted
  <1>14. OpenIsLast'
    BY <1>1, <1>2, <1>3, <1>10, <1>11 DEF OpenIsLast, Opened
  <1>15. AttemptFresh'
    BY <1>1, <1>2, <1>3, <1>10, <1>11 DEF AttemptFresh
  <1>16. RequestBound'
    BY <1>1, <1>2, <1>3, <1>10, <1>11 DEF RequestBound, RequestKind
  <1>17. RequestFresh'
    BY <1>1, <1>2, <1>3, <1>10, <1>11 DEF RequestFresh, RequestKind
  <1>18. RequestRows'
    BY <1>1, <1>2, <1>3, <1>10, <1>11 DEF RequestRows
  <1>19. ToolFresh'
    BY <1>1, <1>2, <1>3, <1>10, <1>11 DEF ToolFresh
  <1>20. CheckpointRows'
    BY <1>1, <1>2, <1>3, <1>10, <1>11 DEF CheckpointRows
  <1>21. ReplayIsLast'
    BY <1>1, <1>2, <1>3, <1>10, <1>11 DEF ReplayIsLast
  <1>22. ConflictOnReplay
    BY <1>2 DEF ConflictOnReplay
  <1> QED BY <1>10, <1>12, <1>13, <1>14, <1>15, <1>16, <1>17, <1>18, <1>19, <1>20, <1>21, <1>22 DEF KernelInv

\* A new attempt has a number that no run-start key has.
LEMMA PrepareInv == ASSUME KernelInv, Prepare PROVE KernelInv' /\ ConflictOnReplay
  <1> DEFINE e == [Ev("run.attempt.prepared", "none", NoKey) EXCEPT !.author = author + 1]
  <1>1. /\ KernelTypeOK /\ FoldAgrees /\ EffectsStarted /\ OpenIsLast
        /\ AttemptFresh /\ RequestBound /\ RequestFresh /\ RequestRows
        /\ ToolFresh /\ CheckpointRows /\ ReplayIsLast
    BY DEF KernelInv
  <1>2. /\ pc = "queued" /\ pc' = "prepared" /\ author' = author + 1
        /\ UNCHANGED <<invocations, request, calls, next, asked, results, effects>>
    BY DEF Prepare
  <1>3. author \in Nat /\ author + 1 \in Nat
    BY <1>1 DEF KernelTypeOK
  <1>4. e \in KernelEvent /\ e.key = NoKey /\ e.type = "run.attempt.prepared"
    BY <1>3 DEF Ev, KernelEvent, KernelType, KernelPayload
  <1>5. Insert(e)
    BY DEF Prepare
  <1> HIDE DEF e
  <1>6. Logged(e)
    BY <1>1, <1>4, <1>5, InsertFacts
  <1>7. /\ log' \in Seq(KernelEvent) /\ recoverable' = FALSE /\ FoldAgrees'
        /\ Written' = Written
        /\ \A r \in Rows' : r \notin Rows => r.key = NoKey
    BY <1>4, <1>6 DEF Logged, SafeAfterCheckpoint
  <1>8. KernelTypeOK'
    BY <1>1, <1>2, <1>3, <1>7 DEF KernelTypeOK, KernelPc
  <1>9. EffectsStarted'
    BY <1>1, <1>2, <1>3, <1>7 DEF EffectsStarted
  <1>10. OpenIsLast'
    BY <1>1, <1>2, <1>3, <1>7 DEF OpenIsLast, Opened
  <1>11. AttemptFresh'
    BY <1>1, <1>2, <1>3, <1>7 DEF AttemptFresh
  <1>12. RequestBound'
    BY <1>1, <1>2, <1>3, <1>7 DEF RequestBound, RequestKind
  <1>13. RequestFresh'
    BY <1>1, <1>2, <1>3, <1>7 DEF RequestFresh, RequestKind
  <1>14. RequestRows'
    BY <1>1, <1>2, <1>3, <1>7, KeysAreKeys DEF RequestRows
  <1>15. ToolFresh'
    BY <1>1, <1>2, <1>3, <1>7 DEF ToolFresh
  <1>16. CheckpointRows'
    BY <1>1, <1>2, <1>3, <1>7, KeysAreKeys DEF CheckpointRows
  <1>17. ReplayIsLast'
    BY <1>1, <1>2, <1>3, <1>7 DEF ReplayIsLast
  <1>18. ConflictOnReplay
    BY <1>6 DEF Logged, ConflictOnReplay
  <1> QED BY <1>7, <1>8, <1>9, <1>10, <1>11, <1>12, <1>13, <1>14, <1>15, <1>16, <1>17, <1>18 DEF KernelInv

-----------------------------------------------------------------------------
\* The invariant holds initially and along every step.
LEMMA KernelInvInit == ASSUME KernelInit PROVE KernelInv
  <1>1. log = <<>> /\ recoverable = FALSE /\ pc = "prepared" /\ effects = [c \in CallId |-> 0]
    BY DEF KernelInit, LogInit
  <1>2. Rows = {} /\ Written = {}
    BY <1>1 DEF Rows, Written
  <1>3. FoldAgrees
    BY <1>1 DEF FoldAgrees, HasRecoverableCheckpoint
  <1>4. KernelTypeOK
    <2>1. log \in Seq(KernelEvent) /\ calls \in Seq(CallId)
      BY <1>1 DEF KernelInit
    <2>3. recoverable \in BOOLEAN
      BY <1>1, Zenon
    <2>2. effects \in [CallId -> Nat]
      BY <1>1
    <2> QED BY <2>1, <2>2, <2>3, <1>1 DEF KernelInit, KernelTypeOK, KernelPc
  <1>5. EffectsStarted
    BY <1>1, <1>2 DEF EffectsStarted
  <1>6. OpenIsLast /\ AttemptFresh
    BY <1>1, <1>2 DEF OpenIsLast, Opened, AttemptFresh
  <1>7. RequestBound /\ RequestFresh /\ RequestRows
    BY <1>1, <1>2 DEF RequestBound, RequestFresh, RequestRows
  <1>8. ToolFresh /\ CheckpointRows /\ ReplayIsLast
    BY <1>1, <1>2 DEF KernelInit, ToolFresh, CheckpointRows, ReplayIsLast
  <1> QED BY <1>3, <1>4, <1>5, <1>6, <1>7, <1>8 DEF KernelInv

LEMMA KernelInvStutter == ASSUME KernelInv, UNCHANGED kernelVars PROVE KernelInv' /\ ConflictOnReplay
  <1>1. Rows' = Rows /\ Written' = Written
    BY DEF kernelVars, Rows, Written
  <1>2. FoldAgrees' /\ KernelTypeOK'
    BY DEF KernelInv, kernelVars, FoldAgrees, KernelTypeOK
  <1>3. EffectsStarted' /\ OpenIsLast' /\ AttemptFresh'
    BY <1>1 DEF KernelInv, kernelVars, EffectsStarted, OpenIsLast, Opened, AttemptFresh
  <1>4. RequestBound' /\ RequestFresh' /\ RequestRows'
    BY <1>1 DEF KernelInv, kernelVars, RequestBound, RequestFresh, RequestRows
  <1>5. ToolFresh' /\ CheckpointRows' /\ ReplayIsLast'
    BY <1>1 DEF KernelInv, kernelVars, ToolFresh, CheckpointRows, ReplayIsLast
  <1>6. ConflictOnReplay
    BY DEF kernelVars, ConflictOnReplay
  <1> QED BY <1>2, <1>3, <1>4, <1>5, <1>6 DEF KernelInv

LEMMA KernelInvStep == ASSUME KernelInv, [KernelNext]_kernelVars PROVE KernelInv' /\ ConflictOnReplay
  <1>1. CASE UNCHANGED kernelVars
    BY <1>1, KernelInvStutter
  <1>2. CASE \E c \in CallId : StreamToolCall(c)
    BY <1>2, StreamToolCallInv
  <1>3. CASE \/ Start \/ StartModelInvocation \/ RequestModel \/ StreamDelta \/ RetryModel
             \/ CompleteModel \/ AppendAssistantMessage \/ NextTurn
    BY <1>3, StartInv, StartModelInvocationInv, RequestModelInv, StreamDeltaInv, RetryModelInv,
       CompleteModelInv, AppendAssistantMessageInv, NextTurnInv
  <1>4. CASE \/ StartTool \/ ExecuteTool \/ AppendToolResult \/ CompleteTool \/ CheckpointTool
             \/ ReplayTool \/ CheckpointReplay
    BY <1>4, StartToolInv, ExecuteToolInv, AppendToolResultInv, CompleteToolInv,
       CheckpointToolInv, ReplayToolInv, CheckpointReplayInv
  <1>5. CASE Throw \/ Finish \/ Recover \/ Prepare \/ Crash \/ Interrupt
    BY <1>5, ThrowInv, FinishInv, RecoverInv, PrepareInv, CrashInv, InterruptInv
  <1> QED BY <1>1, <1>2, <1>3, <1>4, <1>5 DEF KernelNext, KernelStep

\* The record of an execution stays sound through retries, crashes, shutdowns
\* and resumptions.
THEOREM KernelRecordSound == KernelSpec => []KernelInv
  <1>1. KernelInit => KernelInv
    BY KernelInvInit
  <1>2. KernelInv /\ [KernelNext]_kernelVars => KernelInv'
    BY KernelInvStep
  <1> QED BY <1>1, <1>2, PTL DEF KernelSpec

\* What the invariant says of side effects: a call that had its effect and is not
\* recorded is open, and a Run with an open call is neither queued nor prepared.
LEMMA InvAccounts == ASSUME KernelInv PROVE EffectsAccounted
  <1>1. ExecutedOnce
    BY DEF KernelInv, EffectsStarted, ExecutedOnce
  <1>2. EffectsRecorded
    BY DEF KernelInv, EffectsStarted, OpenIsLast, Opened, EffectsRecorded
  <1> QED BY <1>1, <1>2 DEF EffectsAccounted

\* Every Tool call of the kernel has its side effect at most once, and no Run is
\* queued again while the effect of one of its calls is not recorded.
THEOREM KernelEffectsAccounted == KernelSpec => []EffectsAccounted
  <1>1. KernelInv => EffectsAccounted
    BY InvAccounts
  <1> QED BY <1>1, KernelRecordSound, PTL

\* The kernel meets a key of its own nowhere but at the checkpoint of a call that
\* it replays, however often it lost its counters.
THEOREM KernelNoConflict == KernelSpec => NoConflict
  <1>1. KernelInv /\ [KernelNext]_kernelVars =>
            [pc' = "failing" /\ answer' = "EVENT_IDEMPOTENCY_CONFLICT" /\ answer # answer'
                => pc = "replayed"]_kernelVars
    BY KernelInvStep DEF ConflictOnReplay
  <1> QED BY <1>1, KernelRecordSound, PTL DEF KernelSpec, NoConflict
-----------------------------------------------------------------------------
(* Browser: sessions, pages and observations.                               *)

\* The transitions that close sessions.
Closers == {"closeSession", "cancelRun", "sweep", "closeAll"}

\* Which call a transition answers, and what it is about.
RowFits(t) ==
    /\ t.op \in {"openSession", "openPage", "closePage", "closeSession"} => t.by \in BRun
    /\ t.op \in {"openPage", "closePage", "closeSession"} => t.s \in BSess
    /\ t.op = "closePage" => t.p \in BPage

\* close() takes its turn once.
QueueFits ==
    /\ bq \in Seq(TransitionRow)
    /\ \A i \in DOMAIN bq : RowFits(bq[i]) /\ (bq[i].op = "closeAll" => bclose = "queued" /\ bstate # "CLOSED")
    /\ \A i, j \in DOMAIN bq : bq[i].op = "closeAll" /\ bq[j].op = "closeAll" => i = j

\* Which transition is at which step.
PhaseFits ==
    /\ bpc # "begin" => bq # <<>>
    /\ bpc \in {"launch", "context"} => Head(bq).op = "openSession"
    /\ bpc \in {"newpage", "goto"} => Head(bq).op = "openPage"
    /\ bpc \in {"sessions", "pages"} => Head(bq).op \in Closers
    /\ bpc = "pageclose" =>
          Head(bq).op \in Closers \cup {"closePage"} /\ Head(bq).p \in BPage /\ bpage[Head(bq).p].st # "NONE"

\* A transition that closes sessions is in the middle of one.
InSession == bpc = "pages" \/ (bpc = "pageclose" /\ Head(bq).op # "closePage")

\* What a closing transition has still to close is recorded, and close() has
\* all that is recorded still to close.
ClosingFits ==
    /\ bpc = "sessions" \/ InSession => Head(bq).todo \subseteq Recorded
    /\ InSession => Head(bq).s \in Recorded \ Head(bq).todo
    /\ bpc = "sessions" /\ Head(bq).op = "closeAll" => Recorded \subseteq Head(bq).todo
    /\ InSession /\ Head(bq).op = "closeAll" => Recorded \subseteq Head(bq).todo \cup {Head(bq).s}

\* The steps of close(), and the runtime that is closed.
StateFits ==
    /\ bclose = "no" <=> ~BStopping
    /\ bstate = "CLOSED" => bclose = "queued" /\ bpc \in {"begin", "sessions"} /\ ~browser /\ Recorded = {}
    /\ bclose = "queued" => \A r \in BRun : bcall[r].pc \notin Tracked

\* Between the check of maxSessions and the insertion nothing else is inserted,
\* and no session is open while a browser is launched.
SessionsFit ==
    /\ IsFiniteSet(OpenSessions) /\ Cardinality(OpenSessions) <= MaxSessions
    /\ bpc \in {"launch", "context"} => Cardinality(OpenSessions) < MaxSessions
    /\ bpc = "launch" => ~browser
    /\ \A s \in OpenSessions : browser /\ bsess[s].gen = bgen

\* The runtime is never ahead of the driver, and level with it as long as page
\* and session are open.
PageFits(p) ==
    bpage[p].st # "NONE" =>
       /\ bpage[p].s \in BSess /\ bsess[bpage[p].s].st # "NONE"
       /\ bpage[p].doc <= bpage[p].ddoc
       /\ bpage[p].st = "OPEN" /\ bsess[bpage[p].s].st = "OPEN" =>
            bpage[p].doc = bpage[p].ddoc /\ bpage[p].refs \subseteq {<<bpage[p].ddoc, bpage[p].ddoc>>}
PagesFit == \A p \in BPage : PageFits(p)

\* A tracked call holds a page that was there, and observed none of its
\* documents to come.
CallFits(c) ==
    c.pc \in Tracked =>
       /\ c.s \in BSess /\ c.p \in BPage /\ bpage[c.p].st # "NONE"
       /\ c.g <= bpage[c.p].ddoc
CallsFit == \A r \in BRun : CallFits(bcall[r])

\* The inductive invariant of Browser.
BrowserInv ==
    /\ BrowserTypeOK /\ QueueFits /\ PhaseFits /\ ClosingFits
    /\ StateFits /\ SessionsFit /\ PagesFit /\ CallsFit

\* The types, part by part.
LEMMA BrTypes ==
    ASSUME BrowserInv
    PROVE  /\ bstate \in {"IDLE", "LAUNCHING", "READY", "FAILED", "CLOSING", "CLOSED"}
           /\ bgen \in 0 .. MaxGen /\ browser \in BOOLEAN
           /\ bsess \in [BSess -> SessionRecord] /\ bpage \in [BPage -> PageRecord]
           /\ bq \in Seq(TransitionRow)
           /\ bpc \in {"begin", "launch", "context", "newpage", "goto", "sessions", "pages", "pageclose"}
           /\ bcall \in [BRun -> ToolCall]
           /\ bclose \in {"no", "ops", "queued"} /\ bover \subseteq BRun
           /\ bcalls \in 0 .. MaxBCalls /\ bfaults \in 0 .. MaxBFaults
           /\ MaxSessions \in Nat /\ MaxDocs \in Nat /\ 1 <= MaxDocs /\ MaxGen \in Nat
           /\ MaxBCalls \in Nat /\ MaxBFaults \in Nat
<1>1. bq \in Seq(TransitionRow) BY DEF BrowserInv, QueueFits
<1>2. MaxSessions \in Nat /\ MaxDocs \in Nat /\ 1 <= MaxDocs /\ MaxGen \in Nat /\ MaxBCalls \in Nat /\ MaxBFaults \in Nat
  BY BrowserAssumption
<1>3. BrowserTypeOK BY DEF BrowserInv
<1> QED BY <1>1, <1>2, <1>3 DEF BrowserTypeOK

\* The fields of a session, of a page and of a call.
LEMMA BrFields ==
    ASSUME BrowserInv
    PROVE  /\ \A s \in BSess : /\ bsess[s].st \in {"NONE", "OPEN", "CLOSING", "CRASHED", "CLOSED"}
                               /\ bsess[s].run \in BRun \cup {NoSess} /\ bsess[s].gen \in 0 .. MaxGen
                               /\ bsess[s].idle \in BOOLEAN
           /\ \A p \in BPage : /\ bpage[p].st \in {"NONE", "OPEN", "CLOSING", "CRASHED", "CLOSED"}
                               /\ bpage[p].s \in BSess \cup {NoSess}
                               /\ bpage[p].doc \in 1 .. MaxDocs /\ bpage[p].ddoc \in 1 .. MaxDocs
                               /\ bpage[p].refs \in SUBSET ((1 .. MaxDocs) \X (1 .. MaxDocs))
           /\ \A r \in BRun : /\ bcall[r].tool \in {"none", "navigated", "recover"} \cup BrowserTools
                              /\ bcall[r].pc \in {"idle", "start", "queued"} \cup Tracked
                              /\ bcall[r].s \in BSess \cup {NoSess} /\ bcall[r].p \in BPage \cup {NoPage}
                              /\ bcall[r].g \in 1 .. MaxDocs /\ bcall[r].row \in OperationStatus
<1>1. \A s \in BSess : bsess[s] \in SessionRecord BY BrTypes
<1>2. \A p \in BPage : bpage[p] \in PageRecord BY BrTypes
<1>3. \A r \in BRun : bcall[r] \in ToolCall BY BrTypes
<1>4. ASSUME NEW s \in BSess
      PROVE  /\ bsess[s].st \in {"NONE", "OPEN", "CLOSING", "CRASHED", "CLOSED"}
             /\ bsess[s].run \in BRun \cup {NoSess} /\ bsess[s].gen \in 0 .. MaxGen
             /\ bsess[s].idle \in BOOLEAN
  BY <1>1 DEF SessionRecord
<1>5. ASSUME NEW p \in BPage
      PROVE  /\ bpage[p].st \in {"NONE", "OPEN", "CLOSING", "CRASHED", "CLOSED"}
             /\ bpage[p].s \in BSess \cup {NoSess}
             /\ bpage[p].doc \in 1 .. MaxDocs /\ bpage[p].ddoc \in 1 .. MaxDocs
             /\ bpage[p].refs \in SUBSET ((1 .. MaxDocs) \X (1 .. MaxDocs))
  BY <1>2 DEF PageRecord
<1>6. ASSUME NEW r \in BRun
      PROVE  /\ bcall[r].tool \in {"none", "navigated", "recover"} \cup BrowserTools
             /\ bcall[r].pc \in {"idle", "start", "queued"} \cup Tracked
             /\ bcall[r].s \in BSess \cup {NoSess} /\ bcall[r].p \in BPage \cup {NoPage}
             /\ bcall[r].g \in 1 .. MaxDocs /\ bcall[r].row \in OperationStatus
  BY <1>3 DEF ToolCall
<1> QED BY <1>4, <1>5, <1>6

\* A transition is queued behind others.
LEMMA QueueAppended ==
    ASSUME NEW u \in Seq(TransitionRow), \A i \in DOMAIN u : RowFits(u[i]),
           \A i, j \in DOMAIN u : u[i].op = "closeAll" /\ u[j].op = "closeAll" => i = j,
           NEW t \in TransitionRow, RowFits(t), NEW d, d = Append(u, t),
           t.op = "closeAll" => \A i \in DOMAIN u : u[i].op # "closeAll"
    PROVE  /\ d \in Seq(TransitionRow) /\ d # <<>> /\ (u # <<>> => Head(d) = Head(u))
           /\ \A i \in DOMAIN d : RowFits(d[i])
           /\ \A i \in DOMAIN d : d[i].op = "closeAll" => t.op = "closeAll" \/ \E j \in DOMAIN u : u[j].op = "closeAll"
           /\ \A i, j \in DOMAIN d : d[i].op = "closeAll" /\ d[j].op = "closeAll" => i = j
<1>1. d \in Seq(TransitionRow) /\ Len(d) = Len(u) + 1 /\ d[Len(u) + 1] = t /\ Len(u) \in Nat OBVIOUS
<1>2. \A i \in 1 .. Len(u) : d[i] = u[i] OBVIOUS
<1>3. DOMAIN d = 1 .. Len(u) + 1 /\ DOMAIN u = 1 .. Len(u) BY <1>1
<1>4. d # <<>> BY <1>1
<1>5. u # <<>> => Head(d) = Head(u) BY <1>1, <1>2
<1>6. \A i \in DOMAIN d : RowFits(d[i]) BY <1>1, <1>2, <1>3
<1>7. \A i \in DOMAIN d : d[i].op = "closeAll" => t.op = "closeAll" \/ \E j \in DOMAIN u : u[j].op = "closeAll"
  BY <1>1, <1>2, <1>3
<1>8. ASSUME NEW i \in DOMAIN d, NEW j \in DOMAIN d, d[i].op = "closeAll", d[j].op = "closeAll" PROVE i = j
  <2>1. CASE i \in DOMAIN u /\ j \in DOMAIN u BY <1>2, <1>3, <1>8, <2>1
  <2>2. CASE i \notin DOMAIN u \/ j \notin DOMAIN u
    <3>1. t.op = "closeAll" BY <1>1, <1>3, <1>8, <2>2
    <3> QED BY <1>1, <1>2, <1>3, <1>8, <3>1
  <2> QED BY <2>1, <2>2
<1> QED BY <1>1, <1>4, <1>5, <1>6, <1>7, <1>8

\* The transition under way ends.
LEMMA QueuePopped ==
    ASSUME QueueFits, bq # <<>>, NEW d, d = Tail(bq)
    PROVE  /\ d \in Seq(TransitionRow)
           /\ \A i \in DOMAIN d : RowFits(d[i])
           /\ \A i \in DOMAIN d : d[i].op = "closeAll" =>
                Head(bq).op # "closeAll" /\ \E j \in DOMAIN bq : bq[j].op = "closeAll"
           /\ \A i, j \in DOMAIN d : d[i].op = "closeAll" /\ d[j].op = "closeAll" => i = j
<1>1. bq \in Seq(TransitionRow) /\ \A i \in DOMAIN bq : RowFits(bq[i]) BY DEF QueueFits
<1>2. d \in Seq(TransitionRow) /\ Len(d) = Len(bq) - 1 /\ Len(bq) \in Nat /\ Len(bq) >= 1 /\ Head(bq) = bq[1] BY <1>1
<1>3. \A i \in 1 .. Len(d) : d[i] = bq[i + 1] BY <1>1, <1>2
<1>4. DOMAIN d = 1 .. Len(bq) - 1 /\ DOMAIN bq = 1 .. Len(bq) BY <1>1, <1>2
<1>5. \A i \in DOMAIN d : i + 1 \in DOMAIN bq /\ i + 1 # 1 /\ d[i] = bq[i + 1] BY <1>2, <1>3, <1>4
<1>6. \A i \in DOMAIN d : RowFits(d[i]) BY <1>1, <1>5
<1>7. 1 \in DOMAIN bq BY <1>2, <1>4
<1>8. \A i \in DOMAIN d : d[i].op = "closeAll" => Head(bq).op # "closeAll" /\ \E j \in DOMAIN bq : bq[j].op = "closeAll"
  BY <1>2, <1>5, <1>7 DEF QueueFits
<1>9. ASSUME NEW i \in DOMAIN d, NEW j \in DOMAIN d, d[i].op = "closeAll", d[j].op = "closeAll" PROVE i = j
  <2>1. i + 1 = j + 1 BY <1>5, <1>9 DEF QueueFits
  <2> QED BY <1>4, <2>1
<1> QED BY <1>2, <1>6, <1>8, <1>9

\* A sequence with one more element in front.
LEMMA HeadPut ==
    ASSUME NEW T, NEW t \in T, NEW u \in Seq(T), NEW d, d = <<t>> \o u
    PROVE  d \in Seq(T) /\ Len(d) = Len(u) + 1 /\ d[1] = t /\ \A i \in 2 .. Len(u) + 1 : d[i] = u[i - 1]
<1>1. <<t>> \in Seq(T) /\ Len(<<t>>) = 1 /\ <<t>>[1] = t OBVIOUS
<1>2. d \in Seq(T) /\ Len(d) = Len(u) + 1 BY <1>1
<1>3. d[1] = t BY <1>1
<1>4. \A i \in 2 .. Len(u) + 1 : d[i] = u[i - 1] BY <1>1
<1> QED BY <1>2, <1>3, <1>4

\* A queue whose head was replaced.
LEMMA HeadReplaced ==
    ASSUME NEW T, NEW q \in Seq(T), q # <<>>, NEW t \in T, NEW d, d = <<t>> \o Tail(q)
    PROVE  d \in Seq(T) /\ Len(d) = Len(q) /\ d[1] = t /\ \A i \in 2 .. Len(q) : d[i] = q[i]
<1>1. /\ Tail(q) \in Seq(T) /\ Len(Tail(q)) = Len(q) - 1 /\ Len(q) \in Nat /\ Len(q) >= 1
      /\ \A i \in 1 .. Len(q) - 1 : Tail(q)[i] = q[i + 1]
  OBVIOUS
<1>2. PICK u \in Seq(T) : u = Tail(q) BY <1>1
<1>3. d = <<t>> \o u BY <1>2
<1>4. d \in Seq(T) /\ Len(d) = Len(u) + 1 /\ d[1] = t /\ \A i \in 2 .. Len(u) + 1 : d[i] = u[i - 1]
  BY <1>3, HeadPut
<1>5. Len(u) + 1 = Len(q) BY <1>1, <1>2
<1>6. ASSUME NEW i \in 2 .. Len(q) PROVE d[i] = q[i]
  <2>1. i - 1 \in 1 .. Len(q) - 1 /\ i - 1 + 1 = i BY <1>1
  <2>2. u[i - 1] = q[i] BY <1>1, <1>2, <2>1
  <2> QED BY <1>4, <1>5, <2>2
<1> QED BY <1>4, <1>5, <1>6

\* The transition under way goes on.
LEMMA QueueProceeds ==
    ASSUME QueueFits, bq # <<>>, NEW t \in TransitionRow, RowFits(t), t.op = Head(bq).op,
           NEW d \in Seq(TransitionRow), Len(d) = Len(bq), d[1] = t, \A i \in 2 .. Len(bq) : d[i] = bq[i]
    PROVE  /\ d # <<>> /\ Head(d) = t
           /\ \A i \in DOMAIN d : RowFits(d[i])
           /\ \A i \in DOMAIN d : d[i].op = "closeAll" => \E j \in DOMAIN bq : bq[j].op = "closeAll"
           /\ \A i, j \in DOMAIN d : d[i].op = "closeAll" /\ d[j].op = "closeAll" => i = j
<1>1. bq \in Seq(TransitionRow) /\ \A i \in DOMAIN bq : RowFits(bq[i]) BY DEF QueueFits
<1>2. Len(bq) \in Nat /\ Len(bq) >= 1 /\ Head(bq) = bq[1] /\ DOMAIN bq = 1 .. Len(bq) BY <1>1
<1>3. DOMAIN d = 1 .. Len(bq) /\ d # <<>> /\ Head(d) = t BY <1>2
<1>4. \A i \in DOMAIN d : RowFits(d[i]) BY <1>1, <1>2, <1>3
<1>5. \A i \in DOMAIN d : i \in DOMAIN bq /\ d[i].op = bq[i].op BY <1>2, <1>3
<1> QED BY <1>3, <1>4, <1>5 DEF QueueFits

\* The row of the head.
LEMMA HeadRow ==
    ASSUME BrowserInv, bq # <<>>
    PROVE  /\ Head(bq) \in TransitionRow /\ RowFits(Head(bq))
           /\ Head(bq).op \in {"openSession", "openPage", "closePage"} \cup Closers
           /\ Head(bq).by \in BRun \cup {Closer, Sweeper} /\ Head(bq).s \in BSess \cup {NoSess}
           /\ Head(bq).p \in BPage \cup {NoPage} /\ Head(bq).todo \subseteq BSess
           /\ Head(bq).op = "closeAll" => bclose = "queued" /\ bstate # "CLOSED"
<1>1. bq \in Seq(TransitionRow) BY BrTypes
<1>2. 1 \in DOMAIN bq /\ Head(bq) = bq[1] BY <1>1
<1>3. Head(bq) \in TransitionRow BY <1>1
<1>4. RowFits(Head(bq)) /\ (Head(bq).op = "closeAll" => bclose = "queued" /\ bstate # "CLOSED")
  BY <1>2 DEF BrowserInv, QueueFits
<1>5. /\ Head(bq).op \in {"openSession", "openPage", "closePage"} \cup Closers
      /\ Head(bq).by \in BRun \cup {Closer, Sweeper} /\ Head(bq).s \in BSess \cup {NoSess}
      /\ Head(bq).p \in BPage \cup {NoPage} /\ Head(bq).todo \subseteq BSess
  BY <1>3 DEF TransitionRow, Closers
<1> QED BY <1>3, <1>4, <1>5

\* A step that leaves the queue, the browser and close() alone, and no session
\* changes its state: beside the transitions.
LEMMA BrBeside ==
    ASSUME BrowserInv, UNCHANGED <<bstate, bgen, browser, bq, bpc, bclose>>,
           bsess' \in [BSess -> SessionRecord],
           \A s \in BSess : bsess'[s].st = bsess[s].st /\ bsess'[s].gen = bsess[s].gen,
           bpage' \in [BPage -> PageRecord], \A p \in BPage : bpage[p].st # "NONE" => bpage'[p].st # "NONE",
           bcall' \in [BRun -> ToolCall],
           \A r \in BRun : bcall'[r].pc \in Tracked => bcall[r].pc \in Tracked \/ bclose = "no",
           bover' \subseteq BRun, bcalls' \in 0 .. MaxBCalls, bfaults' \in 0 .. MaxBFaults,
           PagesFit', CallsFit'
    PROVE  BrowserInv'
<1>1. OpenSessions' = OpenSessions /\ Recorded' = Recorded BY DEF OpenSessions, Recorded
<1>2. BrowserTypeOK' BY BrTypes DEF BrowserInv, BrowserTypeOK
<1>3. QueueFits' BY DEF BrowserInv, QueueFits
<1>4. PhaseFits' BY DEF BrowserInv, PhaseFits
<1>5. ClosingFits' BY <1>1 DEF BrowserInv, ClosingFits, InSession
<1>6. StateFits' BY <1>1 DEF BrowserInv, StateFits, BStopping
<1>7. SessionsFit'
  <2>1. \A s \in OpenSessions : s \in BSess BY DEF OpenSessions
  <2> QED BY <1>1, <2>1 DEF BrowserInv, SessionsFit
<1> QED BY <1>2, <1>3, <1>4, <1>5, <1>6, <1>7 DEF BrowserInv

\* A session is used or grows idle, nothing else.
LEMMA IdleOnly ==
    ASSUME BrowserInv, NEW s, NEW b \in BOOLEAN, NEW d, d = [bsess EXCEPT ![s].idle = b] \/ d = bsess
    PROVE  /\ d \in [BSess -> SessionRecord]
           /\ \A x \in BSess : d[x].st = bsess[x].st /\ d[x].gen = bsess[x].gen
<1>1. bsess \in [BSess -> SessionRecord] BY BrTypes
<1>2. CASE d = bsess BY <1>1, <1>2
<1>3. CASE d = [bsess EXCEPT ![s].idle = b]
  <2>1. ASSUME NEW x \in BSess PROVE d[x] \in SessionRecord /\ d[x].st = bsess[x].st /\ d[x].gen = bsess[x].gen
    <3>1. bsess[x] \in SessionRecord BY <1>1
    <3>2. d[x] = bsess[x] \/ d[x] = [bsess[x] EXCEPT !.idle = b] BY <1>1, <1>3
    <3> QED BY <3>1, <3>2 DEF SessionRecord
  <2>2. d \in [BSess -> SessionRecord] BY <1>1, <1>3, <2>1
  <2> QED BY <2>1, <2>2
<1> QED BY <1>2, <1>3

\* A step that uses a session keeps what it is.
LEMMA SessionUsed ==
    ASSUME BrowserInv, NEW s, bsess' = [bsess EXCEPT ![s].idle = FALSE] \/ UNCHANGED bsess
    PROVE  /\ bsess' \in [BSess -> SessionRecord]
           /\ \A x \in BSess : bsess'[x].st = bsess[x].st /\ bsess'[x].gen = bsess[x].gen
<1>1. PICK b \in BOOLEAN : b = FALSE OBVIOUS
<1>2. bsess' = [bsess EXCEPT ![s].idle = b] \/ bsess' = bsess BY <1>1
<1> QED BY <1>2, IdleOnly

\* A call that ends.
LEMMA CallEnds ==
    ASSUME BrowserInv, NEW r \in BRun, NEW status \in OperationStatus
    PROVE  ToolEnds(bcall[r], status) \in ToolCall /\ ToolEnds(bcall[r], status).pc = "idle"
<1>1. bcall[r].row \in OperationStatus BY BrFields
<1>2. 1 \in 1 .. MaxDocs BY BrTypes
<1>3. PICK w \in OperationStatus : w = (IF bcall[r].row = "STARTED" THEN status ELSE bcall[r].row) BY <1>1
<1>4. ToolEnds(bcall[r], status) = [NoTool EXCEPT !.row = w] BY <1>3 DEF ToolEnds
<1>5. [NoTool EXCEPT !.row = w] =
        [tool |-> "none", pc |-> "idle", s |-> NoSess, p |-> NoPage, g |-> 1, row |-> w]
  BY DEF NoTool
<1> QED BY <1>2, <1>4, <1>5 DEF ToolCall

\* The table of calls when one of them ends.
LEMMA TableEnds ==
    ASSUME BrowserInv, NEW r, NEW status \in OperationStatus, CompleteOperation(r, status)
    PROVE  /\ bcall' \in [BRun -> ToolCall]
           /\ \A q \in BRun : bcall'[q].pc \in Tracked => bcall[q].pc \in Tracked /\ bcall'[q] = bcall[q]
<1>1. bcall \in [BRun -> ToolCall] BY BrTypes
<1>2. bcall' = [bcall EXCEPT ![r] = ToolEnds(bcall[r], status)] BY DEF CompleteOperation
<1>3. CASE r \notin BRun BY <1>1, <1>2, <1>3
<1>4. CASE r \in BRun
  <2>1. PICK c \in ToolCall : c = ToolEnds(bcall[r], status) /\ c.pc = "idle" BY <1>4, CallEnds
  <2>2. bcall' = [bcall EXCEPT ![r] = c] BY <1>2, <2>1
  <2>3. c.pc \notin Tracked BY <2>1 DEF Tracked
  <2> QED BY <1>1, <2>2, <2>3
<1> QED BY <1>3, <1>4

\* The table of calls when one of them goes on.
LEMMA TableUpdated ==
    ASSUME BrowserInv, NEW r \in BRun, NEW c \in ToolCall, bcall' = [bcall EXCEPT ![r] = c]
    PROVE  /\ bcall' \in [BRun -> ToolCall] /\ bcall'[r] = c
           /\ \A q \in BRun : q # r => bcall'[q] = bcall[q]
  BY BrTypes

\* A step that only changes calls: none begins to work once close() has begun.
LEMMA BrCalls ==
    ASSUME BrowserInv, UNCHANGED <<bstate, bgen, browser, bsess, bpage, bq, bpc, bclose>>,
           bcall' \in [BRun -> ToolCall],
           \A r \in BRun : bcall'[r].pc \in Tracked =>
              CallFits(bcall'[r]) /\ (bcall[r].pc \in Tracked \/ bclose = "no"),
           bover' \subseteq BRun, bcalls' \in 0 .. MaxBCalls, bfaults' \in 0 .. MaxBFaults
    PROVE  BrowserInv'
<1>1. PagesFit' BY DEF BrowserInv, PagesFit, PageFits
<1>2. CallsFit' BY DEF CallsFit, CallFits
<1>3. bsess \in [BSess -> SessionRecord] /\ bpage \in [BPage -> PageRecord] BY BrTypes
<1> QED BY <1>1, <1>2, <1>3, BrBeside

\* Mostly, a call ends.
LEMMA BrEnds ==
    ASSUME BrowserInv, UNCHANGED <<bstate, bgen, browser, bsess, bpage, bq, bpc, bclose, bover, bcalls>>,
           NEW r, NEW status \in OperationStatus, CompleteOperation(r, status), bfaults' \in 0 .. MaxBFaults
    PROVE  BrowserInv'
<1>1. /\ bcall' \in [BRun -> ToolCall]
      /\ \A q \in BRun : bcall'[q].pc \in Tracked => bcall[q].pc \in Tracked /\ bcall'[q] = bcall[q]
  BY TableEnds
<1>2. \A q \in BRun : bcall'[q].pc \in Tracked => CallFits(bcall'[q]) BY <1>1 DEF BrowserInv, CallsFit
<1> QED BY <1>1, <1>2, BrTypes, BrCalls

\* A page goes on, and with it perhaps a call.
LEMMA BrPage ==
    ASSUME BrowserInv, UNCHANGED <<bstate, bgen, browser, bq, bpc, bclose, bover, bcalls>>, bfaults' \in 0 .. MaxBFaults,
           bsess' \in [BSess -> SessionRecord],
           \A s \in BSess : bsess'[s].st = bsess[s].st /\ bsess'[s].gen = bsess[s].gen,
           NEW p \in BPage, NEW P \in PageRecord, bpage' = [bpage EXCEPT ![p] = P],
           bpage[p].st # "NONE", P.st # "NONE", P.s = bpage[p].s, bpage[p].ddoc <= P.ddoc, P.doc <= P.ddoc,
           P.st = "OPEN" /\ bsess[P.s].st = "OPEN" => P.doc = P.ddoc /\ P.refs \subseteq {<<P.ddoc, P.ddoc>>},
           bcall' \in [BRun -> ToolCall],
           \A r \in BRun : bcall'[r].pc \in Tracked => bcall[r].pc \in Tracked /\ CallFits(bcall'[r])
    PROVE  BrowserInv'
<1>1. bpage \in [BPage -> PageRecord] BY BrTypes
<1>2. bpage' \in [BPage -> PageRecord] /\ bpage'[p] = P /\ \A q \in BPage : q # p => bpage'[q] = bpage[q] BY <1>1
<1>3. \A q \in BPage : bpage[q].st # "NONE" => bpage'[q].st # "NONE" BY <1>2
<1>4. PagesFit'
  <2> SUFFICES ASSUME NEW q \in BPage PROVE PageFits(q)'
    BY DEF PagesFit
  <2>1. PageFits(q) /\ PageFits(p) BY DEF BrowserInv, PagesFit
  <2>2. CASE q = p
    <3>1. P.s \in BSess /\ bsess[P.s].st # "NONE" BY <2>1 DEF PageFits
    <3>2. bsess'[P.s].st = bsess[P.s].st BY <3>1
    <3> QED BY <1>2, <2>2, <3>1, <3>2 DEF PageFits
  <2>3. CASE q # p
    <3>1. bpage'[q] = bpage[q] BY <1>2, <2>3
    <3>2. bpage[q].st # "NONE" => bsess'[bpage[q].s].st = bsess[bpage[q].s].st BY <2>1 DEF PageFits
    <3> QED BY <2>1, <3>1, <3>2 DEF PageFits
  <2> QED BY <2>2, <2>3
<1>5. CallsFit'
  <2> SUFFICES ASSUME NEW r \in BRun, bcall'[r].pc \in Tracked
               PROVE  /\ bcall'[r].s \in BSess /\ bcall'[r].p \in BPage /\ bpage'[bcall'[r].p].st # "NONE"
                      /\ bcall'[r].g <= bpage'[bcall'[r].p].ddoc
    BY DEF CallsFit, CallFits
  <2> DEFINE c == bcall'[r]
  <2>1. c.s \in BSess /\ c.p \in BPage /\ bpage[c.p].st # "NONE" /\ c.g <= bpage[c.p].ddoc BY DEF CallFits
  <2>2. c.g \in 1 .. MaxDocs
    <3>1. c \in ToolCall OBVIOUS
    <3> HIDE DEF c
    <3> QED BY <3>1 DEF ToolCall
  <2> HIDE DEF c
  <2>3. bpage[c.p].ddoc \in 1 .. MaxDocs BY <2>1, BrFields
  <2>4. P.ddoc \in 1 .. MaxDocs BY DEF PageRecord
  <2>5. bpage[c.p].ddoc <= bpage'[c.p].ddoc
    <3>1. CASE c.p = p BY <1>2, <3>1
    <3>2. CASE c.p # p BY <1>2, <2>1, <2>3, <3>2
    <3> QED BY <3>1, <3>2
  <2>6. bpage'[c.p].ddoc \in Nat BY <1>2, <2>1, <2>3, <2>4
  <2>7. c.g <= bpage'[c.p].ddoc BY <2>1, <2>2, <2>3, <2>5, <2>6
  <2>8. bpage'[c.p].st # "NONE" BY <1>3, <2>1
  <2> QED BY <2>1, <2>7, <2>8 DEF c
<1> QED BY <1>2, <1>3, <1>4, <1>5, BrTypes, BrBeside

\* A call begins.
LEMMA BrBegins ==
    ASSUME BrowserInv, NEW r \in BRun, NEW tool \in BrowserTools, BeginTool(r, tool)
    PROVE  BrowserInv'
<1> DEFINE c == [NoTool EXCEPT !.tool = tool, !.pc = "start", !.row = "STARTED"]
<1>1. /\ bcalls < MaxBCalls /\ bcalls' = bcalls + 1 /\ bcall' = [bcall EXCEPT ![r] = c]
      /\ UNCHANGED <<bstate, bgen, browser, bsess, bpage, bq, bpc, bclose, bover, bfaults>>
  BY DEF BeginTool, BeginOperation
<1>2. NoTool = [tool |-> "none", pc |-> "idle", s |-> NoSess, p |-> NoPage, g |-> 1, row |-> "NONE"] BY DEF NoTool
<1>3. 1 \in 1 .. MaxDocs BY BrTypes
<1>4. c \in ToolCall /\ c.pc = "start" BY <1>2, <1>3 DEF ToolCall, OperationStatus
<1> HIDE DEF c
<1>5. bcall' \in [BRun -> ToolCall] /\ bcall'[r] = c /\ \A q \in BRun : q # r => bcall'[q] = bcall[q]
  BY <1>1, <1>4, TableUpdated
<1>6. \A q \in BRun : bcall'[q].pc \in Tracked => CallFits(bcall'[q]) /\ bcall[q].pc \in Tracked
  BY <1>4, <1>5 DEF BrowserInv, CallsFit, Tracked
<1>7. bcalls' \in 0 .. MaxBCalls BY <1>1, BrTypes
<1> QED BY <1>1, <1>5, <1>6, <1>7, BrTypes, BrCalls

\* A transition is asked for, and perhaps a call awaits it.
LEMMA BrAsks ==
    ASSUME BrowserInv, UNCHANGED <<bstate, bgen, browser, bsess, bpage, bpc, bclose>>,
           NEW t \in TransitionRow, RowFits(t), t.op # "closeAll", bq' = Append(bq, t),
           bcall' \in [BRun -> ToolCall],
           \A r \in BRun : bcall'[r].pc \in Tracked => bcall[r].pc \in Tracked /\ bcall'[r] = bcall[r],
           bover' \subseteq BRun, bcalls' \in 0 .. MaxBCalls, bfaults' \in 0 .. MaxBFaults
    PROVE  BrowserInv'
<1>1. /\ QueueFits /\ bq \in Seq(TransitionRow) /\ \A i \in DOMAIN bq : RowFits(bq[i])
      /\ \A i, j \in DOMAIN bq : bq[i].op = "closeAll" /\ bq[j].op = "closeAll" => i = j
  BY DEF BrowserInv, QueueFits
<1>2. /\ bq' \in Seq(TransitionRow) /\ bq' # <<>> /\ (bq # <<>> => Head(bq') = Head(bq))
      /\ \A i \in DOMAIN bq' : RowFits(bq'[i])
      /\ \A i \in DOMAIN bq' : bq'[i].op = "closeAll" => \E j \in DOMAIN bq : bq[j].op = "closeAll"
      /\ \A i, j \in DOMAIN bq' : bq'[i].op = "closeAll" /\ bq'[j].op = "closeAll" => i = j
  BY <1>1, QueueAppended
<1>3. QueueFits' BY <1>1, <1>2 DEF QueueFits
<1>4. OpenSessions' = OpenSessions /\ Recorded' = Recorded BY DEF OpenSessions, Recorded
<1>5. \A i \in DOMAIN bq' : bq'[i] \in TransitionRow BY <1>2
<1>6. BrowserTypeOK' BY <1>5, BrTypes DEF BrowserInv, BrowserTypeOK
<1>7. bpc # "begin" => bq # <<>> /\ Head(bq') = Head(bq) BY <1>2 DEF BrowserInv, PhaseFits
<1>8. PhaseFits' BY <1>2, <1>7 DEF BrowserInv, PhaseFits
<1>9. ClosingFits' BY <1>4, <1>7 DEF BrowserInv, ClosingFits, InSession
<1>10. StateFits' BY <1>4 DEF BrowserInv, StateFits, BStopping
<1>11. SessionsFit' BY <1>4 DEF BrowserInv, SessionsFit
<1>12. PagesFit' BY DEF BrowserInv, PagesFit, PageFits
<1>13. CallsFit' BY DEF BrowserInv, CallsFit, CallFits
<1> QED BY <1>3, <1>6, <1>8, <1>9, <1>10, <1>11, <1>12, <1>13 DEF BrowserInv

\* A transition that is asked for has its type.
LEMMA TransitionTyped ==
    ASSUME NEW op \in {"openSession", "openPage", "closePage", "closeSession", "cancelRun", "sweep", "closeAll"},
           NEW by \in BRun \cup {Closer, Sweeper}, NEW s \in BSess \cup {NoSess}, NEW p \in BPage \cup {NoPage}
    PROVE  /\ Transition(op, by, s, p) \in TransitionRow
           /\ Transition(op, by, s, p).op = op /\ Transition(op, by, s, p).by = by
           /\ Transition(op, by, s, p).s = s /\ Transition(op, by, s, p).p = p
  BY DEF Transition, TransitionRow

\* A call waits for its turn.
LEMMA TableQueued ==
    ASSUME BrowserInv, NEW r \in BRun, bcall' = [bcall EXCEPT ![r].pc = "queued"]
    PROVE  /\ bcall' \in [BRun -> ToolCall]
           /\ \A q \in BRun : bcall'[q].pc \in Tracked => bcall[q].pc \in Tracked /\ bcall'[q] = bcall[q]
<1> DEFINE c == [bcall[r] EXCEPT !.pc = "queued"]
<1>1. bcall \in [BRun -> ToolCall] BY BrTypes
<1>2. bcall[r] \in ToolCall BY <1>1
<1>3. c \in ToolCall /\ c.pc = "queued" BY <1>2 DEF ToolCall
<1>4. bcall' = [bcall EXCEPT ![r] = c] BY <1>1
<1> HIDE DEF c
<1>5. bcall' \in [BRun -> ToolCall] /\ bcall'[r] = c /\ \A q \in BRun : q # r => bcall'[q] = bcall[q]
  BY <1>3, <1>4, TableUpdated
<1> QED BY <1>3, <1>5 DEF Tracked

\* browser.open and browser.close take their turn.
LEMMA BrQueues ==
    ASSUME BrowserInv, NEW r \in BRun, OpenOwnedPage(r) \/ CloseOwned(r)
    PROVE  BrowserInv'
<1>1. /\ bcall' = [bcall EXCEPT ![r].pc = "queued"]
      /\ UNCHANGED <<bstate, bgen, browser, bsess, bpage, bpc, bclose, bover, bcalls, bfaults>>
  BY DEF OpenOwnedPage, CloseOwned
<1>2. \E t \in TransitionRow : RowFits(t) /\ t.op # "closeAll" /\ bq' = Append(bq, t)
  <2>1. CASE OpenOwnedPage(r)
    <3>1. (\E s \in OpenSessions : Serialize(Transition("openPage", r, s, NoPage)))
            \/ Serialize(Transition("openSession", r, NoSess, NoPage))
      BY <2>1 DEF OpenOwnedPage
    <3>2. ASSUME NEW s \in OpenSessions, Serialize(Transition("openPage", r, s, NoPage))
          PROVE  \E t \in TransitionRow : RowFits(t) /\ t.op # "closeAll" /\ bq' = Append(bq, t)
      <4>1. s \in BSess BY DEF OpenSessions
      <4>2. PICK t \in TransitionRow : t = Transition("openPage", r, s, NoPage) /\ t.op = "openPage" /\ t.by = r /\ t.s = s
        BY <4>1, TransitionTyped
      <4>3. RowFits(t) BY <4>1, <4>2 DEF RowFits
      <4>4. bq' = Append(bq, t) BY <3>2, <4>2 DEF Serialize
      <4> QED BY <4>2, <4>3, <4>4
    <3>3. CASE Serialize(Transition("openSession", r, NoSess, NoPage))
      <4>1. PICK t \in TransitionRow : t = Transition("openSession", r, NoSess, NoPage) /\ t.op = "openSession" /\ t.by = r
        BY TransitionTyped
      <4>2. RowFits(t) BY <4>1 DEF RowFits
      <4>3. bq' = Append(bq, t) BY <3>3, <4>1 DEF Serialize
      <4> QED BY <4>1, <4>2, <4>3
    <3> QED BY <3>1, <3>2, <3>3
  <2>2. CASE CloseOwned(r)
    <3>1. (\E s \in BSess : Serialize(Transition("closeSession", r, s, NoPage)))
            \/ \E s \in BSess, p \in BPage : Serialize(Transition("closePage", r, s, p))
      BY <2>2 DEF CloseOwned
    <3>2. ASSUME NEW s \in BSess, Serialize(Transition("closeSession", r, s, NoPage))
          PROVE  \E t \in TransitionRow : RowFits(t) /\ t.op # "closeAll" /\ bq' = Append(bq, t)
      <4>1. PICK t \in TransitionRow : t = Transition("closeSession", r, s, NoPage) /\ t.op = "closeSession" /\ t.by = r /\ t.s = s
        BY TransitionTyped
      <4>2. RowFits(t) BY <4>1 DEF RowFits
      <4>3. bq' = Append(bq, t) BY <3>2, <4>1 DEF Serialize
      <4> QED BY <4>1, <4>2, <4>3
    <3>3. ASSUME NEW s \in BSess, NEW p \in BPage, Serialize(Transition("closePage", r, s, p))
          PROVE  \E t \in TransitionRow : RowFits(t) /\ t.op # "closeAll" /\ bq' = Append(bq, t)
      <4>1. PICK t \in TransitionRow : /\ t = Transition("closePage", r, s, p) /\ t.op = "closePage"
                                       /\ t.by = r /\ t.s = s /\ t.p = p
        BY TransitionTyped
      <4>2. RowFits(t) BY <4>1 DEF RowFits
      <4>3. bq' = Append(bq, t) BY <3>3, <4>1 DEF Serialize
      <4> QED BY <4>1, <4>2, <4>3
    <3> QED BY <3>1, <3>2, <3>3
  <2> QED BY <2>1, <2>2
<1>3. PICK t \in TransitionRow : RowFits(t) /\ t.op # "closeAll" /\ bq' = Append(bq, t) BY <1>2
<1>4. /\ bcall' \in [BRun -> ToolCall]
      /\ \A q \in BRun : bcall'[q].pc \in Tracked => bcall[q].pc \in Tracked /\ bcall'[q] = bcall[q]
  BY <1>1, TableQueued
<1> QED BY <1>1, <1>3, <1>4, BrTypes, BrAsks

\* A tool begins to work on a page that is there, and not once close() has begun.
LEMMA BrTracks ==
    ASSUME BrowserInv, NEW r \in BRun, NEW tool, NEW as \in {"recover"} \cup BrowserTools, NEW s \in BSess, NEW p \in BPage,
           Track(r, tool, as, s, p)
    PROVE  BrowserInv'
<1> DEFINE c == [bcall[r] EXCEPT !.tool = as, !.pc = "driver", !.s = s, !.p = p, !.g = bpage[p].ddoc]
<1>1. /\ bcall' = [bcall EXCEPT ![r].tool = as, ![r].pc = "driver", ![r].s = s, ![r].p = p, ![r].g = bpage[p].ddoc]
      /\ ~BStopping /\ bpage[p].st \in {"OPEN", "CLOSING"}
      /\ UNCHANGED <<bstate, bgen, browser, bsess, bpage, bq, bpc, bclose, bover, bcalls, bfaults>>
  BY DEF Track, Usable, PageUsable
<1>2. bclose = "no" BY <1>1 DEF BrowserInv, StateFits
<1>3. bcall \in [BRun -> ToolCall] BY BrTypes
<1>4. bcall[r] \in ToolCall /\ bpage[p].ddoc \in 1 .. MaxDocs BY <1>3, BrFields
<1>5. /\ c \in ToolCall /\ c.pc = "driver" /\ c.s = s /\ c.p = p /\ c.g = bpage[p].ddoc
  BY <1>4 DEF ToolCall, Tracked
<1>6. bcall' = [bcall EXCEPT ![r] = c] BY <1>1, <1>3
<1> HIDE DEF c
<1>7. CallFits(c) BY <1>1, <1>4, <1>5 DEF CallFits
<1>8. bcall' \in [BRun -> ToolCall] /\ bcall'[r] = c /\ \A q \in BRun : q # r => bcall'[q] = bcall[q]
  BY <1>5, <1>6, TableUpdated
<1>9. \A q \in BRun : bcall'[q].pc \in Tracked => CallFits(bcall'[q]) BY <1>7, <1>8 DEF BrowserInv, CallsFit
<1> QED BY <1>1, <1>2, <1>8, <1>9, BrTypes, BrCalls

\* Every tool that works on a page begins so.
LEMMA BrStarts ==
    ASSUME BrowserInv, NEW r \in BRun, NEW s \in BSess, NEW p \in BPage, StartOwned(r, s, p)
    PROVE  BrowserInv'
<1>1. PICK tool \in BrowserTools, as \in {"recover"} \cup BrowserTools : Track(r, tool, as, s, p)
  BY DEF StartOwned, NavigateOwned, SnapshotOwned, ScreenshotOwned, DownloadOwned, EvidenceOwned, ActOwned,
         RecoverStaleRef, BrowserTools, TrackedTool, SerializedTool
<1> QED BY <1>1, BrTracks

\* A call is refused, or given up.
LEMMA BrFails ==
    ASSUME BrowserInv, NEW r \in BRun, RefuseTool(r) \/ TrackedFails(r)
    PROVE  BrowserInv'
<1>1. /\ CompleteOperation(r, "FAILED")
      /\ UNCHANGED <<bstate, bgen, browser, bsess, bpage, bq, bpc, bclose, bover, bcalls>>
  BY DEF RefuseTool, TrackedFails
<1>2. bfaults' \in 0 .. MaxBFaults
  <2>1. bfaults' = bfaults \/ (bfaults < MaxBFaults /\ bfaults' = bfaults + 1) BY DEF RefuseTool, TrackedFails, Faulty
  <2> QED BY <2>1, BrTypes
<1>3. "FAILED" \in OperationStatus BY DEF OperationStatus
<1> QED BY <1>1, <1>2, <1>3, BrEnds

\* What the driver observed is a document that the page has.
LEMMA BrObserves ==
    ASSUME BrowserInv, NEW r \in BRun, bcall[r].pc = "driver",
           NEW tool \in {"navigated", "recover"} \cup BrowserTools, Observed(r, tool), OnlyTheCall
    PROVE  BrowserInv'
<1> DEFINE p == bcall[r].p
           c == [bcall[r] EXCEPT !.pc = "policy", !.tool = tool, !.g = bpage[p].ddoc]
<1>1. /\ bcall' = [bcall EXCEPT ![r].pc = "policy", ![r].tool = tool, ![r].g = bpage[p].ddoc]
      /\ UNCHANGED <<bstate, bgen, browser, bsess, bpage, bq, bpc, bclose, bover, bcalls, bfaults>>
  BY DEF Observed, OnlyTheCall
<1>2. bcall[r].s \in BSess /\ p \in BPage /\ bpage[p].st # "NONE" BY DEF BrowserInv, CallsFit, CallFits, Tracked
<1>3. bcall \in [BRun -> ToolCall] BY BrTypes
<1>4. bcall[r] \in ToolCall /\ bpage[p].ddoc \in 1 .. MaxDocs BY <1>2, <1>3, BrFields
<1>5. /\ c \in ToolCall /\ c.pc = "policy" /\ c.s = bcall[r].s /\ c.p = p /\ c.g = bpage[p].ddoc
  BY <1>4 DEF ToolCall, Tracked
<1>6. bcall' = [bcall EXCEPT ![r] = c] BY <1>1, <1>3
<1> HIDE DEF c
<1>7. CallFits(c) BY <1>2, <1>4, <1>5 DEF CallFits
<1>8. bcall' \in [BRun -> ToolCall] /\ bcall'[r] = c /\ \A q \in BRun : q # r => bcall'[q] = bcall[q]
  BY <1>5, <1>6, TableUpdated
<1>9. bcall[r].pc \in Tracked BY DEF Tracked
<1>10. \A q \in BRun : bcall'[q].pc \in Tracked => CallFits(bcall'[q]) /\ bcall[q].pc \in Tracked
  BY <1>7, <1>8, <1>9 DEF BrowserInv, CallsFit
<1> QED BY <1>1, <1>8, <1>10, BrTypes, BrCalls

\* The driver's part of a call.
LEMMA BrDrives ==
    ASSUME BrowserInv, NEW r \in BRun,
           \/ DriverNavigate(r) \/ DriverSnapshot(r) \/ DriverScreenshot(r) \/ DriverAct(r) \/ DriverDownload(r)
    PROVE  BrowserInv'
<1>1. bcall[r].pc = "driver" /\ OnlyTheCall
  BY DEF DriverNavigate, DriverSnapshot, DriverScreenshot, DriverAct, DriverDownload, Driving
<1>2. (\E tool \in {"navigated", "recover"} \cup BrowserTools : Observed(r, tool)) \/ CompleteOperation(r, "FAILED")
  BY DEF DriverNavigate, DriverSnapshot, DriverScreenshot, DriverAct, DriverDownload, Driving,
         BrowserTools, TrackedTool, SerializedTool
<1>3. CASE \E tool \in {"navigated", "recover"} \cup BrowserTools : Observed(r, tool) BY <1>1, <1>3, BrObserves
<1>4. CASE CompleteOperation(r, "FAILED")
  <2>1. UNCHANGED <<bstate, bgen, browser, bsess, bpage, bq, bpc, bclose, bover, bcalls, bfaults>>
    BY <1>1 DEF OnlyTheCall
  <2>2. "FAILED" \in OperationStatus BY DEF OperationStatus
  <2> QED BY <1>4, <2>1, <2>2, BrTypes, BrEnds
<1> QED BY <1>2, <1>3, <1>4

\* A call that ends and has used its session.
LEMMA BrUses ==
    ASSUME BrowserInv, UNCHANGED <<bstate, bgen, browser, bpage, bq, bpc, bclose, bover, bcalls, bfaults>>,
           NEW r, NEW status \in OperationStatus, CompleteOperation(r, status) \/ UNCHANGED bcall,
           NEW s, NEW b \in BOOLEAN, bsess' = [bsess EXCEPT ![s].idle = b] \/ UNCHANGED bsess
    PROVE  BrowserInv'
<1>1. /\ bcall' \in [BRun -> ToolCall]
      /\ \A q \in BRun : bcall'[q].pc \in Tracked => bcall[q].pc \in Tracked /\ bcall'[q] = bcall[q]
  BY TableEnds, BrTypes
<1>2. bsess' \in [BSess -> SessionRecord] /\ \A x \in BSess : bsess'[x].st = bsess[x].st /\ bsess'[x].gen = bsess[x].gen
  BY IdleOnly
<1>3. PagesFit'
  <2> SUFFICES ASSUME NEW p \in BPage PROVE PageFits(p)'
    BY DEF PagesFit
  <2>1. PageFits(p) BY DEF BrowserInv, PagesFit
  <2>2. bpage[p].st # "NONE" => bsess'[bpage[p].s].st = bsess[bpage[p].s].st BY <1>2, <2>1 DEF PageFits
  <2> QED BY <2>1, <2>2 DEF PageFits
<1>4. CallsFit' BY <1>1 DEF BrowserInv, CallsFit, CallFits
<1>5. bpage \in [BPage -> PageRecord] BY BrTypes
<1> QED BY <1>1, <1>2, <1>3, <1>4, <1>5, BrTypes, BrBeside

\* The calls that end without touching the page, and a session that grows idle.
LEMMA BrRecords ==
    ASSUME BrowserInv,
           \/ \E r \in BRun : EvidenceRecord(r) \/ NavigateRecord(r) \/ ArtifactRecorded(r)
           \/ \E s \in BSess : GrowsIdle(s)
    PROVE  BrowserInv'
<1>1. "SUCCEEDED" \in OperationStatus /\ "FAILED" \in OperationStatus BY DEF OperationStatus
<1>2. ASSUME NEW r \in BRun, EvidenceRecord(r) PROVE BrowserInv'
  <2>1. /\ UNCHANGED <<bstate, bgen, browser, bpage, bq, bpc, bclose, bover, bcalls, bfaults>>
        /\ CompleteOperation(r, "SUCCEEDED") \/ CompleteOperation(r, "FAILED")
        /\ bsess' = [bsess EXCEPT ![bcall[r].s].idle = FALSE] \/ UNCHANGED bsess
    BY <1>2 DEF EvidenceRecord
  <2> QED BY <1>1, <2>1, BrUses
<1>3. ASSUME NEW r \in BRun, NavigateRecord(r) \/ ArtifactRecorded(r) PROVE BrowserInv'
  <2>1. /\ UNCHANGED <<bstate, bgen, browser, bpage, bq, bpc, bclose, bover, bcalls, bfaults>>
        /\ CompleteOperation(r, "SUCCEEDED") /\ bsess' = [bsess EXCEPT ![bcall[r].s].idle = FALSE]
    BY <1>3 DEF NavigateRecord, OnlyThePage, Used, ArtifactRecorded
  <2> QED BY <1>1, <2>1, BrUses
<1>4. ASSUME NEW s \in BSess, GrowsIdle(s) PROVE BrowserInv'
  <2>1. /\ UNCHANGED <<bstate, bgen, browser, bpage, bq, bpc, bcall, bclose, bover, bcalls, bfaults>>
        /\ bsess' = [bsess EXCEPT ![s].idle = TRUE]
    BY <1>4 DEF GrowsIdle
  <2> QED BY <1>1, <2>1, BrUses
<1> QED BY <1>2, <1>3, <1>4

\* A page that is brought to a document the driver has.
LEMMA PageSynchronized ==
    ASSUME NEW P \in PageRecord, NEW g \in 1 .. MaxDocs, g <= P.ddoc, ~StaleObservation(P, g)
    PROVE  /\ Synchronized(P, g) \in PageRecord
           /\ Synchronized(P, g).st = P.st /\ Synchronized(P, g).s = P.s /\ Synchronized(P, g).ddoc = P.ddoc
           /\ Synchronized(P, g).doc = g
           /\ (Synchronized(P, g).refs = P.refs /\ g = P.doc) \/ (Synchronized(P, g).refs = {} /\ P.doc < g)
<1>1. P.doc \in Nat /\ P.doc <= g /\ g \in Nat
  <2>1. P.doc \in 1 .. MaxDocs BY DEF PageRecord
  <2> QED BY <2>1, BrowserAssumption DEF StaleObservation
<1>2. CASE g <= P.doc
  <2>1. Synchronized(P, g) = P BY <1>2 DEF Synchronized
  <2>2. g = P.doc BY <1>1, <1>2
  <2> QED BY <2>1, <2>2
<1>3. CASE ~(g <= P.doc)
  <2>1. Synchronized(P, g) = [P EXCEPT !.doc = g, !.refs = {}] BY <1>3 DEF Synchronized
  <2>2. [P EXCEPT !.doc = g, !.refs = {}] \in PageRecord BY DEF PageRecord
  <2>3. /\ [P EXCEPT !.doc = g, !.refs = {}].st = P.st /\ [P EXCEPT !.doc = g, !.refs = {}].s = P.s
        /\ [P EXCEPT !.doc = g, !.refs = {}].ddoc = P.ddoc /\ [P EXCEPT !.doc = g, !.refs = {}].doc = g
        /\ [P EXCEPT !.doc = g, !.refs = {}].refs = {}
    BY DEF PageRecord
  <2> QED BY <1>1, <1>3, <2>1, <2>2, <2>3
<1> QED BY <1>2, <1>3

\* An observation that is not stale brings its page no further than the driver
\* is, and on an open page it is of the document that is shown.
LEMMA PageObserved ==
    ASSUME BrowserInv, NEW r \in BRun, bcall[r].pc \in Tracked, ~StaleObservation(bpage[bcall[r].p], bcall[r].g)
    PROVE  LET p == bcall[r].p
               g == bcall[r].g
               Q == Synchronized(bpage[p], g)
           IN  /\ p \in BPage /\ bpage[p].st # "NONE" /\ bpage[p] \in PageRecord
               /\ g \in 1 .. MaxDocs /\ g <= bpage[p].ddoc
               /\ Q \in PageRecord /\ Q.st = bpage[p].st /\ Q.s = bpage[p].s /\ Q.ddoc = bpage[p].ddoc /\ Q.doc = g
               /\ Q.st = "OPEN" /\ bsess[Q.s].st = "OPEN" => g = Q.ddoc /\ Q.refs \subseteq {<<Q.ddoc, Q.ddoc>>}
<1> DEFINE p == bcall[r].p
           g == bcall[r].g
           Q == Synchronized(bpage[p], g)
<1>1. p \in BPage /\ bpage[p].st # "NONE" /\ g <= bpage[p].ddoc BY DEF BrowserInv, CallsFit, CallFits
<1>2. bpage[p] \in PageRecord /\ g \in 1 .. MaxDocs BY <1>1, BrTypes, BrFields
<1>3. PageFits(p) BY <1>1 DEF BrowserInv, PagesFit
<1>4. ~StaleObservation(bpage[p], g) OBVIOUS
<1> HIDE DEF p, g
<1>5. /\ Q \in PageRecord /\ Q.st = bpage[p].st /\ Q.s = bpage[p].s /\ Q.ddoc = bpage[p].ddoc /\ Q.doc = g
      /\ (Q.refs = bpage[p].refs /\ g = bpage[p].doc) \/ (Q.refs = {} /\ bpage[p].doc < g)
  BY <1>1, <1>2, <1>4, PageSynchronized
<1> HIDE DEF Q
<1>6. ASSUME Q.st = "OPEN", bsess[Q.s].st = "OPEN" PROVE g = Q.ddoc /\ Q.refs \subseteq {<<Q.ddoc, Q.ddoc>>}
  <2>1. bpage[p].doc = bpage[p].ddoc /\ bpage[p].refs \subseteq {<<bpage[p].ddoc, bpage[p].ddoc>>}
    BY <1>1, <1>3, <1>5, <1>6 DEF PageFits
  <2>2. bpage[p].ddoc \in Nat /\ g \in Nat BY <1>1, <1>2, BrFields
  <2>3. g = bpage[p].doc BY <1>1, <1>5, <2>1, <2>2
  <2> QED BY <1>5, <2>1, <2>2, <2>3
<1> QED BY <1>1, <1>2, <1>5, <1>6 DEF p, g, Q

\* A stale observation is refused.
LEMMA BrStale ==
    ASSUME BrowserInv, NEW r, RefuseStale(r), OnlyThePage
    PROVE  BrowserInv'
<1>1. /\ UNCHANGED <<bstate, bgen, browser, bsess, bpage, bq, bpc, bclose, bover, bcalls, bfaults>>
      /\ CompleteOperation(r, "FAILED")
  BY DEF RefuseStale, OnlyThePage
<1>2. "FAILED" \in OperationStatus BY DEF OperationStatus
<1> QED BY <1>1, <1>2, BrTypes, BrEnds

\* A snapshot gives refs of the document that is shown.
LEMMA BrSnapshot ==
    ASSUME BrowserInv, NEW r \in BRun, SnapshotRecord(r)
    PROVE  BrowserInv'
<1>1. bcall[r].pc \in Tracked BY DEF SnapshotRecord, PolicyAllows, Tracked
<1>2. CASE StaleObservation(bpage[bcall[r].p], bcall[r].g) BY <1>2, BrStale DEF SnapshotRecord
<1>3. CASE ~StaleObservation(bpage[bcall[r].p], bcall[r].g)
  <2> DEFINE p == bcall[r].p
             g == bcall[r].g
             Q == Synchronized(bpage[p], g)
             P == [Q EXCEPT !.refs = @ \cup {<<Q.doc, g>>}]
  <2>1. /\ p \in BPage /\ bpage[p].st # "NONE" /\ g \in 1 .. MaxDocs /\ g <= bpage[p].ddoc
        /\ Q \in PageRecord /\ Q.st = bpage[p].st /\ Q.s = bpage[p].s /\ Q.ddoc = bpage[p].ddoc /\ Q.doc = g
        /\ Q.st = "OPEN" /\ bsess[Q.s].st = "OPEN" => g = Q.ddoc /\ Q.refs \subseteq {<<Q.ddoc, Q.ddoc>>}
    BY <1>1, <1>3, PageObserved
  <2>2. /\ bpage' = [bpage EXCEPT ![p] = P]
        /\ CompleteOperation(r, "SUCCEEDED") \/ CompleteOperation(r, "FAILED")
        /\ bsess' = [bsess EXCEPT ![bcall[r].s].idle = FALSE]
        /\ UNCHANGED <<bstate, bgen, browser, bq, bpc, bclose, bover, bcalls, bfaults>>
    BY <1>3 DEF SnapshotRecord, OnlyThePage, Used
  <2> HIDE DEF p, g, Q
  <2>3. P \in PageRecord /\ P.st = Q.st /\ P.s = Q.s /\ P.ddoc = Q.ddoc /\ P.doc = g /\ P.refs = Q.refs \cup {<<g, g>>}
    BY <2>1 DEF PageRecord
  <2> HIDE DEF P
  <2>4. P.st = "OPEN" /\ bsess[P.s].st = "OPEN" => P.doc = P.ddoc /\ P.refs \subseteq {<<P.ddoc, P.ddoc>>}
    BY <2>1, <2>3
  <2>5. "SUCCEEDED" \in OperationStatus /\ "FAILED" \in OperationStatus BY DEF OperationStatus
  <2>6. /\ bcall' \in [BRun -> ToolCall]
        /\ \A q \in BRun : bcall'[q].pc \in Tracked => bcall[q].pc \in Tracked /\ bcall'[q] = bcall[q]
    BY <2>2, <2>5, TableEnds
  <2>7. \A q \in BRun : bcall'[q].pc \in Tracked => CallFits(bcall'[q]) BY <2>6 DEF BrowserInv, CallsFit
  <2>8. bsess' \in [BSess -> SessionRecord] /\ \A x \in BSess : bsess'[x].st = bsess[x].st /\ bsess'[x].gen = bsess[x].gen
  BY <2>2, SessionUsed
  <2>9. bpage[p].ddoc <= P.ddoc /\ P.doc <= P.ddoc
    <3>1. bpage[p].ddoc \in 1 .. MaxDocs BY <2>1, BrFields
    <3>2. P.ddoc = bpage[p].ddoc /\ P.doc = g BY <2>1, <2>3
    <3> QED BY <2>1, <3>1, <3>2
  <2>10. bpage[p].st # "NONE" /\ P.st # "NONE" /\ P.s = bpage[p].s BY <2>1, <2>3
  <2>11. \A q \in BRun : bcall'[q].pc \in Tracked => bcall[q].pc \in Tracked /\ CallFits(bcall'[q]) BY <2>6, <2>7
  <2>12. bfaults' \in 0 .. MaxBFaults BY <2>2, BrTypes
  <2>13. p \in BPage /\ P \in PageRecord /\ bcall' \in [BRun -> ToolCall] BY <2>1, <2>3, <2>6
  <2> QED BY <2>2, <2>4, <2>8, <2>9, <2>10, <2>11, <2>12, <2>13, BrPage
<1> QED BY <1>2, <1>3

\* An observation that is not stale is taken over, and the call ends or goes on.
LEMMA BrTakenOver ==
    ASSUME BrowserInv, NEW r \in BRun, bcall[r].pc \in Tracked, ~StaleObservation(bpage[bcall[r].p], bcall[r].g),
           bpage' = [bpage EXCEPT ![bcall[r].p] = Synchronized(bpage[bcall[r].p], bcall[r].g)],
           bsess' = [bsess EXCEPT ![bcall[r].s].idle = FALSE] \/ UNCHANGED bsess,
           bcall' \in [BRun -> ToolCall],
           \A q \in BRun : bcall'[q].pc \in Tracked => bcall[q].pc \in Tracked /\ CallFits(bcall'[q]),
           UNCHANGED <<bstate, bgen, browser, bq, bpc, bclose, bover, bcalls, bfaults>>
    PROVE  BrowserInv'
<1> DEFINE p == bcall[r].p
           g == bcall[r].g
           Q == Synchronized(bpage[p], g)
<1>1. /\ p \in BPage /\ bpage[p].st # "NONE" /\ g \in 1 .. MaxDocs /\ g <= bpage[p].ddoc
      /\ Q \in PageRecord /\ Q.st = bpage[p].st /\ Q.s = bpage[p].s /\ Q.ddoc = bpage[p].ddoc /\ Q.doc = g
      /\ Q.st = "OPEN" /\ bsess[Q.s].st = "OPEN" => g = Q.ddoc /\ Q.refs \subseteq {<<Q.ddoc, Q.ddoc>>}
  BY PageObserved
<1>2. bpage' = [bpage EXCEPT ![p] = Q] OBVIOUS
<1> HIDE DEF p, g, Q
<1>3. bsess' \in [BSess -> SessionRecord] /\ \A x \in BSess : bsess'[x].st = bsess[x].st /\ bsess'[x].gen = bsess[x].gen
  BY SessionUsed
<1>4. bpage[p].ddoc <= Q.ddoc /\ Q.doc <= Q.ddoc
  <2>1. bpage[p].ddoc \in 1 .. MaxDocs BY <1>1, BrFields
  <2> QED BY <1>1, <2>1
<1> QED BY <1>1, <1>2, <1>3, <1>4, BrTypes, BrPage

\* An action is recorded, and one that navigated goes on with a snapshot.
LEMMA BrActs ==
    ASSUME BrowserInv, NEW r \in BRun, ActRecord(r)
    PROVE  BrowserInv'
<1>1. bcall[r].pc \in Tracked BY DEF ActRecord, PolicyAllows, Tracked
<1>2. CASE StaleObservation(bpage[bcall[r].p], bcall[r].g) BY <1>2, BrStale DEF ActRecord
<1>3. CASE ~StaleObservation(bpage[bcall[r].p], bcall[r].g)
  <2>1. /\ bpage' = [bpage EXCEPT ![bcall[r].p] = Synchronized(bpage[bcall[r].p], bcall[r].g)]
        /\ bsess' = [bsess EXCEPT ![bcall[r].s].idle = FALSE]
        /\ \/ CompleteOperation(r, "SUCCEEDED")
           \/ bcall' = [bcall EXCEPT ![r].pc = "driver", ![r].tool = "snapshot", ![r].g = bpage[bcall[r].p].ddoc]
        /\ UNCHANGED <<bstate, bgen, browser, bq, bpc, bclose, bover, bcalls, bfaults>>
    BY <1>3 DEF ActRecord, OnlyThePage, Used
  <2>2. /\ bcall' \in [BRun -> ToolCall]
        /\ \A q \in BRun : bcall'[q].pc \in Tracked => bcall[q].pc \in Tracked /\ CallFits(bcall'[q])
    <3>1. CASE CompleteOperation(r, "SUCCEEDED")
      <4>1. "SUCCEEDED" \in OperationStatus BY DEF OperationStatus
      <4>2. /\ bcall' \in [BRun -> ToolCall]
            /\ \A q \in BRun : bcall'[q].pc \in Tracked => bcall[q].pc \in Tracked /\ bcall'[q] = bcall[q]
        BY <3>1, <4>1, TableEnds
      <4> QED BY <4>2 DEF BrowserInv, CallsFit
    <3>2. CASE bcall' = [bcall EXCEPT ![r].pc = "driver", ![r].tool = "snapshot", ![r].g = bpage[bcall[r].p].ddoc]
      <4> DEFINE p == bcall[r].p
                 c == [bcall[r] EXCEPT !.pc = "driver", !.tool = "snapshot", !.g = bpage[p].ddoc]
      <4>1. bcall[r].s \in BSess /\ p \in BPage /\ bpage[p].st # "NONE" BY <1>1 DEF BrowserInv, CallsFit, CallFits
      <4>2. bcall \in [BRun -> ToolCall] BY BrTypes
      <4>3. bcall[r] \in ToolCall /\ bpage[p].ddoc \in 1 .. MaxDocs BY <4>1, <4>2, BrFields
      <4>4. c \in ToolCall /\ c.pc = "driver" /\ c.s = bcall[r].s /\ c.p = p /\ c.g = bpage[p].ddoc
        BY <4>3 DEF ToolCall, Tracked, BrowserTools, TrackedTool
      <4>5. bcall' = [bcall EXCEPT ![r] = c] BY <3>2, <4>2
      <4> HIDE DEF c
      <4>6. CallFits(c) BY <4>1, <4>3, <4>4 DEF CallFits
      <4>7. bcall' \in [BRun -> ToolCall] /\ bcall'[r] = c /\ \A q \in BRun : q # r => bcall'[q] = bcall[q]
        BY <4>4, <4>5, TableUpdated
      <4> QED BY <1>1, <4>6, <4>7 DEF BrowserInv, CallsFit
    <3> QED BY <2>1, <3>1, <3>2
  <2> QED BY <1>1, <1>3, <2>1, <2>2, BrTakenOver
<1> QED BY <1>2, <1>3

\* A screenshot and a download go on to the store.
LEMMA BrStores ==
    ASSUME BrowserInv, NEW r \in BRun, ScreenshotRecord(r) \/ DownloadRecord(r)
    PROVE  BrowserInv'
<1>1. bcall[r].pc \in Tracked /\ OnlyThePage /\ StoreArtifact(r)
  BY DEF ScreenshotRecord, DownloadRecord, PolicyAllows, Tracked
<1>2. CASE StaleObservation(bpage[bcall[r].p], bcall[r].g) BY <1>1, <1>2, BrStale DEF StoreArtifact
<1>3. CASE ~StaleObservation(bpage[bcall[r].p], bcall[r].g)
  <2>1. /\ bpage' = [bpage EXCEPT ![bcall[r].p] = Synchronized(bpage[bcall[r].p], bcall[r].g)]
        /\ bsess' = [bsess EXCEPT ![bcall[r].s].idle = FALSE] \/ UNCHANGED bsess
        /\ bcall' = [bcall EXCEPT ![r].pc = "artifact"]
        /\ UNCHANGED <<bstate, bgen, browser, bq, bpc, bclose, bover, bcalls, bfaults>>
    BY <1>1, <1>3 DEF StoreArtifact, OnlyThePage
  <2> DEFINE c == [bcall[r] EXCEPT !.pc = "artifact"]
  <2>2. bcall \in [BRun -> ToolCall] BY BrTypes
  <2>3. bcall[r] \in ToolCall BY <2>2
  <2>4. c \in ToolCall /\ c.pc = "artifact" /\ c.s = bcall[r].s /\ c.p = bcall[r].p /\ c.g = bcall[r].g
    BY <2>3 DEF ToolCall, Tracked
  <2>5. bcall' = [bcall EXCEPT ![r] = c] BY <2>1, <2>2
  <2> HIDE DEF c
  <2>6. CallFits(c) BY <1>1, <2>4 DEF BrowserInv, CallsFit, CallFits
  <2>7. bcall' \in [BRun -> ToolCall] /\ bcall'[r] = c /\ \A q \in BRun : q # r => bcall'[q] = bcall[q]
    BY <2>4, <2>5, TableUpdated
  <2>8. \A q \in BRun : bcall'[q].pc \in Tracked => bcall[q].pc \in Tracked /\ CallFits(bcall'[q])
    BY <1>1, <2>6, <2>7 DEF BrowserInv, CallsFit
  <2> QED BY <1>1, <1>3, <2>1, <2>7, <2>8, BrTakenOver
<1> QED BY <1>2, <1>3

\* The policy refuses an address, and after an act the page is closed.
LEMMA BrDenies ==
    ASSUME BrowserInv, NEW r \in BRun, PolicyRefuses(r) \/ DeniedPageClosed(r)
    PROVE  BrowserInv'
<1> DEFINE p == bcall[r].p
<1>1. bcall[r].pc \in Tracked BY DEF PolicyRefuses, DeniedPageClosed, Tracked
<1>2. bcall[r].s \in BSess /\ p \in BPage /\ bpage[p].st # "NONE" BY <1>1 DEF BrowserInv, CallsFit, CallFits
<1>3. bpage \in [BPage -> PageRecord] /\ bsess \in [BSess -> SessionRecord] /\ bcall \in [BRun -> ToolCall] BY BrTypes
<1>4. bpage[p] \in PageRecord /\ bcall[r] \in ToolCall BY <1>2, <1>3
<1>5. bpage[p].doc <= bpage[p].ddoc /\ bpage[p].ddoc \in Nat BY <1>2, BrFields DEF BrowserInv, PagesFit, PageFits
<1>6. "FAILED" \in OperationStatus BY DEF OperationStatus
<1>7. ASSUME CompleteOperation(r, "FAILED")
      PROVE  /\ bcall' \in [BRun -> ToolCall]
             /\ \A q \in BRun : bcall'[q].pc \in Tracked => bcall[q].pc \in Tracked /\ CallFits(bcall'[q])
  <2>1. /\ bcall' \in [BRun -> ToolCall]
        /\ \A q \in BRun : bcall'[q].pc \in Tracked => bcall[q].pc \in Tracked /\ bcall'[q] = bcall[q]
    BY <1>6, <1>7, TableEnds
  <2> QED BY <2>1 DEF BrowserInv, CallsFit
<1>8. CASE PolicyRefuses(r)
  <2>1. /\ bfaults < MaxBFaults /\ bfaults' = bfaults + 1
        /\ UNCHANGED <<bstate, bgen, browser, bsess, bq, bpc, bclose, bover, bcalls>>
        /\ \/ /\ bpage' = [bpage EXCEPT ![p].st = "CLOSING", ![p].refs = {}]
              /\ bcall' = [bcall EXCEPT ![r].pc = "denied"]
           \/ CompleteOperation(r, "FAILED") /\ UNCHANGED bpage
    BY <1>8 DEF PolicyRefuses, Faulty
  <2>2. bfaults' \in 0 .. MaxBFaults BY <2>1, BrTypes
  <2>3. CASE CompleteOperation(r, "FAILED") /\ UNCHANGED bpage BY <1>6, <2>1, <2>2, <2>3, BrEnds
  <2>4. CASE bpage' = [bpage EXCEPT ![p].st = "CLOSING", ![p].refs = {}] /\ bcall' = [bcall EXCEPT ![r].pc = "denied"]
    <3> DEFINE P == [bpage[p] EXCEPT !.st = "CLOSING", !.refs = {}]
               c == [bcall[r] EXCEPT !.pc = "denied"]
    <3>1. /\ P \in PageRecord /\ P.st = "CLOSING" /\ P.s = bpage[p].s /\ P.ddoc = bpage[p].ddoc /\ P.doc = bpage[p].doc
      BY <1>4 DEF PageRecord
    <3>2. c \in ToolCall /\ c.s = bcall[r].s /\ c.p = p /\ c.g = bcall[r].g BY <1>4 DEF ToolCall, Tracked
    <3>3. bpage' = [bpage EXCEPT ![p] = P] /\ bcall' = [bcall EXCEPT ![r] = c] BY <1>3, <2>4
    <3> HIDE DEF P, c
    <3>4. CallFits(c) BY <1>1, <3>2 DEF BrowserInv, CallsFit, CallFits
    <3>5. bcall' \in [BRun -> ToolCall] /\ bcall'[r] = c /\ \A q \in BRun : q # r => bcall'[q] = bcall[q]
      BY <3>2, <3>3, TableUpdated
    <3>6. \A q \in BRun : bcall'[q].pc \in Tracked => bcall[q].pc \in Tracked /\ CallFits(bcall'[q])
      BY <1>1, <3>4, <3>5 DEF BrowserInv, CallsFit
    <3> HIDE DEF p
    <3>7. \A s \in BSess : bsess'[s].st = bsess[s].st /\ bsess'[s].gen = bsess[s].gen BY <2>1
    <3>8. bpage[p].ddoc <= P.ddoc /\ P.doc <= P.ddoc BY <1>5, <3>1
    <3>9. bsess' \in [BSess -> SessionRecord] BY <1>3, <2>1
    <3> QED BY <1>2, <2>1, <2>2, <3>1, <3>3, <3>5, <3>6, <3>7, <3>8, <3>9, BrPage
  <2> QED BY <2>1, <2>3, <2>4
<1>9. CASE DeniedPageClosed(r)
  <2>1. /\ bpage' = [bpage EXCEPT ![p].st = "CLOSED"] /\ CompleteOperation(r, "FAILED")
        /\ UNCHANGED <<bstate, bgen, browser, bsess, bq, bpc, bclose, bover, bcalls, bfaults>>
    BY <1>9 DEF DeniedPageClosed
  <2> DEFINE P == [bpage[p] EXCEPT !.st = "CLOSED"]
  <2>2. P \in PageRecord /\ P.st = "CLOSED" /\ P.s = bpage[p].s /\ P.ddoc = bpage[p].ddoc /\ P.doc = bpage[p].doc
    BY <1>4 DEF PageRecord
  <2>3. bpage' = [bpage EXCEPT ![p] = P] BY <1>3, <2>1
  <2> HIDE DEF P, p
  <2>4. \A s \in BSess : bsess'[s].st = bsess[s].st /\ bsess'[s].gen = bsess[s].gen BY <2>1
  <2>5. bpage[p].ddoc <= P.ddoc /\ P.doc <= P.ddoc BY <1>5, <2>2
  <2>6. bsess' \in [BSess -> SessionRecord] /\ bfaults' \in 0 .. MaxBFaults BY <1>3, <2>1, BrTypes
  <2>7. /\ bcall' \in [BRun -> ToolCall]
        /\ \A q \in BRun : bcall'[q].pc \in Tracked => bcall[q].pc \in Tracked /\ CallFits(bcall'[q])
    BY <1>7, <2>1
  <2> QED BY <1>2, <2>1, <2>2, <2>3, <2>4, <2>5, <2>6, <2>7, BrPage
<1> QED BY <1>8, <1>9

\* A navigation is heard as long as page and session are open.
LEMMA BrNavigates ==
    ASSUME BrowserInv, NEW p \in BPage, Navigated(p)
    PROVE  BrowserInv'
<1> DEFINE B == bpage[p]
           heard == B.st = "OPEN" /\ bsess[B.s].st = "OPEN"
           N == [B EXCEPT !.ddoc = @ + 1]
           P == IF heard THEN Synchronized(N, B.ddoc + 1) ELSE N
<1>1. /\ B.st \in {"OPEN", "CLOSING"} /\ B.ddoc < MaxDocs
      /\ bpage' = [bpage EXCEPT ![p] = P]
      /\ bsess' = [bsess EXCEPT ![B.s].idle = FALSE] \/ UNCHANGED bsess
      /\ UNCHANGED <<bstate, bgen, browser, bq, bpc, bcall, bclose, bover, bcalls, bfaults>>
  BY DEF Navigated
<1>2. B \in PageRecord /\ B.doc \in 1 .. MaxDocs /\ B.ddoc \in 1 .. MaxDocs /\ MaxDocs \in Nat BY BrTypes, BrFields
<1>3. B.doc <= B.ddoc BY <1>1 DEF BrowserInv, PagesFit, PageFits
<1>4. N \in PageRecord /\ N.st = B.st /\ N.s = B.s /\ N.doc = B.doc /\ N.ddoc = B.ddoc + 1
  BY <1>1, <1>2 DEF PageRecord
<1>5. bsess' \in [BSess -> SessionRecord] /\ \A x \in BSess : bsess'[x].st = bsess[x].st /\ bsess'[x].gen = bsess[x].gen
  BY <1>1, SessionUsed
<1>6. /\ P \in PageRecord /\ P.st = B.st /\ P.s = B.s /\ P.ddoc = B.ddoc + 1 /\ P.doc <= P.ddoc
      /\ heard => P.doc = P.ddoc /\ P.refs = {}
  <2> HIDE DEF B, N
  <2>1. CASE heard
    <3>1. B.ddoc + 1 \in 1 .. MaxDocs /\ B.ddoc + 1 <= N.ddoc /\ ~StaleObservation(N, B.ddoc + 1) /\ N.doc < B.ddoc + 1
      BY <1>1, <1>2, <1>3, <1>4 DEF StaleObservation
    <3>2. PICK g \in 1 .. MaxDocs : g = B.ddoc + 1 BY <3>1
    <3>3. /\ Synchronized(N, g) \in PageRecord
          /\ Synchronized(N, g).st = N.st /\ Synchronized(N, g).s = N.s /\ Synchronized(N, g).ddoc = N.ddoc
          /\ Synchronized(N, g).doc = g
          /\ (Synchronized(N, g).refs = N.refs /\ g = N.doc) \/ (Synchronized(N, g).refs = {} /\ N.doc < g)
      BY <1>4, <3>1, <3>2, PageSynchronized
    <3>4. P = Synchronized(N, g) BY <2>1, <3>2
    <3>5. g # N.doc BY <1>2, <1>4, <3>1, <3>2
    <3> QED BY <1>2, <1>4, <3>2, <3>3, <3>4, <3>5
  <2>2. CASE ~heard
    <3>1. P = N BY <2>2
    <3> QED BY <1>2, <1>3, <1>4, <2>2, <3>1
  <2> QED BY <2>1, <2>2
<1>7. \A q \in BRun : bcall'[q].pc \in Tracked => bcall[q].pc \in Tracked /\ CallFits(bcall'[q])
  BY <1>1 DEF BrowserInv, CallsFit
<1>8. bcall' \in [BRun -> ToolCall] BY <1>1, BrTypes
<1>9. P.st = "OPEN" /\ bsess[P.s].st = "OPEN" => P.doc = P.ddoc /\ P.refs \subseteq {<<P.ddoc, P.ddoc>>} BY <1>6
<1> HIDE DEF P
<1>10. bpage[p].st # "NONE" /\ P.st # "NONE" /\ P.s = bpage[p].s /\ bpage[p].ddoc <= P.ddoc BY <1>1, <1>2, <1>6
<1> QED BY <1>1, <1>5, <1>6, <1>7, <1>8, <1>9, <1>10, BrTypes, BrPage

\* The table of calls is as it was, or one of them ended.
LEMMA CallsKept ==
    ASSUME BrowserInv, \A r \in BRun : bcall'[r].pc \in Tracked => bcall[r].pc \in Tracked /\ bcall'[r] = bcall[r],
           \A p \in BPage : bpage[p].st # "NONE" => bpage'[p].st # "NONE" /\ bpage'[p].ddoc = bpage[p].ddoc
    PROVE  CallsFit'
<1> SUFFICES ASSUME NEW r \in BRun, bcall'[r].pc \in Tracked
             PROVE  /\ bcall[r].s \in BSess /\ bcall[r].p \in BPage /\ bpage'[bcall[r].p].st # "NONE"
                    /\ bcall[r].g <= bpage'[bcall[r].p].ddoc
  BY DEF CallsFit, CallFits
<1> QED BY DEF BrowserInv, CallsFit, CallFits

\* Sessions and the browser are as they were.
LEMMA SessionsKept ==
    ASSUME BrowserInv, UNCHANGED <<browser, bgen>>, \A s \in BSess : bsess'[s].st = bsess[s].st /\ bsess'[s].gen = bsess[s].gen,
           bpc' \notin {"launch", "context"}
    PROVE  SessionsFit' /\ Recorded' = Recorded
<1>1. OpenSessions' = OpenSessions /\ Recorded' = Recorded BY DEF OpenSessions, Recorded
<1>2. \A s \in OpenSessions : s \in BSess BY DEF OpenSessions
<1> QED BY <1>1, <1>2 DEF BrowserInv, SessionsFit

\* Pages are as they were.
LEMMA PagesKept ==
    ASSUME BrowserInv, UNCHANGED bpage, \A s \in BSess : bsess[s].st # "NONE" => bsess'[s].st # "NONE",
           \A s \in BSess : bsess[s].st # "NONE" /\ bsess'[s].st = "OPEN" => bsess[s].st = "OPEN"
    PROVE  PagesFit'
<1> SUFFICES ASSUME NEW p \in BPage PROVE PageFits(p)'
  BY DEF PagesFit
<1>1. PageFits(p) BY DEF BrowserInv, PagesFit
<1> QED BY <1>1 DEF PageFits

\* A page is opened, or goes on to its end.
LEMMA PagesChanged ==
    ASSUME BrowserInv, \A s \in BSess : bsess'[s].st = bsess[s].st,
           NEW p \in BPage, NEW P \in PageRecord, bpage' = [bpage EXCEPT ![p] = P],
           P.s \in BSess, bsess[P.s].st # "NONE", P.doc <= P.ddoc,
           P.st = "OPEN" => P.doc = P.ddoc /\ P.refs = {}
    PROVE  bpage' \in [BPage -> PageRecord] /\ PagesFit'
<1>1. bpage \in [BPage -> PageRecord] BY BrTypes
<1>2. bpage' \in [BPage -> PageRecord] /\ bpage'[p] = P /\ \A q \in BPage : q # p => bpage'[q] = bpage[q] BY <1>1
<1>3. ASSUME NEW q \in BPage PROVE PageFits(q)'
  <2>1. CASE q = p BY <1>2, <2>1 DEF PageFits
  <2>2. CASE q # p
    <3>1. PageFits(q) BY DEF BrowserInv, PagesFit
    <3>2. bpage'[q] = bpage[q] BY <1>2, <2>2
    <3> QED BY <3>1, <3>2 DEF PageFits
  <2> QED BY <2>1, <2>2
<1> QED BY <1>2, <1>3 DEF PagesFit

\* close() is where it was.
LEMMA StateKept ==
    ASSUME BrowserInv, UNCHANGED <<bstate, bclose>>, \A r \in BRun : bcall'[r].pc \in Tracked => bcall[r].pc \in Tracked,
           bstate # "CLOSED" \/ (bpc' \in {"begin", "sessions"} /\ browser' = browser /\ Recorded' = Recorded)
    PROVE  StateFits'
  BY DEF BrowserInv, StateFits, BStopping

\* The transition under way ends.
LEMMA BrPops ==
    ASSUME BrowserInv, bq # <<>>, Pop, UNCHANGED <<bgen, bclose, bover, bcalls>>, bfaults' \in 0 .. MaxBFaults,
           bstate' \in {"IDLE", "LAUNCHING", "READY", "FAILED", "CLOSING", "CLOSED"}, browser' \in BOOLEAN,
           bsess' \in [BSess -> SessionRecord], bpage' \in [BPage -> PageRecord], bcall' \in [BRun -> ToolCall],
           StateFits', SessionsFit', PagesFit', CallsFit',
           bstate' = "CLOSED" => bstate = "CLOSED" \/ Head(bq).op = "closeAll"
    PROVE  BrowserInv'
<1>1. bq' = Tail(bq) /\ bpc' = "begin" BY DEF Pop
<1>2. QueueFits BY DEF BrowserInv
<1>3. /\ bq' \in Seq(TransitionRow)
      /\ \A i \in DOMAIN bq' : RowFits(bq'[i])
      /\ \A i \in DOMAIN bq' : bq'[i].op = "closeAll" =>
           Head(bq).op # "closeAll" /\ \E j \in DOMAIN bq : bq[j].op = "closeAll"
      /\ \A i, j \in DOMAIN bq' : bq'[i].op = "closeAll" /\ bq'[j].op = "closeAll" => i = j
  BY <1>1, <1>2, QueuePopped
<1>4. QueueFits' BY <1>2, <1>3 DEF QueueFits
<1>5. \A i \in DOMAIN bq' : bq'[i] \in TransitionRow BY <1>3
<1>6. BrowserTypeOK' BY <1>1, <1>5, BrTypes DEF BrowserTypeOK
<1>7. PhaseFits' BY <1>1 DEF PhaseFits
<1>8. ClosingFits' BY <1>1 DEF ClosingFits, InSession
<1> QED BY <1>4, <1>6, <1>7, <1>8 DEF BrowserInv

\* The transition under way goes on, and the queue is as it was.
LEMMA BrGoesOn ==
    ASSUME BrowserInv, UNCHANGED <<bq, bclose, bover, bcalls>>, bfaults' \in 0 .. MaxBFaults,
           bstate' \in {"IDLE", "LAUNCHING", "READY", "FAILED", "CLOSING"} \/ bstate' = bstate,
           browser' \in BOOLEAN, bgen' \in 0 .. MaxGen,
           bpc' \in {"begin", "launch", "context", "newpage", "goto", "sessions", "pages", "pageclose"},
           bsess' \in [BSess -> SessionRecord], bpage' \in [BPage -> PageRecord], bcall' \in [BRun -> ToolCall],
           PhaseFits', ClosingFits', StateFits', SessionsFit', PagesFit', CallsFit'
    PROVE  BrowserInv'
<1>1. QueueFits' BY DEF BrowserInv, QueueFits
<1>2. BrowserTypeOK' BY BrTypes DEF BrowserInv, BrowserTypeOK
<1> QED BY <1>1, <1>2 DEF BrowserInv

\* The transition under way fails: nothing else changes.
LEMMA BrTransitionFails ==
    ASSUME BrowserInv, bq # <<>>, Pop, NEW r, NEW status \in OperationStatus,
           CompleteOperation(r, status) \/ UNCHANGED bcall,
           UNCHANGED <<bgen, browser, bsess, bpage, bclose, bover, bcalls>>, bfaults' \in 0 .. MaxBFaults,
           bstate' = bstate \/ (bstate' = "FAILED" /\ ~BStopping)
    PROVE  BrowserInv'
<1>1. /\ bcall' \in [BRun -> ToolCall]
      /\ \A q \in BRun : bcall'[q].pc \in Tracked => bcall[q].pc \in Tracked /\ bcall'[q] = bcall[q]
  BY TableEnds, BrTypes
<1>2. bpc' = "begin" BY DEF Pop
<1>3. SessionsFit' /\ Recorded' = Recorded BY <1>2, SessionsKept
<1>4. StateFits'
  <2>1. CASE bstate' = bstate BY <1>1, <1>2, <1>3, <2>1, StateKept
  <2>2. CASE bstate' = "FAILED" /\ ~BStopping BY <1>1, <2>2 DEF BrowserInv, StateFits, BStopping
  <2> QED BY <2>1, <2>2
<1>5. PagesFit' BY PagesKept
<1>6. CallsFit' BY <1>1, CallsKept
<1>7. bstate' \in {"IDLE", "LAUNCHING", "READY", "FAILED", "CLOSING", "CLOSED"} BY BrTypes
<1>8. bstate' = "CLOSED" => bstate = "CLOSED" \/ Head(bq).op = "closeAll" OBVIOUS
<1>9. browser' \in BOOLEAN /\ bsess' \in [BSess -> SessionRecord] /\ bpage' \in [BPage -> PageRecord] BY BrTypes
<1> QED BY <1>1, <1>3, <1>4, <1>5, <1>6, <1>7, <1>8, <1>9, BrPops

\* The steps at which an opening transition, or the one that follows, fails.
LEMMA BrOpeningFails ==
    ASSUME BrowserInv, OpeningFails \/ LaunchFails \/ FirstNavigation
    PROVE  BrowserInv'
<1>1. "SUCCEEDED" \in OperationStatus /\ "FAILED" \in OperationStatus BY DEF OperationStatus
<1>2. /\ bq # <<>> /\ Pop
      /\ CompleteOperation(Head(bq).by, "SUCCEEDED") \/ CompleteOperation(Head(bq).by, "FAILED")
      /\ UNCHANGED <<bgen, browser, bsess, bpage, bclose, bover, bcalls>>
      /\ bstate' = bstate \/ (bstate' = "FAILED" /\ ~BStopping)
  BY DEF OpeningFails, LaunchFails, FirstNavigation, HeadIs, TransitionFails
<1>3. bfaults' \in 0 .. MaxBFaults
  <2>1. bfaults' = bfaults \/ (bfaults < MaxBFaults /\ bfaults' = bfaults + 1)
    <3>1. CASE OpeningFails BY <3>1 DEF OpeningFails, Faulty
    <3>2. CASE LaunchFails BY <3>2, BrTypes DEF LaunchFails
    <3>3. CASE FirstNavigation BY <3>3 DEF FirstNavigation
    <3> QED BY <3>1, <3>2, <3>3
  <2> QED BY <2>1, BrTypes
<1> QED BY <1>1, <1>2, <1>3, BrTransitionFails

\* The number of open sessions is a number.
LEMMA SessionsCounted ==
    ASSUME BrowserInv
    PROVE  /\ IsFiniteSet(OpenSessions) /\ Cardinality(OpenSessions) \in Nat
           /\ Cardinality(OpenSessions) <= MaxSessions /\ MaxSessions \in Nat \ {0}
<1>1. IsFiniteSet(OpenSessions) /\ Cardinality(OpenSessions) <= MaxSessions BY DEF BrowserInv, SessionsFit
<1> QED BY <1>1, FS_CardinalityType, BrowserAssumption

\* A session may be opened, and the browser is launched if there is none.
LEMMA BrOpensSession ==
    ASSUME BrowserInv, OpenSession
    PROVE  BrowserInv'
<1>1. /\ bq # <<>> /\ Head(bq).op = "openSession" /\ bpc = "begin"
      /\ UNCHANGED <<bgen, browser, bsess, bpage, bclose, bover, bcalls, bfaults>>
  BY DEF OpenSession, HeadIs
<1>2. "FAILED" \in OperationStatus BY DEF OperationStatus
<1>3. CASE TransitionFails /\ UNCHANGED bstate
  <2>1. Pop /\ CompleteOperation(Head(bq).by, "FAILED") BY <1>3 DEF TransitionFails
  <2> QED BY <1>1, <1>2, <1>3, <2>1, BrTypes, BrTransitionFails
<1>4. CASE ~(TransitionFails /\ UNCHANGED bstate)
  <2>1. /\ ~BStopping /\ ~(Cardinality(OpenSessions) >= MaxSessions)
        /\ UNCHANGED <<bq, bcall>>
        /\ (browser /\ bpc' = "context" /\ bstate' = bstate) \/ (~browser /\ bpc' = "launch" /\ bstate' = "LAUNCHING")
    BY <1>4 DEF OpenSession
  <2>2. OpenSessions' = OpenSessions /\ Recorded' = Recorded BY <1>1 DEF OpenSessions, Recorded
  <2>3. Cardinality(OpenSessions) < MaxSessions BY <2>1, SessionsCounted
  <2>4. SessionsFit'
    <3>1. bpc' = "launch" => ~browser' BY <1>1, <2>1
    <3> QED BY <1>1, <2>2, <2>3, <3>1 DEF BrowserInv, SessionsFit
  <2>5. PhaseFits' BY <1>1, <2>1 DEF PhaseFits
  <2>6. ClosingFits' BY <2>1 DEF ClosingFits, InSession
  <2>7. StateFits' BY <1>1, <2>1 DEF BrowserInv, StateFits, BStopping
  <2>8. PagesFit' BY <1>1, PagesKept
  <2>9. CallsFit' BY <1>1, <2>1 DEF BrowserInv, CallsFit, CallFits
  <2> QED BY <1>1, <2>1, <2>4, <2>5, <2>6, <2>7, <2>8, <2>9, BrTypes, BrGoesOn
<1> QED BY <1>3, <1>4

\* The browser has come: no session can be open.
LEMMA BrLaunches ==
    ASSUME BrowserInv, Launched
    PROVE  BrowserInv'
<1>1. /\ bq # <<>> /\ Head(bq).op = "openSession" /\ bpc = "launch" /\ bgen < MaxGen
      /\ UNCHANGED <<bsess, bpage, bclose, bover, bcalls, bfaults>>
  BY DEF Launched, HeadIs
<1>2. "FAILED" \in OperationStatus BY DEF OperationStatus
<1>3. CASE BStopping
  <2>1. Pop /\ CompleteOperation(Head(bq).by, "FAILED") /\ UNCHANGED <<bstate, bgen, browser>>
    BY <1>3 DEF Launched, TransitionFails
  <2> QED BY <1>1, <1>2, <2>1, BrTypes, BrTransitionFails
<1>4. CASE ~BStopping
  <2>1. bgen' = bgen + 1 /\ browser' = TRUE /\ bstate' = "READY" /\ bpc' = "context" /\ UNCHANGED <<bq, bcall>>
    BY <1>4 DEF Launched
  <2>2. OpenSessions' = OpenSessions /\ OpenSessions = {} BY <1>1 DEF OpenSessions, BrowserInv, SessionsFit
  <2>3. SessionsFit' BY <1>1, <2>1, <2>2 DEF BrowserInv, SessionsFit
  <2>4. PhaseFits' BY <1>1, <2>1 DEF PhaseFits
  <2>5. ClosingFits' BY <2>1 DEF ClosingFits, InSession
  <2>6. StateFits' BY <1>1, <1>4, <2>1 DEF BrowserInv, StateFits, BStopping
  <2>7. PagesFit' BY <1>1, PagesKept
  <2>8. CallsFit' BY <1>1, <2>1 DEF BrowserInv, CallsFit, CallFits
  <2>9. bgen' \in 0 .. MaxGen BY <1>1, <2>1, BrTypes
  <2> QED BY <1>1, <2>1, <2>3, <2>4, <2>5, <2>6, <2>7, <2>8, <2>9, BrTypes, BrGoesOn
<1> QED BY <1>3, <1>4

\* A page may be opened.
LEMMA BrOpensPage ==
    ASSUME BrowserInv, OpenPage
    PROVE  BrowserInv'
<1>1. /\ bq # <<>> /\ Head(bq).op = "openPage" /\ bpc = "begin"
      /\ UNCHANGED <<bstate, bgen, browser, bsess, bpage, bclose, bover, bcalls, bfaults>>
  BY DEF OpenPage, HeadIs
<1>2. "FAILED" \in OperationStatus BY DEF OperationStatus
<1>3. CASE TransitionFails
  <2>1. Pop /\ CompleteOperation(Head(bq).by, "FAILED") BY <1>3 DEF TransitionFails
  <2> QED BY <1>1, <1>2, <2>1, BrTypes, BrTransitionFails
<1>4. CASE ~TransitionFails
  <2>1. ~BStopping /\ bpc' = "newpage" /\ UNCHANGED <<bq, bcall>> BY <1>4 DEF OpenPage
  <2>2. SessionsFit' BY <1>1, <2>1, SessionsKept
  <2>3. PhaseFits' BY <1>1, <2>1 DEF PhaseFits
  <2>4. ClosingFits' BY <2>1 DEF ClosingFits, InSession
  <2>5. StateFits' BY <1>1, <2>1, StateKept DEF BStopping
  <2>6. PagesFit' BY <1>1, PagesKept
  <2>7. CallsFit' BY <1>1, <2>1 DEF BrowserInv, CallsFit, CallFits
  <2> QED BY <1>1, <2>1, <2>2, <2>3, <2>4, <2>5, <2>6, <2>7, BrTypes, BrGoesOn
<1> QED BY <1>3, <1>4

\* The context is there: one more session, and its page is asked for.
LEMMA BrCreates ==
    ASSUME BrowserInv, ContextCreated
    PROVE  BrowserInv'
<1> DEFINE t == Head(bq)
<1>1. /\ bq # <<>> /\ t.op = "openSession" /\ bpc = "context"
      /\ UNCHANGED <<bstate, bgen, browser, bpage, bclose, bover, bcalls, bfaults>>
  BY DEF ContextCreated, HeadIs
<1>2. "FAILED" \in OperationStatus BY DEF OperationStatus
<1>3. CASE ~browser
  <2>1. Pop /\ CompleteOperation(Head(bq).by, "FAILED") /\ UNCHANGED bsess BY <1>3 DEF ContextCreated, TransitionFails
  <2> QED BY <1>1, <1>2, <2>1, BrTypes, BrTransitionFails
<1>4. CASE browser
  <2>1. t \in TransitionRow /\ t.by \in BRun BY <1>1, HeadRow DEF RowFits
  <2>2. PICK s \in BSess :
          /\ bsess[s].st = "NONE"
          /\ bsess' = [bsess EXCEPT ![s] = [st |-> "OPEN", run |-> t.by, gen |-> bgen, idle |-> FALSE]]
          /\ bq' = Append(Tail(bq), Transition("openPage", t.by, s, NoPage))
          /\ bpc' = "begin" /\ UNCHANGED bcall
    BY <1>4 DEF ContextCreated
  <2>3. PICK n \in TransitionRow : n = Transition("openPage", t.by, s, NoPage) /\ n.op = "openPage" /\ n.by = t.by /\ n.s = s
    <3>1. t.by \in BRun \cup {Closer, Sweeper} /\ s \in BSess \cup {NoSess} /\ NoPage \in BPage \cup {NoPage} BY <2>1
    <3> HIDE DEF t
    <3> QED BY <3>1, TransitionTyped
  <2>4. PICK v \in SessionRecord : /\ v = [st |-> "OPEN", run |-> t.by, gen |-> bgen, idle |-> FALSE]
                                   /\ v.st = "OPEN" /\ v.gen = bgen
    <3>1. t.by \in BRun \cup {NoSess} /\ bgen \in 0 .. MaxGen BY <2>1, BrTypes
    <3> HIDE DEF t
    <3>2. [st |-> "OPEN", run |-> t.by, gen |-> bgen, idle |-> FALSE] \in SessionRecord BY <3>1 DEF SessionRecord
    <3> QED BY <3>2
  <2>5. bsess \in [BSess -> SessionRecord] BY BrTypes
  <2>6. /\ bsess' \in [BSess -> SessionRecord] /\ bsess'[s] = v
        /\ \A x \in BSess : x # s => bsess'[x] = bsess[x]
    BY <2>2, <2>4, <2>5
  <2>7. n.by \in BRun BY <2>1, <2>3
  <2>8. PICK u : u = Tail(bq) OBVIOUS
  <2>9. bq' = Append(u, n) BY <2>2, <2>3, <2>8
  <2> HIDE DEF t
  <2>10. RowFits(n) BY <2>3, <2>7 DEF RowFits
  <2>11. QueueFits BY DEF BrowserInv
  <2>12. /\ u \in Seq(TransitionRow) /\ \A i \in DOMAIN u : RowFits(u[i])
         /\ \A i \in DOMAIN u : u[i].op = "closeAll" => \E j \in DOMAIN bq : bq[j].op = "closeAll"
         /\ \A i, j \in DOMAIN u : u[i].op = "closeAll" /\ u[j].op = "closeAll" => i = j
    BY <1>1, <2>8, <2>11, QueuePopped
  <2>13. /\ bq' \in Seq(TransitionRow)
         /\ \A i \in DOMAIN bq' : RowFits(bq'[i])
         /\ \A i \in DOMAIN bq' : bq'[i].op = "closeAll" => \E j \in DOMAIN u : u[j].op = "closeAll"
         /\ \A i, j \in DOMAIN bq' : bq'[i].op = "closeAll" /\ bq'[j].op = "closeAll" => i = j
    BY <2>3, <2>9, <2>10, <2>12, QueueAppended
  <2>14. QueueFits' BY <1>1, <2>11, <2>12, <2>13 DEF QueueFits
  <2>15. \A i \in DOMAIN bq' : bq'[i] \in TransitionRow BY <2>13
  <2>16. bpc' = "begin" /\ UNCHANGED bcall BY <2>2
  <2>17. BrowserTypeOK' BY <1>1, <2>6, <2>15, <2>16, BrTypes DEF BrowserTypeOK
  <2>18. PhaseFits' BY <2>16 DEF PhaseFits
  <2>19. ClosingFits' BY <2>16 DEF ClosingFits, InSession
  <2>20. bstate # "CLOSED" BY <1>1 DEF BrowserInv, StateFits
  <2>21. StateFits' BY <1>1, <2>16, <2>20, StateKept
  <2>22. SessionsFit'
    <3>1. OpenSessions' = OpenSessions \cup {s} /\ s \notin OpenSessions BY <2>2, <2>4, <2>6 DEF OpenSessions
    <3>2. IsFiniteSet(OpenSessions) /\ Cardinality(OpenSessions) < MaxSessions BY <1>1 DEF BrowserInv, SessionsFit
    <3>3. IsFiniteSet(OpenSessions \cup {s}) /\ Cardinality(OpenSessions \cup {s}) = Cardinality(OpenSessions) + 1
      BY <3>1, <3>2, FS_AddElement
    <3>4. Cardinality(OpenSessions) + 1 <= MaxSessions BY <3>2, SessionsCounted
    <3>5. ASSUME NEW x \in OpenSessions' PROVE browser' /\ bsess'[x].gen = bgen'
      <4>1. CASE x = s BY <1>1, <1>4, <2>4, <2>6, <4>1
      <4>2. CASE x # s
        <5>1. x \in OpenSessions /\ x \in BSess BY <3>1, <3>5, <4>2 DEF OpenSessions
        <5> QED BY <1>1, <2>6, <4>2, <5>1 DEF BrowserInv, SessionsFit
      <4> QED BY <4>1, <4>2
    <3> QED BY <2>16, <3>1, <3>3, <3>4, <3>5 DEF SessionsFit
  <2>23. PagesFit' BY <1>1, <2>2, <2>4, <2>6, PagesKept
  <2>24. CallsFit' BY <1>1, <2>16 DEF BrowserInv, CallsFit, CallFits
  <2> QED BY <2>14, <2>17, <2>18, <2>19, <2>21, <2>22, <2>23, <2>24 DEF BrowserInv
<1> QED BY <1>3, <1>4

\* A page is there, in a session that is still open.
LEMMA BrPageOpens ==
    ASSUME BrowserInv, PageOpened
    PROVE  BrowserInv'
<1> DEFINE t == Head(bq)
<1>1. /\ bq # <<>> /\ t.op = "openPage" /\ bpc = "newpage"
      /\ UNCHANGED <<bstate, bgen, browser, bclose, bover, bcalls, bfaults>>
  BY DEF PageOpened, HeadIs
<1>2. "FAILED" \in OperationStatus /\ "SUCCEEDED" \in OperationStatus BY DEF OperationStatus
<1>3. CASE bsess[t.s].st # "OPEN"
  <2>1. Pop /\ CompleteOperation(Head(bq).by, "FAILED") /\ UNCHANGED <<bsess, bpage>>
    BY <1>3 DEF PageOpened, TransitionFails
  <2> QED BY <1>1, <1>2, <2>1, BrTypes, BrTransitionFails
<1>4. CASE bsess[t.s].st = "OPEN"
  <2>1. t.s \in BSess BY <1>1, HeadRow DEF RowFits
  <2>2. PICK p \in BPage :
          /\ bpage[p].st = "NONE"
          /\ bpage' = [bpage EXCEPT ![p] = [NewPage EXCEPT !.st = "OPEN", !.s = t.s]]
          /\ bsess' = [bsess EXCEPT ![t.s].idle = FALSE]
          /\ (bpc' = "goto" /\ UNCHANGED <<bq, bcall>>) \/ (Pop /\ CompleteOperation(t.by, "SUCCEEDED"))
    BY <1>4 DEF PageOpened
  <2> HIDE DEF t
  <2> DEFINE P == [NewPage EXCEPT !.st = "OPEN", !.s = t.s]
  <2>3. 1 \in 1 .. MaxDocs BY BrTypes
  <2>4. P \in PageRecord /\ P.st = "OPEN" /\ P.s = t.s /\ P.doc = 1 /\ P.ddoc = 1 /\ P.refs = {}
    BY <2>1, <2>3 DEF NewPage, PageRecord
  <2>5. bpage' = [bpage EXCEPT ![p] = P] BY <2>2
  <2> HIDE DEF P
  <2>6. bsess' \in [BSess -> SessionRecord] /\ \A x \in BSess : bsess'[x].st = bsess[x].st /\ bsess'[x].gen = bsess[x].gen
    BY <2>2, SessionUsed
  <2>7. P.doc <= P.ddoc /\ bsess[P.s].st # "NONE" /\ P.s \in BSess BY <1>4, <2>1, <2>4
  <2>8. bpage' \in [BPage -> PageRecord] /\ PagesFit' BY <2>4, <2>5, <2>6, <2>7, PagesChanged
  <2>9. \A q \in BPage : bpage[q].st # "NONE" => bpage'[q].st # "NONE" /\ bpage'[q].ddoc = bpage[q].ddoc
    BY <2>2, <2>5, BrTypes
  <2>10. /\ bcall' \in [BRun -> ToolCall]
         /\ \A q \in BRun : bcall'[q].pc \in Tracked => bcall[q].pc \in Tracked /\ bcall'[q] = bcall[q]
    BY <1>2, <2>2, BrTypes, TableEnds
  <2>11. CallsFit' BY <2>9, <2>10, CallsKept
  <2>12. bstate # "CLOSED" BY <1>1 DEF BrowserInv, StateFits
  <2>13. StateFits' BY <1>1, <2>10, <2>12, StateKept
  <2>14. bpc' \in {"goto", "begin"} BY <2>2 DEF Pop
  <2>15. SessionsFit' BY <1>1, <2>6, <2>14, SessionsKept
  <2>16. CASE bpc' = "goto" /\ UNCHANGED <<bq, bcall>>
    <3>1. PhaseFits' BY <1>1, <2>16 DEF PhaseFits, t
    <3>2. ClosingFits' BY <2>16 DEF ClosingFits, InSession
    <3> QED BY <1>1, <2>6, <2>8, <2>10, <2>11, <2>13, <2>15, <2>16, <3>1, <3>2, BrTypes, BrGoesOn
  <2>17. CASE Pop
    <3>1. bstate' # "CLOSED" BY <1>1, <2>12
    <3> QED BY <1>1, <2>6, <2>8, <2>10, <2>11, <2>13, <2>15, <2>17, <3>1, BrTypes, BrPops
  <2> QED BY <2>2, <2>16, <2>17
<1> QED BY <1>3, <1>4

\* A page begins to close, or is closed.
LEMMA PageCloses ==
    ASSUME BrowserInv, NEW p \in BPage, bpage[p].st # "NONE", UNCHANGED <<bcall, bclose>>,
           \A s \in BSess : bsess'[s].st = bsess[s].st,
           \/ bpage' = [bpage EXCEPT ![p].st = "CLOSING", ![p].refs = {}]
           \/ bpage' = [bpage EXCEPT ![p].st = "CLOSED"]
    PROVE  /\ bpage' \in [BPage -> PageRecord] /\ PagesFit' /\ CallsFit'
           /\ \A q \in BPage : bpage[q].st # "NONE" => bpage'[q].st # "NONE" /\ bpage'[q].ddoc = bpage[q].ddoc
<1>1. bpage \in [BPage -> PageRecord] BY BrTypes
<1>2. bpage[p] \in PageRecord BY <1>1
<1>3. PICK P \in PageRecord : /\ bpage' = [bpage EXCEPT ![p] = P] /\ P.s = bpage[p].s /\ P.st \in {"CLOSING", "CLOSED"}
                              /\ P.doc = bpage[p].doc /\ P.ddoc = bpage[p].ddoc
  <2>1. CASE bpage' = [bpage EXCEPT ![p].st = "CLOSING", ![p].refs = {}]
    <3> DEFINE P == [bpage[p] EXCEPT !.st = "CLOSING", !.refs = {}]
    <3>1. /\ P \in PageRecord /\ P.s = bpage[p].s /\ P.st = "CLOSING" /\ P.doc = bpage[p].doc /\ P.ddoc = bpage[p].ddoc
      BY <1>2 DEF PageRecord
    <3>2. bpage' = [bpage EXCEPT ![p] = P] BY <1>1, <2>1
    <3> HIDE DEF P
    <3> QED BY <3>1, <3>2
  <2>2. CASE bpage' = [bpage EXCEPT ![p].st = "CLOSED"]
    <3> DEFINE P == [bpage[p] EXCEPT !.st = "CLOSED"]
    <3>1. /\ P \in PageRecord /\ P.s = bpage[p].s /\ P.st = "CLOSED" /\ P.doc = bpage[p].doc /\ P.ddoc = bpage[p].ddoc
      BY <1>2 DEF PageRecord
    <3>2. bpage' = [bpage EXCEPT ![p] = P] BY <1>1, <2>2
    <3> HIDE DEF P
    <3> QED BY <3>1, <3>2
  <2> QED BY <2>1, <2>2
<1>4. bpage[p].s \in BSess /\ bsess[bpage[p].s].st # "NONE" /\ bpage[p].doc <= bpage[p].ddoc
  BY DEF BrowserInv, PagesFit, PageFits
<1>5. bpage' \in [BPage -> PageRecord] /\ PagesFit' BY <1>3, <1>4, PagesChanged
<1>6. \A q \in BPage : bpage[q].st # "NONE" => bpage'[q].st # "NONE" /\ bpage'[q].ddoc = bpage[q].ddoc BY <1>1, <1>3
<1>7. CallsFit' BY <1>6, CallsKept
<1> QED BY <1>5, <1>6, <1>7

\* closePage begins.
LEMMA BrClosesPage ==
    ASSUME BrowserInv, ClosePage
    PROVE  BrowserInv'
<1> DEFINE t == Head(bq)
<1>1. /\ bq # <<>> /\ t.op = "closePage" /\ bpc = "begin"
      /\ UNCHANGED <<bstate, bgen, browser, bsess, bclose, bover, bcalls, bfaults>>
  BY DEF ClosePage, HeadIs
<1>2. "FAILED" \in OperationStatus BY DEF OperationStatus
<1>3. CASE ~(SessionUsable(t.s) /\ PageUsable(t.s, t.p))
  <2>1. Pop /\ CompleteOperation(Head(bq).by, "FAILED") /\ UNCHANGED bpage BY <1>3 DEF ClosePage, TransitionFails
  <2> QED BY <1>1, <1>2, <2>1, BrTypes, BrTransitionFails
<1>4. CASE SessionUsable(t.s) /\ PageUsable(t.s, t.p)
  <2>1. /\ bpage' = [bpage EXCEPT ![t.p].st = "CLOSING", ![t.p].refs = {}]
        /\ bpc' = "pageclose" /\ UNCHANGED <<bq, bcall>>
    BY <1>4 DEF ClosePage
  <2>2. t.s \in BSess /\ t.p \in BPage BY <1>1, HeadRow DEF RowFits
  <2>3. bpage[t.p].st # "NONE" BY <1>4 DEF PageUsable
  <2>4. t.s \in Recorded BY <1>4, <2>2 DEF SessionUsable, Recorded
  <2> HIDE DEF t
  <2>5. /\ bpage' \in [BPage -> PageRecord] /\ PagesFit' /\ CallsFit'
        /\ \A q \in BPage : bpage[q].st # "NONE" => bpage'[q].st # "NONE" /\ bpage'[q].ddoc = bpage[q].ddoc
    BY <1>1, <2>1, <2>2, <2>3, PageCloses
  <2>6. SessionsFit' BY <1>1, <2>1, SessionsKept
  <2>7. bstate # "CLOSED" BY <2>4 DEF BrowserInv, StateFits
  <2>8. StateFits' BY <1>1, <2>1, <2>7, StateKept
  <2>9. PhaseFits' BY <1>1, <2>1, <2>2, <2>3, <2>5 DEF PhaseFits, t
  <2>10. ClosingFits' BY <1>1, <2>1 DEF ClosingFits, InSession, t
  <2> QED BY <1>1, <2>1, <2>5, <2>6, <2>8, <2>9, <2>10, BrTypes, BrGoesOn
<1> QED BY <1>3, <1>4

\* A transition that closes goes on with another row.
LEMMA BrProceeds ==
    ASSUME BrowserInv, bq # <<>>, NEW t \in TransitionRow, RowFits(t), t.op = Head(bq).op, bq' = <<t>> \o Tail(bq),
           UNCHANGED <<bstate, bgen, browser, bcall, bclose, bover, bcalls, bfaults>>,
           bpc' \in {"sessions", "pages", "pageclose"},
           bsess' \in [BSess -> SessionRecord], bpage' \in [BPage -> PageRecord],
           bq' # <<>> /\ Head(bq') = t => PhaseFits' /\ ClosingFits',
           StateFits', SessionsFit', PagesFit', CallsFit'
    PROVE  BrowserInv'
<1>1. QueueFits /\ bq \in Seq(TransitionRow) BY BrTypes DEF BrowserInv
<1>2. /\ bq' \in Seq(TransitionRow) /\ Len(bq') = Len(bq) /\ bq'[1] = t
      /\ \A i \in 2 .. Len(bq) : bq'[i] = bq[i]
  BY <1>1, HeadReplaced
<1>3. /\ bq' # <<>> /\ Head(bq') = t
      /\ \A i \in DOMAIN bq' : RowFits(bq'[i])
      /\ \A i \in DOMAIN bq' : bq'[i].op = "closeAll" => \E j \in DOMAIN bq : bq[j].op = "closeAll"
      /\ \A i, j \in DOMAIN bq' : bq'[i].op = "closeAll" /\ bq'[j].op = "closeAll" => i = j
  BY <1>1, <1>2, QueueProceeds
<1>4. QueueFits' BY <1>1, <1>2, <1>3 DEF QueueFits
<1>5. \A i \in DOMAIN bq' : bq'[i] \in TransitionRow BY <1>2
<1>6. BrowserTypeOK' BY <1>5, BrTypes DEF BrowserTypeOK
<1> QED BY <1>3, <1>4, <1>6 DEF BrowserInv

\* The sessions to close are chosen.
LEMMA BrBeginsClosing ==
    ASSUME BrowserInv, BeginClosing
    PROVE  BrowserInv'
<1> DEFINE h == Head(bq)
           t == [h EXCEPT !.todo = ToClose(h)]
<1>1. /\ bq # <<>> /\ h.op \in {"closeSession", "cancelRun", "sweep", "closeAll"} /\ bpc = "begin"
      /\ UNCHANGED <<bstate, bgen, browser, bsess, bpage, bclose, bover, bcalls, bfaults>>
  BY DEF BeginClosing, HeadAt
<1>2. "FAILED" \in OperationStatus BY DEF OperationStatus
<1>3. CASE TransitionFails
  <2>1. Pop /\ CompleteOperation(Head(bq).by, "FAILED") BY <1>3 DEF TransitionFails
  <2> QED BY <1>1, <1>2, <2>1, BrTypes, BrTransitionFails
<1>4. CASE ~TransitionFails
  <2>1. bq' = <<t>> \o Tail(bq) /\ bpc' = "sessions" /\ UNCHANGED bcall BY <1>4 DEF BeginClosing
  <2>2. h \in TransitionRow /\ RowFits(h) BY <1>1, HeadRow
  <2>3. ToClose(h) \subseteq Recorded /\ (h.op = "closeAll" => ToClose(h) = Recorded)
    <3>1. h.op = "closeSession" => h.s \in BSess BY <2>2 DEF RowFits
    <3> HIDE DEF h
    <3>2. CASE h.op = "closeSession" BY <3>1, <3>2 DEF ToClose, SessionUsable, Recorded
    <3>3. CASE h.op = "cancelRun" BY <3>3 DEF ToClose, OpenSessions, Recorded
    <3>4. CASE h.op = "sweep" BY <3>4 DEF ToClose, OpenSessions, Recorded
    <3>5. CASE h.op = "closeAll" BY <3>5 DEF ToClose
    <3> QED BY <1>1, <3>2, <3>3, <3>4, <3>5
  <2>4. Recorded \subseteq BSess BY DEF Recorded
  <2>5. PICK todo \in SUBSET BSess : todo = ToClose(h) BY <2>3, <2>4
  <2>6. t = [h EXCEPT !.todo = todo] BY <2>5
  <2>7. t \in TransitionRow /\ t.op = h.op /\ t.by = h.by /\ t.s = h.s /\ t.p = h.p /\ t.todo = todo
    <3> HIDE DEF h, t
    <3> QED BY <2>2, <2>6 DEF TransitionRow
  <2> HIDE DEF t
  <2>8. RowFits(t) BY <2>2, <2>7 DEF RowFits
  <2>9. OpenSessions' = OpenSessions /\ Recorded' = Recorded BY <1>1 DEF OpenSessions, Recorded
  <2>10. bq' # <<>> /\ Head(bq') = t => PhaseFits' /\ ClosingFits'
    <3>1. bq' # <<>> /\ Head(bq') = t => PhaseFits' BY <1>1, <2>1, <2>7 DEF PhaseFits, Closers
    <3>2. bq' # <<>> /\ Head(bq') = t => ClosingFits' BY <1>1, <2>1, <2>3, <2>5, <2>7, <2>9 DEF ClosingFits, InSession
    <3> QED BY <3>1, <3>2
  <2>11. SessionsFit' BY <1>1, <2>1, SessionsKept
  <2>12. StateFits' BY <1>1, <2>1, <2>9, StateKept
  <2>13. PagesFit' BY <1>1, PagesKept
  <2>14. CallsFit' BY <1>1, <2>1 DEF BrowserInv, CallsFit, CallFits
  <2>15. bsess' \in [BSess -> SessionRecord] /\ bpage' \in [BPage -> PageRecord] BY <1>1, BrTypes
  <2>16. t.op = Head(bq).op BY <2>7
  <2>17. bpc' \in {"sessions", "pages", "pageclose"} BY <2>1
  <2>18. UNCHANGED <<bstate, bgen, browser, bcall, bclose, bover, bcalls, bfaults>> BY <1>1, <2>1
  <2>19. t \in TransitionRow BY <2>7
  <2>20. bq # <<>> /\ bq' = <<t>> \o Tail(bq) BY <1>1, <2>1
  <2> HIDE DEF h
  <2> QED BY <2>8, <2>10, <2>11, <2>12, <2>13, <2>14, <2>15, <2>16, <2>17, <2>18, <2>19, <2>20, BrProceeds
<1> QED BY <1>3, <1>4

\* The next session is closed: it stays recorded.
LEMMA BrClosesSession ==
    ASSUME BrowserInv, CloseSessionRecord
    PROVE  BrowserInv'
<1> DEFINE h == Head(bq)
<1>1. /\ bq # <<>> /\ bpc = "sessions" /\ bpc' = "pages"
      /\ UNCHANGED <<bstate, bgen, browser, bpage, bcall, bclose, bover, bcalls, bfaults>>
  BY DEF CloseSessionRecord, HeadAt
<1>2. PICK s \in h.todo :
        /\ bsess' = IF bsess[s].st = "CRASHED" THEN bsess ELSE [bsess EXCEPT ![s].st = "CLOSING"]
        /\ bq' = <<[h EXCEPT !.s = s, !.todo = @ \ {s}]>> \o Tail(bq)
  BY DEF CloseSessionRecord
<1>3. h \in TransitionRow /\ RowFits(h) /\ h.op \in Closers /\ h.todo \subseteq Recorded
  BY <1>1, HeadRow DEF BrowserInv, PhaseFits, ClosingFits
<1>4. h.op = "closeAll" => Recorded \subseteq h.todo BY <1>1 DEF BrowserInv, ClosingFits
<1>5. s \in Recorded /\ s \in BSess BY <1>2, <1>3 DEF Recorded
<1> DEFINE t == [h EXCEPT !.s = s, !.todo = @ \ {s}]
<1>6. t \in TransitionRow /\ t.op = h.op /\ t.by = h.by /\ t.s = s /\ t.p = h.p /\ t.todo = h.todo \ {s}
  <2> HIDE DEF h
  <2> QED BY <1>3, <1>5 DEF TransitionRow
<1>7. bq' = <<t>> \o Tail(bq) BY <1>2
<1> HIDE DEF t
<1>8. RowFits(t) BY <1>3, <1>5, <1>6 DEF RowFits, Closers
<1>9. /\ bsess' \in [BSess -> SessionRecord]
      /\ \A x \in BSess : x # s => bsess'[x] = bsess[x]
      /\ bsess'[s].gen = bsess[s].gen /\ bsess[s].st \in {"OPEN", "CLOSING", "CRASHED"}
      /\ bsess'[s].st \in {"CLOSING", "CRASHED"}
  <2>1. bsess \in [BSess -> SessionRecord] BY BrTypes
  <2>2. bsess[s] \in SessionRecord BY <1>5, <2>1
  <2>3. bsess[s].st \in {"OPEN", "CLOSING", "CRASHED"} BY <1>5 DEF Recorded
  <2>4. CASE bsess[s].st = "CRASHED" BY <1>2, <2>1, <2>4
  <2>5. CASE bsess[s].st # "CRASHED"
    <3> DEFINE v == [bsess[s] EXCEPT !.st = "CLOSING"]
    <3>1. v \in SessionRecord /\ v.st = "CLOSING" /\ v.gen = bsess[s].gen BY <2>2 DEF SessionRecord
    <3>2. bsess' = [bsess EXCEPT ![s] = v] BY <1>2, <2>1, <2>5
    <3> HIDE DEF v
    <3> QED BY <1>5, <2>1, <2>3, <3>1, <3>2
  <2> QED BY <2>4, <2>5
<1>10. Recorded' = Recorded /\ OpenSessions' \subseteq OpenSessions BY <1>5, <1>9 DEF Recorded, OpenSessions
<1>11. bq' # <<>> /\ Head(bq') = t => PhaseFits' /\ ClosingFits'
  <2>1. bq' # <<>> /\ Head(bq') = t => PhaseFits' BY <1>1, <1>3, <1>6 DEF PhaseFits
  <2>2. t.todo \subseteq Recorded /\ t.s \in Recorded \ t.todo /\ (t.op = "closeAll" => Recorded \subseteq t.todo \cup {t.s})
    BY <1>3, <1>4, <1>5, <1>6
  <2>3. bq' # <<>> /\ Head(bq') = t => ClosingFits' BY <1>1, <1>10, <2>2 DEF ClosingFits, InSession
  <2> QED BY <2>1, <2>3
<1>12. SessionsFit'
  <2>1. IsFiniteSet(OpenSessions') /\ Cardinality(OpenSessions') \in Nat /\ Cardinality(OpenSessions') <= Cardinality(OpenSessions)
    BY <1>10, SessionsCounted, FS_Subset, FS_CardinalityType
  <2>2. Cardinality(OpenSessions') <= MaxSessions BY <2>1, SessionsCounted
  <2>3. ASSUME NEW x \in OpenSessions' PROVE browser' /\ bsess'[x].gen = bgen'
    <3>1. x \in BSess /\ x # s /\ x \in OpenSessions BY <1>9, <1>10, <2>3 DEF OpenSessions
    <3> QED BY <1>1, <1>9, <3>1 DEF BrowserInv, SessionsFit
  <2> QED BY <1>1, <2>1, <2>2, <2>3 DEF SessionsFit
<1>13. bstate # "CLOSED" BY <1>5 DEF BrowserInv, StateFits
<1>14. StateFits' BY <1>1, <1>13, StateKept
<1>15. PagesFit' BY <1>1, <1>9, PagesKept
<1>16. CallsFit' BY <1>1 DEF BrowserInv, CallsFit, CallFits
<1>17. bpage' \in [BPage -> PageRecord] BY <1>1, BrTypes
<1>18. bpc' \in {"sessions", "pages", "pageclose"} /\ t.op = Head(bq).op /\ t \in TransitionRow BY <1>1, <1>6
<1> HIDE DEF h
<1> QED BY <1>1, <1>7, <1>8, <1>9, <1>11, <1>12, <1>14, <1>15, <1>16, <1>17, <1>18, BrProceeds

\* The pages of the session are closed, one after another, and then the session.
LEMMA BrClosesPages ==
    ASSUME BrowserInv, ClosePageRecord
    PROVE  BrowserInv'
<1> DEFINE h == Head(bq)
<1>1. /\ bq # <<>> /\ bpc = "pages"
      /\ UNCHANGED <<bstate, bgen, browser, bcall, bclose, bover, bcalls, bfaults>>
  BY DEF ClosePageRecord, HeadAt
<1>2. h \in TransitionRow /\ RowFits(h) /\ h.op \in Closers /\ h.todo \subseteq Recorded /\ h.s \in Recorded \ h.todo
  BY <1>1, HeadRow DEF BrowserInv, PhaseFits, ClosingFits, InSession
<1>3. h.op = "closeAll" => Recorded \subseteq h.todo \cup {h.s} BY <1>1 DEF BrowserInv, ClosingFits, InSession
<1>4. bstate # "CLOSED" BY <1>2 DEF BrowserInv, StateFits
<1>5. StateFits' BY <1>1, <1>4, StateKept
<1>6. h.op # "closePage" BY <1>2 DEF Closers
<1>7. CASE PagesOf(h.s) # {}
  <2>1. PICK p \in PagesOf(h.s) :
          /\ bpage' = [bpage EXCEPT ![p].st = "CLOSING", ![p].refs = {}]
          /\ bq' = <<[h EXCEPT !.p = p]>> \o Tail(bq)
          /\ bpc' = "pageclose" /\ UNCHANGED bsess
    BY <1>7 DEF ClosePageRecord
  <2>2. p \in BPage /\ bpage[p].st # "NONE" BY DEF PagesOf
  <2> DEFINE t == [h EXCEPT !.p = p]
  <2>3. t \in TransitionRow /\ t.op = h.op /\ t.by = h.by /\ t.s = h.s /\ t.p = p /\ t.todo = h.todo
    <3> HIDE DEF h
    <3> QED BY <1>2, <2>2 DEF TransitionRow
  <2>4. bq' = <<t>> \o Tail(bq) BY <2>1
  <2> HIDE DEF t
  <2>5. RowFits(t) BY <1>2, <1>6, <2>3 DEF RowFits
  <2>6. /\ bpage' \in [BPage -> PageRecord] /\ PagesFit' /\ CallsFit'
        /\ \A q \in BPage : bpage[q].st # "NONE" => bpage'[q].st # "NONE" /\ bpage'[q].ddoc = bpage[q].ddoc
    BY <1>1, <2>1, <2>2, PageCloses
  <2>7. SessionsFit' /\ Recorded' = Recorded BY <1>1, <2>1, SessionsKept
  <2>8. bq' # <<>> /\ Head(bq') = t => PhaseFits' /\ ClosingFits'
    <3>1. bq' # <<>> /\ Head(bq') = t => PhaseFits' BY <1>2, <2>1, <2>2, <2>3, <2>6 DEF PhaseFits
    <3>2. bq' # <<>> /\ Head(bq') = t => ClosingFits'
      <4>1. t.todo \subseteq Recorded /\ t.s \in Recorded \ t.todo /\ (t.op = "closeAll" => Recorded \subseteq t.todo \cup {t.s})
        BY <1>2, <1>3, <2>3
      <4> QED BY <2>1, <2>7, <4>1 DEF ClosingFits, InSession
    <3> QED BY <3>1, <3>2
  <2>9. bsess' \in [BSess -> SessionRecord] BY <2>1, BrTypes
  <2>10. bpc' \in {"sessions", "pages", "pageclose"} /\ t.op = Head(bq).op /\ t \in TransitionRow BY <2>1, <2>3
  <2> HIDE DEF h
  <2> QED BY <1>1, <1>5, <2>4, <2>5, <2>6, <2>7, <2>8, <2>9, <2>10, BrProceeds
<1>8. CASE PagesOf(h.s) = {}
  <2>1. bsess' = [bsess EXCEPT ![h.s].st = "CLOSED"] /\ bpc' = "sessions" /\ UNCHANGED <<bq, bpage>>
    BY <1>8 DEF ClosePageRecord
  <2>2. PICK s \in BSess : s = h.s /\ s \in Recorded /\ s \notin h.todo BY <1>2 DEF Recorded
  <2>3. /\ bsess' \in [BSess -> SessionRecord] /\ bsess'[s].st = "CLOSED"
        /\ \A x \in BSess : x # s => bsess'[x] = bsess[x]
    <3> DEFINE v == [bsess[s] EXCEPT !.st = "CLOSED"]
    <3>1. bsess \in [BSess -> SessionRecord] BY BrTypes
    <3>2. bsess[s] \in SessionRecord BY <3>1
    <3>3. v \in SessionRecord /\ v.st = "CLOSED" BY <3>2 DEF SessionRecord
    <3>4. bsess' = [bsess EXCEPT ![s] = v] BY <2>1, <2>2, <3>1
    <3> HIDE DEF v
    <3> QED BY <3>1, <3>3, <3>4
  <2>4. Recorded' = Recorded \ {s} /\ OpenSessions' \subseteq OpenSessions BY <2>3 DEF Recorded, OpenSessions
  <2>5. PhaseFits' BY <1>1, <1>2, <2>1 DEF PhaseFits
  <2>6. ClosingFits'
    <3>1. h.todo \subseteq Recorded' BY <1>2, <2>2, <2>4
    <3>2. h.op = "closeAll" => Recorded' \subseteq h.todo BY <1>3, <2>2, <2>4
    <3> QED BY <2>1, <3>1, <3>2 DEF ClosingFits, InSession
  <2>7. SessionsFit'
    <3>1. IsFiniteSet(OpenSessions') /\ Cardinality(OpenSessions') \in Nat /\ Cardinality(OpenSessions') <= Cardinality(OpenSessions)
      BY <2>4, SessionsCounted, FS_Subset, FS_CardinalityType
    <3>2. Cardinality(OpenSessions') <= MaxSessions BY <3>1, SessionsCounted
    <3>3. ASSUME NEW x \in OpenSessions' PROVE browser' /\ bsess'[x].gen = bgen'
      <4>1. x \in BSess /\ x # s /\ x \in OpenSessions BY <2>3, <2>4, <3>3 DEF OpenSessions
      <4> QED BY <1>1, <2>3, <4>1 DEF BrowserInv, SessionsFit
    <3> QED BY <2>1, <3>1, <3>2, <3>3 DEF SessionsFit
  <2>8. PagesFit' BY <2>1, <2>3, PagesKept, <2>2 DEF Recorded
  <2>9. CallsFit' BY <1>1, <2>1 DEF BrowserInv, CallsFit, CallFits
  <2>10. bpc' \in {"begin", "launch", "context", "newpage", "goto", "sessions", "pages", "pageclose"} BY <2>1
  <2> HIDE DEF h
  <2> QED BY <1>1, <1>5, <2>1, <2>3, <2>5, <2>6, <2>7, <2>8, <2>9, <2>10, BrTypes, BrGoesOn
<1> QED BY <1>7, <1>8

\* A page is closed.
LEMMA BrPageClosed ==
    ASSUME BrowserInv, PageClosed
    PROVE  BrowserInv'
<1> DEFINE h == Head(bq)
<1>1. /\ bq # <<>> /\ bpc = "pageclose" /\ bpage' = [bpage EXCEPT ![h.p].st = "CLOSED"]
      /\ UNCHANGED <<bstate, bgen, browser, bsess, bclose, bover, bcalls, bfaults>>
  BY DEF PageClosed, HeadAt
<1>2. h.op \in Closers \cup {"closePage"} /\ h.p \in BPage /\ bpage[h.p].st # "NONE" BY <1>1 DEF BrowserInv, PhaseFits
<1>3. bstate # "CLOSED" BY <1>1 DEF BrowserInv, StateFits
<1>4. "SUCCEEDED" \in OperationStatus BY DEF OperationStatus
<1>5. CASE h.op = "closePage"
  <2>1. Pop /\ CompleteOperation(h.by, "SUCCEEDED") BY <1>5 DEF PageClosed
  <2>2. bpc' = "begin" BY <2>1 DEF Pop
  <2>3. /\ bcall' \in [BRun -> ToolCall]
        /\ \A q \in BRun : bcall'[q].pc \in Tracked => bcall[q].pc \in Tracked /\ bcall'[q] = bcall[q]
    BY <1>4, <2>1, TableEnds
  <2> HIDE DEF h
  <2> DEFINE p == h.p
             P == [bpage[p] EXCEPT !.st = "CLOSED"]
  <2>4. bpage \in [BPage -> PageRecord] BY BrTypes
  <2>5. bpage[p] \in PageRecord /\ p \in BPage BY <1>2, <2>4
  <2>6. P \in PageRecord /\ P.s = bpage[p].s /\ P.st = "CLOSED" /\ P.doc = bpage[p].doc /\ P.ddoc = bpage[p].ddoc
    BY <2>5 DEF PageRecord
  <2>7. bpage' = [bpage EXCEPT ![p] = P] BY <1>1, <2>4
  <2>8. bpage[p].s \in BSess /\ bsess[bpage[p].s].st # "NONE" /\ bpage[p].doc <= bpage[p].ddoc
    BY <1>2 DEF BrowserInv, PagesFit, PageFits
  <2> HIDE DEF P, p
  <2>9. bpage' \in [BPage -> PageRecord] /\ PagesFit' BY <1>1, <2>5, <2>6, <2>7, <2>8, PagesChanged
  <2>10. \A q \in BPage : bpage[q].st # "NONE" => bpage'[q].st # "NONE" /\ bpage'[q].ddoc = bpage[q].ddoc
    BY <2>4, <2>6, <2>7
  <2>11. CallsFit' BY <2>3, <2>10, CallsKept
  <2>12. SessionsFit' BY <1>1, <2>2, SessionsKept
  <2>13. StateFits' BY <1>1, <1>3, <2>3, StateKept
  <2>14. bstate' # "CLOSED" BY <1>1, <1>3
  <2> QED BY <1>1, <2>1, <2>3, <2>9, <2>11, <2>12, <2>13, <2>14, BrTypes, BrPops
<1>6. CASE h.op # "closePage"
  <2>1. bpc' = "pages" /\ UNCHANGED <<bq, bcall>> BY <1>6 DEF PageClosed
  <2>2. /\ bpage' \in [BPage -> PageRecord] /\ PagesFit' /\ CallsFit'
        /\ \A q \in BPage : bpage[q].st # "NONE" => bpage'[q].st # "NONE" /\ bpage'[q].ddoc = bpage[q].ddoc
    BY <1>1, <1>2, <2>1, PageCloses
  <2>3. SessionsFit' /\ Recorded' = Recorded BY <1>1, <2>1, SessionsKept
  <2>4. StateFits' BY <1>1, <1>3, <2>1, StateKept
  <2>5. PhaseFits' BY <1>1, <1>2, <1>6, <2>1 DEF PhaseFits
  <2>6. ClosingFits' BY <1>1, <1>6, <2>1, <2>3 DEF BrowserInv, ClosingFits, InSession
  <2> QED BY <1>1, <2>1, <2>2, <2>3, <2>4, <2>5, <2>6, BrTypes, BrGoesOn
<1> QED BY <1>5, <1>6

\* The last session is closed, and close() is over.
LEMMA BrEndsClosing ==
    ASSUME BrowserInv, EndClosing
    PROVE  BrowserInv'
<1> DEFINE h == Head(bq)
<1>1. /\ bq # <<>> /\ bpc = "sessions" /\ h.todo = {} /\ Pop
      /\ CompleteOperation(h.by, "SUCCEEDED") \/ UNCHANGED bcall
      /\ UNCHANGED <<bgen, bsess, bpage, bclose, bover, bcalls, bfaults>>
  BY DEF EndClosing, HeadAt
<1>2. "SUCCEEDED" \in OperationStatus BY DEF OperationStatus
<1>3. CASE h.op # "closeAll"
  <2>1. bstate' = bstate /\ browser' = browser BY <1>3 DEF EndClosing
  <2> QED BY <1>1, <1>2, <2>1, BrTypes, BrTransitionFails
<1>4. CASE h.op = "closeAll"
  <2>1. bstate' = "CLOSED" /\ browser' = FALSE BY <1>4 DEF EndClosing
  <2>2. bclose = "queued" BY <1>1, <1>4, HeadRow
  <2>3. Recorded = {} BY <1>1, <1>4 DEF BrowserInv, ClosingFits
  <2>4. /\ bcall' \in [BRun -> ToolCall]
        /\ \A q \in BRun : bcall'[q].pc \in Tracked => bcall[q].pc \in Tracked /\ bcall'[q] = bcall[q]
    BY <1>1, <1>2, BrTypes, TableEnds
  <2>5. Recorded' = {} /\ OpenSessions' = OpenSessions /\ OpenSessions = {} BY <1>1, <2>3 DEF Recorded, OpenSessions
  <2>6. bpc' = "begin" BY <1>1 DEF Pop
  <2>7. SessionsFit' BY <2>5, <2>6 DEF BrowserInv, SessionsFit
  <2>8. StateFits' BY <1>1, <2>1, <2>2, <2>4, <2>5, <2>6 DEF BrowserInv, StateFits, BStopping
  <2>9. PagesFit' BY <1>1, PagesKept
  <2>10. CallsFit' BY <1>1, <2>4, CallsKept
  <2>11. bstate' \in {"IDLE", "LAUNCHING", "READY", "FAILED", "CLOSING", "CLOSED"} /\ browser' \in BOOLEAN BY <2>1
  <2>12. /\ bsess' \in [BSess -> SessionRecord] /\ bpage' \in [BPage -> PageRecord]
         /\ bfaults' \in 0 .. MaxBFaults
    BY <1>1, BrTypes
  <2>13. bstate' = "CLOSED" => bstate = "CLOSED" \/ Head(bq).op = "closeAll" BY <1>4
  <2> HIDE DEF h
  <2> QED BY <1>1, <2>4, <2>7, <2>8, <2>9, <2>10, <2>11, <2>12, <2>13, BrPops
<1> QED BY <1>3, <1>4

\* A Run ends, or idle sessions are swept: a transition is asked for.
LEMMA BrAround ==
    ASSUME BrowserInv, SweepIdle \/ \E r \in BRun, b \in BOOLEAN : OwnerEnds(r, b)
    PROVE  BrowserInv'
<1>1. bcall' = bcall /\ UNCHANGED <<bstate, bgen, browser, bsess, bpage, bpc, bclose, bcalls, bfaults>>
  BY DEF SweepIdle, OwnerEnds
<1>2. bover' \subseteq BRun BY BrTypes DEF SweepIdle, OwnerEnds
<1>3. NoSess \in BSess \cup {NoSess} /\ NoPage \in BPage \cup {NoPage} OBVIOUS
<1>4. UNCHANGED bq \/ \E t \in TransitionRow : RowFits(t) /\ t.op # "closeAll" /\ bq' = Append(bq, t)
  <2>1. CASE SweepIdle
    <3>1. PICK t \in TransitionRow : t = Transition("sweep", Sweeper, NoSess, NoPage) /\ t.op = "sweep"
      <4>1. Sweeper \in BRun \cup {Closer, Sweeper} OBVIOUS
      <4> QED BY <1>3, <4>1, TransitionTyped
    <3>2. RowFits(t) BY <3>1 DEF RowFits
    <3>3. bq' = Append(bq, t) BY <2>1, <3>1 DEF SweepIdle, Serialize
    <3> QED BY <3>1, <3>2, <3>3
  <2>2. ASSUME NEW r \in BRun, NEW b \in BOOLEAN, OwnerEnds(r, b)
        PROVE  UNCHANGED bq \/ \E t \in TransitionRow : RowFits(t) /\ t.op # "closeAll" /\ bq' = Append(bq, t)
    <3>1. UNCHANGED bq \/ Serialize(Transition("cancelRun", r, NoSess, NoPage)) BY <2>2 DEF OwnerEnds
    <3>2. PICK t \in TransitionRow : t = Transition("cancelRun", r, NoSess, NoPage) /\ t.op = "cancelRun"
      BY <1>3, TransitionTyped
    <3>3. RowFits(t) BY <3>2 DEF RowFits
    <3>4. Serialize(Transition("cancelRun", r, NoSess, NoPage)) => bq' = Append(bq, t) BY <3>2 DEF Serialize
    <3> QED BY <3>1, <3>2, <3>3, <3>4
  <2> QED BY <2>1, <2>2
<1>5. bcall' \in [BRun -> ToolCall] /\ bcalls' \in 0 .. MaxBCalls /\ bfaults' \in 0 .. MaxBFaults BY <1>1, BrTypes
<1>6. CASE UNCHANGED bq
  <2>1. \A r \in BRun : bcall'[r].pc \in Tracked => CallFits(bcall'[r]) /\ bcall[r].pc \in Tracked
    BY <1>1 DEF BrowserInv, CallsFit
  <2> QED BY <1>1, <1>2, <1>5, <1>6, <2>1, BrCalls
<1>7. CASE \E t \in TransitionRow : RowFits(t) /\ t.op # "closeAll" /\ bq' = Append(bq, t)
  <2>1. PICK t \in TransitionRow : RowFits(t) /\ t.op # "closeAll" /\ bq' = Append(bq, t) BY <1>7
  <2>2. \A r \in BRun : bcall'[r].pc \in Tracked => bcall[r].pc \in Tracked /\ bcall'[r] = bcall[r] BY <1>1
  <2> QED BY <1>1, <1>2, <1>5, <2>1, <2>2, BrAsks
<1> QED BY <1>4, <1>6, <1>7

\* The browser process is lost: no session is open any more.
LEMMA BrDisconnects ==
    ASSUME BrowserInv, Disconnected
    PROVE  BrowserInv'
<1>1. /\ ~BStopping /\ bgen < MaxGen /\ browser' = FALSE /\ bgen' = bgen + 1 /\ bstate' = "FAILED"
      /\ bsess' = [s \in BSess |-> IF s \in Recorded THEN [bsess[s] EXCEPT !.st = "CRASHED"] ELSE bsess[s]]
      /\ bpage' = [p \in BPage |-> IF bpage[p].st \in {"OPEN", "CLOSING"} /\ bpage[p].s \in Recorded
                                   THEN [bpage[p] EXCEPT !.st = "CRASHED"] ELSE bpage[p]]
      /\ UNCHANGED <<bq, bpc, bcall, bclose, bover, bcalls, bfaults>>
  BY DEF Disconnected
<1>2. \A s \in BSess : bsess[s] \in SessionRecord BY BrTypes
<1>3. \A p \in BPage : bpage[p] \in PageRecord BY BrTypes
<1>4. ASSUME NEW s \in BSess
      PROVE  /\ bsess'[s] \in SessionRecord
             /\ s \in Recorded => bsess'[s].st = "CRASHED"
             /\ s \notin Recorded => bsess'[s] = bsess[s]
  <2>1. [bsess[s] EXCEPT !.st = "CRASHED"] \in SessionRecord /\ [bsess[s] EXCEPT !.st = "CRASHED"].st = "CRASHED"
    BY <1>2 DEF SessionRecord
  <2> QED BY <1>1, <1>2, <2>1
<1>5. ASSUME NEW p \in BPage
      PROVE  /\ bpage'[p] \in PageRecord /\ bpage'[p].s = bpage[p].s
             /\ bpage'[p].doc = bpage[p].doc /\ bpage'[p].ddoc = bpage[p].ddoc
             /\ bpage[p].st # "NONE" <=> bpage'[p].st # "NONE"
  <2> DEFINE P == [bpage[p] EXCEPT !.st = "CRASHED"]
  <2>1. P \in PageRecord /\ P.st = "CRASHED" /\ P.s = bpage[p].s /\ P.doc = bpage[p].doc /\ P.ddoc = bpage[p].ddoc
    BY <1>3 DEF PageRecord
  <2>2. (bpage'[p] = P /\ bpage[p].st # "NONE") \/ bpage'[p] = bpage[p] BY <1>1
  <2> HIDE DEF P
  <2> QED BY <1>3, <2>1, <2>2
<1>6. bsess' \in [BSess -> SessionRecord] /\ bpage' \in [BPage -> PageRecord]
  <2>1. bsess' \in [BSess -> SessionRecord] BY <1>1, <1>4
  <2>2. bpage' \in [BPage -> PageRecord] BY <1>1, <1>5
  <2> QED BY <2>1, <2>2
<1>7. Recorded' = Recorded /\ OpenSessions' = {}
  <2>1. \A s \in BSess : bsess'[s].st \in {"OPEN", "CLOSING", "CRASHED"} <=> s \in Recorded BY <1>4 DEF Recorded
  <2>2. \A s \in BSess : bsess'[s].st # "OPEN" BY <1>4 DEF Recorded
  <2> QED BY <2>1, <2>2 DEF Recorded, OpenSessions
<1>8. bgen' \in 0 .. MaxGen BY <1>1, BrTypes
<1>9. PhaseFits' BY <1>1, <1>5 DEF BrowserInv, PhaseFits
<1>10. ClosingFits' BY <1>1, <1>7 DEF BrowserInv, ClosingFits, InSession
<1>11. StateFits' BY <1>1 DEF BrowserInv, StateFits, BStopping
<1>12. SessionsFit'
  <2>1. IsFiniteSet({}) /\ Cardinality({}) = 0 BY FS_EmptySet
  <2>2. 0 < MaxSessions /\ 0 <= MaxSessions BY BrowserAssumption
  <2> QED BY <1>1, <1>7, <2>1, <2>2 DEF SessionsFit
<1>13. PagesFit'
  <2> SUFFICES ASSUME NEW p \in BPage PROVE PageFits(p)'
    BY DEF PagesFit
  <2>1. PageFits(p) BY DEF BrowserInv, PagesFit
  <2>2. bpage[p].st # "NONE" => bsess'[bpage[p].s].st # "NONE" /\ bsess'[bpage[p].s].st # "OPEN"
    BY <1>4, <2>1 DEF PageFits, Recorded
  <2> QED BY <1>5, <2>1, <2>2 DEF PageFits
<1>14. CallsFit'
  <2>1. \A q \in BPage : bpage[q].st # "NONE" => bpage'[q].st # "NONE" /\ bpage'[q].ddoc = bpage[q].ddoc BY <1>5
  <2>2. \A r \in BRun : bcall'[r].pc \in Tracked => bcall[r].pc \in Tracked /\ bcall'[r] = bcall[r] BY <1>1
  <2> QED BY <2>1, <2>2, CallsKept
<1> QED BY <1>1, <1>6, <1>8, <1>9, <1>10, <1>11, <1>12, <1>13, <1>14, BrTypes, BrGoesOn

\* close() begins, and takes its turn when no tool works on a page.
LEMMA BrCloses ==
    ASSUME BrowserInv, CloseRuntime \/ CloseTakesTurn
    PROVE  BrowserInv'
<1>1. UNCHANGED <<bgen, browser, bsess, bpage, bpc, bcall, bover, bcalls, bfaults>> BY DEF CloseRuntime, CloseTakesTurn
<1>2. OpenSessions' = OpenSessions /\ Recorded' = Recorded BY <1>1 DEF OpenSessions, Recorded
<1>3. SessionsFit' BY <1>1, <1>2 DEF BrowserInv, SessionsFit
<1>4. PagesFit' BY <1>1 DEF BrowserInv, PagesFit, PageFits
<1>5. CallsFit' BY <1>1 DEF BrowserInv, CallsFit, CallFits
<1>6. QueueFits /\ bq \in Seq(TransitionRow) BY BrTypes DEF BrowserInv
<1>7. CASE CloseRuntime
  <2>1. bclose = "no" /\ bclose' = "ops" /\ bstate' = "CLOSING" /\ UNCHANGED bq BY <1>7 DEF CloseRuntime
  <2>2. QueueFits' BY <1>6, <2>1 DEF QueueFits
  <2>3. BrowserTypeOK' BY <1>1, <2>1, BrTypes DEF BrowserInv, BrowserTypeOK
  <2>4. PhaseFits' BY <1>1, <2>1 DEF BrowserInv, PhaseFits
  <2>5. ClosingFits' BY <1>1, <1>2, <2>1 DEF BrowserInv, ClosingFits, InSession
  <2>6. StateFits' BY <2>1 DEF StateFits, BStopping
  <2> QED BY <1>3, <1>4, <1>5, <2>2, <2>3, <2>4, <2>5, <2>6 DEF BrowserInv
<1>8. CASE CloseTakesTurn
  <2>1. /\ bclose = "ops" /\ bclose' = "queued" /\ bstate' = bstate /\ OperationsSettled
        /\ bq' = Append(bq, Transition("closeAll", Closer, NoSess, NoPage))
    BY <1>8 DEF CloseTakesTurn, Serialize
  <2>2. PICK t \in TransitionRow : t = Transition("closeAll", Closer, NoSess, NoPage) /\ t.op = "closeAll"
    <3>1. Closer \in BRun \cup {Closer, Sweeper} /\ NoSess \in BSess \cup {NoSess} /\ NoPage \in BPage \cup {NoPage} OBVIOUS
    <3> QED BY <3>1, TransitionTyped
  <2>3. RowFits(t) BY <2>2 DEF RowFits
  <2>4. bq' = Append(bq, t) BY <2>1, <2>2
  <2>5. /\ \A i \in DOMAIN bq : RowFits(bq[i])
        /\ \A i \in DOMAIN bq : bq[i].op # "closeAll"
    BY <1>6, <2>1 DEF QueueFits
  <2>6. bstate # "CLOSED" BY <2>1 DEF BrowserInv, StateFits
  <2>7. /\ bq' \in Seq(TransitionRow) /\ bq' # <<>> /\ (bq # <<>> => Head(bq') = Head(bq))
        /\ \A i \in DOMAIN bq' : RowFits(bq'[i])
        /\ \A i, j \in DOMAIN bq' : bq'[i].op = "closeAll" /\ bq'[j].op = "closeAll" => i = j
    BY <1>6, <2>3, <2>4, <2>5, QueueAppended
  <2>8. QueueFits' BY <2>1, <2>6, <2>7 DEF QueueFits
  <2>9. \A i \in DOMAIN bq' : bq'[i] \in TransitionRow BY <2>7
  <2>10. BrowserTypeOK' BY <1>1, <2>1, <2>9, BrTypes DEF BrowserTypeOK
  <2>11. bpc # "begin" => bq # <<>> /\ Head(bq') = Head(bq) BY <2>7 DEF BrowserInv, PhaseFits
  <2>12. PhaseFits' BY <1>1, <2>7, <2>11 DEF BrowserInv, PhaseFits
  <2>13. ClosingFits' BY <1>1, <1>2, <2>11 DEF BrowserInv, ClosingFits, InSession
  <2>14. StateFits' BY <1>1, <1>2, <2>1, <2>6 DEF BrowserInv, StateFits, BStopping, OperationsSettled
  <2> QED BY <1>3, <1>4, <1>5, <2>8, <2>10, <2>12, <2>13, <2>14 DEF BrowserInv
<1> QED BY <1>7, <1>8

\* The Host dies: nothing of the runtime is left.
LEMMA BrCrashes ==
    ASSUME BrowserInv, BrowserHostCrash
    PROVE  BrowserInv'
<1>1. /\ bfaults < MaxBFaults /\ bfaults' = bfaults + 1 /\ bstate' = "IDLE" /\ browser' = FALSE /\ UNCHANGED <<bgen, bcalls>>
      /\ bsess' = [s \in BSess |-> [bsess[s] EXCEPT !.st = IF @ = "NONE" THEN @ ELSE "CLOSED"]]
      /\ bpage' = [p \in BPage |-> [bpage[p] EXCEPT !.st = IF @ = "NONE" THEN @ ELSE "CLOSED"]]
      /\ bq' = <<>> /\ bpc' = "begin" /\ bclose' = "no" /\ bover' = BRun
      /\ bcall' = [r \in BRun |-> ToolEnds(bcall[r], "INTERRUPTED")]
  BY DEF BrowserHostCrash, Faulty
<1>2. \A s \in BSess : bsess[s] \in SessionRecord BY BrTypes
<1>3. \A p \in BPage : bpage[p] \in PageRecord BY BrTypes
<1>4. ASSUME NEW s \in BSess
      PROVE  bsess'[s] \in SessionRecord /\ bsess'[s].st = (IF bsess[s].st = "NONE" THEN "NONE" ELSE "CLOSED")
  <2>1. PICK w \in {"NONE", "CLOSED"} : w = (IF bsess[s].st = "NONE" THEN bsess[s].st ELSE "CLOSED") OBVIOUS
  <2>2. bsess'[s] = [bsess[s] EXCEPT !.st = w] BY <1>1, <2>1
  <2>3. [bsess[s] EXCEPT !.st = w] \in SessionRecord /\ [bsess[s] EXCEPT !.st = w].st = w BY <1>2 DEF SessionRecord
  <2> QED BY <2>1, <2>2, <2>3
<1>5. ASSUME NEW p \in BPage
      PROVE  /\ bpage'[p] \in PageRecord /\ bpage'[p].s = bpage[p].s
             /\ bpage'[p].doc = bpage[p].doc /\ bpage'[p].ddoc = bpage[p].ddoc
             /\ bpage'[p].st = (IF bpage[p].st = "NONE" THEN "NONE" ELSE "CLOSED")
  <2>1. PICK w \in {"NONE", "CLOSED"} : w = (IF bpage[p].st = "NONE" THEN bpage[p].st ELSE "CLOSED") OBVIOUS
  <2>2. bpage'[p] = [bpage[p] EXCEPT !.st = w] BY <1>1, <2>1
  <2> DEFINE P == [bpage[p] EXCEPT !.st = w]
  <2>3. P \in PageRecord /\ P.st = w /\ P.s = bpage[p].s /\ P.doc = bpage[p].doc /\ P.ddoc = bpage[p].ddoc
    BY <1>3 DEF PageRecord
  <2>4. bpage'[p] = P BY <2>2
  <2> HIDE DEF P
  <2> QED BY <2>1, <2>3, <2>4
<1>6. ASSUME NEW r \in BRun PROVE bcall'[r] \in ToolCall /\ bcall'[r].pc = "idle"
  <2>1. "INTERRUPTED" \in OperationStatus BY DEF OperationStatus
  <2>2. bcall'[r] = ToolEnds(bcall[r], "INTERRUPTED") BY <1>1
  <2> QED BY <2>1, <2>2, CallEnds
<1>7. /\ bsess' \in [BSess -> SessionRecord] /\ bpage' \in [BPage -> PageRecord] /\ bcall' \in [BRun -> ToolCall]
  <2>1. bsess' \in [BSess -> SessionRecord] BY <1>1, <1>4
  <2>2. bpage' \in [BPage -> PageRecord] BY <1>1, <1>5
  <2>3. bcall' \in [BRun -> ToolCall] BY <1>1, <1>6
  <2> QED BY <2>1, <2>2, <2>3
<1>8. bfaults' \in 0 .. MaxBFaults BY <1>1, BrTypes
<1>9. BrowserTypeOK'
  <2>1. \A i \in DOMAIN bq' : bq'[i] \in TransitionRow BY <1>1
  <2>2. bgen' \in 0 .. MaxGen /\ bcalls' \in 0 .. MaxBCalls BY <1>1, BrTypes
  <2>3. bover' \subseteq BRun /\ browser' \in BOOLEAN BY <1>1
  <2>4. /\ bstate' \in {"IDLE", "LAUNCHING", "READY", "FAILED", "CLOSING", "CLOSED"} /\ bclose' \in {"no", "ops", "queued"}
        /\ bpc' \in {"begin", "launch", "context", "newpage", "goto", "sessions", "pages", "pageclose"}
    BY <1>1
  <2> QED BY <1>7, <1>8, <2>1, <2>2, <2>3, <2>4 DEF BrowserTypeOK
<1>10. QueueFits' BY <1>1 DEF QueueFits
<1>11. PhaseFits' BY <1>1 DEF PhaseFits
<1>12. ClosingFits' BY <1>1 DEF ClosingFits, InSession
<1>13. StateFits' BY <1>1 DEF StateFits, BStopping
<1>14. SessionsFit'
  <2>1. OpenSessions' = {} BY <1>4 DEF OpenSessions
  <2>2. IsFiniteSet({}) /\ Cardinality({}) = 0 BY FS_EmptySet
  <2>3. 0 <= MaxSessions BY BrowserAssumption
  <2> QED BY <1>1, <2>1, <2>2, <2>3 DEF SessionsFit
<1>15. PagesFit'
  <2> SUFFICES ASSUME NEW p \in BPage PROVE PageFits(p)'
    BY DEF PagesFit
  <2>1. PageFits(p) BY DEF BrowserInv, PagesFit
  <2>2. bpage[p].st # "NONE" => bsess'[bpage[p].s].st = "CLOSED" BY <1>4, <2>1 DEF PageFits
  <2> QED BY <1>5, <2>1, <2>2 DEF PageFits
<1>16. CallsFit' BY <1>6 DEF CallsFit, CallFits, Tracked
<1> QED BY <1>9, <1>10, <1>11, <1>12, <1>13, <1>14, <1>15, <1>16 DEF BrowserInv

\* The runtime before its first session.
LEMMA BrBegin == BrowserInit => BrowserInv
<1> SUFFICES ASSUME BrowserInit PROVE BrowserInv
  OBVIOUS
<1>1. /\ bstate = "IDLE" /\ bgen = 0 /\ browser = FALSE
      /\ bsess = [s \in BSess |-> NewSess] /\ bpage = [p \in BPage |-> NewPage]
      /\ bq = <<>> /\ bpc = "begin" /\ bcall = [r \in BRun |-> NoTool]
      /\ bclose = "no" /\ bover = {} /\ bcalls = 0 /\ bfaults = 0
  BY DEF BrowserInit
<1>2. /\ MaxSessions \in Nat /\ MaxDocs \in Nat /\ 1 \in 1 .. MaxDocs /\ 0 \in 0 .. MaxGen /\ 0 \in 0 .. MaxBCalls
      /\ 0 \in 0 .. MaxBFaults /\ 0 <= MaxSessions
  BY BrowserAssumption
<1>3. NewSess \in SessionRecord /\ NewSess.st = "NONE" BY <1>2 DEF NewSess, SessionRecord
<1>4. NewPage \in PageRecord /\ NewPage.st = "NONE" BY <1>2 DEF NewPage, PageRecord
<1>5. NoTool \in ToolCall /\ NoTool.pc = "idle" BY <1>2 DEF NoTool, ToolCall, OperationStatus
<1>6. BrowserTypeOK
  <2>1. \A i \in DOMAIN bq : bq[i] \in TransitionRow BY <1>1
  <2>2. bgen \in 0 .. MaxGen /\ bcalls \in 0 .. MaxBCalls /\ bfaults \in 0 .. MaxBFaults BY <1>1, <1>2
  <2>3. bover \subseteq BRun /\ browser \in BOOLEAN BY <1>1
  <2>4. /\ bstate \in {"IDLE", "LAUNCHING", "READY", "FAILED", "CLOSING", "CLOSED"} /\ bclose \in {"no", "ops", "queued"}
        /\ bpc \in {"begin", "launch", "context", "newpage", "goto", "sessions", "pages", "pageclose"}
    BY <1>1
  <2>5. bsess \in [BSess -> SessionRecord] BY <1>1, <1>3
  <2>6. bpage \in [BPage -> PageRecord] BY <1>1, <1>4
  <2>7. bcall \in [BRun -> ToolCall] BY <1>1, <1>5
  <2> QED BY <2>1, <2>2, <2>3, <2>4, <2>5, <2>6, <2>7 DEF BrowserTypeOK
<1>7. QueueFits BY <1>1 DEF QueueFits
<1>8. PhaseFits BY <1>1 DEF PhaseFits
<1>9. ClosingFits BY <1>1 DEF ClosingFits, InSession
<1>10. StateFits BY <1>1 DEF StateFits, BStopping
<1>11. SessionsFit
  <2>1. OpenSessions = {} BY <1>1, <1>3 DEF OpenSessions
  <2>2. IsFiniteSet({}) /\ Cardinality({}) = 0 BY FS_EmptySet
  <2> QED BY <1>1, <1>2, <2>1, <2>2 DEF SessionsFit
<1>12. PagesFit BY <1>1, <1>4 DEF PagesFit, PageFits
<1>13. CallsFit BY <1>1, <1>5 DEF CallsFit, CallFits, Tracked
<1> QED BY <1>6, <1>7, <1>8, <1>9, <1>10, <1>11, <1>12, <1>13 DEF BrowserInv

\* Every step of the runtime keeps the invariant.
LEMMA BrNext ==
    ASSUME BrowserInv, BrowserNext
    PROVE  BrowserInv'
<1>1. ASSUME NEW r \in BRun, NEW tool \in BrowserTools, BeginTool(r, tool) PROVE BrowserInv' BY <1>1, BrBegins
<1>2. ASSUME NEW r \in BRun, ToolStep(r) PROVE BrowserInv'
  <2>1. CASE OpenOwnedPage(r) \/ CloseOwned(r) BY <2>1, BrQueues
  <2>2. CASE RefuseTool(r) BY <2>2, BrFails
  <2>3. CASE \E s \in BSess, p \in BPage : StartOwned(r, s, p) BY <2>3, BrStarts
  <2>4. CASE DriverNavigate(r) \/ DriverSnapshot(r) \/ DriverScreenshot(r) \/ DriverAct(r) \/ DriverDownload(r)
    BY <2>4, BrDrives
  <2>5. CASE NavigateRecord(r) \/ EvidenceRecord(r) \/ ArtifactRecorded(r) BY <2>5, BrRecords
  <2>6. CASE SnapshotRecord(r) BY <2>6, BrSnapshot
  <2>7. CASE ActRecord(r) BY <2>7, BrActs
  <2>8. CASE ScreenshotRecord(r) \/ DownloadRecord(r) BY <2>8, BrStores
  <2>9. CASE DeniedPageClosed(r) BY <2>9, BrDenies
  <2> QED BY <1>2, <2>1, <2>2, <2>3, <2>4, <2>5, <2>6, <2>7, <2>8, <2>9 DEF ToolStep
<1>3. ASSUME NEW r \in BRun, PolicyRefuses(r) \/ TrackedFails(r) PROVE BrowserInv' BY <1>3, BrDenies, BrFails
<1>4. ASSUME NEW r \in BRun, NEW b \in BOOLEAN, OwnerEnds(r, b) PROVE BrowserInv' BY <1>4, BrAround
<1>5. ASSUME NEW p \in BPage, Navigated(p) PROVE BrowserInv' BY <1>5, BrNavigates
<1>6. ASSUME NEW s \in BSess, GrowsIdle(s) PROVE BrowserInv' BY <1>6, BrRecords
<1>7. CASE BrowserOpening \/ OpeningFails
  BY <1>7, BrOpensSession, BrLaunches, BrOpeningFails, BrCreates, BrOpensPage, BrPageOpens DEF BrowserOpening
<1>8. CASE BrowserClosing
  BY <1>8, BrClosesPage, BrBeginsClosing, BrClosesSession, BrClosesPages, BrPageClosed, BrEndsClosing DEF BrowserClosing
<1>9. CASE SweepIdle BY <1>9, BrAround
<1>10. CASE Disconnected BY <1>10, BrDisconnects
<1>11. CASE CloseRuntime \/ CloseTakesTurn BY <1>11, BrCloses
<1>12. CASE BrowserHostCrash BY <1>12, BrCrashes
<1> QED BY <1>1, <1>2, <1>3, <1>4, <1>5, <1>6, <1>7, <1>8, <1>9, <1>10, <1>11, <1>12 DEF BrowserNext

\* The inductive invariant of the Browser Runtime: with it, what a transition
\* checked before its awaits still holds when it goes on, although tools, the
\* pages themselves and a lost browser change the state beside it.
THEOREM SessionsInductive == BrowserSpec => []BrowserInv
<1>1. BrowserInit => BrowserInv BY BrBegin
<1>2. BrowserInv /\ [BrowserNext]_bVars => BrowserInv'
  <2>1. ASSUME BrowserInv, UNCHANGED bVars PROVE BrowserInv'
    <3>1. UNCHANGED <<bstate, bgen, browser, bsess, bpage, bq, bpc, bcall, bclose, bover, bcalls, bfaults>>
      BY <2>1 DEF bVars
    <3>2. \A r \in BRun : bcall'[r].pc \in Tracked => CallFits(bcall'[r]) /\ bcall[r].pc \in Tracked
      BY <2>1, <3>1 DEF BrowserInv, CallsFit
    <3> QED BY <2>1, <3>1, <3>2, BrTypes, BrCalls
  <2> QED BY <2>1, BrNext
<1> QED BY <1>1, <1>2, PTL DEF BrowserSpec

\* Sessions, pages and observations of BrowserRuntime, for every number of Runs,
\* sessions, pages and documents: no more sessions than maxSessions although the
\* check and the insertion are awaits apart, no ref of an older document, and
\* nothing left when close() has ended.
THEOREM SessionsCorrect == BrowserSpec => []SessionsAgree
<1>1. ASSUME BrowserInv PROVE SessionsAgree
  <2>1. BrowserTypeOK BY <1>1 DEF BrowserInv
  <2>2. RefsAreCurrent
    <3> SUFFICES ASSUME NEW p \in BPage, bpage[p].st = "OPEN", bsess[bpage[p].s].st = "OPEN", NEW x \in bpage[p].refs
                 PROVE  x = <<bpage[p].ddoc, bpage[p].ddoc>>
      BY DEF RefsAreCurrent
    <3>1. bpage[p].refs \subseteq {<<bpage[p].ddoc, bpage[p].ddoc>>} BY <1>1 DEF BrowserInv, PagesFit, PageFits
    <3> QED BY <3>1
  <2>3. ClosedIsEmpty BY <1>1 DEF BrowserInv, StateFits, ClosedIsEmpty
  <2>4. SessionsBounded BY <1>1 DEF BrowserInv, SessionsFit, SessionsBounded
  <2> QED BY <2>1, <2>2, <2>3, <2>4 DEF SessionsAgree
<1> QED BY <1>1, SessionsInductive, PTL

-----------------------------------------------------------------------------
(* BrowserEvidence: the ring of events of a page and its readers.           *)

\* The ring holds every event since the last that was dropped, and no reader is
\* ahead of it.
RingFits ==
    /\ evDropped <= evSeq /\ ring = evDropped + 1 .. evSeq
    /\ reader.after <= evSeq

\* The inductive invariant of BrowserEvidence.
EvInv == EvTypeOK /\ RingFits /\ NoSilentLoss /\ EvidenceStoredOnce

\* The types, part by part.
LEMMA EvTypes ==
    ASSUME EvInv
    PROVE  /\ ring \in SUBSET (1 .. MaxEvents) /\ evSeq \in 0 .. MaxEvents /\ evDropped \in 0 .. MaxEvents
           /\ pending \subseteq Request
           /\ reader \in [after : 0 .. MaxEvents, seen : SUBSET (1 .. MaxEvents), told : BOOLEAN]
           /\ reader.after \in 0 .. MaxEvents /\ reader.seen \in SUBSET (1 .. MaxEvents) /\ reader.told \in BOOLEAN
           /\ durable \subseteq (1 .. MaxEvents) \X (1 .. MaxReads) /\ reads \in 0 .. MaxReads
           /\ MaxEvents \in Nat /\ MaxReads \in Nat
<1>1. EvTypeOK BY DEF EvInv
<1>2. MaxEvents \in Nat /\ MaxReads \in Nat BY EvidenceAssumption
<1> QED BY <1>1, <1>2 DEF EvTypeOK

\* A nonempty set of numbers has an oldest one.
LEMMA OldestIsLeast ==
    ASSUME NEW S \in SUBSET Nat, S # {}
    PROVE  Oldest(S) \in S /\ \A o \in S : Oldest(S) <= o
<1>1. PICK x \in S : \A y \in S : ~ (<<y, x>> \in OpToRel(<, Nat)) BY NatLessThanWellFounded, WFMin
<1>2. ASSUME NEW y \in S PROVE x <= y
  <2>1. y \in Nat /\ x \in Nat /\ <<y, x>> \in Nat \X Nat OBVIOUS
  <2>2. <<y, x>>[1] = y /\ <<y, x>>[2] = x OBVIOUS
  <2>3. ~(y < x) BY <1>1, <2>1, <2>2, Zenon DEF OpToRel
  <2> QED BY <2>1, <2>3
<1> QED BY <1>2 DEF Oldest

\* A nonempty set of numbers with a bound has a newest one: the least bound.
LEMMA NewestIsGreatest ==
    ASSUME NEW n \in Nat, NEW S \in SUBSET (1 .. n), S # {}
    PROVE  Newest(S) \in S /\ \A o \in S : o <= Newest(S)
<1> DEFINE B == {b \in Nat : \A o \in S : o <= b}
<1>1. \A o \in S : o \in Nat /\ 1 <= o /\ o <= n OBVIOUS
<1>2. B \in SUBSET Nat /\ B # {} /\ \A b \in B : b \in Nat /\ \A o \in S : o <= b
  <2>1. n \in B BY <1>1
  <2> QED BY <2>1
<1>3. PICK b \in B : \A y \in B : b <= y
  <2> HIDE DEF B
  <2> QED BY <1>2, OldestIsLeast
<1>4. b \in S
  <2> SUFFICES ASSUME b \notin S PROVE FALSE
    OBVIOUS
  <2>1. b \in Nat /\ \A o \in S : o <= b BY <1>2, <1>3
  <2>2. \A o \in S : o < b BY <1>1, <2>1
  <2>3. b # 0
    <3>1. PICK o \in S : TRUE OBVIOUS
    <3>2. o \in Nat /\ o < b BY <1>1, <2>2, <3>1
    <3> HIDE DEF B
    <3> QED BY <2>1, <3>2
  <2>4. b - 1 \in Nat /\ \A o \in S : o <= b - 1 BY <1>1, <2>1, <2>2, <2>3
  <2>5. b - 1 \in B BY <2>4
  <2>6. b <= b - 1 BY <1>3, <2>5
  <2> QED BY <2>1, <2>6
<1>5. b \in S /\ \A o \in S : o <= b BY <1>2, <1>3, <1>4
<1> HIDE DEF B
<1> QED BY <1>5 DEF Newest

\* An event is added, and the oldest one dropped when the ring is full.
LEMMA EvAppends ==
    ASSUME EvInv, AppendEvidence, pending' \subseteq Request, UNCHANGED <<reader, durable, reads>>
    PROVE  EvInv'
<1> DEFINE all == ring \cup {evSeq + 1}
<1>1. /\ evSeq < MaxEvents /\ evSeq' = evSeq + 1
      /\ (ring' = all \ {Oldest(all)} /\ evDropped' = Oldest(all)) \/ (ring' = all /\ evDropped' = evDropped)
  BY DEF AppendEvidence
<1>2. evSeq \in Nat /\ evDropped \in Nat /\ MaxEvents \in Nat /\ evDropped <= evSeq /\ ring = evDropped + 1 .. evSeq
  BY EvTypes DEF EvInv, RingFits
<1>3. all = evDropped + 1 .. evSeq + 1 BY <1>2
<1>4. Oldest(all) = evDropped + 1
  <2>1. all \in SUBSET Nat /\ all # {} /\ evDropped + 1 \in all BY <1>2, <1>3
  <2>2. Oldest(all) \in all /\ \A o \in all : Oldest(all) <= o
    <3> HIDE DEF all
    <3> QED BY <2>1, OldestIsLeast
  <2>3. PICK x \in all : x = Oldest(all) /\ x <= evDropped + 1 BY <2>1, <2>2
  <2>4. x = evDropped + 1 BY <1>2, <1>3, <2>3
  <2> QED BY <2>3, <2>4
<1>5. evDropped' \in 0 .. MaxEvents /\ evDropped' <= evSeq' /\ ring' = evDropped' + 1 .. evSeq'
  <2>1. CASE ring' = all \ {Oldest(all)} /\ evDropped' = Oldest(all)
    <3>1. evDropped' = evDropped + 1 /\ ring' = (evDropped + 1 .. evSeq + 1) \ {evDropped + 1} BY <1>3, <1>4, <2>1
    <3> HIDE DEF all
    <3> QED BY <1>1, <1>2, <3>1
  <2>2. CASE ring' = all /\ evDropped' = evDropped BY <1>1, <1>2, <1>3, <2>2
  <2> QED BY <1>1, <2>1, <2>2
<1> HIDE DEF all
<1>6. evSeq' \in 0 .. MaxEvents /\ evSeq' = evSeq + 1
  <2>1. evSeq + 1 \in 0 .. MaxEvents BY <1>1, <1>2
  <2> QED BY <1>1, <2>1
<1>7. ring' \in SUBSET (1 .. MaxEvents)
  <2>1. evDropped' \in Nat /\ evSeq' \in Nat /\ evSeq' <= MaxEvents /\ MaxEvents \in Nat BY <1>2, <1>5, <1>6
  <2>2. ASSUME NEW x \in ring' PROVE x \in Int /\ evDropped' + 1 <= x /\ x <= evSeq'
    <3>1. PICK a \in Nat, b \in Nat : a = evDropped' /\ b = evSeq' BY <2>1
    <3>2. x \in a + 1 .. b BY <1>5, <2>2, <3>1
    <3>3. x \in Int /\ a + 1 <= x /\ x <= b BY <3>2
    <3> QED BY <3>1, <3>3
  <2>3. ASSUME NEW x \in ring' PROVE x \in 1 .. MaxEvents BY <2>1, <2>2
  <2> QED BY <2>3
<1>8. EvTypeOK' BY <1>5, <1>6, <1>7, EvTypes DEF EvInv, EvTypeOK
<1>9. RingFits' BY <1>2, <1>5, <1>6, EvTypes DEF EvInv, RingFits
<1>10. NoSilentLoss' BY DEF EvInv, NoSilentLoss
<1>11. EvidenceStoredOnce' BY DEF EvInv, EvidenceStoredOnce
<1> QED BY <1>8, <1>9, <1>10, <1>11 DEF EvInv

\* An answer that is not truncated holds everything after where it begins.
LEMMA PageIsWhole ==
    ASSUME EvInv, NEW after \in 0 .. MaxEvents, NEW limit \in Nat, ~EvidenceTruncated(after, limit)
    PROVE  EvidencePage(after, limit) = after + 1 .. evSeq
<1>1. evSeq \in Nat /\ evDropped \in Nat /\ MaxEvents \in Nat /\ ring = evDropped + 1 .. evSeq
  BY EvTypes DEF EvInv, RingFits
<1>2. evDropped <= after /\ Cardinality(Available(after)) <= limit
  <2>1. IsFiniteSet(Available(after))
    <3>1. IsFiniteSet(ring) BY <1>1, FS_Interval
    <3>2. Available(after) \in SUBSET ring BY DEF Available
    <3> QED BY <3>1, <3>2, FS_Subset
  <2>2. Cardinality(Available(after)) \in Nat BY <2>1, FS_CardinalityType
  <2> QED BY <1>1, <2>2 DEF EvidenceTruncated
<1>3. Available(after) = after + 1 .. evSeq BY <1>1, <1>2 DEF Available
<1>4. ASSUME NEW e \in Available(after) PROVE Cardinality({o \in Available(after) : o <= e}) <= limit
  <2>1. IsFiniteSet(Available(after)) BY <1>1, <1>3, FS_Interval
  <2>2. {o \in Available(after) : o <= e} \in SUBSET Available(after) OBVIOUS
  <2>3. PICK E \in SUBSET Available(after) : E = {o \in Available(after) : o <= e} BY <2>2
  <2>4. IsFiniteSet(E) /\ Cardinality(E) <= Cardinality(Available(after)) BY <2>1, FS_Subset
  <2>5. Cardinality(E) \in Nat /\ Cardinality(Available(after)) \in Nat BY <2>1, <2>4, FS_CardinalityType
  <2> QED BY <1>2, <2>3, <2>4, <2>5
<1> QED BY <1>3, <1>4 DEF EvidencePage

\* browser.evidence reads on, or again from the start.
LEMMA EvReads ==
    ASSUME EvInv, NEW after \in 0 .. MaxEvents, NEW limit \in 1 .. EvidenceLimit, ReadEvidence(after, limit)
    PROVE  EvInv'
<1> DEFINE page == EvidencePage(after, limit)
           goesTo == NextSequence(after, limit)
<1>1. /\ reads < MaxReads /\ after \in {0, reader.after} /\ reads' = reads + 1
      /\ reader' = [after |-> goesTo, seen |-> reader.seen \cup page, told |-> reader.told \/ EvidenceTruncated(after, limit)]
      /\ durable' = InsertEvidence(page, reads + 1)
      /\ UNCHANGED <<ring, evSeq, evDropped, pending>>
  BY DEF ReadEvidence
<1>2. /\ evSeq \in Nat /\ evSeq <= MaxEvents /\ evDropped \in Nat /\ MaxEvents \in Nat /\ MaxReads \in Nat /\ reads \in Nat
      /\ ring = evDropped + 1 .. evSeq /\ ring \in SUBSET (1 .. MaxEvents) /\ reader.after <= evSeq
  BY EvTypes DEF EvInv, RingFits
<1>3. limit \in Nat BY EvidenceAssumption
<1>4. page \subseteq ring BY DEF EvidencePage, Available
<1>5. after <= evSeq /\ after \in Nat BY <1>1, <1>2
<1>6. goesTo \in 0 .. MaxEvents /\ goesTo <= evSeq /\ (page # {} => goesTo \in page /\ \A o \in page : o <= goesTo)
      /\ (page = {} => goesTo = after)
  <2>1. CASE page = {} BY <1>2, <1>5, <2>1 DEF NextSequence
  <2>2. CASE page # {}
    <3>1. goesTo = Newest(page) BY <2>2 DEF NextSequence
    <3>2. page \in SUBSET (1 .. evSeq) BY <1>2, <1>4
    <3> HIDE DEF page, goesTo
    <3>3. goesTo \in page /\ \A o \in page : o <= goesTo BY <1>2, <2>2, <3>1, <3>2, NewestIsGreatest
    <3>4. goesTo \in 1 .. evSeq BY <3>2, <3>3
    <3> QED BY <1>2, <2>2, <3>3, <3>4
  <2> QED BY <2>1, <2>2
<1>7. ~EvidenceTruncated(after, limit) => page = after + 1 .. evSeq BY <1>3, PageIsWhole
<1> HIDE DEF page, goesTo
<1>8. page \in SUBSET (1 .. MaxEvents) BY <1>2, <1>4
<1>9. (reader.told \/ EvidenceTruncated(after, limit)) \in BOOLEAN
  BY EvTypes DEF EvidenceTruncated
<1>10. PICK told \in BOOLEAN : told = (reader.told \/ EvidenceTruncated(after, limit)) BY <1>9
<1>11. /\ reader' \in [after : 0 .. MaxEvents, seen : SUBSET (1 .. MaxEvents), told : BOOLEAN]
       /\ reader'.after = goesTo /\ reader'.seen = reader.seen \cup page /\ reader'.told = told
  <2>1. reader' = [after |-> goesTo, seen |-> reader.seen \cup page, told |-> told] BY <1>1, <1>10
  <2>2. reader.seen \cup page \in SUBSET (1 .. MaxEvents) BY <1>8, EvTypes
  <2> QED BY <1>6, <2>1, <2>2
<1> DEFINE fresh == {n \in page : \A d \in durable : d[1] # n}
<1>12. durable' = durable \cup {<<e, reads + 1>> : e \in fresh} BY <1>1 DEF InsertEvidence
<1>13. fresh \subseteq page /\ \A n \in page : n \in fresh <=> \A d \in durable : d[1] # n OBVIOUS
<1> HIDE DEF fresh
<1>14. reads + 1 \in 1 .. MaxReads BY <1>1, <1>2
<1>15. durable' \subseteq (1 .. MaxEvents) \X (1 .. MaxReads)
  <2>1. durable \subseteq (1 .. MaxEvents) \X (1 .. MaxReads) BY EvTypes
  <2>2. \A e \in fresh : <<e, reads + 1>> \in (1 .. MaxEvents) \X (1 .. MaxReads) BY <1>8, <1>13, <1>14
  <2> QED BY <1>12, <2>1, <2>2
<1>16. EvTypeOK'
  <2>1. reads' \in 0 .. MaxReads BY <1>1, <1>2
  <2> QED BY <1>1, <1>11, <1>15, <2>1, EvTypes DEF EvTypeOK
<1>17. RingFits' BY <1>1, <1>6, <1>11 DEF EvInv, RingFits
<1>18. NoSilentLoss'
  <2> SUFFICES ASSUME ~reader'.told PROVE 1 .. reader'.after \subseteq reader'.seen
    BY DEF NoSilentLoss
  <2>1. ~reader.told /\ ~EvidenceTruncated(after, limit) BY <1>10, <1>11
  <2>2. 1 .. reader.after \subseteq reader.seen BY <2>1 DEF EvInv, NoSilentLoss
  <2>3. 1 .. after \subseteq reader.seen BY <1>1, <2>2
  <2>4. page = after + 1 .. evSeq BY <1>7, <2>1
  <2>5. goesTo \in Nat /\ goesTo <= evSeq BY <1>2, <1>6
  <2>6. ASSUME NEW x \in 1 .. goesTo PROVE x \in reader.seen \cup page
    <3>1. CASE x <= after BY <1>5, <2>3, <2>5, <2>6, <3>1
    <3>2. CASE after < x BY <1>2, <1>5, <2>4, <2>5, <2>6, <3>2
    <3> QED BY <1>5, <2>5, <2>6, <3>1, <3>2
  <2> QED BY <1>11, <2>6
<1>19. EvidenceStoredOnce'
  <2>1. (\A d, e \in durable : d[1] = e[1] => d = e) /\ {d[1] : d \in durable} = reader.seen BY DEF EvInv, EvidenceStoredOnce
  <2>2. ASSUME NEW d \in durable' PROVE d \in durable \/ (d[1] \in fresh /\ d = <<d[1], reads + 1>>)
    <3>1. CASE d \in durable BY <3>1
    <3>2. CASE d \notin durable
      <4>1. PICK e \in fresh : d = <<e, reads + 1>> BY <1>12, <3>2
      <4>2. d[1] = e BY <4>1
      <4> QED BY <4>1, <4>2
    <3> QED BY <3>1, <3>2
  <2>3. ASSUME NEW d \in durable', NEW e \in durable', d[1] = e[1] PROVE d = e
    <3>1. CASE d \in durable /\ e \in durable BY <2>1, <2>3, <3>1
    <3>2. CASE d \notin durable /\ e \notin durable BY <2>2, <2>3, <3>2
    <3>3. CASE d \in durable /\ e \notin durable
      <4>1. e[1] \in fresh /\ e[1] \in page BY <1>13, <2>2, <3>3
      <4> QED BY <1>13, <2>3, <3>3, <4>1
    <3>4. CASE d \notin durable /\ e \in durable
      <4>1. d[1] \in fresh /\ d[1] \in page BY <1>13, <2>2, <3>4
      <4> QED BY <1>13, <2>3, <3>4, <4>1
    <3> QED BY <3>1, <3>2, <3>3, <3>4
  <2>4. \A d \in durable' : d[1] \in reader.seen \cup page BY <1>13, <2>1, <2>2
  <2>5. ASSUME NEW n \in reader.seen \cup page PROVE \E d \in durable' : d[1] = n
    <3>1. CASE n \in reader.seen
      <4>1. PICK d \in durable : d[1] = n BY <2>1, <3>1
      <4> QED BY <1>12, <4>1
    <3>2. CASE n \in page /\ n \notin reader.seen
      <4>1. n \in fresh BY <1>13, <2>1, <3>2
      <4>2. <<n, reads + 1>> \in durable' /\ <<n, reads + 1>>[1] = n BY <1>12, <4>1
      <4> QED BY <4>2
    <3> QED BY <2>5, <3>1, <3>2
  <2>6. {d[1] : d \in durable'} = reader.seen \cup page BY <2>4, <2>5
  <2> QED BY <1>11, <2>3, <2>6 DEF EvidenceStoredOnce
<1> QED BY <1>16, <1>17, <1>18, <1>19 DEF EvInv

\* The inductive invariant of the evidence: the ring has no holes, so that an
\* answer that is not truncated joins on to what the reader has.
THEOREM EvidenceInductive == EvSpec => []EvInv
<1>1. EvInit => EvInv
  <2> SUFFICES ASSUME EvInit PROVE EvInv
    OBVIOUS
  <2>1. /\ ring = {} /\ evSeq = 0 /\ evDropped = 0 /\ pending = {}
        /\ reader = [after |-> 0, seen |-> {}, told |-> FALSE] /\ durable = {} /\ reads = 0
    BY DEF EvInit
  <2>2. 0 \in 0 .. MaxEvents /\ 0 \in 0 .. MaxReads BY EvidenceAssumption
  <2>3. EvTypeOK BY <2>1, <2>2 DEF EvTypeOK
  <2>4. RingFits BY <2>1 DEF RingFits
  <2>5. NoSilentLoss BY <2>1 DEF NoSilentLoss
  <2>6. EvidenceStoredOnce BY <2>1 DEF EvidenceStoredOnce
  <2> QED BY <2>3, <2>4, <2>5, <2>6 DEF EvInv
<1>2. EvInv /\ [EvNext]_evVars => EvInv'
  <2>1. ASSUME EvInv, PageSpeaks PROVE EvInv'
    BY <2>1, EvAppends, EvTypes DEF PageSpeaks
  <2>2. ASSUME EvInv, NEW q \in Request, OnRequest(q) PROVE EvInv'
    <3>1. pending' \subseteq Request /\ UNCHANGED <<ring, evSeq, evDropped, reader, durable, reads>>
      BY <2>2, EvTypes DEF OnRequest
    <3> QED BY <2>2, <3>1 DEF EvInv, EvTypeOK, RingFits, NoSilentLoss, EvidenceStoredOnce
  <2>3. ASSUME EvInv, NEW q \in Request, OnAnswer(q) PROVE EvInv'
    <3>1. pending' \subseteq Request /\ AppendEvidence /\ UNCHANGED <<reader, durable, reads>>
      BY <2>3, EvTypes DEF OnAnswer
    <3> QED BY <2>3, <3>1, EvAppends
  <2>4. ASSUME EvInv, UNCHANGED evVars PROVE EvInv'
    <3>1. UNCHANGED <<ring, evSeq, evDropped, pending, reader, durable, reads>> BY <2>4 DEF evVars
    <3> QED BY <2>4, <3>1 DEF EvInv, EvTypeOK, RingFits, NoSilentLoss, EvidenceStoredOnce
  <2> QED BY <2>1, <2>2, <2>3, <2>4, EvReads DEF EvNext
<1> QED BY <1>1, <1>2, PTL DEF EvSpec

\* The reader of the evidence ring, for every size of the ring and of a read: it
\* has every event up to where it is or was told of a gap, and the ledger stores
\* each event that was read once.
THEOREM EvidenceCorrect == EvSpec => []EvidenceAgrees
<1>1. EvInv => EvidenceAgrees BY DEF EvInv, EvidenceAgrees
<1> QED BY <1>1, EvidenceInductive, PTL
=============================================================================
