----------------------------- MODULE ModelStream -----------------------------
(***************************************************************************)
(* The OpenAI Responses adapter (packages/model-openai-responses): it gives *)
(* every tool a name the provider accepts, and assembles the function calls *)
(* of a streamed response from events that name a call by its call id, by  *)
(* the id of its output item, or by both.                                  *)
(*                                                                         *)
(* The provider streams the events of its calls interleaved, each call's in *)
(* their order, and may end the response, cut it short, fail, or go away   *)
(* at any point.  Which ids an event carries, and whether an item is       *)
(* announced, is the dialect of the provider.  The arguments of a call are *)
(* the pieces received so far.                                             *)
(***************************************************************************)
EXTENDS Naturals, Sequences, TLC

CONSTANTS
    StreamCall, StreamTool,
    Encoded,   \* tools whose name the provider does not accept
    Alias,     \* what their hashed names may be
    Dialect,   \* dialects: the ids that each kind of event carries
    Pieces     \* the length of the arguments of a call

ASSUME StreamAssumption == Encoded \subseteq StreamTool /\ Pieces \in Nat \ {0}

VARIABLES
    hashed,    \* the hashed name of each encoded tool
    dialect,   \* the dialect of this provider
    meant,     \* the tool that the provider calls
    sent,      \* what the provider has sent of each call
    tools,     \* the accumulators, in the order in which they were made
    bound,     \* byIdentity: the accumulator of an id, or 0
    calls,     \* the tool_call events that the kernel was given
    streamOutcome \* how the stream ended

streamVars == <<hashed, dialect, meant, sent, tools, bound, calls, streamOutcome>>

\* The kinds of event of one call, in their order; a delta is sent Pieces times.
Kind == {"added", "delta", "args", "item"}
Identity == StreamCall \X {"call", "item"}
ToolAccumulator == [id : Identity, tool : StreamTool \cup {"NONE"}, args : 0 .. Pieces, emitted : BOOLEAN]
ToolCallEvent == [id : Identity, tool : StreamTool, args : 0 .. Pieces]
Fresh == 0
Done == Pieces + 3

ProviderName(t) == IF t \in Encoded THEN hashed[t] ELSE t

\* buildToolNameAliases refuses names that collide.
AliasesCollide == \E t \in Encoded, u \in StreamTool : t # u /\ ProviderName(t) = ProviderName(u)

\* The tool that a provider name stands for.
CanonicalToolName(name) == CHOOSE t \in StreamTool : ProviderName(t) = name

StreamInit ==
    /\ hashed \in [Encoded -> Alias]
    /\ dialect \in Dialect
    /\ meant \in [StreamCall -> StreamTool]
    /\ sent = [c \in StreamCall |-> Fresh]
    /\ tools = <<>>
    /\ bound = [x \in Identity |-> 0]
    /\ calls = <<>>
    /\ streamOutcome = IF AliasesCollide THEN "MODEL_PROFILE_INVALID" ELSE "STREAMING"

\* The accumulator that an event of call c finds by its ids, or a new one.
Found(c, ids) ==
    LET byCall == IF "call" \in ids THEN bound[<<c, "call">>] ELSE 0
        byItem == IF "item" \in ids THEN bound[<<c, "item">>] ELSE 0
    IN  IF byCall # 0 THEN byCall ELSE IF byItem # 0 THEN byItem ELSE Len(tools) + 1

Conflicting(c, ids) ==
    /\ ids = {"call", "item"}
    /\ bound[<<c, "call">>] # 0 /\ bound[<<c, "item">>] # 0
    /\ bound[<<c, "call">>] # bound[<<c, "item">>]

New == [tool |-> "NONE", args |-> 0, emitted |-> FALSE]

\* resolveToolAccumulator: the call id, once known, is the id of the call.
ResolvedTool(c, ids) ==
    LET k == Found(c, ids)
        old == IF k <= Len(tools) THEN tools[k] ELSE [id |-> <<c, "item">>] @@ New
    IN  IF "call" \in ids THEN [old EXCEPT !.id = <<c, "call">>] ELSE old

Bind(c, ids) == bound' = [x \in Identity |-> IF x \in {c} \X ids THEN Found(c, ids) ELSE bound[x]]

Put(k, a) == tools' = [i \in 1 .. IF k > Len(tools) THEN k ELSE Len(tools) |-> IF i = k THEN a ELSE tools[i]]

\* applyProviderToolName, for the events that carry a name.
Named(a, c, kind) == IF kind \in {"added", "item"} THEN [a EXCEPT !.tool = CanonicalToolName(ProviderName(meant[c]))] ELSE a

\* An announcement starts with no arguments, a delta adds a piece, the others
\* carry them all.
Arguments(a, kind) ==
    CASE kind = "added" -> 0
      [] kind = "delta" -> a.args + 1
      [] OTHER -> Pieces

ToolCall(a) == [id |-> a.id, tool |-> a.tool, args |-> a.args]
Nameless(a) == a.tool = "NONE"

Fails(code) == streamOutcome' = code /\ UNCHANGED <<tools, bound, calls>>

Emit(a, kind) == kind = "item" /\ ~a.emitted

Marked(a) == [a EXCEPT !.emitted = TRUE]

\* One event of a function call.
Accumulate(c, kind) ==
    LET ids == dialect[kind]
        k == Found(c, ids)
        named == Named(ResolvedTool(c, ids), c, kind)
        a == [named EXCEPT !.args = Arguments(named, kind)]
    IN  IF ids = {}
        THEN IF kind \in {"delta", "args"} THEN UNCHANGED <<tools, bound, calls, streamOutcome>> ELSE Fails("MODEL_STREAM_INVALID")
        ELSE IF Conflicting(c, ids) THEN Fails("MODEL_STREAM_INVALID")
        ELSE /\ Bind(c, ids)
             /\ Put(k, IF Emit(a, kind) THEN Marked(a) ELSE a)
             /\ calls' = IF Emit(a, kind) THEN Append(calls, ToolCall(a)) ELSE calls
             /\ UNCHANGED streamOutcome

\* The next event of a call; a dialect may leave announcements out.
EventOf(n) ==
    CASE n = 0 -> "added"
      [] n \in 1 .. Pieces -> "delta"
      [] n = Pieces + 1 -> "args"
      [] OTHER -> "item"

StreamEvent(c) ==
    /\ streamOutcome = "STREAMING" /\ sent[c] < Done
    /\ sent' = [sent EXCEPT ![c] = @ + 1]
    /\ IF EventOf(sent[c]) \in dialect.omits
       THEN UNCHANGED <<tools, bound, calls, streamOutcome>>
       ELSE Accumulate(c, EventOf(sent[c]))
    /\ UNCHANGED <<hashed, dialect, meant>>

\* The calls that are not emitted yet.
PendingCalls == SelectSeq(tools, LAMBDA a : ~a.emitted)

\* The response is completed or incomplete: what is pending is emitted.
ResponseEnds(verdict) ==
    /\ streamOutcome = "STREAMING"
    /\ verdict = "COMPLETED" => \A c \in StreamCall : sent[c] \in {Fresh, Done}
    /\ UNCHANGED <<hashed, dialect, meant, sent, bound>>
    /\ IF \E i \in DOMAIN PendingCalls : Nameless(PendingCalls[i])
       THEN streamOutcome' = "MODEL_STREAM_INVALID" /\ UNCHANGED <<tools, calls>>
       ELSE /\ calls' = calls \o [i \in DOMAIN PendingCalls |-> ToolCall(PendingCalls[i])]
            /\ tools' = [i \in DOMAIN tools |-> Marked(tools[i])]
            /\ streamOutcome' = verdict

\* A failure event, a broken frame, an abort, or the end of the stream before
\* the end of the response.
StreamBreaks ==
    /\ streamOutcome = "STREAMING"
    /\ streamOutcome' \in {"MODEL_PROVIDER_FAILED", "MODEL_TRANSPORT_FAILED", "MODEL_STREAM_INVALID", "MODEL_ABORTED"}
    /\ UNCHANGED <<hashed, dialect, meant, sent, tools, bound, calls>>

StreamNext ==
    \/ \E c \in StreamCall : StreamEvent(c)
    \/ \E verdict \in {"COMPLETED", "INCOMPLETE"} : ResponseEnds(verdict)
    \/ StreamBreaks

-----------------------------------------------------------------------------
(* Properties.                                                              *)

StreamTypeOK ==
    /\ meant \in [StreamCall -> StreamTool] /\ sent \in [StreamCall -> 0 .. Done]
    /\ tools \in Seq(ToolAccumulator) /\ bound \in [Identity -> 0 .. Len(tools)]
    /\ calls \in Seq(ToolCallEvent)

\* However the events of two calls are interleaved and whichever ids they
\* carry, the kernel is given no call twice.
EmittedOnce == \A i, j \in DOMAIN calls : calls[i].id[1] = calls[j].id[1] => i = j

\* The kernel is given a call under the call id, which its result must carry,
\* with the tool that the provider meant.
EmittedIsMeant ==
    \A i \in DOMAIN calls : calls[i].id[2] = "call" /\ calls[i].tool = meant[calls[i].id[1]]

\* A completed response gives the kernel every one of its calls, each with all
\* of its arguments.
CompletedIsWhole ==
    streamOutcome = "COMPLETED" =>
       \A c \in StreamCall : sent[c] = Done =>
          \E i \in DOMAIN calls : calls[i].id = <<c, "call">> /\ calls[i].args = Pieces

\* A Tool call of the model is emitted once, as it was meant and to its end.
StreamAgrees == StreamTypeOK /\ EmittedOnce /\ EmittedIsMeant /\ CompletedIsWhole
=============================================================================
