-------------------------- MODULE ProtocolCalls --------------------------
(***************************************************************************)
(* The calls of one protocol client: the handshake and the serial handling *)
(* of frames in protocol-server.ts with its cache of results by            *)
(* idempotency key, OperationRegistry.invoke, and LocalCliProtocolClient   *)
(* with its connection attempts, time-outs and pending calls.              *)
(*                                                                         *)
(* A request stands for an operation and its canonical input.  `invoked'   *)
(* is what the Host did: one entry for every invocation, whether it took   *)
(* effect or not.                                                          *)
(***************************************************************************)
EXTENDS Naturals, Sequences, FiniteSets

CONSTANTS
    MaxClientCalls,            \* bound: calls that the client makes
    IdempotencyKey,            \* idempotency keys
    Request,        \* operations with their inputs
    MaxEntries,     \* results the cache of a connection keeps (128 in the code)
    MaxConnections, \* bound: connection attempts
    MaxOutbound     \* frames a slow consumer may have outstanding

ASSUME CallsAssumption ==
    /\ MaxEntries \in Nat \ {0}
    /\ {MaxClientCalls, MaxConnections, MaxOutbound} \subseteq Nat

VARIABLES
    link,       \* [peer, up, down]: the Host's end and the frames on the way
    cache,      \* results of this connection, oldest first
    handling,   \* the calls that handleCall awaits, at most one of a connection
    invoked,    \* what the registry was asked to do
    client,     \* [state, connection]
    call        \* the calls made so far: [key, request, status, value]

callVars == <<link, cache, handling, invoked, client, call>>

ResultMessage(c, r) == [type |-> "result", id |-> c, ok |-> r.ok, of |-> r.of]
Control(t) == [type |-> t]
NoLink == [peer |-> "none", up |-> <<>>, down |-> <<>>]
----------------------------------------------------------------------------
(* The Host.                                                               *)

\* The Host ends the connection; what it had buffered may be lost.
EndLink ==
    \E n \in 0 .. Len(link.down) :
        link' = [peer |-> "none", up |-> <<>>,
                 down |-> Append(SubSeq(link.down, 1, n), Control("close"))]

\* A slow consumer is closed instead of answered, and a peer that is gone
\* hears nothing.
Reply(frame, l) ==
    IF l.peer = "none" THEN link' = l
    ELSE IF Len(l.down) > MaxOutbound THEN EndLink
    ELSE link' = [l EXCEPT !.down = Append(@, frame)]

\* The policy refuses the upgrade, or nobody listens.
RefuseUpgrade ==
    /\ client.state = "opening" /\ link = NoLink
    /\ link' = [link EXCEPT !.down = <<Control("close")>>]
    /\ UNCHANGED <<cache, handling, invoked, client, call>>

\* The upgrade is accepted: a fresh peer with an empty cache, and the client
\* sends its open frame.
AcceptUpgrade ==
    /\ client.state = "opening" /\ link = NoLink
    /\ link' = [peer |-> "raw", up |-> <<Control("open")>>, down |-> <<>>]
    /\ cache' = <<>>
    /\ UNCHANGED <<handling, invoked, client, call>>

\* The open frame is accepted, or rejected for its version or its token.
HandleOpenFrame ==
    /\ link.peer = "raw" /\ link.up # <<>>
    /\ \/ link' = [peer |-> "peer", up |-> Tail(link.up),
                   down |-> Append(link.down, Control("accepted"))]
       \/ link' = [peer |-> "none", up |-> <<>>,
                   down |-> link.down \o <<Control("rejected"), Control("close")>>]
    /\ UNCHANGED <<cache, handling, invoked, client, call>>

HandshakeTimeout ==
    /\ link.peer = "raw"
    /\ link' = [peer |-> "none", up |-> <<>>,
                down |-> link.down \o <<Control("rejected"), Control("close")>>]
    /\ UNCHANGED <<cache, handling, invoked, client, call>>

Cached(key) == {i \in 1 .. Len(cache) : cache[i].key = key}

\* A cached result answers only the request it was given for.
SameRequest(entry, frame) == entry.request = frame.request

\* Mutant: a frame is handled while the one before it awaits.
ChainFreeAtOnce == TRUE
\* The handlers of a connection's frames are chained.
ChainFree == \A f \in handling : f.on # client.connection

\* handleCall up to its await: a known key is answered from the cache.
HandleCallFrame ==
    /\ link.peer = "peer" /\ link.up # <<>>
    /\ ChainFree
    /\ LET f == Head(link.up)
           l == [link EXCEPT !.up = Tail(@)]
       IN  IF Cached(f.key) = {}
           THEN /\ handling' = handling \cup {f}
                /\ link' = l
           ELSE /\ \E i \in Cached(f.key) :
                      IF SameRequest(cache[i], f)
                      THEN Reply(ResultMessage(f.id, cache[i]), l)
                      ELSE Reply(ResultMessage(f.id, [ok |-> FALSE, of |-> 0]), l)
                /\ UNCHANGED handling
    /\ UNCHANGED <<cache, invoked, client, call>>

\* The entries that remain when one is added.
Trimmed(s) == IF Len(s) > MaxEntries THEN Tail(s) ELSE s

CacheResult(f, r) ==
    Trimmed(Append(cache, [key |-> f.key, request |-> f.request, ok |-> r.ok, of |-> r.of]))

\* The outcomes of OperationRegistry.invoke: an operation that is unknown, has
\* invalid input or throws; one whose output is refused after it took effect;
\* and one that succeeds.
InvokeOutcome == {[effect |-> FALSE, ok |-> FALSE], [effect |-> TRUE, ok |-> FALSE],
            [effect |-> TRUE, ok |-> TRUE]}

\* The operation ends, also when its connection is gone.
InvokeReturns(f) ==
    /\ \E o \in InvokeOutcome :
          LET reply == [ok |-> o.ok, of |-> Len(invoked) + 1]
          IN  /\ invoked' = Append(invoked, [connection |-> f.on, key |-> f.key,
                                             request |-> f.request, effect |-> o.effect])
              /\ IF f.on = client.connection
                 THEN /\ cache' = CacheResult(f, reply)
                      /\ Reply(ResultMessage(f.id, reply), link)
                 ELSE UNCHANGED <<cache, link>>
    /\ handling' = handling \ {f}
    /\ UNCHANGED <<client, call>>

\* The Host closes the connection: it stops, or the socket fails.
PeerCloses ==
    /\ link.peer # "none"
    /\ EndLink
    /\ UNCHANGED <<cache, handling, invoked, client, call>>
----------------------------------------------------------------------------
(* The client.                                                             *)

Settle(S, status) == [c \in DOMAIN call |->
    IF c \in S THEN [call[c] EXCEPT !.status = status] ELSE call[c]]

PendingIds == {c \in DOMAIN call : call[c].status = "pending"}

OpenConnection ==
    /\ client.state = "idle"
    /\ client.connection < MaxConnections
    /\ client' = [state |-> "opening", connection |-> client.connection + 1]
    /\ link' = NoLink
    /\ UNCHANGED <<cache, handling, invoked, call>>

\* connect gives up at its deadline.
ConnectTimeout ==
    /\ client.state \in {"idle", "opening"}
    /\ client.connection > 0
    /\ client' = [client EXCEPT !.state = "failed"]
    /\ link' = NoLink
    /\ UNCHANGED <<cache, handling, invoked, call>>

SendCall(k, r) ==
    /\ client.state = "accepted"
    /\ Len(call) < MaxClientCalls
    /\ call' = Append(call, [key |-> k, request |-> r, status |-> "pending", value |-> 0])
    /\ link' = IF link.peer = "none" THEN link
               ELSE [link EXCEPT !.up = Append(@, [id |-> Len(call) + 1, key |-> k,
                                                   request |-> r,
                                                   on |-> client.connection])]
    /\ UNCHANGED <<cache, handling, invoked, client>>

CallTimeout(c) ==
    /\ c \in PendingIds
    /\ call' = Settle({c}, "timeout")
    /\ UNCHANGED <<link, cache, handling, invoked, client>>

\* A result whose call is no longer pending is ignored.
OnAnswer(f) ==
    call' = IF f.id \notin PendingIds THEN call
            ELSE [call EXCEPT ![f.id].status = IF f.ok THEN "ok" ELSE "error",
                              ![f.id].value = f.of]

\* The close event rejects what is pending; before the handshake it fails the
\* attempt, which connect retries.
OnSocketClose ==
    /\ client' = [client EXCEPT !.state = IF @ = "opening" THEN "idle" ELSE "closed"]
    /\ call' = Settle(PendingIds, "closed")

ReceiveFrame ==
    /\ link.down # <<>>
    /\ client.state \in {"opening", "accepted"}
    /\ LET f == Head(link.down)
       IN  \/ /\ f.type = "accepted"
              /\ client' = [client EXCEPT !.state = "accepted"]
              /\ link' = [link EXCEPT !.down = Tail(@)]
              /\ UNCHANGED call
           \/ /\ f.type = "rejected"
              /\ client' = [client EXCEPT !.state = "failed"]
              /\ link' = NoLink
              /\ UNCHANGED call
           \/ /\ f.type = "result"
              /\ OnAnswer(f)
              /\ link' = [link EXCEPT !.down = Tail(@)]
              /\ UNCHANGED client
           \/ /\ f.type = "close"
              /\ OnSocketClose
              /\ link' = NoLink
    /\ UNCHANGED <<cache, handling, invoked>>

\* close of the client: the calls that are pending are left to their timers,
\* because the close event is of a socket that is no longer the client's.
CloseClient ==
    /\ client.state = "accepted"
    /\ client' = [client EXCEPT !.state = "left"]
    /\ link' = NoLink
    /\ UNCHANGED <<cache, handling, invoked, call>>

\* A session that lost its connection opens another.
Reopen ==
    /\ client.state \in {"closed", "left"}
    /\ PendingIds = {}
    /\ client' = [client EXCEPT !.state = "idle"]
    /\ UNCHANGED <<link, cache, handling, invoked, call>>
----------------------------------------------------------------------------
CallsInit ==
    /\ link = NoLink
    /\ cache = <<>>
    /\ handling = {}
    /\ invoked = <<>>
    /\ client = [state |-> "idle", connection |-> 0]
    /\ call = <<>>

CallsNext ==
    \/ RefuseUpgrade \/ AcceptUpgrade
    \/ HandleOpenFrame \/ HandshakeTimeout
    \/ HandleCallFrame
    \/ \E f \in handling : InvokeReturns(f)
    \/ PeerCloses
    \/ OpenConnection \/ ConnectTimeout
    \/ \E k \in IdempotencyKey, r \in Request : SendCall(k, r)
    \/ \E c \in DOMAIN call : CallTimeout(c)
    \/ ReceiveFrame
    \/ CloseClient
    \/ Reopen

CallsSpec == CallsInit /\ [][CallsNext]_callVars
----------------------------------------------------------------------------
\* The state of the calls has its type.
CallsTypeOK ==
    /\ link.peer \in {"none", "raw", "peer"}
    /\ Len(cache) <= MaxEntries
    /\ client.state \in {"idle", "opening", "accepted", "closed", "left", "failed"}
    /\ client.connection \in 0 .. MaxConnections
    /\ call \in Seq([key : IdempotencyKey, request : Request, value : Nat,
                     status : {"pending", "ok", "error", "timeout", "closed"}])

\* On one connection a key is invoked a second time only after MaxEntries
\* other keys: a call that is repeated after its time-out, while the first is
\* still under way, is answered with the first one's result (handleCall, the
\* chain of handlers and the cache).
InvokedOnce ==
    \A i, j \in 1 .. Len(invoked) :
        ( /\ i < j
          /\ invoked[i].key = invoked[j].key
          /\ invoked[i].connection = invoked[j].connection )
        => Cardinality({invoked[m].key : m \in i + 1 .. j - 1}) >= MaxEntries

\* A call that succeeded was answered with an operation that took effect for
\* its own key and its own request.
AnswerIsOwn ==
    \A c \in DOMAIN call : call[c].status = "ok" =>
        LET n == invoked[call[c].value]
        IN  n.effect /\ n.key = call[c].key /\ n.request = call[c].request

\* A call does not stay pending on a connection that has ended, unless the
\* client itself closed it; and while the connection lasts, the call is on its
\* way, being handled, or answered.
PendingIsAlive ==
    \A c \in PendingIds :
        \/ client.state = "left"
        \/ /\ client.state = "accepted"
           /\ \/ link.down # <<>>
              \/ \E f \in handling : f.id = c
              \/ \E i \in 1 .. Len(link.up) : link.up[i].id = c

\* A call is invoked once, answered with its own result, and pends only while
\* its connection lives.
CallsAgree == CallsTypeOK /\ InvokedOnce /\ AnswerIsOwn /\ PendingIsAlive
=============================================================================
