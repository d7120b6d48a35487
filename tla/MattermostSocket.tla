--------------------------- MODULE MattermostSocket ---------------------------
(***************************************************************************)
(* The Mattermost runtime (connectors/mattermost runtime, extension): the  *)
(* extension starts it, a loop keeps one WebSocket connected, every posted *)
(* event joins a chain that persists it to the ingress inbox, a timer      *)
(* drains the inbox, and close() aborts all of it and awaits it.           *)
(*                                                                         *)
(* The server posts events 1, 2, ... and opens, refuses or drops the       *)
(* connection when it likes.  What becomes of a persisted event is the     *)
(* business of module Connectors.                                          *)
(***************************************************************************)
EXTENDS Naturals, Sequences

CONSTANTS MaxPosts, MaxSockets, MaxPersistTries

ASSUME SocketAssumption == {MaxPosts, MaxSockets, MaxPersistTries} \subseteq Nat /\ MaxPersistTries > 0

VARIABLES
    starter,   \* the activation of the extension
    stopper,   \* close()
    aborted,   \* #controller
    mmStatus,  \* the public status
    loop,      \* where #connectLoop awaits
    wire,      \* the WebSocket of the loop
    hears,     \* the abort listener of the socket will be called
    socketNo,  \* sockets made so far
    settled,   \* #firstConnectionSettled
    pump,      \* the drain timer runs
    draining,  \* a drain is in flight
    chain,     \* #ingressPersist
    tries,     \* attempts at the head of the chain
    inbox,     \* the persisted events
    dropped,   \* events given up, with their socket
    postNo     \* events posted so far

startup == <<starter, settled>>
connection == <<loop, wire, hears, socketNo>>
ingressPath == <<chain, tries, inbox, dropped, postNo>>
socketVars == <<startup, stopper, aborted, mmStatus, connection, pump, draining, ingressPath>>

SocketInit ==
    /\ starter = "idle" /\ settled = FALSE
    /\ stopper = "no" /\ aborted = FALSE /\ mmStatus = "STOPPED"
    /\ loop = "none" /\ wire = "none" /\ hears = FALSE /\ socketNo = 0
    /\ pump = FALSE /\ draining = FALSE
    /\ chain = <<>> /\ tries = 0 /\ inbox = <<>> /\ dropped = {} /\ postNo = 0

\* start() until the server has told who the bot is.
StartRuntime ==
    /\ starter = "idle"
    /\ starter' = "getMe" /\ mmStatus' = "STARTING"
    /\ UNCHANGED <<settled, stopper, aborted, connection, pump, draining, ingressPath>>

\* The account is registered, the pump and the loop are started.
GotMe ==
    /\ starter = "getMe"
    /\ starter' = "waiting" /\ pump' = TRUE /\ loop' = "checking"
    /\ UNCHANGED <<settled, stopper, aborted, mmStatus, wire, hears, socketNo, draining, ingressPath>>

\* What abort() does to the loop: a socket that listens closes and ends it, a
\* sleep ends at once, and nobody tells a network check.
LoopAborted ==
    IF loop \in {"socket", "sleep"} /\ (loop = "socket" => hears)
    THEN loop' = "ended" /\ wire' = "none" /\ hears' = FALSE
    ELSE UNCHANGED <<loop, wire, hears>>

CloseRuntime ==
    /\ stopper = "no"
    /\ stopper' = "awaiting" /\ aborted' = TRUE /\ mmStatus' = "STOPPING"
    /\ pump' = FALSE
    /\ LoopAborted
    /\ UNCHANGED socketNo

\* The bot is not the configured one, the server does not answer, or the first
\* connection does not come in time: the extension closes the runtime.
StartRuntimeFails ==
    /\ starter \in {"getMe", "waiting"} /\ ~settled
    /\ starter' = "failed"
    /\ CloseRuntime
    /\ UNCHANGED <<settled, draining, ingressPath>>

Deactivate ==
    /\ starter = "started"
    /\ CloseRuntime
    /\ UNCHANGED <<startup, draining, ingressPath>>

\* The catch of the loop.
LoopCatches ==
    IF aborted THEN loop' = "ended" /\ UNCHANGED mmStatus
    ELSE loop' = "sleep" /\ mmStatus' = "RECONNECT_WAIT"

\* The network check passes and connectOnce makes a socket, whose listener
\* hears only an abort that is still to come.
ConnectOnce ==
    /\ loop = "checking" /\ socketNo < MaxSockets
    /\ loop' = "socket" /\ wire' = "connecting" /\ hears' = ~aborted /\ socketNo' = socketNo + 1
    /\ UNCHANGED <<startup, stopper, aborted, mmStatus, pump, draining, ingressPath>>

NetworkRefused ==
    /\ loop = "checking" /\ LoopCatches
    /\ UNCHANGED <<startup, stopper, aborted, wire, hears, socketNo, pump, draining, ingressPath>>

OnOpen ==
    /\ loop = "socket" /\ wire = "connecting"
    /\ wire' = "open" /\ mmStatus' = "CONNECTED"
    /\ settled' = TRUE
    /\ starter' = IF starter = "waiting" THEN "started" ELSE starter
    /\ UNCHANGED <<stopper, aborted, loop, hears, socketNo, pump, draining, ingressPath>>

\* The connection fails before it opens, or is closed by either side.
OnClose ==
    /\ loop = "socket"
    /\ wire' = "none" /\ hears' = FALSE
    /\ LoopCatches
    /\ UNCHANGED <<startup, stopper, aborted, socketNo, pump, draining, ingressPath>>

\* The delay is over, and the loop looks at the abort signal again.
Reconnect ==
    /\ loop = "sleep"
    /\ loop' = IF aborted THEN "ended" ELSE "checking"
    /\ UNCHANGED <<startup, stopper, aborted, mmStatus, wire, hears, socketNo, pump, draining, ingressPath>>

\* The server posts an event, which a runtime that is not connected misses; the
\* chain of an aborted runtime lets it pass.
OnMessage ==
    /\ postNo < MaxPosts
    /\ postNo' = postNo + 1
    /\ chain' = IF wire = "open" /\ ~aborted THEN Append(chain, [post |-> postNo + 1, socket |-> socketNo]) ELSE chain
    /\ UNCHANGED <<startup, stopper, aborted, mmStatus, connection, pump, draining, tries, inbox, dropped>>

NextInChain == {1}

\* One attempt of the chain to persist an event; then a drain is scheduled.
PersistIngress ==
    /\ chain # <<>> /\ ~aborted
    /\ \E k \in NextInChain \cap DOMAIN chain :
       /\ inbox' = Append(inbox, chain[k].post)
       /\ chain' = [i \in 1 .. Len(chain) - 1 |-> IF i < k THEN chain[i] ELSE chain[i + 1]]
    /\ tries' = 0 /\ draining' = TRUE
    /\ UNCHANGED <<startup, stopper, aborted, mmStatus, connection, pump, dropped, postNo>>

\* After the last attempt the socket of the event is closed.
GiveUp ==
    /\ dropped' = dropped \cup {Head(chain)}
    /\ wire' = IF Head(chain).socket = socketNo /\ wire = "open" THEN "closing" ELSE wire

PersistFails ==
    /\ chain # <<>> /\ ~aborted
    /\ \/ /\ tries + 1 < MaxPersistTries
          /\ tries' = tries + 1
          /\ UNCHANGED <<chain, wire, dropped>>
       \/ /\ tries + 1 = MaxPersistTries
          /\ GiveUp
          /\ chain' = Tail(chain) /\ tries' = 0
    /\ UNCHANGED <<startup, stopper, aborted, mmStatus, loop, hears, socketNo, pump, draining, inbox, postNo>>

\* A malformed post is skipped, and so is every event once the runtime stops.
SkipIngress ==
    /\ chain # <<>>
    /\ aborted \/ tries = 0
    /\ chain' = Tail(chain) /\ tries' = 0
    /\ UNCHANGED <<startup, stopper, aborted, mmStatus, connection, pump, draining, inbox, dropped, postNo>>

PumpTick ==
    /\ pump /\ ~draining
    /\ draining' = TRUE
    /\ UNCHANGED <<startup, stopper, aborted, mmStatus, connection, pump, ingressPath>>

DrainEnds ==
    /\ draining
    /\ draining' = FALSE
    /\ UNCHANGED <<startup, stopper, aborted, mmStatus, connection, pump, ingressPath>>

\* Mutant: the loop is not awaited.
AllSettledButLoop == chain = <<>> /\ ~draining

\* What close() awaits.
AllSettled == loop \in {"none", "ended"} /\ chain = <<>> /\ ~draining

CloseEnds ==
    /\ stopper = "awaiting" /\ AllSettled
    /\ stopper' = "closed" /\ mmStatus' = "STOPPED"
    /\ UNCHANGED <<startup, aborted, connection, pump, draining, ingressPath>>

SocketNext ==
    \/ StartRuntime \/ GotMe \/ StartRuntimeFails \/ Deactivate
    \/ ConnectOnce \/ NetworkRefused \/ OnOpen \/ OnClose \/ Reconnect
    \/ OnMessage \/ PersistIngress \/ PersistFails \/ SkipIngress
    \/ PumpTick \/ DrainEnds \/ CloseEnds

SocketSpec == SocketInit /\ [][SocketNext]_socketVars

-----------------------------------------------------------------------------
(* Properties.                                                              *)

Chained == [post : 1 .. MaxPosts, socket : 1 .. MaxSockets]

SocketTypeOK ==
    /\ starter \in {"idle", "getMe", "waiting", "started", "failed"} /\ settled \in BOOLEAN
    /\ stopper \in {"no", "awaiting", "closed"} /\ aborted \in BOOLEAN
    /\ mmStatus \in {"STOPPED", "STARTING", "CONNECTED", "RECONNECT_WAIT", "STOPPING"}
    /\ loop \in {"none", "checking", "socket", "sleep", "ended"}
    /\ wire \in {"none", "connecting", "open", "closing"} /\ hears \in BOOLEAN
    /\ socketNo \in 0 .. MaxSockets /\ postNo \in 0 .. MaxPosts
    /\ pump \in BOOLEAN /\ draining \in BOOLEAN
    /\ chain \in Seq(Chained) /\ tries \in 0 .. MaxPersistTries - 1
    /\ inbox \in Seq(1 .. MaxPosts) /\ dropped \subseteq Chained

\* Until it is closed, a runtime that says it is connected has a socket.  (One
\* that was closed during a network check may still connect, say so, and keep
\* saying so after the server has gone.)
ConnectedHasSocket == mmStatus = "CONNECTED" /\ ~aborted => wire # "none"

\* A closed runtime is quiet: no socket, timer, drain or event is left behind
\* that could still call the Host.
StoppedIsQuiet ==
    stopper = "closed" => wire = "none" /\ ~pump /\ ~draining /\ chain = <<>> /\ loop \in {"none", "ended"}

\* Events are persisted in the order in which the server posted them, however
\* often one has to be tried.
PersistedInOrder == \A i, j \in DOMAIN inbox : i < j => inbox[i] < inbox[j]

\* An event that could not be persisted costs its socket: the runtime does not
\* go on as if nothing had been lost.
LossForcesReconnect == \A d \in dropped : ~(wire = "open" /\ d.socket = socketNo)

\* The connection as the Host reports it, and the events of its socket in order.
SocketAgrees ==
    /\ SocketTypeOK
    /\ ConnectedHasSocket /\ StoppedIsQuiet /\ PersistedInOrder /\ LossForcesReconnect
=============================================================================
