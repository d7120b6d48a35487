---------------------------- MODULE NoticeFeed ----------------------------
(***************************************************************************)
(* The notice feed between the Host and a page of the Control UI: the      *)
(* bounded NoticeWindow and the broadcast of protocol-server.ts, the       *)
(* cursor of the browser's LocalProtocolClient, the projection of          *)
(* control-ui-projection.ts and the coroutines of browser-app.ts that      *)
(* connect, reconnect, reload and resynchronise.                           *)
(*                                                                         *)
(* Every notice announces one change of the Host's state; `version' counts *)
(* the changes and a load returns the version it was served at.  A Host    *)
(* that restarts numbers its notices from 1 again and draws a new protocol *)
(* token (lifecycle.ts:159); the page keeps the token it fetched when it   *)
(* was mounted.                                                            *)
(*                                                                         *)
(* A continuation that a message resumes runs before the next message is   *)
(* delivered, so Deliver performs all of it in one step.                   *)
(***************************************************************************)
EXTENDS Naturals, Sequences

CONSTANTS
    Capacity,       \* notices that the window retains (128 in the code)
    BootRounds,     \* calls of loadInitialServerProjection, one after another (8)
    ReloadRounds,   \* rounds of calls of reloadServerProjection (4)
    MaxBuffered,    \* frames a slow consumer may have outstanding
    MaxChanges,     \* bound: changes of the Host's state
    MaxRestarts,    \* bound: stops or crashes of the Host
    MaxMounts,      \* bound: times the page is opened
    MaxErrors,      \* bound: loads the Host answers with an error
    NoCursor        \* no cursor is stored

ASSUME FeedAssumption ==
    /\ {Capacity, BootRounds, ReloadRounds} \subseteq Nat \ {0}
    /\ {MaxBuffered, MaxChanges, MaxRestarts, MaxMounts, MaxErrors} \subseteq Nat
    /\ NoCursor \notin Nat

VARIABLES
    window,     \* the Host: [up, epoch, sequence, version]
    peer,       \* the Host's end of the page's connection
    down,       \* frames on their way to the page
    tab,        \* the page
    spent       \* [restarts, mounts, errors]

feedVars == <<window, peer, down, tab, spent>>

Cursor == Nat \cup {NoCursor}
Calls == {"open", "snapshot", "resync", "reload", "load"}
----------------------------------------------------------------------------
(* The Host's side: notice-window.ts and protocol-server.ts.               *)

Accepted(c, r) == [type |-> "accepted", cursor |-> c, resync |-> r]
Notice(n) == [type |-> "notice", sequence |-> n]
ResultOf(k, v)   == [type |-> "result", of |-> k, ok |-> TRUE, value |-> v]
Failed(k)      == [type |-> "result", of |-> k, ok |-> FALSE, value |-> 0]
Closed(clean)  == [type |-> "close", clean |-> clean]

Oldest == IF window.sequence > Capacity THEN window.sequence - Capacity + 1 ELSE 1

ReplayAfter(cursor) ==
    IF cursor = NoCursor
    THEN <<Accepted(window.sequence, FALSE)>>
    ELSE IF cursor > window.sequence \/ cursor + 1 < Oldest
    THEN <<Accepted(window.sequence, TRUE)>>
    ELSE <<Accepted(cursor, FALSE)>>
           \o [i \in 1 .. window.sequence - cursor |-> Notice(cursor + i)]

\* The peer's socket is ended: what is still buffered may be lost.
Hangup ==
    /\ peer' = "none"
    /\ \E n \in 0 .. Len(down), clean \in BOOLEAN :
          down' = Append(SubSeq(down, 1, n), Closed(clean))

\* send of protocol-server.ts: a slow consumer is closed and loses the frame.
SendFrames(frames) ==
    IF Len(down) > MaxBuffered
    THEN Hangup
    ELSE peer' = "peer" /\ down' = down \o frames

Publish ==
    /\ window.up
    /\ window.version < MaxChanges
    /\ window' = [window EXCEPT !.sequence = @ + 1, !.version = @ + 1]
    /\ IF peer = "peer"
       THEN SendFrames(<<Notice(window.sequence + 1)>>)
       ELSE UNCHANGED <<peer, down>>
    /\ UNCHANGED <<tab, spent>>

Upgrade ==
    /\ window.up
    /\ tab.socket = "opening" /\ peer = "none" /\ tab.out = <<>>
    /\ peer' = "raw"
    /\ tab' = [tab EXCEPT !.socket = "open", !.out = <<"open">>]
    /\ UNCHANGED <<window, down, spent>>

\* The open frame is checked against the token of this Host, and the peer
\* joins the broadcast before its replay is read.
HandleOpen ==
    /\ peer = "raw"
    /\ tab.out # <<>>
    /\ tab' = [tab EXCEPT !.out = Tail(@)]
    /\ IF tab.token = window.epoch
       THEN SendFrames(ReplayAfter(tab.asked))
       ELSE /\ peer' = "none"
            /\ down' = down \o <<[type |-> "rejected"], Closed(TRUE)>>
    /\ UNCHANGED <<window, spent>>

\* The calls of one connection are served one after the other, each with what
\* the Host's state is at that time.
ServeCall ==
    /\ peer = "peer"
    /\ tab.out # <<>>
    /\ tab' = [tab EXCEPT !.out = Tail(@)]
    /\ \/ /\ SendFrames(<<ResultOf(Head(tab.out),
                           IF Head(tab.out) = "snapshot" THEN window.sequence
                                                         ELSE window.version)>>)
          /\ UNCHANGED spent
       \/ /\ Head(tab.out) # "load"
          /\ spent.errors < MaxErrors
          /\ spent' = [spent EXCEPT !.errors = @ + 1]
          /\ SendFrames(<<Failed(Head(tab.out))>>)
    /\ UNCHANGED window

\* closeAll of a stopping Host, or its crash.
HostStops ==
    /\ window.up
    /\ spent.restarts < MaxRestarts
    /\ spent' = [spent EXCEPT !.restarts = @ + 1]
    /\ window' = [window EXCEPT !.up = FALSE]
    /\ tab' = [tab EXCEPT !.out = <<>>]
    /\ IF peer = "none" THEN UNCHANGED <<peer, down>> ELSE Hangup

HostRestarts ==
    /\ ~window.up
    /\ window' = [window EXCEPT !.up = TRUE, !.epoch = @ + 1, !.sequence = 0]
    /\ UNCHANGED <<peer, down, tab, spent>>
----------------------------------------------------------------------------
(* The page: browser-app.ts.  `outer' is the coroutine that bootstraps or   *)
(* reconnects, `resync' the one of resynchronize, and `orphan' a coroutine  *)
(* whose answer was due on a connection that the page has closed since.     *)

Tab == [page : {"unmounted", "boot", "stalled", "ready", "FAILED"},
        token : Nat, stored : Cursor,
        socket : {"none", "opening", "open"}, accepted : BOOLEAN,
        asked : Cursor, cursor : Nat, out : Seq(Calls),
        connection : {"DISCONNECTED", "CONNECTING", "CONNECTED",
                      "RESYNC_REQUIRED", "RESYNCING", "FAILED"},
        outer : {"none", "connect", "resync", "reload"},
        orphan : BOOLEAN,
        resync : {"none", "snapshot", "reload", "connect"},
        rounds : Nat, resyncRounds : Nat, snapshot : Nat, projected : Nat, timer : BOOLEAN, view : Nat]

\* A call goes out on an accepted connection, and is refused otherwise.
CallHost(t, k) == [t EXCEPT !.out = Append(@, k)]

ScheduleReconnect(t) ==
    IF t.resync # "none" \/ t.page = "unmounted" THEN t ELSE [t EXCEPT !.timer = TRUE]

ConnectProtocol(t, cursor) ==
    [t EXCEPT !.socket = "opening", !.accepted = FALSE, !.out = <<>>,
              !.asked = cursor, !.connection = "CONNECTING",
              !.cursor = IF cursor = NoCursor THEN 0 ELSE cursor]

OuterFailsQuietly(t) ==
    IF t.page = "boot"
    THEN [t EXCEPT !.outer = "none", !.page = "FAILED",
                   !.connection = IF @ = "CONNECTED" THEN @ ELSE "FAILED"]
    ELSE [t EXCEPT !.outer = "none"]

\* The bootstrap or the reconnection fails.
OuterFails(t) ==
    IF t.page = "boot"
    THEN [t EXCEPT !.outer = "none", !.page = "FAILED",
                   !.connection = IF @ = "CONNECTED" THEN @ ELSE "FAILED"]
    ELSE ScheduleReconnect([t EXCEPT !.outer = "none"])

\* connectProtocol has returned to the coroutine that awaits it.
Reload(t) ==
    IF t.accepted
    THEN CallHost([t EXCEPT !.outer = "reload",
                        !.rounds = IF t.page = "boot" THEN BootRounds ELSE ReloadRounds],
              "reload")
    ELSE OuterFails(t)

\* resynchronize has ended, and the coroutine that awaits it goes on.
ResyncEnds(t) ==
    LET u == [t EXCEPT !.resync = "none"]
    IN  IF t.outer = "resync" THEN Reload(u) ELSE u

ResyncFails(t) == ResyncEnds([t EXCEPT !.connection = "DISCONNECTED"])

Resynchronize(t) ==
    IF t.resync # "none"
    THEN t
    ELSE CallHost([t EXCEPT !.resync = "snapshot", !.connection = "RESYNCING"], "snapshot")

\* The connection attempt is rejected: resynchronize ends before the outer
\* coroutine learns of it.
ConnectFails(t) ==
    IF t.resync = "connect" THEN ResyncFails(t)
    ELSE IF t.outer = "connect" THEN OuterFails(t)
    ELSE t

\* The client's socket is gone and its state listener is told.
Disconnected(t) ==
    ScheduleReconnect([t EXCEPT !.socket = "none", !.accepted = FALSE,
                                !.out = <<>>, !.connection = "DISCONNECTED"])

OnAccepted(t, f) ==
    LET u == [t EXCEPT !.accepted = TRUE, !.cursor = f.cursor,
                       !.projected = f.cursor,
                       !.connection = IF f.resync THEN "RESYNC_REQUIRED"
                                                  ELSE "CONNECTED"]
    IN  IF t.resync = "connect"
        THEN ResyncEnds([u EXCEPT !.projected = t.snapshot])
        ELSE IF f.resync
        THEN Resynchronize([u EXCEPT !.outer = "resync"])
        ELSE Reload(u)

\* applyControlUiNotice: a duplicate is not applied, a gap is not skipped.
IsGap(t, n) == n > t.projected + 1
ApplyNotice(t, n) == [t EXCEPT !.projected = IF n = @ + 1 THEN n ELSE @]

\* A notice that is not ahead of the projection is followed by a load of what
\* it announces, a duplicate's too.
HandleNotice(t, n) ==
    IF IsGap(t, n)
    THEN Resynchronize(t)
    ELSE CallHost([ApplyNotice(t, n) EXCEPT !.stored = ApplyNotice(t, n).projected], "load")

OnNotice(t, n) ==
    IF n <= t.cursor THEN t
    ELSE IF n > t.cursor + 1
    THEN Resynchronize([t EXCEPT !.connection = "RESYNC_REQUIRED"])
    ELSE HandleNotice([t EXCEPT !.cursor = n], n)

\* A load shows what the Host returned, and its conversation's projection
\* starts at the cursor of the client.
Loaded(t, f) == [t EXCEPT !.view = f.value, !.projected = t.cursor]

\* detachClient closes the connection under a reload that still awaits it.
Detach(t) ==
    [t EXCEPT !.orphan = @ \/ t.outer = "reload",
              !.outer = IF @ = "reload" THEN "none" ELSE @]

OnResult(t, f) ==
    CASE f.of = "snapshot" ->
            IF f.ok
            THEN CallHost([t EXCEPT !.resync = "reload", !.snapshot = f.value,
                                !.resyncRounds = ReloadRounds], "resync")
            ELSE ResyncFails(t)
      [] f.of = "resync" ->
            IF ~f.ok THEN ResyncFails(t)
            ELSE IF t.resyncRounds > 1
            THEN CallHost([Loaded(t, f) EXCEPT !.resyncRounds = @ - 1], "resync")
            ELSE [ConnectProtocol(Detach(Loaded(t, f)), t.snapshot)
                    EXCEPT !.resync = "connect", !.stored = t.snapshot, !.resyncRounds = 0]
      [] f.of = "reload" ->
            IF ~f.ok THEN OuterFails(t)
            ELSE IF t.rounds > 1
            THEN CallHost([Loaded(t, f) EXCEPT !.rounds = @ - 1], "reload")
            ELSE [Loaded(t, f) EXCEPT !.outer = "none", !.rounds = 0,
                                      !.page = IF @ = "boot" THEN "ready" ELSE @]
      [] f.of = "load" -> Loaded(t, f)

\* The promise of connect is never settled: whoever awaits it stays there.
Unsettled(t) ==
    IF t.outer # "connect" THEN t
    ELSE [t EXCEPT !.outer = "none", !.page = IF @ = "boot" THEN "stalled" ELSE @]

\* The close event.  A connection that is closed cleanly before it was
\* accepted settles nobody's promise: no error event precedes it.
OnTabClose(t, f) ==
    LET u == Disconnected(t)
    IN  IF ~t.accepted
        THEN IF f.clean THEN Unsettled(u) ELSE ConnectFails(u)
        ELSE LET v == IF t.resync \in {"snapshot", "reload"} THEN ResyncFails(u) ELSE u
             IN  IF t.outer = "reload" THEN OuterFails(v) ELSE v

OnFrame(t, f) ==
    CASE f.type = "accepted" -> OnAccepted(t, f)
      [] f.type = "rejected" -> ConnectFails(Disconnected(t))
      [] f.type = "notice"   -> OnNotice(t, f.sequence)
      [] f.type = "result"   -> OnResult(t, f)
      [] f.type = "close"    -> OnTabClose(t, f)

\* A page that closed or replaced its socket hears nothing more of it.
Deliver ==
    /\ down # <<>>
    /\ tab.socket = "open"
    /\ tab' = OnFrame(tab, Head(down))
    /\ IF tab'.socket = "open"
       THEN down' = Tail(down) /\ UNCHANGED peer
       ELSE down' = <<>> /\ peer' = "none"
    /\ UNCHANGED <<window, spent>>

\* Nobody listens: the error event precedes the close event.
OpenFails ==
    /\ tab.socket = "opening"
    /\ ~window.up
    /\ tab' = ConnectFails(Disconnected(tab))
    /\ UNCHANGED <<window, peer, down, spent>>

OldSocketCloses ==
    /\ tab.orphan
    /\ tab' = [OuterFails(tab) EXCEPT !.orphan = FALSE, !.outer = tab.outer]
    /\ UNCHANGED <<window, peer, down, spent>>

\* Bound: the timer is not followed under a resynchronisation.  One can be set
\* there only by the socket of a reload that an earlier resynchronisation cut.
ReconnectTimer ==
    /\ tab.timer
    /\ tab.resync = "none"
    /\ tab.page # "unmounted"
    /\ tab' = ConnectProtocol([Detach(tab) EXCEPT !.timer = FALSE, !.outer = "connect"],
                              tab.stored)
    /\ peer' = "none" /\ down' = <<>>
    /\ UNCHANGED <<window, spent>>

Unmounted(stored) ==
    [page |-> "unmounted", token |-> 0, stored |-> stored,
     socket |-> "none", accepted |-> FALSE, asked |-> NoCursor, cursor |-> 0,
     out |-> <<>>, connection |-> "DISCONNECTED", outer |-> "none",
     orphan |-> FALSE, resync |-> "none",
     rounds |-> 0, resyncRounds |-> 0, snapshot |-> 0, projected |-> 0,
     timer |-> FALSE, view |-> 0]

\* bootstrapApp of a page that is opened: it fetches the token of the Host
\* and connects with the cursor that an earlier page has stored.
Mount ==
    /\ tab.page = "unmounted"
    /\ window.up
    /\ spent.mounts < MaxMounts
    /\ spent' = [spent EXCEPT !.mounts = @ + 1]
    /\ tab' = [ConnectProtocol(tab, tab.stored)
                 EXCEPT !.page = "boot", !.outer = "connect", !.token = window.epoch]
    /\ UNCHANGED <<window, peer, down>>

Unmount ==
    /\ tab.page # "unmounted"
    /\ spent.mounts < MaxMounts
    /\ tab' = Unmounted(tab.stored)
    /\ peer' = "none" /\ down' = <<>>
    /\ UNCHANGED <<window, spent>>
----------------------------------------------------------------------------
FeedInit ==
    /\ window = [up |-> TRUE, epoch |-> 1, sequence |-> 0, version |-> 0]
    /\ peer = "none"
    /\ down = <<>>
    /\ tab = Unmounted(NoCursor)
    /\ spent = [restarts |-> 0, mounts |-> 0, errors |-> 0]

FeedNext ==
    \/ Publish
    \/ Upgrade
    \/ HandleOpen
    \/ ServeCall
    \/ HostStops
    \/ HostRestarts
    \/ Deliver
    \/ OpenFails
    \/ OldSocketCloses
    \/ ReconnectTimer
    \/ Mount
    \/ Unmount

FeedSpec == FeedInit /\ [][FeedNext]_feedVars
----------------------------------------------------------------------------
\* The state of the feed has its type.
FeedTypeOK ==
    /\ window \in [up : BOOLEAN, epoch : Nat, sequence : Nat, version : 0 .. MaxChanges]
    /\ peer \in {"none", "raw", "peer"}
    /\ tab \in Tab
    /\ tab.accepted => tab.socket = "open"
    /\ spent \in [restarts : 0 .. MaxRestarts, mounts : 0 .. MaxMounts,
                  errors : 0 .. MaxErrors]

\* Nothing is on its way to the page, from it, or awaited by it.
Quiet ==
    /\ down = <<>> /\ tab.out = <<>>
    /\ tab.outer = "none" /\ tab.resync = "none" /\ ~tab.orphan /\ ~tab.timer

\* A page that says CONNECTED and awaits nothing shows the Host's current
\* state: no notice was lost between a snapshot, a reload, the replay and the
\* broadcast, whatever the window forgot and however often the connection
\* was replaced (resynchronize, connectProtocol, replayAfter).
QuietIsFresh ==
    Quiet /\ tab.page = "ready" /\ tab.connection = "CONNECTED"
        => tab.view = window.version

\* An accepted connection carries, behind what its client has seen, exactly
\* the notices the client has not seen, in order: the replay and the broadcast
\* leave no hole between them and repeat nothing (replayAfter, broadcast,
\* LocalProtocolClient.cursor).
NoHoleInFeed ==
    peer = "peer" /\ tab.accepted =>
        SelectSeq(down, LAMBDA f : f.type = "notice")
            = [i \in 1 .. window.sequence - tab.cursor |-> Notice(tab.cursor + i)]

\* A page that is up, has no connection and is doing nothing about it.
Lost ==
    /\ tab.page = "ready" /\ tab.socket = "none" /\ ~tab.timer
    /\ tab.outer = "none" /\ ~tab.orphan /\ tab.resync = "none"

\* A page that loses its connection has a reconnection due or under way,
\* except when it was resynchronising with nobody awaiting the outcome: then
\* scheduleReconnect did nothing, because resyncing was set, and resynchronize
\* only shows the error.
LostIsRetried ==
    [][Lost' => Lost \/ (tab.resync # "none" /\ tab.outer = "none")]_feedVars

\* A page that shows no alarm shows the newest state, and its feed has no hole.
FeedAgrees == FeedTypeOK /\ QuietIsFresh /\ NoHoleInFeed
=============================================================================
