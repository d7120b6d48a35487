------------------------------- MODULE Browser -------------------------------
(***************************************************************************)
(* The Browser Runtime: browser-runtime/runtime.ts with the tools of       *)
(* tools.ts, the Playwright driver behind it, and the ledger of Browser    *)
(* operations (agent-host/browser-operation-ledger.ts and                  *)
(* state/browser-repository.ts).                                           *)
(*                                                                         *)
(* Opening and closing are transitions, which #serialize runs one after    *)
(* another (bq, of which the head is under way at step bpc).  The other    *)
(* tools are tracked operations, which run beside them.  Every await of    *)
(* the driver, of the navigation policy and of the Artifact store is a     *)
(* step.  A Run has one Tool call at a time.  Driver calls on a process or *)
(* page that is gone reject.                                               *)
(***************************************************************************)
EXTENDS Naturals, Sequences, FiniteSets

CONSTANTS
    BRun,             \* the Run attempts that own sessions
    BSess, BPage,     \* the identities of sessions and pages
    MaxSessions, MaxPagesPerSession,
    MaxGen, MaxDocs,  \* bounds on launches plus disconnects, and on documents of a page
    MaxBCalls,        \* bound on Tool calls
    MaxBFaults        \* bound on time-outs, aborts, refusals and crashes of the Host

ASSUME BrowserAssumption ==
    /\ MaxSessions \in Nat \ {0} /\ MaxPagesPerSession \in Nat \ {0}
    /\ MaxGen \in Nat /\ MaxDocs \in Nat \ {0} /\ MaxBCalls \in Nat /\ MaxBFaults \in Nat

VARIABLES
    bstate, bgen,     \* #state and #generation
    browser,          \* whether #browser is set
    bsess, bpage,     \* the records of sessions and pages
    bq, bpc,          \* the serialized transitions and the step of the first
    bcall,            \* the Tool call of every Run and its row in the ledger
    bclose,           \* close(): "no", "ops" while it awaits #operations, "queued"
    bover,            \* Runs that ended or were cancelled
    bcalls, bfaults

bVars == <<bstate, bgen, browser, bsess, bpage, bq, bpc, bcall, bclose, bover, bcalls, bfaults>>

NoSess == "none"
NoPage == "none"
Closer == "close"
Sweeper == "sweep"

NewSess == [st |-> "NONE", run |-> NoSess, gen |-> 0, idle |-> FALSE]
NewPage == [st |-> "NONE", s |-> NoSess, doc |-> 1, ddoc |-> 1, refs |-> {}]
NoTool == [tool |-> "none", pc |-> "idle", s |-> NoSess, p |-> NoPage, g |-> 1, row |-> "NONE"]
SerializedTool == {"open", "close"}
TrackedTool == {"navigate", "snapshot", "act", "screenshot", "download", "evidence"}
BrowserTools == SerializedTool \cup TrackedTool
Tracked == {"driver", "policy", "artifact", "denied"}

SessionRecord == [st : {"NONE", "OPEN", "CLOSING", "CRASHED", "CLOSED"}, run : BRun \cup {NoSess},
                  gen : 0 .. MaxGen, idle : BOOLEAN]
PageRecord == [st : {"NONE", "OPEN", "CLOSING", "CRASHED", "CLOSED"}, s : BSess \cup {NoSess},
               doc : 1 .. MaxDocs, ddoc : 1 .. MaxDocs, refs : SUBSET ((1 .. MaxDocs) \X (1 .. MaxDocs))]
OperationStatus == {"NONE", "STARTED", "SUCCEEDED", "FAILED", "INTERRUPTED"}
ToolCall == [tool : {"none", "navigated", "recover"} \cup BrowserTools, pc : {"idle", "start", "queued"} \cup Tracked,
             s : BSess \cup {NoSess}, p : BPage \cup {NoPage}, g : 1 .. MaxDocs, row : OperationStatus]
TransitionRow ==
    [op : {"openSession", "openPage", "closePage", "closeSession", "cancelRun", "sweep", "closeAll"},
     by : BRun \cup {Closer, Sweeper}, s : BSess \cup {NoSess}, p : BPage \cup {NoPage}, todo : SUBSET BSess]

BrowserTypeOK ==
    /\ bstate \in {"IDLE", "LAUNCHING", "READY", "FAILED", "CLOSING", "CLOSED"}
    /\ bgen \in 0 .. MaxGen /\ browser \in BOOLEAN
    /\ bsess \in [BSess -> SessionRecord] /\ bpage \in [BPage -> PageRecord]
    /\ \A i \in DOMAIN bq : bq[i] \in TransitionRow
    /\ bpc \in {"begin", "launch", "context", "newpage", "goto", "sessions", "pages", "pageclose"}
    /\ bcall \in [BRun -> ToolCall]
    /\ bclose \in {"no", "ops", "queued"} /\ bover \subseteq BRun
    /\ bcalls \in 0 .. MaxBCalls /\ bfaults \in 0 .. MaxBFaults

BrowserInit ==
    /\ bstate = "IDLE" /\ bgen = 0 /\ browser = FALSE
    /\ bsess = [s \in BSess |-> NewSess] /\ bpage = [p \in BPage |-> NewPage]
    /\ bq = <<>> /\ bpc = "begin"
    /\ bcall = [r \in BRun |-> NoTool]
    /\ bclose = "no" /\ bover = {} /\ bcalls = 0 /\ bfaults = 0

----------------------------------------------------------------------------
\* Lookups.

BStopping == bstate \in {"CLOSING", "CLOSED"}
\* #assertCurrent
Current(s) == bsess[s].gen = bgen /\ bstate # "FAILED"
\* #requireSession, #requireOwnedSession and #requirePage
SessionUsable(s) == bsess[s].st \in {"OPEN", "CLOSING"}
Owned(r, s) == SessionUsable(s) /\ bsess[s].run = r
PageUsable(s, p) == bpage[p].s = s /\ bpage[p].st \in {"OPEN", "CLOSING"}
OpenSessions == {s \in BSess : bsess[s].st = "OPEN"}
Recorded == {s \in BSess : bsess[s].st \in {"OPEN", "CLOSING", "CRASHED"}}
PagesOf(s) == {p \in BPage : bpage[p].s = s /\ bpage[p].st \in {"OPEN", "CLOSING"}}

Transition(op, by, s, p) == [op |-> op, by |-> by, s |-> s, p |-> p, todo |-> {}]
\* #serialize
Serialize(t) == bq' = Append(bq, t)

HeadIs(op, pc) == bq # <<>> /\ Head(bq).op = op /\ bpc = pc
HeadAt(pc) == bq # <<>> /\ bpc = pc
Faulty == bfaults < MaxBFaults /\ bfaults' = bfaults + 1

----------------------------------------------------------------------------
\* Tool calls and their ledger.

BeginOperation(r, tool) ==
    bcall' = [bcall EXCEPT ![r] = [NoTool EXCEPT !.tool = tool, !.pc = "start", !.row = "STARTED"]]

\* withLedger: the operation is recorded before the tool runs.
BeginTool(r, tool) ==
    /\ bcall[r].pc = "idle" /\ r \notin bover /\ bcalls < MaxBCalls
    /\ bcalls' = bcalls + 1
    /\ BeginOperation(r, tool)
    /\ UNCHANGED <<bstate, bgen, browser, bsess, bpage, bq, bpc, bclose, bover, bfaults>>

\* The call returns and completeOperation records how.
ToolEnds(c, status) == [NoTool EXCEPT !.row = IF c.row = "STARTED" THEN status ELSE c.row]

CompleteOperation(r, status) == bcall' = [bcall EXCEPT ![r] = ToolEnds(bcall[r], status)]

\* openOwnedPage: the session of the Run, or a new one.
OpenOwnedPage(r) ==
    LET mine == {s \in OpenSessions : bsess[s].run = r}
    IN  /\ bcall[r].pc = "start" /\ bcall[r].tool = "open"
        /\ IF mine # {} THEN \E s \in mine : Serialize(Transition("openPage", r, s, NoPage))
           ELSE Serialize(Transition("openSession", r, NoSess, NoPage))
        /\ bcall' = [bcall EXCEPT ![r].pc = "queued"]
        /\ UNCHANGED <<bstate, bgen, browser, bsess, bpage, bpc, bclose, bover, bcalls, bfaults>>

\* browser.close of a page or of the session.
CloseOwned(r) ==
    /\ bcall[r].pc = "start" /\ bcall[r].tool = "close"
    /\ \/ \E s \in BSess : Owned(r, s) /\ Serialize(Transition("closeSession", r, s, NoPage))
       \/ \E s \in BSess, p \in BPage : Owned(r, s) /\ bpage[p].s = s /\ Serialize(Transition("closePage", r, s, p))
    /\ bcall' = [bcall EXCEPT ![r].pc = "queued"]
    /\ UNCHANGED <<bstate, bgen, browser, bsess, bpage, bpc, bclose, bover, bcalls, bfaults>>

\* The other tools: the checks, then the call of the driver.  A ref is resolved
\* against the refs of the page without an await in between.
Usable(r, s, p) == ~BStopping /\ Owned(r, s) /\ PageUsable(s, p) /\ Current(s)
StillOpen(s, p) == bsess[s].st = "OPEN" /\ bpage[p].st = "OPEN"

\* #track
Track(r, tool, as, s, p) ==
    /\ bcall[r].pc = "start" /\ bcall[r].tool = tool /\ Usable(r, s, p)
    /\ bcall' = [bcall EXCEPT ![r].tool = as, ![r].pc = "driver", ![r].s = s, ![r].p = p, ![r].g = bpage[p].ddoc]
    /\ UNCHANGED <<bstate, bgen, browser, bsess, bpage, bq, bpc, bclose, bover, bcalls, bfaults>>

NavigateOwned(r, s, p) == StillOpen(s, p) /\ Track(r, "navigate", "navigate", s, p)
SnapshotOwned(r, s, p) == Track(r, "snapshot", "snapshot", s, p)
ScreenshotOwned(r, s, p) == Track(r, "screenshot", "screenshot", s, p)
DownloadOwned(r, s, p) == bpage[p].refs # {} /\ Track(r, "download", "download", s, p)
EvidenceOwned(r, s, p) == Track(r, "evidence", "evidence", s, p)
ActOwned(r, s, p) == StillOpen(s, p) /\ Track(r, "act", "act", s, p)

\* resolveOwnedElementRef of a stale ref: the call fails with a new snapshot.
RecoverStaleRef(r, s, p) == \E tool \in {"act", "download"} : Track(r, tool, "recover", s, p)

StartOwned(r, s, p) ==
    \/ NavigateOwned(r, s, p) \/ SnapshotOwned(r, s, p) \/ ScreenshotOwned(r, s, p)
    \/ DownloadOwned(r, s, p) \/ EvidenceOwned(r, s, p) \/ ActOwned(r, s, p) \/ RecoverStaleRef(r, s, p)

\* The call is refused: nothing it could name is there.
RefuseTool(r) ==
    /\ bcall[r].pc = "start"
    /\ \/ bcall[r].tool \in TrackedTool /\ \A s \in BSess, p \in BPage :
            ~Usable(r, s, p) \/ (bcall[r].tool \in {"navigate", "act"} /\ ~StillOpen(s, p))
       \/ bcall[r].tool = "close" /\ \A s \in BSess : ~Owned(r, s)
    /\ CompleteOperation(r, "FAILED")
    /\ UNCHANGED <<bstate, bgen, browser, bsess, bpage, bq, bpc, bclose, bover, bcalls, bfaults>>

----------------------------------------------------------------------------
\* Documents.

\* #synchronizeDocument
Synchronized(P, g) ==
    IF g <= P.doc THEN P ELSE [P EXCEPT !.doc = g, !.refs = {}]

\* A main-frame navigation, by a tool or by the page itself: the driver counts
\* the document, and the runtime is told while the page is open.
Navigated(p) ==
    LET P == bpage[p]
        heard == P.st = "OPEN" /\ bsess[P.s].st = "OPEN"
    IN  /\ P.st \in {"OPEN", "CLOSING"} /\ P.ddoc < MaxDocs
        /\ bpage' = [bpage EXCEPT ![p] =
             IF heard THEN Synchronized([P EXCEPT !.ddoc = @ + 1], P.ddoc + 1) ELSE [P EXCEPT !.ddoc = @ + 1]]
        /\ bsess' = IF heard THEN [bsess EXCEPT ![P.s].idle = FALSE] ELSE bsess
        /\ UNCHANGED <<bstate, bgen, browser, bq, bpc, bcall, bclose, bover, bcalls, bfaults>>

\* The driver's part of a call, page.handle: it rejects when the page is gone,
\* and the runtime when the browser was lost meanwhile.
Driving(r, tool) == bcall[r].pc = "driver" /\ bcall[r].tool = tool
Alive(c) == bpage[c.p].st \in {"OPEN", "CLOSING"} /\ Current(c.s)
SameDocument(c) == bpage[c.p].ddoc = c.g
Observed(r, tool) == bcall' = [bcall EXCEPT ![r].pc = "policy", ![r].tool = tool, ![r].g = bpage[bcall[r].p].ddoc]
OnlyTheCall == UNCHANGED <<bstate, bgen, browser, bsess, bpage, bq, bpc, bclose, bover, bcalls, bfaults>>

DriverNavigate(r) ==
    /\ Driving(r, "navigate") /\ OnlyTheCall
    /\ IF Alive(bcall[r]) THEN Observed(r, "navigate") ELSE CompleteOperation(r, "FAILED")

\* snapshot and screenshot are refused when the document changed under them.
DriverSnapshot(r) ==
    /\ Driving(r, "snapshot") \/ Driving(r, "recover")
    /\ OnlyTheCall
    /\ IF Alive(bcall[r]) /\ SameDocument(bcall[r]) THEN Observed(r, bcall[r].tool) ELSE CompleteOperation(r, "FAILED")

DriverScreenshot(r) ==
    /\ Driving(r, "screenshot") /\ OnlyTheCall
    /\ IF Alive(bcall[r]) /\ SameDocument(bcall[r]) THEN Observed(r, "screenshot") ELSE CompleteOperation(r, "FAILED")

\* An action answers whether it navigated.
DriverAct(r) ==
    /\ Driving(r, "act") /\ OnlyTheCall
    /\ IF Alive(bcall[r]) THEN Observed(r, IF SameDocument(bcall[r]) THEN "act" ELSE "navigated")
       ELSE CompleteOperation(r, "FAILED")

DriverDownload(r) ==
    /\ Driving(r, "download") /\ OnlyTheCall
    /\ IF Alive(bcall[r]) THEN Observed(r, "download") ELSE CompleteOperation(r, "FAILED")

\* #evidenceRecord reads what the driver kept, whatever became of the browser.
EvidenceRecord(r) ==
    /\ Driving(r, "evidence")
    /\ IF bpage[bcall[r].p].st \in {"OPEN", "CLOSING"}
       THEN CompleteOperation(r, "SUCCEEDED") /\ bsess' = [bsess EXCEPT ![bcall[r].s].idle = FALSE]
       ELSE CompleteOperation(r, "FAILED") /\ UNCHANGED bsess
    /\ UNCHANGED <<bstate, bgen, browser, bpage, bq, bpc, bclose, bover, bcalls, bfaults>>

\* Mutant: an observation of an earlier document is taken for the current one.
StaleObservationNever(P, g) == FALSE

\* The observation is older than the document of the page: stale.
StaleObservation(P, g) == g < P.doc

\* The runtime's part: the policy allows the address of the answer, and the
\* page is brought to the document that was observed.
PolicyAllows(r, tool) == bcall[r].pc = "policy" /\ bcall[r].tool = tool
Used(c) == bsess' = [bsess EXCEPT ![c.s].idle = FALSE]
OnlyThePage == UNCHANGED <<bstate, bgen, browser, bq, bpc, bclose, bover, bcalls, bfaults>>
RefuseStale(r) == CompleteOperation(r, "FAILED") /\ UNCHANGED <<bsess, bpage>>

NavigateRecord(r) ==
    /\ PolicyAllows(r, "navigate") /\ OnlyThePage
    /\ Used(bcall[r]) /\ CompleteOperation(r, "SUCCEEDED") /\ UNCHANGED bpage

\* A snapshot gives the elements it saw refs of the document.
SnapshotRecord(r) ==
    LET c == bcall[r]
        Q == Synchronized(bpage[c.p], c.g)
    IN  /\ PolicyAllows(r, "snapshot") \/ PolicyAllows(r, "recover")
        /\ OnlyThePage
        /\ IF StaleObservation(bpage[c.p], c.g) THEN RefuseStale(r)
           ELSE /\ Used(c) /\ CompleteOperation(r, IF c.tool = "snapshot" THEN "SUCCEEDED" ELSE "FAILED")
                /\ bpage' = [bpage EXCEPT ![c.p] = [Q EXCEPT !.refs = @ \cup {<<Q.doc, c.g>>}]]

\* An action that navigated goes on with a snapshot.
ActRecord(r) ==
    LET c == bcall[r]
    IN  /\ \/ PolicyAllows(r, "act") \/ PolicyAllows(r, "navigated")
        /\ OnlyThePage
        /\ IF StaleObservation(bpage[c.p], c.g) THEN RefuseStale(r)
           ELSE /\ Used(c) /\ bpage' = [bpage EXCEPT ![c.p] = Synchronized(bpage[c.p], c.g)]
                /\ IF c.tool = "act" THEN CompleteOperation(r, "SUCCEEDED")
                   ELSE bcall' = [bcall EXCEPT ![r].pc = "driver", ![r].tool = "snapshot", ![r].g = bpage[c.p].ddoc]

\* A screenshot and a download go on to the Artifact store.
StoreArtifact(r) ==
    LET c == bcall[r]
    IN  IF StaleObservation(bpage[c.p], c.g) THEN RefuseStale(r)
        ELSE /\ bpage' = [bpage EXCEPT ![c.p] = Synchronized(bpage[c.p], c.g)]
             /\ bsess' = IF c.g > bpage[c.p].doc THEN [bsess EXCEPT ![c.s].idle = FALSE] ELSE bsess
             /\ bcall' = [bcall EXCEPT ![r].pc = "artifact"]

ScreenshotRecord(r) == PolicyAllows(r, "screenshot") /\ OnlyThePage /\ StoreArtifact(r)
DownloadRecord(r) == PolicyAllows(r, "download") /\ OnlyThePage /\ StoreArtifact(r)

\* The policy refuses it: after an act the page is closed, beside the transitions.
PolicyRefuses(r) ==
    LET c == bcall[r]
        closes == c.tool \in {"act", "navigated"} /\ bpage[c.p].st \in {"OPEN", "CLOSING"}
    IN  /\ c.pc = "policy" /\ Faulty
        /\ IF closes
           THEN /\ bpage' = [bpage EXCEPT ![c.p].st = "CLOSING", ![c.p].refs = {}]
                /\ bcall' = [bcall EXCEPT ![r].pc = "denied"]
           ELSE CompleteOperation(r, "FAILED") /\ UNCHANGED bpage
        /\ UNCHANGED <<bstate, bgen, browser, bsess, bq, bpc, bclose, bover, bcalls>>

DeniedPageClosed(r) ==
    /\ bcall[r].pc = "denied"
    /\ bpage' = [bpage EXCEPT ![bcall[r].p].st = "CLOSED"]
    /\ CompleteOperation(r, "FAILED")
    /\ UNCHANGED <<bstate, bgen, browser, bsess, bq, bpc, bclose, bover, bcalls, bfaults>>

ArtifactRecorded(r) ==
    /\ bcall[r].pc = "artifact"
    /\ bsess' = [bsess EXCEPT ![bcall[r].s].idle = FALSE]
    /\ CompleteOperation(r, "SUCCEEDED")
    /\ UNCHANGED <<bstate, bgen, browser, bpage, bq, bpc, bclose, bover, bcalls, bfaults>>

\* bounded: a tracked operation is given up after its time-out or by its signal,
\* fails, opens a dialog, or its Artifact cannot be stored.
TrackedFails(r) ==
    /\ bcall[r].pc \in {"driver", "artifact"} /\ Faulty
    /\ CompleteOperation(r, "FAILED")
    /\ UNCHANGED <<bstate, bgen, browser, bsess, bpage, bq, bpc, bclose, bover, bcalls>>

----------------------------------------------------------------------------
\* Transitions that open.

Pop == bq' = Tail(bq) /\ bpc' = "begin"
\* The transition fails, and with it the call that awaits it.
TransitionFails ==
    Pop /\ CompleteOperation(Head(bq).by, "FAILED")

\* openSession up to the launch.
OpenSession ==
    /\ HeadIs("openSession", "begin")
    /\ IF BStopping \/ Cardinality(OpenSessions) >= MaxSessions \/ \A s \in BSess : bsess[s].st # "NONE"
       THEN TransitionFails /\ UNCHANGED bstate
       ELSE IF browser THEN bpc' = "context" /\ UNCHANGED <<bq, bcall, bstate>>
       ELSE bstate' = "LAUNCHING" /\ bpc' = "launch" /\ UNCHANGED <<bq, bcall>>
    /\ UNCHANGED <<bgen, browser, bsess, bpage, bclose, bover, bcalls, bfaults>>

\* #ensureBrowser: a browser that arrives after close() is closed at once; one
\* that arrives after the time-out is closed by the driver.
Launched ==
    /\ HeadIs("openSession", "launch") /\ bgen < MaxGen
    /\ IF BStopping THEN TransitionFails /\ UNCHANGED <<bstate, bgen, browser>>
       ELSE /\ bgen' = bgen + 1 /\ browser' = TRUE /\ bstate' = "READY"
            /\ bpc' = "context" /\ UNCHANGED <<bq, bcall>>
    /\ UNCHANGED <<bsess, bpage, bclose, bover, bcalls, bfaults>>

LaunchFails ==
    /\ HeadIs("openSession", "launch")
    /\ bgen = MaxGen \/ bfaults < MaxBFaults
    /\ bfaults' = IF bgen = MaxGen THEN bfaults ELSE bfaults + 1
    /\ bstate' = IF BStopping THEN bstate ELSE "FAILED"
    /\ TransitionFails
    /\ UNCHANGED <<bgen, browser, bsess, bpage, bclose, bover, bcalls>>

\* createContext; openOwnedPage then opens the page.
ContextCreated ==
    LET t == Head(bq)
    IN  /\ HeadIs("openSession", "context")
        /\ IF ~browser THEN TransitionFails /\ UNCHANGED <<bsess>>
           ELSE \E s \in BSess :
                  /\ bsess[s].st = "NONE"
                  /\ bsess' = [bsess EXCEPT ![s] = [st |-> "OPEN", run |-> t.by, gen |-> bgen, idle |-> FALSE]]
                  /\ bq' = Append(Tail(bq), Transition("openPage", t.by, s, NoPage))
                  /\ bpc' = "begin" /\ UNCHANGED bcall
        /\ UNCHANGED <<bstate, bgen, browser, bpage, bclose, bover, bcalls, bfaults>>

\* openPage up to newPage.
OpenPage ==
    LET s == Head(bq).s
    IN  /\ HeadIs("openPage", "begin")
        /\ IF \/ BStopping \/ ~SessionUsable(s) \/ ~Current(s)
              \/ Cardinality({p \in PagesOf(s) : bpage[p].st = "OPEN"}) >= MaxPagesPerSession
              \/ \A p \in BPage : bpage[p].st # "NONE"
           THEN TransitionFails
           ELSE bpc' = "newpage" /\ UNCHANGED <<bq, bcall>>
        /\ UNCHANGED <<bstate, bgen, browser, bsess, bpage, bclose, bover, bcalls, bfaults>>

\* The page is there; it is navigated if an address was given.
PageOpened ==
    LET t == Head(bq)
    IN  /\ HeadIs("openPage", "newpage")
        /\ IF bsess[t.s].st # "OPEN" THEN TransitionFails /\ UNCHANGED <<bsess, bpage>>
           ELSE \E p \in BPage, goto \in BOOLEAN :
                  /\ bpage[p].st = "NONE"
                  /\ bpage' = [bpage EXCEPT ![p] = [NewPage EXCEPT !.st = "OPEN", !.s = t.s]]
                  /\ bsess' = [bsess EXCEPT ![t.s].idle = FALSE]
                  /\ IF goto THEN bpc' = "goto" /\ UNCHANGED <<bq, bcall>>
                     ELSE Pop /\ CompleteOperation(t.by, "SUCCEEDED")
        /\ UNCHANGED <<bstate, bgen, browser, bclose, bover, bcalls, bfaults>>

\* #navigateRecord of the new page.
FirstNavigation ==
    LET t == Head(bq)
    IN  /\ HeadIs("openPage", "goto")
        /\ IF Current(t.s) THEN Pop /\ CompleteOperation(t.by, "SUCCEEDED") ELSE TransitionFails
        /\ UNCHANGED <<bstate, bgen, browser, bsess, bpage, bclose, bover, bcalls, bfaults>>

\* A time-out, an abort or a refusal by the policy.
OpeningFails ==
    /\ \/ HeadIs("openSession", "context") \/ HeadIs("openPage", "newpage") \/ HeadIs("openPage", "goto")
    /\ Faulty /\ TransitionFails
    /\ UNCHANGED <<bstate, bgen, browser, bsess, bpage, bclose, bover, bcalls>>

----------------------------------------------------------------------------
\* Transitions that close.

ClosePage ==
    LET t == Head(bq)
    IN  /\ HeadIs("closePage", "begin")
        /\ IF SessionUsable(t.s) /\ PageUsable(t.s, t.p)
           THEN /\ bpage' = [bpage EXCEPT ![t.p].st = "CLOSING", ![t.p].refs = {}]
                /\ bpc' = "pageclose" /\ UNCHANGED <<bq, bcall>>
           ELSE TransitionFails /\ UNCHANGED bpage
        /\ UNCHANGED <<bstate, bgen, browser, bsess, bclose, bover, bcalls, bfaults>>

\* closeSession, cancelRun, sweepIdle and close: the sessions that they close.
ToClose(t) ==
    CASE t.op = "closeSession" -> IF SessionUsable(t.s) THEN {t.s} ELSE {}
      [] t.op = "cancelRun" -> {s \in OpenSessions : bsess[s].run = t.by}
      [] t.op = "sweep" -> {s \in OpenSessions : bsess[s].idle}
      [] t.op = "closeAll" -> Recorded

BeginClosing ==
    LET t == Head(bq)
    IN  /\ HeadAt("begin") /\ t.op \in {"closeSession", "cancelRun", "sweep", "closeAll"}
        /\ IF t.op = "closeSession" /\ ToClose(t) = {} THEN TransitionFails
           ELSE bq' = <<[t EXCEPT !.todo = ToClose(t)]>> \o Tail(bq) /\ bpc' = "sessions" /\ UNCHANGED bcall
        /\ UNCHANGED <<bstate, bgen, browser, bsess, bpage, bclose, bover, bcalls, bfaults>>

\* #closeSessionRecord: the pages one after another, then the context.
CloseSessionRecord ==
    LET t == Head(bq)
    IN  /\ HeadAt("sessions") /\ t.todo # {}
        /\ \E s \in t.todo :
             /\ bsess' = IF bsess[s].st = "CRASHED" THEN bsess ELSE [bsess EXCEPT ![s].st = "CLOSING"]
             /\ bq' = <<[t EXCEPT !.s = s, !.todo = @ \ {s}]>> \o Tail(bq)
        /\ bpc' = "pages"
        /\ UNCHANGED <<bstate, bgen, browser, bpage, bcall, bclose, bover, bcalls, bfaults>>

ClosePageRecord ==
    LET t == Head(bq)
    IN  /\ HeadAt("pages")
        /\ IF PagesOf(t.s) # {}
           THEN \E p \in PagesOf(t.s) :
                  /\ bpage' = [bpage EXCEPT ![p].st = "CLOSING", ![p].refs = {}]
                  /\ bq' = <<[t EXCEPT !.p = p]>> \o Tail(bq)
                  /\ bpc' = "pageclose" /\ UNCHANGED bsess
           ELSE /\ bsess' = [bsess EXCEPT ![t.s].st = "CLOSED"]
                /\ bpc' = "sessions" /\ UNCHANGED <<bq, bpage>>
        /\ UNCHANGED <<bstate, bgen, browser, bcall, bclose, bover, bcalls, bfaults>>

PageClosed ==
    LET t == Head(bq)
    IN  /\ HeadAt("pageclose")
        /\ bpage' = [bpage EXCEPT ![t.p].st = "CLOSED"]
        /\ IF t.op = "closePage" THEN Pop /\ CompleteOperation(t.by, "SUCCEEDED")
           ELSE bpc' = "pages" /\ UNCHANGED <<bq, bcall>>
        /\ UNCHANGED <<bstate, bgen, browser, bsess, bclose, bover, bcalls, bfaults>>

\* Mutant: close() ends with the browser, and there is none.
EndClosingLost ==
    LET t == Head(bq)
    IN  /\ HeadAt("sessions") /\ t.todo = {}
        /\ Pop
        /\ IF t.op = "closeSession" THEN CompleteOperation(t.by, "SUCCEEDED") ELSE UNCHANGED bcall
        /\ bstate' = IF t.op = "closeAll" /\ browser THEN "CLOSED" ELSE bstate
        /\ browser' = IF t.op = "closeAll" THEN FALSE ELSE browser
        /\ UNCHANGED <<bgen, bsess, bpage, bclose, bover, bcalls, bfaults>>

\* The last session is closed; close() also ends the browser.
EndClosing ==
    LET t == Head(bq)
    IN  /\ HeadAt("sessions") /\ t.todo = {}
        /\ Pop
        /\ IF t.op = "closeSession" THEN CompleteOperation(t.by, "SUCCEEDED") ELSE UNCHANGED bcall
        /\ bstate' = IF t.op = "closeAll" THEN "CLOSED" ELSE bstate
        /\ browser' = IF t.op = "closeAll" THEN FALSE ELSE browser
        /\ UNCHANGED <<bgen, bsess, bpage, bclose, bover, bcalls, bfaults>>

----------------------------------------------------------------------------
\* The Host around it.

\* A Run ends, or is cancelled: cancelOwnedResources asks for its open sessions.
OwnerEnds(r, cancelled) ==
    /\ r \notin bover
    /\ ~cancelled => bcall[r].pc = "idle"
    /\ bover' = bover \cup {r}
    /\ IF cancelled /\ \E s \in OpenSessions : bsess[s].run = r
       THEN Serialize(Transition("cancelRun", r, NoSess, NoPage)) ELSE UNCHANGED bq
    /\ UNCHANGED <<bstate, bgen, browser, bsess, bpage, bpc, bcall, bclose, bcalls, bfaults>>

\* lastUsedAt falls behind idleTimeoutMs, and the timer sweeps.
GrowsIdle(s) ==
    /\ bsess[s].st = "OPEN" /\ ~bsess[s].idle
    /\ bsess' = [bsess EXCEPT ![s].idle = TRUE]
    /\ UNCHANGED <<bstate, bgen, browser, bpage, bq, bpc, bcall, bclose, bover, bcalls, bfaults>>

SweepIdle ==
    /\ ~BStopping /\ \A i \in DOMAIN bq : bq[i].op # "sweep"
    /\ \E s \in OpenSessions : bsess[s].idle
    /\ Serialize(Transition("sweep", Sweeper, NoSess, NoPage))
    /\ UNCHANGED <<bstate, bgen, browser, bsess, bpage, bpc, bcall, bclose, bover, bcalls, bfaults>>

\* #onDisconnected: the browser process is lost.
Disconnected ==
    /\ browser /\ ~BStopping /\ bgen < MaxGen
    /\ browser' = FALSE /\ bgen' = bgen + 1 /\ bstate' = "FAILED"
    /\ bsess' = [s \in BSess |-> IF s \in Recorded THEN [bsess[s] EXCEPT !.st = "CRASHED"] ELSE bsess[s]]
    /\ bpage' = [p \in BPage |-> IF bpage[p].st \in {"OPEN", "CLOSING"} /\ bpage[p].s \in Recorded
                                 THEN [bpage[p] EXCEPT !.st = "CRASHED"] ELSE bpage[p]]
    /\ UNCHANGED <<bq, bpc, bcall, bclose, bover, bcalls, bfaults>>

\* close() awaits the tracked operations and then takes its turn.
CloseRuntime ==
    /\ bclose = "no"
    /\ bclose' = "ops" /\ bstate' = "CLOSING"
    /\ UNCHANGED <<bgen, browser, bsess, bpage, bq, bpc, bcall, bover, bcalls, bfaults>>

OperationsSettled == \A r \in BRun : bcall[r].pc \notin Tracked

CloseTakesTurn ==
    /\ bclose = "ops" /\ OperationsSettled
    /\ bclose' = "queued" /\ Serialize(Transition("closeAll", Closer, NoSess, NoPage))
    /\ UNCHANGED <<bstate, bgen, browser, bsess, bpage, bpc, bcall, bover, bcalls, bfaults>>

\* The Host dies with its browser; the next start interrupts what was started.
BrowserHostCrash ==
    /\ Faulty
    /\ bstate' = "IDLE" /\ browser' = FALSE /\ UNCHANGED bgen
    /\ bsess' = [s \in BSess |-> [bsess[s] EXCEPT !.st = IF @ = "NONE" THEN @ ELSE "CLOSED"]]
    /\ bpage' = [p \in BPage |-> [bpage[p] EXCEPT !.st = IF @ = "NONE" THEN @ ELSE "CLOSED"]]
    /\ bq' = <<>> /\ bpc' = "begin" /\ bclose' = "no" /\ bover' = BRun
    /\ bcall' = [r \in BRun |-> ToolEnds(bcall[r], "INTERRUPTED")]
    /\ UNCHANGED bcalls

BrowserOpening ==
    OpenSession \/ Launched \/ LaunchFails \/ ContextCreated \/ OpenPage \/ PageOpened \/ FirstNavigation
BrowserClosing ==
    ClosePage \/ BeginClosing \/ CloseSessionRecord \/ ClosePageRecord \/ PageClosed \/ EndClosing
ToolStep(r) ==
    \/ OpenOwnedPage(r) \/ CloseOwned(r) \/ RefuseTool(r)
    \/ \E s \in BSess, p \in BPage : StartOwned(r, s, p)
    \/ DriverNavigate(r) \/ DriverSnapshot(r) \/ DriverScreenshot(r) \/ DriverAct(r) \/ DriverDownload(r)
    \/ NavigateRecord(r) \/ SnapshotRecord(r) \/ ScreenshotRecord(r) \/ ActRecord(r) \/ DownloadRecord(r)
    \/ EvidenceRecord(r) \/ DeniedPageClosed(r) \/ ArtifactRecorded(r)

BrowserNext ==
    \/ \E r \in BRun : \/ \E tool \in BrowserTools : BeginTool(r, tool)
                       \/ ToolStep(r) \/ PolicyRefuses(r) \/ TrackedFails(r)
                       \/ \E b \in BOOLEAN : OwnerEnds(r, b)
    \/ \E p \in BPage : Navigated(p)
    \/ \E s \in BSess : GrowsIdle(s)
    \/ BrowserOpening \/ OpeningFails \/ BrowserClosing
    \/ SweepIdle \/ Disconnected \/ CloseRuntime \/ CloseTakesTurn \/ BrowserHostCrash

\* Every await of the driver, the policy and the store ends, the transitions
\* follow one another, a session that nobody uses grows idle, and the sweep is
\* on a timer.
BrowserFairness ==
    /\ WF_bVars(BrowserOpening) /\ WF_bVars(BrowserClosing) /\ WF_bVars(CloseTakesTurn) /\ WF_bVars(SweepIdle)
    /\ \A r \in BRun : WF_bVars(ToolStep(r))
    /\ \A s \in BSess : WF_bVars(GrowsIdle(s))
BrowserSpec == BrowserInit /\ [][BrowserNext]_bVars /\ BrowserFairness

----------------------------------------------------------------------------
\* A ref of an open page names an element of the document the page shows, and
\* carries its generation, whatever navigated while the snapshot was taken
\* (#synchronizeDocument, #snapshotRecord).
RefsAreCurrent ==
    \A p \in BPage : bpage[p].st = "OPEN" /\ bsess[bpage[p].s].st = "OPEN" =>
        \A x \in bpage[p].refs : x = <<bpage[p].ddoc, bpage[p].ddoc>>

\* When close() has ended there is no browser, no session is recorded, and no
\* tool still works on a page (close, #serialize, #track).
ClosedIsEmpty ==
    bstate = "CLOSED" => ~browser /\ Recorded = {} /\ \A r \in BRun : bcall[r].pc \notin Tracked

\* maxSessions holds although the check and the insertion are several awaits
\* apart, and an open session belongs to the browser that runs.
SessionsBounded ==
    /\ Cardinality(OpenSessions) <= MaxSessions
    /\ \A s \in OpenSessions : browser /\ bsess[s].gen = bgen

\* close() ends.
CloseEnds == (bclose # "no") ~> (bstate = "CLOSED" \/ bclose = "no")

\* The session of a Run that has ended is released, also when the Run was
\* cancelled while its session was being opened (cancelRun, sweepIdle).
SessionsReleased ==
    \A s \in BSess, r \in BRun :
        (r \in bover /\ bsess[s].run = r /\ bsess[s].st = "OPEN") ~> (bsess[s].st # "OPEN")

\* Every operation the ledger has begun gets its outcome.
OperationsEnd == \A r \in BRun : (bcall[r].row = "STARTED") ~> (bcall[r].row # "STARTED")

\* Sessions, pages and observations of BrowserRuntime: bounded, empty once
\* closed, and never used through a reference of an older document.
SessionsAgree == BrowserTypeOK /\ RefsAreCurrent /\ ClosedIsEmpty /\ SessionsBounded

\* Every operation ends, sessions are given back and close comes to its end.
BrowserSettles == CloseEnds /\ SessionsReleased /\ OperationsEnd
=============================================================================
