SPECIFICATION PlatformSpec
CONSTANTS
    EventType <- MCEventType
    Author = {1, 2}
    Payload = {p}
    Key = {k1, k2}
    NoKey = nokey
    MaxLog = 3
    CallId = {c1, c2}
    MaxTurns = 3
    MaxRetries = 1
    MaxTurnCalls = 2
    MaxCrash = 2
    Inbound = {e1, e2}
    Reader = {r1}
    Sender = {pump, drain}
    MaxDeliveryAttempts = 2
    MaxConnCrashes = 1
    MaxDisabled = 1
    x1 = x1
    y1 = y1
    z1 = z1
    k = k
    l = l
    Ext = {x1, y1, z1}
    Cap = {k, l}
    Declares <- MCDeclares
    Connector = {k}
    Intrinsic = {}
    Secretive = {z1}
    Configured = {x1, z1}
    Client = {u, v}
    Overlap = FALSE
    MaxCalls = 3
    MaxTimeouts = 1
    PDelivery = {}
    PTask = {2}
    PFlow = {4}
    Referenced = {}
    RetentionTime = 1
    BatchSize = 1
    MaxNow = 2
    MaxPruneFaults = 1
    MaxRecreated = 1
    BRun = {br1, br2}
    BSess = {s1, s2}
    BPage = {p1}
    MaxSessions = 1
    MaxPagesPerSession = 1
    MaxGen = 2
    MaxDocs = 2
    MaxBCalls = 3
    MaxBFaults = 1
    br1 = br1
    br2 = br2
    s1 = s1
    s2 = s2
    MaxEvidence = 2
    EvidenceLimit = 2
    MaxEvents = 4
    MaxReads = 3
    Request = {q1}
    w1 = w1
    w2 = w2
    ta = ta
    tb = tb
    FileCall = {w1, w2}
    Target = target
    Alias = alias
    FileText = {ta, tb}
    Patched <- MCPatched
    Missing = missing
    Link = link
    AliasIsLink = TRUE
    MaxUserEdits = 1
    MaxIoFaults = 1
    MaxFileCrashes = 1
    root = root
    sub = sub
    Folder = {root, sub}
    RootFolder = root
    Trees <- MCTrees
    MaxFileBytes = 2
    MaxSearchFiles = 3
    MaxSearchBytes = 5
    MaxSearchMatches = 3
    Ticks = 2
    Minutes = 2
    Hours = 3
    Days <- MCDays
    WeekDays = 3
    Jobs <- MCJobs
    Zones <- MCZones
    Starts = {0, 13}
    MinInterval = 2
    MaxInterval = 8
    MaxSafe = 60
    SearchLimit = 26
    Horizon = 70
INVARIANTS
    LogAgrees EffectsAccounted   PrunedAgrees
    SessionsAgree EvidenceAgrees FilesAgree AnswersAgree
PROPERTIES
    HistoryIsKept
CHECK_DEADLOCK FALSE
