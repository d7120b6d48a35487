SPECIFICATION HostPartsSpec
CONSTANTS
    r1 = r1
    r = r1
    h1 = h1
    h2 = h2
    k1 = k1
    q1 = q1
    big = big
    small = small
    other = other
    key = key
    Run = {r1}
    Notified = {}
    MaxAttempt = 3
    MaxCalls = 2
    MaxTurnCalls = 1
    MaxRetry = 1
    MaxDown = 2
    MaxRepeat = 0
    ListExpires = TRUE
    Proc = {h1, h2}
    Old = h0
    NoFile = nofile
    Migs <- MCMigs
    LeftSchemas <- MCLeft
    MaxTries = 2
    Setup = {s}
    SkillCommand = {k}
    Loader = {}
    Missing = missing
    FirstDocs <- MCFirstDocs
    EditDocs <- MCEditDocs
    MaxEdits = 1
    MaxCrashes = 1
    MaxFaults = 1
    File = {f, x, y}
    Root = f
    Nowhere = nowhere
    IncludeLists <- MCIncludeLists
    Definers = {x, y}
    MaxDepth = 3
    MaxFiles = 3
    ProcessCall = {fg, bg}
    Background = {bg}
    Policy = "PROMPT"
    Preferred = "DOCKER"
    HostFallback = TRUE
    MaxRepeats = 1
    MaxDowns = 1
    Skill = {1, 2}
    Source = {1, 2}
    EnabledSkills = {1, 2}
    NoSkill = noskill
    MaxSkillEdits = 1
    MaxResumes = 1
    MaxSkillCrashes = 1
    MemoryId = {m1, m2, m3}
    Workspace = {w1, w2}
    Text = {big, small, other, key}
    HashOf <- MCHashOf
    TermsOf <- MCTermsOf
    Sensitive = {key}
    NoMemory = nomemory
    MaxResults = 1
    MaxPosts = 3
    MaxSockets = 2
    MaxPersistTries = 2
    StreamCall = {c1, c2}
    StreamTool = {"plain", "dotted", "slashed"}
    Encoded = {"dotted", "slashed"}
    Alias = {"plain", "x", "y"}
    Dialect <- MCDialect
    Pieces = 2
    Capacity = 1
    BootRounds = 3
    ReloadRounds = 1
    MaxBuffered = 2
    MaxChanges = 4
    MaxRestarts = 1
    MaxMounts = 2
    MaxErrors = 1
    NoCursor = nocursor
    MaxClientCalls = 3
    IdempotencyKey = {k1, k2}
    Request = {q1, q2}
    MaxEntries = 1
    MaxConnections = 2
    MaxOutbound = 1
INVARIANTS
    RunsAgree   ProcessesAgree SkillsAgree
    MemoryAgrees SocketAgrees CallsAgree
PROPERTIES
    RepliesAreExact
CHECK_DEADLOCK FALSE
