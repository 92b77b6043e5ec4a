SPECIFICATION HostSpec
CONSTANTS
    x1 = x1
    x2 = x2
    y1 = y1
    y2 = y2
    \* TurnLife: a job on one of two lanes, with two client calls that cancel or
    \* move it and a crash
    Agents = {x1, x2}
    MaxTurns = 4
    Kinds = {"chat", "ask"}
    Outcomes = {"done", "waiting"}
    Callers = {y1, y2}
    Modes = {"turn", "move"}
    MaxCrashes = 1
    Nobody = Nobody
    \* ClaudeTurn: two turns of an agent, a tool call that asks for permission,
    \* two clients
    Uses = {"u1"}
    Answerers = {y1, y2}
    MaxClaude = 2
    MaxMessages = 2
    NoWait = Nobody
    \* Conversation: two turns of a lane, after an older stored history or none,
    \* with two model requests each, a memory edited twice, a compaction that
    \* keeps two messages
    Facts = {"f1"}
    MaxFactRev = 2
    MaxTurnNo = 2
    MaxRequests = 2
    Keep = 2
    NoSnap = Nobody
    \* MemoryStore: two turns that save and pin, two memories, room for two units
    \* of pinned text, no growth of a text that a turn is promoting
    MemTurns = {x1, x2}
    Mems = {"m1", "m2"}
    MaxSize = 2
    LateGrowth = FALSE
    Budget = 2
    MaxRev = 2
    Owner = "owner"
    NoEntry = Nobody
    \* Risk: every command line of up to three of 26 tokens
    MaxTokens = 3
    Tokens <- Words
    \* GitMetadata: two lanes of a bot, two commits, two deaths of the host
    Lanes = {"l1", "l2"}
    Work = {"c1", "c2"}
    MaxDeaths = 2
    \* PathLocks: two agents, two edits and a write of one path, a lock that
    \* lasts two units
    LockAgents = {"a1", "a2"}
    Edits = {"e1", "e2"}
    Writes = {"w1"}
    Caller <- CallerOf
    LockTtl = 2
    MaxClock = 2
    NoLock = Nobody
    \* Secrets: a user secret with two values beside the host's identity, three
    \* commands
    Names = {"s"}
    Values = {1, 2}
    MaxKeys = 2
    MaxSets = 3
    \* Installs: two versions of a runtime, two processes, four commands
    Versions = {"v1", "v2"}
    Commands = {y1, y2}
    MaxCommands = 4
    NoVersion = Nobody
    \* ShellRun: two calls of two processes each, an edit of the bot's row
    Leader = "sh"
    Children = {"child"}
    Risks = {"low", "high"}
    MaxCalls = 2
    MaxRowEdits = 1
    \* Bots: two clients with three calls about one bot, a failed commit and a
    \* death of the host
    Editors = {y1, y2}
    Fields = {"name", "access"}
    Settings = {1, 2}
    BotLanes = {"l1"}
    KeyedProviders <- Providers
    MaxBotCalls = 3
    MaxHostDeaths = 1
    MaxDiskFaults = 1
    \* HostService: both managers, two units, four commands, two manager faults,
    \* two exits of the host
    Platforms = {"systemd", "launchd"}
    Units = {"u1", "u2"}
    NoUnit = Nobody
    MaxServiceCmds = 4
    MaxUpgrades = 1
    MaxManagerFaults = 2
    MaxExits = 2
SYMMETRY Symmetry
INVARIANTS
    MovedJobIsWhole ApprovedToolsOnly RequestIsComplete PricedIsWhole StoredIsEarned
    HistoryWhole LockEndsWithTurn NoSecretLost ResolvedIsWhole StoppedIsDead LowIsReadOnly
    BotHasWorkspace
PROPERTIES UnitOutlivesHost
CHECK_DEADLOCK FALSE
