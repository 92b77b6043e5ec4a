SPECIFICATION ClientSpec
CONSTANTS
    MaxSeq = 3
    PageLimit = 1
    QueueLimit = 3
    BufferCap = 1
    MaxCalls = 1
    MaxDrops = 1
    None = None
    k1 = k1
    k2 = k2
    Sessions = {local, remote}
    Local = {local}
    Devices = {k1, k2}
    Tickets = {ticket}
    CodeFailures = 1
    HostFailures = 1
    MaxGuesses = 1
    NoDevice = NoDevice
    LaneBot <- BotOfLane
    Messages = {"m1", "m2"}
    MessageBot <- BotOfMessage
    Connections = {k1, k2}
    Providers = {"jev", "llm", "rules"}
    Intents = {"steer"}
    NoLane = "None"
    HintKinds = {"lane", "none"}
    MaxEvents = 1
    MaxRejected = 1
    Calls = {call1, call2}
    MaxRounds = 1
    Clients = {client1, client2}
    Asks = {"blocking", "aside"}
    MaxStops = 1
    Streams = {"t1", "t2"}
    MaxDeltas = 2
    FrameLimit = 2
    MaxHolds = 1
    MaxLinks = 2
SYMMETRY Symmetry
INVARIANTS CaughtUp TextIsWhole RevokedIsCut OwnerStays AnswersCountOnce LandsAsDecided
PROPERTIES ImplementsFeed
CHECK_DEADLOCK FALSE
