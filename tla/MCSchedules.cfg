SPECIFICATION ScheduleSpec
CONSTANTS
    routine = routine
    turn1 = turn1
    turn2 = turn2
    ask = ask
    NoRun = NoRun
    \* Routines: one routine over a day of three minutes, two calls of its owner,
    \* one failure or restart
    Rtns = {routine}
    Schedules <- Slots
    Horizon = 3
    DayLength = 3
    BotLimit = 1
    HostLimit = 2
    MaxEdits = 2
    MaxFaults = 1
    \* Cron: six days of eight minutes in two months, a jump of the clock either
    \* way on the second day, the first 30 runs of a window
    Hours = 4
    Mins = 2
    Calendar <- SixDays
    Week = 3
    Months = 2
    MonthDays = 4
    Longest <- ThreeOrFour
    Zones <- Jumps
    RawSpecs <- Raw
    LastInstant = 40
    RunLimit = 30
    \* Metrics: two bots that report one metric, one link and one open page
    Reporters = {"b1", "b2"}
    Keys = {1}
    Readings = {1}
    Failed = 0
    Freshness = {1}
    Everyone = "fleet"
    Links = {"l1"}
    Readers = {"r1"}
    DayHours = 1
    Skew = 0
    MaxTiles = 1
    MaxMetricClock = 2
    MaxPoints = 2
    \* Fleet: one bot with one lane and one routine, a day of one hour, two turns,
    \* one overview or brief while the rows change three times
    Bots = {"b1"}
    AgentBot <- BotOfAgent
    Turns = {turn1, turn2}
    Requests = {ask}
    Jobs = {"j1"}
    JobRoutine <- RoutineOfJob
    RoutineBot <- BotOfRoutine
    RoutineSlots <- SlotsOfRoutine
    Priorities = {"high"}
    Usages <- Records
    HostBudget = 2
    HoursADay = 1
    Window = 3
    Useless = 1
    Ahead = 1
    LastRuns = 2
    Top = 1
    MaxFleetClock = 1
    MaxBoards = 1
    MaxChanges = 3
INVARIANTS RunsOnceInBudget CountsEveryRun OverviewIsRight SharedInScope
PROPERTIES DueIsServed RevokeSticks
CHECK_DEADLOCK FALSE
