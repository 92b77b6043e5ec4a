SPECIFICATION FairSpec
CONSTANTS
    Agents = {a1, a2}
    MaxTurns = 3
    Kinds = {"chat"}
    Outcomes = {"done", "waiting", "fail"}
    Callers = {c1, c2}
    Modes = {"turn", "lane", "move"}
    MaxCrashes = 1
    Nobody = Nobody
ACTION_CONSTRAINT MoveAlone
INVARIANTS NoZombieDrive
PROPERTIES EndingsStick ImplementsJobLife CallsEnd
