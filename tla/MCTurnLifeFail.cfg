SPECIFICATION Spec
CONSTANTS
    Agents = {a1, a2}
    MaxTurns = 3
    Kinds = {"chat"}
    Outcomes = {"done", "fail"}
    Callers = {c1}
    Modes = {"move"}
    MaxCrashes = 0
    Nobody = Nobody
PROPERTIES QueuedJobNotFailed
