SPECIFICATION Spec
CONSTANTS
    Agents = {a1, a2}
    MaxTurns = 2
    Kinds = {"routine"}
    Outcomes = {"done"}
    Callers = {}
    Modes = {}
    MaxCrashes = 0
    Nobody = Nobody
INVARIANTS NoStrandedTurn
