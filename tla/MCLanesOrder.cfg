SPECIFICATION Spec
CONSTANTS
    Agents = {a1, a2}
    Jobs = {j1, j2}
    Kinds = {"chit_chat", "follow_up", "steer"}
    Outcomes = {"done", "waiting", "fail"}
    Cap = 1
    Slots = 2
    Budget <- BudgetStopCloseExpire
    Nobody = Nobody
SYMMETRY Symmetry
INVARIANTS LaneInOrder RunningIsDriven
