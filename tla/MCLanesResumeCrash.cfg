SPECIFICATION Spec
CONSTANTS
    Agents = {a1, a2}
    Jobs = {j1, j2}
    Kinds = {"routine", "follow_up"}
    Outcomes = {"done", "waiting"}
    Cap = 1
    Slots = 1
    Budget <- BudgetCrash
    Nobody = Nobody
SYMMETRY Symmetry
INVARIANTS LaneSerial
