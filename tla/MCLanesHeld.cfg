SPECIFICATION Spec
CONSTANTS
    Agents = {a1, a2}
    Jobs = {j1, j2}
    Kinds = {"fresh"}
    Outcomes = {"done"}
    Cap = 1
    Slots = 1
    Budget <- BudgetNone
    Nobody = Nobody
SYMMETRY Symmetry
INVARIANTS NoSleepingWork
