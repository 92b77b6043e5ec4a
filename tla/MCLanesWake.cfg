SPECIFICATION Spec
CONSTANTS
    Agents = {a1, a2, a3}
    Jobs = {j1, j2, j3}
    Kinds = {"routine"}
    Outcomes = {"done", "waiting"}
    Cap = 1
    Slots = 2
    Budget <- BudgetNone
    Nobody = Nobody
SYMMETRY Symmetry
INVARIANTS NothingSleeps CapRespected
