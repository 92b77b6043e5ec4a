SPECIFICATION FairSpec
CONSTANTS
    Agents = {a1, a2}
    Jobs = {j1, j2}
    Kinds = {"routine"}
    Outcomes = {"done"}
    Cap = 1
    Slots = 2
    Budget <- BudgetMoveCrash
    Nobody = Nobody
PROPERTIES QueuedJobsRun
