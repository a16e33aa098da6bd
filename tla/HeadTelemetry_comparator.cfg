SPECIFICATION Spec
CONSTANTS
    Targets = {a, b}
    Roots = {r1, r2}
    MaxSlot = 2
    HistoryLimit = 2
    MaxPolls = 6
    None = None
INVARIANTS
    HistoryKeepsNewest
    CompleteIsCompared
    OutageShowsNoComparison
