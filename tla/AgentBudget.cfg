SPECIFICATION Spec
CONSTANTS
    MaxPatchAttempts = 3
    MaxCalls = 8
    Retries = 2
    None = None
    Rows <- MCRows
    Levels <- MCLevels
    Requests <- MCRequests
INVARIANTS BudgetCoversTheWorstPath
