SPECIFICATION ProfileSpec
CONSTANTS
    bfs = bfs
    dfs = dfs
    t1 = t1
    t2 = t2
    Topics = {bfs, dfs}
    FamilyTopics = {bfs, dfs}
    Family = Family
    Turns = {t1, t2}
    HintsUsed = {0}
    Grades = {"correct", "incorrect"}
    MaxEvents = 3
    Pause = 3
    MaxClock = 3
    Halvings <- PowersOfTwo
    None = None
SYMMETRY Symmetry
INVARIANTS EasyIsEarned
PROPERTIES HardIsEarned DeltasAreWritten
CHECK_DEADLOCK FALSE
