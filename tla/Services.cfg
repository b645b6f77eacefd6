SPECIFICATION ServicesSpec
CONSTANTS
    Runs = {r1, r2}
    Processes = {p1, p2}
    Serving = {p1}
    None = None
    MaxConcurrent = 1
    Turns = {t1, t2}
    MaxCalls = 1
    MainClients = 3
    PrimaryCount = 2
    SmallClients = 2
    Window = 1
    Unset = Unset
INVARIANTS LeaksHaveACause RunningWithinLimit OneMoreTry
PROPERTIES ResultsAreWhole EveryRunEnds EveryCallEnds
