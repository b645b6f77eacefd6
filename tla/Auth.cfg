SPECIFICATION Spec
CONSTANTS
    Requests = {r1, r2}
    Sessions = {s1, s2}
    None = None
    Lifetime = 2
    AccessLife = 1
    Leeway = 1
    Grace = 1
    MaxTokens = 4
    MaxTime = 3
INVARIANTS AccessEndsWithSession
PROPERTIES RotationIsSeamless ImplementsLoginSession
