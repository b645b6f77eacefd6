SPECIFICATION Spec
CONSTANTS
    Turns = {t1, t2}
    Editors = {e1}
    None = None
    TopLevel = 1
    Ceilings = {0, 1}
    MaxMarks = 2
INVARIANTS ProfileFollowsEvents
PROPERTIES IsATurnLog EveryRequestEnds
