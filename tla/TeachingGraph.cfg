\* Two statements and one piece of code, so that each can replace another, a
\* quiz of two questions, and one failure of the database or one turn overtaken.
SPECIFICATION Spec
CONSTANTS
    Problems = {p, q}
    Codes = {c}
    None = None
    QuizSize = 2
    MaxFaults = 1
SYMMETRY Statements
ACTION_CONSTRAINT OverlapsWhereSomethingWaits
INVARIANTS WaitingIsNotGraded NoMarksAfterAnotherAnswer DecisionHasItsSubject
