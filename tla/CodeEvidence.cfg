SPECIFICATION Spec
CONSTANTS
    MinSuiteCases = 2
    SynthAttempts = 2
    PlantAttempts = 2
    MaxTurns = 2
    None = None
INVARIANTS CheckedCodePassed
PROPERTIES SolvedPassesExamples JudgedOnTheirOwn ExerciseHasABug
CHECK_DEADLOCK FALSE
