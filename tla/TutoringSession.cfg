SPECIFICATION TutoringSpec
CONSTANTS
    easy = easy
    hard = hard
    rec = rec
    mix = mix
    opener = opener
    closer = closer
    again = again
    Problems <- MCProblems
    Handed <- MCHanded
    LevelOf <- MCLevelOf
    Questions <- MCQuestions
    Recognition = rec
    MistakeCheck = mix
    MultipleChoice <- MCChoices
    ChainStart <- MCChainStart
    Successor <- MCSuccessor
    FollowUp <- MCFollowUp
    Reframe <- MCReframe
    Asked <- MCAsked
    Code = Code
    MaxGrades = 2
    MaxLog = 3
    MaxTurns = 4
    Nothing = Nothing
INVARIANTS NotesAreTrue GradesAreEarned
PROPERTIES TheLessonMovesOn HarderIsEarned
CHECK_DEADLOCK FALSE
