SPECIFICATION Spec
CONSTANTS
    p1 = p1
    Problems <- MCProblems
    NoProblem = NoProblem
    NoCheck = NoCheck
    TurnModes <- MCModes
    TurnCaps <- MCCaps
    TurnLearners = {"steady"}
    SaveFailures <- MCFailures
VIEW ConversationState
PROPERTIES RevealHasADoor ChallengeEarned
