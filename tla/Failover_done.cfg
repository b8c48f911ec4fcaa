SPECIFICATION Spec
CONSTANTS
    Prod = Prod
    Clone0 = Clone0
    None = None
    Trials <- MCTestedTrials
    MaxRound = 1
INVARIANTS DoneMeansTaken
CHECK_DEADLOCK FALSE
