SPECIFICATION Spec
CONSTANTS
    Prod = Prod
    Clone0 = Clone0
    None = None
    Trials <- MCCrashTrials
    MaxRound = 1
PROPERTIES BootsWithoutConflict
CHECK_DEADLOCK FALSE
