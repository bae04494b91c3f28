SPECIFICATION Spec
CONSTANTS
    Listed <- MCListed
    LimitId = 1
    Watts = 20
    Seconds = 90
    Applied <- MCApplied
    Shorter = {60}
    Scales <- MCScales
    MaxChanges = 1
INVARIANTS
    MismatchMeansDiffers
CHECK_DEADLOCK FALSE
