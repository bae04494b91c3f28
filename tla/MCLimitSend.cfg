SPECIFICATION Spec
CONSTANTS
    Listed <- MCListed
    LimitId = 0
    Watts = 20
    Seconds = 90
    Applied <- MCApplied
    Shorter = {60}
    Scales <- MCScales
    MaxChanges = 1
INVARIANTS
    ConfirmedMeansApplied
    MismatchMeansDiffers
CHECK_DEADLOCK FALSE
