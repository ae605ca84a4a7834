SPECIFICATION FairSpec
CONSTANTS
    Settings <- MCSettings
    MaxEvents = 3
CHECK_DEADLOCK FALSE
INVARIANTS
    GlareInv
PROPERTIES
    CrossedDialsMeet
    OffersSurviveRestarts
    HandoffContinues
