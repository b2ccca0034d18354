SPECIFICATION FairSpec
CONSTANTS
    NumTickets = 3
    WaveOf <- TwoThenOne
    NumWaves = 2
    MaxRetries = 2
    EnableSecurity = TRUE
    EnableReview = TRUE
INVARIANTS TypeOK MergedWasChecked BuiltOnEarlierWaves SettledOrInHand InterventionPerEscalation
PROPERTIES ImplementsSequentialBuild Terminates
CHECK_DEADLOCK FALSE
