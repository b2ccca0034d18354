SPECIFICATION Spec
CONSTANTS
    NumTickets = 2
    WaveOf <- TwoAtOnce
    NumWaves = 1
    MaxRetries = 2
    EnableSecurity = TRUE
    EnableReview = TRUE
INVARIANTS MainHoldsMergedOnly
CHECK_DEADLOCK FALSE
