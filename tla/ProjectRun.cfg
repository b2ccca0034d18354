SPECIFICATION FairSpec
CONSTANTS
    MaxRetries = 2
    Gate2Enabled = TRUE
    Gate3Enabled = TRUE
    EnableDesign = TRUE
    EnableShip = TRUE
    HasDataModel = TRUE
    HasKB = TRUE
    NumTickets = 2
    MaxRuns = 2
INVARIANTS BuiltFromSignedPlan DeployedWasSigned CompletedMeansShipped NoIllegalTransition
PROPERTIES Terminates
CHECK_DEADLOCK FALSE
