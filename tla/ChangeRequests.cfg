SPECIFICATION Spec
CONSTANTS
    NumTickets = 3
    Stories = {"A", "B", "C"}
    StoryOf <- TwoAndOne
    GateThreshold = 1
    EnableShip = TRUE
    MaxCalls = 2
INVARIANTS OnlyBlastRadiusTouched RefusedChangesNothing AcceptedIsRenewed AcceptedIsDeployed
CHECK_DEADLOCK FALSE
