SPECIFICATION Spec
CONSTANTS
    Known = {"w1", "w2", "w3"}
    Unknown = {}
    Points <- MCPoints
    Capacity = 4
    Numberings <- InOrder
    MaxPerSprint = 3
    MaxDeps = 3
INVARIANTS CycleVerdictExact TicketsInDependencyOrder WavesSeparateDependents
PROPERTIES PlanSettles
CHECK_DEADLOCK FALSE
