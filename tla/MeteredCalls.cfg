SPECIFICATION Spec
CONSTANTS
    Workers = {w1, w2}
    Stages = {"intake", "build", "qa"}
    Capped = {"build", "qa"}
    StageCap <- BuildCap
    ProjectCap = 5
    MaxCost = 2
    MaxFailures = 1
    MaxCrashes = 1
INVARIANTS StageOvershootBounded ProjectOvershootBounded LedgerTracksBill
CHECK_DEADLOCK FALSE
