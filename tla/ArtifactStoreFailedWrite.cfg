SPECIFICATION Spec
CONSTANTS
    Threads = {t1, t2}
    Artifacts = {prd, code}
    MaxVersion = 2
    Moves = {"approved", "stale"}
    Nobody = Nobody
INVARIANTS LatestNotSuperseded
