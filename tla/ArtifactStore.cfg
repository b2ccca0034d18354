SPECIFICATION Spec
CONSTANTS
    Threads = {t1, t2}
    Artifacts = {prd, code}
    MaxVersion = 2
    Moves = {"approved", "stale"}
    Nobody = Nobody
SYMMETRY Symmetry
INVARIANTS OnlyLatestLive NoLostUpdate AckedDurable
PROPERTIES ImplementsLifecycle
