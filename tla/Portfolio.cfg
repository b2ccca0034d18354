SPECIFICATION FairSpec
CONSTANTS
    Processes = {1, 2, 3}
    JobsOf <- TwoOneOne
    Workers <- TwoThreads
    MaxEntries = 1
    MaxExits = 1
    Nobody = 0
INVARIANTS EntriesKept AloneNeverFails OverWhenAllEnded
PROPERTIES BatchEnds
CHECK_DEADLOCK FALSE
