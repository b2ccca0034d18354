SPECIFICATION GateSpec
CONSTANTS
    MaxRounds = 2
    Timeout = 4
    Poll = 2
    Latency = 1
    MaxReplies = 2
INVARIANTS FirstWordDecides InTimeIsHeard
PROPERTIES RequestsEnd
CHECK_DEADLOCK FALSE
