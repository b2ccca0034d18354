SPECIFICATION EgressSpec
CONSTANT
    Runs = {r1, r2, r3}
INVARIANTS HalfBuiltHasBuilder OneGetsThrough
CHECK_DEADLOCK FALSE
