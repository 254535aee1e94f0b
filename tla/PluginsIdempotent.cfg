CONSTANTS
    Names = {"a", "b"}
    Deps <- MCChain
    Registered = {"a", "b"}
    Threads = {t1, t2}
    MaxCalls = 2
    MaxFails = 0
SPECIFICATION Spec
INVARIANTS UseIdempotent
CHECK_DEADLOCK FALSE
