SPECIFICATION Spec
CHECK_DEADLOCK FALSE
CONSTANTS
    r1 = r1
    r2 = r2
    w1 = w1
    w2 = w2
    w3 = w3
    Runs = {r1, r2}
    Wrappers = {w1, w2, w3}
    NoWrapper = NoWrapper
    RunOf <- TwiceAndOnce
    Faults = {"term"}
    MaxFaults = 1
INVARIANTS
    DoneIsTrue
