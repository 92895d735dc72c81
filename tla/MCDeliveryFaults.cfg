SPECIFICATION Spec
CONSTANTS
    NumEvents = 2
    Pids = {p1, p2}
    NoPid = NoPid
    Project = P
    Targets <- OneTarget
    TargetOf <- AllToProject
    HomeOf <- AllAtProject
    Faults = {"crash", "absorb", "input_error", "death", "rotate", "noise", "resolve", "dismiss",
              "human"}
    MaxFaults = 3
SYMMETRY PidSymmetry
INVARIANTS
    OneInFlight
    DeliveredIsTrue
    TextLivesOnce
    SupersededForCause
PROPERTIES
    KeepsPromise
