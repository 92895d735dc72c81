SPECIFICATION FairSpec
CONSTANTS
    p1 = p1
    p2 = p2
    proj = proj
    Pids = {p1, p2}
    Projects = {proj}
    HomeOf <- OneHome
    LastTurn <- TwoStops
    NumOptions = 2
    MaxConcurrent = 1
    Evidence = {"lease"}
    Faults = {"crash", "shutdown", "resolver", "keys", "broker", "noise", "human", "dismiss", "death", "evidence"}
    MaxFaults = 1
INVARIANTS
    DecidedOnce
    ActedOnce
PROPERTIES
    ChosenAsDecided
    IdleIsServed
