SPECIFICATION FairSpec
CONSTANTS
    p1 = p1
    p2 = p2
    proj = proj
    Pids = {p1, p2}
    Projects = {proj}
    HomeOf <- OneHome
    LastTurn <- OneStop
    NumOptions = 1
    MaxConcurrent = 1
    Evidence = {}
    Faults = {"crash", "noise"}
    MaxFaults = 2
PROPERTIES
    IdlePromptIsDecided
