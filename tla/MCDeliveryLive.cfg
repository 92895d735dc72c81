SPECIFICATION FairSpec
CONSTANTS
    NumEvents = 2
    Pids = {p1}
    NoPid = NoPid
    Project = P
    Targets <- OneTarget
    TargetOf <- AllToProject
    HomeOf <- AllAtProject
    Faults = {"crash", "absorb"}
    MaxFaults = 2
PROPERTIES
    EventuallySent
    DeliveredWhileUp
    EvidenceIsRecorded
