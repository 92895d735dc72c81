SPECIFICATION FairSpec
CONSTANTS
    Brokers = {b1, b2, b3}
    None = None
    Stale = Stale
    MaxFaults = 3
INVARIANTS
    OneControlPlane
PROPERTIES
    ControlPlaneRecovers
