SPECIFICATION FairSpec
CONSTANTS
    NumEvents = 2
    Project = Project
    Control = Control
    Targets <- ProjectAndControl
    TargetOf <- ControlThenProject
    Sessions = {c1, c2}
    NoSession = NoSession
    ProjectOf <- AllOfControl
    Approvals = {}
    Cycle = Cycle
    Faults = {"timeout", "web", "broker", "spawn", "start", "prompt"}
    MaxFaults = 1
PROPERTIES
    ControlIsRestored
    ReadyIsServed
