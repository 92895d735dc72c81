SPECIFICATION Spec
CONSTANTS
    NumEvents = 2
    Project = Project
    Control = Control
    Targets <- JustControl
    TargetOf <- AllToControl
    Sessions = {c1}
    NoSession = NoSession
    ProjectOf <- AllOfControl
    Approvals = {u1}
    Cycle = Cycle
    Faults = {"timeout", "web", "broker", "spawn", "dismiss", "stop", "start", "prompt", "terminal"}
    MaxFaults = 1
INVARIANTS
    TypedForCause
    DeliveredIsTyped
