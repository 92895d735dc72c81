SPECIFICATION FairSpec
CHECK_DEADLOCK FALSE
CONSTANTS
    NumSessions = 2
    P = P
    Projects <- OneProject
    ProjectOf <- AllOfOne
    MaxEvents = 2
INVARIANTS
    ActiveIsAttached
    RetryIsEarned
    OneActive
PROPERTIES
    ImplementsBroker
    LimitEnds
    BootstrapIsTyped
    BootstrapIsSubmitted
