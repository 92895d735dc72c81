SPECIFICATION FairSpec
CONSTANTS
    Runs = {r1}
    NoEntry = NoEntry
    TerminalLimit = 25
    MaxOverlaps = 2
    MaxOutages = 1
    MaxCrashes = 1
INVARIANTS
    NeverAhead
    OneMissIsForgiven
PROPERTIES
    ImplementsLifecycle
    SubmissionsResolve
    ResultsArrive
