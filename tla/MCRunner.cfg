SPECIFICATION FairSpec
CONSTANTS
    Runs = {r1}
    NoRun = NoRun
    Loops = {l1, l2}
    NoLoop = NoLoop
    Requests = {TRUE, FALSE}
    Exits = {"zero", "nonzero"}
    Reports = TRUE
    Faults = {"kill_loop", "kill_launcher", "reboot"}
    MaxFaults = 3
    MaxEnsures = 2
INVARIANTS
    ManifestMatches
    DoneIsTrue
    ResultAgrees
PROPERTIES
    ImplementsLifecycle
    RequestsEnd
    RecordedOrphansFail
