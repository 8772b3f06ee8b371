SPECIFICATION FairSpec
CONSTANTS
    NumJobs = 5
    MaxJobs = 200
    Preemptive = FALSE
    None = None
    Handlers = {h1, h2}
    Payloads = {p1}
    Routes = {"reconfigure", "call", "release"}
INVARIANTS AgentInv BootHasDevices ReadyIsBooted ReleasedOnce
PROPERTIES SessionMovesForward 
CHECK_DEADLOCK FALSE
