SPECIFICATION FairSpec
CONSTANTS
    NumJobs = 3
    MaxJobs = 200
    Preemptive = FALSE
    None = None
    Handlers = {h1, h2}
    Payloads = {p1}
    Routes = {"release"}
CHECK_DEADLOCK FALSE
PROPERTY BootEnds
