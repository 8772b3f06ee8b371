SPECIFICATION ServicesSpec
CONSTANTS
    Agents = {s1, s2}
    Pids = {p1, p2, p3}
    Callers = {c1, c2}
    Foreign = foreign
    NoPid = nopid
    NoAgent = noagent
    NumStored = 2
    MaxClock = 3
    CorpseTTL = 1
    BundleTTL = 1
    MaxBytes = 3
    BundleSizes = {1, 2, 4}
    MaxFailures = 1
    Undated = undated
    NumEvents = 3
    MaxLen = 2
    Limit = 1
    Devices = {d1, d2}
    Clients = {c1, c2}
    Hosted = {h1}
    NoHost = nohost
INVARIANTS ServicesTypeOK AgentsAccounted 
PROPERTIES SweepIsExact EntryExpires RequestsEnd 
CHECK_DEADLOCK FALSE
