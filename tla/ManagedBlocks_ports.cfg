SPECIFICATION BlocksSpec
CONSTANTS
    HttpPorts = {80, 8080}
    OtherUses = {"nping", "capture"}
    MaxDepth = 2
PROPERTY StopSparesOthers
CHECK_DEADLOCK FALSE
