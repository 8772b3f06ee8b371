SPECIFICATION FairQueue
CONSTANTS
    NumJobs = 4
    MaxJobs = 2
    Preemptive = TRUE
    None = None
INVARIANTS QueueInv OutcomeIsRecorded
PROPERTIES OutcomeIsFinal SerialInOrder EveryWaitEnds
CHECK_DEADLOCK FALSE
