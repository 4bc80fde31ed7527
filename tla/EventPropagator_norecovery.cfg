\* As main.ts starts the service: nothing recovers rows left in processing.
SPECIFICATION FairSpec
CONSTANTS
    NEvents = 1
    maxRetries = 2
    PageLimit = 1
    MaxLoops = 1
    MaxRestarts = 1
    RecoveryMode = "none"
    AllowStop = FALSE
    AllowCleanup = FALSE
PROPERTY EveryEventSettles
CHECK_DEADLOCK FALSE
