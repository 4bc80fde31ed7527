\* Two crashes at any point, with recovery and the clean-up job, and a cursor that
\* is saved at any time or never.
SPECIFICATION FairSpec
CONSTANTS
    NEvents = 2
    maxRetries = 2
    PageLimit = 2
    MaxLoops = 1
    MaxRestarts = 2
    RecoveryMode = "awaited"
    AllowStop = FALSE
    AllowCleanup = TRUE
PROPERTIES
    EveryEventQueued
    EveryEventSettles
CHECK_DEADLOCK FALSE
