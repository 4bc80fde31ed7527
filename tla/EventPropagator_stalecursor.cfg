\* As main.ts starts the service, with recovery: nothing saves the cursor.
SPECIFICATION FairSpec
CONSTANTS
    NEvents = 2
    maxRetries = 1
    PageLimit = 1
    MaxLoops = 1
    MaxRestarts = 1
    RecoveryMode = "awaited"
    AllowStop = FALSE
    AllowCleanup = FALSE
PROPERTY NoEventIsLost
CHECK_DEADLOCK FALSE
