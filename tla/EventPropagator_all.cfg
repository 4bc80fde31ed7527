\* Two poll and two process loops after stop() and start(), a crash, recovery
\* and the clean-up job.
SPECIFICATION Spec
CONSTANTS
    NEvents = 2
    maxRetries = 2
    PageLimit = 2
    MaxLoops = 2
    MaxRestarts = 1
    RecoveryMode = "awaited"
    AllowStop = TRUE
    AllowCleanup = TRUE
INVARIANTS
    CursorNeverSkips
    HandledWithinLimits
PROPERTIES
    SettledForGood
    FirstDeliveryInOrder
    CleanedStaysCleaned
CHECK_DEADLOCK FALSE
