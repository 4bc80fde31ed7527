\* Outflows, snapshots, recovery and fees under one breaker, with an empty
\* contract to begin with, so that transfers fail until somebody pays in.
SPECIFICATION Spec
CONSTANTS
    a1 = a1
    a2 = a2
    zero = zero
    Address = {a1, a2}
    GuardianLists <- MCGuardianLists
    ZERO_ADDRESS = zero
    EventMax = 2
    MaxHeld = 2
    OutflowId = {1}
    OutflowAmount <- MCOutflowAmounts
    OUTFLOW_TIMELOCK_SECONDS = 1
    SNAP_TTL = 1
    MaxSnapshots = 2
    TimeMax = 2
    AdminLists <- MCAdminLists
    RecThresholds = {0, 1, 2, 3}
    Dest = {a1, zero}
    RecAmount = {0, 2, 3}
    MaxRequests = 2
    MAX_BPS = 4
    BpsValues = {2, 5}
    Recipient = {a1, zero}
    FeeAmount <- MCFeeAmounts
    I128Max = 10
INVARIANTS
    OutflowOnceAfterDelay
    AuditTrailHasNoHoles
    ApprovalsFitRequests
    FeeIsFair
CHECK_DEADLOCK FALSE
