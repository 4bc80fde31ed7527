SPECIFICATION FairSpec
CONSTANTS
    N = 2
    Call = {1, 2, 3}
    Pulse = {1, 2}
    MAX_RETRIES = 2
    Quarantine = 2
    MaxPosts = 1
INVARIANTS
    EveryLiveEndpointGetsItsTurn
PROPERTIES
    FailsOnlyWhenOthersRest
    RecoveryIsNoticed
    OutageIsReported
