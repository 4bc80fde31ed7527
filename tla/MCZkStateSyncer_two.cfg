SPECIFICATION FairSpec
CONSTANTS
    Socket = {s1, s2}
    Auth = {a1, a2}
    Key <- MCKey
    Account <- MCAccount
INVARIANTS
    SnapshotsNeedCredentials
    CountedAreConnected
PROPERTY
    VanishedClientsLeave
