\* Two proposals race for execute and upgrade, the breaker may flap, stakes move.
SPECIFICATION FairSpec
CONSTANTS
    a1 = a1
    a2 = a2
    a3 = a3
    h0 = h0
    h1 = h1
    Address <- MCTwoAddresses
    GuardianLists <- MCGuardianLists
    ProposalId = {1, 2}
    Hash = {h0, h1}
    ZeroHash = h0
    InitialWasm = "initial"
    SignerLists <- MCTwoSigners
    Thresholds = {0, 1, 2, 3}
    MinStakes = {0, 1}
    Balances = {0, 1}
    MAX_THRESHOLD = 2
    TIMELOCK_LEDGERS = 1
    U32Max = 3
INVARIANTS
    RecordIsAuditable
    QuorumInv
PROPERTIES
    ImplementsMultisig
    UpgradeConsumesProposal
    ApprovedIsExecuted
CHECK_DEADLOCK FALSE
