\* Three signers, quorum of two: the last signer votes first.
SPECIFICATION Spec
CONSTANTS
    a1 = a1
    a2 = a2
    a3 = a3
    h0 = h0
    h1 = h1
    Address <- MCThreeAddresses
    GuardianLists <- MCGuardianLists
    ProposalId = {1}
    Hash = {h0, h1}
    ZeroHash = h0
    InitialWasm = "initial"
    SignerLists <- MCThreeSigners
    Thresholds = {1, 2}
    MinStakes = {0}
    Balances = {0}
    MAX_THRESHOLD = 2
    TIMELOCK_LEDGERS = 1
    U32Max = 2
INVARIANT PendingCanStillPass
CHECK_DEADLOCK FALSE
