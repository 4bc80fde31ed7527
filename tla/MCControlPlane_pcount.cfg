\* The update counter is a key update_param accepts.
SPECIFICATION Spec
CONSTANTS
    alice = alice
    bob = bob
    c1 = c1
    c2 = c2
    fee = fee
    sys = sys
    pcount = pcount
    lastpar = lastpar
    Address = {alice, bob}
    GuardianLists <- MCGuardianLists
    Key = {fee, sys, pcount, lastpar}
    ParamKey = {fee, sys, pcount}
    RESERVED_KEYS = {sys}
    KEY_PARAM_COUNT = pcount
    KEY_LAST_PARAM = lastpar
    Value = {0, 2}
    Batches <- MCBatches
    Payload = {"x", "y"}
    ProofHash = {"zero"}
    ZeroProof = "zero"
    Client = {c1, c2}
    MaxSequence = 2
    MaxProofs = 0
    U64Max = 3
    Absent = Absent
INVARIANT ParamCountMatchesChain
CHECK_DEADLOCK FALSE
