\* Two consoles race for the head: updates, batches, proofs, the breaker.
SPECIFICATION Spec
CONSTANTS
    alice = alice
    bob = bob
    c1 = c1
    c2 = c2
    fee = fee
    sys = sys
    pcount = pcount
    lastpar = lastpar
    Address = {alice, bob}
    GuardianLists <- MCGuardianLists
    Key = {fee, sys, pcount, lastpar}
    ParamKey = {fee, sys, pcount}
    RESERVED_KEYS = {sys}
    KEY_PARAM_COUNT = pcount
    KEY_LAST_PARAM = lastpar
    Value = {0, 2}
    Batches <- MCBatches
    Payload = {"x", "y"}
    ProofHash = {"zero", "p", "q"}
    ZeroProof = "zero"
    Client = {c1, c2}
    MaxSequence = 2
    MaxProofs = 2
    U64Max = 3
    Absent = Absent
SYMMETRY MCSymmetry
INVARIANTS
    ChainInv
    ProofsOnChain
    ParamCountFollowsChain
PROPERTIES
    UpdatesFormOneChain
CHECK_DEADLOCK FALSE
