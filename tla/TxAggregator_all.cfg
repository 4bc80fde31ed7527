\* Two callers that build, execute, give back and refresh as they like.
SPECIFICATION TxFairSpec
CONSTANTS
    Caller = {c1, c2}
    MaxSeq = 2
    MaxNet = 1
    Ttl = {1, 2}
    Timeout = 1
INVARIANTS
    UniqueReservations
    NoSequenceLost
    FeesAreRight
PROPERTIES
    KeepsNonceDiscipline
    EveryCallReturns
    ExecuteSettles
