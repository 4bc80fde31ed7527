\* One caller, and transactions of the account that go another way.
SPECIFICATION TxFairSpec
CONSTANTS
    Caller = {c1}
    MaxSeq = 2
    MaxNet = 1
    Ttl = {2}
    Timeout = 1
PROPERTY DesyncIsNoticed
CHECK_DEADLOCK FALSE
