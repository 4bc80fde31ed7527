\* Two callers that reserve and release as they like, and never refresh.
SPECIFICATION NoRefreshSpec
CONSTANTS
    Caller = {c1, c2}
    MaxSeq = 3
    MaxNet = 2
INVARIANT NoCollision
CHECK_DEADLOCK FALSE
