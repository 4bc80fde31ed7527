SPECIFICATION FairSpec
CONSTANTS
    Socket = {s1}
    Auth = {a1, a2}
    Key <- MCKey
    Account <- MCAccount
PROPERTY
    CloseEnds
