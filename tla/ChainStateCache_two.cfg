\* Two keys compete for one place; three fetches may overlap.
SPECIFICATION CacheFairSpec
CONSTANTS
    Key = {"ledger", "fees"}
    MaxEntries = 1
    Slot = {1, 2, 3}
    MaxVersion = 1
INVARIANTS
    FetchesAreAccountedFor
PROPERTIES
    ReadsDoNotGoBack
    StaleIsReplaced
