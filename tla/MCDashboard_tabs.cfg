SPECIFICATION DashboardSpec
CONSTANTS
    Url = {"u1", "u2", "u3"}
    NoUrl = "none"
    Fallback <- MCFallback
    Field <- MCField
    Value <- MCValue
    Valid <- MCValid
    Defaults <- MCDefaults
INVARIANTS
    HostStartsWithSelection
    NoProbeLeftBehind
    BannerIsWhatWasSubmitted
    CsvReadsBack
