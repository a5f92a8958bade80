SPECIFICATION BrowseSpec
CONSTANTS
    None = None
    Text <- MCText
    Entries <- MCEntries
    EventTags <- MCEventTags
    Joined <- MCJoined
    ViewTotals = {0, 1, 7}
    TrimSpace <- MCTrimSpace
    ToLower <- MCToLower
    Times = {"t1"}
    NaN <- MCNaN
    MaxInt = 9
    DefaultLimit = 1
    DashboardLimit = 3
    MaxLimit = 4
    MaxTags = 3
INVARIANTS
    LinksLeadWhereTheySay
    PaginationContiguous
