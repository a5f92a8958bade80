CONSTANTS
    None = None
    Text <- MCText
    TrimSpace <- MCTrimSpace
    ToLower <- MCToLower
    Second = 2
    Workloads <- MCWorkloads
    MaxEvents = 6
    DefaultLimit = 1
    MaxLimit = 2
    Bounds = {1, 2, 3, 4, 5}
    CurrentQueries <- MCCurrentQueries
    Params <- MCParams
SPECIFICATION ReadsSpec
INVARIANTS
    AnnotationReadersAgree
    CurrentListsOpenOperations
    FilterNeverPromotes
    ClosedHasClosure
    ListingsTile
    LossBounded
PROPERTY ListingEnds
