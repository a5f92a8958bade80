CONSTANTS
    None = None
    Text <- MCText
    TrimSpace <- MCTrimSpace
    ToLower <- MCToLower
    Second = 2
    Workloads <- ChildWorkload
    MaxEvents = 6
    DefaultLimit = 1
    MaxLimit = 2
    Bounds = {}
    CurrentQueries <- MCCurrentQueries
    Params <- MCParams
SPECIFICATION ReadsSpec
INVARIANT ListAllComplete
