CONSTANTS
    r1 = r1
    r2 = r2
    r3 = r3
    e1 = e1
    e2 = e2
    e3 = e3
    x1 = x1
    x2 = x2
    None = None
    Text <- MCText
    TrimSpace <- MCTrimSpace
    ToLower <- MCToLower
    ClientExts = {x1, x2}
    FirstSeq = 4
    Requests <- MCRequests
    Server <- MCServer
    MaxConns = 3
    SeedIDs <- OperationSeeds
    Seed <- OperationSeed
    Inputs <- OperationInputs
SPECIFICATION Spec
INVARIANTS CloseMeansClosed CloseWritesOnce
PROPERTY ImplementsChangeLog
