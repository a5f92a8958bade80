CONSTANTS
    Invocations = {i1, i2}
    Persons <- MCPersons
    Holder <- MCHolder
    Environments <- MCEnvironments
    Commands <- MCCommands
    SortStrings <- MCSortStrings
    MaxSessionDuration = 7
    Second = 2
    DefaultWindow = 60
    None = None
    Malformed = Malformed
SPECIFICATION Spec
INVARIANTS
    ExitTellsOutcome
    AttributedToHolder
    DoctorPredicts
    ListedAsAsked
    AdmittedAsWritten
PROPERTY EveryInvocationExits
CHECK_DEADLOCK FALSE
