SPECIFICATION Spec
CONSTANTS
    Users = {u1, u2}
    Tabs = {t1, t2}
    Paths = {Root, p1}
    Root = Root
    FlowLifetime = 1
    SessionDuration = 1
    RequestTimeout = 1
    Deployments <- AllDeployments
    None = None
SYMMETRY Interchangeable
INVARIANTS
    WriteByShownUser
    LandsWhereAsked
    WriteByEdgeUser
    RevocationBounded
CHECK_DEADLOCK FALSE
