SPECIFICATION Spec
CONSTANT Conns = {c1, c2}
INVARIANTS
    GracefulExitDrained
    NoQueryCutOff
    ServeFailureReported
PROPERTY SignalEndsProcess
