SPECIFICATION Spec
CONSTANTS
    Fixture <- MCFixture
    Seeders = {s1, s2}
    MaxFaults = 3
    None = None
INVARIANTS
    Lineage
    SeededOnce
PROPERTY RerunCompletes
