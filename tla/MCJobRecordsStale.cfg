SPECIFICATION Spec
CONSTANTS
    Runners = {"r1", "r2", "r3"}
    SetKeys = {"a", "b"}
    Refs = {"1"}
    SetOf <- MCSetOf
    RefOf <- MCRefOf
    MaxJobHistory = 2
    MaxRetired = 1
    MaxFaults = 0
    None = None
INVARIANT
    NoStaleRecord
