SPECIFICATION FairSpec
CONSTANTS
    Instances = {"qae 1", "ci 1"}
    KindOf <- MCKindOf
    TrashMax = 1
    MaxRuns <- MCMaxRuns
    MaxFaults = 1
    None = None
INVARIANTS
    CodexAlone
    TrashWithin
PROPERTIES
    FreshStart
    UnitsEnd
