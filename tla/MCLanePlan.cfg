SPECIFICATION Spec
CONSTANTS
    SetKeys = {"o ci", "o qae", "o wait", "a ci", "b ci"}
    NoSet = "none"
    Kinds = {"ci", "qae", "wait"}
    QAEKind = "qae"
    SharedSlots = 3
    QAEConcurrency = 1
    ReserveBytes = 1
    Word = 16
    IdleStopSec = 2
    WarmMaxAgeSec = 3
    KindOf <- MCKindOf
    Rank <- MCRank
    OwnSlots <- MCOwnSlots
    Instances <- MCInstances
    ContainerBytes <- MCContainerBytes
    Inputs <- MCInputs
INVARIANTS
    BudgetKept
    InstancesKept
    MemoryKept
    RefusalsStand
    NeedsServed
CHECK_DEADLOCK FALSE
