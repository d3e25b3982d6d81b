SPECIFICATION Spec
CONSTANTS
    SetKeys = {"o ci", "o qae"}
    NoSet = "no set"
    Kinds = {"ci", "qae"}
    QAEKind = "qae"
    SharedSlots = 1
    QAEConcurrency = 1
    ReserveBytes = 0
    Word = 16
    IdleStopSec = 1
    WarmMaxAgeSec = 1
    KindOf <- MCKindOf
    Rank <- MCRank
    OwnSlots <- NoOwnSlots
    Instances <- MCInstances
    ContainerBytes <- MCContainerBytes
    RunnersPerRef = 1
    MaxQueued <- JobsBesideWarm
    MaxFaults = 2
    MemReadings = {0, 8}
    MinRunners <- OneWarm
    DroppedSets = {}
    NoRunner = NoRunner
    NoSlot = NoSlot
INVARIANTS
    BudgetHeld
    NoSilentLeak
