SPECIFICATION FairSpec
CONSTANTS
    SetKeys = {"o ci"}
    NoSet = "no set"
    Kinds = {"ci"}
    QAEKind = "qae"
    SharedSlots = 1
    QAEConcurrency = 1
    ReserveBytes = 0
    Word = 16
    IdleStopSec = 1
    WarmMaxAgeSec = 1
    KindOf <- MCKindOf
    Rank <- MCRank
    OwnSlots <- NoOwnSlots
    Instances <- MCInstances
    ContainerBytes <- MCContainerBytes
    RunnersPerRef = 1
    MaxQueued <- OneJobEach
    MaxFaults = 1
    MemReadings = {8}
    MinRunners <- OneWarm
    DroppedSets = {}
    NoRunner = NoRunner
    NoSlot = NoSlot
PROPERTIES
    RunnersSettle
    JobsTaken
