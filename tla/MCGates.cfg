CONSTANTS
  Pulls = {1, 2}
  MaxPushes = 1
  MaxBroken = 1
  MaxInFlight = 1
  Strict = TRUE
  CountsBehind = FALSE
  Readers = {q1, q2}
  MaxVersions = 2
  Kinds <- GrantKinds
  Category <- GrantCategory
  Exclusion <- GrantExclusion
  Grants <- GrantPolicy
  Titles <- GrantTitles
  Conditional <- GrantConditional
  Changes <- GrantChanges
  Bodies <- WalkBodies
  Ticket <- WalkTicket
  Walks <- WalkCosts
  Names <- WalkNames
  ShardWalks = 1
  MaxShards = 2
  Tested = {0}
  MaxMoves = 2
  MaxAttempts = 2
  Doings = {"fill"}
  Widths = {375}
  Records = {1}
  DeclaredFailures = {}
  Answers <- SiteAnswers
  Explorers = {e1, e2}
  Walkers = {e1}
  MaxEvents = 5
  MaxAsides = 2
  Starts <- Trees
  Paths = {"a", "b"}
  RulePaths = {"old", "new"}
  OwnNames = {"lint", "repo-rules"}
  NewLines <- AddedLines
  Texts = {"none", "broken", "clash"}
  MaxUses = 2
  MaxCommits = 2
  Files = {"f", "g"}
  Facts <- Tests
  Swapped = {"s", "d"}
  Deletes = {"d"}
  Inherits <- FixInherits
  Containers = {c1, c2}
  MaxFaults = 2
  FileLength = 3
  SuiteDirs <- CoverDirs
  Patches <- Fates
  SuiteRuns <- CoverSuites
  BaseLines <- CoverBases
  HeadLines <- CoverTips
  ChangeSets <- ChangedFiles
  Tools <- ToolRuns
  Break = 60
  MaxFiles = 2
  RepoPlans <- AuditPlans
  StoredPlan <- AuditStored
  Amendments <- AuditAmendments
  PullBodies <- AuditBodies
  HeadPaths = {"src"}
  TestBlocks <- AuditBlocks
  Outputs <- AuditOutputs
  MaxIds = 1
  MaxAmendments = 1
  MaxEdits = 1
  MaxChanges = 2
  Ids = {1, 2}
  Pages <- FeaturePages
  Maps <- FeatureMaps
  SourceFiles = {"x", "y"}
  Surfaces = {"login"}
  Specs = {"t"}
  ReWalks <- Rounds
  SharedOver = 1
  Cap = 1
  MaxMapMoves = 1
  Diffs <- ScopeDiffs
  Reads = {"app", "e2e"}
  Lists <- ScopeLists
  Own <- ScopeOwn
  Commits = {1, 2}
  Contexts = {x1}
  Listed = 2
  MaxMerges = 1
  MaxSlips = 1
SPECIFICATION PartSpec
INVARIANTS
  LoadBounded
  BadgeHolds
  GreenIsWalked
  PassMeansServed
  NothingWeakened
  ShownIsReal
  LeavesAsFound
  LossIsReal
  ScoreOfWhole
  NothingDropped
  AffectedIsRun
  ReWalkStands
  SkipIsInert
CHECK_DEADLOCK FALSE
