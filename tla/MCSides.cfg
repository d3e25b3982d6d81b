CONSTANTS
  MaxMoves = 1
  MaxFaults = 1
  MaxCalls = 3
  MaxAge = 1
  Runs = {r1, r2}
  Files = {f}
  KindOf <- Releases
  Names <- MCNames
  PullsOf <- MCPullsOf
SPECIFICATION PartSpec
INVARIANTS
  GreenIsTrue
PROPERTIES
  MergesOnlyPins
  PinsFollow
  TailIsRead
