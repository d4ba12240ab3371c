SPECIFICATION FairSpec
CONSTANTS
  Locates <- MCLocates
  NumShards = 2
  Capacity = 2
  MaxBatch = 2
  MaxFeed = 5
INVARIANTS InFeedOrder NothingLeftBehind
PROPERTY AllJoined
\* The program ends when the last shard has been joined.
CHECK_DEADLOCK FALSE
