SPECIFICATION Spec
CONSTANTS
  PackIDs = {"hits"}
  Docs = {"songs", "other", "broken"}
  Broken = {"broken"}
  MaxVersions = 2
  MaxCalls = 2
  Lobbies = {"l1", "l2"}
  Workers = {"w1", "w2"}
  capacity = 1
  PoolMaxConns = 2
INVARIANTS PinnedIsPlayable CacheIsFaithful ColdOnlyByEviction
CHECK_DEADLOCK FALSE
