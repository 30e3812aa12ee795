CONSTANTS
  p = p
  q = q
  Pairs = {p, q}
  Followed = {p}
  Blocks <- MCBlocks
  BlockSizes = {1, 2}
  Syncs = TRUE
  PageSize = 2
  Ticks = {1, 2}
  Faults = {"rpc", "insert", "snapshot", "save"}
  MaxHeight = 2
  MaxCrashes = 0

SPECIFICATION Spec

INVARIANT SnapshotsNotOlder
