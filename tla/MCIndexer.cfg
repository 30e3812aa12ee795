CONSTANTS
  p = p
  q = q
  Pairs = {p, q}
  Followed = {p, q}
  Blocks <- MCBlocks
  BlockSizes = {0, 2}
  Syncs = FALSE
  PageSize = 2
  Ticks = {1}
  Faults = {"rpc", "save"}
  MaxHeight = 3
  MaxCrashes = 2

SPECIFICATION LiveSpec

INVARIANTS TypeOK CursorCovers SnapshotsCurrent
PROPERTY EventuallyStored
