CONSTANTS
  p = p
  q = q
  Pairs = {p, q}
  Followed = {p, q}
  Blocks <- MCBlocks
  BlockSizes = {3}
  Syncs = FALSE
  PageSize = 2
  Ticks = {1}
  Faults = {}
  MaxHeight = 3
  MaxCrashes = 0

SPECIFICATION Spec

INVARIANT DocAllEventsIndexed
