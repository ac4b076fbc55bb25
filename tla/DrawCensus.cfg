SPECIFICATION ChangesSpec
CONSTANTS
  Plain = {plain}
  Lit = {lit}
  Attributes = {"place"}
  Hashes = {0, 1}
  MaxDrawn = 4
  MaxDrawFrames = 3
  MaxCensus = 2
INVARIANT OnlyRewrittenIsChanged
CHECK_DEADLOCK FALSE
