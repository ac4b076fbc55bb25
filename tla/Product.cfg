SPECIFICATION MCSpec
CONSTANTS
  A = A
  B = B
  None = None
  Missing = Missing
  Titles <- MCTitles
  IdOf <- MCIdOf
  MaxTaken = 1
  MaxPicks = 2
  Pads = {p, q}
  MaxPlugged = 3
  Packs <- MCPacks
  Parts <- MCParts
  PartsOf <- MCPartsOf
  Products <- MCProducts
  Lines <- MCLines
  MaxLaunches = 3
  MaxKills = 1
  MaxEffort = 4
INVARIANTS RunsWhatWasAnswered PadIsTheOnePlugged
PROPERTY StopEnds
CHECK_DEADLOCK FALSE
