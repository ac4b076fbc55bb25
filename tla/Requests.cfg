SPECIFICATION Spec
CONSTANTS
  Subjects = {"recorder", "changes", "pacing", "capture", "input", "warp", "item", "choice", "reads"}
  Draws <- MCDraws
  Budget = 3
  MaxDraws = 5
  MaxFrames = 5
  MaxSnapshot = 2
  LogDepth = 2
  Plain = {plain}
  Lit = {lit}
  Attributes = {"place", "colour"}
  Hashes = {0, 1}
  MaxDrawn = 3
  MaxDrawFrames = 4
  MaxCensus = 2
  Clocks = {1, 2}
  Lengths = {1, 3}
  MaxShown = 4
  MaxRestarts = 1
  MaxIntervals = 2
  SlotCount = 2
  AskedSlots = {0, 1, 2}
  MaxPresents = 4
  MaxArms = 4
  Buttons = {a, b}
  Reads = {0, 1, 2}
  Positions = {0, 1}
  MaxInputs = 2
  MaxPolls = 4
  Askers = {c1, c2}
  MaxWarps = 3
  MaxExits = 2
  Givers = {c1, c2}
  Items = {i1, i2}
  Counted = {i2}
  GrantButtons = {x, y}
  MaxGrants = 2
  MaxPickups = 2
  MaxLinks = 2
  Frames = {1, 2, 3}
  ChainDepth = 5
  Addresses = 8
  MaxBytes = 2
  Names <- MCNames
SYMMETRY ClientsAlike
INVARIANTS
  ToolsReadTheFrames
  ChangesAreCounted
  AnswersAreTheGuests
  GuestSeesItWhole
  PadIsAsAsked
CHECK_DEADLOCK FALSE
