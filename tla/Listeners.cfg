SPECIFICATION Spec
CONSTANTS
  Subjects = {"sea", "rope", "cloth", "material", "camera", "paint"}
  Places = {0, 2, 4}
  Switches = {"interpolation", "logic"}
  MaxTicks = 3
  MaxSwitches = 2
  MaxStep = 4
  Packets = {p1, p2}
  BufferKinds = 2
  MaxBlends = 2
  Rates = {4}
  Loop = 0
  Ends = {0, 2, 6, 12}
  Kinds = {"wave", "cloud", "snow", "particle"}
  Slots = {s1}
  Radius = 4
SYMMETRY PacketsAlike
ACTION_CONSTRAINT SwitchesBeforeCalls
INVARIANTS
  LeavesNothing
  ShowsInBetween
  NoViewAcrossACut
  ShotGoesOn
CHECK_DEADLOCK FALSE
