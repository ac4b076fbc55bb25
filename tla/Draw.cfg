\* Nothing in the way; probes that fail and things not drawn; anything switched.
SPECIFICATION Spec
CONSTANTS
  Places = {0, 4}
  Settings <- AllSettings
  Switches = {"interpolation", "logic"}
  MaxTicks = 4
  MaxSwitches = 3
\* The bound on the ticks stops the title.
CHECK_DEADLOCK FALSE
INVARIANTS TypeOK EveryTickTwice ModelStandsOnActor TitleReadsItsOwn SkippedShowsTheTick PictureIsInBetween
PROPERTIES IsTitlePaints
