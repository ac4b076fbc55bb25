\* The gate put in and out, or replaced, under a guest that keeps calling.
CONSTANTS
  Settings <- ToggledOrAnyhow
  MaxRequests = 3
SPECIFICATION FairSpec
INVARIANTS TypeOK NeverDies BlocksAreAsReported SkipIsClean
PROPERTIES NeverTwoSkips OneUpdatePerTick TitleGoesOn
\* The guest that meets an unwritten word stops.
CHECK_DEADLOCK FALSE
