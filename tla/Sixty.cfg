\* SixtyHertz and two clients switching either half, any step refused.
CONSTANTS
  Clients = {"c1", "c2"}
  MaxRequests = 2
  Refusals = {"check", "block", "field", "pacing", "slot", "slotBack", "fieldBack", "gate", "gateBack"}
  HalfGates = TRUE
  FreeOf = FreeOf
SPECIFICATION FairSpec
INVARIANTS TypeOK PacingFollowsSlot NeverDiscardedInside SixtyAsksInTime NeitherAlone
PROPERTIES EveryoneGetsOn ComesOn
