\* The slot changes under a display thread that is past its probe.
CONSTANTS
  Clients = {}
  MaxRequests = 0
  Refusals = {}
  HalfGates = FALSE
  FreeOf = FreeOf
SPECIFICATION Spec
PROPERTIES SlotNotMidFrame
