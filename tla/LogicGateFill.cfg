\* The first fill, one word at a time, under a guest that keeps calling.
CONSTANTS
  Settings <- FilledUnderCalls
  MaxRequests = 2
SPECIFICATION Spec
INVARIANTS FilledBeforeReached
