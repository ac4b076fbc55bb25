\* awaitHeld against its own comment: a hold that is over still answers true.
CONSTANTS
  c1 = c1
  c2 = c2
  Renderer = Renderer
  NoClient = NoClient
  Clients <- MCClients
  MaxStep = 2
  MaxOps = 2
SPECIFICATION Spec

PROPERTIES AwaitHeldMeansPaused
