\* Two clients driving the gate in every interleaving with the rendering thread,
\* under fairness of that thread; no symmetry, which is unsound for liveness.
CONSTANTS
  c1 = c1
  c2 = c2
  Renderer = Renderer
  NoClient = NoClient
  Clients <- MCClients
  MaxStep = 2
  MaxOps = 3
SPECIFICATION FairSpec
INVARIANTS TypeOK JobIsHeld NoLostWakeup StepIsExact
PROPERTIES NeverHeldOnceReleased NobodyIsKept IsTurnstile
