SPECIFICATION Spec
CONSTANTS
  Limit = 2
  NoSlot = NoSlot
  Keys = {alice, bob}
  Instants <- MCInstants
  MaxCalls = 5
SYMMETRY MCSymmetry
INVARIANTS
  WindowBound
  BurstBound
PROPERTIES
  RefusesOnlyAtLimit
\* The history bounds stop the clients, never the limiter.
CHECK_DEADLOCK FALSE
