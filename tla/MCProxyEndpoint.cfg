SPECIFICATION FairSpec
CONSTANTS
  r1 = r1
  r2 = r2
  r3 = r3
  alice = alice
  mallory = mallory
  Requests = {r1, r2, r3}
  CallerOf <- MCCallers
  Authentic = {alice}
  Limit = 1
  NoSlot = NoSlot
  Instants = {59, 60, 120}
  MaxCrashes = 2
  Nothing = Nothing
INVARIANTS
  ChargedAtMostOnce
  ChargesWithinQuota
  CountersTrue
PROPERTIES
  EveryRequestEnds
\* The requests end.
CHECK_DEADLOCK FALSE
