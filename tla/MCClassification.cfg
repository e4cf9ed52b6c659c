SPECIFICATION Spec
CONSTANTS
  Policies <- MCPolicies
  Readings <- MCReadings
  Pending = Pending
INVARIANTS
  CautionIsMonotone
  ModelOnlyRefinesFallback
  ClearRulesWin
  CapableNeedsTools
\* classify() returns: a call that has its decision takes no further step.
CHECK_DEADLOCK FALSE
