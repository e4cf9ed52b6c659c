SPECIFICATION BodyFairSpec
CONSTANTS
  Uploads <- MCUploads
  MaxBytes = 3
  Nothing = Nothing
INVARIANTS
  WholeOrNothing
  LimitIsExact
PROPERTIES
  AlwaysEnds
\* A request ends.
CHECK_DEADLOCK FALSE
