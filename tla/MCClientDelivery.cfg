SPECIFICATION FairSpec
CONSTANTS
  c1 = c1
  c2 = c2
  f1 = f1
  p1 = p1
  Classifications = {c1, c2}
  Feedbacks = {f1}
  About <- MCAbout
  Payload <- MCPayload
  MaxRetries = 1
  MaxCrashes = 1
  Nothing = Nothing
INVARIANTS
  FeedbackAtMostOnce
  AckIsRecorded
  FeedbackJoins
PROPERTIES
  EveryCallEnds
\* The calls end.
CHECK_DEADLOCK FALSE
