SPECIFICATION StartUpSpec
CONSTANTS
  Absent = Absent
  Torn = Torn
  BundledBank <- Sound
  Setups <- MCSetups
  Edits <- MCEdits
  Prompts <- MCPrompts
  Tokens = {"key", " "}
  Followed <- Plain
  MaxEdits = 1
  MaxLoads = 2
  MaxRestarts = 1
INVARIANTS
  AcceptedAsAssumed
  AcceptedDecides
  PicksFollowAction
  ProductionIsClosed
  VotesAreSound
PROPERTIES
  DecisionsHold
\* Start-up may be refused, and the operator may have no change left.
CHECK_DEADLOCK FALSE
