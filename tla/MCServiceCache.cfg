SPECIFICATION Spec
CONSTANTS
  MaxEntries = 1
  TtlSeconds = 60
  Limit = 0
  NoSlot = NoSlot
  Contents <- MCContents
  Texts <- MCTexts
  EmptyText = ""
  Unreadable <- MCUnreadable
  Normal <- MCNormal
  Roles = {"user", "assistant", "tool"}
  Names = {"search", "high_stakes"}
  MaxTurns = 5
  Requests = {r1, r2, r3}
  Payloads <- CachePayloads
  Callers <- Anonymous
  ApiKeys = {}
  NoBearer = NoBearer
  MaxMessages = 8
  ActivePolicy <- MCPolicy
  ReadingOf <- MCReadingOf
  LogDecisions = TRUE
  PoolSize = 2
  Instants = {0, 60}
  MaxCrashes = 1
  Nothing = Nothing
  alice = alice
  bob = bob
  mallory = mallory
  host1 = host1
  host2 = host2
SYMMETRY MCSymmetry
INVARIANTS
  Transparent
  AuditExact
  CountersTrue
PROPERTIES
  ImplementsOracle
\* Clients may stop calling.
CHECK_DEADLOCK FALSE
