SPECIFICATION FairSpec
CONSTANTS
  MaxEntries = 1
  TtlSeconds = 60
  Limit = 1
  NoSlot = NoSlot
  Contents <- MCContents
  Texts <- MCTexts
  EmptyText = ""
  Unreadable <- MCUnreadable
  Normal <- MCNormal
  Roles = {"user", "assistant", "tool"}
  Names = {"search", "high_stakes"}
  MaxTurns = 5
  Requests = {r1, r2, r3}
  Payloads <- QuotaPayloads
  Callers <- KeyHolders
  ApiKeys = {alice, bob}
  NoBearer = NoBearer
  MaxMessages = 8
  ActivePolicy <- MCPolicy
  ReadingOf <- MCReadingOf
  LogDecisions = FALSE
  PoolSize = 1
  Instants = {59, 60}
  MaxCrashes = 1
  Nothing = Nothing
  alice = alice
  bob = bob
  mallory = mallory
  host1 = host1
  host2 = host2
INVARIANTS
  QuotaExact
  SlotsOnlyForApiKeys
PROPERTIES
  EverySettles
\* Clients may stop calling.
CHECK_DEADLOCK FALSE
