SPECIFICATION SFairSpec
CONSTANTS
  Caller = {c1, c2, c3}
  TTL = 0
  Null = Null
  MaxTime = 2
  MaxRetries = 1
INVARIANTS TypeOK SingleUpdater FailsWithReason
PROPERTIES NeverOlder StaleOnlyDuringUpdate FlagReleased BarrenForGood EveryListEnds
