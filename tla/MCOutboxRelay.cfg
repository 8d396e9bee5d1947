SPECIFICATION FairSpec
CONSTANTS
  r1 = r1
  r2 = r2
  mail = mail
  audit = audit
  Relays <- MCRelays
  Listeners <- MCListeners
  Events <- MCEvents
  Stream <- MCStream
  Kinds <- MCKinds
  BatchSize = 2
  Concurrency = 1
  MaxAttempts = 2
  RetryBase = 1
  RetryMax = 2
  MaxFaults = 1
CHECK_DEADLOCK FALSE
INVARIANTS TypeOK ProcessedMeansHandled OverlapNeedsASlowBatch PublishesWithinBudget
PROPERTIES GoodEventsAreProcessed DeliversAsPromised
