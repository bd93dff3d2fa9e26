SPECIFICATION FairSpec
CONSTANTS
  Event = {e1}
  Worker = {w1, w2}
  NoTask = NoTask
  MaxRetries = 3
  Limit = 1
  IncludeFailed = TRUE
  MaxHanded = 3
  MaxFaults = 2
INVARIANTS NoNeedlessDuplicate EventsSound
PROPERTIES SentIsFinal EveryEventIsAttempted
