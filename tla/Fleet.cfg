SPECIFICATION FairSpec
CONSTANTS
  Never = Never
  NoReading = NoReading
  NoState = NoState
  NoHistory = NoHistory
  Drones = 1
  Reading <- OnePad
  StaleAfter = 1
  OfflineAfter = 2
  MaxEvents = 2
  MaxSamples = 1
  MinInterval = 1
  MaxTime = 4
  MaxRestarts = 1
  MaxRetained = 2
  MaxWire = 1
  MaxDrops = 1
INVARIANTS OfflineIsStale TimelineIsOneStory BoardMissesNothing
PROPERTIES SilenceIsSeen SinceIsCovered
CHECK_DEADLOCK FALSE
