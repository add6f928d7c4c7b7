SPECIFICATION FairSpec
CONSTANTS
  Enough = 2
  MaxAwaited = 2
INVARIANTS FeedsPutTheLightOut OneFrameAtATime
PROPERTIES PassIsEarned CheckAnswers
CHECK_DEADLOCK FALSE
