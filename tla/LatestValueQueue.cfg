SPECIFICATION LiveSpec
CONSTANTS
  kQueueDepth = 3
  MaxPublishes = 7
PROPERTIES
  LatestSpec
  NothingStale
  NewestTaken
