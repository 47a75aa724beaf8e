SPECIFICATION Spec
CONSTANTS
  LIBRARY <- MCLibrary
  Batches <- MCBatches
  MAX_RECOMMENDATIONS_PER_SITE_PER_DAY = 3
  MaxDay = 2
  MaxRestarts = 1
INVARIANTS CapsHold BestOfTheDay
CHECK_DEADLOCK FALSE
