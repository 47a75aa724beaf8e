SPECIFICATION Spec
CONSTANTS
  Capacity = 6
  Items <- MCItems
  NoItem = NoItem
  NoMetric = NoMetric
  CoarsenFactor = 2
  CoarsenGrowth = 1
  Horizons <- MCHorizons
  Batch = 2
  MaxSeq = 5
INVARIANTS CapacityBound NoDoubleCount
PROPERTIES ShedsInOrder LostOnlyInsideMerge KeepsLedger EnqueueEnds
