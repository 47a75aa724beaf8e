SPECIFICATION Spec
CONSTANTS
  busy = busy
  quiet = quiet
  Kinds <- TwoKinds
  Metric <- Footfall
  Bundles <- MCBundles
  NoBundle = NoBundle
  NoEnvelope = NoEnvelope
  Batch = 2
  MaxSeq = 3
  MaxLive = 1
  MaxFaults = 1
INVARIANTS TypeOK EveryDeliveryChained NoSilentLoss
PROPERTIES NeverAhead PolicyGoverns QueueMoves
