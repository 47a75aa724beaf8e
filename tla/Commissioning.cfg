SPECIFICATION Spec
CONSTANTS
  GATE_ORDER <- MCGateOrder
  Observations <- MCObservations
  Approver = {a1, a2}
  MaxNow = 1
  Waivable = {"age_gate"}
  MaxRestarts = 1
  MaxRaises = 2
  MaxVersion = 2
  None = None
  Empty = Empty
  Endpoint = {"mqtt", "enrol"}
  MQTT = "mqtt"
  REQUIRED_FOR_ENROLMENT = {"enrol"}
INVARIANTS NobodyLookedNeverPasses CommitmentRests
PROPERTIES EvidenceAtActivation NoModelDowngrade Installs
CHECK_DEADLOCK FALSE
