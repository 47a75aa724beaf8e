SPECIFICATION FootfallSpec
CONSTANTS
  cam1 = cam1
  cam2 = cam2
  Stream <- Cameras
  Box <- MCBox
  Frame <- MCFrame
  MaxGap = 1
  Second = 2
  CanonFloor <- MCCanonFloor
  PolicyFloor <- MCPolicyFloor
  Unknown = Unknown
  Origins <- MCOrigins
  MaxNow = 4
  MaxFed = 5
SYMMETRY AnyCamera
INVARIANTS WindowsAddUp
PROPERTIES OneVisitEach VisitsEndAtGaps
