SPECIFICATION Spec
CONSTANTS
  cam1 = cam1
  cam2 = cam2
  cam3 = cam3
  hall = hall
  Stream <- Cameras
  Zone <- OneZone
  NoZone = NoZone
  StreamCap = 2
  Budget = 1
  Parts = 2
  Second = 2
  KeyframeOnly = TRUE
  Findings <- MCFindings
  Origins <- MCOrigins
  MaxNow = 2
  MaxOffered = 3
SYMMETRY AnyCamera
INVARIANTS TypeOK BooksBalance WithinMeasure
PROPERTY FailsClosed
