SPECIFICATION Spec
CONSTANTS
  p1 = p1  p2 = p2  A = A  B = B  C = C
  Absent = Absent  None = None
  Requests = {r1, r2}
  DraftIds = {d1, d2}
  Paths = {p1}
  Contents = {A, B, C}
  Malformed = {}
  TooBig = {}
  Rejected = {B}
  CreateRequests <- RivalRequests
  SettingsChoices <- UsualSettings
  Yields = TRUE
  HandEdits <- EveryContent
  HandsOff <- Nowhere
  Faults <- NoFaults
  MaxEdits = 0
  MaxCrashes = 0
CHECK_DEADLOCK FALSE
SYMMETRY Symmetry
PROPERTIES AppliesLoseNoChange
