SPECIFICATION FairSpec
CONSTANTS
  p1 = p1  p2 = p2  A = A  B = B  C = C
  Absent = Absent  None = None
  Requests = {r1}
  DraftIds = {d1}
  Paths = {p1}
  Contents = {A, B}
  Malformed = {}
  TooBig = {}
  Rejected = {B}
  CreateRequests <- CyclicRequests
  SettingsChoices <- UsualSettings
  Yields = TRUE
  HandEdits <- EveryContent
  HandsOff <- Nowhere
  Faults <- NoFaults
  MaxEdits = 0
  MaxCrashes = 0
CHECK_DEADLOCK FALSE
PROPERTIES RequestsEnd
