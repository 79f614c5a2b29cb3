SPECIFICATION HaLiveSpec
CONSTANTS
  p1 = p1  p2 = p2  A = A  B = B  C = C
  Absent = Absent  None = None
  Requests = {r1, r2, r3}
  DraftIds = {d1, d2}
  Paths = {p1}
  Contents = {A, B}
  Malformed = {}
  TooBig = {}
  Rejected = {B}
  CreateRequests <- AcyclicRequests
  SettingsChoices <- UsualSettings
  Yields = FALSE
  HandEdits <- EveryContent
  HandsOff <- Nowhere
  Faults <- ErrorAnswers
  MaxEdits = 0
  MaxCrashes = 0
CHECK_DEADLOCK FALSE
PROPERTIES FinishedWriteIsRecoverable FinishedWriteIsAudited RolledBackIsFinal RequestsEnd
