SPECIFICATION Spec
CONSTANTS
  p1 = p1  p2 = p2  A = A  B = B  C = C
  Absent = Absent  None = None
  Requests = {r1, r2}
  DraftIds = {d1, d2}
  Paths = {p1}
  Contents = {A, B}
  Malformed = {}
  TooBig = {}
  Rejected = {B}
  CreateRequests <- CyclicRequests
  SettingsChoices <- UsualSettings
  Yields = FALSE
  HandEdits <- EveryContent
  HandsOff <- Window
  Faults <- AmbiguousWrites
  MaxEdits = 1
  MaxCrashes = 1
CHECK_DEADLOCK FALSE
SYMMETRY Symmetry
INVARIANTS VersionMatchesBase
PROPERTIES BackupBeforeOverwrite ApplyOnlyIfUnchanged ImplementsConfigChange
