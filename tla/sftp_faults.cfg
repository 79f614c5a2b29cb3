SPECIFICATION HSpec
CONSTANTS
  p1 = p1  p2 = p2  A = A  B = B  C = C
  Absent = Absent  None = None
  Requests = {r1, r2}
  DraftIds = {d1}
  Paths = {p1, p2}
  Contents = {A, B, C}
  Malformed = {C}
  TooBig = {C}
  Rejected = {B}
  CreateRequests <- DubiousRequests
  SettingsChoices <- AllSettings
  Yields = TRUE
  HandEdits <- SomeEdits
  HandsOff <- Nowhere
  Faults <- AllFaults
  MaxEdits = 1
  MaxCrashes = 1
CHECK_DEADLOCK FALSE
SYMMETRY Symmetry
INVARIANTS TypeOK RollbackSourceKept AuditIsTruthful IInv ReloadsOnlyCheckedConfig AppliedIsLoaded
PROPERTIES PolicyBoundsEveryWrite
