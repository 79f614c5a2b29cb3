SPECIFICATION Spec
CONSTANTS
  None = None
  Services <- SomeServices
  Bad <- BadVersions
  MaxEdits = 2
INVARIANTS TypeOK OkMeansLoaded FinalErrorMeansNotDone CheckedIsAccepted
