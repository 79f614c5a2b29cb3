SPECIFICATION Spec
CONSTANTS
  A = A  Big = Big  Raw = Raw  Absent = Absent  Link = Link  None = None
  Words <- SomeWords
  Files <- ManyFilesSet
  Folders <- ManyFolders
  Ranking <- ManyFiles
  Contents = {A}
  TooLarge = {}
  Binary = {}
  Lines <- NoLines
  SearchLimit = 1
  Local = TRUE
  GlobChoices <- ManyGlobs
  Queries <- ManyQueries
  HandEdits = {A}
  Faults <- NoFaults
  MaxEdits = 0
INVARIANTS ListingIsComplete ServesNothingProtected ServesWhatIsNamed GlobsMatchByPart
