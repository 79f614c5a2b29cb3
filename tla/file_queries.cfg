SPECIFICATION FairSpec
CONSTANTS
  A = A  Big = Big  Raw = Raw  Absent = Absent  Link = Link  None = None
  Words <- SomeWords
  Files <- TwoFilesSet
  Folders <- TwoFolders
  Ranking <- TwoFiles
  Contents = {A, Big, Raw}
  TooLarge = {Big}
  Binary = {Raw}
  Lines <- LineCounts
  SearchLimit = 3
  Local = FALSE
  GlobChoices <- SomeGlobs
  Queries <- SomeQueries
  HandEdits <- AllValues
  Faults <- Transport
  MaxEdits = 2
INVARIANTS TypeOK ListingIsComplete SearchIsExact FailsForCause LimitWasKept AnswersWereTrue
 
