SPECIFICATION FairSpec
CONSTANTS
  p1 = p1  A = A  B = B
  Part = Part  Absent = Absent  Dir = Dir  Link = Link  None = None
  Tasks = {t1}
  Paths = {p1}
  Contents = {A, B}
  Calls <- AllCalls
  HandEdits <- NoEdits
  Faults <- OnlyTimeouts
  MaxEdits = 0
CHECK_DEADLOCK FALSE
PROPERTIES CallsEnd
