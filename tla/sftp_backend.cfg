SPECIFICATION Spec
CONSTANTS
  p1 = p1  A = A  B = B
  Part = Part  Absent = Absent  Dir = Dir  Link = Link  None = None
  Tasks = {t1, t2}
  Paths = {p1}
  Contents = {A, B}
  Calls <- AllCalls
  HandEdits <- Edits
  Faults <- AllFaults
  MaxEdits = 1
CHECK_DEADLOCK FALSE
INVARIANTS TypeOK
PROPERTIES ImplementsFileStore LitterOnlyOnFailure
