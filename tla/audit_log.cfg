SPECIFICATION Spec
CONSTANTS
  None = None
  Types = {apply, rollback}
  Results = {ok}
  Bounds <- SomeBounds
  Limits <- SomeLimits
  MaxLimit = 2
  Ticks = 2
  MaxTime = 3
  MaxRows = 3
INVARIANTS TypeOK ListsTheLatest LatestIsFirst
