\* One walk with an explicit page size over up to three rows.
SPECIFICATION FairSpec
CONSTANTS
  Walks = {w1}
  MaxId = 3
  MaxTime = 1
  Statuses = {s1, s2}
  Initial = s1
  AnyStatus = AnyStatus
  NoCursor = NoCursor
  Sizes <- SetSizes
  DefaultSize = 1
  MaxSize = 2
PROPERTY WalkEnds
INVARIANTS WalkListsEverything NoRowTwice
CHECK_DEADLOCK FALSE
