\* One walk that leaves page_size unset over up to four rows.
SPECIFICATION Spec
CONSTANTS
  Walks = {w1}
  MaxId = 4
  MaxTime = 1
  Statuses = {s1, s2}
  Initial = s1
  AnyStatus = AnyStatus
  NoCursor = NoCursor
  Sizes <- UnsetSize
  DefaultSize = 1
  MaxSize = 2
INVARIANT WalkListsEverything
CHECK_DEADLOCK FALSE
