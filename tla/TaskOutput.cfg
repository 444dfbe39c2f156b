CONSTANTS
  Tasks = {t1, t2}
  Children = {c1, c2}
  Statuses = {0, 1}
  NoTask = NoTask
  NoChild = NoChild
  MaxPosts = 2
  WaitUnlaunched = TRUE
  RelaunchEarly = TRUE
  PipeSize = 1
  MaxOutput = 2
SPECIFICATION OSpec
CHECK_DEADLOCK FALSE
INVARIANTS Monitored NoBrokenPipe DescriptorsKnown
PROPERTIES WaitEnds DescriptorsReturned
