CONSTANTS
  Tasks = {t1, t2}
  Children = {c1, c2, c3}
  Statuses = {0, 1}
  NoTask = NoTask
  NoChild = NoChild
  MaxPosts = 2
  WaitUnlaunched = FALSE
  RelaunchEarly = FALSE
SPECIFICATION Spec
CHECK_DEADLOCK FALSE
INVARIANTS NoOrphanTimer NotifiedOnce NothingBlocks
PROPERTIES ExitNotified ReleasedIsFreed KeepsPromise
