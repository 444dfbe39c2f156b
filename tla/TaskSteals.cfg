CONSTANTS
  Tasks = {t1, t2}
  Children = {c1, c2}
  Statuses = {0, 1}
  NoTask = NoTask
  NoChild = NoChild
  MaxPosts = 2
  WaitUnlaunched = TRUE
  RelaunchEarly = FALSE
SPECIFICATION Spec
CHECK_DEADLOCK FALSE
PROPERTY WaitsForOwnTask
