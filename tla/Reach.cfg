CONSTANTS
  Refs = {r1, r2, r3}
  Watchers = {w1, w2}
  NoRef = NoRef
  NoWatcher = NoWatcher
  MaxScheduled = 2
SPECIFICATION Spec
CHECK_DEADLOCK FALSE
INVARIANTS CallbackOnCurrent AvailableWasTrue NewsIsDue
PROPERTIES TurnsAreSafe KeepsWatch
