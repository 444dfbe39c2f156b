CONSTANTS
  Infos = {i1, i2, i3}
  NoInfo = NoInfo
  MaxNested = 2
SPECIFICATION Spec
CHECK_DEADLOCK FALSE
INVARIANTS CallbacksAreLive StartKeepsBlock RefConInScope ForcingGoesOn
PROPERTIES OuterLoopSafe KeepsConnection
