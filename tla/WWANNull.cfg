CONSTANTS
  Infos = {i1}
  NoInfo = NoInfo
  MaxNested = 1
SPECIFICATION Spec
CHECK_DEADLOCK FALSE
INVARIANT UnsuccessfulReturns
