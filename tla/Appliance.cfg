CONSTANTS
  Children = {c1, c2, c3}
  NoChild = NoChild
SPECIFICATION Spec
INVARIANTS LogOverMemory RemoteCanReturn
PROPERTIES WaitsReturn RemoteServed
