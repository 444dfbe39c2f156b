CONSTANTS
  Limit = 2
  MaxSize = 3
SPECIFICATION Spec
INVARIANTS DividerAgrees ArrowAgrees SectionsFit
