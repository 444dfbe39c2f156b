CONSTANTS
  Strings <- MCStrings
  MaxArguments = 3
  ShortMax = 1
  Directories = {host, other, tmp}
  HostDirectory = host
  NoPath = NoPath
  MaxLaunches = 2
SPECIFICATION Spec
CHECK_DEADLOCK FALSE
INVARIANTS DirectoryBorrowed LeaksAreKnown
PROPERTIES StartedAsAsked LaunchIsOneStep LaunchReturns
