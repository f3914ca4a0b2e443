SPECIFICATION FairSpec
CONSTANTS
  b1 = b1
  b2 = b2
  BuildNames <- MCBuildNames
  NoName = NoName
  IdleAfter = 0
  IdleLongBuild = 1
  Updates <- FewUpdates
  BufferSize = 1
  MaxRetries = 1
  CheckInterval = 1
  QuietInterval = 1
PROPERTIES
  CheckedRegularly
