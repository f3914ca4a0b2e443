SPECIFICATION FairSpec
CONSTANTS
  b1 = b1
  b2 = b2
  BuildNames <- MCBuildNames
  NoName = NoName
  IdleAfter = 1
  IdleLongBuild = 1
  Updates <- SomeUpdates
  BufferSize = 1
  MaxRetries = 1
  CheckInterval = 1
  QuietInterval = 1
INVARIANTS
  TypeOK
  IdleStillJustified
PROPERTIES
  RetriesAreBudgeted
  BufferDrains
  RetriesComeBack
  QuietJenkinsIsIdled
  BusyJenkinsIsUnIdled
