SPECIFICATION Spec
CONSTANTS
  b1 = b1
  b2 = b2
  BuildNames <- MCBuildNames
  NoName = NoName
  IdleAfter = 1
  IdleLongBuild = 2
  SeenPhases <- MCPhases
  MaxNow = 3
  Grace = 0
INVARIANTS
  AgesDecideAlike
PROPERTIES
  IdleOutlastsTime
CHECK_DEADLOCK FALSE
