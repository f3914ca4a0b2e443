SPECIFICATION FairSpec
CONSTANTS
  a1 = a1
  a2 = a2
  NoApi = NoApi
  Apis <- TwoApis
  Lists <- SomeLists
  MaxClusters = 2
  MaxIdlers = 1
INVARIANTS
  TypeOK
  ViewIsComplete
  Counted
  RunWaits
  OnlyLateComersPanic
PROPERTIES
  EndsOnceAsked
CHECK_DEADLOCK FALSE
