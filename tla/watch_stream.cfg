SPECIFICATION FairSpec
CONSTANTS
  o1 = o1
  o2 = o2
  o3 = o3
  Objects <- AllObjects
  Wanted <- TwoWanted
  MaxVersion = 2
INVARIANTS
  TypeOK
  NoNewsIsLost
PROPERTIES
  FeedImplemented
  NewsArrive
