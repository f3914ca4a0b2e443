SPECIFICATION FairSpec
CONSTANTS
  n1 = n1
  b1 = b1
  b2 = b2
  NoName = NoName
  NoIdler = NoIdler
  BuildNames <- OneBuild
  Namespaces <- OneNamespace
  Switchable <- NoNamespace
  UnIdled <- NoNamespace
  IdleAfter = 0
  IdleLongBuild = 0
  BufferSize = 2
  Lifecycle <- NewOnly
  DCAges <- NoAge
  Serial = TRUE
INVARIANTS
  TypeOK
  IdlerIsThere
  OneIdlerPerWatcher
PROPERTIES
  UsersSentInOrder
  HandlersReturn
