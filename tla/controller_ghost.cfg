SPECIFICATION Spec
CONSTANTS
  n1 = n1
  b1 = b1
  b2 = b2
  NoName = NoName
  NoIdler = NoIdler
  BuildNames <- OneBuild
  Namespaces <- OneNamespace
  Switchable <- NoNamespace
  UnIdled <- NoNamespace
  IdleAfter = 0
  IdleLongBuild = 0
  BufferSize = 1
  Lifecycle <- ShortLifecycle
  DCAges <- NoAge
  Serial = TRUE
INVARIANTS
  NoGhostBuild
