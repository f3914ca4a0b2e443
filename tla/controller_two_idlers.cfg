SPECIFICATION Spec
CONSTANTS
  n1 = n1
  b1 = b1
  b2 = b2
  NoName = NoName
  NoIdler = NoIdler
  BuildNames <- OneBuild
  Namespaces <- OneNamespace
  Switchable <- OneNamespace
  UnIdled <- OneNamespace
  IdleAfter = 0
  IdleLongBuild = 0
  BufferSize = 2
  Lifecycle <- MCLifecycle
  DCAges <- JustNow
  Serial = TRUE
INVARIANTS
  OneIdlerPerNamespace
