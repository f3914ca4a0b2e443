SPECIFICATION Spec
CONSTANTS
  n1 = n1
  n2 = n2
  r1 = r1
  r2 = r2
  None = None
  Namespaces <- TwoNamespaces
  Watched <- OneWatched
  Requests <- TwoRequests
  Calls <- AllCalls
  Statuses <- SomeStatuses
  Places = 1

INVARIANT UnIdledIsWanted
