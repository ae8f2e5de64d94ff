CONSTANTS
  Tabs = {t1}
  Scopes = {s1}
  Caches = {weeks}
  Keys = {k1, k2, k3}
  Busters = {b1}
  NoScope = NoScope
  NameExtends <- NoNameExtends
  MaxEntries = 1
  Monotonic = FALSE
  MaxRevision = 1
  MaxWrites = 3
  MaxSwitches = 0
  MaxFailures = 1
SPECIFICATION Spec
INVARIANT BoundedAfterFailure
CHECK_DEADLOCK FALSE
