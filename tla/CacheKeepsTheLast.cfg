CONSTANTS
  Tabs = {t1}
  Scopes = {s1}
  Caches = {weeks}
  Keys = {k1, k2}
  Busters = {b1}
  NoScope = NoScope
  NameExtends <- NoNameExtends
  MaxEntries = 1
  Monotonic = FALSE
  MaxRevision = 1
  MaxWrites = 3
  MaxSwitches = 0
  MaxFailures = 0
SPECIFICATION Spec
INVARIANT KeepsTheLast
CHECK_DEADLOCK FALSE
