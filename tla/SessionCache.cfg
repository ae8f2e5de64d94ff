CONSTANTS
  Tabs = {t1, t2}
  Scopes = {s1, s2}
  Caches = {weeks}
  Keys = {k1, k2}
  Busters = {b1, b2}
  NoScope = NoScope
  NameExtends <- NoNameExtends
  MaxEntries = 1
  Monotonic = TRUE
  MaxRevision = 2
  MaxWrites = 3
  MaxSwitches = 2
  MaxFailures = 1
SPECIFICATION Spec
SYMMETRY Symmetry
CONSTRAINT BuildsOrMoves
INVARIANTS NoForeignSnapshot CacheBounded
PROPERTY RevisionsGrow
CHECK_DEADLOCK FALSE
