CONSTANTS
  Scopes = {s, r}
  NoScope = NoScope
  Nothing = Nothing
  MaxOps = 2
  MaxSwitches = 2
  MaxStores = 1
  Tabs = {t, u}
  Keys = {k}
  NoRequest = NoRequest
  Sent = Sent
  MaxWrites = 2
  MaxBegun = 1
  MaxPosted = 2
  Mutations = {l, m}
  NoData = NoData
  MaxFetches = 2
SPECIFICATION Spec
INVARIANTS FreshOrMarked StaleIsMarked SequentialIsExact
PROPERTY RestoresAreCurrent
CHECK_DEADLOCK FALSE
