CONSTANTS
  Tabs = {t1, t2}
  Listeners = {l1}
  MaxSessions = 2
SPECIFICATION Spec
INVARIANTS NoOldSnapshot ResetsAreExact
PROPERTIES AllTabsReset ResetsEnd
