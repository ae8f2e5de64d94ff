CONSTANTS
  Interval = 2
  MaxCalls = 4
  MaxTime = 7
  MaxRenders = 1
  Ids = {a, b, c}
  Absent = Absent
  NoTtl = NoTtl
  MaxVisible = 2
  DefaultTtl = 2
  Ttls <- CallerTtls
  MaxPushes = 3
  MaxLife = 2
  last_ = last_
  busy = busy
  quiet = quiet
  Errors = {d, e, last_}
  Keys = {busy, quiet}
  KeyOf <- Endpoints
  Delay = 1
  KeyInterval = 2
  MaxKeys = 1
  MaxClock = 4
  MaxAdjusts = 1
  Tabs = {t, u}
  MaxReloads = 1
  Grace = 1
  MaxVersion = 2
  MaxActs = 1
  Overlays = {o, p, q}
  Paddings = {0, 3}
  Scrollbar = 2
  Offsets = {0, 1}
  Paths <- ScrollPaths
  MaxTouches = 2
  Layers = {k, l}
  MaxFocusable = 1
  MaxOpenings = 2
  MaxOptions = 3
  Settings <- ListSettings
  Standard = {width, minWidth}
  Based = {minWidth}
  Custom = {columns}
  Components = {m, n}
  Widths = {3, 4, 6, 7, 10}
  Ems = {1, 2, 3}
  Threshold = 2
  MaxChanges = 3
  MaxBytes = 1
  MaxAborts = 1
  Publications = {v, w}
  MaxClicks = 2
  MaxItems = 2
SPECIFICATION PageSpec
INVARIANTS LastWriteWins ToastsAgree UpdatesSpread ListboxIsUsable
PROPERTIES Spaced TransportIsFair OverlaysHoldThePage NothingIsLeft NoRetryByScroll
CHECK_DEADLOCK FALSE
