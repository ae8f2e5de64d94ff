CONSTANTS
  Fingerprints = {f, g}
  Window = 2
  MaxRecent = 1
  MaxCaptures = 3
  MaxTime = 2
  MaxAdjusts = 1
  MaxDrafts = 2
SPECIFICATION ReportingSpec
INVARIANTS EntriesLast OptOutHolds SharedDraftIsFindable
PROPERTY OneCapturePerWindow
CHECK_DEADLOCK FALSE
