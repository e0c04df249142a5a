SPECIFICATION Spec
CONSTANTS
  None = None
  NonFinite = NonFinite
  Tolerance = 0
  Panels = {p1, p2}
  Tracks = {t1}
  SeekableTracks = {t1}
  MaxPosition = 3
  Regions <- OneRegion
  DefaultRegion <- Default
  MaxEvents = 4
  MaxNotices = 1
  MaxRequests = 1
  LossyNotices = FALSE
  LateNotices = TRUE
  FastPolling = FALSE
SYMMETRY Interchangeable
INVARIANTS
  OneLoop
  IntentCarried
CHECK_DEADLOCK FALSE
