SPECIFICATION Spec
CONSTANTS
  None = None
  NonFinite = NonFinite
  Tolerance = 0
  Panels = {p1}
  Tracks = {t1, t2}
  SeekableTracks = {t1}
  MaxPosition = 3
  Regions <- TwoRegions
  DefaultRegion <- Default
  MaxEvents = 4
  MaxNotices = 2
  MaxRequests = 2
  LossyNotices = TRUE
  LateNotices = TRUE
  FastPolling = FALSE
INVARIANTS
  PanelsCoherent
  IntentsQueuedOnce
PROPERTY
  SeeksAreCurrent
CHECK_DEADLOCK FALSE
