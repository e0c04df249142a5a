SPECIFICATION Spec
CONSTANTS
  None = None
  NonFinite = NonFinite
  Tolerance = 0
  Panels = {p1}
  Tracks = {t1}
  SeekableTracks = {t1}
  MaxPosition = 4
  Regions <- OneRegion
  DefaultRegion <- Default
  MaxEvents = 4
  MaxNotices = 2
  MaxRequests = 2
  LossyNotices = FALSE
  LateNotices = FALSE
  FastPolling = TRUE
INVARIANTS
  CrossingNotForgotten
CHECK_DEADLOCK FALSE
