CONSTANTS
  MaxNotices = 3
  MaxEvents = 7
SPECIFICATION FairSpec
INVARIANTS
  TimerIsRight
  IdleTimerIsExcused
PROPERTY
  IdleTimerEnds
CHECK_DEADLOCK FALSE
