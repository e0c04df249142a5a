CONSTANTS
  None = None
  Main = Main
  Others = {Worker, Other}
  MaxHost = 3
  MaxSeeks = 3
  LateSeeks = FALSE
SPECIFICATION Spec
INVARIANT
  DeletedSafely
PROPERTY
  LifetimeSpec
CHECK_DEADLOCK FALSE
