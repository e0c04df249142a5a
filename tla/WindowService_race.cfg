CONSTANTS
  None = None
  Main = Main
  Others = {Worker}
  MaxHost = 1
  MaxSeeks = 1
  LateSeeks = TRUE
SPECIFICATION Spec
INVARIANT
  DeletedOnMain
CHECK_DEADLOCK FALSE
