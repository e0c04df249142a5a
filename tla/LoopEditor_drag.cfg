SPECIFICATION Spec
CONSTANTS
  None = None
  NonFinite = NonFinite
  NoRecord = NoRecord
  TicksPerMinute = 9600
  long = long
  odd = odd
  Tracks <- BothTracks
  Length <- MCLength
  DecodedLength <- MCDecodedLength
  Tempi <- MCTempi
  Offsets <- MCOffsets
  Modes <- MCModes
  Places <- MCPlaces
  EarlierRecords <- MCEarlierRecords
  MaxEdits = 3
PROPERTIES
  SavedOnRelease
CHECK_DEADLOCK FALSE
