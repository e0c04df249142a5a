SPECIFICATION PartsSpec
CONSTANTS
  None = None
  NonFinite = NonFinite
  NonFiniteTime = NonFiniteTime
  NoRecord = NoRecord
  Garbage = Garbage
  Invalid = Invalid
  TextPart = TextPart
  FramePart = FramePart
  first_track = first_track
  second_track = second_track
  light = light
  dark = dark
  first_waveform = first_waveform
  second_waveform = second_waveform
  Full = 256
  MaximumZoom = 4
  Turns <- MCTurns
  GraphWidth = 8
  Pixels <- MCPixels
  HitRadius = 1
  DragThreshold = 2
  MarkerPairs <- MCMarkerPairs
  MaxEvents = 6
  Absent = Absent
  Looks <- MCLooks
  Words <- MCWords
  Grids <- MCGrids
  Waveforms <- MCWaveforms
  Duration = 2
  Views <- MCViews
  EntireView <- WholeTrack
  Columns = 2
  Nothing = Nothing
  RequiredTaps = 3
  MaximumIntervals = 2
  InactivityTimeout = 8
  Gaps <- MCGaps
  MaxTaps = 4
  Tracks <- MCTracks
  UnitsPerBpm = 1000
  ClockTicks = 500
  TicksPerMinute = 4800
  TrackLength = 400
  LineViews <- MCLineViews
  Widths = {0, 2, 9, 20, 64}
  GridSettings <- MCGridSettings
  GridSpacing = 3
  MinimumPixels = 4
  DisplayStep = 10
  TapDisplayStep = 100
  SavedTempi <- MCSavedTempi
  Typed <- MCTyped
  MaxMessages = 8
  FullScale = 4
  Chunks <- MCChunks
  RequestedBins <- MCRequestedBins
  MaxFrames = 8
  ViewSteps = 3
  DrawnViews <- MCDrawnViews
  DrawnColumns <- MCDrawnColumns
SYMMETRY Interchangeable
INVARIANTS
  ViewIsRight
  FieldsAreRight
  RoundedOnce
  WaveformIsFaithful
  NoPeakLost
  ScreenIsRight
PROPERTIES
  DragEndsAsMeant
  SeekIsAClick
  PixelsMeanTimes
  TempoIsRight
  GridIsRight
  EditsKeepTheWaveform
CHECK_DEADLOCK FALSE
