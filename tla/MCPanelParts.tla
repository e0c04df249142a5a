------------------------------ MODULE MCPanelParts ------------------------------
(***************************************************************************)
(* Six parts of a panel, side by side: the mouse (PanelView), the child    *)
(* controls and the tap tempo behind one of them, the layers and the       *)
(* screen, and the two algorithms whose results are drawn in them.         *)
(*                                                                         *)
(* What these models have in common with each other is in none of their    *)
(* states, so the steps of one change nothing for another, and their       *)
(* product would show no more than each of them.  The initial state        *)
(* chooses the part that moves; the others stay as they begin.             *)
(***************************************************************************)
EXTENDS PanelView, PanelPainting, EditorControls, WaveformReducer, GridLines, TLC

CONSTANTS first_track, second_track, light, dark, first_waveform, second_waveform

VARIABLES
  part,   \* the part that moves
  tempo, tap_result, tap_times

mouse_vars == vars
tap_vars   == <<tempo, tap_result, tap_times>>

all_vars == <<part, mouse_vars, tap_vars, control_vars, wave_vars, lines_vars, painting_vars>>

------------------------------------------------------------------------------
(* A graph of 8 pixels over 256 ticks; half and twice the width.           *)
MCTurns == {<<1, 2>>, <<2, 1>>}
MCPixels == {-2, 0, 1, 3, 6, 7, 9}
MCMarkerPairs == {[in |-> 64, out |-> 224], [in |-> 80, out |-> 96]}

(* Gaps of none, below, at and above the timeout of 3.                     *)
Tap == INSTANCE TapTempo
  WITH result <- tap_result, taps <- tap_times,
       RequiredTaps <- 4, MaximumIntervals <- 5, InactivityTimeout <- 3,
       Gaps <- {0, 1, 2, 3, 4}, MaxTaps <- 7

(* A stored tempo with more digits than are shown, a typed one too, and    *)
(* one beyond its bound; gaps between taps up to the timeout and above.    *)
MCTracks == {first_track, second_track}
MCSavedTempi == {92507}
MCTyped == {128333, 400000}
MCGaps == {1, 3, 4, 9}

(* Mono and stereo, the latter with a sample of each sign; the third chunk *)
(* holds a sample beyond full scale; then an empty and two malformed ones. *)
MCChunks ==
  {[pcm |-> <<-2>>, channels |-> 1],
   [pcm |-> <<2, -4>>, channels |-> 2],
   [pcm |-> <<6, -2>>, channels |-> 1],
   [pcm |-> <<>>, channels |-> 1],
   [pcm |-> <<2, 2, 2>>, channels |-> 2],
   [pcm |-> <<2>>, channels |-> 0]}
MCRequestedBins == {0, 1, 2, 3}

(* The whole, its parts, and views that are empty, reversed or outside.    *)
MCDrawnViews == {<<0, 3>>, <<1, 2>>, <<1, 3>>, <<0, 1>>, <<1, 1>>, <<2, 1>>, <<2, 4>>, <<-1, 2>>}
MCDrawnColumns == {0, 1, 2, 5}

(* The same reducer, one frame at a time, all alike, through several       *)
(* compactions.                                                            *)
Long == INSTANCE WaveformReducer
  WITH Chunks <- {[pcm |-> <<1>>, channels |-> 1]},
       RequestedBins <- {1, 2, 3, 4, 5, 6, 9}, MaxFrames <- 90,
       DrawnViews <- {}, DrawnColumns <- {}

(* 300 BPM is 16 ticks to the beat.                                        *)
MCGridSettings == [bpm : {300, 100}, offset : {0, 5, -7, 200}, beats : {1, 3}, mode : {0, 4, 16}]

MCLineViews ==
  {v \in [from : {0, 3, 50, 77}, to : {10, 13, 50, 53, 80, 100, 127, 300, 350}] : v.from < v.to}

(* Two of everything that is compared in the painting.                     *)
WholeTrack == [begin |-> 0, end |-> 2]
MCViews == {WholeTrack, [begin |-> 0, end |-> 1]}
MCWords == {0, 1}
MCGrids == {0, 1}
MCLooks == {light, dark}
MCWaveforms == {first_waveform, second_waveform}

(* Looks and waveforms are only ever compared. *)
Interchangeable == Permutations(MCLooks) \cup Permutations(MCWaveforms)

ASSUME PartsAssumption ==
  /\ TicksAreFine
  /\ Tap!TapAssumption
  /\ ControlsAssumption
  /\ ReducerAssumption /\ Long!ReducerAssumption
  /\ GridAssumption
  /\ PaintingAssumption

------------------------------------------------------------------------------
(* Parts that do not move begin in one way. *)
PartsInit ==
  /\ part \in {"mouse", "taps", "fields", "short stream", "long stream", "lines", "painting"}
  /\ Init
  /\ part # "mouse" => waveform /\ pointer = 0 /\ saved = [in |-> 64, out |-> 224]
  /\ Tap!Init
  /\ ControlsInit
  /\ IF part = "long stream" THEN Long!DecodeInit ELSE DecodeInit
  /\ part \notin {"short stream", "long stream"} => reducer.requested_bins = 1
  /\ LinesInit
  /\ part # "lines" => grid_view = [from |-> 0, to |-> 10] /\ graph_width = 9
  /\ PaintingInit
  /\ part # "painting" => shown.words = 0 /\ shown.grid = 0

PartsNext ==
  \/ /\ part = "mouse" /\ Next
     /\ UNCHANGED <<part, tap_vars, control_vars, wave_vars, lines_vars, painting_vars>>
  \/ /\ part = "taps" /\ Tap!Next
     /\ UNCHANGED <<part, mouse_vars, control_vars, wave_vars, lines_vars, painting_vars>>
  \/ /\ part = "fields" /\ ControlsNext
     /\ UNCHANGED <<part, mouse_vars, tap_vars, wave_vars, lines_vars, painting_vars>>
  \/ /\ part = "short stream" /\ DecodeNext
     /\ UNCHANGED <<part, mouse_vars, tap_vars, control_vars, lines_vars, painting_vars>>
  \/ /\ part = "long stream" /\ Long!DecodeNext
     /\ UNCHANGED <<part, mouse_vars, tap_vars, control_vars, lines_vars, painting_vars>>
  \/ /\ part = "lines" /\ LinesNext
     /\ UNCHANGED <<part, mouse_vars, tap_vars, control_vars, wave_vars, painting_vars>>
  \/ /\ part = "painting" /\ PaintingNext
     /\ UNCHANGED <<part, mouse_vars, tap_vars, control_vars, wave_vars, lines_vars>>

PartsSpec == PartsInit /\ [][PartsNext]_all_vars

------------------------------------------------------------------------------
(* The properties of the parts, which their modules state and explain;     *)
(* those of the mouse, the fields, the streams, the lines and the painting *)
(* are named there.                                                        *)
(* What does not move is as it begins, which it is too when it moves.      *)

(* Taps: the tempo is the median of the present run's last intervals, and  *)
(* one poor tap is resisted.                                               *)
TempoIsRight == [](part = "taps" => Tap!TapsAreRight) /\ Tap!TempoIsMedianOfRun
==============================================================================
