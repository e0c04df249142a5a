--------------------------- MODULE LoopEditor_proofs ---------------------------
(***************************************************************************)
(* For every set of tracks, lengths, inputs and earlier records: the       *)
(* editor's engine is always valid, a marker drag can always be cancelled  *)
(* and always has a waveform, and records are only written for the current *)
(* track.  The invariant is inductive because drag keeps a marker pair     *)
(* that was valid when the drag began, and validity of markers does not    *)
(* depend on the other fields, which may be edited during the drag.        *)
(***************************************************************************)
EXTENDS LoopEditor, TLAPS

IInv == TypeOK /\ EngineValid /\ CancelWorks /\ DragHasWaveform

------------------------------------------------------------------------------
(* Results of the engine's operators *)

(* The grid step of a valid state is at least one tick. *)
LEMMA StepPositive ==
  ASSUME NEW state \in LoopState, Valid(state)
  PROVE  Step(state) \in Nat \ {0}
<1> DEFINE d == state.bpm * state.subdivisions_per_beat
<1>1. state.bpm \in Int /\ 20 <= state.bpm /\ state.bpm <= 300
  BY DEF Valid, LoopState, Seconds
<1>2. state.subdivisions_per_beat \in Int /\ 1 <= state.subdivisions_per_beat
        /\ state.subdivisions_per_beat <= 16
  BY DEF Valid, LoopState
<1>3. d \in Int /\ 0 < d /\ d <= 300 * 16
  BY <1>1, <1>2
<1>4. TicksPerMinute \in Int /\ d <= TicksPerMinute
  BY <1>3, EngineAssumption
<1> HIDE DEF d
<1>5. TicksPerMinute \div d \in Nat \ {0}
  BY <1>3, <1>4
<1> QED
  BY <1>5 DEF Step, d

(* Snapping yields a time, and none before the start of the track. *)
LEMMA SnapType ==
  ASSUME NEW state \in LoopState, Valid(state), NEW seconds \in Int
  PROVE  maybe_snap(seconds, state) \in Int
<1> DEFINE step == Step(state)
           phase == FMod(state.grid_offset_seconds, step)
<1>1. step \in Nat \ {0}
  BY StepPositive
<1>2. state.grid_offset_seconds \in Int
  BY DEF Valid, LoopState, Seconds
<1> HIDE DEF step
<1>3. phase \in Int
  BY <1>1, <1>2 DEF FMod, Magnitude
<1> HIDE DEF phase
<1>4. RoundedQuotient(seconds - phase, step) \in Int
  <2>1. Magnitude(seconds - phase) \in Int
    BY <1>3 DEF Magnitude
  <2>2. (2 * Magnitude(seconds - phase) + step) \div (2 * step) \in Int
    BY <2>1, <1>1
  <2> QED
    BY <2>2 DEF RoundedQuotient
<1>5. phase + RoundedQuotient(seconds - phase, step) * step \in Int
  BY <1>1, <1>3, <1>4
<1> QED
  BY <1>5 DEF maybe_snap, snap_to_grid, phase, step

(* A clamped value lies on the track. *)
LEMMA ClampRange ==
  ASSUME NEW seconds \in Int, NEW high \in Nat
  PROVE  Clamp(seconds, high) \in 0 .. high
BY DEF Clamp

(* set_marker keeps the state's type and validity, accepted or not. *)
LEMMA SetMarkerValid ==
  ASSUME NEW state \in LoopState, Valid(state), NEW seconds \in Int,
         NEW duration \in Nat, NEW is_in \in BOOLEAN
  PROVE  /\ SetMarker(state, seconds, duration, is_in) \in LoopState
         /\ Valid(SetMarker(state, seconds, duration, is_in))
<1>1. Clamp(seconds, duration) \in Int
  BY ClampRange
<1>2. ClampedMarker(seconds, duration, state) \in Int
  BY <1>1, SnapType, ClampRange DEF ClampedMarker
<1>3. WithMarker(state, seconds, duration, is_in) \in LoopState
  BY <1>2 DEF WithMarker, LoopState, Seconds
<1> QED
  BY <1>3 DEF SetMarker, MarkerAccepted

(* Marker pairs move between states: validity does not look elsewhere. *)
LEMMA WithMarkersValid ==
  ASSUME NEW state \in LoopState, Valid(state), NEW in \in Seconds, NEW out \in Seconds
  PROVE  /\ WithMarkers(state, in, out) \in LoopState
         /\ WithMarkers(state, in, out).in_seconds = in
         /\ WithMarkers(state, in, out).out_seconds = out
         /\ in \in Int /\ in >= 0 /\ out \in Int /\ out > in
              => Valid(WithMarkers(state, in, out))
         /\ Valid(WithMarkers(state, in, out))
              => in \in Int /\ in >= 0 /\ out \in Int /\ out > in
<1> DEFINE new == WithMarkers(state, in, out)
<1>1. new \in LoopState
  BY DEF WithMarkers, LoopState
<1>2. new.in_seconds = in /\ new.out_seconds = out
  BY DEF WithMarkers, LoopState
<1>3. /\ new.bpm = state.bpm /\ new.grid_offset_seconds = state.grid_offset_seconds
      /\ new.beats_per_bar = state.beats_per_bar
      /\ new.subdivisions_per_beat = state.subdivisions_per_beat
  BY DEF WithMarkers, LoopState
<1> HIDE DEF new
<1>4. Valid(new) <=> ValidMarkers(new)
  BY <1>3 DEF Valid
<1>5. ValidMarkers(new) <=> in \in Int /\ in >= 0 /\ out \in Int /\ out > in
  BY <1>2, EngineAssumption DEF ValidMarkers, Seconds
<1> QED
  BY <1>1, <1>2, <1>4, <1>5 DEF new

(* Switching the loop on or off changes neither type nor validity. *)
LEMMA WithEnabledValid ==
  ASSUME NEW state \in LoopState, Valid(state), NEW enabled \in BOOLEAN
  PROVE  /\ WithEnabled(state, enabled) \in LoopState
         /\ Valid(WithEnabled(state, enabled))
         /\ WithEnabled(state, enabled).in_seconds = state.in_seconds
         /\ WithEnabled(state, enabled).out_seconds = state.out_seconds
BY DEF WithEnabled, LoopState, Valid, ValidMarkers

(* LoopState{} is valid: its OUT is four seconds. *)
LEMMA DefaultValid == DefaultState \in LoopState /\ Valid(DefaultState)
<1>1. (4 * TicksPerMinute) \div 60 \in Int /\ (4 * TicksPerMinute) \div 60 > 0
  BY EngineAssumption
<1> QED
  BY <1>1, EngineAssumption DEF DefaultState, LoopState, Valid, ValidMarkers, Seconds

(* clamp_engine_to_duration keeps type and validity. *)
LEMMA ClampToDurationValid ==
  ASSUME NEW state \in LoopState, Valid(state), NEW duration \in Nat
  PROVE  /\ ClampToDuration(state, duration) \in LoopState
         /\ Valid(ClampToDuration(state, duration))
<1>1. state.in_seconds \in Int /\ state.out_seconds \in Int
  BY DEF LoopState, Seconds, Valid, ValidMarkers
<1>2. /\ Clamp(state.in_seconds, duration) \in Seconds
      /\ Clamp(state.out_seconds, duration) \in Seconds
      /\ 0 \in Seconds /\ duration \in Seconds
  BY <1>1 DEF Clamp, Seconds
<1>3. WithMarkers(state, Clamp(state.in_seconds, duration),
                         Clamp(state.out_seconds, duration)) \in LoopState
  BY <1>2, WithMarkersValid
<1>4. WithMarkers(state, 0, duration) \in LoopState
  BY <1>2, WithMarkersValid
<1> QED
  BY <1>3, <1>4 DEF ClampToDuration, Commit

(* The constructor accepts any decoded record that is valid, and only it.  *)
LEMMA RestoredValid ==
  ASSUME TypeOK, NEW t \in Tracks
  PROVE  Restored(t) \in LoopState /\ Valid(Restored(t))
<1>1. CASE ~Decodes(saved[t])
  BY <1>1, DefaultValid, WithEnabledValid DEF Restored, Construct, WithEnabled
<1>2. CASE Decodes(saved[t])
  <2>1. saved[t] \in SavedRecord
    BY <1>2 DEF TypeOK, Decodes
  <2>2. snap_subdivisions(SnappingOf(saved[t])) \in Nat
    BY <2>1 DEF snap_subdivisions, SnappingOf, SavedRecord
  <2>3. Decoded(saved[t]) \in LoopState
    BY <2>1, <2>2, DefaultValid
    DEF Decoded, WithSnapping, WithBpm, WithGridOffset, WithBeatsPerBar, WithMarkers,
        SavedRecord, LoopState
  <2>4. Valid(Decoded(saved[t]))
    BY <1>2 DEF Decodes
  <2> QED
    BY <1>2, <2>3, <2>4, WithEnabledValid DEF Restored, Construct, WithEnabled
<1> QED
  BY <1>1, <1>2

(* A state the editor saves makes a record of the format. *)
LEMMA EncodeType ==
  ASSUME NEW state \in LoopState
  PROVE  Encode(state) \in SavedRecord
<1>1. snap_mode(state) \in Nat
  BY DEF snap_mode, LoopState
<1> QED
  BY <1>1 DEF Encode, SavedRecord, LoopState

(* persist_editor keeps the type of the index. *)
LEMMA PersistType ==
  ASSUME TypeOK, NEW state \in LoopState, PersistEditor(state)
  PROVE  saved' \in [Tracks -> SavedRecord \cup {NoRecord}]
BY EncodeType DEF TypeOK, PersistEditor

(* Telling the transport about markers leaves markers and validity alone. *)
LEMMA ReconfiguredValid ==
  ASSUME NEW state \in LoopState, Valid(state), NEW next \in Reconfigured(state)
  PROVE  /\ next \in LoopState /\ Valid(next)
         /\ next.in_seconds = state.in_seconds /\ next.out_seconds = state.out_seconds
BY WithEnabledValid DEF Reconfigured

(* Cancelling a drag puts back a valid pair. *)
LEMMA CancelledValid ==
  ASSUME IInv
  PROVE  Cancelled(engine) \in LoopState /\ Valid(Cancelled(engine))
<1>1. drag.in \in Seconds /\ drag.out \in Seconds
  BY DEF IInv, TypeOK
<1> QED
  BY <1>1, WithMarkersValid DEF IInv, TypeOK, EngineValid, Cancelled, Commit

(* What CancelWorks says about the drag alone. *)
LEMMA CancelWorksMeans ==
  ASSUME TypeOK, EngineValid
  PROVE  CancelWorks <=>
           (interaction \in MarkerDrag =>
              drag.in \in Int /\ drag.in >= 0 /\ drag.out \in Int /\ drag.out > drag.in)
<1>1. drag.in \in Seconds /\ drag.out \in Seconds
  BY DEF TypeOK
<1> QED
  BY <1>1, WithMarkersValid DEF TypeOK, EngineValid, CancelWorks

(* A step that keeps a valid engine and whose drag, if any, was there      *)
(* before with its waveform keeps the invariant.                           *)
LEMMA KeepsDrag ==
  ASSUME IInv, TypeOK', EngineValid',
         interaction' = interaction, UNCHANGED <<drag, waveform, track>>
  PROVE  IInv'
<1>1. CancelWorks'
  BY CancelWorksMeans, WithMarkersValid DEF IInv, TypeOK, EngineValid, CancelWorks
<1>2. DragHasWaveform'
  BY DEF IInv, DragHasWaveform
<1> QED
  BY <1>1, <1>2 DEF IInv

(* A step that ends with no drag keeps the invariant. *)
LEMMA EndsDrag ==
  ASSUME TypeOK', EngineValid', interaction' \notin MarkerDrag
  PROVE  IInv'
BY DEF IInv, CancelWorks, DragHasWaveform

------------------------------------------------------------------------------
(* An edit is counted within its bound. *)
LEMMA EditCounted ==
  ASSUME TypeOK, Edit
  PROVE  edits' \in 0 .. MaxEdits
BY EditorAssumption DEF TypeOK, Edit

(* A control whose value is accepted: the candidate is valid by its guard. *)
LEMMA EnterStep ==
  ASSUME IInv, NEW candidate \in LoopState, Editing, Enter(candidate)
  PROVE  IInv'
<1>1. TypeOK' /\ EngineValid'
  BY PersistType, EditCounted DEF IInv, TypeOK, EngineValid, Enter, Editing
<1> QED
  BY <1>1, KeepsDrag DEF Enter

(* The mouse handlers. *)
LEMMA MouseStep ==
  ASSUME IInv, LeftButtonDown \/ MouseMove \/ LeftButtonUp \/ CaptureLost \/ CloseWindow
  PROVE  IInv'
<1>1. CASE LeftButtonDown
  <2>1. TypeOK' /\ EngineValid'
    <3>1. /\ engine.in_seconds \in Seconds /\ engine.out_seconds \in Seconds
          /\ edits' \in 0 .. MaxEdits
      BY <1>1, EditCounted DEF IInv, TypeOK, LoopState, LeftButtonDown, Editing
    <3> QED
      BY <1>1, <3>1 DEF IInv, TypeOK, EngineValid, LeftButtonDown, MarkerDrag
  <2>2. DragHasWaveform'
    BY <1>1 DEF LeftButtonDown, Editing, DragHasWaveform
  <2>3. CancelWorks'
    <3>1. SUFFICES ASSUME interaction' \in MarkerDrag
                   PROVE  Valid(WithMarkers(engine, drag'.in, drag'.out))
      BY <1>1 DEF CancelWorks, LeftButtonDown
    <3>2. drag' = [in |-> engine.in_seconds, out |-> engine.out_seconds]
      BY <1>1, <3>1 DEF LeftButtonDown, MarkerDrag
    <3>3. /\ engine.in_seconds \in Int /\ engine.in_seconds >= 0
          /\ engine.out_seconds \in Int /\ engine.out_seconds > engine.in_seconds
      BY DEF IInv, TypeOK, EngineValid, Valid, ValidMarkers, LoopState, Seconds
    <3> QED
      BY <3>2, <3>3, WithMarkersValid DEF IInv, TypeOK, EngineValid, Seconds
  <2> QED
    BY <2>1, <2>2, <2>3 DEF IInv
<1>2. CASE MouseMove
  <2>1. CASE interaction \in MarkerDrag
    <3>1. waveform \in Nat
      BY <2>1 DEF IInv, TypeOK, DragHasWaveform
    <3>2. PICK place \in Places :
            engine' \in Reconfigured(SetMarker(engine, Clamp(place, waveform), waveform,
                                               interaction = "marker_in"))
      BY <1>2, <2>1 DEF MouseMove, MarkerDrag, Reconfigured
    <3>3. Clamp(place, waveform) \in Int
      BY <3>1, ClampRange, EditorAssumption
    <3>4. engine' \in LoopState /\ Valid(engine')
      BY <3>1, <3>2, <3>3, SetMarkerValid, ReconfiguredValid DEF IInv, TypeOK, EngineValid
    <3>5. TypeOK' /\ EngineValid'
      BY <1>2, <2>1, <3>4, EditCounted DEF MouseMove, IInv, TypeOK, EngineValid, MarkerDrag
    <3> QED
      BY <1>2, <2>1, <3>5, KeepsDrag DEF MouseMove, MarkerDrag
  <2>2. CASE interaction \notin MarkerDrag
    BY <1>2, <2>2, EndsDrag DEF MouseMove, IInv, TypeOK, EngineValid, MarkerDrag
  <2> QED
    BY <2>1, <2>2
<1>3. CASE LeftButtonUp
  <2>1. saved' \in [Tracks -> SavedRecord \cup {NoRecord}]
    BY <1>3, PersistType DEF LeftButtonUp, IInv, TypeOK
  <2> QED
    BY <1>3, <2>1, EndsDrag DEF LeftButtonUp, IInv, TypeOK, EngineValid, MarkerDrag
<1>4. CASE CaptureLost
  <2>1. engine' \in LoopState /\ Valid(engine')
    BY <1>4, CancelledValid, ReconfiguredValid DEF CaptureLost, IInv, TypeOK, EngineValid
  <2> QED
    BY <1>4, <2>1, EndsDrag DEF CaptureLost, IInv, TypeOK, EngineValid, MarkerDrag
<1>5. CASE CloseWindow
  <2>1. engine' \in LoopState /\ Valid(engine')
    BY <1>5, CancelledValid, ReconfiguredValid DEF CloseWindow, IInv, TypeOK, EngineValid
  <2> QED
    BY <1>5, <2>1, EndsDrag DEF CloseWindow, IInv, TypeOK, EngineValid, MarkerDrag
<1> QED
  BY <1>1, <1>2, <1>3, <1>4, <1>5

(* The controls, keys and the loop checkbox. *)
LEMMA ControlStep ==
  ASSUME IInv,
         CommitBpm \/ CommitOffset \/ ChangeSnapping \/ SetMarkerFromPlayback
           \/ ChangeLoopEnabled
  PROVE  IInv'
<1>1. CASE CommitBpm
  <2>1. PICK bpm \in Tempi : Editing /\ Enter(WithBpm(engine, bpm))
    BY <1>1 DEF CommitBpm
  <2>2. WithBpm(engine, bpm) \in LoopState
    BY EditorAssumption DEF IInv, TypeOK, LoopState, WithBpm
  <2> QED
    BY <2>1, <2>2, EnterStep
<1>2. CASE CommitOffset
  <2>1. PICK seconds \in Offsets : Editing /\ Enter(WithGridOffset(engine, seconds))
    BY <1>2 DEF CommitOffset
  <2>2. WithGridOffset(engine, seconds) \in LoopState
    BY EditorAssumption DEF IInv, TypeOK, LoopState, WithGridOffset
  <2> QED
    BY <2>1, <2>2, EnterStep
<1>3. CASE ChangeSnapping
  <2>1. PICK mode \in Modes \cap SnapMode : Editing /\ Enter(WithSnapping(engine, mode))
    BY <1>3 DEF ChangeSnapping
  <2>2. WithSnapping(engine, mode) \in LoopState
    BY EditorAssumption DEF IInv, TypeOK, LoopState, WithSnapping, snap_subdivisions
  <2> QED
    BY <2>1, <2>2, EnterStep
<1>4. CASE SetMarkerFromPlayback
  <2>1. PICK is_in \in BOOLEAN, place \in Places :
          /\ engine' \in Reconfigured(SetMarker(engine, place, track_duration, is_in))
          /\ PersistEditor(engine')
    BY <1>4 DEF SetMarkerFromPlayback
  <2>2. track_duration \in Nat
    BY <1>4, EditorAssumption DEF SetMarkerFromPlayback, Editing, track_duration, IInv, TypeOK
  <2>3. engine' \in LoopState /\ Valid(engine')
    BY <2>1, <2>2, SetMarkerValid, ReconfiguredValid, EditorAssumption
       DEF IInv, TypeOK, EngineValid
  <2>4. saved' \in [Tracks -> SavedRecord \cup {NoRecord}]
    BY <2>1, <2>3, PersistType DEF IInv
  <2>5. TypeOK' /\ EngineValid'
    BY <1>4, <2>3, <2>4, EditCounted
       DEF SetMarkerFromPlayback, Editing, IInv, TypeOK, EngineValid
  <2> QED
    BY <1>4, <2>5, KeepsDrag DEF SetMarkerFromPlayback
<1>5. CASE ChangeLoopEnabled
  <2>1. engine' \in LoopState /\ Valid(engine')
    BY <1>5, WithEnabledValid DEF ChangeLoopEnabled, Commit, IInv, TypeOK, EngineValid, LoopState
  <2>2. TypeOK' /\ EngineValid'
    BY <1>5, <2>1, EditCounted DEF ChangeLoopEnabled, IInv, TypeOK, EngineValid
  <2> QED
    BY <1>5, <2>2, KeepsDrag DEF ChangeLoopEnabled
<1> QED
  BY <1>1, <1>2, <1>3, <1>4, <1>5

(* Playback callbacks and the completion of an analysis. *)
LEMMA CallbackStep ==
  ASSUME IInv, (\E t \in Tracks : NewTrack(t)) \/ ClearEditor \/ AnalysisComplete
  PROVE  IInv'
<1>1. ASSUME NEW t \in Tracks, NewTrack(t)
      PROVE  IInv'
  <2>1. PICK state \in {Restored(t), DefaultState} :
          engine' = WithEnabled(ClampToDuration(state, Length[t]), FALSE)
    BY <1>1 DEF NewTrack, LoadEditorForTrack
  <2>2. state \in LoopState /\ Valid(state)
    BY <2>1, RestoredValid, DefaultValid DEF IInv
  <2>3. Length[t] \in Nat /\ DecodedLength[t] \in Nat \ {0}
    BY EditorAssumption
  <2>4. engine' \in LoopState /\ Valid(engine')
    BY <2>1, <2>2, <2>3, ClampToDurationValid, WithEnabledValid
  <2>5. waveform' \in (Nat \ {0}) \cup {None}
    BY <1>1, <2>3 DEF NewTrack
  <2> QED
    BY <1>1, <2>4, <2>5, EndsDrag
       DEF NewTrack, LoadEditorForTrack, IInv, TypeOK, EngineValid, MarkerDrag
<1>2. CASE ClearEditor
  BY <1>2, DefaultValid, EndsDrag DEF ClearEditor, IInv, TypeOK, EngineValid, MarkerDrag
<1>3. CASE AnalysisComplete
  <2>1. DecodedLength[track] \in Nat \ {0} /\ track \in Tracks
    BY <1>3, EditorAssumption DEF AnalysisComplete, IInv, TypeOK
  <2>2. engine' \in LoopState /\ Valid(engine')
    BY <1>3, <2>1, ClampToDurationValid, ReconfiguredValid
       DEF AnalysisComplete, IInv, TypeOK, EngineValid
  <2>3. interaction' \notin MarkerDrag
    BY <1>3 DEF AnalysisComplete, IInv, DragHasWaveform
  <2> QED
    BY <1>3, <2>1, <2>2, <2>3, EndsDrag DEF AnalysisComplete, IInv, TypeOK, EngineValid
<1> QED
  BY <1>1, <1>2, <1>3

(* The invariant, for every instance. *)
THEOREM Invariance == Spec => []IInv
<1>1. Init => IInv
  BY DefaultValid, EditorAssumption
     DEF Init, IInv, TypeOK, EngineValid, CancelWorks, DragHasWaveform, MarkerDrag,
         DefaultState, LoopState
<1>2. IInv /\ [Next]_vars => IInv'
  <2>1. ASSUME IInv, UNCHANGED vars
        PROVE  IInv'
    BY <2>1 DEF vars, IInv, TypeOK, EngineValid, CancelWorks, DragHasWaveform
  <2> QED
    BY <2>1, MouseStep, ControlStep, CallbackStep DEF Next
<1> QED
  BY <1>1, <1>2, PTL DEF Spec

(* Every member keeps its type. *)
THEOREM TypeCorrect == Spec => []TypeOK
BY Invariance, PTL DEF IInv

(* IN stays before OUT and every other field in its range, whatever the    *)
(* user, earlier sessions and the decoder come up with.                    *)
THEOREM EngineStaysValid == Spec => []EngineValid
BY Invariance, PTL DEF IInv

(* A marker drag always has the waveform it computes with.                 *)
THEOREM DragIsSafe == Spec => []DragHasWaveform
BY Invariance, PTL DEF IInv

(* What a drag remembers can always be put back.                           *)
THEOREM DragCanBeCancelled == Spec => []CancelWorks
BY Invariance, PTL DEF IInv

(* All of it together, which the runs check.                               *)
THEOREM EditorStaysCoherent == Spec => []EditorCoherent
<1>1. IInv => EditorCoherent
  BY DEF IInv, EditorCoherent
<1> QED
  BY <1>1, Invariance, PTL

------------------------------------------------------------------------------
(* Records are written for the current track only, with its present state. *)
THEOREM SavesForCurrentTrack == Spec => SavesCurrentTrack
<1>1. ASSUME IInv, [Next]_vars, NEW t \in Tracks, saved'[t] # saved[t]
      PROVE  track = t /\ track' = t /\ saved'[t] = Encode(engine')
  <2>1. PersistEditor(engine') /\ track' = track
    BY <1>1 DEF Next, vars, CommitBpm, CommitOffset, ChangeSnapping, Enter,
                SetMarkerFromPlayback, ChangeLoopEnabled, LeftButtonDown, MouseMove,
                LeftButtonUp, CaptureLost, CloseWindow, NewTrack, LoadEditorForTrack,
                ClearEditor, AnalysisComplete, PersistEditor
  <2>2. saved \in [Tracks -> SavedRecord \cup {NoRecord}]
    BY <1>1 DEF IInv, TypeOK
  <2> QED
    BY <1>1, <2>1, <2>2 DEF PersistEditor
<1>2. IInv /\ [Next]_vars =>
        [\A t \in Tracks : saved'[t] # saved[t] =>
           track = t /\ track' = t /\ saved'[t] = Encode(engine')]_vars
  BY <1>1
<1> QED
  BY <1>2, Invariance, PTL DEF Spec, SavesCurrentTrack
------------------------------------------------------------------------------
(* The record's format.  Its one field for the snapping stands for two of  *)
(* the engine, so that a state survives it only if the two agree.          *)

(* Free placement has the subdivision of one; otherwise the subdivision is *)
(* that of a mode.                                                         *)
SnappingIs(state) ==
  /\ state.subdivisions_per_beat \in SnapMode \ {0}
  /\ ~state.snap_enabled => state.subdivisions_per_beat = 1

SnappingKnown == SnappingIs(engine)

(* OUT is within the length that metadb or the decoder knows. *)
OnTrack(out) ==
  track # None /\ Length[track] > 0 =>
    out <= Length[track] \/ (waveform # None /\ out <= waveform)

(* So is the OUT that a drag would put back. *)
DragOnTrack == interaction \in MarkerDrag => OnTrack(drag.out)

EInv == IInv /\ SnappingKnown /\ MarkersOnTrack /\ DragOnTrack

(* A state is its fields. *)
LEMMA SameFields ==
  ASSUME NEW one \in LoopState, NEW other \in LoopState,
         one.bpm = other.bpm, one.grid_offset_seconds = other.grid_offset_seconds,
         one.beats_per_bar = other.beats_per_bar,
         one.subdivisions_per_beat = other.subdivisions_per_beat,
         one.in_seconds = other.in_seconds, one.out_seconds = other.out_seconds,
         one.enabled = other.enabled, one.snap_enabled = other.snap_enabled
  PROVE  one = other
BY DEF LoopState

(* What the setters of decode make of a record. *)
LEMMA DecodedFields ==
  ASSUME NEW record \in SavedRecord
  PROVE  LET d == Decoded(record) IN
         /\ d \in LoopState
         /\ d.bpm = record.bpm /\ d.grid_offset_seconds = record.grid_offset_seconds
         /\ d.beats_per_bar = record.beats_per_bar
         /\ d.subdivisions_per_beat = snap_subdivisions(SnappingOf(record))
         /\ d.in_seconds = record.in_seconds /\ d.out_seconds = record.out_seconds
         /\ d.enabled = FALSE /\ d.snap_enabled = (SnappingOf(record) # 0)
<1>1. snap_subdivisions(SnappingOf(record)) \in Nat
  BY DEF snap_subdivisions, SnappingOf, SavedRecord
<1>2. Decoded(record) \in LoopState
  BY <1>1, DefaultValid
  DEF Decoded, WithSnapping, WithBpm, WithGridOffset, WithBeatsPerBar, WithMarkers,
      SavedRecord, LoopState
<1> QED
  BY <1>2
  DEF Decoded, WithSnapping, WithBpm, WithGridOffset, WithBeatsPerBar, WithMarkers, DefaultState

(* What a state with agreeing snapping is saved as reads back as it was.   *)
LEMMA EncodedReadsBack ==
  ASSUME NEW state \in LoopState, Valid(state), SnappingIs(state)
  PROVE  /\ Decodes(Encode(state))
         /\ Decoded(Encode(state)) = WithEnabled(state, FALSE)
<1> DEFINE r == Encode(state)
           d == Decoded(r)
<1>1. /\ r.schema = 1 /\ r.bpm = state.bpm /\ r.beats_per_bar = state.beats_per_bar
      /\ r.grid_offset_seconds = state.grid_offset_seconds
      /\ r.in_seconds = state.in_seconds /\ r.out_seconds = state.out_seconds
      /\ r.snapping = snap_mode(state)
  BY DEF Encode
<1>2. /\ snap_mode(state) \in SnapMode
      /\ (snap_mode(state) # 0) = state.snap_enabled
      /\ snap_subdivisions(snap_mode(state)) = state.subdivisions_per_beat
  BY DEF snap_mode, snap_subdivisions, SnapMode, SnappingIs, LoopState
<1>3. r \in SavedRecord
  BY EncodeType
<1> HIDE DEF r
<1>4. SnappingOf(r) = snap_mode(state)
  BY <1>1 DEF SnappingOf
<1>5. /\ d \in LoopState
      /\ d.bpm = state.bpm /\ d.grid_offset_seconds = state.grid_offset_seconds
      /\ d.beats_per_bar = state.beats_per_bar
      /\ d.subdivisions_per_beat = snap_subdivisions(snap_mode(state))
      /\ d.in_seconds = state.in_seconds /\ d.out_seconds = state.out_seconds
      /\ d.enabled = FALSE /\ d.snap_enabled = (snap_mode(state) # 0)
  BY <1>1, <1>3, <1>4, DecodedFields
<1> HIDE DEF d
<1> DEFINE off == WithEnabled(state, FALSE)
<1>o. /\ off \in LoopState
      /\ off.bpm = state.bpm /\ off.grid_offset_seconds = state.grid_offset_seconds
      /\ off.beats_per_bar = state.beats_per_bar
      /\ off.subdivisions_per_beat = state.subdivisions_per_beat
      /\ off.in_seconds = state.in_seconds /\ off.out_seconds = state.out_seconds
      /\ off.enabled = FALSE /\ off.snap_enabled = state.snap_enabled
  BY DEF WithEnabled, LoopState
<1> HIDE DEF off
<1>s. d.snap_enabled = off.snap_enabled
  BY <1>2, <1>5, <1>o, Zenon
<1>6. d = off
  BY <1>2, <1>5, <1>o, <1>s, SameFields
<1>7. Valid(d)
  BY <1>6, WithEnabledValid DEF off
<1>8. Decodes(r)
  BY <1>2, <1>3, <1>4, <1>7, EditorAssumption DEF Decodes, d
<1> QED
  BY <1>6, <1>8 DEF d, r, off

------------------------------------------------------------------------------
(* How the operators of the engine treat snapping and OUT *)

(* Markers and the loop have nothing to do with the snapping. *)
LEMMA SnappingIndependent ==
  ASSUME NEW state \in LoopState, SnappingIs(state), NEW other \in LoopState,
         other.snap_enabled = state.snap_enabled,
         other.subdivisions_per_beat = state.subdivisions_per_beat
  PROVE  SnappingIs(other)
BY DEF SnappingIs

(* set_marker leaves OUT where it was or puts it on the track. *)
LEMMA SetMarkerOut ==
  ASSUME NEW state \in LoopState, Valid(state), SnappingIs(state), NEW seconds \in Int,
         NEW duration \in Nat, NEW is_in \in BOOLEAN,
         NEW next \in Reconfigured(SetMarker(state, seconds, duration, is_in))
  PROVE  /\ SnappingIs(next)
         /\ next.out_seconds = state.out_seconds \/ next.out_seconds <= duration
<1> DEFINE marker == ClampedMarker(seconds, duration, state)
           moved == SetMarker(state, seconds, duration, is_in)
<1>1. marker \in 0 .. duration
  BY SnapType, ClampRange DEF ClampedMarker
<1> HIDE DEF marker
<1>2. /\ moved.out_seconds = state.out_seconds \/ moved.out_seconds <= duration
      /\ moved.snap_enabled = state.snap_enabled
      /\ moved.subdivisions_per_beat = state.subdivisions_per_beat
  BY <1>1 DEF SetMarker, WithMarker, LoopState, marker
<1>3. moved \in LoopState /\ Valid(moved)
  BY SetMarkerValid
<1> HIDE DEF moved
<1>4. /\ next.out_seconds = moved.out_seconds
      /\ next.snap_enabled = moved.snap_enabled
      /\ next.subdivisions_per_beat = moved.subdivisions_per_beat
      /\ next \in LoopState
  BY <1>3 DEF Reconfigured, WithEnabled, LoopState, moved
<1> QED
  BY <1>2, <1>4, SnappingIndependent

(* clamp_engine_to_duration brings OUT within a known length. *)
LEMMA ClampToDurationOut ==
  ASSUME NEW state \in LoopState, Valid(state), SnappingIs(state), NEW duration \in Nat
  PROVE  /\ SnappingIs(ClampToDuration(state, duration))
         /\ duration > 0 => ClampToDuration(state, duration).out_seconds <= duration
<1> DEFINE low == Clamp(state.in_seconds, duration)
           high == Clamp(state.out_seconds, duration)
<1>1. state.in_seconds \in Int /\ state.out_seconds \in Int
  BY DEF LoopState, Seconds, Valid, ValidMarkers
<1>2. low \in 0 .. duration /\ high \in 0 .. duration
  BY <1>1, ClampRange
<1> HIDE DEF low, high
<1>3. /\ WithMarkers(state, low, high).out_seconds = high
      /\ WithMarkers(state, 0, duration).out_seconds = duration
      /\ duration > 0 => Valid(WithMarkers(state, 0, duration))
  BY <1>2, WithMarkersValid DEF Seconds
<1>4. \A in, out : /\ WithMarkers(state, in, out).snap_enabled = state.snap_enabled
                   /\ WithMarkers(state, in, out).subdivisions_per_beat
                        = state.subdivisions_per_beat
  BY DEF WithMarkers, LoopState
<1>5. ClampToDuration(state, duration) \in {state, WithMarkers(state, low, high),
                                            WithMarkers(state, 0, duration)}
  BY DEF ClampToDuration, Commit, low, high
<1>6. duration > 0 => ClampToDuration(state, duration)
                        \in {WithMarkers(state, low, high), WithMarkers(state, 0, duration)}
  BY <1>3 DEF ClampToDuration, Commit, low, high
<1> QED
  BY <1>2, <1>3, <1>4, <1>5, <1>6, ClampToDurationValid, SnappingIndependent

(* A record that is read has a snapping mode, whatever its schema. *)
LEMMA RestoredSnapping ==
  ASSUME TypeOK, NEW t \in Tracks
  PROVE  SnappingIs(Restored(t)) /\ SnappingIs(DefaultState)
<1>1. SnappingIs(DefaultState)
  BY DEF SnappingIs, DefaultState, SnapMode
<1>2. CASE ~Decodes(saved[t])
  BY <1>1, <1>2, DefaultValid DEF Restored, Construct, SnappingIs, LoopState
<1>3. CASE Decodes(saved[t])
  <2> DEFINE d == Decoded(saved[t])
             mode == SnappingOf(saved[t])
  <2>1. mode \in SnapMode /\ Valid(d)
    BY <1>3 DEF Decodes
  <2>2. d.snap_enabled = (mode # 0) /\ d.subdivisions_per_beat = snap_subdivisions(mode)
    <3>1. saved[t] \in SavedRecord
      BY <1>3 DEF TypeOK, Decodes
    <3> QED
      BY <3>1, DecodedFields
  <2> HIDE DEF d, mode
  <2>3. SnappingIs(d)
    <3>1. CASE mode = 0
      BY <2>2, <3>1 DEF SnappingIs, snap_subdivisions, SnapMode
    <3>2. CASE mode # 0
      BY <2>1, <2>2, <3>2 DEF SnappingIs, snap_subdivisions, SnapMode
    <3> QED
      BY <3>1, <3>2
  <2>4. Restored(t) = [d EXCEPT !.enabled = FALSE]
    BY <1>3, <2>1 DEF Restored, Construct, d
  <2>5. /\ Restored(t).snap_enabled = d.snap_enabled
        /\ Restored(t).subdivisions_per_beat = d.subdivisions_per_beat
    BY <2>4 DEF d, Decoded, WithMarkers, WithSnapping, WithBeatsPerBar, WithGridOffset,
                WithBpm, DefaultState
  <2> QED
    BY <1>1, <2>3, <2>5 DEF SnappingIs
<1> QED
  BY <1>1, <1>2, <1>3

------------------------------------------------------------------------------
(* A step on the same track with the same waveform keeps the invariant if  *)
(* OUT stays or is put on the track, and a drag keeps the OUT it began     *)
(* with or begins with the present one.                                    *)
LEMMA SameTrack ==
  ASSUME EInv, IInv', UNCHANGED <<track, waveform>>, SnappingIs(engine'),
         engine'.out_seconds = engine.out_seconds \/ OnTrack(engine'.out_seconds),
         interaction' \in MarkerDrag =>
           \/ interaction \in MarkerDrag /\ drag' = drag
           \/ drag'.out = engine.out_seconds
  PROVE  EInv'
<1>1. SnappingKnown'
  BY DEF SnappingKnown, SnappingIs
<1>2. MarkersOnTrack'
  BY DEF EInv, MarkersOnTrack, OnTrack
<1>3. DragOnTrack'
  BY DEF EInv, MarkersOnTrack, DragOnTrack, OnTrack
<1> QED
  BY <1>1, <1>2, <1>3 DEF EInv

(* A value accepted by a control moves no marker. *)
LEMMA ControlsKeepMarkers ==
  ASSUME EInv, IInv', CommitBpm \/ CommitOffset \/ ChangeSnapping \/ ChangeLoopEnabled
  PROVE  EInv'
<1> USE DEF EInv, IInv, TypeOK
<1>1. ASSUME NEW candidate \in LoopState, Enter(candidate), SnappingIs(candidate),
             candidate.out_seconds = engine.out_seconds
      PROVE  EInv'
  BY <1>1, SameTrack DEF Enter
<1>2. CASE CommitBpm
  <2>1. PICK bpm \in Tempi : Enter(WithBpm(engine, bpm))
    BY <1>2 DEF CommitBpm
  <2>2. /\ WithBpm(engine, bpm) \in LoopState
        /\ WithBpm(engine, bpm).out_seconds = engine.out_seconds
        /\ WithBpm(engine, bpm).snap_enabled = engine.snap_enabled
        /\ WithBpm(engine, bpm).subdivisions_per_beat = engine.subdivisions_per_beat
    BY EditorAssumption DEF LoopState, WithBpm
  <2> QED
    BY <1>1, <2>1, <2>2, SnappingIndependent DEF SnappingKnown
<1>3. CASE CommitOffset
  <2>1. PICK seconds \in Offsets : Enter(WithGridOffset(engine, seconds))
    BY <1>3 DEF CommitOffset
  <2>2. /\ WithGridOffset(engine, seconds) \in LoopState
        /\ WithGridOffset(engine, seconds).out_seconds = engine.out_seconds
        /\ WithGridOffset(engine, seconds).snap_enabled = engine.snap_enabled
        /\ WithGridOffset(engine, seconds).subdivisions_per_beat
             = engine.subdivisions_per_beat
    BY EditorAssumption DEF LoopState, WithGridOffset
  <2> QED
    BY <1>1, <2>1, <2>2, SnappingIndependent DEF SnappingKnown
<1>4. CASE ChangeSnapping
  <2>1. PICK mode \in Modes \cap SnapMode : Enter(WithSnapping(engine, mode))
    BY <1>4 DEF ChangeSnapping
  <2>2. /\ WithSnapping(engine, mode) \in LoopState
        /\ WithSnapping(engine, mode).out_seconds = engine.out_seconds
    BY EditorAssumption DEF LoopState, WithSnapping, snap_subdivisions
  <2>3. SnappingIs(WithSnapping(engine, mode))
    <3>1. CASE mode = 0
      BY <3>1 DEF LoopState, WithSnapping, snap_subdivisions, SnappingIs, SnapMode
    <3>2. CASE mode # 0
      BY <3>2 DEF LoopState, WithSnapping, snap_subdivisions, SnappingIs, SnapMode
    <3> QED
      BY <3>1, <3>2
  <2> QED
    BY <1>1, <2>1, <2>2, <2>3
<1>5. CASE ChangeLoopEnabled
  <2>1. /\ engine' \in LoopState /\ engine'.out_seconds = engine.out_seconds
        /\ engine'.snap_enabled = engine.snap_enabled
        /\ engine'.subdivisions_per_beat = engine.subdivisions_per_beat
    BY <1>5 DEF ChangeLoopEnabled, Commit, WithEnabled, LoopState
  <2>2. SnappingIs(engine')
    BY <2>1, SnappingIndependent DEF SnappingKnown
  <2> QED
    BY <1>5, <2>1, <2>2, SameTrack DEF ChangeLoopEnabled
<1> QED
  BY <1>2, <1>3, <1>4, <1>5

(* Set IN and Set OUT clamp to the length that is known best. *)
LEMMA SetMarkerOnTrack ==
  ASSUME EInv, IInv', SetMarkerFromPlayback
  PROVE  EInv'
<1> USE DEF EInv, IInv, TypeOK
<1>1. PICK is_in \in BOOLEAN, place \in Places :
        engine' \in Reconfigured(SetMarker(engine, place, track_duration, is_in))
  BY DEF SetMarkerFromPlayback
<1>2. track_duration \in Nat
  BY EditorAssumption DEF SetMarkerFromPlayback, Editing, track_duration
<1>3. /\ SnappingIs(engine')
      /\ engine'.out_seconds = engine.out_seconds \/ engine'.out_seconds <= track_duration
  BY <1>1, <1>2, SetMarkerOut, EditorAssumption DEF EngineValid, SnappingKnown
<1>4. engine'.out_seconds = engine.out_seconds \/ OnTrack(engine'.out_seconds)
  BY <1>3 DEF OnTrack, track_duration
<1> QED
  BY <1>3, <1>4, SameTrack DEF SetMarkerFromPlayback

(* A drag clamps to the waveform, and its end or cancel keeps or restores. *)
LEMMA MouseOnTrack ==
  ASSUME EInv, IInv', LeftButtonDown \/ MouseMove \/ LeftButtonUp \/ CaptureLost \/ CloseWindow
  PROVE  EInv'
<1> USE DEF EInv, IInv, TypeOK
<1>1. CASE LeftButtonDown
  <2>1. interaction' \in MarkerDrag => drag'.out = engine.out_seconds
    BY <1>1 DEF LeftButtonDown, MarkerDrag
  <2> QED
    BY <1>1, <2>1, SameTrack DEF LeftButtonDown, SnappingKnown
<1>2. CASE MouseMove /\ interaction \in MarkerDrag
  <2>1. waveform \in Nat
    BY <1>2 DEF DragHasWaveform
  <2>2. PICK place \in Places :
          engine' \in Reconfigured(SetMarker(engine, Clamp(place, waveform), waveform,
                                             interaction = "marker_in"))
    BY <1>2 DEF MouseMove, MarkerDrag, Reconfigured
  <2>3. Clamp(place, waveform) \in Int
    BY <2>1, ClampRange, EditorAssumption
  <2>4. /\ SnappingIs(engine')
        /\ engine'.out_seconds = engine.out_seconds \/ engine'.out_seconds <= waveform
    BY <2>1, <2>2, <2>3, SetMarkerOut DEF EngineValid, SnappingKnown
  <2>5. OnTrack(engine'.out_seconds) \/ engine'.out_seconds = engine.out_seconds
    BY <1>2, <2>4 DEF OnTrack, DragHasWaveform
  <2> QED
    BY <1>2, <2>4, <2>5, SameTrack DEF MouseMove, MarkerDrag
<1>3. CASE MouseMove /\ interaction \notin MarkerDrag
  BY <1>3, SameTrack DEF MouseMove, MarkerDrag, SnappingKnown
<1>4. CASE LeftButtonUp
  BY <1>4, SameTrack DEF LeftButtonUp, MarkerDrag, SnappingKnown
<1>5. ASSUME UNCHANGED <<track, waveform, drag>>, interaction' = "none",
             engine' \in IF interaction \in MarkerDrag
                         THEN Reconfigured(Cancelled(engine)) ELSE {engine}
      PROVE  EInv'
  <2> DEFINE back == WithMarkers(engine, drag.in, drag.out)
  <2>1. CASE interaction \notin MarkerDrag
    BY <1>5, <2>1, SameTrack DEF MarkerDrag, SnappingKnown
  <2>2. CASE interaction \in MarkerDrag
    <3>1. drag.in \in Seconds /\ drag.out \in Seconds
      OBVIOUS
    <3>2. /\ back \in LoopState /\ back.out_seconds = drag.out
          /\ back.snap_enabled = engine.snap_enabled
          /\ back.subdivisions_per_beat = engine.subdivisions_per_beat
      BY <3>1 DEF WithMarkers, LoopState
    <3>3. Cancelled(engine) = back
      BY <2>2 DEF Cancelled, Commit, CancelWorks
    <3> HIDE DEF back
    <3>4. engine' = back \/ engine' = WithEnabled(back, FALSE)
      BY <1>5, <2>2, <3>3 DEF Reconfigured
    <3>5. /\ engine' \in LoopState /\ engine'.out_seconds = drag.out
          /\ engine'.snap_enabled = engine.snap_enabled
          /\ engine'.subdivisions_per_beat = engine.subdivisions_per_beat
      BY <3>2, <3>4 DEF WithEnabled, LoopState
    <3>6. SnappingIs(engine')
      BY <3>5, SnappingIndependent DEF SnappingKnown
    <3>7. OnTrack(engine'.out_seconds)
      BY <2>2, <3>5 DEF DragOnTrack
    <3> QED
      BY <1>5, <3>6, <3>7, SameTrack DEF MarkerDrag
  <2> QED
    BY <2>1, <2>2
<1>6. CASE CaptureLost
  BY <1>5, <1>6 DEF CaptureLost
<1>7. CASE CloseWindow
  BY <1>5, <1>7 DEF CloseWindow
<1> QED
  BY <1>1, <1>2, <1>3, <1>4, <1>6, <1>7

(* A track begins within its metadb length, and a decoded waveform brings  *)
(* the markers within its own, whichever is shorter.                       *)
LEMMA CallbackOnTrack ==
  ASSUME EInv, IInv', (\E t \in Tracks : NewTrack(t)) \/ ClearEditor \/ AnalysisComplete
  PROVE  EInv'
<1> USE DEF EInv, IInv, TypeOK
<1>1. ASSUME NEW t \in Tracks, NewTrack(t)
      PROVE  EInv'
  <2>1. PICK state \in {Restored(t), DefaultState} :
          engine' = WithEnabled(ClampToDuration(state, Length[t]), FALSE)
    BY <1>1 DEF NewTrack, LoadEditorForTrack
  <2>2. state \in LoopState /\ Valid(state) /\ SnappingIs(state)
    BY <2>1, RestoredValid, DefaultValid, RestoredSnapping
  <2>3. Length[t] \in Nat
    BY EditorAssumption
  <2> DEFINE clamped == ClampToDuration(state, Length[t])
  <2>4. /\ clamped \in LoopState /\ SnappingIs(clamped)
        /\ Length[t] > 0 => clamped.out_seconds <= Length[t]
    BY <2>2, <2>3, ClampToDurationValid, ClampToDurationOut
  <2> HIDE DEF clamped
  <2>5. /\ engine' \in LoopState /\ engine'.out_seconds = clamped.out_seconds
        /\ engine'.snap_enabled = clamped.snap_enabled
        /\ engine'.subdivisions_per_beat = clamped.subdivisions_per_beat
    BY <2>1, <2>4 DEF WithEnabled, LoopState, clamped
  <2>6. SnappingIs(engine')
    BY <2>4, <2>5, SnappingIndependent
  <2>7. interaction' = "none" /\ track' = t
    BY <1>1 DEF NewTrack, LoadEditorForTrack
  <2>8. SnappingKnown' /\ MarkersOnTrack' /\ DragOnTrack'
    BY <2>4, <2>5, <2>6, <2>7
       DEF SnappingKnown, SnappingIs, MarkersOnTrack, DragOnTrack, MarkerDrag
  <2> QED
    BY <2>8
<1>2. CASE ClearEditor
  <2>1. SnappingIs(DefaultState)
    BY DEF SnappingIs, DefaultState, SnapMode
  <2>2. engine' = DefaultState /\ track' = None /\ interaction' = "none"
    BY <1>2 DEF ClearEditor
  <2>3. SnappingKnown' /\ MarkersOnTrack' /\ DragOnTrack'
    BY <2>1, <2>2 DEF SnappingKnown, SnappingIs, MarkersOnTrack, DragOnTrack, MarkerDrag
  <2> QED
    BY <2>3
<1>3. CASE AnalysisComplete
  <2>1. DecodedLength[track] \in Nat \ {0} /\ track \in Tracks
    BY <1>3, EditorAssumption DEF AnalysisComplete
  <2> DEFINE clamped == ClampToDuration(engine, DecodedLength[track])
  <2>2. /\ clamped \in LoopState /\ SnappingIs(clamped)
        /\ clamped.out_seconds <= DecodedLength[track]
    BY <2>1, ClampToDurationValid, ClampToDurationOut DEF EngineValid, SnappingKnown
  <2>3. engine' \in Reconfigured(clamped)
    BY <1>3 DEF AnalysisComplete, Reconfigured
  <2> HIDE DEF clamped
  <2>4. /\ engine' \in LoopState /\ engine'.out_seconds = clamped.out_seconds
        /\ engine'.snap_enabled = clamped.snap_enabled
        /\ engine'.subdivisions_per_beat = clamped.subdivisions_per_beat
    BY <2>2, <2>3 DEF Reconfigured, WithEnabled, LoopState
  <2>5. SnappingIs(engine')
    BY <2>2, <2>4, SnappingIndependent
  <2>6. /\ interaction' = interaction /\ interaction \notin MarkerDrag
        /\ track' = track /\ waveform' = DecodedLength[track] /\ waveform' # None
    BY <1>3, <2>1, EditorAssumption DEF AnalysisComplete, DragHasWaveform
  <2>7. SnappingKnown' /\ MarkersOnTrack' /\ DragOnTrack'
    BY <2>2, <2>4, <2>5, <2>6 DEF SnappingKnown, SnappingIs, MarkersOnTrack, DragOnTrack
  <2> QED
    BY <2>7
<1> QED
  BY <1>1, <1>2, <1>3

(* The larger invariant, for every instance. *)
THEOREM EditorInvariance == Spec => []EInv
<1>1. Init /\ IInv => EInv
  BY DEF Init, EInv, SnappingKnown, SnappingIs, MarkersOnTrack, DragOnTrack, MarkerDrag,
         DefaultState, SnapMode
<1>2. EInv /\ IInv' /\ [Next]_vars => EInv'
  <2>1. ASSUME EInv, IInv', UNCHANGED vars
        PROVE  EInv'
    BY <2>1 DEF vars, EInv, SnappingKnown, SnappingIs, MarkersOnTrack, DragOnTrack, OnTrack
  <2> QED
    BY <2>1, ControlsKeepMarkers, SetMarkerOnTrack, MouseOnTrack, CallbackOnTrack DEF Next
<1> QED
  BY <1>1, <1>2, Invariance, PTL DEF Spec

(* OUT, and with it IN, is on the track as far as its length is known:     *)
(* after snapping at its very end, an older record, a drag that was        *)
(* cancelled, and a decoder that finds it shorter or longer than metadb.   *)
THEOREM MarkersStayOnTrack == Spec => []MarkersOnTrack
BY EditorInvariance, PTL DEF EInv

(* Every state the editor reaches survives encode and decode as it is,     *)
(* except that the loop is off.                                            *)
THEOREM RecordsRoundTrip == Spec => []RoundTrip
<1>1. ASSUME EInv
      PROVE  RoundTrip
  <2>1. engine \in LoopState /\ Valid(engine) /\ SnappingIs(engine)
    BY <1>1 DEF EInv, IInv, TypeOK, EngineValid, SnappingKnown
  <2>2. Decodes(Encode(engine)) /\ Decoded(Encode(engine)) = WithEnabled(engine, FALSE)
    BY <2>1, EncodedReadsBack
  <2>3. /\ WithEnabled(engine, FALSE) \in LoopState /\ Valid(WithEnabled(engine, FALSE))
    BY <2>1, WithEnabledValid
  <2>4. WithEnabled(WithEnabled(engine, FALSE), FALSE) = WithEnabled(engine, FALSE)
    BY <2>1 DEF WithEnabled, LoopState
  <2>5. Construct(WithEnabled(engine, FALSE)) = WithEnabled(engine, FALSE)
    BY <2>3, <2>4 DEF Construct, WithEnabled
  <2> QED
    BY <2>2, <2>5 DEF RoundTrip
<1> QED
  BY <1>1, EditorInvariance, PTL
==============================================================================
