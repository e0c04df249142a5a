------------------------------ MODULE LoopEditor ------------------------------
(***************************************************************************)
(* The editor of one LoopFinderPanel (src/foobar/ui_element.cpp): the grid *)
(* and marker controls, the marker drags, and the per-track records that   *)
(* EditorPersistence keeps, while tracks change and waveforms arrive.      *)
(*                                                                         *)
(* All of it runs on the main thread; a step is a handler.  The transport  *)
(* is in LoopPanels: here reconfigure_transport_for_markers may or may not *)
(* find a reason to turn the loop off.                                     *)
(***************************************************************************)
EXTENDS LoopEngine

CONSTANTS None,
          Tracks,
          Length,           \* metadb length of each track, 0 when unknown
          DecodedLength,    \* length of its waveform once decoded
          Tempi, Offsets, Modes, Places,   \* what the user enters or points at
          EarlierRecords,   \* what earlier sessions may have left for a track
          MaxEdits          \* bound on the edits of the user

ASSUME EditorAssumption ==
  /\ None \notin Tracks /\ None \notin Int
  /\ Length \in [Tracks -> Nat] /\ DecodedLength \in [Tracks -> Nat \ {0}]
  /\ Tempi \subseteq Seconds /\ Offsets \subseteq Seconds /\ Modes \subseteq Nat
  /\ Places \subseteq Int /\ MaxEdits \in Nat
  /\ EarlierRecords \subseteq SavedRecord \cup {NoRecord} /\ NoRecord \notin SavedRecord

VARIABLES
  engine,        \* loop_engine_.state()
  track,         \* current_track_
  waveform,      \* duration_seconds of waveform_, or None
  cached,        \* tracks whose waveform is in the cache
  interaction,   \* interaction_
  drag,          \* drag_marker_in_, drag_marker_out_
  window,        \* whether window_ exists
  saved,         \* the record of each track in the metadb index
  edits

vars == <<engine, track, waveform, cached, interaction, drag, window, saved, edits>>

MarkerDrag == {"marker_in", "marker_out"}

Init ==
  /\ engine = DefaultState
  /\ track = None
  /\ waveform = None
  /\ cached = {}
  /\ interaction = "none"
  /\ drag = [in |-> 0, out |-> DefaultState.out_seconds]
  /\ window = TRUE
  /\ saved \in [Tracks -> EarlierRecords]
  /\ edits = 0

------------------------------------------------------------------------------
(* reconfigure_transport_for_markers, as far as the editor sees it *)
Reconfigured(state) == {state, WithEnabled(state, FALSE)}

(* persist_editor and save: the record is that of the current track.       *)
(* Saving fails when the index is unavailable or throws.                   *)
PersistEditor(state) ==
  \/ Valid(state) /\ saved' = [saved EXCEPT ![track] = Encode(state)]
  \/ UNCHANGED saved

(* cancel_interaction *)
Cancelled(state) ==
  IF interaction \in MarkerDrag
  THEN Commit(state, WithMarkers(state, drag.in, drag.out))
  ELSE state

Edit == edits < MaxEdits /\ edits' = edits + 1

Editing == window /\ track # None /\ Edit

track_duration == IF waveform # None THEN waveform ELSE Length[track]

------------------------------------------------------------------------------
(* Controls and keys.  A rejected value changes and saves nothing. *)

Enter(candidate) ==
  /\ Valid(candidate)
  /\ engine' = candidate
  /\ PersistEditor(candidate)
  /\ UNCHANGED <<track, waveform, cached, interaction, drag, window>>

(* Enter, lost focus, or a tap that completes a tempo *)
CommitBpm == Editing /\ \E bpm \in Tempi : Enter(WithBpm(engine, bpm))

CommitOffset ==
  Editing /\ \E seconds \in Offsets : Enter(WithGridOffset(engine, seconds))

ChangeSnapping ==
  Editing /\ \E mode \in Modes \cap SnapMode : Enter(WithSnapping(engine, mode))

SetMarkerFromPlayback ==
  /\ Editing
  /\ \E is_in \in BOOLEAN, place \in Places :
       /\ MarkerAccepted(engine, place, track_duration, is_in)
       /\ engine' \in Reconfigured(SetMarker(engine, place, track_duration, is_in))
       /\ PersistEditor(engine')
  /\ UNCHANGED <<track, waveform, cached, interaction, drag, window>>

(* change_loop_enabled, or the loop is turned off for another reason *)
ChangeLoopEnabled ==
  /\ track # None
  /\ window \/ engine.enabled
  /\ Edit
  /\ engine' = Commit(engine, WithEnabled(engine, ~engine.enabled))
  /\ UNCHANGED <<track, waveform, cached, interaction, drag, window, saved>>

------------------------------------------------------------------------------
(* Mouse *)

LeftButtonDown ==
  /\ Editing
  /\ waveform # None
  /\ \/ /\ interaction' \in MarkerDrag
        /\ drag' = [in |-> engine.in_seconds, out |-> engine.out_seconds]
     \/ interaction' = "pending_pan" /\ UNCHANGED drag
  /\ UNCHANGED <<engine, track, waveform, cached, window, saved>>

MouseMove ==
  /\ window
  /\ \/ /\ interaction \in MarkerDrag
        /\ Edit
        /\ \E place \in Places :
             LET moved == SetMarker(engine, Clamp(place, waveform), waveform,
                                    interaction = "marker_in")
             IN  engine' \in IF moved = engine THEN {engine} ELSE Reconfigured(moved)
        /\ UNCHANGED interaction
     \/ /\ interaction = "pending_pan"
        /\ interaction' = "panning"
        /\ UNCHANGED <<engine, edits>>
  /\ UNCHANGED <<track, waveform, cached, drag, window, saved>>

LeftButtonUp ==
  /\ window
  /\ interaction # "none"
  /\ interaction' = "none"
  /\ IF interaction \in MarkerDrag THEN PersistEditor(engine) ELSE UNCHANGED saved
  /\ UNCHANGED <<engine, track, waveform, cached, drag, window, edits>>

CaptureLost ==
  /\ window
  /\ interaction # "none"
  /\ interaction' = "none"
  /\ engine' \in IF interaction \in MarkerDrag THEN Reconfigured(Cancelled(engine)) ELSE {engine}
  /\ UNCHANGED <<track, waveform, cached, drag, window, saved, edits>>

(* WM_NCDESTROY, then the destructor *)
CloseWindow ==
  /\ window
  /\ window' = FALSE
  /\ interaction' = "none"
  /\ engine' \in IF interaction \in MarkerDrag THEN Reconfigured(Cancelled(engine)) ELSE {engine}
  /\ UNCHANGED <<track, waveform, cached, drag, saved, edits>>

------------------------------------------------------------------------------
(* Playback callbacks and the waveform *)

Restored(t) ==
  LET record == saved[t] IN
  Construct(IF Decodes(record) THEN Decoded(record) ELSE DefaultState)

LoadAndSaveOld(t) ==   \* mutant
  /\ engine' = WithEnabled(ClampToDuration(Restored(t), Length[t]), FALSE)
  /\ interaction' = "none"
  /\ track' = t
  /\ saved' = [saved EXCEPT ![t] = Encode(Cancelled(engine))]

(* load_editor_for_track: the drag is cancelled on the old track; the      *)
(* engine is replaced, off, within the length the metadb knows.  Reading   *)
(* the record may fail, which leaves the defaults.                         *)
LoadEditorForTrack(t) ==
  /\ \E state \in {Restored(t), DefaultState} :
       engine' = WithEnabled(ClampToDuration(state, Length[t]), FALSE)
  /\ interaction' = "none"
  /\ track' = t
  /\ UNCHANGED saved

(* on_playback_new_track, on_playback_edited: then begin_analysis.  The    *)
(* cache may have dropped the waveform meanwhile.                          *)
NewTrack(t) ==
  /\ LoadEditorForTrack(t)
  /\ waveform' \in {None} \cup {DecodedLength[u] : u \in cached \cap {t}}
  /\ UNCHANGED <<cached, drag, window, edits>>

(* on_playback_starting, on_playback_stop: clear_analysis, clear_editor *)
ClearEditor ==
  /\ track' = None
  /\ waveform' = None
  /\ engine' = DefaultState
  /\ interaction' = "none"
  /\ UNCHANGED <<cached, drag, window, saved, edits>>

(* on_analysis_complete, of the current generation *)
AnalysisComplete ==
  /\ track # None
  /\ waveform = None
  /\ waveform' = DecodedLength[track]
  /\ cached' = cached \cup {track}
  /\ LET clamped == ClampToDuration(engine, DecodedLength[track]) IN
     engine' \in IF clamped = engine THEN {engine} ELSE Reconfigured(clamped)
  /\ UNCHANGED <<track, interaction, drag, window, saved, edits>>

------------------------------------------------------------------------------
Next ==
  \/ LeftButtonDown \/ MouseMove \/ LeftButtonUp \/ CaptureLost \/ CloseWindow
  \/ CommitBpm \/ CommitOffset \/ ChangeSnapping \/ SetMarkerFromPlayback
  \/ ChangeLoopEnabled
  \/ \E t \in Tracks : NewTrack(t)
  \/ ClearEditor
  \/ AnalysisComplete

Spec == Init /\ [][Next]_vars

------------------------------------------------------------------------------
(* Types of the editor's members. *)
TypeOK ==
  /\ engine \in LoopState
  /\ track \in Tracks \cup {None}
  /\ waveform \in (Nat \ {0}) \cup {None}
  /\ cached \subseteq Tracks
  /\ interaction \in MarkerDrag \cup {"none", "pending_pan", "panning"}
  /\ drag \in [in : Seconds, out : Seconds]
  /\ window \in BOOLEAN
  /\ saved \in [Tracks -> SavedRecord \cup {NoRecord}]
  /\ edits \in 0 .. MaxEdits

(* The engine never holds a tempo, a grid or markers it would reject, by   *)
(* whatever mix of controls, drags, cancelled drags, records of other      *)
(* sessions and tracks that turn out shorter: IN stays before OUT.         *)
EngineValid == Valid(engine)

(* What a drag would restore is valid too: cancelling it always works.     *)
CancelWorks == interaction \in MarkerDrag => Valid(WithMarkers(engine, drag.in, drag.out))

(* on_mouse_move reads waveform_->duration_seconds without a test: while a *)
(* marker is dragged there is a waveform, and a track to save it for.      *)
DragHasWaveform == interaction \in MarkerDrag => waveform # None /\ track # None

(* The editor holds a valid loop, and a drag can go on and be cancelled.   *)
EditorCoherent == TypeOK /\ EngineValid /\ CancelWorks /\ DragHasWaveform

(* Whatever the editor may save is read back as it is, except that the     *)
(* loop is off: no state it can reach is lost by the record's format.      *)
RoundTrip ==
  /\ Decodes(Encode(engine))
  /\ Construct(Decoded(Encode(engine))) = WithEnabled(engine, FALSE)

(* Markers lie on the track, as far as any length of it is known: also     *)
(* after snapping moved them, and when the decoder disagrees with metadb.  *)
MarkersOnTrack ==
  track # None /\ Length[track] > 0 =>
    \/ engine.out_seconds <= Length[track]
    \/ waveform # None /\ engine.out_seconds <= waveform

(* A record is only ever written with the present editor state of the very *)
(* track it is for: nothing of one track is saved for the next one.        *)
SavesCurrentTrack ==
  [][\A t \in Tracks : saved'[t] # saved[t] =>
       track = t /\ track' = t /\ saved'[t] = Encode(engine')]_vars

MarkersOf(record) == <<record.in_seconds, record.out_seconds>>

(* "Dragging IN (release to save)" (ui_element.cpp): the markers of a drag *)
(* are not saved before the button is released, so that a drag that is     *)
(* cancelled ("Capture loss, track change and destruction cancel marker    *)
(* drags", docs/ARCHITECTURE.md) leaves nothing behind.  A step that does  *)
(* not touch the markers saves those of before the drag, or saved already. *)
SavedOnRelease ==
  [][\A t \in Tracks :
       /\ saved'[t] # saved[t]
       /\ interaction' \in MarkerDrag
       /\ MarkersOf(engine') = MarkersOf(engine)
       => \/ MarkersOf(saved'[t]) = <<drag.in, drag.out>>
          \/ saved[t] # NoRecord /\ MarkersOf(saved'[t]) = MarkersOf(saved[t])]_vars
==============================================================================
