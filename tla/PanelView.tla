-------------------------------- MODULE PanelView --------------------------------
(***************************************************************************)
(* The mouse on the waveform of a LoopFinderPanel                          *)
(* (src/foobar/ui_element.cpp): the view and its zoom, panning, clicks     *)
(* that seek, marker drags, and the capture of the mouse.                  *)
(*                                                                         *)
(* The view is a part of the track, counted in ticks; pixels are counted   *)
(* from the left edge of the graph.  Positions round down to a tick.  What *)
(* a marker snaps to, and when its record is written, is in LoopEditor:    *)
(* here a marker is accepted when IN stays before OUT.                     *)
(*                                                                         *)
(* External: Windows sends WM_CAPTURECHANGED to the window that loses the  *)
(* capture, within the ReleaseCapture call if that is why; a captured      *)
(* mouse reports its moves before its release.                             *)
(***************************************************************************)
EXTENDS Integers

CONSTANTS None,
          Full,           \* the length of the track
          MaximumZoom,    \* 64
          Turns,          \* what a turn of the wheel makes of the width, <<num, den>>
          GraphWidth,     \* of the graph, in pixels
          Pixels,         \* where the pointer may be, also outside the graph
          HitRadius, DragThreshold,   \* in pixels
          MarkerPairs,    \* markers that a track may have
          MaxEvents       \* bound on the messages

ASSUME ViewAssumption ==
  /\ MaximumZoom \in Nat \ {0} /\ GraphWidth \in Nat \ {0}
  /\ Full \in Nat \ {0} /\ Full % MaximumZoom = 0
  /\ Turns \subseteq (Nat \ {0}) \X (Nat \ {0}) /\ Pixels \subseteq Int
  /\ HitRadius \in Nat /\ DragThreshold \in Nat \ {0}
  /\ MarkerPairs \subseteq {m \in [in : 0 .. Full, out : 0 .. Full] : m.in < m.out}
  /\ None \notin Int /\ MaxEvents \in Nat

(* Ticks so fine that rounding to them is not seen in pixels, at any zoom: *)
(* the seconds of the code are doubles.                                    *)
TicksAreFine == Full \div MaximumZoom >= GraphWidth * (GraphWidth - 1)

VARIABLES
  view,       \* view_begin_, view_end_
  panel,      \* interaction_, whether the window has the capture, the engine's markers
  drag,       \* mouse_down_x_, drag_view_, drag_marker_
  waveform,   \* whether waveform_ is available
  window,     \* whether window_ exists
  saved,      \* the markers in the record of the track
  pointer,    \* where the mouse is,
  button,     \* and whether its button is down
  seek,       \* the seek this step asked the host for, or None
  press,      \* history: what was pressed on this track, and whether it moved
  events

vars == <<view, panel, drag, waveform, window, saved, pointer, button, seek, press, events>>

MarkerDrag == {"marker_in", "marker_out"}
Overview == [begin |-> 0, end |-> Full]
NoPress == [on |-> "nothing", moved |-> FALSE]

Width(v) == v.end - v.begin
Distance(a, b) == IF a < b THEN b - a ELSE a - b
ClampTo(n, low, high) == IF n < low THEN low ELSE IF n > high THEN high ELSE n

InGraph(x) == 0 <= x /\ x < GraphWidth

(* The place a pixel stands for, and the pixel a place is drawn at. *)
Place(x, v) == v.begin + (ClampTo(x, 0, GraphWidth) * Width(v)) \div GraphWidth

TimeX(place, v) ==
  IF v.begin <= place /\ place <= v.end
  THEN ((place - v.begin) * (GraphWidth - 1)) \div Width(v) ELSE None

Init ==
  /\ view = Overview
  /\ \E markers \in MarkerPairs :
       /\ panel = [interaction |-> "none", captured |-> FALSE, markers |-> markers]
       /\ saved = markers
       /\ drag = [x |-> 0, view |-> Overview, markers |-> markers]
  /\ waveform \in BOOLEAN
  /\ window = TRUE
  /\ pointer \in Pixels /\ button = FALSE
  /\ seek = None
  /\ press = NoPress
  /\ events = 0

Event == events < MaxEvents /\ events' = events + 1

------------------------------------------------------------------------------
(* The capture.  A handler called within another is a function of what the *)
(* other has made of the panel so far.                                     *)

Restored(p) ==
  IF p.interaction \in MarkerDrag THEN [p EXCEPT !.markers = drag.markers] ELSE p

(* on_capture_lost *)
OnCaptureLost(p) == [Restored(p) EXCEPT !.interaction = "none"]

(* ReleaseCapture, if this window has it, and the message it sends *)
ReleaseCapture(p) ==
  IF p.captured THEN OnCaptureLost([p EXCEPT !.captured = FALSE]) ELSE p

CancelHolding(p, release_capture) == [Restored(p) EXCEPT !.interaction = "none"]   \* mutant

(* cancel_interaction *)
Cancelled(p, release_capture) ==
  LET ended == [Restored(p) EXCEPT !.interaction = "none"]
  IN  IF release_capture THEN ReleaseCapture(ended) ELSE ended

CompletedLate(p) == [ReleaseCapture(p) EXCEPT !.interaction = "none"]   \* mutant

(* on_left_button_up: the interaction is over before the capture is. *)
Completed(p) == ReleaseCapture([p EXCEPT !.interaction = "none"])

------------------------------------------------------------------------------
(* Wheel and double click *)

(* The place under the pointer stays there, as far as the track goes. *)
ZoomedBegin(v, x, width) ==
  ClampTo(v.begin + (x * (Width(v) - width)) \div GraphWidth, 0, Full - width)

Zoomed(v, x, turn) ==
  LET width == ClampTo((Width(v) * turn[1]) \div turn[2], Full \div MaximumZoom, Full)
      begin == ZoomedBegin(v, x, width)
  IN  [begin |-> begin, end |-> begin + width]

MouseWheel ==
  /\ Event /\ window
  /\ waveform /\ InGraph(pointer)
  /\ \E turn \in Turns : view' = Zoomed(view, pointer, turn)
  /\ seek' = None
  /\ UNCHANGED <<panel, drag, waveform, window, saved, pointer, button, press>>

(* The second press of a double click is no WM_LBUTTONDOWN. *)
DoubleClick ==
  /\ Event /\ window
  /\ ~ button /\ button' = TRUE
  /\ view' = IF InGraph(pointer) /\ waveform THEN Overview ELSE view
  /\ press' = NoPress
  /\ seek' = None
  /\ UNCHANGED <<panel, drag, waveform, window, saved, pointer>>

------------------------------------------------------------------------------
(* Button and moves *)

(* The marker at the pointer: the nearer one, IN when both are as near. *)
Hit ==
  LET near(m) == LET x == TimeX(panel.markers[m], view)
                 IN  IF x = None THEN None ELSE Distance(pointer, x)
      hit(m) == near(m) # None /\ near(m) <= HitRadius
  IN  IF hit("in") /\ (near("out") = None \/ near("in") <= near("out")) THEN "marker_in"
      ELSE IF hit("out") THEN "marker_out" ELSE "pending_pan"

LeftButtonDown ==
  /\ Event /\ window
  /\ ~ button /\ button' = TRUE
  /\ IF waveform /\ InGraph(pointer)
     THEN /\ panel' = [panel EXCEPT !.interaction = Hit, !.captured = TRUE]
          /\ drag' = [x |-> pointer, view |-> view,
                      markers |-> IF Hit \in MarkerDrag THEN panel.markers ELSE drag.markers]
          /\ press' = [on |-> Hit, moved |-> FALSE]
     ELSE /\ press' = NoPress
          /\ UNCHANGED <<panel, drag>>
  /\ seek' = None
  /\ UNCHANGED <<view, waveform, window, saved, pointer>>

Accepted(markers) == markers.in < markers.out

DragPlace(x) == Place(x, drag.view)   \* mutant

MarkerPlace(x) == Place(x, view)

(* The marker that is dragged, at the new pointer *)
Dragged(p, x) ==
  LET moved == IF p.interaction = "marker_in" THEN [p.markers EXCEPT !.in = MarkerPlace(x)]
               ELSE [p.markers EXCEPT !.out = MarkerPlace(x)]
  IN  IF Accepted(moved) THEN [p EXCEPT !.markers = moved] ELSE p

PanningByPlace(p, x) ==   \* mutant
  IF Distance(x, drag.x) >= DragThreshold THEN "panning" ELSE "pending_pan"

Panning(p, x) ==
  IF p.interaction = "pending_pan" /\ Distance(x, drag.x) >= DragThreshold
  THEN "panning" ELSE p.interaction

Panned(x) ==
  LET width == Width(drag.view)
      begin == ClampTo(drag.view.begin - ((x - drag.x) * width) \div GraphWidth, 0, Full - width)
  IN  [begin |-> begin, end |-> begin + width]

MouseMove ==
  /\ Event /\ window
  /\ \E x \in Pixels :
       /\ pointer' = x
       /\ press' = [press EXCEPT !.moved = @ \/ (button /\ Distance(x, drag.x) >= DragThreshold)]
       /\ IF panel.interaction = "none" \/ ~ panel.captured THEN UNCHANGED <<panel, view>>
          ELSE IF panel.interaction \in MarkerDrag
          THEN panel' = Dragged(panel, x) /\ UNCHANGED view
          ELSE /\ panel' = [panel EXCEPT !.interaction = Panning(panel, x)]
               /\ view' = IF panel'.interaction = "panning" THEN Panned(x) ELSE view
  /\ seek' = None
  /\ UNCHANGED <<drag, waveform, window, saved, button>>

(* seek_at: the host may not be playing, or its track not seekable. *)
SeekAt(x) ==
  IF waveform /\ InGraph(x) THEN {None, Place(x, view)} ELSE {None}

(* Saving may fail. *)
LeftButtonUp ==
  /\ Event /\ window
  /\ button /\ button' = FALSE
  /\ panel' = IF panel.interaction = "none" THEN panel ELSE Completed(panel)
  /\ seek' \in IF panel.interaction = "pending_pan" THEN SeekAt(pointer) ELSE {None}
  /\ saved' \in IF panel.interaction \in MarkerDrag THEN {saved, panel'.markers} ELSE {saved}
  /\ UNCHANGED <<view, drag, waveform, window, pointer, press>>

(* Another window takes the capture. *)
CaptureLost ==
  /\ Event /\ window
  /\ panel.captured
  /\ panel' = OnCaptureLost([panel EXCEPT !.captured = FALSE])
  /\ seek' = None
  /\ UNCHANGED <<view, drag, waveform, window, saved, pointer, button, press>>

(* Without the capture, another window may hear of the release. *)
ReleaseElsewhere ==
  /\ button /\ ~ panel.captured
  /\ button' = FALSE
  /\ seek' = None
  /\ UNCHANGED <<view, panel, drag, waveform, window, saved, pointer, press, events>>

------------------------------------------------------------------------------
(* load_editor_for_track or clear_editor, and begin_analysis or            *)
(* clear_analysis, which reset the view: the drag ends on the old track.   *)
NewTrack ==
  /\ Event
  /\ \E markers \in MarkerPairs :
       /\ panel' = [Cancelled(panel, window) EXCEPT !.markers = markers]
       /\ saved' = markers
  /\ view' = Overview
  /\ waveform' \in BOOLEAN
  /\ press' = NoPress
  /\ seek' = None
  /\ UNCHANGED <<drag, window, pointer, button>>

(* on_analysis_complete *)
AnalysisComplete ==
  /\ ~ waveform /\ waveform' = TRUE
  /\ seek' = None
  /\ UNCHANGED <<view, panel, drag, window, saved, pointer, button, press, events>>

(* WM_NCDESTROY.  Windows takes the capture from a window it destroys. *)
CloseWindow ==
  /\ window /\ window' = FALSE
  /\ panel' = [Cancelled(panel, FALSE) EXCEPT !.captured = FALSE]
  /\ seek' = None
  /\ UNCHANGED <<view, drag, waveform, saved, pointer, button, press, events>>

------------------------------------------------------------------------------
Next ==
  \/ MouseWheel \/ DoubleClick \/ LeftButtonDown \/ MouseMove \/ LeftButtonUp
  \/ CaptureLost \/ ReleaseElsewhere \/ NewTrack \/ AnalysisComplete \/ CloseWindow

Spec == Init /\ [][Next]_vars

------------------------------------------------------------------------------
View == [begin : Int, end : Int]
MarkersType == [in : 0 .. Full, out : 0 .. Full]

TypeOK ==
  /\ view \in View
  /\ panel \in [interaction : MarkerDrag \cup {"none", "pending_pan", "panning"},
                captured : BOOLEAN, markers : MarkersType]
  /\ drag \in [x : Int, view : View, markers : MarkersType]
  /\ waveform \in BOOLEAN /\ window \in BOOLEAN /\ button \in BOOLEAN
  /\ saved \in MarkersType
  /\ pointer \in Int /\ seek \in Int \cup {None}
  /\ press \in [on : MarkerDrag \cup {"nothing", "pending_pan"}, moved : BOOLEAN]
  /\ events \in 0 .. MaxEvents

(* The view is a part of the track, not narrower than the maximum zoom, in *)
(* whatever mix of wheel, pan, double click and tracks.                    *)
IsPart(v) == 0 <= v.begin /\ v.end <= Full /\ Width(v) >= Full \div MaximumZoom
ViewIsPart == IsPart(view) /\ IsPart(drag.view)

(* The window has the capture exactly while something is under way: no     *)
(* ending leaves the mouse captured, and what is under way hears the end.  *)
CaptureWhileInteracting == panel.captured <=> panel.interaction # "none"

(* A released drag keeps its markers although releasing the capture calls  *)
(* on_capture_lost, which is there to undo a drag; a drag that loses the   *)
(* capture on its track is undone, and nothing of it was saved.            *)
DragEndsAsMeant ==
  [][panel.interaction \in MarkerDrag /\ panel'.interaction = "none" =>
       IF button' THEN NewTrack \/ (panel'.markers = drag.markers /\ saved' = saved)
       ELSE panel'.markers = panel.markers /\ saved' \in {saved, panel'.markers}]_vars

(* "Dragging only changes editor state and never repeatedly seeks          *)
(* playback" (docs/ARCHITECTURE.md:131): a seek is the release of a press  *)
(* on empty space of this track that never moved far enough to be a drag,  *)
(* not even to come back, and that nothing cancelled.                      *)
SeekIsAClick ==
  [][seek' # None => press.on = "pending_pan" /\ ~ press.moved /\ panel.captured]_vars

(* A click seeks to, and a drag puts its marker at, a place that is drawn  *)
(* within a pixel of the pointer, also after the zoom changed under the    *)
(* drag.                                                                   *)
Near(place, x) == TimeX(place, view) # None /\ Distance(TimeX(place, view), ClampTo(x, 0, GraphWidth - 1)) <= 1

PointsWhereDrawn ==
  [][/\ seek' # None => Near(seek', pointer)
     /\ \A m \in {"in", "out"} :
          panel'.markers[m] # panel.markers[m] /\ panel'.interaction \in MarkerDrag =>
            Near(panel'.markers[m], pointer')]_vars

(* "zoom around the pointer" (README.md:45): what is under the pointer     *)
(* stays, to within rounding, unless the view reaches an end of the track. *)
ZoomsAroundPointer ==
  [][MouseWheel =>
       \/ Distance(Place(pointer, view'), Place(pointer, view)) <= 1
       \/ view'.begin = 0 \/ view'.end = Full]_vars

(* The view is a part of the track, and the mouse is captured as long as   *)
(* something is under way.                                                 *)
ViewIsRight == TypeOK /\ ViewIsPart /\ CaptureWhileInteracting

(* What is under the pointer is what a click, a drag or the wheel is about. *)
PixelsMeanTimes == PointsWhereDrawn /\ ZoomsAroundPointer
==============================================================================
