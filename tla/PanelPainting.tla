----------------------------- MODULE PanelPainting -----------------------------
(***************************************************************************)
(* What a LoopFinderPanel has on screen (src/foobar/ui_element.cpp): the   *)
(* two cached layers, which handler invalidates which part of the window   *)
(* and which layer, and the painting that makes it valid again.            *)
(*                                                                         *)
(* The members of the panel that can be seen are its record shown.  The    *)
(* window is divided into the text, the frame of the waveform with its     *)
(* status, and the columns of the graph, in which markers and cursor lie;  *)
(* a strip that is invalidated around a marker or the cursor is a column.  *)
(* A part of the screen is what was painted there last, or Invalid.        *)
(*                                                                         *)
(* Colours, fonts, DPI and the size of the window are one value, the look. *)
(* External: WM_PAINT comes when something is invalid, and a window of the *)
(* class CS_HREDRAW | CS_VREDRAW is invalid after its size changed.        *)
(*                                                                         *)
(* MCPanelParts extends this module together with PanelView: the names of  *)
(* the two are distinct.                                                   *)
(***************************************************************************)
EXTENDS Integers

CONSTANTS Invalid, Absent,
          TextPart, FramePart,   \* parts of the window besides the columns of the graph
          Looks, Words, Grids,
          Waveforms,     \* the waveforms tracks may have
          Duration,      \* of each, in ticks
          Views,         \* the views, [begin, end] in ticks
          EntireView,    \* the view of the whole track
          Columns        \* number of columns of the graph

PaintingAssumption ==
  /\ Duration \in Nat \ {0} /\ Columns \in Nat \ {0}
  /\ EntireView = [begin |-> 0, end |-> Duration] /\ EntireView \in Views
  /\ \A v \in Views : 0 <= v.begin /\ v.begin < v.end /\ v.end <= Duration
  /\ Waveforms \cap {"no_track", "analyzing", "unavailable"} = {}
  /\ {Absent, TextPart, FramePart} \cap Int = {} /\ TextPart # FramePart

VARIABLES shown,                  \* the members that can be seen
          dragging,               \* interaction_ is marker_in or marker_out
          waveform_layer,         \* what is on waveform_layer_bitmap_, or Absent
          waveform_layer_dirty,
          editor_layer,           \* what is on editor_layer_bitmap_, or Absent
          editor_layer_dirty,
          screen                  \* what is in each part of the window

layers == <<waveform_layer, waveform_layer_dirty, editor_layer, editor_layer_dirty>>
painting_vars == <<shown, dragging, layers, screen>>

Times == 0 .. Duration

Markers == {m \in [in : Times, out : Times] : m.in < m.out}

Shown == [look : Looks, words : Words, waveform : Waveforms \cup
            {"no_track", "analyzing", "unavailable"},
          view : Views, grid : Grids, markers : Markers, cursor : Times]

Graph == 1 .. Columns
Waveform == {FramePart} \cup Graph
Window == {TextPart} \cup Waveform

------------------------------------------------------------------------------
(* Drawing *)

Available(s) == s.waveform \in Waveforms

(* time_x: markers and cursor are drawn on a waveform that is in view. *)
ColumnOf(time, s) ==
  IF Available(s) /\ s.view.begin <= time /\ time <= s.view.end
  THEN ((time - s.view.begin) * (Columns - 1)) \div (s.view.end - s.view.begin) + 1
  ELSE Absent

(* draw_waveform_layer *)
WaveformLayer(s) ==
  [look |-> s.look, waveform |-> s.waveform, view |-> IF Available(s) THEN s.view ELSE Absent]

(* draw_grid_overlay, on what is there *)
WithGrid(base, s) == [base |-> base, grid |-> IF Available(s) THEN s.grid ELSE Absent]

(* One column of the graph: draw_markers and draw_cursor over a layer. *)
Column(x, layer, s) ==
  [layer |-> layer,
   markers |-> {m \in {"in", "out"} : ColumnOf(s.markers[m], s) = x},
   cursor |-> ColumnOf(s.cursor, s) = x]

Text(s) == [look |-> s.look, words |-> s.words, grid |-> s.grid, markers |-> s.markers]

Picture(part, layer, s) ==
  CASE part = TextPart  -> Text(s)
    [] part = FramePart -> layer.base
    [] part \in Graph -> Column(part, layer, s)

------------------------------------------------------------------------------
(* Invalidation.  These give the screen and the layers after a handler;    *)
(* shown' comes before them.                                               *)

Invalidated(parts) == [part \in Window |-> IF part \in parts THEN Invalid ELSE screen[part]]

redraw(waveform_too, grid_too) ==
  /\ waveform_layer_dirty' = (waveform_layer_dirty \/ waveform_too)
  /\ editor_layer_dirty' = (editor_layer_dirty \/ grid_too)
  /\ screen' = Invalidated(Window)
  /\ UNCHANGED <<waveform_layer, editor_layer>>

redraw_waveform ==
  /\ waveform_layer_dirty' = TRUE
  /\ screen' = Invalidated(Waveform)
  /\ UNCHANGED <<waveform_layer, editor_layer, editor_layer_dirty>>

redraw_strips(columns) == screen' = Invalidated(columns \ {Absent}) /\ UNCHANGED layers

(* discard_waveform_layer, which discards the editor layer made from it *)
DiscardWaveformLayer ==
  /\ waveform_layer' = Absent /\ waveform_layer_dirty' = TRUE
  /\ editor_layer' = Absent /\ editor_layer_dirty' = TRUE

------------------------------------------------------------------------------
DefaultMarkers == [in |-> 0, out |-> Duration]

PaintingInit ==
  /\ shown \in {s \in Shown : /\ s.waveform = "no_track" /\ s.view = EntireView
                              /\ s.cursor = 0 /\ s.markers = DefaultMarkers}
  /\ dragging = FALSE
  /\ waveform_layer = Absent /\ waveform_layer_dirty = TRUE
  /\ editor_layer = Absent /\ editor_layer_dirty = TRUE
  /\ screen = [part \in Window |-> Invalid]

(* on_playback_starting, on_playback_stop: clear_analysis, clear_editor *)
ClearTrack ==
  /\ \E words \in Words, grid \in Grids, cursor \in {0, shown.cursor} :
       shown' = [shown EXCEPT !.words = words, !.waveform = "no_track", !.view = EntireView,
                              !.grid = grid, !.markers = DefaultMarkers, !.cursor = cursor]
  /\ dragging' = FALSE
  /\ redraw(TRUE, TRUE)

(* on_playback_new_track, on_playback_edited: refresh_playback_snapshot,   *)
(* load_editor_for_track and begin_analysis; the waveform may be cached.   *)
ShowTrack ==
  /\ \E words \in Words, grid \in Grids, markers \in Markers, cursor \in Times,
        waveform \in Waveforms \cup {"analyzing", "unavailable"} :
       shown' = [shown EXCEPT !.words = words, !.waveform = waveform, !.view = EntireView,
                              !.grid = grid, !.markers = markers, !.cursor = cursor]
  /\ dragging' = FALSE
  /\ redraw(TRUE, TRUE)

(* on_analysis_complete, which may clamp the markers *)
ShowAnalysis ==
  /\ shown.waveform = "analyzing"
  /\ \E waveform \in Waveforms \cup {"unavailable"}, markers \in Markers :
       shown' = [shown EXCEPT !.waveform = waveform, !.markers = markers]
  /\ UNCHANGED dragging
  /\ redraw(TRUE, TRUE)

(* on_mouse_wheel, panning, on_double_click *)
ChangeView ==
  /\ Available(shown)
  /\ \E view \in Views : shown' = [shown EXCEPT !.view = view]
  /\ UNCHANGED dragging
  /\ redraw_waveform

RedrawOfAll == redraw(TRUE, TRUE)   \* mutant

RedrawOfGrid == redraw(FALSE, TRUE)

(* Tempo, offset, snapping: an accepted value moves the grid lines. *)
ChangeGrid ==
  /\ \E grid \in Grids, words \in Words :
       shown' = [shown EXCEPT !.grid = grid, !.words = words]
  /\ UNCHANGED dragging
  /\ RedrawOfGrid

(* Set IN and Set OUT *)
MoveMarker ==
  /\ \E markers \in Markers, words \in Words :
       shown' = [shown EXCEPT !.markers = markers, !.words = words]
  /\ UNCHANGED dragging
  /\ redraw(FALSE, FALSE)

(* refresh_playback_snapshot, and every handler that only gives feedback:  *)
(* rejected values, taps, the loop going on and off.                       *)
ChangeWords ==
  /\ \E words \in Words, cursor \in Times :
       shown' = [shown EXCEPT !.words = words, !.cursor = cursor]
  /\ UNCHANGED dragging
  /\ redraw(FALSE, FALSE)

------------------------------------------------------------------------------
GrabMarker ==
  /\ Available(shown) /\ ~ dragging
  /\ \E m \in {"in", "out"} : ColumnOf(shown.markers[m], shown) # Absent
  /\ dragging' = TRUE
  /\ \E words \in Words : shown' = [shown EXCEPT !.words = words]
  /\ redraw(FALSE, FALSE)

MarkerStrip(time) == {ColumnOf(time, shown)}

StripsNewOnly(old, new) == MarkerStrip(new)   \* mutant

StripsOf(old, new) == MarkerStrip(old) \cup MarkerStrip(new)

InOrder(markers) == markers.in < markers.out

(* on_mouse_move: redraw_marker_drag.  A reason to turn the loop off gives *)
(* feedback besides, as ChangeWords does.                                  *)
DragMarker ==
  /\ dragging
  /\ \E m \in {"in", "out"}, time \in Times :
       /\ time # shown.markers[m]
       /\ InOrder([shown.markers EXCEPT ![m] = time])
       /\ shown' = [shown EXCEPT !.markers[m] = time]
       /\ redraw_strips(StripsOf(shown.markers[m], time))
  /\ UNCHANGED dragging

(* on_left_button_up, or on_capture_lost, which restores the markers *)
EndDrag ==
  /\ dragging
  /\ dragging' = FALSE
  /\ \E words \in Words, markers \in Markers :
       shown' = [shown EXCEPT !.words = words, !.markers = markers]
  /\ redraw(FALSE, FALSE)

(* set_playback_position: the strips of the old and the new cursor column *)
Play ==
  /\ \E time \in Times : shown' = [shown EXCEPT !.cursor = time]
  /\ LET from == ColumnOf(shown.cursor, shown)
         to   == ColumnOf(shown'.cursor, shown)
     IN  redraw_strips(IF from = to THEN {} ELSE {from, to})
  /\ UNCHANGED dragging

------------------------------------------------------------------------------
(* WM_SIZE and WM_DPICHANGED *)
Resize ==
  /\ \E look \in Looks : shown' = [shown EXCEPT !.look = look]
  /\ DiscardWaveformLayer
  /\ screen' = Invalidated(Window)
  /\ UNCHANGED dragging

(* notify: colours or font *)
ChangeLook ==
  /\ \E look \in Looks : shown' = [shown EXCEPT !.look = look]
  /\ UNCHANGED dragging
  /\ redraw(TRUE, TRUE)

(* Windows uncovers a part. *)
Expose ==
  /\ \E part \in Window : screen' = Invalidated({part})
  /\ UNCHANGED <<shown, dragging, layers>>

------------------------------------------------------------------------------
Usable(layer, dirty) == layer # Absent /\ ~ dirty

(* The editor layer is made anew whenever the waveform layer is. *)
EditorLayerUsable ==
  /\ Usable(waveform_layer, waveform_layer_dirty)
  /\ Usable(editor_layer, editor_layer_dirty)

(* ensure_editor_layer and, in it, ensure_waveform_layer, each of which    *)
(* may fail to make a bitmap.                                              *)
EnsureLayers(waveform_made, editor_made) ==
  LET keeps == Usable(waveform_layer, waveform_layer_dirty) IN
  /\ waveform_layer' = IF keeps THEN waveform_layer
                       ELSE IF waveform_made THEN WaveformLayer(shown) ELSE Absent
  /\ waveform_layer_dirty' = (~ keeps /\ ~ waveform_made)
  /\ editor_layer' = IF EditorLayerUsable THEN editor_layer
                     ELSE IF waveform_layer' # Absent /\ editor_made
                       THEN WithGrid(waveform_layer', shown) ELSE Absent
  /\ editor_layer_dirty' = (editor_layer' = Absent)

(* paint and paint_waveform, clipped to what is invalid.  Without an       *)
(* editor layer the waveform and the grid are drawn directly.              *)
Paint ==
  /\ \E part \in Window : screen[part] = Invalid
  /\ \E waveform_made, editor_made \in BOOLEAN : EnsureLayers(waveform_made, editor_made)
  /\ LET layer == IF editor_layer' # Absent THEN editor_layer'
                  ELSE WithGrid(WaveformLayer(shown), shown)
     IN  screen' = [part \in Window |-> IF screen[part] = Invalid
                                        THEN Picture(part, layer, shown) ELSE screen[part]]
  /\ UNCHANGED <<shown, dragging>>

------------------------------------------------------------------------------
PaintingNext ==
  \/ ClearTrack \/ ShowTrack \/ ShowAnalysis
  \/ ChangeView \/ ChangeGrid \/ MoveMarker \/ ChangeWords
  \/ GrabMarker \/ DragMarker \/ EndDrag \/ Play
  \/ Resize \/ ChangeLook \/ Expose \/ Paint

PaintingSpec == PaintingInit /\ [][PaintingNext]_painting_vars

------------------------------------------------------------------------------
PaintingTypeOK ==
  /\ shown \in Shown /\ dragging \in BOOLEAN
  /\ waveform_layer_dirty \in BOOLEAN /\ editor_layer_dirty \in BOOLEAN
  /\ waveform_layer # Absent => DOMAIN waveform_layer = {"look", "waveform", "view"}
  /\ editor_layer # Absent => DOMAIN editor_layer = {"base", "grid"}

(* What is on screen and not waiting to be painted is what the panel holds *)
(* now, whatever was cached, invalidated in parts or failed to be cached   *)
(* on the way.  Only the numbers of a marker that is being dragged wait:   *)
(* drags "refresh textual values on release" (docs/ARCHITECTURE.md:241).   *)
ScreenIsCurrent ==
  \A part \in Window :
    \/ screen[part] = Invalid
    \/ screen[part] = Picture(part, WithGrid(WaveformLayer(shown), shown), shown)
    \/ /\ part = TextPart /\ dragging
       /\ \E markers \in Markers : screen[part] = Text([shown EXCEPT !.markers = markers])

(* A clean layer can be shown as it is: it is what drawing it again would  *)
(* give.  A new paint of any part relies on that.                          *)
CleanLayersAreCurrent ==
  /\ Usable(waveform_layer, waveform_layer_dirty) => waveform_layer = WaveformLayer(shown)
  /\ EditorLayerUsable => editor_layer = WithGrid(WaveformLayer(shown), shown)

(* "Marker edits therefore do not rebuild the grid, waveform analysis or   *)
(* waveform bitmap" (README.md:54), nor does playback; "BPM and phase      *)
(* changes invalidate this grid layer without rebuilding the waveform      *)
(* base" (docs/ARCHITECTURE.md:236).                                       *)
EditsKeepTheWaveform ==
  [][/\ shown.waveform = shown'.waveform /\ shown.look = shown'.look
     /\ (shown.grid # shown'.grid \/ shown.markers # shown'.markers
         \/ shown.cursor # shown'.cursor)
     /\ ~ (ShowTrack \/ ClearTrack)
     => /\ waveform_layer' = waveform_layer /\ waveform_layer_dirty' = waveform_layer_dirty
        /\ shown.grid = shown'.grid =>
             editor_layer' = editor_layer /\ editor_layer_dirty' = editor_layer_dirty]_painting_vars

(* What is shown, and what is kept to be shown again, is current.          *)
ScreenIsRight == PaintingTypeOK /\ ScreenIsCurrent /\ CleanLayersAreCurrent
==============================================================================
