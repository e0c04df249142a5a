---------------------------- MODULE PanelParts_proofs ----------------------------
(***************************************************************************)
(* Four of the parts of a panel that MCPanelParts runs.                    *)
(*                                                                         *)
(* PanelView, for every length, zoom, graph and sequence of mouse          *)
(* messages: the view stays a part of the track, the mouse is captured     *)
(* exactly while something is under way, a drag that is released is kept   *)
(* and one that loses the capture is undone, and nothing but a click       *)
(* seeks.  The inductive invariant adds what a press and the interaction   *)
(* it began have to do with each other: while something is under way the   *)
(* button is down and the window there, and a pan that is only pending has *)
(* not moved.                                                              *)
(*                                                                         *)
(* PanelPainting, for any looks, words, grids, waveforms, views and number *)
(* of columns: what is on screen and not invalid is what the panel holds   *)
(* now, a clean cached layer can be shown as it is, and edits leave the    *)
(* waveform layer alone.  The three invariants together are inductive: the *)
(* screen relies on clean layers when it is painted, and the layers on     *)
(* nothing but the flags.  A handler is right when it invalidates every    *)
(* part that it makes look different, so each is compared with what its    *)
(* parts were painted from.                                                *)
(*                                                                         *)
(* EditorControls, for any tracks, tempi, taps and input: the fields tell  *)
(* of the engine and the present track, values are rounded once however    *)
(* often they are read back, and the tap tempo keeps the run of taps.      *)
(*                                                                         *)
(* GridLines, for every track, view, graph, tempo, meter, offset and       *)
(* subdivision: the lines drawn are those of the offset, no two share a    *)
(* column, and a view that moves leaves them on the track.  The invariant  *)
(* only says that the engine is valid and that the screen was drawn from   *)
(* what the panel holds; the rest is what the drawing computes.  All of it *)
(* follows from one fact: the lines drawn are those of the indices in view *)
(* that are multiples of one number, the grain, which is 1, those of a     *)
(* beat or a multiple of those of a bar.  Quotients, remainders and        *)
(* products have names in these proofs, and are expanded only where a step *)
(* is about them.                                                          *)
(***************************************************************************)
EXTENDS PanelView, PanelPainting, EditorControls, GridLines, SequenceTheorems,
        FiniteSetTheorems, TLAPS

------------------------------------------------------------------------------
(* The mouse: the inductive invariant *)

PressUnderWay ==
  /\ panel.interaction # "none" => button /\ window
  /\ panel.interaction = "pending_pan" => press.on = "pending_pan" /\ ~ press.moved

IInv == TypeOK /\ ViewIsPart /\ CaptureWhileInteracting /\ PressUnderWay

Interaction == MarkerDrag \cup {"none", "pending_pan", "panning"}

PanelType == [interaction : Interaction, captured : BOOLEAN, markers : MarkersType]

------------------------------------------------------------------------------
(* Arithmetic *)

LEMMA QuotientIsInt == ASSUME NEW a \in Int PROVE a \div GraphWidth \in Int
BY ViewAssumption

(* A part x of GraphWidth parts of w is at most w. *)
LEMMA PartOfWidth ==
  ASSUME NEW x \in 0 .. GraphWidth, NEW w \in Nat
  PROVE  (x * w) \div GraphWidth \in 0 .. w
<1> DEFINE q == (x * w) \div GraphWidth
<1>1. GraphWidth \in Nat \ {0}
  BY ViewAssumption
<1>2. q \in Int /\ q >= 0 /\ GraphWidth * q <= x * w
  BY <1>1
<1>3. x * w <= GraphWidth * w
  BY <1>1
<1>4. q <= w
  <2>1. SUFFICES ASSUME q >= w + 1 PROVE FALSE
    BY <1>2
  <2> HIDE DEF q
  <2>2. GraphWidth * q >= GraphWidth * (w + 1)
    BY <1>1, <1>2, <2>1
  <2>3. GraphWidth * (w + 1) = GraphWidth * w + GraphWidth
    BY <1>1
  <2>4. x * w \in Int /\ GraphWidth * w \in Int /\ GraphWidth * q \in Int
    BY <1>1, <1>2
  <2> QED
    BY <1>1, <1>2, <1>3, <2>2, <2>3, <2>4
<1> QED
  BY <1>2, <1>4

LEMMA PlaceInView ==
  ASSUME NEW v \in View, IsPart(v), NEW x \in Int
  PROVE  Place(x, v) \in 0 .. Full
<1>1. ClampTo(x, 0, GraphWidth) \in 0 .. GraphWidth
  BY ViewAssumption DEF ClampTo
<1>2. v.begin \in Int /\ v.end \in Int /\ Full \div MaximumZoom \in Nat
  BY ViewAssumption DEF View
<1>3. Width(v) \in Nat
  BY <1>2 DEF IsPart, Width
<1>4. (ClampTo(x, 0, GraphWidth) * Width(v)) \div GraphWidth \in 0 .. Width(v)
  BY <1>1, <1>3, PartOfWidth
<1> QED
  BY <1>2, <1>4, ViewAssumption DEF Place, IsPart, Width

(* A view of an allowed width that begins where there is room for it *)
LEMMA FittedIsPart ==
  ASSUME NEW width \in Int, Full \div MaximumZoom <= width, width <= Full, NEW n \in Int
  PROVE  LET begin == ClampTo(n, 0, Full - width)
             v     == [begin |-> begin, end |-> begin + width]
         IN  v \in View /\ IsPart(v)
<1>1. Full \in Nat \ {0}
  BY ViewAssumption
<1>2. ClampTo(n, 0, Full - width) \in 0 .. Full - width
  BY <1>1 DEF ClampTo
<1> DEFINE begin == ClampTo(n, 0, Full - width)
<1> HIDE DEF begin
<1>3. begin \in Int /\ 0 <= begin /\ begin <= Full - width
  BY <1>2, <1>1 DEF begin
<1>4. LET v == [begin |-> begin, end |-> begin + width] IN v \in View /\ IsPart(v)
  BY <1>1, <1>3 DEF View, IsPart, Width
<1> QED
  BY <1>4 DEF begin

LEMMA NarrowestWidth == Full \div MaximumZoom \in 0 .. Full
BY ViewAssumption

LEMMA OverviewIsPart == Overview \in View /\ IsPart(Overview)
BY ViewAssumption, NarrowestWidth DEF Overview, View, IsPart, Width

LEMMA ZoomedIsPart ==
  ASSUME NEW v \in View, NEW x \in Int, NEW turn \in Turns
  PROVE  Zoomed(v, x, turn) \in View /\ IsPart(Zoomed(v, x, turn))
<1> DEFINE width == ClampTo((Width(v) * turn[1]) \div turn[2], Full \div MaximumZoom, Full)
<1>1. v.begin \in Int /\ Width(v) \in Int
  BY DEF View, Width
<1>2. turn[1] \in Nat \ {0} /\ turn[2] \in Nat \ {0}
  BY ViewAssumption
<1>3. (Width(v) * turn[1]) \div turn[2] \in Int
  <2>1. Width(v) * turn[1] \in Int
    BY <1>1, <1>2
  <2> QED
    BY <2>1, <1>2
<1>4. width \in Int /\ Full \div MaximumZoom <= width /\ width <= Full
  BY <1>3, NarrowestWidth, ViewAssumption DEF ClampTo
<1> HIDE DEF width
<1> DEFINE n == v.begin + (x * (Width(v) - width)) \div GraphWidth
<1>5. n \in Int
  <2>1. x * (Width(v) - width) \in Int
    BY <1>1, <1>4
  <2> QED
    BY <2>1, <1>1, QuotientIsInt
<1> HIDE DEF n
<1>6. LET begin == ClampTo(n, 0, Full - width)
          u     == [begin |-> begin, end |-> begin + width]
      IN  u \in View /\ IsPart(u)
  BY <1>4, <1>5, FittedIsPart
<1> QED
  BY <1>6 DEF Zoomed, ZoomedBegin, width, n

LEMMA PannedIsPart ==
  ASSUME TypeOK, ViewIsPart, NEW x \in Int
  PROVE  Panned(x) \in View /\ IsPart(Panned(x))
<1> DEFINE width == Width(drag.view)
           n     == drag.view.begin - ((x - drag.x) * width) \div GraphWidth
<1>1. drag.view.begin \in Int /\ drag.view.end \in Int /\ width \in Int /\ drag.x \in Int
  BY DEF TypeOK, View, Width
<1>2. Full \div MaximumZoom <= width /\ width <= Full
  BY <1>1, ViewAssumption DEF ViewIsPart, IsPart, Width
<1> HIDE DEF width
<1>3. n \in Int
  <2>1. (x - drag.x) * width \in Int
    BY <1>1
  <2> QED
    BY <2>1, <1>1, QuotientIsInt
<1> HIDE DEF n
<1>4. LET begin == ClampTo(n, 0, Full - width)
          u     == [begin |-> begin, end |-> begin + width]
      IN  u \in View /\ IsPart(u)
  BY <1>1, <1>2, <1>3, FittedIsPart
<1> QED
  BY <1>4 DEF Panned, width, n

------------------------------------------------------------------------------
(* What the functions make of a panel *)

(* Ending: nothing is under way, the capture is as asked, and the markers  *)
(* are kept only when they were not being dragged.                         *)
LEMMA CancelledPanel ==
  ASSUME TypeOK, NEW p \in PanelType, NEW release \in BOOLEAN
  PROVE  /\ Cancelled(p, release) \in PanelType
         /\ Cancelled(p, release).interaction = "none"
         /\ release => ~ Cancelled(p, release).captured
         /\ p.interaction \in MarkerDrag => Cancelled(p, release).markers = drag.markers
BY DEF TypeOK, Cancelled, Restored, ReleaseCapture, OnCaptureLost, PanelType, Interaction, MarkerDrag

LEMMA CompletedPanel ==
  ASSUME NEW p \in PanelType
  PROVE  /\ Completed(p) \in PanelType
         /\ Completed(p).interaction = "none" /\ ~ Completed(p).captured
         /\ Completed(p).markers = p.markers
BY DEF Completed, ReleaseCapture, OnCaptureLost, Restored, PanelType, Interaction, MarkerDrag

LEMMA LostPanel ==
  ASSUME TypeOK, NEW p \in PanelType
  PROVE  LET lost == OnCaptureLost([p EXCEPT !.captured = FALSE]) IN
         /\ lost \in PanelType
         /\ lost.interaction = "none" /\ ~ lost.captured
         /\ p.interaction \in MarkerDrag => lost.markers = drag.markers
BY DEF TypeOK, OnCaptureLost, Restored, PanelType, Interaction, MarkerDrag

LEMMA DraggedPanel ==
  ASSUME TypeOK, ViewIsPart, NEW p \in PanelType, NEW x \in Int
  PROVE  /\ Dragged(p, x) \in PanelType
         /\ Dragged(p, x).interaction = p.interaction
         /\ Dragged(p, x).captured = p.captured
<1>1. MarkerPlace(x) \in 0 .. Full
  BY PlaceInView DEF TypeOK, ViewIsPart, MarkerPlace
<1> QED
  BY <1>1 DEF Dragged, PanelType, MarkersType

LEMMA HitOfPress == Hit \in MarkerDrag \cup {"pending_pan"}
BY DEF Hit, MarkerDrag

------------------------------------------------------------------------------
LEMMA Initially == Init => IInv
<1> SUFFICES ASSUME Init PROVE IInv
  OBVIOUS
<1>1. \A m \in MarkerPairs : m \in MarkersType
  BY ViewAssumption DEF MarkersType
<1>2. TypeOK
  <2>1. PICK markers \in MarkerPairs :
          /\ panel = [interaction |-> "none", captured |-> FALSE, markers |-> markers]
          /\ saved = markers
          /\ drag = [x |-> 0, view |-> Overview, markers |-> markers]
    BY DEF Init
  <2>2. markers \in MarkersType
    BY <1>1
  <2>3. /\ panel \in [interaction : MarkerDrag \cup {"none", "pending_pan", "panning"},
                      captured : BOOLEAN, markers : MarkersType]
        /\ drag \in [x : Int, view : View, markers : MarkersType]
        /\ saved \in MarkersType
    BY <2>1, <2>2, OverviewIsPart
  <2>4. view \in View /\ waveform \in BOOLEAN /\ window \in BOOLEAN /\ button \in BOOLEAN
    BY OverviewIsPart DEF Init
  <2>5. pointer \in Int /\ seek \in Int \cup {None} /\ events \in 0 .. MaxEvents
    BY ViewAssumption DEF Init
  <2>6. press \in [on : MarkerDrag \cup {"nothing", "pending_pan"}, moved : BOOLEAN]
    BY DEF Init, NoPress
  <2> QED
    BY <2>3, <2>4, <2>5, <2>6 DEF TypeOK
<1> QED
  BY <1>2, OverviewIsPart DEF Init, IInv, ViewIsPart, CaptureWhileInteracting, PressUnderWay

LEMMA PanelTyped == TypeOK => panel \in PanelType
BY DEF TypeOK, PanelType, Interaction

LEMMA MovePreserves == IInv /\ MouseMove => IInv'
<1> SUFFICES ASSUME IInv, MouseMove PROVE IInv'
  OBVIOUS
<1>1. PICK x \in Pixels :
        /\ pointer' = x
        /\ press' = [press EXCEPT !.moved = @ \/ (button /\ Distance(x, drag.x) >= DragThreshold)]
        /\ IF panel.interaction = "none" \/ ~ panel.captured THEN UNCHANGED <<panel, view>>
           ELSE IF panel.interaction \in MarkerDrag
           THEN panel' = Dragged(panel, x) /\ UNCHANGED view
           ELSE /\ panel' = [panel EXCEPT !.interaction = Panning(panel, x)]
                /\ view' = IF panel'.interaction = "panning" THEN Panned(x) ELSE view
  BY DEF MouseMove
<1>2. x \in Int
  BY ViewAssumption
<1>3. /\ events' \in 0 .. MaxEvents /\ seek' = None
      /\ UNCHANGED <<drag, waveform, window, saved, button>>
  BY ViewAssumption DEF MouseMove, Event, IInv, TypeOK
<1>4. panel \in PanelType
  BY PanelTyped DEF IInv
<1>5. press' \in [on : MarkerDrag \cup {"nothing", "pending_pan"}, moved : BOOLEAN] /\ press'.on = press.on
  <2>1. (button /\ Distance(x, drag.x) >= DragThreshold) \in BOOLEAN
    OBVIOUS
  <2> QED
    BY <1>1, <2>1 DEF IInv, TypeOK
<1>6. CASE panel.interaction = "none" \/ ~ panel.captured
  <2>1. panel' = panel /\ view' = view /\ panel.interaction = "none"
    BY <1>1, <1>6 DEF IInv, CaptureWhileInteracting
  <2> QED
    BY <1>1, <1>2, <1>3, <1>5, <2>1
       DEF IInv, TypeOK, ViewIsPart, CaptureWhileInteracting, PressUnderWay
<1>7. CASE panel.interaction \in MarkerDrag /\ panel.captured
  <2>1. /\ panel' \in PanelType /\ panel'.interaction = panel.interaction
        /\ panel'.captured = panel.captured /\ view' = view
    BY <1>1, <1>2, <1>4, <1>7, DraggedPanel DEF IInv, MarkerDrag
  <2> QED
    BY <1>1, <1>2, <1>3, <1>5, <1>7, <2>1
       DEF IInv, TypeOK, ViewIsPart, CaptureWhileInteracting, PressUnderWay, PanelType,
           Interaction, MarkerDrag
<1>8. CASE panel.interaction \in {"pending_pan", "panning"} /\ panel.captured
  <2>1. /\ panel' = [panel EXCEPT !.interaction = Panning(panel, x)]
        /\ view' = IF panel'.interaction = "panning" THEN Panned(x) ELSE view
    BY <1>1, <1>8 DEF MarkerDrag
  <2>2. Panning(panel, x) \in {"pending_pan", "panning"}
    BY <1>8 DEF Panning
  <2>3. /\ panel' \in PanelType /\ panel'.captured /\ panel'.interaction = Panning(panel, x)
    BY <2>1, <2>2, <1>4, <1>8 DEF PanelType, Interaction
  <2>4. view' \in View /\ IsPart(view')
    BY <2>1, <1>2, PannedIsPart DEF IInv, TypeOK, ViewIsPart
  <2>5. Panning(panel, x) = "pending_pan" => panel.interaction = "pending_pan" /\ press' = press
    <3>1. SUFFICES ASSUME Panning(panel, x) = "pending_pan"
                   PROVE  panel.interaction = "pending_pan" /\ press' = press
      OBVIOUS
    <3>2. panel.interaction = "pending_pan" /\ ~ (Distance(x, drag.x) >= DragThreshold)
      BY <1>8, <3>1 DEF Panning
    <3>3. press.moved \in BOOLEAN /\ press' = [press EXCEPT !.moved = press.moved]
      BY <1>1, <3>2 DEF IInv, TypeOK, PressUnderWay
    <3> QED
      BY <3>2, <3>3 DEF IInv, TypeOK
  <2>6. PressUnderWay'
    BY <2>3, <2>5, <1>3, <1>8 DEF IInv, PressUnderWay
  <2>7. CaptureWhileInteracting' /\ ViewIsPart'
    BY <2>2, <2>3, <2>4, <1>3 DEF IInv, CaptureWhileInteracting, ViewIsPart
  <2> QED
    BY <1>1, <1>2, <1>3, <1>5, <2>3, <2>4, <2>6, <2>7
       DEF IInv, TypeOK, PanelType, Interaction
<1> QED
  BY <1>4, <1>6, <1>7, <1>8 DEF PanelType, Interaction

LEMMA ButtonPreserves == IInv /\ (LeftButtonDown \/ LeftButtonUp) => IInv'
<1>1. ASSUME IInv, LeftButtonDown PROVE IInv'
  <2>1. /\ events' \in 0 .. MaxEvents /\ button' = TRUE /\ ~ button /\ seek' = None /\ window
        /\ UNCHANGED <<view, waveform, window, saved, pointer>>
    BY <1>1, ViewAssumption DEF LeftButtonDown, Event, IInv, TypeOK
  <2>2. panel \in PanelType /\ panel.interaction = "none" /\ ~ panel.captured
    BY <1>1, <2>1, PanelTyped DEF IInv, PressUnderWay, CaptureWhileInteracting
  <2>3. CASE waveform /\ InGraph(pointer)
    <3>1. /\ panel' = [panel EXCEPT !.interaction = Hit, !.captured = TRUE]
          /\ drag' = [x |-> pointer, view |-> view,
                      markers |-> IF Hit \in MarkerDrag THEN panel.markers ELSE drag.markers]
          /\ press' = [on |-> Hit, moved |-> FALSE]
      BY <1>1, <2>3 DEF LeftButtonDown
    <3>2. panel' \in PanelType /\ panel'.interaction = Hit /\ panel'.captured /\ Hit # "none"
      BY <3>1, <2>2, HitOfPress DEF PanelType, Interaction, MarkerDrag
    <3>3. drag' \in [x : Int, view : View, markers : MarkersType] /\ IsPart(drag'.view)
      BY <1>1, <3>1, <2>2 DEF IInv, TypeOK, ViewIsPart, PanelType
    <3> QED
      BY <1>1, <2>1, <3>1, <3>2, <3>3, HitOfPress
         DEF IInv, TypeOK, ViewIsPart, CaptureWhileInteracting, PressUnderWay, PanelType,
             Interaction, MarkerDrag
  <2>4. CASE ~ (waveform /\ InGraph(pointer))
    <3>1. press' = NoPress /\ UNCHANGED <<panel, drag>>
      BY <1>1, <2>4 DEF LeftButtonDown
    <3> QED
      BY <1>1, <2>1, <2>2, <3>1
         DEF IInv, TypeOK, ViewIsPart, CaptureWhileInteracting, PressUnderWay, NoPress
  <2> QED
    BY <2>3, <2>4
<1>2. ASSUME IInv, LeftButtonUp PROVE IInv'
  <2>1. /\ events' \in 0 .. MaxEvents /\ button' = FALSE
        /\ UNCHANGED <<view, drag, waveform, window, pointer, press>>
    BY <1>2, ViewAssumption DEF LeftButtonUp, Event, IInv, TypeOK
  <2>2. panel' \in PanelType /\ panel'.interaction = "none" /\ ~ panel'.captured
    BY <1>2, PanelTyped, CompletedPanel
       DEF LeftButtonUp, IInv, CaptureWhileInteracting
  <2>3. seek' \in Int \cup {None}
    <3>1. Place(pointer, view) \in 0 .. Full
      BY <1>2, PlaceInView DEF IInv, TypeOK, ViewIsPart
    <3> QED
      BY <1>2, <3>1, ViewAssumption DEF LeftButtonUp, SeekAt
  <2>4. saved' \in MarkersType
    BY <1>2, <2>2 DEF LeftButtonUp, IInv, TypeOK, PanelType
  <2> QED
    BY <1>2, <2>1, <2>2, <2>3, <2>4
       DEF IInv, TypeOK, ViewIsPart, CaptureWhileInteracting, PressUnderWay, PanelType, Interaction
<1> QED
  BY <1>1, <1>2

(* Endings that the user did not ask for *)
LEMMA EndingPreserves == IInv /\ (CaptureLost \/ ReleaseElsewhere \/ NewTrack \/ CloseWindow) => IInv'
<1>1. ASSUME IInv, CaptureLost PROVE IInv'
  <2>1. panel' \in PanelType /\ panel'.interaction = "none" /\ ~ panel'.captured
    BY <1>1, PanelTyped, LostPanel DEF CaptureLost, IInv
  <2> QED
    BY <1>1, <2>1, ViewAssumption
       DEF CaptureLost, Event, IInv, TypeOK, ViewIsPart, CaptureWhileInteracting,
           PressUnderWay, PanelType, Interaction
<1>2. ASSUME IInv, ReleaseElsewhere PROVE IInv'
  BY <1>2 DEF ReleaseElsewhere, IInv, TypeOK, ViewIsPart, CaptureWhileInteracting, PressUnderWay
<1>3. ASSUME IInv, NewTrack PROVE IInv'
  <2>1. PICK markers \in MarkerPairs :
          panel' = [Cancelled(panel, window) EXCEPT !.markers = markers] /\ saved' = markers
    BY <1>3 DEF NewTrack
  <2>2. markers \in MarkersType
    BY ViewAssumption DEF MarkersType
  <2>3. /\ Cancelled(panel, window) \in PanelType
        /\ Cancelled(panel, window).interaction = "none"
        /\ window => ~ Cancelled(panel, window).captured
    BY <1>3, PanelTyped, CancelledPanel DEF IInv, TypeOK
  <2>4. ~ Cancelled(panel, window).captured
    <3>1. CASE window
      BY <2>3, <3>1
    <3>2. CASE ~ window
      <4>1. ~ panel.captured /\ panel \in PanelType
        BY <3>2, <1>3, PanelTyped DEF IInv, PressUnderWay, CaptureWhileInteracting
      <4> QED
        BY <3>2, <4>1, <1>3 DEF Cancelled, Restored, PanelType, IInv, TypeOK
    <3> QED
      BY <3>1, <3>2
  <2>5. panel' \in PanelType /\ panel'.interaction = "none" /\ ~ panel'.captured
    BY <2>1, <2>2, <2>3, <2>4 DEF PanelType
  <2> QED
    BY <1>3, <2>1, <2>2, <2>5, OverviewIsPart, ViewAssumption
       DEF NewTrack, Event, IInv, TypeOK, ViewIsPart, CaptureWhileInteracting, PressUnderWay,
           PanelType, Interaction, NoPress
<1>4. ASSUME IInv, CloseWindow PROVE IInv'
  <2>1. /\ Cancelled(panel, FALSE) \in PanelType
        /\ Cancelled(panel, FALSE).interaction = "none"
    BY <1>4, PanelTyped, CancelledPanel DEF IInv
  <2>2. panel' \in PanelType /\ panel'.interaction = "none" /\ ~ panel'.captured
    BY <1>4, <2>1 DEF CloseWindow, PanelType
  <2> QED
    BY <1>4, <2>2
       DEF CloseWindow, IInv, TypeOK, ViewIsPart, CaptureWhileInteracting, PressUnderWay,
           PanelType, Interaction
<1> QED
  BY <1>1, <1>2, <1>3, <1>4

LEMMA ViewPreserves == IInv /\ (MouseWheel \/ DoubleClick \/ AnalysisComplete) => IInv'
<1>1. ASSUME IInv, MouseWheel PROVE IInv'
  <2>1. view' \in View /\ IsPart(view')
    BY <1>1, ZoomedIsPart DEF MouseWheel, IInv, TypeOK
  <2> QED
    BY <1>1, <2>1, ViewAssumption
       DEF MouseWheel, Event, IInv, TypeOK, ViewIsPart, CaptureWhileInteracting, PressUnderWay
<1>2. ASSUME IInv, DoubleClick PROVE IInv'
  <2>1. view' \in View /\ IsPart(view')
    BY <1>2, OverviewIsPart DEF DoubleClick, IInv, TypeOK, ViewIsPart
  <2>2. panel.interaction = "none"
    BY <1>2 DEF DoubleClick, IInv, PressUnderWay
  <2> QED
    BY <1>2, <2>1, <2>2, ViewAssumption
       DEF DoubleClick, Event, IInv, TypeOK, ViewIsPart, CaptureWhileInteracting,
           PressUnderWay, NoPress
<1>3. ASSUME IInv, AnalysisComplete PROVE IInv'
  BY <1>3 DEF AnalysisComplete, IInv, TypeOK, ViewIsPart, CaptureWhileInteracting, PressUnderWay
<1> QED
  BY <1>1, <1>2, <1>3

(* The inductive invariant. *)
THEOREM Invariance == Spec => []IInv
<1>1. IInv /\ [Next]_vars => IInv'
  <2>1. ASSUME IInv, UNCHANGED vars PROVE IInv'
    BY <2>1 DEF vars, IInv, TypeOK, ViewIsPart, CaptureWhileInteracting, PressUnderWay
  <2> QED
    BY <2>1, MovePreserves, ButtonPreserves, EndingPreserves, ViewPreserves DEF Next
<1> QED
  BY Initially, <1>1, PTL DEF Spec

------------------------------------------------------------------------------
(* Markers and seeks stay on the track, whatever the view. *)
THEOREM TypeCorrect == Spec => []TypeOK
BY Invariance, PTL DEF IInv

(* Zoom and pan never leave the track nor exceed the maximum zoom. *)
THEOREM ViewStaysPart == Spec => []ViewIsPart
BY Invariance, PTL DEF IInv

(* The mouse is never left captured, and no interaction goes on without.   *)
THEOREM CaptureIsHeld == Spec => []CaptureWhileInteracting
BY Invariance, PTL DEF IInv

(* All of it together, which the runs check.                               *)
THEOREM ViewStaysRight == Spec => []ViewIsRight
<1>1. IInv => ViewIsRight
  BY DEF IInv, ViewIsRight
<1> QED
  BY <1>1, Invariance, PTL

(* Released: kept, in spite of the nested on_capture_lost.  Lost: undone.  *)
THEOREM DragsEnd == Spec => DragEndsAsMeant
<1> DEFINE P == panel.interaction \in MarkerDrag /\ panel'.interaction = "none" =>
                  IF button' THEN NewTrack \/ (panel'.markers = drag.markers /\ saved' = saved)
                  ELSE panel'.markers = panel.markers /\ saved' \in {saved, panel'.markers}
<1>1. IInv /\ [Next]_vars => [P]_vars
  <2>1. SUFFICES ASSUME IInv, Next, panel.interaction \in MarkerDrag,
                        panel'.interaction = "none"
                 PROVE  IF button' THEN NewTrack \/ (panel'.markers = drag.markers /\ saved' = saved)
                        ELSE panel'.markers = panel.markers /\ saved' \in {saved, panel'.markers}
    OBVIOUS
  <2>2. panel \in PanelType /\ button /\ panel.captured /\ panel.interaction # "none"
    BY <2>1, PanelTyped DEF IInv, PressUnderWay, CaptureWhileInteracting, MarkerDrag
  <2>3. CASE LeftButtonUp
    BY <2>1, <2>2, <2>3, CompletedPanel DEF LeftButtonUp
  <2>4. CASE CaptureLost
    BY <2>1, <2>2, <2>4, LostPanel DEF CaptureLost, IInv
  <2>5. CASE CloseWindow
    <3>1. Cancelled(panel, FALSE) \in PanelType /\ Cancelled(panel, FALSE).markers = drag.markers
      BY <2>1, <2>2, CancelledPanel DEF IInv
    <3> QED
      BY <2>2, <2>5, <3>1 DEF CloseWindow, PanelType
  <2>6. CASE MouseMove
    <3>1. PICK x \in Pixels : panel' = Dragged(panel, x)
      BY <2>1, <2>2, <2>6 DEF MouseMove
    <3>2. panel'.interaction = panel.interaction
      BY <2>1, <2>2, <3>1, DraggedPanel, ViewAssumption DEF IInv
    <3> QED
      BY <2>1, <2>2, <3>2
  <2>7. CASE NewTrack
    BY <2>2, <2>7 DEF NewTrack
  <2>8. CASE LeftButtonDown \/ DoubleClick \/ ReleaseElsewhere
    BY <2>2, <2>8 DEF LeftButtonDown, DoubleClick, ReleaseElsewhere
  <2>9. CASE MouseWheel \/ AnalysisComplete
    BY <2>1, <2>2, <2>9 DEF MouseWheel, AnalysisComplete
  <2> QED
    BY <2>1, <2>3, <2>4, <2>5, <2>6, <2>7, <2>8, <2>9 DEF Next
<1> QED
  BY <1>1, Invariance, PTL DEF DragEndsAsMeant, Spec

(* A seek is the release of a click, never the end of a drag. *)
THEOREM ClicksSeek == Spec => SeekIsAClick
<1> DEFINE P == seek' # None => press.on = "pending_pan" /\ ~ press.moved /\ panel.captured
<1>1. IInv /\ [Next]_vars => [P]_vars
  <2>1. SUFFICES ASSUME IInv, Next, seek' # None
                 PROVE  press.on = "pending_pan" /\ ~ press.moved /\ panel.captured
    OBVIOUS
  <2>2. LeftButtonUp
    BY <2>1 DEF Next, MouseWheel, DoubleClick, LeftButtonDown, MouseMove, CaptureLost,
                ReleaseElsewhere, NewTrack, AnalysisComplete, CloseWindow
  <2>3. panel.interaction = "pending_pan"
    BY <2>1, <2>2 DEF LeftButtonUp
  <2> QED
    BY <2>1, <2>3 DEF IInv, PressUnderWay, CaptureWhileInteracting
<1> QED
  BY <1>1, Invariance, PTL DEF SeekIsAClick, Spec

------------------------------------------------------------------------------
(* Pixels and places *)

(* Two quotients by the width of the graph make that of the sum, or one less. *)
LEMMA SumOfQuotients ==
  ASSUME NEW a \in Int, NEW b \in Int
  PROVE  (a + b) \div GraphWidth - (a \div GraphWidth + b \div GraphWidth) \in {0, 1}
<1> DEFINE p == a \div GraphWidth
           q == b \div GraphWidth
           r == (a + b) \div GraphWidth
<1>1. GraphWidth \in Nat \ {0}
  BY ViewAssumption
<1>2. p \in Int /\ GraphWidth * p <= a /\ a < GraphWidth * p + GraphWidth
  BY <1>1
<1>3. q \in Int /\ GraphWidth * q <= b /\ b < GraphWidth * q + GraphWidth
  BY <1>1
<1>4. r \in Int /\ GraphWidth * r <= a + b /\ a + b < GraphWidth * r + GraphWidth
  BY <1>1
<1> HIDE DEF p, q, r
<1>5. r >= p + q
  <2>1. SUFFICES ASSUME r + 1 <= p + q PROVE FALSE
    BY <1>2, <1>3, <1>4
  <2>2. GraphWidth * (r + 1) <= GraphWidth * (p + q)
    BY <1>1, <1>2, <1>3, <1>4, <2>1
  <2>3. /\ GraphWidth * (r + 1) = GraphWidth * r + GraphWidth
        /\ GraphWidth * (p + q) = GraphWidth * p + GraphWidth * q
    BY <1>1, <1>2, <1>3, <1>4
  <2>4. GraphWidth * r \in Int /\ GraphWidth * p \in Int /\ GraphWidth * q \in Int
    BY <1>1, <1>2, <1>3, <1>4
  <2> QED
    BY <1>1, <1>2, <1>3, <1>4, <2>2, <2>3, <2>4
<1>6. r <= p + q + 1
  <2>1. SUFFICES ASSUME r >= p + q + 2 PROVE FALSE
    BY <1>2, <1>3, <1>4
  <2>2. GraphWidth * r >= GraphWidth * (p + q + 2)
    BY <1>1, <1>2, <1>3, <1>4, <2>1
  <2>3. GraphWidth * (p + q + 2) = GraphWidth * p + GraphWidth * q + 2 * GraphWidth
    BY <1>1, <1>2, <1>3
  <2>4. GraphWidth * r \in Int /\ GraphWidth * p \in Int /\ GraphWidth * q \in Int
    BY <1>1, <1>2, <1>3, <1>4
  <2> QED
    BY <1>1, <1>2, <1>3, <1>4, <2>2, <2>3, <2>4
<1> QED
  BY <1>2, <1>3, <1>4, <1>5, <1>6 DEF p, q, r

LEMMA ViewHasWidth ==
  ASSUME NEW v \in View, IsPart(v)
  PROVE  Width(v) \in Nat \ {0} /\ Width(v) >= Full \div MaximumZoom
<1>1. Full \div MaximumZoom \in Nat \ {0}
  BY ViewAssumption
<1> QED
  BY <1>1 DEF View, IsPart, Width

(* Rounding to a tick of the track, and from there to a pixel, goes at     *)
(* most one pixel back.                                                    *)
LEMMA ThereAndBack ==
  ASSUME TicksAreFine, NEW w \in Nat \ {0}, w >= Full \div MaximumZoom,
         NEW c \in 0 .. GraphWidth - 1
  PROVE  (((c * w) \div GraphWidth) * (GraphWidth - 1)) \div w \in {c - 1, c}
<1> DEFINE h == GraphWidth - 1
           p == (c * w) \div GraphWidth
           t == (p * h) \div w
<1>1. /\ GraphWidth \in Nat \ {0} /\ h \in Nat /\ GraphWidth = h + 1 /\ c \in Nat /\ c <= h
      /\ Full \div MaximumZoom \in Int
  BY ViewAssumption, NarrowestWidth
<1>2. GraphWidth * h \in Int /\ w >= GraphWidth * h
  BY <1>1 DEF TicksAreFine
<1>3. c * w \in Nat
  BY <1>1
<1>4. p \in Int /\ GraphWidth * p <= c * w /\ c * w < GraphWidth * p + GraphWidth
  BY <1>1, <1>3
<1> HIDE DEF p
<1>5. p \in Nat
  BY <1>1, <1>3, <1>4
<1>6. p * h \in Nat
  BY <1>1, <1>5
<1>7. t \in Int /\ w * t <= p * h /\ p * h < w * t + w
  BY <1>6
<1> HIDE DEF t, h
<1>8. GraphWidth * (p * h) = (GraphWidth * p) * h
  BY <1>1, <1>5
<1>9. t <= c
  <2>1. SUFFICES ASSUME t >= c + 1 PROVE FALSE
    BY <1>1, <1>7
  <2>2. w * t >= w * (c + 1)
    BY <1>1, <1>7, <2>1
  <2>3. w * (c + 1) = c * w + w
    BY <1>1
  <2>4. p * h <= p * GraphWidth
    BY <1>1, <1>5
  <2>5. p * GraphWidth = GraphWidth * p /\ w * t \in Int /\ p * GraphWidth \in Int
    BY <1>1, <1>5, <1>7
  <2> QED
    BY <1>3, <1>4, <1>6, <1>7, <2>2, <2>3, <2>4, <2>5
<1>10. t >= c - 1
  <2>1. SUFFICES ASSUME t + 1 <= c - 1 PROVE FALSE
    BY <1>1, <1>7
  <2>2. w * (t + 1) <= w * (c - 1)
    BY <1>1, <1>7, <2>1
  <2>3. w * (t + 1) = w * t + w /\ w * (c - 1) = c * w - w /\ w * t \in Int
    BY <1>1, <1>7
  <2>4. p * h + 1 <= c * w - w
    BY <1>3, <1>6, <1>7, <2>2, <2>3
  (* Both sides in parts of a pixel *)
  <2>5. GraphWidth * (p * h + 1) <= GraphWidth * (c * w - w)
    BY <1>1, <1>3, <1>6, <2>4
  <2>6. GraphWidth * (p * h + 1) = GraphWidth * (p * h) + GraphWidth
    BY <1>1, <1>6
  <2>7. GraphWidth * (c * w - w) = h * (c * w) + c * w - h * w - w
    BY <1>1, <1>3
  <2>8. (GraphWidth * p) * h >= (c * w - GraphWidth) * h
    BY <1>1, <1>3, <1>4, <1>5
  <2>9. (c * w - GraphWidth) * h = h * (c * w) - GraphWidth * h
    BY <1>1, <1>3
  <2>10. c * w <= h * w
    BY <1>1
  <2>11. /\ h * (c * w) \in Int /\ h * w \in Int /\ GraphWidth * (p * h) \in Int
    BY <1>1, <1>3, <1>6
  <2> QED
    BY <1>1, <1>2, <1>3, <1>8, <2>5, <2>6, <2>7, <2>8, <2>9, <2>10, <2>11
<1> QED
  BY <1>1, <1>7, <1>9, <1>10 DEF h, p, t

(* A place computed from a pixel is drawn within a pixel of it.            *)
LEMMA PlaceIsNear ==
  ASSUME TicksAreFine, NEW v \in View, IsPart(v), NEW x \in Int
  PROVE  LET drawn == TimeX(Place(x, v), v)
         IN  drawn # None /\ Distance(drawn, ClampTo(x, 0, GraphWidth - 1)) <= 1
<1> DEFINE w == Width(v)
           c == ClampTo(x, 0, GraphWidth)
           p == (c * w) \div GraphWidth
<1>1. w \in Nat \ {0} /\ w >= Full \div MaximumZoom
  BY ViewHasWidth
<1>2. GraphWidth \in Nat \ {0}
  BY ViewAssumption
<1>3. c \in 0 .. GraphWidth
  BY <1>2 DEF ClampTo
<1>4. v.begin \in Int /\ v.end = v.begin + w
  BY DEF View, Width
<1> HIDE DEF w
<1>5. p \in 0 .. w
  BY <1>1, <1>3, PartOfWidth
<1>6. Place(x, v) = v.begin + p
  BY DEF Place, w
<1> HIDE DEF p
<1>7. TimeX(Place(x, v), v) = (p * (GraphWidth - 1)) \div w
  <2>1. v.begin <= Place(x, v) /\ Place(x, v) <= v.end /\ Place(x, v) - v.begin = p
    BY <1>1, <1>4, <1>5, <1>6
  <2> QED
    BY <2>1 DEF TimeX, w
<1>8. CASE c = GraphWidth
  <2>1. x >= GraphWidth
    BY <1>2, <1>8 DEF ClampTo
  <2>2. ClampTo(x, 0, GraphWidth - 1) = GraphWidth - 1
    BY <1>2, <2>1 DEF ClampTo
  <2>3. p = w
    <3>1. (GraphWidth * w) \div GraphWidth = w
      <4> DEFINE q == (GraphWidth * w) \div GraphWidth
      <4>1. /\ q \in Int /\ GraphWidth * w \in Int
            /\ GraphWidth * q <= GraphWidth * w /\ GraphWidth * w < GraphWidth * q + GraphWidth
        BY <1>1, <1>2
      <4> HIDE DEF q
      <4>2. GraphWidth * q + GraphWidth = GraphWidth * (q + 1)
        BY <1>2, <4>1
      <4>3. ~ (q >= w + 1) /\ ~ (q + 1 <= w)
        <5>1. ASSUME q >= w + 1 PROVE FALSE
          <6>1. GraphWidth * q >= GraphWidth * (w + 1) /\ GraphWidth * (w + 1) = GraphWidth * w + GraphWidth
            BY <1>1, <1>2, <4>1, <5>1
          <6> QED
            BY <1>2, <4>1, <6>1
        <5>2. ASSUME q + 1 <= w PROVE FALSE
          <6>1. GraphWidth * (q + 1) <= GraphWidth * w
            BY <1>1, <1>2, <4>1, <5>2
          <6> QED
            BY <1>2, <4>1, <4>2, <6>1
        <5> QED
          BY <5>1, <5>2
      <4> QED
        BY <1>1, <4>1, <4>3 DEF q
    <3> QED
      BY <1>8, <3>1 DEF p
  <2>4. (w * (GraphWidth - 1)) \div w = GraphWidth - 1
    <3> DEFINE h == GraphWidth - 1
               q == (w * h) \div w
    <3>1. h \in Nat /\ w * h \in Int
      BY <1>1, <1>2
    <3>2. q \in Int /\ w * q <= w * h /\ w * h < w * q + w
      BY <1>1, <3>1
    <3> HIDE DEF q, h
    <3>3. ~ (q >= h + 1) /\ ~ (q + 1 <= h)
      <4>1. ASSUME q >= h + 1 PROVE FALSE
        <5>1. w * q >= w * (h + 1) /\ w * (h + 1) = w * h + w
          BY <1>1, <3>1, <3>2, <4>1
        <5> QED
          BY <1>1, <3>1, <3>2, <5>1
      <4>2. ASSUME q + 1 <= h PROVE FALSE
        <5>1. w * (q + 1) <= w * h /\ w * (q + 1) = w * q + w
          BY <1>1, <3>1, <3>2, <4>2
        <5> QED
          BY <1>1, <3>1, <3>2, <5>1
      <4> QED
        BY <4>1, <4>2
    <3> QED
      BY <3>1, <3>2, <3>3 DEF q, h
  <2> QED
    BY <1>2, <1>7, <2>2, <2>3, <2>4, ViewAssumption DEF Distance
<1>9. CASE c # GraphWidth
  <2>1. c \in 0 .. GraphWidth - 1 /\ ClampTo(x, 0, GraphWidth - 1) = c
    BY <1>2, <1>3, <1>9 DEF ClampTo
  <2>2. (p * (GraphWidth - 1)) \div w \in {c - 1, c}
    BY <1>1, <2>1, ThereAndBack DEF p
  <2>3. c \in Int /\ c - 1 \in Int
    BY <1>2, <2>1
  <2> HIDE DEF c
  <2> QED
    BY <1>7, <2>1, <2>2, <2>3, ViewAssumption DEF Distance
<1> QED
  BY <1>8, <1>9

(* The wheel zooms around the pointer: what it points at moves by no more  *)
(* than rounding, unless an end of the track is reached.                   *)
THEOREM ZoomKeepsPlace == Spec => ZoomsAroundPointer
<1>1. ASSUME IInv, MouseWheel
      PROVE  \/ Distance(Place(pointer, view'), Place(pointer, view)) <= 1
             \/ view'.begin = 0 \/ view'.end = Full
  <2>1. PICK turn \in Turns : view' = Zoomed(view, pointer, turn)
    BY <1>1 DEF MouseWheel
  <2> DEFINE w == Width(view)
             u == ClampTo((w * turn[1]) \div turn[2], Full \div MaximumZoom, Full)
             a == pointer * (w - u)
             b == pointer * u
             n == view.begin + a \div GraphWidth
             begin == ClampTo(n, 0, Full - u)
  <2>2. /\ view.begin \in Int /\ w \in Int /\ pointer \in Int
        /\ 0 <= pointer /\ pointer < GraphWidth /\ GraphWidth \in Nat
    BY <1>1, ViewAssumption DEF IInv, TypeOK, View, Width, MouseWheel, InGraph
  <2>3. view' = [begin |-> begin, end |-> begin + u]
    BY <2>1 DEF Zoomed, ZoomedBegin
  <2>4. view' \in View
    BY <1>1, <2>1, ZoomedIsPart DEF IInv, TypeOK
  <2> HIDE DEF begin
  <2>5. u \in Int /\ view'.begin = begin /\ begin \in Int /\ Width(view') = u
    <3>1. view'.begin = begin /\ view'.end = begin + u
      BY <2>3
    <3>2. (w * turn[1]) \div turn[2] \in Int
      <4>1. turn[1] \in Nat \ {0} /\ turn[2] \in Nat \ {0}
        BY ViewAssumption
      <4>2. w * turn[1] \in Int
        BY <2>2, <4>1
      <4> QED
        BY <4>1, <4>2
    <3>3. u \in Int
      BY <3>2, NarrowestWidth, ViewAssumption DEF ClampTo
    <3>4. begin \in Int
      BY <2>4, <3>1 DEF View
    <3> HIDE DEF u
    <3> QED
      BY <3>1, <3>3, <3>4 DEF Width
  <2> HIDE DEF u
  <2>6. a \in Int /\ b \in Int /\ a + b = pointer * w
    BY <2>2, <2>5
  <2>7. a \div GraphWidth \in Int /\ b \div GraphWidth \in Int
    BY <2>6, QuotientIsInt
  <2>8. (a + b) \div GraphWidth - (a \div GraphWidth + b \div GraphWidth) \in {0, 1}
    BY <2>6, SumOfQuotients
  <2>9. ClampTo(pointer, 0, GraphWidth) = pointer
    BY <2>2 DEF ClampTo
  <2>10. /\ Place(pointer, view) = view.begin + (a + b) \div GraphWidth
         /\ Place(pointer, view') = begin + b \div GraphWidth
    BY <2>5, <2>6, <2>9 DEF Place
  <2> HIDE DEF w
  <2>11. n \in Int
    BY <2>2, <2>7
  <2>12. begin = n \/ begin = 0 \/ begin = Full - u
    BY <2>11 DEF begin, ClampTo
  <2>13. CASE begin = n
    <3> DEFINE e == a \div GraphWidth
               f == b \div GraphWidth
               g == (a + b) \div GraphWidth
    <3>1. e \in Int /\ f \in Int /\ g - (e + f) \in {0, 1} /\ g \in Int
      BY <2>6, <2>7, <2>8, QuotientIsInt
    <3>2. Place(pointer, view) = view.begin + g /\ Place(pointer, view') = view.begin + e + f
      BY <2>2, <2>10, <2>13, <3>1
    <3> HIDE DEF e, f, g
    <3> QED
      BY <2>2, <3>1, <3>2 DEF Distance
  <2>14. CASE begin = Full - u
    BY <2>3, <2>5, <2>14, ViewAssumption
  <2> QED
    BY <2>5, <2>12, <2>13, <2>14
<1>2. IInv /\ [Next]_vars =>
        [MouseWheel => \/ Distance(Place(pointer, view'), Place(pointer, view)) <= 1
                       \/ view'.begin = 0 \/ view'.end = Full]_vars
  BY <1>1
<1> QED
  BY <1>2, Invariance, PTL DEF Spec, ZoomsAroundPointer

(* With ticks as fine as that, a click seeks to, and a drag puts a marker  *)
(* at, a place that is drawn within a pixel of the pointer.                *)
THEOREM PointersHit == ASSUME TicksAreFine PROVE Spec => PointsWhereDrawn
<1> DEFINE A == /\ seek' # None => Near(seek', pointer)
                /\ \A m \in {"in", "out"} :
                     panel'.markers[m] # panel.markers[m] /\ panel'.interaction \in MarkerDrag =>
                       Near(panel'.markers[m], pointer')
<1>0. ASSUME IInv, NEW x \in Int
      PROVE  Near(Place(x, view), x)
  BY <1>0, PlaceIsNear DEF Near, IInv, TypeOK, ViewIsPart
<1>1. ASSUME IInv, Next, seek' # None
      PROVE  Near(seek', pointer)
  <2>1. LeftButtonUp
    BY <1>1 DEF Next, MouseWheel, DoubleClick, LeftButtonDown, MouseMove, CaptureLost,
                ReleaseElsewhere, NewTrack, AnalysisComplete, CloseWindow
  <2>2. seek' = Place(pointer, view)
    BY <1>1, <2>1 DEF LeftButtonUp, SeekAt
  <2> QED
    BY <1>0, <1>1, <2>2 DEF IInv, TypeOK
<1>2. ASSUME IInv, Next, NEW m \in {"in", "out"}, panel'.markers[m] # panel.markers[m],
             panel'.interaction \in MarkerDrag
      PROVE  Near(panel'.markers[m], pointer')
  <2>1. MouseMove \/ LeftButtonUp \/ CaptureLost \/ NewTrack \/ CloseWindow \/ LeftButtonDown
    BY <1>2 DEF Next, MouseWheel, DoubleClick, ReleaseElsewhere, AnalysisComplete
  <2>2. panel \in PanelType
    BY <1>2, PanelTyped DEF IInv
  <2>3. ~ LeftButtonDown
    BY <1>2, <2>2 DEF LeftButtonDown, PanelType
  <2>4. ~ (LeftButtonUp \/ CaptureLost \/ CloseWindow)
    <3>1. ASSUME LeftButtonUp PROVE panel'.interaction \notin MarkerDrag
      BY <3>1, <2>2, CompletedPanel DEF LeftButtonUp, MarkerDrag
    <3>2. ASSUME CaptureLost PROVE panel'.interaction \notin MarkerDrag
      BY <3>2, <1>2, <2>2, LostPanel DEF CaptureLost, MarkerDrag, IInv
    <3>3. ASSUME CloseWindow PROVE panel'.interaction \notin MarkerDrag
      BY <3>3, <1>2, <2>2, CancelledPanel DEF CloseWindow, MarkerDrag, IInv, PanelType
    <3> QED
      BY <1>2, <3>1, <3>2, <3>3
  <2>5. ~ NewTrack
    <3>1. ASSUME NewTrack PROVE panel'.interaction = "none"
      <4>1. PICK markers \in MarkerPairs :
              panel' = [Cancelled(panel, window) EXCEPT !.markers = markers]
        BY <3>1 DEF NewTrack
      <4>2. /\ Cancelled(panel, window) \in PanelType
            /\ Cancelled(panel, window).interaction = "none"
        BY <1>2, <2>2, CancelledPanel DEF IInv, TypeOK
      <4> QED
        BY <4>1, <4>2 DEF PanelType
    <3> QED
      BY <1>2, <3>1 DEF MarkerDrag
  <2>6. MouseMove
    BY <2>1, <2>3, <2>4, <2>5
  <2>7. PICK x \in Pixels :
          /\ pointer' = x
          /\ IF panel.interaction = "none" \/ ~ panel.captured THEN UNCHANGED <<panel, view>>
             ELSE IF panel.interaction \in MarkerDrag
             THEN panel' = Dragged(panel, x) /\ UNCHANGED view
             ELSE panel' = [panel EXCEPT !.interaction = Panning(panel, x)]
    BY <2>6 DEF MouseMove
  <2>8. panel' = Dragged(panel, x)
    BY <1>2, <2>2, <2>7 DEF PanelType
  <2>9. panel'.markers[m] = Place(x, view)
    BY <1>2, <2>2, <2>8 DEF Dragged, MarkerPlace, PanelType, MarkersType
  <2> QED
    BY <1>0, <1>2, <2>7, <2>9, ViewAssumption
<1>3. IInv /\ [Next]_vars => [A]_vars
  BY <1>1, <1>2
<1> QED
  BY <1>3, Invariance, PTL DEF Spec, PointsWhereDrawn

(* Both: pixels mean the places that are drawn at them.                    *)
THEOREM PixelsStayTrue == ASSUME TicksAreFine PROVE Spec => PixelsMeanTimes
<1>1. Spec => PointsWhereDrawn
  BY PointersHit
<1>2. Spec => ZoomsAroundPointer
  BY ZoomKeepsPlace
<1> QED
  BY <1>1, <1>2, PTL DEF PixelsMeanTimes


------------------------------------------------------------------------------
(* Painting: the inductive invariant *)

PaintingInv == PaintingTypeOK /\ ScreenIsCurrent /\ CleanLayersAreCurrent

------------------------------------------------------------------------------
(* What a part looks like, and when what is on screen there is right *)

Seen(part, s) == Picture(part, WithGrid(WaveformLayer(s), s), s)

(* seen, where the panel holds s and a marker is being dragged or not *)
Right(seen, part, s, drags) ==
  \/ seen = Invalid
  \/ seen = Seen(part, s)
  \/ /\ part = TextPart /\ drags
     /\ \E markers \in Markers : seen = Text([s EXCEPT !.markers = markers])

LEMMA ScreenMeans ==
  /\ ScreenIsCurrent <=> \A part \in Window : Right(screen[part], part, shown, dragging)
  /\ ScreenIsCurrent' <=> \A part \in Window : Right(screen'[part], part, shown', dragging')
BY DEF ScreenIsCurrent, Right, Seen, Window, Waveform, Graph, Markers, Times, Picture, Text, Column,
       WithGrid, WaveformLayer, ColumnOf, Available

(* The parts of the window are apart. *)
LEMMA Parts ==
  ASSUME PaintingAssumption
  PROVE  /\ TextPart # FramePart /\ TextPart \notin Graph /\ FramePart \notin Graph
         /\ Absent \notin Graph /\ Graph \subseteq Int
BY DEF PaintingAssumption, Graph

LEMMA SeenParts ==
  ASSUME PaintingAssumption, NEW s
  PROVE  /\ Seen(TextPart, s) = Text(s)
         /\ Seen(FramePart, s) = WaveformLayer(s)
         /\ \A x \in Graph : Seen(x, s) = Column(x, WithGrid(WaveformLayer(s), s), s)
BY Parts DEF Seen, Picture, WithGrid

(* A handler keeps the screen right if each part it leaves as it is still  *)
(* looks right for what the panel holds afterwards.                        *)
LEMMA Repaint ==
  ASSUME ScreenIsCurrent, NEW parts, screen' = Invalidated(parts),
         \A part \in Window \ parts :
           Right(screen[part], part, shown, dragging)
             => Right(screen[part], part, shown', dragging')
  PROVE  ScreenIsCurrent'
<1>1. SUFFICES ASSUME NEW part \in Window
               PROVE  Right(screen'[part], part, shown', dragging')
  BY ScreenMeans
<1>2. screen'[part] = IF part \in parts THEN Invalid ELSE screen[part]
  BY DEF Invalidated
<1>3. Right(screen[part], part, shown, dragging)
  BY ScreenMeans
<1> QED
  BY <1>2, <1>3 DEF Right

LEMMA RepaintAll ==
  ASSUME ScreenIsCurrent, screen' = Invalidated(Window)
  PROVE  ScreenIsCurrent'
BY Repaint

(* The text stays right as long as the panel's words, grid and look do,    *)
(* and the markers too unless they are being dragged.                      *)
LEMMA TextStays ==
  ASSUME PaintingAssumption, NEW s \in Shown, NEW t \in Shown, NEW seen,
         NEW before \in BOOLEAN, NEW after \in BOOLEAN,
         t.look = s.look, t.words = s.words, t.grid = s.grid,
         before => after, after \/ t.markers = s.markers,
         Right(seen, TextPart, s, before)
  PROVE  Right(seen, TextPart, t, after)
<1>1. Seen(TextPart, s) = Text(s) /\ Seen(TextPart, t) = Text(t)
  BY SeenParts
<1>2. s.markers \in Markers
  BY DEF Shown
<1>3. \A markers \in Markers : Text([s EXCEPT !.markers = markers])
                                 = Text([t EXCEPT !.markers = markers])
  BY DEF Text, Shown
<1>4. Text([s EXCEPT !.markers = s.markers]) = Text(s)
  BY DEF Text, Shown
<1>5. t.markers = s.markers => Text(t) = Text(s)
  BY DEF Text
<1> QED
  BY <1>1, <1>2, <1>3, <1>4, <1>5 DEF Right

(* The frame stays right as long as the waveform layer would be the same,  *)
LEMMA FrameStays ==
  ASSUME PaintingAssumption, NEW s, NEW t, NEW seen, NEW before, NEW after,
         WaveformLayer(t) = WaveformLayer(s),
         Right(seen, FramePart, s, before)
  PROVE  Right(seen, FramePart, t, after)
BY SeenParts, Parts DEF Right

(* and a column as long as, besides, the grid is and no marker and no      *)
(* cursor came into it or left it.                                         *)
LEMMA ColumnStays ==
  ASSUME PaintingAssumption, NEW s, NEW t, NEW seen, NEW before, NEW after, NEW x \in Graph,
         t.look = s.look, t.waveform = s.waveform, t.view = s.view, t.grid = s.grid,
         \A m \in {"in", "out"} : ColumnOf(t.markers[m], t) = x <=> ColumnOf(s.markers[m], s) = x,
         ColumnOf(t.cursor, t) = x <=> ColumnOf(s.cursor, s) = x,
         Right(seen, x, s, before)
  PROVE  Right(seen, x, t, after)
<1>1. WithGrid(WaveformLayer(t), t) = WithGrid(WaveformLayer(s), s)
  BY DEF WithGrid, WaveformLayer, Available
<1>2. {m \in {"in", "out"} : ColumnOf(t.markers[m], t) = x}
        = {m \in {"in", "out"} : ColumnOf(s.markers[m], s) = x}
  OBVIOUS
<1>3. (ColumnOf(t.cursor, t) = x) = (ColumnOf(s.cursor, s) = x)
  OBVIOUS
<1>4. Column(x, WithGrid(WaveformLayer(t), t), t) = Column(x, WithGrid(WaveformLayer(s), s), s)
  BY <1>1, <1>2, <1>3, Zenon DEF Column
<1> QED
  BY <1>4, SeenParts, Parts DEF Right

(* Times are drawn at the same columns as long as the view is the same. *)
LEMMA SameColumns ==
  ASSUME NEW s, NEW t, t.waveform = s.waveform, t.view = s.view, NEW time
  PROVE  ColumnOf(time, t) = ColumnOf(time, s)
BY DEF ColumnOf, Available

------------------------------------------------------------------------------
(* The layers *)

(* Flags are only ever raised outside of painting: clean layers stay       *)
(* current as long as what they were drawn from does.                      *)
LEMMA LayersStay ==
  ASSUME CleanLayersAreCurrent, UNCHANGED <<waveform_layer, editor_layer>>,
         waveform_layer_dirty => waveform_layer_dirty',
         editor_layer_dirty => editor_layer_dirty',
         waveform_layer_dirty' \/ WaveformLayer(shown') = WaveformLayer(shown),
         waveform_layer_dirty' \/ editor_layer_dirty'
           \/ WithGrid(WaveformLayer(shown'), shown') = WithGrid(WaveformLayer(shown), shown)
  PROVE  CleanLayersAreCurrent'
<1>1. Usable(waveform_layer, waveform_layer_dirty)' =>
        waveform_layer' = WaveformLayer(shown')
  BY DEF CleanLayersAreCurrent, Usable
<1>2. EditorLayerUsable' => editor_layer' = WithGrid(WaveformLayer(shown'), shown')
  BY DEF CleanLayersAreCurrent, EditorLayerUsable, Usable
<1> QED
  BY <1>1, <1>2 DEF CleanLayersAreCurrent, WithGrid, WaveformLayer, Available

(* What painting finds or makes of the layers is current. *)
LEMMA EnsuredLayers ==
  ASSUME PaintingTypeOK, CleanLayersAreCurrent, UNCHANGED shown,
         NEW waveform_made \in BOOLEAN, NEW editor_made \in BOOLEAN,
         EnsureLayers(waveform_made, editor_made)
  PROVE  /\ CleanLayersAreCurrent'
         /\ waveform_layer_dirty' \in BOOLEAN /\ editor_layer_dirty' \in BOOLEAN
         /\ waveform_layer' # Absent => waveform_layer' = WaveformLayer(shown)
         /\ editor_layer' # Absent => editor_layer' = WithGrid(WaveformLayer(shown), shown)
<1>1. waveform_layer' # Absent => waveform_layer' = WaveformLayer(shown)
  BY DEF EnsureLayers, CleanLayersAreCurrent
<1>2. editor_layer' # Absent => editor_layer' = WithGrid(WaveformLayer(shown), shown)
  BY <1>1 DEF EnsureLayers, CleanLayersAreCurrent
<1>3. CleanLayersAreCurrent'
  <2>1. Usable(waveform_layer, waveform_layer_dirty)' => waveform_layer' = WaveformLayer(shown')
    BY <1>1 DEF Usable
  <2>2. EditorLayerUsable' => editor_layer' = WithGrid(WaveformLayer(shown'), shown')
    BY <1>2 DEF EditorLayerUsable, Usable
  <2> QED
    BY <2>1, <2>2 DEF CleanLayersAreCurrent, WithGrid, WaveformLayer, Available
<1>4. waveform_layer_dirty' \in BOOLEAN /\ editor_layer_dirty' \in BOOLEAN
  BY DEF EnsureLayers
<1> QED
  BY <1>1, <1>2, <1>3, <1>4

(* Types of the layers, which handlers keep or discard. *)
LayersTyped ==
  /\ waveform_layer_dirty \in BOOLEAN /\ editor_layer_dirty \in BOOLEAN
  /\ waveform_layer # Absent => DOMAIN waveform_layer = {"look", "waveform", "view"}
  /\ editor_layer # Absent => DOMAIN editor_layer = {"base", "grid"}

LEMMA TypeMeans == PaintingTypeOK <=> shown \in Shown /\ dragging \in BOOLEAN /\ LayersTyped
BY DEF PaintingTypeOK, LayersTyped

------------------------------------------------------------------------------
(* The handlers *)

(* redraw invalidates the whole window, and raises the flags of the layers *)
(* that would be drawn differently.                                        *)
LEMMA RedrawKeeps ==
  ASSUME PaintingInv, NEW waveform_too \in BOOLEAN, NEW grid_too \in BOOLEAN,
         redraw(waveform_too, grid_too), shown' \in Shown, dragging' \in BOOLEAN,
         waveform_too \/ WaveformLayer(shown') = WaveformLayer(shown),
         waveform_too \/ grid_too \/ shown'.grid = shown.grid
  PROVE  PaintingInv'
<1>1. PaintingTypeOK'
  BY DEF PaintingInv, PaintingTypeOK, redraw
<1>2. ScreenIsCurrent'
  BY RepaintAll DEF PaintingInv, redraw
<1>3. waveform_layer_dirty' = (waveform_layer_dirty \/ waveform_too)
      /\ editor_layer_dirty' = (editor_layer_dirty \/ grid_too)
      /\ UNCHANGED <<waveform_layer, editor_layer>>
  BY DEF redraw
<1>4. ~ waveform_too /\ ~ grid_too =>
        WithGrid(WaveformLayer(shown'), shown') = WithGrid(WaveformLayer(shown), shown)
  <2>1. SUFFICES ASSUME WaveformLayer(shown') = WaveformLayer(shown),
                        shown'.grid = shown.grid
                 PROVE  WithGrid(WaveformLayer(shown'), shown')
                          = WithGrid(WaveformLayer(shown), shown)
    OBVIOUS
  <2>2. shown'.waveform = shown.waveform
    BY <2>1 DEF WaveformLayer
  <2> QED
    BY <2>1, <2>2 DEF WithGrid, Available
<1>5. CleanLayersAreCurrent'
  BY <1>3, <1>4, LayersStay DEF PaintingInv
<1> QED
  BY <1>1, <1>2, <1>5 DEF PaintingInv

(* Tracks, waveforms and looks come and go with everything drawn anew. *)
LEMMA AllAnew ==
  ASSUME PaintingAssumption, PaintingInv, ClearTrack \/ ShowTrack \/ ShowAnalysis \/ ChangeLook
  PROVE  PaintingInv'
<1>1. shown \in Shown /\ dragging \in BOOLEAN
  BY DEF PaintingInv, PaintingTypeOK
<1>2. 0 \in Times /\ DefaultMarkers \in Markers /\ EntireView \in Views
  BY DEF PaintingAssumption, Times, DefaultMarkers, Markers
<1>3. ASSUME redraw(TRUE, TRUE), shown' \in Shown, dragging' \in BOOLEAN
      PROVE  PaintingInv'
  BY <1>3, RedrawKeeps
<1>4. CASE ClearTrack
  <2>1. PICK words \in Words, grid \in Grids, cursor \in {0, shown.cursor} :
          shown' = [shown EXCEPT !.words = words, !.waveform = "no_track",
                                 !.view = EntireView, !.grid = grid,
                                 !.markers = DefaultMarkers, !.cursor = cursor]
    BY <1>4 DEF ClearTrack
  <2>2. cursor \in Times
    BY <1>1, <1>2 DEF Shown
  <2>3. shown' \in Shown
    BY <1>1, <1>2, <2>1, <2>2 DEF Shown
  <2> QED
    BY <1>3, <1>4, <2>3 DEF ClearTrack
<1>5. CASE ShowTrack
  <2>1. shown' \in Shown
    BY <1>1, <1>2, <1>5 DEF ShowTrack, Shown
  <2> QED
    BY <1>3, <1>5, <2>1 DEF ShowTrack
<1>6. CASE ShowAnalysis
  <2>1. shown' \in Shown
    BY <1>1, <1>6 DEF ShowAnalysis, Shown
  <2> QED
    BY <1>1, <1>3, <1>6, <2>1 DEF ShowAnalysis
<1>7. CASE ChangeLook
  <2>1. shown' \in Shown
    BY <1>1, <1>7 DEF ChangeLook, Shown
  <2> QED
    BY <1>1, <1>3, <1>7, <2>1 DEF ChangeLook
<1> QED
  BY <1>4, <1>5, <1>6, <1>7

(* Edits redraw the window, and the grid's layer when the grid changed. *)
LEMMA Edits ==
  ASSUME PaintingInv, ChangeGrid \/ MoveMarker \/ ChangeWords \/ GrabMarker \/ EndDrag
  PROVE  PaintingInv'
<1>1. shown \in Shown /\ dragging \in BOOLEAN
  BY DEF PaintingInv, PaintingTypeOK
<1>2. CASE ChangeGrid
  <2>1. /\ shown' \in Shown
        /\ shown'.look = shown.look /\ shown'.waveform = shown.waveform
        /\ shown'.view = shown.view
    BY <1>1, <1>2 DEF ChangeGrid, Shown
  <2>2. WaveformLayer(shown') = WaveformLayer(shown)
    BY <2>1 DEF WaveformLayer, Available
  <2>3. redraw(FALSE, TRUE) /\ dragging' = dragging
    BY <1>2 DEF ChangeGrid, RedrawOfGrid
  <2> QED
    BY <1>1, <2>1, <2>2, <2>3, RedrawKeeps
<1>3. CASE MoveMarker \/ ChangeWords \/ GrabMarker \/ EndDrag
  <2>1. /\ shown' \in Shown
        /\ shown'.look = shown.look /\ shown'.waveform = shown.waveform
        /\ shown'.view = shown.view /\ shown'.grid = shown.grid
    BY <1>1, <1>3 DEF MoveMarker, ChangeWords, GrabMarker, EndDrag, Shown
  <2>2. WaveformLayer(shown') = WaveformLayer(shown)
    BY <2>1 DEF WaveformLayer, Available
  <2>3. redraw(FALSE, FALSE) /\ dragging' \in BOOLEAN
    BY <1>1, <1>3 DEF MoveMarker, ChangeWords, GrabMarker, EndDrag
  <2> QED
    BY <2>1, <2>2, <2>3, RedrawKeeps
<1> QED
  BY <1>2, <1>3

(* Zoom and pan leave the text, which shows nothing of the view. *)
LEMMA ChangeViewKeeps ==
  ASSUME PaintingAssumption, PaintingInv, ChangeView
  PROVE  PaintingInv'
<1>1. shown \in Shown /\ dragging \in BOOLEAN
  BY DEF PaintingInv, PaintingTypeOK
<1>2. /\ shown' \in Shown /\ dragging' = dragging
      /\ shown'.look = shown.look /\ shown'.words = shown.words
      /\ shown'.grid = shown.grid /\ shown'.markers = shown.markers
  BY <1>1 DEF ChangeView, Shown
<1>3. PaintingTypeOK'
  BY <1>1, <1>2 DEF ChangeView, redraw_waveform, PaintingInv, PaintingTypeOK
<1>4. CleanLayersAreCurrent'
  BY LayersStay DEF ChangeView, redraw_waveform, PaintingInv
<1>5. screen' = Invalidated(Waveform)
  BY DEF ChangeView, redraw_waveform
<1>6. ASSUME NEW part \in Window \ Waveform, Right(screen[part], part, shown, dragging)
      PROVE  Right(screen[part], part, shown', dragging')
  <2>1. part = TextPart
    BY <1>6 DEF Window
  <2> QED
    BY <1>1, <1>2, <1>6, <2>1, TextStays
<1>7. ScreenIsCurrent'
  BY <1>5, <1>6, Repaint DEF PaintingInv
<1> QED
  BY <1>3, <1>4, <1>7 DEF PaintingInv

(* A drag redraws the columns its marker leaves and comes to; the numbers  *)
(* wait for the release.                                                   *)
LEMMA DragMarkerKeeps ==
  ASSUME PaintingAssumption, PaintingInv, DragMarker
  PROVE  PaintingInv'
<1>1. shown \in Shown /\ dragging \in BOOLEAN /\ dragging /\ dragging' = dragging
  BY DEF PaintingInv, PaintingTypeOK, DragMarker
<1>2. PICK m \in {"in", "out"}, time \in Times :
        /\ InOrder([shown.markers EXCEPT ![m] = time])
        /\ shown' = [shown EXCEPT !.markers[m] = time]
        /\ redraw_strips(StripsOf(shown.markers[m], time))
  BY DEF DragMarker
<1>3. shown.markers \in [in : Times, out : Times]
  BY <1>1 DEF Shown, Markers
<1> DEFINE moved == [shown.markers EXCEPT ![m] = time]
<1>4. /\ moved \in [in : Times, out : Times] /\ moved[m] = time
      /\ \A n \in {"in", "out"} \ {m} : moved[n] = shown.markers[n]
  BY <1>3
<1>5. moved \in Markers
  BY <1>2, <1>4 DEF InOrder, Markers
<1>6. shown' = [shown EXCEPT !.markers = moved]
  BY <1>1, <1>2, <1>3 DEF Shown
<1> HIDE DEF moved
<1>7. /\ shown' \in Shown /\ shown'.markers = moved
      /\ shown'.look = shown.look /\ shown'.words = shown.words /\ shown'.grid = shown.grid
      /\ shown'.waveform = shown.waveform /\ shown'.view = shown.view
      /\ shown'.cursor = shown.cursor
  BY <1>1, <1>5, <1>6 DEF Shown
<1>8. UNCHANGED layers
  BY <1>2 DEF redraw_strips
<1>9. PaintingTypeOK'
  BY <1>1, <1>7, <1>8 DEF PaintingInv, PaintingTypeOK, layers
<1>10. WaveformLayer(shown') = WaveformLayer(shown)
  BY <1>7 DEF WaveformLayer, Available
<1>11. CleanLayersAreCurrent'
  <2>1. WithGrid(WaveformLayer(shown'), shown') = WithGrid(WaveformLayer(shown), shown)
    BY <1>7, <1>10 DEF WithGrid, Available
  <2> QED
    BY <1>8, <1>10, <2>1, LayersStay DEF PaintingInv, layers
<1> DEFINE strips == StripsOf(shown.markers[m], time) \ {Absent}
<1>12. screen' = Invalidated(strips)
  BY <1>2 DEF redraw_strips
<1>13. ASSUME NEW part \in Window \ strips, Right(screen[part], part, shown, dragging)
       PROVE  Right(screen[part], part, shown', dragging')
  <2>1. CASE part = TextPart
    BY <1>1, <1>7, <1>13, <2>1, TextStays
  <2>2. CASE part = FramePart
    BY <1>10, <1>13, <2>2, FrameStays
  <2>3. CASE part \in Graph
    <3>1. \A t : ColumnOf(t, shown') = ColumnOf(t, shown)
      BY <1>7, SameColumns
    <3>2. ColumnOf(shown.markers[m], shown) # part /\ ColumnOf(time, shown) # part
      BY <1>13, <2>3, Parts DEF StripsOf, MarkerStrip
    <3>3. \A n \in {"in", "out"} :
            ColumnOf(shown'.markers[n], shown') = part <=> ColumnOf(shown.markers[n], shown) = part
      BY <1>4, <1>7, <3>1, <3>2
    <3> QED
      BY <1>7, <1>13, <2>3, <3>1, <3>3, ColumnStays
  <2> QED
    BY <2>1, <2>2, <2>3 DEF Window, Waveform
<1> HIDE DEF strips
<1>14. ScreenIsCurrent'
  BY <1>12, <1>13, Repaint DEF PaintingInv
<1> QED
  BY <1>9, <1>11, <1>14 DEF PaintingInv

(* Playback redraws the columns the cursor leaves and comes to. *)
LEMMA PlayKeeps ==
  ASSUME PaintingAssumption, PaintingInv, Play
  PROVE  PaintingInv'
<1>1. shown \in Shown /\ dragging \in BOOLEAN /\ dragging' = dragging
  BY DEF PaintingInv, PaintingTypeOK, Play
<1>2. PICK time \in Times : shown' = [shown EXCEPT !.cursor = time]
  BY DEF Play
<1>3. /\ shown' \in Shown /\ shown'.markers = shown.markers
      /\ shown'.look = shown.look /\ shown'.words = shown.words /\ shown'.grid = shown.grid
      /\ shown'.waveform = shown.waveform /\ shown'.view = shown.view
  BY <1>1, <1>2 DEF Shown
<1> DEFINE from == ColumnOf(shown.cursor, shown)
           to == ColumnOf(shown'.cursor, shown)
           strips == (IF from = to THEN {} ELSE {from, to}) \ {Absent}
<1>4. screen' = Invalidated(strips) /\ UNCHANGED layers
  BY DEF Play, redraw_strips
<1>5. PaintingTypeOK'
  BY <1>1, <1>3, <1>4 DEF PaintingInv, PaintingTypeOK, layers
<1>6. WaveformLayer(shown') = WaveformLayer(shown)
  BY <1>3 DEF WaveformLayer, Available
<1>7. CleanLayersAreCurrent'
  <2>1. WithGrid(WaveformLayer(shown'), shown') = WithGrid(WaveformLayer(shown), shown)
    BY <1>3, <1>6 DEF WithGrid, Available
  <2> QED
    BY <1>4, <1>6, <2>1, LayersStay DEF PaintingInv, layers
<1>8. ASSUME NEW part \in Window \ strips, Right(screen[part], part, shown, dragging)
      PROVE  Right(screen[part], part, shown', dragging')
  <2>1. CASE part = TextPart
    BY <1>1, <1>3, <1>8, <2>1, TextStays
  <2>2. CASE part = FramePart
    BY <1>6, <1>8, <2>2, FrameStays
  <2>3. CASE part \in Graph
    <3>1. \A t : ColumnOf(t, shown') = ColumnOf(t, shown)
      BY <1>3, SameColumns
    <3>2. ColumnOf(shown'.cursor, shown') = part <=> ColumnOf(shown.cursor, shown) = part
      BY <1>8, <2>3, <3>1, Parts
    <3>3. \A n \in {"in", "out"} :
            ColumnOf(shown'.markers[n], shown') = part <=> ColumnOf(shown.markers[n], shown) = part
      BY <1>3, <3>1
    <3> QED
      BY <1>3, <1>8, <2>3, <3>2, <3>3, ColumnStays
  <2> QED
    BY <2>1, <2>2, <2>3 DEF Window, Waveform
<1> HIDE DEF strips
<1>9. ScreenIsCurrent'
  BY <1>4, <1>8, Repaint DEF PaintingInv
<1> QED
  BY <1>5, <1>7, <1>9 DEF PaintingInv

(* A new size takes the layers with it. *)
LEMMA ResizeKeeps ==
  ASSUME PaintingInv, Resize
  PROVE  PaintingInv'
<1>1. shown' \in Shown
  BY DEF PaintingInv, PaintingTypeOK, Resize, Shown
<1>2. PaintingTypeOK'
  BY <1>1 DEF PaintingInv, PaintingTypeOK, Resize, DiscardWaveformLayer
<1>3. CleanLayersAreCurrent'
  BY DEF Resize, DiscardWaveformLayer, CleanLayersAreCurrent, EditorLayerUsable, Usable
<1>4. ScreenIsCurrent'
  BY RepaintAll DEF PaintingInv, Resize
<1> QED
  BY <1>2, <1>3, <1>4 DEF PaintingInv

LEMMA ExposeKeeps ==
  ASSUME PaintingInv, Expose
  PROVE  PaintingInv'
<1>1. PICK part \in Window : screen' = Invalidated({part})
  BY DEF Expose
<1>2. UNCHANGED <<shown, dragging, layers>>
  BY DEF Expose
<1>3. PaintingTypeOK'
  BY <1>2 DEF PaintingInv, PaintingTypeOK, layers
<1>4. CleanLayersAreCurrent'
  BY <1>2, LayersStay DEF PaintingInv, layers
<1>5. ScreenIsCurrent'
  BY <1>1, <1>2, Repaint DEF PaintingInv
<1> QED
  BY <1>3, <1>4, <1>5 DEF PaintingInv

(* What is painted is current, with cached layers, new ones or none. *)
LEMMA PaintKeeps ==
  ASSUME PaintingInv, Paint
  PROVE  PaintingInv'
<1>1. UNCHANGED <<shown, dragging>>
  BY DEF Paint
<1>2. PICK waveform_made \in BOOLEAN, editor_made \in BOOLEAN :
        EnsureLayers(waveform_made, editor_made)
  BY DEF Paint
<1>3. /\ CleanLayersAreCurrent'
      /\ waveform_layer_dirty' \in BOOLEAN /\ editor_layer_dirty' \in BOOLEAN
      /\ waveform_layer' # Absent => waveform_layer' = WaveformLayer(shown)
      /\ editor_layer' # Absent => editor_layer' = WithGrid(WaveformLayer(shown), shown)
  BY <1>1, <1>2, EnsuredLayers DEF PaintingInv
<1>4. PaintingTypeOK'
  BY <1>1, <1>3 DEF PaintingInv, PaintingTypeOK, WaveformLayer, WithGrid
<1> DEFINE layer == IF editor_layer' # Absent THEN editor_layer'
                    ELSE WithGrid(WaveformLayer(shown), shown)
<1>5. layer = WithGrid(WaveformLayer(shown), shown)
  BY <1>3
<1>6. screen' = [part \in Window |-> IF screen[part] = Invalid
                                     THEN Picture(part, layer, shown) ELSE screen[part]]
  BY DEF Paint
<1> HIDE DEF layer
<1>7. ASSUME NEW part \in Window
      PROVE  Right(screen'[part], part, shown', dragging')
  <2>1. Right(screen[part], part, shown, dragging)
    BY ScreenMeans DEF PaintingInv
  <2>2. CASE screen[part] = Invalid
    <3>1. screen'[part] = Seen(part, shown)
      BY <1>5, <1>6, <1>7, <2>2 DEF Seen
    <3> QED
      BY <1>1, <3>1 DEF Right
  <2>3. CASE screen[part] # Invalid
    BY <1>1, <1>6, <1>7, <2>1, <2>3
  <2> QED
    BY <2>2, <2>3
<1>8. ScreenIsCurrent'
  BY <1>7, ScreenMeans
<1> QED
  BY <1>3, <1>4, <1>8 DEF PaintingInv

------------------------------------------------------------------------------
(* The inductive invariant. *)
THEOREM PaintingInvariance == ASSUME PaintingAssumption PROVE PaintingSpec => []PaintingInv
<1>1. ASSUME PaintingInit
      PROVE  PaintingInv
  <2>1. PaintingTypeOK
    BY <1>1 DEF PaintingInit, PaintingTypeOK
  <2>2. ScreenIsCurrent
    BY <1>1 DEF PaintingInit, ScreenIsCurrent
  <2>3. CleanLayersAreCurrent
    BY <1>1 DEF PaintingInit, CleanLayersAreCurrent, EditorLayerUsable, Usable
  <2> QED
    BY <2>1, <2>2, <2>3 DEF PaintingInv
<1>2. PaintingInv /\ [PaintingNext]_painting_vars => PaintingInv'
  <2>1. ASSUME PaintingInv, UNCHANGED painting_vars
        PROVE  PaintingInv'
    <3>1. UNCHANGED <<shown, dragging, screen>> /\ UNCHANGED layers
      BY <2>1 DEF painting_vars
    <3>2. PaintingTypeOK'
      BY <2>1, <3>1 DEF PaintingInv, PaintingTypeOK, layers
    <3>3. CleanLayersAreCurrent'
      BY <2>1, <3>1, LayersStay DEF PaintingInv, layers
    <3>4. ScreenIsCurrent'
      BY <2>1, <3>1, ScreenMeans DEF PaintingInv
    <3> QED
      BY <3>2, <3>3, <3>4 DEF PaintingInv
  <2> QED
    BY <2>1, AllAnew, Edits, ChangeViewKeeps, DragMarkerKeeps, PlayKeeps, ResizeKeeps,
       ExposeKeeps, PaintKeeps DEF PaintingNext
<1> QED
  BY <1>1, <1>2, PTL DEF PaintingSpec

(* Whatever is on screen and not waiting to be painted is what the panel   *)
(* holds now, and clean layers are what drawing them again would give.     *)
THEOREM ScreenStaysRight == ASSUME PaintingAssumption PROVE PaintingSpec => []ScreenIsRight
<1>1. PaintingInv => ScreenIsRight
  BY DEF PaintingInv, ScreenIsRight
<1>2. PaintingSpec => []PaintingInv
  BY PaintingInvariance
<1> QED
  BY <1>1, <1>2, PTL

(* Moving markers, the grid or the cursor leaves the waveform's bitmap and *)
(* its flag alone, and the grid's too unless the grid changed.             *)
THEOREM EditsLeaveTheWaveform ==
  ASSUME PaintingAssumption PROVE PaintingSpec => EditsKeepTheWaveform
<1> DEFINE A ==
      /\ shown.waveform = shown'.waveform /\ shown.look = shown'.look
      /\ (shown.grid # shown'.grid \/ shown.markers # shown'.markers
          \/ shown.cursor # shown'.cursor)
      /\ ~ (ShowTrack \/ ClearTrack)
      => /\ waveform_layer' = waveform_layer /\ waveform_layer_dirty' = waveform_layer_dirty
         /\ shown.grid = shown'.grid =>
              editor_layer' = editor_layer /\ editor_layer_dirty' = editor_layer_dirty
<1>1. ASSUME PaintingInv, PaintingNext
      PROVE  A
  <2>1. SUFFICES ASSUME shown.waveform = shown'.waveform,
                        shown.grid # shown'.grid \/ shown.markers # shown'.markers
                          \/ shown.cursor # shown'.cursor,
                        ~ (ShowTrack \/ ClearTrack)
                 PROVE  /\ waveform_layer' = waveform_layer
                        /\ waveform_layer_dirty' = waveform_layer_dirty
                        /\ shown.grid = shown'.grid =>
                             /\ editor_layer' = editor_layer
                             /\ editor_layer_dirty' = editor_layer_dirty
    OBVIOUS
  <2>2. shown \in Shown /\ waveform_layer_dirty \in BOOLEAN /\ editor_layer_dirty \in BOOLEAN
    BY <1>1 DEF PaintingInv, PaintingTypeOK
  <2>3. ~ ShowAnalysis
    BY <2>1, <2>2 DEF ShowAnalysis, Shown, PaintingAssumption
  <2>4. ~ (ChangeView \/ Resize \/ ChangeLook)
    BY <2>1, <2>2 DEF ChangeView, Resize, ChangeLook, Shown
  <2>5. ~ (Expose \/ Paint)
    BY <2>1 DEF Expose, Paint
  <2>6. CASE ChangeGrid
    <3>1. shown'.markers = shown.markers /\ shown'.cursor = shown.cursor
      BY <2>2, <2>6 DEF ChangeGrid, Shown
    <3> QED
      BY <2>1, <2>2, <2>6, <3>1 DEF ChangeGrid, RedrawOfGrid, redraw
  <2>7. CASE MoveMarker \/ ChangeWords \/ GrabMarker \/ EndDrag
    <3>1. redraw(FALSE, FALSE)
      BY <2>7 DEF MoveMarker, ChangeWords, GrabMarker, EndDrag
    <3> QED
      BY <2>2, <3>1 DEF redraw
  <2>8. CASE DragMarker \/ Play
    BY <2>8 DEF DragMarker, Play, redraw_strips, layers
  <2> QED
    BY <1>1, <2>1, <2>3, <2>4, <2>5, <2>6, <2>7, <2>8 DEF PaintingNext
<1>2. PaintingInv /\ [PaintingNext]_painting_vars => [A]_painting_vars
  BY <1>1
<1>3. PaintingSpec => []PaintingInv
  BY PaintingInvariance
<1> QED
  BY <1>2, <1>3, PTL DEF PaintingSpec, EditsKeepTheWaveform

------------------------------------------------------------------------------
(* Controls: rounding *)

LEMMA QuotientBounds ==
  ASSUME NEW a \in Int, NEW d \in Nat \ {0}
  PROVE  LET q == a \div d IN q \in Int /\ d * q <= a /\ a < d * q + d
OBVIOUS

LEMMA QuotientUnique ==
  ASSUME NEW d \in Nat \ {0}, NEW p \in Int, NEW q \in Int, NEW a \in Int,
         d * p <= a, a < d * p + d, d * q <= a, a < d * q + d
  PROVE  p = q
<1>1. SUFFICES ASSUME NEW u \in Int, NEW v \in Int, u < v,
                      d * v <= a, a < d * u + d
               PROVE  FALSE
  BY SMT
<1>2. d * v >= d * (u + 1)
  BY <1>1
<1>3. d * (u + 1) = d * u + d
  BY <1>1
<1> QED
  BY <1>1, <1>2, <1>3

(* A rounded number is a multiple of the step, no more than half a step    *)
(* away, and rounding a multiple changes nothing.                          *)
LEMMA RoundedIsNear ==
  ASSUME NEW number \in Int, NEW step \in Nat \ {0}
  PROVE  /\ Rounded(number, step) \in Int
         /\ \E k \in Int : Rounded(number, step) = k * step
         /\ WithinRounding(Rounded(number, step), number, step)
<1> DEFINE q == (2 * number + step) \div (2 * step)
<1>1. 2 * step \in Nat \ {0} /\ 2 * number + step \in Int
  OBVIOUS
<1>2. /\ q \in Int /\ (2 * step) * q <= 2 * number + step
      /\ 2 * number + step < (2 * step) * q + 2 * step
  BY <1>1, QuotientBounds
<1>3. Rounded(number, step) = q * step
  BY DEF Rounded
<1> HIDE DEF q
<1>4. q * step \in Int /\ (2 * step) * q = 2 * (q * step)
  BY <1>2
<1>5. WithinRounding(q * step, number, step)
  BY <1>2, <1>4 DEF WithinRounding
<1> QED
  BY <1>2, <1>3, <1>4, <1>5

LEMMA RoundedOfMultiple ==
  ASSUME NEW k \in Int, NEW step \in Nat \ {0}
  PROVE  Rounded(k * step, step) = k * step
<1> DEFINE a == 2 * (k * step) + step
           d == 2 * step
           q == a \div d
<1>1. d \in Nat \ {0} /\ a \in Int
  OBVIOUS
<1>2. q \in Int /\ d * q <= a /\ a < d * q + d
  BY <1>1, QuotientBounds
<1>3. d * k = 2 * (k * step)
  OBVIOUS
<1>4. d * k <= a /\ a < d * k + d
  BY <1>1, <1>3
<1>5. q = k
  <2> HIDE DEF a, d, q
  <2> QED
    BY <1>1, <1>2, <1>4, QuotientUnique
<1> QED
  BY <1>5 DEF Rounded

LEMMA RoundedAgain ==
  ASSUME NEW number \in Int, NEW step \in Nat \ {0}
  PROVE  Rounded(Rounded(number, step), step) = Rounded(number, step)
BY RoundedIsNear, RoundedOfMultiple

(* The coarser step is a multiple of the finer one. *)
LEMMA CoarserStep ==
  ASSUME ControlsAssumption
  PROVE  \E c \in Nat \ {0} : TapDisplayStep = c * DisplayStep
<1> DEFINE c == TapDisplayStep \div DisplayStep
<1>1. DisplayStep \in Nat \ {0} /\ TapDisplayStep \in Nat \ {0} /\ TapDisplayStep % DisplayStep = 0
  BY DEF ControlsAssumption
<1>2. c \in Int /\ TapDisplayStep = DisplayStep * c
  BY <1>1
<1>3. c > 0
  <2> HIDE DEF c
  <2>1. c <= 0 => DisplayStep * c <= 0
    BY <1>1, <1>2
  <2> QED
    BY <1>1, <1>2, <2>1
<1>4. DisplayStep * c = c * DisplayStep
  BY <1>1, <1>2
<1> QED
  BY <1>2, <1>3, <1>4

LEMMA DisplayOfCoarse ==
  ASSUME ControlsAssumption, NEW number \in Int
  PROVE  LET n == Rounded(number, TapDisplayStep) IN Display(n) = n
<1> DEFINE n == Rounded(number, TapDisplayStep)
<1>1. DisplayStep \in Nat \ {0} /\ TapDisplayStep \in Nat \ {0}
  BY DEF ControlsAssumption
<1>2. PICK k \in Int : n = k * TapDisplayStep
  BY <1>1, RoundedIsNear
<1>3. PICK c \in Nat \ {0} : TapDisplayStep = c * DisplayStep
  BY CoarserStep
<1> HIDE DEF n
<1>4. n = (k * c) * DisplayStep /\ k * c \in Int
  BY <1>1, <1>2, <1>3
<1>5. Rounded((k * c) * DisplayStep, DisplayStep) = (k * c) * DisplayStep
  BY <1>1, <1>4, RoundedOfMultiple
<1>6. Display(n) = n
  BY <1>4, <1>5 DEF Display
<1> QED
  BY <1>6 DEF n

------------------------------------------------------------------------------
(* The inductive invariant of the fields *)

FocusHasTrack == track = Nothing => focus = Nothing

(* However often a value was shown and read back, it is what was entered,  *)
(* or that rounded once.                                                   *)
EnteredOrRounded(f) ==
  \/ value[f] = entered[f]
  \/ value[f] = Display(entered[f])
  \/ f = "bpm" /\ tapped /\ value[f] = Rounded(entered[f], TapDisplayStep)

(* The coarser text of a tap is there only while the value is as tapped.   *)
TextTells(f) ==
  \/ typed[f] # Nothing
  \/ text[f] = Display(value[f])
  \/ f = "bpm" /\ tapped /\ value[f] = entered[f] /\ text[f] = Rounded(value[f], TapDisplayStep)

FieldsInv ==
  /\ ControlsTypeOK
  /\ FocusHasTrack
  /\ checkbox = enabled
  /\ TypedForThisTrack
  /\ \A f \in Fields : EnteredOrRounded(f) /\ TextTells(f)

LEMMA Steps ==
  ASSUME ControlsAssumption PROVE DisplayStep \in Nat \ {0} /\ TapDisplayStep \in Nat \ {0}
BY DEF ControlsAssumption

LEMMA DisplayIsInt ==
  ASSUME ControlsAssumption, NEW number \in Int
  PROVE  /\ Display(number) \in Int /\ Rounded(number, TapDisplayStep) \in Int
         /\ Display(Display(number)) = Display(number)
         /\ Display(Rounded(number, TapDisplayStep)) = Rounded(number, TapDisplayStep)
BY Steps, RoundedIsNear, RoundedAgain, DisplayOfCoarse DEF Display

LEMMA DefaultIsValid ==
  ASSUME ControlsAssumption
  PROVE  /\ Default \in [Fields -> Int]
         /\ \A f \in Fields : Accepts(f, Default[f]) /\ Display(Default[f]) = Default[f]
         /\ Default.bpm = Default["bpm"]
<1> DEFINE q == UnitsPerBpm \div DisplayStep
<1>1. /\ UnitsPerBpm \in Nat \ {0} /\ DisplayStep \in Nat \ {0}
      /\ UnitsPerBpm % DisplayStep = 0
  BY DEF ControlsAssumption
<1>2. q \in Int /\ UnitsPerBpm = DisplayStep * q
  BY <1>1
<1> HIDE DEF q
<1>3. 120 * UnitsPerBpm = (120 * q) * DisplayStep /\ 120 * q \in Int /\ 0 = 0 * DisplayStep
  BY <1>1, <1>2
<1>4. Display(120 * UnitsPerBpm) = 120 * UnitsPerBpm /\ Display(0) = 0
  <2>1. Rounded((120 * q) * DisplayStep, DisplayStep) = (120 * q) * DisplayStep
    BY <1>1, <1>3, RoundedOfMultiple
  <2>2. Rounded(0 * DisplayStep, DisplayStep) = 0 * DisplayStep
    BY <1>1, 0 \in Int, RoundedOfMultiple, Zenon
  <2> QED
    BY <1>3, <2>1, <2>2 DEF Display
<1>5. /\ Default \in [Fields -> Int]
      /\ Default["bpm"] = 120 * UnitsPerBpm /\ Default["offset"] = 0
      /\ Default.bpm = Default["bpm"]
  BY <1>1 DEF Default, Fields
<1>6. ASSUME NEW f \in Fields
      PROVE  Accepts(f, Default[f]) /\ Display(Default[f]) = Default[f]
  BY <1>1, <1>4, <1>5 DEF Fields, Accepts
<1> QED
  BY <1>5, <1>6

(* After every handler that ends with sync_controls, with values as they   *)
(* were or new ones that have just been entered.                           *)
LEMMA SyncKeeps ==
  ASSUME ControlsAssumption, FieldsInv, SyncControls,
         track' \in Tracks \cup {Nothing}, enabled' \in BOOLEAN,
         \/ UNCHANGED <<track, value, entered, tapped>>
         \/ /\ value' \in [Fields -> Int] /\ \A f \in Fields : Accepts(f, value'[f])
            /\ entered' = value' /\ tapped' = FALSE
  PROVE  FieldsInv'
<1>1. /\ value' \in [Fields -> Int] /\ \A f \in Fields : Accepts(f, value'[f])
      /\ entered' \in [Fields -> Int] /\ tapped' \in BOOLEAN
  BY DEF FieldsInv, ControlsTypeOK
<1>2. /\ text' = [f \in Fields |-> Display(value'[f])]
      /\ typed' = [f \in Fields |-> Nothing]
      /\ checkbox' = enabled'
      /\ focus' = IF track' = Nothing THEN Nothing ELSE focus
  BY DEF SyncControls, Refreshed, Checkmark
<1>3. \A f \in Fields : Display(value'[f]) \in Int
  BY <1>1, DisplayIsInt
<1>4. ControlsTypeOK'
  BY <1>1, <1>2, <1>3 DEF FieldsInv, ControlsTypeOK, Accepts
<1>5. ASSUME NEW f \in Fields PROVE EnteredOrRounded(f)'
  BY DEF FieldsInv, EnteredOrRounded
<1>6. ASSUME NEW f \in Fields PROVE TextTells(f)'
  BY <1>2 DEF TextTells
<1> QED
  BY <1>2, <1>4, <1>5, <1>6 DEF FieldsInv, FocusHasTrack, TypedForThisTrack

(* Reading a field back, typed into or not *)
LEMMA CommitKeeps ==
  ASSUME ControlsAssumption, FieldsInv, NEW field \in Fields, CommitField(field),
         UNCHANGED <<track, enabled, checkbox>>, focus' \in Fields \cup {Nothing},
         track = Nothing => focus' = Nothing
  PROVE  FieldsInv'
<1>1. /\ value \in [Fields -> Int] /\ \A f \in Fields : Accepts(f, value[f])
      /\ text \in [Fields -> Int \cup {Garbage}] /\ typed \in [Fields -> Tracks \cup {Nothing}]
      /\ entered \in [Fields -> Int] /\ tapped \in BOOLEAN
  BY DEF FieldsInv, ControlsTypeOK
<1>2. CASE ~ Committable(field)
  <2>1. UNCHANGED <<value, text, typed, entered, tapped>>
    BY <1>2 DEF CommitField
  <2>2. \A f \in Fields : EnteredOrRounded(f)' /\ TextTells(f)'
    BY <2>1 DEF FieldsInv, EnteredOrRounded, TextTells
  <2>3. ControlsTypeOK'
    BY <2>1 DEF FieldsInv, ControlsTypeOK
  <2> QED
    BY <2>1, <2>2, <2>3 DEF FieldsInv, FocusHasTrack, TypedForThisTrack
<1>3. CASE Committable(field)
  <2> DEFINE number == text[field]
  <2>1. number \in Int /\ Accepts(field, number)
    BY <1>3 DEF Committable, Accepts
  <2>2. /\ value' = [value EXCEPT ![field] = number]
        /\ text' = [text EXCEPT ![field] = Display(number)]
        /\ typed' = [typed EXCEPT ![field] = Nothing]
        /\ entered' = IF typed[field] = Nothing THEN entered
                      ELSE [entered EXCEPT ![field] = number]
        /\ tapped' = (tapped /\ ~ (field = "bpm" /\ typed[field] # Nothing))
    BY <1>3 DEF CommitField, Normalized
  <2> HIDE DEF number
  <2>3. Display(number) \in Int /\ Display(Display(number)) = Display(number)
    BY <2>1, DisplayIsInt
  <2>4. ControlsTypeOK'
    <3>1. value' \in [Fields -> Int] /\ \A f \in Fields : Accepts(f, value'[f])
      BY <1>1, <2>1, <2>2
    <3>2. text' \in [Fields -> Int \cup {Garbage}] /\ typed' \in [Fields -> Tracks \cup {Nothing}]
      BY <1>1, <2>2, <2>3
    <3>3. entered' \in [Fields -> Int]
      BY <1>1, <2>1, <2>2
    <3>4. tapped' \in BOOLEAN
      BY <2>2
    <3> QED
      BY <3>1, <3>2, <3>3, <3>4 DEF FieldsInv, ControlsTypeOK, Accepts
  <2>5. TypedForThisTrack'
    BY <1>1, <2>2 DEF FieldsInv, TypedForThisTrack
  <2>6. ASSUME NEW f \in Fields, f # field PROVE EnteredOrRounded(f)' /\ TextTells(f)'
    <3>1. /\ value'[f] = value[f] /\ text'[f] = text[f] /\ typed'[f] = typed[f]
          /\ entered'[f] = entered[f] /\ (f = "bpm" => tapped' = tapped)
      BY <1>1, <2>2, <2>6
    <3>2. EnteredOrRounded(f) /\ TextTells(f)
      BY DEF FieldsInv
    <3> QED
      BY <3>1, <3>2 DEF EnteredOrRounded, TextTells
  <2>7. EnteredOrRounded(field)' /\ TextTells(field)'
    <3>1. value'[field] = number /\ text'[field] = Display(number) /\ typed'[field] = Nothing
      BY <1>1, <2>2
    <3>2. TextTells(field)'
      BY <3>1 DEF TextTells
    <3>3. CASE typed[field] # Nothing
      <4>1. entered'[field] = number
        BY <1>1, <2>2, <3>3
      <4> QED
        BY <3>1, <3>2, <4>1 DEF EnteredOrRounded
    <3>4. CASE typed[field] = Nothing
      <4>1. entered'[field] = entered[field] /\ tapped' = tapped
        BY <1>1, <2>2, <3>4
      <4>2. /\ EnteredOrRounded(field) /\ TextTells(field)
            /\ value[field] \in Int /\ entered[field] \in Int
        BY <1>1 DEF FieldsInv
      <4>3. CASE number = Display(value[field])
        <5>1. /\ Display(Display(entered[field])) = Display(entered[field])
              /\ Display(Rounded(entered[field], TapDisplayStep))
                 = Rounded(entered[field], TapDisplayStep)
          BY <4>2, DisplayIsInt
        <5> QED
          BY <3>1, <3>2, <4>1, <4>2, <4>3, <5>1 DEF EnteredOrRounded
      <4>4. CASE /\ field = "bpm" /\ tapped /\ value[field] = entered[field]
                 /\ number = Rounded(value[field], TapDisplayStep)
        BY <3>1, <3>2, <4>1, <4>4 DEF EnteredOrRounded
      <4> QED
        BY <3>4, <4>2, <4>3, <4>4 DEF TextTells, number
    <3> QED
      BY <3>3, <3>4
  <2> QED
    BY <2>4, <2>5, <2>6, <2>7 DEF FieldsInv, FocusHasTrack
<1> QED
  BY <1>2, <1>3

LEMMA FieldsInit == ASSUME ControlsAssumption, ControlsInit PROVE FieldsInv
<1>1. /\ value = Default /\ text = Default /\ entered = Default
      /\ track = Nothing /\ focus = Nothing /\ typed = [f \in Fields |-> Nothing]
      /\ enabled = FALSE /\ checkbox = FALSE /\ tapped = FALSE
  BY DEF ControlsInit
<1>2. ControlsTypeOK
  BY <1>1, DefaultIsValid DEF ControlsTypeOK
<1>3. ASSUME NEW f \in Fields PROVE EnteredOrRounded(f) /\ TextTells(f)
  BY <1>1, DefaultIsValid DEF EnteredOrRounded, TextTells
<1> QED
  BY <1>1, <1>2, <1>3 DEF FieldsInv, FocusHasTrack, TypedForThisTrack

(* Text that is being typed, or is put back as it was *)
LEMMA TextKeeps ==
  ASSUME ControlsAssumption, FieldsInv, focus # Nothing,
         NEW t \in Int \cup {Garbage}, NEW who \in {Nothing, track},
         text' = [text EXCEPT ![focus] = t], typed' = [typed EXCEPT ![focus] = who],
         who = Nothing => t = Display(value[focus]),
         UNCHANGED <<track, value, enabled, checkbox, focus, entered, tapped>>
  PROVE  FieldsInv'
<1>1. /\ text \in [Fields -> Int \cup {Garbage}] /\ typed \in [Fields -> Tracks \cup {Nothing}]
      /\ focus \in Fields /\ track \in Tracks \cup {Nothing}
  BY DEF FieldsInv, ControlsTypeOK
<1>2. text' \in [Fields -> Int \cup {Garbage}] /\ typed' \in [Fields -> Tracks \cup {Nothing}]
  BY <1>1
<1>3. ControlsTypeOK'
  BY <1>2 DEF FieldsInv, ControlsTypeOK
<1>4. TypedForThisTrack'
  BY <1>1 DEF FieldsInv, TypedForThisTrack
<1>5. ASSUME NEW f \in Fields PROVE EnteredOrRounded(f)' /\ TextTells(f)'
  <2>1. EnteredOrRounded(f) /\ TextTells(f)
    BY DEF FieldsInv
  <2>2. EnteredOrRounded(f)'
    BY <2>1 DEF EnteredOrRounded
  <2>3. CASE f = focus
    BY <1>1, <2>2, <2>3 DEF TextTells
  <2>4. CASE f # focus
    BY <1>1, <2>1, <2>2, <2>4 DEF TextTells
  <2> QED
    BY <2>3, <2>4
<1> QED
  BY <1>3, <1>4, <1>5 DEF FieldsInv, FocusHasTrack

(* A tempo tapped, which is entered as it is and shown with fewer digits *)
LEMMA TapKeeps == ASSUME ControlsAssumption, FieldsInv, RecordTap PROVE FieldsInv'
<1>1. /\ value \in [Fields -> Int] /\ \A f \in Fields : Accepts(f, value[f])
      /\ text \in [Fields -> Int \cup {Garbage}] /\ typed \in [Fields -> Tracks \cup {Nothing}]
      /\ entered \in [Fields -> Int]
  BY DEF FieldsInv, ControlsTypeOK
<1>2. UNCHANGED <<track, enabled, checkbox, focus>>
  BY DEF RecordTap
<1>3. CASE UNCHANGED <<value, text, typed, entered, tapped>>
  <2>1. \A f \in Fields : EnteredOrRounded(f)' /\ TextTells(f)'
    BY <1>3 DEF FieldsInv, EnteredOrRounded, TextTells
  <2>2. ControlsTypeOK'
    BY <1>2, <1>3 DEF FieldsInv, ControlsTypeOK
  <2> QED
    BY <1>2, <1>3, <2>1, <2>2 DEF FieldsInv, FocusHasTrack, TypedForThisTrack
<1>4. CASE result'.bpm # Nothing /\ Accepts("bpm", TapBpm(result'.bpm))
  <2> DEFINE bpm == TapBpm(result'.bpm)
  <2>1. /\ value' = [value EXCEPT !["bpm"] = bpm]
        /\ text' = [text EXCEPT !["bpm"] = Rounded(bpm, TapDisplayStep)]
        /\ typed' = [typed EXCEPT !["bpm"] = Nothing]
        /\ entered' = [entered EXCEPT !["bpm"] = bpm]
        /\ tapped' = TRUE
    BY <1>4 DEF RecordTap
  <2>2. Accepts("bpm", bpm)
    BY <1>4
  <2> HIDE DEF bpm
  <2>3. bpm \in Int /\ Rounded(bpm, TapDisplayStep) \in Int /\ "bpm" \in Fields
    BY <2>2, DisplayIsInt DEF Accepts, Fields
  <2>4. /\ value' \in [Fields -> Int] /\ \A f \in Fields : Accepts(f, value'[f])
        /\ entered' \in [Fields -> Int]
    BY <1>1, <2>1, <2>2, <2>3
  <2>5. text' \in [Fields -> Int \cup {Garbage}] /\ typed' \in [Fields -> Tracks \cup {Nothing}]
    BY <1>1, <2>1, <2>3
  <2>6. ControlsTypeOK'
    BY <1>2, <2>1, <2>4, <2>5 DEF FieldsInv, ControlsTypeOK, Accepts
  <2>7. ASSUME NEW f \in Fields PROVE EnteredOrRounded(f)' /\ TextTells(f)'
    <3>1. CASE f = "bpm"
      BY <1>1, <2>1, <3>1 DEF EnteredOrRounded, TextTells
    <3>2. CASE f # "bpm"
      <4>1. /\ value'[f] = value[f] /\ text'[f] = text[f] /\ typed'[f] = typed[f]
            /\ entered'[f] = entered[f]
        BY <1>1, <2>1, <3>2
      <4>2. EnteredOrRounded(f) /\ TextTells(f)
        BY DEF FieldsInv
      <4> QED
        BY <3>2, <4>1, <4>2 DEF EnteredOrRounded, TextTells
    <3> QED
      BY <3>1, <3>2
  <2>8. TypedForThisTrack'
    BY <1>1, <1>2, <2>1 DEF FieldsInv, TypedForThisTrack
  <2> QED
    BY <1>2, <2>6, <2>7, <2>8 DEF FieldsInv, FocusHasTrack
<1> QED
  BY <1>3, <1>4 DEF RecordTap

(* Values of a track that begins, or of none *)
LEMMA LoadKeeps ==
  ASSUME ControlsAssumption, FieldsInv, ClearEditor \/ (\E t \in Tracks : StartTrack(t))
  PROVE  FieldsInv'
<1>1. SyncControls /\ enabled' = FALSE /\ entered' = value' /\ tapped' = FALSE
      /\ track' \in Tracks \cup {Nothing}
  BY DEF ClearEditor, StartTrack, LoadEditorForTrack
<1>2. value' \in [Fields -> Int] /\ \A f \in Fields : Accepts(f, value'[f])
  <2>1. CASE value' = Default
    BY <2>1, DefaultIsValid
  <2>2. CASE \E bpm \in SavedTempi \cup {Default.bpm} : value' = [Default EXCEPT !.bpm = bpm]
    <3>1. PICK bpm \in SavedTempi \cup {Default.bpm} : value' = [Default EXCEPT !["bpm"] = bpm]
      BY <2>2
    <3>2. "bpm" \in Fields
      BY DEF Fields
    <3>3. Accepts("bpm", bpm)
      <4>1. CASE bpm = Default.bpm
        BY <3>2, <4>1, DefaultIsValid
      <4>2. CASE bpm \in SavedTempi
        <5>1. /\ UnitsPerBpm \in Nat \ {0}
              /\ SavedTempi \subseteq 20 * UnitsPerBpm .. 300 * UnitsPerBpm
          BY DEF ControlsAssumption
        <5> QED
          BY <4>2, <5>1 DEF Accepts
      <4> QED
        BY <3>1, <4>1, <4>2
    <3>4. bpm \in Int
      BY <3>3 DEF Accepts
    <3> QED
      BY <3>1, <3>2, <3>3, <3>4, DefaultIsValid
  <2> QED
    BY <2>1, <2>2 DEF ClearEditor, StartTrack, LoadEditorForTrack
<1> QED
  BY <1>1, <1>2, SyncKeeps

LEMMA FieldsStep ==
  ASSUME ControlsAssumption, FieldsInv, [ControlsNext]_control_vars
  PROVE  FieldsInv'
<1>1. focus \in Fields \cup {Nothing} /\ (track = Nothing => focus = Nothing)
      /\ track \in Tracks \cup {Nothing}
      /\ value \in [Fields -> Int]
  BY DEF FieldsInv, ControlsTypeOK, FocusHasTrack
<1>2. CASE Type
  <2>1. PICK number \in Typed \cup {Garbage} : text' = [text EXCEPT ![focus] = number]
    BY <1>2 DEF Type
  <2>2. number \in Int \cup {Garbage} /\ track # Nothing
    BY <1>1, <1>2 DEF ControlsAssumption, Type
  <2> QED
    BY <1>2, <2>1, <2>2, TextKeeps DEF Type
<1>3. CASE Enter
  BY <1>1, <1>3, CommitKeeps DEF Enter
<1>4. CASE Escape
  <2>1. Display(value[focus]) \in Int
    BY <1>1, <1>4, DisplayIsInt DEF Escape
  <2> QED
    BY <1>4, <2>1, TextKeeps DEF Escape
<1>5. CASE MoveFocus
  <2>1. CASE focus # Nothing
    BY <1>1, <1>5, <2>1, CommitKeeps DEF MoveFocus
  <2>2. CASE focus = Nothing
    <3>1. UNCHANGED <<track, value, enabled, checkbox, text, typed, entered, tapped>>
          /\ track # Nothing /\ focus' \in Fields \cup {Nothing}
      BY <1>5, <2>2 DEF MoveFocus
    <3>2. \A f \in Fields : EnteredOrRounded(f)' /\ TextTells(f)'
      BY <3>1 DEF FieldsInv, EnteredOrRounded, TextTells
    <3>3. ControlsTypeOK'
      BY <3>1 DEF FieldsInv, ControlsTypeOK
    <3> QED
      BY <3>1, <3>2, <3>3 DEF FieldsInv, FocusHasTrack, TypedForThisTrack
  <2> QED
    BY <2>1, <2>2
<1>6. CASE RecordTap
  BY <1>6, TapKeeps
<1>7. CASE ClickLoop
  <2>1. enabled' \in BOOLEAN
    BY <1>7 DEF ClickLoop
  <2> QED
    BY <1>1, <1>7, <2>1, SyncKeeps DEF ClickLoop
<1>8. CASE ForceLoopOff
  BY <1>1, <1>8, SyncKeeps DEF ForceLoopOff
<1>9. CASE ClearEditor \/ (\E t \in Tracks : StartTrack(t))
  BY <1>9, LoadKeeps
<1>10. CASE UNCHANGED control_vars
  <2>1. \A f \in Fields : EnteredOrRounded(f)' /\ TextTells(f)'
    BY <1>10 DEF control_vars, FieldsInv, EnteredOrRounded, TextTells
  <2>2. ControlsTypeOK'
    BY <1>10 DEF control_vars, FieldsInv, ControlsTypeOK
  <2> QED
    BY <1>10, <2>1, <2>2 DEF control_vars, FieldsInv, FocusHasTrack, TypedForThisTrack
<1> QED
  BY <1>2, <1>3, <1>4, <1>5, <1>6, <1>7, <1>8, <1>9, <1>10 DEF ControlsNext

------------------------------------------------------------------------------
(* The run of taps *)

GapAt(t, i) == t[i] - t[i - 1]

(* The last unbroken run of the taps t begins with the one numbered i. *)
BeginsRun(t, i) ==
  /\ i \in 1 .. Len(t)
  /\ i = 1 \/ GapAt(t, i) \notin TapTempoOfPanel!Interval
  /\ \A j \in i + 1 .. Len(t) : GapAt(t, j) \in TapTempoOfPanel!Interval

FirstKept(t, i) == IF Len(t) - i > MaximumIntervals THEN Len(t) - MaximumIntervals ELSE i

GapsKept(t, i) == [k \in 1 .. Len(t) - FirstKept(t, i) |-> GapAt(t, FirstKept(t, i) + k)]

(* There is a run, and what is kept is its end. *)
RunKept(tempo, t) ==
  /\ t \in Seq(Int)
  /\ t = <<>> => tempo = TapTempoOfPanel!NoTaps
  /\ t # <<>> => \E i \in 1 .. Len(t) :
       BeginsRun(t, i) /\ tempo = [previous |-> t[Len(t)], intervals |-> GapsKept(t, i)]

LEMMA OneBeginning ==
  ASSUME NEW t \in Seq(Int), NEW i, NEW j, BeginsRun(t, i), BeginsRun(t, j)
  PROVE  i = j
<1>1. i \in Int /\ j \in Int /\ Len(t) \in Nat
  BY DEF BeginsRun
<1>2. ~ (i < j) /\ ~ (j < i)
  BY <1>1 DEF BeginsRun
<1> QED
  BY <1>1, <1>2

LEMMA RunIsKept ==
  ASSUME RunKept(tap_tempo, taps)
  PROVE  TapsOfThisTrack
<1>1. CASE taps = <<>>
  BY <1>1 DEF RunKept, TapsOfThisTrack, TapTempoOfPanel!KeepsTheRun
<1>2. CASE taps # <<>>
  <2>1. taps \in Seq(Int)
    BY DEF RunKept
  <2>2. PICK i \in 1 .. Len(taps) :
          BeginsRun(taps, i)
          /\ tap_tempo = [previous |-> taps[Len(taps)], intervals |-> GapsKept(taps, i)]
    BY <1>2 DEF RunKept
  <2>3. TapTempoOfPanel!RunStart = CHOOSE j \in 1 .. Len(taps) : BeginsRun(taps, j)
    BY DEF TapTempoOfPanel!RunStart, BeginsRun, GapAt, TapTempoOfPanel!Gap
  <2>4. TapTempoOfPanel!RunStart = i
    BY <2>1, <2>2, <2>3, OneBeginning
  <2>5. TapTempoOfPanel!RecentGaps = GapsKept(taps, i)
    BY <2>4 DEF TapTempoOfPanel!RecentGaps, GapsKept, FirstKept, GapAt, TapTempoOfPanel!Gap
  <2>6. TapTempoOfPanel!LastTime = taps[Len(taps)]
    BY <1>2 DEF TapTempoOfPanel!LastTime
  <2> QED
    BY <1>2, <2>2, <2>5, <2>6 DEF TapsOfThisTrack, TapTempoOfPanel!KeepsTheRun
<1> QED
  BY <1>1, <1>2

(* A tap ends the run or goes on with it. *)
LEMMA TapGoesOn ==
  ASSUME ControlsAssumption, NEW tempo, NEW t, RunKept(tempo, t), NEW time \in Int
  PROVE  RunKept(TapTempoOfPanel!Tapped(tempo, time), Append(t, time))
<1> DEFINE next == TapTempoOfPanel!Tapped(tempo, time)
           longer == Append(t, time)
           n == Len(t)
<1>1. /\ MaximumIntervals \in Nat /\ MaximumIntervals >= 2 /\ InactivityTimeout \in Nat \ {0}
      /\ Nothing \notin Int
  BY DEF ControlsAssumption, TapTempoOfPanel!TapAssumption
<1>2. /\ t \in Seq(Int) /\ n \in Nat
      /\ longer \in Seq(Int) /\ Len(longer) = n + 1 /\ longer # <<>>
      /\ longer[n + 1] = time /\ \A k \in 1 .. n : longer[k] = t[k]
  <2>1. t \in Seq(Int)
    BY DEF RunKept
  <2>2. /\ longer \in Seq(Int) /\ Len(longer) = n + 1 /\ n \in Nat
        /\ longer[n + 1] = time /\ \A k \in 1 .. n : longer[k] = t[k]
    BY <2>1
  <2>3. longer # <<>>
    BY <2>2
  <2> QED
    BY <2>1, <2>2, <2>3
<1>3. next = [previous |-> time, intervals |-> TapTempoOfPanel!NextIntervals(tempo, time)]
  BY DEF TapTempoOfPanel!Tapped
<1> HIDE DEF next, longer, n
<1>4. ASSUME NEW i \in 1 .. n + 1, BeginsRun(longer, i),
             TapTempoOfPanel!NextIntervals(tempo, time) = GapsKept(longer, i)
      PROVE  RunKept(next, longer)
  BY <1>2, <1>3, <1>4 DEF RunKept
<1>5. GapsKept(longer, n + 1) = <<>>
  <2>1. FirstKept(longer, n + 1) = n + 1
    BY <1>1, <1>2 DEF FirstKept
  <2> QED
    BY <1>2, <2>1 DEF GapsKept
<1>6. CASE ~ TapTempoOfPanel!Continues(tempo, time)
  <2>1. TapTempoOfPanel!NextIntervals(tempo, time) = <<>>
    BY <1>6 DEF TapTempoOfPanel!NextIntervals
  <2>2. n + 1 = 1 \/ GapAt(longer, n + 1) \notin TapTempoOfPanel!Interval
    <3>1. SUFFICES ASSUME n # 0
                   PROVE  GapAt(longer, n + 1) \notin TapTempoOfPanel!Interval
      BY <1>2
    <3>2. tempo.previous = t[n] /\ t[n] \in Int
      BY <1>2, <3>1 DEF RunKept, n
    <3>3. GapAt(longer, n + 1) = time - t[n]
      BY <1>2, <3>1 DEF GapAt
    <3> QED
      BY <1>1, <1>6, <3>2, <3>3 DEF TapTempoOfPanel!Continues, TapTempoOfPanel!Interval
  <2>3. BeginsRun(longer, n + 1)
    BY <1>2, <2>2 DEF BeginsRun
  <2> QED
    BY <1>2, <1>4, <1>5, <2>1, <2>3 DEF next, longer
<1>7. CASE TapTempoOfPanel!Continues(tempo, time)
  <2>1. t # <<>>
    BY <1>7 DEF RunKept, TapTempoOfPanel!NoTaps, TapTempoOfPanel!Continues
  <2>2. PICK i \in 1 .. n :
          BeginsRun(t, i) /\ tempo = [previous |-> t[n], intervals |-> GapsKept(t, i)]
    BY <2>1 DEF RunKept, n
  <2>3. n \in Nat \ {0} /\ t[n] \in Int
    BY <1>2, <2>2
  <2>4. GapAt(longer, n + 1) = time - t[n]
    BY <1>2, <2>3 DEF GapAt
  <2>5. GapAt(longer, n + 1) \in TapTempoOfPanel!Interval
    BY <1>1, <1>7, <2>2, <2>3, <2>4 DEF TapTempoOfPanel!Continues, TapTempoOfPanel!Interval
  <2>6. \A k \in 2 .. n : GapAt(longer, k) = GapAt(t, k)
    BY <1>2 DEF GapAt
  <2>7. BeginsRun(longer, i)
    <3>1. i = 1 \/ GapAt(longer, i) \notin TapTempoOfPanel!Interval
      BY <2>2, <2>3, <2>6 DEF BeginsRun
    <3>2. ASSUME NEW j \in i + 1 .. n + 1 PROVE GapAt(longer, j) \in TapTempoOfPanel!Interval
      <4>1. CASE j = n + 1
        BY <2>5, <4>1
      <4>2. CASE j # n + 1
        <5>1. j \in i + 1 .. n /\ j \in 2 .. n
          BY <2>3, <4>2
        <5>2. GapAt(t, j) \in TapTempoOfPanel!Interval
          BY <2>2, <5>1 DEF BeginsRun, n
        <5> QED
          BY <2>6, <5>1, <5>2
      <4> QED
        BY <4>1, <4>2
    <3> QED
      BY <1>2, <2>2, <2>3, <3>1, <3>2 DEF BeginsRun
  <2> DEFINE first == FirstKept(t, i)
             gaps == GapsKept(t, i)
             gap == time - t[n]
  <2>8. /\ first \in i .. n /\ n - first <= MaximumIntervals /\ i >= 1
        /\ FirstKept(longer, i) = IF n - first = MaximumIntervals THEN first + 1 ELSE first
    <3>1. i \in Int /\ 1 <= i /\ i <= n /\ n \in Int
      BY <2>2, <2>3
    <3>2. first = IF n - i > MaximumIntervals THEN n - MaximumIntervals ELSE i
      BY DEF FirstKept, n
    <3>3. FirstKept(longer, i)
            = IF n + 1 - i > MaximumIntervals THEN n + 1 - MaximumIntervals ELSE i
      <4>1. Len(longer) = n + 1
        BY <1>2
      <4> QED
        BY <1>1, <3>1, <4>1 DEF FirstKept
    <3> HIDE DEF first
    <3> QED
      BY <1>1, <3>1, <3>2, <3>3
  <2>9. gaps = [k \in 1 .. n - first |-> GapAt(t, first + k)]
    BY DEF GapsKept, n
  <2> HIDE DEF first, gaps
  <2>10. /\ gaps \in Seq(Int) /\ Len(gaps) = n - first
         /\ \A k \in 1 .. n - first : gaps[k] = GapAt(longer, first + k)
    <3> HIDE DEF first
    <3>1. ASSUME NEW k \in 1 .. n - first
          PROVE  GapAt(t, first + k) \in Int /\ GapAt(t, first + k) = GapAt(longer, first + k)
      <4>1. first + k \in 2 .. n /\ (first + k) - 1 \in 1 .. n /\ first + k \in 1 .. n
        BY <2>3, <2>8
      <4>2. \A x \in 1 .. n : t[x] \in Int
        BY <1>2 DEF n
      <4>3. GapAt(t, first + k) = t[first + k] - t[(first + k) - 1]
        BY DEF GapAt
      <4>4. GapAt(t, first + k) \in Int
        BY <4>1, <4>2, <4>3
      <4> QED
        BY <2>6, <4>1, <4>4
    <3>2. n - first \in Nat
      BY <2>3, <2>8
    <3>3. gaps \in [1 .. n - first -> Int]
      BY <2>9, <3>1
    <3>4. gaps \in Seq(Int) /\ Len(gaps) = n - first
      BY <3>2, <3>3
    <3> QED
      BY <2>9, <3>1, <3>4
  <2>11. TapTempoOfPanel!NextIntervals(tempo, time) = TapTempoOfPanel!Push(gaps, gap)
    BY <1>7, <2>2 DEF TapTempoOfPanel!NextIntervals, gaps
  <2>12. TapTempoOfPanel!Push(gaps, gap) = GapsKept(longer, i)
    <3> DEFINE more == Append(gaps, gap)
    <3>1. /\ more \in Seq(Int) /\ Len(more) = n - first + 1
          /\ \A k \in 1 .. n - first + 1 : more[k] = GapAt(longer, first + k)
      <4>1. n - first \in Nat /\ gap \in Int /\ first + (n - first + 1) = n + 1
        BY <2>3, <2>8
      <4>2. /\ more \in Seq(Int) /\ Len(more) = n - first + 1
            /\ more[n - first + 1] = gap /\ \A k \in 1 .. n - first : more[k] = gaps[k]
        BY <2>10, <4>1
      <4>3. gap = GapAt(longer, first + (n - first + 1))
        BY <2>4, <4>1
      <4> HIDE DEF more, gap
      <4>4. ASSUME NEW k \in 1 .. n - first + 1 PROVE more[k] = GapAt(longer, first + k)
        <5>1. CASE k = n - first + 1
          BY <4>2, <4>3, <5>1
        <5>2. CASE k # n - first + 1
          BY <2>10, <4>1, <4>2, <5>2
        <5> QED
          BY <5>1, <5>2
      <4> QED
        BY <4>2, <4>4
    <3> HIDE DEF more
    <3>2. TapTempoOfPanel!Push(gaps, gap)
            = IF n - first + 1 > MaximumIntervals THEN Tail(more) ELSE more
      BY <3>1 DEF TapTempoOfPanel!Push, more
    <3>3. CASE n - first = MaximumIntervals
      <4>1. FirstKept(longer, i) = first + 1
        BY <2>8, <3>3
      <4>2. GapsKept(longer, i) = [k \in 1 .. n - first |-> GapAt(longer, first + 1 + k)]
        BY <1>2, <2>3, <2>8, <4>1 DEF GapsKept
      <4>3. Tail(more) = [k \in 1 .. n - first |-> more[k + 1]]
        <5>1. n - first + 1 \in Nat \ {0} /\ n - first + 1 - 1 = n - first
          BY <2>3, <2>8
        <5>2. /\ Tail(more) \in Seq(Int) /\ Len(Tail(more)) = n - first
              /\ \A k \in 1 .. n - first : Tail(more)[k] = more[k + 1]
          <6>1. more # <<>>
            BY <3>1, <5>1
          <6> QED
            <7>1. /\ Tail(more) \in Seq(Int) /\ Len(Tail(more)) = Len(more) - 1
                  /\ \A k \in 1 .. Len(Tail(more)) : Tail(more)[k] = more[k + 1]
              BY <3>1, <6>1, HeadTailProperties
            <7>2. Len(Tail(more)) = n - first
              BY <2>3, <2>8, <3>1, <7>1
            <7> QED
              BY <7>1, <7>2
        <5>3. DOMAIN Tail(more) = 1 .. n - first
          BY <5>2
        <5>4. Tail(more) = [k \in 1 .. n - first |-> Tail(more)[k]]
          <6>1. Tail(more) \in [1 .. n - first -> Int]
            BY <5>2, LenProperties
          <6> QED
            BY <6>1
        <5> QED
          BY <5>2, <5>4
      <4>4. \A k \in 1 .. n - first : more[k + 1] = GapAt(longer, first + 1 + k)
        BY <2>3, <2>8, <3>1
      <4>5. TapTempoOfPanel!Push(gaps, gap) = Tail(more)
        <5>1. n - first + 1 > MaximumIntervals
          BY <1>1, <2>3, <2>8, <3>3
        <5> QED
          BY <3>2, <5>1, Zenon
      <4> QED
        BY <4>2, <4>3, <4>4, <4>5
    <3>4. CASE n - first # MaximumIntervals
      <4>1. FirstKept(longer, i) = first
        BY <2>8, <3>4
      <4>2. GapsKept(longer, i) = [k \in 1 .. n - first + 1 |-> GapAt(longer, first + k)]
        BY <1>2, <2>3, <2>8, <4>1 DEF GapsKept
      <4>3. more = [k \in 1 .. n - first + 1 |-> GapAt(longer, first + k)]
        BY <2>3, <2>8, <3>1
      <4> QED
        BY <1>1, <2>3, <2>8, <3>2, <3>4, <4>2, <4>3
    <3> QED
      BY <3>3, <3>4
  <2> QED
    <3>1. i \in 1 .. n + 1
      BY <2>2, <2>3
    <3> QED
      BY <1>4, <2>7, <2>11, <2>12, <3>1 DEF next, longer
<1> QED
  BY <1>6, <1>7 DEF next, longer

ControlsInv == FieldsInv /\ RunKept(tap_tempo, taps)

LEMMA RunStep ==
  ASSUME ControlsAssumption, RunKept(tap_tempo, taps), [ControlsNext]_control_vars
  PROVE  RunKept(tap_tempo', taps')
<1>1. CASE UNCHANGED <<tap_tempo, taps>>
  BY <1>1
<1>2. CASE RecordTap
  <2>1. PICK gap \in Gaps : /\ tap_tempo' = TapTempoOfPanel!Tapped(tap_tempo, LastTap + gap)
                            /\ taps' = Append(taps, LastTap + gap)
    BY <1>2 DEF RecordTap
  <2>2. gap \in Int
    BY DEF ControlsAssumption, TapTempoOfPanel!TapAssumption
  <2>3. LastTap \in Int
    <3>1. taps \in Seq(Int)
      BY DEF RunKept
    <3> QED
      BY <3>1 DEF LastTap
  <2> QED
    BY <2>1, <2>2, <2>3, TapGoesOn
<1>3. CASE ClearEditor \/ (\E t \in Tracks : StartTrack(t))
  <2>1. taps' = <<>> /\ tap_tempo' = TapTempoOfPanel!NoTaps
    BY <1>3 DEF ClearEditor, StartTrack, LoadEditorForTrack, TapsForgotten
  <2> QED
    BY <2>1 DEF RunKept
<1> QED
  BY <1>1, <1>2, <1>3
  DEF ControlsNext, control_vars, Type, Enter, Escape, MoveFocus, ClickLoop, ForceLoopOff

LEMMA RunInit == ControlsInit => RunKept(tap_tempo, taps)
BY DEF ControlsInit, RunKept

THEOREM ControlsInvariance == ASSUME ControlsAssumption PROVE ControlsSpec => []ControlsInv
<1>1. ControlsInit => ControlsInv
  BY FieldsInit, RunInit DEF ControlsInv
<1>2. ControlsInv /\ [ControlsNext]_control_vars => ControlsInv'
  BY FieldsStep, RunStep DEF ControlsInv
<1> QED
  BY <1>1, <1>2, PTL DEF ControlsSpec

(* For any tracks, tempi, taps and input: what the fields and the check    *)
(* mark show is what the engine holds or what is being typed for the       *)
(* present track, and the tap tempo knows the taps of that track only.     *)
THEOREM FieldsStayRight == ASSUME ControlsAssumption PROVE ControlsSpec => []FieldsAreRight
<1>1. ControlsInv => FieldsAreRight
  <2>1. FieldsInv => ShowsEngine
    BY DEF FieldsInv, ShowsEngine, TextTells
  <2> QED
    BY <2>1, RunIsKept DEF ControlsInv, FieldsInv, FieldsAreRight
<1> QED
  BY <1>1, ControlsInvariance, PTL

(* However often fields lose the focus and are read back, a value is       *)
(* within one rounding of what was typed, tapped or loaded.                *)
THEOREM ValuesRoundedOnce == ASSUME ControlsAssumption PROVE ControlsSpec => []RoundedOnce
<1>1. ControlsInv => RoundedOnce
  <2> SUFFICES ASSUME FieldsInv, NEW f \in Fields
               PROVE  WithinRounding(value[f], entered[f],
                        IF f = "bpm" /\ tapped THEN TapDisplayStep ELSE DisplayStep)
    BY DEF ControlsInv, RoundedOnce
  <2>1. value[f] \in Int /\ entered[f] \in Int /\ EnteredOrRounded(f)
    BY DEF FieldsInv, ControlsTypeOK
  <2>2. DisplayStep \in Nat \ {0} /\ TapDisplayStep \in Nat \ {0} /\ DisplayStep <= TapDisplayStep
    <3>1. PICK c \in Nat \ {0} : TapDisplayStep = c * DisplayStep
      BY CoarserStep
    <3>2. c * DisplayStep >= 1 * DisplayStep
      BY <3>1, Steps
    <3> QED
      BY <3>1, <3>2, Steps
  <2>3. CASE value[f] = entered[f]
    BY <2>1, <2>2, <2>3 DEF WithinRounding
  <2>4. CASE value[f] = Display(entered[f])
    <3>1. WithinRounding(value[f], entered[f], DisplayStep)
      BY <2>1, <2>2, <2>4, RoundedIsNear DEF Display
    <3> QED
      BY <2>1, <2>2, <3>1 DEF WithinRounding
  <2>5. CASE f = "bpm" /\ tapped /\ value[f] = Rounded(entered[f], TapDisplayStep)
    BY <2>1, <2>2, <2>5, RoundedIsNear
  <2> QED
    BY <2>1, <2>3, <2>4, <2>5 DEF EnteredOrRounded
<1> QED
  BY <1>1, ControlsInvariance, PTL

------------------------------------------------------------------------------
(* The grid lines: whole numbers *)

(* Quotients and remainders, by name. *)
Quo(a, b) == a \div b
Rem(a, b) == a % b
Product(a, b) == a * b

Division(a, b, q, r) == 0 <= r /\ r < b /\ a = b * q + r

Multiple(a, b) == \E k \in Int : a = b * k

Wraps(x, a, b) == \E k \in Int : x = a + k * b

(* A quotient and its remainder are the only ones. *)
LEMMA Euclid ==
  ASSUME NEW a \in Int, NEW b \in Nat \ {0}
  PROVE  /\ Quo(a, b) \in Int /\ Rem(a, b) \in Int /\ 0 <= Rem(a, b) /\ Rem(a, b) < b
         /\ a = Product(b, Quo(a, b)) + Rem(a, b)
         /\ \A q, r \in Int : Division(a, b, q, r) => q = Quo(a, b) /\ r = Rem(a, b)
<1>1. /\ Quo(a, b) \in Int /\ Rem(a, b) \in Int /\ 0 <= Rem(a, b) /\ Rem(a, b) < b
      /\ a = b * Quo(a, b) + Rem(a, b)
  BY DEF Quo, Rem
<1>2. ASSUME NEW p \in Int, NEW q \in Int, p < q PROVE b * p + b <= b * q
  <2>1. PICK d \in Nat : q = p + 1 + d
    <3>1. q - p - 1 \in Nat /\ q = p + 1 + (q - p - 1)
      BY <1>2
    <3> QED
      BY <3>1
  <2>2. b * q = b * p + b + b * d /\ b * d >= 0 /\ b * p \in Int /\ b * d \in Int
    BY <2>1
  <2> QED
    BY <2>2
<1>3. ASSUME NEW q \in Int, NEW r \in Int, Division(a, b, q, r)
      PROVE  q = Quo(a, b) /\ r = Rem(a, b)
  <2> DEFINE p == Quo(a, b)
             n == Rem(a, b)
             x == b * q
             y == b * p
  <2>1. p \in Int /\ n \in Int /\ 0 <= n /\ n < b /\ 0 <= r /\ r < b
       /\ a = y + n /\ a = x + r /\ x \in Int /\ y \in Int
    BY <1>1, <1>3 DEF Division
  <2>2. (p < q => y + b <= x) /\ (q < p => x + b <= y)
    BY <1>2, <2>1
  <2>3. p = q
    <3> HIDE DEF p, n, x, y
    <3> QED
      BY <2>1, <2>2
  <2>4. r = n
    <3>1. x = y
      BY <2>3
    <3> HIDE DEF p, n, x, y
    <3> QED
      BY <2>1, <3>1
  <2> QED
    BY <2>3, <2>4
<1> QED
  BY <1>1, <1>3 DEF Product

(* Counting in steps of s changes neither. *)
LEMMA Scaled ==
  ASSUME NEW a \in Int, NEW b \in Nat \ {0}, NEW s \in Nat \ {0}
  PROVE  /\ Product(a, s) \in Int /\ Product(b, s) \in Nat \ {0}
         /\ Quo(Product(a, s), Product(b, s)) = Quo(a, b)
         /\ Rem(Product(a, s), Product(b, s)) = Product(Rem(a, b), s)
<1> DEFINE q == Quo(a, b)
           r == Rem(a, b)
           x == Product(a, s)
           y == Product(b, s)
           z == Product(r, s)
<1>1. q \in Int /\ r \in Int /\ 0 <= r /\ r < b /\ a = b * q + r
  BY Euclid DEF Product
<1>2. x = a * s /\ y = b * s /\ z = r * s
  BY DEF Product
<1> HIDE DEF q, r, x, y, z
<1>3. x \in Int /\ y \in Nat \ {0} /\ z \in Int /\ 0 <= z
  BY <1>1, <1>2
<1>4. x = y * q + z
  BY <1>1, <1>2
<1>5. z < y
  <2> DEFINE v == (b - r) * s
  <2>1. b - r \in Nat \ {0} /\ y = z + v
    BY <1>1, <1>2
  <2>2. v > 0 /\ v \in Int
    BY <2>1
  <2> HIDE DEF v
  <2> QED
    BY <1>3, <2>1, <2>2
<1>6. Division(x, y, q, z)
  BY <1>3, <1>4, <1>5 DEF Division
<1>7. q = Quo(x, y) /\ z = Rem(x, y)
  BY <1>1, <1>3, <1>6, Euclid
<1> QED
  BY <1>3, <1>7 DEF q, r, x, y, z

(* Multiples of the divisor do not change a remainder. *)
LEMMA Wrapped ==
  ASSUME NEW a \in Int, NEW b \in Nat \ {0}, NEW x \in Int, Wraps(x, a, b)
  PROVE  Rem(x, b) = Rem(a, b)
<1> DEFINE q == Quo(a, b)
           r == Rem(a, b)
<1>1. q \in Int /\ r \in Int /\ 0 <= r /\ r < b /\ a = b * q + r
  BY Euclid DEF Product
<1> HIDE DEF q, r
<1>2. PICK k \in Int : x = a + k * b
  BY DEF Wraps
<1>3. PICK l \in Int : l = q + k
  BY <1>1
<1>4. Division(x, b, l, r)
  BY <1>1, <1>2, <1>3 DEF Division
<1>5. r = Rem(x, b)
  BY <1>1, <1>4, Euclid
<1> QED
  BY <1>5 DEF r

(* Multiples, and multiples of multiples. *)
LEMMA MultipleOf ==
  ASSUME NEW a \in Int, NEW b \in Nat \ {0}
  PROVE  Rem(a, b) = 0 <=> Multiple(a, b)
<1>1. Rem(a, b) = 0 => a = b * Quo(a, b) /\ Quo(a, b) \in Int
  BY Euclid DEF Product
<1>2. ASSUME NEW k \in Int, a = b * k PROVE Rem(a, b) = 0
  <2>1. PICK z \in Int : z = 0
    OBVIOUS
  <2>2. Division(a, b, k, z)
    BY <1>2, <2>1 DEF Division
  <2>3. z = Rem(a, b)
    BY <2>2, Euclid
  <2> QED
    BY <2>1, <2>3
<1> QED
  BY <1>1, <1>2 DEF Multiple

LEMMA MultipleOfMultiple ==
  ASSUME NEW a \in Int, NEW b \in Nat \ {0}, NEW c \in Nat \ {0}, Rem(a, b) = 0, Rem(b, c) = 0
  PROVE  Rem(a, c) = 0
<1>1. PICK k \in Int : a = b * k
  BY MultipleOf DEF Multiple
<1>2. PICK l \in Int : b = c * l
  BY MultipleOf DEF Multiple
<1>3. a = c * (l * k) /\ l * k \in Int
  BY <1>1, <1>2
<1>4. Multiple(a, c)
  BY <1>3 DEF Multiple
<1> QED
  BY <1>4, MultipleOf

(* Different multiples are at least one divisor apart. *)
LEMMA MultiplesApart ==
  ASSUME NEW a \in Int, NEW b \in Int, NEW g \in Nat \ {0}, Rem(a, g) = 0, Rem(b, g) = 0, a < b
  PROVE  a + g <= b /\ Rem(a + g, g) = 0
<1>1. PICK k \in Int, l \in Int : a = g * k /\ b = g * l
  BY MultipleOf DEF Multiple
<1>2. k < l
  <2>1. ASSUME l <= k PROVE FALSE
    <3>1. PICK d \in Nat : k = l + d
      <4>1. k - l \in Nat /\ k = l + (k - l)
        BY <2>1
      <4> QED
        BY <4>1
    <3>2. g * k = g * l + g * d /\ g * d >= 0 /\ g * l \in Int /\ g * d \in Int
      BY <3>1
    <3> QED
      BY <1>1, <3>2
  <2> QED
    BY <2>1
<1>3. PICK d \in Nat : l = k + 1 + d
  <2>1. l - k - 1 \in Nat /\ l = k + 1 + (l - k - 1)
    BY <1>2
  <2> QED
    BY <2>1
<1>4. g * l = g * k + g + g * d /\ g * d >= 0 /\ g * k \in Int /\ g * d \in Int
  BY <1>3
<1>5. a + g = g * (k + 1) /\ k + 1 \in Int
  BY <1>1
<1>6. Multiple(a + g, g)
  BY <1>5 DEF Multiple
<1>7. Rem(a + g, g) = 0
  BY <1>6, MultipleOf
<1> QED
  BY <1>1, <1>4, <1>7

LEMMA CeilingIs ==
  ASSUME NEW a \in Int, NEW b \in Nat \ {0}
  PROVE  /\ CeilingOf(a, b) \in Int
         /\ Product(b, CeilingOf(a, b)) - b < a /\ a <= Product(b, CeilingOf(a, b))
<1> DEFINE q == Quo(-a, b)
           r == Rem(-a, b)
<1>1. q \in Int /\ r \in Int /\ 0 <= r /\ r < b /\ -a = b * q + r
  BY Euclid DEF Product
<1>2. CeilingOf(a, b) = -q
  BY DEF CeilingOf, Quo
<1> HIDE DEF q, r
<1>3. b * (-q) = -(b * q) /\ b * q \in Int
  BY <1>1
<1> QED
  BY <1>1, <1>2, <1>3 DEF Product

LEMMA FloorIs ==
  ASSUME NEW a \in Int, NEW b \in Nat \ {0}
  PROVE  Quo(a, b) \in Int /\ Product(b, Quo(a, b)) <= a /\ a < Product(b, Quo(a, b)) + b
<1>0. \A x \in Int : Product(b, x) \in Int
  BY DEF Product
<1>1. Quo(a, b) \in Int /\ Rem(a, b) \in Int /\ 0 <= Rem(a, b) /\ Rem(a, b) < b
      /\ a = Product(b, Quo(a, b)) + Rem(a, b)
  BY Euclid
<1> QED
  BY <1>0, <1>1

(* Products and order. *)
LEMMA ProductOrder ==
  ASSUME NEW a \in Int, NEW b \in Int, NEW c \in Nat \ {0}
  PROVE  (Product(c, a) <= Product(c, b)) = (a <= b)
<1>1. ASSUME NEW x \in Int, NEW y \in Int, x <= y PROVE c * x <= c * y
  <2>1. PICK d \in Nat : y = x + d
    <3>1. y - x \in Nat /\ y = x + (y - x)
      BY <1>1
    <3> QED
      BY <3>1
  <2>2. c * y = c * x + c * d /\ c * d >= 0 /\ c * x \in Int /\ c * d \in Int
    BY <2>1
  <2> QED
    BY <2>2
<1>2. ASSUME NEW x \in Int, NEW y \in Int, x < y PROVE c * x < c * y
  <2>1. PICK d \in Nat \ {0} : y = x + d
    <3>1. y - x \in Nat \ {0} /\ y = x + (y - x)
      BY <1>2
    <3> QED
      BY <3>1
  <2>2. c * y = c * x + c * d /\ c * d > 0 /\ c * x \in Int /\ c * d \in Int
    BY <2>1
  <2> QED
    BY <2>2
<1>3. CASE a <= b
  BY <1>1, <1>3 DEF Product
<1>4. CASE b < a
  <2>1. c * b < c * a /\ c * b \in Int /\ c * a \in Int
    BY <1>2, <1>4
  <2> QED
    BY <1>4, <2>1 DEF Product
<1> QED
  BY <1>3, <1>4 DEF Product

------------------------------------------------------------------------------
(* The grid lines: one line *)

GoodEngine(e) ==
  /\ e \in LoopState /\ Valid(e)
  /\ WholeStep(e.bpm, e.subdivisions_per_beat)

Period(e) == e.beats_per_bar * e.subdivisions_per_beat

(* A whole number of steps makes a beat, and a whole number of beats a bar. *)
LEMMA StepsInBeat ==
  ASSUME NEW t \in Nat \ {0}, NEW n \in Nat \ {0}, NEW sub \in Nat \ {0},
         Rem(t, Product(n, sub)) = 0
  PROVE  /\ Quo(t, Product(n, sub)) \in Nat \ {0}
         /\ Quo(t, n) = Product(sub, Quo(t, Product(n, sub)))
<1>1. PICK p \in Nat \ {0} : p = Product(n, sub)
  BY DEF Product
<1>2. PICK u \in Int : u = t
  OBVIOUS
<1>3. PICK s \in Int : s = Quo(u, p)
  BY Euclid
<1>4. Rem(u, p) = 0
  BY <1>1, <1>2
<1>5. u = Product(p, s) + Rem(u, p)
  BY <1>3, Euclid
<1>6. u = p * s /\ p = n * sub
  BY <1>1, <1>4, <1>5 DEF Product
<1>7. s \in Nat \ {0}
  <2>1. ASSUME s <= 0 PROVE FALSE
    <3>1. p * s <= 0
      BY <2>1
    <3> QED
      BY <1>2, <1>6, <3>1
  <2> QED
    BY <2>1
<1>8. PICK q \in Int : q = sub * s
  OBVIOUS
<1>9. Quo(u, n) = q
  <2>1. u = n * q
    BY <1>6, <1>8
  <2>2. PICK z \in Int : z = 0
    OBVIOUS
  <2>3. Division(u, n, q, z)
    BY <2>1, <2>2 DEF Division
  <2> QED
    BY <2>3, Euclid
<1>10. q = Product(sub, s)
  BY <1>8 DEF Product
<1> QED
  BY <1>1, <1>2, <1>3, <1>7, <1>9, <1>10

(* What the tempo and the meter make of a good engine: steps, beats and    *)
(* bars are whole multiples.                                               *)
LEMMA EngineNumbers ==
  ASSUME NEW e, GoodEngine(e)
  PROVE  /\ Step(e) \in Nat \ {0} /\ e.subdivisions_per_beat \in Nat \ {0}
         /\ e.beats_per_bar \in Nat \ {0} /\ e.grid_offset_seconds \in Int
         /\ BeatTicks(e) = Product(e.subdivisions_per_beat, Step(e))
         /\ Period(e) \in Nat \ {0} /\ Period(e) = Product(e.beats_per_bar, e.subdivisions_per_beat)
         /\ Rem(Period(e), e.subdivisions_per_beat) = 0
         /\ BarDuration(e) = Product(Period(e), Step(e)) /\ BarDuration(e) \in Nat \ {0}
<1> DEFINE n == e.bpm
           sub == e.subdivisions_per_beat
           beats == e.beats_per_bar
           s == Step(e)
           t == TicksPerMinute
           period == Period(e)
           bar == BarDuration(e)
<1>1. /\ n \in Nat \ {0} /\ sub \in Nat \ {0}
      /\ beats \in Nat /\ 1 <= beats /\ e.grid_offset_seconds \in Int
      /\ t \in Nat \ {0} /\ Rem(t, Product(n, sub)) = 0
  BY EngineAssumption DEF GoodEngine, LoopState, Valid, Seconds, WholeStep, Rem, Product
<1>2. s = Quo(t, Product(n, sub)) /\ BeatTicks(e) = Quo(t, n)
  BY DEF Step, BeatTicks, Quo, Product
<1>3. period = Product(beats, sub) /\ period = sub * beats /\ bar = s * sub * beats
  <2>1. sub \in Int /\ beats \in Int
    BY <1>1
  <2>2. period = beats * sub /\ bar = s * sub * beats
    BY DEF Period, BarDuration
  <2> QED
    BY <2>1, <2>2 DEF Product
<1> HIDE DEF n, sub, beats, s, t, period, bar
<1>4. s \in Nat \ {0} /\ BeatTicks(e) = Product(sub, s)
  BY <1>1, <1>2, StepsInBeat
<1>5. period \in Nat \ {0} /\ bar = Product(period, s)
  <2>1. sub * beats \in Nat \ {0} /\ s * sub * beats = (sub * beats) * s
    BY <1>1, <1>4
  <2> QED
    BY <1>3, <2>1 DEF Product
<1>6. Rem(period, sub) = 0
  <2>1. Multiple(period, sub)
    BY <1>1, <1>3 DEF Multiple
  <2> QED
    BY <1>1, <1>5, <2>1, MultipleOf
<1>7. bar \in Nat \ {0}
  BY <1>4, <1>5 DEF Product
<1> QED
  BY <1>1, <1>3, <1>4, <1>5, <1>6, <1>7 DEF n, sub, beats, s, period, bar

(* std::fmod leaves whole multiples away. *)
LEMMA FModIs ==
  ASSUME NEW a \in Int, NEW b \in Nat \ {0}
  PROVE  /\ FMod(a, b) \in Int /\ -b < FMod(a, b) /\ FMod(a, b) < b
         /\ Wraps(a, FMod(a, b), b)
<1>1. PICK m \in Nat : m = Magnitude(a) /\ (a < 0 => m = -a) /\ (a >= 0 => m = a)
  BY DEF Magnitude
<1>2. PICK q \in Int, r \in Int : 0 <= r /\ r < b /\ m = b * q + r /\ r = Rem(m, b)
  <2>1. Quo(m, b) \in Int /\ Rem(m, b) \in Int /\ 0 <= Rem(m, b) /\ Rem(m, b) < b /\ m = b * Quo(m, b) + Rem(m, b)
    BY Euclid DEF Product
  <2> QED
    BY <2>1
<1>3. CASE a < 0
  <2>1. PICK f \in Int, k \in Int : f = -r /\ k = -q
    OBVIOUS
  <2>2. FMod(a, b) = f
    BY <1>1, <1>2, <1>3, <2>1 DEF FMod, Rem
  <2>3. a = f + k * b
    BY <1>1, <1>2, <1>3, <2>1
  <2>4. Wraps(a, f, b)
    BY <2>3 DEF Wraps
  <2>5. -b < f /\ f < b
    BY <1>2, <2>1
  <2> QED
    BY <2>2, <2>4, <2>5
<1>4. CASE a >= 0
  <2>1. FMod(a, b) = r
    BY <1>1, <1>2, <1>4 DEF FMod, Rem
  <2>2. a = r + q * b
    BY <1>1, <1>2, <1>4
  <2>3. Wraps(a, r, b)
    BY <2>2 DEF Wraps
  <2>4. -b < r /\ r < b
    BY <1>2
  <2> QED
    BY <2>1, <2>3, <2>4
<1> QED
  BY <1>3, <1>4

LEMMA PhaseIs ==
  ASSUME NEW e, GoodEngine(e)
  PROVE  /\ Phase(e) \in Int /\ -BarDuration(e) < Phase(e) /\ Phase(e) < BarDuration(e)
         /\ Wraps(e.grid_offset_seconds, Phase(e), BarDuration(e))
BY EngineNumbers, FModIs DEF Phase

LineType == [seconds : Int, is_bar : BOOLEAN, is_beat : BOOLEAN, beat_in_bar : Nat]

(* An index, and the ticks that index is from an offset of whole bars.     *)
LEMMA IndexAndTicks ==
  ASSUME NEW i \in Int, NEW s \in Nat \ {0}, NEW sub \in Nat \ {0}, NEW period \in Nat \ {0},
         Rem(period, sub) = 0, NEW ticks \in Int, Wraps(ticks, Product(i, s), Product(period, s))
  PROVE  /\ Rem(i, period) \in Nat /\ Rem(Rem(i, period), sub) = Rem(i, sub)
         /\ Quo(Rem(i, period), sub) \in Nat
         /\ Rem(ticks, s) = 0
         /\ (Rem(ticks, Product(sub, s)) = 0) = (Rem(i, sub) = 0)
         /\ (Rem(ticks, Product(period, s)) = 0) = (Rem(i, period) = 0)
         /\ Quo(Rem(ticks, Product(period, s)), Product(sub, s)) = Quo(Rem(i, period), sub)
<1>1. PICK c \in Int : period = sub * c
  <2>1. PICK p \in Int : p = period
    OBVIOUS
  <2>2. Multiple(p, sub)
    BY <2>1, MultipleOf
  <2> QED
    BY <2>1, <2>2 DEF Multiple
<1>2. PICK x \in Int, beat \in Nat \ {0}, bar \in Nat \ {0} :
        x = Product(i, s) /\ beat = Product(sub, s) /\ bar = Product(period, s)
  BY Scaled
<1>3. PICK n \in Nat : n = Rem(i, period)
  <2>1. Rem(i, period) \in Int /\ 0 <= Rem(i, period)
    BY Euclid
  <2> QED
    BY <2>1
<1>4. Rem(n, sub) = Rem(i, sub)
  <2>1. PICK q \in Int : q = Quo(i, period)
    BY Euclid
  <2>2. i = Product(period, q) + n
    BY <1>3, <2>1, Euclid
  <2>3. PICK k \in Int : k = c * q
    OBVIOUS
  <2>4. i = n + k * sub
    BY <1>1, <2>2, <2>3 DEF Product
  <2>5. Wraps(i, n, sub)
    BY <2>4 DEF Wraps
  <2>6. n \in Int
    OBVIOUS
  <2> QED
    BY <2>5, <2>6, Wrapped
<1>5. PICK k \in Int : ticks = x + k * bar
  BY <1>2 DEF Wraps
<1>6. Rem(ticks, bar) = Product(n, s)
  <2>1. Wraps(ticks, x, bar)
    BY <1>5 DEF Wraps
  <2>2. Rem(ticks, bar) = Rem(x, bar)
    BY <2>1, Wrapped
  <2>3. Rem(x, bar) = Product(Rem(i, period), s)
    BY <1>2, Scaled
  <2> QED
    BY <1>3, <2>2, <2>3
<1>7. Rem(ticks, beat) = Product(Rem(i, sub), s)
  <2>1. PICK l \in Int : l = k * c
    OBVIOUS
  <2>2. k * bar = l * beat
    BY <1>1, <1>2, <2>1 DEF Product
  <2>3. ticks = x + l * beat
    BY <1>5, <2>2
  <2>4. Wraps(ticks, x, beat)
    BY <2>3 DEF Wraps
  <2>5. Rem(ticks, beat) = Rem(x, beat)
    BY <2>4, Wrapped
  <2>6. Rem(x, beat) = Product(Rem(i, sub), s)
    BY <1>2, Scaled
  <2> QED
    BY <2>5, <2>6
<1>8. Rem(ticks, s) = 0
  <2>1. PICK l \in Int : l = i + k * period
    OBVIOUS
  <2>2. ticks = s * l
    BY <1>2, <1>5, <2>1 DEF Product
  <2>3. Multiple(ticks, s)
    BY <2>2 DEF Multiple
  <2> QED
    BY <2>3, MultipleOf
<1>9. \A y \in Int : (Product(y, s) = 0) = (y = 0)
  BY DEF Product
<1>10. PICK r \in Int : r = Rem(i, sub)
  BY Euclid
<1>11. (Rem(ticks, bar) = 0) = (n = 0)
  BY <1>6, <1>9
<1>12. (Rem(ticks, beat) = 0) = (r = 0)
  BY <1>7, <1>9, <1>10
<1>13. Quo(Product(n, s), beat) = Quo(n, sub)
  <2>1. n \in Int
    OBVIOUS
  <2> QED
    BY <1>2, <2>1, Scaled
<1>14. Quo(n, sub) \in Nat
  BY DEF Quo
<1> QED
  BY <1>2, <1>3, <1>4, <1>6, <1>8, <1>10, <1>11, <1>12, <1>13, <1>14

(* A line is where its index says, and its emphasis and number are those   *)
(* of its distance from the offset.                                        *)
LEMMA LineTells ==
  ASSUME NEW e, GoodEngine(e), NEW i \in Int
  PROVE  LET line == Line(i, e)
             ticks == line.seconds - e.grid_offset_seconds
         IN  /\ line \in LineType /\ line.seconds = Phase(e) + Product(i, Step(e))
             /\ line.is_beat = (Rem(i, e.subdivisions_per_beat) = 0)
             /\ line.is_bar = (Rem(i, Period(e)) = 0)
             /\ ticks \in Int /\ Rem(ticks, Step(e)) = 0
             /\ line.is_beat = (Rem(ticks, BeatTicks(e)) = 0)
             /\ line.is_bar = (Rem(ticks, BarDuration(e)) = 0)
             /\ line.is_beat =>
                  line.beat_in_bar = Quo(Rem(ticks, BarDuration(e)), BeatTicks(e))
<1> DEFINE line == Line(i, e)
           ticks == line.seconds - e.grid_offset_seconds
<1>1. PICK s \in Nat \ {0}, sub \in Nat \ {0}, beats \in Nat \ {0}, period \in Nat \ {0}, offset \in Int :
        /\ s = Step(e) /\ sub = e.subdivisions_per_beat /\ beats = e.beats_per_bar
        /\ period = Period(e) /\ offset = e.grid_offset_seconds
        /\ Rem(period, sub) = 0 /\ BeatTicks(e) = Product(sub, s) /\ BarDuration(e) = Product(period, s)
  BY EngineNumbers
<1>2. PICK phase \in Int : phase = Phase(e) /\ Wraps(offset, phase, Product(period, s))
  BY <1>1, PhaseIs
<1>3. PICK n \in Int : n = Rem(i, period)
  BY Euclid
<1>4. /\ line.seconds = phase + Product(i, s) /\ line.is_bar = (n = 0) /\ line.is_beat = (Rem(n, sub) = 0)
      /\ line.beat_in_bar = IF Rem(n, sub) = 0 THEN Quo(n, sub) ELSE beats
      /\ line = [seconds |-> line.seconds, is_bar |-> line.is_bar, is_beat |-> line.is_beat,
                 beat_in_bar |-> line.beat_in_bar]
  BY <1>1, <1>2, <1>3 DEF Line, InBar, Period, Rem, Quo, Product
<1>5. PICK x \in Int : x = Product(i, s)
  BY Scaled
<1> HIDE DEF line
<1>6. PICK t \in Int : t = ticks /\ t = (phase + x) - offset
  BY <1>1, <1>4, <1>5
<1>7. Wraps(t, x, Product(period, s))
  <2>1. PICK bar \in Int : bar = Product(period, s)
    BY Scaled
  <2>2. PICK k \in Int : offset = phase + k * bar
    BY <1>2, <2>1 DEF Wraps
  <2>3. PICK l \in Int : l = -k
    OBVIOUS
  <2>4. t = x + l * bar
    BY <1>6, <2>2, <2>3
  <2> QED
    BY <2>1, <2>4 DEF Wraps
<1>8. /\ n \in Nat /\ Rem(n, sub) = Rem(i, sub) /\ Quo(n, sub) \in Nat
      /\ Rem(t, s) = 0
      /\ (Rem(t, Product(sub, s)) = 0) = (Rem(i, sub) = 0)
      /\ (Rem(t, Product(period, s)) = 0) = (n = 0)
      /\ Quo(Rem(t, Product(period, s)), Product(sub, s)) = Quo(n, sub)
  BY <1>1, <1>3, <1>5, <1>7, IndexAndTicks
<1>9. line.seconds \in Int /\ line.is_bar \in BOOLEAN /\ line.is_beat \in BOOLEAN
  BY <1>4, <1>5
<1>10. line.beat_in_bar \in Nat
  BY <1>4, <1>8
<1>11. line \in LineType
  BY <1>4, <1>9, <1>10 DEF LineType
<1>12. /\ line.is_beat = (Rem(i, e.subdivisions_per_beat) = 0) /\ line.is_bar = (Rem(i, Period(e)) = 0)
  BY <1>1, <1>3, <1>4, <1>8
<1>13. /\ Rem(ticks, Step(e)) = 0
       /\ line.is_beat = (Rem(ticks, BeatTicks(e)) = 0)
       /\ line.is_bar = (Rem(ticks, BarDuration(e)) = 0)
  BY <1>1, <1>4, <1>6, <1>8
<1>14. line.is_beat => line.beat_in_bar = Quo(Rem(ticks, BarDuration(e)), BeatTicks(e))
  BY <1>1, <1>4, <1>6, <1>8
<1> QED
  BY <1>1, <1>2, <1>4, <1>6, <1>11, <1>12, <1>13, <1>14 DEF line

------------------------------------------------------------------------------
(* The grid lines: which indices are in view *)

LEMMA Commutes ==
  ASSUME NEW a \in Int, NEW b \in Int
  PROVE  Product(a, b) = Product(b, a) /\ Product(a, b) \in Int
BY DEF Product

LEMMA OneMore ==
  ASSUME NEW a \in Int, NEW b \in Int, NEW c \in Int, c = b + 1
  PROVE  Product(a, c) = Product(a, b) + a
BY DEF Product

LEMMA CeilingOrder ==
  ASSUME NEW a \in Int, NEW b \in Nat \ {0}, NEW i \in Int
  PROVE  CeilingOf(a, b) \in Int /\ (a <= Product(b, i)) = (CeilingOf(a, b) <= i)
<1>1. PICK c \in Int : c = CeilingOf(a, b) /\ Product(b, c) - b < a /\ a <= Product(b, c)
  BY CeilingIs
<1>2. PICK m \in Int : m = b
  OBVIOUS
<1>3. PICK x \in Int, y \in Int : x = Product(b, c) /\ y = Product(b, i)
  BY <1>2, Commutes
<1>4. CASE c <= i
  <2>1. x <= y
    BY <1>3, <1>4, ProductOrder
  <2> QED
    BY <1>1, <1>3, <1>4, <2>1
<1>5. CASE i < c
  <2>1. PICK j \in Int : j = i + 1
    OBVIOUS
  <2>2. Product(b, j) = y + m
    BY <1>2, <1>3, <2>1, OneMore
  <2>3. j <= c
    BY <1>5, <2>1
  <2>4. Product(b, j) <= x
    BY <1>3, <2>3, ProductOrder
  <2> QED
    BY <1>1, <1>2, <1>3, <1>5, <2>2, <2>4
<1> QED
  BY <1>4, <1>5

LEMMA FloorOrder ==
  ASSUME NEW a \in Int, NEW b \in Nat \ {0}, NEW i \in Int
  PROVE  Quo(a, b) \in Int /\ (Product(b, i) <= a) = (i <= Quo(a, b))
<1>1. PICK c \in Int : c = Quo(a, b) /\ Product(b, c) <= a /\ a < Product(b, c) + b
  BY FloorIs
<1>2. PICK m \in Int : m = b
  OBVIOUS
<1>3. PICK x \in Int, y \in Int : x = Product(b, c) /\ y = Product(b, i)
  BY <1>2, Commutes
<1>4. CASE i <= c
  <2>1. y <= x
    BY <1>3, <1>4, ProductOrder
  <2> QED
    BY <1>1, <1>3, <1>4, <2>1
<1>5. CASE c < i
  <2>1. PICK j \in Int : j = c + 1
    OBVIOUS
  <2>2. Product(b, j) = x + m
    BY <1>2, <1>3, <2>1, OneMore
  <2>3. j <= i
    BY <1>5, <2>1
  <2>4. Product(b, j) <= y
    BY <1>3, <2>3, ProductOrder
  <2> QED
    BY <1>1, <1>2, <1>3, <1>5, <2>2, <2>4
<1> QED
  BY <1>4, <1>5

(* Where the line of an index is. *)
At(i, e) == Phase(e) + Product(i, Step(e))

(* first and last are the first and the last index in view. *)
LEMMA IndexRange ==
  ASSUME NEW e, GoodEngine(e), NEW from \in Int, NEW to \in Int, NEW i \in Int
  PROVE  /\ FirstIndex(from, e) \in Int /\ LastIndex(to, e) \in Int /\ At(i, e) \in Int
         /\ (from <= At(i, e)) = (FirstIndex(from, e) <= i)
         /\ (At(i, e) <= to) = (i <= LastIndex(to, e))
<1>1. PICK s \in Nat \ {0}, phase \in Int : s = Step(e) /\ phase = Phase(e)
  BY EngineNumbers, PhaseIs
<1>2. PICK a \in Int, b \in Int : a = from - phase /\ b = to - phase
  OBVIOUS
<1>3. FirstIndex(from, e) = CeilingOf(a, s) /\ LastIndex(to, e) = Quo(b, s)
  BY <1>1, <1>2 DEF FirstIndex, LastIndex, Quo
<1>4. PICK m \in Int : m = s
  OBVIOUS
<1>5. PICK x \in Int : x = Product(s, i) /\ x = Product(i, s)
  BY <1>4, Commutes
<1>6. At(i, e) = phase + x
  BY <1>1, <1>5 DEF At
<1>7. CeilingOf(a, s) \in Int /\ (a <= x) = (CeilingOf(a, s) <= i)
  <2>1. PICK c \in Int : c = CeilingOf(a, s)
    BY CeilingOrder
  <2>2. (a <= Product(s, i)) = (c <= i)
    BY <2>1, CeilingOrder
  <2> QED
    BY <1>5, <2>1, <2>2
<1>8. Quo(b, s) \in Int /\ (x <= b) = (i <= Quo(b, s))
  BY <1>5, FloorOrder
<1>9. (from <= phase + x) = (a <= x) /\ (phase + x <= to) = (x <= b)
  BY <1>2
<1> QED
  BY <1>3, <1>6, <1>7, <1>8, <1>9

(* The times of the multiples of a grain are those a multiple of so many   *)
(* ticks from the phase, and from the offset.                              *)
LEMMA GridTime ==
  ASSUME NEW e, GoodEngine(e), NEW g \in Nat \ {0}, NEW t \in Int
  PROVE  (Rem(t - Phase(e), Product(g, Step(e))) = 0)
           = (\E i \in Int : Rem(i, g) = 0 /\ t = At(i, e))
<1>1. PICK s \in Nat \ {0}, phase \in Int : s = Step(e) /\ phase = Phase(e)
  BY EngineNumbers, PhaseIs
<1>2. PICK x \in Int, spacing \in Nat \ {0} : x = t - phase /\ spacing = Product(g, s)
  BY Scaled
<1>3. ASSUME NEW i \in Int, Rem(i, g) = 0, t = At(i, e) PROVE Rem(x, spacing) = 0
  <2>1. Rem(Product(i, s), spacing) = Product(Rem(i, g), s) /\ Product(i, s) \in Int
    BY <1>2, Scaled
  <2>2. x = Product(i, s)
    BY <1>1, <1>2, <1>3, <2>1 DEF At
  <2>3. PICK z \in Int : z = Rem(i, g) /\ z = 0
    BY <1>3
  <2>4. Product(z, s) = 0
    BY <2>3 DEF Product
  <2> QED
    BY <2>1, <2>2, <2>3, <2>4
<1>4. ASSUME Rem(x, spacing) = 0 PROVE \E i \in Int : Rem(i, g) = 0 /\ t = At(i, e)
  <2>1. PICK k \in Int : x = spacing * k
    BY <1>4, MultipleOf DEF Multiple
  <2>2. PICK i \in Int : i = g * k
    OBVIOUS
  <2>3. Multiple(i, g)
    BY <2>2 DEF Multiple
  <2>4. Rem(i, g) = 0
    BY <2>3, MultipleOf
  <2>5. x = Product(i, s)
    BY <1>2, <2>1, <2>2 DEF Product
  <2>6. t = At(i, e)
    BY <1>1, <1>2, <2>5 DEF At
  <2> QED
    BY <2>4, <2>6
<1> QED
  BY <1>1, <1>2, <1>3, <1>4

------------------------------------------------------------------------------
(* The grid lines: how many there are *)

(* n indices from start on, stride apart, are the multiples of the stride  *)
(* from first to last, and not more of them than strides fit.              *)
StridesCount(first, last, stride, start, n) ==
  /\ start \in Int /\ n \in Nat
  /\ \A k \in 1 .. n : \A i \in Int :
       i = start + Product(k - 1, stride) => first <= i /\ i <= last /\ Rem(i, stride) = 0
  /\ \A i \in Int :
       first <= i /\ i <= last /\ Rem(i, stride) = 0 =>
         \E k \in 1 .. n : i = start + Product(k - 1, stride)
  /\ n >= 1 => Product(stride, n - 1) <= last - first

(* Going by strides from the aligned start meets them all.                 *)
LEMMA Counted ==
  ASSUME NEW first \in Int, NEW last \in Int, NEW stride \in Nat \ {0},
         NEW start, start = Product(stride, CeilingOf(first, stride)),
         NEW n, n = IF last < start THEN 0 ELSE Quo(last - start, stride) + 1
  PROVE  StridesCount(first, last, stride, start, n)
<1>1. PICK c \in Int, m \in Int : c = CeilingOf(first, stride) /\ m = stride
  BY CeilingIs
<1>2. PICK b \in Int : b = start /\ b = Product(stride, c) /\ first <= b
  BY <1>1, CeilingIs, Commutes
<1>3. PICK d \in Int : d = last - b
  OBVIOUS
<1>4. PICK q \in Int : q = Quo(d, stride)
  BY FloorIs
<1>5. n \in Nat /\ n = IF last < b THEN 0 ELSE q + 1
  <2>1. n = IF last < b THEN 0 ELSE q + 1
    BY <1>2, <1>3, <1>4
  <2>2. CASE last < b
    BY <2>1, <2>2
  <2>3. CASE b <= last
    <3>1. PICK z \in Int : z = 0
      OBVIOUS
    <3>2. Product(stride, z) = 0
      BY <1>1, <3>1 DEF Product
    <3>3. z <= q
      BY <1>3, <1>4, <2>3, <3>1, <3>2, FloorOrder
    <3> QED
      BY <2>1, <2>3, <3>1, <3>3
  <2> QED
    BY <2>2, <2>3
<1>6. ASSUME NEW k \in 1 .. n, NEW i \in Int, i = start + Product(k - 1, stride)
      PROVE  first <= i /\ i <= last /\ Rem(i, stride) = 0
  <2>1. PICK j \in Int : j = k - 1 /\ 0 <= j
    BY <1>5
  <2>2. b <= last /\ j <= q
    BY <1>5, <2>1
  <2>3. PICK x \in Int : x = Product(stride, j) /\ x = Product(j, stride) /\ i = b + x
    BY <1>1, <1>2, <1>6, <2>1, Commutes
  <2>4. x <= d
    BY <1>4, <2>2, <2>3, FloorOrder
  <2>5. x >= 0
    BY <1>1, <2>1, <2>3 DEF Product
  <2>6. PICK l \in Int : l = c + j
    OBVIOUS
  <2>7. i = stride * l
    BY <1>1, <1>2, <2>3, <2>6 DEF Product
  <2>8. Multiple(i, stride)
    BY <2>7 DEF Multiple
  <2>9. Rem(i, stride) = 0
    BY <2>8, MultipleOf
  <2> QED
    BY <1>2, <1>3, <2>3, <2>4, <2>5, <2>9
<1>7. ASSUME NEW i \in Int, first <= i, i <= last, Rem(i, stride) = 0
      PROVE  \E k \in 1 .. n : i = start + Product(k - 1, stride)
  <2>1. PICK l \in Int : i = stride * l
    BY <1>7, MultipleOf DEF Multiple
  <2>2. i = Product(stride, l)
    BY <2>1 DEF Product
  <2>3. c <= l
    <3>1. (first <= Product(stride, l)) = (c <= l)
      BY <1>1, CeilingOrder
    <3> QED
      BY <1>7, <2>2, <3>1
  <2>4. PICK j \in Int : j = l - c /\ 0 <= j
    BY <2>3
  <2>5. PICK x \in Int : x = Product(stride, j) /\ x = Product(j, stride)
    BY <1>1, Commutes
  <2>6. i = b + x /\ 0 <= x
    BY <1>1, <1>2, <2>2, <2>4, <2>5 DEF Product
  <2>7. x <= d /\ b <= last
    BY <1>3, <1>7, <2>6
  <2>8. j <= q
    <3>1. (Product(stride, j) <= d) = (j <= q)
      BY <1>4, FloorOrder
    <3> QED
      BY <2>5, <2>7, <3>1
  <2>9. PICK k \in 1 .. n : k = j + 1
    BY <1>5, <2>4, <2>7, <2>8
  <2>10. k - 1 = j
    BY <2>9
  <2> QED
    BY <1>2, <2>5, <2>6, <2>10
<1>8. ASSUME n >= 1 PROVE Product(stride, n - 1) <= last - first
  <2>1. b <= last /\ n - 1 = q
    BY <1>5, <1>8
  <2>2. Product(stride, q) <= d /\ Product(stride, q) \in Int
    BY <1>1, <1>4, Commutes, FloorOrder
  <2> QED
    BY <1>2, <1>3, <2>1, <2>2
<1> QED
  BY <1>2, <1>5, <1>6, <1>7, <1>8 DEF StridesCount

(* A stride of c units, for a count of so many units, is long enough for   *)
(* no more than maximum lines.                                             *)
LEMMA LongEnough ==
  ASSUME NEW count \in Nat, NEW unit \in Nat \ {0}, NEW c \in Nat \ {0}, NEW maximum \in Nat \ {0},
         Quo(count, unit) + 2 <= Product(c, maximum)
  PROVE  /\ Product(unit, c) \in Nat \ {0}
         /\ count + 1 <= Product(Product(unit, c), maximum)
         /\ count + 1 <= Product(Product(unit, c), 2 * maximum - 1)
<1>1. PICK x \in Int, u \in Int, y \in Int, m \in Int : x = count /\ u = unit /\ y = c /\ m = maximum
  OBVIOUS
<1>2. PICK q \in Int : q = Quo(x, unit) /\ x < Product(unit, q) + unit
  BY FloorIs
<1>3. PICK d \in Int : d = q + 1
  OBVIOUS
<1>4. x < Product(unit, d) /\ Product(unit, d) \in Int
  <2>1. Product(u, d) = Product(u, q) + u /\ Product(u, d) \in Int /\ Product(u, q) \in Int
    BY <1>3, OneMore, Commutes
  <2> QED
    BY <1>1, <1>2, <2>1
<1>5. PICK w \in Int : w = Product(y, m)
  BY Commutes
<1>6. d <= w
  BY <1>1, <1>2, <1>3, <1>5
<1>7. Product(unit, d) <= Product(unit, w) /\ Product(unit, w) \in Int
  BY <1>1, <1>6, ProductOrder, Commutes
<1>8. PICK st \in Nat \ {0} : st = Product(unit, c)
  BY DEF Product
<1>9. Product(unit, w) = Product(st, m)
  BY <1>1, <1>5, <1>8 DEF Product
<1>10. PICK more \in Int : more = 2 * maximum - 1 /\ m <= more
  BY <1>1
<1>11. Product(st, m) <= Product(st, more) /\ Product(st, more) \in Int /\ Product(st, m) \in Int
  <2>1. st \in Int
    OBVIOUS
  <2> QED
    BY <1>10, <2>1, ProductOrder, Commutes
<1>12. x + 1 <= Product(st, m) /\ x + 1 <= Product(st, more)
  BY <1>4, <1>7, <1>9, <1>11
<1> QED
  BY <1>1, <1>8, <1>10, <1>12

(* The stride leaves no more than maximum lines; it is one step, a beat or *)
(* whole bars; and maximum lines, if two or more, would fill the view         *)
(* twice but for one stride.                                               *)
LEMMA StrideFits ==
  ASSUME NEW e, GoodEngine(e), NEW count \in Nat, NEW maximum \in Nat \ {0}
  PROVE  LET stride == Stride(count, e, maximum)
         IN  /\ stride \in Nat \ {0} /\ count <= Product(stride, maximum)
             /\ maximum >= 2 => count + 1 <= Product(stride, 2 * maximum - 1)
             /\ stride = 1 \/ stride = e.subdivisions_per_beat \/ Rem(stride, Period(e)) = 0
             /\ maximum = 1 /\ count = 1 => stride = 1
<1> DEFINE stride == Stride(count, e, maximum)
<1>1. PICK sub \in Nat \ {0}, period \in Nat \ {0} :
        sub = e.subdivisions_per_beat /\ period = Period(e)
  BY EngineNumbers
<1>2. PICK beats \in Int, bars \in Int : beats = Quo(count, sub) + 2 /\ bars = Quo(count, period) + 2
  <2>1. PICK x \in Int : x = count
    OBVIOUS
  <2>2. Quo(x, sub) \in Int /\ Quo(x, period) \in Int
    BY FloorIs
  <2> QED
    BY <2>1, <2>2
<1>3. stride = IF count <= maximum THEN 1
               ELSE IF beats <= maximum THEN sub
               ELSE IF bars <= maximum THEN period
               ELSE Product(period, CeilingOf(bars, maximum))
  BY <1>1, <1>2 DEF Stride, Coarser, Period, Quo, Product
<1> HIDE DEF stride
<1>4. PICK one \in Nat \ {0}, m \in Int : one = 1 /\ m = maximum
  OBVIOUS
<1>5. Product(one, maximum) = maximum /\ Product(sub, one) = sub /\ Product(period, one) = period
  BY <1>4 DEF Product
<1>6. CASE count <= maximum
  <2>1. stride = one
    BY <1>3, <1>4, <1>6
  <2>2. Product(stride, 2 * maximum - 1) = 2 * maximum - 1 /\ Product(stride, maximum) = maximum
    BY <1>4, <2>1 DEF Product
  <2> QED
    BY <1>4, <1>6, <2>1, <2>2 DEF stride
<1>7. CASE ~ count <= maximum /\ beats <= maximum
  <2>1. stride = sub
    BY <1>3, <1>7
  <2>2. Quo(count, sub) + 2 <= Product(one, maximum)
    BY <1>2, <1>5, <1>7
  <2>3. count + 1 <= Product(Product(sub, one), maximum) /\ count + 1 <= Product(Product(sub, one), 2 * maximum - 1)
    BY <2>2, LongEnough
  <2>4. count <= Product(sub, maximum)
    BY <1>5, <2>3 DEF Product
  <2> QED
    BY <1>1, <1>5, <1>7, <2>1, <2>3, <2>4 DEF stride
<1>8. CASE ~ count <= maximum /\ ~ beats <= maximum /\ bars <= maximum
  <2>1. stride = period
    BY <1>3, <1>8
  <2>2. Quo(count, period) + 2 <= Product(one, maximum)
    BY <1>2, <1>5, <1>8
  <2>3. count + 1 <= Product(Product(period, one), maximum) /\ count + 1 <= Product(Product(period, one), 2 * maximum - 1)
    BY <2>2, LongEnough
  <2>4. count <= Product(period, maximum)
    BY <1>5, <2>3 DEF Product
  <2>5. Rem(period, period) = 0
    BY DEF Rem
  <2> QED
    BY <1>1, <1>5, <1>8, <2>1, <2>3, <2>4, <2>5 DEF stride
<1>9. CASE ~ count <= maximum /\ ~ beats <= maximum /\ ~ bars <= maximum
  <2>1. PICK c \in Int : c = CeilingOf(bars, maximum) /\ bars <= Product(maximum, c)
    BY CeilingIs
  <2>2. bars <= Product(c, maximum) /\ bars > 0
    BY <1>4, <1>9, <2>1, Commutes
  <2>3. c \in Nat \ {0}
    <3>1. ASSUME c <= 0 PROVE FALSE
      <4>1. Product(c, maximum) <= 0
        BY <3>1 DEF Product
      <4>2. Product(c, maximum) \in Int
        BY <1>4, Commutes
      <4> QED
        BY <2>2, <4>1, <4>2
    <3> QED
      BY <3>1
  <2>4. PICK n \in Nat \ {0} : n = c
    BY <2>3
  <2>5. Quo(count, period) + 2 <= Product(n, maximum)
    BY <1>2, <2>2, <2>4
  <2>6. /\ Product(period, n) \in Nat \ {0} /\ count + 1 <= Product(Product(period, n), maximum)
        /\ count + 1 <= Product(Product(period, n), 2 * maximum - 1)
    BY <2>5, LongEnough
  <2>7. PICK st \in Nat \ {0} : st = Product(period, n) /\ st = stride
    BY <1>3, <1>9, <2>1, <2>4, <2>6
  <2>8. count <= Product(st, maximum)
    BY <2>6, <2>7 DEF Product
  <2>9. Rem(st, period) = 0
    <3>1. st = period * c /\ st \in Int
      BY <2>4, <2>7 DEF Product
    <3>2. Multiple(st, period)
      BY <3>1 DEF Multiple
    <3> QED
      BY <3>1, <3>2, MultipleOf
  <2> QED
    BY <1>1, <1>9, <2>6, <2>7, <2>8, <2>9 DEF stride
<1> QED
  BY <1>6, <1>7, <1>8, <1>9

------------------------------------------------------------------------------
(* The grid lines: which are drawn *)

InRange(i, e, from, to) == from <= At(i, e) /\ At(i, e) <= to

(* The view is not longer than two indices more than there are in it. *)
LEMMA ViewIsShort ==
  ASSUME NEW e, GoodEngine(e), NEW from \in Int, NEW to \in Int, NEW count \in Int,
         count = LastIndex(to, e) - FirstIndex(from, e) + 1
  PROVE  to - from <= Product(Step(e), count + 1)
<1>1. PICK s \in Nat \ {0}, phase \in Int : s = Step(e) /\ phase = Phase(e)
  BY EngineNumbers, PhaseIs
<1>2. PICK a \in Int, b \in Int, m \in Int : a = from - phase /\ b = to - phase /\ m = s
  OBVIOUS
<1>3. PICK first \in Int : first = CeilingOf(a, s) /\ Product(s, first) - s < a
  BY CeilingIs
<1>4. PICK last \in Int : last = Quo(b, s) /\ b < Product(s, last) + s
  BY FloorIs
<1>5. count = last - first + 1
  BY <1>1, <1>2, <1>3, <1>4 DEF FirstIndex, LastIndex, Quo
<1>6. Product(s, count + 1) = Product(s, last) - Product(s, first) + m + m
  BY <1>2, <1>5 DEF Product
<1>7. Product(s, last) \in Int /\ Product(s, first) \in Int
  BY <1>2, Commutes
<1>8. PICK x \in Int, y \in Int : x = Product(s, last) /\ y = Product(s, first)
  BY <1>7
<1>9. y - m < a /\ b < x + m /\ Product(s, count + 1) = x - y + m + m /\ to - from = b - a
  BY <1>2, <1>3, <1>4, <1>6, <1>8
<1>10. to - from <= Product(s, count + 1)
  BY <1>9
<1> QED
  BY <1>1, <1>10

(* The lines are the multiples in view of a stride; no more than maximum.  *)
LEMMA LinesAre ==
  ASSUME NEW e, GoodEngine(e), NEW from \in Int, NEW to \in Int, NEW maximum \in Nat \ {0}
  PROVE  LET lines == grid_lines(from, to, e, maximum)
         IN  \E n \in Nat, stride \in Nat \ {0} :
               /\ DOMAIN lines = 1 .. n /\ n <= maximum
               /\ \A k \in 1 .. n : \E i \in Int :
                    InRange(i, e, from, to) /\ Rem(i, stride) = 0 /\ lines[k] = Line(i, e)
               /\ \A i \in Int : InRange(i, e, from, to) /\ Rem(i, stride) = 0 =>
                    \E k \in 1 .. n : lines[k] = Line(i, e)
               /\ stride = 1 \/ stride = e.subdivisions_per_beat \/ Rem(stride, Period(e)) = 0
               /\ maximum >= 2 /\ n >= 1 =>
                    to - from <= Product(Product(stride, Step(e)), 2 * maximum - 1)
<1> DEFINE lines == grid_lines(from, to, e, maximum)
<1>1. PICK z \in Int : z = 0
  OBVIOUS
<1>2. PICK first \in Int, last \in Int : first = FirstIndex(from, e) /\ last = LastIndex(to, e)
  BY <1>1, IndexRange
<1>3. \A i \in Int : InRange(i, e, from, to) = (first <= i /\ i <= last)
  BY <1>2, IndexRange DEF InRange
<1>4. CASE to < from \/ last < first
  <2>1. lines = <<>>
    BY <1>2, <1>4 DEF grid_lines
  <2>2. PICK n \in Nat, stride \in Nat \ {0} : n = 0 /\ stride = 1
    OBVIOUS
  <2>3. \A i \in Int : ~ InRange(i, e, from, to)
    <3>1. CASE last < first
      <4>1. ASSUME NEW i \in Int, InRange(i, e, from, to) PROVE FALSE
        <5>1. first <= i /\ i <= last
          BY <1>3, <4>1
        <5> QED
          BY <3>1, <5>1
      <4> QED
        BY <4>1
    <3>2. CASE to < from
      <4>1. ASSUME NEW i \in Int, InRange(i, e, from, to) PROVE FALSE
        <5>1. PICK x \in Int : x = At(i, e)
          BY IndexRange
        <5>2. from <= x /\ x <= to
          BY <4>1, <5>1 DEF InRange
        <5> QED
          BY <3>2, <5>2
      <4> QED
        BY <4>1
    <3> QED
      BY <1>4, <3>1, <3>2
  <2>4. DOMAIN lines = 1 .. n /\ n <= maximum /\ 1 .. n = {}
    BY <2>1, <2>2
  <2> HIDE DEF lines
  <2> QED
    BY <2>2, <2>3, <2>4 DEF lines
<1>5. CASE ~ to < from /\ first <= last
  <2>1. PICK count \in Nat : count = last - first + 1
    BY <1>5
  <2>2. PICK stride \in Nat \ {0} : stride = Stride(count, e, maximum)
    BY StrideFits
  <2>3. /\ count <= Product(stride, maximum)
        /\ maximum >= 2 => count + 1 <= Product(stride, 2 * maximum - 1)
        /\ stride = 1 \/ stride = e.subdivisions_per_beat \/ Rem(stride, Period(e)) = 0
    BY <2>2, StrideFits
  <2> DEFINE start == Product(stride, CeilingOf(first, stride))
             n == IF last < start THEN 0 ELSE Quo(last - start, stride) + 1
  <2>4. lines = [k \in 1 .. n |-> Line(start + Product(k - 1, stride), e)]
    BY <1>2, <1>5, <2>1, <2>2 DEF grid_lines, Aligned, Product, Quo
  <2> HIDE DEF lines
  <2>40. StridesCount(first, last, stride, start, n)
    BY Counted
  <2> HIDE DEF start, n
  <2>5. /\ start \in Int /\ n \in Nat
        /\ \A k \in 1 .. n : \A i \in Int :
             i = start + Product(k - 1, stride) => first <= i /\ i <= last /\ Rem(i, stride) = 0
        /\ \A i \in Int :
             first <= i /\ i <= last /\ Rem(i, stride) = 0 =>
               \E k \in 1 .. n : i = start + Product(k - 1, stride)
        /\ n >= 1 => Product(stride, n - 1) <= last - first
    BY <2>40 DEF StridesCount
  <2>6. DOMAIN lines = 1 .. n /\ \A k \in 1 .. n : lines[k] = Line(start + Product(k - 1, stride), e)
    BY <2>4
  <2>7. n <= maximum
    <3>1. ASSUME maximum < n PROVE FALSE
      <4>1. PICK j \in Int, m \in Int : j = n - 1 /\ m = maximum /\ m <= j
        BY <2>5, <3>1
      <4>2. Product(stride, m) <= Product(stride, j)
        BY <4>1, ProductOrder
      <4>3. Product(stride, j) <= last - first /\ count <= Product(stride, m)
        BY <2>3, <2>5, <3>1, <4>1
      <4>4. Product(stride, m) \in Int /\ Product(stride, j) \in Int
        <5>1. PICK st \in Int : st = stride
          OBVIOUS
        <5> QED
          BY <5>1, Commutes
      <4> QED
        BY <2>1, <4>2, <4>3, <4>4
    <3> QED
      BY <2>5, <3>1
  <2>8. ASSUME NEW k \in 1 .. n
        PROVE  \E i \in Int : InRange(i, e, from, to) /\ Rem(i, stride) = 0 /\ lines[k] = Line(i, e)
    <3>1. PICK j \in Int, m \in Int : j = k - 1 /\ m = stride
      BY <2>5
    <3>2. PICK i \in Int : i = start + Product(k - 1, stride)
      BY <2>5, <3>1, Commutes
    <3>3. first <= i /\ i <= last /\ Rem(i, stride) = 0
      BY <2>5, <3>2
    <3> QED
      BY <1>3, <2>6, <3>2, <3>3
  <2>9. ASSUME NEW i \in Int, InRange(i, e, from, to), Rem(i, stride) = 0
        PROVE  \E k \in 1 .. n : lines[k] = Line(i, e)
    <3>1. first <= i /\ i <= last
      BY <1>3, <2>9
    <3>2. PICK k \in 1 .. n : i = start + Product(k - 1, stride)
      BY <2>5, <2>9, <3>1
    <3> QED
      BY <2>6, <3>2
  <2>10. maximum >= 2 => to - from <= Product(Product(stride, Step(e)), 2 * maximum - 1)
    <3>1. PICK s \in Nat \ {0}, d \in Int, more \in Int :
            s = Step(e) /\ d = count + 1 /\ more = 2 * maximum - 1
      BY EngineNumbers
    <3>2. to - from <= Product(s, d)
      <4>1. PICK c \in Int : c = count /\ c = LastIndex(to, e) - FirstIndex(from, e) + 1
        BY <1>2, <2>1
      <4>2. to - from <= Product(Step(e), c + 1)
        BY <4>1, ViewIsShort
      <4> QED
        BY <3>1, <4>1, <4>2
    <3>3. SUFFICES ASSUME maximum >= 2
                   PROVE  to - from <= Product(Product(stride, Step(e)), 2 * maximum - 1)
      OBVIOUS
    <3>4. PICK x \in Int : x = Product(stride, more) /\ d <= x
      <4>1. PICK m \in Int : m = stride
        OBVIOUS
      <4>2. Product(stride, more) \in Int
        BY <4>1, Commutes
      <4> QED
        BY <2>3, <3>1, <3>3, <4>2
    <3>5. Product(s, d) <= Product(s, x) /\ Product(s, d) \in Int /\ Product(s, x) \in Int
      <4>1. PICK m \in Int : m = s
        OBVIOUS
      <4> QED
        BY <3>4, <4>1, ProductOrder, Commutes
    <3>6. Product(s, x) = Product(Product(stride, s), more)
      BY <3>4 DEF Product
    <3> QED
      BY <3>1, <3>2, <3>5, <3>6
  <2> QED
    BY <2>3, <2>5, <2>6, <2>7, <2>8, <2>9, <2>10 DEF lines
<1> QED
  BY <1>4, <1>5

(* The lengths a stride or a grain may have. *)
Kind(stride, sub, period) == stride = 1 \/ stride = sub \/ Rem(stride, period) = 0

(* The multiples of a grain: those of the stride that are beats, when the  *)
(* fine lines are left out, and bars, when the beats are.                  *)
Thinned(grain, stride, sub, period, fine, coarse) ==
  /\ Rem(grain, stride) = 0
  /\ \A i \in Int :
       (Rem(i, grain) = 0)
         <=> /\ Rem(i, stride) = 0
             /\ fine => Rem(i, sub) = 0
             /\ coarse /\ Rem(i, sub) = 0 => Rem(i, period) = 0

(* Leaving out subdivisions, or all but the bars, from the multiples of a  *)
(* stride leaves the multiples of a coarser one.                           *)
LEMMA Kept ==
  ASSUME NEW stride \in Nat \ {0}, NEW sub \in Nat \ {0}, NEW period \in Nat \ {0},
         Rem(period, sub) = 0, Kind(stride, sub, period),
         NEW fine \in BOOLEAN, NEW coarse \in BOOLEAN, coarse => fine
  PROVE  \E grain \in Nat \ {0} :
           Kind(grain, sub, period) /\ Thinned(grain, stride, sub, period, fine, coarse)
<1> USE DEF Kind, Thinned
<1>1. \A i \in Int : Rem(i, 1) = 0
  BY DEF Rem
<1>2. \A x \in Nat \ {0} : Rem(x, x) = 0
  BY DEF Rem
<1>3. \A i \in Int : Rem(i, period) = 0 => Rem(i, sub) = 0
  BY MultipleOfMultiple
<1>4. stride \in Int /\ sub \in Int /\ period \in Int
  OBVIOUS
<1>5. ASSUME Rem(stride, period) = 0
      PROVE  \A i \in Int : Rem(i, stride) = 0 => Rem(i, period) = 0
  BY <1>5, MultipleOfMultiple
<1>6. CASE ~ fine /\ ~ coarse
  <2>1. Rem(stride, stride) = 0
    BY <1>2
  <2> QED
    BY <1>6, <2>1
<1>7. CASE fine /\ ~ coarse
  <2>1. CASE stride = 1
    <3>1. Rem(sub, stride) = 0
      BY <1>1, <1>4, <2>1
    <3>2. \A i \in Int : (Rem(i, sub) = 0) <=> Rem(i, stride) = 0 /\ Rem(i, sub) = 0
      BY <1>1, <2>1
    <3> QED
      BY <1>7, <3>1, <3>2
  <2>2. CASE stride = sub
    <3>1. Rem(stride, stride) = 0
      BY <1>2
    <3>2. \A i \in Int : (Rem(i, stride) = 0) <=> Rem(i, stride) = 0 /\ Rem(i, sub) = 0
      BY <2>2
    <3> QED
      BY <1>7, <2>2, <3>1, <3>2
  <2>3. CASE Rem(stride, period) = 0
    <3>1. Rem(stride, stride) = 0
      BY <1>2
    <3>2. \A i \in Int : (Rem(i, stride) = 0) <=> Rem(i, stride) = 0 /\ Rem(i, sub) = 0
      BY <1>3, <1>5, <2>3
    <3> QED
      BY <1>7, <2>3, <3>1, <3>2
  <2> QED
    BY <2>1, <2>2, <2>3
<1>8. CASE fine /\ coarse
  <2>0. ASSUME NEW i \in Int
        PROVE  (/\ fine => Rem(i, sub) = 0
                /\ coarse /\ Rem(i, sub) = 0 => Rem(i, period) = 0) <=> Rem(i, period) = 0
    BY <1>3, <1>8
  <2>1. Rem(period, period) = 0
    BY <1>2
  <2>2. CASE stride = 1 \/ stride = sub
    <3>1. Rem(period, stride) = 0
      BY <1>1, <1>4, <2>2
    <3>2. \A i \in Int : Rem(i, period) = 0 => Rem(i, stride) = 0
      BY <3>1, MultipleOfMultiple
    <3> QED
      BY <2>0, <2>1, <3>1, <3>2
  <2>3. CASE Rem(stride, period) = 0
    <3>1. Rem(stride, stride) = 0
      BY <1>2
    <3>2. \A i \in Int : Rem(i, stride) = 0 => Rem(i, period) = 0
      BY <1>5, <2>3
    <3> QED
      BY <2>0, <2>3, <3>1, <3>2
  <2> QED
    BY <2>2, <2>3
<1> QED
  BY <1>6, <1>7, <1>8

(* What is drawn is every multiple in view of some grain: all lines, the   *)
(* beats, the bars, or every so many bars.                                 *)
Drawn(i, grain, e, visible) == InRange(i, e, visible.from, visible.to) /\ Rem(i, grain) = 0

LEMMA Grain ==
  ASSUME NEW e, GoodEngine(e), NEW visible, visible.from \in Int, visible.to \in Int, visible.from < visible.to,
         NEW width \in Nat \ {0}, GridSpacing \in Nat \ {0}, MinimumPixels \in Nat
  PROVE  LET lines == GridOverlay(e, visible, width)
         IN  \E grain \in Nat \ {0} :
               /\ \A line : line \in lines <=>
                    \E i \in Int : Drawn(i, grain, e, visible) /\ line = Line(i, e)
               /\ grain = 1 \/ grain = e.subdivisions_per_beat \/ Rem(grain, Period(e)) = 0
               /\ IsFiniteSet(lines) /\ Cardinality(lines) <= MaximumLines(width)
               /\ MaximumLines(width) >= 2 /\ lines # {} =>
                    visible.to - visible.from <= Product(Product(grain, Step(e)), 2 * MaximumLines(width) - 1)
<1> DEFINE from == visible.from
           to == visible.to
           overlay == GridOverlay(e, visible, width)
<1>1. PICK s \in Nat \ {0}, sub \in Nat \ {0}, period \in Nat \ {0} :
        /\ s = Step(e) /\ sub = e.subdivisions_per_beat /\ period = Period(e)
        /\ Rem(period, sub) = 0 /\ BeatTicks(e) = Product(sub, s)
  BY EngineNumbers
<1>2. PICK maximum \in Nat \ {0} : maximum = MaximumLines(width)
  <2>1. CASE width < GridSpacing
    BY <2>1 DEF MaximumLines
  <2>2. CASE GridSpacing <= width
    <3>1. PICK one \in Int, x \in Int : one = 1 /\ x = width
      OBVIOUS
    <3>2. Product(GridSpacing, one) <= x
      BY <2>2, <3>1 DEF Product
    <3>3. Quo(x, GridSpacing) \in Int /\ one <= Quo(x, GridSpacing)
      BY <3>1, <3>2, FloorOrder
    <3> QED
      BY <2>2, <3>1, <3>3 DEF MaximumLines, Quo
  <2> QED
    BY <2>1, <2>2
<1> DEFINE lines == grid_lines(from, to, e, maximum)
<1>3. PICK n \in Nat, stride \in Nat \ {0} :
        /\ DOMAIN lines = 1 .. n /\ n <= maximum
        /\ \A k \in 1 .. n : \E i \in Int :
             InRange(i, e, from, to) /\ Rem(i, stride) = 0 /\ lines[k] = Line(i, e)
        /\ \A i \in Int : InRange(i, e, from, to) /\ Rem(i, stride) = 0 =>
             \E k \in 1 .. n : lines[k] = Line(i, e)
        /\ stride = 1 \/ stride = e.subdivisions_per_beat \/ Rem(stride, Period(e)) = 0
        /\ maximum >= 2 /\ n >= 1 =>
             to - from <= Product(Product(stride, Step(e)), 2 * maximum - 1)
  BY LinesAre
<1> DEFINE fine == TooDense(Step(e), visible, width)
           coarse == TooDense(BeatTicks(e), visible, width)
<1>4. fine \in BOOLEAN /\ coarse \in BOOLEAN /\ (coarse => fine)
  <2>1. PICK beat \in Int, more \in Nat : beat = Product(sub, s) /\ beat = s + more
    <3>1. PICK d \in Nat : sub = d + 1
      <4>1. sub - 1 \in Nat /\ sub = (sub - 1) + 1
        OBVIOUS
      <4> QED
        BY <4>1
    <3>2. PICK m \in Nat : m = d * s
      OBVIOUS
    <3>3. Product(sub, s) = s + m
      BY <3>1, <3>2 DEF Product
    <3> QED
      BY <3>3
  <2>2. beat * width = s * width + more * width /\ more * width >= 0
        /\ s * width \in Int /\ more * width \in Int
    BY <2>1
  <2>3. PICK x \in Int : x = s * width
    BY <2>2
  <2>4. PICK y \in Nat : y = more * width
    BY <2>2
  <2>5. PICK z \in Int : z = MinimumPixels * (to - from)
    OBVIOUS
  <2>6. fine <=> x < z
    BY <1>1, <2>3, <2>5 DEF TooDense
  <2>7. coarse <=> x + y < z
    BY <1>1, <2>1, <2>2, <2>3, <2>4, <2>5 DEF TooDense
  <2>8. x + y < z => x < z
    OBVIOUS
  <2>9. fine \in BOOLEAN /\ coarse \in BOOLEAN
    BY DEF TooDense
  <2> HIDE DEF fine, coarse
  <2> QED
    BY <2>6, <2>7, <2>8, <2>9
<1>5. overlay = {line \in {lines[k] : k \in DOMAIN lines} : ~ Omitted(line, e, visible, width)}
  BY <1>2 DEF GridOverlay
<1>6. ASSUME NEW i \in Int
      PROVE  ~ Omitted(Line(i, e), e, visible, width)
               <=> /\ fine => Rem(i, sub) = 0
                   /\ coarse /\ Rem(i, sub) = 0 => Rem(i, period) = 0
  <2>1. Line(i, e).is_beat = (Rem(i, sub) = 0) /\ Line(i, e).is_bar = (Rem(i, period) = 0)
    BY <1>1, LineTells
  <2> HIDE DEF fine, coarse
  <2>2. Omitted(Line(i, e), e, visible, width)
          <=> \/ ~ Line(i, e).is_beat /\ fine
              \/ Line(i, e).is_beat /\ ~ Line(i, e).is_bar /\ coarse
    BY DEF Omitted, fine, coarse
  <2> QED
    BY <2>1, <2>2
<1> HIDE DEF fine, coarse, lines, overlay
<1>7. PICK grain \in Nat \ {0} :
           /\ grain = 1 \/ grain = sub \/ Rem(grain, period) = 0
           /\ Rem(grain, stride) = 0
           /\ \A i \in Int :
                (Rem(i, grain) = 0)
                  <=> /\ Rem(i, stride) = 0
                      /\ fine => Rem(i, sub) = 0
                      /\ coarse /\ Rem(i, sub) = 0 => Rem(i, period) = 0
  <2>1. Kind(stride, sub, period)
    BY <1>1, <1>3 DEF Kind
  <2>2. Rem(period, sub) = 0
    BY <1>1
  <2>3. PICK f \in BOOLEAN, c \in BOOLEAN : f = fine /\ c = coarse
    BY <1>4
  <2>4. c => f
    BY <1>4, <2>3
  <2>5. \E grain \in Nat \ {0} :
          Kind(grain, sub, period) /\ Thinned(grain, stride, sub, period, f, c)
    BY <2>1, <2>2, <2>4, Kept
  <2> QED
    BY <2>3, <2>5 DEF Kind, Thinned
<1>8. ASSUME NEW line PROVE line \in overlay <=> \E i \in Int : Drawn(i, grain, e, visible) /\ line = Line(i, e)
  <2>1. ASSUME line \in overlay PROVE \E i \in Int : Drawn(i, grain, e, visible) /\ line = Line(i, e)
    <3>1. PICK k \in 1 .. n : line = lines[k] /\ ~ Omitted(line, e, visible, width)
      BY <1>3, <1>5, <2>1
    <3>2. PICK i \in Int : InRange(i, e, from, to) /\ Rem(i, stride) = 0 /\ lines[k] = Line(i, e)
      BY <1>3
    <3>3. Rem(i, grain) = 0
      BY <1>6, <1>7, <3>1, <3>2
    <3> QED
      BY <3>1, <3>2, <3>3 DEF Drawn
  <2>2. ASSUME NEW i \in Int, Drawn(i, grain, e, visible), line = Line(i, e) PROVE line \in overlay
    <3>1. InRange(i, e, from, to) /\ Rem(i, grain) = 0
      BY <2>2 DEF Drawn
    <3>2. Rem(i, stride) = 0 /\ ~ Omitted(Line(i, e), e, visible, width)
      BY <1>6, <1>7, <3>1
    <3>3. PICK k \in 1 .. n : lines[k] = Line(i, e)
      BY <1>3, <3>1, <3>2
    <3> QED
      BY <1>3, <1>5, <2>2, <3>2, <3>3
  <2> QED
    BY <2>1, <2>2
<1>9. IsFiniteSet(overlay) /\ Cardinality(overlay) <= maximum /\ (overlay # {} => n >= 1)
  <2> DEFINE all == {lines[k] : k \in 1 .. n}
  <2>1. overlay \subseteq all
    BY <1>3, <1>5
  <2>2. IsFiniteSet(1 .. n) /\ Cardinality(1 .. n) = n
    BY FS_Interval
  <2>3. IsFiniteSet(all) /\ Cardinality(all) <= n
    <3> DEFINE f == [k \in 1 .. n |-> lines[k]]
    <3>1. f \in Surjection(1 .. n, all)
      BY DEF Surjection
    <3> HIDE DEF f, all
    <3> QED
      BY <2>2, <3>1, FS_Surjection
  <2>4. IsFiniteSet(overlay) /\ Cardinality(overlay) <= Cardinality(all)
    <3> HIDE DEF all
    <3> QED
      BY <2>1, <2>3, FS_Subset
  <2>5. Cardinality(overlay) \in Nat /\ Cardinality(all) \in Nat
    <3> HIDE DEF all
    <3> QED
      BY <2>3, <2>4, FS_CardinalityType
  <2>6. overlay # {} => n >= 1
    BY <2>1
  <2> HIDE DEF all
  <2> QED
    BY <1>3, <2>3, <2>4, <2>5, <2>6
<1>10. ASSUME maximum >= 2, overlay # {}
       PROVE  to - from <= Product(Product(grain, Step(e)), 2 * maximum - 1)
  <2>1. PICK a \in Int, more \in Nat \ {0} : a = to - from /\ more = 2 * maximum - 1
    OBVIOUS
  <2>2. a <= Product(Product(stride, s), more)
    BY <1>1, <1>3, <1>9, <1>10, <2>1
  <2>3. PICK c \in Int : grain = stride * c
    <3>1. PICK g \in Int : g = grain
      OBVIOUS
    <3>2. Multiple(g, stride)
      BY <1>7, <3>1, MultipleOf
    <3> QED
      BY <3>1, <3>2 DEF Multiple
  <2>4. c \in Nat \ {0}
    <3>1. ASSUME c <= 0 PROVE FALSE
      <4>1. stride * c <= 0
        BY <3>1
      <4> QED
        BY <2>3, <4>1
    <3> QED
      BY <3>1
  <2>5. PICK x \in Nat \ {0}, y \in Nat \ {0} : x = Product(Product(stride, s), more) /\ y = c - 1 + 1 /\ y = c
    BY <2>4 DEF Product
  <2>6. Product(Product(grain, s), more) = x * y
    BY <2>3, <2>5 DEF Product
  <2>7. x <= x * y
    <3>1. PICK d \in Nat : y = d + 1
      <4>1. y - 1 \in Nat /\ y = (y - 1) + 1
        OBVIOUS
      <4> QED
        BY <4>1
    <3>2. x * y = x * d + x /\ x * d >= 0 /\ x * d \in Int
      BY <3>1
    <3> QED
      BY <3>2
  <2>8. x * y \in Int
    OBVIOUS
  <2> QED
    BY <1>1, <2>1, <2>2, <2>5, <2>6, <2>7, <2>8
<1> QED
  BY <1>1, <1>2, <1>7, <1>8, <1>9, <1>10 DEF overlay

------------------------------------------------------------------------------
(* The grid lines: columns and spacing *)

(* The lines of the multiples of a grain in view *)
LinesOf(lines, grain, e, visible) ==
  \A line : line \in lines <=> \E i \in Int : Drawn(i, grain, e, visible) /\ line = Line(i, e)

(* The times drawn are all in view that are so many ticks from the phase.  *)
LEMMA TimesDrawn ==
  ASSUME NEW e, GoodEngine(e), NEW visible, visible.from \in Int, visible.to \in Int,
         NEW grain \in Nat \ {0}, NEW lines, LinesOf(lines, grain, e, visible), NEW t
  PROVE  (\E line \in lines : t = line.seconds)
           <=> /\ t \in Int /\ visible.from <= t /\ t <= visible.to
               /\ Rem(t - Phase(e), Product(grain, Step(e))) = 0
<1>1. ASSUME \E line \in lines : t = line.seconds
      PROVE  /\ t \in Int /\ visible.from <= t /\ t <= visible.to
             /\ Rem(t - Phase(e), Product(grain, Step(e))) = 0
  <2>1. PICK line \in lines : t = line.seconds
    BY <1>1
  <2>2. PICK i \in Int : Drawn(i, grain, e, visible) /\ line = Line(i, e)
    BY <2>1 DEF LinesOf
  <2>3. t = At(i, e)
    BY <2>1, <2>2, LineTells DEF At
  <2>4. PICK x \in Int : x = t
    BY <2>3, IndexRange
  <2>5. visible.from <= x /\ x <= visible.to /\ Rem(i, grain) = 0
    BY <2>2, <2>3, <2>4 DEF Drawn, InRange
  <2>6. Rem(x - Phase(e), Product(grain, Step(e))) = 0
    BY <2>3, <2>4, <2>5, GridTime
  <2> QED
    BY <2>4, <2>5, <2>6
<1>2. ASSUME t \in Int, visible.from <= t, t <= visible.to, Rem(t - Phase(e), Product(grain, Step(e))) = 0
      PROVE  \E line \in lines : t = line.seconds
  <2>1. PICK i \in Int : Rem(i, grain) = 0 /\ t = At(i, e)
    BY <1>2, GridTime
  <2>2. Drawn(i, grain, e, visible)
    BY <1>2, <2>1 DEF Drawn, InRange
  <2>3. Line(i, e) \in lines
    BY <2>2 DEF LinesOf
  <2>4. Line(i, e).seconds = t
    BY <2>1, LineTells DEF At
  <2> QED
    BY <2>3, <2>4
<1> QED
  BY <1>1, <1>2

(* All times in view that are so many ticks from the phase.                *)
Spaced(times, phase, spacing, visible) ==
  \A t : t \in times <=>
    t \in Int /\ visible.from <= t /\ t <= visible.to /\ Rem(t - phase, spacing) = 0

(* The spacing of at least two of the multiples in view is the divisor.    *)
LEMMA SpacingIs ==
  ASSUME NEW phase \in Int, NEW spacing \in Nat \ {0},
         NEW visible, visible.from \in Int, visible.to \in Int, NEW times,
         Spaced(times, phase, spacing, visible), Cardinality(times) >= 2
  PROVE  SpacingOf(times) = spacing
<1>0. PICK from \in Int, to \in Int : from = visible.from /\ to = visible.to
  OBVIOUS
<1>01. \A t : t \in times <=> t \in Int /\ from <= t /\ t <= to /\ Rem(t - phase, spacing) = 0
  BY <1>0 DEF Spaced
<1> DEFINE distances == {Apart(a, b) : a, b \in times} \ {0}
<1>1. ASSUME NEW a \in times, NEW b \in times, a < b
      PROVE  a + spacing <= b /\ a + spacing \in times
  <2>0. a \in Int /\ b \in Int /\ from <= a /\ b <= to
    BY <1>01
  <2>1. PICK x \in Int, y \in Int : x = a - phase /\ y = b - phase /\ x < y
    BY <1>1, <2>0
  <2>2. Rem(x, spacing) = 0 /\ Rem(y, spacing) = 0 /\ from <= a /\ b <= to /\ a \in Int /\ b \in Int
    BY <1>01, <2>0, <2>1
  <2>3. x + spacing <= y /\ Rem(x + spacing, spacing) = 0
    BY <2>1, <2>2, MultiplesApart
  <2>4. PICK t \in Int : t = a + spacing
    BY <2>2
  <2>5. t - phase = x + spacing
    BY <2>1, <2>2, <2>4
  <2>6. from <= t /\ t <= to /\ t <= b
    BY <2>1, <2>2, <2>3, <2>4
  <2> QED
    BY <1>01, <2>3, <2>4, <2>5, <2>6
<1>2. \A t \in times : t \in Int
  BY <1>01
<1>3. \E a, b \in times : a < b
  <2>1. PICK a \in times, b \in times : a # b
    <3>1. ASSUME \A a, b \in times : a = b PROVE FALSE
      <4>1. CASE times = {}
        BY <4>1, FS_EmptySet
      <4>2. CASE times # {}
        <5>0. PICK a \in times : TRUE
          BY <4>2
        <5>1. times = {a}
          BY <3>1, <5>0
        <5>2. Cardinality({a}) = 1
          BY FS_Singleton
        <5> QED
          BY <5>1, <5>2
      <4> QED
        BY <4>1, <4>2
    <3> QED
      BY <3>1
  <2>2. a < b \/ b < a
    BY <1>2, <2>1
  <2> QED
    BY <2>2
<1>4. spacing \in distances
  <2>1. PICK a \in times, b \in times : a < b
    BY <1>3
  <2>2. PICK x \in Int, y \in Int : x = a /\ y = a + spacing
    BY <1>2
  <2>3. y \in times /\ x \in times
    BY <1>1, <2>1, <2>2
  <2>4. Apart(x, y) = spacing
    BY <2>2 DEF Apart, Magnitude
  <2> QED
    BY <2>3, <2>4
<1>5. ASSUME NEW d \in distances PROVE d \in Int /\ spacing <= d
  <2>1. PICK x \in times, y \in times : d = Apart(x, y) /\ d # 0
    BY <1>5
  <2>2. x \in Int /\ y \in Int
    BY <1>2
  <2>3. x # y
    BY <2>1, <2>2 DEF Apart, Magnitude
  <2>4. CASE x < y
    BY <1>1, <2>1, <2>2, <2>4 DEF Apart, Magnitude
  <2>5. CASE y < x
    BY <1>1, <2>1, <2>2, <2>5 DEF Apart, Magnitude
  <2> QED
    BY <2>2, <2>3, <2>4, <2>5
<1>6. SpacingOf(times) = CHOOSE least \in distances : \A distance \in distances : least <= distance
  BY DEF SpacingOf
<1> HIDE DEF distances
<1>7. PICK s \in Int : s = spacing
  OBVIOUS
<1>8. s \in distances /\ \A distance \in distances : s <= distance
  BY <1>4, <1>5, <1>7
<1> DEFINE chosen == CHOOSE least \in distances : \A distance \in distances : least <= distance
<1>9. chosen \in distances /\ \A distance \in distances : chosen <= distance
  BY <1>8
<1> HIDE DEF chosen
<1>10. chosen \in Int /\ s <= chosen /\ chosen <= s
  BY <1>5, <1>8, <1>9
<1>11. chosen = s
  BY <1>10
<1> QED
  BY <1>6, <1>7, <1>11 DEF chosen

(* At least one view's width apart, in so many parts: another column.      *)
LEMMA NextColumn ==
  ASSUME NEW x \in Int, NEW y \in Int, NEW d \in Nat \ {0}, x + d <= y
  PROVE  Quo(x, d) < Quo(y, d)
<1>1. PICK q \in Int, r \in Int : q = Quo(x, d) /\ r = Quo(y, d) /\ Product(d, q) <= x
  BY FloorIs
<1>2. PICK m \in Int, j \in Int : m = d /\ j = q + 1
  OBVIOUS
<1>3. Product(m, j) = Product(m, q) + m /\ Product(m, q) \in Int
  BY <1>2, OneMore, Commutes
<1>4. PICK z \in Int : z = Product(d, j) /\ z <= y
  BY <1>1, <1>2, <1>3
<1>5. (Product(d, j) <= y) = (j <= r)
  BY <1>1, FloorOrder
<1> QED
  BY <1>1, <1>2, <1>4, <1>5

LEMMA ColumnsApart ==
  ASSUME NEW e, GoodEngine(e), NEW visible, visible.from \in Int, visible.to \in Int, visible.from < visible.to,
         NEW width \in Nat \ {0}, GridSpacing \in Nat, GridSpacing >= 2,
         NEW maximum \in Nat, maximum = MaximumLines(width), maximum >= 2,
         NEW grain \in Nat \ {0},
         visible.to - visible.from <= Product(Product(grain, Step(e)), 2 * maximum - 1),
         NEW i \in Int, NEW j \in Int, Rem(i, grain) = 0, Rem(j, grain) = 0, i < j
  PROVE  ColumnAt(At(i, e), visible, width) < ColumnAt(At(j, e), visible, width)
<1>1. PICK s \in Nat \ {0}, phase \in Int : s = Step(e) /\ phase = Phase(e)
  BY EngineNumbers, PhaseIs
<1>2. PICK d \in Nat \ {0}, from \in Int : d = visible.to - visible.from /\ from = visible.from
  OBVIOUS
<1>3. PICK p \in Nat \ {0}, spacing \in Nat \ {0} : p = 2 * maximum - 1 /\ spacing = Product(grain, s)
  <2>1. 2 * maximum - 1 \in Nat \ {0}
    OBVIOUS
  <2>2. Product(grain, s) \in Nat \ {0}
    BY DEF Product
  <2> QED
    BY <2>1, <2>2
<1>4. d <= Product(spacing, p)
  BY <1>1, <1>2, <1>3
<1>5. PICK a \in Int, b \in Int : a = At(i, e) /\ b = At(j, e)
  BY IndexRange
<1>6. a + spacing <= b
  <2>1. i + grain <= j
    BY MultiplesApart
  <2>2. PICK n \in Nat : j = i + grain + n
    <3>1. j - (i + grain) \in Nat /\ j = i + grain + (j - (i + grain))
      BY <2>1
    <3> QED
      BY <3>1
  <2>3. PICK x \in Int, y \in Nat : x = Product(i, s) /\ y = n * s
    BY Scaled
  <2>4. Product(j, s) = x + spacing + y
    BY <1>3, <2>2, <2>3 DEF Product
  <2>5. a = phase + x /\ b = phase + (x + spacing + y)
    BY <1>1, <1>5, <2>3, <2>4 DEF At
  <2> QED
    BY <2>5
<1>7. PICK w \in Nat : w = width - 1
  OBVIOUS
<1>8. p <= w
  <2>1. ~ width < GridSpacing
    BY DEF MaximumLines
  <2>2. maximum = Quo(width, GridSpacing)
    BY <2>1 DEF MaximumLines, Quo
  <2>3. PICK x \in Int : x = width
    OBVIOUS
  <2>4. GridSpacing \in Nat \ {0}
    OBVIOUS
  <2>5. Product(GridSpacing, Quo(x, GridSpacing)) <= x
    BY <2>4, FloorIs
  <2>6. Product(GridSpacing, maximum) <= x
    BY <2>2, <2>3, <2>5
  <2>7. PICK more \in Nat : GridSpacing = 2 + more
    <3>1. GridSpacing - 2 \in Nat /\ GridSpacing = 2 + (GridSpacing - 2)
      OBVIOUS
    <3> QED
      BY <3>1
  <2>8. Product(GridSpacing, maximum) = 2 * maximum + more * maximum /\ more * maximum >= 0
        /\ more * maximum \in Int
    BY <2>7 DEF Product
  <2> QED
    BY <1>3, <1>7, <2>3, <2>6, <2>8
<1>9. PICK x \in Int, y \in Int : x = (a - from) * w /\ y = (b - from) * w
  OBVIOUS
<1>10. x + d <= y
  <2>1. PICK m \in Nat : b = a + spacing + m
    <3>1. b - (a + spacing) \in Nat /\ b = a + spacing + (b - (a + spacing))
      BY <1>6
    <3> QED
      BY <3>1
  <2>2. PICK n \in Nat : w = p + n
    <3>1. w - p \in Nat /\ w = p + (w - p)
      BY <1>8
    <3> QED
      BY <3>1
  <2>3. PICK u \in Int : u = spacing * p
    OBVIOUS
  <2>4. PICK v \in Nat, z \in Nat : v = spacing * n /\ z = m * w
    OBVIOUS
  <2>5. y = x + spacing * w + z
    BY <1>9, <2>1, <2>4
  <2>6. spacing * w = u + v
    BY <2>2, <2>3, <2>4
  <2>7. d <= u
    BY <1>4, <2>3 DEF Product
  <2>8. y = x + (u + v) + z
    BY <2>5, <2>6
  <2> QED
    BY <2>7, <2>8
<1>11. ColumnAt(a, visible, width) = Quo(x, d) /\ ColumnAt(b, visible, width) = Quo(y, d)
  BY <1>2, <1>7, <1>9 DEF ColumnAt, Quo
<1> QED
  BY <1>5, <1>10, <1>11, NextColumn

------------------------------------------------------------------------------
(* The grid lines: what is on screen *)

LinesInv ==
  /\ GoodEngine(grid_engine) /\ grid_view \in LineViews /\ graph_width \in Widths
  /\ drawn_lines = GridOverlay(grid_engine, grid_view, graph_width)

(* The multiples of u indices are those of u steps from the offset, when a *)
(* bar is a whole number of them.                                          *)
LEMMA OffsetTime ==
  ASSUME NEW e, GoodEngine(e), NEW u \in Nat \ {0}, Rem(Period(e), u) = 0, NEW t \in Int
  PROVE  (Rem(t - e.grid_offset_seconds, Product(u, Step(e))) = 0)
           <=> \E i \in Int : Rem(i, u) = 0 /\ t = At(i, e)
<1>0. (Rem(t - Phase(e), Product(u, Step(e))) = 0) = (\E i \in Int : Rem(i, u) = 0 /\ t = At(i, e))
  BY GridTime
<1>1. PICK s \in Nat \ {0}, period \in Nat \ {0}, offset \in Int, phase \in Int :
        /\ s = Step(e) /\ period = Period(e) /\ offset = e.grid_offset_seconds /\ phase = Phase(e)
        /\ BarDuration(e) = Product(period, s)
  BY EngineNumbers, PhaseIs
<1>2. PICK c \in Int : period = u * c
  <2>1. PICK p \in Int : p = period
    OBVIOUS
  <2>2. Multiple(p, u)
    BY <1>1, <2>1, MultipleOf
  <2> QED
    BY <2>1, <2>2 DEF Multiple
<1>3. PICK spacing \in Nat \ {0} : spacing = Product(u, s)
  BY DEF Product
<1>4. PICK k \in Int : offset = phase + k * (period * s)
  <2>1. Wraps(offset, phase, Product(period, s))
    BY <1>1, PhaseIs
  <2> QED
    BY <2>1 DEF Wraps, Product
<1>5. PICK x \in Int, y \in Int, l \in Int : x = t - phase /\ y = t - offset /\ l = k * c
  OBVIOUS
<1>6. x = y + l * spacing
  <2>1. k * (period * s) = l * spacing
    BY <1>2, <1>3, <1>5 DEF Product
  <2> QED
    BY <1>4, <1>5, <2>1
<1>7. Wraps(x, y, spacing)
  BY <1>6 DEF Wraps
<1>8. Rem(x, spacing) = Rem(y, spacing)
  BY <1>7, Wrapped
<1> QED
  BY <1>0, <1>1, <1>3, <1>5, <1>8

Painted(grain) ==
  /\ \A line : line \in drawn_lines <=>
       \E i \in Int : Drawn(i, grain, grid_engine, grid_view) /\ line = Line(i, grid_engine)
  /\ Kind(grain, grid_engine.subdivisions_per_beat, Period(grid_engine))
  /\ IsFiniteSet(drawn_lines) /\ Cardinality(drawn_lines) <= MaximumLines(graph_width)
  /\ MaximumLines(graph_width) >= 2 /\ drawn_lines # {} =>
       grid_view.to - grid_view.from
         <= Product(Product(grain, Step(grid_engine)), 2 * MaximumLines(graph_width) - 1)

LEMMA ScreenIs ==
  ASSUME GridAssumption, LinesInv
  PROVE  /\ GoodEngine(grid_engine) /\ GridSpacing \in Nat /\ GridSpacing >= 2
         /\ grid_view.from \in Int /\ grid_view.to \in Int /\ grid_view.from < grid_view.to
         /\ drawn_lines # {} => graph_width \in Nat \ {0} /\ \E grain \in Nat \ {0} : Painted(grain)
<1>1. /\ GoodEngine(grid_engine) /\ GridSpacing \in Nat /\ GridSpacing >= 2 /\ MinimumPixels \in Nat
      /\ grid_view.from \in Int /\ grid_view.to \in Int /\ grid_view.from < grid_view.to
      /\ graph_width \in Nat
  BY DEF GridAssumption, LinesInv
<1>2. CASE graph_width = 0
  <2>1. drawn_lines = {}
    BY <1>2 DEF LinesInv, GridOverlay
  <2> QED
    BY <1>1, <2>1
<1>3. CASE graph_width # 0
  <2>1. graph_width \in Nat \ {0} /\ GridSpacing \in Nat \ {0}
    BY <1>1, <1>3
  <2>2. \E grain \in Nat \ {0} : Painted(grain)
    BY <1>1, <2>1, Grain DEF LinesInv, Painted, Kind
  <2> QED
    BY <1>1, <2>1, <2>2
<1> QED
  BY <1>2, <1>3

LEMMA DrawnLineTells ==
  ASSUME GridAssumption, LinesInv, NEW line \in drawn_lines
  PROVE  LET ticks == line.seconds - grid_engine.grid_offset_seconds
         IN  /\ line \in LineType /\ Rem(ticks, Step(grid_engine)) = 0
             /\ line.is_beat = (Rem(ticks, BeatTicks(grid_engine)) = 0)
             /\ line.is_bar = (Rem(ticks, BarDuration(grid_engine)) = 0)
             /\ line.is_beat =>
                  line.beat_in_bar = Quo(Rem(ticks, BarDuration(grid_engine)), BeatTicks(grid_engine))
<1>1. PICK grain \in Nat \ {0} : Painted(grain)
  BY ScreenIs
<1>2. PICK i \in Int : line = Line(i, grid_engine)
  BY <1>1 DEF Painted
<1> QED
  BY <1>2, ScreenIs, LineTells

LEMMA EmphasisIs == ASSUME GridAssumption, LinesInv PROVE EmphasisFollowsOffset
BY DrawnLineTells DEF EmphasisFollowsOffset, Rem, Quo

LEMMA LinesTyped == ASSUME GridAssumption, LinesInv PROVE LinesTypeOK
<1>1. \A line \in drawn_lines : line \in LineType
  BY DrawnLineTells
<1> QED
  BY <1>1 DEF LinesTypeOK, LineType, LinesInv, GoodEngine

LEMMA CoarseIs == ASSUME GridAssumption, LinesInv PROVE CoarseBeforeFine
<1>1. PICK s \in Nat \ {0}, sub \in Nat \ {0}, period \in Nat \ {0} :
        /\ s = Step(grid_engine) /\ sub = grid_engine.subdivisions_per_beat
        /\ period = Period(grid_engine) /\ Rem(period, sub) = 0
        /\ BeatTicks(grid_engine) = Product(sub, s) /\ BarDuration(grid_engine) = Product(period, s)
  BY ScreenIs, EngineNumbers
<1>2. GoodEngine(grid_engine) /\ grid_view.from \in Int /\ grid_view.to \in Int
  BY ScreenIs
<1>3. ASSUME NEW line \in drawn_lines
      PROVE  \E i \in Int, grain \in Nat \ {0} :
               /\ Painted(grain) /\ Drawn(i, grain, grid_engine, grid_view)
               /\ line = Line(i, grid_engine) /\ line.seconds = At(i, grid_engine)
               /\ line.is_beat = (Rem(i, sub) = 0) /\ line.is_bar = (Rem(i, period) = 0)
  <2>1. PICK grain \in Nat \ {0} : Painted(grain)
    BY ScreenIs
  <2>2. PICK i \in Int : Drawn(i, grain, grid_engine, grid_view) /\ line = Line(i, grid_engine)
    BY <2>1 DEF Painted
  <2>3. /\ line.seconds = At(i, grid_engine)
        /\ line.is_beat = (Rem(i, sub) = 0) /\ line.is_bar = (Rem(i, period) = 0)
    BY <1>1, <1>2, <2>2, LineTells DEF At
  <2> QED
    BY <2>1, <2>2, <2>3
<1>4. DrawnTimes \subseteq LinesInView(Step(grid_engine))
  <2>1. ASSUME NEW line \in drawn_lines PROVE line.seconds \in LinesInView(Step(grid_engine))
    <3>1. PICK i \in Int, grain \in Nat \ {0} :
            Drawn(i, grain, grid_engine, grid_view) /\ line.seconds = At(i, grid_engine)
      BY <1>3
    <3>2. PICK t \in Int : t = line.seconds
      BY <1>2, <3>1, IndexRange
    <3>3. grid_view.from <= t /\ t <= grid_view.to
      BY <3>1, <3>2 DEF Drawn, InRange
    <3>4. (t - grid_engine.grid_offset_seconds) % Step(grid_engine) = 0
      BY <3>2, DrawnLineTells DEF Rem
    <3> QED
      BY <1>2, <3>2, <3>3, <3>4 DEF LinesInView
  <2> QED
    BY <2>1 DEF DrawnTimes
<1>5. ASSUME NEW grain \in Nat \ {0}, Painted(grain), NEW u \in Nat \ {0}, Rem(period, u) = 0,
             \A i \in Int : Rem(i, u) = 0 => Rem(i, grain) = 0,
             NEW t \in LinesInView(Product(u, s))
      PROVE  t \in DrawnTimes
  <2>1. t \in Int /\ grid_view.from <= t /\ t <= grid_view.to
        /\ Rem(t - grid_engine.grid_offset_seconds, Product(u, s)) = 0
    BY <1>2 DEF LinesInView, Rem
  <2>2. PICK i \in Int : Rem(i, u) = 0 /\ t = At(i, grid_engine)
    BY <1>1, <1>2, <1>5, <2>1, OffsetTime
  <2>3. Drawn(i, grain, grid_engine, grid_view)
    BY <1>5, <2>1, <2>2 DEF Drawn, InRange
  <2>4. Line(i, grid_engine) \in drawn_lines
    BY <1>5, <2>3 DEF Painted
  <2>5. Line(i, grid_engine).seconds = t
    BY <1>2, <2>2, LineTells DEF At
  <2> QED
    BY <2>4, <2>5 DEF DrawnTimes
<1>6. \A i \in Int : Rem(i, 1) = 0
  BY DEF Rem
<1>7. period \in Int /\ sub \in Int /\ Rem(period, period) = 0
  BY DEF Rem
<1>8. ASSUME NEW line \in drawn_lines, ~ line.is_beat
      PROVE  LinesInView(BeatTicks(grid_engine)) \subseteq DrawnTimes
  <2>1. PICK i \in Int, grain \in Nat \ {0} :
          Painted(grain) /\ Drawn(i, grain, grid_engine, grid_view) /\ line.is_beat = (Rem(i, sub) = 0)
    BY <1>3
  <2>2. Rem(i, grain) = 0 /\ Rem(i, sub) # 0
    BY <1>8, <2>1 DEF Drawn
  <2>3. grain = 1
    <3>1. grain = 1 \/ grain = sub \/ Rem(grain, period) = 0
      BY <1>1, <2>1 DEF Painted, Kind
    <3>2. ~ Rem(grain, period) = 0
      <4>1. ASSUME Rem(grain, period) = 0 PROVE FALSE
        <5>1. Rem(i, period) = 0
          BY <2>2, <4>1, MultipleOfMultiple
        <5>2. Rem(i, sub) = 0
          BY <1>1, <5>1, MultipleOfMultiple
        <5> QED
          BY <2>2, <5>2
      <4> QED
        BY <4>1
    <3> QED
      BY <2>2, <3>1, <3>2
  <2>4. \A j \in Int : Rem(j, grain) = 0
    BY <1>6, <2>3
  <2> QED
    BY <1>1, <1>5, <2>1, <2>4
<1>9. ASSUME NEW line \in drawn_lines, ~ line.is_bar
      PROVE  LinesInView(BarDuration(grid_engine)) \subseteq DrawnTimes
  <2>1. PICK i \in Int, grain \in Nat \ {0} :
          Painted(grain) /\ Drawn(i, grain, grid_engine, grid_view) /\ line.is_bar = (Rem(i, period) = 0)
    BY <1>3
  <2>2. Rem(i, grain) = 0 /\ Rem(i, period) # 0
    BY <1>9, <2>1 DEF Drawn
  <2>3. Rem(period, grain) = 0
    <3>1. grain = 1 \/ grain = sub \/ Rem(grain, period) = 0
      BY <1>1, <2>1 DEF Painted, Kind
    <3>2. ~ Rem(grain, period) = 0
      BY <2>2, MultipleOfMultiple
    <3> QED
      BY <1>1, <1>6, <1>7, <3>1, <3>2
  <2>4. \A j \in Int : Rem(j, period) = 0 => Rem(j, grain) = 0
    BY <2>3, MultipleOfMultiple
  <2> QED
    BY <1>1, <1>5, <1>7, <2>1, <2>4
<1> QED
  BY <1>4, <1>8, <1>9 DEF CoarseBeforeFine

LEMMA ColumnsAre == ASSUME GridAssumption, LinesInv PROVE OneLinePerColumn
<1>1. CASE drawn_lines = {}
  <2>1. Cardinality(drawn_lines) = 0
    BY <1>1, FS_EmptySet
  <2>2. MaximumLines(graph_width) \in Nat
    <3>1. graph_width \in Nat /\ GridSpacing \in Nat \ {0}
      BY DEF GridAssumption, LinesInv
    <3> QED
      BY <3>1 DEF MaximumLines
  <2> QED
    BY <1>1, <2>1, <2>2 DEF OneLinePerColumn
<1>2. CASE drawn_lines # {}
  <2>1. PICK grain \in Nat \ {0} : graph_width \in Nat \ {0} /\ Painted(grain)
    BY <1>2, ScreenIs
  <2>2. PICK maximum \in Nat : maximum = MaximumLines(graph_width)
    <3>1. GridSpacing \in Nat \ {0}
      BY DEF GridAssumption
    <3> QED
      BY <2>1, <3>1 DEF MaximumLines
  <2>3. IsFiniteSet(drawn_lines) /\ Cardinality(drawn_lines) <= maximum
    BY <2>1, <2>2 DEF Painted
  <2>4. ASSUME NEW a \in drawn_lines, NEW b \in drawn_lines, a # b
        PROVE  ColumnAt(a.seconds, grid_view, graph_width) # ColumnAt(b.seconds, grid_view, graph_width)
    <3>1. maximum >= 2
      <4>1. Cardinality({a}) = 1 /\ IsFiniteSet({a})
        BY FS_Singleton
      <4>2. IsFiniteSet({a} \cup {b}) /\ Cardinality({a} \cup {b}) = 2
        BY <2>4, <4>1, FS_AddElement
      <4>3. {a} \cup {b} \subseteq drawn_lines
        BY <2>4
      <4>4. Cardinality({a} \cup {b}) <= Cardinality(drawn_lines) /\ Cardinality(drawn_lines) \in Nat
        BY <2>3, <4>3, FS_Subset, FS_CardinalityType
      <4> QED
        BY <2>3, <4>2, <4>4
    <3>2. grid_view.to - grid_view.from
            <= Product(Product(grain, Step(grid_engine)), 2 * maximum - 1)
      BY <1>2, <2>1, <2>2, <3>1 DEF Painted
    <3>3. ASSUME NEW line \in drawn_lines
          PROVE  \E i \in Int : Rem(i, grain) = 0 /\ line = Line(i, grid_engine)
                                /\ line.seconds = At(i, grid_engine)
      <4>1. PICK i \in Int : Drawn(i, grain, grid_engine, grid_view) /\ line = Line(i, grid_engine)
        BY <2>1 DEF Painted
      <4>2. line.seconds = At(i, grid_engine)
        BY <4>1, ScreenIs, LineTells DEF At
      <4> QED
        BY <4>1, <4>2 DEF Drawn
    <3>4. PICK i \in Int : Rem(i, grain) = 0 /\ a = Line(i, grid_engine) /\ a.seconds = At(i, grid_engine)
      BY <3>3
    <3>5. PICK j \in Int : Rem(j, grain) = 0 /\ b = Line(j, grid_engine) /\ b.seconds = At(j, grid_engine)
      BY <3>3
    <3>6. ASSUME NEW x \in Int, NEW y \in Int, Rem(x, grain) = 0, Rem(y, grain) = 0, x < y
          PROVE  ColumnAt(At(x, grid_engine), grid_view, graph_width)
                   < ColumnAt(At(y, grid_engine), grid_view, graph_width)
      <4>1. /\ GoodEngine(grid_engine) /\ grid_view.from \in Int /\ grid_view.to \in Int
            /\ grid_view.from < grid_view.to /\ graph_width \in Nat \ {0}
            /\ GridSpacing \in Nat /\ GridSpacing >= 2
        BY <2>1, ScreenIs
      <4> QED
        BY <2>2, <3>1, <3>2, <3>6, <4>1, ColumnsApart
    <3>7. ASSUME NEW x \in Int
          PROVE  ColumnAt(At(x, grid_engine), grid_view, graph_width) \in Int
      <4>1. PICK d \in Nat \ {0} : d = grid_view.to - grid_view.from
        BY ScreenIs
      <4>2. PICK t \in Int : t = (At(x, grid_engine) - grid_view.from) * (graph_width - 1)
        <5>1. GoodEngine(grid_engine) /\ grid_view.from \in Int
          BY ScreenIs
        <5>2. At(x, grid_engine) \in Int
          BY <5>1, IndexRange
        <5> QED
          BY <2>1, <5>1, <5>2
      <4>3. ColumnAt(At(x, grid_engine), grid_view, graph_width) = Quo(t, d)
        BY <4>1, <4>2 DEF ColumnAt, Quo
      <4> QED
        BY <4>3, FloorIs
    <3>8. i < j \/ j < i
      BY <2>4, <3>4, <3>5
    <3>9. PICK p \in Int, q \in Int : p = ColumnAt(At(i, grid_engine), grid_view, graph_width)
                                      /\ q = ColumnAt(At(j, grid_engine), grid_view, graph_width)
      BY <3>7
    <3>10. p < q \/ q < p
      BY <3>4, <3>5, <3>6, <3>8, <3>9
    <3> QED
      BY <3>4, <3>5, <3>9, <3>10
  <2> QED
    BY <2>2, <2>3, <2>4 DEF OneLinePerColumn
<1> QED
  BY <1>1, <1>2

(* The step that keeps the lines, of any two states of one engine.         *)
ViewStep ==
  /\ grid_engine' = grid_engine /\ graph_width' = graph_width
  /\ Cardinality(DrawnTimes) >= 2 /\ Cardinality(DrawnTimes') >= 2
  /\ SpacingOf(DrawnTimes) = SpacingOf(DrawnTimes')
  => {t \in DrawnTimes : InView(t)'} = {t \in DrawnTimes' : InView(t)}

(* The times of some lines. *)
TimesOf(times, lines) == \A t : t \in times <=> \E line \in lines : t = line.seconds

LEMMA TimesAreSpaced ==
  ASSUME NEW e, GoodEngine(e), NEW visible, visible.from \in Int, visible.to \in Int, visible.from < visible.to,
         NEW width \in Nat, GridSpacing \in Nat \ {0}, MinimumPixels \in Nat,
         NEW times, TimesOf(times, GridOverlay(e, visible, width)),
         Cardinality(times) >= 2
  PROVE  \E spacing \in Nat \ {0} :
           Spaced(times, Phase(e), spacing, visible) /\ SpacingOf(times) = spacing
<1>0. PICK lines : lines = GridOverlay(e, visible, width)
  OBVIOUS
<1>1. width \in Nat \ {0}
  <2>1. ASSUME width = 0 PROVE FALSE
    <3>1. times = {}
      BY <2>1 DEF GridOverlay, TimesOf
    <3> QED
      BY <3>1, FS_EmptySet
  <2> QED
    BY <2>1
<1>2. PICK grain \in Nat \ {0} : LinesOf(lines, grain, e, visible)
  BY <1>0, <1>1, Grain DEF LinesOf
<1>3. PICK spacing \in Nat \ {0} : spacing = Product(grain, Step(e))
  BY EngineNumbers DEF Product
<1>4. PICK phase \in Int : phase = Phase(e)
  BY PhaseIs
<1>5. ASSUME NEW t
      PROVE  (\E line \in lines : t = line.seconds)
               <=> /\ t \in Int /\ visible.from <= t /\ t <= visible.to
                   /\ Rem(t - Phase(e), Product(grain, Step(e))) = 0
  BY <1>2, TimesDrawn
<1>6. Spaced(times, phase, spacing, visible)
  BY <1>0, <1>3, <1>4, <1>5 DEF Spaced, TimesOf
<1>7. SpacingOf(times) = spacing
  BY <1>6, SpacingIs
<1> QED
  BY <1>4, <1>6, <1>7

LEMMA ViewStepKeeps == ASSUME GridAssumption, LinesInv, LinesInv' PROVE ViewStep
<1> SUFFICES ASSUME grid_engine' = grid_engine,
                    Cardinality(DrawnTimes) >= 2, Cardinality(DrawnTimes') >= 2,
                    SpacingOf(DrawnTimes) = SpacingOf(DrawnTimes')
             PROVE  {t \in DrawnTimes : InView(t)'} = {t \in DrawnTimes' : InView(t)}
  BY DEF ViewStep
<1>0. ASSUME NEW visible \in LineViews, NEW width \in Widths
      PROVE  /\ visible.from \in Int /\ visible.to \in Int /\ visible.from < visible.to /\ width \in Nat
             /\ GridSpacing \in Nat \ {0} /\ MinimumPixels \in Nat
  BY DEF GridAssumption
<1>1. PICK spacing \in Nat \ {0} :
        Spaced(DrawnTimes, Phase(grid_engine), spacing, grid_view) /\ SpacingOf(DrawnTimes) = spacing
  <2>1. /\ GoodEngine(grid_engine) /\ grid_view \in LineViews /\ graph_width \in Widths
        /\ TimesOf(DrawnTimes, GridOverlay(grid_engine, grid_view, graph_width))
    BY DEF LinesInv, DrawnTimes, TimesOf
  <2>2. PICK e, visible, width, times :
          e = grid_engine /\ visible = grid_view /\ width = graph_width /\ times = DrawnTimes
    OBVIOUS
  <2>3. \E spacing \in Nat \ {0} :
          Spaced(times, Phase(e), spacing, visible) /\ SpacingOf(times) = spacing
    <3>1. /\ GoodEngine(e) /\ visible \in LineViews /\ width \in Widths
          /\ TimesOf(times, GridOverlay(e, visible, width)) /\ Cardinality(times) >= 2
      BY <2>1, <2>2
    <3>2. /\ visible.from \in Int /\ visible.to \in Int /\ visible.from < visible.to /\ width \in Nat
          /\ GridSpacing \in Nat \ {0} /\ MinimumPixels \in Nat
      BY <1>0, <3>1
    <3> QED
      BY <3>1, <3>2, TimesAreSpaced
  <2> QED
    BY <2>2, <2>3
<1>2. PICK other \in Nat \ {0} :
        /\ Spaced(DrawnTimes', Phase(grid_engine'), other, grid_view')
        /\ SpacingOf(DrawnTimes') = other
  <2>1. /\ GoodEngine(grid_engine') /\ grid_view' \in LineViews /\ graph_width' \in Widths
        /\ TimesOf(DrawnTimes', GridOverlay(grid_engine', grid_view', graph_width'))
    BY DEF LinesInv, DrawnTimes, TimesOf
  <2>2. PICK e, visible, width, times :
          e = grid_engine' /\ visible = grid_view' /\ width = graph_width' /\ times = DrawnTimes'
    OBVIOUS
  <2>3. \E gap \in Nat \ {0} :
          Spaced(times, Phase(e), gap, visible) /\ SpacingOf(times) = gap
    <3>1. /\ GoodEngine(e) /\ visible \in LineViews /\ width \in Widths
          /\ TimesOf(times, GridOverlay(e, visible, width)) /\ Cardinality(times) >= 2
      BY <2>1, <2>2
    <3>2. /\ visible.from \in Int /\ visible.to \in Int /\ visible.from < visible.to /\ width \in Nat
          /\ GridSpacing \in Nat \ {0} /\ MinimumPixels \in Nat
      BY <1>0, <3>1
    <3> QED
      BY <3>1, <3>2, TimesAreSpaced
  <2> QED
    BY <2>2, <2>3
<1>3. Spaced(DrawnTimes', Phase(grid_engine), spacing, grid_view')
  BY <1>1, <1>2
<1>4. ASSUME NEW t PROVE (t \in DrawnTimes /\ InView(t)') <=> (t \in DrawnTimes' /\ InView(t))
  BY <1>1, <1>3 DEF Spaced, InView
<1> QED
  BY <1>4

------------------------------------------------------------------------------
(* The grid lines: the one a marker snaps to *)

(* The rounded quotient is within half a divisor, whatever the sign. *)
LEMMA RoundedIs ==
  ASSUME NEW a \in Int, NEW b \in Nat \ {0}
  PROVE  LET r == RoundedQuotient(a, b)
         IN  r \in Int /\ 2 * Product(r, b) - 2 * a <= b /\ 2 * a - 2 * Product(r, b) <= b
<1>1. PICK m \in Nat : m = Magnitude(a) /\ (a < 0 => m = -a) /\ (a >= 0 => m = a)
  BY DEF Magnitude
<1>2. PICK d \in Nat \ {0}, x \in Int : d = 2 * b /\ x = 2 * m + b
  OBVIOUS
<1>3. PICK q \in Int : q = Quo(x, d) /\ Product(d, q) <= x /\ x < Product(d, q) + d
  BY FloorIs
<1>4. PICK t \in Int : t = q * b
  OBVIOUS
<1>5. Product(d, q) = 2 * t
  BY <1>2, <1>4 DEF Product
<1>6. 2 * t - 2 * m <= b /\ 2 * m - 2 * t <= b
  BY <1>2, <1>3, <1>5
<1>7. RoundedQuotient(a, b) = IF a < 0 THEN -q ELSE q
  BY <1>1, <1>2, <1>3 DEF RoundedQuotient, Quo
<1>8. CASE a < 0
  <2>1. Product(-q, b) = -t
    BY <1>4 DEF Product
  <2>2. PICK r \in Int, y \in Int : r = RoundedQuotient(a, b) /\ y = Product(r, b) /\ y = -t
    BY <1>7, <1>8, <2>1
  <2> QED
    BY <1>1, <1>6, <1>8, <2>2
<1>9. CASE a >= 0
  <2>1. Product(q, b) = t
    BY <1>4 DEF Product
  <2>2. PICK r \in Int, y \in Int : r = RoundedQuotient(a, b) /\ y = Product(r, b) /\ y = t
    BY <1>7, <1>9, <2>1
  <2> QED
    BY <1>1, <1>6, <1>9, <2>2
<1> QED
  BY <1>8, <1>9

(* A marker snaps to the nearest line, and to 0 when that is before it.    *)
LEMMA SnapIs ==
  ASSUME NEW e, GoodEngine(e), NEW ticks \in Int
  PROVE  \E line \in Int :
           /\ snap_to_grid(ticks, e) = IF line < 0 THEN 0 ELSE line
           /\ Rem(line - e.grid_offset_seconds, Step(e)) = 0
           /\ 2 * line - 2 * ticks <= Step(e) /\ 2 * ticks - 2 * line <= Step(e)
<1>1. PICK s \in Nat \ {0}, offset \in Int : s = Step(e) /\ offset = e.grid_offset_seconds
  BY EngineNumbers
<1>2. PICK phase \in Int : phase = FMod(offset, s) /\ Wraps(offset, phase, s)
  BY FModIs
<1>3. PICK a \in Int : a = ticks - phase
  OBVIOUS
<1>4. PICK r \in Int : /\ r = RoundedQuotient(a, s)
                       /\ 2 * Product(r, s) - 2 * a <= s /\ 2 * a - 2 * Product(r, s) <= s
  BY RoundedIs
<1>5. PICK x \in Int : x = Product(r, s)
  BY Scaled
<1>6. PICK line \in Int : line = phase + x
  OBVIOUS
<1>7. snap_to_grid(ticks, e) = IF line < 0 THEN 0 ELSE line
  BY <1>1, <1>2, <1>3, <1>4, <1>5, <1>6 DEF snap_to_grid, Product
<1>8. 2 * line - 2 * ticks <= s /\ 2 * ticks - 2 * line <= s
  BY <1>3, <1>4, <1>5, <1>6
<1>9. Rem(line - offset, s) = 0
  <2>1. PICK k \in Int : offset = phase + k * s
    BY <1>2 DEF Wraps
  <2>2. PICK l \in Int, y \in Int : l = r - k /\ y = line - offset
    OBVIOUS
  <2>3. y = s * l
    BY <1>5, <1>6, <2>1, <2>2 DEF Product
  <2>4. Multiple(y, s)
    BY <2>3 DEF Multiple
  <2> QED
    BY <2>2, <2>4, MultipleOf
<1> QED
  BY <1>1, <1>7, <1>8, <1>9

(* One time has one line, if it is one of the grid's, and otherwise none.  *)
LEMMA LinesAtPoint ==
  ASSUME NEW e, GoodEngine(e), NEW p \in Int
  PROVE  LET lines == grid_lines(p, p, e, 1)
         IN  /\ lines # <<>> => lines[1].seconds = p
             /\ lines = <<>> => Rem(p - e.grid_offset_seconds, Step(e)) # 0
<1> DEFINE lines == grid_lines(p, p, e, 1)
<1>1. PICK first \in Int, last \in Int : first = FirstIndex(p, e) /\ last = LastIndex(p, e)
  BY IndexRange
<1>2. PICK s \in Nat \ {0}, phase \in Int : s = Step(e) /\ phase = Phase(e)
  BY EngineNumbers, PhaseIs
<1>3. ASSUME NEW i \in Int
      PROVE  /\ (p = At(i, e)) = (first <= i /\ i <= last)
             /\ At(i, e) = phase + Product(i, s) /\ Product(i, s) \in Int
  <2>1. PICK x \in Int : x = At(i, e)
    BY IndexRange
  <2>2. (p <= x) = (first <= i) /\ (x <= p) = (i <= last)
    BY <1>1, <2>1, IndexRange
  <2>3. At(i, e) = phase + Product(i, s) /\ Product(i, s) \in Int
    BY <1>2, Scaled DEF At
  <2> QED
    BY <2>1, <2>2, <2>3
<1>4. CASE last < first
  <2>1. lines = <<>>
    BY <1>1, <1>4 DEF grid_lines
  <2>2. ASSUME Rem(p - e.grid_offset_seconds, Step(e)) = 0 PROVE FALSE
    <3>1. PICK one \in Nat \ {0} : one = 1
      OBVIOUS
    <3>2. Rem(Period(e), one) = 0 /\ Product(one, Step(e)) = Step(e)
      BY <3>1, EngineNumbers DEF Rem, Product
    <3>3. PICK i \in Int : p = At(i, e)
      <4>1. Rem(p - e.grid_offset_seconds, Product(one, Step(e))) = 0
        BY <2>2, <3>2
      <4> QED
        BY <3>2, <4>1, OffsetTime
    <3>4. first <= i /\ i <= last
      BY <1>3, <3>3
    <3> QED
      BY <1>4, <3>4
  <2> QED
    BY <2>1, <2>2
<1>5. CASE first <= last
  <2>1. p = At(first, e) /\ p = At(last, e)
    BY <1>3, <1>5
  <2>2. last = first
    <3>1. PICK x \in Int, y \in Int : x = Product(first, s) /\ y = Product(last, s) /\ x = y
      BY <1>3, <2>1
    <3>2. x = s * first /\ y = s * last
      BY <3>1 DEF Product
    <3> QED
      BY <3>1, <3>2
  <2>3. PICK one \in Nat \ {0} : one = 1 /\ Stride(one, e, one) = 1
    <3>1. PICK one \in Nat \ {0} : one = 1
      OBVIOUS
    <3>2. Stride(one, e, one) = 1
      BY <3>1, StrideFits
    <3> QED
      BY <3>1, <3>2
  <2>4. last - first + 1 = one
    BY <2>2, <2>3
  <2>5. Aligned(first, 1) = first
    BY DEF Aligned, CeilingOf
  <2>6. lines = [k \in 1 .. 1 |-> Line(first + (k - 1) * 1, e)]
    <3>1. ~ (p < p \/ 1 = 0 \/ last < first)
      BY <1>5
    <3>2. Stride(last - first + 1, e, 1) = 1
      BY <2>3, <2>4
    <3>3. ~ last < first /\ (last - first) \div 1 + 1 = 1
      BY <2>2
    <3> QED
      BY <1>1, <2>5, <3>1, <3>2, <3>3 DEF grid_lines
  <2>7. lines[1] = Line(first, e)
    <3>1. 1 \in 1 .. 1 /\ first + (1 - 1) * 1 = first
      OBVIOUS
    <3> HIDE DEF lines
    <3> QED
      BY <2>6, <3>1
  <2>8. Line(first, e).seconds = p
    BY <2>1, LineTells DEF At
  <2>9. lines # <<>>
    <3>1. DOMAIN lines = 1 .. 1
      BY <2>6
    <3>2. 1 \in DOMAIN lines
      BY <3>1
    <3> HIDE DEF lines
    <3> QED
      BY <3>2
  <2> QED
    BY <2>7, <2>8, <2>9
<1> QED
  BY <1>4, <1>5

(* A marker that is snapped is on a line. *)
LEMMA SnapsIs == ASSUME GridAssumption, LinesInv PROVE SnapsToALine
<1>1. ASSUME NEW ticks \in Nat
      PROVE  LET marker == snap_to_grid(ticks, grid_engine)
                 lines  == grid_lines(marker, marker, grid_engine, 1)
             IN  /\ 2 * Apart(marker, ticks) <= Step(grid_engine)
                 /\ lines = <<>> => marker = 0 /\ 2 * ticks < Step(grid_engine)
                 /\ lines # <<>> => lines[1].seconds = marker
  <2>1. PICK s \in Nat \ {0} : s = Step(grid_engine)
    BY ScreenIs, EngineNumbers
  <2>2. PICK line \in Int :
          /\ snap_to_grid(ticks, grid_engine) = IF line < 0 THEN 0 ELSE line
          /\ Rem(line - grid_engine.grid_offset_seconds, s) = 0
          /\ 2 * line - 2 * ticks <= s /\ 2 * ticks - 2 * line <= s
    <3>1. ticks \in Int
      OBVIOUS
    <3> QED
      BY <2>1, <3>1, ScreenIs, SnapIs
  <2>3. PICK marker \in Int : /\ marker = snap_to_grid(ticks, grid_engine)
                              /\ line < 0 => marker = 0
                              /\ line >= 0 => marker = line
    BY <2>2
  <2>4. 2 * Apart(marker, ticks) <= s
    BY <2>2, <2>3 DEF Apart, Magnitude
  <2>5. line < 0 => marker = 0 /\ 2 * ticks < s
    BY <2>2, <2>3
  <2> DEFINE lines == grid_lines(marker, marker, grid_engine, 1)
  <2>6. /\ lines # <<>> => lines[1].seconds = marker
        /\ lines = <<>> => Rem(marker - grid_engine.grid_offset_seconds, s) # 0
    BY <2>1, ScreenIs, LinesAtPoint
  <2> HIDE DEF lines
  <2>7. lines = <<>> => line < 0
    BY <2>2, <2>3, <2>6
  <2> QED
    BY <2>1, <2>3, <2>4, <2>5, <2>6, <2>7 DEF lines
<1>2. grid_view.from \in Nat /\ (grid_view.from + grid_view.to) \div 2 \in Nat
  <2>1. grid_view.from \in Nat /\ grid_view.to \in Nat
    BY DEF GridAssumption, LinesInv
  <2> QED
    BY <2>1
<1> QED
  BY <1>1, <1>2 DEF SnapsToALine

------------------------------------------------------------------------------
(* The grid lines: the theorem *)

LEMMA DefaultIsGood == ASSUME GridAssumption PROVE GoodEngine(DefaultState)
<1>1. TicksPerMinute \in Nat /\ TicksPerMinute >= 4800 /\ NonFinite \notin Int
  BY EngineAssumption
<1>2. PICK out \in Nat : out = (4 * TicksPerMinute) \div 60 /\ out > 0
  BY <1>1
<1>3. Valid(DefaultState)
  BY <1>1, <1>2 DEF Valid, ValidMarkers, DefaultState
<1>4. DefaultState \in LoopState
  BY <1>2 DEF DefaultState, LoopState, Seconds
<1> QED
  BY <1>3, <1>4 DEF GoodEngine, GridAssumption

(* What the setters of the grid keep of a state. *)
LEMMA SnappingSet ==
  ASSUME NEW e \in LoopState, NEW mode, NEW sub \in Nat, sub = snap_subdivisions(mode)
  PROVE  WithSnapping(e, mode) \in LoopState /\ WithSnapping(e, mode).subdivisions_per_beat = sub
BY DEF LoopState, WithSnapping

LEMMA BpmSet ==
  ASSUME NEW e \in LoopState, NEW bpm \in Seconds
  PROVE  /\ WithBpm(e, bpm) \in LoopState /\ WithBpm(e, bpm).bpm = bpm
         /\ WithBpm(e, bpm).subdivisions_per_beat = e.subdivisions_per_beat
BY DEF LoopState, WithBpm

LEMMA OffsetSet ==
  ASSUME NEW e \in LoopState, NEW seconds \in Seconds
  PROVE  /\ WithGridOffset(e, seconds) \in LoopState /\ WithGridOffset(e, seconds).bpm = e.bpm
         /\ WithGridOffset(e, seconds).subdivisions_per_beat = e.subdivisions_per_beat
BY DEF LoopState, WithGridOffset

LEMMA BeatsSet ==
  ASSUME NEW e \in LoopState, NEW beats \in Nat
  PROVE  /\ WithBeatsPerBar(e, beats) \in LoopState /\ WithBeatsPerBar(e, beats).bpm = e.bpm
         /\ WithBeatsPerBar(e, beats).subdivisions_per_beat = e.subdivisions_per_beat
BY DEF LoopState, WithBeatsPerBar

(* A grid that is refused leaves the default one. *)
LEMMA EditedIsGood ==
  ASSUME GridAssumption, NEW grid \in GridSettings PROVE GoodEngine(Edited(grid))
<1> DEFINE candidate == WithBeatsPerBar(WithGridOffset(WithBpm(
                          WithSnapping(DefaultState, grid.mode), grid.bpm), grid.offset), grid.beats)
           subdivisions == snap_subdivisions(grid.mode)
<1>1. /\ grid.bpm \in Nat \ {0} /\ grid.offset \in Int /\ grid.beats \in Nat
      /\ subdivisions \in Nat /\ WholeStep(grid.bpm, subdivisions)
  BY DEF GridAssumption, SnapMode, snap_subdivisions
<1>2. DefaultState \in LoopState
  BY DefaultIsGood DEF GoodEngine
<1>3. candidate \in LoopState /\ candidate.bpm = grid.bpm
      /\ candidate.subdivisions_per_beat = subdivisions
  <2>1. PICK bpm \in Seconds, offset \in Seconds, beats \in Nat, sub \in Nat :
          bpm = grid.bpm /\ offset = grid.offset /\ beats = grid.beats /\ sub = subdivisions
    BY <1>1 DEF Seconds
  <2> DEFINE snapped == WithSnapping(DefaultState, grid.mode)
             timed == WithBpm(snapped, bpm)
             moved == WithGridOffset(timed, offset)
             metered == WithBeatsPerBar(moved, beats)
  <2>2. snapped \in LoopState /\ snapped.subdivisions_per_beat = sub
    BY <1>2, <2>1, SnappingSet
  <2>3. candidate = metered
    BY <2>1
  <2> HIDE DEF candidate, subdivisions, snapped
  <2>4. timed \in LoopState /\ timed.bpm = bpm /\ timed.subdivisions_per_beat = sub
    BY <2>2, BpmSet
  <2> HIDE DEF timed
  <2>5. moved \in LoopState /\ moved.bpm = bpm /\ moved.subdivisions_per_beat = sub
    BY <2>4, OffsetSet
  <2> HIDE DEF moved
  <2>6. metered \in LoopState /\ metered.bpm = bpm /\ metered.subdivisions_per_beat = sub
    BY <2>5, BeatsSet
  <2> HIDE DEF metered
  <2> QED
    BY <2>1, <2>3, <2>6
<1>4. Edited(grid) = IF Valid(candidate) THEN candidate ELSE DefaultState
  BY DEF Edited, Commit
<1> HIDE DEF candidate, subdivisions
<1>5. Valid(candidate) => GoodEngine(candidate)
  BY <1>1, <1>3 DEF GoodEngine
<1> QED
  BY <1>4, <1>5, DefaultIsGood

LEMMA LinesInvHolds == ASSUME GridAssumption PROVE LinesSpec => []LinesInv
<1>1. LinesInit => LinesInv
  BY DefaultIsGood DEF LinesInit, LinesInv
<1>2. LinesInv /\ [LinesNext]_lines_vars => LinesInv'
  <2> SUFFICES ASSUME LinesInv, [LinesNext]_lines_vars PROVE LinesInv'
    OBVIOUS
  <2>1. CASE EditGrid
    BY <2>1, EditedIsGood DEF EditGrid, Redraw, LinesInv
  <2>2. CASE Zoom
    BY <2>2 DEF Zoom, Redraw, LinesInv
  <2>3. CASE Pan
    BY <2>3 DEF Pan, Redraw, LinesInv
  <2>4. CASE ResizeGraph
    BY <2>4 DEF ResizeGraph, Redraw, LinesInv
  <2>5. CASE UNCHANGED lines_vars
    BY <2>5 DEF lines_vars, LinesInv
  <2> QED
    BY <2>1, <2>2, <2>3, <2>4, <2>5 DEF LinesNext
<1> QED
  BY <1>1, <1>2, PTL DEF LinesSpec

(* The grid drawn over the waveform (grid_lines, draw_grid_overlay) is     *)
(* right for every track, view, width, tempo, meter, offset and               *)
(* subdivision whose step is a whole number of ticks: lines and emphasis   *)
(* follow the offset, thinning goes from the fine to the coarse, no two    *)
(* lines share a column of pixels and there are no more than the graph has *)
(* room for, a snapped marker is on the nearest line, and zooming and      *)
(* panning move no line over the track.                                    *)
THEOREM GridStaysRight == ASSUME GridAssumption PROVE LinesSpec => GridIsRight
<1>1. LinesInv => /\ LinesTypeOK /\ EmphasisFollowsOffset /\ CoarseBeforeFine
                  /\ OneLinePerColumn /\ SnapsToALine
  BY LinesTyped, EmphasisIs, CoarseIs, ColumnsAre, SnapsIs
<1>2. LinesInv /\ LinesInv' => ViewStep
  BY ViewStepKeeps
<1>3. LinesInv /\ LinesInv' /\ [LinesNext]_lines_vars => [ViewStep]_lines_vars
  BY <1>2
<1> QED
  BY <1>1, <1>3, LinesInvHolds, PTL DEF LinesSpec, GridIsRight, ViewKeepsLines, ViewStep
================================================================================
