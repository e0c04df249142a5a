------------------------------- MODULE GridLines -------------------------------
(***************************************************************************)
(* Which beats and bars are drawn over the waveform: grid_lines of         *)
(* src/core/beat_grid.cpp and draw_grid_overlay of the panel.              *)
(*                                                                         *)
(* The view [from, to] of the track and the width of the graph decide how  *)
(* many lines there may be; the tempo, the meter, the offset and the       *)
(* subdivision of LoopEngine's state say where they are.  Times are in     *)
(* ticks, on which grid steps are whole; positions on screen are whole     *)
(* pixels, truncated as the code truncates them.                           *)
(*                                                                         *)
(* MCPanelParts extends this module together with PanelView and others:    *)
(* the names of all are distinct.                                          *)
(***************************************************************************)
EXTENDS LoopEngine, Sequences, FiniteSets

CONSTANTS TrackLength,       \* of the waveform
          LineViews,         \* the views: sets of [from, to]
          Widths,            \* of the graph, in pixels
          GridSettings,      \* [bpm, offset, beats, mode] the user may set
          GridSpacing,       \* 3 pixels at 96 DPI
          MinimumPixels      \* 4 pixels at 96 DPI

(* A grid step is a whole number of ticks. *)
WholeStep(bpm, subdivisions) == TicksPerMinute % (bpm * subdivisions) = 0

GridAssumption ==
  /\ TrackLength \in Nat \ {0} /\ Widths \subseteq Nat
  /\ GridSpacing \in Nat /\ GridSpacing >= 2 /\ MinimumPixels \in Nat
  /\ \A view \in LineViews :
       /\ view.from \in Nat /\ view.to \in Nat
       /\ view.from < view.to /\ view.to <= TrackLength
  /\ WholeStep(DefaultState.bpm, DefaultState.subdivisions_per_beat)
  /\ \A grid \in GridSettings :
       /\ grid.bpm \in Nat \ {0} /\ grid.offset \in Int /\ grid.beats \in Nat
       /\ grid.mode \in SnapMode /\ WholeStep(grid.bpm, snap_subdivisions(grid.mode))

------------------------------------------------------------------------------
CeilingOf(a, b) == -((-a) \div b)

BarDuration(state) == Step(state) * state.subdivisions_per_beat * state.beats_per_bar

PhaseOfStep(state) == FMod(state.grid_offset_seconds, Step(state))   \* mutant

Phase(state) == FMod(state.grid_offset_seconds, BarDuration(state))

FirstIndex(from, state) == CeilingOf(from - Phase(state), Step(state))
LastIndex(to, state) == (to - Phase(state)) \div Step(state)

InBar(index, period) == index % period

(* The line with this index.  beat_in_bar is beats_per_bar off the beat. *)
Line(index, state) ==
  LET normalized == InBar(index, state.beats_per_bar * state.subdivisions_per_beat)
      is_beat == normalized % state.subdivisions_per_beat = 0
  IN  [seconds |-> Phase(state) + index * Step(state),
       is_bar |-> normalized = 0,
       is_beat |-> is_beat,
       beat_in_bar |-> IF is_beat THEN normalized \div state.subdivisions_per_beat
                       ELSE state.beats_per_bar]

Coarser(bars, maximum) == CeilingOf(bars, maximum)

(* How many indices to go from line to line, when count of them are in     *)
(* view: all, only beats, only bars, or every so many bars.                *)
Stride(count, state, maximum) ==
  LET beat  == state.subdivisions_per_beat
      bar   == state.beats_per_bar * beat
      beats == count \div beat + 2
      bars  == count \div bar + 2
  IN  IF count <= maximum THEN 1
      ELSE IF beats <= maximum THEN beat
      ELSE IF bars <= maximum THEN bar
      ELSE bar * Coarser(bars, maximum)

Aligned(first, stride) == stride * CeilingOf(first, stride)

grid_lines(from, to, state, maximum) ==
  LET first  == FirstIndex(from, state)
      last   == LastIndex(to, state)
      stride == Stride(last - first + 1, state, maximum)
      start  == Aligned(first, stride)
  IN  IF to < from \/ maximum = 0 \/ last < first THEN <<>>
      ELSE [k \in 1 .. IF last < start THEN 0 ELSE (last - start) \div stride + 1 |->
              Line(start + (k - 1) * stride, state)]

------------------------------------------------------------------------------
MaximumLines(width) == IF width < GridSpacing THEN 1 ELSE width \div GridSpacing

(* subdivision_pixels and beat_pixels against minimum_pixels: a tempo of   *)
(* so many ticks to the line, at width pixels to the view.                 *)
TooDense(ticks, view, width) == ticks * width < MinimumPixels * (view.to - view.from)

BeatTicks(state) == TicksPerMinute \div state.bpm

Omitted(line, state, view, width) ==
  \/ ~ line.is_beat /\ TooDense(Step(state), view, width)
  \/ line.is_beat /\ ~ line.is_bar /\ TooDense(BeatTicks(state), view, width)

(* time_x: the column of a time in view. *)
ColumnAt(seconds, view, width) == ((seconds - view.from) * (width - 1)) \div (view.to - view.from)

(* draw_grid_overlay: the lines it draws *)
GridOverlay(state, view, width) ==
  LET lines == grid_lines(view.from, view.to, state, MaximumLines(width))
  IN  IF width <= 0 THEN {}
      ELSE {line \in {lines[k] : k \in DOMAIN lines} : ~ Omitted(line, state, view, width)}

------------------------------------------------------------------------------
VARIABLES grid_engine,    \* state of loop_engine_
          grid_view,      \* view_begin_ and view_end_, times the duration
          graph_width,    \* of the waveform rectangle
          drawn_lines     \* the lines on screen

lines_vars == <<grid_engine, grid_view, graph_width, drawn_lines>>

Edited(grid) ==
  Commit(DefaultState, WithBeatsPerBar(WithGridOffset(WithBpm(
    WithSnapping(DefaultState, grid.mode), grid.bpm), grid.offset), grid.beats))

Redraw == drawn_lines' = GridOverlay(grid_engine', grid_view', graph_width')

LinesInit ==
  /\ grid_engine = DefaultState
  /\ grid_view \in LineViews /\ graph_width \in Widths
  /\ drawn_lines = GridOverlay(grid_engine, grid_view, graph_width)

EditGrid ==
  /\ \E grid \in GridSettings : grid_engine' = Edited(grid)
  /\ UNCHANGED <<grid_view, graph_width>> /\ Redraw

(* Zooming, and panning: a view of the same length elsewhere. *)
Zoom == grid_view' \in LineViews /\ UNCHANGED <<grid_engine, graph_width>> /\ Redraw

Pan ==
  /\ grid_view' \in {v \in LineViews : v.to - v.from = grid_view.to - grid_view.from}
  /\ UNCHANGED <<grid_engine, graph_width>> /\ Redraw

ResizeGraph == graph_width' \in Widths /\ UNCHANGED <<grid_engine, grid_view>> /\ Redraw

LinesNext == EditGrid \/ Zoom \/ Pan \/ ResizeGraph

LinesSpec == LinesInit /\ [][LinesNext]_lines_vars

------------------------------------------------------------------------------
LinesTypeOK ==
  /\ grid_engine \in LoopState /\ grid_view \in LineViews /\ graph_width \in Widths
  /\ \A line \in drawn_lines :
       line \in [seconds : Int, is_bar : BOOLEAN, is_beat : BOOLEAN, beat_in_bar : Nat]

(* The emphasis of a line and its number in the bar are those of its       *)
(* distance from the offset the user set, whether the offset is before or  *)
(* after the view, negative, or longer than a bar.                         *)
EmphasisFollowsOffset ==
  \A line \in drawn_lines :
    LET ticks == line.seconds - grid_engine.grid_offset_seconds IN
    /\ ticks % Step(grid_engine) = 0
    /\ line.is_beat = (ticks % BeatTicks(grid_engine) = 0)
    /\ line.is_bar = (ticks % BarDuration(grid_engine) = 0)
    /\ line.is_beat =>
         line.beat_in_bar = (ticks % BarDuration(grid_engine)) \div BeatTicks(grid_engine)

InView(ticks) == grid_view.from <= ticks /\ ticks <= grid_view.to

(* The grid lines of a kind that are in view, by definition. *)
LinesInView(spacing) ==
  {ticks \in grid_view.from .. grid_view.to :
     (ticks - grid_engine.grid_offset_seconds) % spacing = 0}

DrawnTimes == {line.seconds : line \in drawn_lines}

(* Thinning out goes from the fine to the coarse: when a subdivision is    *)
(* drawn so are all beats in view, and when a beat is, so are all bars.    *)
CoarseBeforeFine ==
  /\ DrawnTimes \subseteq LinesInView(Step(grid_engine))
  /\ (\E line \in drawn_lines : ~ line.is_beat) =>
       LinesInView(BeatTicks(grid_engine)) \subseteq DrawnTimes
  /\ (\E line \in drawn_lines : ~ line.is_bar) =>
       LinesInView(BarDuration(grid_engine)) \subseteq DrawnTimes

(* "large visible ranges produce a bounded grid" (core_tests.cpp:360), and *)
(* a readable one: never two lines in one column of pixels.                *)
OneLinePerColumn ==
  /\ Cardinality(drawn_lines) <= MaximumLines(graph_width)
  /\ \A a, b \in drawn_lines :
       a # b => ColumnAt(a.seconds, grid_view, graph_width)
                  # ColumnAt(b.seconds, grid_view, graph_width)

Apart(a, b) == Magnitude(a - b)

(* The least distance between two of some times. *)
SpacingOf(times) ==
  LET distances == {Apart(a, b) : a, b \in times} \ {0}
  IN  CHOOSE least \in distances : \A distance \in distances : least <= distance

(* Panning and zooming move the lines with the track: as long as they are  *)
(* as far apart as before, those in both views are the same ones.          *)
ViewKeepsLines ==
  [][/\ grid_engine' = grid_engine /\ graph_width' = graph_width
     /\ Cardinality(DrawnTimes) >= 2 /\ Cardinality(DrawnTimes') >= 2
     /\ SpacingOf(DrawnTimes) = SpacingOf(DrawnTimes')
     => {t \in DrawnTimes : InView(t)'} = {t \in DrawnTimes' : InView(t)}]_lines_vars

(* A marker that is snapped lands on a line that grid_lines has, although  *)
(* the two count from different phases; and on the nearest.  At the start  *)
(* of the track it lands on 0 instead, when there is no line before it.    *)
SnapsToALine ==
  \A ticks \in {grid_view.from, (grid_view.from + grid_view.to) \div 2} :
    LET marker == snap_to_grid(ticks, grid_engine)
        lines  == grid_lines(marker, marker, grid_engine, 1)
    IN  /\ 2 * Apart(marker, ticks) <= Step(grid_engine)
        /\ lines = <<>> => marker = 0 /\ 2 * ticks < Step(grid_engine)
        /\ lines # <<>> => lines[1].seconds = marker

(* The grid is that of the offset, thinned out from the fine to the        *)
(* coarse, readable, and the one markers snap to; and it stays on the      *)
(* track while the view moves.                                             *)
GridIsRight ==
  /\ [](/\ LinesTypeOK /\ EmphasisFollowsOffset /\ CoarseBeforeFine
        /\ OneLinePerColumn /\ SnapsToALine)
  /\ ViewKeepsLines
==============================================================================
