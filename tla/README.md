# Loop Finder: models, checks and proofs

This directory holds TLA+ models of `foo_loop_finder`, a foobar2000 component
that plays a marked part of a track in a loop by seeking back to IN whenever
playback crosses OUT. The models are written from the C++ sources; names follow
the sources. TLC checks them on small instances, and TLAPS proves part of what
is checked for every value of the constants.

    tlc -config LoopTransport.cfg          MCLoopTransport
    tlc -config LoopPanels_one.cfg         MCLoopPanels      # _two, _live, _pause
    tlc -config WaveformAnalysis.cfg       MCWaveformAnalysis
    tlc -config LoopEditor.cfg             MCLoopEditor      # _drag
    tlc -config CursorTimer.cfg            MCCursorTimer
    tlc -config WindowService.cfg          MCWindowService   # _race
    tlc -config PanelParts.cfg             MCPanelParts
    tlapm LoopTransport_proofs.tla         # LoopPanels_proofs, WaveformAnalysis_proofs,
                                           # LoopEditor_proofs, PanelParts_proofs,
                                           # WaveformReducer_proofs, CursorTimer_proofs,
                                           # WindowService_proofs

`PROJECT.json` is the index: components, runs, the lines each definition models
(`map`), for each checked property a plausible bug that breaks it (`mutants`),
the hazards of the code and the properties aimed at them.

## 1. The system

| Part | Source | State it keeps | Operations |
|---|---|---|---|
| `LoopTransport` | `core/loop_transport.cpp` | state (disabled, armed, automatic_seek_pending, waiting_for_loop_in, manually_disarmed), region, generation, request counter, pending request, baseline `previous_position_`, pause flag, diagnostics | `enable`, `update_markers`, `set_paused`, `reset`, `observe_position`, `observe_seek`, `is_pending` |
| `LoopEngine` | `core/loop_engine.cpp`, `loop_state.hpp` | tempo, grid, snapping, markers, enabled | validated setters |
| `BeatGrid` | `core/beat_grid.cpp` | none | `snap_to_grid`, `grid_lines` |
| `TapTempo` | `core/tap_tempo.cpp` | last tap, count, bounded window of intervals | `tap`, `reset` |
| `StreamingWaveformReducer` | `core/waveform.cpp` | bounded aggregates, the current block, the block size | `append`, `finish`; `resample_waveform` |
| `WaveformCache`, `WaveformAnalysis` | `foobar/waveform_analysis.cpp` | LRU list and map; pending job, `stopping_`, `active_aborter_`, the worker thread, the shared delivery state | `find`, `store`; `request`, `cancel`, destruction, `worker_loop`, `deliver` |
| `EditorPersistence` | `foobar/editor_persistence.cpp` | one record per track in a metadb index | `load`, `save` |
| `LoopFinderPanel` | `foobar/ui_element.cpp` | an engine, a transport, an analysis, a cache, a tap tempo; `current_track_`, `playback_state_`, `interaction_` and the drag's markers and view; the view; child controls; two cached layers; the static `active_loop_panel_` | window messages, control commands, playback callbacks, a 50 ms timer, deferred lambdas |
| `WindowService` | `foobar/ui_element.cpp` | reference count, two once-only flags | `service_add_ref`, `service_release` |
| `LoopFinderUiElement` | `foobar/ui_element.cpp` | none | factory |

How they interact. Everything but the worker runs on foobar2000's main thread.
A panel observes the position (timer or `on_playback_time`), its transport
returns a request at a crossing, and the panel queues a lambda with a *copy* of
that request (`fb2k::inMainThread`). A later main-loop turn revalidates the copy
and calls `playback_seek`; the host moves and some time later calls
`on_playback_seek`. Meanwhile the user, other panels, track changes and
teardown act. The worker communicates with the panel through a mutex, a
condition variable, an aborter and, on the way back, the main-thread queue.

What is hard here: copies of requests that outlive what they were made for;
notices that lag behind the state they tell of; a process-wide owner; the same
fact kept in two objects; a worker whose job is replaced while it runs; a drag
interrupted by anything; texts, layers and a timer that repeat what is kept
elsewhere; numbers from three disagreeing places (metadb, decoder, an older
record); a reference count that is given up on several
threads. `PROJECT.json` lists the hazards line by line.

What makes each part correct:

* transport: at most one executable intent, always of the present epoch and
  markers; a request once dead stays dead; a jump only at a true crossing;
* panels: the loops that are on are exactly the owner's; engine and transport
  agree; a deferred seek is executed at most once, only for what the panel
  shows now; a jump ends;
* analysis: results reach their track and nothing else; the wanted analysis is
  always being served; sleep and wakeup, destruction and join work out; the
  cache's list and map agree;
* editor: the engine always holds a valid state with markers on the track;
  every drag can be cancelled; records are of the current track and survive a
  round trip;
* controls: fields show the engine, and what is typed or tapped on a track stays
  with it; the tempo is the median of the present run of taps;
* waveform and grid: no frame and no peak is lost or misplaced by the
  reduction; bars are where the offset puts them in every view;
* view and screen: the view is a part of the track, interaction and capture
  agree, what is not invalid on screen is current;
* timer and lifetime: the timer runs when needed and only then; the panel is
  deleted once, after its window, by the main thread.

## 2. Modules

| Module | What it is |
|---|---|
| `Transport` | the data of a `LoopTransport` and one operator per operation, on a record |
| `LoopTransport` | one transport under arbitrary calls, with a history of requests and of the last position heard |
| `LoopContract` | abstract specification: what a transport promises, without positions or markers |
| `LoopPanels` | several panels (each with a `Transport` record), the owner, the main-thread queue, the host |
| `WaveformAnalysis` | worker, shared members, cache, and the panel's side of analysis |
| `LoopEngine` | operators of the engine, of `snap_to_grid`, of `clamp_engine_to_duration` and of the record format |
| `LoopEditor` | the editor of a panel over `LoopEngine`, with controls, drags, records, tracks, waveforms |
| `EditorControls` | the child controls: texts, focus, commits, taps; uses `TapTempo` |
| `TapTempo` | the tap tempo as operators, and one under arbitrary calls |
| `WaveformReducer` | the streaming reduction of a decode, and resampling for a view |
| `GridLines` | which lines are drawn; over `LoopEngine`, as the snapping is |
| `PanelPainting` | layers, dirty flags, invalid parts and what is on screen |
| `PanelView` | the mouse on the waveform: view, pan, click, marker drag, capture |
| `CursorTimer` | the 50 ms timer and everything it depends on |
| `ServiceLifetime` | abstract specification: what the lifetime wrapper promises |
| `WindowService` | the reference count step by step, on several threads |
| `MC*` | constants for TLC |
| `MCPanelParts` | `EditorControls`, `TapTempo`, `WaveformReducer` (twice), `GridLines`, `PanelPainting` and `PanelView` side by side for TLC |
| `*_proofs` | theorems |

`LoopPanels` composes `Transport` with the panel; `LoopEditor` composes
`LoopEngine` with the panel and the persistence; `EditorControls` composes
`TapTempo` with the panel's controls; `LoopTransport` implements `LoopContract`
and `WindowService` implements `ServiceLifetime` (`INSTANCE ... WITH`). Definitions marked `\* mutant` are not part of the models: each
is a bug one could make in the definition that follows it.

### LoopTransport

A transport is one record, so that `LoopPanels` can have several. Times are
integers; `NonFinite` stands for NaN and the infinities, which `enable`,
`update_markers` and the observations test for. `None` is an empty optional.
Arguments are arbitrary: any position, region, pause flag, seekable flag, and
events of the present or another generation. The history variable `issued` is
the set of requests handed out, as callers keep copies; `heard` is the last
position given in the present epoch. Abstracted: monotonic time stamps and the
overshoot in the diagnostics, which are only logged.

`LoopContract` says: off, ready, returning or released; a jump is asked for only
when ready; at most the newest request is executable and none survives its
epoch. The refinement maps states to phases and the counter to `asked`.

### LoopPanels

A handler is a step. `host` is what `playback_control` reports, `notices` the
callbacks it still has to make. `deferred` is a set: the lambdas of the
main-thread queue may run in any order, which includes first in, first out.

Decisions about the host, which is not in the repository:

* a callback may come any time after the change it tells of (`notices`); a seek
  changes the position first and is notified later, or not at all
  (`LossyNotices`); `LateNotices` lets playback move on with callbacks
  undelivered; `FastPolling` has every position observed by the enabled panels,
  that is, loops longer than the poll;
* `playback_seek` may throw (`ForceOffInsteadOfSeek`), and so may
  `inMainThread` (`ObservePlayback(p, FALSE)`).

`SetMarkers` gives a panel any region of `Regions`, the one it has included: Set
IN or Set OUT to where the marker is, and the cancellation of a drag that did not
move, call `reconfigure_transport_for_markers` as a real change does, which starts
a generation and drops the intent and the baseline.

Abstracted: of the engine, `enabled` and the markers (what values are possible is
`LoopEditor`'s subject), and the cancelling of a drag inside
`load_editor_for_track` and `clear_editor`, whose marker change is overwritten in
the same step. `on_playback_time`
and the timer make the same observation, `ObservePlayback`. Exceptions of
`is_paused` and `is_playing` are left out. `seen` and `owed` are history.

### WaveformAnalysis

A step is what a thread does between points at which the other can see or
change something it uses: a locked section, the notify after the unlock, the
unlocked `aborter->is_set()`. `active_aborter_` is null or the aborter of the
job in hand, hence the flag `active` and the aborter in `worker`. The queue of
completions is first in, first out, and a lambda whose aborter is set may be
discarded. A snapshot is represented by the identity it was decoded from. The
panel's destructor calls `cancel` and then destroys the member, whose destructor
does all that `cancel` does and more under one lock; the model has the latter.

### LoopEngine and LoopEditor

Times are ticks, `TicksPerMinute` to the minute, so that beats and subdivisions
are whole; rounding of doubles is not modelled, `fmod`, `round` and `clamp` are.
`validate` has every bound of the code. A record of the index holds the
code's fields under its two schemas; `decode` is its sequence of setters, each
of which validates one field against valid others, which is the same as
validating the result. Its byte layout is abstracted. A load or save may fail.

`reconfigure_transport_for_markers` may turn the loop off for reasons that
`LoopPanels` has; here it may or may not.

### EditorControls and TapTempo

A text is the number it reads as, or `Garbage`; `format_number` is rounding to
the digits shown, which is what makes a commit of an unchanged field change the
value. Windows changes a control before the panel hears of it, so typing changes
the text alone and every commit reads it back. A step is one message, with the
loss of focus that a click on a button or a change of focus brings. The history
`typed` is the track a text was typed for.

A tempo is represented by twice the median interval, which is whole. `TapTempo`
keeps the time stamps of the present run as a history, from which
`TempoIsMedianOfRun` computes the tempo anew.

### WaveformReducer

Chunks of PCM as the decoder delivers them, empty and malformed ones included.
Samples are whole; the root mean square is kept as its ingredients. The
reference is the stream itself, a history: every aggregate has to be the minimum,
maximum, sum of squares and count of its block. `resample_waveform` is checked
as an operator over all views of what was decoded.

`BinsInPlace` says how far a bin may lie from where it is drawn. Halving rounds
an odd number of aggregates up, so bins drift: none begins as much as one bin
early, nor as much as a bin and a half late. With at most nine bins, as in the
run, no bin is as much as one late either; with 200 bins some are 1.24 bins late,
and the panel asks for 262,144 (`waveform_analysis.cpp:14`). The tighter bound does
not survive the proof for every number of bins, which is how the true one was
found.

### GridLines

`grid_lines` is a sequence of lines, each with its kind; `draw_grid_overlay` gives it
the visible range and a limit of lines from the width, and draws those not too
dense. On screen they are a set: drawing order shows only where lines share a column,
and none do. The strides (subdivisions, beats, bars and several bars) are as in
the code, and so is the truncation to pixels. `GridAssumption` says that a step is a
whole number of ticks, for every tempo and subdivision the user may set, and that
lines are to be at least two pixels apart; the code asks for three at 96 DPI and more above.

### PanelPainting

The screen is a function from parts of the window to what was painted there
last, or `Invalid`. Handlers change what can be seen and invalidate; `WM_PAINT`
draws the invalid parts, through the layers where bitmaps can be made and
directly where they cannot. Fonts, colours, DPI and size are one value, the
look; the layout of the panel, beyond its parts, is left out. `MCPanelParts`
extends this module, `EditorControls` and `PanelView`, so their names are distinct:
what the code calls `time_x`, for instance, is `TimeX` there and `ColumnOf` here.

### PanelView

A message is a step. `ReleaseCapture` sends `WM_CAPTURECHANGED` into the panel
before it returns, so that `on_capture_lost` is part of `on_left_button_up`, at
its place after `interaction_` is reset. The view is a pair of ticks, rounded
down where the code has doubles. Snapping and records are `LoopEditor`'s.
`press` is history: where and on what the button went down, and whether the
pointer has moved past the threshold since.

### CursorTimer

What the timer depends on is four members of the panel, and a handler is the
sequence of its assignments and calls of `sync_cursor_timer`, in the code's
order. The host changes first and makes its callbacks in order, up to
`MaxNotices` behind; it has no track while it is opening one.

### WindowService

A step is one access to what threads share: the decrement, the read of the
window, each exchange. Main thread and other threads give up references of the
host; the panel defers seeks, which hold it, on the main thread. External: the
delayed release holds a reference until a callback on the main thread gives it
up, and Windows lets only the thread of a window destroy it. `LateSeeks` says
whether seeks may be deferred when nobody holds the panel any more: its window
and callbacks are alive until it is destroyed, so a loop that is on may do so. The
passing run has it `FALSE`, which keeps the result apart from finding 3.

## 3. Runs

| Run | States | Question |
|---|---|---|
| `LoopTransport` | 119,448 | Intent bookkeeping, baseline, dead requests, contract, under any calls |
| `LoopPanels_one` | 1,579,668 | Engine, transport and host agree; seeks are current and single, over two tracks and marker pairs with late and lost notices |
| `LoopPanels_two` | 687,944 | Ownership between two panels; a pending jump is carried |
| `LoopPanels_live` | 290,103 | A jump under way ends |
| `LoopPanels_pause` | violation | Finding 1 |
| `WaveformAnalysis` | 1,745,652 | Interleavings of worker, main thread and completions; analyses and destruction end |
| `LoopEditor` | 1,556,806 | Validity, markers, drags, records |
| `LoopEditor_drag` | violation | Finding 2 |
| `CursorTimer` | 20,635 | The timer against what it depends on |
| `WindowService` | 324 | Three threads, no late seeks: one deletion, on the main thread; implements `ServiceLifetime` |
| `WindowService_race` | violation | Finding 3 |
| `PanelParts` | 783,958 | The parts of a panel whose models share no state, see below |

A property named in a cfg is often a conjunction of several that the module
states and explains one by one: `IntentBookkeeping`, `PanelsCoherent`,
`MembersCoherent`, `EditorCoherent`, `TimerIsRight`, `DeletedSafely`,
`ViewIsRight`, `PixelsMeanTimes`, `FieldsAreRight`, `TempoIsRight` (`TapsAreRight`
and `TempoIsMedianOfRun`), `WaveformIsFaithful`, `GridIsRight`
(five invariants and `ViewKeepsLines`), `ScreenIsRight`.

`PanelParts` checks seven instances in one run. The initial state picks the
`part` that moves; `PartsNext` lets only that one take its module's `Next`, all
others stay in one of their initial states. The parts share no variable, so this
explores exactly the behaviours of each of the seven specifications, one after
the other, and adds nothing of their interaction. What couples them in the code
is in the models themselves: the taps behind a field in `EditorControls`, the
snapping of `LoopEngine` in `GridLines`, what handlers change and invalidate
together in `PanelPainting`.

Bounds and why they are enough to see the cases.

* `LoopTransport`: `Tolerance = 1`, six positions, regions `[0,2)`, `[1,4)`
  (overlapping, so that a position can be inside both, either or neither) and an
  empty one; three requests (one executable, one superseded, one after that) and
  four generations. Any two states of a transport are within a few calls.
* `LoopPanels`: `MaxEvents = 4` user or host events beyond those of the panels'
  own machinery. A crossing, its deferred seek, an event in between and one
  after need two or three. Two notices can be outstanding, which is a late one
  and one that overtakes nothing; the run with two panels has one request each.
  Runs with one region still set markers: they re-arm with the markers they have.
* `WaveformAnalysis`: three identities and a cache of two force evictions and
  reuse; five generations allow A, B, A again, and destruction in between.
* `LoopEditor`: one track with a metadb length longer than the decoded one, one
  shorter and off the beat; records of both schemas, too long, inverted, absent;
  three edits, in any order with drags, cancels, tracks and waveforms.
  Entered values include a tempo beyond its bound and `NonFinite`.
* `EditorControls` (in `PanelParts`, as the next five): two tracks, a stored tempo with more digits than are shown,
  a typed one that rounds and one out of range, windows of two intervals, eight
  messages: type, leave, change track, return and commit are five.
* `TapTempo`: seven taps through a window of five intervals drop one; gaps below, at and
  above the timeout, none, and backwards.
* `WaveformReducer`: eight frames in any chunks, up to three bins, so that a decode compacts
  twice and ends in an odd aggregate or a partly filled block; a sample beyond
  full scale. In the second
  instance ninety frames, all alike, compact many times: a bin has only its place.
* `GridLines`: tempos on and off the view's bounds, offsets of less than a step,
  negative ones and of several bars, one and three beats to the bar; widths from
  none over one line's room to all lines'.
* `PanelPainting`: two of everything that is compared; the flags make every
  state reachable from every other within a few handlers.
* `PanelView`: a graph of eight pixels over 256 ticks, zoom up to four times, two
  widths apart from the overview; six messages: zoom, press, move beyond the
  threshold, something in between, move back, release.
* `CursorTimer`: three callbacks may be outstanding (stop, starting, and one of
  the new track), seven events.
* `WindowService`: two threads besides the main one, three references of the host
  and three deferred seeks; the protocol's own flags bound the rest.

`CHECK_DEADLOCK FALSE` where the bounded numbers of events, generations and
edits are used up, the panels destroyed or deleted, or a decode ends, and the
system may stop: `LoopPanels`, `WaveformAnalysis`, `LoopEditor`, `CursorTimer`,
`WindowService`, `PanelParts`.

Symmetry is used over panels (`LoopPanels_two`), looks and waveforms
(`PanelParts`), in runs without liveness properties only.

Fairness. `LoopPanels`: weak fairness of the host's main loop (callbacks,
deferred lambdas), its playback, its seeks, and of each panel's observation,
which `sync_cursor_timer` keeps running on a 50 ms timer whenever there is a
window and playback runs. No fairness for the user. `JumpEnds` is checked with
callbacks neither lost nor late: with a late one, the notice of a user's seek
may be taken for that of a pending automatic seek
(`loop_transport.cpp:245-254`), a limitation of what the SDK tells the code.
`WaveformAnalysis`: the worker is scheduled and every decode ends (by itself or
by its aborter); notify, join and the queue run. No analysis has to be asked for.
`CursorTimer`: the main loop delivers callbacks and timer messages, and the host
does not open a track for ever; nothing of the user or the worker.
`WindowService` and `ServiceLifetime`: threads inside `service_release` go on,
and the main loop runs what is queued; the host need not give anything up.

## 4. Findings

1. **A pause between crossing and seek forgets the crossing**
   (`LoopPanels_pause`, `ui_element.cpp:2212`). The handler of a deferred seek
   that finds playback paused re-arms the transport at a position beyond OUT,
   where there is no baseline, so after resume no crossing is heard and the
   enabled loop plays on. `docs/BUILD_WINDOWS.md:234` expects each normal
   forward crossing to return once to IN, and `tests/core_tests.cpp:268` that
   "resume safely observes the pending forward crossing".
2. **A keyboard edit in mid-drag saves the drag's markers** (`LoopEditor_drag`,
   `ui_element.cpp:1073`). The feedback says "release to save"
   (`ui_element.cpp:1985`), and a drag that is cancelled should leave nothing
   (`docs/ARCHITECTURE.md:130-131`); the record keeps the dragged markers.
3. **The panel may be deleted off the main thread** (`WindowService_race`,
   `ui_element.cpp:2548`). Between another thread's last decrement and its test
   of `delayed_release_`, a deferred seek on the main thread can revive the panel
   and give it up again, which sets the flag; with the window closed, the other
   thread then deletes the panel while the posted release holds it. The comment
   at `ui_element.cpp:2529-2531` guarantees the main thread. Without seeks deferred
   when nobody holds the panel (`WindowService`), all is well.

Met while modelling, and not findings: a wheel turn during a held pan lasts until
the next move only, as moves compute the view from the one remembered at the
press (`ui_element.cpp:2050`), which the wheel does not refresh; the first click of a double click on
empty space seeks before the second restores the overview; a loss of focus
commits an unchanged field, which rounds the stored value, once
(`RoundedOnce`); the timer may run on for a moment after a stop
(`IdleTimerIsExcused`, `IdleTimerEnds`); the cancellation of a drag that did not
move cancels a jump under way (`ui_element.cpp:2085`, `:2096`), as
`docs/ARCHITECTURE.md:165` says of marker changes, though no marker changed.

## 5. Proofs

All theorems hold for any values of the constants under the named assumptions
of the modules (`NoneAssumption`, `RegionsAssumption`, `AnalysisAssumption`,
`EditorAssumption`, `ControlsAssumption`, `ViewAssumption`, `PaintingAssumption`,
`GridAssumption`, `ReducerAssumption`, `TimerAssumption`, `ServiceAssumption`): empty optionals are not numbers, inputs are of the code's
types. No bound on positions, tracks, requests or generations is used.

**`LoopTransport_proofs`.** `Invariance` proves `Spec => []IInv`, where `IInv` is
the conjunction of five invariants (those of `IntentBookkeeping` and the baseline); none is inductive alone.
`PendingIntent` needs `EnabledCoherence` (only enabled transports have regions)
and the types; that requests are distinct needs that every issued number is
below the counter. One lemma per operation of `Transport` shows what it
preserves, and one step per action uses it. From `IInv` follow `TypeCorrect`,
`PendingIntentHolds`, `StateIsCoherent`, `RequestsStayDistinct`, their
conjunction `BookkeepingHolds`, and `BaselineIsTrue`; then
`RequestsStayDead` (the generation never falls, and a number once issued is not
given to another intent), `CrossingsOnly`, and `ImplementsContract`, which maps
each operation to a step of `LoopContract` or a stutter.

**`LoopPanels_proofs`.** `IInv` is `TypeOK` with typed notices, `OneLoop`,
`EngineMatchesTransport`, `PauseKnown`, and five parts that no run's property
states alone: `IntentsSound` (a pending intent is the newest request of its
transport), `CopiesDistinct` (no two lambdas of a panel carry one number),
`AbsentIsNew` (a panel that is not there holds a transport never used, so that no
copy left in the queue fits a panel that comes later), `PausesTold` (the last
notice of a pause still to come tells what the host would answer) and `CarriedOrSettled`. TLC has
checked all of it in the two passing safety configurations. Without `AbsentIsNew`
and `CopiesDistinct` an old lambda could be executable beside a new one; without
`PausesTold` the pause flag would not be inductive when callbacks are late. Any
number of panels, tracks, positions, regions and events, callbacks late or
lost, and seeks and deferrals that throw, are covered. The argument has three layers.
What each operation of `Transport` makes of a record is one of a few relations
(it goes off, arms, stays, answers, or asks for a jump). What a handler makes of
one panel is one of a few effects (kept, turned off, gone, restarted, replied,
crossed), each with a lemma that says what it does to each part of `IInv` for
that panel. A handler is then a step in which every panel has one of those effects, and
one lemma per action names them. The theorems: `TypeCorrect`, `AtMostOneLoop`,
`PanelsStayCoherent`, `QueuedOnce`, `PendingIsCarried`, and, as an action
property, `SeeksStayCurrent`.

**`WaveformAnalysis_proofs`.** `IInv` strengthens the checked invariants with:
`MembersTyped`, `SnapshotsTrue` (a snapshot anywhere, in the cache, the worker or
the queue, is of the identity it goes with), `GenerationsOrdered` (from
the queue over the worker to the pending job generations grow, none beyond the
panel's), and `FlagsAgree` (`active`, the place of the worker,
`stopping` and the main thread's place agree). Without the order of generations
an old completion could match; without the flags an abort could miss the job it
is for. It gives `ShownStaysCurrent`, `WantedIsServed`, `NoUnwantedWork`, `WakeupsArrive` and, as
an action property, `NothingAfterDestruction`. The cache has an invariant of its
own, `CacheSound` with `ListTyped`: the list names each cached identity once, the
map leads to its place, and no more are kept than allowed. Splicing an entry to
the front (`FrontOfKnown`), a new one with eviction (`FrontOfNew`) and every step
that leaves the cache alone keep it; `MembersStayCoherent` follows.

**`LoopEditor_proofs`.** `IInv` is types, `EngineValid`, `CancelWorks` and
`DragHasWaveform`: validity after a cancelled drag needs that the markers kept
at its start are still valid with the engine as it is now, which holds because
tempo and grid do not bound the markers. It gives `TypeCorrect`,
`EngineStaysValid`, `DragIsSafe`, `DragCanBeCancelled`, together
`EditorStaysCoherent`, and `SavesForCurrentTrack`. A second invariant, `EInv`, adds
`SnappingKnown` (free placement and a subdivision other than one never meet,
which is what the one snapping field of a record can hold), `MarkersOnTrack` and
`DragOnTrack`, the same for the OUT that a cancelled drag would put back: without
it a cancel could leave the track. It gives `MarkersStayOnTrack` and `RecordsRoundTrip`.

**`PanelParts_proofs`, view.** The view is shown to stay a part of the track for any
resolution, graph width, zoom bound and wheel steps, from a lemma on clamping and
integer division. `IInv` adds to the checked invariants `PressUnderWay`, which
ties the interaction to the press it began with: without it the two action
properties would have to trust an interaction left over from an earlier press.
It gives `ViewStaysPart`, `CaptureIsHeld`, together `ViewStaysRight`, and
`DragsEnd` and `ClicksSeek`. `ZoomKeepsPlace` rests on how quotients of a sum
round; `PixelsStayTrue` also on `ThereAndBack`, that from a pixel to a tick and
back is at most one pixel. That is false of coarse ticks (a view of 17 ticks on
eight pixels), so the theorem has the hypothesis `TicksAreFine`, which the run's
constants satisfy: the code's seconds are doubles.

**`PanelParts_proofs`, painting.** The three parts of `ScreenIsRight` are inductive
together. `Right` says of one part of the window that what is on it suits what the panel
holds; `Repaint` reduces a handler to the parts it leaves valid, and
`TextStays`, `FrameStays` and `ColumnStays` say when those still suit. The strips of a drag
and of the cursor are the interesting cases: a column neither left nor entered
looks as before. `EnsuredLayers` has the four outcomes of making bitmaps. The theorems, from
`PaintingAssumption`: `ScreenStaysRight` and, as an action property,
`EditsLeaveTheWaveform`.

**`PanelParts_proofs`, controls.** `FieldsInv` strengthens `FieldsAreRight` and
`RoundedOnce`, neither of which is inductive. `EnteredOrRounded` says that a value
is the one entered, or that rounded once to the step it was shown with; `TextTells`
that a field nobody types in shows its value, and the coarser text of a tap only
while the value is as it was tapped: otherwise a commit would round to the one step
after the other. `FocusHasTrack` is needed for text to be typed for some track. The
arithmetic (`RoundedIsNear`, `RoundedOfMultiple`, `DisplayOfCoarse`) needs that the
steps of the two formats divide each other, which digits do. `RunKept` says that
there is a tap with which the last run begins (`OneBeginning`: only one), and that
the tap tempo holds the last gaps since; `TapGoesOn` shows it of every tap, at the
limit of the window and below. The theorems, from `ControlsAssumption`:
`FieldsStayRight` and `ValuesRoundedOnce`. What tempo the median is does not matter
to either: that the engine takes only finite ones does.

**`PanelParts_proofs`, grid.** `LinesInv` is all the invariant there is: the engine is
good (valid, its step whole ticks) and the screen was drawn from it, the view and the
width. The rest is about `grid_lines`. `Counted` and `StrideFits` are the
numbers of it: the lines are the multiples of the stride among the indices in view, no
more than the maximum allows, and so far apart that the view is shorter than twice the maximum of them.
`Grain` is the fact everything else follows from: what `draw_grid_overlay` draws is
every multiple in view of one number, which is 1, the subdivisions of a beat, or whole
bars, whatever the strides and the two omissions for density did. Coarse goes before
fine (`CoarseIs`) since the grain divides what is coarser; a column has one line (`ColumnsAre`)
since two multiples of the grain are a column apart (`ColumnsApart`); and moving the
view keeps the lines (`ViewStepKeeps`) since lines as far apart as before have the same
grain (`SpacingIs`). Emphasis (`LineTells`) and snapping (`SnapIs`, `LinesAtPoint`)
count from different phases, remainders of the offset by a bar and by a step, and agree
because a bar is whole steps (`OffsetTime`). Solvers lose their way where
quotients, remainders and products meet, so these have names (`Quo`, `Rem`,
`Product`) that are expanded in the lemmas about them only. The theorem, from
`GridAssumption`: `GridStaysRight`.

**`WaveformReducer_proofs`.** Any number of bins, any chunks and any length of the
stream. The sums and folds of the model are `FoldLeft` of the community modules,
which is defined by recursion over sets of positions. That this recursion has a
solution is shown by a smallest set without one, that a fold goes through a
sequence element by element by a least number where it does not (`LeastNatural`,
from the well-foundedness of `<` on `Nat`; the induction theorems themselves
take an operator, and are not used). After that a fold is its two equations
(`TotalEquations`, `FramesEquations`, `CombineEquations`, `AddEquations`).
`ReducerInv` says that there are cuts of the stream of which the aggregates sum
up one piece each (`Covers`), the pending one the rest, all cuts `Near` their
multiples of the block size, and the last one frame less than a block short of it.
The last makes a flush of a whole block keep everything, with a halving
(`NearWhenHalved`) and without (`NearKept`); `Near` alone is not inductive. `finish`
makes the invariant `Complete`: no aggregate is empty and the end of the stream
is less than two blocks short. That is what places the bins (`NotTooEarly`,
`NotTooLate`), the sharing out being whole numbers of aggregates. A short stream has
one aggregate for each frame (`WholeCuts`). For `PeaksAreKept`, the columns partition
the view (`ColumnStarts`), a column shows no bin outside the view and every bin
it overlaps (`ColumnShows`), and each bin in view overlaps a column (`SomeColumn`).
The theorems: `WaveformStaysFaithful` and `PeaksAreKept`.

**`CursorTimer_proofs`.** One lemma per helper says what it makes of any panel:
after `sync_cursor_timer` the timer is `Exact`, set if and only if needed; the
helpers that do not look at it still keep it set when needed (`Kept`). `IInv` adds
`StopIsLast` (a host that has stopped says so last and then nothing), without
which the branch that forgets the timer (`ui_element.cpp:2340`) could leave it
set with nothing on its way to clear it. It gives `TimerRuns`, `NoStrayTimer`, together
`TimerStaysRight`, and `IdleTimerExplained`, for any number of callbacks outstanding.

**`WindowService_proofs`.** `IInv` adds to the parts of `DeletedSafely`: `Counted`
(the count is that of the references held by host, queue, threads and delayed
releases), `Alone` (who has seen the count at 0 is alone and stays it), `Held`
(deferred seeks and delayed releases hold the panel), `PostponedOnce`,
`WindowKnown` (what a thread has read of the window still holds) and
`SeeksWereDeferred`. With `LateSeeks` a late seek breaks `Alone`, which is finding 3, so
the theorems have `~LateSeeks` as a hypothesis: `DeletionIsSafe`, and
`KeepsLifetime`, that the initial states are those of `ServiceLifetime` and
every step is one of its steps or a stutter. The fairness of `LifetimeSpec`, and
with it that the deletion comes, is for TLC.

Only model-checked: the tempo a tap returns (`TempoIsMedianOfRun`,
`ResistsOnePoorTap`); liveness (`JumpEnds`,
`AnalysisEnds`, `DestructionEnds`, `IdleTimerEnds`, the deletion in `LifetimeSpec`),
which is beyond TLAPS; and what a run shows to be violated (section 4). The median
is taken of a sequence sorted by `SortSeq` of the standard module `TLC`.

## 6. Not modelled

* `panel_layout`, `layout_controls`, fonts, pens, colours, and the wording of
  feedback: pure output. `format_number` is modelled where it feeds back, in
  `EditorControls`.
* Painting that fails half-way: a memory DC that cannot be made
  (`ui_element.cpp:1295`), and exceptions swallowed after a layer was begun
  (`1552`, `1662`), which leave an incomplete layer until the next invalidation.
* Rounding of doubles in the engine, the grid and the view: times are whole ticks
  and positions round as integers.
* The interpolated position of the cursor between polls; the timer that moves it
  is `CursorTimer`.
* `set_subdivision`, `set_in` and `set_out` of `LoopEngine`, which only tests
  call; exceptions of `is_paused` and `is_playing`.
* The byte layout of a record, and the index registration at start-up, beyond a
  save that fails.
* `LoopFinderUiElement`, `component.cpp`, the build and the packaging: constants
  and a constructor call.

Reasons line by line are in `PROJECT.json` under `components` and `hazards`.

## 7. Plan

Done, in this order, the loop itself being what the component is for:
`Transport`, `LoopTransport`, `LoopContract`; `LoopPanels`; `WaveformAnalysis`;
`LoopEngine`, `LoopEditor`; then `TapTempo`, `EditorControls`,
`WaveformReducer`, `GridLines`, `PanelPainting`, `PanelView`, `CursorTimer`,
`ServiceLifetime`, `WindowService`; proofs about all of them but
the median of `TapTempo` and what is a matter of fairness.

Next, proving more:

1. An abstract specification of the analysis service (the latest request wins)
   and its refinement by `WaveformAnalysis`.
2. The tempo of a tap, which needs a theory of `SortSeq`: that the sorted
   sequence exists is an induction over its length.
