------------------------------ MODULE LoopEngine ------------------------------
(***************************************************************************)
(* The class LoopEngine (src/core/loop_engine.cpp) over the struct         *)
(* LoopState, with the snapping of src/core/beat_grid.cpp, as operators on *)
(* a record; and the per-track record of src/foobar/editor_persistence.cpp *)
(* that a LoopState is saved as.                                           *)
(*                                                                         *)
(* Seconds are counted in ticks, TicksPerMinute of them in a minute, and   *)
(* tempi are chosen so that a grid step is a whole number of ticks: the    *)
(* rounding of doubles is not modelled.  A setter of the code returns      *)
(* valid or an error and changes nothing on error; here it is a pair: the  *)
(* candidate it validates, and Commit, which takes a valid candidate and   *)
(* otherwise keeps the state.                                              *)
(***************************************************************************)
EXTENDS Integers

CONSTANTS NonFinite,         \* what std::isfinite rejects
          TicksPerMinute,
          NoRecord           \* nothing, or nothing readable, is saved

(* A tick is fine enough for the smallest step: 300 BPM, 16 to the beat. *)
ASSUME EngineAssumption ==
  TicksPerMinute \in Nat /\ TicksPerMinute >= 300 * 16 /\ NonFinite \notin Int

Seconds == Int \cup {NonFinite}

(* loop_state.hpp: the values of SnapMode are the subdivisions of a beat. *)
SnapMode == {0, 1, 2, 4, 8, 16}

LoopState == [bpm : Seconds, grid_offset_seconds : Seconds, beats_per_bar : Nat,
              subdivisions_per_beat : Nat, in_seconds : Seconds, out_seconds : Seconds,
              enabled : BOOLEAN, snap_enabled : BOOLEAN]

DefaultState ==
  [bpm |-> 120, grid_offset_seconds |-> 0, beats_per_bar |-> 4, subdivisions_per_beat |-> 1,
   in_seconds |-> 0, out_seconds |-> (4 * TicksPerMinute) \div 60,
   enabled |-> FALSE, snap_enabled |-> TRUE]

snap_subdivisions(mode) == IF mode = 0 THEN 1 ELSE mode

snap_mode(state) ==
  IF state.snap_enabled /\ state.subdivisions_per_beat \in SnapMode
  THEN state.subdivisions_per_beat
  ELSE 0

------------------------------------------------------------------------------
(* beat_grid.cpp *)

Step(state) == TicksPerMinute \div (state.bpm * state.subdivisions_per_beat)

Magnitude(n) == IF n < 0 THEN -n ELSE n

(* std::fmod has the sign of the dividend; std::round goes away from zero. *)
FMod(a, b) == IF a < 0 THEN -(Magnitude(a) % b) ELSE a % b

RoundedQuotient(a, b) ==
  LET q == (2 * Magnitude(a) + b) \div (2 * b) IN IF a < 0 THEN -q ELSE q

snap_to_grid(seconds, state) ==
  LET step  == Step(state)
      phase == FMod(state.grid_offset_seconds, step)
      line  == phase + RoundedQuotient(seconds - phase, step) * step
  IN  IF line < 0 THEN 0 ELSE line

maybe_snap(seconds, state) ==
  IF state.snap_enabled THEN snap_to_grid(seconds, state) ELSE seconds

------------------------------------------------------------------------------
ValidMarkers(state) ==
  /\ state.in_seconds # NonFinite
  /\ state.in_seconds >= 0
  /\ state.out_seconds # NonFinite
  /\ state.out_seconds > state.in_seconds

Valid(state) ==
  /\ state.bpm # NonFinite /\ 20 <= state.bpm /\ state.bpm <= 300
  /\ 1 <= state.beats_per_bar /\ state.beats_per_bar <= 32
  /\ 1 <= state.subdivisions_per_beat /\ state.subdivisions_per_beat <= 16
  /\ state.grid_offset_seconds # NonFinite
  /\ ValidMarkers(state)

Commit(state, candidate) == IF Valid(candidate) THEN candidate ELSE state

(* The constructor: Loop is never on by restoring an engine. *)
Construct(state) ==
  [(IF Valid(state) THEN state ELSE DefaultState) EXCEPT !.enabled = FALSE]

WithBpm(state, bpm) == [state EXCEPT !.bpm = bpm]
WithGridOffset(state, seconds) == [state EXCEPT !.grid_offset_seconds = seconds]
WithBeatsPerBar(state, beats) == [state EXCEPT !.beats_per_bar = beats]
WithMarkers(state, in, out) == [state EXCEPT !.in_seconds = in, !.out_seconds = out]
WithEnabled(state, enabled) == [state EXCEPT !.enabled = enabled]

KeepSubdivisions(state, mode) ==   \* mutant
  [state EXCEPT !.snap_enabled = (mode # 0),
                !.subdivisions_per_beat = IF mode = 0 THEN @ ELSE mode]

WithSnapping(state, mode) ==
  [state EXCEPT !.snap_enabled = (mode # 0),
                !.subdivisions_per_beat = snap_subdivisions(mode)]

Clamp(seconds, high) ==
  IF seconds < 0 THEN 0 ELSE IF seconds > high THEN high ELSE seconds

(* set_marker clamps, snaps, and clamps what snapping moved off the track. *)
ClampedMarker(seconds, duration, state) ==
  Clamp(maybe_snap(Clamp(seconds, duration), state), duration)

WithMarker(state, seconds, duration, is_in) ==
  LET marker == ClampedMarker(seconds, duration, state)
  IN  IF is_in THEN [state EXCEPT !.in_seconds = marker] ELSE [state EXCEPT !.out_seconds = marker]

(* set_in_clamped, set_out_clamped: validity of the call *)
MarkerAccepted(state, seconds, duration, is_in) ==
  /\ duration > 0
  /\ seconds # NonFinite
  /\ Valid(WithMarker(state, seconds, duration, is_in))

SetMarkerUnchecked(state, seconds, duration, is_in) ==   \* mutant
  WithMarker(state, seconds, duration, is_in)

SetMarker(state, seconds, duration, is_in) ==
  IF MarkerAccepted(state, seconds, duration, is_in)
  THEN WithMarker(state, seconds, duration, is_in)
  ELSE state

------------------------------------------------------------------------------
(* clamp_engine_to_duration of the panel *)

ClampOrKeep(state, duration) ==   \* mutant
  IF duration <= 0 THEN state
  ELSE Commit(state, WithMarkers(state, Clamp(state.in_seconds, duration),
                                        Clamp(state.out_seconds, duration)))

ClampToDuration(state, duration) ==
  LET clamped == WithMarkers(state, Clamp(state.in_seconds, duration),
                                    Clamp(state.out_seconds, duration))
  IN  IF duration <= 0 THEN state
      ELSE IF Valid(clamped) THEN clamped
      ELSE Commit(state, WithMarkers(state, 0, duration))

------------------------------------------------------------------------------
(* EditorPersistence: encode and decode.  A record holds no enabled. *)

SavedRecord == [schema : {0, 1}, bpm : Seconds, grid_offset_seconds : Seconds,
                beats_per_bar : Nat, snapping : Nat,
                in_seconds : Seconds, out_seconds : Seconds]

Encode(state) ==
  [schema |-> 1, bpm |-> state.bpm, grid_offset_seconds |-> state.grid_offset_seconds,
   beats_per_bar |-> state.beats_per_bar, snapping |-> snap_mode(state),
   in_seconds |-> state.in_seconds, out_seconds |-> state.out_seconds]

(* Schema 0 has no free placement: its snapping implies at least beats. *)
SnappingOf(record) ==
  IF record.schema = 0 /\ record.snapping = 0 THEN 1 ELSE record.snapping

Decoded(record) ==
  LET tempo == WithBeatsPerBar(WithGridOffset(WithBpm(DefaultState, record.bpm),
                                              record.grid_offset_seconds),
                               record.beats_per_bar)
  IN  WithMarkers(WithSnapping(tempo, SnappingOf(record)),
                  record.in_seconds, record.out_seconds)

(* decode rejects the record when any setter does; the setters touch       *)
(* different fields, so that is when the whole state is not valid.         *)
Decodes(record) ==
  record # NoRecord /\ SnappingOf(record) \in SnapMode /\ Valid(Decoded(record))
==============================================================================
