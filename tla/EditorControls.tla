---------------------------- MODULE EditorControls ----------------------------
(***************************************************************************)
(* The child controls of a LoopFinderPanel (src/foobar/ui_element.cpp) and *)
(* the editor values behind them: the tempo and offset edits with their    *)
(* keyboard focus, the tap tempo and the Loop checkbox.  The other buttons *)
(* and the snapping list are in LoopEditor.                                *)
(*                                                                         *)
(* Windows changes a control before the panel hears of it: typing changes  *)
(* the text of an edit, a click the check mark.  The panel reads the       *)
(* control back in the handler.  A step is one message.                    *)
(*                                                                         *)
(* Numbers are whole multiples of a fine unit.  The text of an edit is the *)
(* number it reads as, or Garbage; format_number with 8 digits (10 for the *)
(* offset) is rounding to DisplayStep, with the 6 digits of record_tap to  *)
(* TapDisplayStep.                                                         *)
(*                                                                         *)
(* MCPanelParts extends this module together with PanelView, PanelPainting *)
(* and others: the names of all are distinct.                              *)
(***************************************************************************)
EXTENDS Integers, Sequences

CONSTANTS Nothing, NonFiniteTime,
          RequiredTaps, MaximumIntervals, InactivityTimeout, Gaps, MaxTaps,
          Tracks,
          UnitsPerBpm,       \* fine units in 1 BPM
          ClockTicks,        \* of the tap clock in a minute
          DisplayStep, TapDisplayStep,
          SavedTempi,        \* tempi that records of tracks may hold
          Typed, Garbage,    \* numbers a user may type, and text that is none
          MaxMessages        \* bound on the messages of the user

Fields == {"bpm", "offset"}

VARIABLES
  track,       \* current_track_
  value,       \* bpm and grid offset of loop_engine_
  enabled,     \* loop_engine_.state().enabled
  text,        \* the text of bpm_edit_ and offset_edit_
  checkbox,    \* the state of loop_checkbox_
  focus,       \* the edit with the keyboard focus, or Nothing
  tap_tempo,   \* tap_tempo_
  typed,       \* history: for which track the text was typed, Nothing if set by the panel
  entered,     \* history: the value as it was typed, tapped or loaded
  tapped,      \* history: whether the tempo was tapped last
  taps,        \* history: the taps since the current track came
  result,      \* what tap returned last
  messages

control_vars == <<track, value, enabled, text, checkbox, focus, tap_tempo, typed, entered,
                  tapped, taps, result, messages>>

TapTempoOfPanel == INSTANCE TapTempo
  WITH None <- Nothing, NonFinite <- NonFiniteTime, tempo <- tap_tempo

ControlsAssumption ==
  /\ TapTempoOfPanel!TapAssumption
  /\ Nothing \notin Tracks \cup Fields
  /\ UnitsPerBpm \in Nat \ {0} /\ ClockTicks \in Nat \ {0}
  /\ DisplayStep \in Nat \ {0} /\ TapDisplayStep \in Nat \ {0}
  /\ TapDisplayStep % DisplayStep = 0
  /\ UnitsPerBpm % DisplayStep = 0   \* a tempo without decimals is shown as it is
  /\ SavedTempi \subseteq 20 * UnitsPerBpm .. 300 * UnitsPerBpm
  /\ Typed \subseteq Int /\ Garbage \notin Int
  /\ MaxMessages \in Nat

------------------------------------------------------------------------------
Rounded(number, step) == ((2 * number + step) \div (2 * step)) * step

Display(number) == Rounded(number, DisplayStep)

Default == [bpm |-> 120 * UnitsPerBpm, offset |-> 0]

Accepts(field, number) ==
  /\ number \in Int
  /\ field = "bpm" => 20 * UnitsPerBpm <= number /\ number <= 300 * UnitsPerBpm

TapBpm(twice_median) == (2 * ClockTicks * UnitsPerBpm) \div twice_median

ControlsInit ==
  /\ track = Nothing
  /\ value = Default
  /\ enabled = FALSE
  /\ text = Default
  /\ checkbox = FALSE
  /\ focus = Nothing
  /\ tap_tempo = TapTempoOfPanel!NoTaps
  /\ typed = [f \in Fields |-> Nothing]
  /\ entered = Default
  /\ tapped = FALSE
  /\ taps = <<>>
  /\ result = TapTempoOfPanel!NoResult
  /\ messages = 0

Message == messages < MaxMessages /\ messages' = messages + 1

------------------------------------------------------------------------------
RefreshedUnlessFocused == Fields \ {focus}   \* mutant

(* The edits whose text sync_controls replaces *)
Refreshed == Fields

Checkmark == enabled'

(* sync_controls, after value, enabled and track have changed.  Disabling  *)
(* the edit that has the focus takes it away; the EN_KILLFOCUS that sends  *)
(* finds updating_controls_ set.                                           *)
SyncControls ==
  /\ text' = [f \in Fields |-> IF f \in Refreshed THEN Display(value'[f]) ELSE text[f]]
  /\ typed' = [f \in Fields |-> IF f \in Refreshed THEN Nothing ELSE typed[f]]
  /\ checkbox' = Checkmark
  /\ focus' = IF track' = Nothing THEN Nothing ELSE focus

Committable(field) == text[field] # Garbage /\ Accepts(field, text[field])

NormalizedShort(field) == Rounded(text[field], TapDisplayStep)   \* mutant

Normalized(field) == Display(text[field])

(* commit_bpm, commit_offset: the text is read back, typed or not.         *)
CommitField(field) ==
  IF Committable(field)
  THEN /\ value' = [value EXCEPT ![field] = text[field]]
       /\ text' = [text EXCEPT ![field] = Normalized(field)]
       /\ typed' = [typed EXCEPT ![field] = Nothing]
       /\ entered' = IF typed[field] = Nothing THEN entered
                     ELSE [entered EXCEPT ![field] = text[field]]
       /\ tapped' = (tapped /\ ~ (field = "bpm" /\ typed[field] # Nothing))
  ELSE UNCHANGED <<value, text, typed, entered, tapped>>

------------------------------------------------------------------------------
(* Keyboard *)

Type ==
  /\ focus # Nothing
  /\ Message
  /\ \E number \in Typed \cup {Garbage} : text' = [text EXCEPT ![focus] = number]
  /\ typed' = [typed EXCEPT ![focus] = track]
  /\ UNCHANGED <<track, value, enabled, checkbox, focus, tap_tempo, entered, tapped, taps, result>>

Enter ==
  /\ focus # Nothing
  /\ Message
  /\ CommitField(focus)
  /\ UNCHANGED <<track, enabled, checkbox, focus, tap_tempo, taps, result>>

(* restore_edit *)
Escape ==
  /\ focus # Nothing
  /\ Message
  /\ text' = [text EXCEPT ![focus] = Display(value[focus])]
  /\ typed' = [typed EXCEPT ![focus] = Nothing]
  /\ UNCHANGED <<track, value, enabled, checkbox, focus, tap_tempo, entered, tapped, taps, result>>

(* EN_KILLFOCUS of the edit that loses the focus *)
MoveFocus ==
  /\ track # Nothing
  /\ Message
  /\ focus' \in (Fields \cup {Nothing}) \ {focus}
  /\ IF focus # Nothing THEN CommitField(focus) ELSE UNCHANGED <<value, text, typed, entered, tapped>>
  /\ UNCHANGED <<track, enabled, checkbox, tap_tempo, taps, result>>

------------------------------------------------------------------------------
(* record_tap: Ctrl+T wherever the focus is, or the Tap button. *)

LastTap == IF taps = <<>> THEN 0 ELSE taps[Len(taps)]

RecordTap ==
  /\ track # Nothing
  /\ Message
  /\ Len(taps) < MaxTaps
  /\ \E gap \in Gaps :
       LET time == LastTap + gap IN
       /\ tap_tempo' = TapTempoOfPanel!Tapped(tap_tempo, time)
       /\ result' = TapTempoOfPanel!Result(tap_tempo', TapTempoOfPanel!Restarts(tap_tempo, time))
       /\ taps' = Append(taps, time)
  /\ IF result'.bpm # Nothing /\ Accepts("bpm", TapBpm(result'.bpm))
     THEN LET bpm == TapBpm(result'.bpm) IN
          /\ value' = [value EXCEPT !.bpm = bpm]
          /\ text' = [text EXCEPT !.bpm = Rounded(bpm, TapDisplayStep)]
          /\ typed' = [typed EXCEPT !.bpm = Nothing]
          /\ entered' = [entered EXCEPT !.bpm = bpm]
          /\ tapped' = TRUE
     ELSE UNCHANGED <<value, text, typed, entered, tapped>>
  /\ UNCHANGED <<track, enabled, checkbox, focus>>

------------------------------------------------------------------------------
(* Loop *)

(* BS_AUTOCHECKBOX has toggled; change_loop_enabled may fail to arm. *)
ClickLoop ==
  /\ track # Nothing /\ focus = Nothing    \* the click has moved the focus
  /\ Message
  /\ enabled' \in IF ~checkbox THEN BOOLEAN ELSE {FALSE}
  /\ UNCHANGED <<track, value>>
  /\ SyncControls
  /\ UNCHANGED <<tap_tempo, entered, tapped, taps, result>>

(* force_loop_off from the transport, the host or another panel *)
ForceLoopOff ==
  /\ enabled
  /\ enabled' = FALSE
  /\ UNCHANGED <<track, value>>
  /\ SyncControls
  /\ UNCHANGED <<tap_tempo, entered, tapped, taps, result, messages>>

------------------------------------------------------------------------------
(* Tracks *)

TapsForgotten == TapTempoOfPanel!NoTaps

LoadEditorForTrack(t) ==
  /\ track' = t
  /\ tap_tempo' = TapsForgotten
  /\ \E bpm \in SavedTempi \cup {Default.bpm} : value' = [Default EXCEPT !.bpm = bpm]
  /\ enabled' = FALSE
  /\ SyncControls

ClearEditor ==
  /\ track # Nothing
  /\ track' = Nothing
  /\ tap_tempo' = TapsForgotten
  /\ value' = Default
  /\ enabled' = FALSE
  /\ SyncControls
  /\ entered' = value' /\ tapped' = FALSE /\ taps' = <<>>
  /\ UNCHANGED <<result, messages>>

StartTrack(t) ==
  /\ LoadEditorForTrack(t)
  /\ entered' = value' /\ tapped' = FALSE /\ taps' = <<>>
  /\ UNCHANGED <<result, messages>>

------------------------------------------------------------------------------
ControlsNext ==
  \/ Type \/ Enter \/ Escape \/ MoveFocus
  \/ RecordTap
  \/ ClickLoop \/ ForceLoopOff
  \/ ClearEditor
  \/ \E t \in Tracks : StartTrack(t)

ControlsSpec == ControlsInit /\ [][ControlsNext]_control_vars

------------------------------------------------------------------------------
(* Types, and a tempo the engine accepts. *)
ControlsTypeOK ==
  /\ track \in Tracks \cup {Nothing}
  /\ value \in [Fields -> Int] /\ \A f \in Fields : Accepts(f, value[f])
  /\ enabled \in BOOLEAN /\ checkbox \in BOOLEAN
  /\ text \in [Fields -> Int \cup {Garbage}]
  /\ focus \in Fields \cup {Nothing}
  /\ typed \in [Fields -> Tracks \cup {Nothing}]
  /\ entered \in [Fields -> Int]
  /\ tapped \in BOOLEAN

(* What a control shows is what the engine holds, except for text that is  *)
(* being typed: after rejected values, a Loop that could not be armed or   *)
(* was forced off, tapping into an edit, and tracks that come and go.      *)
ShowsEngine ==
  /\ checkbox = enabled
  /\ \A f \in Fields :
       typed[f] # Nothing \/ text[f] \in {Display(value[f]), Rounded(value[f], TapDisplayStep)}

(* A number typed for one track is not waiting to be committed to another: *)
(* the next loss of focus or Enter would do that.                          *)
TypedForThisTrack == \A f \in Fields : typed[f] \in {Nothing, track}

WithinRounding(a, b, step) == 2 * (a - b) <= step /\ 2 * (b - a) <= step

(* An edit commits whenever it loses the focus, untouched too, and what it *)
(* shows is rounded.  However often that happens, the value stays within   *)
(* one rounding of what was typed, tapped or loaded.                       *)
RoundedOnce ==
  \A f \in Fields :
    WithinRounding(value[f], entered[f], IF f = "bpm" /\ tapped THEN TapDisplayStep ELSE DisplayStep)

(* "resulting BPM" of taps (docs/BUILD_WINDOWS.md): the taps counted are   *)
(* those given for the track that is playing, whatever was tapped before.  *)
TapsOfThisTrack == TapTempoOfPanel!KeepsTheRun

(* Fields, check mark and tap tempo always tell of the engine and the      *)
(* track the panel has now, never of an earlier one.                       *)
FieldsAreRight == ControlsTypeOK /\ ShowsEngine /\ TypedForThisTrack /\ TapsOfThisTrack
==============================================================================
