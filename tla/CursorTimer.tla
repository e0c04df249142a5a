------------------------------- MODULE CursorTimer -------------------------------
(***************************************************************************)
(* The 50 ms timer of a LoopFinderPanel (src/foobar/ui_element.cpp), which *)
(* moves the cursor and polls the loop.  Whether it has to run depends on  *)
(* four members that many handlers change: the window, the playback state, *)
(* the waveform and the loop.  Each handler has to leave it right.         *)
(*                                                                         *)
(* All panel code runs on the main thread, so a handler is one step.  The  *)
(* host is external: it changes its state first, and makes its callbacks   *)
(* in order, perhaps later.                                                *)
(***************************************************************************)
EXTENDS Integers, Sequences

CONSTANTS MaxNotices,    \* bound on callbacks not made yet
          MaxEvents      \* bound on events of host and user

ASSUME TimerAssumption == MaxNotices \in Nat \ {0} /\ MaxEvents \in Nat

VARIABLES
  host,      \* what playback_control reports
  notices,   \* callbacks the host has yet to make
  panel,     \* the members of the panel, and whether its timer is set
  events

vars == <<host, notices, panel, events>>

States == {"stopped", "paused", "playing"}
WaveformState == {"no_track", "analyzing", "available", "unavailable"}

Panel == [window : BOOLEAN, playback_state : States, waveform_state : WaveformState,
          enabled : BOOLEAN, timer : BOOLEAN]

Host == [state : States, track : BOOLEAN]

Notice == [kind : {"starting"}, state : {"playing", "paused"}]
          \cup [kind : {"new_track", "stop", "pause", "edited", "dynamic_info"}]

------------------------------------------------------------------------------
Needed(q) ==
  /\ q.playback_state = "playing"
  /\ q.waveform_state = "available" \/ q.enabled

sync_cursor_timer(q) == IF q.window THEN [q EXCEPT !.timer = Needed(q)] ELSE q

(* The branch for a host that has stopped does not look at the timer. *)
refresh_playback_snapshot(q) ==
  IF host.state = "stopped" THEN [q EXCEPT !.playback_state = "stopped"]
  ELSE sync_cursor_timer([q EXCEPT !.playback_state = host.state])

clear_analysis(q) == sync_cursor_timer([q EXCEPT !.waveform_state = "no_track"])

BeginUnsynchronized(q) ==   \* mutant
  {[q EXCEPT !.waveform_state = w] : w \in WaveformState \ {"no_track"}}

(* From the cache, by the worker, or not at all. *)
begin_analysis(q) ==
  {sync_cursor_timer([q EXCEPT !.waveform_state = w]) : w \in WaveformState \ {"no_track"}}

ForcedOffQuietly(q) == [q EXCEPT !.enabled = FALSE]   \* mutant

force_loop_off(q) == sync_cursor_timer([q EXCEPT !.enabled = FALSE])

(* cancel_interaction: with a marker drag and a loop that is on, it may    *)
(* find a reason to turn the loop off.                                     *)
cancel_interaction(q) == IF q.enabled THEN {q, force_loop_off(q)} ELSE {q}

(* clear_editor, load_editor_for_track: an engine that is off, and no look *)
(* at the timer.                                                           *)
ReplaceEditor(q) == {[c EXCEPT !.enabled = FALSE] : c \in cancel_interaction(q)}

------------------------------------------------------------------------------
(* initialize_window *)
Init ==
  /\ host \in Host /\ (host.track => host.state # "stopped")
  /\ notices = <<>>
  /\ LET new == [window |-> TRUE, playback_state |-> "stopped", waveform_state |-> "no_track",
                 enabled |-> FALSE, timer |-> FALSE]
     IN  panel \in IF host.track THEN begin_analysis(refresh_playback_snapshot(new))
                   ELSE {refresh_playback_snapshot(new)}
  /\ events = 0

Event == events < MaxEvents /\ events' = events + 1

(* WM_TIMER: update_playback_cursor.  An observation whose seek cannot be  *)
(* queued turns the loop off.                                              *)
UpdatePlaybackCursor ==
  /\ panel.timer
  /\ panel' \in IF panel.playback_state # "playing" \/ host.state = "stopped"
                THEN {sync_cursor_timer(panel)}
                ELSE IF panel.enabled THEN {panel, force_loop_off(panel)} ELSE {panel}
  /\ UNCHANGED <<host, notices, events>>

TurnedOnQuietly(q) == [q EXCEPT !.enabled = TRUE]   \* mutant

TurnedOn(q) == sync_cursor_timer([q EXCEPT !.enabled = TRUE])

(* change_loop_enabled *)
TurnLoopOn ==
  /\ Event
  /\ panel.window /\ panel.waveform_state # "no_track"
  /\ host.state # "stopped"
  /\ panel' = TurnedOn(panel)
  /\ UNCHANGED <<host, notices>>

(* The user, another panel that takes the loop, a source that cannot seek, *)
(* markers that cannot be used, or a deferred seek that fails.             *)
TurnLoopOff ==
  /\ Event
  /\ panel.waveform_state # "no_track"
  /\ panel' = force_loop_off(panel)
  /\ UNCHANGED <<host, notices>>

(* on_analysis_complete, which may move markers *)
AnalysisComplete ==
  /\ panel.waveform_state = "analyzing"
  /\ \E w \in {"available", "unavailable"}, q \in cancel_interaction(panel) :
       panel' = sync_cursor_timer([q EXCEPT !.waveform_state = w])
  /\ UNCHANGED <<host, notices, events>>

(* WM_NCDESTROY: a timer does not outlive its window. *)
CloseWindow ==
  /\ panel.window
  /\ \E q \in cancel_interaction(panel) :
       panel' = [q EXCEPT !.window = FALSE, !.timer = FALSE]
  /\ UNCHANGED <<host, notices, events>>

------------------------------------------------------------------------------
(* Callbacks *)

Handled(n) ==
  CASE n.kind = "starting" ->
         ReplaceEditor(clear_analysis([panel EXCEPT !.playback_state = n.state]))
    [] n.kind = "stop" ->
         ReplaceEditor(clear_analysis([panel EXCEPT !.playback_state = "stopped"]))
    [] n.kind \in {"new_track", "edited"} ->
         UNION {begin_analysis(q) : q \in ReplaceEditor(refresh_playback_snapshot(panel))}
    [] n.kind \in {"pause", "dynamic_info"} -> {refresh_playback_snapshot(panel)}

DeliverNotice ==
  /\ notices # <<>>
  /\ panel' \in Handled(Head(notices))
  /\ notices' = Tail(notices)
  /\ UNCHANGED <<host, events>>

HostChanges(h, n) ==
  /\ Len(notices) < MaxNotices
  /\ host' = h
  /\ notices' = Append(notices, n)
  /\ UNCHANGED panel

StartPlayback ==
  /\ Event
  /\ host.state = "stopped"
  /\ \E state \in {"playing", "paused"} :
       HostChanges([state |-> state, track |-> FALSE], [kind |-> "starting", state |-> state])

(* What the host starts to play, it opens, or fails to and stops. *)
FinishOpening ==
  /\ host.state # "stopped" /\ ~ host.track
  /\ \/ HostChanges([host EXCEPT !.track = TRUE], [kind |-> "new_track"])
     \/ HostChanges([state |-> "stopped", track |-> FALSE], [kind |-> "stop"])
  /\ UNCHANGED events

(* The next track, or a tag edit of this one *)
ChangeTrack ==
  /\ Event
  /\ host.track
  /\ \E kind \in {"new_track", "edited"} : HostChanges(host, [kind |-> kind])

StopPlayback ==
  /\ Event
  /\ host.state # "stopped"
  /\ HostChanges([state |-> "stopped", track |-> FALSE], [kind |-> "stop"])

TogglePause ==
  /\ Event
  /\ host.track
  /\ HostChanges([host EXCEPT !.state = IF @ = "playing" THEN "paused" ELSE "playing"],
                 [kind |-> "pause"])

UpdateInfo ==
  /\ Event
  /\ host.track
  /\ HostChanges(host, [kind |-> "dynamic_info"])

------------------------------------------------------------------------------
Next ==
  \/ UpdatePlaybackCursor \/ TurnLoopOn \/ TurnLoopOff \/ AnalysisComplete \/ CloseWindow
  \/ DeliverNotice
  \/ StartPlayback \/ FinishOpening \/ ChangeTrack \/ StopPlayback \/ TogglePause \/ UpdateInfo

Spec == Init /\ [][Next]_vars

(* The main loop delivers callbacks and timer messages, and the host does  *)
(* not open a track for ever.  Nothing is assumed of user or worker.       *)
FairSpec ==
  Spec /\ WF_vars(UpdatePlaybackCursor) /\ WF_vars(DeliverNotice) /\ WF_vars(FinishOpening)

------------------------------------------------------------------------------
TypeOK ==
  /\ host \in Host /\ notices \in Seq(Notice) /\ Len(notices) <= MaxNotices
  /\ panel \in Panel /\ events \in 0 .. MaxEvents

(* The timer runs whenever the cursor has to move or the loop has to be    *)
(* polled, as far as the panel knows: "active while playback is running    *)
(* and either a waveform is available or seek-based Loop is enabled"       *)
(* (docs/ARCHITECTURE.md:222).  Without it an enabled loop is polled only  *)
(* once a second, by on_playback_time.                                     *)
TimerWhenNeeded == panel.window /\ Needed(panel) => panel.timer

(* "The timer is stopped on pause, stop and destruction"                   *)
(* (docs/ARCHITECTURE.md:225), and otherwise when the loop goes off with   *)
(* no waveform, except while a track is being opened, and while a stop is  *)
(* known to the host only.                                                 *)
StopIsComing == \E i \in 1 .. Len(notices) : notices[i].kind = "stop"

IdleTimerIsExcused ==
  panel.timer => \/ Needed(panel)
                 \/ panel.playback_state = "playing" /\ panel.waveform_state = "no_track"
                 \/ panel.playback_state = "stopped" /\ StopIsComing

(* SetTimer without a window would set a timer of the thread, which nobody *)
(* kills: callbacks and deferred seeks go on after the window is closed.   *)
NoTimerWithoutWindow == panel.timer => panel.window

(* An idle timer ends by itself, or becomes needed: it does not poll for   *)
(* as long as the program runs.                                            *)
IdleTimerEnds == (panel.timer /\ ~ Needed(panel)) ~> (~ panel.timer \/ Needed(panel))

(* The timer is there when needed and only with a window.                  *)
TimerIsRight == TypeOK /\ TimerWhenNeeded /\ NoTimerWithoutWindow
==============================================================================
