---------------------------- MODULE CursorTimer_proofs ----------------------------
(***************************************************************************)
(* That the timer of a panel is set exactly when it should be, however     *)
(* many callbacks are under way.  A handler takes the panel through        *)
(* several helpers; the lemmas say what each of them makes of any panel.   *)
(***************************************************************************)
EXTENDS CursorTimer, TLAPS

(* What holds of a panel after every handler, whatever the host is doing.  *)
Kept(q) ==
  /\ q \in Panel
  /\ q.timer => q.window
  /\ q.window /\ Needed(q) => q.timer

(* The timer is exactly as it should be. *)
Exact(q) == Kept(q) /\ (q.timer => Needed(q))

(* The host says last that it has stopped, and nothing more until it       *)
(* starts again.                                                           *)
StopIsLast ==
  host.state = "stopped" => notices = <<>> \/ notices[Len(notices)].kind = "stop"

TrackIsPlayed == host.track => host.state # "stopped"

IInv == TypeOK /\ Kept(panel) /\ TrackIsPlayed /\ StopIsLast /\ IdleTimerIsExcused

------------------------------------------------------------------------------
(* The helpers *)

LEMMA SyncIsExact ==
  ASSUME NEW q \in Panel, q.timer => q.window
  PROVE  /\ Exact(sync_cursor_timer(q))
         /\ \A f \in {"window", "playback_state", "waveform_state", "enabled"} :
              sync_cursor_timer(q)[f] = q[f]
  BY DEF Exact, Kept, sync_cursor_timer, Needed, Panel, States, WaveformState

LEMMA OffIsExact ==
  ASSUME NEW q \in Panel, q.timer => q.window
  PROVE  /\ Exact(force_loop_off(q))
         /\ force_loop_off(q).playback_state = q.playback_state
         /\ force_loop_off(q).waveform_state = q.waveform_state
  <1> DEFINE off == [q EXCEPT !.enabled = FALSE]
  <1>1. off \in Panel /\ (off.timer => off.window)
        /\ off.playback_state = q.playback_state /\ off.waveform_state = q.waveform_state
    BY DEF Panel
  <1> QED BY <1>1, SyncIsExact DEF force_loop_off

LEMMA CancelKeeps ==
  ASSUME NEW q \in Panel, Kept(q), NEW c \in cancel_interaction(q)
  PROVE  /\ Kept(c) /\ (Exact(q) => Exact(c))
         /\ c.playback_state = q.playback_state /\ c.waveform_state = q.waveform_state
  BY OffIsExact DEF cancel_interaction, Kept, Exact

LEMMA ReplaceKeeps ==
  ASSUME NEW q \in Panel, Kept(q), NEW c \in ReplaceEditor(q)
  PROVE  /\ Kept(c)
         /\ c.playback_state = q.playback_state /\ c.waveform_state = q.waveform_state
         /\ Exact(q) /\ q.playback_state # "playing" => Exact(c)
  <1>1. PICK d \in cancel_interaction(q) : c = [d EXCEPT !.enabled = FALSE]
    BY DEF ReplaceEditor
  <1>2. /\ Kept(d) /\ (Exact(q) => Exact(d))
        /\ d.playback_state = q.playback_state /\ d.waveform_state = q.waveform_state
    BY CancelKeeps
  <1>3. c \in Panel /\ c.playback_state = d.playback_state /\ c.waveform_state = d.waveform_state
        /\ c.timer = d.timer /\ c.window = d.window /\ c.enabled = FALSE
    BY <1>1, <1>2 DEF Kept, Panel
  <1> QED BY <1>2, <1>3 DEF Kept, Exact, Needed

LEMMA RefreshKeeps ==
  ASSUME NEW q \in Panel, Kept(q), host \in Host
  PROVE  /\ Kept(refresh_playback_snapshot(q))
         /\ host.state # "stopped" => Exact(refresh_playback_snapshot(q))
         /\ refresh_playback_snapshot(q).playback_state = host.state
  <1> DEFINE r == [q EXCEPT !.playback_state = host.state]
  <1>1. r \in Panel /\ r.timer = q.timer /\ r.window = q.window /\ r.playback_state = host.state
    BY DEF Panel, Host, States
  <1>2. CASE host.state = "stopped"
    BY <1>1, <1>2 DEF refresh_playback_snapshot, Kept, Needed
  <1>3. CASE host.state # "stopped"
    BY <1>1, <1>3, SyncIsExact DEF refresh_playback_snapshot, Kept, Exact
  <1> QED BY <1>2, <1>3

LEMMA ClearIsExact ==
  ASSUME NEW q \in Panel, q.timer => q.window
  PROVE  /\ Exact(clear_analysis(q))
         /\ clear_analysis(q).playback_state = q.playback_state
         /\ clear_analysis(q).waveform_state = "no_track"
  <1> DEFINE c == [q EXCEPT !.waveform_state = "no_track"]
  <1>1. c \in Panel /\ (c.timer => c.window)
        /\ c.playback_state = q.playback_state /\ c.waveform_state = "no_track"
    BY DEF Panel, WaveformState
  <1> QED BY <1>1, SyncIsExact DEF clear_analysis

LEMMA BeginIsExact ==
  ASSUME NEW q \in Panel, q.timer => q.window, NEW c \in begin_analysis(q)
  PROVE  Exact(c)
  <1>1. PICK w \in WaveformState : c = sync_cursor_timer([q EXCEPT !.waveform_state = w])
    BY DEF begin_analysis
  <1>2. [q EXCEPT !.waveform_state = w] \in Panel
        /\ ([q EXCEPT !.waveform_state = w].timer => [q EXCEPT !.waveform_state = w].window)
    BY DEF Panel
  <1> QED BY <1>1, <1>2, SyncIsExact

(* A handled callback leaves the timer exact, except while a track is      *)
(* being opened, and in the branch of a host that stopped unheard.         *)
LEMMA HandledKeeps ==
  ASSUME TypeOK, Kept(panel), NEW n \in Notice, NEW c \in Handled(n)
  PROVE  /\ Kept(c)
         /\ \/ Exact(c)
            \/ c.playback_state = "playing" /\ c.waveform_state = "no_track"
            \/ host.state = "stopped" /\ n.kind # "stop" /\ c.playback_state = "stopped"
  <1>1. panel \in Panel /\ host \in Host
    BY DEF TypeOK
  <1>2. CASE n.kind = "starting"
    <2> DEFINE p == [panel EXCEPT !.playback_state = n.state]
    <2>1. n.state \in {"playing", "paused"}
      BY <1>2 DEF Notice
    <2>2. p \in Panel /\ (p.timer => p.window) /\ p.playback_state = n.state
      BY <1>1, <2>1 DEF Panel, States, Kept
    <2>3. c \in ReplaceEditor(clear_analysis(p))
      BY <1>2 DEF Handled
    <2>4. /\ Exact(clear_analysis(p)) /\ clear_analysis(p) \in Panel
          /\ clear_analysis(p).playback_state = n.state
          /\ clear_analysis(p).waveform_state = "no_track"
      <3> HIDE DEF p
      <3> QED BY <2>2, ClearIsExact DEF Exact, Kept
    <2> HIDE DEF p
    <2> QED BY <2>1, <2>3, <2>4, ReplaceKeeps DEF Exact
  <1>3. CASE n.kind = "stop"
    <2> DEFINE p == [panel EXCEPT !.playback_state = "stopped"]
    <2>1. p \in Panel /\ (p.timer => p.window) /\ p.playback_state = "stopped"
      BY <1>1 DEF Panel, States, Kept
    <2>2. c \in ReplaceEditor(clear_analysis(p))
      BY <1>3 DEF Handled
    <2> HIDE DEF p
    <2>3. /\ Exact(clear_analysis(p)) /\ clear_analysis(p) \in Panel
          /\ clear_analysis(p).playback_state = "stopped"
      BY <2>1, ClearIsExact DEF Exact, Kept
    <2> QED BY <2>2, <2>3, ReplaceKeeps DEF Exact
  <1>4. CASE n.kind \in {"new_track", "edited"}
    <2>1. PICK q \in ReplaceEditor(refresh_playback_snapshot(panel)) : c \in begin_analysis(q)
      BY <1>4 DEF Handled
    <2>2. Kept(refresh_playback_snapshot(panel))
      BY <1>1, RefreshKeeps
    <2>3. q \in Panel /\ (q.timer => q.window)
      BY <2>1, <2>2, ReplaceKeeps DEF Kept
    <2> QED BY <2>1, <2>3, BeginIsExact DEF Exact
  <1>5. CASE n.kind \in {"pause", "dynamic_info"}
    <2>1. c = refresh_playback_snapshot(panel)
      BY <1>5 DEF Handled
    <2> QED BY <1>1, <1>5, <2>1, RefreshKeeps
  <1> QED BY <1>2, <1>3, <1>4, <1>5 DEF Notice

------------------------------------------------------------------------------
(* The invariant *)

LEMMA InitHolds == Init => IInv
  <1> SUFFICES ASSUME Init PROVE IInv
    OBVIOUS
  <1> DEFINE new == [window |-> TRUE, playback_state |-> "stopped", waveform_state |-> "no_track",
                     enabled |-> FALSE, timer |-> FALSE]
  <1>1. /\ host \in Host /\ (host.track => host.state # "stopped")
        /\ notices = <<>> /\ events = 0
        /\ panel \in IF host.track THEN begin_analysis(refresh_playback_snapshot(new))
                     ELSE {refresh_playback_snapshot(new)}
    BY DEF Init
  <1>2. new \in Panel /\ Kept(new) /\ new.timer = FALSE
    BY DEF Panel, States, WaveformState, Kept, Needed
  <1>3. host.state = "stopped" => refresh_playback_snapshot(new).timer = FALSE
    BY DEF refresh_playback_snapshot
  <1> HIDE DEF new
  <1>4. Kept(refresh_playback_snapshot(new))
        /\ (host.state # "stopped" => Exact(refresh_playback_snapshot(new)))
    BY <1>1, <1>2, RefreshKeeps
  <1>5. Exact(refresh_playback_snapshot(new))
    BY <1>3, <1>4 DEF Exact
  <1>6. Exact(panel)
    BY <1>1, <1>5, BeginIsExact DEF Exact, Kept
  <1>7. notices \in Seq(Notice) /\ Len(notices) <= MaxNotices
    BY <1>1, TimerAssumption
  <1> QED BY <1>1, <1>6, <1>7, TimerAssumption DEF IInv, TypeOK, StopIsLast,
          TrackIsPlayed, IdleTimerIsExcused, Exact, Kept

(* Steps of the panel by itself leave the host alone. *)
LEMMA PanelStep ==
  ASSUME IInv, UNCHANGED <<host, notices>>, events' \in 0 .. MaxEvents, Kept(panel'),
         \/ Exact(panel')
         \/ /\ panel'.timer = panel.timer /\ panel'.window = panel.window
            /\ panel'.playback_state = panel.playback_state
            /\ panel'.waveform_state = panel.waveform_state
            /\ panel'.enabled = panel.enabled
  PROVE  IInv'
  BY DEF IInv, TypeOK, StopIsLast, TrackIsPlayed, IdleTimerIsExcused, StopIsComing, Exact,
         Kept, Needed

(* The host changes its state and owes a callback.                         *)
LEMMA HostStep ==
  ASSUME IInv, NEW h \in Host, NEW n \in Notice, HostChanges(h, n),
         h.state = "stopped" => n.kind = "stop" /\ ~ h.track, events' \in 0 .. MaxEvents
  PROVE  IInv'
  <1>1. notices \in Seq(Notice) /\ Len(notices) < MaxNotices /\ MaxNotices \in Nat
    BY TimerAssumption DEF IInv, TypeOK, HostChanges
  <1>2. notices' = Append(notices, n) /\ host' = h /\ panel' = panel
    BY DEF HostChanges
  <1>3. /\ notices' \in Seq(Notice) /\ Len(notices') = Len(notices) + 1
        /\ notices'[Len(notices')] = n
        /\ \A i \in 1 .. Len(notices) : notices'[i] = notices[i]
    BY <1>1, <1>2
  <1>4. TypeOK' /\ StopIsLast'
    BY <1>1, <1>2, <1>3 DEF IInv, TypeOK, StopIsLast
  <1>7. TrackIsPlayed'
    BY <1>2 DEF TrackIsPlayed
  <1>5. StopIsComing => StopIsComing'
    BY <1>1, <1>3 DEF StopIsComing
  <1>6. IdleTimerIsExcused'
    BY <1>2, <1>5 DEF IInv, IdleTimerIsExcused, Needed
  <1> QED BY <1>2, <1>4, <1>6, <1>7 DEF IInv, Kept, Needed

LEMMA EventBound == ASSUME IInv, Event PROVE events' \in 0 .. MaxEvents
  BY TimerAssumption DEF IInv, TypeOK, Event

LEMMA DeliveryHolds == ASSUME IInv, DeliverNotice PROVE IInv'
  <1> DEFINE n == Head(notices)
  <1>1. /\ notices \in Seq(Notice) /\ notices # <<>> /\ notices' = Tail(notices)
        /\ UNCHANGED <<host, events>> /\ panel' \in Handled(n)
    BY DEF DeliverNotice, IInv, TypeOK
  <1>2. n \in Notice /\ n = notices[1]
    BY <1>1
  <1>3. /\ notices' \in Seq(Notice) /\ Len(notices') = Len(notices) - 1 /\ Len(notices) >= 1
        /\ \A i \in 1 .. Len(notices') : notices'[i] = notices[i + 1]
    BY <1>1
  <1>4. /\ Kept(panel')
        /\ \/ Exact(panel')
           \/ panel'.playback_state = "playing" /\ panel'.waveform_state = "no_track"
           \/ host.state = "stopped" /\ n.kind # "stop" /\ panel'.playback_state = "stopped"
    BY <1>1, <1>2, HandledKeeps DEF IInv
  <1>5. TypeOK'
    BY <1>1, <1>3, <1>4, TimerAssumption DEF IInv, TypeOK, Kept
  <1>6. StopIsLast'
    <2>1. CASE notices' = <<>>
      BY <2>1 DEF StopIsLast
    <2>2. CASE notices' # <<>>
      <3>1. Len(notices') >= 1 /\ notices'[Len(notices')] = notices[Len(notices)]
        BY <1>3, <2>2
      <3> QED BY <1>1, <3>1 DEF IInv, StopIsLast
    <2> QED BY <2>1, <2>2
  <1>7. ASSUME host.state = "stopped", n.kind # "stop" PROVE StopIsComing'
    <2>1. notices[Len(notices)].kind = "stop"
      BY <1>1, <1>7 DEF IInv, StopIsLast
    <2>2. Len(notices) # 1
      BY <1>2, <1>7, <2>1
    <2>3. Len(notices') \in 1 .. Len(notices') /\ notices'[Len(notices')] = notices[Len(notices)]
      BY <1>3, <2>2
    <2> QED BY <2>1, <2>3 DEF StopIsComing
  <1>8. IdleTimerIsExcused'
    BY <1>4, <1>7 DEF IdleTimerIsExcused, Exact
  <1> QED BY <1>1, <1>4, <1>5, <1>6, <1>8 DEF IInv, TrackIsPlayed

LEMMA StepHolds == IInv /\ [Next]_vars => IInv'
  <1> SUFFICES ASSUME IInv, [Next]_vars PROVE IInv'
    OBVIOUS
  <1>0. /\ panel \in Panel /\ Kept(panel) /\ (panel.timer => panel.window)
        /\ host \in Host /\ events \in 0 .. MaxEvents
    BY DEF IInv, TypeOK, Kept
  <1>1. CASE UpdatePlaybackCursor
    <2>1. panel' \in {panel, sync_cursor_timer(panel), force_loop_off(panel)}
      BY <1>1 DEF UpdatePlaybackCursor
    <2>2. UNCHANGED <<host, notices>> /\ events' \in 0 .. MaxEvents
      BY <1>0, <1>1 DEF UpdatePlaybackCursor
    <2>3. Kept(panel') /\ (panel' = panel \/ Exact(panel'))
      BY <1>0, <2>1, SyncIsExact, OffIsExact DEF Exact
    <2> QED BY <2>2, <2>3, PanelStep
  <1>2. CASE TurnLoopOn
    <2> DEFINE q == [panel EXCEPT !.enabled = TRUE]
    <2>1. q \in Panel /\ (q.timer => q.window)
      BY <1>0 DEF Panel
    <2>2. panel' = sync_cursor_timer(q) /\ UNCHANGED <<host, notices>>
      BY <1>2 DEF TurnLoopOn, TurnedOn
    <2> HIDE DEF q
    <2>3. Exact(panel')
      BY <2>1, <2>2, SyncIsExact
    <2> QED BY <1>2, <2>2, <2>3, EventBound, PanelStep DEF TurnLoopOn, Exact
  <1>3. CASE TurnLoopOff
    <2>1. Exact(panel') /\ UNCHANGED <<host, notices>>
      BY <1>0, <1>3, OffIsExact DEF TurnLoopOff
    <2> QED BY <1>3, <2>1, EventBound, PanelStep DEF TurnLoopOff, Exact
  <1>4. CASE AnalysisComplete
    <2>1. PICK w \in {"available", "unavailable"}, q \in cancel_interaction(panel) :
            panel' = sync_cursor_timer([q EXCEPT !.waveform_state = w])
      BY <1>4 DEF AnalysisComplete
    <2> DEFINE c == [q EXCEPT !.waveform_state = w]
    <2>2. c \in Panel /\ (c.timer => c.window)
      BY <1>0, <2>1, CancelKeeps DEF Kept, Panel, WaveformState
    <2>3. panel' = sync_cursor_timer(c)
      BY <2>1
    <2> HIDE DEF c
    <2>4. Exact(panel')
      BY <2>2, <2>3, SyncIsExact
    <2> QED BY <1>0, <1>4, <2>4, PanelStep DEF AnalysisComplete, Exact
  <1>5. CASE CloseWindow
    <2>1. PICK q \in cancel_interaction(panel) :
            panel' = [q EXCEPT !.window = FALSE, !.timer = FALSE]
      BY <1>5 DEF CloseWindow
    <2>2. q \in Panel
      BY <1>0, <2>1, CancelKeeps DEF Kept
    <2>3. Exact(panel')
      BY <2>1, <2>2 DEF Exact, Kept, Panel
    <2> QED BY <1>0, <1>5, <2>3, PanelStep DEF CloseWindow, Exact
  <1>6. CASE DeliverNotice
    BY <1>6, DeliveryHolds
  <1>7. CASE StartPlayback
    <2>1. PICK state \in {"playing", "paused"} :
            HostChanges([state |-> state, track |-> FALSE], [kind |-> "starting", state |-> state])
      BY <1>7 DEF StartPlayback
    <2>2. /\ [state |-> state, track |-> FALSE] \in Host
          /\ [kind |-> "starting", state |-> state] \in Notice
      BY DEF Host, States, Notice
    <2> QED BY <1>7, <2>1, <2>2, EventBound, HostStep DEF StartPlayback
  <1>8. CASE FinishOpening
    <2>1. /\ [host EXCEPT !.track = TRUE] \in Host
          /\ [host EXCEPT !.track = TRUE].state # "stopped"
      BY <1>0, <1>8 DEF Host, FinishOpening
    <2>2. [state |-> "stopped", track |-> FALSE] \in Host
      BY DEF Host, States
    <2>3. [kind |-> "new_track"] \in Notice /\ [kind |-> "stop"] \in Notice
      BY DEF Notice
    <2>4. events' \in 0 .. MaxEvents
      BY <1>0, <1>8 DEF FinishOpening
    <2>5. CASE HostChanges([host EXCEPT !.track = TRUE], [kind |-> "new_track"])
      BY <2>1, <2>3, <2>4, <2>5, HostStep
    <2>6. CASE HostChanges([state |-> "stopped", track |-> FALSE], [kind |-> "stop"])
      BY <2>2, <2>3, <2>4, <2>6, HostStep
    <2> QED BY <1>8, <2>5, <2>6 DEF FinishOpening
  <1>9. ASSUME NEW kind \in {"new_track", "edited", "dynamic_info"}, host.track,
               HostChanges(host, [kind |-> kind]), Event
        PROVE  IInv'
    <2>1. [kind |-> kind] \in Notice
      BY DEF Notice
    <2> QED BY <1>0, <1>9, <2>1, EventBound, HostStep DEF IInv, TrackIsPlayed
  <1>10. CASE StopPlayback
    <2>1. /\ [state |-> "stopped", track |-> FALSE] \in Host /\ [kind |-> "stop"] \in Notice
      BY DEF Host, States, Notice
    <2> QED BY <1>10, <2>1, EventBound, HostStep DEF StopPlayback
  <1>11. CASE TogglePause
    <2> DEFINE h == [host EXCEPT !.state = IF @ = "playing" THEN "paused" ELSE "playing"]
    <2>1. h \in Host /\ h.state # "stopped" /\ [kind |-> "pause"] \in Notice
      BY <1>0 DEF Host, States, Notice
    <2>2. HostChanges(h, [kind |-> "pause"]) /\ Event
      BY <1>11 DEF TogglePause
    <2> QED BY <2>1, <2>2, EventBound, HostStep
  <1>12. CASE UNCHANGED vars
    BY <1>0, <1>12, PanelStep DEF vars
  <1> QED BY <1>1, <1>2, <1>3, <1>4, <1>5, <1>6, <1>7, <1>8, <1>9, <1>10, <1>11, <1>12
          DEF Next, ChangeTrack, UpdateInfo

LEMMA Invariance == Spec => []IInv
  <1> QED BY InitHolds, StepHolds, PTL DEF Spec

------------------------------------------------------------------------------
(* The members of the panel and the callbacks keep their types, for any    *)
(* number of callbacks under way.                                          *)
THEOREM TypeCorrect == Spec => []TypeOK
  <1>1. IInv => TypeOK
    BY DEF IInv
  <1> QED BY <1>1, Invariance, PTL

(* Whenever playback runs and a waveform or a loop needs it, the timer of  *)
(* an open panel is set: no handler forgets it.                            *)
THEOREM TimerRuns == Spec => []TimerWhenNeeded
  <1>1. IInv => TimerWhenNeeded
    BY DEF IInv, Kept, TimerWhenNeeded
  <1> QED BY <1>1, Invariance, PTL

(* No handler, however late, sets a timer after the window is closed.      *)
THEOREM NoStrayTimer == Spec => []NoTimerWithoutWindow
  <1>1. IInv => NoTimerWithoutWindow
    BY DEF IInv, Kept, NoTimerWithoutWindow
  <1> QED BY <1>1, Invariance, PTL

(* Both, which the runs check as one.                                      *)
THEOREM TimerStaysRight == Spec => []TimerIsRight
  <1>1. IInv => TimerIsRight
    BY DEF IInv, Kept, TimerIsRight, TimerWhenNeeded, NoTimerWithoutWindow
  <1> QED BY <1>1, Invariance, PTL

(* A timer nobody needs is left only while a track is opened or while a    *)
(* stop is on its way.                                                     *)
THEOREM IdleTimerExplained == Spec => []IdleTimerIsExcused
  <1>1. IInv => IdleTimerIsExcused
    BY DEF IInv
  <1> QED BY <1>1, Invariance, PTL

==============================================================================
