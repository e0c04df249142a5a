----------------------------- MODULE LoopPanels -----------------------------
(***************************************************************************)
(* The seek-based loop of LoopFinderPanel (src/foobar/ui_element.cpp)      *)
(* under foobar2000: several panels, each with an editor state and a       *)
(* LoopTransport, the static active_loop_panel_, the main-thread queue in  *)
(* which seeks are deferred, and the host.                                 *)
(*                                                                         *)
(* All panel code runs on the main thread, so every handler is one step.   *)
(* What interleaves is: playback moving on its own thread, the host's      *)
(* callbacks, the panels' timers, the user, and the deferred seeks.        *)
(*                                                                         *)
(* Of the LoopEngine only enabled and the two markers are kept; the number *)
(* a marker is set to is any region of Regions.  The host is external: it  *)
(* is modelled as ui_element.cpp uses it, with callbacks that may lag      *)
(* behind the state that playback_control reports.                         *)
(***************************************************************************)
EXTENDS Transport, Sequences, FiniteSets

CONSTANTS Panels, Tracks,
          SeekableTracks,   \* tracks for which playback_can_seek holds
          MaxPosition,      \* length of every track
          Regions,          \* the marker pairs a LoopEngine may hold
          DefaultRegion,    \* the markers of LoopState{}
          MaxEvents,        \* bound on user and host events
          MaxNotices,       \* bound on callbacks not delivered yet
          MaxRequests,      \* bound on the requests of one panel
          LossyNotices,     \* a seek may come without its callback
          LateNotices,      \* playback moves on while a callback is undelivered
          FastPolling       \* every position is observed by an enabled panel

ASSUME PanelsAssumption ==
  /\ SeekableTracks \subseteq Tracks
  /\ Regions \subseteq {r \in LoopRegion : ValidRegion(r)} /\ DefaultRegion \in Regions
  /\ None \notin Panels /\ None \notin Tracks
  /\ MaxPosition \in Nat /\ MaxEvents \in Nat /\ MaxNotices \in Nat /\ MaxRequests \in Nat
  /\ LossyNotices \in BOOLEAN /\ LateNotices \in BOOLEAN /\ FastPolling \in BOOLEAN

VARIABLES host,       \* what playback_control reports
          notices,    \* playback callbacks the host has yet to make, in order
          panel,      \* the panels
          owner,      \* active_loop_panel_
          deferred,   \* lambdas passed to fb2k::inMainThread
          seen,       \* history: panels that observed the present position (if FastPolling)
          owed        \* history: panels that asked for a jump back and still lack it

vars == <<host, notices, panel, owner, deferred, seen, owed>>

Notice == [kind : {"starting", "pause"}, paused : BOOLEAN]
          \cup [kind : {"new_track", "edited"}, track : Tracks]
          \cup [kind : {"stop", "dynamic_info"}]
          \cup [kind : {"seek"}, time : 0 .. MaxPosition]

Host == [playing : BOOLEAN, paused : BOOLEAN, track : Tracks \cup {None},
         position : 0 .. MaxPosition, seeking : 0 .. MaxPosition \cup {None},
         events : 0 .. MaxEvents]

NewPanel == [status |-> "absent", enabled |-> FALSE, region |-> DefaultRegion,
             track |-> None, playback_state |-> "stopped", transport |-> InitialTransport]

Alive(p) == panel[p].status \in {"open", "closed"}

Init ==
  /\ host \in [playing : BOOLEAN, paused : {FALSE}, track : Tracks \cup {None},
               position : {0}, seeking : {None}, events : {0}]
  /\ host.playing <=> host.track # None
  /\ notices = <<>>
  /\ panel = [p \in Panels |-> NewPanel]
  /\ owner = None
  /\ deferred = {}
  /\ seen = {}
  /\ owed = {}

------------------------------------------------------------------------------
(* Queries of playback_control *)

source_can_seek == host.playing /\ host.track \in SeekableTracks

transport_position == IF host.playing THEN host.position ELSE None

PlaybackState == IF ~host.playing THEN "stopped" ELSE IF host.paused THEN "paused" ELSE "playing"

------------------------------------------------------------------------------
(* Functions of the panel, on its record *)

ForcedOffEngineOnly(q, reason) == [q EXCEPT !.enabled = FALSE]   \* mutant

ForcedOff(q, reason) == [q EXCEPT !.enabled = FALSE, !.transport = Reset(@, reason)]

OwnerWithout(set) == IF owner \in set THEN None ELSE owner

MustForceOff(q) == q.enabled /\ ~(source_can_seek /\ ValidRegion(q.region))

reconfigure_transport_for_markers(q) ==
  IF q.enabled /\ ~source_can_seek THEN ForcedOff(q, "unseekable")
  ELSE IF q.enabled /\ ~ValidRegion(q.region)
       THEN ForcedOff([q EXCEPT !.transport = UpdateMarkers(@, q.region, transport_position)],
                      "invalid_markers")
  ELSE IF q.enabled
       THEN [q EXCEPT !.transport =
               SetPaused(UpdateMarkers(@, q.region, transport_position), host.paused)]
  ELSE q

(* load_editor_for_track: whatever is saved, the loop is off. *)
load_editor_for_track(q, track, region) ==
  [q EXCEPT !.transport = Reset(@, "track_changed"), !.track = track,
            !.region = region, !.enabled = FALSE]

clear_editor(q, reason) ==
  [q EXCEPT !.transport = Reset(@, reason), !.track = None,
            !.region = DefaultRegion, !.enabled = FALSE]

refresh_playback_snapshot(q) == [q EXCEPT !.playback_state = PlaybackState]

------------------------------------------------------------------------------
(* The user.  Controls are enabled while a track is loaded (sync_controls). *)

UserEvent == host.events < MaxEvents /\ host' = [host EXCEPT !.events = @ + 1]

Usable(p) == panel[p].status = "open" /\ panel[p].track # None

(* Loop unchecked, or checked on a source that cannot seek. *)
TurnLoopOff(p, requested) ==
  /\ UserEvent
  /\ Usable(p)
  /\ requested => ~source_can_seek
  /\ panel' = [panel EXCEPT ![p] =
                 ForcedOff(@, IF requested THEN "unseekable" ELSE "loop_disabled")]
  /\ owner' = OwnerWithout({p})
  /\ owed' = owed \ {p}
  /\ UNCHANGED <<notices, deferred, seen>>

YieldNobody(p) == {}   \* mutant

(* The panels that lose the loop when p takes it: yield_loop_ownership. *)
Yielding(p) == {owner} \ {None, p}

ArmedTransport(q) == SetPaused(Enable(q.transport, q.region, TRUE, transport_position),
                               host.paused)

(* Loop checked: the previous owner yields before this panel takes over. *)
TurnLoopOn(p) ==
  /\ UserEvent
  /\ Usable(p)
  /\ source_can_seek
  /\ panel' = [q \in Panels |->
                 IF q \in Yielding(p) THEN ForcedOff(panel[q], "loop_disabled")
                 ELSE IF q = p THEN [panel[p] EXCEPT !.enabled = TRUE,
                                                     !.transport = ArmedTransport(panel[p])]
                 ELSE panel[q]]
  /\ owed' = owed \ (Yielding(p) \cup {p})
  /\ owner' = p
  /\ UNCHANGED <<notices, deferred, seen>>

(* Set IN, Set OUT, a marker drag or its cancellation, a clamp to the      *)
(* decoded length: the engine gets a valid region.  Set IN or OUT to where *)
(* it was, and the cancellation of a drag that did not move, re-arm too.   *)
SetMarkers(p, region) ==
  /\ UserEvent
  /\ Alive(p)
  /\ panel[p].track # None
  /\ LET q == [panel[p] EXCEPT !.region = region] IN
     /\ panel' = [panel EXCEPT ![p] = reconfigure_transport_for_markers(q)]
     /\ owner' = IF MustForceOff(q) THEN OwnerWithout({p}) ELSE owner
  /\ owed' = owed \ {p}
  /\ UNCHANGED <<notices, deferred, seen>>

(* seek_at, or the seek bar of the host *)
UserSeek(position) ==
  /\ host.events < MaxEvents
  /\ source_can_seek
  /\ host' = [host EXCEPT !.events = @ + 1, !.seeking = position]
  /\ UNCHANGED <<notices, panel, owner, deferred, seen, owed>>

------------------------------------------------------------------------------
(* Life of a panel *)

CreatePanel(p, region) ==
  /\ panel[p].status = "absent"
  /\ LET q == refresh_playback_snapshot([panel[p] EXCEPT !.status = "open"]) IN
     panel' = [panel EXCEPT ![p] = IF host.track = None THEN q
                                   ELSE load_editor_for_track(q, host.track, region)]
  /\ UNCHANGED <<host, notices, owner, deferred, seen, owed>>

(* WM_NCDESTROY: the window is gone, the object is not. *)
CloseWindow(p) ==
  /\ panel[p].status = "open"
  /\ panel' = [panel EXCEPT ![p].status = "closed"]
  /\ UNCHANGED <<host, notices, owner, deferred, seen, owed>>

(* The destructor: a deferred lambda holds a reference to its panel. *)
DestroyPanel(p) ==
  /\ panel[p].status = "closed"
  /\ \A d \in deferred : d.panel # p
  /\ panel' = [panel EXCEPT ![p].status = "destroyed",
                            ![p].transport = Reset(@, "shutdown")]
  /\ owner' = OwnerWithout({p})
  /\ owed' = owed \ {p}
  /\ UNCHANGED <<host, notices, deferred, seen>>

------------------------------------------------------------------------------
(* Observation: update_playback_cursor, on the 50 ms timer of an open      *)
(* panel, and on_playback_time.                                            *)

Observable(p) ==
  /\ Alive(p)
  /\ host.playing
  /\ panel[p].playback_state = "playing"
  /\ panel[p].enabled

queue_transport_seek(p, request) == deferred \cup {[panel |-> p, request |-> request]}

(* The crossing found, if any, is queued for a later main-loop turn; when  *)
(* it cannot be queued the loop is forced off.                             *)
ObservePlayback(p, queued) ==
  LET t == panel[p].transport
      crossing == Issues(t, host.position, t.generation)
  IN
  /\ Observable(p)
  /\ crossing => t.next_request_id <= MaxRequests
  /\ ~queued => crossing
  /\ panel' = [panel EXCEPT ![p] =
                 LET q == [@ EXCEPT !.transport = ObservePosition(t, host.position, t.generation)]
                 IN  IF queued THEN q ELSE ForcedOff(q, "unseekable")]
  /\ owner' = IF queued THEN owner ELSE OwnerWithout({p})
  /\ deferred' = IF crossing /\ queued
                 THEN queue_transport_seek(p, NewRequest(t, host.position))
                 ELSE deferred
  /\ owed' = IF crossing /\ queued THEN owed \cup {p}
             ELSE IF Inside(t, host.position) THEN owed \ {p}
             ELSE owed
  /\ seen' = IF FastPolling THEN seen \cup {p} ELSE seen
  /\ UNCHANGED <<host, notices>>

------------------------------------------------------------------------------
(* execute_transport_seek, on its own main-loop turn *)

ExecutableUnvalidated(d) ==   \* mutant
  /\ panel[d.panel].status = "open"
  /\ owner = d.panel
  /\ panel[d.panel].enabled

ExecutableByNextId(d) ==   \* mutant
  /\ ExecutableUnvalidated(d)
  /\ d.request.request_id = panel[d.panel].transport.next_request_id

Executable(d) ==
  /\ panel[d.panel].status = "open"
  /\ owner = d.panel
  /\ panel[d.panel].enabled
  /\ IsPending(panel[d.panel].transport, d.request)

DropSeek(d) ==
  /\ ~Executable(d)
  /\ UNCHANGED <<host, panel, owner, owed>>

ForceOffInsteadOfSeek(d) ==
  /\ Executable(d)
  /\ \E reason \in {"stopped", "track_changed", "unseekable"} :
       /\ CASE reason = "stopped"       -> ~host.playing
            [] reason = "track_changed" -> host.playing /\ host.track # panel[d.panel].track
            [] reason = "unseekable"    -> /\ host.playing /\ host.track = panel[d.panel].track
                                           /\ ~host.paused
                                           \* or playback_seek throws
       /\ panel' = [panel EXCEPT ![d.panel] = ForcedOff(@, reason)]
  /\ owner' = None
  /\ owed' = owed \ {d.panel}
  /\ UNCHANGED host

RearmInsteadOfSeek(d) ==
  /\ Executable(d)
  /\ host.playing /\ host.track = panel[d.panel].track
  /\ host.paused
  /\ panel' = [panel EXCEPT ![d.panel].transport =
                 SetPaused(UpdateMarkers(@, panel[d.panel].region, transport_position), TRUE)]
  /\ UNCHANGED <<host, owner, owed>>

SeekEvenPaused(d) ==   \* mutant
  /\ Executable(d)
  /\ host.playing /\ host.track = panel[d.panel].track
  /\ source_can_seek
  /\ host' = [host EXCEPT !.seeking = d.request.target_seconds]
  /\ UNCHANGED <<panel, owner, owed>>

Seek(d) ==
  /\ Executable(d)
  /\ host.playing /\ host.track = panel[d.panel].track
  /\ ~host.paused
  /\ source_can_seek
  /\ host' = [host EXCEPT !.seeking = d.request.target_seconds]
  /\ UNCHANGED <<panel, owner, owed>>

ExecuteTransportSeek(d) ==
  /\ d \in deferred
  /\ deferred' = deferred \ {d}
  /\ DropSeek(d) \/ ForceOffInsteadOfSeek(d) \/ RearmInsteadOfSeek(d) \/ Seek(d)
  /\ UNCHANGED <<notices, seen>>

------------------------------------------------------------------------------
(* Playback callbacks, made to every live panel *)

(* The editors of all live panels are replaced: each loop is off after it. *)
ReplaceEditors(replaced) ==
  /\ panel' = [p \in Panels |-> IF Alive(p) THEN replaced[p] ELSE panel[p]]
  /\ owner' = OwnerWithout({p \in Panels : Alive(p)})
  /\ owed' = {p \in owed : ~Alive(p)}

OnPlaybackStarting(n) ==
  /\ n.kind = "starting"
  /\ LET state == IF n.paused THEN "paused" ELSE "playing" IN
     ReplaceEditors([p \in Panels |->
       clear_editor([panel[p] EXCEPT !.playback_state = state], "track_changed")])

(* on_playback_new_track and on_playback_edited *)
OnPlaybackNewTrack(n) ==
  /\ n.kind \in {"new_track", "edited"}
  /\ \E region \in Regions :
       ReplaceEditors([p \in Panels |->
         load_editor_for_track(refresh_playback_snapshot(panel[p]), n.track, region)])

OnPlaybackStop(n) ==
  /\ n.kind = "stop"
  /\ ReplaceEditors([p \in Panels |->
       clear_editor([panel[p] EXCEPT !.playback_state = "stopped"], "stopped")])

OnPlaybackPause(n) ==
  /\ n.kind = "pause"
  /\ panel' = [p \in Panels |->
                 IF Alive(p)
                 THEN refresh_playback_snapshot(
                        [panel[p] EXCEPT !.transport = SetPaused(@, n.paused)])
                 ELSE panel[p]]
  /\ UNCHANGED <<owner, owed>>

OnPlaybackDynamicInfoTrack(n) ==
  /\ n.kind = "dynamic_info"
  /\ panel' = [p \in Panels |-> IF Alive(p) THEN refresh_playback_snapshot(panel[p])
                                 ELSE panel[p]]
  /\ UNCHANGED <<owner, owed>>

observe_transport_seek(q, time) ==
  IF q.enabled
  THEN [q EXCEPT !.transport = ObserveSeek(@, time, q.transport.generation)]
  ELSE q

OnPlaybackSeek(n) ==
  /\ n.kind = "seek"
  /\ panel' = [p \in Panels |-> IF Alive(p) THEN observe_transport_seek(panel[p], n.time)
                                 ELSE panel[p]]
  /\ owed' = {p \in owed : Alive(p) /\ panel[p].enabled => Returning(panel'[p].transport)}
  /\ UNCHANGED owner

DeliverNotice ==
  /\ notices # <<>>
  /\ LET n == Head(notices) IN
     \/ OnPlaybackStarting(n)
     \/ OnPlaybackNewTrack(n)
     \/ OnPlaybackStop(n)
     \/ OnPlaybackPause(n)
     \/ OnPlaybackDynamicInfoTrack(n)
     \/ OnPlaybackSeek(n)
  /\ notices' = Tail(notices)
  /\ UNCHANGED <<host, deferred, seen>>

------------------------------------------------------------------------------
(* The host *)

HostChanges(h, n) ==
  /\ host.events < MaxEvents
  /\ Len(notices) < MaxNotices
  /\ host' = [h EXCEPT !.events = @ + 1]
  /\ notices' = Append(notices, n)
  /\ seen' = {}
  /\ UNCHANGED <<panel, owner, deferred, owed>>

(* Playback starts without a track, and opens one. *)
StartPlayback(paused) ==
  /\ ~host.playing
  /\ HostChanges([host EXCEPT !.playing = TRUE, !.paused = paused, !.position = 0],
                 [kind |-> "starting", paused |-> paused])

PlayTrack(track) ==
  /\ host.playing
  /\ HostChanges([host EXCEPT !.track = track, !.position = 0, !.seeking = None],
                 [kind |-> "new_track", track |-> track])

EditTrack ==
  /\ host.track # None
  /\ HostChanges(host, [kind |-> "edited", track |-> host.track])

UpdateInfo ==
  /\ host.track # None
  /\ HostChanges(host, [kind |-> "dynamic_info"])

StopPlayback ==
  /\ host.playing
  /\ HostChanges([host EXCEPT !.playing = FALSE, !.paused = FALSE, !.track = None,
                              !.position = 0, !.seeking = None],
                 [kind |-> "stop"])

TogglePause ==
  /\ host.track # None
  /\ HostChanges([host EXCEPT !.paused = ~@], [kind |-> "pause", paused |-> ~host.paused])

(* Playback advances by one unit. *)
Advance ==
  /\ host.track # None /\ ~host.paused
  /\ host.position < MaxPosition
  /\ LateNotices \/ (notices = <<>> /\ host.seeking = None)
  /\ FastPolling => {p \in Panels : Observable(p)} \subseteq seen
  /\ host' = [host EXCEPT !.position = @ + 1]
  /\ seen' = {}
  /\ UNCHANGED <<notices, panel, owner, deferred, owed>>

(* The position jumps first; the callback comes later, or not at all. *)
PerformSeek ==
  /\ host.seeking # None
  /\ host' = [host EXCEPT !.position = host.seeking, !.seeking = None]
  /\ seen' = {}
  /\ \/ /\ Len(notices) < MaxNotices
        /\ notices' = Append(notices, [kind |-> "seek", time |-> host.seeking])
     \/ LossyNotices /\ UNCHANGED notices
  /\ UNCHANGED <<panel, owner, deferred, owed>>

------------------------------------------------------------------------------
Next ==
  \/ \E p \in Panels :
       \/ \E requested \in BOOLEAN : TurnLoopOff(p, requested)
       \/ TurnLoopOn(p)
       \/ \E region \in Regions : SetMarkers(p, region)
       \/ \E region \in Regions : CreatePanel(p, region)
       \/ CloseWindow(p)
       \/ DestroyPanel(p)
       \/ \E queued \in BOOLEAN : ObservePlayback(p, queued)
  \/ \E d \in deferred : ExecuteTransportSeek(d)
  \/ DeliverNotice
  \/ \E position \in 0 .. MaxPosition : UserSeek(position)
  \/ \E paused \in BOOLEAN : StartPlayback(paused)
  \/ \E track \in Tracks : PlayTrack(track)
  \/ EditTrack
  \/ UpdateInfo
  \/ StopPlayback
  \/ TogglePause
  \/ Advance
  \/ PerformSeek

Spec == Init /\ [][Next]_vars

(* foobar2000 runs its main loop, its timers and its seeks. *)
Fairness ==
  /\ WF_vars(DeliverNotice)
  /\ WF_vars(PerformSeek)
  /\ WF_vars(Advance)
  /\ \A p \in Panels : WF_vars(ObservePlayback(p, TRUE))
  /\ WF_vars(\E d \in deferred : ExecuteTransportSeek(d))

FairSpec == Spec /\ Fairness

------------------------------------------------------------------------------
(* Types of the panels, the host and the queues. *)
TypeOK ==
  /\ host \in Host
  /\ \A i \in DOMAIN notices : notices[i] \in Notice
  /\ panel \in [Panels -> [status : {"absent", "open", "closed", "destroyed"},
                           enabled : BOOLEAN, region : Regions, track : Tracks \cup {None},
                           playback_state : {"stopped", "paused", "playing"},
                           transport : TransportRecord]]
  /\ owner \in Panels \cup {None}
  /\ deferred \subseteq [panel : Panels, request : LoopSeekRequest]
  /\ seen \subseteq Panels /\ owed \subseteq Panels

(* Arming one panel disarms the previous owner: the loops that are on are  *)
(* exactly the owner's, through every start, stop, marker change, callback *)
(* and teardown, and active_loop_panel_ never outlives its panel.          *)
OneLoop ==
  /\ \A p \in Panels : Alive(p) /\ panel[p].enabled <=> owner = p
  /\ owner # None => panel[owner].track # None

(* The checkbox, the engine and the transport agree: a transport that went *)
(* off by itself, or kept the markers of before an edit, would jump to a   *)
(* place the panel does not show.                                          *)
EngineMatchesTransport ==
  \A p \in Panels : Alive(p) =>
    /\ panel[p].enabled <=> panel[p].transport.enabled
    /\ panel[p].enabled => panel[p].transport.region = panel[p].region

(* A pause is known to an enabled transport as soon as its callback is     *)
(* through: enabling and marker changes in between do not lose it.         *)
PauseKnown ==
  \A p \in Panels :
    /\ Alive(p) /\ panel[p].enabled
    /\ \A i \in DOMAIN notices : notices[i].kind \in {"seek", "edited", "dynamic_info"}
    => panel[p].transport.paused = host.paused

(* What a panel shows, its engine and its transport never part company.    *)
PanelsCoherent == TypeOK /\ EngineMatchesTransport /\ PauseKnown

(* Copies of requests pile up in the main-thread queue (crossing, manual   *)
(* seek, crossing again); when they run, in any order, at most one of a    *)
(* panel's passes the revalidation, so the host gets no duplicate seek.    *)
IntentsQueuedOnce ==
  \A p \in Panels : Cardinality({d \in deferred : d.panel = p /\ Executable(d)}) <= 1

(* An intent that is pending is carried by someone: its deferred handler   *)
(* has yet to run and will accept it, or the host was asked to seek, or a  *)
(* callback that settles it is on its way.                                 *)
IntentCarried ==
  \A p \in Panels :
    /\ panel[p].status = "open"
    /\ panel[p].transport.state = "automatic_seek_pending"
    => \/ \E d \in deferred : d.panel = p /\ Executable(d)
       \/ host.seeking # None
       \/ notices # <<>>
       \/ LossyNotices

(* The handler seeks only for the one enabled loop, on the track its       *)
(* markers belong to, while playback runs, and to the IN that loop has     *)
(* now: nothing of an older track, region or request gets through.         *)
SeeksAreCurrent ==
  [][\A d \in deferred \ deferred' : host' # host =>
       /\ owner = d.panel
       /\ host.playing /\ ~host.paused
       /\ host.track = panel[d.panel].track
       /\ host'.seeking = panel[d.panel].region.in_seconds
       /\ d.request.crossing_position_seconds >= panel[d.panel].region.out_seconds]_vars

(* Once a jump back is asked for, it stays under way until playback is     *)
(* seen inside the loop again, the user seeks or edits the markers, or the *)
(* loop goes off: "each normal forward OUT crossing returns once to IN"    *)
(* (docs/BUILD_WINDOWS.md), also when playback is paused and resumed.      *)
CrossingNotForgotten == \A p \in owed : Alive(p) => Returning(panel[p].transport)

(* No frozen transport (docs/BUILD_WINDOWS.md): a jump under way ends, with *)
(* playback seen inside the loop, or because the user or the host ended it, *)
(* unless playback stays paused or the window is closed meanwhile.          *)
JumpEnds ==
  \A p \in Panels :
    Returning(panel[p].transport)
      ~> (~Returning(panel[p].transport) \/ host.paused \/ panel[p].status # "open")
==============================================================================
