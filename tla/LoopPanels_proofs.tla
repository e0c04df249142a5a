--------------------------- MODULE LoopPanels_proofs ---------------------------
(***************************************************************************)
(* For any number of panels, tracks, regions, callbacks and requests:      *)
(* panels, engines and transports stay coherent, one loop is on at most,   *)
(* a request is executed at most once and only while it is current, and a  *)
(* pending one is carried by somebody.                                     *)
(*                                                                         *)
(* First what each function of a panel makes of its transport; then what   *)
(* a step can do to a panel (the six effects); then that every action has  *)
(* one of them on every panel, and what follows for each part of IInv.     *)
(***************************************************************************)
EXTENDS LoopPanels, FiniteSetTheorems, TLAPS

PanelRecord ==
  [status : {"absent", "open", "closed", "destroyed"},
   enabled : BOOLEAN, region : Regions, track : Tracks \cup {None},
   playback_state : {"stopped", "paused", "playing"},
   transport : TransportRecord]

(* A transport alone: it is on in every state but disabled, and has an     *)
(* intent while a jump is under way, aimed at the IN of its region and     *)
(* asked for at or beyond OUT, within the track.                           *)
IntentSound(t) ==
  /\ t.enabled <=> t.state # "disabled"
  /\ t.pending_request # None <=> Returning(t)
  /\ t.pending_request # None =>
       /\ t.pending_request.request_id < t.next_request_id
       /\ t.pending_request.target_seconds = t.region.in_seconds
       /\ t.pending_request.crossing_position_seconds >= t.region.out_seconds
       /\ t.pending_request.crossing_position_seconds <= MaxPosition

IntentsSound == \A p \in Panels : IntentSound(panel[p].transport)

(* Copies of requests have numbers the transport has used, each its own;   *)
(* the one with the number of the intent is the intent.                    *)
CopiesDistinct ==
  /\ \A d \in deferred : d.request.request_id < panel[d.panel].transport.next_request_id
  /\ \A d, e \in deferred :
       d.panel = e.panel /\ d.request.request_id = e.request.request_id => d = e
  /\ \A d \in deferred :
       LET intent == panel[d.panel].transport.pending_request IN
       intent # None /\ intent.request_id = d.request.request_id => intent = d.request

(* A panel that is not there yet is as it will begin. *)
AbsentIsNew == \A p \in Panels : panel[p].status = "absent" => panel[p] = NewPanel

(* Callbacks that leave enabled transports, or their pause flag, alone. *)
Harmless == {"seek", "edited", "dynamic_info"}

(* The last pause callback still to come tells what playback_control       *)
(* reports, unless playback starts, stops or changes track after it.       *)
PausesTold ==
  \A i \in 1 .. Len(notices) :
    /\ notices[i].kind = "pause"
    /\ \A j \in i + 1 .. Len(notices) : notices[j].kind \in Harmless
    => notices[i].paused = host.paused

(* A callback that ends every jump under way. *)
SettlingComes ==
  \E i \in 1 .. Len(notices) : notices[i].kind \in {"seek", "starting", "new_track", "edited", "stop"}

CarriedOrSettled ==
  \A p \in Panels :
    /\ panel[p].status = "open"
    /\ panel[p].transport.state = "automatic_seek_pending"
    => \/ \E d \in deferred : d.panel = p /\ Executable(d)
       \/ host.seeking # None
       \/ SettlingComes
       \/ LossyNotices

IInv == /\ TypeOK /\ notices \in Seq(Notice)
        /\ OneLoop
        /\ EngineMatchesTransport
        /\ PauseKnown
        /\ IntentsSound
        /\ CopiesDistinct
        /\ AbsentIsNew
        /\ PausesTold
        /\ CarriedOrSettled

------------------------------------------------------------------------------
(* What the calls of a panel make of its transport *)

(* Off, with the numbers of requests going on. *)
Off(t, u) ==
  /\ u \in TransportRecord
  /\ u.state = "disabled" /\ u.enabled = FALSE
  /\ u.pending_request = None
  /\ u.next_request_id >= t.next_request_id

(* Armed afresh in a region, with no jump under way. *)
ArmedIn(t, u, region) ==
  /\ u \in TransportRecord
  /\ u.state = "armed" /\ u.enabled = TRUE
  /\ u.region = region
  /\ u.pending_request = None
  /\ u.next_request_id = t.next_request_id

(* Still in the same phase with the same intent. *)
Still(t, u) ==
  /\ u \in TransportRecord
  /\ u.state = t.state /\ u.enabled = t.enabled
  /\ u.region = t.region
  /\ u.pending_request = t.pending_request
  /\ u.next_request_id = t.next_request_id

(* The jump is over, or the host has confirmed it; its request is no       *)
(* longer executable.                                                      *)
Answered(t, u) ==
  /\ u \in TransportRecord
  /\ \/ u.state = "waiting_for_loop_in" /\ u.pending_request = t.pending_request /\ Returning(t)
     \/ u.state \in {"armed", "manually_disarmed"} /\ u.pending_request = None
  /\ u.enabled = t.enabled
  /\ u.region = t.region
  /\ u.next_request_id = t.next_request_id

(* A crossing became the intent. *)
Asked(t, u, request) ==
  /\ u \in TransportRecord
  /\ request \in LoopSeekRequest
  /\ u.state = "automatic_seek_pending" /\ u.enabled = t.enabled
  /\ u.region = t.region
  /\ u.pending_request = request
  /\ request.request_id = t.next_request_id
  /\ u.next_request_id = t.next_request_id + 1
  /\ request.target_seconds = t.region.in_seconds
  /\ request.crossing_position_seconds >= t.region.out_seconds
  /\ request.crossing_position_seconds <= MaxPosition

LEMMA ResetIsOff ==
  ASSUME NEW t \in TransportRecord, NEW reason \in LoopTransportResetReason
  PROVE  Off(t, Reset(t, reason))
<1>1. t.generation + 1 \in Nat /\ t.next_request_id >= t.next_request_id
  BY DEF TransportRecord
<1> QED
  BY <1>1 DEF TransportRecord, Reset, Unpaused, Disable, Forget, NextGeneration,
     LoopTransportState, Off

LEMMA PausedIsStill ==
  ASSUME NEW t \in TransportRecord, NEW paused \in BOOLEAN
  PROVE  Still(t, SetPaused(t, paused)) /\ SetPaused(t, paused).paused = paused
BY DEF TransportRecord, SetPaused, Still

LEMMA ArmFromArms ==
  ASSUME NEW t \in TransportRecord, NEW region \in LoopRegion,
         NEW position \in Position \cup {None}
  PROVE  ArmedIn(t, ArmFrom(t, region, position), region)
<1>1. t.generation + 1 \in Nat
  BY DEF TransportRecord
<1>2. Baseline(region, position) \in Int \cup {None}
  BY NoneAssumption DEF Baseline, Position
<1> QED
  BY <1>1, <1>2 DEF TransportRecord, ArmFrom, Forget, NextGeneration, LoopTransportState,
     LoopTransportResetReason, ArmedIn

(* enable on a source that can seek, then set_paused *)
LEMMA EnableArms ==
  ASSUME NEW t \in TransportRecord, NEW region \in LoopRegion, ValidRegion(region),
         NEW position \in Position \cup {None}, NEW paused \in BOOLEAN
  PROVE  LET u == SetPaused(Enable(t, region, TRUE, position), paused) IN
         ArmedIn(t, u, region) /\ u.paused = paused
<1>1. Unpaused(t) \in TransportRecord /\ Unpaused(t).next_request_id = t.next_request_id
  BY DEF TransportRecord, Unpaused
<1>2. Enable(t, region, TRUE, position) = ArmFrom(Unpaused(t), region, position)
  BY DEF Enable
<1>3. ArmedIn(Unpaused(t), Enable(t, region, TRUE, position), region)
  BY <1>1, <1>2, ArmFromArms
<1> QED
  BY <1>1, <1>3, PausedIsStill DEF ArmedIn, Still

(* update_markers of an enabled transport, then set_paused *)
LEMMA UpdateArms ==
  ASSUME NEW t \in TransportRecord, t.enabled, NEW region \in LoopRegion, ValidRegion(region),
         NEW position \in Position \cup {None}, NEW paused \in BOOLEAN
  PROVE  LET u == SetPaused(UpdateMarkers(t, region, position), paused) IN
         ArmedIn(t, u, region) /\ u.paused = paused
<1>1. UpdateMarkers(t, region, position) = ArmFrom(t, region, position)
  BY DEF UpdateMarkers
<1>2. ArmedIn(t, UpdateMarkers(t, region, position), region)
  BY <1>1, ArmFromArms
<1> QED
  BY <1>2, PausedIsStill DEF ArmedIn, Still

(* observe_position, in each of its branches *)
LEMMA PositionObserved ==
  ASSUME NEW t \in TransportRecord, IntentSound(t), t.enabled, ValidRegion(t.region),
         NEW position \in 0 .. MaxPosition
  PROVE  LET u == ObservePosition(t, position, t.generation) IN
         /\ u.paused = t.paused
         /\ Issues(t, position, t.generation) => Asked(t, u, NewRequest(t, position))
         /\ ~ Issues(t, position, t.generation) => Still(t, u) \/ Answered(t, u)
<1> DEFINE u == ObservePosition(t, position, t.generation)
           request == NewRequest(t, position)
<1>1. position \in Int /\ position # NonFinite /\ position <= MaxPosition
  BY NoneAssumption, PanelsAssumption
<1>2. CASE Issues(t, position, t.generation)
  <2>1. Crosses(t, position) /\ HearsPosition(t, position, t.generation)
    BY <1>2 DEF Issues
  <2>2. u = Issue(t, position)
    BY <2>1 DEF ObservePosition, Crosses, Returning
  <2>3. request \in LoopSeekRequest
    BY <1>1 DEF TransportRecord, NewRequest, LoopSeekRequest, LoopRegion
  <2>4. t.next_request_id + 1 \in Nat
    BY DEF TransportRecord
  <2>5. /\ request.request_id = t.next_request_id
        /\ request.target_seconds = t.region.in_seconds
        /\ request.crossing_position_seconds = position
    BY DEF NewRequest
  <2> DEFINE diagnostics == [request_id |-> t.next_request_id,
                             crossing_position_seconds |-> position,
                             return_position_seconds |-> None]
             next == t.next_request_id + 1
  <2>6. diagnostics \in LoopTimingDiagnostics
    BY <1>1 DEF TransportRecord, LoopTimingDiagnostics
  <2>7. u = [t EXCEPT !.state = "automatic_seek_pending", !.previous_position = None,
                      !.pending_request = request, !.next_request_id = next,
                      !.diagnostics = diagnostics]
    BY <2>2 DEF Issue
  <2> HIDE DEF request, diagnostics, next, u
  <2>8. /\ u \in TransportRecord /\ u.paused = t.paused
        /\ u.state = "automatic_seek_pending" /\ u.enabled = t.enabled
        /\ u.region = t.region
        /\ u.pending_request = request
        /\ u.next_request_id = next
    BY <2>3, <2>4, <2>6, <2>7 DEF TransportRecord, LoopTransportState, next
  <2>9. request.crossing_position_seconds >= t.region.out_seconds
    BY <2>1, <2>5 DEF Crosses
  <2>10. Asked(t, u, request)
    BY <1>1, <2>3, <2>5, <2>8, <2>9 DEF Asked, next
  <2> QED
    BY <1>2, <2>8, <2>10 DEF request, u
<1>3. CASE ~ Issues(t, position, t.generation)
  <2>1. \/ u = t
        \/ Returning(t) /\ u = Return(t, position)
        \/ t.state = "manually_disarmed" /\ u = Rearm(t, position)
        \/ t.state = "armed" /\ u = [t EXCEPT !.previous_position = position]
    BY <1>3 DEF ObservePosition, Issues
  <2>2. CASE Returning(t) /\ u = Return(t, position)
    <3>1. t.diagnostics # None =>
            [t.diagnostics EXCEPT !.return_position_seconds = position] \in LoopTimingDiagnostics
      BY <1>1 DEF TransportRecord, LoopTimingDiagnostics
    <3> QED
      BY <1>1, <1>3, <2>2, <3>1 DEF TransportRecord, Return, Rearm, LoopTransportState, Answered
  <2>3. CASE t.state = "manually_disarmed" /\ u = Rearm(t, position)
    <3>1. t.pending_request = None
      BY <2>3 DEF IntentSound, Returning
    <3> QED
      BY <1>1, <1>3, <2>3, <3>1 DEF TransportRecord, Rearm, LoopTransportState, Answered
  <2>4. CASE t.state = "armed" /\ u = [t EXCEPT !.previous_position = position]
    BY <1>1, <1>3, <2>4 DEF TransportRecord, Still
  <2>5. CASE u = t
    BY <1>3, <2>5 DEF Still
  <2> QED
    BY <2>1, <2>2, <2>3, <2>4, <2>5
<1> QED
  BY <1>2, <1>3

(* observe_seek, automatic or manual *)
LEMMA SeekObserved ==
  ASSUME NEW t \in TransportRecord, t.enabled, NEW position \in 0 .. MaxPosition
  PROVE  LET u == ObserveSeek(t, position, t.generation) IN
         Answered(t, u) /\ u.paused = t.paused
<1> DEFINE u == ObserveSeek(t, position, t.generation)
<1>1. position \in Int /\ position # NonFinite
  BY NoneAssumption
<1>2. \/ /\ Returning(t)
         /\ u = [t EXCEPT !.state = "waiting_for_loop_in", !.previous_position = None]
      \/ u = [Rearm(t, position) EXCEPT !.pending_request = None]
      \/ u = [Forget(t) EXCEPT !.state = "manually_disarmed"]
  BY <1>1 DEF ObserveSeek, HearsSeek, IsAutomaticSeek
<1> QED
  BY <1>1, <1>2 DEF TransportRecord, Rearm, Forget, LoopTransportState, Answered

------------------------------------------------------------------------------
(* What a step makes of a panel *)

Live(q) == q.status \in {"open", "closed"}

(* What IInv says of one panel. *)
Sound(q) ==
  /\ q \in PanelRecord
  /\ IntentSound(q.transport)
  /\ q.status = "absent" => q = NewPanel
  /\ Live(q) =>
       /\ q.enabled <=> q.transport.enabled
       /\ q.enabled => q.transport.region = q.region

(* The loop stays as it is; the window may close, and a loop that is off   *)
(* may get other markers.                                                  *)
Kept(q, u) ==
  /\ u \in PanelRecord
  /\ u.status = q.status \/ (q.status = "open" /\ u.status = "closed")
  /\ q.status = "absent" => u = q
  /\ u.enabled = q.enabled /\ u.track = q.track
  /\ q.enabled => u.region = q.region
  /\ Still(q.transport, u.transport)

(* The loop is off, in a panel that is there or is just created. *)
TurnedOff(q, u) ==
  /\ u \in PanelRecord
  /\ Live(u) /\ (u.status = q.status \/ q.status = "absent")
  /\ u.enabled = FALSE
  /\ Off(q.transport, u.transport)

Gone(q, u) ==
  /\ u \in PanelRecord
  /\ u.status = "destroyed"
  /\ Off(q.transport, u.transport)

(* The loop is on, from here on in the region the panel has now. *)
Restarted(q, u) ==
  /\ u \in PanelRecord
  /\ Live(q) /\ u.status = q.status
  /\ u.enabled = TRUE
  /\ u.track = q.track
  /\ ArmedIn(q.transport, u.transport, u.region)

(* A jump is answered, or the user has sought. *)
Replied(q, u) ==
  /\ u \in PanelRecord
  /\ Live(q) /\ u.status = q.status
  /\ u.enabled = q.enabled /\ u.region = q.region /\ u.track = q.track
  /\ q.enabled /\ Answered(q.transport, u.transport)

(* A crossing asks for a jump back. *)
Crossed(q, u, request) ==
  /\ u \in PanelRecord
  /\ Live(q) /\ u.status = q.status
  /\ u.enabled = q.enabled /\ u.region = q.region /\ u.track = q.track
  /\ q.enabled /\ Asked(q.transport, u.transport, request)

Effect(q, u) ==
  Kept(q, u) \/ TurnedOff(q, u) \/ Gone(q, u) \/ Restarted(q, u) \/ Replied(q, u)

(* None of the effects takes a panel out of shape, asks for a jump or      *)
(* takes a number back.                                                    *)
LEMMA EffectSound ==
  ASSUME NEW q, Sound(q), NEW u, Effect(q, u)
  PROVE  /\ Sound(u)
         /\ u.transport.next_request_id >= q.transport.next_request_id
         /\ u.transport.pending_request \in {None, q.transport.pending_request}
<1>1. q \in PanelRecord /\ q.transport \in TransportRecord /\ q.transport.next_request_id \in Nat
  BY DEF Sound, PanelRecord, TransportRecord
<1>2. CASE Kept(q, u)
  BY <1>1, <1>2 DEF Kept, Still, Sound, IntentSound, Returning, Live
<1>3. CASE TurnedOff(q, u) \/ Gone(q, u)
  <2>1. Off(q.transport, u.transport) /\ u \in PanelRecord /\ u.status # "absent"
    BY <1>3 DEF TurnedOff, Gone, Live
  <2>2. IntentSound(u.transport)
    BY <2>1 DEF Off, IntentSound, Returning
  <2>3. Live(u) => u.enabled = FALSE
    BY <1>3 DEF TurnedOff, Gone, Live
  <2> QED
    BY <2>1, <2>2, <2>3 DEF Off, Sound
<1>4. CASE Restarted(q, u)
  BY <1>1, <1>4 DEF Restarted, ArmedIn, Sound, IntentSound, Returning, Live
<1>5. CASE Replied(q, u)
  BY <1>1, <1>5 DEF Replied, Answered, Sound, IntentSound, Returning, Live
<1> QED
  BY <1>2, <1>3, <1>4, <1>5 DEF Effect

LEMMA CrossingSound ==
  ASSUME NEW q, Sound(q), NEW u, NEW request, Crossed(q, u, request)
  PROVE  /\ Sound(u)
         /\ u.transport.pending_request = request /\ request \in LoopSeekRequest
         /\ request.request_id = q.transport.next_request_id
         /\ u.transport.next_request_id = q.transport.next_request_id + 1
<1>1. q.transport \in TransportRecord /\ q.transport.next_request_id \in Nat
  BY DEF Sound, PanelRecord, TransportRecord
<1>2. request # None
  BY NoRecordIsNone DEF Crossed, Asked
<1> QED
  BY <1>1, <1>2 DEF Crossed, Asked, Sound, IntentSound, Returning, Live

(* In IInv every panel is sound. *)
LEMMA PanelsSound ==
  ASSUME IInv, NEW p \in Panels
  PROVE  Sound(panel[p]) /\ (Alive(p) <=> Live(panel[p]))
<1>1. panel \in [Panels -> PanelRecord]
  BY DEF IInv, TypeOK, PanelRecord
<1>2. panel[p] \in PanelRecord
  BY <1>1
<1> QED
  BY <1>2 DEF IInv, IntentsSound, AbsentIsNew, EngineMatchesTransport, Sound, Live, Alive

------------------------------------------------------------------------------
(* What the functions of a panel do *)

LEMMA ForcingOff ==
  ASSUME NEW q \in PanelRecord, Live(q), NEW reason \in LoopTransportResetReason
  PROVE  /\ TurnedOff(q, ForcedOff(q, reason))
         /\ ForcedOff(q, reason).status = q.status
<1>1. Off(q.transport, Reset(q.transport, reason))
  BY ResetIsOff DEF PanelRecord
<1> HIDE DEF Reset
<1>2. Reset(q.transport, reason) \in TransportRecord
  BY <1>1 DEF Off
<1> QED
  BY <1>1, <1>2 DEF PanelRecord, ForcedOff, TurnedOff, Live

LEMMA Loading ==
  ASSUME NEW q \in PanelRecord, Live(q), NEW track \in Tracks, NEW region \in Regions
  PROVE  TurnedOff(q, load_editor_for_track(q, track, region))
<1>1. Off(q.transport, Reset(q.transport, "track_changed"))
  BY ResetIsOff DEF PanelRecord, LoopTransportResetReason
<1>2. Reset(q.transport, "track_changed") \in TransportRecord
  BY <1>1 DEF Off
<1> QED
  BY <1>1, <1>2 DEF PanelRecord, load_editor_for_track, TurnedOff, Live

LEMMA Clearing ==
  ASSUME NEW q \in PanelRecord, Live(q), NEW reason \in LoopTransportResetReason
  PROVE  TurnedOff(q, clear_editor(q, reason))
<1>1. Off(q.transport, Reset(q.transport, reason))
  BY ResetIsOff DEF PanelRecord
<1>2. Reset(q.transport, reason) \in TransportRecord
  BY <1>1 DEF Off
<1> QED
  BY <1>1, <1>2, PanelsAssumption DEF PanelRecord, clear_editor, TurnedOff, Live

LEMMA Refreshing ==
  ASSUME NEW q \in PanelRecord
  PROVE  LET u == refresh_playback_snapshot(q) IN
         /\ u \in PanelRecord
         /\ u.status = q.status /\ u.enabled = q.enabled /\ u.region = q.region
         /\ u.track = q.track /\ u.transport = q.transport
BY DEF PanelRecord, refresh_playback_snapshot, PlaybackState

(* A panel with another playback state is the same panel to its loop. *)
LEMMA Restating ==
  ASSUME NEW q \in PanelRecord, NEW state \in {"stopped", "paused", "playing"}
  PROVE  LET u == [q EXCEPT !.playback_state = state] IN
         /\ u \in PanelRecord
         /\ u.status = q.status /\ u.enabled = q.enabled /\ u.region = q.region
         /\ u.track = q.track /\ u.transport = q.transport
BY DEF PanelRecord

------------------------------------------------------------------------------
(* What follows from the effects, part by part of IInv *)

(* The panels, and the copies of their requests. *)
Shape ==
  /\ TypeOK /\ notices \in Seq(Notice)
  /\ EngineMatchesTransport
  /\ IntentsSound
  /\ CopiesDistinct
  /\ AbsentIsNew

LEMMA CopyTyped ==
  ASSUME TypeOK, NEW d \in deferred
  PROVE  /\ d.panel \in Panels
         /\ d.request \in LoopSeekRequest
         /\ d.request.request_id \in Nat
         /\ d = [panel |-> d.panel, request |-> d.request]
BY DEF TypeOK, LoopSeekRequest

(* An effect on each panel keeps all of them in shape. *)
LEMMA ShapeKept ==
  ASSUME IInv,
         panel' \in [Panels -> PanelRecord],
         \A p \in Panels : Effect(panel[p], panel'[p]),
         host' \in Host, notices' \in Seq(Notice), owner' \in Panels \cup {None},
         deferred' \subseteq deferred, seen' \subseteq Panels, owed' \subseteq Panels
  PROVE  Shape'
<1>1. ASSUME NEW p \in Panels
      PROVE  /\ Sound(panel'[p])
             /\ panel[p].transport.next_request_id \in Nat
             /\ panel'[p].transport.next_request_id \in Nat
             /\ panel'[p].transport.next_request_id >= panel[p].transport.next_request_id
             /\ panel'[p].transport.pending_request
                  \in {None, panel[p].transport.pending_request}
  <2>1. Sound(panel[p]) /\ Effect(panel[p], panel'[p])
    BY PanelsSound
  <2>2. Sound(panel'[p])
    BY <2>1, EffectSound
  <2>3. /\ panel'[p].transport.next_request_id >= panel[p].transport.next_request_id
        /\ panel'[p].transport.pending_request
             \in {None, panel[p].transport.pending_request}
    BY <2>1, EffectSound
  <2> QED
    BY <2>1, <2>2, <2>3 DEF Sound, PanelRecord, TransportRecord
<1>2. EngineMatchesTransport' /\ IntentsSound' /\ AbsentIsNew'
  BY <1>1 DEF Sound, EngineMatchesTransport, IntentsSound, AbsentIsNew, Alive, Live
<1>3. TypeOK' /\ (notices \in Seq(Notice))'
  BY DEF IInv, TypeOK, PanelRecord
<1>4. CopiesDistinct'
  <2>1. ASSUME NEW d \in deferred'
        PROVE  /\ d.request.request_id < panel'[d.panel].transport.next_request_id
               /\ LET intent == panel'[d.panel].transport.pending_request IN
                  intent # None /\ intent.request_id = d.request.request_id
                    => intent = d.request
    <3>1. d \in deferred /\ d.panel \in Panels /\ d.request.request_id \in Nat
      BY CopyTyped DEF IInv
    <3>2. /\ d.request.request_id < panel[d.panel].transport.next_request_id
          /\ LET intent == panel[d.panel].transport.pending_request IN
             intent # None /\ intent.request_id = d.request.request_id => intent = d.request
      BY <3>1 DEF IInv, CopiesDistinct
    <3> QED
      BY <1>1, <3>1, <3>2
  <2>2. \A d, e \in deferred' :
          d.panel = e.panel /\ d.request.request_id = e.request.request_id => d = e
    BY DEF IInv, CopiesDistinct
  <2> QED
    BY <2>1, <2>2 DEF CopiesDistinct
<1> QED
  BY <1>2, <1>3, <1>4 DEF Shape

(* So does a crossing whose request is queued. *)
LEMMA ShapeCrossed ==
  ASSUME IInv, NEW p \in Panels, NEW u, NEW request,
         Crossed(panel[p], u, request),
         panel' = [panel EXCEPT ![p] = u],
         deferred' = queue_transport_seek(p, request),
         UNCHANGED <<host, notices, owner>>, seen' \subseteq Panels, owed' \subseteq Panels
  PROVE  Shape'
<1> DEFINE new == [panel |-> p, request |-> request]
<1>1. /\ Sound(u) /\ u \in PanelRecord
      /\ u.transport.pending_request = request /\ request \in LoopSeekRequest
      /\ request.request_id = panel[p].transport.next_request_id
      /\ u.transport.next_request_id = panel[p].transport.next_request_id + 1
      /\ panel[p].transport.next_request_id \in Nat
  <2>1. Sound(panel[p])
    BY PanelsSound
  <2>2. panel[p].transport.next_request_id \in Nat
    BY <2>1 DEF Sound, PanelRecord, TransportRecord
  <2>3. /\ Sound(u)
        /\ u.transport.pending_request = request /\ request \in LoopSeekRequest
        /\ request.request_id = panel[p].transport.next_request_id
        /\ u.transport.next_request_id = panel[p].transport.next_request_id + 1
    <3> HIDE DEF Crossed, Sound
    <3> QED
      BY <2>1, CrossingSound
  <2>4. u \in PanelRecord
    BY DEF Crossed
  <2> QED
    BY <2>2, <2>3, <2>4
<1>2. panel \in [Panels -> PanelRecord]
  BY DEF IInv, TypeOK, PanelRecord
<1>3. panel' \in [Panels -> PanelRecord] /\ panel'[p] = u
      /\ \A q \in Panels \ {p} : panel'[q] = panel[q]
  BY <1>1, <1>2
<1>4. \A q \in Panels : Sound(panel'[q])
  BY <1>1, <1>3, PanelsSound
<1>5. EngineMatchesTransport' /\ IntentsSound' /\ AbsentIsNew'
  BY <1>3, <1>4 DEF Sound, EngineMatchesTransport, IntentsSound, AbsentIsNew, Alive, Live
<1>6. deferred' = deferred \cup {new}
  BY DEF queue_transport_seek
<1>7. TypeOK' /\ (notices \in Seq(Notice))'
  BY <1>1, <1>3, <1>6 DEF IInv, TypeOK, PanelRecord
<1>8. CopiesDistinct'
  <2>1. ASSUME NEW d \in deferred
        PROVE  /\ d.request.request_id < panel'[d.panel].transport.next_request_id
               /\ LET intent == panel'[d.panel].transport.pending_request IN
                  intent # None /\ intent.request_id = d.request.request_id
                    => intent = d.request
               /\ d.panel = p => d.request.request_id # request.request_id
    <3>1. d.panel \in Panels /\ d.request.request_id \in Nat
      BY CopyTyped DEF IInv
    <3>2. /\ d.request.request_id < panel[d.panel].transport.next_request_id
          /\ LET intent == panel[d.panel].transport.pending_request IN
             intent # None /\ intent.request_id = d.request.request_id => intent = d.request
      BY <3>1 DEF IInv, CopiesDistinct
    <3>3. CASE d.panel = p
      BY <1>1, <1>3, <3>1, <3>2, <3>3
    <3>4. CASE d.panel # p
      BY <1>3, <3>1, <3>2, <3>4
    <3> QED
      BY <3>3, <3>4
  <2>2. /\ new.panel = p /\ new.request = request
        /\ new.request.request_id < panel'[p].transport.next_request_id
        /\ panel'[p].transport.pending_request = new.request
    BY <1>1, <1>3
  <2>3. \A d, e \in deferred :
          d.panel = e.panel /\ d.request.request_id = e.request.request_id => d = e
    BY DEF IInv, CopiesDistinct
  <2> HIDE DEF new
  <2>4. \A d \in deferred' : d.request.request_id < panel'[d.panel].transport.next_request_id
    BY <1>6, <2>1, <2>2
  <2>5. \A d, e \in deferred' :
          d.panel = e.panel /\ d.request.request_id = e.request.request_id => d = e
    BY <1>6, <2>1, <2>2, <2>3
  <2>6. \A d \in deferred' :
          LET intent == panel'[d.panel].transport.pending_request IN
          intent # None /\ intent.request_id = d.request.request_id => intent = d.request
    BY <1>6, <2>1, <2>2
  <2> QED
    BY <2>4, <2>5, <2>6 DEF CopiesDistinct
<1> QED
  BY <1>5, <1>7, <1>8 DEF Shape

(* The loops that are on stay on, with their owner. *)
LEMMA LoopKept ==
  ASSUME OneLoop, UNCHANGED owner, owner \in Panels \cup {None},
         \A p \in Panels :
           /\ Live(panel'[p]) /\ panel'[p].enabled <=> Live(panel[p]) /\ panel[p].enabled
           /\ Live(panel[p]) /\ panel[p].enabled => panel'[p].track = panel[p].track
  PROVE  OneLoop'
<1>1. \A p \in Panels : /\ Alive(p) <=> Live(panel[p])
                        /\ Alive(p)' <=> Live(panel'[p])
  BY DEF Alive, Live
<1>2. \A p \in Panels : Alive(p)' /\ panel'[p].enabled <=> owner' = p
  BY <1>1 DEF OneLoop
<1>3. owner # None => panel'[owner].track # None
  BY <1>1 DEF OneLoop
<1> QED
  BY <1>2, <1>3 DEF OneLoop

(* One loop goes off, and its panel gives up being the owner. *)
LEMMA LoopTurnedOff ==
  ASSUME OneLoop, owner \in Panels \cup {None}, NEW p \in Panels,
         owner' = OwnerWithout({p}),
         \A q \in Panels \ {p} : panel'[q] = panel[q],
         ~ (Live(panel'[p]) /\ panel'[p].enabled)
  PROVE  OneLoop'
<1>1. \A q \in Panels : /\ Alive(q) <=> Live(panel[q])
                        /\ Alive(q)' <=> Live(panel'[q])
  BY DEF Alive, Live
<1>2. owner' = IF owner = p THEN None ELSE owner
  BY DEF OwnerWithout
<1>3. p # None
  BY PanelsAssumption
<1>4. ASSUME NEW q \in Panels
      PROVE  Alive(q)' /\ panel'[q].enabled <=> owner' = q
  BY <1>1, <1>2, <1>3, PanelsAssumption DEF OneLoop
<1>5. owner' # None => panel'[owner'].track # None
  BY <1>1, <1>2 DEF OneLoop
<1> QED
  BY <1>4, <1>5 DEF OneLoop

(* The open panel with a jump asked for is the owner. *)
LEMMA PendingOwns ==
  ASSUME Shape, OneLoop, NEW p \in Panels,
         panel[p].status = "open", panel[p].transport.state = "automatic_seek_pending"
  PROVE  owner = p /\ panel[p].enabled
<1>1. panel[p].transport.enabled
  BY DEF Shape, IntentsSound, IntentSound
<1>2. Alive(p) /\ panel[p].enabled
  BY <1>1 DEF Shape, EngineMatchesTransport, Alive
<1> QED
  BY <1>2 DEF OneLoop

(* An intent that was pending before is still carried, when its copies     *)
(* stay or the host seeks, and what settles it is not lost.                *)
LEMMA CarriedKept ==
  ASSUME IInv, Shape', OneLoop',
         \A p \in Panels : Effect(panel[p], panel'[p]),
         \A p \in Panels :
           /\ panel'[p].status = "open"
           /\ panel'[p].transport.state = "automatic_seek_pending"
           => /\ \A d \in deferred :
                   d.panel = p /\ Executable(d) => d \in deferred' \/ host'.seeking # None
              /\ host.seeking # None => host'.seeking # None \/ SettlingComes' \/ LossyNotices
              /\ SettlingComes => SettlingComes'
  PROVE  CarriedOrSettled'
<1> SUFFICES ASSUME NEW p \in Panels,
                    panel'[p].status = "open",
                    panel'[p].transport.state = "automatic_seek_pending"
             PROVE  \/ \E d \in deferred' : d.panel = p /\ Executable(d)'
                    \/ host'.seeking # None
                    \/ SettlingComes'
                    \/ LossyNotices
  BY DEF CarriedOrSettled
<1>1. Kept(panel[p], panel'[p])
  <2>1. Effect(panel[p], panel'[p])
    OBVIOUS
  <2> QED
    BY <2>1 DEF Effect, TurnedOff, Gone, Restarted, Replied, Off, ArmedIn, Answered
<1>2. panel[p].status = "open" /\ panel[p].transport.state = "automatic_seek_pending"
  BY <1>1 DEF Kept, Still
<1>3. owner' = p /\ panel'[p].enabled
  <2>1. panel'[p].transport.enabled
    BY DEF Shape, IntentsSound, IntentSound
  <2>2. Alive(p)' /\ panel'[p].enabled
    BY <2>1 DEF Shape, EngineMatchesTransport, Alive
  <2> QED
    BY <2>2 DEF OneLoop
<1>4. ASSUME NEW d \in deferred, d.panel = p, Executable(d)
      PROVE  Executable(d)'
  <2>1. IsPending(panel[p].transport, d.request)
    BY <1>4 DEF Executable
  <2>2. IsPending(panel'[p].transport, d.request)
    BY <1>1, <2>1 DEF Kept, Still, IsPending
  <2> QED
    BY <1>3, <1>4, <2>2 DEF Executable
<1>5. CASE \E d \in deferred : d.panel = p /\ Executable(d)
  BY <1>4, <1>5
<1>6. CASE host.seeking # None \/ SettlingComes \/ LossyNotices
  BY <1>6
<1> QED
  BY <1>2, <1>5, <1>6 DEF IInv, CarriedOrSettled

(* A step on panels, with the callbacks and the pause as they are. *)
LEMMA PanelsStep ==
  ASSUME IInv,
         panel' \in [Panels -> PanelRecord],
         \A p \in Panels : Effect(panel[p], panel'[p]),
         host' \in Host, UNCHANGED notices, owner' \in Panels \cup {None},
         deferred' \subseteq deferred, seen' \subseteq Panels, owed' \subseteq Panels,
         host'.paused = host.paused,
         host.seeking # None => host'.seeking # None,
         OneLoop',
         \A p \in Panels : Live(panel'[p]) /\ panel'[p].enabled =>
           \/ panel'[p].transport.paused = host.paused
           \/ /\ Live(panel[p]) /\ panel[p].enabled
              /\ panel'[p].transport.paused = panel[p].transport.paused,
         \A p \in Panels :
           /\ panel'[p].status = "open"
           /\ panel'[p].transport.state = "automatic_seek_pending"
           => \A d \in deferred :
                d.panel = p /\ Executable(d) => d \in deferred' \/ host'.seeking # None
  PROVE  IInv'
<1>1. Shape'
  <2>1. notices' \in Seq(Notice)
    BY DEF IInv
  <2> QED
    BY <2>1, ShapeKept
<1>2. PauseKnown'
  <2> SUFFICES ASSUME NEW p \in Panels,
                      Live(panel'[p]), panel'[p].enabled,
                      \A i \in DOMAIN notices : notices[i].kind \in Harmless
               PROVE  panel'[p].transport.paused = host'.paused
    BY DEF PauseKnown, Alive, Live, Harmless
  <2>1. CASE Live(panel[p]) /\ panel[p].enabled
    <3>1. panel[p].transport.paused = host.paused
      BY <2>1 DEF IInv, PauseKnown, Alive, Live, Harmless
    <3> QED
      BY <3>1
  <2>2. CASE ~ (Live(panel[p]) /\ panel[p].enabled)
    BY <2>2
  <2> QED
    BY <2>1, <2>2
<1>3. PausesTold'
  BY DEF IInv, PausesTold
<1>4. SettlingComes' <=> SettlingComes
  BY DEF SettlingComes
<1>5. CarriedOrSettled'
  BY <1>1, <1>4, CarriedKept
<1> QED
  BY <1>1, <1>2, <1>3, <1>5 DEF IInv, Shape

------------------------------------------------------------------------------
(* Typing of the steps *)

LEMMA StateTyped ==
  ASSUME IInv
  PROVE  /\ panel \in [Panels -> PanelRecord]
         /\ host \in Host /\ host.paused \in BOOLEAN /\ host.position \in 0 .. MaxPosition
         /\ owner \in Panels \cup {None}
         /\ seen \subseteq Panels /\ owed \subseteq Panels
         /\ transport_position \in Position \cup {None}
         /\ Shape /\ OneLoop
<1>1. host \in Host /\ host.paused \in BOOLEAN /\ host.position \in 0 .. MaxPosition
  BY DEF IInv, TypeOK, Host
<1>2. transport_position \in Position \cup {None}
  BY <1>1 DEF transport_position, Position
<1>3. Shape /\ OneLoop
  BY DEF IInv, Shape
<1> QED
  BY <1>1, <1>2, <1>3 DEF IInv, TypeOK, PanelRecord

LEMMA EventTyped ==
  ASSUME IInv, host.events < MaxEvents, NEW h, h = [host EXCEPT !.events = @ + 1]
  PROVE  /\ h \in Host /\ h.paused = host.paused /\ h.seeking = host.seeking
         /\ h.position = host.position /\ h.track = host.track /\ h.playing = host.playing
<1>1. host \in Host
  BY StateTyped
<1>2. host.events + 1 \in 0 .. MaxEvents
  BY <1>1, PanelsAssumption DEF Host
<1> QED
  BY <1>1, <1>2 DEF Host

LEMMA RegionsValid ==
  ASSUME NEW region \in Regions
  PROVE  region \in LoopRegion /\ ValidRegion(region)
BY PanelsAssumption

LEMMA OwnerWithoutTyped ==
  ASSUME IInv, NEW set
  PROVE  OwnerWithout(set) \in Panels \cup {None}
BY StateTyped DEF OwnerWithout

LEMMA NothingKept ==
  ASSUME IInv, NEW p \in Panels
  PROVE  Effect(panel[p], panel[p]) /\ Kept(panel[p], panel[p])
<1>1. panel[p] \in PanelRecord /\ panel[p].transport \in TransportRecord
  BY StateTyped DEF PanelRecord
<1> QED
  BY <1>1 DEF Effect, Kept, Still

LEMMA OnePanel ==
  ASSUME IInv, NEW p \in Panels, NEW u, Effect(panel[p], u), u \in PanelRecord,
         panel' = [panel EXCEPT ![p] = u]
  PROVE  /\ panel' \in [Panels -> PanelRecord]
         /\ panel'[p] = u
         /\ \A q \in Panels \ {p} : panel'[q] = panel[q]
         /\ \A q \in Panels : Effect(panel[q], panel'[q])
<1>1. panel \in [Panels -> PanelRecord]
  BY StateTyped
<1>2. /\ panel' \in [Panels -> PanelRecord]
      /\ panel'[p] = u
      /\ \A q \in Panels \ {p} : panel'[q] = panel[q]
  BY <1>1
<1> QED
  BY <1>2, NothingKept

(* A loop that goes off for the user or because nothing can be sought. *)
LEMMA LoopOffStep ==
  ASSUME IInv, NEW p \in Panels, NEW u, TurnedOff(panel[p], u) \/ Gone(panel[p], u),
         panel' = [panel EXCEPT ![p] = u],
         host' \in Host, UNCHANGED notices, owner' = OwnerWithout({p}),
         deferred' \subseteq deferred, seen' \subseteq Panels, owed' \subseteq Panels,
         host'.paused = host.paused, host'.seeking = host.seeking,
         \A d \in deferred \ deferred' : d.panel = p
  PROVE  IInv'
<1>1. Effect(panel[p], u) /\ u \in PanelRecord
  BY DEF Effect, TurnedOff, Gone
<1>2. /\ panel' \in [Panels -> PanelRecord]
      /\ panel'[p] = u
      /\ \A q \in Panels \ {p} : panel'[q] = panel[q]
      /\ \A q \in Panels : Effect(panel[q], panel'[q])
  BY <1>1, OnePanel
<1>3. ~ (Live(u) /\ u.enabled) /\ u.transport.state = "disabled"
  BY DEF TurnedOff, Gone, Off, Live
<1>4. OneLoop'
  BY <1>2, <1>3, StateTyped, LoopTurnedOff
<1>5. owner' \in Panels \cup {None}
  BY OwnerWithoutTyped
<1>6. \A q \in Panels : Live(panel'[q]) /\ panel'[q].enabled => panel'[q] = panel[q]
  BY <1>2, <1>3
<1>7. \A q \in Panels : panel'[q].transport.state = "automatic_seek_pending" => q # p
  BY <1>2, <1>3
<1>8. \A q \in Panels : Live(panel'[q]) /\ panel'[q].enabled =>
           \/ panel'[q].transport.paused = host.paused
           \/ /\ Live(panel[q]) /\ panel[q].enabled
              /\ panel'[q].transport.paused = panel[q].transport.paused
  BY <1>6
<1>9. \A q \in Panels :
           /\ panel'[q].status = "open"
           /\ panel'[q].transport.state = "automatic_seek_pending"
           => \A d \in deferred :
                d.panel = q /\ Executable(d) => d \in deferred' \/ host'.seeking # None
  BY <1>7
<1> QED
  BY <1>2, <1>4, <1>5, <1>8, <1>9, PanelsStep

(* A step on one panel whose loop stays on, or stays off.                  *)
LEMMA LoopKeptStep ==
  ASSUME IInv, NEW p \in Panels, NEW u, Effect(panel[p], u), u \in PanelRecord,
         panel' = [panel EXCEPT ![p] = u],
         host' \in Host, UNCHANGED <<notices, owner>>,
         deferred' \subseteq deferred, seen' \subseteq Panels, owed' \subseteq Panels,
         host'.paused = host.paused, host'.seeking = host.seeking,
         \A d \in deferred \ deferred' :
           d.panel = p /\ u.transport.state # "automatic_seek_pending",
         Live(u) /\ u.enabled <=> Live(panel[p]) /\ panel[p].enabled,
         Live(panel[p]) /\ panel[p].enabled =>
           /\ u.track = panel[p].track
           /\ u.transport.paused \in {host.paused, panel[p].transport.paused}
  PROVE  IInv'
<1>2. /\ panel' \in [Panels -> PanelRecord]
      /\ panel'[p] = u
      /\ \A q \in Panels \ {p} : panel'[q] = panel[q]
      /\ \A q \in Panels : Effect(panel[q], panel'[q])
  BY OnePanel
<1>4. OneLoop'
  <2>1. \A q \in Panels :
           /\ Live(panel'[q]) /\ panel'[q].enabled <=> Live(panel[q]) /\ panel[q].enabled
           /\ Live(panel[q]) /\ panel[q].enabled => panel'[q].track = panel[q].track
    BY <1>2
  <2> QED
    BY <2>1, StateTyped, LoopKept
<1>5. owner' \in Panels \cup {None}
  BY StateTyped
<1>8. \A q \in Panels : Live(panel'[q]) /\ panel'[q].enabled =>
           \/ panel'[q].transport.paused = host.paused
           \/ /\ Live(panel[q]) /\ panel[q].enabled
              /\ panel'[q].transport.paused = panel[q].transport.paused
  BY <1>2
<1>9. \A q \in Panels :
           /\ panel'[q].status = "open"
           /\ panel'[q].transport.state = "automatic_seek_pending"
           => \A d \in deferred :
                d.panel = q /\ Executable(d) => d \in deferred' \/ host'.seeking # None
  BY <1>2
<1> QED
  BY <1>2, <1>4, <1>5, <1>8, <1>9, PanelsStep

------------------------------------------------------------------------------
(* The actions on one panel *)

LEMMA TurnLoopOffStep ==
  ASSUME IInv, NEW p \in Panels, NEW requested \in BOOLEAN, TurnLoopOff(p, requested)
  PROVE  IInv'
<1> DEFINE reason == IF requested THEN "unseekable" ELSE "loop_disabled"
           u == ForcedOff(panel[p], reason)
<1>1. host' \in Host /\ host'.paused = host.paused /\ host'.seeking = host.seeking
  BY EventTyped DEF TurnLoopOff, UserEvent
<1>2. TurnedOff(panel[p], u)
  <2>1. panel[p] \in PanelRecord /\ Live(panel[p])
    BY StateTyped DEF TurnLoopOff, Usable, Live
  <2>2. reason \in LoopTransportResetReason
    BY DEF LoopTransportResetReason
  <2> QED
    BY <2>1, <2>2, ForcingOff
<1>3. panel' = [panel EXCEPT ![p] = u] /\ owner' = OwnerWithout({p})
  BY DEF TurnLoopOff
<1>4. /\ UNCHANGED notices /\ deferred' = deferred
      /\ seen' \subseteq Panels /\ owed' \subseteq Panels
  BY StateTyped DEF TurnLoopOff
<1> HIDE DEF u
<1> QED
  BY <1>1, <1>2, <1>3, <1>4, LoopOffStep

(* reconfigure_transport_for_markers, in its branches that occur *)
LEMMA SetMarkersStep ==
  ASSUME IInv, NEW p \in Panels, NEW region \in Regions, SetMarkers(p, region)
  PROVE  IInv'
<1> DEFINE q == [panel[p] EXCEPT !.region = region]
           u == reconfigure_transport_for_markers(q)
<1>1. host' \in Host /\ host'.paused = host.paused /\ host'.seeking = host.seeking
  BY EventTyped DEF SetMarkers, UserEvent
<1>2. /\ UNCHANGED notices /\ deferred' = deferred
      /\ seen' \subseteq Panels /\ owed' \subseteq Panels
      /\ panel' = [panel EXCEPT ![p] = u]
      /\ owner' = IF MustForceOff(q) THEN OwnerWithout({p}) ELSE owner
  BY StateTyped DEF SetMarkers
<1>3. /\ panel[p] \in PanelRecord /\ Live(panel[p])
      /\ panel[p].enabled <=> panel[p].transport.enabled
      /\ panel[p].transport \in TransportRecord
  BY StateTyped, PanelsSound DEF SetMarkers, Alive, Live, Sound, PanelRecord
<1>4. /\ q \in PanelRecord /\ q.status = panel[p].status /\ q.enabled = panel[p].enabled
      /\ q.region = region /\ q.transport = panel[p].transport /\ q.track = panel[p].track
      /\ Live(q)
  BY <1>3 DEF PanelRecord, Live
<1>5. region \in LoopRegion /\ ValidRegion(region)
  BY RegionsValid
<1>6. MustForceOff(q) <=> q.enabled /\ ~ source_can_seek
  BY <1>4, <1>5 DEF MustForceOff
<1> HIDE DEF q
<1>7. CASE q.enabled /\ ~ source_can_seek
  <2>1. u = ForcedOff(q, "unseekable")
    BY <1>7 DEF reconfigure_transport_for_markers
  <2>2. TurnedOff(q, u) /\ u.status = q.status
    BY <1>4, <2>1, ForcingOff DEF LoopTransportResetReason
  <2>3. TurnedOff(panel[p], u)
    BY <1>4, <2>2 DEF TurnedOff
  <2>4. owner' = OwnerWithout({p})
    BY <1>2, <1>6, <1>7
  <2> HIDE DEF u
  <2> QED
    BY <1>1, <1>2, <2>3, <2>4, LoopOffStep
<1>8. CASE q.enabled /\ source_can_seek
  <2> DEFINE v == SetPaused(UpdateMarkers(q.transport, q.region, transport_position),
                            host.paused)
  <2>1. u = [q EXCEPT !.transport = v]
    BY <1>4, <1>5, <1>8 DEF reconfigure_transport_for_markers
  <2>2. ArmedIn(panel[p].transport, v, region) /\ v.paused = host.paused
    BY <1>3, <1>4, <1>5, <1>8, StateTyped, UpdateArms
  <2>3. v \in TransportRecord /\ v.state = "armed"
    BY <2>2 DEF ArmedIn
  <2> HIDE DEF u, v
  <2>4. /\ u \in PanelRecord /\ u.status = q.status /\ u.enabled = q.enabled
        /\ u.track = q.track /\ u.region = q.region /\ u.transport = v
    BY <1>4, <2>1, <2>3 DEF PanelRecord
  <2>5. Restarted(panel[p], u)
    <3>1. u.enabled = TRUE
      BY <1>4, <1>8, <2>4 DEF PanelRecord
    <3> QED
      BY <1>3, <1>4, <2>2, <2>4, <3>1 DEF Restarted
  <2>6. owner' = owner
    BY <1>2, <1>6, <1>8
  <2>7. Live(u)
    BY <1>4, <2>4 DEF Live
  <2>8. u.track = panel[p].track /\ u.transport.paused = host.paused
        /\ u.enabled = panel[p].enabled /\ Effect(panel[p], u)
    BY <1>4, <2>2, <2>4, <2>5 DEF Effect
  <2> QED
    BY <1>1, <1>2, <1>3, <2>4, <2>6, <2>7, <2>8, LoopKeptStep
<1>9. CASE ~ q.enabled
  <2>1. u = q
    BY <1>9 DEF reconfigure_transport_for_markers
  <2> HIDE DEF u
  <2>2. Kept(panel[p], u)
    BY <1>3, <1>4, <1>9, <2>1 DEF Kept, Still, Live
  <2>3. owner' = owner
    BY <1>2, <1>6, <1>9
  <2> QED
    BY <1>1, <1>2, <1>3, <1>4, <1>9, <2>1, <2>2, <2>3, LoopKeptStep DEF Effect
<1> QED
  BY <1>7, <1>8, <1>9

LEMMA CreatePanelStep ==
  ASSUME IInv, NEW p \in Panels, NEW region \in Regions, CreatePanel(p, region)
  PROVE  IInv'
<1> DEFINE opened == [panel[p] EXCEPT !.status = "open"]
           q == refresh_playback_snapshot(opened)
           u == IF host.track = None THEN q ELSE load_editor_for_track(q, host.track, region)
<1>1. panel' = [panel EXCEPT ![p] = u]
  BY DEF CreatePanel
<1>2. /\ panel[p] \in PanelRecord /\ panel[p] = NewPanel /\ panel[p].status = "absent"
      /\ panel[p].enabled = FALSE /\ ~ Live(panel[p])
      /\ panel[p].transport \in TransportRecord
      /\ panel[p].transport.state = "disabled" /\ panel[p].transport.enabled = FALSE
      /\ panel[p].transport.pending_request = None
  <2>1. panel[p].status = "absent" /\ panel[p] \in PanelRecord
    BY StateTyped DEF CreatePanel
  <2>2. panel[p] = NewPanel
    BY <2>1 DEF IInv, AbsentIsNew
  <2>3. panel[p].enabled = FALSE /\ panel[p].transport = InitialTransport
    BY <2>2 DEF NewPanel
  <2>4. panel[p].transport \in TransportRecord
    BY <2>1 DEF PanelRecord
  <2> QED
    BY <2>1, <2>2, <2>3, <2>4 DEF InitialTransport, Live
<1>3. /\ opened \in PanelRecord /\ opened.status = "open" /\ opened.enabled = FALSE
      /\ opened.transport = panel[p].transport
  BY <1>2 DEF PanelRecord
<1> HIDE DEF opened
<1>4. /\ q \in PanelRecord /\ q.status = "open" /\ q.enabled = FALSE
      /\ q.transport = panel[p].transport
  BY <1>3, Refreshing
<1> HIDE DEF q
<1>5. TurnedOff(panel[p], u) /\ u.enabled = FALSE /\ u.transport.state = "disabled"
      /\ u \in PanelRecord
  <2>1. CASE host.track = None
    <3>1. u = q
      BY <2>1
    <3>2. q.transport.next_request_id >= panel[p].transport.next_request_id
      BY <1>2, <1>4 DEF TransportRecord
    <3> QED
      BY <1>2, <1>4, <3>1, <3>2 DEF TurnedOff, Off, Live
  <2>2. CASE host.track # None
    <3>1. host.track \in Tracks
      BY <2>2, StateTyped DEF Host
    <3>2. TurnedOff(q, u)
      BY <1>4, <2>2, <3>1, Loading DEF Live
    <3> QED
      BY <1>2, <1>4, <3>2 DEF TurnedOff, Off
  <2> QED
    BY <2>1, <2>2
<1> HIDE DEF u
<1>6. /\ UNCHANGED <<host, notices, owner, deferred>>
      /\ seen' \subseteq Panels /\ owed' \subseteq Panels /\ host' \in Host
  BY StateTyped DEF CreatePanel
<1> QED
  BY <1>1, <1>2, <1>5, <1>6, LoopKeptStep DEF Effect

LEMMA CloseWindowStep ==
  ASSUME IInv, NEW p \in Panels, CloseWindow(p)
  PROVE  IInv'
<1> DEFINE u == [panel[p] EXCEPT !.status = "closed"]
<1>1. panel[p] \in PanelRecord /\ panel[p].status = "open" /\ Live(panel[p])
      /\ panel[p].transport \in TransportRecord
  BY StateTyped DEF CloseWindow, Live, PanelRecord
<1>2. /\ u \in PanelRecord /\ u.status = "closed" /\ u.enabled = panel[p].enabled
      /\ u.track = panel[p].track /\ u.region = panel[p].region
      /\ u.transport = panel[p].transport
  BY <1>1 DEF PanelRecord
<1>3. panel' = [panel EXCEPT ![p] = u]
  BY DEF CloseWindow
<1> HIDE DEF u
<1>4. Kept(panel[p], u) /\ Live(u)
  BY <1>1, <1>2 DEF Kept, Still, Live
<1>5. /\ UNCHANGED <<host, notices, owner, deferred>>
      /\ seen' \subseteq Panels /\ owed' \subseteq Panels /\ host' \in Host
  BY StateTyped DEF CloseWindow
<1> QED
  BY <1>1, <1>2, <1>3, <1>4, <1>5, LoopKeptStep DEF Effect

LEMMA DestroyPanelStep ==
  ASSUME IInv, NEW p \in Panels, DestroyPanel(p)
  PROVE  IInv'
<1> DEFINE v == Reset(panel[p].transport, "shutdown")
           u == [panel[p] EXCEPT !.status = "destroyed", !.transport = v]
<1>1. panel[p] \in PanelRecord /\ panel[p].transport \in TransportRecord
  BY StateTyped DEF PanelRecord
<1>2. Off(panel[p].transport, v)
  BY <1>1, ResetIsOff DEF LoopTransportResetReason
<1>3. panel' = [panel EXCEPT ![p] = u]
  BY StateTyped DEF DestroyPanel
<1> HIDE DEF v
<1>4. u \in PanelRecord /\ u.status = "destroyed" /\ u.transport = v
  BY <1>1, <1>2 DEF PanelRecord, Off
<1> HIDE DEF u
<1>5. Gone(panel[p], u)
  BY <1>2, <1>4 DEF Gone
<1>6. /\ UNCHANGED <<host, notices, deferred>> /\ owner' = OwnerWithout({p})
      /\ seen' \subseteq Panels /\ owed' \subseteq Panels /\ host' \in Host
  BY StateTyped DEF DestroyPanel
<1> QED
  BY <1>3, <1>5, <1>6, LoopOffStep

(* The loop passes to p: its transport is armed, the owner's goes off. *)
LEMMA TurnLoopOnStep ==
  ASSUME IInv, NEW p \in Panels, TurnLoopOn(p)
  PROVE  IInv'
<1> DEFINE v == ArmedTransport(panel[p])
           u == [panel[p] EXCEPT !.enabled = TRUE, !.transport = v]
<1>1. host' \in Host /\ host'.paused = host.paused /\ host'.seeking = host.seeking
  BY EventTyped DEF TurnLoopOn, UserEvent
<1>2. /\ panel[p] \in PanelRecord /\ panel[p].status = "open" /\ Live(panel[p])
      /\ panel[p].track # None
      /\ panel[p].transport \in TransportRecord /\ panel[p].region \in Regions
  BY StateTyped DEF TurnLoopOn, Usable, Live, PanelRecord
<1>3. ArmedIn(panel[p].transport, v, panel[p].region) /\ v.paused = host.paused
  BY <1>2, StateTyped, RegionsValid, EnableArms DEF ArmedTransport
<1>4. v \in TransportRecord
  BY <1>3 DEF ArmedIn
<1> HIDE DEF v
<1>5. /\ u \in PanelRecord /\ u.status = "open" /\ u.enabled = TRUE /\ u.region = panel[p].region
      /\ u.track = panel[p].track /\ u.transport = v
  BY <1>2, <1>4 DEF PanelRecord
<1>6. panel' = [q \in Panels |-> IF q \in Yielding(p) THEN ForcedOff(panel[q], "loop_disabled")
                               ELSE IF q = p THEN u ELSE panel[q]]
  BY DEF TurnLoopOn, v
<1> HIDE DEF u
<1>7. Restarted(panel[p], u) /\ Live(u)
  BY <1>2, <1>3, <1>5 DEF Restarted, Live
<1>8. \A q \in Panels : q \in Yielding(p) <=> q = owner /\ q # p
  BY PanelsAssumption DEF Yielding
<1>9. panel'[p] = u
  BY <1>6, <1>8
<1>10. ASSUME NEW q \in Panels, q # p
       PROVE  /\ panel'[q] \in PanelRecord
              /\ Effect(panel[q], panel'[q])
              /\ ~ (Live(panel'[q]) /\ panel'[q].enabled)
              /\ panel'[q].transport.state # "automatic_seek_pending" \/ panel'[q] = panel[q]
  <2>1. CASE q = owner
    <3>1. panel[q] \in PanelRecord /\ Live(panel[q])
      BY <2>1, StateTyped DEF OneLoop, Alive, Live
    <3>2. TurnedOff(panel[q], ForcedOff(panel[q], "loop_disabled"))
      BY <3>1, ForcingOff DEF LoopTransportResetReason
    <3>3. panel'[q] = ForcedOff(panel[q], "loop_disabled")
      BY <1>6, <1>8, <1>10, <2>1
    <3>4. TurnedOff(panel[q], panel'[q])
      BY <3>2, <3>3
    <3> QED
      BY <3>4 DEF Effect, TurnedOff, Off
  <2>2. CASE q # owner
    <3>1. panel'[q] = panel[q]
      BY <1>6, <1>8, <1>10, <2>2
    <3>2. ~ (Live(panel[q]) /\ panel[q].enabled)
      BY <2>2, StateTyped DEF OneLoop, Alive, Live
    <3> QED
      BY <3>1, <3>2, NothingKept, StateTyped
  <2> QED
    BY <2>1, <2>2
<1>11. panel' \in [Panels -> PanelRecord]
  <2>1. \A q \in Panels : panel'[q] \in PanelRecord
    BY <1>5, <1>9, <1>10
  <2> QED
    BY <1>6, <2>1
<1>12. \A q \in Panels : Effect(panel[q], panel'[q])
  BY <1>7, <1>9, <1>10 DEF Effect
<1>13. UNCHANGED <<notices, deferred>> /\ owner' = p
       /\ seen' \subseteq Panels /\ owed' \subseteq Panels
  BY StateTyped DEF TurnLoopOn
<1>14. OneLoop'
  <2>1. \A q \in Panels : Alive(q)' <=> Live(panel'[q])
    BY DEF Alive, Live
  <2>2. \A q \in Panels : Alive(q)' /\ panel'[q].enabled <=> owner' = q
    BY <1>5, <1>7, <1>9, <1>10, <1>13, <2>1
  <2>3. panel'[owner'].track # None
    BY <1>2, <1>5, <1>9, <1>13
  <2> QED
    BY <2>2, <2>3 DEF OneLoop
<1>15. \A q \in Panels : Live(panel'[q]) /\ panel'[q].enabled =>
         panel'[q].transport.paused = host.paused
  BY <1>3, <1>5, <1>9, <1>10
<1> QED
  BY <1>1, <1>11, <1>12, <1>13, <1>14, <1>15, PanelsStep

LEMMA ObservePlaybackStep ==
  ASSUME IInv, NEW p \in Panels, NEW queued \in BOOLEAN, ObservePlayback(p, queued)
  PROVE  IInv'
<1> DEFINE t == panel[p].transport
           crossing == Issues(t, host.position, t.generation)
           request == NewRequest(t, host.position)
           v == ObservePosition(t, host.position, t.generation)
           u == [panel[p] EXCEPT !.transport = v]
<1>1. /\ panel[p] \in PanelRecord /\ Live(panel[p]) /\ panel[p].enabled
      /\ panel[p].region \in Regions /\ t \in TransportRecord /\ IntentSound(t)
      /\ t.enabled /\ t.region = panel[p].region
  BY PanelsSound DEF ObservePlayback, Observable, Alive, Live, Sound, PanelRecord
<1>2. /\ v.paused = t.paused
      /\ crossing => Asked(t, v, request)
      /\ ~ crossing => Still(t, v) \/ Answered(t, v)
  BY <1>1, StateTyped, RegionsValid, PositionObserved
<1>3. /\ panel' = [panel EXCEPT ![p] = IF queued THEN u ELSE ForcedOff(u, "unseekable")]
      /\ owner' = IF queued THEN owner ELSE OwnerWithout({p})
      /\ deferred' = IF crossing /\ queued THEN queue_transport_seek(p, request) ELSE deferred
      /\ ~ queued => crossing
      /\ UNCHANGED <<host, notices>>
      /\ seen' \subseteq Panels /\ owed' \subseteq Panels /\ host' \in Host
  BY StateTyped DEF ObservePlayback
<1>4. v \in TransportRecord
  BY <1>2 DEF Asked, Still, Answered
<1> HIDE DEF v, crossing, request
<1>5. /\ u \in PanelRecord /\ u.status = panel[p].status /\ u.enabled = panel[p].enabled
      /\ u.region = panel[p].region /\ u.track = panel[p].track /\ u.transport = v
  BY <1>1, <1>4 DEF PanelRecord
<1> HIDE DEF u
<1>6. Live(u)
  BY <1>1, <1>5 DEF Live
<1>7. CASE ~ crossing
  <2>1. Effect(panel[p], u)
    <3>1. CASE Still(t, v)
      BY <1>1, <1>5, <3>1 DEF Effect, Kept, Live
    <3>2. CASE Answered(t, v)
      BY <1>1, <1>5, <3>2 DEF Effect, Replied
    <3> QED
      BY <1>2, <1>7, <3>1, <3>2
  <2>2. panel' = [panel EXCEPT ![p] = u] /\ UNCHANGED <<owner, deferred>>
    BY <1>3, <1>7
  <2> QED
    BY <1>1, <1>2, <1>3, <1>5, <1>6, <2>1, <2>2, LoopKeptStep
<1>8. CASE crossing /\ ~ queued
  <2> DEFINE w == ForcedOff(u, "unseekable")
  <2>1. TurnedOff(u, w) /\ w.status = u.status
    BY <1>5, <1>6, ForcingOff DEF LoopTransportResetReason
  <2>2. panel' = [panel EXCEPT ![p] = w] /\ owner' = OwnerWithout({p}) /\ UNCHANGED deferred
    BY <1>3, <1>8
  <2> HIDE DEF w
  <2>3. Off(t, w.transport)
    <3>1. v.next_request_id = t.next_request_id + 1 /\ Off(v, w.transport)
      BY <1>2, <1>5, <1>8, <2>1 DEF Asked, TurnedOff
    <3>2. t.next_request_id \in Nat /\ w.transport.next_request_id \in Nat
      BY <1>1, <3>1 DEF Off, TransportRecord
    <3> QED
      BY <3>1, <3>2 DEF Off
  <2>4. TurnedOff(panel[p], w)
    BY <1>5, <2>1, <2>3 DEF TurnedOff
  <2> QED
    BY <1>3, <2>2, <2>4, LoopOffStep
<1>9. CASE crossing /\ queued
  <2>1. Crossed(panel[p], u, request)
    BY <1>1, <1>2, <1>5, <1>9 DEF Crossed
  <2>2. /\ panel' = [panel EXCEPT ![p] = u] /\ UNCHANGED owner
        /\ deferred' = queue_transport_seek(p, request)
    BY <1>3, <1>9
  <2>3. Shape'
    BY <1>3, <2>1, <2>2, ShapeCrossed
  <2>4. panel'[p] = u /\ \A q \in Panels \ {p} : panel'[q] = panel[q]
    BY <2>2, StateTyped
  <2>5. OneLoop'
    <3>1. \A q \in Panels :
             /\ Live(panel'[q]) /\ panel'[q].enabled <=> Live(panel[q]) /\ panel[q].enabled
             /\ Live(panel[q]) /\ panel[q].enabled => panel'[q].track = panel[q].track
      BY <1>1, <1>5, <1>6, <2>4
    <3> QED
      BY <2>2, <3>1, StateTyped, LoopKept
  <2>6. PauseKnown'
    <3>1. \A q \in Panels : /\ Live(panel'[q]) => Live(panel[q])
                            /\ panel'[q].enabled = panel[q].enabled
                            /\ panel'[q].transport.paused = panel[q].transport.paused
      BY <1>1, <1>2, <1>5, <2>4
    <3> QED
      BY <1>3, <3>1 DEF IInv, PauseKnown, Alive, Live
  <2>7. PausesTold'
    BY <1>3 DEF IInv, PausesTold
  <2>8. CarriedOrSettled'
    <3> SUFFICES ASSUME NEW q \in Panels,
                        panel'[q].status = "open",
                        panel'[q].transport.state = "automatic_seek_pending"
                 PROVE  \/ \E d \in deferred' : d.panel = q /\ Executable(d)'
                        \/ host'.seeking # None
                        \/ SettlingComes'
                        \/ LossyNotices
      BY DEF CarriedOrSettled
    <3>1. CASE q = p
      <4> DEFINE queued_seek == [panel |-> p, request |-> request]
      <4>0. queued_seek \in deferred'
        BY <2>2 DEF queue_transport_seek
      <4>1. PICK new \in deferred' : new.panel = p /\ new.request = request
        <5>1. queued_seek.panel = p /\ queued_seek.request = request
          OBVIOUS
        <5> QED
          BY <4>0, <5>1
      <4>2. IsPending(v, request)
        <5>1. v.pending_request = request /\ request # None
              /\ v.enabled /\ v.state = "automatic_seek_pending"
          BY <1>1, <1>2, <1>9, NoRecordIsNone DEF Asked
        <5> QED
          BY <5>1 DEF IsPending
      <4>3. owner' = p /\ panel'[p].enabled /\ panel'[p].status = "open"
        <5>1. Alive(p)' /\ panel'[p].enabled
          BY <1>1, <1>5, <1>6, <2>4 DEF Alive, Live
        <5> QED
          BY <2>5, <3>1, <5>1 DEF OneLoop
      <4>4. Executable(new)'
        BY <1>5, <2>4, <4>1, <4>2, <4>3 DEF Executable
      <4> QED
        BY <3>1, <4>1, <4>4
    <3>2. CASE q # p
      <4>1. panel'[q] = panel[q] /\ deferred \subseteq deferred'
        BY <2>2, <2>4, <3>2 DEF queue_transport_seek
      <4>2. \A d \in deferred : d.panel = q /\ Executable(d) => Executable(d)'
        BY <2>2, <4>1 DEF Executable
      <4>3. SettlingComes => SettlingComes'
        BY <1>3 DEF SettlingComes
      <4> QED
        BY <1>3, <4>1, <4>2, <4>3 DEF IInv, CarriedOrSettled
    <3> QED
      BY <3>1, <3>2
  <2> QED
    BY <2>3, <2>5, <2>6, <2>7, <2>8 DEF IInv, Shape
<1> QED
  BY <1>7, <1>8, <1>9

(* execute_transport_seek of a request that is no longer the intent, or    *)
(* whose panel lost the loop or its window: nothing happens.               *)
LEMMA DropSeekStep ==
  ASSUME IInv, NEW d \in deferred, ExecuteTransportSeek(d), DropSeek(d)
  PROVE  IInv'
<1>1. /\ UNCHANGED <<host, panel, owner, notices, seen, owed>>
      /\ deferred' = deferred \ {d} /\ ~ Executable(d)
      /\ host' \in Host
  BY StateTyped DEF DropSeek, ExecuteTransportSeek
<1>2. OneLoop'
  BY <1>1, StateTyped DEF OneLoop, Alive
<1>3. \A q \in Panels : Effect(panel[q], panel'[q])
  BY <1>1, NothingKept
<1>4. \A q \in Panels : \A e \in deferred : Executable(e) => e \in deferred'
  BY <1>1
<1>5. \A q \in Panels : Live(panel'[q]) /\ panel'[q].enabled =>
        /\ Live(panel[q]) /\ panel[q].enabled
        /\ panel'[q].transport.paused = panel[q].transport.paused
  BY <1>1
<1> QED
  BY <1>1, <1>2, <1>3, <1>4, <1>5, StateTyped, PanelsStep

LEMMA ForceOffInsteadOfSeekStep ==
  ASSUME IInv, NEW d \in deferred, ExecuteTransportSeek(d), ForceOffInsteadOfSeek(d)
  PROVE  IInv'
<1> DEFINE p == d.panel
<1>1. /\ UNCHANGED <<host, notices, seen>> /\ host' \in Host
      /\ deferred' = deferred \ {d} /\ owner' = None /\ owner = p
      /\ seen' \subseteq Panels /\ owed' \subseteq Panels
      /\ panel[p].status = "open"
  BY StateTyped DEF ForceOffInsteadOfSeek, ExecuteTransportSeek, Executable
<1>2. p \in Panels /\ panel[p] \in PanelRecord /\ Live(panel[p])
  BY <1>1, CopyTyped, StateTyped DEF IInv, Live
<1>3. PICK reason \in {"stopped", "track_changed", "unseekable"} :
        panel' = [panel EXCEPT ![p] = ForcedOff(panel[p], reason)]
  BY <1>2, StateTyped DEF ForceOffInsteadOfSeek
<1>4. TurnedOff(panel[p], ForcedOff(panel[p], reason))
  BY <1>2, ForcingOff DEF LoopTransportResetReason
<1>5. owner' = OwnerWithout({p})
  BY <1>1 DEF OwnerWithout
<1>6. \A e \in deferred \ deferred' : e.panel = p
  BY <1>1
<1> QED
  BY <1>1, <1>2, <1>3, <1>4, <1>5, <1>6, LoopOffStep

LEMMA RearmInsteadOfSeekStep ==
  ASSUME IInv, NEW d \in deferred, ExecuteTransportSeek(d), RearmInsteadOfSeek(d)
  PROVE  IInv'
<1> DEFINE p == d.panel
           v == SetPaused(UpdateMarkers(panel[p].transport, panel[p].region,
                                        transport_position), TRUE)
           u == [panel[p] EXCEPT !.transport = v]
<1>1. /\ UNCHANGED <<host, owner, owed, notices, seen>> /\ host' \in Host
      /\ deferred' = deferred \ {d} /\ owner = p /\ host.paused
      /\ panel[p].status = "open" /\ panel[p].enabled
      /\ seen' \subseteq Panels /\ owed' \subseteq Panels
  BY StateTyped DEF RearmInsteadOfSeek, ExecuteTransportSeek, Executable
<1>2. /\ p \in Panels /\ panel[p] \in PanelRecord /\ Live(panel[p])
      /\ panel[p].transport \in TransportRecord /\ panel[p].region \in Regions
  BY <1>1, CopyTyped, StateTyped DEF IInv, Live, PanelRecord
<1>3. panel[p].transport.enabled
  BY <1>1, <1>2, PanelsSound DEF Sound
<1>4. ArmedIn(panel[p].transport, v, panel[p].region) /\ v.paused = TRUE
  BY <1>2, <1>3, StateTyped, RegionsValid, UpdateArms
<1>5. panel' = [panel EXCEPT ![p] = u]
  BY <1>2, StateTyped DEF RearmInsteadOfSeek
<1>6. v \in TransportRecord /\ v.state = "armed"
  BY <1>4 DEF ArmedIn
<1> HIDE DEF v
<1>7. /\ u \in PanelRecord /\ u.status = panel[p].status /\ u.enabled = panel[p].enabled
      /\ u.region = panel[p].region /\ u.track = panel[p].track /\ u.transport = v
  BY <1>2, <1>6 DEF PanelRecord
<1>8. panel[p].enabled = TRUE /\ host.paused = TRUE
  BY <1>1, <1>2, StateTyped DEF PanelRecord
<1> HIDE DEF u
<1>9. Effect(panel[p], u) /\ Live(u)
  BY <1>2, <1>4, <1>7, <1>8 DEF Effect, Restarted, Live
<1>10. \A e \in deferred \ deferred' : e.panel = p
  BY <1>1
<1> HIDE DEF p
<1> QED
  BY <1>1, <1>2, <1>4, <1>5, <1>6, <1>7, <1>8, <1>9, <1>10, LoopKeptStep

(* What is sought for is the IN of the loop that is on, in this track. *)
LEMMA SeekTarget ==
  ASSUME IInv, NEW d \in deferred, Executable(d)
  PROVE  /\ d.panel \in Panels
         /\ d.request = panel[d.panel].transport.pending_request
         /\ d.request.target_seconds = panel[d.panel].region.in_seconds
         /\ d.request.crossing_position_seconds >= panel[d.panel].region.out_seconds
         /\ d.request.target_seconds \in 0 .. MaxPosition
<1> DEFINE p == d.panel
           t == panel[p].transport
<1>1. p \in Panels /\ d.request \in LoopSeekRequest
  BY CopyTyped DEF IInv
<1>2. /\ Live(panel[p]) /\ panel[p].enabled /\ t.pending_request # None
      /\ t.pending_request.request_id = d.request.request_id
  BY DEF Executable, IsPending, Live
<1>3. /\ IntentSound(t) /\ t.region = panel[p].region
      /\ panel[p].region \in Regions /\ t \in TransportRecord
  BY <1>1, <1>2, PanelsSound DEF Sound, PanelRecord
<1>4. d.request = t.pending_request
  BY <1>2 DEF IInv, CopiesDistinct
<1>5. /\ d.request.target_seconds = panel[p].region.in_seconds
      /\ d.request.crossing_position_seconds >= panel[p].region.out_seconds
      /\ d.request.crossing_position_seconds <= MaxPosition
  BY <1>2, <1>3, <1>4 DEF IntentSound
<1>6. panel[p].region \in LoopRegion /\ ValidRegion(panel[p].region)
  BY <1>3, RegionsValid
<1>7. /\ panel[p].region.in_seconds \in Int /\ panel[p].region.out_seconds \in Int
      /\ panel[p].region.in_seconds >= 0
      /\ panel[p].region.out_seconds > panel[p].region.in_seconds
  BY <1>6 DEF ValidRegion, LoopRegion, Position
<1>8. d.request.crossing_position_seconds \in Int /\ MaxPosition \in Int
  BY <1>1, PanelsAssumption DEF LoopSeekRequest
<1>9. d.request.target_seconds \in 0 .. MaxPosition
  BY <1>5, <1>7, <1>8
<1> QED
  BY <1>1, <1>4, <1>5, <1>9

LEMMA SeekStep ==
  ASSUME IInv, NEW d \in deferred, ExecuteTransportSeek(d), Seek(d)
  PROVE  IInv'
<1>1. /\ UNCHANGED <<panel, owner, owed, notices, seen>>
      /\ deferred' = deferred \ {d} /\ Executable(d)
      /\ host' = [host EXCEPT !.seeking = d.request.target_seconds]
  BY DEF Seek, ExecuteTransportSeek
<1>2. host' \in Host /\ host'.paused = host.paused /\ host'.seeking # None
  <2>1. d.request.target_seconds \in 0 .. MaxPosition
    BY <1>1, SeekTarget
  <2>2. d.request.target_seconds # None
    BY <2>1, NoneAssumption
  <2> QED
    BY <1>1, <2>1, <2>2, StateTyped DEF Host
<1>3. OneLoop'
  BY <1>1, StateTyped DEF OneLoop, Alive
<1>4. \A q \in Panels : Effect(panel[q], panel'[q])
  BY <1>1, NothingKept
<1>5. \A q \in Panels : Live(panel'[q]) /\ panel'[q].enabled =>
        /\ Live(panel[q]) /\ panel[q].enabled
        /\ panel'[q].transport.paused = panel[q].transport.paused
  BY <1>1
<1> QED
  BY <1>1, <1>2, <1>3, <1>4, <1>5, StateTyped, PanelsStep

------------------------------------------------------------------------------
(* Callbacks *)

OnlyHarmless == \A i \in DOMAIN notices : notices[i].kind \in Harmless

Settling == {"seek", "starting", "new_track", "edited", "stop"}

(* What the callbacks still to come tell, once the first has been made. *)
LEMMA NoticeTaken ==
  ASSUME IInv, notices # <<>>, notices' = Tail(notices), UNCHANGED host
  PROVE  /\ Head(notices) \in Notice
         /\ notices' \in Seq(Notice)
         /\ PausesTold'
         /\ Head(notices).kind \notin Settling => (SettlingComes => SettlingComes')
         /\ Head(notices).kind \in Harmless => (OnlyHarmless' => OnlyHarmless)
         /\ Head(notices).kind = "pause" => (OnlyHarmless' => Head(notices).paused = host.paused)
<1>1. /\ notices \in Seq(Notice) /\ Len(notices) \in Nat /\ Len(notices) >= 1
      /\ DOMAIN notices = 1 .. Len(notices)
      /\ Head(notices) = notices[1]
      /\ notices' \in Seq(Notice)
      /\ Len(notices') = Len(notices) - 1
      /\ DOMAIN notices' = 1 .. Len(notices')
      /\ \A i \in 1 .. Len(notices') : notices'[i] = notices[i + 1]
  BY DEF IInv
<1>2. Head(notices) \in Notice
  BY <1>1
<1>3. \A i \in 1 .. Len(notices) : i = 1 \/ (i - 1 \in 1 .. Len(notices') /\ notices'[i - 1] = notices[i])
  BY <1>1
<1>4. PausesTold'
  <2> SUFFICES ASSUME NEW i \in 1 .. Len(notices'), notices'[i].kind = "pause",
                      \A j \in i + 1 .. Len(notices') : notices'[j].kind \in Harmless
               PROVE  notices'[i].paused = host.paused
    BY DEF PausesTold
  <2>1. i + 1 \in 1 .. Len(notices) /\ notices'[i] = notices[i + 1]
    BY <1>1
  <2>2. ASSUME NEW j \in i + 1 + 1 .. Len(notices)
        PROVE  notices[j].kind \in Harmless
    <3>1. j - 1 \in i + 1 .. Len(notices') /\ notices'[j - 1] = notices[j]
      BY <1>1, <1>3
    <3> QED
      BY <3>1
  <2> QED
    BY <2>1, <2>2 DEF IInv, PausesTold
<1>5. ASSUME Head(notices).kind \notin Settling, SettlingComes
      PROVE  SettlingComes'
  <2>1. PICK i \in 1 .. Len(notices) : notices[i].kind \in Settling
    BY <1>5 DEF SettlingComes, Settling
  <2>2. i - 1 \in 1 .. Len(notices') /\ notices'[i - 1].kind \in Settling
    BY <1>1, <1>3, <1>5, <2>1
  <2> QED
    BY <2>2 DEF SettlingComes, Settling
<1>6. ASSUME Head(notices).kind \in Harmless, OnlyHarmless'
      PROVE  OnlyHarmless
  BY <1>1, <1>3, <1>6 DEF OnlyHarmless
<1>7. ASSUME Head(notices).kind = "pause", OnlyHarmless'
      PROVE  Head(notices).paused = host.paused
  <2>1. 1 \in 1 .. Len(notices) /\ notices[1].kind = "pause"
    BY <1>1, <1>7
  <2>2. ASSUME NEW j \in 1 + 1 .. Len(notices)
        PROVE  notices[j].kind \in Harmless
    <3>1. j - 1 \in DOMAIN notices' /\ notices'[j - 1] = notices[j]
      BY <1>1, <1>3
    <3> QED
      BY <1>7, <3>1 DEF OnlyHarmless
  <2> QED
    BY <1>1, <2>1, <2>2 DEF IInv, PausesTold
<1> QED
  BY <1>1, <1>2, <1>4, <1>5, <1>6, <1>7

(* The callbacks that replace the editors of all live panels. *)
LEMMA ReplaceEditorsStep ==
  ASSUME IInv, notices # <<>>, notices' = Tail(notices), UNCHANGED <<host, deferred, seen>>,
         NEW replaced, ReplaceEditors(replaced),
         \A p \in Panels : Alive(p) => TurnedOff(panel[p], replaced[p])
  PROVE  IInv'
<1>1. \A p \in Panels : panel'[p] = IF Alive(p) THEN replaced[p] ELSE panel[p]
  BY DEF ReplaceEditors
<1>2. \A p \in Panels : Alive(p) <=> Live(panel[p])
  BY DEF Alive, Live
<1>3. ASSUME NEW p \in Panels
      PROVE  /\ panel'[p] \in PanelRecord
             /\ Effect(panel[p], panel'[p])
             /\ ~ (Live(panel'[p]) /\ panel'[p].enabled)
             /\ Live(panel'[p]) => panel'[p].transport.state = "disabled"
  <2>1. CASE Alive(p)
    <3>1. TurnedOff(panel[p], panel'[p])
      BY <1>1, <2>1
    <3> QED
      BY <3>1 DEF TurnedOff, Off, Effect
  <2>2. CASE ~ Alive(p)
    <3>1. panel'[p] = panel[p] /\ ~ Live(panel'[p])
      BY <1>1, <1>2, <2>2
    <3> QED
      BY <3>1, NothingKept, StateTyped
  <2> QED
    BY <2>1, <2>2
<1>4. panel' \in [Panels -> PanelRecord]
  <2>1. panel' = [p \in Panels |-> IF Alive(p) THEN replaced[p] ELSE panel[p]]
    BY DEF ReplaceEditors
  <2>2. \A p \in Panels : (IF Alive(p) THEN replaced[p] ELSE panel[p]) \in PanelRecord
    BY <1>1, <1>3
  <2> QED
    BY <2>1, <2>2
<1>5. owner' = None
  <2>1. owner # None => owner \in {p \in Panels : Alive(p)}
    BY StateTyped DEF OneLoop
  <2> QED
    BY <2>1 DEF ReplaceEditors, OwnerWithout
<1>6. OneLoop'
  <2>1. \A p \in Panels : Alive(p)' <=> Live(panel'[p])
    BY DEF Alive, Live
  <2> QED
    BY <1>3, <1>5, <2>1, PanelsAssumption DEF OneLoop
<1>7. owed' \subseteq Panels /\ seen' \subseteq Panels /\ host' \in Host /\ deferred' \subseteq deferred
  BY StateTyped DEF ReplaceEditors
<1>8. notices' \in Seq(Notice) /\ PausesTold'
  BY NoticeTaken
<1>9. Shape'
  BY <1>3, <1>4, <1>5, <1>7, <1>8, ShapeKept
<1>10. PauseKnown'
  BY <1>3 DEF PauseKnown, Alive, Live
<1>11. CarriedOrSettled'
  BY <1>3 DEF CarriedOrSettled, Live
<1> QED
  BY <1>6, <1>8, <1>9, <1>10, <1>11 DEF IInv, Shape

(* The callbacks that leave every loop where it is. *)
LEMMA LoopsKeptStep ==
  ASSUME IInv, notices # <<>>, notices' = Tail(notices), UNCHANGED <<host, deferred, seen, owner>>,
         owed' \subseteq Panels,
         panel' \in [Panels -> PanelRecord],
         \A p \in Panels : Kept(panel[p], panel'[p]) \/ Replied(panel[p], panel'[p]),
         Head(notices).kind = "seek" =>
           \A p \in Panels : panel'[p].status = "open" =>
             panel'[p].transport.state # "automatic_seek_pending",
         Head(notices).kind \in {"seek", "pause", "dynamic_info"},
         OnlyHarmless' => \A p \in Panels : Live(panel[p]) /\ panel[p].enabled =>
           \/ panel'[p].transport.paused = host.paused
           \/ OnlyHarmless /\ panel'[p].transport.paused = panel[p].transport.paused
  PROVE  IInv'
<1>1. ASSUME NEW p \in Panels
      PROVE  /\ Effect(panel[p], panel'[p])
             /\ Live(panel'[p]) <=> Live(panel[p])
             /\ panel'[p].enabled = panel[p].enabled
             /\ panel'[p].track = panel[p].track
  <2>1. CASE Kept(panel[p], panel'[p])
    <3>1. panel[p] \in PanelRecord
      BY StateTyped
    <3> QED
      BY <2>1, <3>1 DEF Kept, Effect, Live, PanelRecord
  <2>2. CASE Replied(panel[p], panel'[p])
    BY <2>2 DEF Replied, Effect, Live
  <2> QED
    BY <2>1, <2>2
<1>2. OneLoop'
  BY <1>1, StateTyped, LoopKept
<1>3. seen' \subseteq Panels /\ host' \in Host /\ deferred' \subseteq deferred
      /\ owner' \in Panels \cup {None}
  BY StateTyped
<1>4. /\ notices' \in Seq(Notice) /\ PausesTold'
      /\ Head(notices).kind \notin Settling => (SettlingComes => SettlingComes')
  BY NoticeTaken
<1>5. Shape'
  BY <1>1, <1>3, <1>4, ShapeKept
<1>6. PauseKnown'
  <2> SUFFICES ASSUME NEW p \in Panels, Live(panel'[p]), panel'[p].enabled, OnlyHarmless'
               PROVE  panel'[p].transport.paused = host'.paused
    BY DEF PauseKnown, OnlyHarmless, Harmless, Alive, Live
  <2>1. Live(panel[p]) /\ panel[p].enabled
    BY <1>1
  <2>2. OnlyHarmless => panel[p].transport.paused = host.paused
    BY <2>1 DEF IInv, PauseKnown, OnlyHarmless, Harmless, Alive, Live
  <2> QED
    BY <2>1, <2>2
<1>7. CarriedOrSettled'
  <2>1. \A p \in Panels :
           /\ panel'[p].status = "open"
           /\ panel'[p].transport.state = "automatic_seek_pending"
           => (SettlingComes => SettlingComes')
    BY <1>4 DEF Settling
  <2> QED
    BY <1>1, <1>2, <1>5, <2>1, CarriedKept
<1> QED
  BY <1>2, <1>4, <1>5, <1>6, <1>7 DEF IInv, Shape

LEMMA NoticeTyped ==
  ASSUME NEW n \in Notice
  PROVE  /\ n.kind \in {"starting", "pause"} => n.paused \in BOOLEAN
         /\ n.kind \in {"new_track", "edited"} => n.track \in Tracks
         /\ n.kind = "seek" => n.time \in 0 .. MaxPosition
BY DEF Notice

(* on_playback_starting and on_playback_stop *)
LEMMA ClearEditorsStep ==
  ASSUME IInv, notices # <<>>, notices' = Tail(notices), UNCHANGED <<host, deferred, seen>>,
         NEW state \in {"stopped", "paused", "playing"},
         NEW reason \in LoopTransportResetReason,
         ReplaceEditors([p \in Panels |->
           clear_editor([panel[p] EXCEPT !.playback_state = state], reason)])
  PROVE  IInv'
<1> DEFINE replaced == [p \in Panels |->
             clear_editor([panel[p] EXCEPT !.playback_state = state], reason)]
<1>1. ASSUME NEW p \in Panels, Alive(p)
      PROVE  TurnedOff(panel[p], replaced[p])
  <2> DEFINE q == [panel[p] EXCEPT !.playback_state = state]
             u == clear_editor(q, reason)
  <2>1. panel[p] \in PanelRecord /\ Live(panel[p])
    BY <1>1, StateTyped DEF Alive, Live
  <2>2. q \in PanelRecord /\ q.status = panel[p].status /\ q.transport = panel[p].transport
    BY <2>1, Restating
  <2>3. replaced[p] = u
    OBVIOUS
  <2> HIDE DEF q
  <2>4. TurnedOff(q, u)
    BY <2>1, <2>2, Clearing DEF Live
  <2> HIDE DEF u, replaced
  <2> QED
    BY <2>2, <2>3, <2>4 DEF TurnedOff
<1> HIDE DEF replaced
<1> QED
  BY <1>1, ReplaceEditorsStep DEF replaced

LEMMA OnPlaybackNewTrackStep ==
  ASSUME IInv, DeliverNotice, OnPlaybackNewTrack(Head(notices))
  PROVE  IInv'
<1> DEFINE n == Head(notices)
<1>1. notices # <<>> /\ notices' = Tail(notices) /\ UNCHANGED <<host, deferred, seen>>
  BY DEF DeliverNotice
<1>2. n.track \in Tracks
  BY <1>1, NoticeTaken, NoticeTyped DEF OnPlaybackNewTrack
<1> DEFINE loaded(region) ==
      [p \in Panels |->
        load_editor_for_track(refresh_playback_snapshot(panel[p]), n.track, region)]
<1>3. PICK region \in Regions : ReplaceEditors(loaded(region))
  BY DEF OnPlaybackNewTrack
<1>4. ASSUME NEW p \in Panels, Alive(p)
      PROVE  TurnedOff(panel[p], loaded(region)[p])
  <2> DEFINE q == refresh_playback_snapshot(panel[p])
             u == load_editor_for_track(q, n.track, region)
  <2>1. panel[p] \in PanelRecord /\ Live(panel[p])
    BY <1>4, StateTyped DEF Alive, Live
  <2>2. q \in PanelRecord /\ q.status = panel[p].status /\ q.transport = panel[p].transport
    BY <2>1, Refreshing
  <2>3. loaded(region)[p] = u
    OBVIOUS
  <2> HIDE DEF q, n
  <2>4. TurnedOff(q, u)
    BY <1>2, <2>1, <2>2, Loading DEF Live
  <2> HIDE DEF u, loaded
  <2> QED
    BY <2>2, <2>3, <2>4 DEF TurnedOff
<1> HIDE DEF loaded
<1> QED
  BY <1>1, <1>3, <1>4, ReplaceEditorsStep

LEMMA OnPlaybackPauseStep ==
  ASSUME IInv, DeliverNotice, OnPlaybackPause(Head(notices))
  PROVE  IInv'
<1> DEFINE n == Head(notices)
           paused(p) == [panel[p] EXCEPT !.transport = SetPaused(@, n.paused)]
           shown(p) == refresh_playback_snapshot(paused(p))
<1>1. /\ notices # <<>> /\ notices' = Tail(notices) /\ n.kind = "pause"
      /\ UNCHANGED <<host, deferred, seen, owner, owed>> /\ owed' \subseteq Panels
      /\ panel' = [p \in Panels |-> IF Alive(p) THEN shown(p) ELSE panel[p]]
  BY StateTyped DEF DeliverNotice, OnPlaybackPause
<1>2. n.paused \in BOOLEAN
  BY <1>1, NoticeTaken, NoticeTyped
<1>3. ASSUME NEW p \in Panels
      PROVE  /\ panel'[p] \in PanelRecord
             /\ Kept(panel[p], panel'[p])
             /\ Alive(p) => panel'[p].transport.paused = n.paused
  <2> DEFINE v == SetPaused(panel[p].transport, n.paused)
             q == paused(p)
             u == shown(p)
  <2>1. panel[p] \in PanelRecord /\ panel[p].transport \in TransportRecord
    BY StateTyped DEF PanelRecord
  <2>2. Still(panel[p].transport, v) /\ v.paused = n.paused /\ v \in TransportRecord
    BY <1>2, <2>1, PausedIsStill DEF Still
  <2>3. q = [panel[p] EXCEPT !.transport = v] /\ u = refresh_playback_snapshot(q)
        /\ panel'[p] = IF Alive(p) THEN u ELSE panel[p]
    BY <1>1
  <2> HIDE DEF v, q, u, paused, shown
  <2>4. /\ q \in PanelRecord /\ q.status = panel[p].status /\ q.enabled = panel[p].enabled
        /\ q.region = panel[p].region /\ q.track = panel[p].track /\ q.transport = v
    BY <2>1, <2>2, <2>3 DEF PanelRecord
  <2>5. /\ u \in PanelRecord /\ u.status = panel[p].status /\ u.enabled = panel[p].enabled
        /\ u.region = panel[p].region /\ u.track = panel[p].track /\ u.transport = v
    BY <2>3, <2>4, Refreshing
  <2>6. CASE Alive(p)
    <3>1. Kept(panel[p], u)
      BY <2>2, <2>5, <2>6 DEF Kept, Alive
    <3> QED
      BY <2>2, <2>3, <2>5, <2>6, <3>1
  <2>7. CASE ~ Alive(p)
    BY <2>1, <2>3, <2>7, NothingKept
  <2> QED
    BY <2>6, <2>7
<1>4. panel' \in [Panels -> PanelRecord]
  BY <1>1, <1>3
<1>5. OnlyHarmless' => \A p \in Panels : Live(panel[p]) /\ panel[p].enabled =>
         panel'[p].transport.paused = host.paused
  BY <1>1, <1>3, NoticeTaken DEF Live, Alive
<1> HIDE DEF n
<1> QED
  BY <1>1, <1>3, <1>4, <1>5, LoopsKeptStep DEF n

LEMMA OnPlaybackDynamicInfoTrackStep ==
  ASSUME IInv, DeliverNotice, OnPlaybackDynamicInfoTrack(Head(notices))
  PROVE  IInv'
<1> DEFINE shown(p) == refresh_playback_snapshot(panel[p])
<1>1. /\ notices # <<>> /\ notices' = Tail(notices) /\ Head(notices).kind = "dynamic_info"
      /\ UNCHANGED <<host, deferred, seen, owner, owed>> /\ owed' \subseteq Panels
      /\ panel' = [p \in Panels |-> IF Alive(p) THEN shown(p) ELSE panel[p]]
  BY StateTyped DEF DeliverNotice, OnPlaybackDynamicInfoTrack
<1>2. ASSUME NEW p \in Panels
      PROVE  /\ panel'[p] \in PanelRecord
             /\ Kept(panel[p], panel'[p])
             /\ panel'[p].transport.paused = panel[p].transport.paused
  <2>1. panel[p] \in PanelRecord /\ panel[p].transport \in TransportRecord
    BY StateTyped DEF PanelRecord
  <2>2. /\ shown(p) \in PanelRecord /\ shown(p).status = panel[p].status
        /\ shown(p).enabled = panel[p].enabled /\ shown(p).region = panel[p].region
        /\ shown(p).track = panel[p].track /\ shown(p).transport = panel[p].transport
    BY <2>1, Refreshing
  <2>3. panel'[p] = IF Alive(p) THEN shown(p) ELSE panel[p]
    BY <1>1
  <2> HIDE DEF shown
  <2>4. CASE Alive(p)
    BY <2>1, <2>2, <2>3, <2>4 DEF Kept, Still, Alive
  <2>5. CASE ~ Alive(p)
    BY <2>1, <2>3, <2>5, NothingKept
  <2> QED
    BY <2>4, <2>5
<1>3. panel' \in [Panels -> PanelRecord]
  BY <1>1, <1>2
<1>4. OnlyHarmless' => OnlyHarmless
  BY <1>1, NoticeTaken DEF Harmless
<1> QED
  BY <1>1, <1>2, <1>3, <1>4, LoopsKeptStep

(* on_playback_seek answers whatever jump is under way. *)
LEMMA OnPlaybackSeekStep ==
  ASSUME IInv, DeliverNotice, OnPlaybackSeek(Head(notices))
  PROVE  IInv'
<1> DEFINE n == Head(notices)
           answered(p) == observe_transport_seek(panel[p], n.time)
<1>1. /\ notices # <<>> /\ notices' = Tail(notices) /\ n.kind = "seek"
      /\ UNCHANGED <<host, deferred, seen, owner>> /\ owed' \subseteq Panels
      /\ panel' = [p \in Panels |-> IF Alive(p) THEN answered(p) ELSE panel[p]]
  BY StateTyped DEF DeliverNotice, OnPlaybackSeek
<1>2. n.time \in 0 .. MaxPosition
  BY <1>1, NoticeTaken, NoticeTyped
<1>3. ASSUME NEW p \in Panels
      PROVE  /\ panel'[p] \in PanelRecord
             /\ Kept(panel[p], panel'[p]) \/ Replied(panel[p], panel'[p])
             /\ panel'[p].status = "open" => panel'[p].transport.state # "automatic_seek_pending"
             /\ panel'[p].transport.paused = panel[p].transport.paused
  <2> DEFINE t == panel[p].transport
             v == ObserveSeek(t, n.time, t.generation)
             u == [panel[p] EXCEPT !.transport = v]
  <2>1. panel[p] \in PanelRecord /\ t \in TransportRecord
    BY StateTyped DEF PanelRecord
  <2>2. CASE Alive(p) /\ panel[p].enabled
    <3>1. t.enabled
      BY <2>2, StateTyped DEF Shape, EngineMatchesTransport
    <3>2. Answered(t, v) /\ v.paused = t.paused
      BY <1>2, <2>1, <3>1, SeekObserved
    <3>3. panel'[p] = u
      BY <1>1, <2>2 DEF observe_transport_seek
    <3>4. v \in TransportRecord
      BY <3>2 DEF Answered
    <3> HIDE DEF v
    <3>5. /\ u \in PanelRecord /\ u.status = panel[p].status /\ u.enabled = panel[p].enabled
          /\ u.region = panel[p].region /\ u.track = panel[p].track /\ u.transport = v
      BY <2>1, <3>4 DEF PanelRecord
    <3> HIDE DEF u
    <3>6. Replied(panel[p], u)
      BY <2>2, <3>2, <3>5 DEF Replied, Alive, Live
    <3>7. u.transport.state # "automatic_seek_pending"
      BY <3>2, <3>5 DEF Answered
    <3> QED
      BY <3>2, <3>3, <3>5, <3>6, <3>7
  <2>3. CASE ~ (Alive(p) /\ panel[p].enabled)
    <3>1. panel'[p] = panel[p]
      BY <1>1, <2>3 DEF observe_transport_seek
    <3>2. panel[p].status = "open" => panel[p].transport.state # "automatic_seek_pending"
      BY <2>3, PendingOwns, StateTyped DEF Alive
    <3> QED
      BY <2>1, <3>1, <3>2, NothingKept
  <2> QED
    BY <2>2, <2>3
<1>4. panel' \in [Panels -> PanelRecord]
  BY <1>1, <1>3
<1>5. OnlyHarmless' => OnlyHarmless
  BY <1>1, NoticeTaken DEF Harmless
<1> HIDE DEF answered
<1> QED
  BY <1>1, <1>3, <1>4, <1>5, LoopsKeptStep

LEMMA DeliverNoticeStep ==
  ASSUME IInv, DeliverNotice
  PROVE  IInv'
<1> DEFINE n == Head(notices)
<1>1. notices # <<>> /\ notices' = Tail(notices) /\ UNCHANGED <<host, deferred, seen>>
  BY DEF DeliverNotice
<1>2. CASE OnPlaybackStarting(n)
  <2> DEFINE state == IF n.paused THEN "paused" ELSE "playing"
  <2>1. ReplaceEditors([p \in Panels |->
          clear_editor([panel[p] EXCEPT !.playback_state = state], "track_changed")])
    BY <1>2 DEF OnPlaybackStarting
  <2>2. state \in {"stopped", "paused", "playing"}
    OBVIOUS
  <2> HIDE DEF state
  <2> QED
    BY <1>1, <2>1, <2>2, ClearEditorsStep DEF LoopTransportResetReason
<1>3. CASE OnPlaybackNewTrack(n)
  BY <1>3, OnPlaybackNewTrackStep
<1>4. CASE OnPlaybackStop(n)
  <2>1. ReplaceEditors([p \in Panels |->
          clear_editor([panel[p] EXCEPT !.playback_state = "stopped"], "stopped")])
    BY <1>4 DEF OnPlaybackStop
  <2> QED
    BY <1>1, <2>1, ClearEditorsStep DEF LoopTransportResetReason
<1>5. CASE OnPlaybackPause(n)
  BY <1>5, OnPlaybackPauseStep
<1>6. CASE OnPlaybackDynamicInfoTrack(n)
  BY <1>6, OnPlaybackDynamicInfoTrackStep
<1>7. CASE OnPlaybackSeek(n)
  BY <1>7, OnPlaybackSeekStep
<1> QED
  BY <1>2, <1>3, <1>4, <1>5, <1>6, <1>7 DEF DeliverNotice

------------------------------------------------------------------------------
(* The host *)

(* Nothing happens in the panels and nothing is called back. *)
LEMMA SilentStep ==
  ASSUME IInv, UNCHANGED <<notices, panel, owner, deferred, owed>>, seen' \subseteq Panels,
         host' \in Host, host'.paused = host.paused,
         host.seeking # None => host'.seeking # None
  PROVE  IInv'
<1>1. OneLoop'
  BY StateTyped DEF OneLoop, Alive
<1>2. \A q \in Panels : Effect(panel[q], panel'[q])
  BY NothingKept
<1>3. \A q \in Panels : Live(panel'[q]) /\ panel'[q].enabled =>
        /\ Live(panel[q]) /\ panel[q].enabled
        /\ panel'[q].transport.paused = panel[q].transport.paused
  OBVIOUS
<1>4. panel' \in [Panels -> PanelRecord] /\ owner' \in Panels \cup {None} /\ owed' \subseteq Panels
  BY StateTyped
<1> QED
  BY <1>1, <1>2, <1>3, <1>4, PanelsStep

(* The host changes and has one more callback to make.  One that settles   *)
(* jumps makes up for a seek that is abandoned, one that tells of playback *)
(* starting, stopping or changing track for a pause that is overtaken.     *)
LEMMA NoticeStep ==
  ASSUME IInv, NEW n \in Notice, notices' = Append(notices, n),
         UNCHANGED <<panel, owner, deferred, owed>>, seen' \subseteq Panels,
         host' \in Host,
         n.kind \in Harmless => host'.paused = host.paused,
         n.kind = "pause" => n.paused = host'.paused,
         host.seeking # None => host'.seeking # None \/ n.kind \in Settling
  PROVE  IInv'
<1>1. /\ notices \in Seq(Notice) /\ Len(notices) \in Nat
      /\ DOMAIN notices = 1 .. Len(notices)
      /\ notices' \in Seq(Notice)
      /\ Len(notices') = Len(notices) + 1
      /\ DOMAIN notices' = 1 .. Len(notices')
      /\ notices'[Len(notices')] = n
      /\ \A i \in 1 .. Len(notices) : notices'[i] = notices[i]
  BY DEF IInv
<1>2. \A i \in 1 .. Len(notices') : i = Len(notices') \/ i \in 1 .. Len(notices)
  BY <1>1
<1>3. Len(notices') \in 1 .. Len(notices') /\ \A i \in 1 .. Len(notices) : i \in 1 .. Len(notices')
  BY <1>1
<1>4. \A q \in Panels : Effect(panel[q], panel'[q])
  BY NothingKept
<1>5. Shape'
  <2>1. /\ panel' \in [Panels -> PanelRecord] /\ owner' \in Panels \cup {None}
        /\ owed' \subseteq Panels
    BY StateTyped
  <2> QED
    BY <1>1, <1>4, <2>1, ShapeKept
<1>6. OneLoop'
  BY StateTyped DEF OneLoop, Alive
<1>7. OnlyHarmless' => OnlyHarmless /\ n.kind \in Harmless
  BY <1>1, <1>3 DEF OnlyHarmless
<1>8. PauseKnown'
  <2> SUFFICES ASSUME NEW p \in Panels, Live(panel[p]), panel[p].enabled, OnlyHarmless'
               PROVE  panel[p].transport.paused = host'.paused
    BY DEF PauseKnown, OnlyHarmless, Harmless, Alive, Live
  <2>1. panel[p].transport.paused = host.paused
    BY <1>7 DEF IInv, PauseKnown, OnlyHarmless, Harmless, Alive, Live
  <2> QED
    BY <1>7, <2>1
<1>9. PausesTold'
  <2> SUFFICES ASSUME NEW i \in 1 .. Len(notices'), notices'[i].kind = "pause",
                      \A j \in i + 1 .. Len(notices') : notices'[j].kind \in Harmless
               PROVE  notices'[i].paused = host'.paused
    BY DEF PausesTold
  <2>1. CASE i = Len(notices')
    BY <1>1, <2>1
  <2>2. CASE i \in 1 .. Len(notices)
    <3>1. notices[i].kind = "pause"
      BY <1>1, <2>2
    <3>2. ASSUME NEW j \in i + 1 .. Len(notices)
          PROVE  notices[j].kind \in Harmless
      <4>1. j \in i + 1 .. Len(notices') /\ j \in 1 .. Len(notices)
        BY <1>1, <2>2
      <4> QED
        BY <1>1, <4>1
    <3>3. notices[i].paused = host.paused
      BY <2>2, <3>1, <3>2 DEF IInv, PausesTold
    <3>4. Len(notices') \in i + 1 .. Len(notices')
      BY <1>1, <2>2
    <3>5. n.kind \in Harmless
      BY <1>1, <3>4
    <3> QED
      BY <1>1, <2>2, <3>3, <3>5
  <2> QED
    BY <1>2, <2>1, <2>2
<1>10. SettlingComes => SettlingComes'
  BY <1>1, <1>3 DEF SettlingComes
<1>11. n.kind \in Settling => SettlingComes'
  BY <1>1, <1>3 DEF SettlingComes, Settling
<1>12. CarriedOrSettled'
  BY <1>4, <1>5, <1>6, <1>10, <1>11, CarriedKept
<1> QED
  BY <1>1, <1>5, <1>6, <1>8, <1>9, <1>12 DEF IInv, Shape

(* A change of the host that is called back. *)
LEMMA HostChangesStep ==
  ASSUME IInv, NEW h, NEW n \in Notice, HostChanges(h, n), h \in Host,
         h.events = host.events,
         n.kind \in Harmless => h.paused = host.paused,
         n.kind = "pause" => n.paused = h.paused,
         host.seeking # None => h.seeking # None \/ n.kind \in Settling
  PROVE  IInv'
<1>1. host.events + 1 \in 0 .. MaxEvents
  BY StateTyped, PanelsAssumption DEF Host, HostChanges
<1>2. host' = [h EXCEPT !.events = host.events + 1]
  BY DEF HostChanges
<1>3. host' \in Host /\ host'.paused = h.paused /\ host'.seeking = h.seeking
  BY <1>1, <1>2 DEF Host
<1>4. /\ notices' = Append(notices, n) /\ UNCHANGED <<panel, owner, deferred, owed>>
      /\ seen' \subseteq Panels
  BY DEF HostChanges
<1> QED
  BY <1>3, <1>4, NoticeStep

LEMMA PlaybackStep ==
  ASSUME IInv,
         \/ \E paused \in BOOLEAN : StartPlayback(paused)
         \/ \E track \in Tracks : PlayTrack(track)
         \/ EditTrack \/ UpdateInfo \/ StopPlayback \/ TogglePause
  PROVE  IInv'
<1>1. host \in Host /\ 0 \in 0 .. MaxPosition /\ host.paused \in BOOLEAN
  BY StateTyped, PanelsAssumption
<1>2. ASSUME NEW paused \in BOOLEAN, StartPlayback(paused)
      PROVE  IInv'
  <2> DEFINE h == [host EXCEPT !.playing = TRUE, !.paused = paused, !.position = 0]
             n == [kind |-> "starting", paused |-> paused]
  <2>1. h \in Host /\ h.events = host.events /\ h.seeking = host.seeking
    BY <1>1 DEF Host
  <2>2. n \in Notice /\ n.kind = "starting"
    BY DEF Notice
  <2>3. HostChanges(h, n)
    BY <1>2 DEF StartPlayback
  <2> HIDE DEF h, n
  <2> QED
    BY <2>1, <2>2, <2>3, HostChangesStep DEF Harmless
<1>3. ASSUME NEW track \in Tracks, PlayTrack(track)
      PROVE  IInv'
  <2> DEFINE h == [host EXCEPT !.track = track, !.position = 0, !.seeking = None]
             n == [kind |-> "new_track", track |-> track]
  <2>1. h \in Host /\ h.events = host.events
    BY <1>1 DEF Host
  <2>2. n \in Notice /\ n.kind = "new_track"
    BY DEF Notice
  <2>3. HostChanges(h, n)
    BY <1>3 DEF PlayTrack
  <2> HIDE DEF h, n
  <2> QED
    BY <2>1, <2>2, <2>3, HostChangesStep DEF Harmless, Settling
<1>4. ASSUME EditTrack
      PROVE  IInv'
  <2> DEFINE n == [kind |-> "edited", track |-> host.track]
  <2>1. n \in Notice /\ n.kind = "edited"
    BY <1>1, <1>4 DEF EditTrack, Host, Notice
  <2>2. HostChanges(host, n)
    BY <1>4 DEF EditTrack
  <2> HIDE DEF n
  <2> QED
    BY <1>1, <2>1, <2>2, HostChangesStep
<1>5. ASSUME UpdateInfo
      PROVE  IInv'
  <2> DEFINE n == [kind |-> "dynamic_info"]
  <2>1. n \in Notice /\ n.kind = "dynamic_info"
    BY DEF Notice
  <2>2. HostChanges(host, n)
    BY <1>5 DEF UpdateInfo
  <2> HIDE DEF n
  <2> QED
    BY <1>1, <2>1, <2>2, HostChangesStep
<1>6. ASSUME StopPlayback
      PROVE  IInv'
  <2> DEFINE h == [host EXCEPT !.playing = FALSE, !.paused = FALSE, !.track = None,
                               !.position = 0, !.seeking = None]
             n == [kind |-> "stop"]
  <2>1. h \in Host /\ h.events = host.events
    BY <1>1 DEF Host
  <2>2. n \in Notice /\ n.kind = "stop"
    BY DEF Notice
  <2>3. HostChanges(h, n)
    BY <1>6 DEF StopPlayback
  <2> HIDE DEF h, n
  <2> QED
    BY <2>1, <2>2, <2>3, HostChangesStep DEF Harmless, Settling
<1>7. ASSUME TogglePause
      PROVE  IInv'
  <2> DEFINE h == [host EXCEPT !.paused = ~ @]
             n == [kind |-> "pause", paused |-> ~ host.paused]
  <2>1. /\ h \in Host /\ h.events = host.events /\ h.seeking = host.seeking
        /\ h.paused = (~ host.paused)
    BY <1>1 DEF Host
  <2>2. n \in Notice /\ n.kind = "pause" /\ n.paused = (~ host.paused)
    BY DEF Notice
  <2>3. HostChanges(h, n)
    BY <1>7 DEF TogglePause
  <2> HIDE DEF h, n
  <2> QED
    BY <2>1, <2>2, <2>3, HostChangesStep DEF Harmless
<1> QED
  BY <1>2, <1>3, <1>4, <1>5, <1>6, <1>7

(* The jump happens; its callback is on its way, or is lost. *)
LEMMA PerformSeekStep ==
  ASSUME IInv, PerformSeek
  PROVE  IInv'
<1> DEFINE n == [kind |-> "seek", time |-> host.seeking]
<1>1. host.seeking \in 0 .. MaxPosition
  BY StateTyped DEF Host, PerformSeek
<1>2. host' \in Host /\ host'.paused = host.paused
  BY <1>1, StateTyped DEF Host, PerformSeek
<1>3. n \in Notice /\ n.kind = "seek"
  BY <1>1 DEF Notice
<1>4. UNCHANGED <<panel, owner, deferred, owed>> /\ seen' \subseteq Panels
  BY DEF PerformSeek
<1>5. CASE notices' = Append(notices, n)
  <2> HIDE DEF n
  <2> QED
    BY <1>2, <1>3, <1>4, <1>5, NoticeStep DEF Settling
<1>6. CASE LossyNotices /\ UNCHANGED notices
  <2>1. \A q \in Panels : Effect(panel[q], panel'[q])
    BY <1>4, NothingKept
  <2>2. Shape'
    <3>1. /\ panel' \in [Panels -> PanelRecord] /\ owner' \in Panels \cup {None}
          /\ owed' \subseteq Panels
      BY <1>4, StateTyped
    <3>2. notices' \in Seq(Notice)
      BY <1>6 DEF IInv
    <3> QED
      BY <1>2, <1>4, <2>1, <3>1, <3>2, ShapeKept
  <2>3. OneLoop'
    BY <1>4, StateTyped DEF OneLoop, Alive
  <2>4. PauseKnown'
    BY <1>2, <1>4, <1>6 DEF IInv, PauseKnown, Alive
  <2>5. PausesTold'
    BY <1>2, <1>6 DEF IInv, PausesTold
  <2>6. CarriedOrSettled'
    BY <1>6 DEF CarriedOrSettled
  <2> QED
    BY <2>2, <2>3, <2>4, <2>5, <2>6 DEF IInv, Shape
<1> QED
  BY <1>5, <1>6 DEF PerformSeek

LEMMA AdvanceStep ==
  ASSUME IInv, Advance
  PROVE  IInv'
<1>1. host.position + 1 \in 0 .. MaxPosition
  BY StateTyped, PanelsAssumption DEF Advance
<1>2. host' = [host EXCEPT !.position = host.position + 1]
  BY DEF Advance
<1>3. host' \in Host /\ host'.paused = host.paused /\ host'.seeking = host.seeking
  BY <1>1, <1>2, StateTyped DEF Host
<1>4. UNCHANGED <<notices, panel, owner, deferred, owed>> /\ seen' \subseteq Panels
  BY DEF Advance
<1> QED
  BY <1>3, <1>4, SilentStep

LEMMA UserSeekStep ==
  ASSUME IInv, NEW position \in 0 .. MaxPosition, UserSeek(position)
  PROVE  IInv'
<1>1. host.events + 1 \in 0 .. MaxEvents
  BY StateTyped, PanelsAssumption DEF Host, UserSeek
<1>2. host' = [host EXCEPT !.events = host.events + 1, !.seeking = position]
  BY DEF UserSeek
<1>3. host' \in Host /\ host'.paused = host.paused /\ host'.seeking # None
  <2>1. position # None
    BY NoneAssumption
  <2> QED
    BY <1>1, <1>2, <2>1, StateTyped DEF Host
<1>4. UNCHANGED <<notices, panel, owner, deferred, owed>> /\ seen' \subseteq Panels
  BY StateTyped DEF UserSeek
<1> QED
  BY <1>3, <1>4, SilentStep

------------------------------------------------------------------------------
(* IInv is inductive *)

LEMMA InitSound ==
  ASSUME Init
  PROVE  IInv
<1>1. host \in Host
  <2>1. 0 \in 0 .. MaxPosition /\ 0 \in 0 .. MaxEvents
    BY PanelsAssumption
  <2>2. {FALSE} \subseteq BOOLEAN
    OBVIOUS
  <2>3. host \in [playing : BOOLEAN, paused : {FALSE}, track : Tracks \cup {None},
                  position : {0}, seeking : {None}, events : {0}]
    BY DEF Init
  <2> QED
    BY <2>1, <2>2, <2>3 DEF Host
<1>2. notices = <<>> /\ notices \in Seq(Notice) /\ Len(notices) = 0
  BY DEF Init
<1>3. InitialTransport \in TransportRecord
  BY NoneAssumption DEF InitialTransport, TransportRecord, LoopTransportState,
     LoopTransportResetReason, LoopRegion, Position
<1>4. NewPanel \in PanelRecord
  BY <1>3, PanelsAssumption DEF NewPanel, PanelRecord
<1>5. IntentSound(InitialTransport)
  BY DEF InitialTransport, IntentSound, Returning
<1>6. /\ NewPanel.status = "absent" /\ NewPanel.transport = InitialTransport
      /\ \A p \in Panels : panel[p] = NewPanel /\ ~ Alive(p)
      /\ panel = [p \in Panels |-> NewPanel]
  BY DEF Init, NewPanel, Alive
<1> HIDE DEF NewPanel, InitialTransport
<1>7. TypeOK
  <2>1. panel \in [Panels -> PanelRecord]
    BY <1>4, <1>6
  <2> QED
    BY <1>1, <1>2, <2>1 DEF Init, TypeOK, PanelRecord
<1>8. OneLoop
  BY <1>6, PanelsAssumption DEF Init, OneLoop
<1>9. EngineMatchesTransport /\ PauseKnown /\ IntentsSound /\ AbsentIsNew
  BY <1>5, <1>6 DEF EngineMatchesTransport, PauseKnown, IntentsSound, AbsentIsNew
<1>10. CopiesDistinct
  BY DEF Init, CopiesDistinct
<1>11. PausesTold
  BY <1>2 DEF PausesTold
<1>12. CarriedOrSettled
  BY <1>6 DEF CarriedOrSettled
<1> QED
  BY <1>2, <1>7, <1>8, <1>9, <1>10, <1>11, <1>12 DEF IInv

LEMMA NextSound ==
  ASSUME IInv, [Next]_vars
  PROVE  IInv'
<1>1. CASE UNCHANGED vars
  <2>1. UNCHANGED <<notices, panel, owner, deferred, owed>> /\ host' = host /\ seen' = seen
    BY <1>1 DEF vars
  <2> QED
    BY <2>1, StateTyped, SilentStep
<1>2. ASSUME NEW p \in Panels,
             \/ \E requested \in BOOLEAN : TurnLoopOff(p, requested)
             \/ TurnLoopOn(p)
             \/ \E region \in Regions : SetMarkers(p, region)
             \/ \E region \in Regions : CreatePanel(p, region)
             \/ CloseWindow(p)
             \/ DestroyPanel(p)
             \/ \E queued \in BOOLEAN : ObservePlayback(p, queued)
      PROVE  IInv'
  BY <1>2, TurnLoopOffStep, TurnLoopOnStep, SetMarkersStep, CreatePanelStep, CloseWindowStep,
     DestroyPanelStep, ObservePlaybackStep
<1>3. ASSUME NEW d \in deferred, ExecuteTransportSeek(d)
      PROVE  IInv'
  <2>1. DropSeek(d) \/ ForceOffInsteadOfSeek(d) \/ RearmInsteadOfSeek(d) \/ Seek(d)
    BY <1>3 DEF ExecuteTransportSeek
  <2> QED
    BY <1>3, <2>1, DropSeekStep, ForceOffInsteadOfSeekStep, RearmInsteadOfSeekStep, SeekStep
<1>4. CASE DeliverNotice
  BY <1>4, DeliverNoticeStep
<1>5. CASE \E position \in 0 .. MaxPosition : UserSeek(position)
  BY <1>5, UserSeekStep
<1>6. CASE \/ \E paused \in BOOLEAN : StartPlayback(paused)
           \/ \E track \in Tracks : PlayTrack(track)
           \/ EditTrack \/ UpdateInfo \/ StopPlayback \/ TogglePause
  BY <1>6, PlaybackStep
<1>7. CASE Advance \/ PerformSeek
  BY <1>7, AdvanceStep, PerformSeekStep
<1> QED
  BY <1>1, <1>2, <1>3, <1>4, <1>5, <1>6, <1>7 DEF Next

(* Every reachable state satisfies IInv, for all values of the constants. *)
THEOREM Invariance == Spec => []IInv
<1>1. Init => IInv
  BY InitSound
<1>2. IInv /\ [Next]_vars => IInv'
  BY NextSound
<1> QED
  BY <1>1, <1>2, PTL DEF Spec

(* Whatever the user, the host, the timers and the main-thread queue do,   *)
(* the records of panels, host and queues are what the code takes them to  *)
(* be; a seek of the host is to a place within the track.                  *)
THEOREM TypeCorrect == Spec => []TypeOK
<1>1. IInv => TypeOK
  BY DEF IInv
<1> QED
  BY <1>1, Invariance, PTL

(* The checkbox, the engine and the transport of every live panel agree,   *)
(* and an enabled transport knows of a pause once its callback is through. *)
THEOREM PanelsStayCoherent == Spec => []PanelsCoherent
<1>1. IInv => PanelsCoherent
  BY DEF IInv, PanelsCoherent
<1> QED
  BY <1>1, Invariance, PTL

(* The loops that are on are exactly active_loop_panel_'s, which is never  *)
(* a panel that is gone or has no track.                                   *)
THEOREM AtMostOneLoop == Spec => []OneLoop
<1>1. IInv => OneLoop
  BY DEF IInv
<1> QED
  BY <1>1, Invariance, PTL

(* Of the copies of a panel's requests in the main-thread queue, in        *)
(* whatever order they run, at most one passes the revalidation.           *)
THEOREM QueuedOnce == Spec => []IntentsQueuedOnce
<1>1. IInv => IntentsQueuedOnce
  <2> SUFFICES ASSUME IInv, NEW p \in Panels
               PROVE  Cardinality({d \in deferred : d.panel = p /\ Executable(d)}) <= 1
    BY DEF IntentsQueuedOnce
  <2> DEFINE set == {d \in deferred : d.panel = p /\ Executable(d)}
  <2>1. \A d, e \in set : d = e
    <3> SUFFICES ASSUME NEW d \in set, NEW e \in set
                 PROVE  d = e
      OBVIOUS
    <3>1. d.request = panel[p].transport.pending_request
          /\ e.request = panel[p].transport.pending_request
      BY SeekTarget
    <3> QED
      BY <3>1, CopyTyped DEF IInv
  <2> HIDE DEF set
  <2>2. Cardinality(set) <= 1
    <3>1. CASE set = {}
      <4>1. Cardinality(set) = 0
        BY <3>1, FS_EmptySet
      <4> QED
        BY <4>1
    <3>2. CASE set # {}
      <4>1. PICK d : set = {d}
        BY <2>1, <3>2
      <4>2. Cardinality({d}) = 1
        BY FS_Singleton
      <4> QED
        BY <4>1, <4>2
    <3> QED
      BY <3>1, <3>2
  <2> QED
    BY <2>2 DEF set
<1> QED
  BY <1>1, Invariance, PTL

(* A jump that was asked for is never lost by everybody: its handler will  *)
(* accept it, the host is seeking, or a callback is on its way.            *)
THEOREM PendingIsCarried == Spec => []IntentCarried
<1>1. IInv => IntentCarried
  <2>1. notices \in Seq(Notice) /\ SettlingComes => notices # <<>>
    BY DEF SettlingComes
  <2> QED
    BY <2>1 DEF IInv, CarriedOrSettled, IntentCarried
<1> QED
  BY <1>1, Invariance, PTL

(* execute_transport_seek seeks only for the one enabled loop, on the      *)
(* track its markers belong to, while playback runs, and to the IN that    *)
(* loop has now.                                                           *)
THEOREM SeeksStayCurrent == Spec => SeeksAreCurrent
<1> DEFINE Current ==
      \A d \in deferred \ deferred' : host' # host =>
       /\ owner = d.panel
       /\ host.playing /\ ~host.paused
       /\ host.track = panel[d.panel].track
       /\ host'.seeking = panel[d.panel].region.in_seconds
       /\ d.request.crossing_position_seconds >= panel[d.panel].region.out_seconds
<1>1. ASSUME IInv, [Next]_vars
      PROVE  Current
  <2> SUFFICES ASSUME NEW d \in deferred, d \notin deferred', host' # host
               PROVE  /\ owner = d.panel
                      /\ host.playing /\ ~host.paused
                      /\ host.track = panel[d.panel].track
                      /\ host'.seeking = panel[d.panel].region.in_seconds
                      /\ d.request.crossing_position_seconds >= panel[d.panel].region.out_seconds
    OBVIOUS
  <2>1. ASSUME NEW e \in deferred, ExecuteTransportSeek(e)
        PROVE  e = d /\ Seek(d)
    BY <2>1 DEF ExecuteTransportSeek, DropSeek, ForceOffInsteadOfSeek, RearmInsteadOfSeek
  <2>2. \E e \in deferred : ExecuteTransportSeek(e)
    <3>1. deferred' # deferred
      OBVIOUS
    <3>2. ~ Advance /\ ~ PerformSeek /\ ~ DeliverNotice
      BY <3>1 DEF Advance, PerformSeek, DeliverNotice
    <3>3. /\ ~ EditTrack /\ ~ UpdateInfo /\ ~ StopPlayback /\ ~ TogglePause
          /\ ~ \E paused \in BOOLEAN : StartPlayback(paused)
          /\ ~ \E track \in Tracks : PlayTrack(track)
      BY <3>1 DEF EditTrack, UpdateInfo, StopPlayback, TogglePause, StartPlayback, PlayTrack,
         HostChanges
    <3>4. ~ \E position \in 0 .. MaxPosition : UserSeek(position)
      BY <3>1 DEF UserSeek
    <3>5. ASSUME NEW p \in Panels
          PROVE  /\ ~ \E requested \in BOOLEAN : TurnLoopOff(p, requested)
                 /\ ~ TurnLoopOn(p)
                 /\ ~ \E region \in Regions : SetMarkers(p, region)
                 /\ ~ \E region \in Regions : CreatePanel(p, region)
                 /\ ~ CloseWindow(p)
                 /\ ~ DestroyPanel(p)
                 /\ ~ \E queued \in BOOLEAN : ObservePlayback(p, queued)
      <4>1. ~ \E queued \in BOOLEAN : ObservePlayback(p, queued)
        BY DEF ObservePlayback
      <4> QED
        BY <3>1, <4>1 DEF TurnLoopOff, TurnLoopOn, SetMarkers, CreatePanel, CloseWindow,
           DestroyPanel
    <3>6. ~ UNCHANGED vars
      BY <3>1 DEF vars
    <3> QED
      <4>1. Next
        BY <1>1, <3>6
      <4> QED
        BY <3>2, <3>3, <3>4, <3>5, <4>1, Zenon DEF Next
  <2>3. Seek(d)
    BY <2>1, <2>2
  <2>4. /\ Executable(d) /\ host.playing /\ ~ host.paused
        /\ host.track = panel[d.panel].track
        /\ host' = [host EXCEPT !.seeking = d.request.target_seconds]
    BY <2>3 DEF Seek
  <2>5. host'.seeking = d.request.target_seconds
    BY <2>4, StateTyped DEF Host
  <2>6. owner = d.panel
    BY <2>4 DEF Executable
  <2>7. /\ d.request.target_seconds = panel[d.panel].region.in_seconds
        /\ d.request.crossing_position_seconds >= panel[d.panel].region.out_seconds
    <3>1. IInv /\ Executable(d)
      BY <1>1, <2>4
    <3> QED
      BY <3>1, SeekTarget
  <2> QED
    BY <2>4, <2>5, <2>6, <2>7
<1>2. IInv /\ [Next]_vars => [Current]_vars
  BY <1>1
<1> QED
  BY <1>2, Invariance, PTL DEF Spec, SeeksAreCurrent
==============================================================================
