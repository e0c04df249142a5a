------------------------------ MODULE Transport ------------------------------
(***************************************************************************)
(* The class LoopTransport of include/loop_finder/loop_transport.hpp and   *)
(* src/core/loop_transport.cpp as operators on a record: one field per     *)
(* data member, one operator per member function, from the record before   *)
(* the call to the record after it.  LoopTransport.tla puts one such       *)
(* record under an arbitrary caller; LoopPanels.tla gives one to every     *)
(* panel.                                                                  *)
(*                                                                         *)
(* Seconds are integers.  NonFinite stands for the NaNs and infinities     *)
(* that std::isfinite rejects and None for an empty std::optional.         *)
(* Left out, because they are only displayed: the monotonic time stamps    *)
(* and the overshoot, both computed from fields that are kept.             *)
(***************************************************************************)
EXTENDS Integers

CONSTANTS None, NonFinite,
          Tolerance        \* kAutomaticSeekTargetToleranceSeconds

ASSUME NoneAssumption == None \notin Int /\ NonFinite \notin Int /\ None # NonFinite
ASSUME ToleranceAssumption == Tolerance \in Nat

------------------------------------------------------------------------------
(* The types of loop_transport.hpp *)

LoopTransportState == {"disabled", "armed", "automatic_seek_pending",
                       "waiting_for_loop_in", "manually_disarmed"}
LoopTransportResetReason == {"none", "loop_disabled", "stopped", "track_changed",
                             "invalid_markers", "unseekable", "shutdown"}

Position == Int \cup {NonFinite}
LoopRegion == [in_seconds : Position, out_seconds : Position]
LoopSeekRequest == [target_seconds : Position, crossing_position_seconds : Int,
                    generation : Nat, request_id : Nat]
LoopTimingDiagnostics == [request_id : Nat, crossing_position_seconds : Int,
                          return_position_seconds : Int \cup {None}]

ASSUME NoRecordIsNone == None \notin LoopSeekRequest /\ None \notin LoopTimingDiagnostics

TransportRecord ==
  [state : LoopTransportState, reset_reason : LoopTransportResetReason,
   region : LoopRegion, enabled : BOOLEAN, paused : BOOLEAN,
   generation : Nat, next_request_id : Nat,
   previous_position : Int \cup {None},
   pending_request : LoopSeekRequest \cup {None},
   diagnostics : LoopTimingDiagnostics \cup {None}]

InitialTransport ==
  [state |-> "disabled", reset_reason |-> "loop_disabled",
   region |-> [in_seconds |-> 0, out_seconds |-> 0],
   enabled |-> FALSE, paused |-> FALSE, generation |-> 1, next_request_id |-> 1,
   previous_position |-> None, pending_request |-> None, diagnostics |-> None]

------------------------------------------------------------------------------
IsPendingByTarget(t, request) ==   \* mutant
  /\ t.enabled
  /\ t.state = "automatic_seek_pending"
  /\ t.pending_request.target_seconds = request.target_seconds

IsPending(t, request) ==
  /\ t.enabled
  /\ t.state = "automatic_seek_pending"
  /\ t.pending_request # None
  /\ t.pending_request.generation = request.generation
  /\ t.pending_request.request_id = request.request_id
  /\ t.pending_request.target_seconds = request.target_seconds

ValidRegion(region) ==
  /\ region.in_seconds # NonFinite
  /\ region.in_seconds >= 0
  /\ region.out_seconds # NonFinite
  /\ region.out_seconds > region.in_seconds

Inside(t, position) ==
  /\ position # NonFinite
  /\ position >= t.region.in_seconds
  /\ position < t.region.out_seconds

SameGeneration(t) == [t EXCEPT !.diagnostics = None]   \* mutant

(* A new generation: what was issued or queued under the old one is stale. *)
NextGeneration(t) == [t EXCEPT !.generation = @ + 1, !.diagnostics = None]

ForgetBaselineOnly(t) == [t EXCEPT !.previous_position = None]   \* mutant

ForgetIntentOnly(t) == [t EXCEPT !.pending_request = None]   \* mutant

Forget(t) == [t EXCEPT !.previous_position = None, !.pending_request = None]

Disable(t, reason) ==
  [Forget(NextGeneration(t)) EXCEPT !.enabled = FALSE, !.state = "disabled",
                                    !.reset_reason = reason]

(* The position arm_from takes as baseline: none at or beyond OUT, so that *)
(* arming there cannot look like a crossing.                               *)
Baseline(region, current_position) ==
  IF /\ current_position \notin {None, NonFinite}
     /\ current_position < region.out_seconds
  THEN current_position
  ELSE None

ArmFrom(t, region, current_position) ==
  [Forget(NextGeneration(t)) EXCEPT
     !.region = region, !.enabled = TRUE, !.state = "armed", !.reset_reason = "none",
     !.previous_position = Baseline(region, current_position)]

SetPaused(t, paused) == [t EXCEPT !.paused = paused]

Unpaused(t) == [t EXCEPT !.paused = FALSE]

Enable(t, region, seekable, current_position) ==
  CASE ~ValidRegion(region)              -> Disable(Unpaused(t), "invalid_markers")
    [] ValidRegion(region) /\ ~seekable  -> Disable(Unpaused(t), "unseekable")
    [] ValidRegion(region) /\ seekable   -> ArmFrom(Unpaused(t), region, current_position)

UpdateMarkers(t, region, current_position) ==
  CASE ~ValidRegion(region)               -> Disable(t, "invalid_markers")
    [] ValidRegion(region) /\ t.enabled   -> ArmFrom(t, region, current_position)
    [] ValidRegion(region) /\ ~t.enabled  -> [NextGeneration(t) EXCEPT !.region = region]

Reset(t, reason) == Disable(Unpaused(t), reason)

------------------------------------------------------------------------------
(* observe_position: an observation is heard only by an enabled, unpaused  *)
(* transport of the same generation.                                       *)
HearsPosition(t, position, event_generation) ==
  /\ event_generation = t.generation
  /\ t.enabled
  /\ ~t.paused
  /\ position # NonFinite

CrossesFromAnywhere(t, position) ==   \* mutant
  /\ t.state = "armed"
  /\ t.previous_position # None
  /\ position >= t.region.out_seconds
  /\ position >= t.previous_position

Crosses(t, position) ==
  /\ t.state = "armed"
  /\ t.previous_position # None
  /\ t.previous_position < t.region.out_seconds
  /\ position >= t.region.out_seconds
  /\ position >= t.previous_position

(* observe_position returns a request rather than std::nullopt. *)
Issues(t, position, event_generation) ==
  /\ HearsPosition(t, position, event_generation)
  /\ ValidRegion(t.region)
  /\ Crosses(t, position)

NewRequest(t, position) ==
  [target_seconds |-> t.region.in_seconds, crossing_position_seconds |-> position,
   generation |-> t.generation, request_id |-> t.next_request_id]

Issue(t, position) ==
  [t EXCEPT !.state = "automatic_seek_pending", !.previous_position = None,
            !.pending_request = NewRequest(t, position),
            !.next_request_id = @ + 1,
            !.diagnostics = [request_id |-> t.next_request_id,
                             crossing_position_seconds |-> position,
                             return_position_seconds |-> None]]

Rearm(t, position) == [t EXCEPT !.state = "armed", !.previous_position = position]

(* The jump back is over: the first position inside the loop ends it. *)
Return(t, position) ==
  [Rearm(t, position) EXCEPT
     !.pending_request = None,
     !.diagnostics = IF @ = None THEN None
                     ELSE [@ EXCEPT !.return_position_seconds = position]]

Returning(t) == t.state \in {"automatic_seek_pending", "waiting_for_loop_in"}

ObservePosition(t, position, event_generation) ==
  CASE ~HearsPosition(t, position, event_generation) -> t
    [] OTHER ->
       CASE ~ValidRegion(t.region) -> Reset(t, "invalid_markers")
         [] OTHER ->
            CASE Returning(t) /\ Inside(t, position)                     -> Return(t, position)
              [] t.state = "manually_disarmed" /\ Inside(t, position)    -> Rearm(t, position)
              [] Crosses(t, position)                                    -> Issue(t, position)
              [] t.state = "armed" /\ ~Crosses(t, position)              ->
                   [t EXCEPT !.previous_position = position]
              [] OTHER                                                   -> t

------------------------------------------------------------------------------
(* observe_seek: heard also while paused. *)
HearsSeek(t, position, event_generation) ==
  /\ event_generation = t.generation
  /\ t.enabled
  /\ position # NonFinite

(* std::abs(position_seconds - target_seconds) <= tolerance *)
NearTarget(position, target) ==
  /\ position - target <= Tolerance
  /\ target - position <= Tolerance

IsAutomaticSeek(t, position) ==
  /\ Returning(t)
  /\ t.pending_request # None
  /\ t.pending_request.generation = t.generation
  /\ NearTarget(position, t.pending_request.target_seconds)

ObserveSeek(t, position, event_generation) ==
  CASE ~HearsSeek(t, position, event_generation) -> t
    [] OTHER ->
       CASE IsAutomaticSeek(t, position) ->
              [t EXCEPT !.state = "waiting_for_loop_in", !.previous_position = None]
         [] ~IsAutomaticSeek(t, position) /\ Inside(t, position) ->
              [Rearm(t, position) EXCEPT !.pending_request = None]
         [] OTHER ->
              [Forget(t) EXCEPT !.state = "manually_disarmed"]
==============================================================================
