------------------------- MODULE LoopTransport_proofs -------------------------
(***************************************************************************)
(* Proofs about LoopTransport, for every tolerance, every set of positions *)
(* and regions and every bound.  First what each operator of Transport.tla *)
(* does to the fields of the record, then which of them a call of the      *)
(* program amounts to, then that each preserves IInv; the properties       *)
(* follow from IInv.                                                       *)
(***************************************************************************)
EXTENDS LoopTransport, TLAPS

------------------------------------------------------------------------------
(* Disabling ends a generation and forgets baseline, intent and            *)
(* diagnostics; request numbers go on.                                     *)
LEMMA DisableFields ==
  ASSUME NEW t \in TransportRecord, NEW reason \in LoopTransportResetReason
  PROVE  LET u == Disable(t, reason) IN
         /\ u \in TransportRecord
         /\ u.state = "disabled"
         /\ u.enabled = FALSE
         /\ u.region = t.region
         /\ u.generation = t.generation + 1
         /\ u.next_request_id = t.next_request_id
         /\ u.previous_position = None
         /\ u.pending_request = None
<1>1. t.generation + 1 \in Nat
  BY DEF TransportRecord
<1>2. QED
  BY <1>1 DEF TransportRecord, Disable, Forget, NextGeneration, LoopTransportState

(* Pausing touches nothing but the flag. *)
LEMMA SetPausedFields ==
  ASSUME NEW t \in TransportRecord, NEW paused \in BOOLEAN
  PROVE  LET u == SetPaused(t, paused) IN
         /\ u \in TransportRecord
         /\ \A f \in {"state", "enabled", "region", "generation", "next_request_id",
                      "previous_position", "pending_request", "diagnostics"} : u[f] = t[f]
BY DEF TransportRecord, SetPaused

(* Clearing the pause flag touches nothing else. *)
LEMMA UnpausedFields ==
  ASSUME NEW t \in TransportRecord
  PROVE  LET u == Unpaused(t) IN
         /\ u \in TransportRecord
         /\ \A f \in {"state", "enabled", "region", "generation", "next_request_id",
                      "previous_position", "pending_request", "diagnostics"} : u[f] = t[f]
BY DEF TransportRecord, Unpaused

(* reset is Disable with the pause flag cleared. *)
LEMMA ResetFields ==
  ASSUME NEW t \in TransportRecord, NEW reason \in LoopTransportResetReason
  PROVE  LET u == Reset(t, reason) IN
         /\ u \in TransportRecord
         /\ u.state = "disabled"
         /\ u.enabled = FALSE
         /\ u.region = t.region
         /\ u.generation = t.generation + 1
         /\ u.next_request_id = t.next_request_id
         /\ u.previous_position = None
         /\ u.pending_request = None
<1>1. t.generation + 1 \in Nat
  BY DEF TransportRecord
<1>2. QED
  BY <1>1 DEF TransportRecord, Reset, Unpaused, Disable, Forget, NextGeneration, LoopTransportState

(* Arming starts a generation in the given region, with the given position *)
(* or nothing as its baseline.                                             *)
LEMMA ArmFromFields ==
  ASSUME NEW t \in TransportRecord, NEW region \in LoopRegion,
         NEW position \in Position \cup {None}
  PROVE  LET u == ArmFrom(t, region, position) IN
         /\ u \in TransportRecord
         /\ u.state = "armed"
         /\ u.enabled = TRUE
         /\ u.region = region
         /\ u.generation = t.generation + 1
         /\ u.next_request_id = t.next_request_id
         /\ u.previous_position = Baseline(region, position)
         /\ u.pending_request = None
<1>1. t.generation + 1 \in Nat
  BY DEF TransportRecord
<1>2. Baseline(region, position) \in Int \cup {None}
  BY NoneAssumption DEF Baseline, Position
<1>3. QED
  BY <1>1, <1>2 DEF TransportRecord, ArmFrom, Forget, NextGeneration, LoopTransportState,
                    LoopTransportResetReason

(* enable, accepted: armed, and the pause flag cleared. *)
LEMMA EnableArmsFields ==
  ASSUME NEW t \in TransportRecord, NEW region \in LoopRegion, ValidRegion(region),
         NEW position \in Position \cup {None}
  PROVE  LET u == Enable(t, region, TRUE, position) IN
         /\ u \in TransportRecord
         /\ u.state = "armed"
         /\ u.enabled = TRUE
         /\ u.region = region
         /\ u.generation = t.generation + 1
         /\ u.next_request_id = t.next_request_id
         /\ u.previous_position = Baseline(region, position)
         /\ u.pending_request = None
<1>1. PICK w \in TransportRecord : /\ w = Unpaused(t)
                                  /\ w.generation = t.generation
                                  /\ w.next_request_id = t.next_request_id
  BY UnpausedFields
<1>2. Enable(t, region, TRUE, position) = ArmFrom(w, region, position)
  BY <1>1 DEF Enable
<1>3. LET u == ArmFrom(w, region, position) IN
      /\ u \in TransportRecord
      /\ u.state = "armed"
      /\ u.enabled = TRUE
      /\ u.region = region
      /\ u.generation = w.generation + 1
      /\ u.next_request_id = w.next_request_id
      /\ u.previous_position = Baseline(region, position)
      /\ u.pending_request = None
  BY ArmFromFields
<1>4. QED
  BY <1>1, <1>2, <1>3

(* A marker change of a disabled transport only starts a generation. *)
LEMMA DisabledMarkersFields ==
  ASSUME NEW t \in TransportRecord, NEW region \in LoopRegion
  PROVE  LET u == [NextGeneration(t) EXCEPT !.region = region] IN
         /\ u \in TransportRecord
         /\ u.region = region
         /\ u.generation = t.generation + 1
         /\ \A f \in {"state", "enabled", "next_request_id", "previous_position",
                      "pending_request"} : u[f] = t[f]
<1>1. t.generation + 1 \in Nat
  BY DEF TransportRecord
<1>2. QED
  BY <1>1 DEF TransportRecord, NextGeneration

(* Re-arming and following keep everything but state and baseline. *)
LEMMA RearmFields ==
  ASSUME NEW t \in TransportRecord, NEW position \in Int
  PROVE  LET u == Rearm(t, position) IN
         /\ u \in TransportRecord
         /\ u.state = "armed"
         /\ u.previous_position = position
         /\ \A f \in {"enabled", "region", "generation", "next_request_id",
                      "pending_request", "diagnostics"} : u[f] = t[f]
BY DEF TransportRecord, Rearm, LoopTransportState

(* A return drops the intent and re-arms. *)
LEMMA ReturnFields ==
  ASSUME NEW t \in TransportRecord, NEW position \in Int
  PROVE  LET u == Return(t, position) IN
         /\ u \in TransportRecord
         /\ u.state = "armed"
         /\ u.previous_position = position
         /\ u.pending_request = None
         /\ \A f \in {"enabled", "region", "generation", "next_request_id"} : u[f] = t[f]
<1>1. t.diagnostics # None =>
        [t.diagnostics EXCEPT !.return_position_seconds = position] \in LoopTimingDiagnostics
  BY DEF TransportRecord, LoopTimingDiagnostics
<1>2. QED
  BY <1>1 DEF TransportRecord, Return, Rearm, LoopTransportState

(* A crossing makes the new request the intent and takes its number.  *)
LEMMA IssueFields ==
  ASSUME NEW t \in TransportRecord, NEW position \in Int
  PROVE  LET u == Issue(t, position)
             request == NewRequest(t, position) IN
         /\ u \in TransportRecord
         /\ request \in LoopSeekRequest
         /\ u.state = "automatic_seek_pending"
         /\ u.pending_request = request
         /\ u.next_request_id = t.next_request_id + 1
         /\ u.previous_position = None
         /\ u.diagnostics \in LoopTimingDiagnostics
         /\ u.diagnostics.request_id = t.next_request_id
         /\ u.diagnostics.return_position_seconds = None
         /\ \A f \in {"enabled", "region", "generation"} : u[f] = t[f]
<1> DEFINE request == NewRequest(t, position)
           diagnostics == [request_id |-> t.next_request_id,
                           crossing_position_seconds |-> position,
                           return_position_seconds |-> None]
           next == t.next_request_id + 1
<1>1. request \in LoopSeekRequest
  BY DEF TransportRecord, NewRequest, LoopSeekRequest, LoopRegion
<1>2. diagnostics \in LoopTimingDiagnostics
  BY DEF TransportRecord, LoopTimingDiagnostics
<1>3. next \in Nat
  BY DEF TransportRecord
<1>4. diagnostics.request_id = t.next_request_id /\ diagnostics.return_position_seconds = None
  OBVIOUS
<1>5. Issue(t, position) = [t EXCEPT !.state = "automatic_seek_pending", !.previous_position = None,
                                     !.pending_request = request, !.next_request_id = next,
                                     !.diagnostics = diagnostics]
  BY DEF Issue
<1> HIDE DEF request, diagnostics, next
<1>6. /\ Issue(t, position) \in TransportRecord
      /\ Issue(t, position).state = "automatic_seek_pending"
      /\ Issue(t, position).pending_request = request
      /\ Issue(t, position).next_request_id = next
      /\ Issue(t, position).previous_position = None
      /\ Issue(t, position).diagnostics = diagnostics
      /\ \A f \in {"enabled", "region", "generation"} : Issue(t, position)[f] = t[f]
  BY <1>1, <1>2, <1>3, <1>5 DEF TransportRecord, LoopTransportState
<1>7. QED
  BY <1>1, <1>2, <1>4, <1>6 DEF request, next

(* The host confirmed the jump: only the state advances. *)
LEMMA AutomaticSeekFields ==
  ASSUME NEW t \in TransportRecord
  PROVE  LET u == [t EXCEPT !.state = "waiting_for_loop_in", !.previous_position = None] IN
         /\ u \in TransportRecord
         /\ u.state = "waiting_for_loop_in"
         /\ u.previous_position = None
         /\ \A f \in {"enabled", "region", "generation", "next_request_id",
                      "pending_request", "diagnostics"} : u[f] = t[f]
BY DEF TransportRecord, LoopTransportState

(* A manual seek drops the intent; inside the loop it re-arms. *)
LEMMA ManualSeekInsideFields ==
  ASSUME NEW t \in TransportRecord, NEW position \in Int
  PROVE  LET u == [Rearm(t, position) EXCEPT !.pending_request = None] IN
         /\ u \in TransportRecord
         /\ u.state = "armed"
         /\ u.previous_position = position
         /\ u.pending_request = None
         /\ \A f \in {"enabled", "region", "generation", "next_request_id"} : u[f] = t[f]
BY DEF TransportRecord, Rearm, LoopTransportState

(* A manual seek out of the loop drops intent and baseline and disarms. *)
LEMMA ManualSeekOutsideFields ==
  ASSUME NEW t \in TransportRecord
  PROVE  LET u == [Forget(t) EXCEPT !.state = "manually_disarmed"] IN
         /\ u \in TransportRecord
         /\ u.state = "manually_disarmed"
         /\ u.previous_position = None
         /\ u.pending_request = None
         /\ \A f \in {"enabled", "region", "generation", "next_request_id"} : u[f] = t[f]
BY DEF TransportRecord, Forget, LoopTransportState

(* Following playback only moves the baseline. *)
LEMMA FollowFields ==
  ASSUME NEW t \in TransportRecord, NEW position \in Int
  PROVE  LET u == [t EXCEPT !.previous_position = position] IN
         /\ u \in TransportRecord
         /\ u.previous_position = position
         /\ \A f \in {"state", "enabled", "region", "generation", "next_request_id",
                      "pending_request", "diagnostics"} : u[f] = t[f]
BY DEF TransportRecord

------------------------------------------------------------------------------
(* The three ways a step can leave the invariant standing: without an      *)
(* intent, with the intent it had, or with a new one.                      *)

(* A step after which no jump is under way. *)
LEMMA SettledStep ==
  ASSUME IInv,
         transport' \in TransportRecord,
         EnabledCoherence',
         ~Returning(transport'),
         transport'.pending_request = None,
         transport'.next_request_id = transport.next_request_id,
         transport'.previous_position \in {None, heard'},
         heard' \in Int \cup {None},
         issued' = issued
  PROVE  IInv'
<1>1. TypeOK'
  BY DEF IInv, TypeOK
<1>2. PendingIntent'
  BY DEF IInv, PendingIntent
<1>3. RequestsDistinct'
  BY DEF IInv, RequestsDistinct, IsPending
<1>4. QED
  BY <1>1, <1>2, <1>3 DEF IInv, BaselineIsLastHeard

(* A step that keeps the intent, or its absence, as it was. *)
LEMMA KeepingStep ==
  ASSUME IInv,
         transport' \in TransportRecord,
         EnabledCoherence',
         Returning(transport') <=> Returning(transport),
         \A f \in {"region", "generation", "next_request_id", "pending_request",
                   "diagnostics"} : transport'[f] = transport[f],
         transport'.previous_position \in {None, heard'},
         heard' \in Int \cup {None},
         issued' = issued
  PROVE  IInv'
<1>1. TypeOK'
  BY DEF IInv, TypeOK
<1>2. PendingIntent'
  BY DEF IInv, PendingIntent
<1>3. RequestsDistinct'
  <2>1. ASSUME NEW r \in issued', IsPending(transport', r)
        PROVE  r = transport'.pending_request
    <3>1. r.request_id = transport'.pending_request.request_id /\ transport'.pending_request # None
      BY <2>1 DEF IsPending
    <3>2. transport.pending_request \in issued
      BY <3>1 DEF IInv, PendingIntent
    <3>3. QED
      BY <2>1, <3>1, <3>2 DEF IInv, RequestsDistinct
  <2>2. QED
    BY <2>1 DEF IInv, RequestsDistinct
<1>4. QED
  BY <1>1, <1>2, <1>3 DEF IInv, BaselineIsLastHeard

(* A crossing: the new request is the newest, and the only one pending. *)
LEMMA IssuingStep ==
  ASSUME IInv,
         NEW position \in Int,
         ValidRegion(transport.region),
         Crosses(transport, position),
         transport.enabled,
         transport' = Issue(transport, position),
         heard' = position,
         issued' = issued \cup {NewRequest(transport, position)}
  PROVE  IInv'
<1> DEFINE request == NewRequest(transport, position)
<1>a. transport \in TransportRecord
  BY DEF IInv, TypeOK
<1>f. /\ transport' \in TransportRecord
      /\ request \in LoopSeekRequest
      /\ transport'.state = "automatic_seek_pending"
      /\ transport'.pending_request = request
      /\ transport'.next_request_id = transport.next_request_id + 1
      /\ transport'.previous_position = None
      /\ transport'.diagnostics \in LoopTimingDiagnostics
      /\ transport'.diagnostics.request_id = transport.next_request_id
      /\ transport'.diagnostics.return_position_seconds = None
      /\ \A f \in {"enabled", "region", "generation"} : transport'[f] = transport[f]
  BY <1>a, IssueFields
<1>r. /\ request.request_id = transport.next_request_id
      /\ request.target_seconds = transport.region.in_seconds
      /\ request.generation = transport.generation
      /\ request.crossing_position_seconds = position
  BY DEF NewRequest
<1>1. TypeOK'
  BY <1>f DEF IInv, TypeOK
<1>2. EnabledCoherence'
  BY <1>f DEF IInv, EnabledCoherence
<1>3. PendingIntent'
  <2>1. position >= transport.region.out_seconds
    BY DEF Crosses
  <2>2. request \in issued' /\ request # None
    BY <1>f, NoRecordIsNone
  <2>3. transport'.next_request_id - 1 = request.request_id
    BY <1>a, <1>f, <1>r DEF TransportRecord
  <2>4. transport'.diagnostics # None
    BY <1>f, NoRecordIsNone
  <2> HIDE DEF request
  <2>5. QED
    BY <1>f, <1>r, <2>1, <2>2, <2>3, <2>4 DEF PendingIntent, Returning
<1>4. RequestsDistinct'
  <2> transport.next_request_id \in Nat
    BY <1>a DEF TransportRecord
  <2>0. \A r \in issued : r.request_id \in Nat /\ r.request_id < transport.next_request_id
    BY DEF IInv, RequestsDistinct, TypeOK, LoopSeekRequest
  <2> HIDE DEF request
  <2>1. \A r \in issued' : r.request_id < transport'.next_request_id
    BY <1>f, <1>r, <2>0 DEF request
  <2>2. ASSUME NEW r \in issued', NEW s \in issued', r.request_id = s.request_id PROVE r = s
    BY <1>r, <2>0, <2>2 DEF IInv, RequestsDistinct, request
  <2>3. request \in issued'
    BY DEF request
  <2>4. ASSUME NEW r \in issued', IsPending(transport', r) PROVE r = transport'.pending_request
    BY <1>f, <2>2, <2>3, <2>4 DEF IsPending
  <2>5. QED
    BY <2>1, <2>2, <2>4 DEF RequestsDistinct
<1>5. BaselineIsLastHeard'
  BY <1>f DEF BaselineIsLastHeard
<1>6. QED
  BY <1>1, <1>2, <1>3, <1>4, <1>5 DEF IInv

------------------------------------------------------------------------------
(* One lemma per call: IInv holds after it. *)

(* enable: refused, the transport is off; accepted, it is armed anew. *)
LEMMA EnableStep ==
  ASSUME IInv, NEW region \in Regions, NEW seekable \in BOOLEAN,
         NEW position \in OptionalPosition, CallEnable(region, seekable, position)
  PROVE  IInv'
<1>1. transport \in TransportRecord
  BY DEF IInv, TypeOK
<1>2. region \in LoopRegion /\ position \in Position \cup {None}
  BY RegionsAssumption, PositionsAssumption DEF OptionalPosition
<1>3. transport' = Enable(transport, region, seekable, position) /\ issued' = issued
  BY DEF CallEnable
<1>4. heard' = HeardAfter(position) /\ heard' \in Int \cup {None}
  BY <1>2 DEF CallEnable, HeardAfter, Position
<1>5. CASE ValidRegion(region) /\ seekable
  <2>1. /\ transport' \in TransportRecord
        /\ transport'.state = "armed"
        /\ transport'.enabled = TRUE
        /\ transport'.region = region
        /\ transport'.next_request_id = transport.next_request_id
        /\ transport'.previous_position = Baseline(region, position)
        /\ transport'.pending_request = None
    <3>1. transport' = Enable(transport, region, TRUE, position)
      BY <1>3, <1>5
    <3>2. ValidRegion(region)
      BY <1>5
    <3> HIDE DEF Enable, ValidRegion, Baseline
    <3>3. QED
      BY <1>1, <1>2, <3>1, <3>2, EnableArmsFields, ZenonT(40)
  <2>2. transport'.previous_position \in {None, heard'}
    BY <1>4, <2>1 DEF Baseline, HeardAfter
  <2>3. EnabledCoherence' /\ ~Returning(transport')
    BY <1>5, <2>1 DEF EnabledCoherence, Returning
  <2>4. QED
    BY <1>3, <1>4, <2>1, <2>2, <2>3, SettledStep
<1>6. CASE ~(ValidRegion(region) /\ seekable)
  <2>1. /\ transport' \in TransportRecord
        /\ transport'.state = "disabled"
        /\ transport'.enabled = FALSE
        /\ transport'.next_request_id = transport.next_request_id
        /\ transport'.previous_position = None
        /\ transport'.pending_request = None
    <3>1. PICK w \in TransportRecord : /\ w = Unpaused(transport)
                                      /\ w.next_request_id = transport.next_request_id
      BY <1>1, UnpausedFields
    <3>2. PICK reason \in {"invalid_markers", "unseekable"} : transport' = Disable(w, reason)
      BY <1>3, <1>6, <3>1 DEF Enable
    <3>3. reason \in LoopTransportResetReason
      BY <3>2 DEF LoopTransportResetReason
    <3>4. QED
      BY <3>1, <3>2, <3>3, DisableFields
  <2>2. EnabledCoherence' /\ ~Returning(transport')
    BY <2>1 DEF EnabledCoherence, Returning
  <2>3. QED
    BY <1>3, <1>4, <2>1, <2>2, SettledStep
<1>7. QED
  BY <1>5, <1>6

(* update_markers: refused, re-armed, or only a new generation. *)
LEMMA UpdateMarkersStep ==
  ASSUME IInv, NEW region \in Regions, NEW position \in OptionalPosition,
         CallUpdateMarkers(region, position)
  PROVE  IInv'
<1>1. transport \in TransportRecord
  BY DEF IInv, TypeOK
<1>2. region \in LoopRegion /\ position \in Position \cup {None}
  BY RegionsAssumption, PositionsAssumption DEF OptionalPosition
<1>3. transport' = UpdateMarkers(transport, region, position) /\ issued' = issued
  BY DEF CallUpdateMarkers
<1>4. heard' = HeardAfter(position) /\ heard' \in Int \cup {None}
  BY <1>2 DEF CallUpdateMarkers, HeardAfter, Position
<1>5. CASE ~ValidRegion(region)
  <2>1. transport' = Disable(transport, "invalid_markers")
    BY <1>3, <1>5 DEF UpdateMarkers
  <2>2. /\ transport' \in TransportRecord
        /\ transport'.state = "disabled"
        /\ transport'.enabled = FALSE
        /\ transport'.next_request_id = transport.next_request_id
        /\ transport'.previous_position = None
        /\ transport'.pending_request = None
    BY <1>1, <2>1, DisableFields DEF LoopTransportResetReason
  <2>3. EnabledCoherence' /\ ~Returning(transport')
    BY <2>2 DEF EnabledCoherence, Returning
  <2>4. QED
    BY <1>3, <1>4, <2>2, <2>3, SettledStep
<1>6. CASE ValidRegion(region) /\ transport.enabled
  <2>1. transport' = ArmFrom(transport, region, position)
    BY <1>3, <1>6 DEF UpdateMarkers
  <2>2. /\ transport' \in TransportRecord
        /\ transport'.state = "armed"
        /\ transport'.enabled = TRUE
        /\ transport'.region = region
        /\ transport'.next_request_id = transport.next_request_id
        /\ transport'.previous_position = Baseline(region, position)
        /\ transport'.pending_request = None
    BY <1>1, <1>2, <2>1, ArmFromFields, ZenonT(40)
  <2>3. transport'.previous_position \in {None, heard'}
    BY <1>4, <2>2 DEF Baseline, HeardAfter
  <2>4. EnabledCoherence' /\ ~Returning(transport')
    BY <1>6, <2>2 DEF EnabledCoherence, Returning
  <2>5. QED
    BY <1>3, <1>4, <2>2, <2>3, <2>4, SettledStep
<1>7. CASE ValidRegion(region) /\ ~transport.enabled
  <2>1. transport' = [NextGeneration(transport) EXCEPT !.region = region]
    BY <1>3, <1>7 DEF UpdateMarkers
  <2>2. /\ transport' \in TransportRecord
        /\ \A f \in {"state", "enabled", "next_request_id", "previous_position",
                     "pending_request"} : transport'[f] = transport[f]
    BY <1>1, <1>2, <2>1, DisabledMarkersFields
  <2>3. transport.state = "disabled" /\ transport.previous_position = None
    BY <1>7 DEF IInv, EnabledCoherence
  <2>4. EnabledCoherence' /\ ~Returning(transport')
    BY <1>7, <2>2, <2>3 DEF EnabledCoherence, Returning
  <2>5. transport'.pending_request = None
    BY <2>2, <2>3 DEF IInv, PendingIntent, Returning
  <2>6. QED
    BY <1>3, <1>4, <2>2, <2>3, <2>4, <2>5, SettledStep
<1>8. QED
  BY <1>5, <1>6, <1>7

(* set_paused keeps intent and baseline. *)
LEMMA SetPausedStep ==
  ASSUME IInv, NEW paused \in BOOLEAN, CallSetPaused(paused)
  PROVE  IInv'
<1>1. transport \in TransportRecord /\ heard \in Int \cup {None}
  BY DEF IInv, TypeOK
<1>2. transport' = SetPaused(transport, paused) /\ issued' = issued /\ heard' = heard
  BY DEF CallSetPaused
<1>3. /\ transport' \in TransportRecord
      /\ \A f \in {"state", "enabled", "region", "generation", "next_request_id",
                   "previous_position", "pending_request", "diagnostics"} :
           transport'[f] = transport[f]
  BY <1>1, <1>2, SetPausedFields
<1>4. EnabledCoherence' /\ (Returning(transport') <=> Returning(transport))
  BY <1>3 DEF IInv, EnabledCoherence, Returning
<1>5. transport'.previous_position \in {None, heard'}
  BY <1>2, <1>3 DEF IInv, BaselineIsLastHeard
<1>6. QED
  BY <1>1, <1>2, <1>3, <1>4, <1>5, KeepingStep

(* reset leaves nothing under way. *)
LEMMA ResetStep ==
  ASSUME IInv, NEW reason \in LoopTransportResetReason, CallReset(reason)
  PROVE  IInv'
<1>1. transport \in TransportRecord
  BY DEF IInv, TypeOK
<1>2. transport' = Reset(transport, reason) /\ issued' = issued /\ heard' = None
  BY DEF CallReset
<1>3. /\ transport' \in TransportRecord
      /\ transport'.state = "disabled"
      /\ transport'.enabled = FALSE
      /\ transport'.next_request_id = transport.next_request_id
      /\ transport'.previous_position = None
      /\ transport'.pending_request = None
  BY <1>1, <1>2, ResetFields
<1>4. EnabledCoherence' /\ ~Returning(transport')
  BY <1>3 DEF EnabledCoherence, Returning
<1>5. QED
  BY <1>2, <1>3, <1>4, SettledStep

(* Which branch of observe_position runs; the reset of line 143 never does. *)
LEMMA ObservePositionBranches ==
  ASSUME IInv, NEW position \in Positions, NEW g, CallObservePosition(position, g)
  PROVE  \/ /\ UNCHANGED <<transport, issued>>
            /\ heard' = heard \/ (heard' = position /\ position \in Int /\ transport.state # "armed")
         \/ /\ HearsPosition(transport, position, g) /\ ValidRegion(transport.region)
            /\ position \in Int /\ heard' = position
            /\ \/ /\ transport' = Return(transport, position) /\ issued' = issued
                  /\ Returning(transport) /\ Inside(transport, position)
               \/ /\ transport' = Rearm(transport, position) /\ issued' = issued
                  /\ transport.state = "manually_disarmed" /\ Inside(transport, position)
               \/ /\ transport' = [transport EXCEPT !.previous_position = position]
                  /\ issued' = issued /\ transport.state = "armed"
               \/ /\ transport' = Issue(transport, position) /\ Crosses(transport, position)
                  /\ issued' = issued \cup {NewRequest(transport, position)}
<1> USE DEF CallObservePosition, ObservePosition, Issues
<1>1. CASE ~HearsPosition(transport, position, g)
  BY <1>1
<1>2. CASE HearsPosition(transport, position, g)
  <2>1. ValidRegion(transport.region) /\ position \in Int /\ heard' = position
    BY <1>2, PositionsAssumption DEF HearsPosition, IInv, EnabledCoherence, Position
  <2>2. CASE Crosses(transport, position)
    <3>1. transport.state = "armed"
      BY <2>2 DEF Crosses
    <3>2. QED
      BY <1>2, <2>1, <2>2, <3>1 DEF Returning
  <2>3. CASE ~Crosses(transport, position)
    BY <1>2, <2>1, <2>3 DEF Returning
  <2>4. QED
    BY <2>2, <2>3
<1>3. QED
  BY <1>1, <1>2

(* observe_position: a return, a re-arming, a crossing, a new baseline or *)
(* nothing at all.                                                         *)
LEMMA ObservePositionStep ==
  ASSUME IInv, NEW position \in Positions, NEW g, CallObservePosition(position, g)
  PROVE  IInv'
<1>1. transport \in TransportRecord /\ heard \in Int \cup {None}
  BY DEF IInv, TypeOK
<1>2. CASE /\ UNCHANGED <<transport, issued>>
           /\ heard' = heard \/ (heard' = position /\ position \in Int /\ transport.state # "armed")
  <2>1. transport.state # "armed" => transport.previous_position = None
    BY DEF IInv, EnabledCoherence
  <2>2. QED
    BY <1>1, <1>2, <2>1 DEF IInv, TypeOK, EnabledCoherence, PendingIntent,
                            RequestsDistinct, BaselineIsLastHeard
<1>3. ASSUME HearsPosition(transport, position, g), ValidRegion(transport.region),
             position \in Int, heard' = position, issued' = issued,
             transport' \in TransportRecord,
             transport'.state = "armed",
             transport'.previous_position = position,
             transport'.pending_request = None,
             \A f \in {"enabled", "region", "next_request_id"} : transport'[f] = transport[f]
      PROVE  IInv'
  <2>1. EnabledCoherence' /\ ~Returning(transport')
    BY <1>3 DEF HearsPosition, EnabledCoherence, Returning
  <2>2. QED
    BY <1>3, <2>1, SettledStep
<1>4. ASSUME transport.state \in {"manually_disarmed", "armed"}
      PROVE  transport.pending_request = None
  BY <1>4 DEF IInv, PendingIntent, Returning
<1>5. CASE /\ HearsPosition(transport, position, g) /\ ValidRegion(transport.region)
           /\ position \in Int /\ heard' = position /\ issued' = issued
           /\ transport' = Return(transport, position)
  BY <1>1, <1>3, <1>5, ReturnFields
<1>6. CASE /\ HearsPosition(transport, position, g) /\ ValidRegion(transport.region)
           /\ position \in Int /\ heard' = position /\ issued' = issued
           /\ transport' = Rearm(transport, position) /\ transport.state = "manually_disarmed"
  BY <1>1, <1>3, <1>4, <1>6, RearmFields
<1>7. CASE /\ HearsPosition(transport, position, g) /\ ValidRegion(transport.region)
           /\ position \in Int /\ heard' = position /\ issued' = issued
           /\ transport' = [transport EXCEPT !.previous_position = position]
           /\ transport.state = "armed"
  BY <1>1, <1>3, <1>4, <1>7, FollowFields
<1>8. CASE /\ HearsPosition(transport, position, g) /\ ValidRegion(transport.region)
           /\ position \in Int /\ heard' = position
           /\ transport' = Issue(transport, position) /\ Crosses(transport, position)
           /\ issued' = issued \cup {NewRequest(transport, position)}
  BY <1>8, IssuingStep DEF HearsPosition
<1>9. QED
  BY <1>2, <1>5, <1>6, <1>7, <1>8, ObservePositionBranches

(* observe_seek: the jump itself, a manual seek into the loop, or out of it. *)
LEMMA ObserveSeekStep ==
  ASSUME IInv, NEW position \in Positions, NEW g, CallObserveSeek(position, g)
  PROVE  IInv'
<1>1. transport \in TransportRecord /\ heard \in Int \cup {None} /\ issued' = issued
  BY DEF IInv, TypeOK, CallObserveSeek
<1>2. CASE ~HearsSeek(transport, position, g)
  <2>1. transport' = transport /\ heard' = heard
    BY <1>2 DEF CallObserveSeek, ObserveSeek
  <2>2. QED
    BY <1>1, <2>1 DEF IInv, TypeOK, EnabledCoherence, PendingIntent, RequestsDistinct,
                      BaselineIsLastHeard
<1>3. CASE HearsSeek(transport, position, g)
  <2>1. position \in Int /\ heard' = position
    BY <1>3, PositionsAssumption DEF HearsSeek, CallObserveSeek, Position
  <2>2. transport.enabled /\ ValidRegion(transport.region)
    BY <1>3 DEF HearsSeek, IInv, EnabledCoherence
  <2>3. CASE IsAutomaticSeek(transport, position)
    <3>1. transport' = [transport EXCEPT !.state = "waiting_for_loop_in",
                                         !.previous_position = None]
      BY <1>3, <2>3 DEF CallObserveSeek, ObserveSeek
    <3>2. /\ transport' \in TransportRecord
          /\ transport'.state = "waiting_for_loop_in"
          /\ transport'.previous_position = None
          /\ \A f \in {"enabled", "region", "generation", "next_request_id",
                       "pending_request", "diagnostics"} : transport'[f] = transport[f]
      BY <1>1, <3>1, AutomaticSeekFields
    <3>3. Returning(transport) /\ Returning(transport')
      BY <2>3, <3>2 DEF IsAutomaticSeek, Returning
    <3>4. EnabledCoherence'
      BY <2>2, <3>2 DEF EnabledCoherence
    <3>5. QED
      BY <1>1, <2>1, <3>2, <3>3, <3>4, KeepingStep
  <2>4. CASE ~IsAutomaticSeek(transport, position) /\ Inside(transport, position)
    <3>1. transport' = [Rearm(transport, position) EXCEPT !.pending_request = None]
      BY <1>3, <2>4 DEF CallObserveSeek, ObserveSeek
    <3>2. /\ transport' \in TransportRecord
          /\ transport'.state = "armed"
          /\ transport'.previous_position = position
          /\ transport'.pending_request = None
          /\ \A f \in {"enabled", "region", "generation", "next_request_id"} :
               transport'[f] = transport[f]
      BY <1>1, <2>1, <3>1, ManualSeekInsideFields
    <3>3. EnabledCoherence' /\ ~Returning(transport')
      BY <2>2, <3>2 DEF EnabledCoherence, Returning
    <3>4. QED
      BY <1>1, <2>1, <3>2, <3>3, SettledStep
  <2>5. CASE ~IsAutomaticSeek(transport, position) /\ ~Inside(transport, position)
    <3>1. transport' = [Forget(transport) EXCEPT !.state = "manually_disarmed"]
      BY <1>3, <2>5 DEF CallObserveSeek, ObserveSeek
    <3>2. /\ transport' \in TransportRecord
          /\ transport'.state = "manually_disarmed"
          /\ transport'.previous_position = None
          /\ transport'.pending_request = None
          /\ \A f \in {"enabled", "region", "generation", "next_request_id"} :
               transport'[f] = transport[f]
      BY <1>1, <3>1, ManualSeekOutsideFields
    <3>3. EnabledCoherence' /\ ~Returning(transport')
      BY <2>2, <3>2 DEF EnabledCoherence, Returning
    <3>4. QED
      BY <1>1, <2>1, <3>2, <3>3, SettledStep
  <2>6. QED
    BY <2>3, <2>4, <2>5
<1>4. QED
  BY <1>2, <1>3

------------------------------------------------------------------------------
(* IInv is an invariant: types, and the coherence of intent, requests and  *)
(* baseline.                                                               *)
THEOREM Invariance == Spec => []IInv
<1>1. Init => IInv
  BY NoneAssumption
     DEF Init, IInv, TypeOK, EnabledCoherence, PendingIntent, RequestsDistinct,
         BaselineIsLastHeard, InitialTransport, TransportRecord, LoopTransportState,
         LoopTransportResetReason, LoopRegion, Position, Returning
<1>2. IInv /\ [Next]_vars => IInv'
  <2> SUFFICES ASSUME IInv, [Next]_vars PROVE IInv'
    OBVIOUS
  <2>1. ASSUME NEW region \in Regions, NEW seekable \in BOOLEAN,
               NEW position \in OptionalPosition, CallEnable(region, seekable, position)
        PROVE  IInv'
    BY <2>1, EnableStep
  <2>2. ASSUME NEW region \in Regions, NEW position \in OptionalPosition,
               CallUpdateMarkers(region, position)
        PROVE  IInv'
    BY <2>2, UpdateMarkersStep
  <2>3. ASSUME NEW paused \in BOOLEAN, CallSetPaused(paused)
        PROVE  IInv'
    BY <2>3, SetPausedStep
  <2>4. ASSUME NEW reason \in LoopTransportResetReason, CallReset(reason)
        PROVE  IInv'
    BY <2>4, ResetStep
  <2>5. ASSUME NEW position \in Positions, NEW g, CallObservePosition(position, g)
        PROVE  IInv'
    BY <2>5, ObservePositionStep
  <2>6. ASSUME NEW position \in Positions, NEW g, CallObserveSeek(position, g)
        PROVE  IInv'
    BY <2>6, ObserveSeekStep
  <2>7. CASE UNCHANGED vars
    BY <2>7 DEF vars, IInv, TypeOK, EnabledCoherence, PendingIntent, RequestsDistinct,
                BaselineIsLastHeard
  <2>8. QED
    BY <2>1, <2>2, <2>3, <2>4, <2>5, <2>6, <2>7 DEF Next
<1>3. QED
  BY <1>1, <1>2, PTL DEF Spec

(* The members of the transport keep their types. *)
THEOREM TypeCorrect == Spec => []TypeOK
BY Invariance, PTL DEF IInv

(* A jump under way has exactly one intent, of the present markers. *)
THEOREM PendingIntentHolds == Spec => []PendingIntent
BY Invariance, PTL DEF IInv

(* The state says whether the loop is on, only over valid markers, and     *)
(* only an armed transport keeps a baseline.                               *)
THEOREM StateIsCoherent == Spec => []EnabledCoherence
BY Invariance, PTL DEF IInv

(* No two requests share a number, so one copy at most is executable. *)
THEOREM RequestsStayDistinct == Spec => []RequestsDistinct
BY Invariance, PTL DEF IInv

(* The bookkeeping of intents as a whole, which the runs check.            *)
THEOREM BookkeepingHolds == Spec => []IntentBookkeeping
<1>1. IInv => IntentBookkeeping
  BY DEF IInv, IntentBookkeeping
<1> QED
  BY <1>1, Invariance, PTL

(* A crossing is measured from the last position heard, never an older one. *)
THEOREM BaselineIsTrue == Spec => []BaselineIsLastHeard
BY Invariance, PTL DEF IInv

------------------------------------------------------------------------------
(* What a step does to state, intent and counters: the shapes of a step.   *)

Restarts ==
  /\ transport'.state \in {"armed", "disabled"}
  /\ transport'.pending_request = None
  /\ transport'.generation = transport.generation + 1
  /\ transport'.next_request_id = transport.next_request_id
  /\ issued' = issued

Keeps ==
  /\ \A f \in {"state", "enabled", "pending_request", "generation", "next_request_id"} :
       transport'[f] = transport[f]
  /\ issued' = issued

Lands ==
  /\ Returning(transport) \/ transport.state = "manually_disarmed"
  /\ transport'.state = "armed"
  /\ transport'.generation = transport.generation
  /\ transport'.next_request_id = transport.next_request_id
  /\ issued' = issued

Confirms ==
  /\ Returning(transport)
  /\ transport'.state = "waiting_for_loop_in"
  /\ transport'.generation = transport.generation
  /\ transport'.next_request_id = transport.next_request_id
  /\ issued' = issued

Leaves ==
  /\ transport.state # "disabled"
  /\ transport'.state \in {"armed", "manually_disarmed"}
  /\ transport'.generation = transport.generation
  /\ transport'.next_request_id = transport.next_request_id
  /\ issued' = issued

Asks ==
  \E request \in LoopSeekRequest :
    /\ transport.state = "armed"
    /\ ~transport.paused
    /\ transport'.state = "automatic_seek_pending"
    /\ transport'.pending_request = request
    /\ transport'.generation = transport.generation
    /\ transport'.next_request_id = transport.next_request_id + 1
    /\ request.request_id = transport.next_request_id
    /\ issued' = issued \cup {request}
    /\ transport.previous_position # None
    /\ transport.previous_position < transport.region.out_seconds
    /\ heard' = request.crossing_position_seconds
    /\ heard' >= transport.region.out_seconds

(* enable, update_markers and reset restart; set_paused keeps. *)
LEMMA RestartShape ==
  ASSUME IInv,
         \/ \E region \in Regions, seekable \in BOOLEAN, position \in OptionalPosition :
              CallEnable(region, seekable, position)
         \/ \E region \in Regions, position \in OptionalPosition :
              CallUpdateMarkers(region, position)
         \/ \E reason \in LoopTransportResetReason : CallReset(reason)
  PROVE  Restarts
<1>1. transport \in TransportRecord
  BY DEF IInv, TypeOK
<1>2. PICK w \in TransportRecord : /\ w = Unpaused(transport)
                                  /\ w.generation = transport.generation
                                  /\ w.next_request_id = transport.next_request_id
  BY <1>1, UnpausedFields
<1>3. ASSUME NEW t \in TransportRecord, t.generation = transport.generation,
             t.next_request_id = transport.next_request_id,
             NEW reason \in LoopTransportResetReason,
             transport' = Disable(t, reason), issued' = issued
      PROVE  Restarts
  <2>1. /\ transport'.state = "disabled"
        /\ transport'.generation = t.generation + 1
        /\ transport'.next_request_id = t.next_request_id
        /\ transport'.pending_request = None
    BY <1>3, DisableFields
  <2>2. QED
    BY <1>3, <2>1 DEF Restarts
<1>4. ASSUME NEW t \in TransportRecord, t.generation = transport.generation,
             t.next_request_id = transport.next_request_id,
             NEW region \in LoopRegion, NEW position \in Position \cup {None},
             transport' = ArmFrom(t, region, position), issued' = issued
      PROVE  Restarts
  <2>1. LET u == ArmFrom(t, region, position) IN
        /\ u.state = "armed"
        /\ u.generation = t.generation + 1
        /\ u.next_request_id = t.next_request_id
        /\ u.pending_request = None
    BY <1>4, ArmFromFields, ZenonT(40)
  <2>2. QED
    BY <1>4, <2>1 DEF Restarts
<1>5. "invalid_markers" \in LoopTransportResetReason /\ "unseekable" \in LoopTransportResetReason
  BY DEF LoopTransportResetReason
<1>6. ASSUME NEW region \in Regions, NEW position \in OptionalPosition
      PROVE  region \in LoopRegion /\ position \in Position \cup {None}
  BY RegionsAssumption, PositionsAssumption DEF OptionalPosition
<1>7. ASSUME NEW region \in Regions, NEW seekable \in BOOLEAN, NEW position \in OptionalPosition,
             CallEnable(region, seekable, position)
      PROVE  Restarts
  <2>1. /\ issued' = issued
        /\ \/ transport' = Disable(w, "invalid_markers")
           \/ transport' = Disable(w, "unseekable")
           \/ transport' = ArmFrom(w, region, position)
    BY <1>2, <1>7 DEF CallEnable, Enable
  <2>2. QED
    BY <1>2, <1>3, <1>4, <1>5, <1>6, <2>1
<1>8. ASSUME NEW region \in Regions, NEW position \in OptionalPosition,
             CallUpdateMarkers(region, position)
      PROVE  Restarts
  <2>1. CASE ~ValidRegion(region) \/ transport.enabled
    <3>1. /\ issued' = issued
          /\ \/ transport' = Disable(transport, "invalid_markers")
             \/ transport' = ArmFrom(transport, region, position)
      BY <1>8, <2>1 DEF CallUpdateMarkers, UpdateMarkers
    <3>2. QED
      BY <1>1, <1>3, <1>4, <1>5, <1>6, <3>1
  <2>2. CASE ValidRegion(region) /\ ~transport.enabled
    <3>1. /\ issued' = issued
          /\ transport' = [NextGeneration(transport) EXCEPT !.region = region]
      BY <1>8, <2>2 DEF CallUpdateMarkers, UpdateMarkers
    <3>2. transport.state = "disabled" /\ transport.pending_request = None
      BY <2>2 DEF IInv, EnabledCoherence, PendingIntent, Returning
    <3>3. QED
      BY <1>1, <1>6, <3>1, <3>2, DisabledMarkersFields DEF Restarts
  <2>3. QED
    BY <2>1, <2>2
<1>9. ASSUME NEW reason \in LoopTransportResetReason, CallReset(reason)
       PROVE  Restarts
  BY <1>2, <1>3, <1>9 DEF CallReset, Reset
<1>10. QED
  BY <1>7, <1>8, <1>9

(* A position lands, asks for a jump, or is only remembered. *)
LEMMA ObservePositionShape ==
  ASSUME IInv, NEW position \in Positions, NEW g, CallObservePosition(position, g)
  PROVE  Keeps \/ Lands \/ Asks
<1>1. transport \in TransportRecord
  BY DEF IInv, TypeOK
<1>2. CASE UNCHANGED <<transport, issued>>
  BY <1>2 DEF Keeps
<1>3. CASE /\ position \in Int /\ issued' = issued
           /\ transport' = Return(transport, position) /\ Returning(transport)
  BY <1>1, <1>3, ReturnFields DEF Lands
<1>4. CASE /\ position \in Int /\ issued' = issued
           /\ transport' = Rearm(transport, position) /\ transport.state = "manually_disarmed"
  BY <1>1, <1>4, RearmFields DEF Lands
<1>5. CASE /\ position \in Int /\ issued' = issued
           /\ transport' = [transport EXCEPT !.previous_position = position]
  BY <1>1, <1>5, FollowFields DEF Keeps
<1>6. CASE /\ HearsPosition(transport, position, g)
           /\ position \in Int /\ heard' = position
           /\ transport' = Issue(transport, position) /\ Crosses(transport, position)
           /\ issued' = issued \cup {NewRequest(transport, position)}
  <2>1. PICK request \in LoopSeekRequest : request = NewRequest(transport, position)
    BY <1>1, <1>6, IssueFields
  <2>2. /\ transport'.state = "automatic_seek_pending"
        /\ transport'.pending_request = request
        /\ transport'.generation = transport.generation
        /\ transport'.next_request_id = transport.next_request_id + 1
    BY <1>1, <1>6, <2>1, IssueFields
  <2>3. /\ request.request_id = transport.next_request_id
        /\ request.crossing_position_seconds = position
    BY <2>1 DEF NewRequest
  <2>4. QED
    BY <1>6, <2>1, <2>2, <2>3 DEF Asks, Crosses, HearsPosition
<1>7. QED
  BY <1>2, <1>3, <1>4, <1>5, <1>6, ObservePositionBranches

(* A seek confirms the jump under way, lands inside, or leaves. *)
LEMMA ObserveSeekShape ==
  ASSUME IInv, NEW position \in Positions, NEW g, CallObserveSeek(position, g)
  PROVE  Keeps \/ Confirms \/ Leaves
<1>1. transport \in TransportRecord /\ issued' = issued
  BY DEF IInv, TypeOK, CallObserveSeek
<1>2. CASE ~HearsSeek(transport, position, g)
  BY <1>1, <1>2 DEF CallObserveSeek, ObserveSeek, Keeps
<1>3. CASE HearsSeek(transport, position, g)
  <2>1. position \in Int
    BY <1>3, PositionsAssumption DEF HearsSeek, Position
  <2>2. transport.state # "disabled"
    BY <1>3 DEF HearsSeek, IInv, EnabledCoherence
  <2>3. CASE IsAutomaticSeek(transport, position)
    <3>1. transport' = [transport EXCEPT !.state = "waiting_for_loop_in",
                                         !.previous_position = None]
      BY <1>3, <2>3 DEF CallObserveSeek, ObserveSeek
    <3>2. Confirms
      BY <1>1, <2>3, <3>1, AutomaticSeekFields DEF Confirms, IsAutomaticSeek
    <3>3. QED
      BY <3>2
  <2>4. CASE ~IsAutomaticSeek(transport, position)
    <3>1. \/ transport' = [Rearm(transport, position) EXCEPT !.pending_request = None]
          \/ transport' = [Forget(transport) EXCEPT !.state = "manually_disarmed"]
      BY <1>3, <2>4 DEF CallObserveSeek, ObserveSeek
    <3>2. CASE transport' = [Rearm(transport, position) EXCEPT !.pending_request = None]
      BY <1>1, <2>1, <2>2, <3>2, ManualSeekInsideFields DEF Leaves
    <3>3. CASE transport' = [Forget(transport) EXCEPT !.state = "manually_disarmed"]
      BY <1>1, <2>2, <3>3, ManualSeekOutsideFields DEF Leaves
    <3>4. QED
      BY <3>1, <3>2, <3>3
  <2>5. QED
    BY <2>3, <2>4
<1>4. QED
  BY <1>2, <1>3

(* Every step of the specification has one of these shapes. *)
LEMMA StepShape ==
  ASSUME IInv, Next
  PROVE  Restarts \/ Keeps \/ Lands \/ Confirms \/ Leaves \/ Asks
<1>1. ASSUME NEW paused \in BOOLEAN, CallSetPaused(paused)
      PROVE  Keeps
  BY <1>1, SetPausedFields DEF CallSetPaused, Keeps, IInv, TypeOK
<1>2. ASSUME NEW position \in Positions, NEW g, CallObservePosition(position, g)
      PROVE  Keeps \/ Lands \/ Asks
  BY <1>2, ObservePositionShape
<1>3. ASSUME NEW position \in Positions, NEW g, CallObserveSeek(position, g)
      PROVE  Keeps \/ Confirms \/ Leaves
  BY <1>3, ObserveSeekShape
<1>4. ASSUME NEW reason \in LoopTransportResetReason \ {"none"}, CallReset(reason)
      PROVE  Restarts
  BY <1>4, RestartShape
<1>5. ASSUME NEW region \in Regions, NEW position \in OptionalPosition,
             CallUpdateMarkers(region, position)
      PROVE  Restarts
  BY <1>5, RestartShape
<1>6. ASSUME NEW region \in Regions, NEW seekable \in BOOLEAN, NEW position \in OptionalPosition,
             CallEnable(region, seekable, position)
      PROVE  Restarts
  BY <1>6, RestartShape
<1>7. QED
  BY <1>1, <1>2, <1>3, <1>4, <1>5, <1>6 DEF Next

------------------------------------------------------------------------------
(* A deferred copy of a request is executable at most until the intent is  *)
(* answered, replaced or dropped, and never again.                         *)
THEOREM RequestsStayDead == Spec => NoRevival
<1>1. IInv /\ [Next]_vars =>
        [\A r \in issued : ~IsPending(transport, r) => ~IsPending(transport', r)]_vars
  <2> SUFFICES ASSUME IInv, Next, NEW r \in issued, IsPending(transport', r)
               PROVE  IsPending(transport, r)
    BY DEF vars
  <2>1. /\ transport'.state = "automatic_seek_pending"
        /\ transport'.pending_request.request_id = r.request_id
    BY DEF IsPending
  <2>2. CASE Keeps
    BY <2>2 DEF Keeps, IsPending
  <2>3. CASE Asks
    <3>1. r.request_id = transport.next_request_id
      BY <2>1, <2>3 DEF Asks
    <3>2. r.request_id < transport.next_request_id
      BY DEF IInv, RequestsDistinct
    <3>3. r.request_id \in Nat /\ transport.next_request_id \in Nat
      BY DEF IInv, TypeOK, LoopSeekRequest, TransportRecord
    <3>4. QED
      BY <3>1, <3>2, <3>3
  <2>4. CASE Restarts \/ Lands \/ Confirms \/ Leaves
    BY <2>1, <2>4 DEF Restarts, Lands, Confirms, Leaves
  <2>5. QED
    BY <2>2, <2>3, <2>4, StepShape
<1>2. QED
  BY <1>1, Invariance, PTL DEF Spec, NoRevival

(* Requests come from forward moves over OUT, of which both sides were     *)
(* heard, and from nothing else.                                           *)
THEOREM CrossingsOnly == Spec => AsksOnlyOnCrossing
<1> DEFINE A == \A r \in issued' \ issued :
                  /\ ~transport.paused
                  /\ ~Returning(transport)
                  /\ transport.state # "manually_disarmed"
                  /\ heard \in Int
                  /\ heard < transport.region.out_seconds
                  /\ heard' = r.crossing_position_seconds
                  /\ heard' >= transport.region.out_seconds
<1>1. IInv /\ [Next]_vars => [A]_vars
  <2> SUFFICES ASSUME IInv, Next, NEW r \in issued', r \notin issued
               PROVE  /\ ~transport.paused
                      /\ ~Returning(transport)
                      /\ transport.state # "manually_disarmed"
                      /\ heard \in Int
                      /\ heard < transport.region.out_seconds
                      /\ heard' = r.crossing_position_seconds
                      /\ heard' >= transport.region.out_seconds
    BY DEF vars
  <2>1. Asks
    BY StepShape DEF Restarts, Keeps, Lands, Confirms, Leaves
  <2>2. transport.previous_position = heard /\ heard \in Int
    BY <2>1 DEF Asks, IInv, BaselineIsLastHeard, TypeOK
  <2>3. QED
    BY <2>1, <2>2 DEF Asks, Returning
<1>2. QED
  BY <1>1, Invariance, PTL DEF Spec, AsksOnlyOnCrossing

(* LoopTransport implements LoopContract. *)
THEOREM ImplementsContract == Spec => ContractSpec
<1>1. Init => Contract!Init
  <2> SUFFICES ASSUME Init PROVE Contract!Init
    OBVIOUS
  <2>1. /\ transport.state = "disabled"
        /\ transport.next_request_id = 1
        /\ transport.generation = 1
    BY DEF Init, InitialTransport
  <2>2. phase = "off"
    BY <2>1 DEF phase, Returning
  <2>3. live = 0 /\ asked = 0 /\ epoch = 1
    BY <2>1 DEF live, asked, epoch
  <2>4. QED
    BY <2>2, <2>3 DEF Contract!Init
<1>2. IInv /\ IInv' /\ [Next]_vars => [Contract!Next]_(Contract!vars)
  <2> SUFFICES ASSUME IInv, IInv', Next
               PROVE  [Contract!Next]_(Contract!vars)
    BY DEF vars, Contract!vars, phase, live, asked, epoch, Returning
  <2>0. /\ transport.state \in LoopTransportState /\ transport'.state \in LoopTransportState
        /\ transport.next_request_id \in Nat /\ transport'.next_request_id \in Nat
    BY DEF IInv, TypeOK, TransportRecord
  <2>1. CASE Restarts
    <3>1. phase' \in {"off", "ready"} /\ live' = 0 /\ asked' = asked /\ epoch' = epoch + 1
      BY <2>1 DEF Restarts, phase, live, asked, epoch, Returning
    <3>2. QED
      BY <3>1 DEF Contract!Next, Contract!Restart
  <2>2. CASE Keeps
    <3>1. phase' = phase /\ live' = live /\ asked' = asked /\ epoch' = epoch
      BY <2>2 DEF Keeps, phase, live, asked, epoch, Returning
    <3>2. QED
      BY <3>1 DEF Contract!vars
  <2>3. CASE Lands
    <3>1. /\ phase \in {"returning", "released"} /\ phase' = "ready" /\ live' = 0
          /\ asked' = asked /\ epoch' = epoch
      BY <2>3 DEF Lands, phase, live, asked, epoch, Returning
    <3>2. QED
      BY <3>1 DEF Contract!Next, Contract!SeenInside
  <2>4. CASE Confirms
    <3>1. /\ phase = "returning" /\ phase' = "returning" /\ live' = 0
          /\ asked' = asked /\ epoch' = epoch
      BY <2>4 DEF Confirms, phase, live, asked, epoch, Returning
    <3>2. QED
      BY <3>1 DEF Contract!Next, Contract!Confirm
  <2>5. CASE Leaves
    <3>1. phase # "off"
      BY <2>0, <2>5 DEF Leaves, phase, Returning, LoopTransportState
    <3>2. /\ phase' \in {"ready", "released"} /\ live' = 0
          /\ asked' = asked /\ epoch' = epoch
      BY <2>5 DEF Leaves, phase, live, asked, epoch, Returning
    <3>3. QED
      BY <3>1, <3>2 DEF Contract!Next, Contract!ManualSeek
  <2>6. CASE Asks
    <3>1. /\ phase = "ready"
          /\ phase' = "returning"
          /\ epoch' = epoch
      BY <2>6 DEF Asks, phase, epoch, Returning
    <3>2. live' = transport.next_request_id
      BY <2>6 DEF Asks, live
    <3>3. asked' = asked + 1 /\ live' = asked + 1
      BY <2>0, <2>6, <3>2 DEF Asks, asked
    <3>4. QED
      BY <3>1, <3>3 DEF Contract!Next, Contract!Ask
  <2>7. QED
    BY <2>1, <2>2, <2>3, <2>4, <2>5, <2>6, StepShape
<1>3. QED
  BY <1>1, <1>2, Invariance, PTL DEF Spec, ContractSpec, Contract!Spec
==============================================================================
