---------------------------- MODULE LoopTransport ----------------------------
(***************************************************************************)
(* One LoopTransport under an arbitrary caller: any member function, with  *)
(* any argument, in any order, and observations that may still carry the   *)
(* generation of an earlier enable, marker change or reset.                *)
(*                                                                         *)
(* issued and heard are history: every request observe_position has        *)
(* returned (copies of them wait in callbacks of the caller), and the last *)
(* position the transport accepted since it was enabled.                   *)
(***************************************************************************)
EXTENDS Transport

CONSTANTS Positions,        \* positions that are reported or passed in
          Regions,          \* marker pairs that are passed in
          MaxGeneration,    \* bound on the generation counter
          MaxRequests       \* bound on the number of requests

ASSUME PositionsAssumption == Positions \subseteq Position
ASSUME RegionsAssumption == Regions \subseteq LoopRegion
ASSUME BoundsAssumption == MaxGeneration \in Nat /\ MaxRequests \in Nat

VARIABLES transport, issued, heard

vars == <<transport, issued, heard>>

OptionalPosition == Positions \cup {None}

Init == transport = InitialTransport /\ issued = {} /\ heard = None

(* What the transport has heard once a call that passes a position is over. *)
HeardAfter(position) ==
  IF transport'.enabled /\ position \notin {None, NonFinite} THEN position ELSE None

CallEnable(region, seekable, current_position) ==
  /\ transport.generation < MaxGeneration
  /\ transport' = Enable(transport, region, seekable, current_position)
  /\ heard' = HeardAfter(current_position)
  /\ UNCHANGED issued

CallUpdateMarkers(region, current_position) ==
  /\ transport.generation < MaxGeneration
  /\ transport' = UpdateMarkers(transport, region, current_position)
  /\ heard' = HeardAfter(current_position)
  /\ UNCHANGED issued

CallSetPaused(paused) ==
  /\ transport' = SetPaused(transport, paused)
  /\ UNCHANGED <<issued, heard>>

CallReset(reason) ==
  /\ transport.generation < MaxGeneration
  /\ transport' = Reset(transport, reason)
  /\ heard' = None
  /\ UNCHANGED issued

CallObservePosition(position, event_generation) ==
  /\ Issues(transport, position, event_generation) => transport.next_request_id <= MaxRequests
  /\ transport' = ObservePosition(transport, position, event_generation)
  /\ issued' = IF Issues(transport, position, event_generation)
               THEN issued \cup {NewRequest(transport, position)}
               ELSE issued
  /\ heard' = IF HearsPosition(transport, position, event_generation) THEN position ELSE heard

CallObserveSeek(position, event_generation) ==
  /\ transport' = ObserveSeek(transport, position, event_generation)
  /\ heard' = IF HearsSeek(transport, position, event_generation) THEN position ELSE heard
  /\ UNCHANGED issued

Next ==
  \/ \E region \in Regions, seekable \in BOOLEAN, position \in OptionalPosition :
       CallEnable(region, seekable, position)
  \/ \E region \in Regions, position \in OptionalPosition : CallUpdateMarkers(region, position)
  \/ \E paused \in BOOLEAN : CallSetPaused(paused)
  \/ \E reason \in LoopTransportResetReason \ {"none"} : CallReset(reason)
  \/ \E position \in Positions, event_generation \in 1 .. transport.generation :
       CallObservePosition(position, event_generation)
  \/ \E position \in Positions, event_generation \in 1 .. transport.generation :
       CallObserveSeek(position, event_generation)

Spec == Init /\ [][Next]_vars

------------------------------------------------------------------------------
(* Types of the data members and of the history. *)
TypeOK ==
  /\ transport \in TransportRecord
  /\ issued \subseteq LoopSeekRequest
  /\ heard \in Int \cup {None}

(* The transport is enabled exactly when it is in a state other than       *)
(* disabled, it then has a region it may loop over, and only an armed one  *)
(* keeps a baseline (the resets that enable, update_markers and reset      *)
(* repeat, loop_transport.cpp:71-88,102-110, and those of the states that  *)
(* wait).                                                                  *)
EnabledCoherence ==
  /\ transport.enabled <=> transport.state # "disabled"
  /\ transport.enabled => ValidRegion(transport.region)
  /\ transport.previous_position # None => transport.state = "armed"

(* An outstanding intent exists exactly while a jump back is under way. It *)
(* is the newest request, of this generation, aimed at the IN of the       *)
(* present region and asked for at or beyond its OUT; the diagnostics are  *)
(* about that request and record no return yet.  A marker change, a manual *)
(* seek or a reset that forgot one of them would leave a jump to an old IN.*)
PendingIntent ==
  LET request == transport.pending_request IN
  /\ request # None <=> Returning(transport)
  /\ request # None =>
       /\ request \in issued
       /\ request.generation = transport.generation
       /\ request.request_id = transport.next_request_id - 1
       /\ request.target_seconds = transport.region.in_seconds
       /\ request.crossing_position_seconds >= transport.region.out_seconds
       /\ transport.diagnostics # None
       /\ transport.diagnostics.request_id = request.request_id
       /\ transport.diagnostics.return_position_seconds = None

(* The caller keeps copies of requests in deferred callbacks and asks      *)
(* is_pending before it seeks.  Request numbers are never used twice, not  *)
(* even across generations, so of all copies at most one passes.           *)
RequestsDistinct ==
  /\ \A r \in issued : r.request_id < transport.next_request_id
  /\ \A r, s \in issued : r.request_id = s.request_id => r = s
  /\ \A r \in issued : IsPending(transport, r) => r = transport.pending_request

(* The baseline of the crossing test is the last position heard, from any  *)
(* source: a baseline that survived a manual seek or a re-arm would turn   *)
(* the seek itself into a crossing of OUT.                                 *)
BaselineIsLastHeard == transport.previous_position \in {None, heard}

(* State, region, baseline, intent and the requests handed out belong      *)
(* together: the transport and the copies its caller keeps never disagree  *)
(* about which jump is under way.                                          *)
IntentBookkeeping == TypeOK /\ EnabledCoherence /\ PendingIntent /\ RequestsDistinct

IInv == /\ TypeOK
        /\ EnabledCoherence
        /\ PendingIntent
        /\ RequestsDistinct
        /\ BaselineIsLastHeard

(* A request that is no longer pending (answered, overtaken by a manual    *)
(* seek, a marker change, a stop) never becomes executable again, whatever *)
(* is called later and whenever the deferred callback runs.                *)
NoRevival ==
  [][\A r \in issued : ~IsPending(transport, r) => ~IsPending(transport', r)]_vars

(* A jump is asked for only on a forward move heard on both sides of OUT,  *)
(* while neither paused nor with another jump under way.                   *)
AsksOnlyOnCrossing ==
  [][\A r \in issued' \ issued :
       /\ ~transport.paused
       /\ ~Returning(transport)
       /\ transport.state # "manually_disarmed"
       /\ heard \in Int
       /\ heard < transport.region.out_seconds
       /\ heard' = r.crossing_position_seconds
       /\ heard' >= transport.region.out_seconds]_vars

------------------------------------------------------------------------------
(* The contract: phases for states, and the number of the request that     *)
(* is_pending would still accept.                                          *)
phase ==
  CASE transport.state = "disabled"          -> "off"
    [] transport.state = "armed"             -> "ready"
    [] Returning(transport)                  -> "returning"
    [] OTHER                                 -> "released"

live == IF transport.state = "automatic_seek_pending"
        THEN transport.pending_request.request_id
        ELSE 0

asked == transport.next_request_id - 1

epoch == transport.generation

Contract == INSTANCE LoopContract
  WITH phase <- phase, live <- live, asked <- asked, epoch <- epoch

(* The transport implements the contract: see LoopContract.tla. *)
ContractSpec == Contract!Spec
==============================================================================
