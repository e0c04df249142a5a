-------------------------- MODULE WaveformAnalysis --------------------------
(***************************************************************************)
(* Background waveform analysis: the worker thread of WaveformAnalysis     *)
(* (src/foobar/waveform_analysis.cpp), the LRU WaveformCache, and the      *)
(* LoopFinderPanel that asks for analyses and shows their results.         *)
(*                                                                         *)
(* Two threads.  A step is what a thread does between two points at which  *)
(* the other can see or change something it uses: a locked section, the    *)
(* notify after it, and the unlocked read of the aborter.  active_aborter_ *)
(* is only ever null or the aborter of the job in hand, so it is a flag.   *)
(* The main-thread queue of fb2k::inMainThread is external: first in,      *)
(* first out, and it may discard a lambda whose aborter is already set.    *)
(* A snapshot is represented by the identity of the track it was decoded   *)
(* from, and a track by its identity.                                      *)
(***************************************************************************)
EXTENDS Integers, SequencesExt

CONSTANTS None,
          Identities,       \* what make_track_identity yields
          MaximumEntries,   \* of the WaveformCache
          MaxGeneration     \* bound on the number of analyses begun or cleared

ASSUME AnalysisAssumption ==
  /\ None \notin Identities /\ None \notin [generation : Nat, identity : Identities]
  /\ MaximumEntries \in Nat \ {0} /\ MaxGeneration \in Nat

VARIABLES
  panel,       \* the panel's analysis_generation_, current_identity_, waveform_...
  recency,     \* WaveformCache: identities, most recently used first
  entries,     \* WaveformCache: identity -> snapshot
  main,        \* where the main thread is
  pending, stopping, active,          \* guarded by mutex_
  worker,      \* where the worker thread is, and its locals
  deliveries,  \* lambdas queued for the main thread
  delivering   \* delivery_->enabled

vars == <<panel, recency, entries, main, pending, stopping, active, worker,
          deliveries, delivering>>

cache == <<recency, entries>>
shared == <<pending, stopping, active>>

Job == [generation : 1 .. MaxGeneration, identity : Identities]
Snapshot == Identities \cup {None}

Init ==
  /\ panel = [generation |-> 0, identity |-> None, state |-> "no_track", waveform |-> None]
  /\ recency = <<>>
  /\ entries = <<>>
  /\ main = "idle"
  /\ pending = None /\ stopping = FALSE /\ active = FALSE
  /\ worker = [pc |-> "checking", job |-> None, aborter |-> FALSE,
               aborted |-> FALSE, snapshot |-> None]
  /\ deliveries = <<>>
  /\ delivering = TRUE

------------------------------------------------------------------------------
(* WaveformCache *)

StoreAnyway(identity, snapshot) ==   \* mutant
  /\ recency' = <<identity>> \o recency
  /\ entries' = [i \in DOMAIN entries \cup {identity} |->
                   IF i = identity THEN snapshot ELSE entries[i]]

Node(identity) == CHOOSE i \in DOMAIN recency : recency[i] = identity

(* splice takes the node of a known identity from its place, push_front    *)
(* makes a new one.                                                        *)
MoveToFront(identity) ==
  <<identity>> \o IF identity \in DOMAIN entries THEN RemoveAt(recency, Node(identity))
                                                 ELSE recency

Find(identity) ==
  recency' = IF identity \in DOMAIN entries THEN MoveToFront(identity) ELSE recency

Store(identity, snapshot) ==
  LET front   == MoveToFront(identity)
      kept    == SubSeq(front, 1, IF Len(front) > MaximumEntries THEN MaximumEntries
                                  ELSE Len(front))
      evicted == ToSet(front) \ ToSet(kept)
  IN  /\ recency' = kept
      /\ entries' = [i \in (DOMAIN entries \cup {identity}) \ evicted |->
                       IF i = identity THEN snapshot ELSE entries[i]]

------------------------------------------------------------------------------
(* Main thread: request, cancel and the destructor.  Each takes the lock,  *)
(* aborts the job in hand, and notifies after it let go of the lock.       *)

SetActiveAborter == worker' = [worker EXCEPT !.aborter = @ \/ active]

Request(generation, identity) ==
  /\ SetActiveAborter
  /\ pending' = [generation |-> generation, identity |-> identity]
  /\ main' = "notify"
  /\ UNCHANGED <<stopping, active>>

CancelRunningOnly ==   \* mutant
  /\ SetActiveAborter
  /\ main' = "notify"
  /\ UNCHANGED <<pending, stopping, active>>

Cancel ==
  /\ SetActiveAborter
  /\ pending' = None
  /\ main' = "notify"
  /\ UNCHANGED <<stopping, active>>

NotifyNobody == UNCHANGED worker   \* mutant

NotifyOne == worker' = [worker EXCEPT !.pc = IF @ = "asleep" THEN "checking" ELSE @]

Notify ==
  /\ main \in {"notify", "notify_stop"}
  /\ NotifyOne
  /\ main' = IF main = "notify" THEN "idle" ELSE "join"
  /\ UNCHANGED <<panel, cache, shared, deliveries, delivering>>

(* begin_analysis, from on_playback_new_track, on_playback_edited or the   *)
(* opening of the window; identity is None for an empty handle.            *)
BeginAnalysis(identity) ==
  /\ main = "idle"
  /\ panel.generation < MaxGeneration
  /\ panel' = [generation |-> panel.generation + 1, identity |-> identity,
               state |-> CASE identity = None            -> "unavailable"
                           [] identity \in DOMAIN entries -> "available"
                           [] OTHER                       -> "analyzing",
               waveform |-> IF identity \in DOMAIN entries THEN entries[identity] ELSE None]
  /\ Find(identity)
  /\ IF identity = None \/ identity \in DOMAIN entries
     THEN Cancel
     ELSE Request(panel.generation + 1, identity)
  /\ UNCHANGED <<entries, deliveries, delivering>>

(* clear_analysis, from on_playback_starting and on_playback_stop *)
ClearAnalysis ==
  /\ main = "idle"
  /\ panel.generation < MaxGeneration
  /\ panel' = [generation |-> panel.generation + 1, identity |-> None,
               state |-> "no_track", waveform |-> None]
  /\ Cancel
  /\ UNCHANGED <<cache, deliveries, delivering>>

(* The panel's destructor cancels; then the member analysis_ is destroyed. *)
DestroyWithoutStopping ==   \* mutant
  /\ main = "idle"
  /\ delivering' = FALSE
  /\ SetActiveAborter
  /\ pending' = None
  /\ main' = "notify_stop"
  /\ UNCHANGED <<panel, cache, stopping, active, deliveries>>

Destroy ==
  /\ main = "idle"
  /\ delivering' = FALSE
  /\ SetActiveAborter
  /\ pending' = None
  /\ stopping' = TRUE
  /\ main' = "notify_stop"
  /\ UNCHANGED <<panel, cache, active, deliveries>>

Join ==
  /\ main = "join"
  /\ worker.pc = "returned"
  /\ main' = "gone"
  /\ UNCHANGED <<panel, cache, shared, worker, deliveries, delivering>>

AcceptAny(delivery) == delivering   \* mutant

AcceptDestroyed(delivery) ==   \* mutant
  /\ delivery.job.generation = panel.generation
  /\ delivery.job.identity = panel.identity

(* The lambda's own test, then that of on_analysis_complete. *)
Accept(delivery) ==
  /\ delivering
  /\ delivery.job.generation = panel.generation
  /\ delivery.job.identity = panel.identity

OnAnalysisComplete(delivery) ==
  IF delivery.snapshot # None
  THEN /\ Store(delivery.job.identity, delivery.snapshot)
       /\ panel' = [panel EXCEPT !.waveform = delivery.snapshot, !.state = "available"]
  ELSE /\ panel' = [panel EXCEPT !.waveform = None, !.state = "unavailable"]
       /\ UNCHANGED cache

(* A lambda of the main-thread queue runs; it outlives the panel. *)
RunDelivery ==
  /\ main \in {"idle", "gone"}
  /\ deliveries # <<>>
  /\ LET delivery == Head(deliveries) IN
     IF Accept(delivery) THEN OnAnalysisComplete(delivery) ELSE UNCHANGED <<panel, cache>>
  /\ deliveries' = Tail(deliveries)
  /\ UNCHANGED <<main, shared, worker, delivering>>

------------------------------------------------------------------------------
(* Worker thread: worker_loop *)

Worker(from, to) == worker.pc = from /\ worker' = [worker EXCEPT !.pc = to]

WorkerOnly == UNCHANGED <<panel, cache, main, deliveries, delivering>>

(* wait: the predicate is tested with the lock held. *)
FallAsleep ==
  /\ ~stopping /\ pending = None
  /\ Worker("checking", "asleep")
  /\ WorkerOnly /\ UNCHANGED shared

Return ==
  /\ stopping
  /\ Worker("checking", "returned")
  /\ WorkerOnly /\ UNCHANGED shared

TakeJobSameAborter ==   \* mutant
  /\ ~stopping /\ pending # None
  /\ worker.pc = "checking"
  /\ worker' = [worker EXCEPT !.pc = "decoding", !.job = pending, !.snapshot = None]
  /\ pending' = None
  /\ active' = TRUE
  /\ WorkerOnly /\ UNCHANGED stopping

TakeJob ==
  /\ ~stopping /\ pending # None
  /\ worker.pc = "checking"
  /\ worker' = [pc |-> "decoding", job |-> pending, aborter |-> FALSE,
                aborted |-> FALSE, snapshot |-> None]
  /\ pending' = None
  /\ active' = TRUE
  /\ WorkerOnly /\ UNCHANGED stopping

(* decode yields a snapshot, fails, or notices the aborter and throws; the *)
(* aborter may also be set too late for it to notice.                      *)
Decode ==
  /\ worker.pc = "decoding"
  /\ \E snapshot \in {worker.job.identity, None} :
       worker' = [worker EXCEPT !.pc = "decoded", !.snapshot = snapshot]
  /\ WorkerOnly /\ UNCHANGED shared

ReadAborter ==
  /\ worker.pc = "decoded"
  /\ worker' = [worker EXCEPT !.pc = "releasing", !.aborted = worker.aborter]
  /\ WorkerOnly /\ UNCHANGED shared

ReleaseAborter ==
  /\ Worker("releasing", IF worker.aborted THEN "checking" ELSE "delivering")
  /\ active' = FALSE
  /\ WorkerOnly /\ UNCHANGED <<pending, stopping>>

Deliver ==
  /\ Worker("delivering", "checking")
  /\ \/ deliveries' = Append(deliveries, [job |-> worker.job, snapshot |-> worker.snapshot])
     \/ worker.aborter /\ UNCHANGED deliveries
  /\ UNCHANGED <<panel, cache, main, shared, delivering>>

WorkerLoop ==
  FallAsleep \/ Return \/ TakeJob \/ Decode \/ ReadAborter \/ ReleaseAborter \/ Deliver

------------------------------------------------------------------------------
Next ==
  \/ \E identity \in Identities \cup {None} : BeginAnalysis(identity)
  \/ ClearAnalysis
  \/ Destroy
  \/ Notify
  \/ Join
  \/ RunDelivery
  \/ WorkerLoop

Spec == Init /\ [][Next]_vars

(* The worker runs (every decode ends), and so does the main loop. *)
Fairness == WF_vars(WorkerLoop) /\ WF_vars(Notify) /\ WF_vars(Join) /\ WF_vars(RunDelivery)

FairSpec == Spec /\ Fairness

------------------------------------------------------------------------------
(* Types of the panel, the cache, the shared members and the queue. *)
TypeOK ==
  /\ panel \in [generation : 0 .. MaxGeneration, identity : Identities \cup {None},
                state : {"no_track", "analyzing", "available", "unavailable"},
                waveform : Snapshot]
  /\ recency \in Seq(Identities)
  /\ entries \in [ToSet(recency) -> Identities]
  /\ main \in {"idle", "notify", "notify_stop", "join", "gone"}
  /\ pending \in Job \cup {None} /\ stopping \in BOOLEAN /\ active \in BOOLEAN
  /\ worker \in [pc : {"checking", "asleep", "decoding", "decoded", "releasing",
                       "delivering", "returned"},
                 job : Job \cup {None}, aborter : BOOLEAN, aborted : BOOLEAN,
                 snapshot : Snapshot]
  /\ \A i \in DOMAIN deliveries : deliveries[i] \in [job : Job, snapshot : Snapshot]
  /\ delivering \in BOOLEAN

(* The waveform shown is that of the track shown, however many tracks went *)
(* by while the worker was busy and results were queued: "an old           *)
(* completion cannot overwrite a newer track" (docs/ARCHITECTURE.md).      *)
ShownIsCurrent ==
  IF panel.state = "available" THEN panel.waveform = panel.identity /\ panel.identity # None
                               ELSE panel.waveform = None

(* A panel that says Analyzing is being served: the very analysis it asked *)
(* for last is waiting for the worker, in its hands and not aborted, or on *)
(* its way back.  An abort meant for an older job never hits it.           *)
AnalyzingIsServed ==
  LET wanted == [generation |-> panel.generation, identity |-> panel.identity] IN
  panel.state = "analyzing" /\ ~stopping =>
    \/ pending = wanted
    \/ /\ worker.job = wanted
       /\ worker.pc \in {"decoding", "decoded", "releasing", "delivering"}
       /\ ~worker.aborter /\ ~worker.aborted
    \/ \E i \in DOMAIN deliveries : deliveries[i].job = wanted

(* Nothing else is: work for a track that is gone is neither waiting nor   *)
(* decoded unaborted.                                                      *)
OnlyWantedWork ==
  /\ pending # None => pending.generation = panel.generation /\ panel.state = "analyzing"
  /\ worker.pc = "decoding" /\ ~worker.aborter =>
       worker.job.generation = panel.generation /\ panel.state = "analyzing"

(* The list and the map of the cache name the same identities, once each,  *)
(* no more than it may hold, and every snapshot is its identity's.         *)
CacheCoherent ==
  /\ IsInjective(recency)
  /\ ToSet(recency) = DOMAIN entries
  /\ Len(recency) <= MaximumEntries
  /\ \A i \in DOMAIN entries : entries[i] = i

(* The members keep their types, and list and map of the cache agree.      *)
MembersCoherent == TypeOK /\ CacheCoherent

(* The worker never sleeps while there is something for it to do, unless   *)
(* the notify that wakes it is still to come: no wakeup is lost.           *)
NoLostWakeup ==
  worker.pc = "asleep" /\ (stopping \/ pending # None) => main \in {"notify", "notify_stop"}

(* Once destruction has begun no result reaches the panel, although its    *)
(* lambda may still be in the main-thread queue.                           *)
NoLateCompletion == [][~delivering => UNCHANGED <<panel, recency, entries>>]_vars

(* Every analysis comes to an end, and so does every destruction: the join *)
(* in the destructor does not wait for ever.                               *)
AnalysisEnds == panel.state = "analyzing" ~> (panel.state # "analyzing" \/ ~delivering)

DestructionEnds == main = "join" ~> main = "gone"
==============================================================================
