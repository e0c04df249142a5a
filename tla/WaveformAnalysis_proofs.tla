------------------------ MODULE WaveformAnalysis_proofs ------------------------
(***************************************************************************)
(* For every set of tracks, cache size and number of analyses: what a      *)
(* panel shows is its track's, a panel that says Analyzing is being        *)
(* served, no obsolete work is started, no wakeup is lost and nothing      *)
(* completes after destruction.                                            *)
(*                                                                         *)
(* The argument is an order on generations: results in the queue are older *)
(* than the job in the worker's hands, that one is older than the pending  *)
(* job, and a pending job is of the panel's present generation.  So a      *)
(* result that the panel accepts leaves nothing of its generation behind,  *)
(* and an abort can only hit a job that is no longer wanted.               *)
(***************************************************************************)
EXTENDS WaveformAnalysis, SequenceTheorems, TLAPS

Busy == {"decoding", "decoded", "releasing", "delivering"}

AnyJob == [generation : Nat \ {0}, identity : Identities]

AnyWorker == [pc : Busy \cup {"checking", "asleep", "returned"}, job : AnyJob \cup {None},
              aborter : BOOLEAN, aborted : BOOLEAN, snapshot : Identities \cup {None}]

Result == [job : AnyJob, snapshot : Identities \cup {None}]

MembersTyped ==
  /\ panel \in [generation : Nat, identity : Identities \cup {None},
                state : {"no_track", "analyzing", "available", "unavailable"},
                waveform : Identities \cup {None}]
  /\ main \in {"idle", "notify", "notify_stop", "join", "gone"}
  /\ pending \in AnyJob \cup {None}
  /\ stopping \in BOOLEAN /\ active \in BOOLEAN /\ delivering \in BOOLEAN
  /\ worker \in AnyWorker
  /\ deliveries \in Seq(Result)

(* A snapshot is of the track its job is for, in hand, queued and cached. *)
SnapshotsTrue ==
  /\ worker.job # None => worker.snapshot \in {worker.job.identity, None}
  /\ \A i \in 1 .. Len(deliveries) :
       deliveries[i].snapshot \in {deliveries[i].job.identity, None}
  /\ \A i \in DOMAIN entries : i \in Identities /\ entries[i] = i

(* Queue, worker, pending job: strictly newer from one to the next. *)
GenerationsOrdered ==
  /\ worker.job # None => worker.job.generation <= panel.generation
  /\ \A i \in 1 .. Len(deliveries) : deliveries[i].job.generation <= panel.generation
  /\ pending # None =>
       /\ worker.job # None => worker.job.generation < pending.generation
       /\ \A i \in 1 .. Len(deliveries) : deliveries[i].job.generation < pending.generation
  /\ worker.pc \in Busy =>
       /\ worker.job # None
       /\ \A i \in 1 .. Len(deliveries) :
            deliveries[i].job.generation < worker.job.generation

(* The abort flag reaches a job until its worker lets go of it, and the    *)
(* shutdown flags are raised together.                                     *)
FlagsAgree ==
  /\ worker.pc \in {"decoding", "decoded", "releasing"} => active
  /\ delivering <=> ~stopping
  /\ stopping <=> main \in {"notify_stop", "join", "gone"}

IInv == /\ MembersTyped
        /\ SnapshotsTrue
        /\ GenerationsOrdered
        /\ FlagsAgree
        /\ ShownIsCurrent
        /\ AnalyzingIsServed
        /\ OnlyWantedWork
        /\ NoLostWakeup

------------------------------------------------------------------------------
(* A locked section of the main thread keeps types and obeys the order,    *)
(* given what it makes of pending.                                         *)
LEMMA AborterSet ==
  ASSUME IInv, SetActiveAborter
  PROVE  /\ worker' \in AnyWorker
         /\ worker'.aborter \in BOOLEAN
         /\ worker'.pc = worker.pc /\ worker'.job = worker.job
         /\ worker'.aborted = worker.aborted /\ worker'.snapshot = worker.snapshot
         /\ active => worker'.aborter = TRUE
         /\ worker.aborter => worker'.aborter = TRUE
BY DEF IInv, MembersTyped, SetActiveAborter, AnyWorker

(* The generations of the panel, of the job in hand and of the queued      *)
(* results are numbers, so the order speaks of them.                       *)
LEMMA NumberedGenerations ==
  ASSUME IInv
  PROVE  /\ panel.generation \in Nat
         /\ worker.job # None => worker.job.generation \in Nat
         /\ \A i \in 1 .. Len(deliveries) : deliveries[i].job.generation \in Nat
<1>1. panel.generation \in Nat
  BY DEF IInv, MembersTyped
<1>2. worker.job \in AnyJob \cup {None}
  BY DEF IInv, MembersTyped, AnyWorker
<1>3. \A i \in 1 .. Len(deliveries) : deliveries[i] \in Result
  BY DEF IInv, MembersTyped
<1> QED
  BY <1>1, <1>2, <1>3 DEF AnyJob, Result

(* The panel asks for another track, or for none. *)
LEMMA BeginStep ==
  ASSUME IInv, (\E identity \in Identities \cup {None} : BeginAnalysis(identity)) \/ ClearAnalysis
  PROVE  IInv'
<1>1. ASSUME NEW identity \in Identities \cup {None}, BeginAnalysis(identity)
      PROVE  IInv'
  <2>1. identity \in DOMAIN entries => identity \in Identities /\ entries[identity] = identity
    BY DEF IInv, SnapshotsTrue
  <2> DEFINE served == identity = None \/ identity \in DOMAIN entries
  <2>2. /\ main = "idle" /\ ~stopping /\ ~stopping' /\ main' = "notify"
        /\ SetActiveAborter
        /\ UNCHANGED <<entries, deliveries, delivering, stopping, active>>
        /\ pending' = IF served THEN None
                      ELSE [generation |-> panel.generation + 1, identity |-> identity]
    BY <1>1 DEF BeginAnalysis, Request, Cancel, IInv, FlagsAgree
  <2>3. /\ panel' \in [generation : Nat, identity : Identities \cup {None},
                       state : {"no_track", "analyzing", "available", "unavailable"},
                       waveform : Identities \cup {None}]
        /\ panel'.generation = panel.generation + 1
        /\ panel'.identity = identity
        /\ panel'.state = "analyzing" <=> ~served
    BY <1>1, <2>1, AnalysisAssumption DEF BeginAnalysis, IInv, MembersTyped
  <2>4. ShownIsCurrent'
    BY <1>1, <2>1, AnalysisAssumption DEF BeginAnalysis, ShownIsCurrent
  <2>5. MembersTyped'
    <3>1. panel.generation + 1 \in Nat \ {0}
      BY DEF IInv, MembersTyped
    <3>2. pending' \in AnyJob \cup {None}
      BY <2>2, <3>1 DEF AnyJob
    <3> QED
      BY <2>2, <2>3, <3>2, AborterSet DEF IInv, MembersTyped
  <2>6. SnapshotsTrue'
    BY <2>2, AborterSet DEF IInv, SnapshotsTrue
  <2>7. GenerationsOrdered'
    <3>1. /\ worker'.job = worker.job /\ worker'.pc = worker.pc
          /\ deliveries' = deliveries
          /\ panel'.generation = panel.generation + 1
          /\ pending' # None => pending'.generation = panel.generation + 1
      BY <2>2, <2>3, AborterSet
    <3> QED
      BY <3>1, NumberedGenerations DEF IInv, GenerationsOrdered
  <2>8. FlagsAgree'
    BY <2>2, AborterSet DEF IInv, FlagsAgree
  <2>9. AnalyzingIsServed'
    BY <2>2, <2>3 DEF AnalyzingIsServed
  <2>10. OnlyWantedWork'
    <3>1. worker'.pc = "decoding" => worker'.aborter
      BY <2>2, AborterSet DEF IInv, FlagsAgree
    <3> QED
      BY <2>2, <2>3, <3>1 DEF OnlyWantedWork, IInv, MembersTyped
  <2>11. NoLostWakeup'
    BY <2>2 DEF NoLostWakeup
  <2> QED
    BY <2>4, <2>5, <2>6, <2>7, <2>8, <2>9, <2>10, <2>11 DEF IInv
<1>2. CASE ClearAnalysis
  <2>1. /\ main = "idle" /\ ~stopping /\ ~stopping' /\ main' = "notify"
        /\ SetActiveAborter
        /\ UNCHANGED <<entries, deliveries, delivering, stopping, active>>
        /\ pending' = None
        /\ panel' = [generation |-> panel.generation + 1, identity |-> None,
                     state |-> "no_track", waveform |-> None]
    BY <1>2 DEF ClearAnalysis, Cancel, IInv, FlagsAgree, cache
  <2>2. panel.generation \in Nat
    BY DEF IInv, MembersTyped
  <2>3. MembersTyped'
    <3>1. /\ pending' \in AnyJob \cup {None}
          /\ panel' \in [generation : Nat, identity : Identities \cup {None},
                         state : {"no_track", "analyzing", "available", "unavailable"},
                         waveform : Identities \cup {None}]
      BY <2>1, <2>2
    <3> QED
      BY <2>1, <3>1, AborterSet DEF IInv, MembersTyped
  <2>4. SnapshotsTrue'
    BY <2>1, AborterSet DEF IInv, SnapshotsTrue
  <2>5. GenerationsOrdered'
    <3>1. /\ worker'.job = worker.job /\ worker'.pc = worker.pc
          /\ deliveries' = deliveries
          /\ panel'.generation = panel.generation + 1
          /\ pending' # None => pending'.generation = panel.generation + 1
      BY <2>1, AborterSet
    <3> QED
      BY <3>1, NumberedGenerations DEF IInv, GenerationsOrdered
  <2>6. FlagsAgree'
    BY <2>1, AborterSet DEF IInv, FlagsAgree
  <2>7. OnlyWantedWork'
    BY <2>1, AborterSet DEF IInv, FlagsAgree, OnlyWantedWork
  <2> QED
    BY <2>1, <2>3, <2>4, <2>5, <2>6, <2>7
       DEF IInv, ShownIsCurrent, AnalyzingIsServed, NoLostWakeup
<1> QED
  BY <1>1, <1>2

(* Destruction, its notify and its join. *)
LEMMA ShutdownStep ==
  ASSUME IInv, Destroy \/ Notify \/ Join
  PROVE  IInv'
<1>1. CASE Destroy
  <2>1. MembersTyped'
    BY <1>1, AborterSet DEF Destroy, IInv, MembersTyped, cache
  <2>2. SnapshotsTrue'
    BY <1>1, AborterSet DEF Destroy, IInv, SnapshotsTrue, cache
  <2>3. GenerationsOrdered'
    BY <1>1, AborterSet DEF Destroy, IInv, GenerationsOrdered, cache
  <2>4. FlagsAgree'
    BY <1>1, AborterSet DEF Destroy, IInv, FlagsAgree
  <2>5. OnlyWantedWork'
    BY <1>1, AborterSet DEF Destroy, IInv, OnlyWantedWork, FlagsAgree, MembersTyped
  <2> QED
    BY <1>1, <2>1, <2>2, <2>3, <2>4, <2>5
       DEF Destroy, IInv, ShownIsCurrent, AnalyzingIsServed, NoLostWakeup
<1>2. CASE Notify
  <2>1. worker' = [worker EXCEPT !.pc = IF worker.pc = "asleep" THEN "checking" ELSE worker.pc]
    BY <1>2 DEF Notify, NotifyOne
  <2>2. /\ main \in {"notify", "notify_stop"}
        /\ main' = IF main = "notify" THEN "idle" ELSE "join"
        /\ UNCHANGED <<panel, recency, entries, pending, stopping, active, deliveries, delivering>>
    BY <1>2 DEF Notify, cache, shared
  <2>3. MembersTyped'
    BY <2>1, <2>2 DEF IInv, MembersTyped, AnyWorker, Busy
  <2>4. /\ worker'.job = worker.job /\ worker'.aborter = worker.aborter
        /\ worker'.aborted = worker.aborted /\ worker'.snapshot = worker.snapshot
        /\ worker'.pc # "asleep"
        /\ \A pc \in Busy : worker'.pc = pc <=> worker.pc = pc
    BY <2>1 DEF IInv, MembersTyped, AnyWorker, Busy
  <2>5. SnapshotsTrue' /\ GenerationsOrdered' /\ FlagsAgree'
    BY <2>2, <2>4 DEF IInv, SnapshotsTrue, GenerationsOrdered, FlagsAgree, Busy
  <2>6. ShownIsCurrent' /\ AnalyzingIsServed' /\ OnlyWantedWork' /\ NoLostWakeup'
    BY <2>2, <2>4
       DEF IInv, ShownIsCurrent, AnalyzingIsServed, OnlyWantedWork, NoLostWakeup, Busy
  <2> QED
    BY <2>3, <2>5, <2>6 DEF IInv
<1>3. CASE Join
  BY <1>3 DEF Join, IInv, MembersTyped, SnapshotsTrue, GenerationsOrdered, FlagsAgree,
              ShownIsCurrent, AnalyzingIsServed, OnlyWantedWork, NoLostWakeup, cache, shared
<1> QED
  BY <1>1, <1>2, <1>3

(* Taking the first element off a queue shifts the others by one. *)
LEMMA TailShift ==
  ASSUME NEW S, NEW s \in Seq(S), s # <<>>
  PROVE  /\ Len(s) \in Nat /\ Len(s) > 0
         /\ Head(s) = s[1] /\ s[1] \in S
         /\ Tail(s) \in Seq(S) /\ Len(Tail(s)) = Len(s) - 1
         /\ \A i \in 1 .. Len(s) - 1 : Tail(s)[i] = s[i + 1]
OBVIOUS

(* A queued result runs, accepted or not. *)
LEMMA DeliveryStep ==
  ASSUME IInv, RunDelivery
  PROVE  IInv'
<1> DEFINE delivery == Head(deliveries)
           n == Len(deliveries)
<1>1. /\ n \in Nat /\ n > 0
      /\ delivery = deliveries[1] /\ delivery \in Result
      /\ deliveries' \in Seq(Result) /\ Len(deliveries') = n - 1
      /\ \A i \in 1 .. n - 1 : deliveries'[i] = deliveries[i + 1]
  <2>1. deliveries \in Seq(Result) /\ deliveries # <<>> /\ deliveries' = Tail(deliveries)
    BY DEF RunDelivery, IInv, MembersTyped
  <2> QED
    BY <2>1, TailShift
<1>2. UNCHANGED <<main, pending, stopping, active, worker, delivering>>
  BY DEF RunDelivery, shared
<1>3. /\ delivery.job.generation \in Nat /\ delivery.job.identity \in Identities
      /\ delivery.snapshot \in {delivery.job.identity, None}
  BY <1>1 DEF IInv, SnapshotsTrue, Result, AnyJob
<1>4. ASSUME panel'.generation = panel.generation
      PROVE  GenerationsOrdered'
  <2>1. \A i \in 1 .. n - 1 : i + 1 \in 1 .. n /\ deliveries'[i] = deliveries[i + 1]
    BY <1>1
  <2>2. \A i \in 1 .. Len(deliveries') : \E j \in 1 .. n : deliveries'[i] = deliveries[j]
    BY <1>1, <2>1
  <2> QED
    BY <1>2, <1>4, <2>2 DEF IInv, GenerationsOrdered
<1>5. ASSUME \A i \in DOMAIN entries' : i \in Identities /\ entries'[i] = i
      PROVE  SnapshotsTrue'
  <2>1. \A i \in 1 .. Len(deliveries') : \E j \in 1 .. n : deliveries'[i] = deliveries[j]
    <3>1. \A i \in 1 .. n - 1 : i + 1 \in 1 .. n /\ deliveries'[i] = deliveries[i + 1]
      BY <1>1
    <3> QED
      BY <1>1, <3>1
  <2> QED
    BY <1>2, <1>5, <2>1 DEF IInv, SnapshotsTrue
<1>6. CASE Accept(delivery)
  <2>1. /\ delivery.job.generation = panel.generation
        /\ delivery.job.identity = panel.identity
    BY <1>6 DEF Accept
  <2>2. OnAnalysisComplete(delivery)
    BY <1>6 DEF RunDelivery
  <2>3. panel \in [generation : Nat, identity : Identities \cup {None},
                   state : {"no_track", "analyzing", "available", "unavailable"},
                   waveform : Identities \cup {None}]
    BY DEF IInv, MembersTyped
  <2>4. delivery.snapshot # None =>
          /\ delivery.snapshot = panel.identity /\ panel.identity \in Identities
          /\ panel' = [panel EXCEPT !.waveform = delivery.snapshot, !.state = "available"]
    BY <1>3, <2>1, <2>2 DEF OnAnalysisComplete
  <2>5. delivery.snapshot = None =>
          panel' = [panel EXCEPT !.waveform = None, !.state = "unavailable"]
    BY <2>2 DEF OnAnalysisComplete
  <2>6. /\ panel' \in [generation : Nat, identity : Identities \cup {None},
                       state : {"no_track", "analyzing", "available", "unavailable"},
                       waveform : Identities \cup {None}]
        /\ panel'.generation = panel.generation /\ panel'.identity = panel.identity
        /\ panel'.state # "analyzing"
    BY <2>3, <2>4, <2>5
  <2>7. ShownIsCurrent'
    BY <2>3, <2>4, <2>5, AnalysisAssumption DEF ShownIsCurrent
  <2>8. \A i \in DOMAIN entries' : i \in Identities /\ entries'[i] = i
    <3>1. CASE delivery.snapshot = None
      BY <2>2, <3>1 DEF OnAnalysisComplete, cache, IInv, SnapshotsTrue
    <3>2. CASE delivery.snapshot # None
      <4>1. PICK kept : entries' = [i \in kept |-> IF i = delivery.job.identity
                                                   THEN delivery.snapshot ELSE entries[i]]
                        /\ kept \subseteq DOMAIN entries \cup {delivery.job.identity}
        BY <2>2, <3>2 DEF OnAnalysisComplete, Store
      <4> QED
        BY <1>3, <3>2, <4>1 DEF IInv, SnapshotsTrue
    <3> QED
      BY <3>1, <3>2
  <2>9. MembersTyped'
    BY <1>1, <1>2, <2>6 DEF IInv, MembersTyped
  <2>10. pending = None
    <3>1. 1 \in 1 .. n
      BY <1>1
    <3>2. pending # None => pending.generation = panel.generation
      BY DEF IInv, OnlyWantedWork
    <3>3. pending # None => delivery.job.generation < pending.generation
      BY <1>1, <3>1 DEF IInv, GenerationsOrdered
    <3> QED
      BY <1>3, <2>1, <3>2, <3>3
  <2>11. ~(worker.pc = "decoding" /\ ~worker.aborter)
    <3>1. 1 \in 1 .. n
      BY <1>1
    <3>2. worker.pc = "decoding" /\ ~worker.aborter => worker.job.generation = panel.generation
      BY DEF IInv, OnlyWantedWork
    <3>3. worker.pc = "decoding" => delivery.job.generation < worker.job.generation
      BY <1>1, <3>1 DEF IInv, GenerationsOrdered, Busy
    <3> QED
      BY <1>3, <2>1, <3>2, <3>3
  <2> QED
    BY <1>2, <1>4, <1>5, <2>6, <2>7, <2>8, <2>9, <2>10, <2>11
       DEF IInv, FlagsAgree, AnalyzingIsServed, OnlyWantedWork, NoLostWakeup
<1>7. CASE ~Accept(delivery)
  <2>1. UNCHANGED <<panel, recency, entries>>
    BY <1>7 DEF RunDelivery, cache
  <2>2. MembersTyped'
    BY <1>1, <1>2, <2>1 DEF IInv, MembersTyped
  <2>3. SnapshotsTrue' /\ GenerationsOrdered'
    BY <1>4, <1>5, <2>1 DEF IInv, SnapshotsTrue
  <2>4. AnalyzingIsServed'
    <3>1. SUFFICES ASSUME panel.state = "analyzing", ~stopping,
                          NEW i \in DOMAIN deliveries,
                          deliveries[i].job =
                            [generation |-> panel.generation, identity |-> panel.identity]
                   PROVE  \E j \in DOMAIN deliveries' : deliveries'[j].job = deliveries[i].job
      BY <1>2, <2>1 DEF IInv, AnalyzingIsServed
    <3>2. /\ DOMAIN deliveries = 1 .. n
          /\ DOMAIN deliveries' = 1 .. n - 1
      BY <1>1 DEF IInv, MembersTyped
    <3>3. i # 1
      BY <1>1, <1>7, <3>1 DEF Accept, IInv, FlagsAgree
    <3>4. i - 1 \in 1 .. n - 1 /\ (i - 1) + 1 = i
      BY <1>1, <3>2, <3>3
    <3>5. deliveries'[i - 1] = deliveries[i]
      BY <1>1, <3>4
    <3> QED
      BY <3>2, <3>4, <3>5
  <2> QED
    BY <1>2, <2>1, <2>2, <2>3, <2>4
       DEF IInv, FlagsAgree, ShownIsCurrent, OnlyWantedWork, NoLostWakeup
<1> QED
  BY <1>6, <1>7

(* The worker between two jobs, or leaving. *)
LEMMA IdleWorkerStep ==
  ASSUME IInv, FallAsleep \/ Return \/ TakeJob
  PROVE  IInv'
<1>0. UNCHANGED <<panel, recency, entries, main, deliveries, delivering>>
  BY DEF FallAsleep, Return, TakeJob, WorkerOnly, cache
<1>1. CASE FallAsleep \/ Return
  <2>1. /\ UNCHANGED <<pending, stopping, active>>
        /\ worker.pc = "checking"
        /\ \E pc \in {"asleep", "returned"} : worker' = [worker EXCEPT !.pc = pc]
        /\ worker'.pc = "asleep" => ~stopping /\ pending = None
    BY <1>1 DEF FallAsleep, Return, Worker, shared, IInv, MembersTyped, AnyWorker
  <2>2. /\ worker' \in AnyWorker
        /\ worker'.pc \in {"asleep", "returned"}
        /\ worker'.job = worker.job /\ worker'.aborter = worker.aborter
        /\ worker'.aborted = worker.aborted /\ worker'.snapshot = worker.snapshot
    BY <2>1 DEF IInv, MembersTyped, AnyWorker
  <2>3. MembersTyped'
    BY <1>0, <2>1, <2>2 DEF IInv, MembersTyped
  <2>4. SnapshotsTrue' /\ GenerationsOrdered' /\ FlagsAgree'
    BY <1>0, <2>1, <2>2 DEF IInv, SnapshotsTrue, GenerationsOrdered, FlagsAgree, Busy
  <2>5. ShownIsCurrent' /\ AnalyzingIsServed' /\ OnlyWantedWork' /\ NoLostWakeup'
    BY <1>0, <2>1, <2>2
       DEF IInv, ShownIsCurrent, AnalyzingIsServed, OnlyWantedWork, NoLostWakeup
  <2> QED
    BY <2>3, <2>4, <2>5 DEF IInv
<1>2. CASE TakeJob
  <2>1. /\ ~stopping /\ stopping' = FALSE /\ pending \in AnyJob /\ pending # None
        /\ pending' = None /\ active' = TRUE
        /\ worker' = [pc |-> "decoding", job |-> pending, aborter |-> FALSE,
                      aborted |-> FALSE, snapshot |-> None]
    BY <1>2 DEF TakeJob, IInv, MembersTyped
  <2>2. worker' \in AnyWorker
    BY <2>1 DEF AnyWorker, Busy
  <2>3. MembersTyped'
    <3>1. pending' = None /\ active' \in BOOLEAN /\ stopping' \in BOOLEAN
      BY <2>1
    <3> QED
      BY <1>0, <2>2, <3>1 DEF IInv, MembersTyped
  <2>4. pending.generation = panel.generation /\ panel.state = "analyzing"
    BY <2>1 DEF IInv, OnlyWantedWork
  <2>5. SnapshotsTrue'
    BY <1>0, <2>1 DEF IInv, SnapshotsTrue
  <2>6. GenerationsOrdered'
    BY <1>0, <2>1, <2>4, NumberedGenerations DEF IInv, GenerationsOrdered
  <2>7. AnalyzingIsServed'
    <3>1. SUFFICES ASSUME pending # [generation |-> panel.generation,
                                     identity |-> panel.identity]
                   PROVE  \E i \in DOMAIN deliveries :
                            deliveries[i].job = [generation |-> panel.generation,
                                                 identity |-> panel.identity]
      BY <1>0, <2>1 DEF AnalyzingIsServed
    <3>2. ~(/\ worker.job = [generation |-> panel.generation, identity |-> panel.identity]
            /\ worker.pc \in Busy)
      BY <2>1, <2>4, NumberedGenerations DEF IInv, GenerationsOrdered
    <3> QED
      BY <2>1, <2>4, <3>1, <3>2 DEF IInv, AnalyzingIsServed, Busy
  <2> QED
    BY <1>0, <2>1, <2>3, <2>4, <2>5, <2>6, <2>7
       DEF IInv, FlagsAgree, ShownIsCurrent, OnlyWantedWork, NoLostWakeup
<1> QED
  BY <1>1, <1>2

(* The worker with a job in hand: it decodes, looks at the abort flag and  *)
(* lets go of the aborter.                                                 *)
LEMMA BusyWorkerStep ==
  ASSUME IInv, Decode \/ ReadAborter \/ ReleaseAborter
  PROVE  IInv'
<1>0. UNCHANGED <<panel, recency, entries, main, pending, stopping, deliveries, delivering>>
  BY DEF Decode, ReadAborter, ReleaseAborter, WorkerOnly, cache, shared
<1>1. worker \in AnyWorker /\ worker.pc \in Busy
  BY DEF IInv, MembersTyped, Decode, ReadAborter, ReleaseAborter, Worker, Busy
<1>2. worker.job # None /\ worker.job \in AnyJob
  BY <1>1 DEF IInv, GenerationsOrdered, AnyWorker
<1>3. /\ worker' \in AnyWorker
      /\ worker'.job = worker.job /\ worker'.aborter = worker.aborter
      /\ worker'.snapshot \in {worker.job.identity, None}
      /\ active' \in BOOLEAN
      /\ worker'.pc \in Busy \cup {"checking"}
      /\ worker'.pc # "decoding"
      /\ worker'.pc \in {"decoded", "releasing"} => active' = active /\ active
  <2>1. CASE Decode
    BY <1>1, <1>2, <2>1
       DEF Decode, AnyWorker, AnyJob, Busy, IInv, MembersTyped, FlagsAgree, shared
  <2>2. CASE ReadAborter
    BY <1>1, <1>2, <2>2
       DEF ReadAborter, AnyWorker, Busy, IInv, MembersTyped, SnapshotsTrue, FlagsAgree, shared
  <2>3. CASE ReleaseAborter
    BY <1>1, <1>2, <2>3
       DEF ReleaseAborter, Worker, AnyWorker, Busy, IInv, MembersTyped, SnapshotsTrue
  <2> QED
    BY <2>1, <2>2, <2>3
<1>4. ~worker.aborter /\ ~worker.aborted => ~worker'.aborted /\ worker'.pc \in Busy
  <2>1. CASE Decode
    BY <1>1, <2>1 DEF Decode, AnyWorker, Busy
  <2>2. CASE ReadAborter
    BY <1>1, <2>2 DEF ReadAborter, AnyWorker, Busy
  <2>3. CASE ReleaseAborter
    BY <1>1, <2>3 DEF ReleaseAborter, Worker, AnyWorker, Busy
  <2> QED
    BY <2>1, <2>2, <2>3
<1>5. MembersTyped'
  BY <1>0, <1>3 DEF IInv, MembersTyped
<1>6. SnapshotsTrue'
  BY <1>0, <1>3 DEF IInv, SnapshotsTrue
<1>7. GenerationsOrdered'
  BY <1>0, <1>1, <1>2, <1>3 DEF IInv, GenerationsOrdered
<1>8. FlagsAgree'
  BY <1>0, <1>3 DEF IInv, FlagsAgree
<1>9. AnalyzingIsServed'
  BY <1>0, <1>3, <1>4 DEF IInv, AnalyzingIsServed, Busy
<1>10. OnlyWantedWork' /\ NoLostWakeup' /\ ShownIsCurrent'
  BY <1>0, <1>3 DEF IInv, OnlyWantedWork, NoLostWakeup, ShownIsCurrent, Busy
<1> QED
  BY <1>5, <1>6, <1>7, <1>8, <1>9, <1>10 DEF IInv

(* Adding an element to a queue leaves the others where they are. *)
LEMMA AppendKeeps ==
  ASSUME NEW S, NEW s \in Seq(S), NEW e \in S
  PROVE  /\ Append(s, e) \in Seq(S)
         /\ Len(s) \in Nat /\ Len(Append(s, e)) = Len(s) + 1
         /\ \A i \in 1 .. Len(s) : Append(s, e)[i] = s[i]
         /\ Append(s, e)[Len(s) + 1] = e
OBVIOUS

(* The worker hands its result over, or the host refuses it. *)
LEMMA DeliverStep ==
  ASSUME IInv, Deliver
  PROVE  IInv'
<1> DEFINE r == [job |-> worker.job, snapshot |-> worker.snapshot]
           n == Len(deliveries)
<1>0. UNCHANGED <<panel, recency, entries, main, pending, stopping, active, delivering>>
  BY DEF Deliver, cache, shared
<1>1. worker \in AnyWorker /\ worker.pc = "delivering" /\ deliveries \in Seq(Result)
  BY DEF IInv, MembersTyped, Deliver, Worker
<1>2. worker.job # None /\ worker.job \in AnyJob
  BY <1>1 DEF IInv, GenerationsOrdered, AnyWorker, Busy
<1>3. /\ worker' \in AnyWorker /\ worker'.pc = "checking"
      /\ worker'.job = worker.job /\ worker'.snapshot = worker.snapshot
  BY <1>1 DEF Deliver, Worker, AnyWorker
<1>4. r \in Result
  BY <1>1, <1>2 DEF Result, AnyWorker
<1>5. CASE deliveries' = deliveries /\ worker.aborter
  <2>1. MembersTyped'
    BY <1>0, <1>3, <1>5 DEF IInv, MembersTyped
  <2>2. SnapshotsTrue' /\ GenerationsOrdered' /\ FlagsAgree'
    BY <1>0, <1>3, <1>5 DEF IInv, SnapshotsTrue, GenerationsOrdered, FlagsAgree, Busy
  <2> QED
    BY <1>0, <1>3, <1>5, <2>1, <2>2
       DEF IInv, ShownIsCurrent, AnalyzingIsServed, OnlyWantedWork, NoLostWakeup
<1>6. CASE deliveries' = Append(deliveries, r)
  <2>1. /\ deliveries' \in Seq(Result) /\ n \in Nat /\ Len(deliveries') = n + 1
        /\ \A i \in 1 .. n : deliveries'[i] = deliveries[i]
        /\ deliveries'[n + 1] = r
    BY <1>1, <1>4, <1>6, AppendKeeps
  <2>2. \A i \in 1 .. Len(deliveries') :
          (i \in 1 .. n /\ deliveries'[i] = deliveries[i]) \/ deliveries'[i] = r
    BY <2>1
  <2>3. MembersTyped'
    BY <1>0, <1>3, <2>1 DEF IInv, MembersTyped
  <2>4. SnapshotsTrue'
    BY <1>0, <1>2, <1>3, <2>2 DEF IInv, SnapshotsTrue
  <2>5. GenerationsOrdered'
    BY <1>0, <1>2, <1>3, <2>2 DEF IInv, GenerationsOrdered, Busy
  <2>6. AnalyzingIsServed'
    <3>1. SUFFICES ASSUME panel.state = "analyzing", ~stopping,
                          pending # [generation |-> panel.generation,
                                     identity |-> panel.identity]
                   PROVE  \E i \in DOMAIN deliveries' :
                            deliveries'[i].job = [generation |-> panel.generation,
                                                  identity |-> panel.identity]
      BY <1>0 DEF AnalyzingIsServed
    <3>2. DOMAIN deliveries = 1 .. n /\ DOMAIN deliveries' = 1 .. n + 1
      BY <1>1, <2>1
    <3>3. CASE worker.job = [generation |-> panel.generation, identity |-> panel.identity]
      <4>1. n + 1 \in DOMAIN deliveries' /\ deliveries'[n + 1].job = worker.job
        BY <2>1, <3>2
      <4> QED
        BY <3>3, <4>1
    <3>4. CASE worker.job # [generation |-> panel.generation, identity |-> panel.identity]
      <4>1. PICK i \in 1 .. n : deliveries[i].job = [generation |-> panel.generation,
                                                     identity |-> panel.identity]
        BY <3>1, <3>2, <3>4 DEF IInv, AnalyzingIsServed
      <4>2. i \in 1 .. n + 1 /\ deliveries'[i] = deliveries[i]
        BY <2>1
      <4> QED
        BY <3>2, <4>1, <4>2
    <3> QED
      BY <3>3, <3>4
  <2> QED
    BY <1>0, <1>3, <2>3, <2>4, <2>5, <2>6
       DEF IInv, FlagsAgree, ShownIsCurrent, OnlyWantedWork, NoLostWakeup
<1> QED
  BY <1>5, <1>6 DEF Deliver

------------------------------------------------------------------------------
(* The ordered invariant holds in every reachable state. *)
THEOREM Invariance == Spec => []IInv
<1>1. Init => IInv
  <2> SUFFICES ASSUME Init PROVE IInv
    OBVIOUS
  <2>1. MembersTyped
    <3>1. worker \in AnyWorker
      BY DEF Init, AnyWorker
    <3>2. deliveries \in Seq(Result)
      BY DEF Init
    <3> QED
      BY <3>1, <3>2 DEF Init, MembersTyped
  <2>2. SnapshotsTrue /\ GenerationsOrdered /\ FlagsAgree
    BY DEF Init, SnapshotsTrue, GenerationsOrdered, FlagsAgree, Busy
  <2> QED
    BY <2>1, <2>2
       DEF Init, IInv, ShownIsCurrent, AnalyzingIsServed, OnlyWantedWork, NoLostWakeup
<1>2. IInv /\ [Next]_vars => IInv'
  <2>1. SUFFICES ASSUME IInv, [Next]_vars PROVE IInv'
    OBVIOUS
  <2>2. CASE UNCHANGED vars
    BY <2>1, <2>2
       DEF vars, cache, shared, IInv, MembersTyped, SnapshotsTrue, GenerationsOrdered,
           FlagsAgree, ShownIsCurrent, AnalyzingIsServed, OnlyWantedWork, NoLostWakeup
  <2>3. CASE Next
    BY <2>1, <2>3, BeginStep, ShutdownStep, DeliveryStep, IdleWorkerStep, BusyWorkerStep,
       DeliverStep DEF Next, WorkerLoop
  <2> QED
    BY <2>1, <2>2, <2>3
<1> QED
  BY <1>1, <1>2, PTL DEF Spec

(* Whatever the order of requests, aborts and queued results, the panel    *)
(* never shows another track's waveform.                                   *)
THEOREM ShownStaysCurrent == Spec => []ShownIsCurrent
<1>1. IInv => ShownIsCurrent
  BY DEF IInv
<1> QED
  BY <1>1, Invariance, PTL

(* An analysis the panel waits for is never lost and never aborted by      *)
(* mistake.                                                                *)
THEOREM WantedIsServed == Spec => []AnalyzingIsServed
<1>1. IInv => AnalyzingIsServed
  BY DEF IInv
<1> QED
  BY <1>1, Invariance, PTL

(* No decode goes on, and none waits, that the panel no longer wants, but  *)
(* one that is told to stop.                                               *)
THEOREM NoUnwantedWork == Spec => []OnlyWantedWork
<1>1. IInv => OnlyWantedWork
  BY DEF IInv
<1> QED
  BY <1>1, Invariance, PTL

(* The notify that wakes a sleeping worker for work or for shutdown is     *)
(* always still to come.                                                   *)
THEOREM WakeupsArrive == Spec => []NoLostWakeup
<1>1. IInv => NoLostWakeup
  BY DEF IInv
<1> QED
  BY <1>1, Invariance, PTL

(* After destruction has begun, the panel and the cache are left alone by  *)
(* whatever results are still queued.                                      *)
THEOREM NothingAfterDestruction == Spec => NoLateCompletion
<1>1. IInv /\ [Next]_vars => [~delivering => UNCHANGED <<panel, recency, entries>>]_vars
  <2>1. SUFFICES ASSUME IInv, Next, ~delivering
                 PROVE  UNCHANGED <<panel, recency, entries>>
    OBVIOUS
  <2>2. main # "idle"
    BY <2>1 DEF IInv, FlagsAgree
  <2>3. ~ ClearAnalysis /\ ~ \E identity \in Identities \cup {None} : BeginAnalysis(identity)
    BY <2>2 DEF ClearAnalysis, BeginAnalysis
  <2>4. CASE Destroy \/ Notify \/ Join
    BY <2>4 DEF Destroy, Notify, Join, cache
  <2>5. CASE RunDelivery
    BY <2>1, <2>5 DEF RunDelivery, Accept, cache
  <2>6. CASE WorkerLoop
    BY <2>6 DEF WorkerLoop, FallAsleep, Return, TakeJob, Decode, ReadAborter,
                ReleaseAborter, Deliver, WorkerOnly, cache
  <2> QED
    BY <2>1, <2>3, <2>4, <2>5, <2>6 DEF Next
<1> QED
  BY <1>1, Invariance, PTL DEF Spec, NoLateCompletion

------------------------------------------------------------------------------
(* The cache: list and map agree, and the number of analyses is bounded.   *)
(* That snapshots are of their tracks is known from IInv.                  *)

ListTyped ==
  /\ recency \in Seq(Identities)
  /\ IsInjective(recency)
  /\ Len(recency) <= MaximumEntries

CacheSound ==
  /\ ListTyped
  /\ entries \in [ToSet(recency) -> Identities]

Bounded == panel.generation <= MaxGeneration

(* Where the elements of a list are after one of them went to the front.   *)
LEMMA FrontOfKnown ==
  ASSUME recency \in Seq(Identities), IsInjective(recency),
         ToSet(recency) = DOMAIN entries,
         NEW identity \in DOMAIN entries
  PROVE  LET front == MoveToFront(identity) IN
         /\ front \in Seq(Identities)
         /\ IsInjective(front)
         /\ Len(front) = Len(recency)
         /\ ToSet(front) = DOMAIN entries
<1> DEFINE n == Len(recency)
           k == Node(identity)
           before == SubSeq(recency, 1, k - 1)
           after == SubSeq(recency, k + 1, n)
           front == MoveToFront(identity)
<1>1. n \in Nat /\ DOMAIN recency = 1 .. n /\ \A i \in 1 .. n : recency[i] \in Identities
  BY LenProperties, ElementOfSeq
<1>2. k \in 1 .. n /\ recency[k] = identity
  BY <1>1 DEF Node, ToSet
<1>3. /\ before \in Seq(Identities) /\ Len(before) = k - 1
      /\ \A i \in 1 .. k - 1 : before[i] = recency[i]
  <2>1. \A i \in 1 .. k - 1 : recency[i] \in Identities
    BY <1>1, <1>2
  <2>2. k - 1 \in Int /\ 1 \in Int
    BY <1>2
  <2>3. /\ before \in Seq(Identities)
        /\ Len(before) = IF 1 <= k - 1 THEN (k - 1) - 1 + 1 ELSE 0
        /\ \A i \in 1 .. (k - 1) - 1 + 1 : before[i] = recency[1 + i - 1]
    BY <2>1, <2>2, SubSeqProperties
  <2> QED
    BY <1>1, <1>2, <2>3
<1>4. /\ after \in Seq(Identities) /\ Len(after) = n - k
      /\ \A i \in 1 .. n - k : after[i] = recency[k + i]
  <2>1. \A i \in k + 1 .. n : recency[i] \in Identities
    BY <1>1, <1>2
  <2>2. k + 1 \in Int /\ n \in Int
    BY <1>1, <1>2
  <2>3. /\ after \in Seq(Identities)
        /\ Len(after) = IF k + 1 <= n THEN n - (k + 1) + 1 ELSE 0
        /\ \A i \in 1 .. n - (k + 1) + 1 : after[i] = recency[(k + 1) + i - 1]
    BY <2>1, <2>2, SubSeqProperties
  <2> QED
    BY <1>1, <1>2, <2>3
<1>5. front = <<identity>> \o (before \o after)
  BY DEF MoveToFront, RemoveAt
<1> HIDE DEF before, after, front, k, n
<1> DEFINE rest == before \o after
<1>6. /\ rest \in Seq(Identities) /\ Len(rest) = n - 1
      /\ \A i \in 1 .. n - 1 : rest[i] = IF i < k THEN recency[i] ELSE recency[i + 1]
  <2>1. /\ rest \in Seq(Identities) /\ Len(rest) = Len(before) + Len(after)
        /\ \A i \in 1 .. Len(before) + Len(after) :
             rest[i] = IF i <= Len(before) THEN before[i] ELSE after[i - Len(before)]
    BY <1>3, <1>4, ConcatProperties
  <2>2. Len(before) + Len(after) = n - 1
    BY <1>1, <1>2, <1>3, <1>4
  <2>3. ASSUME NEW i \in 1 .. n - 1
        PROVE  rest[i] = IF i < k THEN recency[i] ELSE recency[i + 1]
    <3>1. CASE i < k
      BY <1>1, <1>2, <1>3, <2>1, <2>2, <3>1
    <3>2. CASE ~ (i < k)
      <4>1. i - (k - 1) \in 1 .. n - k /\ k + (i - (k - 1)) = i + 1
        BY <1>1, <1>2, <3>2
      <4>2. rest[i] = after[i - (k - 1)]
        BY <1>1, <1>2, <1>3, <2>1, <2>2, <3>2
      <4> QED
        BY <1>4, <3>2, <4>1, <4>2
    <3> QED
      BY <3>1, <3>2
  <2> QED
    BY <2>1, <2>2, <2>3
<1> HIDE DEF rest
<1>7. identity \in Identities
  BY <1>1, <1>2
<1>8. /\ <<identity>> \in Seq(Identities) /\ Len(<<identity>>) = 1 /\ <<identity>>[1] = identity
  BY <1>7
<1>9. /\ front \in Seq(Identities) /\ Len(front) = n
      /\ \A i \in 1 .. n : front[i] = IF i = 1 THEN identity
                                     ELSE IF i <= k THEN recency[i - 1] ELSE recency[i]
  <2>1. /\ front \in Seq(Identities) /\ Len(front) = 1 + (n - 1)
        /\ \A i \in 1 .. 1 + (n - 1) :
             front[i] = IF i <= 1 THEN <<identity>>[i] ELSE rest[i - 1]
    BY <1>5, <1>6, <1>8, ConcatProperties DEF rest
  <2>2. ASSUME NEW i \in 1 .. n, i # 1
        PROVE  front[i] = IF i <= k THEN recency[i - 1] ELSE recency[i]
    <3>1. i - 1 \in 1 .. n - 1 /\ (i - 1) + 1 = i
      BY <1>1, <2>2
    <3>2. front[i] = rest[i - 1]
      BY <1>1, <2>1, <2>2
    <3> QED
      BY <1>1, <1>2, <1>6, <3>1, <3>2
  <2> QED
    BY <1>1, <1>2, <1>8, <2>1, <2>2
<1>10. DOMAIN front = 1 .. n
  BY <1>9, LenProperties
<1>11. \A i \in 1 .. n : \A j \in 1 .. n : recency[i] = recency[j] => i = j
  BY <1>1 DEF IsInjective
<1>12. \A i \in 1 .. n : \E j \in 1 .. n :
         /\ front[i] = recency[j]
         /\ j = IF i = 1 THEN k ELSE IF i <= k THEN i - 1 ELSE i
  BY <1>1, <1>2, <1>9
<1>13. IsInjective(front)
  <2> SUFFICES ASSUME NEW i \in 1 .. n, NEW j \in 1 .. n, front[i] = front[j]
               PROVE  i = j
    BY <1>10 DEF IsInjective
  <2> DEFINE place(x) == IF x = 1 THEN k ELSE IF x <= k THEN x - 1 ELSE x
  <2>1. /\ place(i) \in 1 .. n /\ front[i] = recency[place(i)]
        /\ place(j) \in 1 .. n /\ front[j] = recency[place(j)]
    BY <1>1, <1>2, <1>12
  <2>2. place(i) = place(j)
    BY <1>11, <2>1
  <2> QED
    BY <1>1, <1>2, <2>2
<1>14. \A j \in 1 .. n : \E i \in 1 .. n : front[i] = recency[j]
  <2> SUFFICES ASSUME NEW j \in 1 .. n
               PROVE  \E i \in 1 .. n : front[i] = recency[j]
    OBVIOUS
  <2>1. CASE j = k
    <3>1. 1 \in 1 .. n /\ front[1] = recency[k]
      BY <1>1, <1>2, <1>9
    <3> QED
      BY <2>1, <3>1
  <2>2. CASE j < k
    <3>1. j + 1 \in 1 .. n /\ j + 1 # 1 /\ j + 1 <= k /\ (j + 1) - 1 = j
      BY <1>1, <1>2, <2>2
    <3>2. front[j + 1] = recency[j]
      BY <1>9, <3>1
    <3> QED
      BY <3>1, <3>2
  <2>3. CASE j > k
    <3>1. front[j] = recency[j]
      BY <1>1, <1>2, <1>9, <2>3
    <3> QED
      BY <3>1
  <2> QED
    BY <1>1, <1>2, <2>1, <2>2, <2>3
<1>15. ToSet(front) = DOMAIN entries
  <2>1. ToSet(front) = {front[i] : i \in 1 .. n} /\ ToSet(recency) = {recency[i] : i \in 1 .. n}
    BY <1>1, <1>10 DEF ToSet
  <2>2. {front[i] : i \in 1 .. n} = {recency[i] : i \in 1 .. n}
    <3>1. \A i \in 1 .. n : \E j \in 1 .. n : front[i] = recency[j]
      BY <1>12
    <3>2. \A j \in 1 .. n : \E i \in 1 .. n : recency[j] = front[i]
      BY <1>14
    <3> QED
      <4>1. ASSUME NEW i \in 1 .. n
            PROVE  front[i] \in {recency[j] : j \in 1 .. n}
        BY <3>1
      <4>2. ASSUME NEW j \in 1 .. n
            PROVE  recency[j] \in {front[i] : i \in 1 .. n}
        BY <3>2
      <4> QED
        BY <4>1, <4>2
  <2> QED
    BY <2>1, <2>2
<1> QED
  BY <1>9, <1>13, <1>15 DEF front, n

(* A new node goes in front of all others. *)
LEMMA FrontOfNew ==
  ASSUME recency \in Seq(Identities), IsInjective(recency),
         ToSet(recency) = DOMAIN entries,
         NEW identity \in Identities, identity \notin DOMAIN entries
  PROVE  LET front == MoveToFront(identity) IN
         /\ front \in Seq(Identities)
         /\ IsInjective(front)
         /\ Len(front) = Len(recency) + 1
         /\ ToSet(front) = DOMAIN entries \cup {identity}
<1> DEFINE n == Len(recency)
           front == MoveToFront(identity)
<1>1. n \in Nat /\ DOMAIN recency = 1 .. n /\ \A i \in 1 .. n : recency[i] \in Identities
  BY LenProperties, ElementOfSeq
<1>2. front = <<identity>> \o recency
  BY DEF MoveToFront
<1>3. /\ <<identity>> \in Seq(Identities) /\ Len(<<identity>>) = 1 /\ <<identity>>[1] = identity
  OBVIOUS
<1> HIDE DEF front
<1>4. /\ front \in Seq(Identities) /\ Len(front) = 1 + n
      /\ \A i \in 1 .. 1 + n : front[i] = IF i <= 1 THEN <<identity>>[i] ELSE recency[i - 1]
  BY <1>2, <1>3, ConcatProperties
<1>5. DOMAIN front = 1 .. n + 1 /\ Len(front) = n + 1
  BY <1>1, <1>4, LenProperties
<1>6. front[1] = identity /\ 1 \in 1 .. n + 1
  BY <1>1, <1>3, <1>4
<1>7. ASSUME NEW i \in 1 .. n
      PROVE  i + 1 \in 1 .. n + 1 /\ front[i + 1] = recency[i]
  <2>1. i + 1 \in 1 .. 1 + n /\ ~ (i + 1 <= 1) /\ (i + 1) - 1 = i
    BY <1>1
  <2> QED
    BY <1>1, <1>4, <2>1
<1>8. ASSUME NEW i \in 1 .. n + 1, i # 1
      PROVE  i - 1 \in 1 .. n /\ front[i] = recency[i - 1]
  BY <1>1, <1>4, <1>8
<1>9. \A i \in 1 .. n : recency[i] # identity
  BY <1>1 DEF ToSet
<1>10. IsInjective(front)
  <2>1. \A i \in 1 .. n : \A j \in 1 .. n : recency[i] = recency[j] => i = j
    BY <1>1 DEF IsInjective
  <2> SUFFICES ASSUME NEW i \in 1 .. n + 1, NEW j \in 1 .. n + 1, front[i] = front[j]
               PROVE  i = j
    BY <1>5 DEF IsInjective
  <2>2. CASE i = 1 \/ j = 1
    BY <1>6, <1>8, <1>9, <2>2
  <2>3. CASE i # 1 /\ j # 1
    <3>1. i - 1 = j - 1
      BY <1>8, <2>1, <2>3
    <3> QED
      BY <1>1, <3>1
  <2> QED
    BY <2>2, <2>3
<1>11. ToSet(front) = DOMAIN entries \cup {identity}
  <2>1. ToSet(front) = {front[i] : i \in 1 .. n + 1} /\ DOMAIN entries = {recency[i] : i \in 1 .. n}
    BY <1>1, <1>5 DEF ToSet
  <2>2. ASSUME NEW i \in 1 .. n + 1
        PROVE  front[i] \in {recency[j] : j \in 1 .. n} \cup {identity}
    BY <1>6, <1>8
  <2>3. \A i \in 1 .. n : recency[i] \in {front[j] : j \in 1 .. n + 1}
    BY <1>7
  <2>4. identity \in {front[j] : j \in 1 .. n + 1}
    BY <1>6
  <2> QED
    BY <2>1, <2>2, <2>3, <2>4
<1> QED
  BY <1>4, <1>5, <1>10, <1>11 DEF front

(* The beginning of a list without repetitions has none either. *)
LEMMA Kept ==
  ASSUME NEW s \in Seq(Identities), IsInjective(s), NEW m \in 0 .. Len(s)
  PROVE  LET t == SubSeq(s, 1, m) IN
         /\ t \in Seq(Identities)
         /\ IsInjective(t)
         /\ Len(t) = m
         /\ ToSet(t) \subseteq ToSet(s)
<1> DEFINE n == Len(s)
           t == SubSeq(s, 1, m)
<1>1. n \in Nat /\ DOMAIN s = 1 .. n /\ \A i \in 1 .. n : s[i] \in Identities
  BY LenProperties, ElementOfSeq
<1>2. /\ t \in Seq(Identities)
      /\ Len(t) = IF 1 <= m THEN m - 1 + 1 ELSE 0
      /\ \A i \in 1 .. m - 1 + 1 : t[i] = s[1 + i - 1]
  <2>1. \A i \in 1 .. m : s[i] \in Identities
    BY <1>1
  <2>2. 1 \in Int /\ m \in Int
    BY <1>1
  <2> QED
    BY <2>1, <2>2, SubSeqProperties
<1>3. Len(t) = m /\ \A i \in 1 .. m : i \in 1 .. n /\ t[i] = s[i]
  BY <1>1, <1>2
<1> HIDE DEF t
<1>4. DOMAIN t = 1 .. m
  BY <1>2, <1>3, LenProperties
<1>5. IsInjective(t)
  BY <1>1, <1>3, <1>4 DEF IsInjective
<1>6. ToSet(t) \subseteq ToSet(s)
  BY <1>1, <1>3, <1>4 DEF ToSet
<1> QED
  BY <1>2, <1>3, <1>5, <1>6 DEF t

(* find moves its identity to the front, or leaves the list alone. *)
LEMMA FindKeepsCache ==
  ASSUME CacheSound, NEW identity, Find(identity), UNCHANGED entries
  PROVE  CacheSound'
<1>1. CASE identity \in DOMAIN entries
  <2>1. recency' = MoveToFront(identity)
    BY <1>1 DEF Find
  <2>2. /\ recency \in Seq(Identities) /\ IsInjective(recency)
        /\ ToSet(recency) = DOMAIN entries
    BY DEF CacheSound, ListTyped
  <2>3. /\ recency' \in Seq(Identities) /\ IsInjective(recency')
        /\ Len(recency') = Len(recency) /\ ToSet(recency') = ToSet(recency)
    BY <1>1, <2>1, <2>2, FrontOfKnown
  <2> QED
    BY <2>3 DEF CacheSound, ListTyped
<1>2. CASE identity \notin DOMAIN entries
  BY <1>2 DEF Find, CacheSound, ListTyped
<1> QED
  BY <1>1, <1>2

(* store puts its identity in front and drops what is too much from the    *)
(* back of the list and from the map.                                      *)
LEMMA StoreKeepsCache ==
  ASSUME CacheSound, NEW identity \in Identities, NEW snapshot \in Identities,
         Store(identity, snapshot)
  PROVE  CacheSound'
<1> DEFINE front == MoveToFront(identity)
           m == IF Len(front) > MaximumEntries THEN MaximumEntries ELSE Len(front)
           kept == SubSeq(front, 1, m)
           evicted == ToSet(front) \ ToSet(kept)
<1>1. /\ recency \in Seq(Identities) /\ IsInjective(recency)
      /\ ToSet(recency) = DOMAIN entries
      /\ entries \in [DOMAIN entries -> Identities]
  BY DEF CacheSound, ListTyped
<1>2. /\ front \in Seq(Identities) /\ IsInjective(front)
      /\ ToSet(front) = DOMAIN entries \cup {identity}
  <2>1. CASE identity \in DOMAIN entries
    BY <1>1, <2>1, FrontOfKnown
  <2>2. CASE identity \notin DOMAIN entries
    BY <1>1, <2>2, FrontOfNew
  <2> QED
    BY <2>1, <2>2
<1>3. /\ recency' = kept
      /\ entries' = [i \in (DOMAIN entries \cup {identity}) \ evicted |->
                       IF i = identity THEN snapshot ELSE entries[i]]
  BY DEF Store
<1> HIDE DEF front
<1>4. m \in 0 .. Len(front) /\ m <= MaximumEntries
  <2>1. Len(front) \in Nat
    BY <1>2, LenProperties
  <2> QED
    BY <2>1, AnalysisAssumption
<1> HIDE DEF m
<1>5. /\ kept \in Seq(Identities) /\ IsInjective(kept) /\ Len(kept) = m
      /\ ToSet(kept) \subseteq ToSet(front)
  BY <1>2, <1>4, Kept
<1>6. (DOMAIN entries \cup {identity}) \ evicted = ToSet(kept)
  BY <1>2, <1>5
<1> HIDE DEF kept, evicted
<1>7. entries' \in [ToSet(kept) -> Identities]
  <2>1. entries' = [i \in ToSet(kept) |-> IF i = identity THEN snapshot ELSE entries[i]]
    BY <1>3, <1>6
  <2>2. \A i \in ToSet(kept) : i \in DOMAIN entries \cup {identity}
    BY <1>2, <1>5
  <2>3. \A i \in ToSet(kept) : (IF i = identity THEN snapshot ELSE entries[i]) \in Identities
    BY <1>1, <2>2
  <2> QED
    BY <2>1, <2>3
<1>8. ListTyped'
  BY <1>3, <1>4, <1>5 DEF ListTyped
<1> QED
  BY <1>3, <1>7, <1>8 DEF CacheSound

LEMMA CacheStep ==
  ASSUME IInv, CacheSound, Bounded, [Next]_vars
  PROVE  CacheSound' /\ Bounded'
<1>1. CASE UNCHANGED <<panel, recency, entries>>
  BY <1>1 DEF CacheSound, ListTyped, Bounded
<1>2. ASSUME NEW identity \in Identities \cup {None}, BeginAnalysis(identity)
      PROVE  CacheSound' /\ Bounded'
  <2>1. Find(identity) /\ UNCHANGED entries
    BY <1>2 DEF BeginAnalysis
  <2>2. Bounded'
    BY <1>2, AnalysisAssumption DEF BeginAnalysis, Bounded, IInv, MembersTyped
  <2> QED
    BY <2>1, <2>2, FindKeepsCache
<1>3. CASE ClearAnalysis
  <2>1. UNCHANGED <<recency, entries>> /\ panel'.generation = panel.generation + 1
        /\ panel.generation < MaxGeneration
    BY <1>3 DEF ClearAnalysis, cache
  <2> QED
    BY <2>1, AnalysisAssumption DEF CacheSound, ListTyped, Bounded, IInv, MembersTyped
<1>4. CASE RunDelivery
  <2> DEFINE delivery == Head(deliveries)
  <2>1. /\ delivery \in Result
        /\ delivery.snapshot \in {delivery.job.identity, None}
    <3>1. deliveries \in Seq(Result) /\ deliveries # <<>>
      BY <1>4 DEF RunDelivery, IInv, MembersTyped
    <3>2. delivery = deliveries[1] /\ 1 \in 1 .. Len(deliveries) /\ delivery \in Result
      BY <3>1, TailShift
    <3> QED
      BY <3>2 DEF IInv, SnapshotsTrue
  <2>2. delivery.job.identity \in Identities
    BY <2>1 DEF Result, AnyJob
  <2>3. CASE Accept(delivery) /\ delivery.snapshot # None
    <3>1. Store(delivery.job.identity, delivery.snapshot)
          /\ panel' = [panel EXCEPT !.waveform = delivery.snapshot, !.state = "available"]
      BY <1>4, <2>3 DEF RunDelivery, OnAnalysisComplete
    <3>2. panel'.generation = panel.generation
      BY <3>1 DEF IInv, MembersTyped
    <3>3. CacheSound'
      BY <2>1, <2>2, <2>3, <3>1, StoreKeepsCache
    <3> QED
      BY <3>2, <3>3 DEF Bounded
  <2>4. CASE ~ (Accept(delivery) /\ delivery.snapshot # None)
    <3>1. UNCHANGED <<recency, entries>> /\ panel'.generation = panel.generation
      BY <1>4, <2>4 DEF RunDelivery, OnAnalysisComplete, cache, IInv, MembersTyped
    <3> QED
      BY <3>1 DEF CacheSound, ListTyped, Bounded
  <2> QED
    BY <2>3, <2>4
<1>5. CASE Destroy \/ Notify \/ Join
  BY <1>1, <1>5 DEF Destroy, Notify, Join, cache
<1>6. CASE WorkerLoop
  BY <1>1, <1>6 DEF WorkerLoop, FallAsleep, Return, TakeJob, Decode, ReadAborter,
                    ReleaseAborter, Deliver, WorkerOnly, cache
<1>7. CASE UNCHANGED vars
  BY <1>1, <1>7 DEF vars, cache
<1> QED
  BY <1>2, <1>3, <1>4, <1>5, <1>6, <1>7 DEF Next

(* List and map of the cache agree after every find, store and eviction:   *)
(* no iterator of the map dangles and nothing is held beyond the maximum.  *)
THEOREM CacheInvariance == Spec => [](IInv /\ CacheSound /\ Bounded)
<1>1. Init => CacheSound /\ Bounded
  <2> SUFFICES ASSUME Init PROVE CacheSound /\ Bounded
    OBVIOUS
  <2>1. <<>> \in Seq(Identities) /\ Len(<<>>) = 0
    BY EmptySeq
  <2>2. <<>> \in [1 .. 0 -> Identities] /\ DOMAIN <<>> = 1 .. 0
    BY <2>1, LenProperties
  <2>3. 1 .. 0 = {}
    OBVIOUS
  <2>4. ToSet(<<>>) = {}
    BY <2>2, <2>3 DEF ToSet
  <2>5. IsInjective(<<>>)
    BY <2>2, <2>3 DEF IsInjective
  <2>6. recency = <<>> /\ entries = <<>> /\ panel.generation = 0
    BY DEF Init
  <2>7. entries \in [ToSet(recency) -> Identities]
    BY <2>2, <2>3, <2>4, <2>6
  <2>8. 0 <= MaximumEntries /\ 0 <= MaxGeneration
    BY AnalysisAssumption
  <2> QED
    BY <2>1, <2>5, <2>6, <2>7, <2>8 DEF CacheSound, ListTyped, Bounded
<1>2. IInv /\ CacheSound /\ Bounded /\ [Next]_vars => CacheSound' /\ Bounded'
  BY CacheStep
<1> QED
  BY <1>1, <1>2, Invariance, PTL DEF Spec

(* The members of the panel, the worker and the queue keep their types,    *)
(* and list and map of the cache agree, whatever is analyzed in whatever   *)
(* order.                                                                  *)
THEOREM MembersStayCoherent == Spec => []MembersCoherent
<1>1. IInv /\ CacheSound /\ Bounded => MembersCoherent
  <2> SUFFICES ASSUME IInv, CacheSound, Bounded PROVE MembersCoherent
    OBVIOUS
  <2>1. panel.generation \in 0 .. MaxGeneration /\ panel.generation \in Nat
    BY AnalysisAssumption DEF IInv, MembersTyped, Bounded
  <2>2. \A job \in AnyJob : job.generation <= panel.generation => job \in Job
    BY <2>1, AnalysisAssumption DEF AnyJob, Job
  <2>3. pending \in Job \cup {None}
    <3>1. CASE pending # None
      <4>1. pending \in AnyJob /\ pending.generation = panel.generation
        BY <3>1 DEF IInv, MembersTyped, OnlyWantedWork
      <4> QED
        BY <2>1, <2>2, <4>1
    <3> QED
      BY <3>1
  <2>4. worker \in [pc : {"checking", "asleep", "decoding", "decoded", "releasing",
                          "delivering", "returned"},
                    job : Job \cup {None}, aborter : BOOLEAN, aborted : BOOLEAN,
                    snapshot : Snapshot]
    <3>1. worker.job \in Job \cup {None}
      BY <2>2 DEF IInv, MembersTyped, AnyWorker, GenerationsOrdered
    <3> QED
      BY <3>1 DEF IInv, MembersTyped, AnyWorker, Busy, Snapshot
  <2>5. \A i \in DOMAIN deliveries : deliveries[i] \in [job : Job, snapshot : Snapshot]
    <3> SUFFICES ASSUME NEW i \in DOMAIN deliveries
                 PROVE  deliveries[i] \in [job : Job, snapshot : Snapshot]
      OBVIOUS
    <3>1. i \in 1 .. Len(deliveries) /\ deliveries[i] \in Result
      BY DEF IInv, MembersTyped
    <3>2. deliveries[i].job \in AnyJob /\ deliveries[i].job.generation <= panel.generation
      BY <3>1 DEF Result, IInv, GenerationsOrdered
    <3>3. deliveries[i].job \in Job
      BY <2>2, <3>2
    <3> QED
      BY <3>1, <3>3 DEF Result, Snapshot
  <2>6. TypeOK
    BY <2>1, <2>3, <2>4, <2>5 DEF TypeOK, IInv, MembersTyped, CacheSound, ListTyped, Snapshot
  <2>7. CacheCoherent
    <3>1. ToSet(recency) = DOMAIN entries
      BY DEF CacheSound
    <3> QED
      BY <3>1 DEF CacheCoherent, CacheSound, ListTyped, IInv, SnapshotsTrue
  <2> QED
    BY <2>6, <2>7 DEF MembersCoherent
<1> QED
  BY <1>1, CacheInvariance, PTL
==============================================================================
