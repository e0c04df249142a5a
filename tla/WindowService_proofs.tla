-------------------------- MODULE WindowService_proofs --------------------------
(***************************************************************************)
(* For any number of threads, references and deferred seeks: as long as no *)
(* seek is deferred for a panel that nobody holds, the panel is deleted by *)
(* the main thread, after its window, with nobody left to touch it, and    *)
(* its lifetime is that of ServiceLifetime.                                *)
(*                                                                         *)
(* The argument: a thread that gave up the last reference is alone with    *)
(* the panel, because a reference can only be taken by who holds one; and  *)
(* once the release was postponed, only the main thread can be that        *)
(* thread again.                                                           *)
(***************************************************************************)
EXTENDS WindowService, TLAPS

Releasing(t) == ~ At(t, "out")

KeepsAlive(t) == pc[t] \in {"destroy_window", "destroyed_window"}

held == host + seeks + callbacks

(* The count is that of the references held, keep_alive included.          *)
Counted ==
  /\ (\A t \in Threads : ~ KeepsAlive(t)) => reference_count_ = held
  /\ (\E t \in Threads : KeepsAlive(t)) => reference_count_ = 1

(* Who releases the last reference is alone with the panel. *)
Alone ==
  /\ \A t, u \in Threads : Releasing(t) /\ Releasing(u) => t = u
  /\ (\E t \in Threads : Releasing(t)) =>
       host = 0 /\ seeks = 0 /\ callbacks = 0 /\ deleted_by = None

(* A panel that is not deleted and not being released is held. *)
Held ==
  (\A t \in Threads : At(t, "out")) /\ deleted_by = None => held > 0

(* A deferred seek runs at most once. *)
SeeksWereDeferred == seeks <= deferred

(* The release is postponed once; what is left then is the main thread's.  *)
PostponedOnce ==
  /\ ~ delayed_release_ => callbacks = 0
  /\ delayed_release_ => host = 0 /\ seeks = 0
  /\ \A t \in Threads :
       /\ pc[t] \in {"last", "decide"} /\ delayed_release_ => t = Main
       /\ pc[t] = "postpone" => delayed_release_
       /\ pc[t] \in {"keep_alive", "destroy_window", "destroyed_window"} =>
            t = Main /\ delayed_release_

(* The window the main thread saw is still there, or still gone; and it is *)
(* destroyed by the one attempt at it.                                     *)
WindowKnown ==
  /\ At(Main, "decide") => saw[Main] = window
  /\ destroying_window_ /\ window => At(Main, "keep_alive") \/ At(Main, "destroy_window")

IInv == /\ TypeOK
        /\ DeletedOnMain
        /\ NothingAfterDelete
        /\ Counted
        /\ Alone
        /\ Held
        /\ SeeksWereDeferred
        /\ PostponedOnce
        /\ WindowKnown

USE DEF At, Goto, shared, holders

------------------------------------------------------------------------------
LEMMA InitHolds == Init => IInv
<1> SUFFICES ASSUME Init PROVE IInv
  OBVIOUS
<1>1. \A t \in Threads : pc[t] = "out"
  BY DEF Init
<1>2. TypeOK
  <2>1. /\ reference_count_ \in Nat /\ host \in 0 .. MaxHost /\ seeks \in 0 .. MaxSeeks
        /\ callbacks \in Nat /\ deferred \in 0 .. MaxSeeks
    BY ServiceAssumption DEF Init
  <2>2. /\ delayed_release_ \in BOOLEAN /\ destroying_window_ \in BOOLEAN /\ window \in BOOLEAN
        /\ deleted_by \in Threads \cup {None} /\ saw \in [Threads -> BOOLEAN]
    BY DEF Init
  <2>3. pc \in [Threads -> {"out", "last", "decide", "postpone", "keep_alive", "destroy_window",
                            "destroyed_window"}]
    BY DEF Init
  <2> QED
    BY <2>1, <2>2, <2>3 DEF TypeOK
<1>3. DeletedOnMain /\ NothingAfterDelete
  BY DEF Init, DeletedOnMain, NothingAfterDelete
<1>4. Counted /\ Alone /\ Held
  BY <1>1 DEF Init, Counted, Alone, Held, Releasing, KeepsAlive, held
<1>5. SeeksWereDeferred /\ PostponedOnce /\ WindowKnown
  BY <1>1, Main \in Threads DEF Init, SeeksWereDeferred, PostponedOnce, WindowKnown, Threads
<1> QED
  BY <1>2, <1>3, <1>4, <1>5 DEF IInv

(* Taking one more reference while one is held. *)
LEMMA TakeStep ==
  ASSUME IInv, ~ LateSeeks, HostAdds \/ QueueSeek
  PROVE  IInv'
<1>1. /\ host' \in Nat /\ seeks' \in Nat /\ callbacks' \in Nat /\ reference_count_' \in Nat
      /\ host + seeks > 0
      /\ reference_count_' = reference_count_ + 1
      /\ held \in Nat /\ held' = held + 1
      /\ UNCHANGED <<delayed_release_, destroying_window_, window, deleted_by, callbacks, pc, saw>>
  <2>1. CASE HostAdds
    BY <2>1, ServiceAssumption DEF HostAdds, service_add_ref, IInv, TypeOK, held
  <2>2. CASE QueueSeek
    BY <2>2, ServiceAssumption DEF QueueSeek, service_add_ref, IInv, TypeOK, held
  <2> QED
    BY <2>1, <2>2
<1>2. /\ host' \in 0 .. MaxHost /\ seeks' \in 0 .. MaxSeeks /\ deferred' \in 0 .. MaxSeeks
      /\ SeeksWereDeferred'
  <2>1. CASE HostAdds
    BY <2>1, ServiceAssumption DEF HostAdds, IInv, TypeOK, SeeksWereDeferred
  <2>2. CASE QueueSeek
    BY <2>2, ServiceAssumption DEF QueueSeek, IInv, TypeOK, SeeksWereDeferred
  <2> QED
    BY <2>1, <2>2
<1>3. host \in Nat /\ seeks \in Nat /\ callbacks \in Nat /\ reference_count_ \in Nat
  BY ServiceAssumption DEF IInv, TypeOK
<1>4. \A t \in Threads : At(t, "out")
  BY <1>1, <1>3 DEF IInv, Alone, Releasing
<1>5. deleted_by = None /\ ~ delayed_release_
  BY <1>1, <1>3 DEF IInv, NothingAfterDelete, PostponedOnce
<1>6. TypeOK'
  BY <1>1, <1>2, <1>3 DEF IInv, TypeOK
<1>7. Alone' /\ (\A t \in Threads : ~ KeepsAlive(t) /\ ~ KeepsAlive(t)')
  BY <1>1, <1>4 DEF Alone, Releasing, KeepsAlive
<1>8. Held'
  BY <1>1 DEF Held
<1>9. Counted'
  BY <1>1, <1>7 DEF IInv, Counted
<1> QED
  BY <1>1, <1>2, <1>4, <1>5, <1>6, <1>7, <1>8, <1>9
  DEF IInv, DeletedOnMain, NothingAfterDelete, PostponedOnce, WindowKnown

(* Giving one up: it was the last, or others are still held.               *)
LEMMA GiveUpStep ==
  ASSUME IInv, NEW t \in Threads, HostReleases(t) \/ (t = Main /\ MainLoop)
  PROVE  IInv'
<1>1. /\ host' \in Nat /\ seeks' \in Nat /\ callbacks' \in Nat
      /\ held \in Nat /\ held > 0 /\ held' = held - 1
      /\ held' = 0 => host' = 0 /\ seeks' = 0 /\ callbacks' = 0
      /\ reference_count_' = reference_count_ - 1
      /\ pc' = [pc EXCEPT ![t] = IF reference_count_ = 1 THEN "last" ELSE "out"]
      /\ UNCHANGED <<delayed_release_, destroying_window_, window, deleted_by, saw, deferred>>
  <2>1. CASE HostReleases(t)
    BY <2>1, ServiceAssumption DEF HostReleases, GiveUp, IInv, TypeOK, held
  <2>2. CASE t = Main /\ RunSeek
    BY <2>2, ServiceAssumption DEF RunSeek, GiveUp, IInv, TypeOK, held
  <2>3. CASE t = Main /\ RunDelayedRelease
    BY <2>3, ServiceAssumption DEF RunDelayedRelease, GiveUp, IInv, TypeOK, held
  <2> QED
    BY <2>1, <2>2, <2>3 DEF MainLoop
<1>2. /\ host' \in 0 .. MaxHost /\ seeks' \in 0 .. MaxSeeks
      /\ SeeksWereDeferred'
      /\ host = 0 /\ seeks = 0 => host' = 0 /\ seeks' = 0
      /\ callbacks' > 0 => callbacks > 0
  <2>1. CASE HostReleases(t)
    BY <2>1, ServiceAssumption DEF HostReleases, GiveUp, IInv, TypeOK, SeeksWereDeferred
  <2>2. CASE t = Main /\ RunSeek
    BY <2>2, ServiceAssumption DEF RunSeek, GiveUp, IInv, TypeOK, SeeksWereDeferred
  <2>3. CASE t = Main /\ RunDelayedRelease
    BY <2>3, ServiceAssumption DEF RunDelayedRelease, GiveUp, IInv, TypeOK, SeeksWereDeferred
  <2> QED
    BY <2>1, <2>2, <2>3 DEF MainLoop
<1>3. host \in Nat /\ seeks \in Nat /\ callbacks \in Nat /\ reference_count_ \in Nat
  BY ServiceAssumption DEF IInv, TypeOK
<1>4. /\ \A u \in Threads : At(u, "out")
      /\ \A u \in Threads : ~ KeepsAlive(u)
      /\ reference_count_ = held
  <2>1. \A u \in Threads : At(u, "out")
    BY <1>1, <1>3 DEF IInv, Alone, Releasing, held
  <2>2. \A u \in Threads : ~ KeepsAlive(u)
    BY <2>1 DEF KeepsAlive
  <2> QED
    BY <2>1, <2>2 DEF IInv, Counted
<1>5. deleted_by = None
  BY <1>1, <1>3 DEF IInv, NothingAfterDelete, held
<1>6. /\ DOMAIN pc' = Threads
      /\ \A u \in Threads : u # t => pc'[u] = "out"
      /\ pc'[t] \in {"last", "out"}
      /\ pc'[t] = "last" <=> reference_count_ = 1
  BY <1>1, <1>4 DEF IInv, TypeOK
<1>7. \A u \in Threads : ~ KeepsAlive(u)'
  BY <1>6 DEF KeepsAlive
<1>8. TypeOK'
  <2>1. reference_count_' \in Nat
    BY <1>1, <1>3, <1>4
  <2>2. pc' \in [Threads -> {"out", "last", "decide", "postpone", "keep_alive", "destroy_window",
                            "destroyed_window"}]
    BY <1>1 DEF IInv, TypeOK
  <2> QED
    BY <1>1, <1>2, <2>1, <2>2 DEF IInv, TypeOK
<1>9. Counted'
  BY <1>1, <1>4, <1>7 DEF Counted
<1>10. pc'[t] = "last" => host' = 0 /\ seeks' = 0 /\ callbacks' = 0
  <2>1. pc'[t] = "last" => held' = 0
    BY <1>1, <1>4, <1>6
  <2> QED
    BY <1>1, <2>1
<1>11. Alone'
  BY <1>1, <1>5, <1>6, <1>10 DEF Alone, Releasing
<1>12. Held'
  <2>1. pc'[t] = "out" => held' > 0
    BY <1>1, <1>4, <1>6
  <2> QED
    BY <2>1 DEF Held
<1>13. PostponedOnce'
  <2>1. delayed_release_ => t = Main
    <3>1. delayed_release_ => host = 0
      BY DEF IInv, PostponedOnce
    <3> QED
      BY <3>1, <1>3 DEF HostReleases
  <2>2. ~ delayed_release_ => callbacks' = 0
    BY <1>1, <1>2, <1>3 DEF IInv, PostponedOnce
  <2> QED
    BY <1>1, <1>2, <1>6, <2>1, <2>2 DEF IInv, PostponedOnce
<1>14. WindowKnown'
  BY <1>1, <1>4, <1>6 DEF IInv, WindowKnown, Threads
<1> QED
  BY <1>1, <1>2, <1>5, <1>8, <1>9, <1>11, <1>12, <1>13, <1>14
  DEF IInv, DeletedOnMain, NothingAfterDelete

(* WM_NCDESTROY by the host. *)
LEMMA CloseStep ==
  ASSUME IInv, HostClosesWindow
  PROVE  IInv'
BY DEF HostClosesWindow, IInv, TypeOK, DeletedOnMain, NothingAfterDelete, Counted, Alone, Held,
   SeeksWereDeferred, PostponedOnce, WindowKnown, Releasing, KeepsAlive, held

(* What is known of a thread in service_release: it is the only one, and   *)
(* nobody else holds the panel.                                            *)
LEMMA ReleaserAlone ==
  ASSUME IInv, NEW t \in Threads, Releasing(t)
  PROVE  /\ host = 0 /\ seeks = 0 /\ callbacks = 0 /\ held = 0
         /\ deleted_by = None
         /\ \A u \in Threads : u # t => pc[u] = "out"
         /\ ~ KeepsAlive(t) => reference_count_ = 0
         /\ KeepsAlive(t) => reference_count_ = 1
<1>1. /\ host = 0 /\ seeks = 0 /\ callbacks = 0 /\ deleted_by = None
      /\ \A u \in Threads : u # t => pc[u] = "out"
  BY DEF IInv, Alone, Releasing
<1>2. held = 0
  BY <1>1 DEF held
<1>3. ~ KeepsAlive(t) => \A u \in Threads : ~ KeepsAlive(u)
  BY <1>1 DEF KeepsAlive
<1> QED
  BY <1>1, <1>2, <1>3 DEF IInv, Counted

(* The steps of service_release that leave the references alone: the       *)
(* thread moves on to another place.                                       *)
LEMMA MovesOn ==
  ASSUME IInv, NEW t \in Threads, Releasing(t),
         NEW place \in {"decide", "postpone", "keep_alive", "destroyed_window"},
         Goto(t, place),
         KeepsAlive(t)' <=> KeepsAlive(t),
         UNCHANGED <<host, seeks, callbacks, reference_count_, deferred, deleted_by>>,
         delayed_release_' \in BOOLEAN /\ destroying_window_' \in BOOLEAN /\ window' \in BOOLEAN,
         saw' \in [Threads -> BOOLEAN]
  PROVE  /\ TypeOK' /\ DeletedOnMain' /\ NothingAfterDelete' /\ SeeksWereDeferred'
         /\ Counted' /\ Alone' /\ Held'
         /\ pc'[t] = place
         /\ \A u \in Threads : u # t => pc'[u] = "out"
<1>1. /\ pc'[t] = place /\ place # "out"
      /\ \A u \in Threads : u # t => pc'[u] = "out"
      /\ pc' \in [Threads -> {"out", "last", "decide", "postpone", "keep_alive", "destroy_window",
                              "destroyed_window"}]
  BY ReleaserAlone DEF IInv, TypeOK
<1>2. TypeOK'
  BY <1>1 DEF IInv, TypeOK
<1>3. DeletedOnMain' /\ NothingAfterDelete' /\ SeeksWereDeferred'
  BY ReleaserAlone DEF IInv, DeletedOnMain, NothingAfterDelete, SeeksWereDeferred
<1>4. Counted'
  BY <1>1, ReleaserAlone DEF Counted, KeepsAlive, held
<1>5. Alone' /\ Held'
  BY <1>1, ReleaserAlone DEF Alone, Held, Releasing
<1> QED
  BY <1>1, <1>2, <1>3, <1>4, <1>5

LEMMA LookStep ==
  ASSUME IInv, NEW t \in Threads, GetWindow(t)
  PROVE  IInv'
<1>1. /\ pc[t] = "last" /\ Goto(t, "decide")
      /\ saw' = [saw EXCEPT ![t] = window]
      /\ UNCHANGED <<holders, deferred, reference_count_, delayed_release_, destroying_window_,
                     window, deleted_by>>
  BY DEF GetWindow
<1>2. saw' \in [Threads -> BOOLEAN] /\ saw'[t] = window
  BY <1>1 DEF IInv, TypeOK
<1>3. Releasing(t) /\ ~ KeepsAlive(t)
  BY <1>1 DEF Releasing, KeepsAlive
<1>4. pc'[t] = "decide"
  BY <1>1 DEF IInv, TypeOK
<1>5. KeepsAlive(t)' <=> KeepsAlive(t)
  BY <1>3, <1>4 DEF KeepsAlive
<1>6. /\ UNCHANGED <<host, seeks, callbacks, reference_count_, deferred, deleted_by>>
      /\ delayed_release_' \in BOOLEAN /\ destroying_window_' \in BOOLEAN /\ window' \in BOOLEAN
  BY <1>1 DEF IInv, TypeOK
<1>7. /\ TypeOK' /\ DeletedOnMain' /\ NothingAfterDelete' /\ SeeksWereDeferred'
      /\ Counted' /\ Alone' /\ Held'
      /\ \A u \in Threads : u # t => pc'[u] = "out"
  BY <1>1, <1>2, <1>3, <1>5, <1>6, MovesOn
<1>8. PostponedOnce'
  BY <1>1, <1>4, <1>7 DEF IInv, PostponedOnce
<1>9. WindowKnown'
  <2>1. At(Main, "decide")' => t = Main
    BY <1>7 DEF Threads
  <2>2. destroying_window_ /\ window => At(Main, "keep_alive") \/ At(Main, "destroy_window")
    BY DEF IInv, WindowKnown
  <2>3. Main # t => pc[Main] = "out"
    BY <1>3, ReleaserAlone DEF Threads
  <2> QED
    BY <1>1, <1>2, <2>1, <2>2, <2>3 DEF WindowKnown
<1> QED
  BY <1>7, <1>8, <1>9 DEF IInv

(* The thread that postpones found nothing postponed before. *)
LEMMA PostponeStep ==
  ASSUME IInv, NEW t \in Threads, Postpone(t)
  PROVE  IInv'
<1>1. /\ pc[t] = "decide" /\ Goto(t, "postpone") /\ delayed_release_' = TRUE
      /\ UNCHANGED <<holders, deferred, reference_count_, destroying_window_, window, deleted_by,
                     saw>>
  BY DEF Postpone
<1>2. ~ delayed_release_
  BY DEF Postpone, Postpones
<1>3. Releasing(t) /\ ~ KeepsAlive(t)
  BY <1>1 DEF Releasing, KeepsAlive
<1>4. pc'[t] = "postpone"
  BY <1>1 DEF IInv, TypeOK
<1>5. KeepsAlive(t)' <=> KeepsAlive(t)
  BY <1>3, <1>4 DEF KeepsAlive
<1>6. /\ UNCHANGED <<host, seeks, callbacks, reference_count_, deferred, deleted_by>>
      /\ delayed_release_' \in BOOLEAN /\ destroying_window_' \in BOOLEAN /\ window' \in BOOLEAN
      /\ saw' \in [Threads -> BOOLEAN]
  BY <1>1 DEF IInv, TypeOK
<1>7. /\ TypeOK' /\ DeletedOnMain' /\ NothingAfterDelete' /\ SeeksWereDeferred'
      /\ Counted' /\ Alone' /\ Held'
      /\ \A u \in Threads : u # t => pc'[u] = "out"
  BY <1>1, <1>3, <1>5, <1>6, MovesOn
<1>8. PostponedOnce'
  <2>1. host' = 0 /\ seeks' = 0
    BY <1>1, <1>3, ReleaserAlone
  <2> QED
    BY <1>1, <1>4, <1>7, <2>1 DEF PostponedOnce
<1>9. WindowKnown'
  <2>1. destroying_window_ /\ window => At(Main, "keep_alive") \/ At(Main, "destroy_window")
    BY DEF IInv, WindowKnown
  <2>2. pc[Main] \in {"out", "decide"} /\ pc'[Main] \in {"out", "postpone"}
    BY <1>1, <1>3, <1>4, <1>7, ReleaserAlone DEF Threads
  <2> QED
    BY <1>1, <2>1, <2>2 DEF WindowKnown
<1> QED
  BY <1>7, <1>8, <1>9 DEF IInv

(* The callback takes the one reference there is then. *)
LEMMA DelayedStep ==
  ASSUME IInv, NEW t \in Threads, ReleaseObjectDelayed(t)
  PROVE  IInv'
<1>1. /\ pc[t] = "postpone" /\ pc' = [pc EXCEPT ![t] = "out"]
      /\ callbacks' = callbacks + 1
      /\ reference_count_' = reference_count_ + 1
      /\ UNCHANGED <<delayed_release_, destroying_window_, window, deleted_by, host, seeks, saw,
                     deferred>>
  BY DEF ReleaseObjectDelayed, service_add_ref
<1>2. Releasing(t) /\ ~ KeepsAlive(t)
  BY <1>1 DEF Releasing, KeepsAlive
<1>3. /\ host' = 0 /\ seeks' = 0 /\ callbacks' = 1
      /\ reference_count_' = 1 /\ deleted_by' = None
  BY <1>1, <1>2, ReleaserAlone
<1>4. held' = 1
  BY <1>3 DEF held
<1>5. \A u \in Threads : pc'[u] = "out"
  BY <1>1, <1>2, ReleaserAlone DEF IInv, TypeOK
<1>6. TypeOK'
  <2>1. reference_count_' \in Nat /\ callbacks' \in Nat
    BY <1>3
  <2>2. pc' \in [Threads -> {"out", "last", "decide", "postpone", "keep_alive", "destroy_window",
                            "destroyed_window"}]
    BY <1>1 DEF IInv, TypeOK
  <2> QED
    BY <1>1, <2>1, <2>2 DEF IInv, TypeOK
<1>7. Counted'
  BY <1>3, <1>4, <1>5 DEF Counted, KeepsAlive
<1>8. Alone' /\ Held'
  BY <1>4, <1>5 DEF Alone, Held, Releasing
<1>9. delayed_release_
  BY <1>1 DEF IInv, PostponedOnce
<1>10. PostponedOnce'
  BY <1>1, <1>3, <1>5, <1>9 DEF PostponedOnce
<1>11. WindowKnown'
  <2>1. destroying_window_ /\ window => At(Main, "keep_alive") \/ At(Main, "destroy_window")
    BY DEF IInv, WindowKnown
  <2>2. pc[Main] \in {"out", "postpone"} /\ pc'[Main] = "out"
    BY <1>1, <1>2, <1>5, ReleaserAlone DEF Threads
  <2> QED
    BY <1>1, <2>1, <2>2 DEF WindowKnown
<1> QED
  BY <1>1, <1>3, <1>6, <1>7, <1>8, <1>10, <1>11
  DEF IInv, DeletedOnMain, NothingAfterDelete, SeeksWereDeferred

(* Only the main thread destroys the window, after a postponed release. *)
LEMMA BeginStep ==
  ASSUME IInv, NEW t \in Threads, BeginDestroying(t)
  PROVE  IInv'
<1>1. /\ pc[t] = "decide" /\ Goto(t, "keep_alive") /\ destroying_window_' = TRUE
      /\ UNCHANGED <<holders, deferred, reference_count_, delayed_release_, window, deleted_by,
                     saw>>
  BY DEF BeginDestroying
<1>2. delayed_release_ /\ saw[t]
  BY DEF BeginDestroying, Destroys, Postpones, IInv, TypeOK
<1>3. Releasing(t) /\ ~ KeepsAlive(t)
  BY <1>1 DEF Releasing, KeepsAlive
<1>4. pc'[t] = "keep_alive"
  BY <1>1 DEF IInv, TypeOK
<1>5. KeepsAlive(t)' <=> KeepsAlive(t)
  BY <1>3, <1>4 DEF KeepsAlive
<1>6. /\ UNCHANGED <<host, seeks, callbacks, reference_count_, deferred, deleted_by>>
      /\ delayed_release_' \in BOOLEAN /\ destroying_window_' \in BOOLEAN /\ window' \in BOOLEAN
      /\ saw' \in [Threads -> BOOLEAN]
  BY <1>1 DEF IInv, TypeOK
<1>7. /\ TypeOK' /\ DeletedOnMain' /\ NothingAfterDelete' /\ SeeksWereDeferred'
      /\ Counted' /\ Alone' /\ Held'
      /\ \A u \in Threads : u # t => pc'[u] = "out"
  BY <1>1, <1>3, <1>5, <1>6, MovesOn
<1>8. t = Main
  BY <1>1, <1>2 DEF IInv, PostponedOnce
<1>9. PostponedOnce'
  BY <1>1, <1>2, <1>4, <1>7, <1>8 DEF IInv, PostponedOnce
<1>10. WindowKnown'
  BY <1>4, <1>8 DEF WindowKnown
<1> QED
  BY <1>7, <1>9, <1>10 DEF IInv

LEMMA KeepAliveStep ==
  ASSUME IInv, NEW t \in Threads, KeepAlive(t) \/ ForgetKeepAlive(t)
  PROVE  IInv'
<1> DEFINE place == IF pc[t] = "keep_alive" THEN "destroy_window" ELSE "last"
<1>1. /\ pc[t] \in {"keep_alive", "destroyed_window"}
      /\ UNCHANGED <<delayed_release_, destroying_window_, window, deleted_by, host, seeks,
                     callbacks, saw, deferred>>
  BY DEF KeepAlive, ForgetKeepAlive, GiveUp
<1>2. Releasing(t)
  BY <1>1 DEF Releasing
<1>3. /\ pc' = [pc EXCEPT ![t] = place]
      /\ reference_count_' = IF pc[t] = "keep_alive" THEN 1 ELSE 0
  <2>1. CASE KeepAlive(t)
    <3>1. pc[t] = "keep_alive"
      BY <2>1 DEF KeepAlive
    <3>2. reference_count_ = 0
      BY <3>1, <1>2, ReleaserAlone DEF KeepsAlive
    <3> QED
      BY <2>1, <3>1, <3>2 DEF KeepAlive, service_add_ref
  <2>2. CASE ForgetKeepAlive(t)
    <3>1. pc[t] = "destroyed_window"
      BY <2>2 DEF ForgetKeepAlive
    <3>2. reference_count_ = 1
      BY <3>1, <1>2, ReleaserAlone DEF KeepsAlive
    <3> QED
      BY <2>2, <3>1, <3>2 DEF ForgetKeepAlive, GiveUp
  <2> QED
    BY <2>1, <2>2
<1>4. t = Main /\ delayed_release_
  BY <1>1 DEF IInv, PostponedOnce
<1>5. /\ pc'[t] = place
      /\ \A u \in Threads : u # t => pc'[u] = "out"
      /\ pc' \in [Threads -> {"out", "last", "decide", "postpone", "keep_alive", "destroy_window",
                              "destroyed_window"}]
  BY <1>2, <1>3, ReleaserAlone DEF IInv, TypeOK
<1>6. host = 0 /\ seeks = 0 /\ callbacks = 0 /\ deleted_by = None /\ held' = 0
  BY <1>1, <1>2, ReleaserAlone DEF held
<1>7. TypeOK'
  BY <1>1, <1>3, <1>5 DEF IInv, TypeOK
<1>8. Counted'
  BY <1>1, <1>3, <1>5, <1>6 DEF Counted, KeepsAlive
<1>9. Alone' /\ Held'
  BY <1>1, <1>5, <1>6 DEF Alone, Held, Releasing
<1>10. PostponedOnce'
  BY <1>1, <1>4, <1>5, <1>6 DEF PostponedOnce
<1>11. WindowKnown'
  <2>1. destroying_window_ /\ window => At(Main, "keep_alive") \/ At(Main, "destroy_window")
    BY DEF IInv, WindowKnown
  <2> QED
    BY <1>1, <1>4, <1>5, <2>1 DEF WindowKnown
<1> QED
  BY <1>1, <1>6, <1>7, <1>8, <1>9, <1>10, <1>11
  DEF IInv, DeletedOnMain, NothingAfterDelete, SeeksWereDeferred

LEMMA DestroyStep ==
  ASSUME IInv, NEW t \in Threads, DestroyWindow(t)
  PROVE  IInv' /\ t = Main /\ ~ window'
<1>1. /\ pc[t] = "destroy_window" /\ Goto(t, "destroyed_window")
      /\ window' = (window /\ t # Main)
      /\ UNCHANGED <<holders, deferred, reference_count_, delayed_release_, destroying_window_,
                     deleted_by, saw>>
  BY DEF DestroyWindow
<1>2. t = Main /\ delayed_release_
  BY <1>1 DEF IInv, PostponedOnce
<1>3. Releasing(t) /\ KeepsAlive(t)
  BY <1>1 DEF Releasing, KeepsAlive
<1>4. pc'[t] = "destroyed_window"
  BY <1>1 DEF IInv, TypeOK
<1>5. KeepsAlive(t)' <=> KeepsAlive(t)
  BY <1>3, <1>4 DEF KeepsAlive
<1>6. /\ UNCHANGED <<host, seeks, callbacks, reference_count_, deferred, deleted_by>>
      /\ delayed_release_' \in BOOLEAN /\ destroying_window_' \in BOOLEAN /\ window' \in BOOLEAN
      /\ saw' \in [Threads -> BOOLEAN]
  BY <1>1 DEF IInv, TypeOK
<1>7. /\ TypeOK' /\ DeletedOnMain' /\ NothingAfterDelete' /\ SeeksWereDeferred'
      /\ Counted' /\ Alone' /\ Held'
      /\ \A u \in Threads : u # t => pc'[u] = "out"
  BY <1>1, <1>3, <1>5, <1>6, MovesOn
<1>8. PostponedOnce'
  BY <1>1, <1>2, <1>4, <1>7 DEF IInv, PostponedOnce
<1>9. WindowKnown'
  BY <1>1, <1>2, <1>4 DEF WindowKnown
<1> QED
  BY <1>1, <1>2, <1>7, <1>8, <1>9 DEF IInv

(* Only the main thread gets past both tests, and then the window is gone. *)
LEMMA DeleteStep ==
  ASSUME IInv, NEW t \in Threads, Delete(t)
  PROVE  IInv' /\ ~ window /\ host = 0 /\ seeks = 0 /\ deleted_by = None /\ deleted_by' = Main
<1>1. /\ pc[t] = "decide" /\ pc' = [pc EXCEPT ![t] = "out"] /\ deleted_by' = t
      /\ ~ Postpones(t) /\ ~ Destroys(t)
      /\ UNCHANGED <<reference_count_, delayed_release_, destroying_window_, window, host, seeks,
                     callbacks, saw, deferred>>
  BY DEF Delete
<1>2. Releasing(t) /\ ~ KeepsAlive(t)
  BY <1>1 DEF Releasing, KeepsAlive
<1>3. t = Main
  BY <1>1 DEF Postpones, IInv, PostponedOnce
<1>4. ~ window
  <2>1. saw[Main] = window
    BY <1>1, <1>3 DEF IInv, WindowKnown
  <2>2. ~ (destroying_window_ /\ window)
    BY <1>1, <1>3 DEF IInv, WindowKnown
  <2> QED
    BY <1>1, <1>3, <2>1, <2>2 DEF Destroys
<1>5. /\ host = 0 /\ seeks = 0 /\ callbacks = 0 /\ held = 0 /\ held' = held
      /\ reference_count_ = 0 /\ deleted_by = None
  BY <1>1, <1>2, ReleaserAlone DEF held
<1>6. \A u \in Threads : pc'[u] = "out"
  BY <1>1, <1>2, ReleaserAlone DEF IInv, TypeOK
<1>7. TypeOK'
  <2>1. pc' \in [Threads -> {"out", "last", "decide", "postpone", "keep_alive", "destroy_window",
                            "destroyed_window"}]
    BY <1>1 DEF IInv, TypeOK
  <2> QED
    BY <1>1, <2>1 DEF IInv, TypeOK
<1>8. DeletedOnMain' /\ NothingAfterDelete' /\ SeeksWereDeferred'
  BY <1>1, <1>3, <1>4, <1>5, <1>6 DEF IInv, DeletedOnMain, NothingAfterDelete, SeeksWereDeferred
<1>9. Counted'
  BY <1>1, <1>5, <1>6 DEF Counted, KeepsAlive
<1>10. Alone' /\ Held'
  BY <1>1, <1>3, <1>6, ServiceAssumption DEF Alone, Held, Releasing, Threads
<1>11. PostponedOnce'
  BY <1>1, <1>5, <1>6 DEF IInv, PostponedOnce
<1>12. WindowKnown'
  BY <1>1, <1>3, <1>4, <1>6 DEF WindowKnown
<1> QED
  BY <1>1, <1>3, <1>4, <1>5, <1>7, <1>8, <1>9, <1>10, <1>11, <1>12 DEF IInv

LEMMA StepHolds ==
  ASSUME ~ LateSeeks, IInv, [Next]_vars
  PROVE  IInv'
<1>1. CASE HostAdds \/ QueueSeek
  BY <1>1, TakeStep
<1>2. CASE MainLoop
  BY <1>2, GiveUpStep DEF Threads
<1>3. CASE HostClosesWindow
  BY <1>3, CloseStep
<1>4. ASSUME NEW t \in Threads, HostReleases(t)
      PROVE  IInv'
  BY <1>4, GiveUpStep
<1>5. ASSUME NEW t \in Threads, ServiceRelease(t)
      PROVE  IInv'
  BY <1>5, LookStep, PostponeStep, DelayedStep, BeginStep, KeepAliveStep, DestroyStep, DeleteStep
  DEF ServiceRelease
<1>6. CASE UNCHANGED vars
  BY <1>6 DEF vars, IInv, TypeOK, DeletedOnMain, NothingAfterDelete, Counted, Alone, Held,
     SeeksWereDeferred, PostponedOnce, WindowKnown, Releasing, KeepsAlive, held
<1> QED
  BY <1>1, <1>2, <1>3, <1>4, <1>5, <1>6 DEF Next

LEMMA Invariance ==
  ASSUME ~ LateSeeks
  PROVE  Spec => []IInv
<1>1. IInv /\ [Next]_vars => IInv'
  BY StepHolds
<1> QED
  BY <1>1, InitHolds, PTL DEF Spec

------------------------------------------------------------------------------
(* With nobody deferring seeks for a panel that is not held (the panel's   *)
(* loop is off by then: WindowService_race shows what else happens), the   *)
(* panel is deleted on the main thread, without its window, when nothing   *)
(* refers to it any more; whatever threads give up references, in          *)
(* whatever order.                                                         *)
THEOREM DeletionIsSafe ==
  ASSUME ~ LateSeeks
  PROVE  Spec => []DeletedSafely
<1>1. IInv => DeletedSafely
  BY DEF IInv, DeletedSafely
<1> QED
  BY <1>1, Invariance, PTL

(* service_release keeps the order ServiceLifetime promises: every step of *)
(* a thread is one of the abstract panel's, or none.  (That the deletion   *)
(* comes is a matter of fairness, which the run checks.)                   *)
THEOREM KeepsLifetime ==
  ASSUME ~ LateSeeks
  PROVE  Spec => Lifetime!Init /\ [][Lifetime!Next]_(Lifetime!vars)
<1>1. Init => Lifetime!Init
  BY DEF Init, Lifetime!Init
<1>2. IInv /\ [Next]_vars => [Lifetime!Next]_(Lifetime!vars)
  <2> SUFFICES ASSUME IInv, [Next]_vars
               PROVE  [Lifetime!Next]_(Lifetime!vars)
    OBVIOUS
  <2>0. host \in Nat /\ seeks \in Nat
    BY ServiceAssumption DEF IInv, TypeOK
  <2>1. CASE HostAdds \/ QueueSeek
    <3>1. host + seeks > 0 /\ host' + seeks' = host + seeks + 1
      BY <2>0, <2>1 DEF HostAdds, QueueSeek
    <3>2. deleted_by = None /\ UNCHANGED <<window, deleted_by>>
      BY <2>0, <2>1, <3>1 DEF HostAdds, QueueSeek, IInv, NothingAfterDelete
    <3> QED
      BY <3>1, <3>2 DEF Lifetime!Next, Lifetime!Take
  <2>2. ASSUME (\E t \in Threads : HostReleases(t)) \/ RunSeek
        PROVE  [Lifetime!Next]_(Lifetime!vars)
    <3>1. /\ host + seeks > 0 /\ host' + seeks' = (host + seeks) - 1
          /\ UNCHANGED <<window, deleted_by>>
      BY <2>0, <2>2 DEF HostReleases, RunSeek, GiveUp
    <3>2. UNCHANGED <<window, deleted_by = None>>
      BY <3>1
    <3>3. Lifetime!GiveUp
      BY <3>1, <3>2, Zenon DEF Lifetime!GiveUp
    <3> QED
      BY <3>3 DEF Lifetime!Next
  <2>3. CASE RunDelayedRelease
    BY <2>3 DEF RunDelayedRelease, GiveUp, Lifetime!vars
  <2>4. CASE HostClosesWindow
    <3>1. /\ window /\ window' = FALSE /\ deleted_by = None
          /\ UNCHANGED <<host, seeks, deleted_by>>
      BY <2>4 DEF HostClosesWindow, IInv, NothingAfterDelete
    <3> QED
      BY <3>1 DEF Lifetime!Next, Lifetime!CloseWindow
  <2>5. ASSUME NEW t \in Threads, ServiceRelease(t)
        PROVE  [Lifetime!Next]_(Lifetime!vars)
    <3>1. CASE DestroyWindow(t)
      <4>1. UNCHANGED <<host, seeks, deleted_by>> /\ Releasing(t)
        BY <3>1 DEF DestroyWindow, Releasing
      <4>2. deleted_by = None
        BY <4>1, ReleaserAlone
      <4>3. window' = FALSE
        BY <3>1, DestroyStep DEF IInv, TypeOK
      <4>4. window = FALSE \/ window = TRUE
        BY DEF IInv, TypeOK
      <4>5. CASE window = TRUE
        BY <4>1, <4>2, <4>3, <4>5 DEF Lifetime!Next, Lifetime!CloseWindow
      <4>6. CASE window = FALSE
        BY <4>1, <4>3, <4>6 DEF Lifetime!vars
      <4> QED
        BY <4>4, <4>5, <4>6
    <3>2. CASE Delete(t)
      <4>1. /\ ~ window /\ host = 0 /\ seeks = 0 /\ deleted_by = None /\ deleted_by' # None
            /\ UNCHANGED <<host, seeks, window>>
        BY <3>2, DeleteStep, ServiceAssumption DEF Delete
      <4> QED
        BY <4>1 DEF Lifetime!Next, Lifetime!Delete
    <3>3. CASE \/ GetWindow(t) \/ Postpone(t) \/ ReleaseObjectDelayed(t)
               \/ BeginDestroying(t) \/ KeepAlive(t) \/ ForgetKeepAlive(t)
      BY <3>3 DEF GetWindow, Postpone, ReleaseObjectDelayed, BeginDestroying, KeepAlive,
         ForgetKeepAlive, GiveUp, Lifetime!vars
    <3> QED
      BY <2>5, <3>1, <3>2, <3>3 DEF ServiceRelease
  <2>6. CASE UNCHANGED vars
    BY <2>6 DEF vars, Lifetime!vars
  <2> QED
    BY <2>1, <2>2, <2>3, <2>4, <2>5, <2>6 DEF Next, MainLoop
<1> QED
  BY <1>1, <1>2, Invariance, PTL DEF Spec
==============================================================================
