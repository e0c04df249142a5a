------------------------------ MODULE WindowService ------------------------------
(***************************************************************************)
(* The reference count of a panel (WindowService in                        *)
(* src/foobar/ui_element.cpp): service_release gives the last reference    *)
(* up on whatever thread, and has to see to it that the window is closed   *)
(* and the panel deleted by the main thread, although holding it again and *)
(* giving it up again is part of that.                                     *)
(*                                                                         *)
(* A step is one access to what the threads share.  External: the delayed  *)
(* release holds a reference until a callback on the main thread gives it  *)
(* up, and Windows lets a window be destroyed only by its own thread.      *)
(***************************************************************************)
EXTENDS Integers

CONSTANTS None, Main,
          Others,         \* other threads on which the host may give up a reference
          MaxHost,        \* bound on the host's references
          MaxSeeks,       \* bound on the seeks the panel defers
          LateSeeks       \* the loop is on although nobody holds the panel any more

ASSUME ServiceAssumption ==
  /\ Main \notin Others /\ None \notin Others \cup {Main}
  /\ MaxHost \in Nat \ {0} /\ MaxSeeks \in Nat /\ LateSeeks \in BOOLEAN

VARIABLES
  reference_count_, delayed_release_, destroying_window_,
  window,      \* whether window_ exists
  deleted_by,  \* the thread that deleted the panel, or None
  host,        \* references of the host,
  seeks,       \* of deferred seeks (self),
  callbacks,   \* and of delayed releases
  pc,          \* where a thread is in service_release, or "out"
  saw,         \* the window it read there
  deferred     \* how many seeks were deferred so far

shared == <<reference_count_, delayed_release_, destroying_window_, window, deleted_by>>
holders == <<host, seeks, callbacks>>
vars == <<shared, holders, pc, saw, deferred>>

Threads == {Main} \cup Others

Init ==
  /\ reference_count_ = 1
  /\ delayed_release_ = FALSE /\ destroying_window_ = FALSE
  /\ window = TRUE
  /\ deleted_by = None
  /\ host = 1 /\ seeks = 0 /\ callbacks = 0
  /\ pc = [t \in Threads |-> "out"]
  /\ saw = [t \in Threads |-> FALSE]
  /\ deferred = 0

------------------------------------------------------------------------------
(* References.  The main thread does one thing at a time. *)

At(t, place) == pc[t] = place
Goto(t, place) == pc' = [pc EXCEPT ![t] = place]

service_add_ref == reference_count_' = reference_count_ + 1

(* The decrement, which tells whether this was the last reference. *)
GiveUp(t) ==
  /\ reference_count_' = reference_count_ - 1
  /\ Goto(t, IF reference_count_ = 1 THEN "last" ELSE "out")
  /\ UNCHANGED <<delayed_release_, destroying_window_, window, deleted_by, saw>>

HostAdds ==
  /\ host \in 1 .. MaxHost - 1
  /\ host' = host + 1
  /\ service_add_ref
  /\ UNCHANGED <<delayed_release_, destroying_window_, window, deleted_by, seeks, callbacks,
                 pc, saw, deferred>>

HostReleases(t) ==
  /\ At(t, "out")
  /\ host > 0 /\ host' = host - 1
  /\ GiveUp(t)
  /\ UNCHANGED <<seeks, callbacks, deferred>>

(* queue_transport_seek, called by the timer and by playback callbacks *)
QueueSeek ==
  /\ At(Main, "out") /\ deleted_by = None
  /\ LateSeeks \/ host + seeks > 0
  /\ deferred < MaxSeeks /\ deferred' = deferred + 1
  /\ seeks' = seeks + 1
  /\ service_add_ref
  /\ UNCHANGED <<delayed_release_, destroying_window_, window, deleted_by, host, callbacks,
                 pc, saw>>

RunSeek ==
  /\ At(Main, "out")
  /\ seeks > 0 /\ seeks' = seeks - 1
  /\ GiveUp(Main)
  /\ UNCHANGED <<host, callbacks, deferred>>

RunDelayedRelease ==
  /\ At(Main, "out")
  /\ callbacks > 0 /\ callbacks' = callbacks - 1
  /\ GiveUp(Main)
  /\ UNCHANGED <<host, seeks, deferred>>

(* The host destroys the parent window: WM_NCDESTROY. *)
HostClosesWindow ==
  /\ At(Main, "out")
  /\ window /\ window' = FALSE
  /\ UNCHANGED <<reference_count_, delayed_release_, destroying_window_, deleted_by,
                 holders, pc, saw, deferred>>

------------------------------------------------------------------------------
(* The rest of service_release, after the last reference *)

GetWindow(t) ==
  /\ At(t, "last")
  /\ saw' = [saw EXCEPT ![t] = window]
  /\ Goto(t, "decide")
  /\ UNCHANGED <<shared, holders, deferred>>

PostponesWindows(t) == saw[t] /\ ~ delayed_release_   \* mutant

PostponesAgain(t) == t # Main \/ saw[t]   \* mutant

(* The first test: not now, or not here *)
Postpones(t) == (t # Main \/ saw[t]) /\ ~ delayed_release_

Postpone(t) ==
  /\ At(t, "decide")
  /\ Postpones(t)
  /\ delayed_release_' = TRUE
  /\ Goto(t, "postpone")
  /\ UNCHANGED <<reference_count_, destroying_window_, window, deleted_by, holders, saw, deferred>>

(* release_object_delayed *)
ReleaseObjectDelayed(t) ==
  /\ At(t, "postpone")
  /\ callbacks' = callbacks + 1
  /\ service_add_ref
  /\ Goto(t, "out")
  /\ UNCHANGED <<delayed_release_, destroying_window_, window, deleted_by, host, seeks,
                 saw, deferred>>

(* The second test *)
Destroys(t) == ~ Postpones(t) /\ saw[t] /\ ~ destroying_window_

BeginDestroying(t) ==
  /\ At(t, "decide")
  /\ Destroys(t)
  /\ destroying_window_' = TRUE
  /\ Goto(t, "keep_alive")
  /\ UNCHANGED <<reference_count_, delayed_release_, window, deleted_by, holders, saw, deferred>>

KeepAlive(t) ==
  /\ At(t, "keep_alive")
  /\ service_add_ref
  /\ Goto(t, "destroy_window")
  /\ UNCHANGED <<delayed_release_, destroying_window_, window, deleted_by, holders, saw, deferred>>

DestroyWindow(t) ==
  /\ At(t, "destroy_window")
  /\ window' = (window /\ t # Main)
  /\ Goto(t, "destroyed_window")
  /\ UNCHANGED <<reference_count_, delayed_release_, destroying_window_, deleted_by,
                 holders, saw, deferred>>

(* keep_alive goes out of scope. *)
ForgetKeepAlive(t) ==
  /\ At(t, "destroyed_window")
  /\ GiveUp(t)
  /\ UNCHANGED <<holders, deferred>>

Delete(t) ==
  /\ At(t, "decide")
  /\ ~ Postpones(t) /\ ~ Destroys(t)
  /\ deleted_by' = t
  /\ Goto(t, "out")
  /\ UNCHANGED <<reference_count_, delayed_release_, destroying_window_, window,
                 holders, saw, deferred>>

ServiceRelease(t) ==
  \/ GetWindow(t) \/ Postpone(t) \/ ReleaseObjectDelayed(t)
  \/ BeginDestroying(t) \/ KeepAlive(t) \/ DestroyWindow(t) \/ ForgetKeepAlive(t) \/ Delete(t)

------------------------------------------------------------------------------
MainLoop == RunSeek \/ RunDelayedRelease

Next ==
  \/ HostAdds \/ QueueSeek \/ MainLoop \/ HostClosesWindow
  \/ \E t \in Threads : HostReleases(t) \/ ServiceRelease(t)

(* Threads run, and so does the main loop.  The host need not let go. *)
Spec ==
  /\ Init /\ [][Next]_vars
  /\ WF_vars(MainLoop)
  /\ \A t \in Threads : WF_vars(ServiceRelease(t))

------------------------------------------------------------------------------
TypeOK ==
  /\ reference_count_ \in Nat
  /\ delayed_release_ \in BOOLEAN /\ destroying_window_ \in BOOLEAN /\ window \in BOOLEAN
  /\ deleted_by \in Threads \cup {None}
  /\ host \in 0 .. MaxHost /\ seeks \in 0 .. MaxSeeks /\ callbacks \in Nat
  /\ pc \in [Threads -> {"out", "last", "decide", "postpone", "keep_alive", "destroy_window",
                         "destroyed_window"}]
  /\ saw \in [Threads -> BOOLEAN]
  /\ deferred \in 0 .. MaxSeeks

(* "guarantees that destruction is deferred to foobar2000's main thread"   *)
(* (ui_element.cpp:2531).                                                  *)
DeletedOnMain == deleted_by \in {None, Main}

(* Nobody touches the panel after its deletion: no reference is left, no   *)
(* thread is still releasing one, and no window would send it messages.    *)
NothingAfterDelete ==
  deleted_by # None =>
    /\ ~ window
    /\ host = 0 /\ seeks = 0 /\ callbacks = 0
    /\ \A t \in Threads : At(t, "out")

(* Deleted where it should be, and when it should be. *)
DeletedSafely == TypeOK /\ DeletedOnMain /\ NothingAfterDelete

------------------------------------------------------------------------------
(* The references ServiceLifetime speaks of are those of the host and of   *)
(* the deferred seeks; the others are the service's own means.             *)
Lifetime == INSTANCE ServiceLifetime
  WITH references <- host + seeks, window <- window, live <- deleted_by = None

(* The wrapper keeps the promise of ServiceLifetime, with the deletion     *)
(* that it says must come.                                                 *)
LifetimeSpec == Lifetime!Spec
==============================================================================
