----------------------------- MODULE ServiceLifetime -----------------------------
(***************************************************************************)
(* What the lifetime wrapper of a panel promises (the comment above        *)
(* WindowService, src/foobar/ui_element.cpp): the panel and its window     *)
(* live while somebody holds a reference; after the last is given up the   *)
(* window closes, and then, once, the panel is deleted.                    *)
(***************************************************************************)
EXTENDS Naturals

VARIABLES references,   \* held by the host and by deferred work
          window,       \* whether the child window exists
          live          \* whether the panel exists

vars == <<references, window, live>>

Init == references = 1 /\ window = TRUE /\ live = TRUE

(* Also from none: work that the window starts holds the panel. *)
Take == live /\ references' = references + 1 /\ UNCHANGED <<window, live>>

GiveUp == references > 0 /\ references' = references - 1 /\ UNCHANGED <<window, live>>

(* By the host at any time, or because nobody holds the panel. *)
CloseWindow == live /\ window /\ window' = FALSE /\ UNCHANGED <<references, live>>

Delete ==
  /\ live /\ references = 0 /\ ~ window
  /\ live' = FALSE
  /\ UNCHANGED <<references, window>>

Next == Take \/ GiveUp \/ CloseWindow \/ Delete

Spec ==
  /\ Init /\ [][Next]_vars
  /\ WF_vars(references = 0 /\ CloseWindow)
  /\ WF_vars(Delete)
==============================================================================
