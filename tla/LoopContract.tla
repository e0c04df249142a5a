----------------------------- MODULE LoopContract -----------------------------
(***************************************************************************)
(* What a LoopTransport promises its caller, without positions or markers. *)
(* A loop is off, ready to jump back, returning (a jump was asked for and  *)
(* playback has not been seen inside the loop since) or released by a      *)
(* manual seek out of the loop.  A jump is asked for only when the loop is *)
(* ready; of all requests ever handed out at most the newest may still be  *)
(* carried out (live is its number, or 0 when there is none), and none     *)
(* outlives the epoch it was asked in.                                     *)
(***************************************************************************)
EXTENDS Naturals

VARIABLES phase, live, asked, epoch

vars == <<phase, live, asked, epoch>>

Init == phase = "off" /\ live = 0 /\ asked = 0 /\ epoch = 1

(* Enabling, disabling and new markers: a fresh epoch. *)
Restart ==
  /\ phase' \in {"off", "ready"}
  /\ live' = 0
  /\ epoch' = epoch + 1
  /\ UNCHANGED asked

Ask ==
  /\ phase = "ready"
  /\ phase' = "returning"
  /\ asked' = asked + 1
  /\ live' = asked + 1
  /\ UNCHANGED epoch

(* The jump was carried out; playback still has to be seen inside. *)
Confirm ==
  /\ phase = "returning"
  /\ live' = 0
  /\ UNCHANGED <<phase, asked, epoch>>

SeenInside ==
  /\ phase \in {"returning", "released"}
  /\ phase' = "ready"
  /\ live' = 0
  /\ UNCHANGED <<asked, epoch>>

ManualSeek ==
  /\ phase # "off"
  /\ phase' \in {"ready", "released"}
  /\ live' = 0
  /\ UNCHANGED <<asked, epoch>>

Next == Restart \/ Ask \/ Confirm \/ SeenInside \/ ManualSeek

Spec == Init /\ [][Next]_vars
==============================================================================
