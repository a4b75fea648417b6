---------------------------- MODULE PlaneDisplay ----------------------------
(***************************************************************************)
(* What a scene on planes promises, without how it decides: each CRTC has  *)
(* a screen, the planes lit on it and what they show.  A frame the kernel  *)
(* takes replaces the whole screen of the scene's CRTC by what the frame   *)
(* wants, but for planes it spares, and a frame it does not take replaces  *)
(* nothing.  That a commit writes only what it believes has changed is not *)
(* to be seen here.                                                        *)
(***************************************************************************)
EXTENDS FiniteSets, Integers

CONSTANTS Crtcs, Planes

VARIABLES
  screens,  \* by CRTC: a function from the planes lit to their properties
  crtc,     \* the CRTC of the scene
  wanted,   \* the frame under way, or Nothing
  left,     \* planes the scene left lit when it moved to another CRTC
  master    \* whether the scene's process has the device

vars == <<screens, crtc, wanted, left, master>>

Nothing == [wants |-> FALSE]

\* A screen that shows what a frame wants on its planes, and no other plane; a
\* frame that does not sweep may leave what others lit, and none changes the
\* planes it spares.
Shows(screen, frame, before) ==
  /\ DOMAIN frame.planes \subseteq DOMAIN screen
  /\ \A p \in DOMAIN frame.planes : \A t \in DOMAIN frame.planes[p] :
       screen[p][t] = frame.planes[p][t]
  /\ \A p \in DOMAIN screen \ DOMAIN frame.planes :
       /\ ~frame.sweeps \/ p \in frame.spares
       /\ p \in DOMAIN before /\ screen[p] = before[p]

\* Some planes are turned off, the others stay as they are.
Blanked(before, after) ==
  /\ DOMAIN after \subseteq DOMAIN before
  /\ \A p \in DOMAIN after : after[p] = before[p]

Want ==
  /\ wanted = Nothing /\ wanted' # Nothing
  /\ left = {}
  /\ UNCHANGED <<screens, crtc, left, master>>

Show ==
  /\ wanted # Nothing /\ wanted' = Nothing /\ master
  /\ \A c \in Crtcs \ {crtc} :
       \/ screens'[c] = screens[c]
       \/ wanted.blind /\ Blanked(screens[c], screens'[c])
  /\ Shows(screens'[crtc], wanted, screens[crtc])
  /\ UNCHANGED <<crtc, left, master>>

Drop ==
  /\ wanted # Nothing /\ wanted' = Nothing
  /\ UNCHANGED <<screens, crtc, left, master>>

\* The planes left lit are those of the first CRTC left.
Move ==
  /\ wanted = Nothing /\ crtc' \in Crtcs
  /\ \/ left' = left
     \/ left = {} /\ crtc' # crtc /\ left' \subseteq DOMAIN screens[crtc]
  /\ UNCHANGED <<screens, wanted, master>>

\* The planes left lit are turned off.
Blank ==
  /\ wanted = Nothing /\ master
  /\ left # {} /\ left' = {}
  /\ \A c \in Crtcs :
       screens'[c] = [p \in DOMAIN screens[c] \ left |-> screens[c][p]]
  /\ UNCHANGED <<crtc, wanted, master>>

Lose ==
  /\ master /\ ~master'
  /\ UNCHANGED <<screens, crtc, wanted, left>>

\* Whatever another master left.
Regain ==
  /\ ~master /\ master' /\ wanted = Nothing
  /\ UNCHANGED <<crtc, wanted, left>>

Init ==
  /\ crtc \in Crtcs /\ wanted = Nothing /\ left = {} /\ master = TRUE
  /\ \A c \in Crtcs : DOMAIN screens[c] \subseteq Planes

Next == Want \/ Show \/ Drop \/ Move \/ Blank \/ Lose \/ Regain

Spec == Init /\ [][Next]_vars

=============================================================================
