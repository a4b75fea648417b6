---------------------------- MODULE Decorations -----------------------------
(***************************************************************************)
(* Window decorations (drmkit-csd).  A compositor claims overlays of an    *)
(* output for its windows' decorations, and every frame writes each of     *)
(* them, armed or not; or, without planes, blends them itself.             *)
(***************************************************************************)
EXTENDS Integers, Sequences, FiniteSets

CONSTANTS
  DecoPlanes,   \* plane -> [crtcs, overlay, linear, zpos], zpos -1 for none
  DecoCrtcs,    \* the outputs
  Floors,       \* the stacking positions a window may ask to be above
  Worn,         \* what is on a surface
  Desk,         \* [w, h] of the framebuffer
  Spots,        \* where a decoration's corner may be
  Shapes,       \* its sizes [w, h]
  MaxWindows,   \* bound on the windows
  MaxSurfaces,  \* bound on the surfaces made
  MaxPaints     \* bound on the paints of a surface

ASSUME DecoAssumption ==
  /\ IsFiniteSet(DOMAIN DecoPlanes) /\ DOMAIN DecoPlanes \subseteq Nat
  /\ \A p \in DOMAIN DecoPlanes : DecoPlanes[p].zpos \in Int
  /\ Desk \in [w : Nat, h : Nat]
  /\ Spots \subseteq Int \X Int /\ Shapes \subseteq [w : Nat, h : Nat]

VARIABLES
  byCrtc,    \* by_crtc: output -> the planes it holds in zpos order
  claimed,   \* all
  scans,     \* plane -> [surface, crtc] the kernel scans out, or Off
  wearing    \* output -> what its last frame put on the planes it still holds

overlayVars == <<byCrtc, claimed, scans, wearing>>

Off  == [surface |-> "none", crtc |-> 0]
Bare == "bare"

-----------------------------------------------------------------------------
(* OverlayReservation.                                                     *)

\* Overlays of the output that scan the format out linear, that no output
\* holds, and that can be above the window: [zpos, plane] as they are sorted.
Candidates(crtc, taken, above) ==
  {at \in ({0} \cup {DecoPlanes[p].zpos : p \in DOMAIN DecoPlanes}) \X DOMAIN DecoPlanes :
     LET plane == DecoPlanes[at[2]] IN
     /\ crtc \in plane.crtcs /\ plane.overlay /\ plane.linear /\ at[2] \notin taken
     /\ IF plane.zpos = -1 THEN above = 0 /\ at[1] = 0
        ELSE plane.zpos >= above /\ at[1] = plane.zpos}

Below(a, b) == a[1] < b[1] \/ (a[1] = b[1] /\ a[2] < b[2])

InOrder(S) ==
  [i \in 1..Cardinality(S) |->
     (CHOOSE a \in S : Cardinality({b \in S : Below(b, a)}) = i - 1)[2]]

Released(held, taken) == taken \ {held[i] : i \in 1..Len(held)}

ReleasePlanes(crtc) ==
  /\ byCrtc' = [byCrtc EXCEPT ![crtc] = <<>>]
  /\ claimed' = Released(byCrtc[crtc], claimed)
  /\ wearing' = [wearing EXCEPT ![crtc] = <<>>]
  /\ UNCHANGED scans

\* reserve: what the output held goes first, whether or not enough is found.
\* (Asked for none it does nothing at all.)
ReservePlanes(crtc, count, above) ==
  LET taken == Released(byCrtc[crtc], claimed)
      found == InOrder(Candidates(crtc, taken, above))
  IN IF Len(found) < count THEN ReleasePlanes(crtc)
     ELSE /\ byCrtc' = [byCrtc EXCEPT ![crtc] = SubSeq(found, 1, count)]
          /\ claimed' = taken \cup {found[i] : i \in 1..count}
          /\ wearing' = [wearing EXCEPT ![crtc] = <<>>]
          /\ UNCHANGED scans

-----------------------------------------------------------------------------
(* compute_writes, and the commit of them.  One more surface than planes   *)
(* is refused and writes nothing.                                          *)

Arms(surfaces, i) == i <= Len(surfaces) /\ surfaces[i] # Bare

PresentOnPlanes(crtc, surfaces) ==
  LET slots == byCrtc[crtc]
      slotOf(p) == CHOOSE i \in 1..Len(slots) : slots[i] = p
  IN /\ Len(surfaces) <= Len(slots)
     /\ scans' = [p \in DOMAIN DecoPlanes |->
          IF p \notin {slots[i] : i \in 1..Len(slots)} THEN scans[p]
          ELSE IF Arms(surfaces, slotOf(p))
            THEN [surface |-> surfaces[slotOf(p)], crtc |-> crtc] ELSE Off]
     /\ wearing' = [wearing EXCEPT ![crtc] = surfaces]
     /\ UNCHANGED <<byCrtc, claimed>>

OverlayInit ==
  /\ byCrtc = [c \in DecoCrtcs |-> <<>>] /\ claimed = {}
  /\ scans = [p \in DOMAIN DecoPlanes |-> Off]
  /\ wearing = [c \in DecoCrtcs |-> <<>>]

OverlayNext ==
  \E crtc \in DecoCrtcs :
    \/ ReleasePlanes(crtc)
    \/ \E count \in 1..Cardinality(DOMAIN DecoPlanes), above \in Floors :
         ReservePlanes(crtc, count, above)
    \/ \E n \in 0..2 : \E surfaces \in [1..n -> Worn \cup {Bare}] :
         PresentOnPlanes(crtc, surfaces)

-----------------------------------------------------------------------------
(* Decorations without planes: blended over the damage of a frame into a   *)
(* shadow buffer, of which the damaged rows are copied to the framebuffer. *)
(* A pixel is what was blended onto it since it was cleared, by the place  *)
(* in the list of whose it is.                                             *)

VARIABLES
  windows,         \* the decorated windows: [at, shape, surface]
  slotsShown,      \* the slots of the last frame
  mistaken,        \* a surface was taken for the one it replaced, since a whole repaint
  deskShadow, fb,  \* the shadow buffer's and the framebuffer's pixels
  surfacesMade     \* so far

deskVars == <<windows, slotsShown, mistaken, deskShadow, fb, surfacesMade>>

DeskPixels == (0..Desk.w - 1) \X (0..Desk.h - 1)
NoDamage   == [x |-> 0, y |-> 0, w |-> 0, h |-> 0]
WholeDesk  == [x |-> 0, y |-> 0, w |-> Desk.w, h |-> Desk.h]
Empty      == [serial |-> 0, generation |-> 0]

-----------------------------------------------------------------------------
(* damage.rs                                                               *)

IsEmpty(r) == r.w = 0 \/ r.h = 0
LeastOf(S) == CHOOSE a \in S : \A b \in S : a <= b
MostOf(S)  == CHOOSE a \in S : \A b \in S : a >= b

SlotOf(window) ==
  [armed |-> window.surface # Empty, at |-> window.at, shape |-> window.shape,
   generation |-> window.surface.generation, serial |-> window.surface.serial]

\* The serial is for the properties: the program has nothing to tell two
\* surfaces by.
Changed(before, after) ==
  \/ before.armed # after.armed
  \/ after.armed /\ \E field \in {"at", "shape", "generation"} : before[field] # after[field]

\* Only where it is now.
NewFootprint(before, after) == IF after.armed THEN {after} ELSE {}

\* Where it was is to be vacated.
Footprints(before, after) == {s \in {before, after} : s.armed}

\* The bounding box, on the canvas.
BoundsOf(slots) ==
  LET x0 == LeastOf({s.at[1] : s \in slots} \cup {Desk.w})
      y0 == LeastOf({s.at[2] : s \in slots} \cup {Desk.h})
      x1 == MostOf({s.at[1] + s.shape.w : s \in slots} \cup {0})
      y1 == MostOf({s.at[2] + s.shape.h : s \in slots} \cup {0})
      left == MostOf({x0, 0})  right == LeastOf({x1, Desk.w})
      top == MostOf({y0, 0})   foot == LeastOf({y1, Desk.h})
  IN IF right <= left \/ foot <= top THEN NoDamage
     ELSE [x |-> left, y |-> top, w |-> right - left, h |-> foot - top]

\* Slots are compared by their place in the list, so another number of them
\* damages everything.
ComputeDamage(before, after) ==
  IF Len(before) # Len(after) \/ before = <<>> THEN WholeDesk
  ELSE BoundsOf(UNION {Footprints(before[i], after[i]) :
                       i \in {j \in 1..Len(after) : Changed(before[j], after[j])}})

CoversPixel(at, shape, pixel) ==
  /\ at[1] <= pixel[1] /\ pixel[1] < at[1] + shape.w
  /\ at[2] <= pixel[2] /\ pixel[2] < at[2] + shape.h

Within(damage, pixel) == CoversPixel(<<damage.x, damage.y>>, damage, pixel)

-----------------------------------------------------------------------------
(* compose_into_framebuffer                                                *)

\* A pixel of a decoration: whose, as of which paint, and which one.
Look(window, pixel) ==
  [surface |-> window.surface,
   spot |-> <<pixel[1] - window.at[1], pixel[2] - window.at[2]>>]

BlendedAt(pixel) ==
  LET covering == {i \in 1..Len(windows) :
                     /\ windows[i].surface # Empty
                     /\ CoversPixel(windows[i].at, windows[i].shape, pixel)}
  IN [i \in covering |-> Look(windows[i], pixel)]

\* Cleared and blended in the damage, and copied by whole rows.
ComposeDesk(damage) ==
  /\ deskShadow' = [p \in DeskPixels |->
                      IF Within(damage, p) THEN BlendedAt(p) ELSE deskShadow[p]]
  /\ fb' = [p \in DeskPixels |->
              IF ~IsEmpty(damage) /\ damage.y <= p[2] /\ p[2] < damage.y + damage.h
                THEN deskShadow'[p] ELSE fb[p]]

SlotsNow == [i \in 1..Len(windows) |-> SlotOf(windows[i])]

PresentOnDesk ==
  LET damage == ComputeDamage(slotsShown, SlotsNow)
  IN /\ ComposeDesk(damage)
     /\ slotsShown' = SlotsNow
     /\ mistaken' = (/\ damage # WholeDesk
                     /\ mistaken \/ \E i \in 1..Len(windows) :
                          /\ ~Changed(slotsShown[i], SlotsNow[i])
                          /\ slotsShown[i].serial # SlotsNow[i].serial)
     /\ UNCHANGED <<windows, surfacesMade>>

-----------------------------------------------------------------------------
(* The windows, and Surface.                                               *)

NewSurface == [serial |-> surfacesMade + 1, generation |-> 0]

Opens(at, shape) ==
  /\ Len(windows) < MaxWindows /\ surfacesMade < MaxSurfaces
  /\ windows' = Append(windows, [at |-> at, shape |-> shape, surface |-> NewSurface])
  /\ surfacesMade' = surfacesMade + 1
  /\ UNCHANGED <<slotsShown, mistaken, deskShadow, fb>>

\* The windows after it move up in the list.
ClosesWindow(i) ==
  /\ windows' = SubSeq(windows, 1, i - 1) \o SubSeq(windows, i + 1, Len(windows))
  /\ UNCHANGED <<slotsShown, mistaken, deskShadow, fb, surfacesMade>>

Moves(i, at) ==
  /\ windows' = [windows EXCEPT ![i].at = at]
  /\ UNCHANGED <<slotsShown, mistaken, deskShadow, fb, surfacesMade>>

\* A decoration of another size has a surface of its own, unpainted.
Resizes(i, shape) ==
  /\ shape # windows[i].shape /\ surfacesMade < MaxSurfaces
  /\ windows' = [windows EXCEPT ![i].shape = shape, ![i].surface = NewSurface]
  /\ surfacesMade' = surfacesMade + 1
  /\ UNCHANGED <<slotsShown, mistaken, deskShadow, fb>>

\* paint
Repaints(i) ==
  /\ windows[i].surface # Empty /\ windows[i].surface.generation < MaxPaints
  /\ windows' = [windows EXCEPT ![i].surface.generation = @ + 1]
  /\ UNCHANGED <<slotsShown, mistaken, deskShadow, fb, surfacesMade>>

\* forget
Forgets(i) ==
  /\ windows' = [windows EXCEPT ![i].surface = Empty]
  /\ UNCHANGED <<slotsShown, mistaken, deskShadow, fb, surfacesMade>>

\* A new one for a window that has none.
Recreates(i) ==
  /\ windows[i].surface = Empty /\ surfacesMade < MaxSurfaces
  /\ windows' = [windows EXCEPT ![i].surface = NewSurface]
  /\ surfacesMade' = surfacesMade + 1
  /\ UNCHANGED <<slotsShown, mistaken, deskShadow, fb>>

DeskInit ==
  /\ windows = <<>> /\ slotsShown = <<>> /\ mistaken = FALSE /\ surfacesMade = 0
  /\ deskShadow = [p \in DeskPixels |-> <<>>] /\ fb = [p \in DeskPixels |-> <<>>]

DeskNext ==
  \/ PresentOnDesk
  \/ \E at \in Spots, shape \in Shapes : Opens(at, shape)
  \/ \E i \in 1..Len(windows) :
       \/ ClosesWindow(i)
       \/ \E at \in Spots : Moves(i, at)
       \/ \E shape \in Shapes : Resizes(i, shape)
       \/ Repaints(i)
       \/ Forgets(i)
       \/ Recreates(i)

-----------------------------------------------------------------------------
(* Properties.                                                             *)

\* Repainting the damage is as good as repainting everything: after a frame
\* the framebuffer has every decoration, and no copy of one that moved, was
\* closed or drawn anew.  A surface in the place of another is taken for it
\* when place, size and generation happen to agree.
DeskWhole == slotsShown = SlotsNow /\ ~mistaken => \A p \in DeskPixels : fb[p] = BlendedAt(p)

\* What an output's last frame put on its planes is on them until it is its
\* turn again, whatever the other outputs reserve, give back or show; and a
\* plane no output holds can be had.
PlanesStand ==
  /\ \A crtc \in DecoCrtcs : \A i \in 1..Len(wearing[crtc]) :
       scans[byCrtc[crtc][i]] =
         IF wearing[crtc][i] = Bare THEN Off
         ELSE [surface |-> wearing[crtc][i], crtc |-> crtc]
  /\ claimed = UNION {{byCrtc[crtc][i] : i \in 1..Len(byCrtc[crtc])} : crtc \in DecoCrtcs}

=============================================================================
