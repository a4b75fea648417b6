------------------------------- MODULE Cursor -------------------------------
(***************************************************************************)
(* The cursor renderer (drmkit-cursor): the sprite is drawn into the       *)
(* buffer that is not on screen and published by the next commit, or,      *)
(* through the legacy ioctls, redrawn where it is.                         *)
(***************************************************************************)
EXTENDS Integers, Sequences, FiniteSetsExt

CONSTANTS
  Extent,    \* the width and height of the plane's square buffer
  Cursors,   \* the cursors that may be loaded: sequences of frames
  Pointers,  \* where the pointer may be
  Turns,     \* the rotations a caller asks for
  Masks      \* the sets of rotations a plane may do in hardware

Rotations == {"None", "Quarter", "Half", "ThreeQuarter"}

\* A decoded image; its hotspot may be on its far edge.
Frames ==
  {f \in [w : Nat \ {0}, h : Nat \ {0}, xhot : Nat, yhot : Nat] : f.xhot <= f.w /\ f.yhot <= f.h}

ASSUME CursorAssumption ==
  /\ Extent \in Nat \ {0} /\ Turns \subseteq Rotations /\ Pointers \subseteq Int \X Int
  /\ \A c \in Cursors : c \in Seq(Frames) \ {<<>>}

VARIABLES
  pathKind,    \* "atomic" or "legacy"
  uploads,     \* whether a legacy driver copies the sprite when handed it
  mask,        \* rotation_mask
  cursor,      \* the loaded cursor, <<>> for None
  drawing,     \* what was drawn: frame (0 for none), hotspot, shift, the two
               \* buffers' pictures and pingPong
  position, visible, rotation, installed,
  screen,      \* the kernel's cursor: what it shows, from where, aimed at what
  torn,        \* what is on screen was drawn over, or handed over unmoved, since a
               \* commit last landed
  missed,      \* a commit that did not land was published since one did
  unhanded     \* a redraw that does not clear installed, since the last install

fixedVars == <<pathKind, uploads, mask>>
cursorVars == <<fixedVars, cursor, drawing, position, visible, rotation, installed, screen,
                torn, missed, unhanded>>

Blank == [frame |-> "none"]
Dark == [buffer |-> 2, origin |-> <<0, 0>>, turn |-> "None", pointer |-> <<0, 0>>,
         copy |-> Blank]

NewPingPong == [active |-> 0, drawn |-> FALSE, single |-> pathKind = "legacy"]

\* Drawing where scanout reads.
DrawOnScreen(p) == p.active

DrawTarget(p) == IF p.single THEN p.active ELSE 1 - p.active
CommitTarget(p) == IF p.drawn /\ ~p.single THEN 1 - p.active ELSE p.active
MarkDrawn(p) == [p EXCEPT !.drawn = ~p.single]
Published(p) == IF p.drawn THEN [p EXCEPT !.active = 1 - @, !.drawn = FALSE] ELSE p

RotatesInHardware(turn) == turn \in mask
HardwareTurns(turn) == RotatesInHardware(turn) /\ turn # "None"
DrawRotation(turn) == IF RotatesInHardware(turn) THEN "None" ELSE turn
DrawnHotspot(d) == [axis \in 1..2 |-> d.hotspot[axis] - d.shift[axis]]

Nothing == [frame |-> 0, hotspot |-> <<0, 0>>, shift |-> <<0, 0>>,
            buffers |-> [b \in 0..1 |-> Blank], pingPong |-> NewPingPong]

-----------------------------------------------------------------------------
(* Composing a frame into the buffer: where the sprite lands, where its    *)
(* hotspot is said to be, which pixels show it, and where the plane goes.  *)
(* Points and extents are pairs.                                           *)

Pixels == (0 .. Extent - 1) \X (0 .. Extent - 1)

RotatedSize(frame, turn) ==
  IF turn \in {"Quarter", "ThreeQuarter"} THEN <<frame.h, frame.w>>
  ELSE <<frame.w, frame.h>>

\* The frame's pixel that the rotated view shows at (rx, ry).
SampleRotated(frame, turn, rx, ry) ==
  CASE turn = "None" -> <<rx, ry>>
    [] turn = "Quarter" -> <<ry, frame.h - 1 - rx>>
    [] turn = "Half" -> <<frame.w - 1 - rx, frame.h - 1 - ry>>
    [] OTHER -> <<frame.w - 1 - ry, rx>>

\* A frame too large is shrunk by the smaller of the two 16.16 ratios, rounded.
Blit(frame, turn) ==
  LET rotated == RotatedSize(frame, turn)
      ratio == Min({(Extent * 65536) \div rotated[1], (Extent * 65536) \div rotated[2]})
      Scaled(extent) == Max({(extent * ratio + 32768) \div 65536, 1})
  IN IF rotated[1] > Extent \/ rotated[2] > Extent
       THEN <<Min({Scaled(rotated[1]), Extent}), Min({Scaled(rotated[2]), Extent})>>
       ELSE rotated

\* The sprite is centered.
Offset(blit) == <<(Extent - blit[1]) \div 2, (Extent - blit[2]) \div 2>>

\* Toward zero.
Quotient(a, b) == IF a >= 0 THEN a \div b ELSE -((-a) \div b)

\* hotspot_in_buffer
HotspotInBuffer(frame, turn) ==
  LET blit == Blit(frame, turn)
      rotated == RotatedSize(frame, turn)
      hot == CASE turn = "None" -> <<frame.xhot, frame.yhot>>
               [] turn = "Quarter" -> <<frame.h - 1 - frame.yhot, frame.xhot>>
               [] turn = "Half" -> <<frame.w - 1 - frame.xhot, frame.h - 1 - frame.yhot>>
               [] OTHER -> <<frame.yhot, frame.w - 1 - frame.xhot>>
  IN [axis \in 1..2 |->
        Max({Quotient(hot[axis] * blit[axis], rotated[axis]) + Offset(blit)[axis], 0})]

\* A picture is a frame as drawn: turned, centered and shifted up and left.
\* The pixels of the buffer in which some of its hotspot's pixel is seen.
HotPixels(picture) ==
  LET frame == picture.frame
      blit == Blit(frame, picture.rotation)
      rotated == RotatedSize(frame, picture.rotation)
      Covers(axis, at, from) ==
        /\ from * blit[axis] < (at + 1) * rotated[axis]
        /\ at * rotated[axis] < (from + 1) * blit[axis]
      sprite == (0 .. blit[1] - 1) \X (0 .. blit[2] - 1)
      hot == {r \in (0 .. rotated[1] - 1) \X (0 .. rotated[2] - 1) :
                SampleRotated(frame, picture.rotation, r[1], r[2])
                  = <<frame.xhot, frame.yhot>>}
  IN {p \in Pixels :
        \E d \in sprite, r \in hot :
          /\ p = [axis \in 1..2 |-> d[axis] + Offset(blit)[axis] - picture.shift[axis]]
          /\ Covers(1, d[1], r[1]) /\ Covers(2, d[2], r[2])}

\* plane_origin: the plane is offset back by the hotspot.
PlaneOrigin(pointer, hotspot) == [axis \in 1..2 |-> pointer[axis] - hotspot[axis]]

\* edge_shift: what would hang off the top or left edge, at most the hotspot.
EdgeShift(pointer, hotspot) ==
  [axis \in 1..2 |->
     IF PlaneOrigin(pointer, hotspot)[axis] > 0 THEN 0
     ELSE Min({-PlaneOrigin(pointer, hotspot)[axis], hotspot[axis]})]

-----------------------------------------------------------------------------
(* Drawing.  d is what was drawn before.                                   *)

Shift(spot, turn) == IF HardwareTurns(turn) THEN <<0, 0>> ELSE EdgeShift(position, spot)

\* What is on screen is drawn over.
Tears == torn \/ DrawTarget(drawing.pingPong) = screen.buffer

\* draw: frame index of c is composed for the position and the turn.
Draw(d, c, index, turn) ==
  LET spot == HotspotInBuffer(c[index], DrawRotation(turn))
      picture == [frame |-> c[index], rotation |-> DrawRotation(turn),
                  shift |-> Shift(spot, turn)]
  IN [frame |-> index, hotspot |-> spot, shift |-> picture.shift,
      buffers |-> [d.buffers EXCEPT ![DrawTarget(d.pingPong)] = picture],
      pingPong |-> MarkDrawn(d.pingPong)]

SetCursor(c) ==
  /\ cursor' = c /\ installed' = FALSE
  /\ drawing' = Draw(drawing, c, 1, rotation)
  /\ torn' = Tears
  /\ UNCHANGED <<fixedVars, position, visible, rotation, screen, missed, unhanded>>

SetRotation(turn) ==
  /\ pathKind = "legacy" => turn = "None"
  /\ rotation' = turn
  /\ IF drawing.frame # 0
       THEN /\ drawing' = Draw(drawing, cursor, drawing.frame, turn)
            /\ torn' = Tears /\ unhanded' = TRUE
       ELSE UNCHANGED <<drawing, torn, unhanded>>
  /\ UNCHANGED <<fixedVars, cursor, position, visible, installed, screen, missed>>

MoveTo(pointer) ==
  /\ position' = pointer
  /\ UNCHANGED <<fixedVars, cursor, drawing, visible, rotation, installed, screen, torn,
                 missed, unhanded>>

SetVisible(shows) ==
  /\ visible' = shows
  /\ UNCHANGED <<fixedVars, cursor, drawing, position, rotation, installed, screen, torn,
                 missed, unhanded>>

\* tick: an animation's next due frame.
Animate ==
  /\ \E index \in DOMAIN cursor \ {drawing.frame} :
       drawing' = Draw(drawing, cursor, index, rotation)
  /\ torn' = Tears /\ unhanded' = TRUE
  /\ UNCHANGED <<fixedVars, cursor, position, visible, rotation, installed, screen, missed>>

\* prepare: the sprite is redrawn when the edge moves it in its buffer, and a
\* legacy one is to be handed over again.
EdgeMoves == drawing.frame # 0 /\ Shift(drawing.hotspot, rotation) # drawing.shift
Prepared == IF EdgeMoves THEN Draw(drawing, cursor, drawing.frame, rotation) ELSE drawing
StillInstalled == installed /\ ~(EdgeMoves /\ pathKind = "legacy")

\* prepare on its own, or by a commit that is refused.
Prepare ==
  /\ drawing' = Prepared /\ installed' = StillInstalled
  /\ torn' = IF EdgeMoves THEN Tears ELSE torn
  /\ UNCHANGED <<fixedVars, cursor, position, visible, rotation, screen, missed, unhanded>>

-----------------------------------------------------------------------------
(* Committing.                                                             *)

\* stage_into and stage: every property of the plane, in every commit; a
\* hidden cursor is a plane that is disarmed.
StageInto(d) ==
  IF ~visible THEN Dark
  ELSE [buffer |-> CommitTarget(d.pingPong),
        origin |-> PlaneOrigin(position, DrawnHotspot(d)),
        turn |-> IF RotatesInHardware(rotation) THEN rotation ELSE "None",
        pointer |-> position, copy |-> Blank]

LandAtomic(d) ==
  /\ pathKind = "atomic"
  /\ screen' = StageInto(d)
  /\ drawing' = [d EXCEPT !.pingPong = Published(d.pingPong)]
  /\ torn' = FALSE /\ missed' = FALSE
  /\ UNCHANGED <<fixedVars, cursor, position, visible, rotation, unhanded>>

\* commit
CommitAtomic == LandAtomic(Prepared) /\ installed' = TRUE

\* A caller's commit that staged the cursor, published once it landed.
CommitCoalesced == LandAtomic(drawing) /\ UNCHANGED installed

\* One that was refused and is published all the same, by a caller that cannot
\* tell.
PublishMissed ==
  /\ pathKind = "atomic"
  /\ drawing' = [drawing EXCEPT !.pingPong = Published(drawing.pingPong)]
  /\ missed' = (missed \/ drawing.pingPong.drawn)
  /\ UNCHANGED <<fixedVars, cursor, position, visible, rotation, installed, screen, torn,
                 unhanded>>

\* commit_legacy: the sprite is handed over unless it is installed, then
\* moved, and the move may fail.
CommitLegacy ==
  /\ pathKind = "legacy"
  /\ drawing' = Prepared
  /\ \/ /\ ~visible
        /\ screen' = Dark /\ installed' = FALSE /\ torn' = FALSE
        /\ UNCHANGED unhanded
     \/ /\ visible /\ ~StillInstalled
        /\ \E moved \in BOOLEAN :
             /\ screen' = [StageInto(Prepared) EXCEPT
                             !.copy = Prepared.buffers[0],
                             !.origin = IF moved THEN @ ELSE screen.origin,
                             !.pointer = IF moved THEN @ ELSE screen.pointer]
             /\ torn' = ~moved
        /\ installed' = TRUE /\ unhanded' = FALSE
     \/ /\ visible /\ StillInstalled
        /\ screen' = [StageInto(Prepared) EXCEPT !.copy = screen.copy]
        /\ torn' = FALSE
        /\ UNCHANGED <<installed, unhanded>>
  /\ UNCHANGED <<fixedVars, cursor, position, visible, rotation, missed>>

\* A pause forgets the buffers; resume allocates a pair and redraws what was
\* drawn.  What the plane shows by then is another session's.
PauseAndResume ==
  /\ screen' = Dark /\ installed' = FALSE
  /\ drawing' = IF cursor = <<>> THEN Nothing
                ELSE Draw(Nothing, cursor, Max({drawing.frame, 1}), rotation)
  /\ torn' = FALSE /\ missed' = FALSE /\ unhanded' = FALSE
  /\ UNCHANGED <<fixedVars, cursor, position, visible, rotation>>

-----------------------------------------------------------------------------

\* A new renderer: legacy ones turn nothing.
CursorInit ==
  /\ pathKind \in {"atomic", "legacy"} /\ uploads \in BOOLEAN
  /\ mask \in IF pathKind = "legacy" THEN {{}} ELSE Masks
  /\ rotation \in IF pathKind = "legacy" THEN {"None"} ELSE Turns
  /\ pathKind = "atomic" => uploads = FALSE
  /\ cursor = <<>> /\ drawing = Nothing
  /\ position = <<0, 0>> /\ visible = TRUE /\ installed = FALSE
  /\ screen = Dark /\ torn = FALSE /\ missed = FALSE /\ unhanded = FALSE

CursorNext ==
  \/ \E c \in Cursors : SetCursor(c)
  \/ \E turn \in Turns : SetRotation(turn)
  \/ \E pointer \in Pointers : MoveTo(pointer)
  \/ \E shows \in BOOLEAN : SetVisible(shows)
  \/ Animate
  \/ Prepare
  \/ CommitAtomic
  \/ CommitCoalesced
  \/ PublishMissed
  \/ CommitLegacy
  \/ PauseAndResume

-----------------------------------------------------------------------------
(* Properties.                                                             *)

\* "The hotspot is the pixel that has to land under the pointer": the pixel of
\* the screen the last commit aimed at shows the hotspot of the picture that
\* is on screen now, whatever was drawn, moved, turned or hidden since, and
\* through commits that did not land. Drawing may tear only a legacy cursor,
\* which is redrawn where it is, and one whose caller published a commit that
\* did not land, until another lands; where the driver keeps a copy it is wrong
\* once an animation or a turn has redrawn it without handing it over; nor is a
\* sprite the hardware turns right, whose hotspot is placed as if it did not;
\* and a hotspot on the far edge of its frame is no pixel of it.
PointerOnHotspot ==
  LET picture == IF uploads THEN screen.copy ELSE drawing.buffers[screen.buffer]
  IN screen.buffer # 2 /\ picture # Blank /\ screen.turn = "None"
     /\ picture.frame.xhot < picture.frame.w /\ picture.frame.yhot < picture.frame.h
     /\ ~(torn /\ (pathKind = "legacy" \/ missed)) /\ ~(uploads /\ unhanded)
       => PlaneOrigin(screen.pointer, screen.origin) \in HotPixels(picture)

=============================================================================
