------------------------------- MODULE Canvas -------------------------------
(***************************************************************************)
(* The surface that layers without a plane are composed on                 *)
(* (drmkit-scene/src/canvas.rs and its use by LayerScene): two buffers     *)
(* painted in turn through a shadow of ARGB8888, in a format the plane     *)
(* scans out.  The two axes of the code are alike and one is modelled;     *)
(* red and blue stand for the colors.                                      *)
(***************************************************************************)
EXTENDS Integers, FiniteSets, SequencesExt

CONSTANTS
  CanvasWidth,   \* pixels of the canvas
  Pictures,      \* what may have to be composed: sequences of layers, by slot
  PlaneFormats   \* sets of formats a plane may scan out linear

Byte == 0..255
CanvasPixel == [a : Byte, r : Byte, b : Byte]
CanvasLayer ==
  [zpos : Nat, at : Int, size : Nat, from : Int, take : Nat, alpha : Nat,
   fourcc : STRING, mapped : BOOLEAN, pixels : Seq(CanvasPixel)]

Premultiplied(p) == p.r <= p.a /\ p.b <= p.a

\* Pixels with an alpha are premultiplied, as the module asks.  Layers that
\* hang off the canvas are left out: what is drawn of one is fitted into what
\* is left of its rectangle.
ASSUME CanvasAssumption ==
  /\ CanvasWidth \in Nat
  /\ Pictures \subseteq Seq(CanvasLayer)
  /\ \A picture \in Pictures : \A i \in DOMAIN picture :
       LET l == picture[i] IN
       /\ l.alpha <= 65535
       /\ l.fourcc = "ARGB8888" => \A j \in DOMAIN l.pixels : Premultiplied(l.pixels[j])
       /\ \/ l.at >= 0 /\ l.at + l.size <= CanvasWidth
          \/ l.at >= CanvasWidth \/ l.at + l.size <= 0

VARIABLES
  canvas,        \* CompositeCanvas: [fourcc, buffers, back], or NoCanvas
  shadow,        \* its shadow
  building,      \* the picture of the frame that is built and not finished
  canvasScreen,  \* the buffer the display reads, 0 for none
  shown,         \* the picture of the frame that put it there
  unshown,       \* builds of a canvas since that frame, counted to 2
  scenePaused    \* the scene is paused

canvasVars == <<canvas, shadow, building, canvasScreen, shown, unshown, scenePaused>>

NoCanvas == [fourcc |-> "none", buffers |-> <<>>, back |-> 1]
NoPicture == <<>>
Clear == [a |-> 0, r |-> 0, b |-> 0]
BlankCanvas == [x \in 0..(CanvasWidth - 1) |-> Clear]

-----------------------------------------------------------------------------
(* One pixel.                                                              *)

\* c * n / 255 to the nearest.
Scale(c, n) == (c * n + 127) \div 255
Saturated(c) == IF c > 255 THEN 255 ELSE c

BlendPixelOver(src, dst) ==
  LET over(s, d) == Saturated(s + Scale(d, 255 - src.a))
  IN  IF src.a = 0 THEN dst
      ELSE IF src.a = 255 THEN src
      ELSE [a |-> over(src.a, dst.a), r |-> over(src.r, dst.r), b |-> over(src.b, dst.b)]

ModulatePixel(p, alpha8) ==
  [a |-> Scale(p.a, alpha8), r |-> Scale(p.r, alpha8), b |-> Scale(p.b, alpha8)]

PlaneAlpha8(alpha) == (alpha * 255 + 32767) \div 65535

\* What the blend reads of a layer's pixel.
PixelOf(layer, i) ==
  LET stored == layer.pixels[i + 1]
      solid == IF layer.fourcc = "XRGB8888" THEN [stored EXCEPT !.a = 255] ELSE stored
      alpha8 == PlaneAlpha8(layer.alpha)
  IN  IF alpha8 < 255 THEN ModulatePixel(solid, alpha8) ELSE solid

-----------------------------------------------------------------------------
(* One axis of a blit.                                                     *)

NoSpan == [start |-> 0, span |-> 0]

\* Each side is clipped against its own extent.
Clip(pos, size, extent) ==
  LET off == IF pos < 0 THEN -pos ELSE 0
      start == pos + off
      left == size - off
  IN  IF start >= extent \/ left <= 0 THEN NoSpan
      ELSE [start |-> start, span |-> IF left < extent - start THEN left ELSE extent - start]

MapSrcIndex(dst, visible, srcSpan) == IF visible <= 1 THEN 0 ELSE (dst * srcSpan) \div visible

\* A source rectangle without a size takes the whole buffer.
Taken(layer) == IF layer.take = 0 THEN Len(layer.pixels) ELSE layer.take

BlendInto(image, layer) ==
  LET src == Clip(layer.from, Taken(layer), Len(layer.pixels))
      dst == Clip(layer.at, layer.size, CanvasWidth)
  IN  IF src = NoSpan \/ dst = NoSpan THEN image
      ELSE [x \in DOMAIN image |->
             IF x \notin dst.start..(dst.start + dst.span - 1) THEN image[x]
             ELSE BlendPixelOver(
                    PixelOf(layer, src.start + MapSrcIndex(x - dst.start, dst.span, src.span)),
                    image[x])]

-----------------------------------------------------------------------------
(* The canvas.                                                             *)

CanvasFormats == <<"ARGB8888", "XRGB8888", "XBGR8888", "ABGR8888", "RGB565", "BGR565">>

CanWrite(fourcc) == fourcc \in ToSet(CanvasFormats)

\* canvas_format_for_plane: "none" for None.
CanvasFormatForPlane(scansOut) ==
  LET offered == SelectSeq(CanvasFormats, LAMBDA f : f \in scansOut)
  IN  IF offered = <<>> THEN "none" ELSE Head(offered)

\* convert_row, by what it leaves in memory: bytes in their order, or the
\* high and the low field of a 16-bit pixel.
Converted(p, fourcc) ==
  CASE fourcc \in {"ARGB8888", "XRGB8888"} -> <<p.b, p.r, p.a>>
    [] fourcc \in {"XBGR8888", "ABGR8888"} -> <<p.r, p.b, p.a>>
    [] fourcc = "RGB565" -> <<p.r \div 8, p.b \div 8>>
    [] fourcc = "BGR565" -> <<p.b \div 8, p.r \div 8>>

Flushed(c, image) ==
  [c EXCEPT !.buffers[c.back] = [x \in DOMAIN image |-> Converted(image[x], c.fourcc)]]

CreateIn(fourcc) ==
  LET zeroed == [x \in DOMAIN BlankCanvas |-> Converted(Clear, fourcc)]
  IN  [fourcc |-> fourcc, buffers |-> <<zeroed, zeroed>>, back |-> 1]

Armable(c) == c.buffers # <<>>
WithoutBuffers(c) == [c EXCEPT !.buffers = <<>>]
\* A begin_frame that paints the buffer on the screen.
PaintsTheFront(c) == c

BeginFrame(c) == [c EXCEPT !.back = 3 - @]
Cleared(image) == [x \in DOMAIN image |-> Clear]

-----------------------------------------------------------------------------
(* What the scene does with it.                                            *)

\* blend_targets skips what it cannot read or blend.
Blends(layer) == layer.fourcc \in {"ARGB8888", "XRGB8888"} /\ layer.mapped

BlendsAny(picture) == \E i \in DOMAIN picture : Blends(picture[i])

\* Bottom up by zpos, then by slot.
Beneath(picture, j) ==
  {i \in 1..Len(picture) : \/ picture[i].zpos < picture[j].zpos
                           \/ picture[i].zpos = picture[j].zpos /\ i < j}
TargetSlot(picture, n) ==
  CHOOSE j \in 1..Len(picture) : Cardinality(Beneath(picture, j)) = n - 1
Targets(picture) == [n \in 1..Len(picture) |-> picture[TargetSlot(picture, n)]]

\* blend_targets
Blended(image, picture) ==
  LET targets == Targets(picture)
      drawn[n \in 0..Len(picture)] ==
        IF n = 0 THEN image
        ELSE IF Blends(targets[n]) THEN BlendInto(drawn[n - 1], targets[n])
        ELSE drawn[n - 1]
  IN  drawn[Len(picture)]

\* enable_composition_on, of a scene that has no canvas.
EnableComposition(scansOut) ==
  /\ canvas = NoCanvas /\ ~scenePaused
  /\ CanWrite(CanvasFormatForPlane(scansOut))
  /\ canvas' = CreateIn(CanvasFormatForPlane(scansOut))
  /\ shadow' = BlankCanvas
  /\ UNCHANGED <<building, canvasScreen, shown, unshown, scenePaused>>

\* compose_unassigned, in a frame that is tested or committed: the caller has
\* one commit outstanding at a time and builds when its flip has landed.
Compose(picture) ==
  /\ canvas # NoCanvas /\ Armable(canvas) /\ building = NoPicture /\ ~scenePaused
  /\ LET turned == BeginFrame(canvas)
         painted == Blended(Cleared(shadow), picture)
     IN  /\ shadow' = painted
         /\ canvas' = IF BlendsAny(picture) THEN Flushed(turned, painted) ELSE turned
  /\ building' = picture
  /\ unshown' = IF unshown = 2 THEN 2 ELSE unshown + 1
  /\ UNCHANGED <<canvasScreen, shown, scenePaused>>

\* A commit the kernel takes, and its flip.  Without a blended layer the
\* canvas has no plane in the frame.
Lands ==
  /\ building # NoPicture /\ ~scenePaused
  /\ canvasScreen' = IF BlendsAny(building) THEN canvas.back ELSE 0
  /\ shown' = IF BlendsAny(building) THEN building ELSE NoPicture
  /\ unshown' = 0
  /\ building' = NoPicture
  /\ UNCHANGED <<canvas, shadow, scenePaused>>

\* A test, a commit the kernel refuses, a build that is dropped.
GoesUnshown ==
  /\ building # NoPicture
  /\ building' = NoPicture
  /\ UNCHANGED <<canvas, shadow, canvasScreen, shown, unshown, scenePaused>>

\* A frame whose layers all have planes lands without the canvas.
Uncomposed ==
  /\ building = NoPicture /\ ~scenePaused /\ canvasScreen # 0
  /\ canvasScreen' = 0 /\ shown' = NoPicture /\ unshown' = 0
  /\ UNCHANGED <<canvas, shadow, building, scenePaused>>

\* on_session_paused; the next session turns the planes off or over.
PauseCanvas ==
  /\ ~scenePaused
  /\ scenePaused' = TRUE
  /\ canvas' = IF canvas = NoCanvas THEN NoCanvas ELSE WithoutBuffers(canvas)
  /\ canvasScreen' = 0 /\ shown' = NoPicture /\ unshown' = 0
  /\ UNCHANGED <<shadow, building>>

\* on_session_resumed: made again, or composition is off.
ResumeCanvas ==
  /\ scenePaused /\ building = NoPicture
  /\ scenePaused' = FALSE
  /\ \/ canvas # NoCanvas /\ canvas' = CreateIn(canvas.fourcc) /\ shadow' = BlankCanvas
     \/ canvas' = NoCanvas /\ UNCHANGED shadow
  /\ UNCHANGED <<building, canvasScreen, shown, unshown>>

CanvasInit ==
  /\ canvas = NoCanvas /\ shadow = BlankCanvas /\ building = NoPicture
  /\ canvasScreen = 0 /\ shown = NoPicture /\ unshown = 0 /\ scenePaused = FALSE

CanvasNext ==
  \/ \E scansOut \in PlaneFormats : EnableComposition(scansOut)
  \/ \E picture \in Pictures : Compose(picture)
  \/ Lands
  \/ GoesUnshown
  \/ Uncomposed
  \/ PauseCanvas
  \/ ResumeCanvas

-----------------------------------------------------------------------------
(* What the display shows of a stored pixel, by the format's definition.   *)

Scanned(stored, fourcc) ==
  CASE fourcc = "ARGB8888" -> [r |-> stored[2], b |-> stored[1], a |-> stored[3]]
    [] fourcc = "XRGB8888" -> [r |-> stored[2], b |-> stored[1], a |-> 255]
    [] fourcc = "XBGR8888" -> [r |-> stored[1], b |-> stored[2], a |-> 255]
    [] fourcc = "ABGR8888" -> [r |-> stored[1], b |-> stored[2], a |-> stored[3]]
    [] fourcc = "RGB565" -> [r |-> stored[1] * 8, b |-> stored[2] * 8, a |-> 255]
    [] fourcc = "BGR565" -> [r |-> stored[2] * 8, b |-> stored[1] * 8, a |-> 255]

(* The reference: at each pixel the layers that cover it, top over bottom, *)
(* each sampled as a plane of its rectangles would be.                     *)

Covers(layer, x) == x \in layer.at..(layer.at + layer.size - 1)

\* The part of the source rectangle that lies in the buffer.
Low(layer) == IF layer.from < 0 THEN 0 ELSE layer.from
High(layer) ==
  IF layer.from + Taken(layer) > Len(layer.pixels) THEN Len(layer.pixels)
  ELSE layer.from + Taken(layer)

\* The fraction of a layer's alpha, as the nearest of 256.
Nearest8(alpha) == CHOOSE n \in 0..255 : alpha - n * 257 <= 128 /\ n * 257 - alpha <= 128

Sample(layer, x) ==
  LET p == layer.pixels[Low(layer) + ((x - layer.at) * (High(layer) - Low(layer)))
                                       \div layer.size + 1]
      n == Nearest8(layer.alpha)
      a == IF layer.fourcc = "XRGB8888" THEN 255 ELSE p.a
  IN  [a |-> Scale(a, n), r |-> Scale(p.r, n), b |-> Scale(p.b, n)]

Over(s, under) ==
  [a |-> s.a + Scale(under.a, 255 - s.a),
   r |-> s.r + Scale(under.r, 255 - s.a),
   b |-> s.b + Scale(under.b, 255 - s.a)]

IsSeenAt(layer, x) == Blends(layer) /\ Covers(layer, x) /\ Low(layer) < High(layer)

Seen(picture, x) ==
  LET targets == Targets(picture)
      seen[n \in 0..Len(picture)] ==
        IF n = 0 THEN Clear
        ELSE IF IsSeenAt(targets[n], x) THEN Over(Sample(targets[n], x), seen[n - 1])
        ELSE seen[n - 1]
  IN  seen[Len(picture)]

\* What a format can tell of a pixel.
Told(p, fourcc) ==
  CASE fourcc \in {"ARGB8888", "ABGR8888"} -> p
    [] fourcc \in {"XRGB8888", "XBGR8888"} -> [p EXCEPT !.a = 255]
    [] fourcc \in {"RGB565", "BGR565"} ->
         [r |-> (p.r \div 8) * 8, b |-> (p.b \div 8) * 8, a |-> 255]

\* What is on the screen is the picture of the last frame that was composed
\* and shown, whole and nothing besides, whatever the buffers and the shadow
\* held before it, also while the next frame is painted.  It is said until a
\* second canvas is built without one of them shown: begin_frame turns the
\* buffers over at every build, a tested or a refused one included, and the
\* second paints the buffer on the screen.
CanvasShowsItsLayers ==
  canvasScreen # 0 /\ unshown <= 1 =>
    \A x \in DOMAIN BlankCanvas :
      Scanned(canvas.buffers[canvasScreen][x], canvas.fourcc)
        = Told(Seen(shown, x), canvas.fourcc)

=============================================================================
