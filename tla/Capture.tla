------------------------------ MODULE Capture -------------------------------
(***************************************************************************)
(* Reading back what a CRTC scans out (drmkit-capture): the planes are     *)
(* asked for one at a time while whoever drives the display goes on        *)
(* committing, what can be read is mapped, and the mappings are composed   *)
(* bottom-up.                                                              *)
(***************************************************************************)
EXTENDS Integers, SequencesExt

CONSTANTS
  CapPlanes,     \* the planes in the order the kernel lists them
  CapFbs,        \* framebuffer -> [objects, linear, format, size, maps]
  CapPlacings,   \* where a plane may be put: [x, y, w, h]
  CapZpos,       \* and its stacking positions
  MaxRecommits   \* bound on the commits of whoever drives the display

ASSUME CaptureAssumption ==
  /\ CapPlanes \in Seq(Nat)
  /\ \A i, j \in DOMAIN CapPlanes : CapPlanes[i] = CapPlanes[j] => i = j
  /\ CapPlacings # {} /\ CapZpos \subseteq Int

VARIABLES
  onPlane,    \* plane -> [fb, crtc, placing, zpos]; fb PlaneOff when off
  removed,    \* the framebuffers that are gone
  opened,     \* GEM handles GETFB2 opened, not yet closed, by the object
  reader,     \* the capture in progress
  undisturbed,\* nothing was committed since it began and every plane's query answered
  recommits

captureVars == <<onPlane, removed, opened, reader, undisturbed, recommits>>

PlaneOff == "none"
Ours == "ours"
ReadFormats == {"ARGB8888", "XRGB8888", "RGB565"}

Idle == [at |-> "idle", left |-> <<>>, fb |-> PlaneOff, atomic |-> TRUE, frames |-> <<>>,
         result |-> "none"]

-----------------------------------------------------------------------------
(* Pixels: premultiplied channels of 0..255.                               *)

\* x / 255 to nearest.
Div255(x) == LET t == x + 128 IN (t + t \div 256) \div 256

SrcOver(dst, src) ==
  IF src.a = 255 THEN src ELSE IF src.a = 0 THEN dst
  ELSE [a |-> src.a + Div255(dst.a * (255 - src.a)), c |-> src.c + Div255(dst.c * (255 - src.a))]

\* SourceFormat::read: no colour exceeds its coverage, and a field of five
\* bits is widened so that full stays full.
ReadPixel(format, px) ==
  CASE format = "ARGB8888" -> [px EXCEPT !.c = IF px.c < px.a THEN px.c ELSE px.a]
    [] format = "XRGB8888" -> [px EXCEPT !.a = 255]
    [] format = "RGB565" -> [a |-> 255, c |-> px.c * 8 + px.c \div 4]

\* On the way out: one channel, straight.
Unpremultiply(px) ==
  IF px.a = 0 THEN 0
  ELSE LET straight == (px.c * 255 + px.a \div 2) \div px.a
       IN IF straight < 255 THEN straight ELSE 255

\* C's fmod, of fractions over one denominator.
FMod(n, period) == IF n >= 0 THEN n % period ELSE -((-n) % period)

\* Axis::new and Axis::taps: len source pixels spread over span output ones
\* from origin, in fixed point of ONE.
ONE == 256
AxisOf(len, span, origin) ==
  LET start == FMod(-(2 * origin * len) + len - span, 4 * len * span)
  IN [start |-> (start * ONE) \div (2 * span), step |-> (len * ONE) \div span, len |-> len]

TapsAt(axis, at) ==
  LET position == axis.start + at * axis.step
      turn == (position \div ONE) % (2 * axis.len)
      whole == IF turn >= axis.len THEN turn - 2 * axis.len ELSE turn
      next == IF whole + 1 < axis.len - 1 THEN whole + 1 ELSE axis.len - 1
      reflect(i) == IF i < 0 THEN -i - 1 ELSE i
  IN [near |-> reflect(whole), far |-> reflect(next), weight |-> position % ONE]

\* Mixed channel by channel, truncating.
Lerp(near, far, weight) ==
  LET mix(n, f) == (n * (256 - weight) + f * weight) \div 256
  IN [a |-> mix(near.a, far.a), c |-> mix(near.c, far.c)]

\* A size of nothing is the framebuffer's.
BlitSpan(f) == IF f.span = 0 THEN Len(f.pixels) ELSE f.span

\* blit of one row: f is [pixels, format, at, span].  Unscaled, each pixel lands
\* on one; what lands outside is dropped.
BlitSample(f, x) ==
  LET span == BlitSpan(f)
      read(i) == ReadPixel(f.format, f.pixels[i + 1])
      taps == TapsAt(AxisOf(Len(f.pixels), span, f.at), x)
  IN IF span = Len(f.pixels) THEN read(x - f.at)
     ELSE Lerp(read(taps.near), read(taps.far), taps.weight)

BlitRow(row, f) ==
  [x \in DOMAIN row |-> IF x - f.at \in 0..BlitSpan(f) - 1 THEN SrcOver(row[x], BlitSample(f, x))
                        ELSE row[x]]

-----------------------------------------------------------------------------
(* Whoever drives the display.                                             *)

CommitPlane(p, fb, crtc, placing, zpos) ==
  /\ recommits < MaxRecommits /\ fb \notin removed
  /\ onPlane' = [onPlane EXCEPT ![p] =
                   [fb |-> fb, crtc |-> crtc, placing |-> placing, zpos |-> zpos]]
  /\ undisturbed' = FALSE
  /\ recommits' = recommits + 1
  /\ UNCHANGED <<removed, opened, reader>>

RemoveFb(fb) ==
  /\ \A p \in ToSet(CapPlanes) : onPlane[p].fb # fb
  /\ removed' = removed \cup {fb}
  /\ UNCHANGED <<onPlane, opened, reader, undisturbed, recommits>>

-----------------------------------------------------------------------------
(* snapshot                                                                *)

\* The CRTC's mode and the planes' ids; lit says whether it drives one, atomic
\* whether the file shows placements.
BeginCapture(lit, atomic) ==
  /\ reader.at \in {"idle", "done"}
  /\ reader' = IF lit THEN [Idle EXCEPT !.at = "plane", !.left = CapPlanes, !.atomic = atomic]
               ELSE [Idle EXCEPT !.at = "done", !.result = "NoMode"]
  /\ undisturbed' = TRUE
  /\ UNCHANGED <<onPlane, removed, opened, recommits>>

\* get_plane: a plane that is off, or another CRTC's, is passed over, and so is
\* one whose query fails.
AsksPlane(p, answers) ==
  /\ reader.at = "plane" /\ reader.left # <<>> /\ p = Head(reader.left)
  /\ reader' = IF answers /\ onPlane[p].fb # PlaneOff /\ onPlane[p].crtc = Ours
                 THEN [reader EXCEPT !.at = "fb", !.fb = onPlane[p].fb]
               ELSE [reader EXCEPT !.left = Tail(@)]
  /\ undisturbed' = (undisturbed /\ answers)
  /\ UNCHANGED <<onPlane, removed, opened, recommits>>

\* GETFB2 opens a handle for each object, though two planes of one image may
\* share it.
Dedup(objects) == ToSet(objects)

SkipsPlane == [reader EXCEPT !.at = "plane", !.left = Tail(@), !.fb = PlaneOff]

\* Handles are opened on whatever framebuffer is still there: what it says of
\* itself is in the same answer.
AsksFb ==
  /\ reader.at = "fb"
  /\ IF reader.fb \notin removed
       THEN /\ reader' = [reader EXCEPT !.at = "map"]
            /\ opened' = opened \cup Dedup(CapFbs[reader.fb].objects)
       ELSE reader' = SkipsPlane /\ UNCHANGED opened
  /\ UNCHANGED <<onPlane, removed, undisturbed, recommits>>

\* The framebuffer's own word on whether it can be read.
Readable(fb) == fb.linear /\ fb.format \in ReadFormats /\ fb.objects # <<>>

\* Its word, the plane's properties and the mapping, each of which can fail.
CanMap == Readable(CapFbs[reader.fb]) /\ reader.atomic /\ CapFbs[reader.fb].maps

\* They leak when a framebuffer turns out to be of a kind that is not read.
ClosesWhenReadable ==
  opened' = IF Readable(CapFbs[reader.fb])
              THEN opened \ Dedup(CapFbs[reader.fb].objects) ELSE opened

\* FramebufferHandles, dropped on every way out.
ClosesHandles == opened' = opened \ Dedup(CapFbs[reader.fb].objects)

\* The placement as it is by now, and the mapping, which keeps the memory
\* whatever becomes of the framebuffer and the handles.
MapsPlane ==
  LET p == Head(reader.left)
  IN /\ reader.at = "map"
     /\ reader' = IF CanMap
                    THEN [SkipsPlane EXCEPT !.frames = Append(@,
                            [plane |-> p, fb |-> reader.fb, placing |-> onPlane[p].placing,
                             zpos |-> onPlane[p].zpos])]
                  ELSE SkipsPlane
     /\ ClosesHandles
     /\ UNCHANGED <<onPlane, removed, undisturbed, recommits>>

\* sort_by_key is stable.
InZpos(frames) ==
  LET places == 1..Len(frames)
      under(i) == {j \in places : frames[j].zpos < frames[i].zpos
                                  \/ (frames[j].zpos = frames[i].zpos /\ j < i)}
  IN [k \in places |-> frames[CHOOSE i \in places : Cardinality(under(i)) = k - 1]]

ComposesPicture ==
  /\ reader.at = "plane" /\ reader.left = <<>>
  /\ reader' = IF reader.frames = <<>>
                 THEN [reader EXCEPT !.at = "done", !.result = "NothingReadable"]
               ELSE [reader EXCEPT !.at = "done", !.result = "image", !.frames = InZpos(@)]
  /\ UNCHANGED <<onPlane, removed, opened, undisturbed, recommits>>

CaptureInit ==
  /\ onPlane = [p \in ToSet(CapPlanes) |->
                  [fb |-> PlaneOff, crtc |-> "none", placing |-> CHOOSE c \in CapPlacings : TRUE,
                   zpos |-> 0]]
  /\ removed = {} /\ opened = {} /\ reader = Idle /\ undisturbed = TRUE /\ recommits = 0

CaptureNext ==
  \/ \E p \in ToSet(CapPlanes), fb \in DOMAIN CapFbs, crtc \in {Ours, "other"},
        placing \in CapPlacings, zpos \in CapZpos : CommitPlane(p, fb, crtc, placing, zpos)
  \/ \E fb \in DOMAIN CapFbs : fb \notin removed /\ RemoveFb(fb)
  \/ \E lit, atomic \in BOOLEAN : BeginCapture(lit, atomic)
  \/ \E p \in ToSet(CapPlanes), answers \in BOOLEAN : AsksPlane(p, answers)
  \/ AsksFb
  \/ MapsPlane
  \/ ComposesPicture

-----------------------------------------------------------------------------
(* Properties.                                                             *)

\* What the CRTC shows that a capture can read.
Visibles ==
  {p \in ToSet(CapPlanes) : /\ onPlane[p].fb # PlaneOff /\ onPlane[p].crtc = Ours
                            /\ Readable(CapFbs[onPlane[p].fb]) /\ CapFbs[onPlane[p].fb].maps}

Listed(p) == CHOOSE i \in 1..Len(CapPlanes) : CapPlanes[i] = p

\* A picture taken while nobody committed and no query failed is of what the CRTC
\* shows, every plane that can be read, where it is, bottom-up; "nothing
\* readable" is said only when that is so.  Whatever a framebuffer turned out to
\* be once its handles were open, they are closed before the next is asked for.
CaptureTrue ==
  /\ reader.result = "image" /\ undisturbed =>
       LET f == reader.frames IN
       /\ \A i \in 1..Len(f) : onPlane[f[i].plane] =
            [fb |-> f[i].fb, crtc |-> Ours, placing |-> f[i].placing, zpos |-> f[i].zpos]
       /\ {f[i].plane : i \in 1..Len(f)} = Visibles
       /\ \A i, j \in 1..Len(f) : i < j =>
            \/ f[i].zpos < f[j].zpos
            \/ f[i].zpos = f[j].zpos /\ Listed(f[i].plane) < Listed(f[j].plane)
  /\ reader.result = "NothingReadable" /\ undisturbed => ~reader.atomic \/ Visibles = {}
  /\ reader.at # "map" => opened = {}

=============================================================================
