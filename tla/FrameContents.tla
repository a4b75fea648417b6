--------------------------- MODULE FrameContents ----------------------------
(***************************************************************************)
(* What a frame carries of its layers' contents: where a buffer changed,   *)
(* so that a panel that keeps its own picture repaints only that, and the  *)
(* fence that says when it may be read.  A buffer is a row of pixels and a *)
(* rectangle a stretch of it.                                              *)
(***************************************************************************)
EXTENDS Integers, Sequences, FiniteSets

CONSTANTS
  Producers,     \* the layers
  Screens,       \* plane -> [clips, fences]: which of the two it has
  RowWidth,      \* pixels of a layer's buffer
  DamageReports, \* what a producer may report: sequences of [x, w]
  DamageLimit,   \* MAX_DAMAGE_RECTS
  FixedOne,      \* one in the kernel's fixed point, 1 << 16
  MaxDraws       \* bound: times a producer draws

ASSUME ContentsAssumption ==
  /\ DamageReports \subseteq Seq([x : Int, w : Nat])
  /\ RowWidth \in Nat /\ DamageLimit \in Nat

VARIABLES
  dirty,      \* layer -> the pixels drawn since its source was acquired
  handOver,   \* layer -> the damage the next acquire hands over
  unsignaled, \* layers whose offered buffer is still being drawn
  producedFb, \* layers with a last framebuffer
  contents,   \* the frame built and not finalized, or NoContents
  panelOf,    \* plane -> the layer it shows, or Unlit
  behind,     \* plane -> pixels of its panel older than the layer's buffer
  forgiven,   \* plane -> pixels whose damage nobody will be told of again
  halfDrawn,  \* planes showing an unfinished buffer no wait ran out for
  draws

contentsVars == <<dirty, handOver, unsignaled, producedFb, contents, panelOf, behind,
                  forgiven, halfDrawn, draws>>

Screenful  == 0..RowWidth - 1
Unlit      == "blank"
NoContents == [plan |-> <<>>, stage |-> "none"]

-----------------------------------------------------------------------------
(* Damage.                                                                 *)

Least(a, b) == IF a < b THEN a ELSE b

Stretch(r) == {x \in Screenful : r.x <= x /\ x < r.x + r.w}

Stretches(damage) == UNION {Stretch(damage[i]) : i \in DOMAIN damage}

ClippedRect(r) ==
  LET x1 == IF r.x < 0 THEN 0 ELSE r.x
  IN [x |-> x1, w |-> Least(r.x + r.w, RowWidth) - x1]

WholeBuffer == {}

KeepsTheFirst(damage) ==
  {r \in {ClippedRect(damage[i]) : i \in 1..Least(Len(damage), DamageLimit)} : r.w > 0}

\* Too many rectangles, or none inside the buffer, are the whole of it.
ClipDamage(damage) ==
  IF Len(damage) > DamageLimit THEN WholeBuffer
  ELSE {r \in {ClippedRect(damage[i]) : i \in DOMAIN damage} : r.w > 0}

\* The kernel's rectangles are corners, the second one exclusive.
DamageRects(clips) == {[x1 |-> r.x, x2 |-> r.x + r.w] : r \in clips}

\* What a plane with the framebuffer written repaints.  One that showed nothing
\* repaints the whole: the kernel heeds no clips when the source area changed.
EmitDamage(p, clips) ==
  IF ~Screens[p].clips \/ clips = WholeBuffer \/ panelOf[p] = Unlit THEN Screenful
  ELSE UNION {rect.x1..rect.x2 - 1 : rect \in DamageRects(clips)}

-----------------------------------------------------------------------------
(* Sources.                                                                *)

\* A producer draws a pixel and reports what it drew since the last acquire,
\* all of it or more; set_damage replaces what was to be handed over.
Redraw(l, x, damage, fenced) ==
  /\ draws < MaxDraws
  /\ dirty' = [dirty EXCEPT ![l] = @ \cup {x}]
  /\ damage = <<>> \/ dirty'[l] \subseteq Stretches(damage)
  /\ handOver' = [handOver EXCEPT ![l] = damage]
  /\ unsignaled' = IF fenced THEN unsignaled \cup {l} ELSE unsignaled \ {l}
  /\ draws' = draws + 1
  /\ UNCHANGED <<producedFb, contents, panelOf, behind, forgiven, halfDrawn>>

FinishDrawing(l) ==
  /\ l \in unsignaled
  /\ unsignaled' = unsignaled \ {l}
  /\ UNCHANGED <<dirty, handOver, producedFb, contents, panelOf, behind, forgiven, halfDrawn,
                 draws>>

\* The fence a frame took with its buffer.
FenceSignals(l) ==
  /\ contents # NoContents /\ l \in contents.unready
  /\ contents' = [contents EXCEPT !.unready = @ \ {l}]
  /\ UNCHANGED <<dirty, handOver, unsignaled, producedFb, panelOf, behind, forgiven, halfDrawn,
                 draws>>

\* acquire, of each of these layers: the damage is handed over with the buffer.
Acquire(layers) ==
  /\ dirty' = [l \in Producers |-> IF l \in layers THEN {} ELSE dirty[l]]
  /\ handOver' = [l \in Producers |-> IF l \in layers THEN <<>> ELSE handOver[l]]
  /\ producedFb' = producedFb \cup layers

\* Damage that was handed over and reaches no plane.
Forfeits(news) ==
  /\ behind' = [p \in DOMAIN Screens |->
       IF panelOf[p] = Unlit THEN {} ELSE behind[p] \cup news[panelOf[p]]]
  /\ forgiven' = [p \in DOMAIN Screens |->
       IF panelOf[p] = Unlit THEN {} ELSE forgiven[p] \cup news[panelOf[p]]]

NewsOf(layers) == [l \in Producers |-> IF l \in layers THEN dirty[l] ELSE {}]

-----------------------------------------------------------------------------
(* Frames.                                                                 *)

Placings ==
  UNION {{f \in [on -> Producers] : \A p, q \in on : p # q => f[p] # f[q]} :
         on \in SUBSET DOMAIN Screens}

PlacedOf(plan) == {plan[p] : p \in DOMAIN plan}

\* A source that has nothing new keeps its layer's plane and framebuffer; one
\* that never had anything is not in the frame.  The layers off the planes are
\* on the canvas, which is repainted whole, or nowhere.
BuildContents(plan, starved) ==
  LET acquired == Producers \ starved
      fresh    == acquired \cap PlacedOf(plan)
  IN /\ contents = NoContents
     /\ PlacedOf(plan) \subseteq acquired \cup producedFb
     /\ contents' = [plan |-> plan, stage |-> "built", news |-> NewsOf(acquired),
                     damage |-> [l \in Producers |->
                                   IF l \in fresh THEN ClipDamage(handOver[l]) ELSE WholeBuffer],
                     unready |-> fresh \cap unsignaled, gaveUp |-> {}]
     /\ Acquire(acquired)
     /\ UNCHANGED <<unsignaled, panelOf, behind, forgiven, halfDrawn, draws>>

\* A source that fails, or the allocation after them: the build returns what it
\* acquired, the damage excepted.
BuildFails(taken) ==
  /\ contents = NoContents
  /\ Acquire(taken)
  /\ Forfeits(NewsOf(taken))
  /\ UNCHANGED <<unsignaled, contents, panelOf, halfDrawn, draws>>

\* A test, a refused commit, a failed emission.
ContentsRefused ==
  /\ contents.stage = "built"
  /\ contents' = NoContents
  /\ Forfeits(contents.news)
  /\ UNCHANGED <<dirty, handOver, unsignaled, producedFb, panelOf, halfDrawn, draws>>

FenceAction(p) == IF Screens[p].fences THEN "arm" ELSE "cpu_wait"

\* Planes whose buffer's fence is awaited here, until it signals, a second has
\* passed or a signal interrupts: the frame is committed all the same.
Awaited(f) == {p \in DOMAIN f.plan : FenceAction(p) = "cpu_wait" /\ f.plan[p] \in f.unready}

\* Planes whose buffer's fence is the kernel's to wait for.
ArmedFences(f) ==
  {p \in DOMAIN f.plan : FenceAction(p) = "arm" /\ Screens[p].fences /\ f.plan[p] \in f.unready}

CommitContents ==
  /\ contents.stage = "built"
  /\ contents' = [contents EXCEPT !.stage = "committed", !.gaveUp = Awaited(contents)]
  /\ UNCHANGED <<dirty, handOver, unsignaled, producedFb, panelOf, behind, forgiven, halfDrawn,
                 draws>>

\* What a plane's panel lacks of the layer once the frame is on it.  A plane
\* that showed another layer's buffer of the same size heeds the clips.
Lacking(p, lacked) ==
  LET l == contents.plan[p]
  IN (IF panelOf[p] = l THEN lacked ELSE Screenful) \ EmitDamage(p, contents.damage[l])

ContentsLand ==
  LET plan == contents.plan
  IN /\ contents.stage = "committed"
     /\ ArmedFences(contents) = {}
     /\ contents' = NoContents
     /\ panelOf' = [p \in DOMAIN Screens |-> IF p \in DOMAIN plan THEN plan[p] ELSE Unlit]
     /\ behind' = [p \in DOMAIN Screens |->
          IF p \in DOMAIN plan THEN Lacking(p, behind[p] \cup contents.news[plan[p]]) ELSE {}]
     /\ forgiven' = [p \in DOMAIN Screens |->
          IF p \in DOMAIN plan THEN Lacking(p, forgiven[p]) ELSE {}]
     /\ halfDrawn' = {p \in DOMAIN plan : plan[p] \in contents.unready} \ contents.gaveUp
     /\ UNCHANGED <<dirty, handOver, unsignaled, producedFb, draws>>

ContentsInit ==
  /\ dirty = [l \in Producers |-> {}] /\ handOver = [l \in Producers |-> <<>>]
  /\ unsignaled = {} /\ producedFb = {}
  /\ contents = NoContents
  /\ panelOf = [p \in DOMAIN Screens |-> Unlit]
  /\ behind = [p \in DOMAIN Screens |-> {}] /\ forgiven = [p \in DOMAIN Screens |-> {}]
  /\ halfDrawn = {} /\ draws = 0

ContentsNext ==
  \/ \E l \in Producers, x \in Screenful, damage \in DamageReports, fenced \in BOOLEAN :
       Redraw(l, x, damage, fenced)
  \/ \E l \in Producers : FinishDrawing(l)
  \/ \E l \in Producers : FenceSignals(l)
  \/ \E plan \in Placings, starved \in SUBSET Producers : BuildContents(plan, starved)
  \/ \E taken \in SUBSET Producers : BuildFails(taken)
  \/ ContentsRefused
  \/ CommitContents
  \/ ContentsLand

-----------------------------------------------------------------------------
(* The report.                                                             *)

\* Of the layers, the allocator's assignment, the layers it placed nowhere, how
\* many of those the canvas took, the pinned layers and the starved.  A layer
\* that kept its plane with nothing new on it is skipped, and not assigned.
BuildReport(assigned, composited, unplaced, pinned, acquired, starved) ==
  [total      |-> Cardinality(acquired) + Cardinality(starved),
   assigned   |-> Cardinality(assigned \ starved) + Cardinality(pinned),
   composited |-> composited,
   unassigned |-> Cardinality(unplaced) - composited,
   skipped    |-> Cardinality(starved)]

AccountingBalances(r) == r.total = r.assigned + r.composited + r.unassigned + r.skipped

-----------------------------------------------------------------------------
(* A plane that hangs off the screen.                                      *)

\* Ceiling division, of Naturals.
CeilDiv(a, b) == (a + b - 1) \div b

\* A destination that starts before the screen is cut there, and as much of the
\* source with it: rounded up where the plane magnifies, else down.
ClipLeading(pos, len, src, extent) ==
  LET clip == -pos
      kept == len - clip
      rest == IF extent < len * FixedOne THEN CeilDiv(extent * kept, len)
              ELSE (extent * kept) \div len
  IN IF clip <= 0 \/ clip >= len THEN [pos |-> pos, len |-> len, src |-> src, extent |-> extent]
     ELSE [pos |-> 0, len |-> kept, src |-> src + (extent - rest), extent |-> rest]

-----------------------------------------------------------------------------

\* Under-reporting "leaves the region that actually changed stale, which looks
\* exactly like a producer that failed to draw": where a panel lags behind its
\* layer's buffer, it is by damage that a refused or failed frame took with it,
\* or that was told of a plane another layer had.  And a buffer on screen is
\* finished, unless the wait for it ran out or was interrupted.
ContentsTrue ==
  /\ \A p \in DOMAIN Screens : behind[p] \subseteq forgiven[p]
  /\ halfDrawn = {}

=============================================================================
