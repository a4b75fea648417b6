--------------------------- MODULE PlaneRegistry ---------------------------
(***************************************************************************)
(* What a device says of its planes, and the questions drmkit-planes asks  *)
(* of it: which planes feed a CRTC, which layer fits which plane, in what  *)
(* order two layers on two planes are shown, and the zpos values a frame   *)
(* writes.                                                                 *)
(*                                                                         *)
(* A device is a record: "ids", its plane ids in registry order; "planes", *)
(* the capabilities of each; "stages", the number of planes each CRTC can  *)
(* blend.  A layer is what the scene lowered: its id, its zpos or NoZpos,  *)
(* the cells of the screen it covers, its format, its keep priority,       *)
(* whether the caller sent it to the canvas, and the plane it is pinned    *)
(* to.  A format stands for all a plane can refuse statically: fourcc,     *)
(* modifier, rotation, scaling.                                            *)
(***************************************************************************)
EXTENDS Integers, Sequences, FiniteSets, FiniteSetsExt, TLC

NoZpos  == -1
NoPlane == 0
NoLimit == 99

\* s sorted by Key, elements with one key in the order they had.
StableSort(s, Key(_)) ==
  LET at == SortSeq([i \in DOMAIN s |-> i],
                    LAMBDA i, j : \/ Key(s[i]) < Key(s[j])
                                  \/ Key(s[i]) = Key(s[j]) /\ i < j)
  IN [i \in DOMAIN s |-> s[at[i]]]

-----------------------------------------------------------------------------
(* The registry.                                                           *)

ForCrtc(dev, crtc) == SelectSeq(dev.ids, LAMBDA p : crtc \in dev.planes[p].crtcs)

PlanesOf(dev, crtc) == {p \in DOMAIN dev.planes : crtc \in dev.planes[p].crtcs}

\* Cursor planes belong to the cursor path.
ForceDisableCandidates(dev, crtc) ==
  SelectSeq(ForCrtc(dev, crtc), LAMBDA p : dev.planes[p].type # "cursor")

CandidateSet(dev, crtc) ==
  {p \in PlanesOf(dev, crtc) : dev.planes[p].type # "cursor"}

StacksByPlaneId(dev, crtc) ==
  /\ PlanesOf(dev, crtc) # {}
  /\ \A p \in CandidateSet(dev, crtc) : dev.planes[p].zmin = NoZpos

IsMultirectVirtual(dev, p) == dev.planes[p].parent # NoPlane

\* A virtual plane is armed only beside its parent.
MultirectPairingOk(dev, p, inUse) ==
  dev.planes[p].parent \in inUse \cup {NoPlane}

-----------------------------------------------------------------------------
(* Stacking.                                                               *)

ZposFixed(cap) == cap.zmin # NoZpos /\ cap.zmin = cap.zmax

EffectiveZpos(cap, z) == IF ZposFixed(cap) THEN cap.zmin ELSE z

StackingConsistent(pa, za, pb, zb) ==
  LET ea == EffectiveZpos(pa, za)
      eb == EffectiveZpos(pb, zb)
  IN \/ NoZpos \in {za, zb}
     \/ za = zb
     \/ ea # eb /\ (za < zb <=> ea < eb)

\* The planes of "requested" that have both a range and a request, bottom up;
\* "beneath" goes under the planes that ask for its zpos.
StackRanks(dev, requested, beneath) ==
  StableSort(SelectSeq(dev.ids, LAMBDA p : /\ p \in DOMAIN requested
                                           /\ requested[p] # NoZpos
                                           /\ dev.planes[p].zmin # NoZpos),
             LAMBDA p : 2 * requested[p] + IF p = beneath THEN 0 ELSE 1)

\* Dense values, one plane above the other; a plane that cannot be moved
\* keeps its own.
StackValues(dev, ranks) ==
  LET value[i \in DOMAIN ranks] ==
        LET cap == dev.planes[ranks[i]]
        IN IF i = 1 \/ ZposFixed(cap) THEN cap.zmin
           ELSE Max({value[i - 1] + 1, cap.zmin})
  IN value

StackFits(dev, ranks, value) ==
  \A i \in DOMAIN ranks :
    LET cap == dev.planes[ranks[i]]
    IN /\ value[i] <= cap.zmax
       /\ i > 1 /\ ZposFixed(cap) => value[i - 1] < cap.zmin

\* Values that do not fit are written as asked, and clamped by the plane.
StackZpos(dev, requested, beneath) ==
  LET ranks == StackRanks(dev, requested, beneath)
      value == StackValues(dev, ranks)
      fits  == StackFits(dev, ranks, value)
  IN [fits |-> fits,
      written |-> [p \in DOMAIN requested |->
                     LET at == {i \in DOMAIN ranks : ranks[i] = p}
                     IN IF fits /\ at # {} THEN value[Min(at)]
                                           ELSE requested[p]]]

ClampZpos(cap, z) ==
  IF z < cap.zmin THEN cap.zmin ELSE IF z > cap.zmax THEN cap.zmax ELSE z

-----------------------------------------------------------------------------
(* Layers.                                                                 *)

LayersIntersect(a, b) == a.rect \cap b.rect # {}

\* What a placement's verdict depends on: everything but the buffer.
PropertyHash(ly) == <<ly.zpos, ly.rect, ly.fmt>>

PlaneStaticallyCompatible(cap, ly) ==
  /\ ~ly.forced /\ ly.fmt \in cap.formats
  /\ cap.type = "cursor" => Cardinality(ly.rect) <= cap.cursorMax

LayerPriority(ly) == ly.keep \div 256

\* The bonuses that tell two pairs of a CRTC apart; 100 keeps a pair together
\* from frame to frame.
ScorePair(cap, ly, heldLastFrame) ==
    (IF cap.type = "primary" /\ ly.zpos # NoZpos
          /\ ly.zpos = (IF cap.zmin = NoZpos THEN 0 ELSE cap.zmin)
       THEN 10 ELSE 0)
  + (IF cap.type = "overlay" THEN 2 ELSE 0)
  + (IF cap.type = "overlay" /\ ly.zpos > 0 /\ cap.zmin = NoZpos THEN 8 ELSE 0)
  + LayerPriority(ly) \div 10
  + (IF heldLastFrame THEN 100 ELSE 0)

\* The layers a layer reaches by overlap: those in every set of layers with it
\* that nothing outside of overlaps.
GroupOf(layers, l) ==
  LET closed == {S \in SUBSET layers :
                   \A x \in S, y \in layers \ S : ~LayersIntersect(x, y)}
  IN {x \in layers : \A S \in closed : l \in S => x \in S}

IndependentGroups(layers) == {GroupOf(layers, l) : l \in layers}

-----------------------------------------------------------------------------
(* Placing a stack of layers on planes that stack by their id: the layers  *)
(* 1..n in the order they are shown, the planes 1..m in the order they     *)
(* stack, "fits" the pairs (layer, plane) allowed.  The layers left over   *)
(* are one contiguous run, which the composition canvas carries on a plane *)
(* between the run's neighbours.                                           *)

NoPlace == -1

\* The plane layer i takes when layers 1..i are placed as low as they go.
LowestFit(n, m, fits) ==
  LET pre[i \in 0..n] ==
        IF i = 0 THEN 0
        ELSE LET free == {j \in (pre[i - 1] + 1)..m : <<i, j>> \in fits}
             IN IF pre[i - 1] = NoPlace \/ free = {} THEN NoPlace ELSE Min(free)
  IN pre

\* The plane layer i + 1 takes when layers i+1..n are placed as high as they go.
HighestFit(n, m, fits) ==
  LET suf[k \in 0..n] ==   \* k layers from the top
        IF k = 0 THEN m + 1
        ELSE LET free == {j \in 1..(suf[k - 1] - 1) : <<n - k + 1, j>> \in fits}
             IN IF suf[k - 1] = NoPlace \/ free = {} THEN NoPlace ELSE Max(free)
  IN [i \in 0..n |-> suf[n - i]]

\* A choice composites the layers a+1..b.  It is possible when those below fit
\* under those above with the canvas between them, on the topmost host.
PlaneChoices(n, m, fits, forced, hosts, hasCanvas) ==
  LET pre == LowestFit(n, m, fits)
      suf == HighestFit(n, m, fits)
      between(a, b) == hosts \cap (pre[a] + 1)..(suf[b] - 1)
      possible(a, b) ==
        /\ a <= b /\ pre[a] # NoPlace /\ suf[b] # NoPlace
        /\ forced \subseteq (a + 1)..b
        /\ IF hasCanvas /\ a < b THEN between(a, b) # {} ELSE pre[a] < suf[b]
  IN {[a |-> c[1], b |-> c[2],
       canvas |-> IF hasCanvas /\ c[1] < c[2] THEN Max(between(c[1], c[2])) ELSE 0,
       place |-> [i \in (1..c[1]) \cup ((c[2] + 1)..n) |->
                    IF i <= c[1] THEN pre[i] ELSE suf[i - 1]]] :
       c \in {ab \in (0..n) \X (0..n) : possible(ab[1], ab[2])}}

RunCost(c, cost) == MapThenSumSet(LAMBDA i : cost[i], (c.a + 1)..c.b)

\* Most layers placed, then the cheapest run, then the lowest.
Better(c, d, cost) ==
  LET width(x) == x.b - x.a
  IN \/ width(c) < width(d)
     \/ width(c) = width(d) /\ RunCost(c, cost) < RunCost(d, cost)
     \/ width(c) = width(d) /\ RunCost(c, cost) = RunCost(d, cost) /\ c.a < d.a

Choose(choices, cost) ==
  CHOOSE c \in choices : \A d \in choices \ {c} : Better(c, d, cost)

\* Positions are records [zpos, plane, onCanvas]: a higher zpos is on a higher
\* plane, or both are on the canvas.
PlaneOrderConsistent(positions) ==
  \A x, y \in positions :
    x.zpos < y.zpos =>
      /\ 0 \notin {x.plane, y.plane}
      /\ \/ x.plane < y.plane
         \/ x.plane = y.plane /\ x.onCanvas /\ y.onCanvas

=============================================================================
