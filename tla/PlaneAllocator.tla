--------------------------- MODULE PlaneAllocator ---------------------------
(***************************************************************************)
(* drmkit-planes' Allocator: which layer gets which plane, given what the  *)
(* last frames left in it and what the kernel answers to TEST_ONLY.        *)
(*                                                                         *)
(* "e" is one call's surroundings: the device (dev) and CRTC (crtc), the   *)
(* lowered layers by id (ly) and the ids in scene order (ids), the planes  *)
(* reserved for the canvas, the one held and armed for it (hold), those    *)
(* that can carry it (hosts), whether there is a canvas, the kernel        *)
(* (capacity: the planes it lights at once; busy: the planes another CRTC  *)
(* has; cursors: the cursor planes lit; master), and the budget of tests   *)
(* (maxTests).                                                             *)
(*                                                                         *)
(* "al" is what stays between calls: the cached assignment (previous, a    *)
(* function from planes to layer ids; valid; prevCanvas; prevComposited;   *)
(* prevFree), the placements the kernel refused last (failed), what it     *)
(* took last (committed), and the last call's canvas plane and zpos.       *)
(*                                                                         *)
(* "s" is one search: the refused placements, the tests spent, the plane   *)
(* armed for the canvas, whether a test found that the caller is not       *)
(* master.                                                                 *)
(***************************************************************************)
EXTENDS PlaneRegistry

LOCAL INSTANCE BipartiteMatching
LOCAL INSTANCE Folds
LOCAL INSTANCE SequencesExt

NoLayer == <<0, 0>>
Nowhere == <<>>     \* the empty assignment

\* A loop that has nothing left to do after n rounds at most.
Repeat(n, Step(_), start) ==
  FoldLeft(LAMBDA at, i : Step(at), start, [i \in 1..n |-> i])

Without(a, planes) == [p \in DOMAIN a \ planes |-> a[p]]
Placed(a)          == {a[p] : p \in DOMAIN a}
Present(e)         == {e.ids[i] : i \in DOMAIN e.ids}
BottomUp(e, ids)   == StableSort(ids, LAMBDA l : Max({e.ly[l].zpos, 0}))
ByKeep(e, ids)     == StableSort(ids, LAMBDA l : 0 - e.ly[l].keep)
Pinned(e, l)       == e.ly[l].pin # NoPlane
PinnedPlanes(e)    == {e.ly[l].pin : l \in Present(e)} \ {NoPlane}
Children(e, a, p)  == {q \in DOMAIN a : e.dev.planes[q].parent = p}
Pairs(e, a)        == {<<p, PropertyHash(e.ly[a[p]])>> : p \in DOMAIN a}
Refused(s, e, p, l) == <<p, PropertyHash(e.ly[l])>> \in s.failed

-----------------------------------------------------------------------------
(* Asking the kernel.                                                      *)

\* External: the kernel lights so many planes at once, and none that another
\* CRTC has.
KernelLights(e, planes) ==
  Cardinality(planes) <= e.capacity /\ planes \cap e.busy = {}

\* The request turns every other candidate off, so what it would light is
\* what it arms, the assignment and the canvas, and the cursor planes that are
\* lit.
TestAssignment(e, armed) == KernelLights(e, armed \cup e.cursors)

Armed(s) == {s.armed} \ {NoPlane}

ArmCanvas(e, s, p) == [s EXCEPT !.armed = IF e.canvas THEN p ELSE NoPlane]

OverStageLimit(e, s, a) ==
  Cardinality(DOMAIN a) + Cardinality(Armed(s)) > e.dev.stages[e.crtc]

\* A test records its verdict against every pair it armed.
TryTest(e, s, a) ==
  LET passes == TestAssignment(e, DOMAIN a \cup Armed(s))
  IN IF s.tests >= e.maxTests
       THEN [passed |-> FALSE, s |-> [s EXCEPT !.exhausted = TRUE]]
     ELSE IF OverStageLimit(e, s, a) \/ s.notMaster
       THEN [passed |-> FALSE, s |-> s]
     ELSE IF ~e.master
       THEN [passed |-> FALSE, s |-> [s EXCEPT !.notMaster = TRUE]]
     ELSE [passed |-> passes,
           s |-> [s EXCEPT !.tests = @ + 1,
                           !.failed = IF passes THEN @ \ Pairs(e, a)
                                                ELSE @ \cup Pairs(e, a)]]

-----------------------------------------------------------------------------
(* The canvas's bounds: zpos values the one canvas must be under and over. *)

\* The layers on planes, pinned ones on planes nothing else took included.
PlacedLayers(e, a) ==
  Placed(a) \cup {l \in Present(e) : Pinned(e, l) /\ e.ly[l].pin \notin DOMAIN a}

CompositedLayers(e, a) == {l \in Present(e) \ Placed(a) : ~Pinned(e, l)}

CanvasPairs(e, a) ==
  {<<e.ly[pair[1]].zpos, e.ly[pair[2]].zpos>> :
     pair \in {pc \in PlacedLayers(e, a) \X CompositedLayers(e, a) :
                     /\ NoZpos \notin {e.ly[pc[1]].zpos, e.ly[pc[2]].zpos}
                     /\ LayersIntersect(e.ly[pc[1]], e.ly[pc[2]])}}

Above(e, a) == {z[1] : z \in {pair \in CanvasPairs(e, a) : pair[2] < pair[1]}}
Below(e, a) == {z[1] : z \in {pair \in CanvasPairs(e, a) : pair[2] > pair[1]}}

CanvasFeasible(e, a) == \A b \in Below(e, a), t \in Above(e, a) : b < t

\* Into the composition with what is caught between, the least wanted first.
ResolveCanvasBounds(e, a) ==
  LET z(b, p) == e.ly[b[p]].zpos
      caught(b) == {p \in DOMAIN b :
                      /\ z(b, p) # NoZpos
                      /\ Min(Above(e, b)) <= z(b, p) /\ z(b, p) <= Max(Below(e, b))
                      /\ \E c \in CompositedLayers(e, b) :
                           /\ e.ly[c].zpos \notin {NoZpos, z(b, p)}
                           /\ LayersIntersect(e.ly[b[p]], e.ly[c])}
      victim(b) == CHOOSE p \in caught(b) :
                     \A q \in caught(b) : e.ly[b[p]].keep <= e.ly[b[q]].keep
      resolve(b) ==
        IF CanvasFeasible(e, b) \/ caught(b) = {} THEN b
        ELSE Without(b, {victim(b)} \cup Children(e, b, victim(b)))
      outcome(kept) == [resolved |-> CanvasFeasible(e, kept), a |-> kept]
  IN outcome(Repeat(Cardinality(DOMAIN a), resolve, a))

-----------------------------------------------------------------------------
(* Placing one group: matching, then greedy, then dropping layers.         *)

\* Whatever is on the other planes.
FitsAnywhere(e, a, p, l) == a = Nowhere \/ p \in DOMAIN e.dev.planes

FitsStacking(e, a, p, l) ==
  \A q \in DOMAIN a \ {p} :
    StackingConsistent(e.dev.planes[p], e.ly[l].zpos,
                       e.dev.planes[q], e.ly[a[q]].zpos)

FitsMultirect(e, a, p) == MultirectPairingOk(e.dev, p, DOMAIN a)

StackingConsistentAll(e, a) == \A p \in DOMAIN a : FitsStacking(e, a, p, a[p])
MultirectComplete(e, a)     == \A p \in DOMAIN a : FitsMultirect(e, a, p)

Score(e, al, p, l) ==
  ScorePair(e.dev.planes[p], e.ly[l],
            al.valid /\ p \in DOMAIN al.previous /\ al.previous[p] = l)

\* The planes each layer may have, the highest score first.
ScoredEdges(e, al, s, ordered, planes) ==
  [i \in DOMAIN ordered |->
     StableSort(SelectSeq(planes,
                  LAMBDA p : /\ PlaneStaticallyCompatible(e.dev.planes[p], e.ly[ordered[i]])
                             /\ ~Refused(s, e, p, ordered[i])),
                LAMBDA p : 0 - Score(e, al, p, ordered[i]))]

Preseed(e, al, s, ordered, planes) ==
  LET rights == {planes[j] : j \in DOMAIN planes}
      seed(match) ==
        LET taken == {i \in DOMAIN match : match[i] # 0}
        IN [p \in {match[i] : i \in taken} |-> ordered[CHOOSE i \in taken : match[i] = p]]
  IN seed(Solve(ScoredEdges(e, al, s, ordered, planes), rights))

\* Every compatible pair, the highest score first, virtual planes after all.
RankedCandidates(e, al, ordered, planes) ==
  LET pairsOf(l) == LET fit == SelectSeq(planes, LAMBDA p :
                                 PlaneStaticallyCompatible(e.dev.planes[p], e.ly[l]))
                    IN [j \in DOMAIN fit |-> <<fit[j], l>>]
      ranked == StableSort(FlattenSeq([i \in DOMAIN ordered |-> pairsOf(ordered[i])]),
                           LAMBDA c : 0 - Score(e, al, c[1], c[2]))
  IN SelectSeq(ranked, LAMBDA c : ~IsMultirectVirtual(e.dev, c[1]))
       \o SelectSeq(ranked, LAMBDA c : IsMultirectVirtual(e.dev, c[1]))

Greedy(e, s, candidates) ==
  FoldLeft(LAMBDA a, c :
             IF \/ c[1] \in DOMAIN a \/ c[2] \in Placed(a)
                \/ Refused(s, e, c[1], c[2])
                \/ ~FitsStacking(e, a, c[1], c[2])
                \/ ~FitsMultirect(e, a, c[1])
               THEN a ELSE (c[1] :> c[2]) @@ a,
           Nowhere, candidates)

\* Drop the least wanted layer, and a virtual plane with its parent, until
\* the kernel takes the rest.
Backtrack(e, s, a) ==
  LET drop(b) == CHOOSE p \in DOMAIN b :
                   \A q \in DOMAIN b : e.ly[b[p]].keep <= e.ly[b[q]].keep
      rest(b) == Without(b, {drop(b)} \cup Children(e, b, drop(b)))
      answered(b, test) ==
        LET ends == test.passed \/ test.s.tests >= e.maxTests
        IN [a |-> b, on |-> ~ends,
            s |-> [test.s EXCEPT !.exhausted = @ \/ (ends /\ ~test.passed)]]
      back(at) ==
        IF ~at.on THEN at
        ELSE IF rest(at.a) = Nowhere THEN [a |-> Nowhere, s |-> at.s, on |-> FALSE]
        ELSE answered(rest(at.a), TryTest(e, at.s, rest(at.a)))
      end == Repeat(Cardinality(DOMAIN a), back, [a |-> a, s |-> s, on |-> TRUE])
  IN [a |-> end.a, s |-> end.s]

PlaceGreedy(e, s, greedy, test) ==
  IF greedy = Nowhere THEN [a |-> Nowhere, s |-> s]
  ELSE IF test.passed THEN [a |-> greedy, s |-> test.s]
  ELSE Backtrack(e, test.s, greedy)

PlaceSeed(e, al, ordered, planes, seed, test) ==
  LET try(greedy) == PlaceGreedy(e, test.s, greedy, TryTest(e, test.s, greedy))
  IN IF test.passed THEN [a |-> seed, s |-> test.s]
     ELSE try(Greedy(e, test.s, RankedCandidates(e, al, ordered, planes)))

\* The matching is asked about only when it stacks and pairs as it must.
PlaceGroup(e, al, s, members, planes) ==
  LET ordered == ByKeep(e, members)
      sound(seed) == StackingConsistentAll(e, seed) /\ MultirectComplete(e, seed)
      try(seed) ==
        IF seed = Nowhere THEN [a |-> Nowhere, s |-> s]
        ELSE PlaceSeed(e, al, ordered, planes, seed,
                       IF sound(seed) THEN TryTest(e, s, seed)
                       ELSE [passed |-> FALSE, s |-> s])
  IN try(Preseed(e, al, s, ordered, planes))

-----------------------------------------------------------------------------
(* The search where planes take a zpos.                                    *)

Unreserved(e) ==
  SelectSeq(ForCrtc(e.dev, e.crtc), LAMBDA p : p \notin e.reserved)

Placeable(e) == BottomUp(e, SelectSeq(e.ids, LAMBDA l : ~Pinned(e, l)))

\* The most wanted layers a CRTC with few blend stages can show, one stage
\* left for the canvas when anything is composited.
CapToBlendLimit(e) ==
  LET limit == e.dev.stages[e.crtc]
      held  == Cardinality({l \in Present(e) : Pinned(e, l)})
      candidates == SelectSeq(Placeable(e), LAMBDA l : ~e.ly[l].forced)
      composites == \/ \E l \in Present(e) : ~Pinned(e, l) /\ e.ly[l].forced
                    \/ held + Len(candidates) > limit
      stages == Max({limit - held, 0})
      budget == IF composites THEN Max({stages - 1, 0}) ELSE stages
      ranked == ByKeep(e, candidates)
      over   == {ranked[i] : i \in (budget + 1)..Len(ranked)}
  IN SelectSeq(Placeable(e), LAMBDA l : l \notin over)

\* Group by group, the one with the most wanted layer first, each from the
\* planes the ones before left.
FullSearch(e, al, s, placeable) ==
  LET groups  == SetToSortSeq(
                   IndependentGroups({e.ly[placeable[i]] : i \in DOMAIN placeable}),
                   LAMBDA g, h : Max({x.keep : x \in g}) > Max({x.keep : x \in h}))
      place(acc, g) ==
        LET members == SelectSeq(placeable, LAMBDA l : e.ly[l] \in g)
            left    == SelectSeq(Unreserved(e), LAMBDA p : p \notin DOMAIN acc.a)
            joined(placed) == [a |-> placed.a @@ acc.a, s |-> placed.s]
        IN joined(PlaceGroup(e, al, acc.s, members, left))
  IN FoldLeft(place, [a |-> Nowhere, s |-> s], groups)

\* The cheapest run of a width that covers the forced layers, the highest of
\* equals.
CheapestRun(e, candidates, width) ==
  LET n == Len(candidates)
      forced == {i \in 1..n : e.ly[candidates[i]].forced}
      starts == {i \in 1..(n - width + 1) : forced \subseteq i..(i + width - 1)}
      cost(i) == MapThenSumSet(LAMBDA k : e.ly[candidates[k]].keep, i..(i + width - 1))
  IN IF starts = {} THEN 0
     ELSE LET cheapest == {i \in starts : \A j \in starts : cost(i) <= cost(j)}
          IN Max(cheapest)

\* Composite ever wider runs and place what is outside of them.
OutsideRun(e, start, width) ==
  SelectSeq(Placeable(e), LAMBDA l :
    \A i \in start..(start + width - 1) : Placeable(e)[i] # l)

RunPlaced(e, placed) ==
  IF placed.a # Nowhere /\ CanvasFeasible(e, placed.a)
    THEN [found |-> TRUE, a |-> placed.a, s |-> placed.s, on |-> FALSE]
    ELSE [found |-> FALSE, a |-> Nowhere, s |-> placed.s, on |-> TRUE]

PlaceAroundRun(e, al, s, least) ==
  LET around(width, start, at) ==
        IF start = 0 THEN at
        ELSE RunPlaced(e, PlaceGroup(e, al, at.s, OutsideRun(e, start, width), Unreserved(e)))
      try(at, width) ==
        IF ~at.on THEN at
        ELSE IF at.s.tests >= e.maxTests
          THEN [at EXCEPT !.on = FALSE, !.s = [@ EXCEPT !.exhausted = TRUE]]
        ELSE around(width, CheapestRun(e, Placeable(e), width), at)
  IN FoldLeft(try, [found |-> FALSE, a |-> Nowhere, s |-> s, on |-> TRUE],
              [k \in 1..(Len(Placeable(e)) - least) |-> least + k - 1])

\* No run would do: composite what is caught, if the kernel takes the rest.
KeepResolved(e, searched, s, resolved) ==
  LET tested(test) ==
        [a |-> IF test.passed THEN resolved.a ELSE searched.a, s |-> test.s]
  IN IF ~resolved.resolved THEN [a |-> searched.a, s |-> s]
     ELSE IF resolved.a = Nowhere THEN [a |-> Nowhere, s |-> s]
     ELSE tested(TryTest(e, s, resolved.a))

KeepCanvasBounds(e, al, searched) ==
  LET n == Len(Placeable(e))
      keep(around) ==
        IF around.found THEN [a |-> around.a, s |-> around.s]
        ELSE KeepResolved(e, searched, around.s, ResolveCanvasBounds(e, searched.a))
  IN IF CanvasFeasible(e, searched.a) THEN searched
     ELSE keep(PlaceAroundRun(e, al, searched.s,
                 Max({n - Min({Cardinality(DOMAIN searched.a), n}), 1})))

SearchByZpos(e, al, s) ==
  LET armed == ArmCanvas(e, s, e.hold)
      held(found) == [a |-> found.a, s |-> found.s, canvas |-> e.hold]
  IN held(KeepCanvasBounds(e, al, FullSearch(e, al, armed, CapToBlendLimit(e))))

-----------------------------------------------------------------------------
(* The search where planes stack by id.                                    *)

\* Ties go to the canvas by keep priority.
PlaneStack(e) ==
  BottomUp(e, StableSort(SelectSeq(e.ids, LAMBDA l : ~Pinned(e, l)),
                         LAMBDA l : e.ly[l].keep))

OrderPlanes(e) ==
  SelectSeq(ForceDisableCandidates(e.dev, e.crtc),
            LAMBDA p : /\ ~IsMultirectVirtual(e.dev, p)
                       /\ p \notin e.reserved \cup PinnedPlanes(e))

Costs(e, stack) == [i \in DOMAIN stack |-> e.ly[stack[i]].keep]

CanvasOf(choice, planes) ==
  IF choice.canvas = 0 THEN NoPlane ELSE planes[choice.canvas]

AssignmentOf(choice, planes, stack) ==
  [p \in {planes[choice.place[i]] : i \in DOMAIN choice.place} |->
     stack[CHOOSE i \in DOMAIN choice.place : planes[choice.place[i]] = p]]

\* When the tests run out everything is composited.
CanvasAlone(e, choices, planes, stack) ==
  LET none == {c \in choices : DOMAIN c.place = {}}
  IN IF none = {} THEN NoPlane ELSE CanvasOf(Choose(none, Costs(e, stack)), planes)

\* The best choice of those left, and of those that place fewer if the kernel
\* refuses it.
PlaceFrom(e, s, choices, planes, stack) ==
  LET fewer(cs, choice) ==
        {c \in cs : Cardinality(DOMAIN c.place) < Cardinality(DOMAIN choice.place)}
      ends(a, of, canvas) == [a |-> a, s |-> of, canvas |-> canvas, choices |-> {}]
      answered(at, choice, canvas, a, test) ==
        IF test.passed THEN ends(a, test.s, canvas)
        ELSE IF test.s.tests >= e.maxTests
          THEN ends(Nowhere, [test.s EXCEPT !.exhausted = TRUE],
                    CanvasAlone(e, at.choices, planes, stack))
        ELSE [at EXCEPT !.s = test.s, !.choices = fewer(@, choice)]
      tried(at, choice, canvas, a) ==
        answered(at, choice, canvas, a, TryTest(e, ArmCanvas(e, at.s, canvas), a))
      place(at, choice) ==
        IF DOMAIN choice.place = {} THEN ends(Nowhere, at.s, CanvasOf(choice, planes))
        ELSE tried(at, choice, CanvasOf(choice, planes), AssignmentOf(choice, planes, stack))
      step(at) ==
        IF at.choices = {} THEN at ELSE place(at, Choose(at.choices, Costs(e, stack)))
  IN Repeat(Len(stack) + 1, step,
            [a |-> Nowhere, s |-> s, canvas |-> NoPlane, choices |-> choices])

PlaceInPlaneOrder(e, s) ==
  LET stack  == PlaneStack(e)
      planes == OrderPlanes(e)
      fits   == {ij \in (1..Len(stack)) \X (1..Len(planes)) :
                   /\ PlaneStaticallyCompatible(e.dev.planes[planes[ij[2]]], e.ly[stack[ij[1]]])
                   /\ ~Refused(s, e, planes[ij[2]], stack[ij[1]])}
      forced == {i \in DOMAIN stack : e.ly[stack[i]].forced}
      hosts  == {j \in DOMAIN planes : planes[j] \in e.hosts}
      choices == PlaneChoices(Len(stack), Len(planes), fits, forced, hosts,
                              e.hosts # {})
  IN IF stack = <<>> THEN [a |-> Nowhere, s |-> s, canvas |-> NoPlane]
     ELSE PlaceFrom(e, s, choices, planes, stack)

\* The cached assignment and canvas still stack the layers as they ask.
PlaneOrderHolds(e, al) ==
  LET planeOf(l) == {p \in DOMAIN al.previous : al.previous[p] = l}
      counts == {l \in Present(e) : ~Pinned(e, l) /\ (planeOf(l) # {} \/ e.hosts # {})}
  IN PlaneOrderConsistent(
       {[zpos |-> Max({e.ly[l].zpos, 0}),
         plane |-> IF planeOf(l) = {} THEN al.prevCanvas ELSE Min(planeOf(l)),
         onCanvas |-> planeOf(l) = {}] : l \in counts})

-----------------------------------------------------------------------------
(* The cache.                                                              *)

FreePlanes(e, al, a) ==
  CandidateSet(e.dev, e.crtc)
    \ (e.reserved \cup PinnedPlanes(e) \cup DOMAIN a \cup {al.prevCanvas})

\* A layer to search for: one the last search did not see, or one it left
\* out when there was less room than now.
HasNewLayer(e, al) ==
  LET unplaced == {l \in Present(e) : ~Pinned(e, l)} \ Placed(al.previous)
  IN \/ ~(unplaced \subseteq al.prevComposited)
     \/ /\ unplaced # {}
        /\ \/ Cardinality(unplaced) < Cardinality(al.prevComposited)
           \/ ~(FreePlanes(e, al, al.previous) \subseteq al.prevFree)

\* Only framebuffers changed on the planes of the cached assignment.
IsFbOnlyFrame(e, al) ==
  /\ al.previous # Nowhere
  /\ \A p \in DOMAIN al.previous :
       /\ al.previous[p] \in Present(e)
       /\ p \in DOMAIN al.committed
       /\ al.committed[p].layer = al.previous[p]
       /\ al.committed[p].hash = PropertyHash(e.ly[al.previous[p]])

ToComposite(e, a) == CompositedLayers(e, a)

OrderHolds(e, al) ==
  IF StacksByPlaneId(e.dev, e.crtc) THEN PlaneOrderHolds(e, al)
  ELSE CanvasFeasible(e, al.previous)

\* Whatever has been added since.
CacheUsableForAll(e, al) == al.valid /\ OrderHolds(e, al)

CacheUsable(e, al) == al.valid /\ ~HasNewLayer(e, al) /\ OrderHolds(e, al)

FastPath(e, al) ==
  /\ CacheUsable(e, al)
  /\ e.hold \in {NoPlane, al.prevCanvas}
  /\ IsFbOnlyFrame(e, al)

WarmCanvas(e, al) == IF e.hold # NoPlane THEN e.hold ELSE al.prevCanvas

WarmStartTried(e, al) ==
  /\ CacheUsable(e, al)
  /\ al.previous # Nowhere
  /\ Placed(al.previous) \subseteq {l \in Present(e) : ~Pinned(e, l)}
  /\ StackingConsistentAll(e, al.previous)
  /\ MultirectComplete(e, al.previous)
  /\ ~OverStageLimit(e, ArmCanvas(e, [armed |-> NoPlane], WarmCanvas(e, al)), al.previous)

-----------------------------------------------------------------------------
(* One call.                                                               *)

\* The canvas goes just under the lowest placed layer that must cover it.
CanvasSlot(e, a) ==
  IF /\ ~StacksByPlaneId(e.dev, e.crtc)
     /\ ToComposite(e, a) # {} /\ Above(e, a) # {} /\ CanvasFeasible(e, a)
    THEN Min(Above(e, a)) ELSE NoZpos

Allocation(e, al, a, canvas, tests, fast) ==
  [al |-> [al EXCEPT !.canvas = canvas, !.slot = CanvasSlot(e, a)],
   a |-> a, composited |-> ToComposite(e, a), tests |-> tests,
   fast |-> fast, notMaster |-> FALSE]

NotMaster(al) ==
  [al |-> al, a |-> Nowhere, composited |-> {}, tests |-> 0, fast |-> FALSE,
   notMaster |-> TRUE]

Remembered(e, al, found, canvas) ==
  LET settled == [al EXCEPT !.failed = found.s.failed,
                            !.previous = found.a,
                            !.valid = found.a # Nowhere,
                            !.prevCanvas = canvas,
                            !.prevComposited = {l \in Present(e) : ~Pinned(e, l)}
                                                 \ Placed(found.a)]
  IN [settled EXCEPT !.prevFree = FreePlanes(e, settled, found.a)]

Searched(e, al, tests) ==
  LET s == [failed |-> al.failed, tests |-> tests, exhausted |-> FALSE,
            armed |-> NoPlane, notMaster |-> FALSE]
      cache(found, canvas) ==
        Allocation(e, Remembered(e, al, found, canvas), found.a, canvas, found.s.tests, FALSE)
      finish(found) ==
        IF found.s.notMaster THEN NotMaster(al)
        ELSE cache(found, IF ToComposite(e, found.a) = {} THEN NoPlane ELSE found.canvas)
  IN finish(IF StacksByPlaneId(e.dev, e.crtc) THEN PlaceInPlaneOrder(e, s)
            ELSE SearchByZpos(e, al, s))

Allocate(e, al) ==
  LET canvas == WarmCanvas(e, al)
      warm   == DOMAIN al.previous \cup IF e.canvas THEN {canvas} \ {NoPlane} ELSE {}
      keep(kept) == Allocation(e, [al EXCEPT !.prevCanvas = kept], al.previous, kept, 1, FALSE)
      answer(tried) ==
        IF tried /\ ~e.master THEN NotMaster(al)
        ELSE IF tried /\ TestAssignment(e, warm)
          THEN keep(IF ToComposite(e, al.previous) = {} THEN NoPlane ELSE canvas)
        ELSE Searched(e, [al EXCEPT !.valid = @ /\ ~tried], IF tried THEN 1 ELSE 0)
  IN IF FastPath(e, al)
       THEN Allocation(e, al, al.previous, al.prevCanvas, 0, TRUE)
     ELSE answer(WarmStartTried(e, al))

-----------------------------------------------------------------------------
(* What the scene and the committer tell it.                               *)

NewAllocator ==
  [previous |-> Nowhere, valid |-> FALSE, prevCanvas |-> NoPlane,
   prevComposited |-> {}, prevFree |-> {}, failed |-> {},
   committed |-> <<>>, canvas |-> NoPlane, slot |-> NoZpos]

InvalidateAllocation(al) == [al EXCEPT !.valid = FALSE]

\* The identity goes, the record that the plane is lit stays.
ForgetLayer(al, l) ==
  LET left == Without(al.previous, {p \in DOMAIN al.previous : al.previous[p] = l})
  IN [al EXCEPT !.previous = left,
                !.valid = @ /\ left # Nowhere,
                !.committed = [p \in DOMAIN @ |->
                   IF @[p].layer = l THEN [@[p] EXCEPT !.layer = NoLayer] ELSE @[p]]]

CommittedBaseline(al, p, l) ==
  IF p \in DOMAIN al.committed /\ al.committed[p].layer = l
    THEN al.committed[p].tags ELSE <<>>


\* Asked of the assignment instead of the commit.
PlaneUnassigned(al, p) == p \notin DOMAIN al.previous

PlaneIsOff(al, p) == p \notin DOMAIN al.committed
LitPlanes(al)     == DOMAIN al.committed

=============================================================================
