--------------------------- MODULE MCPlaneScene ---------------------------
(* PlaneScene on small devices. *)
EXTENDS PlaneScene

Plane(type, crtcs, zmin, zmax, formats, parent) ==
  [type |-> type, crtcs |-> crtcs, zmin |-> zmin, zmax |-> zmax,
   formats |-> formats, parent |-> parent, cursorMax |-> 1]

\* A primary that cannot be moved, an overlay above it that is shared, and the
\* other CRTC's cursor plane.
ZposDevice ==
  [ids |-> <<1, 2, 3>>, stages |-> <<NoLimit, NoLimit>>,
   planes |-> 1 :> Plane("primary", {1}, 0, 0, {"rgb"}, NoPlane)
           @@ 2 :> Plane("overlay", {1, 2}, 1, 3, {"rgb", "yuv"}, NoPlane)
           @@ 3 :> Plane("cursor", {2}, 0, 3, {"rgb"}, NoPlane)]

\* Planes that stack by id.
IdDevice ==
  [ids |-> <<1, 2, 3>>, stages |-> <<NoLimit, NoLimit>>,
   planes |-> 1 :> Plane("primary", {1}, NoZpos, NoZpos, {"rgb"}, NoPlane)
           @@ 2 :> Plane("overlay", {1, 2}, NoZpos, NoZpos, {"rgb", "yuv"}, NoPlane)
           @@ 3 :> Plane("overlay", {1}, NoZpos, NoZpos, {"rgb"}, NoPlane)]

\* Two blend stages, and a virtual plane beside its parent.
StageDevice ==
  [ids |-> <<1, 2, 3>>, stages |-> <<2, NoLimit>>,
   planes |-> 1 :> Plane("primary", {1}, 0, 3, {"rgb"}, NoPlane)
           @@ 2 :> Plane("overlay", {1, 2}, 0, 3, {"rgb", "yuv"}, NoPlane)
           @@ 3 :> Plane("overlay", {1, 2}, 0, 3, {"rgb"}, 2)]

MCDevices == {ZposDevice, IdDevice, StageDevice}
MCKeepOf  == <<2560, 25600, 12800>>
MCDisplays ==
  {[zpos |-> 0, rect |-> {1, 2}, fmt |-> "rgb"],
   [zpos |-> 2, rect |-> {1, 2}, fmt |-> "rgb"],
   [zpos |-> 2, rect |-> {2},    fmt |-> "rgb"],
   [zpos |-> 1, rect |-> {1},    fmt |-> "yuv"]}
\* Three layers shown three ways, the second no lower than the first, which is
\* one of the lower two, and a smaller one after a larger as high; or two that
\* leave room for more changes.
MCScenes ==
  {s \in [1..3 -> MCDisplays] :
     /\ s[1].zpos < 2 /\ s[1].zpos <= s[2].zpos
     /\ \A i, j \in 1..3 : i < j => s[i] # s[j]
     /\ \A i, j \in 1..3 : i < j /\ s[i].zpos = s[j].zpos => s[j].rect \subseteq s[i].rect}
    \cup {<<[zpos |-> 0, rect |-> {1, 2}, fmt |-> "rgb"],
            [zpos |-> 2, rect |-> {2},    fmt |-> "rgb"]>>}
\* What a layer is changed to.
MCChanges == {d \in MCDisplays : d.zpos < 2 \/ Cardinality(d.rect) = 1}
MCForeignFrames == {2 :> 1}

Matching == INSTANCE BipartiteMatching

MCWishes == {<<>>, <<1>>, <<2>>, <<3>>, <<1, 2>>, <<2, 1>>, <<2, 3>>, <<3, 1>>, <<1, 2, 3>>}

\* The matching serves layers with planes they asked for, no plane twice, and as
\* many of them as any matching can.
ASSUME MatchingIsMaximum ==
  \A adj \in [1..3 -> MCWishes] :
    LET all  == Matching!Matchings(adj, 1..3)
        best == Matching!Solve(adj, 1..3)
        served(f) == Cardinality({u \in 1..3 : f[u] # 0})
    IN best \in all /\ \A f \in all : served(f) <= served(best)
=============================================================================
