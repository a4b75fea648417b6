--------------------------- MODULE PlaneEmission ---------------------------
(***************************************************************************)
(* From a frame's plan to the kernel's planes: which properties of a plane *)
(* a commit writes, given the baseline the plan entry diffs against, and   *)
(* what the kernel's planes are after it.                                  *)
(*                                                                         *)
(* A plan is a function from the planes it arms to entries: the layer, the *)
(* tags the layer sets, and the baseline, the tags the plane's last commit *)
(* for that layer carried (none: <<>>).  A framebuffer is named by the     *)
(* layer it belongs to.                                                    *)
(***************************************************************************)
EXTENDS PlaneRegistry

NoFb  == <<0, 0>>
NoTags == <<>>

-----------------------------------------------------------------------------
(* The kernel's planes.  External: as the committer and the atomic request *)
(* use them.                                                               *)

Off(cap) ==
  [fb |-> NoFb, crtc |-> 0, rect |-> {}, zpos |-> Max({cap.zmin, 0})]

Lit(kernel, crtc) ==
  {p \in DOMAIN kernel : kernel[p].fb # NoFb /\ kernel[p].crtc = crtc}

LitElsewhere(kernel, crtc) ==
  {p \in DOMAIN kernel : kernel[p].crtc \notin {0, crtc}}

-----------------------------------------------------------------------------
(* The commit.                                                             *)

\* A diff that reads "the layer was here" as "nothing changed".
NeedsWriteOnce(entry, tag) == tag = "fb" \/ tag \notin DOMAIN entry.base

\* The framebuffer is written every time: the flip event hangs on it.
NeedsWrite(entry, tag) ==
  tag = "fb" \/ tag \notin DOMAIN entry.base \/ entry.base[tag] # entry.tags[tag]

Written(cap, tags, tag) ==
  IF tag = "zpos" THEN ClampZpos(cap, tags[tag]) ELSE tags[tag]

EmitLayer(cap, plane, entry) ==
  [tag \in DOMAIN plane |->
     IF tag \in DOMAIN entry.tags /\ NeedsWrite(entry, tag)
       THEN Written(cap, entry.tags, tag) ELSE plane[tag]]

\* Only the framebuffer and the CRTC are zeroed; the rest stays as it was.
EmitDisable(plane) == [plane EXCEPT !.fb = NoFb, !.crtc = 0]

AfterCommit(dev, kernel, plan, disables) ==
  [p \in DOMAIN kernel |->
     IF p \in DOMAIN plan THEN EmitLayer(dev.planes[p], kernel[p], plan[p])
     ELSE IF p \in disables THEN EmitDisable(kernel[p])
     ELSE kernel[p]]

\* External: a commit is taken when the planes it arms can feed the CRTC, those
\* lit on it afterwards are no more than it lights, and none is moved over from
\* another one.
KernelTakes(dev, kernel, plan, disables, crtc, capacity) ==
  /\ DOMAIN plan \subseteq PlanesOf(dev, crtc)
  /\ DOMAIN plan \cap LitElsewhere(kernel, crtc) = {}
  /\ Cardinality(Lit(AfterCommit(dev, kernel, plan, disables), crtc)) <= capacity

-----------------------------------------------------------------------------
(* The record of it.                                                       *)

RecordCommit(plan) ==
  [p \in DOMAIN plan |->
     [layer |-> plan[p].layer, tags |-> plan[p].tags, hash |-> plan[p].hash]]

=============================================================================
