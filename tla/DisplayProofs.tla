--------------------------- MODULE DisplayProofs ---------------------------
(***************************************************************************)
(* Proofs about what keeps a display: the scene on its planes, and the     *)
(* session whose card the flips come from.                                 *)
(*                                                                         *)
(* First PlaneScene, for any devices, layers, frames and rebinds,          *)
(* and whatever the allocator's searches come to: what the scene believes  *)
(* its planes show is what they show, and its frames change the screen to  *)
(* what they were built to.                                                *)
(*                                                                         *)
(* A search never touches what the allocator has recorded of the last      *)
(* commit (AllocateKeepsCommitted), and a commit writes what differs from  *)
(* it.  So what matters is that the record is true when a frame is built   *)
(* (BaselineTrue), that it still is when the frame is committed            *)
(* (FrameWrites: the kernel's planes change by nobody else's hand while a  *)
(* frame is held), and that the planes to be turned off were all known     *)
(* (FrameSweeps, OwnKnown).                                                *)
(*                                                                         *)
(* Then Session: a held card's flips are heard again whatever a VT switch  *)
(* did to the descriptors.                                                 *)
(***************************************************************************)
EXTENDS PlaneScene, Session, InductionFacts, SequenceTheorems

Fields == {"fb", "crtc", "rect", "zpos"}
TagsOK(tags) == DOMAIN tags \subseteq Fields /\ {"fb", "crtc"} \subseteq DOMAIN tags

-----------------------------------------------------------------------------
(* The invariant.                                                          *)

\* The kernel has the device's planes, and lights them where they can be.
KernelSound ==
  /\ dev \in Devices /\ crtc \in Crtcs
  /\ DOMAIN kernel = DOMAIN dev.planes
  /\ \A p \in DOMAIN kernel :
       /\ DOMAIN kernel[p] = Fields
       /\ kernel[p].fb # NoFb => p \in PlanesOf(dev, kernel[p].crtc)

\* What the allocator has recorded are entries of planes the CRTC has.
RecordSound ==
  /\ "committed" \in DOMAIN al
  /\ \A p \in DOMAIN al.committed :
       /\ p \in PlanesOf(dev, crtc)
       /\ {"layer", "tags"} \subseteq DOMAIN al.committed[p]
       /\ TagsOK(al.committed[p].tags) /\ al.committed[p].tags.fb # NoFb
  /\ detach # NoDetach => LitPlanes(al) = {} /\ detach.planes # {}

\* A frame held was built for the CRTC, and what it takes for written already
\* is what the kernel has.
FrameWrites ==
  frame # NoFrame =>
    /\ detach = NoDetach
    /\ \A p \in DOMAIN frame.plan :
         /\ TagsOK(frame.plan[p].tags)
         /\ frame.plan[p].tags.crtc = crtc /\ frame.plan[p].tags.fb # NoFb
         /\ frame.plan[p].layer # NoLayer
         /\ p \in DOMAIN kernel =>
              \A tag \in DOMAIN frame.plan[p].base :
                tag \in Fields
                  => kernel[p][tag] = Written(dev.planes[p], frame.plan[p].base, tag)

PlaneInv == KernelSound /\ RecordSound /\ BaselineTrue /\ FrameWrites

\* Whether a frame turns off all that it does not show.
Sweeps(built) == IF planesUnknown THEN built.places ELSE ~unswept

\* A frame held turns off the planes it does not show: those of the scene, and,
\* when it sweeps, everybody's; but none of another CRTC, unless it is blind.
FrameSweeps ==
  frame # NoFrame =>
    /\ LitPlanes(al) \cap CandidateSet(dev, crtc) \subseteq DOMAIN frame.plan \cup frame.disables
    /\ Sweeps(frame) => CandidateSet(dev, crtc) \cap Lit(kernel, crtc)
                          \subseteq DOMAIN frame.plan \cup frame.disables
    /\ ~frame.blind => \A p \in frame.disables \cap DOMAIN kernel : kernel[p].crtc = crtc

\* What the scene has lit, but for cursor planes, it knows of, or is to turn off
\* where it was, or has forgotten by being rebound in place.
OwnKnown ==
  \A p \in DOMAIN kernel \ CursorPlanes :
    kernel[p].fb \notin {NoFb, Foreign} =>
      \/ p \in detach.planes
      \/ kernel[p].crtc \in forgot
      \/ kernel[p].crtc = crtc /\ p \in LitPlanes(al)

SweepInv == SweptIsOff /\ FrameSweeps

-----------------------------------------------------------------------------
(* What a frame is planned to write.                                       *)

\* A search keeps the record of the last commit, whatever it finds.
LEMMA AllocateKeepsCommitted ==
  ASSUME NEW e, NEW a, "committed" \in DOMAIN a
  PROVE  /\ "committed" \in DOMAIN Allocate(e, a).al
         /\ Allocate(e, a).al.committed = a.committed
BY DEF Allocate, Allocation, NotMaster, Searched, Remembered

\* So do the two searches of a frame.
LEMMA SearchesKeepCommitted ==
  ASSUME "committed" \in DOMAIN al
  PROVE  /\ "committed" \in DOMAIN AllocateWithCanvas.al
         /\ AllocateWithCanvas.al.committed = al.committed
<1> DEFINE first == Allocate(Surroundings(CanvasReservation), Heated)
<1>1. "committed" \in DOMAIN Heated /\ Heated.committed = al.committed
  BY DEF Heated, InvalidateAllocation
<1>2. "committed" \in DOMAIN first.al /\ first.al.committed = al.committed
  BY <1>1, AllocateKeepsCommitted
<1> DEFINE again == Allocate(Surroundings(Spare(first)), first.al)
<1>3. "committed" \in DOMAIN again.al /\ again.al.committed = al.committed
  BY <1>2, AllocateKeepsCommitted
<1>4. AllocateWithCanvas.al \in {first.al, again.al}
  BY DEF AllocateWithCanvas, AllocateAgain
<1>5. QED
  BY <1>2, <1>3, <1>4

\* An entry for a plane: it shows something on the scene's CRTC, and it is
\* diffed against nothing or against the plane's last commit of its layer.
EntryOK(p, entry) ==
  /\ {"layer", "tags", "base"} \subseteq DOMAIN entry
  /\ TagsOK(entry.tags) /\ entry.tags.crtc = crtc /\ entry.tags.fb # NoFb
  /\ entry.layer # NoLayer
  /\ \/ entry.base = NoTags
     \/ /\ p \in DOMAIN al.committed
        /\ al.committed[p].layer = entry.layer
        /\ al.committed[p].tags = entry.base

\* The tags of a layer, or of the canvas.
LEMMA TagsMade ==
  ASSUME NEW fb, NEW rect, NEW z
  PROVE  /\ TagsOK(Tags(fb, rect, z))
         /\ Tags(fb, rect, z).crtc = crtc /\ Tags(fb, rect, z).fb = fb
BY DEF Tags, TagsOK, Fields

\* The canvas's entry.
LEMMA CanvasEntryOK ==
  ASSUME NEW p, NEW z
  PROVE  EntryOK(p, CanvasEntry(z))
<1>1. CanvasLayer # NoFb /\ CanvasLayer # NoLayer
  BY DEF CanvasLayer, NoFb, NoLayer
<1>2. QED
  BY <1>1, TagsMade DEF EntryOK, CanvasEntry

\* A slot's layer is not no layer.
LEMMA ShownNamed ==
  ASSUME PlaneSceneAssumption, NEW i \in Slots
  PROVE  IdOf(i)[1] = i /\ IdOf(i) # NoFb /\ IdOf(i) # NoLayer /\ i \in Nat
<1>1. i \in Nat /\ i # 0
  BY DEF PlaneSceneAssumption
<1>2. QED
  BY <1>1 DEF IdOf, NoFb, NoLayer

\* Of layers that are shown the one in the last slot.
LEMMA LastShown ==
  ASSUME PlaneSceneAssumption, NEW placed, NEW p,
         \A pl \in placed : pl[2] \in Shown,
         p \in {pl[1] : pl \in placed}
  PROVE  (CHOOSE l \in {pl[2] : pl \in {q \in placed : q[1] = p}} :
            \A pl \in placed : pl[1] = p => pl[2][1] <= l[1]) \in Shown
<1> DEFINE n  == Cardinality(Slots)
           here == {pl[2] : pl \in {q \in placed : q[1] = p}}
           below == {n - l[1] : l \in here}
<1>1. here # {} /\ \A l \in here : l \in Shown
  OBVIOUS
<1>2. \A l \in Shown : l[1] \in 1..n
  BY DEF Shown, Occupied, IdOf, PlaneSceneAssumption
<1>3. n \in Nat
  BY DEF PlaneSceneAssumption
<1> HIDE DEF n
<1>4. below \in SUBSET Nat /\ below # {}
  BY <1>1, <1>2, <1>3
<1>5. PICK x \in below : \A y \in below : x <= y
  BY <1>4, LeastExists
<1>6. PICK l \in here : x = n - l[1]
  BY <1>5
<1>7. ASSUME NEW pl \in placed, pl[1] = p PROVE pl[2][1] <= l[1]
  <2>1. pl[2] \in here
    BY <1>7
  <2>2. n - l[1] <= n - pl[2][1]
    BY <1>5, <1>6, <2>1
  <2>3. l[1] \in 1..n /\ pl[2][1] \in 1..n
    BY <1>1, <1>2, <1>6, <2>1
  <2> HIDE DEF here
  <2>4. QED
    BY <1>3, <2>2, <2>3
<1>8. QED
  BY <1>1, <1>6, <1>7

\* The layers' entries, before they are diffed.
LEMMA LayerPlanOK ==
  ASSUME PlaneSceneAssumption, NEW placed,
         \A pl \in placed : pl[2] \in Shown,
         NEW p \in DOMAIN LayerPlan(placed)
  PROVE  EntryOK(p, LayerPlan(placed)[p]) /\ Occupied # {}
<1> DEFINE l == CHOOSE x \in {pl[2] : pl \in {q \in placed : q[1] = p}} :
                  \A pl \in placed : pl[1] = p => pl[2][1] <= x[1]
           ly == Lower(l[1])
<1>1. p \in {pl[1] : pl \in placed}
  BY DEF LayerPlan
<1>2. l \in Shown
  BY <1>1, LastShown
<1>3. PICK i \in Occupied : l = IdOf(i)
  BY <1>2 DEF Shown
<1>4. l[1] = i /\ ly.id = IdOf(i) /\ IdOf(i) # NoFb /\ IdOf(i) # NoLayer
  BY <1>3, ShownNamed DEF Occupied, Lower
<1>5. LayerPlan(placed)[p] = [layer |-> ly.id, tags |-> Tags(ly.id, ly.rect, ly.zpos),
                              hash |-> PropertyHash(ly), base |-> NoTags]
  BY <1>1 DEF LayerPlan
<1> HIDE DEF l, ly
<1>6. QED
  BY <1>3, <1>4, <1>5, TagsMade DEF EntryOK

\* And after.
LEMMA WithBaselinesOK ==
  ASSUME NEW plan, NEW p \in DOMAIN plan, EntryOK(p, plan[p])
  PROVE  EntryOK(p, WithBaselines(plan, al.committed)[p])
BY DEF EntryOK, WithBaselines, CommittedBaseline, NoTags

\* Stacking moves entries, no more.
LEMMA StackPlanOK ==
  ASSUME NEW plan, NEW canvas, NEW slotted,
         \A p \in DOMAIN plan : EntryOK(p, plan[p])
  PROVE  /\ DOMAIN StackPlan(plan, canvas, slotted) = DOMAIN plan
         /\ \A p \in DOMAIN plan : EntryOK(p, StackPlan(plan, canvas, slotted)[p])
<1> DEFINE Moved(entry, z) == [entry EXCEPT !.tags = [@ EXCEPT !.zpos = z]]
           top == [p \in DOMAIN plan |->
                     IF p \in canvas /\ slotted THEN CanvasEntry(CanvasZpos) ELSE plan[p]]
           stacked == StackPlan(plan, canvas, slotted)
<1>1. \A p \in DOMAIN plan : EntryOK(p, top[p])
  BY CanvasEntryOK
<1>2. ASSUME NEW p, NEW entry, NEW z, EntryOK(p, entry) PROVE EntryOK(p, Moved(entry, z))
  BY <1>2 DEF EntryOK, TagsOK, Fields
<1>3. DOMAIN stacked = DOMAIN plan
  BY DEF StackPlan
<1>4. ASSUME NEW p \in DOMAIN plan
      PROVE  \E entry \in {plan[p], top[p]} : stacked[p] = entry \/ \E z : stacked[p] = Moved(entry, z)
  BY DEF StackPlan
<1> HIDE DEF top, stacked, Moved
<1>5. QED
  BY <1>1, <1>2, <1>3, <1>4 DEF stacked

\* All a frame is planned to show.
LEMMA PlannedOK ==
  ASSUME PlaneSceneAssumption, "committed" \in DOMAIN al,
         NEW asked
  PROVE  LET planned == Planned(AllocateWithCanvas, asked)
         IN /\ \A p \in DOMAIN planned.plan : EntryOK(p, planned.plan[p])
            /\ planned.places => Occupied # {}
            /\ DOMAIN planned = {"built", "plan", "placed", "composited", "canvas", "pinned",
                                 "places", "fast", "tests", "real", "blind", "disables"}
            /\ planned.built = TRUE
<1> DEFINE allocation == AllocateWithCanvas
           composited == allocation.composited \cup asked.refused
           canvas     == Composition(allocation, composited)
           placed     == Placement(allocation, asked.refused)
           layerPlan  == WithBaselines(LayerPlan(placed), allocation.al.committed)
           plan       == [p \in canvas \cup DOMAIN layerPlan |->
                            IF p \in canvas THEN CanvasEntry(CanvasSlotOrTop(allocation))
                            ELSE layerPlan[p]]
           slotted    == allocation.al.slot # NoZpos
           planned    == Planned(allocation, asked)
<1>1. \A pl \in placed : pl[2] \in Shown
  BY DEF Placement, Shown
<1>2. \A p \in DOMAIN LayerPlan(placed) : EntryOK(p, LayerPlan(placed)[p]) /\ Occupied # {}
  BY <1>1, LayerPlanOK
<1>3. allocation.al.committed = al.committed
  BY SearchesKeepCommitted
<1>4. DOMAIN layerPlan = DOMAIN LayerPlan(placed)
  BY DEF WithBaselines
<1>5. \A p \in DOMAIN layerPlan : EntryOK(p, layerPlan[p])
  BY <1>2, <1>3, <1>4, WithBaselinesOK
<1>6. planned.plan = StackPlan(plan, canvas, slotted) /\ planned.places = (DOMAIN layerPlan # {})
      /\ planned.built = TRUE
      /\ DOMAIN planned = {"built", "plan", "placed", "composited", "canvas", "pinned",
                           "places", "fast", "tests", "real", "blind", "disables"}
  BY DEF Planned
<1> HIDE DEF layerPlan, placed, canvas, slotted, planned, allocation
<1>7. \A p \in DOMAIN plan : EntryOK(p, plan[p])
  BY <1>5, CanvasEntryOK
<1> HIDE DEF plan
<1>8. \A p \in DOMAIN planned.plan : EntryOK(p, planned.plan[p])
  BY <1>6, <1>7, StackPlanOK
<1>9. QED
  BY <1>2, <1>4, <1>6, <1>8 DEF planned, allocation

-----------------------------------------------------------------------------
(* Each step.                                                              *)

\* At first nothing is recorded, and whatever is lit is another's.
LEMMA PlaneInvInit ==
  ASSUME PlaneSceneAssumption, Init
  PROVE  PlaneInv
<1>1. PICK lit \in ForeignFrames : MayLight(dev, lit) /\ kernel = ForeignKernel(dev, lit)
  BY DEF Init
<1>2. crtc \in Crtcs
  <2>1. Crtcs \in SUBSET Nat /\ Crtcs # {}
    BY DEF PlaneSceneAssumption
  <2>2. QED
    BY <2>1, LeastIsIn DEF Init, Min
<1>3. KernelSound
  BY <1>1, <1>2 DEF Init, KernelSound, ForeignKernel, MayLight, Off, Fields, NoFb, Foreign
<1>4. DOMAIN al.committed = {} /\ detach = NoDetach /\ frame = NoFrame /\ "committed" \in DOMAIN al
  BY DEF Init, NewAllocator
<1>5. QED
  BY <1>3, <1>4 DEF PlaneInv, RecordSound, BaselineTrue, FrameWrites

\* Most steps change neither the kernel's planes nor the record of them.
LEMMA PlaneInvKept ==
  ASSUME PlaneInv,
         UNCHANGED <<dev, crtc, kernel, detach, frame>>,
         "committed" \in DOMAIN al', al'.committed = al.committed
  PROVE  PlaneInv'
<1>1. KernelSound'
  BY DEF PlaneInv, KernelSound
<1>2. RecordSound'
  BY DEF PlaneInv, RecordSound, LitPlanes
<1>3. BaselineTrue'
  BY DEF PlaneInv, BaselineTrue
<1>4. FrameWrites'
  BY DEF PlaneInv, FrameWrites
<1>5. QED
  BY <1>1, <1>2, <1>3, <1>4 DEF PlaneInv

\* A frame is built from the record.
LEMMA PlaneInvBuildFrame ==
  ASSUME PlaneSceneAssumption, PlaneInv, BuildFrame
  PROVE  PlaneInv'
<1> DEFINE allocation == AllocateWithCanvas
           asked   == PinsAsked(allocation)
           planned == Planned(allocation, asked)
<1>1. "committed" \in DOMAIN al
  BY DEF PlaneInv, RecordSound
<1>2. /\ UNCHANGED <<dev, crtc, kernel, detach>>
      /\ frame = NoFrame /\ detach = NoDetach
      /\ \/ al' = allocation.al /\ frame' = frame
         \/ FrameBuilt(allocation, asked, planned)
  BY DEF BuildFrame, kernelVars
<1>3. "committed" \in DOMAIN allocation.al /\ allocation.al.committed = al.committed
  BY <1>1, SearchesKeepCommitted
<1>4. /\ \A p \in DOMAIN planned.plan : EntryOK(p, planned.plan[p])
      /\ DOMAIN planned = {"built", "plan", "placed", "composited", "canvas", "pinned",
                           "places", "fast", "tests", "real", "blind", "disables"}
      /\ planned.built = TRUE
  BY <1>1, PlannedOK
<1> HIDE DEF allocation, asked, planned
<1>5. CASE al' = allocation.al /\ frame' = frame
  BY <1>2, <1>3, <1>5, PlaneInvKept
<1>6. CASE FrameBuilt(allocation, asked, planned)
  <2>1. "committed" \in DOMAIN al' /\ al'.committed = al.committed
    BY <1>3, <1>6 DEF FrameBuilt, InvalidateAllocation
  <2>2. frame'.plan = planned.plan
    BY <1>4, <1>6 DEF FrameBuilt
  <2>3. KernelSound'
    BY <1>2 DEF PlaneInv, KernelSound
  <2>4. RecordSound'
    BY <1>2, <2>1 DEF PlaneInv, RecordSound, LitPlanes
  <2>5. BaselineTrue'
    BY <1>2, <2>1 DEF PlaneInv, BaselineTrue
  <2>6. ASSUME NEW p \in DOMAIN planned.plan
        PROVE  /\ TagsOK(planned.plan[p].tags)
               /\ planned.plan[p].tags.crtc = crtc /\ planned.plan[p].tags.fb # NoFb
               /\ planned.plan[p].layer # NoLayer
               /\ p \in DOMAIN kernel =>
                    \A tag \in DOMAIN planned.plan[p].base :
                      tag \in Fields
                        => kernel[p][tag] = Written(dev.planes[p], planned.plan[p].base, tag)
    <3>1. EntryOK(p, planned.plan[p])
      BY <1>4
    <3>2. CASE planned.plan[p].base = NoTags
      BY <3>1, <3>2 DEF EntryOK, NoTags
    <3>3. CASE /\ p \in DOMAIN al.committed
               /\ al.committed[p].layer = planned.plan[p].layer
               /\ al.committed[p].tags = planned.plan[p].base
      BY <3>1, <3>3 DEF EntryOK, PlaneInv, BaselineTrue
    <3>4. QED
      BY <3>1, <3>2, <3>3 DEF EntryOK
  <2>7. FrameWrites'
    BY <1>2, <2>2, <2>6 DEF FrameWrites
  <2>8. QED
    BY <2>3, <2>4, <2>5, <2>7 DEF PlaneInv
<1>7. QED
  BY <1>2, <1>5, <1>6

\* What a plane of the plan has after a commit the kernel took.
LEMMA CommitWrites ==
  ASSUME PlaneInv, frame # NoFrame,
         KernelTakes(dev, kernel, frame.plan, frame.disables, crtc, capacity),
         NEW p \in DOMAIN frame.plan
  PROVE  LET after == AfterCommit(dev, kernel, frame.plan, frame.disables)
         IN /\ p \in DOMAIN kernel /\ p \in PlanesOf(dev, crtc)
            /\ DOMAIN after[p] = Fields
            /\ \A tag \in DOMAIN frame.plan[p].tags :
                 after[p][tag] = Written(dev.planes[p], frame.plan[p].tags, tag)
            /\ after[p].fb = frame.plan[p].tags.fb /\ after[p].fb # NoFb
            /\ after[p].crtc = crtc
<1> DEFINE entry == frame.plan[p]
           after == AfterCommit(dev, kernel, frame.plan, frame.disables)
<1>1. p \in PlanesOf(dev, crtc) /\ p \in DOMAIN kernel /\ DOMAIN kernel[p] = Fields
  BY DEF KernelTakes, PlanesOf, PlaneInv, KernelSound
<1>2. after[p] = EmitLayer(dev.planes[p], kernel[p], entry)
  BY <1>1 DEF AfterCommit
<1>3. /\ TagsOK(entry.tags) /\ entry.tags.crtc = crtc /\ entry.tags.fb # NoFb
      /\ \A tag \in DOMAIN entry.base :
           tag \in Fields => kernel[p][tag] = Written(dev.planes[p], entry.base, tag)
  BY <1>1 DEF PlaneInv, FrameWrites
<1> HIDE DEF after, entry
<1>4. DOMAIN after[p] = Fields
  BY <1>1, <1>2 DEF EmitLayer
<1>5. ASSUME NEW tag \in DOMAIN entry.tags
      PROVE  after[p][tag] = Written(dev.planes[p], entry.tags, tag)
  <2>1. tag \in Fields
    BY <1>3 DEF TagsOK
  <2>2. CASE NeedsWrite(entry, tag)
    BY <1>1, <1>2, <2>1, <2>2 DEF EmitLayer
  <2>3. CASE ~NeedsWrite(entry, tag)
    <3>1. tag \in DOMAIN entry.base /\ entry.base[tag] = entry.tags[tag]
      BY <2>3 DEF NeedsWrite
    <3>2. kernel[p][tag] = Written(dev.planes[p], entry.base, tag)
      BY <1>3, <2>1, <3>1
    <3>3. Written(dev.planes[p], entry.base, tag) = Written(dev.planes[p], entry.tags, tag)
      BY <3>1 DEF Written
    <3>4. QED
      BY <1>1, <1>2, <2>1, <2>3, <3>2, <3>3 DEF EmitLayer
  <2>4. QED
    BY <2>2, <2>3
<1>6. after[p].fb = entry.tags.fb /\ after[p].crtc = entry.tags.crtc
  BY <1>3, <1>5 DEF Written, TagsOK
<1>7. QED
  BY <1>1, <1>3, <1>4, <1>5, <1>6 DEF after, entry

\* And one that is not of the plan.
LEMMA CommitLeaves ==
  ASSUME KernelSound, NEW plan, NEW disables, NEW p \in DOMAIN kernel \ DOMAIN plan
  PROVE  LET after == AfterCommit(dev, kernel, plan, disables)
         IN /\ p \notin disables => after[p] = kernel[p]
            /\ p \in disables => after[p].fb = NoFb /\ after[p].crtc = 0
            /\ DOMAIN after[p] = Fields
BY DEF KernelSound, AfterCommit, EmitDisable, Fields

\* A commit makes its record true.
LEMMA PlaneInvCommitFrame ==
  ASSUME PlaneInv, NEW busy, CommitFrame(busy)
  PROVE  PlaneInv'
<1> DEFINE took == frame.real /\ Answer(busy) = "Ok"
           after == AfterCommit(dev, kernel, frame.plan, frame.disables)
<1>1. /\ frame # NoFrame /\ frame' = NoFrame
      /\ UNCHANGED <<dev, crtc, detach>>
      /\ kernel' = IF took THEN after ELSE kernel
      /\ al' = IF took THEN [al EXCEPT !.committed = RecordCommit(frame.plan)]
               ELSE IF frame.real /\ Answer(busy) = "Rejected" /\ frame.fast
                 THEN InvalidateAllocation(al) ELSE al
  BY DEF CommitFrame
<1>2. "committed" \in DOMAIN al /\ KernelSound
  BY DEF PlaneInv, RecordSound
<1>3. FrameWrites'
  BY <1>1 DEF FrameWrites
<1>4. CASE ~took
  <2>1. kernel' = kernel /\ "committed" \in DOMAIN al' /\ al'.committed = al.committed
    BY <1>1, <1>2, <1>4 DEF InvalidateAllocation
  <2> HIDE DEF took
  <2>2. KernelSound'
    BY <1>1, <2>1 DEF PlaneInv, KernelSound
  <2>3. RecordSound'
    BY <1>1, <2>1 DEF PlaneInv, RecordSound, LitPlanes
  <2>4. BaselineTrue'
    BY <1>1, <2>1 DEF PlaneInv, BaselineTrue
  <2>5. QED
    BY <1>3, <2>2, <2>3, <2>4 DEF PlaneInv
<1>5. CASE took
  <2>1. KernelTakes(dev, kernel, frame.plan, frame.disables, crtc, capacity)
    BY <1>5 DEF Answer
  <2>2. /\ kernel' = after
        /\ "committed" \in DOMAIN al' /\ al'.committed = RecordCommit(frame.plan)
    BY <1>1, <1>2, <1>5
  <2>3. DOMAIN kernel' = DOMAIN kernel
    BY <2>2 DEF AfterCommit
  <2>4. \A p \in DOMAIN frame.plan :
          /\ p \in DOMAIN kernel /\ p \in PlanesOf(dev, crtc)
          /\ DOMAIN after[p] = Fields
          /\ \A tag \in DOMAIN frame.plan[p].tags :
               after[p][tag] = Written(dev.planes[p], frame.plan[p].tags, tag)
          /\ after[p].fb = frame.plan[p].tags.fb /\ after[p].fb # NoFb
          /\ after[p].crtc = crtc
    BY <1>1, <2>1, CommitWrites
  <2>5. \A p \in DOMAIN kernel \ DOMAIN frame.plan :
          /\ p \notin frame.disables => after[p] = kernel[p]
          /\ p \in frame.disables => after[p].fb = NoFb /\ after[p].crtc = 0
          /\ DOMAIN after[p] = Fields
    BY <1>2, CommitLeaves
  <2> HIDE DEF after, took
  <2>6. KernelSound'
    BY <1>1, <1>2, <2>2, <2>3, <2>4, <2>5 DEF KernelSound
  <2>7. /\ DOMAIN al'.committed = DOMAIN frame.plan
        /\ \A p \in DOMAIN frame.plan :
             /\ {"layer", "tags"} \subseteq DOMAIN al'.committed[p]
             /\ al'.committed[p].tags = frame.plan[p].tags
    BY <2>2 DEF RecordCommit
  <2>8. detach' = NoDetach
    BY <1>1 DEF PlaneInv, FrameWrites
  <2>9. \A p \in DOMAIN frame.plan :
          TagsOK(frame.plan[p].tags) /\ frame.plan[p].tags.fb # NoFb
    BY <1>1 DEF PlaneInv, FrameWrites
  <2>10. RecordSound'
    BY <1>1, <2>2, <2>4, <2>7, <2>8, <2>9 DEF RecordSound
  <2>11. BaselineTrue'
    BY <1>1, <2>2, <2>4, <2>7 DEF BaselineTrue
  <2>12. QED
    BY <1>3, <2>6, <2>10, <2>11 DEF PlaneInv
<1>6. QED
  BY <1>4, <1>5

\* A layer removed is forgotten, its plane is not.
LEMMA PlaneInvRemoveLayer ==
  ASSUME PlaneInv, NEW i \in Slots, RemoveLayer(i)
  PROVE  PlaneInv'
<1>1. UNCHANGED <<dev, crtc, kernel, detach, frame>> /\ al' = ForgetLayer(al, IdOf(i))
  BY DEF RemoveLayer, Edited, kernelVars
<1>2. "committed" \in DOMAIN al
  BY DEF PlaneInv, RecordSound
<1>3. /\ "committed" \in DOMAIN al' /\ DOMAIN al'.committed = DOMAIN al.committed
      /\ \A p \in DOMAIN al.committed :
           al'.committed[p] = IF al.committed[p].layer = IdOf(i)
                                THEN [al.committed[p] EXCEPT !.layer = NoLayer]
                                ELSE al.committed[p]
  BY <1>1, <1>2 DEF ForgetLayer
<1>4. \A p \in DOMAIN al.committed :
        {"layer", "tags"} \subseteq DOMAIN al.committed[p]
  BY DEF PlaneInv, RecordSound
<1>5. \A p \in DOMAIN al.committed :
        /\ al'.committed[p].tags = al.committed[p].tags
        /\ {"layer", "tags"} \subseteq DOMAIN al'.committed[p]
        /\ al'.committed[p].layer \in {NoLayer, al.committed[p].layer}
  BY <1>3, <1>4
<1>6. KernelSound'
  BY <1>1 DEF PlaneInv, KernelSound
<1>7. RecordSound'
  BY <1>1, <1>3, <1>5 DEF PlaneInv, RecordSound, LitPlanes
<1>8. BaselineTrue'
  BY <1>1, <1>3, <1>5 DEF PlaneInv, BaselineTrue
<1>9. FrameWrites'
  BY <1>1 DEF PlaneInv, FrameWrites
<1>10. QED
  BY <1>6, <1>7, <1>8, <1>9 DEF PlaneInv

\* The scene goes to a CRTC and starts from nothing there.
LEMMA PlaneInvRebind ==
  ASSUME PlaneInv, NEW c \in Crtcs, Rebind(c)
  PROVE  PlaneInv'
<1>1. /\ UNCHANGED <<dev, kernel>> /\ frame' = NoFrame /\ crtc' = c
      /\ al' = NewAllocator /\ detach' = Left(c, LitPlanes(al))
  BY DEF Rebind, ReboundTo, Turned, TurnedAgain, kernelVars
<1>2. DOMAIN al'.committed = {} /\ "committed" \in DOMAIN al'
  BY <1>1 DEF NewAllocator
<1>3. KernelSound'
  BY <1>1 DEF PlaneInv, KernelSound
<1>4. detach' # NoDetach => detach'.planes # {}
  BY <1>1 DEF Left, PlaneInv, RecordSound
<1>5. RecordSound'
  BY <1>2, <1>4 DEF RecordSound, LitPlanes
<1>6. BaselineTrue' /\ FrameWrites'
  BY <1>1, <1>2 DEF BaselineTrue, FrameWrites
<1>7. QED
  BY <1>3, <1>5, <1>6 DEF PlaneInv

\* The CRTC left goes off while nothing is recorded of the other.
LEMMA PlaneInvCommitDetach ==
  ASSUME PlaneInv, CommitDetach
  PROVE  PlaneInv'
<1>1. /\ UNCHANGED <<dev, crtc, al, frame>> /\ detach # NoDetach /\ detach' = NoDetach
      /\ kernel' = [p \in DOMAIN kernel |->
                      IF p \in detach.planes THEN EmitDisable(kernel[p]) ELSE kernel[p]]
  BY DEF CommitDetach
<1>2. DOMAIN al.committed = {} /\ "committed" \in DOMAIN al /\ frame = NoFrame
  BY <1>1 DEF PlaneInv, RecordSound, FrameWrites, LitPlanes
<1>3. KernelSound'
  <2>1. \A p \in DOMAIN kernel : DOMAIN kernel[p] = Fields
    BY DEF PlaneInv, KernelSound
  <2>2. \A p \in DOMAIN kernel : DOMAIN kernel'[p] = Fields
                                 /\ (kernel'[p] = kernel[p] \/ kernel'[p].fb = NoFb)
    BY <1>1, <2>1 DEF EmitDisable, Fields
  <2>3. QED
    BY <1>1, <2>2 DEF PlaneInv, KernelSound
<1>4. RecordSound' /\ BaselineTrue' /\ FrameWrites'
  BY <1>1, <1>2 DEF RecordSound, BaselineTrue, FrameWrites
<1>5. QED
  BY <1>3, <1>4 DEF PlaneInv

\* Back from another master the scene starts from nothing, too.
LEMMA PlaneInvRegainMaster ==
  ASSUME PlaneInv, NEW lit \in ForeignFrames, RegainMaster(lit)
  PROVE  PlaneInv'
<1>1. /\ UNCHANGED <<dev, crtc, detach>> /\ frame' = NoFrame
      /\ MayLight(dev, lit) /\ kernel' = ForeignKernel(dev, lit) /\ al' = NewAllocator
  BY DEF RegainMaster
<1>2. DOMAIN al'.committed = {} /\ "committed" \in DOMAIN al'
  BY <1>1 DEF NewAllocator
<1>3. KernelSound'
  BY <1>1 DEF PlaneInv, KernelSound, ForeignKernel, MayLight, Off, Fields, NoFb, Foreign
<1>4. RecordSound'
  BY <1>1, <1>2 DEF PlaneInv, RecordSound, LitPlanes
<1>5. BaselineTrue' /\ FrameWrites'
  BY <1>1, <1>2 DEF BaselineTrue, FrameWrites
<1>6. QED
  BY <1>3, <1>4, <1>5 DEF PlaneInv

\* The steps that leave kernel and record alone.
Aside ==
  \/ \E d \in Displays : AddLayer(d)
  \/ \E i \in Slots, d \in Displays : SetDisplay(i, d)
  \/ \E i \in Slots : SetForceComposited(i)
  \/ \E i \in Slots, p \in DOMAIN dev.planes : SetPinnedPlane(i, p)
  \/ LoseMaster
  \/ \E n \in Capacities : KernelChanges(n)

\* What they do leave alone.
LEMMA AsideUnchanged ==
  ASSUME Aside \/ UNCHANGED vars
  PROVE  UNCHANGED <<dev, crtc, kernel, detach, frame, al, planesUnknown, unswept, forgot>>
BY DEF Aside, vars, kernelVars, AddLayer, SetDisplay, SetForceComposited, SetPinnedPlane,
       LoseMaster, KernelChanges, Edited, Turned

\* Every step keeps kernel and record in agreement.
LEMMA PlaneInvNext ==
  ASSUME PlaneSceneAssumption, PlaneInv, [Next]_vars
  PROVE  PlaneInv'
<1>1. CASE Aside \/ UNCHANGED vars
  <2>1. "committed" \in DOMAIN al
    BY DEF PlaneInv, RecordSound
  <2>2. QED
    BY <1>1, <2>1, AsideUnchanged, PlaneInvKept
<1>2. CASE BuildFrame
  BY <1>2, PlaneInvBuildFrame
<1>3. CASE \E busy \in BOOLEAN : CommitFrame(busy)
  BY <1>3, PlaneInvCommitFrame
<1>4. CASE \E i \in Slots : RemoveLayer(i)
  BY <1>4, PlaneInvRemoveLayer
<1>5. CASE \E c \in Crtcs : Rebind(c)
  BY <1>5, PlaneInvRebind
<1>6. CASE CommitDetach
  BY <1>6, PlaneInvCommitDetach
<1>7. CASE \E lit \in ForeignFrames : RegainMaster(lit)
  BY <1>7, PlaneInvRegainMaster
<1>8. QED
  BY <1>1, <1>2, <1>3, <1>4, <1>5, <1>6, <1>7 DEF Next, Aside

\* The kernel's planes and the allocator's record of them always agree.
THEOREM PlanesAgree == Spec => []PlaneInv
<1>1. Init => PlaneInv
  BY PlaneSceneAssumption, PlaneInvInit
<1>2. PlaneInv /\ [Next]_vars => PlaneInv'
  BY PlaneSceneAssumption, PlaneInvNext
<1>3. QED
  BY <1>1, <1>2, PTL DEF Spec

\* A diff is written against what the kernel has: no property a frame asks for
\* is left out because the allocator wrongly believes it written (scene.rs,
\* the plan's baselines; allocator.rs, committed).
THEOREM BaselinesAreTrue == Spec => []BaselineTrue
BY PlanesAgree, PTL DEF PlaneInv

-----------------------------------------------------------------------------
(* What is to be turned off.                                               *)

\* All a step leaves of it that changes none of what it is about.
LEMMA SweepInvKept ==
  ASSUME SweepInv,
         UNCHANGED <<dev, crtc, kernel, frame, planesUnknown, unswept>>,
         al'.committed = al.committed
  PROVE  SweepInv'
BY DEF SweepInv, SweptIsOff, FrameSweeps, Sweeps, LitPlanes

\* A frame is built to turn off what it does not show.
LEMMA SweepInvBuildFrame ==
  ASSUME PlaneSceneAssumption, ~ShowEmptied, PlaneInv, SweepInv, BuildFrame
  PROVE  SweepInv'
<1> DEFINE allocation == AllocateWithCanvas
           asked   == PinsAsked(allocation)
           planned == Planned(allocation, asked)
           candidates == CandidateSet(dev, crtc)
<1>1. "committed" \in DOMAIN al
  BY DEF PlaneInv, RecordSound
<1>2. /\ UNCHANGED <<dev, crtc, kernel, planesUnknown, unswept>>
      /\ Occupied # {} \/ LitPlanes(al) = {}
      /\ \/ al' = allocation.al /\ frame' = frame
         \/ FrameBuilt(allocation, asked, planned)
  BY DEF BuildFrame, kernelVars
<1>3. "committed" \in DOMAIN allocation.al /\ allocation.al.committed = al.committed
  BY <1>1, SearchesKeepCommitted
<1>4. /\ planned.places => Occupied # {}
      /\ DOMAIN planned = {"built", "plan", "placed", "composited", "canvas", "pinned",
                           "places", "fast", "tests", "real", "blind", "disables"}
  BY <1>1, PlannedOK
<1> HIDE DEF allocation, asked, planned
<1>5. CASE al' = allocation.al /\ frame' = frame
  BY <1>2, <1>3, <1>5, SweepInvKept
<1>6. CASE FrameBuilt(allocation, asked, planned)
  <2>1. LitPlanes(al') = LitPlanes(al)
    BY <1>3, <1>6 DEF FrameBuilt, InvalidateAllocation, LitPlanes
  <2>2. PICK readable \in BOOLEAN :
          /\ planesUnknown \/ readable
          /\ frame'.plan = planned.plan /\ frame'.places = planned.places
          /\ frame'.blind = ~readable
          /\ frame'.disables = Disables(planned, readable)
    BY <1>4, <1>6 DEF FrameBuilt
  <2> DEFINE own     == {p \in candidates : ~PlaneIsOff(al, p)}
             lit     == IF readable THEN Lit(kernel, crtc) ELSE candidates
             foreign == IF planesUnknown /\ planned.places THEN candidates \cap lit ELSE {}
  <2>3. frame'.disables = IF Occupied = {} THEN {} ELSE (own \cup foreign) \ DOMAIN frame'.plan
    BY <2>2 DEF Disables
  <2>4. own = candidates \cap LitPlanes(al)
    BY DEF PlaneIsOff, LitPlanes
  <2>5. candidates \cap LitPlanes(al) \subseteq DOMAIN frame'.plan \cup frame'.disables
    BY <1>2, <2>3, <2>4
  <2>6. ASSUME planesUnknown, frame'.places
        PROVE  candidates \cap Lit(kernel, crtc) \subseteq DOMAIN frame'.plan \cup frame'.disables
    BY <1>4, <2>2, <2>3, <2>6
  <2>7. ASSUME ~planesUnknown, ~unswept
        PROVE  candidates \cap Lit(kernel, crtc) \subseteq DOMAIN frame'.plan \cup frame'.disables
    BY <2>5, <2>7 DEF SweepInv, SweptIsOff
  <2>8. ASSUME readable, NEW p \in frame'.disables \cap DOMAIN kernel
        PROVE  kernel[p].crtc = crtc
    <3>1. p \in LitPlanes(al) \/ p \in Lit(kernel, crtc)
      BY <2>3, <2>4, <2>8
    <3>2. QED
      BY <3>1 DEF LitPlanes, Lit, PlaneInv, BaselineTrue
  <2> HIDE DEF candidates
  <2>9. FrameSweeps'
    BY <1>2, <2>1, <2>2, <2>5, <2>6, <2>7, <2>8 DEF FrameSweeps, Sweeps, candidates
  <2>10. SweptIsOff'
    BY <1>2, <2>1 DEF SweepInv, SweptIsOff
  <2>11. QED
    BY <2>9, <2>10 DEF SweepInv
<1>7. QED
  BY <1>2, <1>5, <1>6

\* What is lit after a commit: what the plan shows, and of the rest what was
\* lit and not turned off.
LEMMA LitAfterCommit ==
  ASSUME PlaneInv, frame # NoFrame,
         KernelTakes(dev, kernel, frame.plan, frame.disables, crtc, capacity),
         NEW p \in DOMAIN kernel,
         AfterCommit(dev, kernel, frame.plan, frame.disables)[p].fb # NoFb
  PROVE  \/ p \in DOMAIN frame.plan
         \/ /\ p \notin DOMAIN frame.plan \cup frame.disables
            /\ AfterCommit(dev, kernel, frame.plan, frame.disables)[p] = kernel[p]
BY CommitLeaves DEF PlaneInv

\* So a frame that sweeps leaves only its own planes lit.
LEMMA SweepInvCommitFrame ==
  ASSUME PlaneInv, SweepInv, NEW busy, CommitFrame(busy)
  PROVE  SweepInv'
<1> DEFINE took == frame.real /\ Answer(busy) = "Ok"
           after == AfterCommit(dev, kernel, frame.plan, frame.disables)
<1>1. /\ frame # NoFrame /\ frame' = NoFrame
      /\ UNCHANGED <<dev, crtc>>
      /\ kernel' = IF took THEN after ELSE kernel
      /\ al' = IF took THEN [al EXCEPT !.committed = RecordCommit(frame.plan)]
               ELSE IF frame.real /\ Answer(busy) = "Rejected" /\ frame.fast
                 THEN InvalidateAllocation(al) ELSE al
      /\ planesUnknown' = (planesUnknown /\ ~(took /\ DOMAIN frame.plan # {}))
      /\ unswept' = IF took /\ planesUnknown /\ DOMAIN frame.plan # {}
                      THEN ~frame.places ELSE unswept
  BY DEF CommitFrame
<1>2. "committed" \in DOMAIN al
  BY DEF PlaneInv, RecordSound
<1>3. FrameSweeps'
  BY <1>1 DEF FrameSweeps
<1>4. CASE ~took
  <2>1. /\ kernel' = kernel /\ LitPlanes(al') = LitPlanes(al)
        /\ (planesUnknown' <=> planesUnknown) /\ unswept' = unswept
    BY <1>1, <1>2, <1>4 DEF InvalidateAllocation, LitPlanes
  <2> HIDE DEF took
  <2>2. SweptIsOff'
    BY <1>1, <2>1 DEF SweepInv, SweptIsOff
  <2>3. QED
    BY <1>3, <2>2 DEF SweepInv
<1>5. CASE took
  <2>1. KernelTakes(dev, kernel, frame.plan, frame.disables, crtc, capacity)
    BY <1>5 DEF Answer
  <2>2. kernel' = after /\ LitPlanes(al') = DOMAIN frame.plan
    BY <1>1, <1>2, <1>5 DEF LitPlanes, RecordCommit
  <2>3. DOMAIN kernel' = DOMAIN kernel
    BY <2>2 DEF AfterCommit
  <2>4. ASSUME ~unswept', ~planesUnknown' PROVE Sweeps(frame)
    BY <1>1, <1>5, <2>4 DEF Sweeps
  <2>5. ASSUME Sweeps(frame), NEW p \in CandidateSet(dev, crtc) \cap Lit(kernel', crtc)
        PROVE  p \in DOMAIN frame.plan
    <3>1. p \in DOMAIN kernel /\ after[p].fb # NoFb /\ after[p].crtc = crtc
      BY <2>2, <2>3, <2>5 DEF Lit
    <3>2. CASE p \notin DOMAIN frame.plan \cup frame.disables /\ after[p] = kernel[p]
      <4>1. p \in Lit(kernel, crtc)
        BY <3>1, <3>2 DEF Lit
      <4>2. QED
        BY <1>1, <2>5, <3>2, <4>1 DEF SweepInv, FrameSweeps
    <3>3. QED
      BY <1>1, <2>1, <3>1, <3>2, LitAfterCommit
  <2> HIDE DEF took, after
  <2>6. SweptIsOff'
    BY <1>1, <2>2, <2>4, <2>5 DEF SweptIsOff
  <2>7. QED
    BY <1>3, <2>6 DEF SweepInv
<1>6. QED
  BY <1>4, <1>5

\* Every step leaves known what is to be turned off.
LEMMA SweepInvNext ==
  ASSUME PlaneSceneAssumption, ~ShowEmptied, PlaneInv, SweepInv, [Next]_vars
  PROVE  SweepInv'
<1>1. CASE Aside \/ UNCHANGED vars
  <2>1. UNCHANGED <<dev, crtc, kernel, frame, planesUnknown, unswept, al>>
    BY <1>1, AsideUnchanged
  <2>2. QED
    BY <2>1, SweepInvKept
<1>2. CASE BuildFrame
  BY <1>2, SweepInvBuildFrame
<1>3. CASE \E busy \in BOOLEAN : CommitFrame(busy)
  BY <1>3, SweepInvCommitFrame
<1>4. CASE \E i \in Slots : RemoveLayer(i)
  <2>1. PICK i \in Slots : RemoveLayer(i)
    BY <1>4
  <2>2. /\ UNCHANGED <<dev, crtc, kernel, frame, planesUnknown, unswept>>
        /\ al' = ForgetLayer(al, IdOf(i))
    BY <2>1 DEF RemoveLayer, Edited, kernelVars
  <2>3. "committed" \in DOMAIN al
    BY DEF PlaneInv, RecordSound
  <2>4. LitPlanes(al') = LitPlanes(al)
    BY <2>2, <2>3 DEF ForgetLayer, LitPlanes
  <2>5. QED
    BY <2>2, <2>4 DEF SweepInv, SweptIsOff, FrameSweeps, Sweeps
<1>5. CASE (\E c \in Crtcs : Rebind(c)) \/ (\E lit \in ForeignFrames : RegainMaster(lit))
  <2>1. planesUnknown' = TRUE /\ frame' = NoFrame
    BY <1>5 DEF Rebind, ReboundTo, RegainMaster
  <2>2. QED
    BY <2>1 DEF SweepInv, SweptIsOff, FrameSweeps
<1>6. CASE CommitDetach
  <2>1. /\ UNCHANGED <<dev, crtc, al, frame, planesUnknown, unswept>> /\ detach # NoDetach
        /\ kernel' = [p \in DOMAIN kernel |->
                        IF p \in detach.planes THEN EmitDisable(kernel[p]) ELSE kernel[p]]
    BY <1>6 DEF CommitDetach
  <2>2. frame = NoFrame
    BY <2>1 DEF PlaneInv, FrameWrites
  <2>3. Lit(kernel', crtc) \subseteq Lit(kernel, crtc)
    <3>1. ASSUME NEW p \in Lit(kernel', crtc) PROVE p \in Lit(kernel, crtc)
      <4>1. p \in DOMAIN kernel /\ kernel'[p].fb # NoFb /\ kernel'[p].crtc = crtc
        BY <2>1, <3>1 DEF Lit
      <4>2. "fb" \in DOMAIN kernel[p]
        BY <4>1 DEF PlaneInv, KernelSound, Fields
      <4>3. kernel'[p] = kernel[p]
        BY <2>1, <4>1, <4>2 DEF EmitDisable
      <4>4. QED
        BY <4>1, <4>3 DEF Lit
    <3>2. QED
      BY <3>1
  <2>4. QED
    BY <2>1, <2>2, <2>3 DEF SweepInv, SweptIsOff, FrameSweeps
<1>7. QED
  BY <1>1, <1>2, <1>3, <1>4, <1>5, <1>6 DEF Next, Aside

\* Where no caller commits a scene it has emptied, a plane of the CRTC that the
\* allocator takes for off is off: no plane stays lit that no frame disables
\* (scene.rs, force_disables and foreign planes).
THEOREM SweptPlanesAreOff ==
  ASSUME ~ShowEmptied
  PROVE  Spec => []SweptIsOff
<1>1. Init => PlaneInv /\ SweepInv
  BY PlaneSceneAssumption, PlaneInvInit DEF Init, NoFrame, SweepInv, SweptIsOff, FrameSweeps
<1>2. PlaneInv /\ SweepInv /\ [Next]_vars => (PlaneInv /\ SweepInv)'
  BY PlaneSceneAssumption, PlaneInvNext, SweepInvNext
<1>3. PlaneInv /\ SweepInv => SweptIsOff
  BY DEF SweepInv
<1>4. QED
  BY <1>1, <1>2, <1>3, PTL DEF Spec

-----------------------------------------------------------------------------
(* What is left lit.                                                       *)

\* Every plane of the CRTC but a cursor plane is the scene's.
LEMMA AllCandidates == PlanesOf(dev, crtc) \ CursorPlanes \subseteq CandidateSet(dev, crtc)
BY DEF CandidateSet, CursorPlanes, PlanesOf

\* What is lit on the CRTC can be.
LEMMA LitArePlanes ==
  ASSUME PlaneInv
  PROVE  /\ Lit(kernel, crtc) \subseteq PlanesOf(dev, crtc)
         /\ LitPlanes(al) \subseteq Lit(kernel, crtc)
BY DEF PlaneInv, KernelSound, RecordSound, BaselineTrue, Lit, LitPlanes, PlanesOf

\* A commit leaves of the planes of the CRTC only its own lit, if it sweeps, and
\* else only its own and strangers'.
LEMMA OwnKnownCommitFrame ==
  ASSUME PlaneInv, SweepInv, OwnKnown, NEW busy, CommitFrame(busy)
  PROVE  OwnKnown'
<1> DEFINE took == frame.real /\ Answer(busy) = "Ok"
           after == AfterCommit(dev, kernel, frame.plan, frame.disables)
<1>1. /\ frame # NoFrame
      /\ UNCHANGED <<dev, crtc, detach>>
      /\ kernel' = IF took THEN after ELSE kernel
      /\ al' = IF took THEN [al EXCEPT !.committed = RecordCommit(frame.plan)]
               ELSE IF frame.real /\ Answer(busy) = "Rejected" /\ frame.fast
                 THEN InvalidateAllocation(al) ELSE al
      /\ forgot' = IF took /\ planesUnknown /\ frame.places THEN forgot \ {crtc} ELSE forgot
  BY DEF CommitFrame
<1>2. "committed" \in DOMAIN al
  BY DEF PlaneInv, RecordSound
<1>3. CASE ~took
  <2>1. kernel' = kernel /\ LitPlanes(al') = LitPlanes(al) /\ forgot' = forgot
    BY <1>1, <1>2, <1>3 DEF InvalidateAllocation, LitPlanes
  <2> HIDE DEF took
  <2>2. QED
    BY <1>1, <2>1 DEF OwnKnown, CursorPlanes
<1>4. CASE took
  <2>1. KernelTakes(dev, kernel, frame.plan, frame.disables, crtc, capacity)
    BY <1>4 DEF Answer
  <2>2. kernel' = after /\ LitPlanes(al') = DOMAIN frame.plan
    BY <1>1, <1>2, <1>4 DEF LitPlanes, RecordCommit
  <2>3. forgot' = IF planesUnknown /\ frame.places THEN forgot \ {crtc} ELSE forgot
    BY <1>1, <1>4
  <2>4. DOMAIN kernel' = DOMAIN kernel
    BY <2>2 DEF AfterCommit
  <2>5. detach.planes = {}
    BY <1>1 DEF PlaneInv, FrameWrites, NoDetach
  <2> HIDE DEF took
  <2>6. ASSUME NEW p \in DOMAIN kernel \ CursorPlanes, after[p].fb \notin {NoFb, Foreign}
        PROVE  \/ after[p].crtc \in forgot'
               \/ after[p].crtc = crtc /\ p \in DOMAIN frame.plan
    <3>1. CASE p \in DOMAIN frame.plan
      BY <1>1, <2>1, <3>1, CommitWrites
    <3>2. CASE p \notin DOMAIN frame.plan \cup frame.disables /\ after[p] = kernel[p]
      <4>1. kernel[p].crtc \in forgot \/ (kernel[p].crtc = crtc /\ p \in LitPlanes(al))
        BY <2>5, <2>6, <3>2 DEF OwnKnown
      <4>2. p \in Lit(kernel, crtc) => p \in CandidateSet(dev, crtc)
        BY AllCandidates, LitArePlanes
      <4>3. ~(kernel[p].crtc = crtc /\ p \in LitPlanes(al))
        BY <1>1, <3>2, <4>2, LitArePlanes DEF SweepInv, FrameSweeps
      <4>4. CASE kernel[p].crtc = crtc
        <5>1. p \in Lit(kernel, crtc)
          BY <2>6, <3>2, <4>4 DEF Lit
        <5>2. ~Sweeps(frame)
          BY <1>1, <3>2, <4>2, <5>1 DEF SweepInv, FrameSweeps
        <5>3. forgot' = forgot
          BY <2>3, <5>2 DEF Sweeps
        <5>4. QED
          BY <3>2, <4>1, <4>3, <5>3
      <4>5. CASE kernel[p].crtc # crtc
        BY <2>3, <3>2, <4>1, <4>3, <4>5
      <4>6. QED
        BY <4>4, <4>5
    <3>3. QED
      BY <1>1, <2>1, <2>6, <3>1, <3>2, LitAfterCommit
  <2> HIDE DEF after
  <2>7. QED
    BY <1>1, <2>2, <2>4, <2>6 DEF OwnKnown, CursorPlanes
<1>5. QED
  BY <1>3, <1>4

\* A scene that moves notes what it leaves, or has noted it.
LEMMA OwnKnownRebind ==
  ASSUME PlaneInv, OwnKnown, NEW c \in Crtcs, Rebind(c)
  PROVE  OwnKnown'
<1>1. /\ UNCHANGED <<dev, kernel>> /\ crtc' = c /\ detach' = Left(c, LitPlanes(al))
      /\ forgot' = IF c = crtc /\ LitPlanes(al) # {} THEN forgot \cup {crtc} ELSE forgot
  BY DEF Rebind, ReboundTo, Turned, TurnedAgain, kernelVars
<1>2. ASSUME NEW p \in DOMAIN kernel \ CursorPlanes, kernel[p].fb \notin {NoFb, Foreign}
      PROVE  p \in detach'.planes \/ kernel[p].crtc \in forgot'
  <2>1. CASE p \in detach.planes
    <3>1. detach # NoDetach
      BY <2>1 DEF NoDetach
    <3>2. QED
      BY <1>1, <2>1, <3>1 DEF Left
  <2>2. CASE kernel[p].crtc \in forgot
    BY <1>1, <2>2
  <2>3. CASE kernel[p].crtc = crtc /\ p \in LitPlanes(al)
    <3>1. detach = NoDetach
      BY <2>3 DEF PlaneInv, RecordSound
    <3>2. QED
      BY <1>1, <2>3, <3>1 DEF Left
  <2>4. QED
    BY <1>2, <2>1, <2>2, <2>3 DEF OwnKnown
<1>3. QED
  BY <1>1, <1>2 DEF OwnKnown, CursorPlanes

\* Every step leaves known what the scene has lit.
LEMMA OwnKnownNext ==
  ASSUME PlaneSceneAssumption, PlaneInv, SweepInv, OwnKnown, [Next]_vars
  PROVE  OwnKnown'
<1>1. "committed" \in DOMAIN al
  BY DEF PlaneInv, RecordSound
<1>2. CASE Aside \/ UNCHANGED vars
  <2>1. UNCHANGED <<dev, crtc, kernel, detach, forgot, al>>
    BY <1>2, AsideUnchanged
  <2>2. QED
    BY <2>1 DEF OwnKnown, CursorPlanes
<1>3. CASE BuildFrame
  <2> DEFINE allocation == AllocateWithCanvas
             asked == PinsAsked(allocation)
  <2>1. /\ UNCHANGED <<dev, crtc, kernel, detach, forgot>>
        /\ \/ al' = allocation.al
           \/ FrameBuilt(allocation, asked, Planned(allocation, asked))
    BY <1>3 DEF BuildFrame, kernelVars
  <2>2. "committed" \in DOMAIN allocation.al /\ allocation.al.committed = al.committed
    BY <1>1, SearchesKeepCommitted
  <2> HIDE DEF allocation, asked
  <2>3. LitPlanes(al') = LitPlanes(al)
    BY <2>1, <2>2 DEF FrameBuilt, InvalidateAllocation, LitPlanes
  <2>4. QED
    BY <2>1, <2>3 DEF OwnKnown, CursorPlanes
<1>4. CASE \E busy \in BOOLEAN : CommitFrame(busy)
  BY <1>4, OwnKnownCommitFrame
<1>5. CASE \E i \in Slots : RemoveLayer(i)
  <2>1. UNCHANGED <<dev, crtc, kernel, detach, forgot>> /\ \E i \in Slots : al' = ForgetLayer(al, IdOf(i))
    BY <1>5 DEF RemoveLayer, Edited, kernelVars
  <2>2. LitPlanes(al') = LitPlanes(al)
    BY <1>1, <2>1 DEF ForgetLayer, LitPlanes
  <2>3. QED
    BY <2>1, <2>2 DEF OwnKnown, CursorPlanes
<1>6. CASE \E c \in Crtcs : Rebind(c)
  BY <1>6, OwnKnownRebind
<1>7. CASE CommitDetach
  <2>1. /\ UNCHANGED <<dev, crtc, al, forgot>>
        /\ kernel' = [p \in DOMAIN kernel |->
                        IF p \in detach.planes THEN EmitDisable(kernel[p]) ELSE kernel[p]]
    BY <1>7 DEF CommitDetach
  <2>2. \A p \in DOMAIN kernel : "fb" \in DOMAIN kernel[p]
    BY DEF PlaneInv, KernelSound, Fields
  <2>3. \A p \in DOMAIN kernel :
          \/ kernel'[p].fb = NoFb
          \/ p \notin detach.planes /\ kernel'[p] = kernel[p]
    BY <2>1, <2>2 DEF EmitDisable
  <2>4. DOMAIN kernel' = DOMAIN kernel
    BY <2>1
  <2>5. QED
    BY <2>1, <2>3, <2>4 DEF OwnKnown, CursorPlanes
<1>8. CASE \E lit \in ForeignFrames : RegainMaster(lit)
  <2>1. PICK lit \in ForeignFrames : kernel' = ForeignKernel(dev, lit)
    BY <1>8 DEF RegainMaster
  <2>2. \A p \in DOMAIN kernel' : kernel'[p].fb \in {NoFb, Foreign}
    BY <2>1 DEF ForeignKernel, Off
  <2>3. QED
    BY <2>2 DEF OwnKnown
<1>9. QED
  BY <1>2, <1>3, <1>4, <1>5, <1>6, <1>7, <1>8 DEF Next, Aside

\* The invariants together.
SceneInv == PlaneInv /\ SweepInv /\ OwnKnown

\* They always hold.
LEMMA SceneInvariant ==
  ASSUME ~ShowEmptied
  PROVE  Spec => []SceneInv
<1>1. ASSUME Init PROVE SceneInv
  <2>1. PlaneInv
    BY <1>1, PlaneSceneAssumption, PlaneInvInit
  <2>2. SweepInv
    BY <1>1 DEF Init, NoFrame, SweepInv, SweptIsOff, FrameSweeps
  <2>3. OwnKnown
    <3>1. PICK lit \in ForeignFrames : kernel = ForeignKernel(dev, lit)
      BY <1>1 DEF Init
    <3>2. \A p \in DOMAIN kernel : kernel[p].fb \in {NoFb, Foreign}
      BY <3>1 DEF ForeignKernel, Off
    <3>3. QED
      BY <3>2 DEF OwnKnown
  <2>4. QED
    BY <2>1, <2>2, <2>3 DEF SceneInv
<1>2. SceneInv /\ [Next]_vars => SceneInv'
  BY PlaneSceneAssumption, PlaneInvNext, SweepInvNext, OwnKnownNext DEF SceneInv
<1>3. QED
  BY <1>1, <1>2, PTL DEF Spec

\* Once a detach has landed nothing of the scene is lit on a CRTC it has left,
\* however it was rebound, edited and committed in between, but for cursor planes
\* and a CRTC it was rebound to in place (scene.rs, rebind and the detach commit).
THEOREM NothingLeftLit ==
  ASSUME ~ShowEmptied
  PROVE  Spec => []LeftNothingLit
<1>1. ASSUME SceneInv PROVE LeftNothingLit
  <2>1. detach = NoDetach => detach.planes = {}
    BY DEF NoDetach
  <2>2. QED
    BY <1>1, <2>1 DEF SceneInv, OwnKnown, LeftNothingLit
<1>2. QED
  BY <1>1, SceneInvariant, PTL

-----------------------------------------------------------------------------
(* PlaneScene implements PlaneDisplay.                                     *)

\* A commit the kernel takes shows what was wanted on its CRTC, and changes no
\* other unless it was built blind.
LEMMA CommitShows ==
  ASSUME PlaneSceneAssumption, SceneInv, NEW busy, CommitFrame(busy),
         frame.real, Answer(busy) = "Ok"
  PROVE  Display!Show
<1> DEFINE after == AfterCommit(dev, kernel, frame.plan, frame.disables)
<1>1. /\ frame # NoFrame /\ frame' = NoFrame /\ kernel' = after /\ master
      /\ UNCHANGED <<dev, crtc, detach, master>>
      /\ KernelTakes(dev, kernel, frame.plan, frame.disables, crtc, capacity)
  BY DEF CommitFrame, Answer
<1>2. /\ PlaneInv /\ SweepInv /\ KernelSound /\ crtc \in Crtcs
      /\ DOMAIN kernel' = DOMAIN kernel
  BY <1>1 DEF SceneInv, PlaneInv, KernelSound, AfterCommit
<1>3. \A p \in DOMAIN frame.plan :
        /\ p \in DOMAIN kernel
        /\ \A tag \in DOMAIN frame.plan[p].tags :
             after[p][tag] = Written(dev.planes[p], frame.plan[p].tags, tag)
        /\ after[p].fb # NoFb /\ after[p].crtc = crtc
  BY <1>1, <1>2, CommitWrites
<1>4. \A p \in DOMAIN kernel \ DOMAIN frame.plan :
        /\ p \notin frame.disables => after[p] = kernel[p]
        /\ p \in frame.disables => after[p].fb = NoFb
  BY <1>2, CommitLeaves
<1>5. \A p \in DOMAIN frame.plan : kernel[p].crtc \in {0, crtc}
  BY <1>1, <1>3 DEF KernelTakes, LitElsewhere
<1>6. \A c \in Crtcs : c # 0
  BY DEF PlaneSceneAssumption
<1>7. /\ Wanted # Display!Nothing /\ Wanted' = Display!Nothing
      /\ Wanted.planes = [p \in DOMAIN frame.plan |->
                            [t \in DOMAIN frame.plan[p].tags |->
                               Written(dev.planes[p], frame.plan[p].tags, t)]]
      /\ Wanted.sweeps = Sweeps(frame) /\ Wanted.blind = frame.blind
      /\ Wanted.spares = CursorPlanes
  BY <1>1 DEF Wanted, Display!Nothing, Sweeps
<1>8. /\ Screens = [c \in Crtcs |-> [p \in Lit(kernel, c) |-> kernel[p]]]
      /\ Screens' = [c \in Crtcs |-> [p \in Lit(after, c) |-> after[p]]]
  BY <1>1 DEF Screens
<1> HIDE DEF after
<1>9. ASSUME NEW c \in Crtcs \ {crtc}
      PROVE  \/ Screens'[c] = Screens[c]
             \/ Wanted.blind /\ Display!Blanked(Screens[c], Screens'[c])
  <2>1. ASSUME NEW p \in Lit(after, c)
        PROVE  p \in Lit(kernel, c) /\ after[p] = kernel[p]
    BY <1>1, <1>2, <1>3, <1>4, <2>1 DEF Lit
  <2>2. CASE frame.blind
    BY <1>7, <1>8, <2>1, <2>2 DEF Display!Blanked
  <2>3. CASE ~frame.blind
    <3>1. ASSUME NEW p \in Lit(kernel, c)
          PROVE  p \in Lit(after, c)
      <4>1. p \notin DOMAIN frame.plan
        BY <1>5, <1>6, <3>1 DEF Lit
      <4>2. p \notin frame.disables
        BY <1>1, <1>2, <2>3, <3>1 DEF Lit, SweepInv, FrameSweeps
      <4>3. QED
        BY <1>1, <1>2, <1>4, <3>1, <4>1, <4>2 DEF Lit
    <3>2. Lit(after, c) = Lit(kernel, c)
      BY <2>1, <3>1
    <3>3. QED
      BY <1>8, <2>1, <3>2
  <2>4. QED
    BY <2>2, <2>3
<1>10. Display!Shows(Screens'[crtc], Wanted, Screens[crtc])
  <2>1. DOMAIN frame.plan \subseteq Lit(after, crtc)
    BY <1>1, <1>2, <1>3 DEF Lit
  <2>2. ASSUME NEW p \in Lit(after, crtc) \ DOMAIN frame.plan
        PROVE  /\ ~Sweeps(frame) \/ p \in CursorPlanes
               /\ p \in Lit(kernel, crtc) /\ after[p] = kernel[p]
    <3>1. p \notin frame.disables /\ after[p] = kernel[p] /\ p \in Lit(kernel, crtc)
      BY <1>1, <1>2, <1>4, <2>2 DEF Lit
    <3>2. p \in CandidateSet(dev, crtc) \cup CursorPlanes
      BY <1>2, <3>1, AllCandidates, LitArePlanes
    <3>3. QED
      BY <1>1, <1>2, <2>2, <3>1, <3>2 DEF SweepInv, FrameSweeps
  <2>3. Screens'[crtc] = [p \in Lit(after, crtc) |-> after[p]]
        /\ Screens[crtc] = [p \in Lit(kernel, crtc) |-> kernel[p]]
    BY <1>2, <1>8
  <2>4. \A p \in DOMAIN frame.plan : \A t \in DOMAIN Wanted.planes[p] :
          Screens'[crtc][p][t] = Wanted.planes[p][t]
    BY <1>3, <1>7, <2>1, <2>3
  <2>5. DOMAIN Wanted.planes = DOMAIN frame.plan
    BY <1>7
  <2>6. QED
    <3>1. DOMAIN Screens'[crtc] = Lit(after, crtc) /\ DOMAIN Screens[crtc] = Lit(kernel, crtc)
      BY <2>3
    <3>2. ASSUME NEW p \in DOMAIN Screens'[crtc] \ DOMAIN Wanted.planes
          PROVE  /\ ~Wanted.sweeps \/ p \in Wanted.spares
                 /\ p \in DOMAIN Screens[crtc] /\ Screens'[crtc][p] = Screens[crtc][p]
      <4>1. p \in Lit(after, crtc) \ DOMAIN frame.plan
        BY <2>5, <3>1
      <4>2. /\ ~Sweeps(frame) \/ p \in CursorPlanes
            /\ p \in Lit(kernel, crtc) /\ after[p] = kernel[p]
        BY <2>2, <4>1
      <4>3. Screens'[crtc][p] = after[p] /\ Screens[crtc][p] = kernel[p]
        BY <2>3, <4>1, <4>2
      <4>4. QED
        BY <1>7, <3>1, <4>2, <4>3
    <3>3. DOMAIN Wanted.planes \subseteq DOMAIN Screens'[crtc]
      BY <2>1, <2>5, <3>1
    <3>4. \A p \in DOMAIN Wanted.planes : \A t \in DOMAIN Wanted.planes[p] :
            Screens'[crtc][p][t] = Wanted.planes[p][t]
      BY <2>4, <2>5
    <3>5. QED
      BY <3>2, <3>3, <3>4 DEF Display!Shows
<1>11. detach'.planes = detach.planes
  BY <1>1
<1>12. QED
  BY <1>1, <1>7, <1>9, <1>10, <1>11 DEF Display!Show

\* The planes a scene leaves go off, and only those.
LEMMA DetachBlanks ==
  ASSUME SceneInv, CommitDetach
  PROVE  Display!Blank
<1>1. /\ UNCHANGED <<dev, crtc, frame, master>> /\ master
      /\ detach # NoDetach /\ detach' = NoDetach
      /\ kernel' = [p \in DOMAIN kernel |->
                      IF p \in detach.planes THEN EmitDisable(kernel[p]) ELSE kernel[p]]
  BY DEF CommitDetach
<1>2. frame = NoFrame /\ detach.planes # {} /\ detach'.planes = {}
  BY <1>1 DEF SceneInv, PlaneInv, FrameWrites, RecordSound, NoDetach
<1>3. \A p \in DOMAIN kernel : "fb" \in DOMAIN kernel[p]
  BY DEF SceneInv, PlaneInv, KernelSound, Fields
<1>4. /\ DOMAIN kernel' = DOMAIN kernel
      /\ \A p \in DOMAIN kernel : IF p \in detach.planes THEN kernel'[p].fb = NoFb
                                  ELSE kernel'[p] = kernel[p]
  BY <1>1, <1>3 DEF EmitDisable
<1>5. \A c \in Crtcs : Lit(kernel', c) = Lit(kernel, c) \ detach.planes
  BY <1>4 DEF Lit
<1>6. ASSUME NEW c \in Crtcs
      PROVE  Screens'[c] = [p \in DOMAIN Screens[c] \ detach.planes |-> Screens[c][p]]
  <2>1. /\ Screens[c] = [p \in Lit(kernel, c) |-> kernel[p]]
        /\ Screens'[c] = [p \in Lit(kernel', c) |-> kernel'[p]]
    BY DEF Screens
  <2>2. \A p \in Lit(kernel', c) : kernel'[p] = kernel[p]
    BY <1>4, <1>5 DEF Lit
  <2>3. QED
    BY <1>5, <2>1, <2>2
<1>7. Wanted = Display!Nothing /\ Wanted' = Wanted
  BY <1>1, <1>2 DEF Wanted, Display!Nothing
<1>8. QED
  BY <1>1, <1>2, <1>6, <1>7 DEF Display!Blank

\* Building a frame is wanting it, unless it is a test.
LEMMA BuildWants ==
  ASSUME PlaneSceneAssumption, SceneInv, BuildFrame
  PROVE  Display!Want \/ UNCHANGED Display!vars
<1> DEFINE allocation == AllocateWithCanvas
           asked   == PinsAsked(allocation)
           planned == Planned(allocation, asked)
<1>1. /\ UNCHANGED <<dev, crtc, kernel, detach, master, planesUnknown, unswept>>
      /\ frame = NoFrame /\ detach = NoDetach
      /\ \/ frame' = frame
         \/ FrameBuilt(allocation, asked, planned)
  BY DEF BuildFrame, kernelVars
<1>2. Screens' = Screens /\ detach'.planes = detach.planes /\ detach.planes = {}
  BY <1>1 DEF Screens, NoDetach
<1>3. Wanted = Display!Nothing
  BY <1>1 DEF Wanted, Display!Nothing
<1> HIDE DEF allocation, asked, planned
<1>4. Wanted' = Display!Nothing \/ Wanted'.wants = TRUE
  BY DEF Wanted, Display!Nothing
<1>5. QED
  BY <1>1, <1>2, <1>3, <1>4 DEF Display!Want, Display!vars, Display!Nothing

\* A rebind is the display's move: the planes lit were lit on the CRTC left.
LEMMA RebindMoves ==
  ASSUME SceneInv, NEW c \in Crtcs, Rebind(c)
  PROVE  Display!Move
<1>1. /\ UNCHANGED <<dev, kernel, master>> /\ frame = NoFrame /\ frame' = NoFrame /\ crtc' = c
      /\ detach' = Left(c, LitPlanes(al))
  BY DEF Rebind, ReboundTo, Turned, TurnedAgain, kernelVars
<1>2. Screens' = Screens /\ Wanted = Display!Nothing /\ Wanted' = Wanted
  BY <1>1 DEF Screens, Wanted, Display!Nothing
<1>3. LitPlanes(al) \subseteq DOMAIN Screens[crtc]
  BY LitArePlanes DEF SceneInv, PlaneInv, KernelSound, Screens
<1>4. \/ detach'.planes = detach.planes
      \/ detach.planes = {} /\ c # crtc /\ detach'.planes = LitPlanes(al)
  BY <1>1 DEF Left, NoDetach
<1>5. QED
  BY <1>1, <1>2, <1>3, <1>4 DEF Display!Move

\* A step of the scene is a step of the display, or none of its business.
LEMMA StepShows ==
  ASSUME PlaneSceneAssumption, SceneInv, [Next]_vars
  PROVE  [Display!Next]_(Display!vars)
<1>1. CASE (Aside /\ ~LoseMaster) \/ UNCHANGED vars
  <2>1. UNCHANGED <<dev, crtc, kernel, detach, frame, planesUnknown, unswept, master>>
    BY <1>1, AsideUnchanged
       DEF Aside, vars, kernelVars, AddLayer, SetDisplay, SetForceComposited, SetPinnedPlane,
           KernelChanges, Edited
  <2>2. Screens' = Screens /\ Wanted' = Wanted /\ detach'.planes = detach.planes
    BY <2>1 DEF Screens, Wanted, CursorPlanes
  <2>3. QED
    BY <2>1, <2>2 DEF Display!vars
<1>2. CASE LoseMaster
  <2>1. /\ UNCHANGED <<dev, crtc, kernel, detach, frame, planesUnknown, unswept>>
        /\ master /\ master' = FALSE
    BY <1>2 DEF LoseMaster, Turned
  <2>2. Screens' = Screens /\ Wanted' = Wanted /\ detach'.planes = detach.planes
    BY <2>1 DEF Screens, Wanted, CursorPlanes
  <2>3. QED
    BY <2>1, <2>2 DEF Display!Next, Display!Lose
<1>3. CASE BuildFrame
  BY <1>3, BuildWants DEF Display!Next
<1>4. ASSUME NEW busy \in BOOLEAN, CommitFrame(busy)
      PROVE  [Display!Next]_(Display!vars)
  <2>1. CASE frame.real /\ Answer(busy) = "Ok"
    BY <1>4, <2>1, CommitShows DEF Display!Next
  <2>2. CASE ~(frame.real /\ Answer(busy) = "Ok")
    <3>1. /\ frame # NoFrame /\ frame' = NoFrame
          /\ UNCHANGED <<crtc, kernel, detach, master>>
      BY <1>4, <2>2 DEF CommitFrame
    <3>2. Screens' = Screens /\ detach'.planes = detach.planes /\ Wanted' = Display!Nothing
      BY <3>1 DEF Screens, Wanted, Display!Nothing
    <3>3. QED
      BY <3>1, <3>2 DEF Display!Next, Display!Drop, Display!vars
  <2>3. QED
    BY <2>1, <2>2
<1>5. CASE \E i \in Slots : RemoveLayer(i)
  <2>1. UNCHANGED <<dev, crtc, kernel, detach, frame, planesUnknown, unswept, master>>
    BY <1>5 DEF RemoveLayer, Edited, kernelVars
  <2>2. Screens' = Screens /\ Wanted' = Wanted /\ detach'.planes = detach.planes
    BY <2>1 DEF Screens, Wanted, CursorPlanes
  <2>3. QED
    BY <2>1, <2>2 DEF Display!vars
<1>6. CASE \E c \in Crtcs : Rebind(c)
  BY <1>6, RebindMoves DEF Display!Next
<1>7. CASE CommitDetach
  BY <1>7, DetachBlanks DEF Display!Next
<1>8. CASE \E lit \in ForeignFrames : RegainMaster(lit)
  <2>1. /\ frame = NoFrame /\ frame' = NoFrame /\ ~master /\ master' = TRUE
        /\ UNCHANGED <<crtc, detach>>
    BY <1>8 DEF RegainMaster
  <2>2. Wanted = Display!Nothing /\ Wanted' = Wanted /\ detach'.planes = detach.planes
    BY <2>1 DEF Wanted, Display!Nothing
  <2>3. QED
    BY <2>1, <2>2 DEF Display!Next, Display!Regain
<1>9. QED
  BY <1>1, <1>2, <1>3, <1>4, <1>5, <1>6, <1>7, <1>8 DEF Next, Aside

\* Whatever the cache, the searches and the diffs do, a frame shows exactly the
\* planes and properties it was built to, besides cursor planes, or changes
\* nothing; and a CRTC left is turned off by a frame of its own, and by no other.
THEOREM FramesAreShown ==
  ASSUME ~ShowEmptied
  PROVE  Spec => ShowsFrames
<1>1. ASSUME Init PROVE Display!Init
  <2>1. PlaneInv
    BY <1>1, PlaneSceneAssumption, PlaneInvInit
  <2>2. crtc \in Crtcs /\ dev \in Devices /\ DOMAIN kernel = DOMAIN dev.planes
    BY <2>1 DEF PlaneInv, KernelSound
  <2>3. \A c \in Crtcs : DOMAIN Screens[c] \subseteq UNION {DOMAIN d.planes : d \in Devices}
    BY <2>2 DEF Screens, Lit
  <2>4. QED
    BY <1>1, <2>2, <2>3 DEF Init, Display!Init, Wanted, Display!Nothing, NoDetach
<1>2. SceneInv /\ [Next]_vars => [Display!Next]_(Display!vars)
  BY PlaneSceneAssumption, StepShows
<1>3. QED
  BY <1>1, <1>2, SceneInvariant, PTL DEF Spec, ShowsFrames, Display!Spec

-----------------------------------------------------------------------------
(* The session.                                                            *)

Device == [path : Paths, fd : Fds]
Told   == [kind : {"Paused"}] \cup [kind : {"DeviceLost"}, path : Paths]
          \cup [kind : {"Resumed"}, devices : Seq(Device)]
Kinds  == Paths \cup {"closed", "source"}
Tables == [Fds -> Kinds]
Waits  == [kind : {"none", "activation", "bounded", "infinite", "poll"}, left : Int,
           timer : Int, interrupted : BOOLEAN]

SessionTypeOK ==
  /\ files \in Tables /\ unread \in SUBSET Kinds
  /\ sources \in SUBSET Fds /\ epoll \in SUBSET Fds /\ drmFd \in Fds \cup {0}
  /\ inbox \in Seq({"Enable", "Disable"})
  /\ seatEnabled \in BOOLEAN /\ active \in BOOLEAN /\ ackRefused \in BOOLEAN
  /\ devices \in Seq(Device) /\ pending \in Seq(Told)
  /\ wait \in Waits

-----------------------------------------------------------------------------
(* The parts of the invariant.  The first three are stated of the values a *)
(* batch of events is handled on, as well as of the variables.             *)

\* The descriptors of the devices held are those of their files, and a device
\* is held once.
HeldIn(table, held) ==
  /\ \A i \in DOMAIN held : table[held[i].fd] = held[i].path
  /\ \A i, j \in DOMAIN held : held[i].path = held[j].path => i = j

\* The sources' descriptors are theirs and registered, and besides them only
\* the one taken for the card's is.
RegisteredIn(own, bound, table, registered) ==
  /\ own \subseteq registered /\ bound \notin own
  /\ registered \subseteq own \cup {bound}
  /\ \A fd \in own : table[fd] = "source"

HeardIn(bound, table, registered, held) ==
  \A fd \in CardsOf(held) : bound = fd /\ fd \in registered /\ table[fd] = Card

NoneResumed(told) == \A i \in DOMAIN told : told[i].kind # "Resumed"

LastResumed(told, held) ==
  \E i \in DOMAIN told :
    /\ told[i].kind = "Resumed" /\ told[i].devices = held
    /\ \A j \in DOMAIN told : j > i => told[j].kind # "Resumed"

\* The card is heard, or the last resume the caller has yet to take names the
\* devices held now.
WillHear(bound, table, registered, held, told) ==
  \/ NoneResumed(told) /\ HeardIn(bound, table, registered, held)
  \/ LastResumed(told, held)

\* The last of the events on their way is the seat's word, and without one the
\* session has heard it.
SeatHeard ==
  /\ inbox # <<>> => (inbox[Len(inbox)] = "Enable") = seatEnabled
  /\ opened = "open" /\ inbox = <<>> /\ ~ackRefused => active = seatEnabled

\* The seat's activation is waited for only while the session is opened.
Opening == wait.kind = "activation" => opened = "opening"

SessionInv ==
  /\ SessionTypeOK
  /\ HeldIn(files, devices)
  /\ RegisteredIn(sources, drmFd, files, epoll)
  /\ WillHear(drmFd, files, epoll, devices, pending)
  /\ SeatHeard
  /\ Opening

-----------------------------------------------------------------------------
(* A batch of the seat's events.                                           *)

Batch ==
  [files : Tables, unread : SUBSET Kinds, epoll : SUBSET Fds, active : BOOLEAN,
   devices : Seq(Device), pending : Seq(Told), stopped : BOOLEAN]

Good(s) ==
  /\ HeldIn(s.files, s.devices)
  /\ RegisteredIn(sources, drmFd, s.files, s.epoll)
  /\ WillHear(drmFd, s.files, s.epoll, s.devices, s.pending)

\* What is appended comes last, and the rest is as it was.
LEMMA AppendIsLast ==
  ASSUME NEW S, NEW s \in Seq(S), NEW x \in S
  PROVE  /\ Append(s, x) \in Seq(S)
         /\ DOMAIN s = 1..Len(s) /\ Len(s) \in Nat
         /\ DOMAIN Append(s, x) = 1..Len(s) + 1
         /\ \A i \in 1..Len(s) : Append(s, x)[i] = s[i] /\ s[i] \in S
         /\ Append(s, x)[Len(s) + 1] = x
OBVIOUS

\* The number given out is that of no file.
LEMMA LowestIsFree ==
  ASSUME NEW table \in Tables, HasFree(table)
  PROVE  LowestFree(table) \in Fds /\ table[LowestFree(table)] = "closed"
<1> DEFINE spare == {fd \in Fds : table[fd] = "closed"}
<1>1. spare \in SUBSET Nat /\ spare # {}
  BY WaitAssumption DEF HasFree, Fds
<1>2. LowestFree(table) = CHOOSE x \in spare : \A y \in spare : x <= y
  BY DEF LowestFree, Min
<1>3. LowestFree(table) \in spare
  <2> HIDE DEF spare
  <2>1. QED
    BY <1>1, <1>2, LeastIsIn
<1>4. QED
  BY <1>3

\* t is s with a device closed, and reopened under a free number if it is there.
ReopenedAs(s, device, t) ==
  LET closed == [s.files EXCEPT ![device.fd] = "closed"]
      fd == LowestFree(closed)
  IN /\ t \in Batch
     /\ closed \in Tables /\ fd \in Fds /\ closed[fd] = "closed"
     /\ t.epoll = s.epoll \ {device.fd}
     /\ t.active = s.active /\ t.stopped = s.stopped
     /\ \/ t.files = closed /\ t.devices = s.devices
        \/ /\ t.files = [closed EXCEPT ![fd] = device.path]
           /\ t.devices = Append(s.devices, [path |-> device.path, fd |-> fd])

\* That is what the step of on_enable does.
LEMMA ReopenedIs ==
  ASSUME NEW s \in Batch, NEW device \in Device, NEW gone
  PROVE  ReopenedAs(s, device, Reopened(s, device, gone))
<1> DEFINE t == Reopened(s, device, gone)
           closed == [s.files EXCEPT ![device.fd] = "closed"]
           fd == LowestFree(closed)
           lost == [kind |-> "DeviceLost", path |-> device.path]
           again == [path |-> device.path, fd |-> fd]
           without == [s EXCEPT !.files = closed, !.epoll = @ \ {device.fd},
                                !.unread = @ \ {device.path}]
<1>1. device.fd \in Fds /\ device.path \in Paths
  BY DEF Device
<1>2. closed \in Tables /\ closed[device.fd] = "closed"
  BY <1>1 DEF Batch, Tables, Kinds
<1>3. fd \in Fds /\ closed[fd] = "closed"
  <2>1. HasFree(closed)
    BY <1>1, <1>2 DEF HasFree
  <2> HIDE DEF closed
  <2>2. QED
    BY <1>2, <2>1, LowestIsFree
<1> HIDE DEF fd
<1>4. without \in Batch /\ without.files = closed /\ without.epoll = s.epoll \ {device.fd}
      /\ without.active = s.active /\ without.stopped = s.stopped
      /\ without.devices = s.devices /\ without.pending = s.pending
  BY <1>2 DEF Batch
<1> HIDE DEF without, closed
<1>5. CASE device.path \in gone
  <2>1. t = [without EXCEPT !.pending = Append(@, lost)]
    BY <1>5 DEF Reopened, without, closed, fd
  <2>2. lost \in Told
    BY <1>1 DEF Told
  <2>3. without.pending \in Seq(Told)
    BY <1>4 DEF Batch
  <2>4. Append(without.pending, lost) \in Seq(Told)
    <3> HIDE DEF lost
    <3>1. QED
      BY <2>2, <2>3, AppendIsLast
  <2> HIDE DEF lost
  <2>5. t \in Batch /\ t.files = closed /\ t.devices = s.devices
        /\ t.epoll = s.epoll \ {device.fd} /\ t.active = s.active /\ t.stopped = s.stopped
    BY <1>4, <2>1, <2>4 DEF Batch
  <2> HIDE DEF t
  <2>6. ReopenedAs(s, device, t)
    BY <1>2, <1>3, <2>5 DEF ReopenedAs, closed, fd
  <2>7. QED
    BY <2>6 DEF t
<1>6. CASE device.path \notin gone
  <2>1. t = [without EXCEPT !.files[fd] = device.path, !.devices = Append(@, again)]
    BY <1>6 DEF Reopened, without, closed, fd
  <2>2. again \in Device
    BY <1>1, <1>3 DEF Device
  <2>3. without.devices \in Seq(Device)
    BY <1>4 DEF Batch
  <2>4. Append(without.devices, again) \in Seq(Device)
    <3> HIDE DEF again
    <3>1. QED
      BY <2>2, <2>3, AppendIsLast
  <2>5. [closed EXCEPT ![fd] = device.path] \in Tables
    BY <1>1, <1>2, <1>3 DEF Tables, Kinds
  <2> HIDE DEF again
  <2>6. t \in Batch /\ t.files = [closed EXCEPT ![fd] = device.path]
        /\ t.devices = Append(s.devices, again)
        /\ t.epoll = s.epoll \ {device.fd} /\ t.active = s.active /\ t.stopped = s.stopped
    BY <1>4, <2>1, <2>4, <2>5 DEF Batch
  <2> HIDE DEF t
  <2>7. ReopenedAs(s, device, t)
    BY <1>2, <1>3, <2>6 DEF ReopenedAs, closed, fd, again
  <2>8. QED
    BY <2>7 DEF t
<1>7. QED
  BY <1>5, <1>6

\* Closing and reopening the k-th of the devices held, with those before it
\* done and those after it still to do.
Underway(s, t, k) ==
  /\ t \in Batch /\ t.active = TRUE /\ t.stopped = s.stopped
  /\ RegisteredIn(sources, drmFd, t.files, t.epoll)
  /\ HeldIn(t.files, t.devices)
  /\ \A i \in DOMAIN t.devices : \E j \in 1..k : t.devices[i].path = s.devices[j].path
  /\ \A j \in k + 1..Len(s.devices) : t.files[s.devices[j].fd] = s.devices[j].path

\* Reopening the k-th keeps those before it, and leaves those after it to be done.
LEMMA ReopenedKeeps ==
  ASSUME NEW s \in Batch, NEW k \in 1..Len(s.devices), HeldIn(s.files, s.devices),
         NEW t, Underway(s, t, k - 1), NEW gone
  PROVE  Underway(s, Reopened(t, s.devices[k], gone), k)
<1> DEFINE n == Len(s.devices)
           device == s.devices[k]
           u == Reopened(t, device, gone)
           closed == [t.files EXCEPT ![device.fd] = "closed"]
           fd == LowestFree(closed)
<1>1. /\ n \in Nat /\ DOMAIN s.devices = 1..n /\ \A j \in 1..n : s.devices[j] \in Device
      /\ \A i, j \in 1..n : s.devices[i].path = s.devices[j].path => i = j
  <2>1. s.devices \in Seq(Device)
    BY DEF Batch
  <2>2. QED
    BY <2>1 DEF HeldIn
<1>2. k \in 1..n /\ device \in Device /\ device.fd \in Fds /\ device.path \in Paths
  BY <1>1 DEF Device
<1>3. /\ t \in Batch /\ t.active = TRUE /\ t.stopped = s.stopped
      /\ RegisteredIn(sources, drmFd, t.files, t.epoll) /\ HeldIn(t.files, t.devices)
      /\ \A i \in DOMAIN t.devices : \E j \in 1..k - 1 : t.devices[i].path = s.devices[j].path
      /\ \A j \in k..n : t.files[s.devices[j].fd] = s.devices[j].path
  <2>1. k - 1 + 1 = k
    BY <1>2
  <2>2. QED
    BY <2>1 DEF Underway
<1>4. /\ u \in Batch
      /\ closed \in Tables /\ fd \in Fds /\ closed[fd] = "closed"
      /\ u.epoll = t.epoll \ {device.fd}
      /\ u.active = t.active /\ u.stopped = t.stopped
      /\ \/ u.files = closed /\ u.devices = t.devices
         \/ /\ u.files = [closed EXCEPT ![fd] = device.path]
            /\ u.devices = Append(t.devices, [path |-> device.path, fd |-> fd])
  <2>1. t \in Batch /\ device \in Device
    BY <1>2, <1>3
  <2> HIDE DEF device
  <2>2. ReopenedAs(t, device, u)
    BY <2>1, ReopenedIs
  <2> HIDE DEF u
  <2>3. QED
    BY <2>2 DEF ReopenedAs
<1>5. t.files \in Tables /\ u.files \in Tables /\ t.devices \in Seq(Device)
  BY <1>3, <1>4 DEF Batch
<1>6. t.files[device.fd] = device.path /\ device.path \notin {"closed", "source"}
  <2>1. k \in k..n
    BY <1>2
  <2>2. QED
    BY <1>2, <1>3, <2>1, CardAssumption
<1> HIDE DEF u, fd, device
<1>7. ASSUME NEW x \in Fds, t.files[x] \notin {device.path, "closed"}
      PROVE  u.files[x] = t.files[x]
  <2>1. x # device.fd /\ closed[x] = t.files[x]
    BY <1>2, <1>5, <1>6, <1>7 DEF Tables
  <2>2. x # fd
    BY <1>4, <1>7, <2>1
  <2> HIDE DEF closed
  <2>3. [closed EXCEPT ![fd] = device.path][x] = closed[x]
    BY <1>4, <2>2 DEF Tables
  <2>4. QED
    BY <1>4, <2>1, <2>3
<1>8. RegisteredIn(sources, drmFd, u.files, u.epoll)
  <2>1. \A x \in sources : t.files[x] = "source"
    BY <1>3 DEF RegisteredIn
  <2>2. device.fd \notin sources
    BY <1>6, <2>1
  <2>3. sources \subseteq Fds
    BY <1>3 DEF RegisteredIn, Batch
  <2>4. \A x \in sources : u.files[x] = "source"
    BY <1>6, <1>7, <2>1, <2>3
  <2>5. QED
    BY <1>3, <1>4, <2>2, <2>4 DEF RegisteredIn
<1>9. ASSUME NEW i \in DOMAIN t.devices
      PROVE  /\ t.devices[i] \in Device
             /\ t.devices[i].path # device.path
             /\ u.files[t.devices[i].fd] = t.devices[i].path
  <2>1. t.devices[i] \in Device
    BY <1>5
  <2>2. PICK j \in 1..k - 1 : t.devices[i].path = s.devices[j].path
    BY <1>3
  <2>3. j \in 1..n /\ j # k
    BY <1>2
  <2>4. t.devices[i].path # device.path
    BY <1>1, <1>2, <2>2, <2>3 DEF device
  <2>5. t.devices[i].path # "closed" /\ t.devices[i].fd \in Fds
    BY <2>1, CardAssumption DEF Device
  <2>6. t.files[t.devices[i].fd] = t.devices[i].path
    BY <1>3 DEF HeldIn
  <2>7. QED
    BY <1>7, <2>1, <2>4, <2>5, <2>6
<1>10. ASSUME NEW j \in k + 1..n PROVE u.files[s.devices[j].fd] = s.devices[j].path
  <2>1. j \in k..n /\ j \in 1..n /\ j # k
    BY <1>2
  <2>2. s.devices[j].path # device.path
    BY <1>1, <1>2, <2>1 DEF device
  <2>3. s.devices[j].path # "closed" /\ s.devices[j].fd \in Fds
    BY <1>1, <2>1, CardAssumption DEF Device
  <2>4. QED
    BY <1>3, <1>7, <2>1, <2>2, <2>3
<1>11. HeldIn(u.files, u.devices)
       /\ \A i \in DOMAIN u.devices : \E j \in 1..k : u.devices[i].path = s.devices[j].path
  <2>1. \A j \in 1..k - 1 : j \in 1..k
    BY <1>2
  <2>2. CASE u.devices = t.devices
    BY <1>3, <1>9, <2>1, <2>2 DEF HeldIn
  <2>3. CASE u.devices # t.devices
    <3> DEFINE again == [path |-> device.path, fd |-> fd]
    <3>1. u.files = [closed EXCEPT ![fd] = device.path] /\ u.devices = Append(t.devices, again)
      BY <1>4, <2>3
    <3>2. again \in Device /\ again.path = device.path /\ again.fd = fd
      BY <1>2, <1>4 DEF Device
    <3> HIDE DEF again
    <3> DEFINE m == Len(t.devices)
    <3>3. /\ DOMAIN t.devices = 1..m /\ m \in Nat /\ DOMAIN u.devices = 1..m + 1
          /\ \A i \in 1..m : u.devices[i] = t.devices[i]
          /\ u.devices[m + 1] = again
      BY <1>5, <3>1, <3>2, AppendIsLast
    <3> HIDE DEF m
    <3>4. u.files[fd] = device.path
      <4> HIDE DEF closed
      <4>1. QED
        BY <1>4, <3>1 DEF Tables
    <3>5. \A i \in 1..m + 1 : i \in 1..m \/ i = m + 1
      BY <3>3
    <3>6. \A i \in 1..m + 1 : u.files[u.devices[i].fd] = u.devices[i].path
      BY <1>9, <3>2, <3>3, <3>4, <3>5
    <3>7. \A i, j \in 1..m + 1 : u.devices[i].path = u.devices[j].path => i = j
      <4>1. \A i, j \in 1..m : t.devices[i].path = t.devices[j].path => i = j
        BY <1>3, <3>3 DEF HeldIn
      <4>2. ASSUME NEW i \in 1..m
            PROVE  u.devices[i].path # device.path /\ u.devices[m + 1].path = device.path
        BY <1>9, <3>2, <3>3
      <4>3. ASSUME NEW i \in 1..m + 1, NEW j \in 1..m + 1,
                   u.devices[i].path = u.devices[j].path
            PROVE  i = j
        <5>1. CASE i \in 1..m /\ j \in 1..m
          BY <3>3, <4>1, <4>3, <5>1
        <5>2. CASE i = m + 1 /\ j = m + 1
          BY <5>2
        <5>3. QED
          BY <3>5, <4>2, <4>3, <5>1, <5>2
      <4>4. QED
        BY <4>3
    <3>8. \A i \in 1..m + 1 : \E j \in 1..k : u.devices[i].path = s.devices[j].path
      <4>1. k \in 1..k
        BY <1>2
      <4>2. ASSUME NEW i \in 1..m
            PROVE  \E j \in 1..k : u.devices[i].path = s.devices[j].path
        <5>1. PICK j \in 1..k - 1 : t.devices[i].path = s.devices[j].path
          BY <1>3, <3>3
        <5>2. QED
          BY <2>1, <3>3, <5>1
      <4>3. u.devices[m + 1].path = s.devices[k].path
        BY <3>2, <3>3 DEF device
      <4>4. QED
        BY <3>5, <4>1, <4>2, <4>3
    <3>9. QED
      BY <3>3, <3>6, <3>7, <3>8 DEF HeldIn
  <2>4. QED
    BY <2>2, <2>3
<1>12. QED
  <2>1. Underway(s, u, k)
    BY <1>3, <1>4, <1>8, <1>10, <1>11 DEF Underway
  <2>2. QED
    BY <2>1 DEF u, device

\* An enable reopens all the devices held, and its resume names those that it
\* got back.
LEMMA OnEnableKeeps ==
  ASSUME NEW s \in Batch, Good(s), ~s.active, NEW gone
  PROVE  /\ OnEnable(s, gone) \in Batch /\ Good(OnEnable(s, gone))
         /\ OnEnable(s, gone).active /\ OnEnable(s, gone).stopped = s.stopped
<1> DEFINE n == Len(s.devices)
           base == [s EXCEPT !.active = TRUE, !.devices = <<>>]
           Step(i, v) == Reopened(v, s.devices[i], gone)
           Follows(f) == f = [i \in 0..Len(s.devices) |->
             IF i = 0 THEN [s EXCEPT !.active = TRUE, !.devices = <<>>]
             ELSE Reopened(f[i - 1], s.devices[i], gone)]
           upTo == CHOOSE f : Follows(f)
<1>1. n \in Nat /\ DOMAIN s.devices = 1..n /\ \A i \in 1..n : s.devices[i] \in Device
  <2>1. s.devices \in Seq(Device)
    BY DEF Batch
  <2>2. QED
    BY <2>1
<1>2. base \in Batch /\ base.active = TRUE /\ base.devices = <<>> /\ base.stopped = s.stopped
      /\ base.files = s.files /\ base.epoll = s.epoll
  <2> DEFINE none == <<>>
  <2>1. none \in Seq(Device)
    OBVIOUS
  <2>2. base = [s EXCEPT !.active = TRUE, !.devices = none]
    OBVIOUS
  <2> HIDE DEF none, base
  <2>3. /\ base \in Batch /\ base.active = TRUE /\ base.devices = none
        /\ base.stopped = s.stopped /\ base.files = s.files /\ base.epoll = s.epoll
    BY <2>1, <2>2 DEF Batch
  <2>4. QED
    BY <2>3 DEF none
<1>3. \A i \in 1..n, v \in Batch : Step(i, v) \in Batch
  BY <1>1, ReopenedIs DEF ReopenedAs
<1> HIDE DEF n
<1>4. \E f : Follows(f)
  <2> DEFINE step == [i \in 1..n |-> [v \in Batch |-> Step(i, v)]]
  <2>1. step \in [1..n -> [Batch -> Batch]]
    <3> HIDE DEF Step
    <3>1. QED
      BY <1>3
  <2>2. PICK f : Iterates(n, Batch, base, step, f)
    <3> HIDE DEF step, base
    <3>1. Steps(n, Batch, base, step)
      BY <1>1, <1>2, <2>1 DEF Steps
    <3>2. QED
      BY <3>1, IteratesExist
  <2> HIDE DEF base, Step
  <2>3. ASSUME NEW i \in 1..n PROVE f[i] = Step(i, f[i - 1])
    <3>1. i - 1 \in 0..n
      BY <1>1
    <3>2. f[i - 1] \in Batch
      BY <2>2, <3>1 DEF Iterates
    <3>3. step[i][f[i - 1]] = Step(i, f[i - 1])
      BY <3>2
    <3>4. QED
      BY <2>2, <3>3 DEF Iterates
  <2>4. f = [i \in 0..n |-> IF i = 0 THEN base ELSE Step(i, f[i - 1])]
    <3>1. \A i \in 0..n : f[i] = IF i = 0 THEN base ELSE Step(i, f[i - 1])
      BY <2>2, <2>3 DEF Iterates
    <3>2. QED
      BY <2>2, <3>1 DEF Iterates
  <2>5. Follows(f)
    BY <2>4 DEF n, base, Step
  <2> HIDE DEF Follows
  <2>6. QED
    BY <2>5
<1>5. Follows(upTo)
  <2> HIDE DEF Follows
  <2>1. QED
    BY <1>4
<1>6. upTo[0] = base /\ \A i \in 1..n : upTo[i] = Step(i, upTo[i - 1])
  <2>1. upTo = [i \in 0..n |-> IF i = 0 THEN base ELSE Step(i, upTo[i - 1])]
    BY <1>5 DEF n
  <2> HIDE DEF upTo, Step, base
  <2>2. \A i \in 0..n : upTo[i] = IF i = 0 THEN base ELSE Step(i, upTo[i - 1])
    BY <2>1
  <2>3. 0 \in 0..n /\ \A i \in 1..n : i \in 0..n /\ i # 0
    BY <1>1
  <2>4. QED
    BY <2>2, <2>3
<1> HIDE DEF upTo
<1> DEFINE got == upTo[n]
           told == [kind |-> "Resumed", devices |-> got.devices]
<1>7. OnEnable(s, gone) = [got EXCEPT !.pending = Append(@, told)]
  BY DEF OnEnable, upTo, n
<1> HIDE DEF base, Step
<1> DEFINE Right == {i \in 0..n : Underway(s, upTo[i], i)}
<1>8. 0 \in Right
  <2>1. HeldIn(s.files, s.devices) /\ RegisteredIn(sources, drmFd, s.files, s.epoll)
    BY DEF Good
  <2>2. DOMAIN base.devices = {} /\ HeldIn(base.files, base.devices)
    BY <1>2 DEF HeldIn
  <2>3. \A j \in 0 + 1..n : base.files[s.devices[j].fd] = s.devices[j].path
    BY <1>1, <1>2, <2>1 DEF HeldIn
  <2>4. Underway(s, base, 0)
    BY <1>2, <2>1, <2>2, <2>3 DEF Underway, n
  <2>5. QED
    BY <1>1, <1>6, <2>4
<1>9. ASSUME NEW i \in 1..n, i - 1 \in Right PROVE i \in Right
  <2>1. Underway(s, upTo[i - 1], i - 1)
    BY <1>9
  <2>2. Underway(s, Step(i, upTo[i - 1]), i)
    BY <2>1, ReopenedKeeps DEF Step, n, Good
  <2>3. QED
    BY <1>1, <1>6, <2>2
<1>10. n \in Right
  <2>1. 0..n \subseteq Right
    <3> HIDE DEF Right
    <3>1. QED
      BY <1>1, <1>8, <1>9, Reaches
  <2>2. QED
    BY <1>1, <2>1
<1>11. /\ got \in Batch /\ got.active = TRUE /\ got.stopped = s.stopped
       /\ RegisteredIn(sources, drmFd, got.files, got.epoll) /\ HeldIn(got.files, got.devices)
  BY <1>10 DEF Underway
<1> HIDE DEF got
<1>12. told \in Told /\ told.kind = "Resumed" /\ told.devices = got.devices
  <2>1. got.devices \in Seq(Device)
    BY <1>11 DEF Batch
  <2>2. QED
    BY <2>1 DEF Told
<1>13. got.pending \in Seq(Told)
  BY <1>11 DEF Batch
<1> HIDE DEF told
<1> DEFINE m == Len(got.pending)
           longer == Append(got.pending, told)
<1>14. /\ longer \in Seq(Told) /\ m \in Nat
       /\ DOMAIN longer = 1..m + 1 /\ longer[m + 1] = told
  BY <1>12, <1>13, AppendIsLast
<1>15. LastResumed(longer, got.devices)
  <2> HIDE DEF longer, m
  <2>1. m + 1 \in 1..m + 1 /\ \A j \in 1..m + 1 : ~(j > m + 1)
    BY <1>14
  <2>2. QED
    BY <1>12, <1>14, <2>1 DEF LastResumed
<1>16. OnEnable(s, gone) = [got EXCEPT !.pending = longer]
  BY <1>7
<1> HIDE DEF longer
<1>17. QED
  <2> DEFINE t == [got EXCEPT !.pending = longer]
  <2>1. /\ t \in Batch /\ t.active = TRUE /\ t.stopped = s.stopped /\ t.files = got.files
        /\ t.epoll = got.epoll /\ t.devices = got.devices /\ t.pending = longer
    BY <1>11, <1>14 DEF Batch
  <2> HIDE DEF t
  <2>2. Good(t)
    BY <1>11, <1>15, <2>1 DEF Good, WillHear
  <2>3. QED
    BY <1>16, <2>1, <2>2 DEF t

\* A disable leaves the devices to the next enable.
LEMMA OnDisableKeeps ==
  ASSUME NEW s \in Batch, Good(s), NEW refused \in BOOLEAN
  PROVE  /\ OnDisable(s, refused) \in Batch /\ Good(OnDisable(s, refused))
         /\ ~OnDisable(s, refused).active
<1>1. CASE ~s.active
  BY <1>1 DEF OnDisable
<1>2. CASE s.active
  <2> DEFINE told == [kind |-> "Paused"]
             longer == Append(s.pending, told)
             m == Len(s.pending)
             t == [s EXCEPT !.active = FALSE, !.stopped = refused, !.pending = longer]
  <2>1. OnDisable(s, refused) = t
    BY <1>2 DEF OnDisable
  <2>2. told \in Told /\ told.kind = "Paused"
    BY DEF Told
  <2>3. s.pending \in Seq(Told)
    BY DEF Batch
  <2> HIDE DEF told
  <2>4. /\ longer \in Seq(Told) /\ m \in Nat /\ DOMAIN s.pending = 1..m
        /\ DOMAIN longer = 1..m + 1 /\ longer[m + 1] = told
        /\ \A i \in 1..m : longer[i] = s.pending[i]
    BY <2>2, <2>3, AppendIsLast
  <2> HIDE DEF longer, m
  <2>5. /\ t \in Batch /\ ~t.active /\ t.files = s.files /\ t.epoll = s.epoll
        /\ t.devices = s.devices /\ t.pending = longer
    BY <2>4 DEF Batch
  <2>6. \A i \in 1..m + 1 : i \in 1..m \/ i = m + 1
    BY <2>4
  <2>7. NoneResumed(s.pending) => NoneResumed(longer)
    BY <2>2, <2>4, <2>6 DEF NoneResumed
  <2>8. ASSUME LastResumed(s.pending, s.devices) PROVE LastResumed(longer, s.devices)
    <3>1. PICK i \in 1..m :
            /\ s.pending[i].kind = "Resumed" /\ s.pending[i].devices = s.devices
            /\ \A j \in 1..m : j > i => s.pending[j].kind # "Resumed"
      BY <2>4, <2>8 DEF LastResumed
    <3>2. i \in 1..m + 1 /\ longer[i] = s.pending[i]
      BY <2>4
    <3>3. \A j \in 1..m + 1 : j > i => longer[j].kind # "Resumed"
      BY <2>2, <2>4, <2>6, <3>1
    <3>4. QED
      BY <2>4, <3>1, <3>2, <3>3 DEF LastResumed
  <2> HIDE DEF t
  <2>9. Good(t)
    BY <2>5, <2>7, <2>8 DEF Good, WillHear
  <2>10. QED
    BY <2>1, <2>5, <2>9
<1>3. QED
  BY <1>1, <1>2 DEF Batch

\* After one event the session agrees with it, unless it has stopped.
LEMMA HandleRawKeeps ==
  ASSUME NEW s \in Batch, Good(s), NEW event \in {"Enable", "Disable"}, NEW gone,
         NEW refused \in BOOLEAN
  PROVE  /\ HandleRaw(s, event, gone, refused) \in Batch
         /\ Good(HandleRaw(s, event, gone, refused))
         /\ \/ HandleRaw(s, event, gone, refused).stopped
            \/ HandleRaw(s, event, gone, refused).active = (event = "Enable")
<1>1. CASE s.stopped
  BY <1>1 DEF HandleRaw
<1>2. CASE ~s.stopped /\ event = "Disable"
  <2>1. HandleRaw(s, event, gone, refused) = OnDisable(s, refused)
    BY <1>2 DEF HandleRaw
  <2>2. OnDisable(s, refused).active \in BOOLEAN
    BY OnDisableKeeps DEF Batch
  <2>3. QED
    BY <1>2, <2>1, <2>2, OnDisableKeeps
<1>3. CASE ~s.stopped /\ event = "Enable"
  <2>1. HandleRaw(s, event, gone, refused) = OnEnable(s, gone)
    BY <1>3 DEF HandleRaw
  <2>2. CASE s.active
    <3>1. OnEnable(s, gone) = s
      BY <2>2 DEF OnEnable
    <3>2. QED
      BY <1>3, <2>1, <2>2, <3>1 DEF Batch
  <2>3. CASE ~s.active
    <3>1. OnEnable(s, gone).active \in BOOLEAN
      BY <2>3, OnEnableKeeps DEF Batch
    <3>2. QED
      BY <1>3, <2>1, <2>3, <3>1, OnEnableKeeps
  <2>4. QED
    BY <2>2, <2>3
<1>4. QED
  BY <1>1, <1>2, <1>3

\* A whole batch: the session ends up agreeing with the last of its events.
LEMMA DispatchKeeps ==
  ASSUME SessionInv, SessionDispatch
  PROVE  /\ files' \in Tables /\ unread' \in SUBSET Kinds /\ epoll' \in SUBSET Fds
         /\ active' \in BOOLEAN /\ ackRefused' \in BOOLEAN
         /\ devices' \in Seq(Device) /\ pending' \in Seq(Told)
         /\ HeldIn(files', devices') /\ RegisteredIn(sources, drmFd, files', epoll')
         /\ WillHear(drmFd, files', epoll', devices', pending')
         /\ ackRefused' \/ active' = seatEnabled
<1> DEFINE n == Len(inbox)
           before == [files |-> files, unread |-> unread, epoll |-> epoll, active |-> active,
                      devices |-> devices, pending |-> pending, stopped |-> FALSE]
           V == {s \in Batch : Good(s)}
<1>1. PICK gone \in [DOMAIN inbox -> SUBSET Paths], refused \in SUBSET DOMAIN inbox :
        LET upTo[k \in 0..Len(inbox)] ==
              IF k = 0 THEN before
              ELSE HandleRaw(upTo[k - 1], inbox[k], gone[k], k \in refused)
            after == upTo[Len(inbox)]
        IN /\ files' = after.files /\ unread' = after.unread /\ epoll' = after.epoll
           /\ active' = after.active /\ devices' = after.devices
           /\ pending' = after.pending
           /\ ackRefused' = after.stopped
  BY DEF SessionDispatch
<1>2. /\ n \in Nat /\ n # 0 /\ DOMAIN inbox = 1..n
      /\ \A i \in 1..n : inbox[i] \in {"Enable", "Disable"}
      /\ (inbox[n] = "Enable") = seatEnabled
  <2>1. inbox \in Seq({"Enable", "Disable"}) /\ inbox # <<>>
    BY DEF SessionInv, SessionTypeOK, SessionDispatch
  <2>2. (inbox[n] = "Enable") = seatEnabled
    BY <2>1 DEF SessionInv, SeatHeard
  <2>3. QED
    BY <2>1, <2>2
<1> HIDE DEF n
<1> DEFINE Step(i, v) == HandleRaw(v, inbox[i], gone[i], i \in refused)
           Follows(f) == f = [k \in 0..Len(inbox) |->
             IF k = 0 THEN before
             ELSE HandleRaw(f[k - 1], inbox[k], gone[k], k \in refused)]
           upTo == CHOOSE f : Follows(f)
           after == upTo[Len(inbox)]
<1>3. /\ files' = after.files /\ unread' = after.unread /\ epoll' = after.epoll
      /\ active' = after.active /\ devices' = after.devices
      /\ pending' = after.pending
      /\ ackRefused' = after.stopped
  BY <1>1
<1>4. before \in V
  <2>1. before \in Batch
    BY DEF SessionInv, SessionTypeOK, Batch
  <2>2. Good(before)
    BY DEF SessionInv, Good
  <2>3. QED
    BY <2>1, <2>2
<1> HIDE DEF before
<1>5. \A i \in 1..n, v \in V :
        Step(i, v) \in V /\ (Step(i, v).stopped \/ Step(i, v).active = (inbox[i] = "Enable"))
  <2>1. ASSUME NEW i \in 1..n, NEW v \in V
        PROVE  /\ Step(i, v) \in V
               /\ Step(i, v).stopped \/ Step(i, v).active = (inbox[i] = "Enable")
    <3> DEFINE no == i \in refused
               event == inbox[i]
               there == gone[i]
    <3>1. event \in {"Enable", "Disable"} /\ no \in BOOLEAN /\ v \in Batch /\ Good(v)
      BY <1>2
    <3> DEFINE t == HandleRaw(v, event, there, no)
    <3>2. Step(i, v) = t
      OBVIOUS
    <3> HIDE DEF no, event, there
    <3>3. t \in Batch /\ Good(t) /\ (t.stopped \/ t.active = (event = "Enable"))
      BY <3>1, HandleRawKeeps
    <3> HIDE DEF t, Step
    <3>4. QED
      BY <3>2, <3>3 DEF event
  <2>2. QED
    BY <2>1
<1>6. \E f : Follows(f)
  <2> HIDE DEF V
  <2> DEFINE step == [i \in 1..n |-> [v \in V |-> Step(i, v)]]
  <2>1. step \in [1..n -> [V -> V]]
    <3> HIDE DEF Step
    <3>1. QED
      BY <1>5
  <2>2. PICK f : Iterates(n, V, before, step, f)
    <3> HIDE DEF step
    <3>1. Steps(n, V, before, step)
      BY <1>2, <1>4, <2>1 DEF Steps
    <3>2. QED
      BY <3>1, IteratesExist
  <2> HIDE DEF Step
  <2>3. ASSUME NEW i \in 1..n PROVE f[i] = Step(i, f[i - 1])
    <3>1. i - 1 \in 0..n
      BY <1>2
    <3>2. f[i - 1] \in V
      BY <2>2, <3>1 DEF Iterates
    <3>3. step[i][f[i - 1]] = Step(i, f[i - 1])
      BY <3>2
    <3>4. QED
      BY <2>2, <3>3 DEF Iterates
  <2>4. f = [i \in 0..n |-> IF i = 0 THEN before ELSE Step(i, f[i - 1])]
    <3>1. \A i \in 0..n : f[i] = IF i = 0 THEN before ELSE Step(i, f[i - 1])
      BY <2>2, <2>3 DEF Iterates
    <3>2. QED
      BY <2>2, <3>1 DEF Iterates
  <2>5. Follows(f)
    BY <2>4 DEF n, Step
  <2> HIDE DEF Follows
  <2>6. QED
    BY <2>5
<1>7. Follows(upTo)
  <2> HIDE DEF Follows
  <2>1. QED
    BY <1>6
<1>8. upTo[0] = before /\ \A i \in 1..n : upTo[i] = Step(i, upTo[i - 1])
  <2>1. upTo = [i \in 0..n |-> IF i = 0 THEN before ELSE Step(i, upTo[i - 1])]
    BY <1>7 DEF n
  <2> HIDE DEF upTo, Step
  <2>2. \A i \in 0..n : upTo[i] = IF i = 0 THEN before ELSE Step(i, upTo[i - 1])
    BY <2>1
  <2>3. 0 \in 0..n /\ \A i \in 1..n : i \in 0..n /\ i # 0
    BY <1>2
  <2>4. QED
    BY <2>2, <2>3
<1> HIDE DEF upTo, Step, V
<1> DEFINE Right == {i \in 0..n : upTo[i] \in V}
<1>9. 0..n \subseteq Right
  <2>1. 0 \in Right
    BY <1>2, <1>4, <1>8
  <2>2. \A i \in 1..n : i - 1 \in Right => i \in Right
    BY <1>2, <1>5, <1>8
  <2> HIDE DEF Right
  <2>3. QED
    BY <1>2, <2>1, <2>2, Reaches
<1>10. /\ after \in V
       /\ after.stopped \/ after.active = seatEnabled
  <2>1. n - 1 \in 0..n /\ n \in 1..n /\ n \in 0..n
    BY <1>2
  <2>2. upTo[n - 1] \in V /\ after = Step(n, upTo[n - 1])
    BY <1>8, <1>9, <2>1 DEF n
  <2>3. QED
    BY <1>2, <1>5, <2>1, <2>2
<1> HIDE DEF after
<1>11. after \in Batch /\ Good(after)
  BY <1>10 DEF V
<1>12. QED
  BY <1>3, <1>10, <1>11 DEF Batch, Good

-----------------------------------------------------------------------------
(* The caller's calls.                                                     *)

\* Of a list of devices held once, one is the card.
LEMMA OneCard ==
  ASSUME NEW held \in Seq(Device), NEW table, HeldIn(table, held)
  PROVE  /\ CardsOf(held) \subseteq Fds
         /\ \A x \in CardsOf(held) : table[x] = Card
         /\ \A x, y \in CardsOf(held) : x = y
<1>1. \A i \in DOMAIN held : held[i].fd \in Fds
  <2>1. \A i \in DOMAIN held : held[i] \in Device
    OBVIOUS
  <2>2. QED
    BY <2>1 DEF Device
<1>2. QED
  BY <1>1 DEF CardsOf, HeldIn

\* Binding the dispatcher to a descriptor leaves the sources theirs, and takes
\* it unless it is closed or a source's.
LEMMA RebindKeeps ==
  ASSUME sources \in SUBSET Fds, epoll \in SUBSET Fds, drmFd \in Fds \cup {0},
         NEW table, NEW cards \in SUBSET Fds, cards # {},
         \A x \in sources : table[x] = "source",
         RegisteredIn(sources, drmFd, files, epoll), RebindTo(cards, table, epoll)
  PROVE  /\ epoll' \in SUBSET Fds /\ drmFd' \in Fds \cup {0}
         /\ sources \subseteq epoll' /\ drmFd' \notin sources
         /\ epoll' \subseteq sources \cup {drmFd'}
         /\ \A one : cards = {one} /\ table[one] \notin {"closed", "source"} =>
              drmFd' = one /\ one \in epoll'
<1> DEFINE fd == Min(cards)
           kept == epoll \ {drmFd}
<1>1. fd \in cards
  <2>1. cards \in SUBSET Nat
    BY WaitAssumption DEF Fds
  <2>2. QED
    BY <2>1, LeastIsIn DEF Min
<1> HIDE DEF fd
<1>2. 0 \notin Fds /\ sources \subseteq Fds /\ epoll \subseteq Fds
  BY WaitAssumption DEF Fds
<1>3. sources \subseteq kept /\ kept \subseteq sources
  BY DEF RegisteredIn
<1>4. \/ /\ table[fd] # "closed" /\ fd \notin kept
         /\ epoll' = kept \cup {fd} /\ drmFd' = fd
      \/ /\ table[fd] = "closed" \/ fd \in kept
         /\ epoll' = kept /\ drmFd' = 0
  BY DEF RebindTo, PageFlipRebind, Rebound, fd
<1>5. ASSUME NEW one, cards = {one}, table[one] \notin {"closed", "source"}
      PROVE  drmFd' = one /\ one \in epoll'
  <2>1. fd = one /\ one \notin sources
    BY <1>1, <1>5
  <2>2. QED
    BY <1>3, <1>4, <1>5, <2>1
<1>6. QED
  BY <1>1, <1>2, <1>3, <1>4, <1>5

\* The parts of the invariant that the actions mostly change apart.
DevicesOK ==
  /\ files \in Tables /\ unread \in SUBSET Kinds
  /\ sources \in SUBSET Fds /\ epoll \in SUBSET Fds /\ drmFd \in Fds \cup {0}
  /\ devices \in Seq(Device) /\ pending \in Seq(Told)
  /\ HeldIn(files, devices) /\ RegisteredIn(sources, drmFd, files, epoll)
  /\ WillHear(drmFd, files, epoll, devices, pending)

SeatOK ==
  /\ inbox \in Seq({"Enable", "Disable"})
  /\ seatEnabled \in BOOLEAN /\ active \in BOOLEAN /\ ackRefused \in BOOLEAN
  /\ SeatHeard

WaitOK == wait \in Waits /\ Opening

\* They make it up, before a step and after it.
LEMMA Thirds ==
  /\ SessionInv <=> DevicesOK /\ SeatOK /\ WaitOK
  /\ SessionInv' <=> DevicesOK' /\ SeatOK' /\ WaitOK'
BY DEF SessionInv, SessionTypeOK, DevicesOK, SeatOK, WaitOK

deviceVars == <<files, sources, epoll, drmFd, devices, pending>>
seatVars   == <<inbox, seatEnabled, opened, active, ackRefused>>

\* A step that leaves its variables alone keeps a part: what is unread says
\* nothing of the devices.
LEMMA DevicesStay ==
  DevicesOK /\ unread' \in SUBSET Kinds /\ UNCHANGED deviceVars => DevicesOK'
BY DEF DevicesOK, deviceVars, HeldIn, RegisteredIn, WillHear, HeardIn, NoneResumed, LastResumed,
       CardsOf

\* The same of the seat's.
LEMMA SeatStays == SeatOK /\ UNCHANGED seatVars => SeatOK'
BY DEF SeatOK, seatVars, SeatHeard

\* The caller takes an event: after the last resume it hears the card.
LEMMA NextEventStep == DevicesOK /\ NextEvent => DevicesOK'
<1> SUFFICES ASSUME DevicesOK, NextEvent PROVE DevicesOK'
  OBVIOUS
<1> DEFINE event == Head(pending)
           rest == Tail(pending)
           n == Len(pending)
           cards == IF event.kind = "Resumed" THEN CardsOf(event.devices) ELSE {}
<1>1. /\ pending \in Seq(Told) /\ pending # <<>> /\ pending' = rest
      /\ RebindTo(cards, files, epoll)
      /\ UNCHANGED <<files, unread, sources, devices>>
  BY DEF NextEvent, DevicesOK
<1>2. /\ n \in Nat /\ n # 0 /\ DOMAIN pending = 1..n /\ event = pending[1] /\ event \in Told
      /\ rest \in Seq(Told) /\ DOMAIN rest = 1..n - 1
      /\ \A i \in 1..n - 1 : rest[i] = pending[i + 1]
  BY <1>1
<1> HIDE DEF event, rest, n
<1>3. /\ files \in Tables /\ devices \in Seq(Device) /\ HeldIn(files, devices)
      /\ RegisteredIn(sources, drmFd, files, epoll)
      /\ WillHear(drmFd, files, epoll, devices, pending)
      /\ sources \in SUBSET Fds /\ epoll \in SUBSET Fds /\ drmFd \in Fds \cup {0}
  BY DEF DevicesOK
<1>4. cards \in SUBSET Fds
  <2>1. CASE event.kind = "Resumed"
    <3>1. event.devices \in Seq(Device)
      BY <1>2, <2>1 DEF Told
    <3> DEFINE given == event.devices
    <3>2. \A i \in DOMAIN given : given[i] \in Device
      BY <3>1
    <3> HIDE DEF given
    <3>3. CardsOf(given) \subseteq Fds
      BY <3>2 DEF CardsOf, Device
    <3>4. QED
      BY <2>1, <3>3 DEF given
  <2>2. QED
    BY <2>1
<1>5. NoneResumed(pending) => NoneResumed(rest) /\ event.kind # "Resumed"
  <2>1. ASSUME NoneResumed(pending) PROVE NoneResumed(rest) /\ event.kind # "Resumed"
    <3>1. 1 \in 1..n /\ \A i \in 1..n - 1 : i + 1 \in 1..n
      BY <1>2
    <3>2. \A i \in 1..n : pending[i].kind # "Resumed"
      BY <1>2, <2>1 DEF NoneResumed
    <3>3. QED
      BY <1>2, <3>1, <3>2 DEF NoneResumed
  <2>2. QED
    BY <2>1
<1>6. ASSUME LastResumed(pending, devices)
      PROVE  \/ LastResumed(rest, devices)
             \/ NoneResumed(rest) /\ event.kind = "Resumed" /\ event.devices = devices
  <2>1. PICK i \in 1..n :
          /\ pending[i].kind = "Resumed" /\ pending[i].devices = devices
          /\ \A j \in 1..n : j > i => pending[j].kind # "Resumed"
    BY <1>2, <1>6 DEF LastResumed
  <2>2. \A j \in 1..n - 1 : j + 1 \in 1..n
    BY <1>2
  <2>3. CASE i = 1
    <3>1. \A j \in 1..n - 1 : j + 1 > i
      BY <2>3
    <3>2. NoneResumed(rest)
      BY <1>2, <2>1, <2>2, <3>1 DEF NoneResumed
    <3>3. QED
      BY <1>2, <2>1, <2>3, <3>2
  <2>4. CASE i # 1
    <3>1. i - 1 \in 1..n - 1 /\ i - 1 + 1 = i
      BY <1>2, <2>4
    <3>2. rest[i - 1] = pending[i]
      BY <1>2, <3>1
    <3>3. \A j \in 1..n - 1 : j > i - 1 => j + 1 > i
      OBVIOUS
    <3>4. \A j \in 1..n - 1 : j > i - 1 => rest[j].kind # "Resumed"
      BY <1>2, <2>1, <2>2, <3>3
    <3>5. LastResumed(rest, devices)
      BY <1>2, <2>1, <3>1, <3>2, <3>4 DEF LastResumed
    <3>6. QED
      BY <3>5
  <2>5. QED
    BY <2>3, <2>4
<1>7. CASE cards = {}
  <2>1. epoll' = epoll /\ drmFd' = drmFd
    BY <1>1, <1>7 DEF RebindTo
  <2>2. HeldIn(files', devices') /\ RegisteredIn(sources', drmFd', files', epoll')
    BY <1>1, <1>3, <2>1 DEF HeldIn, RegisteredIn
  <2>3. ASSUME HeardIn(drmFd, files, epoll, devices) PROVE HeardIn(drmFd', files', epoll', devices')
    BY <1>1, <2>1, <2>3 DEF HeardIn, CardsOf
  <2>4. WillHear(drmFd', files', epoll', devices', pending')
    <3>1. CASE NoneResumed(pending) /\ HeardIn(drmFd, files, epoll, devices)
      BY <1>1, <1>5, <2>3, <3>1 DEF WillHear
    <3>2. CASE LastResumed(rest, devices)
      BY <1>1, <3>2 DEF WillHear
    <3>3. CASE NoneResumed(rest) /\ event.kind = "Resumed" /\ event.devices = devices
      <4>1. CardsOf(devices) = {}
        BY <1>7, <3>3
      <4>2. HeardIn(drmFd, files, epoll, devices)
        BY <4>1 DEF HeardIn
      <4>3. QED
        BY <1>1, <2>3, <3>3, <4>2 DEF WillHear
    <3>4. QED
      BY <1>3, <1>6, <3>1, <3>2, <3>3 DEF WillHear
  <2>5. QED
    BY <1>1, <1>2, <2>1, <2>2, <2>4 DEF DevicesOK
<1>8. CASE cards # {}
  <2>1. event.kind = "Resumed" /\ cards = CardsOf(event.devices)
    BY <1>8
  <2> HIDE DEF cards
  <2>2. \A x \in sources : files[x] = "source"
    BY <1>3 DEF RegisteredIn
  <2>3. /\ epoll' \in SUBSET Fds /\ drmFd' \in Fds \cup {0}
        /\ sources \subseteq epoll' /\ drmFd' \notin sources
        /\ epoll' \subseteq sources \cup {drmFd'}
        /\ \A one : cards = {one} /\ files[one] \notin {"closed", "source"} =>
              drmFd' = one /\ one \in epoll'
    BY <1>1, <1>3, <1>4, <1>8, <2>2, RebindKeeps
  <2>4. HeldIn(files', devices') /\ RegisteredIn(sources', drmFd', files', epoll')
    BY <1>1, <1>3, <2>2, <2>3 DEF HeldIn, RegisteredIn
  <2>5. WillHear(drmFd', files', epoll', devices', pending')
    <3>1. ~NoneResumed(pending)
      BY <1>5, <2>1
    <3>2. CASE LastResumed(rest, devices)
      BY <1>1, <3>2 DEF WillHear
    <3>3. CASE NoneResumed(rest) /\ event.devices = devices
      <4>1. PICK fd \in cards : TRUE
        BY <1>8
      <4>2. cards = {fd} /\ files[fd] = Card
        BY <1>3, <2>1, <3>3, <4>1, OneCard
      <4>3. drmFd' = fd /\ fd \in epoll'
        BY <2>3, <4>2, CardAssumption
      <4>4. \A x \in CardsOf(devices) : drmFd' = x /\ x \in epoll' /\ files[x] = Card
        BY <2>1, <3>3, <4>2, <4>3
      <4>5. HeardIn(drmFd', files', epoll', devices')
        BY <1>1, <4>4 DEF HeardIn, CardsOf
      <4>6. QED
        BY <1>1, <3>3, <4>5 DEF WillHear
    <3>4. QED
      BY <1>3, <1>6, <3>1, <3>2, <3>3 DEF WillHear
  <2>6. QED
    BY <1>1, <1>2, <1>3, <2>3, <2>4, <2>5 DEF DevicesOK
<1>9. QED
  BY <1>7, <1>8


\* A file that no device held has may change.
LEMMA HeldElsewhere ==
  ASSUME NEW table \in Tables, NEW held \in Seq(Device), HeldIn(table, held),
         NEW x \in Fds, \A i \in DOMAIN held : held[i].path # table[x],
         NEW kind \in Kinds
  PROVE  /\ [table EXCEPT ![x] = kind] \in Tables
         /\ HeldIn([table EXCEPT ![x] = kind], held)
         /\ \A fd \in CardsOf(held) : fd # x /\ [table EXCEPT ![x] = kind][fd] = Card
<1> DEFINE now == [table EXCEPT ![x] = kind]
<1>1. now \in Tables /\ \A fd \in Fds \ {x} : now[fd] = table[fd]
  BY DEF Tables
<1>2. \A i \in DOMAIN held : held[i] \in Device /\ held[i].fd \in Fds
  <2>1. \A i \in DOMAIN held : held[i] \in Device
    OBVIOUS
  <2>2. QED
    BY <2>1 DEF Device
<1>3. \A i \in DOMAIN held : held[i].fd # x
  BY DEF HeldIn
<1> HIDE DEF now
<1>4. \A i \in DOMAIN held : now[held[i].fd] = held[i].path
  BY <1>1, <1>2, <1>3 DEF HeldIn
<1>5. HeldIn(now, held)
  BY <1>4 DEF HeldIn
<1>6. \A fd \in CardsOf(held) : fd # x /\ now[fd] = Card
  BY <1>3, <1>4 DEF CardsOf
<1>7. QED
  BY <1>1, <1>5, <1>6 DEF now

\* With no event to take, the card is heard.
LEMMA NothingPending ==
  ASSUME DevicesOK, pending = <<>>
  PROVE  NoneResumed(pending) /\ HeardIn(drmFd, files, epoll, devices)
<1>1. DOMAIN pending = {}
  OBVIOUS
<1>2. QED
  BY <1>1 DEF DevicesOK, WillHear, LastResumed

\* The caller opens a file of its own: the number was no device's.
LEMMA OpenSourceStep == DevicesOK /\ OpenSource /\ UNCHANGED sessionVars => DevicesOK'
<1> SUFFICES ASSUME DevicesOK, OpenSource, UNCHANGED sessionVars PROVE DevicesOK'
  OBVIOUS
<1> DEFINE fd == LowestFree(files)
<1>1. /\ HasFree(files) /\ drmFd # fd /\ files' = [files EXCEPT ![fd] = "source"]
      /\ epoll' = epoll \cup {fd} /\ sources' = sources \cup {fd}
      /\ unread' = unread /\ drmFd' = drmFd /\ devices' = devices /\ pending' = pending
  BY DEF OpenSource, sessionVars
<1>2. /\ files \in Tables /\ unread \in SUBSET Kinds /\ devices \in Seq(Device)
      /\ sources \in SUBSET Fds /\ epoll \in SUBSET Fds /\ drmFd \in Fds \cup {0}
      /\ pending \in Seq(Told)
      /\ HeldIn(files, devices) /\ RegisteredIn(sources, drmFd, files, epoll)
      /\ WillHear(drmFd, files, epoll, devices, pending)
  BY DEF DevicesOK
<1>3. fd \in Fds /\ files[fd] = "closed"
  BY <1>1, <1>2, LowestIsFree
<1> HIDE DEF fd
<1>4. \A i \in DOMAIN devices : devices[i].path # files[fd]
  <2>1. \A i \in DOMAIN devices : devices[i] \in Device
    BY <1>2
  <2>2. QED
    BY <1>3, <2>1, CardAssumption DEF Device
<1>5. /\ files' \in Tables /\ HeldIn(files', devices)
      /\ \A x \in CardsOf(devices) : files'[x] = Card
  <2> DEFINE kind == "source"
             now == [files EXCEPT ![fd] = kind]
  <2>1. kind \in Kinds
    BY DEF Kinds
  <2>2. files' = now
    BY <1>1
  <2> HIDE DEF kind
  <2>3. /\ now \in Tables /\ HeldIn(now, devices)
        /\ \A x \in CardsOf(devices) : x # fd /\ now[x] = Card
    <3>1. /\ files \in Tables /\ devices \in Seq(Device) /\ HeldIn(files, devices)
          /\ fd \in Fds
      BY <1>2, <1>3
    <3>2. QED
      BY <3>1, <1>4, <2>1, HeldElsewhere
  <2> HIDE DEF now
  <2>4. QED
    BY <2>2, <2>3
<1>6. RegisteredIn(sources', drmFd', files', epoll')
  BY <1>1, <1>2, <1>3 DEF RegisteredIn, Tables
<1>7. HeardIn(drmFd, files, epoll, devices) => HeardIn(drmFd', files', epoll', devices)
  BY <1>1, <1>5 DEF HeardIn
<1>8. WillHear(drmFd', files', epoll', devices', pending')
  BY <1>1, <1>2, <1>7 DEF WillHear
<1>9. QED
  BY <1>1, <1>2, <1>3, <1>5, <1>6, <1>8 DEF DevicesOK

\* It closes one again: the file was no device's.
LEMMA CloseSourceStep == DevicesOK /\ CloseSource /\ UNCHANGED sessionVars => DevicesOK'
<1> SUFFICES ASSUME DevicesOK, CloseSource, UNCHANGED sessionVars PROVE DevicesOK'
  OBVIOUS
<1>1. PICK fd \in sources :
        /\ sources' = sources \ {fd} /\ epoll' = epoll \ {fd}
        /\ files' = [files EXCEPT ![fd] = "closed"]
  BY DEF CloseSource
<1>2. /\ unread' = unread \ {"source"} /\ drmFd' = drmFd /\ devices' = devices
      /\ pending' = pending
  BY DEF CloseSource, sessionVars
<1>3. /\ files \in Tables /\ unread \in SUBSET Kinds /\ devices \in Seq(Device)
      /\ sources \in SUBSET Fds /\ epoll \in SUBSET Fds /\ drmFd \in Fds \cup {0}
      /\ pending \in Seq(Told)
      /\ HeldIn(files, devices) /\ RegisteredIn(sources, drmFd, files, epoll)
      /\ WillHear(drmFd, files, epoll, devices, pending)
  BY DEF DevicesOK
<1>4. fd \in Fds /\ files[fd] = "source"
  BY <1>1, <1>3 DEF RegisteredIn
<1>5. \A i \in DOMAIN devices : devices[i].path # files[fd]
  <2>1. \A i \in DOMAIN devices : devices[i] \in Device
    BY <1>3
  <2>2. QED
    BY <1>4, <2>1, CardAssumption DEF Device
<1>6. /\ files' \in Tables /\ HeldIn(files', devices)
      /\ \A x \in CardsOf(devices) : x # fd /\ files'[x] = Card
  <2> DEFINE kind == "closed"
             now == [files EXCEPT ![fd] = kind]
  <2>1. kind \in Kinds
    BY DEF Kinds
  <2>2. files' = now
    BY <1>1
  <2> HIDE DEF kind
  <2>3. /\ now \in Tables /\ HeldIn(now, devices)
        /\ \A x \in CardsOf(devices) : x # fd /\ now[x] = Card
    <3>1. /\ files \in Tables /\ devices \in Seq(Device) /\ HeldIn(files, devices)
          /\ fd \in Fds
      BY <1>3, <1>4
    <3>2. QED
      BY <3>1, <1>5, <2>1, HeldElsewhere
  <2> HIDE DEF now
  <2>4. QED
    BY <2>2, <2>3
<1>7. RegisteredIn(sources', drmFd', files', epoll')
  BY <1>1, <1>2, <1>3, <1>4 DEF RegisteredIn, Tables
<1>8. HeardIn(drmFd, files, epoll, devices) => HeardIn(drmFd', files', epoll', devices)
  BY <1>1, <1>2, <1>6 DEF HeardIn
<1>9. WillHear(drmFd', files', epoll', devices', pending')
  BY <1>2, <1>3, <1>8 DEF WillHear
<1>10. QED
  BY <1>1, <1>2, <1>3, <1>6, <1>7, <1>9 DEF DevicesOK

\* The caller takes a device: it is bound at once if it is the card.
LEMMA TakeDeviceStep ==
  ASSUME NEW path \in Paths, DevicesOK, TakeDevice(path)
  PROVE  DevicesOK'
<1> DEFINE fd == LowestFree(files)
           one == [path |-> path, fd |-> fd]
           held == Append(devices, one)
           table == [files EXCEPT ![fd] = path]
           cards == IF path = Card THEN {fd} ELSE {}
           n == Len(devices)
<1>1. /\ pending = <<>> /\ ~Holds(path) /\ HasFree(files)
      /\ files' = table /\ devices' = held /\ RebindTo(cards, table, epoll)
      /\ unread' = unread /\ sources' = sources /\ pending' = pending
  BY DEF TakeDevice
<1>2. /\ files \in Tables /\ unread \in SUBSET Kinds /\ devices \in Seq(Device)
      /\ sources \in SUBSET Fds /\ epoll \in SUBSET Fds /\ drmFd \in Fds \cup {0}
      /\ pending \in Seq(Told)
      /\ HeldIn(files, devices) /\ RegisteredIn(sources, drmFd, files, epoll)
      /\ NoneResumed(pending) /\ HeardIn(drmFd, files, epoll, devices)
  BY <1>1, NothingPending DEF DevicesOK
<1>3. fd \in Fds /\ files[fd] = "closed" /\ path \in Kinds /\ path \notin {"closed", "source"}
  BY <1>1, <1>2, LowestIsFree, CardAssumption DEF Kinds
<1> HIDE DEF fd
<1>4. one \in Device /\ one.path = path /\ one.fd = fd
  BY <1>3 DEF Device
<1> HIDE DEF one
<1>5. /\ held \in Seq(Device) /\ n \in Nat /\ DOMAIN devices = 1..n
      /\ DOMAIN held = 1..n + 1 /\ held[n + 1] = one
      /\ \A i \in 1..n : held[i] = devices[i] /\ devices[i] \in Device
  BY <1>2, <1>4, AppendIsLast
<1>6. \A i \in 1..n + 1 : i \in 1..n \/ i = n + 1
  BY <1>5
<1> HIDE DEF n, held
<1>7. \A i \in 1..n : devices[i].path # files[fd] /\ devices[i].path # path
  <2>1. \A i \in 1..n : devices[i].path # path
    BY <1>1, <1>5 DEF Holds
  <2>2. QED
    BY <1>3, <1>5, <2>1, CardAssumption DEF Device
<1>8. /\ table \in Tables /\ HeldIn(table, devices)
      /\ \A x \in CardsOf(devices) : x # fd /\ table[x] = Card
  BY <1>2, <1>3, <1>5, <1>7, HeldElsewhere
<1>9. table[fd] = path /\ \A x \in sources : table[x] = "source"
  BY <1>2, <1>3 DEF RegisteredIn, Tables
<1> HIDE DEF table
<1>10. HeldIn(table, held)
  <2>1. \A i \in 1..n + 1 : table[held[i].fd] = held[i].path
    BY <1>4, <1>5, <1>6, <1>8, <1>9 DEF HeldIn
  <2>2. \A i, j \in 1..n : devices[i].path = devices[j].path => i = j
    BY <1>5, <1>8 DEF HeldIn
  <2>3. \A i, j \in 1..n + 1 : held[i].path = held[j].path => i = j
    BY <1>4, <1>5, <1>6, <1>7, <2>2
  <2>4. QED
    BY <1>5, <2>1, <2>3 DEF HeldIn
<1>11. /\ epoll' \in SUBSET Fds /\ drmFd' \in Fds \cup {0}
       /\ RegisteredIn(sources, drmFd', table, epoll')
       /\ HeardIn(drmFd', table, epoll', held)
  <2>1. CASE path = Card
    <3>1. cards \in SUBSET Fds /\ cards # {} /\ cards = {fd}
      BY <1>3, <2>1
    <3> HIDE DEF cards
    <3>2. /\ epoll' \in SUBSET Fds /\ drmFd' \in Fds \cup {0}
          /\ sources \subseteq epoll' /\ drmFd' \notin sources
          /\ epoll' \subseteq sources \cup {drmFd'}
          /\ \A x : cards = {x} /\ table[x] \notin {"closed", "source"} =>
               drmFd' = x /\ x \in epoll'
      BY <1>1, <1>2, <1>9, <3>1, RebindKeeps
    <3>3. drmFd' = fd /\ fd \in epoll'
      BY <1>3, <1>9, <3>1, <3>2
    <3>4. \A x \in CardsOf(held) : x = fd
      BY <1>4, <1>5, <1>6, <1>7, <2>1 DEF CardsOf
    <3>5. HeardIn(drmFd', table, epoll', held)
      BY <1>9, <2>1, <3>3, <3>4 DEF HeardIn
    <3>6. RegisteredIn(sources, drmFd', table, epoll')
      BY <1>9, <3>2 DEF RegisteredIn
    <3>7. QED
      BY <3>2, <3>5, <3>6
  <2>2. CASE path # Card
    <3>1. epoll' = epoll /\ drmFd' = drmFd
      BY <1>1, <2>2 DEF RebindTo
    <3>2. CardsOf(held) \subseteq CardsOf(devices)
      BY <1>4, <1>5, <1>6, <2>2 DEF CardsOf
    <3>3. HeardIn(drmFd', table, epoll', held)
      BY <1>2, <1>8, <3>1, <3>2 DEF HeardIn
    <3>4. RegisteredIn(sources, drmFd', table, epoll')
      BY <1>2, <1>9, <3>1 DEF RegisteredIn
    <3>5. QED
      BY <1>2, <3>1, <3>3, <3>4
  <2>3. QED
    BY <2>1, <2>2
<1>12. HeldIn(files', devices') /\ RegisteredIn(sources', drmFd', files', epoll')
       /\ WillHear(drmFd', files', epoll', devices', pending')
  BY <1>1, <1>2, <1>10, <1>11 DEF WillHear
<1>13. files' \in Tables /\ devices' \in Seq(Device)
  BY <1>1, <1>5, <1>8
<1>14. QED
  BY <1>1, <1>2, <1>11, <1>12, <1>13 DEF DevicesOK

\* What is left of a list with one removed was in it, elsewhere than there.
LEMMA RemovedIs ==
  ASSUME NEW S, NEW s \in Seq(S), NEW i \in DOMAIN s
  PROVE  /\ RemoveAt(s, i) \in Seq(S)
         /\ \A k \in DOMAIN RemoveAt(s, i) :
              LET from == IF k < i THEN k ELSE k + 1
              IN from \in DOMAIN s /\ from # i /\ RemoveAt(s, i)[k] = s[from]
<1> DEFINE n == Len(s)
           front == SubSeq(s, 1, i - 1)
           back == SubSeq(s, i + 1, n)
<1>1. n \in Nat /\ DOMAIN s = 1..n /\ i \in 1..n /\ \A k \in 1..n : s[k] \in S
  OBVIOUS
<1>2. /\ front \in Seq(S) /\ Len(front) = i - 1
      /\ \A k \in 1..i - 1 : front[k] = s[k]
  <2>1. \A k \in 1..i - 1 : s[k] \in S
    BY <1>1
  <2> HIDE DEF front
  <2>2. /\ front \in Seq(S) /\ Len(front) = IF 1 <= i - 1 THEN i - 1 - 1 + 1 ELSE 0
        /\ \A k \in 1..i - 1 - 1 + 1 : front[k] = s[1 + k - 1]
    BY <1>1, <2>1, SubSeqProperties DEF front
  <2>3. QED
    BY <1>1, <2>2
<1>3. /\ back \in Seq(S) /\ Len(back) = n - i
      /\ \A k \in 1..n - i : back[k] = s[i + k]
  <2>1. \A k \in i + 1..n : s[k] \in S
    BY <1>1
  <2> HIDE DEF back
  <2>2. /\ back \in Seq(S) /\ Len(back) = IF i + 1 <= n THEN n - (i + 1) + 1 ELSE 0
        /\ \A k \in 1..n - (i + 1) + 1 : back[k] = s[i + 1 + k - 1]
    BY <1>1, <2>1, SubSeqProperties DEF back
  <2>3. n - (i + 1) + 1 = n - i /\ \A k \in 1..n - i : i + 1 + k - 1 = i + k
    BY <1>1
  <2>4. Len(back) = n - i
    BY <1>1, <2>2
  <2>5. QED
    BY <2>2, <2>3, <2>4
<1>4. RemoveAt(s, i) = front \o back
  BY DEF RemoveAt
<1> HIDE DEF front, back, n
<1>5. /\ front \o back \in Seq(S) /\ DOMAIN (front \o back) = 1..n - 1
      /\ \A k \in 1..n - 1 :
           (front \o back)[k] = IF k <= i - 1 THEN front[k] ELSE back[k - (i - 1)]
  <2>1. /\ front \o back \in Seq(S) /\ Len(front \o back) = Len(front) + Len(back)
        /\ \A k \in 1..Len(front) + Len(back) :
             (front \o back)[k] = IF k <= Len(front) THEN front[k] ELSE back[k - Len(front)]
    BY <1>2, <1>3, ConcatProperties
  <2>2. Len(front) + Len(back) = n - 1
    BY <1>1, <1>2, <1>3
  <2>3. DOMAIN (front \o back) = 1..n - 1
    BY <2>1, <2>2
  <2>4. QED
    BY <1>2, <2>1, <2>2, <2>3
<1>6. ASSUME NEW k \in 1..n - 1
      PROVE  LET from == IF k < i THEN k ELSE k + 1
             IN from \in 1..n /\ from # i /\ (front \o back)[k] = s[from]
  <2>1. CASE k < i
    BY <1>1, <1>2, <1>5, <2>1
  <2>2. CASE ~(k < i)
    <3>1. k - (i - 1) \in 1..n - i /\ i + (k - (i - 1)) = k + 1 /\ ~(k <= i - 1)
      BY <1>1, <2>2
    <3>2. (front \o back)[k] = back[k - (i - 1)]
      BY <1>5, <3>1
    <3>3. back[k - (i - 1)] = s[k + 1]
      BY <1>3, <3>1
    <3>4. k + 1 \in 1..n /\ k + 1 # i
      BY <1>1, <2>2
    <3>5. QED
      BY <2>2, <3>2, <3>3, <3>4
  <2>3. QED
    BY <2>1, <2>2
<1>7. QED
  BY <1>1, <1>4, <1>5, <1>6

\* The caller gives a device up: the file closed is that of no other.
LEMMA ReleaseDeviceStep ==
  ASSUME NEW path \in Paths, DevicesOK, ReleaseDevice(path)
  PROVE  DevicesOK'
<1>1. PICK i \in DOMAIN devices :
        /\ devices[i].path = path
        /\ devices' = RemoveAt(devices, i)
        /\ files' = [files EXCEPT ![devices[i].fd] = "closed"]
        /\ epoll' = epoll \ {devices[i].fd}
  BY DEF ReleaseDevice
<1> DEFINE fd == devices[i].fd
           left == RemoveAt(devices, i)
           kind == "closed"
           table == [files EXCEPT ![fd] = kind]
           From(k) == IF k < i THEN k ELSE k + 1
<1>2. /\ pending = <<>> /\ unread' = unread \ {path} /\ drmFd' = drmFd /\ sources' = sources
      /\ pending' = pending
  BY DEF ReleaseDevice
<1>3. /\ files \in Tables /\ unread \in SUBSET Kinds /\ devices \in Seq(Device)
      /\ sources \in SUBSET Fds /\ epoll \in SUBSET Fds /\ drmFd \in Fds \cup {0}
      /\ pending \in Seq(Told)
      /\ HeldIn(files, devices) /\ RegisteredIn(sources, drmFd, files, epoll)
      /\ NoneResumed(pending) /\ HeardIn(drmFd, files, epoll, devices)
  BY <1>2, NothingPending DEF DevicesOK
<1>4. fd \in Fds /\ files[fd] = path /\ devices[i] \in Device /\ i \in 1..Len(devices)
      /\ DOMAIN devices = 1..Len(devices)
  <2>1. devices[i] \in Device
    BY <1>3
  <2>2. QED
    BY <1>1, <1>3, <2>1 DEF Device, HeldIn
<1>5. /\ left \in Seq(Device)
      /\ \A k \in DOMAIN left : From(k) \in DOMAIN devices /\ From(k) # i
                                /\ left[k] = devices[From(k)]
  BY <1>3, RemovedIs
<1>6. \A k, l \in DOMAIN left : From(k) = From(l) => k = l
  <2>1. \A k \in DOMAIN left : k \in 1..Len(left)
    BY <1>5
  <2>2. QED
    BY <1>4, <1>5, <2>1
<1> HIDE DEF fd, left, From
<1>7. HeldIn(files, left)
  BY <1>3, <1>5, <1>6 DEF HeldIn
<1>8. \A k \in DOMAIN left : left[k].path # files[fd]
  BY <1>1, <1>3, <1>4, <1>5 DEF HeldIn
<1>9. kind \in Kinds
  BY DEF Kinds
<1>10. files' = table /\ devices' = left /\ epoll' = epoll \ {fd}
  BY <1>1 DEF fd, left
<1> HIDE DEF kind
<1>11. /\ table \in Tables /\ HeldIn(table, left)
       /\ \A x \in CardsOf(left) : x # fd /\ table[x] = Card
  <2>1. files \in Tables
    BY <1>3
  <2>2. fd \in Fds
    BY <1>4
  <2>3. left \in Seq(Device)
    BY <1>5
  <2>4. QED
    BY <1>7, <1>8, <1>9, <2>1, <2>2, <2>3, HeldElsewhere
<1>12. CardsOf(left) \subseteq CardsOf(devices)
  BY <1>5 DEF CardsOf
<1>13. path \notin {"closed", "source"}
  BY CardAssumption
<1>14. fd \notin sources /\ \A x \in sources : table[x] = "source"
  BY <1>3, <1>4, <1>13 DEF RegisteredIn, Tables
<1> HIDE DEF table
<1>15. RegisteredIn(sources, drmFd, table, epoll')
  BY <1>3, <1>10, <1>14 DEF RegisteredIn
<1>16. HeardIn(drmFd, table, epoll', left)
  BY <1>3, <1>10, <1>11, <1>12 DEF HeardIn
<1>17. HeldIn(files', devices') /\ RegisteredIn(sources', drmFd', files', epoll')
       /\ WillHear(drmFd', files', epoll', devices', pending')
  BY <1>2, <1>3, <1>10, <1>11, <1>15, <1>16 DEF WillHear
<1>18. files' \in Tables /\ devices' \in Seq(Device) /\ epoll' \in SUBSET Fds
  BY <1>3, <1>5, <1>10, <1>11
<1>19. QED
  BY <1>2, <1>3, <1>17, <1>18 DEF DevicesOK

-----------------------------------------------------------------------------
(* The seat and the waits.                                                 *)

\* The seat's latest word is the last on its way.
LEMMA SeatSaysStep ==
  ASSUME NEW event \in {"Enable", "Disable"}, SeatOK, SeatSays(event)
  PROVE  SeatOK'
<1> DEFINE words == {"Enable", "Disable"}
           n == Len(inbox)
           longer == Append(inbox, event)
<1>1. /\ inbox' = longer /\ seatEnabled' = (event = "Enable")
      /\ UNCHANGED <<active, ackRefused>>
  BY DEF SeatSays
<1>2. inbox \in Seq(words) /\ event \in words
  BY DEF SeatOK
<1> HIDE DEF words
<1>3. longer \in Seq(words) /\ n \in Nat /\ DOMAIN longer = 1..n + 1 /\ longer[n + 1] = event
  BY <1>2, AppendIsLast
<1>4. Len(longer) = n + 1 /\ longer # <<>>
  BY <1>3
<1> HIDE DEF longer, n
<1>5. SeatHeard'
  BY <1>1, <1>3, <1>4 DEF SeatHeard
<1>6. active \in BOOLEAN /\ ackRefused \in BOOLEAN
  BY DEF SeatOK
<1>7. QED
  BY <1>1, <1>3, <1>5, <1>6 DEF SeatOK, words

\* What comes after the first enable ends as the whole did.
LEMMA DrainedIs ==
  ASSUME NEW S, NEW events \in Seq(S)
  PROVE  LET left == DrainThroughActivation(events)
         IN /\ left \in Seq(S)
            /\ left # <<>> => events # <<>> /\ left[Len(left)] = events[Len(events)]
            /\ left = <<>> /\ Contains(events, "Enable") =>
                 events # <<>> /\ events[Len(events)] = "Enable"
<1> DEFINE n == Len(events)
           enables == {i \in DOMAIN events : events[i] = "Enable"}
           first == Min(enables)
           rest == SubSeq(events, first + 1, n)
           left == DrainThroughActivation(events)
<1>1. n \in Nat /\ DOMAIN events = 1..n /\ \A i \in 1..n : events[i] \in S
  OBVIOUS
<1>2. left = IF enables = {} THEN <<>> ELSE rest
  BY DEF DrainThroughActivation
<1>3. Contains(events, "Enable") <=> enables # {}
  BY <1>1 DEF Contains
<1> HIDE DEF left
<1>4. CASE enables = {}
  <2>1. left = <<>> /\ ~Contains(events, "Enable")
    BY <1>2, <1>3, <1>4
  <2>2. QED
    BY <2>1 DEF left
<1>5. CASE enables # {}
  <2>1. first \in enables
    <3>1. enables \in SUBSET Nat
      BY <1>1
    <3> HIDE DEF enables
    <3>2. QED
      BY <1>5, <3>1, LeastIsIn DEF Min
  <2>2. first \in 1..n /\ events[first] = "Enable"
    BY <1>1, <2>1
  <2> HIDE DEF first
  <2>3. /\ rest \in Seq(S) /\ Len(rest) = IF first + 1 <= n THEN n - (first + 1) + 1 ELSE 0
        /\ \A i \in 1..n - (first + 1) + 1 : rest[i] = events[first + 1 + i - 1]
    <3>1. \A i \in first + 1..n : events[i] \in S
      BY <1>1, <2>2
    <3> HIDE DEF n
    <3>2. first + 1 \in Int /\ n \in Int
      BY <1>1, <2>2
    <3>3. QED
      BY <3>1, <3>2, SubSeqProperties
  <2> HIDE DEF rest, n
  <2>4. left = rest
    BY <1>2, <1>5
  <2>5. CASE first = n
    <3>1. Len(rest) = 0
      BY <1>1, <2>3, <2>5
    <3>2. rest = <<>>
      BY <2>3, <3>1
    <3>3. n # 0
      BY <2>2
    <3>4. QED
      BY <1>1, <2>2, <2>3, <2>4, <2>5, <3>2, <3>3 DEF left, n
  <2>6. CASE first # n
    <3>1. Len(rest) = n - first /\ n - first \in 1..n - (first + 1) + 1
          /\ first + 1 + (n - first) - 1 = n
      BY <1>1, <2>2, <2>3, <2>6
    <3>2. rest[Len(rest)] = events[n]
      BY <2>3, <3>1
    <3>3. Len(rest) # 0 /\ n # 0
      BY <1>1, <2>2, <2>6, <3>1
    <3>4. rest # <<>> /\ events # <<>>
      BY <2>3, <3>3 DEF n
    <3>5. QED
      BY <2>3, <2>4, <3>2, <3>4 DEF left, n
  <2>7. QED
    BY <2>5, <2>6
<1>6. QED
  BY <1>4, <1>5

\* The session is opened by the seat's first enable, and keeps what follows.
LEMMA ActivationStep == SeatOK /\ WaitOK /\ ActivationReturns => SeatOK'
<1> SUFFICES ASSUME SeatOK, WaitOK, ActivationReturns PROVE SeatOK'
  OBVIOUS
<1> DEFINE words == {"Enable", "Disable"}
           left == DrainThroughActivation(inbox)
<1>1. /\ inbox \in Seq(words) /\ active \in BOOLEAN /\ seatEnabled \in BOOLEAN
      /\ inbox # <<>> => (inbox[Len(inbox)] = "Enable") = seatEnabled
      /\ ackRefused \in BOOLEAN
  BY DEF SeatOK, SeatHeard
<1>2. /\ inbox' = left /\ seatEnabled' = seatEnabled /\ ackRefused' = ackRefused
      /\ \/ Contains(inbox, "Enable") /\ opened' = "open" /\ active' = TRUE
         \/ opened' = "failed" /\ active' = active
         \/ opened' = "opening" /\ active' = active
  BY DEF ActivationReturns, WaitOK, Opening
<1> HIDE DEF words
<1>3. /\ left \in Seq(words)
      /\ left # <<>> => inbox # <<>> /\ left[Len(left)] = inbox[Len(inbox)]
      /\ left = <<>> /\ Contains(inbox, "Enable") =>
           inbox # <<>> /\ inbox[Len(inbox)] = "Enable"
  BY <1>1, DrainedIs
<1> HIDE DEF left
<1>4. SeatHeard'
  BY <1>1, <1>2, <1>3 DEF SeatHeard
<1>5. active' \in BOOLEAN
  BY <1>1, <1>2
<1>6. QED
  BY <1>1, <1>2, <1>3, <1>4, <1>5 DEF SeatOK, words

\* The larger and the smaller of two numbers are numbers.
LEMMA OfTwo ==
  ASSUME NEW a \in Int, NEW b \in Int
  PROVE  Max({a, b}) \in Int /\ Min({a, b}) \in Int
<1>1. \E x \in {a, b} : \A y \in {a, b} : x >= y
  OBVIOUS
<1>2. \E x \in {a, b} : \A y \in {a, b} : x <= y
  OBVIOUS
<1>3. Max({a, b}) \in {a, b} /\ Min({a, b}) \in {a, b}
  BY <1>1, <1>2 DEF Max, Min
<1>4. QED
  BY <1>3

\* Every step leaves the wait one, for the seat only while the session opens.
LEMMA WaitSteps == WaitOK /\ [SessionNext]_<<pageFlipVars, sessionVars>> => WaitOK'
<1> SUFFICES ASSUME WaitOK, [SessionNext]_<<pageFlipVars, sessionVars>> PROVE WaitOK'
  OBVIOUS
<1>1. /\ wait \in Waits /\ (wait.kind = "activation" => opened = "opening")
      /\ wait.left \in Int /\ wait.timer \in Int
      /\ Budget \in Int /\ Slice \in Int
  BY WaitAssumption DEF WaitOK, Opening, Waits
<1>2. NoWait \in Waits /\ NoWait.kind # "activation"
  BY DEF NoWait, Waits
<1>3. CASE wait' = wait /\ opened' = opened
  BY <1>1, <1>3 DEF WaitOK, Opening
<1>4. CASE wait' = NoWait
  BY <1>2, <1>4 DEF WaitOK, Opening
<1>5. CASE BeginOpen
  <2> DEFINE timer == Min({Budget, Slice})
  <2>1. timer \in Int
    BY <1>1, OfTwo
  <2>2. wait' = [kind |-> "activation", left |-> Budget, timer |-> timer, interrupted |-> FALSE]
        /\ opened' = "opening"
    BY <1>5 DEF BeginOpen, sessionVars
  <2> HIDE DEF timer
  <2>3. QED
    BY <1>1, <2>1, <2>2 DEF WaitOK, Opening, Waits
<1>6. CASE ActivationReturns
  <2> DEFINE timer == Min({wait.left, Slice})
  <2>1. timer \in Int
    BY <1>1, OfTwo
  <2>2. \/ wait' = NoWait
        \/ wait' = [wait EXCEPT !.timer = timer] /\ opened' = opened
    BY <1>6 DEF ActivationReturns
  <2> HIDE DEF timer
  <2>3. QED
    BY <1>1, <1>4, <2>1, <2>2 DEF WaitOK, Opening, Waits
<1>7. ASSUME NEW kind \in {"bounded", "infinite", "poll"}, BeginDispatch(kind), opened' = opened
      PROVE  WaitOK'
  <2> DEFINE timer == RemainingBudget(kind, Budget)
  <2>1. timer \in Int
    BY <1>1, OfTwo DEF RemainingBudget
  <2>2. wait' = [kind |-> kind, left |-> Budget, timer |-> timer, interrupted |-> FALSE]
    BY <1>7 DEF BeginDispatch
  <2> HIDE DEF timer
  <2>3. QED
    BY <1>1, <2>1, <2>2 DEF WaitOK, Opening, Waits
<1>8. CASE Signal /\ opened' = opened
  <2>1. wait' = [wait EXCEPT !.interrupted = TRUE]
    BY <1>8 DEF Signal
  <2>2. QED
    BY <1>1, <1>8, <2>1 DEF WaitOK, Opening, Waits
<1>9. CASE Retry /\ opened' = opened
  <2> DEFINE timer == RemainingBudget(wait.kind, wait.left)
  <2>1. timer \in Int
    BY <1>1, OfTwo DEF RemainingBudget
  <2>2. wait' = [wait EXCEPT !.interrupted = FALSE, !.timer = timer]
    BY <1>9 DEF Retry
  <2> HIDE DEF timer
  <2>3. QED
    BY <1>1, <1>9, <2>1, <2>2 DEF WaitOK, Opening, Waits
<1>10. CASE Tick /\ opened' = opened
  <2> DEFINE left == Max({wait.left - 1, -1})
             timer == IF wait.interrupted THEN wait.timer ELSE Max({wait.timer - 1, 0})
  <2>1. left \in Int /\ timer \in Int
    BY <1>1, OfTwo
  <2>2. wait' = [wait EXCEPT !.left = left, !.timer = timer]
    BY <1>10 DEF Tick
  <2> HIDE DEF left, timer
  <2>3. QED
    BY <1>1, <1>10, <2>1, <2>2 DEF WaitOK, Opening, Waits
<1>11. CASE UNCHANGED <<pageFlipVars, sessionVars>>
  BY <1>3, <1>11 DEF pageFlipVars, sessionVars
<1>12. CASE \E event \in {"Enable", "Disable"} : SeatSays(event)
  BY <1>3, <1>12 DEF SeatSays, pageFlipVars
<1>13. CASE ActivationFails \/ (DispatchReturns /\ UNCHANGED sessionVars)
  BY <1>4, <1>13 DEF ActivationFails, DispatchReturns
<1>14. CASE SessionDispatch \/ NextEvent
  <2>1. SessionDispatch => wait' = wait /\ opened' = opened
    BY DEF SessionDispatch
  <2>2. NextEvent => wait' = wait /\ opened' = opened
    BY DEF NextEvent
  <2>3. QED
    BY <1>3, <1>14, <2>1, <2>2
<1>15. CASE \E path \in Paths : TakeDevice(path) \/ ReleaseDevice(path)
  <2>1. \A path \in Paths : TakeDevice(path) => wait' = wait /\ opened' = opened
    BY DEF TakeDevice
  <2>2. \A path \in Paths : ReleaseDevice(path) => wait' = wait /\ opened' = opened
    BY DEF ReleaseDevice
  <2>3. QED
    BY <1>3, <1>15, <2>1, <2>2
<1>16. CASE (OpenSource \/ CloseSource \/ BecomesReadable) /\ UNCHANGED sessionVars
  BY <1>3, <1>16 DEF OpenSource, CloseSource, BecomesReadable, sessionVars
<1>17. QED
  BY <1>5, <1>6, <1>7, <1>8, <1>9, <1>10, <1>11, <1>12, <1>13, <1>14, <1>15, <1>16
     DEF SessionNext, sessionVars

-----------------------------------------------------------------------------

\* The session, its seat and the dispatcher keep the invariant, whatever the
\* seat says and the caller does, and whichever devices come back.
THEOREM SessionInvariance == LoopSpec => []SessionInv
<1>1. LoopInit => SessionInv
  <2> SUFFICES ASSUME LoopInit PROVE SessionInv
    OBVIOUS
  <2> DEFINE none == <<>>
  <2>1. /\ none \in Seq(Device) /\ none \in Seq(Told) /\ none \in Seq({"Enable", "Disable"})
        /\ DOMAIN none = {} /\ none = <<>>
    OBVIOUS
  <2>2. /\ files = [fd \in Fds |-> "closed"] /\ unread = {} /\ epoll = {}
        /\ drmFd = 0 /\ sources = {} /\ wait = NoWait
        /\ seatEnabled = FALSE /\ inbox = none /\ opened = "opening" /\ active = FALSE
        /\ devices = none /\ pending = none /\ ackRefused = FALSE
    BY DEF LoopInit, PageFlipInit, SessionInit
  <2> HIDE DEF none
  <2>3. CardsOf(devices) = {}
    BY <2>1, <2>2 DEF CardsOf
  <2>4. DevicesOK
    BY <2>1, <2>2, <2>3 DEF DevicesOK, Tables, Kinds, HeldIn, RegisteredIn, WillHear, HeardIn,
                            NoneResumed
  <2>5. SeatOK
    BY <2>1, <2>2 DEF SeatOK, SeatHeard
  <2>6. WaitOK
    BY <2>2 DEF WaitOK, Opening, Waits, NoWait
  <2>7. QED
    BY <2>4, <2>5, <2>6, Thirds
<1>2. SessionInv /\ [SessionNext]_<<pageFlipVars, sessionVars>> => SessionInv'
  <2> SUFFICES ASSUME SessionInv, [SessionNext]_<<pageFlipVars, sessionVars>>
               PROVE  SessionInv'
    OBVIOUS
  <2>1. DevicesOK /\ SeatOK /\ WaitOK /\ unread \in SUBSET Kinds /\ WaitOK'
    BY Thirds, WaitSteps DEF DevicesOK
  <2> SUFFICES DevicesOK' /\ SeatOK'
    BY <2>1, Thirds
  <2>2. ASSUME NEW event \in {"Enable", "Disable"}, SeatSays(event) PROVE DevicesOK' /\ SeatOK'
    BY <2>1, <2>2, DevicesStay, SeatSaysStep DEF SeatSays, pageFlipVars, deviceVars
  <2>3. CASE BeginOpen
    BY <2>1, <2>3, DevicesStay, SeatStays DEF BeginOpen, sessionVars, deviceVars, seatVars
  <2>4. CASE ActivationReturns
    BY <2>1, <2>4, DevicesStay, ActivationStep DEF ActivationReturns, deviceVars
  <2>5. CASE ActivationFails
    <3>1. SeatOK'
      BY <2>1, <2>5 DEF ActivationFails, SeatOK, SeatHeard
    <3>2. QED
      BY <2>1, <2>5, <3>1, DevicesStay DEF ActivationFails, deviceVars
  <2>6. CASE SessionDispatch
    <3>1. /\ inbox' = <<>> /\ drmFd' = drmFd /\ sources' = sources
          /\ seatEnabled' = seatEnabled
      BY <2>6 DEF SessionDispatch
    <3>2. /\ files' \in Tables /\ unread' \in SUBSET Kinds /\ epoll' \in SUBSET Fds
          /\ active' \in BOOLEAN /\ ackRefused' \in BOOLEAN
          /\ devices' \in Seq(Device) /\ pending' \in Seq(Told)
          /\ HeldIn(files', devices') /\ RegisteredIn(sources, drmFd, files', epoll')
          /\ WillHear(drmFd, files', epoll', devices', pending')
          /\ ackRefused' \/ active' = seatEnabled
      BY <2>6, DispatchKeeps
    <3>3. sources \in SUBSET Fds /\ drmFd \in Fds \cup {0} /\ seatEnabled \in BOOLEAN
      BY <2>1 DEF DevicesOK, SeatOK
    <3>4. DevicesOK'
      BY <3>1, <3>2, <3>3 DEF DevicesOK
    <3>5. SeatOK'
      BY <3>1, <3>2, <3>3 DEF SeatOK, SeatHeard
    <3>6. QED
      BY <3>4, <3>5
  <2>7. CASE NextEvent
    BY <2>1, <2>7, NextEventStep, SeatStays DEF NextEvent, seatVars
  <2>8. ASSUME NEW path \in Paths, TakeDevice(path) PROVE DevicesOK' /\ SeatOK'
    BY <2>1, <2>8, TakeDeviceStep, SeatStays DEF TakeDevice, seatVars
  <2>9. ASSUME NEW path \in Paths, ReleaseDevice(path) PROVE DevicesOK' /\ SeatOK'
    BY <2>1, <2>9, ReleaseDeviceStep, SeatStays DEF ReleaseDevice, seatVars
  <2>10. CASE UNCHANGED sessionVars
    <3>1. SeatOK' /\ devices' = devices /\ pending' = pending
      BY <2>1, <2>10, SeatStays DEF sessionVars, seatVars
    <3>2. CASE OpenSource \/ CloseSource
      BY <2>1, <2>10, <3>1, <3>2, OpenSourceStep, CloseSourceStep
    <3>3. ASSUME UNCHANGED <<files, epoll, drmFd, sources>>, unread' \in SUBSET Kinds
          PROVE  DevicesOK'
      BY <2>1, <3>1, <3>3, DevicesStay DEF deviceVars
    <3>4. CASE BecomesReadable
      <4>1. PICK fd \in epoll : unread' = unread \cup {files[fd]}
        BY <3>4 DEF BecomesReadable
      <4>2. files[fd] \in Kinds
        BY <2>1 DEF DevicesOK, Tables
      <4>3. QED
        BY <2>1, <3>1, <3>3, <3>4, <4>1, <4>2 DEF BecomesReadable
    <3>5. CASE DispatchReturns
      <4>1. unread' \subseteq unread /\ UNCHANGED <<files, epoll, drmFd, sources>>
        BY <3>5 DEF DispatchReturns
      <4>2. QED
        BY <2>1, <3>1, <3>3, <4>1
    <3>6. CASE \/ \E kind \in {"bounded", "infinite", "poll"} : BeginDispatch(kind)
               \/ Signal \/ Retry \/ Tick
      BY <2>1, <3>1, <3>3, <3>6 DEF BeginDispatch, Signal, Retry, Tick
    <3>7. CASE UNCHANGED pageFlipVars
      BY <2>1, <3>1, <3>3, <3>7 DEF pageFlipVars
    <3>8. CASE \/ UNCHANGED pageFlipVars
               \/ OpenSource \/ CloseSource \/ BecomesReadable \/ DispatchReturns
               \/ \E kind \in {"bounded", "infinite", "poll"} : BeginDispatch(kind)
               \/ Signal \/ Retry \/ Tick
      BY <3>1, <3>2, <3>4, <3>5, <3>6, <3>7, <3>8
    <3>9. QED
      BY <2>2, <2>3, <2>4, <2>5, <2>6, <2>7, <2>8, <2>9, <3>8, <3>1 DEF SessionNext
  <2>11. QED
    BY <2>2, <2>3, <2>4, <2>5, <2>6, <2>7, <2>8, <2>9, <2>10 DEF SessionNext
<1>3. QED
  BY <1>1, <1>2, PTL DEF LoopSpec

\* Once the caller has taken the session's events, the flips of the card held
\* reach the dispatcher; no rebind costs a source its registration; and a
\* session that has heard the seat out agrees with it.
THEOREM FlipsAreHeard == LoopSpec => []EventsAreHeard
<1>1. SessionInv => EventsAreHeard
  <2> SUFFICES ASSUME SessionInv PROVE EventsAreHeard
    OBVIOUS
  <2>1. DevicesOK /\ SeatHeard
    BY Thirds DEF SessionInv
  <2>2. pending = <<>> => HeardIn(drmFd, files, epoll, devices)
    BY <2>1, NothingPending
  <2>3. sources \subseteq epoll
    BY <2>1 DEF DevicesOK, RegisteredIn
  <2>4. QED
    BY <2>1, <2>2, <2>3 DEF EventsAreHeard, HeardIn, SeatHeard
<1>2. QED
  BY <1>1, SessionInvariance, PTL

=============================================================================
