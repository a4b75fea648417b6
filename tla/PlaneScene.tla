----------------------------- MODULE PlaneScene -----------------------------
(***************************************************************************)
(* A LayerScene, its Allocator and its composition canvas on a device: the *)
(* caller edits layers, builds a frame and commits it; the kernel answers  *)
(* tests and commits; the scene is rebound to another CRTC; another master *)
(* has the device for a while.  What becomes of the sources' buffers is    *)
(* LayerScene's matter; here a frame is the planes it arms.                *)
(*                                                                         *)
(* The layers are in slots; a layer's id is its slot and the slot's        *)
(* generation, as a handle packs them.                                     *)
(***************************************************************************)
EXTENDS PlaneAllocator, PlaneEmission, SequencesExt

CONSTANTS
  Devices,        \* what the device may be
  Crtcs,          \* its CRTCs
  Slots,          \* layer slots: 1..n
  KeepOf,         \* the keep priority of the layer in a slot
  Cells,          \* the cells of the screen
  Displays,       \* what a caller shows: records [zpos, rect, fmt]
  Scenes,         \* what scenes are first set up with: sequences of them
  CanvasFormat,   \* the canvas's format
  Blendable,      \* the formats the canvas can read
  Capacities,     \* planes the kernel may light at once
  ForeignFrames,  \* what another master may leave: functions plane -> CRTC
  MaxTests,       \* tests a search may spend
  MaxEdits,       \* bound: changes to the layers, the first added included
  MaxTurns,       \* bound: rebinds, switches and changes of the kernel's mind,
                  \* a rebind while the last one is not over not counted
  PinWhereZpos,   \* callers pin layers where planes take a zpos, too
  ShowEmptied     \* callers commit a scene whose layers are all gone

ASSUME PlaneSceneAssumption ==
  /\ Cardinality(Slots) \in Nat /\ Slots = 1..Cardinality(Slots)
  /\ \A i, j \in Slots : i # j => KeepOf[i] # KeepOf[j]
  /\ Crtcs # {} /\ Crtcs \subseteq Nat \ {0}
  /\ MaxTests \in Nat /\ MaxEdits \in Nat /\ MaxTurns \in Nat
  /\ PinWhereZpos \in BOOLEAN /\ ShowEmptied \in BOOLEAN

VARIABLES
  dev,           \* the device: never changes
  kernel,        \* the kernel's planes
  capacity,      \* planes it lights at once
  master,        \* this process may commit
  layers,        \* by slot: a layer or Vacant
  gens,          \* generations
  free,          \* freed slots, the last freed last
  hasCanvas,     \* composition is enabled: never changes
  crtc,          \* the CRTC the scene is bound to
  detach,        \* planes still to be turned off on a CRTC left behind
  planesUnknown, \* the scene does not know what the CRTC shows
  lastCanvas,    \* the plane the canvas was on
  pinVerdicts,   \* <<layer, plane, hash, accepted>> the pins were asked about
  al,            \* the allocator
  frame,         \* the frame built and not yet committed, or NoFrame
  suspended,     \* a commit found that master is lost
  steady,        \* accepted frames since anything changed, up to Settled
  unswept,       \* the first frame since then did not turn foreign planes off
  stale,         \* history: the kernel has taken no frame without pins since its
                 \* mind changed, or since the last one searched for or pinned
  forgot,        \* history: CRTCs the scene was rebound to while it lit them,
                 \* and has not swept since
  edits, turns   \* counted for the bounds

sceneVars  == <<layers, gens, free>>
kernelVars == <<kernel, capacity, master>>
vars == <<dev, kernelVars, sceneVars, hasCanvas, crtc, detach, planesUnknown,
          lastCanvas, pinVerdicts, al, frame, suspended, steady, stale, unswept,
          forgot, edits, turns>>

Settled  == 3
Vacant   == [vacant |-> TRUE]
NoFrame  == [built |-> FALSE]
NoDetach == [crtc |-> 0, planes |-> {}]
CanvasLayer == <<0, 1>>
Foreign     == <<0, 2>>

Occupied == {i \in Slots : layers[i] # Vacant}
IdOf(i)  == <<i, gens[i]>>
Shown    == {IdOf(i) : i \in Occupied}

-----------------------------------------------------------------------------
(* Lowering.                                                               *)

\* A pin is honoured on a plane that can show the layer and whose last verdict
\* was not a refusal.
PinHonored(i) ==
  LET ly == layers[i]
      cap == dev.planes[ly.pin]
      verdict == <<IdOf(i), ly.pin, <<ly.zpos, ly.rect, ly.fmt>>, FALSE>>
  IN /\ ly.pin # NoPlane
     /\ crtc \in cap.crtcs /\ cap.type # "cursor" /\ ly.fmt \in cap.formats
     /\ verdict \notin pinVerdicts

\* The one layer every other is above goes to the primary's only slot.
BottomSlot(zposes, pin) ==
  LET lowest == {i \in DOMAIN zposes : \A j \in DOMAIN zposes : zposes[i] <= zposes[j]}
  IN IF /\ \A i \in DOMAIN zposes : zposes[i] # NoZpos
        /\ Cardinality(lowest) = 1
        /\ \A i \in DOMAIN zposes \ lowest : zposes[i] > pin
       THEN lowest ELSE {}

FixedPrimary ==
  SelectSeq(ForCrtc(dev, crtc),
            LAMBDA p : dev.planes[p].type = "primary" /\ ZposFixed(dev.planes[p]))

Zposes == [i \in Occupied |-> layers[i].zpos]

LoweredZpos(i) ==
  LET pin == dev.planes[Head(FixedPrimary)].zmin
  IN IF FixedPrimary # <<>> /\ i \in BottomSlot(Zposes, pin) THEN pin ELSE layers[i].zpos

Lower(i) ==
  [id |-> IdOf(i), zpos |-> LoweredZpos(i), rect |-> layers[i].rect,
   fmt |-> layers[i].fmt, keep |-> KeepOf[i], forced |-> layers[i].forced,
   pin |-> IF PinHonored(i) THEN layers[i].pin ELSE NoPlane]

SlotOrder == SelectSeq([i \in 1..Cardinality(Slots) |-> i], LAMBDA i : i \in Occupied)

-----------------------------------------------------------------------------
(* The canvas's plane.                                                     *)

CanvasHosts ==
  IF ~hasCanvas THEN {}
  ELSE {p \in CandidateSet(dev, crtc) : CanvasFormat \in dev.planes[p].formats}

\* The plane it was on, then overlays, then the primary.
CanvasPlaneOrder(hosts) ==
  LET ofType(t) == SelectSeq(ForCrtc(dev, crtc), LAMBDA p :
                     p \in hosts \ {lastCanvas} /\ dev.planes[p].type = t)
  IN SelectSeq(<<lastCanvas>>, LAMBDA p : p \in hosts)
       \o ofType("overlay") \o ofType("primary")

FirstOf(s) == IF s = <<>> THEN {} ELSE {Head(s)}

\* The primary when no layer can anchor it, else a plane when there are more
\* layers than planes that could carry the canvas.  zposes as lowered.
CanvasReservation ==
  LET primaries == SelectSeq(ForceDisableCandidates(dev, crtc),
                             LAMBDA p : dev.planes[p].type = "primary")
      primary == Head(primaries)
      cap     == dev.planes[primary]
      lowered == [i \in Occupied |-> LoweredZpos(i)]
      anyoneEligible ==
        \/ \E i \in Occupied : lowered[i] \in {NoZpos, cap.zmin}
        \/ ZposFixed(cap) /\ BottomSlot(lowered, cap.zmin) # {}
  IN IF ~hasCanvas \/ StacksByPlaneId(dev, crtc) THEN {}
     ELSE IF /\ Occupied # {} /\ primaries # <<>> /\ cap.zmin # NoZpos
             /\ primary \in CanvasHosts /\ ~anyoneEligible
       THEN {primary}
     ELSE IF Cardinality(Occupied) > Cardinality(CanvasHosts)
       THEN FirstOf(SelectSeq(CanvasPlaneOrder(CanvasHosts),
                              LAMBDA p : ~IsMultirectVirtual(dev, p)))
     ELSE {}

CanvasZpos == 1 + Max({0} \cup {layers[i].zpos : i \in Occupied})

-----------------------------------------------------------------------------
(* Allocation.                                                             *)

Surroundings(reserved) ==
  [dev |-> dev, crtc |-> crtc, capacity |-> capacity, master |-> master,
   busy |-> LitElsewhere(kernel, crtc), maxTests |-> MaxTests,
   cursors |-> Lit(kernel, crtc) \ CandidateSet(dev, crtc),
   ly |-> [l \in Shown |-> Lower(l[1])],
   ids |-> [k \in DOMAIN SlotOrder |-> IdOf(SlotOrder[k])],
   reserved |-> reserved,
   hold |-> IF reserved = {} THEN NoPlane ELSE Min(reserved),
   hosts |-> CanvasHosts, canvas |-> hasCanvas]

Heated == IF \E i \in Occupied : layers[i].hintsDirty
            THEN InvalidateAllocation(al) ELSE al

\* Something is composited, no plane was tested for the canvas, and one is free.
Spare(first) ==
  IF \/ ~hasCanvas \/ first.composited = {} \/ first.al.canvas # NoPlane
     \/ StacksByPlaneId(dev, crtc)
    THEN {}
    ELSE FirstOf(SelectSeq(CanvasPlaneOrder(CanvasHosts),
           LAMBDA p : p \notin DOMAIN first.a /\ ~IsMultirectVirtual(dev, p)))

AllocateAgain(first) ==
  IF first.notMaster \/ Spare(first) = {} THEN first
  ELSE [Allocate(Surroundings(Spare(first)), first.al) EXCEPT !.tests = @ + first.tests]

AllocateWithCanvas == AllocateAgain(Allocate(Surroundings(CanvasReservation), Heated))

\* The pins not asked about yet, one test each, beside what is placed and the
\* pins already accepted.
PinsAsked(allocation) ==
  LET e == Surroundings({})
      pins == SelectSeq(SlotOrder, PinHonored)
      hash(i) == PropertyHash(Lower(i))
      known(i) == <<IdOf(i), layers[i].pin, hash(i), TRUE>> \in pinVerdicts
      ask(acc, i) ==
        LET asked == acc.armed \cup {layers[i].pin}
            fits  == TestAssignment(e, asked)
        IN IF known(i) THEN acc
           ELSE [armed |-> IF fits THEN asked ELSE acc.armed,
                 tests |-> acc.tests + 1,
                 refused |-> IF fits THEN acc.refused ELSE acc.refused \cup {IdOf(i)},
                 verdicts |-> acc.verdicts \cup {<<IdOf(i), layers[i].pin, hash(i), fits>>}]
  IN FoldLeft(ask,
              [armed |-> DOMAIN allocation.a
                 \cup {layers[i].pin : i \in {j \in Occupied : PinHonored(j) /\ known(j)}},
               tests |-> 0, refused |-> {}, verdicts |-> pinVerdicts],
              pins)

-----------------------------------------------------------------------------
(* The frame.                                                              *)

\* The plane of the canvas: the one it was tested on, else the topmost free
\* plane where planes stack by id, else the first free one in its order.
CanvasPlane(allocation) ==
  LET isFree(p) == /\ p \notin DOMAIN allocation.a
                   /\ MultirectPairingOk(dev, p, DOMAIN allocation.a)
      tested == {p \in {allocation.al.canvas} \ {NoPlane} : isFree(p)}
      others == {p \in CandidateSet(dev, crtc) : isFree(p)}
  IN IF tested # {} THEN tested
     ELSE IF StacksByPlaneId(dev, crtc)
       THEN IF others = {} THEN {} ELSE {Max(others)}
     ELSE FirstOf(SelectSeq(CanvasPlaneOrder(CanvasHosts), isFree))

\* What the canvas can read of what was left to it.
Composition(allocation, composited) ==
  IF hasCanvas /\ \E l \in composited : layers[l[1]].fmt \in Blendable
    THEN CanvasPlane(allocation) ELSE {}

CanvasSlotOrTop(allocation) ==
  IF allocation.al.slot # NoZpos THEN allocation.al.slot ELSE CanvasZpos

Tags(fb, rect, zpos) ==
  [t \in {"fb", "crtc", "rect"} \cup (IF zpos = NoZpos THEN {} ELSE {"zpos"}) |->
     CASE t = "fb" -> fb [] t = "crtc" -> crtc [] t = "rect" -> rect [] t = "zpos" -> zpos]

\* Which planes which of the scene's layers are put on.  A later layer's entry
\* for a plane comes after an earlier one's.
Placement(allocation, refused) ==
  {<<p, allocation.a[p]>> : p \in {q \in DOMAIN allocation.a : allocation.a[q] \in Shown}}
    \cup {<<layers[i].pin, IdOf(i)>> :
            i \in {j \in Occupied : PinHonored(j) /\ IdOf(j) \notin refused}}

LayerPlan(placed) ==
  LET last(p) == CHOOSE l \in {pl[2] : pl \in {q \in placed : q[1] = p}} :
                   \A pl \in placed : pl[1] = p => pl[2][1] <= l[1]
      entry(p) == LET ly == Lower(last(p)[1])
                  IN [layer |-> ly.id, tags |-> Tags(ly.id, ly.rect, ly.zpos),
                      hash |-> PropertyHash(ly), base |-> NoTags]
  IN [p \in {pl[1] : pl \in placed} |-> entry(p)]

CanvasEntry(zpos) ==
  [layer |-> CanvasLayer, tags |-> Tags(CanvasLayer, Cells, zpos),
   hash |-> <<zpos, Cells, CanvasFormat>>, base |-> NoTags]

\* Diff against what the plane's last commit carried for the same layer.
WithBaselines(plan, committed) ==
  [p \in DOMAIN plan |->
     [plan[p] EXCEPT !.base = CommittedBaseline([committed |-> committed], p, plan[p].layer)]]

ZposAsked(plan) ==
  [p \in DOMAIN plan |-> IF "zpos" \in DOMAIN plan[p].tags THEN plan[p].tags.zpos ELSE NoZpos]

\* The values written: the canvas beneath the plane whose zpos it shares, or
\* above all when no stack has it there.
StackPlan(plan, canvas, slotted) ==
  LET top == [p \in DOMAIN plan |->
                IF p \in canvas /\ slotted THEN CanvasEntry(CanvasZpos) ELSE plan[p]]
      beneath == StackZpos(dev, ZposAsked(plan), IF canvas = {} THEN NoPlane ELSE Min(canvas))
      kept    == IF slotted /\ canvas # {} /\ beneath.fits THEN plan ELSE top
      stack   == IF slotted /\ canvas # {} /\ beneath.fits THEN beneath
                 ELSE StackZpos(dev, ZposAsked(top), NoPlane)
  IN [p \in DOMAIN plan |->
        IF stack.written[p] = NoZpos THEN kept[p]
        ELSE [kept[p] EXCEPT !.tags = [@ EXCEPT !.zpos = stack.written[p]]]]

\* The foreign planes forgotten.
DisablesOwn(planned, readable) ==
  IF Occupied = {} THEN {}
  ELSE {p \in CandidateSet(dev, crtc) : ~PlaneIsOff(al, p)} \ DOMAIN planned.plan

\* Planes the scene left lit and, while what the CRTC shows is unknown,
\* planes anyone did; none when the scene has no layers.
Disables(planned, readable) ==
  LET candidates == CandidateSet(dev, crtc)
      own     == {p \in candidates : ~PlaneIsOff(al, p)}
      lit     == IF readable THEN Lit(kernel, crtc) ELSE candidates
      foreign == IF planesUnknown /\ planned.places THEN candidates \cap lit ELSE {}
  IN IF Occupied = {} THEN {} ELSE (own \cup foreign) \ DOMAIN planned.plan

Planned(allocation, asked) ==
  LET composited == allocation.composited \cup asked.refused
      canvas     == Composition(allocation, composited)
      placed     == Placement(allocation, asked.refused)
      layerPlan  == WithBaselines(LayerPlan(placed), allocation.al.committed)
      plan       == [p \in canvas \cup DOMAIN layerPlan |->
                       IF p \in canvas THEN CanvasEntry(CanvasSlotOrTop(allocation))
                       ELSE layerPlan[p]]
      slotted    == allocation.al.slot # NoZpos
  IN [built |-> TRUE, plan |-> StackPlan(plan, canvas, slotted),
      placed |-> placed, composited |-> composited, canvas |-> canvas,
      pinned |-> DOMAIN layerPlan \ DOMAIN allocation.a,
      places |-> DOMAIN layerPlan # {}, fast |-> allocation.fast,
      tests |-> allocation.tests + asked.tests,
      real |-> FALSE, blind |-> FALSE, disables |-> {}]

\* The hints stay dirty.
FrameBuiltDirty(allocation, asked, planned) ==
  /\ al' = IF asked.refused = {} THEN allocation.al
           ELSE InvalidateAllocation(allocation.al)
  /\ pinVerdicts' = asked.verdicts
  /\ lastCanvas' = IF planned.canvas = {} THEN NoPlane ELSE Min(planned.canvas)
  /\ stale' = (stale \/ ~planned.fast \/ planned.pinned # {})
  /\ \E real, readable \in BOOLEAN :
       /\ planesUnknown \/ readable
       /\ frame' = [planned EXCEPT !.real = real, !.blind = ~readable,
                                    !.disables = Disables(planned, readable)]
  /\ UNCHANGED layers

FrameBuilt(allocation, asked, planned) ==
  /\ al' = IF asked.refused = {} THEN allocation.al
           ELSE InvalidateAllocation(allocation.al)
  /\ pinVerdicts' = asked.verdicts
  /\ lastCanvas' = IF planned.canvas = {} THEN NoPlane ELSE Min(planned.canvas)
  /\ layers' = [i \in Slots |-> IF layers[i] = Vacant THEN Vacant
                                ELSE [layers[i] EXCEPT !.hintsDirty = FALSE]]
  /\ stale' = (stale \/ ~planned.fast \/ planned.pinned # {})
  /\ \E real, readable \in BOOLEAN :
       /\ planesUnknown \/ readable
       /\ frame' = [planned EXCEPT !.real = real, !.blind = ~readable,
                                    !.disables = Disables(planned, readable)]

BuildFrame ==
  /\ frame = NoFrame /\ ~suspended /\ detach = NoDetach
  /\ ShowEmptied \/ Occupied # {} \/ LitPlanes(al) = {}
  /\ \E allocation \in {AllocateWithCanvas} :
     \E asked \in {PinsAsked(allocation)} :
       IF allocation.notMaster \/ (~master /\ asked.tests > 0)
         THEN al' = allocation.al /\ UNCHANGED <<layers, pinVerdicts, lastCanvas, frame, stale>>
         ELSE FrameBuilt(allocation, asked, Planned(allocation, asked))
  /\ UNCHANGED <<dev, kernelVars, gens, free, hasCanvas, crtc, detach,
                 planesUnknown, suspended, steady, unswept, forgot, edits, turns>>

-----------------------------------------------------------------------------
(* The commit.                                                             *)

Answer(busy) ==
  IF ~master THEN "NotMaster"
  ELSE IF busy \/ ~KernelTakes(dev, kernel, frame.plan, frame.disables, crtc, capacity)
    THEN "Rejected" ELSE "Ok"

\* A real commit the kernel took is the baseline the next one is diffed
\* against.  A test commit changes nothing, whatever its answer.
CommitFrame(busy) ==
  LET took == frame.real /\ Answer(busy) = "Ok"
  IN /\ frame # NoFrame
     /\ frame' = NoFrame
     /\ kernel' = IF took THEN AfterCommit(dev, kernel, frame.plan, frame.disables)
                  ELSE kernel
     /\ al' = IF took THEN [al EXCEPT !.committed = RecordCommit(frame.plan)]
              ELSE IF frame.real /\ Answer(busy) = "Rejected" /\ frame.fast
                THEN InvalidateAllocation(al) ELSE al
     /\ planesUnknown' = (planesUnknown /\ ~(took /\ DOMAIN frame.plan # {}))
     /\ suspended' = (suspended \/ (frame.real /\ Answer(busy) = "NotMaster"))
     /\ steady' = IF took THEN Min({steady + 1, Settled}) ELSE IF frame.real THEN 0 ELSE steady
     /\ stale' = (stale /\ ~(Answer(busy) = "Ok" /\ frame.pinned = {}))
     /\ unswept' = IF took /\ planesUnknown /\ DOMAIN frame.plan # {}
                     THEN ~frame.places ELSE unswept
     /\ forgot' = IF took /\ planesUnknown /\ frame.places THEN forgot \ {crtc} ELSE forgot
     /\ UNCHANGED <<dev, capacity, master, sceneVars, hasCanvas, crtc, detach,
                    lastCanvas, pinVerdicts, edits, turns>>

-----------------------------------------------------------------------------
(* What the caller changes.                                                *)

Edited ==
  /\ edits < MaxEdits
  /\ edits' = edits + 1 /\ steady' = 0
  /\ UNCHANGED <<dev, kernelVars, hasCanvas, crtc, detach, planesUnknown,
                 lastCanvas, pinVerdicts, suspended, stale, unswept, forgot, turns>>

Added(d) ==
  [vacant |-> FALSE, zpos |-> d.zpos, rect |-> d.rect, fmt |-> d.fmt,
   forced |-> FALSE, pin |-> NoPlane, hintsDirty |-> FALSE]

\* add_layer and the set_display that follows it.  The slot freed last is used
\* first.
AddLayer(d) ==
  LET reused == free # <<>>
      slot   == IF reused THEN Last(free)
                ELSE 1 + Cardinality({i \in Slots : gens[i] > 0})
  IN /\ Edited /\ frame = NoFrame
     /\ slot \in Slots
     /\ layers' = [layers EXCEPT ![slot] = Added(d)]
     /\ free' = IF reused THEN Front(free) ELSE free
     /\ gens' = IF reused THEN gens ELSE [gens EXCEPT ![slot] = 1]
     /\ UNCHANGED <<al, frame>>

\* Also while a frame is built: a caller may remove a layer before it commits.
RemoveLayer(i) ==
  /\ Edited
  /\ i \in Occupied
  /\ layers' = [layers EXCEPT ![i] = Vacant]
  /\ gens' = [gens EXCEPT ![i] = @ + 1]
  /\ free' = Append(free, i)
  /\ al' = ForgetLayer(al, IdOf(i))
  /\ UNCHANGED frame

\* Geometry does not drop the warm start.
SetDisplay(i, d) ==
  /\ Edited /\ frame = NoFrame
  /\ i \in Occupied /\ layers[i].fmt = d.fmt
  /\ layers' = [layers EXCEPT ![i] = [@ EXCEPT !.zpos = d.zpos, !.rect = d.rect]]
  /\ layers'[i] # layers[i]
  /\ UNCHANGED <<gens, free, al, frame>>

SetForceComposited(i) ==
  /\ Edited /\ frame = NoFrame
  /\ i \in Occupied
  /\ layers' = [layers EXCEPT ![i] = [@ EXCEPT !.forced = ~@, !.hintsDirty = TRUE]]
  /\ UNCHANGED <<gens, free, al, frame>>

SetPinnedPlane(i, p) ==
  /\ Edited /\ frame = NoFrame
  /\ i \in Occupied /\ layers[i].pin # p
  /\ PinWhereZpos \/ StacksByPlaneId(dev, crtc)
  /\ \A j \in Occupied : layers[j].pin # p
  /\ layers' = [layers EXCEPT ![i] = [@ EXCEPT !.pin = p, !.hintsDirty = TRUE]]
  /\ UNCHANGED <<gens, free, al, frame>>

-----------------------------------------------------------------------------
(* What goes on around the scene.                                          *)

Turned ==
  /\ turns < MaxTurns
  /\ turns' = turns + 1 /\ steady' = 0
  /\ UNCHANGED <<dev, gens, free, hasCanvas, edits>>

\* Another rebind before the detach of the last has landed, or before a frame has
\* swept the CRTC it kept.
TurnedAgain ==
  /\ detach # NoDetach \/ (crtc \in forgot /\ planesUnknown)
  /\ steady' = 0
  /\ UNCHANGED <<dev, gens, free, hasCanvas, edits, turns>>

Relearnt(ls) ==
  [i \in Slots |-> IF ls[i] = Vacant THEN Vacant ELSE [ls[i] EXCEPT !.hintsDirty = TRUE]]

ReboundTo(c) ==
  /\ Turned \/ TurnedAgain
  /\ frame = NoFrame
  /\ crtc' = c
  /\ al' = NewAllocator
  /\ planesUnknown' = TRUE
  /\ lastCanvas' = NoPlane /\ pinVerdicts' = {}
  /\ layers' = Relearnt(layers)
  /\ forgot' = IF c = crtc /\ LitPlanes(al) # {} THEN forgot \cup {crtc} ELSE forgot
  /\ UNCHANGED <<kernelVars, frame, suspended, stale, unswept>>

Left(c, lit) ==
  IF c # crtc /\ detach = NoDetach /\ lit # {} THEN [crtc |-> crtc, planes |-> lit]
  ELSE detach

\* The lit planes are asked for when the allocator has already been replaced.
RebindForgets(c) == ReboundTo(c) /\ detach' = Left(c, LitPlanes(al'))

\* The planes lit on the CRTC left are to be turned off, and of two CRTCs left
\* in a row those of the first.
Rebind(c) == ReboundTo(c) /\ detach' = Left(c, LitPlanes(al))

\* The commit that turns the left CRTC off, retried until it is taken.
CommitDetach ==
  /\ detach # NoDetach /\ master
  /\ kernel' = [p \in DOMAIN kernel |->
                  IF p \in detach.planes THEN EmitDisable(kernel[p]) ELSE kernel[p]]
  /\ detach' = NoDetach
  /\ UNCHANGED <<dev, capacity, master, sceneVars, hasCanvas, crtc, planesUnknown,
                 lastCanvas, pinVerdicts, al, frame, suspended, steady, stale,
                 unswept, forgot, edits, turns>>

\* Another process takes the device.
LoseMaster ==
  /\ Turned /\ master
  /\ master' = FALSE
  /\ UNCHANGED <<kernel, capacity, layers, crtc, detach, planesUnknown, lastCanvas,
                 pinVerdicts, al, frame, suspended, stale, unswept, forgot>>

\* Another master lights planes of this device where they can be.
MayLight(device, lit) ==
  \A p \in DOMAIN lit : p \in PlanesOf(device, lit[p])

ForeignKernel(device, lit) ==
  [p \in DOMAIN device.planes |->
     IF p \in DOMAIN lit THEN [Off(device.planes[p]) EXCEPT !.fb = Foreign, !.crtc = lit[p]]
     ELSE Off(device.planes[p])]

\* It comes back with what the other left lit, and on_session_resumed has the
\* scene forget the output.
RegainMaster(lit) ==
  /\ ~master /\ frame = NoFrame
  /\ MayLight(dev, lit)
  /\ master' = TRUE
  /\ kernel' = ForeignKernel(dev, lit)
  /\ al' = NewAllocator
  /\ planesUnknown' = TRUE
  /\ lastCanvas' = NoPlane /\ pinVerdicts' = {}
  /\ suspended' = FALSE
  /\ layers' = Relearnt(layers)
  /\ steady' = 0 /\ forgot' = {}
  /\ UNCHANGED <<dev, capacity, gens, free, hasCanvas, crtc, detach, frame, stale,
                 unswept, edits, turns>>

\* What the kernel lights at once depends on clocks and bandwidth.
KernelChanges(n) ==
  /\ Turned /\ n # capacity
  /\ capacity' = n
  /\ stale' = TRUE
  /\ UNCHANGED <<kernel, master, layers, crtc, detach, planesUnknown, lastCanvas,
                 pinVerdicts, al, frame, suspended, unswept, forgot>>

-----------------------------------------------------------------------------
(* The specification.                                                      *)

\* The scene as its caller has first set it up.
Init ==
  /\ dev \in Devices
  /\ capacity \in Capacities
  /\ hasCanvas \in BOOLEAN
  /\ \E lit \in ForeignFrames :
       MayLight(dev, lit) /\ kernel = ForeignKernel(dev, lit)
  /\ master = TRUE
  /\ \E shown \in Scenes :
       /\ layers = [i \in Slots |-> IF i <= Len(shown) THEN Added(shown[i]) ELSE Vacant]
       /\ gens = [i \in Slots |-> IF i <= Len(shown) THEN 1 ELSE 0]
  /\ free = <<>>
  /\ crtc = Min(Crtcs)
  /\ detach = NoDetach /\ planesUnknown = TRUE
  /\ lastCanvas = NoPlane /\ pinVerdicts = {}
  /\ al = NewAllocator /\ frame = NoFrame
  /\ suspended = FALSE /\ steady = 0 /\ stale = FALSE /\ unswept = FALSE
  /\ forgot = {}
  /\ edits = Cardinality(Occupied) /\ turns = 0

Next ==
  \/ BuildFrame
  \/ \E busy \in BOOLEAN : CommitFrame(busy)
  \/ \E d \in Displays : AddLayer(d)
  \/ \E i \in Slots : RemoveLayer(i)
  \/ \E i \in Slots, d \in Displays : SetDisplay(i, d)
  \/ \E i \in Slots : SetForceComposited(i)
  \/ \E i \in Slots, p \in DOMAIN dev.planes : SetPinnedPlane(i, p)
  \/ \E c \in Crtcs : Rebind(c)
  \/ CommitDetach
  \/ LoseMaster
  \/ \E lit \in ForeignFrames : RegainMaster(lit)
  \/ \E n \in Capacities : KernelChanges(n)

Spec == Init /\ [][Next]_vars

-----------------------------------------------------------------------------
(* Properties.                                                             *)

\* A diff is only as good as its baseline: where the allocator still names the
\* layer a plane shows, every property it believes written is what the kernel
\* has there; where it has forgotten the layer, the plane is lit all the same.
BaselineTrue ==
  \A p \in DOMAIN al.committed :
    LET last == al.committed[p]
    IN /\ kernel[p].fb = last.tags.fb /\ kernel[p].crtc = crtc
       /\ last.layer # NoLayer =>
            \A tag \in DOMAIN last.tags :
              kernel[p][tag] = Written(dev.planes[p], last.tags, tag)

\* "Whether the kernel currently has nothing on plane_id": once the first frame
\* has turned off what others left, a plane of the CRTC the allocator takes for
\* off is off, so no plane stays lit that no frame will disable.
\* That is so where the first frame placed a layer.
SweptIsOff ==
  ~unswept /\ ~planesUnknown =>
    CandidateSet(dev, crtc) \cap Lit(kernel, crtc) \subseteq LitPlanes(al)

\* "Only framebuffer ids changed, so the kernel has already accepted this
\* arrangement": once the kernel has taken a frame, as a commit or a test, those
\* that skip every test after it are ones it takes too, whatever was edited in
\* between, unless its mind has changed.  Not so before it has taken the frame
\* that a search ended with, whose planes are tested group by group; nor with a
\* pinned layer, whose plane is tested without the canvas's, nor while a foreign
\* plane was left lit.
FastPathSound ==
  /\ frame # NoFrame /\ frame.fast /\ frame.tests = 0
  /\ frame.pinned = {} /\ ~stale /\ ~unswept
  => KernelTakes(dev, kernel, frame.plan, frame.disables, crtc, capacity)

\* What is above what on screen: by zpos, and by plane id among equals.
ShownAbove(p, q) ==
  LET z(r) == IF dev.planes[r].zmin = NoZpos THEN 0
              ELSE ClampZpos(dev.planes[r], frame.plan[r].tags.zpos)
  IN z(p) > z(q) \/ (z(p) = z(q) /\ p > q)

\* Two layers that overlap, on planes the allocator gave them, are stacked as
\* their zpos asks.  A pin is the caller's own choice of a place in the stack.
StackOrder ==
  frame # NoFrame =>
    \A a, b \in frame.placed :
      LET la == layers[a[2][1]]
          lb == layers[b[2][1]]
      IN /\ IdOf(a[2][1]) = a[2] /\ IdOf(b[2][1]) = b[2]
         /\ frame.pinned \cap {a[1], b[1]} = {}
         /\ NoZpos \notin {la.zpos, lb.zpos} /\ LayersIntersect(la, lb)
         /\ la.zpos > lb.zpos
         => ShownAbove(a[1], b[1])

\* "The cursor path owns cursor planes": nothing of the scene turns them off,
\* though the search may have put a small layer on one.
CursorPlanes == {p \in DOMAIN dev.planes : dev.planes[p].type = "cursor"}

\* Once a detach has landed, nothing of the scene is left lit on a CRTC it is
\* no longer bound to, however often it was rebound before.  Not so for a CRTC
\* it was rebound to while it lit it, and left before a frame swept it: the
\* allocator had forgotten what to turn off.  Nor for cursor planes.
LeftNothingLit ==
  detach = NoDetach =>
    \A p \in DOMAIN kernel \ CursorPlanes :
      kernel[p].fb \notin {NoFb, Foreign} => kernel[p].crtc \in {crtc} \cup forgot

\* A scene with a layer on a plane in which nothing changes stops asking the
\* kernel: after three frames it took, the next is built without a test; with a
\* plane held for a canvas that carries nothing, one test confirms the cached
\* assignment.  Not so where the kernel cannot light the held plane as well:
\* that one test lights it, fails, and every frame searches anew.
Settles ==
  LET held == IF frame.composited = {} THEN CanvasReservation ELSE {}
  IN frame # NoFrame /\ frame.placed # {} /\ steady = Settled
     /\ Cardinality(DOMAIN frame.plan \cup held) <= capacity
     => frame.tests <= IF held = {} THEN 0 ELSE 1

\* The scene as PlaneDisplay sees it: the frame wants what its plan sets, as
\* the planes clamp it, and everything else off but cursor planes, unless it is
\* a first frame that places no layer or follows one.  One built blind, because what the
\* kernel has lit could not be read, may turn planes off on other CRTCs too.
Screens ==
  [c \in Crtcs |-> [p \in Lit(kernel, c) |-> kernel[p]]]

Wanted ==
  IF frame = NoFrame \/ ~frame.real THEN [wants |-> FALSE]
  ELSE [wants |-> TRUE,
        planes |-> [p \in DOMAIN frame.plan |->
                      [t \in DOMAIN frame.plan[p].tags |->
                         Written(dev.planes[p], frame.plan[p].tags, t)]],
        sweeps |-> IF planesUnknown THEN frame.places ELSE ~unswept,
        spares |-> CursorPlanes,
        blind |-> frame.blind]

Display == INSTANCE PlaneDisplay
             WITH screens <- Screens, wanted <- Wanted, left <- detach.planes,
                  Planes <- UNION {DOMAIN d.planes : d \in Devices}

\* Whatever the cache, the searches and the diffs do, a frame shows exactly the
\* planes and properties it was built to, or changes nothing.
ShowsFrames == Display!Spec

=============================================================================
