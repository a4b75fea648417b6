----------------------------- MODULE SceneRing -----------------------------
(***************************************************************************)
(* A LayerScene whose layer is fed by an ExternalDmaBufRing: every call    *)
(* the scene makes of the layer's source is the ring's own step.           *)
(*                                                                         *)
(* The scene keeps acquisitions apart by frame; the ring knows tokens, and *)
(* several acquisitions carry one token while the producer is idle.        *)
(***************************************************************************)
EXTENDS LayerScene, ExternalDmaBufRing

CONSTANT RingLayer

ASSUME RingLayerAssumption == Layers = {RingLayer} /\ Starving = {}

\* A token is a u64 counted up once a frame: no scene lives to see it wrap.
\* (RingClient lets it wrap.)
ASSUME TokenAssumption == MaxFrames < TokenLimit

VARIABLES
  carries,   \* frame -> the token and slot its acquisition of RingLayer carried
  repeated,  \* history: one token was on screen in more than one frame
  unshown    \* history: why frames acquired from the ring were never shown

linkVars == <<carries, repeated, unshown>>
allVars == <<vars, ringVars, linkVars>>

NoAcquisition == [token |-> 0, key |-> NoSlot]

\* What has become of RingLayer's acquisitions in this step.
Returned == {carries[a.frame].token : a \in {b \in out \ out' : b.layer = RingLayer}}

SourceKept == layers[RingLayer] \in {"live", "retiring"}

\* Steps of the scene that call no source.
SceneOnly ==
  /\ \/ AddLayer(RingLayer)
     \/ SetDisplay(RingLayer)
     \/ CommitAccepted
     \/ \E result \in {"ok", "rejected", "not_master"} : CommitAnswered(result)
     \/ FlipLands
     \/ DispatchFlip
     \/ LoseMaster
     \/ Resume
     \/ Teardown
  /\ UNCHANGED <<ringVars, linkVars>>

\* The producer submits a slot.  A second one before the next frame replaces
\* the first.
ProducerSubmits(slot) ==
  /\ \/ Produce(RingLayer)
     \/ RingLayer \in fresh /\ ~dropped /\ UNCHANGED vars
  /\ RingSubmit(slot, FALSE, Whole)
  /\ UNCHANGED linkVars

\* What frame n carries: the token the presenter now holds to be on screen.
Carries(n) == carries' = [carries EXCEPT ![n] = [token |-> scanningToken', key |-> scanningKey']]

SceneBuilds(kind) ==
  /\ BuildFrame(kind)
  /\ IF layers[RingLayer] = "live"
     THEN IF RingLayer \in Ready
          THEN RingAcquires /\ Carries(builds + 1)
          ELSE RingStarves /\ UNCHANGED carries
     ELSE UNCHANGED <<ringVars, carries>>
  /\ UNCHANGED <<repeated, unshown>>

\* A failed build reaches the ring, which delivers or fails, or it gave up
\* earlier.  What the ring delivered goes back at once, under the token that
\* is on screen as far as the presenter knows, so nothing fires.
SceneBuildFails(S, usedUp) ==
  /\ BuildFrameFails(S, usedUp)
  /\ IF RingLayer \in S
     THEN RingAcquires /\ Carries(builds + 1) /\ unshown' = unshown \cup {"failed"}
     ELSE IF RingLayer \in usedUp
     THEN RingFails /\ unshown' = unshown \cup {"failed"} /\ UNCHANGED carries
     ELSE UNCHANGED <<ringVars, carries, unshown>>
  /\ UNCHANGED repeated

\* Steps that hand buffers back through deliver().
SceneDelivers ==
  /\ \/ FinalizeFrameOk
     \/ FinalizeFrameReturns
     \/ \E seq \in 1..lastSeq : ReleaseDisplaced(seq)
  /\ RingReleases(Returned)
  /\ LET own == {a \in Own(frame) : a.layer = RingLayer}
         why == IF frame.kind = "test" THEN "test" ELSE frame.result
     IN IF frame' # frame /\ own # {}
        THEN /\ unshown' = unshown \cup ({why} \ {"ok"})
             /\ repeated' = (repeated \/ (why = "ok" /\
                  \E a \in own, b \in InFlight :
                     b.layer = RingLayer /\ carries[a.frame] = carries[b.frame]))
        ELSE UNCHANGED <<repeated, unshown>>
  /\ UNCHANGED carries

SceneRemovesRing ==
  /\ RemoveLayer(RingLayer)
  /\ RingRetired
  /\ UNCHANGED linkVars

\* The drain's releases are forgotten by the reset that follows.
ScenePauses ==
  /\ OnSessionPaused
  /\ IF layers[RingLayer] = "live" THEN RingPaused ELSE RingReleases(Returned)
  /\ UNCHANGED linkVars

SceneResumes(S, ok) ==
  /\ OnSessionResumed(S)
  /\ ~ok => RingLayer \in S /\ session' = "paused"
  /\ IF RingLayer \in S THEN RingResumes(ok) ELSE UNCHANGED ringVars
  /\ UNCHANGED linkVars

SceneRingInit ==
  /\ Init
  /\ RingInit
  /\ carries = [n \in 1..MaxFrames |-> NoAcquisition]
  /\ repeated = FALSE /\ unshown = {}

SceneRingNext ==
  \/ SceneOnly
  \/ \E slot \in Slots : ProducerSubmits(slot)
  \/ \E kind \in {"flip", "blocking", "test"} : SceneBuilds(kind)
  \/ \E S, usedUp \in SUBSET Layers : SceneBuildFails(S, usedUp)
  \/ SceneDelivers
  \/ SceneRemovesRing
  \/ ScenePauses
  \/ \E S \in SUBSET Layers, ok \in BOOLEAN : SceneResumes(S, ok)

SceneRingSpec == SceneRingInit /\ [][SceneRingNext]_allVars

-----------------------------------------------------------------------------
(* Properties.                                                             *)

\* The slots of RingLayer that the display engine reads or is about to read.
OnScreen ==
  {carries[a.frame].key :
     a \in {b \in (IF screen.n > drainedTo THEN screen.shows ELSE {})
                    \cup (IF flip.n > drainedTo THEN flip.shows ELSE {}) :
              b.layer = RingLayer /\ SourceKept /\ (layers[b.layer] = "live" \/ b \in Held)}}

\* "Called when a slot leaves the screen and the producer may reuse it": the
\* producer never owns a slot of a live layer that is on screen or about to be.
OffScreenBeforeReuse == layers[RingLayer] = "live" => OnScreen \cap owned = {}

\* The same for a producer that submits before every frame, so that no token
\* is on screen twice in a row; then also of a layer that has been removed,
\* unless that was between build_frame and finalize_frame.
ReusedOffScreen == ~repeated /\ ~removedMidFrame => OnScreen \cap owned = {}

\* A slot the ring will hand back of its own accord.
Accounted(slot) ==
  \/ slot \in owned \cup {pending.key}
  \/ \E o \in outstanding : /\ o.key = slot
                            /\ \/ o.token = scanningToken
                               \/ \E a \in Held : /\ a.layer = RingLayer
                                                  /\ carries[a.frame].token = o.token

NoneLost == layers[RingLayer] = "live" => \A slot \in Slots : Accounted(slot)

\* "Self-healing producer rings rely on this to reuse their buffers after a
\* rejected commit": a rejected commit loses no slot to the producer.
RingSelfHeals == unshown \subseteq {"rejected"} => NoneLost

\* While every frame built reaches the screen, no slot is lost.
NoSlotLost == unshown = {} => NoneLost

\* What the scene believes of the source (has_fresh_content, and whether
\* acquire would re-present) is what the ring would answer.
RingAsAssumed ==
  layers[RingLayer] = "live" =>
    /\ RingLayer \in fresh <=> pending.key # NoSlot
    /\ RingLayer \in presenting <=> scanningKey # NoSlot

\* Ring, scene and producer are of one mind about every slot.
RingInStep == SlotsApart /\ RingAsAssumed

=============================================================================
