----------------------------- MODULE LayerScene -----------------------------
(***************************************************************************)
(* One CRTC's layers and the commit machinery around them: the LayerScene  *)
(* of drmkit-scene together with the FrameLifecycle, ReleaseQueue and      *)
(* ScenePendingFlip it owns, the sources its layers hold, seen from the    *)
(* scene, and the part of the kernel a commit talks to.                    *)
(*                                                                         *)
(* The question is who may touch a buffer and when.  A source hands a      *)
(* buffer over in acquire(), the scene shows it, and the scene gives it    *)
(* back in release(); in between, the display engine may be reading it.    *)
(*                                                                         *)
(* Abstractions.  A buffer is named by the acquisition that carried it:    *)
(* the layer and the number of the frame that acquired it.  A layer id     *)
(* packs slot and generation (LayerHandle::layer_id), so it is never used  *)
(* twice and slots are left out.  Every acquired layer reaches a plane:    *)
(* the worst case for the questions asked here, since a layer that is      *)
(* composited or unassigned is not scanned out.                            *)
(***************************************************************************)
EXTENDS Naturals, FiniteSets

CONSTANTS Layers,     \* the layer ids a caller may ever add
          Starving,   \* those whose source answers WouldBlock when it is idle
          MaxFrames   \* bound: how many times build_frame is called

ASSUME SceneAssumption ==
  /\ Starving \subseteq Layers
  /\ MaxFrames \in Nat

VARIABLES
  layers,          \* layer id -> absent, live, retiring or gone
  lastFb,          \* layer id -> frame whose buffer is last_fb_id, 0 for None
  frame,           \* the FrameBuild the caller holds, or NoFrame
  builds,          \* how many frames have been numbered
  previous,        \* ReleaseQueue::previous, frame N-1
  twoAgo,          \* ReleaseQueue::two_ago, frame N-2
  lastSeq,         \* FrameLifecycle::last_commit_seq
  armed,           \* ScenePendingFlip::armed
  suspended,       \* FrameLifecycle::suspended
  topologyDirty, committedOnce, dirty,
  fresh,           \* layers whose source holds a frame not yet acquired
  presenting,      \* layers whose source holds a buffer it can present again
  out,             \* acquisitions handed over by a source and not yet back
  screen,          \* the frame the display engine scans out
  flip,            \* the commit whose flip has not landed, or NoFlip
  landed,          \* commit_seq of the newest commit whose flip has landed
  events,          \* page-flip events queued on the descriptor, undispatched
  session,         \* active, lost (no DRM master) or paused
  dropped,         \* the scene and the backend owning it are gone
  changedAt,       \* history: value of builds when something last changed
  drainedTo,       \* history: value of builds at the last drain
  ranAhead,        \* history: a frame was built with a flip still armed
  removedMidFrame  \* history: a layer was removed with a FrameBuild held

sceneVars == <<layers, lastFb, frame, builds, previous, twoAgo, lastSeq, armed,
               suspended, topologyDirty, committedOnce, dirty>>
sourceVars == <<fresh, presenting, out>>
kernelVars == <<screen, flip, landed, events, session>>
historyVars == <<changedAt, drainedTo, ranAhead, removedMidFrame>>
vars == <<sceneVars, sourceVars, kernelVars, dropped, historyVars>>

Acquisition == [layer : Layers, frame : Nat]
Kinds == {"none", "flip", "blocking", "test"}
Results == {"none", "ok", "not_master", "rejected"}

NoFrame == [n |-> 0, kind |-> "none", keeps |-> FALSE, shows |-> {}, result |-> "none"]
NoFlip == [n |-> 0, seq |-> 0, shows |-> {}, event |-> FALSE]
Dark == [n |-> 0, shows |-> {}]

Live == {l \in Layers : layers[l] = "live"}
HoldsFrame == frame.kind # "none"

\* The buffers a frame acquired itself, as opposed to those it re-attaches.
Own(f) == {a \in f.shows : a.frame = f.n}

InFlight == previous \cup twoAgo

-----------------------------------------------------------------------------
(* The scene's layers.                                                     *)

\* LayerScene::deliver: buffers go back to the source of their layer, live or
\* retiring; those of a layer whose source is gone go nowhere.  Once nothing
\* is in flight, the retired sources are dropped.
DeliverToLiveOnly(acqs, inFlight) ==
  /\ out' = {a \in out : a \in acqs => layers[a.layer] # "live"}
  /\ layers' = [l \in Layers |-> IF layers[l] = "retiring" /\ inFlight = {}
                                 THEN "gone" ELSE layers[l]]

Deliver(acqs, inFlight) ==
  /\ out' = {a \in out : a \in acqs => layers[a.layer] \notin {"live", "retiring"}}
  /\ layers' = [l \in Layers |-> IF layers[l] = "retiring" /\ inFlight = {}
                                 THEN "gone" ELSE layers[l]]

AddLayer(l) ==
  /\ ~dropped
  /\ layers[l] = "absent"
  /\ layers' = [layers EXCEPT ![l] = "live"]
  /\ topologyDirty' = TRUE
  /\ dirty' = dirty \cup {l}
  /\ changedAt' = builds
  /\ UNCHANGED <<lastFb, frame, builds, previous, twoAgo, lastSeq, armed,
                 suspended, committedOnce, sourceVars, kernelVars, dropped,
                 drainedTo, ranAhead, removedMidFrame>>

\* What becomes of a removed layer's source: it is retired, to be kept until
\* the ring has emptied, only while some buffer is in flight.
RemovedAtOnce == "gone"
Removed == IF InFlight # {} THEN "retiring" ELSE "gone"

\* LayerScene::remove_layer.  The topology is marked dirty only if the source
\* was retired.
RemoveLayer(l) ==
  /\ ~dropped
  /\ layers[l] = "live"
  /\ layers' = [layers EXCEPT ![l] = Removed]
  /\ topologyDirty' = (topologyDirty \/ InFlight # {})
  /\ dirty' = dirty \ {l}
  /\ lastFb' = [lastFb EXCEPT ![l] = 0]
  /\ fresh' = fresh \ {l}
  /\ presenting' = presenting \ {l}
  /\ changedAt' = builds
  /\ removedMidFrame' = (removedMidFrame \/ HoldsFrame)
  /\ UNCHANGED <<frame, builds, previous, twoAgo, lastSeq, armed, suspended,
                 committedOnce, out, kernelVars, dropped, drainedTo, ranAhead>>

\* SceneLayer::set_display and the hint setters.
SetDisplay(l) ==
  /\ ~dropped
  /\ l \in Live
  /\ dirty' = dirty \cup {l}
  /\ changedAt' = builds
  /\ UNCHANGED <<layers, lastFb, frame, builds, previous, twoAgo, lastSeq, armed,
                 suspended, topologyDirty, committedOnce, sourceVars, kernelVars,
                 dropped, drainedTo, ranAhead, removedMidFrame>>

\* A producer hands its source a new frame (external: any producer).
Produce(l) ==
  /\ ~dropped
  /\ l \in Live \ fresh
  /\ fresh' = fresh \cup {l}
  /\ changedAt' = builds
  /\ UNCHANGED <<sceneVars, presenting, out, kernelVars, dropped,
                 drainedTo, ranAhead, removedMidFrame>>

\* LayerScene::content_changed.
ContentChangedInLayers ==
  \/ ~committedOnce
  \/ dirty \cap Live # {}
  \/ fresh \cap Live # {}

ContentChanged ==
  \/ ~committedOnce
  \/ topologyDirty
  \/ dirty \cap Live # {}
  \/ fresh \cap Live # {}

-----------------------------------------------------------------------------
(* Building a frame.                                                       *)

\* LayerBufferSource::acquire succeeds with a new frame, or with the one the
\* source presented last, unless it is of the kind that then starves or has
\* lost its framebuffers to a pause.
Ready == {l \in Live : \/ l \in fresh
                       \/ l \in presenting /\ l \notin Starving /\ session # "paused"}

\* What acquire_every_layer takes from the layers S as frame n.
Acquired(S, n) == [layer : S, frame : {n}]

\* Starved layers go on showing the framebuffer they last acquired.
Reattached == {[layer |-> l, frame |-> lastFb[l]] :
                 l \in {k \in Live \ Ready : lastFb[k] # 0}}

MayBuild ==
  /\ ~dropped
  /\ ~HoldsFrame
  /\ ~suspended
  /\ builds < MaxFrames

\* acquire_every_layer takes frame builds + 1 from the layers S.  Those of
\* usedUp fail, but not before they count their new frame as presented.
AcquireFrom(S, usedUp) ==
  /\ builds' = builds + 1
  /\ lastFb' = [l \in Layers |-> IF l \in S THEN builds + 1 ELSE lastFb[l]]
  /\ fresh' = fresh \ (S \cup usedUp)
  /\ presenting' = presenting \cup S \cup usedUp

\* build_frame: acquire every layer, then clear what content_changed reads.
BuildFrame(kind) ==
  /\ MayBuild
  /\ AcquireFrom(Ready, {})
  /\ out' = out \cup Acquired(Ready, builds + 1)
  /\ frame' = [n |-> builds + 1, kind |-> kind, keeps |-> Live = {},
               shows |-> Acquired(Ready, builds + 1) \cup Reattached,
               result |-> "none"]
  /\ topologyDirty' = FALSE
  /\ dirty' = dirty \ Live
  /\ committedOnce' = TRUE
  /\ ranAhead' = (ranAhead \/ armed)
  /\ UNCHANGED <<layers, previous, twoAgo, lastSeq, armed, suspended, kernelVars,
                 dropped, changedAt, drainedTo, removedMidFrame>>

\* build_frame gives up: a source fails after those of S were acquired, or a
\* test finds DRM master lost after all were.  What was taken goes straight
\* back, and nothing content_changed reads is cleared.  A source may fail
\* when it has already used up its frame and counts it as presented.
BuildFrameFails(S, usedUp) ==
  /\ MayBuild
  /\ S \subseteq Ready
  /\ usedUp \subseteq (fresh \cap Live) \ S /\ Cardinality(usedUp) <= 1
  /\ S # Live \/ session # "active"
  /\ AcquireFrom(S, usedUp)
  /\ layers' = [l \in Layers |-> IF layers[l] = "retiring" /\ InFlight = {}
                                 THEN "gone" ELSE layers[l]]
  /\ UNCHANGED <<frame, previous, twoAgo, lastSeq, armed, suspended,
                 topologyDirty, committedOnce, dirty, out, kernelVars, dropped,
                 historyVars>>

-----------------------------------------------------------------------------
(* The kernel (external).  A flip lands in its own time; one commit at a   *)
(* time is in flight, a second is refused with EBUSY.  A commit that asks  *)
(* for no event is a blocking one and has landed when it returns.          *)

\* What the display engine shows, or will once the flip in flight lands.
Target == IF flip # NoFlip THEN [n |-> flip.n, shows |-> flip.shows] ELSE screen

CommitAccepted ==
  /\ HoldsFrame /\ frame.kind # "test" /\ frame.result = "none"
  /\ session = "active"
  /\ flip = NoFlip
  /\ frame' = [frame EXCEPT !.result = "ok"]
  /\ LET shows == IF frame.keeps THEN screen.shows ELSE frame.shows IN
     IF frame.kind = "flip"
     THEN /\ flip' = [n |-> frame.n, seq |-> lastSeq + 1, shows |-> shows, event |-> TRUE]
          /\ UNCHANGED <<screen, landed>>
     ELSE /\ screen' = [n |-> frame.n, shows |-> shows]
          /\ landed' = lastSeq + 1
          /\ UNCHANGED flip
  /\ UNCHANGED <<layers, lastFb, builds, previous, twoAgo, lastSeq, armed,
                 suspended, topologyDirty, committedOnce, dirty, sourceVars,
                 events, session, dropped, historyVars>>

\* Any other answer, and every answer to a TEST_ONLY, leaves the screen alone.
CommitAnswered(result) ==
  /\ HoldsFrame /\ frame.result = "none"
  /\ \/ result = "ok" /\ frame.kind = "test" /\ session = "active"
     \/ result = "rejected" /\ session = "active"
     \/ result = "not_master" /\ session # "active"
  /\ frame' = [frame EXCEPT !.result = result]
  /\ UNCHANGED <<layers, lastFb, builds, previous, twoAgo, lastSeq, armed,
                 suspended, topologyDirty, committedOnce, dirty, sourceVars,
                 kernelVars, dropped, historyVars>>

FlipLands ==
  /\ flip # NoFlip
  /\ screen' = [n |-> flip.n, shows |-> flip.shows]
  /\ landed' = flip.seq
  /\ events' = IF flip.event THEN events + 1 ELSE events
  /\ flip' = NoFlip
  /\ UNCHANGED <<sceneVars, sourceVars, session, dropped, historyVars>>

-----------------------------------------------------------------------------
(* Reconciling the scene with the kernel's answer.                         *)

\* ReleaseQueue::commit_succeeded: frame N-2 goes back, N-1 and N stay.
RotateAtOnce(current) ==
  /\ twoAgo' = previous
  /\ previous' = current
  /\ Deliver(twoAgo \cup previous, current)

RotateForgets(current) ==
  /\ twoAgo' = previous
  /\ previous' = current
  /\ Deliver({}, previous \cup current)

Rotate(current) ==
  /\ twoAgo' = previous
  /\ previous' = current
  /\ Deliver(twoAgo, previous \cup current)

\* CommitKind::Real { arms_flip: true }.
ArmsFlip == frame.kind = "flip"

\* FrameLifecycle::finalize on a successful real commit.
FinalizeFrameOk ==
  /\ frame.kind \in {"flip", "blocking"} /\ frame.result = "ok"
  /\ armed' = (armed \/ ArmsFlip)
  /\ lastSeq' = lastSeq + 1
  /\ Rotate(Own(frame))
  /\ frame' = NoFrame
  /\ UNCHANGED <<lastFb, builds, suspended, topologyDirty, committedOnce, dirty,
                 fresh, presenting, kernelVars, dropped, historyVars>>

\* ... on a test, or on a failed commit: the frame's own buffers go back at
\* once, and only a lost master suspends the scene.
FinalizeFrameReturns ==
  /\ HoldsFrame /\ frame.result # "none"
  /\ frame.kind = "test" \/ frame.result # "ok"
  /\ suspended' = (suspended \/ (frame.kind # "test" /\ frame.result = "not_master"))
  /\ Deliver(Own(frame), InFlight)
  /\ frame' = NoFrame
  /\ UNCHANGED <<lastFb, builds, previous, twoAgo, lastSeq, armed, topologyDirty,
                 committedOnce, dirty, fresh, presenting, kernelVars, dropped,
                 historyVars>>

\* PageFlip::dispatch has an event to route.
AnyWakeup == TRUE
EventQueued == events > 0

\* The caller dispatches one page-flip event and tells the scene.
DispatchFlip ==
  /\ ~dropped /\ ~HoldsFrame
  /\ EventQueued
  /\ events' = events - 1
  /\ armed' = FALSE
  /\ UNCHANGED <<layers, lastFb, frame, builds, previous, twoAgo, lastSeq,
                 suspended, topologyDirty, committedOnce, dirty, sourceVars,
                 screen, flip, landed, session, dropped, historyVars>>

\* FrameLifecycle::release_displaced: frame N-2's buffers if seq names the
\* most recent real commit, and nothing otherwise.
DisplacedByAny(seq) == twoAgo
DisplacedIsNewest(seq) == IF seq = lastSeq THEN previous ELSE {}
Displaced(seq) == IF seq = lastSeq THEN twoAgo ELSE {}

\* LayerScene::release_displaced, for any commit whose flip has landed, at
\* any time: also late, and also more than once.
ReleaseDisplaced(seq) ==
  /\ ~dropped
  /\ seq \in 1..lastSeq /\ seq <= landed
  /\ Deliver(Displaced(seq), InFlight \ Displaced(seq))
  /\ twoAgo' = twoAgo \ Displaced(seq)
  /\ UNCHANGED <<lastFb, frame, builds, previous, lastSeq, armed, suspended,
                 topologyDirty, committedOnce, dirty, fresh, presenting,
                 kernelVars, dropped, historyVars>>

-----------------------------------------------------------------------------
(* The session, and teardown.                                              *)

\* Another client takes DRM master without the session saying so (external).
LoseMaster ==
  /\ session = "active"
  /\ session' = "lost"
  /\ UNCHANGED <<sceneVars, sourceVars, screen, flip, landed, events, dropped,
                 historyVars>>

\* Master is back, with the other client's frame on screen, and the caller
\* lifts a suspension with resume().
Resume ==
  /\ ~dropped /\ ~HoldsFrame
  /\ session = "lost" /\ flip = NoFlip
  /\ session' = "active"
  /\ screen' = Dark
  /\ suspended' = FALSE
  /\ UNCHANGED <<layers, lastFb, frame, builds, previous, twoAgo, lastSeq, armed,
                 topologyDirty, committedOnce, dirty, sourceVars, flip, landed,
                 events, dropped, historyVars>>

\* LayerScene::on_session_paused: drain, then every source stops using the
\* device.  Events queued on the revoked descriptor are never read.
OnSessionPaused ==
  /\ ~dropped /\ ~HoldsFrame
  /\ session # "paused"
  /\ session' = "paused"
  /\ Deliver(InFlight, {})
  /\ previous' = {} /\ twoAgo' = {}
  /\ fresh' = {} /\ presenting' = {}
  /\ armed' = FALSE
  /\ events' = 0
  /\ flip' = [flip EXCEPT !.event = FALSE]
  /\ drainedTo' = builds
  /\ UNCHANGED <<lastFb, frame, builds, lastSeq, suspended, topologyDirty,
                 committedOnce, dirty, screen, landed, dropped, changedAt,
                 ranAhead, removedMidFrame>>

\* LayerScene::on_session_resumed reaching the layers S: all of them, or
\* those up to the first whose source cannot resume.
OnSessionResumed(S) ==
  /\ ~dropped /\ ~HoldsFrame
  /\ session = "paused" /\ flip = NoFlip
  /\ S \subseteq Live
  /\ topologyDirty' = TRUE
  /\ committedOnce' = FALSE
  /\ dirty' = dirty \cup S
  /\ lastFb' = [l \in Layers |-> IF l \in S THEN 0 ELSE lastFb[l]]
  /\ \/ /\ S # {}
        /\ UNCHANGED <<session, suspended, screen>>
     \/ /\ S = Live
        /\ session' = "active"
        /\ suspended' = FALSE
        /\ screen' = Dark
  /\ UNCHANGED <<layers, frame, builds, previous, twoAgo, lastSeq, armed,
                 sourceVars, flip, landed, events, dropped, historyVars>>

\* What settle takes for the landing of the flip armed last: the vblank
\* sequence has moved, or some event is queued.
TakesAnySign == TRUE
SeenLanded == flip = NoFlip \/ events > 0

\* The drop of the type owning scene and descriptor: armed_flip::settle waits
\* for a sign that the flip landed, or gives up, and the scene goes with it.
Teardown ==
  /\ ~dropped /\ ~HoldsFrame
  /\ \/ /\ armed /\ ~suspended
        /\ SeenLanded
        /\ armed' = FALSE
     \/ UNCHANGED armed
  /\ dropped' = TRUE
  /\ UNCHANGED <<layers, lastFb, frame, builds, previous, twoAgo, lastSeq,
                 suspended, topologyDirty, committedOnce, dirty, sourceVars,
                 kernelVars, historyVars>>

-----------------------------------------------------------------------------
Init ==
  /\ layers = [l \in Layers |-> "absent"]
  /\ lastFb = [l \in Layers |-> 0]
  /\ frame = NoFrame
  /\ builds = 0
  /\ previous = {} /\ twoAgo = {}
  /\ lastSeq = 0
  /\ armed = FALSE
  /\ suspended = FALSE
  /\ topologyDirty = TRUE
  /\ committedOnce = FALSE
  /\ dirty = {}
  /\ fresh = {} /\ presenting = {} /\ out = {}
  /\ screen = Dark
  /\ flip = NoFlip
  /\ landed = 0
  /\ events = 0
  /\ session = "active"
  /\ dropped = FALSE
  /\ changedAt = 0 /\ drainedTo = 0
  /\ ranAhead = FALSE /\ removedMidFrame = FALSE

Next ==
  \/ \E l \in Layers : AddLayer(l) \/ RemoveLayer(l) \/ SetDisplay(l) \/ Produce(l)
  \/ \E kind \in {"flip", "blocking", "test"} : BuildFrame(kind)
  \/ \E S, usedUp \in SUBSET Layers : BuildFrameFails(S, usedUp)
  \/ CommitAccepted
  \/ \E result \in {"ok", "rejected", "not_master"} : CommitAnswered(result)
  \/ FlipLands
  \/ FinalizeFrameOk
  \/ FinalizeFrameReturns
  \/ DispatchFlip
  \/ \E seq \in 1..lastSeq : ReleaseDisplaced(seq)
  \/ LoseMaster
  \/ Resume
  \/ OnSessionPaused
  \/ \E S \in SUBSET Layers : OnSessionResumed(S)
  \/ Teardown

Spec == Init /\ [][Next]_vars

-----------------------------------------------------------------------------
(* Properties.                                                             *)

Held == InFlight \cup Own(frame)

\* The types of all variables.
TypeOK ==
  /\ layers \in [Layers -> {"absent", "live", "retiring", "gone"}]
  /\ lastFb \in [Layers -> Nat]
  /\ frame \in [n : Nat, kind : Kinds, keeps : BOOLEAN,
                shows : SUBSET Acquisition, result : Results]
  /\ builds \in Nat /\ lastSeq \in Nat /\ landed \in Nat /\ events \in Nat
  /\ changedAt \in Nat /\ drainedTo \in Nat
  /\ previous \subseteq Acquisition /\ twoAgo \subseteq Acquisition
  /\ out \subseteq Acquisition
  /\ dirty \subseteq Layers /\ fresh \subseteq Layers /\ presenting \subseteq Layers
  /\ screen \in [n : Nat, shows : SUBSET Acquisition]
  /\ flip \in [n : Nat, seq : Nat, shows : SUBSET Acquisition, event : BOOLEAN]
  /\ session \in {"active", "lost", "paused"}
  /\ armed \in BOOLEAN /\ suspended \in BOOLEAN /\ dropped \in BOOLEAN
  /\ topologyDirty \in BOOLEAN /\ committedOnce \in BOOLEAN
  /\ ranAhead \in BOOLEAN /\ removedMidFrame \in BOOLEAN

\* Invariant 1.  A buffer the display engine reads, or will read once the
\* flip in flight lands, has not gone back to its source: not through the
\* rotation, not through release_displaced however late or often it is
\* called, not through the return of a failed or test frame.  Drained frames
\* are exempt (their buffers go back by intent), and so is what a frame only
\* re-attaches, except for a live layer whose source never starves.
ScanoutHeld ==
  \A f \in {[n |-> screen.n, shows |-> screen.shows],
            [n |-> flip.n, shows |-> flip.shows]} :
    f.n > drainedTo =>
      \A a \in f.shows :
        a.frame = f.n \/ (layers[a.layer] = "live" /\ a.layer \notin Starving)
          => a \in out

\* A buffer sits in one place of the scene at a time, so it is handed back
\* once: FrameBuild, previous and two_ago never share an acquisition, and
\* none of them names one that has already gone back.
HeldOnce ==
  /\ previous \cap twoAgo = {}
  /\ Own(frame) \cap InFlight = {}
  /\ Held \subseteq out

\* No buffer is leaked: whatever a source has handed out and not got back is
\* held by the scene and will be delivered.  deliver() drops the buffers of
\* a source that is gone, "which can only happen if a caller dropped the
\* scene mid-flight"; removing a layer between build and finalize is the
\* other way, so this is stated for callers that do not.
NothingStranded == ~removedMidFrame => out = Held

\* The source of every buffer in flight is still there to take it back,
\* although its layer may have been removed.
SourcesOutliveBuffers ==
  \A a \in InFlight : ~removedMidFrame => layers[a.layer] \in {"live", "retiring"}

\* A source gets its buffers back in the order it handed them out.
OldestFirst ==
  [][\A a, b \in InFlight :
        a.layer = b.layer /\ a.frame < b.frame /\ b \notin out' => a \notin out']_vars

\* The tripwire is never left set with nothing to clear it: while a flip is
\* believed outstanding, its event is queued or still to come, so a caller
\* waiting for has_pending_flip to clear does not wait for good.
ArmedIsAnswerable ==
  armed => events > 0 \/ flip.event

\* Invariant 5.  A teardown that leaves a flip in flight says so: it gave up
\* at its bound, or skipped the wait while suspended, and left the tripwire
\* set.  For a caller that dispatches each event before its next build.
TeardownWarns ==
  ~ranAhead /\ dropped /\ flip.event => armed

\* The tripwire is right in both directions.
TripwireTrue == ArmedIsAnswerable /\ TeardownWarns

\* Skipping a frame that content_changed calls unchanged loses nothing: if
\* the newest frame built is the one on screen or about to be, and buffers
\* are in flight, then whatever changed, changed before it was built.
SkipSound ==
  /\ ~removedMidFrame /\ ~HoldsFrame /\ session = "active"
  /\ InFlight # {} /\ Target.n = builds /\ ~ContentChanged
  => changedAt < builds

\* "The first frame always counts, because nothing is on screen yet for
\* unchanged to describe": until a frame is on screen, or about to be, no
\* frame may be skipped.
FirstFrameCounts ==
  ~HoldsFrame /\ Target.n = 0 /\ Live # {} => ContentChanged

\* The documented use of the tripwire without the restriction of
\* TeardownWarns: settle() waits for the flip armed last, whatever the caller
\* has left in the event queue.
TeardownLandsTheFlip ==
  dropped /\ flip.event => armed

=============================================================================
