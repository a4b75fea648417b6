------------------------------ MODULE DumbSink ------------------------------
(***************************************************************************)
(* DumbScanoutSink: a LayerScene with one layer, fed by a DumbRing that    *)
(* the sink paints each finished CPU frame into before it commits.         *)
(***************************************************************************)
EXTENDS ScanoutPath, DumbRing

CONSTANT SinkLayer

ASSUME SinkAssumption == SinkLayer \in Starving

VARIABLE carries   \* frame -> the slot its acquisition carried

sinkVars == <<dumbRingVars, carries>>

\* The slots the step takes out of the scene's hands.
SlotsBack == {carries[a.frame] : a \in {b \in out \ out' : b.layer = SinkLayer}}

\* present: the frame is copied in full into a leased slot, over one still
\* pending.
SinkPaints ==
  /\ MayCall /\ layers[SinkLayer] = "live"
  /\ Paint(Cells, Cells, Cells)
  /\ IF SinkLayer \in fresh THEN UNCHANGED vars ELSE Produce(SinkLayer)
  /\ calling' = "present"
  /\ UNCHANGED <<needsModeset, crtcMode, failures, switched, carries>>

SinkPaintFails ==
  /\ MayCall /\ layers[SinkLayer] = "live"
  /\ PaintFails
  /\ FailsOnce
  /\ UNCHANGED <<vars, calling, needsModeset, crtcMode, switched, carries>>

SinkBuilds(kind) ==
  /\ PathBuilds(kind)
  /\ carries' = [carries EXCEPT ![builds + 1] = painted]
  /\ AcquirePainted

\* The buffer acquired goes back at once, while the ring has it on screen.
SinkBuildFails ==
  /\ PathBuildFails
  /\ slots' = [i \in DOMAIN slots |->
                 IF i = painted /\ slots[i].state # "Scanning"
                   THEN [slots[i] EXCEPT !.state = "Free"] ELSE slots[i]]
  /\ painted' = 0
  /\ UNCHANGED <<damage, presentSeq, baseSeq, allocated, outdated, carries>>

\* Emission fails and the FrameBuild is dropped without being finalized.
SinkEmitFails ==
  /\ HoldsFrame /\ frame.result = "none"
  /\ frame' = NoFrame
  /\ FailsOnce
  /\ UNCHANGED <<layers, lastFb, builds, previous, twoAgo, lastSeq, armed,
                 suspended, topologyDirty, committedOnce, dirty, sourceVars,
                 kernelVars, dropped, historyVars, calling, needsModeset,
                 crtcMode, switched, sinkVars>>

SinkFinalizes ==
  /\ FinalizeFrameOk \/ FinalizeFrameReturns
  /\ ReleasePainted(SlotsBack)
  /\ UNCHANGED <<pathVars, carries>>

\* What the drain releases is forgotten with the ring's history.
SinkPauses ==
  /\ calling = "none" /\ ~switched
  /\ OnSessionPaused
  /\ IF layers[SinkLayer] = "live" THEN DumbRingPaused ELSE UNCHANGED dumbRingVars
  /\ failures' = 0
  /\ UNCHANGED <<calling, needsModeset, crtcMode, switched, carries>>

SinkElsewhere ==
  /\ \/ LearnFails \/ PathAccepted \/ PathRefused \/ PathSwitches \/ PathFlips
     \/ (calling = "none" /\ Teardown /\ UNCHANGED pathVars)
  /\ UNCHANGED sinkVars

SinkNext ==
  \/ SinkPaints
  \/ SinkPaintFails
  \/ \E kind \in {"flip", "blocking"} : SinkBuilds(kind)
  \/ SinkBuildFails
  \/ SinkEmitFails
  \/ SinkFinalizes
  \/ SinkPauses
  \/ SinkElsewhere

-----------------------------------------------------------------------------
(* Properties.                                                             *)

ShownSlots ==
  {carries[a.frame] :
     a \in {b \in (IF screen.n > drainedTo THEN screen.shows ELSE {})
                    \cup (IF flip.n > drainedTo THEN flip.shows ELSE {}) :
              b.layer = SinkLayer /\ b \in out}}

\* "Never returns the scanning slot": the slot the next frame is painted into
\* is not on screen, nor about to be, whatever became of the commits since.
LeaseOffScreen == CanLease => LeasedSlot \notin ShownSlots

\* Slots nothing will ever release.
LostSlots ==
  {i \in DOMAIN slots :
     /\ slots[i].state # "Free" /\ i # painted
     /\ \A a \in Held : a.layer = SinkLayer => carries[a.frame] # i}

\* The slot of a frame that was not shown is lost, and nothing else loses one:
\* while every call succeeds, a ring of three always has a slot to lease.
SlotsLostByFailureOnly ==
  layers[SinkLayer] = "live" =>
  /\ Cardinality(LostSlots) <= failures
  /\ ~HoldsFrame /\ calling = "none" /\ failures = 0 /\ MaxSlots >= 3 => CanLease

=============================================================================
