---------------------------- MODULE SourceProofs ----------------------------
(***************************************************************************)
(* Proofs about the sources built on RingPresenter.                        *)
(*                                                                         *)
(* First SceneRing, the ring under the scene: the scene's account of a     *)
(* layer's buffers and the ring's, taken together, for any number of slots *)
(* and of frames.  The scene holds acquisitions, the ring entries of       *)
(* outstanding, and only carries links them.  Tracked says that while no   *)
(* token is on screen twice every acquisition held has its entry; then     *)
(* what LayerSceneProofs shows of the queue keeps the slot from the        *)
(* producer.  Newest says where the entry that a release would not fire is *)
(* found again.                                                            *)
(*                                                                         *)
(* Then PoolClient: what ExternalDmaBufPool promises a scene and a         *)
(* producer, for any number of keys, buffers, imports and tokens.          *)
(***************************************************************************)
EXTENDS SceneRing, LayerSceneProofs, RingProofs, PoolClient, InductionFacts

LinkTypeOK ==
  /\ carries \in [1..MaxFrames -> [token : Nat, key : Slots \cup {NoSlot}]]
  /\ repeated \in BOOLEAN
  /\ builds <= MaxFrames
  /\ \A a \in out : a.frame # 0

\* Tokens go up, at most by one a frame, and name one entry each.
Tokens ==
  /\ nextToken <= builds
  /\ scanningToken \in {0, nextToken}
  /\ scanningKey = NoSlot => scanningToken = 0
  /\ \A o \in outstanding : o.token <= nextToken
  /\ \A o, p \in outstanding : o.token = p.token => o = p

Scanning == [token |-> scanningToken, key |-> scanningKey]

\* What the scene assumes of the ring, from before the layer is added; and the
\* buffer a live ring would present again is outstanding.
Agreed ==
  /\ RingAsAssumed
  /\ layers[RingLayer] = "absent" => pending.key = NoSlot /\ scanningKey = NoSlot
  /\ fresh \subseteq Live /\ presenting \subseteq Live
  /\ layers[RingLayer] = "live" /\ scanningKey # NoSlot => Scanning \in outstanding
  /\ removedMidFrame => layers[RingLayer] \in {"retiring", "gone"}

\* The frame a caller holds carries what the ring would present again.
HeldCarries == ~removedMidFrame => \A a \in Own(frame) : carries[a.frame] = Scanning

\* Every acquisition held has its entry, and the queue never two of one token.
Tracked ==
  ~repeated /\ ~removedMidFrame =>
    /\ \A a \in Held : carries[a.frame] \in outstanding
    /\ \A a \in twoAgo, b \in previous : carries[a.frame] # carries[b.frame]

\* The entry release holds back is that of the newest frame shown.
Newest ==
  /\ HoldsFrame /\ frame.result = "ok" => session # "paused"
  /\ layers[RingLayer] = "live" /\ unshown = {} /\ scanningKey # NoSlot =>
       /\ HoldsFrame /\ session # "paused" => Own(frame) # {}
       /\ Own(frame) = {} => \E a \in previous : carries[a.frame].token = scanningToken

\* A ring the scene has not met owns nothing of its producer's yet.
AllAccounted ==
  /\ layers[RingLayer] = "absent" => owned = Slots
  /\ NoSlotLost

SceneRingInv ==
  /\ IInv /\ RingInv
  /\ LinkTypeOK /\ Tokens /\ Agreed /\ HeldCarries /\ Tracked /\ Newest /\ AllAccounted

-----------------------------------------------------------------------------
(* The composition takes the steps of its two parts.                       *)

\* Every step is a step of the scene.
LEMMA StepsOfScene == [SceneRingNext]_allVars => [Next]_vars
<1> SUFFICES ASSUME [SceneRingNext]_allVars PROVE [Next]_vars
  OBVIOUS
<1>0. RingLayer \in Layers
  BY RingLayerAssumption
<1>1. ASSUME SceneOnly PROVE [Next]_vars
  BY <1>0, <1>1 DEF SceneOnly, Next
<1>2. ASSUME NEW slot \in Slots, ProducerSubmits(slot) PROVE [Next]_vars
  BY <1>0, <1>2 DEF ProducerSubmits, Next
<1>3. ASSUME NEW kind \in {"flip", "blocking", "test"}, SceneBuilds(kind) PROVE [Next]_vars
  BY <1>3 DEF SceneBuilds, Next
<1>4. ASSUME NEW S \in SUBSET Layers, NEW usedUp \in SUBSET Layers, SceneBuildFails(S, usedUp)
      PROVE [Next]_vars
  BY <1>4 DEF SceneBuildFails, Next
<1>5. ASSUME SceneDelivers \/ SceneRemovesRing \/ ScenePauses PROVE [Next]_vars
  BY <1>0, <1>5 DEF SceneDelivers, SceneRemovesRing, ScenePauses, Next
<1>6. ASSUME NEW S \in SUBSET Layers, NEW ok \in BOOLEAN, SceneResumes(S, ok) PROVE [Next]_vars
  BY <1>6 DEF SceneResumes, Next
<1>7. ASSUME UNCHANGED allVars PROVE [Next]_vars
  BY <1>7 DEF allVars
<1>8. QED
  BY <1>1, <1>2, <1>3, <1>4, <1>5, <1>6, <1>7 DEF SceneRingNext

\* What the invariants of the parts say of the acquisitions of the one layer.
LEMMA OneLayer ==
  ASSUME TypeOK, Numbers, HeldOnce, LinkTypeOK
  PROVE  /\ \A a \in out : /\ a.layer = RingLayer /\ a.frame \in 1..builds
                           /\ a.frame \in 1..MaxFrames
         /\ Held \subseteq out
         /\ Live = {l \in {RingLayer} : layers[RingLayer] = "live"}
<1>1. \A a \in out : a.layer \in Layers /\ a.frame \in Nat
  BY DEF TypeOK, Acquisition
<1>2. \A a \in out : a.frame \in 1..builds /\ a.frame \in 1..MaxFrames
  BY <1>1, SceneAssumption DEF TypeOK, Numbers, LinkTypeOK
<1>3. QED
  BY <1>1, <1>2, RingLayerAssumption DEF HeldOnce, Live

\* Every step is a call of the ring or leaves it alone.
LEMMA StepsOfRing ==
  TypeOK /\ Numbers /\ HeldOnce /\ LinkTypeOK /\ [SceneRingNext]_allVars => [RingCall]_ringVars
<1> SUFFICES ASSUME TypeOK, Numbers, HeldOnce, LinkTypeOK, [SceneRingNext]_allVars
             PROVE [RingCall]_ringVars
  OBVIOUS
<1>0. Returned \in SUBSET Nat
  BY OneLayer DEF Returned, LinkTypeOK
<1>1. ASSUME SceneOnly PROVE [RingCall]_ringVars
  BY <1>1 DEF SceneOnly
<1>2. ASSUME NEW slot \in Slots, ProducerSubmits(slot) PROVE [RingCall]_ringVars
  <2>1. Whole \in Seq(Regions) /\ FALSE \in BOOLEAN
    BY DEF Whole
  <2>2. QED
    BY <1>2, <2>1 DEF ProducerSubmits, RingCall
<1>3. ASSUME NEW kind \in {"flip", "blocking", "test"}, SceneBuilds(kind) PROVE [RingCall]_ringVars
  BY <1>3 DEF SceneBuilds, RingCall
<1>4. ASSUME NEW S \in SUBSET Layers, NEW usedUp \in SUBSET Layers, SceneBuildFails(S, usedUp)
      PROVE [RingCall]_ringVars
  BY <1>4 DEF SceneBuildFails, RingCall
<1>5. ASSUME SceneDelivers \/ SceneRemovesRing \/ ScenePauses PROVE [RingCall]_ringVars
  BY <1>0, <1>5 DEF SceneDelivers, SceneRemovesRing, ScenePauses, RingCall
<1>6. ASSUME NEW S \in SUBSET Layers, NEW ok \in BOOLEAN, SceneResumes(S, ok)
      PROVE [RingCall]_ringVars
  BY <1>6 DEF SceneResumes, RingCall
<1>7. ASSUME UNCHANGED allVars PROVE [RingCall]_ringVars
  BY <1>7 DEF allVars
<1>8. QED
  BY <1>1, <1>2, <1>3, <1>4, <1>5, <1>6, <1>7 DEF SceneRingNext

\* How the link between the two and the frames' number may change.
LEMMA LinkSteps ==
  ASSUME [SceneRingNext]_allVars
  PROVE  \/ UNCHANGED <<carries, builds>>
         \/ UNCHANGED carries /\ builds' = builds + 1 /\ builds < MaxFrames
         \/ Carries(builds + 1) /\ builds' = builds + 1 /\ builds < MaxFrames
<1>1. ASSUME SceneOnly PROVE UNCHANGED <<carries, builds>>
  BY <1>1 DEF SceneOnly, linkVars, AddLayer, SetDisplay, CommitAccepted, CommitAnswered,
              FlipLands, DispatchFlip, LoseMaster, Resume, Teardown, sceneVars
<1>2. ASSUME NEW slot \in Slots, ProducerSubmits(slot) PROVE UNCHANGED <<carries, builds>>
  BY <1>2 DEF ProducerSubmits, linkVars, Produce, vars, sceneVars
<1>3. ASSUME NEW kind \in {"flip", "blocking", "test"}, SceneBuilds(kind)
      PROVE /\ UNCHANGED carries \/ Carries(builds + 1)
            /\ builds' = builds + 1 /\ builds < MaxFrames
  BY <1>3 DEF SceneBuilds, BuildFrame, MayBuild, AcquireFrom
<1>4. ASSUME NEW S \in SUBSET Layers, NEW usedUp \in SUBSET Layers, SceneBuildFails(S, usedUp)
      PROVE /\ UNCHANGED carries \/ Carries(builds + 1)
            /\ builds' = builds + 1 /\ builds < MaxFrames
  BY <1>4 DEF SceneBuildFails, BuildFrameFails, MayBuild, AcquireFrom
<1>5. ASSUME SceneDelivers \/ SceneRemovesRing \/ ScenePauses PROVE UNCHANGED <<carries, builds>>
  BY <1>5 DEF SceneDelivers, FinalizeFrameOk, FinalizeFrameReturns, ReleaseDisplaced,
              SceneRemovesRing, RemoveLayer, ScenePauses, OnSessionPaused, linkVars
<1>6. ASSUME NEW S \in SUBSET Layers, NEW ok \in BOOLEAN, SceneResumes(S, ok)
      PROVE UNCHANGED <<carries, builds>>
  BY <1>6 DEF SceneResumes, OnSessionResumed, linkVars
<1>7. ASSUME UNCHANGED allVars PROVE UNCHANGED <<carries, builds>>
  BY <1>7 DEF allVars, linkVars, vars, sceneVars
<1>8. QED
  BY <1>1, <1>2, <1>3, <1>4, <1>5, <1>6, <1>7 DEF SceneRingNext

\* What a frame carried, it carried for good.
LEMMA CarriedStays ==
  ASSUME TypeOK, LinkTypeOK, [SceneRingNext]_allVars
  PROVE  \A n \in 1..builds : carries'[n] = carries[n]
<1>1. \A n \in 1..builds : n \in 1..MaxFrames /\ n # builds + 1
  BY SceneAssumption DEF TypeOK, LinkTypeOK
<1>2. UNCHANGED carries \/ Carries(builds + 1)
  BY LinkSteps
<1>3. QED
  BY <1>1, <1>2 DEF Carries, LinkTypeOK

\* How what the sources have handed out may change.
LEMMA OutSteps ==
  ASSUME TypeOK, [Next]_vars
  PROVE  \/ out' \subseteq out
         \/ builds' = builds + 1 /\ out' \subseteq out \cup Acquired(Layers, builds + 1)
<1>1. ASSUME NEW l \in Layers, AddLayer(l) \/ RemoveLayer(l) \/ SetDisplay(l) \/ Produce(l)
      PROVE out' = out
  BY <1>1 DEF AddLayer, RemoveLayer, SetDisplay, Produce, sourceVars
<1>2. ASSUME NEW kind \in {"flip", "blocking", "test"}, BuildFrame(kind)
      PROVE builds' = builds + 1 /\ out' \subseteq out \cup Acquired(Layers, builds + 1)
  <2>1. Ready \subseteq Layers
    BY DEF Ready, Live
  <2>2. QED
    BY <1>2, <2>1 DEF BuildFrame, AcquireFrom, Acquired
<1>3. ASSUME NEW S \in SUBSET Layers, NEW usedUp \in SUBSET Layers,
             BuildFrameFails(S, usedUp) \/ OnSessionResumed(S)
      PROVE out' = out
  BY <1>3 DEF BuildFrameFails, OnSessionResumed, sourceVars
<1>4. ASSUME NEW seq \in 1..lastSeq, ReleaseDisplaced(seq) PROVE out' \subseteq out
  BY <1>4 DEF ReleaseDisplaced, Deliver
<1>5. ASSUME FinalizeFrameOk \/ FinalizeFrameReturns \/ OnSessionPaused PROVE out' \subseteq out
  BY <1>5 DEF FinalizeFrameOk, FinalizeFrameReturns, OnSessionPaused, Rotate, Deliver
<1>6. ASSUME \/ CommitAccepted \/ FlipLands \/ DispatchFlip \/ LoseMaster \/ Resume \/ Teardown
             \/ \E result \in {"ok", "rejected", "not_master"} : CommitAnswered(result)
      PROVE out' = out
  BY <1>6 DEF CommitAccepted, CommitAnswered, FlipLands, DispatchFlip, LoseMaster, Resume,
              Teardown, sourceVars
<1>7. ASSUME UNCHANGED vars PROVE out' = out
  BY <1>7 DEF vars, sourceVars
<1>8. QED
  BY <1>1, <1>2, <1>3, <1>4, <1>5, <1>6, <1>7 DEF Next

\* A layer that was added is never as if it had not been.
LEMMA NeverAbsentAgain ==
  ASSUME TypeOK, [Next]_vars, NEW l \in Layers, layers'[l] = "absent"
  PROVE  layers[l] = "absent"
<1> USE DEF TypeOK
<1>1. ASSUME NEW k \in Layers, AddLayer(k) \/ RemoveLayer(k) \/ SetDisplay(k) \/ Produce(k)
      PROVE layers[l] = "absent"
  BY <1>1 DEF AddLayer, RemoveLayer, Removed, SetDisplay, Produce, sceneVars
<1>2. ASSUME NEW kind \in {"flip", "blocking", "test"}, BuildFrame(kind) PROVE layers[l] = "absent"
  BY <1>2 DEF BuildFrame
<1>3. ASSUME NEW S \in SUBSET Layers, NEW usedUp \in SUBSET Layers,
             BuildFrameFails(S, usedUp) \/ OnSessionResumed(S)
      PROVE layers[l] = "absent"
  BY <1>3 DEF BuildFrameFails, OnSessionResumed
<1>4. ASSUME FinalizeFrameOk \/ FinalizeFrameReturns \/ OnSessionPaused PROVE layers[l] = "absent"
  BY <1>4 DEF FinalizeFrameOk, FinalizeFrameReturns, OnSessionPaused, Rotate, Deliver
<1>5. ASSUME NEW seq \in 1..lastSeq, ReleaseDisplaced(seq) PROVE layers[l] = "absent"
  BY <1>5 DEF ReleaseDisplaced, Deliver
<1>6. ASSUME \/ CommitAccepted \/ FlipLands \/ DispatchFlip \/ LoseMaster \/ Resume \/ Teardown
             \/ UNCHANGED vars
             \/ \E result \in {"ok", "rejected", "not_master"} : CommitAnswered(result)
      PROVE layers[l] = "absent"
  BY <1>6 DEF CommitAccepted, CommitAnswered, FlipLands, DispatchFlip, LoseMaster, Resume,
              Teardown, vars, sceneVars
<1>7. QED
  BY <1>1, <1>2, <1>3, <1>4, <1>5, <1>6 DEF Next

\* The link keeps its type.
LEMMA LinkTypeStep ==
  TypeOK /\ LinkTypeOK /\ RingTypeOK' /\ [SceneRingNext]_allVars => LinkTypeOK'
<1> SUFFICES ASSUME TypeOK, LinkTypeOK, RingTypeOK', [SceneRingNext]_allVars PROVE LinkTypeOK'
  OBVIOUS
<1>1. repeated' \in BOOLEAN
  <2>1. repeated \in BOOLEAN
    BY DEF LinkTypeOK
  <2>2. CASE SceneDelivers
    BY <2>1, <2>2, Zenon DEF SceneDelivers
  <2>3. CASE ~SceneDelivers
    BY <2>1, <2>3 DEF SceneRingNext, SceneOnly, ProducerSubmits, SceneBuilds, SceneBuildFails,
                      SceneRemovesRing, ScenePauses, SceneResumes, linkVars, allVars
  <2>4. QED
    BY <2>2, <2>3
<1>2. builds' \in Nat /\ builds' <= MaxFrames
  BY LinkSteps, SceneAssumption DEF LinkTypeOK, TypeOK
<1>3. carries' \in [1..MaxFrames -> [token : Nat, key : Slots \cup {NoSlot}]]
  <2>1. [token |-> scanningToken', key |-> scanningKey'] \in [token : Nat, key : Slots \cup {NoSlot}]
    BY DEF RingTypeOK
  <2>2. QED
    BY <2>1, LinkSteps DEF LinkTypeOK, Carries
<1>4. \A a \in out' : a.frame # 0
  BY StepsOfScene, OutSteps DEF Acquired, LinkTypeOK, TypeOK
<1>5. QED
  BY <1>1, <1>2, <1>3, <1>4 DEF LinkTypeOK

-----------------------------------------------------------------------------
(* One lemma per conjunct.                                                 *)

\* A token is new when the ring hands it out, as long as the counter has not
\* come round.
LEMMA FreshToken ==
  ASSUME TypeOK, RingTypeOK, Tokens, builds < MaxFrames
  PROVE  Successor(nextToken) = nextToken + 1
<1>1. nextToken \in Nat /\ TokenLimit \in Nat /\ nextToken + 1 < TokenLimit
  BY TokenAssumption, PresenterAssumption, SceneAssumption DEF RingTypeOK, Tokens, TypeOK
<1>2. WrappingAdd(nextToken) = nextToken + 1
  BY <1>1 DEF WrappingAdd
<1>3. QED
  BY <1>1, <1>2 DEF Successor

\* Tokens stay distinct.
LEMMA TokensStep ==
  TypeOK /\ RingTypeOK /\ Tokens /\ [SceneRingNext]_allVars => Tokens'
<1> SUFFICES ASSUME TypeOK, RingTypeOK, Tokens, [SceneRingNext]_allVars PROVE Tokens'
  OBVIOUS
<1> USE DEF TypeOK, RingTypeOK, Tokens
<1>a. ASSUME UNCHANGED nextToken, outstanding' \subseteq outstanding,
             UNCHANGED <<scanningToken, scanningKey>> \/ scanningToken' = 0
      PROVE Tokens'
  <2>1. builds' >= builds
    BY LinkSteps
  <2>2. builds' \in Nat
    BY LinkSteps
  <2>3. QED
    BY <1>a, <2>1, <2>2
<1>b. ASSUME AcquireFresh, builds' = builds + 1, builds < MaxFrames PROVE Tokens'
  <2> DEFINE new == [token |-> nextToken + 1, key |-> pending.key]
  <2>1. /\ nextToken' = nextToken + 1 /\ scanningToken' = nextToken + 1
        /\ scanningKey' = pending.key /\ pending.key # NoSlot
        /\ outstanding' = outstanding \cup {new}
    BY <1>b, FreshToken DEF AcquireFresh, HasPending
  <2>2. new.token = nextToken + 1
    OBVIOUS
  <2>3. \A o \in outstanding : o.token \in Nat /\ o.token <= nextToken
    OBVIOUS
  <2>4. \A o \in outstanding' : o = new \/ (o \in outstanding /\ o.token <= nextToken)
    BY <2>1
  <2>5. \A o, p \in outstanding' : o.token = p.token => o = p
    BY <2>2, <2>3, <2>4
  <2>6. \A o \in outstanding' : o.token <= nextToken'
    BY <2>1, <2>2, <2>3, <2>4
  <2>7. QED
    BY <1>b, <2>1, <2>5, <2>6
<1>c. ASSUME RingStarves PROVE Tokens'
  BY <1>a, <1>c DEF RingStarves, AcquireMissed, AcquireIdle, presenterVars
<1>d. ASSUME RingAcquires, builds' = builds + 1, builds < MaxFrames PROVE Tokens'
  BY <1>a, <1>b, <1>d DEF RingAcquires, AcquireMissed, AcquireIdle, presenterVars
<1>e. ASSUME UNCHANGED ringVars PROVE Tokens'
  BY <1>a, <1>e DEF ringVars, presenterVars
<1>f. ASSUME NEW tokens, RingReleases(tokens) PROVE Tokens'
  BY <1>a, <1>f DEF RingReleases, Release
<1>1. ASSUME SceneOnly PROVE Tokens'
  BY <1>1, <1>e DEF SceneOnly
<1>2. ASSUME NEW slot \in Slots, ProducerSubmits(slot) PROVE Tokens'
  BY <1>2, <1>a DEF ProducerSubmits, RingSubmit, Submit
<1>3. ASSUME NEW kind \in {"flip", "blocking", "test"}, SceneBuilds(kind) PROVE Tokens'
  <2>1. builds' = builds + 1 /\ builds < MaxFrames
    BY <1>3 DEF SceneBuilds, BuildFrame, MayBuild, AcquireFrom
  <2>2. QED
    BY <1>3, <1>c, <1>d, <1>e, <2>1 DEF SceneBuilds
<1>4. ASSUME NEW S \in SUBSET Layers, NEW usedUp \in SUBSET Layers, SceneBuildFails(S, usedUp)
      PROVE Tokens'
  <2>1. builds' = builds + 1 /\ builds < MaxFrames
    BY <1>4 DEF SceneBuildFails, BuildFrameFails, MayBuild, AcquireFrom
  <2>2. QED
    BY <1>4, <1>b, <1>d, <1>e, <2>1 DEF SceneBuildFails, RingFails
<1>5. ASSUME SceneDelivers PROVE Tokens'
  BY <1>5, <1>f DEF SceneDelivers
<1>6. ASSUME SceneRemovesRing PROVE Tokens'
  BY <1>6, <1>a DEF SceneRemovesRing, RingRetired, RetireScanning
<1>7. ASSUME ScenePauses PROVE Tokens'
  <2>1. RingPaused => Tokens'
    BY <1>a DEF RingPaused, Reset, ForgetsOutstanding
  <2>2. QED
    BY <1>7, <1>f, <2>1 DEF ScenePauses
<1>8. ASSUME NEW S \in SUBSET Layers, NEW ok \in BOOLEAN, SceneResumes(S, ok) PROVE Tokens'
  <2>1. RingResumes(ok) => Tokens'
    BY <1>a DEF RingResumes, presenterVars
  <2>2. QED
    BY <1>8, <1>e, <2>1 DEF SceneResumes
<1>9. ASSUME UNCHANGED allVars PROVE Tokens'
  BY <1>9, <1>e DEF allVars
<1>10. QED
  BY <1>1, <1>2, <1>3, <1>4, <1>5, <1>6, <1>7, <1>8, <1>9 DEF SceneRingNext

\* An entry is fired only for its token, and never the one on screen.
LEMMA FiredOnly ==
  ASSUME NEW tokens, RingReleases(tokens)
  PROVE  /\ UNCHANGED <<pending, scanningKey, scanningToken, nextToken>>
         /\ outstanding' \subseteq outstanding
         /\ \A o \in outstanding : o \notin outstanding' =>
              o.token \in tokens /\ o.token # scanningToken /\ o.key \in owned'
         /\ \A o \in outstanding :
              o \in outstanding' <=> o.token \notin tokens \ {0, scanningToken}
         /\ owned \subseteq owned'
  BY DEF RingReleases, Release, Fired

\* A ring that has a frame and can acquire delivers it, and has it on screen.
LEMMA AcquiredIsScanning ==
  ASSUME RingTypeOK', RingAcquires
  PROVE  /\ pending'.key = NoSlot /\ scanningKey' # NoSlot
         /\ outstanding \subseteq outstanding'
         /\ \/ [token |-> scanningToken', key |-> scanningKey'] \in outstanding'
            \/ UNCHANGED <<scanningToken, scanningKey>>
<1>1. NoPending.key = NoSlot
  BY DEF NoPending
<1>2. CASE AcquireFresh
  BY <1>1, <1>2 DEF AcquireFresh, HasPending
<1>3. CASE AcquireMissed /\ scanningKey # NoSlot
  BY <1>1, <1>3 DEF AcquireMissed
<1>4. CASE AcquireIdle /\ scanningKey # NoSlot
  BY <1>4 DEF AcquireIdle, presenterVars, HasPending
<1>5. QED
  BY <1>2, <1>3, <1>4 DEF RingAcquires

\* Scene and ring go on assuming the same of each other.
LEMMA AgreedStep ==
  TypeOK /\ RingInv /\ Agreed /\ [SceneRingNext]_allVars => Agreed'
<1> SUFFICES ASSUME TypeOK, RingInv, Agreed, [SceneRingNext]_allVars PROVE Agreed'
  OBVIOUS
<1> USE RingLayerAssumption DEF TypeOK, RingTypeOK, Agreed, RingAsAssumed, Live, Scanning
<1>0. RingTypeOK /\ RingLayer \in Layers /\ NoPending.key = NoSlot
  BY DEF RingInv, NoPending
<1>a. ASSUME UNCHANGED <<fresh, presenting, pending, scanningKey, scanningToken, removedMidFrame>>,
             outstanding \subseteq outstanding' \/ Scanning \in outstanding => Scanning \in outstanding',
             layers'[RingLayer] = layers[RingLayer] \/
               (layers[RingLayer] = "retiring" /\ layers'[RingLayer] = "gone")
      PROVE Agreed'
  BY <1>a
<1>1. ASSUME SceneOnly PROVE Agreed'
  <2>1. CASE AddLayer(RingLayer)
    <3>1. /\ layers[RingLayer] = "absent" /\ layers'[RingLayer] = "live"
          /\ UNCHANGED <<fresh, presenting, removedMidFrame, ringVars>>
      BY <1>0, <1>1, <2>1 DEF SceneOnly, AddLayer, sourceVars
    <3>2. QED
      BY <3>1 DEF ringVars, presenterVars
  <2>2. CASE ~AddLayer(RingLayer)
    <3>1. UNCHANGED <<fresh, presenting, removedMidFrame, layers, ringVars>>
      BY <1>1, <2>2 DEF SceneOnly, SetDisplay, CommitAccepted, CommitAnswered, FlipLands,
                        DispatchFlip, LoseMaster, Resume, Teardown, sceneVars, sourceVars,
                        historyVars
    <3>2. QED
      BY <1>a, <3>1 DEF ringVars, presenterVars
  <2>3. QED
    BY <2>1, <2>2
<1>2. ASSUME NEW slot \in Slots, ProducerSubmits(slot) PROVE Agreed'
  <2>1. /\ RingLayer \in fresh' /\ layers[RingLayer] = "live"
        /\ fresh' \subseteq {RingLayer}
        /\ UNCHANGED <<presenting, layers, removedMidFrame>>
    BY <1>2 DEF ProducerSubmits, Produce, sceneVars, sourceVars, vars, historyVars
  <2>2. pending'.key # NoSlot /\ UNCHANGED <<scanningKey, scanningToken, outstanding>>
    BY <1>2, PresenterAssumption DEF ProducerSubmits, RingSubmit, Submit
  <2>3. QED
    BY <2>1, <2>2
<1>3. ASSUME NEW kind \in {"flip", "blocking", "test"}, SceneBuilds(kind) PROVE Agreed'
  <2>1. /\ fresh' = fresh \ Ready /\ presenting' = presenting \cup Ready
        /\ UNCHANGED <<layers, removedMidFrame>> /\ Ready \subseteq Live
    BY <1>3 DEF SceneBuilds, BuildFrame, AcquireFrom, Ready
  <2>2. CASE layers[RingLayer] = "live" /\ RingLayer \in Ready
    <3>1. RingAcquires
      BY <1>3, <2>2 DEF SceneBuilds
    <3>2. QED
      BY <1>0, <2>1, <2>2, <3>1, AcquiredIsScanning, StepsOfRing, RingTypeStep DEF RingCall
  <2>3. CASE layers[RingLayer] = "live" /\ RingLayer \notin Ready
    <3>1. RingStarves /\ RingLayer \notin fresh
      BY <1>3, <2>3 DEF SceneBuilds, Ready
    <3>2. AcquireIdle
      BY <2>3, <3>1 DEF RingStarves, AcquireMissed, HasPending
    <3>3. UNCHANGED presenterVars /\ Ready = {}
      BY <2>1, <2>3, <3>2 DEF AcquireIdle
    <3>4. QED
      BY <1>a, <2>1, <3>3 DEF presenterVars
  <2>4. CASE layers[RingLayer] # "live"
    BY <1>3, <1>a, <2>1, <2>4 DEF SceneBuilds, ringVars, presenterVars
  <2>5. QED
    BY <2>2, <2>3, <2>4
<1>4. ASSUME NEW S \in SUBSET Layers, NEW usedUp \in SUBSET Layers, SceneBuildFails(S, usedUp)
      PROVE Agreed'
  <2>1. /\ fresh' = fresh \ (S \cup usedUp) /\ presenting' = presenting \cup S \cup usedUp
        /\ UNCHANGED removedMidFrame
        /\ S \subseteq Live /\ usedUp \subseteq Live
    BY <1>4 DEF SceneBuildFails, BuildFrameFails, AcquireFrom, Ready, historyVars
  <2>2. layers'[RingLayer] = layers[RingLayer] \/
          (layers[RingLayer] = "retiring" /\ layers'[RingLayer] = "gone")
    BY <1>0, <1>4 DEF SceneBuildFails, BuildFrameFails
  <2>3. CASE RingLayer \in S
    <3>1. RingAcquires
      BY <1>4, <2>3 DEF SceneBuildFails
    <3>2. QED
      BY <1>0, <2>1, <2>2, <2>3, <3>1, AcquiredIsScanning, RingTypeStep DEF RingCall
  <2>4. CASE RingLayer \notin S /\ RingLayer \in usedUp
    <3>1. AcquireFresh
      BY <1>4, <2>4 DEF SceneBuildFails, RingFails
    <3>2. /\ pending'.key = NoSlot /\ scanningKey' # NoSlot
          /\ [token |-> scanningToken', key |-> scanningKey'] \in outstanding'
      BY <1>0, <3>1 DEF AcquireFresh, HasPending
    <3>3. QED
      BY <2>1, <2>2, <2>4, <3>2
  <2>5. CASE RingLayer \notin S \cup usedUp
    <3>1. UNCHANGED ringVars /\ S = {} /\ usedUp = {}
      BY <1>4, <2>1, <2>5 DEF SceneBuildFails
    <3>2. QED
      BY <1>a, <2>1, <2>2, <3>1 DEF ringVars, presenterVars
  <2>6. QED
    BY <2>3, <2>4, <2>5
<1>5. ASSUME SceneDelivers PROVE Agreed'
  <2>1. UNCHANGED <<fresh, presenting, removedMidFrame>>
    BY <1>5 DEF SceneDelivers, FinalizeFrameOk, FinalizeFrameReturns, ReleaseDisplaced, historyVars
  <2>2. layers'[RingLayer] = layers[RingLayer] \/
          (layers[RingLayer] = "retiring" /\ layers'[RingLayer] = "gone")
    BY <1>0, <1>5 DEF SceneDelivers, FinalizeFrameOk, FinalizeFrameReturns, ReleaseDisplaced,
                      Rotate, Deliver
  <2>3. RingReleases(Returned)
    BY <1>5 DEF SceneDelivers
  <2>4. /\ UNCHANGED <<pending, scanningKey, scanningToken>>
        /\ Scanning \in outstanding => Scanning \in outstanding'
    BY <2>3, FiredOnly
  <2>5. QED
    BY <1>a, <2>1, <2>2, <2>4
<1>6. ASSUME SceneRemovesRing PROVE Agreed'
  <2>1. /\ layers'[RingLayer] \in {"retiring", "gone"}
        /\ fresh' = fresh \ {RingLayer} /\ presenting' = presenting \ {RingLayer}
    BY <1>0, <1>6 DEF SceneRemovesRing, RemoveLayer, Removed
  <2>2. QED
    BY <2>1
<1>7. ASSUME ScenePauses PROVE Agreed'
  <2>1. fresh' = {} /\ presenting' = {} /\ UNCHANGED removedMidFrame
    BY <1>7 DEF ScenePauses, OnSessionPaused
  <2>2. layers'[RingLayer] = layers[RingLayer] \/
          (layers[RingLayer] = "retiring" /\ layers'[RingLayer] = "gone")
    BY <1>0, <1>7 DEF ScenePauses, OnSessionPaused, Deliver
  <2>3. CASE layers[RingLayer] = "live"
    <3>1. pending'.key = NoSlot /\ scanningKey' = NoSlot
      BY <1>0, <1>7, <2>3 DEF ScenePauses, RingPaused, Reset, ForgetsPending
    <3>2. QED
      BY <2>1, <2>2, <2>3, <3>1
  <2>4. CASE layers[RingLayer] # "live"
    <3>1. RingReleases(Returned)
      BY <1>7, <2>4 DEF ScenePauses
    <3>2. UNCHANGED <<pending, scanningKey>>
      BY <3>1, FiredOnly
    <3>3. QED
      BY <2>1, <2>2, <2>4, <3>2
  <2>5. QED
    BY <2>3, <2>4
<1>8. ASSUME NEW S \in SUBSET Layers, NEW ok \in BOOLEAN, SceneResumes(S, ok) PROVE Agreed'
  <2>1. UNCHANGED <<fresh, presenting, layers, removedMidFrame>>
    BY <1>8 DEF SceneResumes, OnSessionResumed, sourceVars, historyVars
  <2>2. UNCHANGED presenterVars
    BY <1>8 DEF SceneResumes, RingResumes, ringVars
  <2>3. QED
    BY <1>a, <2>1, <2>2 DEF presenterVars
<1>9. ASSUME UNCHANGED allVars PROVE Agreed'
  BY <1>9, <1>a DEF allVars, vars, sceneVars, sourceVars, historyVars, ringVars, presenterVars
<1>10. CASE SceneRingNext
  <2>1. CASE \E slot \in Slots : ProducerSubmits(slot)
    BY <1>2, <2>1
  <2>2. CASE \E kind \in {"flip", "blocking", "test"} : SceneBuilds(kind)
    BY <1>3, <2>2
  <2>3. CASE \E S, usedUp \in SUBSET Layers : SceneBuildFails(S, usedUp)
    BY <1>4, <2>3
  <2>4. CASE \E S \in SUBSET Layers, ok \in BOOLEAN : SceneResumes(S, ok)
    <3>1. PICK S \in SUBSET Layers : \E ok \in BOOLEAN : SceneResumes(S, ok)
      BY <2>4
    <3>2. PICK ok \in BOOLEAN : SceneResumes(S, ok)
      BY <3>1
    <3>3. QED
      BY <1>8, <3>2
  <2>5. QED
    BY <1>1, <1>5, <1>6, <1>7, <1>10, <2>1, <2>2, <2>3, <2>4 DEF SceneRingNext
<1>11. QED
  BY <1>9, <1>10

\* What the caller's frame holds is what the ring would present again.
LEMMA HeldCarriesStep ==
  IInv /\ LinkTypeOK /\ HeldCarries /\ [SceneRingNext]_allVars => HeldCarries'
<1> SUFFICES ASSUME IInv, LinkTypeOK, HeldCarries, [SceneRingNext]_allVars, ~removedMidFrame'
             PROVE \A a \in Own(frame)' : carries'[a.frame] = Scanning'
  BY DEF HeldCarries
<1> DEFINE Goal == \A a \in Own(frame)' : carries'[a.frame] = Scanning'
<1>0. TypeOK /\ Numbers /\ HeldOnce
  BY DEF IInv
<1>a. ASSUME Own(frame)' = Own(frame), UNCHANGED <<carries, scanningToken, scanningKey>>,
             ~removedMidFrame
      PROVE Goal
  BY <1>a DEF HeldCarries, Scanning
<1>b. ASSUME ~HoldsFrame, frame' = frame PROVE Goal
  <2>1. Own(frame)' = {}
    BY <1>0, <1>b, OwnWithout DEF Own
  <2>2. QED
    BY <2>1
<1>1. ASSUME SceneOnly PROVE Goal
  <2>1. UNCHANGED <<carries, scanningToken, scanningKey>>
    BY <1>1 DEF SceneOnly, linkVars, ringVars, presenterVars
  <2>2. CASE CommitAccepted \/ \E result \in {"ok", "rejected", "not_master"} : CommitAnswered(result)
    BY <1>0, <1>a, <2>1, <2>2, OwnOfAnswered
  <2>3. CASE ~(CommitAccepted \/ \E result \in {"ok", "rejected", "not_master"} : CommitAnswered(result))
    <3>1. UNCHANGED <<frame, removedMidFrame>>
      BY <1>1, <2>3 DEF SceneOnly, AddLayer, SetDisplay, FlipLands, DispatchFlip, LoseMaster,
                        Resume, Teardown, sceneVars, historyVars
    <3>2. QED
      BY <1>a, <2>1, <3>1 DEF Own
  <2>4. QED
    BY <2>2, <2>3
<1>2. ASSUME NEW slot \in Slots, ProducerSubmits(slot) PROVE Goal
  <2>1. UNCHANGED <<frame, removedMidFrame, carries, scanningToken, scanningKey>>
    BY <1>2 DEF ProducerSubmits, Produce, RingSubmit, Submit, linkVars, vars, sceneVars, historyVars
  <2>2. QED
    BY <1>a, <2>1 DEF Own
<1>3. ASSUME NEW kind \in {"flip", "blocking", "test"}, SceneBuilds(kind) PROVE Goal
  <2>1. ASSUME NEW a \in Own(frame)' PROVE carries'[a.frame] = Scanning'
    <3>1. /\ BuildFrame(kind) /\ builds < MaxFrames
      BY <1>3 DEF SceneBuilds, BuildFrame, MayBuild
    <3>2. a.frame = builds + 1 /\ a.layer \in Ready /\ Ready \subseteq {RingLayer}
      BY <1>0, <2>1, <3>1, OwnOfBuilt, RingLayerAssumption DEF Ready, Live
    <3>3. Carries(builds + 1)
      BY <1>3, <3>2 DEF SceneBuilds, Ready, Live
    <3>4. builds + 1 \in 1..MaxFrames
      BY <1>0, <3>1, SceneAssumption DEF TypeOK
    <3>5. QED
      BY <3>2, <3>3, <3>4 DEF Carries, LinkTypeOK, Scanning
  <2>2. QED
    BY <2>1
<1>4. ASSUME NEW S \in SUBSET Layers, NEW usedUp \in SUBSET Layers, SceneBuildFails(S, usedUp)
      PROVE Goal
  BY <1>4, <1>b DEF SceneBuildFails, BuildFrameFails, MayBuild
<1>5. ASSUME SceneDelivers PROVE Goal
  <2>1. CASE FinalizeFrameOk \/ FinalizeFrameReturns
    BY <2>1 DEF FinalizeFrameOk, FinalizeFrameReturns, NoFrame, Own
  <2>2. CASE \E seq \in 1..lastSeq : ReleaseDisplaced(seq)
    <3>1. UNCHANGED <<frame, removedMidFrame>>
      BY <2>2 DEF ReleaseDisplaced, historyVars
    <3>2. UNCHANGED <<carries, scanningToken, scanningKey>>
      BY <1>5, FiredOnly DEF SceneDelivers
    <3>3. QED
      BY <1>a, <3>1, <3>2 DEF Own
  <2>3. QED
    BY <1>5, <2>1, <2>2 DEF SceneDelivers
<1>6. ASSUME SceneRemovesRing PROVE Goal
  <2>1. ~HoldsFrame /\ frame' = frame
    BY <1>0, <1>6 DEF SceneRemovesRing, RemoveLayer, HoldsFrame, TypeOK
  <2>2. QED
    BY <1>b, <2>1
<1>7. ASSUME ScenePauses PROVE Goal
  BY <1>7, <1>b DEF ScenePauses, OnSessionPaused
<1>8. ASSUME NEW S \in SUBSET Layers, NEW ok \in BOOLEAN, SceneResumes(S, ok) PROVE Goal
  BY <1>8, <1>b DEF SceneResumes, OnSessionResumed
<1>9. ASSUME UNCHANGED allVars PROVE Goal
  BY <1>9, <1>a DEF allVars, vars, sceneVars, historyVars, ringVars, presenterVars, linkVars, Own
<1>10. QED
  BY <1>1, <1>2, <1>3, <1>4, <1>5, <1>6, <1>7, <1>8, <1>9 DEF SceneRingNext

\* What goes back of two_ago takes no entry from what the scene still holds.
LEMMA DeliveryKeeps ==
  ASSUME IInv, RingTypeOK, LinkTypeOK, Tokens, HeldCarries, Tracked, ~repeated, ~removedMidFrame,
         RingReleases(Returned), out \ out' \subseteq twoAgo,
         NEW a \in previous \cup Own(frame)
  PROVE  carries[a.frame] \in outstanding'
<1>1. SUFFICES ASSUME carries[a.frame] \notin outstanding' PROVE FALSE
  OBVIOUS
<1>2. carries[a.frame] \in outstanding
  BY DEF Tracked, Held, InFlight
<1>3. carries[a.frame].token \in Returned /\ carries[a.frame].token # scanningToken
  BY <1>1, <1>2, FiredOnly
<1>4. a \in previous
  BY <1>3 DEF HeldCarries, Scanning
<1>5. PICK b \in twoAgo : carries[b.frame].token = carries[a.frame].token
  BY <1>3 DEF Returned
<1>6. carries[b.frame] \in outstanding
  BY DEF Tracked, Held, InFlight
<1>7. carries[b.frame] = carries[a.frame]
  BY <1>2, <1>5, <1>6 DEF Tokens
<1>8. QED
  BY <1>4, <1>7 DEF Tracked

\* The entries of what the scene holds stay outstanding.
LEMMA TrackedStep ==
  /\ IInv /\ RingInv /\ LinkTypeOK /\ Tokens /\ Agreed /\ HeldCarries /\ Tracked
  /\ [SceneRingNext]_allVars
  /\ RingInv' /\ Agreed' /\ HeldCarries'
  => Tracked'
<1> SUFFICES ASSUME IInv, RingInv, LinkTypeOK, Tokens, Agreed, HeldCarries, Tracked,
                    [SceneRingNext]_allVars, RingInv', Agreed', HeldCarries',
                    ~repeated', ~removedMidFrame'
             PROVE /\ \A a \in Held' : carries'[a.frame] \in outstanding'
                   /\ \A a \in twoAgo', b \in previous' : carries'[a.frame] # carries'[b.frame]
  BY DEF Tracked
<1> DEFINE Goal == /\ \A a \in Held' : carries'[a.frame] \in outstanding'
                   /\ \A a \in twoAgo', b \in previous' : carries'[a.frame] # carries'[b.frame]
<1>0. /\ TypeOK /\ Numbers /\ HeldOnce /\ Kept /\ RingTypeOK /\ RingTypeOK'
      /\ \A a \in Held : a.frame \in 1..builds
  BY OneLayer DEF IInv, RingInv
<1>a. ASSUME ~repeated, ~removedMidFrame, Own(frame)' = Own(frame), UNCHANGED <<previous, twoAgo>>,
             \A n \in 1..builds : carries'[n] = carries[n], outstanding \subseteq outstanding'
      PROVE Goal
  BY <1>a, <1>0 DEF Tracked, Held, InFlight
<1>1. ASSUME SceneOnly PROVE Goal
  <2>1. UNCHANGED <<carries, outstanding, repeated>>
    BY <1>1 DEF SceneOnly, linkVars, ringVars, presenterVars
  <2>2. CASE CommitAccepted \/ \E result \in {"ok", "rejected", "not_master"} : CommitAnswered(result)
    BY <1>0, <1>a, <2>1, <2>2, OwnOfAnswered
  <2>3. CASE ~(CommitAccepted \/ \E result \in {"ok", "rejected", "not_master"} : CommitAnswered(result))
    <3>1. UNCHANGED <<frame, previous, twoAgo, removedMidFrame>>
      BY <1>1, <2>3 DEF SceneOnly, AddLayer, SetDisplay, FlipLands, DispatchFlip, LoseMaster,
                        Resume, Teardown, sceneVars, historyVars
    <3>2. QED
      BY <1>a, <2>1, <3>1 DEF Own
  <2>4. QED
    BY <2>2, <2>3
<1>2. ASSUME NEW slot \in Slots, ProducerSubmits(slot) PROVE Goal
  <2>1. UNCHANGED <<frame, previous, twoAgo, removedMidFrame, repeated, carries, outstanding>>
    BY <1>2 DEF ProducerSubmits, Produce, RingSubmit, Submit, linkVars, vars, sceneVars, historyVars
  <2>2. QED
    BY <1>a, <2>1 DEF Own
<1>3. ASSUME NEW kind \in {"flip", "blocking", "test"}, SceneBuilds(kind) PROVE Goal
  <2>1. /\ BuildFrame(kind) /\ ~HoldsFrame /\ builds \in Nat
        /\ UNCHANGED <<previous, twoAgo, layers, removedMidFrame, repeated>>
    BY <1>0, <1>3 DEF SceneBuilds, BuildFrame, MayBuild, TypeOK
  <2>2. outstanding \subseteq outstanding'
    BY <1>0, <1>3, AcquiredIsScanning
       DEF SceneBuilds, RingStarves, AcquireMissed, AcquireIdle, ringVars, presenterVars
  <2>3. \A n \in 1..builds : carries'[n] = carries[n]
    BY <1>0, CarriedStays
  <2>4. InFlight' = InFlight /\ Own(frame) = {}
    BY <1>0, <2>1, OwnWithout DEF InFlight
  <2>5. ASSUME NEW a \in Own(frame)' PROVE carries'[a.frame] \in outstanding'
    <3>1. a.layer \in Ready /\ Ready \subseteq {RingLayer} /\ layers[RingLayer] = "live"
      BY <1>0, <2>1, <2>5, OwnOfBuilt, RingLayerAssumption DEF Ready, Live
    <3>2. scanningKey' # NoSlot
      BY <1>0, <1>3, <3>1, AcquiredIsScanning DEF SceneBuilds
    <3>3. Scanning' \in outstanding'
      BY <2>1, <3>1, <3>2 DEF Agreed
    <3>4. QED
      BY <2>5, <3>3 DEF HeldCarries
  <2>6. \A a \in InFlight : carries'[a.frame] \in outstanding'
    BY <1>0, <2>1, <2>2, <2>3 DEF Tracked, Held
  <2>7. \A a \in twoAgo, b \in previous : carries'[a.frame] # carries'[b.frame]
    BY <1>0, <2>1, <2>3 DEF Tracked, Held, InFlight
  <2>8. QED
    BY <2>1, <2>4, <2>5, <2>6, <2>7 DEF Held
<1>4. ASSUME NEW S \in SUBSET Layers, NEW usedUp \in SUBSET Layers, SceneBuildFails(S, usedUp)
      PROVE Goal
  <2>1. UNCHANGED <<frame, previous, twoAgo, removedMidFrame, repeated>> /\ builds \in Nat
    BY <1>0, <1>4 DEF SceneBuildFails, BuildFrameFails, historyVars, TypeOK
  <2>2. outstanding \subseteq outstanding'
    BY <1>0, <1>4, AcquiredIsScanning
       DEF SceneBuildFails, RingFails, AcquireFresh, ringVars, presenterVars
  <2>3. \A n \in 1..builds : carries'[n] = carries[n]
    BY <1>0, CarriedStays
  <2>4. QED
    BY <1>a, <2>1, <2>2, <2>3 DEF Own
<1>5. ASSUME SceneDelivers PROVE Goal
  <2>1. /\ RingReleases(Returned) /\ UNCHANGED carries /\ ~removedMidFrame /\ ~repeated
    <3>1. RingReleases(Returned) /\ UNCHANGED <<carries, removedMidFrame>>
      <4>1. UNCHANGED removedMidFrame
        BY <1>5 DEF SceneDelivers, FinalizeFrameOk, FinalizeFrameReturns, ReleaseDisplaced, historyVars
      <4>2. QED
        BY <1>5, <4>1 DEF SceneDelivers
    <3>2. ~repeated
      BY <1>5 DEF SceneDelivers
    <3>3. QED
      BY <3>1, <3>2
  <2>2. CASE FinalizeFrameOk
    <3>1. /\ twoAgo' = previous /\ previous' = Own(frame) /\ out \ out' \subseteq twoAgo
          /\ Own(frame)' = {}
          /\ frame' # frame /\ frame.kind # "test" /\ frame.result = "ok"
      BY <2>2 DEF FinalizeFrameOk, Rotate, Deliver, NoFrame, Own
    <3>2. \A a \in previous \cup Own(frame) : carries[a.frame] \in outstanding'
      BY <1>0, <2>1, <3>1, DeliveryKeeps
    <3>3. ASSUME NEW a \in previous, NEW b \in Own(frame) PROVE carries[a.frame] # carries[b.frame]
      <4>1. a.layer = RingLayer /\ b.layer = RingLayer
        BY <1>0, OneLayer DEF Held, InFlight
      <4>2. QED
        BY <1>5, <3>1, <4>1 DEF SceneDelivers, InFlight
    <3>4. Held' = previous \cup Own(frame)
      BY <3>1 DEF Held, InFlight
    <3>5. QED
      BY <2>1, <3>1, <3>2, <3>3, <3>4
  <2>3. CASE FinalizeFrameReturns
    <3>1. /\ UNCHANGED <<previous, twoAgo>> /\ out \ out' \subseteq Own(frame)
          /\ Own(frame)' = {}
      BY <2>3 DEF FinalizeFrameReturns, Deliver, NoFrame, Own
    <3>2. \A t \in Returned : t = scanningToken
      BY <2>1, <3>1 DEF Returned, HeldCarries, Scanning
    <3>3. outstanding \subseteq outstanding'
      BY <2>1, <3>2, FiredOnly
    <3>4. Held' \subseteq Held
      BY <3>1 DEF Held, InFlight
    <3>5. QED
      BY <2>1, <3>1, <3>3, <3>4 DEF Tracked
  <2>4. ASSUME NEW seq \in 1..lastSeq, ReleaseDisplaced(seq) PROVE Goal
    <3>1. /\ UNCHANGED <<previous, frame>> /\ twoAgo' = twoAgo \ Displaced(seq)
          /\ out \ out' \subseteq Displaced(seq) /\ Displaced(seq) \in {twoAgo, {}}
      BY <2>4 DEF ReleaseDisplaced, Deliver, Displaced
    <3>2. CASE Displaced(seq) = {}
      <4>1. outstanding \subseteq outstanding'
        BY <2>1, <3>1, <3>2, FiredOnly DEF Returned
      <4>2. QED
        BY <1>a, <2>1, <3>1, <3>2, <4>1 DEF Own
    <3>3. CASE Displaced(seq) = twoAgo
      <4>1. Held' = previous \cup Own(frame) /\ twoAgo' = {}
        BY <3>1, <3>3 DEF Held, InFlight, Own
      <4>2. QED
        BY <1>0, <2>1, <3>1, <3>3, <4>1, DeliveryKeeps
    <3>4. QED
      BY <3>1, <3>2, <3>3
  <2>5. QED
    BY <1>5, <2>2, <2>3, <2>4 DEF SceneDelivers
<1>6. ASSUME SceneRemovesRing PROVE Goal
  <2>1. UNCHANGED <<frame, previous, twoAgo, repeated, carries, outstanding>> /\ ~removedMidFrame
    BY <1>0, <1>6 DEF SceneRemovesRing, RemoveLayer, linkVars, RingRetired, RetireScanning, TypeOK
  <2>2. QED
    BY <1>a, <2>1 DEF Own
<1>7. ASSUME ScenePauses PROVE Goal
  <2>1. ~HoldsFrame /\ UNCHANGED frame /\ previous' = {} /\ twoAgo' = {}
    BY <1>7 DEF ScenePauses, OnSessionPaused
  <2>2. Held' = {}
    BY <1>0, <2>1, OwnWithout DEF Held, InFlight, Own
  <2>3. QED
    BY <2>1, <2>2
<1>8. ASSUME NEW S \in SUBSET Layers, NEW ok \in BOOLEAN, SceneResumes(S, ok) PROVE Goal
  <2>1. UNCHANGED <<frame, previous, twoAgo, removedMidFrame, repeated, carries, outstanding>>
    BY <1>8 DEF SceneResumes, OnSessionResumed, RingResumes, linkVars, historyVars, ringVars,
                presenterVars
  <2>2. QED
    BY <1>a, <2>1 DEF Own
<1>9. ASSUME UNCHANGED allVars PROVE Goal
  BY <1>9, <1>a DEF allVars, vars, sceneVars, historyVars, ringVars, presenterVars, linkVars, Own
<1>10. QED
  BY <1>1, <1>2, <1>3, <1>4, <1>5, <1>6, <1>7, <1>8, <1>9 DEF SceneRingNext

\* An accepted commit was answered by a session that is not paused.
LEMMA AnsweredAwake ==
  TypeOK /\ Newest /\ [Next]_vars =>
    (HoldsFrame /\ frame.result = "ok" => session # "paused")'
<1> SUFFICES ASSUME TypeOK, Newest, [Next]_vars, HoldsFrame', frame'.result = "ok"
             PROVE session' # "paused"
  OBVIOUS
<1>1. HoldsFrame /\ frame.result = "ok" => session # "paused"
  BY DEF Newest
<1>2. ASSUME NEW l \in Layers, AddLayer(l) \/ RemoveLayer(l) \/ SetDisplay(l) \/ Produce(l)
      PROVE session' # "paused"
  BY <1>1, <1>2 DEF AddLayer, RemoveLayer, SetDisplay, Produce, sceneVars, kernelVars, HoldsFrame
<1>3. ASSUME NEW kind \in {"flip", "blocking", "test"}, BuildFrame(kind) PROVE session' # "paused"
  BY <1>3 DEF BuildFrame
<1>4. ASSUME NEW S \in SUBSET Layers, NEW usedUp \in SUBSET Layers,
             BuildFrameFails(S, usedUp) \/ OnSessionResumed(S)
      PROVE session' # "paused"
  BY <1>4 DEF BuildFrameFails, OnSessionResumed, MayBuild, HoldsFrame
<1>5. ASSUME CommitAccepted PROVE session' # "paused"
  BY <1>5 DEF CommitAccepted
<1>6. ASSUME NEW result \in {"ok", "rejected", "not_master"}, CommitAnswered(result)
      PROVE session' # "paused"
  BY <1>6 DEF CommitAnswered, kernelVars, TypeOK
<1>7. ASSUME FinalizeFrameOk \/ FinalizeFrameReturns PROVE session' # "paused"
  BY <1>7 DEF FinalizeFrameOk, FinalizeFrameReturns, NoFrame
<1>8. ASSUME \/ FlipLands \/ DispatchFlip \/ LoseMaster \/ Resume \/ Teardown \/ UNCHANGED vars
             \/ \E seq \in 1..lastSeq : ReleaseDisplaced(seq)
      PROVE session' # "paused"
  BY <1>1, <1>8 DEF FlipLands, DispatchFlip, LoseMaster, Resume, Teardown, ReleaseDisplaced, vars,
                    sceneVars, kernelVars, HoldsFrame
<1>9. ASSUME OnSessionPaused PROVE session' # "paused"
  BY <1>9 DEF OnSessionPaused, HoldsFrame
<1>10. QED
  BY <1>2, <1>3, <1>4, <1>5, <1>6, <1>7, <1>8, <1>9 DEF Next

\* What the ring holds back is what the newest frame shown acquired.
LEMMA NewestStep ==
  /\ IInv /\ RingInv /\ LinkTypeOK /\ Tokens /\ Agreed /\ HeldCarries /\ Newest
  /\ [SceneRingNext]_allVars
  /\ RingInv' /\ Agreed'
  => Newest'
<1> SUFFICES ASSUME IInv, RingInv, LinkTypeOK, Tokens, Agreed, HeldCarries, Newest,
                    [SceneRingNext]_allVars, RingInv', Agreed',
                    layers'[RingLayer] = "live", unshown' = {}, scanningKey' # NoSlot
             PROVE /\ HoldsFrame' /\ session' # "paused" => Own(frame)' # {}
                   /\ Own(frame)' = {} =>
                        \E a \in previous' : carries'[a.frame].token = scanningToken'
  BY StepsOfScene, AnsweredAwake DEF Newest, IInv
<1> DEFINE Goal == /\ HoldsFrame' /\ session' # "paused" => Own(frame)' # {}
                   /\ Own(frame)' = {} =>
                        \E a \in previous' : carries'[a.frame].token = scanningToken'
<1>0. /\ TypeOK /\ Numbers /\ HeldOnce /\ Kept /\ RingTypeOK /\ RingTypeOK'
      /\ \A a \in Held : a.frame \in 1..builds /\ a.layer = RingLayer
      /\ ~removedMidFrame'
  BY OneLayer DEF IInv, RingInv, Agreed
<1>a. ASSUME layers[RingLayer] = "live", unshown = {}, UNCHANGED <<previous, scanningToken, scanningKey>>,
             HoldsFrame' => HoldsFrame /\ session' = session, Own(frame)' = Own(frame)
      PROVE Goal
  <2>1. \A a \in previous : carries'[a.frame] = carries[a.frame]
    BY <1>0, CarriedStays DEF Held, InFlight
  <2>2. QED
    BY <1>a, <2>1 DEF Newest
<1>1. ASSUME SceneOnly PROVE Goal
  <2>1. UNCHANGED <<unshown, scanningToken, scanningKey>>
    BY <1>1 DEF SceneOnly, linkVars, ringVars, presenterVars
  <2>2. CASE CommitAccepted \/ \E result \in {"ok", "rejected", "not_master"} : CommitAnswered(result)
    <3>1. Own(frame)' = Own(frame) /\ UNCHANGED <<previous, layers, session>> /\ HoldsFrame
      BY <1>0, <2>2, OwnOfAnswered
    <3>2. QED
      BY <1>a, <2>1, <3>1
  <2>3. CASE AddLayer(RingLayer)
    BY <2>1, <2>3 DEF AddLayer, Agreed
  <2>4. CASE LoseMaster
    <3>1. UNCHANGED <<frame, previous, layers>> /\ session = "active"
      BY <2>4 DEF LoseMaster, sceneVars
    <3>2. \A a \in previous : carries'[a.frame] = carries[a.frame]
      BY <1>0, CarriedStays DEF Held, InFlight
    <3>3. QED
      BY <2>1, <3>1, <3>2 DEF Newest, Own, HoldsFrame
  <2>5. CASE SetDisplay(RingLayer) \/ FlipLands \/ DispatchFlip \/ Resume \/ Teardown
    <3>1. /\ UNCHANGED <<frame, previous, layers>>
          /\ HoldsFrame => session' = session
      BY <2>5 DEF SetDisplay, FlipLands, DispatchFlip, Resume, Teardown, sceneVars, kernelVars
    <3>2. QED
      BY <1>a, <2>1, <3>1 DEF Own, HoldsFrame
  <2>6. QED
    BY <1>1, <2>2, <2>3, <2>4, <2>5 DEF SceneOnly
<1>2. ASSUME NEW slot \in Slots, ProducerSubmits(slot) PROVE Goal
  <2>1. UNCHANGED <<frame, previous, layers, session, unshown, scanningToken, scanningKey>>
    BY <1>2 DEF ProducerSubmits, Produce, RingSubmit, Submit, linkVars, vars, sceneVars, kernelVars
  <2>2. QED
    BY <1>a, <2>1 DEF Own, HoldsFrame
<1>3. ASSUME NEW kind \in {"flip", "blocking", "test"}, SceneBuilds(kind) PROVE Goal
  <2>1. /\ BuildFrame(kind) /\ ~HoldsFrame /\ Ready \subseteq {RingLayer}
        /\ UNCHANGED <<previous, layers, session, unshown>>
    BY <1>3, RingLayerAssumption
       DEF SceneBuilds, BuildFrame, MayBuild, kernelVars, Ready, Live
  <2>2. Own(frame)' = Acquired(Ready, builds + 1)
    BY <1>0, <2>1, OwnOfBuilt
  <2>3. CASE RingLayer \in Ready
    <3>1. [layer |-> RingLayer, frame |-> builds + 1] \in Own(frame)'
      BY <2>2, <2>3 DEF Acquired
    <3>2. QED
      BY <3>1
  <2>4. CASE RingLayer \notin Ready
    <3>1. RingStarves /\ RingLayer \notin fresh
      BY <1>3, <2>1, <2>4, RingLayerAssumption DEF SceneBuilds, Ready, Live
    <3>2. AcquireIdle
      BY <2>1, <3>1 DEF RingStarves, AcquireMissed, HasPending, Agreed, RingAsAssumed
    <3>3. UNCHANGED <<scanningToken, scanningKey>>
      BY <3>2 DEF AcquireIdle, presenterVars
    <3>4. RingLayer \in presenting
      BY <2>1, <3>3 DEF Agreed, RingAsAssumed
    <3>5. session' = "paused"
      BY <2>1, <2>4, <3>4, RingLayerAssumption DEF Ready, Live
    <3>6. Own(frame) = {}
      BY <1>0, <2>1, OwnWithout
    <3>7. \A a \in previous : carries'[a.frame] = carries[a.frame]
      BY <1>0, CarriedStays DEF Held, InFlight
    <3>8. QED
      BY <2>1, <3>3, <3>5, <3>6, <3>7 DEF Newest
  <2>5. QED
    BY <2>3, <2>4
<1>4. ASSUME NEW S \in SUBSET Layers, NEW usedUp \in SUBSET Layers, SceneBuildFails(S, usedUp)
      PROVE Goal
  <2>1. UNCHANGED <<frame, previous, session>> /\ layers[RingLayer] = "live"
    BY <1>4, RingLayerAssumption DEF SceneBuildFails, BuildFrameFails, kernelVars
  <2>2. UNCHANGED <<unshown, scanningToken, scanningKey>>
    BY <1>4 DEF SceneBuildFails, ringVars, presenterVars
  <2>3. QED
    BY <1>a, <2>1, <2>2 DEF Own, HoldsFrame
<1>5. ASSUME SceneDelivers PROVE Goal
  <2>1. /\ UNCHANGED <<scanningToken, scanningKey, carries, removedMidFrame>>
        /\ layers[RingLayer] = "live"
    <3>1. UNCHANGED carries /\ RingReleases(Returned)
      BY <1>5 DEF SceneDelivers
    <3>2. layers[RingLayer] = "live" /\ UNCHANGED removedMidFrame
      BY <1>5, RingLayerAssumption
         DEF SceneDelivers, FinalizeFrameOk, FinalizeFrameReturns, ReleaseDisplaced, Rotate, Deliver,
             historyVars
    <3>3. QED
      BY <3>1, <3>2, FiredOnly
  <2>2. unshown = {}
    BY <1>5 DEF SceneDelivers
  <2>3. CASE FinalizeFrameOk
    <3>1. /\ HoldsFrame /\ frame.result = "ok" /\ previous' = Own(frame) /\ ~HoldsFrame'
      BY <2>3 DEF FinalizeFrameOk, Rotate, HoldsFrame, NoFrame
    <3>2. Own(frame) # {}
      BY <2>1, <2>2, <3>1 DEF Newest
    <3>3. \A a \in Own(frame) : carries'[a.frame].token = scanningToken'
      BY <1>0, <2>1 DEF HeldCarries, Scanning
    <3>4. QED
      BY <3>1, <3>2, <3>3
  <2>4. CASE FinalizeFrameReturns
    <3>1. /\ frame' # frame /\ UNCHANGED previous /\ ~HoldsFrame'
          /\ frame.kind = "test" \/ frame.result # "ok"
      BY <2>4 DEF FinalizeFrameReturns, NoFrame, HoldsFrame
    <3>2. Own(frame) = {}
      <4>1. SUFFICES ASSUME NEW a \in Own(frame) PROVE FALSE
        OBVIOUS
      <4>2. a.layer = RingLayer
        BY <1>0 DEF Held
      <4>3. (IF frame.kind = "test" THEN "test" ELSE frame.result) \in unshown'
        BY <1>5, <3>1, <4>2 DEF SceneDelivers
      <4>4. QED
        BY <4>3
    <3>3. QED
      BY <2>1, <2>2, <3>1, <3>2 DEF Newest
  <2>5. ASSUME NEW seq \in 1..lastSeq, ReleaseDisplaced(seq) PROVE Goal
    <3>1. UNCHANGED <<frame, previous, session>>
      BY <2>5 DEF ReleaseDisplaced, kernelVars
    <3>2. QED
      BY <1>a, <2>1, <2>2, <3>1 DEF Own, HoldsFrame
  <2>6. QED
    BY <1>5, <2>3, <2>4, <2>5 DEF SceneDelivers
<1>6. ASSUME SceneRemovesRing PROVE Goal
  BY <1>0, <1>6, RingLayerAssumption DEF SceneRemovesRing, RemoveLayer, Removed, TypeOK
<1>7. ASSUME ScenePauses PROVE Goal
  <2>1. layers[RingLayer] = "live"
    BY <1>7, RingLayerAssumption DEF ScenePauses, OnSessionPaused, Deliver
  <2>2. QED
    BY <1>7, <2>1 DEF ScenePauses, RingPaused, Reset
<1>8. ASSUME NEW S \in SUBSET Layers, NEW ok \in BOOLEAN, SceneResumes(S, ok) PROVE Goal
  <2>1. UNCHANGED <<frame, previous, layers, unshown, scanningToken, scanningKey>> /\ ~HoldsFrame
    BY <1>8 DEF SceneResumes, OnSessionResumed, RingResumes, linkVars, ringVars, presenterVars
  <2>2. QED
    BY <1>a, <2>1 DEF Own, HoldsFrame
<1>9. ASSUME UNCHANGED allVars PROVE Goal
  <2>1. UNCHANGED <<frame, previous, layers, session, unshown, scanningToken, scanningKey>>
    BY <1>9 DEF allVars, vars, sceneVars, kernelVars, ringVars, presenterVars, linkVars
  <2>2. QED
    BY <1>a, <2>1 DEF Own, HoldsFrame
<1>10. QED
  BY <1>1, <1>2, <1>3, <1>4, <1>5, <1>6, <1>7, <1>8, <1>9 DEF SceneRingNext

\* No slot is lost to the producer while every frame is shown.
LEMMA AllAccountedStep ==
  /\ IInv /\ RingInv /\ LinkTypeOK /\ Tokens /\ Agreed /\ Newest /\ AllAccounted
  /\ [SceneRingNext]_allVars
  /\ IInv' /\ RingInv' /\ Agreed'
  => AllAccounted'
<1> SUFFICES ASSUME IInv, RingInv, LinkTypeOK, Tokens, Agreed, Newest, AllAccounted,
                    [SceneRingNext]_allVars, IInv', RingInv', Agreed'
             PROVE AllAccounted'
  OBVIOUS
<1>0. /\ TypeOK /\ Numbers /\ HeldOnce /\ RingTypeOK /\ RingTypeOK' /\ SlotsApart
      /\ \A a \in Held : a.frame \in 1..builds /\ a.layer = RingLayer
      /\ RingLayer \in Layers
  BY OneLayer, RingLayerAssumption DEF IInv, RingInv
<1>n. ASSUME layers'[RingLayer] = "absent" PROVE owned' = Slots
  <2>1. layers[RingLayer] = "absent" /\ Live = {} /\ owned = Slots
    <3>1. layers[RingLayer] = "absent"
      BY <1>0, <1>n, StepsOfScene, NeverAbsentAgain
    <3>2. QED
      BY <3>1, RingLayerAssumption DEF Live, AllAccounted
  <2>2. ASSUME NEW tokens, RingReleases(tokens) PROVE owned' = Slots
    BY <1>0, <2>1, <2>2, FiredOnly DEF RingTypeOK
  <2>3. CASE SceneOnly
    BY <2>1, <2>3 DEF SceneOnly, ringVars
  <2>4. ASSUME NEW slot \in Slots, ProducerSubmits(slot) PROVE FALSE
    BY <2>1, <2>4 DEF ProducerSubmits, Produce, Agreed
  <2>5. ASSUME NEW kind \in {"flip", "blocking", "test"}, SceneBuilds(kind) PROVE owned' = Slots
    BY <2>1, <2>5 DEF SceneBuilds, ringVars
  <2>6. ASSUME NEW S \in SUBSET Layers, NEW usedUp \in SUBSET Layers, SceneBuildFails(S, usedUp)
        PROVE owned' = Slots
    <3>1. S = {} /\ usedUp = {}
      BY <2>1, <2>6 DEF SceneBuildFails, BuildFrameFails, Ready
    <3>2. QED
      BY <2>1, <2>6, <3>1 DEF SceneBuildFails, ringVars
  <2>7. CASE SceneDelivers
    BY <2>2, <2>7 DEF SceneDelivers
  <2>8. CASE SceneRemovesRing
    BY <2>1, <2>8 DEF SceneRemovesRing, RemoveLayer
  <2>9. CASE ScenePauses
    BY <2>1, <2>2, <2>9 DEF ScenePauses
  <2>10. ASSUME NEW S \in SUBSET Layers, NEW ok \in BOOLEAN, SceneResumes(S, ok) PROVE owned' = Slots
    BY <2>1, <2>10 DEF SceneResumes, RingResumes, ringVars
  <2>11. CASE UNCHANGED allVars
    BY <2>1, <2>11 DEF allVars, ringVars
  <2>12. QED
    BY <2>3, <2>4, <2>5, <2>6, <2>7, <2>8, <2>9, <2>10, <2>11 DEF SceneRingNext
<1>l. ASSUME layers'[RingLayer] = "live", unshown' = {}, NEW slot \in Slots PROVE Accounted(slot)'
  <2> DEFINE Out(o) == /\ o \in outstanding /\ o.key = slot
                       /\ \/ o.token = scanningToken
                          \/ \E a \in Held : a.layer = RingLayer /\ carries[a.frame].token = o.token
  <2>0. /\ ~removedMidFrame'
        /\ Accounted(slot) <=> slot \in owned \cup {pending.key} \/ \E o \in outstanding : Out(o)
        /\ \A a \in Held : carries'[a.frame] = carries[a.frame]
    BY <1>0, <1>l, CarriedStays DEF Accounted, Agreed
  <2>a. ASSUME Accounted(slot), owned \subseteq owned', pending'.key = pending.key,
               outstanding \subseteq outstanding', UNCHANGED scanningToken, Held \subseteq Held'
        PROVE Accounted(slot)'
    BY <2>0, <2>a DEF Accounted
  <2>b. layers[RingLayer] = "live" /\ unshown = {} => Accounted(slot)
    BY DEF AllAccounted, NoSlotLost, NoneLost
  <2>c. ASSUME UNCHANGED ringVars, Held \subseteq Held', Accounted(slot) PROVE Accounted(slot)'
    BY <2>a, <2>c DEF ringVars, presenterVars
  <2>1. CASE SceneOnly
    <3>1. UNCHANGED <<ringVars, unshown>>
      BY <2>1 DEF SceneOnly, linkVars
    <3>2. CASE AddLayer(RingLayer)
      <4>1. owned = Slots
        BY <3>2 DEF AddLayer, AllAccounted
      <4>2. QED
        BY <3>1, <4>1 DEF Accounted, ringVars
    <3>3. CASE CommitAccepted \/ \E result \in {"ok", "rejected", "not_master"} : CommitAnswered(result)
      <4>1. Own(frame)' = Own(frame) /\ UNCHANGED <<previous, twoAgo, layers>>
        BY <1>0, <3>3, OwnOfAnswered
      <4>2. QED
        BY <1>l, <2>b, <2>c, <3>1, <4>1 DEF Held, InFlight
    <3>4. CASE SetDisplay(RingLayer) \/ FlipLands \/ DispatchFlip \/ LoseMaster \/ Resume \/ Teardown
      <4>1. UNCHANGED <<frame, previous, twoAgo, layers>>
        BY <3>4 DEF SetDisplay, FlipLands, DispatchFlip, LoseMaster, Resume, Teardown, sceneVars
      <4>2. QED
        BY <1>l, <2>b, <2>c, <3>1, <4>1 DEF Held, InFlight, Own
    <3>5. QED
      BY <2>1, <3>2, <3>3, <3>4 DEF SceneOnly
  <2>2. ASSUME NEW s \in Slots, ProducerSubmits(s) PROVE Accounted(slot)'
    <3>1. /\ UNCHANGED <<frame, previous, twoAgo, layers, unshown, scanningToken, outstanding>>
          /\ pending'.key = s /\ owned' = (owned \ {s}) \cup ({pending.key} \ {NoSlot})
      BY <2>2 DEF ProducerSubmits, Produce, RingSubmit, Submit, Pending, linkVars, vars, sceneVars
    <3>2. Accounted(slot) /\ Held' = Held
      BY <1>l, <2>b, <3>1 DEF Held, InFlight, Own
    <3>3. QED
      BY <2>0, <3>1, <3>2, PresenterAssumption DEF Accounted
  <2>3. ASSUME NEW kind \in {"flip", "blocking", "test"}, SceneBuilds(kind) PROVE Accounted(slot)'
    <3>1. /\ BuildFrame(kind) /\ ~HoldsFrame /\ UNCHANGED <<previous, twoAgo, layers, unshown>>
      BY <2>3 DEF SceneBuilds, BuildFrame, MayBuild
    <3>2. /\ Own(frame) = {} /\ Held = InFlight /\ Held \subseteq Held' /\ Accounted(slot)
      BY <1>0, <1>l, <2>b, <3>1, OwnWithout DEF Held, InFlight
    <3>3. CASE AcquireFresh /\ owned' = owned
      <4>1. [token |-> scanningToken', key |-> pending.key] \in outstanding'
            /\ outstanding \subseteq outstanding'
        BY <3>3 DEF AcquireFresh
      <4>2. ASSUME NEW o \in outstanding, Out(o) PROVE Accounted(slot)'
        <5>1. \E a \in Held : a.layer = RingLayer /\ carries[a.frame].token = o.token
          <6>1. CASE o.token = scanningToken
            <7>1. scanningKey # NoSlot
              BY <1>0, <6>1 DEF Tokens, RingTypeOK
            <7>2. \E a \in previous : carries[a.frame].token = scanningToken
              BY <1>l, <3>1, <3>2, <7>1 DEF Newest
            <7>3. QED
              BY <1>0, <3>2, <6>1, <7>2 DEF InFlight
          <6>2. QED
            BY <4>2, <6>1
        <5>2. QED
          BY <2>0, <3>2, <4>1, <4>2, <5>1 DEF Accounted
      <4>3. CASE slot \in owned \cup {pending.key}
        BY <3>3, <4>1, <4>3 DEF Accounted
      <4>4. QED
        BY <2>0, <3>2, <4>2, <4>3
    <3>4. CASE AcquireMissed /\ owned' = owned \cup Pending
      <4>1. /\ slot \in owned \cup {pending.key} => slot \in owned'
            /\ UNCHANGED <<outstanding, scanningToken>>
        BY <3>4, PresenterAssumption DEF AcquireMissed, Pending
      <4>2. QED
        BY <2>0, <3>2, <4>1 DEF Accounted
    <3>5. CASE AcquireIdle /\ owned' = owned
      BY <2>a, <3>2, <3>5 DEF AcquireIdle, presenterVars
    <3>6. QED
      BY <1>l, <2>3, <3>1, <3>3, <3>4, <3>5 DEF SceneBuilds, RingAcquires, RingStarves
  <2>4. ASSUME NEW S \in SUBSET Layers, NEW usedUp \in SUBSET Layers, SceneBuildFails(S, usedUp)
        PROVE Accounted(slot)'
    <3>1. UNCHANGED <<ringVars, unshown>>
      BY <1>l, <2>4 DEF SceneBuildFails
    <3>2. UNCHANGED <<frame, previous, twoAgo>> /\ layers[RingLayer] = "live"
      BY <1>0, <1>l, <2>4 DEF SceneBuildFails, BuildFrameFails
    <3>3. QED
      BY <2>b, <2>c, <3>1, <3>2, <1>l DEF Held, InFlight, Own
  <2>5. CASE SceneDelivers
    <3>1. RingReleases(Returned) /\ unshown = {}
      BY <1>l, <2>5 DEF SceneDelivers
    <3>2. layers[RingLayer] = "live"
      BY <1>0, <1>l, <2>5
         DEF SceneDelivers, FinalizeFrameOk, FinalizeFrameReturns, ReleaseDisplaced, Rotate, Deliver
    <3>3. /\ UNCHANGED <<pending, scanningToken>> /\ owned \subseteq owned'
          /\ \A o \in outstanding : o \notin outstanding' => o.key \in owned'
      BY <3>1, FiredOnly
    <3>4. ASSUME NEW o \in outstanding, Out(o) PROVE Accounted(slot)'
      <4>1. CASE o \notin outstanding'
        BY <3>3, <3>4, <4>1 DEF Accounted
      <4>2. CASE o \in outstanding' /\ o.token = scanningToken
        BY <3>3, <3>4, <4>2 DEF Accounted
      <4>3. CASE o \in outstanding' /\ o.token # scanningToken
        <5>1. PICK a \in Held : a.layer = RingLayer /\ carries[a.frame].token = o.token
          BY <3>4, <4>3
        <5>2. a \in Held'
          <6>1. SUFFICES ASSUME a \notin Held' PROVE FALSE
            OBVIOUS
          <6>2. a \in out \ out'
            BY <2>0, <6>1 DEF IInv, Kept, HeldOnce
          <6>3. o.token \in Returned
            BY <5>1, <6>2 DEF Returned
          <6>4. o \notin outstanding'
            BY <1>0, <3>1, <4>3, <6>3, FiredOnly DEF RingTypeOK
          <6>5. QED
            BY <4>3, <6>4
        <5>3. QED
          BY <2>0, <3>4, <4>3, <5>1, <5>2 DEF Accounted
      <4>4. QED
        BY <4>1, <4>2, <4>3
    <3>5. QED
      BY <2>0, <2>b, <3>1, <3>2, <3>3, <3>4 DEF Accounted
  <2>6. CASE SceneRemovesRing
    BY <1>0, <1>l, <2>6 DEF SceneRemovesRing, RemoveLayer, Removed, TypeOK
  <2>7. CASE ScenePauses
    <3>1. layers[RingLayer] = "live"
      BY <1>0, <1>l, <2>7 DEF ScenePauses, OnSessionPaused, Deliver
    <3>2. QED
      BY <2>7, <3>1 DEF ScenePauses, RingPaused, Accounted
  <2>8. ASSUME NEW S \in SUBSET Layers, NEW ok \in BOOLEAN, SceneResumes(S, ok)
        PROVE Accounted(slot)'
    <3>1. UNCHANGED <<frame, previous, twoAgo, layers, unshown, presenterVars, owned>>
      BY <2>8 DEF SceneResumes, OnSessionResumed, RingResumes, linkVars, ringVars
    <3>2. QED
      BY <1>l, <2>a, <2>b, <3>1 DEF presenterVars, Held, InFlight, Own
  <2>9. CASE UNCHANGED allVars
    <3>1. UNCHANGED <<frame, previous, twoAgo, layers, unshown, ringVars>>
      BY <2>9 DEF allVars, vars, sceneVars, linkVars
    <3>2. QED
      BY <1>l, <2>b, <2>c, <3>1 DEF Held, InFlight, Own
  <2>10. QED
    BY <2>1, <2>2, <2>3, <2>4, <2>5, <2>6, <2>7, <2>8, <2>9 DEF SceneRingNext
<1>1. NoSlotLost'
  BY <1>l DEF NoSlotLost, NoneLost
<1>2. QED
  BY <1>n, <1>1 DEF AllAccounted

-----------------------------------------------------------------------------
(* The theorems.                                                           *)

\* The invariant holds initially.
LEMMA SceneRingInvInit == SceneRingInit => SceneRingInv
<1> SUFFICES ASSUME SceneRingInit PROVE SceneRingInv
  OBVIOUS
<1>1. IInv /\ RingInv
  BY InvariantInit, RingInvInit DEF SceneRingInit
<1>2. LinkTypeOK
  <2>1. NoAcquisition \in [token : Nat, key : Slots \cup {NoSlot}]
    BY DEF NoAcquisition
  <2>2. carries \in [1..MaxFrames -> [token : Nat, key : Slots \cup {NoSlot}]]
    BY <2>1 DEF SceneRingInit
  <2>3. repeated \in BOOLEAN /\ builds = 0 /\ out = {}
    BY DEF SceneRingInit, Init
  <2>4. QED
    BY <2>2, <2>3, SceneAssumption DEF LinkTypeOK
<1>3. Tokens
  BY <1>1 DEF SceneRingInit, Init, RingInit, PresenterInit, Tokens
<1>4. Agreed
  BY RingLayerAssumption
     DEF SceneRingInit, Init, RingInit, PresenterInit, Agreed, RingAsAssumed, NoPending
<1>5. /\ Held = {} /\ twoAgo = {} /\ ~HoldsFrame
  BY DEF SceneRingInit, Init, NoFrame, Held, InFlight, Own, HoldsFrame
<1>6. HeldCarries /\ Tracked
  BY <1>5 DEF HeldCarries, Tracked, Held
<1>7. Newest
  BY <1>5 DEF Newest, SceneRingInit, RingInit, PresenterInit
<1>8. AllAccounted
  BY RingLayerAssumption
     DEF SceneRingInit, Init, RingInit, AllAccounted, NoSlotLost, NoneLost
<1>9. QED
  BY <1>1, <1>2, <1>3, <1>4, <1>6, <1>7, <1>8 DEF SceneRingInv

\* SceneRingInv holds of every reachable state.
THEOREM SceneRingInvariance == SceneRingSpec => []SceneRingInv
<1>1. SceneRingInv /\ [SceneRingNext]_allVars => SceneRingInv'
  <2> SUFFICES ASSUME SceneRingInv, [SceneRingNext]_allVars PROVE SceneRingInv'
    OBVIOUS
  <2>1. TypeOK /\ Numbers /\ HeldOnce /\ RingTypeOK
    BY DEF SceneRingInv, IInv, RingInv
  <2>2. IInv'
    BY StepsOfScene, InvariantStep DEF SceneRingInv
  <2>3. RingInv'
    BY <2>1, StepsOfRing, RingInvStep DEF SceneRingInv
  <2>4. LinkTypeOK' /\ Tokens' /\ Agreed' /\ HeldCarries'
    BY <2>1, <2>3, LinkTypeStep, TokensStep, AgreedStep, HeldCarriesStep
       DEF SceneRingInv, RingInv
  <2>5. Tracked' /\ Newest' /\ AllAccounted'
    BY <2>2, <2>3, <2>4, TrackedStep, NewestStep, AllAccountedStep DEF SceneRingInv
  <2>6. QED
    BY <2>2, <2>3, <2>4, <2>5 DEF SceneRingInv
<1>2. QED
  BY SceneRingInvInit, <1>1, PTL DEF SceneRingSpec

\* The scene's theorems hold of a scene with a ring.
THEOREM SceneRingIsScene == SceneRingSpec => Spec
<1>1. SceneRingInit => Init
  BY DEF SceneRingInit
<1>2. QED
  BY <1>1, StepsOfScene, PTL DEF SceneRingSpec, Spec

\* Ring, scene and producer are of one mind about every slot.
THEOREM RingStaysInStep == SceneRingSpec => []RingInStep
<1>1. SceneRingInv => RingInStep
  BY DEF SceneRingInv, RingInv, Agreed, RingInStep
<1>2. QED
  BY SceneRingInvariance, <1>1, PTL

\* A producer whose tokens are not shown twice never owns a slot that is on
\* screen or about to be, whatever the order of commits, flips and releases.
THEOREM SlotsReusedOffScreen == SceneRingSpec => []ReusedOffScreen
<1>1. ASSUME SceneRingInv PROVE ReusedOffScreen
  <2> SUFFICES ASSUME ~repeated, ~removedMidFrame, NEW k \in OnScreen, k \in owned PROVE FALSE
    BY DEF ReusedOffScreen
  <2>1. /\ IInv /\ TypeOK /\ Ring /\ Reattachment /\ SlotsApart /\ Tracked /\ RingTypeOK
    BY <1>1 DEF SceneRingInv, IInv, RingInv
  <2>2. PICK a \in (IF screen.n > drainedTo THEN screen.shows ELSE {})
                     \cup (IF flip.n > drainedTo THEN flip.shows ELSE {}) :
          /\ a.layer = RingLayer /\ carries[a.frame].key = k
          /\ layers[RingLayer] = "live" \/ a \in Held
    BY DEF OnScreen
  <2>3. a \in Held
    <3>1. SUFFICES ASSUME layers[RingLayer] = "live" PROVE a \in Held
      BY <2>2
    <3>2. Steady(a.layer)
      BY <2>2, <3>1, RingLayerAssumption DEF Steady
    <3>3. CASE a \in screen.shows /\ screen.n > drainedTo
      <4>1. a.frame = screen.n
        BY <2>1, <3>2, <3>3 DEF Reattachment, Fresh
      <4>2. QED
        BY <2>1, <3>3, <4>1 DEF Ring, Keeps, Held, InFlight
    <3>4. CASE a \in flip.shows /\ flip.n > drainedTo
      <4>1. a.frame = flip.n /\ flip # NoFlip
        BY <2>1, <3>2, <3>4 DEF Reattachment, Fresh, NoFlip
      <4>2. QED
        BY <2>1, <3>4, <4>1 DEF Ring, Keeps, Held, InFlight
    <3>5. QED
      BY <2>2, <3>3, <3>4
  <2>4. carries[a.frame] \in outstanding
    BY <2>1, <2>3 DEF Tracked
  <2>5. QED
    BY <2>1, <2>2, <2>4 DEF SlotsApart
<1>2. QED
  BY SceneRingInvariance, <1>1, PTL

\* While every frame built reaches the screen, every slot comes back.
THEOREM SlotsAreNotLost == SceneRingSpec => []NoSlotLost
<1>1. SceneRingInv => NoSlotLost
  BY DEF SceneRingInv, AllAccounted
<1>2. QED
  BY SceneRingInvariance, <1>1, PTL

-----------------------------------------------------------------------------
(* The pool.                                                               *)

ToSetOf(seq) == {seq[i] : i \in DOMAIN seq}

\* Appending adds one element.
LEMMA AppendAdds ==
  ASSUME NEW S, NEW s \in Seq(S), NEW x \in S
  PROVE  /\ Append(s, x) \in Seq(S)
         /\ ToSetOf(Append(s, x)) = ToSetOf(s) \cup {x}
<1>1. Append(s, x) \in Seq(S)
  OBVIOUS
<1>2. /\ DOMAIN s = 1..Len(s) /\ DOMAIN Append(s, x) = 1..Len(s) + 1
      /\ Append(s, x)[Len(s) + 1] = x
      /\ \A i \in 1..Len(s) : Append(s, x)[i] = s[i]
      /\ Len(s) \in Nat
  OBVIOUS
<1> DEFINE longer == Append(s, x)
<1> HIDE DEF longer
<1>3. ASSUME NEW i \in DOMAIN longer PROVE longer[i] \in ToSetOf(s) \cup {x}
  <2>1. i = Len(s) + 1 \/ i \in DOMAIN s
    BY <1>2 DEF longer
  <2>2. QED
    BY <1>2, <2>1 DEF ToSetOf, longer
<1>4. ASSUME NEW i \in DOMAIN s PROVE s[i] \in ToSetOf(longer)
  <2>1. i \in DOMAIN longer /\ longer[i] = s[i]
    BY <1>2 DEF longer
  <2>2. QED
    BY <2>1 DEF ToSetOf
<1>5. x \in ToSetOf(longer)
  <2>1. Len(s) + 1 \in DOMAIN longer /\ longer[Len(s) + 1] = x
    BY <1>2 DEF longer
  <2>2. QED
    BY <2>1 DEF ToSetOf
<1>6. ToSetOf(longer) = ToSetOf(s) \cup {x}
  <2>1. ToSetOf(longer) \subseteq ToSetOf(s) \cup {x}
    BY <1>3 DEF ToSetOf
  <2>2. ToSetOf(s) \subseteq ToSetOf(longer)
    BY <1>4 DEF ToSetOf
  <2>3. QED
    BY <1>5, <2>1, <2>2
<1>7. QED
  BY <1>1, <1>6 DEF longer

\* What is kept of an order are its keys in the set.
LEMMA KeptIsKept ==
  ASSUME NEW order \in Seq(Slots), NEW kept
  PROVE  /\ KeptOf(order, kept) \in Seq(Slots)
         /\ ToSetOf(KeptOf(order, kept)) = ToSetOf(order) \cap kept
<1> DEFINE Step(i, v) == IF order[i] \in kept THEN Append(v, order[i]) ELSE v
           Follows(f) == f = [i \in 0..Len(order) |-> IF i = 0 THEN <<>>
             ELSE IF order[i] \in kept THEN Append(f[i - 1], order[i]) ELSE f[i - 1]]
           upTo == CHOOSE f : Follows(f)
<1>1. PICK n \in Nat : /\ n = Len(order) /\ DOMAIN order = 1..n
                       /\ \A i \in 1..n : order[i] \in Slots
  <2>1. /\ Len(order) \in Nat /\ DOMAIN order = 1..Len(order)
        /\ \A i \in 1..Len(order) : order[i] \in Slots
    OBVIOUS
  <2>2. QED
    BY <2>1
<1>2. \A i \in 1..n, v \in Seq(Slots) : Step(i, v) \in Seq(Slots)
  BY <1>1, AppendAdds
<1>3. \E f : Follows(f)
  <2> DEFINE step == [i \in 1..n |-> [v \in Seq(Slots) |-> Step(i, v)]]
  <2> DEFINE V == Seq(Slots)
             base == <<>>
  <2>1. step \in [1..n -> [V -> V]]
    <3> HIDE DEF Step
    <3>1. QED
      BY <1>2
  <2>2. base \in V /\ n \in Nat
    BY <1>1
  <2>3. PICK f : Iterates(n, V, base, step, f)
    <3> HIDE DEF step, V, base
    <3>1. Steps(n, V, base, step)
      BY <2>1, <2>2 DEF Steps
    <3>2. QED
      BY <3>1, IteratesExist
  <2>4. \A i \in 1..n : f[i] = Step(i, f[i - 1])
    <3> HIDE DEF Step
    <3>1. ASSUME NEW i \in 1..n PROVE f[i] = Step(i, f[i - 1])
      <4>1. i - 1 \in 0..n
        OBVIOUS
      <4>2. f[i - 1] \in Seq(Slots)
        BY <2>3, <4>1 DEF Iterates
      <4>3. step[i][f[i - 1]] = Step(i, f[i - 1])
        BY <4>2
      <4>4. QED
        BY <2>3, <4>3 DEF Iterates
    <3>2. QED
      BY <3>1
  <2>5. f = [i \in 0..n |-> IF i = 0 THEN <<>> ELSE Step(i, f[i - 1])]
    <3> HIDE DEF Step
    <3>1. \A i \in 0..n : f[i] = IF i = 0 THEN <<>> ELSE Step(i, f[i - 1])
      BY <2>3, <2>4 DEF Iterates
    <3>2. QED
      BY <2>3, <3>1 DEF Iterates
  <2>6. Follows(f)
    BY <1>1, <2>5
  <2>7. QED
    <3> HIDE DEF Follows
    <3>1. QED
      BY <2>6
<1>4. Follows(upTo)
  <2> HIDE DEF Follows
  <2>1. QED
    BY <1>3
<1>5. upTo[0] = <<>> /\ \A i \in 1..n : upTo[i] = Step(i, upTo[i - 1])
  <2>1. upTo = [i \in 0..n |-> IF i = 0 THEN <<>> ELSE Step(i, upTo[i - 1])]
    BY <1>1, <1>4
  <2> HIDE DEF upTo, Step
  <2>2. \A i \in 0..n : upTo[i] = IF i = 0 THEN <<>> ELSE Step(i, upTo[i - 1])
    BY <2>1
  <2>3. 0 \in 0..n /\ \A i \in 1..n : i \in 0..n /\ i # 0
    BY <1>1
  <2>4. QED
    BY <2>2, <2>3
<1>6. KeptOf(order, kept) = upTo[n]
  BY <1>1 DEF KeptOf
<1> HIDE DEF upTo
<1> DEFINE Right == {i \in 0..n :
             /\ upTo[i] \in Seq(Slots)
             /\ ToSetOf(upTo[i]) = {order[j] : j \in 1..i} \cap kept}
<1>7. 0 \in Right
  <2>1. upTo[0] \in Seq(Slots) /\ ToSetOf(upTo[0]) = {}
    BY <1>5 DEF ToSetOf
  <2>2. {order[j] : j \in 1..0} = {} /\ 0 \in 0..n
    OBVIOUS
  <2>3. QED
    BY <2>1, <2>2
<1>8. ASSUME NEW i \in 1..n, i - 1 \in Right PROVE i \in Right
  <2>1. /\ upTo[i - 1] \in Seq(Slots) /\ order[i] \in Slots
        /\ ToSetOf(upTo[i - 1]) = {order[j] : j \in 1..i - 1} \cap kept
    BY <1>1, <1>8
  <2>2. {order[j] : j \in 1..i} = {order[j] : j \in 1..i - 1} \cup {order[i]}
    OBVIOUS
  <2>3. CASE order[i] \in kept
    <3>1. upTo[i] = Append(upTo[i - 1], order[i])
      BY <1>5, <2>3
    <3>2. /\ upTo[i] \in Seq(Slots)
          /\ ToSetOf(upTo[i]) = ToSetOf(upTo[i - 1]) \cup {order[i]}
      BY <2>1, <3>1, AppendAdds
    <3>3. QED
      BY <2>1, <2>2, <2>3, <3>2
  <2>4. CASE order[i] \notin kept
    <3>1. upTo[i] = upTo[i - 1]
      BY <1>5, <2>4
    <3>2. QED
      BY <2>1, <2>2, <2>4, <3>1
  <2>5. QED
    BY <2>3, <2>4
<1>9. n \in Right
  <2>1. n \in 0..n
    OBVIOUS
  <2> HIDE DEF Right
  <2>2. QED
    BY <1>7, <1>8, <2>1, Reaches
<1>10. QED
  BY <1>1, <1>6, <1>9 DEF ToSetOf

-----------------------------------------------------------------------------
(* The inductive invariant.                                                *)

PoolTypes ==
  /\ cached \in Seq(Slots)
  /\ buffer \in [Slots -> Buffers \cup {NoBuffer}]
  /\ outstanding \subseteq [token : Nat, key : Slots]
  /\ lent \in Seq([token : Nat, import : [key : Slots, buffer : Buffers \cup {NoBuffer}]])
  /\ pending.key \in Slots \cup {NoSlot}
  /\ scanningKey \in Slots \cup {NoSlot}
  /\ nextToken \in Nat
  /\ held \in BOOLEAN

\* Every acquisition out is in flight under a token of its own, and its
\* import is as it was handed out.
LentAreInFlight ==
  ~held => \A i \in DOMAIN lent :
    /\ lent[i].token # 0
    /\ [token |-> lent[i].token, key |-> lent[i].import.key] \in outstanding
    /\ lent[i].import.key \in Cached
    /\ lent[i].import.buffer = buffer[lent[i].import.key]
    /\ \A j \in DOMAIN lent : lent[i].token = lent[j].token => i = j

\* What is on screen is in flight too, until the scene retires the source.
ScanningIsInFlight ==
  ~retired /\ scanningKey # NoSlot =>
    scanningToken # 0 /\ [token |-> scanningToken, key |-> scanningKey] \in outstanding

\* The import a pending frame will be shown with is of the buffer submitted,
\* because a key the producer has retired takes no frame while its import is
\* there.
PendingIsWanted ==
  /\ HasPending /\ pending.key \in Cached => buffer[pending.key] = wanted
  /\ renamed \cap Cached \subseteq final

PoolInv == PoolTypes /\ LentAreInFlight /\ ScanningIsInFlight /\ PendingIsWanted

\* Of the imports in an order that Keeping cuts to some of its keys, just
\* those are there afterwards, as they were.
LEMMA KeepingKeeps ==
  ASSUME NEW order \in Seq(Slots), NEW imports \in [Slots -> Buffers \cup {NoBuffer}],
         NEW kept, kept \subseteq ToSetOf(order), Keeping(order, imports, kept)
  PROVE  /\ cached' \in Seq(Slots) /\ Cached' = kept
         /\ buffer' \in [Slots -> Buffers \cup {NoBuffer}]
         /\ \A key \in kept : key \in Slots /\ buffer'[key] = imports[key]
         /\ final' = final \cap kept
<1>1. cached' = KeptOf(order, kept)
  BY DEF Keeping
<1>2. cached' \in Seq(Slots) /\ ToSetOf(cached') = kept
  BY <1>1, KeptIsKept
<1>3. Cached' = kept
  BY <1>2 DEF Cached, ToSetOf
<1>4. kept \subseteq Slots
  BY DEF ToSetOf
<1>5. /\ buffer' \in [Slots -> Buffers \cup {NoBuffer}]
      /\ \A key \in kept : buffer'[key] = imports[key]
  BY <1>4 DEF Keeping
<1>6. final' = final \cap kept
  BY DEF Keeping
<1>7. QED
  BY <1>2, <1>3, <1>4, <1>5, <1>6

\* A sweep takes no import that is in flight or on screen.
LEMMA SweepKeeps ==
  ASSUME PoolTypes, Sweep
  PROVE  /\ cached' \in Seq(Slots) /\ Cached' = Cached \ Swept
         /\ buffer' \in [Slots -> Buffers \cup {NoBuffer}]
         /\ \A key \in Cached \ Swept : buffer'[key] = buffer[key]
         /\ final' = final \cap (Cached \ Swept)
         /\ \A o \in outstanding' : o.key \notin Swept
<1>1. cached \in Seq(Slots) /\ buffer \in [Slots -> Buffers \cup {NoBuffer}]
  BY DEF PoolTypes
<1>2. Keeping(cached, buffer, Cached \ Swept)
  BY DEF Sweep
<1> DEFINE rest == Cached \ Swept
<1>3. rest \subseteq ToSetOf(cached)
  BY DEF Cached, ToSetOf
<1> HIDE DEF rest
<1>4. /\ cached' \in Seq(Slots) /\ Cached' = rest
      /\ buffer' \in [Slots -> Buffers \cup {NoBuffer}]
      /\ \A key \in rest : key \in Slots /\ buffer'[key] = buffer[key]
      /\ final' = final \cap rest
  <2>1. Keeping(cached, buffer, rest)
    BY <1>2 DEF rest
  <2>2. QED
    BY <1>1, <1>3, <2>1, KeepingKeeps
<1>5. \A o \in outstanding' : o.key \notin Swept
  BY DEF Swept, IsReferenced
<1>6. QED
  BY <1>4, <1>5 DEF rest

\* A submit imports its key, unless it is already, and takes no import that is
\* in flight or on screen.
LEMMA SubmitKeeps ==
  ASSUME PoolTypes, NEW key \in Slots, NEW buf \in Buffers, PoolSubmit(key, buf)
  PROVE  /\ cached' \in Seq(Slots) /\ Cached' \subseteq Cached \cup {key}
         /\ buffer' \in [Slots -> Buffers \cup {NoBuffer}]
         /\ \A k \in Cached' :
              /\ k \in Slots
              /\ k # key => buffer'[k] = buffer[k]
              /\ k = key => buffer'[k] = IF key \in Cached THEN buffer[k] ELSE buf
         /\ final' = final \cap Cached'
         /\ \A o \in outstanding : o.key \in Cached => o.key \in Cached'
<1> DEFINE others == KeptOf(cached, Cached \ {key})
           order == Append(others, key)
           imports == IF key \in Cached THEN buffer ELSE [buffer EXCEPT ![key] = buf]
           kept == (Cached \cup {key}) \ Evicted(order)
<1>1. cached \in Seq(Slots) /\ buffer \in [Slots -> Buffers \cup {NoBuffer}]
  BY DEF PoolTypes
<1>2. Keeping(order, imports, kept)
  BY DEF PoolSubmit
<1>3. others \in Seq(Slots) /\ ToSetOf(others) = ToSetOf(cached) \cap (Cached \ {key})
  BY <1>1, KeptIsKept
<1> HIDE DEF others
<1>4. order \in Seq(Slots) /\ ToSetOf(order) = Cached \cup {key}
  <2>1. order \in Seq(Slots) /\ ToSetOf(order) = ToSetOf(others) \cup {key}
    BY <1>3, AppendAdds
  <2>2. ToSetOf(cached) = Cached
    BY DEF Cached, ToSetOf
  <2>3. QED
    BY <1>3, <2>1, <2>2
<1> HIDE DEF order
<1>5. imports \in [Slots -> Buffers \cup {NoBuffer}]
  BY <1>1
<1>6. \A k \in Slots : /\ k # key => imports[k] = buffer[k]
                       /\ k = key => imports[k] = IF key \in Cached THEN buffer[k] ELSE buf
  BY <1>1
<1>7. \A o \in outstanding : o.key \in Cached => o.key \in kept
  BY DEF Evicted, IsReferenced
<1>8. kept \subseteq Cached \cup {key}
  OBVIOUS
<1> HIDE DEF imports, kept
<1>9. /\ cached' \in Seq(Slots) /\ Cached' = kept
      /\ buffer' \in [Slots -> Buffers \cup {NoBuffer}]
      /\ \A k \in kept : k \in Slots /\ buffer'[k] = imports[k]
      /\ final' = final \cap kept
  BY <1>2, <1>4, <1>5, <1>8, KeepingKeeps
<1>10. QED
  BY <1>6, <1>7, <1>8, <1>9

-----------------------------------------------------------------------------

\* An empty pool is in order.
LEMMA PoolStarts == ClientInit => PoolInv
<1>1. SUFFICES ASSUME ClientInit PROVE PoolInv
  OBVIOUS
<1>2. /\ cached = <<>> /\ buffer = [key \in Slots |-> NoBuffer] /\ outstanding = {}
      /\ lent = <<>> /\ pending.key = NoSlot /\ scanningKey = NoSlot
      /\ nextToken = 0 /\ held = FALSE /\ renamed = {}
  BY <1>1 DEF ClientInit, PoolInit, PresenterInit, NoPending
<1>3. PoolTypes
  <2>1. cached \in Seq(Slots)
        /\ lent \in Seq([token : Nat, import : [key : Slots, buffer : Buffers \cup {NoBuffer}]])
    BY <1>2
  <2>2. buffer \in [Slots -> Buffers \cup {NoBuffer}]
    BY <1>2
  <2>3. QED
    BY <1>2, <2>1, <2>2 DEF PoolTypes
<1>4. LentAreInFlight
  BY <1>2 DEF LentAreInFlight
<1>5. ScanningIsInFlight /\ PendingIsWanted
  BY <1>2 DEF ScanningIsInFlight, PendingIsWanted, HasPending
<1>6. QED
  BY <1>3, <1>4, <1>5 DEF PoolInv

\* A step that leaves the acquisitions out alone, and in flight.
LEMMA LentStay ==
  ASSUME PoolTypes, LentAreInFlight, lent' = lent, held' = held,
         outstanding \subseteq outstanding',
         \A key \in Cached : (\E o \in outstanding : o.key = key)
           => key \in Cached' /\ buffer'[key] = buffer[key]
  PROVE  LentAreInFlight'
<1>1. SUFFICES ASSUME ~held, NEW i \in DOMAIN lent
      PROVE  /\ lent[i].token # 0
             /\ [token |-> lent[i].token, key |-> lent[i].import.key] \in outstanding'
             /\ lent[i].import.key \in Cached'
             /\ lent[i].import.buffer = buffer'[lent[i].import.key]
             /\ \A j \in DOMAIN lent : lent[i].token = lent[j].token => i = j
  BY DEF LentAreInFlight
<1> DEFINE o == [token |-> lent[i].token, key |-> lent[i].import.key]
<1>2. /\ lent[i].token # 0 /\ o \in outstanding
      /\ lent[i].import.key \in Cached
      /\ lent[i].import.buffer = buffer[lent[i].import.key]
      /\ \A j \in DOMAIN lent : lent[i].token = lent[j].token => i = j
  BY <1>1 DEF LentAreInFlight
<1>3. o.key = lent[i].import.key
  OBVIOUS
<1>4. QED
  BY <1>2, <1>3

\* What the producer still remembers of a key it has renamed.
LEMMA ForgetsTheGone ==
  ASSUME NEW old, NEW outdatedNow, cached' \in Seq(Slots), Forgets(old, outdatedNow)
  PROVE  renamed' = old \cap Cached'
<1>1. Cached' = {key \in Slots : \E i \in DOMAIN cached' : cached'[i] = key}
  BY DEF Cached
<1>2. QED
  BY <1>1 DEF Forgets

\* A submission queues the buffer it was made with.
LEMMA SubmitStep ==
  ASSUME PoolInv, NEW key \in Slots, NEW buf \in Buffers, ClientSubmits(key, buf)
  PROVE  PoolInv'
<1>1. PoolTypes /\ LentAreInFlight /\ ScanningIsInFlight /\ PendingIsWanted
  BY DEF PoolInv
<1>2. /\ PoolSubmit(key, buf) /\ wanted' = buf /\ Forgets(renamed \ {key}, outdated)
      /\ key \in Cached \ renamed => buf = buffer[key]
      /\ lent' = lent /\ retired' = retired /\ held' = held
  BY DEF ClientSubmits
<1>3. /\ key \notin final /\ pending'.key = key
      /\ scanningKey' = scanningKey /\ scanningToken' = scanningToken
      /\ nextToken' = nextToken /\ outstanding' = outstanding
  BY <1>2 DEF PoolSubmit, Submit
<1>4. /\ cached' \in Seq(Slots) /\ Cached' \subseteq Cached \cup {key}
      /\ buffer' \in [Slots -> Buffers \cup {NoBuffer}]
      /\ \A k \in Cached' :
           /\ k \in Slots
           /\ k # key => buffer'[k] = buffer[k]
           /\ k = key => buffer'[k] = IF key \in Cached THEN buffer[k] ELSE buf
      /\ final' = final \cap Cached'
      /\ \A o \in outstanding : o.key \in Cached => o.key \in Cached'
  BY <1>1, <1>2, SubmitKeeps
<1>5. PoolTypes'
  BY <1>1, <1>2, <1>3, <1>4 DEF PoolTypes
<1>6. LentAreInFlight'
  <2>1. \A k \in Cached : (\E o \in outstanding : o.key = k)
          => k \in Cached' /\ buffer'[k] = buffer[k]
    BY <1>4
  <2>2. QED
    BY <1>1, <1>2, <1>3, <2>1, LentStay
<1>7. ScanningIsInFlight'
  BY <1>1, <1>2, <1>3 DEF ScanningIsInFlight
<1>8. PendingIsWanted'
  <2>1. renamed' = (renamed \ {key}) \cap Cached'
    BY <1>2, <1>4, ForgetsTheGone
  <2>2. renamed' \cap Cached' \subseteq final'
    BY <1>1, <1>4, <2>1 DEF PendingIsWanted
  <2>3. key \in Cached => buffer[key] = buf
    BY <1>1, <1>2, <1>3 DEF PendingIsWanted
  <2>4. key \in Cached' => buffer'[key] = buf
    BY <1>4, <2>3
  <2>5. QED
    BY <1>2, <1>3, <2>2, <2>4 DEF PendingIsWanted
<1>9. QED
  BY <1>5, <1>6, <1>7, <1>8 DEF PoolInv

\* Retiring a key leaves its framebuffer where it is.
LEMMA RetiresKeyStep ==
  ASSUME PoolInv, NEW key \in Slots, ClientRetiresKey(key)
  PROVE  PoolInv'
<1>1. PoolTypes /\ LentAreInFlight /\ ScanningIsInFlight /\ PendingIsWanted
  BY DEF PoolInv
<1>2. /\ final' = final \cup ({key} \cap Cached) /\ cached' = cached /\ buffer' = buffer
      /\ Forgets(renamed \cup {key}, outdated)
      /\ wanted' = wanted /\ lent' = lent /\ retired' = retired /\ held' = held
      /\ pending' = pending /\ scanningKey' = scanningKey
      /\ scanningToken' = scanningToken /\ nextToken' = nextToken
      /\ outstanding' = outstanding
  BY DEF ClientRetiresKey, PoolRetire, MarksFinal, presenterVars
<1>3. cached' \in Seq(Slots) /\ Cached' = Cached
  BY <1>1, <1>2 DEF PoolTypes, Cached
<1>4. PoolTypes'
  BY <1>1, <1>2 DEF PoolTypes
<1>5. LentAreInFlight'
  BY <1>1, <1>2, <1>3, LentStay
<1>6. ScanningIsInFlight'
  BY <1>1, <1>2 DEF ScanningIsInFlight
<1>7. PendingIsWanted'
  <2>1. renamed' = (renamed \cup {key}) \cap Cached
    BY <1>2, <1>3, ForgetsTheGone
  <2>2. renamed' \cap Cached' \subseteq final'
    BY <1>1, <1>2, <1>3, <2>1 DEF PendingIsWanted
  <2>3. QED
    BY <1>1, <1>2, <1>3, <2>2 DEF PendingIsWanted, HasPending
<1>8. QED
  BY <1>4, <1>5, <1>6, <1>7 DEF PoolInv

\* A new generation leaves the old one's framebuffers where they are.
LEMMA ResetsGenerationStep ==
  ASSUME PoolInv, ClientResetsGeneration
  PROVE  PoolInv'
<1>1. PoolTypes /\ LentAreInFlight /\ ScanningIsInFlight /\ PendingIsWanted
  BY DEF PoolInv
<1>2. /\ final' = final /\ cached' = cached /\ buffer' = buffer
      /\ Forgets(renamed, Cached)
      /\ wanted' = wanted /\ lent' = lent /\ retired' = retired /\ held' = held
      /\ pending' = pending /\ scanningKey' = scanningKey
      /\ scanningToken' = scanningToken /\ nextToken' = nextToken
      /\ outstanding' = outstanding
  BY DEF ClientResetsGeneration, PoolResetGeneration, presenterVars
<1>3. cached' \in Seq(Slots) /\ Cached' = Cached
  BY <1>1, <1>2 DEF PoolTypes, Cached
<1>4. PoolTypes'
  BY <1>1, <1>2 DEF PoolTypes
<1>5. LentAreInFlight'
  BY <1>1, <1>2, <1>3, LentStay
<1>6. ScanningIsInFlight'
  BY <1>1, <1>2 DEF ScanningIsInFlight
<1>7. PendingIsWanted'
  <2>1. renamed' = renamed \cap Cached
    BY <1>2, <1>3, ForgetsTheGone
  <2>2. renamed' \cap Cached' \subseteq final'
    BY <1>1, <1>2, <1>3, <2>1 DEF PendingIsWanted
  <2>3. QED
    BY <1>1, <1>2, <1>3, <2>2 DEF PendingIsWanted, HasPending
<1>8. QED
  BY <1>4, <1>5, <1>6, <1>7 DEF PoolInv

\* An acquisition: what it hands out is in flight under the token it carries.
LEMMA HandsOutInFlight ==
  ASSUME PoolTypes, ScanningIsInFlight, ~retired, PoolAcquires
  PROVE  /\ scanningKey' \in Cached /\ scanningToken' \in Nat \ {0}
         /\ [token |-> scanningToken', key |-> scanningKey'] \in outstanding'
         /\ outstanding \subseteq outstanding'
         /\ outstanding' \subseteq [token : Nat, key : Slots]
         /\ nextToken' \in Nat /\ pending'.key = NoSlot
<1>1. Cached \subseteq Slots /\ NoSlot \notin Slots
  BY PresenterAssumption DEF PoolTypes, Cached
<1>2. CASE AcquireFresh /\ pending.key \in Cached
  <2>1. /\ scanningKey' = pending.key /\ scanningToken' = Successor(nextToken)
        /\ nextToken' = Successor(nextToken) /\ pending' = NoPending
        /\ outstanding' = outstanding
             \cup {[token |-> Successor(nextToken), key |-> pending.key]}
    BY <1>2 DEF AcquireFresh
  <2>2. Successor(nextToken) \in Nat \ {0} /\ outstanding \subseteq [token : Nat, key : Slots]
    BY SuccessorIsToken DEF PoolTypes
  <2>3. QED
    BY <1>1, <1>2, <2>1, <2>2 DEF NoPending
<1>3. CASE AcquireIdle /\ scanningKey \in Cached
  <2>1. /\ scanningKey' = scanningKey /\ scanningToken' = scanningToken
        /\ nextToken' = nextToken /\ pending' = pending /\ outstanding' = outstanding
        /\ pending.key = NoSlot
    BY <1>3 DEF AcquireIdle, presenterVars, HasPending
  <2>2. /\ scanningToken # 0
        /\ [token |-> scanningToken, key |-> scanningKey] \in outstanding
    BY <1>1, <1>3 DEF ScanningIsInFlight
  <2>3. outstanding \subseteq [token : Nat, key : Slots] /\ nextToken \in Nat
    BY DEF PoolTypes
  <2>4. scanningToken \in Nat
    BY <2>2, <2>3
  <2>5. QED
    BY <1>3, <2>1, <2>2, <2>3, <2>4
<1>4. QED
  BY <1>2, <1>3 DEF PoolAcquires

\* An acquisition adds its token to those lent, and sweeps none that is lent.
LEMMA AcquiresStep ==
  ASSUME PoolInv, ClientAcquires
  PROVE  PoolInv'
<1>1. PoolTypes /\ LentAreInFlight /\ ScanningIsInFlight /\ PendingIsWanted
  BY DEF PoolInv
<1>2. /\ PoolAcquires /\ Sweep /\ ~retired /\ acquired' = ImportOf(scanningKey')
      /\ lent' = Append(lent, [token |-> scanningToken', import |-> acquired'])
      /\ held' = (held \/ \E i \in DOMAIN lent : lent[i].token = scanningToken')
      /\ Forgets(renamed, outdated) /\ retired' = retired
  BY DEF ClientAcquires, MayAcquire, PoolAcquires
<1>3. /\ scanningKey' \in Cached /\ scanningToken' \in Nat \ {0}
      /\ [token |-> scanningToken', key |-> scanningKey'] \in outstanding'
      /\ outstanding \subseteq outstanding'
      /\ outstanding' \subseteq [token : Nat, key : Slots]
      /\ nextToken' \in Nat /\ pending'.key = NoSlot
  BY <1>1, <1>2, HandsOutInFlight
<1>4. /\ cached' \in Seq(Slots) /\ Cached' = Cached \ Swept
      /\ buffer' \in [Slots -> Buffers \cup {NoBuffer}]
      /\ \A key \in Cached \ Swept : buffer'[key] = buffer[key]
      /\ final' = final \cap (Cached \ Swept)
      /\ \A o \in outstanding' : o.key \notin Swept
  BY <1>1, <1>2, SweepKeeps
<1> DEFINE Import == [key : Slots, buffer : Buffers \cup {NoBuffer}]
           e == [token |-> scanningToken', import |-> acquired']
<1>5. /\ acquired'.key = scanningKey' /\ acquired'.buffer = buffer[scanningKey']
      /\ acquired' \in Import
  <2>1. scanningKey' \in Slots /\ buffer[scanningKey'] \in Buffers \cup {NoBuffer}
    BY <1>1, <1>3 DEF PoolTypes, Cached
  <2>2. acquired' = [key |-> scanningKey', buffer |-> buffer[scanningKey']]
    BY <1>2 DEF ImportOf
  <2>3. QED
    BY <2>1, <2>2
<1>6. lent \in Seq([token : Nat, import : Import])
  BY <1>1 DEF PoolTypes
<1>7. e \in [token : Nat, import : Import]
  BY <1>3, <1>5
<1>8. /\ lent' \in Seq([token : Nat, import : Import])
      /\ DOMAIN lent' = DOMAIN lent \cup {Len(lent) + 1}
      /\ \A i \in DOMAIN lent : lent'[i] = lent[i]
      /\ lent'[Len(lent) + 1] = e /\ Len(lent) + 1 \notin DOMAIN lent
  <2> HIDE DEF e, Import
  <2>1. lent' = Append(lent, e)
    BY <1>2 DEF e
  <2>2. QED
    BY <1>6, <1>7, <2>1
<1>9. PoolTypes'
  <2>1. held' \in BOOLEAN
    BY <1>1, <1>2 DEF PoolTypes
  <2>2. scanningKey' \in Slots
    BY <1>1, <1>3 DEF PoolTypes, Cached
  <2>3. QED
    BY <1>3, <1>4, <1>8, <2>1, <2>2 DEF PoolTypes
<1>10. LentAreInFlight'
  <2>1. SUFFICES ASSUME ~held', NEW i \in DOMAIN lent'
        PROVE  /\ lent'[i].token # 0
               /\ [token |-> lent'[i].token, key |-> lent'[i].import.key] \in outstanding'
               /\ lent'[i].import.key \in Cached'
               /\ lent'[i].import.buffer = buffer'[lent'[i].import.key]
               /\ \A j \in DOMAIN lent' : lent'[i].token = lent'[j].token => i = j
    BY DEF LentAreInFlight
  <2>2. ~held /\ \A j \in DOMAIN lent : lent[j].token # scanningToken'
    BY <1>1, <1>2, <2>1 DEF PoolTypes
  <2>3. /\ e.token = scanningToken' /\ e.import.key = scanningKey'
        /\ e.import.buffer = buffer[scanningKey']
    BY <1>5
  <2> HIDE DEF e
  <2> DEFINE o == [token |-> lent'[i].token, key |-> lent'[i].import.key]
  <2>4. CASE i \in DOMAIN lent
    <3>1. /\ lent[i].token # 0
          /\ [token |-> lent[i].token, key |-> lent[i].import.key] \in outstanding
          /\ lent[i].import.key \in Cached
          /\ lent[i].import.buffer = buffer[lent[i].import.key]
          /\ \A j \in DOMAIN lent : lent[i].token = lent[j].token => i = j
      BY <1>1, <2>2, <2>4 DEF LentAreInFlight
    <3>2. lent'[i] = lent[i]
      BY <1>8, <2>4
    <3>3. o \in outstanding' /\ o.key = lent[i].import.key
      BY <1>3, <3>1, <3>2
    <3>4. lent'[i].import.key \in Cached \ Swept
      BY <1>4, <3>1, <3>2, <3>3
    <3>5. \A j \in DOMAIN lent' : lent'[i].token = lent'[j].token => i = j
      BY <1>8, <2>2, <2>3, <2>4, <3>1, <3>2
    <3>6. QED
      BY <1>4, <3>1, <3>2, <3>3, <3>4, <3>5
  <2>5. CASE i = Len(lent) + 1
    <3>1. lent'[i] = e
      BY <1>8, <2>5
    <3>2. o \in outstanding' /\ o.key = scanningKey'
      BY <1>3, <2>3, <3>1
    <3>3. lent'[i].import.key \in Cached \ Swept
      BY <1>3, <1>4, <2>3, <3>1, <3>2
    <3>4. \A j \in DOMAIN lent' : lent'[i].token = lent'[j].token => i = j
      BY <1>8, <2>2, <2>3, <2>5, <3>1
    <3>5. QED
      BY <1>3, <1>4, <2>3, <3>1, <3>2, <3>3, <3>4
  <2>6. QED
    BY <1>8, <2>4, <2>5
<1>11. ScanningIsInFlight'
  BY <1>3 DEF ScanningIsInFlight
<1>12. PendingIsWanted'
  <2>1. /\ Cached' \subseteq Cached /\ final' = final \cap Cached'
        /\ \A key \in Cached' : buffer'[key] = buffer[key]
    BY <1>4
  <2>2. renamed' = renamed \cap Cached'
    BY <1>2, <1>4, ForgetsTheGone
  <2>3. QED
    BY <1>1, <1>3, <2>1, <2>2 DEF PendingIsWanted, HasPending
<1>13. QED
  BY <1>9, <1>10, <1>11, <1>12 DEF PoolInv

\* An acquisition that gets nothing lends nothing, but may sweep.
LEMMA GetsNothingStep ==
  ASSUME PoolInv, ClientGetsNothing
  PROVE  PoolInv'
<1>1. PoolTypes /\ LentAreInFlight /\ ScanningIsInFlight /\ PendingIsWanted
  BY DEF PoolInv
<1>2. /\ Sweep /\ ~retired /\ Forgets(renamed, outdated)
      /\ lent' = lent /\ held' = held /\ retired' = retired
      /\ \/ AcquireFresh
         \/ AcquireIdle
  BY DEF ClientGetsNothing, MayAcquire, PoolFails, PoolStarves
<1>3. /\ outstanding \subseteq outstanding'
      /\ outstanding' \subseteq [token : Nat, key : Slots]
      /\ nextToken' \in Nat /\ pending'.key = NoSlot
      /\ scanningKey' \in Slots \cup {NoSlot}
      /\ scanningKey' # NoSlot =>
           /\ scanningToken' # 0
           /\ [token |-> scanningToken', key |-> scanningKey'] \in outstanding'
  <2>1. CASE AcquireFresh
    <3>1. /\ scanningKey' = pending.key /\ scanningToken' = Successor(nextToken)
          /\ nextToken' = Successor(nextToken) /\ pending' = NoPending
          /\ outstanding' = outstanding
               \cup {[token |-> Successor(nextToken), key |-> pending.key]}
          /\ pending.key # NoSlot
      BY <2>1 DEF AcquireFresh, HasPending
    <3>2. /\ Successor(nextToken) \in Nat \ {0} /\ pending.key \in Slots
          /\ outstanding \subseteq [token : Nat, key : Slots]
      BY <1>1, <3>1, SuccessorIsToken DEF PoolTypes
    <3>3. QED
      BY <3>1, <3>2 DEF NoPending
  <2>2. CASE AcquireIdle
    <3>1. /\ scanningKey' = scanningKey /\ scanningToken' = scanningToken
          /\ nextToken' = nextToken /\ pending' = pending /\ outstanding' = outstanding
          /\ pending.key = NoSlot
      BY <2>2 DEF AcquireIdle, presenterVars, HasPending
    <3>2. QED
      BY <1>1, <1>2, <3>1 DEF PoolTypes, ScanningIsInFlight
  <2>3. QED
    BY <1>2, <2>1, <2>2
<1>4. /\ cached' \in Seq(Slots) /\ Cached' = Cached \ Swept
      /\ buffer' \in [Slots -> Buffers \cup {NoBuffer}]
      /\ \A key \in Cached \ Swept : buffer'[key] = buffer[key]
      /\ final' = final \cap (Cached \ Swept)
      /\ \A o \in outstanding' : o.key \notin Swept
  BY <1>1, <1>2, SweepKeeps
<1>5. PoolTypes'
  BY <1>1, <1>2, <1>3, <1>4 DEF PoolTypes
<1>6. LentAreInFlight'
  <2>1. \A key \in Cached : (\E o \in outstanding : o.key = key)
          => key \in Cached' /\ buffer'[key] = buffer[key]
    BY <1>3, <1>4
  <2>2. QED
    BY <1>1, <1>2, <1>3, <2>1, LentStay
<1>7. ScanningIsInFlight'
  BY <1>3 DEF ScanningIsInFlight
<1>8. PendingIsWanted'
  <2>1. /\ Cached' \subseteq Cached /\ final' = final \cap Cached'
        /\ \A key \in Cached' : buffer'[key] = buffer[key]
    BY <1>4
  <2>2. renamed' = renamed \cap Cached'
    BY <1>2, <1>4, ForgetsTheGone
  <2>3. QED
    BY <1>1, <1>3, <2>1, <2>2 DEF PendingIsWanted, HasPending
<1>9. QED
  BY <1>5, <1>6, <1>7, <1>8 DEF PoolInv

\* The oldest acquisition comes back: its token alone is fired, and the imports
\* of the others stay.
LEMMA ReleasesStep ==
  ASSUME PoolInv, ClientReleases
  PROVE  PoolInv'
<1>1. PoolTypes /\ LentAreInFlight /\ ScanningIsInFlight /\ PendingIsWanted
  BY DEF PoolInv
<1> DEFINE token == Head(lent).token
<1>2. /\ PoolReleases(token) /\ Forgets(renamed, outdated)
      /\ lent' = Tail(lent) /\ Len(lent) >= 1
      /\ held' = held /\ retired' = retired /\ wanted' = wanted
  <2>1. Len(lent) \in Nat
    BY <1>1 DEF PoolTypes
  <2>2. QED
    BY <2>1 DEF ClientReleases
<1>3. /\ outstanding' = outstanding \ Fired({token})
      /\ pending' = pending /\ scanningKey' = scanningKey
      /\ scanningToken' = scanningToken /\ nextToken' = nextToken
  BY <1>2 DEF PoolReleases, Release
<1>4. \A o \in outstanding : o.token # token \/ o.token = scanningToken => o \in outstanding'
  BY <1>3 DEF Fired
<1>5. /\ cached' \in Seq(Slots) /\ Cached' \subseteq Cached
      /\ buffer' \in [Slots -> Buffers \cup {NoBuffer}]
      /\ \A key \in Cached' : buffer'[key] = buffer[key]
      /\ final' = final \cap Cached' \/ final' = final
      /\ \A o \in outstanding' : o.key \in Cached => o.key \in Cached'
  <2>1. CASE Sweep
    <3>1. /\ cached' \in Seq(Slots) /\ Cached' = Cached \ Swept
          /\ buffer' \in [Slots -> Buffers \cup {NoBuffer}]
          /\ \A key \in Cached \ Swept : buffer'[key] = buffer[key]
          /\ final' = final \cap (Cached \ Swept)
          /\ \A o \in outstanding' : o.key \notin Swept
      BY <1>1, <2>1, SweepKeeps
    <3>2. QED
      BY <3>1
  <2>2. CASE UNCHANGED <<cached, buffer, retiring, final>>
    <3>1. cached' = cached /\ buffer' = buffer /\ final' = final
      BY <2>2
    <3>2. Cached' = Cached
      BY <3>1 DEF Cached
    <3>3. QED
      BY <1>1, <3>1, <3>2 DEF PoolTypes
  <2>3. QED
    BY <1>2, <2>1, <2>2 DEF PoolReleases
<1> DEFINE Import == [key : Slots, buffer : Buffers \cup {NoBuffer}]
<1>6. /\ lent' \in Seq([token : Nat, import : Import]) /\ token = lent[1].token
      /\ 1 \in DOMAIN lent
      /\ \A i \in DOMAIN lent' : i + 1 \in DOMAIN lent /\ lent'[i] = lent[i + 1]
  <2> DEFINE T == [token : Nat, import : Import]
  <2>1. lent \in Seq(T)
    BY <1>1 DEF PoolTypes
  <2> HIDE DEF T
  <2>2. /\ lent' \in Seq(T) /\ token = lent[1].token /\ 1 \in DOMAIN lent
        /\ DOMAIN lent' = 1..Len(lent) - 1 /\ DOMAIN lent = 1..Len(lent) /\ Len(lent) \in Nat
        /\ \A i \in 1..Len(lent) - 1 : lent'[i] = lent[i + 1]
    BY <1>2, <2>1
  <2>3. QED
    BY <2>2 DEF T
<1>7. PoolTypes'
  BY <1>1, <1>2, <1>3, <1>5, <1>6 DEF PoolTypes
<1>8. LentAreInFlight'
  <2>1. SUFFICES ASSUME ~held, NEW i \in DOMAIN lent'
        PROVE  /\ lent'[i].token # 0
               /\ [token |-> lent'[i].token, key |-> lent'[i].import.key] \in outstanding'
               /\ lent'[i].import.key \in Cached'
               /\ lent'[i].import.buffer = buffer'[lent'[i].import.key]
               /\ \A j \in DOMAIN lent' : lent'[i].token = lent'[j].token => i = j
    BY <1>2 DEF LentAreInFlight
  <2> DEFINE o == [token |-> lent[i + 1].token, key |-> lent[i + 1].import.key]
  <2>2. lent'[i] = lent[i + 1] /\ i + 1 \in DOMAIN lent /\ i \in Nat \ {0}
    <3>1. \A S : \A s \in Seq(S) : \A k \in DOMAIN s : k \in Nat \ {0}
      OBVIOUS
    <3>2. QED
      BY <1>6, <2>1, <3>1
  <2>3. /\ lent[i + 1].token # 0 /\ o \in outstanding
        /\ lent[i + 1].import.key \in Cached
        /\ lent[i + 1].import.buffer = buffer[lent[i + 1].import.key]
        /\ \A j \in DOMAIN lent : lent[i + 1].token = lent[j].token => i + 1 = j
    BY <1>1, <2>1, <2>2 DEF LentAreInFlight
  <2>4. lent[i + 1].token # token
    BY <1>6, <2>2, <2>3
  <2>5. o.token = lent[i + 1].token /\ o.key = lent[i + 1].import.key
    OBVIOUS
  <2>6. o \in outstanding'
    BY <1>4, <2>3, <2>4, <2>5
  <2>7. lent[i + 1].import.key \in Cached'
    BY <1>5, <2>3, <2>5, <2>6
  <2>8. \A j \in DOMAIN lent' : lent'[i].token = lent'[j].token => i = j
    <3>1. ASSUME NEW j \in DOMAIN lent', lent'[i].token = lent'[j].token PROVE i = j
      <4>1. j + 1 \in DOMAIN lent /\ lent'[j] = lent[j + 1] /\ j \in Nat
        <5>1. \A S : \A s \in Seq(S) : \A k \in DOMAIN s : k \in Nat
          OBVIOUS
        <5>2. QED
          BY <1>6, <3>1, <5>1
      <4>2. i + 1 = j + 1
        BY <2>2, <2>3, <3>1, <4>1
      <4>3. QED
        BY <2>2, <4>1, <4>2
    <3>2. QED
      BY <3>1
  <2>9. QED
    BY <1>5, <2>2, <2>3, <2>6, <2>7, <2>8
<1>9. ScanningIsInFlight'
  <2>1. SUFFICES ASSUME ~retired, scanningKey # NoSlot
        PROVE  scanningToken # 0
               /\ [token |-> scanningToken, key |-> scanningKey] \in outstanding'
    BY <1>2, <1>3 DEF ScanningIsInFlight
  <2> DEFINE o == [token |-> scanningToken, key |-> scanningKey]
  <2>2. scanningToken # 0 /\ o \in outstanding /\ o.token = scanningToken
    BY <1>1, <2>1 DEF ScanningIsInFlight
  <2>3. QED
    BY <1>4, <2>2
<1>10. PendingIsWanted'
  <2>1. renamed' = renamed \cap Cached'
    BY <1>2, <1>5, ForgetsTheGone
  <2>2. renamed' \cap Cached' \subseteq final'
    BY <1>1, <1>5, <2>1 DEF PendingIsWanted
  <2>3. QED
    BY <1>1, <1>2, <1>3, <1>5, <2>2 DEF PendingIsWanted, HasPending
<1>11. QED
  BY <1>7, <1>8, <1>9, <1>10 DEF PoolInv

\* A pool retired keeps what is on screen.
LEMMA RetiresStep ==
  ASSUME PoolInv, ClientRetires
  PROVE  PoolInv'
<1>1. PoolTypes /\ LentAreInFlight /\ ScanningIsInFlight /\ PendingIsWanted
  BY DEF PoolInv
<1>2. /\ retired' = TRUE /\ lent' = lent /\ held' = held
      /\ renamed' = renamed /\ wanted' = wanted
      /\ cached' = cached /\ buffer' = buffer /\ final' = final
      /\ pending' = pending /\ scanningKey' = scanningKey /\ nextToken' = nextToken
      /\ outstanding' = outstanding
  BY DEF ClientRetires, PoolRetired, RetireScanning, producerVars
<1>3. Cached' = Cached
  BY <1>2 DEF Cached
<1>4. PoolTypes'
  BY <1>1, <1>2 DEF PoolTypes
<1>5. LentAreInFlight'
  BY <1>1, <1>2, <1>3, LentStay
<1>6. ScanningIsInFlight'
  BY <1>2 DEF ScanningIsInFlight
<1>7. PendingIsWanted'
  BY <1>1, <1>2, <1>3 DEF PendingIsWanted, HasPending
<1>8. QED
  BY <1>4, <1>5, <1>6, <1>7 DEF PoolInv

\* A pause forgets all of it.
LEMMA PausesStep ==
  ASSUME PoolInv, ClientPauses
  PROVE  PoolInv'
<1>1. PoolTypes
  BY DEF PoolInv
<1>2. /\ lent' = <<>> /\ held' = FALSE /\ renamed' = {}
      /\ cached' = <<>> /\ buffer' = [key \in Slots |-> NoBuffer] /\ final' = {}
      /\ pending' = NoPending /\ scanningKey' = NoSlot /\ outstanding' = {}
      /\ nextToken' = nextToken
  BY DEF ClientPauses, PoolPaused, Reset, ForgetsPending, ForgetsOutstanding
<1>3. PoolTypes'
  <2>1. cached' \in Seq(Slots)
        /\ lent' \in Seq([token : Nat, import : [key : Slots, buffer : Buffers \cup {NoBuffer}]])
    BY <1>2
  <2>2. buffer' \in [Slots -> Buffers \cup {NoBuffer}]
    BY <1>2
  <2>3. QED
    BY <1>1, <1>2, <2>1, <2>2 DEF PoolTypes, NoPending
<1>4. LentAreInFlight' /\ ScanningIsInFlight' /\ PendingIsWanted'
  BY <1>2 DEF LentAreInFlight, ScanningIsInFlight, PendingIsWanted, HasPending, NoPending
<1>5. QED
  BY <1>3, <1>4 DEF PoolInv

\* Every step keeps the invariant.
LEMMA PoolStep == PoolInv /\ [ClientNext]_clientVars => PoolInv'
<1>1. SUFFICES ASSUME PoolInv, [ClientNext]_clientVars PROVE PoolInv'
  OBVIOUS
<1>2. CASE UNCHANGED clientVars
  BY <1>1, <1>2 DEF PoolInv, PoolTypes, LentAreInFlight, ScanningIsInFlight, PendingIsWanted,
     HasPending, Cached, clientVars, poolVars, presenterVars, producerVars
<1>3. CASE \E key \in Slots, buf \in Buffers : ClientSubmits(key, buf)
  BY <1>1, <1>3, SubmitStep
<1>4. CASE \E key \in Slots : ClientRetiresKey(key)
  BY <1>1, <1>4, RetiresKeyStep
<1>5. QED
  BY <1>1, <1>2, <1>3, <1>4, ResetsGenerationStep, AcquiresStep, GetsNothingStep, ReleasesStep,
     RetiresStep, PausesStep DEF ClientNext

-----------------------------------------------------------------------------
(* Theorems.                                                               *)

\* PoolInv holds of every reachable state of the pool and its client.
THEOREM PoolInvariance == ClientSpec => []PoolInv
<1>1. QED
  BY PoolStarts, PoolStep, PTL DEF ClientSpec

\* The framebuffer of every acquisition a commit may still scan out is in the
\* pool, and is the one the acquisition was given, through the cap, retirement
\* and a change of generation.
THEOREM AcquisitionsKeepTheirFramebuffers == ClientSpec => []FramebuffersStand
<1>1. PoolInv => FramebuffersStand
  <2>1. SUFFICES ASSUME PoolInv, ~held, NEW i \in DOMAIN lent
        PROVE  /\ lent[i].import.key \in Cached
               /\ lent[i].import = ImportOf(lent[i].import.key)
    BY DEF FramebuffersStand
  <2>2. lent[i].import.key \in Cached /\ lent[i].import.buffer = buffer[lent[i].import.key]
    BY <2>1 DEF PoolInv, LentAreInFlight
  <2>3. lent[i].import \in [key : Slots, buffer : Buffers \cup {NoBuffer}]
    <3> DEFINE T == [token : Nat, import : [key : Slots, buffer : Buffers \cup {NoBuffer}]]
    <3>1. lent \in Seq(T)
      BY <2>1 DEF PoolInv, PoolTypes
    <3>2. \A S : \A s \in Seq(S) : \A k \in DOMAIN s : s[k] \in S
      OBVIOUS
    <3>3. lent[i] \in T
      <4> HIDE DEF T
      <4>1. QED
        BY <2>1, <3>1, <3>2
    <3>4. QED
      BY <3>3
  <2>4. lent[i].import = [key |-> lent[i].import.key, buffer |-> lent[i].import.buffer]
    BY <2>3
  <2>5. QED
    BY <2>2, <2>4 DEF ImportOf
<1>2. QED
  BY <1>1, PoolInvariance, PTL

\* A frame newly acquired shows the buffer the producer submitted it with,
\* although the key may have been retired and renamed in the meantime.
THEOREM FramesShowWhatWasSubmitted == ClientSpec => ShowsSubmitted
<1>1. PoolInv /\ [ClientNext]_clientVars =>
        [HasPending /\ Len(lent') > Len(lent)
           => lent'[Len(lent')].import.buffer = wanted]_clientVars
  <2>1. SUFFICES ASSUME PoolInv, ClientNext, HasPending, Len(lent') > Len(lent)
        PROVE  lent'[Len(lent')].import.buffer = wanted
    OBVIOUS
  <2>2. Len(lent) \in Nat /\ lent \in Seq([token : Nat,
               import : [key : Slots, buffer : Buffers \cup {NoBuffer}]])
    BY <2>1 DEF PoolInv, PoolTypes
  <2>3. lent' # lent /\ lent' # <<>> /\ ~(lent # <<>> /\ lent' = Tail(lent))
    <3>1. Len(<<>>) = 0 /\ (lent # <<>> => Len(Tail(lent)) = Len(lent) - 1)
      BY <2>2
    <3>2. QED
      BY <2>1, <2>2, <3>1
  <2>4. ~ClientReleases
    <3>1. ClientReleases => Len(lent) >= 1 /\ lent' = Tail(lent)
      BY <2>2 DEF ClientReleases
    <3>2. Len(lent) >= 1 => lent # <<>>
      BY <2>2
    <3>3. QED
      BY <2>3, <3>1, <3>2
  <2>5. ClientAcquires
    BY <2>1, <2>3, <2>4 DEF ClientNext, ClientSubmits, ClientRetiresKey, ClientResetsGeneration,
       ClientGetsNothing, ClientRetires, ClientPauses
  <2>6. /\ acquired' = ImportOf(scanningKey') /\ pending.key \in Cached
        /\ scanningKey' = pending.key
        /\ lent' = Append(lent, [token |-> scanningToken', import |-> acquired'])
    BY <2>1, <2>5 DEF ClientAcquires, PoolAcquires, AcquireFresh, AcquireIdle
  <2>7. buffer[pending.key] = wanted
    BY <2>1, <2>6 DEF PoolInv, PendingIsWanted
  <2>8. lent'[Len(lent')] = [token |-> scanningToken', import |-> acquired']
    <3>1. \A S : \A s \in Seq(S) : \A x : Append(s, x)[Len(Append(s, x))] = x
      OBVIOUS
    <3>2. QED
      BY <2>2, <2>6, <3>1
  <2>9. QED
    BY <2>6, <2>7, <2>8 DEF ImportOf
<1>2. QED
  BY <1>1, PoolInvariance, PTL DEF ClientSpec, ShowsSubmitted

=============================================================================
