-------------------------- MODULE LayerSceneProofs --------------------------
(***************************************************************************)
(* Proofs about LayerScene, for any set of layers, any of them starving,   *)
(* and any number of frames.                                               *)
(*                                                                         *)
(* ScanoutHeld speaks of the screen and of out, neither of which the       *)
(* release queue reads, so it is not inductive.  What makes it so is where *)
(* in the queue the buffers of each scanned frame are: Ring below.  That   *)
(* in turn needs the frame numbers and commit sequences to be in step      *)
(* (Numbers, Sequences), and for layers that never starve, that no frame   *)
(* on screen re-attached one of their buffers (Reattachment).  Of the      *)
(* other properties, each has a part of its own: what is out is held       *)
(* (Kept), the frames' buffers go back in their order (Ordered), a flip    *)
(* armed is still to be answered (Events), and a change not yet shown is   *)
(* later than the frame on screen (Changes).                               *)
(***************************************************************************)
EXTENDS LayerScene, TLAPS

\* The kernel has taken the frame the caller holds, the scene has not yet
\* been told.
Unfinalized == frame.kind \in {"flip", "blocking"} /\ frame.result = "ok"

\* Frames are numbered upward, and a buffer's frame is the one that acquired
\* it, so whatever is newly acquired is new.
Numbers ==
  /\ drainedTo <= builds
  /\ HoldsFrame => frame.n = builds /\ drainedTo < builds
  /\ ~HoldsFrame => frame = NoFrame
  /\ \A l \in Layers : lastFb[l] <= builds
  /\ \A a \in out : a.frame <= builds
  /\ \A a \in frame.shows : a.frame <= frame.n
  /\ screen.n <= builds /\ \A a \in screen.shows : a.frame <= screen.n
  /\ flip.n <= builds /\ \A a \in flip.shows : a.frame <= flip.n
  /\ HoldsFrame /\ ~Unfinalized => screen.n < builds /\ flip.n < builds

\* The commit whose flip is pending is the newest, counting the one the
\* scene has not been told of.
Sequences ==
  /\ ~Unfinalized => landed <= lastSeq
  /\ Unfinalized => landed <= lastSeq + 1
  /\ flip # NoFlip /\ ~Unfinalized => flip.seq = lastSeq /\ landed < lastSeq
  /\ flip # NoFlip /\ Unfinalized => flip.seq = lastSeq + 1 /\ landed <= lastSeq

\* What frame f acquired itself is in S, unless f was drained.
Keeps(S, n, shows) == n > drainedTo => \A a \in shows : a.frame = n => a \in S

\* Where the release queue holds the buffers of the frame on screen and of
\* the frame about to replace it.
Ring ==
  /\ ~Unfinalized /\ flip = NoFlip => Keeps(previous, screen.n, screen.shows)
  /\ ~Unfinalized /\ flip # NoFlip => /\ Keeps(twoAgo, screen.n, screen.shows)
                                      /\ Keeps(previous, flip.n, flip.shows)
  /\ Unfinalized /\ flip = NoFlip => Keeps(Own(frame), screen.n, screen.shows)
  /\ Unfinalized /\ flip # NoFlip => /\ Keeps(previous, screen.n, screen.shows)
                                     /\ Keeps(Own(frame), flip.n, flip.shows)

Steady(l) == layers[l] = "live" /\ l \notin Starving

\* A frame shows of a live layer that never starves only what the frame
\* itself acquired.
Fresh(n, shows) == \A a \in shows : Steady(a.layer) => a.frame = n

Reattachment ==
  /\ \A a \in screen.shows \cup flip.shows \cup frame.shows : layers[a.layer] # "absent"
  /\ \A l \in Layers : lastFb[l] # 0 => layers[l] # "absent"
  /\ session # "paused" =>
       \A l \in Layers : Steady(l) /\ lastFb[l] # 0 => l \in presenting
  /\ Fresh(screen.n, screen.shows)
  /\ Fresh(flip.n, flip.shows)
  /\ HoldsFrame /\ session # "paused" => Fresh(frame.n, frame.shows)
  /\ HoldsFrame /\ frame.keeps =>
       /\ frame.shows = {}
       /\ \A a \in screen.shows \cup flip.shows : layers[a.layer] # "live"

\* Until a layer is removed under a held frame: the scene holds all that is out,
\* and the source of every buffer it holds is there to take it back.
Kept ==
  ~removedMidFrame =>
    /\ out = Held
    /\ \A a \in InFlight : layers[a.layer] \in {"live", "retiring"}
    /\ \A a \in Own(frame) : layers[a.layer] = "live"

\* The queue is in the order of acquisition.
Ordered ==
  /\ \A a \in twoAgo, b \in previous : a.frame < b.frame
  /\ HoldsFrame => \A a \in InFlight : a.frame < frame.n

\* The kernel has taken a flip that the scene will arm the tripwire for.
Arming == Unfinalized /\ frame.kind = "flip"

\* A flip the scene believes in, or is about to, has an event to clear it; and
\* for a caller that never builds with the tripwire set there is one event at
\* most, queued or to come, and until teardown the scene knows of it.
Events ==
  /\ dropped => ~HoldsFrame
  /\ armed \/ Arming => events > 0 \/ flip.event
  /\ ~ranAhead =>
       /\ HoldsFrame => ~armed
       /\ events <= 1 /\ (flip.event => events = 0)
       /\ ~dropped /\ (events > 0 \/ flip.event) => armed \/ Arming
       /\ dropped /\ flip.event => armed

\* What changed since the newest frame was numbered, content_changed sees, as
\* long as there is a frame to be taken for current.
Changes ==
  /\ changedAt <= builds
  /\ ~removedMidFrame /\ changedAt = builds /\ (HoldsFrame \/ InFlight # {})
       => ContentChanged

IInv == /\ TypeOK /\ Numbers /\ Sequences /\ HeldOnce /\ Ring /\ Reattachment
        /\ Kept /\ Ordered /\ Events /\ Changes

-----------------------------------------------------------------------------
(* Type correctness.                                                       *)

\* Every step preserves the types.
LEMMA TypeStep == TypeOK /\ [Next]_vars => TypeOK'
<1> SUFFICES ASSUME TypeOK, [Next]_vars PROVE TypeOK'
  OBVIOUS
<1> USE SceneAssumption DEF TypeOK, vars, sceneVars, sourceVars, kernelVars, historyVars
<1>1. ASSUME NEW l \in Layers, AddLayer(l) PROVE TypeOK'
  BY <1>1 DEF AddLayer
<1>2. ASSUME NEW l \in Layers, RemoveLayer(l) PROVE TypeOK'
  BY <1>2 DEF RemoveLayer, Removed
<1>3. ASSUME NEW l \in Layers, SetDisplay(l) PROVE TypeOK'
  BY <1>3 DEF SetDisplay
<1>4. ASSUME NEW l \in Layers, Produce(l) PROVE TypeOK'
  BY <1>4 DEF Produce, Live
<1>5. ASSUME NEW kind \in {"flip", "blocking", "test"}, BuildFrame(kind) PROVE TypeOK'
  <2>1. /\ Ready \subseteq Layers
        /\ Reattached \subseteq Acquisition
        /\ Acquired(Ready, builds + 1) \subseteq Acquisition
    BY DEF Ready, Live, Reattached, Acquired, Acquisition
  <2>2. /\ builds' \in Nat /\ lastFb' \in [Layers -> Nat]
        /\ fresh' \subseteq Layers /\ presenting' \subseteq Layers
        /\ out' \subseteq Acquisition
    BY <1>5, <2>1 DEF BuildFrame, AcquireFrom
  <2>3. frame' \in [n : Nat, kind : Kinds, keeps : BOOLEAN,
                    shows : SUBSET Acquisition, result : Results]
    <3>1. (Live = {}) \in BOOLEAN
      OBVIOUS
    <3>2. QED
      BY <1>5, <2>1, <3>1 DEF BuildFrame, Kinds, Results
  <2>4. QED
    BY <1>5, <2>2, <2>3 DEF BuildFrame
<1>6. ASSUME NEW S \in SUBSET Layers, NEW usedUp \in SUBSET Layers, BuildFrameFails(S, usedUp)
      PROVE TypeOK'
  BY <1>6 DEF BuildFrameFails, AcquireFrom, MayBuild, Ready, Live
<1>7. ASSUME CommitAccepted PROVE TypeOK'
  <2>1. frame' \in [n : Nat, kind : Kinds, keeps : BOOLEAN,
                    shows : SUBSET Acquisition, result : Results]
    BY <1>7 DEF CommitAccepted, Results
  <2>2. (IF frame.keeps THEN screen.shows ELSE frame.shows) \in SUBSET Acquisition
    OBVIOUS
  <2>3. /\ flip' \in [n : Nat, seq : Nat, shows : SUBSET Acquisition, event : BOOLEAN]
        /\ screen' \in [n : Nat, shows : SUBSET Acquisition]
        /\ landed' \in Nat
    <3> DEFINE shows == IF frame.keeps THEN screen.shows ELSE frame.shows
    <3>1. CASE frame.kind = "flip"
      <4>1. /\ flip' = [n |-> frame.n, seq |-> lastSeq + 1, shows |-> shows, event |-> TRUE]
            /\ screen' = screen /\ landed' = landed
        BY <1>7, <3>1 DEF CommitAccepted
      <4>2. QED
        BY <4>1, <2>2
    <3>2. CASE frame.kind # "flip"
      <4>1. /\ screen' = [n |-> frame.n, shows |-> shows]
            /\ landed' = lastSeq + 1 /\ flip' = flip
        BY <1>7, <3>2 DEF CommitAccepted
      <4>2. QED
        BY <4>1, <2>2
    <3>3. QED
      BY <3>1, <3>2
  <2>4. QED
    BY <1>7, <2>1, <2>3 DEF CommitAccepted
<1>8. ASSUME NEW result \in {"ok", "rejected", "not_master"}, CommitAnswered(result) PROVE TypeOK'
  BY <1>8 DEF CommitAnswered, Kinds, Results
<1>9. ASSUME FlipLands PROVE TypeOK'
  BY <1>9 DEF FlipLands, NoFlip
<1>10. ASSUME FinalizeFrameOk PROVE TypeOK'
  BY <1>10 DEF FinalizeFrameOk, Rotate, Deliver, Own, ArmsFlip, NoFrame, Kinds, Results
<1>11. ASSUME FinalizeFrameReturns PROVE TypeOK'
  BY <1>11 DEF FinalizeFrameReturns, Deliver, NoFrame, Kinds, Results
<1>12. ASSUME DispatchFlip PROVE TypeOK'
  <2>1. events' \in Nat
    BY <1>12 DEF DispatchFlip, EventQueued
  <2>2. QED
    BY <1>12, <2>1 DEF DispatchFlip
<1>13. ASSUME NEW seq \in 1..lastSeq, ReleaseDisplaced(seq) PROVE TypeOK'
  BY <1>13 DEF ReleaseDisplaced, Deliver
<1>14. ASSUME LoseMaster PROVE TypeOK'
  BY <1>14 DEF LoseMaster
<1>15. ASSUME Resume PROVE TypeOK'
  BY <1>15 DEF Resume, Dark
<1>16. ASSUME OnSessionPaused PROVE TypeOK'
  BY <1>16 DEF OnSessionPaused, Deliver
<1>17. ASSUME NEW S \in SUBSET Layers, OnSessionResumed(S) PROVE TypeOK'
  <2>1. /\ dirty' \subseteq Layers
        /\ lastFb' \in [Layers -> Nat]
    BY <1>17 DEF OnSessionResumed
  <2>2. /\ screen' \in [n : Nat, shows : SUBSET Acquisition]
        /\ session' \in {"active", "lost", "paused"}
        /\ suspended' \in BOOLEAN
    <3>1. Dark \in [n : Nat, shows : SUBSET Acquisition]
      BY DEF Dark
    <3>2. CASE UNCHANGED <<session, suspended, screen>>
      BY <3>2
    <3>3. CASE session' = "active" /\ suspended' = FALSE /\ screen' = Dark
      BY <3>1, <3>3
    <3>4. QED
      BY <1>17, <3>2, <3>3 DEF OnSessionResumed
  <2>3. QED
    BY <1>17, <2>1, <2>2 DEF OnSessionResumed
<1>18. ASSUME Teardown PROVE TypeOK'
  BY <1>18 DEF Teardown
<1>19. ASSUME UNCHANGED vars PROVE TypeOK'
  BY <1>19
<1>20. QED
  BY <1>1, <1>2, <1>3, <1>4, <1>5, <1>6, <1>7, <1>8, <1>9, <1>10, <1>11, <1>12,
     <1>13, <1>14, <1>15, <1>16, <1>17, <1>18, <1>19 DEF Next

\* The types hold initially.
LEMMA TypeInit == Init => TypeOK
<1> SUFFICES ASSUME Init PROVE TypeOK
  OBVIOUS
<1>1. NoFrame \in [n : Nat, kind : Kinds, keeps : BOOLEAN,
                   shows : SUBSET Acquisition, result : Results]
  BY DEF NoFrame, Kinds, Results
<1>2. /\ NoFlip \in [n : Nat, seq : Nat, shows : SUBSET Acquisition, event : BOOLEAN]
      /\ Dark \in [n : Nat, shows : SUBSET Acquisition]
  BY DEF NoFlip, Dark
<1>3. QED
  BY <1>1, <1>2 DEF Init, TypeOK

\* Every reachable state is well typed.
THEOREM TypeCorrect == Spec => []TypeOK
  BY TypeInit, TypeStep, PTL DEF Spec

-----------------------------------------------------------------------------
(* The inductive invariant, one lemma per conjunct.                        *)

\* Revoking the event of no flip at all leaves no flip.
LEMMA NoFlipStays == [NoFlip EXCEPT !.event = FALSE] = NoFlip
<1>1. /\ DOMAIN NoFlip = {"n", "seq", "shows", "event"}
      /\ NoFlip.event = FALSE
  BY DEF NoFlip
<1>2. NoFlip = [x \in {"n", "seq", "shows", "event"} |-> NoFlip[x]]
  BY DEF NoFlip
<1>3. QED
  BY <1>1, <1>2

\* The commit sequences stay in step with the pending flip.
LEMMA SequencesStep ==
  TypeOK /\ Numbers /\ Sequences /\ [Next]_vars => Sequences'
<1> SUFFICES ASSUME TypeOK, Numbers, Sequences, [Next]_vars PROVE Sequences'
  OBVIOUS
<1> USE DEF TypeOK, Sequences, Unfinalized
<1>0. ASSUME UNCHANGED <<frame, lastSeq, landed, flip>> PROVE Sequences'
  BY <1>0
<1>1. ASSUME NEW l \in Layers, AddLayer(l) \/ RemoveLayer(l) \/ SetDisplay(l) \/ Produce(l)
      PROVE Sequences'
  BY <1>0, <1>1 DEF AddLayer, RemoveLayer, SetDisplay, Produce, sceneVars, kernelVars
<1>2. ASSUME NEW kind \in {"flip", "blocking", "test"}, BuildFrame(kind) PROVE Sequences'
  BY <1>2 DEF BuildFrame, MayBuild, HoldsFrame, kernelVars
<1>3. ASSUME NEW S \in SUBSET Layers, NEW usedUp \in SUBSET Layers,
             BuildFrameFails(S, usedUp) \/ OnSessionResumed(S)
      PROVE Sequences'
  BY <1>0, <1>3 DEF BuildFrameFails, OnSessionResumed, kernelVars
<1>4. ASSUME CommitAccepted PROVE Sequences'
  <2>1. CASE frame.kind = "flip"
    BY <1>4, <2>1 DEF CommitAccepted, HoldsFrame, Kinds
  <2>2. CASE frame.kind # "flip"
    <3>1. landed' = lastSeq + 1 /\ flip' = flip /\ lastSeq' = lastSeq
      BY <1>4, <2>2 DEF CommitAccepted
    <3>2. frame'.kind = "blocking" /\ frame'.result = "ok" /\ flip = NoFlip
      BY <1>4, <2>2 DEF CommitAccepted, HoldsFrame, Kinds
    <3>3. QED
      BY <3>1, <3>2
  <2>3. QED
    BY <2>1, <2>2
<1>5. ASSUME NEW result \in {"ok", "rejected", "not_master"}, CommitAnswered(result)
      PROVE Sequences'
  BY <1>5 DEF CommitAnswered, kernelVars
<1>6. ASSUME FlipLands PROVE Sequences'
  BY <1>6 DEF FlipLands, sceneVars
<1>7. ASSUME FinalizeFrameOk PROVE Sequences'
  BY <1>7 DEF FinalizeFrameOk, NoFrame, kernelVars
<1>8. ASSUME FinalizeFrameReturns PROVE Sequences'
  BY <1>8 DEF FinalizeFrameReturns, NoFrame, kernelVars
<1>9. ASSUME DispatchFlip \/ Teardown \/ LoseMaster \/ Resume PROVE Sequences'
  BY <1>0, <1>9 DEF DispatchFlip, Teardown, LoseMaster, Resume, sceneVars, kernelVars
<1>10. ASSUME NEW seq \in 1..lastSeq, ReleaseDisplaced(seq) PROVE Sequences'
  BY <1>0, <1>10 DEF ReleaseDisplaced, kernelVars
<1>11. ASSUME OnSessionPaused PROVE Sequences'
  <2>1. /\ UNCHANGED <<frame, lastSeq, landed>>
        /\ flip' = [flip EXCEPT !.event = FALSE]
    BY <1>11 DEF OnSessionPaused
  <2>2. flip = NoFlip => flip' = NoFlip
    BY <2>1, NoFlipStays
  <2>3. flip'.seq = flip.seq
    BY <2>1
  <2>4. QED
    BY <2>1, <2>2, <2>3
<1>12. ASSUME UNCHANGED vars PROVE Sequences'
  BY <1>0, <1>12 DEF vars, sceneVars, kernelVars
<1>13. QED
  BY <1>1, <1>2, <1>3, <1>4, <1>5, <1>6, <1>7, <1>8, <1>9, <1>10, <1>11, <1>12 DEF Next

\* Frames go on being numbered upward.
LEMMA NumbersStep == TypeOK /\ Numbers /\ [Next]_vars => Numbers'
<1> SUFFICES ASSUME TypeOK, Numbers, [Next]_vars PROVE Numbers'
  OBVIOUS
<1> USE DEF TypeOK, Numbers, Unfinalized, HoldsFrame
<1>0. ASSUME UNCHANGED <<builds, drainedTo, frame, lastFb, screen, flip>>,
             out' \subseteq out
      PROVE Numbers'
  BY <1>0
<1>1. ASSUME NEW l \in Layers, AddLayer(l) \/ SetDisplay(l) \/ Produce(l)
      PROVE Numbers'
  BY <1>0, <1>1 DEF AddLayer, SetDisplay, Produce, sceneVars, sourceVars, kernelVars
<1>2. ASSUME NEW l \in Layers, RemoveLayer(l) PROVE Numbers'
  BY <1>2 DEF RemoveLayer, kernelVars
<1>3. ASSUME NEW kind \in {"flip", "blocking", "test"}, BuildFrame(kind) PROVE Numbers'
  <2>1. /\ builds' = builds + 1
        /\ frame' = [n |-> builds + 1, kind |-> kind, keeps |-> Live = {},
                     shows |-> Acquired(Ready, builds + 1) \cup Reattached,
                     result |-> "none"]
        /\ out' = out \cup Acquired(Ready, builds + 1)
        /\ UNCHANGED <<drainedTo, screen, flip>>
    BY <1>3 DEF BuildFrame, AcquireFrom, kernelVars
  <2>2. \A l \in Layers : lastFb'[l] <= builds + 1
    BY <1>3 DEF BuildFrame, AcquireFrom
  <2>3. \A a \in Acquired(Ready, builds + 1) : a.frame = builds + 1
    BY DEF Acquired
  <2>4. \A a \in Reattached : a.frame <= builds
    BY DEF Reattached, Live
  <2>5. \A a \in frame'.shows : a.frame <= frame'.n
    BY <2>1, <2>3, <2>4, TypeStep DEF Acquisition
  <2>6. \A a \in out' : a.frame <= builds'
    BY <2>1, <2>3 DEF Acquisition
  <2>7. QED
    BY <2>1, <2>2, <2>5, <2>6
<1>4. ASSUME NEW S \in SUBSET Layers, NEW usedUp \in SUBSET Layers, BuildFrameFails(S, usedUp)
      PROVE Numbers'
  BY <1>4 DEF BuildFrameFails, AcquireFrom, MayBuild, kernelVars, historyVars, Acquisition
<1>5. ASSUME CommitAccepted PROVE Numbers'
  <2> DEFINE shows == IF frame.keeps THEN screen.shows ELSE frame.shows
  <2>1. /\ UNCHANGED <<builds, drainedTo, lastFb, out>>
        /\ frame' = [frame EXCEPT !.result = "ok"]
        /\ frame.kind # "test" /\ frame.kind # "none" /\ frame.result = "none"
    BY <1>5 DEF CommitAccepted, sourceVars, historyVars
  <2>2. frame'.n = frame.n /\ frame'.kind = frame.kind /\ frame'.shows = frame.shows
        /\ frame'.result = "ok" /\ frame.kind \in {"flip", "blocking"}
    BY <2>1 DEF Kinds
  <2>3. \A a \in shows : a.frame <= frame.n
    BY <2>1 DEF Acquisition
  <2>4. \/ /\ flip'.n = frame.n /\ flip'.shows = shows /\ screen' = screen
        \/ /\ screen'.n = frame.n /\ screen'.shows = shows /\ flip' = flip
    BY <1>5 DEF CommitAccepted
  <2>5. QED
    BY <2>1, <2>2, <2>3, <2>4
<1>6. ASSUME NEW result \in {"ok", "rejected", "not_master"}, CommitAnswered(result)
      PROVE Numbers'
  BY <1>6 DEF CommitAnswered, sourceVars, kernelVars, historyVars
<1>7. ASSUME FlipLands PROVE Numbers'
  BY <1>7 DEF FlipLands, sceneVars, sourceVars, historyVars, NoFlip
<1>8. ASSUME FinalizeFrameOk \/ FinalizeFrameReturns PROVE Numbers'
  <2>1. /\ UNCHANGED <<builds, drainedTo, lastFb, screen, flip>>
        /\ out' \subseteq out
        /\ frame' = NoFrame
    BY <1>8 DEF FinalizeFrameOk, FinalizeFrameReturns, Rotate, Deliver, kernelVars, historyVars
  <2>2. NoFrame.kind = "none" /\ NoFrame.shows = {}
    BY DEF NoFrame
  <2>3. QED
    BY <2>1, <2>2
<1>9. ASSUME DispatchFlip \/ Teardown \/ LoseMaster PROVE Numbers'
  BY <1>0, <1>9 DEF DispatchFlip, Teardown, LoseMaster, sceneVars, sourceVars, kernelVars, historyVars
<1>10. ASSUME NEW seq \in 1..lastSeq, ReleaseDisplaced(seq) PROVE Numbers'
  BY <1>0, <1>10 DEF ReleaseDisplaced, Deliver, kernelVars, historyVars
<1>11. ASSUME Resume PROVE Numbers'
  BY <1>11 DEF Resume, Dark, sourceVars, historyVars
<1>12. ASSUME OnSessionPaused PROVE Numbers'
  BY <1>12 DEF OnSessionPaused, Deliver
<1>13. ASSUME NEW S \in SUBSET Layers, OnSessionResumed(S) PROVE Numbers'
  <2>1. /\ UNCHANGED <<builds, drainedTo, frame, flip, out>>
        /\ \A l \in Layers : lastFb'[l] <= builds
        /\ ~HoldsFrame
    BY <1>13 DEF OnSessionResumed, sourceVars, historyVars
  <2>2. screen' = screen \/ (screen'.n = 0 /\ screen'.shows = {})
    BY <1>13 DEF OnSessionResumed, Dark
  <2>3. QED
    BY <2>1, <2>2
<1>14. ASSUME UNCHANGED vars PROVE Numbers'
  BY <1>0, <1>14 DEF vars, sceneVars, sourceVars, kernelVars, historyVars
<1>15. QED
  BY <1>1, <1>2, <1>3, <1>4, <1>5, <1>6, <1>7, <1>8, <1>9, <1>10, <1>11, <1>12,
     <1>13, <1>14 DEF Next

\* A caller that holds no frame holds no buffers, and one that is handed a
\* frame holds what was acquired for it.
LEMMA OwnWithout == Numbers /\ ~HoldsFrame => Own(frame) = {}
  BY DEF Numbers, NoFrame, Own

\* What a new frame acquires is its own, numbered by it, and of live layers.
LEMMA OwnOfBuilt ==
  ASSUME TypeOK, Numbers, NEW kind, BuildFrame(kind)
  PROVE  /\ Own(frame)' = Acquired(Ready, builds + 1)
         /\ \A a \in Acquired(Ready, builds + 1) :
              a.frame = builds + 1 /\ a.layer \in Ready /\ layers[a.layer] = "live"
<1>1. /\ frame'.n = builds + 1
      /\ frame'.shows = Acquired(Ready, builds + 1) \cup Reattached
  BY DEF BuildFrame
<1>2. \A a \in Reattached : a.frame # builds + 1
  BY DEF Reattached, Numbers, TypeOK, Live
<1>3. \A a \in Acquired(Ready, builds + 1) :
        a.frame = builds + 1 /\ a.layer \in Ready /\ layers[a.layer] = "live"
  BY DEF Acquired, Ready, Live
<1>4. QED
  BY <1>1, <1>2, <1>3 DEF Own

\* The kernel's answer changes nothing about what the frame holds.
LEMMA OwnOfAnswered ==
  ASSUME TypeOK,
         CommitAccepted \/ \E result \in {"ok", "rejected", "not_master"} : CommitAnswered(result)
  PROVE  /\ frame'.n = frame.n /\ frame'.kind = frame.kind /\ frame'.shows = frame.shows
         /\ HoldsFrame /\ HoldsFrame' /\ Own(frame)' = Own(frame)
         /\ UNCHANGED <<previous, twoAgo, out, layers, session, removedMidFrame>>
<1>1. /\ UNCHANGED <<previous, twoAgo, out, layers, session, removedMidFrame>>
      /\ HoldsFrame
      /\ \E result \in Results : frame' = [frame EXCEPT !.result = result]
  BY DEF CommitAccepted, CommitAnswered, sourceVars, kernelVars, historyVars, Results
<1>2. frame'.n = frame.n /\ frame'.kind = frame.kind /\ frame'.shows = frame.shows
  BY <1>1 DEF TypeOK
<1>3. QED
  BY <1>1, <1>2 DEF Own, HoldsFrame

\* A buffer stays in one place of the scene.
LEMMA HeldOnceStep ==
  TypeOK /\ Numbers /\ HeldOnce /\ [Next]_vars => HeldOnce'
<1> SUFFICES ASSUME TypeOK, Numbers, HeldOnce, [Next]_vars PROVE HeldOnce'
  OBVIOUS
<1> USE DEF HeldOnce, Held, InFlight, Own
<1>0. ASSUME UNCHANGED <<frame, previous, twoAgo, out>> PROVE HeldOnce'
  BY <1>0
<1>1. ASSUME NEW l \in Layers, AddLayer(l) \/ RemoveLayer(l) \/ SetDisplay(l) \/ Produce(l)
      PROVE HeldOnce'
  BY <1>0, <1>1 DEF AddLayer, RemoveLayer, SetDisplay, Produce, sceneVars, sourceVars
<1>2. ASSUME NEW kind \in {"flip", "blocking", "test"}, BuildFrame(kind) PROVE HeldOnce'
  <2>1. /\ out' = out \cup Acquired(Ready, builds + 1)
        /\ UNCHANGED <<previous, twoAgo>>
    BY <1>2 DEF BuildFrame
  <2>2. /\ Own(frame)' = Acquired(Ready, builds + 1)
        /\ \A a \in Acquired(Ready, builds + 1) : a.frame = builds + 1
    BY <1>2, OwnOfBuilt
  <2>3. \A a \in out : a.frame # builds + 1
    BY DEF Numbers, TypeOK, Acquisition
  <2>4. QED
    BY <2>1, <2>2, <2>3
<1>3. ASSUME NEW S \in SUBSET Layers, NEW usedUp \in SUBSET Layers,
             BuildFrameFails(S, usedUp) \/ OnSessionResumed(S)
      PROVE HeldOnce'
  BY <1>0, <1>3 DEF BuildFrameFails, OnSessionResumed, sourceVars
<1>4. ASSUME CommitAccepted PROVE HeldOnce'
  BY <1>4, OwnOfAnswered
<1>5. ASSUME NEW result \in {"ok", "rejected", "not_master"}, CommitAnswered(result)
      PROVE HeldOnce'
  BY <1>5, OwnOfAnswered
<1>6. ASSUME FinalizeFrameOk PROVE HeldOnce'
  <2>1. Own(frame)' = {}
    BY <1>6 DEF FinalizeFrameOk, NoFrame
  <2>2. QED
    BY <1>6, <2>1 DEF FinalizeFrameOk, Rotate, Deliver
<1>7. ASSUME FinalizeFrameReturns PROVE HeldOnce'
  <2>1. Own(frame)' = {}
    BY <1>7 DEF FinalizeFrameReturns, NoFrame
  <2>2. QED
    BY <1>7, <2>1 DEF FinalizeFrameReturns, Deliver
<1>8. ASSUME FlipLands \/ DispatchFlip \/ Teardown \/ LoseMaster \/ Resume PROVE HeldOnce'
  BY <1>0, <1>8 DEF FlipLands, DispatchFlip, Teardown, LoseMaster, Resume, sceneVars, sourceVars
<1>9. ASSUME NEW seq \in 1..lastSeq, ReleaseDisplaced(seq) PROVE HeldOnce'
  <2>1. /\ previous' = previous /\ frame' = frame
        /\ twoAgo' = twoAgo \ Displaced(seq)
        /\ \A a \in out : a \notin Displaced(seq) => a \in out'
    BY <1>9 DEF ReleaseDisplaced, Deliver
  <2>2. Displaced(seq) \subseteq twoAgo
    BY DEF Displaced
  <2>3. QED
    BY <2>1, <2>2
<1>10. ASSUME OnSessionPaused PROVE HeldOnce'
  <2>1. Own(frame)' = {}
    BY <1>10 DEF OnSessionPaused, Numbers, NoFrame
  <2>2. QED
    BY <1>10, <2>1 DEF OnSessionPaused
<1>11. ASSUME UNCHANGED vars PROVE HeldOnce'
  BY <1>0, <1>11 DEF vars, sceneVars, sourceVars
<1>12. QED
  BY <1>1, <1>2, <1>3, <1>4, <1>5, <1>6, <1>7, <1>8, <1>9, <1>10, <1>11 DEF Next

\* The queue keeps the buffers of the frame on screen and of the next one.
LEMMA RingStep ==
  TypeOK /\ Numbers /\ Sequences /\ Ring /\ [Next]_vars => Ring'
<1> SUFFICES ASSUME TypeOK, Numbers, Sequences, Ring, [Next]_vars PROVE Ring'
  OBVIOUS
<1> USE DEF Ring, Keeps, Unfinalized
<1>0. ASSUME UNCHANGED <<frame, previous, twoAgo, screen, flip, drainedTo>> PROVE Ring'
  BY <1>0 DEF Own
<1>1. ASSUME NEW l \in Layers, AddLayer(l) \/ RemoveLayer(l) \/ SetDisplay(l) \/ Produce(l)
      PROVE Ring'
  BY <1>0, <1>1 DEF AddLayer, RemoveLayer, SetDisplay, Produce, sceneVars, kernelVars
<1>2. ASSUME NEW kind \in {"flip", "blocking", "test"}, BuildFrame(kind) PROVE Ring'
  BY <1>2 DEF BuildFrame, MayBuild, HoldsFrame, kernelVars
<1>3. ASSUME NEW S \in SUBSET Layers, NEW usedUp \in SUBSET Layers, BuildFrameFails(S, usedUp)
      PROVE Ring'
  BY <1>0, <1>3 DEF BuildFrameFails, kernelVars, historyVars
<1>4. ASSUME CommitAccepted PROVE Ring'
  <2> DEFINE shows == IF frame.keeps THEN screen.shows ELSE frame.shows
  <2>1. /\ UNCHANGED <<previous, drainedTo>>
        /\ frame' = [frame EXCEPT !.result = "ok"]
        /\ frame.kind # "test" /\ frame.kind # "none" /\ frame.result = "none"
        /\ flip = NoFlip
    BY <1>4 DEF CommitAccepted, HoldsFrame, historyVars
  <2>2. /\ frame'.n = frame.n /\ frame'.kind = frame.kind /\ frame'.shows = frame.shows
        /\ frame'.result = "ok" /\ frame.kind \in {"flip", "blocking"}
    BY <2>1 DEF TypeOK, Kinds
  <2>3. Keeps(Own(frame)', frame.n, shows)
    <3>1. CASE frame.keeps
      <4>1. \A a \in screen.shows : a.frame # frame.n
        BY <2>1 DEF Numbers, TypeOK, Acquisition, HoldsFrame
      <4>2. QED
        BY <3>1, <4>1
    <3>2. CASE ~frame.keeps
      BY <2>2, <3>2 DEF Own
    <3>3. QED
      BY <3>1, <3>2
  <2>4. CASE frame.kind = "flip"
    <3>1. /\ flip'.n = frame.n /\ flip'.shows = shows /\ flip'.event = TRUE
          /\ screen' = screen
      BY <1>4, <2>4 DEF CommitAccepted
    <3>2. flip' # NoFlip
      BY <3>1 DEF NoFlip
    <3>3. QED
      BY <2>1, <2>2, <2>3, <3>1, <3>2
  <2>5. CASE frame.kind # "flip"
    <3>1. flip' = NoFlip /\ screen'.n = frame.n /\ screen'.shows = shows
      BY <1>4, <2>5, <2>1 DEF CommitAccepted
    <3>2. QED
      BY <2>1, <2>2, <2>3, <3>1
  <2>6. QED
    BY <2>4, <2>5
<1>5. ASSUME NEW result \in {"ok", "rejected", "not_master"}, CommitAnswered(result)
      PROVE Ring'
  BY <1>5 DEF CommitAnswered, kernelVars, historyVars, TypeOK
<1>6. ASSUME FlipLands PROVE Ring'
  BY <1>6 DEF FlipLands, sceneVars, historyVars, NoFlip, Own
<1>7. ASSUME FinalizeFrameOk PROVE Ring'
  BY <1>7 DEF FinalizeFrameOk, Rotate, NoFrame, kernelVars, historyVars
<1>8. ASSUME FinalizeFrameReturns PROVE Ring'
  BY <1>8 DEF FinalizeFrameReturns, NoFrame, kernelVars, historyVars
<1>9. ASSUME DispatchFlip \/ Teardown \/ LoseMaster PROVE Ring'
  BY <1>0, <1>9 DEF DispatchFlip, Teardown, LoseMaster, sceneVars, kernelVars, historyVars
<1>10. ASSUME NEW seq \in 1..lastSeq, ReleaseDisplaced(seq) PROVE Ring'
  <2>1. UNCHANGED <<frame, previous, screen, flip, drainedTo>>
    BY <1>10 DEF ReleaseDisplaced, kernelVars, historyVars
  <2>2. ~Unfinalized /\ flip # NoFlip => twoAgo' = twoAgo
    BY <1>10 DEF ReleaseDisplaced, Displaced, Sequences, TypeOK
  <2>3. QED
    BY <2>1, <2>2 DEF Own
<1>11. ASSUME Resume PROVE Ring'
  BY <1>11 DEF Resume, Dark, historyVars, TypeOK, Own
<1>12. ASSUME OnSessionPaused PROVE Ring'
  <2>1. drainedTo' = builds /\ screen' = screen /\ flip'.n = flip.n
    BY <1>12 DEF OnSessionPaused, TypeOK
  <2>2. QED
    BY <2>1 DEF Numbers, TypeOK
<1>13. ASSUME NEW S \in SUBSET Layers, OnSessionResumed(S) PROVE Ring'
  <2>1. UNCHANGED <<frame, previous, twoAgo, flip, drainedTo>>
    BY <1>13 DEF OnSessionResumed, historyVars
  <2>2. screen' = screen \/ (screen'.n = 0 /\ screen'.shows = {})
    BY <1>13 DEF OnSessionResumed, Dark
  <2>3. QED
    BY <2>1, <2>2 DEF Own
<1>14. ASSUME UNCHANGED vars PROVE Ring'
  BY <1>0, <1>14 DEF vars, sceneVars, kernelVars, historyVars
<1>15. QED
  BY <1>1, <1>2, <1>3, <1>4, <1>5, <1>6, <1>7, <1>8, <1>9, <1>10, <1>11, <1>12,
     <1>13, <1>14 DEF Next

\* A live layer that never starves is never re-attached.
LEMMA ReattachmentStep ==
  TypeOK /\ Numbers /\ Reattachment /\ [Next]_vars => Reattachment'
<1> SUFFICES ASSUME TypeOK, Numbers, Reattachment, [Next]_vars PROVE Reattachment'
  OBVIOUS
<1> USE DEF TypeOK, Reattachment, Fresh, Steady, HoldsFrame, Acquisition
<1>0. ASSUME UNCHANGED <<lastFb, presenting, screen, flip, frame>>,
             session' = session \/ (session' # "paused" /\ session # "paused"),
             \A l \in Layers : (layers'[l] = "live" <=> layers[l] = "live")
                            /\ (layers'[l] = "absent" <=> layers[l] = "absent")
      PROVE Reattachment'
  BY <1>0
<1>1. ASSUME NEW l \in Layers, AddLayer(l) PROVE Reattachment'
  <2>1. /\ \A k \in Layers \ {l} : layers'[k] = layers[k]
        /\ layers[l] = "absent" /\ layers'[l] = "live"
        /\ UNCHANGED <<lastFb, presenting, session, screen, flip, frame>>
    BY <1>1 DEF AddLayer, sourceVars, kernelVars
  <2>2. \A a \in screen.shows \cup flip.shows \cup frame.shows : a.layer \in Layers \ {l}
    BY <2>1
  <2>3. QED
    BY <2>1, <2>2
<1>2. ASSUME NEW l \in Layers, RemoveLayer(l) PROVE Reattachment'
  <2>1. /\ \A k \in Layers \ {l} : layers'[k] = layers[k]
        /\ \A k \in Layers \ {l} : lastFb'[k] = lastFb[k]
        /\ layers'[l] \in {"retiring", "gone"} /\ lastFb'[l] = 0
        /\ presenting' = presenting \ {l}
        /\ UNCHANGED <<session, screen, flip, frame>>
    BY <1>2 DEF RemoveLayer, Removed, kernelVars
  <2>2. QED
    BY <2>1
<1>3. ASSUME NEW l \in Layers, SetDisplay(l) \/ Produce(l) PROVE Reattachment'
  BY <1>0, <1>3 DEF SetDisplay, Produce, sceneVars, sourceVars, kernelVars
<1>4. ASSUME NEW kind \in {"flip", "blocking", "test"}, BuildFrame(kind)
      PROVE Reattachment'
  <2>1. /\ frame'.n = builds + 1 /\ frame'.keeps = (Live = {})
        /\ frame'.shows = Acquired(Ready, builds + 1) \cup Reattached
        /\ presenting' = presenting \cup Ready
        /\ layers' = layers /\ session' = session /\ screen' = screen /\ flip' = flip
    BY <1>4 DEF BuildFrame, AcquireFrom, kernelVars
  <2>2. \A l \in Layers : lastFb'[l] = IF l \in Ready THEN builds + 1 ELSE lastFb[l]
    BY <1>4 DEF BuildFrame, AcquireFrom
  <2>3. \A a \in Acquired(Ready, builds + 1) : a.layer \in Ready /\ a.frame = builds + 1
    BY DEF Acquired
  <2>4. \A a \in Reattached : a.layer \in Live \ Ready /\ lastFb[a.layer] # 0
    BY DEF Reattached
  <2>5. Ready \subseteq Live /\ \A l \in Live : l \in Layers /\ layers[l] = "live"
    BY DEF Ready, Live
  <2>6. session # "paused" => \A l \in Live \ Ready : l \notin Starving => l \notin presenting
    BY DEF Ready
  <2>7. ASSUME session # "paused", NEW a \in frame'.shows,
               layers[a.layer] = "live", a.layer \notin Starving
        PROVE a.frame = frame'.n
    <3>1. a \notin Reattached
      <4>1. SUFFICES ASSUME a \in Reattached PROVE FALSE
        OBVIOUS
      <4>2. a.layer \in Live \ Ready /\ lastFb[a.layer] # 0
        BY <2>4, <4>1
      <4>3. a.layer \in presenting
        BY <2>5, <2>7, <4>2
      <4>4. QED
        BY <2>6, <2>7, <4>2, <4>3
    <3>2. QED
      BY <2>1, <2>3, <3>1
  <2>8. Live = {} => /\ frame'.shows = {}
                     /\ \A a \in screen.shows \cup flip.shows : layers[a.layer] # "live"
    BY <2>1, <2>3, <2>4, <2>5 DEF Live
  <2>9. \A a \in frame'.shows : layers[a.layer] # "absent"
    BY <2>1, <2>3, <2>4, <2>5
  <2>10. \A a \in screen'.shows \cup flip'.shows \cup frame'.shows : layers'[a.layer] # "absent"
    BY <2>1, <2>9
  <2>11. \A l \in Layers : lastFb'[l] # 0 => layers'[l] # "absent"
    BY <2>1, <2>2, <2>5
  <2>12. session' # "paused" =>
           \A l \in Layers : Steady(l)' /\ lastFb'[l] # 0 => l \in presenting'
    BY <2>1, <2>2
  <2>13. Fresh(screen.n, screen.shows)' /\ Fresh(flip.n, flip.shows)'
    BY <2>1
  <2>14. session' # "paused" => Fresh(frame.n, frame.shows)'
    BY <2>1, <2>7
  <2>15. frame'.keeps => /\ frame'.shows = {}
                         /\ \A a \in screen'.shows \cup flip'.shows : layers'[a.layer] # "live"
    BY <2>1, <2>8
  <2>16. QED
    BY <2>10, <2>11, <2>12, <2>13, <2>14, <2>15
<1>5. ASSUME NEW S \in SUBSET Layers, NEW usedUp \in SUBSET Layers, BuildFrameFails(S, usedUp)
      PROVE Reattachment'
  <2>1. /\ \A l \in Layers : /\ layers'[l] = "live" <=> layers[l] = "live"
                             /\ layers'[l] = "absent" <=> layers[l] = "absent"
        /\ \A l \in Layers : lastFb'[l] = IF l \in S THEN builds + 1 ELSE lastFb[l]
        /\ presenting' = presenting \cup S \cup usedUp
        /\ UNCHANGED <<session, screen, flip, frame>>
    BY <1>5 DEF BuildFrameFails, AcquireFrom, kernelVars
  <2>2. \A l \in S : layers[l] = "live"
    BY <1>5 DEF BuildFrameFails, Ready, Live
  <2>3. QED
    BY <2>1, <2>2
<1>6. ASSUME CommitAccepted PROVE Reattachment'
  <2> DEFINE shows == IF frame.keeps THEN screen.shows ELSE frame.shows
  <2>1. /\ UNCHANGED <<layers, lastFb, presenting, session>>
        /\ frame' = [frame EXCEPT !.result = "ok"]
        /\ HoldsFrame /\ session = "active"
    BY <1>6 DEF CommitAccepted, sourceVars
  <2>2. /\ frame'.n = frame.n /\ frame'.kind = frame.kind /\ frame'.shows = frame.shows
        /\ frame'.keeps = frame.keeps
    BY <2>1
  <2>3. \/ /\ flip'.n = frame.n /\ flip'.shows = shows /\ screen' = screen
        \/ /\ screen'.n = frame.n /\ screen'.shows = shows /\ flip' = flip
    BY <1>6 DEF CommitAccepted
  <2>4. Fresh(frame.n, shows)
    BY <2>1
  <2>5. /\ \A a \in shows : layers[a.layer] # "absent"
        /\ frame.keeps => \A a \in shows : layers[a.layer] # "live"
    BY <2>1
  <2>6. QED
    BY <2>1, <2>2, <2>3, <2>4, <2>5
<1>7. ASSUME NEW result \in {"ok", "rejected", "not_master"}, CommitAnswered(result)
      PROVE Reattachment'
  <2>1. /\ UNCHANGED <<layers, lastFb, presenting, session, screen, flip>>
        /\ frame' = [frame EXCEPT !.result = result]
    BY <1>7 DEF CommitAnswered, sourceVars, kernelVars
  <2>2. /\ frame'.n = frame.n /\ frame'.kind = frame.kind /\ frame'.shows = frame.shows
        /\ frame'.keeps = frame.keeps
    BY <2>1
  <2>3. QED
    BY <2>1, <2>2
<1>8. ASSUME FlipLands PROVE Reattachment'
  BY <1>8 DEF FlipLands, sceneVars, sourceVars, NoFlip
<1>9. ASSUME FinalizeFrameOk \/ FinalizeFrameReturns PROVE Reattachment'
  <2>1. /\ UNCHANGED <<lastFb, presenting, session, screen, flip>>
        /\ frame'.kind = "none" /\ frame'.shows = {}
    BY <1>9 DEF FinalizeFrameOk, FinalizeFrameReturns, NoFrame, kernelVars
  <2>2. \A l \in Layers : /\ layers'[l] = "live" <=> layers[l] = "live"
                          /\ layers'[l] = "absent" <=> layers[l] = "absent"
    BY <1>9 DEF FinalizeFrameOk, FinalizeFrameReturns, Rotate, Deliver
  <2>3. QED
    BY <2>1, <2>2
<1>10. ASSUME DispatchFlip \/ Teardown \/ LoseMaster PROVE Reattachment'
  BY <1>0, <1>10 DEF DispatchFlip, Teardown, LoseMaster, sceneVars, sourceVars, kernelVars
<1>11. ASSUME NEW seq \in 1..lastSeq, ReleaseDisplaced(seq) PROVE Reattachment'
  BY <1>0, <1>11 DEF ReleaseDisplaced, Deliver, kernelVars
<1>12. ASSUME Resume PROVE Reattachment'
  BY <1>12 DEF Resume, Dark, sourceVars
<1>13. ASSUME OnSessionPaused PROVE Reattachment'
  <2>1. /\ UNCHANGED <<lastFb, frame, screen>> /\ session' = "paused" /\ ~HoldsFrame
        /\ flip'.n = flip.n /\ flip'.shows = flip.shows
    BY <1>13 DEF OnSessionPaused
  <2>2. \A l \in Layers : /\ layers'[l] = "live" <=> layers[l] = "live"
                          /\ layers'[l] = "absent" <=> layers[l] = "absent"
    BY <1>13 DEF OnSessionPaused, Deliver
  <2>3. QED
    BY <2>1, <2>2
<1>14. ASSUME NEW S \in SUBSET Layers, OnSessionResumed(S) PROVE Reattachment'
  <2>1. /\ UNCHANGED <<layers, frame, presenting, flip>> /\ ~HoldsFrame
        /\ \A l \in Layers : lastFb'[l] = IF l \in S THEN 0 ELSE lastFb[l]
        /\ session = "paused"
    BY <1>14 DEF OnSessionResumed, sourceVars
  <2>2. screen' = screen \/ (screen'.n = 0 /\ screen'.shows = {})
    BY <1>14 DEF OnSessionResumed, Dark
  <2>3. session' # "paused" => S = Live
    BY <1>14, <2>1 DEF OnSessionResumed
  <2>4. QED
    BY <2>1, <2>2, <2>3 DEF Live
<1>15. ASSUME UNCHANGED vars PROVE Reattachment'
  BY <1>0, <1>15 DEF vars, sceneVars, sourceVars, kernelVars
<1>16. QED
  BY <1>1, <1>2, <1>3, <1>4, <1>5, <1>6, <1>7, <1>8, <1>9, <1>10, <1>11, <1>12,
     <1>13, <1>14, <1>15 DEF Next

\* Nothing the scene has taken is lost, and nothing is held for a source gone.
LEMMA KeptStep ==
  TypeOK /\ Numbers /\ HeldOnce /\ Kept /\ [Next]_vars => Kept'
<1> SUFFICES ASSUME TypeOK, Numbers, HeldOnce, Kept, [Next]_vars, ~removedMidFrame'
             PROVE /\ out' = Held'
                   /\ \A a \in InFlight' : layers'[a.layer] \in {"live", "retiring"}
                   /\ \A a \in Own(frame)' : layers'[a.layer] = "live"
  BY DEF Kept
<1> DEFINE KeptNext == /\ out' = Held'
                       /\ \A a \in InFlight' : layers'[a.layer] \in {"live", "retiring"}
                       /\ \A a \in Own(frame)' : layers'[a.layer] = "live"
<1>0. /\ InFlight \subseteq Acquisition /\ Own(frame) \subseteq Acquisition
      /\ \A a \in Acquisition : a.layer \in Layers
      /\ ~HoldsFrame => Own(frame) = {}
  BY DEF TypeOK, InFlight, Own, Acquisition, Numbers, NoFrame
<1>a. ASSUME ~removedMidFrame, UNCHANGED <<frame, previous, twoAgo, out>>,
             \A l \in Layers : layers[l] = "live" => layers'[l] = "live",
             InFlight = {} \/ \A l \in Layers : layers[l] = "retiring" => layers'[l] = "retiring"
      PROVE KeptNext
  BY <1>a, <1>0 DEF Kept, Held, InFlight, Own
<1>1. ASSUME NEW l \in Layers, AddLayer(l) PROVE KeptNext
  <2>1. /\ \A k \in Layers \ {l} : layers'[k] = layers[k]
        /\ layers'[l] = "live"
        /\ layers[l] = "absent"
        /\ UNCHANGED <<frame, previous, twoAgo, out, removedMidFrame>>
    BY <1>1 DEF AddLayer, sourceVars, TypeOK
  <2>2. QED
    BY <1>a, <2>1
<1>2. ASSUME NEW l \in Layers, RemoveLayer(l) PROVE KeptNext
  <2>1. /\ ~HoldsFrame /\ ~removedMidFrame
        /\ UNCHANGED <<frame, previous, twoAgo, out>>
        /\ \A k \in Layers \ {l} : layers'[k] = layers[k]
    BY <1>2 DEF RemoveLayer, HoldsFrame, TypeOK
  <2>2. InFlight # {} => layers'[l] = "retiring"
    BY <1>2 DEF RemoveLayer, Removed, TypeOK
  <2>3. Own(frame) = {} /\ Own(frame)' = {}
    BY <1>0, <2>1 DEF Own
  <2>4. InFlight' = InFlight
    BY <2>1 DEF InFlight
  <2>5. \A a \in InFlight : layers'[a.layer] \in {"live", "retiring"}
    BY <1>0, <2>1, <2>2 DEF Kept
  <2>6. QED
    BY <2>1, <2>3, <2>4, <2>5 DEF Kept, Held
<1>3. ASSUME NEW l \in Layers, SetDisplay(l) \/ Produce(l) PROVE KeptNext
  BY <1>a, <1>3 DEF SetDisplay, Produce, sceneVars, sourceVars
<1>4. ASSUME NEW kind \in {"flip", "blocking", "test"}, BuildFrame(kind) PROVE KeptNext
  <2>1. /\ ~removedMidFrame /\ ~HoldsFrame
        /\ out' = out \cup Acquired(Ready, builds + 1)
        /\ UNCHANGED <<previous, twoAgo, layers>>
    BY <1>4 DEF BuildFrame, MayBuild
  <2>2. /\ Own(frame)' = Acquired(Ready, builds + 1)
        /\ \A a \in Acquired(Ready, builds + 1) : layers[a.layer] = "live"
    BY <1>4, OwnOfBuilt
  <2>3. InFlight' = InFlight /\ Own(frame) = {}
    BY <1>0, <2>1 DEF InFlight
  <2>4. QED
    BY <2>1, <2>2, <2>3 DEF Kept, Held
<1>5. ASSUME NEW S \in SUBSET Layers, NEW usedUp \in SUBSET Layers, BuildFrameFails(S, usedUp)
      PROVE KeptNext
  BY <1>a, <1>5 DEF BuildFrameFails, historyVars
<1>6. ASSUME CommitAccepted \/ \E result \in {"ok", "rejected", "not_master"} : CommitAnswered(result)
      PROVE KeptNext
  BY <1>6, OwnOfAnswered DEF Kept, Held, InFlight
<1>7. ASSUME FinalizeFrameOk PROVE KeptNext
  <2>1. /\ ~removedMidFrame /\ twoAgo' = previous /\ previous' = Own(frame)
        /\ out' = {a \in out : a \in twoAgo => layers[a.layer] \notin {"live", "retiring"}}
        /\ layers' = [l \in Layers |-> IF layers[l] = "retiring" /\ previous \cup Own(frame) = {}
                                       THEN "gone" ELSE layers[l]]
    BY <1>7 DEF FinalizeFrameOk, Rotate, Deliver, historyVars
  <2>2. Own(frame)' = {}
    BY <1>7 DEF FinalizeFrameOk, NoFrame, Own
  <2>3. out' = previous \cup Own(frame)
    BY <2>1 DEF Kept, HeldOnce, Held, InFlight
  <2>4. InFlight' = previous \cup Own(frame) /\ Held' = out'
    BY <2>1, <2>2, <2>3 DEF InFlight, Held
  <2>5. ASSUME NEW a \in InFlight' PROVE layers'[a.layer] \in {"live", "retiring"}
    <3>1. a.layer \in Layers /\ layers[a.layer] \in {"live", "retiring"}
      BY <1>0, <2>1, <2>4 DEF Kept, InFlight
    <3>2. QED
      BY <2>1, <2>4, <3>1
  <2>6. QED
    BY <2>2, <2>4, <2>5
<1>8. ASSUME FinalizeFrameReturns PROVE KeptNext
  <2>1. /\ ~removedMidFrame /\ UNCHANGED <<previous, twoAgo>>
        /\ out' = {a \in out : a \in Own(frame) => layers[a.layer] \notin {"live", "retiring"}}
        /\ layers' = [l \in Layers |-> IF layers[l] = "retiring" /\ InFlight = {}
                                       THEN "gone" ELSE layers[l]]
    BY <1>8 DEF FinalizeFrameReturns, Deliver, historyVars
  <2>2. Own(frame)' = {}
    BY <1>8 DEF FinalizeFrameReturns, NoFrame, Own
  <2>3. out' = InFlight
    BY <2>1 DEF Kept, HeldOnce, Held, InFlight
  <2>4. InFlight' = InFlight /\ Held' = out'
    BY <2>1, <2>2, <2>3 DEF InFlight, Held
  <2>5. ASSUME NEW a \in InFlight' PROVE layers'[a.layer] \in {"live", "retiring"}
    BY <1>0, <2>1, <2>4 DEF Kept
  <2>6. QED
    BY <2>2, <2>4, <2>5
<1>9. ASSUME FlipLands \/ DispatchFlip \/ Teardown \/ LoseMaster \/ Resume PROVE KeptNext
  BY <1>a, <1>9 DEF FlipLands, DispatchFlip, Teardown, LoseMaster, Resume, sceneVars,
                    sourceVars, historyVars
<1>10. ASSUME NEW seq \in 1..lastSeq, ReleaseDisplaced(seq) PROVE KeptNext
  <2> DEFINE D == Displaced(seq)
  <2>1. /\ ~removedMidFrame /\ UNCHANGED <<previous, frame>>
        /\ twoAgo' = twoAgo \ D
        /\ out' = {a \in out : a \in D => layers[a.layer] \notin {"live", "retiring"}}
        /\ layers' = [l \in Layers |-> IF layers[l] = "retiring" /\ InFlight \ D = {}
                                       THEN "gone" ELSE layers[l]]
    BY <1>10 DEF ReleaseDisplaced, Deliver, historyVars
  <2>2. D \subseteq twoAgo /\ D \cap previous = {} /\ D \cap Own(frame) = {}
    BY DEF Displaced, HeldOnce, InFlight
  <2>3. InFlight' = InFlight \ D /\ Own(frame)' = Own(frame)
    BY <2>1, <2>2 DEF InFlight, Own
  <2>4. \A a \in D : layers[a.layer] \in {"live", "retiring"}
    BY <2>1, <2>2 DEF Kept, InFlight
  <2>5. out' = Held'
    BY <2>1, <2>2, <2>3, <2>4 DEF Kept, Held
  <2>6. ASSUME NEW a \in InFlight' PROVE layers'[a.layer] \in {"live", "retiring"}
    BY <1>0, <2>1, <2>3 DEF Kept
  <2>7. ASSUME NEW a \in Own(frame)' PROVE layers'[a.layer] = "live"
    BY <1>0, <2>1, <2>3 DEF Kept
  <2>8. QED
    BY <2>5, <2>6, <2>7
<1>11. ASSUME OnSessionPaused PROVE KeptNext
  <2>1. /\ ~removedMidFrame /\ ~HoldsFrame /\ UNCHANGED frame
        /\ previous' = {} /\ twoAgo' = {}
        /\ out' = {a \in out : a \in InFlight => layers[a.layer] \notin {"live", "retiring"}}
    BY <1>11 DEF OnSessionPaused, Deliver
  <2>2. Own(frame)' = {} /\ InFlight' = {}
    BY <1>0, <2>1 DEF Own, InFlight
  <2>3. out' = {}
    BY <1>0, <2>1 DEF Kept, Held
  <2>4. QED
    BY <2>2, <2>3 DEF Held
<1>12. ASSUME NEW S \in SUBSET Layers, OnSessionResumed(S) PROVE KeptNext
  BY <1>a, <1>12 DEF OnSessionResumed, sourceVars, historyVars
<1>13. ASSUME UNCHANGED vars PROVE KeptNext
  BY <1>a, <1>13 DEF vars, sceneVars, sourceVars, historyVars
<1>14. QED
  BY <1>1, <1>2, <1>3, <1>4, <1>5, <1>6, <1>7, <1>8, <1>9, <1>10, <1>11, <1>12,
     <1>13 DEF Next

\* The queue stays in the order of acquisition.
LEMMA OrderedStep ==
  TypeOK /\ Numbers /\ HeldOnce /\ Ordered /\ [Next]_vars => Ordered'
<1> SUFFICES ASSUME TypeOK, Numbers, HeldOnce, Ordered, [Next]_vars PROVE Ordered'
  OBVIOUS
<1> USE DEF Ordered, HoldsFrame, InFlight
<1>0. ASSUME previous' \subseteq previous, twoAgo' \subseteq twoAgo,
             HoldsFrame' => frame'.n = frame.n /\ HoldsFrame
      PROVE Ordered'
  BY <1>0
<1>1. ASSUME NEW l \in Layers, AddLayer(l) \/ RemoveLayer(l) \/ SetDisplay(l) \/ Produce(l)
      PROVE Ordered'
  BY <1>0, <1>1 DEF AddLayer, RemoveLayer, SetDisplay, Produce, sceneVars
<1>2. ASSUME NEW kind \in {"flip", "blocking", "test"}, BuildFrame(kind) PROVE Ordered'
  <2>1. frame'.n = builds + 1 /\ UNCHANGED <<previous, twoAgo>>
    BY <1>2 DEF BuildFrame
  <2>2. \A a \in InFlight : a.frame \in Nat /\ a.frame <= builds
    BY DEF HeldOnce, Held, Numbers, TypeOK, Acquisition
  <2>3. QED
    BY <2>1, <2>2 DEF TypeOK
<1>3. ASSUME NEW S \in SUBSET Layers, NEW usedUp \in SUBSET Layers,
             BuildFrameFails(S, usedUp) \/ OnSessionResumed(S)
      PROVE Ordered'
  BY <1>0, <1>3 DEF BuildFrameFails, OnSessionResumed
<1>4. ASSUME CommitAccepted \/ \E result \in {"ok", "rejected", "not_master"} : CommitAnswered(result)
      PROVE Ordered'
  <2>1. /\ UNCHANGED <<previous, twoAgo>>
        /\ \E result \in Results : frame' = [frame EXCEPT !.result = result]
    BY <1>4 DEF CommitAccepted, CommitAnswered, Results
  <2>2. frame'.n = frame.n /\ frame'.kind = frame.kind
    BY <2>1 DEF TypeOK
  <2>3. QED
    BY <1>0, <2>1, <2>2
<1>5. ASSUME FinalizeFrameOk PROVE Ordered'
  <2>1. HoldsFrame /\ twoAgo' = previous /\ previous' = Own(frame) /\ frame'.kind = "none"
    BY <1>5 DEF FinalizeFrameOk, Rotate, NoFrame
  <2>2. \A a \in previous, b \in Own(frame) : a.frame < b.frame
    BY <2>1 DEF Own
  <2>3. QED
    BY <2>1, <2>2
<1>6. ASSUME FinalizeFrameReturns PROVE Ordered'
  BY <1>0, <1>6 DEF FinalizeFrameReturns, NoFrame
<1>7. ASSUME FlipLands \/ DispatchFlip \/ Teardown \/ LoseMaster \/ Resume PROVE Ordered'
  BY <1>0, <1>7 DEF FlipLands, DispatchFlip, Teardown, LoseMaster, Resume, sceneVars
<1>8. ASSUME NEW seq \in 1..lastSeq, ReleaseDisplaced(seq) PROVE Ordered'
  BY <1>0, <1>8 DEF ReleaseDisplaced
<1>9. ASSUME OnSessionPaused PROVE Ordered'
  BY <1>0, <1>9 DEF OnSessionPaused
<1>10. ASSUME UNCHANGED vars PROVE Ordered'
  BY <1>0, <1>10 DEF vars, sceneVars
<1>11. QED
  BY <1>1, <1>2, <1>3, <1>4, <1>5, <1>6, <1>7, <1>8, <1>9, <1>10 DEF Next

\* Every believed flip keeps an event to clear it, and no more than one.
LEMMA EventsStep ==
  TypeOK /\ Numbers /\ Events /\ [Next]_vars => Events'
<1> SUFFICES ASSUME TypeOK, Numbers, Events, [Next]_vars PROVE Events'
  OBVIOUS
<1> USE DEF TypeOK, Events, Arming, Unfinalized, HoldsFrame
<1>0. ASSUME UNCHANGED <<armed, frame, flip, events, ranAhead, dropped>> PROVE Events'
  BY <1>0
<1>1. ASSUME NEW l \in Layers, AddLayer(l) \/ RemoveLayer(l) \/ SetDisplay(l) \/ Produce(l)
      PROVE Events'
  BY <1>0, <1>1 DEF AddLayer, RemoveLayer, SetDisplay, Produce, sceneVars, kernelVars
<1>2. ASSUME NEW kind \in {"flip", "blocking", "test"}, BuildFrame(kind) PROVE Events'
  BY <1>2 DEF BuildFrame, MayBuild, kernelVars
<1>3. ASSUME NEW S \in SUBSET Layers, NEW usedUp \in SUBSET Layers,
             BuildFrameFails(S, usedUp) \/ OnSessionResumed(S)
      PROVE Events'
  BY <1>0, <1>3 DEF BuildFrameFails, OnSessionResumed, kernelVars, historyVars
<1>4. ASSUME CommitAccepted PROVE Events'
  <2>1. /\ UNCHANGED <<armed, events, dropped, ranAhead>>
        /\ frame' = [frame EXCEPT !.result = "ok"]
        /\ frame.kind # "test" /\ frame.kind # "none" /\ frame.result = "none"
        /\ flip = NoFlip
    BY <1>4 DEF CommitAccepted, historyVars
  <2>2. frame'.kind = frame.kind /\ frame'.result = "ok" /\ ~flip.event
    BY <2>1 DEF NoFlip
  <2>3. CASE frame.kind = "flip"
    <3>1. flip'.event = TRUE /\ ~Unfinalized /\ HoldsFrame
      BY <1>4, <2>1, <2>3 DEF CommitAccepted
    <3>2. QED
      BY <2>1, <2>2, <2>3, <3>1
  <2>4. CASE frame.kind # "flip"
    <3>1. flip' = flip
      BY <1>4, <2>4 DEF CommitAccepted
    <3>2. QED
      BY <2>1, <2>2, <2>4, <3>1
  <2>5. QED
    BY <2>3, <2>4
<1>5. ASSUME NEW result \in {"ok", "rejected", "not_master"}, CommitAnswered(result)
      PROVE Events'
  <2>1. /\ UNCHANGED <<armed, events, dropped, ranAhead, flip>>
        /\ frame' = [frame EXCEPT !.result = result]
        /\ frame.result = "none"
        /\ result = "ok" => frame.kind = "test"
    BY <1>5 DEF CommitAnswered, kernelVars, historyVars
  <2>2. frame'.kind = frame.kind /\ frame'.result = result
    BY <2>1
  <2>3. QED
    BY <2>1, <2>2
<1>6. ASSUME FlipLands PROVE Events'
  <2>1. /\ UNCHANGED <<armed, frame, dropped, ranAhead>>
        /\ events' = IF flip.event THEN events + 1 ELSE events
        /\ ~flip'.event
    BY <1>6 DEF FlipLands, NoFlip, sceneVars, historyVars
  <2>2. CASE flip.event
    BY <2>1, <2>2
  <2>3. CASE ~flip.event
    BY <2>1, <2>3
  <2>4. QED
    BY <2>2, <2>3
<1>7. ASSUME FinalizeFrameOk PROVE Events'
  BY <1>7 DEF FinalizeFrameOk, ArmsFlip, NoFrame, kernelVars, historyVars
<1>8. ASSUME FinalizeFrameReturns PROVE Events'
  BY <1>8 DEF FinalizeFrameReturns, NoFrame, kernelVars, historyVars
<1>9. ASSUME DispatchFlip PROVE Events'
  BY <1>9 DEF DispatchFlip, EventQueued, historyVars
<1>10. ASSUME NEW seq \in 1..lastSeq, ReleaseDisplaced(seq) PROVE Events'
  BY <1>0, <1>10 DEF ReleaseDisplaced, kernelVars, historyVars
<1>11. ASSUME LoseMaster \/ Resume PROVE Events'
  BY <1>0, <1>11 DEF LoseMaster, Resume, sceneVars, historyVars
<1>12. ASSUME OnSessionPaused PROVE Events'
  BY <1>12 DEF OnSessionPaused
<1>13. ASSUME Teardown PROVE Events'
  <2>1. /\ ~dropped /\ ~HoldsFrame /\ dropped'
        /\ UNCHANGED <<frame, flip, events, ranAhead>>
    BY <1>13 DEF Teardown, kernelVars, historyVars
  <2>2. CASE armed' = armed
    BY <2>1, <2>2
  <2>3. CASE SeenLanded /\ ~armed'
    BY <2>1, <2>3 DEF SeenLanded, NoFlip
  <2>4. QED
    BY <1>13, <2>2, <2>3 DEF Teardown
<1>14. ASSUME UNCHANGED vars PROVE Events'
  BY <1>0, <1>14 DEF vars, sceneVars, kernelVars, historyVars
<1>15. QED
  BY <1>1, <1>2, <1>3, <1>4, <1>5, <1>6, <1>7, <1>8, <1>9, <1>10, <1>11, <1>12,
     <1>13, <1>14 DEF Next

\* content_changed goes on seeing what changed since the newest frame.
LEMMA ChangesStep ==
  TypeOK /\ Numbers /\ Changes /\ [Next]_vars => Changes'
<1> SUFFICES ASSUME TypeOK, Numbers, Changes, [Next]_vars PROVE Changes'
  OBVIOUS
<1> USE DEF TypeOK, Changes, HoldsFrame, InFlight, ContentChanged, Live
<1>0. ASSUME UNCHANGED <<builds, changedAt, topologyDirty, dirty, fresh, removedMidFrame>>,
             committedOnce' => committedOnce,
             \A l \in Layers : layers[l] = "live" => layers'[l] = "live",
             HoldsFrame \/ InFlight # {} \/ ~(HoldsFrame \/ InFlight # {})'
      PROVE Changes'
  BY <1>0
<1>1. ASSUME NEW l \in Layers, AddLayer(l) PROVE Changes'
  BY <1>1 DEF AddLayer
<1>2. ASSUME NEW l \in Layers, RemoveLayer(l) PROVE Changes'
  BY <1>2 DEF RemoveLayer
<1>3. ASSUME NEW l \in Layers, SetDisplay(l) \/ Produce(l) PROVE Changes'
  BY <1>3 DEF SetDisplay, Produce, sceneVars
<1>4. ASSUME NEW kind \in {"flip", "blocking", "test"}, BuildFrame(kind) PROVE Changes'
  BY <1>4 DEF BuildFrame, AcquireFrom
<1>5. ASSUME NEW S \in SUBSET Layers, NEW usedUp \in SUBSET Layers, BuildFrameFails(S, usedUp)
      PROVE Changes'
  BY <1>5 DEF BuildFrameFails, AcquireFrom, historyVars
<1>6. ASSUME CommitAccepted \/ \E result \in {"ok", "rejected", "not_master"} : CommitAnswered(result)
      PROVE Changes'
  BY <1>0, <1>6 DEF CommitAccepted, CommitAnswered, sourceVars, historyVars
<1>7. ASSUME FinalizeFrameOk \/ FinalizeFrameReturns PROVE Changes'
  <2>1. /\ UNCHANGED <<builds, changedAt, topologyDirty, committedOnce, dirty, fresh, removedMidFrame>>
        /\ HoldsFrame
    BY <1>7 DEF FinalizeFrameOk, FinalizeFrameReturns, historyVars
  <2>2. \A l \in Layers : layers[l] = "live" => layers'[l] = "live"
    BY <1>7 DEF FinalizeFrameOk, FinalizeFrameReturns, Rotate, Deliver
  <2>3. QED
    BY <1>0, <2>1, <2>2
<1>8. ASSUME FlipLands \/ DispatchFlip \/ Teardown \/ LoseMaster \/ Resume PROVE Changes'
  BY <1>0, <1>8 DEF FlipLands, DispatchFlip, Teardown, LoseMaster, Resume, sceneVars,
                    sourceVars, historyVars
<1>9. ASSUME NEW seq \in 1..lastSeq, ReleaseDisplaced(seq) PROVE Changes'
  BY <1>0, <1>9 DEF ReleaseDisplaced, Deliver, historyVars
<1>10. ASSUME OnSessionPaused PROVE Changes'
  <2>1. /\ UNCHANGED <<builds, changedAt, frame>> /\ ~HoldsFrame
        /\ previous' = {} /\ twoAgo' = {}
    BY <1>10 DEF OnSessionPaused
  <2>2. QED
    BY <2>1
<1>11. ASSUME NEW S \in SUBSET Layers, OnSessionResumed(S) PROVE Changes'
  BY <1>11 DEF OnSessionResumed, historyVars
<1>12. ASSUME UNCHANGED vars PROVE Changes'
  BY <1>0, <1>12 DEF vars, sceneVars, sourceVars, historyVars
<1>13. QED
  BY <1>1, <1>2, <1>3, <1>4, <1>5, <1>6, <1>7, <1>8, <1>9, <1>10, <1>11, <1>12 DEF Next

-----------------------------------------------------------------------------
(* The theorems.                                                           *)

\* The inductive invariant holds initially.
LEMMA InvariantInit == Init => IInv
<1> SUFFICES ASSUME Init PROVE IInv
  OBVIOUS
<1>1. TypeOK
  BY TypeInit
<1>2. /\ frame.kind = "none" /\ frame.shows = {} /\ screen.n = 0 /\ screen.shows = {}
      /\ flip.n = 0 /\ flip.shows = {} /\ flip = NoFlip /\ frame = NoFrame
      /\ \A l \in Layers : lastFb[l] = 0
  BY DEF Init, NoFrame, NoFlip, Dark
<1>3. Numbers /\ Sequences
  BY <1>1, <1>2 DEF Init, Numbers, Sequences, Unfinalized, HoldsFrame
<1>4. HeldOnce /\ Ring
  BY <1>2 DEF Init, HeldOnce, Held, InFlight, Own, Ring, Keeps, Unfinalized
<1>5. Reattachment
  BY <1>2 DEF Reattachment, HoldsFrame, Fresh
<1>6. Kept /\ Ordered
  BY <1>2 DEF Init, Kept, Ordered, Held, InFlight, Own, HoldsFrame
<1>7. Events /\ Changes
  BY <1>2 DEF Init, Events, Arming, Unfinalized, Changes, ContentChanged, NoFlip, HoldsFrame
<1>8. QED
  BY <1>1, <1>3, <1>4, <1>5, <1>6, <1>7 DEF IInv

\* Every step keeps it.
LEMMA InvariantStep == IInv /\ [Next]_vars => IInv'
  BY TypeStep, NumbersStep, SequencesStep, HeldOnceStep, RingStep, ReattachmentStep,
     KeptStep, OrderedStep, EventsStep, ChangesStep
     DEF IInv

\* IInv holds of every reachable state.
THEOREM Invariance == Spec => []IInv
  BY InvariantInit, InvariantStep, PTL DEF Spec

\* A buffer sits in one place and goes back once, whatever the caller, the
\* kernel and the session do, in scenes of any size.
THEOREM BuffersHeldOnce == Spec => []HeldOnce
<1>1. IInv => HeldOnce
  BY DEF IInv
<1>2. QED
  BY Invariance, <1>1, PTL

\* Invariant 1 of the repository: nothing the display engine reads, or is
\* about to, has gone back to its source.
THEOREM ScanoutNeverReleased == Spec => []ScanoutHeld
<1>1. ASSUME IInv PROVE ScanoutHeld
  <2> USE <1>1 DEF IInv
  <2>1. ASSUME NEW a \in screen.shows, screen.n > drainedTo, a.frame = screen.n
        PROVE a \in out
    BY <2>1 DEF Ring, Keeps, HeldOnce, Held, InFlight
  <2>2. ASSUME NEW a \in flip.shows, flip.n > drainedTo, a.frame = flip.n
        PROVE a \in out
    <3>1. flip # NoFlip
      BY <2>2 DEF NoFlip
    <3>2. QED
      BY <2>2, <3>1 DEF Ring, Keeps, HeldOnce, Held, InFlight
  <2>3. /\ \A a \in screen.shows : Steady(a.layer) => a.frame = screen.n
        /\ \A a \in flip.shows : Steady(a.layer) => a.frame = flip.n
    BY DEF Reattachment, Fresh
  <2>4. ASSUME NEW f \in {[n |-> screen.n, shows |-> screen.shows],
                          [n |-> flip.n, shows |-> flip.shows]},
               f.n > drainedTo, NEW a \in f.shows,
               a.frame = f.n \/ Steady(a.layer)
        PROVE a \in out
    <3>1. CASE f = [n |-> screen.n, shows |-> screen.shows]
      BY <2>1, <2>3, <2>4, <3>1
    <3>2. CASE f = [n |-> flip.n, shows |-> flip.shows]
      BY <2>2, <2>3, <2>4, <3>2
    <3>3. QED
      BY <2>4, <3>1, <3>2
  <2>5. QED
    BY <2>4 DEF ScanoutHeld, Steady
<1>2. QED
  BY Invariance, <1>1, PTL

\* No buffer is leaked: what a source has handed out and not got back, the
\* scene holds, as long as no layer is removed under a held frame.
THEOREM NothingIsStranded == Spec => []NothingStranded
<1>1. IInv => NothingStranded
  BY DEF IInv, Kept, NothingStranded
<1>2. QED
  BY Invariance, <1>1, PTL

\* remove_layer keeps a source that a buffer in flight must go back to.
THEOREM SourcesAwaitBuffers == Spec => []SourcesOutliveBuffers
<1>1. IInv => SourcesOutliveBuffers
  BY DEF IInv, Kept, SourcesOutliveBuffers
<1>2. QED
  BY Invariance, <1>1, PTL

\* The tripwire can always be cleared, and a teardown that leaves a flip in
\* flight leaves it set.
THEOREM TripwireIsTrue == Spec => []TripwireTrue
<1>1. IInv => TripwireTrue
  BY DEF IInv, TypeOK, Events, TripwireTrue, ArmedIsAnswerable, TeardownWarns
<1>2. QED
  BY Invariance, <1>1, PTL

\* Skipping a frame content_changed calls unchanged loses no change.
THEOREM SkippingIsSound == Spec => []SkipSound
<1>1. IInv => SkipSound
  BY DEF IInv, TypeOK, Changes, SkipSound
<1>2. QED
  BY Invariance, <1>1, PTL

\* Buffers go back to their source in the order it handed them out.
THEOREM ReturnsOldestFirst == Spec => OldestFirst
<1> DEFINE InOrder == \A a, b \in InFlight :
                        a.layer = b.layer /\ a.frame < b.frame /\ b \notin out' => a \notin out'
<1>1. ASSUME IInv, [Next]_vars PROVE InOrder
  <2> USE <1>1 DEF IInv
  <2>1. SUFFICES ASSUME NEW a \in InFlight, NEW b \in InFlight, a.layer = b.layer,
                        a.frame < b.frame, b \notin out', a \in out'
                 PROVE FALSE
    OBVIOUS
  <2>2. a \in out /\ b \in out
    BY DEF HeldOnce, Held
  <2>3. a.frame \in Nat /\ b.frame \in Nat
    BY <2>2 DEF TypeOK, Acquisition
  <2>4. ASSUME NEW acqs, NEW inFlight, Deliver(acqs, inFlight) PROVE b \in acqs /\ a \notin acqs
    BY <2>1, <2>2, <2>4 DEF Deliver
  <2>5. CASE FinalizeFrameOk
    <3>1. b \in twoAgo /\ a \notin twoAgo
      BY <2>4, <2>5 DEF FinalizeFrameOk, Rotate
    <3>2. a \in previous
      BY <3>1 DEF InFlight
    <3>3. QED
      BY <2>1, <2>3, <3>1, <3>2 DEF Ordered
  <2>6. CASE FinalizeFrameReturns
    BY <2>4, <2>6 DEF FinalizeFrameReturns, HeldOnce
  <2>7. ASSUME NEW seq \in 1..lastSeq, ReleaseDisplaced(seq) PROVE FALSE
    <3>1. b \in Displaced(seq) /\ a \notin Displaced(seq)
      BY <2>4, <2>7 DEF ReleaseDisplaced
    <3>2. b \in twoAgo /\ a \in previous
      BY <3>1 DEF Displaced, InFlight
    <3>3. QED
      BY <2>1, <2>3, <3>2 DEF Ordered
  <2>8. CASE OnSessionPaused
    BY <2>4, <2>8 DEF OnSessionPaused
  <2>9. ASSUME NEW kind \in {"flip", "blocking", "test"}, BuildFrame(kind) PROVE FALSE
    BY <2>1, <2>2, <2>9 DEF BuildFrame
  <2>10. ASSUME NEW l \in Layers, AddLayer(l) \/ RemoveLayer(l) \/ SetDisplay(l) \/ Produce(l)
         PROVE FALSE
    BY <2>1, <2>2, <2>10 DEF AddLayer, RemoveLayer, SetDisplay, Produce, sourceVars
  <2>11. ASSUME NEW S \in SUBSET Layers, NEW usedUp \in SUBSET Layers,
                BuildFrameFails(S, usedUp) \/ OnSessionResumed(S)
         PROVE FALSE
    BY <2>1, <2>2, <2>11 DEF BuildFrameFails, OnSessionResumed, sourceVars
  <2>12. CASE \/ CommitAccepted \/ FlipLands \/ DispatchFlip \/ LoseMaster \/ Resume \/ Teardown
              \/ \E result \in {"ok", "rejected", "not_master"} : CommitAnswered(result)
    BY <2>1, <2>2, <2>12 DEF CommitAccepted, CommitAnswered, FlipLands, DispatchFlip,
                             LoseMaster, Resume, Teardown, sourceVars
  <2>13. CASE UNCHANGED vars
    BY <2>1, <2>2, <2>13 DEF vars, sourceVars
  <2>14. QED
    BY <1>1, <2>5, <2>6, <2>7, <2>8, <2>9, <2>10, <2>11, <2>12, <2>13 DEF Next
<1>2. IInv /\ [Next]_vars => [InOrder]_vars
  BY <1>1
<1>3. QED
  BY Invariance, <1>2, PTL DEF Spec, OldestFirst

=============================================================================
