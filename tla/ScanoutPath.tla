----------------------------- MODULE ScanoutPath -----------------------------
(***************************************************************************)
(* What drmkit-present's two ways to the screen have in common: one call   *)
(* of present() builds a frame, commits it and reconciles the scene, the   *)
(* first commit the kernel takes carries the mode, and every error of a    *)
(* commit is finalized as a rejection.  The caller dispatches the flip's   *)
(* event between two calls.                                                *)
(***************************************************************************)
EXTENDS LayerScene

CONSTANT MaxFailures   \* bound: how many calls may fail

VARIABLES
  calling,       \* "none", or inside present() before the frame is built
  needsModeset,  \* no commit has set the mode yet
  crtcMode,      \* the kernel's: off, ours or other
  failures,      \* history: calls that failed after they began a frame
  switched       \* history: another master has had the device

pathVars == <<calling, needsModeset, crtcMode, failures, switched>>

MayCall == ~dropped /\ ~HoldsFrame /\ calling = "none" /\ builds < MaxFrames

FailsOnce == failures < MaxFailures /\ failures' = failures + 1

\* Modeset::learn fails, before anything is built.
LearnFails ==
  /\ calling = "present" /\ needsModeset
  /\ calling' = "none" /\ FailsOnce
  /\ UNCHANGED <<vars, needsModeset, crtcMode, switched>>

PathBuilds(kind) ==
  /\ calling = "present" /\ calling' = "none"
  /\ BuildFrame(kind)
  /\ UNCHANGED <<needsModeset, crtcMode, failures, switched>>

\* A test finds the master lost; what was acquired goes back.
PathBuildFails ==
  /\ calling = "present" /\ calling' = "none"
  /\ session # "active"
  /\ BuildFrameFails(Ready, {})
  /\ FailsOnce
  /\ UNCHANGED <<needsModeset, crtcMode, switched>>

\* External: a dark CRTC shows nothing until a commit sets its mode.
PathAccepted ==
  /\ CommitAccepted
  /\ needsModeset \/ crtcMode # "off"
  /\ crtcMode' = IF needsModeset THEN "ours" ELSE crtcMode
  /\ needsModeset' = FALSE
  /\ UNCHANGED <<calling, failures, switched>>

\* Whatever the error is, the loss of the master too.
PathRefused ==
  /\ HoldsFrame /\ frame.result = "none"
  /\ frame' = [frame EXCEPT !.result = "rejected"]
  /\ FailsOnce
  /\ UNCHANGED <<layers, lastFb, builds, previous, twoAgo, lastSeq, armed,
                 suspended, topologyDirty, committedOnce, dirty, sourceVars,
                 kernelVars, dropped, historyVars, calling, needsModeset,
                 crtcMode, switched>>

\* Another master has the device for a while (once: a bound), as the scene is
\* told or not.
PathSwitches ==
  /\ calling = "none"
  /\ \/ ~switched /\ LoseMaster /\ UNCHANGED <<crtcMode, switched>>
     \/ /\ Resume \/ OnSessionResumed(Live)
        /\ IF session' = "active"
             THEN crtcMode' \in {"off", "ours", "other"} /\ switched' = TRUE
             ELSE UNCHANGED <<crtcMode, switched>>
  /\ UNCHANGED <<calling, needsModeset, failures>>

\* The kernel's flip, and the caller's dispatch of its event.
PathFlips ==
  /\ FlipLands \/ (calling = "none" /\ DispatchFlip)
  /\ UNCHANGED pathVars

PathInit ==
  /\ Init
  /\ calling = "none" /\ needsModeset = TRUE
  /\ crtcMode \in {"off", "other"}
  /\ failures = 0 /\ switched = FALSE

=============================================================================
