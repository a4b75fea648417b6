--------------------------- MODULE ScanoutBackend ---------------------------
(***************************************************************************)
(* ScanoutBackend: a LayerScene with one layer over a producer's buffer,   *)
(* presented always or only when something changed, with variable refresh  *)
(* and the CRTC put back at the end as it was found.                       *)
(***************************************************************************)
EXTENDS ScanoutPath

CONSTANTS BackendLayer,  \* the layer the producer's buffer is presented on
          Restores       \* RestorePolicy::SavedCrtc

ASSUME BackendAssumption == BackendLayer \in Layers \ Starving /\ Restores \in BOOLEAN

VARIABLES
  economy,
  vrrWanted, vrrArmed,  \* what the caller asked for last, what was written
  crtcVrr,              \* the kernel's
  savedMode,            \* the CRTC's mode when the backend was created
  forced,               \* history: a forced frame has not been shown yet
  skipped               \* history: the last call suppressed an idle frame

backendVars == <<economy, vrrWanted, vrrArmed, crtcVrr, savedMode, forced, skipped>>

-----------------------------------------------------------------------------
(* FrameEconomy: a frame is skipped, committed in full or with its damage. *)

NewEconomy == [first |-> TRUE, forceFull |-> FALSE]

\* An unchanged frame is skipped before anything is forced.
DecideIdleFirst(now, contentChanged, damageAvailable) ==
  IF ~contentChanged /\ ~now.first THEN [action |-> "Skip", economy |-> now]
  ELSE [action |-> "CommitFull", economy |-> [first |-> FALSE, forceFull |-> FALSE]]

\* The first decision, and the one after force_full, commit in full; the
\* force is used up by the decision.
Decide(now, contentChanged, damageAvailable) ==
  IF now.first \/ now.forceFull
    THEN [action |-> "CommitFull", economy |-> [first |-> FALSE, forceFull |-> FALSE]]
  ELSE [action |-> IF ~contentChanged THEN "Skip"
                   ELSE IF damageAvailable THEN "CommitDamaged" ELSE "CommitFull",
        economy |-> now]

ForceFull(now) == [now EXCEPT !.forceFull = TRUE]

-----------------------------------------------------------------------------
(* The backend.                                                            *)

\* present: an unconditional frame, counted as a forced one.
BackendPresents ==
  /\ MayCall /\ layers[BackendLayer] = "live"
  /\ economy' = Decide(ForceFull(economy), TRUE, FALSE).economy
  /\ calling' = "present" /\ skipped' = FALSE
  /\ UNCHANGED <<vars, needsModeset, crtcMode, failures, switched, vrrWanted,
                 vrrArmed, crtcVrr, savedMode, forced>>

\* present_if_changed, asked with what the scene says of its content.
BackendPresentsIfChanged ==
  LET decision == Decide(economy, ContentChanged, FALSE)
  IN /\ MayCall /\ layers[BackendLayer] = "live"
     /\ economy' = decision.economy
     /\ skipped' = (decision.action = "Skip")
     /\ calling' = IF decision.action = "Skip" THEN "none" ELSE "present"
     /\ UNCHANGED <<vars, needsModeset, crtcMode, failures, switched, vrrWanted,
                    vrrArmed, crtcVrr, savedMode, forced>>

BackendForcesFull ==
  /\ MayCall
  /\ economy' = ForceFull(economy)
  /\ forced' = TRUE /\ skipped' = FALSE
  /\ UNCHANGED <<vars, pathVars, vrrWanted, vrrArmed, crtcVrr, savedMode>>

BackendSetsVrr(enable) ==
  /\ MayCall /\ enable # vrrWanted
  /\ vrrWanted' = enable /\ skipped' = FALSE
  /\ UNCHANGED <<vars, pathVars, economy, vrrArmed, crtcVrr, savedMode, forced>>

AllowModeset == needsModeset \/ vrrWanted # vrrArmed

\* External: a change of VRR_ENABLED is a mode change.
BackendAccepted ==
  /\ PathAccepted
  /\ crtcVrr = vrrWanted \/ AllowModeset
  /\ crtcVrr' = vrrWanted /\ vrrArmed' = vrrWanted
  /\ forced' = FALSE
  /\ UNCHANGED <<economy, vrrWanted, savedMode, skipped>>

\* The flag follows what was asked for, taken or not.
BackendRefusedArmed ==
  /\ PathRefused
  /\ vrrArmed' = vrrWanted
  /\ UNCHANGED <<economy, vrrWanted, crtcVrr, savedMode, forced, skipped>>

BackendRefused == PathRefused /\ UNCHANGED backendVars

BackendSwitches ==
  /\ PathSwitches
  /\ IF switched' THEN crtcVrr' \in BOOLEAN ELSE UNCHANGED crtcVrr
  /\ skipped' = FALSE
  /\ UNCHANGED <<economy, vrrWanted, vrrArmed, savedMode, forced>>

\* The scene is dropped first, then the CRTC is put back by a legacy modeset.
BackendDrops ==
  /\ calling = "none"
  /\ Teardown
  /\ crtcMode' = IF Restores /\ session = "active" THEN savedMode ELSE crtcMode
  /\ UNCHANGED <<calling, needsModeset, failures, switched, backendVars>>

BackendElsewhere ==
  /\ \/ LearnFails
     \/ \E kind \in {"flip", "blocking"} : PathBuilds(kind)
     \/ PathBuildFails
     \/ PathFlips
     \/ (FinalizeFrameOk \/ FinalizeFrameReturns) /\ UNCHANGED pathVars
     \/ calling = "none" /\ ~switched /\ OnSessionPaused /\ UNCHANGED pathVars
     \/ calling = "none" /\ Produce(BackendLayer) /\ UNCHANGED pathVars
  /\ skipped' = FALSE
  /\ UNCHANGED <<economy, vrrWanted, vrrArmed, crtcVrr, savedMode, forced>>

BackendNext ==
  \/ BackendPresents
  \/ BackendPresentsIfChanged
  \/ BackendForcesFull
  \/ \E enable \in BOOLEAN : BackendSetsVrr(enable)
  \/ BackendAccepted
  \/ BackendRefused
  \/ BackendSwitches
  \/ BackendDrops
  \/ BackendElsewhere

-----------------------------------------------------------------------------
(* Properties.                                                             *)

\* A frame is shown in the mode the path was created for, and variable refresh
\* is what the last frame shown asked for; a frame whose commit changes it is
\* allowed to, however many were refused before.  Not after another master had
\* the device: nothing then asks for the mode again.
FramesCarryTheirMode ==
  ~switched =>
    /\ Target.n > 0 /\ ~dropped => crtcMode = "ours"
    /\ crtcVrr = vrrArmed
    /\ HoldsFrame /\ frame.result = "none" /\ crtcVrr # vrrWanted => AllowModeset

\* "The first frame always commits": a frame is suppressed only when one is on
\* screen, or about to be, and no forced one is owed, as long as every frame
\* committed was taken.
SkipsOnlyTheShown ==
  skipped /\ failures = 0 /\ ~switched /\ session = "active" =>
    Target.n > 0 /\ ~forced

=============================================================================
