------------------------- MODULE ExternalDmaBufRing -------------------------
(***************************************************************************)
(* The ring over a producer's DMA-BUFs: RingPresenter decides, the ring    *)
(* turns a slot into its framebuffer and a release into on_release.        *)
(*                                                                         *)
(* The producer is external.  It renders into slots it owns, submits them, *)
(* and owns a slot again when on_release hands it back, when its submit is *)
(* replaced by a later one before anyone acquired it, when its frame is    *)
(* dropped, and after a session pause, which forgets everything.  The      *)
(* fence on_release may carry is the out-fence of the commit that took the *)
(* buffer's acquisition off screen; at the release that commit's flip has  *)
(* landed, so the fence has signalled and is left out.                     *)
(***************************************************************************)
EXTENDS RingPresenter

VARIABLES
  imported,   \* whether the slots have framebuffers
  owned       \* slots the producer may render into

ringVars == <<presenterVars, imported, owned>>

\* The pending slot, which goes back to the producer if it is replaced or
\* dropped.
Pending == {pending.key} \ {NoSlot}

RingSubmit(slot, fence, damage) ==
  /\ slot \in owned
  /\ Submit(slot, fence, damage)
  /\ owned' = (owned \ {slot}) \cup Pending
  /\ UNCHANGED imported

\* acquire answers with a framebuffer, under scanningToken'.
RingAcquires ==
  /\ imported
  /\ \/ AcquireFresh /\ UNCHANGED owned
     \/ AcquireMissed /\ scanningKey # NoSlot /\ owned' = owned \cup Pending
     \/ AcquireIdle /\ scanningKey # NoSlot /\ UNCHANGED owned
  /\ UNCHANGED imported

\* acquire answers Failed: the presenter has advanced to a slot that lost its
\* framebuffer.
RingFails ==
  /\ ~imported
  /\ AcquireFresh
  /\ UNCHANGED <<imported, owned>>

\* acquire answers WouldBlock.
RingStarves ==
  /\ \/ AcquireMissed /\ owned' = owned \cup Pending
     \/ AcquireIdle /\ UNCHANGED owned
  /\ scanningKey = NoSlot \/ ~imported
  /\ UNCHANGED imported

\* release of acquisitions that carried these tokens, and the on_release
\* calls that follow.
RingReleases(tokens) ==
  /\ Release(tokens)
  /\ owned' = owned \cup {o.key : o \in Fired(tokens)}
  /\ UNCHANGED imported

RingRetired == RetireScanning /\ UNCHANGED <<imported, owned>>

\* on_session_paused, which the scene calls once everything was released.
RingPaused ==
  /\ Reset
  /\ imported' = FALSE
  /\ owned' = Slots

\* on_session_resumed: every slot is imported again, or none.
RingResumes(ok) ==
  /\ imported' = ok
  /\ UNCHANGED <<presenterVars, owned>>

RingInit ==
  /\ PresenterInit
  /\ imported = TRUE
  /\ owned = Slots

-----------------------------------------------------------------------------
(* Properties.                                                             *)

\* No slot has two of owner, submission and token: it cannot be rendered into
\* while it is pending or in flight, nor come back twice.
SlotsApart ==
  /\ pending.key \notin owned
  /\ \A o \in outstanding : o.key \notin owned \cup {pending.key}
  /\ \A o, p \in outstanding : o.key = p.key => o = p

=============================================================================
