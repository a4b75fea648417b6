----------------------------- MODULE PartsProofs -----------------------------
(***************************************************************************)
(* What the parts promise, for every value of their constants.  A step of  *)
(* Parts is a step of one part and a stutter of each other one, so each    *)
(* part is proved about by itself: an invariant of its own, that its own   *)
(* actions keep.                                                           *)
(***************************************************************************)
EXTENDS Parts, RingProofs, PartInvariants

\* One part moves and each other part stutters.
LEMMA PartsMove ==
  [PartsNext]_partsVars =>
    /\ [ClientNext]_clientVars /\ [HdrNext]_hdrVars /\ [ColorNext]_colorVars
    /\ [StickyNext]_stickyVars /\ [ContentsNext]_contentsVars /\ [SceneSetNext]_sceneSetVars
    /\ [OverlayNext]_overlayVars /\ [DeskNext]_deskVars /\ [AnimNext]_animVars
    /\ [CursorNext]_cursorVars /\ [DiscoveryNext]_discoveryVars /\ [CaptureNext]_captureVars
    /\ [KeysNext]_keysVars /\ [CanvasNext]_canvasVars
<1> SUFFICES ASSUME [PartsNext]_partsVars
             PROVE  /\ [ClientNext]_clientVars /\ [HdrNext]_hdrVars /\ [ColorNext]_colorVars
                    /\ [StickyNext]_stickyVars /\ [ContentsNext]_contentsVars
                    /\ [SceneSetNext]_sceneSetVars /\ [OverlayNext]_overlayVars
                    /\ [DeskNext]_deskVars /\ [AnimNext]_animVars
                    /\ [CursorNext]_cursorVars /\ [DiscoveryNext]_discoveryVars /\ [CaptureNext]_captureVars
                    /\ [KeysNext]_keysVars /\ [CanvasNext]_canvasVars
  OBVIOUS
<1>1. [ClientNext]_clientVars
  BY DEF PartsNext, Alone, partsVars
<1>2. [HdrNext]_hdrVars
  BY DEF PartsNext, Alone, partsVars
<1>3. [ColorNext]_colorVars
  BY DEF PartsNext, Alone, partsVars
<1>4. [StickyNext]_stickyVars
  BY DEF PartsNext, Alone, partsVars
<1>5. [ContentsNext]_contentsVars
  BY DEF PartsNext, Alone, partsVars
<1>6. [SceneSetNext]_sceneSetVars
  BY DEF PartsNext, Alone, partsVars
<1>7. [OverlayNext]_overlayVars
  BY DEF PartsNext, Alone, partsVars
<1>8. [DeskNext]_deskVars
  BY DEF PartsNext, Alone, partsVars
<1>9. [AnimNext]_animVars
  BY DEF PartsNext, Alone, partsVars
<1>10. [CursorNext]_cursorVars
  BY DEF PartsNext, Alone, partsVars
<1>11. [DiscoveryNext]_discoveryVars
  BY DEF PartsNext, Alone, partsVars
<1>12. [CaptureNext]_captureVars
  BY DEF PartsNext, Alone, partsVars
<1>13. [KeysNext]_keysVars
  BY DEF PartsNext, Alone, partsVars
<1>14. [CanvasNext]_canvasVars
  BY DEF PartsNext, Alone, partsVars
<1>15. QED
  BY <1>1, <1>2, <1>3, <1>4, <1>5, <1>6, <1>7, <1>8, <1>9, <1>10, <1>11, <1>12, <1>13, <1>14

-----------------------------------------------------------------------------
(* The ring's client.                                                      *)

\* The scene has out what the ring has on screen, last, until it retires it.
NewestIsOut ==
  IF retired THEN scanningToken = 0
  ELSE scanningToken # 0 => lent # <<>> /\ lent[Len(lent)] = scanningToken

\* A slot in flight is on screen or out, under its token.
SlotsOut ==
  \A o \in outstanding : o.token = scanningToken \/ \E i \in DOMAIN lent : lent[i] = o.token

ClientInv ==
  /\ RingInv
  /\ lent \in Seq(Nat) /\ retired \in BOOLEAN
  /\ NewestIsOut
  /\ SlotsOut

\* The client does to the ring what a caller of the ring may.
LEMMA ClientCalls == ClientInv /\ [ClientNext]_clientVars => [RingCall]_ringVars
<1> SUFFICES ASSUME ClientInv, [ClientNext]_clientVars PROVE [RingCall]_ringVars
  OBVIOUS
<1>1. Damages \subseteq Seq(Regions)
  BY PresenterAssumption DEF Damages
<1>2. ASSUME ClientReleases PROVE RingCall
  <2>1. Head(lent) \in Nat
    BY <1>2 DEF ClientReleases, ClientInv
  <2>2. {Head(lent)} \in SUBSET Nat
    BY <2>1
  <2>3. QED
    BY <1>2, <2>2 DEF ClientReleases, RingCall
<1>3. CASE UNCHANGED clientVars
  BY <1>3 DEF clientVars
<1>4. CASE ClientNext
  BY <1>1, <1>2, <1>4
     DEF ClientNext, ClientSubmits, ClientAcquires, ClientGetsNothing, ClientRetires,
         ClientPauses, ClientResumes, RingCall
<1>5. QED
  BY <1>3, <1>4

\* Every step of the client keeps the ring's invariant and its own.
LEMMA ClientStep == ClientInv /\ [ClientNext]_clientVars => ClientInv'
<1> SUFFICES ASSUME ClientInv, [ClientNext]_clientVars PROVE ClientInv'
  OBVIOUS
<1>1. RingInv'
  BY ClientCalls, RingInvStep DEF ClientInv
<1>2. /\ lent \in Seq(Nat) /\ retired \in BOOLEAN /\ NewestIsOut /\ SlotsOut
      /\ scanningToken \in Nat /\ scanningToken' \in Nat
      /\ \A o \in outstanding : o.token \in Nat \ {0}
  BY <1>1 DEF ClientInv, RingInv, RingTypeOK
<1> DEFINE Rest == lent' \in Seq(Nat) /\ retired' \in BOOLEAN /\ NewestIsOut' /\ SlotsOut'
<1>a. ASSUME UNCHANGED <<lent, retired, scanningToken, outstanding>> PROVE Rest
  BY <1>2, <1>a DEF NewestIsOut, SlotsOut
<1>3. ASSUME NEW slot \in Slots, NEW fence \in BOOLEAN, NEW damage \in Damages,
             ClientSubmits(slot, fence, damage)
      PROVE Rest
  BY <1>a, <1>3 DEF ClientSubmits, RingSubmit, Submit
<1>4. ASSUME ClientAcquires PROVE Rest
  <2>1. /\ lent' = Append(lent, scanningToken') /\ ~retired /\ UNCHANGED retired
        /\ \/ UNCHANGED <<scanningToken, outstanding>>
           \/ outstanding' = outstanding \cup {[token |-> scanningToken', key |-> pending.key]}
    BY <1>4 DEF ClientAcquires, RingAcquires, AcquireFresh, AcquireMissed, AcquireIdle,
                presenterVars
  <2>2. /\ lent' \in Seq(Nat) /\ Len(lent') = Len(lent) + 1
        /\ lent'[Len(lent) + 1] = scanningToken'
        /\ \A i \in DOMAIN lent : i \in DOMAIN lent' /\ lent'[i] = lent[i]
    BY <1>2, <2>1
  <2>3. NewestIsOut'
    BY <2>1, <2>2 DEF NewestIsOut
  <2>4. SlotsOut'
    <3>1. SUFFICES ASSUME NEW o \in outstanding'
                   PROVE o.token = scanningToken' \/ \E i \in DOMAIN lent' : lent'[i] = o.token
      BY DEF SlotsOut
    <3>2. CASE o \in outstanding
      <4>1. \E i \in DOMAIN lent : lent[i] = o.token
        BY <1>2, <2>1, <3>2 DEF SlotsOut, NewestIsOut
      <4>2. QED
        BY <2>2, <4>1
    <3>3. CASE o \notin outstanding
      BY <2>1, <3>3
    <3>4. QED
      BY <3>2, <3>3
  <2>5. QED
    BY <1>2, <2>1, <2>2, <2>3, <2>4
<1>5. ASSUME ClientGetsNothing PROVE Rest
  BY <1>a, <1>5 DEF ClientGetsNothing, RingStarves, AcquireMissed, AcquireIdle, presenterVars
<1>6. ASSUME ClientReleases PROVE Rest
  <2>1. /\ lent' = Tail(lent) /\ UNCHANGED <<retired, scanningToken>>
        /\ Len(lent) >= 1 /\ (~retired => Len(lent) >= 2)
        /\ outstanding' = outstanding \ {o \in outstanding :
                                           o.token \in {Head(lent)} \ {0, scanningToken}}
    BY <1>2, <1>6 DEF ClientReleases, RingReleases, Release, Fired
  <2>2. /\ lent' \in Seq(Nat) /\ Len(lent') = Len(lent) - 1
        /\ \A i \in 1..Len(lent) - 1 : lent'[i] = lent[i + 1]
        /\ Head(lent) = lent[1]
    BY <1>2, <2>1
  <2>3. NewestIsOut'
    <3>1. ASSUME ~retired PROVE lent' # <<>> /\ lent'[Len(lent')] = lent[Len(lent)]
      <4>1. Len(lent) - 1 \in 1..Len(lent) - 1 /\ Len(lent') = Len(lent) - 1
        BY <1>2, <2>1, <2>2, <3>1
      <4>2. QED
        BY <1>2, <2>2, <4>1
    <3>2. QED
      BY <1>2, <2>1, <3>1 DEF NewestIsOut
  <2>4. SlotsOut'
    <3>1. SUFFICES ASSUME NEW o \in outstanding', o.token # scanningToken
                   PROVE \E i \in DOMAIN lent' : lent'[i] = o.token
      BY <2>1 DEF SlotsOut
    <3>2. o \in outstanding /\ o.token # lent[1]
      BY <1>2, <2>1, <2>2, <3>1
    <3>3. PICK i \in DOMAIN lent : lent[i] = o.token
      BY <1>2, <3>1, <3>2 DEF SlotsOut
    <3>4. i - 1 \in DOMAIN lent' /\ lent'[i - 1] = o.token
      BY <1>2, <2>2, <3>2, <3>3
    <3>5. QED
      BY <3>4
  <2>5. QED
    BY <1>2, <2>1, <2>2, <2>3, <2>4
<1>7. ASSUME ClientRetires PROVE Rest
  <2>1. /\ UNCHANGED <<lent, outstanding>> /\ scanningToken' = 0 /\ ~retired /\ retired'
    BY <1>7 DEF ClientRetires, RingRetired, RetireScanning
  <2>2. SlotsOut'
    BY <1>2, <2>1 DEF SlotsOut, NewestIsOut
  <2>3. QED
    BY <1>2, <2>1, <2>2 DEF NewestIsOut
<1>8. ASSUME ClientPauses PROVE Rest
  BY <1>2, <1>8 DEF ClientPauses, RingPaused, Reset, ForgetsOutstanding, NewestIsOut, SlotsOut
<1>9. ASSUME ClientResumes PROVE Rest
  BY <1>a, <1>9 DEF ClientResumes, RingResumes, presenterVars
<1>10. ASSUME UNCHANGED clientVars PROVE Rest
  BY <1>a, <1>10 DEF clientVars, ringVars, presenterVars
<1>11. QED
  BY <1>1, <1>3, <1>4, <1>5, <1>6, <1>7, <1>8, <1>9, <1>10 DEF ClientNext, ClientInv

\* ClientInv holds of every reachable state.
LEMMA ClientInvariance == PartsSpec => []ClientInv
<1>1. PartsInit => ClientInv
  <2> SUFFICES ASSUME PartsInit PROVE ClientInv
    OBVIOUS
  <2>1. RingInit /\ lent = <<>> /\ retired = FALSE
    BY DEF PartsInit, ClientInit
  <2>2. outstanding = {} /\ scanningToken = 0
    BY <2>1 DEF RingInit, PresenterInit
  <2>3. RingInv
    BY <2>1, RingInvInit
  <2>4. NewestIsOut /\ SlotsOut
    BY <2>1, <2>2 DEF NewestIsOut, SlotsOut
  <2>5. lent \in Seq(Nat)
    BY <2>1
  <2>6. QED
    BY <2>1, <2>3, <2>4, <2>5 DEF ClientInv
<1>2. ClientInv /\ [PartsNext]_partsVars => ClientInv'
  BY PartsMove, ClientStep
<1>3. QED
  BY <1>1, <1>2, PTL DEF PartsSpec

\* A Fresh frame's damage covers whatever changed since the one before it, in
\* frames that a deadline dropped too, however rectangles added up to too many:
\* RingPresenter's carry and the damage acquire reports.
THEOREM DamageIsCovered == PartsSpec => []DamageCovers
<1>1. ClientInv => DamageCovers
  BY DEF ClientInv, RingInv, DamageKept, DamageCovers
<1>2. QED
  BY <1>1, ClientInvariance, PTL

\* Each slot in flight has a release still to come, though tokens wrap: the
\* acquisition that carries its token, or the newest on screen.
THEOREM SlotsComeBack == PartsSpec => []SlotsReturn
<1>1. ClientInv => SlotsReturn
  BY DEF ClientInv, RingInv, RingTypeOK, SlotsOut, SlotsReturn
<1>2. QED
  BY <1>1, ClientInvariance, PTL

-----------------------------------------------------------------------------
(* Blobs.                                                                  *)

\* The cache's entries are of blobs the kernel gave out, each for one CRTC, and
\* none of those waits to be destroyed.
HdrTypeOK ==
  /\ cached \in [Crtcs -> {NoEntry} \cup [blob : 1..MaxBlob, content : Contents]]
  /\ committed \in [Crtcs -> Nat]
  /\ outgoing \subseteq 1..MaxBlob

EntriesApart ==
  /\ \A c \in Crtcs : cached[c].blob \notin outgoing
  /\ \A c, d \in Crtcs : c # d /\ cached[c].blob = cached[d].blob => cached[c].blob = 0

HdrInv == HdrTypeOK /\ EntriesApart /\ BlobsOutliveCommits

\* Every call of the cache, and every step of the kernel and of the other clients,
\* keeps the metadata's invariant.
LEMMA HdrStep == HdrInv /\ [HdrNext]_hdrVars => HdrInv'
<1> SUFFICES ASSUME HdrInv, [HdrNext]_hdrVars PROVE HdrInv'
  OBVIOUS
<1> USE BlobAssumption
<1>1. /\ HdrTypeOK /\ EntriesApart /\ BlobsOutliveCommits
      /\ \A c \in Crtcs : cached[c].blob \in Nat /\ (cached[c].blob = 0 <=> cached[c] = NoEntry)
  <2>1. \A e \in {NoEntry} \cup [blob : 1..MaxBlob, content : Contents] :
          e.blob \in Nat /\ (e.blob = 0 <=> e = NoEntry)
    BY DEF NoEntry
  <2>2. QED
    BY <2>1 DEF HdrInv, HdrTypeOK
<1>2. NoEntry.blob = 0
  BY DEF NoEntry
<1>3. ASSUME NEW c \in Crtcs, ClearMetadata(c) PROVE HdrInv'
  <2>1. /\ cached' = [cached EXCEPT ![c] = NoEntry] /\ UNCHANGED <<kernel, committed>>
        /\ outgoing' = outgoing \cup ({cached[c].blob} \ {0})
    BY <1>1, <1>3 DEF ClearMetadata, Queued
  <2>2. /\ cached'[c] = NoEntry /\ \A d \in Crtcs : d # c => cached'[d] = cached[d]
        /\ HdrTypeOK'
    BY <1>1, <2>1 DEF HdrTypeOK
  <2>3. EntriesApart'
    BY <1>1, <1>2, <2>1, <2>2 DEF EntriesApart, HdrTypeOK
  <2>4. BlobsOutliveCommits'
    BY <1>1, <1>2, <2>1, <2>2 DEF BlobsOutliveCommits
  <2>5. QED
    BY <2>2, <2>3, <2>4 DEF HdrInv
<1>4. ASSUME NEW c \in Crtcs, NEW content \in Contents, SetMetadata(c, content) PROVE HdrInv'
  <2> DEFINE blob == Min(FreeBlobs)
  <2>1. blob \in FreeBlobs
    <3>1. FreeBlobs \in SUBSET Nat /\ FreeBlobs # {}
      BY <1>4 DEF SetMetadata, FreeBlobs
    <3>2. QED
      BY <3>1, LeastIsIn DEF Min
  <2>2. /\ cached' = [cached EXCEPT ![c] = [blob |-> blob, content |-> content]]
        /\ kernel' = kernel \cup {blob} /\ UNCHANGED committed
        /\ outgoing' = outgoing \cup ({cached[c].blob} \ {0})
    BY <1>1, <1>4 DEF SetMetadata, Queued
  <2>3. blob \in 1..MaxBlob /\ blob # 0 /\ blob \notin kernel
    BY <2>1 DEF FreeBlobs
  <2>4. /\ cached'[c].blob = blob /\ \A d \in Crtcs : d # c => cached'[d] = cached[d]
        /\ HdrTypeOK'
    BY <1>1, <2>2, <2>3 DEF HdrTypeOK
  <2>5. EntriesApart'
    BY <1>1, <2>2, <2>3, <2>4 DEF EntriesApart, BlobsOutliveCommits
  <2>6. BlobsOutliveCommits'
    BY <1>1, <2>2, <2>3, <2>4 DEF BlobsOutliveCommits
  <2>7. QED
    BY <2>4, <2>5, <2>6 DEF HdrInv
<1>5. ASSUME AcknowledgeCommitted PROVE HdrInv'
  <2>1. /\ UNCHANGED <<cached, committed>> /\ kernel' = kernel \ outgoing /\ outgoing' = {}
        /\ \A c \in Crtcs : committed[c] = cached[c].blob
    BY <1>5 DEF AcknowledgeCommitted
  <2>2. HdrTypeOK' /\ EntriesApart'
    BY <1>1, <2>1 DEF HdrTypeOK, EntriesApart
  <2>3. BlobsOutliveCommits'
    BY <1>1, <2>1 DEF BlobsOutliveCommits, EntriesApart
  <2>4. QED
    BY <2>2, <2>3 DEF HdrInv
<1>10. ASSUME NEW c \in Crtcs, BlobLands(c) PROVE HdrInv'
  <2>1. /\ committed' = [committed EXCEPT ![c] = cached[c].blob]
        /\ UNCHANGED <<cached, outgoing, kernel>>
    BY <1>10 DEF BlobLands
  <2>2. /\ committed' \in [Crtcs -> Nat] /\ committed'[c] = cached[c].blob
        /\ \A d \in Crtcs : d # c => committed'[d] = committed[d]
    BY <1>1, <2>1 DEF HdrTypeOK
  <2>3. HdrTypeOK' /\ EntriesApart'
    BY <1>1, <2>1, <2>2 DEF HdrTypeOK, EntriesApart
  <2>4. BlobsOutliveCommits'
    BY <1>1, <2>1, <2>2 DEF BlobsOutliveCommits
  <2>5. QED
    BY <2>3, <2>4 DEF HdrInv
<1>6. ASSUME SessionLost PROVE HdrInv'
  <2>1. /\ cached' = [c \in Crtcs |-> NoEntry] /\ kernel' = {} /\ outgoing' = {}
        /\ committed' = [c \in Crtcs |-> 0]
    BY <1>6 DEF SessionLost, ForgetAll
  <2>2. QED
    BY <1>2, <2>1 DEF HdrInv, HdrTypeOK, EntriesApart, BlobsOutliveCommits
<1>7. ASSUME Flush PROVE HdrInv'
  <2>1. /\ cached' = [c \in Crtcs |-> NoEntry] /\ outgoing' = {} /\ UNCHANGED committed
        /\ kernel' = kernel \ (outgoing \cup {cached[c].blob : c \in Crtcs})
        /\ \A c \in Crtcs : committed[c] = 0
    BY <1>7 DEF Flush
  <2>2. kernel' = {}
    BY <1>1, <2>1 DEF BlobsOutliveCommits
  <2>3. QED
    BY <1>1, <1>2, <2>1, <2>2 DEF HdrInv, HdrTypeOK, EntriesApart, BlobsOutliveCommits
<1>8. ASSUME UNCHANGED hdrVars PROVE HdrInv'
  BY <1>1, <1>8 DEF hdrVars, HdrInv, HdrTypeOK, EntriesApart, BlobsOutliveCommits
<1>9. QED
  BY <1>3, <1>4, <1>5, <1>6, <1>7, <1>8, <1>10 DEF HdrNext

\* Of a set of staged curves and the blobs there are: each curve has a blob of
\* its own and nobody else's, and there are no others.
StagedApart(curves, blobs) ==
  /\ curves \in [Stages -> {NoStaged} \cup [blob : 1..MaxPipeBlob, curve : Curves \cup {"identity"}]]
  /\ \A s \in Stages : curves[s] # NoStaged => s \in hasStage
  /\ \A s, t \in Stages : s # t /\ curves[s] # NoStaged => curves[s].blob # curves[t].blob
  /\ \A s \in Stages : curves[s].blob \notin others
  /\ blobs = ({curves[s].blob : s \in Stages} \ {0}) \cup others

\* What the CRTC took it still has; and without its descriptor a pipeline has
\* nothing staged.
ColorInv ==
  /\ hasStage \subseteq Stages /\ others \subseteq 1..MaxPipeBlob
  /\ StagedApart(staged, pipeBlobs)
  /\ applied \subseteq Stages /\ \A s \in applied : crtcCurves[s] = staged[s]
  /\ pipe # "live" => staged = Unstaged /\ applied = {}
  /\ pipe = "paused" => others = {}

\* Staging a curve keeps them apart, whether it is refused or not.
LEMMA StagingApart ==
  ASSUME NEW making, NEW stage \in Stages, NEW curve \in Curves \cup {"identity"},
         StagedApart(making.staged, making.blobs), others \subseteq 1..MaxPipeBlob
  PROVE  LET now == Staging(making, stage, curve) IN StagedApart(now.staged, now.blobs)
<1> USE ColorAssumption
<1> DEFINE now == Staging(making, stage, curve)
<1>1. CASE now = [making EXCEPT !.ok = FALSE]
  BY <1>1
<1>2. CASE now # [making EXCEPT !.ok = FALSE]
  <2> DEFINE blob == LeastFree(making.blobs)
  <2>1. /\ stage \in hasStage /\ HasFree(making.blobs)
        /\ now.blobs = (making.blobs \ {making.staged[stage].blob}) \cup {blob}
        /\ now.staged = [making.staged EXCEPT ![stage] = [blob |-> blob, curve |-> curve]]
    BY <1>2 DEF Staging, Replaced
  <2>2. blob \in 1..MaxPipeBlob \ (making.blobs \cup Named)
    <3> DEFINE free == 1..MaxPipeBlob \ (making.blobs \cup Named)
    <3>1. free \in SUBSET Nat /\ free # {}
      BY <2>1 DEF HasFree
    <3>2. QED
      BY <3>1, LeastIsIn DEF LeastFree
  <2>3. /\ now.staged[stage] = [blob |-> blob, curve |-> curve]
        /\ \A s \in Stages : s # stage => now.staged[s] = making.staged[s]
        /\ now.staged \in [Stages -> {NoStaged}
                             \cup [blob : 1..MaxPipeBlob, curve : Curves \cup {"identity"}]]
    BY <2>1, <2>2 DEF StagedApart
  <2>4. NoStaged.blob = 0 /\ \A s \in Stages : making.staged[s].blob # 0 => making.staged[s] # NoStaged
    BY DEF NoStaged
  <2>5. /\ now.staged[stage].blob = blob /\ blob # 0 /\ blob \notin making.blobs
        /\ \A s \in Stages : now.staged[s] # NoStaged => s \in hasStage
        /\ \A s \in Stages : making.staged[s] = NoStaged \/ making.staged[s].blob # 0
    BY <2>1, <2>2, <2>3 DEF StagedApart
  <2>6. \A s \in Stages : s # stage => making.staged[s].blob # blob
    BY <2>5 DEF StagedApart
  <2>7. \A s, t \in Stages : s # t /\ now.staged[s] # NoStaged => now.staged[s].blob # now.staged[t].blob
    BY <2>3, <2>5, <2>6 DEF StagedApart
  <2>8. \A s \in Stages : now.staged[s].blob \notin others
    BY <2>3, <2>5 DEF StagedApart
  <2>9. now.blobs = ({now.staged[s].blob : s \in Stages} \ {0}) \cup others
    BY <2>1, <2>3, <2>4, <2>5, <2>6 DEF StagedApart
  <2>10. QED
    BY <2>3, <2>5, <2>7, <2>8, <2>9 DEF StagedApart
<1>3. QED
  BY <1>1, <1>2

\* Every step keeps the colour pipeline's invariant.
LEMMA ColorStep == ColorInv /\ [ColorNext]_colorVars => ColorInv'
<1> SUFFICES ASSUME ColorInv, [ColorNext]_colorVars PROVE ColorInv'
  OBVIOUS
<1> USE ColorAssumption
<1>1. /\ hasStage \subseteq Stages /\ others \subseteq 1..MaxPipeBlob
      /\ StagedApart(staged, pipeBlobs)
      /\ applied \subseteq Stages /\ \A s \in applied : crtcCurves[s] = staged[s]
      /\ pipe # "live" => staged = Unstaged /\ applied = {}
      /\ pipe = "paused" => others = {}
  BY DEF ColorInv
<1>2. Unstaged = [s \in Stages |-> NoStaged] /\ NoStaged.blob = 0 /\ Stages # {}
  BY DEF Unstaged, NoStaged, Stages
<1>3. ASSUME NEW making, StagesMade(making), StagedApart(making.staged, making.blobs) PROVE ColorInv'
  <2>1. /\ pipe = "live" /\ UNCHANGED <<hasStage, pipe, others, crtcCurves>>
        /\ staged' = making.staged /\ pipeBlobs' = making.blobs
        /\ applied' = {s \in applied : making.staged[s] = staged[s]}
    BY <1>3 DEF StagesMade
  <2>2. StagedApart(staged, pipeBlobs)'
    BY <1>3, <2>1 DEF StagedApart
  <2>3. QED
    BY <1>1, <2>1, <2>2 DEF ColorInv
<1>4. NoneMade.staged = staged /\ NoneMade.blobs = pipeBlobs
  BY DEF NoneMade
<1>5. ASSUME NEW stage \in Stages, NEW curve \in Curves, StageCurve(stage, curve) PROVE ColorInv'
  BY <1>1, <1>3, <1>4, <1>5, StagingApart DEF StageCurve
<1>6. ASSUME SetIdentity PROVE ColorInv'
  <2>1. ASSUME NEW making, NEW stage \in Stages, StagedApart(making.staged, making.blobs)
        PROVE  StagedApart(IdentityIn(making, stage).staged, IdentityIn(making, stage).blobs)
    BY <1>1, <2>1, StagingApart DEF IdentityIn
  <2> DEFINE one == IdentityIn(NoneMade, "degamma")
             two == IdentityIn(one, "ctm")
  <2>2. StagedApart(one.staged, one.blobs)
    BY <1>1, <1>4, <2>1 DEF Stages
  <2>3. StagedApart(two.staged, two.blobs)
    BY <2>1, <2>2 DEF Stages
  <2> HIDE DEF two
  <2>4. StagedApart(IdentityIn(two, "gamma").staged, IdentityIn(two, "gamma").blobs)
    BY <2>1, <2>3 DEF Stages
  <2>5. StagesMade(IdentityIn(two, "gamma"))
    BY <1>6 DEF SetIdentity, two
  <2>6. QED
    BY <1>3, <2>4, <2>5
<1>7. ASSUME ApplyStaged PROVE ColorInv'
  <2>1. /\ UNCHANGED <<hasStage, pipe, staged, others, pipeBlobs>> /\ pipe = "live"
        /\ applied' = {s \in Stages : staged[s] # NoStaged}
        /\ crtcCurves' = [s \in Stages |-> IF staged[s] # NoStaged THEN staged[s] ELSE crtcCurves[s]]
    BY <1>7 DEF ApplyStaged
  <2>2. StagedApart(staged, pipeBlobs)'
    BY <1>1, <2>1 DEF StagedApart
  <2>3. QED
    BY <1>1, <2>1, <2>2 DEF ColorInv
<1>8. ASSUME OtherMakes PROVE ColorInv'
  <2>1. /\ UNCHANGED <<hasStage, pipe, staged, crtcCurves, applied>> /\ pipe # "paused"
        /\ others = {} /\ others' = {LeastFree(pipeBlobs)} /\ HasFree(pipeBlobs)
        /\ pipeBlobs' = pipeBlobs \cup others'
    BY <1>8 DEF OtherMakes
  <2>2. LeastFree(pipeBlobs) \in 1..MaxPipeBlob \ (pipeBlobs \cup Named)
    <3> DEFINE free == 1..MaxPipeBlob \ (pipeBlobs \cup Named)
    <3>1. free \in SUBSET Nat /\ free # {}
      BY <2>1 DEF HasFree
    <3>2. QED
      BY <3>1, LeastIsIn DEF LeastFree
  <2>3. StagedApart(staged, pipeBlobs)'
    <3> DEFINE b == LeastFree(pipeBlobs)
    <3>1. b \in 1..MaxPipeBlob /\ b \notin pipeBlobs /\ others' = {b}
          /\ UNCHANGED <<staged, hasStage>>
      BY <2>1, <2>2
    <3> HIDE DEF b
    <3>2. pipeBlobs = {staged[s].blob : s \in Stages} \ {0}
      BY <1>1, <2>1 DEF StagedApart
    <3>3. pipeBlobs' = ({staged'[s].blob : s \in Stages} \ {0}) \cup others'
      BY <2>1, <3>1, <3>2
    <3>4. \A s \in Stages : staged'[s].blob \notin others'
      BY <3>1, <3>2
    <3>5. QED
      BY <1>1, <3>1, <3>3, <3>4 DEF StagedApart
  <2>4. QED
    BY <1>1, <2>1, <2>2, <2>3 DEF ColorInv
<1>9. ASSUME OtherClientCurves PROVE ColorInv'
  <2>1. UNCHANGED <<hasStage, pipe, staged, others, pipeBlobs, applied>> /\ pipe = "paused"
    BY <1>9 DEF OtherClientCurves
  <2>2. StagedApart(staged, pipeBlobs)'
    BY <1>1, <2>1 DEF StagedApart
  <2>3. QED
    BY <1>1, <2>1, <2>2 DEF ColorInv
<1>10. ASSUME PausePipeline PROVE ColorInv'
  <2>1. /\ staged' = Unstaged /\ applied' = {} /\ others' = {} /\ pipeBlobs' = {}
        /\ pipe' = "paused" /\ UNCHANGED hasStage
    BY <1>10 DEF PausePipeline, ForgetsStaged
  <2>2. StagedApart(staged, pipeBlobs)'
    BY <1>2, <2>1 DEF StagedApart
  <2>3. QED
    BY <1>1, <1>2, <2>1, <2>2 DEF ColorInv
<1>11. ASSUME ResumePipeline \/ NewPipeline PROVE ColorInv'
  <2>1. UNCHANGED <<hasStage, staged, others, pipeBlobs, crtcCurves, applied>> /\ pipe' = "live"
    BY <1>11 DEF ResumePipeline, NewPipeline
  <2>2. StagedApart(staged, pipeBlobs)'
    BY <1>1, <2>1 DEF StagedApart
  <2>3. QED
    BY <1>1, <2>1, <2>2 DEF ColorInv
<1>12. ASSUME DropPipeline PROVE ColorInv'
  <2>1. /\ staged' = Unstaged /\ applied' = {} /\ UNCHANGED <<hasStage, others>>
        /\ pipe' = "gone" /\ pipeBlobs' = pipeBlobs \ Staged
    BY <1>12 DEF DropPipeline
  <2>2. pipeBlobs' = others
    BY <1>1, <2>1 DEF StagedApart, Staged
  <2>3. 0 \notin others
    BY <1>1
  <2>4. StagedApart(staged, pipeBlobs)'
    BY <1>2, <2>1, <2>2, <2>3 DEF StagedApart
  <2>5. QED
    BY <1>1, <1>2, <2>1, <2>4 DEF ColorInv
<1>13. ASSUME UNCHANGED colorVars PROVE ColorInv'
  BY <1>1, <1>13 DEF colorVars, ColorInv, StagedApart, Unstaged
<1>14. QED
  BY <1>5, <1>6, <1>7, <1>8, <1>9, <1>10, <1>11, <1>12, <1>13 DEF ColorNext

\* Both start with no blob.
LEMMA BlobsInit == PartsInit => HdrInv /\ ColorInv
<1> SUFFICES ASSUME PartsInit PROVE HdrInv /\ ColorInv
  OBVIOUS
<1> USE BlobAssumption, ColorAssumption
<1>1. NoEntry.blob = 0 /\ NoStaged.blob = 0 /\ Unstaged = [s \in Stages |-> NoStaged]
      /\ Stages # {}
  BY DEF NoEntry, NoStaged, Unstaged, Stages
<1>2. HdrInv
  BY <1>1 DEF PartsInit, HdrInit, HdrInv, HdrTypeOK, EntriesApart, BlobsOutliveCommits
<1>3. /\ hasStage \subseteq Stages /\ pipe = "gone" /\ staged = Unstaged /\ others = {}
      /\ pipeBlobs = {} /\ applied = {}
  BY DEF PartsInit, ColorInit
<1>4. StagedApart(staged, pipeBlobs)
  BY <1>1, <1>3 DEF StagedApart
<1>5. QED
  BY <1>2, <1>3, <1>4 DEF ColorInv

\* The blobs that a connector or a CRTC was given outlive the commits that name
\* them, and nobody destroys another's though the kernel gives its least free
\* number out again: HdrMetadataCache and CrtcColorPipeline, each by itself.
THEOREM BlobsOutliveTheirUse == PartsSpec => []BlobsStand
<1> DEFINE Inv == HdrInv /\ ColorInv
<1>1. PartsInit => Inv
  BY BlobsInit
<1>2. Inv /\ [PartsNext]_partsVars => Inv'
  BY PartsMove, HdrStep, ColorStep
<1>3. Inv => BlobsStand
  <2> SUFFICES ASSUME HdrInv, ColorInv PROVE BlobsStand
    OBVIOUS
  <2>1. PipelineTrue
    BY DEF ColorInv, StagedApart, PipelineTrue, Staged
  <2>2. QED
    BY <2>1 DEF HdrInv, BlobsStand
<1>4. QED
  BY <1>1, <1>2, <1>3, PTL DEF PartsSpec

-----------------------------------------------------------------------------
(* Sticky properties.                                                      *)

\* A plane's baseline is of the entry it last carried.
Baselined ==
  \A p \in StickyPlaneIds :
    /\ lastCarried[p].layer = fullAlpha[p].layer
    /\ lastCarried[p].alpha = fullAlpha[p].alpha

\* What colours a plane is noted to have it has, unless another client has set
\* it since they were written; of one without colours none are noted.
ColorsNoted ==
  \A p \in StickyPlaneIds :
    /\ p \notin othersOwn =>
         /\ colorNoted[p].encoding \in {Unwritten, stuck[p].encoding}
         /\ colorNoted[p].range \in {Unwritten, stuck[p].range}
    /\ ~HasColorProps(p) => colorNoted[p] = NoColors

\* An entry of a frame: its base is the plane's baseline, if of the same layer.
EntryOK(p, e) ==
  /\ e = [layer |-> e.layer, color |-> e.color, alpha |-> e.alpha, base |-> e.base]
  /\ e.base # NotCarried => e.base = fullAlpha[p] /\ e.base.layer = e.layer

FrameAgrees ==
  stickyFrame # NoStickyFrame =>
    /\ stickyFrame.restates = stickyUnknown
    /\ \A p \in DOMAIN stickyFrame.plan : EntryOK(p, stickyFrame.plan[p])

StickyInv == Baselined /\ ColorsNoted /\ FrameAgrees /\ StickyAsAsked

\* Taking a frame leaves each of its planes as its entry asked.
LEMMA StickyTakenStep == StickyInv /\ StickyTaken => StickyInv'
<1> SUFFICES ASSUME StickyInv, StickyTaken PROVE StickyInv'
  OBVIOUS
<1> DEFINE plan == stickyFrame.plan
           layers == {p \in DOMAIN plan : plan[p].layer # TheCanvas}
           r == stickyFrame.restates
<1>1. /\ \A p \in DOMAIN plan : EntryOK(p, plan[p])
      /\ Baselined /\ ColorsNoted /\ StickyAsAsked
  BY DEF StickyInv, FrameAgrees, StickyTaken
<1>2. /\ stuck' = [p \in StickyPlaneIds |->
                     IF p \in DOMAIN plan THEN EmitSticky(p, plan[p], r) ELSE stuck[p]]
      /\ colorNoted' = [p \in StickyPlaneIds |->
           IF p \in DOMAIN plan /\ plan[p].layer # TheCanvas /\ HasColorProps(p)
             THEN ResolveColor(p, plan[p].color) ELSE colorNoted[p]]
      /\ fullAlpha' = [p \in StickyPlaneIds |->
                        IF p \in layers
                          THEN [layer |-> plan[p].layer, color |-> NoColors,
                                alpha |-> plan[p].alpha]
                        ELSE NotCarried]
      /\ lastCarried' = [p \in StickyPlaneIds |->
                      IF p \in layers THEN [plan[p] EXCEPT !.base = NotCarried]
                      ELSE NotCarried]
      /\ othersOwn' = IF r THEN othersOwn \ layers ELSE othersOwn
      /\ stickyFrame' = NoStickyFrame
  BY DEF StickyTaken, NoteColors
<1> HIDE DEF plan, r
<1>3. ASSUME NEW p \in StickyPlaneIds, p \in layers
      PROVE  /\ lastCarried'[p].layer = plan[p].layer
             /\ lastCarried'[p].color = plan[p].color
             /\ lastCarried'[p].alpha = plan[p].alpha
  <2>1. /\ p \in DOMAIN plan
        /\ plan[p] = [layer |-> plan[p].layer, color |-> plan[p].color,
                      alpha |-> plan[p].alpha, base |-> plan[p].base]
    BY <1>1, <1>3 DEF EntryOK
  <2>2. lastCarried'[p] = [plan[p] EXCEPT !.base = NotCarried]
    BY <1>2, <1>3
  <2>3. lastCarried'[p] = [layer |-> plan[p].layer, color |-> plan[p].color,
                           alpha |-> plan[p].alpha, base |-> NotCarried]
    BY <2>1, <2>2
  <2>4. QED
    BY <2>3
<1>4. Baselined'
  BY <1>2, <1>3 DEF Baselined
<1>5. ASSUME NEW p \in layers, p \in StickyPlaneIds, p \notin othersOwn'
      PROVE  /\ ResolveColor(p, plan[p].color).encoding \in {Unwritten, stuck'[p].encoding}
             /\ ResolveColor(p, plan[p].color).range \in {Unwritten, stuck'[p].range}
  <2>1. /\ stuck'[p].encoding = EmitColor(p, plan[p], "encoding", r)
        /\ stuck'[p].range = EmitColor(p, plan[p], "range", r)
    BY <1>2, <1>5 DEF EmitSticky
  <2>2. \/ r
        \/ /\ colorNoted[p].encoding \in {Unwritten, stuck[p].encoding}
           /\ colorNoted[p].range \in {Unwritten, stuck[p].range}
    BY <1>1, <1>2, <1>5 DEF ColorsNoted
  <2>3. plan[p].layer # TheCanvas
    BY <1>5
  <2>4. QED
    BY <2>1, <2>2, <2>3 DEF EmitColor
<1>6. ColorsNoted'
  <2>a. ASSUME NEW p \in StickyPlaneIds, ~HasColorProps(p) PROVE colorNoted'[p] = NoColors
    BY <1>1, <1>2, <2>a DEF ColorsNoted
  <2>1. SUFFICES ASSUME NEW p \in StickyPlaneIds, p \notin othersOwn'
                 PROVE  /\ colorNoted'[p].encoding \in {Unwritten, stuck'[p].encoding}
                        /\ colorNoted'[p].range \in {Unwritten, stuck'[p].range}
    BY <2>a DEF ColorsNoted, HasColorProps
  <2>2. CASE p \in layers /\ HasColorProps(p)
    BY <1>2, <1>5, <2>1, <2>2
  <2>3. CASE p \in layers /\ ~HasColorProps(p)
    BY <2>a, <2>3 DEF NoColors
  <2>4. CASE p \notin layers
    <3>1. colorNoted'[p] = colorNoted[p] /\ p \notin othersOwn
      BY <1>2, <2>1, <2>4
    <3>2. stuck'[p].encoding = stuck[p].encoding /\ stuck'[p].range = stuck[p].range
      BY <1>2, <2>4 DEF EmitSticky, EmitColor
    <3>3. QED
      BY <1>1, <3>1, <3>2 DEF ColorsNoted
  <2>5. QED
    BY <2>2, <2>3, <2>4
<1>7. StickyAsAsked'
  <2>1. SUFFICES ASSUME NEW p \in StickyPlaneIds, lastCarried'[p].layer # "none"
                 PROVE LET entry == lastCarried'[p]
                           want  == ResolveColor(p, entry.color)
                       IN /\ p \notin othersOwn' =>
                              /\ want.encoding \in {Unwritten, stuck'[p].encoding}
                              /\ want.range \in {Unwritten, stuck'[p].range}
                          /\ entry.alpha # Unset =>
                               stuck'[p].alpha = RescaleAlpha(entry.alpha, StickyDevice[p].alphaMax)
                          /\ StickyDevice[p].private => stuck'[p].private = 0
    BY DEF StickyAsAsked
  <2>2. p \in layers
    BY <1>2, <2>1 DEF NotCarried
  <2>3. /\ lastCarried'[p].layer = plan[p].layer /\ lastCarried'[p].color = plan[p].color
        /\ lastCarried'[p].alpha = plan[p].alpha
    BY <1>3, <2>2
  <2> DEFINE inFull == plan[p].base = NotCarried
  <2>4. /\ stuck'[p].private = IF inFull /\ StickyDevice[p].private THEN 0 ELSE stuck[p].private
        /\ stuck'[p].alpha =
             IF plan[p].alpha = Unset \/ (~inFull /\ plan[p].alpha = plan[p].base.alpha)
               THEN stuck[p].alpha
             ELSE RescaleAlpha(plan[p].alpha, StickyDevice[p].alphaMax)
    BY <1>2, <2>2 DEF EmitSticky
  <2>5. ASSUME ~inFull
        PROVE  /\ plan[p].base.alpha = lastCarried[p].alpha
               /\ lastCarried[p].layer # "none"
    BY <1>1, <2>1, <2>2, <2>3, <2>5 DEF EntryOK, Baselined
  <2>6. StickyDevice[p].private => stuck'[p].private = 0
    BY <1>1, <2>4, <2>5 DEF StickyAsAsked
  <2>7. plan[p].alpha # Unset =>
          stuck'[p].alpha = RescaleAlpha(plan[p].alpha, StickyDevice[p].alphaMax)
    BY <1>1, <2>4, <2>5 DEF StickyAsAsked
  <2>8. QED
    BY <1>5, <2>2, <2>3, <2>6, <2>7
<1>8. FrameAgrees'
  BY <1>2 DEF FrameAgrees
<1>9. QED
  BY <1>4, <1>6, <1>7, <1>8 DEF StickyInv

\* Every frame, accepted or refused, keeps what is known of the planes true.
LEMMA StickyStep == StickyInv /\ [StickyNext]_stickyVars => StickyInv'
<1> SUFFICES ASSUME StickyInv, [StickyNext]_stickyVars PROVE StickyInv'
  OBVIOUS
<1>a. ASSUME UNCHANGED <<stuck, colorNoted, fullAlpha, stickyUnknown, lastCarried, othersOwn>>
      PROVE  Baselined' /\ ColorsNoted' /\ StickyAsAsked'
  BY <1>a DEF StickyInv, Baselined, ColorsNoted, StickyAsAsked
<1>b. ASSUME UNCHANGED <<stickyFrame, stickyUnknown, fullAlpha>> PROVE FrameAgrees'
  BY <1>b DEF StickyInv, FrameAgrees, EntryOK
<1>1. ASSUME NEW l, NEW want, AskColor(l, want) \/ AskAlpha(l, want) PROVE StickyInv'
  BY <1>a, <1>b, <1>1 DEF AskColor, AskAlpha, StickyInv
<1>2. ASSUME NEW placed, NEW real, BuildSticky(placed, real) PROVE StickyInv'
  <2>1. /\ stickyFrame'.restates = stickyUnknown
        /\ stickyFrame'.plan = [p \in DOMAIN placed |-> PlanEntry(p, placed[p])]
        /\ UNCHANGED <<stuck, colorNoted, fullAlpha, stickyUnknown, lastCarried, othersOwn>>
    BY <1>2 DEF BuildSticky
  <2>2. \A p, l : EntryOK(p, PlanEntry(p, l))
    BY DEF EntryOK, PlanEntry
  <2>3. FrameAgrees'
    BY <2>1, <2>2 DEF FrameAgrees, EntryOK
  <2>4. QED
    BY <1>a, <2>1, <2>3 DEF StickyInv
<1>3. ASSUME StickyRefused PROVE StickyInv'
  BY <1>a, <1>3 DEF StickyRefused, StickyInv, FrameAgrees
<1>4. ASSUME NEW left, AnotherClient(left) PROVE StickyInv'
  <2>1. /\ fullAlpha' = [p \in StickyPlaneIds |-> NotCarried]
        /\ lastCarried' = [p \in StickyPlaneIds |-> NotCarried]
        /\ othersOwn' = StickyPlaneIds /\ stickyFrame' = NoStickyFrame
        /\ UNCHANGED colorNoted
    BY <1>4 DEF AnotherClient
  <2>2. NotCarried.layer = "none"
    BY DEF NotCarried
  <2>3. QED
    BY <2>1, <2>2 DEF StickyInv, Baselined, ColorsNoted, FrameAgrees, StickyAsAsked
<1>5. ASSUME UNCHANGED stickyVars PROVE StickyInv'
  BY <1>a, <1>b, <1>5 DEF stickyVars, StickyInv
<1>6. QED
  BY <1>1, <1>2, <1>3, <1>4, <1>5, StickyTakenStep DEF StickyNext

-----------------------------------------------------------------------------
(* The contents of frames.                                                 *)

\* The damage to hand over covers what was drawn.
HandsOverAll ==
  /\ dirty \in [Producers -> SUBSET Screenful]
  /\ handOver \in [Producers -> Seq([x : Int, w : Nat])]
  /\ \A l \in Producers : handOver[l] = <<>> \/ dirty[l] \subseteq Stretches(handOver[l])

\* The pixels a plane repaints of these rectangles, if it heeds them.
Repainted(clips) ==
  IF clips = WholeBuffer THEN Screenful
  ELSE UNION {rect.x1..rect.x2 - 1 : rect \in DamageRects(clips)}

\* The frame's rectangles cover its news, and once it is committed what nobody
\* waits for any more is known.
ContentsAgree ==
  contents # NoContents =>
    /\ contents = [plan |-> contents.plan, stage |-> contents.stage, news |-> contents.news,
                   damage |-> contents.damage, unready |-> contents.unready,
                   gaveUp |-> contents.gaveUp]
    /\ DOMAIN contents.plan \subseteq DOMAIN Screens
    /\ \A p \in DOMAIN contents.plan :
         contents.news[contents.plan[p]] \subseteq
           Repainted(contents.damage[contents.plan[p]]) \cap Screenful
    /\ contents.stage = "committed" => Awaited(contents) \subseteq contents.gaveUp

ContentsInv == HandsOverAll /\ ContentsAgree /\ ContentsTrue

\* Clipping loses no pixel of the buffer.
LEMMA ClipsCover ==
  ASSUME NEW damage \in Seq([x : Int, w : Nat])
  PROVE  damage = <<>> \/ Stretches(damage) \subseteq Repainted(ClipDamage(damage))
<1> USE ContentsAssumption
<1>1. SUFFICES ASSUME NEW i \in DOMAIN damage, NEW x \in Stretch(damage[i])
               PROVE  x \in Repainted(ClipDamage(damage))
  BY DEF Stretches
<1>2. CASE Len(damage) > DamageLimit
  BY <1>2 DEF ClipDamage, Repainted, Stretch
<1>3. CASE ~(Len(damage) > DamageLimit)
  <2> DEFINE clips == ClipDamage(damage)
             c == ClippedRect(damage[i])
  <2>a. damage[i] \in [x : Int, w : Nat]
    <3>1. \A S : \A s \in Seq(S) : \A k \in DOMAIN s : s[k] \in S
      OBVIOUS
    <3>2. QED
      BY <3>1
  <2>1. /\ damage[i].x \in Int /\ damage[i].w \in Nat
        /\ x \in Int /\ 0 <= x /\ x < RowWidth /\ damage[i].x <= x /\ x < damage[i].x + damage[i].w
    BY <2>a DEF Stretch, Screenful
  <2>2. c.x \in Int /\ c.w \in Int /\ c.w > 0 /\ c.x <= x /\ x < c.x + c.w
    <3> DEFINE x1 == IF damage[i].x < 0 THEN 0 ELSE damage[i].x
               x2 == IF damage[i].x + damage[i].w < RowWidth THEN damage[i].x + damage[i].w
                     ELSE RowWidth
    <3>1. x1 \in Int /\ x2 \in Int /\ x1 <= x /\ x < x2
      BY <2>1
    <3>2. c.x = x1 /\ c.w = x2 - x1
      BY DEF ClippedRect, Least
    <3> HIDE DEF x1, x2, c
    <3>3. QED
      BY <2>1, <3>1, <3>2
  <2>3. c \in clips
    BY <1>3, <2>2 DEF ClipDamage
  <2> DEFINE rect == [x1 |-> c.x, x2 |-> c.x + c.w]
  <2>4. rect \in DamageRects(clips)
    BY <2>3 DEF DamageRects
  <2>5. x \in rect.x1..rect.x2 - 1
    BY <2>1, <2>2
  <2> HIDE DEF clips, rect
  <2>6. clips # WholeBuffer
    BY <2>3 DEF WholeBuffer
  <2>7. x \in Repainted(clips)
    BY <2>4, <2>5, <2>6 DEF Repainted
  <2>8. QED
    BY <2>7 DEF clips
<1>4. QED
  BY <1>2, <1>3

\* Every frame and every change of a source keeps what the panel has known.
LEMMA ContentsStep == ContentsInv /\ [ContentsNext]_contentsVars => ContentsInv'
<1> SUFFICES ASSUME ContentsInv, [ContentsNext]_contentsVars PROVE ContentsInv'
  OBVIOUS
<1> USE ContentsAssumption
<1>1. HandsOverAll /\ ContentsAgree /\ ContentsTrue
  BY DEF ContentsInv
<1>a. ASSUME UNCHANGED <<dirty, handOver>> PROVE HandsOverAll'
  BY <1>1, <1>a DEF HandsOverAll
<1>b. ASSUME UNCHANGED contents PROVE ContentsAgree'
  BY <1>1, <1>b DEF ContentsAgree, Awaited
<1>c. ASSUME UNCHANGED <<behind, forgiven, halfDrawn>> PROVE ContentsTrue'
  BY <1>1, <1>c DEF ContentsTrue
<1>d. ASSUME NEW layers, Acquire(layers) PROVE HandsOverAll'
  <2>1. <<>> \in Seq([x : Int, w : Nat])
    OBVIOUS
  <2>2. QED
    BY <1>1, <1>d, <2>1 DEF Acquire, HandsOverAll
<1>e. ASSUME NEW news, Forfeits(news), UNCHANGED halfDrawn PROVE ContentsTrue'
  BY <1>1, <1>e DEF Forfeits, ContentsTrue
<1>2. ASSUME NEW l \in Producers, NEW x \in Screenful, NEW damage \in DamageReports,
             NEW fenced \in BOOLEAN, Redraw(l, x, damage, fenced)
      PROVE ContentsInv'
  <2>1. /\ dirty' = [dirty EXCEPT ![l] = @ \cup {x}]
        /\ damage = <<>> \/ dirty'[l] \subseteq Stretches(damage)
        /\ handOver' = [handOver EXCEPT ![l] = damage]
        /\ UNCHANGED <<contents, behind, forgiven, halfDrawn>>
    BY <1>2 DEF Redraw
  <2>2. damage \in Seq([x : Int, w : Nat])
    OBVIOUS
  <2>3. /\ dirty' \in [Producers -> SUBSET Screenful]
        /\ handOver' \in [Producers -> Seq([x : Int, w : Nat])]
    BY <1>1, <2>1, <2>2 DEF HandsOverAll
  <2>4. HandsOverAll'
    <3>1. ASSUME NEW k \in Producers
          PROVE  handOver'[k] = <<>> \/ dirty'[k] \subseteq Stretches(handOver'[k])
      <4>1. CASE k = l
        BY <1>1, <2>1, <4>1 DEF HandsOverAll
      <4>2. CASE k # l
        BY <1>1, <2>1, <4>2 DEF HandsOverAll
      <4>3. QED
        BY <4>1, <4>2
    <3>2. QED
      BY <2>3, <3>1 DEF HandsOverAll, Stretches, Stretch, Screenful
  <2>5. QED
    BY <1>b, <1>c, <2>1, <2>4 DEF ContentsInv
<1>3. ASSUME NEW l, FinishDrawing(l) PROVE ContentsInv'
  BY <1>a, <1>b, <1>c, <1>3 DEF FinishDrawing, ContentsInv
<1>4. ASSUME NEW l, FenceSignals(l) PROVE ContentsInv'
  <2>1. /\ contents # NoContents /\ contents' = [contents EXCEPT !.unready = @ \ {l}]
        /\ UNCHANGED <<dirty, handOver, behind, forgiven, halfDrawn>>
    BY <1>4 DEF FenceSignals
  <2>2. /\ contents'.plan = contents.plan /\ contents'.news = contents.news
        /\ contents'.damage = contents.damage /\ contents'.stage = contents.stage
        /\ contents'.gaveUp = contents.gaveUp /\ contents'.unready \subseteq contents.unready
    BY <2>1
  <2>3. Awaited(contents') \subseteq Awaited(contents)
    BY <2>2 DEF Awaited
  <2>4. QED
    BY <1>1, <1>a, <1>c, <2>1, <2>2, <2>3 DEF ContentsInv, ContentsAgree
<1>5. ASSUME NEW plan \in Placings, NEW starved \in SUBSET Producers, BuildContents(plan, starved)
      PROVE ContentsInv'
  <2> DEFINE acquired == Producers \ starved
             fresh == acquired \cap PlacedOf(plan)
  <2>1. /\ Acquire(acquired) /\ UNCHANGED <<behind, forgiven, halfDrawn>>
        /\ contents' = [plan |-> plan, stage |-> "built", news |-> NewsOf(acquired),
                        damage |-> [l \in Producers |->
                                      IF l \in fresh THEN ClipDamage(handOver[l]) ELSE WholeBuffer],
                        unready |-> fresh \cap unsignaled, gaveUp |-> {}]
    BY <1>5 DEF BuildContents
  <2>2. DOMAIN plan \subseteq DOMAIN Screens /\ \A p \in DOMAIN plan : plan[p] \in Producers
    BY DEF Placings
  <2>3. ASSUME NEW p \in DOMAIN plan
        PROVE  contents'.news[plan[p]] \subseteq Repainted(contents'.damage[plan[p]]) \cap Screenful
    <3>1. plan[p] \in Producers /\ plan[p] \in PlacedOf(plan)
      BY <2>2 DEF PlacedOf
    <3>2. CASE plan[p] \in acquired
      <4>1. /\ contents'.news[plan[p]] = dirty[plan[p]]
            /\ contents'.damage[plan[p]] = ClipDamage(handOver[plan[p]])
        BY <2>1, <3>1, <3>2 DEF NewsOf
      <4>2. /\ handOver[plan[p]] \in Seq([x : Int, w : Nat]) /\ dirty[plan[p]] \subseteq Screenful
            /\ handOver[plan[p]] = <<>> \/ dirty[plan[p]] \subseteq Stretches(handOver[plan[p]])
        BY <1>1, <3>1 DEF HandsOverAll
      <4>3. ClipDamage(<<>>) = WholeBuffer
        BY DEF ClipDamage, WholeBuffer
      <4>4. CASE handOver[plan[p]] = <<>>
        BY <4>1, <4>2, <4>3, <4>4 DEF Repainted
      <4>5. CASE handOver[plan[p]] # <<>>
        <5>1. Stretches(handOver[plan[p]]) \subseteq Repainted(ClipDamage(handOver[plan[p]]))
          BY <4>2, <4>5, ClipsCover
        <5>2. QED
          BY <4>1, <4>2, <4>5, <5>1
      <4>6. QED
        BY <4>4, <4>5
    <3>3. CASE plan[p] \notin acquired
      BY <2>1, <3>1, <3>3 DEF NewsOf
    <3>4. QED
      BY <3>2, <3>3
  <2>4. contents'.plan = plan /\ contents'.stage = "built"
    BY <2>1
  <2>5. ContentsAgree'
    <3>1. contents' = [plan |-> contents'.plan, stage |-> contents'.stage,
                       news |-> contents'.news, damage |-> contents'.damage,
                       unready |-> contents'.unready, gaveUp |-> contents'.gaveUp]
      BY <2>1
    <3>2. QED
      BY <2>2, <2>3, <2>4, <3>1 DEF ContentsAgree, Repainted, Screenful, DamageRects
  <2>6. QED
    BY <1>c, <1>d, <2>1, <2>5 DEF ContentsInv
<1>6. ASSUME NEW taken, BuildFails(taken) PROVE ContentsInv'
  BY <1>b, <1>d, <1>e, <1>6 DEF BuildFails, ContentsInv
<1>7. ASSUME ContentsRefused PROVE ContentsInv'
  <2>1. ContentsAgree'
    BY <1>7 DEF ContentsRefused, ContentsAgree
  <2>2. QED
    BY <1>a, <1>e, <1>7, <2>1 DEF ContentsRefused, ContentsInv
<1>8. ASSUME CommitContents PROVE ContentsInv'
  <2>1. /\ contents # NoContents /\ UNCHANGED <<dirty, handOver, behind, forgiven, halfDrawn>>
        /\ contents' = [contents EXCEPT !.stage = "committed", !.gaveUp = Awaited(contents)]
    BY <1>8 DEF CommitContents, NoContents
  <2>2. contents' = [plan |-> contents.plan, stage |-> "committed", news |-> contents.news,
                     damage |-> contents.damage, unready |-> contents.unready,
                     gaveUp |-> Awaited(contents)]
    BY <1>1, <2>1 DEF ContentsAgree
  <2>3. /\ contents'.plan = contents.plan /\ contents'.news = contents.news
        /\ contents'.damage = contents.damage /\ contents'.unready = contents.unready
        /\ contents'.gaveUp = Awaited(contents) /\ contents'.stage = "committed"
    BY <2>2
  <2>4. Awaited(contents') = Awaited(contents)
    BY <2>3 DEF Awaited
  <2>5. ContentsAgree'
    BY <1>1, <2>1, <2>2, <2>3, <2>4 DEF ContentsAgree
  <2>6. QED
    BY <1>a, <1>c, <2>1, <2>5 DEF ContentsInv
<1>9. ASSUME ContentsLand PROVE ContentsInv'
  <2> DEFINE plan == contents.plan
  <2>1. /\ contents # NoContents /\ contents.stage = "committed" /\ ArmedFences(contents) = {}
        /\ UNCHANGED <<dirty, handOver>> /\ contents' = NoContents
        /\ behind' = [p \in DOMAIN Screens |->
             IF p \in DOMAIN plan THEN Lacking(p, behind[p] \cup contents.news[plan[p]]) ELSE {}]
        /\ forgiven' = [p \in DOMAIN Screens |->
             IF p \in DOMAIN plan THEN Lacking(p, forgiven[p]) ELSE {}]
        /\ halfDrawn' = {p \in DOMAIN plan : plan[p] \in contents.unready} \ contents.gaveUp
    BY <1>9 DEF ContentsLand, NoContents
  <2>2. ASSUME NEW p \in DOMAIN Screens, p \in DOMAIN plan
        PROVE  behind'[p] \subseteq forgiven'[p]
    <3> DEFINE emitted == EmitDamage(p, contents.damage[plan[p]])
    <3>1. contents.news[plan[p]] \subseteq emitted
      BY <1>1, <2>1, <2>2 DEF ContentsAgree, EmitDamage, Repainted
    <3>2. /\ behind'[p] = (IF panelOf[p] = plan[p] THEN behind[p] \cup contents.news[plan[p]]
                           ELSE Screenful) \ emitted
          /\ forgiven'[p] = (IF panelOf[p] = plan[p] THEN forgiven[p] ELSE Screenful) \ emitted
      BY <2>1, <2>2 DEF Lacking
    <3>3. behind[p] \subseteq forgiven[p]
      BY <1>1 DEF ContentsTrue
    <3> HIDE DEF emitted
    <3>4. QED
      BY <3>1, <3>2, <3>3
  <2>3. halfDrawn' = {}
    <3>1. SUFFICES ASSUME NEW p \in DOMAIN plan, plan[p] \in contents.unready,
                          p \notin contents.gaveUp
                   PROVE FALSE
      BY <2>1
    <3>2. FenceAction(p) # "cpu_wait"
      BY <1>1, <2>1, <3>1 DEF ContentsAgree, Awaited
    <3>3. Screens[p].fences /\ FenceAction(p) = "arm"
      BY <3>2 DEF FenceAction
    <3>4. p \in ArmedFences(contents)
      BY <3>1, <3>3 DEF ArmedFences
    <3>5. QED
      BY <2>1, <3>4
  <2>4. ContentsTrue'
    BY <2>1, <2>2, <2>3 DEF ContentsTrue
  <2>5. ContentsAgree'
    BY <2>1 DEF ContentsAgree
  <2>6. QED
    BY <1>a, <2>1, <2>4, <2>5 DEF ContentsInv
<1>10. ASSUME UNCHANGED contentsVars PROVE ContentsInv'
  BY <1>a, <1>b, <1>c, <1>10 DEF contentsVars, ContentsInv
<1>11. QED
  BY <1>2, <1>3, <1>4, <1>5, <1>6, <1>7, <1>8, <1>9, <1>10 DEF ContentsNext

\* What frames give their planes is what was asked for, in colour, opacity and
\* contents: a property is left unwritten only where the plane has its value,
\* and pixels are left unpainted only where the panel has them (the emission of
\* commit.rs and the damage a frame carries from its sources).
THEOREM FramesGiveWhatWasAsked == PartsSpec => []FramesAsAsked
<1> DEFINE Inv == StickyInv /\ ContentsInv
<1>1. PartsInit => Inv
  <2> SUFFICES ASSUME PartsInit PROVE StickyInv /\ ContentsInv
    OBVIOUS
  <2>1. StickyInit /\ ContentsInit
    BY DEF PartsInit
  <2>2. NotCarried.layer = "none" /\ NoColors.encoding = Unwritten /\ NoColors.range = Unwritten
    BY DEF NotCarried, NoColors
  <2>3. StickyInv
    BY <2>1, <2>2
       DEF StickyInit, StickyInv, Baselined, ColorsNoted, FrameAgrees, StickyAsAsked
  <2>4. <<>> \in Seq([x : Int, w : Nat])
    OBVIOUS
  <2>5. ContentsInv
    BY <2>1, <2>4 DEF ContentsInit, ContentsInv, HandsOverAll, ContentsAgree, ContentsTrue
  <2>6. QED
    BY <2>3, <2>5
<1>2. Inv /\ [PartsNext]_partsVars => Inv'
  BY PartsMove, StickyStep, ContentsStep
<1>3. Inv => FramesAsAsked
  BY DEF StickyInv, ContentsInv, FramesAsAsked
<1>4. QED
  BY <1>1, <1>2, <1>3, PTL DEF PartsSpec
-----------------------------------------------------------------------------
(* The decorations' planes.                                                *)

\* Each output's planes are planes, none is there twice or another output's.
PlanesApart ==
  /\ byCrtc \in [DecoCrtcs -> Seq(DOMAIN DecoPlanes)]
  /\ wearing \in [DecoCrtcs -> Seq(Worn \cup {Bare})]
  /\ \A c \in DecoCrtcs : Len(wearing[c]) <= Len(byCrtc[c])
  /\ \A c \in DecoCrtcs : \A i, j \in 1..Len(byCrtc[c]) :
       byCrtc[c][i] = byCrtc[c][j] => i = j
  /\ \A c, d \in DecoCrtcs : \A i \in 1..Len(byCrtc[c]), j \in 1..Len(byCrtc[d]) :
       byCrtc[c][i] = byCrtc[d][j] => c = d

OverlayInv ==
  /\ DOMAIN scans = DOMAIN DecoPlanes
  /\ PlanesApart
  /\ PlanesStand

\* What is put in stacking order are the planes of the set, each once.
LEMMA OrderedOnce ==
  ASSUME NEW S, S \subseteq Int \X DOMAIN DecoPlanes,
         \A a, b \in S : a[2] = b[2] => a = b
  PROVE  /\ InOrder(S) \in Seq({a[2] : a \in S})
         /\ Len(InOrder(S)) = Cardinality(S)
         /\ \A i, j \in 1..Cardinality(S) : InOrder(S)[i] = InOrder(S)[j] => i = j
<1> USE DecoAssumption
<1>1. IsFiniteSet(S)
  <2> DEFINE second == [a \in S |-> a[2]]
  <2>1. second \in [S -> DOMAIN DecoPlanes]
    OBVIOUS
  <2>2. \A a, b \in S : second[a] = second[b] => a = b
    OBVIOUS
  <2> HIDE DEF second
  <2>3. second \in Injection(S, DOMAIN DecoPlanes)
    BY <2>1, <2>2, Fun_IsInj
  <2>4. QED
    BY <2>3, FS_Injection
<1> DEFINE R == {pair \in S \X S : Below(pair[1], pair[2])}
<1>2. StrictOrder(S, R)
  <2>1. \A a \in S : a[1] \in Int /\ a[2] \in Int /\ a = <<a[1], a[2]>>
    OBVIOUS
  <2>2. \A a \in S : <<a, a>> \notin R
    BY <2>1 DEF Below
  <2>3. \A a, b \in S : a = b \/ <<a, b>> \in R \/ <<b, a>> \in R
    BY <2>1 DEF Below
  <2>4. \A a, b, c \in S : <<a, b>> \in R /\ <<b, c>> \in R => <<a, c>> \in R
    BY <2>1 DEF Below
  <2>5. QED
    BY <2>2, <2>3, <2>4 DEF StrictOrder
<1>3. \A a \in S : Before(S, R, a) = {b \in S : Below(b, a)}
  BY DEF Before
<1> DEFINE n == Cardinality(S)
           at(i) == CHOOSE a \in S : Cardinality({b \in S : Below(b, a)}) = i - 1
<1>4. ASSUME NEW i \in 1..n
      PROVE  at(i) \in S /\ Cardinality({b \in S : Below(b, at(i))}) = i - 1
  <2>1. \E a \in S : Cardinality(Before(S, R, a)) = i - 1
    <3> HIDE DEF R
    <3>1. QED
      BY <1>1, <1>2, RanksAreFilled
  <2>2. \E a \in S : Cardinality({b \in S : Below(b, a)}) = i - 1
    BY <1>3, <2>1
  <2>3. QED
    BY <2>2
<1>5. n \in Nat
  BY <1>1, FS_CardinalityType
<1> HIDE DEF n, at
<1>6. InOrder(S) = [i \in 1..n |-> at(i)[2]]
  BY DEF InOrder, n, at
<1>7. \A i \in 1..n : at(i)[2] \in {a[2] : a \in S}
  BY <1>4 DEF n
<1>8. ASSUME NEW i \in 1..n, NEW j \in 1..n, InOrder(S)[i] = InOrder(S)[j] PROVE i = j
  <2>1. at(i) = at(j)
    <3>1. InOrder(S)[i] = at(i)[2] /\ InOrder(S)[j] = at(j)[2]
      BY <1>6
    <3>2. at(i) \in S /\ at(j) \in S
      BY <1>4
    <3>3. QED
      BY <1>8, <3>1, <3>2
  <2>2. i - 1 = j - 1
    BY <1>4, <2>1
  <2>3. QED
    BY <1>5, <2>2
<1>9. InOrder(S) \in Seq({a[2] : a \in S}) /\ Len(InOrder(S)) = n
  <2> DEFINE T == {a[2] : a \in S}
  <2>1. InOrder(S) \in [1..n -> T]
    BY <1>6, <1>7
  <2> HIDE DEF T
  <2>2. InOrder(S) \in Seq(T)
    BY <1>5, <2>1
  <2>3. Len(InOrder(S)) = n
    BY <1>5, <2>1, <2>2
  <2>4. QED
    BY <2>2, <2>3 DEF T
<1>10. QED
  BY <1>8, <1>9 DEF n

\* Whatever an output reserves, gives back or shows, each output has its own.
LEMMA OverlayStep == OverlayInv /\ [OverlayNext]_overlayVars => OverlayInv'
<1> SUFFICES ASSUME OverlayInv, [OverlayNext]_overlayVars PROVE OverlayInv'
  OBVIOUS
<1> DEFINE PlanesOf(c) == {byCrtc[c][i] : i \in 1..Len(byCrtc[c])}
<1>1. /\ DOMAIN scans = DOMAIN DecoPlanes /\ PlanesApart /\ PlanesStand
      /\ \A p : p \in claimed <=> \E c \in DecoCrtcs : p \in PlanesOf(c)
      /\ \A c \in DecoCrtcs : Len(byCrtc[c]) \in Nat /\ Len(wearing[c]) \in Nat
  <2>1. DOMAIN scans = DOMAIN DecoPlanes /\ PlanesApart /\ PlanesStand
    BY DEF OverlayInv
  <2>2. claimed = UNION {PlanesOf(c) : c \in DecoCrtcs}
    BY <2>1 DEF PlanesStand
  <2> HIDE DEF PlanesOf
  <2>3. \A p : p \in claimed <=> \E c \in DecoCrtcs : p \in PlanesOf(c)
    BY <2>2
  <2>4. ASSUME NEW c \in DecoCrtcs PROVE Len(byCrtc[c]) \in Nat /\ Len(wearing[c]) \in Nat
    <3>1. byCrtc[c] \in Seq(DOMAIN DecoPlanes) /\ wearing[c] \in Seq(Worn \cup {Bare})
      BY <2>1 DEF PlanesApart
    <3>2. QED
      BY <3>1
  <2>5. QED
    BY <2>1, <2>3, <2>4
\* What is left of the claims when one output's planes are given back.
<1>2. ASSUME NEW crtc \in DecoCrtcs
      PROVE  \A p : p \in Released(byCrtc[crtc], claimed) <=>
                      \E c \in DecoCrtcs \ {crtc} : p \in PlanesOf(c)
  <2>1. \A p : p \in Released(byCrtc[crtc], claimed) <=> p \in claimed /\ p \notin PlanesOf(crtc)
    BY DEF Released
  <2>2. \A c \in DecoCrtcs \ {crtc} : \A p \in PlanesOf(c) : p \notin PlanesOf(crtc)
    BY <1>1 DEF PlanesApart
  <2> HIDE DEF PlanesOf
  <2>3. QED
    BY <1>1, <2>1, <2>2
<1>3. ASSUME NEW crtc \in DecoCrtcs, NEW got \in Seq(DOMAIN DecoPlanes),
             byCrtc' = [byCrtc EXCEPT ![crtc] = got],
             claimed' = Released(byCrtc[crtc], claimed) \cup {got[i] : i \in 1..Len(got)},
             wearing' = [wearing EXCEPT ![crtc] = <<>>], UNCHANGED scans,
             \A i, j \in 1..Len(got) : got[i] = got[j] => i = j,
             \A i \in 1..Len(got) : got[i] \notin Released(byCrtc[crtc], claimed)
      PROVE  OverlayInv'
  <2>1. /\ byCrtc'[crtc] = got /\ \A c \in DecoCrtcs \ {crtc} : byCrtc'[c] = byCrtc[c]
        /\ wearing'[crtc] = <<>> /\ \A c \in DecoCrtcs \ {crtc} : wearing'[c] = wearing[c]
        /\ byCrtc' \in [DecoCrtcs -> Seq(DOMAIN DecoPlanes)]
        /\ wearing' \in [DecoCrtcs -> Seq(Worn \cup {Bare})]
    <3>1. <<>> \in Seq(Worn \cup {Bare})
      OBVIOUS
    <3>2. byCrtc \in [DecoCrtcs -> Seq(DOMAIN DecoPlanes)]
          /\ wearing \in [DecoCrtcs -> Seq(Worn \cup {Bare})]
      BY <1>1 DEF PlanesApart
    <3>3. QED
      BY <1>3, <3>1, <3>2
  <2>2. Len(<<>>) = 0 /\ Len(got) \in Nat
    OBVIOUS
  <2>3. ASSUME NEW c \in DecoCrtcs \ {crtc}, NEW i \in 1..Len(byCrtc[c]), NEW j \in 1..Len(got)
        PROVE  byCrtc[c][i] # got[j]
    <3>1. byCrtc[c][i] \in PlanesOf(c)
      OBVIOUS
    <3> HIDE DEF PlanesOf
    <3>2. byCrtc[c][i] \in Released(byCrtc[crtc], claimed)
      BY <1>2, <3>1
    <3>3. QED
      BY <1>3, <3>2
  <2>4. PlanesApart'
    <3>a. ASSUME NEW c \in DecoCrtcs \ {crtc} PROVE byCrtc'[c] = byCrtc[c] /\ wearing'[c] = wearing[c]
      BY <2>1
    <3>b. byCrtc'[crtc] = got /\ Len(wearing'[crtc]) = 0
      BY <2>1, <2>2
    <3>1. ASSUME NEW c \in DecoCrtcs PROVE Len(wearing'[c]) <= Len(byCrtc'[c])
      <4>1. CASE c = crtc
        BY <2>2, <3>b, <4>1
      <4>2. CASE c # crtc
        BY <1>1, <3>a, <4>2 DEF PlanesApart
      <4>3. QED
        BY <4>1, <4>2
    <3>2. ASSUME NEW c \in DecoCrtcs, NEW i \in 1..Len(byCrtc'[c]), NEW j \in 1..Len(byCrtc'[c]),
                 byCrtc'[c][i] = byCrtc'[c][j]
          PROVE  i = j
      <4>1. CASE c = crtc
        BY <1>3, <3>2, <3>b, <4>1
      <4>2. CASE c # crtc
        BY <1>1, <3>2, <3>a, <4>2 DEF PlanesApart
      <4>3. QED
        BY <4>1, <4>2
    <3>3. ASSUME NEW c \in DecoCrtcs, NEW d \in DecoCrtcs, c # d,
                 NEW i \in 1..Len(byCrtc'[c]), NEW j \in 1..Len(byCrtc'[d])
          PROVE  byCrtc'[c][i] # byCrtc'[d][j]
      <4>1. CASE c = crtc
        <5>1. byCrtc'[c] = got /\ byCrtc'[d] = byCrtc[d] /\ d \in DecoCrtcs \ {crtc}
          BY <3>3, <3>a, <3>b, <4>1
        <5>2. QED
          BY <2>3, <3>3, <5>1
      <4>2. CASE d = crtc
        <5>1. byCrtc'[d] = got /\ byCrtc'[c] = byCrtc[c] /\ c \in DecoCrtcs \ {crtc}
          BY <3>3, <3>a, <3>b, <4>2
        <5>2. QED
          BY <2>3, <3>3, <5>1
      <4>3. CASE c # crtc /\ d # crtc
        BY <1>1, <2>1, <3>3, <4>3 DEF PlanesApart
      <4>4. QED
        BY <4>1, <4>2, <4>3
    <3>4. QED
      BY <2>1, <3>1, <3>2, <3>3 DEF PlanesApart
  <2>5. PlanesStand'
    <3>1. ASSUME NEW c \in DecoCrtcs, NEW i \in 1..Len(wearing'[c])
          PROVE  scans'[byCrtc'[c][i]] = IF wearing'[c][i] = Bare THEN Off
                   ELSE [surface |-> wearing'[c][i], crtc |-> c]
      <4>1. c # crtc
        BY <2>1, <2>2, <3>1
      <4>2. QED
        BY <1>1, <1>3, <2>1, <3>1, <4>1 DEF PlanesStand
    <3>2. claimed' = UNION {{byCrtc'[c][i] : i \in 1..Len(byCrtc'[c])} : c \in DecoCrtcs}
      <4>1. \A c \in DecoCrtcs \ {crtc} : {byCrtc'[c][i] : i \in 1..Len(byCrtc'[c])} = PlanesOf(c)
        BY <2>1
      <4> DEFINE New(c) == {byCrtc'[c][i] : i \in 1..Len(byCrtc'[c])}
      <4>2. New(crtc) = {got[i] : i \in 1..Len(got)}
        BY <2>1
      <4>3. \A c \in DecoCrtcs \ {crtc} : New(c) = PlanesOf(c)
        BY <4>1
      <4> HIDE DEF PlanesOf, New
      <4>4. \A p : p \in claimed' <=> \E c \in DecoCrtcs : p \in New(c)
        BY <1>2, <1>3, <4>2, <4>3
      <4>5. claimed' = UNION {New(c) : c \in DecoCrtcs}
        BY <4>4
      <4>6. QED
        BY <4>5 DEF New
    <3>3. QED
      BY <3>1, <3>2 DEF PlanesStand
  <2>6. QED
    BY <1>1, <1>3, <2>4, <2>5 DEF OverlayInv
<1>4. ASSUME NEW crtc \in DecoCrtcs, ReleasePlanes(crtc) PROVE OverlayInv'
  <2>1. <<>> \in Seq(DOMAIN DecoPlanes) /\ Len(<<>>) = 0
    OBVIOUS
  <2>2. claimed' = Released(byCrtc[crtc], claimed) \cup {<<>>[i] : i \in 1..Len(<<>>)}
    BY <1>4, <2>1 DEF ReleasePlanes
  <2>3. /\ \A i, j \in 1..Len(<<>>) : <<>>[i] = <<>>[j] => i = j
        /\ \A i \in 1..Len(<<>>) : <<>>[i] \notin Released(byCrtc[crtc], claimed)
    BY <2>1
  <2>4. QED
    BY <1>3, <1>4, <2>1, <2>2, <2>3 DEF ReleasePlanes
<1>5. ASSUME NEW crtc \in DecoCrtcs, NEW count \in 1..Cardinality(DOMAIN DecoPlanes),
             NEW above \in Floors, ReservePlanes(crtc, count, above)
      PROVE  OverlayInv'
  <2> DEFINE taken == Released(byCrtc[crtc], claimed)
             S == Candidates(crtc, taken, above)
             found == InOrder(S)
  <2>1. CASE Len(found) < count
    BY <1>4, <1>5, <2>1 DEF ReservePlanes
  <2>2. CASE ~(Len(found) < count)
    <3> DEFINE got == SubSeq(found, 1, count)
    <3>1. /\ byCrtc' = [byCrtc EXCEPT ![crtc] = got]
          /\ claimed' = taken \cup {found[i] : i \in 1..count}
          /\ wearing' = [wearing EXCEPT ![crtc] = <<>>] /\ UNCHANGED scans
      BY <1>5, <2>2 DEF ReservePlanes
    <3>2. /\ S \subseteq Int \X DOMAIN DecoPlanes
          /\ \A a \in S : a[2] \in DOMAIN DecoPlanes \ taken
          /\ \A a, b \in S : a[2] = b[2] => a = b
      <4>1. \A a \in S : /\ a \in Int \X DOMAIN DecoPlanes /\ a[2] \notin taken
                         /\ a[1] = IF DecoPlanes[a[2]].zpos = -1 THEN 0 ELSE DecoPlanes[a[2]].zpos
        BY DecoAssumption DEF Candidates
      <4> HIDE DEF S
      <4>2. QED
        BY <4>1
    <3> HIDE DEF S
    <3>3. /\ found \in Seq({a[2] : a \in S}) /\ Len(found) = Cardinality(S)
          /\ \A i, j \in 1..Len(found) : found[i] = found[j] => i = j
      BY <3>2, OrderedOnce
    <3> HIDE DEF found
    <3>4. count \in Nat /\ Len(found) \in Nat /\ count <= Len(found)
      <4>1. Cardinality(DOMAIN DecoPlanes) \in Nat
        BY DecoAssumption, FS_CardinalityType
      <4>2. Len(found) \in Nat
        BY <3>3
      <4>3. QED
        BY <2>2, <4>1, <4>2
    <3>5. \A i \in 1..Len(found) : found[i] \in DOMAIN DecoPlanes \ taken
      <4>1. \A i \in 1..Len(found) : found[i] \in {a[2] : a \in S}
        BY <3>3
      <4>2. QED
        BY <3>2, <4>1
    <3>6. /\ got \in Seq(DOMAIN DecoPlanes) /\ Len(got) = count
          /\ \A i \in 1..count : got[i] = found[i]
      <4>1. \A i \in 1..count : found[i] \in DOMAIN DecoPlanes
        BY <3>4, <3>5
      <4>2. /\ got \in Seq(DOMAIN DecoPlanes)
            /\ Len(got) = IF 1 <= count THEN count - 1 + 1 ELSE 0
            /\ \A i \in 1..count - 1 + 1 : got[i] = found[1 + i - 1]
        BY <3>4, <4>1, SubSeqProperties
      <4> HIDE DEF got
      <4>3. \A i \in 1..count : i \in 1..count - 1 + 1 /\ 1 + i - 1 = i
        BY <3>4
      <4>4. QED
        BY <3>4, <4>2, <4>3
    <3> HIDE DEF got
    <3>7. claimed' = taken \cup {got[i] : i \in 1..Len(got)}
      BY <3>1, <3>6
    <3>8. /\ \A i, j \in 1..Len(got) : got[i] = got[j] => i = j
          /\ \A i \in 1..Len(got) : got[i] \notin taken
      BY <3>3, <3>4, <3>5, <3>6
    <3>9. QED
      BY <1>3, <3>1, <3>6, <3>7, <3>8
  <2>3. QED
    BY <2>1, <2>2
<1>6. ASSUME NEW crtc \in DecoCrtcs, NEW n \in 0..2, NEW surfaces \in [1..n -> Worn \cup {Bare}],
             PresentOnPlanes(crtc, surfaces)
      PROVE  OverlayInv'
  <2> DEFINE slots == byCrtc[crtc]
             slotOf(p) == CHOOSE i \in 1..Len(slots) : slots[i] = p
  <2>1. /\ Len(surfaces) <= Len(slots) /\ UNCHANGED <<byCrtc, claimed>>
        /\ wearing' = [wearing EXCEPT ![crtc] = surfaces]
        /\ scans' = [p \in DOMAIN DecoPlanes |->
             IF p \notin PlanesOf(crtc) THEN scans[p]
             ELSE IF Arms(surfaces, slotOf(p))
               THEN [surface |-> surfaces[slotOf(p)], crtc |-> crtc] ELSE Off]
    BY <1>6 DEF PresentOnPlanes
  <2>2. surfaces \in Seq(Worn \cup {Bare}) /\ Len(surfaces) \in Nat
    OBVIOUS
  <2>3. /\ wearing' \in [DecoCrtcs -> Seq(Worn \cup {Bare})]
        /\ wearing'[crtc] = surfaces /\ \A c \in DecoCrtcs \ {crtc} : wearing'[c] = wearing[c]
    BY <1>1, <2>1, <2>2 DEF PlanesApart
  <2>4. PlanesApart'
    BY <1>1, <2>1, <2>3 DEF PlanesApart
  <2>5. ASSUME NEW c \in DecoCrtcs, NEW i \in 1..Len(wearing'[c])
        PROVE  scans'[byCrtc'[c][i]] = IF wearing'[c][i] = Bare THEN Off
                 ELSE [surface |-> wearing'[c][i], crtc |-> c]
    <3>1. i \in 1..Len(byCrtc[c]) /\ byCrtc[c][i] \in DOMAIN DecoPlanes /\ byCrtc[c][i] \in PlanesOf(c)
      <4>1. i \in 1..Len(byCrtc[c]) /\ byCrtc[c] \in Seq(DOMAIN DecoPlanes)
        BY <1>1, <2>1, <2>3, <2>4, <2>5 DEF PlanesApart
      <4>2. QED
        BY <4>1, ElementOfSeq
    <3>2. CASE c = crtc
      <4>1. slotOf(byCrtc[c][i]) = i
        BY <1>1, <3>1, <3>2 DEF PlanesApart
      <4>2. i <= Len(surfaces) /\ surfaces[i] = wearing'[c][i]
        BY <2>2, <2>3, <2>5, <3>2
      <4> HIDE DEF slotOf, slots
      <4>3. scans'[byCrtc[c][i]] = IF Arms(surfaces, i)
              THEN [surface |-> surfaces[i], crtc |-> crtc] ELSE Off
        BY <2>1, <3>1, <3>2, <4>1
      <4>4. QED
        BY <2>1, <3>2, <4>2, <4>3 DEF Arms
    <3>3. CASE c # crtc
      <4>1. byCrtc[c][i] \notin PlanesOf(crtc)
        BY <1>1, <3>1, <3>3 DEF PlanesApart
      <4> HIDE DEF PlanesOf, slotOf, slots
      <4>2. scans'[byCrtc[c][i]] = scans[byCrtc[c][i]]
        BY <2>1, <3>1, <4>1
      <4>3. wearing'[c] = wearing[c]
        BY <2>3, <3>3
      <4>4. QED
        BY <1>1, <2>1, <2>5, <4>2, <4>3 DEF PlanesStand
    <3>4. QED
      BY <3>2, <3>3
  <2>6. PlanesStand'
    <3>1. claimed' = UNION {{byCrtc'[c][i] : i \in 1..Len(byCrtc'[c])} : c \in DecoCrtcs}
      BY <1>1, <2>1 DEF PlanesStand
    <3>2. QED
      BY <2>5, <3>1 DEF PlanesStand
  <2>7. DOMAIN scans' = DOMAIN DecoPlanes
    BY <2>1
  <2>8. QED
    BY <2>4, <2>6, <2>7 DEF OverlayInv
<1>7. ASSUME UNCHANGED overlayVars PROVE OverlayInv'
  BY <1>1, <1>7 DEF overlayVars, OverlayInv, PlanesApart, PlanesStand
<1>8. QED
  BY <1>4, <1>5, <1>6, <1>7 DEF OverlayNext

-----------------------------------------------------------------------------
(* Decorations without planes.                                             *)

\* A decoration's slot, and its window.
SlotType == [armed : BOOLEAN, at : Int \X Int, shape : [w : Nat, h : Nat],
             generation : Nat, serial : Nat]
SurfaceType == [serial : Nat, generation : Nat]
WindowType == [at : Int \X Int, shape : [w : Nat, h : Nat], surface : SurfaceType]

SlotOver(slot, pixel) == slot.armed /\ CoversPixel(slot.at, slot.shape, pixel)

\* What a frame of these slots blends onto a pixel.
BlendOf(slots, pixel) ==
  [i \in {j \in 1..Len(slots) : SlotOver(slots[j], pixel)} |->
     [surface |-> [serial |-> slots[i].serial, generation |-> slots[i].generation],
      spot |-> <<pixel[1] - slots[i].at[1], pixel[2] - slots[i].at[2]>>]]

\* The framebuffer is the shadow buffer, and that holds the last frame's slots.
DeskInv ==
  /\ windows \in Seq(WindowType) /\ slotsShown \in Seq(SlotType)
  /\ surfacesMade \in Nat /\ mistaken \in BOOLEAN
  /\ fb = [p \in DeskPixels |-> deskShadow[p]]
  /\ ~mistaken => \A p \in DeskPixels : deskShadow[p] = BlendOf(slotsShown, p)

LEMMA SlotsAreTyped ==
  ASSUME windows \in Seq(WindowType)
  PROVE  /\ SlotsNow \in Seq(SlotType) /\ Len(SlotsNow) = Len(windows)
         /\ \A i \in 1..Len(windows) : SlotsNow[i] = SlotOf(windows[i]) /\ windows[i] \in WindowType
<1>1. Len(windows) \in Nat /\ \A i \in 1..Len(windows) : windows[i] \in WindowType
  BY ElementOfSeq
<1>2. \A w \in WindowType : SlotOf(w) \in SlotType
  BY DEF WindowType, SurfaceType, SlotType, SlotOf
<1>3. SlotsNow \in [1..Len(windows) -> SlotType]
  BY <1>1, <1>2 DEF SlotsNow
<1>4. SlotsNow \in Seq(SlotType)
  BY <1>1, <1>3
<1>5. Len(SlotsNow) = Len(windows)
  BY <1>1, <1>3, <1>4
<1>6. QED
  BY <1>1, <1>4, <1>5 DEF SlotsNow

\* What the frame blends is what its slots say.
LEMMA BlendsItsSlots ==
  ASSUME windows \in Seq(WindowType), NEW pixel
  PROVE  BlendOf(SlotsNow, pixel) = BlendedAt(pixel)
<1>1. /\ Len(SlotsNow) = Len(windows)
      /\ \A i \in 1..Len(windows) : SlotsNow[i] = SlotOf(windows[i]) /\ windows[i] \in WindowType
  BY SlotsAreTyped
<1>2. \A i \in 1..Len(windows) :
        SlotOver(SlotsNow[i], pixel) <=>
          windows[i].surface # Empty /\ CoversPixel(windows[i].at, windows[i].shape, pixel)
  <2>1. ASSUME NEW i \in 1..Len(windows)
        PROVE  /\ SlotsNow[i].armed = (windows[i].surface # Empty)
               /\ SlotsNow[i].at = windows[i].at /\ SlotsNow[i].shape = windows[i].shape
    <3>1. SlotsNow[i] = SlotOf(windows[i])
      BY <1>1
    <3>2. /\ SlotOf(windows[i]).armed = (windows[i].surface # Empty)
          /\ SlotOf(windows[i]).at = windows[i].at /\ SlotOf(windows[i]).shape = windows[i].shape
      BY DEF SlotOf
    <3>3. QED
      BY <3>1, <3>2
  <2>2. QED
    BY <2>1 DEF SlotOver
<1>3. {j \in 1..Len(SlotsNow) : SlotOver(SlotsNow[j], pixel)}
        = {i \in 1..Len(windows) : /\ windows[i].surface # Empty
                                   /\ CoversPixel(windows[i].at, windows[i].shape, pixel)}
  BY <1>1, <1>2
<1>4. ASSUME NEW i \in 1..Len(windows)
      PROVE  [surface |-> [serial |-> SlotsNow[i].serial, generation |-> SlotsNow[i].generation],
              spot |-> <<pixel[1] - SlotsNow[i].at[1], pixel[2] - SlotsNow[i].at[2]>>]
               = Look(windows[i], pixel)
  <2>1. /\ SlotsNow[i].serial = windows[i].surface.serial
        /\ SlotsNow[i].generation = windows[i].surface.generation
        /\ SlotsNow[i].at = windows[i].at
    <3>1. SlotsNow[i] = SlotOf(windows[i])
      BY <1>1
    <3>2. /\ SlotOf(windows[i]).serial = windows[i].surface.serial
          /\ SlotOf(windows[i]).generation = windows[i].surface.generation
          /\ SlotOf(windows[i]).at = windows[i].at
      BY DEF SlotOf
    <3>3. QED
      BY <3>1, <3>2
  <2>2. windows[i].surface = [serial |-> windows[i].surface.serial,
                              generation |-> windows[i].surface.generation]
    BY <1>1 DEF WindowType, SurfaceType
  <2>3. QED
    BY <2>1, <2>2 DEF Look
<1>5. QED
  BY <1>3, <1>4 DEF BlendOf, BlendedAt

\* The values of g on S, and d.
ValuesWith(g, S, d) == {g[s] : s \in S} \cup {d}

\* The bounds of slots before and after a frame are a rectangle, and have
\* every pixel of them.
LEMMA BoundsCover ==
  ASSUME NEW n \in Nat, NEW F \in [1..n -> SlotType], NEW G \in [1..n -> SlotType],
         NEW S, S \subseteq {F[i] : i \in 1..n} \cup {G[i] : i \in 1..n}
  PROVE  /\ BoundsOf(S).x \in Int /\ BoundsOf(S).y \in Int
         /\ BoundsOf(S).w \in Int /\ BoundsOf(S).h \in Int
         /\ \A slot \in S : \A p \in DeskPixels :
              CoversPixel(slot.at, slot.shape, p) => Within(BoundsOf(S), p)
<1>1. Desk.w \in Nat /\ Desk.h \in Nat
  BY DecoAssumption
<1>2. \A s \in SlotType : /\ s.at[1] \in Int /\ s.at[2] \in Int /\ s.shape.w \in Nat
                          /\ s.shape.h \in Nat
  BY DEF SlotType
<1>3. S \subseteq SlotType
  OBVIOUS
\* A function of the slots lies between bounds.
<1>4. ASSUME NEW g \in [SlotType -> Int] PROVE \E lo, hi \in Int : \A s \in S : lo <= g[s] /\ g[s] <= hi
  <2> DEFINE f == [i \in 1..n |-> g[F[i]]]
             e == [i \in 1..n |-> g[G[i]]]
  <2>1. f \in [1..n -> Int] /\ e \in [1..n -> Int]
    OBVIOUS
  <2>2. \A s \in S : \E i \in 1..n : g[s] = f[i] \/ g[s] = e[i]
    OBVIOUS
  <2> HIDE DEF f, e
  <2>3. PICK lo, hi \in Int : \A i \in 1..n : lo <= f[i] /\ f[i] <= hi
    BY <2>1, ValuesAreBounded
  <2>4. PICK low, high \in Int : \A i \in 1..n : low <= e[i] /\ e[i] <= high
    BY <2>1, ValuesAreBounded
  <2> DEFINE least == IF lo <= low THEN lo ELSE low
             most  == IF hi <= high THEN high ELSE hi
  <2>5. least \in Int /\ most \in Int /\ least <= lo /\ least <= low /\ hi <= most /\ high <= most
    OBVIOUS
  <2> HIDE DEF least, most
  <2>6. \A s \in S : least <= g[s] /\ g[s] <= most
    <3> SUFFICES ASSUME NEW s \in S PROVE least <= g[s] /\ g[s] <= most
      OBVIOUS
    <3>1. PICK i \in 1..n : g[s] = f[i] \/ g[s] = e[i]
      BY <2>2
    <3>2. CASE g[s] = f[i]
      <4>1. f[i] \in Int /\ lo <= f[i] /\ f[i] <= hi
        BY <2>1, <2>3
      <4>2. QED
        BY <2>3, <2>4, <2>5, <3>2, <4>1
    <3>3. CASE g[s] = e[i]
      <4>1. e[i] \in Int /\ low <= e[i] /\ e[i] <= high
        BY <2>1, <2>4
      <4>2. QED
        BY <2>3, <2>4, <2>5, <3>3, <4>1
    <3>4. QED
      BY <3>1, <3>2, <3>3
  <2>7. QED
    BY <2>5, <2>6
<1>5. ASSUME NEW g \in [SlotType -> Int], NEW d \in Int
      PROVE  /\ LeastOf(ValuesWith(g, S, d)) \in Int
             /\ \A s \in S : LeastOf(ValuesWith(g, S, d)) <= g[s]
             /\ MostOf(ValuesWith(g, S, d)) \in Int
             /\ \A s \in S : MostOf(ValuesWith(g, S, d)) >= g[s]
  <2> DEFINE T == {g[s] : s \in S} \cup {d}
  <2>1. PICK lo, hi \in Int : \A s \in S : lo <= g[s] /\ g[s] <= hi
    BY <1>4
  <2>2. T \in SUBSET Int /\ T # {}
    BY <1>3
  <2> DEFINE low == IF lo <= d THEN lo ELSE d
             high == IF d <= hi THEN hi ELSE d
  <2>3. low \in Int /\ high \in Int /\ \A x \in T : low <= x /\ x <= high
    BY <1>3, <2>1
  <2>4. d \in T /\ \A s \in S : g[s] \in T
    OBVIOUS
  <2> HIDE DEF T, low, high
  <2>5. \E x \in T : \A y \in T : x <= y
    BY <2>2, <2>3, LeastOfBounded
  <2>6. \E x \in T : \A y \in T : x >= y
    BY <2>2, <2>3, GreatestOfBounded
  <2>7. /\ LeastOf(T) \in T /\ \A y \in T : LeastOf(T) <= y
        /\ MostOf(T) \in T /\ \A y \in T : MostOf(T) >= y
    BY <2>5, <2>6 DEF LeastOf, MostOf
  <2>8. /\ LeastOf(T) \in Int /\ \A s \in S : LeastOf(T) <= g[s]
        /\ MostOf(T) \in Int /\ \A s \in S : MostOf(T) >= g[s]
    BY <2>2, <2>4, <2>7
  <2>9. QED
    BY <2>8 DEF T, ValuesWith
<1>6. ASSUME NEW a \in Int, NEW b \in Int
      PROVE  /\ LeastOf({a, b}) = IF a <= b THEN a ELSE b
             /\ MostOf({a, b}) = IF a >= b THEN a ELSE b
  BY DEF LeastOf, MostOf
<1> DEFINE x0 == LeastOf({s.at[1] : s \in S} \cup {Desk.w})
           y0 == LeastOf({s.at[2] : s \in S} \cup {Desk.h})
           x1 == MostOf({s.at[1] + s.shape.w : s \in S} \cup {0})
           y1 == MostOf({s.at[2] + s.shape.h : s \in S} \cup {0})
           left == MostOf({x0, 0})  right == LeastOf({x1, Desk.w})
           top == MostOf({y0, 0})   foot == LeastOf({y1, Desk.h})
<1>7. x0 \in Int /\ \A s \in S : x0 <= s.at[1]
  <2> DEFINE g == [s \in SlotType |-> s.at[1]]
  <2>1. g \in [SlotType -> Int] /\ \A s \in S : g[s] = s.at[1]
    BY <1>2, <1>3
  <2> HIDE DEF g
  <2>2. {g[s] : s \in S} = {s.at[1] : s \in S}
    BY <2>1
  <2>3. /\ LeastOf(ValuesWith(g, S, Desk.w)) \in Int
        /\ \A s \in S : LeastOf(ValuesWith(g, S, Desk.w)) <= g[s]
    <3>1. Desk.w \in Int /\ g \in [SlotType -> Int]
      BY <1>1, <2>1
    <3>2. QED
      BY <1>5, <3>1, Zenon
  <2>4. QED
    BY <2>1, <2>2, <2>3 DEF ValuesWith
<1>8. y0 \in Int /\ \A s \in S : y0 <= s.at[2]
  <2> DEFINE g == [s \in SlotType |-> s.at[2]]
  <2>1. g \in [SlotType -> Int] /\ \A s \in S : g[s] = s.at[2]
    BY <1>2, <1>3
  <2> HIDE DEF g
  <2>2. {g[s] : s \in S} = {s.at[2] : s \in S}
    BY <2>1
  <2>3. /\ LeastOf(ValuesWith(g, S, Desk.h)) \in Int
        /\ \A s \in S : LeastOf(ValuesWith(g, S, Desk.h)) <= g[s]
    <3>1. Desk.h \in Int /\ g \in [SlotType -> Int]
      BY <1>1, <2>1
    <3>2. QED
      BY <1>5, <3>1, Zenon
  <2>4. QED
    BY <2>1, <2>2, <2>3 DEF ValuesWith
<1>9. x1 \in Int /\ \A s \in S : x1 >= s.at[1] + s.shape.w
  <2> DEFINE g == [s \in SlotType |-> s.at[1] + s.shape.w]
  <2>1. g \in [SlotType -> Int] /\ \A s \in S : g[s] = s.at[1] + s.shape.w
    BY <1>2, <1>3
  <2> HIDE DEF g
  <2>2. {g[s] : s \in S} = {s.at[1] + s.shape.w : s \in S}
    BY <2>1
  <2>3. /\ MostOf(ValuesWith(g, S, 0)) \in Int
        /\ \A s \in S : MostOf(ValuesWith(g, S, 0)) >= g[s]
    <3>1. 0 \in Int /\ g \in [SlotType -> Int]
      BY <1>1, <2>1
    <3>2. QED
      BY <1>5, <3>1, Zenon
  <2>4. QED
    BY <2>1, <2>2, <2>3 DEF ValuesWith
<1>10. y1 \in Int /\ \A s \in S : y1 >= s.at[2] + s.shape.h
  <2> DEFINE g == [s \in SlotType |-> s.at[2] + s.shape.h]
  <2>1. g \in [SlotType -> Int] /\ \A s \in S : g[s] = s.at[2] + s.shape.h
    BY <1>2, <1>3
  <2> HIDE DEF g
  <2>2. {g[s] : s \in S} = {s.at[2] + s.shape.h : s \in S}
    BY <2>1
  <2>3. /\ MostOf(ValuesWith(g, S, 0)) \in Int
        /\ \A s \in S : MostOf(ValuesWith(g, S, 0)) >= g[s]
    <3>1. 0 \in Int /\ g \in [SlotType -> Int]
      BY <1>1, <2>1
    <3>2. QED
      BY <1>5, <3>1, Zenon
  <2>4. QED
    BY <2>1, <2>2, <2>3 DEF ValuesWith
<1> HIDE DEF x0, y0, x1, y1
<1>12. /\ left = (IF x0 >= 0 THEN x0 ELSE 0) /\ right = (IF x1 <= Desk.w THEN x1 ELSE Desk.w)
       /\ top = (IF y0 >= 0 THEN y0 ELSE 0) /\ foot = (IF y1 <= Desk.h THEN y1 ELSE Desk.h)
  <2>0. 0 \in Int /\ Desk.w \in Int /\ Desk.h \in Int /\ x0 \in Int /\ y0 \in Int
        /\ x1 \in Int /\ y1 \in Int
    BY <1>1, <1>7, <1>8, <1>9, <1>10
  <2>1. left = (IF x0 >= 0 THEN x0 ELSE 0)
    BY <1>6, <2>0
  <2>2. top = (IF y0 >= 0 THEN y0 ELSE 0)
    BY <1>6, <2>0
  <2>3. right = (IF x1 <= Desk.w THEN x1 ELSE Desk.w)
    BY <1>6, <2>0
  <2>4. foot = (IF y1 <= Desk.h THEN y1 ELSE Desk.h)
    BY <1>6, <2>0
  <2>5. QED
    BY <2>1, <2>2, <2>3, <2>4
<1> HIDE DEF left, right, top, foot
<1>13. left \in Int /\ right \in Int /\ top \in Int /\ foot \in Int
  BY <1>1, <1>7, <1>8, <1>9, <1>10, <1>12
<1>14. BoundsOf(S) = IF right <= left \/ foot <= top THEN NoDamage
                     ELSE [x |-> left, y |-> top, w |-> right - left, h |-> foot - top]
  BY DEF BoundsOf, x0, y0, x1, y1, left, right, top, foot
<1>15. ASSUME NEW slot \in S, NEW p \in DeskPixels, CoversPixel(slot.at, slot.shape, p)
       PROVE  Within(BoundsOf(S), p)
  <2>1. /\ p[1] \in Int /\ 0 <= p[1] /\ p[1] < Desk.w
        /\ p[2] \in Int /\ 0 <= p[2] /\ p[2] < Desk.h
    BY <1>1 DEF DeskPixels
  <2>2. /\ slot.at[1] <= p[1] /\ p[1] < slot.at[1] + slot.shape.w
        /\ slot.at[2] <= p[2] /\ p[2] < slot.at[2] + slot.shape.h
        /\ slot.at[1] \in Int /\ slot.at[2] \in Int /\ slot.shape.w \in Nat /\ slot.shape.h \in Nat
    BY <1>2, <1>3, <1>15 DEF CoversPixel
  <2>3. left <= p[1]
    BY <1>7, <1>12, <2>1, <2>2
  <2>4. top <= p[2]
    BY <1>8, <1>12, <2>1, <2>2
  <2>5. p[1] < right
    BY <1>1, <1>9, <1>12, <2>1, <2>2
  <2>6. p[2] < foot
    BY <1>1, <1>10, <1>12, <2>1, <2>2
  <2>7. BoundsOf(S) = [x |-> left, y |-> top, w |-> right - left, h |-> foot - top]
    BY <1>13, <1>14, <2>1, <2>3, <2>4, <2>5, <2>6
  <2>8. QED
    BY <1>13, <2>1, <2>3, <2>4, <2>5, <2>6, <2>7 DEF Within, CoversPixel
<1>16. QED
  BY <1>13, <1>14, <1>15 DEF NoDamage

\* A pixel no changed decoration touches is blended as before.
LEMMA UntouchedPixels ==
  ASSUME NEW before \in Seq(SlotType), NEW after \in Seq(SlotType), Len(before) = Len(after),
         NEW p,
         \A i \in 1..Len(after) :
           ~Changed(before[i], after[i]) => before[i].serial = after[i].serial,
         \A i \in 1..Len(after) : Changed(before[i], after[i]) =>
           ~SlotOver(before[i], p) /\ ~SlotOver(after[i], p)
  PROVE  BlendOf(before, p) = BlendOf(after, p)
<1>1. ASSUME NEW i \in 1..Len(after)
      PROVE  /\ SlotOver(before[i], p) <=> SlotOver(after[i], p)
             /\ SlotOver(after[i], p) =>
                  before[i].at = after[i].at /\ before[i].serial = after[i].serial
                  /\ before[i].generation = after[i].generation
  <2>1. CASE Changed(before[i], after[i])
    BY <2>1
  <2>2. CASE ~Changed(before[i], after[i])
    <3>1. before[i].serial = after[i].serial
      BY <2>2
    <3>2. (before[i].armed /\ after[i].armed) \/ (~before[i].armed /\ ~after[i].armed)
      <4>1. before[i] \in SlotType /\ after[i] \in SlotType
        BY ElementOfSeq
      <4>2. before[i].armed \in BOOLEAN /\ after[i].armed \in BOOLEAN
        BY <4>1 DEF SlotType
      <4>3. QED
        BY <2>2, <4>2 DEF Changed
    <3>3. after[i].armed =>
            before[i].at = after[i].at /\ before[i].shape = after[i].shape
            /\ before[i].generation = after[i].generation
      <4>1. after[i].armed => \A field \in {"at", "shape", "generation"} :
                                before[i][field] = after[i][field]
        BY <2>2 DEF Changed
      <4>2. QED
        BY <4>1
    <3>4. QED
      BY <3>1, <3>2, <3>3 DEF SlotOver
  <2>3. QED
    BY <2>1, <2>2
<1>2. {j \in 1..Len(before) : SlotOver(before[j], p)} = {j \in 1..Len(after) : SlotOver(after[j], p)}
  BY <1>1
<1>3. \A i \in {j \in 1..Len(after) : SlotOver(after[j], p)} :
        [surface |-> [serial |-> before[i].serial, generation |-> before[i].generation],
         spot |-> <<p[1] - before[i].at[1], p[2] - before[i].at[2]>>]
        = [surface |-> [serial |-> after[i].serial, generation |-> after[i].generation],
           spot |-> <<p[1] - after[i].at[1], p[2] - after[i].at[2]>>]
  BY <1>1
<1>4. QED
  BY <1>2, <1>3 DEF BlendOf

\* A frame damages a rectangle, and every pixel of the slots that changed.
LEMMA RepaintsWhatChanged ==
  ASSUME NEW before \in Seq(SlotType), NEW after \in Seq(SlotType)
  PROVE  LET damage == ComputeDamage(before, after) IN
         /\ damage.x \in Int /\ damage.y \in Int /\ damage.w \in Int /\ damage.h \in Int
         /\ damage = WholeDesk => \A p \in DeskPixels : Within(damage, p)
         /\ damage # WholeDesk =>
              /\ Len(before) = Len(after)
              /\ \A p \in DeskPixels : \A i \in 1..Len(after) :
                   ~Within(damage, p) /\ Changed(before[i], after[i]) =>
                     ~SlotOver(before[i], p) /\ ~SlotOver(after[i], p)
<1> DEFINE damage == ComputeDamage(before, after)
           n == Len(after)
           S == UNION {Footprints(before[i], after[i]) :
                       i \in {j \in 1..n : Changed(before[j], after[j])}}
<1>1. Desk.w \in Nat /\ Desk.h \in Nat
  BY DecoAssumption
<1>2. \A p \in DeskPixels : Within(WholeDesk, p)
  BY <1>1 DEF DeskPixels, Within, CoversPixel, WholeDesk
<1>3. /\ WholeDesk.x \in Int /\ WholeDesk.y \in Int /\ WholeDesk.w \in Int /\ WholeDesk.h \in Int
  BY <1>1 DEF WholeDesk
<1>4. CASE Len(before) # Len(after) \/ before = <<>>
  BY <1>2, <1>3, <1>4 DEF ComputeDamage
<1>5. CASE ~(Len(before) # Len(after) \/ before = <<>>)
  <2>1. n \in Nat /\ Len(before) = n /\ damage = BoundsOf(S)
    BY <1>5 DEF ComputeDamage
  <2>2. before \in [1..n -> SlotType] /\ after \in [1..n -> SlotType]
    BY <2>1
  <2>3. S \subseteq {before[i] : i \in 1..n} \cup {after[i] : i \in 1..n}
    BY DEF Footprints
  <2>4. ASSUME NEW i \in 1..n, Changed(before[i], after[i])
        PROVE  /\ before[i].armed => before[i] \in S
               /\ after[i].armed => after[i] \in S
    BY <2>4 DEF Footprints
  <2> HIDE DEF S, n
  <2>5. /\ BoundsOf(S).x \in Int /\ BoundsOf(S).y \in Int
        /\ BoundsOf(S).w \in Int /\ BoundsOf(S).h \in Int
        /\ \A slot \in S : \A p \in DeskPixels :
             CoversPixel(slot.at, slot.shape, p) => Within(BoundsOf(S), p)
    BY <2>1, <2>2, <2>3, BoundsCover
  <2> HIDE DEF damage
  <2>6. ASSUME NEW p \in DeskPixels, NEW i \in 1..n, ~Within(damage, p),
               Changed(before[i], after[i])
        PROVE  ~SlotOver(before[i], p) /\ ~SlotOver(after[i], p)
    BY <2>1, <2>4, <2>5, <2>6 DEF SlotOver
  <2>7. damage = WholeDesk => \A p \in DeskPixels : Within(damage, p)
    BY <1>2
  <2>8. QED
    BY <2>1, <2>5, <2>6, <2>7 DEF damage, n
<1>6. QED
  BY <1>4, <1>5

\* A frame leaves the shadow buffer with its slots, and the framebuffer so.
LEMMA FrameStep == DeskInv /\ PresentOnDesk => DeskInv'
<1> SUFFICES ASSUME DeskInv, PresentOnDesk PROVE DeskInv'
  OBVIOUS
<1> DEFINE after == SlotsNow
           damage == ComputeDamage(slotsShown, after)
<1>1. /\ windows \in Seq(WindowType) /\ slotsShown \in Seq(SlotType)
      /\ surfacesMade \in Nat /\ mistaken \in BOOLEAN
      /\ fb = [p \in DeskPixels |-> deskShadow[p]]
      /\ ~mistaken => \A p \in DeskPixels : deskShadow[p] = BlendOf(slotsShown, p)
  BY DEF DeskInv
<1>2. after \in Seq(SlotType) /\ Len(after) = Len(windows) /\ Len(windows) \in Nat
  BY <1>1, SlotsAreTyped
<1>3. \A p : BlendOf(after, p) = BlendedAt(p)
  BY <1>1, BlendsItsSlots
<1>4. /\ deskShadow' = [p \in DeskPixels |->
                          IF Within(damage, p) THEN BlendedAt(p) ELSE deskShadow[p]]
      /\ fb' = [p \in DeskPixels |->
                  IF ~IsEmpty(damage) /\ damage.y <= p[2] /\ p[2] < damage.y + damage.h
                    THEN deskShadow'[p] ELSE fb[p]]
      /\ slotsShown' = after
      /\ mistaken' = (/\ damage # WholeDesk
                      /\ mistaken \/ \E i \in 1..Len(windows) :
                           /\ ~Changed(slotsShown[i], after[i])
                           /\ slotsShown[i].serial # after[i].serial)
      /\ UNCHANGED <<windows, surfacesMade>>
  BY DEF PresentOnDesk, ComposeDesk
<1> HIDE DEF after
<1>5. /\ damage.x \in Int /\ damage.y \in Int /\ damage.w \in Int /\ damage.h \in Int
      /\ damage = WholeDesk => \A p \in DeskPixels : Within(damage, p)
      /\ damage # WholeDesk =>
           /\ Len(slotsShown) = Len(after)
           /\ \A p \in DeskPixels : \A i \in 1..Len(after) :
                ~Within(damage, p) /\ Changed(slotsShown[i], after[i]) =>
                  ~SlotOver(slotsShown[i], p) /\ ~SlotOver(after[i], p)
  BY <1>1, <1>2, RepaintsWhatChanged
<1> HIDE DEF damage
<1>6. ASSUME NEW p \in DeskPixels, Within(damage, p)
      PROVE  ~IsEmpty(damage) /\ damage.y <= p[2] /\ p[2] < damage.y + damage.h
  <2>1. p[1] \in Int /\ p[2] \in Int
    BY DecoAssumption DEF DeskPixels
  <2>2. /\ damage.x <= p[1] /\ p[1] < damage.x + damage.w
        /\ damage.y <= p[2] /\ p[2] < damage.y + damage.h
    BY <1>6 DEF Within, CoversPixel
  <2>3. QED
    BY <1>5, <2>1, <2>2 DEF IsEmpty
<1>7. \A p \in DeskPixels : fb'[p] = deskShadow'[p]
  BY <1>1, <1>4, <1>6
<1>8. fb' = [p \in DeskPixels |-> deskShadow'[p]]
  BY <1>4, <1>7
<1>9. ASSUME ~mistaken', NEW p \in DeskPixels PROVE deskShadow'[p] = BlendOf(slotsShown', p)
  <2>1. CASE Within(damage, p)
    BY <1>3, <1>4, <2>1
  <2>2. CASE ~Within(damage, p)
    <3>1. damage # WholeDesk
      BY <1>5, <2>2
    <3>2. ~mistaken /\ \A i \in 1..Len(windows) :
            ~Changed(slotsShown[i], after[i]) => slotsShown[i].serial = after[i].serial
      BY <1>4, <1>9, <3>1
    <3>3. /\ Len(slotsShown) = Len(after)
          /\ \A i \in 1..Len(after) : Changed(slotsShown[i], after[i]) =>
               ~SlotOver(slotsShown[i], p) /\ ~SlotOver(after[i], p)
      BY <1>5, <2>2, <3>1
    <3>4. BlendOf(slotsShown, p) = BlendOf(after, p)
      BY <1>1, <1>2, <3>2, <3>3, UntouchedPixels
    <3>5. deskShadow'[p] = deskShadow[p] /\ deskShadow[p] = BlendOf(slotsShown, p)
      BY <1>1, <1>4, <2>2, <3>2
    <3>6. QED
      BY <1>4, <3>4, <3>5
  <2>3. QED
    BY <2>1, <2>2
<1>10. mistaken' \in BOOLEAN
  BY <1>4
<1>11. QED
  BY <1>1, <1>2, <1>4, <1>8, <1>9, <1>10 DEF DeskInv

LEMMA EmptyIsTyped == Empty \in SurfaceType
  BY DEF Empty, SurfaceType

LEMMA DeskStart == DeskInit => DeskInv
<1> SUFFICES ASSUME DeskInit PROVE DeskInv
  OBVIOUS
<1>1. /\ windows = <<>> /\ slotsShown = <<>> /\ mistaken = FALSE /\ surfacesMade = 0
      /\ deskShadow = [p \in DeskPixels |-> <<>>] /\ fb = [p \in DeskPixels |-> <<>>]
  BY DEF DeskInit
<1>2. \A p : BlendOf(<<>>, p) = <<>>
  <2>1. \A p : {j \in 1..Len(<<>>) : SlotOver(<<>>[j], p)} = {}
    OBVIOUS
  <2>2. \A p : DOMAIN BlendOf(<<>>, p) = {} /\ BlendOf(<<>>, p) = [i \in {} |-> i]
    BY <2>1 DEF BlendOf
  <2>3. <<>> = [i \in {} |-> i]
    OBVIOUS
  <2>4. QED
    BY <2>2, <2>3
<1>3. windows \in Seq(WindowType) /\ slotsShown \in Seq(SlotType)
  BY <1>1
<1>4. fb = [p \in DeskPixels |-> deskShadow[p]]
  BY <1>1
<1>5. \A p \in DeskPixels : deskShadow[p] = BlendOf(slotsShown, p)
  BY <1>1, <1>2
<1>6. QED
  BY <1>1, <1>3, <1>4, <1>5 DEF DeskInv

\* Between frames only the windows change.
LEMMA DeskStep == DeskInv /\ [DeskNext]_deskVars => DeskInv'
<1> SUFFICES ASSUME DeskInv, [DeskNext]_deskVars PROVE DeskInv'
  OBVIOUS
<1>1. /\ windows \in Seq(WindowType) /\ surfacesMade \in Nat /\ Len(windows) \in Nat
      /\ \A i \in 1..Len(windows) : windows[i] \in WindowType
  BY DEF DeskInv
<1>2. ASSUME windows' \in Seq(WindowType), surfacesMade' \in Nat,
             UNCHANGED <<slotsShown, mistaken, deskShadow, fb>>
      PROVE  DeskInv'
  BY <1>2 DEF DeskInv
<1>3. NewSurface \in SurfaceType /\ Empty \in SurfaceType
  BY <1>1, EmptyIsTyped DEF NewSurface, SurfaceType
<1>4. ASSUME NEW at \in Spots, NEW shape \in Shapes, Opens(at, shape) PROVE DeskInv'
  <2>1. [at |-> at, shape |-> shape, surface |-> NewSurface] \in WindowType
    BY <1>3, DecoAssumption DEF WindowType
  <2>2. windows' \in Seq(WindowType)
    BY <1>1, <1>4, <2>1, AppendProperties DEF Opens
  <2>3. QED
    BY <1>1, <1>2, <1>4, <2>2 DEF Opens
<1>5. ASSUME NEW i \in 1..Len(windows) PROVE
        /\ ClosesWindow(i) => DeskInv'
        /\ \A at \in Spots : Moves(i, at) => DeskInv'
        /\ \A shape \in Shapes : Resizes(i, shape) => DeskInv'
        /\ Repaints(i) => DeskInv'
        /\ Forgets(i) => DeskInv'
        /\ Recreates(i) => DeskInv'
  <2>1. ASSUME ClosesWindow(i) PROVE DeskInv'
    <3> DEFINE head == SubSeq(windows, 1, i - 1)
               tail == SubSeq(windows, i + 1, Len(windows))
    <3>1. i \in Int /\ 1 <= i /\ i <= Len(windows)
      BY <1>1
    <3>2. head \in Seq(WindowType) /\ tail \in Seq(WindowType)
      <4>1. \A k \in 1..i - 1 : windows[k] \in WindowType
        BY <1>1, <3>1
      <4>2. \A k \in i + 1..Len(windows) : windows[k] \in WindowType
        BY <1>1, <3>1
      <4>3. i - 1 \in Int /\ i + 1 \in Int
        BY <3>1
      <4>4. head \in Seq(WindowType)
        BY <4>1, <4>3, SubSeqProperties
      <4>5. tail \in Seq(WindowType)
        BY <1>1, <4>2, <4>3, SubSeqProperties
      <4>6. QED
        BY <4>4, <4>5
    <3>3. windows' = head \o tail /\ surfacesMade' = surfacesMade
          /\ UNCHANGED <<slotsShown, mistaken, deskShadow, fb>>
      BY <2>1 DEF ClosesWindow
    <3> HIDE DEF head, tail
    <3>4. QED
      BY <1>1, <1>2, <3>2, <3>3, ConcatProperties
  <2>2. ASSUME NEW window \in WindowType, windows' = [windows EXCEPT ![i] = window]
        PROVE  windows' \in Seq(WindowType)
    BY <1>1, <2>2
  <2>3. /\ windows[i] \in WindowType /\ windows[i].surface \in SurfaceType
        /\ windows[i].surface.generation \in Nat
    BY <1>1 DEF WindowType, SurfaceType
  <2>4. ASSUME NEW at \in Spots, Moves(i, at) PROVE DeskInv'
    <3>1. [windows[i] EXCEPT !.at = at] \in WindowType
      BY <2>3, DecoAssumption DEF WindowType
    <3>2. windows' = [windows EXCEPT ![i] = [windows[i] EXCEPT !.at = at]]
      BY <2>4 DEF Moves
    <3>3. QED
      BY <1>1, <1>2, <2>2, <2>4, <3>1, <3>2 DEF Moves
  <2>5. ASSUME NEW shape \in Shapes, Resizes(i, shape) PROVE DeskInv'
    <3> DEFINE window == [windows[i] EXCEPT !.shape = shape, !.surface = NewSurface]
    <3>1. window \in WindowType
      BY <1>3, <2>3, DecoAssumption DEF WindowType
    <3>2. windows' = [windows EXCEPT ![i] = window]
      BY <1>1, <2>5 DEF Resizes
    <3>3. QED
      BY <1>1, <1>2, <2>2, <2>5, <3>1, <3>2 DEF Resizes
  <2>6. ASSUME Repaints(i) PROVE DeskInv'
    <3> DEFINE window == [windows[i] EXCEPT !.surface.generation = @ + 1]
    <3> DEFINE w == windows[i]
               repainted == [w.surface EXCEPT !.generation = @ + 1]
    <3>4. repainted \in SurfaceType
      BY <2>3 DEF SurfaceType
    <3>5. window = [w EXCEPT !.surface = repainted]
      OBVIOUS
    <3> HIDE DEF window, repainted
    <3>1. window \in WindowType
      BY <2>3, <3>4, <3>5 DEF WindowType
    <3> USE DEF window
    <3>2. windows' = [windows EXCEPT ![i] = window]
      BY <1>1, <2>6 DEF Repaints
    <3>3. QED
      BY <1>1, <1>2, <2>2, <2>6, <3>1, <3>2 DEF Repaints
  <2>7. ASSUME Forgets(i) PROVE DeskInv'
    <3>1. [windows[i] EXCEPT !.surface = Empty] \in WindowType
      BY <1>3, <2>3 DEF WindowType
    <3>2. windows' = [windows EXCEPT ![i] = [windows[i] EXCEPT !.surface = Empty]]
      BY <2>7 DEF Forgets
    <3>3. QED
      BY <1>1, <1>2, <2>2, <2>7, <3>1, <3>2 DEF Forgets
  <2>8. ASSUME Recreates(i) PROVE DeskInv'
    <3>1. [windows[i] EXCEPT !.surface = NewSurface] \in WindowType
      BY <1>3, <2>3 DEF WindowType
    <3>2. windows' = [windows EXCEPT ![i] = [windows[i] EXCEPT !.surface = NewSurface]]
      BY <2>8 DEF Recreates
    <3>3. QED
      BY <1>1, <1>2, <2>2, <2>8, <3>1, <3>2 DEF Recreates
  <2>9. QED
    BY <2>1, <2>4, <2>5, <2>6, <2>7, <2>8
<1>6. ASSUME UNCHANGED deskVars PROVE DeskInv'
  BY <1>6 DEF deskVars, DeskInv
<1>7. QED
  BY <1>4, <1>5, <1>6, FrameStep DEF DeskNext

\* Shown as it is, the desk has every decoration.
LEMMA DeskIsWhole == DeskInv => DeskWhole
<1> SUFFICES ASSUME DeskInv, slotsShown = SlotsNow, ~mistaken, NEW p \in DeskPixels
    PROVE  fb[p] = BlendedAt(p)
  BY DEF DeskWhole
<1>1. windows \in Seq(WindowType) /\ fb[p] = deskShadow[p] /\ deskShadow[p] = BlendOf(slotsShown, p)
  BY DEF DeskInv
<1>2. QED
  BY <1>1, BlendsItsSlots

-----------------------------------------------------------------------------
(* Transitions.                                                            *)

TrackType  == [start : Int, progress : Int, elapsed : 0..Duration, running : BOOLEAN]
HoverNames == Buttons \cup {NoHover}
PatchKeys  == {Blurred(shape) : shape \in 1..2} \cup {Focused(shape) : shape \in 1..2}

AnimTypes ==
  /\ aims \in [focus : BOOLEAN, hover : HoverNames]
  /\ tracks \in [focus : TrackType, hover : TrackType]
  /\ unchanged \in [focus : 0..Duration, hover : 0..Duration]
  /\ painted \in HoverNames /\ patches \in Seq(PatchKeys)

\* A track runs only as long as the caller has not changed its mind, and one
\* that does not has arrived.
TracksInTime ==
  /\ tracks.focus.running =>
       tracks.focus.elapsed = unchanged.focus /\ unchanged.focus < Duration
  /\ tracks.hover.running =>
       tracks.hover.elapsed = unchanged.hover /\ unchanged.hover < Duration
  /\ ~tracks.focus.running => tracks.focus.progress = FocusTarget(aims.focus)
  /\ ~tracks.hover.running =>
       tracks.hover.progress = (IF aims.hover = NoHover THEN 0 ELSE Full)

\* The button aimed at is the one painted, and one left is painted till it is dark.
PaintedInTime ==
  /\ aims.hover # NoHover => painted = aims.hover
  /\ tracks.hover.running => painted # NoHover
  /\ ~tracks.hover.running => painted = aims.hover

ShadowsDrawn == ShadowCapacity >= 2 /\ drawn # Undrawn => drawn.shadow # "none"

AnimInv == AnimTypes /\ TracksInTime /\ PaintedInTime /\ ShadowsDrawn

LEMMA EasedIsWhole == ASSUME NEW elapsed \in 0..Duration PROVE Eased(elapsed) \in Int
<1>1. Duration \in Nat \ {0} /\ elapsed \in Int
  BY AnimAssumption
<1>2. ASSUME NEW a \in Nat \ {0}, NEW b \in Nat \ {0} PROVE a * b \in Nat \ {0}
  OBVIOUS
<1>3. Duration * Duration \in Nat \ {0}
  BY <1>1, <1>2
<1>4. Duration * Duration * Duration \in Nat \ {0}
  BY <1>1, <1>2, <1>3
<1> DEFINE inverse == Duration - elapsed
           cube == Full * inverse * inverse * inverse
           full == Duration * Duration * Duration
<1>5. cube \in Int
  BY <1>1 DEF Full
<1>6. Eased(elapsed) = Full - cube \div full
  BY DEF Eased
<1> HIDE DEF cube, full
<1>7. cube \div full \in Int
  BY <1>4, <1>5 DEF full
<1>8. QED
  BY <1>6, <1>7 DEF Full

LEMMA AdvanceMoves ==
  ASSUME NEW track \in TrackType, NEW dt \in Nat, NEW target \in Int
  PROVE  /\ Advance(track, dt, target) \in TrackType
         /\ ~track.running => Advance(track, dt, target) = track
         /\ track.running =>
              /\ Advance(track, dt, target).elapsed =
                   IF track.elapsed + dt < Duration THEN track.elapsed + dt ELSE Duration
              /\ Advance(track, dt, target).running <=> track.elapsed + dt < Duration
              /\ ~(track.elapsed + dt < Duration) => Advance(track, dt, target).progress = target
<1> DEFINE elapsed == IF track.elapsed + dt < Duration THEN track.elapsed + dt ELSE Duration
           moved == track.start + ((target - track.start) * Eased(elapsed)) \div Full
<1>1. Duration \in Nat \ {0} /\ track.elapsed \in Nat /\ track.start \in Int
  BY AnimAssumption DEF TrackType
<1>2. elapsed \in 0..Duration /\ (elapsed = Duration <=> ~(track.elapsed + dt < Duration))
  BY <1>1
<1> HIDE DEF elapsed
<1>3. moved \in Int
  <2>1. Eased(elapsed) \in Int
    BY <1>2, EasedIsWhole
  <2>2. (target - track.start) * Eased(elapsed) \in Int
    BY <1>1, <2>1
  <2>3. \A a \in Int : a \div 8 \in Int
    OBVIOUS
  <2>4. ((target - track.start) * Eased(elapsed)) \div Full \in Int
    BY <2>2, <2>3 DEF Full
  <2>5. QED
    BY <1>1, <2>4
<1> HIDE DEF moved
<1>4. Advance(track, dt, target) =
        IF ~track.running THEN track
        ELSE IF elapsed = Duration
          THEN [track EXCEPT !.elapsed = elapsed, !.progress = target, !.running = FALSE]
        ELSE [track EXCEPT !.elapsed = elapsed, !.progress = moved]
  BY DEF Advance, elapsed, moved
<1>5. CASE ~track.running
  BY <1>4, <1>5
<1>6. CASE track.running /\ elapsed = Duration
  <2>1. Advance(track, dt, target) =
          [track EXCEPT !.elapsed = elapsed, !.progress = target, !.running = FALSE]
    BY <1>4, <1>6
  <2>2. Advance(track, dt, target) \in TrackType
    BY <1>2, <2>1 DEF TrackType
  <2>3. /\ Advance(track, dt, target).elapsed = elapsed
        /\ Advance(track, dt, target).running = FALSE
        /\ Advance(track, dt, target).progress = target
    BY <2>1 DEF TrackType
  <2>4. QED
    BY <1>2, <1>6, <2>2, <2>3 DEF elapsed
<1>7. CASE track.running /\ elapsed # Duration
  <2>1. Advance(track, dt, target) = [track EXCEPT !.elapsed = elapsed, !.progress = moved]
    BY <1>4, <1>7
  <2>2. Advance(track, dt, target) \in TrackType
    BY <1>2, <1>3, <2>1 DEF TrackType
  <2>3. /\ Advance(track, dt, target).elapsed = elapsed
        /\ Advance(track, dt, target).running = track.running
    BY <2>1 DEF TrackType
  <2>4. QED
    BY <1>2, <1>7, <2>2, <2>3 DEF elapsed
<1>8. QED
  BY <1>5, <1>6, <1>7

\* A patch that was asked for is the newest, and none but the oldest goes.
LEMMA EnsureKeeps ==
  ASSUME NEW order \in Seq(PatchKeys), NEW key \in PatchKeys
  PROVE  /\ Ensure(order, key) \in Seq(PatchKeys) /\ Len(Ensure(order, key)) >= 1
         /\ Ensure(order, key)[Len(Ensure(order, key))] = key
         /\ ShadowCapacity >= 2 /\ Len(order) >= 1 /\ order[Len(order)] # key =>
              order[Len(order)] \in ToSet(Ensure(order, key))
<1> DEFINE n == Len(order)
           result == Ensure(order, key)
<1>1. n \in Nat /\ \A i \in 1..n : order[i] \in PatchKeys
  BY ElementOfSeq
\* What is result of the order has its newest.
<1>2. ASSUME NEW rest \in Seq(PatchKeys), result = Append(rest, key),
             ShadowCapacity >= 2 /\ n >= 1 /\ order[n] # key =>
               Len(rest) >= 1 /\ rest[Len(rest)] = order[n]
      PROVE  /\ result \in Seq(PatchKeys) /\ Len(result) >= 1 /\ result[Len(result)] = key
             /\ ShadowCapacity >= 2 /\ n >= 1 /\ order[n] # key => order[n] \in ToSet(result)
  <2>1. /\ result \in Seq(PatchKeys) /\ Len(rest) \in Nat /\ Len(result) = Len(rest) + 1
        /\ \A i \in 1..Len(rest) : result[i] = rest[i]
        /\ result[Len(rest) + 1] = key
    BY <1>2, AppendProperties
  <2> HIDE DEF result
  <2>2. ASSUME ShadowCapacity >= 2 /\ n >= 1 /\ order[n] # key PROVE order[n] \in ToSet(result)
    <3>1. result[Len(rest)] = order[n] /\ Len(rest) \in DOMAIN result
      BY <1>2, <2>1, <2>2
    <3>2. QED
      BY <3>1 DEF ToSet
  <2>3. QED
    BY <2>1, <2>2
<1>3. CASE Contains(order, key)
  <2> DEFINE at == PlaceOf(order, key)
             head == SubSeq(order, 1, at - 1)
             tail == SubSeq(order, at + 1, n)
  <2>1. at \in 1..n /\ order[at] = key
    BY <1>3 DEF Contains, PlaceOf
  <2>2. result = Append(head \o tail, key)
    BY <1>3 DEF Ensure, RemoveAt
  <2> HIDE DEF at, result
  <2>3. at \in Int /\ at - 1 \in Int /\ at + 1 \in Int /\ n \in Int
    BY <1>1, <2>1
  <2>4. head \in Seq(PatchKeys) /\ Len(head) \in Nat
    <3>1. \A i \in 1..at - 1 : order[i] \in PatchKeys
      BY <1>1, <2>1, <2>3
    <3>2. head \in Seq(PatchKeys)
      BY <2>3, <3>1, SubSeqProperties
    <3> HIDE DEF head
    <3>3. QED
      BY <3>2
  <2>5. /\ tail \in Seq(PatchKeys) /\ Len(tail) = (IF at + 1 <= n THEN n - (at + 1) + 1 ELSE 0)
        /\ \A i \in 1..n - (at + 1) + 1 : tail[i] = order[at + 1 + i - 1]
    <3>1. \A i \in at + 1..n : order[i] \in PatchKeys
      BY <1>1, <2>1, <2>3
    <3>2. QED
      BY <2>3, <3>1, SubSeqProperties
  <2> HIDE DEF head, tail, n
  <2> DEFINE rest == head \o tail
  <2>6. /\ rest \in Seq(PatchKeys) /\ Len(rest) = Len(head) + Len(tail)
        /\ \A i \in 1..Len(head) + Len(tail) :
             rest[i] = IF i <= Len(head) THEN head[i] ELSE tail[i - Len(head)]
    BY <2>4, <2>5, ConcatProperties
  <2> HIDE DEF rest
  <2>7. ASSUME n >= 1, order[n] # key PROVE Len(rest) >= 1 /\ rest[Len(rest)] = order[n]
    <3>1. at + 1 <= n
      BY <1>1, <2>1, <2>3, <2>7
    <3>2. Len(tail) = n - at /\ Len(tail) \in Nat /\ Len(tail) >= 1
      BY <2>3, <2>5, <3>1
    <3>3. tail[Len(tail)] = order[n]
      <4>1. Len(tail) \in 1..n - (at + 1) + 1 /\ at + 1 + Len(tail) - 1 = n
        BY <2>3, <3>2
      <4>2. tail[Len(tail)] = order[at + 1 + Len(tail) - 1]
        BY <2>5, <4>1
      <4>3. QED
        BY <4>1, <4>2
    <3>4. Len(rest) \in 1..Len(head) + Len(tail) /\ ~(Len(rest) <= Len(head))
          /\ Len(rest) - Len(head) = Len(tail)
      BY <2>4, <2>6, <3>2
    <3>5. rest[Len(rest)] = tail[Len(tail)]
      BY <2>6, <3>4
    <3>6. QED
      BY <2>4, <2>6, <3>2, <3>3, <3>5
  <2>8. QED
    BY <1>2, <2>2, <2>6, <2>7 DEF rest, result, n
<1>4. CASE ~Contains(order, key)
  <2>1. ShadowCapacity \in Nat \ {0}
    BY AnimAssumption
  <2>2. CASE n < ShadowCapacity
    <3>1. result = Append(order, key)
      BY <1>4, <2>2 DEF Ensure
    <3>2. QED
      BY <1>2, <3>1
  <2>3. CASE ~(n < ShadowCapacity)
    <3> DEFINE first == n - ShadowCapacity + 2
               rest == SubSeq(order, first, n)
    <3>1. result = Append(rest, key)
      BY <1>4, <2>3 DEF Ensure
    <3>2. first \in Int /\ n \in Int /\ first >= 1
      BY <1>1, <2>1, <2>3
    <3>3. /\ rest \in Seq(PatchKeys) /\ Len(rest) = (IF first <= n THEN n - first + 1 ELSE 0)
          /\ \A i \in 1..n - first + 1 : rest[i] = order[first + i - 1]
      <4>1. \A i \in first..n : order[i] \in PatchKeys
        BY <1>1, <3>2
      <4>2. QED
        BY <3>2, <4>1, SubSeqProperties
    <3> HIDE DEF rest, n, result
    <3>4. ASSUME ShadowCapacity >= 2 PROVE Len(rest) >= 1 /\ rest[Len(rest)] = order[n]
      <4>1. first <= n
        BY <1>1, <2>1, <3>4
      <4> HIDE DEF first
      <4>2. Len(rest) = n - first + 1 /\ Len(rest) \in 1..n - first + 1 /\ first + Len(rest) - 1 = n
        BY <3>2, <3>3, <4>1
      <4>3. rest[Len(rest)] = order[first + Len(rest) - 1]
        BY <3>3, <4>2
      <4>4. QED
        BY <3>2, <4>2, <4>3
    <3>5. QED
      BY <1>2, <3>1, <3>3, <3>4 DEF n, result
  <2>4. QED
    BY <2>2, <2>3
<1>5. QED
  BY <1>3, <1>4

LEMMA ShadowIsDrawn ==
  ASSUME NEW order \in Seq(PatchKeys), NEW shape \in 1..2, NEW focus
  PROVE  /\ DrawShadow(order, shape, focus).order \in Seq(PatchKeys)
         /\ ShadowCapacity >= 2 => DrawShadow(order, shape, focus).drawn # "none"
<1> DEFINE blurred == Ensure(order, Blurred(shape))
           both == Ensure(blurred, Focused(shape))
<1>1. /\ Blurred(shape) \in PatchKeys /\ Focused(shape) \in PatchKeys
      /\ Blurred(shape) # Focused(shape)
  BY DEF PatchKeys, Blurred, Focused
<1>2. /\ blurred \in Seq(PatchKeys) /\ Len(blurred) >= 1 /\ blurred[Len(blurred)] = Blurred(shape)
  BY <1>1, EnsureKeeps
<1> HIDE DEF blurred
<1>3. /\ both \in Seq(PatchKeys) /\ Len(both) >= 1 /\ both[Len(both)] = Focused(shape)
      /\ ShadowCapacity >= 2 => Blurred(shape) \in ToSet(both)
  BY <1>1, <1>2, EnsureKeeps
<1> HIDE DEF both
<1>4. Focused(shape) \in ToSet(both)
  <2>1. Len(both) \in DOMAIN both
    BY <1>3
  <2>2. QED
    BY <1>3, <2>1 DEF ToSet
<1>5. CASE focus = 0
  <2>1. DrawShadow(order, shape, focus) = [order |-> blurred, drawn |-> "blurred"]
    BY <1>5 DEF DrawShadow, blurred, Full
  <2>2. QED
    BY <1>2, <2>1
<1>6. CASE focus = Full
  <2>1. focus # 0 /\ Ensure(order, Focused(shape)) \in Seq(PatchKeys)
    BY <1>1, <1>6, EnsureKeeps DEF Full
  <2>2. QED
    BY <1>6, <2>1 DEF DrawShadow
<1>7. CASE focus # 0 /\ focus # Full
  <2>1. DrawShadow(order, shape, focus) =
          [order |-> both,
           drawn |-> IF {Blurred(shape), Focused(shape)} \subseteq ToSet(both) THEN "mixed"
                     ELSE "none"]
    BY <1>7 DEF DrawShadow, both, blurred
  <2>2. QED
    BY <1>3, <1>4, <2>1
<1>8. QED
  BY <1>5, <1>6, <1>7

LEMMA SettledIsTyped ==
  ASSUME NEW at \in Int
  PROVE  Settled(at) \in TrackType /\ Settled(at).progress = at /\ ~Settled(at).running
  BY AnimAssumption DEF Settled, TrackType

LEMMA RunsIsTyped ==
  ASSUME NEW at \in Int, NEW track \in TrackType
  PROVE  /\ RunsFrom(at, track) \in TrackType /\ RunsFrom(at, track).running
         /\ RunsFrom(at, track).elapsed = 0
<1>1. 0 \in 0..Duration
  BY AnimAssumption
<1>2. RunsFrom(at, track) = [track EXCEPT !.start = at, !.elapsed = 0, !.running = TRUE]
  BY DEF RunsFrom
<1>3. track = [start |-> track.start, progress |-> track.progress,
               elapsed |-> track.elapsed, running |-> track.running]
      /\ track.progress \in Int
  BY DEF TrackType
<1>4. RunsFrom(at, track) = [start |-> at, progress |-> track.progress, elapsed |-> 0,
                            running |-> TRUE]
  BY <1>2, <1>3
<1>5. QED
  BY <1>1, <1>3, <1>4 DEF TrackType

LEMMA AnimStart == AnimInit => AnimInv
<1> SUFFICES ASSUME AnimInit PROVE AnimInv
  OBVIOUS
<1>1. PICK focused \in BOOLEAN :
        /\ aims = [focus |-> focused, hover |-> NoHover]
        /\ tracks = [focus |-> Settled(FocusTarget(focused)), hover |-> Settled(0)]
        /\ painted = NoHover /\ patches = <<>> /\ drawn = Undrawn
        /\ unchanged = [focus |-> Duration, hover |-> Duration]
  BY DEF AnimInit
<1>2. FocusTarget(focused) \in Int /\ NoHover \in HoverNames /\ Duration \in 0..Duration
  BY AnimAssumption DEF FocusTarget, Full, HoverNames
<1>3. /\ Settled(FocusTarget(focused)) \in TrackType /\ Settled(0) \in TrackType
      /\ Settled(FocusTarget(focused)).progress = FocusTarget(focused)
      /\ Settled(0).progress = 0 /\ ~Settled(0).running
      /\ ~Settled(FocusTarget(focused)).running
  BY <1>2, SettledIsTyped
<1>4. AnimTypes
  BY <1>1, <1>2, <1>3 DEF AnimTypes
<1>5. TracksInTime /\ PaintedInTime /\ ShadowsDrawn
  BY <1>1, <1>3 DEF TracksInTime, PaintedInTime, ShadowsDrawn
<1>6. QED
  BY <1>4, <1>5 DEF AnimInv

\* Retargeted, snapped or advanced, the tracks are in time.
LEMMA AnimStep == AnimInv /\ [AnimNext]_animVars => AnimInv'
<1> SUFFICES ASSUME AnimInv, [AnimNext]_animVars PROVE AnimInv'
  OBVIOUS
<1>1. AnimTypes /\ TracksInTime /\ PaintedInTime /\ ShadowsDrawn
  BY DEF AnimInv
<1>2. /\ Duration \in Nat \ {0} /\ 0 \in 0..Duration /\ NoHover \in HoverNames
      /\ \A focused : FocusTarget(focused) \in Int
      /\ \A hover, shows : HoverTarget(hover, shows) \in Int
  BY AnimAssumption DEF FocusTarget, HoverTarget, Full, HoverNames
<1>3. /\ aims.focus \in BOOLEAN /\ aims.hover \in HoverNames
      /\ tracks.focus \in TrackType /\ tracks.hover \in TrackType
      /\ tracks.focus.progress \in Int /\ tracks.hover.progress \in Int
      /\ unchanged.focus \in 0..Duration /\ unchanged.hover \in 0..Duration
      /\ painted \in HoverNames /\ patches \in Seq(PatchKeys)
      /\ tracks = [focus |-> tracks.focus, hover |-> tracks.hover]
  BY <1>1 DEF AnimTypes, TrackType
<1>4. ASSUME NEW focused \in BOOLEAN, RetargetFocus(focused) PROVE AnimInv'
  <2>1. CASE aims.focus = focused
    <3>1. UNCHANGED animVars
      <4>1. aims' = aims
        BY <1>1, <1>4, <2>1 DEF RetargetFocus, AnimTypes
      <4>2. QED
        BY <1>4, <2>1, <4>1 DEF RetargetFocus, FocusStarts, animVars
    <3>2. QED
      BY <1>1, <3>1 DEF animVars, AnimInv, AnimTypes, TracksInTime, PaintedInTime, ShadowsDrawn
  <2>2. CASE aims.focus # focused
    <3> DEFINE track == RunsFrom(tracks.focus.progress, tracks.focus)
    <3>1. /\ aims' = [aims EXCEPT !.focus = focused] /\ tracks' = [tracks EXCEPT !.focus = track]
          /\ unchanged' = [unchanged EXCEPT !.focus = 0]
          /\ UNCHANGED <<painted, patches, drawn>>
      BY <1>4, <2>2 DEF RetargetFocus, FocusStarts
    <3>2. track \in TrackType /\ track.running /\ track.elapsed = 0
      BY <1>3, RunsIsTyped
    <3> HIDE DEF track
    <3>3. AnimTypes'
      BY <1>1, <1>2, <3>1, <3>2 DEF AnimTypes
    <3>4. /\ tracks'.focus = track /\ tracks'.hover = tracks.hover /\ aims'.hover = aims.hover
          /\ unchanged'.focus = 0 /\ unchanged'.hover = unchanged.hover
      BY <1>1, <3>1 DEF AnimTypes
    <3>5. TracksInTime' /\ PaintedInTime' /\ ShadowsDrawn'
      BY <1>1, <1>2, <3>1, <3>2, <3>4 DEF TracksInTime, PaintedInTime, ShadowsDrawn
    <3>6. QED
      BY <3>3, <3>5 DEF AnimInv
  <2>3. QED
    BY <2>1, <2>2
<1>5. ASSUME NEW hover \in Buttons \cup {NoHover}, RetargetHover(hover) PROVE AnimInv'
  <2>1. PICK track \in TrackType :
          /\ track.running /\ track.elapsed = 0 /\ tracks' = [tracks EXCEPT !.hover = track]
          /\ painted' = IF hover = NoHover THEN painted ELSE hover
    <3>1. CASE hover = NoHover
      <4>1. /\ RunsFrom(tracks.hover.progress, tracks.hover) \in TrackType
            /\ RunsFrom(tracks.hover.progress, tracks.hover).running
            /\ RunsFrom(tracks.hover.progress, tracks.hover).elapsed = 0
        BY <1>3, RunsIsTyped
      <4>2. QED
        BY <1>5, <3>1, <4>1 DEF RetargetHover
    <3>2. CASE hover # NoHover
      <4> DEFINE dark == [tracks.hover EXCEPT !.progress = 0]
      <4>1. dark \in TrackType
        BY <1>3 DEF TrackType
      <4> HIDE DEF dark
      <4>2. /\ RunsFrom(0, dark) \in TrackType /\ RunsFrom(0, dark).running
            /\ RunsFrom(0, dark).elapsed = 0
        BY <4>1, RunsIsTyped
      <4>3. tracks' = [tracks EXCEPT !.hover = RunsFrom(0, dark)] /\ painted' = hover
        BY <1>5, <3>2 DEF RetargetHover, dark
      <4>4. QED
        BY <3>2, <4>2, <4>3
    <3>3. QED
      BY <3>1, <3>2
  <2>2. /\ hover # aims.hover /\ aims' = [aims EXCEPT !.hover = hover]
        /\ unchanged' = [unchanged EXCEPT !.hover = 0] /\ UNCHANGED <<patches, drawn>>
    BY <1>5 DEF RetargetHover
  <2>3. painted' \in HoverNames /\ hover \in HoverNames /\ painted' # NoHover
    BY <1>1, <1>3, <2>1, <2>2 DEF HoverNames, PaintedInTime
  <2>4. AnimTypes'
    BY <1>1, <1>2, <2>1, <2>2, <2>3 DEF AnimTypes
  <2>5. /\ tracks'.hover = track /\ tracks'.focus = tracks.focus /\ aims'.hover = hover
        /\ aims'.focus = aims.focus
        /\ unchanged'.hover = 0 /\ unchanged'.focus = unchanged.focus
    BY <1>1, <2>1, <2>2 DEF AnimTypes
  <2>6. TracksInTime' /\ PaintedInTime' /\ ShadowsDrawn'
    BY <1>1, <1>2, <2>1, <2>2, <2>3, <2>5 DEF TracksInTime, PaintedInTime, ShadowsDrawn
  <2>7. QED
    BY <2>4, <2>6 DEF AnimInv
<1>6. ASSUME Snap PROVE AnimInv'
  <2> DEFINE focus == Settled(FocusTarget(aims.focus))
             hover == Settled(IF aims.hover = NoHover THEN 0 ELSE Full)
  <2>1. /\ tracks' = [focus |-> focus, hover |-> hover] /\ painted' = aims.hover
        /\ UNCHANGED <<aims, patches, drawn, unchanged>>
    BY <1>6 DEF Snap
  <2>2. /\ focus \in TrackType /\ hover \in TrackType /\ ~focus.running /\ ~hover.running
        /\ focus.progress = FocusTarget(aims.focus)
        /\ hover.progress = (IF aims.hover = NoHover THEN 0 ELSE Full)
    <3>1. (IF aims.hover = NoHover THEN 0 ELSE Full) \in Int
      BY DEF Full
    <3>2. QED
      BY <1>2, <3>1, SettledIsTyped
  <2> HIDE DEF focus, hover
  <2>3. AnimTypes'
    BY <1>1, <1>3, <2>1, <2>2 DEF AnimTypes
  <2>4. TracksInTime' /\ PaintedInTime' /\ ShadowsDrawn'
    BY <1>1, <2>1, <2>2 DEF TracksInTime, PaintedInTime, ShadowsDrawn
  <2>5. QED
    BY <2>3, <2>4 DEF AnimInv
<1>7. ASSUME NEW dt \in 1..(Duration + 1), AnimTick(dt) PROVE AnimInv'
  <2> DEFINE target == HoverTarget(aims.hover, painted)
             focus  == Advance(tracks.focus, dt, FocusTarget(aims.focus))
             hover  == Advance(tracks.hover, dt, target)
             counts(n) == IF n + dt < Duration THEN n + dt ELSE Duration
  <2>1. /\ tracks' = [focus |-> focus, hover |-> hover]
        /\ painted' = (IF tracks.hover.running /\ ~hover.running /\ target = 0 THEN NoHover
                      ELSE painted)
        /\ unchanged' = [focus |-> counts(unchanged.focus), hover |-> counts(unchanged.hover)]
        /\ UNCHANGED <<aims, patches, drawn>>
    BY <1>7 DEF AnimTick
  <2>2. dt \in Nat /\ \A n \in 0..Duration : counts(n) \in 0..Duration
    BY <1>2
  <2>3. /\ focus \in TrackType
        /\ ~tracks.focus.running => focus = tracks.focus
        /\ tracks.focus.running =>
             /\ focus.elapsed = counts(tracks.focus.elapsed)
             /\ focus.running <=> tracks.focus.elapsed + dt < Duration
             /\ ~(tracks.focus.elapsed + dt < Duration) => focus.progress = FocusTarget(aims.focus)
    BY <1>2, <1>3, <2>2, AdvanceMoves
  <2>4. /\ hover \in TrackType
        /\ ~tracks.hover.running => hover = tracks.hover
        /\ tracks.hover.running =>
             /\ hover.elapsed = counts(tracks.hover.elapsed)
             /\ hover.running <=> tracks.hover.elapsed + dt < Duration
             /\ ~(tracks.hover.elapsed + dt < Duration) => hover.progress = target
    BY <1>2, <1>3, <2>2, AdvanceMoves
  <2>5. target = IF aims.hover # NoHover /\ aims.hover = painted THEN Full ELSE 0
    BY DEF HoverTarget
  <2> HIDE DEF target, focus, hover
  <2>6. AnimTypes'
    BY <1>1, <1>2, <1>3, <2>1, <2>2, <2>3, <2>4 DEF AnimTypes
  <2>7. /\ tracks'.focus = focus /\ tracks'.hover = hover
        /\ unchanged'.focus = counts(unchanged.focus) /\ unchanged'.hover = counts(unchanged.hover)
    BY <2>1
  <2>8. focus.running => focus.elapsed = counts(unchanged.focus) /\ counts(unchanged.focus) < Duration
    BY <1>1, <1>2, <1>3, <2>2, <2>3 DEF TracksInTime
  <2>9. hover.running => hover.elapsed = counts(unchanged.hover) /\ counts(unchanged.hover) < Duration
    BY <1>1, <1>2, <1>3, <2>2, <2>4 DEF TracksInTime
  <2>10. ~focus.running => focus.progress = FocusTarget(aims.focus)
    BY <1>1, <2>3 DEF TracksInTime
  <2>11. ~hover.running => hover.progress = (IF aims.hover = NoHover THEN 0 ELSE Full)
    BY <1>1, <2>4, <2>5 DEF TracksInTime, PaintedInTime
  <2> HIDE DEF counts
  <2>12. TracksInTime'
    BY <2>1, <2>7, <2>8, <2>9, <2>10, <2>11 DEF TracksInTime
  <2>13. PaintedInTime'
    BY <1>1, <2>1, <2>4, <2>5, <2>7 DEF PaintedInTime, Full
  <2>14. ShadowsDrawn'
    BY <1>1, <2>1 DEF ShadowsDrawn
  <2>15. QED
    BY <2>6, <2>12, <2>13, <2>14 DEF AnimInv
<1>8. ASSUME NEW shape \in 1..2, DrawDecoration(shape) PROVE AnimInv'
  <2> DEFINE cast == DrawShadow(patches, shape, tracks.focus.progress)
  <2>1. /\ patches' = cast.order /\ drawn' = [shadow |-> cast.drawn, hover |-> painted]
        /\ UNCHANGED <<aims, tracks, painted, unchanged>>
    BY <1>8 DEF DrawDecoration
  <2>2. cast.order \in Seq(PatchKeys) /\ (ShadowCapacity >= 2 => cast.drawn # "none")
    BY <1>3, ShadowIsDrawn
  <2> HIDE DEF cast
  <2>3. ShadowsDrawn'
    BY <2>1, <2>2 DEF ShadowsDrawn
  <2>4. AnimTypes' /\ TracksInTime' /\ PaintedInTime'
    BY <1>1, <2>1, <2>2 DEF AnimTypes, TracksInTime, PaintedInTime
  <2>5. QED
    BY <2>3, <2>4 DEF AnimInv
<1>9. ASSUME UNCHANGED animVars PROVE AnimInv'
  BY <1>1, <1>9 DEF animVars, AnimInv, AnimTypes, TracksInTime, PaintedInTime, ShadowsDrawn
<1>10. QED
  BY <1>4, <1>5, <1>6, <1>7, <1>8, <1>9 DEF AnimNext

LEMMA AnimArrives == AnimInv => AnimationsArrive
<1> SUFFICES ASSUME AnimInv PROVE AnimationsArrive
  OBVIOUS
<1>1. AnimTypes /\ TracksInTime /\ PaintedInTime /\ ShadowsDrawn /\ Duration \in Nat
  BY AnimAssumption DEF AnimInv
<1>2. QED
  BY <1>1 DEF AnimationsArrive, ArrivedAt, Animating, AnimTypes, TracksInTime, PaintedInTime,
              ShadowsDrawn

LEMMA OverlayStart == OverlayInit => OverlayInv
<1> SUFFICES ASSUME OverlayInit PROVE OverlayInv
  OBVIOUS
<1>1. /\ byCrtc = [c \in DecoCrtcs |-> <<>>] /\ claimed = {}
      /\ scans = [p \in DOMAIN DecoPlanes |-> Off]
      /\ wearing = [c \in DecoCrtcs |-> <<>>]
  BY DEF OverlayInit
<1>2. Len(<<>>) = 0 /\ <<>> \in Seq(DOMAIN DecoPlanes) /\ <<>> \in Seq(Worn \cup {Bare})
  OBVIOUS
<1>3. \A c \in DecoCrtcs : byCrtc[c] = <<>> /\ wearing[c] = <<>> /\ 1..Len(byCrtc[c]) = {}
                           /\ 1..Len(wearing[c]) = {}
  BY <1>1, <1>2
<1>4. PlanesApart
  BY <1>1, <1>2, <1>3 DEF PlanesApart
<1>5. PlanesStand
  <2>1. UNION {{byCrtc[crtc][i] : i \in 1..Len(byCrtc[crtc])} : crtc \in DecoCrtcs} = {}
    BY <1>3
  <2>2. QED
    BY <1>1, <1>3, <2>1 DEF PlanesStand
<1>6. QED
  BY <1>1, <1>4, <1>5 DEF OverlayInv

\* The decorations that were shown stay on planes no other output has, and
\* without planes on every pixel of the framebuffer, whatever little of it a
\* frame repaints; and their transitions end where the caller aimed them.
THEOREM DecorationsAreTrue == PartsSpec => []DecorationsStand
<1>1. PartsInit => OverlayInv /\ DeskInv /\ AnimInv
  BY OverlayStart, DeskStart, AnimStart DEF PartsInit
<1>2. OverlayInv /\ DeskInv /\ AnimInv /\ [PartsNext]_partsVars
        => (OverlayInv /\ DeskInv /\ AnimInv)'
  BY PartsMove, OverlayStep, DeskStep, AnimStep
<1>3. OverlayInv /\ DeskInv /\ AnimInv => DecorationsStand
  BY DeskIsWhole, AnimArrives DEF DecorationsStand, OverlayInv
<1>4. QED
  BY <1>1, <1>2, <1>3, PTL DEF PartsSpec

-----------------------------------------------------------------------------
(* The cursor.                                                             *)

\* A frame as drawn, its hotspot still in the buffer where it is shifted.
PictureOK(picture) ==
  /\ picture \in [frame : Frames, rotation : Rotations, shift : [1..2 -> Nat]]
  /\ \A axis \in 1..2 :
       picture.shift[axis] <= HotspotInBuffer(picture.frame, picture.rotation)[axis]

\* What is on screen is aimed with the hotspot the picture was drawn for.
Aims(sight, picture) ==
  picture = Blank \/
  \A axis \in 1..2 :
    PlaneOrigin(sight.pointer, sight.origin)[axis]
      = HotspotInBuffer(picture.frame, picture.rotation)[axis] - picture.shift[axis]

LEMMA QuotientBounds ==
  ASSUME NEW a \in Nat, NEW b \in Nat \ {0}
  PROVE  /\ Quotient(a, b) \in Nat
         /\ Quotient(a, b) * b <= a /\ a < (Quotient(a, b) + 1) * b
BY DivisionBounds DEF Quotient

LEMMA LeastAndMost ==
  ASSUME NEW a \in Int, NEW b \in Int
  PROVE  Min({a, b}) = (IF a <= b THEN a ELSE b) /\ Max({a, b}) = (IF a >= b THEN a ELSE b)
<1>1. (IF a <= b THEN a ELSE b) \in {a, b} /\ (IF a >= b THEN a ELSE b) \in {a, b}
  OBVIOUS
<1>2. Min({a, b}) \in {a, b} /\ \A y \in {a, b} : Min({a, b}) <= y
  BY DEF Min
<1>3. Max({a, b}) \in {a, b} /\ \A y \in {a, b} : Max({a, b}) >= y
  BY DEF Max
<1>4. QED
  BY <1>2, <1>3

\* A sprite has pixels and fits its buffer.
LEMMA BlitFits ==
  ASSUME NEW frame \in Frames, NEW turn \in Rotations
  PROVE  /\ RotatedSize(frame, turn)[1] \in Nat \ {0} /\ RotatedSize(frame, turn)[2] \in Nat \ {0}
         /\ Blit(frame, turn)[1] \in 1..Extent /\ Blit(frame, turn)[2] \in 1..Extent
<1> DEFINE rotated == RotatedSize(frame, turn)
           ratio == Min({(Extent * 65536) \div rotated[1], (Extent * 65536) \div rotated[2]})
           Scaled(extent) == Max({(extent * ratio + 32768) \div 65536, 1})
<1>1. Extent \in Nat \ {0}
  BY CursorAssumption
<1>2. rotated[1] \in Nat \ {0} /\ rotated[2] \in Nat \ {0}
  BY DEF RotatedSize, Frames
<1>3. Blit(frame, turn) =
        IF rotated[1] > Extent \/ rotated[2] > Extent
          THEN <<Min({Scaled(rotated[1]), Extent}), Min({Scaled(rotated[2]), Extent})>>
          ELSE rotated
  BY DEF Blit
<1> HIDE DEF rotated
<1>4. ratio \in Int
  <2>1. (Extent * 65536) \div rotated[1] \in Int /\ (Extent * 65536) \div rotated[2] \in Int
    BY <1>1, <1>2
  <2>2. QED
    BY <2>1, LeastAndMost
<1> HIDE DEF ratio
<1>5. ASSUME NEW extent \in Nat PROVE Scaled(extent) \in Int /\ Scaled(extent) >= 1
  <2>1. (extent * ratio + 32768) \in Int
    BY <1>4
  <2>2. (extent * ratio + 32768) \div 65536 \in Int
    BY <2>1
  <2>3. QED
    <3> DEFINE scaled == (extent * ratio + 32768) \div 65536
    <3>1. scaled \in Int
      BY <2>2
    <3> HIDE DEF scaled
    <3>2. Max({scaled, 1}) = (IF scaled >= 1 THEN scaled ELSE 1)
      BY <3>1, LeastAndMost
    <3>3. QED
      BY <3>1, <3>2 DEF scaled
<1> HIDE DEF Scaled
<1>6. ASSUME NEW extent \in Nat PROVE Min({Scaled(extent), Extent}) \in 1..Extent
  BY <1>1, <1>5, LeastAndMost
<1>7. QED
  BY <1>1, <1>2, <1>3, <1>6 DEF rotated

\* One axis: the sprite's pixel that shows the hotspot's, however it is shrunk.
LEMMA AxisCovered ==
  ASSUME NEW hot \in Nat, NEW blit \in Nat \ {0}, NEW rotated \in Nat \ {0}, hot < rotated,
         blit <= Extent
  PROVE  LET d == Quotient(hot * blit, rotated) IN
         /\ d \in 0..blit - 1
         /\ d * rotated < (hot + 1) * blit /\ hot * blit < (d + 1) * rotated
         /\ d + (Extent - blit) \div 2 \in 0..Extent - 1
         /\ Max({d + (Extent - blit) \div 2, 0}) = d + (Extent - blit) \div 2
<1> DEFINE p == hot * blit
           d == Quotient(p, rotated)
<1>0. Extent \in Nat
  BY CursorAssumption
<1>1. p \in Nat
  OBVIOUS
<1>2. (hot + 1) * blit = p + blit /\ (hot + 1) * blit <= rotated * blit
  <2>1. \A k, l, c \in Nat : k <= l => k * c <= l * c
    OBVIOUS
  <2>2. hot + 1 \in Nat /\ hot + 1 <= rotated
    OBVIOUS
  <2>3. (hot + 1) * blit <= rotated * blit
    BY <2>1, <2>2
  <2>4. QED
    BY <2>3
<1> HIDE DEF p
<1>3. d \in Nat /\ d * rotated <= p /\ p < (d + 1) * rotated
  BY <1>1, QuotientBounds
<1> HIDE DEF d
<1>4. d < blit
  <2>1. ASSUME d >= blit PROVE FALSE
    <3>1. blit * rotated <= d * rotated
      <4>1. \A k, l, c \in Nat : k <= l => k * c <= l * c
        OBVIOUS
      <4>2. QED
        BY <1>3, <2>1, <4>1
    <3>2. blit * rotated = rotated * blit
      OBVIOUS
    <3>3. p < rotated * blit
      BY <1>1, <1>2
    <3>4. d * rotated \in Int /\ rotated * blit \in Int
      BY <1>3
    <3>5. QED
      BY <1>1, <1>3, <3>1, <3>2, <3>3, <3>4
  <2>2. QED
    BY <1>3, <2>1
<1>5. d * rotated < (hot + 1) * blit
  BY <1>1, <1>2, <1>3
<1> DEFINE offset == (Extent - blit) \div 2
<1>6. offset \in Nat /\ offset <= Extent - blit
  BY <1>0
<1> HIDE DEF offset
<1>7. d + offset \in 0..Extent - 1
  BY <1>0, <1>3, <1>4, <1>6
<1>8. Max({d + offset, 0}) = d + offset
  BY <1>7, <1>0, LeastAndMost
<1>9. QED
  BY <1>3, <1>4, <1>5, <1>7, <1>8 DEF d, p, offset

\* Where the hotspot is in the rotated view, and that it is a pixel of it.
HotOf(frame, turn) ==
  CASE turn = "None" -> <<frame.xhot, frame.yhot>>
    [] turn = "Quarter" -> <<frame.h - 1 - frame.yhot, frame.xhot>>
    [] turn = "Half" -> <<frame.w - 1 - frame.xhot, frame.h - 1 - frame.yhot>>
    [] OTHER -> <<frame.yhot, frame.w - 1 - frame.xhot>>

LEMMA HotIsSampled ==
  ASSUME NEW frame \in Frames, NEW turn \in Rotations,
         frame.xhot < frame.w, frame.yhot < frame.h
  PROVE  /\ HotOf(frame, turn) = <<HotOf(frame, turn)[1], HotOf(frame, turn)[2]>>
         /\ HotOf(frame, turn)[1] \in 0..RotatedSize(frame, turn)[1] - 1
         /\ HotOf(frame, turn)[2] \in 0..RotatedSize(frame, turn)[2] - 1
         /\ SampleRotated(frame, turn, HotOf(frame, turn)[1], HotOf(frame, turn)[2])
              = <<frame.xhot, frame.yhot>>
<1>1. /\ frame.w \in Nat \ {0} /\ frame.h \in Nat \ {0} /\ frame.xhot \in Nat /\ frame.yhot \in Nat
  BY DEF Frames
<1>2. CASE turn = "None"
  BY <1>1, <1>2 DEF HotOf, RotatedSize, SampleRotated
<1>3. CASE turn = "Quarter"
  BY <1>1, <1>3 DEF HotOf, RotatedSize, SampleRotated
<1>4. CASE turn = "Half"
  BY <1>1, <1>4 DEF HotOf, RotatedSize, SampleRotated
<1>5. CASE turn = "ThreeQuarter"
  BY <1>1, <1>5 DEF HotOf, RotatedSize, SampleRotated
<1>6. QED
  BY <1>2, <1>3, <1>4, <1>5 DEF Rotations

\* The hotspot that is told is a pixel of the buffer that shows the picture's.
LEMMA HotspotShown ==
  ASSUME NEW picture, PictureOK(picture), NEW point \in [1..2 -> Int],
         picture.frame.xhot < picture.frame.w, picture.frame.yhot < picture.frame.h,
         \A axis \in 1..2 : point[axis] =
           HotspotInBuffer(picture.frame, picture.rotation)[axis] - picture.shift[axis]
  PROVE  point \in HotPixels(picture)
<1> DEFINE frame == picture.frame
           turn == picture.rotation
           blit == Blit(frame, turn)
           rotated == RotatedSize(frame, turn)
           hot == HotOf(frame, turn)
           d(axis) == Quotient(hot[axis] * blit[axis], rotated[axis])
           spot == HotspotInBuffer(frame, turn)
<1>1. frame \in Frames /\ turn \in Rotations /\ picture.shift \in [1..2 -> Nat]
  BY DEF PictureOK
<1>2. /\ rotated[1] \in Nat \ {0} /\ rotated[2] \in Nat \ {0}
      /\ blit[1] \in 1..Extent /\ blit[2] \in 1..Extent /\ Extent \in Nat
  BY <1>1, BlitFits, CursorAssumption
<1>3. /\ hot = <<hot[1], hot[2]>>
      /\ hot[1] \in 0..rotated[1] - 1 /\ hot[2] \in 0..rotated[2] - 1
      /\ SampleRotated(frame, turn, hot[1], hot[2]) = <<frame.xhot, frame.yhot>>
  BY <1>1, HotIsSampled
<1>4. spot = [axis \in 1..2 |-> Max({d(axis) + Offset(blit)[axis], 0})]
  BY DEF HotspotInBuffer, HotOf
<1> HIDE DEF hot, blit, rotated, spot, turn, frame, d
<1>5. ASSUME NEW axis \in 1..2
      PROVE  /\ d(axis) \in 0..blit[axis] - 1
             /\ d(axis) * rotated[axis] < (hot[axis] + 1) * blit[axis]
             /\ hot[axis] * blit[axis] < (d(axis) + 1) * rotated[axis]
             /\ spot[axis] = d(axis) + Offset(blit)[axis]
             /\ spot[axis] \in 0..Extent - 1 /\ Offset(blit)[axis] \in Int
  <2>1. hot[axis] \in Nat /\ blit[axis] \in Nat \ {0} /\ rotated[axis] \in Nat \ {0}
        /\ hot[axis] < rotated[axis] /\ blit[axis] <= Extent
    BY <1>2, <1>3
  <2>2. Offset(blit)[axis] = (Extent - blit[axis]) \div 2
    BY DEF Offset
  <2>3. /\ d(axis) \in 0..blit[axis] - 1
        /\ d(axis) * rotated[axis] < (hot[axis] + 1) * blit[axis]
        /\ hot[axis] * blit[axis] < (d(axis) + 1) * rotated[axis]
        /\ d(axis) + (Extent - blit[axis]) \div 2 \in 0..Extent - 1
        /\ Max({d(axis) + (Extent - blit[axis]) \div 2, 0}) = d(axis) + (Extent - blit[axis]) \div 2
    BY <2>1, AxisCovered DEF d
  <2>4. spot[axis] = Max({d(axis) + Offset(blit)[axis], 0})
    BY <1>4
  <2>5. (Extent - blit[axis]) \div 2 \in Int
    BY <1>2, <2>1
  <2>6. QED
    BY <2>2, <2>3, <2>4, <2>5
<1>6. point = <<point[1], point[2]>> /\ point[1] \in 0..Extent - 1 /\ point[2] \in 0..Extent - 1
  <2>1. ASSUME NEW axis \in 1..2 PROVE point[axis] \in 0..Extent - 1
    <3>1. /\ picture.shift[axis] \in Nat /\ picture.shift[axis] <= spot[axis]
          /\ point[axis] = spot[axis] - picture.shift[axis]
      BY <1>1 DEF PictureOK, spot, frame, turn
    <3>2. QED
      BY <1>2, <1>5, <3>1
  <2>2. QED
    BY <2>1
<1>7. point \in Pixels
  BY <1>6 DEF Pixels
<1> DEFINE dd == <<d(1), d(2)>>
           sprite == (0 .. blit[1] - 1) \X (0 .. blit[2] - 1)
           hots == {r \in (0 .. rotated[1] - 1) \X (0 .. rotated[2] - 1) :
                     SampleRotated(frame, turn, r[1], r[2]) = <<frame.xhot, frame.yhot>>}
<1>8. dd \in sprite /\ hot \in hots
  BY <1>3, <1>5
<1>9. point = [axis \in 1..2 |-> dd[axis] + Offset(blit)[axis] - picture.shift[axis]]
  <2>1. ASSUME NEW axis \in 1..2
        PROVE  point[axis] = dd[axis] + Offset(blit)[axis] - picture.shift[axis]
    <3>1. point[axis] = spot[axis] - picture.shift[axis] /\ dd[axis] = d(axis)
      BY DEF spot, frame, turn
    <3>2. spot[axis] = d(axis) + Offset(blit)[axis]
      BY <1>5
    <3>3. d(axis) \in Int /\ Offset(blit)[axis] \in Int /\ picture.shift[axis] \in Int
      BY <1>1, <1>2, <1>5
    <3> HIDE DEF dd
    <3>4. QED
      BY <3>1, <3>2, <3>3
  <2>2. QED
    BY <2>1
<1>10. /\ dd[1] * rotated[1] < (hot[1] + 1) * blit[1]
       /\ hot[1] * blit[1] < (dd[1] + 1) * rotated[1]
       /\ dd[2] * rotated[2] < (hot[2] + 1) * blit[2]
       /\ hot[2] * blit[2] < (dd[2] + 1) * rotated[2]
  BY <1>5
<1> HIDE DEF dd, sprite, hots
<1>11. \E e \in sprite, r \in hots :
         /\ point = [axis \in 1..2 |-> e[axis] + Offset(blit)[axis] - picture.shift[axis]]
         /\ (e[1] * rotated[1] < (r[1] + 1) * blit[1] /\ r[1] * blit[1] < (e[1] + 1) * rotated[1])
         /\ (e[2] * rotated[2] < (r[2] + 1) * blit[2] /\ r[2] * blit[2] < (e[2] + 1) * rotated[2])
  BY <1>8, <1>9, <1>10
<1>12. QED
  BY <1>7, <1>11 DEF HotPixels, sprite, hots, blit, rotated, frame, turn

LEMMA HotspotTyped ==
  ASSUME NEW frame \in Frames, NEW turn \in Rotations
  PROVE  HotspotInBuffer(frame, turn) \in [1..2 -> Nat]
<1> DEFINE blit == Blit(frame, turn)
           rotated == RotatedSize(frame, turn)
           hot == HotOf(frame, turn)
<1>1. /\ rotated[1] \in Nat \ {0} /\ rotated[2] \in Nat \ {0}
      /\ blit[1] \in 1..Extent /\ blit[2] \in 1..Extent /\ Extent \in Nat
  BY BlitFits, CursorAssumption
<1>2. hot[1] \in Int /\ hot[2] \in Int
  <2>1. frame.w \in Int /\ frame.h \in Int /\ frame.xhot \in Int /\ frame.yhot \in Int
    BY DEF Frames
  <2>2. QED
    BY <2>1 DEF HotOf
<1>3. HotspotInBuffer(frame, turn) =
        [axis \in 1..2 |-> Max({Quotient(hot[axis] * blit[axis], rotated[axis])
                                  + Offset(blit)[axis], 0})]
  BY DEF HotspotInBuffer, HotOf
<1> HIDE DEF blit, rotated, hot
<1>4. ASSUME NEW axis \in 1..2
      PROVE  Max({Quotient(hot[axis] * blit[axis], rotated[axis]) + Offset(blit)[axis], 0}) \in Nat
  <2>1. hot[axis] * blit[axis] \in Int /\ rotated[axis] \in Nat \ {0}
    BY <1>1, <1>2
  <2>2. \A a \in Int, b \in Nat \ {0} : a \div b \in Int
    OBVIOUS
  <2>3. Quotient(hot[axis] * blit[axis], rotated[axis]) \in Int
    <3> DEFINE a == hot[axis] * blit[axis]
    <3>1. a \in Int /\ -a \in Int
      BY <2>1
    <3> HIDE DEF a
    <3>2. a \div rotated[axis] \in Int /\ (-a) \div rotated[axis] \in Int
      BY <2>1, <2>2, <3>1
    <3>3. Quotient(a, rotated[axis]) \in Int
      BY <3>2 DEF Quotient
    <3>4. QED
      BY <3>3 DEF a
  <2>4. Offset(blit)[axis] \in Int
    <3>1. Offset(blit)[axis] = (Extent - blit[axis]) \div 2 /\ Extent - blit[axis] \in Int
      BY <1>1 DEF Offset
    <3>2. QED
      BY <2>2, <3>1
  <2>5. QED
    <3> DEFINE x == Quotient(hot[axis] * blit[axis], rotated[axis]) + Offset(blit)[axis]
    <3>1. x \in Int
      BY <2>3, <2>4
    <3> HIDE DEF x
    <3>2. Max({x, 0}) = (IF x >= 0 THEN x ELSE 0)
      BY <3>1, LeastAndMost
    <3>3. Max({x, 0}) \in Nat
      BY <3>1, <3>2
    <3>4. QED
      BY <3>3 DEF x
<1>5. QED
  BY <1>3, <1>4

\* The sprite is shifted by no more than its hotspot.
LEMMA ShiftTyped ==
  ASSUME NEW spot \in [1..2 -> Nat], NEW turn, position \in Int \X Int
  PROVE  /\ Shift(spot, turn) \in [1..2 -> Nat]
         /\ \A axis \in 1..2 : Shift(spot, turn)[axis] <= spot[axis]
<1>1. \A axis \in 1..2 : position[axis] \in Int /\ spot[axis] \in Nat
  OBVIOUS
<1>2. ASSUME NEW axis \in 1..2
      PROVE  /\ EdgeShift(position, spot)[axis] \in Nat
             /\ EdgeShift(position, spot)[axis] <= spot[axis]
  <2> DEFINE over == PlaneOrigin(position, spot)[axis]
  <2>1. over = position[axis] - spot[axis] /\ over \in Int /\ -over \in Int
    BY <1>1 DEF PlaneOrigin
  <2>2. EdgeShift(position, spot)[axis] = IF over > 0 THEN 0 ELSE Min({-over, spot[axis]})
    BY DEF EdgeShift
  <2> HIDE DEF over
  <2>3. Min({-over, spot[axis]}) = (IF -over <= spot[axis] THEN -over ELSE spot[axis])
    BY <1>1, <2>1, LeastAndMost
  <2>4. QED
    BY <1>1, <2>1, <2>2, <2>3
<1>3. EdgeShift(position, spot) \in [1..2 -> Nat]
  BY <1>2 DEF EdgeShift
<1>4. CASE HardwareTurns(turn)
  <2>1. Shift(spot, turn) = <<0, 0>>
    BY <1>4 DEF Shift
  <2>2. QED
    BY <1>1, <2>1
<1>5. CASE ~HardwareTurns(turn)
  BY <1>2, <1>3, <1>5 DEF Shift
<1>6. QED
  BY <1>4, <1>5

PicturesDrawn == [frame : Frames, rotation : Rotations, shift : [1..2 -> Nat]]
PingPongs == [active : 0..1, drawn : BOOLEAN, single : BOOLEAN]
Drawings ==
  [frame : Nat, hotspot : [1..2 -> Nat], shift : [1..2 -> Nat],
   buffers : [0..1 -> PicturesDrawn \cup {Blank}], pingPong : PingPongs]

\* Drawings of this path, whose buffers are pictures drawn whole.
Drawable(d) ==
  /\ d \in Drawings
  /\ \A b \in 0..1 : d.buffers[b] = Blank \/ PictureOK(d.buffers[b])
  /\ d.pingPong.single <=> pathKind = "legacy"
  /\ pathKind = "legacy" => d.pingPong.active = 0 /\ ~d.pingPong.drawn

\* The next commit's picture is the one whose hotspot and shift are told.
Announced(d) ==
  LET picture == d.buffers[CommitTarget(d.pingPong)] IN
  picture = Blank \/
  /\ d.hotspot = HotspotInBuffer(picture.frame, picture.rotation)
  /\ d.shift = picture.shift

\* Drawing leaves the other buffer alone and tells of what it drew.
LEMMA DrawTells ==
  ASSUME NEW d, Drawable(d), NEW c \in Cursors, NEW index \in DOMAIN c,
         NEW turn \in Rotations, position \in Int \X Int, pathKind \in {"atomic", "legacy"}
  PROVE  LET e == Draw(d, c, index, turn) IN
         /\ Drawable(e) /\ Announced(e) /\ e.frame = index
         /\ e.pingPong.active = d.pingPong.active
         /\ \A b \in 0..1 : b # DrawTarget(d.pingPong) => e.buffers[b] = d.buffers[b]
<1> DEFINE frame == c[index]
           e == Draw(d, c, index, turn)
           spot == HotspotInBuffer(frame, DrawRotation(turn))
           picture == [frame |-> frame, rotation |-> DrawRotation(turn), shift |-> Shift(spot, turn)]
           target == DrawTarget(d.pingPong)
           marked == MarkDrawn(d.pingPong)
<1>1. frame \in Frames /\ index \in Nat
  <2>1. c \in Seq(Frames)
    BY CursorAssumption
  <2>2. QED
    BY <2>1
<1>2. DrawRotation(turn) \in Rotations
  BY DEF DrawRotation, Rotations
<1>3. spot \in [1..2 -> Nat]
  BY <1>1, <1>2, HotspotTyped
<1>4. /\ Shift(spot, turn) \in [1..2 -> Nat]
      /\ \A axis \in 1..2 : Shift(spot, turn)[axis] <= spot[axis]
  BY <1>3, ShiftTyped
<1>5. picture \in PicturesDrawn /\ PictureOK(picture)
  BY <1>1, <1>2, <1>4 DEF PicturesDrawn, PictureOK
<1>6. /\ d.pingPong \in PingPongs /\ d.pingPong.active \in 0..1
      /\ (d.pingPong.single <=> pathKind = "legacy")
      /\ pathKind = "legacy" => d.pingPong.active = 0 /\ ~d.pingPong.drawn
      /\ d.buffers \in [0..1 -> PicturesDrawn \cup {Blank}]
      /\ \A b \in 0..1 : d.buffers[b] = Blank \/ PictureOK(d.buffers[b])
  BY DEF Drawable, Drawings, PingPongs
<1>7. /\ marked \in PingPongs /\ marked.active = d.pingPong.active
      /\ (marked.single <=> d.pingPong.single) /\ (marked.drawn <=> ~d.pingPong.single)
  BY <1>6 DEF MarkDrawn, PingPongs
<1>8. /\ target \in 0..1 /\ CommitTarget(marked) = target
      /\ pathKind = "atomic" => target # d.pingPong.active
  BY <1>6, <1>7 DEF DrawTarget, CommitTarget
<1>9. e = [frame |-> index, hotspot |-> spot, shift |-> picture.shift,
           buffers |-> [d.buffers EXCEPT ![target] = picture], pingPong |-> marked]
  BY DEF Draw
<1> HIDE DEF frame, spot, target, marked, e
<1>10. /\ e.frame = index /\ e.hotspot = spot /\ e.shift = Shift(spot, turn)
       /\ e.pingPong = marked /\ e.buffers = [d.buffers EXCEPT ![target] = picture]
  BY <1>9
<1> HIDE DEF picture
<1>11. /\ e.buffers \in [0..1 -> PicturesDrawn \cup {Blank}] /\ e.buffers[target] = picture
       /\ \A b \in 0..1 : b # target => e.buffers[b] = d.buffers[b]
  BY <1>5, <1>6, <1>8, <1>10
<1>12. e \in Drawings
  BY <1>1, <1>3, <1>4, <1>7, <1>9, <1>10, <1>11 DEF Drawings, picture
<1>13. Drawable(e)
  BY <1>5, <1>6, <1>7, <1>10, <1>11, <1>12 DEF Drawable
<1>14. Announced(e)
  <2>1. e.buffers[CommitTarget(e.pingPong)] = picture
    BY <1>8, <1>10, <1>11
  <2>2. /\ picture.frame = frame /\ picture.rotation = DrawRotation(turn)
        /\ picture.shift = Shift(spot, turn)
    BY DEF picture
  <2>3. QED
    BY <1>10, <2>1, <2>2 DEF Announced, spot
<1>15. /\ e.pingPong.active = d.pingPong.active
       /\ \A b \in 0..1 : b # target => e.buffers[b] = d.buffers[b]
  BY <1>7, <1>10, <1>11
<1>16. QED
  BY <1>10, <1>13, <1>14, <1>15 DEF e, target

CursorTypes ==
  /\ pathKind \in {"atomic", "legacy"} /\ (uploads => pathKind = "legacy")
  /\ cursor = <<>> \/ cursor \in Cursors
  /\ position \in Int \X Int /\ rotation \in Rotations

DrawingInv ==
  /\ Drawable(drawing) /\ Announced(drawing)
  /\ drawing.frame # 0 => cursor \in Cursors /\ drawing.frame \in DOMAIN cursor

\* The picture on screen is as the last commit aimed it until it is drawn over,
\* which happens to a buffer that is active only where it is the one buffer.
ScreenInv ==
  /\ screen.buffer # 2 =>
       /\ pathKind = "atomic" =>
            /\ screen.buffer \in 0..1
            /\ ~torn => Aims(screen, drawing.buffers[screen.buffer])
            /\ ~missed => ~torn /\ screen.buffer = drawing.pingPong.active
       /\ pathKind = "legacy" =>
            /\ screen.buffer = 0
            /\ ~torn => installed /\ Aims(screen, drawing.buffers[0])
            /\ installed /\ ~unhanded => screen.copy = drawing.buffers[0]
  /\ pathKind = "legacy" /\ installed => screen.buffer # 2

CursorInv == CursorTypes /\ DrawingInv /\ ScreenInv

LEMMA NothingIsDrawn == Drawable(Nothing) /\ Announced(Nothing) /\ Nothing.frame = 0
<1>1. NewPingPong \in PingPongs /\ NewPingPong.active = 0 /\ ~NewPingPong.drawn
      /\ (NewPingPong.single <=> pathKind = "legacy")
  <2>1. CASE pathKind = "legacy"
    <3>1. (pathKind = "legacy") = TRUE
      BY <2>1
    <3>2. NewPingPong = [active |-> 0, drawn |-> FALSE, single |-> TRUE]
      BY <3>1, Zenon DEF NewPingPong
    <3>3. QED
      BY <2>1, <3>2 DEF PingPongs
  <2>2. CASE pathKind # "legacy"
    <3>1. (pathKind = "legacy") = FALSE
      BY <2>2
    <3>2. NewPingPong = [active |-> 0, drawn |-> FALSE, single |-> FALSE]
      BY <3>1, Zenon DEF NewPingPong
    <3>3. QED
      BY <2>2, <3>2 DEF PingPongs
  <2>3. QED
    BY <2>1, <2>2
<1>2. <<0, 0>> \in [1..2 -> Nat] /\ [b \in 0..1 |-> Blank] \in [0..1 -> PicturesDrawn \cup {Blank}]
  OBVIOUS
<1>3. Nothing \in Drawings
  BY <1>1, <1>2 DEF Nothing, Drawings
<1>4. CommitTarget(Nothing.pingPong) \in 0..1
  BY <1>1 DEF Nothing, CommitTarget
<1>5. \A b \in 0..1 : Nothing.buffers[b] = Blank
  BY DEF Nothing
<1>6. Nothing.pingPong = NewPingPong /\ Nothing.frame = 0
  BY DEF Nothing
<1>7. QED
  BY <1>1, <1>3, <1>4, <1>5, <1>6 DEF Drawable, Announced

LEMMA CursorStart == CursorInit => CursorInv
<1> SUFFICES ASSUME CursorInit PROVE CursorInv
  OBVIOUS
<1>1. /\ pathKind \in {"atomic", "legacy"} /\ (uploads => pathKind = "legacy")
      /\ cursor = <<>> /\ rotation \in Rotations /\ position \in Int \X Int
  BY CursorAssumption DEF CursorInit, Rotations
<1>2. drawing = Nothing /\ screen.buffer = 2 /\ installed = FALSE
  BY DEF CursorInit, Dark
<1>3. QED
  BY <1>1, <1>2, NothingIsDrawn DEF CursorInv, CursorTypes, DrawingInv, ScreenInv

\* What prepare leaves is drawn and told.
LEMMA PreparedIsDrawn ==
  ASSUME CursorInv
  PROVE  /\ Drawable(Prepared) /\ Announced(Prepared)
         /\ Prepared.frame # 0 => cursor \in Cursors /\ Prepared.frame \in DOMAIN cursor
         /\ ~EdgeMoves => Prepared = drawing
         /\ Prepared.pingPong.active = drawing.pingPong.active
         /\ \A b \in 0..1 : b # DrawTarget(drawing.pingPong) =>
              Prepared.buffers[b] = drawing.buffers[b]
<1>1. CASE ~EdgeMoves
  BY <1>1 DEF Prepared, CursorInv, DrawingInv
<1>2. CASE EdgeMoves
  <2>1. cursor \in Cursors /\ drawing.frame \in DOMAIN cursor /\ Drawable(drawing)
        /\ rotation \in Rotations /\ position \in Int \X Int /\ pathKind \in {"atomic", "legacy"}
    BY <1>2 DEF EdgeMoves, CursorInv, DrawingInv, CursorTypes
  <2>2. Prepared = Draw(drawing, cursor, drawing.frame, rotation)
    BY <1>2 DEF Prepared
  <2>3. QED
    BY <1>2, <2>1, <2>2, DrawTells
<1>3. QED
  BY <1>1, <1>2

\* A redraw that leaves the screen as it is.
LEMMA RedrawnAside ==
  ASSUME CursorInv, CursorTypes', UNCHANGED <<fixedVars, screen, missed>>,
         Drawable(drawing'), Announced(drawing'),
         drawing'.frame # 0 => cursor' \in Cursors /\ drawing'.frame \in DOMAIN cursor',
         drawing'.pingPong.active = drawing.pingPong.active,
         \A b \in 0..1 : b # DrawTarget(drawing.pingPong) => drawing'.buffers[b] = drawing.buffers[b],
         torn' = Tears,
         pathKind = "legacy" => ~installed' \/ (installed /\ unhanded')
  PROVE  CursorInv'
<1>1. pathKind' = pathKind /\ uploads' = uploads /\ mask' = mask /\ screen' = screen
      /\ missed' = missed
  BY DEF fixedVars
<1>2. DrawingInv'
  BY <1>1 DEF DrawingInv, Drawable, Announced
<1>3. /\ drawing.pingPong \in PingPongs /\ (drawing.pingPong.single <=> pathKind = "legacy")
      /\ pathKind = "legacy" => drawing.pingPong.active = 0
  BY DEF CursorInv, DrawingInv, Drawable, Drawings
<1>4. /\ pathKind = "legacy" => DrawTarget(drawing.pingPong) = 0
      /\ pathKind # "legacy" => DrawTarget(drawing.pingPong) # drawing.pingPong.active
  BY <1>3 DEF DrawTarget, PingPongs
<1>5. torn' <=> torn \/ DrawTarget(drawing.pingPong) = screen.buffer
  BY DEF Tears
<1>6. ASSUME screen.buffer # 2, pathKind = "atomic"
      PROVE  /\ screen.buffer \in 0..1
             /\ ~torn' => Aims(screen, drawing'.buffers[screen.buffer])
             /\ ~missed => ~torn' /\ screen.buffer = drawing'.pingPong.active
  <2>1. /\ screen.buffer \in 0..1
        /\ ~torn => Aims(screen, drawing.buffers[screen.buffer])
        /\ ~missed => ~torn /\ screen.buffer = drawing.pingPong.active
    BY <1>6 DEF CursorInv, ScreenInv
  <2>2. ASSUME ~torn' PROVE Aims(screen, drawing'.buffers[screen.buffer])
    <3>1. ~torn /\ screen.buffer # DrawTarget(drawing.pingPong)
      BY <1>5, <2>2
    <3>2. QED
      BY <2>1, <3>1
  <2>3. ~missed => ~torn' /\ screen.buffer = drawing'.pingPong.active
    BY <1>4, <1>5, <1>6, <2>1
  <2>4. QED
    BY <2>1, <2>2, <2>3
<1>7. ASSUME screen.buffer # 2, pathKind = "legacy"
      PROVE  screen.buffer = 0 /\ torn'
  BY <1>4, <1>5, <1>7 DEF CursorInv, ScreenInv
<1>8. ScreenInv'
  <2>1. pathKind = "legacy" /\ installed' => screen.buffer # 2 /\ unhanded'
    BY DEF CursorInv, ScreenInv
  <2>2. QED
    BY <1>1, <1>6, <1>7, <2>1 DEF ScreenInv
<1>9. QED
  BY <1>2, <1>8 DEF CursorInv

\* A commit that lands shows the picture that is told.
LEMMA ShownAsTold ==
  ASSUME NEW d, Drawable(d), Announced(d), position \in Int \X Int, NEW sight,
         sight.pointer = position, sight.origin = PlaneOrigin(position, DrawnHotspot(d))
  PROVE  Aims(sight, d.buffers[CommitTarget(d.pingPong)])
<1> DEFINE picture == d.buffers[CommitTarget(d.pingPong)]
<1>1. CASE picture = Blank
  BY <1>1 DEF Aims
<1>2. CASE picture # Blank
  <2>1. d.hotspot = HotspotInBuffer(picture.frame, picture.rotation) /\ d.shift = picture.shift
    BY <1>2 DEF Announced
  <2>2. d.hotspot \in [1..2 -> Nat] /\ d.shift \in [1..2 -> Nat]
    BY DEF Drawable, Drawings
  <2>3. ASSUME NEW axis \in 1..2
        PROVE  PlaneOrigin(position, PlaneOrigin(position, DrawnHotspot(d)))[axis]
                 = d.hotspot[axis] - d.shift[axis]
    <3>1. position[axis] \in Int /\ d.hotspot[axis] \in Int /\ d.shift[axis] \in Int
      BY <2>2
    <3>2. PlaneOrigin(position, DrawnHotspot(d))[axis]
            = position[axis] - (d.hotspot[axis] - d.shift[axis])
      BY DEF PlaneOrigin, DrawnHotspot
    <3>3. PlaneOrigin(position, PlaneOrigin(position, DrawnHotspot(d)))[axis]
            = position[axis] - PlaneOrigin(position, DrawnHotspot(d))[axis]
      BY DEF PlaneOrigin
    <3>4. QED
      BY <3>1, <3>2, <3>3
  <2> HIDE DEF picture
  <2>4. \A axis \in 1..2 :
          PlaneOrigin(sight.pointer, sight.origin)[axis]
            = HotspotInBuffer(picture.frame, picture.rotation)[axis] - picture.shift[axis]
    BY <2>1, <2>3
  <2>5. Aims(sight, picture)
    BY <2>4 DEF Aims
  <2>6. QED
    BY <2>5 DEF picture
<1>3. QED
  BY <1>1, <1>2


\* What is published is what was committed.
LEMMA PublishedIsCommitted ==
  ASSUME NEW p \in PingPongs, ~p.single
  PROVE  /\ Published(p) \in PingPongs /\ Published(p).active = CommitTarget(p)
         /\ CommitTarget(Published(p)) = CommitTarget(p) /\ ~Published(p).single
<1>1. p.active \in 0..1 /\ 1 - p.active \in 0..1
  BY DEF PingPongs
<1>2. CASE p.drawn
  <2>1. Published(p) = [p EXCEPT !.active = 1 - p.active, !.drawn = FALSE]
    BY <1>2 DEF Published
  <2>2. Published(p) \in PingPongs /\ Published(p).active = 1 - p.active
        /\ Published(p).drawn = FALSE /\ Published(p).single = p.single
    BY <1>1, <2>1 DEF PingPongs
  <2>3. CommitTarget(p) = 1 - p.active
    BY <1>2 DEF CommitTarget
  <2>4. CommitTarget(Published(p)) = Published(p).active
    BY <2>2 DEF CommitTarget
  <2>5. QED
    BY <2>2, <2>3, <2>4
<1>3. CASE ~p.drawn
  <2>1. Published(p) = p /\ CommitTarget(p) = p.active
    BY <1>3 DEF Published, CommitTarget
  <2>2. QED
    BY <2>1
<1>4. QED
  BY <1>2, <1>3

\* What is published is told as it was drawn.
LEMMA PublishedIsDrawn ==
  ASSUME NEW d, Drawable(d), Announced(d), pathKind = "atomic",
         NEW e, e = [d EXCEPT !.pingPong = Published(d.pingPong)]
  PROVE  /\ Drawable(e) /\ Announced(e) /\ e.frame = d.frame /\ e.buffers = d.buffers
         /\ e.pingPong.active = CommitTarget(d.pingPong)
         /\ ~d.pingPong.drawn => e.pingPong.active = d.pingPong.active
<1>1. d.pingPong \in PingPongs /\ ~d.pingPong.single /\ d \in Drawings
  BY DEF Drawable, Drawings
<1>2. /\ Published(d.pingPong) \in PingPongs
      /\ Published(d.pingPong).active = CommitTarget(d.pingPong)
      /\ CommitTarget(Published(d.pingPong)) = CommitTarget(d.pingPong)
      /\ ~Published(d.pingPong).single
  BY <1>1, PublishedIsCommitted
<1>3. /\ e.pingPong = Published(d.pingPong) /\ e.frame = d.frame
      /\ e.buffers = d.buffers /\ e.hotspot = d.hotspot
      /\ e.shift = d.shift /\ e \in Drawings
  BY <1>1, <1>2 DEF Drawings
<1>4. Drawable(e)
  BY <1>2, <1>3 DEF Drawable
<1>5. Announced(e)
  BY <1>2, <1>3 DEF Announced
<1>6. ~d.pingPong.drawn => Published(d.pingPong) = d.pingPong
  BY DEF Published
<1>7. QED
  BY <1>2, <1>3, <1>4, <1>5, <1>6

LEMMA CursorStep == CursorInv /\ [CursorNext]_cursorVars => CursorInv'
<1> SUFFICES ASSUME CursorInv, [CursorNext]_cursorVars PROVE CursorInv'
  OBVIOUS
<1>1. /\ pathKind \in {"atomic", "legacy"} /\ (uploads => pathKind = "legacy")
      /\ (cursor = <<>> \/ cursor \in Cursors)
      /\ position \in Int \X Int /\ rotation \in Rotations
      /\ Drawable(drawing) /\ Announced(drawing)
      /\ drawing.frame # 0 => cursor \in Cursors /\ drawing.frame \in DOMAIN cursor
  BY DEF CursorInv, CursorTypes, DrawingInv
<1>2. \A c \in Cursors : 1 \in DOMAIN c /\ c # <<>> /\ \A i \in DOMAIN c : i \in Nat /\ i >= 1
  <2>1. ASSUME NEW c \in Cursors
        PROVE  1 \in DOMAIN c /\ c # <<>> /\ \A i \in DOMAIN c : i \in Nat /\ i >= 1
    <3>1. c \in Seq(Frames) /\ c # <<>>
      BY CursorAssumption
    <3>2. QED
      BY <3>1
  <2>2. QED
    BY <2>1
<1>3. ASSUME NEW c \in Cursors, SetCursor(c) PROVE CursorInv'
  <2>1. CursorTypes'
    BY <1>1, <1>3 DEF CursorTypes, SetCursor, fixedVars
  <2>2. drawing' = Draw(drawing, c, 1, rotation) /\ cursor' = c /\ installed' = FALSE
        /\ torn' = Tears /\ UNCHANGED <<fixedVars, screen, missed>>
    BY <1>3 DEF SetCursor
  <2>3. QED
    BY <1>1, <1>2, <2>1, <2>2, DrawTells, RedrawnAside
<1>4. ASSUME NEW turn \in Turns, SetRotation(turn) PROVE CursorInv'
  <2>0. turn \in Rotations
    BY CursorAssumption
  <2>1. CursorTypes'
    BY <1>1, <1>4, <2>0 DEF CursorTypes, SetRotation, fixedVars
  <2>2. CASE drawing.frame # 0
    <3>1. drawing' = Draw(drawing, cursor, drawing.frame, turn) /\ cursor' = cursor
          /\ torn' = Tears /\ unhanded' /\ UNCHANGED <<fixedVars, screen, installed, missed>>
      BY <1>4, <2>2 DEF SetRotation
    <3>2. QED
      BY <1>1, <2>0, <2>1, <2>2, <3>1, DrawTells, RedrawnAside
  <2>3. CASE drawing.frame = 0
    <3>1. UNCHANGED <<fixedVars, cursor, drawing, position, installed, screen, torn, missed,
                      unhanded>>
      BY <1>4, <2>3 DEF SetRotation
    <3>2. QED
      BY <2>1, <3>1 DEF CursorInv, DrawingInv, ScreenInv, fixedVars, Drawable, Announced, Aims
  <2>4. QED
    BY <2>2, <2>3
<1>5. ASSUME NEW pointer \in Pointers, MoveTo(pointer) PROVE CursorInv'
  <2>1. CursorTypes'
    BY <1>1, <1>5, CursorAssumption DEF CursorTypes, MoveTo, fixedVars
  <2>2. UNCHANGED <<fixedVars, cursor, drawing, installed, screen, torn, missed, unhanded>>
    BY <1>5 DEF MoveTo
  <2>3. QED
    BY <2>1, <2>2 DEF CursorInv, DrawingInv, ScreenInv, fixedVars, Drawable, Announced, Aims
<1>6. ASSUME NEW shows \in BOOLEAN, SetVisible(shows) PROVE CursorInv'
  <2>1. UNCHANGED <<fixedVars, cursor, drawing, position, rotation, installed, screen, torn,
                    missed, unhanded>>
    BY <1>6 DEF SetVisible
  <2>2. QED
    BY <2>1 DEF CursorInv, CursorTypes, DrawingInv, ScreenInv, fixedVars, Drawable, Announced, Aims
<1>7. CASE Animate
  <2>1. PICK index \in DOMAIN cursor : drawing' = Draw(drawing, cursor, index, rotation)
    BY <1>7 DEF Animate
  <2>2. CursorTypes'
    BY <1>1, <1>7 DEF CursorTypes, Animate, fixedVars
  <2>3. cursor \in Cursors
    BY <1>1
  <2>4. cursor' = cursor /\ torn' = Tears /\ unhanded'
        /\ UNCHANGED <<fixedVars, screen, installed, missed>>
    BY <1>7 DEF Animate
  <2>5. QED
    BY <1>1, <2>1, <2>2, <2>3, <2>4, DrawTells, RedrawnAside
<1>8. CASE Prepare
  <2>1. CursorTypes'
    BY <1>1, <1>8 DEF CursorTypes, Prepare, fixedVars
  <2>2. drawing' = Prepared /\ cursor' = cursor /\ installed' = StillInstalled
        /\ torn' = (IF EdgeMoves THEN Tears ELSE torn) /\ unhanded' = unhanded
        /\ UNCHANGED <<fixedVars, screen, missed>>
    BY <1>8 DEF Prepare
  <2>3. CASE ~EdgeMoves
    <3>1. drawing' = drawing /\ (installed' <=> installed) /\ torn' = torn
      BY <2>2, <2>3, PreparedIsDrawn DEF StillInstalled
    <3>2. QED
      BY <2>1, <2>2, <3>1 DEF CursorInv, DrawingInv, ScreenInv, fixedVars, Drawable, Announced, Aims
  <2>4. CASE EdgeMoves
    <3>1. torn' = Tears /\ (pathKind = "legacy" => ~installed')
      BY <2>2, <2>4, Zenon DEF StillInstalled
    <3>2. QED
      BY <2>1, <2>2, <3>1, PreparedIsDrawn, RedrawnAside
  <2>5. QED
    BY <2>3, <2>4
<1>9. ASSUME NEW d, Drawable(d), Announced(d), LandAtomic(d),
             d.frame # 0 => cursor \in Cursors /\ d.frame \in DOMAIN cursor
      PROVE  CursorInv'
  <2>1. /\ pathKind = "atomic" /\ screen' = StageInto(d) /\ cursor' = cursor
        /\ drawing' = [d EXCEPT !.pingPong = Published(d.pingPong)]
        /\ torn' = FALSE /\ UNCHANGED <<fixedVars, position, rotation>>
    BY <1>9 DEF LandAtomic
  <2>2. CursorTypes' /\ pathKind' = pathKind
    BY <1>1, <2>1 DEF CursorTypes, fixedVars
  <2>3. /\ Drawable(drawing') /\ Announced(drawing') /\ drawing'.frame = d.frame
        /\ drawing'.buffers = d.buffers
        /\ drawing'.pingPong.active = CommitTarget(d.pingPong)
    BY <1>9, <2>1, PublishedIsDrawn
  <2>4. DrawingInv'
    <3>1. drawing'.frame # 0 => cursor' \in Cursors /\ drawing'.frame \in DOMAIN cursor'
      BY <1>9, <2>1, <2>3
    <3>2. QED
      BY <2>2, <2>3, <3>1 DEF DrawingInv, Drawable, Announced
  <2>5. ScreenInv'
    <3>1. CASE ~visible
      <4>1. screen'.buffer = 2 /\ pathKind' # "legacy"
        BY <2>1, <2>2, <3>1 DEF StageInto, Dark
      <4>2. QED
        BY <4>1 DEF ScreenInv
    <3>2. CASE visible
      <4>1. /\ screen'.pointer = position /\ screen'.origin = PlaneOrigin(position, DrawnHotspot(d))
            /\ screen'.buffer = CommitTarget(d.pingPong)
        BY <2>1, <3>2 DEF StageInto
      <4>2. Aims(screen', d.buffers[CommitTarget(d.pingPong)])
        BY <1>1, <1>9, <4>1, ShownAsTold
      <4>3. CommitTarget(d.pingPong) \in 0..1
        BY <1>9 DEF Drawable, Drawings, PingPongs, CommitTarget
      <4>4. Aims(screen', drawing'.buffers[screen'.buffer]) /\ screen'.buffer \in 0..1
            /\ screen'.buffer = drawing'.pingPong.active
        BY <2>3, <4>1, <4>2, <4>3
      <4>5. QED
        BY <2>1, <2>2, <4>4 DEF ScreenInv
    <3>3. QED
      BY <3>1, <3>2
  <2>6. QED
    BY <2>2, <2>4, <2>5 DEF CursorInv
<1>10. CASE CommitAtomic
  BY <1>9, <1>10, PreparedIsDrawn DEF CommitAtomic
<1>11. CASE CommitCoalesced
  BY <1>1, <1>9, <1>11 DEF CommitCoalesced
<1>16. CASE PublishMissed
  <2>1. /\ pathKind = "atomic" /\ drawing' = [drawing EXCEPT !.pingPong = Published(drawing.pingPong)]
        /\ missed' = (missed \/ drawing.pingPong.drawn)
        /\ UNCHANGED <<fixedVars, cursor, position, rotation, screen, torn>>
    BY <1>16 DEF PublishMissed
  <2>2. CursorTypes' /\ pathKind' = pathKind
    BY <1>1, <2>1 DEF CursorTypes, fixedVars
  <2>3. /\ Drawable(drawing') /\ Announced(drawing') /\ drawing'.frame = drawing.frame
        /\ drawing'.buffers = drawing.buffers
        /\ ~drawing.pingPong.drawn => drawing'.pingPong.active = drawing.pingPong.active
    BY <1>1, <2>1, PublishedIsDrawn
  <2>4. DrawingInv'
    <3>1. drawing'.frame # 0 => cursor' \in Cursors /\ drawing'.frame \in DOMAIN cursor'
      BY <1>1, <2>1, <2>3
    <3>2. QED
      BY <2>2, <2>3, <3>1 DEF DrawingInv, Drawable, Announced
  <2>5. ASSUME screen.buffer # 2
        PROVE  /\ screen.buffer \in 0..1
               /\ ~torn => Aims(screen, drawing'.buffers[screen.buffer])
               /\ ~missed' => ~torn /\ screen.buffer = drawing'.pingPong.active
    <3>1. /\ screen.buffer \in 0..1
          /\ ~torn => Aims(screen, drawing.buffers[screen.buffer])
          /\ ~missed => ~torn /\ screen.buffer = drawing.pingPong.active
      BY <2>1, <2>5 DEF CursorInv, ScreenInv
    <3>2. QED
      BY <2>1, <2>3, <3>1
  <2>6. screen' = screen /\ torn' = torn /\ pathKind' # "legacy"
    BY <2>1, <2>2
  <2>7. ScreenInv'
    BY <2>5, <2>6 DEF ScreenInv
  <2>8. QED
    BY <2>2, <2>4, <2>7 DEF CursorInv
<1>12. CASE CommitLegacy
  <2>1. /\ pathKind = "legacy" /\ drawing' = Prepared /\ cursor' = cursor
        /\ UNCHANGED <<fixedVars, position, rotation, visible>>
    BY <1>12, Zenon DEF CommitLegacy
  <2>2. CursorTypes'
    BY <1>1, <2>1 DEF CursorTypes, fixedVars
  <2>3. Drawable(Prepared) /\ Announced(Prepared)
        /\ (Prepared.frame # 0 => cursor \in Cursors /\ Prepared.frame \in DOMAIN cursor)
    BY PreparedIsDrawn
  <2>4. DrawingInv' /\ pathKind' = pathKind
    BY <2>1, <2>3 DEF DrawingInv, Drawable, Announced, fixedVars
  <2>5. CommitTarget(Prepared.pingPong) = 0
    BY <2>1, <2>3 DEF Drawable, CommitTarget
  <2>6. ASSUME visible
        PROVE  StageInto(Prepared) =
                 [buffer |-> 0, origin |-> PlaneOrigin(position, DrawnHotspot(Prepared)),
                  turn |-> IF RotatesInHardware(rotation) THEN rotation ELSE "None",
                  pointer |-> position, copy |-> Blank]
    BY <2>5, <2>6 DEF StageInto
  <2>7. ASSUME NEW sight, sight.pointer = position,
               sight.origin = PlaneOrigin(position, DrawnHotspot(Prepared))
        PROVE  Aims(sight, Prepared.buffers[0])
    <3>1. Aims(sight, Prepared.buffers[CommitTarget(Prepared.pingPong)])
      BY <1>1, <2>3, <2>7, ShownAsTold
    <3>2. QED
      BY <2>5, <3>1
  <2>8. ScreenInv'
    <3>1. CASE ~visible
      <4>1. screen' = Dark /\ installed' = FALSE
        BY <1>12, <3>1, Zenon DEF CommitLegacy
      <4>2. screen'.buffer = 2
        BY <4>1 DEF Dark
      <4>3. QED
        BY <4>1, <4>2 DEF ScreenInv
    <3>2. CASE visible /\ ~StillInstalled
      <4>1. PICK moved \in BOOLEAN :
              /\ screen' = [StageInto(Prepared) EXCEPT
                              !.copy = Prepared.buffers[0],
                              !.origin = IF moved THEN @ ELSE screen.origin,
                              !.pointer = IF moved THEN @ ELSE screen.pointer]
              /\ torn' = ~moved
        BY <1>12, <3>2, Zenon DEF CommitLegacy
      <4>2. installed' = TRUE /\ unhanded' = FALSE
        BY <1>12, <3>2, Zenon DEF CommitLegacy
      <4>3. /\ screen'.buffer = 0 /\ screen'.copy = Prepared.buffers[0]
            /\ moved => /\ screen'.pointer = position
                        /\ screen'.origin = PlaneOrigin(position, DrawnHotspot(Prepared))
        BY <2>6, <3>2, <4>1
      <4>4. ~torn' => Aims(screen', drawing'.buffers[0])
        BY <2>1, <2>7, <4>1, <4>3
      <4>5. screen'.buffer # 2 /\ pathKind' # "atomic" /\ screen'.copy = drawing'.buffers[0]
        BY <2>1, <2>4, <4>3
      <4>6. QED
        BY <4>2, <4>3, <4>4, <4>5 DEF ScreenInv
    <3>3. CASE visible /\ StillInstalled
      <4>1. /\ screen' = [StageInto(Prepared) EXCEPT !.copy = screen.copy]
            /\ torn' = FALSE /\ installed' = installed /\ unhanded' = unhanded
        BY <1>12, <3>3 DEF CommitLegacy
      <4>2. /\ screen'.buffer = 0 /\ screen'.pointer = position /\ screen'.copy = screen.copy
            /\ screen'.origin = PlaneOrigin(position, DrawnHotspot(Prepared))
        BY <2>6, <3>3, <4>1
      <4>3. installed /\ ~EdgeMoves
        BY <2>1, <3>3 DEF StillInstalled
      <4>4. drawing' = drawing /\ Prepared = drawing
        BY <2>1, <4>3, PreparedIsDrawn
      <4>5. Aims(screen', drawing'.buffers[0])
        BY <2>7, <4>2, <4>4
      <4>6. screen.buffer = 0 /\ (~unhanded => screen.copy = drawing.buffers[0])
        BY <2>1, <4>3 DEF CursorInv, ScreenInv
      <4>7. QED
        BY <2>1, <2>4, <4>1, <4>2, <4>3, <4>4, <4>5, <4>6 DEF ScreenInv
    <3>4. QED
      BY <3>1, <3>2, <3>3
  <2>9. QED
    BY <2>2, <2>4, <2>8 DEF CursorInv
<1>13. CASE PauseAndResume
  <2>1. /\ screen' = Dark /\ cursor' = cursor
        /\ drawing' = IF cursor = <<>> THEN Nothing
                      ELSE Draw(Nothing, cursor, Max({drawing.frame, 1}), rotation)
        /\ UNCHANGED <<fixedVars, position, rotation>>
    BY <1>13 DEF PauseAndResume
  <2>2. CursorTypes'
    BY <1>1, <2>1 DEF CursorTypes, fixedVars
  <2>3. Drawable(drawing') /\ Announced(drawing')
        /\ (drawing'.frame # 0 => cursor \in Cursors /\ drawing'.frame \in DOMAIN cursor)
    <3>1. CASE cursor = <<>>
      BY <2>1, <3>1, NothingIsDrawn
    <3>2. CASE cursor # <<>>
      <4>1. cursor \in Cursors
        BY <1>1, <3>2
      <4>2. Max({drawing.frame, 1}) \in DOMAIN cursor
        <5>1. drawing.frame \in Nat
          BY <1>1 DEF Drawable, Drawings
        <5>2. \A n \in Int : Max({n, 1}) = (IF n >= 1 THEN n ELSE 1)
          BY LeastAndMost
        <5>3. Max({drawing.frame, 1}) = (IF drawing.frame >= 1 THEN drawing.frame ELSE 1)
          BY <5>1, <5>2
        <5>4. QED
          BY <1>1, <1>2, <4>1, <5>1, <5>3
      <4>3. drawing' = Draw(Nothing, cursor, Max({drawing.frame, 1}), rotation)
        BY <2>1, <3>2
      <4>4. QED
        BY <1>1, <4>1, <4>2, <4>3, NothingIsDrawn, DrawTells
    <3>3. QED
      BY <3>1, <3>2
  <2>4. DrawingInv'
    BY <2>1, <2>3 DEF DrawingInv, Drawable, Announced, fixedVars
  <2>5. ScreenInv'
    <3>1. screen'.buffer = 2 /\ installed' = FALSE
      BY <1>13 DEF PauseAndResume, Dark
    <3>2. QED
      BY <3>1 DEF ScreenInv
  <2>6. QED
    BY <2>2, <2>4, <2>5 DEF CursorInv
<1>14. CASE UNCHANGED cursorVars
  BY <1>14 DEF cursorVars, fixedVars, CursorInv, CursorTypes, DrawingInv, ScreenInv, Drawable,
               Announced, Aims
<1>15. QED
  BY <1>3, <1>4, <1>5, <1>6, <1>7, <1>8, <1>10, <1>11, <1>12, <1>13, <1>14, <1>16 DEF CursorNext

LEMMA CursorAimsTrue == CursorInv => PointerOnHotspot
<1> DEFINE picture == IF uploads THEN screen.copy ELSE drawing.buffers[screen.buffer]
           point == PlaneOrigin(screen.pointer, screen.origin)
<1> SUFFICES ASSUME CursorInv, screen.buffer # 2, picture # Blank,
                    picture.frame.xhot < picture.frame.w, picture.frame.yhot < picture.frame.h,
                    ~(torn /\ (pathKind = "legacy" \/ missed)), ~(uploads /\ unhanded)
             PROVE  point \in HotPixels(picture)
  BY DEF PointerOnHotspot
<1>1. /\ pathKind \in {"atomic", "legacy"} /\ (uploads => pathKind = "legacy")
      /\ Drawable(drawing)
  BY DEF CursorInv, CursorTypes, DrawingInv
<1>2. /\ picture = drawing.buffers[screen.buffer] /\ screen.buffer \in 0..1
      /\ Aims(screen, picture)
  <2>1. CASE pathKind = "atomic"
    <3>1. screen.buffer \in 0..1 /\ (~torn => Aims(screen, drawing.buffers[screen.buffer]))
          /\ (~missed => ~torn) /\ ~uploads
      BY <1>1, <2>1 DEF CursorInv, ScreenInv
    <3>2. QED
      BY <2>1, <3>1
  <2>2. CASE pathKind = "legacy"
    <3>1. /\ screen.buffer = 0 /\ installed /\ Aims(screen, drawing.buffers[0])
          /\ ~unhanded => screen.copy = drawing.buffers[0]
      BY <2>2 DEF CursorInv, ScreenInv
    <3>2. QED
      BY <2>2, <3>1
  <2>3. QED
    BY <1>1, <2>1, <2>2
<1> HIDE DEF picture
<1>3. PictureOK(picture)
  BY <1>1, <1>2 DEF Drawable
<1>4. \A axis \in 1..2 :
        point[axis] = HotspotInBuffer(picture.frame, picture.rotation)[axis] - picture.shift[axis]
  BY <1>2 DEF Aims
<1>5. point \in [1..2 -> Int]
  <2>1. HotspotInBuffer(picture.frame, picture.rotation) \in [1..2 -> Nat]
        /\ picture.shift \in [1..2 -> Nat]
    BY <1>3, HotspotTyped DEF PictureOK
  <2>2. \A axis \in 1..2 : point[axis] \in Int
    BY <1>4, <2>1
  <2>3. point = [axis \in 1..2 |-> screen.pointer[axis] - screen.origin[axis]]
    BY DEF PlaneOrigin
  <2>4. point = [axis \in 1..2 |-> point[axis]]
    BY <2>3
  <2> HIDE DEF point
  <2>5. QED
    BY <2>2, <2>4
<1> HIDE DEF point
<1>6. point \in HotPixels(picture)
  BY <1>3, <1>4, <1>5, HotspotShown
<1>7. QED
  BY <1>6 DEF picture, point

\* The pixel a commit aimed at shows the hotspot of the picture on screen,
\* whatever the sprite's size, turn and place, whatever was drawn, moved, turned
\* or hidden since, and through commits that are published without having landed
\* until something is drawn: only what was told of a picture aims it.
THEOREM CursorPointsTrue == PartsSpec => []PointerOnHotspot
<1>1. PartsInit => CursorInv
  BY CursorStart DEF PartsInit
<1>2. CursorInv /\ [PartsNext]_partsVars => CursorInv'
  BY PartsMove, CursorStep
<1>3. CursorInv => PointerOnHotspot
  BY CursorAimsTrue
<1>4. QED
  BY <1>1, <1>2, <1>3, PTL DEF PartsSpec

-----------------------------------------------------------------------------
(* The search for a display.                                               *)

\* The first of a list that is one of a set is in both, and none before it.
LEMMA FirstIsIn ==
  ASSUME NEW T, NEW list \in Seq(T), NEW S, NEW k \in 1..Len(list), list[k] \in S
  PROVE  \E i \in 1..k : /\ FirstIn(list, S) = list[i] /\ list[i] \in S
                         /\ i = Min({j \in 1..Len(list) : list[j] \in S})
                         /\ \A j \in 1..i - 1 : list[j] \notin S
<1> DEFINE places == {j \in 1..Len(list) : list[j] \in S}
           i == Min(places)
<1>1. k \in places /\ places \in SUBSET Nat
  OBVIOUS
<1>2. i \in places /\ \A j \in places : i <= j
  <2>1. \E x \in places : \A y \in places : x <= y
    BY <1>1, LeastExists
  <2>2. QED
    BY <2>1 DEF Min
<1>3. FirstIn(list, S) = list[i]
  BY DEF FirstIn
<1>4. i \in 1..k /\ list[i] \in S
  BY <1>1, <1>2
<1>5. \A j \in 1..i - 1 : list[j] \notin S
  BY <1>2, <1>4
<1>6. QED
  BY <1>3, <1>4, <1>5

LEMMA FirstIsOne ==
  ASSUME NEW T, NEW list \in Seq(T), NEW S, ToSet(list) \cap S # {}
  PROVE  FirstIn(list, S) \in S /\ FirstIn(list, S) \in ToSet(list)
<1>1. PICK x \in ToSet(list) : x \in S
  OBVIOUS
<1>2. PICK k \in 1..Len(list) : list[k] = x
  BY <1>1 DEF ToSet
<1>3. PICK i \in 1..k : FirstIn(list, S) = list[i] /\ list[i] \in S
  BY <1>1, <1>2, FirstIsIn
<1>4. QED
  BY <1>3 DEF ToSet

\* A mode is one of the list's.
LEMMA ModeIsOfTheList ==
  ASSUME NEW modes \in Seq(Modes), modes # <<>>
  PROVE  SelectPreferredMode(modes) \in ToSet(modes)
<1> DEFINE n == Len(modes)
           V == ToSet(modes)
           preferred == {m \in V : m.preferred}
           step == [k \in 1..n |-> [b \in V |-> IF Better(modes[k], b) THEN modes[k] ELSE b]]
           Best(f) == f = [k \in 0..n |-> IF k = 0 THEN modes[1]
                                         ELSE IF Better(modes[k], f[k - 1]) THEN modes[k]
                                         ELSE f[k - 1]]
           best == CHOOSE f : Best(f)
<1>1. n \in Nat \ {0} /\ \A k \in 1..n : modes[k] \in V
  BY DEF ToSet
<1>2. SelectPreferredMode(modes) = IF preferred # {} THEN FirstIn(modes, preferred) ELSE best[n]
  BY DEF SelectPreferredMode
<1>3. CASE preferred # {}
  <2>1. V \cap preferred # {}
    BY <1>3
  <2>2. FirstIn(modes, preferred) \in preferred
    <3> HIDE DEF preferred
    <3>1. QED
      BY <2>1, FirstIsOne
  <2>3. QED
    BY <1>2, <1>3, <2>2
<1>4. CASE preferred = {}
  <2>1. Steps(n, V, modes[1], step)
    <3>1. step \in [1..n -> [V -> V]]
      BY <1>1
    <3>2. QED
      BY <1>1, <3>1 DEF Steps
  <2>2. PICK f : Iterates(n, V, modes[1], step, f)
    <3> HIDE DEF step, V, n
    <3>1. QED
      BY <2>1, IteratesExist
  <2>3. \A k \in 1..n : f[k - 1] \in V /\ f[k] = step[k][f[k - 1]]
    BY <1>1, <2>2 DEF Iterates
  <2>4. Best(f)
    <3>1. f \in [0..n -> V] /\ f[0] = modes[1]
      BY <2>2 DEF Iterates
    <3>2. \A k \in 1..n : f[k] = IF Better(modes[k], f[k - 1]) THEN modes[k] ELSE f[k - 1]
      BY <2>3
    <3> HIDE DEF step, V
    <3>3. \A k \in 0..n : f[k] = IF k = 0 THEN modes[1]
                                 ELSE IF Better(modes[k], f[k - 1]) THEN modes[k] ELSE f[k - 1]
      BY <1>1, <3>1, <3>2
    <3>4. QED
      BY <3>1, <3>3
  <2>5. Best(best)
    BY <2>4
  <2> HIDE DEF best
  <2> DEFINE T == {k \in 0..n : best[k] \in V}
  <2>6. 0 \in T
    <3>1. best[0] = modes[1]
      BY <1>1, <2>5
    <3>2. QED
      BY <1>1, <3>1
  <2>7. ASSUME NEW k \in 1..n, k - 1 \in T PROVE k \in T
    <3>1. best[k] = IF Better(modes[k], best[k - 1]) THEN modes[k] ELSE best[k - 1]
      BY <1>1, <2>5
    <3> HIDE DEF V
    <3>2. QED
      BY <1>1, <2>7, <3>1
  <2>8. 0..n \subseteq T
    <3> HIDE DEF T
    <3>1. QED
      BY <1>1, <2>6, <2>7, Reaches
  <2>9. best[n] \in V
    BY <1>1, <2>8
  <2>10. QED
    BY <1>2, <1>4, <2>9 DEF best
<1>5. QED
  BY <1>3, <1>4

SinkType == [connected : BOOLEAN, modes : Seq(Modes), encoder : {0} \cup DOMAIN Drives]

\* An encoder that a connector is on is its own, and drives what it may.
Routed(id, sink) == sink.encoder # 0 => sink.encoder \in ToSet(Connector(id).encoders)

DisplaysAreTyped ==
  /\ sinks \in [Ids(Connectors) -> SinkType]
  /\ \A id \in Ids(Connectors) : Routed(id, sinks[id])
  /\ routes \in [DOMAIN Drives -> Nat] /\ \A e \in DOMAIN Drives : routes[e] \in {0} \cup Drives[e]
  /\ uevents \in Seq([type : {"add", "change"}, hotplug : {"1", "none"}]) /\ owed \in BOOLEAN

Coming == \E i \in 1..Len(uevents) : IsHotplug(uevents[i])

SameDisplay(sink, other) == sink.connected = other.connected /\ sink.modes = other.modes

\* Of the first k connectors those that may be chosen were seen, in order, and
\* as they are unless a hotplug is coming; none of the others was asked.
SeenOf(k) ==
  LET seen == finder.seen IN
  /\ seen \in Seq([id : Ids(Connectors), sink : SinkType])
  /\ \A i \in 1..Len(seen) :
       /\ Place(seen[i].id) <= k /\ finder.pin \in {0, seen[i].id}
       /\ Eligible(seen[i].sink) /\ Routed(seen[i].id, seen[i].sink)
  /\ \A i, j \in 1..Len(seen) : i < j => Place(seen[i].id) < Place(seen[j].id)
  /\ \A i \in 1..Len(seen) : seen[i].id \notin finder.mute
  /\ \A id \in Ids(Connectors) : id \in finder.mute => Place(id) <= k
  /\ ~Coming =>
       /\ \A i \in 1..Len(seen) : SameDisplay(seen[i].sink, sinks[seen[i].id])
       /\ \A id \in Ids(Connectors) :
            Candidate(id) /\ Place(id) <= k => \E i \in 1..Len(seen) : seen[i].id = id

Probing ==
  finder.at = "connectors" =>
    \E k \in 0..Len(Connectors) :
      finder.left = SubSeq(Connectors, k + 1, Len(Connectors)) /\ SeenOf(k)

Reachable == \E e \in ToSet(Connector(finder.connector).encoders) : finder.crtc \in Drives[e]

Answered ==
  finder.at = "rest" /\ finder.answer # "none" =>
    /\ finder.answer \in {"NothingConnected", "ConnectorUnavailable"} =>
         (~Coming /\ ~owed => \A id \in Ids(Connectors) : ~Candidate(id))
    /\ finder.answer \notin {"NothingConnected", "ConnectorUnavailable"} =>
         /\ finder.connector \in Ids(Connectors)
         /\ ~Coming /\ ~owed => Candidate(finder.connector)
    /\ finder.answer = "target" =>
         /\ ~Coming /\ ~owed =>
              /\ \A other \in Ids(Connectors) \ {finder.connector} : Candidate(other) =>
                   \/ RankOf(finder.connector) < RankOf(other)
                   \/ /\ RankOf(finder.connector) = RankOf(other)
                      /\ Place(finder.connector) < Place(other)
              /\ finder.mode \in ToSet(sinks[finder.connector].modes)
         /\ Reachable
         /\ \E p \in ToSet(PlaneList) :
              p.id = finder.plane /\ p.type = "primary" /\ finder.crtc \in p.crtcs

FinderHasItsFields ==
  finder = [at |-> finder.at, pin |-> finder.pin, left |-> finder.left, seen |-> finder.seen,
            mute |-> finder.mute, answer |-> finder.answer, connector |-> finder.connector, mode |-> finder.mode,
            crtc |-> finder.crtc, plane |-> finder.plane]

DiscoveryInv ==
  /\ DisplaysAreTyped /\ FinderHasItsFields
  /\ finder.at \in {"rest", "connectors"} /\ (finder.at = "connectors" => ~owed)
  /\ Probing /\ Answered

\* Ids and places are of each other.
LEMMA PlacesOfIds ==
  /\ Len(Connectors) \in Nat
  /\ \A id \in Ids(Connectors) :
       /\ Place(id) \in 1..Len(Connectors) /\ Connectors[Place(id)].id = id
       /\ Connector(id) = Connectors[Place(id)]
       /\ Connector(id).kind \in STRING /\ Connector(id).encoders \in Seq(DOMAIN Drives)
  /\ \A k \in 1..Len(Connectors) :
       Connectors[k].id \in Ids(Connectors) /\ Place(Connectors[k].id) = k
<1>1. /\ Connectors \in Seq([id : Nat \ {0}, kind : STRING, encoders : Seq(DOMAIN Drives)])
      /\ Len(Connectors) \in Nat /\ DOMAIN Connectors = 1..Len(Connectors)
      /\ \A i, j \in 1..Len(Connectors) : Connectors[i].id = Connectors[j].id => i = j
  BY DiscoveryAssumption
<1>2. \A k \in 1..Len(Connectors) :
        Connectors[k] \in [id : Nat \ {0}, kind : STRING, encoders : Seq(DOMAIN Drives)]
  BY <1>1, ElementOfSeq
<1>3. ASSUME NEW id \in Ids(Connectors)
      PROVE  /\ Place(id) \in 1..Len(Connectors) /\ Connectors[Place(id)].id = id
             /\ Connector(id) = Connectors[Place(id)]
             /\ Connector(id).kind \in STRING /\ Connector(id).encoders \in Seq(DOMAIN Drives)
  <2>1. PICK k \in 1..Len(Connectors) : Connectors[k].id = id
    BY DEF Ids
  <2>2. Place(id) \in 1..Len(Connectors) /\ Connectors[Place(id)].id = id
    BY <2>1 DEF Place
  <2>3. Connectors[Place(id)] \in ToSet(Connectors)
    BY <1>1, <2>2 DEF ToSet
  <2>4. Connector(id) \in ToSet(Connectors) /\ Connector(id).id = id
    BY <2>2, <2>3 DEF Connector
  <2>5. PICK l \in 1..Len(Connectors) : Connectors[l] = Connector(id)
    BY <1>1, <2>4 DEF ToSet
  <2>6. l = Place(id)
    BY <1>1, <2>2, <2>4, <2>5
  <2>7. QED
    BY <1>2, <2>2, <2>5, <2>6
<1>4. ASSUME NEW k \in 1..Len(Connectors)
      PROVE  Connectors[k].id \in Ids(Connectors) /\ Place(Connectors[k].id) = k
  <2>1. Connectors[k].id \in Ids(Connectors)
    BY DEF Ids
  <2>2. QED
    BY <1>1, <1>3, <2>1
<1>5. QED
  BY <1>1, <1>3, <1>4

\* The best of what was seen is ranked no later than any other, and listed
\* first of those ranked like it.
LEMMA BestIsPreferred ==
  ASSUME NEW seen, seen \in Seq([id : Ids(Connectors), sink : SinkType]), seen # <<>>,
         \A i, j \in 1..Len(seen) : i < j => Place(seen[i].id) < Place(seen[j].id)
  PROVE  \E b \in 1..Len(seen) :
           /\ Preferred(seen) = seen[b]
           /\ \A j \in 1..Len(seen) \ {b} :
                \/ RankOf(seen[b].id) < RankOf(seen[j].id)
                \/ /\ RankOf(seen[b].id) = RankOf(seen[j].id)
                   /\ Place(seen[b].id) < Place(seen[j].id)
<1> DEFINE n == Len(seen)
           kinds == [i \in 1..n |-> Connector(seen[i].id).kind]
           ranked(kind) == {r \in 1..Len(Ranks) : Ranks[r] = kind}
<1>1. n \in Nat \ {0} /\ \A i \in 1..n : seen[i].id \in Ids(Connectors)
  <2> DEFINE T == [id : Ids(Connectors), sink : SinkType]
  <2>1. seen \in Seq(T)
    OBVIOUS
  <2>2. \A i \in 1..Len(seen) : seen[i] \in T
    BY <2>1, ElementOfSeq
  <2>3. \A t \in T : t.id \in Ids(Connectors)
    OBVIOUS
  <2> HIDE DEF T
  <2>4. Len(seen) # 0
    BY <2>1, EmptySeq
  <2>5. QED
    BY <2>1, <2>2, <2>3, <2>4
<1>2. kinds \in Seq(STRING) /\ Len(kinds) = n /\ \A i \in 1..n : kinds[i] \in STRING
  <2>1. kinds \in [1..n -> STRING]
    BY <1>1, PlacesOfIds
  <2>2. QED
    BY <1>1, <2>1
<1>3. Ranks \in Seq(STRING) /\ Len(Ranks) \in Nat
  BY DiscoveryAssumption
<1>4. ASSUME NEW i \in 1..n
      PROVE  /\ kinds[i] \in ToSet(Ranks) =>
                  /\ RankOf(seen[i].id) \in 1..Len(Ranks)
                  /\ Ranks[RankOf(seen[i].id)] = kinds[i]
                  /\ \A r \in 1..Len(Ranks) : Ranks[r] = kinds[i] => RankOf(seen[i].id) <= r
             /\ kinds[i] \notin ToSet(Ranks) => RankOf(seen[i].id) = Len(Ranks) + 1
  <2>1. kinds[i] = Connector(seen[i].id).kind
    OBVIOUS
  <2>2. CASE kinds[i] \in ToSet(Ranks)
    <3>1. ranked(kinds[i]) \in SUBSET Nat /\ ranked(kinds[i]) # {}
      <4>1. DOMAIN Ranks = 1..Len(Ranks) /\ DOMAIN Ranks \subseteq Nat
        BY <1>3
      <4>2. PICK r \in DOMAIN Ranks : Ranks[r] = kinds[i]
        <5> HIDE DEF kinds
        <5>1. QED
          BY <2>2 DEF ToSet
      <4>3. r \in ranked(kinds[i])
        BY <4>1, <4>2
      <4>4. QED
        BY <4>1, <4>3
    <3>2. RankOf(seen[i].id) = Min(ranked(kinds[i]))
      BY <2>1, <2>2 DEF RankOf
    <3>3. \E x \in ranked(kinds[i]) : \A y \in ranked(kinds[i]) : x <= y
      BY <3>1, LeastExists
    <3>4. /\ Min(ranked(kinds[i])) \in ranked(kinds[i])
          /\ \A y \in ranked(kinds[i]) : Min(ranked(kinds[i])) <= y
      BY <3>3 DEF Min
    <3>5. QED
      BY <2>2, <3>2, <3>4
  <2>3. CASE kinds[i] \notin ToSet(Ranks)
    BY <2>1, <2>3 DEF RankOf
  <2>4. QED
    BY <2>2, <2>3
<1>5. Preferred(seen) = seen[IF RankPick(kinds, Ranks) = 0 THEN 1 ELSE RankPick(kinds, Ranks)]
  BY DEF Preferred
<1> HIDE DEF kinds
<1>6. CASE ToSet(Ranks) \cap ToSet(kinds) = {}
  <2>1. \A i \in 1..n : kinds[i] \notin ToSet(Ranks)
    <3>1. \A i \in 1..n : kinds[i] \in ToSet(kinds)
      BY <1>2 DEF ToSet
    <3>2. QED
      BY <1>6, <3>1
  <2>2. RankPick(kinds, Ranks) = 0
    BY <1>6 DEF RankPick
  <2>3. \A j \in 1..n \ {1} :
          RankOf(seen[1].id) = RankOf(seen[j].id) /\ Place(seen[1].id) < Place(seen[j].id)
    <3>1. \A j \in 1..n : RankOf(seen[j].id) = Len(Ranks) + 1
      BY <1>4, <2>1
    <3>2. 1 \in 1..n /\ \A j \in 1..n \ {1} : 1 < j
      BY <1>1
    <3>3. QED
      BY <3>1, <3>2
  <2>4. QED
    BY <1>1, <1>5, <2>2, <2>3
<1>7. CASE ToSet(Ranks) \cap ToSet(kinds) # {}
  <2>1. PICK k \in 1..Len(Ranks) : Ranks[k] \in ToSet(kinds)
    BY <1>3, <1>7 DEF ToSet
  <2>2. PICK r \in 1..k : /\ FirstIn(Ranks, ToSet(kinds)) = Ranks[r] /\ Ranks[r] \in ToSet(kinds)
                          /\ \A s \in 1..r - 1 : Ranks[s] \notin ToSet(kinds)
    BY <1>3, <2>1, FirstIsIn
  <2>3. PICK h \in 1..n : kinds[h] = Ranks[r]
    BY <1>2, <2>2 DEF ToSet
  <2> DEFINE same == {i \in 1..n : kinds[i] = Ranks[r]}
             b == Min(same)
  <2>4. same \in SUBSET Nat /\ same # {}
    BY <2>3
  <2>5. b \in same /\ \A i \in same : b <= i
    <3>1. \E x \in same : \A y \in same : x <= y
      BY <2>4, LeastExists
    <3>2. QED
      BY <3>1 DEF Min
  <2>6. RankPick(kinds, Ranks) = b
    BY <1>2, <1>7, <2>2 DEF RankPick
  <2> HIDE DEF b
  <2>7. b \in 1..n /\ kinds[b] = Ranks[r]
    BY <2>5
  <2>8. Preferred(seen) = seen[b]
    BY <1>5, <2>6, <2>7
  <2>9. r \in 1..Len(Ranks)
    BY <2>2
  <2>10. ASSUME NEW i \in 1..n, kinds[i] \in ToSet(Ranks) PROVE r <= RankOf(seen[i].id)
    <3>1. RankOf(seen[i].id) \in 1..Len(Ranks) /\ Ranks[RankOf(seen[i].id)] = kinds[i]
      BY <1>4, <2>10
    <3>2. kinds[i] \in ToSet(kinds)
      BY <1>2 DEF ToSet
    <3>3. RankOf(seen[i].id) \notin 1..r - 1
      BY <2>2, <3>1, <3>2
    <3>4. QED
      BY <2>9, <3>1, <3>3
  <2>11. RankOf(seen[b].id) = r
    <3>1. kinds[b] \in ToSet(Ranks)
      BY <1>3, <2>7, <2>9 DEF ToSet
    <3>2. RankOf(seen[b].id) <= r /\ RankOf(seen[b].id) \in 1..Len(Ranks)
      BY <1>4, <2>7, <2>9, <3>1
    <3>3. r <= RankOf(seen[b].id)
      BY <2>7, <2>10, <3>1
    <3>4. QED
      BY <2>9, <3>2, <3>3
  <2>12. ASSUME NEW j \in 1..n \ {b}
         PROVE  \/ RankOf(seen[b].id) < RankOf(seen[j].id)
                \/ /\ RankOf(seen[b].id) = RankOf(seen[j].id)
                   /\ Place(seen[b].id) < Place(seen[j].id)
    <3>1. CASE kinds[j] \notin ToSet(Ranks)
      BY <1>3, <1>4, <2>9, <2>11, <3>1
    <3>2. CASE kinds[j] = Ranks[r]
      <4>1. b < j
        BY <2>5, <2>7, <3>2
      <4>2. RankOf(seen[j].id) = r
        <5>1. kinds[j] \in ToSet(Ranks)
          BY <1>3, <2>9, <3>2 DEF ToSet
        <5>2. RankOf(seen[j].id) <= r /\ RankOf(seen[j].id) \in 1..Len(Ranks)
          BY <1>4, <2>9, <3>2, <5>1
        <5>3. QED
          BY <2>9, <2>10, <5>1, <5>2
      <4>3. QED
        BY <2>7, <2>11, <4>1, <4>2
    <3>3. CASE kinds[j] \in ToSet(Ranks) /\ kinds[j] # Ranks[r]
      <4>1. r <= RankOf(seen[j].id) /\ RankOf(seen[j].id) \in 1..Len(Ranks)
            /\ RankOf(seen[j].id) # r
        BY <1>4, <2>10, <3>3
      <4>2. QED
        BY <2>9, <2>11, <4>1
    <3>4. QED
      BY <3>1, <3>2, <3>3
  <2>13. QED
    BY <2>7, <2>8, <2>12
<1>8. QED
  BY <1>6, <1>7

LEMMA DiscoveryStart == DiscoveryInit => DiscoveryInv
<1> SUFFICES ASSUME DiscoveryInit PROVE DiscoveryInv
  OBVIOUS
<1>1. DisplaysAreTyped
  <2>1. Bare0 \in SinkType /\ Bare0.encoder = 0
    BY DEF Bare0, SinkType
  <2>2. /\ sinks = [id \in Ids(Connectors) |-> Bare0] /\ routes = [e \in DOMAIN Drives |-> 0]
        /\ uevents = <<>> /\ owed = TRUE
    BY DEF DiscoveryInit
  <2>3. \A id \in Ids(Connectors) : sinks[id] = Bare0
    BY <2>2
  <2>4. \A id \in Ids(Connectors) : Routed(id, sinks[id])
    BY <2>1, <2>3 DEF Routed
  <2>5. QED
    BY <2>1, <2>2, <2>4 DEF DisplaysAreTyped
<1>2. finder.at = "rest" /\ finder.answer = "none" /\ FinderHasItsFields
  BY DEF DiscoveryInit, Resting, FinderHasItsFields
<1>3. QED
  BY <1>1, <1>2 DEF DiscoveryInv, Probing, Answered

\* What is known of the displays stays so while they do.
LEMMA DisplaysStay ==
  ASSUME DiscoveryInv, DisplaysAreTyped', UNCHANGED finder,
         Coming' \/ owed' \/ /\ ~Coming /\ ~owed
                             /\ \A id \in Ids(Connectors) : SameDisplay(sinks'[id], sinks[id]),
         Coming => Coming' \/ owed',
         finder.at = "connectors" => ~owed'
  PROVE  DiscoveryInv'
<1>1. \A id \in Ids(Connectors) : SameDisplay(sinks'[id], sinks[id]) =>
        (Candidate(id)' <=> Candidate(id))
  BY DEF Candidate, Eligible, SameDisplay
<1>2. Probing'
  <2> SUFFICES ASSUME finder.at = "connectors"
               PROVE  \E k \in 0..Len(Connectors) :
                        /\ finder.left = SubSeq(Connectors, k + 1, Len(Connectors))
                        /\ SeenOf(k)'
    BY DEF Probing
  <2>1. PICK k \in 0..Len(Connectors) :
          finder.left = SubSeq(Connectors, k + 1, Len(Connectors)) /\ SeenOf(k)
    BY DEF DiscoveryInv, Probing
  <2>2. \A i \in 1..Len(finder.seen) : finder.seen[i].id \in Ids(Connectors)
    <3> DEFINE T == [id : Ids(Connectors), sink : SinkType]
    <3>1. finder.seen \in Seq(T)
      BY <2>1 DEF SeenOf
    <3>2. \A i \in 1..Len(finder.seen) : finder.seen[i] \in T
      BY <3>1, ElementOfSeq
    <3>3. QED
      BY <3>2
  <2>3. ASSUME ~Coming'
        PROVE  /\ \A i \in 1..Len(finder.seen) :
                    SameDisplay(finder.seen[i].sink, sinks'[finder.seen[i].id])
               /\ \A id \in Ids(Connectors) :
                    Candidate(id)' /\ Place(id) <= k =>
                      \E i \in 1..Len(finder.seen) : finder.seen[i].id = id
    <3>1. ~Coming /\ \A id \in Ids(Connectors) : SameDisplay(sinks'[id], sinks[id])
      BY <2>3
    <3>2. QED
      BY <1>1, <2>1, <2>2, <3>1 DEF SeenOf, SameDisplay
  <2>4. SeenOf(k)'
    BY <2>1, <2>3 DEF SeenOf
  <2>5. QED
    BY <2>1, <2>4
<1>3. Answered'
  <2>1. Answered /\ finder' = finder
    BY DEF DiscoveryInv
  <2>2. CASE Coming' \/ owed'
    BY <2>1, <2>2 DEF Answered, Reachable
  <2>3. CASE ~Coming' /\ ~owed'
    <3>1. /\ ~Coming /\ ~owed
          /\ \A id \in Ids(Connectors) : SameDisplay(sinks'[id], sinks[id])
                                         /\ (Candidate(id)' <=> Candidate(id))
      BY <1>1, <2>3
    <3>2. \A id \in Ids(Connectors) : sinks'[id].modes = sinks[id].modes
      BY <3>1 DEF SameDisplay
    <3>3. QED
      BY <2>1, <3>1, <3>2 DEF Answered, Reachable
  <2>4. QED
    BY <2>2, <2>3
<1>4. QED
  BY <1>2, <1>3 DEF DiscoveryInv, FinderHasItsFields

\* One uevent more: something is coming if it was, or if that is a hotplug.
LEMMA EventComes ==
  ASSUME DisplaysAreTyped, NEW event \in [type : {"add", "change"}, hotplug : {"1", "none"}],
         uevents' = Append(uevents, event)
  PROVE  uevents' \in Seq([type : {"add", "change"}, hotplug : {"1", "none"}])
         /\ (Coming' <=> Coming \/ IsHotplug(event))
<1> DEFINE T == [type : {"add", "change"}, hotplug : {"1", "none"}]
<1>1. uevents \in Seq(T) /\ event \in T
  BY DEF DisplaysAreTyped
<1> HIDE DEF T
<1>2. /\ uevents' \in Seq(T) /\ Len(uevents') = Len(uevents) + 1 /\ Len(uevents) \in Nat
      /\ \A i \in 1..Len(uevents) : uevents'[i] = uevents[i]
      /\ uevents'[Len(uevents) + 1] = event
  BY <1>1
<1>3. Coming' <=> Coming \/ IsHotplug(event)
  BY <1>2 DEF Coming, IsHotplug
<1>4. QED
  BY <1>2, <1>3 DEF T

\* A CRTC found for a connector is one that an encoder of its can drive.
LEMMA CrtcIsReachable ==
  ASSUME DisplaysAreTyped, NEW id \in Ids(Connectors), NEW encoder, NEW silent,
         CrtcFor(id, encoder, silent) # 0,
         encoder # 0 => encoder \in ToSet(Connector(id).encoders)
  PROVE  \E e \in ToSet(Connector(id).encoders) : CrtcFor(id, encoder, silent) \in Drives[e]
<1> DEFINE encoders == Connector(id).encoders
           can == {e \in ToSet(encoders) \ silent : Drives[e] # {}}
<1>1. encoders \in Seq(DOMAIN Drives) /\ CrtcList \in Seq(Nat \ {0})
      /\ \A e \in DOMAIN Drives : Drives[e] \subseteq ToSet(CrtcList)
  BY PlacesOfIds, DiscoveryAssumption
<1>2. \A e \in ToSet(encoders) : e \in DOMAIN Drives
  BY <1>1 DEF ToSet
<1>3. CASE encoder \notin {0} \cup silent /\ routes[encoder] # 0
  <2>1. CrtcFor(id, encoder, silent) = routes[encoder]
    BY <1>3 DEF CrtcFor
  <2>2. QED
    BY <1>2, <1>3, <2>1 DEF DisplaysAreTyped
<1>4. CASE ~(encoder \notin {0} \cup silent /\ routes[encoder] # 0)
  <2>1. CrtcFor(id, encoder, silent) = FirstDrivable(encoders, silent)
    BY <1>4 DEF CrtcFor
  <2>2. can # {} /\ FirstDrivable(encoders, silent) = FirstIn(CrtcList, Drives[FirstIn(encoders, can)])
    BY <2>1 DEF FirstDrivable
  <2>3. ToSet(encoders) \cap can # {}
    BY <2>2
  <2>4. FirstIn(encoders, can) \in can
    <3> HIDE DEF can, encoders
    <3>1. encoders \in Seq(DOMAIN Drives)
      BY <1>1
    <3>2. QED
      BY <2>3, <3>1, FirstIsOne
  <2> DEFINE e == FirstIn(encoders, can)
  <2>5. e \in ToSet(encoders) /\ Drives[e] # {}
    BY <2>4
  <2> HIDE DEF e
  <2>6. Drives[e] \subseteq ToSet(CrtcList)
    BY <1>1, <1>2, <2>5
  <2>7. ToSet(CrtcList) \cap Drives[e] # {} /\ CrtcList \in Seq(Nat \ {0})
    BY <1>1, <2>5, <2>6
  <2>8. FirstIn(CrtcList, Drives[e]) \in Drives[e]
    BY <2>7, FirstIsOne
  <2>9. QED
    BY <2>1, <2>2, <2>5, <2>8 DEF e
<1>5. QED
  BY <1>3, <1>4

LEMMA PrimaryIsOfTheCrtc ==
  ASSUME NEW crtc, PrimaryFor(crtc) # 0
  PROVE  \E p \in ToSet(PlaneList) :
           p.id = PrimaryFor(crtc) /\ p.type = "primary" /\ crtc \in p.crtcs
<1> DEFINE fits == {p \in ToSet(PlaneList) : p.type = "primary" /\ crtc \in p.crtcs}
           T == [id : Nat \ {0}, type : STRING, crtcs : SUBSET ToSet(CrtcList)]
<1>1. PlaneList \in Seq(T)
  BY DiscoveryAssumption
<1>2. fits # {} /\ PrimaryFor(crtc) = FirstIn(PlaneList, fits).id
  BY DEF PrimaryFor
<1> HIDE DEF T
<1>3. ToSet(PlaneList) \cap fits # {}
  BY <1>2
<1>4. FirstIn(PlaneList, fits) \in fits
  <2> HIDE DEF fits
  <2>1. QED
    BY <1>1, <1>3, FirstIsOne
<1>5. QED
  BY <1>2, <1>4

\* Probing one connector more.
LEMMA ProbeSees ==
  ASSUME DiscoveryInv, NEW answers \in BOOLEAN, ProbeConnector(answers)
  PROVE  DiscoveryInv'
<1> DEFINE T == [id : Ids(Connectors), sink : SinkType]
           seen == finder.seen
           id == Head(finder.left).id
           takes == answers /\ finder.pin \in {0, id} /\ Eligible(sinks[id])
           entry == [id |-> id, sink |-> sinks[id]]
           now == IF takes THEN Append(seen, entry) ELSE seen
           still == IF answers THEN finder.mute ELSE finder.mute \cup {id}
<1>1. /\ finder.at = "connectors" /\ finder.left # <<>>
      /\ UNCHANGED <<sinks, routes, uevents, owed>>
      /\ finder' = [finder EXCEPT !.left = Tail(@), !.mute = still, !.seen = now]
  BY DEF ProbeConnector
<1>2. PICK k \in 0..Len(Connectors) :
        finder.left = SubSeq(Connectors, k + 1, Len(Connectors)) /\ SeenOf(k)
  BY <1>1 DEF DiscoveryInv, Probing
<1>3. /\ k + 1 \in 1..Len(Connectors) /\ Head(finder.left) = Connectors[k + 1]
      /\ Tail(finder.left) = SubSeq(Connectors, k + 2, Len(Connectors))
  <2> DEFINE S == [id : Nat \ {0}, kind : STRING, encoders : Seq(DOMAIN Drives)]
  <2>1. Connectors \in Seq(S) /\ Len(Connectors) \in Nat
    BY DiscoveryAssumption
  <2> HIDE DEF S
  <2>2. k + 1 \in 1..Len(Connectors)
    <3>1. CASE k = Len(Connectors)
      <4>1. Len(Connectors) < k + 1 /\ k + 1 \in Int
        BY <2>1, <3>1
      <4>2. finder.left = <<>>
        BY <1>2, <2>1, <4>1, SubSeqEmpty
      <4>3. QED
        BY <1>1, <4>2
    <3>2. QED
      BY <2>1, <3>1
  <2>3. Len(Connectors) \in k + 1..Len(Connectors) /\ (k + 1) + 1 = k + 2
    BY <2>1, <2>2
  <2>4. QED
    BY <1>2, <2>1, <2>2, <2>3, HeadTailOfSubSeq
<1>4. id \in Ids(Connectors) /\ Place(id) = k + 1 /\ id = Connectors[k + 1].id
  BY <1>3, PlacesOfIds
<1>5. /\ finder'.at = "connectors" /\ finder'.pin = finder.pin /\ finder'.seen = now
      /\ finder'.left = SubSeq(Connectors, k + 2, Len(Connectors)) /\ FinderHasItsFields'
      /\ finder'.mute = still
  <2> HIDE DEF now, still
  <2>1. finder' = [finder EXCEPT !.left = Tail(finder.left), !.mute = still, !.seen = now]
    BY <1>1
  <2>2. FinderHasItsFields
    BY DEF DiscoveryInv
  <2>3. /\ finder'.at = finder.at /\ finder'.pin = finder.pin /\ finder'.seen = now
        /\ finder'.mute = still /\ finder'.left = Tail(finder.left) /\ FinderHasItsFields'
    BY <2>1, <2>2 DEF FinderHasItsFields
  <2>4. QED
    BY <1>1, <1>3, <2>3
<1>6. DisplaysAreTyped' /\ (Coming' <=> Coming)
  BY <1>1 DEF DiscoveryInv, DisplaysAreTyped, Routed, Coming
<1>7. seen \in Seq(T) /\ entry \in T /\ Routed(id, sinks[id])
  BY <1>2, <1>4 DEF SeenOf, DiscoveryInv, DisplaysAreTyped
\* Those who do not answer are of the first, and were not seen.
<1>12. /\ \A i \in 1..Len(seen) : seen[i].id \notin still
       /\ \A other \in Ids(Connectors) : other \in still => Place(other) <= k + 1
       /\ finder.mute \subseteq still /\ (answers => still = finder.mute)
       /\ id \notin finder.mute
  <2> HIDE DEF id
  <2>1. \A i \in 1..Len(seen) : seen[i].id \in Ids(Connectors)
    <3> HIDE DEF T
    <3>1. \A i \in 1..Len(seen) : seen[i] \in T
      BY <1>7, ElementOfSeq
    <3>2. QED
      BY <3>1 DEF T
  <2>2. /\ \A i \in 1..Len(seen) : seen[i].id \notin finder.mute /\ Place(seen[i].id) <= k
        /\ \A other \in Ids(Connectors) : other \in finder.mute => Place(other) <= k
    BY <1>2 DEF SeenOf
  <2>3. k \in Nat /\ ~(k + 1 <= k)
    BY <1>2
  <2>4. id \notin finder.mute /\ \A i \in 1..Len(seen) : seen[i].id # id
    BY <1>4, <2>1, <2>2, <2>3
  <2>5. \A other \in Ids(Connectors) : Place(other) \in Nat
    BY PlacesOfIds
  <2>6. \A other \in Ids(Connectors) : other \in finder.mute => Place(other) <= k + 1
    <3>1. \A place \in Nat : place <= k => place <= k + 1
      BY <2>3
    <3>2. QED
      BY <2>2, <2>5, <3>1
  <2>7. Place(id) <= k + 1
    BY <1>4, <2>3
  <2>8. still = finder.mute \/ still = finder.mute \cup {id}
    OBVIOUS
  <2>9. finder.mute \subseteq still /\ (answers => still = finder.mute)
    OBVIOUS
  <2> HIDE DEF still
  <2>10. QED
    BY <2>2, <2>4, <2>6, <2>7, <2>8, <2>9
<1>8. SeenOf(k + 1)'
  <2>1. CASE ~takes
    <3>1. now = seen
      BY <2>1
    <3>2. ASSUME NEW other \in Ids(Connectors), Candidate(other)', Place(other) <= k + 1, ~Coming'
          PROVE  \E i \in 1..Len(seen) : seen[i].id = other
      <4>1. Candidate(other) /\ other \notin still
        <5> HIDE DEF still
        <5>1. QED
          BY <1>1, <1>5, <1>12, <3>2 DEF Candidate
      <4>2. other # id
        BY <2>1, <4>1 DEF Candidate
      <4>3. Place(other) \in Nat /\ Place(other) # k + 1
        BY <1>4, <4>2, PlacesOfIds
      <4>4. Place(other) <= k
        BY <3>2, <4>3
      <4>5. QED
        BY <1>2, <1>6, <3>2, <4>1, <4>4 DEF SeenOf
    <3>3. \A i \in 1..Len(seen) : Place(seen[i].id) <= k + 1
      <4>1. \A i \in 1..Len(seen) : Place(seen[i].id) <= k /\ seen[i].id \in Ids(Connectors)
        <5> HIDE DEF T
        <5>1. \A i \in 1..Len(seen) : seen[i] \in T
          BY <1>7, ElementOfSeq
        <5>2. QED
          BY <1>2, <5>1 DEF SeenOf, T
      <4>2. QED
        BY <4>1, PlacesOfIds
    <3>4. /\ finder'.seen = seen /\ finder'.pin = finder.pin /\ sinks' = sinks
          /\ finder'.mute = still
      BY <1>1, <1>5, <3>1
    <3>5. /\ seen \in Seq(T)
          /\ \A i \in 1..Len(seen) :
               /\ finder.pin \in {0, seen[i].id}
               /\ Eligible(seen[i].sink) /\ Routed(seen[i].id, seen[i].sink)
          /\ \A i, j \in 1..Len(seen) : i < j => Place(seen[i].id) < Place(seen[j].id)
          /\ ~Coming => \A i \in 1..Len(seen) : SameDisplay(seen[i].sink, sinks[seen[i].id])
      BY <1>2, <1>7 DEF SeenOf
    <3>6. T = [id : Ids(Connectors), sink : SinkType]
      OBVIOUS
    <3> HIDE DEF T, now, takes, entry, seen, still
    <3>7. QED
      BY <1>6, <1>12, <3>2, <3>3, <3>4, <3>5, <3>6 DEF SeenOf
  <2>2. CASE takes
    <3> DEFINE n == Len(seen)
    <3>0. \A i \in 1..n : seen[i].id \in Ids(Connectors)
      <4> HIDE DEF T
      <4>1. \A i \in 1..n : seen[i] \in T
        BY <1>7, ElementOfSeq
      <4>2. QED
        BY <4>1 DEF T
    <3>1. /\ n \in Nat /\ now \in Seq(T) /\ Len(now) = n + 1 /\ now[n + 1] = entry
          /\ \A i \in 1..n : now[i] = seen[i]
      <4>1. now = Append(seen, entry)
        BY <2>2
      <4> HIDE DEF T, now, entry
      <4>2. QED
        BY <1>7, <4>1
    <3>2. entry.id = id /\ entry.sink = sinks[id]
      OBVIOUS
    <3> HIDE DEF now, entry, T
    <3>3. \A i \in 1..n + 1 : i \in 1..n \/ i = n + 1
      BY <3>1
    <3>4. \A i \in 1..n : /\ Place(seen[i].id) <= k /\ finder.pin \in {0, seen[i].id}
                          /\ Eligible(seen[i].sink) /\ Routed(seen[i].id, seen[i].sink)
                          /\ Place(seen[i].id) \in Nat
      <4>1. \A i \in 1..n : Place(seen[i].id) \in Nat
        BY <3>0, PlacesOfIds
      <4>2. \A i \in 1..n : /\ Place(seen[i].id) <= k /\ finder.pin \in {0, seen[i].id}
                            /\ Eligible(seen[i].sink) /\ Routed(seen[i].id, seen[i].sink)
        BY <1>2 DEF SeenOf
      <4>3. QED
        BY <4>1, <4>2
    <3>5. \A i \in 1..n + 1 :
            /\ Place(now[i].id) <= k + 1 /\ finder.pin \in {0, now[i].id}
            /\ Eligible(now[i].sink) /\ Routed(now[i].id, now[i].sink)
      <4>1. \A i \in 1..n :
              /\ Place(now[i].id) <= k + 1 /\ finder.pin \in {0, now[i].id}
              /\ Eligible(now[i].sink) /\ Routed(now[i].id, now[i].sink)
        <5>1. k \in Nat
          BY <1>3
        <5>2. ASSUME NEW place \in Nat, place <= k PROVE place <= k + 1
          BY <5>1, <5>2
        <5>3. ASSUME NEW i \in 1..n
              PROVE  /\ Place(seen[i].id) <= k + 1 /\ finder.pin \in {0, seen[i].id}
                     /\ Eligible(seen[i].sink) /\ Routed(seen[i].id, seen[i].sink)
          BY <3>4, <5>2
        <5>4. QED
          BY <3>1, <5>3
      <4>2. /\ Place(now[n + 1].id) <= k + 1 /\ finder.pin \in {0, now[n + 1].id}
            /\ Eligible(now[n + 1].sink) /\ Routed(now[n + 1].id, now[n + 1].sink)
        BY <1>4, <1>7, <2>2, <3>1, <3>2
      <4>3. QED
        BY <3>3, <4>1, <4>2
    <3>6. ASSUME NEW i \in 1..n + 1, NEW j \in 1..n + 1, i < j
          PROVE  Place(now[i].id) < Place(now[j].id)
      <4>1. i \in 1..n
        BY <3>1, <3>6
      <4>2. CASE j \in 1..n
        BY <1>2, <3>1, <3>6, <4>1, <4>2 DEF SeenOf
      <4>3. CASE j = n + 1
        <5>1. k \in Nat /\ Place(id) = k + 1
          BY <1>3, <1>4
        <5>2. Place(seen[i].id) \in Nat /\ Place(seen[i].id) <= k
          BY <3>4, <4>1
        <5>3. now[i] = seen[i] /\ now[j].id = id
          BY <3>1, <3>2, <4>1, <4>3
        <5>4. QED
          BY <5>1, <5>2, <5>3
      <4>4. QED
        BY <3>3, <4>2, <4>3
    <3>7. ASSUME ~Coming
          PROVE  /\ \A i \in 1..n + 1 : SameDisplay(now[i].sink, sinks[now[i].id])
                 /\ \A other \in Ids(Connectors) :
                      Candidate(other) /\ Place(other) <= k + 1 =>
                        \E i \in 1..n + 1 : now[i].id = other
      <4>1. \A i \in 1..n + 1 : SameDisplay(now[i].sink, sinks[now[i].id])
        BY <1>2, <3>1, <3>2, <3>3, <3>7 DEF SeenOf, SameDisplay
      <4>2. ASSUME NEW other \in Ids(Connectors), Candidate(other), Place(other) <= k + 1
            PROVE  \E i \in 1..n + 1 : now[i].id = other
        <5>1. CASE Place(other) = k + 1
          <6>1. other = id
            BY <1>4, <5>1, PlacesOfIds
          <6>2. QED
            BY <3>1, <3>2, <6>1
        <5>2. CASE Place(other) # k + 1
          <6>1. Place(other) <= k
            BY <4>2, <5>2, PlacesOfIds
          <6>2. PICK i \in 1..n : seen[i].id = other
            BY <1>2, <3>7, <4>2, <6>1 DEF SeenOf
          <6>3. QED
            BY <3>1, <6>2
        <5>3. QED
          BY <5>1, <5>2
      <4>3. QED
        BY <4>1, <4>2
    <3>8. \A other \in Ids(Connectors) : Candidate(other)' <=> Candidate(other)
      BY <1>1, <1>5, <2>2 DEF Candidate
    <3>9. /\ finder'.seen = now /\ finder'.pin = finder.pin /\ sinks' = sinks
          /\ finder'.mute = finder.mute
      BY <1>1, <1>5, <2>2
    <3>10. T = [id : Ids(Connectors), sink : SinkType]
      BY DEF T
    <3>11. SeenOf(k + 1)' <=>
            /\ now \in Seq(T)
            /\ \A i \in 1..Len(now) :
                 /\ Place(now[i].id) <= k + 1 /\ finder.pin \in {0, now[i].id}
                 /\ Eligible(now[i].sink) /\ Routed(now[i].id, now[i].sink)
            /\ \A i, j \in 1..Len(now) : i < j => Place(now[i].id) < Place(now[j].id)
            /\ \A i \in 1..Len(now) : now[i].id \notin finder.mute
            /\ \A other \in Ids(Connectors) : other \in finder.mute => Place(other) <= k + 1
            /\ ~Coming' =>
                 /\ \A i \in 1..Len(now) : SameDisplay(now[i].sink, sinks[now[i].id])
                 /\ \A other \in Ids(Connectors) :
                      Candidate(other)' /\ Place(other) <= k + 1 =>
                        \E i \in 1..Len(now) : now[i].id = other
      BY <3>9, <3>10 DEF SeenOf
    <3>12. /\ now \in Seq(T) /\ Len(now) = n + 1
           /\ ~Coming' => ~Coming
           /\ \A other \in Ids(Connectors) : Candidate(other)' => Candidate(other)
      BY <1>6, <3>1, <3>8
    <3>13. /\ \A i \in 1..n + 1 : now[i].id \notin finder.mute
           /\ \A other \in Ids(Connectors) : other \in finder.mute => Place(other) <= k + 1
      BY <1>12, <2>2, <3>1, <3>2, <3>3
    <3>14. QED
      BY <3>5, <3>6, <3>7, <3>11, <3>12, <3>13
  <2>3. QED
    BY <2>1, <2>2
<1>9. Probing'
  <2>1. k + 1 \in 0..Len(Connectors) /\ (k + 1) + 1 = k + 2
    BY <1>3
  <2>2. finder'.left = SubSeq(Connectors, (k + 1) + 1, Len(Connectors))
    BY <1>5, <2>1
  <2>3. QED
    BY <1>8, <2>1, <2>2 DEF Probing
<1>10. Answered'
  BY <1>5 DEF Answered
<1>11. QED
  BY <1>1, <1>5, <1>6, <1>9, <1>10 DEF DiscoveryInv

\* The answer to what was seen.
LEMMA AnswerIsTrue ==
  ASSUME DiscoveryInv, NEW silent, AnswerDiscovery(silent)
  PROVE  DiscoveryInv'
<1> DEFINE T == [id : Ids(Connectors), sink : SinkType]
           seen == finder.seen
           n == Len(seen)
<1>1. /\ finder.at = "connectors" /\ finder.left = <<>> /\ ~owed
      /\ UNCHANGED <<sinks, routes, uevents, owed>>
  BY DEF AnswerDiscovery, DiscoveryInv
<1>2. PICK k \in 0..Len(Connectors) :
        finder.left = SubSeq(Connectors, k + 1, Len(Connectors)) /\ SeenOf(k)
  BY <1>1 DEF DiscoveryInv, Probing
<1>3. k = Len(Connectors)
  <2> DEFINE S == [id : Nat \ {0}, kind : STRING, encoders : Seq(DOMAIN Drives)]
  <2>1. Connectors \in Seq(S) /\ Len(Connectors) \in Nat
    BY DiscoveryAssumption
  <2> HIDE DEF S
  <2>2. ASSUME k < Len(Connectors) PROVE FALSE
    <3>1. k + 1 \in Int /\ Len(Connectors) \in Int /\ k + 1 <= Len(Connectors)
          /\ \A i \in k + 1..Len(Connectors) : Connectors[i] \in S
      BY <2>1, <2>2, ElementOfSeq
    <3>2. Len(finder.left) = Len(Connectors) - (k + 1) + 1 /\ finder.left \in Seq(S)
      BY <1>2, <3>1, SubSeqProperties
    <3>3. Len(finder.left) # 0
      BY <2>1, <2>2, <3>2
    <3>4. QED
      BY <1>1, <3>3
  <2>3. QED
    BY <2>1, <2>2
<1>4. DisplaysAreTyped' /\ (Coming' <=> Coming)
  BY <1>1 DEF DiscoveryInv, DisplaysAreTyped, Routed, Coming
<1>5. seen \in Seq(T) /\ n \in Nat
  BY <1>2 DEF SeenOf
<1>6. \A i \in 1..n : seen[i].id \in Ids(Connectors) /\ seen[i].sink \in SinkType
  <2> HIDE DEF T
  <2>1. \A i \in 1..n : seen[i] \in T
    BY <1>5, ElementOfSeq
  <2>2. QED
    BY <2>1 DEF T
\* Who could be chosen now was seen.
<1>7. ASSUME ~Coming
      PROVE  /\ \A i \in 1..n : Candidate(seen[i].id)
                                /\ SameDisplay(seen[i].sink, sinks[seen[i].id])
             /\ \A id \in Ids(Connectors) : Candidate(id) => \E i \in 1..n : seen[i].id = id
  <2>1. \A i \in 1..n : SameDisplay(seen[i].sink, sinks[seen[i].id])
                        /\ finder.pin \in {0, seen[i].id} /\ Eligible(seen[i].sink)
                        /\ seen[i].id \notin finder.mute
    BY <1>2, <1>7 DEF SeenOf
  <2>2. \A i \in 1..n : Candidate(seen[i].id)
    BY <2>1 DEF Candidate, Eligible, SameDisplay
  <2>3. \A id \in Ids(Connectors) : Place(id) <= k
    BY <1>3, PlacesOfIds
  <2>4. QED
    BY <1>2, <1>7, <2>1, <2>2, <2>3 DEF SeenOf
<1>8. CASE seen = <<>>
  <2>1. finder' = [Resting EXCEPT !.pin = finder.pin, !.mute = finder.mute,
              !.answer = IF finder.pin = 0 THEN "NothingConnected" ELSE "ConnectorUnavailable"]
    BY <1>8 DEF AnswerDiscovery
  <2>2. /\ finder'.at = "rest" /\ finder'.pin = finder.pin /\ FinderHasItsFields'
        /\ finder'.mute = finder.mute
        /\ finder'.answer \in {"NothingConnected", "ConnectorUnavailable"}
    BY <2>1 DEF Resting, FinderHasItsFields
  <2>3. ~Coming => \A id \in Ids(Connectors) : ~Candidate(id)
    BY <1>5, <1>7, <1>8
  <2>4. \A id \in Ids(Connectors) : Candidate(id)' <=> Candidate(id)
    BY <1>1, <2>2 DEF Candidate
  <2>5. Answered'
    BY <1>4, <2>2, <2>3, <2>4 DEF Answered
  <2>6. QED
    BY <1>4, <2>2, <2>5 DEF DiscoveryInv, Probing
<1>9. CASE seen # <<>>
  <2> DEFINE chosen == Preferred(seen)
             crtc == CrtcFor(chosen.id, chosen.sink.encoder, silent)
             plane == PrimaryFor(crtc)
             answer == IF crtc = 0 THEN "NoCrtc" ELSE IF plane = 0 THEN "NoPrimaryPlane"
                       ELSE "target"
  <2>1. finder' = [Resting EXCEPT !.pin = finder.pin, !.mute = finder.mute,
               !.connector = chosen.id,
               !.mode = SelectPreferredMode(chosen.sink.modes), !.crtc = crtc, !.plane = plane,
               !.answer = answer]
    BY <1>9 DEF AnswerDiscovery
  <2>2. PICK b \in 1..n :
          /\ chosen = seen[b]
          /\ \A j \in 1..n \ {b} :
               \/ RankOf(seen[b].id) < RankOf(seen[j].id)
               \/ /\ RankOf(seen[b].id) = RankOf(seen[j].id)
                  /\ Place(seen[b].id) < Place(seen[j].id)
    <3>1. \A i, j \in 1..n : i < j => Place(seen[i].id) < Place(seen[j].id)
      BY <1>2 DEF SeenOf
    <3>2. QED
      BY <1>5, <1>9, <3>1, BestIsPreferred
  <2>3. /\ chosen.id \in Ids(Connectors) /\ chosen.sink \in SinkType
        /\ Eligible(chosen.sink) /\ Routed(chosen.id, chosen.sink)
    BY <1>2, <1>6, <2>2 DEF SeenOf
  <2> HIDE DEF chosen, crtc, plane, answer
  <2>4. /\ finder'.at = "rest" /\ finder'.pin = finder.pin /\ finder'.connector = chosen.id
        /\ finder'.mode = SelectPreferredMode(chosen.sink.modes)
        /\ finder'.crtc = crtc /\ finder'.plane = plane /\ finder'.answer = answer
        /\ finder'.mute = finder.mute /\ FinderHasItsFields'
    BY <2>1 DEF Resting, FinderHasItsFields
  <2>5. answer \in {"NoCrtc", "NoPrimaryPlane", "target"}
        /\ (answer = "target" => crtc # 0 /\ plane # 0)
    BY DEF answer
  <2>6. \A id \in Ids(Connectors) : Candidate(id)' <=> Candidate(id)
    BY <1>1, <2>4 DEF Candidate
  <2>7. ~Coming => Candidate(chosen.id)
    BY <1>7, <2>2
  <2>8. ASSUME ~Coming
        PROVE  \A other \in Ids(Connectors) \ {chosen.id} : Candidate(other) =>
                 \/ RankOf(chosen.id) < RankOf(other)
                 \/ RankOf(chosen.id) = RankOf(other) /\ Place(chosen.id) < Place(other)
    <3> SUFFICES ASSUME NEW other \in Ids(Connectors) \ {chosen.id}, Candidate(other)
                 PROVE  \/ RankOf(chosen.id) < RankOf(other)
                        \/ RankOf(chosen.id) = RankOf(other) /\ Place(chosen.id) < Place(other)
      OBVIOUS
    <3>1. PICK j \in 1..n : seen[j].id = other
      BY <1>7, <2>8
    <3>2. j # b
      BY <2>2, <3>1
    <3>3. QED
      BY <2>2, <3>1, <3>2
  <2>9. ASSUME ~Coming PROVE SelectPreferredMode(chosen.sink.modes) \in ToSet(sinks[chosen.id].modes)
    <3>1. chosen.sink.modes \in Seq(Modes) /\ chosen.sink.modes # <<>>
      BY <2>3 DEF SinkType, Eligible
    <3>2. sinks[chosen.id].modes = chosen.sink.modes
      BY <1>7, <2>2, <2>9 DEF SameDisplay
    <3>3. QED
      BY <3>1, <3>2, ModeIsOfTheList
  <2>10. crtc # 0 => \E e \in ToSet(Connector(chosen.id).encoders) : crtc \in Drives[e]
    <3>1. DisplaysAreTyped
      BY DEF DiscoveryInv
    <3>2. chosen.sink.encoder # 0 => chosen.sink.encoder \in ToSet(Connector(chosen.id).encoders)
      BY <2>3 DEF Routed
    <3>3. QED
      BY <2>3, <3>1, <3>2, CrtcIsReachable DEF crtc
  <2>11. plane # 0 => \E p \in ToSet(PlaneList) :
                        p.id = plane /\ p.type = "primary" /\ crtc \in p.crtcs
    BY PrimaryIsOfTheCrtc DEF plane
  <2>12. Answered'
    <3>1. finder'.answer = "target" => Reachable'
      BY <2>4, <2>5, <2>10 DEF Reachable
    <3>2. ~Coming' => /\ finder'.connector \notin finder'.mute
                      /\ finder'.pin \in {0, finder'.connector}
                      /\ Eligible(sinks'[finder'.connector])
      BY <1>1, <1>4, <2>4, <2>7 DEF Candidate
    <3>3. ASSUME ~Coming'
          PROVE  \A other \in Ids(Connectors) \ {finder'.connector} : Candidate(other)' =>
                   \/ RankOf(finder'.connector) < RankOf(other)
                   \/ /\ RankOf(finder'.connector) = RankOf(other)
                      /\ Place(finder'.connector) < Place(other)
      BY <1>4, <2>4, <2>6, <2>8, <3>3
    <3>4. ~Coming' => finder'.mode \in ToSet(sinks'[finder'.connector].modes)
      BY <1>1, <1>4, <2>4, <2>9
    <3>5. finder'.answer = "target" =>
            \E p \in ToSet(PlaneList) :
              p.id = finder'.plane /\ p.type = "primary" /\ finder'.crtc \in p.crtcs
      BY <2>4, <2>5, <2>11
    <3>6. finder'.answer \notin {"NothingConnected", "ConnectorUnavailable"}
          /\ finder'.connector \in Ids(Connectors)
      BY <2>3, <2>4, <2>5
    <3>7. ~Coming' => Candidate(finder.connector)'
      BY <3>2 DEF Candidate
    <3>8. QED
      BY <3>1, <3>3, <3>4, <3>5, <3>6, <3>7 DEF Answered
  <2>13. QED
    BY <1>4, <2>4, <2>12 DEF DiscoveryInv, Probing
<1>10. QED
  BY <1>8, <1>9

LEMMA DiscoveryStep == DiscoveryInv /\ [DiscoveryNext]_discoveryVars => DiscoveryInv'
<1> SUFFICES ASSUME DiscoveryInv, [DiscoveryNext]_discoveryVars PROVE DiscoveryInv'
  OBVIOUS
<1> DEFINE Events == [type : {"add", "change"}, hotplug : {"1", "none"}]
<1>1. DisplaysAreTyped /\ (finder.at = "connectors" => ~owed)
      /\ finder.at \in {"rest", "connectors"} /\ FinderHasItsFields
  BY DEF DiscoveryInv
<1>2. /\ sinks \in [Ids(Connectors) -> SinkType]
      /\ \A id \in Ids(Connectors) : Routed(id, sinks[id])
      /\ routes \in [DOMAIN Drives -> Nat]
      /\ \A e \in DOMAIN Drives : routes[e] \in {0} \cup Drives[e]
      /\ uevents \in Seq(Events) /\ owed \in BOOLEAN
  BY <1>1 DEF DisplaysAreTyped
<1>3. ASSUME NEW pin \in Pins, BeginDiscovery(pin) PROVE DiscoveryInv'
  <2>1. /\ finder' = [Resting EXCEPT !.at = "connectors", !.pin = pin, !.left = Connectors]
        /\ owed' = FALSE /\ UNCHANGED <<sinks, routes, uevents>>
    BY <1>3 DEF BeginDiscovery
  <2>2. /\ finder'.at = "connectors" /\ finder'.left = Connectors /\ finder'.seen = <<>>
        /\ finder'.mute = {} /\ FinderHasItsFields'
    BY <2>1 DEF Resting, FinderHasItsFields
  <2>3. DisplaysAreTyped'
    BY <1>1, <2>1 DEF DisplaysAreTyped, Routed
  <2>4. SeenOf(0)'
    <3>1. \A id \in Ids(Connectors) : ~(Place(id) <= 0)
      BY PlacesOfIds
    <3> DEFINE T == [id : Ids(Connectors), sink : SinkType]
    <3>2. <<>> \in Seq(T) /\ Len(<<>>) = 0 /\ 1..Len(<<>>) = {}
      OBVIOUS
    <3>3. QED
      BY <2>2, <3>1, <3>2 DEF SeenOf
  <2>5. Probing'
    <3>1. SubSeq(Connectors, 0 + 1, Len(Connectors)) = Connectors /\ 0 \in 0..Len(Connectors)
      <4>1. SubSeq(Connectors, 1, Len(Connectors)) = Connectors /\ Len(Connectors) \in Nat
        <5> DEFINE S == [id : Nat \ {0}, kind : STRING, encoders : Seq(DOMAIN Drives)]
        <5>1. Connectors \in Seq(S)
          BY DiscoveryAssumption
        <5> HIDE DEF S
        <5>2. QED
          BY <5>1, SubSeqFull
      <4>2. QED
        BY <4>1
    <3>2. QED
      BY <2>2, <2>4, <3>1 DEF Probing
  <2>6. QED
    BY <2>1, <2>2, <2>3, <2>5 DEF DiscoveryInv, Answered
<1>4. ASSUME NEW id \in Ids(Connectors), NEW connected \in BOOLEAN, NEW modes \in ModeLists,
             PlugDisplay(id, connected, modes)
      PROVE  DiscoveryInv'
  <2> DEFINE event == [type |-> "change", hotplug |-> "1"]
  <2>1. /\ sinks' = [sinks EXCEPT ![id].connected = connected, ![id].modes = modes]
        /\ uevents' = Append(uevents, event) /\ UNCHANGED <<routes, owed, finder>>
    BY <1>4 DEF PlugDisplay
  <2>2. event \in Events /\ IsHotplug(event) /\ modes \in Seq(Modes)
    <3>1. event \in Events
      OBVIOUS
    <3>2. IsHotplug(event)
      BY DEF IsHotplug
    <3>3. modes \in Seq(Modes)
      BY DiscoveryAssumption
    <3>4. QED
      BY <3>1, <3>2, <3>3
  <2>3. uevents' \in Seq(Events) /\ Coming'
    BY <1>1, <2>1, <2>2, EventComes
  <2>4. sinks' \in [Ids(Connectors) -> SinkType]
    BY <1>2, <2>1, <2>2 DEF SinkType
  <2>5. \A other \in Ids(Connectors) : sinks'[other].encoder = sinks[other].encoder
    BY <1>2, <2>1 DEF SinkType
  <2>6. DisplaysAreTyped'
    BY <1>2, <2>1, <2>3, <2>4, <2>5 DEF DisplaysAreTyped, Routed
  <2>7. QED
    BY <1>1, <2>1, <2>3, <2>6, DisplaysStay
<1>5. ASSUME NEW id \in Ids(Connectors), NEW encoder \in ToSet(Connector(id).encoders),
             NEW crtc \in ToSet(CrtcList), OtherRoutes(id, encoder, crtc)
      PROVE  DiscoveryInv'
  <2>1. /\ crtc \in Drives[encoder] /\ sinks' = [sinks EXCEPT ![id].encoder = encoder]
        /\ routes' = [e \in DOMAIN Drives |-> IF e = encoder THEN crtc
                                              ELSE IF routes[e] = crtc THEN 0 ELSE routes[e]]
        /\ UNCHANGED <<uevents, owed, finder>>
    BY <1>5 DEF OtherRoutes
  <2>2. encoder \in DOMAIN Drives /\ crtc \in Nat
    <3>1. Connector(id).encoders \in Seq(DOMAIN Drives) /\ CrtcList \in Seq(Nat \ {0})
      BY PlacesOfIds, DiscoveryAssumption
    <3>2. QED
      BY <3>1 DEF ToSet
  <2>3. sinks' \in [Ids(Connectors) -> SinkType]
    BY <1>2, <2>1, <2>2 DEF SinkType
  <2>4. \A other \in Ids(Connectors) :
          /\ sinks'[other].encoder = (IF other = id THEN encoder ELSE sinks[other].encoder)
          /\ SameDisplay(sinks'[other], sinks[other])
    BY <1>2, <2>1 DEF SinkType, SameDisplay
  <2>5. \A other \in Ids(Connectors) : Routed(other, sinks'[other])
    BY <1>2, <2>4 DEF Routed
  <2>6. routes' \in [DOMAIN Drives -> Nat]
        /\ \A e \in DOMAIN Drives : routes'[e] \in {0} \cup Drives[e]
    BY <1>2, <2>1, <2>2
  <2>7. DisplaysAreTyped' /\ (Coming' <=> Coming)
    BY <1>2, <2>1, <2>3, <2>5, <2>6 DEF DisplaysAreTyped, Coming, Routed
  <2>8. QED
    BY <1>1, <2>1, <2>4, <2>7, DisplaysStay
<1>6. ASSUME NEW type \in {"add", "change"}, OtherUevent(type) PROVE DiscoveryInv'
  <2> DEFINE event == [type |-> type, hotplug |-> "none"]
  <2>1. uevents' = Append(uevents, event) /\ UNCHANGED <<sinks, routes, owed, finder>>
    BY <1>6 DEF OtherUevent
  <2>2. event \in Events /\ ~IsHotplug(event)
    <3>1. event.hotplug = "none" /\ "none" # "1"
      OBVIOUS
    <3>2. event \in Events
      OBVIOUS
    <3> HIDE DEF event
    <3>3. QED
      BY <3>1, <3>2 DEF IsHotplug
  <2>3. uevents' \in Seq(Events) /\ (Coming' <=> Coming)
    BY <1>1, <2>1, <2>2, EventComes
  <2>4. DisplaysAreTyped'
    BY <1>2, <2>1, <2>3 DEF DisplaysAreTyped, Routed
  <2>5. \A other \in Ids(Connectors) : SameDisplay(sinks'[other], sinks[other])
    BY <2>1 DEF SameDisplay
  <2>6. QED
    BY <1>1, <2>1, <2>3, <2>4, <2>5, DisplaysStay
<1>7. CASE DispatchHotplug
  <2>1. finder.at = "rest" /\ owed' = (owed \/ Coming) /\ uevents' = <<>>
        /\ UNCHANGED <<sinks, routes, finder>>
    BY <1>7 DEF DispatchHotplug, Coming
  <2>2. DisplaysAreTyped'
    <3>1. uevents' \in Seq(Events) /\ owed' \in BOOLEAN
      BY <1>2, <2>1 DEF Coming
    <3>2. QED
      BY <1>2, <2>1, <3>1 DEF DisplaysAreTyped, Routed
  <2>3. \A other \in Ids(Connectors) : SameDisplay(sinks'[other], sinks[other])
    BY <2>1 DEF SameDisplay
  <2>4. QED
    BY <1>1, <2>1, <2>2, <2>3, DisplaysStay
<1>8. CASE UNCHANGED discoveryVars
  <2>1. UNCHANGED <<sinks, routes, uevents, owed, finder>>
    BY <1>8 DEF discoveryVars
  <2>2. DisplaysAreTyped' /\ (Coming' <=> Coming)
    BY <1>1, <2>1 DEF DisplaysAreTyped, Coming, Routed
  <2>3. \A other \in Ids(Connectors) : SameDisplay(sinks'[other], sinks[other])
    BY <2>1 DEF SameDisplay
  <2>4. QED
    BY <1>1, <2>1, <2>2, <2>3, DisplaysStay
<1>9. QED
  BY <1>3, <1>4, <1>5, <1>6, <1>7, <1>8, ProbeSees, AnswerIsTrue DEF DiscoveryNext

LEMMA TargetIsCurrent == DiscoveryInv => TargetCurrent
<1> SUFFICES ASSUME DiscoveryInv, finder.at = "rest", finder.answer # "none", uevents = <<>>, ~owed
             PROVE  TargetCurrent
  BY DEF TargetCurrent
<1>1. Answered /\ ~Coming
  BY DEF DiscoveryInv, Coming
<1>2. CASE finder.answer \in {"NothingConnected", "ConnectorUnavailable"}
  BY <1>1, <1>2 DEF Answered, TargetCurrent
<1>3. CASE finder.answer = "target"
  BY <1>1, <1>3 DEF Answered, TargetCurrent, Reachable
<1>4. CASE finder.answer \notin {"NothingConnected", "ConnectorUnavailable", "target"}
  BY <1>1, <1>4 DEF Answered, TargetCurrent
<1>5. QED
  BY <1>2, <1>3, <1>4

\* With everything heard and looked at, the answer is about the displays as
\* they are, however they came and went while the connectors were probed: the
\* best that has a display, a mode of its, a CRTC that can drive it and the
\* CRTC's primary plane.
THEOREM TargetsAreCurrent == PartsSpec => []TargetCurrent
<1>1. PartsInit => DiscoveryInv
  BY DiscoveryStart DEF PartsInit
<1>2. DiscoveryInv /\ [PartsNext]_partsVars => DiscoveryInv'
  BY PartsMove, DiscoveryStep
<1>3. DiscoveryInv => TargetCurrent
  BY TargetIsCurrent
<1>4. QED
  BY <1>1, <1>2, <1>3, PTL DEF PartsSpec

-----------------------------------------------------------------------------
(* The capture.                                                            *)

FrameType == [plane : ToSet(CapPlanes), fb : DOMAIN CapFbs, placing : CapPlacings, zpos : Int]

\* An entry of the picture is what its plane shows.
Shows(e) ==
  /\ e.plane \in Visibles
  /\ onPlane[e.plane] = [fb |-> e.fb, crtc |-> Ours, placing |-> e.placing, zpos |-> e.zpos]

\* Of the first k planes those that can be read were, in order and as they are
\* unless somebody committed.
CapturedOf(k) ==
  LET f == reader.frames IN
  /\ f \in Seq(FrameType) /\ (f # <<>> => reader.atomic)
  /\ \A i \in 1..Len(f) : Listed(f[i].plane) <= k
  /\ \A i, j \in 1..Len(f) : i < j => Listed(f[i].plane) < Listed(f[j].plane)
  /\ undisturbed => \A i \in 1..Len(f) : Shows(f[i])
  /\ undisturbed /\ reader.atomic =>
       \A p \in Visibles : Listed(p) <= k => \E i \in 1..Len(f) : f[i].plane = p

Capturing ==
  reader.at \in {"plane", "fb", "map"} =>
    /\ reader.result = "none"
    /\ \E k \in 0..Len(CapPlanes) :
         reader.left = SubSeq(CapPlanes, k + 1, Len(CapPlanes)) /\ CapturedOf(k)

\* The framebuffer asked for is the plane's, unless somebody committed.
AskingFor ==
  reader.at \in {"fb", "map"} =>
    /\ reader.left # <<>> /\ reader.fb \in DOMAIN CapFbs /\ reader.fb # PlaneOff
    /\ undisturbed => onPlane[Head(reader.left)].fb = reader.fb
                      /\ onPlane[Head(reader.left)].crtc = Ours

HandlesClosed ==
  opened = IF reader.at = "map" THEN Dedup(CapFbs[reader.fb].objects) ELSE {}

Captured ==
  undisturbed =>
    /\ reader.result = "image" =>
         LET f == reader.frames IN
         /\ \A i \in 1..Len(f) : Shows(f[i])
         /\ {f[i].plane : i \in 1..Len(f)} = Visibles
         /\ \A i, j \in 1..Len(f) : i < j =>
              \/ f[i].zpos < f[j].zpos
              \/ f[i].zpos = f[j].zpos /\ Listed(f[i].plane) < Listed(f[j].plane)
    /\ reader.result = "NothingReadable" => ~reader.atomic \/ Visibles = {}

ReaderHasItsFields ==
  reader = [at |-> reader.at, left |-> reader.left, fb |-> reader.fb, atomic |-> reader.atomic,
            frames |-> reader.frames, result |-> reader.result]

Placement == [fb : DOMAIN CapFbs \cup {PlaneOff}, crtc : {Ours, "other", "none"},
              placing : CapPlacings, zpos : Int]

CaptureTypes ==
  /\ onPlane \in [ToSet(CapPlanes) -> Placement]
  /\ \A p \in ToSet(CapPlanes) : onPlane[p].fb \notin removed
  /\ ReaderHasItsFields /\ reader.at \in {"idle", "plane", "fb", "map", "done"}
  /\ undisturbed \in BOOLEAN /\ reader.atomic \in BOOLEAN

CaptureInv == CaptureTypes /\ HandlesClosed /\ Capturing /\ AskingFor /\ Captured

\* Planes and their places are of each other.
LEMMA PlacesOfPlanes ==
  /\ Len(CapPlanes) \in Nat
  /\ \A p \in ToSet(CapPlanes) : Listed(p) \in 1..Len(CapPlanes) /\ CapPlanes[Listed(p)] = p
  /\ \A k \in 1..Len(CapPlanes) :
       CapPlanes[k] \in ToSet(CapPlanes) /\ Listed(CapPlanes[k]) = k
<1>1. /\ Len(CapPlanes) \in Nat /\ DOMAIN CapPlanes = 1..Len(CapPlanes)
      /\ \A i, j \in 1..Len(CapPlanes) : CapPlanes[i] = CapPlanes[j] => i = j
  BY CaptureAssumption
<1>2. \A p \in ToSet(CapPlanes) : Listed(p) \in 1..Len(CapPlanes) /\ CapPlanes[Listed(p)] = p
  BY <1>1 DEF ToSet, Listed
<1>3. \A k \in 1..Len(CapPlanes) : CapPlanes[k] \in ToSet(CapPlanes)
  BY <1>1 DEF ToSet
<1>4. QED
  BY <1>1, <1>2, <1>3

\* Sorting keeps every frame once, bottom-up and otherwise as they came.
LEMMA ZposOrders ==
  ASSUME NEW T, NEW f \in Seq(T), \A t \in T : t.zpos \in Int
  PROVE  /\ InZpos(f) \in Seq(T) /\ Len(InZpos(f)) = Len(f)
         /\ \E o \in [1..Len(f) -> 1..Len(f)] :
              /\ \A k \in 1..Len(f) : InZpos(f)[k] = f[o[k]]
              /\ \A i \in 1..Len(f) : \E k \in 1..Len(f) : o[k] = i
              /\ \A k, l \in 1..Len(f) : k < l =>
                   \/ f[o[k]].zpos < f[o[l]].zpos
                   \/ f[o[k]].zpos = f[o[l]].zpos /\ o[k] < o[l]
<1> DEFINE n == Len(f)
           S == 1..n
           R == {pair \in S \X S : \/ f[pair[1]].zpos < f[pair[2]].zpos
                                   \/ f[pair[1]].zpos = f[pair[2]].zpos /\ pair[1] < pair[2]}
           under(i) == {j \in S : f[j].zpos < f[i].zpos \/ (f[j].zpos = f[i].zpos /\ j < i)}
           o == [k \in S |-> CHOOSE i \in S : Cardinality(under(i)) = k - 1]
<1>1. n \in Nat /\ IsFiniteSet(S) /\ Cardinality(S) = n
  <2>1. n \in Nat /\ 1 \in Int /\ S = 1..n
    BY LenProperties
  <2> HIDE DEF n, S
  <2>2. n \in Int /\ n - 1 + 1 = n /\ (1 > n => n = 0)
    BY <2>1
  <2>3. IsFiniteSet(1..n) /\ Cardinality(1..n) = IF 1 > n THEN 0 ELSE n - 1 + 1
    BY <2>1, <2>2, FS_Interval
  <2>4. QED
    BY <2>1, <2>2, <2>3
<1>2. \A i \in S : f[i] \in T /\ f[i].zpos \in Int
  BY ElementOfSeq
<1>3. StrictOrder(S, R)
  <2>1. \A a \in S : <<a, a>> \notin R
    BY <1>1, <1>2
  <2>2. \A a, b \in S : a = b \/ <<a, b>> \in R \/ <<b, a>> \in R
    BY <1>1, <1>2
  <2>3. \A a, b, c \in S : <<a, b>> \in R /\ <<b, c>> \in R => <<a, c>> \in R
    BY <1>1, <1>2
  <2>4. QED
    BY <2>1, <2>2, <2>3 DEF StrictOrder
<1>4. \A i \in S : Before(S, R, i) = under(i)
  BY DEF Before
<1>5. InZpos(f) = [k \in S |-> f[o[k]]]
  <2> DEFINE at(k) == CHOOSE i \in S : Cardinality(under(i)) = k - 1
  <2>1. InZpos(f) = [k \in S |-> f[at(k)]]
    BY DEF InZpos
  <2>2. o = [k \in S |-> at(k)]
    OBVIOUS
  <2> HIDE DEF at, o
  <2>3. QED
    BY <2>1, <2>2
<1> HIDE DEF R, under
<1>6. ASSUME NEW k \in S
      PROVE  /\ o[k] \in S /\ Cardinality(Before(S, R, o[k])) = k - 1
             /\ \A i \in S : Cardinality(Before(S, R, i)) = k - 1 => i = o[k]
  <2>1. PICK a \in S : /\ Cardinality(Before(S, R, a)) = k - 1
                       /\ \A b \in S : Cardinality(Before(S, R, b)) = k - 1 => b = a
    <3>1. k \in 1..Cardinality(S)
      BY <1>1
    <3> HIDE DEF S
    <3>2. QED
      BY <1>1, <1>3, <3>1, RanksAreFilled
  <2>2. o[k] \in S /\ Cardinality(under(o[k])) = k - 1
    BY <1>4, <2>1
  <2> HIDE DEF o
  <2>3. QED
    BY <1>4, <2>1, <2>2
<1> HIDE DEF o
<1>7. o \in [S -> S]
  BY <1>6 DEF o
<1>8. InZpos(f) \in Seq(T) /\ Len(InZpos(f)) = n /\ \A k \in S : InZpos(f)[k] = f[o[k]]
  BY <1>1, <1>2, <1>5, <1>6
<1>9. ASSUME NEW i \in S PROVE \E k \in S : o[k] = i
  <2> DEFINE r == Cardinality(Before(S, R, i))
  <2>1. Before(S, R, i) \in SUBSET (S \ {i})
    BY <1>3 DEF Before, StrictOrder
  <2>2. IsFiniteSet(S \ {i}) /\ Cardinality(S \ {i}) = n - 1
    BY <1>1, FS_RemoveElement
  <2>3. IsFiniteSet(Before(S, R, i)) /\ r <= n - 1
    BY <2>1, <2>2, FS_Subset
  <2>4. r \in Nat
    BY <2>3, FS_CardinalityType
  <2> HIDE DEF r
  <2>5. r + 1 \in S /\ (r + 1) - 1 = r
    BY <1>1, <2>3, <2>4
  <2>6. o[r + 1] = i
    BY <1>6, <2>5 DEF r
  <2>7. QED
    BY <2>5, <2>6
<1>10. ASSUME NEW k \in S, NEW l \in S, k < l PROVE <<o[k], o[l]>> \in R
  <2>1. o[k] # o[l]
    BY <1>6, <1>10
  <2>2. ASSUME <<o[l], o[k]>> \in R PROVE FALSE
    <3>1. Cardinality(Before(S, R, o[l])) < Cardinality(Before(S, R, o[k]))
      BY <1>1, <1>3, <1>6, <2>2, RanksRise
    <3>2. l - 1 < k - 1
      BY <1>6, <3>1
    <3>3. QED
      BY <1>1, <1>10, <3>2
  <2>3. QED
    BY <1>3, <1>6, <2>1, <2>2 DEF StrictOrder
<1>11. ASSUME NEW k \in S, NEW l \in S, k < l
       PROVE  \/ f[o[k]].zpos < f[o[l]].zpos
              \/ f[o[k]].zpos = f[o[l]].zpos /\ o[k] < o[l]
  <2>1. <<o[k], o[l]>> \in R
    BY <1>10, <1>11
  <2>2. PICK pair \in S \X S : /\ pair = <<o[k], o[l]>>
                               /\ \/ f[pair[1]].zpos < f[pair[2]].zpos
                                  \/ f[pair[1]].zpos = f[pair[2]].zpos /\ pair[1] < pair[2]
    BY <2>1 DEF R
  <2>3. QED
    BY <2>2
<1>12. QED
  BY <1>7, <1>8, <1>9, <1>11

LEMMA CaptureStart == CaptureInit => CaptureInv
<1> SUFFICES ASSUME CaptureInit PROVE CaptureInv
  OBVIOUS
<1>1. /\ onPlane = [p \in ToSet(CapPlanes) |->
                     [fb |-> PlaneOff, crtc |-> "none", placing |-> CHOOSE c \in CapPlacings : TRUE,
                      zpos |-> 0]]
      /\ removed = {} /\ opened = {} /\ reader = Idle /\ undisturbed = TRUE
  BY DEF CaptureInit
<1>2. (CHOOSE c \in CapPlacings : TRUE) \in CapPlacings
  BY CaptureAssumption
<1>3. onPlane \in [ToSet(CapPlanes) -> Placement]
  BY <1>1, <1>2 DEF Placement
<1>4. ReaderHasItsFields /\ reader.at = "idle" /\ reader.result = "none" /\ reader.atomic = TRUE
  BY <1>1 DEF ReaderHasItsFields, Idle
<1>5. QED
  BY <1>1, <1>3, <1>4
     DEF CaptureInv, CaptureTypes, HandlesClosed, Capturing, AskingFor, Captured

\* What is read so far stays so while the planes stay as they are.
LEMMA CapturedStays ==
  ASSUME NEW k, CapturedOf(k), UNCHANGED <<onPlane, undisturbed>>,
         reader'.frames = reader.frames, reader'.atomic = reader.atomic
  PROVE  CapturedOf(k)'
<1>1. Visibles' = Visibles
  BY DEF Visibles
<1>2. ASSUME NEW e, Shows(e) PROVE Shows(e)'
  BY <1>1, <1>2 DEF Shows
<1> DEFINE f == reader.frames
<1>3. /\ f \in Seq(FrameType) /\ (f # <<>> => reader.atomic)
      /\ \A i \in 1..Len(f) : Listed(f[i].plane) <= k
      /\ \A i, j \in 1..Len(f) : i < j => Listed(f[i].plane) < Listed(f[j].plane)
      /\ undisturbed => \A i \in 1..Len(f) : Shows(f[i])
      /\ undisturbed /\ reader.atomic =>
           \A p \in Visibles : Listed(p) <= k => \E i \in 1..Len(f) : f[i].plane = p
  BY DEF CapturedOf
<1>4. f' = f /\ undisturbed' = undisturbed /\ reader'.atomic = reader.atomic
  OBVIOUS
<1> HIDE DEF f
<1>5. undisturbed' => \A i \in 1..Len(f) : Shows(f[i])'
  BY <1>2, <1>3, <1>4
<1>6. CapturedOf(k)' <=>
        /\ f \in Seq(FrameType) /\ (f # <<>> => reader.atomic)
        /\ \A i \in 1..Len(f) : Listed(f[i].plane) <= k
        /\ \A i, j \in 1..Len(f) : i < j => Listed(f[i].plane) < Listed(f[j].plane)
        /\ undisturbed => \A i \in 1..Len(f) : Shows(f[i])'
        /\ undisturbed /\ reader.atomic =>
             \A p \in Visibles : Listed(p) <= k => \E i \in 1..Len(f) : f[i].plane = p
  BY <1>1, <1>4 DEF CapturedOf, f
<1>7. QED
  BY <1>3, <1>4, <1>5, <1>6

\* What leaves the reader alone, and the planes unless it disturbs.
LEMMA CaptureStays ==
  ASSUME CaptureInv, CaptureTypes', UNCHANGED <<opened, reader>>,
         ~undisturbed' \/ UNCHANGED <<onPlane, undisturbed>>
  PROVE  CaptureInv'
<1>1. /\ HandlesClosed /\ Capturing /\ AskingFor /\ Captured
  BY DEF CaptureInv
<1>2. HandlesClosed'
  BY <1>1 DEF HandlesClosed
<1>3. CASE UNCHANGED <<onPlane, undisturbed>>
  <2>1. Visibles' = Visibles
    BY <1>3 DEF Visibles
  <2>2. \A k : CapturedOf(k) => CapturedOf(k)'
    BY <1>3, CapturedStays
  <2>3. Capturing'
    BY <1>1, <2>2 DEF Capturing
  <2>4. AskingFor'
    BY <1>1, <1>3 DEF AskingFor
  <2>5. Captured'
    BY <1>1, <1>3, <2>1 DEF Captured, Shows
  <2>6. QED
    BY <1>2, <2>3, <2>4, <2>5 DEF CaptureInv
<1>4. CASE ~undisturbed'
  <2>1. \A k : CapturedOf(k) => CapturedOf(k)'
    BY <1>4 DEF CapturedOf
  <2>2. Capturing'
    BY <1>1, <2>1 DEF Capturing
  <2>3. AskingFor'
    BY <1>1, <1>4 DEF AskingFor
  <2>4. Captured'
    BY <1>4 DEF Captured
  <2>5. QED
    BY <1>2, <2>2, <2>3, <2>4 DEF CaptureInv
<1>5. QED
  BY <1>3, <1>4

\* Which plane is next, and what was captured before it.
LEMMA PlaneIsNext ==
  ASSUME CaptureInv, reader.at \in {"plane", "fb", "map"}, reader.left # <<>>
  PROVE  \E k \in 0..Len(CapPlanes) :
           /\ k + 1 \in 1..Len(CapPlanes) /\ CapturedOf(k)
           /\ Head(reader.left) = CapPlanes[k + 1] /\ Head(reader.left) \in ToSet(CapPlanes)
           /\ Listed(Head(reader.left)) = k + 1
           /\ Tail(reader.left) = SubSeq(CapPlanes, k + 2, Len(CapPlanes))
<1>1. PICK k \in 0..Len(CapPlanes) :
        reader.left = SubSeq(CapPlanes, k + 1, Len(CapPlanes)) /\ CapturedOf(k)
  BY DEF CaptureInv, Capturing
<1>2. CapPlanes \in Seq(Nat) /\ Len(CapPlanes) \in Nat
  BY CaptureAssumption
<1>3. k + 1 \in 1..Len(CapPlanes)
  <2>1. CASE k = Len(CapPlanes)
    <3>1. Len(CapPlanes) < k + 1 /\ k + 1 \in Int
      BY <1>2, <2>1
    <3>2. reader.left = <<>>
      BY <1>1, <1>2, <3>1, SubSeqEmpty
    <3>3. QED
      BY <3>2
  <2>2. QED
    BY <1>2, <2>1
<1>4. Len(CapPlanes) \in k + 1..Len(CapPlanes) /\ (k + 1) + 1 = k + 2
  BY <1>2, <1>3
<1>5. /\ Head(reader.left) = CapPlanes[k + 1]
      /\ Tail(reader.left) = SubSeq(CapPlanes, k + 2, Len(CapPlanes))
  BY <1>1, <1>2, <1>3, <1>4, HeadTailOfSubSeq
<1>6. Head(reader.left) \in ToSet(CapPlanes) /\ Listed(Head(reader.left)) = k + 1
  BY <1>3, <1>5, PlacesOfPlanes
<1>7. QED
  BY <1>1, <1>3, <1>5, <1>6

\* A plane is passed over that cannot be read, or when somebody committed or its
\* query failed.
LEMMA PassesOver ==
  ASSUME CaptureInv, reader.at \in {"plane", "fb", "map"}, reader.left # <<>>,
         undisturbed' => undisturbed,
         undisturbed' /\ reader.atomic => Head(reader.left) \notin Visibles,
         UNCHANGED onPlane,
         reader'.left = Tail(reader.left), reader'.frames = reader.frames,
         reader'.atomic = reader.atomic, reader'.result = reader.result
  PROVE  Capturing'
<1>1. PICK k \in 0..Len(CapPlanes) :
           /\ k + 1 \in 1..Len(CapPlanes) /\ CapturedOf(k)
           /\ Head(reader.left) = CapPlanes[k + 1] /\ Head(reader.left) \in ToSet(CapPlanes)
           /\ Listed(Head(reader.left)) = k + 1
           /\ Tail(reader.left) = SubSeq(CapPlanes, k + 2, Len(CapPlanes))
  BY PlaneIsNext
<1> DEFINE f == reader.frames
<1>2. Visibles' = Visibles /\ Visibles \subseteq ToSet(CapPlanes)
  BY DEF Visibles
<1>3. /\ f \in Seq(FrameType) /\ (f # <<>> => reader.atomic)
      /\ \A i \in 1..Len(f) : Listed(f[i].plane) <= k
      /\ \A i, j \in 1..Len(f) : i < j => Listed(f[i].plane) < Listed(f[j].plane)
      /\ undisturbed => \A i \in 1..Len(f) : Shows(f[i])
      /\ undisturbed /\ reader.atomic =>
           \A p \in Visibles : Listed(p) <= k => \E i \in 1..Len(f) : f[i].plane = p
  BY <1>1 DEF CapturedOf
<1>4. \A i \in 1..Len(f) : Listed(f[i].plane) <= k + 1
  <2>1. \A i \in 1..Len(f) : f[i].plane \in ToSet(CapPlanes)
    <3>1. \A i \in 1..Len(f) : f[i] \in FrameType
      BY <1>3, ElementOfSeq
    <3>2. QED
      BY <3>1 DEF FrameType
  <2>2. QED
    BY <1>3, <2>1, PlacesOfPlanes
<1>5. ASSUME undisturbed', reader.atomic, NEW p \in Visibles, Listed(p) <= k + 1
      PROVE  \E i \in 1..Len(f) : f[i].plane = p
  <2>1. p \in ToSet(CapPlanes) /\ p # Head(reader.left)
    BY <1>2, <1>5
  <2>2. Listed(p) \in Nat /\ Listed(p) # k + 1
    BY <1>1, <2>1, PlacesOfPlanes
  <2>3. QED
    BY <1>3, <1>5, <2>2
<1>6. \A e : Shows(e)' <=> Shows(e)
  BY <1>2 DEF Shows
<1>7. CapturedOf(k + 1)'
  BY <1>2, <1>3, <1>4, <1>5, <1>6 DEF CapturedOf
<1>8. reader.result = "none"
  BY DEF CaptureInv, Capturing
<1>9. reader'.left = SubSeq(CapPlanes, (k + 1) + 1, Len(CapPlanes)) /\ k + 1 \in 0..Len(CapPlanes)
  BY <1>1
<1>10. QED
  BY <1>7, <1>8, <1>9 DEF Capturing

LEMMA CaptureMaps == CaptureInv /\ MapsPlane => CaptureInv'
<1> SUFFICES ASSUME CaptureInv, MapsPlane PROVE CaptureInv'
  OBVIOUS
<1> DEFINE p == Head(reader.left)
           f == reader.frames
           maps == CanMap
           entry == [plane |-> p, fb |-> reader.fb, placing |-> onPlane[p].placing,
                     zpos |-> onPlane[p].zpos]
<1>1. /\ reader.at = "map" /\ UNCHANGED <<onPlane, removed, undisturbed, recommits>>
      /\ opened' = opened \ Dedup(CapFbs[reader.fb].objects)
      /\ reader' = IF maps THEN [SkipsPlane EXCEPT !.frames = Append(@, entry)] ELSE SkipsPlane
  BY DEF MapsPlane, ClosesHandles
<1>2. /\ CaptureTypes /\ opened = Dedup(CapFbs[reader.fb].objects)
      /\ reader.left # <<>> /\ reader.fb \in DOMAIN CapFbs /\ reader.fb # PlaneOff
      /\ undisturbed => onPlane[p].fb = reader.fb /\ onPlane[p].crtc = Ours
      /\ reader.result = "none" /\ ReaderHasItsFields
  BY <1>1 DEF CaptureInv, HandlesClosed, AskingFor, Capturing, CaptureTypes
<1>3. /\ reader'.at = "plane" /\ reader'.left = Tail(reader.left) /\ reader'.atomic = reader.atomic
      /\ reader'.result = "none" /\ ReaderHasItsFields'
      /\ reader'.frames = IF maps THEN Append(f, entry) ELSE f
  <2> HIDE DEF maps, entry
  <2>1. CASE maps
    BY <1>1, <1>2, <2>1 DEF SkipsPlane, ReaderHasItsFields
  <2>2. CASE ~maps
    BY <1>1, <1>2, <2>2 DEF SkipsPlane, ReaderHasItsFields
  <2>3. QED
    BY <2>1, <2>2
<1>4. CaptureTypes' /\ HandlesClosed' /\ AskingFor' /\ Captured'
  <2>1. CaptureTypes'
    BY <1>1, <1>2, <1>3 DEF CaptureTypes
  <2>2. opened' = {}
    BY <1>1, <1>2
  <2>3. QED
    BY <1>3, <2>1, <2>2 DEF HandlesClosed, AskingFor, Captured
<1>5. CASE ~maps
  <2>1. undisturbed /\ reader.atomic => p \notin Visibles
    BY <1>2, <1>5 DEF Visibles, CanMap
  <2>2. Capturing'
    BY <1>1, <1>2, <1>3, <1>5, <2>1, PassesOver
  <2>3. QED
    BY <1>4, <2>2 DEF CaptureInv
<1>6. CASE maps
  <2>1. PICK k \in 0..Len(CapPlanes) :
             /\ k + 1 \in 1..Len(CapPlanes) /\ CapturedOf(k)
             /\ Head(reader.left) = CapPlanes[k + 1] /\ Head(reader.left) \in ToSet(CapPlanes)
             /\ Listed(Head(reader.left)) = k + 1
             /\ Tail(reader.left) = SubSeq(CapPlanes, k + 2, Len(CapPlanes))
    BY <1>1, <1>2, PlaneIsNext
  <2>2. Visibles' = Visibles /\ Visibles \subseteq ToSet(CapPlanes)
    BY <1>1 DEF Visibles
  <2>3. /\ f \in Seq(FrameType)
        /\ \A i \in 1..Len(f) : Listed(f[i].plane) <= k
        /\ \A i, j \in 1..Len(f) : i < j => Listed(f[i].plane) < Listed(f[j].plane)
        /\ undisturbed => \A i \in 1..Len(f) : Shows(f[i])
        /\ undisturbed /\ reader.atomic =>
             \A q \in Visibles : Listed(q) <= k => \E i \in 1..Len(f) : f[i].plane = q
    BY <2>1 DEF CapturedOf
  <2>4. onPlane[p] \in Placement
    BY <1>2, <2>1 DEF CaptureTypes
  <2>5. entry \in FrameType /\ entry.plane = p
    BY <1>2, <2>1, <2>4 DEF FrameType, Placement
  <2>6. undisturbed => Shows(entry)
    <3>1. ASSUME undisturbed PROVE p \in Visibles
      BY <1>2, <1>6, <2>1, <3>1 DEF Visibles, CanMap
    <3>2. ASSUME undisturbed
          PROVE  onPlane[p] = [fb |-> reader.fb, crtc |-> Ours, placing |-> onPlane[p].placing,
                               zpos |-> onPlane[p].zpos]
      BY <1>2, <2>4, <3>2 DEF Placement
    <3>3. QED
      BY <3>1, <3>2 DEF Shows
  <2>7. \A e : Shows(e)' <=> Shows(e)
    BY <1>1, <2>2 DEF Shows
  <2> DEFINE n == Len(f)
             now == Append(f, entry)
  <2> HIDE DEF maps, entry, p
  <2>8. /\ n \in Nat /\ now \in Seq(FrameType) /\ Len(now) = n + 1 /\ now[n + 1] = entry
        /\ \A i \in 1..n : now[i] = f[i]
    <3>1. now = Append(f, entry) /\ f \in Seq(FrameType) /\ entry \in FrameType
      BY <2>3, <2>5
    <3> HIDE DEF f, now
    <3>2. QED
      BY <3>1
  <2>9. reader'.frames = now /\ now # <<>> /\ reader.atomic
    <3>1. reader'.frames = now
      BY <1>3, <1>6
    <3>2. now # <<>>
      <4>1. n \in Nat /\ Len(now) = n + 1
        BY <2>8
      <4> HIDE DEF n, now
      <4>2. QED
        BY <4>1
    <3>3. QED
      BY <1>6, <3>1, <3>2 DEF maps, CanMap
  <2> HIDE DEF now
  <2>10. \A i \in 1..n + 1 : i \in 1..n \/ i = n + 1
    BY <2>8
  <2>11. \A i \in 1..n : Listed(f[i].plane) \in Nat /\ Listed(f[i].plane) <= k
    <3>1. \A i \in 1..n : f[i] \in FrameType
      BY <2>3, ElementOfSeq
    <3>2. \A i \in 1..n : f[i].plane \in ToSet(CapPlanes)
      BY <3>1 DEF FrameType
    <3>3. QED
      BY <2>3, <3>2, PlacesOfPlanes
  <2>12. Listed(p) = k + 1 /\ p \in ToSet(CapPlanes)
    BY <2>1 DEF p
  <2>13. \A i \in 1..n + 1 : Listed(now[i].plane) <= k + 1
    <3>1. ASSUME NEW i \in 1..n PROVE Listed(now[i].plane) <= k + 1
      <4>1. now[i] = f[i] /\ Listed(f[i].plane) \in Nat /\ Listed(f[i].plane) <= k
        BY <2>8, <2>11
      <4>2. \A x \in Nat : x <= k => x <= k + 1
        BY <2>1
      <4>3. QED
        BY <4>1, <4>2
    <3>2. Listed(now[n + 1].plane) = k + 1 /\ k + 1 <= k + 1
      BY <2>1, <2>5, <2>8, <2>12
    <3>3. QED
      BY <2>10, <3>1, <3>2
  <2>14. ASSUME NEW i \in 1..n + 1, NEW j \in 1..n + 1, i < j
         PROVE  Listed(now[i].plane) < Listed(now[j].plane)
    <3>1. i \in 1..n
      BY <2>8, <2>14
    <3>2. CASE j \in 1..n
      BY <2>3, <2>8, <2>14, <3>1, <3>2
    <3>3. CASE j = n + 1
      <4>1. now[i].plane = f[i].plane /\ now[j].plane = p
        BY <2>5, <2>8, <3>1, <3>3
      <4>2. QED
        BY <2>11, <2>12, <3>1, <4>1
    <3>4. QED
      BY <2>10, <3>2, <3>3
  <2>15. ASSUME undisturbed, NEW i \in 1..n + 1 PROVE Shows(now[i])
    BY <2>3, <2>6, <2>8, <2>10, <2>15
  <2>16. ASSUME undisturbed, NEW q \in Visibles, Listed(q) <= k + 1
         PROVE  \E i \in 1..n + 1 : now[i].plane = q
    <3>1. CASE q = p
      BY <2>5, <2>8, <3>1
    <3>2. CASE q # p
      <4>1. Listed(q) \in Nat /\ q \in ToSet(CapPlanes) /\ Listed(q) # k + 1
        BY <2>1, <2>2, <2>12, <3>2, PlacesOfPlanes
      <4>2. Listed(q) <= k
        BY <2>16, <4>1
      <4>3. PICK i \in 1..n : f[i].plane = q
        BY <2>3, <2>9, <2>16, <4>2
      <4>4. i \in 1..n + 1 /\ now[i].plane = q
        BY <2>8, <4>3
      <4>5. QED
        BY <4>4
    <3>3. QED
      BY <3>1, <3>2
  <2>17. CapturedOf(k + 1)'
    <3>1. undisturbed' = undisturbed /\ reader'.atomic = reader.atomic
      BY <1>1, <1>3
    <3>2. undisturbed' => \A i \in 1..n + 1 :
            /\ now[i].plane \in Visibles'
            /\ onPlane'[now[i].plane] = [fb |-> now[i].fb, crtc |-> Ours,
                                        placing |-> now[i].placing, zpos |-> now[i].zpos]
      BY <1>1, <2>2, <2>15, <3>1 DEF Shows
    <3>3. undisturbed' => \A q \in Visibles' : Listed(q) <= k + 1 =>
                            \E i \in 1..n + 1 : now[i].plane = q
      BY <2>2, <2>16, <3>1
    <3> HIDE DEF n
    <3>4. QED
      BY <2>8, <2>9, <2>13, <2>14, <3>1, <3>2, <3>3 DEF CapturedOf, Shows
  <2>18. reader'.left = SubSeq(CapPlanes, (k + 1) + 1, Len(CapPlanes))
         /\ k + 1 \in 0..Len(CapPlanes)
    BY <1>3, <2>1
  <2>19. Capturing'
    BY <1>3, <2>17, <2>18 DEF Capturing
  <2>20. QED
    BY <1>4, <2>19 DEF CaptureInv
<1>7. QED
  BY <1>5, <1>6

\* The picture is of the planes read, bottom-up.
LEMMA CaptureComposes == CaptureInv /\ ComposesPicture => CaptureInv'
<1> SUFFICES ASSUME CaptureInv, ComposesPicture PROVE CaptureInv'
  OBVIOUS
<1> DEFINE f == reader.frames
           sorted == InZpos(f)
<1>1. /\ reader.at = "plane" /\ reader.left = <<>>
      /\ UNCHANGED <<onPlane, removed, opened, undisturbed, recommits>>
      /\ reader' = IF f = <<>> THEN [reader EXCEPT !.at = "done", !.result = "NothingReadable"]
                   ELSE [reader EXCEPT !.at = "done", !.result = "image", !.frames = sorted]
  BY DEF ComposesPicture
<1>2. CaptureTypes /\ opened = {} /\ ReaderHasItsFields
  BY <1>1 DEF CaptureInv, HandlesClosed, CaptureTypes
<1>3. /\ reader'.at = "done" /\ reader'.atomic = reader.atomic /\ ReaderHasItsFields'
      /\ reader'.result = IF f = <<>> THEN "NothingReadable" ELSE "image"
      /\ f # <<>> => reader'.frames = sorted
  <2> HIDE DEF sorted
  <2>1. CASE f = <<>>
    BY <1>1, <1>2, <2>1 DEF ReaderHasItsFields
  <2>2. CASE f # <<>>
    BY <1>1, <1>2, <2>2 DEF ReaderHasItsFields
  <2>3. QED
    BY <2>1, <2>2
<1>4. CaptureTypes' /\ HandlesClosed' /\ AskingFor' /\ Capturing'
  <2>1. CaptureTypes'
    BY <1>1, <1>2, <1>3 DEF CaptureTypes
  <2>2. QED
    BY <1>1, <1>2, <1>3, <2>1 DEF HandlesClosed, AskingFor, Capturing
<1>5. /\ f \in Seq(FrameType) /\ (f # <<>> => reader.atomic)
      /\ \A i, j \in 1..Len(f) : i < j => Listed(f[i].plane) < Listed(f[j].plane)
      /\ undisturbed => \A i \in 1..Len(f) : Shows(f[i])
      /\ undisturbed /\ reader.atomic => \A p \in Visibles : \E i \in 1..Len(f) : f[i].plane = p
  <2>1. PICK k \in 0..Len(CapPlanes) :
          reader.left = SubSeq(CapPlanes, k + 1, Len(CapPlanes)) /\ CapturedOf(k)
    BY <1>1 DEF CaptureInv, Capturing
  <2>2. CapPlanes \in Seq(Nat) /\ Len(CapPlanes) \in Nat
    BY CaptureAssumption
  <2>3. k = Len(CapPlanes)
    <3>1. ASSUME k # Len(CapPlanes) PROVE FALSE
      <4>1. k + 1 \in 1..Len(CapPlanes) /\ Len(CapPlanes) \in k + 1..Len(CapPlanes)
        BY <2>2, <3>1
      <4>2. Len(SubSeq(CapPlanes, k + 1, Len(CapPlanes))) = (Len(CapPlanes) - (k + 1)) + 1
        BY <2>2, <4>1
      <4>3. QED
        BY <1>1, <2>1, <2>2, <4>1, <4>2
    <3>2. QED
      BY <3>1
  <2>4. \A p \in Visibles : Listed(p) <= k
    BY <2>3, PlacesOfPlanes DEF Visibles
  <2>5. QED
    BY <2>1, <2>4 DEF CapturedOf
<1>6. Visibles' = Visibles /\ \A e : Shows(e)' <=> Shows(e)
  BY <1>1 DEF Visibles, Shows
<1>7. CASE f = <<>>
  <2>1. undisturbed /\ reader.atomic => Visibles = {}
    <3>1. Len(f) = 0 /\ 1..Len(f) = {}
      BY <1>7
    <3>2. QED
      BY <1>5, <3>1
  <2>2. Captured'
    BY <1>1, <1>3, <1>6, <1>7, <2>1 DEF Captured
  <2>3. QED
    BY <1>4, <2>2 DEF CaptureInv
<1>8. CASE f # <<>>
  <2> DEFINE n == Len(f)
  <2>1. \A t \in FrameType : t.zpos \in Int
    BY DEF FrameType
  <2> HIDE DEF f, sorted
  <2>2. n \in Nat /\ Len(sorted) = n
    BY <1>5, <2>1, ZposOrders DEF sorted
  <2>3. PICK o \in [1..n -> 1..n] :
              /\ \A k \in 1..n : sorted[k] = f[o[k]]
              /\ \A i \in 1..n : \E k \in 1..n : o[k] = i
              /\ \A k, l \in 1..n : k < l =>
                   \/ f[o[k]].zpos < f[o[l]].zpos
                   \/ f[o[k]].zpos = f[o[l]].zpos /\ o[k] < o[l]
    BY <1>5, <2>1, ZposOrders DEF sorted
  <2>4. undisturbed => \A k \in 1..n : Shows(sorted[k])
    BY <1>5, <2>3
  <2>5. ASSUME undisturbed PROVE {sorted[k].plane : k \in 1..n} = Visibles
    <3>1. \A k \in 1..n : sorted[k].plane \in Visibles
      BY <2>4, <2>5 DEF Shows
    <3>2. ASSUME NEW p \in Visibles PROVE \E k \in 1..n : sorted[k].plane = p
      <4>1. PICK i \in 1..n : f[i].plane = p
        BY <1>5, <1>8, <2>5
      <4>2. PICK k \in 1..n : o[k] = i
        BY <2>3
      <4>3. QED
        BY <2>3, <4>1, <4>2
    <3>3. QED
      BY <3>1, <3>2
  <2>6. ASSUME NEW k \in 1..n, NEW l \in 1..n, k < l
        PROVE  \/ sorted[k].zpos < sorted[l].zpos
               \/ /\ sorted[k].zpos = sorted[l].zpos
                  /\ Listed(sorted[k].plane) < Listed(sorted[l].plane)
    <3>1. o[k] \in 1..n /\ o[l] \in 1..n
      BY <2>3
    <3>2. sorted[k] = f[o[k]] /\ sorted[l] = f[o[l]]
      BY <2>3
    <3>3. o[k] < o[l] => Listed(f[o[k]].plane) < Listed(f[o[l]].plane)
      BY <1>5, <3>1
    <3>4. QED
      BY <2>3, <2>6, <3>2, <3>3
  <2>7. Captured'
    BY <1>1, <1>3, <1>6, <1>8, <2>2, <2>4, <2>5, <2>6 DEF Captured
  <2>8. QED
    BY <1>4, <2>7 DEF CaptureInv
<1>9. QED
  BY <1>7, <1>8

LEMMA CaptureStep == CaptureInv /\ [CaptureNext]_captureVars => CaptureInv'
<1> SUFFICES ASSUME CaptureInv, [CaptureNext]_captureVars PROVE CaptureInv'
  OBVIOUS
<1>1. /\ CaptureTypes /\ HandlesClosed /\ Capturing /\ AskingFor /\ Captured
      /\ ReaderHasItsFields /\ onPlane \in [ToSet(CapPlanes) -> Placement]
      /\ \A p \in ToSet(CapPlanes) : onPlane[p].fb \notin removed
  BY DEF CaptureInv, CaptureTypes
<1>2. ASSUME NEW p \in ToSet(CapPlanes), NEW id \in DOMAIN CapFbs, NEW crtc \in {Ours, "other"},
             NEW placing \in CapPlacings, NEW zpos \in CapZpos,
             CommitPlane(p, id, crtc, placing, zpos)
      PROVE  CaptureInv'
  <2> DEFINE put == [fb |-> id, crtc |-> crtc, placing |-> placing, zpos |-> zpos]
  <2>1. /\ id \notin removed /\ onPlane' = [onPlane EXCEPT ![p] = put] /\ undisturbed' = FALSE
        /\ UNCHANGED <<removed, opened, reader>>
    BY <1>2 DEF CommitPlane
  <2>2. put \in Placement /\ put.fb = id
    BY CaptureAssumption DEF Placement
  <2> HIDE DEF put
  <2>3. /\ onPlane' \in [ToSet(CapPlanes) -> Placement]
        /\ \A q \in ToSet(CapPlanes) : onPlane'[q].fb \notin removed'
    BY <1>1, <2>1, <2>2
  <2>4. CaptureTypes'
    BY <1>1, <2>1, <2>3 DEF CaptureTypes, ReaderHasItsFields
  <2>5. QED
    BY <2>1, <2>4, CaptureStays
<1>3. ASSUME NEW id \in DOMAIN CapFbs, RemoveFb(id) PROVE CaptureInv'
  <2>1. /\ \A p \in ToSet(CapPlanes) : onPlane[p].fb # id
        /\ removed' = removed \cup {id} /\ UNCHANGED <<onPlane, opened, reader, undisturbed>>
    BY <1>3 DEF RemoveFb
  <2>2. CaptureTypes'
    BY <1>1, <2>1 DEF CaptureTypes, ReaderHasItsFields
  <2>3. QED
    BY <2>1, <2>2, CaptureStays
<1>4. ASSUME NEW hasMode \in BOOLEAN, NEW atomic \in BOOLEAN, BeginCapture(hasMode, atomic)
      PROVE  CaptureInv'
  <2>1. /\ reader.at \in {"idle", "done"} /\ undisturbed' = TRUE
        /\ reader' = IF hasMode THEN [Idle EXCEPT !.at = "plane", !.left = CapPlanes, !.atomic = atomic]
                     ELSE [Idle EXCEPT !.at = "done", !.result = "NoMode"]
        /\ UNCHANGED <<onPlane, removed, opened>>
    BY <1>4 DEF BeginCapture
  <2>2. /\ ReaderHasItsFields' /\ reader'.at \in {"plane", "done"} /\ reader'.atomic \in BOOLEAN
        /\ reader'.result \in {"none", "NoMode"} /\ reader'.frames = <<>>
        /\ reader'.at = "plane" => reader'.left = CapPlanes /\ reader'.result = "none"
    <3>1. CASE hasMode
      BY <2>1, <3>1 DEF Idle, ReaderHasItsFields
    <3>2. CASE ~hasMode
      BY <2>1, <3>2 DEF Idle, ReaderHasItsFields
    <3>3. QED
      BY <3>1, <3>2
  <2>3. CaptureTypes'
    BY <1>1, <2>1, <2>2 DEF CaptureTypes
  <2>4. HandlesClosed' /\ AskingFor' /\ Captured'
    BY <1>1, <2>1, <2>2 DEF HandlesClosed, AskingFor, Captured
  <2>5. CapturedOf(0)'
    <3>1. <<>> \in Seq(FrameType) /\ Len(<<>>) = 0 /\ 1..Len(<<>>) = {}
      OBVIOUS
    <3>2. \A p \in Visibles' : ~(Listed(p) <= 0)
      BY PlacesOfPlanes DEF Visibles
    <3>3. QED
      BY <2>2, <3>1, <3>2 DEF CapturedOf
  <2>6. SubSeq(CapPlanes, 0 + 1, Len(CapPlanes)) = CapPlanes /\ 0 \in 0..Len(CapPlanes)
    <3>1. SubSeq(CapPlanes, 1, Len(CapPlanes)) = CapPlanes /\ Len(CapPlanes) \in Nat
      BY CaptureAssumption, SubSeqFull
    <3>2. QED
      BY <3>1
  <2>7. Capturing'
    BY <2>2, <2>5, <2>6 DEF Capturing
  <2>8. QED
    BY <2>3, <2>4, <2>7 DEF CaptureInv
<1>5. ASSUME NEW p \in ToSet(CapPlanes), NEW answers \in BOOLEAN, AsksPlane(p, answers)
      PROVE  CaptureInv'
  <2> DEFINE shows == answers /\ onPlane[p].fb # PlaneOff /\ onPlane[p].crtc = Ours
  <2>1. /\ reader.at = "plane" /\ reader.left # <<>> /\ p = Head(reader.left)
        /\ reader' = IF shows THEN [reader EXCEPT !.at = "fb", !.fb = onPlane[p].fb]
                     ELSE [reader EXCEPT !.left = Tail(reader.left)]
        /\ undisturbed' = (undisturbed /\ answers)
        /\ UNCHANGED <<onPlane, removed, opened>>
    BY <1>5 DEF AsksPlane
  <2>2. CASE shows
    <3>1. /\ ReaderHasItsFields' /\ reader'.at = "fb" /\ reader'.left = reader.left
          /\ reader'.fb = onPlane[p].fb /\ reader'.atomic = reader.atomic
          /\ reader'.frames = reader.frames /\ reader'.result = reader.result
      <4> HIDE DEF shows
      <4>1. QED
        BY <1>1, <2>1, <2>2 DEF ReaderHasItsFields
    <3>a. undisturbed' = undisturbed
      BY <1>1, <2>1, <2>2 DEF CaptureTypes
    <3>2. CaptureTypes' /\ HandlesClosed'
      BY <1>1, <2>1, <3>1, <3>a DEF CaptureTypes, HandlesClosed
    <3>3. AskingFor'
      <4>1. onPlane[p].fb \in DOMAIN CapFbs \cup {PlaneOff}
        BY <1>1 DEF Placement
      <4>2. QED
        BY <2>1, <2>2, <3>1, <4>1 DEF AskingFor
    <3>4. \A k : CapturedOf(k) => CapturedOf(k)'
      BY <2>1, <3>1, <3>a, CapturedStays
    <3>5. Capturing'
      BY <1>1, <2>1, <3>1, <3>4 DEF Capturing
    <3>6. Captured'
      BY <1>1, <2>1, <3>1 DEF Captured, Capturing
    <3>7. QED
      BY <3>2, <3>3, <3>5, <3>6 DEF CaptureInv
  <2>3. CASE ~shows
    <3>1. /\ ReaderHasItsFields' /\ reader'.at = "plane" /\ reader'.left = Tail(reader.left)
          /\ reader'.atomic = reader.atomic
          /\ reader'.frames = reader.frames /\ reader'.result = reader.result
      <4> HIDE DEF shows
      <4>1. QED
        BY <1>1, <2>1, <2>3 DEF ReaderHasItsFields
    <3>2. CaptureTypes' /\ HandlesClosed' /\ AskingFor'
      <4> HIDE DEF shows
      <4>1. CaptureTypes'
        BY <1>1, <1>5, <2>1, <3>1 DEF CaptureTypes
      <4>2. HandlesClosed' /\ AskingFor'
        BY <1>1, <2>1, <3>1 DEF HandlesClosed, AskingFor
      <4>3. QED
        BY <4>1, <4>2
    <3>3. (undisturbed' => undisturbed) /\ (undisturbed' => p \notin Visibles)
      BY <2>1, <2>3 DEF Visibles
    <3>4. Capturing'
      BY <2>1, <3>1, <3>3, PassesOver
    <3>5. Captured'
      BY <1>1, <2>1, <3>1 DEF Captured, Capturing
    <3>6. QED
      BY <3>2, <3>4, <3>5 DEF CaptureInv
  <2>4. QED
    BY <2>2, <2>3
<1>6. CASE AsksFb
  <2> DEFINE takes == reader.fb \notin removed
  <2>1. /\ reader.at = "fb"
        /\ takes => reader' = [reader EXCEPT !.at = "map"]
                    /\ opened' = opened \cup Dedup(CapFbs[reader.fb].objects)
        /\ ~takes => reader' = SkipsPlane /\ opened' = opened
        /\ UNCHANGED <<onPlane, removed, undisturbed>>
    BY <1>6 DEF AsksFb
  <2>2. /\ opened = {} /\ reader.left # <<>> /\ reader.fb \in DOMAIN CapFbs /\ reader.fb # PlaneOff
        /\ undisturbed => onPlane[Head(reader.left)].fb = reader.fb
                          /\ onPlane[Head(reader.left)].crtc = Ours
    BY <1>1, <2>1 DEF HandlesClosed, AskingFor
  <2>3. CASE takes
    <3>1. /\ ReaderHasItsFields' /\ reader'.at = "map" /\ reader'.left = reader.left
          /\ reader'.fb = reader.fb /\ reader'.atomic = reader.atomic
          /\ reader'.frames = reader.frames /\ reader'.result = reader.result
      <4> HIDE DEF takes
      <4>1. QED
        BY <1>1, <2>1, <2>3 DEF ReaderHasItsFields
    <3>2. opened' = Dedup(CapFbs[reader.fb].objects)
      BY <2>1, <2>2, <2>3
    <3>3. CaptureTypes' /\ HandlesClosed' /\ AskingFor'
      BY <1>1, <2>1, <2>2, <2>3, <3>1, <3>2 DEF CaptureTypes, HandlesClosed, AskingFor
    <3>4. \A k : CapturedOf(k) => CapturedOf(k)'
      BY <2>1, <3>1, CapturedStays
    <3>5. Capturing'
      BY <1>1, <2>1, <3>1, <3>4 DEF Capturing
    <3>6. Captured'
      BY <1>1, <2>1, <3>1 DEF Captured, Capturing
    <3>7. QED
      BY <3>3, <3>5, <3>6 DEF CaptureInv
  <2>4. CASE ~takes
    <3>1. /\ ReaderHasItsFields' /\ reader'.at = "plane" /\ reader'.left = Tail(reader.left)
          /\ reader'.atomic = reader.atomic
          /\ reader'.frames = reader.frames /\ reader'.result = reader.result
      <4> HIDE DEF takes
      <4>1. QED
        BY <1>1, <2>1, <2>4 DEF ReaderHasItsFields, SkipsPlane
    <3>2. CaptureTypes' /\ HandlesClosed' /\ AskingFor'
      BY <1>1, <2>1, <2>2, <2>4, <3>1 DEF CaptureTypes, HandlesClosed, AskingFor
    <3>3. undisturbed => Head(reader.left) \notin Visibles
      BY <1>1, <2>2, <2>4 DEF Visibles
    <3>4. Capturing'
      BY <2>1, <2>2, <3>1, <3>3, PassesOver
    <3>5. Captured'
      BY <1>1, <2>1, <3>1 DEF Captured, Capturing
    <3>6. QED
      BY <3>2, <3>4, <3>5 DEF CaptureInv
  <2>5. QED
    BY <2>3, <2>4
<1>7. CASE UNCHANGED captureVars
  <2>1. UNCHANGED <<onPlane, removed, opened, reader, undisturbed>>
    BY <1>7 DEF captureVars
  <2>2. CaptureTypes'
    BY <1>1, <2>1 DEF CaptureTypes, ReaderHasItsFields
  <2>3. QED
    BY <2>1, <2>2, CaptureStays
<1>8. QED
  BY <1>2, <1>3, <1>4, <1>5, <1>6, <1>7, CaptureMaps, CaptureComposes DEF CaptureNext

LEMMA CaptureIsTrue == CaptureInv => CaptureTrue
<1> SUFFICES ASSUME CaptureInv PROVE CaptureTrue
  OBVIOUS
<1>1. HandlesClosed /\ Captured
  BY DEF CaptureInv
<1>2. reader.at # "map" => opened = {}
  BY <1>1 DEF HandlesClosed
<1>3. QED
  BY <1>1, <1>2 DEF Captured, CaptureTrue, Shows

\* A picture is of one commit, its planes in the order they are composed in, each
\* with what it showed then, unless somebody committed while the planes were read
\* or a plane's query failed; snapshot leaves out only what has no framebuffer and
\* what cannot be read.  The handles GETFB2 opened are closed before the next
\* plane is asked for, by whichever of map_plane's exits it left: the format, the
\* layout, no object, the plane's properties, the mapping, or its end.
THEOREM CapturesAreTrue == PartsSpec => []CaptureTrue
<1>1. PartsInit => CaptureInv
  BY CaptureStart DEF PartsInit
<1>2. CaptureInv /\ [PartsNext]_partsVars => CaptureInv'
  BY PartsMove, CaptureStep
<1>3. CaptureInv => CaptureTrue
  BY CaptureIsTrue
<1>4. QED
  BY <1>1, <1>2, <1>3, PTL DEF PartsSpec

-----------------------------------------------------------------------------
(* The scene set.                                                          *)

\* A scene whose free slots are free, each listed once.
SceneRec ==
  {s \in [made : Nat, generations : Seq(Nat), owners : Seq(Nat), free : Seq(Nat)] :
     /\ Len(s.generations) = Len(s.owners)
     /\ \A i \in 1..Len(s.free) : s.free[i] \in 1..Len(s.owners) /\ s.owners[s.free[i]] = 0
     /\ \A i, j \in 1..Len(s.free) : s.free[i] = s.free[j] => i = j
     /\ s.made = 0 => s = Hole}

HandleRec == [slot : Nat, generation : Nat]
CopyRec == [scene : Nat, handle : HandleRec, made : Nat \ {0}]

\* What is in the slots of the two but for one slot is the same.
SameBut(s, t, slot) ==
  \A i \in 1..Len(t.owners) : i # slot =>
    i \in 1..Len(s.owners) /\ t.owners[i] = s.owners[i] /\ t.generations[i] = s.generations[i]

LEMMA SceneIsWell ==
  ASSUME NEW t, t.made \in Nat \ {0}, t.generations \in Seq(Nat), t.owners \in Seq(Nat),
         t.free \in Seq(Nat), Len(t.generations) = Len(t.owners),
         t = [made |-> t.made, generations |-> t.generations, owners |-> t.owners,
              free |-> t.free],
         \A i \in 1..Len(t.free) : t.free[i] \in 1..Len(t.owners) /\ t.owners[t.free[i]] = 0,
         \A i, j \in 1..Len(t.free) : t.free[i] = t.free[j] => i = j
  PROVE  t \in SceneRec /\ t # Hole
<1>1. t \in [made : Nat, generations : Seq(Nat), owners : Seq(Nat), free : Seq(Nat)]
  OBVIOUS
<1>2. t # Hole
  BY DEF Hole
<1>3. QED
  BY <1>1, <1>2 DEF SceneRec

\* A copy more is in a slot of its own.
LEMMA CopyIsAdded ==
  ASSUME NEW s \in SceneRec, s # Hole, NEW g \in Nat \ {0}
  PROVE  LET t == AddCopy(s, g)  h == CopyHandle(s) IN
         /\ t \in SceneRec /\ t.made = s.made /\ t # Hole /\ h \in HandleRec
         /\ h.slot \in 1..Len(t.owners) /\ Resolves(t, h) /\ t.owners[h.slot] = g
         /\ 1..Len(s.owners) \subseteq 1..Len(t.owners) /\ SameBut(s, t, h.slot)
         /\ ~(h.slot \in 1..Len(s.owners) /\ s.owners[h.slot] # 0)
<1> DEFINE t == AddCopy(s, g)
           h == CopyHandle(s)
           n == Len(s.owners)
<1>1. /\ s.made \in Nat \ {0} /\ n \in Nat /\ Len(s.generations) = n
      /\ s.generations \in Seq(Nat) /\ s.owners \in Seq(Nat) /\ s.free \in Seq(Nat)
      /\ \A i \in 1..Len(s.free) : s.free[i] \in 1..n /\ s.owners[s.free[i]] = 0
      /\ \A i, j \in 1..Len(s.free) : s.free[i] = s.free[j] => i = j
      /\ s = [made |-> s.made, generations |-> s.generations, owners |-> s.owners,
              free |-> s.free]
  BY DEF SceneRec
<1>2. CASE s.free # <<>>
  <2> DEFINE slot == Head(s.free)
             m == Len(s.free)
  <2>1. /\ m \in Nat \ {0} /\ slot = s.free[1] /\ Tail(s.free) \in Seq(Nat)
        /\ Len(Tail(s.free)) = m - 1
        /\ \A i \in 1..m - 1 : Tail(s.free)[i] = s.free[i + 1]
    BY <1>1, <1>2, HeadTailProperties
  <2>2. slot \in 1..n /\ s.owners[slot] = 0
    BY <1>1, <2>1
  <2>3. h = [slot |-> slot, generation |-> s.generations[slot]]
    BY <1>2 DEF CopyHandle
  <2>4. t = [s EXCEPT !.free = Tail(@), !.owners[slot] = g]
    BY <1>2 DEF AddCopy
  <2> HIDE DEF t, h, slot
  <2>5. /\ t.made = s.made /\ t.generations = s.generations /\ t.free = Tail(s.free)
        /\ t.owners = [s.owners EXCEPT ![slot] = g]
        /\ t = [made |-> t.made, generations |-> t.generations, owners |-> t.owners,
                free |-> t.free]
    BY <1>1, <2>4
  <2> DEFINE next(i) == i + 1
  <2>a. \A i \in 1..Len(t.free) : /\ next(i) \in 1..m /\ next(i) # 1
                                  /\ t.free[i] = s.free[next(i)]
    BY <2>1, <2>5
  <2>b. \A i, j \in 1..Len(t.free) : next(i) = next(j) => i = j
    BY <2>1, <2>5
  <2> HIDE DEF next
  <2>6. /\ t.owners \in Seq(Nat) /\ Len(t.owners) = n /\ t.owners[slot] = g
        /\ \A i \in 1..n : i # slot => t.owners[i] = s.owners[i]
    BY <1>1, <2>2, <2>5
  <2>7. \A i \in 1..Len(t.free) : t.free[i] \in 1..n /\ t.free[i] # slot /\ t.owners[t.free[i]] = 0
    <3> SUFFICES ASSUME NEW i \in 1..Len(t.free)
                 PROVE  t.free[i] \in 1..n /\ t.free[i] # slot /\ t.owners[t.free[i]] = 0
      OBVIOUS
    <3>1. next(i) \in 1..m /\ next(i) # 1 /\ 1 \in 1..m /\ t.free[i] = s.free[next(i)]
      BY <2>1, <2>a
    <3>2. QED
      BY <1>1, <2>1, <2>6, <3>1
  <2>8. \A i, j \in 1..Len(t.free) : t.free[i] = t.free[j] => i = j
    BY <1>1, <2>a, <2>b
  <2>9. t \in SceneRec /\ t # Hole
    BY <1>1, <2>1, <2>5, <2>6, <2>7, <2>8, SceneIsWell
  <2>10. h \in HandleRec /\ h.slot = slot /\ h.generation = t.generations[slot]
    <3>1. s.generations[slot] \in Nat
      BY <1>1, <2>2, ElementOfSeq
    <3>2. QED
      BY <1>1, <2>2, <2>3, <2>5, <3>1 DEF HandleRec
  <2>11. Resolves(t, h)
    BY <2>2, <2>6, <2>10 DEF Resolves
  <2>12. SameBut(s, t, h.slot)
    BY <2>5, <2>6, <2>10 DEF SameBut
  <2>13. QED
    BY <1>1, <2>2, <2>5, <2>6, <2>9, <2>10, <2>11, <2>12 DEF t, h
<1>3. CASE s.free = <<>>
  <2>1. h = [slot |-> n + 1, generation |-> 1]
    BY <1>3 DEF CopyHandle
  <2>2. t = [s EXCEPT !.owners = Append(s.owners, g), !.generations = Append(s.generations, 1)]
    BY <1>3 DEF AddCopy
  <2> HIDE DEF t, h
  <2>3. /\ t.made = s.made /\ t.free = s.free /\ t.owners = Append(s.owners, g)
        /\ t.generations = Append(s.generations, 1)
        /\ t = [made |-> t.made, generations |-> t.generations, owners |-> t.owners,
                free |-> t.free]
    BY <1>1, <2>2
  <2>4. /\ t.owners \in Seq(Nat) /\ Len(t.owners) = n + 1 /\ t.owners[n + 1] = g
        /\ \A i \in 1..n : t.owners[i] = s.owners[i]
        /\ t.generations \in Seq(Nat) /\ Len(t.generations) = n + 1 /\ t.generations[n + 1] = 1
        /\ \A i \in 1..n : t.generations[i] = s.generations[i]
    BY <1>1, <2>3
  <2>5. Len(t.free) = 0 /\ t.free \in Seq(Nat)
    BY <1>1, <1>3, <2>3
  <2>6. t \in SceneRec /\ t # Hole
    <3>1. 1..Len(t.free) = {}
      BY <2>5
    <3>2. t.made \in Nat \ {0} /\ Len(t.generations) = Len(t.owners)
      BY <1>1, <2>3, <2>4
    <3> HIDE DEF n
    <3>3. QED
      BY <2>3, <2>4, <2>5, <3>1, <3>2, SceneIsWell
  <2>7. h \in HandleRec /\ h.slot = n + 1 /\ h.generation = 1
    BY <1>1, <2>1 DEF HandleRec
  <2>8. Resolves(t, h)
    BY <1>1, <2>4, <2>7 DEF Resolves
  <2>9. SameBut(s, t, h.slot)
    BY <1>1, <2>4, <2>7 DEF SameBut
  <2>10. QED
    BY <1>1, <2>3, <2>4, <2>6, <2>7, <2>8, <2>9 DEF t, h
<1>4. QED
  BY <1>2, <1>3

\* A copy less leaves the other slots as they are.
LEMMA CopyIsRemoved ==
  ASSUME NEW s \in SceneRec, NEW h \in HandleRec
  PROVE  LET t == RemoveCopy(s, h) IN
         /\ t \in SceneRec /\ t.made = s.made /\ (t = Hole <=> s = Hole)
         /\ Len(t.owners) = Len(s.owners)
         /\ Resolves(s, h) => t.owners[h.slot] = 0 /\ SameBut(s, t, h.slot)
<1> DEFINE t == RemoveCopy(s, h)
           n == Len(s.owners)
           slot == h.slot
<1>1. /\ s.made \in Nat /\ n \in Nat /\ Len(s.generations) = n
      /\ s.generations \in Seq(Nat) /\ s.owners \in Seq(Nat) /\ s.free \in Seq(Nat)
      /\ \A i \in 1..Len(s.free) : s.free[i] \in 1..n /\ s.owners[s.free[i]] = 0
      /\ \A i, j \in 1..Len(s.free) : s.free[i] = s.free[j] => i = j
      /\ s = [made |-> s.made, generations |-> s.generations, owners |-> s.owners,
              free |-> s.free]
      /\ s.made = 0 => s = Hole
  BY DEF SceneRec
<1>2. CASE ~Resolves(s, h)
  BY <1>2 DEF RemoveCopy
<1>3. CASE Resolves(s, h)
  <2>1. slot \in 1..n /\ s.owners[slot] # 0
    BY <1>1, <1>3 DEF Resolves
  <2>2. s.made # 0
    BY <1>1, <2>1 DEF Hole
  <2>3. t = [s EXCEPT !.owners[slot] = 0, !.generations[slot] = @ + 1, !.free = <<slot>> \o @]
    BY <1>3 DEF RemoveCopy
  <2> HIDE DEF t, slot
  <2>4. /\ t.made = s.made /\ t.free = <<slot>> \o s.free
        /\ t.owners = [s.owners EXCEPT ![slot] = 0]
        /\ t.generations = [s.generations EXCEPT ![slot] = s.generations[slot] + 1]
        /\ t = [made |-> t.made, generations |-> t.generations, owners |-> t.owners,
                free |-> t.free]
    BY <1>1, <2>3
  <2>5. /\ t.owners \in Seq(Nat) /\ Len(t.owners) = n /\ t.owners[slot] = 0
        /\ \A i \in 1..n : i # slot => t.owners[i] = s.owners[i]
        /\ t.generations \in Seq(Nat) /\ Len(t.generations) = n
        /\ \A i \in 1..n : i # slot => t.generations[i] = s.generations[i]
    BY <1>1, <2>1, <2>4
  <2>6. /\ t.free \in Seq(Nat) /\ Len(t.free) = Len(s.free) + 1 /\ t.free[1] = slot
        /\ \A i \in 1..Len(t.free) : i # 1 => t.free[i] = s.free[i - 1]
    <3>1. <<slot>> \in Seq(Nat) /\ Len(<<slot>>) = 1 /\ <<slot>>[1] = slot
      BY <1>1, <2>1
    <3>2. QED
      BY <1>1, <2>4, <3>1, ConcatProperties
  <2> DEFINE last(i) == i - 1
  <2>7. \A i \in 1..Len(t.free) :
          \/ i = 1 /\ t.free[i] = slot
          \/ last(i) \in 1..Len(s.free) /\ t.free[i] = s.free[last(i)]
    <3>1. Len(s.free) \in Nat /\ Len(t.free) = Len(s.free) + 1
      BY <1>1, <2>6
    <3>2. ASSUME NEW i \in 1..Len(t.free), i # 1
          PROVE  last(i) \in 1..Len(s.free) /\ t.free[i] = s.free[last(i)]
      <4>1. t.free[i] = s.free[i - 1]
        BY <2>6, <3>2
      <4>2. i - 1 \in 1..Len(s.free)
        BY <3>1, <3>2
      <4>3. QED
        BY <4>1, <4>2
    <3>3. QED
      BY <2>6, <3>2
  <2>a. \A i, j \in 1..Len(t.free) : last(i) = last(j) => i = j
    BY <2>6
  <2> HIDE DEF last
  <2>8. \A i \in 1..Len(s.free) : s.free[i] # slot
    <3>1. \A i \in 1..Len(s.free) : s.owners[s.free[i]] = 0
      BY <1>1
    <3>2. QED
      BY <2>1, <3>1
  <2>9. \A i \in 1..Len(t.free) : t.free[i] \in 1..n /\ t.owners[t.free[i]] = 0
    <3>1. \A i \in 1..Len(s.free) : s.free[i] \in 1..n /\ t.owners[s.free[i]] = 0
      <4>1. \A i \in 1..Len(s.free) : s.free[i] \in 1..n /\ s.owners[s.free[i]] = 0
        BY <1>1
      <4>2. QED
        BY <2>5, <2>8, <4>1
    <3>2. slot \in 1..n /\ t.owners[slot] = 0
      BY <2>1, <2>5
    <3> HIDE DEF n
    <3>3. QED
      BY <2>7, <3>1, <3>2
  <2>10. \A i, j \in 1..Len(t.free) : t.free[i] = t.free[j] => i = j
    BY <1>1, <2>7, <2>8, <2>a
  <2>11. t \in SceneRec /\ t # Hole
    <3>1. t.made \in Nat \ {0} /\ Len(t.generations) = Len(t.owners)
      BY <1>1, <2>2, <2>4, <2>5
    <3>2. t.free \in Seq(Nat) /\ t.owners \in Seq(Nat) /\ t.generations \in Seq(Nat)
      BY <2>5, <2>6
    <3>3. \A i \in 1..Len(t.free) : t.free[i] \in 1..Len(t.owners) /\ t.owners[t.free[i]] = 0
      BY <2>5, <2>9
    <3> HIDE DEF n
    <3>4. QED
      BY <2>4, <2>10, <3>1, <3>2, <3>3, SceneIsWell
  <2>12. SameBut(s, t, slot)
    BY <2>5 DEF SameBut
  <2>13. s # Hole
    BY <2>2 DEF Hole
  <2>14. QED
    BY <2>4, <2>5, <2>11, <2>12, <2>13 DEF t, slot
<1>4. QED
  BY <1>2, <1>3

\* An entry <<generation of a set layer, a copy of its>> is in its slot, or its
\* scene is gone.
InItsSlot(scs, e) ==
  \/ scs[e[2].scene] = Hole
  \/ /\ scs[e[2].scene].made = e[2].made
     /\ Resolves(scs[e[2].scene], e[2].handle)
     /\ scs[e[2].scene].owners[e[2].handle.slot] = e[1]

SameSlot(d, e) == d[2].scene = e[2].scene /\ d[2].handle.slot = e[2].handle.slot

\* The entries P and what is in the scenes' slots are of each other.
Stands(scs, P) ==
  /\ \A e \in P : e[2].scene \in DOMAIN scs /\ InItsSlot(scs, e)
  /\ \A d, e \in P : SameSlot(d, e) /\ scs[d[2].scene] # Hole => d = e
  /\ \A x \in DOMAIN scs : \A slot \in 1..Len(scs[x].owners) :
       scs[x].owners[slot] # 0 =>
         \E e \in P : e[2].scene = x /\ e[2].handle.slot = slot /\ e[1] = scs[x].owners[slot]

Entries == (Nat \ {0}) \X CopyRec

\* A copy more in one scene.
LEMMA MirrorStands ==
  ASSUME NEW D, NEW scs \in [D -> SceneRec], NEW P \in SUBSET Entries, Stands(scs, P),
         NEW x \in D, x \in Nat, scs[x] # Hole, NEW g \in Nat \ {0}
  PROVE  LET copy == [scene |-> x, handle |-> CopyHandle(scs[x]), made |-> scs[x].made]
             then == [scs EXCEPT ![x] = AddCopy(@, g)]
         IN /\ copy \in CopyRec /\ <<g, copy>> \notin P /\ then \in [D -> SceneRec]
            /\ \A y \in D : then[y] = Hole <=> scs[y] = Hole
            /\ Stands(then, P \cup {<<g, copy>>})
<1> DEFINE s == scs[x]
           t == AddCopy(s, g)
           h == CopyHandle(s)
           copy == [scene |-> x, handle |-> h, made |-> s.made]
           new == <<g, copy>>
           then == [scs EXCEPT ![x] = AddCopy(@, g)]
           Q == P \cup {new}
<1>1. /\ t \in SceneRec /\ t.made = s.made /\ t # Hole /\ h \in HandleRec
      /\ h.slot \in 1..Len(t.owners) /\ Resolves(t, h) /\ t.owners[h.slot] = g
      /\ 1..Len(s.owners) \subseteq 1..Len(t.owners) /\ SameBut(s, t, h.slot)
      /\ ~(h.slot \in 1..Len(s.owners) /\ s.owners[h.slot] # 0)
  BY CopyIsAdded
<1>2. s.made \in Nat \ {0} /\ DOMAIN s.owners = 1..Len(s.owners) /\ DOMAIN t.owners = 1..Len(t.owners)
  BY <1>1 DEF SceneRec
<1>3. copy \in CopyRec /\ copy.scene = x /\ copy.handle = h /\ copy.made = s.made
      /\ new[1] = g /\ new[2] = copy
  BY <1>1, <1>2 DEF CopyRec
<1>4. /\ DOMAIN scs = D /\ DOMAIN then = D /\ then[x] = t /\ \A y \in D : y # x => then[y] = scs[y]
      /\ then \in [D -> SceneRec] /\ \A y \in D : then[y] = Hole <=> scs[y] = Hole
  BY <1>1
<1>5. \A e \in P : /\ e[1] \in Nat \ {0} /\ e[2] \in CopyRec /\ e = <<e[1], e[2]>>
                   /\ e[2].scene \in D /\ InItsSlot(scs, e)
  BY <1>4 DEF Stands, Entries
<1> HIDE DEF copy, then, new, h, t, s
<1>6. \A e \in P : e[2].scene = x => /\ e[2].made = s.made /\ Resolves(s, e[2].handle)
                                     /\ s.owners[e[2].handle.slot] = e[1]
                                     /\ e[2].handle.slot \in 1..Len(s.owners)
                                     /\ e[2].handle.slot # h.slot
  <2> SUFFICES ASSUME NEW e \in P, e[2].scene = x
               PROVE  /\ e[2].made = s.made /\ Resolves(s, e[2].handle)
                      /\ s.owners[e[2].handle.slot] = e[1]
                      /\ e[2].handle.slot \in 1..Len(s.owners)
                      /\ e[2].handle.slot # h.slot
    OBVIOUS
  <2>1. /\ s.made = e[2].made /\ Resolves(s, e[2].handle)
        /\ s.owners[e[2].handle.slot] = e[1]
    BY <1>5 DEF InItsSlot, s
  <2>2. e[2].handle.slot \in 1..Len(s.owners) /\ s.owners[e[2].handle.slot] # 0
    BY <1>2, <2>1 DEF Resolves
  <2>3. QED
    BY <1>1, <2>1, <2>2
<1>7. new \notin P
  BY <1>3, <1>6
<1>8. ASSUME NEW e \in Q PROVE e[2].scene \in D /\ InItsSlot(then, e)
  <2>1. CASE e = new
    BY <1>1, <1>3, <1>4, <2>1 DEF InItsSlot
  <2>2. CASE e \in P /\ e[2].scene # x
    BY <1>4, <1>5, <2>2 DEF InItsSlot
  <2>3. CASE e \in P /\ e[2].scene = x
    <3>1. /\ e[2].handle.slot \in 1..Len(t.owners)
          /\ t.owners[e[2].handle.slot] = e[1]
      <4>1. /\ e[2].handle.slot \in 1..Len(s.owners) /\ e[2].handle.slot # h.slot
            /\ s.owners[e[2].handle.slot] = e[1]
        BY <1>6, <2>3
      <4>2. QED
        BY <1>1, <4>1 DEF SameBut
    <3>2. Resolves(t, e[2].handle)
      BY <1>1, <1>2, <1>6, <2>3, <3>1 DEF Resolves, SameBut
    <3>3. t.made = e[2].made
      BY <1>1, <1>6, <2>3
    <3>4. QED
      BY <1>4, <1>5, <2>3, <3>1, <3>2, <3>3 DEF InItsSlot
  <2>4. QED
    BY <2>1, <2>2, <2>3
<1>9. ASSUME NEW d \in Q, NEW e \in Q, SameSlot(d, e), then[d[2].scene] # Hole PROVE d = e
  <2>1. CASE d \in P /\ e \in P
    BY <1>4, <1>5, <1>9, <2>1 DEF Stands
  <2>2. CASE d = new /\ e \in P
    BY <1>3, <1>6, <1>9, <2>2 DEF SameSlot
  <2>3. CASE e = new /\ d \in P
    BY <1>3, <1>6, <1>9, <2>3 DEF SameSlot
  <2>4. QED
    BY <2>1, <2>2, <2>3
<1>10. ASSUME NEW y \in D, NEW slot \in 1..Len(then[y].owners), then[y].owners[slot] # 0
       PROVE  \E e \in Q : e[2].scene = y /\ e[2].handle.slot = slot /\ e[1] = then[y].owners[slot]
  <2>1. CASE y # x
    BY <1>4, <1>10, <2>1 DEF Stands
  <2>2. CASE y = x /\ slot = h.slot
    BY <1>1, <1>3, <1>4, <2>2
  <2>3. CASE y = x /\ slot # h.slot
    <3>1. slot \in 1..Len(s.owners) /\ t.owners[slot] = s.owners[slot]
      BY <1>1, <1>4, <1>10, <2>3 DEF SameBut
    <3>2. scs[x] = s
      BY DEF s
    <3>3. \E e \in P : e[2].scene = x /\ e[2].handle.slot = slot /\ e[1] = s.owners[slot]
      BY <1>4, <1>10, <2>3, <3>1, <3>2 DEF Stands
    <3>4. QED
      BY <1>4, <2>3, <3>1, <3>3
  <2>4. QED
    BY <2>1, <2>2, <2>3
<1>11. Stands(then, Q)
  BY <1>4, <1>8, <1>9, <1>10 DEF Stands
<1>12. QED
  BY <1>3, <1>4, <1>7, <1>11 DEF copy, then, new, h, s, t

\* A copy less.
LEMMA UnmirrorStands ==
  ASSUME NEW D, NEW scs \in [D -> SceneRec], NEW P \in SUBSET Entries, Stands(scs, P),
         NEW g, NEW copy, <<g, copy>> \in P
  PROVE  LET then == Unmirror(scs, copy)
         IN /\ then \in [D -> SceneRec]
            /\ Stands(then, P \ {<<g, copy>>})
<1> DEFINE x == copy.scene
           s == scs[x]
           h == copy.handle
           t == RemoveCopy(s, h)
           gone == <<g, copy>>
           then == Unmirror(scs, copy)
           Q == P \ {gone}
<1>1. \A e \in P : /\ e[1] \in Nat \ {0} /\ e[2] \in CopyRec /\ e = <<e[1], e[2]>>
                   /\ e[2].scene \in D /\ InItsSlot(scs, e)
  BY DEF Stands, Entries
<1>2. gone \in P /\ gone[1] = g /\ gone[2] = copy
  OBVIOUS
<1>3. g \in Nat \ {0} /\ copy \in CopyRec /\ x \in D /\ h \in HandleRec
  <2>1. gone[1] \in Nat \ {0} /\ gone[2] \in CopyRec /\ gone[2].scene \in D
    BY <1>1, <1>2
  <2>2. QED
    BY <2>1 DEF CopyRec
<1>4. DOMAIN scs = D /\ \A d, e \in P : SameSlot(d, e) /\ scs[d[2].scene] # Hole => d = e
  BY DEF Stands
<1>5. CASE s = Hole
  <2>1. then = scs
    BY <1>5 DEF Unmirror
  <2> HIDE DEF then, gone
  <2>2. \A e \in Q : e[2].scene \in D /\ InItsSlot(scs, e)
    BY <1>1
  <2>3. \A d, e \in Q : SameSlot(d, e) /\ scs[d[2].scene] # Hole => d = e
    BY <1>4
  <2>4. ASSUME NEW y \in D, NEW slot \in 1..Len(scs[y].owners), scs[y].owners[slot] # 0
        PROVE  \E e \in Q : e[2].scene = y /\ e[2].handle.slot = slot
                            /\ e[1] = scs[y].owners[slot]
    <3>1. y # x
      BY <1>5, <2>4 DEF Hole
    <3>2. PICK e \in P : e[2].scene = y /\ e[2].handle.slot = slot /\ e[1] = scs[y].owners[slot]
      BY <1>4, <2>4 DEF Stands
    <3>3. e # gone
      BY <1>2, <3>1, <3>2
    <3>4. QED
      BY <3>2, <3>3
  <2>5. Stands(scs, Q)
    BY <1>4, <2>2, <2>3, <2>4 DEF Stands
  <2>6. QED
    BY <2>1, <2>5 DEF then, gone
<1>6. CASE s # Hole
  <2>1. then = [scs EXCEPT ![x] = t]
    BY <1>6 DEF Unmirror
  <2>2. /\ t \in SceneRec /\ t.made = s.made /\ t # Hole /\ Len(t.owners) = Len(s.owners)
        /\ Resolves(s, h) => t.owners[h.slot] = 0 /\ SameBut(s, t, h.slot)
    BY <1>3, <1>6, CopyIsRemoved
  <2>3. /\ DOMAIN then = D /\ then[x] = t /\ \A y \in D : y # x => then[y] = scs[y]
        /\ then \in [D -> SceneRec] /\ \A y \in D : then[y] = Hole <=> scs[y] = Hole
    BY <1>3, <1>6, <2>1, <2>2
  <2>4. Resolves(s, h) /\ s.made = copy.made
    BY <1>1, <1>2, <1>6 DEF InItsSlot
  <2>5. DOMAIN s.owners = 1..Len(s.owners) /\ DOMAIN t.owners = 1..Len(t.owners)
    <3>1. s \in SceneRec
      BY <1>3
    <3> HIDE DEF s, t
    <3>2. s.owners \in Seq(Nat) /\ t.owners \in Seq(Nat)
      BY <2>2, <3>1 DEF SceneRec
    <3>3. QED
      BY <3>2
  <2>6. t.owners[h.slot] = 0 /\ \A i \in 1..Len(s.owners) : i # h.slot =>
                                  t.owners[i] = s.owners[i] /\ t.generations[i] = s.generations[i]
    BY <2>2, <2>4 DEF SameBut
  <2> HIDE DEF then, gone, t, s, h, x
  <2>7. \A e \in Q : e[2].scene = x => e[2].handle.slot # h.slot
    <3>1. \A e \in P : e[2].scene = x /\ e[2].handle.slot = h.slot => e = gone
      BY <1>2, <1>4, <1>6 DEF SameSlot, h, s, x
    <3>2. QED
      BY <3>1
  <2>8. ASSUME NEW e \in Q PROVE e[2].scene \in D /\ InItsSlot(then, e)
    <3>1. e \in P /\ e[2].scene \in D
      BY <1>1
    <3>2. CASE e[2].scene # x
      BY <1>1, <2>3, <3>1, <3>2 DEF InItsSlot
    <3>3. CASE e[2].scene = x
      <4>1. /\ s.made = e[2].made /\ Resolves(s, e[2].handle)
            /\ s.owners[e[2].handle.slot] = e[1]
        BY <1>1, <1>6, <3>1, <3>3 DEF InItsSlot, s
      <4>2. e[2].handle.slot \in 1..Len(s.owners) /\ e[2].handle.slot # h.slot
        BY <2>5, <2>7, <3>3, <4>1 DEF Resolves
      <4>3. Resolves(t, e[2].handle) /\ t.owners[e[2].handle.slot] = e[1]
        BY <2>2, <2>5, <2>6, <4>1, <4>2 DEF Resolves
      <4>4. QED
        BY <2>2, <2>3, <3>1, <3>3, <4>1, <4>3 DEF InItsSlot
    <3>4. QED
      BY <3>2, <3>3
  <2>9. \A d, e \in Q : SameSlot(d, e) /\ then[d[2].scene] # Hole => d = e
    BY <1>1, <1>4, <2>3
  <2>10. ASSUME NEW y \in D, NEW slot \in 1..Len(then[y].owners), then[y].owners[slot] # 0
         PROVE  \E e \in Q : e[2].scene = y /\ e[2].handle.slot = slot
                             /\ e[1] = then[y].owners[slot]
    <3>1. /\ slot \in 1..Len(scs[y].owners) /\ then[y].owners[slot] = scs[y].owners[slot]
          /\ ~(y = x /\ slot = h.slot)
      <4>1. CASE y # x
        BY <2>3, <2>10, <4>1
      <4>2. CASE y = x
        <5>1. slot \in 1..Len(s.owners) /\ slot # h.slot
          BY <2>2, <2>3, <2>6, <2>10, <4>2
        <5>2. QED
          BY <2>3, <2>6, <4>2, <5>1 DEF s
      <4>3. QED
        BY <4>1, <4>2
    <3>2. PICK e \in P : e[2].scene = y /\ e[2].handle.slot = slot /\ e[1] = scs[y].owners[slot]
      BY <1>4, <2>10, <3>1 DEF Stands
    <3>3. e # gone
      BY <1>2, <3>1, <3>2 DEF h, x
    <3>4. QED
      BY <3>1, <3>2, <3>3
  <2>11. Stands(then, Q)
    BY <2>3, <2>8, <2>9, <2>10 DEF Stands
  <2>12. QED
    BY <2>3, <2>11 DEF then, gone
<1>7. QED
  BY <1>5, <1>6

\* The entries of a layer of generation g.
Of(g, copies) == {<<g, copies[k]>> : k \in 1..Len(copies)}

NoneTwice(copies) == \A k, m \in 1..Len(copies) : copies[k] = copies[m] => k = m

\* A copy in each target.
LEMMA MirroredStands ==
  ASSUME NEW D, D \in SUBSET Nat, scenes \in [D -> SceneRec], NEW P \in SUBSET Entries,
         Stands(scenes, P), nextGeneration \in Nat \ {0},
         NEW targets, targets \in Seq(D), \A i \in 1..Len(targets) : scenes[targets[i]] # Hole
  PROVE  LET s == Mirrored(targets)
         IN /\ s.scenes \in [D -> SceneRec] /\ s.copies \in Seq(CopyRec) /\ NoneTwice(s.copies)
            /\ Stands(s.scenes, P \cup Of(nextGeneration, s.copies))
<1> DEFINE n == Len(targets)
           g == nextGeneration
           base == [scenes |-> scenes, copies |-> <<>>]
           V == {v \in [scenes : [D -> SceneRec], copies : Seq(CopyRec)] :
                   /\ \A y \in D : v.scenes[y] = Hole <=> scenes[y] = Hole
                   /\ NoneTwice(v.copies)
                   /\ Stands(v.scenes, P \cup Of(g, v.copies))}
           step == [k \in 1..n |-> [v \in V |-> Mirror(v, targets[k])]]
           Is(f) == f = [k \in 0..n |-> IF k = 0 THEN base ELSE Mirror(f[k - 1], targets[k])]
           s == CHOOSE f : Is(f)
<1>1. n \in Nat /\ \A k \in 1..n : targets[k] \in D /\ targets[k] \in Nat
  <2>1. n \in Nat
    BY LenProperties
  <2>2. \A k \in 1..n : targets[k] \in D
    BY ElementOfSeq
  <2>3. QED
    BY <2>1, <2>2
<1>2. Mirrored(targets) = s[n]
  BY DEF Mirrored
<1>3. base \in V
  <2>1. /\ base.scenes = scenes /\ base.copies = <<>> /\ <<>> \in Seq(CopyRec)
        /\ Len(<<>>) = 0 /\ 1..Len(<<>>) = {}
    OBVIOUS
  <2>2. NoneTwice(<<>>) /\ P \cup Of(g, <<>>) = P
    BY <2>1 DEF NoneTwice, Of
  <2>3. base \in [scenes : [D -> SceneRec], copies : Seq(CopyRec)]
    BY <2>1
  <2> HIDE DEF base
  <2>4. QED
    BY <2>1, <2>2, <2>3
<1>4. ASSUME NEW k \in 1..n, NEW v \in V PROVE Mirror(v, targets[k]) \in V
  <2> DEFINE x == targets[k]
             scs == v.scenes
             copy == [scene |-> x, handle |-> CopyHandle(scs[x]), made |-> scs[x].made]
             then == [scs EXCEPT ![x] = AddCopy(@, g)]
             copies == Append(v.copies, copy)
             w == Mirror(v, x)
             PV == P \cup Of(g, v.copies)
  <2>1. /\ v.scenes \in [D -> SceneRec] /\ v.copies \in Seq(CopyRec) /\ NoneTwice(v.copies)
        /\ Stands(v.scenes, PV) /\ \A y \in D : v.scenes[y] = Hole <=> scenes[y] = Hole
    OBVIOUS
  <2>2. w = [scenes |-> then, copies |-> copies]
    BY DEF Mirror
  <2>3. PV \in SUBSET Entries
    <3>1. \A m \in 1..Len(v.copies) : v.copies[m] \in CopyRec
      BY <2>1, ElementOfSeq
    <3>2. Of(g, v.copies) \in SUBSET Entries
      BY <3>1 DEF Of, Entries
    <3>3. QED
      BY <3>2
  <2>4. x \in D /\ x \in Nat /\ v.scenes[x] # Hole
    BY <1>1, <2>1
  <2> HIDE DEF PV, V, w, step, Is, s, base
  <2>5. /\ copy \in CopyRec /\ <<g, copy>> \notin PV /\ then \in [D -> SceneRec]
        /\ \A y \in D : then[y] = Hole <=> v.scenes[y] = Hole
        /\ Stands(then, PV \cup {<<g, copy>>})
    <3>1. /\ scs \in [D -> SceneRec] /\ Stands(scs, PV) /\ x \in D /\ x \in Nat
          /\ scs[x] # Hole /\ g \in Nat \ {0}
      BY <2>1, <2>4
    <3>2. scs = v.scenes
      OBVIOUS
    <3> HIDE DEF scs, x, g
    <3>3. /\ copy \in CopyRec /\ <<g, copy>> \notin PV /\ then \in [D -> SceneRec]
          /\ \A y \in D : then[y] = Hole <=> scs[y] = Hole
          /\ Stands(then, PV \cup {<<g, copy>>})
      BY <2>3, <3>1, MirrorStands, ZenonT(40)
    <3>4. QED
      BY <3>2, <3>3
  <2> HIDE DEF copy, then, x
  <2>6. /\ copies \in Seq(CopyRec) /\ Len(v.copies) \in Nat /\ Len(copies) = Len(v.copies) + 1
        /\ copies[Len(v.copies) + 1] = copy
        /\ \A m \in 1..Len(v.copies) : copies[m] = v.copies[m]
    <3>1. v.copies \in Seq(CopyRec) /\ copy \in CopyRec /\ copies = Append(v.copies, copy)
      BY <2>1, <2>5
    <3> HIDE DEF copies
    <3>2. QED
      BY <3>1
  <2> HIDE DEF copies
  <2>7. \A m \in 1..Len(copies) : m \in 1..Len(v.copies) \/ m = Len(v.copies) + 1
    BY <2>6
  <2>8. PV \cup {<<g, copy>>} = P \cup Of(g, copies)
    <3>1. Of(g, copies) = Of(g, v.copies) \cup {<<g, copy>>}
      <4>1. Of(g, copies) \subseteq Of(g, v.copies) \cup {<<g, copy>>}
        <5>1. ASSUME NEW m \in 1..Len(copies)
              PROVE  <<g, copies[m]>> \in Of(g, v.copies) \cup {<<g, copy>>}
          <6>1. CASE m \in 1..Len(v.copies)
            <7>1. copies[m] = v.copies[m]
              BY <2>6, <6>1
            <7>2. <<g, v.copies[m]>> \in Of(g, v.copies)
              BY <6>1 DEF Of
            <7>3. QED
              BY <7>1, <7>2
          <6>2. CASE m = Len(v.copies) + 1
            BY <2>6, <6>2
          <6>3. QED
            BY <2>7, <6>1, <6>2
        <5>2. QED
          BY <5>1 DEF Of
      <4>2. Of(g, v.copies) \subseteq Of(g, copies)
        <5>1. ASSUME NEW m \in 1..Len(v.copies)
              PROVE  <<g, v.copies[m]>> \in Of(g, copies)
          <6>1. m \in 1..Len(copies) /\ copies[m] = v.copies[m]
            BY <2>6
          <6>2. <<g, copies[m]>> \in Of(g, copies)
            BY <6>1 DEF Of
          <6>3. QED
            BY <6>1, <6>2
        <5>2. QED
          BY <5>1 DEF Of
      <4>3. <<g, copy>> \in Of(g, copies)
        <5>1. Len(v.copies) + 1 \in 1..Len(copies)
          BY <2>6
        <5>2. QED
          BY <2>6, <5>1 DEF Of
      <4>4. QED
        BY <4>1, <4>2, <4>3
    <3>2. QED
      BY <3>1 DEF PV
  <2>9. NoneTwice(copies)
    <3>1. \A m \in 1..Len(v.copies) : v.copies[m] # copy
      BY <2>5 DEF PV, Of
    <3>2. QED
      BY <2>1, <2>6, <2>7, <3>1 DEF NoneTwice
  <2>10. w \in [scenes : [D -> SceneRec], copies : Seq(CopyRec)]
         /\ w.scenes = then /\ w.copies = copies
    BY <2>2, <2>5, <2>6
  <2>11. w \in V
    BY <2>1, <2>5, <2>8, <2>9, <2>10 DEF V
  <2>12. QED
    BY <2>11 DEF w, x
<1> HIDE DEF V, base
<1>5. Steps(n, V, base, step)
  <2>1. step \in [1..n -> [V -> V]]
    BY <1>4
  <2> HIDE DEF step
  <2>2. QED
    BY <1>1, <1>3, <2>1 DEF Steps
<1>6. PICK f : Iterates(n, V, base, step, f)
  <2> HIDE DEF step, n
  <2>1. QED
    BY <1>5, IteratesExist
<1>7. Is(f)
  <2>1. f \in [0..n -> V] /\ f[0] = base
    BY <1>6 DEF Iterates
  <2>2. \A k \in 1..n : f[k] = Mirror(f[k - 1], targets[k])
    <3>1. \A k \in 1..n : f[k - 1] \in V /\ f[k] = step[k][f[k - 1]]
      <4> HIDE DEF step, n
      <4>0. n \in Nat
        BY <1>1
      <4>1. QED
        BY <1>6, <4>0, IteratesStep
    <3>2. QED
      BY <3>1
  <2> HIDE DEF step
  <2>3. \A k \in 0..n : f[k] = IF k = 0 THEN base ELSE Mirror(f[k - 1], targets[k])
    BY <1>1, <2>1, <2>2
  <2>4. QED
    BY <2>1, <2>3
<1>8. Is(s)
  BY <1>7
<1> HIDE DEF s, step
<1> DEFINE T == {k \in 0..n : s[k] \in V}
<1>9. 0 \in T
  <2>1. s[0] = base
    BY <1>1, <1>8
  <2>2. QED
    BY <1>1, <1>3, <2>1
<1>10. ASSUME NEW k \in 1..n, k - 1 \in T PROVE k \in T
  <2>1. s[k] = Mirror(s[k - 1], targets[k])
    BY <1>1, <1>8
  <2>2. QED
    BY <1>1, <1>4, <1>10, <2>1
<1>11. s[n] \in V
  <2>1. 0..n \subseteq T
    <3> HIDE DEF T
    <3>1. QED
      BY <1>1, <1>9, <1>10, Reaches
  <2>2. QED
    BY <1>1, <2>1
<1>12. QED
  BY <1>2, <1>11 DEF V

\* A layer's copies taken out.
LEMMA UnmirroredStands ==
  ASSUME NEW D, scenes \in [D -> SceneRec], NEW P \in SUBSET Entries, Stands(scenes, P),
         NEW g, NEW copies \in Seq(CopyRec), NoneTwice(copies), Of(g, copies) \subseteq P
  PROVE  /\ Unmirrored(copies) \in [D -> SceneRec]
         /\ Stands(Unmirrored(copies), P \ Of(g, copies))
<1> DEFINE n == Len(copies)
           V == [D -> SceneRec]
           step == [k \in 1..n |-> [v \in V |-> Unmirror(v, copies[k])]]
           Is(f) == f = [k \in 0..n |-> IF k = 0 THEN scenes ELSE Unmirror(f[k - 1], copies[k])]
           all == CHOOSE f : Is(f)
           Upto(k) == {<<g, copies[m]>> : m \in 1..k}
<1>1. n \in Nat /\ \A k \in 1..n : copies[k] \in CopyRec /\ <<g, copies[k]>> \in P
  <2>1. n \in Nat
    BY LenProperties
  <2>2. \A k \in 1..n : copies[k] \in CopyRec
    BY ElementOfSeq
  <2>3. \A k \in 1..n : <<g, copies[k]>> \in P
    BY DEF Of
  <2>4. QED
    BY <2>1, <2>2, <2>3
<1>2. Unmirrored(copies) = all[n]
  BY DEF Unmirrored
<1>3. ASSUME NEW k \in 1..n, NEW v \in V PROVE Unmirror(v, copies[k]) \in V
  <2>1. copies[k].scene \in D
    <3>1. <<g, copies[k]>>[2] = copies[k]
      OBVIOUS
    <3>2. DOMAIN scenes = D
      OBVIOUS
    <3>3. QED
      BY <1>1, <3>1, <3>2 DEF Stands
  <2>2. copies[k].handle \in HandleRec
    BY <1>1 DEF CopyRec
  <2>3. RemoveCopy(v[copies[k].scene], copies[k].handle) \in SceneRec
    BY <2>1, <2>2, CopyIsRemoved
  <2>4. QED
    BY <2>1, <2>3 DEF Unmirror
<1>4. Steps(n, V, scenes, step)
  <2>1. step \in [1..n -> [V -> V]]
    <3> HIDE DEF V
    <3>1. QED
      BY <1>3
  <2> HIDE DEF step
  <2>2. QED
    BY <1>1, <2>1 DEF Steps
<1>5. PICK f : Iterates(n, V, scenes, step, f)
  <2> HIDE DEF step, n, V
  <2>1. QED
    BY <1>4, IteratesExist
<1>6. Is(f)
  <2> HIDE DEF V
  <2>1. f \in [0..n -> V] /\ f[0] = scenes
    BY <1>5 DEF Iterates
  <2>2. \A k \in 1..n : f[k] = Unmirror(f[k - 1], copies[k])
    <3>1. \A k \in 1..n : f[k - 1] \in V /\ f[k] = step[k][f[k - 1]]
      <4> HIDE DEF step, n
      <4>1. QED
        BY <1>1, <1>5, IteratesStep
    <3>2. QED
      BY <3>1
  <2> HIDE DEF step
  <2>3. \A k \in 0..n : f[k] = IF k = 0 THEN scenes ELSE Unmirror(f[k - 1], copies[k])
    BY <1>1, <2>1, <2>2
  <2>4. QED
    BY <2>1, <2>3
<1>7. Is(all)
  BY <1>6
<1> HIDE DEF all, step
<1> DEFINE T == {k \in 0..n : all[k] \in V /\ Stands(all[k], P \ Upto(k))}
<1>8. 0 \in T
  <2>1. all[0] = scenes /\ 0 \in 0..n
    BY <1>1, <1>7
  <2>2. P \ Upto(0) = P
    OBVIOUS
  <2>3. QED
    BY <2>1, <2>2
<1>9. ASSUME NEW k \in 1..n, k - 1 \in T PROVE k \in T
  <2>1. all[k] = Unmirror(all[k - 1], copies[k])
    BY <1>1, <1>7
  <2>2. all[k - 1] \in V /\ Stands(all[k - 1], P \ Upto(k - 1)) /\ k - 1 \in Nat
    BY <1>1, <1>9
  <2>3. <<g, copies[k]>> \in P \ Upto(k - 1)
    <3>1. \A m \in 1..k - 1 : copies[m] # copies[k]
      BY <1>1 DEF NoneTwice
    <3>2. QED
      BY <1>1, <3>1
  <2>4. (P \ Upto(k - 1)) \ {<<g, copies[k]>>} = P \ Upto(k)
    <3>1. \A m : m \in 1..k <=> (m \in 1..k - 1 \/ m = k)
      BY <1>1
    <3>2. Upto(k) = Upto(k - 1) \cup {<<g, copies[k]>>}
      BY <3>1
    <3> HIDE DEF Upto
    <3>3. QED
      BY <3>2
  <2> HIDE DEF Upto
  <2>5. Unmirror(all[k - 1], copies[k]) \in V
        /\ Stands(Unmirror(all[k - 1], copies[k]), (P \ Upto(k - 1)) \ {<<g, copies[k]>>})
    BY <2>2, <2>3, UnmirrorStands
  <2>6. all[k] \in V /\ Stands(all[k], P \ Upto(k))
    BY <2>1, <2>4, <2>5
  <2>7. k \in 0..n
    BY <1>1
  <2>8. QED
    BY <2>6, <2>7
<1>10. 0..n \subseteq T
  <2> HIDE DEF T
  <2>1. QED
    BY <1>1, <1>8, <1>9, Reaches
<1>11. Upto(n) = Of(g, copies)
  BY DEF Of
<1> HIDE DEF Upto
<1>12. n \in T
  <2>1. n \in 0..n
    BY <1>1
  <2> HIDE DEF T, n
  <2>2. QED
    BY <1>10, <2>1
<1>13. QED
  BY <1>2, <1>11, <1>12


\* What the layers say they have in the scenes.
Placed == UNION {Of(setLayers[i].generation, setLayers[i].copies) : i \in 1..Len(setLayers)}

SceneSetTypes ==
  /\ scenes \in Seq(SceneRec) /\ made \in Nat
  /\ setLayers \in Seq([generation : Nat, copies : Seq(CopyRec)])
  /\ nextGeneration \in Nat \ {0}

\* A layer has a generation of its own, and a free slot nothing.
LayersApart ==
  /\ \A i \in 1..Len(setLayers) :
       /\ setLayers[i].generation < nextGeneration /\ NoneTwice(setLayers[i].copies)
       /\ setLayers[i].generation = 0 => setLayers[i].copies = <<>>
  /\ \A i, j \in 1..Len(setLayers) :
       setLayers[i].generation = setLayers[j].generation /\ setLayers[i].generation # 0 => i = j

LayersFree ==
  /\ freeLayers \in Seq(Nat)
  /\ \A i \in 1..Len(freeLayers) :
       freeLayers[i] \in 1..Len(setLayers) /\ setLayers[freeLayers[i]].generation = 0
  /\ \A i, j \in 1..Len(freeLayers) : freeLayers[i] = freeLayers[j] => i = j

LayersKept == kept = {setLayers[i].generation : i \in 1..Len(setLayers)} \ {0}

\* A handle's layer, while it is there, is where the handle says.
HandlesStand ==
  \A h \in issued :
    /\ h.generation \in Nat \ {0} /\ h.generation < nextGeneration
    /\ \A i \in 1..Len(setLayers) : setLayers[i].generation = h.generation => i = h.id

SceneSetInv ==
  /\ SceneSetTypes /\ LayersApart /\ LayersFree /\ LayersKept /\ HandlesStand
  /\ Stands(scenes, Placed)

LEMMA SceneSetStart == SceneSetInit => SceneSetInv
<1> SUFFICES ASSUME SceneSetInit PROVE SceneSetInv
  OBVIOUS
<1>1. /\ scenes = [i \in 1..2 |-> [Hole EXCEPT !.made = i]] /\ setLayers = <<>>
      /\ freeLayers = <<>> /\ nextGeneration = 1 /\ issued = {} /\ kept = {} /\ made = 2
  BY DEF SceneSetInit
<1>2. \A i \in 1..2 : [Hole EXCEPT !.made = i] =
        [made |-> i, generations |-> <<>>, owners |-> <<>>, free |-> <<>>]
  BY DEF Hole
<1>3. /\ Len(setLayers) = 0 /\ 1..Len(setLayers) = {} /\ Len(freeLayers) = 0
      /\ 1..Len(freeLayers) = {}
  BY <1>1
<1>4. \A i \in 1..2 : scenes[i] \in SceneRec /\ scenes[i].owners = <<>>
  <2> SUFFICES ASSUME NEW i \in 1..2
               PROVE  scenes[i] \in SceneRec /\ scenes[i].owners = <<>>
    OBVIOUS
  <2> DEFINE t == [made |-> i, generations |-> <<>>, owners |-> <<>>, free |-> <<>>]
  <2>1. scenes[i] = t
    BY <1>1, <1>2
  <2>2. /\ t.made \in Nat \ {0} /\ t.generations = <<>> /\ t.owners = <<>> /\ t.free = <<>>
        /\ <<>> \in Seq(Nat) /\ Len(<<>>) = 0 /\ 1..Len(<<>>) = {}
        /\ t = [made |-> t.made, generations |-> t.generations, owners |-> t.owners,
                free |-> t.free]
    OBVIOUS
  <2> HIDE DEF t
  <2>3. t \in SceneRec
    BY <2>2, SceneIsWell
  <2>4. QED
    BY <2>1, <2>2, <2>3
<1>5. scenes \in Seq(SceneRec)
  BY <1>1, <1>4
<1>6. Placed = {}
  BY <1>3 DEF Placed
<1>7. Stands(scenes, Placed)
  <2>1. DOMAIN scenes = 1..2 /\ Len(<<>>) = 0 /\ 1..Len(<<>>) = {}
    BY <1>1
  <2>2. QED
    BY <1>4, <1>6, <2>1 DEF Stands
<1>8. QED
  BY <1>1, <1>3, <1>5, <1>7 DEF SceneSetInv, SceneSetTypes, LayersApart, LayersFree, LayersKept,
     HandlesStand

\* A scene put where no copy is, or taken away, changes nothing for the others.
LEMMA SceneIsRenewed ==
  ASSUME NEW scs, NEW P, Stands(scs, P), NEW then, NEW x, DOMAIN then = DOMAIN scs \cup {x},
         \A y \in DOMAIN scs : y # x => then[y] = scs[y], then[x].owners = <<>>,
         then[x] = Hole \/ \A e \in P : e[2].scene # x
  PROVE  Stands(then, P)
<1>1. \A e \in P : e[2].scene \in DOMAIN then /\ InItsSlot(then, e)
  BY DEF Stands, InItsSlot
<1>2. \A d, e \in P : SameSlot(d, e) /\ then[d[2].scene] # Hole => d = e
  BY DEF Stands
<1>3. ASSUME NEW y \in DOMAIN then, NEW slot \in 1..Len(then[y].owners), then[y].owners[slot] # 0
      PROVE  \E e \in P : e[2].scene = y /\ e[2].handle.slot = slot /\ e[1] = then[y].owners[slot]
  <2>1. CASE y = x
    <3>1. Len(<<>>) = 0 /\ 1..Len(<<>>) = {}
      OBVIOUS
    <3>2. QED
      BY <1>3, <2>1, <3>1
  <2>2. CASE y # x
    <3>1. y \in DOMAIN scs /\ then[y] = scs[y]
      BY <1>3, <2>2
    <3>2. QED
      BY <1>3, <3>1 DEF Stands
  <2>3. QED
    BY <2>1, <2>2
<1>4. QED
  BY <1>1, <1>2, <1>3 DEF Stands

LEMMA MirrorsAreTrue == SceneSetInv => MirrorsStand
<1> SUFFICES ASSUME SceneSetInv PROVE MirrorsStand
  OBVIOUS
<1>1. /\ SceneSetTypes /\ LayersApart /\ LayersKept /\ Stands(scenes, Placed)
  BY DEF SceneSetInv
<1>2. DOMAIN setLayers = 1..Len(setLayers) /\ DOMAIN scenes = 1..Len(scenes)
  BY <1>1 DEF SceneSetTypes
<1>3. ASSUME NEW i \in 1..Len(setLayers), NEW n \in DOMAIN setLayers[i].copies
      PROVE  /\ setLayers[i].copies[n] \in CopyRec
             /\ <<setLayers[i].generation, setLayers[i].copies[n]>> \in Placed
  <2>1. setLayers[i].copies \in Seq(CopyRec)
    <3>1. setLayers[i] \in [generation : Nat, copies : Seq(CopyRec)]
      BY <1>1, ElementOfSeq DEF SceneSetTypes
    <3>2. QED
      BY <3>1
  <2>2. n \in 1..Len(setLayers[i].copies)
    BY <2>1
  <2>3. QED
    BY <2>1, <2>2, ElementOfSeq DEF Placed, Of
<1>4. ASSUME NEW g \in kept
      PROVE  \E i \in DOMAIN setLayers :
               /\ setLayers[i].generation = g
               /\ \A n \in DOMAIN setLayers[i].copies :
                    LET copy == setLayers[i].copies[n]
                    IN scenes[copy.scene].made = copy.made =>
                         /\ Resolves(scenes[copy.scene], copy.handle)
                         /\ scenes[copy.scene].owners[copy.handle.slot] = g
  <2>1. PICK i \in 1..Len(setLayers) : setLayers[i].generation = g
    BY <1>1 DEF LayersKept
  <2>2. ASSUME NEW n \in DOMAIN setLayers[i].copies
        PROVE  LET copy == setLayers[i].copies[n]
               IN scenes[copy.scene].made = copy.made =>
                    /\ Resolves(scenes[copy.scene], copy.handle)
                    /\ scenes[copy.scene].owners[copy.handle.slot] = g
    <3> DEFINE copy == setLayers[i].copies[n]
    <3>1. copy \in CopyRec /\ <<g, copy>> \in Placed
      BY <1>3, <2>1
    <3> HIDE DEF copy
    <3>2. InItsSlot(scenes, <<g, copy>>)
      BY <1>1, <3>1 DEF Stands
    <3>3. copy.made # 0 /\ Hole.made = 0
      BY <3>1 DEF CopyRec, Hole
    <3>4. scenes[copy.scene].made = copy.made =>
            /\ Resolves(scenes[copy.scene], copy.handle)
            /\ scenes[copy.scene].owners[copy.handle.slot] = g
      BY <3>2, <3>3 DEF InItsSlot
    <3>5. QED
      BY <3>4 DEF copy
  <2>3. QED
    BY <1>2, <2>1, <2>2
<1>5. ASSUME NEW x \in DOMAIN scenes PROVE ToSet(scenes[x].owners) \subseteq kept \cup {0}
  <2>1. scenes[x].owners \in Seq(Nat)
    BY <1>1, <1>2, ElementOfSeq DEF SceneSetTypes, SceneRec
  <2>2. ASSUME NEW slot \in 1..Len(scenes[x].owners), scenes[x].owners[slot] # 0
        PROVE  scenes[x].owners[slot] \in kept
    <3>1. PICK e \in Placed : e[1] = scenes[x].owners[slot]
      BY <1>1, <2>2 DEF Stands
    <3>2. PICK i \in 1..Len(setLayers) : e \in Of(setLayers[i].generation, setLayers[i].copies)
      BY DEF Placed
    <3>3. e[1] = setLayers[i].generation
      BY <3>2 DEF Of
    <3>4. QED
      BY <1>1, <2>2, <3>1, <3>3 DEF LayersKept
  <2>3. QED
    BY <2>1, <2>2 DEF ToSet
<1>6. QED
  BY <1>4, <1>5 DEF MirrorsStand

\* A slot that had no layer is given one, or one that had one is emptied.
LEMMA LayersAreTyped ==
  ASSUME SceneSetTypes
  PROVE  \A i \in 1..Len(setLayers) :
           /\ setLayers[i].generation \in Nat /\ setLayers[i].copies \in Seq(CopyRec)
           /\ Of(setLayers[i].generation, setLayers[i].copies) \subseteq Placed
<1> SUFFICES ASSUME NEW i \in 1..Len(setLayers)
             PROVE  /\ setLayers[i].generation \in Nat /\ setLayers[i].copies \in Seq(CopyRec)
                    /\ Of(setLayers[i].generation, setLayers[i].copies) \subseteq Placed
  OBVIOUS
<1>1. setLayers[i] \in [generation : Nat, copies : Seq(CopyRec)]
  BY ElementOfSeq DEF SceneSetTypes
<1>2. QED
  BY <1>1 DEF Placed

LEMMA PlacedIsTyped ==
  ASSUME SceneSetTypes, LayersApart
  PROVE  Placed \in SUBSET Entries
<1> SUFFICES ASSUME NEW i \in 1..Len(setLayers),
                    NEW e \in Of(setLayers[i].generation, setLayers[i].copies)
             PROVE  e \in Entries
  BY DEF Placed
<1> DEFINE copies == setLayers[i].copies
<1>1. PICK k \in 1..Len(copies) : e = <<setLayers[i].generation, copies[k]>>
  BY DEF Of
<1>2. setLayers[i].generation \in Nat /\ copies \in Seq(CopyRec)
  BY LayersAreTyped
<1>3. setLayers[i].generation # 0
  <2>1. Len(<<>>) = 0 /\ 1..0 = {}
    OBVIOUS
  <2>2. QED
    BY <1>1, <2>1 DEF LayersApart
<1>4. copies[k] \in CopyRec
  BY <1>1, <1>2, ElementOfSeq
<1>5. QED
  BY <1>1, <1>2, <1>3, <1>4 DEF Entries

\* Scenes come and go, and the layers stay.
LEMMA ScenesChange ==
  ASSUME SceneSetInv, UNCHANGED <<setLayers, freeLayers, nextGeneration, issued, kept>>,
         scenes' \in Seq(SceneRec), made' \in Nat, Stands(scenes', Placed)
  PROVE  SceneSetInv'
<1>1. Placed' = Placed
  BY DEF Placed
<1>2. Stands(scenes', Placed')
  BY <1>1
<1>3. Stands(scenes, Placed)'
  BY <1>2
<1>4. SceneSetTypes' /\ LayersApart' /\ LayersFree' /\ LayersKept' /\ HandlesStand'
  BY DEF SceneSetInv, SceneSetTypes, LayersApart, LayersFree, LayersKept, HandlesStand
<1>5. QED
  BY <1>3, <1>4 DEF SceneSetInv

LEMMA SceneIsAdded == FreesIndexes /\ SceneSetInv /\ AddScene => SceneSetInv'
<1> SUFFICES ASSUME FreesIndexes, SceneSetInv, AddScene PROVE SceneSetInv'
  OBVIOUS
<1>1. /\ SceneSetTypes /\ LayersApart /\ Stands(scenes, Placed)
      /\ DOMAIN scenes = 1..Len(scenes) /\ Len(scenes) \in Nat /\ made \in Nat
      /\ \A i \in 1..Len(scenes) : scenes[i] \in SceneRec
  <2>1. SceneSetTypes /\ LayersApart /\ Stands(scenes, Placed)
    BY DEF SceneSetInv
  <2>2. scenes \in Seq(SceneRec)
    BY <2>1 DEF SceneSetTypes
  <2>3. QED
    BY <2>1, <2>2, ElementOfSeq DEF SceneSetTypes
<1> DEFINE holes == {i \in DOMAIN scenes : scenes[i] = Hole}
           first == CHOOSE i \in holes : \A j \in holes : i <= j
           index == IF holes = {} THEN Len(scenes) + 1 ELSE first
           scene == NewScene
<1>2. /\ \A i \in DOMAIN setLayers : \A n \in DOMAIN setLayers[i].copies :
           setLayers[i].copies[n].scene # index
      /\ scenes' = IF holes = {} THEN Append(scenes, scene) ELSE [scenes EXCEPT ![index] = scene]
      /\ made' = made + 1 /\ UNCHANGED <<setLayers, freeLayers, nextGeneration, issued, kept>>
  BY DEF AddScene
<1>3. scene \in SceneRec /\ scene.owners = <<>>
  <2>1. scene = [made |-> made + 1, generations |-> <<>>, owners |-> <<>>, free |-> <<>>]
    BY DEF NewScene, Hole
  <2>2. /\ scene.made \in Nat \ {0} /\ scene.generations = <<>> /\ scene.owners = <<>>
        /\ scene.free = <<>> /\ <<>> \in Seq(Nat) /\ Len(<<>>) = 0 /\ 1..Len(<<>>) = {}
        /\ scene = [made |-> scene.made, generations |-> scene.generations,
                    owners |-> scene.owners, free |-> scene.free]
    BY <1>1, <2>1
  <2> HIDE DEF scene
  <2>3. QED
    BY <2>2, SceneIsWell
<1> HIDE DEF scene
<1>4. holes # {} => first \in holes
  <2>1. holes \subseteq Nat
    BY <1>1
  <2>2. holes # {} => \E i \in holes : \A j \in holes : i <= j
    <3> HIDE DEF holes
    <3>1. QED
      BY <2>1, LeastExists
  <2>3. QED
    BY <2>2
<1>5. /\ scenes' \in Seq(SceneRec) /\ DOMAIN scenes' = DOMAIN scenes \cup {index}
      /\ scenes'[index] = scene /\ \A y \in DOMAIN scenes : y # index => scenes'[y] = scenes[y]
  <2>1. CASE holes = {}
    <3>1. scenes \in Seq(SceneRec) /\ scenes' = Append(scenes, scene)
      BY <1>1, <1>2, <2>1 DEF SceneSetTypes
    <3>2. index = Len(scenes) + 1
      BY <2>1
    <3> HIDE DEF index, holes, first
    <3>3. /\ scenes' \in Seq(SceneRec) /\ Len(scenes') = Len(scenes) + 1
          /\ scenes'[Len(scenes) + 1] = scene
          /\ \A y \in 1..Len(scenes) : scenes'[y] = scenes[y]
      BY <1>3, <3>1
    <3>4. DOMAIN scenes' = 1..Len(scenes) + 1
      BY <3>3
    <3>5. QED
      BY <1>1, <3>2, <3>3, <3>4
  <2>2. CASE holes # {}
    <3>1. scenes \in Seq(SceneRec) /\ scenes' = [scenes EXCEPT ![index] = scene]
          /\ index \in DOMAIN scenes
      <4>1. scenes \in Seq(SceneRec)
        BY <1>1 DEF SceneSetTypes
      <4>2. first \in DOMAIN scenes /\ index = first
        BY <1>4, <2>2
      <4>3. QED
        BY <1>2, <2>2, <4>1, <4>2
    <3> HIDE DEF index, holes, first
    <3>2. QED
      BY <1>1, <1>3, <3>1
  <2>3. QED
    BY <2>1, <2>2
<1>6. \A e \in Placed : e[2].scene # index
  <2> SUFFICES ASSUME NEW i \in 1..Len(setLayers),
                      NEW e \in Of(setLayers[i].generation, setLayers[i].copies)
               PROVE  e[2].scene # index
    BY DEF Placed
  <2>1. PICK k \in 1..Len(setLayers[i].copies) :
          e = <<setLayers[i].generation, setLayers[i].copies[k]>>
    BY DEF Of
  <2>2. setLayers[i].copies \in Seq(CopyRec) /\ setLayers \in Seq([generation : Nat, copies : Seq(CopyRec)])
    BY <1>1, LayersAreTyped DEF SceneSetTypes
  <2>3. k \in DOMAIN setLayers[i].copies /\ i \in DOMAIN setLayers
    BY <2>2
  <2> HIDE DEF index
  <2>4. QED
    BY <1>2, <2>1, <2>3
<1> HIDE DEF index, holes, first
<1>7. Stands(scenes', Placed)
  BY <1>1, <1>3, <1>5, <1>6, SceneIsRenewed
<1>8. made' \in Nat
  BY <1>1, <1>2
<1>9. QED
  BY <1>2, <1>5, <1>7, <1>8, ScenesChange

LEMMA SceneIsRemoved ==
  ASSUME SceneSetInv, NEW index \in DOMAIN scenes, RemoveScene(index)
  PROVE  SceneSetInv'
<1>1. /\ SceneSetTypes /\ Stands(scenes, Placed) /\ scenes \in Seq(SceneRec)
      /\ DOMAIN scenes = 1..Len(scenes) /\ made \in Nat
  BY DEF SceneSetInv, SceneSetTypes
<1>2. scenes' = [scenes EXCEPT ![index] = Hole]
      /\ UNCHANGED <<setLayers, freeLayers, nextGeneration, issued, kept, made>>
  BY DEF RemoveScene
<1>3. Hole \in SceneRec /\ Hole.owners = <<>>
  <2>1. /\ Hole.made = 0 /\ Hole.generations = <<>> /\ Hole.owners = <<>> /\ Hole.free = <<>>
        /\ <<>> \in Seq(Nat) /\ Len(<<>>) = 0 /\ 1..Len(<<>>) = {}
    BY DEF Hole
  <2>2. Hole \in [made : Nat, generations : Seq(Nat), owners : Seq(Nat), free : Seq(Nat)]
    BY <2>1 DEF Hole
  <2>3. QED
    BY <2>1, <2>2 DEF SceneRec
<1>4. /\ scenes' \in Seq(SceneRec) /\ DOMAIN scenes' = DOMAIN scenes \cup {index}
      /\ scenes'[index] = Hole /\ \A y \in DOMAIN scenes : y # index => scenes'[y] = scenes[y]
  BY <1>1, <1>2, <1>3
<1>5. Stands(scenes', Placed)
  BY <1>1, <1>3, <1>4, SceneIsRenewed
<1>6. QED
  BY <1>1, <1>2, <1>4, <1>5, ScenesChange

\* A layer more has a generation, a slot and copies of its own.
LEMMA LayerIsAdded ==
  ASSUME SceneSetInv, NEW n \in 1..MaxCopies, NEW targets \in [1..n -> DOMAIN scenes],
         AddSetLayer(targets)
  PROVE  SceneSetInv'
<1> DEFINE D == DOMAIN scenes
           g == nextGeneration
           s == Mirrored(targets)
           copies == s.copies
           layer == [generation |-> g, copies |-> copies]
           index == IF freeLayers = <<>> THEN Len(setLayers) + 1 ELSE Head(freeLayers)
           LayerRec == [generation : Nat, copies : Seq(CopyRec)]
<1>1. /\ SceneSetTypes /\ LayersApart /\ LayersFree /\ LayersKept /\ HandlesStand
      /\ Stands(scenes, Placed) /\ Placed \in SUBSET Entries
      /\ scenes \in Seq(SceneRec) /\ D = 1..Len(scenes) /\ Len(scenes) \in Nat
      /\ setLayers \in Seq(LayerRec) /\ Len(setLayers) \in Nat /\ g \in Nat \ {0} /\ made \in Nat
  BY PlacedIsTyped DEF SceneSetInv, SceneSetTypes
<1>2. /\ \A i \in DOMAIN targets : HasScene(targets[i])
      /\ scenes' = s.scenes
      /\ setLayers' = IF freeLayers = <<>> THEN Append(setLayers, layer)
                      ELSE [setLayers EXCEPT ![index] = layer]
      /\ freeLayers' = IF freeLayers = <<>> THEN <<>> ELSE Tail(freeLayers)
      /\ issued' = issued \cup {[id |-> index, generation |-> g]}
      /\ nextGeneration' = g + 1 /\ kept' = kept \cup {g} /\ made' = made
  BY DEF AddSetLayer
<1>3. /\ s.scenes \in [D -> SceneRec] /\ copies \in Seq(CopyRec) /\ NoneTwice(copies)
      /\ Stands(s.scenes, Placed \cup Of(g, copies))
  <2>1. targets \in Seq(D) /\ \A i \in 1..Len(targets) : scenes[targets[i]] # Hole
    <3>1. n \in Nat
      BY SceneSetAssumption
    <3>2. targets \in Seq(D) /\ DOMAIN targets = 1..Len(targets)
      BY <3>1
    <3>3. QED
      BY <1>2, <3>2 DEF HasScene
  <2>2. D \in SUBSET Nat /\ scenes \in [D -> SceneRec]
    BY <1>1
  <2> HIDE DEF D
  <2>3. QED
    BY <1>1, <2>1, <2>2, MirroredStands
<1> HIDE DEF s
<1>4. layer \in LayerRec /\ layer.generation = g /\ layer.copies = copies
  BY <1>1, <1>3
<1> HIDE DEF copies, layer, LayerRec
<1>5. /\ setLayers' \in Seq(LayerRec) /\ index \in 1..Len(setLayers') /\ setLayers'[index] = layer
      /\ \A i \in 1..Len(setLayers) :
           i \in 1..Len(setLayers') /\ (i # index => setLayers'[i] = setLayers[i])
      /\ \A i \in 1..Len(setLayers') : i = index \/ i \in 1..Len(setLayers)
      /\ index \in 1..Len(setLayers) => setLayers[index].generation = 0
      /\ freeLayers' \in Seq(Nat)
      /\ \A i \in 1..Len(freeLayers') : /\ freeLayers'[i] \in 1..Len(setLayers)
                                        /\ freeLayers'[i] # index
                                        /\ setLayers[freeLayers'[i]].generation = 0
      /\ \A i, j \in 1..Len(freeLayers') : freeLayers'[i] = freeLayers'[j] => i = j
  <2>1. CASE freeLayers = <<>>
    <3>1. setLayers' = Append(setLayers, layer) /\ freeLayers' = <<>> /\ index = Len(setLayers) + 1
      BY <1>2, <2>1
    <3> HIDE DEF index
    <3>2. /\ setLayers' \in Seq(LayerRec) /\ Len(setLayers') = Len(setLayers) + 1
          /\ setLayers'[Len(setLayers) + 1] = layer
          /\ \A i \in 1..Len(setLayers) : setLayers'[i] = setLayers[i]
      BY <1>1, <1>4, <3>1
    <3>3. <<>> \in Seq(Nat) /\ Len(<<>>) = 0 /\ 1..Len(<<>>) = {}
      OBVIOUS
    <3>4. QED
      BY <1>1, <3>1, <3>2, <3>3
  <2>2. CASE freeLayers # <<>>
    <3> DEFINE m == Len(freeLayers)
    <3>1. /\ freeLayers \in Seq(Nat)
          /\ \A i \in 1..m : freeLayers[i] \in 1..Len(setLayers)
                             /\ setLayers[freeLayers[i]].generation = 0
          /\ \A i, j \in 1..m : freeLayers[i] = freeLayers[j] => i = j
      BY <1>1 DEF LayersFree
    <3>2. /\ m \in Nat \ {0} /\ Head(freeLayers) = freeLayers[1] /\ Tail(freeLayers) \in Seq(Nat)
          /\ Len(Tail(freeLayers)) = m - 1
          /\ \A i \in 1..m - 1 : Tail(freeLayers)[i] = freeLayers[i + 1]
      BY <2>2, <3>1, HeadTailProperties
    <3>3. /\ setLayers' = [setLayers EXCEPT ![index] = layer] /\ freeLayers' = Tail(freeLayers)
          /\ index = freeLayers[1]
      BY <1>2, <2>2, <3>2
    <3> HIDE DEF index
    <3>4. index \in 1..Len(setLayers) /\ setLayers[index].generation = 0 /\ 1 \in 1..m
      BY <3>1, <3>2, <3>3
    <3>5. /\ setLayers' \in Seq(LayerRec) /\ Len(setLayers') = Len(setLayers)
          /\ setLayers'[index] = layer
          /\ \A i \in 1..Len(setLayers) : i # index => setLayers'[i] = setLayers[i]
      BY <1>1, <1>4, <3>3, <3>4
    <3> DEFINE next(i) == i + 1
    <3>6. \A i \in 1..Len(freeLayers') : /\ next(i) \in 1..m /\ next(i) # 1
                                         /\ freeLayers'[i] = freeLayers[next(i)]
      BY <3>2, <3>3
    <3>7. \A i, j \in 1..Len(freeLayers') : next(i) = next(j) => i = j
      BY <3>2, <3>3
    <3> HIDE DEF next
    <3>8. \A i \in 1..Len(freeLayers') : /\ freeLayers'[i] \in 1..Len(setLayers)
                                         /\ freeLayers'[i] # index
                                         /\ setLayers[freeLayers'[i]].generation = 0
      BY <3>1, <3>3, <3>4, <3>6
    <3>9. ASSUME NEW i \in 1..Len(freeLayers'), NEW j \in 1..Len(freeLayers'),
                 freeLayers'[i] = freeLayers'[j]
          PROVE  i = j
      <4>1. next(i) \in 1..m /\ next(j) \in 1..m /\ freeLayers[next(i)] = freeLayers[next(j)]
        BY <3>6, <3>9
      <4>2. next(i) = next(j)
        BY <3>1, <4>1
      <4>3. QED
        BY <3>7, <4>2
    <3>10. QED
      BY <3>2, <3>3, <3>4, <3>5, <3>8, <3>9
  <2>3. QED
    BY <2>1, <2>2
<1> HIDE DEF index
<1>6. Placed' = Placed \cup Of(g, copies)
  <2>1. ASSUME NEW i \in 1..Len(setLayers')
        PROVE  Of(setLayers'[i].generation, setLayers'[i].copies) \subseteq Placed \cup Of(g, copies)
    <3>1. CASE i = index
      BY <1>4, <1>5, <3>1
    <3>2. CASE i # index
      <4>1. i \in 1..Len(setLayers) /\ setLayers'[i] = setLayers[i]
        BY <1>5, <2>1, <3>2
      <4>2. QED
        BY <1>1, <4>1, LayersAreTyped
    <3>3. QED
      BY <3>1, <3>2
  <2>2. Of(g, copies) \subseteq Placed'
    BY <1>4, <1>5 DEF Placed
  <2>3. ASSUME NEW i \in 1..Len(setLayers)
        PROVE  Of(setLayers[i].generation, setLayers[i].copies) \subseteq Placed'
    <3>1. CASE i = index
      <4>1. Len(<<>>) = 0 /\ 1..Len(<<>>) = {} /\ setLayers[i].copies = <<>>
        BY <1>1, <1>5, <3>1 DEF LayersApart
      <4>2. QED
        BY <4>1 DEF Of
    <3>2. CASE i # index
      <4>1. i \in 1..Len(setLayers') /\ setLayers'[i] = setLayers[i]
        BY <1>5, <3>2
      <4>2. QED
        BY <4>1 DEF Placed
    <3>3. QED
      BY <3>1, <3>2
  <2>4. QED
    BY <2>1, <2>2, <2>3 DEF Placed
<1>7. SceneSetTypes'
  <2>1. scenes' \in [D -> SceneRec] /\ D = 1..Len(scenes) /\ Len(scenes) \in Nat
    BY <1>1, <1>2, <1>3
  <2> HIDE DEF D
  <2>2. scenes' \in Seq(SceneRec)
    BY <2>1
  <2>3. QED
    BY <1>1, <1>2, <1>5, <2>2 DEF SceneSetTypes, LayerRec
<1>8. \A i \in 1..Len(setLayers) : setLayers[i].generation \in Nat /\ setLayers[i].generation < g
  BY <1>1, LayersAreTyped DEF LayersApart
<1>9. ASSUME NEW i \in 1..Len(setLayers'), i # index
       PROVE  setLayers'[i].generation # g
  <2>1. i \in 1..Len(setLayers) /\ setLayers'[i] = setLayers[i]
    BY <1>5, <1>9
  <2>2. setLayers[i].generation \in Nat /\ setLayers[i].generation < g
    BY <1>8, <2>1
  <2>3. QED
    BY <1>1, <2>1, <2>2
<1>10. LayersApart'
  <2>1. ASSUME NEW i \in 1..Len(setLayers')
        PROVE  /\ setLayers'[i].generation < g + 1 /\ NoneTwice(setLayers'[i].copies)
               /\ setLayers'[i].generation = 0 => setLayers'[i].copies = <<>>
    <3>1. CASE i = index
      BY <1>1, <1>3, <1>4, <1>5, <3>1
    <3>2. CASE i # index
      <4>1. i \in 1..Len(setLayers) /\ setLayers'[i] = setLayers[i]
        BY <1>5, <2>1, <3>2
      <4>2. QED
        BY <1>1, <1>8, <4>1 DEF LayersApart
    <3>3. QED
      BY <3>1, <3>2
  <2>2. ASSUME NEW i \in 1..Len(setLayers'), NEW j \in 1..Len(setLayers'),
               setLayers'[i].generation = setLayers'[j].generation,
               setLayers'[i].generation # 0
        PROVE  i = j
    <3>1. CASE i = index \/ j = index
      BY <1>4, <1>5, <2>2, <1>9, <3>1
    <3>2. CASE i # index /\ j # index
      <4>1. /\ i \in 1..Len(setLayers) /\ setLayers'[i] = setLayers[i]
            /\ j \in 1..Len(setLayers) /\ setLayers'[j] = setLayers[j]
        BY <1>5, <3>2
      <4>2. QED
        BY <1>1, <2>2, <4>1 DEF LayersApart
    <3>3. QED
      BY <3>1, <3>2
  <2>4. QED
    BY <1>2, <2>1, <2>2 DEF LayersApart
<1>11. LayersFree'
  <2>1. \A i \in 1..Len(freeLayers') : freeLayers'[i] \in 1..Len(setLayers')
                                       /\ setLayers'[freeLayers'[i]].generation = 0
    BY <1>5
  <2>2. QED
    BY <1>5, <2>1 DEF LayersFree
<1>12. LayersKept'
  <2> DEFINE old == {setLayers[i].generation : i \in 1..Len(setLayers)}
             new == {setLayers'[i].generation : i \in 1..Len(setLayers')}
  <2>1. new \subseteq old \cup {g}
    BY <1>4, <1>5
  <2>2. g \in new
    BY <1>4, <1>5
  <2>3. ASSUME NEW i \in 1..Len(setLayers), setLayers[i].generation # 0
        PROVE  setLayers[i].generation \in new
    <3>1. i # index /\ i \in 1..Len(setLayers') /\ setLayers'[i] = setLayers[i]
      BY <1>5, <2>3
    <3>2. QED
      BY <3>1
  <2>4. \A x \in old : x # 0 => x \in new
    BY <2>3
  <2>5. kept' = new \ {0}
    <3>1. kept = old \ {0}
      BY <1>1 DEF LayersKept
    <3> HIDE DEF old, new
    <3>2. QED
      BY <1>1, <1>2, <2>1, <2>2, <2>4, <3>1
  <2>6. QED
    BY <2>5 DEF LayersKept
<1>13. HandlesStand'
  <2> SUFFICES ASSUME NEW h \in issued'
               PROVE  /\ h.generation \in Nat \ {0} /\ h.generation < g + 1
                      /\ \A i \in 1..Len(setLayers') :
                           setLayers'[i].generation = h.generation => i = h.id
    BY <1>2 DEF HandlesStand
  <2>1. CASE h \in issued
    <3>1. h.generation \in Nat \ {0} /\ h.generation < g
          /\ \A i \in 1..Len(setLayers) : setLayers[i].generation = h.generation => i = h.id
      BY <1>1, <2>1 DEF HandlesStand
    <3>2. \A i \in 1..Len(setLayers') : setLayers'[i].generation = h.generation =>
            i \in 1..Len(setLayers) /\ setLayers'[i] = setLayers[i]
      BY <1>1, <1>4, <1>5, <3>1
    <3>3. QED
      BY <1>1, <3>1, <3>2
  <2>2. CASE h = [id |-> index, generation |-> g]
    <3>1. h.id = index /\ h.generation = g
      BY <2>2
    <3>2. QED
      BY <1>1, <1>9, <3>1
  <2>3. QED
    BY <1>2, <2>1, <2>2
<1>14. Stands(scenes, Placed)'
  <2>1. Stands(scenes', Placed')
    BY <1>2, <1>3, <1>6
  <2>2. QED
    BY <2>1
<1>15. QED
  BY <1>7, <1>10, <1>11, <1>12, <1>13, <1>14 DEF SceneSetInv

\* A layer that is removed by its own handle takes its copies along, and one
\* whose handle is stale is not there to be removed.
LEMMA LayerIsRemoved ==
  ASSUME SceneSetInv, NEW handle \in issued, RemoveSetLayer(handle)
  PROVE  SceneSetInv'
<1> DEFINE D == DOMAIN scenes
           id == handle.id
           g == handle.generation
           copies == setLayers[id].copies
           LayerRec == [generation : Nat, copies : Seq(CopyRec)]
<1>1. /\ SceneSetTypes /\ LayersApart /\ LayersFree /\ LayersKept /\ HandlesStand
      /\ Stands(scenes, Placed) /\ Placed \in SUBSET Entries
      /\ scenes \in Seq(SceneRec) /\ D = 1..Len(scenes) /\ Len(scenes) \in Nat
      /\ setLayers \in Seq(LayerRec) /\ Len(setLayers) \in Nat
      /\ DOMAIN setLayers = 1..Len(setLayers)
      /\ \A i \in 1..Len(setLayers) : setLayers[i].generation \in Nat
  BY PlacedIsTyped, LayersAreTyped DEF SceneSetInv, SceneSetTypes
<1>2. /\ g \in Nat \ {0} /\ g < nextGeneration
      /\ \A i \in 1..Len(setLayers) : setLayers[i].generation = g => i = id
  BY <1>1 DEF HandlesStand
<1>3. kept' = kept \ {g} /\ UNCHANGED <<nextGeneration, issued, made>>
  BY DEF RemoveSetLayer
<1>4. CASE ~Answers(handle)
  <2>1. UNCHANGED <<scenes, setLayers, freeLayers>>
    BY <1>4 DEF RemoveSetLayer
  <2>2. g \notin {setLayers[i].generation : i \in 1..Len(setLayers)}
    BY <1>1, <1>2, <1>4 DEF Answers
  <2>3. kept' = kept
    <3>1. g \notin kept
      BY <1>1, <2>2 DEF LayersKept
    <3>2. QED
      BY <1>3, <3>1
  <2>4. Placed' = Placed
    BY <2>1 DEF Placed
  <2>5. Stands(scenes, Placed)'
    BY <1>1, <2>1, <2>4
  <2>6. SceneSetTypes' /\ LayersApart' /\ LayersFree' /\ LayersKept' /\ HandlesStand'
    <3>1. SceneSetTypes' /\ LayersApart' /\ LayersFree'
      BY <1>1, <1>3, <2>1 DEF SceneSetTypes, LayersApart, LayersFree
    <3>2. LayersKept'
      BY <1>1, <2>1, <2>3 DEF LayersKept
    <3>3. HandlesStand'
      BY <1>1, <1>3, <2>1 DEF HandlesStand
    <3>4. QED
      BY <3>1, <3>2, <3>3
  <2>7. QED
    BY <2>5, <2>6 DEF SceneSetInv
<1>5. CASE Answers(handle)
  <2>1. id \in 1..Len(setLayers) /\ setLayers[id].generation = g
    BY <1>1, <1>5 DEF Answers
  <2>2. /\ scenes' = Unmirrored(copies) /\ setLayers' = [setLayers EXCEPT ![id] = NoSetLayer]
        /\ freeLayers' = <<id>> \o freeLayers
    BY <1>5 DEF RemoveSetLayer
  <2>3. /\ copies \in Seq(CopyRec) /\ NoneTwice(copies) /\ Of(g, copies) \subseteq Placed
    <3>1. Of(setLayers[id].generation, setLayers[id].copies) \subseteq Placed
      BY <1>1, <2>1, LayersAreTyped
    <3>2. QED
      BY <1>1, <2>1, <3>1, LayersAreTyped DEF LayersApart
  <2>4. Unmirrored(copies) \in [D -> SceneRec] /\ Stands(Unmirrored(copies), Placed \ Of(g, copies))
    <3>1. scenes \in [D -> SceneRec]
      BY <1>1
    <3> HIDE DEF D, copies, g
    <3>2. QED
      BY <1>1, <2>3, <3>1, UnmirroredStands
  <2>5. scenes' \in Seq(SceneRec)
    <3>1. scenes' \in [D -> SceneRec] /\ D = 1..Len(scenes) /\ Len(scenes) \in Nat
      BY <1>1, <2>2, <2>4
    <3> HIDE DEF D
    <3>2. QED
      BY <3>1
  <2>6. NoSetLayer \in LayerRec /\ NoSetLayer.generation = 0 /\ NoSetLayer.copies = <<>>
    BY DEF NoSetLayer
  <2> HIDE DEF LayerRec, D
  <2>7. /\ setLayers' \in Seq(LayerRec) /\ Len(setLayers') = Len(setLayers)
        /\ setLayers'[id] = NoSetLayer
        /\ \A i \in 1..Len(setLayers) : i # id => setLayers'[i] = setLayers[i]
    BY <1>1, <2>1, <2>2, <2>6
  <2>8. Placed' = Placed \ Of(g, copies)
    <3>1. ASSUME NEW i \in 1..Len(setLayers), i # id
          PROVE  /\ Of(setLayers[i].generation, setLayers[i].copies) \subseteq Placed'
                 /\ Of(setLayers[i].generation, setLayers[i].copies) \cap Of(g, copies) = {}
      <4>1. setLayers[i].generation # g
        BY <1>2, <3>1
      <4>2. setLayers'[i] = setLayers[i] /\ i \in 1..Len(setLayers')
        BY <2>7, <3>1
      <4>3. Of(setLayers[i].generation, setLayers[i].copies) \subseteq Placed'
        BY <4>2 DEF Placed
      <4>4. \A e \in Of(setLayers[i].generation, setLayers[i].copies) : e[1] # g
        BY <4>1 DEF Of
      <4>5. \A e \in Of(g, copies) : e[1] = g
        BY DEF Of
      <4>6. QED
        BY <4>3, <4>4, <4>5
    <3>2. Placed \subseteq Of(g, copies) \cup Placed'
      BY <2>1, <3>1 DEF Placed
    <3>3. ASSUME NEW i \in 1..Len(setLayers'),
                 NEW e \in Of(setLayers'[i].generation, setLayers'[i].copies)
          PROVE  e \in Placed /\ e \notin Of(g, copies)
      <4>1. i # id
        <5>1. Len(<<>>) = 0 /\ 1..Len(<<>>) = {}
          OBVIOUS
        <5>2. QED
          BY <2>6, <2>7, <3>3, <5>1 DEF Of
      <4>2. i \in 1..Len(setLayers) /\ setLayers'[i] = setLayers[i]
        BY <2>7, <4>1
      <4>3. QED
        BY <3>1, <3>3, <4>1, <4>2 DEF Placed
    <3>4. Placed' \subseteq Placed \ Of(g, copies)
      BY <3>3 DEF Placed
    <3>5. QED
      BY <3>2, <3>4
  <2>9. Stands(scenes, Placed)'
    <3>1. Stands(scenes', Placed')
      BY <2>2, <2>4, <2>8
    <3>2. QED
      BY <3>1
  <2>10. SceneSetTypes'
    BY <1>1, <1>3, <2>5, <2>7 DEF SceneSetTypes, LayerRec
  <2>11. LayersApart'
    <3>1. NoneTwice(<<>>)
      BY DEF NoneTwice
    <3>2. ASSUME NEW i \in 1..Len(setLayers')
          PROVE  /\ setLayers'[i].generation < nextGeneration' /\ NoneTwice(setLayers'[i].copies)
                 /\ setLayers'[i].generation = 0 => setLayers'[i].copies = <<>>
      <4>1. CASE i = id
        BY <1>1, <1>3, <2>6, <2>7, <3>1, <4>1 DEF SceneSetTypes
      <4>2. CASE i # id
        BY <1>1, <1>3, <2>7, <4>2 DEF LayersApart
      <4>3. QED
        BY <4>1, <4>2
    <3>3. \A i, j \in 1..Len(setLayers') :
            setLayers'[i].generation = setLayers'[j].generation /\ setLayers'[i].generation # 0
              => i = j
      BY <1>1, <2>6, <2>7 DEF LayersApart
    <3>4. QED
      BY <3>2, <3>3 DEF LayersApart
  <2>12. LayersFree'
    <3> DEFINE m == Len(freeLayers)
               last(i) == i - 1
    <3>1. /\ freeLayers \in Seq(Nat) /\ m \in Nat /\ id \in Nat
          /\ \A i \in 1..m : freeLayers[i] \in 1..Len(setLayers)
                             /\ setLayers[freeLayers[i]].generation = 0
          /\ \A i, j \in 1..m : freeLayers[i] = freeLayers[j] => i = j
      BY <1>1, <2>1 DEF LayersFree
    <3>2. /\ freeLayers' \in Seq(Nat) /\ Len(freeLayers') = m + 1 /\ freeLayers'[1] = id
          /\ \A i \in 1..m + 1 : i # 1 => freeLayers'[i] = freeLayers[last(i)] /\ last(i) \in 1..m
      BY <2>2, <3>1
    <3>3. \A i, j \in 1..m + 1 : last(i) = last(j) => i = j
      BY <3>1
    <3> HIDE DEF last
    <3>4. ASSUME NEW i \in 1..m + 1, i # 1
          PROVE  /\ freeLayers'[i] \in 1..Len(setLayers')
                 /\ setLayers'[freeLayers'[i]].generation = 0
                 /\ freeLayers'[i] # id
      <4> DEFINE slot == freeLayers'[i]
      <4>1. slot \in 1..Len(setLayers) /\ setLayers[slot].generation = 0
        <5>1. freeLayers'[i] = freeLayers[last(i)] /\ last(i) \in 1..m
          BY <3>2, <3>4
        <5>2. /\ freeLayers[last(i)] \in 1..Len(setLayers)
              /\ setLayers[freeLayers[last(i)]].generation = 0
          BY <3>1, <5>1
        <5>3. QED
          BY <5>1, <5>2
      <4>2. slot # id
        BY <1>2, <2>1, <4>1
      <4>3. QED
        BY <2>7, <4>1, <4>2
    <3>5. ASSUME NEW i \in 1..m + 1, NEW j \in 1..m + 1, freeLayers'[i] = freeLayers'[j]
          PROVE  i = j
      <4>1. CASE i = 1 \/ j = 1
        BY <3>2, <3>4, <3>5, <4>1
      <4>2. CASE i # 1 /\ j # 1
        <5>1. last(i) \in 1..m /\ last(j) \in 1..m /\ freeLayers[last(i)] = freeLayers[last(j)]
          BY <3>2, <3>5, <4>2
        <5>2. last(i) = last(j)
          BY <3>1, <5>1
        <5>3. QED
          BY <3>3, <5>2
      <4>3. QED
        BY <4>1, <4>2
    <3>6. \A i \in 1..m + 1 : freeLayers'[i] \in 1..Len(setLayers')
                              /\ setLayers'[freeLayers'[i]].generation = 0
      BY <2>1, <2>6, <2>7, <3>2, <3>4
    <3>7. QED
      BY <3>2, <3>5, <3>6 DEF LayersFree
  <2>13. LayersKept'
    <3> DEFINE old == {setLayers[i].generation : i \in 1..Len(setLayers)}
               new == {setLayers'[i].generation : i \in 1..Len(setLayers')}
    <3>1. \A x \in new : x = 0 \/ (x \in old /\ x # g)
      BY <1>2, <2>6, <2>7
    <3>2. \A x \in old : x = g \/ x \in new
      BY <2>1, <2>7
    <3>3. kept = old \ {0}
      BY <1>1 DEF LayersKept
    <3>4. kept' = new \ {0}
      <4> HIDE DEF old, new, g
      <4>1. QED
        BY <1>3, <3>1, <3>2, <3>3
    <3>5. QED
      BY <3>4 DEF LayersKept
  <2>14. HandlesStand'
    BY <1>1, <1>3, <2>6, <2>7 DEF HandlesStand
  <2>15. QED
    BY <2>9, <2>10, <2>11, <2>12, <2>13, <2>14 DEF SceneSetInv
<1>6. QED
  BY <1>4, <1>5

LEMMA SceneSetStep == FreesIndexes /\ SceneSetInv /\ [SceneSetNext]_sceneSetVars => SceneSetInv'
<1> SUFFICES ASSUME FreesIndexes, SceneSetInv, [SceneSetNext]_sceneSetVars PROVE SceneSetInv'
  OBVIOUS
<1>1. CASE UNCHANGED sceneSetVars
  <2>1. UNCHANGED <<scenes, setLayers, freeLayers, nextGeneration, issued, kept, made>>
    BY <1>1 DEF sceneSetVars
  <2>2. scenes' \in Seq(SceneRec) /\ made' \in Nat /\ Stands(scenes', Placed)
    BY <2>1 DEF SceneSetInv, SceneSetTypes
  <2>3. QED
    BY <2>1, <2>2, ScenesChange
<1>2. QED
  BY <1>1, SceneIsAdded, SceneIsRemoved, LayerIsAdded, LayerIsRemoved DEF SceneSetNext

\* Where callers free an index before it is given to another scene, a set layer
\* has its copy in each of its scenes that is still there until its own handle
\* removes it, and a scene has copies of such layers only, however slots,
\* handles and indexes were reused: add_layer, remove_layer, add_scene and
\* remove_scene.
THEOREM MirrorsAreStanding ==
  ASSUME FreesIndexes
  PROVE  PartsSpec => []MirrorsStand
<1>1. PartsInit => SceneSetInv
  BY SceneSetStart DEF PartsInit
<1>2. SceneSetInv /\ [PartsNext]_partsVars => SceneSetInv'
  BY PartsMove, SceneSetStep
<1>3. SceneSetInv => MirrorsStand
  BY MirrorsAreTrue
<1>4. QED
  BY <1>1, <1>2, <1>3, PTL DEF PartsSpec

-----------------------------------------------------------------------------
(* The keyboards, the canvas and the buffers, from PartInvariants.         *)

\* A key repeats only while a finger is on it or the word of its release is on
\* its way, and a keyboard that has read and handled all it was told holds what
\* libinput holds, with every light as the lock is: the seat's dispatch, the
\* keyboard's process_key, reload and release_all, the repeater, and pauses.
THEOREM KeysAreFollowed == PartsSpec => []KeysFollowFingers
<1>1. PartsInit => KeysInv
  BY KeysStart DEF PartsInit
<1>2. KeysInv /\ [PartsNext]_partsVars => KeysInv'
  BY PartsMove, KeysStep
<1>3. KeysInv => KeysFollowFingers
  BY KeysAreTrue
<1>4. QED
  BY <1>1, <1>2, <1>3, PTL DEF PartsSpec

\* What is on the screen is the picture of the last frame composed and shown,
\* pixel by pixel as planes would have shown its layers, in each format the
\* plane may take: LayerScene's use of CompositeCanvas, whose two buffers are
\* turned over at every build, over pauses, refused and dropped builds.
THEOREM CanvasIsShown == PartsSpec => []CanvasShowsItsLayers
<1>1. PartsInit => CanvasInv
  BY CanvasStart DEF PartsInit
<1>2. CanvasInv /\ [PartsNext]_partsVars => CanvasInv'
  BY PartsMove, CanvasStep
<1>3. CanvasInv => CanvasShowsItsLayers
  BY CanvasIsTrue
<1>4. QED
  BY <1>1, <1>2, <1>3, PTL DEF PartsSpec

\* The buffers and the surface share the files, and one of the two is at work.
BuffersInv ==
  IF part = "surface" THEN SurfaceInv ELSE GemInv /\ surface = NoSurface /\ scanned = {}

LEMMA BuffersMove ==
  ASSUME [PartsNext]_partsVars
  PROVE  /\ part' = part
         /\ part = "surface" => SurfaceNext \/ UNCHANGED <<gemVars, surfaceVars>>
         /\ part # "surface" => (GemNext \/ UNCHANGED gemVars) /\ UNCHANGED surfaceVars
<1>1. part' = part
  BY DEF PartsNext, Alone, partsVars
<1>2. ASSUME part = "surface" PROVE SurfaceNext \/ UNCHANGED <<gemVars, surfaceVars>>
  BY <1>2 DEF PartsNext, Alone, partsVars
<1>3. ASSUME part # "surface" PROVE (GemNext \/ UNCHANGED gemVars) /\ UNCHANGED surfaceVars
  BY <1>3 DEF PartsNext, Alone, partsVars
<1>4. QED
  BY <1>1, <1>2, <1>3

LEMMA BuffersStep ==
  ASSUME ~Shares, ~Retries, BuffersInv, [PartsNext]_partsVars
  PROVE  BuffersInv'
<1>1. CASE part = "surface"
  <2>1. SurfaceInv'
    BY <1>1, BuffersMove, SurfaceSteps, SurfaceStutters DEF BuffersInv
  <2>2. QED
    BY <1>1, <2>1, BuffersMove DEF BuffersInv
<1>2. CASE part # "surface"
  <2>1. GemInv'
    BY <1>2, BuffersMove, GemSteps, GemStutters DEF BuffersInv
  <2>2. (surface = NoSurface /\ scanned = {})'
    BY <1>2, BuffersMove DEF BuffersInv, surfaceVars, NoSurface
  <2>3. QED
    BY <1>2, <2>1, <2>2, BuffersMove DEF BuffersInv
<1>3. QED
  BY <1>1, <1>2

\* Where no two sources import one dma-buf and none is resumed twice on a file,
\* a number that the process keeps of a handle or a framebuffer still names what
\* it was given for, there is nothing on a live file that the process does not
\* keep, and what the scene holds of a surface is locked: every allocation,
\* import, teardown, pause, resume and half-failed one of drmkit-dumb, the
\* import sources and the GBM surface.
THEOREM BuffersAreStanding ==
  ASSUME ~Shares, ~Retries
  PROVE  PartsSpec => []BuffersStand
<1>1. PartsInit => BuffersInv
  <2>1. SUFFICES ASSUME PartsInit PROVE BuffersInv
    OBVIOUS
  <2>2. GemInit /\ SurfaceInit
    BY <2>1 DEF PartsInit
  <2>3. GemInv /\ SurfaceInv /\ surface = NoSurface /\ scanned = {}
    BY <2>2, GemStarts, SurfaceStarts DEF SurfaceInit
  <2>4. QED
    BY <2>3 DEF BuffersInv
<1>2. BuffersInv /\ [PartsNext]_partsVars => BuffersInv'
  BY BuffersStep
<1>3. BuffersInv => BuffersStand
  BY GemAgrees, SurfaceAgrees DEF BuffersInv, BuffersStand
<1>4. QED
  BY <1>1, <1>2, <1>3, PTL DEF PartsSpec

=============================================================================
