---------------------------- MODULE DisplayColor ----------------------------
(***************************************************************************)
(* The colour of an output: the blobs staged for its CRTC's pipeline,      *)
(* degamma, matrix and gamma, and its connector's HDR metadata             *)
(* (drmkit-display), across sessions, and what a frame's layers have the   *)
(* connector declare (drmkit-scene signaling).                             *)
(* Blob ids are the device's, and freed ones are given out again.          *)
(***************************************************************************)
EXTENDS Integers, SequencesExt

CONSTANTS
  Crtcs,
  Contents,    \* the HDR metadata that may be set, told apart by their hash
  MaxBlob,     \* bound: the blob ids of the metadata are 1..MaxBlob
  StageSets,   \* the stages a CRTC may have
  Curves,      \* what a caller may stage besides the identity
  MaxPipeBlob  \* the kernel's blob ids are 1..MaxPipeBlob

VARIABLES
  hasStage,   \* CrtcCapabilities: the stages the CRTC has
  lutSize,    \* and the entries its LUTs have, 0 where it does not say
  pipe,       \* "live", "paused" or "gone"
  staged,     \* stage -> [blob, curve], NoStaged for none
  others,     \* the blobs other users of the descriptor have
  pipeBlobs,  \* the blobs the descriptor has
  crtcCurves, \* stage -> [blob, curve] the CRTC applies
  applied     \* the stages whose staged blob the CRTC took and still has

colorVars == <<hasStage, lutSize, pipe, staged, others, pipeBlobs, crtcCurves, applied>>

Stages   == {"degamma", "ctm", "gamma"}

ASSUME BlobAssumption == MaxBlob \in Nat

ASSUME ColorAssumption == StageSets \subseteq SUBSET Stages /\ MaxPipeBlob \in Nat

NoStaged == [blob |-> 0, curve |-> "none"]
Staged   == {staged[s].blob : s \in Stages} \ {0}
Named    == {crtcCurves[s].blob : s \in Stages}

LeastFree(blobs) ==
  CHOOSE b \in 1..MaxPipeBlob \ (blobs \cup Named) :
    \A c \in 1..MaxPipeBlob \ (blobs \cup Named) : b <= c

HasFree(blobs) == 1..MaxPipeBlob \ (blobs \cup Named) # {}

\* replace: the blob that was staged is destroyed, after the new one is made.
Replaced(now, stage) == {now[stage].blob}

\* Stage one curve: without the stage or the blob, and the kernel makes none of
\* nothing, it is refused and changes nothing.
Staging(made, stage, curve) ==
  IF ~made.ok \/ stage \notin hasStage \/ ~HasFree(made.blobs) \/ (stage # "ctm" /\ lutSize = 0)
    THEN [made EXCEPT !.ok = FALSE]
  ELSE LET blob == LeastFree(made.blobs)
       IN [ok |-> TRUE,
           blobs |-> (made.blobs \ Replaced(made.staged, stage)) \cup {blob},
           staged |-> [made.staged EXCEPT ![stage] = [blob |-> blob, curve |-> curve]]]

StagesMade(made) ==
  /\ pipe = "live"
  /\ staged' = made.staged /\ pipeBlobs' = made.blobs
  /\ applied' = {s \in applied : made.staged[s] = staged[s]}
  /\ UNCHANGED <<hasStage, lutSize, pipe, others, crtcCurves>>

NoneMade == [ok |-> TRUE, blobs |-> pipeBlobs, staged |-> staged]

\* set_pq_to_linear and its like, set_custom_lut and set_custom_ctm.
StageCurve(stage, curve) == StagesMade(Staging(NoneMade, stage, curve))

\* set_identity goes through the CRTC's stages and stops at the first refusal.
IdentityIn(made, stage) ==
  IF stage \in hasStage THEN Staging(made, stage, "identity") ELSE made

SetIdentity ==
  StagesMade(IdentityIn(IdentityIn(IdentityIn(NoneMade, "degamma"), "ctm"), "gamma"))

\* apply, and the caller's commit: a property that names a blob which is not
\* there is refused, and a stage without one keeps what it has.
ApplyStaged ==
  /\ pipe = "live" /\ Staged \subseteq pipeBlobs
  /\ crtcCurves' = [s \in Stages |-> IF staged[s] # NoStaged THEN staged[s] ELSE crtcCurves[s]]
  /\ applied' = {s \in Stages : staged[s] # NoStaged}
  /\ UNCHANGED <<hasStage, lutSize, pipe, staged, others, pipeBlobs>>

OtherMakes ==
  /\ pipe # "paused" /\ HasFree(pipeBlobs) /\ others = {}
  /\ others' = {LeastFree(pipeBlobs)} /\ pipeBlobs' = pipeBlobs \cup others'
  /\ UNCHANGED <<hasStage, lutSize, pipe, staged, crtcCurves, applied>>

\* Another master leaves a curve of its own.
OtherClientCurves ==
  /\ pipe = "paused"
  /\ crtcCurves' = [s \in Stages |-> IF s \in hasStage THEN [blob |-> 0, curve |-> "foreign"]
                                     ELSE NoStaged]
  /\ UNCHANGED <<hasStage, lutSize, pipe, staged, others, pipeBlobs, applied>>

Unstaged == [s \in Stages |-> NoStaged]

\* Paused with the stages kept, as though their blobs were still there.
KeepsStaged == staged
ForgetsStaged == Unstaged

\* pause: the descriptor is revoked and the kernel reclaims its blobs.
PausePipeline ==
  /\ pipe = "live"
  /\ pipe' = "paused" /\ staged' = ForgetsStaged /\ applied' = {}
  /\ others' = {} /\ pipeBlobs' = {}
  /\ UNCHANGED <<hasStage, lutSize, crtcCurves>>

\* PausedPipeline::resume, on another descriptor.
ResumePipeline ==
  /\ pipe = "paused" /\ pipe' = "live"
  /\ UNCHANGED <<hasStage, lutSize, staged, others, pipeBlobs, crtcCurves, applied>>

\* The pipeline is dropped, and its blobs with it.
DropPipeline ==
  /\ pipe = "live" /\ pipe' = "gone"
  /\ pipeBlobs' = pipeBlobs \ Staged /\ staged' = Unstaged /\ applied' = {}
  /\ UNCHANGED <<hasStage, lutSize, others, crtcCurves>>

\* CrtcColorPipeline::new; a CRTC without a stage has none.
NewPipeline ==
  /\ pipe = "gone" /\ hasStage # {} /\ pipe' = "live"
  /\ UNCHANGED <<hasStage, lutSize, staged, others, pipeBlobs, crtcCurves, applied>>

ColorInit ==
  /\ hasStage \in StageSets /\ lutSize \in {0, 3}
  /\ pipe = "gone" /\ staged = Unstaged /\ others = {} /\ pipeBlobs = {}
  /\ crtcCurves = Unstaged /\ applied = {}

ColorNext ==
  \/ \E stage \in Stages, curve \in Curves : StageCurve(stage, curve)
  \/ SetIdentity
  \/ ApplyStaged
  \/ OtherMakes
  \/ OtherClientCurves
  \/ PausePipeline
  \/ ResumePipeline
  \/ DropPipeline
  \/ NewPipeline

-----------------------------------------------------------------------------
(* HdrMetadataCache: by CRTC, the HDR metadata blob last handed out, and   *)
(* the replaced ones that wait for a commit.  Its caller commits the blobs *)
(* it is handed, and acknowledges once the commits that name them landed.  *)

VARIABLES
  cached,     \* active: by CRTC, the blob and its content, NoEntry for none
  outgoing,   \* pending_destruction
  kernel,     \* the blobs this descriptor has
  committed   \* by CRTC, the blob its connector names, 0 for none

hdrVars == <<cached, outgoing, kernel, committed>>

NoEntry == [blob |-> 0, content |-> "none"]

\* An id is given out again once it was destroyed and no state names it.
FreeBlobs == (1..MaxBlob) \ (kernel \cup {committed[c] : c \in Crtcs})

Queued(entry) == IF entry = NoEntry THEN outgoing ELSE outgoing \cup {entry.blob}

\* set_with None
ClearMetadata(c) ==
  /\ outgoing' = Queued(cached[c])
  /\ cached' = [cached EXCEPT ![c] = NoEntry]
  /\ UNCHANGED <<kernel, committed>>

\* set_with: the same content builds nothing, and a blob the kernel refuses
\* leaves the cache as it was.
SetMetadata(c, content) ==
  /\ cached[c].content # content
  /\ FreeBlobs # {}
  /\ LET blob == Min(FreeBlobs)
     IN /\ kernel' = kernel \cup {blob}
        /\ cached' = [cached EXCEPT ![c] = [blob |-> blob, content |-> content]]
  /\ outgoing' = Queued(cached[c])
  /\ UNCHANGED committed

\* A commit with the CRTC's blob lands; one that is refused changes nothing.
BlobLands(c) ==
  /\ committed[c] # cached[c].blob
  /\ committed' = [committed EXCEPT ![c] = cached[c].blob]
  /\ UNCHANGED <<cached, outgoing, kernel>>

\* acknowledge_committed, "after the atomic commit that references the new blob
\* has landed": whatever is queued by then is destroyed.
AcknowledgeCommitted ==
  /\ \A c \in Crtcs : committed[c] = cached[c].blob
  /\ kernel' = kernel \ outgoing /\ outgoing' = {}
  /\ UNCHANGED <<cached, committed>>

\* clear_for_session_loss
ForgetAll ==
  /\ cached' = [c \in Crtcs |-> NoEntry] /\ outgoing' = {}

\* The descriptor is lost with all its blobs, and another takes its place.
SessionLost ==
  /\ ForgetAll
  /\ kernel' = {} /\ committed' = [c \in Crtcs |-> 0]

\* flush, where the connectors were cleared.
Flush ==
  /\ \A c \in Crtcs : committed[c] = 0
  /\ kernel' = kernel \ (outgoing \cup {cached[c].blob : c \in Crtcs})
  /\ cached' = [c \in Crtcs |-> NoEntry] /\ outgoing' = {}
  /\ UNCHANGED committed

HdrInit ==
  /\ cached = [c \in Crtcs |-> NoEntry] /\ outgoing = {}
  /\ kernel = {} /\ committed = [c \in Crtcs |-> 0]

HdrNext ==
  \/ \E c \in Crtcs : ClearMetadata(c)
  \/ \E c \in Crtcs, content \in Contents : SetMetadata(c, content)
  \/ \E c \in Crtcs : BlobLands(c)
  \/ AcknowledgeCommitted
  \/ SessionLost
  \/ Flush

-----------------------------------------------------------------------------
(* fill_lut                                                                *)

\* Entry i of n of the identity, rounded; one entry alone has no range to walk.
IdentityLut(n) == [i \in 1..n |-> IF n = 1 THEN 0
                                  ELSE (2 * 65535 * (i - 1) + (n - 1)) \div (2 * (n - 1))]

-----------------------------------------------------------------------------
(* derive_output_signaling: a layer is [primaries, eotf], "none" where it  *)
(* does not say.                                                           *)

Gamuts == <<"bt709", "adobe", "p3", "bt2020">>
Width(primaries) == IF primaries = "none" THEN 0 ELSE CHOOSE i \in 1..4 : Gamuts[i] = primaries

\* widest_gamut, 0 for none.
WidestGamut(layers) ==
  FoldSeq(LAMBDA l, w : IF Width(l.primaries) > w THEN Width(l.primaries) ELSE w, 0, layers)

ColorspaceOf(primaries) ==
  CASE primaries = "bt709" -> "Default" [] primaries = "adobe" -> "opRGB"
    [] primaries = "p3" -> "DCI-P3_RGB_D65" [] primaries = "bt2020" -> "BT2020_RGB"

HasEotf(layers, eotf) == \E i \in 1..Len(layers) : layers[i].eotf = eotf

\* The best of the curves that need signaling.
EotfOf(layers) == IF HasEotf(layers, "pq") THEN "pq" ELSE IF HasEotf(layers, "hlg") THEN "hlg"
                  ELSE "none"

\* ConnectorCapabilities: what the connector's properties allow.  A depth that
\* is no range, or has no value, is as good as none.
ColorspaceEntries ==
  {"Default", "SMPTE_170M_YCC", "BT709_YCC", "XVYCC_601", "XVYCC_709", "SYCC_601", "opYCC_601",
   "opRGB", "BT2020_CYCC", "BT2020_RGB", "BT2020_YCC", "DCI-P3_RGB_D65", "DCI-P3_RGB_Theater",
   "RGB_Wide_Gamut_Fixed_Point", "RGB_Wide_Gamut_Floating_Point"}

NoBpc == [min |-> 0, max |-> 0, current |-> 0]

ConnectorCaps(props) ==
  [colorspaces |-> props.colorspaces \cap ColorspaceEntries,
   broadcast |-> props.broadcast \cap {"Automatic", "Full", "Limited 16:235"},
   maxBpc |-> IF props.bpc.range = <<>> \/ ~props.bpc.hasValue THEN NoBpc
              ELSE [min |-> props.bpc.range[1], max |-> props.bpc.range[2],
                    current |-> props.bpc.value],
   metadata |-> "HDR_OUTPUT_METADATA" \in props.names]

CanSignalHdr(caps) == caps.metadata /\ caps.maxBpc.max >= 10

Signaling(layers, caps) ==
  LET widest == WidestGamut(layers)
      eotf == EotfOf(layers)
      wanted == IF eotf = "none" THEN [eotf |-> "none", primaries |-> "none"]
                ELSE [eotf |-> eotf,
                      primaries |-> IF widest = 0 THEN "bt2020" ELSE Gamuts[widest]]
      drops == eotf # "none" /\ ~CanSignalHdr(caps)
  IN [colorspace |-> IF widest = 0 THEN "unset" ELSE ColorspaceOf(Gamuts[widest]),
      metadata |-> IF drops THEN [eotf |-> "none", primaries |-> "none"] ELSE wanted,
      downgraded |-> drops]

-----------------------------------------------------------------------------
(* Properties.                                                             *)

\* Staged blobs exist, none is left behind, and none of another user of the
\* descriptor is destroyed for one, though ids come round again after a
\* session; and what the CRTC took of the stages it still has, whatever was
\* destroyed since.
PipelineTrue ==
  /\ pipeBlobs = Staged \cup others /\ Staged \cap others = {}
  /\ \A s, t \in hasStage : s # t /\ staged[s] # NoStaged => staged[s].blob # staged[t].blob
  /\ \A s \in applied : crtcCurves[s] = staged[s]

\* "A blob destroyed before the commit leaves nothing to fall back to if that
\* commit is refused": the blob a connector names, and the one a CRTC is about
\* to name, still exist, whatever was replaced, refused or lost with a session;
\* and every blob that exists is one the cache will destroy.
BlobsOutliveCommits ==
  /\ \A c \in Crtcs : {cached[c].blob, committed[c]} \subseteq kernel \cup {0}
  /\ kernel = outgoing \cup ({cached[c].blob : c \in Crtcs} \ {0})

=============================================================================
