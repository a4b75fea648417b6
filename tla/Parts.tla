------------------------------- MODULE Parts --------------------------------
(***************************************************************************)
(* Parts of a compositor's process that share no state: a producer's ring, *)
(* the cursor, the keyboards, the HDR metadata cache, the scene set, the   *)
(* canvas, the buffers on the DRM file, a surface beside them, the planes' *)
(* sticky properties and their frames' contents, the decorations, a        *)
(* capture, an output's colour and the search for a display.  Interleaving *)
(* them would add nothing, so in each behaviour one of them moves.         *)
(***************************************************************************)
EXTENDS RingClient, Cursor, Keys, SceneSet, Canvas,
        GbmSurface, StickyPlanes, WindowAnim, Decorations, Capture, DisplayColor, Discovery,
        FrameContents

VARIABLE part

PartNames == {"ring", "cursor", "keys", "hdr", "scenes", "canvas", "buffers", "surface",
              "sticky", "anim", "overlays", "desk", "capture", "color", "discovery",
              "contents"}

partsVars == <<part, clientVars, cursorVars, keysVars, hdrVars, sceneSetVars, canvasVars,
               gemVars, surfaceVars, stickyVars, animVars, overlayVars, deskVars,
               captureVars, colorVars, discoveryVars, contentsVars>>

\* One part moves: the others stay as they are.
Alone(p) ==
  /\ UNCHANGED part
  /\ p # "ring"    => UNCHANGED clientVars
  /\ p # "cursor"  => UNCHANGED cursorVars
  /\ p # "keys"    => UNCHANGED keysVars
  /\ p # "hdr"     => UNCHANGED hdrVars
  /\ p # "scenes"  => UNCHANGED sceneSetVars
  /\ p # "canvas"  => UNCHANGED canvasVars
  /\ p \notin {"buffers", "surface"} => UNCHANGED gemVars
  /\ p # "surface" => UNCHANGED surfaceVars
  /\ p # "sticky"  => UNCHANGED stickyVars
  /\ p # "anim"    => UNCHANGED animVars
  /\ p # "overlays" => UNCHANGED overlayVars
  /\ p # "desk"    => UNCHANGED deskVars
  /\ p # "capture" => UNCHANGED captureVars
  /\ p # "color"   => UNCHANGED colorVars
  /\ p # "discovery" => UNCHANGED discoveryVars
  /\ p # "contents" => UNCHANGED contentsVars

PartsInit ==
  /\ part \in PartNames
  /\ ClientInit /\ CursorInit /\ KeysInit /\ HdrInit /\ SceneSetInit
  /\ CanvasInit /\ GemInit /\ SurfaceInit /\ StickyInit
  /\ AnimInit /\ OverlayInit /\ DeskInit
  /\ CaptureInit /\ ColorInit /\ DiscoveryInit /\ ContentsInit
  /\ part # "cursor" => pathKind = "legacy" /\ ~uploads
  /\ part # "sticky" => \A p \in StickyPlaneIds : stuck[p].encoding = "bt601"
  /\ part # "anim"   => ~aims.focus
  /\ part # "color"  => hasStage = {} /\ lutSize = 0

PartsNext ==
  \/ part = "ring"    /\ ClientNext   /\ Alone("ring")
  \/ part = "cursor"  /\ CursorNext   /\ Alone("cursor")
  \/ part = "keys"    /\ KeysNext     /\ Alone("keys")
  \/ part = "hdr"     /\ HdrNext      /\ Alone("hdr")
  \/ part = "scenes"  /\ SceneSetNext /\ Alone("scenes")
  \/ part = "canvas"  /\ CanvasNext   /\ Alone("canvas")
  \/ part = "buffers" /\ GemNext      /\ Alone("buffers")
  \/ part = "surface" /\ SurfaceNext  /\ Alone("surface")
  \/ part = "sticky"  /\ StickyNext   /\ Alone("sticky")
  \/ part = "anim"    /\ AnimNext     /\ Alone("anim")
  \/ part = "overlays" /\ OverlayNext /\ Alone("overlays")
  \/ part = "desk"    /\ DeskNext     /\ Alone("desk")
  \/ part = "capture" /\ CaptureNext /\ Alone("capture")
  \/ part = "color"   /\ ColorNext   /\ Alone("color")
  \/ part = "discovery" /\ DiscoveryNext /\ Alone("discovery")
  \/ part = "contents" /\ ContentsNext /\ Alone("contents")

PartsSpec == PartsInit /\ [][PartsNext]_partsVars

-----------------------------------------------------------------------------
(* Properties of parts that go together.                                   *)

\* What an output put on the planes reserved for its decorations stays on them
\* until its turn, whatever the others reserve, give back or show; the desk is
\* painted whole, and an animation reaches what it was last aimed at.
DecorationsStand == PlanesStand /\ DeskWhole /\ AnimationsArrive

\* The kernel's tables hold what the live buffers own, and a buffer on screen
\* or on its way there stays locked.
BuffersStand == TablesAgree /\ HeldStaysLocked

\* The blobs that a connector or a CRTC was given outlive the commits that name
\* them, and nobody destroys another's though their numbers come round again.
BlobsStand == BlobsOutliveCommits /\ PipelineTrue

\* A frame gives its planes the colours and the opacity that were asked for, and
\* its layers' contents where they changed and not before they are finished.
FramesAsAsked == StickyAsAsked /\ ContentsTrue

=============================================================================
