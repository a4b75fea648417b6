---------------------------- MODULE PresentPaths ----------------------------
(***************************************************************************)
(* The ring of CPU-painted buffers on its own, or one of the two ways to   *)
(* the screen over one LayerScene: one of the three, chosen at creation.   *)
(***************************************************************************)
EXTENDS DumbSink, ScanoutBackend

VARIABLES
  path,   \* "ring", "sink" or "backend"
  lent    \* the ring's slots that are out with some scene

presentVars == <<path, lent, vars, pathVars, sinkVars, backendVars>>

LayerOf(p) == IF p = "sink" THEN SinkLayer ELSE BackendLayer

\* create adds the one layer.
Creates ==
  /\ AddLayer(LayerOf(path))
  /\ UNCHANGED <<lent, pathVars, sinkVars, backendVars>>

(* The ring on its own: a source whose frames some scene takes and returns. *)

RingPaints ==
  /\ presentSeq < MaxFrames
  /\ \E changed, reported \in SUBSET Cells : PaintIncrementally(changed, reported)
  /\ UNCHANGED lent

RingIsAcquired == AcquirePainted /\ lent' = lent \cup {painted}

RingIsReturned ==
  \E slot \in lent : ReleasePainted({slot}) /\ lent' = lent \ {slot}

\* Everything is drained before a source hears of the pause.
RingIsPaused == DumbRingPaused /\ lent' = {}

RingNext ==
  \/ RingPaints
  \/ PaintFails /\ UNCHANGED lent
  \/ RingIsAcquired
  \/ RingIsReturned
  \/ RingIsPaused

PresentInit ==
  /\ path \in {"ring", "sink", "backend"}
  /\ PathInit /\ DumbRingInit
  /\ carries = [n \in 1..MaxFrames |-> 0]
  /\ lent = {}
  /\ economy = NewEconomy
  /\ vrrWanted = (path = "backend") /\ vrrArmed = FALSE /\ crtcVrr = FALSE
  /\ savedMode = crtcMode /\ forced = FALSE /\ skipped = FALSE

PresentNext ==
  /\ path' = path
  /\ \/ path # "ring" /\ Creates
     \/ path = "ring" /\ RingNext /\ UNCHANGED <<vars, pathVars, carries, backendVars>>
     \/ path = "sink" /\ SinkNext /\ UNCHANGED <<lent, backendVars>>
     \/ path = "backend" /\ BackendNext /\ UNCHANGED <<lent, sinkVars>>

PresentSpec == PresentInit /\ [][PresentNext]_presentVars

=============================================================================
