------------------------------ MODULE DumbRing ------------------------------
(***************************************************************************)
(* DumbRingSource: a BufferRing over CPU-mapped dumb buffers, allocated as *)
(* the ring grows, and the frame painted last, which waits for the scene   *)
(* to acquire it.                                                          *)
(***************************************************************************)
EXTENDS BufferRing

VARIABLES
  allocated,  \* slots that have a buffer
  painted,    \* pending: the slot painted and not yet acquired, 0 for none
  outdated    \* history: by slot, the cells that do not show the newest image

dumbRingVars == <<bufferRingVars, allocated, painted, outdated>>

\* The image changes in some cells, the producer paints cells of the leased
\* slot and reports the damage.
Paint(changed, paints, reported) ==
  LET slot == LeasedSlot
  IN /\ CanLease
     /\ PresentSlot(SlotsLeased, slot, reported)
     /\ allocated' = allocated \cup {slot}
     /\ painted' = slot
     /\ outdated' = [i \in 1..MaxSlots |->
                       IF i = slot
                         THEN (IF i \in allocated THEN outdated[i] ELSE Cells) \ paints
                         ELSE outdated[i] \cup changed]

\* A producer that repaints what it is told to and what it changed, and
\* reports that, or the change alone.
PaintIncrementally(changed, reported) ==
  LET paints == LeaseRepaint.region \cup changed
  IN reported \in {changed, paints} /\ Paint(changed, paints, reported)

\* The leased slot's buffer could not be allocated: the slot stays in flight.
PaintFails ==
  /\ CanLease /\ LeasedSlot \notin allocated
  /\ slots' = SlotsLeased
  /\ UNCHANGED <<damage, presentSeq, baseSeq, allocated, painted, outdated>>

\* acquire: the pending frame, once.
AcquirePainted ==
  /\ painted # 0 /\ painted' = 0
  /\ UNCHANGED <<bufferRingVars, allocated, outdated>>

ReleasePainted(returned) ==
  ReleaseSlots(returned) /\ UNCHANGED <<allocated, painted, outdated>>

\* on_session_paused: the buffers go, and the history with them.
DumbRingPaused ==
  /\ allocated' = {} /\ painted' = 0
  /\ NewRing
  /\ UNCHANGED outdated

DumbRingInit ==
  /\ BufferRingInit
  /\ allocated = {} /\ painted = 0
  /\ outdated = [i \in 1..MaxSlots |-> Cells]

-----------------------------------------------------------------------------
(* Properties.                                                             *)

\* "A buffer two frames old needs everything that changed in those two frames
\* repainted": a producer that paints the region it is told to and its own
\* change has the slot presented last whole, whatever the slot missed, however
\* the history was cut, and after a pause that dropped the buffers.
RepaintCovers ==
  \A i \in DOMAIN slots :
    presentSeq > 0 /\ slots[i].lastPresent = presentSeq => outdated[i] = {}

=============================================================================
