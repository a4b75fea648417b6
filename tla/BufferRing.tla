----------------------------- MODULE BufferRing -----------------------------
(***************************************************************************)
(* drmkit-present's scanout slot pool and the damage history that tells a  *)
(* producer what a reused slot must repaint.  The ring knows slots and     *)
(* present sequences; the buffers are the producer's.                      *)
(*                                                                         *)
(* A rectangle is a cell of the buffer, one frame's damage a set of cells. *)
(***************************************************************************)
EXTENDS Integers, Sequences, FiniteSets, FiniteSetsExt

CONSTANTS
  Cells,           \* the cells of a buffer
  MaxSlots,        \* how deep the ring grows
  MaxDamageRects   \* how many rectangles a union may hold

ASSUME RingAssumption == MaxSlots \in Nat \ {0} /\ MaxDamageRects \in Nat

VARIABLES
  slots,       \* the slots grown so far: records [state, lastPresent]
  damage,      \* per-frame damage, oldest first
  presentSeq,  \* the last present
  baseSeq      \* the sequence just before the oldest damage kept

bufferRingVars == <<slots, damage, presentSeq, baseSeq>>

Full == [full |-> TRUE, region |-> Cells]

\* What is only pending counts as free.
NotInUse == {i \in DOMAIN slots : slots[i].state \in {"Free", "PendingRelease"}}

FreeSlots == {i \in DOMAIN slots : slots[i].state = "Free"}

\* max_by_key: the last of those presented last.
Freshest ==
  CHOOSE i \in FreeSlots : \A j \in FreeSlots :
    \/ slots[j].lastPresent < slots[i].lastPresent
    \/ slots[j].lastPresent = slots[i].lastPresent /\ j <= i

CanLease   == FreeSlots # {} \/ Len(slots) < MaxSlots
LeasedSlot == IF FreeSlots # {} THEN Freshest ELSE Len(slots) + 1

\* A frame's damage, the first missed one off.
RepaintShort(last) ==
  IF last = 0 \/ last < baseSeq THEN Full
  ELSE LET missed == SubSeq(damage, last - baseSeq + 2, Len(damage))
       IN [full |-> FALSE, region |-> UNION {missed[i] : i \in DOMAIN missed}]

\* How many rectangles these frames had together.
RectsIn(frames) == MapThenSumSet(LAMBDA i : Cardinality(frames[i]), DOMAIN frames)

\* What changed since a slot was presented, in as many rectangles as the
\* frames had, or the whole buffer.
RepaintFor(last) ==
  LET missed == SubSeq(damage, last - baseSeq + 1, Len(damage))
  IN IF last = 0 \/ last < baseSeq \/ RectsIn(missed) > MaxDamageRects THEN Full
     ELSE [full |-> FALSE, region |-> UNION {missed[i] : i \in DOMAIN missed}]

LeaseRepaint ==
  IF FreeSlots # {} THEN RepaintFor(slots[Freshest].lastPresent) ELSE Full

\* acquire: the slots with the leased one in flight.
SlotsLeased ==
  IF FreeSlots # {} THEN [slots EXCEPT ![Freshest].state = "InFlight"]
  ELSE Append(slots, [state |-> "InFlight", lastPresent |-> 0])

\* The slot on screen until now stays marked so.
PresentKeepsScanning(leased, slot, frameDamage) ==
  LET kept == Append(damage, frameDamage)
      past == Max({Len(kept) - MaxSlots, 0})
  IN /\ presentSeq' = presentSeq + 1
     /\ damage' = SubSeq(kept, past + 1, Len(kept))
     /\ baseSeq' = baseSeq + past
     /\ slots' = [leased EXCEPT ![slot] =
                    [state |-> "Scanning", lastPresent |-> presentSeq + 1]]

\* present: what scanned out may still be read, the slot scans out, and as
\* much damage is kept as the deepest reusable slot could need.
PresentSlot(leased, slot, frameDamage) ==
  LET kept == Append(damage, frameDamage)
      past == Max({Len(kept) - MaxSlots, 0})
  IN /\ presentSeq' = presentSeq + 1
     /\ damage' = SubSeq(kept, past + 1, Len(kept))
     /\ baseSeq' = baseSeq + past
     /\ slots' = [i \in DOMAIN leased |->
                    IF i = slot THEN [state |-> "Scanning", lastPresent |-> presentSeq + 1]
                    ELSE IF leased[i].state = "Scanning"
                      THEN [leased[i] EXCEPT !.state = "PendingRelease"]
                    ELSE leased[i]]

\* release of each slot returned: what scans out is not released.
ReleaseSlots(returned) ==
  /\ slots' = [i \in DOMAIN slots |->
                 IF i \in returned /\ slots[i].state # "Scanning"
                   THEN [slots[i] EXCEPT !.state = "Free"] ELSE slots[i]]
  /\ UNCHANGED <<damage, presentSeq, baseSeq>>

NewRing == slots' = <<>> /\ damage' = <<>> /\ presentSeq' = 0 /\ baseSeq' = 0

BufferRingInit == slots = <<>> /\ damage = <<>> /\ presentSeq = 0 /\ baseSeq = 0

=============================================================================
