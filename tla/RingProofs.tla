----------------------------- MODULE RingProofs -----------------------------
(***************************************************************************)
(* Facts about ExternalDmaBufRing that hold whoever calls it, for any      *)
(* number of slots, regions and tokens: every call keeps the types, keeps  *)
(* each slot in one place and keeps account of the damage it owes.         *)
(***************************************************************************)
EXTENDS ExternalDmaBufRing, TLAPS

\* Any call of the ring, by whichever thread.
RingCall ==
  \/ \E slot \in Slots, fence \in BOOLEAN, damage \in Seq(Regions) :
        RingSubmit(slot, fence, damage)
  \/ RingAcquires
  \/ RingFails
  \/ RingStarves
  \/ \E tokens \in SUBSET Nat : RingReleases(tokens)
  \/ RingRetired
  \/ RingPaused
  \/ \E ok \in BOOLEAN : RingResumes(ok)

RingTypeOK ==
  /\ pending \in [key : Slots \cup {NoSlot}, fence : BOOLEAN, damage : Seq(Regions)]
  /\ scanningKey \in Slots \cup {NoSlot}
  /\ scanningToken \in Nat /\ nextToken \in Nat
  /\ outstanding \subseteq [token : Nat \ {0}, key : Slots]
  /\ carried \in Seq(Regions) /\ carriedWhole \in BOOLEAN
  /\ stale \subseteq Regions /\ reported \in BOOLEAN /\ overwrote \in BOOLEAN
  /\ imported \in BOOLEAN /\ owned \subseteq Slots

\* The regions the rectangles of a report name.
Rects(damage) == {damage[i] : i \in DOMAIN damage}

\* Whatever changed since the last Fresh frame is in the damage carried from
\* the frames dropped or in that of the frame pending.
DamageKept ==
  ~overwrote =>
    /\ reported
    /\ \/ carriedWhole
       \/ stale \subseteq Rects(carried) \cup (IF HasPending THEN Covered(pending.damage) ELSE {})

RingInv == RingTypeOK /\ SlotsApart /\ DamageKept

-----------------------------------------------------------------------------
(* Types.                                                                  *)

\* The token after any is one that release can tell from the sentinel.
LEMMA SuccessorIsToken ==
  ASSUME NEW t \in Nat PROVE Successor(t) \in Nat \ {0}
<1>1. WrappingAdd(t) \in Nat
  BY PresenterAssumption DEF WrappingAdd
<1>2. QED
  BY <1>1 DEF Successor

\* Two reports put together name the regions of both.
LEMMA RectsOfBoth ==
  ASSUME NEW a \in Seq(Regions), NEW b \in Seq(Regions)
  PROVE  a \o b \in Seq(Regions) /\ Rects(a \o b) = Rects(a) \cup Rects(b)
<1>1. /\ a \o b \in Seq(Regions) /\ Len(a \o b) = Len(a) + Len(b)
      /\ \A i \in 1..Len(a) + Len(b) :
           (a \o b)[i] = IF i <= Len(a) THEN a[i] ELSE b[i - Len(a)]
  OBVIOUS
<1>2. DOMAIN a = 1..Len(a) /\ DOMAIN b = 1..Len(b) /\ DOMAIN (a \o b) = 1..Len(a) + Len(b)
  BY <1>1
<1>3. Rects(a \o b) \subseteq Rects(a) \cup Rects(b)
  <2>1. SUFFICES ASSUME NEW i \in 1..Len(a) + Len(b)
                 PROVE (a \o b)[i] \in Rects(a) \cup Rects(b)
    BY <1>2 DEF Rects
  <2>2. CASE i <= Len(a)
    BY <1>1, <1>2, <2>2 DEF Rects
  <2>3. CASE ~(i <= Len(a))
    <3>1. i - Len(a) \in DOMAIN b
      BY <1>2, <2>3
    <3>2. QED
      BY <1>1, <2>3, <3>1 DEF Rects
  <2>4. QED
    BY <2>2, <2>3
<1>4. Rects(a) \subseteq Rects(a \o b)
  BY <1>1, <1>2 DEF Rects
<1>5. Rects(b) \subseteq Rects(a \o b)
  <2>1. SUFFICES ASSUME NEW i \in 1..Len(b) PROVE b[i] \in Rects(a \o b)
    BY <1>2 DEF Rects
  <2>2. Len(a) + i \in DOMAIN (a \o b) /\ (a \o b)[Len(a) + i] = b[i]
    BY <1>1, <1>2
  <2>3. QED
    BY <2>2 DEF Rects
<1>6. QED
  BY <1>1, <1>3, <1>4, <1>5

\* Every call keeps the types.
LEMMA RingTypeStep == RingTypeOK /\ [RingCall]_ringVars => RingTypeOK'
<1> SUFFICES ASSUME RingTypeOK, [RingCall]_ringVars PROVE RingTypeOK'
  OBVIOUS
<1> USE PresenterAssumption DEF RingTypeOK
<1>1. NoPending \in [key : Slots \cup {NoSlot}, fence : BOOLEAN, damage : Seq(Regions)]
      /\ Whole \in Seq(Regions)
  BY DEF NoPending, Whole
<1>2. ASSUME NEW slot \in Slots, NEW fence \in BOOLEAN, NEW damage \in Seq(Regions),
             RingSubmit(slot, fence, damage)
      PROVE RingTypeOK'
  <2>1. Covered(damage) \subseteq Regions
    BY DEF Covered
  <2>2. stale' \subseteq Regions
    BY <1>2, <2>1 DEF RingSubmit, Submit
  <2>3. pending' \in [key : Slots \cup {NoSlot}, fence : BOOLEAN, damage : Seq(Regions)]
    BY <1>1, <1>2 DEF RingSubmit, Submit
  <2>4. owned' \subseteq Slots
    BY <1>2 DEF RingSubmit, Pending
  <2>5. QED
    BY <1>2, <2>2, <2>3, <2>4 DEF RingSubmit, Submit
<1>3. ASSUME AcquireFresh, UNCHANGED <<imported, owned>> PROVE RingTypeOK'
  <2>1. Successor(nextToken) \in Nat \ {0}
    BY SuccessorIsToken
  <2>2. pending.key \in Slots
    BY <1>3 DEF AcquireFresh, HasPending
  <2>3. [token |-> Successor(nextToken), key |-> pending.key] \in [token : Nat \ {0}, key : Slots]
    BY <2>1, <2>2
  <2>4. QED
    BY <1>1, <1>3, <2>1, <2>2, <2>3 DEF AcquireFresh
<1>4. ASSUME AcquireMissed, owned' = owned \cup Pending, UNCHANGED imported PROVE RingTypeOK'
  <2>1. carried' \in Seq(Regions) /\ carriedWhole' \in BOOLEAN
    <3>1. carried \o pending.damage \in Seq(Regions)
      OBVIOUS
    <3>2. \/ carried' = Whole /\ carriedWhole' = TRUE
          \/ carried' = carried \o pending.damage /\ carriedWhole' = carriedWhole
      BY <1>4 DEF AcquireMissed, Carry
    <3>3. QED
      BY <1>1, <3>1, <3>2
  <2>2. owned' \subseteq Slots
    BY <1>4 DEF Pending
  <2>3. QED
    BY <1>1, <1>4, <2>1, <2>2 DEF AcquireMissed
<1>5. ASSUME AcquireIdle, UNCHANGED <<imported, owned>> PROVE RingTypeOK'
  BY <1>5 DEF AcquireIdle, presenterVars
<1>6. ASSUME NEW tokens \in SUBSET Nat, RingReleases(tokens) PROVE RingTypeOK'
  BY <1>6 DEF RingReleases, Release, Fired
<1>7. ASSUME RingRetired \/ \E ok \in BOOLEAN : RingResumes(ok) PROVE RingTypeOK'
  BY <1>7 DEF RingRetired, RetireScanning, RingResumes, presenterVars
<1>8. ASSUME RingPaused PROVE RingTypeOK'
  BY <1>1, <1>8 DEF RingPaused, Reset, ForgetsPending, ForgetsOutstanding
<1>9. ASSUME UNCHANGED ringVars PROVE RingTypeOK'
  BY <1>9 DEF ringVars, presenterVars
<1>10. QED
  BY <1>2, <1>3, <1>4, <1>5, <1>6, <1>7, <1>8, <1>9 DEF RingCall, RingAcquires, RingFails, RingStarves

-----------------------------------------------------------------------------
(* Slots.                                                                  *)

\* A slot stays in one place.
LEMMA SlotsApartStep == RingTypeOK /\ SlotsApart /\ [RingCall]_ringVars => SlotsApart'
<1> SUFFICES ASSUME RingTypeOK, SlotsApart, [RingCall]_ringVars PROVE SlotsApart'
  OBVIOUS
<1> USE PresenterAssumption DEF RingTypeOK, SlotsApart
<1>1. NoPending.key = NoSlot
  BY DEF NoPending
<1>2. ASSUME NEW slot \in Slots, NEW fence \in BOOLEAN, NEW damage \in Seq(Regions),
             RingSubmit(slot, fence, damage)
      PROVE SlotsApart'
  <2>1. /\ slot \in owned /\ pending'.key = slot
        /\ owned' = (owned \ {slot}) \cup ({pending.key} \ {NoSlot})
        /\ outstanding' = outstanding
    BY <1>2 DEF RingSubmit, Submit, Pending
  <2>2. QED
    BY <2>1
<1>3. ASSUME AcquireFresh, UNCHANGED <<imported, owned>> PROVE SlotsApart'
  <2> DEFINE new == [token |-> Successor(nextToken), key |-> pending.key]
  <2>1. /\ pending'.key = NoSlot /\ pending.key \in Slots
        /\ outstanding' = outstanding \cup {new} /\ owned' = owned
    BY <1>1, <1>3 DEF AcquireFresh, HasPending
  <2>2. new.key = pending.key
    OBVIOUS
  <2>3. QED
    BY <2>1, <2>2
<1>4. ASSUME AcquireMissed, owned' = owned \cup Pending, UNCHANGED imported PROVE SlotsApart'
  BY <1>1, <1>4 DEF AcquireMissed, Pending
<1>5. ASSUME AcquireIdle, UNCHANGED <<imported, owned>> PROVE SlotsApart'
  BY <1>5 DEF AcquireIdle, presenterVars
<1>6. ASSUME NEW tokens \in SUBSET Nat, RingReleases(tokens) PROVE SlotsApart'
  BY <1>6 DEF RingReleases, Release, Fired
<1>7. ASSUME RingRetired \/ \E ok \in BOOLEAN : RingResumes(ok) PROVE SlotsApart'
  BY <1>7 DEF RingRetired, RetireScanning, RingResumes, presenterVars
<1>8. ASSUME RingPaused PROVE SlotsApart'
  BY <1>1, <1>8 DEF RingPaused, Reset, ForgetsPending, ForgetsOutstanding
<1>9. ASSUME UNCHANGED ringVars PROVE SlotsApart'
  BY <1>9 DEF ringVars, presenterVars
<1>10. QED
  BY <1>2, <1>3, <1>4, <1>5, <1>6, <1>7, <1>8, <1>9
     DEF RingCall, RingAcquires, RingFails, RingStarves

-----------------------------------------------------------------------------
(* Damage.                                                                 *)

\* No change is forgotten between two Fresh frames.
LEMMA DamageKeptStep == RingTypeOK /\ DamageKept /\ [RingCall]_ringVars => DamageKept'
<1> SUFFICES ASSUME RingTypeOK, DamageKept, [RingCall]_ringVars PROVE DamageKept'
  OBVIOUS
<1> USE PresenterAssumption DEF RingTypeOK, DamageKept
<1>1. /\ NoPending.key = NoSlot
      /\ \A damage \in Seq(Regions) : Rects(damage) \subseteq Regions
      /\ \A damage : damage # Whole => Covered(damage) = Rects(damage)
      /\ Covered(Whole) = Regions
  BY DEF NoPending, Rects, Covered
<1>a. ASSUME UNCHANGED <<pending, carried, carriedWhole, stale, reported, overwrote>>
      PROVE DamageKept'
  BY <1>a DEF HasPending
<1>2. ASSUME NEW slot \in Slots, NEW fence \in BOOLEAN, NEW damage \in Seq(Regions),
             RingSubmit(slot, fence, damage)
      PROVE DamageKept'
  <2>1. SUFFICES ASSUME ~overwrote' PROVE DamageKept'
    OBVIOUS
  <2>2. ~HasPending /\ ~overwrote /\ HasPending'
    BY <1>2, <2>1 DEF RingSubmit, Submit, HasPending
  <2>3. /\ UNCHANGED <<carried, carriedWhole, reported>>
        /\ stale' = stale \cup Covered(damage)
        /\ pending'.damage \in {damage, Whole}
    BY <1>2 DEF RingSubmit, Submit
  <2>4. Covered(damage) \subseteq Covered(pending.damage)'
    <3>1. Covered(damage) \subseteq Regions
      BY <1>1
    <3>2. Covered(pending.damage)' = Covered(pending'.damage)
      BY DEF Covered
    <3>3. QED
      BY <1>1, <2>3, <3>1, <3>2
  <2>5. QED
    BY <2>2, <2>3, <2>4 DEF HasPending, Rects
<1>3. ASSUME AcquireFresh PROVE DamageKept'
  <2>1. /\ ~HasPending' /\ stale' = {} /\ HasPending
        /\ reported' = (stale \subseteq Covered(Owed(pending.damage)))
        /\ overwrote' = overwrote
    BY <1>1, <1>3 DEF AcquireFresh, HasPending
  <2>2. ASSUME ~overwrote PROVE stale \subseteq Covered(Owed(pending.damage))
    <3>1. CASE Owed(pending.damage) = Whole
      BY <1>1, <3>1
    <3>2. CASE Owed(pending.damage) # Whole
      <4>1. /\ ~carriedWhole /\ pending.damage # Whole
            /\ Owed(pending.damage) = carried \o pending.damage
        BY <3>2 DEF Owed
      <4>2. stale \subseteq Rects(carried) \cup Rects(pending.damage)
        BY <1>1, <2>1, <2>2, <4>1
      <4>3. QED
        BY <1>1, <3>2, <4>1, <4>2, RectsOfBoth
    <3>3. QED
      BY <3>1, <3>2
  <2>3. QED
    BY <2>1, <2>2
<1>4. ASSUME AcquireMissed PROVE DamageKept'
  <2>1. /\ ~HasPending' /\ HasPending
        /\ UNCHANGED <<stale, reported, overwrote>>
    BY <1>1, <1>4 DEF AcquireMissed, HasPending
  <2>2. CASE pending.damage = Whole \/ Len(carried) + Len(pending.damage) > MaxDamage
    BY <1>4, <2>1, <2>2 DEF AcquireMissed, Carry
  <2>3. CASE ~(pending.damage = Whole \/ Len(carried) + Len(pending.damage) > MaxDamage)
    <3>1. carried' = carried \o pending.damage /\ carriedWhole' = carriedWhole
      BY <1>4, <2>3 DEF AcquireMissed, Carry
    <3>2. Rects(carried)' = Rects(carried) \cup Covered(pending.damage)
      <4>1. Rects(carried)' = Rects(carried \o pending.damage)
        BY <3>1 DEF Rects
      <4>2. QED
        BY <1>1, <2>3, <4>1, RectsOfBoth
    <3>3. QED
      BY <2>1, <3>1, <3>2
  <2>4. QED
    BY <2>2, <2>3
<1>5. ASSUME AcquireIdle PROVE DamageKept'
  BY <1>a, <1>5 DEF AcquireIdle, presenterVars
<1>6. ASSUME NEW tokens \in SUBSET Nat, RingReleases(tokens) PROVE DamageKept'
  BY <1>a, <1>6 DEF RingReleases, Release
<1>7. ASSUME RingRetired \/ \E ok \in BOOLEAN : RingResumes(ok) PROVE DamageKept'
  BY <1>a, <1>7 DEF RingRetired, RetireScanning, RingResumes, presenterVars
<1>8. ASSUME RingPaused PROVE DamageKept'
  BY <1>8 DEF RingPaused, Reset
<1>9. ASSUME UNCHANGED ringVars PROVE DamageKept'
  BY <1>a, <1>9 DEF ringVars, presenterVars
<1>10. QED
  BY <1>2, <1>3, <1>4, <1>5, <1>6, <1>7, <1>8, <1>9
     DEF RingCall, RingAcquires, RingFails, RingStarves

\* The ring starts in order, and every call keeps it so.
LEMMA RingInvInit == RingInit => RingInv
<1> SUFFICES ASSUME RingInit PROVE RingInv
  OBVIOUS
<1> USE PresenterAssumption DEF RingInit, PresenterInit
<1>1. NoPending \in [key : Slots \cup {NoSlot}, fence : BOOLEAN, damage : Seq(Regions)]
      /\ NoPending.key = NoSlot /\ Whole \in Seq(Regions)
  BY DEF NoPending, Whole
<1>2. RingTypeOK
  BY <1>1 DEF RingTypeOK
<1>3. SlotsApart /\ DamageKept
  BY <1>1 DEF SlotsApart, DamageKept
<1>4. QED
  BY <1>2, <1>3 DEF RingInv

\* Every call of the ring keeps its invariant.
LEMMA RingInvStep == RingInv /\ [RingCall]_ringVars => RingInv'
  BY RingTypeStep, SlotsApartStep, DamageKeptStep DEF RingInv

=============================================================================
