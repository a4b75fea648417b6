---------------------------- MODULE PresentProofs ----------------------------
(***************************************************************************)
(* What drmkit-present's ring of painted buffers and its two ways to the   *)
(* screen promise, for any number of cells, slots, frames and failures.    *)
(***************************************************************************)
EXTENDS PresentPaths, LayerSceneProofs, InductionFacts, FiniteSetTheorems

-----------------------------------------------------------------------------
(* The ring.                                                               *)

SlotType == [state : {"Free", "InFlight", "Scanning", "PendingRelease"}, lastPresent : Nat]

RingTypes ==
  /\ slots \in Seq(SlotType) /\ Len(slots) <= MaxSlots
  /\ damage \in Seq(SUBSET Cells)
  /\ presentSeq \in Nat /\ baseSeq \in Nat
  /\ presentSeq = baseSeq + Len(damage)
  /\ allocated \subseteq 1..MaxSlots
  /\ painted \in Nat
  /\ outdated \in [1..MaxSlots -> SUBSET Cells]

\* What the frames presented after the one numbered seq reported.
ChangedIn(frames, base, seq) == UNION {frames[j] : j \in seq - base + 1 .. Len(frames)}
ChangedSince(seq) == ChangedIn(damage, baseSeq, seq)

\* A slot shows what it was presented with: what changed since, as long as the
\* history goes back that far, has been reported since.
Missed ==
  \A i \in DOMAIN slots :
    /\ slots[i].lastPresent <= presentSeq
    /\ slots[i].lastPresent > 0 => i \in allocated
    /\ slots[i].lastPresent > 0 /\ slots[i].lastPresent >= baseSeq
         => outdated[i] \subseteq ChangedSince(slots[i].lastPresent)

RingInv == RingTypes /\ Missed

\* The history is cut by what is beyond the depth of the ring.
LEMMA PastIs ==
  ASSUME NEW n \in Nat
  PROVE  LET past == Max({n - MaxSlots, 0}) IN past \in 0..n
<1> DEFINE S == {n - MaxSlots, 0}
<1>1. MaxSlots \in Nat
  BY RingAssumption
<1>2. \E x \in S : \A y \in S : x >= y
  BY <1>1
<1>3. Max(S) \in S /\ \A y \in S : Max(S) >= y
  BY <1>2 DEF Max
<1>4. QED
  BY <1>1, <1>3

\* The free slot presented last is one of the free slots.
LEMMA FreshestIsFree ==
  ASSUME RingTypes, FreeSlots # {}, \A i \in DOMAIN slots : slots[i].lastPresent <= presentSeq
  PROVE  Freshest \in FreeSlots
<1>1. /\ FreeSlots \subseteq 1..Len(slots) /\ Len(slots) \in Nat /\ presentSeq \in Nat
      /\ \A i \in FreeSlots : slots[i].lastPresent \in 0..presentSeq
  <2>1. \A S : \A s \in Seq(S) : Len(s) \in Nat /\ DOMAIN s = 1..Len(s)
                                 /\ \A k \in DOMAIN s : s[k] \in S
    OBVIOUS
  <2>2. \A i \in DOMAIN slots : slots[i] \in SlotType
    <3> HIDE DEF SlotType
    <3>1. QED
      BY <2>1 DEF RingTypes
  <2>3. \A i \in DOMAIN slots : slots[i].lastPresent \in Nat
    BY <2>2 DEF SlotType
  <2>4. Len(slots) \in Nat /\ DOMAIN slots = 1..Len(slots)
    <3> HIDE DEF SlotType
    <3>1. QED
      BY <2>1 DEF RingTypes
  <2>5. QED
    BY <2>3, <2>4 DEF FreeSlots, RingTypes
<1> DEFINE age(i) == presentSeq - slots[i].lastPresent
           ages == {age(i) : i \in FreeSlots}
<1>2. PICK a \in ages : \A b \in ages : a <= b
  <2>0. \A i \in FreeSlots : age(i) \in Nat
    BY <1>1
  <2>1. ages \in SUBSET Nat /\ ages # {}
    <3> HIDE DEF age
    <3>1. QED
      BY <2>0
  <2> HIDE DEF ages
  <2>2. QED
    BY <2>1, LeastExists
<1> DEFINE youngest == {i \in FreeSlots : age(i) = a}
           places == {Len(slots) - i : i \in youngest}
<1>3. PICK p \in places : \A q \in places : p <= q
  <2>0. (\A i \in youngest : i \in 1..Len(slots)) /\ youngest # {}
    BY <1>1, <1>2
  <2>1. places \in SUBSET Nat /\ places # {}
    <3> HIDE DEF youngest, age
    <3>1. Len(slots) \in Nat
      BY <1>1
    <3>2. QED
      BY <2>0, <3>1
  <2> HIDE DEF places
  <2>2. QED
    BY <2>1, LeastExists
<1>4. PICK i \in youngest : p = Len(slots) - i
  BY <1>3
<1>5. \A j \in FreeSlots : \/ slots[j].lastPresent < slots[i].lastPresent
                           \/ slots[j].lastPresent = slots[i].lastPresent /\ j <= i
  <2>1. SUFFICES ASSUME NEW j \in FreeSlots
        PROVE  \/ slots[j].lastPresent < slots[i].lastPresent
               \/ slots[j].lastPresent = slots[i].lastPresent /\ j <= i
    OBVIOUS
  <2>2. /\ i \in FreeSlots /\ age(i) = a
        /\ i \in 1..Len(slots) /\ j \in 1..Len(slots)
        /\ slots[i].lastPresent \in 0..presentSeq /\ slots[j].lastPresent \in 0..presentSeq
    BY <1>1, <1>4, <2>1
  <2>3. age(i) <= age(j)
    BY <1>2, <2>1, <2>2
  <2>4. CASE age(i) < age(j)
    BY <1>1, <2>2, <2>4
  <2>5. CASE age(i) = age(j)
    <3>1. j \in youngest
      BY <2>1, <2>2, <2>5
    <3>2. p <= Len(slots) - j
      BY <1>3, <3>1
    <3>3. QED
      BY <1>1, <1>4, <2>2, <2>5, <3>2
  <2>6. QED
    BY <1>1, <2>2, <2>3, <2>4, <2>5
<1>6. i \in FreeSlots
  BY <1>4
<1>7. QED
  BY <1>5, <1>6 DEF Freshest

\* The slot leased, and the slots with it in flight.
LEMMA Leases ==
  ASSUME RingInv, CanLease
  PROVE  /\ LeasedSlot \in 1..MaxSlots
         /\ SlotsLeased \in Seq(SlotType) /\ Len(SlotsLeased) <= MaxSlots
         /\ DOMAIN SlotsLeased = DOMAIN slots \cup {LeasedSlot}
         /\ \A i \in DOMAIN slots \ {LeasedSlot} : SlotsLeased[i] = slots[i]
         /\ SlotsLeased[LeasedSlot].state = "InFlight"
         /\ LeasedSlot \in DOMAIN slots =>
              /\ LeasedSlot \in FreeSlots /\ LeasedSlot = Freshest
              /\ SlotsLeased[LeasedSlot].lastPresent = slots[LeasedSlot].lastPresent
         /\ LeasedSlot \notin DOMAIN slots =>
              FreeSlots = {} /\ SlotsLeased[LeasedSlot].lastPresent = 0
<1>1. /\ slots \in Seq(SlotType) /\ Len(slots) \in Nat /\ Len(slots) <= MaxSlots
      /\ DOMAIN slots = 1..Len(slots) /\ MaxSlots \in Nat
  <2> HIDE DEF SlotType
  <2>1. QED
    BY RingAssumption DEF RingInv, RingTypes
<1>2. CASE FreeSlots # {}
  <2>1. Freshest \in FreeSlots
    BY <1>2, FreshestIsFree DEF RingInv, Missed
  <2>2. Freshest \in DOMAIN slots /\ LeasedSlot = Freshest
    BY <1>2, <2>1 DEF FreeSlots, LeasedSlot
  <2>3. SlotsLeased = [slots EXCEPT ![Freshest].state = "InFlight"]
    BY <1>2 DEF SlotsLeased
  <2>4. slots[Freshest] \in SlotType
    <3>1. \A S : \A s \in Seq(S) : \A k \in DOMAIN s : s[k] \in S
      OBVIOUS
    <3> HIDE DEF SlotType
    <3>2. QED
      BY <1>1, <2>2, <3>1
  <2> DEFINE taken == [slots[Freshest] EXCEPT !.state = "InFlight"]
  <2>5. /\ taken \in SlotType /\ taken.state = "InFlight"
        /\ taken.lastPresent = slots[Freshest].lastPresent
    BY <2>4 DEF SlotType
  <2> HIDE DEF taken
  <2>6. SlotsLeased = [slots EXCEPT ![Freshest] = taken]
    BY <2>2, <2>3 DEF taken
  <2>7. /\ SlotsLeased \in Seq(SlotType) /\ Len(SlotsLeased) = Len(slots)
        /\ DOMAIN SlotsLeased = DOMAIN slots
        /\ SlotsLeased[Freshest] = taken
        /\ \A i \in DOMAIN slots \ {Freshest} : SlotsLeased[i] = slots[i]
    <3> HIDE DEF SlotType
    <3>1. QED
      BY <1>1, <2>2, <2>5, <2>6
  <2>8. QED
    BY <1>1, <2>1, <2>2, <2>5, <2>7
<1>3. CASE FreeSlots = {}
  <2> DEFINE grown == [state |-> "InFlight", lastPresent |-> 0]
  <2>1. /\ LeasedSlot = Len(slots) + 1 /\ SlotsLeased = Append(slots, grown)
        /\ Len(slots) < MaxSlots
    BY <1>3 DEF LeasedSlot, SlotsLeased, CanLease
  <2>2. grown \in SlotType
    BY DEF SlotType
  <2>3. /\ SlotsLeased \in Seq(SlotType) /\ Len(SlotsLeased) = Len(slots) + 1
        /\ DOMAIN SlotsLeased = 1..Len(slots) + 1
        /\ SlotsLeased[Len(slots) + 1] = grown
        /\ \A i \in DOMAIN slots : SlotsLeased[i] = slots[i]
    <3> HIDE DEF SlotType, grown
    <3>1. QED
      BY <1>1, <2>1, <2>2
  <2>4. QED
    BY <1>1, <1>3, <2>1, <2>3
<1>4. QED
  BY <1>2, <1>3

\* What a producer is told to repaint is all that changed since the slot was
\* presented, or everything.
LEMMA RepaintIs ==
  ASSUME RingTypes, NEW last \in Nat, last <= presentSeq
  PROVE  \/ RepaintFor(last).region = Cells
         \/ last > 0 /\ last >= baseSeq /\ RepaintFor(last).region = ChangedSince(last)
<1> DEFINE from == last - baseSeq + 1
           missed == SubSeq(damage, from, Len(damage))
<1>1. damage \in Seq(SUBSET Cells) /\ Len(damage) \in Nat /\ baseSeq \in Nat
  BY DEF RingTypes
<1>2. CASE last = 0 \/ last < baseSeq \/ RectsIn(missed) > MaxDamageRects
  BY <1>2 DEF RepaintFor, Full
<1>3. CASE ~(last = 0 \/ last < baseSeq \/ RectsIn(missed) > MaxDamageRects)
  <2>1. RepaintFor(last).region = UNION {missed[i] : i \in DOMAIN missed}
    BY <1>3 DEF RepaintFor
  <2>2. last > 0 /\ last >= baseSeq /\ from \in Nat \ {0}
    BY <1>1, <1>3
  <2>3. UNION {missed[i] : i \in DOMAIN missed} = UNION {damage[j] : j \in from..Len(damage)}
    <3>1. /\ DOMAIN missed = 1..Len(damage) - from + 1
          /\ \A i \in DOMAIN missed : missed[i] = damage[from + i - 1]
      <4>1. from <= Len(damage) + 1
        BY <1>1 DEF RingTypes
      <4> HIDE DEF from
      <4>2. QED
        BY <1>1, <2>2, <4>1
    <3>2. \A i \in DOMAIN missed : from + i - 1 \in from..Len(damage)
      BY <1>1, <2>2, <3>1
    <3>3. \A j \in from..Len(damage) : j - from + 1 \in DOMAIN missed
                                       /\ missed[j - from + 1] = damage[j]
      <4>1. SUFFICES ASSUME NEW j \in from..Len(damage)
            PROVE  j - from + 1 \in DOMAIN missed /\ missed[j - from + 1] = damage[j]
        OBVIOUS
      <4> HIDE DEF from, missed
      <4>2. j - from + 1 \in DOMAIN missed /\ from + (j - from + 1) - 1 = j
        BY <1>1, <2>2, <3>1
      <4>3. QED
        BY <3>1, <4>2
    <3> HIDE DEF from, missed
    <3>4. QED
      BY <3>1, <3>2, <3>3
  <2>4. QED
    BY <2>1, <2>2, <2>3 DEF ChangedSince, ChangedIn
<1>4. QED
  BY <1>2, <1>3

\* The damage kept after one more frame is that of the frames kept before and
\* its own, without the oldest.
LEMMA HistoryMoves ==
  ASSUME RingTypes, NEW reported \in SUBSET Cells,
         NEW leased, NEW slot, PresentSlot(leased, slot, reported)
  PROVE  /\ presentSeq' = presentSeq + 1
         /\ damage' \in Seq(SUBSET Cells)
         /\ baseSeq' \in Nat /\ baseSeq <= baseSeq' /\ presentSeq' = baseSeq' + Len(damage')
         /\ \A last \in Nat : baseSeq' <= last /\ last <= presentSeq =>
              ChangedIn(damage', baseSeq', last) = ChangedSince(last) \cup reported
<1> DEFINE kept == Append(damage, reported)
           past == Max({Len(kept) - MaxSlots, 0})
<1>1. /\ damage \in Seq(SUBSET Cells) /\ Len(damage) \in Nat
      /\ baseSeq \in Nat /\ presentSeq = baseSeq + Len(damage)
  BY DEF RingTypes
<1>2. /\ kept \in Seq(SUBSET Cells) /\ Len(kept) = Len(damage) + 1
      /\ kept[Len(damage) + 1] = reported
      /\ \A j \in 1..Len(damage) : kept[j] = damage[j]
  BY <1>1
<1> HIDE DEF kept
<1>3. past \in 0..Len(kept)
  BY <1>1, <1>2, PastIs
<1>4. /\ presentSeq' = presentSeq + 1
      /\ baseSeq' = baseSeq + past
  BY DEF PresentSlot, kept
<1>a. damage' = SubSeq(kept, past + 1, Len(kept))
  BY DEF PresentSlot, kept
<1> HIDE DEF past
<1>5. /\ damage' \in Seq(SUBSET Cells) /\ Len(damage') = Len(kept) - past
      /\ \A j \in 1..Len(kept) - past : damage'[j] = kept[past + j]
  <2>1. \A S : \A s \in Seq(S) : \A n \in 0..Len(s) :
          /\ SubSeq(s, n + 1, Len(s)) \in Seq(S)
          /\ Len(SubSeq(s, n + 1, Len(s))) = Len(s) - n
          /\ \A j \in 1..Len(s) - n : SubSeq(s, n + 1, Len(s))[j] = s[n + j]
    OBVIOUS
  <2>2. QED
    BY <1>2, <1>3, <1>a, <2>1
<1>6. ASSUME NEW last \in Nat, baseSeq' <= last, last <= presentSeq
      PROVE  ChangedIn(damage', baseSeq', last) = ChangedSince(last) \cup reported
  <2>1. ChangedIn(damage', baseSeq', last)
          = UNION {damage'[j] : j \in last - baseSeq' + 1 .. Len(damage')}
    BY DEF ChangedIn
  <2>2. {damage'[j] : j \in last - baseSeq' + 1 .. Len(damage')}
          = {kept[k] : k \in last - baseSeq + 1 .. Len(kept)}
    <3>1. ASSUME NEW j \in last - baseSeq' + 1 .. Len(damage')
          PROVE  past + j \in last - baseSeq + 1 .. Len(kept) /\ damage'[j] = kept[past + j]
      <4>1. j \in 1..Len(kept) - past
        BY <1>1, <1>2, <1>3, <1>4, <1>5, <1>6, <3>1
      <4>2. QED
        BY <1>1, <1>2, <1>3, <1>4, <1>5, <1>6, <3>1, <4>1
    <3>2. ASSUME NEW k \in last - baseSeq + 1 .. Len(kept)
          PROVE  k - past \in last - baseSeq' + 1 .. Len(damage')
                 /\ damage'[k - past] = kept[k]
      <4>1. k - past \in 1..Len(kept) - past /\ past + (k - past) = k
        BY <1>1, <1>2, <1>3, <1>4, <1>6, <3>2
      <4>2. damage'[k - past] = kept[k]
        <5>1. damage'[k - past] = kept[past + (k - past)]
          BY <1>5, <4>1
        <5>2. QED
          BY <4>1, <5>1
      <4>3. QED
        BY <1>1, <1>2, <1>3, <1>4, <1>5, <1>6, <3>2, <4>1, <4>2
    <3>3. QED
      BY <3>1, <3>2
  <2>3. UNION {kept[k] : k \in last - baseSeq + 1 .. Len(kept)} = ChangedSince(last) \cup reported
    <3>1. last - baseSeq + 1 \in Nat \ {0} /\ last - baseSeq + 1 <= Len(kept)
      BY <1>1, <1>2, <1>3, <1>4, <1>6
    <3>2. {kept[k] : k \in last - baseSeq + 1 .. Len(kept)}
            = {damage[j] : j \in last - baseSeq + 1 .. Len(damage)} \cup {reported}
      <4> DEFINE from == last - baseSeq + 1
      <4>1. from \in Nat \ {0} /\ from <= Len(damage) + 1
        BY <1>2, <3>1
      <4> HIDE DEF from
      <4>2. ASSUME NEW k \in from..Len(kept)
            PROVE  kept[k] = reported \/ (k \in from..Len(damage) /\ kept[k] = damage[k])
        <5>1. k \in from..Len(damage) + 1
          BY <1>2, <4>2
        <5>2. k = Len(damage) + 1 \/ k \in from..Len(damage)
          BY <1>1, <4>1, <5>1
        <5>3. k \in from..Len(damage) => k \in 1..Len(damage)
          BY <1>1, <4>1
        <5>4. QED
          BY <1>2, <5>2, <5>3
      <4>3. ASSUME NEW k \in from..Len(damage)
            PROVE  k \in from..Len(kept) /\ kept[k] = damage[k]
        BY <1>1, <1>2, <4>1, <4>3
      <4>4. Len(kept) \in from..Len(kept) /\ kept[Len(kept)] = reported
        BY <1>1, <1>2, <4>1
      <4>5. {kept[k] : k \in from..Len(kept)}
              = {damage[j] : j \in from..Len(damage)} \cup {reported}
        BY <4>2, <4>3, <4>4
      <4>6. QED
        BY <4>5 DEF from
    <3>3. QED
      BY <3>2 DEF ChangedSince, ChangedIn
  <2>4. QED
    BY <2>1, <2>2, <2>3
<1>7. baseSeq' \in Nat /\ baseSeq <= baseSeq' /\ presentSeq' = baseSeq' + Len(damage')
  <2>1. \A b, d, n \in Nat : n <= d + 1 =>
          b + n \in Nat /\ b <= b + n /\ b + d + 1 = b + n + (d + 1 - n)
    OBVIOUS
  <2>2. past \in Nat /\ past <= Len(damage) + 1
    BY <1>1, <1>2, <1>3
  <2>3. presentSeq' = baseSeq + Len(damage) + 1
    BY <1>1, <1>4
  <2>4. Len(damage') = Len(damage) + 1 - past
    <3>1. Len(damage') = Len(kept) - past
      BY <1>5
    <3>2. Len(kept) = Len(damage) + 1
      BY <1>2
    <3>3. Len(damage) \in Nat /\ past \in Nat
      BY <1>1, <2>2
    <3>4. QED
      BY <3>1, <3>2, <3>3
  <2>5. QED
    BY <1>1, <1>4, <2>1, <2>2, <2>3, <2>4
<1>8. QED
  BY <1>4, <1>5, <1>6, <1>7

\* A producer that repaints what it is told to and what it changed, and
\* reports at least that change.
LEMMA PaintStep ==
  ASSUME RingInv, NEW changed \in SUBSET Cells, NEW paints \in SUBSET Cells,
         NEW reported \in SUBSET Cells,
         LeaseRepaint.region \cup changed \subseteq paints, changed \subseteq reported,
         Paint(changed, paints, reported)
  PROVE  RingInv'
<1> DEFINE slot == LeasedSlot
<1>1. RingTypes /\ Missed /\ CanLease
  BY DEF RingInv, Paint
<1>2. /\ slot \in 1..MaxSlots
      /\ SlotsLeased \in Seq(SlotType) /\ Len(SlotsLeased) <= MaxSlots
      /\ DOMAIN SlotsLeased = DOMAIN slots \cup {slot}
      /\ \A i \in DOMAIN slots \ {slot} : SlotsLeased[i] = slots[i]
      /\ slot \in DOMAIN slots => slot \in FreeSlots /\ slot = Freshest
      /\ slot \notin DOMAIN slots => FreeSlots = {}
  BY <1>1, Leases
<1>3. /\ PresentSlot(SlotsLeased, slot, reported)
      /\ allocated' = allocated \cup {slot} /\ painted' = slot
      /\ outdated' = [i \in 1..MaxSlots |->
                       IF i = slot
                         THEN (IF i \in allocated THEN outdated[i] ELSE Cells) \ paints
                         ELSE outdated[i] \cup changed]
  BY DEF Paint
<1>4. /\ presentSeq' = presentSeq + 1
      /\ damage' \in Seq(SUBSET Cells)
      /\ baseSeq' \in Nat /\ baseSeq <= baseSeq' /\ presentSeq' = baseSeq' + Len(damage')
      /\ \A last \in Nat : baseSeq' <= last /\ last <= presentSeq =>
           ChangedIn(damage', baseSeq', last) = ChangedSince(last) \cup reported
  BY <1>1, <1>3, HistoryMoves
<1> DEFINE presented == [state |-> "Scanning", lastPresent |-> presentSeq + 1]
           next(i) == IF i = slot THEN presented
                      ELSE IF SlotsLeased[i].state = "Scanning"
                        THEN [SlotsLeased[i] EXCEPT !.state = "PendingRelease"]
                      ELSE SlotsLeased[i]
<1>5. slots' = [i \in DOMAIN SlotsLeased |-> next(i)]
  BY <1>3 DEF PresentSlot
<1>6. presentSeq \in Nat /\ baseSeq \in Nat /\ outdated \in [1..MaxSlots -> SUBSET Cells]
      /\ allocated \subseteq 1..MaxSlots
  BY <1>1 DEF RingTypes
<1>7. \A i \in DOMAIN SlotsLeased : SlotsLeased[i] \in SlotType
  <2>1. \A S : \A s \in Seq(S) : \A k \in DOMAIN s : s[k] \in S
    OBVIOUS
  <2> HIDE DEF SlotType
  <2>2. QED
    BY <1>2, <2>1
<1>8. \A i \in DOMAIN SlotsLeased : next(i) \in SlotType
  BY <1>6, <1>7 DEF SlotType
<1>9. \A i \in DOMAIN SlotsLeased \ {slot} : next(i).lastPresent = slots[i].lastPresent
  BY <1>2, <1>7 DEF SlotType
<1> HIDE DEF next, SlotType
<1>10. slots' \in Seq(SlotType) /\ Len(slots') = Len(SlotsLeased)
       /\ DOMAIN slots' = DOMAIN SlotsLeased
  BY <1>2, <1>5, <1>8
<1>11. outdated' \in [1..MaxSlots -> SUBSET Cells]
  BY <1>3, <1>6
<1>12. RingTypes'
  BY <1>2, <1>3, <1>4, <1>6, <1>10, <1>11 DEF RingTypes
<1>13. outdated'[slot] = {}
  <2>1. outdated'[slot] = (IF slot \in allocated THEN outdated[slot] ELSE Cells) \ paints
    BY <1>2, <1>3
  <2>2. CASE FreeSlots = {}
    <3>1. LeaseRepaint.region = Cells
      BY <2>2 DEF LeaseRepaint, Full
    <3>2. QED
      BY <1>2, <1>6, <2>1, <3>1
  <2>3. CASE FreeSlots # {}
    <3>1. slot = Freshest /\ slot \in DOMAIN slots
      BY <1>1, <2>3, FreshestIsFree DEF LeasedSlot, FreeSlots, Missed
    <3> DEFINE last == slots[slot].lastPresent
    <3>2. last \in Nat /\ last <= presentSeq
      <4>1. \A S : \A s \in Seq(S) : \A k \in DOMAIN s : s[k] \in S
        OBVIOUS
      <4>2. slots[slot] \in SlotType
        BY <1>1, <3>1, <4>1 DEF RingTypes
      <4>3. QED
        BY <1>1, <3>1, <4>2 DEF Missed, SlotType
    <3>3. LeaseRepaint.region = RepaintFor(last).region
      BY <2>3, <3>1 DEF LeaseRepaint
    <3>4. \/ RepaintFor(last).region = Cells
          \/ last > 0 /\ last >= baseSeq /\ RepaintFor(last).region = ChangedSince(last)
      BY <1>1, <3>2, RepaintIs
    <3>5. last > 0 /\ last >= baseSeq => slot \in allocated /\ outdated[slot] \subseteq ChangedSince(last)
      BY <1>1, <3>1 DEF Missed
    <3>6. QED
      BY <1>2, <1>6, <2>1, <3>3, <3>4, <3>5
  <2>4. QED
    BY <2>2, <2>3
<1>14. Missed'
  <2>1. SUFFICES ASSUME NEW i \in DOMAIN SlotsLeased
        PROVE  /\ slots'[i].lastPresent <= presentSeq'
               /\ slots'[i].lastPresent > 0 => i \in allocated'
               /\ slots'[i].lastPresent > 0 /\ slots'[i].lastPresent >= baseSeq'
                    => outdated'[i] \subseteq ChangedIn(damage', baseSeq', slots'[i].lastPresent)
    BY <1>10 DEF Missed, ChangedSince
  <2>2. CASE i = slot
    <3>1. slots'[i].lastPresent = presentSeq + 1
      BY <1>5, <2>1, <2>2 DEF next
    <3>2. slots'[i].lastPresent <= presentSeq'
      BY <1>4, <1>6, <3>1
    <3>3. i \in allocated' /\ outdated'[i] = {}
      BY <1>3, <1>13, <2>2
    <3>4. QED
      BY <3>2, <3>3
  <2>3. CASE i # slot
    <3> DEFINE last == slots[i].lastPresent
    <3>1. slots'[i].lastPresent = last /\ i \in DOMAIN slots
      BY <1>2, <1>5, <1>9, <2>1, <2>3
    <3>2. last \in Nat /\ last <= presentSeq /\ i \in 1..MaxSlots
      <4>1. \A S : \A s \in Seq(S) : \A k \in DOMAIN s : s[k] \in S /\ k \in 1..Len(s)
                                                        /\ Len(s) \in Nat
        OBVIOUS
      <4>2. slots[i] \in SlotType /\ i \in 1..Len(slots) /\ Len(slots) \in Nat
        BY <1>1, <3>1, <4>1 DEF RingTypes
      <4>3. QED
        BY <1>1, <3>1, <4>2, RingAssumption DEF Missed, SlotType, RingTypes
    <3>3. /\ last > 0 => i \in allocated
          /\ last > 0 /\ last >= baseSeq => outdated[i] \subseteq ChangedSince(last)
      BY <1>1, <3>1 DEF Missed
    <3>4. outdated'[i] = outdated[i] \cup changed
      BY <1>3, <2>3, <3>2
    <3>5. last >= baseSeq' =>
            /\ ChangedIn(damage', baseSeq', last) = ChangedSince(last) \cup reported
            /\ last >= baseSeq
      BY <1>4, <1>6, <3>2
    <3> HIDE DEF last
    <3>6. last > 0 /\ last >= baseSeq' => outdated'[i] \subseteq ChangedIn(damage', baseSeq', last)
      BY <3>3, <3>4, <3>5
    <3>7. last <= presentSeq'
      BY <1>4, <1>6, <3>2
    <3>8. QED
      BY <1>3, <3>1, <3>3, <3>6, <3>7 DEF last
  <2>4. QED
    BY <2>2, <2>3
<1>15. QED
  BY <1>12, <1>14 DEF RingInv

-----------------------------------------------------------------------------
(* The scene, of which each path uses a part: one layer, which stays.  Its *)
(* steps are LayerScene's but for two that end a call of present() early,  *)
(* so LayerSceneProofs' lemmas about numbers, order and possession apply.  *)

\* Every error of a commit is finalized as a rejection, with or without master.
Refuses ==
  /\ HoldsFrame /\ frame.result = "none"
  /\ frame' = [frame EXCEPT !.result = "rejected"]

\* The FrameBuild is dropped without being finalized.
Abandons == HoldsFrame /\ frame.result = "none" /\ frame' = NoFrame

FrameOnly ==
  UNCHANGED <<layers, lastFb, builds, previous, twoAgo, lastSeq, armed, suspended,
              topologyDirty, committedOnce, dirty, sourceVars, kernelVars, dropped,
              historyVars>>

SceneStep == [Next]_vars \/ ((Refuses \/ Abandons) /\ FrameOnly)

\* What a frame that has been drained does not say: which buffers are shown by
\* one that has not, all acquired since.
UndrainedBy(drained, n, shows) == n > drained => \A a \in shows : a.frame > drained
Undrained(n, shows) == UndrainedBy(drainedTo, n, shows)

SceneFacts ==
  /\ path \in {"ring", "sink", "backend"}
  /\ builds <= MaxFrames
  /\ \A l \in Layers : layers[l] \in {"absent", "live"}
  /\ \A l \in Layers : layers[l] = "live" => path # "ring" /\ l = LayerOf(path)
  /\ \A a \in out : layers[a.layer] = "live"
  /\ HoldsFrame => /\ frame.kind \in {"flip", "blocking"} /\ ~frame.keeps
                   /\ frame.result \in {"none", "ok", "rejected"}
  /\ calling \in {"none", "present"}
  /\ calling = "present" => ~HoldsFrame /\ ~dropped /\ path # "ring"
                            /\ layers[LayerOf(path)] = "live"
  /\ \A a \in InFlight : a.frame > drainedTo
  /\ Undrained(screen.n, screen.shows) /\ Undrained(flip.n, flip.shows)
  /\ HoldsFrame /\ session # "paused" => Undrained(frame.n, frame.shows)
  /\ \A l \in Layers : lastFb[l] # 0 => layers[l] = "live"
  /\ session # "paused" => \A l \in Layers : lastFb[l] # 0 => lastFb[l] > drainedTo
  /\ \A a, b \in previous : a.frame = b.frame
  /\ \A a, b \in twoAgo : a.frame = b.frame

SceneInv == TypeOK /\ Numbers /\ HeldOnce /\ SceneFacts

-----------------------------------------------------------------------------
(* The sink: which slot each of its acquisitions carries.                  *)

\* An acquisition of the sink's layer that no pause has forgotten.
IsKept(a) == a \in out /\ a.layer = SinkLayer /\ a.frame > drainedTo

\* The slots that are out are not free, and each is out once.
SlotsOut ==
  \A a \in out : IsKept(a) =>
    /\ carries[a.frame] \in DOMAIN slots
    /\ slots[carries[a.frame]].state # "Free"
    /\ carries[a.frame] # painted
    /\ \A b \in out : IsKept(b) /\ carries[a.frame] = carries[b.frame] => a = b

SinkTypes ==
  /\ carries \in [1..MaxFrames -> Nat]
  /\ failures \in Nat
  /\ path = "ring" => screen = Dark /\ flip = NoFlip /\ out = {}
  /\ path = "backend" => slots = <<>> /\ painted = 0
  /\ path = "sink" /\ layers[SinkLayer] = "absent" => slots = <<>> /\ painted = 0

\* What is painted is what scans out, until the next frame is.
PaintedScans ==
  path = "sink" =>
  /\ painted # 0 => /\ painted \in DOMAIN slots
                    /\ \A i \in DOMAIN slots : slots[i].state = "Scanning" <=> i = painted
  /\ calling = "present" => painted # 0 /\ SinkLayer \in fresh
  /\ HoldsFrame =>
       /\ painted = 0
       /\ [layer |-> SinkLayer, frame |-> frame.n] \in frame.shows
       /\ \A i \in DOMAIN slots : slots[i].state = "Scanning" => i = carries[frame.n]

\* A failed call loses one slot: at once, when its frame is finalized, or when
\* the next frame is painted.
Owed == IF (HoldsFrame /\ frame.result = "rejected") \/ (painted # 0 /\ calling = "none")
        THEN 1 ELSE 0

LossesCounted == path = "sink" => Cardinality(LostSlots) + Owed <= failures

SinkInv == SinkTypes /\ SlotsOut /\ PaintedScans /\ LossesCounted

-----------------------------------------------------------------------------
(* The backend: the mode and variable refresh, and what is owed a commit.  *)

\* Until another master has had the device: variable refresh is what was written
\* last, the mode is set unless it is still to be, and what is on screen, or about
\* to be, has set it.
ModeInv ==
  ~switched =>
    /\ crtcVrr = vrrArmed
    /\ ~dropped /\ ~needsModeset => crtcMode = "ours"
    /\ screen.n > 0 \/ flip.n > 0 => ~needsModeset

\* A call of present() goes on, to a commit that has not been answered.
Started == calling = "present" \/ (HoldsFrame /\ frame.result = "none")

\* Every commit so far was taken, and nothing took the screen away.
AllTaken == path = "backend" /\ failures = 0 /\ ~switched /\ session = "active"

\* The decision that uses up the first frame, or a forced one, starts a call, and
\* the call ends with the frame on screen or a failure counted.
SkipInv ==
  /\ economy \in [first : BOOLEAN, forceFull : BOOLEAN]
  /\ skipped => path = "backend" /\ ~HoldsFrame
  /\ SkipsOnlyTheShown
  /\ AllTaken /\ ~economy.first => Started \/ Target.n > 0
  /\ AllTaken /\ forced => economy.first \/ economy.forceFull \/ Started

PresentInv == RingInv /\ SceneInv /\ SinkInv /\ ModeInv /\ SkipInv

-----------------------------------------------------------------------------
(* What each step of a path is to the scene.                               *)

Calls ==
  /\ UNCHANGED vars \/ (path # "ring" /\ Produce(LayerOf(path)))
  /\ \/ calling' = calling
     \/ calling' = "none"
     \/ calling' = "present" /\ MayCall /\ path # "ring" /\ layers[LayerOf(path)] = "live"

Builds(kind) == calling = "present" /\ calling' = "none" /\ BuildFrame(kind)

BuildFails == calling = "present" /\ calling' = "none" /\ BuildFrameFails(Ready, {})

Commits ==
  /\ calling' = calling
  /\ \/ CommitAccepted \/ FinalizeFrameOk \/ FinalizeFrameReturns \/ FlipLands
     \/ (Refuses \/ Abandons) /\ FrameOnly

Waits ==
  /\ calling = "none" /\ calling' = calling
  /\ DispatchFlip \/ LoseMaster \/ Resume \/ OnSessionPaused \/ OnSessionResumed(Live) \/ Teardown

SceneMoves ==
  /\ path' = path
  /\ path = "ring" => UNCHANGED vars /\ calling' = calling
  /\ \/ Calls
     \/ path # "ring" /\ AddLayer(LayerOf(path)) /\ calling' = calling
     \/ \E kind \in {"flip", "blocking"} : Builds(kind)
     \/ BuildFails
     \/ Commits
     \/ Waits

\* Whatever the path, a step does to its scene only what SceneMoves lists.
LEMMA PathMoves ==
  ASSUME path \in {"ring", "sink", "backend"}, [PresentNext]_presentVars
  PROVE  SceneMoves
<1> USE DEF pathVars
<1>1. CASE UNCHANGED presentVars
  BY <1>1 DEF presentVars, SceneMoves, Calls
<1>2. CASE path # "ring" /\ path' = path /\ Creates
  BY <1>2 DEF Creates, SceneMoves
<1>3. CASE path = "ring" /\ path' = path /\ RingNext
           /\ UNCHANGED <<vars, pathVars, carries, backendVars>>
  BY <1>3 DEF SceneMoves, Calls
<1>4. CASE path = "sink" /\ path' = path /\ SinkNext
  <2>1. LayerOf(path) = SinkLayer
    BY <1>4 DEF LayerOf
  <2>2. CASE SinkPaints
    BY <1>4, <2>1, <2>2 DEF SinkPaints, SceneMoves, Calls
  <2>3. CASE SinkPaintFails
    BY <1>4, <2>3 DEF SinkPaintFails, SceneMoves, Calls
  <2>4. CASE \E kind \in {"flip", "blocking"} : SinkBuilds(kind)
    BY <1>4, <2>4 DEF SinkBuilds, PathBuilds, SceneMoves, Builds
  <2>5. CASE SinkBuildFails
    BY <1>4, <2>5 DEF SinkBuildFails, PathBuildFails, SceneMoves, BuildFails
  <2>6. CASE SinkEmitFails
    BY <1>4, <2>6 DEF SinkEmitFails, SceneMoves, Commits, Abandons, FrameOnly
  <2>7. CASE SinkFinalizes
    BY <1>4, <2>7 DEF SinkFinalizes, SceneMoves, Commits
  <2>8. CASE SinkPauses
    BY <1>4, <2>8 DEF SinkPauses, SceneMoves, Waits
  <2>9. CASE SinkElsewhere
    <3>1. CASE LearnFails
      BY <1>4, <3>1 DEF LearnFails, SceneMoves, Calls
    <3>2. CASE PathAccepted
      BY <1>4, <3>2 DEF PathAccepted, SceneMoves, Commits
    <3>3. CASE PathRefused
      BY <1>4, <3>3 DEF PathRefused, SceneMoves, Commits, Refuses, FrameOnly
    <3>4. CASE PathSwitches
      BY <1>4, <3>4 DEF PathSwitches, SceneMoves, Waits
    <3>5. CASE PathFlips
      BY <1>4, <3>5 DEF PathFlips, SceneMoves, Waits, Commits
    <3>6. CASE calling = "none" /\ Teardown /\ UNCHANGED pathVars
      BY <1>4, <3>6 DEF SceneMoves, Waits
    <3>7. QED
      BY <2>9, <3>1, <3>2, <3>3, <3>4, <3>5, <3>6 DEF SinkElsewhere
  <2>10. QED
    BY <1>4, <2>2, <2>3, <2>4, <2>5, <2>6, <2>7, <2>8, <2>9 DEF SinkNext
<1>5. CASE path = "backend" /\ path' = path /\ BackendNext
  <2>1. LayerOf(path) = BackendLayer
    BY <1>5 DEF LayerOf
  <2>2. CASE BackendPresents
    BY <1>5, <2>1, <2>2 DEF BackendPresents, SceneMoves, Calls
  <2>3. CASE BackendPresentsIfChanged
    BY <1>5, <2>1, <2>3 DEF BackendPresentsIfChanged, SceneMoves, Calls
  <2>4. CASE BackendForcesFull \/ (\E enable \in BOOLEAN : BackendSetsVrr(enable))
    BY <1>5, <2>4 DEF BackendForcesFull, BackendSetsVrr, SceneMoves, Calls
  <2>5. CASE BackendAccepted
    BY <1>5, <2>5 DEF BackendAccepted, PathAccepted, SceneMoves, Commits
  <2>6. CASE BackendRefused
    BY <1>5, <2>6 DEF BackendRefused, PathRefused, SceneMoves, Commits, Refuses, FrameOnly
  <2>7. CASE BackendSwitches
    BY <1>5, <2>7 DEF BackendSwitches, PathSwitches, SceneMoves, Waits
  <2>8. CASE BackendDrops
    BY <1>5, <2>8 DEF BackendDrops, SceneMoves, Waits
  <2>9. CASE BackendElsewhere
    <3>1. CASE LearnFails
      BY <1>5, <3>1 DEF LearnFails, SceneMoves, Calls
    <3>2. CASE \E kind \in {"flip", "blocking"} : PathBuilds(kind)
      BY <1>5, <3>2 DEF PathBuilds, SceneMoves, Builds
    <3>3. CASE PathBuildFails
      BY <1>5, <3>3 DEF PathBuildFails, SceneMoves, BuildFails
    <3>4. CASE PathFlips
      BY <1>5, <3>4 DEF PathFlips, SceneMoves, Waits, Commits
    <3>5. CASE (FinalizeFrameOk \/ FinalizeFrameReturns) /\ UNCHANGED pathVars
      BY <1>5, <3>5 DEF SceneMoves, Commits
    <3>6. CASE calling = "none" /\ ~switched /\ OnSessionPaused /\ UNCHANGED pathVars
      BY <1>5, <3>6 DEF SceneMoves, Waits
    <3>7. CASE calling = "none" /\ Produce(BackendLayer) /\ UNCHANGED pathVars
      BY <1>5, <2>1, <3>7 DEF SceneMoves, Calls
    <3>8. QED
      BY <2>9, <3>1, <3>2, <3>3, <3>4, <3>5, <3>6, <3>7 DEF BackendElsewhere
  <2>10. QED
    BY <1>5, <2>2, <2>3, <2>4, <2>5, <2>6, <2>7, <2>8, <2>9 DEF BackendNext
<1>6. QED
  BY <1>1, <1>2, <1>3, <1>4, <1>5 DEF PresentNext

\* So each is a step of LayerScene, or ends a call early.
LEMMA MovesAreSceneSteps ==
  ASSUME SceneMoves, path \in {"ring", "sink", "backend"}
  PROVE  SceneStep
<1>1. \A p \in {"sink", "backend"} : LayerOf(p) \in Layers
  BY SceneAssumption, SinkAssumption, BackendAssumption DEF LayerOf
<1>2. CASE Calls
  BY <1>1, <1>2 DEF Calls, SceneStep, Next
<1>3. CASE path # "ring" /\ AddLayer(LayerOf(path))
  BY <1>1, <1>3 DEF SceneStep, Next
<1>4. CASE \E kind \in {"flip", "blocking"} : Builds(kind)
  BY <1>4 DEF Builds, SceneStep, Next
<1>5. CASE BuildFails
  <2>1. Ready \in SUBSET Layers
    BY DEF Ready, Live
  <2>2. QED
    BY <1>5, <2>1 DEF BuildFails, SceneStep, Next
<1>6. CASE Commits
  BY <1>6 DEF Commits, SceneStep, Next
<1>7. CASE Waits
  <2>1. Live \in SUBSET Layers
    BY DEF Live
  <2>2. QED
    BY <1>7, <2>1 DEF Waits, SceneStep, Next
<1>8. QED
  BY <1>2, <1>3, <1>4, <1>5, <1>6, <1>7 DEF SceneMoves

\* Types, numbers and possession survive the steps that are not LayerScene's.
LEMMA SceneStepKeeps ==
  ASSUME TypeOK, Numbers, HeldOnce, SceneStep
  PROVE  TypeOK' /\ Numbers' /\ HeldOnce'
<1>1. CASE [Next]_vars
  BY <1>1, TypeStep, NumbersStep, HeldOnceStep
<1>2. CASE (Refuses \/ Abandons) /\ FrameOnly
  <2>1. /\ layers' = layers /\ lastFb' = lastFb /\ builds' = builds
        /\ previous' = previous /\ twoAgo' = twoAgo /\ lastSeq' = lastSeq /\ armed' = armed
        /\ suspended' = suspended /\ topologyDirty' = topologyDirty
        /\ committedOnce' = committedOnce /\ dirty' = dirty
        /\ fresh' = fresh /\ presenting' = presenting /\ out' = out
        /\ screen' = screen /\ flip' = flip /\ landed' = landed /\ events' = events
        /\ session' = session /\ dropped' = dropped /\ changedAt' = changedAt
        /\ drainedTo' = drainedTo /\ ranAhead' = ranAhead
        /\ removedMidFrame' = removedMidFrame
    BY <1>2 DEF FrameOnly, sourceVars, kernelVars, historyVars
  <2>2. HoldsFrame /\ ~Unfinalized
    BY <1>2 DEF Refuses, Abandons, Unfinalized
  <2>3. CASE Refuses
    <3>1. /\ frame' = [frame EXCEPT !.result = "rejected"]
          /\ frame' \in [n : Nat, kind : Kinds, keeps : BOOLEAN,
                         shows : SUBSET Acquisition, result : Results]
          /\ frame'.n = frame.n /\ frame'.kind = frame.kind /\ frame'.shows = frame.shows
          /\ frame'.result = "rejected"
      BY <2>3 DEF Refuses, TypeOK, Results
    <3>2. TypeOK'
      BY <2>1, <3>1 DEF TypeOK
    <3>3. HoldsFrame' /\ ~Unfinalized' /\ Own(frame') = Own(frame)
      BY <2>2, <3>1 DEF HoldsFrame, Unfinalized, Own
    <3>4. Numbers'
      BY <2>1, <2>2, <3>1, <3>3 DEF Numbers
    <3>5. HeldOnce'
      BY <2>1, <3>3 DEF HeldOnce, Held, InFlight
    <3>6. QED
      BY <3>2, <3>4, <3>5
  <2>4. CASE Abandons
    <3>1. frame' = NoFrame
      BY <2>4 DEF Abandons
    <3>2. ~HoldsFrame' /\ ~Unfinalized' /\ Own(frame') = {}
      BY <3>1 DEF HoldsFrame, Unfinalized, NoFrame, Own
    <3>3. TypeOK'
      BY <2>1, <3>1 DEF TypeOK, NoFrame, Kinds, Results
    <3>4. Numbers'
      BY <2>1, <3>1, <3>2 DEF Numbers, NoFrame
    <3>5. HeldOnce'
      BY <2>1, <3>2 DEF HeldOnce, Held, InFlight
    <3>6. QED
      BY <3>3, <3>4, <3>5
  <2>5. QED
    BY <1>2, <2>3, <2>4
<1>3. QED
  BY <1>1, <1>2 DEF SceneStep

-----------------------------------------------------------------------------
(* What the paths keep of the scene.                                       *)

\* A delivery leaves a layer that is live as it is.
LEMMA DeliveryLeavesLayers ==
  ASSUME TypeOK, \A l \in Layers : layers[l] \in {"absent", "live"},
         NEW acqs, NEW inFlight, Deliver(acqs, inFlight)
  PROVE  /\ layers' = layers
         /\ out' = {a \in out : a \in acqs => layers[a.layer] \notin {"live", "retiring"}}
BY DEF Deliver, TypeOK

\* The scene's moves keep what is known of it.
LEMMA SceneFactsStep ==
  ASSUME SceneInv, SceneMoves
  PROVE  SceneFacts'
<1> DEFINE l0 == LayerOf(path)
<1>1. TypeOK /\ Numbers /\ HeldOnce /\ SceneFacts /\ path' = path
  BY DEF SceneInv, SceneMoves
<1>2. /\ builds \in Nat /\ drainedTo \in Nat /\ drainedTo <= builds
      /\ builds <= MaxFrames /\ MaxFrames \in Nat
      /\ lastFb \in [Layers -> Nat] /\ layers \in [Layers -> {"absent", "live", "retiring", "gone"}]
      /\ out \subseteq Acquisition
  BY <1>1, SceneAssumption DEF TypeOK, Numbers, SceneFacts
<1>3. path # "ring" => l0 \in Layers
  BY <1>1, SceneAssumption, SinkAssumption, BackendAssumption DEF LayerOf, SceneFacts
<1>4. LayerOf(path') = l0
  BY <1>1
<1> HIDE DEF l0
<1> USE DEF SceneFacts
<1>5. ASSUME UNCHANGED <<layers, frame, builds, out, previous, twoAgo, lastFb, session,
                         drainedTo, dropped>>,
             UNCHANGED <<screen, flip>>
                \/ (flip # NoFlip /\ flip' = NoFlip /\ screen' = [n |-> flip.n, shows |-> flip.shows]),
             \/ calling' \in {calling, "none"}
             \/ calling' = "present" /\ MayCall /\ path # "ring" /\ layers[LayerOf(path)] = "live"
      PROVE  SceneFacts'
  <2>1. InFlight' = InFlight /\ HoldsFrame' = HoldsFrame
    BY <1>5 DEF InFlight, HoldsFrame
  <2>2. UndrainedBy(drainedTo', screen'.n, screen'.shows) /\ UndrainedBy(drainedTo', flip'.n, flip'.shows)
    BY <1>1, <1>5 DEF Undrained, UndrainedBy, NoFlip
  <2>3. HoldsFrame' /\ session' # "paused" => UndrainedBy(drainedTo', frame'.n, frame'.shows)
    BY <1>1, <1>5, <2>1 DEF Undrained, UndrainedBy
  <2>4. QED
    BY <1>1, <1>5, <2>1, <2>2, <2>3 DEF MayCall, Undrained, UndrainedBy
<1>6. CASE Calls
  <2>1. CASE UNCHANGED vars
    BY <1>5, <1>6, <2>1 DEF Calls, vars, sceneVars, sourceVars, kernelVars, historyVars
  <2>2. CASE Produce(LayerOf(path))
    BY <1>5, <1>6, <2>2 DEF Calls, Produce, sceneVars, kernelVars
  <2>3. QED
    BY <1>6, <2>1, <2>2 DEF Calls
<1>7. CASE path # "ring" /\ AddLayer(LayerOf(path)) /\ calling' = calling
  <2>1. /\ layers' = [layers EXCEPT ![l0] = "live"] /\ layers[l0] = "absent" /\ l0 \in Layers
        /\ frame' = frame /\ builds' = builds /\ out' = out /\ previous' = previous
        /\ twoAgo' = twoAgo /\ lastFb' = lastFb /\ session' = session
        /\ drainedTo' = drainedTo /\ dropped' = dropped /\ screen' = screen /\ flip' = flip
    BY <1>3, <1>7 DEF AddLayer, sourceVars, kernelVars, l0
  <2>2. InFlight' = InFlight /\ HoldsFrame' = HoldsFrame
    BY <2>1 DEF InFlight, HoldsFrame
  <2>3. /\ \A l \in Layers : layers'[l] \in {"absent", "live"}
        /\ \A l \in Layers : layers[l] = "live" => layers'[l] = "live"
        /\ \A l \in Layers : layers'[l] = "live" => layers[l] = "live" \/ l = l0
    BY <1>1, <1>2, <2>1
  <2>4. \A a \in out : a.layer \in Layers
    BY <1>2 DEF Acquisition
  <2>5. /\ \A l \in Layers : layers'[l] = "live" => path # "ring" /\ l = l0
        /\ \A a \in out' : layers'[a.layer] = "live"
        /\ calling' = "present" => layers'[l0] = "live"
    BY <1>1, <1>3, <1>7, <2>1, <2>3, <2>4 DEF l0
  <2>6. QED
    BY <1>1, <1>7, <2>1, <2>2, <2>3, <2>5 DEF Undrained, UndrainedBy, l0
<1>8. ASSUME NEW kind \in {"flip", "blocking"}, Builds(kind) PROVE SceneFacts'
  <2>1. /\ ~HoldsFrame /\ calling = "present" /\ calling' = "none" /\ builds < MaxFrames
        /\ builds' = builds + 1
        /\ lastFb' = [l \in Layers |-> IF l \in Ready THEN builds + 1 ELSE lastFb[l]]
        /\ out' = out \cup Acquired(Ready, builds + 1)
        /\ frame' = [n |-> builds + 1, kind |-> kind, keeps |-> Live = {},
                     shows |-> Acquired(Ready, builds + 1) \cup Reattached, result |-> "none"]
        /\ layers' = layers /\ previous' = previous /\ twoAgo' = twoAgo
        /\ session' = session /\ drainedTo' = drainedTo /\ dropped' = dropped
        /\ screen' = screen /\ flip' = flip
    BY <1>8 DEF Builds, BuildFrame, AcquireFrom, MayBuild, kernelVars
  <2>2. l0 \in Live
    BY <1>1, <1>3, <2>1 DEF Live, l0
  <2>3. /\ frame'.n = builds + 1 /\ frame'.kind = kind /\ frame'.keeps = FALSE
        /\ frame'.shows = Acquired(Ready, builds + 1) \cup Reattached /\ frame'.result = "none"
    <3>1. (Live = {}) = FALSE
      BY <2>2
    <3>2. QED
      BY <2>1, <3>1
  <2>4. \A a \in Acquired(Ready, builds + 1) : a.frame = builds + 1 /\ layers[a.layer] = "live"
    BY DEF Acquired, Ready, Live
  <2>5. builds + 1 > drainedTo /\ builds + 1 <= MaxFrames
    BY <1>2, <2>1
  <2>6. session # "paused" => \A a \in Reattached : a.frame > drainedTo
    BY <1>1 DEF Reattached, Live
  <2>7. session' # "paused" => UndrainedBy(drainedTo', frame'.n, frame'.shows)
    BY <2>1, <2>3, <2>4, <2>5, <2>6 DEF Undrained, UndrainedBy
  <2>8. session' # "paused" => \A l \in Layers : lastFb'[l] # 0 => lastFb'[l] > drainedTo
    BY <1>1, <1>2, <2>1, <2>5
  <2>9. InFlight' = InFlight
    BY <2>1 DEF InFlight
  <2>10. \A a \in out' : layers[a.layer] = "live"
    BY <1>1, <2>1, <2>4
  <2>11. \A l \in Layers : lastFb'[l] # 0 => layers'[l] = "live"
    BY <1>1, <1>2, <2>1 DEF Ready, Live
  <2>12. QED
    BY <1>1, <2>1, <2>3, <2>5, <2>7, <2>8, <2>9, <2>10, <2>11 DEF Undrained, UndrainedBy
<1>9. CASE BuildFails
  <2>1. /\ ~HoldsFrame /\ calling = "present" /\ calling' = "none" /\ builds < MaxFrames
        /\ builds' = builds + 1
        /\ lastFb' = [l \in Layers |-> IF l \in Ready THEN builds + 1 ELSE lastFb[l]]
        /\ out' = out /\ frame' = frame /\ previous' = previous /\ twoAgo' = twoAgo
        /\ session' = session /\ drainedTo' = drainedTo /\ dropped' = dropped
        /\ screen' = screen /\ flip' = flip
    BY <1>9 DEF BuildFails, BuildFrameFails, AcquireFrom, MayBuild, kernelVars, historyVars
  <2>2. layers' = layers
    <3>1. layers' = [l \in Layers |-> IF layers[l] = "retiring" /\ InFlight = {}
                                      THEN "gone" ELSE layers[l]]
      BY <1>9 DEF BuildFails, BuildFrameFails
    <3>2. QED
      BY <1>1, <1>2, <3>1
  <2>3. builds + 1 > drainedTo /\ builds + 1 <= MaxFrames
    BY <1>2, <2>1
  <2>4. session' # "paused" => \A l \in Layers : lastFb'[l] # 0 => lastFb'[l] > drainedTo
    BY <1>1, <1>2, <2>1, <2>3
  <2>5. InFlight' = InFlight /\ HoldsFrame' = HoldsFrame
    BY <2>1 DEF InFlight, HoldsFrame
  <2>6. \A l \in Layers : lastFb'[l] # 0 => layers'[l] = "live"
    BY <1>1, <1>2, <2>1, <2>2 DEF Ready, Live
  <2>7. QED
    BY <1>1, <2>1, <2>2, <2>3, <2>4, <2>5, <2>6 DEF Undrained, UndrainedBy
<1>10. CASE Commits
  <2>1. CASE CommitAccepted
    <3>1. /\ HoldsFrame /\ session = "active" /\ frame' = [frame EXCEPT !.result = "ok"]
          /\ layers' = layers /\ builds' = builds /\ out' = out /\ previous' = previous
          /\ twoAgo' = twoAgo /\ lastFb' = lastFb /\ session' = session
          /\ drainedTo' = drainedTo /\ dropped' = dropped
      BY <2>1 DEF CommitAccepted, sourceVars, historyVars
    <3>2. /\ frame'.n = frame.n /\ frame'.kind = frame.kind /\ frame'.keeps = frame.keeps
          /\ frame'.shows = frame.shows /\ frame'.result = "ok"
      BY <1>1, <3>1 DEF TypeOK
    <3>3. \/ flip' = [n |-> frame.n, seq |-> lastSeq + 1, shows |-> frame.shows, event |-> TRUE]
             /\ screen' = screen
          \/ screen' = [n |-> frame.n, shows |-> frame.shows] /\ flip' = flip
      BY <1>1, <2>1, <3>1 DEF CommitAccepted
    <3>4. Undrained(frame.n, frame.shows)
      BY <1>1, <3>1
    <3>5. UndrainedBy(drainedTo', screen'.n, screen'.shows) /\ UndrainedBy(drainedTo', flip'.n, flip'.shows)
      BY <1>1, <3>1, <3>3, <3>4 DEF Undrained, UndrainedBy
    <3>6. InFlight' = InFlight /\ HoldsFrame'
      BY <3>1, <3>2 DEF InFlight, HoldsFrame
    <3>7. UndrainedBy(drainedTo', frame'.n, frame'.shows)
      BY <3>1, <3>2, <3>4 DEF Undrained, UndrainedBy
    <3>8. QED
      BY <1>1, <1>10, <3>1, <3>2, <3>5, <3>6, <3>7 DEF Commits, Undrained, UndrainedBy
  <2>2. CASE FinalizeFrameOk
    <3>1. /\ Rotate(Own(frame)) /\ frame' = NoFrame /\ HoldsFrame
          /\ builds' = builds /\ lastFb' = lastFb /\ session' = session
          /\ drainedTo' = drainedTo /\ dropped' = dropped /\ screen' = screen /\ flip' = flip
      BY <2>2 DEF FinalizeFrameOk, HoldsFrame, kernelVars, historyVars
    <3>2. /\ previous' = Own(frame) /\ twoAgo' = previous
          /\ layers' = layers /\ out' \subseteq out
      BY <1>1, <3>1, DeliveryLeavesLayers DEF Rotate
    <3>3. \A a \in Own(frame) : a.frame = frame.n
      BY DEF Own
    <3>4. frame.n > drainedTo
      BY <1>1, <1>2, <3>1 DEF Numbers
    <3>5. /\ \A a \in InFlight' : a.frame > drainedTo
          /\ \A a, b \in previous' : a.frame = b.frame
          /\ \A a, b \in twoAgo' : a.frame = b.frame
      BY <1>1, <3>2, <3>3, <3>4 DEF InFlight
    <3>6. ~HoldsFrame'
      BY <3>1 DEF HoldsFrame, NoFrame
    <3>7. QED
      BY <1>1, <1>10, <3>1, <3>2, <3>5, <3>6 DEF Commits, Undrained, UndrainedBy
  <2>3. CASE FinalizeFrameReturns
    <3>1. /\ Deliver(Own(frame), InFlight) /\ frame' = NoFrame /\ HoldsFrame
          /\ builds' = builds /\ lastFb' = lastFb /\ session' = session
          /\ previous' = previous /\ twoAgo' = twoAgo
          /\ drainedTo' = drainedTo /\ dropped' = dropped /\ screen' = screen /\ flip' = flip
      BY <2>3 DEF FinalizeFrameReturns, kernelVars, historyVars
    <3>2. layers' = layers /\ out' \subseteq out
      BY <1>1, <3>1, DeliveryLeavesLayers
    <3>3. InFlight' = InFlight /\ ~HoldsFrame'
      BY <3>1 DEF InFlight, HoldsFrame, NoFrame
    <3>4. QED
      BY <1>1, <1>10, <3>1, <3>2, <3>3 DEF Commits, Undrained, UndrainedBy
  <2>4. CASE FlipLands
    BY <1>5, <1>10, <2>4 DEF Commits, FlipLands, sceneVars, sourceVars, historyVars
  <2>5. CASE (Refuses \/ Abandons) /\ FrameOnly
    <3>1. /\ layers' = layers /\ builds' = builds /\ out' = out /\ previous' = previous
          /\ twoAgo' = twoAgo /\ lastFb' = lastFb /\ session' = session
          /\ drainedTo' = drainedTo /\ dropped' = dropped /\ screen' = screen /\ flip' = flip
      BY <2>5 DEF FrameOnly, sourceVars, kernelVars, historyVars
    <3>2. InFlight' = InFlight
      BY <3>1 DEF InFlight
    <3>3. CASE Refuses
      <4>1. /\ frame'.n = frame.n /\ frame'.kind = frame.kind /\ frame'.keeps = frame.keeps
            /\ frame'.shows = frame.shows /\ frame'.result = "rejected" /\ HoldsFrame
        BY <1>1, <3>3 DEF Refuses, TypeOK
      <4>2. HoldsFrame'
        BY <4>1 DEF HoldsFrame
      <4>3. QED
        BY <1>1, <1>10, <3>1, <3>2, <4>1, <4>2 DEF Commits, Undrained, UndrainedBy
    <3>4. CASE Abandons
      <4>1. ~HoldsFrame'
        BY <3>4 DEF Abandons, HoldsFrame, NoFrame
      <4>2. QED
        BY <1>1, <1>10, <3>1, <3>2, <4>1 DEF Commits, Undrained, UndrainedBy
    <3>5. QED
      BY <2>5, <3>3, <3>4
  <2>6. QED
    BY <1>10, <2>1, <2>2, <2>3, <2>4, <2>5 DEF Commits
<1>11. CASE Waits
  <2>1. calling = "none" /\ calling' = "none"
    BY <1>11 DEF Waits
  <2>2. CASE DispatchFlip
    BY <1>5, <2>1, <2>2 DEF DispatchFlip, sourceVars, historyVars
  <2>3. CASE LoseMaster
    <3>1. /\ session = "active" /\ layers' = layers /\ frame' = frame /\ builds' = builds
          /\ out' = out /\ previous' = previous /\ twoAgo' = twoAgo /\ lastFb' = lastFb
          /\ drainedTo' = drainedTo /\ dropped' = dropped /\ screen' = screen /\ flip' = flip
      BY <2>3 DEF LoseMaster, sceneVars, sourceVars, historyVars
    <3>2. InFlight' = InFlight /\ HoldsFrame' = HoldsFrame
      BY <3>1 DEF InFlight, HoldsFrame
    <3>3. QED
      BY <1>1, <2>1, <3>1, <3>2 DEF Undrained, UndrainedBy
  <2>4. CASE Resume \/ OnSessionResumed(Live)
    <3>1. /\ ~HoldsFrame /\ layers' = layers /\ frame' = frame /\ builds' = builds
          /\ out' = out /\ previous' = previous /\ twoAgo' = twoAgo
          /\ drainedTo' = drainedTo /\ dropped' = dropped /\ flip' = flip
          /\ screen' = Dark \/ screen' = screen
      BY <2>4 DEF Resume, OnSessionResumed, sourceVars, historyVars
    <3>2. session' # "paused" => \A l \in Layers : lastFb'[l] # 0 => lastFb'[l] > drainedTo
      <4>1. CASE Resume
        BY <1>1, <4>1 DEF Resume
      <4>2. CASE OnSessionResumed(Live)
        <5>1. lastFb' = [l \in Layers |-> IF l \in Live THEN 0 ELSE lastFb[l]]
          BY <4>2 DEF OnSessionResumed
        <5>2. QED
          BY <1>1, <1>2, <5>1 DEF Live
      <4>3. QED
        BY <2>4, <4>1, <4>2
    <3>3. InFlight' = InFlight /\ ~HoldsFrame'
      BY <3>1 DEF InFlight, HoldsFrame
    <3>4. \A l \in Layers : lastFb'[l] # 0 => layers'[l] = "live"
      <4>1. CASE Resume
        BY <1>1, <3>1, <4>1 DEF Resume
      <4>2. CASE OnSessionResumed(Live)
        BY <1>1, <1>2, <3>1, <4>2 DEF OnSessionResumed
      <4>3. QED
        BY <2>4, <4>1, <4>2
    <3>5. UndrainedBy(drainedTo', screen'.n, screen'.shows)
      BY <1>1, <1>2, <3>1 DEF Undrained, UndrainedBy, Dark
    <3>6. QED
      BY <1>1, <2>1, <3>1, <3>2, <3>3, <3>4, <3>5 DEF Undrained, UndrainedBy
  <2>5. CASE OnSessionPaused
    <3>1. /\ ~HoldsFrame /\ Deliver(InFlight, {}) /\ previous' = {} /\ twoAgo' = {}
          /\ session' = "paused" /\ drainedTo' = builds /\ builds' = builds
          /\ frame' = frame /\ dropped' = dropped /\ screen' = screen /\ lastFb' = lastFb
          /\ flip' = [flip EXCEPT !.event = FALSE]
      BY <2>5 DEF OnSessionPaused
    <3>2. layers' = layers /\ out' \subseteq out
      BY <1>1, <3>1, DeliveryLeavesLayers
    <3>3. InFlight' = {} /\ ~HoldsFrame'
      BY <3>1 DEF InFlight, HoldsFrame
    <3>4. screen'.n <= drainedTo' /\ flip'.n <= drainedTo'
      BY <1>1, <3>1 DEF Numbers, TypeOK
    <3>5. screen'.n \in Nat /\ flip'.n \in Nat /\ drainedTo' \in Nat
      BY <1>1, <3>1 DEF TypeOK
    <3>6. UndrainedBy(drainedTo', screen'.n, screen'.shows) /\ UndrainedBy(drainedTo', flip'.n, flip'.shows)
      BY <3>4, <3>5 DEF Undrained, UndrainedBy
    <3>7. QED
      BY <1>1, <2>1, <3>1, <3>2, <3>3, <3>6 DEF Undrained, UndrainedBy
  <2>6. CASE Teardown
    <3>1. /\ layers' = layers /\ frame' = frame /\ builds' = builds
          /\ out' = out /\ previous' = previous /\ twoAgo' = twoAgo /\ lastFb' = lastFb
          /\ session' = session /\ drainedTo' = drainedTo /\ screen' = screen /\ flip' = flip
      BY <2>6 DEF Teardown, sourceVars, kernelVars, historyVars
    <3>2. InFlight' = InFlight /\ HoldsFrame' = HoldsFrame
      BY <3>1 DEF InFlight, HoldsFrame
    <3>3. QED
      BY <1>1, <2>1, <3>1, <3>2 DEF Undrained, UndrainedBy
  <2>7. QED
    BY <1>11, <2>2, <2>3, <2>4, <2>5, <2>6 DEF Waits
<1>12. QED
  BY <1>6, <1>7, <1>8, <1>9, <1>10, <1>11 DEF SceneMoves


-----------------------------------------------------------------------------
(* What each path does to the ring.                                        *)

\* What is told to be repainted is cells of the buffer.
LEMMA RegionIsCells ==
  ASSUME RingInv
  PROVE  LeaseRepaint.region \subseteq Cells
<1>1. RingTypes /\ Missed
  BY DEF RingInv
<1>2. CASE FreeSlots = {}
  BY <1>2 DEF LeaseRepaint, Full
<1>3. CASE FreeSlots # {}
  <2>1. Freshest \in DOMAIN slots
    BY <1>1, <1>3, FreshestIsFree DEF FreeSlots, Missed
  <2> DEFINE last == slots[Freshest].lastPresent
  <2>2. last \in Nat /\ last <= presentSeq
    <3>1. \A S : \A s \in Seq(S) : \A k \in DOMAIN s : s[k] \in S
      OBVIOUS
    <3>2. slots[Freshest] \in SlotType
      <4> HIDE DEF SlotType
      <4>1. QED
        BY <1>1, <2>1, <3>1 DEF RingTypes
    <3>3. QED
      BY <1>1, <2>1, <3>2 DEF Missed, SlotType
  <2>3. LeaseRepaint.region = RepaintFor(last).region
    BY <1>3 DEF LeaseRepaint
  <2> HIDE DEF last
  <2>4. \/ RepaintFor(last).region = Cells
        \/ last > 0 /\ last >= baseSeq /\ RepaintFor(last).region = ChangedSince(last)
    BY <1>1, <2>2, RepaintIs
  <2>5. last >= baseSeq => ChangedSince(last) \subseteq Cells
    <3>1. \A j \in 1..Len(damage) : damage[j] \subseteq Cells
      BY <1>1 DEF RingTypes
    <3>2. last >= baseSeq => last - baseSeq + 1 .. Len(damage) \subseteq 1..Len(damage)
      BY <1>1, <2>2 DEF RingTypes
    <3>3. QED
      BY <3>1, <3>2 DEF ChangedSince, ChangedIn
  <2>6. QED
    BY <2>3, <2>4, <2>5
<1>4. QED
  BY <1>2, <1>3

\* Slots may change hands, and new ones be grown: nothing is presented.
LEMMA SlotsMove ==
  ASSUME RingInv, slots' \in Seq(SlotType), Len(slots') <= MaxSlots,
         \A i \in DOMAIN slots' :
           \/ slots'[i].lastPresent = 0
           \/ i \in DOMAIN slots /\ slots'[i].lastPresent = slots[i].lastPresent,
         UNCHANGED <<damage, presentSeq, baseSeq, allocated, outdated>>, painted' \in Nat
  PROVE  RingInv'
<1>1. RingTypes'
  BY DEF RingInv, RingTypes
<1>2. Missed'
  BY DEF RingInv, RingTypes, Missed, ChangedSince, ChangedIn
<1>3. QED
  BY <1>1, <1>2 DEF RingInv

\* Slots set free, whichever they are, are otherwise as they were.
LEMMA SlotsFreed ==
  ASSUME RingTypes, NEW freed,
         slots' = [i \in DOMAIN slots |->
                     IF i \in freed THEN [slots[i] EXCEPT !.state = "Free"] ELSE slots[i]]
  PROVE  /\ slots' \in Seq(SlotType) /\ Len(slots') = Len(slots) /\ DOMAIN slots' = DOMAIN slots
         /\ \A i \in DOMAIN slots :
              /\ slots'[i].lastPresent = slots[i].lastPresent
              /\ slots'[i].state = IF i \in freed THEN "Free" ELSE slots[i].state
<1>1. \A S : \A s \in Seq(S) : /\ DOMAIN s = 1..Len(s) /\ Len(s) \in Nat
                               /\ \A k \in DOMAIN s : s[k] \in S
  OBVIOUS
<1>2. /\ DOMAIN slots = 1..Len(slots) /\ Len(slots) \in Nat
      /\ \A i \in DOMAIN slots : slots[i] \in SlotType
  <2> HIDE DEF SlotType
  <2>1. QED
    BY <1>1 DEF RingTypes
<1>3. \A i \in DOMAIN slots : slots'[i] \in SlotType
  BY <1>2 DEF SlotType
<1>4. slots' \in Seq(SlotType) /\ Len(slots') = Len(slots) /\ DOMAIN slots' = DOMAIN slots
  <2>1. \A S, f : \A n \in Nat : f = [i \in 1..n |-> f[i]] /\ (\A i \in 1..n : f[i] \in S)
          => f \in Seq(S) /\ Len(f) = n /\ DOMAIN f = 1..n
    OBVIOUS
  <2>2. slots' = [i \in 1..Len(slots) |-> slots'[i]]
    BY <1>2
  <2> HIDE DEF SlotType
  <2>3. QED
    BY <1>2, <1>3, <2>1, <2>2
<1>5. \A i \in DOMAIN slots :
        /\ slots'[i].lastPresent = slots[i].lastPresent
        /\ slots'[i].state = IF i \in freed THEN "Free" ELSE slots[i].state
  BY <1>2 DEF SlotType
<1>6. QED
  BY <1>4, <1>5

\* What releases the slots returned frees, or what is not on screen.
LEMMA ReleaseIs ==
  ASSUME RingTypes, NEW returned,
         slots' = [i \in DOMAIN slots |->
                     IF i \in returned /\ slots[i].state # "Scanning"
                       THEN [slots[i] EXCEPT !.state = "Free"] ELSE slots[i]]
  PROVE  /\ slots' \in Seq(SlotType) /\ Len(slots') = Len(slots) /\ DOMAIN slots' = DOMAIN slots
         /\ \A i \in DOMAIN slots :
              /\ slots'[i].lastPresent = slots[i].lastPresent
              /\ slots'[i].state = IF i \in returned /\ slots[i].state # "Scanning"
                                   THEN "Free" ELSE slots[i].state
<1> DEFINE freed == {i \in DOMAIN slots : i \in returned /\ slots[i].state # "Scanning"}
<1>1. slots' = [i \in DOMAIN slots |->
                  IF i \in freed THEN [slots[i] EXCEPT !.state = "Free"] ELSE slots[i]]
  OBVIOUS
<1>2. \A i \in DOMAIN slots : i \in freed <=> i \in returned /\ slots[i].state # "Scanning"
  OBVIOUS
<1> HIDE DEF freed
<1>3. QED
  BY <1>1, <1>2, SlotsFreed

\* What each of the paths' actions does to the ring: nothing, a frame painted,
\* a slot that moves, or a ring made anew.
RingMoves ==
  \/ UNCHANGED dumbRingVars
  \/ \E changed, reported \in SUBSET Cells :
       PaintIncrementally(changed, reported)
  \/ Paint(Cells, Cells, Cells)
  \/ PaintFails
  \/ AcquirePainted
  \/ \E returned \in SUBSET Nat : ReleasePainted(returned)
  \/ /\ slots' = [i \in DOMAIN slots |->
                    IF i \in {painted} /\ slots[i].state # "Scanning"
                      THEN [slots[i] EXCEPT !.state = "Free"] ELSE slots[i]]
     /\ painted' = 0
     /\ UNCHANGED <<damage, presentSeq, baseSeq, allocated, outdated>>
  \/ DumbRingPaused

\* The ring's moves keep its invariant.
LEMMA RingMovesStep ==
  ASSUME RingInv, RingMoves
  PROVE  RingInv'
<1>1. RingTypes /\ Missed
  BY DEF RingInv
<1>2. CASE UNCHANGED dumbRingVars
  BY <1>2 DEF dumbRingVars, bufferRingVars, RingInv, RingTypes, Missed, ChangedSince, ChangedIn
<1>3. ASSUME NEW changed \in SUBSET Cells, NEW reported \in SUBSET Cells,
             PaintIncrementally(changed, reported)
      PROVE  RingInv'
  <2> DEFINE paints == LeaseRepaint.region \cup changed
  <2>1. paints \in SUBSET Cells
    BY RegionIsCells
  <2>2. reported \in {changed, paints} /\ Paint(changed, paints, reported)
    BY <1>3 DEF PaintIncrementally
  <2>3. LeaseRepaint.region \cup changed \subseteq paints /\ changed \subseteq reported
    BY <2>2
  <2> HIDE DEF paints
  <2>4. QED
    BY <2>1, <2>2, <2>3, PaintStep
<1>4. CASE Paint(Cells, Cells, Cells)
  <2>1. LeaseRepaint.region \cup Cells \subseteq Cells
    BY RegionIsCells
  <2>2. QED
    BY <1>4, <2>1, PaintStep
<1>5. CASE PaintFails
  <2>1. /\ CanLease /\ slots' = SlotsLeased /\ painted' = painted
        /\ UNCHANGED <<damage, presentSeq, baseSeq, allocated, outdated>>
    BY <1>5 DEF PaintFails
  <2>2. /\ SlotsLeased \in Seq(SlotType) /\ Len(SlotsLeased) <= MaxSlots
        /\ \A i \in DOMAIN SlotsLeased :
             \/ SlotsLeased[i].lastPresent = 0
             \/ i \in DOMAIN slots /\ SlotsLeased[i].lastPresent = slots[i].lastPresent
    <3> HIDE DEF SlotType
    <3>1. QED
      BY <2>1, Leases
  <2>3. painted' \in Nat
    BY <1>1, <2>1 DEF RingTypes
  <2> HIDE DEF SlotType
  <2>4. QED
    BY <2>1, <2>2, <2>3, SlotsMove
<1>6. CASE AcquirePainted
  BY <1>6 DEF AcquirePainted, bufferRingVars, RingInv, RingTypes, Missed, ChangedSince, ChangedIn
<1>7. ASSUME NEW returned,
             slots' = [i \in DOMAIN slots |->
                         IF i \in returned /\ slots[i].state # "Scanning"
                           THEN [slots[i] EXCEPT !.state = "Free"] ELSE slots[i]],
             UNCHANGED <<damage, presentSeq, baseSeq, allocated, outdated>>,
             painted' \in {painted, 0}
      PROVE  RingInv'
  <2>1. /\ slots' \in Seq(SlotType) /\ Len(slots') = Len(slots) /\ DOMAIN slots' = DOMAIN slots
        /\ \A i \in DOMAIN slots : slots'[i].lastPresent = slots[i].lastPresent
    BY <1>1, <1>7, ReleaseIs
  <2>2. painted' \in Nat /\ Len(slots') <= MaxSlots
    BY <1>1, <1>7, <2>1 DEF RingTypes
  <2> HIDE DEF SlotType
  <2>3. QED
    BY <1>7, <2>1, <2>2, SlotsMove
<1>8. CASE DumbRingPaused
  <2>1. /\ slots' = <<>> /\ damage' = <<>> /\ presentSeq' = 0 /\ baseSeq' = 0
        /\ allocated' = {} /\ painted' = 0 /\ outdated' = outdated
    BY <1>8 DEF DumbRingPaused, NewRing
  <2>2. RingTypes'
    BY <1>1, <2>1, RingAssumption DEF RingTypes
  <2>3. Missed'
    BY <2>1 DEF Missed
  <2>4. QED
    BY <2>2, <2>3 DEF RingInv
<1>9. CASE \E returned \in SUBSET Nat : ReleasePainted(returned)
  <2>1. PICK returned \in SUBSET Nat : ReleasePainted(returned)
    BY <1>9
  <2>2. QED
    BY <1>7, <2>1 DEF ReleasePainted, ReleaseSlots
<1>10. CASE /\ slots' = [i \in DOMAIN slots |->
                           IF i \in {painted} /\ slots[i].state # "Scanning"
                             THEN [slots[i] EXCEPT !.state = "Free"] ELSE slots[i]]
            /\ painted' = 0
            /\ UNCHANGED <<damage, presentSeq, baseSeq, allocated, outdated>>
  BY <1>7, <1>10
<1>11. QED
  BY <1>2, <1>3, <1>4, <1>5, <1>6, <1>8, <1>9, <1>10 DEF RingMoves

\* Whatever the path, a step does to the ring only what RingMoves lists.
LEMMA PathMovesRing ==
  ASSUME RingInv, path \in {"ring", "sink", "backend"}, [PresentNext]_presentVars
  PROVE  RingMoves
<1>1. painted \in Nat /\ lent \in SUBSET lent
  BY DEF RingInv, RingTypes
<1>2. CASE UNCHANGED presentVars
  BY <1>2 DEF presentVars, sinkVars, RingMoves
<1>3. CASE path # "ring" /\ path' = path /\ Creates
  BY <1>3 DEF Creates, sinkVars, RingMoves
<1>4. CASE path = "ring" /\ path' = path /\ RingNext
  <2>1. CASE RingPaints
    BY <1>4, <2>1 DEF RingPaints, RingMoves
  <2>2. CASE RingIsReturned
    <3>1. PICK slot \in lent : ReleasePainted({slot})
      BY <2>2 DEF RingIsReturned
    <3>2. ReleasePainted({slot} \cap Nat)
      <4>1. \A i \in DOMAIN slots : i \in {slot} <=> i \in {slot} \cap Nat
        <5>1. \A S : \A s \in Seq(S) : \A i \in DOMAIN s : i \in Nat
          OBVIOUS
        <5> HIDE DEF SlotType
        <5>2. QED
          BY <5>1 DEF RingInv, RingTypes
      <4>2. QED
        BY <3>1, <4>1 DEF ReleasePainted, ReleaseSlots
    <3>3. QED
      BY <3>2 DEF RingMoves
  <2>3. QED
    BY <1>4, <2>1, <2>2 DEF RingNext, RingIsAcquired, RingIsPaused, RingMoves
<1>5. CASE path = "sink" /\ path' = path /\ SinkNext
  <2>1. CASE SinkBuildFails
    BY <2>1 DEF SinkBuildFails, RingMoves
  <2>2. CASE SinkFinalizes
    <3>1. ReleasePainted(SlotsBack)
      BY <2>2 DEF SinkFinalizes
    <3>2. ReleasePainted(SlotsBack \cap Nat)
      <4>1. \A i \in DOMAIN slots : i \in SlotsBack <=> i \in SlotsBack \cap Nat
        <5>1. \A S : \A s \in Seq(S) : \A i \in DOMAIN s : i \in Nat
          OBVIOUS
        <5> HIDE DEF SlotType
        <5>2. QED
          BY <5>1 DEF RingInv, RingTypes
      <4> HIDE DEF SlotsBack
      <4>2. QED
        BY <3>1, <4>1 DEF ReleasePainted, ReleaseSlots
    <3>3. QED
      BY <3>2 DEF RingMoves
  <2>3. CASE \E kind \in {"flip", "blocking"} : SinkBuilds(kind)
    BY <2>3 DEF SinkBuilds, RingMoves
  <2>4. QED
    BY <1>5, <2>1, <2>2, <2>3 DEF SinkNext, SinkPaints, SinkPaintFails, SinkEmitFails,
         SinkPauses, SinkElsewhere, sinkVars, RingMoves
<1>6. CASE path = "backend" /\ path' = path /\ BackendNext /\ UNCHANGED sinkVars
  BY <1>6 DEF sinkVars, RingMoves
<1>7. QED
  BY <1>2, <1>3, <1>4, <1>5, <1>6 DEF PresentNext

\* The slot presented last is whole.
LEMMA RingCovers == ASSUME RingInv PROVE RepaintCovers
<1>1. RingTypes /\ Missed
  BY DEF RingInv
<1>2. ChangedSince(presentSeq) = {}
  <2>1. presentSeq - baseSeq + 1 .. Len(damage) = {}
    BY <1>1 DEF RingTypes
  <2>2. QED
    BY <2>1 DEF ChangedSince, ChangedIn
<1>3. presentSeq \in Nat /\ baseSeq \in Nat /\ presentSeq >= baseSeq
  BY <1>1 DEF RingTypes
<1>4. QED
  BY <1>1, <1>2, <1>3 DEF RepaintCovers, Missed

-----------------------------------------------------------------------------
(* The slots a sink has out, and those it has lost.                        *)

\* How many there are of some slots, and of one more.
LEMMA CountsOfParts ==
  \A n \in Nat : \A S, T \in SUBSET (1..n) :
    /\ Cardinality(S) \in Nat
    /\ S \subseteq T => Cardinality(S) <= Cardinality(T)
    /\ \A x : S \subseteq T \cup {x} => Cardinality(S) <= Cardinality(T) + 1
<1> SUFFICES ASSUME NEW n \in Nat, NEW S \in SUBSET (1..n), NEW T \in SUBSET (1..n)
    PROVE  /\ Cardinality(S) \in Nat
           /\ S \subseteq T => Cardinality(S) <= Cardinality(T)
           /\ \A x : S \subseteq T \cup {x} => Cardinality(S) <= Cardinality(T) + 1
  OBVIOUS
<1>1. IsFiniteSet(S) /\ IsFiniteSet(T)
  <2>1. IsFiniteSet(1..n)
    BY FS_Interval
  <2>2. QED
    BY <2>1, FS_Subset
<1>2. Cardinality(S) \in Nat /\ Cardinality(T) \in Nat
  BY <1>1, FS_CardinalityType
<1>3. S \subseteq T => Cardinality(S) <= Cardinality(T)
  BY <1>1, FS_Subset
<1>4. ASSUME NEW x, S \subseteq T \cup {x}
      PROVE  Cardinality(S) <= Cardinality(T) + 1
  <2>1. /\ IsFiniteSet(T \cup {x})
        /\ Cardinality(T \cup {x}) = IF x \in T THEN Cardinality(T) ELSE Cardinality(T) + 1
    BY <1>1, FS_AddElement
  <2>2. Cardinality(S) <= Cardinality(T \cup {x})
    BY <1>4, <2>1, FS_Subset
  <2>3. Cardinality(T \cup {x}) <= Cardinality(T) + 1
    BY <1>2, <2>1
  <2>4. QED
    BY <1>1, <1>2, <2>1, <2>2, <2>3, FS_CardinalityType
<1>5. QED
  BY <1>2, <1>3, <1>4

\* The slots lost are finitely many.
LEMMA LostAreSlots ==
  ASSUME RingTypes
  PROVE  LostSlots \in SUBSET (1..MaxSlots) /\ MaxSlots \in Nat
<1>1. \A S : \A s \in Seq(S) : DOMAIN s = 1..Len(s) /\ Len(s) \in Nat
  OBVIOUS
<1>2. DOMAIN slots = 1..Len(slots) /\ Len(slots) \in Nat
  <2> HIDE DEF SlotType
  <2>1. QED
    BY <1>1 DEF RingTypes
<1>3. QED
  BY <1>2, RingAssumption DEF LostSlots, RingTypes

\* They are so before a step and after it.
LEMMA LostStaySlots ==
  ASSUME RingTypes, RingTypes'
  PROVE  /\ LostSlots \in SUBSET (1..MaxSlots) /\ LostSlots' \in SUBSET (1..MaxSlots)
         /\ MaxSlots \in Nat
<1>1. \A S : \A s \in Seq(S) : DOMAIN s = 1..Len(s) /\ Len(s) \in Nat
  OBVIOUS
<1>2. DOMAIN slots' = 1..Len(slots') /\ Len(slots') \in Nat /\ Len(slots') <= MaxSlots
  <2> HIDE DEF SlotType
  <2>1. QED
    BY <1>1 DEF RingTypes
<1>3. LostSlots' \subseteq DOMAIN slots'
  BY DEF LostSlots
<1>4. LostSlots' \in SUBSET (1..MaxSlots)
  BY <1>2, <1>3, RingAssumption
<1>5. QED
  BY <1>4, LostAreSlots

\* A call fails or not, and a pause starts the count again.
LEMMA FailuresStep ==
  ASSUME failures \in Nat, [PresentNext]_presentVars
  PROVE  failures' \in Nat
<1> USE DEF FailsOnce, pathVars
<1>1. CASE UNCHANGED presentVars \/ Creates
  BY <1>1 DEF presentVars, Creates
<1>2. CASE path = "ring" /\ RingNext /\ UNCHANGED <<vars, pathVars, carries, backendVars>>
  BY <1>2
<1>3. CASE LearnFails \/ (\E kind \in {"flip", "blocking"} : PathBuilds(kind)) \/ PathBuildFails
           \/ PathAccepted \/ PathRefused \/ PathSwitches \/ PathFlips
  BY <1>3 DEF LearnFails, PathBuilds, PathBuildFails, PathAccepted, PathRefused, PathSwitches,
       PathFlips
<1>4. CASE SinkNext
  BY <1>3, <1>4 DEF SinkNext, SinkPaints, SinkPaintFails, SinkBuilds, SinkBuildFails,
       SinkEmitFails, SinkFinalizes, SinkPauses, SinkElsewhere
<1>5. CASE BackendNext
  BY <1>3, <1>5 DEF BackendNext, BackendPresents, BackendPresentsIfChanged, BackendForcesFull,
       BackendSetsVrr, BackendAccepted, BackendRefused, BackendSwitches, BackendDrops,
       BackendElsewhere
<1>6. QED
  BY <1>1, <1>2, <1>4, <1>5 DEF PresentNext

\* A slot more is lost for a failure that has not been counted.
LEMMA LossStep ==
  ASSUME RingInv, RingInv', LossesCounted, path = "sink", failures \in Nat, failures' \in Nat,
         \/ LostSlots' \subseteq LostSlots /\ failures' - Owed' >= failures - Owed
         \/ /\ \E x : LostSlots' \subseteq LostSlots \cup {x}
            /\ failures' - Owed' >= failures - Owed + 1
  PROVE  LossesCounted'
<1>1. /\ LostSlots \in SUBSET (1..MaxSlots) /\ LostSlots' \in SUBSET (1..MaxSlots)
      /\ MaxSlots \in Nat
  BY LostStaySlots DEF RingInv
<1>2. Cardinality(LostSlots) \in Nat /\ Cardinality(LostSlots') \in Nat
  BY <1>1, CountsOfParts
<1>3. Owed \in 0..1 /\ Owed' \in 0..1
  BY DEF Owed
<1>4. Cardinality(LostSlots) + Owed <= failures
  BY DEF LossesCounted
<1>a. \A c, d, f, g \in Nat : \A o, q \in 0..1 :
        c + o <= f /\ d <= c /\ g - q >= f - o => d + q <= g
  OBVIOUS
<1>b. \A c, d, f, g \in Nat : \A o, q \in 0..1 :
        c + o <= f /\ d <= c + 1 /\ g - q >= f - o + 1 => d + q <= g
  OBVIOUS
<1>5. CASE LostSlots' \subseteq LostSlots /\ failures' - Owed' >= failures - Owed
  <2>1. Cardinality(LostSlots') <= Cardinality(LostSlots)
    BY <1>1, <1>5, CountsOfParts
  <2>2. Cardinality(LostSlots') + Owed' <= failures'
    BY <1>2, <1>3, <1>4, <1>5, <1>a, <2>1
  <2>3. QED
    BY <2>2 DEF LossesCounted
<1>6. CASE /\ \E x : LostSlots' \subseteq LostSlots \cup {x}
           /\ failures' - Owed' >= failures - Owed + 1
  <2>1. Cardinality(LostSlots') <= Cardinality(LostSlots) + 1
    BY <1>1, <1>6, CountsOfParts
  <2>2. Cardinality(LostSlots') + Owed' <= failures'
    BY <1>2, <1>3, <1>4, <1>6, <1>b, <2>1
  <2>3. QED
    BY <2>2 DEF LossesCounted
<1>7. QED
  BY <1>5, <1>6

\* What the sink's ring and acquisitions are not told of.
SinkIdle ==
  /\ path' = path /\ path = "sink"
  /\ UNCHANGED sinkVars /\ UNCHANGED <<out, previous, twoAgo, drainedTo, fresh>>
  /\ frame'.n = frame.n /\ frame'.shows = frame.shows /\ frame'.kind = frame.kind
  /\ layers'[SinkLayer] = "absent" => layers[SinkLayer] = "absent"
  /\ calling' \in {calling, "none"}
  /\ \/ failures' = failures /\ Owed' <= Owed
     \/ failures' = failures + 1

\* A step that moves neither slots nor buffers keeps the sink's invariant.
LEMMA SinkIdleStep ==
  ASSUME RingInv, RingInv', SinkInv, SinkIdle
  PROVE  SinkInv'
<1>1. /\ SinkTypes /\ SlotsOut /\ PaintedScans /\ LossesCounted /\ path' = path
      /\ path = "sink"
      /\ slots' = slots /\ painted' = painted /\ carries' = carries /\ drainedTo' = drainedTo
      /\ out' = out /\ previous' = previous /\ twoAgo' = twoAgo /\ fresh' = fresh
      /\ frame'.n = frame.n /\ frame'.shows = frame.shows /\ frame'.kind = frame.kind
      /\ calling' \in {calling, "none"} /\ failures \in Nat
  BY DEF SinkInv, SinkIdle, sinkVars, dumbRingVars, bufferRingVars, SinkTypes
<1>2. SinkTypes'
  BY <1>1 DEF SinkTypes, SinkIdle
<1>3. SlotsOut'
  BY <1>1 DEF SlotsOut, IsKept
<1>4. PaintedScans'
  BY <1>1 DEF PaintedScans, HoldsFrame
<1>5. LossesCounted'
  <2>1. LostSlots' = LostSlots
    BY <1>1 DEF LostSlots, Held, InFlight, Own
  <2>2. Owed \in 0..1 /\ Owed' \in 0..1
    BY DEF Owed
  <2>3. failures' \in Nat /\ failures' - Owed' >= failures - Owed
    BY <1>1, <2>2 DEF SinkIdle
  <2>4. QED
    BY <1>1, <2>1, <2>3, LossStep
<1>6. QED
  BY <1>2, <1>3, <1>4, <1>5 DEF SinkInv

\* A slot leased is none of those that are out, painted or lost.
LEMMA LeasedIsNew ==
  ASSUME RingInv, SlotsOut, CanLease
  PROVE  \A a \in out : IsKept(a) => carries[a.frame] # LeasedSlot
<1>1. LeasedSlot \in DOMAIN slots => LeasedSlot \in FreeSlots
  BY Leases
<1>2. QED
  BY <1>1 DEF SlotsOut, FreeSlots

\* Painting takes a slot that nothing shows, and hands it to the scene.
LEMMA SinkPaintsStep ==
  ASSUME RingInv, RingInv', SceneInv, SceneFacts', SinkInv, path = "sink", path' = path,
         SinkPaints
  PROVE  SinkInv'
<1> DEFINE slot == LeasedSlot
<1>1. /\ SinkTypes /\ SlotsOut /\ PaintedScans /\ LossesCounted
      /\ MayCall /\ layers[SinkLayer] = "live" /\ SinkLayer \in Layers
      /\ Paint(Cells, Cells, Cells) /\ CanLease
      /\ calling' = "present" /\ failures' = failures /\ carries' = carries
  BY SinkAssumption, SceneAssumption DEF SinkInv, SinkPaints, Paint
<1>2. /\ out' = out /\ previous' = previous /\ twoAgo' = twoAgo /\ drainedTo' = drainedTo
      /\ frame' = frame /\ layers' = layers /\ SinkLayer \in fresh'
  BY DEF SinkPaints, Produce, vars, sceneVars, sourceVars, historyVars
<1>3. /\ slot \in 1..MaxSlots
      /\ DOMAIN SlotsLeased = DOMAIN slots \cup {slot}
      /\ \A i \in DOMAIN slots \ {slot} : SlotsLeased[i] = slots[i]
  BY <1>1, Leases
<1>4. /\ painted' = slot
      /\ slots' = [i \in DOMAIN SlotsLeased |->
                    IF i = slot THEN [state |-> "Scanning", lastPresent |-> presentSeq + 1]
                    ELSE IF SlotsLeased[i].state = "Scanning"
                      THEN [SlotsLeased[i] EXCEPT !.state = "PendingRelease"]
                    ELSE SlotsLeased[i]]
  BY <1>1 DEF Paint, PresentSlot
<1>5. \A i \in DOMAIN slots : slots[i] \in SlotType
  <2>1. \A S : \A s \in Seq(S) : \A k \in DOMAIN s : s[k] \in S
    OBVIOUS
  <2> HIDE DEF SlotType
  <2>2. QED
    BY <2>1 DEF RingInv, RingTypes
<1>6. /\ DOMAIN slots' = DOMAIN slots \cup {slot}
      /\ slots'[slot].state = "Scanning"
      /\ \A i \in DOMAIN slots \ {slot} :
           slots'[i].state = IF slots[i].state = "Scanning" THEN "PendingRelease"
                             ELSE slots[i].state
  BY <1>3, <1>4, <1>5 DEF SlotType
<1>7. calling = "none" /\ ~HoldsFrame /\ ~HoldsFrame'
  BY <1>1, <1>2 DEF MayCall, HoldsFrame
<1> HIDE DEF slot, SlotType
<1>8. SinkTypes'
  <2>1. failures' \in Nat /\ carries' \in [1..MaxFrames -> Nat]
    BY <1>1 DEF SinkTypes
  <2>2. QED
    BY <1>1, <1>2, <2>1 DEF SinkTypes
<1>9. SlotsOut'
  <2>1. SUFFICES ASSUME NEW a \in out, IsKept(a)
        PROVE  /\ carries[a.frame] \in DOMAIN slots'
               /\ slots'[carries[a.frame]].state # "Free"
               /\ carries[a.frame] # slot
               /\ \A b \in out : IsKept(b) /\ carries[a.frame] = carries[b.frame] => a = b
    BY <1>1, <1>2, <1>4 DEF SlotsOut, IsKept
  <2>2. carries[a.frame] # slot
    BY <1>1, <2>1, LeasedIsNew DEF slot
  <2>3. /\ carries[a.frame] \in DOMAIN slots /\ slots[carries[a.frame]].state # "Free"
        /\ \A b \in out : IsKept(b) /\ carries[a.frame] = carries[b.frame] => a = b
    BY <1>1, <2>1 DEF SlotsOut
  <2>4. QED
    BY <1>6, <2>2, <2>3
<1>10. PaintedScans'
  <2>1. /\ slot \in DOMAIN slots' /\ slot # 0
        /\ \A i \in DOMAIN slots' : slots'[i].state = "Scanning" <=> i = slot
    BY <1>3, <1>6, RingAssumption
  <2>2. QED
    BY <1>1, <1>2, <1>4, <1>7, <2>1 DEF PaintedScans
<1>11. LossesCounted'
  <2>1. \A i \in LostSlots' : i \in LostSlots \/ (painted # 0 /\ i = painted)
    <3>1. SUFFICES ASSUME NEW i \in LostSlots', painted = 0 \/ i # painted
          PROVE  i \in LostSlots
      OBVIOUS
    <3>2. /\ i \in DOMAIN slots' /\ slots'[i].state # "Free" /\ i # slot
          /\ \A a \in Held : a.layer = SinkLayer => carries[a.frame] # i
      BY <1>1, <1>2, <1>4, <3>1 DEF LostSlots, Held, InFlight, Own
    <3>3. i \in DOMAIN slots /\ slots[i].state # "Free" /\ i # 0
      <4>1. \A S : \A s \in Seq(S) : \A k \in DOMAIN s : k # 0
        OBVIOUS
      <4>2. i \in DOMAIN slots => i # 0
        BY <4>1 DEF RingInv, RingTypes
      <4>3. QED
        BY <1>6, <3>2, <4>2
    <3>4. QED
      BY <3>1, <3>2, <3>3 DEF LostSlots
  <2>2. Owed' = 0 /\ Owed = IF painted # 0 THEN 1 ELSE 0
    BY <1>1, <1>7 DEF Owed
  <2>3. failures \in Nat /\ failures' \in Nat
    BY <1>1 DEF SinkTypes
  <2>4. CASE painted = 0
    <3>1. LostSlots' \subseteq LostSlots /\ failures' - Owed' >= failures - Owed
      BY <1>1, <2>1, <2>2, <2>3, <2>4
    <3>2. QED
      BY <1>1, <2>3, <3>1, LossStep
  <2>5. CASE painted # 0
    <3>1. LostSlots' \subseteq LostSlots \cup {painted}
      BY <2>1
    <3>2. failures' - Owed' >= failures - Owed + 1
      BY <1>1, <2>2, <2>3, <2>5
    <3>3. QED
      BY <1>1, <2>3, <3>1, <3>2, LossStep
  <2>6. QED
    BY <2>4, <2>5
<1>12. QED
  BY <1>8, <1>9, <1>10, <1>11 DEF SinkInv

\* A painter that fails may lose the slot it was given, and counts as a failure.
LEMMA SinkPaintFailsStep ==
  ASSUME RingInv, RingInv', SceneInv, SinkInv, path = "sink", path' = path, SinkPaintFails
  PROVE  SinkInv'
<1> DEFINE slot == LeasedSlot
<1>1. /\ SinkTypes /\ SlotsOut /\ PaintedScans /\ LossesCounted
      /\ MayCall /\ layers[SinkLayer] = "live" /\ CanLease
      /\ slots' = SlotsLeased /\ painted' = painted /\ carries' = carries
      /\ calling' = calling /\ failures' = failures + 1 /\ failures \in Nat
  BY DEF SinkInv, SinkTypes, SinkPaintFails, PaintFails, FailsOnce
<1>2. /\ out' = out /\ previous' = previous /\ twoAgo' = twoAgo /\ drainedTo' = drainedTo
      /\ frame' = frame /\ layers' = layers /\ fresh' = fresh
  BY DEF SinkPaintFails, vars, sceneVars, sourceVars, historyVars
<1>3. /\ DOMAIN slots' = DOMAIN slots \cup {slot}
      /\ slots'[slot].state = "InFlight"
      /\ \A i \in DOMAIN slots \ {slot} : slots'[i] = slots[i]
      /\ slot \in DOMAIN slots => slot \in FreeSlots
  BY <1>1, Leases
<1>4. calling = "none" /\ ~HoldsFrame /\ ~HoldsFrame'
  BY <1>1, <1>2 DEF MayCall, HoldsFrame
<1> HIDE DEF slot
<1>5. slot \in DOMAIN slots => slots[slot].state = "Free"
  BY <1>3 DEF FreeSlots
<1>6. SinkTypes'
  BY <1>1, <1>2 DEF SinkTypes
<1>7. SlotsOut'
  <2>1. SUFFICES ASSUME NEW a \in out, IsKept(a)
        PROVE  /\ carries[a.frame] \in DOMAIN slots'
               /\ slots'[carries[a.frame]].state # "Free"
               /\ carries[a.frame] # painted
               /\ \A b \in out : IsKept(b) /\ carries[a.frame] = carries[b.frame] => a = b
    BY <1>1, <1>2 DEF SlotsOut, IsKept
  <2>2. /\ carries[a.frame] \in DOMAIN slots /\ slots[carries[a.frame]].state # "Free"
        /\ carries[a.frame] # painted
        /\ \A b \in out : IsKept(b) /\ carries[a.frame] = carries[b.frame] => a = b
    BY <1>1, <2>1 DEF SlotsOut
  <2>3. carries[a.frame] # slot
    BY <1>1, <2>1, LeasedIsNew DEF slot
  <2>4. QED
    BY <1>3, <2>2, <2>3
<1>8. PaintedScans'
  <2>1. painted # 0 => /\ painted \in DOMAIN slots'
                       /\ \A i \in DOMAIN slots' : slots'[i].state = "Scanning" <=> i = painted
    BY <1>1, <1>3, <1>5 DEF PaintedScans
  <2>2. QED
    BY <1>1, <1>2, <1>4, <2>1 DEF PaintedScans
<1>9. LossesCounted'
  <2>1. LostSlots' \subseteq LostSlots \cup {slot}
    BY <1>1, <1>2, <1>3 DEF LostSlots, Held, InFlight, Own
  <2>2. Owed' = Owed /\ Owed \in 0..1
    BY <1>1, <1>4 DEF Owed
  <2>3. failures' \in Nat /\ failures' - Owed' >= failures - Owed + 1
    BY <1>1, <2>2
  <2>4. QED
    BY <1>1, <2>1, <2>3, LossStep
<1>10. QED
  BY <1>6, <1>7, <1>8, <1>9 DEF SinkInv

\* The acquisition of the frame being built carries the slot painted.
LEMMA SinkBuildsStep ==
  ASSUME RingInv, RingInv', SceneInv, TypeOK', SceneFacts', SinkInv, path = "sink",
         path' = path, NEW kind \in {"flip", "blocking"}, SinkBuilds(kind)
  PROVE  SinkInv'
<1> DEFINE new == [layer |-> SinkLayer, frame |-> builds + 1]
<1>1. /\ SinkTypes /\ SlotsOut /\ PaintedScans /\ LossesCounted
      /\ calling = "present" /\ calling' = "none" /\ painted # 0 /\ painted' = 0
      /\ slots' = slots /\ carries' = [carries EXCEPT ![builds + 1] = painted]
      /\ failures' = failures /\ failures \in Nat
      /\ SinkLayer \in Layers /\ MaxFrames \in Nat
  BY SinkAssumption, SceneAssumption
     DEF SinkInv, SinkTypes, SinkBuilds, PathBuilds, AcquirePainted, bufferRingVars
<1>2. /\ ~HoldsFrame /\ builds < MaxFrames /\ builds \in Nat /\ drainedTo \in Nat
      /\ out' = out \cup Acquired(Ready, builds + 1)
      /\ frame' = [n |-> builds + 1, kind |-> kind, keeps |-> Live = {},
                   shows |-> Acquired(Ready, builds + 1) \cup Reattached, result |-> "none"]
      /\ layers' = layers /\ previous' = previous /\ twoAgo' = twoAgo
      /\ drainedTo' = drainedTo
  BY DEF SinkBuilds, PathBuilds, BuildFrame, AcquireFrom, MayBuild, kernelVars, SceneInv, TypeOK
<1>3. /\ layers[SinkLayer] = "live" /\ SinkLayer \in fresh
      /\ painted \in DOMAIN slots
      /\ \A i \in DOMAIN slots : slots[i].state = "Scanning" <=> i = painted
  BY <1>1 DEF PaintedScans, SceneInv, SceneFacts, LayerOf
<1>4. SinkLayer \in Ready
  BY <1>1, <1>3 DEF Ready, Live
<1>5. /\ drainedTo <= builds /\ \A a \in out : a.frame <= builds /\ a.frame \in Nat
      /\ Held \subseteq out /\ Own(frame) = {}
  BY <1>2 DEF SceneInv, Numbers, HeldOnce, TypeOK, Acquisition, NoFrame, Own
<1>6. builds + 1 \in 1..MaxFrames /\ painted \in Nat
  <2>1. painted \in Nat
    BY DEF RingInv, RingTypes
  <2>2. QED
    BY <1>1, <1>2, <2>1
<1>7. /\ carries' \in [1..MaxFrames -> Nat] /\ carries'[builds + 1] = painted
      /\ \A n \in Nat : n <= builds => carries'[n] = carries[n]
  BY <1>1, <1>2, <1>6 DEF SinkTypes
<1>8. /\ \A a \in out' : a.layer = SinkLayer => a \in out \/ a = new
      /\ new \in Acquired(Ready, builds + 1) /\ new \in out'
  <2>1. \A a \in Acquired(Ready, builds + 1) : a.layer = SinkLayer => a = new
    BY DEF Acquired
  <2>2. new \in Acquired(Ready, builds + 1)
    BY <1>4 DEF Acquired
  <2> HIDE DEF new
  <2>3. QED
    BY <1>2, <2>1, <2>2
<1>9. new.frame = builds + 1 /\ new.layer = SinkLayer
  OBVIOUS
<1>10. frame'.n = builds + 1 /\ frame'.kind = kind /\ frame'.result = "none"
       /\ new \in frame'.shows /\ new \in Own(frame')
  <2>1. /\ frame'.n = builds + 1 /\ frame'.kind = kind /\ frame'.result = "none"
        /\ frame'.shows = Acquired(Ready, builds + 1) \cup Reattached
    <3>1. (Live = {}) \in BOOLEAN
      OBVIOUS
    <3>2. QED
      BY <1>2, <3>1
  <2> HIDE DEF new
  <2>2. QED
    BY <1>8, <1>9, <2>1 DEF Own
<1> HIDE DEF new
<1>11. SinkTypes'
  BY <1>1, <1>2, <1>3, <1>7 DEF SinkTypes
<1>12. SlotsOut'
  <2>1. SUFFICES ASSUME NEW a \in out', a.layer = SinkLayer, a.frame > drainedTo
        PROVE  /\ carries'[a.frame] \in DOMAIN slots
               /\ slots[carries'[a.frame]].state # "Free"
               /\ carries'[a.frame] # 0
               /\ \A b \in out' : b.layer = SinkLayer /\ b.frame > drainedTo
                                  /\ carries'[a.frame] = carries'[b.frame] => a = b
    BY <1>1, <1>2 DEF SlotsOut, IsKept
  <2>2. ASSUME NEW b \in out, b.layer = SinkLayer, b.frame > drainedTo
        PROVE  /\ carries'[b.frame] = carries[b.frame]
               /\ carries'[b.frame] \in DOMAIN slots
               /\ slots[carries'[b.frame]].state # "Free"
               /\ carries'[b.frame] # painted
               /\ \A c \in out : c.layer = SinkLayer /\ c.frame > drainedTo
                                 /\ carries[b.frame] = carries[c.frame] => b = c
    <3>1. carries'[b.frame] = carries[b.frame]
      BY <1>5, <1>7, <2>2
    <3>2. IsKept(b)
      BY <2>2 DEF IsKept
    <3>3. QED
      BY <1>1, <2>2, <3>1, <3>2 DEF SlotsOut, IsKept
  <2>3. carries'[new.frame] = painted /\ slots[painted].state # "Free"
    BY <1>3, <1>7, <1>9
  <2>4. 0 \notin DOMAIN slots
    <3>1. \A S : \A s \in Seq(S) : 0 \notin DOMAIN s
      OBVIOUS
    <3> HIDE DEF SlotType
    <3>2. QED
      BY <3>1 DEF RingInv, RingTypes
  <2>5. QED
    BY <1>3, <1>8, <2>1, <2>2, <2>3, <2>4
<1>13. PaintedScans'
  <2>1. \A i \in DOMAIN slots' : slots'[i].state = "Scanning" => i = carries'[frame'.n]
    BY <1>1, <1>3, <1>7, <1>10
  <2>2. QED
    BY <1>1, <1>10, <2>1 DEF PaintedScans, new
<1>14. LossesCounted'
  <2>1. Owed = 0 /\ Owed' = 0
    BY <1>1, <1>2, <1>10 DEF Owed, HoldsFrame
  <2>2. LostSlots' \subseteq LostSlots
    <3>1. SUFFICES ASSUME NEW i \in LostSlots' PROVE i \in LostSlots
      OBVIOUS
    <3>2. /\ i \in DOMAIN slots /\ slots[i].state # "Free"
          /\ \A a \in Held' : a.layer = SinkLayer => carries'[a.frame] # i
      BY <1>1, <3>1 DEF LostSlots
    <3>3. new \in Held' /\ \A a \in InFlight : a \in Held'
      BY <1>2, <1>10 DEF Held, InFlight
    <3>4. i # painted
      BY <1>7, <1>9, <3>2, <3>3
    <3>5. \A a \in Held : a \in InFlight /\ a.frame \in Nat /\ a.frame <= builds
      BY <1>5 DEF Held
    <3>6. \A a \in Held : a.layer = SinkLayer => carries[a.frame] # i
      BY <1>7, <3>2, <3>3, <3>5
    <3>7. QED
      BY <3>2, <3>4, <3>6 DEF LostSlots
  <2>3. failures' \in Nat /\ failures' - Owed' >= failures - Owed
    BY <1>1, <2>1
  <2>4. QED
    BY <1>1, <2>2, <2>3, LossStep
<1>15. QED
  BY <1>11, <1>12, <1>13, <1>14 DEF SinkInv

\* A frame that is not built gives its slot back while it scans out: it is lost.
LEMMA SinkBuildFailsStep ==
  ASSUME RingInv, RingInv', SceneInv, SinkInv, path = "sink", path' = path, SinkBuildFails
  PROVE  SinkInv'
<1>1. /\ SinkTypes /\ SlotsOut /\ PaintedScans /\ LossesCounted
      /\ calling = "present" /\ calling' = "none" /\ painted # 0 /\ painted' = 0
      /\ carries' = carries /\ failures' = failures + 1 /\ failures \in Nat
  BY DEF SinkInv, SinkTypes, SinkBuildFails, PathBuildFails, FailsOnce, PaintedScans
<1>2. /\ ~HoldsFrame /\ frame' = frame /\ out' = out /\ previous' = previous
      /\ twoAgo' = twoAgo /\ drainedTo' = drainedTo
      /\ layers' = [l \in Layers |-> IF layers[l] = "retiring" /\ InFlight = {}
                                     THEN "gone" ELSE layers[l]]
  BY DEF SinkBuildFails, PathBuildFails, BuildFrameFails, MayBuild, historyVars
<1>3. layers[SinkLayer] = "live" /\ SinkLayer \in Layers
  BY <1>1, SinkAssumption, SceneAssumption DEF SceneInv, SceneFacts, LayerOf
<1>4. /\ DOMAIN slots' = DOMAIN slots
      /\ \A i \in DOMAIN slots : slots'[i].state = slots[i].state
  <2>1. slots' = [i \in DOMAIN slots |->
                    IF i \in {painted} /\ slots[i].state # "Scanning"
                      THEN [slots[i] EXCEPT !.state = "Free"] ELSE slots[i]]
    BY DEF SinkBuildFails
  <2>2. \A i \in DOMAIN slots : i = painted => slots[i].state = "Scanning"
    BY <1>1 DEF PaintedScans
  <2>3. QED
    BY <2>1, <2>2
<1>5. 0 \notin DOMAIN slots
  <2>1. \A S : \A s \in Seq(S) : 0 \notin DOMAIN s
    OBVIOUS
  <2> HIDE DEF SlotType
  <2>2. QED
    BY <2>1 DEF RingInv, RingTypes
<1>6. SinkTypes'
  BY <1>1, <1>2, <1>3 DEF SinkTypes
<1>7. SlotsOut'
  <2>1. SUFFICES ASSUME NEW a \in out, IsKept(a)
        PROVE  /\ carries[a.frame] \in DOMAIN slots'
               /\ slots'[carries[a.frame]].state # "Free"
               /\ carries[a.frame] # 0
               /\ \A b \in out : IsKept(b) /\ carries[a.frame] = carries[b.frame] => a = b
    BY <1>1, <1>2 DEF SlotsOut, IsKept
  <2>2. QED
    BY <1>1, <1>4, <1>5, <2>1 DEF SlotsOut
<1>8. PaintedScans'
  BY <1>1, <1>2 DEF PaintedScans, HoldsFrame
<1>9. LossesCounted'
  <2>1. Owed = 0 /\ Owed' = 0
    BY <1>1, <1>2 DEF Owed, HoldsFrame
  <2>2. LostSlots' \subseteq LostSlots \cup {painted}
    BY <1>1, <1>2, <1>4 DEF LostSlots, Held, InFlight, Own
  <2>3. failures' \in Nat /\ failures' - Owed' >= failures - Owed + 1
    BY <1>1, <2>1
  <2>4. QED
    BY <1>1, <2>2, <2>3, LossStep
<1>10. QED
  BY <1>6, <1>7, <1>8, <1>9 DEF SinkInv

\* What a held frame acquired of the sink's layer is one buffer, the newest.
LEMMA OwnIsOne ==
  ASSUME SceneInv, SinkInv, path = "sink", HoldsFrame
  PROVE  /\ painted = 0 /\ calling = "none" /\ frame.n > drainedTo
         /\ [layer |-> SinkLayer, frame |-> frame.n] \in Own(frame)
         /\ \A a \in Own(frame) : a.frame = frame.n /\ a \in out
<1>1. painted = 0 /\ [layer |-> SinkLayer, frame |-> frame.n] \in frame.shows
  BY DEF SinkInv, PaintedScans
<1>2. calling = "none" /\ frame.n > drainedTo /\ Own(frame) \subseteq out
  BY DEF SceneInv, SceneFacts, Numbers, HeldOnce, Held, TypeOK
<1>3. QED
  BY <1>1, <1>2 DEF Own

\* A frame dropped without being finalized takes its slot with it.
LEMMA SinkEmitFailsStep ==
  ASSUME RingInv, RingInv', SceneInv, SinkInv, path = "sink", path' = path, SinkEmitFails
  PROVE  SinkInv'
<1>1. /\ SinkTypes /\ SlotsOut /\ PaintedScans /\ LossesCounted
      /\ HoldsFrame /\ frame.result = "none" /\ frame' = NoFrame
      /\ slots' = slots /\ painted' = painted /\ carries' = carries /\ calling' = calling
      /\ failures' = failures + 1 /\ failures \in Nat
      /\ out' = out /\ previous' = previous /\ twoAgo' = twoAgo /\ drainedTo' = drainedTo
      /\ layers' = layers /\ fresh' = fresh
  BY DEF SinkInv, SinkTypes, SinkEmitFails, FailsOnce, sinkVars, dumbRingVars, bufferRingVars,
         sourceVars, historyVars
<1>2. /\ painted = 0 /\ calling = "none"
      /\ \A a \in Own(frame) : a.frame = frame.n /\ a \in out
  BY <1>1, OwnIsOne
<1>3. ~HoldsFrame' /\ Own(frame') = {}
  BY <1>1 DEF HoldsFrame, NoFrame, Own
<1>4. SinkTypes'
  BY <1>1 DEF SinkTypes
<1>5. SlotsOut'
  BY <1>1 DEF SlotsOut, IsKept
<1>6. PaintedScans'
  BY <1>1, <1>2, <1>3 DEF PaintedScans
<1>7. LossesCounted'
  <2>1. Owed = 0 /\ Owed' = 0
    BY <1>1, <1>2, <1>3 DEF Owed
  <2>2. LostSlots' \subseteq LostSlots \cup {carries[frame.n]}
    <3>1. SUFFICES ASSUME NEW i \in LostSlots', i # carries[frame.n] PROVE i \in LostSlots
      OBVIOUS
    <3>2. /\ i \in DOMAIN slots /\ slots[i].state # "Free" /\ i # painted
          /\ \A a \in InFlight : a.layer = SinkLayer => carries[a.frame] # i
      BY <1>1, <1>3, <3>1 DEF LostSlots, Held, InFlight
    <3>3. QED
      BY <1>2, <3>1, <3>2 DEF LostSlots, Held
  <2>3. failures' \in Nat /\ failures' - Owed' >= failures - Owed + 1
    BY <1>1, <2>1
  <2>4. QED
    BY <1>1, <2>2, <2>3, LossStep
<1>8. QED
  BY <1>4, <1>5, <1>6, <1>7 DEF SinkInv

\* A pause takes every slot from the scene, and the ring begins anew.
LEMMA SinkPausesStep ==
  ASSUME RingInv, RingInv', SceneInv, TypeOK', Numbers', SinkInv, path = "sink", path' = path,
         SinkPauses
  PROVE  SinkInv'
<1>1. /\ SinkTypes /\ calling = "none" /\ calling' = "none" /\ carries' = carries
      /\ failures' = 0
      /\ IF layers[SinkLayer] = "live" THEN DumbRingPaused ELSE UNCHANGED dumbRingVars
      /\ OnSessionPaused
  BY DEF SinkInv, SinkPauses
<1>2. /\ ~HoldsFrame /\ frame' = frame /\ drainedTo' = builds /\ builds' = builds
      /\ Deliver(InFlight, {})
  BY <1>1 DEF OnSessionPaused
<1>3. layers' = layers
  BY <1>2, DeliveryLeavesLayers DEF SceneInv, SceneFacts
<1>4. slots' = <<>> /\ painted' = 0
  <2>1. CASE layers[SinkLayer] = "live"
    BY <1>1, <2>1 DEF DumbRingPaused, NewRing
  <2>2. CASE layers[SinkLayer] # "live"
    <3>1. layers[SinkLayer] = "absent"
      BY <2>2, SinkAssumption, SceneAssumption DEF SceneInv, SceneFacts
    <3>2. QED
      BY <1>1, <2>2, <3>1 DEF SinkTypes, dumbRingVars, bufferRingVars
  <2>3. QED
    BY <2>1, <2>2
<1>5. ~HoldsFrame'
  BY <1>2 DEF HoldsFrame
<1>6. SinkTypes'
  BY <1>1, <1>4 DEF SinkTypes
<1>7. SlotsOut'
  <2>1. \A a \in out' : ~(a.frame > drainedTo')
    BY <1>2 DEF Numbers, TypeOK, Acquisition
  <2>2. QED
    BY <2>1 DEF SlotsOut, IsKept
<1>8. PaintedScans'
  BY <1>1, <1>4, <1>5 DEF PaintedScans
<1>9. LossesCounted'
  <2>1. Owed' = 0
    BY <1>4, <1>5 DEF Owed
  <2>2. LostSlots' = {}
    BY <1>4 DEF LostSlots
  <2>3. Cardinality(LostSlots') = 0
    BY <2>2, FS_EmptySet
  <2>4. Cardinality(LostSlots') + Owed' <= failures'
    BY <1>1, <2>1, <2>3
  <2>5. QED
    BY <2>4 DEF LossesCounted
<1>10. QED
  BY <1>6, <1>7, <1>8, <1>9 DEF SinkInv

\* What the scene gives back is free, or scans out and was not shown.
LEMMA SinkFinalizesStep ==
  ASSUME RingInv, RingInv', SceneInv, SinkInv, path = "sink", path' = path, SinkFinalizes
  PROVE  SinkInv'
<1>1. /\ SinkTypes /\ SlotsOut /\ PaintedScans /\ LossesCounted
      /\ FinalizeFrameOk \/ FinalizeFrameReturns
      /\ painted' = painted /\ carries' = carries /\ calling' = calling
      /\ failures' = failures /\ failures \in Nat
  BY DEF SinkInv, SinkTypes, SinkFinalizes, ReleasePainted, pathVars
<1>2. HoldsFrame /\ frame' = NoFrame /\ drainedTo' = drainedTo
  BY <1>1 DEF FinalizeFrameOk, FinalizeFrameReturns, HoldsFrame, historyVars
<1>3. /\ painted = 0 /\ calling = "none" /\ frame.n > drainedTo
      /\ [layer |-> SinkLayer, frame |-> frame.n] \in Own(frame)
      /\ \A a \in Own(frame) : a.frame = frame.n /\ a \in out
  BY <1>2, OwnIsOne
<1>4. ~HoldsFrame' /\ Own(frame') = {}
  BY <1>2 DEF HoldsFrame, NoFrame, Own
<1>5. /\ TypeOK /\ SceneFacts /\ Held \subseteq out
      /\ \A a \in out : layers[a.layer] = "live"
      /\ \A a \in InFlight : a.frame > drainedTo
  BY DEF SceneInv, HeldOnce, SceneFacts
<1>6. /\ DOMAIN slots' = DOMAIN slots
      /\ \A i \in DOMAIN slots :
           slots'[i].state = IF i \in SlotsBack /\ slots[i].state # "Scanning"
                             THEN "Free" ELSE slots[i].state
  <2>1. slots' = [i \in DOMAIN slots |->
                    IF i \in SlotsBack /\ slots[i].state # "Scanning"
                      THEN [slots[i] EXCEPT !.state = "Free"] ELSE slots[i]]
    BY DEF SinkFinalizes, ReleasePainted, ReleaseSlots
  <2>2. RingTypes
    BY DEF RingInv
  <2> HIDE DEF SlotsBack, SlotType
  <2>3. QED
    BY <2>1, <2>2, ReleaseIs
<1>7. ASSUME NEW acqs, NEW inFlight, Deliver(acqs, inFlight), acqs \subseteq Held
      PROVE  /\ layers' = layers /\ out' = out \ acqs
             /\ SlotsBack = {carries[a.frame] : a \in {b \in acqs : b.layer = SinkLayer}}
  <2>1. /\ layers' = layers
        /\ out' = {a \in out : a \in acqs => layers[a.layer] \notin {"live", "retiring"}}
    BY <1>5, <1>7, DeliveryLeavesLayers DEF SceneFacts
  <2>2. out' = out \ acqs
    BY <1>5, <2>1
  <2>3. out \ out' = acqs
    BY <1>5, <1>7, <2>2
  <2>4. QED
    BY <2>1, <2>2, <2>3 DEF SlotsBack
<1>8. \E acqs : /\ acqs \subseteq Held /\ layers' = layers /\ out' = out \ acqs
                /\ SlotsBack = {carries[a.frame] : a \in {b \in acqs : b.layer = SinkLayer}}
  <2>1. CASE FinalizeFrameOk
    <3>1. Deliver(twoAgo, previous \cup Own(frame)) /\ twoAgo \subseteq Held
      BY <2>1 DEF FinalizeFrameOk, Rotate, Held, InFlight
    <3>2. QED
      BY <1>7, <3>1
  <2>2. CASE FinalizeFrameReturns
    <3>1. Deliver(Own(frame), InFlight) /\ Own(frame) \subseteq Held
      BY <2>2 DEF FinalizeFrameReturns, Held
    <3>2. QED
      BY <1>7, <3>1
  <2>3. QED
    BY <1>1, <2>1, <2>2
<1>9. SinkTypes'
  <2>1. layers[SinkLayer] = "live"
    BY <1>3, <1>5
  <2>2. QED
    BY <1>1, <1>8, <2>1 DEF SinkTypes
<1>10. SlotsOut'
  <2>1. PICK acqs : /\ acqs \subseteq Held /\ out' = out \ acqs
                    /\ SlotsBack = {carries[a.frame] : a \in {b \in acqs : b.layer = SinkLayer}}
    BY <1>8
  <2>2. SUFFICES ASSUME NEW a \in out', IsKept(a)
        PROVE  /\ carries[a.frame] \in DOMAIN slots'
               /\ slots'[carries[a.frame]].state # "Free"
               /\ carries[a.frame] # painted
               /\ \A b \in out : IsKept(b) /\ carries[a.frame] = carries[b.frame] => a = b
    BY <1>1, <1>2, <2>1 DEF SlotsOut, IsKept
  <2>3. /\ carries[a.frame] \in DOMAIN slots /\ slots[carries[a.frame]].state # "Free"
        /\ carries[a.frame] # painted
        /\ \A b \in out : IsKept(b) /\ carries[a.frame] = carries[b.frame] => a = b
    BY <1>1, <2>1, <2>2 DEF SlotsOut
  <2>4. \A b \in Held : b.frame > drainedTo
    BY <1>3, <1>5 DEF Held
  <2>5. \A b \in acqs : b.layer = SinkLayer => IsKept(b) /\ a # b /\ b \in out
    BY <1>5, <2>1, <2>2, <2>4 DEF IsKept
  <2>6. carries[a.frame] \notin SlotsBack
    BY <2>1, <2>3, <2>5
  <2>7. QED
    BY <1>6, <2>3, <2>6
<1>11. PaintedScans'
  BY <1>1, <1>3, <1>4 DEF PaintedScans
<1>12. LossesCounted'
  <2>1. Owed = (IF frame.result = "rejected" THEN 1 ELSE 0) /\ Owed' = 0
    BY <1>1, <1>2, <1>3, <1>4 DEF Owed
  <2>2. \A i \in LostSlots' : /\ i \in DOMAIN slots /\ slots'[i].state # "Free" /\ i # painted
                              /\ slots[i].state # "Free"
                              /\ \A a \in InFlight' : a.layer = SinkLayer => carries[a.frame] # i
    BY <1>1, <1>4, <1>6 DEF LostSlots, Held, InFlight
  <2>3. CASE FinalizeFrameOk
    <3>1. frame.result = "ok" /\ previous' = Own(frame) /\ twoAgo' = previous
          /\ Deliver(twoAgo, previous \cup Own(frame)) /\ twoAgo \subseteq Held
      BY <2>3 DEF FinalizeFrameOk, Rotate, Held, InFlight
    <3>2. SlotsBack = {carries[a.frame] : a \in {b \in twoAgo : b.layer = SinkLayer}}
      BY <1>7, <3>1
    <3>3. LostSlots' \subseteq LostSlots
      <4>1. SUFFICES ASSUME NEW i \in LostSlots' PROVE i \in LostSlots
        OBVIOUS
      <4>2. /\ i \in DOMAIN slots /\ slots'[i].state # "Free" /\ slots[i].state # "Free"
            /\ i # painted
            /\ \A a \in Own(frame) \cup previous : a.layer = SinkLayer => carries[a.frame] # i
        BY <2>2, <3>1, <4>1 DEF InFlight
      <4>3. i # carries[frame.n]
        BY <1>3, <4>2
      <4>4. slots[i].state # "Scanning"
        BY <1>1, <1>2, <4>2, <4>3 DEF PaintedScans
      <4>5. i \notin SlotsBack
        BY <1>6, <4>2, <4>4
      <4>6. QED
        BY <3>2, <4>2, <4>5 DEF LostSlots, Held, InFlight
    <3>4. failures' \in Nat /\ failures' - Owed' >= failures - Owed
      BY <1>1, <2>1, <3>1
    <3>5. QED
      BY <1>1, <3>3, <3>4, LossStep
  <2>4. CASE FinalizeFrameReturns
    <3>1. frame.result = "rejected" /\ previous' = previous /\ twoAgo' = twoAgo
      BY <1>2, <1>5, <2>4 DEF FinalizeFrameReturns, SceneFacts
    <3>2. LostSlots' \subseteq LostSlots \cup {carries[frame.n]}
      <4>1. SUFFICES ASSUME NEW i \in LostSlots', i # carries[frame.n] PROVE i \in LostSlots
        OBVIOUS
      <4>2. QED
        BY <1>3, <2>2, <3>1, <4>1 DEF LostSlots, Held, InFlight
    <3>3. failures' \in Nat /\ failures' - Owed' >= failures - Owed + 1
      BY <1>1, <2>1, <3>1
    <3>4. QED
      BY <1>1, <3>2, <3>3, LossStep
  <2>5. QED
    BY <1>1, <2>3, <2>4
<1>13. QED
  BY <1>9, <1>10, <1>11, <1>12 DEF SinkInv

\* The rest of what the sink does, and the creation of its layer.
LEMMA SinkElsewhereStep ==
  ASSUME RingInv, RingInv', SceneInv, SinkInv, path = "sink", path' = path,
         SinkElsewhere \/ Creates \/ UNCHANGED presentVars
  PROVE  SinkInv'
<1>1. /\ TypeOK /\ SceneFacts /\ failures \in Nat /\ SinkTypes
      /\ SinkLayer \in Layers
  BY SinkAssumption, SceneAssumption DEF SceneInv, SinkInv, SinkTypes
<1>2. Owed \in 0..1
  BY DEF Owed
<1>3. CASE UNCHANGED presentVars
  <2>1. UNCHANGED vars /\ UNCHANGED pathVars /\ UNCHANGED sinkVars
    BY <1>3 DEF presentVars
  <2>2. SinkIdle
    BY <1>2, <2>1 DEF SinkIdle, vars, sceneVars, sourceVars, historyVars, pathVars, sinkVars,
         dumbRingVars, Owed, HoldsFrame
  <2>3. QED
    BY <2>2, SinkIdleStep
<1>4. CASE Creates
  <2>1. /\ UNCHANGED sinkVars /\ UNCHANGED <<out, previous, twoAgo, drainedTo, fresh, frame>>
        /\ failures' = failures /\ calling' = calling
        /\ layers' = [layers EXCEPT ![SinkLayer] = "live"]
    BY <1>4 DEF Creates, AddLayer, sourceVars, pathVars, LayerOf
  <2>2. layers'[SinkLayer] = "live"
    BY <1>1, <2>1 DEF TypeOK
  <2>3. Owed' = Owed
    BY <2>1 DEF Owed, HoldsFrame, sinkVars, dumbRingVars
  <2>4. SinkIdle
    BY <1>2, <2>1, <2>2, <2>3 DEF SinkIdle
  <2>5. QED
    BY <2>4, SinkIdleStep
<1>5. CASE SinkElsewhere
  <2>1. UNCHANGED sinkVars /\ painted' = painted
    BY <1>5 DEF SinkElsewhere, sinkVars, dumbRingVars
  <2>2. CASE LearnFails
    <3>1. UNCHANGED <<out, previous, twoAgo, drainedTo, fresh, frame, layers>>
          /\ calling' = "none" /\ failures' = failures + 1
      BY <2>2 DEF LearnFails, FailsOnce, vars, sceneVars, sourceVars, historyVars
    <3>2. SinkIdle
      BY <2>1, <3>1 DEF SinkIdle
    <3>3. QED
      BY <3>2, SinkIdleStep
  <2>3. CASE PathAccepted
    <3>1. /\ UNCHANGED <<out, previous, twoAgo, drainedTo, fresh, layers>>
          /\ calling' = calling /\ failures' = failures
          /\ frame' = [frame EXCEPT !.result = "ok"] /\ frame.result = "none"
      BY <2>3 DEF PathAccepted, CommitAccepted, sourceVars, historyVars
    <3>2. /\ frame'.n = frame.n /\ frame'.shows = frame.shows /\ frame'.kind = frame.kind
          /\ frame'.result = "ok"
      BY <1>1, <3>1 DEF TypeOK
    <3>3. Owed' = Owed
      BY <2>1, <3>1, <3>2 DEF Owed
    <3>4. SinkIdle
      BY <1>2, <2>1, <3>1, <3>2, <3>3 DEF SinkIdle
    <3>5. QED
      BY <3>4, SinkIdleStep
  <2>4. CASE PathRefused
    <3>1. /\ UNCHANGED <<out, previous, twoAgo, drainedTo, fresh, layers>>
          /\ calling' = calling /\ failures' = failures + 1
          /\ frame' = [frame EXCEPT !.result = "rejected"]
      BY <2>4 DEF PathRefused, FailsOnce, sourceVars, historyVars
    <3>2. frame'.n = frame.n /\ frame'.shows = frame.shows /\ frame'.kind = frame.kind
      BY <1>1, <3>1 DEF TypeOK
    <3>3. SinkIdle
      BY <2>1, <3>1, <3>2 DEF SinkIdle
    <3>4. QED
      BY <3>3, SinkIdleStep
  <2>5. CASE PathSwitches \/ PathFlips \/ (calling = "none" /\ Teardown /\ UNCHANGED pathVars)
    <3>1. /\ UNCHANGED <<out, previous, twoAgo, drainedTo, fresh, layers, frame>>
          /\ calling' = calling /\ failures' = failures
      <4>1. CASE PathSwitches
        BY <4>1 DEF PathSwitches, LoseMaster, Resume, OnSessionResumed, sceneVars, sourceVars,
             historyVars
      <4>2. CASE PathFlips
        BY <4>2 DEF PathFlips, pathVars, FlipLands, DispatchFlip, sceneVars, sourceVars,
             historyVars
      <4>3. CASE Teardown /\ UNCHANGED pathVars
        BY <4>3 DEF Teardown, pathVars, sourceVars, historyVars
      <4>4. QED
        BY <2>5, <4>1, <4>2, <4>3
    <3>2. Owed' = Owed
      BY <2>1, <3>1 DEF Owed, HoldsFrame
    <3>3. SinkIdle
      BY <1>2, <2>1, <3>1, <3>2 DEF SinkIdle
    <3>4. QED
      BY <3>3, SinkIdleStep
  <2>6. QED
    BY <1>5, <2>2, <2>3, <2>4, <2>5 DEF SinkElsewhere
<1>6. QED
  BY <1>3, <1>4, <1>5

-----------------------------------------------------------------------------
(* The mode, variable refresh, and the frames that may be skipped.         *)

\* What an action does to the mode: nothing, while the screen shows no frame more
\* than it did; or the commit that sets it is taken; or another master has been, or
\* the scene is gone.
ModeMoves ==
  \/ /\ UNCHANGED <<needsModeset, crtcMode, switched, crtcVrr, vrrArmed>>
     /\ dropped => dropped'
     /\ screen'.n > 0 \/ flip'.n > 0 => screen.n > 0 \/ flip.n > 0
  \/ /\ PathAccepted
     /\ UNCHANGED <<crtcVrr, vrrArmed>> \/ crtcVrr' = vrrArmed'
  \/ switched'
  \/ /\ dropped'
     /\ UNCHANGED <<needsModeset, switched, crtcVrr, vrrArmed, screen, flip>>

\* What may happen to the modes keeps the invariant about them.
LEMMA ModeStep ==
  ASSUME ModeInv, ModeMoves
  PROVE  ModeInv'
<1>1. CASE PathAccepted /\ (UNCHANGED <<crtcVrr, vrrArmed>> \/ crtcVrr' = vrrArmed')
  <2>1. /\ switched' = switched /\ dropped' = dropped /\ needsModeset' = FALSE
        /\ crtcMode' = IF needsModeset THEN "ours" ELSE crtcMode
    BY <1>1 DEF PathAccepted, CommitAccepted
  <2>2. QED
    BY <1>1, <2>1 DEF ModeInv
<1>2. QED
  BY <1>1 DEF ModeMoves, ModeInv

\* What the calls of either path that commit nothing do to the screen.
LEMMA PathKeepsScreen ==
  ASSUME TypeOK,
         \/ LearnFails \/ (\E kind \in {"flip", "blocking"} : PathBuilds(kind))
         \/ PathBuildFails \/ PathRefused \/ PathFlips
         \/ (FinalizeFrameOk \/ FinalizeFrameReturns) /\ UNCHANGED pathVars
         \/ OnSessionPaused /\ UNCHANGED <<needsModeset, crtcMode, switched>>
         \/ Teardown /\ UNCHANGED pathVars
         \/ (\E l \in Layers : Produce(l) \/ AddLayer(l)) /\ UNCHANGED pathVars
  PROVE  /\ UNCHANGED <<needsModeset, crtcMode, switched>>
         /\ dropped => dropped'
         /\ screen'.n > 0 \/ flip'.n > 0 => screen.n > 0 \/ flip.n > 0
<1> USE DEF pathVars
<1>1. CASE LearnFails
  BY <1>1 DEF LearnFails, vars, kernelVars
<1>2. ASSUME NEW kind \in {"flip", "blocking"}, PathBuilds(kind)
      PROVE  /\ UNCHANGED <<needsModeset, crtcMode, switched>> /\ dropped' = dropped
             /\ screen' = screen /\ flip' = flip
  BY <1>2 DEF PathBuilds, BuildFrame, kernelVars
<1>3. CASE PathBuildFails
  BY <1>3 DEF PathBuildFails, BuildFrameFails, kernelVars
<1>4. CASE PathRefused
  BY <1>4 DEF PathRefused, kernelVars
<1>5. CASE PathFlips
  BY <1>5 DEF PathFlips, FlipLands, DispatchFlip, NoFlip
<1>6. CASE (FinalizeFrameOk \/ FinalizeFrameReturns) /\ UNCHANGED pathVars
  BY <1>6 DEF FinalizeFrameOk, FinalizeFrameReturns, kernelVars
<1>7. CASE OnSessionPaused /\ UNCHANGED <<needsModeset, crtcMode, switched>>
  <2>1. /\ screen' = screen /\ flip' = [flip EXCEPT !.event = FALSE] /\ dropped' = dropped
    BY <1>7 DEF OnSessionPaused
  <2>2. flip'.n = flip.n
    BY <2>1 DEF TypeOK
  <2>3. QED
    BY <1>7, <2>1, <2>2
<1>8. CASE Teardown /\ UNCHANGED pathVars
  BY <1>8 DEF Teardown, kernelVars
<1>9. CASE (\E l \in Layers : Produce(l) \/ AddLayer(l)) /\ UNCHANGED pathVars
  BY <1>9 DEF Produce, AddLayer, kernelVars
<1>10. QED
  BY <1>1, <1>2, <1>3, <1>4, <1>5, <1>6, <1>7, <1>8, <1>9

\* A change of master does one of these.
LEMMA PathSwitchesMode ==
  ASSUME PathSwitches, UNCHANGED <<crtcVrr, vrrArmed>> \/ (switched' /\ vrrArmed' = vrrArmed)
  PROVE  ModeMoves
<1>1. CASE switched'
  BY <1>1 DEF ModeMoves
<1>2. CASE ~switched'
  <2>1. UNCHANGED <<needsModeset, crtcMode, switched>>
    BY <1>2 DEF PathSwitches
  <2>2. dropped' = dropped /\ (screen' = screen \/ screen' = Dark) /\ flip' = flip
    BY DEF PathSwitches, LoseMaster, Resume, OnSessionResumed
  <2>3. QED
    BY <1>2, <2>1, <2>2 DEF ModeMoves, Dark
<1>3. QED
  BY <1>1, <1>2 DEF PathSwitches

\* Whatever the path, a step does to the modes only what ModeMoves lists.
LEMMA PathMovesMode ==
  ASSUME TypeOK, [PresentNext]_presentVars
  PROVE  ModeMoves
<1> USE DEF pathVars
<1>0. SinkLayer \in Layers /\ BackendLayer \in Layers
  BY SinkAssumption, BackendAssumption, SceneAssumption
<1>1. CASE UNCHANGED presentVars
  BY <1>1 DEF presentVars, vars, kernelVars, backendVars, ModeMoves
<1>2. CASE Creates
  <2>1. /\ (\E l \in Layers : AddLayer(l)) /\ UNCHANGED pathVars
        /\ UNCHANGED <<crtcVrr, vrrArmed>>
    BY <1>0, <1>2 DEF Creates, LayerOf, backendVars
  <2>2. QED
    BY <2>1, PathKeepsScreen DEF ModeMoves
<1>3. CASE UNCHANGED <<vars, pathVars, carries, backendVars>>
  BY <1>3 DEF vars, kernelVars, backendVars, ModeMoves
<1>4. CASE SinkNext /\ UNCHANGED <<lent, backendVars>>
  <2>1. UNCHANGED <<crtcVrr, vrrArmed>>
    BY <1>4 DEF backendVars
  <2>2. CASE SinkPaints
    <3>1. UNCHANGED <<screen, flip, dropped, needsModeset, crtcMode, switched>>
      BY <2>2 DEF SinkPaints, vars, kernelVars, Produce
    <3>2. QED
      BY <2>1, <3>1 DEF ModeMoves
  <2>3. CASE SinkPaintFails
    BY <2>1, <2>3 DEF SinkPaintFails, vars, kernelVars, ModeMoves
  <2>4. CASE \E kind \in {"flip", "blocking"} : SinkBuilds(kind)
    <3>1. \E kind \in {"flip", "blocking"} : PathBuilds(kind)
      BY <2>4 DEF SinkBuilds
    <3>2. QED
      BY <2>1, <3>1, PathKeepsScreen DEF ModeMoves
  <2>5. CASE SinkBuildFails
    <3>1. PathBuildFails
      BY <2>5 DEF SinkBuildFails
    <3>2. QED
      BY <2>1, <3>1, PathKeepsScreen DEF ModeMoves
  <2>6. CASE SinkEmitFails
    BY <2>1, <2>6 DEF SinkEmitFails, kernelVars, ModeMoves
  <2>7. CASE SinkFinalizes
    <3>1. (FinalizeFrameOk \/ FinalizeFrameReturns) /\ UNCHANGED pathVars
      BY <2>7 DEF SinkFinalizes
    <3>2. QED
      BY <2>1, <3>1, PathKeepsScreen DEF ModeMoves
  <2>8. CASE SinkPauses
    <3>1. OnSessionPaused /\ UNCHANGED <<needsModeset, crtcMode, switched>>
      BY <2>8 DEF SinkPauses
    <3>2. QED
      BY <2>1, <3>1, PathKeepsScreen DEF ModeMoves
  <2>9. CASE PathAccepted
    BY <2>1, <2>9 DEF ModeMoves
  <2>10. CASE PathSwitches
    BY <2>1, <2>10, PathSwitchesMode
  <2>11. CASE LearnFails \/ PathRefused \/ PathFlips \/ (Teardown /\ UNCHANGED pathVars)
    <3>1. /\ UNCHANGED <<needsModeset, crtcMode, switched>>
          /\ dropped => dropped'
          /\ screen'.n > 0 \/ flip'.n > 0 => screen.n > 0 \/ flip.n > 0
      BY <2>11, PathKeepsScreen
    <3>2. QED
      BY <2>1, <3>1 DEF ModeMoves
  <2>12. QED
    BY <1>4, <2>2, <2>3, <2>4, <2>5, <2>6, <2>7, <2>8, <2>9, <2>10, <2>11
       DEF SinkNext, SinkElsewhere
<1>5. CASE BackendNext
  <2>1. CASE BackendPresents \/ BackendPresentsIfChanged \/ BackendForcesFull
             \/ \E enable \in BOOLEAN : BackendSetsVrr(enable)
    BY <2>1 DEF BackendPresents, BackendPresentsIfChanged, BackendForcesFull, BackendSetsVrr,
         vars, kernelVars, ModeMoves
  <2>2. CASE BackendAccepted
    BY <2>2 DEF BackendAccepted, ModeMoves
  <2>3. CASE BackendRefused
    <3>1. PathRefused /\ UNCHANGED <<crtcVrr, vrrArmed>>
      BY <2>3 DEF BackendRefused, backendVars
    <3>2. QED
      BY <3>1, PathKeepsScreen DEF ModeMoves
  <2>4. CASE BackendSwitches
    <3>1. PathSwitches /\ (UNCHANGED <<crtcVrr, vrrArmed>> \/ (switched' /\ vrrArmed' = vrrArmed))
      BY <2>4 DEF BackendSwitches
    <3>2. QED
      BY <3>1, PathSwitchesMode
  <2>5. CASE BackendDrops
    BY <2>5 DEF BackendDrops, Teardown, kernelVars, backendVars, ModeMoves
  <2>6. CASE BackendElsewhere
    <3>1. UNCHANGED <<crtcVrr, vrrArmed>>
      BY <2>6 DEF BackendElsewhere
    <3>2. \/ LearnFails \/ (\E kind \in {"flip", "blocking"} : PathBuilds(kind))
          \/ PathBuildFails \/ PathRefused \/ PathFlips
          \/ (FinalizeFrameOk \/ FinalizeFrameReturns) /\ UNCHANGED pathVars
          \/ OnSessionPaused /\ UNCHANGED <<needsModeset, crtcMode, switched>>
          \/ Teardown /\ UNCHANGED pathVars
          \/ (\E l \in Layers : Produce(l) \/ AddLayer(l)) /\ UNCHANGED pathVars
      BY <1>0, <2>6 DEF BackendElsewhere
    <3>3. /\ UNCHANGED <<needsModeset, crtcMode, switched>>
          /\ dropped => dropped'
          /\ screen'.n > 0 \/ flip'.n > 0 => screen.n > 0 \/ flip.n > 0
      BY <3>2, PathKeepsScreen
    <3>4. QED
      BY <3>1, <3>3 DEF ModeMoves
  <2>7. QED
    BY <1>5, <2>1, <2>2, <2>3, <2>4, <2>5, <2>6 DEF BackendNext
<1>6. QED
  BY <1>1, <1>2, <1>3, <1>4, <1>5 DEF PresentNext

\* Who sees a frame sees it in the mode asked for.
LEMMA ModeIsCarried == ASSUME ModeInv PROVE FramesCarryTheirMode
<1>1. Target.n > 0 => screen.n > 0 \/ flip.n > 0
  BY DEF Target
<1>2. QED
  BY <1>1 DEF ModeInv, FramesCarryTheirMode, AllowModeset

\* What the decisions are not told of.
SkipIdle ==
  /\ path' = path
  /\ UNCHANGED <<economy, failures, switched, session, forced>>
  /\ Started => Started'
  /\ Target'.n = Target.n
  /\ \/ skipped' = FALSE
     \/ skipped' = skipped /\ frame' = frame

\* A step that decides nothing leaves the decisions as good as they were.
LEMMA SkipIdleStep ==
  ASSUME SkipInv, SkipIdle
  PROVE  SkipInv'
BY DEF SkipInv, SkipIdle, AllTaken, SkipsOnlyTheShown, HoldsFrame

\* A failure, another master or a pause ends what the decisions promise.
LEMMA SkipEnds ==
  ASSUME SkipInv, ~AllTaken', economy' = economy,
         failures' # 0 \/ switched' \/ session' # "active",
         skipped' = FALSE
  PROVE  SkipInv'
BY DEF SkipInv, AllTaken, SkipsOnlyTheShown

\* Every step keeps what a skipped frame promises.
LEMMA SkipStep ==
  ASSUME SceneInv, SinkTypes, SkipInv, path' = path, [PresentNext]_presentVars
  PROVE  SkipInv'
<1> USE DEF pathVars, FailsOnce
<1>1. /\ TypeOK /\ Numbers /\ SceneFacts /\ failures \in Nat
      /\ economy \in [first : BOOLEAN, forceFull : BOOLEAN]
      /\ skipped => path = "backend" /\ ~HoldsFrame
  BY DEF SceneInv, SinkTypes, SkipInv
<1>2. CASE path # "backend"
  <2>1. UNCHANGED backendVars
    BY <1>2 DEF PresentNext, presentVars, Creates
  <2>2. ~skipped' /\ ~AllTaken' /\ economy' = economy
    BY <1>1, <1>2, <2>1 DEF backendVars, AllTaken
  <2>3. QED
    BY <1>1, <2>2 DEF SkipInv, SkipsOnlyTheShown
<1>3. CASE UNCHANGED presentVars \/ Creates
  <2>1. UNCHANGED <<economy, failures, switched, session, forced, skipped, frame, screen, flip,
                    calling>>
    BY <1>3 DEF presentVars, Creates, AddLayer, vars, sceneVars, kernelVars, backendVars
  <2>2. SkipIdle
    BY <2>1 DEF SkipIdle, Started, HoldsFrame, Target
  <2>3. QED
    BY <2>2, SkipIdleStep
<1>4. CASE path = "backend" /\ BackendNext
  <2>1. CASE BackendPresents
    <3>1. /\ economy' = Decide(ForceFull(economy), TRUE, FALSE).economy
          /\ calling' = "present" /\ skipped' = FALSE /\ path' = path
      BY <2>1 DEF BackendPresents
    <3>2. economy' \in [first : BOOLEAN, forceFull : BOOLEAN]
      BY <1>1, <3>1 DEF Decide, ForceFull
    <3>3. QED
      BY <3>1, <3>2 DEF SkipInv, SkipsOnlyTheShown, Started
  <2>2. CASE BackendPresentsIfChanged
    <3> DEFINE decision == Decide(economy, ContentChanged, FALSE)
    <3>1. /\ economy' = decision.economy /\ skipped' = (decision.action = "Skip")
          /\ calling' = IF decision.action = "Skip" THEN "none" ELSE "present"
          /\ UNCHANGED <<failures, switched, session, frame, screen, flip, forced>>
          /\ calling = "none" /\ ~HoldsFrame
      BY <2>2 DEF BackendPresentsIfChanged, MayCall, vars, sceneVars, kernelVars
    <3>2. economy' \in [first : BOOLEAN, forceFull : BOOLEAN]
      BY <1>1, <3>1 DEF Decide
    <3>3. CASE decision.action # "Skip"
      BY <3>1, <3>2, <3>3 DEF SkipInv, SkipsOnlyTheShown, Started
    <3>4. CASE decision.action = "Skip"
      <4>1. ~economy.first /\ ~economy.forceFull /\ economy' = economy
        BY <3>1, <3>4 DEF Decide
      <4>2. ~Started /\ ~Started' /\ ~HoldsFrame' /\ Target' = Target /\ AllTaken' = AllTaken
        BY <3>1, <3>4 DEF Started, HoldsFrame, Target, AllTaken
      <4>3. AllTaken => Target.n > 0 /\ ~forced
        BY <4>1, <4>2 DEF SkipInv
      <4>4. SkipsOnlyTheShown'
        BY <1>4, <3>1, <4>2, <4>3 DEF SkipsOnlyTheShown, AllTaken
      <4>5. QED
        BY <1>4, <3>1, <3>2, <4>1, <4>2, <4>3, <4>4 DEF SkipInv
    <3>5. QED
      BY <3>3, <3>4
  <2>3. CASE BackendForcesFull
    <3>1. /\ economy' = ForceFull(economy) /\ forced' = TRUE /\ skipped' = FALSE
          /\ UNCHANGED <<failures, switched, session, frame, screen, flip, calling>>
      BY <2>3 DEF BackendForcesFull, vars, sceneVars, kernelVars
    <3>2. /\ economy' \in [first : BOOLEAN, forceFull : BOOLEAN]
          /\ economy'.first = economy.first /\ economy'.forceFull
      BY <1>1, <3>1 DEF ForceFull
    <3>3. Started' = Started /\ Target' = Target /\ AllTaken' = AllTaken
      BY <3>1 DEF Started, HoldsFrame, Target, AllTaken
    <3>4. QED
      BY <3>1, <3>2, <3>3 DEF SkipInv, SkipsOnlyTheShown
  <2>4. ASSUME NEW enable \in BOOLEAN, BackendSetsVrr(enable) PROVE SkipInv'
    <3>1. /\ skipped' = FALSE
          /\ UNCHANGED <<economy, failures, switched, session, forced, frame, screen, flip, calling>>
      BY <2>4 DEF BackendSetsVrr, vars, sceneVars, kernelVars
    <3>2. SkipIdle
      BY <3>1 DEF SkipIdle, Started, HoldsFrame, Target
    <3>3. QED
      BY <3>2, SkipIdleStep
  <2>5. CASE BackendAccepted
    <3>1. /\ economy' = economy /\ forced' = FALSE /\ skipped' = skipped
          /\ HoldsFrame /\ flip = NoFlip /\ ~frame.keeps
          /\ \/ flip' = [n |-> frame.n, seq |-> lastSeq + 1, shows |-> frame.shows, event |-> TRUE]
             \/ screen' = [n |-> frame.n, shows |-> frame.shows] /\ flip' = flip
      BY <1>1, <2>5 DEF BackendAccepted, PathAccepted, CommitAccepted, SceneFacts
    <3>2. frame.n \in Nat /\ frame.n > 0
      BY <1>1, <3>1 DEF Numbers, TypeOK
    <3>3. Target'.n > 0
      <4>1. CASE flip' = NoFlip
        BY <3>1, <3>2, <4>1 DEF Target, NoFlip
      <4>2. CASE flip' # NoFlip
        BY <3>1, <3>2, <4>2 DEF Target
      <4>3. QED
        BY <4>1, <4>2
    <3>4. ~skipped'
      BY <1>1, <3>1
    <3>5. QED
      BY <1>1, <3>1, <3>3, <3>4 DEF SkipInv, SkipsOnlyTheShown
  <2>6. CASE BackendRefused
    <3>1. /\ HoldsFrame /\ failures' = failures + 1 /\ economy' = economy /\ skipped' = skipped
      BY <2>6 DEF BackendRefused, PathRefused, backendVars
    <3>2. failures' # 0 /\ skipped' = FALSE /\ ~AllTaken'
      BY <1>1, <3>1 DEF AllTaken
    <3>3. QED
      BY <3>1, <3>2, SkipEnds
  <2>7. CASE BackendSwitches
    <3>1. economy' = economy /\ skipped' = FALSE /\ PathSwitches
      BY <2>7 DEF BackendSwitches
    <3>2. switched' \/ session' # "active"
      BY <3>1 DEF PathSwitches, LoseMaster
    <3>3. QED
      BY <3>1, <3>2, SkipEnds DEF AllTaken
  <2>8. CASE BackendDrops
    <3>1. UNCHANGED <<economy, failures, switched, session, forced, skipped, frame, screen, flip,
                      calling>>
      BY <2>8 DEF BackendDrops, Teardown, kernelVars, backendVars
    <3>2. SkipIdle
      BY <3>1 DEF SkipIdle, Started, HoldsFrame, Target
    <3>3. QED
      BY <3>2, SkipIdleStep
  <2>9. CASE BackendElsewhere
    <3>1. skipped' = FALSE /\ economy' = economy /\ forced' = forced
      BY <2>9 DEF BackendElsewhere
    <3>2. CASE LearnFails \/ PathBuildFails
      <4>1. failures' # 0
        BY <1>1, <3>2 DEF LearnFails, PathBuildFails
      <4>2. QED
        BY <3>1, <4>1, SkipEnds DEF AllTaken
    <3>3. ASSUME NEW kind \in {"flip", "blocking"}, PathBuilds(kind) PROVE SkipInv'
      <4>1. frame'.kind = kind /\ frame'.result = "none"
        <5>1. (Live = {}) \in BOOLEAN
          OBVIOUS
        <5>2. QED
          BY <3>3, <5>1 DEF PathBuilds, BuildFrame
      <4>2. Started'
        BY <4>1 DEF Started, HoldsFrame
      <4>3. QED
        BY <1>1, <3>1, <4>2 DEF SkipInv, SkipsOnlyTheShown
    <3>4. CASE PathFlips
      <4>1. /\ UNCHANGED <<failures, switched, session, calling, frame>>
            /\ \/ screen' = screen /\ flip' = flip
               \/ flip # NoFlip /\ screen' = [n |-> flip.n, shows |-> flip.shows] /\ flip' = NoFlip
        BY <3>4 DEF PathFlips, FlipLands, DispatchFlip, sceneVars
      <4>2. Target' = Target
        BY <4>1 DEF Target
      <4>3. SkipIdle
        BY <3>1, <4>1, <4>2 DEF SkipIdle, Started, HoldsFrame
      <4>4. QED
        BY <4>3, SkipIdleStep
    <3>5. CASE (FinalizeFrameOk \/ FinalizeFrameReturns) /\ UNCHANGED pathVars
      <4>1. /\ frame.result # "none"
            /\ UNCHANGED <<failures, switched, session, calling, screen, flip>>
        BY <3>5 DEF FinalizeFrameOk, FinalizeFrameReturns, kernelVars
      <4>2. SkipIdle
        BY <3>1, <4>1 DEF SkipIdle, Started, Target
      <4>3. QED
        BY <4>2, SkipIdleStep
    <3>6. CASE OnSessionPaused
      <4>1. session' # "active"
        BY <3>6 DEF OnSessionPaused
      <4>2. QED
        BY <3>1, <4>1, SkipEnds DEF AllTaken
    <3>7. CASE Produce(BackendLayer) /\ UNCHANGED pathVars
      <4>1. UNCHANGED <<failures, switched, session, frame, screen, flip, calling>>
        BY <3>7 DEF Produce, sceneVars, kernelVars
      <4>2. SkipIdle
        BY <3>1, <4>1 DEF SkipIdle, Started, HoldsFrame, Target
      <4>3. QED
        BY <4>2, SkipIdleStep
    <3>8. QED
      BY <2>9, <3>2, <3>3, <3>4, <3>5, <3>6, <3>7 DEF BackendElsewhere
  <2>10. QED
    BY <1>4, <2>1, <2>2, <2>3, <2>4, <2>5, <2>6, <2>7, <2>8, <2>9 DEF BackendNext
<1>5. QED
  BY <1>2, <1>3, <1>4 DEF PresentNext

-----------------------------------------------------------------------------
(* The invariant, and what it says of the runs' properties.                *)

\* Every step of the path keeps the sink's invariant.
LEMMA SinkStep ==
  ASSUME RingInv, RingInv', SceneInv, TypeOK', Numbers', SceneFacts', SinkInv, path' = path,
         [PresentNext]_presentVars
  PROVE  SinkInv'
<1>1. SinkTypes /\ SceneFacts /\ failures' \in Nat /\ path \in {"ring", "sink", "backend"}
  BY FailuresStep DEF SinkInv, SinkTypes, SceneInv, SceneFacts
<1>2. CASE path = "sink"
  <2>1. UNCHANGED presentVars \/ Creates \/ SinkNext
    BY <1>2 DEF PresentNext
  <2>2. QED
    BY <1>2, <2>1, SinkPaintsStep, SinkPaintFailsStep, SinkBuildsStep, SinkBuildFailsStep,
       SinkEmitFailsStep, SinkFinalizesStep, SinkPausesStep, SinkElsewhereStep DEF SinkNext
<1>3. CASE path = "ring"
  <2>1. /\ out' = out /\ screen' = screen /\ flip' = flip /\ carries' = carries
    BY <1>3 DEF PresentNext, presentVars, vars, sourceVars, kernelVars, sinkVars
  <2>2. SinkTypes'
    BY <1>1, <1>3, <2>1 DEF SinkTypes
  <2>3. SlotsOut'
    BY <1>1, <1>3, <2>1 DEF SlotsOut, SinkTypes
  <2>4. QED
    BY <1>3, <2>2, <2>3 DEF SinkInv, PaintedScans, LossesCounted
<1>4. CASE path = "backend"
  <2>1. slots' = slots /\ painted' = painted /\ carries' = carries
    BY <1>4 DEF PresentNext, presentVars, Creates, sinkVars, dumbRingVars, bufferRingVars
  <2>2. SinkTypes'
    BY <1>1, <1>4, <2>1 DEF SinkTypes
  <2>3. \A a \in out' : a.layer # SinkLayer
    <3>1. SinkLayer \in Layers /\ SinkLayer # LayerOf(path')
      BY <1>4, SinkAssumption, BackendAssumption, SceneAssumption DEF LayerOf
    <3>2. \A a \in out' : layers'[a.layer] = "live"
      BY DEF SceneFacts
    <3>3. layers'[SinkLayer] # "live"
      BY <3>1 DEF SceneFacts
    <3>4. QED
      BY <3>2, <3>3
  <2>4. SlotsOut'
    BY <2>3 DEF SlotsOut, IsKept
  <2>5. QED
    BY <1>4, <2>2, <2>4 DEF SinkInv, PaintedScans, LossesCounted
<1>5. QED
  BY <1>1, <1>2, <1>3, <1>4

\* The invariant holds at the start, on each of the three paths.
LEMMA PresentStarts == PresentInit => PresentInv
<1> SUFFICES ASSUME PresentInit PROVE PresentInv
  OBVIOUS
<1>1. /\ path \in {"ring", "sink", "backend"} /\ Init /\ DumbRingInit
      /\ calling = "none" /\ needsModeset = TRUE /\ failures = 0 /\ switched = FALSE
      /\ carries = [n \in 1..MaxFrames |-> 0]
      /\ economy = NewEconomy /\ vrrArmed = FALSE /\ crtcVrr = FALSE
      /\ forced = FALSE /\ skipped = FALSE
  BY DEF PresentInit, PathInit
<1>2. RingInv
  <2>1. RingTypes
    BY <1>1, RingAssumption DEF RingTypes, DumbRingInit, BufferRingInit
  <2>2. Missed
    BY <1>1 DEF Missed, DumbRingInit, BufferRingInit
  <2>3. QED
    BY <2>1, <2>2 DEF RingInv
<1>3. ~HoldsFrame /\ InFlight = {} /\ Own(frame) = {}
  BY <1>1 DEF Init, HoldsFrame, NoFrame, InFlight, Own
<1>4. TypeOK /\ Numbers /\ HeldOnce
  BY <1>1, InvariantInit DEF IInv
<1>5. SceneFacts
  BY <1>1, <1>3, SceneAssumption DEF SceneFacts, Init, Undrained, UndrainedBy, Dark, NoFlip
<1>6. slots = <<>> /\ painted = 0 /\ out = {} /\ screen = Dark /\ flip = NoFlip
  BY <1>1 DEF Init, DumbRingInit, BufferRingInit
<1>7. SinkInv
  <2>1. SinkTypes
    BY <1>1, <1>6 DEF SinkTypes
  <2>2. SlotsOut
    BY <1>6 DEF SlotsOut
  <2>3. PaintedScans
    BY <1>1, <1>3, <1>6 DEF PaintedScans
  <2>4. LossesCounted
    <3>1. LostSlots = {} /\ Owed = 0
      BY <1>3, <1>6 DEF LostSlots, Owed
    <3>2. Cardinality(LostSlots) = 0
      BY <3>1, FS_EmptySet
    <3>3. QED
      BY <1>1, <3>1, <3>2 DEF LossesCounted
  <2>5. QED
    BY <2>1, <2>2, <2>3, <2>4 DEF SinkInv
<1>8. ModeInv
  <2>1. ~(screen.n > 0 \/ flip.n > 0)
    BY <1>6 DEF Dark, NoFlip
  <2>2. crtcVrr = vrrArmed /\ needsModeset
    BY <1>1
  <2>3. QED
    BY <2>1, <2>2 DEF ModeInv
<1>9. SkipInv
  BY <1>1, <1>6 DEF SkipInv, SkipsOnlyTheShown, NewEconomy, AllTaken
<1>10. QED
  BY <1>2, <1>4, <1>5, <1>7, <1>8, <1>9 DEF PresentInv, SceneInv

\* Every step of every path keeps it.
LEMMA PresentStep == PresentInv /\ [PresentNext]_presentVars => PresentInv'
<1> SUFFICES ASSUME PresentInv, [PresentNext]_presentVars PROVE PresentInv'
  OBVIOUS
<1>1. /\ RingInv /\ SceneInv /\ SinkInv /\ ModeInv /\ SkipInv /\ SinkTypes /\ TypeOK
      /\ path \in {"ring", "sink", "backend"} /\ path' = path
  BY DEF PresentInv, SceneInv, SceneFacts, SinkInv, PresentNext, presentVars
<1>2. RingInv'
  BY <1>1, PathMovesRing, RingMovesStep
<1>3. SceneMoves
  BY <1>1, PathMoves
<1>4. TypeOK' /\ Numbers' /\ HeldOnce'
  BY <1>1, <1>3, MovesAreSceneSteps, SceneStepKeeps DEF SceneInv
<1>5. SceneFacts'
  BY <1>1, <1>3, SceneFactsStep
<1>6. SinkInv'
  BY <1>1, <1>2, <1>4, <1>5, SinkStep
<1>7. ModeInv'
  BY <1>1, PathMovesMode, ModeStep
<1>8. SkipInv'
  BY <1>1, SkipStep
<1>9. QED
  BY <1>2, <1>4, <1>5, <1>6, <1>7, <1>8 DEF PresentInv, SceneInv

\* The slot to be leased is free or new, and what is on screen is neither.
LEMMA LeaseIsOffScreen == ASSUME RingInv, SceneInv, SinkInv PROVE LeaseOffScreen
<1>1. SUFFICES ASSUME CanLease,
                      NEW a \in (IF screen.n > drainedTo THEN screen.shows ELSE {})
                                  \cup (IF flip.n > drainedTo THEN flip.shows ELSE {}),
                      a.layer = SinkLayer, a \in out
      PROVE  LeasedSlot # carries[a.frame]
  BY DEF LeaseOffScreen, ShownSlots
<1>2. a.frame > drainedTo
  BY <1>1 DEF SceneInv, SceneFacts, Undrained, UndrainedBy
<1>3. IsKept(a)
  BY <1>1, <1>2 DEF IsKept
<1>4. QED
  BY <1>1, <1>3, LeasedIsNew DEF SinkInv

\* Two frames in flight hold two slots; while no call has failed, nothing else holds
\* one, and a third is left.
LEMMA ThreeSlotsAreEnough == ASSUME RingInv, SceneInv, SinkInv PROVE SlotsLostByFailureOnly
<1> SUFFICES ASSUME layers[SinkLayer] = "live" PROVE
      /\ Cardinality(LostSlots) <= failures
      /\ ~HoldsFrame /\ calling = "none" /\ failures = 0 /\ MaxSlots >= 3 => CanLease
  BY DEF SlotsLostByFailureOnly
<1>1. path = "sink"
  BY SinkAssumption, BackendAssumption, SceneAssumption DEF SceneInv, SceneFacts, LayerOf
<1>2. /\ LostSlots \in SUBSET (1..MaxSlots) /\ MaxSlots \in Nat
      /\ Cardinality(LostSlots) \in Nat
  BY LostAreSlots, CountsOfParts DEF RingInv
<1>3. Owed \in 0..1 /\ failures \in Nat /\ Cardinality(LostSlots) + Owed <= failures
  BY <1>1 DEF Owed, SinkInv, SinkTypes, LossesCounted
<1>4. Cardinality(LostSlots) <= failures
  BY <1>2, <1>3
<1>5. ASSUME ~HoldsFrame, calling = "none", failures = 0, MaxSlots >= 3, ~CanLease
      PROVE  FALSE
  <2>1. Cardinality(LostSlots) = 0 /\ Owed = 0
    BY <1>2, <1>3, <1>5
  <2>2. LostSlots = {}
    <3>1. IsFiniteSet(1..MaxSlots)
      BY <1>2, FS_Interval
    <3>2. IsFiniteSet(LostSlots)
      BY <1>2, <3>1, FS_Subset
    <3>3. QED
      BY <2>1, <3>2, FS_EmptySet
  <2>3. painted = 0
    BY <1>5, <2>1 DEF Owed
  <2>4. 1..3 \subseteq DOMAIN slots /\ FreeSlots = {}
    <3>1. DOMAIN slots = 1..Len(slots) /\ Len(slots) \in Nat
      <4>1. \A S : \A s \in Seq(S) : DOMAIN s = 1..Len(s) /\ Len(s) \in Nat
        OBVIOUS
      <4> HIDE DEF SlotType
      <4>2. QED
        BY <4>1 DEF RingInv, RingTypes
    <3>2. FreeSlots = {} /\ Len(slots) >= MaxSlots
      BY <1>2, <1>5, <3>1 DEF CanLease
    <3>3. QED
      BY <1>2, <1>5, <3>1, <3>2
  <2>5. Held = previous \cup twoAgo
    BY <1>5 DEF Held, InFlight, Own, SceneInv, Numbers, NoFrame
  <2>6. \A i \in 1..3 : \E a \in previous \cup twoAgo : carries[a.frame] = i
    BY <2>2, <2>3, <2>4, <2>5 DEF LostSlots, FreeSlots
  <2>7. \A a, b \in previous : a.frame = b.frame
    BY DEF SceneInv, SceneFacts
  <2>8. \A a, b \in twoAgo : a.frame = b.frame
    BY DEF SceneInv, SceneFacts
  <2>9. PICK a \in previous \cup twoAgo : carries[a.frame] = 1
    BY <2>6
  <2>10. PICK b \in previous \cup twoAgo : carries[b.frame] = 2
    BY <2>6
  <2>11. PICK c \in previous \cup twoAgo : carries[c.frame] = 3
    BY <2>6
  <2>12. QED
    BY <2>7, <2>8, <2>9, <2>10, <2>11
<1>6. QED
  BY <1>4, <1>5

\* The invariant of the three paths.
THEOREM PresentInvariance == PresentSpec => []PresentInv
<1>1. PresentInit => PresentInv
  BY PresentStarts
<1>2. PresentInv /\ [PresentNext]_presentVars => PresentInv'
  BY PresentStep
<1>3. QED
  BY <1>1, <1>2, PTL DEF PresentSpec

\* DumbRingSource: whoever repaints what acquire() says and what it changed itself
\* has the whole image in the slot presented last, however deep the ring, however the
\* damage history was cut, and after a pause.
THEOREM RepaintsAreComplete == PresentSpec => []RepaintCovers
<1>1. PresentInv => RepaintCovers
  BY RingCovers DEF PresentInv
<1>2. QED
  BY <1>1, PresentInvariance, PTL

\* BufferRing "never returns the scanning slot" to the sink: not while a flip is in
\* flight, not after commits that failed, not after a pause.
THEOREM SinkPaintsOffScreen == PresentSpec => []LeaseOffScreen
<1>1. PresentInv => LeaseOffScreen
  BY LeaseIsOffScreen DEF PresentInv
<1>2. QED
  BY <1>1, PresentInvariance, PTL

\* The sink loses at most one slot for each call that failed, and with three slots and
\* no failure it can always paint the next frame.
THEOREM SlotsAreLostByFailure == PresentSpec => []SlotsLostByFailureOnly
<1>1. PresentInv => SlotsLostByFailureOnly
  BY ThreeSlotsAreEnough DEF PresentInv
<1>2. QED
  BY <1>1, PresentInvariance, PTL

\* Until another master has had the device, what is on screen is in the mode the
\* backend set and refreshes as the frame asked, however many commits were refused.
THEOREM ModeFollowsTheFrame == PresentSpec => []FramesCarryTheirMode
<1>1. PresentInv => FramesCarryTheirMode
  BY ModeIsCarried DEF PresentInv
<1>2. QED
  BY <1>1, PresentInvariance, PTL

\* FrameEconomy lets present_if_changed skip a frame only when one is on screen or
\* about to be and no forced one is owed, as long as no call has failed.
THEOREM IdleFramesAreShown == PresentSpec => []SkipsOnlyTheShown
<1>1. PresentInv => SkipsOnlyTheShown
  BY DEF PresentInv, SkipInv
<1>2. QED
  BY <1>1, PresentInvariance, PTL
=============================================================================
