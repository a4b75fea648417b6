--------------------------- MODULE RingPresenter ---------------------------
(***************************************************************************)
(* RingPresenter of drmkit-scene-sources: which of a producer's buffers is *)
(* pending, which is on screen, and which are in flight under which token. *)
(* ExternalDmaBufRing and ExternalDmaBufPool are adapters over it.         *)
(*                                                                         *)
(* submit runs on the producer's thread, everything else on the commit     *)
(* thread; the lock makes each of them one step.                           *)
(***************************************************************************)
EXTENDS Naturals, Sequences, FiniteSets

CONSTANTS Slots,        \* the SlotKeys a producer submits
          NoSlot,       \* None
          Regions,      \* what a damage rectangle may cover
          MaxDamage,    \* MAX_DAMAGE
          HasDeadline,  \* whether fence_deadline is set
          TokenLimit    \* u64::MAX + 1

ASSUME PresenterAssumption ==
  /\ NoSlot \notin Slots
  /\ MaxDamage \in Nat
  /\ HasDeadline \in BOOLEAN
  /\ TokenLimit \in Nat \ {0, 1}

VARIABLES
  pending,         \* the handoff: key, whether a fence guards it, damage
  scanningKey, scanningToken, nextToken,
  outstanding,     \* tokens not yet retired, with the buffer each names
  carried,         \* carried_damage
  carriedWhole,    \* carried_whole_frame
  stale,           \* history: regions that changed since the last Fresh frame
  reported,        \* history: whether that frame's damage covered them
  overwrote        \* history: a submit replaced a frame nobody had acquired

presenterVars == <<pending, scanningKey, scanningToken, nextToken, outstanding,
                   carried, carriedWhole, stale, reported, overwrote>>

Whole == <<>>       \* no rectangles: the whole frame changed
Damages == UNION {[1..n -> Regions] : n \in 0..(MaxDamage + 1)}
NoPending == [key |-> NoSlot, fence |-> FALSE, damage |-> Whole]

Covered(damage) == IF damage = Whole THEN Regions ELSE {damage[i] : i \in DOMAIN damage}

Submit(key, fence, damage) ==
  /\ pending' = [key |-> key, fence |-> fence,
                 damage |-> IF Len(damage) <= MaxDamage THEN damage ELSE Whole]
  /\ stale' = stale \cup Covered(damage)
  /\ overwrote' = (overwrote \/ pending.key # NoSlot)
  /\ UNCHANGED <<scanningKey, scanningToken, nextToken, outstanding, carried,
                 carriedWhole, reported>>

\* next_token.wrapping_add(1), stepping over the sentinel.
WrappingAdd(token) == (token + 1) % TokenLimit
SuccessorUnchecked(token) == WrappingAdd(token)
Successor(token) == IF WrappingAdd(token) = 0 THEN 1 ELSE WrappingAdd(token)

\* carry: rectangles of a dropped frame add up until one says whole-frame or
\* there are too many; then only the flag can say so.
CarryForgetful(damage) ==
  /\ carried' = IF damage = Whole \/ Len(carried) + Len(damage) > MaxDamage
                THEN Whole ELSE carried \o damage
  /\ UNCHANGED carriedWhole

Carry(damage) ==
  IF damage = Whole \/ Len(carried) + Len(damage) > MaxDamage
  THEN carried' = Whole /\ carriedWhole' = TRUE
  ELSE carried' = carried \o damage /\ UNCHANGED carriedWhole

\* What the next Fresh frame reports, with the damage of the frames dropped.
Owed(damage) ==
  IF carriedWhole \/ damage = Whole \/ Len(carried) + Len(damage) > MaxDamage
  THEN Whole ELSE carried \o damage

\* Whether acquire takes a frame out of the handoff.
HasPending == pending.key # NoSlot

\* acquire, a frame pending and its fence signalled in time: Fresh.
AcquireFresh ==
  /\ HasPending
  /\ pending' = NoPending
  /\ scanningKey' = pending.key
  /\ nextToken' = Successor(nextToken)
  /\ scanningToken' = Successor(nextToken)
  /\ outstanding' = outstanding \cup {[token |-> Successor(nextToken), key |-> pending.key]}
  /\ carried' = Whole /\ carriedWhole' = FALSE
  /\ reported' = (stale \subseteq Covered(Owed(pending.damage)))
  /\ stale' = {}
  /\ UNCHANGED overwrote

\* acquire, a frame pending whose fence missed the deadline: the frame is
\* dropped, and what was on screen is held.
AcquireMissed ==
  /\ HasPending /\ HasDeadline /\ pending.fence
  /\ pending' = NoPending
  /\ Carry(pending.damage)
  /\ UNCHANGED <<scanningKey, scanningToken, nextToken, outstanding, stale,
                 reported, overwrote>>

\* acquire, nothing pending: Hold if something is on screen, else None.
AcquireIdle ==
  /\ ~HasPending
  /\ UNCHANGED presenterVars

\* release of acquisitions that carried these tokens: those entries of
\* outstanding fire, and the rest are the sentinel, still on screen, or
\* retired already.
FiredByAny(tokens) == {o \in outstanding : o.token \in tokens \ {0}}
Fired(tokens) == {o \in outstanding : o.token \in tokens \ {0, scanningToken}}

Release(tokens) ==
  /\ outstanding' = outstanding \ Fired(tokens)
  /\ UNCHANGED <<pending, scanningKey, scanningToken, nextToken, carried,
                 carriedWhole, stale, reported, overwrote>>

\* The scene has retired the source: nothing newer will displace the buffer
\* on screen, so its release is no longer held back.
RetireScanning ==
  /\ scanningToken' = 0
  /\ UNCHANGED <<pending, scanningKey, nextToken, outstanding, carried,
                 carriedWhole, stale, reported, overwrote>>

\* A session pause: nothing is pending, in flight or on screen any more, and
\* the next frame follows none.
ForgetsPending == pending' = NoPending
KeepsOutstanding == UNCHANGED outstanding
ForgetsOutstanding == outstanding' = {}

Reset ==
  /\ ForgetsPending
  /\ ForgetsOutstanding
  /\ scanningKey' = NoSlot
  /\ scanningToken' = 0
  /\ carried' = Whole /\ carriedWhole' = FALSE
  /\ stale' = {}
  /\ UNCHANGED <<nextToken, reported, overwrote>>

PresenterInit ==
  /\ pending = NoPending
  /\ scanningKey = NoSlot
  /\ scanningToken = 0 /\ nextToken = 0
  /\ outstanding = {}
  /\ carried = Whole /\ carriedWhole = FALSE
  /\ stale = {} /\ reported = TRUE /\ overwrote = FALSE

=============================================================================
