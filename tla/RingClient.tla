----------------------------- MODULE RingClient -----------------------------
(***************************************************************************)
(* An ExternalDmaBufRing and the least a scene does with its source: it    *)
(* acquires, shows what it got, and gives back the oldest of what it holds *)
(* once at least the newest frame stays.  Unlike in SceneRing a producer   *)
(* reports damage, a fence deadline may drop its frames, and the scene     *)
(* builds nothing between a pause and the resume.                          *)
(***************************************************************************)
EXTENDS ExternalDmaBufRing

CONSTANT Depth   \* acquisitions a scene holds at once: N-2, N-1 and N

ASSUME DepthAssumption == Depth \in Nat \ {0, 1}

VARIABLES
  lent,      \* the tokens of the acquisitions out, oldest first
  retired    \* the scene has removed the layer

clientVars == <<ringVars, lent, retired>>

ClientSubmits(slot, fence, damage) ==
  /\ ~retired
  /\ RingSubmit(slot, fence, damage)
  /\ UNCHANGED <<lent, retired>>

ClientAcquires ==
  /\ ~retired /\ imported /\ Len(lent) < Depth
  /\ RingAcquires
  /\ lent' = Append(lent, scanningToken')
  /\ UNCHANGED retired

ClientGetsNothing ==
  /\ ~retired /\ imported
  /\ RingStarves
  /\ UNCHANGED <<lent, retired>>

ClientReleases ==
  /\ Len(lent) >= IF retired THEN 1 ELSE 2
  /\ RingReleases({Head(lent)})
  /\ lent' = Tail(lent)
  /\ UNCHANGED retired

ClientRetires ==
  /\ ~retired
  /\ RingRetired
  /\ retired' = TRUE
  /\ UNCHANGED lent

ClientPauses ==
  /\ ~retired /\ imported
  /\ RingPaused
  /\ lent' = <<>>
  /\ UNCHANGED retired

ClientResumes ==
  /\ ~retired /\ ~imported
  /\ \E ok \in BOOLEAN : RingResumes(ok)
  /\ UNCHANGED <<lent, retired>>

ClientInit == RingInit /\ lent = <<>> /\ retired = FALSE

ClientNext ==
  \/ \E slot \in Slots, fence \in BOOLEAN, damage \in Damages :
        ClientSubmits(slot, fence, damage)
  \/ ClientAcquires
  \/ ClientGetsNothing
  \/ ClientReleases
  \/ ClientRetires
  \/ ClientPauses
  \/ ClientResumes

ClientSpec == ClientInit /\ [][ClientNext]_clientVars

-----------------------------------------------------------------------------
(* Properties.                                                             *)

\* "Reporting less than was dirtied leaves stale pixels on screen": a Fresh
\* frame's damage covers everything that changed since the Fresh frame before
\* it, in the frames a deadline dropped too, unless a submit had replaced a
\* frame still pending (that one's damage is replaced with it).
DamageCovers == ~overwrote => reported

\* Every slot in flight has a release still to come: either it is the newest
\* on screen, or an acquisition carrying its token is out.  So a wrap of the
\* token counter strands no slot.
SlotsReturn ==
  imported => \A o \in outstanding :
    (o.token = scanningToken \/ \E i \in DOMAIN lent : lent[i] = o.token) /\ o.token # 0

=============================================================================
