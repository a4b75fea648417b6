------------------------------ MODULE MCParts -------------------------------
(***************************************************************************)
(* The instance of Parts.  One cursor is an animation of two small frames  *)
(* of unlike shapes, the other is too large for the buffer; the pointer    *)
(* starts at the corner and goes off the left edge and clear of both.  The *)
(* pictures have layers that scale up and down, fade, sample beyond their  *)
(* buffer, lie off the canvas or cannot be read.                           *)
(***************************************************************************)
EXTENDS Parts, TLC

Small == [w |-> 2, h |-> 3, xhot |-> 1, yhot |-> 0]
Wide == [w |-> 3, h |-> 2, xhot |-> 0, yhot |-> 1]
Large == [w |-> 6, h |-> 4, xhot |-> 3, yhot |-> 3]

MCCursors == {<<Small, Wide>>, <<Large>>}
MCPointers == {<<-1, 1>>, <<2, 5>>}

Pixel(a, r, b) == [a |-> a, r |-> r, b |-> b]

Solid == [zpos |-> 0, at |-> 0, size |-> 3, from |-> 0, take |-> 0, alpha |-> 65535,
          fourcc |-> "XRGB8888", mapped |-> TRUE,
          pixels |-> <<Pixel(0, 200, 10), Pixel(0, 20, 90)>>]
Veil == [zpos |-> 2, at |-> 1, size |-> 2, from |-> 1, take |-> 4, alpha |-> 32768,
         fourcc |-> "ARGB8888", mapped |-> TRUE,
         pixels |-> <<Pixel(9, 9, 9), Pixel(128, 128, 7), Pixel(255, 40, 250), Pixel(0, 0, 0)>>]
Dot == [zpos |-> 1, at |-> 1, size |-> 1, from |-> 0, take |-> 0, alpha |-> 65535,
        fourcc |-> "ARGB8888", mapped |-> TRUE, pixels |-> <<Pixel(255, 255, 0)>>]
Far == [Dot EXCEPT !.at = 5, !.zpos = 0]
Unread == [Solid EXCEPT !.mapped = FALSE, !.zpos = 3]
Foreign == [Solid EXCEPT !.fourcc = "NV12"]

MCPictures == {<<Veil, Solid>>, <<Veil, Dot, Far>>, <<Dot, Unread>>, <<Foreign>>, <<Far>>}

\* A plane with every property and one that lacks the better matrix, has no
\* range and private state to zero.
MCStickyDevice ==
  1 :> [encodings |-> {"bt601", "bt709"}, ranges |-> {"limited", "full"},
        private |-> FALSE, alphaMax |-> 65535]
  @@ 2 :> [encodings |-> {"bt601", "bt2020"}, ranges |-> {}, private |-> TRUE,
           alphaMax |-> 255]

MCInterpretations ==
  {[encoding |-> "bt709", range |-> "limited"], [encoding |-> "bt2020", range |-> "full"]}

\* Two overlays either output may use, one without a stacking position and a
\* plane that is no overlay.
MCDecoPlanes ==
  1 :> [crtcs |-> {"crtc1", "crtc2"}, overlay |-> TRUE, linear |-> TRUE, zpos |-> 2]
  @@ 2 :> [crtcs |-> {"crtc1", "crtc2"}, overlay |-> TRUE, linear |-> TRUE, zpos |-> 1]
  @@ 3 :> [crtcs |-> {"crtc2"}, overlay |-> TRUE, linear |-> TRUE, zpos |-> -1]
  @@ 4 :> [crtcs |-> {"crtc1"}, overlay |-> FALSE, linear |-> TRUE, zpos |-> 3]

MCDesk == [w |-> 3, h |-> 2]
MCSpots == {<<0, 0>>, <<-1, 1>>}
MCShapes == {[w |-> 2, h |-> 1], [w |-> 1, h |-> 2]}

MCOpacities == {32768}

-----------------------------------------------------------------------------
(* A capture: a framebuffer that maps, one of two planes of one object that *)
(* does not, a tiled one, and one whose objects the kernel does not show.   *)

MCListedPlanes == <<31, 32>>

MCCapFbs ==
  "lin" :> [objects |-> <<1>>, linear |-> TRUE, format |-> "XRGB8888", maps |-> TRUE]
  @@ "nv" :> [objects |-> <<2, 2>>, linear |-> TRUE, format |-> "RGB565", maps |-> FALSE]
  @@ "tiled" :> [objects |-> <<3>>, linear |-> FALSE, format |-> "ARGB8888", maps |-> TRUE]
  @@ "bare" :> [objects |-> <<>>, linear |-> TRUE, format |-> "XRGB8888", maps |-> FALSE]

MCCapPlacings == {[x |-> 0, y |-> 0, w |-> 0, h |-> 0]}

\* Div255 rounds to the nearest, for every product of two bytes.
ASSUME DivisionRounds == \A a, c \in 0..255 : 255 * Div255(a * c) - a * c \in -127..127

\* A pixel over another is a pixel, and no colour of it exceeds its coverage.
ASSUME OverKeepsPremultiplied ==
  \A sa, da \in {0, 1, 64, 127, 254, 255} : \A sc \in 0..sa, dc \in {0, da \div 2, da} :
    LET over == SrcOver([a |-> da, c |-> dc], [a |-> sa, c |-> sc])
    IN over.a \in 0..255 /\ over.c \in 0..over.a

\* A row drawn at any size stays inside its pixels, changes nothing beside its
\* span, and one of a single opaque colour is drawn in that colour to its edges.
ASSUME RowsStayTheirOwn ==
  \A len \in 1..3, span \in {0, 1, 2, 4}, at \in -2..3 : \A full \in {0, 16, 31} :
    LET f == [pixels |-> [i \in 1..len |-> [a |-> 0, c |-> full]], format |-> "RGB565",
              at |-> at, span |-> span]
        row == BlitRow([x \in 0..3 |-> [a |-> 0, c |-> 0]], f)
        size == IF span = 0 THEN len ELSE span
    IN \A x \in 0..3 : row[x] = IF at <= x /\ x < at + size
                                  THEN [a |-> 255, c |-> full * 8 + full \div 4]
                                ELSE [a |-> 0, c |-> 0]

\* At its own size or half of it a row's pixels are taken where their centres are.
ASSUME TapsAreCentred ==
  \A len \in 1..4, span \in {1, 2, 4}, origin \in -2..2, k \in 0..3 :
    k < span /\ origin + k >= 0 =>
      LET taps == TapsAt(AxisOf(len, span, origin), origin + k)
          centre == ((2 * k + 1) * len - span) \div (2 * span)
      IN /\ {taps.near, taps.far} \subseteq 0..len - 1
         /\ taps.near = IF centre < 0 THEN 0 ELSE centre
         /\ len = span => taps.weight = 0

\* Saved straight, an opaque colour is itself and any other is within a byte.
ASSUME StraightInRange ==
  \A a, c \in {0, 1, 2, 127, 128, 254, 255} :
    LET px == [a |-> a, c |-> c]
    IN Unpremultiply(px) \in 0..255 /\ (a = 255 => Unpremultiply(px) = c)

-----------------------------------------------------------------------------
(* An output's colour.                                                     *)

\* The identity starts at nothing, ends at full, rises throughout and is the
\* same seen from either end, but for the half that is rounded up.
ASSUME IdentityIsStraight ==
  \A n \in 2..40 : LET lut == IdentityLut(n) IN
    /\ lut[1] = 0 /\ lut[n] = 65535 /\ \A i \in 1..n - 1 : lut[i] < lut[i + 1]
    /\ \A i \in 1..n : lut[i] + lut[n + 1 - i] \in 65535..65536

MCLayersSaid == [primaries : ToSet(Gamuts) \cup {"none"}, eotf : {"none", "sdr", "pq", "hlg"}]
MCCaps ==
  {ConnectorCaps([colorspaces |-> {"Default", "BT2020_RGB"}, broadcast |-> {}, names |-> names,
                  bpc |-> [range |-> range, hasValue |-> TRUE, value |-> 8]]) :
     names \in {{}, {"HDR_OUTPUT_METADATA"}}, range \in {<<>>, <<6, 8>>, <<8, 10>>}}

\* What is declared does not depend on the layers' order or on one that says
\* nothing, is PQ when any layer is, and is HDR only where the sink takes it.
ASSUME SignalingSound ==
  \A a, b \in MCLayersSaid, caps \in MCCaps :
    LET one == Signaling(<<a>>, caps)  both == Signaling(<<a, b>>, caps)
    IN /\ both = Signaling(<<b, a>>, caps)
       /\ b = [primaries |-> "none", eotf |-> "none"] => both = one
       /\ both.colorspace = "unset" <=> a.primaries = "none" /\ b.primaries = "none"
       /\ both.downgraded => both.metadata.eotf = "none" /\ ~CanSignalHdr(caps)
       /\ both.metadata.eotf = "hlg" => "pq" \notin {a.eotf, b.eotf}
       /\ {a.eotf, b.eotf} \cap {"pq", "hlg"} # {} <=> both.downgraded \/ both.metadata.eotf # "none"
       /\ both.metadata.eotf # "none" => CanSignalHdr(caps)

-----------------------------------------------------------------------------
(* Displays: a connector whose first encoder drives nothing, one that lost  *)
(* its only CRTC to it, and one whose CRTC has no primary plane.           *)

MCMode(w, h, refresh) ==
  [w |-> w, h |-> h, refresh |-> refresh, preferred |-> FALSE, interlaced |-> FALSE]

MCConnectors ==
  << [id |-> 11, kind |-> "HDMIA", encoders |-> <<21, 22>>],
     [id |-> 12, kind |-> "eDP", encoders |-> <<23>>],
     [id |-> 13, kind |-> "Writeback", encoders |-> <<24>>] >>
MCModeLists == {<<>>, <<MCMode(2, 2, 30), MCMode(4, 1, 60)>>}
MCDrives == 21 :> {} @@ 22 :> {31, 32} @@ 23 :> {32} @@ 24 :> {33}
MCCrtcs == <<31, 32, 33>>
MCPlaneList ==
  << [id |-> 41, type |-> "overlay", crtcs |-> {31, 32}],
     [id |-> 42, type |-> "primary", crtcs |-> {31}],
     [id |-> 43, type |-> "primary", crtcs |-> {32}] >>
MCRanks == <<"eDP", "HDMIA">>

MCMenu == [w : {2, 4}, h : {2}, refresh : {30, 60}, preferred : BOOLEAN, interlaced : BOOLEAN]

\* The mode the sink prefers, else one that none is better than.
ASSUME PreferredModeIsBest ==
  \A a, b, c \in MCMenu :
    LET modes == <<a, b, c>>  best == SelectPreferredMode(modes)
    IN /\ best \in ToSet(modes)
       /\ (\E m \in ToSet(modes) : m.preferred) => best.preferred
       /\ ~best.preferred => \A m \in ToSet(modes) : ~Better(m, best)

\* The mode nearest to what was asked, never interlaced; of equals the fastest.
ASSUME NearestModeIsChosen ==
  \A a, b, c \in MCMenu, t \in {[w |-> 3, h |-> 2, refresh |-> 0], [w |-> 4, h |-> 2, refresh |-> 59]} :
    LET modes == <<a, b, c>>  best == SelectMode(modes, t)
    IN IF \A m \in ToSet(modes) : m.interlaced THEN best = NoMode
       ELSE /\ best \in ToSet(modes) /\ ~best.interlaced
            /\ \A m \in ToSet(modes) : ~m.interlaced =>
                 \/ Score(best, t) < Score(m, t)
                 \/ Score(best, t) = Score(m, t) /\ best.refresh >= m.refresh

-----------------------------------------------------------------------------
(* The contents of frames.                                                 *)

MCScreens == "p1" :> [clips |-> TRUE, fences |-> TRUE] @@ "p2" :> [clips |-> FALSE, fences |-> FALSE]

MCStretch(x, w) == [x |-> x, w |-> w]
\* The whole, a pixel, one with a rectangle outside, one that overhangs, and too many.
MCDamages ==
  {<<>>, <<MCStretch(0, 1)>>, <<MCStretch(-1, 2), MCStretch(4, 2)>>, <<MCStretch(1, 4)>>,
   <<MCStretch(0, 1), MCStretch(5, 1), MCStretch(1, 1)>>}

\* "layers_total == layers_assigned + layers_composited + layers_unassigned +
\* layers_skipped_no_frame", where a starved layer is on a plane it was
\* allocated, or in no frame yet.
ASSUME EveryLayerCountedOnce ==
  \A layers \in SUBSET (1..4) : \A pinned, starved \in SUBSET layers :
    \A assigned \in SUBSET (layers \ pinned), absent \in SUBSET (starved \ pinned) :
      LET unplaced == layers \ (pinned \cup assigned \cup absent)
      IN starved \subseteq assigned \cup absent /\ assigned \cap absent = {} =>
           \A k \in 0..Cardinality(unplaced) :
             AccountingBalances(BuildReport(assigned, k, unplaced, pinned,
                                            layers \ starved, starved))

\* A plane cut at the screen's edge keeps its far edge, of the screen and of the
\* source, its scale to within a unit, and never loses a whole pixel of source.
ASSUME CutAtTheEdge ==
  \A pos \in -3..2, len \in 1..4, src \in 0..1, extent \in 1..20 :
    LET c == ClipLeading(pos, len, src, extent)
    IN /\ c.len > 0 /\ c.pos + c.len = pos + len
       /\ c.src + c.extent = src + extent
       /\ pos + len > 0 => c.pos >= 0
       /\ c.extent * len - extent * c.len \in 1 - len..len - 1
       /\ extent < len * FixedOne => c.extent * len >= extent * c.len

-----------------------------------------------------------------------------
(* Negotiation, and the commits of a set.                                  *)

MCLinear == [class |-> "linear", linear |-> TRUE, dcc |-> FALSE]
MCTiled  == [class |-> "tiling", linear |-> FALSE, dcc |-> FALSE]
MCDcc    == [class |-> "compression", linear |-> FALSE, dcc |-> TRUE]
MCAfbc   == [class |-> "compression", linear |-> FALSE, dcc |-> FALSE]
MCModifiers == {MCLinear, MCTiled, MCDcc, MCAfbc}

\* What is agreed on is each side's, once, the better class first, and of a
\* class as the producer listed it; turned on its side, nothing is linear.
ASSUME NegotiationAgrees ==
  \A producer \in UNION {[1..n -> MCModifiers] : n \in 0..3}, plane \in SUBSET MCModifiers,
     turn \in {0, 90} :
    LET out == Negotiate(producer, plane, turn)
        first(m) == CHOOSE i \in DOMAIN producer :
                      producer[i] = m /\ \A j \in 1..i - 1 : producer[j] # m
    IN /\ ToSet(out) = {m \in ToSet(producer) \cap plane : turn = 90 => m \in {MCTiled, MCAfbc}}
       /\ \A i, j \in DOMAIN out : i < j =>
            \/ ClassRank(out[i]) < ClassRank(out[j])
            \/ ClassRank(out[i]) = ClassRank(out[j]) /\ first(out[i]) < first(out[j])

MCFormatPlanes ==
  [type : {"primary", "overlay", "cursor"}, crtcs : {{1}, {2}},
   formats : {{}, {"rgb565"}, {"xrgb", "rgb565"}}, modifiers : {{MCAfbc}, {MCLinear}}]

\* A producer is never left with nothing, and cursor planes have no say; a format
\* is found where a plane of the CRTC takes one, and on the primary if it can be.
ASSUME FormatsAreTaken ==
  \A a, b \in MCFormatPlanes :
    LET planes == <<a, b>>
        format == NegotiateScanoutFormat(planes, 1, <<"xrgb", "rgb565">>)
        takes  == {p \in {a, b} : 1 \in p.crtcs /\ p.formats # {}}
    IN /\ AllowedModifiers(planes, 1, <<MCLinear, MCAfbc>>, 90) # <<>>
       /\ MCAfbc \in CandidateModifiers(planes, 1) <=>
            \E p \in {a, b} : 1 \in p.crtcs /\ p.type # "cursor" /\ p.modifiers = {MCAfbc}
       /\ format = NoFormat <=> takes = {}
       /\ \A p \in takes : p.type = "primary" /\ (p = a \/ a.type # "primary" \/ 1 \notin a.crtcs) =>
            format \in p.formats

MCPolicies == {"Combined", "AutoOnModeset", "PerCrtc"}

\* Every scene is in one commit and no commit is empty; modesets come first, and
\* only a policy that never splits mixes them with what is steady.
ASSUME CommitsPartitionTheSet ==
  \A slots \in [1..3 -> [isHole : BOOLEAN, wantsModeset : BOOLEAN]], policy \in MCPolicies :
    LET groups == PartitionForPolicy(slots, policy)
        modeset(g) == {i \in g : slots[i].wantsModeset}
    IN /\ UNION ToSet(groups) = {i \in 1..3 : ~slots[i].isHole}
       /\ \A g, h \in DOMAIN groups : g # h => groups[g] \cap groups[h] = {}
       /\ {} \notin ToSet(groups)
       /\ policy = "Combined" => Len(groups) <= 1
       /\ policy = "AutoOnModeset" =>
            \A g \in DOMAIN groups : /\ modeset(groups[g]) \in {{}, groups[g]}
                                     /\ g > 1 => modeset(groups[g]) = {}

-----------------------------------------------------------------------------
(* Buffers.                                                                *)

MCLayouts == {<<"camera">>, <<"camera", "depth">>, <<"video", "video">>}

=============================================================================
